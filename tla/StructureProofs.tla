--------------------------- MODULE StructureProofs ---------------------------
(***************************************************************************)
(* Theorems about the parts of Structures, for any files, peers, sections, *)
(* keys, hash, objects, texts and patterns, and any bounds.                *)
(***************************************************************************)
EXTENDS Structures, SequenceTheorems, WellFoundedInduction, TLAPS

-----------------------------------------------------------------------------
(* Sets of numbers and texts *)

\* The least of some naturals.  The order is well-founded, so no induction over
\* an operator is needed.
LEMMA LeastExists ==
  ASSUME NEW T \in SUBSET Nat, T # {}
  PROVE  \E x \in T : \A y \in T : x <= y
<1> DEFINE R == {p \in Nat \X Nat : p[1] < p[2]}
<1>1. IsWellFoundedOn(R, Nat)
  BY NatLessThanWellFounded, Zenon DEF OpToRel
<1>2. \A x, y \in Nat : y < x => <<y, x>> \in R
  OBVIOUS
<1> HIDE DEF R
<1>3. T \subseteq Nat
  OBVIOUS
<1>4. \E x \in T : \A y \in T : ~ (<<y, x>> \in R)
  BY ONLY <1>1, <1>3, T # {}, WFMin, Zenon
<1>5. PICK x \in T : \A y \in T : ~ (<<y, x>> \in R)
  BY <1>4
<1>6. ASSUME NEW y \in T  PROVE x <= y
  <2>1. x \in Nat /\ y \in Nat /\ ~ (<<y, x>> \in R)
    BY <1>5, <1>3
  <2>2. ~ (y < x)
    BY <1>2, <2>1, Zenon
  <2> QED  BY <2>1, <2>2
<1> QED  BY <1>6

\* The greatest of some numbers with a bound.
LEMMA GreatestExists ==
  ASSUME NEW n \in Nat, NEW T \in SUBSET (1..n), T # {}
  PROVE  \E x \in T : \A y \in T : x >= y
<1> DEFINE D == {n - x : x \in T}
<1>1. D \in SUBSET Nat /\ D # {}
  <2>1. \A x \in T : n - x \in Nat
    OBVIOUS
  <2> QED  BY <2>1, Zenon
<1>2. PICK d \in D : \A e \in D : d <= e
  BY <1>1, LeastExists
<1>3. PICK x \in T : d = n - x
  OBVIOUS
<1>4. ASSUME NEW y \in T  PROVE x >= y
  <2>1. n - y \in D
    OBVIOUS
  <2>2. n - x <= n - y
    BY <1>2, <1>3, <2>1, Zenon
  <2> QED  BY <2>2
<1> QED  BY <1>4

\* The bytes of a text, and what a read may be for.
Byte == {"x", "n"}
Kinds == {Io!READ, Io!READUNTIL} \cup 1..MaxBytes

\* Two texts, one behind the other.
Texts == Seq(Byte)
Join(p, q) == p \o q

\* Texts can be joined, and grouped in any way.
LEMMA TextAlgebra ==
  /\ \A p, q \in Texts : Join(p, q) \in Texts
  /\ \A p, q, r \in Texts : Join(Join(p, q), r) = Join(p, Join(q, r))
BY ConcatProperties, ConcatAssociative DEF Texts, Join

\* What was given before stays in front of what is given now.
LEMMA GivenInFront ==
  \A g, d, e, r \in Texts :
    /\ Join(Join(g, d), e) \in Texts
    /\ Join(Join(Join(g, d), e), r) = Join(g, Join(Join(d, e), r))
BY TextAlgebra

\* The same bytes, cut at another place, behind what was given.
LEMMA CutElsewhere ==
  \A g, p, q, u, v \in Texts :
    Join(p, q) = Join(u, v) => Join(Join(g, p), q) = Join(Join(g, u), v)
BY TextAlgebra

\* A read moves bytes from what is not read yet to the buffer.
LEMMA ReadMoves ==
  ASSUME NEW S, NEW b \in Seq(S), NEW r \in Seq(S), NEW n \in 0..Len(r)
  PROVE  /\ b \o SubSeq(r, 1, n) \in Seq(S) /\ SubSeq(r, n + 1, Len(r)) \in Seq(S)
         /\ (b \o SubSeq(r, 1, n)) \o SubSeq(r, n + 1, Len(r)) = b \o r
<1>1. Len(r) \in Nat /\ \A i \in 1..Len(r) : r[i] \in S
  BY LenProperties, ElementOfSeq
<1>2. SubSeq(r, 1, n) \in Seq(S) /\ SubSeq(r, n + 1, Len(r)) \in Seq(S)
  BY <1>1, SubSeqProperties
<1>3. SubSeq(r, 1, n) \o SubSeq(r, n + 1, Len(r)) = r
  <2>1. SubSeq(r, 1, n) \o SubSeq(r, n + 1, Len(r)) = SubSeq(r, 1, Len(r))
    <3>1. 1 \in 1..(Len(r) + 1) /\ n \in (1 - 1)..Len(r) /\ Len(r) \in n..Len(r)
      BY <1>1
    <3> QED  BY <3>1, ConcatAdjacentSubSeq, Zenon
  <2> QED  BY <2>1, SubSeqFull
<1>4. (b \o SubSeq(r, 1, n)) \o SubSeq(r, n + 1, Len(r))
        = b \o (SubSeq(r, 1, n) \o SubSeq(r, n + 1, Len(r)))
  <2>1. \A p, q \in Seq(S) : (b \o p) \o q = b \o (p \o q)
    BY ConcatAssociative, SMTT(30)
  <2> QED  BY <1>2, <2>1, Zenon
<1>5. b \o SubSeq(r, 1, n) \in Seq(S)
  BY <1>2, ConcatProperties, Zenon
<1> QED  BY <1>2, <1>3, <1>4, <1>5, Zenon

Moved(b, r, n) == b \o SubSeq(r, 1, n)
LeftOf(r, n) == SubSeq(r, n + 1, Len(r))

LEMMA PieceMoves ==
  ASSUME NEW b \in Texts, NEW r \in Texts, NEW n \in 0..Len(r)
  PROVE  /\ Moved(b, r, n) \in Texts /\ LeftOf(r, n) \in Texts
         /\ Join(Moved(b, r, n), LeftOf(r, n)) = Join(b, r)
BY ReadMoves, ZenonT(40) DEF Moved, LeftOf, Texts, Join

\* The delimiter a read stops at is there, and none is before it.
LEMMA FirstDelimiter ==
  ASSUME NEW s \in Seq(Byte), Io!Contains(s, "n")
  PROVE  Io!Until(s) \in 1..Len(s) /\ s[Io!Until(s)] = "n"
<1> DEFINE T == {i \in 1..Len(s) : s[i] = "n"}
<1>1. Len(s) \in Nat /\ \A i \in 1..Len(s) : s[i] \in Byte
  BY LenProperties, ElementOfSeq
<1>2. T \in SUBSET Nat /\ T # {}
  BY <1>1 DEF Io!Contains
<1>3. PICK k \in T : \A i \in T : k <= i
  BY <1>2, LeastExists
<1>4. ~ Io!Contains(SubSeq(s, 1, k - 1), "n")
  <2>1. /\ Len(SubSeq(s, 1, k - 1)) = k - 1
        /\ \A i \in 1..(k - 1) : SubSeq(s, 1, k - 1)[i] = s[i]
    <3>1. \A i \in 1..(k - 1) : s[i] \in Byte
      BY <1>1
    <3> QED  BY <1>1, <3>1, SubSeqProperties
  <2>2. \A i \in 1..(k - 1) : s[i] # "n"
    BY <1>1, <1>3
  <2> QED  BY <2>1, <2>2 DEF Io!Contains
<1>5. \E i \in 1..Len(s) : s[i] = "n" /\ ~ Io!Contains(SubSeq(s, 1, i - 1), "n")
  BY <1>3, <1>4
<1> QED  BY <1>5, Zenon DEF Io!Until

\* What the caller gets, the delimiter and what stays in the buffer are the
\* buffer.
LEMMA AnswerSplits ==
  ASSUME NEW s \in Seq(Byte), NEW kind \in Kinds, Io!Enough(kind, s)
  PROVE  LET d == SubSeq(s, 1, Io!Gives(kind, s))
             e == IF kind = Io!READUNTIL THEN <<"n">> ELSE << >>
             r == SubSeq(s, Io!Takes(kind, s) + 1, Len(s))
         IN  d \in Seq(Byte) /\ r \in Seq(Byte) /\ (d \o e) \o r = s
<1> DEFINE g == Io!Gives(kind, s)
           d == SubSeq(s, 1, g)
           e == IF kind = Io!READUNTIL THEN <<"n">> ELSE << >>
           r == SubSeq(s, Io!Takes(kind, s) + 1, Len(s))
<1>1. Len(s) \in Nat /\ \A i \in 1..Len(s) : s[i] \in Byte
  BY LenProperties, ElementOfSeq
<1>2. CASE kind = Io!READUNTIL
  <2>1. Io!Until(s) \in 1..Len(s) /\ s[Io!Until(s)] = "n"
    BY <1>2, FirstDelimiter DEF Io!Enough, Io!READ, Io!READUNTIL
  <2>2. PICK k \in 1..Len(s) : k = Io!Until(s) /\ s[k] = "n"
    BY <2>1
  <2>3. g = k - 1 /\ Io!Takes(kind, s) = k
    BY <1>2, <2>2 DEF Io!Gives, Io!Takes, Io!READ, Io!READUNTIL
  <2>4. SubSeq(s, 1, k - 1) \o SubSeq(s, k, k) = SubSeq(s, 1, k)
    BY <1>1, ConcatAdjacentSubSeq, k - 1 \in 0..Len(s), k \in (k - 1)..Len(s), (k - 1) + 1 = k
  <2>5. SubSeq(s, k, k) = <<"n">>
    <3>1. /\ SubSeq(s, k, k) \in Seq(Byte) /\ Len(SubSeq(s, k, k)) = 1
          /\ SubSeq(s, k, k)[1] = "n"
      BY <1>1, <2>2, SubSeqProperties
    <3>2. <<"n">> \in Seq(Byte) /\ Len(<<"n">>) = 1 /\ <<"n">>[1] = "n"
      BY DEF Byte
    <3>3. \A i \in 1..1 : SubSeq(s, k, k)[i] = <<"n">>[i]
      BY <3>1, <3>2
    <3>4. /\ <<"n">> \in Seq(Byte) /\ Len(SubSeq(s, k, k)) = Len(<<"n">>)
          /\ \A i \in 1..Len(SubSeq(s, k, k)) : SubSeq(s, k, k)[i] = <<"n">>[i]
      BY <3>1, <3>2, <3>3
    <3> QED  BY <3>1, <3>4, SeqEqual, Zenon
  <2>6. SubSeq(s, 1, k) \o SubSeq(s, k + 1, Len(s)) = s
    <3>1. SubSeq(s, 1, k) \o SubSeq(s, k + 1, Len(s)) = SubSeq(s, 1, Len(s))
      BY <1>1, ConcatAdjacentSubSeq
    <3> QED  BY <3>1, SubSeqFull
  <2>7. SubSeq(s, 1, k - 1) \in Seq(Byte) /\ SubSeq(s, k + 1, Len(s)) \in Seq(Byte)
    BY <1>1, SubSeqProperties
  <2> QED  BY <1>2, <2>3, <2>4, <2>5, <2>6, <2>7
<1>3. CASE kind # Io!READUNTIL
  <2>1. g \in 0..Len(s) /\ Io!Takes(kind, s) = g
    BY <1>1, <1>3, TextsAssumption
       DEF TextsAssumption, Kinds, Io!Enough, Io!Gives, Io!Takes, Io!READ, Io!READUNTIL
  <2>2. PICK k \in 0..Len(s) : k = g
    BY <2>1
  <2>3. << >> \o SubSeq(s, 1, k) \in Seq(Byte) /\ SubSeq(s, k + 1, Len(s)) \in Seq(Byte)
        /\ (<< >> \o SubSeq(s, 1, k)) \o SubSeq(s, k + 1, Len(s)) = << >> \o s
    <3>1. << >> \in Seq(Byte)
      OBVIOUS
    <3>2. << >> \in Texts /\ s \in Texts /\ k \in 0..Len(s)
      BY <3>1 DEF Texts
    <3>3. /\ Moved(<< >>, s, k) \in Texts /\ LeftOf(s, k) \in Texts
          /\ Join(Moved(<< >>, s, k), LeftOf(s, k)) = Join(<< >>, s)
      BY <3>2, PieceMoves, Zenon
    <3> QED  BY <3>3, Zenon DEF Moved, LeftOf, Texts, Join
  <2>4. << >> \o s = s /\ SubSeq(s, 1, k) \in Seq(Byte)
    BY <1>1, SubSeqProperties, ConcatEmptySeq
  <2>5. << >> \o SubSeq(s, 1, k) = SubSeq(s, 1, k) /\ SubSeq(s, 1, k) \o << >> = SubSeq(s, 1, k)
    BY <2>4, ConcatEmptySeq
  <2> QED  BY <1>3, <2>1, <2>2, <2>3, <2>4, <2>5
<1> QED  BY <1>2, <1>3

-----------------------------------------------------------------------------
(* Files *)

IoTypes ==
  /\ rest \in Seq(Byte) /\ readBuffer \in Seq(Byte) /\ Buffer \in Seq(Byte) /\ due \in Seq(Byte)
  /\ rtype \in {Io!READNONE} \cup Kinds
  /\ ioClosed \in BOOLEAN /\ ioError \in BOOLEAN

\* What was due when the last read was called is what is in the buffer and not
\* read yet; or, when it is answered, that, what the caller was given before it,
\* and at most a delimiter between them.
NothingIsLost ==
  /\ rtype # Io!READNONE => readBuffer \o rest = due
  /\ rtype = Io!READNONE => \/ due = Buffer \o (readBuffer \o rest)
                            \/ due = (Buffer \o <<"n">>) \o (readBuffer \o rest)

\* A read that ends the file or fails gives all that had come; none follows it.
EndsWithTail ==
  /\ ioClosed => rtype = Io!READNONE /\ Buffer = due
  /\ ioError => rtype = Io!READNONE
  /\ res = -1 => ioError /\ Buffer \o rest = due

IoInv == IoTypes /\ NothingIsLost /\ EndsWithTail

\* All of the file is still to come.
LEMMA IoStart == Io!Init => IoInv
<1> SUFFICES ASSUME Io!Init  PROVE IoInv
  OBVIOUS
<1>1. rest \in Seq(Byte) /\ due = rest /\ readBuffer = << >> /\ Buffer = << >>
  BY TextsAssumption DEF TextsAssumption, Byte, Io!Init
<1>2. << >> \in Seq(Byte) /\ << >> \o (<< >> \o rest) = rest
  <2>1. << >> \o rest = rest
    BY <1>1, ConcatEmptySeq, Zenon
  <2> QED  BY <2>1
<1>3. rtype = Io!READNONE /\ ioClosed = FALSE /\ ioError = FALSE /\ res = 0
  BY DEF Io!Init
<1>4. IoTypes
  BY <1>1, <1>2, <1>3, Zenon DEF IoTypes
<1>5. NothingIsLost
  BY <1>1, <1>2, <1>3, Zenon DEF NothingIsLost
<1>6. EndsWithTail
  BY <1>3 DEF EndsWithTail
<1> QED  BY <1>4, <1>5, <1>6 DEF IoInv

\* While a read waits, nothing of what was due is gone.
LEMMA WaitingHoldsAll ==
  ASSUME IoInv, rtype # Io!READNONE
  PROVE  readBuffer \o rest = due
BY DEF IoInv, NothingIsLost

\* Every read, answer, piece and end keeps the bytes together.
LEMMA IoStep ==
  ASSUME IoInv, [Io!Next]_(Io!vars)
  PROVE  IoInv'
<1>1. ASSUME Io!Answer  PROVE IoInv'
  <2> DEFINE d == SubSeq(readBuffer, 1, Io!Gives(rtype, readBuffer))
             e == IF rtype = Io!READUNTIL THEN <<"n">> ELSE << >>
             r == SubSeq(readBuffer, Io!Takes(rtype, readBuffer) + 1, Len(readBuffer))
  <2>1. /\ readBuffer \in Seq(Byte) /\ rest \in Seq(Byte) /\ due \in Seq(Byte)
        /\ rtype \in Kinds /\ Io!Enough(rtype, readBuffer)
        /\ ~ ioClosed /\ ~ ioError
    BY <1>1 DEF IoInv, IoTypes, EndsWithTail, Io!Answer
  <2>2. d \in Seq(Byte) /\ r \in Seq(Byte) /\ (d \o e) \o r = readBuffer
    BY <2>1, AnswerSplits, Zenon
  <2>3. e \in Seq(Byte) /\ e \in {<<"n">>, << >>}
    <3>1. <<"n">> \in Seq(Byte) /\ << >> \in Seq(Byte)
      BY DEF Byte
    <3>2. e = <<"n">> \/ e = << >>
      OBVIOUS
    <3> HIDE DEF e
    <3> QED  BY <3>1, <3>2, Zenon
  <2>4. Buffer' = d /\ readBuffer' = r /\ UNCHANGED <<rest, due, ioClosed, ioError>>
        /\ rtype' = Io!READNONE /\ res' = Len(d)
    BY <1>1 DEF Io!Answer, Io!flags
  <2>5. readBuffer \o rest = due
    BY <1>1, WaitingHoldsAll DEF Io!Answer
  <2> HIDE DEF d, e, r
  <2>6. d \o e \in Seq(Byte) /\ Len(d) \in Nat /\ d \o << >> = d
    BY <2>2, <2>3, ConcatProperties, LenProperties, ConcatEmptySeq
  <2>7. \A u \in Seq(Byte) : (u \o r) \o rest = u \o (r \o rest)
    <3>1. \A v \in Texts : Join(Join(v, r), rest) = Join(v, Join(r, rest))
      <4>1. r \in Texts /\ rest \in Texts
        BY <2>1, <2>2 DEF Texts
      <4> QED  BY <4>1, TextAlgebra
    <3> QED  BY <3>1 DEF Join, Texts
  <2>8. due = (d \o e) \o (r \o rest)
    BY <2>2, <2>5, <2>6, <2>7
  <2>9. due = d \o (r \o rest) \/ due = (d \o <<"n">>) \o (r \o rest)
    BY <2>3, <2>6, <2>8
  <2>10. NothingIsLost'
    BY <2>4, <2>9 DEF NothingIsLost
  <2>11. IoTypes'
    <3>1. /\ rest' \in Seq(Byte) /\ readBuffer' \in Seq(Byte) /\ Buffer' \in Seq(Byte)
          /\ due' \in Seq(Byte) /\ rtype' \in {Io!READNONE} \cup Kinds
      BY <2>1, <2>2, <2>4
    <3>2. ioClosed' \in BOOLEAN /\ ioError' \in BOOLEAN
      BY <2>4 DEF IoInv, IoTypes
    <3> QED  BY <3>1, <3>2 DEF IoTypes
  <2>12. EndsWithTail'
    BY <2>1, <2>4, <2>6 DEF EndsWithTail
  <2> QED  BY <2>10, <2>11, <2>12 DEF IoInv
<1>2. ASSUME NEW n \in 1..BUF_LEN, Io!ReadMore(n)  PROVE IoInv'
  <2>1. readBuffer \in Seq(Byte) /\ rest \in Seq(Byte)
    BY DEF IoInv, IoTypes
  <2>2. n \in 0..Len(rest)
    <3>1. Io!Min({BUF_LEN, Len(rest)}) \in Int /\ Io!Min({BUF_LEN, Len(rest)}) <= Len(rest)
      <4>1. BUF_LEN \in Nat /\ Len(rest) \in Nat
        BY <2>1, LenProperties, TextsAssumption DEF TextsAssumption
      <4>2. \E x \in {BUF_LEN, Len(rest)} : \A y \in {BUF_LEN, Len(rest)} : x <= y
        BY <4>1
      <4>3. /\ Io!Min({BUF_LEN, Len(rest)}) \in {BUF_LEN, Len(rest)}
            /\ \A y \in {BUF_LEN, Len(rest)} : Io!Min({BUF_LEN, Len(rest)}) <= y
        BY <4>2, Zenon DEF Io!Min
      <4> QED  BY <4>1, <4>3
    <3>2. n \in 1..Io!Min({BUF_LEN, Len(rest)})
      BY <1>2 DEF Io!ReadMore
    <3> QED  BY <2>1, <3>1, <3>2, LenProperties
  <2>3. /\ readBuffer' \in Seq(Byte) /\ rest' \in Seq(Byte)
        /\ readBuffer' \o rest' = readBuffer \o rest
    <3>1. readBuffer \in Texts /\ rest \in Texts /\ n \in 0..Len(rest)
      BY <2>1, <2>2 DEF Texts
    <3>2. /\ Moved(readBuffer, rest, n) \in Texts /\ LeftOf(rest, n) \in Texts
          /\ Join(Moved(readBuffer, rest, n), LeftOf(rest, n)) = Join(readBuffer, rest)
      BY <3>1, PieceMoves, Zenon
    <3>3. readBuffer' = Moved(readBuffer, rest, n) /\ rest' = LeftOf(rest, n)
      BY <1>2, Zenon DEF Io!ReadMore, Moved, LeftOf
    <3> QED  BY <3>2, <3>3, Zenon DEF Texts, Join
  <2>4. UNCHANGED <<Buffer, rtype, ioClosed, ioError, res, due>> /\ readBuffer \o rest = due
    BY <1>2, WaitingHoldsAll DEF Io!ReadMore, Io!flags
  <2>5. rtype # Io!READNONE
    BY <1>2 DEF Io!ReadMore
  <2>6. ~ ioClosed /\ ~ ioError /\ res # -1
    BY <2>5 DEF IoInv, EndsWithTail
  <2>7. IoTypes'
    BY <2>3, <2>4 DEF IoInv, IoTypes
  <2>8. NothingIsLost' /\ EndsWithTail'
    BY <2>3, <2>4, <2>5, <2>6 DEF NothingIsLost, EndsWithTail
  <2> QED  BY <2>7, <2>8 DEF IoInv
<1>3. ASSUME NEW ret \in {0, -1}, Io!ReadEnds(ret)  PROVE IoInv'
  <2>1. /\ rtype' = Io!READNONE /\ res' = ret /\ readBuffer' = << >>
        /\ Buffer' = readBuffer /\ UNCHANGED <<rest, due>>
        /\ ioClosed' = (ioClosed \/ ret = 0) /\ ioError' = (ioError \/ ret = -1)
        /\ ret = -1 \/ (ret = 0 /\ rest = << >>)
    BY <1>3 DEF Io!ReadEnds
  <2>2. rtype # Io!READNONE /\ readBuffer \o rest = due
    BY <1>3, WaitingHoldsAll DEF Io!ReadEnds
  <2>3. /\ readBuffer \in Seq(Byte) /\ rest \in Seq(Byte) /\ << >> \in Seq(Byte)
        /\ ~ ioClosed /\ ~ ioError
    BY <2>2 DEF IoInv, IoTypes, EndsWithTail
  <2>4. << >> \o rest = rest /\ readBuffer \o << >> = readBuffer
    BY <2>3, ConcatEmptySeq, Zenon
  <2>5. IoTypes'
    BY <2>1, <2>3 DEF IoInv, IoTypes
  <2>6. NothingIsLost'
    BY <2>1, <2>2, <2>4 DEF NothingIsLost
  <2>7. EndsWithTail'
    <3>1. ret = 0 => readBuffer = due
      <4>1. ret = 0 => rest = << >>
        BY <1>3 DEF Io!ReadEnds
      <4> QED  BY <2>2, <2>4, <4>1, Zenon
    <3>2. ioClosed' => ret = 0
      <4>1. ioClosed' = (ioClosed \/ ret = 0) /\ ~ ioClosed
        BY <2>1, <2>3, Zenon
      <4> QED  BY <4>1, Zenon
    <3>3. ret = -1 => ioError'
      <4>1. ioError' = (ioError \/ ret = -1)
        BY <2>1, Zenon
      <4> QED  BY <4>1, Zenon
    <3>4. Buffer' = readBuffer /\ due' = due /\ rest' = rest /\ res' = ret
          /\ rtype' = Io!READNONE
      BY <2>1
    <3> QED  BY <2>2, <3>1, <3>2, <3>3, <3>4, Zenon DEF EndsWithTail
  <2> QED  BY <2>5, <2>6, <2>7 DEF IoInv
<1>4. ASSUME NEW kind \in Kinds, Io!Call(kind)  PROVE IoInv'
  <2>1. /\ due' = readBuffer \o rest /\ rtype' = kind /\ ~ ioClosed /\ ~ ioError
        /\ UNCHANGED <<rest, readBuffer, Buffer, ioClosed, ioError, res>>
    BY <1>4 DEF Io!Call, Io!flags
  <2>2. due' \in Seq(Byte)
    BY <2>1, ConcatProperties DEF IoInv, IoTypes
  <2>3. rtype' # Io!READNONE
    BY <2>1 DEF Kinds, Io!READNONE, Io!READ, Io!READUNTIL
  <2>4. IoTypes'
    BY <2>1, <2>2 DEF IoInv, IoTypes
  <2>5. NothingIsLost' /\ EndsWithTail'
    BY <2>1, <2>3 DEF IoInv, NothingIsLost, EndsWithTail
  <2> QED  BY <2>4, <2>5 DEF IoInv
<1>5. ASSUME Io!SpeIoWrite  PROVE IoInv'
  BY <1>5 DEF IoInv, IoTypes, NothingIsLost, EndsWithTail, Io!SpeIoWrite, Io!readVars, Io!flags
<1>6. ASSUME Io!SpeIoFlush  PROVE IoInv'
  <2>1. /\ ~ ioClosed /\ ~ ioError /\ rtype = Io!READNONE
        /\ UNCHANGED <<rest, readBuffer, Buffer, rtype, due, ioClosed>>
        /\ res' \in Nat /\ ioError' \in BOOLEAN
    BY <1>6 DEF Io!SpeIoFlush, Io!readVars
  <2>2. IoTypes' /\ NothingIsLost'
    BY <2>1 DEF IoInv, IoTypes, NothingIsLost
  <2>3. EndsWithTail'
    BY <2>1 DEF EndsWithTail
  <2> QED  BY <2>2, <2>3 DEF IoInv
<1>7. ASSUME UNCHANGED Io!vars  PROVE IoInv'
  BY <1>7 DEF IoInv, IoTypes, NothingIsLost, EndsWithTail, Io!vars
<1> QED
  BY <1>1, <1>2, <1>3, <1>4, <1>5, <1>6, <1>7 DEF Io!Next, Kinds

\* The concatenations associate.
LEMMA IoOrder == IoInv => Io!ReadsAreInOrder
<1> SUFFICES ASSUME IoInv  PROVE Io!ReadsAreInOrder
  OBVIOUS
<1> DEFINE u == readBuffer \o rest
<1>1. /\ rest \in Seq(Byte) /\ readBuffer \in Seq(Byte) /\ Buffer \in Seq(Byte)
      /\ Buffer \o <<"n">> \in Seq(Byte)
  <2>1. rest \in Seq(Byte) /\ readBuffer \in Seq(Byte) /\ Buffer \in Seq(Byte)
    BY DEF IoInv, IoTypes
  <2>2. <<"n">> \in Seq(Byte)
    BY DEF Byte
  <2> QED  BY <2>1, <2>2, ConcatProperties
<1>2. /\ Buffer \o u = (Buffer \o readBuffer) \o rest
      /\ (Buffer \o <<"n">>) \o u = ((Buffer \o <<"n">>) \o readBuffer) \o rest
  <2>1. \A v \in Seq(Byte) : v \o (readBuffer \o rest) = (v \o readBuffer) \o rest
    <3>1. \A v \in Texts : Join(v, Join(readBuffer, rest)) = Join(Join(v, readBuffer), rest)
      <4>1. readBuffer \in Texts /\ rest \in Texts
        BY <1>1 DEF Texts
      <4> QED  BY <4>1, TextAlgebra
    <3> QED  BY <3>1 DEF Join, Texts
  <2> QED  BY <1>1, <2>1, Zenon
<1>3. (rtype # Io!READNONE => u = due)
      /\ (rtype = Io!READNONE => due = Buffer \o u \/ due = (Buffer \o <<"n">>) \o u)
  BY DEF IoInv, NothingIsLost
<1>4. (ioClosed => Buffer = due) /\ (res = -1 => Buffer \o rest = due)
  BY DEF IoInv, EndsWithTail
<1> HIDE DEF u
<1>5. rtype = Io!READNONE =>
        \/ (Buffer \o readBuffer) \o rest = due
        \/ ((Buffer \o <<"n">>) \o readBuffer) \o rest = due
  BY <1>2, <1>3, Zenon
<1>6. rtype # Io!READNONE => readBuffer \o rest = due
  BY <1>3, Zenon DEF u
<1> QED  BY <1>4, <1>5, <1>6, Zenon DEF Io!ReadsAreInOrder

\* spe_io.c:21-105.  Whatever the cuts in which the bytes of a file come, and
\* wherever it ends, none is lost or read twice.
THEOREM IoInvariance == Io!Spec => []IoInv
<1>1. Io!Init => IoInv
  BY IoStart
<1>2. IoInv /\ [Io!Next]_(Io!vars) => IoInv'
  BY IoStep
<1> QED  BY <1>1, <1>2, PTL DEF Io!Spec

-----------------------------------------------------------------------------
(* Blocking connections *)

ConbTypes ==
  /\ stream \in Seq(Byte) /\ unread \in Seq(Byte) /\ conbBuffer \in Seq(Byte)
  /\ data \in Seq(Byte) /\ given \in Seq(Byte)
  /\ conbType \in {Conb!READNONE} \cup Kinds
  /\ open \in Int /\ failures \in Nat /\ used \in BOOLEAN

\* The slot is free while the addresses are tried, and only its owner reads.
SlotHasOneUse ==
  /\ address # 0 => ~ used
  /\ conbType # Conb!READNONE => used

ConbInv == ConbTypes /\ SlotHasOneUse /\ Conb!StreamIsReadInOrder

\* Both readers wait for the same and take the same.
LEMMA SameReads ==
  ASSUME NEW kind, NEW s
  PROVE  /\ Conb!Enough(kind, s) <=> Io!Enough(kind, s)
         /\ Conb!Gives(kind, s) = Io!Gives(kind, s)
         /\ Conb!Takes(kind, s) = Io!Takes(kind, s)
         /\ Conb!READUNTIL = Io!READUNTIL /\ Conb!READ = Io!READ /\ Conb!READNONE = Io!READNONE
<1>1. Conb!READUNTIL = Io!READUNTIL /\ Conb!READ = Io!READ /\ Conb!READNONE = Io!READNONE
  BY DEF Conb!READUNTIL, Io!READUNTIL, Conb!READ, Io!READ, Conb!READNONE, Io!READNONE
<1>2. \A t, e : Conb!Contains(t, e) <=> Io!Contains(t, e)
  BY Zenon DEF Conb!Contains, Io!Contains
<1>3. Conb!Until(s) = Io!Until(s)
  BY Zenon DEF Conb!Until, Io!Until, Conb!Contains, Io!Contains
<1>4. Conb!Enough(kind, s) <=> Io!Enough(kind, s)
  BY <1>1, <1>2 DEF Conb!Enough, Io!Enough
<1>5. Conb!Gives(kind, s) = Io!Gives(kind, s)
  BY <1>1, <1>3 DEF Conb!Gives, Io!Gives
<1>6. Conb!Takes(kind, s) = Io!Takes(kind, s)
  BY <1>1, <1>3, <1>5 DEF Conb!Takes, Io!Takes
<1> QED  BY <1>1, <1>4, <1>5, <1>6

\* No slot is in use at first.
LEMMA ConbStart == Conb!Init => ConbInv
<1> SUFFICES ASSUME Conb!Init  PROVE ConbInv
  OBVIOUS
<1>1. /\ stream = << >> /\ unread = << >> /\ conbBuffer = << >> /\ data = << >> /\ given = << >>
      /\ conbType = Conb!READNONE /\ open = 0 /\ failures = 0 /\ used = FALSE /\ address = 0
  BY DEF Conb!Init
<1>2. ConbTypes
  <2>1. << >> \in Seq(Byte)
    OBVIOUS
  <2>2. open \in Int /\ failures \in Nat
    BY <1>1
  <2> QED  BY <1>1, <2>1, <2>2, Zenon DEF ConbTypes
<1>3. SlotHasOneUse
  BY <1>1 DEF SlotHasOneUse
<1>4. Conb!StreamIsReadInOrder
  BY <1>1 DEF Conb!StreamIsReadInOrder
<1> QED  BY <1>2, <1>3, <1>4 DEF ConbInv

\* The steps of a connect, the end of a connection, and what touches no byte.
LEMMA ConbSlotStep ==
  ASSUME ConbInv,
         \/ Conb!spe_conb_connect \/ Conb!NextAddress \/ Conb!SocketIsLeft
         \/ Conb!CreateFails \/ Conb!spe_conb_destroy \/ Conb!spe_conb_set_timeout
         \/ \E len \in 1..MaxBytes : Conb!spe_conb_writeb(len)
         \/ UNCHANGED Conb!vars
  PROVE  ConbInv'
<1> USE DEF Conb!readVars
<1>1. /\ UNCHANGED <<stream, unread, conbBuffer, data, given, conbType>>
      /\ open' \in Int /\ failures' \in Nat /\ used' \in BOOLEAN
      /\ used' => used
      /\ open' <= failures' + (IF used' THEN 1 ELSE 0)
      /\ SlotHasOneUse'
  <2> USE DEF ConbInv, ConbTypes, SlotHasOneUse, Conb!StreamIsReadInOrder
  <2>1. CASE Conb!spe_conb_connect
    BY <2>1 DEF Conb!spe_conb_connect
  <2>2. CASE Conb!NextAddress
    BY <2>2 DEF Conb!NextAddress
  <2>3. CASE Conb!SocketIsLeft
    BY <2>3 DEF Conb!SocketIsLeft
  <2>4. CASE Conb!CreateFails
    BY <2>4 DEF Conb!CreateFails
  <2>5. CASE Conb!spe_conb_destroy
    <3>1. used /\ ~ used' /\ open' = open - 1 /\ failures' = failures /\ used' = FALSE
      BY <2>5 DEF Conb!spe_conb_destroy
    <3>2. open <= failures + 1
      BY <3>1
    <3>3. open' <= failures' + (IF used' THEN 1 ELSE 0)
      BY <3>1, <3>2
    <3>4. open' \in Int /\ failures' \in Nat /\ used' \in BOOLEAN
      <4>1. open \in Int /\ failures \in Nat
        OBVIOUS
      <4>2. used' \in BOOLEAN
        BY <3>1
      <4> QED  BY <3>1, <4>1, <4>2
    <3>5. /\ UNCHANGED <<stream, unread, conbBuffer, data, given, conbType, address>>
          /\ conbType = Conb!READNONE
      BY <2>5 DEF Conb!spe_conb_destroy
    <3>6. SlotHasOneUse'
      BY <3>1, <3>5 DEF SlotHasOneUse
    <3> HIDE DEF ConbInv, ConbTypes, SlotHasOneUse, Conb!StreamIsReadInOrder
    <3> QED  BY <3>1, <3>3, <3>4, <3>5, <3>6
  <2>6. CASE Conb!spe_conb_set_timeout
    BY <2>6 DEF Conb!spe_conb_set_timeout, Conb!connectVars
  <2>7. CASE \E len \in 1..MaxBytes : Conb!spe_conb_writeb(len)
    BY <2>7 DEF Conb!spe_conb_writeb, Conb!connectVars
  <2>8. CASE UNCHANGED Conb!vars
    BY <2>8 DEF Conb!vars, Conb!connectVars
  <2> QED  BY <2>1, <2>2, <2>3, <2>4, <2>5, <2>6, <2>7, <2>8
<1>2. ConbTypes'
  BY <1>1 DEF ConbInv, ConbTypes
<1>3. Conb!StreamIsReadInOrder'
  BY <1>1 DEF ConbInv, Conb!StreamIsReadInOrder
<1> QED  BY <1>1, <1>2, <1>3 DEF ConbInv

\* A connection starts with nothing of the one before it in its slot.
LEMMA ConbCreateStep ==
  ASSUME ConbInv, Conb!spe_conb_create
  PROVE  ConbInv'
<1>1. /\ stream' \in Seq(Byte) /\ unread' = stream' /\ conbBuffer' = << >> /\ given' = << >>
      /\ data' = data /\ conbType' = Conb!READNONE /\ used' = TRUE /\ address' = 0
      /\ open' = open + 1 /\ failures' = failures
  BY TextsAssumption DEF TextsAssumption, Byte, Conb!spe_conb_create
<1>2. /\ open \in Int /\ failures \in Nat /\ open <= failures
      /\ data \in Seq(Byte)
  BY DEF ConbInv, ConbTypes, SlotHasOneUse, Conb!StreamIsReadInOrder, Conb!spe_conb_create
<1>3. ConbTypes'
  <2>1. << >> \in Seq(Byte)
    OBVIOUS
  <2>2. open' \in Int /\ failures' \in Nat
    BY <1>1, <1>2
  <2> QED  BY <1>1, <1>2, <2>1, <2>2, Zenon DEF ConbTypes
<1>4. (given' \o conbBuffer') \o unread' = stream'
  <2>1. << >> \o << >> = << >> /\ << >> \o stream' = stream'
    BY <1>1, ConcatEmptySeq, EmptySeq
  <2> QED  BY <1>1, <2>1
<1>5. Conb!StreamIsReadInOrder'
  BY <1>1, <1>2, <1>4 DEF Conb!StreamIsReadInOrder
<1>6. SlotHasOneUse'
  BY <1>1 DEF SlotHasOneUse
<1> QED  BY <1>3, <1>5, <1>6 DEF ConbInv

\* What the reads of a connection do to its bytes.
LEMMA ConbReadStep ==
  ASSUME ConbInv,
         \/ Conb!Answer
         \/ \E kind \in Kinds : Conb!Call(kind)
         \/ \E n \in 1..BUF_SIZE : Conb!ReadMore(n)
         \/ \E ret \in {Conb!SPE_CONB_CLOSED, Conb!SPE_CONB_ERROR, Conb!SPE_CONB_TIMEOUT} :
              Conb!ReadEnds(ret)
  PROVE  ConbInv'
<1>1. /\ stream \in Seq(Byte) /\ unread \in Seq(Byte) /\ conbBuffer \in Seq(Byte)
      /\ data \in Seq(Byte) /\ given \in Seq(Byte)
  BY DEF ConbInv, ConbTypes
<1>2. given \o conbBuffer \in Seq(Byte)
  BY <1>1, ConcatProperties
<1>3. ASSUME UNCHANGED <<open, failures, used, stream, address>>,
             unread' \in Seq(Byte), conbBuffer' \in Seq(Byte), data' \in Seq(Byte),
             given' \in Seq(Byte), conbType' \in {Conb!READNONE} \cup Kinds,
             used, (given' \o conbBuffer') \o unread' = (given \o conbBuffer) \o unread
      PROVE  ConbInv'
  <2>1. ConbTypes'
    BY <1>3 DEF ConbInv, ConbTypes
  <2>2. SlotHasOneUse'
    BY <1>3 DEF ConbInv, SlotHasOneUse
  <2>3. Conb!StreamIsReadInOrder'
    BY <1>3 DEF ConbInv, Conb!StreamIsReadInOrder
  <2> QED  BY <2>1, <2>2, <2>3 DEF ConbInv
<1>4. ASSUME Conb!Answer  PROVE ConbInv'
  <2> DEFINE d == SubSeq(conbBuffer, 1, Io!Gives(conbType, conbBuffer))
             e == IF conbType = Io!READUNTIL THEN <<"n">> ELSE << >>
             r == SubSeq(conbBuffer, Io!Takes(conbType, conbBuffer) + 1, Len(conbBuffer))
  <2>1. conbType \in Kinds /\ Io!Enough(conbType, conbBuffer) /\ used
    BY <1>4, SameReads DEF ConbInv, ConbTypes, SlotHasOneUse, Conb!Answer
  <2>2. d \in Seq(Byte) /\ r \in Seq(Byte) /\ (d \o e) \o r = conbBuffer
    BY <1>1, <2>1, AnswerSplits, Zenon
  <2>3. e \in Seq(Byte)
    <3>1. <<"n">> \in Seq(Byte) /\ << >> \in Seq(Byte)
      BY DEF Byte
    <3>2. e = <<"n">> \/ e = << >>
      OBVIOUS
    <3> HIDE DEF e
    <3> QED  BY <3>1, <3>2, Zenon
  <2>4. /\ data' = d /\ conbBuffer' = r /\ given' = (given \o d) \o e
        /\ conbType' = Conb!READNONE
        /\ UNCHANGED <<open, failures, used, stream, address, unread>>
    BY <1>4, SameReads DEF Conb!Answer, Conb!connectVars
  <2> HIDE DEF d, e, r
  <2>5. /\ (given \o d) \o e \in Seq(Byte)
        /\ ((given \o d) \o e) \o r = given \o ((d \o e) \o r)
    <3>1. given \in Seq(Byte)
      BY <1>1
    <3>2. given \in Texts /\ d \in Texts /\ e \in Texts /\ r \in Texts
      BY <2>2, <2>3, <3>1 DEF Texts
    <3>3. /\ Join(Join(given, d), e) \in Texts
          /\ Join(Join(Join(given, d), e), r) = Join(given, Join(Join(d, e), r))
      BY <3>2, GivenInFront
    <3> QED  BY <3>3 DEF Join, Texts
  <2>6. (given' \o conbBuffer') \o unread' = (given \o conbBuffer) \o unread
    BY <2>2, <2>4, <2>5
  <2> QED  BY <1>1, <1>3, <2>1, <2>2, <2>4, <2>5, <2>6
<1>5. ASSUME NEW kind \in Kinds, Conb!Call(kind)  PROVE ConbInv'
  BY <1>1, <1>3, <1>5 DEF Conb!Call, Conb!connectVars
<1>6. ASSUME NEW n \in 1..BUF_SIZE, Conb!ReadMore(n)  PROVE ConbInv'
  <2>1. n \in 0..Len(unread) /\ used
    BY <1>1, <1>6, LenProperties, TextsAssumption
       DEF TextsAssumption, ConbInv, SlotHasOneUse, Conb!ReadMore
  <2> DEFINE b == conbBuffer \o SubSeq(unread, 1, n)
             u == SubSeq(unread, n + 1, Len(unread))
  <2>2. b \in Seq(Byte) /\ u \in Seq(Byte) /\ b \o u = conbBuffer \o unread
    <3>1. conbBuffer \in Seq(Byte) /\ unread \in Seq(Byte)
      BY <1>1
    <3>2. conbBuffer \in Texts /\ unread \in Texts /\ n \in 0..Len(unread)
      BY <2>1, <3>1 DEF Texts
    <3>3. /\ Moved(conbBuffer, unread, n) \in Texts /\ LeftOf(unread, n) \in Texts
          /\ Join(Moved(conbBuffer, unread, n), LeftOf(unread, n)) = Join(conbBuffer, unread)
      BY <3>2, PieceMoves, Zenon
    <3> QED  BY <3>3, Zenon DEF Moved, LeftOf, Texts, Join
  <2>3. /\ conbBuffer' = b /\ unread' = u
        /\ UNCHANGED <<open, failures, used, stream, address, data, given, conbType>>
    BY <1>6 DEF Conb!ReadMore, Conb!connectVars
  <2> HIDE DEF b, u
  <2>4. (given \o b) \o u = (given \o conbBuffer) \o unread
    <3>1. given \in Seq(Byte) /\ conbBuffer \in Seq(Byte) /\ unread \in Seq(Byte)
      BY <1>1
    <3>2. /\ given \in Texts /\ b \in Texts /\ u \in Texts /\ conbBuffer \in Texts
          /\ unread \in Texts /\ Join(b, u) = Join(conbBuffer, unread)
      BY <2>2, <3>1 DEF Texts, Join
    <3>3. Join(Join(given, b), u) = Join(Join(given, conbBuffer), unread)
      BY <3>2, CutElsewhere
    <3> QED  BY <3>3 DEF Join
  <2> QED  BY <1>1, <1>3, <2>1, <2>2, <2>3, <2>4 DEF ConbInv, ConbTypes
<1>7. ASSUME NEW ret, Conb!ReadEnds(ret)  PROVE ConbInv'
  <2>1. /\ data' = conbBuffer /\ conbBuffer' = << >> /\ given' = given \o conbBuffer
        /\ conbType' = Conb!READNONE
        /\ UNCHANGED <<open, failures, used, stream, address, unread>>
    BY <1>7 DEF Conb!ReadEnds, Conb!connectVars
  <2>2. used
    BY <1>7 DEF ConbInv, SlotHasOneUse, Conb!ReadEnds
  <2>3. /\ given \o conbBuffer \in Seq(Byte) /\ << >> \in Seq(Byte)
        /\ (given \o conbBuffer) \o << >> = given \o conbBuffer
    BY <1>1, <1>2, ConcatEmptySeq
  <2> QED  BY <1>1, <1>3, <2>1, <2>2, <2>3
<1> QED  BY <1>4, <1>5, <1>6, <1>7

\* spe_conb.c:28-79, 185-209.  The reads of a connection give the bytes of its
\* own peer, in order and each once, over every use of the slot before.
THEOREM ConbInvariance == Conb!Spec => []ConbInv
<1>1. Conb!Init => ConbInv
  BY ConbStart
<1>2. ConbInv /\ [Conb!Next]_(Conb!vars) => ConbInv'
  <2> SUFFICES ASSUME ConbInv, [Conb!Next]_(Conb!vars)  PROVE ConbInv'
    OBVIOUS
  <2>1. {Conb!READ, Conb!READUNTIL} \cup 1..MaxBytes = Kinds
    BY SameReads DEF Kinds
  <2> QED  BY <2>1, ConbSlotStep, ConbCreateStep, ConbReadStep, Zenon DEF Conb!Next
<1> QED  BY <1>1, <1>2, PTL DEF Conb!Spec

-----------------------------------------------------------------------------
(* Options *)

Setting == [sec : Sections, key : Keys, val : Values]

\* The section of a line, the lines and the settings of a key in a section, over
\* the lines and settings themselves.
SectionAt(r, i) ==
  LET before == {j \in 1..i : r[j].kind = "section"}
  IN  IF before = {} THEN "global" ELSE r[Options!Max(before)].name
LinesOf(r, s, k) ==
  {i \in DOMAIN r : r[i].kind = "option" /\ r[i].key = k /\ SectionAt(r, i) = s}
SettingsOf(o, s, k) == {i \in DOMAIN o : o[i].sec = s /\ o[i].key = k}

IsLeast(i, T) == i \in T /\ \A j \in T : i <= j

\* Neither has the key; or the first setting has the value of the first line.
SameFirst(r, o, s, k) ==
  \/ LinesOf(r, s, k) = {} /\ SettingsOf(o, s, k) = {}
  \/ \E i, j \in Nat : /\ IsLeast(i, LinesOf(r, s, k)) /\ IsLeast(j, SettingsOf(o, s, k))
                       /\ o[j].val = r[i].val

OptionTypes ==
  /\ file \in Seq(Options!Lines) /\ read \in Seq(Options!Lines) /\ options \in Seq(Setting)
  /\ sec \in Sections /\ optStatus \in {"reading", "true", "false", "destroyed"}

\* The loop goes on after no line that ends it; a file is accepted at its end or
\* at an empty line, and never with a wrong line.
EndIsRight ==
  /\ \A i \in DOMAIN file : file[i].kind = "unterminated" => i = Len(file)
  /\ optStatus = "reading" => \A i \in DOMAIN read : read[i].kind \notin {"empty", "wrong"}
  /\ optStatus = "true" =>
       /\ \A i \in DOMAIN read : read[i].kind # "wrong"
       /\ file = << >> \/ \E i \in DOMAIN read : read[i].kind = "empty"

OptionsInv ==
  /\ OptionTypes /\ EndIsRight
  /\ sec = SectionAt(read, Len(read))
  /\ optStatus # "destroyed" => \A s \in Sections, k \in Keys : SameFirst(read, options, s, k)

\* A further line leaves the sections of those before it, and starts one or is in
\* that of the line before it.
LEMMA SectionsStay ==
  ASSUME NEW r \in Seq(Options!Lines), NEW l \in Options!Lines
  PROVE  /\ \A i \in 0..Len(r) : SectionAt(Append(r, l), i) = SectionAt(r, i)
         /\ SectionAt(Append(r, l), Len(r) + 1)
              = IF l.kind = "section" THEN l.name ELSE SectionAt(r, Len(r))
<1> DEFINE q == Append(r, l)
           n == Len(r)
<1>1. n \in Nat /\ q[n + 1] = l /\ \A i \in 1..n : q[i] = r[i]
  BY AppendProperties, LenProperties
<1> HIDE DEF q, n
<1>2. ASSUME NEW i \in 0..n  PROVE SectionAt(q, i) = SectionAt(r, i)
  <2> DEFINE b == {j \in 1..i : r[j].kind = "section"}
  <2>1. {j \in 1..i : q[j].kind = "section"} = b
    BY <1>1
  <2>2. CASE b = {}
    BY <2>1, <2>2, Zenon DEF SectionAt
  <2>3. CASE b # {}
    <3>1. \E x \in b : \A y \in b : x >= y
      <4>1. i \in Nat /\ b \in SUBSET (1..i)
        BY <1>1
      <4> HIDE DEF b
      <4> QED  BY <2>3, <4>1, GreatestExists
    <3>2. Options!Max(b) \in b
      <4> HIDE DEF b
      <4> QED  BY <3>1, Zenon DEF Options!Max
    <3>3. q[Options!Max(b)] = r[Options!Max(b)]
      BY <1>1, <3>2
    <3> QED  BY <2>1, <2>3, <3>3, Zenon DEF SectionAt
  <2> QED  BY <2>2, <2>3
<1>3. CASE l.kind = "section"
  <2> DEFINE b == {j \in 1..(n + 1) : q[j].kind = "section"}
  <2>1. n + 1 \in b /\ \A y \in b : n + 1 >= y
    BY <1>1, <1>3
  <2>2. Options!Max(b) = n + 1
    <3>1. Options!Max(b) \in b /\ \A y \in b : Options!Max(b) >= y
      <4> HIDE DEF b
      <4> QED  BY <2>1, Zenon DEF Options!Max
    <3>2. Options!Max(b) \in Int /\ Options!Max(b) >= n + 1 /\ n + 1 >= Options!Max(b)
      BY <1>1, <2>1, <3>1
    <3> HIDE DEF b
    <3> QED  BY <1>1, <3>2
  <2>3. b # {}
    BY <2>1
  <2>4. SectionAt(q, n + 1) = q[Options!Max(b)].name
    BY <2>3, Zenon DEF SectionAt
  <2> HIDE DEF b
  <2> QED  BY <1>1, <1>2, <1>3, <2>2, <2>4 DEF q, n
<1>4. CASE l.kind # "section"
  <2>1. {j \in 1..(n + 1) : q[j].kind = "section"} = {j \in 1..n : q[j].kind = "section"}
    BY <1>1, <1>4
  <2>2. SectionAt(q, n + 1) = SectionAt(q, n)
    BY <2>1, Zenon DEF SectionAt
  <2>3. n \in 0..n
    BY <1>1
  <2> QED  BY <1>2, <1>4, <2>2, <2>3 DEF q, n
<1> QED  BY <1>3, <1>4

\* A set of numbers up to a bound, and what it may gain when the bound grows.
LEMMA GainsOne ==
  ASSUME NEW n \in Nat, NEW T, NEW U, T \subseteq 1..n, U \subseteq 1..(n + 1),
         \A i \in 1..n : i \in U <=> i \in T
  PROVE  /\ n + 1 \in U => U = T \cup {n + 1}
         /\ n + 1 \notin U => U = T
<1>1. \A i \in 1..(n + 1) : i \in 1..n \/ i = n + 1
  OBVIOUS
<1> QED  BY <1>1

\* A further line is one of a key's lines if it sets the key in the section.
LEMMA LinesGrow ==
  ASSUME NEW r \in Seq(Options!Lines), NEW l \in Options!Lines, NEW s, NEW k
  PROVE  /\ l.kind = "option" /\ l.key = k /\ SectionAt(r, Len(r)) = s =>
              LinesOf(Append(r, l), s, k) = LinesOf(r, s, k) \cup {Len(r) + 1}
         /\ ~ (l.kind = "option" /\ l.key = k /\ SectionAt(r, Len(r)) = s) =>
              LinesOf(Append(r, l), s, k) = LinesOf(r, s, k)
<1> DEFINE q == Append(r, l)
           n == Len(r)
<1>1. /\ n \in Nat /\ q[n + 1] = l /\ \A i \in 1..n : q[i] = r[i]
      /\ DOMAIN q = 1..(n + 1) /\ DOMAIN r = 1..n
  BY AppendProperties, LenProperties
<1>2. /\ \A i \in 0..n : SectionAt(q, i) = SectionAt(r, i)
      /\ l.kind = "option" => SectionAt(q, n + 1) = SectionAt(r, n)
  BY SectionsStay
<1> HIDE DEF q, n
<1>3. \A i \in 1..n : i \in LinesOf(q, s, k) <=> i \in LinesOf(r, s, k)
  BY <1>1, <1>2 DEF LinesOf
<1>4. n + 1 \in LinesOf(q, s, k) <=> l.kind = "option" /\ l.key = k /\ SectionAt(r, n) = s
  BY <1>1, <1>2 DEF LinesOf
<1>5. LinesOf(q, s, k) \subseteq 1..(n + 1) /\ LinesOf(r, s, k) \subseteq 1..n
  BY <1>1 DEF LinesOf
<1>6. /\ n + 1 \in LinesOf(q, s, k) =>
           LinesOf(q, s, k) = LinesOf(r, s, k) \cup {n + 1}
      /\ n + 1 \notin LinesOf(q, s, k) => LinesOf(q, s, k) = LinesOf(r, s, k)
  BY <1>1, <1>3, <1>5, GainsOne
<1> QED  BY <1>4, <1>6, Zenon DEF q, n

\* The same of the settings.
LEMMA SettingsGrow ==
  ASSUME NEW o \in Seq(Setting), NEW e \in Setting, NEW s, NEW k
  PROVE  /\ e.sec = s /\ e.key = k =>
              SettingsOf(Append(o, e), s, k) = SettingsOf(o, s, k) \cup {Len(o) + 1}
         /\ ~ (e.sec = s /\ e.key = k) =>
              SettingsOf(Append(o, e), s, k) = SettingsOf(o, s, k)
<1> DEFINE q == Append(o, e)
           n == Len(o)
<1>1. /\ n \in Nat /\ q[n + 1] = e /\ \A i \in 1..n : q[i] = o[i]
      /\ DOMAIN q = 1..(n + 1) /\ DOMAIN o = 1..n
  BY AppendProperties, LenProperties
<1> HIDE DEF q, n
<1>2. \A i \in 1..n : i \in SettingsOf(q, s, k) <=> i \in SettingsOf(o, s, k)
  BY <1>1 DEF SettingsOf
<1>3. n + 1 \in SettingsOf(q, s, k) <=> e.sec = s /\ e.key = k
  BY <1>1 DEF SettingsOf
<1>4. SettingsOf(q, s, k) \subseteq 1..(n + 1) /\ SettingsOf(o, s, k) \subseteq 1..n
  BY <1>1 DEF SettingsOf
<1>5. /\ n + 1 \in SettingsOf(q, s, k) =>
           SettingsOf(q, s, k) = SettingsOf(o, s, k) \cup {n + 1}
      /\ n + 1 \notin SettingsOf(q, s, k) => SettingsOf(q, s, k) = SettingsOf(o, s, k)
  BY <1>1, <1>2, <1>4, GainsOne
<1> QED  BY <1>3, <1>5, Zenon DEF q, n

\* The indices are those of the lines and of the settings.
LEMMA OptionIndices ==
  ASSUME NEW r \in Seq(Options!Lines), NEW o \in Seq(Setting), NEW s, NEW k
  PROVE  /\ Len(r) \in Nat /\ Len(o) \in Nat
         /\ LinesOf(r, s, k) \subseteq 1..Len(r) /\ SettingsOf(o, s, k) \subseteq 1..Len(o)
<1>1. DOMAIN r = 1..Len(r) /\ DOMAIN o = 1..Len(o) /\ Len(r) \in Nat /\ Len(o) \in Nat
  BY LenProperties
<1> QED  BY <1>1 DEF LinesOf, SettingsOf

\* A line that sets no option leaves the first ones.
LEMMA OtherLineKeepsFirst ==
  ASSUME NEW r \in Seq(Options!Lines), NEW o \in Seq(Setting), NEW l \in Options!Lines,
         l.kind # "option", NEW s, NEW k, SameFirst(r, o, s, k)
  PROVE  SameFirst(Append(r, l), o, s, k)
<1>1. LinesOf(Append(r, l), s, k) = LinesOf(r, s, k)
  BY LinesGrow
<1>2. \A i \in LinesOf(r, s, k) : Append(r, l)[i] = r[i]
  BY OptionIndices, AppendProperties
<1> HIDE DEF LinesOf, SettingsOf
<1> QED  BY <1>1, <1>2 DEF SameFirst, IsLeast

\* An option line and its setting keep the first ones, or are the first.
LEMMA OptionLineKeepsFirst ==
  ASSUME NEW r \in Seq(Options!Lines), NEW o \in Seq(Setting), NEW l \in Options!Lines,
         NEW e \in Setting, l.kind = "option",
         e.sec = SectionAt(r, Len(r)), e.key = l.key, e.val = l.val,
         NEW s, NEW k, SameFirst(r, o, s, k)
  PROVE  SameFirst(Append(r, l), Append(o, e), s, k)
<1> DEFINE q == Append(r, l)
           p == Append(o, e)
           L == LinesOf(r, s, k)
           O == SettingsOf(o, s, k)
<1>1. /\ Len(r) \in Nat /\ Len(o) \in Nat /\ L \subseteq 1..Len(r) /\ O \subseteq 1..Len(o)
  BY OptionIndices
<1>2. /\ \A i \in 1..Len(r) : q[i] = r[i]
      /\ \A i \in 1..Len(o) : p[i] = o[i]
      /\ q[Len(r) + 1] = l /\ p[Len(o) + 1] = e
  BY AppendProperties
<1>3. CASE l.key = k /\ SectionAt(r, Len(r)) = s
  <2>1. LinesOf(q, s, k) = L \cup {Len(r) + 1} /\ SettingsOf(p, s, k) = O \cup {Len(o) + 1}
    <3>1. LinesOf(q, s, k) = L \cup {Len(r) + 1}
      BY <1>3, LinesGrow
    <3>2. e.sec = s /\ e.key = k
      BY <1>3
    <3>3. SettingsOf(p, s, k) = O \cup {Len(o) + 1}
      BY <3>2, SettingsGrow
    <3> QED  BY <3>1, <3>3
  <2> HIDE DEF q, p, L, O
  <2>2. ASSUME L = {}, O = {}  PROVE SameFirst(q, p, s, k)
    <3>1. IsLeast(Len(r) + 1, LinesOf(q, s, k)) /\ IsLeast(Len(o) + 1, SettingsOf(p, s, k))
      BY <1>1, <2>1, <2>2 DEF IsLeast
    <3>2. p[Len(o) + 1].val = q[Len(r) + 1].val /\ Len(r) + 1 \in Nat /\ Len(o) + 1 \in Nat
      BY <1>1, <1>2
    <3>3. \E i, j \in Nat :
            /\ IsLeast(i, LinesOf(q, s, k)) /\ IsLeast(j, SettingsOf(p, s, k))
            /\ p[j].val = q[i].val
      <4>1. PICK i \in Nat : i = Len(r) + 1
        BY <3>2, Zenon
      <4>2. PICK j \in Nat : j = Len(o) + 1
        BY <3>2, Zenon
      <4> QED  BY <3>1, <3>2, <4>1, <4>2
    <3> QED  BY <3>3 DEF SameFirst
  <2>3. ASSUME NEW i \in Nat, NEW j \in Nat, IsLeast(i, L), IsLeast(j, O), o[j].val = r[i].val
        PROVE  SameFirst(q, p, s, k)
    <3>1. IsLeast(i, LinesOf(q, s, k)) /\ IsLeast(j, SettingsOf(p, s, k))
      <4>1. i \in L /\ j \in O /\ i <= Len(r) + 1 /\ j <= Len(o) + 1
        BY <1>1, <2>3 DEF IsLeast
      <4>2. (\A y \in L : i <= y) /\ (\A y \in O : j <= y)
        BY <2>3, Zenon DEF IsLeast
      <4>3. /\ \A y \in L \cup {Len(r) + 1} : i <= y
            /\ \A y \in O \cup {Len(o) + 1} : j <= y
        BY <4>1, <4>2
      <4> QED  BY <2>1, <4>1, <4>3, Zenon DEF IsLeast
    <3>2. p[j].val = q[i].val
      BY <1>1, <1>2, <2>3 DEF IsLeast
    <3> QED  BY <3>1, <3>2 DEF SameFirst
  <2> QED  BY <2>2, <2>3 DEF SameFirst, L, O, q, p
<1>4. CASE ~ (l.key = k /\ SectionAt(r, Len(r)) = s)
  <2>1. LinesOf(q, s, k) = L /\ SettingsOf(p, s, k) = O
    BY <1>4, LinesGrow, SettingsGrow
  <2>2. \A i \in L, j \in O : q[i] = r[i] /\ p[j] = o[j]
    BY <1>1, <1>2
  <2> HIDE DEF q, p
  <2> QED  BY <2>1, <2>2 DEF SameFirst, IsLeast, q, p
<1> QED  BY <1>3, <1>4

\* Before the first line no option is set.
LEMMA OptionsStart == Options!Init => OptionsInv
<1> SUFFICES ASSUME Options!Init  PROVE OptionsInv
  OBVIOUS
<1>1. read = << >> /\ sec = "global" /\ options = << >> /\ optStatus = "reading"
  BY DEF Options!Init
<1>2. file \in Seq(Options!Lines)
  <2>1. PICK n \in 0..MaxLines : file \in [1..n -> Options!Lines]
    BY DEF Options!Init
  <2>2. n \in Nat
    BY OptionsAssumption DEF OptionsAssumption
  <2> QED  BY <2>1, <2>2
<1>3. OptionTypes
  <2>1. << >> \in Seq(Options!Lines) /\ << >> \in Seq(Setting)
    OBVIOUS
  <2>2. sec \in Sections
    BY <1>1, OptionsAssumption DEF OptionsAssumption
  <2> QED  BY <1>1, <1>2, <2>1, <2>2, Zenon DEF OptionTypes
<1>4. Len(<< >>) = 0 /\ DOMAIN << >> = {} /\ 1..0 = {}
  OBVIOUS
<1>5. SectionAt(<< >>, 0) = "global"
  <2>1. {j \in 1..0 : <<>>[j].kind = "section"} = {}
    BY <1>4, Zenon
  <2> QED  BY <2>1, Zenon DEF SectionAt
<1>6. ASSUME NEW s, NEW k  PROVE SameFirst(<< >>, << >>, s, k)
  BY <1>4, Zenon DEF SameFirst, LinesOf, SettingsOf
<1>7. EndIsRight
  <2>1. \A i \in DOMAIN file : file[i].kind = "unterminated" => i = Len(file)
    BY DEF Options!Init
  <2> QED  BY <1>1, <1>4, <2>1, Zenon DEF EndIsRight
<1> QED  BY <1>1, <1>3, <1>4, <1>5, <1>6, <1>7 DEF OptionsInv

\* A line adds its option, or a section, or nothing.
LEMMA OptionsStep ==
  ASSUME OptionsInv, [Options!Next]_(Options!vars)
  PROVE  OptionsInv'
<1>1. ASSUME Options!ReadLine  PROVE OptionsInv'
  <2> DEFINE line == Head(file)
  <2>1. /\ file # << >> /\ optStatus = "reading" /\ file' = Tail(file) /\ read' = Append(read, line)
        /\ \/ Options!OptionLine(line) \/ Options!SectionLine(line) \/ Options!LastLine(line)
           \/ Options!WrongLine(line) \/ Options!SkippedLine(line)
    BY <1>1, Zenon DEF Options!ReadLine
  <2>2. file \in Seq(Options!Lines) /\ read \in Seq(Options!Lines) /\ options \in Seq(Setting)
        /\ sec \in Sections
    BY DEF OptionsInv, OptionTypes
  <2>3. line \in Options!Lines /\ file' \in Seq(Options!Lines)
    BY <2>1, <2>2, HeadTailProperties
  <2> HIDE DEF line
  <2>4. /\ read' \in Seq(Options!Lines) /\ Len(read') = Len(read) + 1 /\ Len(read) \in Nat
        /\ DOMAIN read' = 1..(Len(read) + 1) /\ DOMAIN read = 1..Len(read)
        /\ read'[Len(read) + 1] = line /\ \A i \in 1..Len(read) : read'[i] = read[i]
    BY <2>1, <2>2, <2>3, AppendProperties, LenProperties
  <2>5. SectionAt(read', Len(read'))
          = IF line.kind = "section" THEN line.name ELSE SectionAt(read, Len(read))
    BY <2>1, <2>2, <2>3, <2>4, SectionsStay
  <2>6. /\ \A i \in DOMAIN file' : file'[i].kind = "unterminated" => i = Len(file')
        /\ line.kind = "unterminated" => file' = << >>
        /\ \A i \in DOMAIN read : read[i].kind \notin {"empty", "wrong"}
    <3>1. /\ \A i \in DOMAIN file : file[i].kind = "unterminated" => i = Len(file)
          /\ \A i \in DOMAIN read : read[i].kind \notin {"empty", "wrong"}
      BY <2>1 DEF OptionsInv, EndIsRight
    <3>2. /\ Len(file) \in Nat \ {0} /\ Len(file') = Len(file) - 1
          /\ DOMAIN file' = 1..Len(file') /\ DOMAIN file = 1..Len(file)
          /\ \A i \in 1..Len(file') : file'[i] = file[i + 1]
          /\ line = file[1]
      <4>1. Len(file) \in Nat \ {0} /\ DOMAIN file = 1..Len(file) /\ line = file[1]
        BY <2>1, <2>2, EmptySeq, LenProperties DEF line
      <4>2. Len(file') = Len(file) - 1 /\ \A i \in 1..Len(file') : file'[i] = file[i + 1]
        BY <2>1, <2>2, HeadTailProperties
      <4>3. DOMAIN file' = 1..Len(file')
        BY <2>3, LenProperties
      <4> QED  BY <4>1, <4>2, <4>3
    <3>3. \A i \in 1..Len(file') : i + 1 \in 1..Len(file)
      BY <3>2
    <3>4. \A i \in 1..Len(file') : file'[i].kind = "unterminated" => i + 1 = Len(file)
      BY <3>1, <3>2, <3>3
    <3>5. line.kind = "unterminated" => Len(file) = 1
      BY <3>1, <3>2
    <3>6. line.kind = "unterminated" => file' = << >>
      <4> DEFINE whole == Len(file)
                 left == Len(file')
      <4>1. line.kind = "unterminated" => left = 0
        <5>1. left = whole - 1 /\ (line.kind = "unterminated" => whole = 1)
          BY <3>2, <3>5, Zenon
        <5> HIDE DEF whole, left
        <5> QED  BY <5>1
      <4>2. file' # << >> => Len(file') \in Nat \ {0}
        BY <2>3, EmptySeq, Zenon
      <4> QED  BY <4>1, <4>2
    <3> QED  BY <3>1, <3>2, <3>4, <3>6
  <2>7. ASSUME \/ optStatus' = "reading" /\ line.kind \notin {"empty", "wrong"}
               \/ optStatus' = "true" /\ line.kind \in {"empty", "unterminated"}
               \/ optStatus' = "false"
         PROVE  EndIsRight'
    <3>1. optStatus' = "reading" =>
            \A i \in DOMAIN read' : read'[i].kind \notin {"empty", "wrong"}
      BY <2>4, <2>6, <2>7
    <3>2. optStatus' = "true" =>
            /\ \A i \in DOMAIN read' : read'[i].kind # "wrong"
            /\ file' = << >> \/ \E i \in DOMAIN read' : read'[i].kind = "empty"
      <4>1. SUFFICES ASSUME optStatus' = "true"
                     PROVE  /\ \A i \in DOMAIN read' : read'[i].kind # "wrong"
                            /\ file' = << >> \/ \E i \in DOMAIN read' : read'[i].kind = "empty"
        OBVIOUS
      <4>2. line.kind \in {"empty", "unterminated"}
        BY <2>7, <4>1
      <4>3. \A i \in DOMAIN read' : read'[i].kind # "wrong"
        BY <2>4, <2>6, <4>2
      <4>4. line.kind = "empty" => \E i \in DOMAIN read' : read'[i].kind = "empty"
        <5>1. Len(read) + 1 \in DOMAIN read'
          BY <2>4
        <5> QED  BY <2>4, <5>1
      <4> QED  BY <2>6, <4>2, <4>3, <4>4
    <3> QED  BY <2>6, <3>1, <3>2 DEF EndIsRight
  <2>8. sec = SectionAt(read, Len(read)) /\ \A s \in Sections, k \in Keys : SameFirst(read, options, s, k)
    BY <2>1 DEF OptionsInv
  <2>9. ASSUME line.kind # "option", UNCHANGED options  
        PROVE  \A s \in Sections, k \in Keys : SameFirst(read', options', s, k)
    BY <2>1, <2>2, <2>3, <2>8, <2>9, OtherLineKeepsFirst
  <2>10. CASE Options!OptionLine(line)
    <3>1. /\ line.kind = "option" /\ UNCHANGED <<sec, optStatus>>
          /\ options' = Append(options, [sec |-> sec, key |-> line.key, val |-> line.val])
      BY <2>10 DEF Options!OptionLine, Options!speOptSet
    <3>2. line.key \in Keys /\ line.val \in Values
      BY <2>3, <3>1 DEF Options!Lines
    <3> DEFINE e == [sec |-> sec, key |-> line.key, val |-> line.val]
    <3>3. e \in Setting /\ e.sec = sec /\ e.key = line.key /\ e.val = line.val
      BY <2>2, <3>2 DEF Setting
    <3>4. options' = Append(options, e)
      BY <3>1
    <3> HIDE DEF e
    <3>5. options' \in Seq(Setting)
      BY <2>2, <3>3, <3>4, AppendProperties
    <3>6. ASSUME NEW s \in Sections, NEW k \in Keys  PROVE SameFirst(read', options', s, k)
      <4>1. e.sec = SectionAt(read, Len(read)) /\ SameFirst(read, options, s, k)
        BY <2>8, <3>3
      <4> QED  BY <2>1, <2>2, <2>3, <3>1, <3>3, <3>4, <4>1, OptionLineKeepsFirst
    <3>7. OptionTypes'
      BY <2>2, <2>3, <2>4, <3>1, <3>5 DEF OptionTypes, OptionsInv
    <3>8. EndIsRight'
      BY <2>1, <2>7, <3>1
    <3> QED  BY <2>5, <2>8, <3>1, <3>6, <3>7, <3>8 DEF OptionsInv
  <2>11. CASE Options!SectionLine(line)
    <3>1. line.kind = "section" /\ sec' = line.name /\ UNCHANGED <<options, optStatus>>
      BY <2>11 DEF Options!SectionLine
    <3>2. line.name \in Sections
      BY <2>3, <3>1 DEF Options!Lines
    <3>3. OptionTypes'
      BY <2>2, <2>3, <2>4, <3>1, <3>2 DEF OptionTypes, OptionsInv
    <3>4. EndIsRight'
      BY <2>1, <2>7, <3>1
    <3> QED  BY <2>5, <2>9, <3>1, <3>3, <3>4 DEF OptionsInv
  <2>12. ASSUME line.kind \in {"empty", "unterminated", "wrong", "skipped"},
                \/ optStatus' = "reading" /\ line.kind \notin {"empty", "wrong"}
                \/ optStatus' = "true" /\ line.kind \in {"empty", "unterminated"}
                \/ optStatus' = "false",
                UNCHANGED <<sec, options>>
         PROVE  OptionsInv'
    <3>1. OptionTypes'
      BY <2>2, <2>3, <2>4, <2>12 DEF OptionTypes, OptionsInv
    <3>2. line.kind # "option" /\ line.kind # "section"
      BY <2>12
    <3>3. EndIsRight'
      BY <2>12, <2>7
    <3> QED  BY <2>5, <2>8, <2>9, <2>12, <3>1, <3>2, <3>3 DEF OptionsInv
  <2>13. CASE Options!LastLine(line)
    BY <2>12, <2>13 DEF Options!LastLine
  <2>14. CASE Options!WrongLine(line)
    BY <2>12, <2>14 DEF Options!WrongLine
  <2>15. CASE Options!SkippedLine(line)
    BY <2>1, <2>12, <2>15 DEF Options!SkippedLine
  <2> QED  BY <2>1, <2>10, <2>11, <2>13, <2>14, <2>15
<1>2. ASSUME Options!ReadEnd  PROVE OptionsInv'
  BY <1>2 DEF Options!ReadEnd, OptionsInv, OptionTypes, EndIsRight
<1>3. ASSUME Options!speOptDestroy  PROVE OptionsInv'
  <2>1. options' = << >> /\ optStatus' = "destroyed" /\ UNCHANGED <<file, read, sec>>
        /\ optStatus # "reading"
    BY <1>3 DEF Options!speOptDestroy
  <2>2. options' \in Seq(Setting)
    BY <2>1
  <2> QED  BY <2>1, <2>2 DEF OptionsInv, OptionTypes, EndIsRight
<1>4. ASSUME UNCHANGED Options!vars  PROVE OptionsInv'
  BY <1>4 DEF Options!vars, OptionsInv, OptionTypes, EndIsRight
<1> QED  BY <1>1, <1>2, <1>3, <1>4 DEF Options!Next

\* The least of a set is what Min chooses.
LEMMA LeastIsMin ==
  ASSUME NEW T, NEW i \in Nat, IsLeast(i, T), T \subseteq Nat
  PROVE  Options!Min(T) = i
<1>1. Options!Min(T) \in T /\ \A y \in T : Options!Min(T) <= y
  BY Zenon DEF IsLeast, Options!Min
<1>2. Options!Min(T) \in Nat /\ Options!Min(T) <= i /\ i <= Options!Min(T)
  BY <1>1 DEF IsLeast
<1> QED  BY <1>2

\* A lookup takes the first option of a section and key, and so the first line's.
LEMMA OptionsLookUp == OptionsInv => Options!OptionsAreOfFile
<1> SUFFICES ASSUME OptionsInv  PROVE Options!OptionsAreOfFile
  OBVIOUS
<1>1. \A i : Options!SectionOf(i) = SectionAt(read, i)
  BY Zenon DEF Options!SectionOf, SectionAt
<1>2. ASSUME optStatus # "destroyed", NEW s \in Sections, NEW k \in Keys
      PROVE  LET lines == {i \in DOMAIN read : /\ read[i].kind = "option"
                                               /\ read[i].key = k /\ Options!SectionOf(i) = s}
             IN  Options!SpeOptString(s, k, "default")
                   = IF lines = {} THEN "default" ELSE read[Options!Min(lines)].val
  <2> DEFINE L == LinesOf(read, s, k)
             O == SettingsOf(options, s, k)
  <2>1. {i \in DOMAIN read : /\ read[i].kind = "option"
                             /\ read[i].key = k /\ Options!SectionOf(i) = s} = L
    BY <1>1 DEF LinesOf
  <2>2. Options!SpeOptString(s, k, "default")
          = IF O = {} THEN "default" ELSE options[Options!Min(O)].val
    BY Zenon DEF Options!SpeOptString, SettingsOf
  <2>3. L \subseteq Nat /\ O \subseteq Nat
    <3>1. read \in Seq(Options!Lines) /\ options \in Seq(Setting)
      BY DEF OptionsInv, OptionTypes
    <3>2. /\ Len(read) \in Nat /\ Len(options) \in Nat
          /\ L \subseteq 1..Len(read) /\ O \subseteq 1..Len(options)
      BY <3>1, OptionIndices
    <3> QED  BY <3>2
  <2>4. SameFirst(read, options, s, k)
    BY <1>2 DEF OptionsInv
  <2> HIDE DEF L, O
  <2>5. CASE L = {} /\ O = {}
    BY <2>1, <2>2, <2>5
  <2>6. ASSUME NEW i \in Nat, NEW j \in Nat, IsLeast(i, L), IsLeast(j, O),
               options[j].val = read[i].val
        PROVE  L # {} /\ O # {} /\ options[Options!Min(O)].val = read[Options!Min(L)].val
    <3>1. Options!Min(L) = i /\ Options!Min(O) = j
      BY <2>3, <2>6, LeastIsMin
    <3> QED  BY <2>6, <3>1 DEF IsLeast
  <2>7. \/ L = {} /\ O = {}
        \/ L # {} /\ O # {} /\ options[Options!Min(O)].val = read[Options!Min(L)].val
    BY <2>4, <2>6 DEF SameFirst, L, O
  <2> QED  BY <2>1, <2>2, <2>7
<1>3. optStatus = "true" =>
        /\ \A i \in DOMAIN read : read[i].kind # "wrong"
        /\ file = << >> \/ \E i \in DOMAIN read : read[i].kind = "empty"
  BY DEF OptionsInv, EndIsRight
<1> QED  BY <1>2, <1>3 DEF Options!OptionsAreOfFile

\* spe_opt.c:83-122.  The settings are those of the option lines that were read,
\* in their order, each with the section of its line.
THEOREM OptionsInvariance == Options!Spec => []OptionsInv
<1>1. Options!Init => OptionsInv
  BY OptionsStart
<1>2. OptionsInv /\ [Options!Next]_(Options!vars) => OptionsInv'
  BY OptionsStep
<1> QED  BY <1>1, <1>2, PTL DEF Options!Spec

\* spe_io.c:21-105, spe_conb.c:28-209, spe_opt.c:66-152.  However the bytes of a
\* file or a peer come in, they are read in order and each once, the tail at the
\* end of a file too, for any texts and bounds.  Of the options this says less: a
\* look-up gives the first value among the lines that were read, and all lines
\* of an accepted file were read if none of those is empty.
THEOREM BytesAreAlwaysInOrder ==
  Io!Spec /\ Conb!Spec /\ Options!Spec => []BytesAreReadInOrder
<1>1. IoInv /\ ConbInv /\ OptionsInv => BytesAreReadInOrder
  BY IoOrder, OptionsLookUp DEF ConbInv, BytesAreReadInOrder
<1> QED  BY <1>1, IoInvariance, ConbInvariance, OptionsInvariance, PTL

-----------------------------------------------------------------------------
(* The map *)

\* An element goes behind the others of a sequence, or in front of them.
LEMMA OneMore ==
  ASSUME NEW S, NEW s \in Seq(S), Map!IsInjective(s), NEW x \in S, x \notin Map!Range(s),
         NEW t, t = Append(s, x) \/ t = <<x>> \o s
  PROVE  /\ t \in Seq(S) /\ Map!IsInjective(t)
         /\ \A y : y \in Map!Range(t) <=> y \in Map!Range(s) \/ y = x
<1> DEFINE n == Len(s)
<1>1. n \in Nat /\ DOMAIN s = 1..n /\ \A i \in 1..n : s[i] \in S /\ s[i] # x
  BY LenProperties, ElementOfSeq DEF Map!Range
<1>2. \A i, j \in 1..n : s[i] = s[j] => i = j
  BY <1>1 DEF Map!IsInjective
<1>3. Map!Range(s) = {s[i] : i \in 1..n}
  BY <1>1 DEF Map!Range
<1>4. \E d \in {0, 1} : /\ t \in Seq(S) /\ Len(t) = n + 1
                        /\ \A i \in 1..n : t[i + d] = s[i]
                        /\ t[IF d = 0 THEN n + 1 ELSE 1] = x
  <2>1. CASE t = Append(s, x)
    <3>1. t \in Seq(S) /\ Len(t) = n + 1 /\ (\A i \in 1..n : t[i] = s[i]) /\ t[n + 1] = x
      BY <2>1, AppendProperties
    <3> QED  BY <1>1, <3>1
  <2>2. CASE t = <<x>> \o s
    <3> DEFINE f == <<x>>
    <3>1. f \in Seq(S) /\ Len(f) = 1 /\ f[1] = x
      OBVIOUS
    <3> HIDE DEF f
    <3>2. /\ f \o s \in Seq(S) /\ Len(f \o s) = Len(f) + Len(s)
          /\ \A i \in 1..(Len(f) + Len(s)) : (f \o s)[i] = IF i <= Len(f) THEN f[i] ELSE s[i - Len(f)]
      BY <3>1, ConcatProperties
    <3>3. t = f \o s
      BY <2>2 DEF f
    <3>4. Len(t) = n + 1 /\ \A i \in 1..(n + 1) : t[i] = IF i <= 1 THEN f[i] ELSE s[i - 1]
      BY <1>1, <3>1, <3>2, <3>3
    <3>5. \A i \in 1..n : i + 1 \in 1..(n + 1) /\ ~ (i + 1 <= 1) /\ i + 1 - 1 = i
      BY <1>1
    <3>6. (\A i \in 1..n : t[i + 1] = s[i]) /\ t[1] = x
      BY <1>1, <3>1, <3>4, <3>5
    <3> QED  BY <3>2, <3>3, <3>4, <3>6
  <2> QED  BY <2>1, <2>2
<1>5. PICK d \in {0, 1} : /\ t \in Seq(S) /\ Len(t) = n + 1
                          /\ \A i \in 1..n : t[i + d] = s[i]
                          /\ t[IF d = 0 THEN n + 1 ELSE 1] = x
  BY <1>4
<1> DEFINE o == IF d = 0 THEN n + 1 ELSE 1
<1>6. DOMAIN t = 1..(n + 1) /\ o \in 1..(n + 1) /\ t[o] = x
  BY <1>1, <1>5, LenProperties
<1>7. /\ \A i \in 1..(n + 1) : i # o => i - d \in 1..n /\ t[i] = s[i - d]
      /\ \A i \in 1..n : i + d \in 1..(n + 1) /\ t[i + d] = s[i]
  <2>1. \A i \in 1..(n + 1) : i # o => i - d \in 1..n /\ (i - d) + d = i
    BY <1>1
  <2> QED  BY <1>1, <1>5, <2>1
<1> HIDE DEF n, o
<1>8. Map!IsInjective(t)
  <2> SUFFICES ASSUME NEW i \in 1..(n + 1), NEW j \in 1..(n + 1), t[i] = t[j]
               PROVE  i = j
    BY <1>6 DEF Map!IsInjective
  <2>1. i # o /\ j # o => i - d = j - d
    BY <1>2, <1>7
  <2>2. i = o <=> j = o
    BY <1>1, <1>6, <1>7
  <2> QED  BY <1>1, <2>1, <2>2
<1>9. Map!Range(t) = Map!Range(s) \cup {x}
  <2>1. Map!Range(t) = {t[i] : i \in 1..(n + 1)}
    BY <1>6 DEF Map!Range
  <2>2. \A i \in 1..(n + 1) : t[i] \in Map!Range(s) \cup {x}
    BY <1>3, <1>6, <1>7
  <2>3. x \in Map!Range(t) /\ \A i \in 1..n : s[i] \in Map!Range(t)
    BY <1>6, <1>7, <2>1
  <2> QED  BY <1>3, <2>1, <2>2, <2>3
<1> QED  BY <1>5, <1>8, <1>9

\* What leaves a sequence without repetition.
LEMMA OneLess ==
  ASSUME NEW S, NEW s \in Seq(S), Map!IsInjective(s), NEW x
  PROVE  LET t == Map!Without(s, x)
         IN  /\ t \in Seq(S) /\ Map!IsInjective(t)
             /\ \A y : y \in Map!Range(t) <=> y \in Map!Range(s) /\ y # x
<1> DEFINE n == Len(s)
           t == Map!Without(s, x)
<1>1. n \in Nat /\ DOMAIN s = 1..n /\ \A i \in 1..n : s[i] \in S
  BY LenProperties, ElementOfSeq
<1>2. \A i, j \in 1..n : s[i] = s[j] => i = j
  BY <1>1 DEF Map!IsInjective
<1>3. Map!Range(s) = {s[i] : i \in 1..n}
  BY <1>1 DEF Map!Range
<1>4. CASE ~ Map!Contains(s, x)
  <2>1. t = s /\ \A i \in 1..n : s[i] # x
    BY <1>4 DEF Map!Without, Map!Contains
  <2>2. x \notin Map!Range(s)
    BY <1>3, <2>1
  <2> QED  BY <2>1, <2>2
<1>5. CASE Map!Contains(s, x)
  <2> DEFINE k == CHOOSE i \in 1..Len(s) : s[i] = x
             front == SubSeq(s, 1, k - 1)
             back == SubSeq(s, k + 1, n)
  <2>1. k \in 1..n /\ s[k] = x
    BY <1>5 DEF Map!Contains
  <2>2. t = front \o back
    BY <1>5 DEF Map!Without, Map!RemoveAt
  <2> HIDE DEF k
  <2>3. front \in Seq(S) /\ Len(front) = k - 1 /\ \A j \in 1..(k - 1) : front[j] = s[j]
    <3>1. \A j \in 1..(k - 1) : s[j] \in S
      BY <1>1, <2>1
    <3> QED  BY <1>1, <2>1, <3>1, SubSeqProperties
  <2>4. back \in Seq(S) /\ Len(back) = n - k /\ \A j \in 1..(n - k) : back[j] = s[k + j]
    <3> DEFINE a == k + 1
    <3>1. a \in 1..(n + 1) /\ a \in Int /\ n \in Int /\ \A j \in a..n : s[j] \in S
      BY <1>1, <2>1
    <3> HIDE DEF n
    <3>2. /\ back \in Seq(S) /\ Len(back) = IF a <= n THEN n - a + 1 ELSE 0
          /\ \A j \in 1..(n - a + 1) : back[j] = s[a + j - 1]
      BY <3>1, SubSeqProperties
    <3>3. (IF a <= n THEN n - a + 1 ELSE 0) = n - k /\ n - a + 1 = n - k
          /\ \A j \in 1..(n - k) : a + j - 1 = k + j
      BY <1>1, <2>1
    <3> QED  BY <3>2, <3>3
  <2> HIDE DEF front, back, t
  <2>5. /\ t \in Seq(S) /\ Len(t) = Len(front) + Len(back)
        /\ \A j \in 1..(Len(front) + Len(back)) :
             t[j] = IF j <= Len(front) THEN front[j] ELSE back[j - Len(front)]
    BY <2>2, <2>3, <2>4, ConcatProperties
  <2> HIDE DEF n
  <2>6. Len(front) + Len(back) = n - 1
    BY <1>1, <2>1, <2>3, <2>4
  <2> DEFINE Old(j) == IF j < k THEN j ELSE j + 1
  <2>7. \A j \in 1..(n - 1) : t[j] = s[Old(j)] /\ Old(j) \in 1..n /\ Old(j) # k
    <3> TAKE j \in 1..(n - 1)
    <3>1. CASE j < k
      <4>1. j \in 1..(k - 1) /\ j <= k - 1 /\ j \in 1..n
        BY <1>1, <2>1, <3>1
      <4> QED  BY <2>3, <2>5, <2>6, <3>1, <4>1
    <3>2. CASE ~ (j < k)
      <4>1. j - (k - 1) \in 1..(n - k) /\ k + (j - (k - 1)) = j + 1 /\ ~ (j <= k - 1) /\ j + 1 \in 1..n
        BY <1>1, <2>1, <3>2
      <4> QED  BY <2>3, <2>4, <2>5, <2>6, <3>2, <4>1
    <3> QED  BY <3>1, <3>2
  <2>8. \A i \in 1..n : i # k => \E j \in 1..(n - 1) : Old(j) = i
    <3> SUFFICES ASSUME NEW i \in 1..n, i # k  PROVE \E j \in 1..(n - 1) : Old(j) = i
      OBVIOUS
    <3> DEFINE j == IF i < k THEN i ELSE i - 1
    <3>1. j \in 1..(n - 1) /\ Old(j) = i
      BY <1>1, <2>1
    <3> HIDE DEF j
    <3> QED  BY <3>1
  <2>9. \A i, j \in 1..(n - 1) : Old(i) = Old(j) => i = j
    BY <1>1, <2>1
  <2> HIDE DEF Old
  <2>10. DOMAIN t = 1..(n - 1)
    BY <2>5, <2>6, LenProperties
  <2>11. Map!IsInjective(t)
    BY <1>2, <2>7, <2>9, <2>10 DEF Map!IsInjective
  <2>12. Map!Range(t) = Map!Range(s) \ {x}
    <3>1. Map!Range(t) = {t[j] : j \in 1..(n - 1)}
      BY <2>10 DEF Map!Range
    <3>2. \A j \in 1..(n - 1) : t[j] \in Map!Range(s) \ {x}
      BY <1>2, <1>3, <2>1, <2>7
    <3>3. \A i \in 1..n : s[i] # x => s[i] \in Map!Range(t)
      BY <2>1, <2>7, <2>8, <3>1
    <3> QED  BY <1>3, <3>1, <3>2, <3>3
  <2> QED  BY <2>5, <2>11, <2>12 DEF t
<1> QED  BY <1>4, <1>5

\* The items of a bucket's chain.
InBucket(b) == Map!Range(hashHead[b])

\* Chains and list have the same items, each once; no two have the same object;
\* the items under a key that nothing else is taken for are what the program
\* has under it; no object that was given back is in the map.
MapInv ==
  /\ listHead \in Seq(Map!Items) /\ hashHead \in [Buckets -> Seq(Map!Items)]
  /\ dict \in [Map!Whole -> Objects \cup {NULL}]
  /\ Map!IsInjective(listHead) /\ \A b \in Buckets : Map!IsInjective(hashHead[b])
  /\ Map!Range(listHead) = UNION {InBucket(b) : b \in Buckets}
  /\ \A a, b \in Buckets : a # b => InBucket(a) \cap InBucket(b) = {}
  /\ \A x, y \in Map!Range(listHead) : x.obj = y.obj => x = y
  /\ \A k \in Map!Whole : ~ Map!Alias(k) =>
       /\ \A x \in InBucket(Hash[k]) : x.key = k => x.obj = dict[k]
       /\ dict[k] # NULL => [key |-> k, obj |-> dict[k]] \in InBucket(Hash[k])
  /\ \A x \in Map!Range(listHead) : ~ Map!Contains(handled, x.obj)

\* An item has an object; the keys that items have are kept whole.
LEMMA ItemFacts ==
  ASSUME NEW x \in Map!Items
  PROVE  /\ x.obj \in Objects /\ x.obj # NULL /\ x # Map!NoItem /\ x = [key |-> x.key, obj |-> x.obj]
         /\ x.key \in Names => x.key \in Map!Whole
<1>1. x.obj \in Objects /\ x = [key |-> x.key, obj |-> x.obj] /\ \E k \in Names : x.key = Stored[k]
  BY DEF Map!Items
<1>2. x.obj # NULL /\ Map!NoItem.obj = NULL
  BY <1>1, MapAssumption DEF MapAssumption, Map!NoItem
<1>3. x.key \in Names => x.key \in Map!Whole
  BY <1>1, MapAssumption DEF MapAssumption, Map!Whole
<1> QED  BY <1>1, <1>2, <1>3

\* A search finds an item with the key if the chain has one.
LEMMA SearchFinds ==
  ASSUME MapInv, NEW k \in Names
  PROVE  LET r == Map!speMapSearch(k)
         IN  \/ r \in InBucket(Hash[k]) /\ r.key = k /\ r # Map!NoItem
             \/ r = Map!NoItem /\ \A x \in InBucket(Hash[k]) : x.key # k
<1> DEFINE chain == hashHead[Hash[k]]
           n == Len(chain)
           found == {i \in DOMAIN chain : chain[i].key = k}
           r == Map!speMapSearch(k)
<1>1. Hash[k] \in Buckets /\ chain \in Seq(Map!Items)
  BY MapAssumption DEF MapAssumption, MapInv
<1>2. n \in Nat /\ DOMAIN chain = 1..n /\ (\A i \in 1..n : chain[i] \in Map!Items)
      /\ InBucket(Hash[k]) = {chain[i] : i \in 1..n}
  BY <1>1, LenProperties, ElementOfSeq DEF InBucket, Map!Range
<1>3. r = IF found = {} THEN Map!NoItem ELSE chain[Map!Min(found)]
  BY DEF Map!speMapSearch
<1>4. CASE found = {}
  BY <1>2, <1>3, <1>4
<1>5. CASE found # {}
  <2>1. found \in SUBSET Nat
    BY <1>2
  <2>2. \E x \in found : \A y \in found : x <= y
    BY <1>5, <2>1, LeastExists
  <2> HIDE DEF found
  <2>3. Map!Min(found) \in found
    BY <2>2 DEF Map!Min
  <2> DEFINE i == Map!Min(found)
  <2>4. i \in 1..n /\ chain[i].key = k /\ r = chain[i]
    BY <1>2, <1>3, <1>5, <2>3 DEF found
  <2> HIDE DEF i
  <2>5. r # Map!NoItem
    BY <1>2, <2>4, ItemFacts
  <2> QED  BY <1>2, <2>4, <2>5
<1> QED  BY <1>4, <1>5

\* At first there is nothing.
LEMMA InitMap == Map!Init => MapInv
<1> SUFFICES ASSUME Map!Init  PROVE MapInv
  OBVIOUS
<1>1. /\ listHead = <<>> /\ hashHead = [b \in Buckets |-> <<>>]
      /\ dict = [k \in Map!Whole |-> NULL]
  BY DEF Map!Init
<1>2. Map!Range(<<>>) = {} /\ Map!IsInjective(<<>>) /\ <<>> \in Seq(Map!Items)
  BY DEF Map!Range, Map!IsInjective
<1>3. \A b \in Buckets : hashHead[b] = <<>> /\ InBucket(b) = {}
  BY <1>1, <1>2 DEF InBucket
<1>4. \A k \in Map!Whole : Hash[k] \in Buckets /\ dict[k] = NULL
  BY <1>1, MapAssumption DEF MapAssumption, Map!Whole
<1> QED  BY <1>1, <1>2, <1>3, <1>4 DEF MapInv

\* A new item.  Under its key the chain has none.
LEMMA SetStep ==
  ASSUME MapInv, NEW k \in Names, NEW obj \in Objects, Map!Set(k, obj)
  PROVE  MapInv'
<1> DEFINE x == [key |-> Stored[k], obj |-> obj]
           h == Hash[k]
           all == Map!Range(listHead)
<1>1. /\ \A i \in DOMAIN listHead : listHead[i].obj # obj
      /\ Map!speMapSearch(k) = Map!NoItem
      /\ listHead' = Append(listHead, x) /\ hashHead' = [hashHead EXCEPT ![h] = <<x>> \o hashHead[h]]
      /\ handled' = <<>>
      /\ dict' = IF k \in Map!Whole THEN [dict EXCEPT ![k] = obj] ELSE dict
  BY DEF Map!Set, Map!SpeMapSet, Map!speMapItemCreate
<1>2. /\ listHead \in Seq(Map!Items) /\ hashHead \in [Buckets -> Seq(Map!Items)]
      /\ dict \in [Map!Whole -> Objects \cup {NULL}]
      /\ Map!IsInjective(listHead) /\ \A b \in Buckets : Map!IsInjective(hashHead[b])
      /\ all = UNION {InBucket(b) : b \in Buckets}
      /\ \A a, b \in Buckets : a # b => InBucket(a) \cap InBucket(b) = {}
      /\ \A y, z \in all : y.obj = z.obj => y = z
      /\ \A l \in Map!Whole : ~ Map!Alias(l) =>
           /\ \A y \in InBucket(Hash[l]) : y.key = l => y.obj = dict[l]
           /\ dict[l] # NULL => [key |-> l, obj |-> dict[l]] \in InBucket(Hash[l])
  BY DEF MapInv
<1>3. h \in Buckets /\ x \in Map!Items /\ x.obj = obj /\ x.key = Stored[k]
  BY MapAssumption DEF MapAssumption, Map!Items
<1>4. x \notin all /\ (\A y \in all : y.obj # obj) /\ \A b \in Buckets : x \notin InBucket(b)
  <2>1. \A y \in all : y.obj # obj
    BY <1>1 DEF Map!Range
  <2> HIDE DEF all
  <2> QED  BY <1>2, <1>3, <2>1
<1>5. \A y \in InBucket(h) : y.key # k
  BY <1>1, SearchFinds
<1> HIDE DEF x, all
<1>6. /\ listHead' \in Seq(Map!Items) /\ Map!IsInjective(listHead')
      /\ Map!Range(listHead') = all \cup {x}
  <2> DEFINE t == listHead'
  <2>1. /\ listHead \in Seq(Map!Items) /\ Map!IsInjective(listHead) /\ x \in Map!Items
        /\ x \notin Map!Range(listHead) /\ t = Append(listHead, x)
    BY <1>1, <1>2, <1>3, <1>4 DEF all
  <2> HIDE DEF t
  <2>2. t \in Seq(Map!Items) /\ Map!IsInjective(t)
    BY ONLY <2>1, OneMore
  <2>3. \A y : y \in Map!Range(t) <=> y \in Map!Range(listHead) \/ y = x
    BY ONLY <2>1, OneMore
  <2>4. Map!Range(t) = Map!Range(listHead) \cup {x}
    BY <2>3
  <2> QED  BY <2>2, <2>4 DEF t, all
<1>7. /\ hashHead' \in [Buckets -> Seq(Map!Items)]
      /\ \A b \in Buckets : Map!IsInjective(hashHead'[b])
      /\ \A b \in Buckets : InBucket(b)' = IF b = h THEN InBucket(b) \cup {x} ELSE InBucket(b)
  <2> DEFINE t == <<x>> \o hashHead[h]
           s == hashHead[h]
  <2>4. /\ s \in Seq(Map!Items) /\ Map!IsInjective(s) /\ x \in Map!Items
        /\ x \notin Map!Range(s) /\ t = <<x>> \o s
    BY <1>2, <1>3, <1>4 DEF InBucket
  <2>5. t \in Seq(Map!Items) /\ Map!IsInjective(t) /\ Map!Range(t) = Map!Range(s) \cup {x}
    <3> HIDE DEF t, s
    <3>1. t \in Seq(Map!Items) /\ Map!IsInjective(t)
      BY ONLY <2>4, OneMore
    <3>2. \A y : y \in Map!Range(t) <=> y \in Map!Range(s) \/ y = x
      BY ONLY <2>4, OneMore
    <3>3. Map!Range(t) = Map!Range(s) \cup {x}
      BY <3>2
    <3> QED  BY <3>1, <3>3
  <2>1. t \in Seq(Map!Items) /\ Map!IsInjective(t) /\ Map!Range(t) = InBucket(h) \cup {x}
    BY <2>5 DEF InBucket
  <2>2. hashHead' = [hashHead EXCEPT ![h] = t]
    BY <1>1
  <2> HIDE DEF t
  <2>3. hashHead' \in [Buckets -> Seq(Map!Items)]
        /\ \A b \in Buckets : hashHead'[b] = IF b = h THEN t ELSE hashHead[b]
    BY <1>2, <1>3, <2>1, <2>2
  <2> QED  BY <1>2, <2>1, <2>3 DEF InBucket
<1>8. Map!Range(listHead') = UNION {InBucket(b)' : b \in Buckets}
  <2> DEFINE was(b) == InBucket(b)
             is(b) == InBucket(b)'
  <2>1. /\ all = UNION {was(b) : b \in Buckets} /\ Map!Range(listHead') = all \cup {x}
        /\ \A b \in Buckets : is(b) = IF b = h THEN was(b) \cup {x} ELSE was(b)
    BY <1>2, <1>6, <1>7
  <2> HIDE DEF was, is
  <2>2. \A y : y \in Map!Range(listHead') => \E b \in Buckets : y \in is(b)
    BY <1>3, <2>1
  <2>3. \A b \in Buckets : is(b) \subseteq Map!Range(listHead')
    BY <1>3, <2>1
  <2>4. Map!Range(listHead') = UNION {is(b) : b \in Buckets}
    BY <2>2, <2>3
  <2> QED  BY <2>4 DEF is
<1>9. \A a, b \in Buckets : a # b => InBucket(a)' \cap InBucket(b)' = {}
  <2> SUFFICES ASSUME NEW a \in Buckets, NEW b \in Buckets, a # b
               PROVE  InBucket(a)' \cap InBucket(b)' = {}
    OBVIOUS
  <2>1. /\ InBucket(a)' = IF a = h THEN InBucket(a) \cup {x} ELSE InBucket(a)
        /\ InBucket(b)' = IF b = h THEN InBucket(b) \cup {x} ELSE InBucket(b)
        /\ InBucket(a) \cap InBucket(b) = {} /\ x \notin InBucket(a) /\ x \notin InBucket(b)
    BY <1>2, <1>4, <1>7
  <2> QED  BY <2>1
<1>10. \A y, z \in Map!Range(listHead') : y.obj = z.obj => y = z
  BY <1>2, <1>3, <1>4, <1>6
<1>11. dict' \in [Map!Whole -> Objects \cup {NULL}]
       /\ \A l \in Map!Whole : dict'[l] = IF l = k THEN obj ELSE dict[l]
  BY <1>1, <1>2
<1>12. ASSUME NEW l \in Map!Whole, ~ Map!Alias(l)
       PROVE  /\ \A y \in InBucket(Hash[l])' : y.key = l => y.obj = dict'[l]
              /\ dict'[l] # NULL => [key |-> l, obj |-> dict'[l]] \in InBucket(Hash[l])'
  <2>1. Hash[l] \in Buckets /\ Stored[l] = l
    BY MapAssumption DEF MapAssumption, Map!Whole
  <2>2. InBucket(Hash[l])' = IF Hash[l] = h THEN InBucket(Hash[l]) \cup {x} ELSE InBucket(Hash[l])
    BY <1>7, <2>1
  <2>3. CASE l = k
    <3>1. x = [key |-> l, obj |-> obj] /\ dict'[l] = obj
      BY <1>11, <2>1, <2>3 DEF x
    <3> QED  BY <1>3, <1>5, <2>2, <2>3, <3>1
  <2>4. CASE l # k
    <3>1. Hash[l] = h => Stored[k] # l
      BY <1>12, <2>4 DEF Map!Alias, Map!Whole
    <3>2. dict'[l] = dict[l]
      BY <1>11, <2>4
    <3> QED  BY <1>2, <1>3, <1>12, <2>2, <3>1, <3>2
  <2> QED  BY <2>3, <2>4
<1>13. \A y \in Map!Range(listHead') : ~ Map!Contains(handled', y.obj)
  BY <1>1 DEF Map!Contains
<1>14. \A l \in Map!Whole : InBucket(Hash[l])' = Map!Range(hashHead'[Hash[l]])
  BY DEF InBucket
<1> QED  BY <1>6, <1>7, <1>8, <1>9, <1>10, <1>11, <1>12, <1>13 DEF MapInv

\* An item leaves the list and its chain, and its object is given back.
LEMMA DelItemStep ==
  ASSUME MapInv, NEW k \in Names, Map!Del(k)
  PROVE  MapInv'
<1> DEFINE x == Map!speMapSearch(k)
           all == Map!Range(listHead)
<1>1. /\ x # Map!NoItem /\ handled' = <<x.obj>>
      /\ listHead' = Map!Without(listHead, x)
      /\ hashHead' = [b \in Buckets |-> Map!Without(hashHead[b], x)]
      /\ dict' = IF k \in Map!Whole THEN [dict EXCEPT ![k] = NULL] ELSE dict
  BY DEF Map!Del, Map!SpeMapDel, Map!speMapItemDestroy
<1>2. /\ listHead \in Seq(Map!Items) /\ hashHead \in [Buckets -> Seq(Map!Items)]
      /\ dict \in [Map!Whole -> Objects \cup {NULL}]
      /\ Map!IsInjective(listHead) /\ \A b \in Buckets : Map!IsInjective(hashHead[b])
      /\ all = UNION {InBucket(b) : b \in Buckets}
      /\ \A a, b \in Buckets : a # b => InBucket(a) \cap InBucket(b) = {}
      /\ \A y, z \in all : y.obj = z.obj => y = z
      /\ \A l \in Map!Whole : ~ Map!Alias(l) =>
           /\ \A y \in InBucket(Hash[l]) : y.key = l => y.obj = dict[l]
           /\ dict[l] # NULL => [key |-> l, obj |-> dict[l]] \in InBucket(Hash[l])
  BY DEF MapInv
<1>3. x \in InBucket(Hash[k]) /\ x.key = k /\ Hash[k] \in Buckets /\ x \in all
  <2>1. x \in InBucket(Hash[k]) /\ x.key = k
    BY <1>1, SearchFinds
  <2>2. Hash[k] \in Buckets
    BY MapAssumption DEF MapAssumption
  <2> HIDE DEF x, all
  <2> QED  BY <1>2, <2>1, <2>2
<1> HIDE DEF x, all
<1>4. \A y \in all : y \in Map!Items
  <2>1. Len(listHead) \in Nat /\ DOMAIN listHead = 1..Len(listHead)
        /\ \A i \in 1..Len(listHead) : listHead[i] \in Map!Items
    BY <1>2, LenProperties, ElementOfSeq
  <2> QED  BY <2>1 DEF all, Map!Range
<1>5. k \in Map!Whole
  BY <1>3, <1>4, ItemFacts
<1>6. /\ listHead' \in Seq(Map!Items) /\ Map!IsInjective(listHead')
      /\ Map!Range(listHead') = all \ {x}
  <2> DEFINE t == Map!Without(listHead, x)
  <2>1. t \in Seq(Map!Items) /\ Map!IsInjective(t)
        /\ \A y : y \in Map!Range(t) <=> y \in Map!Range(listHead) /\ y # x
    BY <1>2, OneLess
  <2> HIDE DEF t
  <2>2. Map!Range(t) = Map!Range(listHead) \ {x}
    BY <2>1
  <2> QED  BY <1>1, <2>1, <2>2 DEF t, all
<1>7. /\ hashHead' \in [Buckets -> Seq(Map!Items)]
      /\ \A b \in Buckets : Map!IsInjective(hashHead'[b])
      /\ \A b \in Buckets : InBucket(b)' = InBucket(b) \ {x}
  <2>1. ASSUME NEW b \in Buckets
        PROVE  /\ hashHead'[b] \in Seq(Map!Items) /\ Map!IsInjective(hashHead'[b])
               /\ InBucket(b)' = InBucket(b) \ {x}
    <3> DEFINE s == hashHead[b]
               t == Map!Without(s, x)
    <3>1. s \in Seq(Map!Items) /\ Map!IsInjective(s)
      BY <1>2
    <3>2. t \in Seq(Map!Items) /\ Map!IsInjective(t)
          /\ \A y : y \in Map!Range(t) <=> y \in Map!Range(s) /\ y # x
      <4> HIDE DEF s
      <4> QED  BY <3>1, OneLess
    <3>3. hashHead'[b] = t
      BY <1>1
    <3> HIDE DEF s, t
    <3>4. Map!Range(t) = Map!Range(s) \ {x}
      BY <3>2
    <3> QED  BY <3>2, <3>3, <3>4 DEF InBucket, s
  <2> QED  BY <1>1, <2>1
<1>8. Map!Range(listHead') = UNION {InBucket(b)' : b \in Buckets}
  <2> DEFINE was(b) == InBucket(b)
             is(b) == InBucket(b)'
  <2>1. /\ all = UNION {was(b) : b \in Buckets} /\ Map!Range(listHead') = all \ {x}
        /\ \A b \in Buckets : is(b) = was(b) \ {x}
    BY <1>2, <1>6, <1>7
  <2> HIDE DEF was, is
  <2>2. Map!Range(listHead') = UNION {is(b) : b \in Buckets}
    BY <2>1
  <2> QED  BY <2>2 DEF is
<1>9. \A a, b \in Buckets : a # b => InBucket(a)' \cap InBucket(b)' = {}
  <2> SUFFICES ASSUME NEW a \in Buckets, NEW b \in Buckets, a # b
               PROVE  InBucket(a)' \cap InBucket(b)' = {}
    OBVIOUS
  <2>1. /\ InBucket(a)' = InBucket(a) \ {x} /\ InBucket(b)' = InBucket(b) \ {x}
        /\ InBucket(a) \cap InBucket(b) = {}
    BY <1>2, <1>7
  <2> QED  BY <2>1
<1>10. \A y, z \in Map!Range(listHead') : y.obj = z.obj => y = z
  BY <1>2, <1>6
<1>11. dict' \in [Map!Whole -> Objects \cup {NULL}]
       /\ \A l \in Map!Whole : dict'[l] = IF l = k THEN NULL ELSE dict[l]
  BY <1>1, <1>2, <1>5
<1>12. ASSUME NEW l \in Map!Whole, ~ Map!Alias(l)
       PROVE  /\ \A y \in InBucket(Hash[l])' : y.key = l => y.obj = dict'[l]
              /\ dict'[l] # NULL => [key |-> l, obj |-> dict'[l]] \in InBucket(Hash[l])'
  <2>1. Hash[l] \in Buckets
    BY MapAssumption DEF MapAssumption, Map!Whole
  <2>2. InBucket(Hash[l])' = InBucket(Hash[l]) \ {x}
    BY <1>7, <2>1
  <2>3. CASE l = k
    <3>1. x \in InBucket(Hash[l]) /\ x.key = l
      BY <1>3, <2>3
    <3>2. \A y \in InBucket(Hash[l]) : y.key = l => y.obj = dict[l]
      BY <1>2, <1>12
    <3>3. \A y \in InBucket(Hash[l]) : y \in all /\ (y.key = l => y.obj = x.obj)
      BY <1>2, <2>1, <3>1, <3>2
    <3>4. \A y \in InBucket(Hash[l]) : y.key = l => y = x
      BY <1>2, <1>3, <3>3
    <3>5. dict'[l] = NULL
      BY <1>11, <2>3
    <3> QED  BY <2>2, <3>4, <3>5
  <2>4. CASE l # k
    <3>1. dict'[l] = dict[l]
      BY <1>11, <2>4
    <3>2. [key |-> l, obj |-> dict[l]] # x
      BY <1>3, <2>4
    <3> QED  BY <1>2, <1>12, <2>2, <3>1, <3>2
  <2> QED  BY <2>3, <2>4
<1>13. \A y \in Map!Range(listHead') : ~ Map!Contains(handled', y.obj)
  <2>1. \A y \in Map!Range(listHead') : y.obj # x.obj
    BY <1>2, <1>3, <1>6
  <2>2. Len(handled') = 1 /\ handled'[1] = x.obj
    BY <1>1
  <2> QED  BY <2>1, <2>2 DEF Map!Contains
<1> QED  BY <1>6, <1>7, <1>8, <1>9, <1>10, <1>11, <1>12, <1>13 DEF MapInv

\* All items go.
LEMMA CleanStep == ASSUME MapInv, Map!Clean  PROVE MapInv'
<1>1. /\ listHead' = <<>> /\ hashHead' = [b \in Buckets |-> <<>>]
      /\ dict' = [k \in Map!Whole |-> NULL]
  BY DEF Map!Clean, Map!SpeMapClean
<1>2. Map!Range(<<>>) = {} /\ Map!IsInjective(<<>>) /\ <<>> \in Seq(Map!Items)
  BY DEF Map!Range, Map!IsInjective
<1>3. \A b \in Buckets : hashHead'[b] = <<>> /\ InBucket(b)' = {}
  BY <1>1, <1>2 DEF InBucket
<1>4. \A k \in Map!Whole : Hash[k] \in Buckets /\ dict'[k] = NULL
  BY <1>1, MapAssumption DEF MapAssumption, Map!Whole
<1> QED  BY <1>1, <1>2, <1>3, <1>4 DEF MapInv

\* For any keys, hash and objects: chains and list have the same items, and
\* under a key that nothing else is taken for they have what the program set
\* last (spe_map.c:14-202).
THEOREM MapInvariance == Map!Spec => []MapInv
<1>1. MapInv /\ [Map!Next]_(Map!vars) => MapInv'
  <2> SUFFICES ASSUME MapInv, [Map!Next]_(Map!vars)  PROVE MapInv'
    OBVIOUS
  <2>1. CASE Map!Clean
    BY <2>1, CleanStep
  <2>2. ASSUME NEW k \in Names, Map!Del(k)  PROVE MapInv'
    BY <2>2, DelItemStep
  <2>3. ASSUME NEW k \in Names, NEW obj \in Objects, Map!Set(k, obj)  PROVE MapInv'
    BY <2>3, SetStep
  <2>4. CASE UNCHANGED Map!vars
    <3>1. listHead' = listHead /\ hashHead' = hashHead /\ handled' = handled /\ dict' = dict
      BY <2>4 DEF Map!vars
    <3>2. \A b : InBucket(b)' = InBucket(b)
      BY <3>1 DEF InBucket
    <3>3. (MapInv)' <=> MapInv
      BY <3>1, <3>2 DEF MapInv
    <3> QED  BY <3>3
  <2> QED  BY <2>1, <2>2, <2>3, <2>4 DEF Map!Next
<1> QED  BY <1>1, InitMap, PTL DEF Map!Spec

\* The invariant says what the calls return.
LEMMA MapFollows == MapInv => Map!MapIsDictionary
<1> SUFFICES ASSUME MapInv  PROVE Map!MapIsDictionary
  OBVIOUS
<1>1. Map!NoItem.obj = NULL
  BY DEF Map!NoItem
<1>2. /\ listHead \in Seq(Map!Items) /\ hashHead \in [Buckets -> Seq(Map!Items)]
      /\ Map!IsInjective(listHead) /\ \A b \in Buckets : Map!IsInjective(hashHead[b])
      /\ \A l \in Map!Whole : ~ Map!Alias(l) =>
           /\ \A y \in InBucket(Hash[l]) : y.key = l => y.obj = dict[l]
           /\ dict[l] # NULL => [key |-> l, obj |-> dict[l]] \in InBucket(Hash[l])
      /\ \A y \in Map!Range(listHead) : ~ Map!Contains(handled, y.obj)
  BY DEF MapInv
<1>3. \A b \in Buckets : \A x \in InBucket(b) : x \in Map!Items
  <2> TAKE b \in Buckets
  <2> DEFINE s == hashHead[b]
  <2>1. s \in Seq(Map!Items)
    BY <1>2
  <2>2. DOMAIN s = 1..Len(s) /\ \A i \in 1..Len(s) : s[i] \in Map!Items
    BY <2>1, LenProperties, ElementOfSeq
  <2> QED  BY <2>2 DEF InBucket, Map!Range
<1>4. ASSUME NEW k \in Map!Whole, ~ Map!Alias(k)
      PROVE  /\ Map!SpeMapGet(k) = dict[k]
             /\ \A i, j \in DOMAIN hashHead[Hash[k]] :
                  hashHead[Hash[k]][i].key = k /\ hashHead[Hash[k]][j].key = k => i = j
  <2>1. k \in Names /\ Hash[k] \in Buckets
    BY MapAssumption DEF MapAssumption, Map!Whole
  <2>2. Map!SpeMapGet(k) = dict[k]
    <3> DEFINE r == Map!speMapSearch(k)
    <3>1. \/ r \in InBucket(Hash[k]) /\ r.key = k
          \/ r = Map!NoItem /\ \A x \in InBucket(Hash[k]) : x.key # k
      BY <2>1, SearchFinds
    <3>2. r.obj = Map!SpeMapGet(k)
      BY DEF Map!SpeMapGet
    <3> HIDE DEF r
    <3>3. r = Map!NoItem => dict[k] = NULL
      <4>1. [key |-> k, obj |-> dict[k]].key = k
        OBVIOUS
      <4>2. r = Map!NoItem => r \notin InBucket(Hash[k])
        BY <1>3, <2>1, ItemFacts
      <4> QED  BY <1>2, <1>4, <3>1, <4>1, <4>2
    <3> QED  BY <1>1, <1>2, <1>4, <3>1, <3>2, <3>3
  <2>3. ASSUME NEW i \in DOMAIN hashHead[Hash[k]], NEW j \in DOMAIN hashHead[Hash[k]],
               hashHead[Hash[k]][i].key = k, hashHead[Hash[k]][j].key = k
        PROVE  i = j
    <3> DEFINE s == hashHead[Hash[k]]
    <3>1. s[i] \in InBucket(Hash[k]) /\ s[j] \in InBucket(Hash[k])
      BY DEF InBucket, Map!Range
    <3>2. s[i].obj = dict[k] /\ s[j].obj = dict[k] /\ s[i].key = k /\ s[j].key = k
      BY <1>2, <1>4, <2>3, <3>1
    <3> HIDE DEF s
    <3>3. s[i] = [key |-> s[i].key, obj |-> s[i].obj] /\ s[j] = [key |-> s[j].key, obj |-> s[j].obj]
      BY <1>3, <2>1, <3>1, ItemFacts
    <3>4. s[i] = s[j]
      BY <3>2, <3>3
    <3> QED  BY <1>2, <2>1, <3>4 DEF Map!IsInjective, s
  <2> QED  BY <2>2, <2>3
<1>5. ASSUME NEW k \in Names \ Map!Whole  PROVE Map!SpeMapGet(k) = NULL
  <2> DEFINE r == Map!speMapSearch(k)
  <2>1. Hash[k] \in Buckets
    BY MapAssumption DEF MapAssumption
  <2>2. (r \in InBucket(Hash[k]) /\ r.key = k) \/ r = Map!NoItem
    BY SearchFinds
  <2>3. r.obj = Map!SpeMapGet(k)
    BY DEF Map!SpeMapGet
  <2> HIDE DEF r
  <2>4. r \in InBucket(Hash[k]) => r.key \notin Names \/ r.key \in Map!Whole
    BY <1>3, <2>1, ItemFacts
  <2> QED  BY <1>1, <2>2, <2>3, <2>4
<1>6. ASSUME NEW i \in DOMAIN listHead
      PROVE  /\ Map!SpeMapNext(listHead[i]) =
                  IF i = Len(listHead) THEN Map!NoItem ELSE listHead[i + 1]
             /\ ~ Map!Contains(handled, listHead[i].obj)
  <2>1. listHead[i] \in Map!Range(listHead)
    BY DEF Map!Range
  <2>2. listHead[i] # Map!NoItem
    <3>1. DOMAIN listHead = 1..Len(listHead) /\ \A j \in 1..Len(listHead) : listHead[j] \in Map!Items
      BY <1>2, LenProperties, ElementOfSeq
    <3> QED  BY <3>1, ItemFacts
  <2>3. \A j \in DOMAIN listHead : listHead[j] = listHead[i] => j = i
    BY <1>2 DEF Map!IsInjective
  <2>4. (CHOOSE j \in DOMAIN listHead : listHead[j] = listHead[i]) = i
    BY <2>3
  <2>5. Map!SpeMapNext(listHead[i]) = IF i = Len(listHead) THEN Map!NoItem ELSE listHead[i + 1]
    BY <2>2, <2>4 DEF Map!SpeMapNext
  <2> QED  BY <1>2, <2>1, <2>5
<1>7. Map!Range(listHead) = UNION {Map!Range(hashHead[b]) : b \in Buckets}
      /\ \A a, b \in Buckets : a # b => Map!Range(hashHead[a]) \cap Map!Range(hashHead[b]) = {}
  BY DEF MapInv, InBucket
<1> QED  BY <1>2, <1>4, <1>5, <1>6, <1>7 DEF Map!MapIsDictionary

\* Under a key that is kept whole the map has what was set last, whatever else
\* is set, deleted and cleaned (spe_map.c:14-220).
THEOREM MapIsAlwaysDictionary == Map!Spec => []MapIsDictionary
BY MapInvariance, MapFollows, PTL DEF MapIsDictionary

-----------------------------------------------------------------------------
(* Strings *)

\* What the memory of strings is made of.
Chars == STRING \cup {String!NUL, String!Blank, String!Garbage}

\* Strings whose window lies in their memory.
Strings == {s \in [mem : Seq(Chars), off : Nat, len : Nat] : s.off + s.len <= Len(s.mem)}

\* The window at the place off of the memory has these bytes and is terminated.
Window(mem, off, bytes) ==
  /\ off + Len(bytes) + 1 <= Len(mem) /\ mem[off + Len(bytes) + 1] = String!NUL
  /\ \A j \in 1..Len(bytes) : mem[off + j] = bytes[j]

\* A string has these bytes.
Holds(s, bytes) ==
  /\ s \in Strings /\ bytes \in Seq(Chars)
  /\ s.len = Len(bytes) /\ Window(s.mem, s.off, bytes)

\* The parts of a string.
LEMMA StringParts ==
  ASSUME NEW s \in Strings
  PROVE  /\ s = [mem |-> s.mem, off |-> s.off, len |-> s.len]
         /\ s.mem \in Seq(Chars) /\ s.off \in Nat /\ s.len \in Nat /\ Len(s.mem) \in Nat
         /\ s.off + s.len <= Len(s.mem)
         /\ \A j \in 1..Len(s.mem) : s.mem[j] \in Chars
<1>1. s \in [mem : Seq(Chars), off : Nat, len : Nat] /\ s.off + s.len <= Len(s.mem)
  BY DEF Strings
<1>2. s.mem \in Seq(Chars) /\ s.off \in Nat /\ s.len \in Nat
  BY <1>1
<1>3. s = [mem |-> s.mem, off |-> s.off, len |-> s.len]
  BY <1>1
<1>4. Len(s.mem) \in Nat /\ \A j \in 1..Len(s.mem) : s.mem[j] \in Chars
  BY <1>2, LenProperties, ElementOfSeq
<1> QED  BY <1>1, <1>2, <1>3, <1>4

\* A record of memory and window is a string.
LEMMA MakesString ==
  ASSUME NEW mem \in Seq(Chars), NEW o \in Nat, NEW n \in Nat, o + n <= Len(mem)
  PROVE  [mem |-> mem, off |-> o, len |-> n] \in Strings
BY DEF Strings

\* The bytes of a window.
LEMMA DataFacts ==
  ASSUME NEW s \in Strings
  PROVE  /\ String!data(s) \in Seq(Chars) /\ Len(String!data(s)) = s.len
         /\ \A j \in 1..s.len : String!data(s)[j] = s.mem[s.off + j]
<1> DEFINE mem == s.mem
           o == s.off
           n == s.len
<1>1. /\ mem \in Seq(Chars) /\ o \in Nat /\ n \in Nat /\ Len(mem) \in Nat /\ o + n <= Len(mem)
      /\ \A j \in 1..Len(mem) : mem[j] \in Chars
  BY StringParts
<1>2. String!data(s) = SubSeq(mem, o + 1, o + n)
  BY DEF String!data
<1> HIDE DEF mem, o, n
<1>3. \A j \in (o + 1)..(o + n) : mem[j] \in Chars
  BY <1>1
<1>4. o + 1 \in Int /\ o + n \in Int
  BY <1>1
<1>5. /\ SubSeq(mem, o + 1, o + n) \in Seq(Chars)
      /\ Len(SubSeq(mem, o + 1, o + n)) = IF o + 1 <= o + n THEN (o + n) - (o + 1) + 1 ELSE 0
      /\ \A j \in 1..((o + n) - (o + 1) + 1) : SubSeq(mem, o + 1, o + n)[j] = mem[(o + 1) + j - 1]
  BY <1>3, <1>4, SubSeqProperties
<1>6. Len(SubSeq(mem, o + 1, o + n)) = n
  BY <1>1, <1>5
<1>7. \A j \in 1..n : SubSeq(mem, o + 1, o + n)[j] = mem[o + j]
  <2> TAKE j \in 1..n
  <2>1. j \in 1..((o + n) - (o + 1) + 1) /\ (o + 1) + j - 1 = o + j
    BY <1>1
  <2> QED  BY <1>5, <2>1
<1> QED  BY <1>2, <1>5, <1>6, <1>7 DEF mem, o, n

\* What the property says of a string, byte by byte.
LEMMA SoundIsHolds ==
  ASSUME NEW s \in Strings, NEW bytes \in Seq(Chars)
  PROVE  String!Sound(s, bytes) <=> Holds(s, bytes)
<1>1. Len(bytes) \in Nat
  BY LenProperties
<1>2. /\ String!data(s) \in Seq(Chars) /\ Len(String!data(s)) = s.len
      /\ \A j \in 1..s.len : String!data(s)[j] = s.mem[s.off + j]
  BY DataFacts
<1>3. ASSUME String!Sound(s, bytes)  PROVE Holds(s, bytes)
  <2>1. /\ String!data(s) = bytes
        /\ s.off + s.len + 1 <= Len(s.mem) /\ s.mem[s.off + s.len + 1] = String!NUL
    BY <1>3, Zenon DEF String!Sound
  <2>2. s.len = Len(bytes) /\ \A j \in 1..Len(bytes) : s.mem[s.off + j] = bytes[j]
    BY <1>2, <2>1
  <2> QED  BY <2>1, <2>2, Zenon DEF Holds, Window
<1>4. ASSUME Holds(s, bytes)  PROVE String!Sound(s, bytes)
  <2>1. /\ s.len = Len(bytes) /\ s.off + Len(bytes) + 1 <= Len(s.mem)
        /\ s.mem[s.off + Len(bytes) + 1] = String!NUL
        /\ \A j \in 1..Len(bytes) : s.mem[s.off + j] = bytes[j]
    BY <1>4, Zenon DEF Holds, Window
  <2>2. String!data(s) = bytes
    <3> DEFINE d == String!data(s)
    <3>1. d \in Seq(Chars) /\ Len(d) = Len(bytes) /\ \A j \in 1..Len(d) : d[j] = bytes[j]
      BY <1>2, <2>1
    <3> HIDE DEF d
    <3>2. d = bytes
      BY <3>1, SeqEqual
    <3> QED  BY <3>2 DEF d
  <2> QED  BY <2>1, <2>2, Zenon DEF String!Sound
<1> QED  BY <1>3, <1>4

\* memcpy within the memory.
LEMMA WriteFacts ==
  ASSUME NEW mem \in Seq(Chars), NEW i \in Nat, NEW bytes \in Seq(Chars), i + Len(bytes) <= Len(mem)
  PROVE  /\ String!Write(mem, i, bytes) \in Seq(Chars)
         /\ Len(String!Write(mem, i, bytes)) = Len(mem)
         /\ \A j \in 1..Len(mem) : String!Write(mem, i, bytes)[j] =
              IF i + 1 <= j /\ j <= i + Len(bytes) THEN bytes[j - i] ELSE mem[j]
<1> DEFINE n == Len(mem)
           k == Len(bytes)
           w == String!Write(mem, i, bytes)
<1>1. /\ n \in Nat /\ k \in Nat /\ i + k <= n /\ DOMAIN mem = 1..n
      /\ (\A j \in 1..n : mem[j] \in Chars) /\ \A j \in 1..k : bytes[j] \in Chars
  BY LenProperties, ElementOfSeq
<1>2. w = [j \in 1..n |-> IF j \in (i + 1)..(i + k) THEN bytes[j - i] ELSE mem[j]]
  BY <1>1 DEF String!Write
<1> HIDE DEF n, k, w
<1>3. \A j \in 1..n : w[j] = IF i + 1 <= j /\ j <= i + k THEN bytes[j - i] ELSE mem[j]
  BY <1>1, <1>2
<1>4. \A j \in 1..n : w[j] \in Chars
  <2> TAKE j \in 1..n
  <2>1. CASE i + 1 <= j /\ j <= i + k
    <3>1. j - i \in 1..k
      BY <1>1, <2>1
    <3> QED  BY <1>1, <1>3, <2>1, <3>1
  <2>2. CASE ~ (i + 1 <= j /\ j <= i + k)
    BY <1>1, <1>3, <2>2
  <2> QED  BY <2>1, <2>2
<1>5. w \in [1..n -> Chars]
  BY <1>2, <1>4
<1>6. w \in Seq(Chars) /\ Len(w) = n
  BY <1>1, <1>5
<1> QED  BY <1>3, <1>6 DEF n, k, w

\* New memory has one byte throughout.
LEMMA MemoryFacts ==
  ASSUME NEW n \in Nat, NEW b \in Chars
  PROVE  /\ String!Memory(n, b) \in Seq(Chars) /\ Len(String!Memory(n, b)) = n
         /\ \A j \in 1..n : String!Memory(n, b)[j] = b
<1> DEFINE w == String!Memory(n, b)
<1>1. w = [j \in 1..n |-> b]
  BY DEF String!Memory
<1> HIDE DEF w
<1>2. w \in [1..n -> Chars] /\ \A j \in 1..n : w[j] = b
  BY <1>1
<1>3. w \in Seq(Chars) /\ Len(w) = n
  BY <1>2
<1> QED  BY <1>2, <1>3 DEF w

\* The bytes that mean something to the code are among those of the memory.
LEMMA SomeChars == {String!NUL, String!Blank, String!Garbage} \subseteq Chars
BY DEF Chars

\* Every call ends by writing the NUL behind the window.
LEMMA TerminateHolds ==
  ASSUME NEW mem \in Seq(Chars), NEW o \in Nat, NEW bytes \in Seq(Chars),
         o + Len(bytes) + 1 <= Len(mem), \A j \in 1..Len(bytes) : mem[o + j] = bytes[j]
  PROVE  /\ Holds(String!Terminate([mem |-> mem, off |-> o, len |-> Len(bytes)]), bytes)
         /\ Len(String!Terminate([mem |-> mem, off |-> o, len |-> Len(bytes)]).mem) = Len(mem)
         /\ String!Terminate([mem |-> mem, off |-> o, len |-> Len(bytes)]).off = o
<1> DEFINE n == Len(bytes)
           nul == <<String!NUL>>
           w == String!Write(mem, o + n, nul)
           t == String!Terminate([mem |-> mem, off |-> o, len |-> Len(bytes)])
<1>1. n \in Nat /\ Len(mem) \in Nat
  BY LenProperties
<1>2. nul \in Seq(Chars) /\ Len(nul) = 1 /\ nul[1] = String!NUL
  BY SomeChars
<1>3. t = [mem |-> w, off |-> o, len |-> n]
  BY DEF String!Terminate
<1>4. /\ w \in Seq(Chars) /\ Len(w) = Len(mem)
      /\ \A j \in 1..Len(mem) : w[j] =
           IF (o + n) + 1 <= j /\ j <= (o + n) + Len(nul) THEN nul[j - (o + n)] ELSE mem[j]
  <2>1. o + n \in Nat /\ (o + n) + Len(nul) <= Len(mem)
    BY <1>1, <1>2
  <2> HIDE DEF nul
  <2> QED  BY <1>2, <2>1, WriteFacts
<1>5. o + n + 1 \in 1..Len(mem) /\ \A j \in 1..n : o + j \in 1..Len(mem) /\ o + j < (o + n) + 1
  BY <1>1
<1> HIDE DEF w, nul
<1>6. w[o + n + 1] = String!NUL
  <2>1. (o + n) + 1 <= o + n + 1 /\ o + n + 1 <= (o + n) + Len(nul) /\ (o + n + 1) - (o + n) = 1
    BY <1>1, <1>2
  <2> QED  BY <1>2, <1>4, <1>5, <2>1
<1>7. \A j \in 1..n : w[o + j] = bytes[j]
  <2> TAKE j \in 1..n
  <2>1. o + j \in 1..Len(mem) /\ ~ ((o + n) + 1 <= o + j)
    BY <1>1, <1>5
  <2> QED  BY <1>4, <2>1
<1> HIDE DEF t
<1>8. t.mem = w /\ t.off = o /\ t.len = n
  BY <1>3
<1> HIDE DEF n
<1>9. t \in Strings
  <2>1. n \in Nat /\ o + n <= Len(w)
    BY <1>1, <1>4, <1>5
  <2>2. [mem |-> w, off |-> o, len |-> n] \in Strings
    BY <1>4, <2>1, MakesString
  <2> QED  BY <1>3, <2>2
<1>10. o + n + 1 <= Len(w)
  BY <1>4, <1>5
<1>11. Holds(t, bytes)
  BY <1>6, <1>7, <1>8, <1>9, <1>10, Zenon DEF Holds, Window, n
<1> QED  BY <1>4, <1>8, <1>11 DEF t, n

\* Bytes written behind those of a window.
LEMMA AppendsBytes ==
  ASSUME NEW r \in Strings, NEW t \in Seq(Chars), NEW add \in Seq(Chars),
         Len(t) = r.len, \A j \in 1..r.len : r.mem[r.off + j] = t[j],
         r.off + (r.len + (Len(add) + 1)) <= Len(r.mem)
  PROVE  Holds(String!AppendBytes(r, add), t \o add)
<1> DEFINE o == r.off
           n == r.len
           k == Len(add)
           w == String!Write(r.mem, o + n, add)
           u == t \o add
<1>1. /\ r.mem \in Seq(Chars) /\ o \in Nat /\ n \in Nat /\ k \in Nat /\ Len(r.mem) \in Nat
      /\ Len(t) = n /\ \A j \in 1..n : r.mem[o + j] = t[j]
  BY StringParts, LenProperties
<1>2. o + (n + (k + 1)) <= Len(r.mem)
  OBVIOUS
<1>3. /\ u \in Seq(Chars) /\ Len(u) = Len(t) + Len(add)
      /\ \A i \in 1..Len(t) + Len(add) : u[i] = IF i <= Len(t) THEN t[i] ELSE add[i - Len(t)]
  BY ConcatProperties
<1>4. /\ w \in Seq(Chars) /\ Len(w) = Len(r.mem)
      /\ \A j \in 1..Len(r.mem) : w[j] =
           IF (o + n) + 1 <= j /\ j <= (o + n) + Len(add) THEN add[j - (o + n)] ELSE r.mem[j]
  <2>1. o + n \in Nat /\ (o + n) + Len(add) <= Len(r.mem)
    BY <1>1, <1>2
  <2> QED  BY <1>1, <2>1, WriteFacts
<1>5. String!AppendBytes(r, add) = String!Terminate([mem |-> w, off |-> o, len |-> n + k])
  BY DEF String!AppendBytes
<1>6. Len(u) = n + k
  BY <1>1, <1>3
<1> HIDE DEF w, u, o, n, k
<1>7. \A j \in 1..Len(u) : w[o + j] = u[j]
  <2> TAKE j \in 1..Len(u)
  <2>1. o + j \in 1..Len(r.mem) /\ (j <= n <=> ~ ((o + n) + 1 <= o + j)) /\ o + j <= (o + n) + k
    BY <1>1, <1>2, <1>6
  <2>2. (o + j) - (o + n) = j - n /\ Len(add) = k
    BY <1>1 DEF k
  <2>3. CASE j <= n
    <3>1. w[o + j] = r.mem[o + j]
      BY <1>4, <2>1, <2>3
    <3>2. u[j] = t[j]
      BY <1>1, <1>3, <2>3
    <3>3. j \in 1..n
      BY <2>3, <1>6, <1>1
    <3> QED  BY <1>1, <3>1, <3>2, <3>3
  <2>4. CASE ~ (j <= n)
    <3>1. w[o + j] = add[j - n]
      BY <1>4, <2>1, <2>2, <2>4
    <3>2. u[j] = add[j - n]
      BY <1>1, <1>3, <2>4
    <3> QED  BY <3>1, <3>2
  <2> QED  BY <2>3, <2>4
<1>8. o + Len(u) + 1 <= Len(w)
  BY <1>1, <1>2, <1>4, <1>6
<1>9. Holds(String!Terminate([mem |-> w, off |-> o, len |-> Len(u)]), u)
  BY <1>1, <1>3, <1>4, <1>7, <1>8, TerminateHolds
<1>10. Holds(String!AppendBytes(r, add), u)
  BY <1>5, <1>6, <1>9
<1> QED  BY <1>10 DEF u

\* Bytes written to the begin of a memory.
LEMMA FillsFromStart ==
  ASSUME NEW mem \in Seq(Chars), NEW bytes \in Seq(Chars), Len(bytes) + 1 <= Len(mem)
  PROVE  /\ Holds(String!FromStart(mem, bytes), bytes)
         /\ Len(String!FromStart(mem, bytes).mem) = Len(mem) /\ String!FromStart(mem, bytes).off = 0
<1> DEFINE w == String!Write(mem, 0, bytes)
           n == Len(bytes)
<1>1. n \in Nat /\ Len(mem) \in Nat /\ n + 1 <= Len(mem)
  BY LenProperties
<1>2. /\ w \in Seq(Chars) /\ Len(w) = Len(mem)
      /\ \A j \in 1..Len(mem) : w[j] = IF 0 + 1 <= j /\ j <= 0 + Len(bytes) THEN bytes[j - 0] ELSE mem[j]
  <2>1. 0 \in Nat /\ 0 + Len(bytes) <= Len(mem)
    BY <1>1
  <2> QED  BY <2>1, WriteFacts
<1> HIDE DEF w
<1>3. \A j \in 1..Len(bytes) : w[0 + j] = bytes[j]
  <2> TAKE j \in 1..Len(bytes)
  <2>1. j \in 1..Len(mem) /\ 0 + 1 <= j /\ j <= 0 + Len(bytes) /\ 0 + j = j /\ j - 0 = j
    BY <1>1
  <2> QED  BY <1>2, <2>1
<1>4. bytes \in Seq(Chars) /\ w \in Seq(Chars) /\ 0 \in Nat /\ 0 + Len(bytes) + 1 <= Len(w)
  BY <1>1, <1>2
<1> DEFINE t == String!Terminate([mem |-> w, off |-> 0, len |-> Len(bytes)])
<1>5. Holds(t, bytes) /\ Len(t.mem) = Len(w) /\ t.off = 0
  BY ONLY <1>3, <1>4, TerminateHolds, ZenonT(30)
<1> HIDE DEF t
<1>6. Holds(t, bytes) /\ Len(t.mem) = Len(mem) /\ t.off = 0
  BY <1>2, <1>5
<1>7. String!FromStart(mem, bytes) = t
  BY DEF String!FromStart, t, w
<1> QED  BY <1>6, <1>7

\* There is room, and the bytes are those from before: left where they are,
\* moved to the begin of the memory, or copied to a new one.
LEMMA ReadyFacts ==
  ASSUME NEW s \in Strings, NEW need \in Nat
  PROVE  LET r == String!SpeStringReady(s, need)
         IN  /\ r \in Strings /\ r.len = s.len /\ r.off + need <= Len(r.mem)
             /\ \A j \in 1..s.len : r.mem[r.off + j] = s.mem[s.off + j]
             /\ \A bytes : Holds(s, bytes) => Holds(r, bytes)
<1> DEFINE r == String!SpeStringReady(s, need)
           d == String!data(s)
           Good == /\ r \in Strings /\ r.len = s.len /\ r.off + need <= Len(r.mem)
                   /\ \A j \in 1..s.len : r.mem[r.off + j] = s.mem[s.off + j]
                   /\ \A bytes : Holds(s, bytes) => Holds(r, bytes)
<1>1. /\ s.mem \in Seq(Chars) /\ s.off \in Nat /\ s.len \in Nat /\ Len(s.mem) \in Nat
      /\ s.off + s.len <= Len(s.mem)
  BY StringParts
<1>2. d \in Seq(Chars) /\ Len(d) = s.len /\ \A j \in 1..s.len : d[j] = s.mem[s.off + j]
  BY DataFacts
<1>3. \A bytes : Holds(s, bytes) => d = bytes
  <2> TAKE bytes
  <2> HAVE Holds(s, bytes)
  <2>1. bytes \in Seq(Chars)
    BY DEF Holds
  <2>2. String!Sound(s, bytes)
    BY <2>1, SoundIsHolds
  <2> QED  BY <2>2 DEF String!Sound
<1>4. ASSUME NEW mem \in Seq(Chars), need <= Len(mem), ~ (need <= Len(s.mem) - s.off),
             r = String!FromStart(mem, d)
      PROVE  Good
  <2> HIDE DEF d
  <2>1. Len(d) + 1 <= Len(mem)
    <3>1. Len(mem) \in Nat
      BY LenProperties
    <3> QED  BY <1>1, <1>2, <1>4, <3>1
  <2>2. Holds(r, d) /\ Len(r.mem) = Len(mem) /\ r.off = 0
    BY <1>2, <1>4, <2>1, FillsFromStart
  <2> HIDE DEF r
  <2>3. r \in Strings /\ r.len = Len(d) /\ \A j \in 1..Len(d) : r.mem[r.off + j] = d[j]
    BY <2>2 DEF Holds, Window
  <2>4. r.off + need <= Len(r.mem)
    BY <1>4, <2>2
  <2>5. \A bytes : Holds(s, bytes) => Holds(r, bytes)
    BY <1>3, <2>2, Zenon
  <2>6. \A j \in 1..s.len : r.mem[r.off + j] = s.mem[s.off + j]
    BY <1>2, <2>3
  <2> QED  BY <1>2, <2>3, <2>4, <2>5, <2>6
<1>5. ASSUME need <= Len(s.mem) - s.off
      PROVE  Good
  <2>1. r = s
    BY <1>5 DEF String!SpeStringReady
  <2>2. s.off + need <= Len(s.mem)
    BY <1>1, <1>5
  <2> HIDE DEF r
  <2> QED  BY <2>1, <2>2, Zenon DEF Good
<1>6. ASSUME ~ (need <= Len(s.mem) - s.off) /\ need <= Len(s.mem)
      PROVE  Good
  <2>1. r = String!FromStart(s.mem, d)
    BY <1>6, Zenon DEF String!SpeStringReady
  <2> HIDE DEF r, d, Good
  <2>2. s.mem \in Seq(Chars) /\ need <= Len(s.mem) /\ ~ (need <= Len(s.mem) - s.off)
    BY <1>1, <1>6
  <2> QED  BY <1>4, <2>1, <2>2, Zenon
<1>7. ASSUME ~ (need <= Len(s.mem) - s.off) /\ ~ (need <= Len(s.mem))
      PROVE  Good
  <2> DEFINE mem == String!Memory(need + Slack, String!Garbage)
  <2>2. r = String!FromStart(mem, d)
    BY <1>7, Zenon DEF String!SpeStringReady
  <2>3. need + Slack \in Nat /\ Slack \in Nat /\ String!Garbage \in Chars
    BY StringAssumption, SomeChars DEF StringAssumption
  <2>4. mem \in Seq(Chars) /\ Len(mem) = need + Slack
    BY <2>3, MemoryFacts
  <2>5. need <= Len(mem)
    BY <2>3, <2>4
  <2> HIDE DEF r, d, Good, mem
  <2>6. ~ (need <= Len(s.mem) - s.off)
    BY <1>7
  <2> QED  BY <1>4, <2>2, <2>4, <2>5, <2>6, Zenon
<1>8. Good
  BY <1>5, <1>6, <1>7, Zenon
<1> QED  BY <1>8, Zenon DEF Good

-----------------------------------------------------------------------------
(* What each call leaves *)

\* Appending.
LEMMA CatbHolds ==
  ASSUME NEW s, NEW t, Holds(s, t), NEW bytes \in Seq(Chars)
  PROVE  Holds(String!SpeStringCatb(s, bytes), t \o bytes)
<1> DEFINE k == Len(bytes)
           need == s.len + (k + 1)
           r == String!SpeStringReady(s, need)
<1>1. s \in Strings /\ t \in Seq(Chars) /\ s.len = Len(t)
  BY DEF Holds
<1>2. s.len \in Nat /\ k \in Nat
  BY <1>1, StringParts, LenProperties
<1>3. need \in Nat
  BY <1>2
<1>4. r \in Strings /\ r.off + need <= Len(r.mem) /\ Holds(r, t)
  BY <1>1, <1>3, ReadyFacts
<1>5. String!SpeStringCatb(s, bytes) = String!AppendBytes(r, bytes)
  BY DEF String!SpeStringCatb, String!SpeStringReadyplus
<1>6. r.len = Len(t) /\ \A j \in 1..r.len : r.mem[r.off + j] = t[j]
  BY <1>4 DEF Holds, Window
<1>7. r.off + (r.len + (Len(bytes) + 1)) <= Len(r.mem)
  BY <1>1, <1>4, <1>6
<1> HIDE DEF r, need
<1>8. Holds(String!AppendBytes(r, bytes), t \o bytes)
  BY <1>1, <1>4, <1>6, <1>7, AppendsBytes
<1> QED  BY <1>5, <1>8

\* Copying, into any string.
LEMMA CopybHolds ==
  ASSUME NEW s \in Strings, NEW bytes \in Seq(Chars)
  PROVE  Holds(String!SpeStringCopyb(s, bytes), bytes)
<1> DEFINE r == String!SpeStringReady(s, Len(bytes) + 1)
<1>1. Len(bytes) \in Nat
  BY LenProperties
<1>2. Len(bytes) + 1 \in Nat
  BY <1>1
<1>3. r \in Strings /\ r.off + (Len(bytes) + 1) <= Len(r.mem)
  BY <1>2, ReadyFacts
<1>4. String!SpeStringCopyb(s, bytes) = String!FromStart(r.mem, bytes)
  BY DEF String!SpeStringCopyb
<1> HIDE DEF r
<1>5. r.mem \in Seq(Chars) /\ r.off \in Nat /\ Len(r.mem) \in Nat
  BY <1>3, StringParts
<1>6. Len(bytes) + 1 <= Len(r.mem)
  BY <1>1, <1>3, <1>5
<1> QED  BY <1>4, <1>5, <1>6, FillsFromStart

\* A new string, and a slot without one.
LEMMA NewStrings ==
  /\ Holds(String!SpeStringCreate(FirstSize), <<>>)
  /\ String!NoString \in Strings
<1>1. FirstSize \in Nat /\ FirstSize >= 1 /\ String!NUL \in Chars
  BY StringAssumption, SomeChars DEF StringAssumption
<1> DEFINE mem == String!Memory(FirstSize, String!NUL)
<1>2. mem \in Seq(Chars) /\ Len(mem) = FirstSize /\ \A j \in 1..FirstSize : mem[j] = String!NUL
  BY <1>1, MemoryFacts
<1>3. <<>> \in Seq(Chars) /\ Len(<<>>) = 0
  BY EmptySeq
<1>4. String!SpeStringCreate(FirstSize) = [mem |-> mem, off |-> 0, len |-> 0]
  BY DEF String!SpeStringCreate
<1> HIDE DEF mem
<1>5. Holds([mem |-> mem, off |-> 0, len |-> 0], <<>>)
  <2>1. 0 + 0 <= Len(mem) /\ 0 + 0 + 1 <= Len(mem) /\ mem[0 + 0 + 1] = String!NUL
    BY <1>1, <1>2
  <2>2. [mem |-> mem, off |-> 0, len |-> 0] \in Strings
    BY <1>2, <2>1, MakesString
  <2> QED  BY <1>3, <2>1, <2>2 DEF Holds, Window
<1>6. [mem |-> <<>>, off |-> 0, len |-> 0] \in Strings
  <2>1. 0 \in Nat /\ 0 + 0 <= Len(<<>>)
    BY <1>3
  <2> QED  BY <1>3, <2>1, MakesString
<1> QED  BY <1>4, <1>5, <1>6 DEF String!NoString

\* Emptying.
LEMMA CleanHolds ==
  ASSUME NEW s, NEW t, Holds(s, t)
  PROVE  Holds(String!SpeStringClean(s), <<>>)
<1>1. s \in Strings /\ t \in Seq(Chars) /\ s.off + Len(t) + 1 <= Len(s.mem)
  BY DEF Holds, Window
<1>2. s.mem \in Seq(Chars) /\ s.off \in Nat /\ Len(s.mem) \in Nat /\ Len(t) \in Nat
  BY <1>1, StringParts, LenProperties
<1>3. <<>> \in Seq(Chars) /\ Len(<<>>) = 0
  BY EmptySeq
<1>4. 0 + Len(<<>>) + 1 <= Len(s.mem) /\ 0 \in Nat
  BY <1>1, <1>2, <1>3
<1>5. \A j \in 1..Len(<<>>) : s.mem[0 + j] = <<>>[j]
  BY <1>3
<1>6. Holds(String!Terminate([mem |-> s.mem, off |-> 0, len |-> Len(<<>>)]), <<>>)
  BY <1>2, <1>3, <1>4, <1>5, TerminateHolds
<1>7. String!SpeStringClean(s) = String!Terminate([mem |-> s.mem, off |-> 0, len |-> 0])
  BY DEF String!SpeStringClean
<1> QED  BY <1>3, <1>6, <1>7

\* A part of the window becomes the window.
LEMMA NarrowsTo ==
  ASSUME NEW s, NEW t, Holds(s, t), NEW a \in Nat, NEW b \in Nat, a + b <= Len(t)
  PROVE  Holds(String!Terminate([mem |-> s.mem, off |-> s.off + a, len |-> b]),
               SubSeq(t, a + 1, a + b))
<1> DEFINE u == SubSeq(t, a + 1, a + b)
           o == s.off + a
           n == Len(t)
<1>1. /\ s \in Strings /\ t \in Seq(Chars) /\ s.off + n + 1 <= Len(s.mem)
      /\ \A j \in 1..n : s.mem[s.off + j] = t[j]
  BY DEF Holds, Window
<1>2. /\ s.mem \in Seq(Chars) /\ s.off \in Nat /\ Len(s.mem) \in Nat /\ n \in Nat
      /\ \A j \in 1..n : t[j] \in Chars
  BY <1>1, StringParts, LenProperties, ElementOfSeq
<1>3. a + b <= n
  OBVIOUS
<1> HIDE DEF n
<1>4. u \in Seq(Chars) /\ Len(u) = b /\ \A j \in 1..b : u[j] = t[a + j]
  <2>1. \A j \in (a + 1)..(a + b) : t[j] \in Chars
    BY <1>2, <1>3
  <2>2. a + 1 \in Int /\ a + b \in Int
    OBVIOUS
  <2>3. /\ u \in Seq(Chars) /\ Len(u) = IF a + 1 <= a + b THEN (a + b) - (a + 1) + 1 ELSE 0
        /\ \A j \in 1..((a + b) - (a + 1) + 1) : u[j] = t[(a + 1) + j - 1]
    BY <2>1, <2>2, SubSeqProperties
  <2> HIDE DEF u
  <2>4. Len(u) = b
    BY <2>3
  <2>5. ASSUME NEW j \in 1..b  PROVE u[j] = t[a + j]
    <3>1. j \in 1..((a + b) - (a + 1) + 1) /\ (a + 1) + j - 1 = a + j
      OBVIOUS
    <3> QED  BY <2>3, <3>1
  <2> QED  BY <2>3, <2>4, <2>5
<1> HIDE DEF u, o
<1>5. o \in Nat /\ o + Len(u) + 1 <= Len(s.mem)
  <2> DEFINE p == s.off
             q == Len(s.mem)
  <2>1. p \in Nat /\ q \in Nat /\ p + n + 1 <= q
    BY <1>1, <1>2
  <2> HIDE DEF p, q
  <2>2. p + a \in Nat /\ (p + a) + b + 1 <= q
    BY <1>2, <1>3, <2>1
  <2> QED  BY <1>4, <2>2 DEF o, p, q
<1>6. \A j \in 1..Len(u) : s.mem[o + j] = u[j]
  <2> TAKE j \in 1..Len(u)
  <2>1. a + j \in 1..n /\ o + j = s.off + (a + j) /\ j \in 1..b
    BY <1>2, <1>3, <1>4 DEF o
  <2> QED  BY <1>1, <1>4, <2>1
<1>7. Holds(String!Terminate([mem |-> s.mem, off |-> o, len |-> Len(u)]), u)
  BY <1>2, <1>4, <1>5, <1>6, TerminateHolds
<1> QED  BY <1>4, <1>7 DEF o, u

\* Taking bytes from the front, or from the end.
LEMMA ConsumeHolds ==
  ASSUME NEW s, NEW t, Holds(s, t), NEW n \in Nat
  PROVE  /\ Holds(String!SpeStringConsume(s, n), SubSeq(t, n + 1, Len(t)))
         /\ Holds(String!SpeStringRconsume(s, n), SubSeq(t, 1, Len(t) - n))
<1>1. s.len = Len(t) /\ Len(t) \in Nat /\ s.off \in Nat
  BY LenProperties, StringParts DEF Holds
<1>2. CASE n >= s.len
  <2>1. Holds(String!SpeStringClean(s), <<>>)
    BY CleanHolds
  <2>2. /\ String!SpeStringConsume(s, n) = String!SpeStringClean(s)
        /\ String!SpeStringRconsume(s, n) = String!SpeStringClean(s)
    BY <1>2 DEF String!SpeStringConsume, String!SpeStringRconsume
  <2>3. SubSeq(t, n + 1, Len(t)) = <<>>
    <3>1. n + 1 \in Int /\ Len(t) \in Int /\ Len(t) < n + 1
      BY <1>1, <1>2
    <3> QED  BY <3>1, SubSeqEmpty
  <2>4. SubSeq(t, 1, Len(t) - n) = <<>>
    <3>1. 1 \in Int /\ Len(t) - n \in Int /\ Len(t) - n < 1
      BY <1>1, <1>2
    <3> QED  BY <3>1, SubSeqEmpty
  <2> QED  BY <2>1, <2>2, <2>3, <2>4
<1>3. CASE ~ (n >= s.len)
  <2> DEFINE k == Len(t) - n
  <2>1. k \in Nat /\ n + k <= Len(t) /\ n + k = Len(t) /\ 0 + k <= Len(t) /\ s.len - n = k
        /\ s.off + 0 = s.off /\ 0 + 1 = 1 /\ 0 + k = k /\ 0 \in Nat
    BY <1>1, <1>3
  <2>2. /\ String!SpeStringConsume(s, n)
             = String!Terminate([mem |-> s.mem, off |-> s.off + n, len |-> s.len - n])
        /\ String!SpeStringRconsume(s, n)
             = String!Terminate([mem |-> s.mem, off |-> s.off, len |-> s.len - n])
    BY <1>3 DEF String!SpeStringConsume, String!SpeStringRconsume
  <2> HIDE DEF k
  <2>3. Holds(String!Terminate([mem |-> s.mem, off |-> s.off + n, len |-> k]), SubSeq(t, n + 1, n + k))
    BY <2>1, NarrowsTo
  <2>4. Holds(String!Terminate([mem |-> s.mem, off |-> s.off + 0, len |-> k]), SubSeq(t, 0 + 1, 0 + k))
    BY <2>1, NarrowsTo
  <2>5. Holds(String!SpeStringConsume(s, n), SubSeq(t, n + 1, Len(t)))
    BY <2>1, <2>2, <2>3
  <2>6. Holds(String!SpeStringRconsume(s, n), SubSeq(t, 1, k))
    BY <2>1, <2>2, <2>4
  <2> QED  BY <2>5, <2>6 DEF k
<1> QED  BY <1>2, <1>3

\* Reading in place of the text, or behind it.
LEMMA ReadHolds ==
  ASSUME NEW s, NEW t, Holds(s, t), NEW bytes \in Seq(Chars), NEW ask \in Nat, Len(bytes) <= ask
  PROVE  /\ Holds(String!SpeStringRead(s, ask, bytes), IF bytes = <<>> THEN t ELSE bytes)
         /\ Holds(String!SpeStringReadAppend(s, ask, bytes), t \o bytes)
<1>1. s \in Strings /\ t \in Seq(Chars) /\ s.len = Len(t) /\ s.len \in Nat /\ Len(bytes) \in Nat
  BY LenProperties, StringParts DEF Holds
<1>2. Holds(String!SpeStringRead(s, ask, bytes), IF bytes = <<>> THEN t ELSE bytes)
  <2> DEFINE r == String!SpeStringReady(s, ask + 1)
  <2>1. ask + 1 \in Nat
    OBVIOUS
  <2>2. r \in Strings /\ r.off + (ask + 1) <= Len(r.mem) /\ Holds(r, t)
    BY <1>1, <2>1, ReadyFacts
  <2>3. String!SpeStringRead(s, ask, bytes)
          = IF bytes = <<>> THEN r ELSE String!FromStart(r.mem, bytes)
    BY DEF String!SpeStringRead
  <2> HIDE DEF r
  <2>4. r.mem \in Seq(Chars) /\ Len(bytes) + 1 <= Len(r.mem)
    <3>1. r.mem \in Seq(Chars) /\ r.off \in Nat /\ Len(r.mem) \in Nat
      BY <2>2, StringParts
    <3> QED  BY <1>1, <2>2, <3>1
  <2>5. Holds(String!FromStart(r.mem, bytes), bytes)
    BY <2>4, FillsFromStart
  <2> QED  BY <2>2, <2>3, <2>5
<1>3. Holds(String!SpeStringReadAppend(s, ask, bytes), t \o bytes)
  <2> DEFINE need == s.len + (ask + 1)
             r == String!SpeStringReady(s, need)
  <2>1. need \in Nat
    BY <1>1
  <2>2. r \in Strings /\ r.off + need <= Len(r.mem) /\ Holds(r, t)
    BY <1>1, <2>1, ReadyFacts
  <2>3. String!SpeStringReadAppend(s, ask, bytes)
          = IF bytes = <<>> THEN r ELSE String!AppendBytes(r, bytes)
    BY DEF String!SpeStringReadAppend, String!SpeStringReadyplus
  <2> HIDE DEF r
  <2>4. r.len = Len(t) /\ \A j \in 1..r.len : r.mem[r.off + j] = t[j]
    BY <2>2 DEF Holds, Window
  <2>5. r.off + (r.len + (Len(bytes) + 1)) <= Len(r.mem)
    <3>1. r.off \in Nat /\ Len(r.mem) \in Nat
      BY <2>2, StringParts
    <3> QED  BY <1>1, <2>2, <2>4, <3>1
  <2>6. Holds(String!AppendBytes(r, bytes), t \o bytes)
    BY <1>1, <2>2, <2>4, <2>5, AppendsBytes
  <2>7. bytes = <<>> => t \o bytes = t
    BY <1>1, ConcatEmptySeq
  <2> QED  BY <2>2, <2>3, <2>6, <2>7
<1> QED  BY <1>2, <1>3

-----------------------------------------------------------------------------
(* Trimming *)

\* What Min and Max choose.
LEMMA MinIsLeast ==
  ASSUME NEW T \in SUBSET Nat, NEW x \in T, \A y \in T : x <= y
  PROVE  String!Min(T) = x
<1>1. String!Min(T) \in T /\ \A y \in T : String!Min(T) <= y
  BY Zenon DEF String!Min
<1>2. String!Min(T) \in Nat /\ x \in Nat /\ String!Min(T) <= x /\ x <= String!Min(T)
  BY <1>1
<1> QED  BY <1>2

LEMMA MaxIsGreatest ==
  ASSUME NEW T \in SUBSET Nat, NEW x \in T, \A y \in T : x >= y
  PROVE  String!Max(T) = x
<1>1. String!Max(T) \in T /\ \A y \in T : String!Max(T) >= y
  BY Zenon DEF String!Max
<1>2. String!Max(T) \in Nat /\ x \in Nat /\ String!Max(T) >= x /\ x >= String!Max(T)
  BY <1>1
<1> QED  BY <1>2

\* The window of a string that holds a text is the text.
LEMMA DataIsText ==
  ASSUME NEW s, NEW t, Holds(s, t)
  PROVE  String!data(s) = t
<1>1. s \in Strings /\ t \in Seq(Chars)
  BY DEF Holds
<1>2. String!Sound(s, t)
  BY <1>1, SoundIsHolds
<1> QED  BY <1>2 DEF String!Sound

\* At the front the blanks go.
LEMMA LstrimHolds ==
  ASSUME NEW s, NEW t, Holds(s, t)
  PROVE  \E n \in 0..Len(t) :
           /\ Holds(String!SpeStringLstrim(s), SubSeq(t, n + 1, Len(t)))
           /\ \A i \in 1..n : t[i] = String!Blank
           /\ n < Len(t) => t[n + 1] # String!Blank
<1> DEFINE k == Len(t)
           T == {i \in 0..k : i = k \/ t[i + 1] # String!Blank}
<1>1. s.len = k /\ k \in Nat /\ t \in Seq(Chars) /\ String!data(s) = t
  BY DataIsText, LenProperties DEF Holds
<1> HIDE DEF k
<1>2. T \in SUBSET Nat /\ T # {}
  BY <1>1
<1>3. PICK n \in T : \A y \in T : n <= y
  BY <1>2, LeastExists
<1>4. String!Min(T) = n
  BY <1>2, <1>3, MinIsLeast
<1>5. n \in 0..k /\ (n < k => t[n + 1] # String!Blank)
  BY <1>1, <1>3
<1>6. ASSUME NEW i \in 1..n  PROVE t[i] = String!Blank
  <2>1. i - 1 \in 0..k /\ ~ (n <= i - 1) /\ (i - 1) + 1 = i /\ i - 1 # k
    BY <1>1, <1>5
  <2>2. i - 1 \notin T
    BY <1>3, <2>1
  <2> QED  BY <2>1, <2>2
<1>7. String!SpeStringLstrim(s) = IF n = 0 THEN s ELSE String!SpeStringConsume(s, n)
  BY <1>1, <1>4 DEF String!SpeStringLstrim
<1>8. Holds(String!SpeStringLstrim(s), SubSeq(t, n + 1, k))
  <2>1. CASE n = 0
    <3>1. SubSeq(t, n + 1, k) = t
      <4>1. n + 1 = 1 /\ SubSeq(t, 1, k) = t
        BY <1>1, <2>1, SubSeqFull DEF k
      <4> QED  BY <4>1
    <3> QED  BY <1>7, <2>1, <3>1
  <2>2. CASE n # 0
    <3>1. n \in Nat
      BY <1>5
    <3>2. Holds(String!SpeStringConsume(s, n), SubSeq(t, n + 1, k))
      BY <3>1, ConsumeHolds DEF k
    <3> QED  BY <1>7, <2>2, <3>2
  <2> QED  BY <2>1, <2>2
<1> QED  BY <1>5, <1>6, <1>8 DEF k

\* At the end too.
LEMMA RstrimHolds ==
  ASSUME NEW s, NEW t, Holds(s, t)
  PROVE  \E n \in 0..Len(t) :
           /\ Holds(String!SpeStringRstrim(s), SubSeq(t, 1, n))
           /\ \A i \in (n + 1)..Len(t) : t[i] = String!Blank
           /\ n > 0 => t[n] # String!Blank
<1> DEFINE k == Len(t)
           T == {i \in 0..k : i = 0 \/ t[i] # String!Blank}
           D == {k - i : i \in T}
<1>1. s.len = k /\ k \in Nat /\ t \in Seq(Chars) /\ String!data(s) = t /\ s.off \in Nat
  BY DataIsText, LenProperties, StringParts DEF Holds
<1> HIDE DEF k
<1>2. T \in SUBSET Nat /\ 0 \in T /\ T \subseteq 0..k
  BY <1>1
<1>3. D \in SUBSET Nat /\ k - 0 \in D
  <2>1. \A i \in T : k - i \in Nat
    BY <1>1
  <2> QED  BY <1>2, <2>1
<1>4. PICK d \in D : \A e \in D : d <= e
  BY <1>3, LeastExists
<1>5. PICK n \in T : d = k - n
  BY <1>4
<1>6. ASSUME NEW y \in T  PROVE n >= y
  <2>1. k - n <= k - y
    BY <1>4, <1>5
  <2> QED  BY <1>1, <2>1
<1>7. String!Max(T) = n
  BY <1>2, <1>6, MaxIsGreatest
<1>8. n \in 0..k /\ (n > 0 => t[n] # String!Blank)
  BY <1>1, <1>5
<1>9. ASSUME NEW i \in (n + 1)..k  PROVE t[i] = String!Blank
  <2>1. i \in 0..k /\ i # 0 /\ ~ (n >= i)
    BY <1>1, <1>8
  <2>2. i \notin T
    BY <1>6, <2>1
  <2> QED  BY <2>1, <2>2
<1>10. String!SpeStringRstrim(s) = String!Terminate([mem |-> s.mem, off |-> s.off, len |-> n])
  BY <1>1, <1>7 DEF String!SpeStringRstrim
<1>11. Holds(String!SpeStringRstrim(s), SubSeq(t, 1, n))
  <2>1. 0 \in Nat /\ n \in Nat /\ 0 + n <= Len(t) /\ s.off + 0 = s.off /\ 0 + 1 = 1 /\ 0 + n = n
    BY <1>1, <1>8 DEF k
  <2>2. Holds(String!Terminate([mem |-> s.mem, off |-> s.off + 0, len |-> n]), SubSeq(t, 0 + 1, 0 + n))
    BY <2>1, NarrowsTo
  <2> QED  BY <1>10, <2>1, <2>2
<1> QED  BY <1>8, <1>9, <1>11 DEF k

\* What stays is from the first byte to the last that is no blank.
LEMMA StrimHolds ==
  ASSUME NEW s, NEW t, Holds(s, t)
  PROVE  LET solid == {i \in DOMAIN t : t[i] # String!Blank}
         IN  Holds(String!SpeStringStrim(s),
                   IF solid = {} THEN <<>> ELSE SubSeq(t, String!Min(solid), String!Max(solid)))
<1> DEFINE solid == {i \in DOMAIN t : t[i] # String!Blank}
           k == Len(t)
           r == String!SpeStringLstrim(s)
           Goal == Holds(String!SpeStringStrim(s),
                     IF solid = {} THEN <<>> ELSE SubSeq(t, String!Min(solid), String!Max(solid)))
<1>1. t \in Seq(Chars) /\ k \in Nat /\ DOMAIN t = 1..k /\ \A i \in 1..k : t[i] \in Chars
  BY LenProperties, ElementOfSeq DEF Holds
<1>2. PICK a \in 0..k : /\ Holds(r, SubSeq(t, a + 1, k))
                        /\ \A i \in 1..a : t[i] = String!Blank
                        /\ a < k => t[a + 1] # String!Blank
  BY LstrimHolds
<1> DEFINE u == SubSeq(t, a + 1, k)
<1>3. PICK b \in 0..Len(u) : /\ Holds(String!SpeStringRstrim(r), SubSeq(u, 1, b))
                             /\ \A i \in (b + 1)..Len(u) : u[i] = String!Blank
                             /\ b > 0 => u[b] # String!Blank
  BY <1>2, RstrimHolds
<1> HIDE DEF k
<1>4. Len(u) = k - a /\ \A i \in 1..(k - a) : u[i] = t[a + i]
  <2>1. \A i \in (a + 1)..k : t[i] \in Chars
    BY <1>1
  <2>2. a + 1 \in Int /\ k \in Int
    BY <1>1
  <2>3. /\ Len(u) = IF a + 1 <= k THEN k - (a + 1) + 1 ELSE 0
        /\ \A i \in 1..(k - (a + 1) + 1) : u[i] = t[(a + 1) + i - 1]
    BY <2>1, <2>2, SubSeqProperties
  <2> HIDE DEF u
  <2>4. Len(u) = k - a
    BY <1>1, <2>3
  <2>5. ASSUME NEW i \in 1..(k - a)  PROVE u[i] = t[a + i]
    <3>1. i \in 1..(k - (a + 1) + 1) /\ (a + 1) + i - 1 = a + i
      BY <1>1
    <3> QED  BY <2>3, <3>1
  <2> QED  BY <2>4, <2>5
<1>5. Holds(String!SpeStringStrim(s), SubSeq(u, 1, b))
  BY <1>3 DEF String!SpeStringStrim
<1> HIDE DEF u
<1>6. solid = {i \in 1..k : t[i] # String!Blank}
  BY <1>1
<1> HIDE DEF solid, r
<1>7. ASSUME a = k  PROVE Goal
  <2>1. solid = {}
    BY <1>1, <1>2, <1>6, <1>7
  <2>2. b = 0
    BY <1>1, <1>3, <1>4, <1>7
  <2>3. SubSeq(u, 1, b) = <<>>
    <3>1. 1 \in Int /\ b \in Int /\ b < 1
      BY <2>2
    <3> QED  BY <3>1, SubSeqEmpty
  <2> QED  BY <1>5, <2>1, <2>3
<1>8. ASSUME a # k  PROVE Goal
  <2>1. a + 1 \in solid /\ \A i \in solid : a + 1 <= i
    BY <1>1, <1>2, <1>6, <1>8
  <2>2. b >= 1
    <3>1. SUFFICES ASSUME b = 0  PROVE FALSE
      BY <1>3, <1>4, <1>1
    <3>2. 1 \in (b + 1)..Len(u) /\ 1 \in 1..(k - a)
      BY <1>1, <1>4, <1>8, <3>1
    <3>3. u[1] = String!Blank /\ u[1] = t[a + 1]
      BY <1>3, <1>4, <3>2
    <3> QED  BY <1>1, <1>2, <1>8, <3>3
  <2>3. a + b \in solid
    <3>1. b \in 1..(k - a) /\ a + b \in 1..k
      BY <1>1, <1>3, <1>4, <2>2
    <3>2. u[b] # String!Blank /\ u[b] = t[a + b]
      BY <1>3, <1>4, <2>2, <3>1
    <3> QED  BY <1>6, <3>1, <3>2
  <2>4. ASSUME NEW i \in solid  PROVE a + b >= i
    <3>1. i \in 1..k /\ t[i] # String!Blank
      BY <1>6
    <3>2. SUFFICES ASSUME ~ (a + b >= i)  PROVE FALSE
      BY Zenon
    <3>3. i - a \in (b + 1)..Len(u) /\ i - a \in 1..(k - a) /\ a + (i - a) = i
      BY <1>1, <1>3, <1>4, <3>1, <3>2
    <3>4. u[i - a] = String!Blank /\ u[i - a] = t[i]
      BY <1>3, <1>4, <3>3
    <3> QED  BY <3>1, <3>4
  <2>5. solid \in SUBSET Nat
    BY <1>6
  <2>6. String!Min(solid) = a + 1
    BY <2>1, <2>5, MinIsLeast
  <2>7. String!Max(solid) = a + b
    BY <2>3, <2>4, <2>5, MaxIsGreatest
  <2>8. SubSeq(u, 1, b) = SubSeq(t, a + 1, a + b)
    <3>0. k = Len(t)
      BY DEF k
    <3>1. /\ a + 1 \in 1..k /\ k \in 1..k /\ 1 \in 1..(k - (a + 1) + 1)
          /\ b \in 1..(k - (a + 1) + 1)
          /\ (a + 1) + 1 - 1 = a + 1 /\ (a + 1) + b - 1 = a + b
      <4>1. a \in 0..(k - 1) /\ b \in 1..(k - a)
        BY <1>1, <1>3, <1>4, <1>8, <2>2
      <4> QED  BY <1>1, <4>1
    <3>2. SubSeq(SubSeq(t, a + 1, k), 1, b) = SubSeq(t, (a + 1) + 1 - 1, (a + 1) + b - 1)
      BY <1>1, <3>0, <3>1, SubSeqOfSubSeq
    <3> QED  BY <3>1, <3>2 DEF u
  <2>9. solid # {}
    BY <2>1
  <2> QED  BY <1>5, <2>6, <2>7, <2>8, <2>9
<1>9. Goal
  BY <1>7, <1>8, Zenon
<1> QED  BY <1>9 DEF solid, Goal

-----------------------------------------------------------------------------
(* Lists of strings, searching, comparing *)

\* A list has more slots than strings in use; every slot has a string or none.
Lists == {l \in [data : Seq(Strings), len : Nat] : l.len <= Len(l.data)}

\* The strings of a list hold these texts.
ListHolds(l, texts) ==
  /\ l \in Lists /\ texts \in Seq(Seq(Chars))
  /\ l.len = Len(texts) /\ \A i \in 1..Len(texts) : Holds(l.data[i], texts[i])

\* The empty list, however many slots it has.
LEMMA EmptyList ==
  /\ ListHolds([data |-> <<>>, len |-> 0], <<>>)
  /\ \A l \in Lists : ListHolds(String!spe_slist_clean(l), <<>>)
<1>1. /\ <<>> \in Seq(Strings) /\ <<>> \in Seq(Seq(Chars))
      /\ Len(<<>>) = 0
  BY EmptySeq
<1>2. ASSUME NEW d \in Seq(Strings)  PROVE ListHolds([data |-> d, len |-> 0], <<>>)
  <2>1. Len(d) \in Nat
    BY LenProperties
  <2>2. [data |-> d, len |-> 0] \in Lists
    BY <2>1 DEF Lists
  <2> QED  BY <1>1, <2>2 DEF ListHolds
<1>3. ASSUME NEW l \in Lists  PROVE ListHolds(String!spe_slist_clean(l), <<>>)
  <2>1. l.data \in Seq(Strings)
    BY DEF Lists
  <2> QED  BY <1>2, <2>1 DEF String!spe_slist_clean
<1> QED  BY <1>1, <1>2, <1>3

\* Room for one more, with the strings where they are.
LEMMA SlotFacts ==
  ASSUME NEW l \in Lists
  PROVE  LET r == String!spe_slist_ready(l, l.len + 1)
         IN  /\ r.data \in Seq(Strings) /\ r.len = l.len /\ l.len + 1 <= Len(r.data)
             /\ \A i \in 1..l.len : r.data[i] = l.data[i]
<1> DEFINE r == String!spe_slist_ready(l, l.len + 1)
           Goal == /\ r.data \in Seq(Strings) /\ r.len = l.len /\ l.len + 1 <= Len(r.data)
                   /\ \A i \in 1..l.len : r.data[i] = l.data[i]
           d == l.data
           n == l.len
<1>1. d \in Seq(Strings) /\ n \in Nat /\ n <= Len(d)
  BY DEF Lists
<1>2. Len(d) \in Nat /\ \A i \in 1..Len(d) : d[i] \in Strings
  BY <1>1, LenProperties, ElementOfSeq
<1>3. ASSUME n + 1 <= Len(d)  PROVE Goal
  <2>1. r = l
    BY <1>3 DEF String!spe_slist_ready
  <2> HIDE DEF r
  <2> QED  BY <1>1, <1>3, <2>1, Zenon DEF Goal
<1>4. ASSUME ~ (n + 1 <= Len(d))  PROVE Goal
  <2> DEFINE size == (n + 1) + Slack
             e == [i \in 1..size |-> IF i <= n THEN d[i] ELSE String!NoString]
  <2>1. Slack \in Nat
    BY StringAssumption DEF StringAssumption
  <2>2. size \in Nat /\ n + 1 <= size
    BY <1>1, <2>1
  <2>3. r = [data |-> e, len |-> n]
    BY <1>4 DEF String!spe_slist_ready
  <2> HIDE DEF size, r, d, n
  <2>4. \A i \in 1..size : e[i] \in Strings
    <3> TAKE i \in 1..size
    <3>1. i <= n => i \in 1..Len(d)
      BY <1>1, <1>2
    <3> QED  BY <1>2, <3>1, NewStrings
  <2>5. e \in [1..size -> Strings]
    BY <2>4
  <2>6. \A i \in 1..n : e[i] = d[i]
    BY <2>2, <1>1
  <2> HIDE DEF e
  <2>7. e \in Seq(Strings) /\ Len(e) = size
    BY <2>2, <2>5
  <2>8. r.data = e /\ r.len = n
    BY <2>3
  <2> QED  BY <2>2, <2>6, <2>7, <2>8 DEF Goal, n, d
<1>5. Goal
  BY <1>3, <1>4, Zenon
<1> QED  BY <1>5, Zenon DEF Goal, r

\* A string more.
LEMMA AppendbHolds ==
  ASSUME NEW l, NEW texts, ListHolds(l, texts), NEW bytes \in Seq(Chars)
  PROVE  ListHolds(String!spe_slist_appendb(l, bytes), Append(texts, bytes))
<1> DEFINE r == String!spe_slist_ready(l, l.len + 1)
           n == l.len
           slot == r.data[r.len + 1]
           s == IF slot = String!NoString THEN String!SpeStringCreate(FirstSize) ELSE slot
           x == String!SpeStringCopyb(s, bytes)
           e == [r.data EXCEPT ![r.len + 1] = x]
           a == String!spe_slist_appendb(l, bytes)
           p == Append(texts, bytes)
<1>1. /\ l \in Lists /\ texts \in Seq(Seq(Chars)) /\ n = Len(texts)
      /\ \A i \in 1..n : Holds(l.data[i], texts[i])
  BY DEF ListHolds
<1>2. n \in Nat
  BY <1>1, LenProperties
<1>3. /\ r.data \in Seq(Strings) /\ r.len = n /\ n + 1 <= Len(r.data)
      /\ \A i \in 1..n : r.data[i] = l.data[i]
  BY <1>1, SlotFacts
<1>4. Len(r.data) \in Nat /\ n + 1 \in 1..Len(r.data)
  <2>1. Len(r.data) \in Nat
    BY <1>3, LenProperties
  <2> QED  BY <1>2, <1>3, <2>1
<1>5. s \in Strings
  <2>1. slot \in Strings
    BY <1>3, <1>4, ElementOfSeq
  <2>2. String!SpeStringCreate(FirstSize) \in Strings
    BY NewStrings DEF Holds
  <2> QED  BY <2>1, <2>2
<1>6. Holds(x, bytes)
  BY <1>5, CopybHolds
<1>7. a = [data |-> e, len |-> n + 1]
  BY <1>3 DEF String!spe_slist_appendb
<1> HIDE DEF s
<1>8. x \in Strings
  BY <1>6 DEF Holds
<1> HIDE DEF r, x, slot
<1>9. /\ e \in Seq(Strings) /\ Len(e) = Len(r.data)
      /\ \A j \in 1..Len(r.data) : e[j] = IF j = n + 1 THEN x ELSE r.data[j]
  BY <1>3, <1>4, <1>8, ExceptSeq
<1>10. /\ p \in Seq(Seq(Chars)) /\ Len(p) = Len(texts) + 1
       /\ \A i \in 1..Len(texts) : p[i] = texts[i]
       /\ p[Len(texts) + 1] = bytes
  BY <1>1, AppendProperties
<1> HIDE DEF e, p, a, n
<1>11. a \in Lists
  <2>1. n + 1 \in Nat /\ n + 1 <= Len(e)
    BY <1>2, <1>3, <1>9
  <2> QED  BY <1>7, <1>9, <2>1 DEF Lists
<1>12. ASSUME NEW i \in 1..(n + 1)  PROVE Holds(e[i], p[i])
  <2>1. CASE i = n + 1
    <3>1. e[i] = x /\ p[i] = bytes
      BY <1>1, <1>4, <1>9, <1>10, <2>1
    <3> QED  BY <1>6, <3>1
  <2>2. CASE i # n + 1
    <3>1. i \in 1..n /\ i \in 1..Len(r.data)
      BY <1>2, <1>4, <2>2
    <3>2. e[i] = l.data[i] /\ p[i] = texts[i]
      BY <1>1, <1>3, <1>9, <1>10, <2>2, <3>1
    <3> QED  BY <1>1, <3>1, <3>2
  <2> QED  BY <2>1, <2>2
<1>13. a.data = e /\ a.len = n + 1 /\ Len(p) = n + 1
  BY <1>1, <1>7, <1>10
<1>14. ListHolds(a, p)
  BY <1>10, <1>11, <1>12, <1>13 DEF ListHolds
<1> QED  BY <1>14 DEF a, p

\* A part of a window is that part of the text.
LEMMA SamePart ==
  ASSUME NEW s, NEW t, Holds(s, t), NEW i \in Nat, NEW k \in Nat, i + k <= Len(t)
  PROVE  SubSeq(s.mem, (s.off + i) + 1, (s.off + i) + k) = SubSeq(t, i + 1, i + k)
<1> DEFINE n == Len(t)
           o == s.off
           mem == s.mem
           a == SubSeq(mem, (o + i) + 1, (o + i) + k)
           b == SubSeq(t, i + 1, i + k)
<1>1. /\ s \in Strings /\ t \in Seq(Chars) /\ o + n + 1 <= Len(mem)
      /\ \A j \in 1..n : mem[o + j] = t[j]
  BY DEF Holds, Window
<1>2. /\ o \in Nat /\ n \in Nat /\ i + k <= n /\ \A j \in 1..n : t[j] \in Chars
  BY <1>1, StringParts, LenProperties, ElementOfSeq
<1> HIDE DEF n, o, mem
<1>3. \A j \in (i + 1)..(i + k) : t[j] \in Chars
  BY <1>2
<1>4. \A j \in ((o + i) + 1)..((o + i) + k) : mem[j] \in Chars
  <2> TAKE j \in ((o + i) + 1)..((o + i) + k)
  <2>1. j - o \in 1..n /\ o + (j - o) = j
    BY <1>2
  <2> QED  BY <1>1, <1>2, <2>1
<1>5. /\ a \in Seq(Chars) /\ Len(a) = (IF (o + i) + 1 <= (o + i) + k THEN ((o + i) + k) - ((o + i) + 1) + 1 ELSE 0)
      /\ \A j \in 1..(((o + i) + k) - ((o + i) + 1) + 1) : a[j] = mem[((o + i) + 1) + j - 1]
  <2>1. (o + i) + 1 \in Int /\ (o + i) + k \in Int
    BY <1>2
  <2> QED  BY <1>4, <2>1, SubSeqProperties
<1>6. /\ b \in Seq(Chars) /\ Len(b) = (IF i + 1 <= i + k THEN (i + k) - (i + 1) + 1 ELSE 0)
      /\ \A j \in 1..((i + k) - (i + 1) + 1) : b[j] = t[(i + 1) + j - 1]
  <2>1. i + 1 \in Int /\ i + k \in Int
    BY <1>2
  <2> QED  BY <1>3, <2>1, SubSeqProperties
<1> HIDE DEF a, b
<1>7. Len(a) = k /\ Len(b) = k
  BY <1>2, <1>5, <1>6
<1>8. ASSUME NEW j \in 1..k  PROVE a[j] = b[j]
  <2>1. /\ j \in 1..(((o + i) + k) - ((o + i) + 1) + 1) /\ ((o + i) + 1) + j - 1 = o + (i + j)
        /\ j \in 1..((i + k) - (i + 1) + 1) /\ (i + 1) + j - 1 = i + j /\ i + j \in 1..n
    BY <1>2
  <2>2. a[j] = mem[o + (i + j)]
    BY <1>5, <2>1
  <2>3. b[j] = t[i + j]
    BY <1>6, <2>1
  <2> QED  BY <1>1, <2>1, <2>2, <2>3
<1>9. a = b
  BY <1>5, <1>6, <1>7, <1>8, SeqEqual
<1> QED  BY <1>9 DEF a, b, mem, o

\* A search in a text without NUL finds what is in the text, and only that.
LEMMA strstrFinds ==
  ASSUME NEW s, NEW t, Holds(s, t), ~ String!Contains(t, String!NUL),
         NEW i \in 0..Len(t), NEW key \in Seq(Chars)
  PROVE  String!strstr(s, i, key) =
           IF String!Occurs(t, key, i) = {} THEN -1 ELSE String!Min(String!Occurs(t, key, i))
<1> DEFINE n == Len(t)
           k == Len(key)
           o == s.off
           mem == s.mem
           from == o + i
           nuls == {j \in (from + 1)..Len(mem) : mem[j] = String!NUL}
           end == String!Min(nuls)
           at == {j \in from..(end - 1 - k) : SubSeq(mem, j + 1, j + k) = key}
           occ == String!Occurs(t, key, i)
           Goal == String!strstr(s, i, key) = IF occ = {} THEN -1 ELSE String!Min(occ)
<1>1. /\ s \in Strings /\ t \in Seq(Chars) /\ o + n + 1 <= Len(mem) /\ mem[o + n + 1] = String!NUL
      /\ \A j \in 1..n : mem[o + j] = t[j]
  BY DEF Holds, Window
<1>2. o \in Nat /\ n \in Nat /\ k \in Nat /\ Len(mem) \in Nat
  BY <1>1, StringParts, LenProperties
<1>3. \A j \in 1..n : t[j] # String!NUL
  BY DEF String!Contains
<1>4. occ = {j \in i..(n - k) : SubSeq(t, j + 1, j + k) = key}
  BY DEF String!Occurs
<1>5. String!strstr(s, i, key) = IF at = {} THEN -1 ELSE String!Min(at) - o
  BY DEF String!strstr
<1>6. ASSUME NEW j \in i..(n - k)
      PROVE  SubSeq(mem, (o + j) + 1, (o + j) + k) = SubSeq(t, j + 1, j + k)
  <2> HIDE DEF k, mem, o
  <2>1. j \in Nat /\ k \in Nat /\ j + k <= Len(t)
    BY <1>2
  <2>2. SubSeq(s.mem, (s.off + j) + 1, (s.off + j) + k) = SubSeq(t, j + 1, j + k)
    BY <2>1, SamePart
  <2> QED  BY <2>2, Zenon DEF o, mem
<1> HIDE DEF n, k, o, mem, occ
<1>7. i \in 0..n
  BY DEF n
<1>8. end = o + n + 1
  <2>1. o + n + 1 \in nuls
    BY <1>1, <1>2, <1>7
  <2>2. nuls \in SUBSET Nat
    BY <1>2, <1>7
  <2>3. ASSUME NEW j \in nuls  PROVE o + n + 1 <= j
    <3>1. SUFFICES ASSUME j <= o + n  PROVE FALSE
      BY <1>2, <1>7
    <3>2. j - o \in 1..n /\ o + (j - o) = j
      BY <1>2, <1>7, <3>1
    <3>3. mem[j] = String!NUL
      OBVIOUS
    <3> QED  BY <1>1, <1>3, <3>2, <3>3
  <2> HIDE DEF nuls
  <2> QED  BY <2>1, <2>2, <2>3, MinIsLeast
<1> HIDE DEF end
<1>9. at = {j \in (o + i)..(o + n - k) : SubSeq(mem, j + 1, j + k) = key}
  <2>1. end - 1 - k = o + n - k
    BY <1>2, <1>8
  <2> QED  BY <2>1
<1> HIDE DEF at
<1>10. ASSUME NEW j \in at  PROVE j - o \in occ
  <2>1. j \in (o + i)..(o + n - k) /\ SubSeq(mem, j + 1, j + k) = key
    BY <1>9
  <2>2. j - o \in i..(n - k) /\ o + (j - o) = j
    BY <1>2, <1>7, <2>1
  <2>3. SubSeq(mem, (o + (j - o)) + 1, (o + (j - o)) + k) = SubSeq(t, (j - o) + 1, (j - o) + k)
    BY <1>6, <2>2
  <2>4. SubSeq(t, (j - o) + 1, (j - o) + k) = key
    BY <2>1, <2>2, <2>3
  <2> QED  BY <1>4, <2>2, <2>4
<1>11. ASSUME NEW j \in occ  PROVE o + j \in at
  <2>1. j \in i..(n - k) /\ SubSeq(t, j + 1, j + k) = key
    BY <1>4
  <2>2. o + j \in (o + i)..(o + n - k)
    BY <1>2, <1>7, <2>1
  <2>3. SubSeq(mem, (o + j) + 1, (o + j) + k) = key
    BY <1>6, <2>1
  <2> QED  BY <1>9, <2>2, <2>3
<1>12. ASSUME occ = {}  PROVE Goal
  <2>1. at = {}
    BY <1>10, <1>12
  <2> QED  BY <1>5, <1>12, <2>1
<1>13. ASSUME occ # {}  PROVE Goal
  <2>1. occ \in SUBSET Nat
    BY <1>2, <1>4, <1>7
  <2>2. PICK x \in occ : \A y \in occ : x <= y
    BY <1>13, <2>1, LeastExists
  <2>3. String!Min(occ) = x
    BY <2>1, <2>2, MinIsLeast
  <2>4. at \in SUBSET Nat
    BY <1>2, <1>7, <1>9
  <2>5. o + x \in at
    BY <1>11
  <2>6. ASSUME NEW y \in at  PROVE o + x <= y
    <3>1. x <= y - o /\ y \in Nat /\ x \in Nat
      BY <1>10, <2>1, <2>2, <2>4
    <3> QED  BY <1>2, <3>1
  <2>7. String!Min(at) = o + x
    BY <2>4, <2>5, <2>6, MinIsLeast
  <2>8. at # {} /\ (o + x) - o = x
    BY <1>2, <2>1, <2>5
  <2> QED  BY <1>5, <1>13, <2>3, <2>7, <2>8
<1>14. Goal
  BY <1>12, <1>13, Zenon
<1> QED  BY <1>14 DEF occ

\* Two strings are equal for SpeStringCmp if their texts are.
LEMMA CmpIsEquality ==
  ASSUME NEW s, NEW t, Holds(s, t), NEW r, NEW u, Holds(r, u)
  PROVE  String!SpeStringCmp(s, r) = 0 <=> u = t
<1> DEFINE both == {s.len, r.len}
           n == String!Min(both)
           diff == {i \in 1..n : t[i] # u[i]}
           cmp == String!SpeStringCmp(s, r)
<1>1. /\ s.len = Len(t) /\ r.len = Len(u) /\ t \in Seq(Chars) /\ u \in Seq(Chars)
      /\ Len(t) \in Nat /\ Len(u) \in Nat /\ String!data(s) = t /\ String!data(r) = u
  BY DataIsText, LenProperties DEF Holds
<1>2. n \in Nat /\ n <= Len(t) /\ n <= Len(u) /\ (Len(t) = Len(u) => n = Len(t))
  <2>1. both \in SUBSET Nat /\ both # {}
    BY <1>1
  <2>2. PICK x \in both : \A y \in both : x <= y
    BY <2>1, LeastExists
  <2>3. n = x
    BY <2>1, <2>2, MinIsLeast
  <2> QED  BY <1>1, <2>1, <2>2, <2>3
<1>3. cmp = IF diff # {}
            THEN IF String!Ord(t[String!Min(diff)]) < String!Ord(u[String!Min(diff)]) THEN -1 ELSE 1
            ELSE IF s.len = r.len THEN 0 ELSE IF s.len > r.len THEN 1 ELSE -1
  BY <1>1 DEF String!SpeStringCmp
<1> HIDE DEF n
<1>4. diff # {} => u # t
  OBVIOUS
<1>5. diff = {} /\ Len(t) = Len(u) => u = t
  <2>1. SUFFICES ASSUME diff = {}, Len(t) = Len(u)  PROVE u = t
    OBVIOUS
  <2>2. \A i \in 1..Len(u) : u[i] = t[i]
    BY <1>2, <2>1
  <2> QED  BY <1>1, <2>1, <2>2, SeqEqual
<1> HIDE DEF diff, cmp
<1>6. diff # {} => cmp # 0
  BY <1>3
<1>7. diff = {} => (cmp = 0 <=> Len(t) = Len(u))
  BY <1>1, <1>3
<1>8. u = t => Len(t) = Len(u)
  OBVIOUS
<1>9. cmp = 0 <=> u = t
  BY <1>4, <1>5, <1>6, <1>7, <1>8
<1> QED  BY <1>9 DEF cmp

-----------------------------------------------------------------------------
(* Splitting *)

\* A function on 0..n that goes on from a first value step by step.
Walk(g, n, S, first, step) ==
  g \in [0..n -> S] /\ g[0] = first /\ \A k \in 1..n : g[k] = step[g[k - 1]]

LEMMA StepsExist ==
  ASSUME NEW n \in Nat, NEW S, NEW first \in S, NEW step \in [S -> S]
  PROVE  \E g : Walk(g, n, S, first, step)
<1> DEFINE Fits(g, k) == /\ g \in [0..k -> S] /\ g[0] = first
                         /\ \A j \in 1..k : g[j] = step[g[j - 1]]
           bad == {k \in Nat : ~ \E g : Fits(g, k)}
<1>1. ASSUME bad # {}  PROVE FALSE
  <2>1. PICK k \in bad : \A j \in bad : k <= j
    BY <1>1, LeastExists
  <2>2. k \in Nat /\ ~ \E g : Fits(g, k)
    BY <2>1
  <2>3. CASE k = 0
    <3> DEFINE g == [j \in 0..0 |-> first]
    <3>1. Fits(g, 0)
      OBVIOUS
    <3> HIDE DEF Fits, g
    <3> QED  BY <2>2, <2>3, <3>1
  <2>4. CASE k # 0
    <3>0. k - 1 \in Nat /\ ~ (k <= k - 1)
      BY <2>2, <2>4
    <3>1. k - 1 \in Nat /\ k - 1 \notin bad
      BY <2>1, <3>0
    <3>2. PICK g : Fits(g, k - 1)
      BY <3>1
    <3> DEFINE h == [j \in 0..k |-> IF j = k THEN step[g[k - 1]] ELSE g[j]]
    <3>3. \A j \in 0..(k - 1) : g[j] \in S /\ h[j] = g[j]
      BY <2>2, <3>1, <3>2
    <3>4. k - 1 \in 0..(k - 1) /\ h[k] = step[g[k - 1]]
      BY <2>2, <3>1
    <3>5. \A j \in 0..k : h[j] \in S
      <4>1. h[k] \in S
        BY <3>3, <3>4
      <4>2. \A j \in 0..k : j = k \/ j \in 0..(k - 1)
        BY <2>2
      <4> HIDE DEF h
      <4> QED  BY <3>3, <4>1, <4>2
    <3>6. h \in [0..k -> S]
      BY <3>5
    <3>7. h[0] = first
      <4>1. 0 \in 0..(k - 1)
        BY <3>1
      <4> QED  BY <3>2, <3>3, <4>1
    <3>8. ASSUME NEW j \in 1..k  PROVE h[j] = step[h[j - 1]]
      <4>1. j - 1 \in 0..(k - 1)
        BY <2>2
      <4>2. h[j - 1] = g[j - 1]
        BY <3>3, <4>1
      <4>3. CASE j = k
        BY <3>4, <4>2, <4>3
      <4>4. CASE j # k
        <5>1. j \in 1..(k - 1) /\ j \in 0..(k - 1)
          BY <2>2, <4>4
        <5>2. g[j] = step[g[j - 1]] /\ h[j] = g[j]
          BY <3>2, <3>3, <5>1
        <5> QED  BY <4>2, <5>2
      <4> QED  BY <4>3, <4>4
    <3>9. Fits(h, k)
      BY <3>6, <3>7, <3>8
    <3> HIDE DEF Fits, h
    <3> QED  BY <2>2, <3>9
  <2> QED  BY <2>3, <2>4
<1>2. \E g : Fits(g, n)
  BY <1>1
<1> QED  BY <1>2, Zenon DEF Walk

\* What Occurs finds lies in the text, and there is something behind the place.
LEMMA OccursFacts ==
  ASSUME NEW t \in Seq(Chars), NEW key \in Seq(Chars), key # <<>>, NEW i \in 0..Len(t)
  PROVE  /\ String!Occurs(t, key, Len(t)) = {}
         /\ String!Occurs(t, key, i) # {} =>
              LET at == String!Min(String!Occurs(t, key, i))
              IN  at \in i..Len(t) /\ at + Len(key) \in (i + 1)..Len(t)
<1> DEFINE n == Len(t)
           k == Len(key)
           occ == String!Occurs(t, key, i)
           first == String!Min(occ)
<1>1. n \in Nat /\ k \in Nat /\ k # 0
  BY LenProperties, EmptySeq
<1>2. occ = {j \in i..(n - k) : SubSeq(t, j + 1, j + k) = key}
  BY DEF String!Occurs
<1>3. String!Occurs(t, key, n) = {j \in n..(n - k) : SubSeq(t, j + 1, j + k) = key}
  BY DEF String!Occurs
<1> HIDE DEF n, k, occ
<1>4. i \in 0..n
  BY DEF n
<1>5. String!Occurs(t, key, n) = {}
  <2>1. \A j \in n..(n - k) : FALSE
    BY <1>1
  <2> QED  BY <1>3, <2>1
<1>6. ASSUME occ # {}  PROVE first \in i..n /\ first + k \in (i + 1)..n
  <2>1. occ \in SUBSET Nat
    BY <1>1, <1>2, <1>4
  <2>2. PICK x \in occ : \A y \in occ : x <= y
    BY <1>6, <2>1, LeastExists
  <2>3. first = x
    BY <2>1, <2>2, MinIsLeast
  <2>4. first \in i..(n - k)
    BY <1>2, <2>3
  <2> QED  BY <1>1, <1>4, <2>4
<1> QED  BY <1>5, <1>6 DEF n, k, occ

\* A piece is no text or one.
LEMMA PieceFacts ==
  ASSUME NEW t \in Seq(Chars), NEW i \in 0..Len(t), NEW j \in i..Len(t)
  PROVE  /\ SubSeq(t, i + 1, j) \in Seq(Chars)
         /\ String!Piece(t, i, j) \in Seq(Seq(Chars))
         /\ i = j => String!Piece(t, i, j) = <<>>
         /\ i # j => String!Piece(t, i, j) = <<SubSeq(t, i + 1, j)>>
<1>1. Len(t) \in Nat /\ \A x \in 1..Len(t) : t[x] \in Chars
  BY LenProperties, ElementOfSeq
<1>2. SubSeq(t, i + 1, j) \in Seq(Chars)
  <2>1. \A x \in (i + 1)..j : t[x] \in Chars
    BY <1>1
  <2>2. i + 1 \in Int /\ j \in Int
    BY <1>1
  <2> QED  BY <2>1, <2>2, SubSeqProperties
<1>3. /\ i = j => String!Piece(t, i, j) = <<>>
      /\ i # j => String!Piece(t, i, j) = <<SubSeq(t, i + 1, j)>>
  BY DEF String!Piece
<1>4. <<>> \in Seq(Seq(Chars)) /\ \A x \in Seq(Chars) : <<x>> \in Seq(Seq(Chars))
  OBVIOUS
<1> QED  BY <1>2, <1>3, <1>4

\* The pieces from one place on, if those from the later places are f.
From(t, key, i, f) ==
  LET at == String!Occurs(t, key, i)
  IN  IF at = {} THEN String!Piece(t, i, Len(t))
      ELSE String!Piece(t, i, String!Min(at)) \o f[String!Min(at) + Len(key)]

\* The recursion of Pieces defines a function, as it always goes to a later
\* place.
LEMMA PiecesFacts ==
  ASSUME NEW t \in Seq(Chars), NEW key \in Seq(Chars), key # <<>>
  PROVE  LET p == String!Pieces(t, key)
         IN  \A i \in 0..Len(t) : p[i] \in Seq(Seq(Chars)) /\ p[i] = From(t, key, i, p)
<1> DEFINE n == Len(t)
           S == Seq(Seq(Chars))
           occ(i) == String!Occurs(t, key, i)
           next(i) == String!Min(occ(i)) + Len(key)
           Fits(f, a) == /\ f \in [a..n -> S]
                         /\ \A i \in a..n : f[i] = From(t, key, i, f)
<1>1. n \in Nat
  BY LenProperties
<1>2. \A i \in 0..n : occ(i) # {} => String!Min(occ(i)) \in i..n /\ next(i) \in (i + 1)..n
  BY OccursFacts
<1>3. \A i \in 0..n : String!Piece(t, i, n) \in S
                      /\ (occ(i) # {} => String!Piece(t, i, String!Min(occ(i))) \in S)
  <2> TAKE i \in 0..n
  <2>1. n \in i..Len(t) /\ i \in 0..Len(t)
    BY <1>1
  <2>2. String!Piece(t, i, n) \in S
    BY <2>1, PieceFacts
  <2>3. ASSUME occ(i) # {}  PROVE String!Piece(t, i, String!Min(occ(i))) \in S
    <3>1. String!Min(occ(i)) \in i..Len(t)
      BY <1>2, <2>3
    <3> QED  BY <2>1, <3>1, PieceFacts
  <2> QED  BY <2>2, <2>3
<1>4. \A f : \A i \in 0..n :
        /\ occ(i) = {} => From(t, key, i, f) = String!Piece(t, i, n)
        /\ occ(i) # {} => From(t, key, i, f) = String!Piece(t, i, String!Min(occ(i))) \o f[next(i)]
  BY DEF From
<1>5. \A x, y \in S : x \o y \in S
  BY ConcatProperties
<1> DEFINE bad == {d \in Nat : d <= n /\ ~ \E f : Fits(f, n - d)}
<1> HIDE DEF n, S, occ, next
<1>6. ASSUME bad # {}  PROVE FALSE
  <2>1. bad \in SUBSET Nat
    OBVIOUS
  <2>2. PICK d \in bad : \A e \in bad : d <= e
    BY <1>6, <2>1, LeastExists
  <2> DEFINE a == n - d
  <2>3. d \in Nat /\ d <= n /\ ~ \E f : Fits(f, a)
    BY <2>2
  <2>4. a \in 0..n
    BY <1>1, <2>3
  <2>5. \E f : \A i \in (a + 1)..n : f[i] \in S /\ f[i] = From(t, key, i, f)
    <3>1. CASE d = 0
      <4>1. \A i \in (a + 1)..n : FALSE
        BY <1>1, <3>1
      <4> QED  BY <4>1
    <3>2. CASE d # 0
      <4>1. d - 1 \in Nat /\ d - 1 <= n /\ ~ (d <= d - 1) /\ n - (d - 1) = a + 1
        BY <1>1, <2>3, <3>2
      <4>2. d - 1 \notin bad
        BY <2>2, <4>1
      <4>3. PICK f : Fits(f, a + 1)
        BY <4>1, <4>2
      <4>4. \A i \in (a + 1)..n : f[i] \in S /\ f[i] = From(t, key, i, f)
        BY <4>3
      <4> QED  BY <4>4
    <3> QED  BY <3>1, <3>2
  <2>6. PICK f : \A i \in (a + 1)..n : f[i] \in S /\ f[i] = From(t, key, i, f)
    BY <2>5
  <2> DEFINE g == [i \in a..n |-> IF i = a THEN From(t, key, a, f) ELSE f[i]]
  <2> HIDE DEF a
  <2>7. \A i \in (a + 1)..n : i \in 0..n /\ i \in a..n /\ i # a
    BY <1>1, <2>4
  <2>8. \A i \in (a + 1)..n : g[i] = f[i]
    BY <2>7
  <2>9. g[a] = From(t, key, a, f) /\ a \in a..n
    BY <1>1, <2>4
  <2>10. \A i \in a..n : i \in 0..n /\ (i = a \/ i \in (a + 1)..n)
    BY <1>1, <2>4
  <2>11. \A i \in a..n : From(t, key, i, g) = From(t, key, i, f)
    <3> TAKE i \in a..n
    <3>1. CASE occ(i) = {}
      BY <1>4, <2>10, <3>1
    <3>2. CASE occ(i) # {}
      <4>1. next(i) \in (i + 1)..n
        BY <1>2, <2>10, <3>2
      <4>2. next(i) \in (a + 1)..n
        BY <1>1, <2>4, <2>10, <4>1
      <4>3. g[next(i)] = f[next(i)]
        BY <2>8, <4>2
      <4> HIDE DEF g
      <4> QED  BY <1>4, <2>10, <3>2, <4>3
    <3> QED  BY <3>1, <3>2
  <2>12. From(t, key, a, f) \in S
    <3>1. CASE occ(a) = {}
      BY <1>3, <1>4, <2>4, <3>1
    <3>2. CASE occ(a) # {}
      <4>1. f[next(a)] \in S
        BY <1>2, <2>4, <2>6, <3>2
      <4>2. String!Piece(t, a, String!Min(occ(a))) \in S
        BY <1>3, <2>4, <3>2
      <4>3. From(t, key, a, f) = String!Piece(t, a, String!Min(occ(a))) \o f[next(a)]
        BY <1>4, <2>4, <3>2
      <4> QED  BY <1>5, <4>1, <4>2, <4>3
    <3> QED  BY <3>1, <3>2
  <2>13. \A i \in a..n : g[i] \in S
    <3> HIDE DEF g
    <3> QED  BY <2>6, <2>8, <2>9, <2>10, <2>12
  <2>14. g \in [a..n -> S]
    BY <2>13
  <2>15. \A i \in a..n : g[i] = From(t, key, i, g)
    <3> HIDE DEF g
    <3> TAKE i \in a..n
    <3>1. g[i] = From(t, key, i, f)
      BY <2>6, <2>8, <2>9, <2>10
    <3> QED  BY <2>11, <3>1
  <2>16. Fits(g, a)
    BY <2>14, <2>15
  <2> HIDE DEF Fits, g
  <2> QED  BY <2>3, <2>16 DEF a
<1>7. \E f : Fits(f, 0)
  <2>1. n \in Nat /\ n <= n /\ n - n = 0
    BY <1>1
  <2>2. n \notin bad
    BY <1>6
  <2> QED  BY <2>1, <2>2
<1> DEFINE p == String!Pieces(t, key)
<1>8. p = CHOOSE f : f = [i \in 0..n |-> From(t, key, i, f)]
  BY Zenon DEF String!Pieces, From, n
<1>9. \E f : f = [i \in 0..n |-> From(t, key, i, f)]
  <2>1. PICK f : Fits(f, 0)
    BY <1>7
  <2>2. f \in [0..n -> S] /\ \A i \in 0..n : f[i] = From(t, key, i, f)
    BY <2>1
  <2>3. f = [i \in 0..n |-> From(t, key, i, f)]
    BY <2>2
  <2> QED  BY <2>3
<1>10. p = [i \in 0..n |-> From(t, key, i, p)]
  BY <1>8, <1>9, Zenon
<1> HIDE DEF p
<1>11. \A i \in 0..n : p[i] = From(t, key, i, p)
  BY <1>10
<1> DEFINE worse == {d \in Nat : d <= n /\ p[n - d] \notin S}
<1>12. ASSUME worse # {}  PROVE FALSE
  <2>1. PICK d \in worse : \A e \in worse : d <= e
    BY <1>12, LeastExists
  <2> DEFINE a == n - d
  <2>2. d \in Nat /\ d <= n /\ p[a] \notin S
    BY <2>1
  <2>3. a \in 0..n /\ n - d = a
    BY <1>1, <2>2
  <2> HIDE DEF a
  <2>4. p[a] = From(t, key, a, p)
    BY <1>11, <2>3
  <2>5. CASE occ(a) = {}
    BY <1>3, <1>4, <2>2, <2>3, <2>4, <2>5
  <2>6. CASE occ(a) # {}
    <3>1. next(a) \in (a + 1)..n
      BY <1>2, <2>3, <2>6
    <3>2. n - next(a) \in Nat /\ n - next(a) <= n /\ ~ (d <= n - next(a)) /\ n - (n - next(a)) = next(a)
      BY <1>1, <2>2, <2>3, <3>1
    <3>3. n - next(a) \notin worse
      BY <2>1, <3>2
    <3>4. p[next(a)] \in S
      BY <3>2, <3>3
    <3>5. From(t, key, a, p) \in S
      BY <1>3, <1>4, <1>5, <2>3, <2>6, <3>4
    <3> QED  BY <2>2, <2>4, <3>5
  <2> QED  BY <2>5, <2>6
<1>13. \A i \in 0..n : p[i] \in S
  <2> TAKE i \in 0..n
  <2>1. n - i \in Nat /\ n - i <= n /\ n - (n - i) = i
    BY <1>1
  <2>2. n - i \notin worse
    BY <1>12
  <2> QED  BY <2>1, <2>2
<1> QED  BY <1>11, <1>13 DEF p, n, S

\* Where the loop of SpeStringSplit can be: the list has the pieces in front of
\* the place.
Turns(t, key) ==
  {at \in [start : 0..Len(t), list : Lists] :
     \E front \in Seq(Seq(Chars)) :
       /\ ListHolds(at.list, front)
       /\ front \o String!Pieces(t, key)[at.start] = String!Pieces(t, key)[0]}

\* A turn ends the loop or gets further, and leaves out nothing.
LEMMA TurnKeeps ==
  ASSUME NEW s, NEW t, Holds(s, t), ~ String!Contains(t, String!NUL),
         NEW key \in Seq(Chars), key # <<>>, NEW at \in Turns(t, key)
  PROVE  LET new == String!SplitTurn(s, key, at)
         IN  /\ new \in Turns(t, key)
             /\ \/ new.start > at.start
                \/ new.start = at.start /\ String!Occurs(t, key, new.start) = {}
<1> DEFINE n == Len(t)
           p == String!Pieces(t, key)
           S == Seq(Seq(Chars))
           new == String!SplitTurn(s, key, at)
           occ == String!Occurs(t, key, at.start)
           place == String!Min(occ)
           Goal == /\ new \in Turns(t, key)
                   /\ \/ new.start > at.start
                      \/ new.start = at.start /\ String!Occurs(t, key, new.start) = {}
           point == IF at.start < s.len THEN String!strstr(s, at.start, key) ELSE -1
           i == at.start
<1>1. t \in Seq(Chars) /\ n \in Nat /\ s.len = n /\ String!data(s) = t
  BY DataIsText, LenProperties DEF Holds
<1>2. i \in 0..n /\ at.list \in Lists
  BY DEF Turns
<1>3. PICK front \in S : ListHolds(at.list, front) /\ front \o p[i] = p[0]
  BY DEF Turns
<1>4. /\ String!Occurs(t, key, n) = {}
      /\ occ # {} => place \in i..n /\ place + Len(key) \in (i + 1)..n
  BY <1>1, <1>2, OccursFacts
<1>5. point = IF occ = {} THEN -1 ELSE place
  <2>1. CASE i < n
    <3>1. String!strstr(s, i, key) = IF occ = {} THEN -1 ELSE place
      BY <1>2, strstrFinds
    <3> QED  BY <1>1, <2>1, <3>1
  <2>2. CASE ~ (i < n)
    <3>1. i = n /\ point = -1
      BY <1>1, <1>2, <2>2
    <3> QED  BY <1>4, <3>1
  <2> QED  BY <2>1, <2>2
<1>6. new = IF point = -1 THEN at
            ELSE [start |-> point + Len(key),
                  list  |-> IF point = i THEN at.list
                            ELSE String!spe_slist_appendb(at.list, SubSeq(t, i + 1, point))]
  BY <1>1 DEF String!SplitTurn
<1>7. ASSUME occ = {}  PROVE Goal
  <2>1. new = at
    BY <1>5, <1>6, <1>7
  <2> HIDE DEF new
  <2> QED  BY <1>7, <2>1
<1>8. ASSUME occ # {}  PROVE Goal
  <2> HIDE DEF point, occ, place, new
  <2>1. place \in i..n /\ place + Len(key) \in (i + 1)..n /\ point = place /\ point # -1
    BY <1>2, <1>4, <1>5, <1>8
  <2> DEFINE list == IF place = i THEN at.list
                     ELSE String!spe_slist_appendb(at.list, SubSeq(t, i + 1, place))
             piece == String!Piece(t, i, place)
             next == place + Len(key)
  <2>2. new = [start |-> next, list |-> list]
    BY <1>6, <2>1
  <2>3. next \in 0..n /\ next > i /\ next \in (i + 1)..n
    BY <1>1, <1>2, <2>1
  <2>4. /\ SubSeq(t, i + 1, place) \in Seq(Chars) /\ piece \in S
        /\ i = place => piece = <<>>
        /\ i # place => piece = <<SubSeq(t, i + 1, place)>>
    BY <1>1, <1>2, <2>1, PieceFacts
  <2>5. ListHolds(list, front \o piece)
    <3>1. CASE place = i
      <4>1. front \o piece = front
        BY <1>3, <2>4, <3>1, ConcatEmptySeq
      <4> QED  BY <1>3, <3>1, <4>1
    <3>2. CASE place # i
      <4>1. Append(front, SubSeq(t, i + 1, place)) = front \o piece
        BY <1>3, <2>4, <3>2, AppendIsConcat
      <4>2. ListHolds(String!spe_slist_appendb(at.list, SubSeq(t, i + 1, place)),
                      Append(front, SubSeq(t, i + 1, place)))
        BY <1>3, <2>4, AppendbHolds
      <4> QED  BY <3>2, <4>1, <4>2
    <3> QED  BY <3>1, <3>2
  <2>6. front \o piece \in S /\ (front \o piece) \o p[next] = p[0]
    <3>1. p[i] = piece \o p[next]
      <4>1. p[i] = From(t, key, i, p)
        BY <1>1, <1>2, PiecesFacts
      <4> QED  BY <1>8, <4>1 DEF From, occ, place
    <3>2. p[next] \in S
      BY <1>1, <2>3, PiecesFacts
    <3> HIDE DEF p, piece, next, S
    <3> DEFINE q == p[next]
    <3>3. (front \o piece) \o q = front \o (piece \o q)
      <4>1. front \in Seq(Seq(Chars)) /\ piece \in Seq(Seq(Chars)) /\ q \in Seq(Seq(Chars))
        BY <1>3, <2>4, <3>2 DEF S
      <4> HIDE DEF q
      <4> QED  BY ONLY <4>1, ConcatAssociative
    <3>4. front \o piece \in S
      BY <1>3, <2>4, ConcatProperties DEF S
    <3> QED  BY <1>3, <3>1, <3>3, <3>4
  <2> HIDE DEF list, piece, next
  <2>7. new.start = next /\ new.list = list
    BY <2>2
  <2>8. list \in Lists
    BY <2>5 DEF ListHolds
  <2>9. new \in [start : 0..n, list : Lists]
    BY <2>2, <2>3, <2>8
  <2>10. \E x \in S : ListHolds(new.list, x) /\ x \o p[new.start] = p[0]
    BY <2>5, <2>6, <2>7
  <2>11. new \in Turns(t, key)
    BY <2>9, <2>10, Zenon DEF Turns
  <2>12. new.start > at.start
    BY <2>3, <2>7
  <2> QED  BY <2>11, <2>12
<1>9. Goal
  BY <1>7, <1>8, Zenon
<1> QED  BY <1>9, Zenon DEF Goal

\* The turns of the loop; after as many as there are bytes nothing is found.
LEMMA TurnsFacts ==
  ASSUME NEW s, NEW t, Holds(s, t), ~ String!Contains(t, String!NUL),
         NEW key \in Seq(Chars), key # <<>>
  PROVE  LET at == String!SplitTurns(s, key)[Len(t)]
         IN  at \in Turns(t, key) /\ String!Occurs(t, key, at.start) = {}
<1> DEFINE n == Len(t)
           S == Turns(t, key)
           p == String!Pieces(t, key)
           zero == [start |-> 0, list |-> [data |-> <<>>, len |-> 0]]
           step == [at \in S |-> String!SplitTurn(s, key, at)]
           turn == String!SplitTurns(s, key)
           After(at, k) == at \in S /\ (at.start >= k \/ String!Occurs(t, key, at.start) = {})
<1>1. t \in Seq(Chars) /\ n \in Nat /\ s.len = n
  BY LenProperties DEF Holds
<1>2. zero \in S
  <2>1. ListHolds([data |-> <<>>, len |-> 0], <<>>)
    BY EmptyList
  <2>2. 0 \in 0..n /\ p[0] \in Seq(Seq(Chars))
    <3>1. 0 \in 0..n
      BY <1>1
    <3> QED  BY <1>1, <3>1, PiecesFacts
  <2>3. <<>> \in Seq(Seq(Chars)) /\ <<>> \o p[0] = p[0]
    BY <2>2, ConcatEmptySeq, EmptySeq
  <2>4. [data |-> <<>>, len |-> 0] \in Lists
    BY <2>1 DEF ListHolds
  <2>5. zero \in [start : 0..n, list : Lists]
    BY <2>2, <2>4
  <2>6. zero.start = 0 /\ zero.list = [data |-> <<>>, len |-> 0]
    OBVIOUS
  <2> HIDE DEF zero
  <2>7. \E front \in Seq(Seq(Chars)) : ListHolds(zero.list, front) /\ front \o p[zero.start] = p[0]
    BY <2>1, <2>3, <2>6
  <2> QED  BY <2>5, <2>7, Zenon DEF Turns
<1>3. \A at \in S :
        LET new == String!SplitTurn(s, key, at)
        IN  /\ new \in S
            /\ \/ new.start > at.start
               \/ new.start = at.start /\ String!Occurs(t, key, new.start) = {}
  BY TurnKeeps
<1>4. turn = CHOOSE f : f = [k \in 0..n |-> IF k = 0 THEN zero
                                            ELSE String!SplitTurn(s, key, f[k - 1])]
  BY <1>1, Zenon DEF String!SplitTurns
<1>5. \A at \in S : at.start \in Nat
  BY <1>1 DEF Turns
<1> HIDE DEF S, zero, n, turn
<1>6. \E f : f = [k \in 0..n |-> IF k = 0 THEN zero ELSE String!SplitTurn(s, key, f[k - 1])]
  <2>1. step \in [S -> S]
    BY <1>3
  <2>2. PICK f : Walk(f, n, S, zero, step)
    BY <1>1, <1>2, <2>1, StepsExist
  <2>3. \A k \in 0..n : f[k] = IF k = 0 THEN zero ELSE String!SplitTurn(s, key, f[k - 1])
    <3> TAKE k \in 0..n
    <3>1. CASE k = 0
      BY <2>2, <3>1 DEF Walk
    <3>2. CASE k # 0
      <4>1. k \in 1..n /\ k - 1 \in 0..n
        BY <1>1, <3>2
      <4>2. f[k - 1] \in S
        BY <2>2, <4>1 DEF Walk
      <4> QED  BY <2>2, <3>2, <4>1, <4>2 DEF Walk
    <3> QED  BY <3>1, <3>2
  <2>4. f = [k \in 0..n |-> IF k = 0 THEN zero ELSE String!SplitTurn(s, key, f[k - 1])]
    BY <2>2, <2>3 DEF Walk
  <2> QED  BY <2>4
<1>7. turn = [k \in 0..n |-> IF k = 0 THEN zero ELSE String!SplitTurn(s, key, turn[k - 1])]
  BY <1>4, <1>6, Zenon
<1>8. /\ turn[0] = zero
      /\ \A k \in 1..n : turn[k] = String!SplitTurn(s, key, turn[k - 1])
  <2>1. \A k \in 0..n : turn[k] = IF k = 0 THEN zero ELSE String!SplitTurn(s, key, turn[k - 1])
    BY <1>7
  <2>2. 0 \in 0..n /\ \A k \in 1..n : k \in 0..n /\ k # 0
    BY <1>1
  <2> QED  BY <2>1, <2>2
<1> DEFINE bad == {k \in 0..n : ~ After(turn[k], k)}
<1>9. ASSUME bad # {}  PROVE FALSE
  <2>1. bad \in SUBSET Nat
    BY <1>1
  <2>2. PICK k \in bad : \A j \in bad : k <= j
    BY <1>9, <2>1, LeastExists
  <2>3. k \in 0..n /\ ~ After(turn[k], k)
    BY <2>2
  <2>4. CASE k = 0
    <3>1. zero.start = 0
      BY DEF zero
    <3>2. After(turn[k], k)
      BY <1>2, <1>8, <2>4, <3>1
    <3> QED  BY <2>3, <3>2
  <2>5. CASE k # 0
    <3>1. k \in 1..n /\ k - 1 \in 0..n /\ ~ (k <= k - 1)
      BY <1>1, <2>3, <2>5
    <3>2. k - 1 \notin bad
      BY <2>2, <3>1
    <3> DEFINE old == turn[k - 1]
               new == turn[k]
    <3>3. After(old, k - 1)
      BY <3>1, <3>2
    <3>4. new = String!SplitTurn(s, key, old)
      BY <1>8, <3>1
    <3> HIDE DEF old, new
    <3>5. /\ new \in S
          /\ \/ new.start > old.start
             \/ new.start = old.start /\ String!Occurs(t, key, new.start) = {}
      BY <1>3, <3>3, <3>4
    <3>6. old.start \in Nat /\ new.start \in Nat
      BY <1>5, <3>3, <3>5
    <3>7. old.start >= k - 1 /\ new.start > old.start => new.start >= k
      BY <3>1, <3>6
    <3>8. String!Occurs(t, key, old.start) = {} /\ new.start > old.start => String!Occurs(t, key, new.start) = {}
      <4>1. SUFFICES ASSUME String!Occurs(t, key, old.start) = {}, new.start > old.start
                     PROVE  String!Occurs(t, key, new.start) = {}
        OBVIOUS
      <4>2. String!Occurs(t, key, new.start) \subseteq String!Occurs(t, key, old.start)
        <5> DEFINE k1 == old.start
                   k2 == new.start
                   e == Len(t) - Len(key)
        <5>1. k1 \in Nat /\ k2 \in Nat /\ k2 > k1 /\ e \in Int
          BY <1>1, <3>6, <4>1, LenProperties DEF n
        <5> HIDE DEF k1, k2, e
        <5>2. k2..e \subseteq k1..e
          BY <5>1
        <5> QED  BY <5>2 DEF k1, k2, e, String!Occurs
      <4> QED  BY <4>1, <4>2
    <3>9. After(new, k)
      BY <3>3, <3>5, <3>7, <3>8
    <3> QED  BY <2>3, <3>9 DEF new
  <2> QED  BY <2>4, <2>5
<1>10. After(turn[n], n)
  <2>1. n \in 0..n
    BY <1>1
  <2> QED  BY <1>9, <2>1
<1>11. turn[n] \in S /\ String!Occurs(t, key, turn[n].start) = {}
  <2> DEFINE last == turn[n]
             start == turn[n].start
  <2>1. last \in S /\ (start >= n \/ String!Occurs(t, key, start) = {})
    BY <1>10
  <2>2. start \in 0..n
    <3> HIDE DEF last
    <3>1. \A at \in S : at.start \in 0..n
      BY DEF S, Turns, n
    <3>2. last.start \in 0..n
      BY <2>1, <3>1
    <3> QED  BY <3>2 DEF last
  <2> HIDE DEF start
  <2>3. start >= n => start = n
    BY <1>1, <2>2
  <2>4. String!Occurs(t, key, n) = {}
    <3>1. 0 \in 0..Len(t)
      BY <1>1 DEF n
    <3> QED  BY <1>1, <3>1, OccursFacts DEF n
  <2>5. String!Occurs(t, key, start) = {}
    BY <2>1, <2>3, <2>4
  <2> QED  BY <2>1, <2>5 DEF start
<1> QED  BY <1>11 DEF turn, n, S

\* The list of a split has the pieces between the keys.
LEMMA SplitHolds ==
  ASSUME NEW s, NEW t, Holds(s, t), ~ String!Contains(t, String!NUL),
         NEW key \in Seq(Chars), key # <<>>
  PROVE  ListHolds(String!SpeStringSplit(s, key), String!Pieces(t, key)[0])
<1> DEFINE n == Len(t)
           p == String!Pieces(t, key)
           S == Seq(Seq(Chars))
           end == String!SplitTurns(s, key)[n]
           i == end.start
           tail == SubSeq(t, i + 1, n)
           split == String!SpeStringSplit(s, key)
<1>1. t \in Seq(Chars) /\ n \in Nat /\ s.len = n /\ String!data(s) = t
  BY DataIsText, LenProperties DEF Holds
<1>2. end \in Turns(t, key) /\ String!Occurs(t, key, i) = {}
  BY TurnsFacts
<1>3. split = IF i = n THEN end.list ELSE String!spe_slist_appendb(end.list, tail)
  BY <1>1 DEF String!SpeStringSplit
<1> HIDE DEF end
<1>4. i \in 0..n
  BY <1>2 DEF Turns
<1>5. PICK front \in S : ListHolds(end.list, front) /\ front \o p[i] = p[0]
  BY <1>2 DEF Turns
<1>6. p[i] = String!Piece(t, i, n)
  <2>1. p[i] = From(t, key, i, p)
    BY <1>1, <1>4, PiecesFacts
  <2> QED  BY <1>2, <2>1 DEF From
<1>7. /\ tail \in Seq(Chars)
      /\ i = n => p[i] = <<>>
      /\ i # n => p[i] = <<tail>>
  <2>1. n \in i..Len(t)
    BY <1>1, <1>4
  <2> QED  BY <1>1, <1>4, <1>6, <2>1, PieceFacts
<1> HIDE DEF p, tail, split, i, n
<1>8. CASE i = n
  <2>1. front \o p[i] = front
    BY <1>5, <1>7, <1>8, ConcatEmptySeq
  <2>2. ListHolds(split, p[0])
    BY <1>3, <1>5, <1>8, <2>1
  <2> QED  BY <2>2 DEF split, p
<1>9. CASE i # n
  <2>1. Append(front, tail) = p[0]
    BY <1>5, <1>7, <1>9, AppendIsConcat
  <2>2. ListHolds(String!spe_slist_appendb(end.list, tail), Append(front, tail))
    BY <1>5, <1>7, AppendbHolds
  <2>3. ListHolds(split, p[0])
    BY <1>3, <1>9, <2>1, <2>2
  <2> QED  BY <2>3 DEF split, p
<1> QED  BY <1>8, <1>9

-----------------------------------------------------------------------------
(* A string and a list in use *)

\* The string has its text, the list its pieces.
StringInv == Holds(str, text) /\ ListHolds(slist, pieces)

\* What the program hands over are texts of the memory's bytes.
LEMMA GivenTexts ==
  /\ Phrases \cup {<<>>} \subseteq Seq(Chars)
  /\ \A key \in Patterns : key \in Seq(Chars) /\ key # <<>>
<1>1. Seq(STRING) \subseteq Seq(Chars)
  <2>1. \A S, T : S \subseteq T => Seq(S) \subseteq Seq(T)
    OBVIOUS
  <2>2. STRING \subseteq Chars
    BY DEF Chars
  <2> HIDE DEF Chars
  <2> QED  BY <2>1, <2>2, Zenon
<1>2. <<>> \in Seq(Chars)
  BY EmptySeq
<1> QED  BY <1>1, <1>2, StringAssumption DEF StringAssumption

\* The numbers of a call.
LEMMA GivenNumbers == ASSUME NEW n \in 1..MaxLen  PROVE n \in Nat
BY StringAssumption DEF StringAssumption

LEMMA StringStart == String!Init => StringInv
BY NewStrings, EmptyList, Zenon DEF String!Init, StringInv

\* Every call on the string leaves it with the text of that call.
LEMMA StringCall ==
  ASSUME StringInv, String!StringNext
  PROVE  Holds(str', text') /\ ListHolds(slist', pieces')
<1>1. Holds(str, text) /\ ListHolds(slist, pieces) /\ str \in Strings
  BY Zenon DEF StringInv, Holds
<1> DEFINE Goal == Holds(str', text') /\ ListHolds(slist', pieces')
<1>2. ASSUME String!Keep, Holds(str', text')  PROVE Goal
  BY <1>1, <1>2 DEF String!Keep
<1> HIDE DEF Goal
<1>3. ASSUME NEW bytes \in Phrases, String!Cat(bytes)  PROVE Goal
  <2>1. bytes \in Seq(Chars)
    BY GivenTexts
  <2>2. /\ str' = String!SpeStringCatb(str, bytes) /\ text' = text \o bytes
        /\ String!Keep
    BY <1>3, Zenon DEF String!Cat
  <2>3. Holds(String!SpeStringCatb(str, bytes), text \o bytes)
    BY <1>1, <2>1, CatbHolds
  <2> QED  BY <1>2, <2>2, <2>3
<1>4. ASSUME NEW bytes \in Phrases, String!Copy(bytes)  PROVE Goal
  <2>1. bytes \in Seq(Chars)
    BY GivenTexts
  <2>2. str' = String!SpeStringCopyb(str, bytes) /\ text' = bytes /\ String!Keep
    BY <1>4, Zenon DEF String!Copy
  <2>3. Holds(String!SpeStringCopyb(str, bytes), bytes)
    BY <1>1, <2>1, CopybHolds
  <2> QED  BY <1>2, <2>2, <2>3
<1>5. ASSUME NEW bytes \in Phrases \cup {<<>>}, NEW ask \in 1..MaxLen,
             String!Read(ask, bytes) \/ String!ReadAppend(ask, bytes)
      PROVE  Goal
  <2>1. bytes \in Seq(Chars) /\ ask \in Nat
    BY GivenTexts, GivenNumbers
  <2>2. CASE String!Read(ask, bytes)
    <3>1. /\ Len(bytes) <= ask /\ str' = String!SpeStringRead(str, ask, bytes)
          /\ text' = (IF bytes = <<>> THEN text ELSE bytes) /\ String!Keep
      BY <2>2, Zenon DEF String!Read
    <3>2. Holds(String!SpeStringRead(str, ask, bytes), IF bytes = <<>> THEN text ELSE bytes)
      BY <1>1, <2>1, <3>1, ReadHolds
    <3> QED  BY <1>2, <3>1, <3>2
  <2>3. CASE String!ReadAppend(ask, bytes)
    <3>1. /\ Len(bytes) <= ask /\ str' = String!SpeStringReadAppend(str, ask, bytes)
          /\ text' = text \o bytes /\ String!Keep
      BY <2>3, Zenon DEF String!ReadAppend
    <3>2. Holds(String!SpeStringReadAppend(str, ask, bytes), text \o bytes)
      BY <1>1, <2>1, <3>1, ReadHolds
    <3> QED  BY <1>2, <3>1, <3>2
  <2> QED  BY <1>5, <2>2, <2>3
<1>6. ASSUME NEW n \in 1..MaxLen, String!Consume(n)  PROVE Goal
  <2>1. n \in Nat
    BY GivenNumbers
  <2>2. /\ Holds(String!SpeStringConsume(str, n), SubSeq(text, n + 1, Len(text)))
        /\ Holds(String!SpeStringRconsume(str, n), SubSeq(text, 1, Len(text) - n))
    BY <1>1, <2>1, ConsumeHolds
  <2>3. /\ \/ /\ str' = String!SpeStringConsume(str, n)
              /\ text' = SubSeq(text, n + 1, Len(text))
           \/ /\ str' = String!SpeStringRconsume(str, n)
              /\ text' = SubSeq(text, 1, Len(text) - n)
        /\ String!Keep
    BY <1>6, Zenon DEF String!Consume
  <2> QED  BY <1>2, <2>2, <2>3, Zenon
<1>7. ASSUME String!Clean  PROVE Goal
  <2>1. str' = String!SpeStringClean(str) /\ text' = <<>> /\ String!Keep
    BY <1>7, Zenon DEF String!Clean
  <2>2. Holds(String!SpeStringClean(str), <<>>)
    BY <1>1, CleanHolds
  <2> QED  BY <1>2, <2>1, <2>2
<1>8. ASSUME String!Strim  PROVE Goal
  <2> DEFINE solid == {i \in DOMAIN text : text[i] # String!Blank}
             u == IF solid = {} THEN <<>> ELSE SubSeq(text, String!Min(solid), String!Max(solid))
  <2>1. str' = String!SpeStringStrim(str) /\ text' = u /\ String!Keep
    BY <1>8, Zenon DEF String!Strim
  <2>2. Holds(String!SpeStringStrim(str), u)
    BY <1>1, StrimHolds, Zenon
  <2> HIDE DEF u
  <2> QED  BY <1>2, <2>1, <2>2
<1> QED
  <2>1. Goal
    BY <1>3, <1>4, <1>5, <1>6, <1>7, <1>8, Zenon DEF String!StringNext
  <2> QED  BY <2>1 DEF Goal

\* Every call on the list leaves it with the pieces of that call.
LEMMA SlistCall ==
  ASSUME StringInv, String!SlistNext
  PROVE  Holds(str', text') /\ ListHolds(slist', pieces')
<1>1. Holds(str, text) /\ ListHolds(slist, pieces) /\ slist \in Lists
  BY Zenon DEF StringInv, ListHolds
<1> DEFINE Goal == Holds(str', text') /\ ListHolds(slist', pieces')
<1>2. ASSUME String!Alone, ListHolds(slist', pieces')  PROVE Goal
  BY <1>1, <1>2 DEF String!Alone
<1> HIDE DEF Goal
<1>3. ASSUME String!SlistClean  PROVE Goal
  <2>1. slist' = String!spe_slist_clean(slist) /\ pieces' = <<>> /\ String!Alone
    BY <1>3, Zenon DEF String!SlistClean
  <2>2. ListHolds(String!spe_slist_clean(slist), <<>>)
    BY <1>1, EmptyList
  <2> QED  BY <1>2, <2>1, <2>2
<1>4. ASSUME NEW bytes \in Phrases \cup {<<>>}, String!SlistAppend(bytes)  PROVE Goal
  <2>1. bytes \in Seq(Chars)
    BY GivenTexts
  <2>2. /\ slist' = String!spe_slist_appendb(slist, bytes) /\ pieces' = Append(pieces, bytes)
        /\ String!Alone
    BY <1>4, Zenon DEF String!SlistAppend
  <2>3. ListHolds(String!spe_slist_appendb(slist, bytes), Append(pieces, bytes))
    BY <1>1, <2>1, AppendbHolds
  <2> QED  BY <1>2, <2>2, <2>3
<1> QED
  <2>1. Goal
    BY <1>3, <1>4, Zenon DEF String!SlistNext
  <2> QED  BY <2>1 DEF Goal

\* For any texts, sizes and bounds: a string holds the text its calls make,
\* within its memory and terminated, and a list the texts appended since it was
\* cleaned (spe_string.c:10-389).
THEOREM StringInvariance == String!Spec => []StringInv
<1>1. StringInv /\ [String!Next]_(String!vars) => StringInv'
  <2> SUFFICES ASSUME StringInv, [String!Next]_(String!vars)  PROVE StringInv'
    OBVIOUS
  <2>1. Holds(str', text') /\ ListHolds(slist', pieces')
    <3>1. CASE UNCHANGED String!vars
      <4>1. str' = str /\ text' = text /\ slist' = slist /\ pieces' = pieces
        BY <3>1 DEF String!vars
      <4> QED  BY <4>1 DEF StringInv
    <3> QED  BY <3>1, StringCall, SlistCall, Zenon DEF String!Next
  <2> QED  BY <2>1 DEF StringInv
<1> QED  BY <1>1, StringStart, PTL DEF String!Spec

\* What the text and the list say of search, split and comparison.
LEMMA StringsFollow == StringInv => String!StringsAreSound
<1> SUFFICES ASSUME StringInv  PROVE String!StringsAreSound
  OBVIOUS
<1>1. /\ Holds(str, text) /\ str \in Strings /\ text \in Seq(Chars) /\ str.off \in Nat
      /\ ListHolds(slist, pieces) /\ slist.len = Len(pieces) /\ Len(pieces) \in Nat
      /\ pieces \in Seq(Seq(Chars)) /\ slist.data \in Seq(Strings) /\ slist.len <= Len(slist.data)
  <2>1. Holds(str, text) /\ ListHolds(slist, pieces)
    BY Zenon DEF StringInv
  <2>2. str \in Strings /\ text \in Seq(Chars)
    BY <2>1, Zenon DEF Holds
  <2>3. slist \in Lists /\ pieces \in Seq(Seq(Chars)) /\ slist.len = Len(pieces)
    BY <2>1, Zenon DEF ListHolds
  <2>4. slist.data \in Seq(Strings) /\ slist.len <= Len(slist.data)
    BY <2>3 DEF Lists
  <2> QED  BY <2>1, <2>2, <2>3, <2>4, StringParts, LenProperties
<1>2. String!Sound(str, text)
  BY <1>1, SoundIsHolds
<1>3. \A i \in 1..slist.len : String!Sound(slist.data[i], pieces[i])
  <2> TAKE i \in 1..slist.len
  <2>1. Holds(slist.data[i], pieces[i])
    BY <1>1, Zenon DEF ListHolds
  <2>2. slist.data[i] \in Strings /\ pieces[i] \in Seq(Chars)
    BY <2>1, Zenon DEF Holds
  <2> QED  BY <2>1, <2>2, SoundIsHolds
<1>4. ASSUME ~ String!Contains(text, String!NUL), NEW key \in Patterns
      PROVE  LET at == String!Occurs(text, key, 0)
                 split == String!SpeStringSplit(str, key)
             IN  /\ String!SpeStringSearch(str, key) = IF at = {} THEN -1 ELSE String!Min(at)
                 /\ [i \in 1..split.len |-> String!data(split.data[i])]
                      = String!Pieces(text, key)[0]
  <2> DEFINE at == String!Occurs(text, key, 0)
             split == String!SpeStringSplit(str, key)
             all == String!Pieces(text, key)[0]
  <2>1. key \in Seq(Chars) /\ key # <<>>
    BY GivenTexts
  <2>2. String!SpeStringSearch(str, key) = IF at = {} THEN -1 ELSE String!Min(at)
    <3>1. 0 \in 0..Len(text)
      BY <1>1, LenProperties
    <3>2. String!strstr(str, 0, key) = IF at = {} THEN -1 ELSE String!Min(at)
      BY <1>1, <1>4, <2>1, <3>1, strstrFinds
    <3> QED  BY <3>2 DEF String!SpeStringSearch
  <2>3. ListHolds(split, all)
    BY <1>1, <1>4, <2>1, SplitHolds
  <2> HIDE DEF split, all
  <2>4. /\ all \in Seq(Seq(Chars)) /\ split.len = Len(all) /\ Len(all) \in Nat
        /\ \A i \in 1..Len(all) : Holds(split.data[i], all[i])
    BY <2>3, LenProperties DEF ListHolds
  <2>5. \A i \in 1..Len(all) : String!data(split.data[i]) = all[i]
    BY <2>4, DataIsText
  <2>6. [i \in 1..split.len |-> String!data(split.data[i])] = all
    <3>1. all = [i \in 1..Len(all) |-> all[i]]
      BY <2>4
    <3> QED  BY <2>4, <2>5, <3>1
  <2> QED  BY <2>2, <2>6, Zenon DEF split, all
<1>5. ASSUME NEW bytes \in Phrases
      PROVE  String!SpeStringCmp(str, String!SpeStringCopyb(String!SpeStringCreate(FirstSize), bytes)) = 0
               <=> bytes = text
  <2> DEFINE fresh == String!SpeStringCreate(FirstSize)
             copy == String!SpeStringCopyb(fresh, bytes)
  <2>1. bytes \in Seq(Chars)
    BY GivenTexts
  <2>2. fresh \in Strings
    BY NewStrings, Zenon DEF Holds
  <2> HIDE DEF fresh
  <2>3. Holds(copy, bytes)
    BY <2>1, <2>2, CopybHolds
  <2> HIDE DEF copy
  <2>4. String!SpeStringCmp(str, copy) = 0 <=> bytes = text
    BY <1>1, <2>3, CmpIsEquality
  <2> QED  BY <2>4 DEF copy, fresh
<1> QED  BY <1>1, <1>2, <1>3, <1>4, <1>5, Zenon DEF String!StringsAreSound

\* spe_string.c:10-389.  After any calls a string holds what it was given, in
\* its memory and terminated; a list holds the strings appended since it was
\* cleaned; searching, splitting and comparing look at the text alone, for any
\* texts, patterns, sizes and bounds.
THEOREM StringsAreAlwaysSound == String!Spec => []StringsAreSound
BY StringInvariance, StringsFollow, PTL DEF StringsAreSound
=============================================================================
