----------------------------- MODULE BlockingRead ----------------------------
(* What the reads of src/spe/spe_io.c wait for and take.  A text is a       *)
(* sequence over the bytes "x" and the delimiter "n".                       *)
EXTENDS Integers, SequencesExt

\* The kinds of read; a positive number is the bytes asked for.
READNONE  == 0
READ      == -1
READUNTIL == -2

Until(s) == CHOOSE i \in 1..Len(s) : s[i] = "n" /\ ~ Contains(SubSeq(s, 1, i - 1), "n")

Enough(kind, s) ==
  CASE kind = READ      -> s # <<>>
    [] kind = READUNTIL -> Contains(s, "n")
    [] OTHER            -> kind <= Len(s)

\* Bytes the caller gets, and bytes that leave the buffer: the delimiter leaves
\* it and goes to nobody.
Gives(kind, s) ==
  CASE kind = READ      -> Len(s)
    [] kind = READUNTIL -> Until(s) - 1
    [] OTHER            -> kind
Takes(kind, s) == IF kind = READUNTIL THEN Until(s) ELSE Gives(kind, s)
=============================================================================
