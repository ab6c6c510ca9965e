------------------------------ MODULE SpeString ------------------------------
(***************************************************************************)
(* The growing byte strings of src/spe/spe_string.c and the lists of them. *)
(* A string is its memory and a window on it: `mem` is what _start points  *)
(* to, `off` is data - _start.  Bytes are letters, a blank, the NUL, and   *)
(* Garbage for memory that was never written.  malloc succeeds: where it   *)
(* fails a call returns false and changes nothing, except                  *)
(* spe_slist_appendb, which then counts a slot it did not fill             *)
(* (spe_string.c:386).                                                     *)
(***************************************************************************)
EXTENDS Integers, SequencesExt

CONSTANTS Slack,        \* bytes asked for beyond the need (30 and an eighth)
          FirstSize,    \* size of a new string
          Texts,        \* what the program appends, copies and reads
          Keys,         \* what it searches for and splits at, not empty
          MaxLen,       \* bound: length of a text
          MaxPieces     \* bound: entries of the list

VARIABLES str, text,    \* a string, and the bytes it is to hold
          slist, pieces \* a list of strings, and what it is to hold

vars == <<str, text, slist, pieces>>

NUL == "0"
Blank == " "
Garbage == "?"

Memory(n, byte) == [i \in 1..n |-> byte]

SpeStringCreate(size) == [mem |-> Memory(size, NUL), off |-> 0, len |-> 0]

\* A slot that holds NULL.
NoString == [mem |-> <<>>, off |-> 0, len |-> 0]

Init ==
  /\ str = SpeStringCreate(FirstSize) /\ text = <<>>
  /\ slist = [data |-> <<>>, len |-> 0] /\ pieces = <<>>

-----------------------------------------------------------------------------
(* The functions *)

data(s) == SubSeq(s.mem, s.off + 1, s.off + s.len)

\* memcpy to the position i of the memory, counted from 0.
Write(mem, i, bytes) ==
  [j \in DOMAIN mem |-> IF j \in i + 1 .. i + Len(bytes) THEN bytes[j - i] ELSE mem[j]]

\* str->data[str->len] = 0
Terminate(s) == [s EXCEPT !.mem = Write(@, s.off + s.len, <<NUL>>)]

\* A string that has these bytes at the begin of its memory.
FromStart(mem, bytes) == Terminate([mem |-> Write(mem, 0, bytes), off |-> 0, len |-> Len(bytes)])

\* Faulty variant: it compares with the whole size when the window has moved.
SpeStringReadyIgnoresOffset(s, need) ==
  IF need <= Len(s.mem) THEN s ELSE FromStart(Memory(need + Slack, Garbage), data(s))

SpeStringReady(s, need) ==
  IF need <= Len(s.mem) - s.off THEN s
  ELSE IF need <= Len(s.mem) THEN FromStart(s.mem, data(s))
  ELSE FromStart(Memory(need + Slack, Garbage), data(s))

SpeStringReadyplus(s, n) == SpeStringReady(s, s.len + n)

\* memcpy behind the window, or read.
AppendBytes(r, bytes) ==
  Terminate([mem |-> Write(r.mem, r.off + r.len, bytes), off |-> r.off, len |-> r.len + Len(bytes)])

SpeStringCatb(s, bytes) ==
  AppendBytes(SpeStringReadyplus(s, Len(bytes) + 1), bytes)

SpeStringCopyb(s, bytes) ==
  FromStart(SpeStringReady(s, Len(bytes) + 1).mem, bytes)

SpeStringClean(s) == Terminate([mem |-> s.mem, off |-> 0, len |-> 0])

SpeStringConsume(s, n) ==
  IF n >= s.len THEN SpeStringClean(s)
  ELSE Terminate([mem |-> s.mem, off |-> s.off + n, len |-> s.len - n])

SpeStringRconsume(s, n) ==
  IF n >= s.len THEN SpeStringClean(s) ELSE Terminate([mem |-> s.mem, off |-> s.off, len |-> s.len - n])

\* strstr from the position i of the data: it looks at the memory up to a NUL,
\* not at len.
strstr(s, i, key) ==
  LET from == s.off + i
      end  == Min({j \in from + 1 .. Len(s.mem) : s.mem[j] = NUL})
      at   == {j \in from .. end - 1 - Len(key) : SubSeq(s.mem, j + 1, j + Len(key)) = key}
  IN  IF at = {} THEN -1 ELSE Min(at) - s.off

SpeStringSearch(s, key) == strstr(s, 0, key)

\* Blanks stand for the four characters that are trimmed.
SpeStringLstrim(s) ==
  LET n == Min({i \in 0..s.len : i = s.len \/ data(s)[i + 1] # Blank})
  IN  IF n = 0 THEN s ELSE SpeStringConsume(s, n)

SpeStringRstrim(s) ==
  LET n == Max({i \in 0..s.len : i = 0 \/ data(s)[i] # Blank})
  IN  Terminate([mem |-> s.mem, off |-> s.off, len |-> n])

SpeStringStrim(s) == SpeStringRstrim(SpeStringLstrim(s))

\* memcmp of what both have, then the lengths.
Ord(byte) == IF byte = NUL THEN 0 ELSE IF byte = Blank THEN 1 ELSE IF byte = "a" THEN 2 ELSE 3
SpeStringCmp(s1, s2) ==
  LET n == Min({s1.len, s2.len})
      diff == {i \in 1..n : data(s1)[i] # data(s2)[i]}
  IN  IF diff # {} THEN IF Ord(data(s1)[Min(diff)]) < Ord(data(s2)[Min(diff)]) THEN -1 ELSE 1
      ELSE IF s1.len = s2.len THEN 0 ELSE IF s1.len > s2.len THEN 1 ELSE -1

\* read appends: what arrived, as much as was asked for.
SpeStringReadAppend(s, ask, bytes) ==
  LET r == SpeStringReadyplus(s, ask + 1)
  IN  IF bytes = <<>> THEN r
      ELSE AppendBytes(r, bytes)

\* read in place of what was there: nothing changes if nothing arrived.
SpeStringRead(s, ask, bytes) ==
  LET r == SpeStringReady(s, ask + 1)
  IN  IF bytes = <<>> THEN r
      ELSE FromStart(r.mem, bytes)

\* New slots are NULL.
spe_slist_ready(l, need) ==
  IF need <= Len(l.data) THEN l
  ELSE [data |-> [i \in 1 .. need + Slack |-> IF i <= l.len THEN l.data[i] ELSE NoString],
        len  |-> l.len]

\* The string of a slot that was used before is used again.
spe_slist_appendb(l, bytes) ==
  LET r == spe_slist_ready(l, l.len + 1)
      s == IF r.data[r.len + 1] = NoString THEN SpeStringCreate(FirstSize) ELSE r.data[r.len + 1]
  IN  [data |-> [r.data EXCEPT ![r.len + 1] = SpeStringCopyb(s, bytes)], len |-> r.len + 1]

spe_slist_clean(l) == [data |-> l.data, len |-> 0]

\* One turn of the loop: where it looks next, and the pieces before that place;
\* pieces without bytes are left out.
SplitTurn(s, key, at) ==
  LET point == IF at.start < s.len THEN strstr(s, at.start, key) ELSE -1
  IN  IF point = -1 THEN at
      ELSE [start |-> point + Len(key),
            list  |-> IF point = at.start THEN at.list
                      ELSE spe_slist_appendb(at.list, SubSeq(data(s), at.start + 1, point))]

\* Each turn gets further by a byte, so after as many turns as bytes the loop
\* is over.
SplitTurns(s, key) ==
  LET turn[k \in 0..s.len] ==
        IF k = 0 THEN [start |-> 0, list |-> [data |-> <<>>, len |-> 0]]
        ELSE SplitTurn(s, key, turn[k - 1])
  IN  turn

SpeStringSplit(s, key) ==
  LET end == SplitTurns(s, key)[s.len]
  IN  IF end.start = s.len THEN end.list
      ELSE spe_slist_appendb(end.list, SubSeq(data(s), end.start + 1, s.len))

-----------------------------------------------------------------------------
(* A string in use, and what each call is for *)

Keep == UNCHANGED <<slist, pieces>>
Alone == UNCHANGED <<str, text>>

Cat(bytes) ==
  /\ Len(text) + Len(bytes) <= MaxLen
  /\ str' = SpeStringCatb(str, bytes) /\ text' = text \o bytes /\ Keep

Copy(bytes) == str' = SpeStringCopyb(str, bytes) /\ text' = bytes /\ Keep

Read(ask, bytes) ==
  /\ Len(bytes) <= ask
  /\ str' = SpeStringRead(str, ask, bytes)
  /\ text' = (IF bytes = <<>> THEN text ELSE bytes) /\ Keep

ReadAppend(ask, bytes) ==
  /\ Len(bytes) <= ask /\ Len(text) + ask <= MaxLen
  /\ str' = SpeStringReadAppend(str, ask, bytes) /\ text' = text \o bytes /\ Keep

Consume(n) ==
  /\ \/ /\ str' = SpeStringConsume(str, n)
        /\ text' = SubSeq(text, n + 1, Len(text))
     \/ /\ str' = SpeStringRconsume(str, n)
        /\ text' = SubSeq(text, 1, Len(text) - n)
  /\ Keep

Clean == str' = SpeStringClean(str) /\ text' = <<>> /\ Keep

\* Nothing but blanks leaves at either end.
Strim ==
  /\ str' = SpeStringStrim(str)
  /\ LET solid == {i \in DOMAIN text : text[i] # Blank}
     IN  text' = IF solid = {} THEN <<>> ELSE SubSeq(text, Min(solid), Max(solid))
  /\ Keep

SlistAppend(bytes) ==
  /\ Len(pieces) < MaxPieces
  /\ slist' = spe_slist_appendb(slist, bytes) /\ pieces' = Append(pieces, bytes) /\ Alone

SlistClean == slist' = spe_slist_clean(slist) /\ pieces' = <<>> /\ Alone

\* A string and a list share nothing.
StringNext ==
  \/ \E bytes \in Texts : Cat(bytes) \/ Copy(bytes)
  \/ \E bytes \in Texts \cup {<<>>}, ask \in 1..MaxLen : Read(ask, bytes) \/ ReadAppend(ask, bytes)
  \/ \E n \in 1..MaxLen : Consume(n)
  \/ Clean \/ Strim

SlistNext == SlistClean \/ \E bytes \in Texts \cup {<<>>} : SlistAppend(bytes)

Next == StringNext \/ SlistNext

Spec == Init /\ [][Next]_vars

-----------------------------------------------------------------------------
Sound(s, bytes) ==
  /\ s.off + s.len + 1 <= Len(s.mem)
  /\ s.mem[s.off + s.len + 1] = NUL
  /\ data(s) = bytes

\* Where key is in the bytes, from the place i on.
Occurs(bytes, key, i) ==
  {j \in i .. Len(bytes) - Len(key) : SubSeq(bytes, j + 1, j + Len(key)) = key}

\* The bytes between two places, if there are any.
Piece(bytes, i, j) == IF i = j THEN <<>> ELSE <<SubSeq(bytes, i + 1, j)>>

\* The pieces between the keys from each place on, looked for from left to right.
Pieces(bytes, key) ==
  LET from[i \in 0..Len(bytes)] ==
        LET at == Occurs(bytes, key, i)
        IN  IF at = {} THEN Piece(bytes, i, Len(bytes))
            ELSE Piece(bytes, i, Min(at)) \o from[Min(at) + Len(key)]
  IN  from

\* spe_string.c:10-389.  After any calls a string holds what it was given and
\* nothing of the memory's past, within its memory and terminated; a list
\* whose strings are used again holds the strings appended since it was
\* cleaned; and for text without a NUL searching and splitting look at the
\* text alone, never behind it.
StringsAreSound ==
  /\ Sound(str, text)
  /\ slist.len = Len(pieces) /\ \A i \in 1..slist.len : Sound(slist.data[i], pieces[i])
  /\ ~ Contains(text, NUL) => \A key \in Keys :
       LET at == Occurs(text, key, 0)
           split == SpeStringSplit(str, key)
       IN  /\ SpeStringSearch(str, key) = IF at = {} THEN -1 ELSE Min(at)
           /\ [i \in 1..split.len |-> data(split.data[i])] = Pieces(text, key)[0]
  /\ \A bytes \in Texts :
       SpeStringCmp(str, SpeStringCopyb(SpeStringCreate(FirstSize), bytes)) = 0 <=> bytes = text
=============================================================================
