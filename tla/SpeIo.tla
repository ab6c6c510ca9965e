-------------------------------- MODULE SpeIo --------------------------------
(***************************************************************************)
(* Blocking reads and writes of a file, src/spe/spe_io.c.  One thread, but *)
(* read and write may be short, be interrupted or fail.                    *)
(***************************************************************************)
EXTENDS BlockingRead

CONSTANTS Files,    \* contents a file may have, sequences over the bytes "x"
                    \* and the delimiter "n"
          BUF_LEN,  \* bytes of one read(2)
          MaxCount, \* bound: bytes asked for
          MaxWrites \* bound: bytes in the write buffer

VARIABLES rest,         \* what read(2) has not returned yet
          readBuffer, Buffer,
          rtype,
          closed, error,
          res,          \* what the last call returned
          due,          \* readBuffer and rest when the last read was called
          writeBuffer, sent   \* number of bytes, number the file has got

vars == <<rest, readBuffer, Buffer, rtype, closed, error, res, due, writeBuffer, sent>>
readVars == <<rest, readBuffer, Buffer, rtype, due>>
flags == <<closed, error>>
writeVars == <<writeBuffer, sent>>

TypeOK ==
  /\ \E f \in Files : IsSuffix(rest, f) /\ IsSuffix(due, f)
  /\ rtype \in {READNONE, READ, READUNTIL} \cup 1..MaxCount
  /\ closed \in BOOLEAN /\ error \in BOOLEAN
  /\ writeBuffer \in 0..MaxWrites /\ sent \in Nat

\* SpeIoCreate
Init ==
  /\ rest \in Files /\ due = rest
  /\ readBuffer = <<>> /\ Buffer = <<>>
  /\ rtype = READNONE /\ closed = FALSE /\ error = FALSE /\ res = 0
  /\ writeBuffer = 0 /\ sent = 0

-----------------------------------------------------------------------------
\* SpeIoRead, SpeIoReaduntil, SpeIoReadbytes
Call(kind) ==
  /\ rtype = READNONE /\ ~ closed /\ ~ error
  /\ rtype' = kind /\ due' = readBuffer \o rest
  /\ UNCHANGED <<rest, readBuffer, Buffer, flags, res, writeVars>>

Answer ==
  /\ rtype # READNONE /\ Enough(rtype, readBuffer)
  /\ Buffer' = SubSeq(readBuffer, 1, Gives(rtype, readBuffer))
  /\ readBuffer' = SubSeq(readBuffer, Takes(rtype, readBuffer) + 1, Len(readBuffer))
  /\ res' = Len(Buffer') /\ rtype' = READNONE
  /\ UNCHANGED <<rest, flags, due, writeVars>>

\* SpeStringReadAppend; a read that is interrupted is tried again.
ReadMore(n) ==
  /\ rtype # READNONE /\ ~ Enough(rtype, readBuffer)
  /\ n \in 1..Min({BUF_LEN, Len(rest)})
  /\ readBuffer' = readBuffer \o SubSeq(rest, 1, n)
  /\ rest' = SubSeq(rest, n + 1, Len(rest))
  /\ UNCHANGED <<Buffer, rtype, flags, res, due, writeVars>>

\* Faulty variant: the buffer is cleaned before it is copied.
ReadEndsDropsTail(ret) ==
  /\ rtype # READNONE /\ ~ Enough(rtype, readBuffer)
  /\ ret = -1 \/ (ret = 0 /\ rest = <<>>)
  /\ Buffer' = <<>> /\ readBuffer' = <<>>
  /\ res' = ret /\ rtype' = READNONE
  /\ closed' = (closed \/ ret = 0) /\ error' = (error \/ ret = -1)
  /\ UNCHANGED <<rest, due, writeVars>>

\* The end of the file, or an error: the caller gets what there is.
ReadEnds(ret) ==
  /\ rtype # READNONE /\ ~ Enough(rtype, readBuffer)
  /\ ret = -1 \/ (ret = 0 /\ rest = <<>>)
  /\ Buffer' = readBuffer /\ readBuffer' = <<>>
  /\ res' = ret /\ rtype' = READNONE
  /\ closed' = (closed \/ ret = 0) /\ error' = (error \/ ret = -1)
  /\ UNCHANGED <<rest, due, writeVars>>

SpeIoWrite ==
  /\ rtype = READNONE /\ ~ closed /\ ~ error /\ writeBuffer < MaxWrites
  /\ writeBuffer' = writeBuffer + 1
  /\ UNCHANGED <<readVars, flags, res, sent>>

\* The loop goes on until all is written or write fails.  The buffer is not
\* cleaned: another flush writes it all again.
SpeIoFlush ==
  /\ rtype = READNONE /\ ~ closed /\ ~ error /\ sent <= MaxWrites
  /\ \E n \in 0..writeBuffer :
       sent' = sent + n /\ res' = n /\ error' = (n < writeBuffer)
  /\ UNCHANGED <<readVars, closed, writeBuffer>>

Next ==
  \/ Answer \/ SpeIoWrite \/ SpeIoFlush
  \/ \E kind \in {READ, READUNTIL} \cup 1..MaxCount : Call(kind)
  \/ \E n \in 1..BUF_LEN : ReadMore(n)
  \/ \E ret \in {0, -1} : ReadEnds(ret)

Spec == Init /\ [][Next]_vars

-----------------------------------------------------------------------------
\* spe_io.c:21-105.  However the bytes come in, and wherever the file ends or a
\* read fails, no byte is lost or read twice.  What was due when a read was
\* called is what its caller was given, at most a delimiter that is left out,
\* and what is still to come; at the end of the file it is what the caller was
\* given, and after an error all but what read(2) has not returned.
ReadsAreInOrder ==
  /\ rtype # READNONE => readBuffer \o rest = due
  /\ rtype = READNONE => \/ Buffer \o readBuffer \o rest = due
                         \/ Buffer \o <<"n">> \o readBuffer \o rest = due
  /\ closed => Buffer = due
  /\ res = -1 => Buffer \o rest = due
=============================================================================
