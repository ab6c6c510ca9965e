------------------------------ MODULE MCSpeConn ------------------------------
(* Constants for checking SpeConn. *)
EXTENDS SpeConn

CONSTANTS x, y

OneConn  == {x}
TwoConns == {x, y}

NoTimeout == {0}
ZeroOrOne == {0, 1}
One       == {1}

NoDelim    == {}
DelimAtTwo == {2}

\* The calls of the program in each run.
Reading    == {"up", "Readuntil", "Readbytes", "Read", "Destroy"}
Duplex     == {"up", "fresh", "Read", "Write", "Flush", "Destroy"}
Pair       == {"up", "Read", "Flush", "Destroy"}
ReadBytes  == {"up", "Readbytes"}
ReadUntil  == {"up", "Readuntil"}
=============================================================================
