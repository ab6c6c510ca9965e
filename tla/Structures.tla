------------------------------ MODULE Structures ----------------------------
(***************************************************************************)
(* The data structures of the library and its blocking readers: lists,     *)
(* hash chains, the map, files, options, blocking connections.  They do    *)
(* not interact.                                                           *)
(***************************************************************************)
EXTENDS Integers, Sequences

CONSTANTS Heads, Entries, NULL,
          Buckets, Nodes,
          Names, Stored, Hash, Objects, MaxItems,
          Slack, FirstSize, Phrases, Patterns, MaxLen, MaxPieces,
          Files, BUF_LEN, MaxBytes, MaxWrites,
          Sections, Keys, Values, MaxLines,
          Streams, Addresses, BUF_SIZE, MaxFailures

\* A text has the bytes "x" and the delimiter "n"; the options before any
\* section are those of "global" (spe_opt.c:94).
ASSUME TextsAssumption ==
  /\ Files \cup Streams \subseteq Seq({"x", "n"})
  /\ {BUF_LEN, BUF_SIZE, MaxBytes, MaxWrites} \subseteq Nat
\* Three kinds of address.
ASSUME AddressAssumption ==
  /\ Heads \cap Entries = {} /\ NULL \notin Heads \cup Entries
  /\ Buckets \cap Nodes = {} /\ NULL \notin Buckets \cup Nodes
\* A cut key is not cut again.
ASSUME MapAssumption ==
  /\ Hash \in [Names -> Buckets] /\ NULL \notin Objects
  /\ \A k \in Names : Stored[k] \in Names => Stored[Stored[k]] = Stored[k]
\* A new string has room for its end; an empty pattern is found everywhere.
ASSUME StringAssumption ==
  /\ {Slack, MaxLen} \subseteq Nat /\ FirstSize \in Nat \ {0}
  /\ Phrases \subseteq Seq(STRING) /\ Patterns \subseteq Seq(STRING) \ {<<>>}
ASSUME OptionsAssumption == "global" \in Sections /\ MaxLines \in Nat

VARIABLES m, rings, stale, c, chains,
  listHead, hashHead, handled, dict,
  str, text, slist, pieces,
  rest, readBuffer, Buffer, rtype, ioClosed, ioError, res, due, writeBuffer, sent,
  file, read, sec, options, optStatus,
  address, open, failures, used, stream, unread, conbBuffer, data, given, conbType, closed,
  error, timeout, conbRes

listVars    == <<m, rings, stale>>
chainVars   == <<c, chains>>
mapVars     == <<listHead, hashHead, handled, dict>>
stringVars  == <<str, text, slist, pieces>>
ioVars      == <<rest, readBuffer, Buffer, rtype, ioClosed, ioError, res, due,
                 writeBuffer, sent>>
optVars     == <<file, read, sec, options, optStatus>>
conbVars    == <<address, open, failures, used, stream, unread, conbBuffer, data, given,
                 conbType, closed, error, timeout, conbRes>>
structureVars == <<listVars, chainVars, mapVars, stringVars, ioVars, optVars, conbVars>>

-----------------------------------------------------------------------------
List == INSTANCE SpeList

Hlist == INSTANCE SpeHlist

Map == INSTANCE SpeMap WITH Keys <- Names

String == INSTANCE SpeString WITH Texts <- Phrases, Keys <- Patterns

Io == INSTANCE SpeIo WITH MaxCount <- MaxBytes, closed <- ioClosed, error <- ioError

Options == INSTANCE SpeOpt WITH status <- optStatus

Conb == INSTANCE SpeConb WITH MaxCount <- MaxBytes,
  rest <- unread, readBuffer <- conbBuffer, rtype <- conbType, res <- conbRes

-----------------------------------------------------------------------------
(* What each part promises; the modules say more. *)

\* spe_list.h:62-702.  Lists and chains are the sequences their calls make.
ListsAreSequences == List!ListsAreSequences /\ Hlist!ChainsAreSequences

\* spe_map.c:14-220.  Under a key that is kept whole the map holds what was set
\* last; a longer key is never found.
MapIsDictionary == Map!MapIsDictionary

\* spe_string.c:10-389.  A string holds the text its calls make, in its memory.
StringsAreSound == String!StringsAreSound

\* spe_io.c:21-105, spe_conb.c:28-209, spe_opt.c:66-152.  However the bytes of a
\* file or a peer come in, they are read in order and each once, the tail at the
\* end of a file too; and look-ups give the first values of the lines read.
BytesAreReadInOrder ==
  Io!ReadsAreInOrder /\ Conb!StreamIsReadInOrder /\ Options!OptionsAreOfFile
=============================================================================
