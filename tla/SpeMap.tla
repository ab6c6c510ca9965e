-------------------------------- MODULE SpeMap -------------------------------
(***************************************************************************)
(* The hash map of src/spe/spe_map.c.  An item is in the chain of a bucket *)
(* and in the list of all items; chains and list are the sequences that    *)
(* SpeHlist and SpeList show them to be.  An item keeps only the first 15  *)
(* bytes of its key, and is looked for under the whole key.                *)
(***************************************************************************)
EXTENDS Integers, SequencesExt, FiniteSetsExt

CONSTANTS Keys,         \* the keys the program uses
          Stored,       \* what an item keeps of each; kept whole if it is a key
          Buckets, Hash,  \* the bucket of each key
          Objects, NULL,
          MaxItems      \* bound: items in the map

VARIABLES listHead, hashHead,
          handled,      \* the objects the handler was called for last
          dict          \* what the program has under each key that is kept whole

vars == <<listHead, hashHead, handled, dict>>

Items == [key : {Stored[k] : k \in Keys}, obj : Objects]
Whole == {k \in Keys : Stored[k] = k}

TypeOK ==
  /\ listHead \in Seq(Items) /\ hashHead \in [Buckets -> Seq(Items)]
  /\ handled \in Seq(Objects) /\ dict \in [Whole -> Objects \cup {NULL}]

\* SpeMapCreate
Init ==
  /\ listHead = <<>> /\ hashHead = [b \in Buckets |-> <<>>]
  /\ handled = <<>> /\ dict = [k \in Whole |-> NULL]

-----------------------------------------------------------------------------
NoItem == [key |-> NULL, obj |-> NULL]

\* The first of the chain whose key is the one asked for.
speMapSearch(k) ==
  LET chain == hashHead[Hash[k]]
      found == {i \in DOMAIN chain : chain[i].key = k}
  IN  IF found = {} THEN NoItem ELSE chain[Min(found)]

SpeMapGet(k) == speMapSearch(k).obj

speMapItemCreate(k, obj) == [key |-> Stored[k], obj |-> obj]

\* Faulty variant: the key is not looked for first.
SpeMapSetBlind(k, obj) ==
  /\ listHead' = Append(listHead, speMapItemCreate(k, obj))
  /\ hashHead' = [hashHead EXCEPT ![Hash[k]] = <<speMapItemCreate(k, obj)>> \o @]
  /\ handled' = <<>>

\* SPE_MAP_CONFLICT changes nothing.
SpeMapSet(k, obj) ==
  /\ speMapSearch(k) = NoItem
  /\ listHead' = Append(listHead, speMapItemCreate(k, obj))
  /\ hashHead' = [hashHead EXCEPT ![Hash[k]] = <<speMapItemCreate(k, obj)>> \o @]
  /\ handled' = <<>>

Without(s, item) ==
  IF Contains(s, item) THEN RemoveAt(s, CHOOSE i \in 1..Len(s) : s[i] = item) ELSE s

speMapItemDestroy(item) ==
  /\ listHead' = Without(listHead, item)
  /\ hashHead' = [b \in Buckets |-> Without(hashHead[b], item)]
  /\ handled' = <<item.obj>>

SpeMapDel(k) ==
  /\ speMapSearch(k) # NoItem
  /\ speMapItemDestroy(speMapSearch(k))

\* Bucket by bucket.
SpeMapClean ==
  /\ listHead' = <<>> /\ hashHead' = [b \in Buckets |-> <<>>]
  /\ handled' = FlattenSeq([i \in 1..Cardinality(Buckets) |->
                  LET chain == hashHead[SetToSeq(Buckets)[i]]
                  IN  [j \in DOMAIN chain |-> chain[j].obj]])

SpeMapNext(item) ==
  LET at == IF item = NoItem THEN 0 ELSE CHOOSE i \in DOMAIN listHead : listHead[i] = item
  IN  IF at = Len(listHead) THEN NoItem ELSE listHead[at + 1]

-----------------------------------------------------------------------------
(* The program: an object is in the map once *)

Set(k, obj) ==
  /\ Len(listHead) < MaxItems /\ \A i \in DOMAIN listHead : listHead[i].obj # obj
  /\ SpeMapSet(k, obj)
  /\ dict' = IF k \in Whole THEN [dict EXCEPT ![k] = obj] ELSE dict

Del(k) ==
  /\ SpeMapDel(k)
  /\ dict' = IF k \in Whole THEN [dict EXCEPT ![k] = NULL] ELSE dict

Clean == SpeMapClean /\ dict' = [k \in Whole |-> NULL]

Next == Clean \/ \E k \in Keys : Del(k) \/ \E obj \in Objects : Set(k, obj)

Spec == Init /\ [][Next]_vars

-----------------------------------------------------------------------------
\* A longer key that keeps k and hashes to its bucket is found as k.
Alias(k) == \E l \in Keys \ Whole : Stored[l] = k /\ Hash[l] = Hash[k]

\* spe_map.c:14-220.  Under a key that is kept whole the map holds what was set
\* last and not deleted since, once; a longer key is never found; the list has
\* the items of the chains once, each in one bucket, and SpeMapNext goes
\* through them all; and an object the handler was called for is in no item.
MapIsDictionary ==
  /\ \A k \in Whole : ~ Alias(k) =>
       /\ SpeMapGet(k) = dict[k]
       /\ \A i, j \in DOMAIN hashHead[Hash[k]] :
            hashHead[Hash[k]][i].key = k /\ hashHead[Hash[k]][j].key = k => i = j
  /\ \A k \in Keys \ Whole : SpeMapGet(k) = NULL
  /\ IsInjective(listHead) /\ Range(listHead) = UNION {Range(hashHead[b]) : b \in Buckets}
  /\ \A a, b \in Buckets : /\ IsInjective(hashHead[b])
                           /\ a # b => Range(hashHead[a]) \cap Range(hashHead[b]) = {}
  /\ \A i \in DOMAIN listHead :
       /\ SpeMapNext(listHead[i]) = IF i = Len(listHead) THEN NoItem ELSE listHead[i + 1]
       /\ ~ Contains(handled, listHead[i].obj)
=============================================================================
