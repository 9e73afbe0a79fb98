-------------------------------- MODULE MCFS --------------------------------
(* Small instances of FS: who calls what on which keys.                    *)
EXTENDS FSProperties, TLC

CONSTANTS w1, w2, p1, i1, i2

b1 == <<1>>
b2 == <<2, 2>>

(* The coordination object, a content-addressed object in a directory, two *)
(* keys keyPath refuses, and keys of which one is a directory of another.  *)
head == <<"head">>
blob == <<"d", "blob">>
bad  == <<"d", "">>
dots == <<"d..1">>
up   == <<"a">>
deep == <<"a", "b", "c">>

Put(k, b, m)  == [op |-> "Put", key |-> k, body |-> b, length |-> Len(b),
                  ifMatch |-> m]
Stream(k, b, m) == [op |-> "PutStream", key |-> k, body |-> b, length |-> -1,
                    ifMatch |-> m]
Short(k, b)   == [op |-> "Put", key |-> k, body |-> b, length |-> Len(b) + 1,
                  ifMatch |-> NoMatch]
Key(op, k)    == [op |-> op, key |-> k]

MCBodies == {b1, b2}
Two      == {w1, w2}
Three    == {w1, w2, p1}
Shared   == {i1}
Separate == {i1, i2}

HomeTwo   == (w1 :> i1) @@ (w2 :> i1)
HomeThree == (w1 :> i1) @@ (w2 :> i1) @@ (p1 :> i2)

-----------------------------------------------------------------------------
(* Disciplined use.  w1 and w2 share an FS value and swap head; p1 has one *)
(* of its own.  All of them create, read or delete the same blob.          *)
PlainKeySet == {head, blob}
PlainCalls ==
  (w1 :> {Put(head, b1, IfAbsent), Put(head, b2, ETag(b1)), Put(blob, b1, IfAbsent)})
  @@ (w2 :> {Put(head, b2, ETag(b1)), Stream(head, b1, ETag(b2)), Key("Delete", blob)})
  @@ (p1 :> {Stream(blob, b1, IfAbsent), Key("Get", blob), Key("GetRange", head), Key("Stat", blob)})

(* Keys of which one is a directory of another, two levels of directories, *)
(* bodies of the wrong length, every operation.                            *)
NestedKeySet == {up, deep, bad, dots}
NestedCalls ==
  (w1 :> {Put(up, b1, NoMatch), Put(up, b1, IfAbsent), Put(up, b1, ETag(b1)),
          Short(up, b1), Put(deep, b1, NoMatch), Key("Delete", bad), Key("Stat", dots),
          Key("Get", up), Key("Stat", up), Key("GetRange", up), Key("Delete", up)})
  @@ (w2 :> {Put(deep, b1, NoMatch), Put(deep, b1, IfAbsent), Put(deep, b1, ETag(b1)),
             Key("Get", deep), Key("Stat", deep), Key("GetRange", deep),
             Key("Delete", deep)})

-----------------------------------------------------------------------------
(* A compare-and-swap of head beside a Delete through the same FS value.   *)
DeleteCalls ==
  (w1 :> {Put(head, b1, NoMatch), Put(head, b2, ETag(b1))})
  @@ (w2 :> {Key("Delete", head)})
HeadOnly == {head}
=============================================================================
