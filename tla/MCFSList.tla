------------------------------ MODULE MCFSList ------------------------------
(* FS.List on keys in an order the walk does not have: "a.x" < "a/b", but  *)
(* the directory "a" comes before the file "a.x"; and a key with the name  *)
(* of a temp file.                                                         *)
EXTENDS FSList

ab == <<"a", "b">>
ax == <<"a.x">>
ay == <<"a.y">>
at == <<"a.tmp.1">>

MCKeys      == {ab, ax, ay, at}
MCKeyOrder  == <<at, ax, ay, ab>>
MCNameOrder == <<"a", "a.tmp.1", "a.x", "a.y", "b">>
MCPrefixes  == {{ax, ab, ay, at}}
MCBodies    == {<<1>>, <<2>>}

Put(k, b)   == [op |-> "Put", key |-> k, body |-> b, length |-> 1, ifMatch |-> NoMatch]
Delete(k)   == [op |-> "Delete", key |-> k]

MCCalls == [w |-> {Put(ab, <<1>>), Put(ax, <<1>>), Put(ax, <<2>>), Put(ay, <<1>>), Put(at, <<1>>)},
            d |-> {Delete(ab)}]
MCHome  == [w |-> "fs", d |-> "fs"]

(* The bound: while an enumeration goes on, MaxCalls other calls begin,    *)
(* and none is under way before.  (One that was has the steps of one that  *)
(* begins before the first directory is read.)                             *)
CONSTANT MaxCalls
VARIABLE calls

Begins == {c \in Clients : pc[c] = "idle" /\ pc'[c] # "idle"}

MCInit == LInit /\ calls = 0
MCNext == /\ LNext
          /\ calls' = IF lpc' = "idle" THEN 0 ELSE calls + Cardinality(Begins)
          /\ calls' <= MaxCalls
          /\ lpc = "idle" /\ lpc' # "idle" => \A c \in Clients : pc[c] = "idle"

MCSpec == MCInit /\ [][MCNext]_<<lvars, calls>>
=============================================================================
