------------------------------ MODULE MCMetered ------------------------------
(* Views "a/", "a/s/" and "ab/" of one metered bucket, on an S3 with the   *)
(* prefix "m/".  Bytes keep their order: "/" < "a" < "b" < "m" < "s".      *)
EXTENDS Metered

A == 2
B == 3
M == 4
S == 5

MCPrefix == <<M>>
MCPaged  == Prefixed(<<>>, <<A>>)
Nested   == Prefixed(MCPaged, <<S, 1>>)
Beside   == Prefixed(<<>>, <<A, B>>)
MCOpened == {<< <<>>, <<A>> >>, <<MCPaged, <<S, 1>> >>, << <<>>, <<A, B>> >>}

At(k)    == <<M, 1>> \o k
MCStored == At(<<A, 1, S>>) :> 1 @@ At(<<A, 1, S, 1, A>>) :> 2 @@ At(<<A, B, 1, A>>) :> 1
Op(o, v, k, n) == [op |-> o, view |-> v, key |-> k, size |-> n]

MCCalls  ==
  [p |-> {ListCall},
   w |-> {Op("Put", MCPaged, <<A>>, 2), Op("PutStream", Beside, <<S>>, 1),
          Op("Get", Nested, <<A>>, 0), Op("Stat", Beside, <<A>>, 0),
          Op("Delete", Nested, <<A>>, 0)}]
MCMaxCalls == [p |-> 4, w |-> 2]

(* The label of a key is what comes before its first "/".                  *)
FirstName(k) == SelectInSeq(k, LAMBDA b : b = 1)
=============================================================================
