-------------------------------- MODULE MCS3 --------------------------------
(* The S3 backend on two keys, a leader and one region.  Conditional puts  *)
(* of head come from two regions; blob is written, deleted and read in     *)
(* one, and its writer has requests sent again.                            *)
EXTENDS S3

MCKeys   == {"head", "blob"}
MCBodies == {<<1>>, <<2>>}
MCSite   == [w |-> "leader", p |-> "far", q |-> "far"]
MCSeat   == [head |-> "leader", blob |-> "far"]

CAS(op, b) == [op : {op}, key : {"head"}, body : {b}, length : {1},
               ifMatch : {IfAbsent} \cup {ETag(d) : d \in MCBodies}]
Plain(b)   == [op : {"Put"}, key : {"blob"}, body : {b}, length : {1},
               ifMatch : {NoMatch}]
On(S, k)   == [op : S, key : {k}]

Disciplined ==
  [w |-> CAS("Put", <<1>>) \cup On({"Stat", "Delete"}, "head"),
   p |-> CAS("PutStream", <<2>>) \cup On({"Get"}, "head")
           \cup On({"GetRange"}, "blob"),
   q |-> Plain(<<1>>) \cup On({"Delete"}, "blob")]

(* Only the SDK of q, which writes without a precondition, sends requests  *)
(* again; or that of p, which writes with one.                             *)
PlainRetry == [w |-> 1, p |-> 1, q |-> 2]
CasRetry   == [w |-> 1, p |-> 2, q |-> 1]

ASSUME Discipline ==
  /\ OneDeleter /\ Seated
  /\ MaxAttempts = PlainRetry => CasOnce
=============================================================================
