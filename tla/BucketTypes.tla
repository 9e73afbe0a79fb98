---------------------------- MODULE BucketTypes ----------------------------
(***************************************************************************)
(* The vocabulary of the Bucket interface (bucket.go): keys, bodies,       *)
(* entity tags, preconditions, calls and their responses.  Shared by the   *)
(* contract (Bucket) and by the backends that implement it.                *)
(*                                                                         *)
(* A body is a finite sequence of bytes.  A key is the sequence of its     *)
(* "/"-separated segments; Absent is the content of a key that has no      *)
(* object.                                                                 *)
(***************************************************************************)
EXTENDS Integers, Sequences

CONSTANTS
  Clients,   \* the goroutines that call the bucket
  Keys,      \* the keys they use
  Bodies,    \* the object contents they write
  Calls,     \* Calls[c]: the calls client c may make
  Absent     \* the content of a key with no object

(***************************************************************************)
(* Entity tags and preconditions.  An entity tag is an opaque value that   *)
(* equal bodies share and different bodies do not (sha256 of the body in   *)
(* fs.go).  ifMatch is a *string: nil, a pointer to "" (IfAbsent), or a    *)
(* pointer to an entity tag.                                               *)
(***************************************************************************)
ETag(b)  == <<"sha256", b>>
ETags    == {ETag(b) : b \in Bodies}
NoTag    == <<>>
NoMatch  == <<"nil">>
IfAbsent == <<"">>
Preconds == ETags \cup {NoMatch, IfAbsent}

Writes  == {"Put", "PutStream"}
Reads   == {"Get", "GetRange", "Stat"}

PutCall  == [op : Writes, key : Keys, body : Bodies, length : Int,
             ifMatch : Preconds]
KeyCall  == [op : Reads \cup {"Delete"}, key : Keys]
Call     == PutCall \cup KeyCall
NoCall   == [op |-> "none"]

(***************************************************************************)
(* A response.  err is the error the method returns: ErrNotFound,          *)
(* ErrPreconditionFailed, the context's error, a refused key, a failing    *)
(* body reader (short or long bodies included), or another storage error;  *)
(* "status" is a definite answer of a service that the method does not     *)
(* translate, an error the contract knows nothing of.                      *)
(***************************************************************************)
Errs     == {"nil", "ErrNotFound", "ErrPreconditionFailed", "ctx", "key",
             "body", "io", "status"}
Response == [err : Errs, etag : ETags \cup {NoTag},
             body : Bodies \cup {Absent}, size : Nat]
Blank    == [err |-> "nil", etag |-> NoTag, body |-> Absent, size |-> 0]
Fail(e)  == [Blank EXCEPT !.err = e]

ASSUME CallsAssumption ==
  /\ Calls \in [Clients -> SUBSET Call]
  /\ Bodies \subseteq Seq(Int)
  /\ Absent \notin Bodies \cup {<<>>}
=============================================================================
