------------------------------- MODULE Ranges -------------------------------
(***************************************************************************)
(* The arithmetic of GetRange: which bytes of an object a request (off,    *)
(* len) returns, on the filesystem (fs.go) and on S3 (s3.go).  off and len *)
(* are signed integers of a fixed width, and sums wrap around.             *)
(*                                                                         *)
(* An extent is a record pos, end: the bytes [pos, end) of the object.     *)
(***************************************************************************)
EXTENDS Integers

CONSTANT MaxInt64   \* the largest int64

ASSUME MaxInt64Assumption == MaxInt64 \in Nat

Int64   == (-MaxInt64 - 1)..MaxInt64
Wrap(x) == ((x + MaxInt64 + 1) % (2 * (MaxInt64 + 1))) - MaxInt64 - 1

Smaller(a, b) == IF a < b THEN a ELSE b
Larger(a, b)  == IF a > b THEN a ELSE b

Extent(pos, end) == [pos |-> pos, end |-> Larger(pos, end)]

-----------------------------------------------------------------------------
(* FS.GetRange seeks to start; a limitedFile delivers end - start bytes,   *)
(* none when that is negative.                                             *)
Start(off, size) ==
  Smaller(IF off < 0 THEN Larger(size + off, 0) ELSE off, size)

EndUnclamped(off, len, size) ==   \* mutant: a suffix is not cut to len
  IF len <= 0 \/ off < 0 THEN size ELSE Smaller(Wrap(Start(off, size) + len), size)
End(off, len, size) ==
  IF len <= 0 THEN size ELSE Smaller(Wrap(Start(off, size) + len), size)

FSRange(off, len, size) == Extent(Start(off, size), End(off, len, size))

-----------------------------------------------------------------------------
(* formatRange: the header of S3.GetRange, "-n", "a-" or "a-b".            *)
Header(form, a, b) == [form |-> form, a |-> a, b |-> b]

formatRange(off, len) ==
  IF off < 0 THEN Header("-n", -off, 0)
  ELSE IF len <= 0 THEN Header("a-", off, 0)
  ELSE Header("a-b", off, Wrap(off + len - 1))

(* The service refuses a range that begins after the last byte (416), and  *)
(* cuts one that ends there.                                               *)
Satisfiable(h, size) == IF h.form = "-n" THEN size > 0 ELSE h.a < size

Served(h, size) ==
  IF h.form = "-n" THEN Extent(Larger(size - h.a, 0), size)
  ELSE Extent(h.a, IF h.form = "a-" THEN size ELSE Smaller(h.b + 1, size))

-----------------------------------------------------------------------------
(* docs/SEMANTICS.md: "GetRange returns length bytes beginning at off; a   *)
(* zero length means through the end of the object, and a negative offset  *)
(* is measured from the end."  What the object does not have is left out.  *)
Requested(off, len, size) ==
  LET from == IF off < 0 THEN Larger(size + off, 0) ELSE off
  IN {i \in 0..(size - 1) : i >= from /\ (len > 0 => i < from + len)}
=============================================================================
