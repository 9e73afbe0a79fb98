-------------------------------- MODULE Views --------------------------------
(***************************************************************************)
(* How keys are mapped between the layers of a bucket: Prefixed views      *)
(* (prefixed.go) over S3 with its configured prefix (s3.go) over the       *)
(* service.  A key is the sequence of its bytes; a view is the prefix it   *)
(* puts before every key, <<>> for a bucket that is not prefixed.          *)
(***************************************************************************)
EXTENDS Integers, SequencesExt

CONSTANTS
  Slash,      \* the byte "/"
  S3Prefix,   \* S3Config.Prefix
  MaxKeys     \* the size of the service's pages

ASSUME ViewsAssumption ==
  /\ Slash \in Int
  /\ S3Prefix \in Seq(Int)
  /\ MaxKeys \in Nat \ {0}

Less(s, t) ==
  \/ IsStrictPrefix(s, t)
  \/ \E i \in 1..Len(s) : /\ i <= Len(t) /\ s[i] < t[i]
                          /\ \A j \in 1..(i - 1) : s[j] = t[j]

TrimPrefix(s, p) == IF IsPrefix(p, s) THEN SubSeq(s, Len(p) + 1, Len(s)) ELSE s

(* Prefixed and OpenS3 end a prefix with "/"; "" stays.                    *)
NormalRaw(p) == p   \* mutant: the prefix is taken as it is
Normal(p)    == IF p = <<>> \/ Last(p) = Slash THEN p ELSE Append(p, Slash)

(* Prefixed of a prefixed view is one view with both prefixes.             *)
Prefixed(view, p) == view \o Normal(p)

keyOf(k) == Normal(S3Prefix) \o k
Full(view, k) == view \o k   \* the key below a view
ServiceKey(view, k) == keyOf(Full(view, k))

-----------------------------------------------------------------------------
(* List, from the service upwards: the pages it may return, as sequences   *)
(* of keys.  The service returns the first MaxKeys of what it finds.       *)
ServiceList(keys, prefix, after) ==
  LET found == {k \in keys : IsPrefix(prefix, k) /\ Less(after, k)}
  IN {page \in BoundedSeq(found, MaxKeys) :
        /\ \A i, j \in DOMAIN page : i < j => Less(page[i], page[j])
        /\ \A k \in found \ Range(page) :
             Len(page) = MaxKeys /\ \A i \in DOMAIN page : Less(page[i], k)}

(* startAfter "" is no startAfter, on every layer.                         *)
AfterRaw(prefix, after) == after   \* mutant: not moved below the prefix
After(prefix, after)    == IF after = <<>> THEN after ELSE prefix \o after

Trimmed(page, p) == [i \in DOMAIN page |-> TrimPrefix(page[i], p)]

S3List(keys, prefix, after) ==
  LET p == Normal(S3Prefix)
  IN {Trimmed(page, p) : page \in ServiceList(keys, p \o prefix, After(p, after))}

PrefixedList(view, keys, prefix, after) ==
  {Trimmed(page, view) : page \in S3List(keys, view \o prefix, After(view, after))}
=============================================================================
