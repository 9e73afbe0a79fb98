----------------------------- MODULE MCHealing -----------------------------
(* Small instances of Healing: what is read, and what goes wrong.          *)
EXTENDS Healing

OneVersion  == <<3>>
TwoVersions == <<3, 2>>

Get(v)         == [via |-> v, op |-> "Get", off |-> 0, len |-> 0]
Range(v, o, l) == [via |-> v, op |-> "GetRange", off |-> o, len |-> l]

(* Whole objects, ranges from the start, into the end, beyond it and far   *)
(* beyond it, and suffixes the object has.  S3 takes no length with a      *)
(* suffix.                                                                 *)
Reads ==
  UNION {{Get(v), Range(v, 0, 2), Range(v, 1, 5), Range(v, 2, 0), Range(v, -2, 0)}
           : v \in {"FS", "S3"}}
  \cup {Range("FS", 1, 2), Range("FS", -3, 2), Range("FS", 1, MaxInt64)}
Suffixes == {Range("FS", -5, 0)}   \* more than the object has

Broken == {"error", "short", "stall", "call", "cancel", "replace"}
Errors == {"error"}

(* All of this but the long suffix can be resumed.                         *)
ASSUME ReadsResume == (Requests = Reads /\ Faults = Broken) => Resumable
============================================================================
