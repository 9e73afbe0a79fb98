----------------------------- MODULE FetchOpts -----------------------------
(***************************************************************************)
(* What FetchRangedAt and FetchReader share (fetchranged.go): the options, *)
(* after withDefaults, and the errors of the bucket's calls.               *)
(***************************************************************************)
EXTENDS Integers

CONSTANTS
  Size,         \* the size of the object
  Threshold,    \* objects below it are fetched as a single stream
  PartSize,
  Concurrency

ASSUME OptsAssumption ==
  /\ Size \in Nat
  /\ Threshold \in Nat \ {0}
  /\ PartSize \in Nat \ {0}
  /\ Concurrency \in Nat \ {0}

(* The errors of the bucket's calls; "io" stands for any error but these,  *)
(* a body of the wrong length among them.                                  *)
Errors == {"ErrNotFound", "ctx", "io"}

(* An error a call that runs under a context may return.                   *)
MayFail(e, ended) == e \in Errors /\ (e = "ctx" => ended)
============================================================================
