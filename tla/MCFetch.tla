------------------------------ MODULE MCFetch ------------------------------
(***************************************************************************)
(* A caller downloads an object with FetchReader or with FetchRangedAt.    *)
(* Whichever it does not use rests: a reader that was closed before it had *)
(* begun, or a fetch whose Stat has failed.                                *)
(***************************************************************************)
EXTENDS FetchReader

(* The state of FetchRangedAt.                                             *)
VARIABLES fpc, fcaller, fctx, foff, fsem, fpart, got, fperr, firstErr, written, at, result

fvars == <<fpc, fcaller, fctx, foff, fsem, fpart, got, fperr, firstErr, written, at, result>>

(* The object FetchRangedAt downloads has three parts, the last one short. *)
FileSize == 5

Ranged == INSTANCE FetchRanged WITH
  Size <- FileSize, pc <- fpc, ctx <- fcaller, off <- foff, sem <- fsem, part <- fpart,
  perr <- fperr

ReaderRests ==
  /\ ctx = TRUE /\ rctx = TRUE /\ prod = "closed" /\ off = 0 /\ slots = <<>> /\ sem = 0
  /\ part = [o \in Offsets |-> "none"] /\ perr = [o \in Offsets |-> "nil"]
  /\ pc = "idle" /\ slot = 0 /\ cur = <<0, 0>> /\ fellBack = -1 /\ closed = TRUE
  /\ delivered = <<>> /\ last = "data"

RangedRests ==
  /\ fpc = "done" /\ fcaller = FALSE /\ fctx = FALSE /\ foff = 0 /\ fsem = 0
  /\ fpart = [o \in Ranged!Offsets |-> "none"] /\ got = [o \in Ranged!Offsets |-> 0]
  /\ fperr = [o \in Ranged!Offsets |-> "nil"] /\ firstErr = "nil"
  /\ written = {} /\ at = 0 /\ result = "io"

FetchSpec ==
  /\ (Init /\ RangedRests) \/ (Ranged!Init /\ ReaderRests)
  /\ [][(Next /\ UNCHANGED fvars) \/ (Ranged!Next /\ UNCHANGED vars)]_<<vars, fvars>>
  /\ Fairness /\ Ranged!Fairness

-----------------------------------------------------------------------------
(* The properties of FetchRanged.                                          *)

(* Every variable has a value of its type (fetchParts).                    *)
RangedTypeOK == Ranged!TypeOK

(* A fetch that reports success has written every byte of the object,      *)
(* unless the caller ended its context (fetchranged.go:98, 126).           *)
SuccessIsComplete == Ranged!SuccessIsComplete

(* The first error is a cause and not a consequence (fetchParts' fail).    *)
RootCause == Ranged!RootCause

(* No part writes to dst beside the single stream or the caller.           *)
NoStragglers == Ranged!NoStragglers

(* At most Concurrency parts are under way (fetchranged.go:79, 104).       *)
BoundedParts == Ranged!BoundedParts

(* FetchRangedAt returns, whatever fails and whenever the context ends.    *)
FetchReturns == Ranged!FetchReturns
============================================================================
