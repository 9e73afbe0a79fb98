---------------------------- MODULE FetchRanged ----------------------------
(***************************************************************************)
(* FetchRangedAt (fetchranged.go): an object at or above the threshold is  *)
(* fetched as concurrent byte ranges written to dst at their offsets; when *)
(* that fails, as a single stream.                                         *)
(*                                                                         *)
(* The object is immutable (its key carries its hash) and its size is what *)
(* Stat reports, so dst is the set of offsets that hold the object's byte. *)
(* The bucket's calls are external: they may fail, and one that was given  *)
(* a context may notice, or not, that it has ended.                        *)
(***************************************************************************)
EXTENDS FetchOpts, FiniteSets

VARIABLES
  pc,         \* where FetchRangedAt is
  ctx,        \* the caller's context has ended
  fctx,       \* the context of the parts has ended
  off,        \* the loop's offset
  sem,        \* the tokens in the semaphore
  part,       \* where the goroutine of each part is
  got,        \* the bytes each part has copied
  perr,       \* the error of each part
  firstErr,
  written,    \* the offsets of dst that have been written
  at,         \* the position of the single stream
  result      \* the error FetchRangedAt returns

fetch == <<off, sem, firstErr>>
parts == <<part, got, perr>>
vars  == <<pc, ctx, fctx, fetch, parts, written, at, result>>

(* The parts, by the offsets they start at.                                *)
Offsets == {o \in 0..(Size - 1) : o % PartSize = 0}
PartLenFull(o) == PartSize   \* mutant: no min(PartSize, size-off)
PartLen(o) == IF PartSize < Size - o THEN PartSize ELSE Size - o

Init ==
  /\ pc = "stat"
  /\ ctx = FALSE
  /\ fctx = FALSE
  /\ off = 0
  /\ sem = 0
  /\ part = [o \in Offsets |-> "none"]
  /\ got = [o \in Offsets |-> 0]
  /\ perr = [o \in Offsets |-> "nil"]
  /\ firstErr = "nil"
  /\ written = {}
  /\ at = 0
  /\ result = "none"

Returns(e) == pc' = "done" /\ result' = e

(* The caller ends its context; the derived context ends with it.          *)
Cancel ==
  /\ ~ctx
  /\ pc # "done"
  /\ ctx' = TRUE
  /\ fctx' = TRUE
  /\ UNCHANGED <<pc, fetch, parts, written, at, result>>

Stat ==
  /\ pc = "stat"
  /\ \/ \E e \in Errors : MayFail(e, ctx) /\ Returns(e)
     \/ /\ pc' = IF Size < Threshold THEN "single" ELSE "select"
        /\ UNCHANGED result
  /\ UNCHANGED <<ctx, fctx, fetch, parts, written, at>>

-----------------------------------------------------------------------------
(* fetchParts.  The loop takes a token or learns that fctx has ended; a    *)
(* select with both cases ready picks either.                              *)
SelectOneMore ==   \* mutant: one token too many
  /\ pc = "select"
  /\ off < Size
  /\ \/ sem <= Concurrency /\ sem' = sem + 1
     \/ fctx /\ UNCHANGED sem
  /\ pc' = "launch"
  /\ UNCHANGED <<ctx, fctx, off, firstErr, parts, written, at, result>>

Select ==
  /\ pc = "select"
  /\ off < Size
  /\ \/ sem < Concurrency /\ sem' = sem + 1
     \/ fctx /\ UNCHANGED sem
  /\ pc' = "launch"
  /\ UNCHANGED <<ctx, fctx, off, firstErr, parts, written, at, result>>

(* ... checks fctx again, and starts the part's goroutine.                 *)
Launch ==
  /\ pc = "launch"
  /\ \/ /\ fctx
        /\ pc' = "wait"
        /\ UNCHANGED <<off, part>>
     \/ /\ ~fctx
        /\ part' = [part EXCEPT ![off] = "get"]
        /\ off' = off + PartSize
        /\ pc' = "select"
  /\ UNCHANGED <<ctx, fctx, sem, firstErr, got, perr, written, at, result>>

LoopEnds ==
  /\ pc = "select"
  /\ off >= Size
  /\ pc' = "wait"
  /\ UNCHANGED <<ctx, fctx, fetch, parts, written, at, result>>

(* fetchOnePart: GetRange, then io.Copy, which may stop short.             *)
PartFails(o) ==
  \E e \in Errors : /\ MayFail(e, fctx)
                    /\ perr' = [perr EXCEPT ![o] = e]
                    /\ part' = [part EXCEPT ![o] = "fail"]

GetRange(o) ==
  /\ part[o] = "get"
  /\ \/ PartFails(o)
     \/ part' = [part EXCEPT ![o] = "copy"] /\ UNCHANGED perr
  /\ UNCHANGED <<pc, ctx, fctx, fetch, got, written, at, result>>

CopyByte(o) ==
  /\ part[o] = "copy"
  /\ got[o] < PartLen(o)
  /\ written' = written \cup {o + got[o]}
  /\ got' = [got EXCEPT ![o] = @ + 1]
  /\ UNCHANGED <<pc, ctx, fctx, fetch, part, perr, at, result>>

CopyEndsShort(o) ==   \* mutant: n is not compared with ln
  /\ part[o] = "copy"
  /\ part' = [part EXCEPT ![o] = "release"]
  /\ UNCHANGED <<pc, ctx, fctx, fetch, got, perr, written, at, result>>

CopyEnds(o) ==
  /\ part[o] = "copy"
  /\ \/ PartFails(o)
     \/ /\ got[o] = PartLen(o)
        /\ part' = [part EXCEPT ![o] = "release"]
        /\ UNCHANGED perr
  /\ UNCHANGED <<pc, ctx, fctx, fetch, got, written, at, result>>

(* A body longer than the part goes on over the bytes that follow it, with *)
(* whatever it holds; n # ln is found out at its end.                      *)
CopyBeyond(o) ==
  /\ part[o] = "copy"
  /\ got[o] = PartLen(o)
  /\ \E S \in SUBSET ((o + PartLen(o))..(Size - 1)) : written' = written \ S
  /\ perr' = [perr EXCEPT ![o] = "io"]
  /\ part' = [part EXCEPT ![o] = "fail"]
  /\ UNCHANGED <<pc, ctx, fctx, fetch, got, at, result>>

(* fail: the first error is kept, then the other parts are cancelled.      *)
FailLast(o) ==   \* mutant: the last error is kept
  /\ part[o] = "fail"
  /\ firstErr' = perr[o]
  /\ part' = [part EXCEPT ![o] = "cancel"]
  /\ UNCHANGED <<pc, ctx, fctx, off, sem, got, perr, written, at, result>>

Fail(o) ==
  /\ part[o] = "fail"
  /\ firstErr' = IF firstErr = "nil" THEN perr[o] ELSE firstErr
  /\ part' = [part EXCEPT ![o] = "cancel"]
  /\ UNCHANGED <<pc, ctx, fctx, off, sem, got, perr, written, at, result>>

FailCancels(o) ==
  /\ part[o] = "cancel"
  /\ fctx' = TRUE
  /\ part' = [part EXCEPT ![o] = "release"]
  /\ UNCHANGED <<pc, ctx, fetch, got, perr, written, at, result>>

(* The deferred release of the token, and wg.Done.                         *)
ReleaseForgotten(o) ==   \* mutant: the token is not given back
  /\ part[o] = "release"
  /\ part' = [part EXCEPT ![o] = "ended"]
  /\ UNCHANGED <<pc, ctx, fctx, fetch, got, perr, written, at, result>>

Release(o) ==
  /\ part[o] = "release"
  /\ sem' = sem - 1
  /\ part' = [part EXCEPT ![o] = "ended"]
  /\ UNCHANGED <<pc, ctx, fctx, off, firstErr, got, perr, written, at, result>>

Running == {o \in Offsets : part[o] \notin {"none", "ended"}}

(* wg.Wait; then FetchRangedAt returns, or degrades to the single stream.  *)
DecideOn(e) ==
  IF e \in {"nil", "ErrNotFound"} \/ ctx
  THEN Returns(e)
  ELSE pc' = "single" /\ UNCHANGED result

WaitNot ==   \* mutant: no wg.Wait after a failure
  /\ pc = "wait"
  /\ Running = {} \/ fctx
  /\ DecideOn(firstErr)
  /\ fctx' = TRUE
  /\ UNCHANGED <<ctx, fetch, parts, written, at>>

Wait ==
  /\ pc = "wait"
  /\ Running = {}
  /\ DecideOn(firstErr)
  /\ fctx' = TRUE
  /\ UNCHANGED <<ctx, fetch, parts, written, at>>

-----------------------------------------------------------------------------
(* fetchSingle runs under the caller's context, not the parts'.            *)
SingleGet ==
  /\ pc = "single"
  /\ \/ \E e \in Errors : MayFail(e, ctx) /\ Returns(e)
     \/ pc' = "stream" /\ UNCHANGED result
  /\ UNCHANGED <<ctx, fctx, fetch, parts, written, at>>

SingleByte ==
  /\ pc = "stream"
  /\ at < Size
  /\ written' = written \cup {at}
  /\ at' = at + 1
  /\ UNCHANGED <<pc, ctx, fctx, fetch, parts, result>>

SingleEnds ==
  /\ pc = "stream"
  /\ \/ \E e \in Errors \ {"ErrNotFound"} : MayFail(e, ctx) /\ Returns(e)
     \/ at = Size /\ Returns("nil")
  /\ UNCHANGED <<ctx, fctx, fetch, parts, written, at>>

(* FetchRangedAt has returned and no goroutine of it is left.              *)
Ended ==
  /\ pc = "done"
  /\ Running = {}
  /\ UNCHANGED vars

-----------------------------------------------------------------------------
Main    == Stat \/ Select \/ Launch \/ LoopEnds \/ Wait
           \/ SingleGet \/ SingleByte \/ SingleEnds
Part(o) == \/ GetRange(o) \/ CopyByte(o) \/ CopyEnds(o) \/ CopyBeyond(o)
           \/ Fail(o) \/ FailCancels(o) \/ Release(o)

Next == Cancel \/ Main \/ (\E o \in Offsets : Part(o)) \/ Ended

Spec == Init /\ [][Next]_vars

(* The goroutines run, and the bucket's calls and bodies end.  Nobody has  *)
(* to end the context.                                                     *)
Fairness == WF_vars(Main) /\ \A o \in Offsets : WF_vars(Part(o))

-----------------------------------------------------------------------------
(* Every variable has a value of its type (fetchParts).                    *)
TypeOK ==
  /\ pc \in {"stat", "select", "launch", "wait", "single", "stream", "done"}
  /\ ctx \in BOOLEAN
  /\ fctx \in BOOLEAN
  /\ off \in Nat
  /\ sem \in Nat
  /\ part \in [Offsets -> {"none", "get", "copy", "fail", "cancel", "release",
                           "ended"}]
  /\ got \in [Offsets -> 0..PartSize]
  /\ perr \in [Offsets -> Errors \cup {"nil"}]
  /\ firstErr \in Errors \cup {"nil"}
  /\ written \subseteq 0..(Size - 1)
  /\ at \in 0..Size
  /\ result \in Errors \cup {"nil", "none"}

(***************************************************************************)
(* A fetch that reports success has written every byte of the object,      *)
(* unless the caller ended its context meanwhile (fetchranged.go:98, 126). *)
(***************************************************************************)
SuccessIsComplete ==
  (result = "nil" /\ ~ctx) => written = 0..(Size - 1)

(***************************************************************************)
(* fetchranged.go:34: "FetchRangedAt downloads key into dst".  A fetch     *)
(* that reports success has written every byte of the object.              *)
(***************************************************************************)
SuccessMeansDownloaded == result = "nil" => written = 0..(Size - 1)

(***************************************************************************)
(* The error that decides about degrading is the one that came first, not  *)
(* a cancellation it caused in the other parts: a context error is only    *)
(* kept, or returned, when the caller's own context has ended.             *)
(***************************************************************************)
RootCause ==
  /\ firstErr = "ctx" => ctx
  /\ result = "ctx" => ctx

(***************************************************************************)
(* No part writes to dst once the single stream does, or the caller has    *)
(* dst back (wg.Wait, fetchranged.go:110).                                 *)
(***************************************************************************)
NoStragglers == pc \in {"single", "stream", "done"} => Running = {}

(***************************************************************************)
(* At most Concurrency parts are under way (fetchranged.go:18, 79, 104).   *)
(***************************************************************************)
BoundedParts == Cardinality(Running) <= Concurrency

(***************************************************************************)
(* FetchRangedAt returns, whatever parts fail and in whichever order, and  *)
(* whenever the context ends.                                              *)
(***************************************************************************)
FetchReturns == <>(pc = "done")
============================================================================
