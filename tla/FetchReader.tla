---------------------------- MODULE FetchReader ----------------------------
(***************************************************************************)
(* FetchReader's orderedReader (fetchranged.go): a producer emits one slot *)
(* per part into a bounded channel and starts a goroutine that fills it;   *)
(* Read takes the slots in order.  Before anything has been delivered, a   *)
(* failed part makes Read degrade to a single stream.                      *)
(*                                                                         *)
(* The object is immutable and its size is what Stat reports.  A byte is   *)
(* its offset, so what Read delivers is a sequence of offsets.             *)
(***************************************************************************)
EXTENDS FetchOpts, Sequences, FiniteSets

(* Below the threshold FetchReader returns the body of a Get.              *)
ASSUME SizeAssumption == Size >= Threshold

VARIABLES
  ctx,         \* the caller's context (r.parent) has ended
  rctx,        \* the reader's context (r.ctx) has ended
  prod,        \* where produce is
  off,         \* its loop's offset
  slots,       \* the channel r.slots: the offsets of the parts in it
  sem,         \* the tokens in the semaphore
  part,        \* where the goroutine of each part is
  perr,        \* the error of each part
  pc,          \* where Read is
  slot,        \* the offset of the part Read waits for
  cur,         \* r.cur: <<from, to>>, what is left to read of its part
  fellBack,    \* r.fellBack: the position of the single stream, or -1
  closed,
  delivered,   \* the bytes Read has returned so far
  last         \* what Read returned last: "data", "EOF" or an error

producer == <<prod, off>>
reader   == <<pc, slot, cur, fellBack, closed, delivered, last>>
vars     == <<ctx, rctx, producer, slots, sem, part, perr, reader>>

(* The parts, by the offsets they start at.                                *)
Offsets == {o \in 0..(Size - 1) : o % PartSize = 0}

PartEndFull(o) == o + PartSize   \* mutant: no min(PartSize, size-off)
PartEnd(o)     == IF PartSize < Size - o THEN o + PartSize ELSE Size

consumed == Len(delivered)

(* The offsets from a up to but not including b.                           *)
Bytes(a, b) == [i \in 1..(b - a) |-> a + i - 1]

Init ==
  /\ ctx = FALSE
  /\ rctx = FALSE
  /\ prod = "offer"
  /\ off = 0
  /\ slots = <<>>
  /\ sem = 0
  /\ part = [o \in Offsets |-> "none"]
  /\ perr = [o \in Offsets |-> "nil"]
  /\ pc = "idle"
  /\ slot = 0
  /\ cur = <<0, 0>>
  /\ fellBack = -1
  /\ closed = FALSE
  /\ delivered = <<>>
  /\ last = "data"

(* The caller ends its context; the reader's context ends with it.         *)
Cancel ==
  /\ ~ctx
  /\ ctx' = TRUE
  /\ rctx' = TRUE
  /\ UNCHANGED <<producer, slots, sem, part, perr, reader>>

-----------------------------------------------------------------------------
(* produce: emit a slot, take a token, start the goroutine.  Both selects  *)
(* give up when r.ctx has ended; returning closes r.slots.                 *)
OfferUnbounded ==   \* mutant: the channel has no bound
  /\ prod = "offer"
  /\ off < Size
  /\ slots' = Append(slots, off)
  /\ prod' = "acquire"
  /\ UNCHANGED <<ctx, rctx, off, sem, part, perr, reader>>

Offer ==
  /\ prod = "offer"
  /\ off < Size
  /\ Len(slots) < Concurrency
  /\ slots' = Append(slots, off)
  /\ prod' = "acquire"
  /\ UNCHANGED <<ctx, rctx, off, sem, part, perr, reader>>

Acquire ==
  /\ prod = "acquire"
  /\ sem < Concurrency
  /\ sem' = sem + 1
  /\ part' = [part EXCEPT ![off] = "get"]
  /\ off' = off + PartSize
  /\ prod' = "offer"
  /\ UNCHANGED <<ctx, rctx, slots, perr, reader>>

ProduceEndsEarly ==   \* mutant: the last, short part is skipped
  /\ \/ prod = "offer" /\ off + PartSize > Size
     \/ prod \in {"offer", "acquire"} /\ rctx
  /\ prod' = "closed"
  /\ UNCHANGED <<ctx, rctx, off, slots, sem, part, perr, reader>>

ProduceEnds ==
  /\ \/ prod = "offer" /\ off >= Size
     \/ prod \in {"offer", "acquire"} /\ rctx
  /\ prod' = "closed"
  /\ UNCHANGED <<ctx, rctx, off, slots, sem, part, perr, reader>>

(* fetchPart: GetRange, then io.ReadFull into a buffer of the part's size. *)
(* Sending the result never blocks: the slot has room for it.              *)
GetRange(o) ==
  /\ part[o] = "get"
  /\ part' = [part EXCEPT ![o] = "read"]
  /\ UNCHANGED <<ctx, rctx, producer, slots, sem, perr, reader>>

PartFails(o) ==
  /\ part[o] \in {"get", "read"}
  /\ \E e \in Errors : MayFail(e, rctx) /\ perr' = [perr EXCEPT ![o] = e]
  /\ part' = [part EXCEPT ![o] = "sent"]
  /\ UNCHANGED <<ctx, rctx, producer, slots, sem, reader>>

ReadFull(o) ==
  /\ part[o] = "read"
  /\ part' = [part EXCEPT ![o] = "sent"]
  /\ UNCHANGED <<ctx, rctx, producer, slots, sem, perr, reader>>

Release(o) ==
  /\ part[o] = "sent"
  /\ sem' = sem - 1
  /\ part' = [part EXCEPT ![o] = "ended"]
  /\ UNCHANGED <<ctx, rctx, producer, slots, perr, reader>>

-----------------------------------------------------------------------------
(* Read.  The caller stops reading at the first error or EOF.              *)
Returns(l) == pc' = "idle" /\ last' = l

Read ==
  /\ pc = "idle"
  /\ last = "data"
  /\ ~closed
  /\ pc' = IF fellBack >= 0 THEN "stream"
           ELSE IF cur[1] = cur[2] THEN "next" ELSE "copy"
  /\ UNCHANGED <<ctx, rctx, producer, slots, sem, part, perr, slot, cur,
                 fellBack, closed, delivered, last>>

(* Receive the next slot, or learn that the channel is closed and empty.   *)
NextSlot ==
  /\ pc = "next"
  /\ \/ /\ slots # <<>>
        /\ slot' = Head(slots)
        /\ slots' = Tail(slots)
        /\ pc' = "result"
        /\ UNCHANGED last
     \/ /\ slots = <<>>
        /\ prod = "closed"
        /\ Returns("EOF")
        /\ UNCHANGED <<slot, slots>>
  /\ UNCHANGED <<ctx, rctx, producer, sem, part, perr, cur, fellBack, closed,
                 delivered>>

Filled(o) == part[o] \in {"sent", "ended"}

(* ... its result, or the end of r.ctx; a failed part ends the reader, or  *)
(* makes it degrade when nothing was delivered yet.                        *)
DegradesLate == perr[slot] # "ErrNotFound"   \* mutant: whatever was delivered
Degrades     == consumed = 0 /\ perr[slot] # "ErrNotFound"

TakeResult ==
  /\ pc = "result"
  /\ Filled(slot)
  /\ perr[slot] = "nil"
  /\ cur' = <<slot, PartEnd(slot)>>
  /\ pc' = "copy"
  /\ UNCHANGED <<ctx, rctx, producer, slots, sem, part, perr, slot, fellBack,
                 closed, delivered, last>>

TakeError ==
  /\ pc = "result"
  /\ Filled(slot)
  /\ perr[slot] # "nil"
  /\ \/ rctx /\ Returns("ctx") /\ UNCHANGED rctx
     \/ ~rctx /\ Degrades /\ rctx' = TRUE /\ pc' = "single" /\ UNCHANGED last
     \/ ~rctx /\ ~Degrades /\ rctx' = TRUE /\ Returns(perr[slot])
  /\ UNCHANGED <<ctx, producer, slots, sem, part, perr, slot, cur, fellBack,
                 closed, delivered>>

ResultAwaited == FALSE   \* mutant: Read waits for the slot alone

ResultCancelled ==
  /\ pc = "result"
  /\ rctx
  /\ Returns("ctx")
  /\ UNCHANGED <<ctx, rctx, producer, slots, sem, part, perr, slot, cur,
                 fellBack, closed, delivered>>

(* r.cur.Read: as many bytes as fit into the caller's buffer.              *)
CopyOut ==
  /\ pc = "copy"
  /\ \E n \in 1..(cur[2] - cur[1]) :
       /\ delivered' = delivered \o Bytes(cur[1], cur[1] + n)
       /\ cur' = <<cur[1] + n, cur[2]>>
  /\ Returns("data")
  /\ UNCHANGED <<ctx, rctx, producer, slots, sem, part, perr, slot, fellBack,
                 closed>>

(* The fallback Get runs under the caller's context, which r.cancel does   *)
(* not end.                                                                *)
SingleGetUnderReader ==   \* mutant: the fallback is given r.ctx
  /\ pc = "single"
  /\ \/ \E e \in Errors : MayFail(e, rctx) /\ Returns(e) /\ UNCHANGED fellBack
     \/ fellBack' = 0 /\ pc' = "stream" /\ UNCHANGED last
  /\ UNCHANGED <<ctx, rctx, producer, slots, sem, part, perr, slot, cur, closed,
                 delivered>>

SingleGet ==
  /\ pc = "single"
  /\ \/ \E e \in Errors : MayFail(e, ctx) /\ Returns(e) /\ UNCHANGED fellBack
     \/ fellBack' = 0 /\ pc' = "stream" /\ UNCHANGED last
  /\ UNCHANGED <<ctx, rctx, producer, slots, sem, part, perr, slot, cur, closed,
                 delivered>>

SingleRead ==
  /\ pc = "stream"
  /\ \/ \E e \in Errors \ {"ErrNotFound"} :
          MayFail(e, ctx) /\ Returns(e) /\ UNCHANGED <<fellBack, delivered>>
     \/ fellBack = Size /\ Returns("EOF") /\ UNCHANGED <<fellBack, delivered>>
     \/ /\ fellBack < Size
        /\ delivered' = Append(delivered, fellBack)
        /\ fellBack' = fellBack + 1
        /\ Returns("data")
  /\ UNCHANGED <<ctx, rctx, producer, slots, sem, part, perr, slot, cur, closed>>

(* Close, between two Reads.                                               *)
CloseKeepsContext ==   \* mutant: no r.cancel
  /\ pc = "idle"
  /\ ~closed
  /\ closed' = TRUE
  /\ UNCHANGED <<ctx, rctx, producer, slots, sem, part, perr, pc, slot, cur,
                 fellBack, delivered, last>>

Close ==
  /\ pc = "idle"
  /\ ~closed
  /\ closed' = TRUE
  /\ rctx' = TRUE
  /\ UNCHANGED <<ctx, producer, slots, sem, part, perr, pc, slot, cur, fellBack,
                 delivered, last>>

-----------------------------------------------------------------------------
(* The producer and every part goroutine have returned.                    *)
Quiet == prod = "closed" /\ \A o \in Offsets : part[o] \in {"none", "ended"}

Produce == Offer \/ Acquire \/ ProduceEnds
Part(o) == GetRange(o) \/ PartFails(o) \/ ReadFull(o) \/ Release(o)
InRead  == \/ NextSlot \/ TakeResult \/ TakeError \/ ResultCancelled \/ CopyOut
           \/ SingleGet \/ SingleRead

Next ==
  \/ Cancel
  \/ Produce
  \/ \E o \in Offsets : Part(o)
  \/ Read \/ InRead \/ Close

Spec == Init /\ [][Next]_vars

(* The goroutines run, and the bucket's calls and bodies end.  Nobody has  *)
(* to end the context, to Read or to Close.                                *)
Fairness ==
  /\ WF_vars(Produce)
  /\ \A o \in Offsets : WF_vars(Part(o))
  /\ WF_vars(InRead)

-----------------------------------------------------------------------------
(* Every variable has a value of its type (orderedReader).                 *)
TypeOK ==
  /\ ctx \in BOOLEAN
  /\ rctx \in BOOLEAN
  /\ prod \in {"offer", "acquire", "closed"}
  /\ off \in Nat
  /\ slots \in Seq(Offsets)
  /\ sem \in Nat
  /\ part \in [Offsets -> {"none", "get", "read", "sent", "ended"}]
  /\ perr \in [Offsets -> Errors \cup {"nil"}]
  /\ pc \in {"idle", "next", "result", "copy", "single", "stream"}
  /\ slot \in Offsets
  /\ cur \in (0..Size) \X (0..Size)
  /\ fellBack \in -1..Size
  /\ closed \in BOOLEAN
  /\ delivered \in Seq(0..(Size - 1))
  /\ last \in Errors \cup {"data", "EOF"}

(***************************************************************************)
(* Whatever order the parts arrive in, and whether or not the reader       *)
(* degrades, Read delivers the object's bytes in order, none twice and     *)
(* none left out.                                                          *)
(***************************************************************************)
DeliversInOrder == delivered = Bytes(0, consumed)

(***************************************************************************)
(* EOF means that the whole object was delivered, unless the caller's      *)
(* context ended meanwhile.                                                *)
(***************************************************************************)
EOFIsComplete == (last = "EOF" /\ ~ctx) => consumed = Size

(***************************************************************************)
(* A context error is the caller's doing: degrading ends r.ctx, and yet    *)
(* neither the fallback Get nor a later Read reports it (fetchranged.go:   *)
(* 168, 239).                                                              *)
(***************************************************************************)
ContextErrorIsCallers == last = "ctx" => ctx

(***************************************************************************)
(* How many part buffers there are: a goroutine has made one and has not   *)
(* sent it; it lies in a slot that Read has not taken, or awaits; or it is *)
(* r.cur's, which keeps a part that was read out until r.cur.Reset         *)
(* (fetchranged.go:209, 250).                                              *)
(***************************************************************************)
Buffered(o) ==
  /\ part[o] \in {"read", "sent", "ended"}
  /\ perr[o] = "nil"
  /\ \/ part[o] = "read"
     \/ \E i \in DOMAIN slots : slots[i] = o
     \/ pc = "result" /\ slot = o

Buffers == Cardinality({o \in Offsets : Buffered(o)}) + (IF cur[2] = 0 THEN 0 ELSE 1)

(***************************************************************************)
(* However slowly the caller reads, however fast parts arrive, and         *)
(* whatever Read abandons, there are no more than Concurrency + 2 buffers: *)
(* those in the channel, the one Read waits for, and the one it has read   *)
(* out.  (fetchranged.go:134 promises "(Concurrency+1) x PartSize of       *)
(* in-flight part buffers", and does not count the last.)                  *)
(***************************************************************************)
BuffersBounded == Buffers <= Concurrency + 2

(* A Read returns: no slot is waited for that nobody will fill.            *)
ReadReturns == (pc # "idle") ~> (pc = "idle")

(* After Close the producer and every part goroutine end.                  *)
CloseEndsGoroutines == closed ~> Quiet
============================================================================
