------------------------------ MODULE Healing ------------------------------
(***************************************************************************)
(* The self-healing reader (heal.go): a body that stalls, is too slow or   *)
(* fails is closed and the rest of the range is requested again, over at   *)
(* most Attempts connections.  A watchdog closes a body that delivers too  *)
(* little in Windows consecutive intervals.                                *)
(*                                                                         *)
(* The object has versions; a byte is <<version, index>>.  What the        *)
(* wrapped bucket, the network, the caller and other writers may do is     *)
(* given by Faults.  Time is not modelled: the watchdog's timer may fire   *)
(* whenever it is armed.                                                   *)
(***************************************************************************)
EXTENDS Ranges, Sequences, FiniteSets

CONSTANTS
  Requests,   \* the reads: records via (the wrapped bucket), op, off, len
  Sizes,      \* the size of each version of the object
  Attempts,   \* HealOpts.Attempts, after withDefaults
  Minimum,    \* the fewest bytes per interval of a connection not the last
  Windows,    \* watchdog.windows
  Faults      \* what may happen besides a healthy read

Versions == DOMAIN Sizes

ASSUME HealAssumption ==
  /\ Requests \subseteq [via : {"FS", "S3"}, op : {"Get", "GetRange"},
                          off : Int64, len : Int64]
  /\ \A r \in Requests : r.op = "Get" => r.off = 0 /\ r.len = 0
  /\ Sizes \in Seq(0..MaxInt64) /\ Sizes # <<>>
  /\ Attempts \in Nat \ {0}
  /\ Minimum \in Nat \ {0}
  /\ Windows \in Nat \ {0}
  /\ Faults \subseteq {"error",     \* a body fails mid-stream
                       "short",     \* a body of known length ends early, cleanly
                       "cut",       \* so does one of unknown length
                       "stall",     \* a Read waits while the watchdog's timer fires
                       "call",      \* Stat or GetRange fails
                       "cancel",    \* the context ends
                       "replace",   \* the object is replaced, its tag being known
                       "race"}      \* ... between a heal's Stat and GetRange

VARIABLES
  obj,         \* the current version of the object
  ctx,         \* the context has ended
  rq,          \* the request (r.off, r.len)
  v0,          \* the version the first connection reads
  cur,         \* r.cur: its version, position, end, and whether it is open
  dog,         \* r.dog: its count below, the bytes since its last check, armed
  etag,        \* r.etag: a version, 0 for ""
  attempts,    \* r.attempts
  pc,          \* where Read is
  n,           \* the bytes the failing Read of cur returned
  delivered,   \* the bytes Read has returned
  last,        \* what Read returned last: "data", "EOF" or an error
  closed

world == <<obj, ctx>>
body  == <<cur, dog, attempts>>
vars  == <<world, rq, v0, body, etag, pc, n, delivered, last, closed>>

consumed == Len(delivered)

(* What the wrapped bucket returns for a range of an object of this size,  *)
(* unless it refuses: S3 has no answer to a range beyond the last byte.    *)
InnerRange(off, len, size) ==
  IF rq.via = "FS" THEN FSRange(off, len, size) ELSE Served(formatRange(off, len), size)

Refuses(off, len, size) ==
  rq.via = "S3" /\ ~Satisfiable(formatRange(off, len), size)

Connection(v, off, len) ==
  LET e == InnerRange(off, len, Sizes[v])
  IN [ver |-> v, pos |-> e.pos, end |-> e.end, open |-> TRUE]

Armed == [below |-> 0, fresh |-> 0, armed |-> TRUE]

Init ==
  /\ obj = 1
  /\ ctx = FALSE
  /\ rq \in Requests
  /\ v0 = 0
  /\ cur = [ver |-> 0, pos |-> 0, end |-> 0, open |-> FALSE]
  /\ dog = [Armed EXCEPT !.armed = FALSE]
  /\ etag = 0
  /\ attempts = 0
  /\ pc = "open"
  /\ n = 0
  /\ delivered = <<>>
  /\ last = "data"
  /\ closed = FALSE

-----------------------------------------------------------------------------
(* The world.                                                              *)
Cancel ==
  /\ "cancel" \in Faults
  /\ ~ctx
  /\ ctx' = TRUE
  /\ UNCHANGED <<obj, rq, v0, body, etag, pc, n, delivered, last, closed>>

Replace ==
  /\ etag # 0
  /\ IF pc = "reopen" THEN "race" \in Faults ELSE "replace" \in Faults
  /\ obj + 1 \in Versions
  /\ obj' = obj + 1
  /\ UNCHANGED <<ctx, rq, v0, body, etag, pc, n, delivered, last, closed>>

-----------------------------------------------------------------------------
(* healingBucket.Get and GetRange.  Get knows the entity tag.              *)
Open ==
  /\ pc = "open"
  /\ rq.op = "GetRange" => ~Refuses(rq.off, rq.len, Sizes[obj])
  /\ v0' = obj
  /\ cur' = IF rq.op = "Get"
            THEN [ver |-> obj, pos |-> 0, end |-> Sizes[obj], open |-> TRUE]
            ELSE Connection(obj, rq.off, rq.len)
  /\ etag' = IF rq.op = "Get" THEN obj ELSE 0
  /\ attempts' = 1
  /\ dog' = Armed
  /\ pc' = "idle"
  /\ UNCHANGED <<world, rq, n, delivered, last, closed>>

(* The caller reads until the first error or EOF, and closes.              *)
Read ==
  /\ pc = "idle"
  /\ last = "data"
  /\ ~closed
  /\ pc' = "read"
  /\ UNCHANGED <<world, rq, v0, body, etag, n, delivered, last, closed>>

Close ==
  /\ pc = "idle"
  /\ ~closed
  /\ closed' = TRUE
  /\ dog' = [dog EXCEPT !.armed = FALSE]
  /\ cur' = [cur EXCEPT !.open = FALSE]
  /\ UNCHANGED <<world, rq, v0, attempts, etag, pc, n, delivered, last>>

Returns(l) == pc' = "idle" /\ last' = l

(* r.cur.Read returns k bytes; they count as progress.                     *)
Take(k) ==
  /\ delivered' = delivered \o [i \in 1..k |-> <<cur.ver, cur.pos + i - 1>>]
  /\ cur' = [cur EXCEPT !.pos = @ + k]
  /\ dog' = [dog EXCEPT !.fresh = @ + k]

ReadData ==
  /\ pc = "read"
  /\ cur.open
  /\ \E k \in 1..(cur.end - cur.pos) : Take(k)
  /\ Returns("data")
  /\ UNCHANGED <<world, rq, v0, attempts, etag, n, closed>>

(* truncated: a clean EOF ends the read, unless the length is known and    *)
(* not reached; then a Stat tells whether the object ends there.           *)
NeverShort(m) == FALSE   \* mutant: every EOF is believed
KnownShort(m) == rq.off >= 0 /\ rq.len # 0 /\ m < rq.len

(* A killed connection can surface as a clean EOF.                         *)
MayEndEarly == IF rq.off >= 0 /\ rq.len # 0 THEN "short" \in Faults ELSE "cut" \in Faults

ReadEOF ==
  /\ pc = "read"
  /\ cur.open
  /\ \E k \in 0..(cur.end - cur.pos) :
       /\ cur.pos + k < cur.end => MayEndEarly
       /\ Take(k)
       /\ n' = k
  /\ pc' = "eof"
  /\ UNCHANGED <<world, rq, v0, attempts, etag, last, closed>>

Truncated ==
  /\ pc = "eof"
  /\ \/ /\ ~KnownShort(consumed)
        /\ Returns("EOF")
        /\ dog' = [dog EXCEPT !.armed = FALSE]
     \/ /\ KnownShort(consumed)
        /\ rq.off + consumed >= Sizes[obj]
        /\ Returns("EOF")
        /\ dog' = [dog EXCEPT !.armed = FALSE]
     \/ /\ KnownShort(consumed)
        /\ rq.off + consumed < Sizes[obj] \/ "call" \in Faults
        /\ pc' = "failed"
        /\ UNCHANGED <<last, dog>>
  /\ UNCHANGED <<world, rq, v0, cur, attempts, etag, n, delivered, closed>>

ReadError ==
  /\ pc = "read"
  /\ cur.open
  /\ "error" \in Faults \/ ctx
  /\ \E k \in 0..(cur.end - cur.pos) : Take(k) /\ n' = k
  /\ pc' = "failed"
  /\ UNCHANGED <<world, rq, v0, attempts, etag, last, closed>>

(* The watchdog has closed the body: the Read parked on it returns.        *)
ReadKilled ==
  /\ pc = "read"
  /\ ~cur.open
  /\ n' = 0
  /\ pc' = "failed" \/ (MayEndEarly /\ pc' = "eof")
  /\ UNCHANGED <<world, rq, v0, body, etag, delivered, last, closed>>

(* An error after everything requested was delivered needs no heal.        *)
RemainingDone ==
  \/ rq.len > 0 /\ consumed >= rq.len
  \/ rq.len <= 0 /\ rq.off < 0 /\ rq.off + consumed >= 0

(* heal, up to its back-off: the body is closed, its watchdog stopped.     *)
OneAttemptMore == attempts > Attempts   \* mutant: one connection too many
NoAttemptsLeft == attempts >= Attempts

Heal ==
  /\ pc = "failed"
  /\ \/ ctx /\ Returns("ctx") /\ UNCHANGED <<cur, dog>>
     \/ /\ ~ctx /\ RemainingDone
        /\ Returns("EOF")
        /\ dog' = [dog EXCEPT !.armed = FALSE]
        /\ UNCHANGED cur
     \/ /\ ~ctx /\ ~RemainingDone
        /\ IF NoAttemptsLeft THEN Returns("exhausted")
           ELSE pc' = "backoff" /\ UNCHANGED last
        /\ dog' = [dog EXCEPT !.armed = FALSE]
        /\ cur' = [cur EXCEPT !.open = FALSE]
  /\ UNCHANGED <<world, rq, v0, attempts, etag, n, delivered, closed>>

(* sleepHeal, then the entity tag guard.                                   *)
Guard ==
  /\ pc = "backoff"
  /\ \/ ctx /\ Returns("ctx") /\ UNCHANGED etag
     \/ "call" \in Faults /\ Returns("error") /\ UNCHANGED etag
     \/ etag \notin {0, obj} /\ Returns("changed") /\ UNCHANGED etag
     \/ etag \in {0, obj} /\ etag' = obj /\ pc' = "reopen" /\ UNCHANGED last
  /\ UNCHANGED <<world, rq, v0, body, n, delivered, closed>>

(* The remaining range on a fresh connection; bytes that came with the     *)
(* error are returned now, else the loop reads on.                         *)
ResumeLate == rq.off + consumed - n   \* mutant: the failing Read's bytes forgotten
Resume     == rq.off + consumed
Rest       == IF rq.len > 0 THEN rq.len - consumed ELSE 0

Reopen ==
  /\ pc = "reopen"
  /\ \/ /\ "call" \in Faults \/ Refuses(Resume, Rest, Sizes[obj])
        /\ Returns("error")
        /\ UNCHANGED body
     \/ /\ ~Refuses(Resume, Rest, Sizes[obj])
        /\ cur' = Connection(obj, Resume, Rest)
        /\ attempts' = attempts + 1
        /\ dog' = Armed
        /\ IF n > 0 THEN Returns("data") ELSE pc' = "read" /\ UNCHANGED last
  /\ UNCHANGED <<world, rq, v0, etag, n, delivered, closed>>

(* watchdog.check: Windows intervals below the minimum close the body and  *)
(* end the watchdog.  The last connection needs one byte per interval.     *)
Floor == IF attempts >= Attempts THEN 1 ELSE Minimum
BelowReset == IF dog.fresh < Floor THEN 1 ELSE 0   \* mutant: never adds up
Below      == IF dog.fresh < Floor THEN dog.below + 1 ELSE 0

Check ==
  /\ dog.armed
  /\ pc # "idle" => "stall" \in Faults
  /\ dog' = [below |-> Below, fresh |-> 0, armed |-> Below < Windows]
  /\ cur' = [cur EXCEPT !.open = @ /\ Below < Windows]
  /\ UNCHANGED <<world, rq, v0, attempts, etag, pc, n, delivered, last, closed>>

-----------------------------------------------------------------------------
InRead == Truncated \/ ReadKilled \/ Heal \/ Guard \/ Reopen
Stream == ReadData \/ ReadEOF \/ ReadError

Next == Cancel \/ Replace \/ Open \/ Read \/ Close \/ Stream \/ InRead \/ Check

Spec == Init /\ [][Next]_vars

(* The timers fire, the steps of Read are taken and the bucket's calls     *)
(* return.  The connection owes nothing: no body has to deliver or fail.   *)
FairSpec == Spec /\ WF_vars(InRead) /\ WF_vars(Check)

-----------------------------------------------------------------------------
(* Every variable has a value of its type (healingBody, watchdog).         *)
TypeOK ==
  /\ obj \in Versions
  /\ ctx \in BOOLEAN
  /\ rq \in Requests
  /\ v0 \in Versions \cup {0}
  /\ cur \in [ver : Versions \cup {0}, pos : Nat, end : Nat, open : BOOLEAN]
  /\ dog \in [below : 0..Windows, fresh : Nat, armed : BOOLEAN]
  /\ etag \in Versions \cup {0}
  /\ attempts \in 0..Attempts
  /\ pc \in {"open", "idle", "read", "eof", "failed", "backoff", "reopen"}
  /\ n \in Nat
  /\ delivered \in Seq(Versions \X Nat)
  /\ last \in {"data", "EOF", "ctx", "error", "exhausted", "changed"}
  /\ closed \in BOOLEAN

(* The bytes the caller asked for, of the version its read began with.     *)
Wanted == Requested(rq.off, rq.len, Sizes[v0])
From   == Start(rq.off, Sizes[v0])

(***************************************************************************)
(* What the reader can resume: with the length of its bodies known by      *)
(* their framing or by the request, the object not replaced behind the     *)
(* guard's back, and a suffix that the object has, with a length, if any,  *)
(* inside it (S3 takes none).                                              *)
(***************************************************************************)
Resumable ==
  /\ Faults \cap {"cut", "race"} = {}
  /\ \A r \in Requests :
       /\ r.len >= 0
       /\ r.off < 0 => /\ -r.off <= Sizes[1]
                       /\ r.len = 0 \/ (r.via = "FS" /\ r.len <= -r.off)

(***************************************************************************)
(* Over however many connections, Read delivers the requested bytes of one *)
(* version of the object, in order, none twice and none left out.          *)
(* heal.go:41: "the remaining bytes are re-requested with a fresh Range    *)
(* read"; heal.go:49: "any later change aborts the read".                  *)
(***************************************************************************)
DeliversRequested ==
  \A i \in 1..consumed :
    From + i - 1 \in Wanted /\ delivered[i] = <<v0, From + i - 1>>

(***************************************************************************)
(* heal.go:37: bodies "transparently survive" a broken connection: EOF     *)
(* means that everything requested has been delivered, if the object is    *)
(* still the one that was read.                                            *)
(***************************************************************************)
EOFIsComplete == (last = "EOF" /\ obj = v0) => consumed = Cardinality(Wanted)

(***************************************************************************)
(* A Read returns, although a connection may stall forever: the watchdog   *)
(* closes it, and there are at most Attempts of them.                      *)
(***************************************************************************)
ReadReturns == (pc = "read") ~> (pc = "idle")
============================================================================
