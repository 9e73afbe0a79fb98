------------------------- MODULE FetchRangedProofs -------------------------
(***************************************************************************)
(* Proofs about FetchRangedAt for every size of the object, part size,     *)
(* threshold and concurrency: the safety properties of FetchRanged follow  *)
(* from one inductive invariant, whose parts are named below.              *)
(***************************************************************************)
EXTENDS FetchRanged, FiniteSetTheorems, TLAPS

(* The loop has started exactly the parts below off.                       *)
LoopStarts ==
  /\ off % PartSize = 0
  /\ pc = "stat" => off = 0
  /\ pc = "launch" => off < Size
  /\ \A o \in Offsets : part[o] = "none" <=> o >= off

(* Every part under way holds a token, and the loop holds one of its own   *)
(* when it is about to start a part.                                       *)
TokensHeld ==
  /\ Cardinality(Running) <= sem
  /\ sem <= Concurrency
  /\ (pc = "launch" /\ ~fctx) => Cardinality(Running) < sem

(* Before wg.Wait returns, the parts' context ends for the caller's        *)
(* context or after a first error was recorded.                            *)
CancelHasCause ==
  (pc \in {"stat", "select", "launch", "wait"} /\ fctx /\ ~ctx) => firstErr # "nil"

(* A failed part has an error, recorded before it cancels the others; a    *)
(* part's context error has a cause, too.                                  *)
ErrorsRecorded ==
  \A o \in Offsets :
    /\ part[o] \in {"none", "get", "copy"} => perr[o] = "nil"
    /\ part[o] \in {"fail", "cancel"} => perr[o] # "nil"
    /\ (part[o] = "cancel" \/ (part[o] \in {"release", "ended"} /\ perr[o] # "nil"))
         => firstErr # "nil"
    /\ (perr[o] = "ctx" /\ ~ctx) => firstErr # "nil"

(* What a part has copied is in dst, as long as no part has failed: one    *)
(* that fails may have written over it.  A part that ended without an      *)
(* error has copied all of it.                                             *)
NoneFailed == \A o \in Offsets : perr[o] = "nil"

PartsWritten ==
  \A o \in Offsets :
    /\ got[o] <= PartLen(o)
    /\ NoneFailed => \A j \in 0..(got[o] - 1) : o + j \in written
    /\ (part[o] \in {"release", "ended"} /\ perr[o] = "nil") => got[o] = PartLen(o)

(* The loop is left early only after an error or with the caller's context.*)
LoopCompletes == (pc = "wait" /\ firstErr = "nil" /\ ~ctx) => off >= Size

(* The single stream begins, and the result is there, after wg.Wait.       *)
StreamWritten ==
  /\ 0..(at - 1) \subseteq written
  /\ pc \in {"stat", "select", "launch", "wait"} => at = 0 /\ result = "none"

IInv ==
  /\ TypeOK /\ LoopStarts /\ TokensHeld
  /\ CancelHasCause /\ ErrorsRecorded /\ RootCause
  /\ PartsWritten /\ LoopCompletes /\ StreamWritten
  /\ NoStragglers /\ SuccessIsComplete

-----------------------------------------------------------------------------
(* Division with remainder.                                                *)
LEMMA Quotient ==
  ASSUME NEW a \in Nat, NEW p \in Nat \ {0}
  PROVE  a = p * (a \div p) + (a % p) /\ a % p \in 0..(p - 1) /\ a \div p \in Nat
  BY Z3

(* A multiple of p leaves no remainder.                                    *)
LEMMA MultipleOf ==
  ASSUME NEW a \in Nat, NEW p \in Nat \ {0}
  PROVE  (p * a) % p = 0
  BY Z3

(* The loop's step leads from one multiple of PartSize to the next.        *)
LEMMA NextMultiple ==
  ASSUME NEW a \in Nat, NEW p \in Nat \ {0}, a % p = 0
  PROVE  (a + p) % p = 0
  <1> DEFINE q == a \div p
  <1>1. a = p * q /\ q \in Nat
    BY Quotient
  <1> HIDE DEF q
  <1>2. a + p = p * (q + 1)
    BY <1>1, Z3
  <1>3. (p * (q + 1)) % p = 0
    BY <1>1, MultipleOf
  <1> QED BY <1>2, <1>3

(* No multiple of PartSize lies between two neighbours.                    *)
LEMMA MultiplesApart ==
  ASSUME NEW a \in Nat, NEW b \in Nat, NEW p \in Nat \ {0},
         a % p = 0, b % p = 0, a < b
  PROVE  a + p <= b
  <1> DEFINE q == a \div p
             r == b \div p
  <1>1. a = p * q /\ q \in Nat /\ b = p * r /\ r \in Nat
    BY Quotient
  <1> HIDE DEF q, r
  <1>2. q + 1 <= r
    BY <1>1, Z3
  <1>3. p * r = p * (q + 1) + p * (r - (q + 1)) /\ p * (r - (q + 1)) >= 0
    BY <1>1, <1>2, Z3
  <1>4. p * (q + 1) = a + p
    BY <1>1, Z3
  <1> QED BY <1>1, <1>2, <1>3, <1>4, Z3

(* Every byte of the object lies in the part that starts at or before it.  *)
LEMMA PartOfByte ==
  ASSUME NEW b \in 0..(Size - 1)
  PROVE  \E o \in Offsets : \E j \in 0..(PartLen(o) - 1) : b = o + j
  <1> DEFINE q == b \div PartSize
             j == b % PartSize
             o == PartSize * q
  <1>0. b \in Nat /\ PartSize \in Nat \ {0}
    BY OptsAssumption
  <1>1. b = o + j /\ j \in 0..(PartSize - 1) /\ q \in Nat
    BY <1>0, Quotient
  <1> HIDE DEF q, j
  <1>2. o \in Nat
    BY <1>1, OptsAssumption, Z3
  <1>3. o % PartSize = 0
    BY <1>0, <1>1, MultipleOf
  <1> HIDE DEF o
  <1>4. o \in Offsets
    BY <1>1, <1>2, <1>3, OptsAssumption DEF Offsets
  <1>5. j \in 0..(PartLen(o) - 1)
    BY <1>1, <1>2, OptsAssumption DEF PartLen
  <1> QED BY <1>1, <1>4, <1>5

(* There are finitely many parts, and a part is not empty.                 *)
LEMMA PartsFinite ==
  /\ IsFiniteSet(Offsets)
  /\ \A o \in Offsets : /\ o \in 0..(Size - 1) /\ PartLen(o) \in 1..PartSize
                         /\ o + PartLen(o) <= Size
  <1>1. IsFiniteSet(0..(Size - 1))
    BY FS_Interval, OptsAssumption
  <1>2. Offsets \subseteq 0..(Size - 1)
    BY DEF Offsets
  <1>3. IsFiniteSet(Offsets)
    BY <1>1, <1>2, FS_Subset
  <1> QED BY <1>2, <1>3, OptsAssumption DEF PartLen

(* The parts under way are finitely many.                                  *)
LEMMA RunningFinite == IsFiniteSet(Running) /\ Cardinality(Running) \in Nat
  <1>1. Running \subseteq Offsets
    BY DEF Running
  <1> QED BY <1>1, PartsFinite, FS_Subset, FS_CardinalityType

-----------------------------------------------------------------------------
(* The initial state satisfies the invariant.                              *)
LEMMA InitIInv == Init => IInv
  <1> SUFFICES ASSUME Init PROVE IInv
    OBVIOUS
  <1> USE OptsAssumption DEF Init
  <1>1. TypeOK
    <2>1. got \in [Offsets -> 0..PartSize] /\ at \in 0..Size
      OBVIOUS
    <2>2. part \in [Offsets -> {"none", "get", "copy", "fail", "cancel", "release", "ended"}]
      OBVIOUS
    <2>3. perr \in [Offsets -> Errors \cup {"nil"}]
      BY DEF Errors
    <2>4. firstErr \in Errors \cup {"nil"} /\ result \in Errors \cup {"nil", "none"}
      OBVIOUS
    <2>5. written \subseteq 0..(Size - 1) /\ off \in Nat /\ sem \in Nat
      OBVIOUS
    <2>6. pc \in {"stat", "select", "launch", "wait", "single", "stream", "done"}
          /\ ctx \in BOOLEAN /\ fctx \in BOOLEAN
      OBVIOUS
    <2> QED BY <2>1, <2>2, <2>3, <2>4, <2>5, <2>6 DEF TypeOK
  <1>2. LoopStarts
    <2>1. 0 % PartSize = 0
      <3> HIDE DEF Init
      <3> QED BY OptsAssumption
    <2>2. \A o \in Offsets : part[o] = "none" /\ o >= off
      BY DEF Offsets
    <2> QED BY <2>1, <2>2 DEF LoopStarts
  <1>3. Running = {}
    BY DEF Running
  <1>4. TokensHeld
    BY <1>3, FS_EmptySet DEF TokensHeld
  <1>5. CancelHasCause /\ ErrorsRecorded /\ RootCause /\ LoopCompletes
    BY DEF CancelHasCause, ErrorsRecorded, RootCause, LoopCompletes
  <1>6. PartsWritten
    BY PartsFinite DEF PartsWritten
  <1>7. StreamWritten /\ NoStragglers /\ SuccessIsComplete
    BY DEF StreamWritten, NoStragglers, SuccessIsComplete
  <1> QED BY <1>1, <1>2, <1>4, <1>5, <1>6, <1>7 DEF IInv

(* The loop's offset is a part's while there is something left to start.   *)
LEMMA LaunchedPart ==
  ASSUME TypeOK, LoopStarts, pc = "launch"
  PROVE  off \in Offsets /\ part[off] = "none" /\ off \notin Running
  BY OptsAssumption DEF TypeOK, LoopStarts, Offsets, Running

(* Only Launch and Release change what is under way.                       *)
LEMMA RunningChange ==
  ASSUME TypeOK, LoopStarts, [Next]_vars
  PROVE  \/ Running' = Running
         \/ Launch /\ ~fctx /\ Running' = Running \cup {off}
         \/ \E o \in Offsets : Release(o) /\ o \in Running /\ Running' = Running \ {o}
  <1> USE DEF TypeOK, Running
  <1>1. CASE UNCHANGED part
    BY <1>1
  <1>2. CASE Launch
    BY <1>2, LaunchedPart DEF Launch
  <1>3. ASSUME NEW o \in Offsets, GetRange(o) \/ CopyEnds(o) \/ CopyBeyond(o) \/ Fail(o) \/ FailCancels(o)
        PROVE  Running' = Running
    BY <1>3 DEF GetRange, CopyEnds, CopyBeyond, Fail, FailCancels, PartFails
  <1>4. ASSUME NEW o \in Offsets, Release(o)
        PROVE  o \in Running /\ Running' = Running \ {o}
    BY <1>4 DEF Release
  <1>5. ASSUME NEW o \in Offsets, CopyByte(o)
        PROVE  UNCHANGED part
    BY <1>5 DEF CopyByte
  <1>6. CASE Cancel \/ Stat \/ Select \/ LoopEnds \/ Wait
             \/ SingleGet \/ SingleByte \/ SingleEnds \/ Ended \/ UNCHANGED vars
    BY <1>1, <1>6 DEF Cancel, Stat, Select, LoopEnds, Wait, SingleGet, SingleByte,
                      SingleEnds, Ended, vars, parts
  <1> QED BY <1>1, <1>2, <1>3, <1>4, <1>5, <1>6 DEF Next, Main, Part

(* A step keeps the tokens and the parts under way in step.                *)
LEMMA NextTokensHeld ==
  ASSUME IInv, [Next]_vars
  PROVE  TokensHeld'
  <1> USE OptsAssumption DEF IInv, TypeOK, TokensHeld
  <1> DEFINE n == Cardinality(Running)
  <1>1. n \in Nat /\ IsFiniteSet(Running)
    BY RunningFinite
  <1>2. CASE Launch /\ ~fctx /\ Running' = Running \cup {off}
    <2>1. n' = n + 1
      BY <1>1, <1>2, LaunchedPart, FS_AddElement DEF Launch
    <2> QED BY <1>1, <1>2, <2>1 DEF Launch
  <1>3. ASSUME NEW o \in Offsets, Release(o), o \in Running, Running' = Running \ {o}
        PROVE  TokensHeld'
    <2>1. n' = n - 1
      BY <1>1, <1>3, FS_RemoveElement
    <2> QED BY <1>1, <1>3, <2>1 DEF Release
  <1>4. CASE Running' = Running
    <2>1. n' = n
      BY <1>4
    <2> HIDE DEF n
    <2>2. n <= sem /\ sem <= Concurrency /\ (pc = "launch" /\ ~fctx => n < sem)
      BY DEF n
    <2>3. ASSUME NEW o \in Offsets, Part(o), ~Release(o)
          PROVE  UNCHANGED <<pc, sem>> /\ (fctx => fctx')
      BY <2>3 DEF Part, GetRange, CopyByte, CopyEnds, CopyBeyond, PartFails, Fail, FailCancels, fetch
    <2>4. CASE Select
      BY <1>1, <2>1, <2>2, <2>4 DEF Select, n
    <2>5. ASSUME NEW o \in Offsets, Release(o)
          PROVE  FALSE
      BY <1>4, <2>5 DEF Release, Running
    <2>6. CASE Cancel \/ Stat \/ Launch \/ LoopEnds \/ Wait
               \/ SingleGet \/ SingleByte \/ SingleEnds \/ Ended \/ UNCHANGED vars
      BY <1>1, <2>1, <2>2, <2>6 DEF Cancel, Stat, Launch, LoopEnds, Wait, DecideOn,
           Returns, SingleGet, SingleByte, SingleEnds, Ended, vars, fetch, n
    <2> QED BY <1>1, <2>1, <2>2, <2>3, <2>4, <2>5, <2>6 DEF Next, Main, n
  <1> QED BY <1>2, <1>3, <1>4, RunningChange

(* Every step keeps the types; a token is given back only while there is   *)
(* one, and a byte is written only within the object.                      *)
LEMMA NextTypeOK ==
  ASSUME IInv, [Next]_vars
  PROVE  TypeOK'
  <1> USE OptsAssumption DEF IInv, TypeOK
  <1>1. CASE Cancel \/ LoopEnds \/ Ended \/ UNCHANGED vars
    BY <1>1 DEF Cancel, LoopEnds, Ended, vars, fetch, parts
  <1>2. CASE Stat
    BY <1>2 DEF Stat, Returns, fetch, parts
  <1>3. CASE Select
    BY <1>3 DEF Select, parts
  <1>4. CASE Launch
    BY <1>4, LaunchedPart DEF Launch
  <1>5. CASE Wait
    BY <1>5 DEF Wait, DecideOn, Returns, fetch, parts
  <1>6. CASE SingleGet \/ SingleEnds
    BY <1>6 DEF SingleGet, SingleEnds, Returns, fetch, parts
  <1>7. CASE SingleByte
    <2>1. at' \in 0..Size /\ written' \subseteq 0..(Size - 1)
      BY <1>7 DEF SingleByte
    <2> QED BY <1>7, <2>1 DEF SingleByte, fetch, parts
  <1>8. ASSUME NEW o \in Offsets, GetRange(o) \/ CopyEnds(o)
        PROVE  TypeOK'
    BY <1>8 DEF GetRange, CopyEnds, PartFails, fetch
  <1>9. ASSUME NEW o \in Offsets, CopyByte(o)
        PROVE  TypeOK'
    <2>1. got[o] + 1 \in 0..PartSize /\ o + got[o] \in 0..(Size - 1)
      BY <1>9, PartsFinite DEF CopyByte
    <2>2. got' \in [Offsets -> 0..PartSize] /\ written' \subseteq 0..(Size - 1)
      BY <1>9, <2>1 DEF CopyByte
    <2> QED BY <1>9, <2>2 DEF CopyByte, fetch
  <1>12. ASSUME NEW o \in Offsets, CopyBeyond(o)
         PROVE  TypeOK'
    <2>1. written' \subseteq 0..(Size - 1)
      BY <1>12 DEF CopyBeyond
    <2>2. perr' \in [Offsets -> Errors \cup {"nil"}]
          /\ part' \in [Offsets -> {"none", "get", "copy", "fail", "cancel", "release", "ended"}]
      BY <1>12 DEF CopyBeyond, Errors
    <2> QED BY <1>12, <2>1, <2>2 DEF CopyBeyond, fetch
  <1>10. ASSUME NEW o \in Offsets, Fail(o) \/ FailCancels(o)
         PROVE  TypeOK'
    BY <1>10 DEF Fail, FailCancels, fetch
  <1>11. ASSUME NEW o \in Offsets, Release(o)
         PROVE  TypeOK'
    <2>1. o \in Running /\ Running # {}
      BY <1>11 DEF Release, Running
    <2>2. Cardinality(Running) # 0 /\ Cardinality(Running) \in Nat
      BY <2>1, RunningFinite, FS_EmptySet
    <2>3. sem - 1 \in Nat
      BY <2>2 DEF TokensHeld
    <2> QED BY <1>11, <2>3 DEF Release
  <1> QED BY <1>1, <1>2, <1>3, <1>4, <1>5, <1>6, <1>7, <1>8, <1>9, <1>10, <1>11, <1>12
          DEF Next, Main, Part

(* Every step keeps the parts below off started and no other.              *)
LEMMA NextLoopStarts ==
  ASSUME IInv, [Next]_vars
  PROVE  LoopStarts'
  <1> USE OptsAssumption DEF IInv, TypeOK, LoopStarts
  <1>1. CASE Cancel \/ Stat \/ Select \/ LoopEnds \/ Wait
             \/ SingleGet \/ SingleByte \/ SingleEnds \/ Ended \/ UNCHANGED vars
    BY <1>1 DEF Cancel, Stat, Select, LoopEnds, Wait, DecideOn, Returns, SingleGet,
                SingleByte, SingleEnds, Ended, vars, fetch, parts
  <1>2. CASE Launch /\ fctx
    BY <1>2 DEF Launch
  <1>3. CASE Launch /\ ~fctx
    <2>1. off \in Offsets /\ off' = off + PartSize /\ pc' = "select"
      BY <1>3, LaunchedPart DEF Launch
    <2>2. off' % PartSize = 0
      BY <2>1, NextMultiple
    <2>3. ASSUME NEW o \in Offsets
          PROVE  o >= off' <=> o > off
      <3>1. o \in Nat /\ o % PartSize = 0
        BY DEF Offsets
      <3>2. o > off => o >= off + PartSize
        BY <3>1, MultiplesApart
      <3> QED BY <2>1, <3>1, <3>2
    <2>4. \A o \in Offsets : part'[o] = "none" <=> o > off
      BY <1>3, <2>1, PartsFinite DEF Launch
    <2> QED BY <2>1, <2>2, <2>3, <2>4
  <1>4. ASSUME NEW o \in Offsets, Part(o)
        PROVE  LoopStarts'
    BY <1>4 DEF Part, GetRange, CopyByte, CopyEnds, CopyBeyond, PartFails, Fail, FailCancels,
                Release, fetch
  <1> QED BY <1>1, <1>2, <1>3, <1>4 DEF Next, Main

(* While a part is under way, FetchRangedAt has not passed wg.Wait.        *)
LEMMA BeforeWait ==
  ASSUME TypeOK, NoStragglers, NEW o \in Offsets, part[o] \notin {"none", "ended"}
  PROVE  pc \in {"stat", "select", "launch", "wait"}
  BY DEF TypeOK, NoStragglers, Running

(* A part that fails under a context that ended without the caller's doing *)
(* fails after the first error was recorded.                               *)
LEMMA NextCauses ==
  ASSUME IInv, [Next]_vars
  PROVE  CancelHasCause' /\ ErrorsRecorded' /\ RootCause'
  <1> USE DEF IInv, TypeOK, CancelHasCause, ErrorsRecorded, RootCause, MayFail, Errors
  <1>1. CASE Cancel \/ Select \/ LoopEnds \/ Ended \/ UNCHANGED vars
    BY <1>1 DEF Cancel, Select, LoopEnds, Ended, vars, fetch, parts
  <1>2. CASE Stat \/ SingleGet \/ SingleByte \/ SingleEnds
    BY <1>2 DEF Stat, SingleGet, SingleByte, SingleEnds, Returns, fetch, parts
  <1>3. CASE Launch
    BY <1>3, LaunchedPart DEF Launch
  <1>4. CASE Wait
    BY <1>4 DEF Wait, DecideOn, Returns, fetch, parts
  <1>5. ASSUME NEW o \in Offsets, GetRange(o) \/ CopyEnds(o) \/ CopyBeyond(o)
        PROVE  CancelHasCause' /\ ErrorsRecorded' /\ RootCause'
    <2>1. pc \in {"stat", "select", "launch", "wait"} /\ perr[o] = "nil"
      BY <1>5, BeforeWait DEF GetRange, CopyEnds, CopyBeyond
    <2> QED BY <1>5, <2>1 DEF GetRange, CopyEnds, CopyBeyond, PartFails, fetch
  <1>6. ASSUME NEW o \in Offsets, CopyByte(o)
        PROVE  CancelHasCause' /\ ErrorsRecorded' /\ RootCause'
    BY <1>6 DEF CopyByte, fetch
  <1>7. ASSUME NEW o \in Offsets, Fail(o)
        PROVE  CancelHasCause' /\ ErrorsRecorded' /\ RootCause'
    <2>1. firstErr' # "nil" /\ (firstErr' = "ctx" => ctx)
      BY <1>7 DEF Fail
    <2> QED BY <1>7, <2>1 DEF Fail
  <1>8. ASSUME NEW o \in Offsets, FailCancels(o) \/ Release(o)
        PROVE  CancelHasCause' /\ ErrorsRecorded' /\ RootCause'
    BY <1>8 DEF FailCancels, Release, fetch
  <1> QED BY <1>1, <1>2, <1>3, <1>4, <1>5, <1>6, <1>7, <1>8 DEF Next, Main, Part

(* Nothing is under way any more when wg.Wait returns, and nothing is      *)
(* started afterwards.                                                     *)
LEMMA NextNoStragglers ==
  ASSUME IInv, [Next]_vars
  PROVE  NoStragglers'
  <1> USE DEF IInv, NoStragglers
  <1>1. CASE Launch /\ ~fctx /\ Running' = Running \cup {off}
    BY <1>1 DEF Launch
  <1>2. ASSUME NEW o \in Offsets, Release(o), o \in Running, Running' = Running \ {o}
        PROVE  NoStragglers'
    BY <1>2 DEF Release
  <1>3. CASE Running' = Running
    <2>1. CASE Stat
      <3>1. Running = {}
        BY <2>1 DEF Stat, LoopStarts, Running, Offsets, TypeOK
      <3> QED BY <1>3, <3>1
    <2>2. CASE Wait
      BY <1>3, <2>2 DEF Wait
    <2>3. CASE Cancel \/ Select \/ Launch \/ LoopEnds \/ Ended \/ UNCHANGED vars
      BY <1>3, <2>3 DEF Cancel, Select, Launch, LoopEnds, Ended, vars
    <2>4. CASE SingleGet \/ SingleByte \/ SingleEnds
      BY <1>3, <2>4 DEF SingleGet, SingleByte, SingleEnds
    <2>5. ASSUME NEW o \in Offsets, Part(o)
          PROVE  UNCHANGED pc
      BY <2>5 DEF Part, GetRange, CopyByte, CopyEnds, CopyBeyond, PartFails, Fail, FailCancels, Release
    <2> QED BY <1>3, <2>1, <2>2, <2>3, <2>4, <2>5 DEF Next, Main
  <1> QED BY <1>1, <1>2, <1>3, RunningChange

(* What was written stays written until a part fails, and a part's count   *)
(* follows its writes.                                                     *)
LEMMA NextWritten ==
  ASSUME IInv, [Next]_vars
  PROVE  PartsWritten' /\ LoopCompletes' /\ StreamWritten'
  <1> USE DEF IInv, TypeOK, PartsWritten, LoopCompletes, StreamWritten, NoneFailed
  <1>0. /\ \A o \in Offsets : o \in Nat /\ PartLen(o) \in Nat /\ got[o] \in Nat
        /\ PartsWritten /\ LoopCompletes /\ StreamWritten
    BY PartsFinite
  <1>2. CASE Launch
    <2>1. /\ UNCHANGED <<got, perr, written, at, result, ctx, firstErr>>
          /\ pc' \in {"select", "wait"} /\ (pc' = "wait" => fctx) /\ pc = "launch"
      BY <1>2 DEF Launch
    <2>2. \A o \in Offsets : part'[o] \in {"release", "ended"} => part'[o] = part[o]
      BY <1>2, LaunchedPart DEF Launch
    <2>3. LoopCompletes'
      BY <1>2, <2>1 DEF CancelHasCause
    <2>4. PartsWritten'
      BY <1>0, <2>1, <2>2
    <2>5. StreamWritten'
      BY <2>1
    <2> QED BY <2>3, <2>4, <2>5
  <1>3. CASE SingleByte
    <2>1. StreamWritten'
      BY <1>3 DEF SingleByte
    <2>2. UNCHANGED <<parts, pc>> /\ written \subseteq written'
      BY <1>3 DEF SingleByte
    <2>3. PartsWritten'
      BY <1>0, <2>2 DEF parts
    <2>4. LoopCompletes'
      BY <1>3 DEF SingleByte
    <2> QED BY <2>1, <2>3, <2>4
  <1>4. ASSUME NEW o \in Offsets, GetRange(o) \/ CopyEnds(o)
        PROVE  PartsWritten' /\ LoopCompletes' /\ StreamWritten'
    <2>1. UNCHANGED <<got, written, at, result, pc, ctx, fctx, off, firstErr>>
      BY <1>4 DEF GetRange, CopyEnds, fetch
    <2>2. \/ \E e \in Errors : perr' = [perr EXCEPT ![o] = e] /\ part' = [part EXCEPT ![o] = "fail"]
          \/ perr' = perr /\ part' = [part EXCEPT ![o] = "copy"]
          \/ perr' = perr /\ part' = [part EXCEPT ![o] = "release"] /\ got[o] = PartLen(o)
      BY <1>4 DEF GetRange, CopyEnds, PartFails
    <2>3. NoneFailed' => NoneFailed
      BY <2>2 DEF Errors
    <2>4. \A q \in Offsets : part'[q] \in {"release", "ended"} /\ perr'[q] = "nil" => got[q] = PartLen(q)
      BY <1>0, <2>2 DEF Errors
    <2>5. PartsWritten'
      BY <1>0, <2>1, <2>3, <2>4
    <2> QED BY <2>1, <2>5
  <1>7. ASSUME NEW o \in Offsets, CopyBeyond(o)
        PROVE  PartsWritten' /\ LoopCompletes' /\ StreamWritten'
    <2>1. UNCHANGED <<got, at, result, pc, ctx, fctx, off, firstErr>>
          /\ perr' = [perr EXCEPT ![o] = "io"] /\ part' = [part EXCEPT ![o] = "fail"]
      BY <1>7 DEF CopyBeyond, fetch
    <2>2. ~NoneFailed'
      BY <2>1
    <2>3. \A q \in Offsets : part'[q] \in {"release", "ended"} /\ perr'[q] = "nil" => got[q] = PartLen(q)
      BY <1>0, <2>1
    <2>4. PartsWritten'
      BY <1>0, <2>1, <2>2, <2>3
    <2>5. pc \in {"stat", "select", "launch", "wait"}
      BY <1>7, BeforeWait DEF CopyBeyond
    <2>6. StreamWritten'
      BY <1>0, <2>1, <2>5
    <2> QED BY <2>1, <2>4, <2>6
  <1>5. ASSUME NEW o \in Offsets, CopyByte(o)
        PROVE  PartsWritten' /\ LoopCompletes' /\ StreamWritten'
    <2>1. got[o] \in Nat /\ o \in Nat /\ PartLen(o) \in Nat
      BY <1>0
    <2>2. got'[o] = got[o] + 1 /\ got'[o] <= PartLen(o) /\ UNCHANGED <<part, perr, pc, at, result>>
      BY <1>5, <2>1 DEF CopyByte
    <2>3. NoneFailed => \A j \in 0..(got'[o] - 1) : o + j \in written'
      <3>1. \A j \in 0..(got'[o] - 1) : j \in 0..(got[o] - 1) \/ j = got[o]
        BY <2>1, <2>2
      <3>2. written' = written \cup {o + got[o]}
        BY <1>5 DEF CopyByte
      <3> QED BY <1>0, <3>1, <3>2
    <2>4. \A q \in Offsets \ {o} : got'[q] = got[q]
      BY <1>5 DEF CopyByte
    <2>5. PartsWritten'
      <3>1. written \subseteq written' /\ NoneFailed' = NoneFailed /\ part[o] = "copy"
        BY <1>5, <2>2 DEF CopyByte
      <3> QED BY <1>0, <2>2, <2>3, <2>4, <3>1
    <2>6. StreamWritten'
      BY <1>5, <2>2 DEF CopyByte
    <2> QED BY <1>5, <2>5, <2>6 DEF CopyByte, fetch
  <1>6. ASSUME NEW o \in Offsets, Fail(o) \/ FailCancels(o) \/ Release(o)
        PROVE  PartsWritten' /\ LoopCompletes' /\ StreamWritten'
    <2>1. UNCHANGED <<got, perr, written, at, result, pc, ctx, off>>
      BY <1>6 DEF Fail, FailCancels, Release, fetch
    <2>2. \A q \in Offsets : part'[q] \in {"release", "ended"} /\ perr[q] = "nil" => got[q] = PartLen(q)
      BY <1>0, <1>6 DEF Fail, FailCancels, Release, ErrorsRecorded
    <2>3. LoopCompletes'
      BY <1>6 DEF Fail, FailCancels, Release, fetch
    <2>4. PartsWritten'
      BY <1>0, <2>1, <2>2
    <2> QED BY <2>1, <2>3, <2>4
  <1>8. CASE Cancel \/ Stat \/ Select \/ LoopEnds \/ Wait \/ SingleGet \/ SingleEnds
             \/ Ended \/ UNCHANGED vars
    <2>1. UNCHANGED <<parts, written>>
      BY <1>8 DEF Cancel, Stat, Select, LoopEnds, Wait, SingleGet, SingleEnds, Ended, vars
    <2>2. PartsWritten'
      BY <1>0, <2>1 DEF parts
    <2>3. LoopCompletes'
      BY <1>8 DEF Cancel, Stat, Select, LoopEnds, Wait, DecideOn, Returns, SingleGet,
                  SingleEnds, Ended, vars, fetch
    <2>4. StreamWritten'
      BY <1>8, <2>1 DEF Cancel, Stat, Select, LoopEnds, Wait, DecideOn, Returns, SingleGet,
                  SingleEnds, Ended, vars, fetch
    <2> QED BY <2>2, <2>3, <2>4
  <1> QED BY <1>2, <1>3, <1>4, <1>5, <1>6, <1>7, <1>8 DEF Next, Main, Part

(* When the loop is through and no part has an error, every byte has been  *)
(* written by the part it lies in.                                         *)
LEMMA PartsComplete ==
  ASSUME IInv, Running = {}, pc = "wait", firstErr = "nil", ~ctx
  PROVE  written = 0..(Size - 1)
  <1> SUFFICES ASSUME NEW b \in 0..(Size - 1) PROVE b \in written
    BY DEF IInv, TypeOK
  <1>1. PICK o \in Offsets : \E j \in 0..(PartLen(o) - 1) : b = o + j
    BY PartOfByte
  <1>2. part[o] = "ended"
    BY OptsAssumption, PartsFinite DEF IInv, TypeOK, LoopStarts, LoopCompletes, Running
  <1>3. perr[o] = "nil"
    BY <1>2 DEF IInv, ErrorsRecorded
  <1>4. got[o] = PartLen(o)
    BY <1>2, <1>3 DEF IInv, PartsWritten
  <1>5. NoneFailed
    BY DEF IInv, TypeOK, ErrorsRecorded, NoneFailed, Running
  <1> QED BY <1>1, <1>4, <1>5 DEF IInv, PartsWritten

(* Success is reported only with every byte written.                       *)
LEMMA NextSuccess ==
  ASSUME IInv, [Next]_vars
  PROVE  SuccessIsComplete'
  <1> USE DEF IInv, SuccessIsComplete, MayFail, Errors
  <1>0. TypeOK'
    BY NextTypeOK
  <1>1. CASE Wait
    BY <1>1, PartsComplete DEF Wait, DecideOn, Returns
  <1>2. CASE SingleEnds
    <2>1. at = Size => written = 0..(Size - 1)
      BY DEF StreamWritten, TypeOK
    <2> QED BY <1>2, <2>1 DEF SingleEnds, Returns
  <1>3. CASE Stat \/ SingleGet
    BY <1>3 DEF Stat, SingleGet, Returns
  <1>4. CASE SingleByte
    BY <1>0, <1>4 DEF SingleByte, TypeOK
  <1>5. CASE Cancel \/ Select \/ Launch \/ LoopEnds \/ Ended \/ UNCHANGED vars
    BY <1>5 DEF Cancel, Select, Launch, LoopEnds, Ended, vars
  <1>6. ASSUME NEW o \in Offsets, Part(o)
        PROVE  SuccessIsComplete'
    <2>1. part[o] \notin {"none", "ended"} /\ UNCHANGED result
      BY <1>6 DEF Part, GetRange, CopyByte, CopyEnds, CopyBeyond, Fail, FailCancels, Release
    <2>2. result = "none"
      BY <2>1, BeforeWait DEF StreamWritten
    <2> QED BY <2>1, <2>2
  <1> QED BY <1>1, <1>2, <1>3, <1>4, <1>5, <1>6 DEF Next, Main

-----------------------------------------------------------------------------
(***************************************************************************)
(* FetchRangedAt keeps its inductive invariant.                            *)
(***************************************************************************)
THEOREM Inductive == Spec => []IInv
  <1>1. IInv /\ [Next]_vars => IInv'
    BY NextTypeOK, NextLoopStarts, NextTokensHeld, NextCauses, NextNoStragglers,
       NextWritten, NextSuccess DEF IInv
  <1> QED BY InitIInv, <1>1, PTL DEF Spec

(* Every variable keeps its type (fetchranged.go).                         *)
THEOREM TypeCorrect == Spec => []TypeOK
  <1>1. IInv => TypeOK
    BY DEF IInv
  <1> QED BY <1>1, Inductive, PTL

(***************************************************************************)
(* A fetch that reports success has written every byte of the object,      *)
(* unless the caller ended its context meanwhile, whether it was fetched   *)
(* in parts or as one stream (fetchranged.go:98, 126).                     *)
(***************************************************************************)
THEOREM Complete == Spec => []SuccessIsComplete
  <1>1. IInv => SuccessIsComplete
    BY DEF IInv
  <1> QED BY <1>1, Inductive, PTL

(***************************************************************************)
(* A context error is kept as the first error, or returned, only when the  *)
(* caller's context has ended: never the cancellation that a failed part   *)
(* caused in the others (fetchranged.go, fail).                            *)
(***************************************************************************)
THEOREM FirstErrorIsCause == Spec => []RootCause
  <1>1. IInv => RootCause
    BY DEF IInv
  <1> QED BY <1>1, Inductive, PTL

(***************************************************************************)
(* No part is under way once the single stream runs or FetchRangedAt has   *)
(* returned (wg.Wait, fetchranged.go:110).                                 *)
(***************************************************************************)
THEOREM PartsAreAwaited == Spec => []NoStragglers
  <1>1. IInv => NoStragglers
    BY DEF IInv
  <1> QED BY <1>1, Inductive, PTL

(***************************************************************************)
(* At most Concurrency parts are under way: each holds a token of the      *)
(* semaphore (fetchranged.go:79, 104).                                     *)
(***************************************************************************)
THEOREM ConcurrencyIsBound == Spec => []BoundedParts
  <1>1. IInv => BoundedParts
    BY RunningFinite, OptsAssumption DEF IInv, TypeOK, TokensHeld, BoundedParts
  <1> QED BY <1>1, Inductive, PTL
============================================================================
