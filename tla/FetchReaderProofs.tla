------------------------- MODULE FetchReaderProofs -------------------------
(***************************************************************************)
(* The safety of the ordered reader, for every size of the object and of   *)
(* its parts, and for every concurrency.                                   *)
(***************************************************************************)
EXTENDS FetchReader, FiniteSetTheorems, SequenceTheorems, TLAPS

(* The producer stands on the boundary of a part; the parts from there on  *)
(* have not been started.                                                  *)
OnBoundary ==
  /\ off % PartSize = 0
  /\ prod = "acquire" => off < Size
  /\ \A o \in Offsets : o >= off => part[o] = "none"

(* The semaphore counts the parts whose goroutines have not released it.   *)
Holding    == {o \in Offsets : part[o] \in {"get", "read", "sent"}}
TokensHeld == sem = Cardinality(Holding)

(* Where Read may be, and what it then holds.                              *)
Modes ==
  /\ pc # "idle" => last = "data" /\ ~closed
  /\ pc \in {"next", "result", "copy", "single"} => fellBack = -1
  /\ pc = "stream" => fellBack >= 0
  /\ pc = "single" => consumed = 0
  /\ fellBack >= 0 => consumed = fellBack
  /\ pc \in {"next", "result"} => cur[1] = cur[2]

(* The reader's context ends with the caller's, with Close, with an error  *)
(* that Read returns, and when Read degrades.                              *)
EndHasCause ==
  /\ rctx => ctx \/ closed \/ pc = "single" \/ fellBack >= 0 \/ last # "data"
  /\ \A o \in Offsets : perr[o] = "ctx" => rctx

(***************************************************************************)
(* While Read still takes parts: it has delivered what lies before the     *)
(* rest it holds, the next slot is the part after that, the slots in the   *)
(* channel follow one another, and the producer emits the one after them.  *)
(***************************************************************************)
Taking == fellBack = -1 /\ last = "data" /\ pc # "single"
Front  == IF pc # "result" /\ cur[2] = 0 THEN 0 ELSE slot + PartSize
Due    == IF slots = <<>> THEN Front ELSE slots[Len(slots)] + PartSize

InSequence ==
  Taking =>
    /\ consumed = cur[1]
    /\ pc = "result" => slot = consumed
    /\ pc # "result" /\ cur[2] # 0 => cur[2] = PartEnd(slot)
    /\ slots # <<>> => slots[1] = Front
    /\ \A j \in 1..(Len(slots) - 1) : slots[j + 1] = slots[j] + PartSize
    /\ prod = "offer" => off = Due
    /\ prod = "acquire" => off + PartSize = Due
    /\ prod = "closed" => rctx \/ (off >= Size /\ off = Due)

(***************************************************************************)
(* A part that was offered and has not sent its result is in the channel,  *)
(* or is the one Read waits for, or has given up on for good.              *)
(***************************************************************************)
Open(o) == part[o] \in {"get", "read"} \/ (prod = "acquire" /\ off = o)

Accounted ==
  \A o \in Offsets :
    Open(o) => \/ \E j \in 1..Len(slots) : slots[j] = o
               \/ slot = o /\ (pc = "result" \/ ~Taking)

IInv ==
  /\ TypeOK /\ OnBoundary /\ TokensHeld /\ Len(slots) <= Concurrency
  /\ Modes /\ EndHasCause /\ InSequence /\ Accounted
  /\ DeliversInOrder /\ EOFIsComplete /\ ContextErrorIsCallers

-----------------------------------------------------------------------------
(* The options, for an object that is not below the threshold.             *)
LEMMA Opts ==
  Size \in Nat \ {0} /\ PartSize \in Nat \ {0} /\ Concurrency \in Nat \ {0}
BY OptsAssumption, SizeAssumption

(* Division with remainder.                                                *)
LEMMA Quotient ==
  ASSUME NEW a \in Nat, NEW p \in Nat \ {0}
  PROVE  a = p * (a \div p) + (a % p) /\ a \div p \in Nat
BY Z3

(* A multiple of p leaves no remainder.                                    *)
LEMMA MultipleOf ==
  ASSUME NEW a \in Nat, NEW p \in Nat \ {0}
  PROVE  (p * a) % p = 0
BY Z3

(* The producer's step leads from one multiple of PartSize to the next.    *)
LEMMA NextMultiple ==
  ASSUME NEW a \in Nat, NEW p \in Nat \ {0}, a % p = 0
  PROVE  (a + p) % p = 0
<1> DEFINE q == a \div p
<1>1. a = p * q /\ q \in Nat
  BY Quotient
<1> HIDE DEF q
<1>2. a + p = p * (q + 1)
  BY <1>1, Z3
<1>3. (p * (q + 1)) % p = 0
  BY <1>1, MultipleOf
<1> QED
  BY <1>2, <1>3

(* There are finitely many parts; a part is not empty and ends within the  *)
(* object, with the next part or with the object.                          *)
LEMMA PartsFinite ==
  /\ IsFiniteSet(Offsets) /\ 0 \in Offsets
  /\ \A o \in Offsets : /\ o \in 0..(Size - 1) /\ PartEnd(o) \in (o + 1)..Size
                        /\ PartEnd(o) = o + PartSize \/ PartEnd(o) = Size
                        /\ o + PartSize < Size => PartEnd(o) = o + PartSize
                        /\ o + PartSize >= Size => PartEnd(o) = Size
<1>1. IsFiniteSet(0..(Size - 1))
  BY FS_Interval, Opts
<1>2. Offsets \subseteq 0..(Size - 1)
  BY DEF Offsets
<1>3. IsFiniteSet(Offsets)
  BY <1>1, <1>2, FS_Subset
<1>4. 0 % PartSize = 0
  BY Opts, Z3
<1> QED
  BY <1>2, <1>3, <1>4, Opts DEF PartEnd, Offsets

LEMMA HoldingFinite == IsFiniteSet(Holding) /\ Cardinality(Holding) \in Nat
<1>1. Holding \subseteq Offsets
  BY DEF Holding
<1> QED
  BY <1>1, PartsFinite, FS_Subset, FS_CardinalityType

(* The offsets of a stretch of the object are a sequence of offsets.       *)
LEMMA BytesType ==
  ASSUME NEW a \in 0..Size, NEW b \in a..Size
  PROVE  /\ Bytes(a, b) \in Seq(0..(Size - 1)) /\ Len(Bytes(a, b)) = b - a
         /\ \A k \in 1..(b - a) : Bytes(a, b)[k] = a + k - 1
<1>0. Size \in Nat /\ a \in Nat /\ b \in Nat /\ b - a \in Nat
  BY Opts
<1>1. \A k \in 1..(b - a) : a + k - 1 \in 0..(Size - 1)
  BY <1>0
<1> QED
  BY <1>0, <1>1 DEF Bytes

LEMMA BytesFromStart ==
  ASSUME NEW b \in 0..Size
  PROVE  /\ Bytes(0, b) \in Seq(0..(Size - 1)) /\ Len(Bytes(0, b)) = b
         /\ \A k \in 1..b : Bytes(0, b)[k] = k - 1
<1>1. /\ 0 \in 0..Size /\ b \in 0..Size /\ b - 0 = b /\ b \in Nat
      /\ \A k \in 1..b : 0 + k - 1 = k - 1
  BY Opts
<1>2. /\ Bytes(0, b) \in Seq(0..(Size - 1)) /\ Len(Bytes(0, b)) = b - 0
      /\ \A k \in 1..(b - 0) : Bytes(0, b)[k] = 0 + k - 1
  BY <1>1, BytesType
<1> QED
  BY <1>1, <1>2

(* ... and the stretch that follows it extends it.                         *)
LEMMA BytesFollow ==
  ASSUME NEW a \in 0..Size, NEW b \in a..Size
  PROVE  Bytes(0, a) \o Bytes(a, b) = Bytes(0, b)
<1> DEFINE s == Bytes(0, a)
           t == Bytes(a, b)
           u == Bytes(0, b)
<1>0. Size \in Nat /\ a \in Nat /\ b \in Nat /\ 0 \in 0..Size /\ a <= b /\ b \in 0..Size
      /\ a \in 0..Size
  BY Opts
<1>1. /\ s \in Seq(0..(Size - 1)) /\ Len(s) = a /\ \A k \in 1..a : s[k] = k - 1
      /\ u \in Seq(0..(Size - 1)) /\ Len(u) = b /\ \A k \in 1..b : u[k] = k - 1
      /\ t \in Seq(0..(Size - 1)) /\ Len(t) = b - a /\ \A k \in 1..(b - a) : t[k] = a + k - 1
  BY <1>0, BytesType, BytesFromStart
<1> HIDE DEF s, t, u
<1>2. /\ s \o t \in Seq(0..(Size - 1)) /\ Len(s \o t) = b
      /\ \A k \in 1..b : (s \o t)[k] = IF k <= a THEN s[k] ELSE t[k - a]
  <2>1. /\ s \o t \in Seq(0..(Size - 1)) /\ Len(s \o t) = Len(s) + Len(t)
        /\ \A k \in 1..(Len(s) + Len(t)) :
             (s \o t)[k] = IF k <= Len(s) THEN s[k] ELSE t[k - Len(s)]
    BY <1>1, ConcatProperties
  <2>2. Len(s) + Len(t) = b
    BY <1>0, <1>1
  <2> QED
    BY <1>1, <2>1, <2>2
<1>3. ASSUME NEW k \in 1..b
      PROVE  (s \o t)[k] = u[k]
  <2>0. k \in Nat /\ (k <= a \/ k > a)
    <3>1. k \in Nat
      BY <1>0
    <3> QED
      BY <1>0, <3>1
  <2>1. CASE k <= a
    BY <1>0, <1>1, <1>2, <2>1
  <2>2. CASE k > a
    <3>1. k - a \in 1..(b - a) /\ a + (k - a) - 1 = k - 1 /\ ~(k <= a)
      BY <1>0, <2>0, <2>2
    <3>2. (s \o t)[k] = t[k - a]
      BY <1>2, <3>1
    <3>3. t[k - a] = k - 1 /\ u[k] = k - 1
      BY <1>1, <3>1
    <3> QED
      BY <3>2, <3>3
  <2> QED
    BY <2>0, <2>1, <2>2, Zenon
<1>4. s \o t = u
  BY <1>0, <1>1, <1>2, <1>3, SeqEqual
<1> QED
  BY <1>4 DEF s, t, u

(* The initial state satisfies the invariant.                              *)
LEMMA InitIInv == Init => IInv
<1> SUFFICES ASSUME Init PROVE IInv
  OBVIOUS
<1> USE Opts DEF Init
<1>1. TypeOK
  <2>1. cur \in (0..Size) \X (0..Size) /\ fellBack \in -1..Size /\ slot \in Offsets
    BY PartsFinite
  <2> QED
    BY <2>1 DEF TypeOK, Errors
<1>2. OnBoundary
  <2>1. 0 % PartSize = 0
    BY Z3
  <2> QED
    BY <2>1 DEF OnBoundary
<1>3. TokensHeld
  <2>1. Holding = {}
    BY DEF Holding
  <2> QED
    BY <2>1, FS_EmptySet DEF TokensHeld
<1>4. Len(slots) <= Concurrency /\ Modes /\ EndHasCause
  BY DEF Modes, EndHasCause, consumed
<1>5. InSequence
  BY DEF InSequence, Taking, Front, Due, consumed
<1>6. DeliversInOrder /\ EOFIsComplete /\ ContextErrorIsCallers
  BY DEF DeliversInOrder, EOFIsComplete, ContextErrorIsCallers, Bytes, consumed
<1>7. Accounted
  BY DEF Accounted, Open
<1> QED
  BY <1>1, <1>2, <1>3, <1>4, <1>5, <1>6, <1>7 DEF IInv

-----------------------------------------------------------------------------
(* What the producer starts next has not been started.                     *)
LEMMA NextPart ==
  ASSUME TypeOK, OnBoundary, off < Size
  PROVE  off \in Offsets /\ part[off] = "none" /\ off \notin Holding
BY Opts DEF TypeOK, OnBoundary, Offsets, Holding

(* Only Acquire and Release change who holds a token.                      *)
LEMMA HoldingChange ==
  ASSUME TypeOK, OnBoundary, [Next]_vars
  PROVE  \/ Holding' = Holding /\ sem' = sem
         \/ Acquire /\ Holding' = Holding \cup {off}
         \/ \E o \in Offsets : Release(o) /\ o \in Holding /\ Holding' = Holding \ {o}
<1>0. part \in [Offsets -> {"none", "get", "read", "sent", "ended"}]
  BY DEF TypeOK
<1>1. CASE Acquire
  <2>1. off \in Offsets
    BY <1>1, NextPart DEF Acquire, OnBoundary
  <2> QED
    BY <1>0, <1>1, <2>1 DEF Acquire, Holding
<1>2. ASSUME NEW o \in Offsets, Release(o)
      PROVE  o \in Holding /\ Holding' = Holding \ {o}
  BY <1>0, <1>2 DEF Release, Holding
<1>3. ASSUME NEW o \in Offsets, GetRange(o) \/ PartFails(o) \/ ReadFull(o)
      PROVE  Holding' = Holding /\ sem' = sem
  BY <1>0, <1>3 DEF GetRange, PartFails, ReadFull, Holding
<1>4. CASE UNCHANGED <<part, sem>>
  BY <1>4 DEF Holding
<1>5. CASE Cancel \/ Offer \/ ProduceEnds \/ Read \/ InRead \/ Close \/ UNCHANGED vars
  <2>1. UNCHANGED <<part, sem>>
    BY <1>5 DEF Cancel, Offer, ProduceEnds, Read, InRead, NextSlot, TakeResult, TakeError,
                ResultCancelled, CopyOut, SingleGet, SingleRead, Close, vars
  <2> QED
    BY <1>4, <2>1
<1> QED
  BY <1>1, <1>2, <1>3, <1>5 DEF Next, Produce, Part

LEMMA NextTokensHeld ==
  ASSUME TypeOK, OnBoundary, TokensHeld, [Next]_vars
  PROVE  TokensHeld' /\ sem' \in Nat
<1>0. sem \in Nat /\ sem = Cardinality(Holding) /\ IsFiniteSet(Holding)
  BY HoldingFinite DEF TypeOK, TokensHeld
<1>1. CASE Holding' = Holding /\ sem' = sem
  BY <1>0, <1>1 DEF TokensHeld
<1>2. CASE Acquire /\ Holding' = Holding \cup {off}
  <2>1. off \notin Holding /\ sem' = sem + 1
    BY <1>2, NextPart DEF Acquire, OnBoundary
  <2>2. Cardinality(Holding \cup {off}) = Cardinality(Holding) + 1
    BY <1>0, <2>1, FS_AddElement
  <2> QED
    BY <1>0, <1>2, <2>1, <2>2 DEF TokensHeld
<1>3. ASSUME NEW o \in Offsets, Release(o), o \in Holding, Holding' = Holding \ {o}
      PROVE  TokensHeld' /\ sem' \in Nat
  <2>1. Cardinality(Holding \ {o}) = Cardinality(Holding) - 1
    BY <1>0, <1>3, FS_RemoveElement
  <2>2. Cardinality(Holding) # 0
    BY <1>0, <1>3, FS_EmptySet
  <2> QED
    BY <1>0, <1>3, <2>1, <2>2 DEF Release, TokensHeld
<1> QED
  BY <1>1, <1>2, <1>3, HoldingChange

LEMMA NextOnBoundary ==
  ASSUME TypeOK, OnBoundary, [Next]_vars
  PROVE  OnBoundary'
<1>0. /\ part \in [Offsets -> {"none", "get", "read", "sent", "ended"}] /\ off \in Nat
      /\ PartSize \in Nat \ {0} /\ Offsets \subseteq Nat
  BY Opts DEF TypeOK, Offsets
<1>1. CASE Acquire
  <2>1. off' = off + PartSize /\ prod' = "offer" /\ part' = [part EXCEPT ![off] = "get"]
    BY <1>1 DEF Acquire
  <2>2. off' % PartSize = 0
    BY <1>0, <2>1, NextMultiple DEF OnBoundary
  <2>3. \A o \in Offsets : o >= off' => part'[o] = "none"
    BY <1>0, <2>1 DEF OnBoundary
  <2> QED
    BY <2>1, <2>2, <2>3 DEF OnBoundary
<1>2. ASSUME NEW o \in Offsets, Part(o)
      PROVE  OnBoundary'
  BY <1>0, <1>2 DEF Part, GetRange, PartFails, ReadFull, Release, OnBoundary, producer
<1>3. CASE Offer \/ ProduceEnds
  BY <1>0, <1>3 DEF Offer, ProduceEnds, OnBoundary
<1>4. CASE Cancel \/ Read \/ InRead \/ Close \/ UNCHANGED vars
  BY <1>4 DEF Cancel, Read, InRead, NextSlot, TakeResult, TakeError, ResultCancelled, CopyOut,
              SingleGet, SingleRead, Close, vars, producer, OnBoundary
<1> QED
  BY <1>1, <1>2, <1>3, <1>4 DEF Next, Produce

(* The number of slots in the channel is bounded.                          *)
LEMMA NextSlots ==
  ASSUME TypeOK, OnBoundary, Len(slots) <= Concurrency, [Next]_vars
  PROVE  Len(slots)' <= Concurrency /\ slots' \in Seq(Offsets)
<1>0. slots \in Seq(Offsets) /\ Concurrency \in Nat /\ off \in Nat
  BY Opts DEF TypeOK
<1>1. CASE Offer
  BY <1>0, <1>1, NextPart DEF Offer
<1>2. CASE NextSlot
  <2>1. CASE slots # <<>> /\ slots' = Tail(slots)
    BY <1>0, <2>1, HeadTailProperties
  <2>2. CASE UNCHANGED slots
    BY <1>0, <2>2
  <2> QED
    BY <1>2, <2>1, <2>2 DEF NextSlot
<1>3. CASE UNCHANGED slots
  BY <1>0, <1>3
<1>4. ASSUME NEW o \in Offsets, Part(o)
      PROVE  UNCHANGED slots
  BY <1>4 DEF Part, GetRange, PartFails, ReadFull, Release
<1> QED
  BY <1>1, <1>2, <1>3, <1>4 DEF Next, Produce, Cancel, Acquire, ProduceEnds, Read, InRead, Close,
     TakeResult, TakeError, ResultCancelled, CopyOut, SingleGet, SingleRead, vars

(* What Read delivers in one step lies within the object, in sequence.     *)
LEMMA NextDelivered ==
  ASSUME TypeOK, Modes, InSequence, DeliversInOrder, [Next]_vars
  PROVE  /\ delivered' \in Seq(0..(Size - 1)) /\ DeliversInOrder'
         /\ consumed' = IF CopyOut THEN consumed + (cur'[1] - cur[1])
                        ELSE IF SingleRead THEN consumed + (fellBack' - fellBack)
                        ELSE consumed
<1>0. /\ delivered \in Seq(0..(Size - 1)) /\ Size \in Nat /\ fellBack \in -1..Size
      /\ cur[1] \in 0..Size /\ cur[2] \in 0..Size /\ consumed \in Nat
      /\ delivered = Bytes(0, consumed) /\ 0 \in 0..Size
  BY Opts DEF TypeOK, consumed, DeliversInOrder
<1>1. CASE CopyOut
  <2>1. PICK m \in 1..(cur[2] - cur[1]) :
          /\ delivered' = delivered \o Bytes(cur[1], cur[1] + m)
          /\ cur' = <<cur[1] + m, cur[2]>>
    BY <1>1 DEF CopyOut
  <2>2. consumed = cur[1]
    BY <1>1 DEF CopyOut, Modes, InSequence, Taking
  <2>3. cur[1] + m \in cur[1]..Size /\ cur[1] + m \in 0..Size /\ cur'[1] = cur[1] + m
    BY <1>0, <2>1
  <2>4. delivered' = Bytes(0, cur[1] + m)
    BY <1>0, <2>1, <2>2, <2>3, BytesFollow
  <2>5. Bytes(0, cur[1] + m) \in Seq(0..(Size - 1)) /\ Len(Bytes(0, cur[1] + m)) = cur[1] + m
    BY <2>3, BytesFromStart
  <2> QED
    BY <1>0, <1>1, <2>2, <2>3, <2>4, <2>5 DEF DeliversInOrder, consumed
<1>2. CASE SingleRead /\ ~CopyOut
  <2>1. CASE UNCHANGED <<fellBack, delivered>>
    BY <1>0, <1>2, <2>1 DEF DeliversInOrder, consumed
  <2>2. CASE /\ fellBack < Size /\ delivered' = Append(delivered, fellBack)
             /\ fellBack' = fellBack + 1
    <3>1. fellBack >= 0 /\ consumed = fellBack
      BY <1>2 DEF SingleRead, Modes
    <3>2. fellBack \in 0..(Size - 1) /\ fellBack \in 0..Size /\ fellBack + 1 \in fellBack..Size
          /\ fellBack + 1 \in 0..Size
      BY <1>0, <2>2, <3>1
    <3>3. /\ delivered' \in Seq(0..(Size - 1)) /\ Len(delivered') = fellBack + 1
          /\ \A k \in 1..(fellBack + 1) : delivered'[k] = IF k <= fellBack THEN delivered[k] ELSE fellBack
      BY <1>0, <2>2, <3>1, <3>2, AppendProperties DEF consumed
    <3>4. /\ Bytes(0, fellBack) = delivered /\ Bytes(0, fellBack + 1) \in Seq(0..(Size - 1))
          /\ Len(Bytes(0, fellBack + 1)) = fellBack + 1
          /\ \A k \in 1..(fellBack + 1) : Bytes(0, fellBack + 1)[k] = k - 1
          /\ \A k \in 1..fellBack : Bytes(0, fellBack)[k] = k - 1
      BY <1>0, <3>1, <3>2, BytesFromStart
    <3>5. ASSUME NEW k \in 1..(fellBack + 1)
          PROVE  delivered'[k] = Bytes(0, fellBack + 1)[k]
      <4>0. fellBack \in Nat /\ Bytes(0, fellBack + 1)[k] = k - 1
        BY <3>2, <3>4, SizeAssumption, OptsAssumption
      <4>1. CASE k <= fellBack
        <5>1. k \in 1..fellBack
          BY <4>0, <4>1
        <5>2. delivered[k] = k - 1
          BY <3>4, <5>1
        <5> QED BY <3>3, <4>0, <4>1, <5>2
      <4>2. CASE k = fellBack + 1
        <5>1. delivered'[k] = fellBack
          BY <3>3, <4>0, <4>2
        <5> QED BY <4>0, <4>2, <5>1
      <4> QED BY <4>0, <4>1, <4>2
    <3>6. delivered' = Bytes(0, fellBack + 1)
      BY <3>3, <3>4, <3>5, SeqEqual
    <3> QED
      BY <1>0, <1>2, <2>2, <3>1, <3>3, <3>6 DEF DeliversInOrder, consumed
  <2> QED
    BY <1>2, <2>1, <2>2 DEF SingleRead
<1>3. ASSUME NEW o \in Offsets, Part(o)
      PROVE  UNCHANGED delivered
  BY <1>3 DEF Part, GetRange, PartFails, ReadFull, Release, reader
<1>4. CASE ~CopyOut /\ ~SingleRead
  <2>1. UNCHANGED delivered
    BY <1>3, <1>4 DEF Next, Produce, Offer, Cancel, Acquire, ProduceEnds, Read, InRead, Close,
       NextSlot, TakeResult, TakeError, ResultCancelled, SingleGet, vars, reader
  <2> QED
    BY <1>0, <1>4, <2>1 DEF DeliversInOrder, consumed
<1> QED
  BY <1>1, <1>2, <1>4

LEMMA NextTypeOK ==
  ASSUME IInv, [Next]_vars
  PROVE  TypeOK'
<1>0. TypeOK /\ OnBoundary /\ TokensHeld /\ Modes /\ InSequence
  BY DEF IInv
<1>1. sem' \in Nat /\ slots' \in Seq(Offsets) /\ delivered' \in Seq(0..(Size - 1))
  BY NextTokensHeld, NextSlots, NextDelivered DEF IInv
<1>t. /\ ctx \in BOOLEAN /\ rctx \in BOOLEAN /\ prod \in {"offer", "acquire", "closed"}
      /\ off \in Nat /\ slots \in Seq(Offsets)
      /\ part \in [Offsets -> {"none", "get", "read", "sent", "ended"}]
      /\ perr \in [Offsets -> Errors \cup {"nil"}]
      /\ pc \in {"idle", "next", "result", "copy", "single", "stream"}
      /\ slot \in Offsets /\ cur \in (0..Size) \X (0..Size)
      /\ fellBack \in -1..Size /\ closed \in BOOLEAN
      /\ last \in Errors \cup {"data", "EOF"}
      /\ Size \in Nat \ {0} /\ PartSize \in Nat \ {0}
  BY <1>0, Opts DEF TypeOK
<1>2. CASE Cancel \/ Read \/ Close \/ UNCHANGED vars
  BY <1>1, <1>t, <1>2 DEF Cancel, Read, Close, vars, producer, reader, TypeOK
<1>3. CASE Produce
  <2>1. prod' \in {"offer", "acquire", "closed"} /\ off' \in Nat
    BY <1>t, <1>3 DEF Produce, Offer, Acquire, ProduceEnds
  <2>2. part' \in [Offsets -> {"none", "get", "read", "sent", "ended"}]
    BY <1>t, <1>3 DEF Produce, Offer, Acquire, ProduceEnds
  <2> QED
    BY <1>1, <1>t, <1>3, <2>1, <2>2 DEF Produce, Offer, Acquire, ProduceEnds, reader, TypeOK
<1>4. ASSUME NEW o \in Offsets, Part(o)
      PROVE  TypeOK'
  <2>1. part' \in [Offsets -> {"none", "get", "read", "sent", "ended"}]
        /\ perr' \in [Offsets -> Errors \cup {"nil"}]
    BY <1>t, <1>4 DEF Part, GetRange, PartFails, ReadFull, Release
  <2> QED
    BY <1>1, <1>t, <1>4, <2>1 DEF Part, GetRange, PartFails, ReadFull, Release, producer, reader, TypeOK
<1>5. CASE InRead
  <2>1. /\ pc' \in {"idle", "next", "result", "copy", "single", "stream"}
        /\ rctx' \in BOOLEAN
    BY <1>t, <1>5 DEF InRead, NextSlot, TakeResult, TakeError, ResultCancelled, CopyOut,
                      SingleGet, SingleRead, Returns
  <2>2. last' \in Errors \cup {"data", "EOF"}
    BY <1>t, <1>5 DEF InRead, NextSlot, TakeResult, TakeError, ResultCancelled, CopyOut,
                      SingleGet, SingleRead, Returns, Errors
  <2>3. slot' \in Offsets
    BY <1>t, <1>5, HeadTailProperties DEF InRead, NextSlot, TakeResult, TakeError,
         ResultCancelled, CopyOut, SingleGet, SingleRead
  <2>4. cur' \in (0..Size) \X (0..Size)
    <3>1. CASE TakeResult
      <4>1. slot \in 0..Size /\ PartEnd(slot) \in 0..Size
        BY <1>t, PartsFinite
      <4> QED
        BY <3>1, <4>1 DEF TakeResult
    <3>2. CASE CopyOut
      <4>1. PICK m \in 1..(cur[2] - cur[1]) : cur' = <<cur[1] + m, cur[2]>>
        BY <3>2 DEF CopyOut
      <4>2. cur[1] + m \in 0..Size /\ cur[2] \in 0..Size
        BY <1>t
      <4> QED
        BY <4>1, <4>2
    <3>3. CASE ~TakeResult /\ ~CopyOut
      BY <1>t, <1>5, <3>3 DEF InRead, NextSlot, TakeError, ResultCancelled, SingleGet, SingleRead
    <3> QED
      BY <3>1, <3>2, <3>3
  <2>5. fellBack' \in -1..Size
    BY <1>0, <1>t, <1>5 DEF InRead, NextSlot, TakeResult, TakeError, ResultCancelled, CopyOut,
         SingleGet, SingleRead, Modes
  <2>6. UNCHANGED <<ctx, prod, off, part, perr, closed>>
    BY <1>5 DEF InRead, NextSlot, TakeResult, TakeError, ResultCancelled, CopyOut,
                SingleGet, SingleRead, producer
  <2> QED
    BY <1>1, <1>t, <2>1, <2>2, <2>3, <2>4, <2>5, <2>6 DEF TypeOK
<1> QED
  BY <1>2, <1>3, <1>4, <1>5 DEF Next

-----------------------------------------------------------------------------
(* Read's modes, and the causes of its errors.                             *)
LEMMA NextModes ==
  ASSUME IInv, [Next]_vars
  PROVE  Modes' /\ EndHasCause' /\ ContextErrorIsCallers'
<1>0. /\ Modes /\ EndHasCause /\ ContextErrorIsCallers
      /\ perr \in [Offsets -> Errors \cup {"nil"}] /\ slot \in Offsets
      /\ pc \in {"idle", "next", "result", "copy", "single", "stream"}
      /\ cur[1] \in 0..Size /\ cur[2] \in 0..Size /\ fellBack \in -1..Size /\ Size \in Nat
      /\ rctx \in BOOLEAN /\ ctx \in BOOLEAN
  BY Opts DEF IInv, TypeOK
<1>c. /\ consumed \in Nat
      /\ ~CopyOut /\ ~SingleRead => consumed' = consumed
      /\ SingleRead /\ ~CopyOut => consumed' = consumed + (fellBack' - fellBack)
  BY NextDelivered DEF IInv, TypeOK, consumed
<1>1. CASE Cancel \/ Produce \/ UNCHANGED vars
  BY <1>0, <1>1 DEF Cancel, Produce, Offer, Acquire, ProduceEnds, vars, reader, producer,
                    Modes, EndHasCause, ContextErrorIsCallers, consumed
<1>2. ASSUME NEW o \in Offsets, Part(o)
      PROVE  Modes' /\ EndHasCause' /\ ContextErrorIsCallers'
  <2>1. UNCHANGED <<ctx, rctx, pc, cur, fellBack, closed, delivered, last>>
    BY <1>2 DEF Part, GetRange, PartFails, ReadFull, Release, reader
  <2>2. \A x \in Offsets : perr'[x] = "ctx" => rctx
    BY <1>0, <1>2 DEF Part, GetRange, PartFails, ReadFull, Release, MayFail, EndHasCause
  <2> QED
    BY <1>0, <2>1, <2>2 DEF Modes, EndHasCause, ContextErrorIsCallers, consumed
<1>3. CASE Read \/ Close
  BY <1>0, <1>3 DEF Read, Close, Modes, EndHasCause, ContextErrorIsCallers, consumed
<1>4. CASE NextSlot
  BY <1>0, <1>4 DEF NextSlot, Returns, Modes, EndHasCause, ContextErrorIsCallers, consumed
<1>5. CASE TakeResult
  BY <1>0, <1>5 DEF TakeResult, Modes, EndHasCause, ContextErrorIsCallers, consumed
<1>6. CASE TakeError \/ ResultCancelled
  <2>1. /\ pc = "result" /\ last = "data" /\ ~closed /\ fellBack = -1 /\ (rctx => ctx)
        /\ perr[slot] = "ctx" => rctx
    BY <1>0, <1>6 DEF TakeError, ResultCancelled, Modes, EndHasCause
  <2>2. UNCHANGED <<ctx, perr, cur, fellBack, closed, delivered>>
    BY <1>6 DEF TakeError, ResultCancelled
  <2>3. /\ pc' \in {"idle", "single"} /\ (rctx => rctx')
        /\ pc' = "single" => last' = last /\ consumed = 0
        /\ pc' = "idle" => last' # "data" /\ (last' = "ctx" => rctx)
    BY <1>0, <1>6, <2>1 DEF TakeError, ResultCancelled, Returns, Degrades, Errors
  <2> QED
    BY <1>0, <2>1, <2>2, <2>3 DEF Modes, EndHasCause, ContextErrorIsCallers, consumed
<1>7. CASE CopyOut
  BY <1>0, <1>7 DEF CopyOut, Returns, Modes, EndHasCause, ContextErrorIsCallers
<1>8. CASE SingleGet
  BY <1>0, <1>8 DEF SingleGet, Returns, MayFail, Errors, Modes, EndHasCause,
                    ContextErrorIsCallers, consumed
<1>9. CASE SingleRead /\ ~CopyOut
  <2>1. pc = "stream" /\ fellBack >= 0 /\ consumed = fellBack
    BY <1>0, <1>9 DEF SingleRead, Modes
  <2>2. fellBack' >= 0 /\ consumed' = fellBack' /\ pc' = "idle"
    BY <1>0, <1>c, <1>9, <2>1 DEF SingleRead, Returns
  <2>3. (last' = "ctx" => ctx) /\ UNCHANGED <<ctx, rctx, perr, closed, cur>>
    BY <1>9 DEF SingleRead, Returns, MayFail
  <2> QED
    BY <1>0, <2>2, <2>3 DEF Modes, EndHasCause, ContextErrorIsCallers
<1> QED
  BY <1>1, <1>2, <1>3, <1>4, <1>5, <1>6, <1>7, <1>8, <1>9 DEF Next, InRead

(* The slots stay in sequence, and so does what Read takes from them.      *)
LEMMA NextInSequence ==
  ASSUME IInv, [Next]_vars
  PROVE  InSequence'
<1>0. /\ Modes /\ InSequence /\ TypeOK
      /\ perr \in [Offsets -> Errors \cup {"nil"}] /\ slot \in Offsets /\ slot \in Nat
      /\ cur[1] \in 0..Size /\ cur[2] \in 0..Size /\ fellBack \in -1..Size /\ Size \in Nat
      /\ PartSize \in Nat \ {0} /\ slots \in Seq(Offsets) /\ Len(slots) \in Nat /\ off \in Nat
      /\ Offsets \subseteq Nat /\ consumed \in Nat
  BY Opts DEF IInv, TypeOK, Offsets, consumed
<1>c. /\ ~CopyOut /\ ~SingleRead => consumed' = consumed
      /\ CopyOut => consumed' = consumed + (cur'[1] - cur[1])
  BY NextDelivered DEF IInv
<1>1. CASE Cancel \/ Close
  BY <1>0, <1>1 DEF Cancel, Close, producer, reader, InSequence, Taking, Front, Due, consumed
<1>2. CASE Offer
  <2>0. UNCHANGED <<pc, slot, cur, fellBack, delivered, last, off>> /\ prod' = "acquire"
        /\ prod = "offer" /\ slots' = Append(slots, off)
    BY <1>2 DEF Offer, reader
  <2> SUFFICES ASSUME Taking' PROVE InSequence'
    BY DEF InSequence
  <2>1. Taking /\ off = Due /\ Front' = Front
    BY <1>0, <2>0 DEF Taking, InSequence, Front
  <2>2. /\ Len(slots') = Len(slots) + 1 /\ slots' # <<>> /\ slots'[Len(slots) + 1] = off
        /\ \A j \in 1..Len(slots) : slots'[j] = slots[j]
    BY <1>0, <2>0
  <2>3. slots'[1] = Front /\ Due' = off + PartSize
    <3>1. CASE slots = <<>>
      BY <1>0, <2>1, <2>2, <3>1 DEF Due
    <3>2. CASE slots # <<>>
      <4>1. Len(slots) >= 1 /\ slots[1] = Front
        BY <1>0, <2>1, <3>2 DEF InSequence
      <4> QED
        BY <1>0, <2>2, <4>1 DEF Due
    <3> QED
      BY <3>1, <3>2
  <2>4. ASSUME NEW j \in 1..(Len(slots') - 1)
        PROVE  slots'[j + 1] = slots'[j] + PartSize
    <3>1. CASE j < Len(slots)
      BY <1>0, <2>1, <2>2, <3>1 DEF InSequence
    <3>2. CASE j = Len(slots)
      <4>1. slots # <<>>
        BY <1>0, <3>2
      <4> QED
        BY <1>0, <2>1, <2>2, <3>2, <4>1 DEF Due
    <3> QED
      BY <1>0, <2>2, <3>1, <3>2
  <2> QED
    BY <1>0, <2>0, <2>1, <2>2, <2>3, <2>4 DEF InSequence, consumed
<1>3. CASE Acquire
  BY <1>0, <1>3 DEF Acquire, reader, InSequence, Taking, Front, Due, consumed
<1>4. CASE ProduceEnds
  BY <1>0, <1>4 DEF ProduceEnds, reader, InSequence, Taking, Front, Due, consumed
<1>5. ASSUME NEW o \in Offsets, Part(o)
      PROVE  InSequence'
  BY <1>0, <1>5 DEF Part, GetRange, PartFails, ReadFull, Release, producer, reader,
                    InSequence, Taking, Front, Due, consumed
<1>6. CASE Read
  <2>1. /\ pc = "idle" /\ pc' \in {"stream", "next", "copy"}
        /\ UNCHANGED <<rctx, prod, off, slots, slot, cur, fellBack, delivered, last>>
    BY <1>6 DEF Read, producer
  <2> QED
    BY <1>0, <2>1 DEF InSequence, Taking, Front, Due, consumed
<1>7. CASE NextSlot
  <2>1. CASE last' = "EOF"
    BY <2>1 DEF InSequence, Taking
  <2>2. CASE /\ slots # <<>> /\ slot' = Head(slots) /\ slots' = Tail(slots)
             /\ pc' = "result" /\ UNCHANGED last
    <3>1. /\ pc = "next" /\ Taking /\ cur[1] = cur[2]
          /\ UNCHANGED <<rctx, prod, off, cur, fellBack, delivered>>
      BY <1>0, <1>7 DEF NextSlot, Modes, Taking, producer
    <3>2. slot' = Front /\ slots[1] = Front /\ Front \in Offsets
      BY <1>0, <2>2, <3>1, HeadTailProperties DEF InSequence
    <3>3. slot' = consumed
      <4>1. CASE cur[2] = 0
        BY <1>0, <3>1, <3>2, <4>1 DEF InSequence, Front
      <4>2. CASE cur[2] # 0
        <5>1. Front = slot + PartSize /\ cur[2] = PartEnd(slot) /\ consumed = cur[1]
          BY <1>0, <3>1, <4>2 DEF InSequence, Front
        <5>2. slot + PartSize < Size
          BY <1>0, <3>2, <5>1 DEF Offsets
        <5>3. PartEnd(slot) = slot + PartSize
          BY <1>0, <5>2, PartsFinite
        <5> QED
          BY <3>1, <3>2, <5>1, <5>3
      <4> QED
        BY <4>1, <4>2
    <3>4. /\ slots' \in Seq(Offsets) /\ Len(slots') = Len(slots) - 1
          /\ \A j \in 1..Len(slots') : slots'[j] = slots[j + 1]
      BY <1>0, <2>2, HeadTailProperties
    <3>5. /\ Front' = slot' + PartSize
          /\ slots' # <<>> => slots'[1] = Front'
          /\ \A j \in 1..(Len(slots') - 1) : slots'[j + 1] = slots'[j] + PartSize
      <4>1. Front' = slot' + PartSize
        BY <2>2 DEF Front
      <4>2. slots' # <<>> => Len(slots') >= 1
        BY <3>4
      <4>3. ASSUME slots' # <<>> PROVE slots'[1] = Front'
        BY <1>0, <3>1, <3>2, <3>4, <4>1, <4>2, <4>3 DEF InSequence
      <4>4. ASSUME NEW j \in 1..(Len(slots') - 1)
            PROVE  slots'[j + 1] = slots'[j] + PartSize
        <5>1. j \in 1..Len(slots') /\ j + 1 \in 1..Len(slots') /\ j + 1 \in 1..(Len(slots) - 1)
          BY <1>0, <3>4
        <5>2. slots'[j] = slots[j + 1] /\ slots'[j + 1] = slots[j + 1 + 1]
          BY <3>4, <5>1
        <5> QED
          BY <1>0, <3>1, <5>1, <5>2 DEF InSequence
      <4> QED
        BY <4>1, <4>3, <4>4
    <3>6. Due' = Due
      <4>1. CASE slots' = <<>>
        <5>1. Len(slots) = 1
          BY <1>0, <3>4, <4>1
        <5> QED
          BY <2>2, <3>2, <3>5, <4>1, <5>1 DEF Due
      <4>2. CASE slots' # <<>>
        <5>1. Len(slots') >= 1 /\ slots'[Len(slots')] = slots[Len(slots)]
          BY <1>0, <3>4, <4>2
        <5> QED
          BY <2>2, <4>2, <5>1 DEF Due
      <4> QED
        BY <4>1, <4>2
    <3> QED
      BY <1>0, <2>2, <3>1, <3>3, <3>5, <3>6 DEF InSequence, consumed
  <2> QED
    BY <1>7, <2>1, <2>2 DEF NextSlot, Returns
<1>8. CASE TakeResult
  <2>1. /\ pc = "result" /\ Taking /\ slot = consumed /\ pc' = "copy"
        /\ cur'[1] = slot /\ cur'[2] = PartEnd(slot)
        /\ UNCHANGED <<rctx, prod, off, slots, slot, fellBack, delivered, last>>
    BY <1>0, <1>8 DEF TakeResult, Modes, Taking, InSequence, producer
  <2>2. cur'[2] # 0
    BY <1>0, <2>1, PartsFinite
  <2>3. Front' = Front /\ Due' = Due
    BY <2>1, <2>2 DEF Front, Due
  <2> QED
    BY <1>0, <2>1, <2>2, <2>3 DEF InSequence, consumed
<1>9. CASE TakeError \/ ResultCancelled \/ SingleGet \/ SingleRead
  <2>1. ~Taking'
    BY <1>0, <1>9 DEF TakeError, ResultCancelled, SingleGet, SingleRead, Returns, Errors,
                      Taking, Modes
  <2> QED
    BY <2>1 DEF InSequence
<1>10. CASE CopyOut
  <2>1. /\ pc = "copy" /\ Taking /\ pc' = "idle" /\ consumed = cur[1]
        /\ UNCHANGED <<rctx, prod, off, slots, slot, fellBack>>
    BY <1>0, <1>10 DEF CopyOut, Returns, Modes, Taking, InSequence, producer
  <2>2. cur'[2] = cur[2] /\ cur'[1] \in Nat
    BY <1>0, <1>10 DEF CopyOut
  <2>3. Front' = Front /\ Due' = Due
    BY <2>1, <2>2 DEF Front, Due
  <2>4. consumed' = cur'[1]
    BY <1>0, <1>c, <1>10, <2>1, <2>2
  <2> QED
    BY <1>0, <2>1, <2>2, <2>3, <2>4 DEF InSequence
<1>11. CASE UNCHANGED vars
  BY <1>0, <1>11 DEF vars, producer, reader, InSequence, Taking, Front, Due, consumed
<1> QED
  BY <1>1, <1>2, <1>3, <1>4, <1>5, <1>6, <1>7, <1>8, <1>9, <1>10, <1>11
     DEF Next, InRead, Produce

(* EOF comes from an empty, closed channel behind the last part, or from   *)
(* the end of the single stream.                                           *)
LEMMA NextEOF ==
  ASSUME IInv, [Next]_vars
  PROVE  EOFIsComplete'
<1>0. /\ Modes /\ InSequence /\ TypeOK /\ EOFIsComplete /\ EndHasCause
      /\ slot \in Offsets /\ slot \in Nat /\ Size \in Nat \ {0} /\ off \in Nat
      /\ PartSize \in Nat \ {0}
      /\ ctx \in BOOLEAN /\ rctx \in BOOLEAN
  BY Opts DEF IInv, TypeOK, Offsets
<1>c. ~CopyOut /\ ~SingleRead => consumed' = consumed
  BY NextDelivered DEF IInv
<1>1. CASE last' = "EOF" /\ last = "EOF"
  <2>1. pc = "idle" /\ (~ctx' => ~ctx)
    <3>1. ASSUME NEW o \in Offsets, Part(o)
          PROVE  UNCHANGED ctx
      BY <3>1 DEF Part, GetRange, PartFails, ReadFull, Release
    <3> QED
      BY <1>0, <1>1, <3>1 DEF Modes, Next, Produce, Offer, Cancel, Acquire, ProduceEnds, Read, InRead,
         Close, NextSlot, TakeResult, TakeError, ResultCancelled, CopyOut, SingleGet, SingleRead, vars
  <2>2. ~CopyOut /\ ~SingleRead
    BY <2>1 DEF CopyOut, SingleRead
  <2> QED
    BY <1>0, <1>1, <1>c, <2>1, <2>2 DEF EOFIsComplete
<1>2. CASE last' # "EOF"
  BY <1>2 DEF EOFIsComplete
<1>3. CASE NextSlot /\ last' = "EOF" /\ last # "EOF"
  <2>1. /\ pc = "next" /\ slots = <<>> /\ prod = "closed" /\ Taking /\ cur[1] = cur[2]
        /\ ~closed /\ UNCHANGED <<ctx, delivered>>
    BY <1>0, <1>3 DEF NextSlot, Modes, Taking
  <2>2. ~ctx => off >= Size /\ off = Front
    BY <1>0, <2>1 DEF EndHasCause, InSequence, Due, Taking
  <2>3. ~ctx => cur[2] = PartEnd(slot) /\ slot + PartSize >= Size
    BY <1>0, <2>1, <2>2 DEF Front, InSequence
  <2>4. ~ctx => cur[2] = Size /\ consumed = cur[1]
    BY <1>0, <2>1, <2>3, PartsFinite DEF InSequence
  <2> QED
    BY <2>1, <2>4 DEF EOFIsComplete, consumed
<1>4. CASE SingleRead /\ last' = "EOF" /\ last # "EOF"
  <2>1. fellBack = Size /\ UNCHANGED delivered
    BY <1>4 DEF SingleRead, Returns, Errors
  <2> QED
    BY <1>0, <2>1 DEF Modes, EOFIsComplete, consumed
<1>5. ASSUME NEW o \in Offsets, Part(o)
      PROVE  UNCHANGED last
  BY <1>5 DEF Part, GetRange, PartFails, ReadFull, Release, reader
<1>6. CASE SingleGet \/ TakeError \/ ResultCancelled \/ CopyOut
  BY <1>0, <1>2, <1>6, <1>1 DEF SingleGet, TakeError, ResultCancelled, CopyOut, Returns, Errors, IInv, TypeOK
<1> QED
  BY <1>1, <1>2, <1>3, <1>4, <1>5, <1>6 DEF Next, Produce, Offer, Cancel, Acquire, ProduceEnds,
     Read, InRead, Close, TakeResult, vars, reader

(* Only NextSlot takes a part out of the channel, and then Read waits for  *)
(* it; Read stops waiting when the part has sent its result, or never      *)
(* takes another one.                                                      *)
LEMMA NextAccounted ==
  ASSUME IInv, [Next]_vars
  PROVE  Accounted'
<1>0. /\ slots \in Seq(Offsets) /\ Accounted /\ Modes /\ OnBoundary
      /\ part \in [Offsets -> {"none", "get", "read", "sent", "ended"}] /\ off \in Nat
      /\ slot \in Offsets /\ Len(slots) \in Nat
  BY DEF IInv, TypeOK
<1> SUFFICES ASSUME NEW o \in Offsets, Open(o)'
             PROVE  \/ \E j \in 1..Len(slots') : slots'[j] = o
                    \/ slot' = o /\ (pc' = "result" \/ ~Taking')
  BY DEF Accounted
<1> DEFINE Queued == \E j \in 1..Len(slots) : slots[j] = o
<1>a. Open(o) => Queued \/ (slot = o /\ (pc = "result" \/ ~Taking))
  BY <1>0 DEF Accounted
<1>1. CASE Offer
  <2>1. /\ slots' = Append(slots, off) /\ UNCHANGED <<pc, slot, fellBack, last, off, part>>
        /\ prod = "offer"
    BY <1>1 DEF Offer, reader
  <2>2. off \in Offsets
    BY <1>0, <1>1, NextPart DEF Offer, IInv
  <2>3. /\ Len(slots') = Len(slots) + 1 /\ slots'[Len(slots) + 1] = off
        /\ \A j \in 1..Len(slots) : slots'[j] = slots[j]
    BY <1>0, <2>1, <2>2, AppendProperties
  <2>4. CASE o = off
    <3>1. Len(slots) + 1 \in 1..Len(slots')
      BY <1>0, <2>3
    <3> QED
      BY <2>3, <2>4, <3>1
  <2>5. CASE o # off
    <3>1. Open(o)
      BY <2>1, <2>5 DEF Open
    <3>2. \A j \in 1..Len(slots) : j \in 1..Len(slots')
      BY <1>0, <2>3
    <3> QED
      BY <1>a, <2>1, <2>3, <3>1, <3>2 DEF Taking
  <2> QED
    BY <2>4, <2>5
<1>2. CASE Acquire
  <2>1. UNCHANGED <<slots, pc, slot, fellBack, last>> /\ prod' = "offer" /\ prod = "acquire"
        /\ part' = [part EXCEPT ![off] = "get"]
    BY <1>2 DEF Acquire, reader
  <2>2. Open(o)
    BY <1>0, <2>1 DEF Open
  <2> QED
    BY <1>a, <2>1, <2>2 DEF Taking
<1>3. CASE ProduceEnds \/ Cancel \/ Close \/ UNCHANGED vars
  <2>1. UNCHANGED <<slots, pc, slot, fellBack, last, part, off>> /\ (prod' = "acquire" => prod = "acquire")
    BY <1>3 DEF ProduceEnds, Cancel, Close, vars, reader, producer
  <2>2. Open(o)
    BY <2>1 DEF Open
  <2> QED
    BY <1>a, <2>1, <2>2 DEF Taking
<1>4. ASSUME NEW q \in Offsets, Part(q)
      PROVE  \/ \E j \in 1..Len(slots') : slots'[j] = o
             \/ slot' = o /\ (pc' = "result" \/ ~Taking')
  <2>1. UNCHANGED <<slots, pc, slot, fellBack, last, prod, off>>
    BY <1>4 DEF Part, GetRange, PartFails, ReadFull, Release, reader, producer
  <2>2. part'[o] \in {"get", "read"} => part[o] \in {"get", "read"}
    BY <1>0, <1>4 DEF Part, GetRange, PartFails, ReadFull, Release
  <2>3. Open(o)
    BY <2>1, <2>2 DEF Open
  <2> QED
    BY <1>a, <2>1, <2>3 DEF Taking
<1>5. CASE NextSlot
  <2>1. UNCHANGED <<part, prod, off, fellBack>> /\ pc = "next" /\ Taking /\ Open(o)
    BY <1>0, <1>5 DEF NextSlot, producer, Modes, Taking, Open
  <2>2. Queued
    BY <1>a, <2>1
  <2>3. slots # <<>> /\ slot' = Head(slots) /\ slots' = Tail(slots) /\ pc' = "result"
    BY <1>0, <1>5, <2>2 DEF NextSlot
  <2>4. /\ Head(slots) = slots[1] /\ Len(slots') = Len(slots) - 1
        /\ \A j \in 1..Len(slots') : slots'[j] = slots[j + 1]
    BY <1>0, <2>3, HeadTailProperties
  <2>5. PICK j \in 1..Len(slots) : slots[j] = o
    BY <2>2
  <2>6. CASE j = 1
    BY <2>3, <2>4, <2>5, <2>6
  <2>7. CASE j # 1
    <3>1. j - 1 \in 1..Len(slots') /\ (j - 1) + 1 = j
      BY <1>0, <2>4, <2>7
    <3>2. slots'[j - 1] = o
      BY <2>4, <2>5, <3>1
    <3> QED
      BY <3>1, <3>2
  <2> QED
    BY <2>6, <2>7
<1>6. CASE TakeResult
  <2>1. UNCHANGED <<part, prod, off, slots, slot>> /\ Filled(slot)
    BY <1>6 DEF TakeResult, producer
  <2>2. Open(o) /\ o # slot
    <3>1. ~(part[slot] \in {"get", "read"})
      BY <2>1 DEF Filled
    <3>2. off # slot
      BY <1>0, <2>1 DEF Filled, OnBoundary, Offsets
    <3> QED
      BY <2>1, <3>1, <3>2 DEF Open
  <2> QED
    BY <1>a, <2>1, <2>2
<1>7. CASE TakeError \/ ResultCancelled \/ SingleGet \/ SingleRead
  <2>1. UNCHANGED <<part, prod, off, slots, slot>>
    BY <1>7 DEF TakeError, ResultCancelled, SingleGet, SingleRead, producer
  <2>2. ~Taking'
    BY <1>0, <1>7 DEF TakeError, ResultCancelled, SingleGet, SingleRead, Returns, Errors,
                      Taking, Modes, IInv, TypeOK
  <2>3. Open(o)
    BY <2>1 DEF Open
  <2> QED
    BY <1>a, <2>1, <2>2, <2>3
<1>8. CASE CopyOut \/ Read
  <2>1. UNCHANGED <<part, prod, off, slots, slot, fellBack>> /\ pc # "result"
        /\ last = "data" /\ (Taking' => Taking)
    BY <1>0, <1>8 DEF CopyOut, Read, Returns, Modes, Taking, producer
  <2>2. Open(o)
    BY <2>1 DEF Open
  <2> QED
    BY <1>a, <2>1, <2>2
<1> QED
  BY <1>1, <1>2, <1>3, <1>4, <1>5, <1>6, <1>7, <1>8 DEF Next, InRead, Produce

-----------------------------------------------------------------------------
(* The invariant holds in every reachable state.                           *)
THEOREM Inductive == Spec => []IInv
<1>1. IInv /\ [Next]_vars => IInv'
  BY NextTypeOK, NextOnBoundary, NextTokensHeld, NextSlots, NextModes, NextInSequence,
     NextDelivered, NextEOF, NextAccounted DEF IInv
<1> QED
  BY <1>1, InitIInv, PTL DEF Spec

(***************************************************************************)
(* Every variable has a value of its type: the semaphore is never released *)
(* more often than it was taken, and no read-out leaves the object         *)
(* (fetchranged.go, orderedReader).                                        *)
(***************************************************************************)
THEOREM TypeCorrect == Spec => []TypeOK
<1>1. IInv => TypeOK
  BY DEF IInv
<1> QED
  BY <1>1, Inductive, PTL

(***************************************************************************)
(* In whatever order the parts arrive, and whether or not the reader       *)
(* degrades to a single stream, Read delivers the object's bytes in order, *)
(* none twice and none left out (fetchranged.go:217-258).                  *)
(***************************************************************************)
THEOREM InOrder == Spec => []DeliversInOrder
<1>1. IInv => DeliversInOrder
  BY DEF IInv
<1> QED
  BY <1>1, Inductive, PTL

(***************************************************************************)
(* Read reports EOF only when the whole object was delivered, unless the   *)
(* caller ended its context: no part is lost between the producer, the     *)
(* channel and Read.                                                       *)
(***************************************************************************)
THEOREM EOFAtTheEnd == Spec => []EOFIsComplete
<1>1. IInv => EOFIsComplete
  BY DEF IInv
<1> QED
  BY <1>1, Inductive, PTL

(***************************************************************************)
(* Read reports a context error only if the caller ended its context,      *)
(* although the reader ends a context of its own when it degrades and when *)
(* a part fails.                                                           *)
(***************************************************************************)
THEOREM ContextErrors == Spec => []ContextErrorIsCallers
<1>1. IInv => ContextErrorIsCallers
  BY DEF IInv
<1> QED
  BY <1>1, Inductive, PTL

(***************************************************************************)
(* There are never more than Concurrency + 2 part buffers, the one Read    *)
(* has read out included (fetchranged.go:187, 209, 250).                   *)
(***************************************************************************)
THEOREM MemoryIsBounded == Spec => []BuffersBounded
<1>1. ASSUME IInv PROVE BuffersBounded
  <2> DEFINE queued == {slots[j] : j \in 1..Len(slots)}
             held   == {o \in Offsets : Buffered(o)}
  <2>0. /\ slots \in Seq(Offsets) /\ Len(slots) \in Nat /\ Len(slots) <= Concurrency
        /\ Concurrency \in Nat /\ DOMAIN slots = 1..Len(slots)
    BY <1>1, Opts DEF IInv, TypeOK
  <2>1. Cardinality(queued) <= Len(slots)
    <3>1. slots \in Surjection(1..Len(slots), queued)
      BY <2>0 DEF Surjection
    <3>2. ExistsSurjection(1..Len(slots), queued)
      BY <3>1 DEF ExistsSurjection
    <3> QED
      BY <2>0, <3>2, FS_SurjCardinalityBound
  <2>2. IsFiniteSet(queued) /\ Cardinality(queued) \in Nat
    <3>1. queued \subseteq Offsets
      BY <2>0
    <3> QED
      BY <3>1, PartsFinite, FS_Subset, FS_CardinalityType
  <2>3. held \subseteq queued \cup {slot}
    BY <1>1, <2>0 DEF IInv, Accounted, Open, Buffered
  <2> HIDE DEF queued, held
  <2>4. /\ IsFiniteSet(queued \cup {slot})
        /\ Cardinality(queued \cup {slot})
             = IF slot \in queued THEN Cardinality(queued) ELSE Cardinality(queued) + 1
    BY <2>2, FS_AddElement
  <2>5. Cardinality(queued \cup {slot}) <= Concurrency + 1 /\ Cardinality(queued \cup {slot}) \in Nat
    BY <2>0, <2>1, <2>2, <2>4
  <2>6. Cardinality(held) <= Cardinality(queued \cup {slot}) /\ Cardinality(held) \in Nat
    BY <2>3, <2>4, FS_Subset, FS_CardinalityType
  <2>7. Cardinality(held) + (IF cur[2] = 0 THEN 0 ELSE 1) <= Concurrency + 2
    BY <2>0, <2>5, <2>6
  <2> QED
    BY <2>7 DEF BuffersBounded, Buffers, held
<1> QED
  BY <1>1, Inductive, PTL
============================================================================
