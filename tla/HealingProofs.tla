--------------------------- MODULE HealingProofs ---------------------------
(***************************************************************************)
(* The safety of the self-healing reader, for every request, object,       *)
(* number of connections and width of the integers.                        *)
(***************************************************************************)
EXTENDS Healing, FiniteSetTheorems, TLAPS

-----------------------------------------------------------------------------
(* What GetRange returns, proved for every width of the integers.          *)

(* Facts about remainders that the lemmas on wraparound use.               *)
LEMMA SmallRemainder ==
  ASSUME NEW a \in Nat, NEW b \in Nat, a < b
  PROVE  a % b = a
  OBVIOUS

(* The remainder is the same one modulus further.                          *)
LEMMA Remainder ==
  ASSUME NEW a \in Nat, NEW b \in Nat, a < b
  PROVE  (a + b) % b = a
  OBVIOUS

(* A sum that fits does not wrap around.                                   *)
LEMMA WrapFits ==
  ASSUME NEW x \in Int64
  PROVE  Wrap(x) = x
<1> DEFINE a == x + MaxInt64 + 1
           b == 2 * (MaxInt64 + 1)
<1>1. a \in Nat /\ b \in Nat /\ a < b
  BY MaxInt64Assumption DEF Int64
<1>2. a % b = a
  BY <1>1, SmallRemainder
<1> QED BY <1>1, <1>2, MaxInt64Assumption DEF Wrap, Int64

(* A sum that exceeds MaxInt64, but not twice, is negative.                *)
LEMMA WrapExceeds ==
  ASSUME NEW x \in (MaxInt64 + 1)..(2 * MaxInt64)
  PROVE  Wrap(x) < 0
<1> DEFINE a == x - MaxInt64 - 1
           b == 2 * (MaxInt64 + 1)
<1>1. a \in Nat /\ b \in Nat /\ a < b
  BY MaxInt64Assumption
<1>2. (a + b) % b = a
  BY <1>1, Remainder
<1>3. x + MaxInt64 + 1 = a + b
  BY MaxInt64Assumption
<1> QED BY <1>1, <1>2, <1>3, MaxInt64Assumption DEF Wrap

(* The start of a range lies in the object.                                *)
LEMMA StartInObject ==
  ASSUME NEW off \in Int64, NEW size \in 0..MaxInt64
  PROVE  Start(off, size) \in 0..size
BY MaxInt64Assumption DEF Start, Smaller, Larger, Int64

(***************************************************************************)
(* FS.GetRange returns exactly the bytes requested, for every offset and   *)
(* length, negative, zero and beyond the end included, as long as the end  *)
(* of the range can be represented (fs.go:181-206, limitedFile).           *)
(***************************************************************************)
THEOREM FSRangeExact ==
  ASSUME NEW off \in Int64, NEW len \in Int64, NEW size \in 0..MaxInt64,
         Start(off, size) + len <= MaxInt64
  PROVE  LET e == FSRange(off, len, size)
         IN {i \in 0..(size - 1) : e.pos <= i /\ i < e.end} = Requested(off, len, size)
<1> DEFINE s == Start(off, size)
<1>1. s \in 0..size
  BY StartInObject
<1>2. End(off, len, size) = IF len <= 0 THEN size ELSE Smaller(s + len, size)
  <2>1. CASE len <= 0
    BY <2>1 DEF End
  <2>2. CASE ~(len <= 0)
    <3>1. s + len \in Int64
      BY <1>1, <2>2, MaxInt64Assumption DEF Int64
    <3> QED BY <2>2, <3>1, WrapFits DEF End
  <2> QED BY <2>1, <2>2
<1>3. /\ FSRange(off, len, size).pos = s
      /\ FSRange(off, len, size).end = Larger(s, End(off, len, size))
  BY DEF FSRange, Extent
<1>4. ASSUME NEW i \in 0..(size - 1)
      PROVE  (s <= i /\ i < Larger(s, End(off, len, size)))
             <=> LET from == IF off < 0 THEN Larger(size + off, 0) ELSE off
                 IN i >= from /\ (len > 0 => i < from + len)
  BY <1>1, <1>2, MaxInt64Assumption DEF Start, Smaller, Larger, Int64
<1> QED BY <1>3, <1>4 DEF Requested

(***************************************************************************)
(* When the end of the range cannot be represented, the sum wraps around   *)
(* and the body is empty, whatever the object holds (fs.go:201).           *)
(***************************************************************************)
THEOREM FSRangeOverflow ==
  ASSUME NEW off \in Int64, NEW len \in Int64, NEW size \in 0..MaxInt64,
         Start(off, size) + len > MaxInt64
  PROVE  FSRange(off, len, size).end = FSRange(off, len, size).pos
<1> DEFINE s == Start(off, size)
<1>1. s \in 0..size /\ len > 0 /\ s + len \in (MaxInt64 + 1)..(2 * MaxInt64)
  BY StartInObject, MaxInt64Assumption DEF Int64
<1>2. Wrap(s + len) < 0
  BY <1>1, WrapExceeds
<1>3. Wrap(s + len) \in Int
  BY <1>1, MaxInt64Assumption DEF Wrap
<1> QED BY <1>1, <1>2, <1>3, MaxInt64Assumption
        DEF FSRange, Extent, End, Smaller, Larger, Int64

(***************************************************************************)
(* S3.GetRange asks for exactly the bytes requested when the offset is not *)
(* negative (formatRange, s3.go:339-347).                                  *)
(***************************************************************************)
THEOREM S3RangeExact ==
  ASSUME NEW off \in 0..MaxInt64, NEW len \in Int64, NEW size \in 0..MaxInt64,
         off + len <= MaxInt64 + 1
  PROVE  LET e == Served(formatRange(off, len), size)
         IN {i \in 0..(size - 1) : e.pos <= i /\ i < e.end} = Requested(off, len, size)
<1>1. CASE len <= 0
  <2>1. formatRange(off, len) = Header("a-", off, 0)
    BY <1>1, MaxInt64Assumption DEF formatRange
  <2>2. Served(Header("a-", off, 0), size) = Extent(off, size)
    BY DEF Served, Header
  <2> QED BY <1>1, <2>1, <2>2, MaxInt64Assumption
          DEF Extent, Requested, Larger, Smaller, Int64
<1>2. CASE len > 0
  <2>1. Wrap(off + len - 1) = off + len - 1
    <3>1. off + len - 1 \in Int64
      BY <1>2, MaxInt64Assumption DEF Int64
    <3> QED BY <3>1, WrapFits
  <2>2. formatRange(off, len) = Header("a-b", off, off + len - 1)
    BY <1>2, <2>1, MaxInt64Assumption DEF formatRange, Int64
  <2>3. Served(Header("a-b", off, off + len - 1), size)
          = Extent(off, Smaller(off + len, size))
    BY <1>2, MaxInt64Assumption DEF Served, Header, Int64
  <2> QED BY <1>2, <2>2, <2>3, MaxInt64Assumption
          DEF Extent, Requested, Larger, Smaller, Int64
<1> QED BY <1>1, <1>2, MaxInt64Assumption DEF Int64

-----------------------------------------------------------------------------
(* The reader.                                                             *)

(* What types need beyond themselves: a body is of some version, an armed  *)
(* watchdog has not tripped, and a heal has an attempt left.               *)
TInv ==
  /\ TypeOK
  /\ pc # "open" => cur.ver \in Versions
  /\ dog.armed => dog.below < Windows
  /\ pc \in {"backoff", "reopen"} => attempts < Attempts

(* The position after the last byte requested; whether the request says    *)
(* how long its body is.                                                   *)
Stop == IF rq.len > 0 /\ From + rq.len < Sizes[v0] THEN From + rq.len ELSE Sizes[v0]
KnownLength == rq.off >= 0 /\ rq.len # 0

(* Before it is opened, nothing has happened.                              *)
Unopened ==
  pc = "open" => obj = 1 /\ v0 = 0 /\ etag = 0 /\ delivered = <<>> /\ last = "data"

(* Every connection reads the version the first one read: the object can   *)
(* change only once its tag is known, and the guard compares it.           *)
SameVersion ==
  pc # "open" =>
    /\ v0 = 1 /\ cur.ver = v0
    /\ etag \in {0, v0} /\ (etag = 0 => obj = v0)
    /\ pc = "reopen" => obj = v0

(* The connection is at the byte after the last one delivered, and ends    *)
(* where the request does, or before if the length is known.               *)
InStep ==
  pc # "open" =>
    /\ cur.pos = From + consumed /\ cur.pos <= cur.end /\ cur.end <= Stop
    /\ ~KnownLength => cur.end = Stop
    /\ \A j \in 1..consumed : delivered[j] = <<v0, From + j - 1>>

(* A clean EOF of unknown length is the end; a heal has something to do;   *)
(* the caller stops at the first error or EOF.                             *)
AtEnd    == (pc = "eof" /\ ~KnownLength) => cur.pos = cur.end
Healable == pc \in {"backoff", "reopen"} => ~RemainingDone
Reading  == pc \notin {"open", "idle"} => last = "data"

IInv ==
  /\ TInv /\ Unopened /\ SameVersion /\ InStep /\ AtEnd /\ Healable /\ Reading
  /\ EOFIsComplete

(* The size of every version can be represented.                           *)
LEMMA SizesType == \A v \in Versions : Sizes[v] \in 0..MaxInt64
<1> DEFINE S == 0..MaxInt64
<1>1. Sizes \in Seq(S)
  BY HealAssumption
<1> HIDE DEF S
<1>2. \A v \in DOMAIN Sizes : Sizes[v] \in S
  BY <1>1
<1> QED
  BY <1>2 DEF Versions, S

LEMMA FieldTypes ==
  ASSUME TypeOK
  PROVE  /\ rq.via \in {"FS", "S3"} /\ rq.op \in {"Get", "GetRange"}
         /\ rq.off \in Int64 /\ rq.len \in Int64 /\ rq.off \in Int /\ rq.len \in Int
         /\ cur.ver \in Versions \cup {0} /\ cur.pos \in Nat /\ cur.end \in Nat
         /\ cur.open \in BOOLEAN
         /\ dog.below \in 0..Windows /\ dog.below \in Nat /\ dog.fresh \in Nat
         /\ dog.armed \in BOOLEAN
         /\ consumed \in Nat /\ Sizes[obj] \in 0..MaxInt64
<1>1. rq \in [via : {"FS", "S3"}, op : {"Get", "GetRange"}, off : Int64, len : Int64]
  BY HealAssumption DEF TypeOK
<1>2. rq.off \in Int64 /\ rq.len \in Int64 => rq.off \in Int /\ rq.len \in Int
  BY MaxInt64Assumption DEF Int64
<1>3. /\ cur \in [ver : Versions \cup {0}, pos : Nat, end : Nat, open : BOOLEAN]
      /\ dog \in [below : 0..Windows, fresh : Nat, armed : BOOLEAN]
      /\ delivered \in Seq(Versions \X Nat) /\ obj \in Versions
  BY DEF TypeOK
<1>4. Windows \in Nat
  BY HealAssumption
<1>5. consumed \in Nat
  BY <1>3 DEF consumed
<1>6. Sizes[obj] \in 0..MaxInt64
  BY <1>3, SizesType
<1>7. dog.below \in 0..Windows => dog.below \in Nat
  BY <1>4
<1> QED
  BY <1>1, <1>2, <1>3, <1>5, <1>6, <1>7

(* A range of an object begins and ends in the naturals, whatever it is.   *)
LEMMA WrapType ==
  ASSUME NEW x \in Int
  PROVE  Wrap(x) \in Int
<1>1. 2 * (MaxInt64 + 1) \in Nat \ {0} /\ x + MaxInt64 + 1 \in Int
  BY MaxInt64Assumption
<1>2. (x + MaxInt64 + 1) % (2 * (MaxInt64 + 1)) \in Int
  BY <1>1
<1> QED
  BY <1>2, MaxInt64Assumption DEF Wrap

LEMMA ConnectionType ==
  ASSUME TypeOK, NEW v \in Versions, NEW off \in Int, NEW len \in Int
  PROVE  Connection(v, off, len)
           \in [ver : Versions \cup {0}, pos : Nat, end : Nat, open : BOOLEAN]
<1> DEFINE z == Sizes[v]
<1>1. z \in Nat /\ z \in Int
  BY SizesType, MaxInt64Assumption
<1> HIDE DEF z
<1>2. ASSUME NEW p \in Nat, NEW e \in Int
      PROVE  Extent(p, e) \in [pos : Nat, end : Nat]
  BY DEF Extent, Larger
<1>3. FSRange(off, len, z) \in [pos : Nat, end : Nat]
  <2>1. Start(off, z) \in Nat
    BY <1>1 DEF Start, Smaller, Larger
  <2>2. Wrap(Start(off, z) + len) \in Int
    BY <2>1, WrapType
  <2>3. End(off, len, z) \in Int
    BY <1>1, <2>2 DEF End, Smaller
  <2> QED
    BY <1>2, <2>1, <2>3 DEF FSRange
<1>4. Served(formatRange(off, len), z) \in [pos : Nat, end : Nat]
  <2>1. CASE off < 0
    <3>1. Served(formatRange(off, len), z) = Extent(Larger(z - (-off), 0), z)
      BY <2>1 DEF Served, formatRange, Header
    <3>2. Larger(z - (-off), 0) \in Nat
      BY <1>1 DEF Larger
    <3> QED
      BY <1>1, <1>2, <3>1, <3>2
  <2>2. CASE ~(off < 0) /\ len <= 0
    <3>1. Served(formatRange(off, len), z) = Extent(off, z)
      BY <2>2 DEF Served, formatRange, Header
    <3> QED
      BY <1>1, <1>2, <2>2, <3>1
  <2>3. CASE ~(off < 0) /\ ~(len <= 0)
    <3>1. Served(formatRange(off, len), z) = Extent(off, Smaller(Wrap(off + len - 1) + 1, z))
      BY <2>3 DEF Served, formatRange, Header
    <3>2. Smaller(Wrap(off + len - 1) + 1, z) \in Int
      BY <1>1, WrapType DEF Smaller
    <3> QED
      BY <1>2, <2>3, <3>1, <3>2
  <2> QED
    BY <2>1, <2>2, <2>3
<1>5. InnerRange(off, len, z) \in [pos : Nat, end : Nat]
  BY <1>3, <1>4 DEF InnerRange
<1> QED
  BY <1>5 DEF Connection, z

(* What Take(k) does: k more bytes of the connection, in order.            *)
LEMMA TakeEffect ==
  ASSUME TypeOK, cur.ver \in Versions, NEW k \in 0..(cur.end - cur.pos), Take(k)
  PROVE  /\ delivered' \in Seq(Versions \X Nat) /\ consumed' = consumed + k
         /\ \A j \in 1..consumed : delivered'[j] = delivered[j]
         /\ \A j \in 1..k : delivered'[consumed + j] = <<cur.ver, cur.pos + j - 1>>
         /\ cur'.ver = cur.ver /\ cur'.pos = cur.pos + k /\ cur'.end = cur.end
         /\ cur'.open = cur.open
         /\ dog'.below = dog.below /\ dog'.armed = dog.armed
         /\ cur' \in [ver : Versions \cup {0}, pos : Nat, end : Nat, open : BOOLEAN]
         /\ dog' \in [below : 0..Windows, fresh : Nat, armed : BOOLEAN]
<1> DEFINE more == [j \in 1..k |-> <<cur.ver, cur.pos + j - 1>>]
           B == Versions \X Nat
<1>1. /\ cur.pos \in Nat /\ cur.end \in Nat /\ dog.fresh \in Nat /\ consumed \in Nat
      /\ k \in Nat
  BY FieldTypes
<1>2. \A j \in 1..k : <<cur.ver, cur.pos + j - 1>> \in B
  BY <1>1
<1>3. more \in Seq(B) /\ Len(more) = k /\ \A j \in 1..k : more[j] = <<cur.ver, cur.pos + j - 1>>
  <2>1. \A j \in 1..k : more[j] = <<cur.ver, cur.pos + j - 1>>
    OBVIOUS
  <2>2. more \in [1..k -> B]
    BY <1>2
  <2> HIDE DEF more, B
  <2> QED
    BY <1>1, <2>1, <2>2
<1>4. delivered' = delivered \o more /\ delivered \in Seq(B)
  BY DEF Take, TypeOK
<1>5. cur' = [cur EXCEPT !.pos = cur.pos + k] /\ dog' = [dog EXCEPT !.fresh = dog.fresh + k]
  BY DEF Take
<1>6. /\ cur \in [ver : Versions \cup {0}, pos : Nat, end : Nat, open : BOOLEAN]
      /\ dog \in [below : 0..Windows, fresh : Nat, armed : BOOLEAN]
  BY DEF TypeOK
<1>7. /\ cur'.ver = cur.ver /\ cur'.pos = cur.pos + k /\ cur'.end = cur.end
      /\ cur'.open = cur.open
      /\ cur' \in [ver : Versions \cup {0}, pos : Nat, end : Nat, open : BOOLEAN]
  BY <1>1, <1>5, <1>6
<1>8. /\ dog'.below = dog.below /\ dog'.armed = dog.armed
      /\ dog' \in [below : 0..Windows, fresh : Nat, armed : BOOLEAN]
  BY <1>1, <1>5, <1>6
<1> HIDE DEF more, B
<1>9. /\ delivered' \in Seq(B) /\ Len(delivered') = Len(delivered) + k
      /\ \A j \in 1..Len(delivered) : delivered'[j] = delivered[j]
      /\ \A j \in 1..k : delivered'[Len(delivered) + j] = more[j]
  BY <1>1, <1>3, <1>4
<1> QED
  BY <1>3, <1>7, <1>8, <1>9 DEF B, consumed

-----------------------------------------------------------------------------
LEMMA TInit ==
  ASSUME Init
  PROVE  TInv
<1>1. 1 \in Versions /\ Windows \in Nat \ {0} /\ Attempts \in Nat
  BY HealAssumption DEF Versions
<1>2. <<>> \in Seq(Versions \X Nat)
  OBVIOUS
<1>3. cur \in [ver : Versions \cup {0}, pos : Nat, end : Nat, open : BOOLEAN]
  BY DEF Init
<1>4. /\ obj = 1 /\ ctx = FALSE /\ rq \in Requests /\ v0 = 0 /\ etag = 0 /\ attempts = 0
      /\ pc = "open" /\ n = 0 /\ delivered = <<>> /\ last = "data" /\ closed = FALSE
  BY DEF Init
<1>5. dog = [below |-> 0, fresh |-> 0, armed |-> FALSE]
  BY DEF Init, Armed
<1>6. 0 \in 0..Windows
  BY <1>1
<1>7. dog \in [below : 0..Windows, fresh : Nat, armed : BOOLEAN] /\ ~dog.armed
  BY <1>5, <1>6
<1>8. obj \in Versions /\ attempts \in 0..Attempts /\ delivered \in Seq(Versions \X Nat)
  BY <1>1, <1>2, <1>4
<1>9. TypeOK
  BY <1>3, <1>4, <1>7, <1>8 DEF TypeOK
<1> QED
  BY <1>4, <1>7, <1>9 DEF TInv

LEMMA TNext ==
  ASSUME TInv, Next
  PROVE  TInv'
<1>t. /\ obj \in Versions /\ ctx \in BOOLEAN /\ rq \in Requests /\ v0 \in Versions \cup {0}
      /\ cur \in [ver : Versions \cup {0}, pos : Nat, end : Nat, open : BOOLEAN]
      /\ dog \in [below : 0..Windows, fresh : Nat, armed : BOOLEAN]
      /\ etag \in Versions \cup {0} /\ attempts \in 0..Attempts
      /\ pc \in {"open", "idle", "read", "eof", "failed", "backoff", "reopen"}
      /\ n \in Nat /\ delivered \in Seq(Versions \X Nat)
      /\ last \in {"data", "EOF", "ctx", "error", "exhausted", "changed"}
      /\ closed \in BOOLEAN
  BY DEF TInv, TypeOK
<1>i. /\ TypeOK
      /\ pc # "open" => cur.ver \in Versions
      /\ dog.armed => dog.below < Windows
      /\ pc \in {"backoff", "reopen"} => attempts < Attempts
  BY DEF TInv
<1>c. Windows \in Nat \ {0} /\ Attempts \in Nat \ {0}
  BY HealAssumption
<1>a. Armed \in [below : 0..Windows, fresh : Nat, armed : BOOLEAN] /\ Armed.below < Windows
  BY <1>c DEF Armed
<1>q. [dog EXCEPT !.armed = FALSE] \in [below : 0..Windows, fresh : Nat, armed : BOOLEAN]
  BY <1>t
<1>o. ASSUME NEW b \in BOOLEAN
      PROVE  /\ [cur EXCEPT !.open = b]
                  \in [ver : Versions \cup {0}, pos : Nat, end : Nat, open : BOOLEAN]
             /\ [cur EXCEPT !.open = b].ver = cur.ver
  BY <1>t
<1>1. CASE Cancel
  BY <1>t, <1>i, <1>1 DEF Cancel, TInv, TypeOK, body
<1>2. CASE Replace
  BY <1>t, <1>i, <1>2 DEF Replace, TInv, TypeOK, body
<1>3. CASE Open
  <2>1. cur' \in [ver : Versions \cup {0}, pos : Nat, end : Nat, open : BOOLEAN]
        /\ cur'.ver \in Versions
    <3>1. CASE rq.op = "Get"
      <4>1. Sizes[obj] \in Nat
        BY <1>i, FieldTypes, MaxInt64Assumption
      <4> QED
        BY <1>3, <1>t, <3>1, <4>1 DEF Open
    <3>2. CASE rq.op # "Get"
      <4>1. cur' = Connection(obj, rq.off, rq.len)
        BY <1>3, <3>2 DEF Open
      <4>2. cur'.ver = obj
        BY <4>1 DEF Connection
      <4> QED
        BY <1>i, <1>t, <4>1, <4>2, ConnectionType, FieldTypes
    <3> QED
      BY <3>1, <3>2
  <2>2. /\ v0' = obj /\ etag' \in {obj, 0} /\ attempts' = 1 /\ dog' = Armed /\ pc' = "idle"
        /\ UNCHANGED <<obj, ctx, rq, n, delivered, last, closed>>
    BY <1>3 DEF Open, world
  <2> QED
    BY <1>t, <1>c, <1>a, <2>1, <2>2 DEF TInv, TypeOK
<1>4. CASE Read
  BY <1>t, <1>i, <1>4 DEF Read, TInv, TypeOK, world, body
<1>5. CASE Close
  <2>1. /\ closed' = TRUE /\ dog' = [dog EXCEPT !.armed = FALSE]
        /\ cur' = [cur EXCEPT !.open = FALSE] /\ pc = "idle"
        /\ UNCHANGED <<obj, ctx, rq, v0, attempts, etag, pc, n, delivered, last>>
    BY <1>5 DEF Close, world
  <2>2. ~dog'.armed
    BY <1>t, <2>1
  <2> QED
    BY <1>t, <1>i, <1>q, <1>o, <2>1, <2>2 DEF TInv, TypeOK
<1>6. CASE Stream
  <2>1. PICK k \in 0..(cur.end - cur.pos) : Take(k)
    <3>1. cur.end - cur.pos \in Int
      BY <1>t
    <3> QED
      BY <1>6, <3>1 DEF Stream, ReadData, ReadEOF, ReadError
  <2>2. /\ pc = "read" /\ pc' \in {"idle", "eof", "failed"} /\ last' \in {last, "data"}
        /\ UNCHANGED <<obj, ctx, rq, v0, attempts, etag, closed>>
        /\ n' \in Nat
    <3>1. \A j \in 0..(cur.end - cur.pos) : j \in Nat
      BY <1>t
    <3> QED
      BY <1>t, <1>6, <3>1 DEF Stream, ReadData, ReadEOF, ReadError, Returns, world
  <2>3. /\ delivered' \in Seq(Versions \X Nat) /\ cur'.ver = cur.ver
        /\ dog'.below = dog.below /\ dog'.armed = dog.armed
        /\ cur' \in [ver : Versions \cup {0}, pos : Nat, end : Nat, open : BOOLEAN]
        /\ dog' \in [below : 0..Windows, fresh : Nat, armed : BOOLEAN]
    BY <1>i, <2>1, <2>2, TakeEffect
  <2> QED
    BY <1>t, <1>i, <2>2, <2>3 DEF TInv, TypeOK
<1>7. CASE Truncated
  <2>1. /\ pc = "eof" /\ pc' \in {"idle", "failed"} /\ last' \in {last, "EOF"}
        /\ dog' \in {dog, [dog EXCEPT !.armed = FALSE]}
        /\ UNCHANGED <<obj, ctx, rq, v0, cur, attempts, etag, n, delivered, closed>>
    BY <1>7 DEF Truncated, Returns, world
  <2>2. dog'.armed => dog' = dog
    BY <1>t, <2>1
  <2> QED
    BY <1>t, <1>i, <1>q, <2>1, <2>2 DEF TInv, TypeOK
<1>8. CASE ReadKilled
  BY <1>t, <1>i, <1>8 DEF ReadKilled, TInv, TypeOK, world, body
<1>9. CASE Heal
  <2>1. /\ pc = "failed" /\ pc' \in {"idle", "backoff"}
        /\ pc' = "backoff" => ~NoAttemptsLeft
        /\ last' \in {last, "ctx", "EOF", "exhausted"}
        /\ dog' \in {dog, [dog EXCEPT !.armed = FALSE]}
        /\ cur' \in {cur, [cur EXCEPT !.open = FALSE]}
        /\ UNCHANGED <<obj, ctx, rq, v0, attempts, etag, n, delivered, closed>>
    BY <1>9 DEF Heal, Returns, world
  <2>2. dog'.armed => dog' = dog
    BY <1>t, <2>1
  <2>3. /\ cur' \in [ver : Versions \cup {0}, pos : Nat, end : Nat, open : BOOLEAN]
        /\ cur'.ver = cur.ver
    BY <1>t, <1>o, <2>1
  <2>4. pc' = "backoff" => attempts < Attempts
    BY <1>c, <1>t, <2>1 DEF NoAttemptsLeft
  <2> QED
    BY <1>t, <1>i, <1>q, <2>1, <2>2, <2>3, <2>4 DEF TInv, TypeOK
<1>10. CASE Guard
  BY <1>t, <1>i, <1>10 DEF Guard, Returns, TInv, TypeOK, world, body
<1>11. CASE Reopen
  <2>1. CASE UNCHANGED body
    <3>1. /\ UNCHANGED <<cur, dog, attempts>> /\ pc' \in {"idle", "read"} /\ pc = "reopen"
          /\ last' \in {last, "error", "data"}
          /\ UNCHANGED <<obj, ctx, rq, v0, etag, n, delivered, closed>>
      BY <1>11, <2>1 DEF Reopen, Returns, world, body
    <3> QED
      BY <1>t, <1>i, <3>1 DEF TInv, TypeOK
  <2>2. CASE ~UNCHANGED body
    <3>1. /\ cur' = Connection(obj, Resume, Rest) /\ attempts' = attempts + 1 /\ dog' = Armed
          /\ pc' \in {"idle", "read"} /\ pc = "reopen" /\ last' \in {last, "data"}
          /\ UNCHANGED <<obj, ctx, rq, v0, etag, n, delivered, closed>>
      BY <1>11, <2>2 DEF Reopen, Returns, world
    <3>2. Resume \in Int /\ Rest \in Int
      BY <1>i, FieldTypes DEF Resume, Rest
    <3>3. cur' \in [ver : Versions \cup {0}, pos : Nat, end : Nat, open : BOOLEAN]
      BY <1>i, <1>t, <3>1, <3>2, ConnectionType
    <3>4. cur'.ver = obj
      BY <3>1 DEF Connection
    <3>5. attempts' \in 0..Attempts
      BY <1>c, <1>i, <1>t, <3>1
    <3> QED
      BY <1>t, <1>a, <3>1, <3>3, <3>4, <3>5 DEF TInv, TypeOK
  <2> QED
    BY <2>1, <2>2
<1>12. CASE Check
  <2>1. /\ dog.armed /\ dog' = [below |-> Below, fresh |-> 0, armed |-> Below < Windows]
        /\ cur' = [cur EXCEPT !.open = cur.open /\ Below < Windows]
        /\ UNCHANGED <<obj, ctx, rq, v0, attempts, etag, pc, n, delivered, last, closed>>
    BY <1>12 DEF Check, world
  <2>2. Below \in 0..Windows
    BY <1>c, <1>i, <2>1, FieldTypes DEF Below
  <2> DEFINE b == Below < Windows
             w == Below
  <2>3. w \in 0..Windows /\ b \in BOOLEAN /\ (b => w < Windows)
    BY <2>2
  <2>4. dog' = [below |-> w, fresh |-> 0, armed |-> b]
    BY <2>1
  <2> HIDE DEF b, w
  <2>5. /\ dog' \in [below : 0..Windows, fresh : Nat, armed : BOOLEAN]
        /\ dog'.armed => dog'.below < Windows
    BY <2>3, <2>4
  <2>6. (cur.open /\ Below < Windows) \in BOOLEAN
    OBVIOUS
  <2> QED
    BY <1>t, <1>i, <1>o, <2>1, <2>5, <2>6 DEF TInv, TypeOK
<1> QED
  BY <1>1, <1>2, <1>3, <1>4, <1>5, <1>6, <1>7, <1>8, <1>9, <1>10, <1>11, <1>12
     DEF Next, InRead

(* Types, for every request and object, resumable or not.                  *)
THEOREM TypeCorrect == Spec => []TypeOK
<1>1. TInv /\ UNCHANGED vars => TInv'
  BY DEF vars, world, body, TInv, TypeOK
<1>2. TInv => TypeOK
  BY DEF TInv
<1> QED
  BY <1>1, <1>2, TInit, TNext, PTL DEF Spec

-----------------------------------------------------------------------------
(* A range begins at Start and ends inside both the object and itself; one *)
(* whose end cannot be represented is empty.                               *)
Fits(e, a, len, size) ==
  /\ e.pos = a /\ e.end \in Nat /\ a <= e.end /\ e.end <= size
  /\ len > 0 => e.end <= a + len
  /\ len = 0 => e.end = size

LEMMA FSFits ==
  ASSUME NEW off \in Int64, NEW len \in 0..MaxInt64, NEW size \in 0..MaxInt64
  PROVE  /\ Start(off, size) \in 0..size
         /\ Fits(FSRange(off, len, size), Start(off, size), len, size)
         /\ (len > 0 /\ Start(off, size) + len <= size)
              => FSRange(off, len, size).end = Start(off, size) + len
<1> DEFINE a == Start(off, size)
<1>1. a \in 0..size
  BY StartInObject
<1>2. a \in Nat /\ len \in Nat /\ size \in Nat /\ a <= size /\ size <= MaxInt64
  BY <1>1, MaxInt64Assumption
<1>3. FSRange(off, len, size) = [pos |-> a, end |-> Larger(a, End(off, len, size))]
  BY DEF FSRange, Extent
<1>4. End(off, len, size) = IF len <= 0 THEN size ELSE Smaller(Wrap(a + len), size)
  BY DEF End
<1> HIDE DEF a
<1>5. CASE len = 0
  BY <1>1, <1>2, <1>3, <1>4, <1>5 DEF a, Fits, Larger
<1>6. CASE len > 0 /\ a + len <= MaxInt64
  <2>1. Wrap(a + len) = a + len
    BY <1>2, <1>6, WrapFits, MaxInt64Assumption DEF Int64
  <2>2. Larger(a, End(off, len, size)) = IF a + len < size THEN a + len ELSE size
    BY <1>2, <1>4, <1>6, <2>1 DEF Larger, Smaller
  <2> QED
    BY <1>1, <1>2, <1>3, <1>6, <2>2 DEF a, Fits
<1>7. CASE len > 0 /\ ~(a + len <= MaxInt64)
  <2>1. a + len \in (MaxInt64 + 1)..(2 * MaxInt64)
    BY <1>2, <1>7, MaxInt64Assumption
  <2>2. Wrap(a + len) < 0 /\ Wrap(a + len) \in Int
    BY <1>2, <2>1, WrapExceeds, WrapType
  <2>3. Larger(a, End(off, len, size)) = a
    BY <1>2, <1>4, <1>7, <2>2 DEF Larger, Smaller
  <2> QED
    BY <1>1, <1>2, <1>3, <1>7, <2>3, MaxInt64Assumption DEF a, Fits
<1> QED
  BY <1>2, <1>5, <1>6, <1>7

LEMMA S3Fits ==
  ASSUME NEW off \in Int64, NEW len \in 0..MaxInt64, NEW size \in 0..MaxInt64,
         off < 0 => len = 0 /\ -off <= size,
         Satisfiable(formatRange(off, len), size)
  PROVE  Fits(Served(formatRange(off, len), size), Start(off, size), len, size)
<1>1. /\ off \in Int /\ len \in Nat /\ size \in Nat /\ MaxInt64 \in Nat
      /\ size <= MaxInt64 /\ off <= MaxInt64 /\ len <= MaxInt64
  BY MaxInt64Assumption DEF Int64
<1>2. CASE off < 0
  <2>1. Served(formatRange(off, len), size)
          = [pos |-> Larger(size - (-off), 0), end |-> Larger(Larger(size - (-off), 0), size)]
    BY <1>2 DEF Served, formatRange, Header, Extent
  <2>2. /\ Larger(size - (-off), 0) = size + off /\ Start(off, size) = size + off
        /\ Larger(Larger(size - (-off), 0), size) = size
    BY <1>1, <1>2 DEF Larger, Start, Smaller
  <2> QED
    BY <1>1, <1>2, <2>1, <2>2 DEF Fits
<1>3. CASE off >= 0 /\ len = 0
  <2>1. Served(formatRange(off, len), size) = [pos |-> off, end |-> Larger(off, size)]
    BY <1>1, <1>3 DEF Served, formatRange, Header, Extent
  <2>2. off < size
    BY <1>1, <1>3 DEF Satisfiable, formatRange, Header
  <2> QED
    BY <1>1, <1>3, <2>1, <2>2 DEF Fits, Larger, Smaller, Start
<1>4. CASE off >= 0 /\ len > 0
  <2> DEFINE b == Wrap(off + len - 1)
  <2>1. Served(formatRange(off, len), size)
          = [pos |-> off, end |-> Larger(off, Smaller(b + 1, size))]
    BY <1>1, <1>4 DEF Served, formatRange, Header, Extent
  <2>2. off < size
    BY <1>1, <1>4 DEF Satisfiable, formatRange, Header
  <2>3. Start(off, size) = off
    BY <1>1, <1>4, <2>2 DEF Start, Smaller
  <2>4. b \in Int /\ (b = off + len - 1 \/ b < 0)
    <3>1. CASE off + len - 1 <= MaxInt64
      BY <1>1, <1>4, <3>1, WrapFits DEF Int64
    <3>2. CASE ~(off + len - 1 <= MaxInt64)
      <4>1. off + len - 1 \in (MaxInt64 + 1)..(2 * MaxInt64)
        BY <1>1, <1>4, <3>2
      <4> QED
        BY <4>1, <1>1, WrapExceeds, WrapType
    <3> QED
      BY <3>1, <3>2
  <2> HIDE DEF b
  <2>5. /\ Larger(off, Smaller(b + 1, size)) \in Nat
        /\ off <= Larger(off, Smaller(b + 1, size))
        /\ Larger(off, Smaller(b + 1, size)) <= size
        /\ Larger(off, Smaller(b + 1, size)) <= off + len
    BY <1>1, <1>4, <2>2, <2>4 DEF Larger, Smaller
  <2> QED
    BY <1>1, <1>4, <2>1, <2>3, <2>5 DEF Fits
<1> QED
  BY <1>1, <1>2, <1>3, <1>4

(* The bytes requested are those from From up to Stop.                     *)
LEMMA WantedIs ==
  ASSUME TypeOK, v0 \in Versions, rq.len >= 0
  PROVE  /\ From \in Nat /\ Stop \in Nat /\ From <= Stop /\ Stop <= Sizes[v0]
         /\ Wanted = From..(Stop - 1) /\ Cardinality(Wanted) = Stop - From
<1>1. /\ Sizes[v0] \in 0..MaxInt64 /\ rq.off \in Int64 /\ rq.len \in Nat /\ rq.off \in Int
  BY SizesType, FieldTypes
<1>2. From \in 0..Sizes[v0]
  BY <1>1, StartInObject DEF From
<1>3. /\ From \in Nat /\ Stop \in Nat /\ From <= Stop /\ Stop <= Sizes[v0]
  BY <1>1, <1>2, MaxInt64Assumption DEF Stop
<1> DEFINE z == Sizes[v0]
           f == IF rq.off < 0 THEN Larger(z + rq.off, 0) ELSE rq.off
<1>4. /\ z \in Nat /\ f \in Nat /\ From = IF f < z THEN f ELSE z
  BY <1>1, MaxInt64Assumption DEF From, Start, Smaller, Larger
<1>5. Wanted = {j \in 0..(z - 1) : j >= f /\ (rq.len > 0 => j < f + rq.len)}
  BY DEF Wanted, Requested
<1>6. Stop = IF rq.len > 0 /\ From + rq.len < z THEN From + rq.len ELSE z
  BY DEF Stop
<1> HIDE DEF z, f
<1>7. Wanted = From..(Stop - 1)
  BY <1>1, <1>3, <1>4, <1>5, <1>6
<1>8. Cardinality(From..(Stop - 1)) = Stop - From
  BY <1>3, FS_Interval
<1> QED
  BY <1>3, <1>7, <1>8

-----------------------------------------------------------------------------
LEMMA RequestFacts ==
  ASSUME Resumable, TypeOK
  PROVE  /\ "cut" \notin Faults /\ "race" \notin Faults
         /\ rq.len >= 0 /\ (rq.op = "Get" => rq.off = 0 /\ rq.len = 0)
         /\ rq.off < 0 => /\ -rq.off <= Sizes[1]
                          /\ rq.len = 0 \/ (rq.via = "FS" /\ rq.len <= -rq.off)
         /\ 1 \in Versions /\ Sizes[1] \in 0..MaxInt64
<1>1. rq \in Requests
  BY DEF TypeOK
<1>2. 1 \in Versions
  BY HealAssumption DEF Versions
<1> QED
  BY <1>1, <1>2, HealAssumption, SizesType DEF Resumable

(***************************************************************************)
(* The step everything turns on: a connection opened after c bytes, for    *)
(* what then remains of the request, goes on at the next byte and does not *)
(* reach beyond what was requested.                                        *)
(***************************************************************************)
LEMMA Continues ==
  ASSUME Resumable, TypeOK, NEW c \in Nat,
         NEW f, f = Start(rq.off, Sizes[1]),
         NEW stop, stop = IF rq.len > 0 /\ f + rq.len < Sizes[1] THEN f + rq.len ELSE Sizes[1],
         c <= stop - f,
         rq.len > 0 => c < rq.len,
         (rq.len = 0 /\ rq.off < 0) => rq.off + c < 0,
         NEW len, len = IF rq.len > 0 THEN rq.len - c ELSE 0,
         ~Refuses(rq.off + c, len, Sizes[1])
  PROVE  LET k == Connection(1, rq.off + c, len)
         IN  /\ k.ver = 1 /\ k.pos = f + c /\ k.pos <= k.end /\ k.end <= stop
             /\ ~KnownLength => k.end = stop
<1> DEFINE z == Sizes[1]
           off == rq.off + c
           e == InnerRange(off, len, z)
<1>1. /\ rq.len \in Nat /\ rq.len <= MaxInt64 /\ rq.off \in Int64 /\ rq.off \in Int
      /\ MaxInt64 \in Nat /\ z \in 0..MaxInt64 /\ rq.via \in {"FS", "S3"}
      /\ rq.off >= -MaxInt64 - 1
  BY FieldTypes, RequestFacts, MaxInt64Assumption DEF Int64
<1>2. /\ rq.off < 0 => /\ -rq.off <= z
                       /\ rq.len = 0 \/ (rq.via = "FS" /\ rq.len <= -rq.off)
  BY RequestFacts
<1>3. /\ f = IF rq.off < 0 THEN z + rq.off ELSE IF rq.off < z THEN rq.off ELSE z
      /\ stop = IF rq.len > 0 /\ f + rq.len < z THEN f + rq.len ELSE z
  <2>1. Start(rq.off, z) = IF rq.off < 0 THEN z + rq.off ELSE IF rq.off < z THEN rq.off ELSE z
    <3> HIDE DEF z
    <3> QED
      BY <1>1, <1>2 DEF Start, Smaller, Larger
  <2> QED
    BY <2>1
<1> HIDE DEF z
<1>4. /\ f \in Nat /\ stop \in Nat /\ f <= stop /\ stop <= z
  BY <1>1, <1>2, <1>3
<1>5. len \in 0..MaxInt64 /\ len \in Nat
  BY <1>1
<1>6. off \in Int64 /\ off \in Int /\ (rq.off < 0 <=> off < 0)
  <2>1. CASE rq.off < 0
    <3>1. off < 0
      BY <1>1, <1>2, <2>1
    <3> QED
      BY <1>1, <2>1, <3>1 DEF Int64
  <2>2. CASE rq.off >= 0
    <3>1. c = 0 \/ rq.off + c <= z
      BY <1>1, <1>4, <1>3, <2>2
    <3> QED
      BY <1>1, <2>2, <3>1 DEF Int64
  <2> QED
    BY <1>1, <2>1, <2>2
<1>7. Start(off, z) = f + c
  <2>1. CASE rq.off < 0
    <3>1. f = z + rq.off /\ off < 0 /\ z + off >= 0 /\ z \in Nat
      BY <1>1, <1>2, <1>3, <1>6, <2>1
    <3>2. Start(off, z) = z + off
      <4> HIDE DEF off
      <4> QED
        BY <1>6, <3>1 DEF Start, Smaller, Larger
    <3> QED
      BY <1>1, <3>1, <3>2
  <2>2. CASE rq.off >= 0
    BY <1>1, <1>4, <1>3, <1>6, <2>2 DEF Start, Smaller, Larger
  <2> QED
    BY <1>1, <2>1, <2>2
<1>8. Fits(e, f + c, len, z)
  <2>1. CASE rq.via = "FS"
    BY <1>1, <1>5, <1>6, <1>7, <2>1, FSFits DEF InnerRange
  <2>2. CASE rq.via = "S3"
    <3>1. off < 0 => len = 0 /\ -off <= z
      BY <1>1, <1>2, <1>6, <2>2
    <3>2. Satisfiable(formatRange(off, len), z)
      BY <2>2 DEF Refuses, z
    <3> QED
      BY <1>1, <1>5, <1>6, <1>7, <2>2, <3>1, <3>2, S3Fits DEF InnerRange
  <2> QED
    BY <1>1, <2>1, <2>2
<1>9. /\ e.pos = f + c /\ e.end \in Nat /\ f + c <= e.end /\ e.end <= z
      /\ len > 0 => e.end <= f + c + len
      /\ len = 0 => e.end = z
  BY <1>8 DEF Fits
<1>10. e.end <= stop
  BY <1>1, <1>4, <1>3, <1>5, <1>9
<1>11. ASSUME ~KnownLength PROVE e.end = stop
  <2>1. CASE rq.len = 0
    BY <1>1, <1>3, <1>9, <2>1
  <2>2. CASE rq.len > 0
    <3>1. rq.off < 0 /\ rq.via = "FS" /\ rq.len <= -rq.off
      BY <1>1, <1>2, <1>11, <2>2 DEF KnownLength
    <3>2. Start(off, z) + len = f + rq.len /\ f + rq.len <= z /\ len > 0
      BY <1>1, <1>4, <1>3, <1>7, <2>2, <3>1
    <3>3. e.end = f + rq.len
      BY <1>1, <1>5, <1>6, <3>1, <3>2, FSFits DEF InnerRange
    <3> QED
      BY <1>1, <1>4, <1>3, <2>2, <3>2, <3>3
  <2> QED
    BY <1>1, <2>1, <2>2
<1>12. /\ Connection(1, off, len).ver = 1 /\ Connection(1, off, len).pos = e.pos
       /\ Connection(1, off, len).end = e.end
  BY DEF Connection, z
<1> QED
  BY <1>9, <1>10, <1>11, <1>12

(* What is proved beside the types.                                        *)
Core == Unopened /\ SameVersion /\ InStep /\ AtEnd /\ Healable /\ Reading /\ EOFIsComplete

(* Steps of the watchdog, of Close and of the context do not touch it.     *)
LEMMA Unaffected ==
  ASSUME Core, UNCHANGED <<obj, rq, v0, etag, pc, delivered, last>>,
         cur'.ver = cur.ver, cur'.pos = cur.pos, cur'.end = cur.end
  PROVE  Core'
<1>1. UNCHANGED <<From, Stop, consumed, Wanted, KnownLength, RemainingDone>>
  BY DEF From, Stop, consumed, Wanted, KnownLength, RemainingDone
<1> QED
  BY <1>1 DEF Core, Unopened, SameVersion, InStep, AtEnd, Healable, Reading, EOFIsComplete

(* What the invariant says of a read that has begun.                       *)
LEMMA Progress ==
  ASSUME Resumable, TInv, Core, pc # "open"
  PROVE  /\ v0 = 1 /\ v0 \in Versions /\ cur.ver = v0
         /\ From \in Nat /\ Stop \in Nat /\ From <= Stop /\ Stop <= Sizes[v0]
         /\ Cardinality(Wanted) = Stop - From
         /\ consumed \in Nat /\ cur.pos \in Nat /\ cur.end \in Nat
         /\ cur.pos = From + consumed /\ cur.pos <= cur.end /\ cur.end <= Stop
         /\ ~KnownLength => cur.end = Stop
         /\ \A j \in 1..consumed : delivered[j] = <<v0, From + j - 1>>
<1>1. TypeOK /\ v0 = 1 /\ cur.ver = v0
  BY DEF TInv, Core, SameVersion
<1>2. v0 \in Versions /\ rq.len >= 0
  BY <1>1, RequestFacts
<1> QED
  BY <1>1, <1>2, WantedIs, FieldTypes DEF Core, InStep

LEMMA StreamCore ==
  ASSUME Resumable, TInv, Core, Stream
  PROVE  Core'
<1>1. TypeOK /\ pc = "read" /\ last = "data"
  BY DEF TInv, Core, Reading, Stream, ReadData, ReadEOF, ReadError
<1>2. /\ v0 = 1 /\ v0 \in Versions /\ cur.ver = v0 /\ From \in Nat /\ consumed \in Nat
      /\ cur.pos \in Nat /\ cur.end \in Nat
      /\ cur.pos = From + consumed /\ cur.pos <= cur.end /\ cur.end <= Stop
      /\ ~KnownLength => cur.end = Stop
      /\ \A j \in 1..consumed : delivered[j] = <<v0, From + j - 1>>
  BY <1>1, Progress
<1>3. PICK k \in 0..(cur.end - cur.pos) :
        /\ Take(k)
        /\ pc' = "eof" => (cur.pos + k < cur.end => MayEndEarly)
  BY <1>2 DEF Stream, ReadData, ReadEOF, ReadError, Returns
<1>4. /\ UNCHANGED <<obj, rq, v0, etag>> /\ last' = "data" /\ pc' \in {"idle", "eof", "failed"}
  BY <1>1 DEF Stream, ReadData, ReadEOF, ReadError, Returns, world
<1>5. UNCHANGED <<From, Stop, KnownLength>>
  BY <1>4 DEF From, Stop, KnownLength
<1>6. /\ consumed' = consumed + k
      /\ \A j \in 1..consumed : delivered'[j] = delivered[j]
      /\ \A j \in 1..k : delivered'[consumed + j] = <<cur.ver, cur.pos + j - 1>>
      /\ cur'.ver = cur.ver /\ cur'.pos = cur.pos + k /\ cur'.end = cur.end
  BY <1>1, <1>2, <1>3, TakeEffect
<1>7. /\ k \in Nat /\ cur.pos + k <= cur.end
  BY <1>2
<1>8. ASSUME NEW j \in 1..(consumed + k) PROVE delivered'[j] = <<v0, From + j - 1>>
  <2>1. CASE j <= consumed
    BY <1>2, <1>6, <1>7, <2>1
  <2>2. CASE j > consumed
    <3>1. j - consumed \in 1..k /\ consumed + (j - consumed) = j
      BY <1>2, <1>7, <2>2
    <3>2. delivered'[j] = <<cur.ver, cur.pos + (j - consumed) - 1>>
      BY <1>6, <3>1
    <3>3. cur.pos + (j - consumed) - 1 = From + j - 1
      BY <1>2, <1>7
    <3> QED
      BY <1>2, <3>2, <3>3
  <2> QED
    BY <1>2, <1>7, <2>1, <2>2
<1>9. InStep'
  BY <1>2, <1>4, <1>5, <1>6, <1>7, <1>8 DEF InStep
<1>10. AtEnd'
  <2>1. ~KnownLength => ~MayEndEarly
    BY <1>1, RequestFacts DEF KnownLength, MayEndEarly
  <2> QED
    BY <1>2, <1>3, <1>5, <1>6, <1>7, <2>1 DEF AtEnd
<1>11. SameVersion'
  BY <1>1, <1>4, <1>6 DEF Core, SameVersion
<1> QED
  BY <1>4, <1>9, <1>10, <1>11 DEF Core, Unopened, Healable, Reading, EOFIsComplete

(* EOF is returned only where everything is delivered, or the object has   *)
(* changed.                                                                *)
LEMMA TruncatedCore ==
  ASSUME Resumable, TInv, Core, Truncated
  PROVE  Core'
<1>1. /\ TypeOK /\ pc = "eof" /\ last = "data"
      /\ UNCHANGED <<obj, rq, v0, etag, cur, delivered>> /\ pc' \in {"idle", "failed"}
      /\ (last' = "data" \/ last' = "EOF")
  BY DEF TInv, Core, Reading, Truncated, Returns, world
<1>2. UNCHANGED <<From, Stop, consumed, Wanted, KnownLength>>
  BY <1>1 DEF From, Stop, consumed, Wanted, KnownLength
<1>3. /\ From \in Nat /\ Stop \in Nat /\ consumed \in Nat /\ cur.pos \in Nat
      /\ cur.pos = From + consumed /\ cur.pos <= cur.end /\ cur.end <= Stop
      /\ cur.end \in Nat
      /\ ~KnownLength => cur.end = Stop
      /\ Cardinality(Wanted) = Stop - From /\ v0 = 1
  BY <1>1, Progress
<1>4. /\ rq.len \in Nat /\ rq.off \in Int /\ Sizes[v0] \in Nat
  BY <1>1, <1>3, FieldTypes, RequestFacts, MaxInt64Assumption
<1>5. ASSUME last' = "EOF", obj = v0 PROVE consumed = Stop - From
  <2>1. CASE ~KnownLength
    BY <1>1, <1>3, <2>1 DEF Core, AtEnd
  <2>2. CASE KnownLength /\ ~KnownShort(consumed)
    <3>1. consumed >= rq.len /\ rq.len > 0
      BY <1>3, <1>4, <2>2 DEF KnownLength, KnownShort
    <3>2. Stop <= From + rq.len
      BY <1>3, <1>4, <3>1 DEF Stop
    <3> QED
      BY <1>3, <1>4, <3>1, <3>2
  <2>3. CASE KnownLength /\ KnownShort(consumed)
    <3>1. rq.off + consumed >= Sizes[v0] /\ rq.off >= 0
      BY <1>1, <1>5, <2>3 DEF Truncated, Returns, KnownLength
    <3>2. From = IF rq.off < Sizes[v0] THEN rq.off ELSE Sizes[v0]
      BY <1>4, <3>1 DEF From, Start, Smaller
    <3>3. Stop <= Sizes[v0]
      BY <1>1, Progress
    <3> QED
      BY <1>3, <1>4, <3>1, <3>2, <3>3
  <2> QED
    BY <2>1, <2>2, <2>3
<1>6. EOFIsComplete'
  BY <1>1, <1>2, <1>3, <1>5 DEF EOFIsComplete
<1>7. SameVersion' /\ InStep'
  BY <1>1, <1>2 DEF Core, SameVersion, InStep
<1>8. Reading'
  BY <1>1 DEF Truncated, Returns, Reading
<1> QED
  BY <1>1, <1>6, <1>7, <1>8 DEF Core, Unopened, AtEnd, Healable

LEMMA HealCore ==
  ASSUME Resumable, TInv, Core, Heal
  PROVE  Core'
<1>1. /\ TypeOK /\ pc = "failed" /\ last = "data"
      /\ UNCHANGED <<obj, rq, v0, etag, delivered>> /\ pc' \in {"idle", "backoff"}
      /\ cur' \in {cur, [cur EXCEPT !.open = FALSE]}
      /\ pc' = "backoff" => last' = last /\ ~RemainingDone
      /\ last' = "EOF" => RemainingDone
  BY DEF TInv, Core, Reading, Heal, Returns, world
<1>2. UNCHANGED <<From, Stop, consumed, Wanted, KnownLength, RemainingDone>>
  BY <1>1 DEF From, Stop, consumed, Wanted, KnownLength, RemainingDone
<1>3. cur'.ver = cur.ver /\ cur'.pos = cur.pos /\ cur'.end = cur.end
  BY <1>1 DEF TypeOK
<1>4. /\ From \in Nat /\ Stop \in Nat /\ consumed \in Nat /\ cur.pos \in Nat
      /\ cur.pos = From + consumed /\ cur.pos <= cur.end /\ cur.end <= Stop
      /\ cur.end \in Nat /\ Cardinality(Wanted) = Stop - From /\ v0 = 1
  BY <1>1, Progress
<1>5. /\ rq.len \in Nat /\ rq.off \in Int /\ Sizes[v0] \in Nat
      /\ rq.off < 0 => -rq.off <= Sizes[v0]
  BY <1>1, <1>4, FieldTypes, RequestFacts, MaxInt64Assumption
<1>6. ASSUME RemainingDone PROVE consumed = Stop - From
  <2>1. CASE rq.len > 0
    <3>1. consumed >= rq.len
      BY <1>5, <1>6, <2>1 DEF RemainingDone
    <3>2. Stop <= From + rq.len
      BY <1>4, <1>5, <2>1 DEF Stop
    <3> QED
      BY <1>4, <1>5, <3>1, <3>2
  <2>2. CASE rq.len = 0
    <3>1. rq.off < 0 /\ rq.off + consumed >= 0
      BY <1>6, <2>2 DEF RemainingDone
    <3>2. From = Sizes[v0] + rq.off
      BY <1>5, <3>1 DEF From, Start, Smaller, Larger
    <3>3. Stop = Sizes[v0]
      BY <2>2 DEF Stop
    <3> QED
      BY <1>4, <1>5, <3>1, <3>2, <3>3
  <2> QED
    BY <1>5, <2>1, <2>2
<1>7. EOFIsComplete'
  BY <1>1, <1>2, <1>4, <1>6 DEF EOFIsComplete
<1>8. SameVersion' /\ InStep'
  BY <1>1, <1>2, <1>3 DEF Core, SameVersion, InStep
<1> QED
  BY <1>1, <1>2, <1>7, <1>8 DEF Core, Unopened, AtEnd, Healable, Reading

LEMMA ReopenCore ==
  ASSUME Resumable, TInv, Core, Reopen
  PROVE  Core'
<1>1. /\ TypeOK /\ pc = "reopen" /\ last = "data" /\ obj = v0
      /\ UNCHANGED <<obj, rq, v0, etag, delivered>> /\ pc' \in {"idle", "read"}
      /\ last' # "EOF" /\ (pc' = "read" => last' = last)
  BY DEF TInv, Core, Reading, SameVersion, Reopen, Returns, world
<1>2. UNCHANGED <<From, Stop, consumed, Wanted, KnownLength>>
  BY <1>1 DEF From, Stop, consumed, Wanted, KnownLength
<1>3. /\ From \in Nat /\ Stop \in Nat /\ consumed \in Nat /\ cur.pos \in Nat /\ cur.end \in Nat
      /\ cur.pos = From + consumed /\ cur.pos <= cur.end /\ cur.end <= Stop /\ v0 = 1
  BY <1>1, Progress
<1>4. /\ cur'.ver = v0 /\ cur'.pos = From + consumed /\ cur'.pos <= cur'.end /\ cur'.end <= Stop
      /\ ~KnownLength => cur'.end = Stop
  <2>1. CASE UNCHANGED body
    BY <1>1, <2>1, Progress DEF body
  <2>2. CASE ~UNCHANGED body
    <3>1. /\ cur' = Connection(1, rq.off + consumed, Rest)
          /\ ~Refuses(rq.off + consumed, Rest, Sizes[1])
      BY <1>1, <1>3, <2>2 DEF Reopen, Resume
    <3>2. /\ rq.len > 0 => consumed < rq.len
          /\ (rq.len = 0 /\ rq.off < 0) => rq.off + consumed < 0
      <4>1. ~RemainingDone /\ rq.len \in Int /\ rq.off \in Int
        BY <1>1, FieldTypes DEF Core, Healable
      <4> QED
        BY <1>3, <4>1 DEF RemainingDone
    <3>3. /\ From = Start(rq.off, Sizes[1])
          /\ Stop = IF rq.len > 0 /\ From + rq.len < Sizes[1] THEN From + rq.len ELSE Sizes[1]
          /\ Rest = IF rq.len > 0 THEN rq.len - consumed ELSE 0
      BY <1>3 DEF From, Stop, Rest
    <3>4. consumed <= Stop - From
      BY <1>3
    <3> QED
      BY <1>1, <1>3, <3>1, <3>2, <3>3, <3>4, Continues
  <2> QED
    BY <2>1, <2>2
<1>5. SameVersion'
  BY <1>1, <1>4 DEF Core, SameVersion
<1>6. InStep'
  BY <1>1, <1>2, <1>4 DEF Core, InStep
<1> QED
  BY <1>1, <1>5, <1>6 DEF Core, Unopened, AtEnd, Healable, Reading, EOFIsComplete

LEMMA OpenCore ==
  ASSUME Resumable, TInv, Core, Open
  PROVE  Core'
<1>1. /\ TypeOK /\ pc = "open" /\ obj = 1 /\ delivered = <<>> /\ last = "data"
      /\ v0' = 1 /\ pc' = "idle" /\ UNCHANGED <<obj, rq, delivered, last>> /\ etag' \in {0, 1}
  BY DEF TInv, Core, Unopened, Open, world
<1>2. consumed = 0 /\ consumed' = 0
  BY <1>1 DEF consumed
<1>3. /\ rq.len \in Nat /\ rq.off \in Int64 /\ rq.off \in Int /\ Sizes[1] \in 0..MaxInt64
      /\ Sizes[1] \in Nat /\ rq.op \in {"Get", "GetRange"}
      /\ rq.op = "Get" => rq.off = 0 /\ rq.len = 0
  BY <1>1, FieldTypes, RequestFacts, MaxInt64Assumption
<1> DEFINE f == Start(rq.off, Sizes[1])
           stop == IF rq.len > 0 /\ f + rq.len < Sizes[1] THEN f + rq.len ELSE Sizes[1]
<1>4. From' = f /\ Stop' = stop /\ KnownLength' = KnownLength
  BY <1>1 DEF From, Stop, KnownLength
<1>5. f \in Nat /\ stop \in Nat /\ f <= stop
  <2>1. f \in 0..Sizes[1]
    BY <1>3, StartInObject
  <2> QED
    BY <1>3, <2>1
<1>6. /\ cur'.ver = 1 /\ cur'.pos = f /\ cur'.pos <= cur'.end /\ cur'.end <= stop
      /\ ~KnownLength => cur'.end = stop
  <2>1. CASE rq.op = "Get"
    <3>1. cur' = [ver |-> 1, pos |-> 0, end |-> Sizes[1], open |-> TRUE]
      BY <1>1, <2>1 DEF Open
    <3>2. f = 0 /\ stop = Sizes[1]
      BY <1>3, <2>1 DEF Start, Smaller
    <3> QED
      BY <1>3, <3>1, <3>2
  <2>2. CASE rq.op = "GetRange"
    <3>1. cur' = Connection(1, rq.off, rq.len) /\ ~Refuses(rq.off, rq.len, Sizes[1])
      BY <1>1, <2>2 DEF Open
    <3>2. /\ rq.off + 0 = rq.off
          /\ rq.len = IF rq.len > 0 THEN rq.len - 0 ELSE 0
      BY <1>3
    <3>3. /\ 0 <= stop - f /\ (rq.len > 0 => 0 < rq.len)
          /\ (rq.len = 0 /\ rq.off < 0) => rq.off + 0 < 0
      BY <1>3, <1>5
    <3> HIDE DEF f, stop
    <3>4. /\ f = Start(rq.off, Sizes[1])
          /\ stop = IF rq.len > 0 /\ f + rq.len < Sizes[1] THEN f + rq.len ELSE Sizes[1]
      BY DEF f, stop
    <3>5. LET k == Connection(1, rq.off + 0, rq.len)
          IN  /\ k.ver = 1 /\ k.pos = f + 0 /\ k.pos <= k.end /\ k.end <= stop
              /\ ~KnownLength => k.end = stop
      BY <1>1, <3>1, <3>2, <3>3, <3>4, Continues
    <3> QED
      BY <1>5, <3>1, <3>2, <3>5
  <2> QED
    BY <1>3, <2>1, <2>2
<1>7. InStep'
  BY <1>1, <1>2, <1>4, <1>5, <1>6 DEF InStep
<1>8. SameVersion'
  BY <1>1, <1>6 DEF SameVersion
<1> QED
  BY <1>1, <1>7, <1>8 DEF Core, Unopened, AtEnd, Healable, Reading, EOFIsComplete

-----------------------------------------------------------------------------
(* The invariant that the following rest on.                               *)
THEOREM Inductive == ASSUME Resumable PROVE Spec => []IInv
<1>0. IInv <=> TInv /\ Core
  BY DEF IInv, Core
<1>1. Init => TInv /\ Core
  BY TInit DEF Init, Core, Unopened, SameVersion, InStep, AtEnd, Healable, Reading,
               EOFIsComplete
<1>2. TInv /\ Core /\ [Next]_vars => TInv' /\ Core'
  <2> SUFFICES ASSUME TInv, Core, [Next]_vars PROVE TInv' /\ Core'
    OBVIOUS
  <2>t. TypeOK
    BY DEF TInv
  <2>0. CASE UNCHANGED vars
    <3>1. Core'
      BY <2>0, Unaffected DEF vars, world, body
    <3> QED
      BY <2>0, <3>1 DEF vars, world, body, TInv, TypeOK
  <2>1. CASE Cancel
    BY <2>1, Unaffected, TNext DEF Next, Cancel, body
  <2>2. CASE Replace
    <3>1. /\ obj' = obj + 1 /\ etag # 0 /\ pc # "reopen" /\ pc # "open"
          /\ UNCHANGED <<rq, v0, cur, etag, pc, delivered, last>>
      BY <2>2, <2>t, RequestFacts DEF Replace, body, Core, Unopened
    <3>2. obj' # v0
      <4>1. v0 = 1 /\ obj \in Versions
        BY <2>t, <3>1 DEF Core, SameVersion, TypeOK
      <4>2. obj >= 1 /\ obj \in Int
        BY <4>1, HealAssumption DEF Versions
      <4> QED
        BY <3>1, <4>1, <4>2
    <3>3. UNCHANGED <<From, Stop, consumed, Wanted, KnownLength, RemainingDone>>
      BY <3>1 DEF From, Stop, consumed, Wanted, KnownLength, RemainingDone
    <3>4. Core'
      BY <3>1, <3>2, <3>3 DEF Core, Unopened, SameVersion, InStep, AtEnd, Healable, Reading,
                             EOFIsComplete
    <3> QED
      BY <2>2, <3>4, TNext DEF Next
  <2>3. CASE Open
    BY <2>3, OpenCore, TNext DEF Next
  <2>4. CASE Read
    <3>1. /\ pc = "idle" /\ pc' = "read" /\ last = "data"
          /\ UNCHANGED <<obj, rq, v0, cur, etag, delivered, last>>
      BY <2>4 DEF Read, world, body
    <3>2. UNCHANGED <<From, Stop, consumed, Wanted, KnownLength>>
      BY <3>1 DEF From, Stop, consumed, Wanted, KnownLength
    <3>3. Core'
      BY <3>1, <3>2 DEF Core, Unopened, SameVersion, InStep, AtEnd, Healable, Reading,
                        EOFIsComplete
    <3> QED
      BY <2>4, <3>3, TNext DEF Next
  <2>5. CASE Close \/ Check
    <3>1. UNCHANGED <<obj, rq, v0, etag, pc, delivered, last>>
      BY <2>5 DEF Close, Check, world
    <3>2. cur'.ver = cur.ver /\ cur'.pos = cur.pos /\ cur'.end = cur.end
      BY <2>t, <2>5 DEF Close, Check, TypeOK
    <3> QED
      BY <2>5, <3>1, <3>2, Unaffected, TNext DEF Next
  <2>6. CASE Stream
    BY <2>6, StreamCore, TNext DEF Next
  <2>7. CASE Truncated
    BY <2>7, TruncatedCore, TNext DEF Next, InRead
  <2>8. CASE ReadKilled
    <3>1. /\ pc = "read" /\ pc' \in {"failed", "eof"} /\ (pc' = "eof" => MayEndEarly)
          /\ UNCHANGED <<obj, rq, v0, cur, etag, delivered, last>>
      BY <2>8 DEF ReadKilled, world, body
    <3>2. UNCHANGED <<From, Stop, consumed, Wanted, KnownLength>>
      BY <3>1 DEF From, Stop, consumed, Wanted, KnownLength
    <3>3. MayEndEarly => KnownLength
      BY <2>t, RequestFacts DEF MayEndEarly, KnownLength
    <3>4. Core'
      BY <3>1, <3>2, <3>3 DEF Core, Unopened, SameVersion, InStep, AtEnd, Healable, Reading,
                             EOFIsComplete
    <3> QED
      BY <2>8, <3>4, TNext DEF Next, InRead
  <2>9. CASE Heal
    BY <2>9, HealCore, TNext DEF Next, InRead
  <2>10. CASE Guard
    <3>1. /\ pc = "backoff" /\ pc' \in {"idle", "reopen"}
          /\ pc' = "reopen" => etag \in {0, obj} /\ etag' = obj /\ last' = last
          /\ pc' = "idle" => etag' = etag /\ last' # "EOF"
          /\ UNCHANGED <<obj, rq, v0, cur, delivered>>
      BY <2>10 DEF Guard, Returns, world, body
    <3>2. UNCHANGED <<From, Stop, consumed, Wanted, KnownLength, RemainingDone>>
      BY <3>1 DEF From, Stop, consumed, Wanted, KnownLength, RemainingDone
    <3>3. SameVersion'
      BY <3>1 DEF Core, SameVersion
    <3>4. Core'
      BY <3>1, <3>2, <3>3 DEF Core, Unopened, InStep, AtEnd, Healable, Reading, EOFIsComplete
    <3> QED
      BY <2>10, <3>4, TNext DEF Next, InRead
  <2>11. CASE Reopen
    BY <2>11, ReopenCore, TNext DEF Next, InRead
  <2> QED
    BY <2>0, <2>1, <2>2, <2>3, <2>4, <2>5, <2>6, <2>7, <2>8, <2>9, <2>10, <2>11
       DEF Next, InRead
<1> QED
  BY <1>0, <1>1, <1>2, PTL DEF Spec

(***************************************************************************)
(* Whatever breaks and however often, Read delivers the requested bytes of *)
(* one version, in order, none twice and none left out (heal.go:37-49,     *)
(* 175-202).                                                               *)
(***************************************************************************)
THEOREM ResumesExactly == ASSUME Resumable PROVE Spec => []DeliversRequested
<1>1. IInv => DeliversRequested
  <2> SUFFICES ASSUME IInv, NEW j \in 1..consumed
               PROVE  From + j - 1 \in Wanted /\ delivered[j] = <<v0, From + j - 1>>
    BY DEF DeliversRequested
  <2>1. TInv /\ Core /\ TypeOK
    BY DEF IInv, Core, TInv
  <2>2. pc # "open"
    BY <2>1 DEF Core, Unopened, consumed
  <2>3. /\ v0 \in Versions /\ From \in Nat /\ Stop \in Nat /\ consumed \in Nat
        /\ cur.pos \in Nat /\ cur.end \in Nat
        /\ cur.pos = From + consumed /\ cur.pos <= cur.end /\ cur.end <= Stop
        /\ \A l \in 1..consumed : delivered[l] = <<v0, From + l - 1>>
    BY <2>1, <2>2, Progress
  <2>4. Wanted = From..(Stop - 1)
    BY <2>1, <2>3, WantedIs, RequestFacts
  <2> QED
    BY <2>3, <2>4
<1> QED
  BY <1>1, Inductive, PTL

(***************************************************************************)
(* EOF means that everything requested has been delivered, unless the      *)
(* object is another by then (heal.go:113-128, truncated, remainingDone).  *)
(***************************************************************************)
THEOREM EOFIsTheEnd == ASSUME Resumable PROVE Spec => []EOFIsComplete
<1>1. IInv => EOFIsComplete
  BY DEF IInv
<1> QED
  BY <1>1, Inductive, PTL
============================================================================
