--------------------------- MODULE MeteredProofs ---------------------------
(***************************************************************************)
(* Prefixed views, paging through them, and the counters of a Metered      *)
(* bucket, for every set of views, clients, calls and page sizes.          *)
(***************************************************************************)
EXTENDS Metered, FiniteSetTheorems, SequenceTheorems, TLAPS

Bytes == Seq(Int)

-----------------------------------------------------------------------------
(* Keys and prefixes as sequences of bytes.                                *)

(* A prefix agrees with the longer sequence byte by byte.                  *)
LEMMA PrefixPointwise ==
  ASSUME NEW s \in Bytes, NEW t \in Bytes
  PROVE  IsPrefix(s, t) <=> Len(s) <= Len(t) /\ \A i \in 1..Len(s) : s[i] = t[i]
<1>0. Len(s) \in Nat /\ Len(t) \in Nat /\ \A i \in 1..Len(s) : s[i] \in Int
  BY LenProperties, ElementOfSeq DEF Bytes
<1>1. SubSeq(s, 1, Len(s)) = s
  BY SubSeqFull DEF Bytes
<1>2. ASSUME Len(s) <= Len(t)
      PROVE  /\ SubSeq(t, 1, Len(s)) \in Bytes /\ Len(SubSeq(t, 1, Len(s))) = Len(s)
             /\ \A i \in 1..Len(s) : SubSeq(t, 1, Len(s))[i] = t[i]
  <2>1. \A i \in 1..Len(s) : t[i] \in Int
    BY <1>0, <1>2, ElementOfSeq DEF Bytes
  <2> QED
    BY <1>0, <2>1, SubSeqProperties DEF Bytes
<1>3. ASSUME Len(s) <= Len(t), \A i \in 1..Len(s) : s[i] = t[i]
      PROVE  s = SubSeq(t, 1, Len(s))
  BY <1>2, <1>3, SeqEqual DEF Bytes
<1> QED
  BY <1>1, <1>2, <1>3 DEF IsPrefix

(* What a prefix is put before begins with it, and is got back by cutting  *)
(* it off.                                                                 *)
LEMMA TrimConcat ==
  ASSUME NEW p \in Bytes, NEW s \in Bytes
  PROVE  p \o s \in Bytes /\ IsPrefix(p, p \o s) /\ TrimPrefix(p \o s, p) = s
<1> DEFINE x == p \o s
           y == SubSeq(x, Len(p) + 1, Len(x))
<1>0. Len(p) \in Nat /\ Len(s) \in Nat
  BY LenProperties DEF Bytes
<1>1. /\ x \in Bytes /\ Len(x) = Len(p) + Len(s)
      /\ \A i \in 1..(Len(p) + Len(s)) : x[i] = IF i <= Len(p) THEN p[i] ELSE s[i - Len(p)]
  BY ConcatProperties DEF Bytes
<1> HIDE DEF x
<1>2. IsPrefix(p, x)
  <2>1. \A i \in 1..Len(p) : p[i] = x[i]
    BY <1>0, <1>1
  <2> QED
    BY <1>0, <1>1, <2>1, PrefixPointwise
<1>3. \A i \in (Len(p) + 1)..Len(x) : x[i] \in Int
  BY <1>0, <1>1, ElementOfSeq DEF Bytes
<1>4. y \in Bytes /\ Len(y) = Len(s) /\ \A i \in 1..Len(s) : y[i] = x[Len(p) + i]
  <2>1. /\ y \in Seq(Int)
        /\ Len(y) = IF Len(p) + 1 <= Len(x) THEN Len(x) - (Len(p) + 1) + 1 ELSE 0
        /\ \A i \in 1..(Len(x) - (Len(p) + 1) + 1) : y[i] = x[Len(p) + 1 + i - 1]
    BY <1>0, <1>1, <1>3, SubSeqProperties
  <2> QED
    BY <1>0, <1>1, <2>1 DEF Bytes
<1>5. \A i \in 1..Len(s) : x[Len(p) + i] = s[i]
  BY <1>0, <1>1
<1>6. y = s
  BY <1>4, <1>5, SeqEqual DEF Bytes
<1> QED
  BY <1>1, <1>2, <1>6 DEF TrimPrefix, x

(* A sequence is its prefix and the rest.                                  *)
LEMMA PrefixSplits ==
  ASSUME NEW p \in Bytes, NEW x \in Bytes, IsPrefix(p, x)
  PROVE  \E s \in Bytes : x = p \o s
<1> DEFINE s == SubSeq(x, Len(p) + 1, Len(x))
<1>0. Len(p) \in Nat /\ Len(x) \in Nat /\ Len(p) <= Len(x) /\ SubSeq(x, 1, Len(p)) = p
  BY LenProperties, SubSeqFull DEF Bytes, IsPrefix
<1>1. s \in Bytes
  <2>1. \A i \in (Len(p) + 1)..Len(x) : x[i] \in Int
    BY <1>0, ElementOfSeq DEF Bytes
  <2> QED
    BY <1>0, <2>1, SubSeqProperties DEF Bytes
<1>2. x = p \o s
  <2>1. 1 \in 1..(Len(x) + 1) /\ Len(p) \in (1 - 1)..Len(x) /\ Len(x) \in Len(p)..Len(x)
    BY <1>0
  <2>2. SubSeq(x, 1, Len(p)) \o SubSeq(x, Len(p) + 1, Len(x)) = SubSeq(x, 1, Len(x))
    BY <2>1, ConcatAdjacentSubSeq DEF Bytes
  <2> QED
    BY <1>0, <2>2, SubSeqFull DEF Bytes
<1> QED
  BY <1>1, <1>2

(* What is put before two keys does not change their order.                *)
LEMMA LessConcat ==
  ASSUME NEW p \in Bytes, NEW s \in Bytes, NEW t \in Bytes
  PROVE  Less(p \o s, p \o t) <=> Less(s, t)
<1> DEFINE x == p \o s
           y == p \o t
<1>0. Len(p) \in Nat /\ Len(s) \in Nat /\ Len(t) \in Nat
  BY LenProperties DEF Bytes
<1>1. /\ x \in Bytes /\ Len(x) = Len(p) + Len(s)
      /\ \A i \in 1..(Len(p) + Len(s)) : x[i] = IF i <= Len(p) THEN p[i] ELSE s[i - Len(p)]
  BY ConcatProperties DEF Bytes
<1>2. /\ y \in Bytes /\ Len(y) = Len(p) + Len(t)
      /\ \A i \in 1..(Len(p) + Len(t)) : y[i] = IF i <= Len(p) THEN p[i] ELSE t[i - Len(p)]
  BY ConcatProperties DEF Bytes
<1>3. x = y <=> s = t
  BY ConcatSimplifications DEF Bytes
<1> HIDE DEF x, y
<1>4. /\ \A i \in 1..Len(p) : i \in 1..Len(x) /\ i \in 1..Len(y) /\ x[i] = p[i] /\ y[i] = p[i]
      /\ \A i \in 1..Len(s) : Len(p) + i \in 1..Len(x) /\ x[Len(p) + i] = s[i]
      /\ \A i \in 1..Len(t) : Len(p) + i \in 1..Len(y) /\ y[Len(p) + i] = t[i]
  <2>1. ASSUME NEW i \in 1..Len(p)
        PROVE  i \in 1..Len(x) /\ i \in 1..Len(y) /\ x[i] = p[i] /\ y[i] = p[i]
    BY <1>0, <1>1, <1>2
  <2>2. ASSUME NEW i \in 1..Len(s) PROVE Len(p) + i \in 1..Len(x) /\ x[Len(p) + i] = s[i]
    <3>1. Len(p) + i \in 1..(Len(p) + Len(s)) /\ ~(Len(p) + i <= Len(p)) /\ (Len(p) + i) - Len(p) = i
      BY <1>0
    <3> QED
      BY <1>1, <3>1
  <2>3. ASSUME NEW i \in 1..Len(t) PROVE Len(p) + i \in 1..Len(y) /\ y[Len(p) + i] = t[i]
    <3>1. Len(p) + i \in 1..(Len(p) + Len(t)) /\ ~(Len(p) + i <= Len(p)) /\ (Len(p) + i) - Len(p) = i
      BY <1>0
    <3> QED
      BY <1>2, <3>1
  <2> QED
    BY <2>1, <2>2, <2>3
<1>5. IsPrefix(x, y) <=> IsPrefix(s, t)
  <2>1. IsPrefix(x, y) <=> Len(x) <= Len(y) /\ \A i \in 1..Len(x) : x[i] = y[i]
    BY <1>1, <1>2, PrefixPointwise
  <2>2. IsPrefix(s, t) <=> Len(s) <= Len(t) /\ \A i \in 1..Len(s) : s[i] = t[i]
    BY PrefixPointwise
  <2>3. ASSUME Len(s) <= Len(t), \A i \in 1..Len(x) : x[i] = y[i], NEW i \in 1..Len(s)
        PROVE  s[i] = t[i]
    BY <1>0, <1>4, <2>3
  <2>4. ASSUME Len(s) <= Len(t), \A i \in 1..Len(s) : s[i] = t[i], NEW i \in 1..Len(x)
        PROVE  x[i] = y[i]
    <3>1. CASE i <= Len(p)
      BY <1>0, <1>1, <1>4, <3>1
    <3>2. CASE i > Len(p)
      <4>1. i - Len(p) \in 1..Len(s) /\ i - Len(p) \in 1..Len(t) /\ i = Len(p) + (i - Len(p))
        BY <1>0, <1>1, <2>4, <3>2
      <4> QED
        BY <1>4, <2>4, <4>1
    <3> QED
      BY <1>0, <1>1, <3>1, <3>2
  <2> QED
    BY <1>0, <1>1, <1>2, <2>1, <2>2, <2>3, <2>4
<1>6. ASSUME NEW i \in 1..Len(s), i <= Len(t), s[i] < t[i], \A j \in 1..(i - 1) : s[j] = t[j]
      PROVE  Less(x, y)
  <2>1. Len(p) + i \in 1..Len(x) /\ Len(p) + i <= Len(y) /\ x[Len(p) + i] < y[Len(p) + i]
    BY <1>0, <1>1, <1>2, <1>4, <1>6
  <2>2. ASSUME NEW j \in 1..(Len(p) + i - 1) PROVE x[j] = y[j]
    <3>1. CASE j <= Len(p)
      BY <1>0, <1>4, <3>1
    <3>2. CASE j > Len(p)
      <4>1. /\ j - Len(p) \in 1..(i - 1) /\ j - Len(p) \in 1..Len(s) /\ j - Len(p) \in 1..Len(t)
            /\ j = Len(p) + (j - Len(p))
        BY <1>0, <1>6, <3>2
      <4> QED
        BY <1>4, <1>6, <4>1
    <3> QED
      BY <1>0, <3>1, <3>2
  <2> QED
    BY <2>1, <2>2 DEF Less
<1>7. ASSUME NEW i \in 1..Len(x), i <= Len(y), x[i] < y[i], \A j \in 1..(i - 1) : x[j] = y[j]
      PROVE  Less(s, t)
  <2>0. \A j \in 1..Len(p) : p[j] \in Int
    BY ElementOfSeq DEF Bytes
  <2>1. i > Len(p)
    <3>1. SUFFICES ASSUME i <= Len(p) PROVE FALSE
      BY <1>0, <1>1
    <3>2. i \in 1..Len(p) /\ x[i] = p[i] /\ y[i] = p[i]
      BY <1>0, <1>1, <1>4, <3>1
    <3> QED
      BY <1>7, <2>0, <3>2
  <2> DEFINE k == i - Len(p)
  <2>2. k \in 1..Len(s) /\ k <= Len(t) /\ k \in 1..Len(t) /\ i = Len(p) + k
    BY <1>0, <1>1, <1>2, <1>7, <2>1
  <2>3. s[k] < t[k]
    BY <1>4, <1>7, <2>2
  <2>4. ASSUME NEW j \in 1..(k - 1) PROVE s[j] = t[j]
    <3>1. j \in 1..Len(s) /\ j \in 1..Len(t) /\ Len(p) + j \in 1..(i - 1)
      BY <1>0, <2>2
    <3> QED
      BY <1>4, <1>7, <3>1
  <2> QED
    BY <2>2, <2>3, <2>4 DEF Less
<1> QED
  BY <1>3, <1>5, <1>6, <1>7 DEF Less, IsStrictPrefix, x, y

(* The empty key comes before every other.                                 *)
LEMMA LessEmpty ==
  ASSUME NEW s \in Bytes, s # <<>>
  PROVE  Less(<<>>, s)
<1>1. <<>> \in Bytes /\ Len(<<>>) = 0 /\ Len(s) \in Nat
  BY EmptySeq, LenProperties DEF Bytes
<1>2. IsPrefix(<<>>, s)
  BY <1>1, PrefixPointwise
<1> QED
  BY <1>2 DEF Less, IsStrictPrefix

-----------------------------------------------------------------------------
(* Views.                                                                  *)

(* A prefix that is not empty ends with "/" when it is used.               *)
LEMMA NormalFacts ==
  ASSUME NEW p \in Bytes
  PROVE  /\ Normal(p) \in Bytes
         /\ p # <<>> => Len(Normal(p)) \in Nat \ {0} /\ Normal(p)[Len(Normal(p))] = Slash
<1>1. CASE p = <<>>
  BY <1>1 DEF Normal
<1>2. CASE p # <<>> /\ Last(p) = Slash
  BY <1>2, EmptySeq DEF Normal, Last, Bytes
<1>3. CASE p # <<>> /\ Last(p) # Slash
  <2>1. /\ Append(p, Slash) \in Bytes /\ Len(p) \in Nat
        /\ Len(Append(p, Slash)) = Len(p) + 1 /\ Append(p, Slash)[Len(p) + 1] = Slash
    BY ViewsAssumption, AppendProperties, LenProperties DEF Bytes
  <2> QED
    BY <1>3, <2>1 DEF Normal
<1> QED
  BY <1>1, <1>2, <1>3

(* A view that Prefixed has made is not empty and ends with "/".           *)
Made(v) == v \in Bytes /\ Len(v) \in Nat \ {0} /\ v[Len(v)] = Slash

(* Prefixed makes such views.                                              *)
LEMMA PrefixedMade ==
  ASSUME NEW v \in {Prefixed(o[1], o[2]) : o \in Opened}
  PROVE  Made(v)
<1>1. PICK u \in Bytes, p \in Bytes : p # <<>> /\ v = u \o Normal(p)
  BY MeteredAssumption DEF Prefixed, Bytes
<1> DEFINE n == Normal(p)
<1>2. n \in Bytes /\ Len(n) \in Nat \ {0} /\ n[Len(n)] = Slash
  BY <1>1, NormalFacts
<1> HIDE DEF n
<1>3. /\ u \o n \in Bytes /\ Len(u) \in Nat /\ Len(u \o n) = Len(u) + Len(n)
      /\ \A i \in 1..(Len(u) + Len(n)) : (u \o n)[i] = IF i <= Len(u) THEN u[i] ELSE n[i - Len(u)]
  BY <1>2, ConcatProperties, LenProperties DEF Bytes
<1>4. /\ Len(u) + Len(n) \in 1..(Len(u) + Len(n)) /\ ~(Len(u) + Len(n) <= Len(u))
      /\ (Len(u) + Len(n)) - Len(u) = Len(n)
  BY <1>2, <1>3
<1>5. (u \o n)[Len(u) + Len(n)] = Slash
  BY <1>2, <1>3, <1>4
<1> QED
  BY <1>1, <1>2, <1>3, <1>5 DEF Made, n

(* The key below a view and the configured prefix.                         *)
LEMMA ServiceKeyFacts ==
  ASSUME NEW v \in Bytes, NEW k \in Bytes
  PROVE  /\ Normal(S3Prefix) \in Bytes /\ v \o k \in Bytes
         /\ ServiceKey(v, k) = Normal(S3Prefix) \o (v \o k)
         /\ ServiceKey(v, k) \in Bytes
         /\ ServiceKey(v, k) = ServiceKey(v, <<>>) \o k
         /\ k # <<>> => ServiceKey(v, k) # <<>> /\ v \o k # <<>>
<1> DEFINE S == Normal(S3Prefix)
<1>1. S \in Bytes /\ <<>> \in Bytes
  BY ViewsAssumption, NormalFacts, EmptySeq DEF Bytes
<1>2. v \o k \in Bytes /\ v \o <<>> = v /\ (k # <<>> => v \o k # <<>>)
  BY ConcatProperties, ConcatEmptySeq, ConcatEqualIffEmpty DEF Bytes
<1>3. ServiceKey(v, k) = S \o (v \o k) /\ ServiceKey(v, <<>>) = S \o v
  BY <1>2 DEF ServiceKey, keyOf, Full
<1> HIDE DEF S
<1>4. S \o (v \o k) \in Bytes /\ (v \o k # <<>> => S \o (v \o k) # <<>>)
  BY <1>1, <1>2, ConcatProperties, ConcatEqualIffEmpty DEF Bytes
<1>5. (S \o v) \o k = S \o (v \o k)
  BY <1>1, ConcatAssociative DEF Bytes
<1> QED
  BY <1>1, <1>2, <1>3, <1>4, <1>5 DEF S

(* The view does not change the order of keys.                             *)
LEMMA ServiceKeyLess ==
  ASSUME NEW v \in Bytes, NEW j \in Bytes, NEW k \in Bytes
  PROVE  Less(ServiceKey(v, j), ServiceKey(v, k)) <=> Less(j, k)
<1> DEFINE q == ServiceKey(v, <<>>)
<1>1. q \in Bytes /\ ServiceKey(v, j) = q \o j /\ ServiceKey(v, k) = q \o k
  BY ServiceKeyFacts, EmptySeq DEF Bytes
<1> HIDE DEF q
<1> QED
  BY <1>1, LessConcat

(* One page of a view: keys it shows, after startAfter, ascending, and     *)
(* what it leaves out comes after it.                                      *)
LEMMA ViewPage ==
  ASSUME NEW v \in Bytes, NEW keys \in SUBSET Bytes, ServiceKey(v, <<>>) \notin keys,
         NEW aft \in Bytes, NEW pg \in PrefixedList(v, keys, <<>>, aft)
  PROVE  /\ pg \in Seq(Bytes)
         /\ \A i \in DOMAIN pg :
              pg[i] # <<>> /\ ServiceKey(v, pg[i]) \in keys /\ Less(aft, pg[i])
         /\ \A i, j \in DOMAIN pg : i < j => Less(pg[i], pg[j])
         /\ \A k \in Bytes : ServiceKey(v, k) \in keys /\ Less(aft, k) =>
              \/ \E i \in DOMAIN pg : pg[i] = k
              \/ pg # <<>> /\ \A i \in DOMAIN pg : Less(pg[i], k)
<1> DEFINE S == Normal(S3Prefix)
           q == S \o (v \o <<>>)
           a == After(S, After(v, aft))
           found == {x \in keys : IsPrefix(q, x) /\ Less(a, x)}
<1>1. PICK sp \in S3List(keys, v \o <<>>, After(v, aft)) : pg = Trimmed(sp, v)
  BY DEF PrefixedList
<1>2. PICK p \in ServiceList(keys, q, a) : sp = Trimmed(p, S)
  BY <1>1 DEF S3List
<1>3. /\ p \in BoundedSeq(found, MaxKeys)
      /\ \A i, j \in DOMAIN p : i < j => Less(p[i], p[j])
      /\ \A k \in found \ Range(p) :
           Len(p) = MaxKeys /\ \A i \in DOMAIN p : Less(p[i], k)
  BY <1>2 DEF ServiceList
<1>4. PICK m \in 0..MaxKeys : p \in [1..m -> found]
  BY <1>3 DEF BoundedSeq, SeqOf
<1>5. q = ServiceKey(v, <<>>) /\ q \in Bytes /\ S \in Bytes
  BY ServiceKeyFacts, EmptySeq DEF Bytes, ServiceKey, keyOf, Full
<1>6. ASSUME NEW k \in Bytes, k # <<>>
      PROVE  Less(a, ServiceKey(v, k)) <=> Less(aft, k)
  <2>1. CASE aft = <<>>
    <3>1. a = <<>>
      BY <2>1 DEF After
    <3> QED
      BY <1>6, <2>1, <3>1, LessEmpty, ServiceKeyFacts
  <2>2. CASE aft # <<>>
    <3>1. a = ServiceKey(v, aft)
      BY <2>2, ServiceKeyFacts DEF After
    <3> QED
      BY <3>1, ServiceKeyLess
  <2> QED
    BY <2>1, <2>2
<1>7. ASSUME NEW k \in Bytes
      PROVE  /\ TrimPrefix(TrimPrefix(ServiceKey(v, k), S), v) = k
             /\ IsPrefix(q, ServiceKey(v, k))
  <2>1. TrimPrefix(S \o (v \o k), S) = v \o k /\ TrimPrefix(v \o k, v) = k
    BY <1>5, ServiceKeyFacts, TrimConcat
  <2>2. IsPrefix(q, q \o k)
    BY <1>5, TrimConcat
  <2>3. /\ ServiceKey(v, k) = S \o (v \o k)
        /\ ServiceKey(v, k) = ServiceKey(v, <<>>) \o k
    BY ServiceKeyFacts
  <2> HIDE DEF S, q
  <2> QED
    BY <1>5, <2>1, <2>2, <2>3
<1> HIDE DEF q, a, S
<1>8. ASSUME NEW i \in 1..m
      PROVE  pg[i] \in Bytes /\ pg[i] # <<>> /\ p[i] = ServiceKey(v, pg[i]) /\ p[i] \in found
  <2>1. p[i] \in keys /\ IsPrefix(q, p[i]) /\ p[i] \in Bytes
    BY <1>4
  <2>2. PICK k \in Bytes : p[i] = q \o k
    BY <1>5, <2>1, PrefixSplits
  <2>3. p[i] = ServiceKey(v, k)
    BY <1>5, <2>2, ServiceKeyFacts
  <2>4. pg[i] = TrimPrefix(TrimPrefix(p[i], S), v)
    BY <1>1, <1>2, <1>4 DEF Trimmed
  <2>5. pg[i] = k
    BY <1>7, <2>3, <2>4
  <2>6. k # <<>>
    BY <2>1, <2>3
  <2> QED
    BY <1>4, <2>3, <2>5, <2>6
<1>9. m \in Nat /\ DOMAIN p = 1..m /\ DOMAIN pg = 1..m /\ pg = [i \in 1..m |-> pg[i]]
  BY <1>1, <1>2, <1>4, ViewsAssumption DEF Trimmed
<1>10. pg \in Seq(Bytes)
  BY <1>8, <1>9, SeqDef
<1>11. ASSUME NEW k \in Bytes, ServiceKey(v, k) \in keys, Less(aft, k)
       PROVE  \/ \E i \in DOMAIN pg : pg[i] = k
              \/ pg # <<>> /\ \A i \in DOMAIN pg : Less(pg[i], k)
  <2>1. k # <<>>
    BY <1>11
  <2>2. ServiceKey(v, k) \in found
    BY <1>6, <1>7, <1>11, <2>1
  <2>3. CASE ServiceKey(v, k) \in Range(p)
    <3>1. PICK i \in 1..m : p[i] = ServiceKey(v, k)
      BY <1>9, <2>3 DEF Range
    <3>2. TrimPrefix(TrimPrefix(ServiceKey(v, pg[i]), S), v) = pg[i]
      BY <1>7, <1>8
    <3>3. pg[i] = k
      BY <1>7, <1>8, <3>1, <3>2
    <3> QED
      BY <1>9, <3>3
  <2>4. CASE ServiceKey(v, k) \notin Range(p)
    <3>1. Len(p) = MaxKeys /\ \A i \in 1..m : Less(p[i], ServiceKey(v, k))
      BY <1>3, <1>9, <2>2, <2>4
    <3>2. \A i \in 1..m : Less(pg[i], k)
      BY <1>8, <3>1, ServiceKeyLess
    <3>3. m # 0
      <4>1. m = 0 => p = <<>>
        BY <1>4
      <4>2. Len(<<>>) = 0
        OBVIOUS
      <4> QED
        BY <3>1, <4>1, <4>2, ViewsAssumption
    <3>4. pg # <<>>
      BY <1>9, <3>3
    <3> QED
      BY <1>9, <3>2, <3>4
  <2> QED
    BY <2>3, <2>4
<1>12. \A i \in 1..m : ServiceKey(v, pg[i]) \in keys /\ Less(aft, pg[i])
  BY <1>6, <1>8
<1>13. \A i, j \in 1..m : i < j => Less(pg[i], pg[j])
  BY <1>3, <1>8, <1>9, ServiceKeyLess
<1> QED
  BY <1>8, <1>9, <1>10, <1>11, <1>12, <1>13

-----------------------------------------------------------------------------
(* The inductive invariant.                                                *)
AllCalls == UNION {Calls[c] : c \in Clients}
Steps    == {"idle", "bucket", "count", "inner", "putbytes", "body", "listobjects",
             "listbytes", "over"}
Fields   == {"putBytes", "putCount", "getBytes", "getCount", "listCount",
             "listObjects", "listObjectBytes"}
Tallies  == {"putBytes", "putCount", "getBytes", "getCount", "listCount"}
Gets     == {"Get", "GetRange", "Stat"}

(* Objects and calls are of their types, and a client is at steps of the   *)
(* call it makes.                                                          *)
CallInv ==
  /\ DOMAIN objects \subseteq Bytes
  /\ \A k \in DOMAIN objects : objects[k] \in 0..MaxSize
  /\ pc \in [Clients -> Steps]
  /\ req \in [Clients -> AllCalls \cup {[op |-> "none"]}]
  /\ left \in [Clients -> 0..MaxSize]
  /\ \A c \in Clients :
       /\ pc[c] # "idle" => req[c] \in Calls[c]
       /\ pc[c] \in {"bucket", "count"} => req[c].op # "Delete"
       /\ pc[c] = "putbytes" => req[c].op = "Put"
       /\ pc[c] = "body" => req[c].op \in Gets
       /\ pc[c] \in {"listobjects", "listbytes", "over"} => req[c].op = "List"

(* Every label has counters of its own, a request in flight has those of   *)
(* its label, and they add up to the requests counted.                     *)
Holds(c) == pc[c] \in Steps \ {"idle", "bucket", "over"} /\ req[c].op # "Delete"

HeapInv ==
  /\ \E S : heap \in Seq(S)
  /\ \A i \in 1..Len(heap) : /\ DOMAIN heap[i] = Fields
                             /\ \A f \in Tallies : heap[i][f] \in Nat

LabelInv ==
  /\ \A l \in DOMAIN labels : labels[l] \in 1..Len(heap)
  /\ \A k, l \in DOMAIN labels : labels[k] = labels[l] => k = l
  /\ ptr \in [Clients -> 0..Len(heap)]
  /\ \A c \in Clients : Holds(c) => Label(c) \in DOMAIN labels /\ ptr[c] = labels[Label(c)]
  /\ counted \in [Labels -> Nat]
  /\ NoCountLost

(* The bytes that a counted request may still add to its label: those of a *)
(* put that has not added them, those a stream or a body still has.        *)
PutDue(c) ==
  IF pc[c] \in {"inner", "putbytes"} /\ req[c].op = "Put" THEN req[c].size
  ELSE IF pc[c] = "inner" /\ req[c].op = "PutStream" THEN left[c]
  ELSE 0
GetDue(c) ==
  IF pc[c] = "inner" /\ req[c].op \in Gets THEN MaxSize
  ELSE IF pc[c] = "body" THEN left[c]
  ELSE 0
PutDues(i) == [c \in Clients |-> IF ptr[c] = i THEN PutDue(c) ELSE 0]
GetDues(i) == [c \in Clients |-> IF ptr[c] = i THEN GetDue(c) ELSE 0]

(* The sum of such a function, as the size of a set.                       *)
Tokens(w) == {x \in Clients \X (1..MaxSize) : x[2] <= w[x[1]]}
Total(w)  == Cardinality(Tokens(w))

BytesInv ==
  \A i \in 1..Len(heap) :
    /\ heap[i]["putBytes"] + Total(PutDues(i)) <= heap[i]["putCount"] * MaxSize
    /\ heap[i]["getBytes"] + Total(GetDues(i)) <= heap[i]["getCount"] * MaxSize

(* What Stats has loaded: bytes are bounded by the count in the heap until *)
(* the count is loaded too.                                                *)
SnapInv ==
  /\ DOMAIN spc = DOMAIN snap /\ DOMAIN snap \subseteq DOMAIN labels
  /\ \A l \in DOMAIN spc :
       /\ spc[l] \in 0..Len(LoadOrder)
       /\ DOMAIN snap[l] = Fields /\ \A f \in Tallies : snap[l][f] \in Nat
       /\ spc[l] >= 1 => snap[l]["putBytes"] <= heap[labels[l]]["putCount"] * MaxSize
       /\ spc[l] >= 2 => snap[l]["putBytes"] <= snap[l]["putCount"] * MaxSize
       /\ spc[l] >= 3 => snap[l]["getBytes"] <= heap[labels[l]]["getCount"] * MaxSize
       /\ spc[l] >= 4 => snap[l]["getBytes"] <= snap[l]["getCount"] * MaxSize

(* The pages ascend and end with startAfter; a key that has been there     *)
(* since the first page is on one of them or comes after it.               *)
Over == \/ pc[Pager] = "over"
        \/ pc[Pager] \in {"listobjects", "listbytes"} /\ page = <<>>

PagingInv ==
  /\ ServiceKey(Paged, <<>>) \notin DOMAIN objects
  /\ after \in Bytes /\ listed \in Seq(Bytes)
  /\ ViewAscends
  /\ listed # <<>> => after = listed[Len(listed)]
  /\ \A k \in steady :
       /\ k \in Bytes /\ ServiceKey(Paged, k) \in DOMAIN objects
       /\ \/ \E i \in DOMAIN listed : listed[i] = k
          \/ Less(after, k) /\ ~Over

-----------------------------------------------------------------------------
(* Arithmetic, sums and the heap.                                          *)

(* One request more allows MaxSize bytes more.                             *)
LEMMA OneMore ==
  ASSUME NEW n \in Nat, NEW m \in Nat
  PROVE  n * m \in Nat /\ (n + 1) * m = n * m + m
OBVIOUS

(* More requests allow more bytes.                                         *)
LEMMA MoreAllow ==
  ASSUME NEW a \in Nat, NEW b \in Nat, NEW m \in Nat, a <= b
  PROVE  a * m <= b * m
<1>1. (b - a) * m >= 0 /\ (b - a) * m = b * m - a * m
  OBVIOUS
<1> QED
  BY <1>1

(* The calls of the clients.                                               *)
LEMMA CallFacts ==
  ASSUME NEW c \in Clients, NEW r \in Calls[c]
  PROVE  /\ r.op \in Ops \cup {"List"} /\ r.size \in 0..MaxSize
         /\ r.key \in Bytes /\ Made(r.view)
         /\ r.op = "List" => c = Pager /\ r = ListCall /\ r.view = Paged
         /\ r.op # "List" => c # Pager
         /\ r \in AllCalls /\ Classify(Full(r.view, r.key)) \in Labels
<1>0. r \in AllCalls /\ Classify(Full(r.view, r.key)) \in Labels
  BY DEF AllCalls, Labels
<1>1. CASE c = Pager
  <2>1. r = ListCall
    BY <1>1, MeteredAssumption
  <2>2. /\ ListCall.op = "List" /\ ListCall.view = Paged
        /\ ListCall.key = <<>> /\ ListCall.size = 0
    BY DEF ListCall
  <2>3. Made(Paged) /\ <<>> \in Bytes /\ 0 \in 0..MaxSize
    BY MeteredAssumption, PrefixedMade, EmptySeq DEF Bytes
  <2> QED
    BY <1>0, <1>1, <2>1, <2>2, <2>3
<1>2. CASE c # Pager
  BY <1>0, <1>2, MeteredAssumption, PrefixedMade DEF Ops, Bytes
<1> QED
  BY <1>1, <1>2

(* An atomic Add changes one counter.                                      *)
LEMMA AddFacts ==
  ASSUME HeapInv, NEW c \in Clients, ptr[c] \in 1..Len(heap), NEW f \in Fields, NEW n,
         Add(c, f, n)
  PROVE  /\ \E S : heap' \in Seq(S)
         /\ Len(heap') = Len(heap)
         /\ \A i \in 1..Len(heap) : DOMAIN heap'[i] = Fields
         /\ heap'[ptr[c]][f] = heap[ptr[c]][f] + n
         /\ \A i \in 1..Len(heap) : \A g \in Fields :
              i # ptr[c] \/ g # f => heap'[i][g] = heap[i][g]
<1> DEFINE cell == [heap[ptr[c]] EXCEPT ![f] = heap[ptr[c]][f] + n]
<1>1. PICK S : heap \in Seq(S)
  BY DEF HeapInv
<1>2. heap' = [heap EXCEPT ![ptr[c]] = cell]
  BY DEF Add
<1>3. DOMAIN heap[ptr[c]] = Fields
  BY DEF HeapInv
<1>4. /\ DOMAIN cell = Fields /\ cell[f] = heap[ptr[c]][f] + n
      /\ \A g \in Fields : g # f => cell[g] = heap[ptr[c]][g]
  BY <1>3
<1> HIDE DEF cell
<1>5. heap \in Seq(S \cup {cell})
  BY <1>1, SeqMonotonic
<1>6. /\ heap' \in Seq(S \cup {cell}) /\ Len(heap') = Len(heap)
      /\ \A j \in 1..Len(heap) : heap'[j] = IF j = ptr[c] THEN cell ELSE heap[j]
  BY <1>2, <1>5, ExceptSeq
<1> QED
  BY <1>4, <1>6 DEF HeapInv

-----------------------------------------------------------------------------
(* The tokens of one client are as many as its weight.                     *)
LEMMA OwnTokens ==
  ASSUME NEW c \in Clients, NEW n \in 0..MaxSize
  PROVE  IsFiniteSet({c} \X (1..n)) /\ Cardinality({c} \X (1..n)) = n
<1>1. n \in Nat /\ IsFiniteSet(1..n) /\ Cardinality(1..n) = n
  <2>1. n \in Nat /\ n \in Int /\ 1 \in Int
    BY MeteredAssumption
  <2>2. IsFiniteSet(1..n) /\ Cardinality(1..n) = IF 1 > n THEN 0 ELSE n - 1 + 1
    BY <2>1, FS_Interval
  <2> QED
    BY <2>1, <2>2
<1>2. IsFiniteSet({c}) /\ Cardinality({c}) = 1
  BY FS_Singleton
<1> QED
  BY <1>1, <1>2, FS_Product

(* A sum changes with its one term that changes.                           *)
LEMMA TotalStep ==
  ASSUME NEW w \in [Clients -> 0..MaxSize], NEW u \in [Clients -> 0..MaxSize],
         NEW c \in Clients, \A d \in Clients \ {c} : u[d] = w[d]
  PROVE  Total(w) \in Nat /\ Total(u) \in Nat /\ Total(u) = Total(w) - w[c] + u[c]
<1> DEFINE rest == {x \in (Clients \ {c}) \X (1..MaxSize) : x[2] <= w[x[1]]}
<1>0. MaxSize \in Nat /\ IsFiniteSet(Clients)
  BY MeteredAssumption
<1>1. IsFiniteSet(rest)
  <2>1. IsFiniteSet(Clients \X (1..MaxSize))
    <3>1. 1 \in Int /\ MaxSize \in Int
      BY <1>0
    <3>2. IsFiniteSet(1..MaxSize)
      BY <3>1, FS_Interval
    <3> QED
      BY <1>0, <3>2, FS_Product
  <2>2. rest \subseteq Clients \X (1..MaxSize)
    OBVIOUS
  <2> QED
    BY <2>1, <2>2, FS_Subset
<1>2. ASSUME NEW t \in [Clients -> 0..MaxSize], \A d \in Clients \ {c} : t[d] = w[d]
      PROVE  Total(t) \in Nat /\ Total(t) = Cardinality(rest) + t[c]
  <2> DEFINE own == {c} \X (1..t[c])
  <2>1. Tokens(t) = rest \cup own
    <3>1. ASSUME NEW d \in Clients, NEW j \in 1..MaxSize
          PROVE  <<d, j>> \in Tokens(t) <=> <<d, j>> \in rest \cup own
      <4>1. t[c] \in 0..MaxSize
        OBVIOUS
      <4>2. CASE d = c
        BY <1>0, <4>1, <4>2 DEF Tokens
      <4>3. CASE d # c
        BY <1>2, <4>3 DEF Tokens
      <4> QED
        BY <4>2, <4>3
    <3>2. Tokens(t) \subseteq Clients \X (1..MaxSize)
      BY DEF Tokens
    <3>3. rest \cup own \subseteq Clients \X (1..MaxSize)
      BY <1>0
    <3> QED
      BY <3>1, <3>2, <3>3
  <2>2. rest \cap own = {}
    OBVIOUS
  <2>3. IsFiniteSet(own) /\ Cardinality(own) = t[c]
    BY OwnTokens
  <2> HIDE DEF rest, own
  <2>4. Cardinality(rest \cup own) = Cardinality(rest) + Cardinality(own) - Cardinality(rest \cap own)
    BY <1>1, <2>3, FS_Union
  <2>5. Cardinality(rest \cap own) = 0 /\ Cardinality(rest) \in Nat
    BY <1>1, <2>2, FS_EmptySet, FS_CardinalityType
  <2>6. t[c] \in Nat
    BY <1>0
  <2> QED
    BY <2>1, <2>3, <2>4, <2>5, <2>6 DEF Total
<1>3. Total(w) \in Nat /\ Total(w) = Cardinality(rest) + w[c]
  BY <1>2
<1>4. Total(u) \in Nat /\ Total(u) = Cardinality(rest) + u[c]
  BY <1>2
<1>5. Cardinality(rest) \in Nat /\ w[c] \in Nat /\ u[c] \in Nat
  BY <1>0, <1>1, FS_CardinalityType
<1> HIDE DEF rest
<1> QED
  BY <1>3, <1>4, <1>5

(* Nobody owes anything.                                                   *)
LEMMA TotalZero == Total([c \in Clients |-> 0]) = 0
<1>1. Tokens([c \in Clients |-> 0]) = {}
  BY DEF Tokens
<1> QED
  BY <1>1, FS_EmptySet DEF Total

-----------------------------------------------------------------------------
(* Each part of the invariant is preserved, action by action.              *)

(* The steps of one client.                                                *)
Step(c) ==
  \/ Invoke(c) \/ Bucket(c) \/ Count(c) \/ Fails(c)
  \/ Put(c) \/ PutBytes(c) \/ StreamRead(c) \/ PutStream(c)
  \/ Get(c) \/ BodyRead(c) \/ BodyClose(c) \/ Delete(c)
  \/ List(c) \/ ListObjects(c) \/ ListBytes(c)

(* The key of a call, at the service.                                      *)
LEMMA KeyFacts ==
  ASSUME NEW c \in Clients, req[c] \in Calls[c]
  PROVE  Key(c) \in Bytes /\ Label(c) \in Labels
<1>1. req[c].key \in Bytes /\ req[c].view \in Bytes
  BY CallFacts DEF Made
<1> QED
  BY <1>1, CallFacts, ServiceKeyFacts DEF Key, Label

(* Calls stay what their clients make.                                     *)
LEMMA CallStep ==
  ASSUME CallInv, NEW c \in Clients, Step(c)
  PROVE  CallInv'
<1>0. MaxSize \in Nat /\ 0 \in 0..MaxSize
  BY MeteredAssumption
<1>1. CASE Invoke(c)
  <2>1. PICK r \in Calls[c] : req' = [req EXCEPT ![c] = r]
    BY <1>1 DEF Invoke
  <2>2. r \in AllCalls /\ req'[c] = r
    BY <2>1, CallFacts DEF CallInv
  <2>3. pc' = [pc EXCEPT ![c] = IF r.op = "Delete" THEN "inner" ELSE "bucket"]
    BY <1>1, <2>2 DEF Invoke, Goto
  <2> QED
    BY <1>1, <2>1, <2>2, <2>3 DEF Invoke, CallInv, Steps, bucket
<1>2. CASE Bucket(c)
  BY <1>2 DEF Bucket, CallInv, Steps, Goto
<1>3. CASE Count(c)
  <2>1. req[c].size \in 0..MaxSize
    BY <1>3, CallFacts DEF Count, CallInv
  <2> QED
    BY <1>0, <1>3, <2>1 DEF Count, CallInv, Steps, Goto
<1>4. CASE Fails(c)
  BY <1>0, <1>4 DEF Fails, CallInv, Steps, Goto, bucket
<1>5. CASE Put(c) \/ PutStream(c)
  <2>1. req[c].size \in 0..MaxSize /\ Key(c) \in Bytes
    BY <1>5, CallFacts, KeyFacts DEF Put, PutStream, CallInv
  <2>2. /\ DOMAIN objects' \subseteq Bytes
        /\ \A k \in DOMAIN objects' : objects'[k] \in 0..MaxSize
    BY <1>5, <2>1 DEF Put, PutStream, Store, CallInv
  <2> QED
    BY <1>5, <2>2 DEF Put, PutStream, CallInv, Steps, Goto
<1>6. CASE PutBytes(c)
  BY <1>6 DEF PutBytes, CallInv, Steps, Goto
<1>7. CASE StreamRead(c) \/ BodyRead(c)
  <2>1. left[c] - 1 \in 0..MaxSize
    BY <1>0, <1>7 DEF StreamRead, BodyRead, CallInv
  <2> QED
    BY <1>7, <2>1 DEF StreamRead, BodyRead, CallInv
<1>8. CASE Get(c)
  BY <1>0, <1>8 DEF Get, CallInv, Steps, Goto, Gets, bucket
<1>9. CASE BodyClose(c)
  BY <1>0, <1>9 DEF BodyClose, CallInv, Steps, Goto, bucket
<1>10. CASE Delete(c)
  BY <1>10 DEF Delete, CallInv, Steps, Goto
<1>11. CASE List(c)
  BY <1>11 DEF List, CallInv, Steps, Goto, bucket
<1>12. CASE ListObjects(c) \/ ListBytes(c)
  BY <1>12 DEF ListObjects, ListBytes, CallInv, Steps, Goto
<1> QED
  BY <1>1, <1>2, <1>3, <1>4, <1>5, <1>6, <1>7, <1>8, <1>9, <1>10, <1>11, <1>12 DEF Step

(* Counters are added to and never lowered.                                *)
Grows ==
  /\ Len(heap') >= Len(heap)
  /\ \A i \in 1..Len(heap) : \A f \in Tallies : heap'[i][f] >= heap[i][f]

(* An Add keeps that.                                                      *)
LEMMA AddGrows ==
  ASSUME HeapInv, NEW c \in Clients, ptr[c] \in 1..Len(heap), NEW f \in Fields, NEW n,
         f \in Tallies => n \in Nat,
         Add(c, f, n)
  PROVE  HeapInv' /\ Grows
<1>1. /\ \E S : heap' \in Seq(S)
      /\ Len(heap') = Len(heap) /\ Len(heap) \in Nat
      /\ \A i \in 1..Len(heap) : DOMAIN heap'[i] = Fields
      /\ heap'[ptr[c]][f] = heap[ptr[c]][f] + n
      /\ \A i \in 1..Len(heap) : \A g \in Fields :
           i # ptr[c] \/ g # f => heap'[i][g] = heap[i][g]
  BY AddFacts, LenProperties DEF HeapInv
<1>2. ASSUME NEW i \in 1..Len(heap), NEW g \in Tallies
      PROVE  heap'[i][g] \in Nat /\ heap'[i][g] >= heap[i][g]
  <2>1. heap[i][g] \in Nat /\ g \in Fields
    BY DEF HeapInv, Tallies, Fields
  <2>2. CASE i = ptr[c] /\ g = f
    BY <1>1, <2>1, <2>2
  <2>3. CASE ~(i = ptr[c] /\ g = f)
    BY <1>1, <2>1, <2>3
  <2> QED
    BY <2>2, <2>3
<1>3. Grows
  BY <1>1, <1>2 DEF Grows
<1>4. HeapInv'
  BY <1>1, <1>2 DEF HeapInv
<1> QED
  BY <1>3, <1>4

(* So does a step that adds nothing.                                       *)
LEMMA HeapSame ==
  ASSUME HeapInv, UNCHANGED heap
  PROVE  HeapInv' /\ Grows
<1>1. Len(heap) \in Nat
  BY LenProperties DEF HeapInv
<1> QED
  BY <1>1 DEF HeapInv, Grows

(* Metered.bucket makes new counters.                                      *)
LEMMA AppendFacts ==
  ASSUME HeapInv, heap' = Append(heap, Zero)
  PROVE  /\ \E S : heap' \in Seq(S)
         /\ Len(heap) \in Nat /\ Len(heap') = Len(heap) + 1
         /\ \A i \in 1..Len(heap) : heap'[i] = heap[i]
         /\ heap'[Len(heap')] = Zero
<1>1. PICK S : heap \in Seq(S)
  BY DEF HeapInv
<1>2. heap \in Seq(S \cup {Zero})
  BY <1>1, SeqMonotonic
<1> QED
  BY <1>2, AppendProperties

(* They are zeros.                                                         *)
LEMMA AppendGrows ==
  ASSUME HeapInv, heap' = Append(heap, Zero)
  PROVE  HeapInv' /\ Grows
<1>1. DOMAIN Zero = Fields /\ \A f \in Fields : Zero[f] = 0
  BY DEF Zero, Fields
<1>2. ASSUME NEW i \in 1..Len(heap')
      PROVE  DOMAIN heap'[i] = Fields /\ \A f \in Tallies : heap'[i][f] \in Nat
  <2>1. CASE i = Len(heap')
    BY <1>1, <2>1, AppendFacts DEF Tallies, Fields
  <2>2. CASE i # Len(heap')
    <3>1. i \in 1..Len(heap) /\ heap'[i] = heap[i]
      BY <2>2, AppendFacts
    <3> QED
      BY <3>1 DEF HeapInv
  <2> QED
    BY <2>1, <2>2
<1>3. ASSUME NEW i \in 1..Len(heap), NEW f \in Tallies PROVE heap'[i][f] >= heap[i][f]
  <2>1. heap'[i] = heap[i] /\ heap[i][f] \in Nat
    BY AppendFacts DEF HeapInv
  <2> QED
    BY <2>1
<1>4. Len(heap') >= Len(heap)
  BY AppendFacts
<1> QED
  BY <1>2, <1>3, <1>4, AppendFacts DEF HeapInv, Grows

(* A request that has looked up its counters has a place to add to.        *)
LEMMA PtrFacts ==
  ASSUME LabelInv, NEW c \in Clients, Holds(c)
  PROVE  ptr[c] \in 1..Len(heap) /\ Label(c) \in DOMAIN labels /\ ptr[c] = labels[Label(c)]
BY DEF LabelInv

(* Every step of a client keeps the counters and lowers none.              *)
LEMMA HeapStep ==
  ASSUME CallInv, HeapInv, LabelInv, PagingInv, NEW c \in Clients, Step(c)
  PROVE  HeapInv' /\ Grows
<1>1. CASE Bucket(c)
  BY <1>1, HeapSame, AppendGrows DEF Bucket
<1>2. CASE Count(c)
  <2>1. Holds(c) /\ req[c] \in Calls[c] /\ req[c].op # "Delete"
    BY <1>2 DEF Count, Holds, CallInv, Steps
  <2>2. Counter(req[c].op) \in Fields
    BY <2>1, CallFacts DEF Counter, Fields, Ops
  <2> QED
    BY <1>2, <2>1, <2>2, PtrFacts, AddGrows DEF Count
<1>3. CASE PutBytes(c)
  <2>1. Holds(c) /\ req[c].size \in Nat
    BY <1>3, CallFacts, MeteredAssumption DEF PutBytes, Holds, CallInv, Steps
  <2> QED
    BY <1>3, <2>1, PtrFacts, AddGrows DEF PutBytes, Fields
<1>4. CASE StreamRead(c) \/ BodyRead(c)
  <2>1. Holds(c)
    BY <1>4 DEF StreamRead, BodyRead, Holds, CallInv, Steps, Gets
  <2> QED
    BY <1>4, <2>1, PtrFacts, AddGrows DEF StreamRead, BodyRead, Fields
<1>5. CASE ListObjects(c) \/ ListBytes(c)
  <2>1. Holds(c)
    BY <1>5 DEF ListObjects, ListBytes, Holds, CallInv, Steps
  <2> QED
    BY <1>5, <2>1, PtrFacts, AddGrows DEF ListObjects, ListBytes, Fields, Tallies
<1>6. CASE ~(\/ Bucket(c) \/ Count(c) \/ PutBytes(c) \/ StreamRead(c) \/ BodyRead(c)
             \/ ListObjects(c) \/ ListBytes(c))
  <2>1. UNCHANGED heap
    BY <1>6 DEF Step, Invoke, Fails, Put, PutStream, Get, BodyClose, Delete, List, bucket
  <2> QED
    BY <2>1, HeapSame
<1> QED
  BY <1>1, <1>2, <1>3, <1>4, <1>5, <1>6

(* The counts of requests in a label's counters.                           *)
Counts == {"putCount", "getCount", "listCount"}

(* Steps that count no request and look up no counters keep the sums.      *)
LEMMA LabelKept ==
  ASSUME HeapInv, LabelInv, UNCHANGED <<labels, ptr, counted>>, Len(heap') = Len(heap),
         \A i \in 1..Len(heap) : \A f \in Counts : heap'[i][f] = heap[i][f],
         \A d \in Clients : Holds(d)' => Holds(d) /\ Label(d)' = Label(d)
  PROVE  LabelInv'
<1>1. NoCountLost'
  <2>1. SUFFICES ASSUME NEW l \in Labels
                 PROVE  counted[l] = IF l \in DOMAIN labels
                                     THEN heap'[labels[l]].putCount + heap'[labels[l]].getCount
                                            + heap'[labels[l]].listCount
                                     ELSE 0
    BY DEF NoCountLost
  <2>2. CASE l \in DOMAIN labels
    <3>1. labels[l] \in 1..Len(heap)
      BY <2>2 DEF LabelInv
    <3> QED
      BY <2>2, <3>1 DEF LabelInv, NoCountLost, Counts
  <2>3. CASE l \notin DOMAIN labels
    BY <2>3 DEF LabelInv, NoCountLost
  <2> QED
    BY <2>2, <2>3
<1> QED
  BY <1>1 DEF LabelInv

(* The counters of a label add up to its requests.                         *)
LEMMA LabelStep ==
  ASSUME CallInv, HeapInv, LabelInv, NEW c \in Clients, Step(c)
  PROVE  LabelInv'
<1>0. ASSUME NEW d \in Clients, UNCHANGED <<pc[d], req[d]>>
      PROVE  Holds(d)' => Holds(d) /\ Label(d)' = Label(d)
  BY <1>0 DEF Holds, Label
<1>1. CASE Invoke(c)
  <2>1. PICK r \in Calls[c] : req' = [req EXCEPT ![c] = r]
    BY <1>1 DEF Invoke
  <2>2. req'[c] = r
    BY <2>1 DEF CallInv
  <2>3. pc'[c] = IF r.op = "Delete" THEN "inner" ELSE "bucket"
    BY <1>1, <2>2 DEF Invoke, Goto, CallInv
  <2>4. ~Holds(c)'
    BY <2>2, <2>3 DEF Holds
  <2>5. \A d \in Clients \ {c} : UNCHANGED <<pc[d], req[d]>>
    BY <1>1, <2>1 DEF Invoke, Goto, CallInv
  <2>6. UNCHANGED <<labels, ptr, counted, heap>>
    BY <1>1 DEF Invoke, bucket
  <2> QED
    BY <1>0, <2>4, <2>5, <2>6, LabelKept
<1>2. CASE Count(c)
  <2> DEFINE f == Counter(req[c].op)
             L == Label(c)
  <2>1. Holds(c) /\ req[c] \in Calls[c] /\ req[c].op # "Delete"
    BY <1>2 DEF Count, Holds, CallInv, Steps
  <2>2. f \in Counts /\ f \in Fields /\ Counts \subseteq Tallies /\ Tallies \subseteq Fields
    BY <2>1, CallFacts DEF Counter, Fields, Ops, Counts, Tallies
  <2>3. ptr[c] \in 1..Len(heap) /\ L \in DOMAIN labels /\ ptr[c] = labels[L] /\ L \in Labels
    BY <2>1, PtrFacts, KeyFacts
  <2> HIDE DEF f, L
  <2>4. /\ Len(heap') = Len(heap)
        /\ heap'[ptr[c]][f] = heap[ptr[c]][f] + 1
        /\ \A i \in 1..Len(heap) : \A g \in Fields :
             i # ptr[c] \/ g # f => heap'[i][g] = heap[i][g]
    BY <1>2, <2>2, <2>3, AddFacts DEF Count, f
  <2>5. counted' = [counted EXCEPT ![L] = @ + 1] /\ UNCHANGED <<labels, ptr, req>>
    BY <1>2 DEF Count, L
  <2>6. NoCountLost'
    <3>1. SUFFICES ASSUME NEW l \in Labels
                   PROVE  counted'[l] = IF l \in DOMAIN labels
                                        THEN heap'[labels[l]].putCount + heap'[labels[l]].getCount
                                               + heap'[labels[l]].listCount
                                        ELSE 0
      BY <2>5 DEF NoCountLost
    <3>2. CASE l = L
      <4>1. counted'[l] = counted[L] + 1
        BY <2>3, <2>5, <3>2 DEF LabelInv
      <4>2. counted[L] = heap[ptr[c]]["putCount"] + heap[ptr[c]]["getCount"]
                           + heap[ptr[c]]["listCount"]
        BY <2>3 DEF LabelInv, NoCountLost
      <4>3. \A g \in Counts : heap[ptr[c]][g] \in Nat
        BY <2>2, <2>3 DEF HeapInv
      <4>4. \A g \in Counts : heap'[ptr[c]][g] = IF g = f THEN heap[ptr[c]][g] + 1 ELSE heap[ptr[c]][g]
        BY <2>2, <2>3, <2>4
      <4>5. heap'[ptr[c]]["putCount"] + heap'[ptr[c]]["getCount"] + heap'[ptr[c]]["listCount"]
              = heap[ptr[c]]["putCount"] + heap[ptr[c]]["getCount"] + heap[ptr[c]]["listCount"] + 1
        BY <2>2, <4>3, <4>4 DEF Counts
      <4> QED
        BY <2>3, <3>2, <4>1, <4>2, <4>5
    <3>3. CASE l # L /\ l \in DOMAIN labels
      <4>1. labels[l] \in 1..Len(heap) /\ labels[l] # ptr[c]
        BY <2>3, <3>3 DEF LabelInv
      <4>2. \A g \in Counts : heap'[labels[l]][g] = heap[labels[l]][g]
        BY <2>2, <2>4, <4>1
      <4>3. counted'[l] = counted[l]
        BY <2>5, <3>3 DEF LabelInv
      <4> QED
        BY <3>3, <4>2, <4>3 DEF LabelInv, NoCountLost, Counts
    <3>4. CASE l # L /\ l \notin DOMAIN labels
      BY <2>5, <3>4 DEF LabelInv, NoCountLost
    <3> QED
      BY <3>2, <3>3, <3>4
  <2>7. \A d \in Clients : Holds(d)' => Holds(d) /\ Label(d)' = Label(d)
    <3>1. \A d \in Clients \ {c} : UNCHANGED <<pc[d], req[d]>>
      BY <1>2 DEF Count, Goto, CallInv
    <3> QED
      BY <1>0, <2>1, <2>5, <3>1 DEF Label
  <2>8. counted' \in [Labels -> Nat]
    BY <2>3, <2>5 DEF LabelInv
  <2> QED
    BY <2>4, <2>5, <2>6, <2>7, <2>8 DEF LabelInv
<1>3. CASE Bucket(c) /\ Known(c)
  <2>1. /\ ptr' = [ptr EXCEPT ![c] = labels[Label(c)]] /\ UNCHANGED <<labels, heap, counted, req>>
        /\ pc' = [pc EXCEPT ![c] = "count"] /\ Label(c) \in DOMAIN labels
    BY <1>3 DEF Bucket, Known, Goto
  <2>2. /\ labels[Label(c)] \in 1..Len(heap) /\ labels[Label(c)] \in 0..Len(heap)
        /\ ptr'[c] = labels[Label(c)]
    BY <2>1 DEF LabelInv
  <2>3. ptr' \in [Clients -> 0..Len(heap)]
    BY <2>1, <2>2 DEF LabelInv
  <2>4. \A d \in Clients : Label(d)' = Label(d) /\ (d # c => ptr'[d] = ptr[d] /\ pc'[d] = pc[d])
    BY <2>1 DEF LabelInv, CallInv, Label
  <2>5. \A d \in Clients : Holds(d)' => Label(d)' \in DOMAIN labels' /\ ptr'[d] = labels'[Label(d)']
    BY <2>1, <2>2, <2>4 DEF LabelInv, Holds
  <2>6. NoCountLost'
    BY <2>1 DEF LabelInv, NoCountLost
  <2> QED
    BY <2>1, <2>3, <2>5, <2>6 DEF LabelInv
<1>4. CASE Bucket(c) /\ ~Known(c)
  <2> DEFINE L == Label(c)
             n == Len(heap')
  <2>1. /\ heap' = Append(heap, Zero) /\ ptr' = [ptr EXCEPT ![c] = n] /\ UNCHANGED <<counted, req>>
        /\ labels' = [l \in DOMAIN labels \cup {L} |-> IF l = L THEN n ELSE labels[l]]
        /\ pc' = [pc EXCEPT ![c] = "count"] /\ L \notin DOMAIN labels
    BY <1>4 DEF Bucket, Known, Goto
  <2>2. /\ Len(heap) \in Nat /\ n = Len(heap) + 1 /\ heap'[n] = Zero
        /\ \A i \in 1..Len(heap) : heap'[i] = heap[i]
    BY <2>1, AppendFacts
  <2> HIDE DEF L, n
  <2>3. /\ L \in DOMAIN labels' /\ labels'[L] = n /\ n \in 1..n
        /\ \A l \in DOMAIN labels : /\ l \in DOMAIN labels' /\ labels'[l] = labels[l] /\ l # L
                                    /\ labels[l] \in 1..Len(heap) /\ labels[l] # n
                                    /\ labels[l] \in 1..n
        /\ \A l \in DOMAIN labels' : l = L \/ l \in DOMAIN labels
    <3>1. \A l \in DOMAIN labels : labels[l] \in 1..Len(heap)
      BY DEF LabelInv
    <3> QED
      BY <2>1, <2>2, <3>1
  <2>4. \A k, l \in DOMAIN labels' : labels'[k] = labels'[l] => k = l
    <3>1. \A k, l \in DOMAIN labels : labels[k] = labels[l] => k = l
      BY DEF LabelInv
    <3> QED
      BY <2>3, <3>1
  <2>5. ptr' \in [Clients -> 0..n]
    BY <2>1, <2>2 DEF LabelInv
  <2>6. ptr'[c] = n /\ \A d \in Clients : d # c => ptr'[d] = ptr[d] /\ pc'[d] = pc[d]
    BY <2>1 DEF LabelInv, CallInv
  <2>7. \A d \in Clients : Label(d)' = Label(d)
    BY <2>1 DEF Label
  <2>8. ASSUME NEW d \in Clients, Holds(d)'
        PROVE  Label(d) \in DOMAIN labels' /\ ptr'[d] = labels'[Label(d)]
    <3>1. CASE d = c
      BY <2>3, <2>6, <3>1 DEF L
    <3>2. CASE d # c
      <4>1. Holds(d)
        BY <2>1, <2>6, <2>8, <3>2 DEF Holds
      <4> QED
        BY <2>3, <2>6, <3>2, <4>1 DEF LabelInv
    <3> QED
      BY <3>1, <3>2
  <2>9. NoCountLost'
    <3>1. SUFFICES ASSUME NEW l \in Labels
                   PROVE  counted[l] = IF l \in DOMAIN labels'
                                       THEN heap'[labels'[l]].putCount + heap'[labels'[l]].getCount
                                              + heap'[labels'[l]].listCount
                                       ELSE 0
      BY <2>1 DEF NoCountLost
    <3>2. CASE l = L
      <4>1. counted[l] = 0
        BY <2>1, <3>2 DEF LabelInv, NoCountLost
      <4>2. Zero.putCount = 0 /\ Zero.getCount = 0 /\ Zero.listCount = 0
        BY DEF Zero
      <4> QED
        BY <2>2, <2>3, <3>2, <4>1, <4>2
    <3>3. CASE l # L /\ l \in DOMAIN labels
      BY <2>2, <2>3, <3>3 DEF LabelInv, NoCountLost
    <3>4. CASE l # L /\ l \notin DOMAIN labels
      BY <2>3, <3>4 DEF LabelInv, NoCountLost
    <3> QED
      BY <3>2, <3>3, <3>4
  <2>10. \A l \in DOMAIN labels' : labels'[l] \in 1..n
    BY <2>3
  <2>11. counted' \in [Labels -> Nat]
    BY <2>1 DEF LabelInv
  <2> QED
    BY <2>4, <2>5, <2>7, <2>8, <2>9, <2>10, <2>11 DEF LabelInv, n
<1>5. CASE ~(Invoke(c) \/ Count(c) \/ Bucket(c))
  <2>1. UNCHANGED <<labels, ptr, counted, req>>
    BY <1>5 DEF Step, Fails, Put, PutBytes, StreamRead, PutStream, Get, BodyRead, BodyClose,
                Delete, List, ListObjects, ListBytes, bucket
  <2>2. Len(heap') = Len(heap) /\ \A i \in 1..Len(heap) : \A f \in Counts : heap'[i][f] = heap[i][f]
    <3>1. ASSUME NEW f \in Fields \ Counts, NEW n, Holds(c), Add(c, f, n)
          PROVE  /\ Len(heap') = Len(heap)
                 /\ \A i \in 1..Len(heap) : \A g \in Counts : heap'[i][g] = heap[i][g]
      <4>1. ptr[c] \in 1..Len(heap) /\ Counts \subseteq Fields /\ f \notin Counts
        BY <3>1, PtrFacts DEF Counts, Fields
      <4> QED
        BY <3>1, <4>1, AddFacts
    <3>2. {"putBytes", "getBytes", "listObjects", "listObjectBytes"} \subseteq Fields \ Counts
      BY DEF Fields, Counts
    <3>3. CASE PutBytes(c) \/ StreamRead(c) \/ BodyRead(c)
      BY <3>1, <3>2, <3>3 DEF PutBytes, StreamRead, BodyRead, Holds, CallInv, Steps, Gets
    <3>4. CASE ListObjects(c) \/ ListBytes(c)
      BY <3>1, <3>2, <3>4 DEF ListObjects, ListBytes, Holds, CallInv, Steps
    <3>5. CASE ~(\/ PutBytes(c) \/ StreamRead(c) \/ BodyRead(c) \/ ListObjects(c) \/ ListBytes(c))
      BY <1>5, <3>5 DEF Step, Fails, Put, PutStream, Get, BodyClose, Delete, List, bucket
    <3> QED
      BY <3>3, <3>4, <3>5
  <2>3. \A d \in Clients \ {c} : UNCHANGED pc[d]
    BY <1>5 DEF Step, Fails, Put, PutBytes, StreamRead, PutStream, Get, BodyRead, BodyClose,
                Delete, List, ListObjects, ListBytes, Goto, CallInv
  <2>4. Holds(c)' => Holds(c)
    BY <1>5 DEF Step, Fails, Put, PutBytes, StreamRead, PutStream, Get, BodyRead, BodyClose,
                Delete, List, ListObjects, ListBytes, Goto, CallInv, Holds, Steps
  <2>5. \A d \in Clients : Holds(d)' => Holds(d) /\ Label(d)' = Label(d)
    BY <1>0, <2>1, <2>3, <2>4 DEF Label
  <2> QED
    BY <2>1, <2>2, <2>5, LabelKept
<1> QED
  BY <1>1, <1>2, <1>3, <1>4, <1>5

-----------------------------------------------------------------------------
(* What a client may still add is at most MaxSize.                         *)
LEMMA DueTypes ==
  ASSUME CallInv, NEW c \in Clients
  PROVE  PutDue(c) \in 0..MaxSize /\ GetDue(c) \in 0..MaxSize
<1>1. MaxSize \in 0..MaxSize /\ 0 \in 0..MaxSize
  BY MeteredAssumption
<1>2. left[c] \in 0..MaxSize
  BY DEF CallInv
<1>3. pc[c] # "idle" => req[c].size \in 0..MaxSize
  BY CallFacts DEF CallInv
<1> QED
  BY <1>1, <1>2, <1>3 DEF PutDue, GetDue

(* What a client may still add to the counters i.                          *)
PutOwn(c, i) == IF ptr[c] = i THEN PutDue(c) ELSE 0
GetOwn(c, i) == IF ptr[c] = i THEN GetDue(c) ELSE 0

(* A step of one client changes the sums by its own part.                  *)
LEMMA DuesStep ==
  ASSUME CallInv, CallInv', NEW c \in Clients, NEW i,
         \A d \in Clients \ {c} : UNCHANGED <<pc[d], req[d], ptr[d], left[d]>>
  PROVE  /\ Total(PutDues(i)) \in Nat /\ Total(PutDues(i)') \in Nat
         /\ Total(GetDues(i)) \in Nat /\ Total(GetDues(i)') \in Nat
         /\ Total(PutDues(i)') = Total(PutDues(i)) - PutOwn(c, i) + PutOwn(c, i)'
         /\ Total(GetDues(i)') = Total(GetDues(i)) - GetOwn(c, i) + GetOwn(c, i)'
<1> DEFINE pw == PutDues(i)
           pu == PutDues(i)'
           gw == GetDues(i)
           gu == GetDues(i)'
<1>0. 0 \in 0..MaxSize
  BY MeteredAssumption
<1>1. ASSUME NEW d \in Clients
      PROVE  /\ PutDue(d) \in 0..MaxSize /\ GetDue(d) \in 0..MaxSize
             /\ PutDue(d)' \in 0..MaxSize /\ GetDue(d)' \in 0..MaxSize
             /\ d # c => PutDue(d)' = PutDue(d) /\ GetDue(d)' = GetDue(d) /\ ptr'[d] = ptr[d]
  <2>1. PutDue(d) \in 0..MaxSize /\ GetDue(d) \in 0..MaxSize
    BY DueTypes
  <2>2. PutDue(d)' \in 0..MaxSize /\ GetDue(d)' \in 0..MaxSize
    <3>1. MaxSize \in 0..MaxSize /\ left'[d] \in 0..MaxSize
      BY MeteredAssumption DEF CallInv
    <3>2. pc'[d] # "idle" => req'[d].size \in 0..MaxSize
      BY CallFacts DEF CallInv
    <3> QED
      BY <1>0, <3>1, <3>2 DEF PutDue, GetDue
  <2> QED
    BY <2>1, <2>2 DEF PutDue, GetDue
<1>2. /\ pw = [d \in Clients |-> IF ptr[d] = i THEN PutDue(d) ELSE 0]
      /\ gw = [d \in Clients |-> IF ptr[d] = i THEN GetDue(d) ELSE 0]
      /\ pu = [d \in Clients |-> IF ptr'[d] = i THEN PutDue(d)' ELSE 0]
      /\ gu = [d \in Clients |-> IF ptr'[d] = i THEN GetDue(d)' ELSE 0]
  BY DEF PutDues, GetDues
<1> HIDE DEF pw, pu, gw, gu
<1>3. /\ pw \in [Clients -> 0..MaxSize] /\ pu \in [Clients -> 0..MaxSize]
      /\ gw \in [Clients -> 0..MaxSize] /\ gu \in [Clients -> 0..MaxSize]
      /\ \A d \in Clients \ {c} : pu[d] = pw[d]
      /\ \A d \in Clients \ {c} : gu[d] = gw[d]
  BY <1>0, <1>1, <1>2
<1>4. /\ pw[c] = PutOwn(c, i) /\ pu[c] = PutOwn(c, i)'
      /\ gw[c] = GetOwn(c, i) /\ gu[c] = GetOwn(c, i)'
  BY <1>2 DEF PutOwn, GetOwn
<1>5. Total(pw) \in Nat /\ Total(pu) \in Nat /\ Total(pu) = Total(pw) - pw[c] + pu[c]
  BY <1>3, TotalStep
<1>6. Total(gw) \in Nat /\ Total(gu) \in Nat /\ Total(gu) = Total(gw) - gw[c] + gu[c]
  BY <1>3, TotalStep
<1> QED
  BY <1>4, <1>5, <1>6 DEF pw, pu, gw, gu

(* Counters that get no more than was due keep the bound, and so do those  *)
(* that count one request more and owe MaxSize more.                       *)
LEMMA BytesAt ==
  ASSUME CallInv, CallInv', HeapInv, HeapInv', BytesInv, NEW c \in Clients,
         \A d \in Clients \ {c} : UNCHANGED <<pc[d], req[d], ptr[d], left[d]>>,
         NEW i \in 1..Len(heap), i \in 1..Len(heap'),
         \/ /\ heap'[i]["putCount"] = heap[i]["putCount"]
            /\ heap'[i]["putBytes"] + PutOwn(c, i)' <= heap[i]["putBytes"] + PutOwn(c, i)
         \/ /\ heap'[i]["putCount"] = heap[i]["putCount"] + 1
            /\ heap'[i]["putBytes"] + PutOwn(c, i)' <= heap[i]["putBytes"] + PutOwn(c, i) + MaxSize,
         \/ /\ heap'[i]["getCount"] = heap[i]["getCount"]
            /\ heap'[i]["getBytes"] + GetOwn(c, i)' <= heap[i]["getBytes"] + GetOwn(c, i)
         \/ /\ heap'[i]["getCount"] = heap[i]["getCount"] + 1
            /\ heap'[i]["getBytes"] + GetOwn(c, i)' <= heap[i]["getBytes"] + GetOwn(c, i) + MaxSize
  PROVE  /\ heap'[i]["putBytes"] + Total(PutDues(i)') <= heap'[i]["putCount"] * MaxSize
         /\ heap'[i]["getBytes"] + Total(GetDues(i)') <= heap'[i]["getCount"] * MaxSize
<1>1. \A f \in Tallies : heap[i][f] \in Nat /\ heap'[i][f] \in Nat
  BY DEF HeapInv
<1>2. /\ heap[i]["putBytes"] \in Nat /\ heap'[i]["putBytes"] \in Nat
      /\ heap[i]["putCount"] \in Nat /\ heap'[i]["putCount"] \in Nat
      /\ heap[i]["getBytes"] \in Nat /\ heap'[i]["getBytes"] \in Nat
      /\ heap[i]["getCount"] \in Nat /\ heap'[i]["getCount"] \in Nat
  BY <1>1 DEF Tallies
<1>3. PutOwn(c, i) \in Nat /\ GetOwn(c, i) \in Nat
  BY DueTypes, MeteredAssumption DEF PutOwn, GetOwn
<1>4. PutOwn(c, i)' \in Nat /\ GetOwn(c, i)' \in Nat
  <2>1. left'[c] \in 0..MaxSize /\ MaxSize \in Nat
    BY MeteredAssumption DEF CallInv
  <2>2. pc'[c] # "idle" => req'[c].size \in 0..MaxSize
    BY CallFacts DEF CallInv
  <2> QED
    BY <2>1, <2>2 DEF PutOwn, GetOwn, PutDue, GetDue
<1>5. /\ Total(PutDues(i)) \in Nat /\ Total(PutDues(i)') \in Nat
      /\ Total(GetDues(i)) \in Nat /\ Total(GetDues(i)') \in Nat
      /\ Total(PutDues(i)') = Total(PutDues(i)) - PutOwn(c, i) + PutOwn(c, i)'
      /\ Total(GetDues(i)') = Total(GetDues(i)) - GetOwn(c, i) + GetOwn(c, i)'
  BY DuesStep
<1>6. /\ heap[i]["putBytes"] + Total(PutDues(i)) <= heap[i]["putCount"] * MaxSize
      /\ heap[i]["getBytes"] + Total(GetDues(i)) <= heap[i]["getCount"] * MaxSize
  BY DEF BytesInv
<1>7. heap'[i]["putBytes"] + Total(PutDues(i)') <= heap'[i]["putCount"] * MaxSize
  <2> DEFINE b == heap[i]["putBytes"]
             n == heap[i]["putCount"]
             d == Total(PutDues(i))
             o == PutOwn(c, i)
             bb == heap'[i]["putBytes"]
             nn == heap'[i]["putCount"]
             dd == Total(PutDues(i)')
             oo == PutOwn(c, i)'
  <2>1. /\ b \in Nat /\ n \in Nat /\ d \in Nat /\ o \in Nat
        /\ bb \in Nat /\ nn \in Nat /\ dd \in Nat /\ oo \in Nat
        /\ dd = d - o + oo /\ b + d <= n * MaxSize
    BY <1>2, <1>3, <1>4, <1>5, <1>6
  <2>2. \/ nn = n /\ bb + oo <= b + o
        \/ nn = n + 1 /\ bb + oo <= b + o + MaxSize
    OBVIOUS
  <2> HIDE DEF b, n, d, o, bb, nn, dd, oo
  <2> DEFINE z == n * MaxSize
             zz == nn * MaxSize
  <2>3. MaxSize \in Nat /\ z \in Nat /\ b + d <= z
    BY <2>1, MeteredAssumption, OneMore
  <2>4. nn = n => zz = z
    OBVIOUS
  <2>5. nn = n + 1 => zz = z + MaxSize
    BY <2>1, MeteredAssumption, OneMore
  <2> HIDE DEF z, zz
  <2>6. bb + dd <= zz
    BY <2>1, <2>2, <2>3, <2>4, <2>5
  <2> QED
    BY <2>6 DEF bb, dd, nn, zz
<1>8. heap'[i]["getBytes"] + Total(GetDues(i)') <= heap'[i]["getCount"] * MaxSize
  <2> DEFINE b == heap[i]["getBytes"]
             n == heap[i]["getCount"]
             d == Total(GetDues(i))
             o == GetOwn(c, i)
             bb == heap'[i]["getBytes"]
             nn == heap'[i]["getCount"]
             dd == Total(GetDues(i)')
             oo == GetOwn(c, i)'
  <2>1. /\ b \in Nat /\ n \in Nat /\ d \in Nat /\ o \in Nat
        /\ bb \in Nat /\ nn \in Nat /\ dd \in Nat /\ oo \in Nat
        /\ dd = d - o + oo /\ b + d <= n * MaxSize
    BY <1>2, <1>3, <1>4, <1>5, <1>6
  <2>2. \/ nn = n /\ bb + oo <= b + o
        \/ nn = n + 1 /\ bb + oo <= b + o + MaxSize
    OBVIOUS
  <2> HIDE DEF b, n, d, o, bb, nn, dd, oo
  <2> DEFINE z == n * MaxSize
             zz == nn * MaxSize
  <2>3. MaxSize \in Nat /\ z \in Nat /\ b + d <= z
    BY <2>1, MeteredAssumption, OneMore
  <2>4. nn = n => zz = z
    OBVIOUS
  <2>5. nn = n + 1 => zz = z + MaxSize
    BY <2>1, MeteredAssumption, OneMore
  <2> HIDE DEF z, zz
  <2>6. bb + dd <= zz
    BY <2>1, <2>2, <2>3, <2>4, <2>5
  <2> QED
    BY <2>6 DEF bb, dd, nn, zz
<1> QED
  BY <1>7, <1>8

(* A step of a client leaves the others alone.                             *)
LEMMA OthersSame ==
  ASSUME CallInv, LabelInv, NEW c \in Clients, Step(c), NEW d \in Clients \ {c}
  PROVE  UNCHANGED <<pc[d], req[d], ptr[d], left[d]>>
<1>0. /\ d \in Clients /\ d # c
      /\ pc \in [Clients -> Steps] /\ DOMAIN req = Clients
      /\ ptr \in [Clients -> 0..Len(heap)] /\ left \in [Clients -> 0..MaxSize]
  BY DEF CallInv, LabelInv
<1>1. CASE Invoke(c) \/ Bucket(c) \/ Count(c) \/ Fails(c)
  BY <1>0, <1>1 DEF Invoke, Bucket, Count, Fails, Goto
<1>2. CASE Put(c) \/ PutBytes(c) \/ StreamRead(c) \/ PutStream(c)
  BY <1>0, <1>2 DEF Put, PutBytes, StreamRead, PutStream, Goto
<1>3. CASE Get(c) \/ BodyRead(c) \/ BodyClose(c) \/ Delete(c)
  BY <1>0, <1>3 DEF Get, BodyRead, BodyClose, Delete, Goto
<1>4. CASE List(c) \/ ListObjects(c) \/ ListBytes(c)
  BY <1>0, <1>4 DEF List, ListObjects, ListBytes, Goto
<1> QED
  BY <1>1, <1>2, <1>3, <1>4 DEF Step

(* A step that adds p and g bytes to the counters of its client, that are  *)
(* then due no more, keeps the bound.                                      *)
LEMMA Settles ==
  ASSUME CallInv, CallInv', HeapInv, HeapInv', LabelInv, BytesInv, NEW c \in Clients, Step(c),
         UNCHANGED ptr, Len(heap') = Len(heap), NEW p \in Nat, NEW g \in Nat,
         \A i \in 1..Len(heap) :
           /\ heap'[i]["putCount"] = heap[i]["putCount"]
           /\ heap'[i]["getCount"] = heap[i]["getCount"]
           /\ heap'[i]["putBytes"] = IF i = ptr[c] THEN heap[i]["putBytes"] + p ELSE heap[i]["putBytes"]
           /\ heap'[i]["getBytes"] = IF i = ptr[c] THEN heap[i]["getBytes"] + g ELSE heap[i]["getBytes"],
         PutDue(c)' + p <= PutDue(c), GetDue(c)' + g <= GetDue(c)
  PROVE  BytesInv'
<1>1. \A d \in Clients \ {c} : UNCHANGED <<pc[d], req[d], ptr[d], left[d]>>
  BY OthersSame
<1>2. PutDue(c) \in Nat /\ GetDue(c) \in Nat
  BY DueTypes, MeteredAssumption
<1>3. PutDue(c)' \in Nat /\ GetDue(c)' \in Nat
  <2>1. left'[c] \in 0..MaxSize /\ MaxSize \in Nat
    BY MeteredAssumption DEF CallInv
  <2>2. pc'[c] # "idle" => req'[c].size \in 0..MaxSize
    BY CallFacts DEF CallInv
  <2> QED
    BY <2>1, <2>2 DEF PutDue, GetDue
<1>4. ASSUME NEW i \in 1..Len(heap)
      PROVE  /\ heap'[i]["putBytes"] + Total(PutDues(i)') <= heap'[i]["putCount"] * MaxSize
             /\ heap'[i]["getBytes"] + Total(GetDues(i)') <= heap'[i]["getCount"] * MaxSize
  <2>1. heap[i]["putBytes"] \in Nat /\ heap[i]["getBytes"] \in Nat /\ i \in 1..Len(heap')
    BY DEF HeapInv, Tallies
  <2>2. heap'[i]["putBytes"] + PutOwn(c, i)' <= heap[i]["putBytes"] + PutOwn(c, i)
    BY <1>2, <1>3, <2>1 DEF PutOwn
  <2>3. heap'[i]["getBytes"] + GetOwn(c, i)' <= heap[i]["getBytes"] + GetOwn(c, i)
    BY <1>2, <1>3, <2>1 DEF GetOwn
  <2> QED
    BY <1>1, <2>1, <2>2, <2>3, BytesAt
<1> QED
  BY <1>4 DEF BytesInv

(* Bytes never get ahead of the requests that were counted for them.       *)
LEMMA BytesStep ==
  ASSUME CallInv, CallInv', HeapInv, HeapInv', LabelInv, BytesInv, NEW c \in Clients, Step(c)
  PROVE  BytesInv'
<1>0. /\ pc \in [Clients -> Steps] /\ DOMAIN req = Clients
      /\ left \in [Clients -> 0..MaxSize] /\ left[c] \in 0..MaxSize
      /\ MaxSize \in Nat /\ Len(heap) \in Nat
      /\ pc[c] # "idle" => req[c] \in Calls[c] /\ req[c].size \in 0..MaxSize
  <2>1. pc[c] # "idle" => req[c] \in Calls[c] /\ req[c].size \in 0..MaxSize
    BY CallFacts DEF CallInv
  <2> QED
    BY <2>1, MeteredAssumption, LenProperties DEF CallInv, HeapInv
<1>1. PutDue(c) \in Nat /\ GetDue(c) \in Nat
  BY DueTypes, MeteredAssumption
<1>2. ASSUME UNCHANGED <<ptr, heap>>, PutDue(c)' <= PutDue(c), GetDue(c)' <= GetDue(c),
             PutDue(c)' \in Nat, GetDue(c)' \in Nat
      PROVE  BytesInv'
  <2>1. \A i \in 1..Len(heap) : heap[i]["putBytes"] \in Nat /\ heap[i]["getBytes"] \in Nat
    BY DEF HeapInv, Tallies
  <2>2. PutDue(c)' + 0 <= PutDue(c) /\ GetDue(c)' + 0 <= GetDue(c) /\ 0 \in Nat
    BY <1>1, <1>2
  <2>3. \A i \in 1..Len(heap) :
          /\ heap'[i]["putCount"] = heap[i]["putCount"]
          /\ heap'[i]["getCount"] = heap[i]["getCount"]
          /\ heap'[i]["putBytes"] = IF i = ptr[c] THEN heap[i]["putBytes"] + 0 ELSE heap[i]["putBytes"]
          /\ heap'[i]["getBytes"] = IF i = ptr[c] THEN heap[i]["getBytes"] + 0 ELSE heap[i]["getBytes"]
    BY <1>2, <2>1
  <2> QED
    BY <1>2, <2>2, <2>3, Settles
<1>3. CASE Invoke(c)
  <2>1. PICK r \in Calls[c] : req' = [req EXCEPT ![c] = r]
    BY <1>3 DEF Invoke
  <2>2. req'[c] = r /\ pc'[c] = IF r.op = "Delete" THEN "inner" ELSE "bucket"
    BY <1>0, <1>3, <2>1 DEF Invoke, Goto
  <2>3. PutDue(c)' = 0 /\ GetDue(c)' = 0
    BY <2>2 DEF PutDue, GetDue, Gets
  <2> QED
    BY <1>1, <1>2, <1>3, <2>3 DEF Invoke, bucket
<1>4. CASE Fails(c) \/ PutStream(c) \/ BodyClose(c) \/ Delete(c)
  <2>1. pc'[c] = "idle"
    BY <1>0, <1>4 DEF Fails, PutStream, BodyClose, Delete, Goto
  <2>2. PutDue(c)' = 0 /\ GetDue(c)' = 0
    BY <2>1 DEF PutDue, GetDue
  <2> QED
    BY <1>1, <1>2, <1>4, <2>2 DEF Fails, PutStream, BodyClose, Delete, bucket
<1>5. CASE Put(c)
  <2>1. /\ req'[c] = req[c] /\ req[c].op = "Put" /\ pc[c] = "inner"
        /\ pc'[c] \in {"putbytes", "idle"}
    BY <1>0, <1>5 DEF Put, Goto
  <2>2. PutDue(c) = req[c].size /\ PutDue(c)' \in {0, req[c].size} /\ GetDue(c)' = 0
    BY <2>1 DEF PutDue, GetDue
  <2> QED
    BY <1>1, <1>2, <1>5, <2>2 DEF Put
<1>6. CASE Get(c)
  <2>1. /\ req'[c] = req[c] /\ req[c].op \in Gets /\ pc[c] = "inner"
        /\ pc'[c] \in {"body", "idle"} /\ left'[c] \in 0..MaxSize
    BY <1>0, <1>6 DEF Get, Goto, Gets, CallInv
  <2>2. GetDue(c) = MaxSize /\ GetDue(c)' \in {0, left'[c]} /\ PutDue(c)' = 0
    BY <2>1 DEF PutDue, GetDue, Gets
  <2> QED
    BY <1>0, <1>1, <1>2, <1>6, <2>1, <2>2 DEF Get, bucket
<1>7. CASE List(c)
  <2>1. pc'[c] = "listobjects"
    BY <1>0, <1>7 DEF List, Goto
  <2>2. PutDue(c)' = 0 /\ GetDue(c)' = 0
    BY <2>1 DEF PutDue, GetDue
  <2> QED
    BY <1>1, <1>2, <1>7, <2>2 DEF List, bucket
<1>8. CASE ListObjects(c) \/ ListBytes(c)
  <2>1. pc'[c] \in {"listbytes", "idle", "over"} /\ Holds(c) /\ UNCHANGED ptr
    BY <1>0, <1>8 DEF ListObjects, ListBytes, Goto, Holds, CallInv, Steps
  <2>2. PutDue(c)' = 0 /\ GetDue(c)' = 0
    BY <2>1 DEF PutDue, GetDue
  <2>3. ptr[c] \in 1..Len(heap) /\ Tallies \subseteq Fields
    BY <2>1, PtrFacts DEF Fields, Tallies
  <2>4. Len(heap') = Len(heap) /\ \A i \in 1..Len(heap) : \A g \in Tallies : heap'[i][g] = heap[i][g]
    <3>1. ASSUME NEW f \in Fields \ Tallies, NEW n, Add(c, f, n)
          PROVE  /\ Len(heap') = Len(heap)
                 /\ \A i \in 1..Len(heap) : \A g \in Tallies : heap'[i][g] = heap[i][g]
      <4>1. /\ Len(heap') = Len(heap)
            /\ \A i \in 1..Len(heap) : \A g \in Fields :
                 i # ptr[c] \/ g # f => heap'[i][g] = heap[i][g]
        BY <2>3, <3>1, AddFacts
      <4> QED
        BY <2>3, <4>1
    <3>2. {"listObjects", "listObjectBytes"} \subseteq Fields \ Tallies
      BY DEF Fields, Tallies
    <3> QED
      BY <1>8, <3>1, <3>2 DEF ListObjects, ListBytes
  <2>5. \A i \in 1..Len(heap) :
          /\ heap'[i]["putCount"] = heap[i]["putCount"]
          /\ heap'[i]["getCount"] = heap[i]["getCount"]
          /\ heap'[i]["putBytes"] = IF i = ptr[c] THEN heap[i]["putBytes"] + 0 ELSE heap[i]["putBytes"]
          /\ heap'[i]["getBytes"] = IF i = ptr[c] THEN heap[i]["getBytes"] + 0 ELSE heap[i]["getBytes"]
    <3>1. \A i \in 1..Len(heap) : heap[i]["putBytes"] \in Nat /\ heap[i]["getBytes"] \in Nat
      BY DEF HeapInv, Tallies
    <3> QED
      BY <2>4, <3>1 DEF Tallies
  <2>6. PutDue(c)' + 0 <= PutDue(c) /\ GetDue(c)' + 0 <= GetDue(c) /\ 0 \in Nat
    BY <1>1, <2>2
  <2> QED
    BY <2>1, <2>4, <2>5, <2>6, Settles
<1>9. CASE PutBytes(c) \/ StreamRead(c)
  <2> DEFINE n == IF pc[c] = "putbytes" THEN req[c].size ELSE 1
  <2>1. Holds(c) /\ UNCHANGED ptr
    BY <1>9 DEF PutBytes, StreamRead, Holds, CallInv, Steps
  <2>2. n \in Nat /\ Add(c, "putBytes", n)
    BY <1>0, <1>9 DEF PutBytes, StreamRead
  <2>3. PutDue(c)' + n <= PutDue(c) /\ GetDue(c)' = 0
    <3>1. CASE PutBytes(c)
      <4>1. pc'[c] = "idle" /\ pc[c] = "putbytes" /\ req[c].op = "Put"
        BY <1>0, <3>1 DEF PutBytes, Goto, CallInv
      <4>2. PutDue(c)' = 0 /\ GetDue(c)' = 0 /\ PutDue(c) = req[c].size /\ n = req[c].size
        BY <4>1 DEF PutDue, GetDue
      <4> QED
        BY <1>0, <4>1, <4>2
    <3>2. CASE StreamRead(c)
      <4>1. /\ pc'[c] = "inner" /\ pc[c] = "inner" /\ req[c].op = "PutStream"
            /\ req'[c] = req[c] /\ left'[c] = left[c] - 1
        BY <1>0, <3>2 DEF StreamRead
      <4>2. PutDue(c)' = left[c] - 1 /\ GetDue(c)' = 0 /\ PutDue(c) = left[c] /\ n = 1
        BY <4>1 DEF PutDue, GetDue, Gets
      <4> QED
        BY <1>0, <4>2
    <3> QED
      BY <1>9, <3>1, <3>2
  <2> HIDE DEF n
  <2>4. /\ Len(heap') = Len(heap)
        /\ heap'[ptr[c]]["putBytes"] = heap[ptr[c]]["putBytes"] + n
        /\ \A i \in 1..Len(heap) : \A g \in Fields :
             i # ptr[c] \/ g # "putBytes" => heap'[i][g] = heap[i][g]
    <3>1. ptr[c] \in 1..Len(heap) /\ "putBytes" \in Fields
      BY <2>1, PtrFacts DEF Fields
    <3> QED
      BY <2>2, <3>1, AddFacts
  <2>5. \A i \in 1..Len(heap) :
          /\ heap'[i]["putCount"] = heap[i]["putCount"]
          /\ heap'[i]["getCount"] = heap[i]["getCount"]
          /\ heap'[i]["putBytes"] = IF i = ptr[c] THEN heap[i]["putBytes"] + n ELSE heap[i]["putBytes"]
          /\ heap'[i]["getBytes"] = IF i = ptr[c] THEN heap[i]["getBytes"] + 0 ELSE heap[i]["getBytes"]
    BY <2>4 DEF HeapInv, Tallies, Fields
  <2>6. GetDue(c)' + 0 <= GetDue(c) /\ 0 \in Nat
    BY <1>1, <2>3
  <2> QED
    BY <2>1, <2>2, <2>3, <2>4, <2>5, <2>6, Settles
<1>10. CASE BodyRead(c)
  <2>1. Holds(c) /\ UNCHANGED ptr /\ Add(c, "getBytes", 1) /\ 0 \in Nat /\ 1 \in Nat
    BY <1>10 DEF BodyRead, Holds, CallInv, Steps, Gets
  <2>2. pc'[c] = "body" /\ pc[c] = "body" /\ left'[c] = left[c] - 1
    BY <1>0, <1>10 DEF BodyRead
  <2>3. GetDue(c)' = left[c] - 1 /\ PutDue(c)' = 0 /\ GetDue(c) = left[c]
    BY <2>2 DEF PutDue, GetDue, Gets
  <2>4. GetDue(c)' + 1 <= GetDue(c) /\ PutDue(c)' + 0 <= PutDue(c)
    BY <1>0, <1>1, <2>3
  <2>5. /\ Len(heap') = Len(heap)
        /\ heap'[ptr[c]]["getBytes"] = heap[ptr[c]]["getBytes"] + 1
        /\ \A i \in 1..Len(heap) : \A g \in Fields :
             i # ptr[c] \/ g # "getBytes" => heap'[i][g] = heap[i][g]
    <3>1. ptr[c] \in 1..Len(heap) /\ "getBytes" \in Fields
      BY <2>1, PtrFacts DEF Fields
    <3> QED
      BY <2>1, <3>1, AddFacts
  <2>6. \A i \in 1..Len(heap) :
          /\ heap'[i]["putCount"] = heap[i]["putCount"]
          /\ heap'[i]["getCount"] = heap[i]["getCount"]
          /\ heap'[i]["putBytes"] = IF i = ptr[c] THEN heap[i]["putBytes"] + 0 ELSE heap[i]["putBytes"]
          /\ heap'[i]["getBytes"] = IF i = ptr[c] THEN heap[i]["getBytes"] + 1 ELSE heap[i]["getBytes"]
    BY <2>5 DEF HeapInv, Tallies, Fields
  <2> QED
    BY <2>1, <2>4, <2>5, <2>6, Settles
<1>11. CASE Count(c)
  <2> DEFINE f == Counter(req[c].op)
  <2>1. Holds(c) /\ req[c] \in Calls[c] /\ req[c].op \in (Ops \cup {"List"}) \ {"Delete"}
    BY <1>11, CallFacts DEF Count, Holds, CallInv, Steps
  <2>2. f \in {"putCount", "getCount", "listCount"} /\ f \in Fields
    BY <2>1 DEF Counter, Fields, Ops
  <2>3. ptr[c] \in 1..Len(heap) /\ UNCHANGED <<ptr, req>> /\ Add(c, f, 1)
    BY <1>11, <2>1, PtrFacts DEF Count
  <2>4. /\ pc'[c] = "inner" /\ pc[c] = "count"
        /\ left'[c] = IF req[c].op = "PutStream" THEN req[c].size ELSE 0
    BY <1>0, <1>11 DEF Count, Goto
  <2>5. /\ PutDue(c) = 0 /\ GetDue(c) = 0
        /\ f # "putCount" => PutDue(c)' = 0
        /\ f # "getCount" => GetDue(c)' = 0
        /\ PutDue(c)' \in 0..MaxSize /\ GetDue(c)' \in 0..MaxSize
    <3>1. PutDue(c) = 0 /\ GetDue(c) = 0
      BY <2>4 DEF PutDue, GetDue
    <3>2. f # "putCount" => PutDue(c)' = 0
      BY <2>1, <2>3, <2>4 DEF PutDue, Counter, Ops
    <3>3. f # "getCount" => GetDue(c)' = 0
      BY <2>1, <2>3, <2>4 DEF GetDue, Counter, Ops, Gets
    <3>4. PutDue(c)' \in 0..MaxSize /\ GetDue(c)' \in 0..MaxSize
      BY <1>0, <2>3, <2>4 DEF PutDue, GetDue
    <3> QED
      BY <3>1, <3>2, <3>3, <3>4
  <2> HIDE DEF f
  <2>6. /\ Len(heap') = Len(heap)
        /\ heap'[ptr[c]][f] = heap[ptr[c]][f] + 1
        /\ \A i \in 1..Len(heap) : \A g \in Fields :
             i # ptr[c] \/ g # f => heap'[i][g] = heap[i][g]
    BY <2>2, <2>3, AddFacts
  <2>7. \A d \in Clients \ {c} : UNCHANGED <<pc[d], req[d], ptr[d], left[d]>>
    BY OthersSame
  <2>8. ASSUME NEW i \in 1..Len(heap)
        PROVE  /\ heap'[i]["putBytes"] + Total(PutDues(i)') <= heap'[i]["putCount"] * MaxSize
               /\ heap'[i]["getBytes"] + Total(GetDues(i)') <= heap'[i]["getCount"] * MaxSize
    <3>1. \A g \in Tallies : heap[i][g] \in Nat /\ g \in Fields
      BY DEF HeapInv, Tallies, Fields
    <3>2. \A g \in Tallies : heap'[i][g] = IF i = ptr[c] /\ g = f THEN heap[i][g] + 1 ELSE heap[i][g]
      BY <2>6, <3>1
    <3>3. {"putBytes", "putCount", "getBytes", "getCount"} \subseteq Tallies
      BY DEF Tallies
    <3>4. \/ /\ heap'[i]["putCount"] = heap[i]["putCount"]
             /\ heap'[i]["putBytes"] + PutOwn(c, i)' <= heap[i]["putBytes"] + PutOwn(c, i)
          \/ /\ heap'[i]["putCount"] = heap[i]["putCount"] + 1
             /\ heap'[i]["putBytes"] + PutOwn(c, i)' <= heap[i]["putBytes"] + PutOwn(c, i) + MaxSize
      BY <1>0, <2>2, <2>3, <2>5, <3>1, <3>2, <3>3 DEF PutOwn
    <3>5. \/ /\ heap'[i]["getCount"] = heap[i]["getCount"]
             /\ heap'[i]["getBytes"] + GetOwn(c, i)' <= heap[i]["getBytes"] + GetOwn(c, i)
          \/ /\ heap'[i]["getCount"] = heap[i]["getCount"] + 1
             /\ heap'[i]["getBytes"] + GetOwn(c, i)' <= heap[i]["getBytes"] + GetOwn(c, i) + MaxSize
      BY <1>0, <2>2, <2>3, <2>5, <3>1, <3>2, <3>3 DEF GetOwn
    <3>6. i \in 1..Len(heap')
      BY <2>6
    <3> QED
      BY <2>7, <3>4, <3>5, <3>6, BytesAt
  <2> QED
    BY <2>6, <2>8 DEF BytesInv
<1>12. CASE Bucket(c)
  <2>1. /\ pc'[c] = "count" /\ pc[c] = "bucket" /\ UNCHANGED <<req, left>>
        /\ heap' \in {heap, Append(heap, Zero)}
        /\ heap' # heap => heap' = Append(heap, Zero) /\ ptr' = [ptr EXCEPT ![c] = Len(heap')]
    BY <1>0, <1>12 DEF Bucket, Goto
  <2>2. PutDue(c) = 0 /\ GetDue(c) = 0 /\ PutDue(c)' = 0 /\ GetDue(c)' = 0
    BY <2>1 DEF PutDue, GetDue
  <2>3. \A d \in Clients \ {c} : UNCHANGED <<pc[d], req[d], ptr[d], left[d]>>
    BY OthersSame
  <2>4. /\ Len(heap') \in Nat /\ Len(heap') >= Len(heap)
        /\ \A i \in 1..Len(heap) : heap'[i] = heap[i]
        /\ \A i \in 1..Len(heap') : i \notin 1..Len(heap) =>
             i = Len(heap') /\ heap' = Append(heap, Zero) /\ heap'[i] = Zero /\ i = Len(heap) + 1
    <3>1. CASE heap' = heap
      BY <1>0, <3>1
    <3>2. CASE heap' = Append(heap, Zero)
      BY <3>2, AppendFacts
    <3> QED
      BY <2>1, <3>1, <3>2
  <2>5. ASSUME NEW i \in 1..Len(heap)
        PROVE  /\ heap'[i]["putBytes"] + Total(PutDues(i)') <= heap'[i]["putCount"] * MaxSize
               /\ heap'[i]["getBytes"] + Total(GetDues(i)') <= heap'[i]["getCount"] * MaxSize
    <3>1. i \in 1..Len(heap') /\ heap'[i] = heap[i]
      BY <1>0, <2>4
    <3>2. PutOwn(c, i) = 0 /\ PutOwn(c, i)' = 0 /\ GetOwn(c, i) = 0 /\ GetOwn(c, i)' = 0
      BY <2>2 DEF PutOwn, GetOwn
    <3>3. heap[i]["putBytes"] \in Nat /\ heap[i]["getBytes"] \in Nat
      BY DEF HeapInv, Tallies
    <3>4. /\ heap'[i]["putBytes"] + PutOwn(c, i)' <= heap[i]["putBytes"] + PutOwn(c, i)
          /\ heap'[i]["getBytes"] + GetOwn(c, i)' <= heap[i]["getBytes"] + GetOwn(c, i)
      BY <3>1, <3>2, <3>3
    <3> QED
      BY <2>3, <3>1, <3>4, BytesAt
  <2>6. ASSUME NEW i \in 1..Len(heap'), i \notin 1..Len(heap)
        PROVE  /\ heap'[i]["putBytes"] + Total(PutDues(i)') <= heap'[i]["putCount"] * MaxSize
               /\ heap'[i]["getBytes"] + Total(GetDues(i)') <= heap'[i]["getCount"] * MaxSize
    <3>1. heap'[i] = Zero /\ i = Len(heap) + 1
      BY <2>4, <2>6
    <3>2. ASSUME NEW d \in Clients, d # c PROVE ptr'[d] # i
      <4>1. ptr[d] \in 0..Len(heap) /\ ptr'[d] = ptr[d]
        BY <2>3, <3>2 DEF LabelInv
      <4> QED
        BY <1>0, <3>1, <4>1
    <3>3. PutDues(i)' = [d \in Clients |-> 0] /\ GetDues(i)' = [d \in Clients |-> 0]
      BY <2>2, <3>2 DEF PutDues, GetDues
    <3>4. Total(PutDues(i)') = 0 /\ Total(GetDues(i)') = 0
      BY <3>3, TotalZero
    <3>5. /\ Zero["putBytes"] = 0 /\ Zero["putCount"] = 0
          /\ Zero["getBytes"] = 0 /\ Zero["getCount"] = 0
      BY DEF Zero
    <3>6. 0 + 0 <= 0 * MaxSize
      BY <1>0
    <3> QED
      BY <3>1, <3>4, <3>5, <3>6
  <2> QED
    BY <2>5, <2>6 DEF BytesInv
<1> QED
  BY <1>3, <1>4, <1>5, <1>6, <1>7, <1>8, <1>9, <1>10, <1>11, <1>12 DEF Step

-----------------------------------------------------------------------------
(* A label keeps its counters.                                             *)
LEMMA LabelsGrow ==
  ASSUME NEW c \in Clients, Step(c)
  PROVE  \A l \in DOMAIN labels : l \in DOMAIN labels' /\ labels'[l] = labels[l]
<1>1. CASE UNCHANGED labels
  BY <1>1
<1>2. CASE labels' # labels
  <2>1. Bucket(c) /\ ~Known(c)
    BY <1>2 DEF Step, Invoke, Bucket, Count, Fails, Put, PutBytes, StreamRead, PutStream, Get,
                BodyRead, BodyClose, Delete, List, ListObjects, ListBytes, bucket
  <2> QED
    BY <2>1 DEF Bucket, Known
<1> QED
  BY <1>1, <1>2

(* What Stats has loaded stays bounded while clients go on.                *)
LEMMA SnapStep ==
  ASSUME HeapInv, HeapInv', LabelInv, SnapInv, Grows, NEW c \in Clients, Step(c)
  PROVE  SnapInv'
<1>1. UNCHANGED <<spc, snap>>
  BY DEF Step, Invoke, Bucket, Count, Fails, Put, PutBytes, StreamRead, PutStream, Get,
         BodyRead, BodyClose, Delete, List, ListObjects, ListBytes, stats
<1>2. ASSUME NEW l \in DOMAIN labels, NEW f \in {"putCount", "getCount"}
      PROVE  /\ l \in DOMAIN labels' /\ labels'[l] = labels[l]
             /\ heap[labels[l]][f] * MaxSize \in Nat /\ heap'[labels[l]][f] * MaxSize \in Nat
             /\ heap[labels[l]][f] * MaxSize <= heap'[labels[l]][f] * MaxSize
  <2>1. labels[l] \in 1..Len(heap) /\ labels[l] \in 1..Len(heap') /\ f \in Tallies
    <3>1. labels[l] \in 1..Len(heap) /\ Len(heap) \in Nat /\ Len(heap') \in Nat
      BY LenProperties DEF LabelInv, HeapInv
    <3> QED
      BY <3>1 DEF Grows, Tallies
  <2>2. /\ heap[labels[l]][f] \in Nat /\ heap'[labels[l]][f] \in Nat /\ MaxSize \in Nat
        /\ heap'[labels[l]][f] >= heap[labels[l]][f]
    BY <2>1, MeteredAssumption DEF HeapInv, Grows
  <2> QED
    BY <2>2, LabelsGrow, MoreAllow, OneMore
<1>3. ASSUME NEW l \in DOMAIN spc
      PROVE  /\ spc[l] >= 1 => snap[l]["putBytes"] <= heap'[labels'[l]]["putCount"] * MaxSize
             /\ spc[l] >= 3 => snap[l]["getBytes"] <= heap'[labels'[l]]["getCount"] * MaxSize
  <2> DEFINE p == heap[labels[l]]["putCount"] * MaxSize
             pp == heap'[labels'[l]]["putCount"] * MaxSize
             g == heap[labels[l]]["getCount"] * MaxSize
             gg == heap'[labels'[l]]["getCount"] * MaxSize
  <2>1. l \in DOMAIN labels
    BY DEF SnapInv
  <2>2. /\ p \in Nat /\ pp \in Nat /\ p <= pp
        /\ g \in Nat /\ gg \in Nat /\ g <= gg
    BY <1>2, <2>1
  <2>3. /\ spc[l] >= 1 => snap[l]["putBytes"] <= p
        /\ spc[l] >= 3 => snap[l]["getBytes"] <= g
        /\ snap[l]["putBytes"] \in Nat /\ snap[l]["getBytes"] \in Nat
    BY DEF SnapInv, Tallies
  <2> HIDE DEF p, pp, g, gg
  <2>4. /\ spc[l] >= 1 => snap[l]["putBytes"] <= pp
        /\ spc[l] >= 3 => snap[l]["getBytes"] <= gg
    BY <2>2, <2>3
  <2> QED
    BY <2>4 DEF pp, gg
<1>4. DOMAIN snap \subseteq DOMAIN labels'
  BY LabelsGrow DEF SnapInv
<1> QED
  BY <1>1, <1>3, <1>4 DEF SnapInv

(* Stats begins with nothing loaded.                                       *)
LEMMA LockSnap ==
  ASSUME LabelInv, StatsLock
  PROVE  SnapInv'
<1>1. /\ spc' = [l \in DOMAIN labels |-> 0] /\ snap' = [l \in DOMAIN labels |-> Zero]
      /\ UNCHANGED <<labels, heap>>
  BY DEF StatsLock, bucket
<1>2. DOMAIN Zero = Fields /\ \A f \in Tallies : Zero[f] \in Nat
  BY DEF Zero, Fields, Tallies
<1>3. Len(LoadOrder) = 7
  BY DEF LoadOrder
<1> QED
  BY <1>1, <1>2, <1>3 DEF SnapInv

(* Bytes are loaded before the count that bounds them.                     *)
LEMMA LoadSnap ==
  ASSUME CallInv, HeapInv, LabelInv, BytesInv, SnapInv, NEW l \in DOMAIN spc, StatsLoad(l)
  PROVE  SnapInv'
<1> DEFINE n == spc[l] + 1
           f == LoadOrder[n]
           cell == heap[labels[l]]
           new == [snap[l] EXCEPT ![f] = cell[f]]
<1>0. Len(LoadOrder) = 7
  BY DEF LoadOrder
<1>1. spc[l] \in 0..6 /\ n \in 1..7 /\ n = spc[l] + 1 /\ DOMAIN snap[l] = Fields /\ l \in DOMAIN snap
  BY <1>0 DEF StatsLoad, SnapInv
<1>2. /\ spc' = [spc EXCEPT ![l] = n] /\ spc'[l] = n
      /\ snap' = [snap EXCEPT ![l] = new]
      /\ UNCHANGED <<labels, heap>>
  BY DEF StatsLoad, bucket
<1>3. f \in Fields
  BY <1>1 DEF LoadOrder, Fields
<1>4. labels[l] \in 1..Len(heap) /\ \A g \in Tallies : cell[g] \in Nat /\ snap[l][g] \in Nat
  BY DEF SnapInv, LabelInv, HeapInv
<1>5. cell["putBytes"] <= cell["putCount"] * MaxSize /\ cell["getBytes"] <= cell["getCount"] * MaxSize
  <2> DEFINE i == labels[l]
             p == cell["putCount"] * MaxSize
             g == cell["getCount"] * MaxSize
  <2>1. Total(PutDues(i)) \in Nat /\ Total(GetDues(i)) \in Nat
    <3>1. \A d \in Clients : PutDue(d) \in 0..MaxSize /\ GetDue(d) \in 0..MaxSize
      BY DueTypes
    <3>2. PutDues(i) \in [Clients -> 0..MaxSize] /\ GetDues(i) \in [Clients -> 0..MaxSize]
      BY <3>1, MeteredAssumption DEF PutDues, GetDues
    <3>3. Pager \in Clients
      BY MeteredAssumption
    <3> QED
      BY <3>2, <3>3, TotalStep
  <2>2. /\ cell["putBytes"] + Total(PutDues(i)) <= p
        /\ cell["getBytes"] + Total(GetDues(i)) <= g
    BY <1>4 DEF BytesInv
  <2>3. /\ cell["putBytes"] \in Nat /\ cell["getBytes"] \in Nat /\ p \in Nat /\ g \in Nat
    BY <1>4, MeteredAssumption, OneMore DEF Tallies
  <2> HIDE DEF p, g
  <2>4. cell["putBytes"] <= p /\ cell["getBytes"] <= g
    BY <2>1, <2>2, <2>3
  <2> QED
    BY <2>4 DEF p, g
<1>6. /\ DOMAIN new = Fields /\ new[f] = cell[f]
      /\ \A g \in Fields : g # f => new[g] = snap[l][g]
  BY <1>1, <1>3
<1>7. Tallies \subseteq Fields /\ \A g \in Tallies : new[g] \in Nat
  BY <1>3, <1>4, <1>6 DEF Tallies, Fields
<1>8. /\ n = 1 => f = "putBytes"
      /\ n = 2 => f = "putCount"
      /\ n = 3 => f = "getBytes"
      /\ n = 4 => f = "getCount"
      /\ n >= 5 => f \in {"listCount", "listObjects", "listObjectBytes"}
  BY <1>1 DEF LoadOrder
<1>9. /\ spc[l] >= 1 => snap[l]["putBytes"] <= cell["putCount"] * MaxSize
      /\ spc[l] >= 2 => snap[l]["putBytes"] <= snap[l]["putCount"] * MaxSize
      /\ spc[l] >= 3 => snap[l]["getBytes"] <= cell["getCount"] * MaxSize
      /\ spc[l] >= 4 => snap[l]["getBytes"] <= snap[l]["getCount"] * MaxSize
  BY DEF SnapInv
<1> HIDE DEF f, cell, new, n
<1>10. /\ n >= 1 => new["putBytes"] <= cell["putCount"] * MaxSize
       /\ n >= 2 => new["putBytes"] <= new["putCount"] * MaxSize
       /\ n >= 3 => new["getBytes"] <= cell["getCount"] * MaxSize
       /\ n >= 4 => new["getBytes"] <= new["getCount"] * MaxSize
  <2>0. {"putBytes", "putCount", "getBytes", "getCount"} \subseteq Fields
    BY DEF Fields
  <2>1. CASE n = 1
    BY <1>5, <1>6, <1>8, <2>1
  <2>2. CASE n = 2
    <3>1. new["putBytes"] = snap[l]["putBytes"] /\ new["putCount"] = cell["putCount"]
      BY <1>6, <1>8, <2>0, <2>2
    <3> QED
      BY <1>1, <1>9, <2>2, <3>1
  <2>3. CASE n = 3
    <3>1. /\ new["putBytes"] = snap[l]["putBytes"] /\ new["putCount"] = snap[l]["putCount"]
          /\ new["getBytes"] = cell["getBytes"]
      BY <1>6, <1>8, <2>0, <2>3
    <3> QED
      BY <1>1, <1>5, <1>9, <2>3, <3>1
  <2>4. CASE n = 4
    <3>1. /\ new["putBytes"] = snap[l]["putBytes"] /\ new["putCount"] = snap[l]["putCount"]
          /\ new["getBytes"] = snap[l]["getBytes"] /\ new["getCount"] = cell["getCount"]
      BY <1>6, <1>8, <2>0, <2>4
    <3> QED
      BY <1>1, <1>9, <2>4, <3>1
  <2>5. CASE n >= 5
    <3>1. /\ new["putBytes"] = snap[l]["putBytes"] /\ new["putCount"] = snap[l]["putCount"]
          /\ new["getBytes"] = snap[l]["getBytes"] /\ new["getCount"] = snap[l]["getCount"]
      BY <1>6, <1>8, <2>0, <2>5
    <3> QED
      BY <1>1, <1>9, <2>5, <3>1
  <2> QED
    BY <1>1, <2>1, <2>2, <2>3, <2>4, <2>5
<1>11. /\ DOMAIN spc' = DOMAIN snap' /\ DOMAIN snap' \subseteq DOMAIN labels'
       /\ snap'[l] = new /\ \A k \in DOMAIN spc \ {l} : spc'[k] = spc[k] /\ snap'[k] = snap[k]
       /\ DOMAIN spc' = DOMAIN spc
  BY <1>1, <1>2 DEF SnapInv
<1>12. ASSUME NEW k \in DOMAIN spc'
       PROVE  /\ spc'[k] \in 0..Len(LoadOrder)
              /\ DOMAIN snap'[k] = Fields /\ \A g \in Tallies : snap'[k][g] \in Nat
              /\ spc'[k] >= 1 => snap'[k]["putBytes"] <= heap'[labels'[k]]["putCount"] * MaxSize
              /\ spc'[k] >= 2 => snap'[k]["putBytes"] <= snap'[k]["putCount"] * MaxSize
              /\ spc'[k] >= 3 => snap'[k]["getBytes"] <= heap'[labels'[k]]["getCount"] * MaxSize
              /\ spc'[k] >= 4 => snap'[k]["getBytes"] <= snap'[k]["getCount"] * MaxSize
  <2>1. CASE k = l
    <3>1. spc'[k] = n /\ snap'[k] = new /\ heap'[labels'[k]] = cell /\ n \in 0..Len(LoadOrder)
      BY <1>0, <1>1, <1>2, <1>11, <2>1 DEF cell
    <3> QED
      BY <1>6, <1>7, <1>10, <3>1
  <2>2. CASE k # l
    <3>1. spc'[k] = spc[k] /\ snap'[k] = snap[k] /\ UNCHANGED <<labels, heap>> /\ k \in DOMAIN spc
      BY <1>2, <1>11, <2>2
    <3> QED
      BY <3>1 DEF SnapInv
  <2> QED
    BY <2>1, <2>2
<1> QED
  BY <1>11, <1>12 DEF SnapInv

-----------------------------------------------------------------------------
(* What the enumerated view shows is stored below it.                      *)
LEMMA ShownFacts ==
  ASSUME NEW objs, DOMAIN objs \subseteq Bytes, NEW k \in Shown(objs)
  PROVE  k \in Bytes /\ ServiceKey(Paged, k) \in DOMAIN objs
<1> DEFINE p == ServiceKey(Paged, <<>>)
<1>1. Paged \in Bytes /\ <<>> \in Bytes
  BY MeteredAssumption, PrefixedMade, EmptySeq DEF Made, Bytes
<1>2. p \in Bytes
  BY <1>1, ServiceKeyFacts
<1>3. PICK x \in DOMAIN objs : IsPrefix(p, x) /\ k = TrimPrefix(x, p)
  BY DEF Shown
<1> HIDE DEF p
<1>4. PICK s \in Bytes : x = p \o s
  BY <1>2, <1>3, PrefixSplits
<1>5. k = s
  BY <1>2, <1>3, <1>4, TrimConcat
<1> QED
  BY <1>1, <1>3, <1>4, <1>5, ServiceKeyFacts DEF p

(* Steps that list nothing keep the pages as they are.                     *)
LEMMA PagingKept ==
  ASSUME PagingInv, UNCHANGED <<after, listed>>, steady' \subseteq steady,
         \A k \in steady' : ServiceKey(Paged, k) \in DOMAIN objects',
         ServiceKey(Paged, <<>>) \notin DOMAIN objects', Over' => Over
  PROVE  PagingInv'
BY DEF PagingInv, ViewAscends

(* A put through any view gives no object the enumerated view's own name.  *)
LEMMA PutElsewhere ==
  ASSUME NEW c \in Clients, req[c] \in Calls[c], req[c].op # "List"
  PROVE  Key(c) # ServiceKey(Paged, <<>>)
<1> DEFINE S == Normal(S3Prefix)
           x == Full(req[c].view, req[c].key)
<1>1. /\ c # Pager /\ req[c].view \in Bytes /\ req[c].key \in Bytes
      /\ Paged \in Bytes /\ <<>> \in Bytes /\ S \in Bytes
  <2>1. c # Pager /\ req[c].view \in Bytes /\ req[c].key \in Bytes
    BY CallFacts DEF Made
  <2>2. Paged \in Bytes /\ <<>> \in Bytes /\ S \in Bytes
    BY MeteredAssumption, PrefixedMade, EmptySeq, ViewsAssumption, NormalFacts DEF Made, Bytes
  <2> QED
    BY <2>1, <2>2
<1>2. x # Paged
  BY <1>1, NamesAssumption
<1>3. x \in Bytes /\ Paged \o <<>> = Paged
  BY <1>1, ServiceKeyFacts, ConcatEmptySeq DEF Full, Bytes
<1>4. Key(c) = S \o x /\ ServiceKey(Paged, <<>>) = S \o Paged
  BY <1>3 DEF Key, ServiceKey, keyOf, Full
<1> HIDE DEF x, S
<1>5. S \o x # S \o Paged
  BY <1>1, <1>2, <1>3, ConcatSimplifications DEF Bytes
<1> QED
  BY <1>4, <1>5

(* One page more: it goes on where the last one ended.                     *)
LEMMA PagingList ==
  ASSUME CallInv, PagingInv, NEW c \in Clients, List(c)
  PROVE  PagingInv'
<1>1. /\ c = Pager /\ req[c].view = Paged /\ Paged \in Bytes /\ DOMAIN objects \subseteq Bytes
      /\ pc'[Pager] = "listobjects"
  <2>1. req[c] \in Calls[c] /\ req[c].op = "List" /\ pc'[c] = "listobjects"
    BY DEF List, CallInv, Goto
  <2> QED
    BY <2>1, CallFacts, MeteredAssumption, PrefixedMade DEF Made, CallInv
<1>2. PICK keys \in PrefixedList(Paged, DOMAIN objects, <<>>, after) :
        /\ page' = [i \in DOMAIN keys |->
                      [key |-> keys[i], size |-> objects[ServiceKey(req[c].view, keys[i])]]]
        /\ listed' = listed \o keys
        /\ after' = IF keys = <<>> THEN after ELSE Last(keys)
  BY <1>1 DEF List
<1>3. UNCHANGED <<objects, steady>>
  BY DEF List, bucket
<1>4. after \in Bytes /\ listed \in Seq(Bytes) /\ ServiceKey(Paged, <<>>) \notin DOMAIN objects
  BY DEF PagingInv
<1>5. /\ keys \in Seq(Bytes)
      /\ \A i \in DOMAIN keys : Less(after, keys[i])
      /\ \A i, j \in DOMAIN keys : i < j => Less(keys[i], keys[j])
      /\ \A k \in Bytes : ServiceKey(Paged, k) \in DOMAIN objects /\ Less(after, k) =>
           \/ \E i \in DOMAIN keys : keys[i] = k
           \/ keys # <<>> /\ \A i \in DOMAIN keys : Less(keys[i], k)
  BY <1>1, <1>4, ViewPage
<1> DEFINE n == Len(listed)
           m == Len(keys)
           all == listed \o keys
<1>6. /\ n \in Nat /\ m \in Nat /\ DOMAIN listed = 1..n /\ DOMAIN keys = 1..m
      /\ all \in Seq(Bytes) /\ Len(all) = n + m /\ DOMAIN all = 1..(n + m)
      /\ \A i \in 1..(n + m) : all[i] = IF i <= n THEN listed[i] ELSE keys[i - n]
      /\ keys # <<>> => m # 0
  <2>1. /\ n \in Nat /\ m \in Nat /\ DOMAIN listed = 1..n /\ DOMAIN keys = 1..m
        /\ keys # <<>> => m # 0
    BY <1>4, <1>5, LenProperties, EmptySeq
  <2>2. /\ all \in Seq(Bytes) /\ Len(all) = n + m
        /\ \A i \in 1..(n + m) : all[i] = IF i <= n THEN listed[i] ELSE keys[i - n]
    BY <1>4, <1>5, ConcatProperties
  <2>3. DOMAIN all = 1..(n + m)
    BY <2>2, LenProperties
  <2> QED
    BY <2>1, <2>2, <2>3
<1>7. /\ listed # <<>> => n # 0
      /\ \A i \in 1..n : all[i] = listed[i]
      /\ \A i \in 1..m : n + i \in 1..(n + m) /\ all[n + i] = keys[i]
  <2>1. listed # <<>> => n # 0
    BY <1>4, EmptySeq
  <2>2. \A i \in 1..n : all[i] = listed[i]
    BY <1>6
  <2>3. ASSUME NEW i \in 1..m PROVE n + i \in 1..(n + m) /\ all[n + i] = keys[i]
    <3>1. n + i \in 1..(n + m) /\ ~(n + i <= n) /\ (n + i) - n = i
      BY <1>6
    <3> QED
      BY <1>6, <3>1
  <2> QED
    BY <2>1, <2>2, <2>3
<1> HIDE DEF n, m, all
<1>8. ASSUME NEW i \in 1..(n + m - 1) PROVE Less(all[i], all[i + 1])
  <2>1. CASE i < n
    <3>1. i \in 1..(n - 1) /\ i \in 1..n /\ i + 1 \in 1..n
      BY <1>6, <2>1
    <3> QED
      BY <1>7, <3>1 DEF PagingInv, ViewAscends, n
  <2>2. CASE i = n
    <3>1. 1 \in 1..m /\ n \in 1..n /\ n # 0
      BY <1>6, <2>2
    <3>2. all[i] = listed[n] /\ all[i + 1] = keys[1]
      BY <1>7, <2>2, <3>1
    <3>3. listed # <<>>
      BY <1>6, <3>1
    <3>4. after = listed[n]
      BY <3>3 DEF PagingInv, n
    <3> QED
      BY <1>5, <1>6, <3>1, <3>2, <3>4
  <2>3. CASE i > n
    <3>1. i - n \in 1..m /\ i + 1 - n \in 1..m /\ i - n < i + 1 - n /\ n + (i - n) = i
          /\ n + (i + 1 - n) = i + 1
      BY <1>6, <2>3
    <3>2. all[i] = keys[i - n] /\ all[i + 1] = keys[i + 1 - n]
      BY <1>7, <3>1
    <3> QED
      BY <1>5, <1>6, <3>1, <3>2
  <2> QED
    BY <1>6, <2>1, <2>2, <2>3
<1>9. after' \in Bytes /\ (all # <<>> => after' = all[n + m])
  <2>1. CASE keys = <<>>
    <3>1. m = 0 /\ all = listed
      BY <1>4, <2>1, ConcatEmptySeq DEF m, all
    <3> QED
      BY <1>2, <1>4, <1>6, <2>1, <3>1 DEF PagingInv, n
  <2>2. CASE keys # <<>>
    <3>1. m \in 1..m /\ Last(keys) = keys[m] /\ keys[m] \in Bytes
      <4>1. m \in 1..m
        BY <1>6, <2>2
      <4> QED
        BY <1>5, <4>1, ElementOfSeq DEF Last, m
    <3> QED
      BY <1>2, <1>7, <2>2, <3>1
  <2> QED
    BY <2>1, <2>2
<1>10. ASSUME NEW k \in steady
       PROVE  \/ \E i \in DOMAIN all : all[i] = k
              \/ Less(after', k) /\ ~Over'
  <2>1. k \in Bytes /\ ServiceKey(Paged, k) \in DOMAIN objects
    BY DEF PagingInv
  <2>2. CASE \E i \in 1..n : listed[i] = k
    <3>1. PICK i \in 1..n : listed[i] = k
      BY <2>2
    <3>2. i \in DOMAIN all /\ all[i] = k
      BY <1>6, <1>7, <3>1
    <3> QED
      BY <3>2
  <2>3. CASE \E i \in 1..m : keys[i] = k
    <3>1. PICK i \in 1..m : keys[i] = k
      BY <2>3
    <3>2. n + i \in DOMAIN all /\ all[n + i] = k
      BY <1>6, <1>7, <3>1
    <3> QED
      BY <3>2
  <2>4. CASE ~(\E i \in 1..n : listed[i] = k) /\ ~(\E i \in 1..m : keys[i] = k)
    <3>1. Less(after, k)
      BY <1>6, <2>4 DEF PagingInv
    <3>2. keys # <<>> /\ \A i \in 1..m : Less(keys[i], k)
      BY <1>5, <1>6, <2>1, <2>4, <3>1
    <3>3. m \in 1..m /\ after' = keys[m]
      BY <1>2, <1>6, <3>2 DEF Last, m
    <3>4. page' # <<>>
      <4>1. DOMAIN page' = 1..m /\ 1 \in 1..m
        BY <1>2, <1>6, <3>3
      <4>2. DOMAIN <<>> = {}
        OBVIOUS
      <4> QED
        BY <4>1, <4>2
    <3> QED
      BY <1>1, <3>2, <3>3, <3>4 DEF Over
  <2> QED
    BY <2>2, <2>3, <2>4
<1>11. listed' = all /\ Len(all) = n + m
  BY <1>2, <1>6 DEF all
<1>12. ViewAscends'
  <2>1. Len(listed') - 1 = n + m - 1
    BY <1>6, <1>11
  <2>2. ASSUME NEW i \in 1..(Len(listed') - 1) PROVE Less(listed'[i], listed'[i + 1])
    <3>1. i \in 1..(n + m - 1)
      BY <2>1
    <3>2. Less(all[i], all[i + 1])
      BY <1>8, <3>1
    <3> QED
      BY <1>11, <3>2
  <2> QED
    BY <2>2 DEF ViewAscends
<1>13. listed' \in Seq(Bytes) /\ (listed' # <<>> => after' = listed'[Len(listed')])
  BY <1>6, <1>9, <1>11
<1>14. \A k \in steady' :
         /\ k \in Bytes /\ ServiceKey(Paged, k) \in DOMAIN objects'
         /\ \/ \E i \in DOMAIN listed' : listed'[i] = k
            \/ Less(after', k) /\ ~Over'
  BY <1>3, <1>10, <1>11 DEF PagingInv
<1> QED
  BY <1>3, <1>4, <1>9, <1>12, <1>13, <1>14 DEF PagingInv

(* The enumeration goes on, whatever the clients do.                       *)
LEMMA PagingStep ==
  ASSUME CallInv, CallInv', LabelInv, PagingInv, NEW c \in Clients, Step(c)
  PROVE  PagingInv'
<1>0. ServiceKey(Paged, <<>>) \notin DOMAIN objects
      /\ \A k \in steady : ServiceKey(Paged, k) \in DOMAIN objects
  BY DEF PagingInv
<1>1. CASE List(c)
  BY <1>1, PagingList
<1>2. CASE Put(c) \/ PutStream(c)
  <2>1. /\ pc[c] = "inner" /\ req[c].op \in {"Put", "PutStream"} /\ req[c] \in Calls[c]
        /\ DOMAIN objects' = DOMAIN objects \cup {Key(c)}
        /\ UNCHANGED <<after, listed, steady, page>>
    BY <1>2 DEF Put, PutStream, Store, CallInv, paging
  <2>2. c # Pager /\ Key(c) # ServiceKey(Paged, <<>>)
    BY <2>1, CallFacts, PutElsewhere
  <2>3. pc'[Pager] = pc[Pager]
    BY <2>2, OthersSame, MeteredAssumption
  <2> QED
    BY <1>0, <2>1, <2>2, <2>3, PagingKept DEF Over
<1>3. CASE Delete(c)
  <2>1. /\ req[c].op = "Delete" /\ req[c] \in Calls[c]
        /\ steady' = steady \cap Shown(objects')
        /\ DOMAIN objects' \subseteq DOMAIN objects /\ UNCHANGED <<after, listed, page>>
    BY <1>3 DEF Delete, CallInv
  <2>2. pc'[Pager] = pc[Pager]
    BY <2>1, CallFacts, OthersSame, MeteredAssumption
  <2>3. \A k \in steady' : ServiceKey(Paged, k) \in DOMAIN objects'
    BY <2>1, ShownFacts DEF CallInv
  <2> QED
    BY <1>0, <2>1, <2>2, <2>3, PagingKept DEF Over
<1>4. CASE ListObjects(c) \/ ListBytes(c)
  <2>1. c = Pager /\ UNCHANGED <<objects, after, listed, steady>>
    BY <1>4, CallFacts DEF ListObjects, ListBytes, CallInv, paging
  <2>2. Over' => Over
    <3>1. pc \in [Clients -> Steps]
      BY DEF CallInv
    <3> QED
      BY <1>4, <2>1, <3>1 DEF ListObjects, ListBytes, Over, Goto, paging
  <2> QED
    BY <1>0, <2>1, <2>2, PagingKept
<1>5. CASE ~(List(c) \/ Put(c) \/ PutStream(c) \/ Delete(c) \/ ListObjects(c) \/ ListBytes(c))
  <2>1. /\ UNCHANGED <<objects, after, listed, steady, page>>
        /\ pc'[c] = pc[c] \/ pc'[c] \in {"idle", "bucket", "count", "inner", "body"}
           \/ PutBytes(c)
    BY <1>5 DEF Step, Invoke, Bucket, Count, Fails, PutBytes, StreamRead, Get, BodyRead,
                BodyClose, Goto, CallInv, bucket, paging
  <2>2. Over' => Over
    <3>1. CASE c = Pager
      <4>1. PutBytes(c) => pc'[c] = "idle"
        BY DEF PutBytes, Goto, CallInv
      <4> QED
        BY <2>1, <3>1, <4>1 DEF Over
    <3>2. CASE c # Pager
      <4>1. pc'[Pager] = pc[Pager]
        BY <3>2, OthersSame, MeteredAssumption
      <4> QED
        BY <2>1, <4>1 DEF Over
    <3> QED
      BY <3>1, <3>2
  <2> QED
    BY <1>0, <2>1, <2>2, PagingKept
<1> QED
  BY <1>1, <1>2, <1>3, <1>4, <1>5

-----------------------------------------------------------------------------
(* The invariant holds throughout.                                         *)
MInv == CallInv /\ HeapInv /\ LabelInv /\ BytesInv /\ SnapInv /\ PagingInv

(* It holds at first.                                                      *)
LEMMA MInvInit == Init => MInv
<1> SUFFICES ASSUME Init PROVE MInv
  OBVIOUS
<1>0. MaxSize \in Nat /\ Pager \in Clients /\ DOMAIN Nothing = {}
  BY MeteredAssumption DEF Nothing
<1>1. CallInv
  <2>1. /\ DOMAIN objects \subseteq Bytes
        /\ \A k \in DOMAIN objects : objects[k] \in 0..MaxSize
    BY MeteredAssumption DEF Init, Bytes
  <2> QED
    BY <1>0, <2>1 DEF Init, CallInv, Steps
<1>2. HeapInv
  <2>1. heap = <<>> /\ heap \in Seq(Int) /\ Len(heap) = 0
    BY EmptySeq DEF Init
  <2> QED
    BY <2>1 DEF HeapInv
<1>3. LabelInv
  <2>1. /\ DOMAIN labels = {} /\ counted = [l \in Labels |-> 0]
        /\ ptr = [c \in Clients |-> 0] /\ Len(heap) = 0
        /\ \A c \in Clients : pc[c] = "idle"
    BY <1>0, EmptySeq DEF Init
  <2>2. NoCountLost
    BY <2>1 DEF NoCountLost
  <2> QED
    BY <2>1, <2>2 DEF LabelInv, Holds
<1>4. BytesInv
  BY EmptySeq DEF Init, BytesInv
<1>5. SnapInv
  BY <1>0 DEF Init, SnapInv
<1>6. PagingInv
  <2>1. /\ after = <<>> /\ listed = <<>> /\ steady = Shown(objects) /\ pc[Pager] = "idle"
        /\ <<>> \in Bytes /\ listed \in Seq(Bytes) /\ Len(listed) = 0
    BY <1>0, EmptySeq DEF Init, Bytes
  <2>2. ServiceKey(Paged, <<>>) \notin DOMAIN objects
    BY NamesAssumption DEF Init
  <2>3. ASSUME NEW k \in steady
        PROVE  k \in Bytes /\ ServiceKey(Paged, k) \in DOMAIN objects /\ Less(after, k)
    <3>1. k \in Bytes /\ ServiceKey(Paged, k) \in DOMAIN objects
      BY <1>1, <2>1, ShownFacts DEF CallInv
    <3>2. k # <<>>
      BY <2>2, <3>1
    <3> QED
      BY <2>1, <3>1, <3>2, LessEmpty
  <2>4. ViewAscends
    BY <2>1 DEF ViewAscends
  <2>5. ~Over
    BY <2>1 DEF Over
  <2> QED
    BY <2>1, <2>2, <2>3, <2>4, <2>5 DEF PagingInv
<1> QED
  BY <1>1, <1>2, <1>3, <1>4, <1>5, <1>6 DEF MInv

(* Every step preserves it.                                                *)
LEMMA MInvNext == MInv /\ [Next]_vars => MInv'
<1> SUFFICES ASSUME MInv, [Next]_vars PROVE MInv'
  OBVIOUS
<1> USE DEF MInv
<1>1. ASSUME NEW c \in Clients, Step(c) PROVE MInv'
  <2>1. CallInv'
    BY <1>1, CallStep
  <2>2. HeapInv' /\ Grows
    BY <1>1, HeapStep
  <2>3. LabelInv'
    BY <1>1, LabelStep
  <2>4. BytesInv'
    BY <1>1, <2>1, <2>2, BytesStep
  <2>5. SnapInv'
    BY <1>1, <2>2, SnapStep
  <2>6. PagingInv'
    BY <1>1, <2>1, PagingStep
  <2> QED
    BY <2>1, <2>2, <2>3, <2>4, <2>5, <2>6
<1>2. ASSUME UNCHANGED <<bucket, client, paging, counted>>
      PROVE  CallInv' /\ HeapInv' /\ LabelInv' /\ BytesInv' /\ PagingInv'
  <2>1. UNCHANGED <<objects, labels, heap, pc, req, ptr, left, made, after, page, listed, steady, counted>>
    BY <1>2 DEF bucket, client, paging
  <2>2. CallInv' /\ HeapInv'
    BY <2>1 DEF CallInv, HeapInv
  <2>3. LabelInv'
    <3>1. \A d \in Clients : Holds(d)' => Holds(d) /\ Label(d)' = Label(d)
      BY <2>1 DEF Holds, Label
    <3> QED
      BY <2>1, <3>1, LabelKept
  <2>4. BytesInv'
    <3>1. \A i : PutDues(i)' = PutDues(i) /\ GetDues(i)' = GetDues(i)
      BY <2>1 DEF PutDues, GetDues, PutDue, GetDue
    <3> QED
      BY <2>1, <3>1 DEF BytesInv
  <2>5. PagingInv'
    <3>1. /\ ServiceKey(Paged, <<>>) \notin DOMAIN objects'
          /\ \A k \in steady' : ServiceKey(Paged, k) \in DOMAIN objects'
          /\ Over' => Over
      BY <2>1 DEF PagingInv, Over
    <3> QED
      BY <2>1, <3>1, PagingKept
  <2> QED
    BY <2>2, <2>3, <2>4, <2>5
<1>3. CASE StatsLock
  BY <1>2, <1>3, LockSnap DEF StatsLock
<1>4. ASSUME NEW l \in DOMAIN spc, StatsLoad(l) PROVE MInv'
  BY <1>2, <1>4, LoadSnap DEF StatsLoad
<1>5. CASE UNCHANGED vars
  <2>1. UNCHANGED <<bucket, client, paging, counted>> /\ UNCHANGED <<spc, snap, labels, heap>>
    BY <1>5 DEF vars, stats, bucket
  <2>2. SnapInv'
    BY <2>1 DEF SnapInv
  <2> QED
    BY <1>2, <2>1, <2>2
<1> QED
  BY <1>1, <1>3, <1>4, <1>5 DEF Next, Step

(* The invariant holds in every reachable state.                           *)
LEMMA MInvInvariant == Spec => []MInv
BY MInvInit, MInvNext, PTL DEF Spec

(***************************************************************************)
(* No request is lost, however many labels, clients and calls there are.   *)
(***************************************************************************)
THEOREM MeteringLosesNothing == Spec => []NoCountLost
<1>1. MInv => NoCountLost
  BY DEF MInv, LabelInv
<1> QED
  BY <1>1, MInvInvariant, PTL

(***************************************************************************)
(* A snapshot of Stats has no bytes without their request.                 *)
(***************************************************************************)
THEOREM SnapshotsHaveRequests == Spec => []BytesHaveRequests
<1>1. MInv => BytesHaveRequests
  <2> SUFFICES ASSUME SnapInv, ~Locked, NEW l \in DOMAIN snap
               PROVE  /\ snap[l].putBytes <= snap[l].putCount * MaxSize
                      /\ snap[l].getBytes <= snap[l].getCount * MaxSize
    BY DEF MInv, BytesHaveRequests
  <2>1. Len(LoadOrder) = 7
    BY DEF LoadOrder
  <2>2. l \in DOMAIN spc /\ spc[l] \in 0..7 /\ ~(spc[l] < 7)
    BY <2>1 DEF SnapInv, Locked
  <2>3. spc[l] >= 2 /\ spc[l] >= 4
    BY <2>2
  <2> QED
    BY <2>2, <2>3 DEF SnapInv
<1> QED
  BY <1>1, MInvInvariant, PTL

(***************************************************************************)
(* The pages of a view ascend in the keys it shows, none comes twice.      *)
(***************************************************************************)
THEOREM ViewPagesInOrder == Spec => []ViewAscends
<1>1. MInv => ViewAscends
  BY DEF MInv, PagingInv
<1> QED
  BY <1>1, MInvInvariant, PTL

(***************************************************************************)
(* An enumeration of a view that ends has every key that was there         *)
(* throughout.                                                             *)
(***************************************************************************)
THEOREM ViewEnumerationComplete == Spec => []ViewNoneMissed
<1>1. MInv => ViewNoneMissed
  BY DEF MInv, PagingInv, ViewNoneMissed, Over
<1> QED
  BY <1>1, MInvInvariant, PTL

-----------------------------------------------------------------------------
(* Keys below views that are apart are different.                          *)
LEMMA ApartKeys ==
  ASSUME NEW v, NEW w, Made(v), Made(w), Apart(v, w), NEW k \in Bytes
  PROVE  ~IsPrefix(ServiceKey(w, <<>>), ServiceKey(v, k))
<1>0. v \in Bytes /\ w \in Bytes /\ <<>> \in Bytes
  BY EmptySeq DEF Made, Bytes
<1> SUFFICES ASSUME IsPrefix(ServiceKey(w, <<>>), ServiceKey(v, k)) PROVE FALSE
  OBVIOUS
<1> DEFINE S == Normal(S3Prefix)
<1>1. S \in Bytes /\ v \o k \in Bytes /\ ServiceKey(v, k) = S \o (v \o k)
      /\ ServiceKey(v, k) \in Bytes /\ ServiceKey(w, <<>>) \in Bytes
  BY <1>0, ServiceKeyFacts
<1>2. PICK s \in Bytes : ServiceKey(v, k) = ServiceKey(w, <<>>) \o s
  BY <1>1, PrefixSplits
<1>3. w \o s \in Bytes /\ ServiceKey(w, <<>>) \o s = S \o (w \o s)
  <2>1. /\ w \o s \in Bytes /\ ServiceKey(w, s) = S \o (w \o s)
        /\ ServiceKey(w, s) = ServiceKey(w, <<>>) \o s
    BY <1>0, ServiceKeyFacts
  <2> HIDE DEF S
  <2> QED
    BY <2>1
<1> HIDE DEF S
<1>4. v \o k = w \o s
  <2>1. S \o (v \o k) = S \o (w \o s)
    BY <1>1, <1>2, <1>3
  <2> QED
    BY <1>1, <1>3, <2>1, ConcatSimplifications DEF Bytes
<1>5. PICK i \in 1..(Len(v) + 1) :
        /\ ByteAt(v, i) # ByteAt(w, i)
        /\ \A j \in 1..(i - 1) : ByteAt(v, j) # Slash /\ ByteAt(w, j) # Slash
  BY DEF Apart
<1>6. /\ Len(v) \in Nat \ {0} /\ v[Len(v)] = Slash /\ DOMAIN v = 1..Len(v)
      /\ Len(w) \in Nat \ {0} /\ w[Len(w)] = Slash /\ DOMAIN w = 1..Len(w)
      /\ Len(k) \in Nat /\ Len(s) \in Nat
  BY LenProperties DEF Made, Bytes
<1>7. i <= Len(v)
  <2>1. ByteAt(v, Len(v)) = Slash
    BY <1>6 DEF ByteAt
  <2> QED
    BY <1>5, <1>6, <2>1
<1>8. i <= Len(w)
  <2>1. ByteAt(w, Len(w)) = Slash
    BY <1>6 DEF ByteAt
  <2> QED
    BY <1>5, <1>6, <2>1
<1>9. v[i] # w[i]
  BY <1>5, <1>6, <1>7, <1>8 DEF ByteAt
<1>10. (v \o k)[i] = v[i] /\ (w \o s)[i] = w[i]
  <2>1. \A j \in 1..(Len(v) + Len(k)) : (v \o k)[j] = IF j <= Len(v) THEN v[j] ELSE k[j - Len(v)]
    BY <1>0, ConcatProperties DEF Bytes
  <2>2. \A j \in 1..(Len(w) + Len(s)) : (w \o s)[j] = IF j <= Len(w) THEN w[j] ELSE s[j - Len(w)]
    BY <1>0, ConcatProperties DEF Bytes
  <2>3. i \in 1..(Len(v) + Len(k)) /\ i \in 1..(Len(w) + Len(s))
    BY <1>5, <1>6, <1>7, <1>8
  <2> QED
    BY <1>7, <1>8, <2>1, <2>2, <2>3
<1> QED
  BY <1>4, <1>9, <1>10

(***************************************************************************)
(* A call through a view that is apart leaves what this view shows alone,  *)
(* for every pair of views Prefixed can make.                              *)
(***************************************************************************)
THEOREM ViewsAreIsolated == Spec => ViewsIsolated
<1> DEFINE A == \A c \in Clients :
                  (req[c].op # "none" /\ pc'[c] # pc[c] /\ Apart(req[c].view, Paged))
                    => Shown(objects') = Shown(objects)
<1>1. MInv /\ [Next]_vars => [A]_vars
  <2> SUFFICES ASSUME MInv, Next, NEW c \in Clients,
                      pc'[c] # pc[c], Apart(req[c].view, Paged)
               PROVE  Shown(objects') = Shown(objects)
    OBVIOUS
  <2> DEFINE p == ServiceKey(Paged, <<>>)
  <2>1. Step(c)
    <3>1. ASSUME NEW d \in Clients, Step(d) PROVE d = c
      BY <3>1, OthersSame DEF MInv
    <3>2. ~StatsLock /\ \A l \in DOMAIN spc : ~StatsLoad(l)
      BY DEF StatsLock, StatsLoad, client
    <3> QED
      BY <3>1, <3>2 DEF Next, Step
  <2>2. CASE Put(c) \/ PutStream(c) \/ Delete(c)
    <3>1. /\ pc[c] = "inner" /\ req[c] \in Calls[c]
          /\ DOMAIN objects' \in {DOMAIN objects \cup {Key(c)}, DOMAIN objects \ {Key(c)}}
      BY <2>2 DEF Put, PutStream, Delete, Store, MInv, CallInv
    <3>2. Made(req[c].view) /\ Made(Paged) /\ req[c].key \in Bytes
      BY <3>1, CallFacts, MeteredAssumption, PrefixedMade
    <3>3. ~IsPrefix(p, Key(c))
      BY <3>2, ApartKeys DEF Key
    <3>4. {x \in DOMAIN objects' : IsPrefix(p, x)} = {x \in DOMAIN objects : IsPrefix(p, x)}
      BY <3>1, <3>3
    <3> QED
      BY <3>4 DEF Shown
  <2>3. CASE ~(Put(c) \/ PutStream(c) \/ Delete(c))
    <3>1. UNCHANGED objects
      BY <2>1, <2>3 DEF Step, Invoke, Bucket, Count, Fails, PutBytes, StreamRead, Get, BodyRead,
                        BodyClose, List, ListObjects, ListBytes, bucket
    <3> QED
      BY <3>1
  <2> QED
    BY <2>2, <2>3
<1>2. Spec => [][A]_vars
  BY <1>1, MInvInvariant, PTL DEF Spec
<1> QED
  BY <1>2 DEF ViewsIsolated
============================================================================
