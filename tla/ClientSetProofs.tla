-------------------------- MODULE ClientSetProofs --------------------------
(***************************************************************************)
(* The safety of the striped clients, for every number of slots, requests  *)
(* and stripes, every window and floor, and every bound of the model.      *)
(***************************************************************************)
EXTENDS ClientSet, FiniteSetTheorems, TLAPS

Labels == {"idle", "sick", "swap", "reload", "start", "trip", "body"}

Time   == Nat \cup {Never}
Stripe == [inflight : Nat, bytes : Nat, checkedAt : Time, checkBytes : Nat, belowSince : Time]
Record == [busy : Nat, rested : Nat, probed : Time, base : Nat, joined : Time, born : Nat]

TypeOK ==
  /\ now \in Nat /\ next \in Slots /\ slot \in [Slots -> Ids] /\ made \in K..Stripes
  /\ st \in [Ids -> Stripe] /\ seen \in [Ids -> Record]
  /\ pc \in [Requests -> Labels]
  /\ i \in [Requests -> Slots] /\ s \in [Requests -> Ids] /\ done \in [Requests -> BOOLEAN]

(* The requests that are on a stripe, as InflightExact counts them.        *)
On(x) == {r \in Requests : pc[r] \in {"trip", "body"} /\ s[r] = x /\ ~done[r]}

(* Only a body can have been closed.                                       *)
ClosedOnce == \A r \in Requests : done[r] => pc[r] \in {"idle", "body"}

(* A stripe that has not been made is fresh; slots and requests use made   *)
(* ones, and a stripe has one slot.                                        *)
OnlyMade ==
  /\ \A x \in Ids : x > made => st[x] = Fresh
  /\ \A k \in Slots : slot[k] <= made
  /\ \A j, k \in Slots : slot[j] = slot[k] => j = k
  /\ \A r \in Requests : s[r] <= made

(* A request's stripe was in the request's slot, and is there or is no     *)
(* longer in any.                                                          *)
OwnSlot ==
  \A r \in Requests : pc[r] # "idle" =>
    \A k \in Slots : slot[k] = s[r] => k = i[r]

(* The sampler looks back; below the floor since belowSince.               *)
SampledSlow ==
  \A x \in Ids :
    /\ st[x].checkedAt <= now /\ st[x].checkBytes <= st[x].bytes
    /\ st[x].belowSince # Never =>
         /\ st[x].checkedAt # Never /\ st[x].belowSince <= st[x].checkedAt
         /\ st[x].checkBytes - seen[x].base
              < Floor * (st[x].checkedAt - st[x].belowSince)

(* While nobody is about to use a stripe, its last sample is no newer than *)
(* its last use.  Who is about to use it has looked at it within a         *)
(* sampling interval, unless it is new or was joined.                      *)
UsedWhenLooked ==
  /\ \A x \in Ids :
       /\ seen[x].rested <= now /\ seen[x].busy <= now /\ seen[x].joined <= now
       /\ st[x].inflight > 0 => seen[x].busy = now
       /\ \/ st[x].checkedAt <= seen[x].busy
          \/ \E r \in Requests : pc[r] = "start" /\ s[r] = x
  /\ \A r \in Requests : pc[r] = "start" =>
       \/ seen[s[r]].joined = now
       \/ st[s[r]].checkedAt = Never
       \/ now - st[s[r]].checkedAt < Quarter

(* The sampler starts again after a rest; until then a stripe is unused,   *)
(* and its last sample so old that the next request takes another.         *)
StartsAgain(x) ==
  \/ seen[x].joined >= seen[x].rested
  \/ st[x].checkedAt = Never
  \/ /\ st[x].checkedAt >= seen[x].rested
     /\ st[x].belowSince # Never => st[x].belowSince >= seen[x].rested

RestsSeen ==
  \A x \in Ids :
    \/ StartsAgain(x)
    \/ /\ st[x].inflight = 0
       /\ \A r \in Requests : ~(pc[r] = "start" /\ s[r] = x)
       /\ seen[x].rested - st[x].checkedAt >= Quarter

(* A stripe that delivers nothing has been below since its first sample.   *)
PinnedBelow ==
  \A x \in Ids : seen[x].probed # Never =>
    /\ st[x].inflight > 0 /\ st[x].checkBytes = st[x].bytes
    /\ seen[x].probed <= st[x].checkedAt
    /\ \/ st[x].checkedAt = seen[x].probed
       \/ st[x].belowSince # Never /\ st[x].belowSince <= seen[x].probed

(* A condemned stripe has left its slot, or somebody is replacing it.      *)
CondemnedLeaves ==
  \A x \in Ids :
    (st[x].belowSince # Never /\ st[x].checkedAt - st[x].belowSince >= Window) =>
      \/ \A k \in Slots : slot[k] # x
      \/ \E q \in Requests : pc[q] = "swap" /\ s[q] = x

(* A stripe is sampled after it was put in its slot.                       *)
BornFirst ==
  \A x \in Ids :
    /\ seen[x].born <= now
    /\ st[x].checkedAt # Never => seen[x].born <= st[x].checkedAt
    /\ st[x].belowSince # Never => seen[x].born <= st[x].belowSince

(* Who is about to replace a stripe has seen it serve for a window.        *)
CondemnedServed ==
  \A r \in Requests : pc[r] = "swap" => now - seen[s[r]].born >= Window

IInv ==
  /\ TypeOK /\ InflightExact /\ ClosedOnce /\ OnlyMade /\ OwnSlot
  /\ SampledSlow /\ UsedWhenLooked /\ RestsSeen /\ PinnedBelow /\ CondemnedLeaves
  /\ BornFirst /\ CondemnedServed

-----------------------------------------------------------------------------
(* A sampling interval is a tick at least.                                 *)
LEMMA QuarterType == Quarter \in Nat /\ Quarter >= 1 /\ Window \in Nat
BY SetAssumption, Z3 DEF Quarter

LEMMA FieldTypes ==
  ASSUME TypeOK, NEW x \in Ids
  PROVE  /\ st[x].inflight \in Nat /\ st[x].bytes \in Nat /\ st[x].checkedAt \in Time
         /\ st[x].checkBytes \in Nat /\ st[x].belowSince \in Time
         /\ seen[x].busy \in Nat /\ seen[x].rested \in Nat /\ seen[x].probed \in Time
         /\ seen[x].base \in Nat /\ seen[x].joined \in Time /\ seen[x].born \in Nat
<1>1. st[x] \in Stripe /\ seen[x] \in Record
  BY DEF TypeOK
<1> QED
  BY <1>1 DEF Stripe, Record

(* What each step does to the stripes and their history, field by field.   *)
LEMMA TickEffect ==
  ASSUME TypeOK, Tick, NEW x \in Ids
  PROVE  /\ st' = st /\ now' = now + 1
         /\ seen'[x].base = seen[x].base /\ seen'[x].joined = seen[x].joined /\ seen'[x].born = seen[x].born
         /\ st[x].inflight > 0 =>
              /\ seen'[x].busy = now' /\ seen'[x].rested = seen[x].rested
              /\ seen'[x].probed = seen[x].probed
         /\ ~(st[x].inflight > 0) =>
              /\ seen'[x].busy = seen[x].busy /\ seen'[x].probed = Never
              /\ seen'[x].rested = IF now' - seen[x].busy >= Quarter THEN now'
                                   ELSE seen[x].rested
         /\ seen'[x] \in Record
<1> DEFINE b == now' - seen[x].busy >= Quarter
<1>1. seen[x] \in Record /\ now \in Nat /\ now' = now + 1 /\ st' = st
  BY DEF TypeOK, Tick
<1> HIDE DEF b
<1>2. seen'[x] =
       IF st[x].inflight > 0 THEN [seen[x] EXCEPT !.busy = now']
       ELSE IF b THEN [seen[x] EXCEPT !.rested = now', !.probed = Never]
            ELSE [seen[x] EXCEPT !.probed = Never]
  BY Zenon DEF Tick, b
<1>3. now' \in Nat /\ Never \in Time
  BY <1>1 DEF Time
<1>4. CASE st[x].inflight > 0
  <2>1. seen'[x] = [seen[x] EXCEPT !.busy = now']
    BY <1>2, <1>4
  <2> QED
    BY <1>1, <1>3, <1>4, <2>1 DEF Record
<1>5. CASE ~(st[x].inflight > 0) /\ b
  <2>1. seen'[x] = [seen[x] EXCEPT !.rested = now', !.probed = Never]
    BY <1>2, <1>5, Zenon
  <2>2. /\ seen'[x].rested = now' /\ seen'[x].busy = seen[x].busy
        /\ seen'[x].base = seen[x].base /\ seen'[x].joined = seen[x].joined /\ seen'[x].born = seen[x].born
        /\ seen'[x].probed = Never /\ seen'[x] \in Record
    BY <1>1, <1>3, <2>1 DEF Record
  <2> QED
    BY <1>1, <1>5, <2>2 DEF b
<1>6. CASE ~(st[x].inflight > 0) /\ ~b
  <2>1. seen'[x] = [seen[x] EXCEPT !.probed = Never]
    BY <1>2, <1>6
  <2>2. /\ seen'[x].rested = seen[x].rested /\ seen'[x].busy = seen[x].busy
        /\ seen'[x].base = seen[x].base /\ seen'[x].joined = seen[x].joined /\ seen'[x].born = seen[x].born
        /\ seen'[x].probed = Never /\ seen'[x] \in Record
    BY <1>1, <1>3, <2>1 DEF Record
  <2> QED
    BY <1>1, <1>6, <2>2 DEF b
<1> QED
  BY <1>4, <1>5, <1>6

LEMMA DeliverEffect ==
  ASSUME TypeOK, NEW x \in Ids, Deliver(x), NEW y \in Ids
  PROVE  /\ st'[y].inflight = st[y].inflight /\ st'[y].checkedAt = st[y].checkedAt
         /\ st'[y].checkBytes = st[y].checkBytes /\ st'[y].belowSince = st[y].belowSince
         /\ st'[y].bytes >= st[y].bytes
         /\ seen'[y].busy = seen[y].busy /\ seen'[y].rested = seen[y].rested
         /\ seen'[y].base = seen[y].base /\ seen'[y].joined = seen[y].joined /\ seen'[y].born = seen[y].born
         /\ y # x => st'[y] = st[y] /\ seen'[y] = seen[y]
         /\ seen'[x].probed = Never
         /\ st'[y] \in Stripe /\ seen'[y] \in Record
<1>1. st \in [Ids -> Stripe] /\ seen \in [Ids -> Record] /\ st[y] \in Stripe /\ seen[y] \in Record
  BY DEF TypeOK
<1>2. PICK m \in Chunks : st' = [st EXCEPT ![x].bytes = @ + m]
  BY DEF Deliver
<1>3. m \in Nat
  BY SetAssumption
<1>4. seen' = [seen EXCEPT ![x].probed = Never]
  BY DEF Deliver
<1> QED
  BY <1>1, <1>2, <1>3, <1>4 DEF Stripe, Record, Time

Sampled(r) ==
  LET x == s[r]
      f == Since(x)
  IN /\ pc[r] = "sick" /\ Samples(x)
     /\ st'[x].checkedAt = now /\ st'[x].checkBytes = st[x].bytes /\ st'[x].belowSince = f
     /\ st'[x].inflight = st[x].inflight /\ st'[x].bytes = st[x].bytes
     /\ seen'[x].busy = seen[x].busy /\ seen'[x].rested = seen[x].rested
     /\ seen'[x].joined = seen[x].joined /\ seen'[x].born = seen[x].born
     /\ seen'[x].probed = IF st[x].inflight = 0 THEN Never
                          ELSE IF seen[x].probed = Never THEN now ELSE seen[x].probed
     /\ seen'[x].base = IF f = Never THEN 0
                        ELSE IF st[x].belowSince = Never THEN st[x].checkBytes
                        ELSE seen[x].base
     /\ \A y \in Ids \ {x} : st'[y] = st[y] /\ seen'[y] = seen[y]
     /\ pc' = [pc EXCEPT ![r] = IF f # Never /\ now - f >= Window THEN "swap" ELSE "start"]
     /\ st' \in [Ids -> Stripe] /\ seen' \in [Ids -> Record]

LEMMA SickEffect ==
  ASSUME TypeOK, NEW r \in Requests, Sick(r)
  PROVE  \/ Sampled(r)
         \/ /\ pc[r] = "sick" /\ ~Samples(s[r]) /\ UNCHANGED <<st, seen>>
            /\ pc' = [pc EXCEPT ![r] = "start"]
<1> DEFINE x == s[r]
           f == Since(x)
           p == IF st[x].inflight = 0 THEN Never
                ELSE IF seen[x].probed = Never THEN now ELSE seen[x].probed
           b == IF f = Never THEN 0
                ELSE IF st[x].belowSince = Never THEN st[x].checkBytes
                ELSE seen[x].base
<1>1. /\ st \in [Ids -> Stripe] /\ seen \in [Ids -> Record] /\ x \in Ids /\ now \in Nat
      /\ st[x] \in Stripe /\ seen[x] \in Record
  BY DEF TypeOK
<1>2. f \in Time /\ st[x].bytes \in Nat /\ p \in Time /\ b \in Nat
  BY <1>1 DEF Since, Stripe, Record, Time
<1>3. CASE Samples(x)
  <2>1. /\ st' = [st EXCEPT ![x].checkedAt = now, ![x].checkBytes = st[x].bytes,
                            ![x].belowSince = f]
        /\ seen' = [seen EXCEPT ![x].probed = p, ![x].base = b]
        /\ pc' = [pc EXCEPT ![r] = IF f # Never /\ now - f >= Window THEN "swap" ELSE "start"]
        /\ pc[r] = "sick"
    BY <1>3 DEF Sick, Goto
  <2> HIDE DEF f, p, b
  <2>2. /\ st'[x].checkedAt = now /\ st'[x].checkBytes = st[x].bytes /\ st'[x].belowSince = f
        /\ st'[x].inflight = st[x].inflight /\ st'[x].bytes = st[x].bytes
        /\ \A y \in Ids \ {x} : st'[y] = st[y]
    BY <1>1, <1>2, <2>1 DEF Stripe
  <2>3. /\ seen'[x].busy = seen[x].busy /\ seen'[x].rested = seen[x].rested
        /\ seen'[x].joined = seen[x].joined /\ seen'[x].born = seen[x].born /\ seen'[x].probed = p /\ seen'[x].base = b
        /\ \A y \in Ids \ {x} : seen'[y] = seen[y]
    BY <1>1, <1>2, <2>1 DEF Record
  <2>4. st' \in [Ids -> Stripe] /\ seen' \in [Ids -> Record]
    BY <1>1, <1>2, <2>1 DEF Stripe, Record, Time
  <2> QED
    BY <1>3, <2>1, <2>2, <2>3, <2>4 DEF Sampled, f, p, b
<1>4. CASE ~Samples(x)
  BY <1>4 DEF Sick, Goto
<1> QED
  BY <1>3, <1>4

(* A request goes out on its stripe, or leaves it.                         *)
Started(r) ==
  LET x == s[r]
  IN /\ st'[x].inflight = st[x].inflight + 1
     /\ st'[x].bytes = st[x].bytes /\ st'[x].checkedAt = st[x].checkedAt
     /\ st'[x].checkBytes = st[x].checkBytes /\ st'[x].belowSince = st[x].belowSince
     /\ seen'[x].busy = now /\ seen'[x].rested = seen[x].rested
     /\ seen'[x].probed = seen[x].probed /\ seen'[x].base = seen[x].base
     /\ seen'[x].joined = seen[x].joined /\ seen'[x].born = seen[x].born
     /\ \A y \in Ids \ {x} : st'[y] = st[y] /\ seen'[y] = seen[y]
     /\ st' \in [Ids -> Stripe] /\ seen' \in [Ids -> Record]

LEMMA StartEffect ==
  ASSUME TypeOK, NEW r \in Requests, Start(r)
  PROVE  Started(r)
<1>1. /\ st \in [Ids -> Stripe] /\ seen \in [Ids -> Record] /\ s[r] \in Ids /\ now \in Nat
      /\ st[s[r]] \in Stripe /\ seen[s[r]] \in Record
  BY DEF TypeOK
<1>2. /\ st' = [st EXCEPT ![s[r]].inflight = @ + 1]
      /\ seen' = [seen EXCEPT ![s[r]].busy = now]
  BY DEF Start
<1>3. st[s[r]].inflight + 1 \in Nat
  BY <1>1 DEF Stripe
<1> QED
  BY <1>1, <1>2, <1>3 DEF Started, Stripe, Record

Left(r, n) ==
  LET x == s[r]
  IN /\ st'[x].inflight = n
     /\ st'[x].bytes = st[x].bytes /\ st'[x].checkedAt = st[x].checkedAt
     /\ st'[x].checkBytes = st[x].checkBytes /\ st'[x].belowSince = st[x].belowSince
     /\ seen'[x].busy = seen[x].busy /\ seen'[x].rested = seen[x].rested
     /\ seen'[x].probed = (IF n = 0 THEN Never ELSE seen[x].probed)
     /\ seen'[x].base = seen[x].base /\ seen'[x].joined = seen[x].joined /\ seen'[x].born = seen[x].born
     /\ \A y \in Ids \ {x} : st'[y] = st[y] /\ seen'[y] = seen[y]
     /\ st' \in [Ids -> Stripe] /\ seen' \in [Ids -> Record]

LEMMA LeaveEffect ==
  ASSUME TypeOK, NEW r \in Requests, st[s[r]].inflight > 0,
         st' = Leave(s[r], r), Rest(s[r])
  PROVE  Left(r, st[s[r]].inflight - 1)
<1> DEFINE n == st[s[r]].inflight - 1
           p == IF n = 0 THEN Never ELSE seen[s[r]].probed
<1>1. /\ st \in [Ids -> Stripe] /\ seen \in [Ids -> Record] /\ s[r] \in Ids
      /\ st[s[r]] \in Stripe /\ seen[s[r]] \in Record
  BY DEF TypeOK
<1>2. n \in Nat /\ p \in Time
  BY <1>1 DEF Stripe, Record, Time
<1>3. st' = [st EXCEPT ![s[r]].inflight = n]
  BY DEF Leave
<1>4. st'[s[r]].inflight = n
  BY <1>1, <1>3 DEF Stripe
<1>5. seen' = [seen EXCEPT ![s[r]].probed = p]
  BY <1>4 DEF Rest
<1> HIDE DEF n, p
<1>6. /\ st'[s[r]].inflight = n
      /\ st'[s[r]].bytes = st[s[r]].bytes /\ st'[s[r]].checkedAt = st[s[r]].checkedAt
      /\ st'[s[r]].checkBytes = st[s[r]].checkBytes
      /\ st'[s[r]].belowSince = st[s[r]].belowSince
      /\ \A y \in Ids \ {s[r]} : st'[y] = st[y]
      /\ st' \in [Ids -> Stripe]
  BY <1>1, <1>2, <1>3 DEF Stripe
<1>7. /\ seen'[s[r]].probed = p
      /\ seen'[s[r]].busy = seen[s[r]].busy /\ seen'[s[r]].rested = seen[s[r]].rested
      /\ seen'[s[r]].base = seen[s[r]].base /\ seen'[s[r]].joined = seen[s[r]].joined /\ seen'[s[r]].born = seen[s[r]].born
      /\ \A y \in Ids \ {s[r]} : seen'[y] = seen[y]
      /\ seen' \in [Ids -> Record]
  BY <1>1, <1>2, <1>5 DEF Record
<1> QED
  BY <1>6, <1>7 DEF Left, n, p

LEMMA StayEffect ==
  ASSUME TypeOK, NEW r \in Requests, st' = st, Rest(s[r])
  PROVE  Left(r, st[s[r]].inflight)
<1> DEFINE p == IF st[s[r]].inflight = 0 THEN Never ELSE seen[s[r]].probed
<1>1. /\ st \in [Ids -> Stripe] /\ seen \in [Ids -> Record] /\ s[r] \in Ids
      /\ st[s[r]] \in Stripe /\ seen[s[r]] \in Record
  BY DEF TypeOK
<1>2. p \in Time
  BY <1>1 DEF Record, Time
<1>3. seen' = [seen EXCEPT ![s[r]].probed = p]
  BY DEF Rest
<1> HIDE DEF p
<1>4. /\ seen'[s[r]].probed = p
      /\ seen'[s[r]].busy = seen[s[r]].busy /\ seen'[s[r]].rested = seen[s[r]].rested
      /\ seen'[s[r]].base = seen[s[r]].base /\ seen'[s[r]].joined = seen[s[r]].joined /\ seen'[s[r]].born = seen[s[r]].born
      /\ \A y \in Ids \ {s[r]} : seen'[y] = seen[y]
      /\ seen' \in [Ids -> Record]
  BY <1>1, <1>2, <1>3 DEF Record
<1> QED
  BY <1>1, <1>4 DEF Left, p

(* A stripe is replaced by the next one; a request joins what the winner   *)
(* stored.                                                                 *)
Replaced(r) ==
  /\ slot[i[r]] = s[r] /\ made' = made + 1 /\ made' \in Ids
  /\ slot' = [slot EXCEPT ![i[r]] = made'] /\ s' = [s EXCEPT ![r] = made']
  /\ seen'[made'] = Seen(now)
  /\ \A y \in Ids \ {made'} : seen'[y] = seen[y]
  /\ seen' \in [Ids -> Record]
  /\ pc' = [pc EXCEPT ![r] = "start"]

LEMMA SwapEffect ==
  ASSUME TypeOK, NEW r \in Requests, Swap(r)
  PROVE  \/ Replaced(r)
         \/ /\ slot[i[r]] # s[r] /\ pc' = [pc EXCEPT ![r] = "reload"]
            /\ UNCHANGED <<slot, made, s, seen>>
<1>1. seen \in [Ids -> Record] /\ now \in Nat /\ made \in K..Stripes /\ made \in Nat
  BY SetAssumption DEF TypeOK
<1>2. CASE slot[i[r]] = s[r]
  <2>1. Replace(r) /\ pc' = [pc EXCEPT ![r] = "start"]
    BY <1>2 DEF Swap, Goto
  <2>2. made' = made + 1 /\ made' \in Ids
    BY <1>1, <2>1, SetAssumption DEF Replace, Ids
  <2>3. Seen(now) \in Record
    BY <1>1 DEF Seen, Record, Time
  <2>4. seen' = [seen EXCEPT ![made'] = Seen(now)]
    BY <2>1 DEF Replace
  <2>5. /\ seen'[made'] = Seen(now) /\ seen' \in [Ids -> Record]
        /\ \A y \in Ids \ {made'} : seen'[y] = seen[y]
    BY <1>1, <2>2, <2>3, <2>4
  <2> QED
    BY <1>2, <2>1, <2>2, <2>5 DEF Replaced, Replace
<1>3. CASE slot[i[r]] # s[r]
  BY <1>3 DEF Swap, Goto
<1> QED
  BY <1>2, <1>3

Joined(r) ==
  LET x == slot[i[r]]
  IN /\ s' = [s EXCEPT ![r] = x]
     /\ seen'[x].busy = seen[x].busy /\ seen'[x].rested = seen[x].rested
     /\ seen'[x].probed = seen[x].probed /\ seen'[x].base = seen[x].base
     /\ seen'[x].joined = now /\ seen'[x].born = seen[x].born
     /\ \A y \in Ids \ {x} : seen'[y] = seen[y]
     /\ seen' \in [Ids -> Record]

LEMMA ReloadEffect ==
  ASSUME TypeOK, NEW r \in Requests, Reload(r)
  PROVE  Joined(r)
<1>1. /\ seen \in [Ids -> Record] /\ slot[i[r]] \in Ids /\ now \in Time
      /\ seen[slot[i[r]]] \in Record
  BY DEF TypeOK, Time
<1>2. /\ seen' = [seen EXCEPT ![slot[i[r]]].joined = now]
      /\ s' = [s EXCEPT ![r] = slot[i[r]]]
  BY DEF Reload
<1> QED
  BY <1>1, <1>2 DEF Joined, Record

(* A request that is on a stripe is counted there.                         *)
LEMMA OnCounted ==
  ASSUME TypeOK, InflightExact, NEW x \in Ids, NEW r \in On(x)
  PROVE  st[x].inflight > 0
<1>1. st[x].inflight = Cardinality(On(x))
  BY DEF InflightExact, On
<1>2. IsFiniteSet(On(x))
  BY SetAssumption, FS_Subset DEF On
<1>3. Cardinality(On(x)) \in Nat /\ (Cardinality(On(x)) = 0 <=> On(x) = {})
  BY <1>2, FS_CardinalityType, FS_EmptySet
<1> QED
  BY <1>1, <1>3

LEMMA FailsEffect ==
  ASSUME TypeOK, InflightExact, ClosedOnce, NEW r \in Requests, Fails(r)
  PROVE  r \in On(s[r]) /\ Left(r, st[s[r]].inflight - 1)
<1>1. s[r] \in Ids /\ r \in On(s[r])
  BY DEF TypeOK, ClosedOnce, Fails, On
<1> QED
  BY <1>1, OnCounted, LeaveEffect DEF Fails

LEMMA CloseEffect ==
  ASSUME TypeOK, InflightExact, NEW r \in Requests, Close(r)
  PROVE  IF done[r] THEN Left(r, st[s[r]].inflight)
         ELSE r \in On(s[r]) /\ Left(r, st[s[r]].inflight - 1)
<1>1. CASE done[r]
  BY <1>1, StayEffect DEF Close
<1>2. CASE ~done[r]
  <2>1. s[r] \in Ids /\ r \in On(s[r])
    BY <1>2 DEF TypeOK, Close, On
  <2> QED
    BY <1>2, <2>1, OnCounted, LeaveEffect DEF Close
<1> QED
  BY <1>1, <1>2

(* Whoever leaves, the count of his stripe does not rise.                  *)
LEMMA ExitEffect ==
  ASSUME TypeOK, InflightExact, ClosedOnce, NEW r \in Requests, Fails(r) \/ Close(r)
  PROVE  \E n \in Nat : n <= st[s[r]].inflight /\ Left(r, n)
<1>1. st[s[r]].inflight \in Nat /\ s[r] \in Ids
  BY FieldTypes DEF TypeOK
<1>2. r \in On(s[r]) => st[s[r]].inflight - 1 \in Nat
  BY <1>1, OnCounted
<1>3. Left(r, st[s[r]].inflight) \/ (r \in On(s[r]) /\ Left(r, st[s[r]].inflight - 1))
  BY FailsEffect, CloseEffect
<1> QED
  BY <1>1, <1>2, <1>3

-----------------------------------------------------------------------------
LEMMA NextTypeOK ==
  ASSUME TypeOK, InflightExact, ClosedOnce, Next
  PROVE  TypeOK'
<1>t. /\ now \in Nat /\ next \in Slots /\ slot \in [Slots -> Ids] /\ made \in K..Stripes
      /\ st \in [Ids -> Stripe] /\ seen \in [Ids -> Record]
      /\ pc \in [Requests -> Labels]
      /\ i \in [Requests -> Slots] /\ s \in [Requests -> Ids]
      /\ done \in [Requests -> BOOLEAN]
  BY DEF TypeOK
<1>1. CASE Tick
  <2>1. \A x \in Ids : seen'[x] \in Record
    BY <1>1, TickEffect
  <2>2. seen' \in [Ids -> Record]
    BY <1>1, <2>1 DEF Tick
  <2>3. now' = now + 1 /\ UNCHANGED <<next, slot, made, st, pc, i, s, done>>
    BY <1>1 DEF Tick
  <2> QED
    BY <1>t, <2>2, <2>3 DEF TypeOK
<1>2. ASSUME NEW x \in Ids, Deliver(x) PROVE TypeOK'
  <2>1. \A y \in Ids : st'[y] \in Stripe /\ seen'[y] \in Record
    BY <1>2, DeliverEffect
  <2>2. st' \in [Ids -> Stripe] /\ seen' \in [Ids -> Record]
    BY <1>t, <1>2, <2>1 DEF Deliver
  <2> QED
    BY <1>t, <1>2, <2>2 DEF TypeOK, Deliver
<1>3. ASSUME NEW r \in Requests, Pick(r) PROVE TypeOK'
  <2>1. next' \in Slots
    BY <1>t, <1>3, SetAssumption, Z3 DEF Pick, Slots
  <2> QED
    BY <1>t, <1>3, <2>1 DEF TypeOK, Pick, Goto, Labels
<1>4. ASSUME NEW r \in Requests, Sick(r) PROVE TypeOK'
  <2>1. st' \in [Ids -> Stripe] /\ seen' \in [Ids -> Record] /\ pc' \in [Requests -> Labels]
    BY <1>t, <1>4, SickEffect DEF Sampled, Labels
  <2> QED
    BY <1>t, <1>4, <2>1 DEF TypeOK, Sick
<1>5. ASSUME NEW r \in Requests, Swap(r) PROVE TypeOK'
  <2>1. CASE Replaced(r)
    <3>1. made' \in K..Stripes
      BY <1>t, <2>1, SetAssumption DEF Replaced, Ids
    <3> QED
      BY <1>t, <1>5, <2>1, <3>1 DEF TypeOK, Swap, Replaced, Labels
  <2>2. CASE pc' = [pc EXCEPT ![r] = "reload"] /\ UNCHANGED <<slot, made, s, seen>>
    BY <1>t, <1>5, <2>2 DEF TypeOK, Swap, Labels
  <2> QED
    BY <1>5, <2>1, <2>2, SwapEffect
<1>6. ASSUME NEW r \in Requests, Reload(r) PROVE TypeOK'
  BY <1>t, <1>6, ReloadEffect DEF TypeOK, Reload, Joined, Goto, Labels
<1>7. ASSUME NEW r \in Requests, Start(r) PROVE TypeOK'
  BY <1>t, <1>7, StartEffect DEF TypeOK, Start, Started, Goto, Labels
<1>8. ASSUME NEW r \in Requests, Fails(r) \/ Close(r) PROVE TypeOK'
  <2>1. st' \in [Ids -> Stripe] /\ seen' \in [Ids -> Record]
    BY <1>8, ExitEffect DEF Left
  <2> QED
    BY <1>t, <1>8, <2>1 DEF TypeOK, Fails, Close, Goto, Labels
<1>9. ASSUME NEW r \in Requests, Responds(r) \/ Return(r) PROVE TypeOK'
  BY <1>t, <1>9 DEF TypeOK, Responds, Return, Goto, Labels
<1> QED
  BY <1>1, <1>2, <1>3, <1>4, <1>5, <1>6, <1>7, <1>8, <1>9 DEF Next, RoundTrip

LEMMA NextClosedOnce ==
  ASSUME TypeOK, ClosedOnce, Next
  PROVE  ClosedOnce'
<1>t. pc \in [Requests -> Labels] /\ done \in [Requests -> BOOLEAN]
  BY DEF TypeOK
<1>1. CASE Tick
  BY <1>1 DEF Tick, ClosedOnce
<1>2. ASSUME NEW x \in Ids, Deliver(x) PROVE ClosedOnce'
  BY <1>2 DEF Deliver, ClosedOnce
<1>3. ASSUME NEW r \in Requests, RoundTrip(r) PROVE ClosedOnce'
  BY <1>t, <1>3 DEF ClosedOnce, RoundTrip, Pick, Sick, Swap, Reload, Start, Fails, Responds,
                    Close, Return, Goto
<1> QED
  BY <1>1, <1>2, <1>3 DEF Next

(* A stripe with a request in flight, or that a request uses, was made.    *)
LEMMA NextOnlyMade ==
  ASSUME TypeOK, InflightExact, ClosedOnce, OnlyMade, Next
  PROVE  OnlyMade'
<1>t. /\ slot \in [Slots -> Ids] /\ made \in Nat /\ next \in Slots
      /\ i \in [Requests -> Slots] /\ s \in [Requests -> Ids]
      /\ st \in [Ids -> Stripe] /\ \A x \in Ids : x \in Nat
  BY SetAssumption DEF TypeOK, Ids
<1>m. /\ \A x \in Ids : x > made => st[x] = Fresh
      /\ \A k \in Slots : slot[k] <= made
      /\ \A j, k \in Slots : slot[j] = slot[k] => j = k
      /\ \A r \in Requests : s[r] <= made
  BY DEF OnlyMade
<1>1. CASE Tick
  BY <1>1, <1>m DEF Tick, OnlyMade
<1>2. ASSUME NEW x \in Ids, Deliver(x) PROVE OnlyMade'
  <2>1. ~(x > made)
    BY <1>2, <1>m DEF Deliver, Fresh
  <2>2. \A y \in Ids : y # x => st'[y] = st[y]
    BY <1>2, DeliverEffect
  <2> QED
    BY <1>2, <1>m, <2>1, <2>2 DEF Deliver, OnlyMade
<1>3. ASSUME NEW r \in Requests, Pick(r) PROVE OnlyMade'
  <2>1. next' \in Slots
    BY <1>t, <1>3, SetAssumption, Z3 DEF Pick, Slots
  <2> QED
    BY <1>t, <1>m, <1>3, <2>1 DEF Pick, OnlyMade
<1>4. ASSUME NEW r \in Requests, Sick(r) PROVE OnlyMade'
  <2>1. s[r] \in Ids /\ ~(s[r] > made)
    BY <1>t, <1>m
  <2>2. \A y \in Ids : y # s[r] => st'[y] = st[y]
    BY <1>4, SickEffect DEF Sampled
  <2> QED
    BY <1>4, <1>m, <2>1, <2>2 DEF Sick, OnlyMade
<1>5. ASSUME NEW r \in Requests, Swap(r) PROVE OnlyMade'
  <2>1. CASE Replaced(r)
    <3>1. /\ made' = made + 1 /\ st' = st
          /\ slot' = [slot EXCEPT ![i[r]] = made + 1] /\ s' = [s EXCEPT ![r] = made + 1]
      BY <1>5, <2>1 DEF Replaced, Swap
    <3>2. \A k \in Slots : slot'[k] = IF k = i[r] THEN made + 1 ELSE slot[k]
      BY <1>t, <3>1
    <3>3. \A q \in Requests : s'[q] = IF q = r THEN made + 1 ELSE s[q]
      BY <1>t, <3>1
    <3>4. \A k \in Slots : slot[k] \in Nat
      BY <1>t
    <3>5. \A q \in Requests : s[q] \in Nat
      BY <1>t
    <3>6. /\ \A x \in Ids : x > made' => st'[x] = Fresh
          /\ \A k \in Slots : slot'[k] <= made'
          /\ \A q \in Requests : s'[q] <= made'
      BY <1>t, <1>m, <3>1, <3>2, <3>3, <3>4, <3>5
    <3>7. \A j, k \in Slots : slot'[j] = slot'[k] => j = k
      BY <1>t, <1>m, <3>2, <3>4
    <3> QED
      BY <3>6, <3>7 DEF OnlyMade
  <2>2. CASE UNCHANGED <<slot, made, s>>
    BY <1>5, <1>m, <2>2 DEF OnlyMade, Swap
  <2> QED
    BY <1>5, <2>1, <2>2, SwapEffect
<1>6. ASSUME NEW r \in Requests, Reload(r) PROVE OnlyMade'
  BY <1>t, <1>m, <1>6 DEF Reload, OnlyMade
<1>7. ASSUME NEW r \in Requests, Start(r) PROVE OnlyMade'
  <2>1. s[r] \in Ids /\ ~(s[r] > made)
    BY <1>t, <1>m
  <2>2. \A y \in Ids : y # s[r] => st'[y] = st[y]
    BY <1>7, StartEffect DEF Started
  <2> QED
    BY <1>7, <1>m, <2>1, <2>2 DEF Start, OnlyMade
<1>8. ASSUME NEW r \in Requests, Fails(r) \/ Close(r) PROVE OnlyMade'
  <2>1. s[r] \in Ids /\ ~(s[r] > made)
    BY <1>t, <1>m
  <2>2. \A y \in Ids : y # s[r] => st'[y] = st[y]
    BY <1>8, ExitEffect DEF Left
  <2> QED
    BY <1>8, <1>m, <2>1, <2>2 DEF Fails, Close, OnlyMade
<1>9. ASSUME NEW r \in Requests, Responds(r) \/ Return(r) PROVE OnlyMade'
  BY <1>9, <1>m DEF Responds, Return, OnlyMade
<1> QED
  BY <1>1, <1>2, <1>3, <1>4, <1>5, <1>6, <1>7, <1>8, <1>9 DEF Next, RoundTrip

LEMMA NextOwnSlot ==
  ASSUME TypeOK, OnlyMade, OwnSlot, Next
  PROVE  OwnSlot'
<1>t. /\ slot \in [Slots -> Ids] /\ made \in Nat /\ next \in Slots
      /\ pc \in [Requests -> Labels]
      /\ i \in [Requests -> Slots] /\ s \in [Requests -> Ids]
      /\ \A x \in Ids : x \in Nat
  BY SetAssumption DEF TypeOK, Ids
<1>m. /\ \A j, k \in Slots : slot[j] = slot[k] => j = k
      /\ \A r \in Requests : s[r] <= made
      /\ \A r \in Requests : pc[r] # "idle" =>
           \A k \in Slots : slot[k] = s[r] => k = i[r]
  BY DEF OnlyMade, OwnSlot
<1>1. CASE Tick
  BY <1>1, <1>m DEF Tick, OwnSlot
<1>2. ASSUME NEW x \in Ids, Deliver(x) PROVE OwnSlot'
  BY <1>2, <1>m DEF Deliver, OwnSlot
<1>3. ASSUME NEW r \in Requests, Pick(r) PROVE OwnSlot'
  <2>1. next' \in Slots
    BY <1>t, <1>3, SetAssumption, Z3 DEF Pick, Slots
  <2> QED
    BY <1>t, <1>m, <1>3, <2>1 DEF Pick, OwnSlot, Goto
<1>4. ASSUME NEW r \in Requests, Swap(r) PROVE OwnSlot'
  <2>1. CASE Replaced(r)
    <3>1. /\ slot' = [slot EXCEPT ![i[r]] = made + 1] /\ s' = [s EXCEPT ![r] = made + 1]
          /\ i' = i /\ pc' = [pc EXCEPT ![r] = "start"] /\ pc[r] = "swap"
      BY <1>4, <2>1 DEF Replaced, Swap
    <3>2. \A k \in Slots : slot'[k] = IF k = i[r] THEN made + 1 ELSE slot[k]
      BY <1>t, <3>1
    <3>3. \A q \in Requests : s'[q] = IF q = r THEN made + 1 ELSE s[q]
      BY <1>t, <3>1
    <3>4. \A q \in Requests : s[q] # made + 1
      BY <1>t, <1>m
    <3>5. \A k \in Slots : slot[k] # made + 1
      BY <1>t DEF OnlyMade
    <3> QED
      BY <1>t, <1>m, <3>1, <3>2, <3>3, <3>4, <3>5 DEF OwnSlot
  <2>2. CASE UNCHANGED <<slot, s>>
    BY <1>t, <1>4, <1>m, <2>2 DEF OwnSlot, Swap, Goto
  <2> QED
    BY <1>4, <2>1, <2>2, SwapEffect
<1>5. ASSUME NEW r \in Requests, Reload(r) PROVE OwnSlot'
  BY <1>t, <1>m, <1>5 DEF Reload, OwnSlot, Goto
<1>6. ASSUME NEW r \in Requests,
             Sick(r) \/ Start(r) \/ Fails(r) \/ Responds(r) \/ Close(r) \/ Return(r)
      PROVE  OwnSlot'
  <2>1. /\ UNCHANGED <<slot, i, s>>
        /\ \A q \in Requests : pc'[q] # "idle" => pc[q] # "idle"
    BY <1>t, <1>6 DEF Sick, Start, Fails, Responds, Close, Return, Goto
  <2> QED
    BY <1>m, <2>1 DEF OwnSlot
<1> QED
  BY <1>1, <1>2, <1>3, <1>4, <1>5, <1>6 DEF Next, RoundTrip

(* Who is on which stripe changes only when a request starts or leaves.    *)
LEMMA NextInflightExact ==
  ASSUME TypeOK, InflightExact, ClosedOnce, Next
  PROVE  InflightExact'
<1>t. /\ pc \in [Requests -> Labels] /\ s \in [Requests -> Ids]
      /\ done \in [Requests -> BOOLEAN]
  BY DEF TypeOK
<1>e. \A x \in Ids : st[x].inflight = Cardinality(On(x)) /\ IsFiniteSet(On(x))
  BY SetAssumption, FS_Subset DEF InflightExact, On
<1>s. SUFFICES \A x \in Ids : st'[x].inflight = Cardinality(On(x)')
  BY DEF InflightExact, On
<1>1. CASE Tick
  <2>1. \A x \in Ids : On(x)' = On(x)
    BY <1>1 DEF Tick, On
  <2> QED
    BY <1>1, <1>e, <2>1 DEF Tick
<1>2. ASSUME NEW x \in Ids, Deliver(x)
      PROVE  \A y \in Ids : st'[y].inflight = Cardinality(On(y)')
  <2>1. \A y \in Ids : On(y)' = On(y)
    BY <1>2 DEF Deliver, On
  <2>2. \A y \in Ids : st'[y].inflight = st[y].inflight
    BY <1>2, DeliverEffect
  <2> QED
    BY <1>e, <2>1, <2>2
<1>3. ASSUME NEW r \in Requests,
             Pick(r) \/ Sick(r) \/ Swap(r) \/ Reload(r) \/ Responds(r) \/ Return(r)
      PROVE  \A y \in Ids : st'[y].inflight = Cardinality(On(y)')
  <2>1. \A y \in Ids : On(y)' = On(y)
    <3>1. /\ \A q \in Requests : (pc'[q] \in {"trip", "body"} /\ ~done'[q])
                                   <=> (pc[q] \in {"trip", "body"} /\ ~done[q])
          /\ \A q \in Requests : pc'[q] \in {"trip", "body"} => s'[q] = s[q]
      BY <1>t, <1>3 DEF Pick, Sick, Swap, Replace, Reload, Responds, Return, Goto
    <3> QED
      BY <3>1 DEF On
  <2>2. \A y \in Ids : st'[y].inflight = st[y].inflight
    <3>1. CASE Sick(r)
      BY <3>1, SickEffect DEF Sampled
    <3>2. CASE ~Sick(r)
      BY <1>3, <3>2 DEF Pick, Swap, Reload, Responds, Return
    <3> QED
      BY <3>1, <3>2
  <2> QED
    BY <1>e, <2>1, <2>2
<1>4. ASSUME NEW r \in Requests, Start(r)
      PROVE  \A y \in Ids : st'[y].inflight = Cardinality(On(y)')
  <2>1. \A y \in Ids : y = s[r] => r \notin On(y) /\ On(y)' = On(y) \cup {r}
    BY <1>t, <1>4 DEF Start, Goto, On, ClosedOnce
  <2>2. \A y \in Ids \ {s[r]} : On(y)' = On(y)
    BY <1>t, <1>4 DEF Start, Goto, On
  <2>3. \A y \in Ids : y = s[r] => Cardinality(On(y)') = Cardinality(On(y)) + 1
    BY <1>e, <2>1, FS_AddElement
  <2>4. /\ st'[s[r]].inflight = st[s[r]].inflight + 1
        /\ \A y \in Ids \ {s[r]} : st'[y] = st[y]
    BY <1>4, StartEffect DEF Started
  <2>5. ASSUME NEW y \in Ids PROVE st'[y].inflight = Cardinality(On(y)')
    <3>1. CASE y = s[r]
      BY <1>e, <2>3, <2>4, <3>1
    <3>2. CASE y # s[r]
      BY <1>e, <2>2, <2>4, <3>2
    <3> QED
      BY <3>1, <3>2
  <2> QED
    BY <2>5
<1>5. ASSUME NEW r \in Requests, Fails(r) \/ (Close(r) /\ ~done[r])
      PROVE  \A y \in Ids : st'[y].inflight = Cardinality(On(y)')
  <2>1. s[r] \in Ids /\ r \in On(s[r]) /\ Left(r, st[s[r]].inflight - 1)
    BY <1>t, <1>5, FailsEffect, CloseEffect
  <2>2. \A y \in Ids : y = s[r] => On(y)' = On(y) \ {r}
    BY <1>t, <1>5 DEF Fails, Close, Goto, On
  <2>3. \A y \in Ids \ {s[r]} : On(y)' = On(y)
    BY <1>t, <1>5 DEF Fails, Close, Goto, On
  <2>4. \A y \in Ids : y = s[r] => Cardinality(On(y)') = Cardinality(On(y)) - 1
    BY <1>e, <2>1, <2>2, FS_RemoveElement
  <2>5. /\ st'[s[r]].inflight = st[s[r]].inflight - 1
        /\ \A y \in Ids \ {s[r]} : st'[y] = st[y]
    BY <2>1 DEF Left
  <2>6. ASSUME NEW y \in Ids PROVE st'[y].inflight = Cardinality(On(y)')
    <3>1. CASE y = s[r]
      BY <1>e, <2>4, <2>5, <3>1
    <3>2. CASE y # s[r]
      BY <1>e, <2>3, <2>5, <3>2
    <3> QED
      BY <3>1, <3>2
  <2> QED
    BY <2>6
<1>6. ASSUME NEW r \in Requests, Close(r), done[r]
      PROVE  \A y \in Ids : st'[y].inflight = Cardinality(On(y)')
  <2>1. \A y \in Ids : On(y)' = On(y)
    BY <1>t, <1>6 DEF Close, On
  <2> QED
    BY <1>e, <1>6, <2>1 DEF Close
<1> QED
  BY <1>1, <1>2, <1>3, <1>4, <1>5, <1>6 DEF Next, RoundTrip

-----------------------------------------------------------------------------
(* The sampler.  A sample that is below the floor extends the slow stretch *)
(* by its own.                                                             *)
LEMMA NextSampledSlow ==
  ASSUME TypeOK, InflightExact, ClosedOnce, OnlyMade, SampledSlow, Next
  PROVE  SampledSlow'
<1> DEFINE Slow(x) ==
      /\ st[x].checkedAt <= now /\ st[x].checkBytes <= st[x].bytes
      /\ st[x].belowSince # Never =>
           /\ st[x].checkedAt # Never /\ st[x].belowSince <= st[x].checkedAt
           /\ st[x].checkBytes - seen[x].base
                < Floor * (st[x].checkedAt - st[x].belowSince)
<1>i. \A x \in Ids : Slow(x)
  BY DEF SampledSlow
<1>s. SUFFICES ASSUME NEW x \in Ids PROVE Slow(x)'
  BY DEF SampledSlow
<1>t. /\ st[x].inflight \in Nat /\ st[x].bytes \in Nat /\ st[x].checkedAt \in Time
      /\ st[x].checkBytes \in Nat /\ st[x].belowSince \in Time
      /\ seen[x].base \in Nat /\ now \in Nat /\ Floor \in Nat \ {0}
  BY FieldTypes, SetAssumption DEF TypeOK
<1>r. ASSUME now' = now,
             st'[x].bytes = st[x].bytes, st'[x].checkedAt = st[x].checkedAt,
             st'[x].checkBytes = st[x].checkBytes, st'[x].belowSince = st[x].belowSince,
             seen'[x].base = seen[x].base
      PROVE  Slow(x)'
  BY <1>i, <1>r
<1>1. CASE Tick
  <2>1. st' = st /\ now' = now + 1 /\ seen'[x].base = seen[x].base
    BY <1>1, TickEffect
  <2> QED
    BY <1>i, <1>t, <2>1 DEF Time, Never
<1>2. ASSUME NEW y \in Ids, Deliver(y) PROVE Slow(x)'
  <2>1. /\ st'[x].checkedAt = st[x].checkedAt /\ st'[x].checkBytes = st[x].checkBytes
        /\ st'[x].belowSince = st[x].belowSince /\ seen'[x].base = seen[x].base
        /\ st'[x].bytes >= st[x].bytes /\ st'[x].bytes \in Nat
    BY <1>2, DeliverEffect DEF Stripe
  <2>2. now' = now
    BY <1>2 DEF Deliver
  <2> QED
    BY <1>i, <1>t, <2>1, <2>2
<1>3. ASSUME NEW r \in Requests, Sick(r) PROVE Slow(x)'
  <2>0. now' = now
    BY <1>3 DEF Sick
  <2>1. CASE UNCHANGED <<st, seen>> \/ x # s[r]
    <3>1. st'[x] = st[x] /\ seen'[x] = seen[x]
      BY <1>3, <2>1, SickEffect DEF Sampled
    <3> QED
      BY <1>r, <2>0, <3>1
  <2>2. CASE x = s[r] /\ Sampled(r)
    <3>1. /\ st'[x].checkedAt = now /\ st'[x].checkBytes = st[x].bytes
          /\ st'[x].belowSince = Since(x) /\ st'[x].bytes = st[x].bytes
          /\ seen'[x].base = IF Since(x) = Never THEN 0
                             ELSE IF st[x].belowSince = Never THEN st[x].checkBytes
                             ELSE seen[x].base
      BY <2>2 DEF Sampled
    <3>2. CASE Since(x) = Never
      BY <1>t, <2>0, <3>1, <3>2
    <3>3. CASE Since(x) # Never
      <4>1. Below(x)
        BY <3>3 DEF Since
      <4>2. /\ st[x].checkedAt # Never /\ st[x].checkedAt \in Nat
            /\ st[x].bytes - st[x].checkBytes < Floor * (now - st[x].checkedAt)
        BY <1>t, <4>1 DEF Below, Elapsed, Time
      <4>3. CASE st[x].belowSince = Never
        <5>1. Since(x) = st[x].checkedAt /\ seen'[x].base = st[x].checkBytes
          BY <3>1, <3>3, <4>1, <4>3 DEF Since
        <5> QED
          BY <1>i, <1>t, <2>0, <3>1, <4>2, <5>1 DEF Never
      <4>4. CASE st[x].belowSince # Never
        <5>1. Since(x) = st[x].belowSince /\ seen'[x].base = seen[x].base
          BY <3>1, <3>3, <4>1, <4>4 DEF Since
        <5>2. st[x].belowSince \in Nat /\ st[x].belowSince <= st[x].checkedAt
          BY <1>i, <1>t, <4>4 DEF Time
        <5>3. st[x].checkBytes - seen[x].base < Floor * (st[x].checkedAt - st[x].belowSince)
          BY <1>i, <4>4
        <5>4. Floor * (now - st[x].belowSince)
                = Floor * (now - st[x].checkedAt) + Floor * (st[x].checkedAt - st[x].belowSince)
          BY <1>t, <4>2, <5>2, Z3
        <5>5. st[x].bytes - seen[x].base < Floor * (now - st[x].belowSince)
          BY <1>t, <4>2, <5>2, <5>3, <5>4
        <5> QED
          BY <1>i, <1>t, <2>0, <3>1, <4>2, <5>1, <5>2, <5>5 DEF Never
      <4> QED
        BY <4>3, <4>4
    <3> QED
      BY <3>2, <3>3
  <2> QED
    BY <1>3, <2>1, <2>2, SickEffect
<1>4. ASSUME NEW r \in Requests, Swap(r) PROVE Slow(x)'
  <2>0. now' = now /\ st' = st
    BY <1>4 DEF Swap
  <2>1. CASE Replaced(r) /\ x = made'
    <3>1. st[x] = Fresh
      BY <2>1, SetAssumption DEF Replaced, OnlyMade, TypeOK
    <3>2. st[x].belowSince = Never
      BY <3>1 DEF Fresh
    <3> QED
      BY <1>i, <2>0, <3>2
  <2>2. CASE ~(Replaced(r) /\ x = made')
    <3>1. seen'[x] = seen[x]
      BY <1>4, <2>2, SwapEffect DEF Replaced
    <3> QED
      BY <1>r, <2>0, <3>1
  <2> QED
    BY <2>1, <2>2
<1>5. ASSUME NEW r \in Requests, Reload(r) PROVE Slow(x)'
  <2>1. now' = now /\ st' = st /\ seen'[x].base = seen[x].base
    BY <1>5, ReloadEffect DEF Reload, Joined
  <2> QED
    BY <1>r, <2>1
<1>6. ASSUME NEW r \in Requests, Start(r) PROVE Slow(x)'
  BY <1>r, <1>6, StartEffect DEF Start, Started
<1>7. ASSUME NEW r \in Requests, Fails(r) \/ Close(r) PROVE Slow(x)'
  <2>1. PICK n \in Nat : Left(r, n)
    BY <1>7, ExitEffect
  <2>2. now' = now
    BY <1>7 DEF Fails, Close
  <2> QED
    BY <1>r, <2>1, <2>2 DEF Left
<1>8. ASSUME NEW r \in Requests, Pick(r) \/ Responds(r) \/ Return(r) PROVE Slow(x)'
  BY <1>r, <1>8 DEF Pick, Responds, Return
<1> QED
  BY <1>1, <1>2, <1>3, <1>4, <1>5, <1>6, <1>7, <1>8 DEF Next, RoundTrip

LEMMA NextUsedWhenLooked ==
  ASSUME TypeOK, InflightExact, ClosedOnce, OnlyMade, SampledSlow, UsedWhenLooked, Next
  PROVE  UsedWhenLooked'
<1> DEFINE Used(x) ==
      /\ seen[x].rested <= now /\ seen[x].busy <= now /\ seen[x].joined <= now
      /\ st[x].inflight > 0 => seen[x].busy = now
      /\ \/ st[x].checkedAt <= seen[x].busy
         \/ \E r \in Requests : pc[r] = "start" /\ s[r] = x
    Looked(x) ==
      seen[x].joined = now \/ st[x].checkedAt = Never \/ now - st[x].checkedAt < Quarter
<1>i. /\ \A x \in Ids : Used(x)
      /\ \A r \in Requests : pc[r] = "start" => Looked(s[r])
  BY DEF UsedWhenLooked
<1>g. ASSUME \A x \in Ids : Used(x)', \A r \in Requests : pc'[r] = "start" => Looked(s[r])'
      PROVE  UsedWhenLooked'
  BY <1>g DEF UsedWhenLooked
<1>p. pc \in [Requests -> Labels] /\ s \in [Requests -> Ids] /\ now \in Nat
  BY DEF TypeOK
<1>t. \A x \in Ids :
        /\ st[x].inflight \in Nat /\ st[x].checkedAt \in Time /\ st[x].checkedAt <= now
        /\ seen[x].busy \in Nat /\ seen[x].rested \in Nat /\ seen[x].joined \in Time
  BY FieldTypes DEF SampledSlow
<1>q. Quarter \in Nat /\ Quarter >= 1
  BY QuarterType
<1>1. CASE Tick
  <2>0. /\ now' = now + 1 /\ UNCHANGED <<st, pc, s>>
        /\ \A r \in Requests : pc[r] # "start"
    BY <1>1 DEF Tick
  <2>1. ASSUME NEW x \in Ids PROVE Used(x)'
    <3>1. /\ seen'[x].joined = seen[x].joined
          /\ st[x].inflight > 0 => seen'[x].busy = now' /\ seen'[x].rested = seen[x].rested
          /\ ~(st[x].inflight > 0) => /\ seen'[x].busy = seen[x].busy
                                      /\ seen'[x].rested = now' \/ seen'[x].rested = seen[x].rested
      BY <1>1, TickEffect
    <3> QED
      BY <1>i, <1>t, <1>p, <2>0, <3>1 DEF Time, Never
  <2> QED
    BY <1>g, <2>0, <2>1
<1>2. ASSUME NEW y \in Ids, Deliver(y) PROVE UsedWhenLooked'
  <2>0. UNCHANGED <<now, pc, s>>
    BY <1>2 DEF Deliver
  <2>1. \A x \in Ids :
          /\ st'[x].inflight = st[x].inflight /\ st'[x].checkedAt = st[x].checkedAt
          /\ seen'[x].busy = seen[x].busy /\ seen'[x].rested = seen[x].rested
          /\ seen'[x].joined = seen[x].joined
    BY <1>2, DeliverEffect
  <2> QED
    BY <1>g, <1>i, <1>p, <2>0, <2>1
<1>3. ASSUME NEW r \in Requests, Sick(r) PROVE UsedWhenLooked'
  <2>0. UNCHANGED <<now, s>> /\ pc[r] = "sick"
    BY <1>3 DEF Sick
  <2>1. CASE Sampled(r)
    <3> DEFINE l == IF Since(s[r]) # Never /\ now - Since(s[r]) >= Window THEN "swap" ELSE "start"
    <3>1. /\ pc' = [pc EXCEPT ![r] = l]
          /\ st'[s[r]].checkedAt = now /\ st'[s[r]].inflight = st[s[r]].inflight
          /\ seen'[s[r]].busy = seen[s[r]].busy /\ seen'[s[r]].rested = seen[s[r]].rested
          /\ seen'[s[r]].joined = seen[s[r]].joined
          /\ \A y \in Ids \ {s[r]} : st'[y] = st[y] /\ seen'[y] = seen[y]
      BY <2>1 DEF Sampled
    <3>2. l \in {"swap", "start"} /\ (l = "swap" => st[s[r]].inflight > 0)
      BY DEF Since, Below
    <3> HIDE DEF l
    <3>3. /\ pc'[r] = l
          /\ \A q \in Requests \ {r} : pc'[q] = pc[q]
      BY <1>p, <3>1
    <3>4. ASSUME NEW x \in Ids PROVE Used(x)'
      <4>1. CASE x = s[r]
        <5>1. st'[x].inflight > 0 => seen'[x].busy = now
          BY <1>i, <3>1, <4>1
        <5>2. CASE l = "start"
          BY <1>i, <2>0, <3>1, <3>3, <4>1, <5>1, <5>2
        <5>3. CASE l = "swap"
          BY <1>i, <1>p, <2>0, <3>1, <3>2, <4>1, <5>1, <5>3
        <5> QED
          BY <3>2, <5>2, <5>3
      <4>2. CASE x # s[r]
        BY <1>i, <2>0, <3>1, <3>3, <4>2
      <4> QED
        BY <4>1, <4>2
    <3>5. ASSUME NEW q \in Requests, pc'[q] = "start" PROVE Looked(s[q])'
      <4>1. CASE s[q] = s[r]
        BY <1>p, <1>q, <2>0, <3>1, <4>1
      <4>2. CASE s[q] # s[r]
        BY <1>i, <1>p, <2>0, <3>1, <3>3, <3>5, <4>2
      <4> QED
        BY <4>1, <4>2
    <3> QED
      BY <1>g, <3>4, <3>5
  <2>2. CASE ~Samples(s[r]) /\ UNCHANGED <<st, seen>> /\ pc' = [pc EXCEPT ![r] = "start"]
    <3>1. \A q \in Requests : pc'[q] = IF q = r THEN "start" ELSE pc[q]
      BY <1>p, <2>2
    <3>2. Looked(s[r])
      BY <1>p, <1>q, <1>t, <2>2 DEF Samples, Elapsed, Time, Never
    <3> HIDE DEF Looked
    <3>3. \A x \in Ids : Used(x)'
      BY <1>i, <2>0, <2>2, <3>1
    <3>4. \A x \in Ids : Looked(x)' = Looked(x)
      BY <2>0, <2>2 DEF Looked
    <3> QED
      BY <1>g, <1>i, <1>p, <2>0, <3>1, <3>2, <3>3, <3>4
  <2> QED
    BY <1>3, <2>1, <2>2, SickEffect
<1>4. ASSUME NEW r \in Requests, Swap(r) PROVE UsedWhenLooked'
  <2>0. UNCHANGED <<now, st>> /\ pc[r] = "swap"
    BY <1>4 DEF Swap
  <2>1. CASE Replaced(r)
    <3>1. /\ \A q \in Requests : pc'[q] = IF q = r THEN "start" ELSE pc[q]
          /\ \A q \in Requests : s'[q] = IF q = r THEN made' ELSE s[q]
          /\ made' \in Ids
      BY <1>p, <2>1 DEF Replaced
    <3>2. st[made'] = Fresh
      BY <2>1, SetAssumption DEF Replaced, OnlyMade, TypeOK
    <3>3. st[made'].checkedAt = Never /\ st[made'].inflight = 0
      BY <3>2 DEF Fresh
    <3>4. /\ seen'[made'].busy = now /\ seen'[made'].rested = now /\ seen'[made'].joined = Never
          /\ \A y \in Ids \ {made'} : seen'[y] = seen[y]
      BY <2>1 DEF Replaced, Seen
    <3>5. \A q \in Requests : s[q] # made'
      <4>1. \A q \in Requests : s[q] <= made /\ s[q] \in Nat /\ made \in Nat /\ made' = made + 1
        BY <1>p, <2>1, SetAssumption DEF OnlyMade, TypeOK, Replaced, Ids
      <4> QED
        BY <4>1
    <3>6. ASSUME NEW x \in Ids PROVE Used(x)'
      <4>1. CASE x = made'
        BY <1>p, <2>0, <3>3, <3>4, <4>1 DEF Never
      <4>2. CASE x # made'
        BY <1>i, <2>0, <3>1, <3>4, <4>2
      <4> QED
        BY <4>1, <4>2
    <3>7. ASSUME NEW q \in Requests, pc'[q] = "start" PROVE Looked(s[q])'
      BY <1>i, <1>p, <2>0, <3>1, <3>3, <3>4, <3>5, <3>7
    <3> QED
      BY <1>g, <3>6, <3>7
  <2>2. CASE pc' = [pc EXCEPT ![r] = "reload"] /\ UNCHANGED <<s, seen>>
    <3>1. \A q \in Requests : pc'[q] = IF q = r THEN "reload" ELSE pc[q]
      BY <1>p, <2>2
    <3> QED
      BY <1>g, <1>i, <1>p, <2>0, <2>2, <3>1
  <2> QED
    BY <1>4, <2>1, <2>2, SwapEffect
<1>5. ASSUME NEW r \in Requests, Reload(r) PROVE UsedWhenLooked'
  <2>0. UNCHANGED <<now, st>> /\ pc[r] = "reload" /\ slot[i[r]] \in Ids
    BY <1>5 DEF Reload, TypeOK
  <2>1. /\ \A q \in Requests : pc'[q] = IF q = r THEN "start" ELSE pc[q]
        /\ \A q \in Requests : s'[q] = IF q = r THEN slot[i[r]] ELSE s[q]
    BY <1>p, <1>5 DEF Reload, Goto
  <2>2. /\ seen'[slot[i[r]]].joined = now
        /\ seen'[slot[i[r]]].busy = seen[slot[i[r]]].busy
        /\ seen'[slot[i[r]]].rested = seen[slot[i[r]]].rested
        /\ \A y \in Ids \ {slot[i[r]]} : seen'[y] = seen[y]
    BY <1>5, ReloadEffect DEF Joined
  <2>3. ASSUME NEW x \in Ids PROVE Used(x)'
    <3>1. seen'[x].busy = seen[x].busy /\ seen'[x].rested = seen[x].rested
      BY <2>2
    <3>2. seen'[x].joined <= now
      BY <1>i, <1>p, <2>2
    <3> QED
      BY <1>i, <2>0, <2>1, <3>1, <3>2
  <2>4. ASSUME NEW q \in Requests, pc'[q] = "start" PROVE Looked(s[q])'
    BY <1>i, <1>p, <2>0, <2>1, <2>2, <2>4
  <2> QED
    BY <1>g, <2>3, <2>4
<1>6. ASSUME NEW r \in Requests, Start(r) PROVE UsedWhenLooked'
  <2>0. UNCHANGED <<now, s>> /\ pc[r] = "start"
    BY <1>6 DEF Start
  <2>1. \A q \in Requests : pc'[q] = IF q = r THEN "trip" ELSE pc[q]
    BY <1>p, <1>6 DEF Start, Goto
  <2>2. /\ st'[s[r]].checkedAt = st[s[r]].checkedAt
        /\ seen'[s[r]].busy = now /\ seen'[s[r]].rested = seen[s[r]].rested
        /\ seen'[s[r]].joined = seen[s[r]].joined
        /\ \A y \in Ids \ {s[r]} : st'[y] = st[y] /\ seen'[y] = seen[y]
    BY <1>6, StartEffect DEF Started
  <2>3. ASSUME NEW x \in Ids PROVE Used(x)'
    <3>1. CASE x = s[r]
      BY <1>i, <1>p, <1>t, <2>0, <2>2, <3>1
    <3>2. CASE x # s[r]
      BY <1>i, <2>0, <2>1, <2>2, <3>2
    <3> QED
      BY <3>1, <3>2
  <2>4. ASSUME NEW q \in Requests, pc'[q] = "start" PROVE Looked(s[q])'
    <3>1. /\ st'[s[q]].checkedAt = st[s[q]].checkedAt
          /\ seen'[s[q]].joined = seen[s[q]].joined
      BY <1>p, <2>2
    <3> QED
      BY <1>i, <1>p, <2>0, <2>1, <2>4, <3>1
  <2> QED
    BY <1>g, <2>3, <2>4
<1>7. ASSUME NEW r \in Requests, Fails(r) \/ Close(r) PROVE UsedWhenLooked'
  <2>1. PICK n \in Nat : n <= st[s[r]].inflight /\ Left(r, n)
    BY <1>7, ExitEffect
  <2>2. UNCHANGED <<now, s>> /\ \A q \in Requests : pc'[q] = "start" <=> pc[q] = "start"
    BY <1>p, <1>7 DEF Fails, Close, Goto
  <2>3. \A x \in Ids :
          /\ st'[x].inflight > 0 => st[x].inflight > 0
          /\ st'[x].checkedAt = st[x].checkedAt
          /\ seen'[x].busy = seen[x].busy /\ seen'[x].rested = seen[x].rested
          /\ seen'[x].joined = seen[x].joined
    BY <1>p, <1>t, <2>1 DEF Left
  <2> QED
    BY <1>g, <1>i, <1>p, <2>2, <2>3
<1>8. ASSUME NEW r \in Requests, Pick(r) \/ Responds(r) \/ Return(r) PROVE UsedWhenLooked'
  <2>1. /\ UNCHANGED <<now, st, seen>>
        /\ \A q \in Requests : pc'[q] = "start" <=> pc[q] = "start"
        /\ \A q \in Requests : pc[q] = "start" => s'[q] = s[q]
    BY <1>p, <1>8 DEF Pick, Responds, Return, Goto
  <2> QED
    BY <1>g, <1>i, <2>1
<1> QED
  BY <1>1, <1>2, <1>3, <1>4, <1>5, <1>6, <1>7, <1>8 DEF Next, RoundTrip

(* A rest is seen by the sampler: nobody is on the stripe when it begins,  *)
(* so its last sample is older than it, and the next request that comes to *)
(* the stripe takes a new one, with nothing in flight.                     *)
LEMMA NextRestsSeen ==
  ASSUME TypeOK, InflightExact, ClosedOnce, OnlyMade, SampledSlow, UsedWhenLooked,
         RestsSeen, Next
  PROVE  RestsSeen'
<1> DEFINE Unused(x) ==
      /\ st[x].inflight = 0
      /\ \A r \in Requests : ~(pc[r] = "start" /\ s[r] = x)
      /\ seen[x].rested - st[x].checkedAt >= Quarter
<1>s. SUFFICES ASSUME NEW x \in Ids PROVE StartsAgain(x)' \/ Unused(x)'
  BY DEF RestsSeen
<1>i. StartsAgain(x) \/ Unused(x)
  BY DEF RestsSeen
<1>p. pc \in [Requests -> Labels] /\ s \in [Requests -> Ids] /\ now \in Nat
  BY DEF TypeOK
<1>t. /\ st[x].inflight \in Nat /\ st[x].checkedAt \in Time /\ st[x].checkedAt <= now
      /\ st[x].belowSince \in Time
      /\ seen[x].busy \in Nat /\ seen[x].rested \in Nat /\ seen[x].joined \in Time
      /\ seen[x].rested <= now
      /\ st[x].inflight > 0 => seen[x].busy = now
  BY FieldTypes DEF SampledSlow, UsedWhenLooked
<1>q. Quarter \in Nat /\ Quarter >= 1
  BY QuarterType
<1>a. ASSUME st'[x].checkedAt = st[x].checkedAt, st'[x].belowSince = st[x].belowSince,
             seen'[x].rested = seen[x].rested, seen'[x].joined = seen[x].joined
      PROVE  StartsAgain(x)' = StartsAgain(x)
  BY <1>a DEF StartsAgain
<1>u. ASSUME st'[x].checkedAt = st[x].checkedAt, seen'[x].rested = seen[x].rested,
             st[x].inflight = 0 => st'[x].inflight = 0,
             \A q \in Requests : (pc'[q] = "start" /\ s'[q] = x) => (pc[q] = "start" /\ s[q] = x)
      PROVE  Unused(x) => Unused(x)'
  BY <1>u
<1>1. CASE Tick
  <2>0. /\ now' = now + 1 /\ UNCHANGED <<st, pc, s>>
        /\ \A r \in Requests : pc[r] # "start"
    BY <1>1 DEF Tick
  <2>1. seen'[x].joined = seen[x].joined
    BY <1>1, TickEffect
  <2>2. CASE seen'[x].rested = seen[x].rested
    BY <1>a, <1>i, <1>u, <2>0, <2>1, <2>2
  <2>3. CASE seen'[x].rested # seen[x].rested
    <3>1. /\ st[x].inflight = 0 /\ seen'[x].rested = now'
          /\ now' - seen[x].busy >= Quarter
      BY <1>1, <1>t, <2>3, TickEffect
    <3>2. st[x].checkedAt <= seen[x].busy
      BY <2>0 DEF UsedWhenLooked
    <3>3. seen'[x].rested - st'[x].checkedAt >= Quarter
      BY <1>p, <1>q, <1>t, <2>0, <3>1, <3>2 DEF Time, Never
    <3> QED
      BY <2>0, <3>1, <3>3
  <2> QED
    BY <2>2, <2>3
<1>2. ASSUME NEW y \in Ids, Deliver(y) PROVE StartsAgain(x)' \/ Unused(x)'
  <2>0. UNCHANGED <<now, pc, s>>
    BY <1>2 DEF Deliver
  <2>1. /\ st'[x].inflight = st[x].inflight /\ st'[x].checkedAt = st[x].checkedAt
        /\ st'[x].belowSince = st[x].belowSince
        /\ seen'[x].rested = seen[x].rested /\ seen'[x].joined = seen[x].joined
    BY <1>2, DeliverEffect
  <2> QED
    BY <1>a, <1>i, <1>u, <2>0, <2>1
<1>3. ASSUME NEW r \in Requests, Sick(r) PROVE StartsAgain(x)' \/ Unused(x)'
  <2>0. UNCHANGED <<now, s>> /\ pc[r] = "sick"
    BY <1>3 DEF Sick
  <2>1. CASE x # s[r]
    <3>1. st'[x] = st[x] /\ seen'[x] = seen[x]
      BY <1>3, <2>1, SickEffect DEF Sampled
    <3>2. \A q \in Requests : (pc'[q] = "start" /\ s'[q] = x) => (pc[q] = "start" /\ s[q] = x)
      BY <1>p, <1>3, <2>0, <2>1 DEF Sick, Goto
    <3> QED
      BY <1>a, <1>i, <1>u, <3>1, <3>2
  <2>2. CASE x = s[r] /\ Sampled(r)
    <3>1. /\ st'[x].checkedAt = now /\ st'[x].belowSince = Since(x)
          /\ seen'[x].rested = seen[x].rested /\ seen'[x].joined = seen[x].joined
      BY <2>2 DEF Sampled
    <3>2. CASE Since(x) = Never
      BY <1>t, <3>1, <3>2 DEF StartsAgain
    <3>3. CASE Since(x) # Never
      <4>1. /\ st[x].inflight > 0 /\ st[x].checkedAt # Never
            /\ Since(x) = IF st[x].belowSince = Never THEN st[x].checkedAt ELSE st[x].belowSince
        BY <3>3 DEF Since, Below
      <4>2. StartsAgain(x)
        BY <1>i, <4>1
      <4>3. \/ seen[x].joined >= seen[x].rested
            \/ Since(x) >= seen[x].rested
        BY <4>1, <4>2 DEF StartsAgain
      <4> QED
        BY <1>t, <3>1, <4>3 DEF StartsAgain
    <3> QED
      BY <3>2, <3>3
  <2>3. CASE x = s[r] /\ ~Samples(s[r]) /\ UNCHANGED <<st, seen>>
    <3>1. now - st[x].checkedAt < Quarter
      BY <1>p, <1>q, <1>t, <2>3 DEF Samples, Elapsed, Time, Never
    <3>2. ~(seen[x].rested - st[x].checkedAt >= Quarter)
      BY <1>p, <1>q, <1>t, <3>1 DEF Time, Never
    <3> QED
      BY <1>a, <1>i, <2>3, <3>2
  <2> QED
    BY <1>3, <2>1, <2>2, <2>3, SickEffect
<1>4. ASSUME NEW r \in Requests, Swap(r) PROVE StartsAgain(x)' \/ Unused(x)'
  <2>0. UNCHANGED <<now, st>> /\ pc[r] = "swap"
    BY <1>4 DEF Swap
  <2>1. CASE Replaced(r) /\ x = made'
    <3>1. st[x] = Fresh
      BY <2>1, SetAssumption DEF Replaced, OnlyMade, TypeOK
    <3>2. st'[x].checkedAt = Never
      BY <2>0, <3>1 DEF Fresh
    <3> QED
      BY <3>2 DEF StartsAgain
  <2>2. CASE ~(Replaced(r) /\ x = made')
    <3>1. seen'[x] = seen[x]
      BY <1>4, <2>2, SwapEffect DEF Replaced
    <3>2. \A q \in Requests : (pc'[q] = "start" /\ s'[q] = x) => (pc[q] = "start" /\ s[q] = x)
      BY <1>p, <1>4, <2>0, <2>2, SwapEffect DEF Replaced
    <3> QED
      BY <1>a, <1>i, <1>u, <2>0, <3>1, <3>2
  <2> QED
    BY <2>1, <2>2
<1>5. ASSUME NEW r \in Requests, Reload(r) PROVE StartsAgain(x)' \/ Unused(x)'
  <2>0. UNCHANGED <<now, st>> /\ slot[i[r]] \in Ids
    BY <1>5 DEF Reload, TypeOK
  <2>1. CASE x = slot[i[r]]
    <3>1. seen'[x].joined = now /\ seen'[x].rested = seen[x].rested
      BY <1>5, <2>1, ReloadEffect DEF Joined
    <3> QED
      BY <1>p, <1>t, <3>1 DEF StartsAgain
  <2>2. CASE x # slot[i[r]]
    <3>1. seen'[x] = seen[x]
      BY <1>5, <2>2, ReloadEffect DEF Joined
    <3>2. \A q \in Requests : (pc'[q] = "start" /\ s'[q] = x) => (pc[q] = "start" /\ s[q] = x)
      BY <1>p, <1>5, <2>2 DEF Reload, Goto
    <3> QED
      BY <1>a, <1>i, <1>u, <2>0, <3>1, <3>2
  <2> QED
    BY <2>1, <2>2
<1>6. ASSUME NEW r \in Requests, Start(r) PROVE StartsAgain(x)' \/ Unused(x)'
  <2>0. /\ UNCHANGED <<now, s>> /\ pc[r] = "start"
        /\ \A q \in Requests : pc'[q] = "start" => pc[q] = "start"
    BY <1>p, <1>6 DEF Start, Goto
  <2>1. /\ st'[x].checkedAt = st[x].checkedAt /\ st'[x].belowSince = st[x].belowSince
        /\ seen'[x].rested = seen[x].rested /\ seen'[x].joined = seen[x].joined
        /\ x # s[r] => st'[x] = st[x]
    BY <1>6, StartEffect DEF Started
  <2>2. CASE StartsAgain(x)
    BY <1>a, <2>1, <2>2
  <2>3. CASE Unused(x)
    BY <1>u, <2>0, <2>1, <2>3
  <2> QED
    BY <1>i, <2>2, <2>3
<1>7. ASSUME NEW r \in Requests, Fails(r) \/ Close(r) PROVE StartsAgain(x)' \/ Unused(x)'
  <2>1. PICK n \in Nat : n <= st[s[r]].inflight /\ Left(r, n)
    BY <1>7, ExitEffect
  <2>2. \A q \in Requests : (pc'[q] = "start" /\ s'[q] = x) => (pc[q] = "start" /\ s[q] = x)
    BY <1>p, <1>7 DEF Fails, Close, Goto
  <2>3. /\ st[x].inflight = 0 => st'[x].inflight = 0
        /\ st'[x].checkedAt = st[x].checkedAt /\ st'[x].belowSince = st[x].belowSince
        /\ seen'[x].rested = seen[x].rested /\ seen'[x].joined = seen[x].joined
    BY <1>t, <2>1 DEF Left
  <2> QED
    BY <1>a, <1>i, <1>u, <2>2, <2>3
<1>8. ASSUME NEW r \in Requests, Pick(r) \/ Responds(r) \/ Return(r)
      PROVE  StartsAgain(x)' \/ Unused(x)'
  <2>1. /\ UNCHANGED <<st, seen>>
        /\ \A q \in Requests : (pc'[q] = "start" /\ s'[q] = x) => (pc[q] = "start" /\ s[q] = x)
    BY <1>p, <1>8 DEF Pick, Responds, Return, Goto
  <2> QED
    BY <1>a, <1>i, <1>u, <2>1
<1> QED
  BY <1>1, <1>2, <1>3, <1>4, <1>5, <1>6, <1>7, <1>8 DEF Next, RoundTrip

(* With nothing delivered since the first sample, every later one is below *)
(* the floor, as the floor is positive and a sampling interval has passed. *)
LEMMA NextPinnedBelow ==
  ASSUME TypeOK, InflightExact, ClosedOnce, OnlyMade, SampledSlow, PinnedBelow, Next
  PROVE  PinnedBelow'
<1> DEFINE Pinned(x) == seen[x].probed # Never =>
      /\ st[x].inflight > 0 /\ st[x].checkBytes = st[x].bytes
      /\ seen[x].probed <= st[x].checkedAt
      /\ \/ st[x].checkedAt = seen[x].probed
         \/ st[x].belowSince # Never /\ st[x].belowSince <= seen[x].probed
<1>s. SUFFICES ASSUME NEW x \in Ids PROVE Pinned(x)'
  BY DEF PinnedBelow
<1>i. Pinned(x)
  BY DEF PinnedBelow
<1>t. /\ st[x].inflight \in Nat /\ st[x].bytes \in Nat /\ st[x].checkedAt \in Time
      /\ st[x].checkBytes \in Nat /\ st[x].belowSince \in Time
      /\ seen[x].probed \in Time /\ now \in Nat /\ s \in [Requests -> Ids]
      /\ st[x].checkedAt <= now
      /\ st[x].belowSince # Never => st[x].belowSince <= st[x].checkedAt
  BY FieldTypes DEF TypeOK, SampledSlow
<1>r. ASSUME st'[x].inflight >= st[x].inflight, st'[x].inflight \in Nat,
             st'[x].bytes = st[x].bytes, st'[x].checkedAt = st[x].checkedAt,
             st'[x].checkBytes = st[x].checkBytes, st'[x].belowSince = st[x].belowSince,
             seen'[x].probed = seen[x].probed
      PROVE  Pinned(x)'
  BY <1>i, <1>t, <1>r
<1>k. ASSUME st'[x] = st[x], seen'[x].probed = seen[x].probed PROVE Pinned(x)'
  BY <1>i, <1>k
<1>1. CASE Tick
  <2>1. /\ st' = st
        /\ st[x].inflight > 0 => seen'[x].probed = seen[x].probed
        /\ ~(st[x].inflight > 0) => seen'[x].probed = Never
    BY <1>1, TickEffect
  <2> QED
    BY <1>k, <2>1
<1>2. ASSUME NEW y \in Ids, Deliver(y) PROVE Pinned(x)'
  <2>1. CASE x = y
    BY <1>2, <2>1, DeliverEffect
  <2>2. CASE x # y
    BY <1>2, <1>k, <2>2, DeliverEffect
  <2> QED
    BY <2>1, <2>2
<1>3. ASSUME NEW r \in Requests, Sick(r) PROVE Pinned(x)'
  <2>1. CASE UNCHANGED <<st, seen>> \/ x # s[r]
    <3>1. st'[x] = st[x] /\ seen'[x] = seen[x]
      BY <1>3, <2>1, SickEffect DEF Sampled
    <3> QED
      BY <1>k, <3>1
  <2>2. CASE x = s[r] /\ Sampled(r)
    <3>1. /\ st'[x].checkedAt = now /\ st'[x].checkBytes = st[x].bytes
          /\ st'[x].belowSince = Since(x) /\ st'[x].bytes = st[x].bytes
          /\ st'[x].inflight = st[x].inflight
          /\ seen'[x].probed = IF st[x].inflight = 0 THEN Never
                               ELSE IF seen[x].probed = Never THEN now ELSE seen[x].probed
          /\ Samples(x)
      BY <2>2 DEF Sampled
    <3>2. CASE st[x].inflight = 0 \/ seen[x].probed = Never
      BY <1>t, <3>1, <3>2
    <3>3. CASE st[x].inflight # 0 /\ seen[x].probed # Never
      <4>1. /\ seen[x].probed \in Nat /\ st[x].checkedAt \in Nat
            /\ st[x].checkBytes = st[x].bytes /\ st[x].inflight > 0
            /\ seen[x].probed <= st[x].checkedAt
        BY <1>i, <1>t, <3>3 DEF Time, Never
      <4>2. Elapsed(x) \in Nat /\ Elapsed(x) >= 1
        BY <1>t, <3>1, <4>1, QuarterType DEF Samples, Elapsed, Never
      <4>3. Floor * Elapsed(x) > 0
        BY <4>2, SetAssumption, Z3
      <4>4. Below(x)
        BY <1>t, <4>1, <4>3 DEF Below, Never
      <4>5. Since(x) = IF st[x].belowSince = Never THEN st[x].checkedAt ELSE st[x].belowSince
        BY <4>4 DEF Since
      <4>6. Since(x) # Never /\ Since(x) <= seen[x].probed
        BY <1>i, <1>t, <3>3, <4>1, <4>5 DEF Time, Never
      <4>7. seen'[x].probed = seen[x].probed
        BY <3>1, <3>3
      <4> QED
        BY <1>t, <3>1, <4>1, <4>6, <4>7
    <3> QED
      BY <3>2, <3>3
  <2> QED
    BY <1>3, <2>1, <2>2, SickEffect
<1>4. ASSUME NEW r \in Requests, Swap(r) PROVE Pinned(x)'
  <2>0. st' = st
    BY <1>4 DEF Swap
  <2>1. CASE Replaced(r) /\ x = made'
    BY <2>1 DEF Replaced, Seen
  <2>2. CASE ~(Replaced(r) /\ x = made')
    <3>1. seen'[x] = seen[x]
      BY <1>4, <2>2, SwapEffect DEF Replaced
    <3> QED
      BY <1>k, <2>0, <3>1
  <2> QED
    BY <2>1, <2>2
<1>5. ASSUME NEW r \in Requests, Reload(r) PROVE Pinned(x)'
  <2>1. st' = st /\ seen'[x].probed = seen[x].probed
    BY <1>5, ReloadEffect DEF Reload, Joined
  <2> QED
    BY <1>k, <2>1
<1>6. ASSUME NEW r \in Requests, Start(r) PROVE Pinned(x)'
  <2>1. CASE x = s[r]
    BY <1>6, <1>r, <1>t, <2>1, StartEffect DEF Started
  <2>2. CASE x # s[r]
    BY <1>6, <1>k, <2>2, StartEffect DEF Started
  <2> QED
    BY <2>1, <2>2
<1>7. ASSUME NEW r \in Requests, Fails(r) \/ Close(r) PROVE Pinned(x)'
  <2>1. PICK n \in Nat : Left(r, n)
    BY <1>7, ExitEffect
  <2>2. CASE x # s[r]
    BY <1>k, <2>1, <2>2 DEF Left
  <2>3. CASE x = s[r] /\ n = 0
    BY <2>1, <2>3 DEF Left
  <2>4. CASE x = s[r] /\ n # 0
    <3>1. /\ st'[x].inflight > 0
          /\ st'[x].bytes = st[x].bytes /\ st'[x].checkedAt = st[x].checkedAt
          /\ st'[x].checkBytes = st[x].checkBytes /\ st'[x].belowSince = st[x].belowSince
          /\ seen'[x].probed = seen[x].probed
      BY <2>1, <2>4 DEF Left
    <3> QED
      BY <1>i, <3>1
  <2> QED
    BY <2>2, <2>3, <2>4
<1>8. ASSUME NEW r \in Requests, Pick(r) \/ Responds(r) \/ Return(r) PROVE Pinned(x)'
  BY <1>k, <1>8 DEF Pick, Responds, Return
<1> QED
  BY <1>1, <1>2, <1>3, <1>4, <1>5, <1>6, <1>7, <1>8 DEF Next, RoundTrip

(* Who condemns a stripe goes on to replace it, or finds it gone.          *)
LEMMA NextCondemnedLeaves ==
  ASSUME TypeOK, InflightExact, ClosedOnce, OnlyMade, OwnSlot, CondemnedLeaves, Next
  PROVE  CondemnedLeaves'
<1> DEFINE Condemned(x) ==
      st[x].belowSince # Never /\ st[x].checkedAt - st[x].belowSince >= Window
    Leaving(x) ==
      \/ \A k \in Slots : slot[k] # x
      \/ \E q \in Requests : pc[q] = "swap" /\ s[q] = x
<1>s. SUFFICES ASSUME NEW x \in Ids, Condemned(x)' PROVE Leaving(x)'
  BY DEF CondemnedLeaves
<1>i. Condemned(x) => Leaving(x)
  BY DEF CondemnedLeaves
<1>p. /\ pc \in [Requests -> Labels] /\ s \in [Requests -> Ids] /\ slot \in [Slots -> Ids]
      /\ i \in [Requests -> Slots]
  BY DEF TypeOK
<1>k. ASSUME st'[x].belowSince = st[x].belowSince, st'[x].checkedAt = st[x].checkedAt,
             slot' = slot,
             \A q \in Requests : (pc[q] = "swap" /\ s[q] = x) => (pc'[q] = "swap" /\ s'[q] = x)
      PROVE  Leaving(x)'
  BY <1>i, <1>k, <1>s
<1>1. CASE Tick
  BY <1>1, <1>k DEF Tick
<1>2. ASSUME NEW y \in Ids, Deliver(y) PROVE Leaving(x)'
  BY <1>2, <1>k, DeliverEffect DEF Deliver
<1>3. ASSUME NEW r \in Requests, Sick(r) PROVE Leaving(x)'
  <2>0. UNCHANGED <<slot, s>> /\ pc[r] = "sick"
    BY <1>3 DEF Sick
  <2>1. \A q \in Requests \ {r} : pc'[q] = pc[q]
    BY <1>p, <1>3 DEF Sick, Goto
  <2>2. CASE UNCHANGED <<st, seen>> \/ x # s[r]
    <3>1. st'[x] = st[x]
      BY <1>3, <2>2, SickEffect DEF Sampled
    <3> QED
      BY <1>k, <2>0, <2>1, <3>1
  <2>3. CASE x = s[r] /\ Sampled(r)
    <3>1. /\ st'[x].belowSince = Since(x) /\ st'[x].checkedAt = now
          /\ pc' = [pc EXCEPT ![r] = IF Since(x) # Never /\ now - Since(x) >= Window
                                     THEN "swap" ELSE "start"]
      BY <2>3 DEF Sampled
    <3>2. pc'[r] = "swap"
      BY <1>p, <1>s, <3>1
    <3> QED
      BY <2>0, <2>3, <3>2
  <2> QED
    BY <1>3, <2>2, <2>3, SickEffect
<1>4. ASSUME NEW r \in Requests, Swap(r) PROVE Leaving(x)'
  <2>0. st' = st /\ pc[r] = "swap" /\ Leaving(x)
    BY <1>4, <1>i, <1>s DEF Swap
  <2>1. CASE Replaced(r)
    <3>1. /\ slot[i[r]] = s[r] /\ made' = made + 1
          /\ \A k \in Slots : slot'[k] = IF k = i[r] THEN made' ELSE slot[k]
          /\ \A q \in Requests \ {r} : pc'[q] = pc[q] /\ s'[q] = s[q]
      BY <1>p, <2>1 DEF Replaced
    <3>2. x # made'
      <4>1. st[made'] = Fresh
        BY <2>1, SetAssumption DEF Replaced, OnlyMade, TypeOK
      <4> QED
        BY <1>s, <2>0, <4>1 DEF Fresh
    <3>3. CASE x = s[r]
      <4>1. \A k \in Slots : slot[k] = x => k = i[r]
        BY <1>p, <3>1, <3>3 DEF OnlyMade
      <4> QED
        BY <3>1, <3>2, <4>1
    <3>4. CASE x # s[r]
      BY <2>0, <3>1, <3>2, <3>4
    <3> QED
      BY <3>3, <3>4
  <2>2. CASE slot[i[r]] # s[r] /\ pc' = [pc EXCEPT ![r] = "reload"] /\ UNCHANGED <<slot, s>>
    <3>1. CASE x = s[r]
      <4>1. \A k \in Slots : slot[k] = x => k = i[r]
        BY <2>0, <3>1 DEF OwnSlot
      <4> QED
        BY <2>2, <3>1, <4>1
    <3>2. CASE x # s[r]
      BY <1>p, <2>0, <2>2, <3>2
    <3> QED
      BY <3>1, <3>2
  <2> QED
    BY <1>4, <2>1, <2>2, SwapEffect
<1>5. ASSUME NEW r \in Requests, Reload(r) PROVE Leaving(x)'
  BY <1>p, <1>k, <1>5 DEF Reload, Goto
<1>6. ASSUME NEW r \in Requests, Start(r) PROVE Leaving(x)'
  <2>1. st'[x].belowSince = st[x].belowSince /\ st'[x].checkedAt = st[x].checkedAt
    BY <1>6, StartEffect DEF Started
  <2> QED
    BY <1>p, <1>k, <1>6, <2>1 DEF Start, Goto
<1>7. ASSUME NEW r \in Requests, Fails(r) \/ Close(r) PROVE Leaving(x)'
  <2>1. st'[x].belowSince = st[x].belowSince /\ st'[x].checkedAt = st[x].checkedAt
    BY <1>7, ExitEffect DEF Left
  <2> QED
    BY <1>p, <1>k, <1>7, <2>1 DEF Fails, Close, Goto
<1>8. ASSUME NEW r \in Requests, Pick(r) \/ Responds(r) \/ Return(r) PROVE Leaving(x)'
  BY <1>p, <1>k, <1>8 DEF Pick, Responds, Return, Goto
<1> QED
  BY <1>1, <1>2, <1>3, <1>4, <1>5, <1>6, <1>7, <1>8 DEF Next, RoundTrip

(* A fresh stripe has no samples, and a sample is taken now.               *)
LEMMA NextBornFirst ==
  ASSUME TypeOK, InflightExact, ClosedOnce, OnlyMade, SampledSlow, BornFirst, Next
  PROVE  BornFirst'
<1> DEFINE Follows(x) ==
      /\ seen[x].born <= now
      /\ st[x].checkedAt # Never => seen[x].born <= st[x].checkedAt
      /\ st[x].belowSince # Never => seen[x].born <= st[x].belowSince
<1>i. \A x \in Ids : Follows(x)
  BY DEF BornFirst
<1>s. SUFFICES ASSUME NEW x \in Ids PROVE Follows(x)'
  BY DEF BornFirst
<1>t. /\ st[x].checkedAt \in Time /\ st[x].belowSince \in Time
      /\ seen[x].born \in Nat /\ now \in Nat
  BY FieldTypes DEF TypeOK
<1>r. ASSUME now' = now, seen'[x].born = seen[x].born,
             st'[x].checkedAt = st[x].checkedAt, st'[x].belowSince = st[x].belowSince
      PROVE  Follows(x)'
  BY <1>i, <1>r
<1>1. CASE Tick
  <2>1. st' = st /\ now' = now + 1 /\ seen'[x].born = seen[x].born
    BY <1>1, TickEffect
  <2> QED
    BY <1>i, <1>t, <2>1
<1>2. ASSUME NEW y \in Ids, Deliver(y) PROVE Follows(x)'
  BY <1>r, <1>2, DeliverEffect DEF Deliver
<1>3. ASSUME NEW r \in Requests, Sick(r) PROVE Follows(x)'
  <2>0. now' = now
    BY <1>3 DEF Sick
  <2>1. CASE UNCHANGED <<st, seen>> \/ x # s[r]
    <3>1. st'[x] = st[x] /\ seen'[x] = seen[x]
      BY <1>3, <2>1, SickEffect DEF Sampled
    <3> QED
      BY <1>r, <2>0, <3>1
  <2>2. CASE x = s[r] /\ Sampled(r)
    <3>1. st'[x].checkedAt = now /\ st'[x].belowSince = Since(x) /\ seen'[x].born = seen[x].born
      BY <2>2 DEF Sampled
    <3>2. Since(x) # Never => seen[x].born <= Since(x)
      BY <1>i DEF Since, Below
    <3> QED
      BY <1>i, <2>0, <3>1, <3>2
  <2> QED
    BY <1>3, <2>1, <2>2, SickEffect
<1>4. ASSUME NEW r \in Requests, Swap(r) PROVE Follows(x)'
  <2>0. now' = now /\ st' = st
    BY <1>4 DEF Swap
  <2>1. CASE Replaced(r) /\ x = made'
    <3>1. st[x] = Fresh
      BY <2>1, SetAssumption DEF Replaced, OnlyMade, TypeOK
    <3>2. st[x].belowSince = Never /\ st[x].checkedAt = Never /\ seen'[x].born = now
      BY <2>1, <3>1 DEF Fresh, Replaced, Seen
    <3> QED
      BY <1>t, <2>0, <3>2
  <2>2. CASE ~(Replaced(r) /\ x = made')
    <3>1. seen'[x] = seen[x]
      BY <1>4, <2>2, SwapEffect DEF Replaced
    <3> QED
      BY <1>r, <2>0, <3>1
  <2> QED
    BY <2>1, <2>2
<1>5. ASSUME NEW r \in Requests, Reload(r) PROVE Follows(x)'
  <2>1. now' = now /\ st' = st /\ seen'[x].born = seen[x].born
    BY <1>5, ReloadEffect DEF Reload, Joined
  <2> QED
    BY <1>r, <2>1
<1>6. ASSUME NEW r \in Requests, Start(r) PROVE Follows(x)'
  BY <1>r, <1>6, StartEffect DEF Start, Started
<1>7. ASSUME NEW r \in Requests, Fails(r) \/ Close(r) PROVE Follows(x)'
  <2>1. PICK n \in Nat : Left(r, n)
    BY <1>7, ExitEffect
  <2>2. now' = now
    BY <1>7 DEF Fails, Close
  <2> QED
    BY <1>r, <2>1, <2>2 DEF Left
<1>8. ASSUME NEW r \in Requests, Pick(r) \/ Responds(r) \/ Return(r) PROVE Follows(x)'
  BY <1>r, <1>8 DEF Pick, Responds, Return
<1> QED
  BY <1>1, <1>2, <1>3, <1>4, <1>5, <1>6, <1>7, <1>8 DEF Next, RoundTrip

(* A verdict comes a window after the stripe was put in its slot, and the  *)
(* clock only goes on.                                                     *)
LEMMA NextCondemnedServed ==
  ASSUME TypeOK, InflightExact, ClosedOnce, OnlyMade, BornFirst, CondemnedServed, Next
  PROVE  CondemnedServed'
<1>s. SUFFICES ASSUME NEW q \in Requests, pc'[q] = "swap"
               PROVE  now' - seen'[s'[q]].born >= Window
  BY DEF CondemnedServed
<1>t. /\ pc \in [Requests -> Labels] /\ s \in [Requests -> Ids] /\ now \in Nat
      /\ made \in Nat /\ Window \in Nat /\ \A x \in Ids : x \in Nat
      /\ \A x \in Ids : seen[x].born \in Nat
  BY FieldTypes, SetAssumption DEF TypeOK, Ids
<1>r. ASSUME pc[q] = "swap", s'[q] = s[q], now' \in Nat, now' >= now,
             seen'[s[q]].born = seen[s[q]].born
      PROVE  now' - seen'[s'[q]].born >= Window
  BY <1>r, <1>t DEF CondemnedServed
<1>1. CASE Tick
  <2>1. pc' = pc /\ s' = s /\ now' = now + 1
    BY <1>1 DEF Tick
  <2>2. seen'[s[q]].born = seen[s[q]].born
    BY <1>t, <1>1, TickEffect
  <2> QED
    BY <1>r, <1>s, <1>t, <2>1, <2>2
<1>2. ASSUME NEW y \in Ids, Deliver(y) PROVE now' - seen'[s'[q]].born >= Window
  BY <1>r, <1>s, <1>t, <1>2, DeliverEffect DEF Deliver
<1>3. ASSUME NEW r \in Requests, Sick(r) PROVE now' - seen'[s'[q]].born >= Window
  <2>0. now' = now /\ s' = s
    BY <1>3 DEF Sick
  <2>1. seen'[s[q]].born = seen[s[q]].born
    BY <1>t, <1>3, SickEffect DEF Sampled
  <2>2. CASE q # r
    <3>1. pc'[q] = pc[q]
      BY <1>t, <1>3, <2>2, SickEffect DEF Sampled
    <3> QED
      BY <1>r, <1>s, <1>t, <2>0, <2>1, <3>1
  <2>3. CASE q = r
    <3>1. Sampled(r)
      BY <1>s, <1>t, <1>3, <2>3, SickEffect
    <3>2. Since(s[q]) # Never /\ now - Since(s[q]) >= Window
      BY <1>s, <1>t, <2>3, <3>1 DEF Sampled
    <3>3. seen[s[q]].born <= Since(s[q]) /\ Since(s[q]) \in Nat
      <4>1. s[q] \in Ids /\ st[s[q]].checkedAt \in Time /\ st[s[q]].belowSince \in Time
        BY <1>t, FieldTypes
      <4> QED
        BY <3>2, <4>1 DEF BornFirst, Since, Below, Time
    <3> QED
      BY <1>t, <2>0, <2>1, <3>2, <3>3
  <2> QED
    BY <2>2, <2>3
<1>4. ASSUME NEW r \in Requests, Swap(r) PROVE now' - seen'[s'[q]].born >= Window
  <2>0. now' = now /\ pc'[r] # "swap" /\ q # r /\ pc[q] = "swap"
    BY <1>s, <1>t, <1>4, SwapEffect DEF Swap, Replaced
  <2>1. s[q] <= made /\ s[q] \in Ids
    BY <1>t DEF OnlyMade
  <2>2. seen'[s[q]] = seen[s[q]] /\ s'[q] = s[q]
    BY <1>t, <1>4, <2>0, <2>1, SwapEffect DEF Replaced
  <2> QED
    BY <1>r, <1>t, <2>0, <2>2
<1>5. ASSUME NEW r \in Requests, Reload(r) PROVE now' - seen'[s'[q]].born >= Window
  <2>1. now' = now /\ q # r /\ pc[q] = "swap" /\ s'[q] = s[q]
    BY <1>s, <1>t, <1>5 DEF Reload, Goto
  <2>2. seen'[s[q]].born = seen[s[q]].born
    BY <1>t, <1>5, ReloadEffect DEF Joined
  <2> QED
    BY <1>r, <1>t, <2>1, <2>2
<1>6. ASSUME NEW r \in Requests, Start(r) PROVE now' - seen'[s'[q]].born >= Window
  <2>1. now' = now /\ pc[q] = "swap" /\ s'[q] = s[q]
    BY <1>s, <1>t, <1>6 DEF Start, Goto
  <2>2. seen'[s[q]].born = seen[s[q]].born
    BY <1>t, <1>6, StartEffect DEF Started
  <2> QED
    BY <1>r, <1>t, <2>1, <2>2
<1>7. ASSUME NEW r \in Requests, Fails(r) \/ Close(r)
      PROVE  now' - seen'[s'[q]].born >= Window
  <2>1. PICK n \in Nat : Left(r, n)
    BY <1>7, ExitEffect
  <2>2. now' = now /\ pc[q] = "swap" /\ s'[q] = s[q]
    BY <1>s, <1>t, <1>7 DEF Fails, Close, Goto
  <2>3. seen'[s[q]].born = seen[s[q]].born
    BY <1>t, <2>1 DEF Left
  <2> QED
    BY <1>r, <1>t, <2>2, <2>3
<1>8. ASSUME NEW r \in Requests, Pick(r) \/ Responds(r) \/ Return(r)
      PROVE  now' - seen'[s'[q]].born >= Window
  <2>1. now' = now /\ pc[q] = "swap" /\ s'[q] = s[q] /\ seen' = seen
    BY <1>s, <1>t, <1>8 DEF Pick, Responds, Return, Goto
  <2> QED
    BY <1>r, <1>t, <2>1
<1> QED
  BY <1>1, <1>2, <1>3, <1>4, <1>5, <1>6, <1>7, <1>8 DEF Next, RoundTrip

-----------------------------------------------------------------------------
LEMMA InitIInv ==
  ASSUME Init
  PROVE  IInv
<1>1. /\ K \in Nat \ {0} /\ Stripes \in Nat /\ Stripes >= K
      /\ now = 0 /\ next = 0 /\ made = K
      /\ slot = [k \in Slots |-> k + 1]
      /\ st = [x \in Ids |-> Fresh] /\ seen = [x \in Ids |-> Seen(0)]
      /\ pc = [r \in Requests |-> "idle"] /\ i = [r \in Requests |-> 0]
      /\ s = [r \in Requests |-> 1] /\ done = [r \in Requests |-> FALSE]
  BY SetAssumption DEF Init
<1>2. Fresh \in Stripe /\ Seen(0) \in Record
  BY DEF Fresh, Seen, Stripe, Record, Time
<1>3. TypeOK
  BY <1>1, <1>2 DEF TypeOK, Slots, Ids, Labels
<1>4. \A x \in Ids :
        /\ st[x] = Fresh
        /\ st[x].inflight = 0 /\ st[x].bytes = 0 /\ st[x].checkedAt = Never
        /\ st[x].checkBytes = 0 /\ st[x].belowSince = Never
        /\ seen[x].busy = 0 /\ seen[x].rested = 0 /\ seen[x].probed = Never
        /\ seen[x].joined = Never
  BY <1>1 DEF Fresh, Seen
<1>5. InflightExact
  <2>1. \A x \in Ids : On(x) = {}
    BY <1>1 DEF On
  <2> QED
    BY <1>4, <2>1, FS_EmptySet DEF InflightExact, On
<1>6. ClosedOnce /\ OwnSlot
  BY <1>1 DEF ClosedOnce, OwnSlot
<1>7. OnlyMade
  BY <1>1, <1>4 DEF OnlyMade, Slots, Ids
<1>8. SampledSlow /\ UsedWhenLooked
  BY <1>1, <1>4 DEF SampledSlow, UsedWhenLooked, Never
<1>9. RestsSeen /\ PinnedBelow /\ CondemnedLeaves
  BY <1>1, <1>4 DEF RestsSeen, StartsAgain, PinnedBelow, CondemnedLeaves
<1>10. BornFirst /\ CondemnedServed
  <2>1. \A x \in Ids : seen[x].born = 0
    BY <1>1 DEF Seen
  <2> QED
    BY <1>1, <1>4, <2>1 DEF BornFirst, CondemnedServed
<1> QED
  BY <1>3, <1>5, <1>6, <1>7, <1>8, <1>9, <1>10 DEF IInv

(* The invariant that all of the following rest on.                        *)
THEOREM Inductive == Spec => []IInv
<1>1. Init => IInv
  BY InitIInv
<1>2. IInv /\ [Next]_vars => IInv'
  <2> SUFFICES ASSUME IInv, [Next]_vars PROVE IInv'
    OBVIOUS
  <2>1. CASE Next
    BY <2>1, NextTypeOK, NextInflightExact, NextClosedOnce, NextOnlyMade, NextOwnSlot,
       NextSampledSlow, NextUsedWhenLooked, NextRestsSeen, NextPinnedBelow,
       NextCondemnedLeaves, NextBornFirst, NextCondemnedServed DEF IInv
  <2>2. CASE UNCHANGED vars
    BY <2>2 DEF vars, IInv, TypeOK, InflightExact, ClosedOnce, OnlyMade, OwnSlot, SampledSlow,
       UsedWhenLooked, RestsSeen, StartsAgain, PinnedBelow, CondemnedLeaves, BornFirst,
       CondemnedServed
  <2> QED
    BY <2>1, <2>2
<1> QED
  BY <1>1, <1>2, PTL DEF Spec

(***************************************************************************)
(* A stripe's inflight counts exactly the requests on it, through every    *)
(* interleaving of replacing, failing and closing (clientset.go:96, 99,    *)
(* 167).                                                                   *)
(***************************************************************************)
THEOREM CountsAreExact == Spec => []InflightExact
<1>1. IInv => InflightExact
  BY DEF IInv
<1> QED
  BY <1>1, Inductive, PTL

(***************************************************************************)
(* Requests leave a stripe that has stopped delivering: nobody goes out on *)
(* it a window and a sampling interval after its first empty sample, save  *)
(* beside its replacement (clientset.go:37, 74-88).                        *)
(***************************************************************************)
THEOREM PinnedStripesAreLeft == Spec => []PinnedIsLeft
<1>1. ASSUME IInv PROVE PinnedIsLeft
  <2> SUFFICES ASSUME NEW r \in Requests, pc[r] = "start", slot[i[r]] = s[r],
                      seen[s[r]].probed # Never,
                      ~(now - seen[s[r]].probed < Window + Quarter),
                      seen[s[r]].joined # now
               PROVE  \E q \in Requests : pc[q] = "swap" /\ s[q] = s[r]
    BY DEF PinnedIsLeft
  <2> DEFINE x == s[r]
  <2>1. TypeOK /\ x \in Ids /\ i[r] \in Slots /\ now \in Nat
    BY <1>1 DEF IInv, TypeOK
  <2>2. /\ st[x].checkedAt \in Time /\ st[x].belowSince \in Time /\ seen[x].probed \in Time
    BY <2>1, FieldTypes
  <2>3. /\ seen[x].probed <= st[x].checkedAt
        /\ \/ st[x].checkedAt = seen[x].probed
           \/ st[x].belowSince # Never /\ st[x].belowSince <= seen[x].probed
    BY <1>1, <2>1 DEF IInv, PinnedBelow
  <2>4. seen[x].probed \in Nat /\ st[x].checkedAt \in Nat
    BY <2>2, <2>3 DEF Time, Never
  <2>5. now - st[x].checkedAt < Quarter
    BY <1>1, <2>4 DEF IInv, UsedWhenLooked, Never
  <2>6. Quarter \in Nat /\ Window \in Nat
    BY QuarterType
  <2>7. st[x].belowSince # Never /\ st[x].checkedAt - st[x].belowSince >= Window
    BY <2>1, <2>2, <2>3, <2>4, <2>5, <2>6 DEF Time
  <2> QED
    BY <1>1, <2>1, <2>7 DEF IInv, CondemnedLeaves
<1> QED
  BY <1>1, Inductive, PTL

(***************************************************************************)
(* A stripe serves for a window at least before it is replaced, however    *)
(* many requests found its predecessor sick at once and however late they  *)
(* come to CompareAndSwap (clientset.go:81-88): the set does not churn     *)
(* through its connections.                                                *)
(***************************************************************************)
THEOREM FreshStripesServe == Spec => ServesAWindow
<1> DEFINE A == \A k \in Slots :
                  slot'[k] # slot[k] => now - seen[slot[k]].born >= Window
<1>1. IInv /\ [Next]_vars => [A]_vars
  <2> SUFFICES ASSUME IInv, Next PROVE A
    OBVIOUS
  <2>t. TypeOK /\ slot \in [Slots -> Ids] /\ CondemnedServed
    BY DEF IInv, TypeOK
  <2>1. ASSUME NEW r \in Requests, Swap(r) PROVE A
    BY <2>1, <2>t, SwapEffect DEF Replaced, Swap, CondemnedServed
  <2>2. CASE UNCHANGED slot
    BY <2>2
  <2> QED
    BY <2>1, <2>2 DEF Next, RoundTrip, Tick, Deliver, Pick, Sick, Reload, Start, Fails,
                      Responds, Close, Return
<1> QED
  BY <1>1, Inductive, PTL DEF Spec, ServesAWindow

(* A verdict is a sample that finds the stripe below for a window.         *)
LEMMA Verdict ==
  ASSUME IInv, Next, NEW r \in Requests, Condemns(r)
  PROVE  Sampled(r) /\ Since(s[r]) # Never /\ now - Since(s[r]) >= Window
<1>t. pc \in [Requests -> Labels] /\ TypeOK
  BY DEF IInv, TypeOK
<1>1. Sick(r)
  <2>1. ASSUME NEW q \in Requests, RoundTrip(q), q # r PROVE pc'[r] = pc[r]
    BY <1>t, <2>1 DEF RoundTrip, Pick, Sick, Swap, Reload, Start, Fails, Responds, Close,
                      Return, Goto
  <2>2. RoundTrip(r)
    BY <2>1 DEF Condemns, Next, Tick, Deliver
  <2> QED
    BY <2>2, <1>t DEF Condemns, RoundTrip, Pick, Swap, Reload, Start, Fails, Responds, Close,
                      Return, Goto
<1>2. Sampled(r)
  BY <1>t, <1>1, SickEffect DEF Condemns
<1> QED
  BY <1>t, <1>2 DEF Sampled, Condemns

(***************************************************************************)
(* clientset.go:131 "Idle stripes are never sick": a condemned stripe was  *)
(* not idle for a sampling interval in the window before, or was joined    *)
(* unchecked since.                                                        *)
(***************************************************************************)
THEOREM IdleStripesStay == Spec => SickWasBusy
<1> DEFINE A == \A r \in Requests : Condemns(r) =>
              LET h == seen[s[r]] IN now - h.rested >= Window \/ h.joined >= h.rested
<1>1. IInv /\ [Next]_vars => [A]_vars
  <2> SUFFICES ASSUME IInv, Next, NEW r \in Requests, Condemns(r)
               PROVE  \/ now - seen[s[r]].rested >= Window
                      \/ seen[s[r]].joined >= seen[s[r]].rested
    OBVIOUS
  <2> DEFINE x == s[r]
  <2>1. TypeOK /\ x \in Ids /\ now \in Nat
    BY DEF IInv, TypeOK
  <2>2. /\ st[x].inflight \in Nat /\ st[x].checkedAt \in Time /\ st[x].belowSince \in Time
        /\ seen[x].rested \in Nat /\ seen[x].joined \in Time
    BY <2>1, FieldTypes
  <2>3. Since(x) # Never /\ now - Since(x) >= Window
    BY Verdict
  <2>4. /\ st[x].inflight > 0 /\ st[x].checkedAt # Never
        /\ Since(x) = IF st[x].belowSince = Never THEN st[x].checkedAt ELSE st[x].belowSince
    BY <2>3 DEF Since, Below
  <2>5. StartsAgain(x)
    BY <2>1, <2>4 DEF IInv, RestsSeen
  <2>6. seen[x].joined >= seen[x].rested \/ Since(x) >= seen[x].rested
    BY <2>4, <2>5 DEF StartsAgain
  <2> QED
    BY <2>1, <2>2, <2>3, <2>4, <2>6, QuarterType DEF Time, Never
<1> QED
  BY <1>1, Inductive, PTL DEF Spec, SickWasBusy

(***************************************************************************)
(* A condemned stripe was below the floor on average over a stretch of a   *)
(* window or more, up to the sample that condemns it (clientset.go:        *)
(* 141-154).                                                               *)
(***************************************************************************)
THEOREM FastStripesStay == Spec => SickWasSlow
<1> DEFINE A == \A r \in Requests : Condemns(r) =>
         LET x == s[r] IN
           /\ st'[x].checkedAt - st'[x].belowSince >= Window
           /\ st[x].bytes - seen'[x].base
                < Floor * (st'[x].checkedAt - st'[x].belowSince)
<1>1. IInv /\ [Next]_vars => [A]_vars
  <2> SUFFICES ASSUME IInv, Next, NEW r \in Requests, Condemns(r)
               PROVE  /\ st'[s[r]].checkedAt - st'[s[r]].belowSince >= Window
                      /\ st[s[r]].bytes - seen'[s[r]].base
                           < Floor * (st'[s[r]].checkedAt - st'[s[r]].belowSince)
    OBVIOUS
  <2>1. SampledSlow' /\ s[r] \in Ids
    BY NextSampledSlow DEF IInv, TypeOK
  <2>2. /\ st'[s[r]].checkedAt = now /\ st'[s[r]].belowSince = Since(s[r])
        /\ st'[s[r]].checkBytes = st[s[r]].bytes
        /\ Since(s[r]) # Never /\ now - Since(s[r]) >= Window
    BY Verdict DEF Sampled
  <2> QED
    BY <2>1, <2>2 DEF SampledSlow
<1> QED
  BY <1>1, Inductive, PTL DEF Spec, SickWasSlow
============================================================================
