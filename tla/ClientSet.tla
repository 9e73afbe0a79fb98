----------------------------- MODULE ClientSet -----------------------------
(***************************************************************************)
(* The striped transports of the S3 client (clientset.go).  Requests go    *)
(* round-robin over K slots; a request that finds its stripe sick replaces *)
(* it with a fresh one, the requests in flight stay with the old one.      *)
(*                                                                         *)
(* Time is a discrete clock.  It stands still while a request is between   *)
(* reading the clock and inflight.Add on the healthy path: that code does  *)
(* not block, and a tick stands for seconds.  Replacing a stripe may take  *)
(* any time.                                                               *)
(***************************************************************************)
EXTENDS Integers, FiniteSets

CONSTANTS
  K,          \* the number of slots
  Requests,   \* the goroutines that issue requests
  Stripes,    \* the stripes there is room for in the model: 1..Stripes
  Window,     \* clientSet.window, in ticks
  Floor,      \* clientSet.floorBps, in bytes per tick
  Chunks,     \* the numbers of bytes a socket read returns
  MaxTime,    \* bounds of the model: the clock,
  MaxBytes    \* and the bytes one stripe reads

ASSUME SetAssumption ==
  /\ K \in Nat \ {0} /\ Stripes \in Nat /\ Stripes >= K
  /\ IsFiniteSet(Requests)
  /\ Window \in Nat /\ Window >= 4 /\ Floor \in Nat \ {0}
  /\ Chunks \subseteq Nat \ {0}
  /\ MaxTime \in Nat /\ MaxBytes \in Nat

VARIABLES
  now,      \* clockNow
  next,     \* clientSet.next, modulo K
  slot,     \* clientSet.stripes: the stripe in each slot
  made,     \* how many stripes have been made
  st,       \* the fields of each stripe
  pc,       \* where RoundTrip of each request is
  i,        \* its slot
  s,        \* its stripe
  done,     \* stripeBody.done
  seen      \* history, for the properties: see Seen

vars == <<now, next, slot, made, st, pc, i, s, done, seen>>

Ids     == 1..Stripes
Slots   == 0..(K - 1)
Never   == -1                 \* the zero time.Time
Quarter == Window \div 4

Fresh == [inflight |-> 0, bytes |-> 0, checkedAt |-> Never, checkBytes |-> 0,
          belowSince |-> Never]

(***************************************************************************)
(* What really happened to a stripe, whatever the sampler makes of it:     *)
(* busy, the last time it had a request in flight; rested, the last time   *)
(* it had then been idle for a quarter window; probed, the first sample    *)
(* since it last delivered a byte or was idle; base, its bytes when the    *)
(* sampler says it fell below the floor; joined, the last time a request   *)
(* came to it without looking at it, having lost the race to replace its   *)
(* predecessor; born, when it was put in its slot.                         *)
(***************************************************************************)
Seen(t) == [busy |-> t, rested |-> t, probed |-> Never, base |-> 0, joined |-> Never,
            born |-> t]

Init ==
  /\ now = 0
  /\ next = 0
  /\ slot = [k \in Slots |-> k + 1]
  /\ made = K
  /\ st = [x \in Ids |-> Fresh]
  /\ pc = [r \in Requests |-> "idle"]
  /\ i = [r \in Requests |-> 0]
  /\ s = [r \in Requests |-> 1]
  /\ done = [r \in Requests |-> FALSE]
  /\ seen = [x \in Ids |-> Seen(0)]

Goto(r, l) == pc' = [pc EXCEPT ![r] = l]

Tick ==
  /\ now < MaxTime
  /\ \A r \in Requests : pc[r] \notin {"sick", "start"}
  /\ now' = now + 1
  /\ seen' = [x \in Ids |->
       IF st[x].inflight > 0 THEN [seen[x] EXCEPT !.busy = now']
       ELSE IF now' - seen[x].busy >= Quarter
            THEN [seen[x] EXCEPT !.rested = now', !.probed = Never]
            ELSE [seen[x] EXCEPT !.probed = Never]]
  /\ UNCHANGED <<next, slot, made, st, pc, i, s, done>>

(* countingConn.Read: a connection of the stripe delivers bytes.           *)
Deliver(x) ==
  /\ st[x].inflight > 0
  /\ \E n \in Chunks : /\ st[x].bytes + n <= MaxBytes
                       /\ st' = [st EXCEPT ![x].bytes = @ + n]
  /\ seen' = [seen EXCEPT ![x].probed = Never]
  /\ UNCHANGED <<now, next, slot, made, pc, i, s, done>>

-----------------------------------------------------------------------------
(* RoundTrip takes the next slot and loads its stripe.                     *)
Pick(r) ==
  /\ pc[r] = "idle"
  /\ next' = (next + 1) % K
  /\ i' = [i EXCEPT ![r] = next']
  /\ s' = [s EXCEPT ![r] = slot[next']]
  /\ done' = [done EXCEPT ![r] = FALSE]
  /\ Goto(r, "sick")
  /\ UNCHANGED <<now, slot, made, st, seen>>

(***************************************************************************)
(* sick, under the stripe's mutex.  The first call only notes the time;    *)
(* later ones sample at most every Quarter.                                *)
(***************************************************************************)
Elapsed(x) == now - st[x].checkedAt
Samples(x) == st[x].checkedAt = Never \/ Elapsed(x) >= Quarter

BelowIdle(x) ==   \* mutant: no look at inflight
  st[x].checkedAt # Never /\ st[x].bytes - st[x].checkBytes < Floor * Elapsed(x)
Below(x) ==
  /\ st[x].checkedAt # Never
  /\ st[x].inflight > 0
  /\ st[x].bytes - st[x].checkBytes < Floor * Elapsed(x)

SinceLatest(x) ==   \* mutant: every sample starts again
  IF Below(x) THEN st[x].checkedAt ELSE Never
SinceSticky(x) ==   \* mutant: a fast sample does not reset it
  IF Below(x) /\ st[x].belowSince = Never THEN st[x].checkedAt ELSE st[x].belowSince
Since(x) ==
  IF ~Below(x) THEN Never
  ELSE IF st[x].belowSince = Never THEN st[x].checkedAt ELSE st[x].belowSince

Sick(r) ==
  LET x == s[r]
      f == Since(x)
  IN /\ pc[r] = "sick"
     /\ \/ /\ ~Samples(x)
           /\ Goto(r, "start")
           /\ UNCHANGED <<st, seen>>
        \/ /\ Samples(x)
           /\ st' = [st EXCEPT ![x].checkedAt = now, ![x].checkBytes = st[x].bytes,
                               ![x].belowSince = f]
           /\ Goto(r, IF f # Never /\ now - f >= Window THEN "swap" ELSE "start")
           /\ seen' = [seen EXCEPT
                ![x].probed = IF st[x].inflight = 0 THEN Never
                              ELSE IF @ = Never THEN now ELSE @,
                ![x].base = IF f = Never THEN 0
                            ELSE IF st[x].belowSince = Never THEN st[x].checkBytes
                            ELSE @]
     /\ UNCHANGED <<now, next, slot, made, i, s, done>>

(* newStripe and CompareAndSwap; who loses takes what the winner stored.   *)
Replace(r) ==
  /\ made < Stripes
  /\ made' = made + 1
  /\ slot' = [slot EXCEPT ![i[r]] = made']
  /\ s' = [s EXCEPT ![r] = made']
  /\ seen' = [seen EXCEPT ![made'] = Seen(now)]

SwapStores(r) ==   \* mutant: Store instead of CompareAndSwap
  /\ pc[r] = "swap"
  /\ Replace(r)
  /\ Goto(r, "start")
  /\ UNCHANGED <<now, next, st, i, done>>

Swap(r) ==
  /\ pc[r] = "swap"
  /\ \/ /\ slot[i[r]] = s[r]
        /\ Replace(r)
        /\ Goto(r, "start")
     \/ /\ slot[i[r]] # s[r]
        /\ Goto(r, "reload")
        /\ UNCHANGED <<slot, made, s, seen>>
  /\ UNCHANGED <<now, next, st, i, done>>

Reload(r) ==
  /\ pc[r] = "reload"
  /\ s' = [s EXCEPT ![r] = slot[i[r]]]
  /\ seen' = [seen EXCEPT ![slot[i[r]]].joined = now]
  /\ Goto(r, "start")
  /\ UNCHANGED <<now, next, slot, made, st, i, done>>

Start(r) ==
  /\ pc[r] = "start"
  /\ st' = [st EXCEPT ![s[r]].inflight = @ + 1]
  /\ seen' = [seen EXCEPT ![s[r]].busy = now]
  /\ Goto(r, "trip")
  /\ UNCHANGED <<now, next, slot, made, i, s, done>>

(* The request leaves the stripe it went to: the transport fails, ...      *)
LeaveSlot(x, r) ==   \* mutant: the stripe that is in the slot now
  [st EXCEPT ![slot[i[r]]].inflight = @ - 1]
Leave(x, r) == [st EXCEPT ![x].inflight = @ - 1]

Rest(x) == seen' = [seen EXCEPT ![x].probed = IF st'[x].inflight = 0 THEN Never ELSE @]

Fails(r) ==
  /\ pc[r] = "trip"
  /\ st' = Leave(s[r], r)
  /\ Rest(s[r])
  /\ Goto(r, "idle")
  /\ UNCHANGED <<now, next, slot, made, i, s, done>>

Responds(r) ==
  /\ pc[r] = "trip"
  /\ Goto(r, "body")
  /\ UNCHANGED <<now, next, slot, made, st, i, s, done, seen>>

(* ... or the body is closed, for the first time; a second Close does      *)
(* nothing.                                                                *)
Close(r) ==
  /\ pc[r] = "body"
  /\ done' = [done EXCEPT ![r] = TRUE]
  /\ st' = IF done[r] THEN st ELSE Leave(s[r], r)
  /\ Rest(s[r])
  /\ UNCHANGED <<now, next, slot, made, pc, i, s>>

Return(r) ==
  /\ pc[r] = "body"
  /\ done[r]
  /\ Goto(r, "idle")
  /\ UNCHANGED <<now, next, slot, made, st, i, s, done, seen>>

RoundTrip(r) == \/ Pick(r) \/ Sick(r) \/ Swap(r) \/ Reload(r) \/ Start(r)
                \/ Fails(r) \/ Responds(r) \/ Close(r) \/ Return(r)

Next == \/ Tick
        \/ \E x \in Ids : Deliver(x)
        \/ \E r \in Requests : RoundTrip(r)

Spec == Init /\ [][Next]_vars

-----------------------------------------------------------------------------
(***************************************************************************)
(* A stripe's inflight counts exactly the requests that are on it: each is *)
(* taken off once, and off the stripe it was counted on, although the slot *)
(* may hold another one by then (clientset.go:96, 99, 167).                *)
(***************************************************************************)
InflightExact ==
  \A x \in Ids :
    st[x].inflight = Cardinality({r \in Requests : /\ pc[r] \in {"trip", "body"}
                                                   /\ s[r] = x
                                                   /\ ~done[r]})

(***************************************************************************)
(* A stripe serves for a window at least before it is replaced: however    *)
(* many requests condemn its predecessor at once, and however long each of *)
(* them takes to replace it, none throws the fresh one away (clientset.go: *)
(* 81-88).                                                                 *)
(***************************************************************************)
ServesAWindow ==
  [][\A k \in Slots :
       slot'[k] # slot[k] => now - seen[slot[k]].born >= Window]_vars

Condemns(r) == pc[r] = "sick" /\ pc'[r] = "swap"

(***************************************************************************)
(* clientset.go:131 "Idle stripes are never sick": a stripe is found sick  *)
(* only if in the whole window before it was never idle for a quarter of   *)
(* the window, the sampling interval; or if a request that lost the race   *)
(* to replace its predecessor came to it after that, unchecked.            *)
(***************************************************************************)
SickWasBusy ==
  [][\A r \in Requests : Condemns(r) =>
       LET h == seen[s[r]] IN now - h.rested >= Window \/ h.joined >= h.rested]_vars

(***************************************************************************)
(* A stripe is found sick only if its rate, over all the samples since it  *)
(* fell below and at least a window, was below the floor (clientset.go:    *)
(* 141-154).                                                               *)
(***************************************************************************)
SickWasSlow ==
  [][\A r \in Requests : Condemns(r) =>
       LET x == s[r] IN
         /\ st'[x].checkedAt - st'[x].belowSince >= Window
         /\ st[x].bytes - seen'[x].base
              < Floor * (st'[x].checkedAt - st'[x].belowSince)]_vars

(***************************************************************************)
(* clientset.go:37: the pinned-path signature.  No request goes out on a   *)
(* stripe that has had requests in flight and has delivered nothing since  *)
(* a sample taken a window and a sampling interval ago, unless another     *)
(* request has just replaced it or is doing so at that moment, or one that *)
(* lost the race to replace its predecessor comes to it now.               *)
(***************************************************************************)
PinnedIsLeft ==
  \A r \in Requests :
    (pc[r] = "start" /\ slot[i[r]] = s[r] /\ seen[s[r]].probed # Never) =>
      \/ now - seen[s[r]].probed < Window + Quarter
      \/ \E q \in Requests : pc[q] = "swap" /\ s[q] = s[r]
      \/ seen[s[r]].joined = now
============================================================================
