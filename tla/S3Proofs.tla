------------------------------ MODULE S3Proofs ------------------------------
(***************************************************************************)
(* The S3 backend implements the contract of a bucket behind a network,    *)
(* for every set of clients, sites, keys and calls that is used with       *)
(* discipline, and however often the SDK sends a plain request again.      *)
(***************************************************************************)
EXTENDS S3, TLAPS

(* What the properties below say about one client.                         *)
Cur(c) == Content(Seat[req[c].key], req[c].key)

(* The answers the service may give to each request.                       *)
Replied(c) ==
  \/ hop[c] = "put" /\ reply[c].status \in {"200", "404", "412"}
  \/ hop[c] \in {"get", "head"} /\ reply[c].status = "404"
  \/ /\ hop[c] \in {"get", "head"} /\ reply[c].status = "200"
     /\ reply[c].content \in Bodies
  \/ hop[c] = "delete"

TypeOK ==
  /\ leader \in [Keys -> Bodies \cup {Absent}]
  /\ copy \in [Regions -> [Keys -> Bodies \cup {Absent}]]
  /\ ahead \subseteq Regions \X Keys
  /\ pc \in [Clients -> {"idle", "request", "response", "done"}]
  /\ req \in [Clients -> Call \cup {NoCall}]
  /\ hop \in [Clients -> {"none", "put", "get", "head", "delete"}]
  /\ attempts \in [Clients -> Nat]
  /\ reply \in [Clients -> [status : {"", "200", "404", "412"},
                            content : Bodies \cup {Absent}]]
  /\ resp \in [Clients -> Response]
  /\ wrote \in [Clients -> BOOLEAN]

(* Only the seat of a key is ever ahead of the leader, and else the two    *)
(* agree about it.                                                         *)
SeatsAgree ==
  /\ \A g \in Regions, k \in Keys : <<g, k>> \in ahead => g = Seat[k]
  /\ \A k \in Keys : (Seat[k] \in Regions /\ <<Seat[k], k>> \notin ahead)
                        => copy[Seat[k]][k] = leader[k]

(* A client's request belongs to its call; only a put or a DELETE writes;  *)
(* and an answer is one the service gives to the request.                  *)
Fits(c) ==
  /\ pc[c] = "idle" => req[c] = NoCall /\ hop[c] = "none" /\ ~wrote[c]
  /\ pc[c] # "idle" =>
       /\ req[c] \in Calls[c]
       /\ hop[c] \in {"put", "get", "head", "delete"}
       /\ hop[c] = "put" => req[c].op \in Writes
       /\ hop[c] = "get" => req[c].op \in {"Get", "GetRange"}
       /\ hop[c] = "head" => req[c].op \in {"Stat", "Delete"}
       /\ hop[c] = "delete" => req[c].op = "Delete"
  /\ hop[c] \in {"get", "head"} => ~wrote[c]
  /\ pc[c] \in {"request", "response"} => attempts[c] \in 1..MaxAttempts[c]
  /\ pc[c] = "response" => Replied(c)

HopFits == \A c \in Clients : Fits(c)

(* Between Delete's HEAD and its DELETE the object stays; once deleted, it *)
(* stays away while the DELETE may be sent again.                          *)
Finds(c) ==
  /\ (pc[c] = "request" /\ hop[c] = "delete" /\ ~wrote[c]) => Cur(c) # Absent
  /\ (pc[c] = "response" /\ DeleteFollows(c)) => Cur(c) # Absent
  /\ (pc[c] = "response" /\ hop[c] = "delete") => wrote[c]
  /\ (pc[c] = "request" /\ hop[c] = "delete" /\ wrote[c]) => c \in Resent
  /\ (pc[c] \in {"request", "response"} /\ hop[c] = "delete" /\ wrote[c] /\ c \in Resent)
       => Cur(c) = Absent

DeleteFinds == \A c \in Clients : Finds(c)

IInv == TypeOK /\ SeatsAgree /\ HopFits /\ DeleteFinds

-----------------------------------------------------------------------------
(* A call is not NoCall, and has a key.                                    *)
LEMMA CallFacts ==
  ASSUME NEW r \in Call
  PROVE  /\ r # NoCall /\ r.key \in Keys
         /\ r.op \in Writes => r \in PutCall /\ r.body \in Bodies /\ r.ifMatch \in Preconds
         /\ r.op \in {"Put", "PutStream", "Get", "GetRange", "Stat", "Delete"}
BY DEF Call, PutCall, KeyCall, Writes, Reads, NoCall

(* What HopFits says of the call of a client that is not idle.             *)
LEMMA CallOf ==
  ASSUME HopFits, NEW c \in Clients, pc[c] # "idle"
  PROVE  req[c] \in Call /\ req[c] \in Calls[c] /\ req[c].key \in Keys
BY CallsAssumption, CallFacts DEF HopFits, Fits

(* The contents are bodies or Absent.                                      *)
LEMMA StoredType ==
  ASSUME TypeOK
  PROVE  Stored \in [Keys -> Bodies \cup {Absent}]
<1>0. /\ leader \in [Keys -> Bodies \cup {Absent}]
      /\ copy \in [Regions -> [Keys -> Bodies \cup {Absent}]]
      /\ Seat \in [Keys -> Regions \cup {Leader}]
  BY SiteAssumption DEF TypeOK
<1>1. \A k \in Keys : Content(Seat[k], k) \in Bodies \cup {Absent}
  BY <1>0 DEF Content
<1> QED
  BY <1>1 DEF Stored

(* A client's content is the one its key has in the mapped store.          *)
LEMMA CurIsStored ==
  ASSUME HopFits, NEW c \in Clients, pc[c] # "idle"
  PROVE  Cur(c) = Stored[req[c].key]
BY CallOf DEF Cur, Stored

(* A write at a key's seat changes that key and no other.                  *)
LEMMA StoreEffect ==
  ASSUME TypeOK, SeatsAgree, NEW k \in Keys, NEW v \in Bodies \cup {Absent},
         Store(Seat[k], k, v)
  PROVE  /\ Stored' = [Stored EXCEPT ![k] = v]
         /\ SeatsAgree'
         /\ leader' \in [Keys -> Bodies \cup {Absent}]
         /\ copy' \in [Regions -> [Keys -> Bodies \cup {Absent}]]
         /\ ahead' \subseteq Regions \X Keys
<1>1. /\ Seat \in [Keys -> Regions \cup {Leader}] /\ Leader \notin Regions
      /\ leader \in [Keys -> Bodies \cup {Absent}]
      /\ copy \in [Regions -> [Keys -> Bodies \cup {Absent}]]
      /\ ahead \subseteq Regions \X Keys
  BY SiteAssumption DEF TypeOK
<1>2. CASE Seat[k] = Leader
  <2>1. leader' = [leader EXCEPT ![k] = v] /\ UNCHANGED <<copy, ahead>>
    BY <1>2 DEF Store
  <2>2. Stored' = [Stored EXCEPT ![k] = v]
    BY <1>1, <1>2, <2>1 DEF Stored, Content
  <2>3. SeatsAgree'
    BY <1>1, <1>2, <2>1 DEF SeatsAgree
  <2> QED
    BY <1>1, <2>1, <2>2, <2>3
<1>3. CASE Seat[k] \in Regions
  <2>1. /\ copy' = [copy EXCEPT ![Seat[k]][k] = v]
        /\ ahead' = ahead \cup {<<Seat[k], k>>} /\ UNCHANGED leader
    BY <1>1, <1>3 DEF Store
  <2>2. \A g \in Regions : \A j \in Keys :
          copy'[g][j] = IF g = Seat[k] /\ j = k THEN v ELSE copy[g][j]
    BY <1>1, <1>3, <2>1
  <2>3. Stored' = [Stored EXCEPT ![k] = v]
    <3>1. \A j \in Keys : (IF Seat[j] = Leader THEN leader'[j] ELSE copy'[Seat[j]][j])
            = IF j = k THEN v
              ELSE IF Seat[j] = Leader THEN leader[j] ELSE copy[Seat[j]][j]
      BY <1>1, <1>3, <2>1, <2>2
    <3> QED
      BY <3>1 DEF Stored, Content
  <2>4. SeatsAgree'
    BY <1>1, <1>3, <2>1, <2>2 DEF SeatsAgree
  <2>5. copy' \in [Regions -> [Keys -> Bodies \cup {Absent}]]
    <3>1. [copy[Seat[k]] EXCEPT ![k] = v] \in [Keys -> Bodies \cup {Absent}]
      BY <1>1, <1>3
    <3> QED
      BY <1>1, <1>3, <2>1, <3>1
  <2> QED
    BY <1>1, <1>3, <2>1, <2>3, <2>4, <2>5
<1> QED
  BY <1>1, <1>2, <1>3

(* Replication is invisible at the seats.                                  *)
LEMMA ReplicateEffect ==
  ASSUME TypeOK, SeatsAgree, Replicate
  PROVE  Stored' = Stored /\ SeatsAgree' /\ TypeOK'
<1>1. /\ Seat \in [Keys -> Regions \cup {Leader}] /\ Leader \notin Regions
      /\ leader \in [Keys -> Bodies \cup {Absent}]
      /\ copy \in [Regions -> [Keys -> Bodies \cup {Absent}]]
      /\ ahead \subseteq Regions \X Keys
  BY SiteAssumption DEF TypeOK
<1>2. ASSUME NEW g \in Regions, NEW k \in Keys, Pull(g, k)
      PROVE  Stored' = Stored /\ SeatsAgree' /\ TypeOK'
  <2>1. \A h \in Regions : \A j \in Keys :
          copy'[h][j] = IF h = g /\ j = k THEN leader[k] ELSE copy[h][j]
    BY <1>1, <1>2 DEF Pull
  <2>2. UNCHANGED <<leader, ahead>> /\ <<g, k>> \notin ahead
    BY <1>2 DEF Pull
  <2>3. Stored' = Stored
    BY <1>1, <2>1, <2>2 DEF Stored, Content, SeatsAgree
  <2>4. SeatsAgree'
    BY <1>1, <2>1, <2>2 DEF SeatsAgree
  <2>5. TypeOK'
    <3>1. copy' \in [Regions -> [Keys -> Bodies \cup {Absent}]]
      BY <1>1, <1>2 DEF Pull
    <3> QED
      BY <2>2, <3>1 DEF Replicate, TypeOK
  <2> QED
    BY <2>3, <2>4, <2>5
<1>3. ASSUME NEW g \in Regions, NEW k \in Keys, Push(g, k)
      PROVE  Stored' = Stored /\ SeatsAgree' /\ TypeOK'
  <2>1. /\ UNCHANGED copy /\ g = Seat[k] /\ ahead' = ahead \ {<<g, k>>}
        /\ leader' = [leader EXCEPT ![k] = copy[g][k]]
    BY <1>1, <1>3 DEF Push, SeatsAgree
  <2>2. Stored' = Stored
    BY <1>1, <2>1 DEF Stored, Content
  <2>3. SeatsAgree'
    BY <1>1, <2>1 DEF SeatsAgree
  <2>4. TypeOK'
    <3>1. leader' \in [Keys -> Bodies \cup {Absent}] /\ ahead' \subseteq Regions \X Keys
      BY <1>1, <2>1
    <3> QED
      BY <2>1, <3>1 DEF Replicate, TypeOK
  <2> QED
    BY <2>2, <2>3, <2>4
<1> QED
  BY <1>2, <1>3 DEF Replicate

-----------------------------------------------------------------------------
(* A put on cur is answered 200 exactly when its precondition holds.       *)
LEMMA PutStatusFacts ==
  ASSUME NEW m \in Preconds, NEW cur, NEW x \in PutStatus(m, cur)
  PROVE  /\ x \in {"200", "404", "412"}
         /\ MissingStatus = {"412"} => x # "404"
         /\ x = "200" <=> Contract!Holds(m, cur)
<1>1. NoMatch \notin ETags /\ IfAbsent \notin ETags /\ NoMatch # IfAbsent
  BY DEF NoMatch, IfAbsent, ETags, ETag
<1>2. Contract!Holds(m, cur) <=> \/ m = NoMatch
                                 \/ m = IfAbsent /\ cur = Absent
                                 \/ m \in ETags /\ cur # Absent /\ ETag(cur) = m
  BY DEF Contract!Holds, NoMatch, IfAbsent, Contract!NoMatch, Contract!IfAbsent,
         Contract!ETags, ETags, Contract!ETag, ETag
<1>3. CASE m = NoMatch
  BY <1>1, <1>2, <1>3 DEF PutStatus
<1>4. CASE m = IfAbsent
  BY <1>1, <1>2, <1>4 DEF PutStatus
<1>5. CASE m \in ETags
  <2>1. PutStatus(m, cur) = IF cur = Absent THEN MissingStatus
                            ELSE IF ETag(cur) = m THEN {"200"} ELSE {"412"}
    BY <1>1, <1>5 DEF PutStatus
  <2>2. MissingStatus \subseteq {"404", "412"}
    BY SiteAssumption
  <2> QED
    BY <1>1, <1>2, <1>5, <2>1, <2>2
<1> QED
  BY <1>3, <1>4, <1>5 DEF Preconds

(* What the service does when it executes a client's request.              *)
ExecutesPut(c) ==
  /\ hop[c] = "put"
  /\ \E x \in PutStatus(req[c].ifMatch, Cur(c)) :
       /\ reply' = [reply EXCEPT ![c] = [status |-> x, content |-> Absent]]
       /\ Stored' = IF x = "200" THEN [Stored EXCEPT ![req[c].key] = req[c].body] ELSE Stored
       /\ wrote' = [wrote EXCEPT ![c] = @ \/ x = "200"]

ExecutesRead(c) ==
  /\ hop[c] \in {"get", "head"}
  /\ reply' = [reply EXCEPT ![c] = [status |-> IF Cur(c) = Absent THEN "404" ELSE "200",
                                    content |-> Cur(c)]]
  /\ Stored' = Stored
  /\ UNCHANGED wrote

ExecutesDelete(c) ==
  /\ hop[c] = "delete"
  /\ reply' = [reply EXCEPT ![c] = [status |-> "200", content |-> Absent]]
  /\ Stored' = [Stored EXCEPT ![req[c].key] = Absent]
  /\ wrote' = [wrote EXCEPT ![c] = TRUE]

(* A step of Execute is one of these, and keeps what holds of the sites.   *)
LEMMA ExecuteEffect ==
  ASSUME Seated, IInv, NEW c \in Clients, Execute(c)
  PROVE  /\ pc[c] = "request" /\ pc' = [pc EXCEPT ![c] = "response"]
         /\ UNCHANGED <<req, hop, attempts, resp>>
         /\ ExecutesPut(c) \/ ExecutesRead(c) \/ ExecutesDelete(c)
         /\ SeatsAgree'
         /\ leader' \in [Keys -> Bodies \cup {Absent}]
         /\ copy' \in [Regions -> [Keys -> Bodies \cup {Absent}]]
         /\ ahead' \subseteq Regions \X Keys
<1> DEFINE k == req[c].key
<1>0. TypeOK /\ SeatsAgree /\ HopFits
  BY DEF IInv
<1>1. /\ pc[c] = "request" /\ pc' = [pc EXCEPT ![c] = "response"]
      /\ UNCHANGED <<req, hop, attempts, resp>>
  BY DEF Execute
<1>2. req[c] \in Call /\ req[c] \in Calls[c] /\ k \in Keys
  BY <1>0, <1>1, CallOf
<1>3. Target(c, req[c]) = Seat[k] /\ Content(Seat[k], k) = Cur(c)
  BY <1>2 DEF Seated, Linearizable, Target, Cur
<1>4. ASSUME UNCHANGED service
      PROVE  /\ Stored' = Stored /\ SeatsAgree'
             /\ leader' \in [Keys -> Bodies \cup {Absent}]
             /\ copy' \in [Regions -> [Keys -> Bodies \cup {Absent}]]
             /\ ahead' \subseteq Regions \X Keys
  BY <1>0, <1>4 DEF service, Stored, Content, SeatsAgree, TypeOK
<1>5. CASE hop[c] = "put"
  <2>1. req[c].body \in Bodies
    BY <1>0, <1>1, <1>2, <1>5, CallFacts DEF HopFits, Fits
  <2>2. PICK x \in PutStatus(req[c].ifMatch, Cur(c)) :
          /\ Answers(c, x, Absent)
          /\ IF x = "200" THEN Store(Seat[k], k, req[c].body) ELSE UNCHANGED service
          /\ wrote' = [wrote EXCEPT ![c] = @ \/ x = "200"]
    BY <1>3, <1>5 DEF Execute
  <2>3. CASE x = "200"
    BY <1>0, <1>1, <1>2, <1>5, <2>1, <2>2, <2>3, StoreEffect DEF ExecutesPut, Answers
  <2>4. CASE x # "200"
    BY <1>1, <1>4, <1>5, <2>2, <2>4 DEF ExecutesPut, Answers
  <2> QED
    BY <2>3, <2>4
<1>6. CASE hop[c] \in {"get", "head"}
  BY <1>1, <1>3, <1>4, <1>6 DEF Execute, ExecutesRead, Answers
<1>7. CASE hop[c] = "delete"
  <2>1. Store(Seat[k], k, Absent)
    BY <1>3, <1>7 DEF Execute
  <2> QED
    BY <1>0, <1>1, <1>2, <1>3, <1>7, <2>1, StoreEffect DEF Execute, ExecutesDelete, Answers
<1> QED
  BY <1>5, <1>6, <1>7 DEF Execute

(* What a method makes of an answer is a response, never "pending".        *)
LEMMA MeaningType ==
  ASSUME TypeOK, HopFits, NEW c \in Clients, pc[c] = "response"
  PROVE  Meaning(c) \in Response
<1>0. /\ Blank \in Response /\ \A e \in Errs : Fail(e) \in Response
      /\ "io" \in Errs /\ "status" \in Errs /\ "ErrNotFound" \in Errs /\ "ErrPreconditionFailed" \in Errs
  BY DEF Response, Blank, Fail, Errs
<1>1. \A b \in Bodies : /\ [Blank EXCEPT !.etag = ETag(b)] \in Response
                        /\ [Blank EXCEPT !.body = b, !.etag = ETag(b)] \in Response
                        /\ [Blank EXCEPT !.body = b, !.etag = NoTag] \in Response
                        /\ [Blank EXCEPT !.etag = ETag(b), !.size = Len(b)] \in Response
  <2>1. \A b \in Bodies : Len(b) \in Nat /\ ETag(b) \in ETags
    BY CallsAssumption DEF ETags
  <2> QED
    BY <2>1 DEF Response, Blank, Errs
<1>2. Replied(c) /\ req[c] \in Call
  BY CallOf DEF HopFits, Fits
<1>3. CASE hop[c] = "put"
  <2>1. req[c].body \in Bodies
    BY <1>2, <1>3, CallFacts DEF HopFits, Fits
  <2> QED
    BY <1>0, <1>1, <1>3, <2>1 DEF Meaning
<1>4. CASE hop[c] \in {"get", "head"} /\ reply[c].status = "404"
  BY <1>0, <1>4 DEF Meaning
<1>5. CASE hop[c] \in {"get", "head"} /\ reply[c].status = "200" /\ reply[c].content \in Bodies
  BY <1>1, <1>5 DEF Meaning
<1>6. CASE hop[c] = "delete"
  BY <1>0, <1>6 DEF Meaning
<1> QED
  BY <1>2, <1>3, <1>4, <1>5, <1>6 DEF Replied

-----------------------------------------------------------------------------
(* The steps of one client leave what the others hold alone.               *)
Step(c) == Invoke(c) \/ Execute(c) \/ Retry(c) \/ GiveUp(c) \/ Receive(c) \/ Return(c)

Same(d) == /\ pc'[d] = pc[d] /\ req'[d] = req[d] /\ hop'[d] = hop[d]
           /\ attempts'[d] = attempts[d] /\ reply'[d] = reply[d]
           /\ resp'[d] = resp[d] /\ wrote'[d] = wrote[d]

LEMMA OthersStay ==
  ASSUME TypeOK, NEW c \in Clients, Step(c), NEW d \in Clients \ {c}
  PROVE  Same(d) /\ (Fits(d) => Fits(d)') /\ Outcome'[d] = Outcome[d]
<1>0. /\ pc \in [Clients -> {"idle", "request", "response", "done"}]
      /\ DOMAIN req = Clients /\ DOMAIN hop = Clients /\ DOMAIN attempts = Clients
      /\ DOMAIN reply = Clients /\ DOMAIN resp = Clients /\ DOMAIN wrote = Clients
  BY DEF TypeOK
<1>1. Same(d)
  <2>1. CASE Invoke(c)
    BY <1>0, <2>1 DEF Same, Invoke
  <2>2. CASE Execute(c)
    BY <1>0, <2>2 DEF Same, Execute, Answers
  <2>3. CASE Retry(c) \/ GiveUp(c) \/ Receive(c) \/ Return(c)
    BY <1>0, <2>3 DEF Same, Retry, GiveUp, Receive, Return, Finish
  <2> QED
    BY <2>1, <2>2, <2>3 DEF Step
<1>2. Fits(d) => Fits(d)'
  BY <1>1 DEF Same, Fits, Replied
<1>3. Outcome'[d] = Outcome[d]
  <2>1. Meaning(d)' = Meaning(d)
    BY <1>1 DEF Same, Meaning
  <2>2. DeleteFollows(d)' = DeleteFollows(d)
    BY <1>1 DEF Same, DeleteFollows
  <2> QED
    BY <1>1, <2>1, <2>2 DEF Same, Outcome
<1> QED
  BY <1>1, <1>2, <1>3

(* Only Execute and Replicate touch the sites.                             *)
LEMMA SitesStay ==
  ASSUME SeatsAgree, UNCHANGED service
  PROVE  Stored' = Stored /\ SeatsAgree'
BY DEF service, Stored, Content, SeatsAgree

LEMMA NextTypeOK ==
  ASSUME Seated, IInv, [Next]_vars
  PROVE  TypeOK'
<1>0. TypeOK /\ SeatsAgree /\ HopFits
  BY DEF IInv
<1>t. /\ pc \in [Clients -> {"idle", "request", "response", "done"}]
      /\ hop \in [Clients -> {"none", "put", "get", "head", "delete"}]
      /\ attempts \in [Clients -> Nat] /\ resp \in [Clients -> Response]
  BY <1>0 DEF TypeOK
<1>r. NoReply \in [status : {"", "200", "404", "412"}, content : Bodies \cup {Absent}]
  BY DEF NoReply
<1>f. Fail("io") \in Response /\ Blank \in Response
  BY DEF Response, Blank, Fail, Errs
<1>1. ASSUME NEW c \in Clients, Invoke(c) PROVE TypeOK'
  <2>1. PICK r \in Calls[c] : req' = [req EXCEPT ![c] = r] /\ hop' = [hop EXCEPT ![c] = FirstHop(r.op)]
    BY <1>1 DEF Invoke
  <2>2. r \in Call /\ FirstHop(r.op) \in {"put", "get", "head"}
    BY CallsAssumption, CallFacts DEF FirstHop, Writes
  <2> QED
    BY <1>0, <1>1, <2>1, <2>2 DEF TypeOK, Invoke, service
<1>2. ASSUME NEW c \in Clients, Execute(c) PROVE TypeOK'
  <2>1. /\ pc' = [pc EXCEPT ![c] = "response"]
        /\ UNCHANGED <<req, hop, attempts, resp>>
        /\ leader' \in [Keys -> Bodies \cup {Absent}]
        /\ copy' \in [Regions -> [Keys -> Bodies \cup {Absent}]]
        /\ ahead' \subseteq Regions \X Keys
        /\ ExecutesPut(c) \/ ExecutesRead(c) \/ ExecutesDelete(c)
        /\ pc[c] = "request"
    BY <1>2, ExecuteEffect
  <2>2. /\ wrote' \in [Clients -> BOOLEAN]
        /\ reply' \in [Clients -> [status : {"", "200", "404", "412"},
                                   content : Bodies \cup {Absent}]]
    <3>0. /\ wrote \in [Clients -> BOOLEAN]
          /\ reply \in [Clients -> [status : {"", "200", "404", "412"},
                                    content : Bodies \cup {Absent}]]
      BY <1>0 DEF TypeOK
    <3>1. CASE ExecutesPut(c)
      <4>1. req[c].ifMatch \in Preconds
        BY <1>0, <2>1, <3>1, CallOf, CallFacts DEF HopFits, Fits, ExecutesPut
      <4>2. PICK x \in PutStatus(req[c].ifMatch, Cur(c)) :
              /\ reply' = [reply EXCEPT ![c] = [status |-> x, content |-> Absent]]
              /\ wrote' = [wrote EXCEPT ![c] = @ \/ x = "200"]
        BY <3>1 DEF ExecutesPut
      <4>3. x \in {"200", "404", "412"}
        BY <4>1, PutStatusFacts
      <4> QED
        BY <3>0, <4>2, <4>3
    <3>2. CASE ExecutesRead(c)
      <4>1. Cur(c) \in Bodies \cup {Absent}
        BY <1>0, <2>1, CallOf, CurIsStored, StoredType
      <4> QED
        BY <3>0, <3>2, <4>1 DEF ExecutesRead
    <3>3. CASE ExecutesDelete(c)
      BY <3>0, <3>3 DEF ExecutesDelete
    <3> QED
      BY <2>1, <3>1, <3>2, <3>3
  <2>3. pc' \in [Clients -> {"idle", "request", "response", "done"}]
    BY <1>0, <2>1 DEF TypeOK
  <2> QED
    BY <1>0, <2>1, <2>2, <2>3 DEF TypeOK
<1>3. ASSUME NEW c \in Clients, Retry(c) PROVE TypeOK'
  <2>1. pc' \in [Clients -> {"idle", "request", "response", "done"}]
    BY <1>t, <1>3 DEF Retry
  <2>2. attempts' \in [Clients -> Nat]
    BY <1>t, <1>3 DEF Retry
  <2>3. reply' \in [Clients -> [status : {"", "200", "404", "412"},
                                content : Bodies \cup {Absent}]]
    BY <1>0, <1>r, <1>3, Zenon DEF TypeOK, Retry
  <2> QED
    BY <1>0, <1>3, <2>1, <2>2, <2>3 DEF TypeOK, Retry, service
<1>4. ASSUME NEW c \in Clients, GiveUp(c) PROVE TypeOK'
  BY <1>0, <1>r, <1>f, <1>4 DEF TypeOK, GiveUp, Finish, service
<1>5. ASSUME NEW c \in Clients, Receive(c) PROVE TypeOK'
  <2>1. Meaning(c) \in Response
    BY <1>0, <1>5, MeaningType DEF Receive
  <2>2. reply' = [reply EXCEPT ![c] = NoReply]
    BY <1>5 DEF Receive, Finish
  <2>3. reply' \in [Clients -> [status : {"", "200", "404", "412"},
                                content : Bodies \cup {Absent}]]
    BY <1>0, <1>r, <2>2, Zenon DEF TypeOK
  <2>4. CASE DeleteFollows(c)
    <3>1. /\ pc' \in [Clients -> {"idle", "request", "response", "done"}]
          /\ hop' \in [Clients -> {"none", "put", "get", "head", "delete"}]
          /\ attempts' \in [Clients -> Nat]
      BY <1>t, <1>5, <2>4 DEF Receive
    <3> QED
      BY <1>0, <1>5, <2>3, <2>4, <3>1 DEF TypeOK, Receive, service
  <2>5. CASE ~DeleteFollows(c)
    <3>1. /\ pc' \in [Clients -> {"idle", "request", "response", "done"}]
          /\ resp' \in [Clients -> Response]
      BY <1>t, <1>5, <2>1, <2>5 DEF Receive, Finish
    <3> QED
      BY <1>0, <1>5, <2>3, <2>5, <3>1 DEF TypeOK, Receive, service
  <2> QED
    BY <2>4, <2>5
<1>6. ASSUME NEW c \in Clients, Return(c) PROVE TypeOK'
  BY <1>0, <1>f, <1>6 DEF TypeOK, Return, service
<1>7. CASE Replicate
  BY <1>0, <1>7, ReplicateEffect
<1>8. CASE UNCHANGED vars
  BY <1>0, <1>8 DEF TypeOK, vars, service
<1> QED
  BY <1>1, <1>2, <1>3, <1>4, <1>5, <1>6, <1>7, <1>8 DEF Next

(* What a step does at the sites.                                          *)
LEMMA NextSites ==
  ASSUME Seated, IInv, [Next]_vars
  PROVE  SeatsAgree' /\ (Stored' = Stored \/ \E c \in Clients : Execute(c))
<1>0. TypeOK /\ SeatsAgree
  BY DEF IInv
<1>1. ASSUME NEW c \in Clients, Execute(c)
      PROVE  SeatsAgree'
  BY <1>1, ExecuteEffect
<1>2. CASE Replicate
  BY <1>0, <1>2, ReplicateEffect
<1>3. CASE UNCHANGED service
  BY <1>0, <1>3, SitesStay
<1> QED
  BY <1>1, <1>2, <1>3 DEF Next, Invoke, Retry, GiveUp, Receive, Return, vars

LEMMA NextHopFits ==
  ASSUME Seated, IInv, [Next]_vars
  PROVE  HopFits'
<1>0. TypeOK /\ SeatsAgree /\ HopFits
  BY DEF IInv
<1>t. /\ pc \in [Clients -> {"idle", "request", "response", "done"}]
      /\ DOMAIN req = Clients /\ DOMAIN hop = Clients /\ attempts \in [Clients -> Nat]
      /\ DOMAIN reply = Clients /\ DOMAIN resp = Clients /\ wrote \in [Clients -> BOOLEAN]
      /\ MaxAttempts \in [Clients -> Nat \ {0}]
  BY <1>0, SiteAssumption DEF TypeOK
<1>1. ASSUME NEW c \in Clients, Step(c) PROVE Fits(c)'
  <2>0. Fits(c)
    BY <1>0 DEF HopFits
  <2>1. CASE Invoke(c)
    <3>1. PICK r \in Calls[c] : req' = [req EXCEPT ![c] = r] /\ hop' = [hop EXCEPT ![c] = FirstHop(r.op)]
      BY <2>1 DEF Invoke
    <3>2. /\ r \in Call /\ FirstHop(r.op) \in {"put", "get", "head"}
          /\ FirstHop(r.op) = "put" => r.op \in Writes
          /\ FirstHop(r.op) = "get" => r.op \in {"Get", "GetRange"}
          /\ FirstHop(r.op) = "head" => r.op \in {"Stat", "Delete"}
      BY CallsAssumption, CallFacts DEF FirstHop, Writes
    <3>3. ~wrote[c] /\ wrote'[c] = wrote[c] /\ attempts'[c] = 1 /\ pc'[c] = "request"
      BY <1>t, <2>0, <2>1 DEF Invoke, Fits
    <3>4. req'[c] = r /\ hop'[c] = FirstHop(r.op)
      BY <1>t, <3>1
    <3> QED
      BY <1>t, <3>2, <3>3, <3>4 DEF Fits
  <2>2. CASE Execute(c)
    <3>1. /\ pc[c] = "request" /\ pc'[c] = "response"
          /\ req'[c] = req[c] /\ hop'[c] = hop[c] /\ attempts'[c] = attempts[c]
          /\ ExecutesPut(c) \/ ExecutesRead(c) \/ ExecutesDelete(c)
      BY <1>t, <2>2, ExecuteEffect
    <3>2. CASE ExecutesPut(c)
      <4>1. req[c].ifMatch \in Preconds
        BY <1>0, <3>1, <3>2, CallOf, CallFacts DEF HopFits, Fits, ExecutesPut
      <4>2. PICK x \in PutStatus(req[c].ifMatch, Cur(c)) :
              reply' = [reply EXCEPT ![c] = [status |-> x, content |-> Absent]]
        BY <3>2 DEF ExecutesPut
      <4>3. x \in {"200", "404", "412"} /\ reply'[c].status = x
        BY <1>t, <4>1, <4>2, PutStatusFacts
      <4> QED
        BY <2>0, <3>1, <3>2, <4>3 DEF Fits, Replied, ExecutesPut
    <3>3. CASE ExecutesRead(c)
      <4>1. Cur(c) \in Bodies \cup {Absent}
        BY <1>0, <3>1, CallOf, CurIsStored, StoredType
      <4> QED
        BY <1>t, <2>0, <3>1, <3>3, <4>1 DEF ExecutesRead, Fits, Replied
    <3>4. CASE ExecutesDelete(c)
      BY <2>0, <3>1, <3>4 DEF ExecutesDelete, Fits, Replied
    <3> QED
      BY <3>1, <3>2, <3>3, <3>4
  <2>3. CASE Retry(c)
    BY <1>t, <2>0, <2>3 DEF Retry, MayRetry, Fits
  <2>4. CASE GiveUp(c)
    BY <1>t, <2>0, <2>4 DEF GiveUp, Finish, Fits
  <2>5. CASE Receive(c)
    BY <1>t, <2>0, <2>5 DEF Receive, Finish, Fits, DeleteFollows
  <2>6. CASE Return(c)
    BY <1>t, <2>0, <2>6 DEF Return, Fits
  <2> QED
    BY <1>1, <2>1, <2>2, <2>3, <2>4, <2>5, <2>6 DEF Step
<1>2. ASSUME NEW c \in Clients, Step(c) PROVE HopFits'
  BY <1>0, <1>1, <1>2, OthersStay DEF HopFits
<1>3. CASE Replicate \/ UNCHANGED vars
  BY <1>0, <1>3 DEF HopFits, Fits, Replied, Replicate, vars
<1> QED
  BY <1>2, <1>3 DEF Next, Step

LEMMA NextDeleteFinds ==
  ASSUME Seated, OneDeleter, IInv, [Next]_vars
  PROVE  DeleteFinds'
<1>0. TypeOK /\ SeatsAgree /\ HopFits /\ DeleteFinds
  BY DEF IInv
<1>t. /\ pc \in [Clients -> {"idle", "request", "response", "done"}]
      /\ DOMAIN req = Clients /\ DOMAIN hop = Clients /\ attempts \in [Clients -> Nat]
      /\ DOMAIN reply = Clients /\ DOMAIN resp = Clients /\ wrote \in [Clients -> BOOLEAN]
      /\ MaxAttempts \in [Clients -> Nat \ {0}]
  BY <1>0, SiteAssumption DEF TypeOK
<1>c. \A d \in Clients : pc[d] # "idle" =>
        /\ Cur(d) = Stored[req[d].key] /\ req[d].key \in Keys
        /\ req'[d] = req[d] => Cur(d)' = Stored'[req[d].key]
  BY <1>0, CallOf DEF Cur, Stored
<1>s. Stored \in [Keys -> Bodies \cup {Absent}]
  BY <1>0, StoredType
<1>1. ASSUME NEW c \in Clients, Step(c), ~Execute(c), NEW d \in Clients
      PROVE  Finds(d)'
  <2>1. Stored' = Stored
    BY <1>0, <1>1, SitesStay DEF Step, Invoke, Retry, GiveUp, Receive, Return
  <2>2. Finds(d) /\ Fits(d)
    BY <1>0 DEF DeleteFinds, HopFits
  <2>3. CASE d # c
    <3>1. Same(d)
      BY <1>0, <1>1, <2>3, OthersStay
    <3> QED
      BY <1>c, <2>1, <2>2, <3>1 DEF Same, Finds, DeleteFollows, Fits
  <2>4. CASE d = c
    <3>1. CASE Invoke(c)
      <4>1. pc'[c] = "request" /\ \E r \in Calls[c] : hop'[c] = FirstHop(r.op)
        BY <1>t, <3>1 DEF Invoke
      <4>2. hop'[c] # "delete"
        BY <4>1, CallsAssumption, CallFacts DEF FirstHop, Writes
      <4> QED
        BY <2>4, <4>1, <4>2 DEF Finds
    <3>2. CASE Retry(c)
      <4>1. /\ pc'[c] = "request" /\ hop'[c] = hop[c] /\ wrote'[c] = wrote[c]
            /\ pc[c] \in {"request", "response"} /\ req'[c] = req[c]
            /\ attempts[c] < MaxAttempts[c] /\ attempts[c] >= 1
        BY <1>t, <2>2, <2>4, <3>2 DEF Retry, MayRetry, Fits
      <4>2. c \in Resent
        BY <1>t, <4>1 DEF Resent
      <4> QED
        BY <1>c, <2>1, <2>2, <2>4, <4>1, <4>2 DEF Finds
    <3>3. CASE GiveUp(c)
      BY <1>t, <2>4, <3>3 DEF GiveUp, Finish, Finds
    <3>4. CASE Receive(c)
      <4>1. CASE DeleteFollows(c)
        <5>1. /\ pc[c] = "response" /\ pc'[c] = "request" /\ hop[c] = "head"
              /\ wrote'[c] = wrote[c] /\ req'[c] = req[c]
          BY <1>t, <3>4, <4>1 DEF Receive, DeleteFollows
        <5>2. ~wrote[c] /\ Cur(c) # Absent
          BY <2>2, <2>4, <4>1, <5>1 DEF Fits, Finds
        <5> QED
          BY <1>c, <2>1, <2>4, <5>1, <5>2 DEF Finds
      <4>2. CASE ~DeleteFollows(c)
        BY <1>t, <2>4, <3>4, <4>2 DEF Receive, Finish, Finds
      <4> QED
        BY <4>1, <4>2
    <3>5. CASE Return(c)
      BY <1>t, <2>4, <3>5 DEF Return, Finds
    <3> QED
      BY <1>1, <3>1, <3>2, <3>3, <3>4, <3>5 DEF Step
  <2> QED
    BY <2>3, <2>4
<1>2. ASSUME NEW c \in Clients, Execute(c), NEW d \in Clients
      PROVE  Finds(d)'
  <2>1. /\ pc[c] = "request" /\ pc'[c] = "response"
        /\ req'[c] = req[c] /\ hop'[c] = hop[c]
        /\ ExecutesPut(c) \/ ExecutesRead(c) \/ ExecutesDelete(c)
    BY <1>t, <1>2, ExecuteEffect
  <2>2. Finds(d) /\ Fits(d) /\ Fits(c) /\ Finds(c)
    BY <1>0 DEF DeleteFinds, HopFits
  <2>3. CASE d = c
    <3>1. CASE ExecutesPut(c)
      BY <2>1, <2>3, <3>1 DEF ExecutesPut, Finds, DeleteFollows
    <3>2. CASE ExecutesRead(c)
      BY <1>t, <1>c, <2>1, <2>3, <3>2 DEF ExecutesRead, Finds, DeleteFollows
    <3>3. CASE ExecutesDelete(c)
      BY <1>t, <1>c, <1>s, <2>1, <2>3, <3>3 DEF ExecutesDelete, Finds, DeleteFollows
    <3> QED
      BY <2>1, <3>1, <3>2, <3>3
  <2>4. CASE d # c
    <3>1. Same(d)
      BY <1>0, <1>2, <2>4, OthersStay DEF Step
    <3>2. CASE Stored' = Stored \/ pc[d] = "idle" \/ req[d].op # "Delete"
      BY <1>c, <2>2, <3>1, <3>2 DEF Same, Finds, DeleteFollows, Fits
    <3>3. CASE pc[d] # "idle" /\ req[d].op = "Delete" /\ Stored' # Stored
      <4>1. req[d] \in Calls[d] /\ req[c] \in Calls[c] /\ req[c] \in Call /\ req[c].key \in Keys
        BY <1>0, <2>1, <3>3, CallOf
      <4>2. CASE ExecutesPut(c)
        <5>1. /\ req[c].op \in Writes /\ req[c].body \in Bodies
              /\ Stored' = [Stored EXCEPT ![req[c].key] = req[c].body]
          BY <2>1, <2>2, <3>3, <4>1, <4>2, CallFacts DEF ExecutesPut, Fits
        <5>2. Cur(d) # Absent => Cur(d)' # Absent
          BY <1>c, <1>s, <3>1, <3>3, <4>1, <5>1, CallsAssumption DEF Same
        <5>3. d \in Resent => Cur(d)' = Cur(d)
          <6>1. d \in Resent => req[c].key # req[d].key
            BY <2>4, <3>3, <4>1, <5>1 DEF OneDeleter
          <6> QED
            BY <1>c, <1>s, <3>1, <3>3, <4>1, <5>1, <6>1 DEF Same
        <5> QED
          BY <2>2, <3>1, <5>2, <5>3 DEF Same, Finds, DeleteFollows
      <4>3. CASE ExecutesDelete(c)
        <5>1. req[c].op = "Delete" /\ Stored' = [Stored EXCEPT ![req[c].key] = Absent]
          BY <2>1, <2>2, <4>3 DEF ExecutesDelete, Fits
        <5>2. req[c].key # req[d].key
          BY <2>4, <3>3, <4>1, <5>1 DEF OneDeleter
        <5>3. Cur(d)' = Cur(d)
          BY <1>c, <1>s, <3>1, <3>3, <4>1, <5>1, <5>2 DEF Same
        <5> QED
          BY <2>2, <3>1, <5>3 DEF Same, Finds, DeleteFollows
      <4> QED
        BY <2>1, <3>3, <4>2, <4>3 DEF ExecutesRead
    <3> QED
      BY <3>2, <3>3
  <2> QED
    BY <2>3, <2>4
<1>3. CASE Replicate \/ UNCHANGED vars
  <2>1. Stored' = Stored
    BY <1>0, <1>3, ReplicateEffect, SitesStay DEF vars
  <2> QED
    BY <1>0, <1>3, <1>c, <2>1 DEF DeleteFinds, Finds, HopFits, Fits, DeleteFollows, Replicate, vars
<1> QED
  BY <1>1, <1>2, <1>3 DEF Next, Step, DeleteFinds

(* The invariant holds in every reachable state of a disciplined use.      *)
THEOREM Inductive ==
  ASSUME Seated, OneDeleter
  PROVE  Spec => []IInv
<1>1. Init => IInv
  <2> SUFFICES ASSUME Init PROVE IInv
    OBVIOUS
  <2>1. TypeOK
    <3>1. Blank \in Response
      BY DEF Response, Blank, Errs
    <3>2. NoReply \in [status : {"", "200", "404", "412"}, content : Bodies \cup {Absent}]
      BY DEF NoReply
    <3> QED
      BY <3>1, <3>2 DEF Init, TypeOK
  <2>2. SeatsAgree /\ HopFits /\ DeleteFinds
    BY DEF Init, SeatsAgree, HopFits, Fits, DeleteFinds, Finds
  <2> QED
    BY <2>1, <2>2 DEF IInv
<1>2. IInv /\ [Next]_vars => IInv'
  BY NextTypeOK, NextSites, NextHopFits, NextDeleteFinds DEF IInv
<1> QED
  BY <1>1, <1>2, PTL DEF Spec

-----------------------------------------------------------------------------
(* A step of one client changes at most its own outcome.                   *)
LEMMA OutcomeChange ==
  ASSUME TypeOK, NEW c \in Clients, Step(c)
  PROVE  Outcome' = [Outcome EXCEPT ![c] = Outcome'[c]]
<1>1. \A d \in Clients \ {c} : Outcome'[d] = Outcome[d]
  BY OthersStay
<1>2. Outcome' = [d \in Clients |-> Outcome'[d]] /\ Outcome = [d \in Clients |-> Outcome[d]]
  BY DEF Outcome
<1> QED
  BY <1>1, <1>2

(* The outcome of a client, by where it is; a response is not pending.     *)
LEMMA OutcomeOf ==
  ASSUME NEW c \in Clients
  PROVE  /\ pc[c] = "done" => Outcome[c] = resp[c]
         /\ pc[c] # "done" /\ hop[c] = "delete" /\ wrote[c] => Outcome[c] = Blank
         /\ pc[c] # "done" /\ ~(hop[c] = "delete" /\ wrote[c]) =>
              Outcome[c] = IF pc[c] = "response" /\ ~DeleteFollows(c) THEN Meaning(c)
                           ELSE Contract!Pending
BY DEF Outcome, Contract!Pending

LEMMA NotPending ==
  ASSUME NEW r \in Response
  PROVE  r # Contract!Pending
BY DEF Response, Errs, Contract!Pending

(* The contract's answers and effects, in the words of BucketTypes.        *)
LEMMA WriteEffect ==
  ASSUME NEW r \in PutCall, r.op \in Writes, NEW cur
  PROVE  /\ Contract!Holds(r.ifMatch, cur) =>
              /\ Contract!Answer(r, cur) = [Blank EXCEPT !.etag = ETag(r.body)]
              /\ Contract!Leaves(r, cur) = r.body
         /\ ~Contract!Holds(r.ifMatch, cur) =>
              /\ Contract!Answer(r, cur) = Fail("ErrPreconditionFailed")
              /\ Contract!Leaves(r, cur) = cur
BY DEF Contract!Answer, Contract!Leaves, Contract!Writes, Writes, Contract!Reads,
       Contract!Blank, Contract!NoTag, Blank, NoTag, Contract!ETag, ETag,
       Contract!Fail, Fail

LEMMA KeyEffect ==
  ASSUME NEW r \in Call, r.op \notin Writes, NEW cur
  PROVE  /\ r.op \in Reads => Contract!Leaves(r, cur) = cur
         /\ r.op = "Delete" => Contract!Leaves(r, cur) = Absent
         /\ cur = Absent => Contract!Answer(r, cur) = Fail("ErrNotFound")
         /\ cur # Absent =>
              /\ r.op = "Get" =>
                   Contract!Answer(r, cur) = [Blank EXCEPT !.body = cur, !.etag = ETag(cur)]
              /\ r.op = "GetRange" =>
                   Contract!Answer(r, cur) = [Blank EXCEPT !.body = cur, !.etag = NoTag]
              /\ r.op = "Stat" =>
                   Contract!Answer(r, cur) = [Blank EXCEPT !.etag = ETag(cur), !.size = Len(cur)]
              /\ r.op = "Delete" => Contract!Answer(r, cur) = Blank
<1>1. /\ [Blank EXCEPT !.body = cur, !.etag = NoTag] = [Blank EXCEPT !.body = cur]
      /\ [Blank EXCEPT !.body = cur, !.etag = ETag(cur)]
           = [Blank EXCEPT !.etag = ETag(cur), !.body = cur]
  <2>1. ASSUME NEW x
        PROVE  /\ [Blank EXCEPT !.body = cur, !.etag = x]
                    = [[Blank EXCEPT !.body = cur] EXCEPT !.etag = x]
               /\ [Blank EXCEPT !.etag = x, !.body = cur]
                    = [[Blank EXCEPT !.etag = x] EXCEPT !.body = cur]
    OBVIOUS
  <2>2. ASSUME NEW x
        PROVE  /\ [Blank EXCEPT !.body = cur]
                    = [err |-> "nil", etag |-> NoTag, body |-> cur, size |-> 0]
               /\ [Blank EXCEPT !.etag = x]
                    = [err |-> "nil", etag |-> x, body |-> Absent, size |-> 0]
    BY DEF Blank
  <2>3. ASSUME NEW x
        PROVE  /\ [[err |-> "nil", etag |-> NoTag, body |-> cur, size |-> 0] EXCEPT !.etag = x]
                    = [err |-> "nil", etag |-> x, body |-> cur, size |-> 0]
               /\ [[err |-> "nil", etag |-> x, body |-> Absent, size |-> 0] EXCEPT !.body = cur]
                    = [err |-> "nil", etag |-> x, body |-> cur, size |-> 0]
    OBVIOUS
  <2> QED
    BY <2>1, <2>2, <2>3
<1>2. /\ cur = Absent => Contract!Answer(r, cur) = Fail("ErrNotFound")
      /\ cur # Absent =>
              /\ r.op = "Get" =>
                   Contract!Answer(r, cur) = [Blank EXCEPT !.etag = ETag(cur), !.body = cur]
              /\ r.op = "GetRange" =>
                   Contract!Answer(r, cur) = [Blank EXCEPT !.body = cur]
              /\ r.op = "Stat" =>
                   Contract!Answer(r, cur) = [Blank EXCEPT !.etag = ETag(cur), !.size = Len(cur)]
              /\ r.op = "Delete" => Contract!Answer(r, cur) = Blank
  BY DEF Contract!Answer, Contract!Writes, Writes, Contract!Blank, Contract!NoTag, Blank, NoTag,
         Contract!ETag, ETag, Contract!Fail, Fail
<1>3. /\ r.op \in Reads => Contract!Leaves(r, cur) = cur
      /\ r.op = "Delete" => Contract!Leaves(r, cur) = Absent
  BY DEF Contract!Leaves, Contract!Writes, Contract!Reads, Reads
<1> QED
  BY <1>1, <1>2, <1>3

(* The service executes a request: the call takes effect, or nothing is to *)
(* be seen.                                                                *)
LEMMA ExecuteRefines ==
  ASSUME Seated, MissingStatus = {"412"}, IInv, NEW c \in Clients, Execute(c)
  PROVE  Contract!TakeEffect(c) \/ UNCHANGED Contract!vars
<1> DEFINE r == req[c]
           cur == Stored[r.key]
<1>0. TypeOK /\ HopFits /\ DeleteFinds /\ Fits(c) /\ Finds(c)
  BY DEF IInv, HopFits, DeleteFinds
<1>1. /\ pc[c] = "request" /\ pc' = [pc EXCEPT ![c] = "response"]
      /\ UNCHANGED <<req, hop, attempts, resp>>
      /\ ExecutesPut(c) \/ ExecutesRead(c) \/ ExecutesDelete(c)
  BY ExecuteEffect
<1>2. /\ r \in Call /\ r.key \in Keys /\ r # NoCall
      /\ r.op \in {"Put", "PutStream", "Get", "GetRange", "Stat", "Delete"}
      /\ r.op \in Writes => r \in PutCall /\ r.ifMatch \in Preconds
  BY <1>0, <1>1, CallOf, CallFacts
<1>3. Cur(c) = cur /\ Stored \in [Keys -> Bodies \cup {Absent}]
  BY <1>0, <1>1, CurIsStored, StoredType
<1>4. Outcome' = [Outcome EXCEPT ![c] = Outcome'[c]]
  BY <1>0, OutcomeChange DEF Step
<1>5. pc'[c] = "response" /\ hop'[c] = hop[c] /\ req'[c] = r /\ DOMAIN reply = Clients
      /\ DOMAIN wrote = Clients
  BY <1>0, <1>1 DEF TypeOK
<1>6. ASSUME Outcome[c] = Contract!Pending,
             Outcome'[c] = Contract!Answer(r, cur),
             Stored' = [Stored EXCEPT ![r.key] = Contract!Leaves(r, cur)]
      PROVE  Contract!TakeEffect(c)
  BY <1>1, <1>2, <1>4, <1>6 DEF Contract!TakeEffect, Contract!NoCall, NoCall
<1>7. CASE ExecutesPut(c)
  <2>1. hop[c] = "put" /\ r.op \in Writes /\ Outcome[c] = Contract!Pending
    BY <1>0, <1>1, <1>7, OutcomeOf DEF Fits, ExecutesPut
  <2>2. PICK x \in PutStatus(r.ifMatch, cur) :
          /\ reply'[c].status = x
          /\ Stored' = IF x = "200" THEN [Stored EXCEPT ![r.key] = r.body] ELSE Stored
    BY <1>3, <1>5, <1>7 DEF ExecutesPut
  <2>3. /\ x \in {"200", "412"}
        /\ x = "200" <=> Contract!Holds(r.ifMatch, cur)
    BY <1>2, <2>1, PutStatusFacts
  <2>4. Outcome'[c] = IF x = "200" THEN [Blank EXCEPT !.etag = ETag(r.body)]
                      ELSE Fail("ErrPreconditionFailed")
    <3>1. Outcome'[c] = Meaning(c)'
      BY <1>5, <2>1 DEF Outcome, DeleteFollows
    <3> QED
      BY <1>5, <2>1, <2>2, <2>3, <3>1 DEF Meaning
  <2>5. CASE x = "200"
    BY <1>2, <1>6, <2>1, <2>2, <2>3, <2>4, <2>5, WriteEffect
  <2>6. CASE x = "412"
    <3>1. /\ Contract!Answer(r, cur) = Fail("ErrPreconditionFailed")
          /\ Contract!Leaves(r, cur) = cur
      BY <1>2, <2>1, <2>3, <2>6, WriteEffect
    <3>2. Stored' = [Stored EXCEPT ![r.key] = cur]
      BY <1>2, <1>3, <2>2, <2>6
    <3> QED
      BY <1>6, <2>1, <2>4, <2>6, <3>1, <3>2
  <2> QED
    BY <2>3, <2>5, <2>6
<1>8. CASE ExecutesRead(c)
  <2>1. /\ hop[c] \in {"get", "head"} /\ Stored' = Stored
        /\ r.op \notin Writes /\ r.op \in Reads \cup {"Delete"}
        /\ hop[c] = "get" => r.op \in {"Get", "GetRange"}
        /\ hop[c] = "head" => r.op \in {"Stat", "Delete"}
        /\ Outcome[c] = Contract!Pending
    BY <1>0, <1>1, <1>8, OutcomeOf DEF Fits, ExecutesRead, Writes, Reads
  <2>2. /\ reply'[c].status = IF cur = Absent THEN "404" ELSE "200"
        /\ reply'[c].content = cur
    BY <1>3, <1>5, <1>8 DEF ExecutesRead
  <2>3. Stored' = [Stored EXCEPT ![r.key] = cur]
    BY <1>2, <1>3, <2>1
  <2>4. CASE cur = Absent
    <3>1. Outcome'[c] = Fail("ErrNotFound")
      <4>1. Outcome'[c] = Meaning(c)'
        BY <1>5, <2>1, <2>2, <2>4 DEF Outcome, DeleteFollows
      <4> QED
        BY <1>5, <2>1, <2>2, <2>4, <4>1 DEF Meaning
    <3>2. Contract!Answer(r, cur) = Fail("ErrNotFound") /\ Contract!Leaves(r, cur) = cur
      BY <1>2, <2>1, <2>4, KeyEffect
    <3> QED
      BY <1>6, <2>1, <2>3, <3>1, <3>2
  <2>5. CASE cur # Absent /\ r.op # "Delete"
    <3>1. Outcome'[c] = Meaning(c)'
      BY <1>5, <2>1, <2>5 DEF Outcome, DeleteFollows
    <3>2. Outcome'[c] = Contract!Answer(r, cur) /\ Contract!Leaves(r, cur) = cur
      <4>1. CASE hop[c] = "get"
        <5>1. Outcome'[c] = [Blank EXCEPT !.body = cur,
                                          !.etag = IF r.op = "Get" THEN ETag(cur) ELSE NoTag]
          BY <1>5, <2>2, <2>5, <3>1, <4>1 DEF Meaning
        <5> QED
          BY <1>2, <2>1, <2>5, <4>1, <5>1, KeyEffect DEF Reads
      <4>2. CASE hop[c] = "head"
        <5>1. Outcome'[c] = [Blank EXCEPT !.etag = ETag(cur), !.size = Len(cur)]
          BY <1>5, <2>2, <2>5, <3>1, <4>2 DEF Meaning
        <5> QED
          BY <1>2, <2>1, <2>5, <4>2, <5>1, KeyEffect DEF Reads
      <4> QED
        BY <2>1, <4>1, <4>2
    <3> QED
      BY <1>6, <2>1, <2>3, <3>2
  <2>6. CASE cur # Absent /\ r.op = "Delete"
    <3>1. hop[c] = "head" /\ DeleteFollows(c)'
      BY <1>5, <2>1, <2>2, <2>6 DEF DeleteFollows
    <3>2. Outcome'[c] = Outcome[c]
      BY <1>5, <2>1, <3>1 DEF Outcome, Contract!Pending
    <3> QED
      BY <1>1, <1>4, <2>1, <3>2 DEF Contract!vars, Outcome
  <2> QED
    BY <2>4, <2>5, <2>6
<1>9. CASE ExecutesDelete(c)
  <2>1. /\ hop[c] = "delete" /\ r.op = "Delete" /\ wrote'[c]
        /\ Stored' = [Stored EXCEPT ![r.key] = Absent]
    BY <1>0, <1>1, <1>5, <1>9 DEF Fits, ExecutesDelete
  <2>2. Outcome'[c] = Blank
    BY <1>5, <2>1 DEF Outcome
  <2>3. CASE wrote[c]
    <3>1. Stored' = Stored
      BY <1>0, <1>1, <1>2, <1>3, <2>1, <2>3 DEF Finds
    <3>2. Outcome[c] = Blank
      BY <1>1, <2>1, <2>3, OutcomeOf
    <3> QED
      BY <1>1, <1>4, <2>2, <3>1, <3>2 DEF Contract!vars, Outcome
  <2>4. CASE ~wrote[c]
    <3>1. Outcome[c] = Contract!Pending /\ cur # Absent
      BY <1>0, <1>1, <1>3, <2>1, <2>4, OutcomeOf DEF Finds
    <3>2. Contract!Answer(r, cur) = Blank /\ Contract!Leaves(r, cur) = Absent
      BY <1>2, <2>1, <3>1, KeyEffect DEF Writes
    <3> QED
      BY <1>6, <2>1, <2>2, <3>1, <3>2
  <2> QED
    BY <2>3, <2>4
<1> QED
  BY <1>1, <1>7, <1>8, <1>9

(* A request or its answer is lost: the client asks again, or gives up.    *)
LEMMA LossRefines ==
  ASSUME CasOnce, IInv, NEW c \in Clients, Retry(c) \/ GiveUp(c)
  PROVE  \/ Contract!AskAgain(c) \/ Contract!Unheard(c) \/ Contract!FailWithoutEffect(c)
         \/ UNCHANGED Contract!vars
<1> DEFINE r == req[c]
<1>0. TypeOK /\ SeatsAgree /\ HopFits /\ DeleteFinds /\ Fits(c) /\ Finds(c)
  BY DEF IInv, HopFits, DeleteFinds
<1>1. pc[c] \in {"request", "response"} /\ UNCHANGED <<service, req, hop, wrote>>
  BY DEF Retry, GiveUp
<1>2. Stored' = Stored
  BY <1>0, <1>1, SitesStay
<1>3. Outcome' = [Outcome EXCEPT ![c] = Outcome'[c]]
  BY <1>0, OutcomeChange DEF Step
<1>4. r \in Call /\ r # NoCall
  BY <1>0, <1>1, CallOf, CallFacts
<1>5. DOMAIN pc = Clients /\ DOMAIN reply = Clients /\ DOMAIN resp = Clients
      /\ attempts \in [Clients -> Nat] /\ MaxAttempts \in [Clients -> Nat \ {0}]
  BY <1>0, SiteAssumption DEF TypeOK
<1>6. CASE GiveUp(c)
  <2>1. Outcome' = [Outcome EXCEPT ![c] = Contract!Fail("io")]
    <3>1. pc'[c] = "done" /\ resp'[c] = Fail("io")
      BY <1>5, <1>6 DEF GiveUp, Finish
    <3>2. Outcome'[c] = Contract!Fail("io")
      BY <3>1 DEF Outcome, Contract!Fail, Fail, Contract!Blank, Blank, Contract!NoTag, NoTag
    <3> QED
      BY <1>3, <3>2
  <2> QED
    BY <1>1, <1>2, <1>4, <2>1 DEF Contract!Unheard, Contract!FailWithoutEffect, Contract!NoCall, NoCall
<1>7. CASE Retry(c)
  <2>1. /\ pc'[c] = "request" /\ hop'[c] = hop[c] /\ wrote'[c] = wrote[c]
        /\ attempts[c] < MaxAttempts[c] /\ attempts[c] >= 1
    BY <1>0, <1>1, <1>5, <1>7 DEF Retry, MayRetry, Fits
  <2>2. c \in Resent
    BY <1>5, <2>1 DEF Resent
  <2>3. CASE hop[c] = "delete" /\ wrote[c]
    <3>1. Outcome'[c] = Outcome[c]
      BY <1>1, <2>1, <2>3 DEF Outcome
    <3> QED
      BY <1>1, <1>2, <1>3, <3>1 DEF Contract!vars, Outcome
  <2>4. CASE ~(hop[c] = "delete" /\ wrote[c])
    <3>1. Outcome'[c] = Contract!Pending
      BY <2>1, <2>4 DEF Outcome, Contract!Pending
    <3>2. CASE Outcome[c] = Contract!Pending
      BY <1>1, <1>2, <1>3, <3>1, <3>2 DEF Contract!vars, Outcome
    <3>3. CASE Outcome[c] # Contract!Pending
      <4>1. Outcome[c] = Meaning(c) /\ pc[c] = "response" /\ ~DeleteFollows(c)
        BY <1>1, <2>4, <3>3, OutcomeOf
      <4>2. \/ r.op \in Contract!Reads
            \/ Outcome[c].err \in {"ErrPreconditionFailed", "ErrNotFound"}
            \/ r.op \in Contract!Writes /\ r.ifMatch = Contract!NoMatch /\ c \in Resent
        <5>1. CASE hop[c] = "put"
          BY <1>0, <1>1, <2>2, <5>1 DEF Fits, CasOnce, Contract!Writes, Writes,
             Contract!NoMatch, NoMatch
        <5>2. CASE hop[c] = "get" \/ r.op = "Stat"
          BY <1>0, <1>1, <5>2 DEF Fits, Contract!Reads
        <5>3. CASE hop[c] = "head" /\ r.op = "Delete"
          <6>1. reply[c].status = "404"
            BY <1>0, <4>1, <5>3 DEF DeleteFollows, Fits, Replied
          <6>2. Meaning(c) = Fail("ErrNotFound")
            BY <5>3, <6>1 DEF Meaning
          <6> QED
            BY <4>1, <6>2 DEF Fail, Blank
        <5>4. hop[c] # "delete"
          BY <1>0, <2>4, <4>1 DEF Finds
        <5> QED
          BY <1>0, <1>1, <5>1, <5>2, <5>3, <5>4 DEF Fits
      <4> QED
        BY <1>1, <1>2, <1>3, <3>1, <3>3, <4>2 DEF Contract!AskAgain
    <3> QED
      BY <3>2, <3>3
  <2> QED
    BY <2>3, <2>4
<1> QED
  BY <1>6, <1>7

(* Every step of the backend is a step of the contract, or invisible.      *)
LEMMA NextRefines ==
  ASSUME Seated, CasOnce, MissingStatus = {"412"}, IInv, [Next]_vars
  PROVE  [Contract!Next \/ \E c \in Clients : Contract!Unheard(c) \/ Contract!AskAgain(c)]_(Contract!vars)
<1> DEFINE Goal == [Contract!Next \/ \E c \in Clients : Contract!Unheard(c) \/ Contract!AskAgain(c)]_(Contract!vars)
<1>0. TypeOK /\ SeatsAgree /\ HopFits /\ DeleteFinds
  BY DEF IInv
<1>t. DOMAIN pc = Clients /\ DOMAIN req = Clients /\ DOMAIN hop = Clients
      /\ DOMAIN reply = Clients /\ resp \in [Clients -> Response] /\ DOMAIN wrote = Clients
  BY <1>0 DEF TypeOK
<1>1. ASSUME NEW c \in Clients, Invoke(c) PROVE Goal
  <2>1. /\ pc[c] = "idle" /\ req[c] = NoCall /\ hop[c] = "none"
        /\ \E r \in Calls[c] : req' = [req EXCEPT ![c] = r]
    BY <1>0, <1>1 DEF Invoke, HopFits, Fits
  <2>2. pc'[c] = "request" /\ hop'[c] # "delete"
    <3>1. pc'[c] = "request" /\ \E r \in Calls[c] : hop'[c] = FirstHop(r.op)
      BY <1>t, <1>1 DEF Invoke
    <3> QED
      BY <3>1, CallsAssumption, CallFacts DEF FirstHop, Writes
  <2>3. Outcome'[c] = Outcome[c]
    BY <2>1, <2>2 DEF Outcome
  <2>4. Outcome' = Outcome /\ Stored' = Stored
    <3>1. Outcome' = [Outcome EXCEPT ![c] = Outcome[c]]
      BY <1>0, <1>1, <2>3, OutcomeChange DEF Step
    <3> QED
      BY <1>0, <1>1, <3>1, SitesStay DEF Outcome, Invoke
  <2>5. Contract!Invoke(c)
    BY <2>1, <2>4 DEF Contract!Invoke, Contract!NoCall, NoCall
  <2> QED
    BY <2>5 DEF Contract!Next
<1>2. ASSUME NEW c \in Clients, Execute(c) PROVE Goal
  BY <1>2, ExecuteRefines DEF Contract!Next
<1>3. ASSUME NEW c \in Clients, Retry(c) \/ GiveUp(c) PROVE Goal
  BY <1>3, LossRefines DEF Contract!Next
<1>4. ASSUME NEW c \in Clients, Receive(c) PROVE Goal
  <2>0. Fits(c) /\ Finds(c) /\ pc[c] = "response" /\ UNCHANGED <<service, req, wrote>>
    BY <1>0, <1>4 DEF HopFits, DeleteFinds, Receive
  <2>1. Outcome'[c] = Outcome[c]
    <3>1. CASE DeleteFollows(c)
      <4>1. pc'[c] = "request" /\ hop[c] = "head" /\ ~wrote[c] /\ ~wrote'[c]
        BY <1>t, <1>4, <2>0, <3>1 DEF Receive, DeleteFollows, Fits
      <4> QED
        BY <2>0, <3>1, <4>1 DEF Outcome
    <3>2. CASE ~DeleteFollows(c)
      <4>1. pc'[c] = "done" /\ resp'[c] = Meaning(c)
        BY <1>t, <1>4, <3>2 DEF Receive, Finish
      <4>2. hop[c] = "delete" => wrote[c] /\ Meaning(c) = Blank
        BY <2>0 DEF Finds, Meaning
      <4> QED
        BY <2>0, <3>2, <4>1, <4>2 DEF Outcome
    <3> QED
      BY <3>1, <3>2
  <2>2. Outcome' = [Outcome EXCEPT ![c] = Outcome[c]]
    BY <1>0, <1>4, <2>1, OutcomeChange DEF Step
  <2>3. Stored' = Stored
    BY <1>0, <2>0, SitesStay
  <2> QED
    BY <2>0, <2>2, <2>3 DEF Contract!vars, Outcome
<1>5. ASSUME NEW c \in Clients, Return(c) PROVE Goal
  <2>1. Outcome[c] # Contract!Pending
    BY <1>t, <1>5, OutcomeOf, NotPending DEF Return
  <2>2. Outcome'[c] = Contract!Pending
    BY <1>t, <1>5 DEF Return, Outcome, Contract!Pending
  <2>3. Outcome' = [Outcome EXCEPT ![c] = Contract!Pending] /\ Stored' = Stored
    BY <1>0, <1>5, <2>2, OutcomeChange, SitesStay DEF Step, Return
  <2>4. Contract!Return(c)
    BY <1>5, <2>1, <2>3 DEF Return, Contract!Return, Contract!NoCall, NoCall
  <2> QED
    BY <2>4 DEF Contract!Next
<1>6. CASE Replicate \/ UNCHANGED vars
  <2>1. Stored' = Stored
    BY <1>0, <1>6, ReplicateEffect, SitesStay DEF vars
  <2>2. UNCHANGED <<pc, req, hop, reply, resp, wrote>>
    BY <1>6 DEF Replicate, vars
  <2>3. Outcome' = Outcome
    BY <2>2 DEF Outcome, DeleteFollows, Meaning
  <2> QED
    BY <2>1, <2>2, <2>3 DEF Contract!vars
<1> QED
  BY <1>1, <1>2, <1>3, <1>4, <1>5, <1>6 DEF Next

(***************************************************************************)
(* The S3 backend implements the contract of a bucket behind a network, if *)
(* all requests about a key go to one site (conditional writes and         *)
(* consistent reads carry X-Tigris-Consistent, s3.go:154-160), a key has   *)
(* one deleter, no conditional write is sent again, and the service        *)
(* refuses an If-Match with 412: lost requests, lost answers and the SDK's *)
(* retries included, every call takes effect on the content the key has at *)
(* the time, a conditional write and a Delete no more than once, and a     *)
(* refused write not at all (bucket.go:43, docs/SEMANTICS.md:23).          *)
(***************************************************************************)
THEOREM Refinement ==
  ASSUME Seated, OneDeleter, CasOnce, MissingStatus = {"412"}
  PROVE  Spec => ImplementsBucket
<1>1. Init => Contract!Init
  <2> SUFFICES ASSUME Init PROVE Contract!Init
    OBVIOUS
  <2>1. Stored = [k \in Keys |-> Absent]
    BY SiteAssumption DEF Init, Stored, Content
  <2>2. Outcome = [c \in Clients |-> Contract!Pending]
    BY DEF Init, Outcome, Contract!Pending
  <2> QED
    BY <2>1, <2>2 DEF Init, Contract!Init, Contract!NoCall, NoCall
<1>2. IInv /\ [Next]_vars =>
        [Contract!Next \/ \E c \in Clients : Contract!Unheard(c) \/ Contract!AskAgain(c)]_(Contract!vars)
  BY NextRefines
<1> QED
  BY <1>1, <1>2, Inductive, PTL DEF Spec, ImplementsBucket, Contract!RemoteSpec
=============================================================================
