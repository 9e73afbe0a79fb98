--------------------------------- MODULE S3 ---------------------------------
(***************************************************************************)
(* The S3 backend (s3.go).  A method is one request to the service, Delete *)
(* is two; the SDK sends a request again when it, or its response, is      *)
(* lost.                                                                   *)
(*                                                                         *)
(* The service is external.  It has a leader and, in some buckets, regions *)
(* with a copy that trails behind it (Tigris).  A request that carries     *)
(* X-Tigris-Consistent goes to the leader, any other one to the site of    *)
(* the client; what a region was given reaches the leader later, the last  *)
(* writer winning.                                                         *)
(***************************************************************************)
EXTENDS BucketTypes

CONSTANTS
  Leader,        \* the leader's site
  Regions,       \* the sites with a copy
  Site,          \* Site[c]: the site nearest to client c
  Consistent,    \* the clients whose context has WithConsistentRead
  MaxAttempts,   \* MaxAttempts[c]: the attempts the SDK of client c makes
  MissingStatus, \* the service's answers to If-Match for a missing object
  Seat           \* Seat[k]: the site where k is used

ASSUME SiteAssumption ==
  /\ Leader \notin Regions
  /\ Site \in [Clients -> Regions \cup {Leader}]
  /\ Consistent \subseteq Clients
  /\ MaxAttempts \in [Clients -> Nat \ {0}]
  /\ MissingStatus \in (SUBSET {"404", "412"}) \ {{}}
  /\ Seat \in [Keys -> Regions \cup {Leader}]

VARIABLES
  leader,     \* the content of every key at the leader
  copy,       \* ... and at every region
  ahead,      \* the <<region, key>> whose content has not reached the leader
  pc,         \* where each client is
  req,        \* the call it has under way
  hop,        \* the request it sends: "put", "get", "head" or "delete"
  attempts,   \* how often it has sent it
  reply,      \* the response of the service, on its way
  resp,       \* what the method returns
  wrote       \* history: the call has changed the store (for the mapping)

service == <<leader, copy, ahead>>
vars    == <<service, pc, req, hop, attempts, reply, resp, wrote>>

NoReply == [status |-> "", content |-> Absent]

Init ==
  /\ leader = [k \in Keys |-> Absent]
  /\ copy = [g \in Regions |-> leader]
  /\ ahead = {}
  /\ pc = [c \in Clients |-> "idle"]
  /\ req = [c \in Clients |-> NoCall]
  /\ hop = [c \in Clients |-> "none"]
  /\ attempts = [c \in Clients |-> 0]
  /\ reply = [c \in Clients |-> NoReply]
  /\ resp = [c \in Clients |-> Blank]
  /\ wrote = [c \in Clients |-> FALSE]

-----------------------------------------------------------------------------
(* The service.                                                            *)
Pull(g, k) ==
  /\ <<g, k>> \notin ahead
  /\ copy' = [copy EXCEPT ![g][k] = leader[k]]
  /\ UNCHANGED <<leader, ahead>>

Push(g, k) ==
  /\ <<g, k>> \in ahead
  /\ leader' = [leader EXCEPT ![k] = copy[g][k]]
  /\ ahead' = ahead \ {<<g, k>>}
  /\ UNCHANGED copy

Replicate ==
  /\ \E g \in Regions, k \in Keys : Pull(g, k) \/ Push(g, k)
  /\ UNCHANGED <<pc, req, hop, attempts, reply, resp, wrote>>

Content(g, k) == IF g = Leader THEN leader[k] ELSE copy[g][k]

Store(g, k, v) ==
  IF g = Leader
  THEN leader' = [leader EXCEPT ![k] = v] /\ UNCHANGED <<copy, ahead>>
  ELSE /\ copy' = [copy EXCEPT ![g][k] = v]
       /\ ahead' = ahead \cup {<<g, k>>}
       /\ UNCHANGED leader

(* If-None-Match: * and If-Match against the content.  What a service      *)
(* answers to an If-Match for a missing object is its own choice.          *)
PutStatus(m, cur) ==
  CASE m = NoMatch -> {"200"}
    [] m = IfAbsent -> IF cur = Absent THEN {"200"} ELSE {"412"}
    [] m \in ETags -> IF cur = Absent THEN MissingStatus
                      ELSE IF ETag(cur) = m THEN {"200"} ELSE {"412"}

-----------------------------------------------------------------------------
(* The request a method starts with.                                       *)
FirstHop(op) ==
  CASE op \in Writes -> "put"
    [] op \in {"Get", "GetRange"} -> "get"
    [] op \in {"Stat", "Delete"} -> "head"

(* conditionalOpts and consistentReadFromContext: where it is evaluated.   *)
TargetNoHeader(c, r) == Site[c]   \* mutant: no X-Tigris-Consistent on a put
Target(c, r) ==
  IF \/ r.op \in Writes /\ r.ifMatch # NoMatch
     \/ r.op = "Get" /\ c \in Consistent
  THEN Leader ELSE Site[c]

Invoke(c) ==
  /\ pc[c] = "idle"
  /\ \E r \in Calls[c] : /\ req' = [req EXCEPT ![c] = r]
                         /\ hop' = [hop EXCEPT ![c] = FirstHop(r.op)]
  /\ attempts' = [attempts EXCEPT ![c] = 1]
  /\ pc' = [pc EXCEPT ![c] = "request"]
  /\ UNCHANGED <<service, reply, resp, wrote>>

(* The service executes the request and answers.                           *)
Answers(c, status, content) ==
  reply' = [reply EXCEPT ![c] = [status |-> status, content |-> content]]

Execute(c) ==
  LET k   == req[c].key
      g   == Target(c, req[c])
      cur == Content(g, k)
  IN /\ pc[c] = "request"
     /\ \/ /\ hop[c] = "put"
           /\ \E st \in PutStatus(req[c].ifMatch, cur) :
                /\ Answers(c, st, Absent)
                /\ IF st = "200" THEN Store(g, k, req[c].body) ELSE UNCHANGED service
                /\ wrote' = [wrote EXCEPT ![c] = @ \/ st = "200"]
        \/ /\ hop[c] \in {"get", "head"}
           /\ Answers(c, IF cur = Absent THEN "404" ELSE "200", cur)
           /\ UNCHANGED <<service, wrote>>
        \/ /\ hop[c] = "delete"
           /\ Answers(c, "200", Absent)
           /\ Store(g, k, Absent)
           /\ wrote' = [wrote EXCEPT ![c] = TRUE]
     /\ pc' = [pc EXCEPT ![c] = "response"]
     /\ UNCHANGED <<req, hop, attempts, resp>>

Finish(c, r) ==
  /\ pc' = [pc EXCEPT ![c] = "done"]
  /\ resp' = [resp EXCEPT ![c] = r]
  /\ reply' = [reply EXCEPT ![c] = NoReply]

(* The request or its response is lost, and the SDK sends it again.        *)
MayRetry(c) == attempts[c] < MaxAttempts[c]

Retry(c) ==
  /\ pc[c] \in {"request", "response"}
  /\ MayRetry(c)
  /\ pc' = [pc EXCEPT ![c] = "request"]
  /\ attempts' = [attempts EXCEPT ![c] = @ + 1]
  /\ reply' = [reply EXCEPT ![c] = NoReply]
  /\ UNCHANGED <<service, req, hop, resp, wrote>>

(* The attempts are used up or the context ends: every method wraps the    *)
(* SDK's error.                                                            *)
GiveUp(c) ==
  /\ pc[c] \in {"request", "response"}
  /\ Finish(c, Fail("io"))
  /\ UNCHANGED <<service, req, hop, attempts, wrote>>

(* What a method makes of the service's answer: isPreconditionFailed only  *)
(* knows 412, isNotFound only 404.                                         *)
Meaning(c) ==
  LET a == reply[c] IN
  CASE hop[c] = "put" ->
         CASE a.status = "200" -> [Blank EXCEPT !.etag = ETag(req[c].body)]
           [] a.status = "412" -> Fail("ErrPreconditionFailed")
           [] OTHER -> Fail("status")
    [] hop[c] \in {"get", "head"} /\ a.status = "404" -> Fail("ErrNotFound")
    [] hop[c] = "get" /\ a.status = "200" ->
         [Blank EXCEPT !.body = a.content,
                       !.etag = IF req[c].op = "Get" THEN ETag(a.content) ELSE NoTag]
    [] hop[c] = "head" /\ a.status = "200" ->
         [Blank EXCEPT !.etag = ETag(a.content), !.size = Len(a.content)]
    [] hop[c] = "delete" -> Blank

(* Delete's HEAD has found the object: the DELETE follows.                 *)
DeleteFollows(c) == req[c].op = "Delete" /\ hop[c] = "head" /\ reply[c].status = "200"

Receive(c) ==
  /\ pc[c] = "response"
  /\ \/ /\ DeleteFollows(c)
        /\ hop' = [hop EXCEPT ![c] = "delete"]
        /\ attempts' = [attempts EXCEPT ![c] = 1]
        /\ pc' = [pc EXCEPT ![c] = "request"]
        /\ reply' = [reply EXCEPT ![c] = NoReply]
        /\ UNCHANGED resp
     \/ /\ ~DeleteFollows(c)
        /\ Finish(c, Meaning(c))
        /\ UNCHANGED <<hop, attempts>>
  /\ UNCHANGED <<service, req, wrote>>

Return(c) ==
  /\ pc[c] = "done"
  /\ pc' = [pc EXCEPT ![c] = "idle"]
  /\ req' = [req EXCEPT ![c] = NoCall]
  /\ hop' = [hop EXCEPT ![c] = "none"]
  /\ attempts' = [attempts EXCEPT ![c] = 0]
  /\ resp' = [resp EXCEPT ![c] = Blank]
  /\ wrote' = [wrote EXCEPT ![c] = FALSE]
  /\ UNCHANGED <<service, reply>>

Next == \/ Replicate
        \/ \E c \in Clients : \/ Invoke(c) \/ Execute(c) \/ Retry(c) \/ GiveUp(c)
                              \/ Receive(c) \/ Return(c)

Spec == Init /\ [][Next]_vars

-----------------------------------------------------------------------------
(***************************************************************************)
(* How the bucket is used.  A key is deleted by one client at most, and by *)
(* one that has requests sent again only if nobody else writes it; a       *)
(* client that makes conditional writes has no request sent again.  A key  *)
(* that is updated or read linearizably (consistentread.go) has its seat   *)
(* at the leader, and every other call about a key is made at its seat.    *)
(***************************************************************************)
Resent == {c \in Clients : MaxAttempts[c] > 1}

OneDeleter ==
  \A c, d \in Clients : \A r \in Calls[c], q \in Calls[d] :
    (/\ r.op = "Delete" /\ q.key = r.key
     /\ q.op = "Delete" \/ (q.op \in Writes /\ c \in Resent)) => c = d

CasOnce ==
  \A c \in Resent : \A r \in Calls[c] : r.op \in Writes => r.ifMatch = NoMatch

Linearizable(c, r) == \/ r.op \in Writes /\ r.ifMatch # NoMatch
                      \/ r.op = "Get" /\ c \in Consistent

Seated ==
  \A c \in Clients : \A r \in Calls[c] :
    Seat[r.key] = IF Linearizable(c, r) THEN Leader ELSE Site[c]

(***************************************************************************)
(* The backend implements the contract of a bucket behind a network, for a *)
(* disciplined use of a service that refuses an If-Match with 412.  A call *)
(* takes effect when the service executes the request that decides it; a   *)
(* conditional write and a Delete no more than once.                       *)
(***************************************************************************)
Stored  == [k \in Keys |-> Content(Seat[k], k)]
Outcome == [c \in Clients |->
              IF pc[c] = "done" THEN resp[c]
              ELSE IF hop[c] = "delete" /\ wrote[c] THEN Blank
              ELSE IF pc[c] = "response" /\ ~DeleteFollows(c) THEN Meaning(c)
              ELSE [err |-> "pending"]]

Contract == INSTANCE Bucket WITH store <- Stored, call <- req, outcome <- Outcome

(* Conditional writes from any region, consistent reads, and plain calls   *)
(* within a region are linearizable; what a lost answer leaves open is     *)
(* whether the call took effect, and, for a plain write that the SDK sends *)
(* again, how often (bucket.go:43, s3.go:154-160).                         *)
ImplementsBucket == Contract!RemoteSpec

(* A conditional write that is refused has not changed the object: "A      *)
(* failed precondition returns ErrPreconditionFailed without changing the  *)
(* object" (docs/SEMANTICS.md:23).                                         *)
RefusedUnchanged ==
  \A c \in Clients :
    (pc[c] = "done" /\ resp[c].err = "ErrPreconditionFailed") => ~wrote[c]
=============================================================================
