------------------------------- MODULE Bucket -------------------------------
(***************************************************************************)
(* The contract of the Bucket interface (bucket.go and                     *)
(* docs/SEMANTICS.md): one linearizable store.  A call takes effect in one *)
(* atomic step between its invocation and its return, on the content the   *)
(* key has in that step; or it fails with another error and has no effect. *)
(***************************************************************************)
EXTENDS BucketTypes

CONSTANT Resent   \* the clients whose writes may be done again (RemoteSpec)

VARIABLES
  store,     \* the content of every key
  call,      \* the call each client has under way, or NoCall
  outcome    \* the response of a call that has taken effect

vars == <<store, call, outcome>>

Pending == [err |-> "pending"]

Init ==
  /\ store = [k \in Keys |-> Absent]
  /\ call = [c \in Clients |-> NoCall]
  /\ outcome = [c \in Clients |-> Pending]

(***************************************************************************)
(* The precondition of a conditional write against the current content.    *)
(***************************************************************************)
Holds(m, cur) ==
  \/ m = NoMatch
  \/ m = IfAbsent /\ cur = Absent
  \/ m \in ETags /\ cur # Absent /\ ETag(cur) = m

(***************************************************************************)
(* What a call answers, and what it leaves behind, when it takes effect    *)
(* while the key holds cur.                                                *)
(***************************************************************************)
Answer(r, cur) ==
  CASE r.op \in Writes ->
         IF Holds(r.ifMatch, cur)
         THEN [Blank EXCEPT !.etag = ETag(r.body)]
         ELSE Fail("ErrPreconditionFailed")
    [] r.op \notin Writes /\ cur = Absent -> Fail("ErrNotFound")
    [] r.op = "Get" /\ cur # Absent ->
         [Blank EXCEPT !.etag = ETag(cur), !.body = cur]
    [] r.op = "GetRange" /\ cur # Absent -> [Blank EXCEPT !.body = cur]
    [] r.op = "Stat" /\ cur # Absent ->
         [Blank EXCEPT !.etag = ETag(cur), !.size = Len(cur)]
    [] r.op = "Delete" /\ cur # Absent -> Blank

Leaves(r, cur) ==
  CASE r.op \in Writes -> IF Holds(r.ifMatch, cur) THEN r.body ELSE cur
    [] r.op = "Delete" -> Absent
    [] r.op \in Reads -> cur

Invoke(c) ==
  /\ call[c] = NoCall
  /\ \E r \in Calls[c] : call' = [call EXCEPT ![c] = r]
  /\ UNCHANGED <<store, outcome>>

TakeEffect(c) ==
  /\ call[c] # NoCall
  /\ outcome[c] = Pending
  /\ LET r == call[c]
         k == r.key
     IN /\ outcome' = [outcome EXCEPT ![c] = Answer(r, store[k])]
        /\ store' = [store EXCEPT ![k] = Leaves(r, store[k])]
  /\ UNCHANGED call

FailWithoutEffect(c) ==
  /\ call[c] # NoCall
  /\ outcome[c] = Pending
  /\ \E e \in {"ctx", "key", "body", "io"} :
       outcome' = [outcome EXCEPT ![c] = Fail(e)]
  /\ UNCHANGED <<store, call>>

Return(c) ==
  /\ outcome[c] # Pending
  /\ call' = [call EXCEPT ![c] = NoCall]
  /\ outcome' = [outcome EXCEPT ![c] = Pending]
  /\ UNCHANGED store

(***************************************************************************)
(* A process dies: the calls it had under way never return.  Each of them  *)
(* has taken effect completely or not at all, and does so no more.         *)
(***************************************************************************)
Die(S) ==
  /\ call' = [c \in Clients |-> IF c \in S THEN NoCall ELSE call[c]]
  /\ outcome' = [c \in Clients |-> IF c \in S THEN Pending ELSE outcome[c]]
  /\ UNCHANGED store

Next ==
  \/ \E c \in Clients : \/ Invoke(c) \/ TakeEffect(c)
                        \/ FailWithoutEffect(c) \/ Return(c)
  \/ \E S \in SUBSET Clients : Die(S)

Spec == Init /\ [][Next]_vars

-----------------------------------------------------------------------------
(***************************************************************************)
(* A bucket behind a network.  The caller may not hear of what its call    *)
(* did; a read, and a call refused without effect, may be asked for again; *)
(* and an unconditional write by a client in Resent may be done again, on  *)
(* the content the key has then.  A conditional write that has taken       *)
(* effect is done: it is never answered ErrPreconditionFailed any more.    *)
(***************************************************************************)
Unheard(c) ==
  /\ outcome[c] # Pending
  /\ outcome' = [outcome EXCEPT ![c] = Fail("io")]
  /\ UNCHANGED <<store, call>>

AskAgain(c) ==
  /\ outcome[c] # Pending
  /\ \/ call[c].op \in Reads
     \/ outcome[c].err \in {"ErrPreconditionFailed", "ErrNotFound"}
     \/ call[c].op \in Writes /\ call[c].ifMatch = NoMatch /\ c \in Resent
  /\ outcome' = [outcome EXCEPT ![c] = Pending]
  /\ UNCHANGED <<store, call>>

RemoteSpec ==
  Init /\ [][Next \/ \E c \in Clients : Unheard(c) \/ AskAgain(c)]_vars
=============================================================================
