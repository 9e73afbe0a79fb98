---------------------------- MODULE FSProperties ----------------------------
(***************************************************************************)
(* What the filesystem backend guarantees, and under which use of it.      *)
(***************************************************************************)
EXTENDS FS

(***************************************************************************)
(* How the bucket is used.  These are hypotheses about Calls and Keys, not *)
(* about the code: the guarantees below name the ones they need.           *)
(***************************************************************************)

(* A key that some client updates by compare-and-swap is written through   *)
(* one FS value only, and never deleted.                                   *)
CasSerialised ==
  \A c, d \in Clients : \A r \in Calls[c], s \in Calls[d] :
    (/\ r.op \in Writes
     /\ r.ifMatch \in ETags
     /\ s.key = r.key)
    => /\ s.op # "Delete"
       /\ s.op \in Writes => Home[d] = Home[c]

(* A key read with Get or Stat is content-addressed: all its writers write *)
(* the same body (heal.go: "content-addressed in practice").               *)
ReadsStable ==
  \A c, d, e \in Clients :
    \A r \in Calls[c], s \in Calls[d], t \in Calls[e] :
      (/\ r.op \in {"Get", "Stat"}
       /\ s.op \in Writes /\ t.op \in Writes
       /\ s.key = r.key /\ t.key = r.key)
      => s.body = t.body

(* No two keys share a path, and no key is a directory of another.         *)
PlainKeys ==
  /\ \A j, k \in Keys : keyPath(j) = keyPath(k) => j = k
  /\ DirPaths \cap Paths = {}

Disciplined == CasSerialised /\ ReadsStable /\ PlainKeys

-----------------------------------------------------------------------------
(***************************************************************************)
(* Every variable has a value of its type: directories are proper parents  *)
(* of object paths, temp files hold nothing or a body, mutexes are held by *)
(* clients of their own instance (OpenFS, keyPath, writeAndSync, FS.mu).   *)
(***************************************************************************)
TypeOK ==
  /\ files \in [Paths -> Bodies \cup {Absent}]
  /\ dirs \subseteq DirPaths
  /\ litter \subseteq Paths
  /\ mu \in [Instances -> Clients \cup {Free}]
  /\ pc \in [Clients -> Labels]
  /\ req \in [Clients -> Call \cup {NoCall}]
  /\ resp \in [Clients -> Response]
  /\ tmp \in [Clients -> Bodies \cup {<<>>, Absent}]
  /\ dir \in [Clients -> DirPaths \cup {Root}]

Critical == {"check", "commit", "unlink", "unlock"}
HasTemp  == {"spool", "discard", "lock", "check", "commit", "unlink"}

(* The steps that belong to each kind of call.                             *)
WriteSteps == {"mkdir", "create", "spool", "discard", "lock", "check",
               "commit", "unlink", "unlock"}

(***************************************************************************)
(* Put and PutStream hold FS.mu of their instance from checkIfMatch to     *)
(* their return, and nobody else does.                                     *)
(***************************************************************************)
MutexOwned ==
  \A c \in Clients : pc[c] \in Critical <=> mu[Home[c]] = c

(***************************************************************************)
(* A conditional write is committed on the view it was checked against: an *)
(* os.Rename for an entity tag replaces a file that still has that tag.    *)
(* docs/SEMANTICS.md: "Backends must evaluate each conditional write       *)
(* against the same linearizable view used to commit the replacement."     *)
(***************************************************************************)
CommitsCheckedView ==
  \A c \in Clients :
    (pc[c] = "commit" /\ req[c].ifMatch \in ETags) =>
      /\ files[PathOf(c)] # Absent
      /\ ETag(files[PathOf(c)]) = req[c].ifMatch

(***************************************************************************)
(* What checkIfMatch and commit see of a temp file is the complete body of *)
(* the call that made it, of the declared length (writeAndSync).           *)
(***************************************************************************)
TempComplete ==
  \A c \in Clients :
    pc[c] \in {"lock", "check", "commit"} =>
      tmp[c] = req[c].body /\ LengthOK(req[c])

(***************************************************************************)
(* A temp file exists only while its call is between writeAndSync and the  *)
(* os.Remove or os.Rename that ends it: no returned call leaves one behind *)
(* (fs.go:82, 89, 93, 119, 126, 130, 367).                                 *)
(***************************************************************************)
NoLeftovers ==
  \A c \in Clients : tmp[c] # Absent => pc[c] \in HasTemp

(***************************************************************************)
(* The inductive invariant: a client is only at steps of the call it made, *)
(* and the call is one of its own.                                         *)
(***************************************************************************)
CallFits ==
  \A c \in Clients :
    /\ pc[c] # "idle" => req[c] \in Calls[c]
    /\ pc[c] \in WriteSteps => req[c].op \in Writes
    /\ pc[c] \in {"remove", "prune"} => req[c].op = "Delete"

(* The mutex, the temp file and the call of every client agree with where  *)
(* it is in Put, PutStream or Delete: what every safety proof about fs.go  *)
(* starts from.                                                            *)
IInv == TypeOK /\ CallFits /\ MutexOwned /\ TempComplete /\ NoLeftovers

(***************************************************************************)
(* Delete's pruning never removes a directory that an object or a temp     *)
(* file lives in, whatever Put is doing at that moment: so the directory a *)
(* Put created is there when it commits.                                   *)
(***************************************************************************)
ParentsExist ==
  /\ \A p \in Paths : files[p] # Absent => Ancestors(p) \subseteq dirs
  /\ \A c \in Clients : tmp[c] # Absent => Ancestors(PathOf(c)) \subseteq dirs
  /\ \A d \in dirs : Ancestors(d) \subseteq dirs

(***************************************************************************)
(* The backend implements the Bucket contract.  A call takes effect in the *)
(* step in which its response is fixed; the content of a key is the        *)
(* content of its path.                                                    *)
(***************************************************************************)
Effective == {"discard", "unlink", "unlock", "prune", "done"}

Stored  == [k \in Keys |-> files[keyPath(k)]]
Outcome == [c \in Clients |-> IF pc[c] \in Effective THEN resp[c]
                              ELSE [err |-> "pending"]]

Contract == INSTANCE Bucket WITH
  Resent <- {}, store <- Stored, call <- req, outcome <- Outcome

(* Puts, deletes and reads of every client, crashes included, are          *)
(* linearizable and all-or-nothing (bucket.go:43), for Disciplined calls.  *)
ImplementsBucket == Contract!Spec

(***************************************************************************)
(* Every call returns: no failing path of Put keeps FS.mu, and pruning     *)
(* stops (the deferred Unlock of fs.go:87 and 124, the loop of fs.go:317). *)
(***************************************************************************)
CallsReturn == \A c \in Clients : (pc[c] # "idle") ~> (pc[c] = "idle")

(***************************************************************************)
(* An object disappears only by a Delete of its own key, never because its *)
(* name is pruned (fs.go:300 "Delete removes key", fs.go:315 "prune of     *)
(* empty parent dirs").                                                    *)
(***************************************************************************)
DeleteRemovesOnlyItsKey ==
  [][\A p \in Paths :
       (files[p] # Absent /\ files'[p] = Absent) =>
         \E c \in Clients : pc[c] = "remove" /\ PathOf(c) = p]_vars
=============================================================================
