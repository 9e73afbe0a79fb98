--------------------------------- MODULE FS ---------------------------------
(***************************************************************************)
(* The filesystem backend (fs.go).  Each step is one system call, or a run *)
(* of them that no other call can tell apart from one.                     *)
(*                                                                         *)
(* The objects of one directory tree are shared by the clients of several  *)
(* FS values: Home[c] is the FS value (one per OpenFS, usually one per     *)
(* process) client c calls, and each FS value has a mutex of its own.      *)
(***************************************************************************)
EXTENDS BucketTypes, FiniteSets

CONSTANTS
  Instances,   \* the FS values opened on the root
  Home,        \* Home[c]: the FS value that client c calls
  Free,        \* the state of a mutex nobody holds
  DotNames     \* the names that contain ".."

ASSUME HomeAssumption ==
  /\ Home \in [Clients -> Instances]
  /\ Free \notin Clients
  /\ DotNames \subseteq STRING /\ ".." \in DotNames

VARIABLES
  files,     \* the content of every object path, Absent when there is none
  dirs,      \* the directories below the root
  litter,    \* object paths that have a temp file of a dead process beside them
  mu,        \* FS.mu of every instance: its holder, or Free
  pc,        \* where each client is
  req,       \* the call each client has under way
  resp,      \* its response, complete once the call has taken effect
  tmp,       \* its temp file: the bytes spooled, Absent when there is none
  dir        \* the directory MkdirAll has reached, or Delete prunes next

vars == <<files, dirs, litter, mu, pc, req, resp, tmp, dir>>

(***************************************************************************)
(* Paths.  The path of a key is the sequence of its segments below the     *)
(* root; filepath.Join drops "." segments.  keyPath refuses a key with an  *)
(* empty segment (the empty key is <<"">>) or one that contains "..",      *)
(* anywhere in the segment.                                                *)
(***************************************************************************)
keyPath(k)   == SelectSeq(k, LAMBDA s : s # ".")
Refused(k)   == \E i \in DOMAIN k : k[i] \in DotNames \cup {""}
Paths        == {keyPath(k) : k \in Keys}
Root         == <<>>
Dir(p)       == SubSeq(p, 1, Len(p) - 1)
Ancestors(p) == {SubSeq(p, 1, i) : i \in 1..(Len(p) - 1)}
DirPaths     == UNION {Ancestors(p) : p \in Paths}

(* Every key names a path below the root: only a key of nothing but "."    *)
(* segments would not.                                                     *)
ASSUME PathsAssumption == \A k \in Keys : keyPath(k) \in Seq(STRING) \ {Root}

PathOf(c) == keyPath(req[c].key)

IsFile(p) == p \in Paths /\ files[p] # Absent
IsDir(p)  == p = Root \/ p \in dirs

(***************************************************************************)
(* What a system call finds at path p: a file, a directory, nothing        *)
(* (ENOENT), or a path that runs through a file (ENOTDIR).                 *)
(***************************************************************************)
Probe(p) ==
  IF \E a \in Ancestors(p) : IsFile(a) THEN "ENOTDIR"
  ELSE IF p \in dirs THEN "dir"
  ELSE IF IsFile(p) THEN "file"
  ELSE "ENOENT"

(* rmdir removes only an empty directory: temp files count.                *)
Empty(d) ==
  /\ \A p \in Paths : IsFile(p) => Dir(p) # d
  /\ \A e \in dirs : Dir(e) # d
  /\ \A c \in Clients : tmp[c] # Absent => Dir(PathOf(c)) # d
  /\ \A p \in litter : Dir(p) # d

-----------------------------------------------------------------------------
Labels == {"idle", "entry", "mkdir", "create", "spool", "discard", "lock",
           "check", "commit", "unlink", "unlock", "etag", "open", "stat",
           "statetag", "remove", "prune", "done"}

(* The first step of an operation after the checks every one starts with.  *)
First(op) ==
  CASE op \in Writes   -> "mkdir"
    [] op = "Get"      -> "etag"
    [] op = "GetRange" -> "open"
    [] op = "Stat"     -> "stat"
    [] op = "Delete"   -> "remove"

Goto(c, l)   == pc' = [pc EXCEPT ![c] = l]
Answer(c, r) == resp' = [resp EXCEPT ![c] = r]
Finish(c, r) == Goto(c, "done") /\ Answer(c, r)

disk == <<files, dirs, litter>>

Init ==
  /\ files = [p \in Paths |-> Absent]
  /\ dirs = {}
  /\ litter = {}
  /\ mu = [i \in Instances |-> Free]
  /\ pc = [c \in Clients |-> "idle"]
  /\ req = [c \in Clients |-> NoCall]
  /\ resp = [c \in Clients |-> Blank]
  /\ tmp = [c \in Clients |-> Absent]
  /\ dir = [c \in Clients |-> Root]

Invoke(c) ==
  /\ pc[c] = "idle"
  /\ \E r \in Calls[c] : req' = [req EXCEPT ![c] = r]
  /\ Goto(c, "entry")
  /\ UNCHANGED <<disk, mu, resp, tmp, dir>>

(* ctx.Err, then keyPath: the checks every operation starts with.          *)
Enter(c) ==
  /\ pc[c] = "entry"
  /\ \/ Finish(c, Fail("ctx"))
     \/ Refused(req[c].key) /\ Finish(c, Fail("key"))
     \/ /\ ~Refused(req[c].key)
        /\ Goto(c, First(req[c].op))
        /\ UNCHANGED resp
  /\ UNCHANGED <<disk, mu, req, tmp, dir>>

-----------------------------------------------------------------------------
(* Put and PutStream.                                                      *)

(* MkdirAll makes the missing parents one by one; a concurrent Delete may  *)
(* prune the one just made, and mkdir then fails.                          *)
AllMadeOffByOne(c) == Len(dir[c]) >= Len(PathOf(c))   \* mutant: MkdirAll(path)
AllMade(c)         == Len(dir[c]) + 1 >= Len(PathOf(c))

MkdirAll(c) ==
  /\ pc[c] = "mkdir"
  /\ LET d == SubSeq(PathOf(c), 1, Len(dir[c]) + 1)
     IN \/ /\ AllMade(c)
           /\ Goto(c, "create")
           /\ dir' = [dir EXCEPT ![c] = Root]
           /\ UNCHANGED <<dirs, resp>>
        \/ /\ ~AllMade(c)
           /\ IsFile(d) \/ ~IsDir(dir[c])
           /\ Finish(c, Fail("io"))
           /\ dir' = [dir EXCEPT ![c] = Root]
           /\ UNCHANGED dirs
        \/ /\ ~AllMade(c)
           /\ ~IsFile(d) /\ IsDir(dir[c])
           /\ dirs' = dirs \cup {d}
           /\ dir' = [dir EXCEPT ![c] = d]
           /\ UNCHANGED <<pc, resp>>
  /\ UNCHANGED <<files, litter, mu, req, tmp>>

(* writeAndSync opens the temp file with O_CREATE|O_EXCL.  Its name is     *)
(* random, so the only obstacle is a parent that was pruned meanwhile.     *)
CreateTemp(c) ==
  /\ pc[c] = "create"
  /\ IF IsDir(Dir(PathOf(c)))
     THEN /\ tmp' = [tmp EXCEPT ![c] = <<>>]
          /\ Goto(c, "spool")
          /\ UNCHANGED resp
     ELSE Finish(c, Fail("io")) /\ UNCHANGED tmp
  /\ UNCHANGED <<disk, mu, req, dir>>

(* ... copies the body into it, checks the count against the declared      *)
(* length (-1: unknown) and syncs.  The reader or the disk may fail.       *)
LengthOK(r) == r.length >= 0 => Len(r.body) = r.length

WriteAndSync(c) ==
  /\ pc[c] = "spool"
  /\ \/ /\ LengthOK(req[c])
        /\ tmp' = [tmp EXCEPT ![c] = req[c].body]
        /\ Goto(c, "lock")
        /\ UNCHANGED resp
     \/ /\ Answer(c, Fail("body"))
        /\ Goto(c, "discard")
        /\ UNCHANGED tmp
  /\ UNCHANGED <<disk, mu, req, dir>>

(* os.Remove(tmp) when writeAndSync failed.                                *)
Discard(c) ==
  /\ pc[c] = "discard"
  /\ tmp' = [tmp EXCEPT ![c] = Absent]
  /\ Goto(c, "done")
  /\ UNCHANGED <<disk, mu, req, resp, dir>>

(* Mutant: the mutex is not awaited.                                       *)
LockUnguarded(c) ==
  /\ pc[c] = "lock"
  /\ mu' = [mu EXCEPT ![Home[c]] = c]
  /\ Goto(c, "check")
  /\ UNCHANGED <<disk, req, resp, tmp, dir>>

Lock(c) ==
  /\ pc[c] = "lock"
  /\ mu[Home[c]] = Free
  /\ mu' = [mu EXCEPT ![Home[c]] = c]
  /\ Goto(c, "check")
  /\ UNCHANGED <<disk, req, resp, tmp, dir>>

(* checkIfMatch: os.Stat for IfAbsent, fileETag for an entity tag.  Reading *)
(* the file is one step: its inode never changes once it has a name.       *)
IfMatchError(m, p) ==
  CASE m = NoMatch -> "nil"
    [] m = IfAbsent -> CASE Probe(p) = "ENOENT" -> "nil"
                         [] Probe(p) = "ENOTDIR" -> "io"
                         [] OTHER -> "ErrPreconditionFailed"
    [] m \in ETags -> CASE Probe(p) = "ENOENT" -> "ErrPreconditionFailed"
                        [] Probe(p) \in {"dir", "ENOTDIR"} -> "io"
                        [] Probe(p) = "file" ->
                             IF ETag(files[p]) = m THEN "nil"
                             ELSE "ErrPreconditionFailed"

(* Mutant: the failing path forgets os.Remove(tmp).                        *)
CheckIfMatchKeepsTemp(c) ==
  /\ pc[c] = "check"
  /\ LET e == IfMatchError(req[c].ifMatch, PathOf(c)) IN
       IF e = "nil"
       THEN Goto(c, "commit") /\ UNCHANGED resp
       ELSE Goto(c, "unlock") /\ Answer(c, Fail(e))
  /\ UNCHANGED <<disk, mu, req, tmp, dir>>

CheckIfMatch(c) ==
  /\ pc[c] = "check"
  /\ LET e == IfMatchError(req[c].ifMatch, PathOf(c)) IN
       IF e = "nil"
       THEN Goto(c, "commit") /\ UNCHANGED resp
       ELSE Goto(c, "unlink") /\ Answer(c, Fail(e))
  /\ UNCHANGED <<disk, mu, req, tmp, dir>>

(* commit: os.Link for IfAbsent (EEXIST is a failed precondition), else    *)
(* os.Rename, which replaces a file and refuses a directory.               *)
Install(c) == files' = [files EXCEPT ![PathOf(c)] = tmp[c]]

(* Mutant: the new name replaces what another process created.             *)
LinkOverwrites(c) ==
  /\ Install(c)
  /\ Answer(c, [Blank EXCEPT !.etag = ETag(tmp[c])])

Link(c) ==
  CASE Probe(PathOf(c)) = "ENOENT" ->
         /\ Install(c)
         /\ Answer(c, [Blank EXCEPT !.etag = ETag(tmp[c])])
    [] Probe(PathOf(c)) = "ENOTDIR" -> Answer(c, Fail("io")) /\ UNCHANGED files
    [] OTHER -> Answer(c, Fail("ErrPreconditionFailed")) /\ UNCHANGED files

Rename(c) ==
  /\ Probe(PathOf(c)) \in {"ENOENT", "file"}
  /\ Install(c)
  /\ tmp' = [tmp EXCEPT ![c] = Absent]
  /\ Answer(c, [Blank EXCEPT !.etag = ETag(tmp[c])])
  /\ Goto(c, "unlock")

(* Mutant: the failing path forgets os.Remove(tmp).                        *)
RenameFailsKeepsTemp(c) ==
  /\ Probe(PathOf(c)) \in {"dir", "ENOTDIR"}
  /\ Answer(c, Fail("io"))
  /\ Goto(c, "unlock")
  /\ UNCHANGED <<files, tmp>>

RenameFails(c) ==
  /\ Probe(PathOf(c)) \in {"dir", "ENOTDIR"}
  /\ Answer(c, Fail("io"))
  /\ Goto(c, "unlink")
  /\ UNCHANGED <<files, tmp>>

Commit(c) ==
  /\ pc[c] = "commit"
  /\ \/ /\ req[c].ifMatch = IfAbsent
        /\ Link(c)
        /\ Goto(c, "unlink")
        /\ UNCHANGED tmp
     \/ /\ req[c].ifMatch # IfAbsent
        /\ Rename(c) \/ RenameFails(c)
  /\ UNCHANGED <<dirs, litter, mu, req, dir>>

(* os.Remove(tmp) after a link, or after a failed check or commit.         *)
UnlinkTemp(c) ==
  /\ pc[c] = "unlink"
  /\ tmp' = [tmp EXCEPT ![c] = Absent]
  /\ Goto(c, "unlock")
  /\ UNCHANGED <<disk, mu, req, resp, dir>>

(* Mutant: no deferred Unlock.                                             *)
UnlockForgotten(c) ==
  /\ pc[c] = "unlock"
  /\ Goto(c, "done")
  /\ UNCHANGED <<disk, mu, req, resp, tmp, dir>>

Unlock(c) ==
  /\ pc[c] = "unlock"
  /\ mu' = [mu EXCEPT ![Home[c]] = Free]
  /\ Goto(c, "done")
  /\ UNCHANGED <<disk, req, resp, tmp, dir>>

-----------------------------------------------------------------------------
(* Get, GetRange and Stat.  An open file keeps its content whatever later  *)
(* happens to its name.  Opening a directory succeeds; reading it does not.*)

FileETag(c) ==
  /\ pc[c] = "etag"
  /\ CASE Probe(PathOf(c)) = "file" ->
            /\ Answer(c, [Blank EXCEPT !.etag = ETag(files[PathOf(c)])])
            /\ Goto(c, "open")
       [] Probe(PathOf(c)) = "ENOENT" -> Finish(c, Fail("ErrNotFound"))
       [] OTHER -> Finish(c, Fail("io"))
  /\ UNCHANGED <<disk, mu, req, tmp, dir>>

Open(c) ==
  /\ pc[c] = "open"
  /\ CASE Probe(PathOf(c)) = "file" ->
            Finish(c, [resp[c] EXCEPT !.body = files[PathOf(c)]])
       [] Probe(PathOf(c)) = "dir" -> Finish(c, resp[c])
       [] Probe(PathOf(c)) = "ENOENT" -> Finish(c, Fail("ErrNotFound"))
       [] Probe(PathOf(c)) = "ENOTDIR" -> Finish(c, Fail("io"))
  /\ UNCHANGED <<disk, mu, req, tmp, dir>>

StatFile(c) ==
  /\ pc[c] = "stat"
  /\ CASE Probe(PathOf(c)) = "file" ->
            /\ Answer(c, [Blank EXCEPT !.size = Len(files[PathOf(c)])])
            /\ Goto(c, "statetag")
       [] Probe(PathOf(c)) = "dir" -> Goto(c, "statetag") /\ UNCHANGED resp
       [] Probe(PathOf(c)) = "ENOENT" -> Finish(c, Fail("ErrNotFound"))
       [] Probe(PathOf(c)) = "ENOTDIR" -> Finish(c, Fail("io"))
  /\ UNCHANGED <<disk, mu, req, tmp, dir>>

(* Stat's fileETag: every error, a vanished file included, is wrapped.     *)
StatETag(c) ==
  /\ pc[c] = "statetag"
  /\ Finish(c, IF Probe(PathOf(c)) = "file"
               THEN [resp[c] EXCEPT !.etag = ETag(files[PathOf(c)])]
               ELSE Fail("io"))
  /\ UNCHANGED <<disk, mu, req, tmp, dir>>

-----------------------------------------------------------------------------
(* Delete.  It does not take the mutex.  os.Remove unlinks a file and      *)
(* removes an empty directory; then the empty parents are pruned.          *)

PruneFromPath(p) == p   \* mutant: pruning begins at the object
PruneFrom(p)     == Dir(p)

Remove(c) ==
  /\ pc[c] = "remove"
  /\ LET p == PathOf(c) IN
     \/ /\ Probe(p) = "file" \/ (Probe(p) = "dir" /\ Empty(p))
        /\ files' = [q \in Paths |-> IF q = p THEN Absent ELSE files[q]]
        /\ dirs' = dirs \ {p}
        /\ dir' = [dir EXCEPT ![c] = PruneFrom(p)]
        /\ Answer(c, Blank)
        /\ Goto(c, "prune")
     \/ /\ Probe(p) = "ENOENT"
        /\ Finish(c, Fail("ErrNotFound"))
        /\ UNCHANGED <<files, dirs, dir>>
     \/ /\ Probe(p) = "ENOTDIR" \/ (Probe(p) = "dir" /\ ~Empty(p))
        /\ Finish(c, Fail("io"))
        /\ UNCHANGED <<files, dirs, dir>>
  /\ UNCHANGED <<litter, mu, req, tmp>>

(* The cursor moves up as long as os.Remove succeeds.  os.Remove does not  *)
(* insist on a directory: it unlinks an object that has taken the name.    *)
CanPruneFull(d) == d # Root /\ d \in dirs   \* mutant: os.RemoveAll

CanPrune(d) == d # Root /\ (IsFile(d) \/ (d \in dirs /\ Empty(d)))

Prune(c) ==
  /\ pc[c] = "prune"
  /\ LET d == dir[c] IN
     \/ /\ CanPrune(d)
        /\ files' = [p \in Paths |-> IF p = d THEN Absent ELSE files[p]]
        /\ dirs' = dirs \ {d}
        /\ dir' = [dir EXCEPT ![c] = Dir(d)]
        /\ UNCHANGED pc
     \/ /\ ~CanPrune(d)
        /\ Goto(c, "done")
        /\ dir' = [dir EXCEPT ![c] = Root]
        /\ UNCHANGED <<files, dirs>>
  /\ UNCHANGED <<litter, mu, req, resp, tmp>>

-----------------------------------------------------------------------------
Return(c) ==
  /\ pc[c] = "done"
  /\ Goto(c, "idle")
  /\ req' = [req EXCEPT ![c] = NoCall]
  /\ Answer(c, Blank)
  /\ UNCHANGED <<disk, mu, tmp, dir>>

(***************************************************************************)
(* The process of instance i dies and is restarted.  Its mutex and the     *)
(* calls under way are gone; its temp files stay, and OpenFS does not      *)
(* sweep them.                                                             *)
(***************************************************************************)
Crash(i) ==
  LET lost == {c \in Clients : Home[c] = i}
  IN /\ litter' = litter \cup {PathOf(c) : c \in {d \in lost : tmp[d] # Absent}}
     /\ mu' = [mu EXCEPT ![i] = Free]
     /\ pc' = [c \in Clients |-> IF c \in lost THEN "idle" ELSE pc[c]]
     /\ req' = [c \in Clients |-> IF c \in lost THEN NoCall ELSE req[c]]
     /\ resp' = [c \in Clients |-> IF c \in lost THEN Blank ELSE resp[c]]
     /\ tmp' = [c \in Clients |-> IF c \in lost THEN Absent ELSE tmp[c]]
     /\ dir' = [c \in Clients |-> IF c \in lost THEN Root ELSE dir[c]]
     /\ UNCHANGED <<files, dirs>>

(* The steps of a call between its invocation and its return.              *)
Step(c) ==
  \/ Enter(c)
  \/ MkdirAll(c) \/ CreateTemp(c) \/ WriteAndSync(c) \/ Discard(c)
  \/ CheckIfMatch(c) \/ Commit(c) \/ UnlinkTemp(c) \/ Unlock(c)
  \/ FileETag(c) \/ Open(c) \/ StatFile(c) \/ StatETag(c)
  \/ Remove(c) \/ Prune(c)

Next ==
  \/ \E c \in Clients : Invoke(c) \/ Step(c) \/ Lock(c) \/ Return(c)
  \/ \E i \in Instances : Crash(i)

Spec == Init /\ [][Next]_vars

(***************************************************************************)
(* A goroutine that can run does run, and sync.Mutex hands the lock to a   *)
(* waiter that has waited long enough (its starvation mode), so Lock is    *)
(* strongly fair.  Invoke and Crash are not fair: nobody has to call, and  *)
(* no process has to die.                                                  *)
(***************************************************************************)
FairSpec ==
  /\ Spec
  /\ \A c \in Clients : WF_vars(Step(c)) /\ WF_vars(Return(c)) /\ SF_vars(Lock(c))
=============================================================================
