------------------------------ MODULE FSProofs ------------------------------
(***************************************************************************)
(* Proofs about the filesystem backend.                                    *)
(***************************************************************************)
EXTENDS FSProperties, SequenceTheorems, TLAPS

(* An entity tag is neither the nil precondition nor IfAbsent.             *)
LEMMA TagsDistinct == NoMatch \notin ETags /\ IfAbsent \notin ETags
BY DEF NoMatch, IfAbsent, ETags, ETag

(* keyPath maps a key to one of the object paths.                          *)
LEMMA PathType ==
  ASSUME NEW k \in Keys
  PROVE  keyPath(k) \in Paths /\ keyPath(k) \in Seq(STRING) /\ keyPath(k) # Root
BY PathsAssumption DEF Paths

(* A proper prefix of an object path is a directory path.                  *)
LEMMA PrefixType ==
  ASSUME NEW p \in Paths, NEW n \in 1..(Len(p) - 1)
  PROVE  SubSeq(p, 1, n) \in DirPaths
BY DEF DirPaths, Ancestors

(* Directory paths are sequences with one segment at least.                *)
LEMMA DirPathSeq ==
  ASSUME NEW d \in DirPaths
  PROVE  d \in Seq(STRING) /\ Len(d) \in Nat \ {0}
<1>1. PICK p \in Paths : \E i \in 1..(Len(p) - 1) : d = SubSeq(p, 1, i)
  BY DEF DirPaths, Ancestors
<1>2. PICK i \in 1..(Len(p) - 1) : d = SubSeq(p, 1, i)
  BY <1>1
<1>3. p \in Seq(STRING) /\ Len(p) \in Nat
  BY PathsAssumption, LenProperties DEF Paths
<1>4. i \in Int /\ \A j \in 1..i : p[j] \in STRING
  BY <1>3, ElementOfSeq
<1> QED
  BY <1>2, <1>3, <1>4, SubSeqProperties

(* filepath.Dir of an object path, or of a directory below the root, is a  *)
(* directory below the root or the root.                                   *)
LEMMA DirOfPath ==
  ASSUME NEW p \in Paths
  PROVE  Dir(p) \in DirPaths \cup {Root}
<1>1. p \in Seq(STRING) /\ Len(p) \in Nat
  BY PathsAssumption, LenProperties DEF Paths
<1>2. CASE Len(p) <= 1
  BY <1>1, <1>2, SubSeqEmpty DEF Dir, Root
<1>3. CASE Len(p) > 1
  BY <1>1, <1>3, PrefixType DEF Dir
<1> QED
  BY <1>1, <1>2, <1>3

LEMMA DirOfDir ==
  ASSUME NEW d \in DirPaths
  PROVE  Dir(d) \in DirPaths \cup {Root}
<1>1. PICK p \in Paths : \E i \in 1..(Len(p) - 1) : d = SubSeq(p, 1, i)
  BY DEF DirPaths, Ancestors
<1>2. PICK i \in 1..(Len(p) - 1) : d = SubSeq(p, 1, i)
  BY <1>1
<1>3. p \in Seq(STRING) /\ Len(p) \in Nat
  BY PathsAssumption, LenProperties DEF Paths
<1>4. i \in Int /\ \A j \in 1..i : p[j] \in STRING
  BY <1>3, ElementOfSeq
<1>5. Len(d) = i
  BY <1>2, <1>3, <1>4, SubSeqProperties
<1>6. CASE i = 1
  BY <1>5, <1>6, SubSeqEmpty DEF Dir, Root
<1>7. CASE i > 1
  <2>1. i \in 1..Len(p) /\ 1 \in 1..Len(p) /\ 1 \in 1..(i - 1 + 1) /\ i - 1 \in 1..(i - 1 + 1)
    BY <1>3, <1>7
  <2>2. SubSeq(SubSeq(p, 1, i), 1, i - 1) = SubSeq(p, 1, i - 1)
    BY <2>1, <1>3, SubSeqOfSubSeq
  <2> QED
    <3>1. i - 1 \in 1..(Len(p) - 1)
      BY <1>3, <1>7
    <3>2. Dir(d) = SubSeq(p, 1, i - 1)
      BY <2>2, <1>2, <1>5 DEF Dir
    <3> QED
      BY <3>1, <3>2, PrefixType
<1> QED
  BY <1>2, <1>3, <1>6, <1>7

-----------------------------------------------------------------------------
(* The initial state satisfies the inductive invariant.                    *)
LEMMA InitIInv == Init => IInv
<1> SUFFICES ASSUME Init PROVE IInv
  OBVIOUS
<1> USE DEF Init
<1>1. TypeOK
  BY DEF TypeOK, Labels, Response, Blank, Errs
<1>2. CallFits /\ MutexOwned /\ TempComplete /\ NoLeftovers
  BY HomeAssumption DEF CallFits, MutexOwned, TempComplete, NoLeftovers,
     WriteSteps, Critical, HasTemp
<1> QED
  BY <1>1, <1>2 DEF IInv

(* What IInv says of a client's call: its path is an object path, and a    *)
(* write carries a body, a length and a precondition.                      *)
LEMMA CallType ==
  ASSUME IInv, NEW c \in Clients, pc[c] # "idle"
  PROVE  /\ req[c] \in Call
         /\ req[c].key \in Keys
         /\ PathOf(c) \in Paths
         /\ req[c].op \in Writes => req[c] \in PutCall
<1>1. req[c] \in Call
  BY CallsAssumption DEF IInv, CallFits
<1>2. req[c].key \in Keys
  BY <1>1 DEF Call, PutCall, KeyCall
<1>3. PathOf(c) \in Paths
  BY <1>2, PathType DEF PathOf
<1>4. req[c].op \in Writes => req[c] \in PutCall
  BY <1>1 DEF Call, KeyCall, Writes, Reads
<1> QED
  BY <1>1, <1>2, <1>3, <1>4

(* Every step keeps the types.                                             *)
LEMMA NextTypeOK == IInv /\ [Next]_vars => TypeOK'
<1> SUFFICES ASSUME IInv, [Next]_vars PROVE TypeOK'
  OBVIOUS
<1> USE DEF TypeOK, Goto, Answer, Finish, disk
<1>0. TypeOK
  BY DEF IInv
<1>r. /\ Blank \in Response
      /\ \A e \in Errs : Fail(e) \in Response
      /\ \A b \in Bodies : /\ ETag(b) \in ETags
                         /\ Len(b) \in Nat
                         /\ [Blank EXCEPT !.etag = ETag(b)] \in Response
                         /\ [Blank EXCEPT !.size = Len(b)] \in Response
  <2>1. Blank \in Response /\ \A e \in Errs : Fail(e) \in Response
    BY DEF Response, Blank, Fail, Errs
  <2>2. \A b \in Bodies : Len(b) \in Nat
    BY CallsAssumption, LenProperties
  <2> QED
    BY <2>1, <2>2 DEF Response, Blank, Errs, ETags
<1>e. {"nil", "ErrNotFound", "ErrPreconditionFailed", "ctx", "key", "body", "io", "status"} = Errs
  BY DEF Errs
<1>1. ASSUME NEW c \in Clients, Invoke(c) PROVE TypeOK'
  <2>1. \A r \in Calls[c] : r \in Call
    BY CallsAssumption
  <2> QED
    BY <1>0, <1>1, <2>1 DEF Invoke, Labels
<1>2. ASSUME NEW c \in Clients, Enter(c) PROVE TypeOK'
  <2>1. First(req[c].op) \in Labels
    BY <1>2, CallType DEF Enter, First, Labels, Call, PutCall, KeyCall, Writes, Reads
  <2> QED
    BY <1>0, <1>r, <1>e, <1>2, <2>1 DEF Enter, Labels
<1>3. ASSUME NEW c \in Clients, MkdirAll(c) PROVE TypeOK'
  <2>1. PathOf(c) \in Paths /\ Len(PathOf(c)) \in Nat
    BY <1>3, CallType, PathType, LenProperties DEF MkdirAll, PathOf
  <2>2. Len(dir[c]) \in Nat
    BY <1>0, DirPathSeq, LenProperties DEF Root
  <2>3. ~AllMade(c) => SubSeq(PathOf(c), 1, Len(dir[c]) + 1) \in DirPaths
    BY <2>1, <2>2, PrefixType DEF AllMade
  <2> QED
    BY <1>0, <1>r, <1>e, <1>3, <2>3 DEF MkdirAll, Labels
<1>4. ASSUME NEW c \in Clients, CreateTemp(c) PROVE TypeOK'
  BY <1>0, <1>r, <1>e, <1>4 DEF CreateTemp, Labels
<1>5. ASSUME NEW c \in Clients, WriteAndSync(c) PROVE TypeOK'
  <2>1. req[c].body \in Bodies
    BY <1>5, CallType DEF WriteAndSync, IInv, CallFits, WriteSteps, PutCall
  <2> QED
    BY <1>0, <1>r, <1>e, <1>5, <2>1 DEF WriteAndSync, Labels
<1>6. ASSUME NEW c \in Clients, Discard(c) \/ UnlinkTemp(c) PROVE TypeOK'
  BY <1>0, <1>6 DEF Discard, UnlinkTemp, Labels
<1>7. ASSUME NEW c \in Clients, Lock(c) \/ Unlock(c) PROVE TypeOK'
  BY <1>0, <1>7, HomeAssumption DEF Lock, Unlock, Labels
<1>8. ASSUME NEW c \in Clients, CheckIfMatch(c) PROVE TypeOK'
  <2>1. IfMatchError(req[c].ifMatch, PathOf(c)) \in Errs
    <3>1. req[c].ifMatch \in Preconds
      BY <1>8, CallType DEF CheckIfMatch, IInv, CallFits, WriteSteps, PutCall
    <3>2. Probe(PathOf(c)) \in {"ENOTDIR", "dir", "file", "ENOENT"}
      BY DEF Probe
    <3> QED
      BY <3>1, <3>2, <1>e, TagsDistinct DEF IfMatchError, Preconds
  <2> QED
    BY <1>0, <1>r, <1>8, <2>1 DEF CheckIfMatch, Labels
<1>9. ASSUME NEW c \in Clients, Commit(c) PROVE TypeOK'
  <2>1. tmp[c] \in Bodies
    BY <1>9, CallType DEF Commit, IInv, CallFits, TempComplete, WriteSteps, PutCall
  <2>2. PathOf(c) \in Paths
    BY <1>9, CallType DEF Commit
  <2>3. CASE Link(c) /\ Goto(c, "unlink") /\ UNCHANGED <<tmp, dirs, litter, mu, req, dir>>
    BY <1>0, <1>r, <1>e, <2>1, <2>2, <2>3 DEF Link, Install, Labels
  <2>4. CASE Rename(c) /\ UNCHANGED <<dirs, litter, mu, req, dir>>
    BY <1>0, <1>r, <1>e, <2>1, <2>2, <2>4 DEF Rename, Install, Labels
  <2>5. CASE RenameFails(c) /\ UNCHANGED <<dirs, litter, mu, req, dir>>
    BY <1>0, <1>r, <1>e, <2>5 DEF RenameFails, Labels
  <2> QED
    BY <1>9, <2>3, <2>4, <2>5 DEF Commit
<1>10. ASSUME NEW c \in Clients, FileETag(c) \/ StatFile(c) PROVE TypeOK'
  <2>1. Probe(PathOf(c)) \in {"ENOTDIR", "dir", "file", "ENOENT"}
    BY DEF Probe
  <2>2. Probe(PathOf(c)) = "file" => files[PathOf(c)] \in Bodies
    BY <1>0 DEF Probe, IsFile
  <2> QED
    BY <1>0, <1>r, <1>e, <1>10, <2>1, <2>2 DEF FileETag, StatFile, Labels
<1>11. ASSUME NEW c \in Clients, Open(c) \/ StatETag(c) PROVE TypeOK'
  <2>1. Probe(PathOf(c)) \in {"ENOTDIR", "dir", "file", "ENOENT"}
    BY DEF Probe
  <2>2. Probe(PathOf(c)) = "file" =>
          /\ [resp[c] EXCEPT !.body = files[PathOf(c)]] \in Response
          /\ [resp[c] EXCEPT !.etag = ETag(files[PathOf(c)])] \in Response
    BY <1>0, <1>r DEF Probe, IsFile, Response
  <2> QED
    BY <1>0, <1>r, <1>e, <1>11, <2>1, <2>2 DEF Open, StatETag, Labels
<1>12. ASSUME NEW c \in Clients, Remove(c) PROVE TypeOK'
  <2>1. Dir(PathOf(c)) \in DirPaths \cup {Root}
    BY <1>12, CallType, DirOfPath DEF Remove
  <2> QED
    BY <1>0, <1>r, <1>e, <1>12, <2>1 DEF Remove, PruneFrom, Labels
<1>13. ASSUME NEW c \in Clients, Prune(c) PROVE TypeOK'
  <2>1. CanPrune(dir[c]) => Dir(dir[c]) \in DirPaths \cup {Root}
    BY <1>0, DirOfDir DEF CanPrune
  <2> QED
    BY <1>0, <1>13, <2>1 DEF Prune, Labels
<1>14. ASSUME NEW c \in Clients, Return(c) PROVE TypeOK'
  BY <1>0, <1>r, <1>14 DEF Return, Labels
<1>15. ASSUME NEW i \in Instances, Crash(i) PROVE TypeOK'
  <2>1. \A c \in Clients : tmp[c] # Absent => PathOf(c) \in Paths
    BY CallType DEF IInv, NoLeftovers, HasTemp
  <2> QED
    BY <1>0, <1>r, <1>15, <2>1 DEF Crash, Labels
<1>16. CASE UNCHANGED vars
  BY <1>0, <1>16 DEF vars
<1> QED
  BY <1>1, <1>2, <1>3, <1>4, <1>5, <1>6, <1>7, <1>8, <1>9, <1>10, <1>11,
     <1>12, <1>13, <1>14, <1>15, <1>16 DEF Next, Step

(* A step moves a client along the call it made, and no other client.      *)
LEMMA NextCallFits == IInv /\ [Next]_vars => CallFits'
<1> DEFINE Fits(d) == /\ pc[d] # "idle" => req[d] \in Calls[d]
                      /\ pc[d] \in WriteSteps => req[d].op \in Writes
                      /\ pc[d] \in {"remove", "prune"} => req[d].op = "Delete"
<1> SUFFICES ASSUME IInv, [Next]_vars, NEW d \in Clients
             PROVE  Fits(d)'
  BY DEF CallFits
<1> USE DEF WriteSteps, Goto, Answer, Finish, disk
<1>0. /\ pc \in [Clients -> Labels]
      /\ req \in [Clients -> Call \cup {NoCall}]
      /\ pc[d] # "idle" => req[d] \in Calls[d]
      /\ pc[d] \in WriteSteps => req[d].op \in Writes
      /\ pc[d] \in {"remove", "prune"} => req[d].op = "Delete"
  BY DEF IInv, TypeOK, CallFits
<1>1. ASSUME NEW c \in Clients, Invoke(c) \/ Return(c) PROVE Fits(d)'
  BY <1>0, <1>1 DEF Invoke, Return
<1>2. ASSUME NEW c \in Clients, Enter(c) PROVE Fits(d)'
  <2>1. /\ First(req[c].op) \in WriteSteps => req[c].op \in Writes
        /\ First(req[c].op) \in {"remove", "prune"} => req[c].op = "Delete"
    BY <1>2, CallType DEF Enter, First, Call, PutCall, KeyCall, Writes, Reads
  <2> QED
    BY <1>0, <1>2, <2>1 DEF Enter
<1>3. ASSUME NEW c \in Clients, MkdirAll(c) \/ CreateTemp(c) \/ WriteAndSync(c) \/ Discard(c)
      PROVE Fits(d)'
  BY <1>0, <1>3 DEF MkdirAll, CreateTemp, WriteAndSync, Discard
<1>4. ASSUME NEW c \in Clients, Lock(c) \/ CheckIfMatch(c) \/ UnlinkTemp(c) \/ Unlock(c)
      PROVE Fits(d)'
  BY <1>0, <1>4 DEF Lock, CheckIfMatch, UnlinkTemp, Unlock
<1>5. ASSUME NEW c \in Clients, Commit(c) PROVE Fits(d)'
  BY <1>0, <1>5 DEF Commit, Rename, RenameFails
<1>6. ASSUME NEW c \in Clients, FileETag(c) \/ Open(c) \/ StatFile(c) \/ StatETag(c)
      PROVE Fits(d)'
  <2>1. Probe(PathOf(c)) \in {"ENOTDIR", "dir", "file", "ENOENT"}
    BY DEF Probe
  <2> QED
    BY <1>0, <1>6, <2>1 DEF FileETag, Open, StatFile, StatETag
<1>7. ASSUME NEW c \in Clients, Remove(c) \/ Prune(c) PROVE Fits(d)'
  BY <1>0, <1>7 DEF Remove, Prune
<1>8. ASSUME NEW i \in Instances, Crash(i) PROVE Fits(d)'
  BY <1>0, <1>8 DEF Crash
<1>9. CASE UNCHANGED vars
  BY <1>0, <1>9 DEF vars
<1> QED
  BY <1>1, <1>2, <1>3, <1>4, <1>5, <1>6, <1>7, <1>8, <1>9 DEF Next, Step

(* Outside Put's critical section the mutexes and who may hold one stay as *)
(* they are.                                                               *)
LEMMA NextMutexOwned == IInv /\ [Next]_vars => MutexOwned'
<1> SUFFICES ASSUME IInv, [Next]_vars, NEW d \in Clients
             PROVE  pc'[d] \in Critical <=> mu'[Home[d]] = d
  BY DEF MutexOwned
<1> USE DEF Critical, Goto, Answer, Finish, disk
<1>0. /\ pc \in [Clients -> Labels]
      /\ mu \in [Instances -> Clients \cup {Free}]
      /\ \A c \in Clients : pc[c] \in Critical <=> mu[Home[c]] = c
  BY DEF IInv, TypeOK, MutexOwned
<1>h. Home \in [Clients -> Instances] /\ Free \notin Clients
  BY HomeAssumption
<1> DEFINE Goal == pc'[d] \in Critical <=> mu'[Home[d]] = d
<1>1. ASSUME NEW c \in Clients, Invoke(c) \/ Return(c) PROVE Goal
  BY <1>0, <1>1 DEF Invoke, Return
<1>2. ASSUME NEW c \in Clients, Enter(c) PROVE Goal
  <2>1. First(req[c].op) \notin Critical
    BY <1>2, CallType DEF Enter, First, Call, PutCall, KeyCall, Writes, Reads
  <2> QED
    BY <1>0, <1>2, <2>1 DEF Enter
<1>3. ASSUME NEW c \in Clients, MkdirAll(c) \/ CreateTemp(c) \/ WriteAndSync(c) \/ Discard(c)
      PROVE Goal
  BY <1>0, <1>3 DEF MkdirAll, CreateTemp, WriteAndSync, Discard
<1>4. ASSUME NEW c \in Clients, Lock(c) PROVE Goal
  BY <1>0, <1>h, <1>4 DEF Lock
<1>5. ASSUME NEW c \in Clients, Unlock(c) PROVE Goal
  BY <1>0, <1>h, <1>5 DEF Unlock
<1>6. ASSUME NEW c \in Clients, CheckIfMatch(c) \/ UnlinkTemp(c) PROVE Goal
  BY <1>0, <1>6 DEF CheckIfMatch, UnlinkTemp
<1>7. ASSUME NEW c \in Clients, Commit(c) PROVE Goal
  BY <1>0, <1>7 DEF Commit, Rename, RenameFails
<1>8. ASSUME NEW c \in Clients, FileETag(c) \/ Open(c) \/ StatFile(c) \/ StatETag(c)
      PROVE Goal
  <2>1. Probe(PathOf(c)) \in {"ENOTDIR", "dir", "file", "ENOENT"}
    BY DEF Probe
  <2> QED
    BY <1>0, <1>8, <2>1 DEF FileETag, Open, StatFile, StatETag
<1>9. ASSUME NEW c \in Clients, Remove(c) \/ Prune(c) PROVE Goal
  BY <1>0, <1>9 DEF Remove, Prune
<1>10. ASSUME NEW i \in Instances, Crash(i) PROVE Goal
  BY <1>0, <1>h, <1>10 DEF Crash
<1>11. CASE UNCHANGED vars
  BY <1>0, <1>11 DEF vars
<1> QED
  BY <1>1, <1>2, <1>3, <1>4, <1>5, <1>6, <1>7, <1>8, <1>9, <1>10, <1>11
     DEF Next, Step

(* A temp file is complete from Lock on, and gone after Discard, Rename or *)
(* UnlinkTemp.                                                             *)
LEMMA NextTemp == IInv /\ [Next]_vars => TempComplete' /\ NoLeftovers'
<1> DEFINE Temp(d) ==
      /\ pc[d] \in {"lock", "check", "commit"} =>
           tmp[d] = req[d].body /\ LengthOK(req[d])
      /\ tmp[d] # Absent => pc[d] \in HasTemp
<1> SUFFICES ASSUME IInv, [Next]_vars, NEW d \in Clients
             PROVE  Temp(d)'
  BY DEF TempComplete, NoLeftovers
<1> USE DEF HasTemp, Goto, Answer, Finish, disk, LengthOK
<1>0. /\ pc \in [Clients -> Labels]
      /\ req \in [Clients -> Call \cup {NoCall}]
      /\ tmp \in [Clients -> Bodies \cup {<<>>, Absent}]
      /\ Temp(d)
  BY DEF IInv, TypeOK, TempComplete, NoLeftovers
<1>1. ASSUME NEW c \in Clients, Invoke(c) \/ Return(c) PROVE Temp(d)'
  BY <1>0, <1>1 DEF Invoke, Return
<1>2. ASSUME NEW c \in Clients, Enter(c) PROVE Temp(d)'
  <2>1. First(req[c].op) \notin {"lock", "check", "commit"}
    BY <1>2, CallType DEF Enter, First, Call, PutCall, KeyCall, Writes, Reads
  <2> QED
    BY <1>0, <1>2, <2>1 DEF Enter
<1>3. ASSUME NEW c \in Clients, MkdirAll(c) \/ CreateTemp(c) PROVE Temp(d)'
  BY <1>0, <1>3 DEF MkdirAll, CreateTemp
<1>4. ASSUME NEW c \in Clients, WriteAndSync(c) \/ Discard(c) PROVE Temp(d)'
  BY <1>0, <1>4 DEF WriteAndSync, Discard
<1>5. ASSUME NEW c \in Clients, Lock(c) \/ CheckIfMatch(c) \/ UnlinkTemp(c) \/ Unlock(c)
      PROVE Temp(d)'
  BY <1>0, <1>5 DEF Lock, CheckIfMatch, UnlinkTemp, Unlock
<1>6. ASSUME NEW c \in Clients, Commit(c) PROVE Temp(d)'
  BY <1>0, <1>6 DEF Commit, Rename, RenameFails
<1>7. ASSUME NEW c \in Clients, FileETag(c) \/ Open(c) \/ StatFile(c) \/ StatETag(c)
      PROVE Temp(d)'
  <2>1. Probe(PathOf(c)) \in {"ENOTDIR", "dir", "file", "ENOENT"}
    BY DEF Probe
  <2> QED
    BY <1>0, <1>7, <2>1 DEF FileETag, Open, StatFile, StatETag
<1>8. ASSUME NEW c \in Clients, Remove(c) \/ Prune(c) PROVE Temp(d)'
  BY <1>0, <1>8 DEF Remove, Prune
<1>9. ASSUME NEW i \in Instances, Crash(i) PROVE Temp(d)'
  BY <1>0, <1>9 DEF Crash
<1>10. CASE UNCHANGED vars
  BY <1>0, <1>10 DEF vars
<1> QED
  BY <1>1, <1>2, <1>3, <1>4, <1>5, <1>6, <1>7, <1>8, <1>9, <1>10 DEF Next, Step

(* The mutex, the temp files and the calls of fs.go always agree with where *)
(* each client is.                                                         *)
THEOREM Inductive == Spec => []IInv
<1>1. IInv /\ [Next]_vars => IInv'
  BY NextTypeOK, NextCallFits, NextMutexOwned, NextTemp DEF IInv
<1> QED
  BY <1>1, InitIInv, PTL DEF Spec

(* Every variable of the filesystem backend keeps its type, whatever the   *)
(* keys, the calls, the instances and the crashes.                         *)
THEOREM TypeCorrect == Spec => []TypeOK
<1>1. IInv => TypeOK
  BY DEF IInv
<1> QED
  BY <1>1, Inductive, PTL

(* No call of Put or PutStream, failed ones included, returns before its   *)
(* temp file is removed or renamed.                                        *)
THEOREM NoTempLeft == Spec => []NoLeftovers
<1>1. IInv => NoLeftovers
  BY DEF IInv
<1> QED
  BY <1>1, Inductive, PTL

-----------------------------------------------------------------------------
(* Two clients in the commit step of one path, one of them with an entity  *)
(* tag, are the same client: the key has one home, and its mutex one owner.*)
LEMMA OneCommitter ==
  ASSUME CasSerialised, PlainKeys, IInv,
         NEW c \in Clients, NEW d \in Clients,
         pc[c] = "commit", pc[d] = "commit",
         req[c].ifMatch \in ETags, PathOf(d) = PathOf(c)
  PROVE  c = d
<1>1. /\ req[c] \in Calls[c] /\ req[d] \in Calls[d]
      /\ req[c].op \in Writes /\ req[d].op \in Writes
  BY DEF IInv, CallFits, WriteSteps
<1>2. req[d].key = req[c].key
  BY CallType DEF PlainKeys, PathOf
<1>3. Home[d] = Home[c]
  BY <1>1, <1>2 DEF CasSerialised
<1> QED
  BY <1>3 DEF IInv, MutexOwned, Critical

(* The check holds until the commit: under CasSerialised and PlainKeys no  *)
(* step of another client changes the file between them.                   *)
LEMMA NextCommits ==
  ASSUME CasSerialised, PlainKeys, IInv, CommitsCheckedView, [Next]_vars
  PROVE  CommitsCheckedView'
<1> DEFINE Checked(d) ==
      (pc[d] = "commit" /\ req[d].ifMatch \in ETags) =>
        /\ files[PathOf(d)] # Absent
        /\ ETag(files[PathOf(d)]) = req[d].ifMatch
<1> SUFFICES ASSUME NEW d \in Clients PROVE Checked(d)'
  BY DEF CommitsCheckedView
<1> USE DEF Goto, Answer, Finish, disk, PathOf
<1>0. /\ pc \in [Clients -> Labels]
      /\ req \in [Clients -> Call \cup {NoCall}]
      /\ files \in [Paths -> Bodies \cup {Absent}]
      /\ Checked(d)
  BY DEF IInv, TypeOK, CommitsCheckedView
<1>1. ASSUME NEW c \in Clients, Invoke(c) \/ Return(c) PROVE Checked(d)'
  BY <1>0, <1>1 DEF Invoke, Return
<1>2. ASSUME NEW c \in Clients, Enter(c) PROVE Checked(d)'
  <2>1. First(req[c].op) # "commit"
    BY <1>2, CallType DEF Enter, First, Call, PutCall, KeyCall, Writes, Reads
  <2> QED
    BY <1>0, <1>2, <2>1 DEF Enter
<1>3. ASSUME NEW c \in Clients, MkdirAll(c) \/ CreateTemp(c) \/ WriteAndSync(c) \/ Discard(c)
      PROVE Checked(d)'
  BY <1>0, <1>3 DEF MkdirAll, CreateTemp, WriteAndSync, Discard
<1>4. ASSUME NEW c \in Clients, Lock(c) \/ UnlinkTemp(c) \/ Unlock(c) PROVE Checked(d)'
  BY <1>0, <1>4 DEF Lock, UnlinkTemp, Unlock
<1>5. ASSUME NEW c \in Clients, CheckIfMatch(c) PROVE Checked(d)'
  <2>1. CASE c = d /\ req[c].ifMatch \in ETags
            /\ IfMatchError(req[c].ifMatch, PathOf(c)) = "nil"
    <3>1. Probe(PathOf(c)) \in {"ENOTDIR", "dir", "file", "ENOENT"}
      BY DEF Probe
    <3>2. Probe(PathOf(c)) = "file" /\ ETag(files[PathOf(c)]) = req[c].ifMatch
      BY <2>1, <3>1, TagsDistinct DEF IfMatchError
    <3>3. files[PathOf(c)] # Absent
      BY <3>2 DEF Probe, IsFile
    <3> QED
      BY <1>0, <1>5, <2>1, <3>2, <3>3 DEF CheckIfMatch
  <2>2. CASE ~(c = d /\ req[c].ifMatch \in ETags
               /\ IfMatchError(req[c].ifMatch, PathOf(c)) = "nil")
    BY <1>0, <1>5, <2>2 DEF CheckIfMatch
  <2> QED
    BY <2>1, <2>2
<1>6. ASSUME NEW c \in Clients, Commit(c) PROVE Checked(d)'
  <2>1. CASE c = d
    BY <1>0, <1>6, <2>1 DEF Commit, Rename, RenameFails
  <2>2. CASE c # d
    <3>1. pc[d] = "commit" /\ req[d].ifMatch \in ETags => PathOf(c) # PathOf(d)
      BY <1>6, <2>2, OneCommitter DEF Commit
    <3>2. pc'[d] = pc[d] /\ req' = req
      BY <1>0, <1>6, <2>2 DEF Commit, Rename, RenameFails
    <3>3. \A p \in Paths : p # PathOf(c) => files'[p] = files[p]
      BY <1>0, <1>6 DEF Commit, Link, Rename, RenameFails, Install
    <3>4. pc[d] = "commit" => PathOf(d) \in Paths
      BY CallType
    <3> QED
      BY <1>0, <3>1, <3>2, <3>3, <3>4
  <2> QED
    BY <2>1, <2>2
<1>7. ASSUME NEW c \in Clients, FileETag(c) \/ Open(c) \/ StatFile(c) \/ StatETag(c)
      PROVE Checked(d)'
  <2>1. Probe(PathOf(c)) \in {"ENOTDIR", "dir", "file", "ENOENT"}
    BY DEF Probe
  <2> QED
    BY <1>0, <1>7, <2>1 DEF FileETag, Open, StatFile, StatETag
<1>8. ASSUME NEW c \in Clients, Remove(c) PROVE Checked(d)'
  <2>1. pc[d] = "commit" /\ req[d].ifMatch \in ETags => PathOf(c) # PathOf(d)
    <3> SUFFICES ASSUME pc[d] = "commit", req[d].ifMatch \in ETags, PathOf(c) = PathOf(d)
                 PROVE  FALSE
      OBVIOUS
    <3>1. /\ req[c] \in Calls[c] /\ req[d] \in Calls[d]
          /\ req[c].op = "Delete" /\ req[d].op \in Writes
      BY <1>8 DEF Remove, IInv, CallFits, WriteSteps
    <3>2. req[c].key = req[d].key
      BY <1>8, CallType DEF PlainKeys, Remove
    <3> QED
      BY <3>1, <3>2 DEF CasSerialised
  <2>2. pc'[d] = "commit" => pc[d] = "commit" /\ req' = req
    BY <1>0, <1>8 DEF Remove
  <2>3. \A p \in Paths : p # PathOf(c) => files'[p] = files[p]
    BY <1>0, <1>8 DEF Remove
  <2>4. pc[d] = "commit" => PathOf(d) \in Paths
    BY CallType
  <2> QED
    BY <1>0, <1>8, <2>1, <2>2, <2>3, <2>4 DEF Remove
<1>9. ASSUME NEW c \in Clients, Prune(c) PROVE Checked(d)'
  <2>1. pc'[d] = "commit" => pc[d] = "commit" /\ PathOf(d) \in Paths
    BY <1>0, <1>9, CallType DEF Prune
  <2>2. \A p \in Paths : files'[p] = files[p]
    BY <1>0, <1>9 DEF Prune, CanPrune, PlainKeys, IInv, TypeOK
  <2> QED
    BY <1>0, <1>9, <2>1, <2>2 DEF Prune
<1>10. ASSUME NEW i \in Instances, Crash(i) PROVE Checked(d)'
  BY <1>0, <1>10 DEF Crash
<1>11. CASE UNCHANGED vars
  BY <1>0, <1>11 DEF vars
<1> QED
  BY <1>1, <1>2, <1>3, <1>4, <1>5, <1>6, <1>7, <1>8, <1>9, <1>10, <1>11
     DEF Next, Step

(* On keys that are written through one FS value and never deleted, every  *)
(* compare-and-swap of Put and PutStream replaces exactly the object its   *)
(* entity tag names: however many clients, keys, other instances and       *)
(* crashes there are.                                                      *)
THEOREM CompareAndSwap ==
  ASSUME CasSerialised, PlainKeys
  PROVE  Spec => []CommitsCheckedView
<1>1. Init => CommitsCheckedView
  BY DEF Init, CommitsCheckedView
<1>2. IInv /\ CommitsCheckedView /\ [Next]_vars => CommitsCheckedView'
  BY NextCommits
<1> QED
  BY <1>1, <1>2, Inductive, PTL DEF Spec

-----------------------------------------------------------------------------
(* A step that takes an object away is the os.Remove of a Delete of its    *)
(* own path: commits put a body in place, and pruning reaches only paths   *)
(* that are directories.                                                   *)
LEMMA NextRemoves ==
  ASSUME PlainKeys, IInv, [Next]_vars, NEW p \in Paths,
         files[p] # Absent, files'[p] = Absent
  PROVE  \E c \in Clients : pc[c] = "remove" /\ PathOf(c) = p
<1> USE DEF Goto, Answer, Finish, disk
<1> DEFINE Goal == \E c \in Clients : pc[c] = "remove" /\ PathOf(c) = p
<1>0. files \in [Paths -> Bodies \cup {Absent}]
  BY DEF IInv, TypeOK
<1>1. ASSUME NEW c \in Clients, Invoke(c) \/ Return(c) \/ Enter(c) PROVE Goal
  BY <1>1 DEF Invoke, Return, Enter
<1>2. ASSUME NEW c \in Clients, MkdirAll(c) \/ CreateTemp(c) \/ WriteAndSync(c) \/ Discard(c)
      PROVE Goal
  BY <1>2 DEF MkdirAll, CreateTemp, WriteAndSync, Discard
<1>3. ASSUME NEW c \in Clients, Lock(c) \/ CheckIfMatch(c) \/ UnlinkTemp(c) \/ Unlock(c)
      PROVE Goal
  BY <1>3 DEF Lock, CheckIfMatch, UnlinkTemp, Unlock
<1>4. ASSUME NEW c \in Clients, Commit(c) PROVE Goal
  <2>1. tmp[c] \in Bodies /\ tmp[c] # Absent
    BY <1>4, CallType, CallsAssumption
       DEF Commit, IInv, CallFits, TempComplete, WriteSteps, PutCall
  <2>2. files'[p] \in {files[p], tmp[c]}
    BY <1>0, <1>4 DEF Commit, Link, Rename, RenameFails, Install
  <2> QED
    BY <2>1, <2>2
<1>5. ASSUME NEW c \in Clients, FileETag(c) \/ Open(c) \/ StatFile(c) \/ StatETag(c)
      PROVE Goal
  <2>1. Probe(PathOf(c)) \in {"ENOTDIR", "dir", "file", "ENOENT"}
    BY DEF Probe
  <2> QED
    BY <1>5, <2>1 DEF FileETag, Open, StatFile, StatETag
<1>6. ASSUME NEW c \in Clients, Remove(c) PROVE Goal
  BY <1>0, <1>6 DEF Remove
<1>7. ASSUME NEW c \in Clients, Prune(c) PROVE Goal
  <2>1. files'[p] = files[p]
    BY <1>0, <1>7 DEF Prune, CanPrune, PlainKeys, IInv, TypeOK
  <2> QED
    BY <2>1
<1>8. ASSUME NEW i \in Instances, Crash(i) PROVE Goal
  BY <1>8 DEF Crash
<1>9. CASE UNCHANGED vars
  BY <1>9 DEF vars
<1> QED
  BY <1>1, <1>2, <1>3, <1>4, <1>5, <1>6, <1>7, <1>8, <1>9 DEF Next, Step

(* Where no key is a directory of another, an object disappears only by a  *)
(* Delete of its own path: not by pruning, not by a failed or interrupted  *)
(* Put, not in a crash (fs.go:309, 318, 370).                              *)
THEOREM OnlyDeleteRemoves ==
  ASSUME PlainKeys
  PROVE  Spec => DeleteRemovesOnlyItsKey
<1>1. IInv /\ [Next]_vars =>
        [\A p \in Paths :
           (files[p] # Absent /\ files'[p] = Absent) =>
             \E c \in Clients : pc[c] = "remove" /\ PathOf(c) = p]_vars
  BY NextRemoves
<1> QED
  BY <1>1, Inductive, PTL DEF Spec, DeleteRemovesOnlyItsKey

-----------------------------------------------------------------------------
(***************************************************************************)
(* The directory tree: MkdirAll of a Put and the pruning of a Delete work  *)
(* on it without a common lock.                                            *)
(***************************************************************************)
(* A name is a file's or a directory's, not both.                          *)
NamesDistinct == \A p \in Paths : files[p] # Absent => p \notin dirs

(* MkdirAll's cursor is a prefix of the path it makes.                     *)
CursorOnPath ==
  \A c \in Clients :
    /\ pc[c] \notin {"mkdir", "prune"} => dir[c] = Root
    /\ pc[c] = "mkdir" => dir[c] = SubSeq(PathOf(c), 1, Len(dir[c]))

(* writeAndSync spools into a temp file it has created.                    *)
SpoolHasTemp == \A c \in Clients : pc[c] = "spool" => tmp[c] # Absent

(* The inductive invariant of the tree, on top of IInv.                    *)
TreeInv == ParentsExist /\ NamesDistinct /\ CursorOnPath /\ SpoolHasTemp

-----------------------------------------------------------------------------
(* A prefix of a path: its length, its parent and its ancestors.           *)
LEMMA PrefixFacts ==
  ASSUME NEW p \in Seq(STRING), NEW n \in 1..Len(p)
  PROVE  LET q == SubSeq(p, 1, n)
         IN  /\ q \in Seq(STRING) /\ Len(q) = n
             /\ Dir(q) = SubSeq(p, 1, n - 1)
             /\ Ancestors(q) = {SubSeq(p, 1, i) : i \in 1..(n - 1)}
<1> DEFINE q == SubSeq(p, 1, n)
<1>0. Len(p) \in Nat
  BY LenProperties
<1>1. \A j \in 1..n : p[j] \in STRING
  BY <1>0, ElementOfSeq
<1>2. q \in Seq(STRING) /\ Len(q) = n
  BY <1>0, <1>1, SubSeqProperties
<1>3. ASSUME NEW i \in 1..(n - 1)
      PROVE  SubSeq(q, 1, i) = SubSeq(p, 1, i)
  <2>1. n \in 1..Len(p) /\ 1 \in 1..Len(p) /\ 1 \in 1..(n - 1 + 1) /\ i \in 1..(n - 1 + 1)
    BY <1>0
  <2>2. SubSeq(SubSeq(p, 1, n), 1, i) = SubSeq(p, 1 + 1 - 1, 1 + i - 1)
    BY <2>1, <1>0, SubSeqOfSubSeq
  <2> QED
    BY <2>2, <1>0
<1>4. Dir(q) = SubSeq(p, 1, n - 1)
  <2>1. CASE n = 1
    BY <1>2, <2>1, SubSeqEmpty DEF Dir
  <2>2. CASE n > 1
    <3>1. n - 1 \in 1..(n - 1)
      BY <1>0, <2>2
    <3> QED
      BY <1>2, <1>3, <3>1 DEF Dir
  <2> QED
    BY <1>0, <2>1, <2>2
<1>5. Ancestors(q) = {SubSeq(p, 1, i) : i \in 1..(n - 1)}
  BY <1>2, <1>3 DEF Ancestors
<1> QED
  BY <1>2, <1>4, <1>5

(* The ancestors of a path are its parent and the parent's ancestors.      *)
LEMMA AncestorsUp ==
  ASSUME NEW p \in Seq(STRING), p # Root
  PROVE  \/ Dir(p) = Root /\ Ancestors(p) = {}
         \/ Dir(p) # Root /\ Ancestors(p) = Ancestors(Dir(p)) \cup {Dir(p)}
<1>0. Len(p) \in Nat \ {0} /\ SubSeq(p, 1, Len(p)) = p
  BY LenProperties, EmptySeq, SubSeqFull DEF Root
<1>1. CASE Len(p) = 1
  BY <1>1, SubSeqEmpty DEF Dir, Root, Ancestors
<1>2. CASE Len(p) > 1
  <2> DEFINE n == Len(p) - 1
  <2>1. n \in 1..Len(p) /\ Dir(p) = SubSeq(p, 1, n)
    BY <1>0, <1>2 DEF Dir
  <2>2. Len(Dir(p)) = n /\ Ancestors(Dir(p)) = {SubSeq(p, 1, i) : i \in 1..(n - 1)}
    BY <2>1, PrefixFacts
  <2>3. Ancestors(p) = {SubSeq(p, 1, i) : i \in 1..n}
    BY DEF Ancestors
  <2>4. Dir(p) # Root
    <3>1. Len(Root) = 0
      BY DEF Root
    <3> QED
      BY <1>0, <1>2, <2>2, <3>1
  <2>5. 1..n = (1..(n - 1)) \cup {n}
    BY <1>0, <1>2
  <2> HIDE DEF n
  <2>6. Ancestors(p) = Ancestors(Dir(p)) \cup {Dir(p)}
    BY <2>1, <2>2, <2>3, <2>5
  <2> QED
    BY <2>4, <2>6
<1> QED
  BY <1>0, <1>1, <1>2

(* An ancestor of a path is its parent or the parent of another ancestor.  *)
LEMMA AncestorHasChild ==
  ASSUME NEW p \in Seq(STRING), NEW d \in Ancestors(p)
  PROVE  Dir(p) = d \/ \E e \in Ancestors(p) : Dir(e) = d
<1>0. Len(p) \in Nat
  BY LenProperties
<1>1. PICK i \in 1..(Len(p) - 1) : d = SubSeq(p, 1, i)
  BY DEF Ancestors
<1>2. CASE i = Len(p) - 1
  BY <1>1, <1>2 DEF Dir
<1>3. CASE i < Len(p) - 1
  <2>1. i + 1 \in 1..Len(p) /\ i + 1 \in 1..(Len(p) - 1) /\ (i + 1) - 1 = i
    BY <1>0, <1>3
  <2>2. Dir(SubSeq(p, 1, i + 1)) = SubSeq(p, 1, i)
    BY <2>1, PrefixFacts
  <2> QED
    BY <1>1, <2>1, <2>2 DEF Ancestors
<1> QED
  BY <1>0, <1>1, <1>2, <1>3

(* A directory that is empty for rmdir is no ancestor of anything whose    *)
(* parents all exist.                                                      *)
LEMMA EmptyIsNoAncestor ==
  ASSUME NEW d, Empty(d), NEW p \in Seq(STRING), Ancestors(p) \subseteq dirs, Dir(p) # d
  PROVE  d \notin Ancestors(p)
BY AncestorHasChild DEF Empty

(* A path's ancestors exist when its parent is a directory.                *)
LEMMA ParentSuffices ==
  ASSUME ParentsExist, NEW p \in Seq(STRING), p # Root, IsDir(Dir(p))
  PROVE  Ancestors(p) \subseteq dirs
BY AncestorsUp DEF IsDir, ParentsExist

(* Removing a directory that is empty, and no file but its own name, leaves*)
(* every other parent in place.                                            *)
LEMMA RmdirKeepsParents ==
  ASSUME IInv, TreeInv, NEW d, d \in dirs => Empty(d),
         dirs' = dirs \ {d}, UNCHANGED <<tmp, req>>,
         \A p \in Paths : files'[p] \in {files[p], Absent}
  PROVE  ParentsExist' /\ NamesDistinct'
<1> USE DEF TreeInv
<1>1. ASSUME NEW p \in Paths, files'[p] # Absent
      PROVE  Ancestors(p) \subseteq dirs' /\ p \notin dirs'
  <2>1. files[p] # Absent /\ p \in Seq(STRING)
    BY <1>1, PathsAssumption DEF Paths
  <2>2. Ancestors(p) \subseteq dirs /\ p \notin dirs
    BY <2>1 DEF ParentsExist, NamesDistinct
  <2>3. CASE d \in dirs
    <3>1. Dir(p) # d
      BY <2>1, <2>3 DEF Empty, IsFile
    <3> QED
      BY <2>1, <2>2, <2>3, <3>1, EmptyIsNoAncestor
  <2> QED
    BY <2>2, <2>3
<1>2. ASSUME NEW c \in Clients, tmp'[c] # Absent
      PROVE  Ancestors(PathOf(c)) \subseteq dirs'
  <2>1. tmp[c] # Absent /\ PathOf(c) \in Seq(STRING)
    BY <1>2, CallType, PathType DEF IInv, NoLeftovers, HasTemp, PathOf
  <2>2. Ancestors(PathOf(c)) \subseteq dirs
    BY <2>1 DEF ParentsExist
  <2>3. CASE d \in dirs
    <3>1. Dir(PathOf(c)) # d
      BY <2>1, <2>3 DEF Empty
    <3> QED
      BY <2>1, <2>2, <2>3, <3>1, EmptyIsNoAncestor
  <2> QED
    BY <2>2, <2>3
<1>3. ASSUME NEW e \in dirs'
      PROVE  Ancestors(e) \subseteq dirs'
  <2>1. e \in dirs /\ e \in Seq(STRING)
    BY <1>3, DirPathSeq DEF IInv, TypeOK
  <2>2. Ancestors(e) \subseteq dirs
    BY <2>1 DEF ParentsExist
  <2>3. CASE d \in dirs
    <3>1. Dir(e) # d
      BY <2>1, <2>3 DEF Empty
    <3> QED
      BY <2>1, <2>2, <2>3, <3>1, EmptyIsNoAncestor
  <2> QED
    BY <2>2, <2>3
<1>4. \A c \in Clients : tmp'[c] # Absent => Ancestors(PathOf(c)') \subseteq dirs'
  BY <1>2 DEF PathOf
<1> QED
  BY <1>1, <1>3, <1>4 DEF ParentsExist, NamesDistinct

-----------------------------------------------------------------------------
(* MkdirAll moves its cursor down the path one segment at a time, and the  *)
(* cursor is back at the root when MkdirAll or the pruning is over.        *)
LEMMA NextCursor ==
  ASSUME IInv, TreeInv, [Next]_vars
  PROVE  CursorOnPath'
<1> DEFINE OnPath(d) == /\ pc[d] \notin {"mkdir", "prune"} => dir[d] = Root
                        /\ pc[d] = "mkdir" => dir[d] = SubSeq(PathOf(d), 1, Len(dir[d]))
<1> SUFFICES ASSUME NEW d \in Clients PROVE OnPath(d)'
  BY DEF CursorOnPath
<1> USE DEF Goto, Answer, Finish, disk, PathOf
<1>0. /\ pc \in [Clients -> Labels]
      /\ req \in [Clients -> Call \cup {NoCall}]
      /\ dir \in [Clients -> DirPaths \cup {Root}]
      /\ OnPath(d)
  BY DEF IInv, TypeOK, TreeInv, CursorOnPath
<1>1. ASSUME NEW c \in Clients, Invoke(c) \/ Return(c) PROVE OnPath(d)'
  BY <1>0, <1>1 DEF Invoke, Return
<1>2. ASSUME NEW c \in Clients, Enter(c) PROVE OnPath(d)'
  <2>1. First(req[c].op) # "prune"
    BY <1>2, CallType DEF Enter, First, Call, PutCall, KeyCall, Writes, Reads
  <2>2. \A p : SubSeq(p, 1, Len(Root)) = Root
    BY SubSeqEmpty DEF Root
  <2>3. UNCHANGED <<req, dir>>
    BY <1>2 DEF Enter
  <2>4. c = d => dir[d] = Root
    BY <1>0, <1>2 DEF Enter
  <2>5. c # d => pc'[d] = pc[d]
    BY <1>0, <1>2 DEF Enter
  <2>6. c = d => pc'[d] # "prune"
    BY <1>0, <1>2, <2>1 DEF Enter
  <2> QED
    BY <1>0, <2>2, <2>3, <2>4, <2>5, <2>6
<1>3. ASSUME NEW c \in Clients, MkdirAll(c) PROVE OnPath(d)'
  <2>1. CASE dir' = [dir EXCEPT ![c] = Root]
    BY <1>0, <1>3, <2>1 DEF MkdirAll
  <2>2. CASE dir' # [dir EXCEPT ![c] = Root]
    <3> DEFINE n == Len(dir[c]) + 1
    <3>1. /\ ~AllMade(c) /\ UNCHANGED <<pc, req>> /\ pc[c] = "mkdir"
          /\ dir' = [dir EXCEPT ![c] = SubSeq(PathOf(c), 1, n)]
      BY <1>3, <2>2 DEF MkdirAll
    <3>2. PathOf(c) \in Seq(STRING) /\ Len(PathOf(c)) \in Nat
      BY <1>3, CallType, PathType, LenProperties DEF MkdirAll
    <3>3. Len(dir[c]) \in Nat
      BY <1>0, DirPathSeq, LenProperties DEF Root
    <3>4. n \in 1..Len(PathOf(c))
      BY <3>1, <3>2, <3>3 DEF AllMade
    <3>5. Len(SubSeq(PathOf(c), 1, n)) = n
      BY <3>2, <3>4, PrefixFacts
    <3> HIDE DEF n
    <3> QED
      BY <1>0, <3>1, <3>5
  <2> QED
    BY <2>1, <2>2
<1>4. ASSUME NEW c \in Clients, CreateTemp(c) \/ WriteAndSync(c) \/ Discard(c)
      PROVE OnPath(d)'
  BY <1>0, <1>4 DEF CreateTemp, WriteAndSync, Discard
<1>5. ASSUME NEW c \in Clients, Lock(c) \/ CheckIfMatch(c) \/ UnlinkTemp(c) \/ Unlock(c)
      PROVE OnPath(d)'
  BY <1>0, <1>5 DEF Lock, CheckIfMatch, UnlinkTemp, Unlock
<1>6. ASSUME NEW c \in Clients, Commit(c) PROVE OnPath(d)'
  BY <1>0, <1>6 DEF Commit, Rename, RenameFails
<1>7. ASSUME NEW c \in Clients, FileETag(c) \/ Open(c) \/ StatFile(c) \/ StatETag(c)
      PROVE OnPath(d)'
  <2>1. Probe(PathOf(c)) \in {"ENOTDIR", "dir", "file", "ENOENT"}
    BY DEF Probe
  <2> QED
    BY <1>0, <1>7, <2>1 DEF FileETag, Open, StatFile, StatETag
<1>8. ASSUME NEW c \in Clients, Remove(c) \/ Prune(c) PROVE OnPath(d)'
  BY <1>0, <1>8 DEF Remove, Prune
<1>9. ASSUME NEW i \in Instances, Crash(i) PROVE OnPath(d)'
  BY <1>0, <1>9 DEF Crash
<1>10. CASE UNCHANGED vars
  BY <1>0, <1>10 DEF vars
<1> QED
  BY <1>1, <1>2, <1>3, <1>4, <1>5, <1>6, <1>7, <1>8, <1>9, <1>10 DEF Next, Step

(* CreateTemp is the way to the spool step, and it makes the temp file.    *)
LEMMA NextSpool ==
  ASSUME IInv, TreeInv, [Next]_vars
  PROVE  SpoolHasTemp'
<1> SUFFICES ASSUME NEW d \in Clients PROVE (pc[d] = "spool" => tmp[d] # Absent)'
  BY DEF SpoolHasTemp
<1> DEFINE Goal == pc'[d] = "spool" => tmp'[d] # Absent
<1> USE DEF Goto, Answer, Finish, disk
<1>0. /\ pc \in [Clients -> Labels]
      /\ tmp \in [Clients -> Bodies \cup {<<>>, Absent}]
      /\ pc[d] = "spool" => tmp[d] # Absent
  BY DEF IInv, TypeOK, TreeInv, SpoolHasTemp
<1>1. ASSUME NEW c \in Clients, Invoke(c) \/ Return(c) PROVE Goal
  BY <1>0, <1>1 DEF Invoke, Return
<1>2. ASSUME NEW c \in Clients, Enter(c) PROVE Goal
  <2>1. First(req[c].op) # "spool"
    BY <1>2, CallType DEF Enter, First, Call, PutCall, KeyCall, Writes, Reads
  <2> QED
    BY <1>0, <1>2, <2>1 DEF Enter
<1>3. ASSUME NEW c \in Clients, MkdirAll(c) PROVE Goal
  BY <1>0, <1>3 DEF MkdirAll
<1>4. ASSUME NEW c \in Clients, CreateTemp(c) PROVE Goal
  BY <1>0, <1>4, CallsAssumption DEF CreateTemp
<1>5. ASSUME NEW c \in Clients, WriteAndSync(c) \/ Discard(c) PROVE Goal
  BY <1>0, <1>5 DEF WriteAndSync, Discard
<1>6. ASSUME NEW c \in Clients, Lock(c) \/ CheckIfMatch(c) \/ UnlinkTemp(c) \/ Unlock(c)
      PROVE Goal
  BY <1>0, <1>6 DEF Lock, CheckIfMatch, UnlinkTemp, Unlock
<1>7. ASSUME NEW c \in Clients, Commit(c) PROVE Goal
  BY <1>0, <1>7 DEF Commit, Rename, RenameFails
<1>8. ASSUME NEW c \in Clients, FileETag(c) \/ Open(c) \/ StatFile(c) \/ StatETag(c)
      PROVE Goal
  <2>1. Probe(PathOf(c)) \in {"ENOTDIR", "dir", "file", "ENOENT"}
    BY DEF Probe
  <2> QED
    BY <1>0, <1>8, <2>1 DEF FileETag, Open, StatFile, StatETag
<1>9. ASSUME NEW c \in Clients, Remove(c) \/ Prune(c) PROVE Goal
  BY <1>0, <1>9 DEF Remove, Prune
<1>10. ASSUME NEW i \in Instances, Crash(i) PROVE Goal
  BY <1>0, <1>10 DEF Crash
<1>11. CASE UNCHANGED vars
  BY <1>0, <1>11 DEF vars
<1> QED
  BY <1>1, <1>2, <1>3, <1>4, <1>5, <1>6, <1>7, <1>8, <1>9, <1>10, <1>11 DEF Next, Step

(* A step that leaves objects and directories alone, and gives no client a *)
(* temp file, keeps the parents.                                           *)
LEMMA QuietKeepsParents ==
  ASSUME TreeInv, UNCHANGED <<files, dirs>>,
         \A c \in Clients : tmp'[c] # Absent => tmp[c] # Absent /\ req'[c] = req[c]
  PROVE  ParentsExist' /\ NamesDistinct'
BY DEF TreeInv, ParentsExist, NamesDistinct, PathOf

(* Every step keeps the parents of objects, temp files and directories.    *)
LEMMA NextParents ==
  ASSUME IInv, TreeInv, [Next]_vars
  PROVE  ParentsExist' /\ NamesDistinct'
<1> DEFINE Goal == ParentsExist' /\ NamesDistinct'
<1> USE DEF Goto, Answer, Finish, disk
<1>0. /\ tmp \in [Clients -> Bodies \cup {<<>>, Absent}]
      /\ req \in [Clients -> Call \cup {NoCall}]
      /\ files \in [Paths -> Bodies \cup {Absent}]
      /\ dirs \subseteq DirPaths
      /\ \A c \in Clients : tmp[c] # Absent => pc[c] \in HasTemp
  BY DEF IInv, TypeOK, NoLeftovers
<1>1. ASSUME NEW c \in Clients, Invoke(c) \/ Return(c) PROVE Goal
  BY <1>0, <1>1, QuietKeepsParents DEF Invoke, Return, HasTemp
<1>2. ASSUME NEW c \in Clients, Enter(c) \/ Lock(c) \/ CheckIfMatch(c) \/ Unlock(c)
      PROVE Goal
  BY <1>2, QuietKeepsParents DEF Enter, Lock, CheckIfMatch, Unlock
<1>3. ASSUME NEW c \in Clients, WriteAndSync(c) \/ Discard(c) \/ UnlinkTemp(c) PROVE Goal
  BY <1>0, <1>3, QuietKeepsParents
     DEF WriteAndSync, Discard, UnlinkTemp, TreeInv, SpoolHasTemp
<1>4. ASSUME NEW c \in Clients, FileETag(c) \/ Open(c) \/ StatFile(c) \/ StatETag(c)
      PROVE Goal
  <2>1. UNCHANGED <<files, dirs, tmp, req>>
    BY <1>4 DEF FileETag, Open, StatFile, StatETag
  <2> QED
    BY <2>1, QuietKeepsParents
<1>5. ASSUME NEW c \in Clients, MkdirAll(c) PROVE Goal
  <2> DEFINE d == SubSeq(PathOf(c), 1, Len(dir[c]) + 1)
  <2>1. CASE UNCHANGED dirs
    BY <1>5, <2>1, QuietKeepsParents DEF MkdirAll
  <2>2. CASE ~AllMade(c) /\ ~IsFile(d) /\ IsDir(dir[c]) /\ dirs' = dirs \cup {d}
    <3>1. PathOf(c) \in Seq(STRING) /\ Len(PathOf(c)) \in Nat /\ Len(dir[c]) \in Nat
      BY <1>5, CallType, PathType, DirPathSeq, LenProperties
         DEF MkdirAll, PathOf, IInv, TypeOK, Root
    <3>2. Len(dir[c]) + 1 \in 1..Len(PathOf(c)) /\ (Len(dir[c]) + 1) - 1 = Len(dir[c])
      BY <2>2, <3>1 DEF AllMade
    <3>3. d \in Seq(STRING) /\ Len(d) = Len(dir[c]) + 1
          /\ Dir(d) = SubSeq(PathOf(c), 1, Len(dir[c]))
      BY <3>1, <3>2, PrefixFacts
    <3>4. Dir(d) = dir[c]
      BY <1>5, <3>3 DEF MkdirAll, TreeInv, CursorOnPath
    <3> HIDE DEF d
    <3>5. d # Root
      BY <3>1, <3>3 DEF Root
    <3>6. Ancestors(d) \subseteq dirs
      BY <2>2, <3>3, <3>4, <3>5, ParentSuffices DEF TreeInv
    <3>7. UNCHANGED <<files, tmp, req>>
      BY <1>5 DEF MkdirAll
    <3> QED
      BY <2>2, <3>6, <3>7 DEF TreeInv, ParentsExist, NamesDistinct, IsFile, PathOf
  <2> QED
    BY <1>5, <2>1, <2>2 DEF MkdirAll
<1>6. ASSUME NEW c \in Clients, CreateTemp(c) PROVE Goal
  <2>1. CASE UNCHANGED tmp
    BY <1>6, <2>1, QuietKeepsParents DEF CreateTemp
  <2>2. CASE IsDir(Dir(PathOf(c)))
    <3>1. PathOf(c) \in Seq(STRING) /\ PathOf(c) # Root
      BY <1>6, CallType, PathType DEF CreateTemp, PathOf
    <3>2. Ancestors(PathOf(c)) \subseteq dirs
      BY <2>2, <3>1, ParentSuffices DEF TreeInv
    <3>3. UNCHANGED <<files, dirs, req>> /\ \A e \in Clients \ {c} : tmp'[e] = tmp[e]
      BY <1>0, <1>6 DEF CreateTemp
    <3> QED
      BY <3>2, <3>3 DEF TreeInv, ParentsExist, NamesDistinct, PathOf
  <2> QED
    BY <1>6, <2>1, <2>2 DEF CreateTemp
<1>7. ASSUME NEW c \in Clients, Commit(c) PROVE Goal
  <2>1. UNCHANGED <<dirs, req>> /\ \A e \in Clients : tmp'[e] \in {tmp[e], Absent}
    BY <1>0, <1>7 DEF Commit, Rename, RenameFails
  <2>2. \/ UNCHANGED files
        \/ Install(c) /\ Probe(PathOf(c)) \in {"ENOENT", "file"}
    BY <1>7 DEF Commit, Link, Rename, RenameFails
  <2>3. CASE UNCHANGED files
    BY <2>1, <2>3, QuietKeepsParents
  <2>4. CASE Install(c) /\ Probe(PathOf(c)) \in {"ENOENT", "file"}
    <3>1. tmp[c] # Absent
      BY <1>7, CallType, CallsAssumption
         DEF Commit, IInv, CallFits, TempComplete, WriteSteps, PutCall
    <3>2. Ancestors(PathOf(c)) \subseteq dirs
      BY <3>1 DEF TreeInv, ParentsExist
    <3>3. PathOf(c) \notin dirs
      BY <2>4 DEF Probe
    <3>4. \A p \in Paths : p # PathOf(c) => files'[p] = files[p]
      BY <1>0, <2>4 DEF Install
    <3> QED
      BY <2>1, <3>2, <3>3, <3>4 DEF TreeInv, ParentsExist, NamesDistinct, PathOf
  <2> QED
    BY <2>2, <2>3, <2>4
<1>8. ASSUME NEW c \in Clients, Remove(c) PROVE Goal
  <2>1. UNCHANGED <<tmp, req>>
    BY <1>8 DEF Remove
  <2>2. CASE UNCHANGED <<files, dirs>>
    BY <2>1, <2>2, QuietKeepsParents
  <2>3. CASE /\ Probe(PathOf(c)) = "file" \/ (Probe(PathOf(c)) = "dir" /\ Empty(PathOf(c)))
             /\ files' = [q \in Paths |-> IF q = PathOf(c) THEN Absent ELSE files[q]]
             /\ dirs' = dirs \ {PathOf(c)}
    <3>1. PathOf(c) \in dirs => Empty(PathOf(c))
      BY <2>3 DEF Probe
    <3>2. \A p \in Paths : files'[p] \in {files[p], Absent}
      BY <2>3
    <3> QED
      BY <2>1, <2>3, <3>1, <3>2, RmdirKeepsParents
  <2> QED
    BY <1>8, <2>2, <2>3 DEF Remove
<1>9. ASSUME NEW c \in Clients, Prune(c) PROVE Goal
  <2>1. UNCHANGED <<tmp, req>>
    BY <1>9 DEF Prune
  <2>2. CASE UNCHANGED <<files, dirs>>
    BY <2>1, <2>2, QuietKeepsParents
  <2>3. CASE /\ CanPrune(dir[c])
             /\ files' = [p \in Paths |-> IF p = dir[c] THEN Absent ELSE files[p]]
             /\ dirs' = dirs \ {dir[c]}
    <3>1. dir[c] \in dirs => Empty(dir[c])
      BY <2>3 DEF CanPrune, IsFile, TreeInv, NamesDistinct
    <3>2. \A p \in Paths : files'[p] \in {files[p], Absent}
      BY <2>3
    <3> QED
      BY <2>1, <2>3, <3>1, <3>2, RmdirKeepsParents
  <2> QED
    BY <1>9, <2>2, <2>3 DEF Prune
<1>10. ASSUME NEW i \in Instances, Crash(i) PROVE Goal
  BY <1>0, <1>10, QuietKeepsParents DEF Crash
<1>11. CASE UNCHANGED vars
  BY <1>11, QuietKeepsParents DEF vars
<1> QED
  BY <1>1, <1>2, <1>3, <1>4, <1>5, <1>6, <1>7, <1>8, <1>9, <1>10, <1>11 DEF Next, Step

(***************************************************************************)
(* However Puts and Deletes of any number of clients and processes         *)
(* interleave, and whichever of them die half-way, the parents of every    *)
(* object and of every temp file exist: MkdirAll (fs.go:76, 113) needs no  *)
(* lock against the pruning of Delete (fs.go:316-322), also where one key  *)
(* is a directory of another.                                              *)
(***************************************************************************)
THEOREM ParentsStay == Spec => []ParentsExist
<1>1. Init => TreeInv
  BY DEF Init, TreeInv, ParentsExist, NamesDistinct, CursorOnPath, SpoolHasTemp
<1>2. IInv /\ TreeInv /\ [Next]_vars => TreeInv'
  BY NextParents, NextCursor, NextSpool DEF TreeInv
<1>3. TreeInv => ParentsExist
  BY DEF TreeInv
<1> QED
  BY <1>1, <1>2, <1>3, Inductive, PTL DEF Spec

-----------------------------------------------------------------------------
(***************************************************************************)
(* The filesystem backend implements the Bucket contract, step by step:    *)
(* for every set of clients, processes, keys and calls that is used with   *)
(* discipline.                                                             *)
(***************************************************************************)

(* b is a body that some client may write to k.                            *)
WrittenBy(k, b) ==
  \E d \in Clients : \E q \in Calls[d] : q.op \in Writes /\ q.key = k /\ q.body = b

(* What a key holds was written to that key.                               *)
ContentWritten ==
  \A k \in Keys : files[keyPath(k)] # Absent => WrittenBy(k, files[keyPath(k)])

(* A read is at the steps of its own operation.                            *)
ReadFits ==
  \A c \in Clients :
    /\ pc[c] = "idle" => req[c] = NoCall
    /\ pc[c] = "etag" => req[c].op = "Get"
    /\ pc[c] = "open" => req[c].op \in {"Get", "GetRange"}
    /\ pc[c] \in {"stat", "statetag"} => req[c].op = "Stat"

(* What the first half of Get and Stat has read is the tag, or the length, *)
(* of a body written to the key.                                           *)
HalfRead ==
  \A c \in Clients :
    /\ pc[c] \in {"idle", "entry"} => resp[c] = Blank
    /\ pc[c] = "open" /\ req[c].op = "GetRange" => resp[c] = Blank
    /\ pc[c] = "open" /\ req[c].op = "Get" =>
         \E b \in Bodies : /\ WrittenBy(req[c].key, b)
                           /\ resp[c] = [Blank EXCEPT !.etag = ETag(b)]
    /\ pc[c] = "statetag" =>
         \E b \in Bodies : /\ WrittenBy(req[c].key, b)
                           /\ resp[c] = [Blank EXCEPT !.size = Len(b)]

(* The inductive invariant of the refinement, on top of IInv.              *)
ReadInv == ContentWritten /\ ReadFits /\ HalfRead

-----------------------------------------------------------------------------
(* A call is not NoCall.                                                   *)
LEMMA CallIsCall ==
  ASSUME NEW r \in Call
  PROVE  r # NoCall
BY DEF Call, PutCall, KeyCall, Writes, Reads, NoCall

(* Where keys are plain, no object path is a directory and none runs       *)
(* through a file: a probe finds the object or nothing.                    *)
LEMMA PlainProbe ==
  ASSUME PlainKeys, IInv, NEW p \in Paths
  PROVE  Probe(p) = IF files[p] # Absent THEN "file" ELSE "ENOENT"
<1>1. p \notin dirs
  BY DEF PlainKeys, IInv, TypeOK
<1>2. \A a \in Ancestors(p) : a \notin Paths
  BY DEF PlainKeys, DirPaths
<1> QED
  BY <1>1, <1>2 DEF Probe, IsFile

-----------------------------------------------------------------------------
(* A step that fixes a client's answer and writes what the contract says   *)
(* is a TakeEffect of the contract.                                        *)
LEMMA EffectStep ==
  ASSUME PlainKeys, IInv, NEW c \in Clients, pc[c] # "idle",
         pc[c] \notin Effective, pc'[c] \in Effective,
         \A d \in Clients \ {c} : pc'[d] = pc[d] /\ resp'[d] = resp[d],
         resp'[c] = Contract!Answer(req[c], files[PathOf(c)]),
         files'[PathOf(c)] = Contract!Leaves(req[c], files[PathOf(c)]),
         \A p \in Paths : p # PathOf(c) => files'[p] = files[p],
         UNCHANGED req
  PROVE  Contract!TakeEffect(c)
<1> DEFINE k == req[c].key
<1>1. req[c] # NoCall /\ k \in Keys
  BY CallType, CallIsCall
<1>2. Stored[k] = files[PathOf(c)]
  BY <1>1 DEF Stored, PathOf
<1>3. Outcome[c] = Contract!Pending
  BY DEF Outcome, Contract!Pending
<1>4. Outcome' = [Outcome EXCEPT ![c] = Contract!Answer(req[c], Stored[k])]
  BY <1>2 DEF Outcome
<1>5. Stored' = [Stored EXCEPT ![k] = Contract!Leaves(req[c], Stored[k])]
  <2>1. \A j \in Keys : j # k => keyPath(j) # PathOf(c) /\ keyPath(j) \in Paths
    BY <1>1, PathType DEF PlainKeys, PathOf
  <2> QED
    BY <1>1, <1>2, <2>1 DEF Stored, PathOf
<1> QED
  BY <1>1, <1>3, <1>4, <1>5 DEF Contract!TakeEffect, Contract!NoCall, NoCall

(* A step that fixes an error and writes nothing is a FailWithoutEffect.   *)
LEMMA FailStep ==
  ASSUME IInv, NEW c \in Clients, pc[c] # "idle",
         pc[c] \notin Effective, pc'[c] \in Effective,
         \A d \in Clients \ {c} : pc'[d] = pc[d] /\ resp'[d] = resp[d],
         NEW e \in {"ctx", "key", "body", "io"}, resp'[c] = Fail(e),
         UNCHANGED <<files, req>>
  PROVE  Contract!FailWithoutEffect(c)
<1>1. req[c] # NoCall
  BY CallType, CallIsCall
<1>2. Outcome[c] = Contract!Pending
  BY DEF Outcome, Contract!Pending
<1>3. Outcome' = [Outcome EXCEPT ![c] = Fail(e)]
  BY DEF Outcome
<1>4. Stored' = Stored
  BY DEF Stored
<1> QED
  BY <1>1, <1>2, <1>3, <1>4 DEF Contract!FailWithoutEffect, Contract!NoCall, NoCall,
                                 Contract!Fail, Contract!Blank, Contract!NoTag,
                                 Fail, Blank, NoTag

(* A step that neither fixes an answer nor changes an object is invisible. *)
LEMMA HiddenStep ==
  ASSUME UNCHANGED req, \A p \in Paths : files'[p] = files[p],
         \A d \in Clients : /\ pc'[d] \in Effective <=> pc[d] \in Effective
                            /\ pc[d] \in Effective => resp'[d] = resp[d]
  PROVE  UNCHANGED Contract!vars
<1>1. Outcome' = Outcome
  BY DEF Outcome
<1>2. Stored' = Stored
  BY DEF Stored, Paths
<1> QED
  BY <1>1, <1>2 DEF Contract!vars

-----------------------------------------------------------------------------
(* The contract's answers and effects, operation by operation.             *)
LEMMA WriteEffect ==
  ASSUME NEW r \in PutCall, r.op \in Writes, NEW cur
  PROVE  /\ Contract!Holds(r.ifMatch, cur) =>
              /\ Contract!Answer(r, cur) = [Blank EXCEPT !.etag = ETag(r.body)]
              /\ Contract!Leaves(r, cur) = r.body
         /\ ~Contract!Holds(r.ifMatch, cur) =>
              /\ Contract!Answer(r, cur) = Fail("ErrPreconditionFailed")
              /\ Contract!Leaves(r, cur) = cur
BY DEF Contract!Answer, Contract!Leaves, Contract!Writes, Writes, Contract!Reads,
       Contract!Blank, Contract!NoTag, Blank, NoTag, Contract!ETag, ETag,
       Contract!Fail, Fail

LEMMA KeyEffect ==
  ASSUME NEW r \in Call, r.op \notin Writes, NEW cur
  PROVE  /\ r.op \in Reads => Contract!Leaves(r, cur) = cur
         /\ r.op = "Delete" => Contract!Leaves(r, cur) = Absent
         /\ cur = Absent => Contract!Answer(r, cur) = Fail("ErrNotFound")
         /\ cur # Absent =>
              /\ r.op = "Get" =>
                   Contract!Answer(r, cur) = [Blank EXCEPT !.etag = ETag(cur), !.body = cur]
              /\ r.op = "GetRange" =>
                   Contract!Answer(r, cur) = [Blank EXCEPT !.body = cur]
              /\ r.op = "Stat" =>
                   Contract!Answer(r, cur) = [Blank EXCEPT !.etag = ETag(cur), !.size = Len(cur)]
              /\ r.op = "Delete" => Contract!Answer(r, cur) = Blank
BY DEF Contract!Answer, Contract!Leaves, Contract!Writes, Writes, Contract!Reads, Reads,
       Contract!Blank, Contract!NoTag, Blank, NoTag, Contract!ETag, ETag,
       Contract!Fail, Fail

(* The contract's precondition, in the words of BucketTypes.               *)
LEMMA HoldsIs ==
  ASSUME NEW m, NEW cur
  PROVE  Contract!Holds(m, cur) <=> \/ m = NoMatch
                                    \/ m = IfAbsent /\ cur = Absent
                                    \/ m \in ETags /\ cur # Absent /\ ETag(cur) = m
BY DEF Contract!Holds, NoMatch, IfAbsent, Contract!NoMatch, Contract!IfAbsent,
       Contract!ETags, ETags, Contract!ETag, ETag

(* checkIfMatch answers what the contract's precondition says.             *)
LEMMA CheckHolds ==
  ASSUME PlainKeys, IInv, NEW c \in Clients, pc[c] = "check",
         NEW e, e = IfMatchError(req[c].ifMatch, PathOf(c))
  PROVE  /\ e \in {"nil", "ErrPreconditionFailed"}
         /\ e # "nil" => ~Contract!Holds(req[c].ifMatch, files[PathOf(c)])
<1>1. req[c].ifMatch \in Preconds /\ PathOf(c) \in Paths
  BY CallType DEF IInv, CallFits, WriteSteps, PutCall
<1>2. Probe(PathOf(c)) = IF files[PathOf(c)] # Absent THEN "file" ELSE "ENOENT"
  BY <1>1, PlainProbe
<1>3. Contract!Holds(req[c].ifMatch, files[PathOf(c)]) <=>
        \/ req[c].ifMatch = NoMatch
        \/ req[c].ifMatch = IfAbsent /\ files[PathOf(c)] = Absent
        \/ /\ req[c].ifMatch \in ETags
           /\ files[PathOf(c)] # Absent
           /\ ETag(files[PathOf(c)]) = req[c].ifMatch
  BY HoldsIs
<1>4. NoMatch # IfAbsent
  BY DEF NoMatch, IfAbsent
<1>5. CASE req[c].ifMatch = NoMatch
  BY <1>4, <1>5, TagsDistinct DEF IfMatchError
<1>6. CASE req[c].ifMatch = IfAbsent
  <2>1. req[c].ifMatch # NoMatch /\ req[c].ifMatch \notin ETags
    BY <1>4, <1>6, TagsDistinct
  <2>2. e = CASE Probe(PathOf(c)) = "ENOENT" -> "nil"
              [] Probe(PathOf(c)) = "ENOTDIR" -> "io"
              [] OTHER -> "ErrPreconditionFailed"
    BY <1>6, <2>1 DEF IfMatchError
  <2> QED
    BY <1>2, <1>3, <2>1, <2>2
<1>7. CASE req[c].ifMatch \in ETags
  <2>1. req[c].ifMatch # NoMatch /\ req[c].ifMatch # IfAbsent
    BY <1>7, TagsDistinct
  <2>2. e = CASE Probe(PathOf(c)) = "ENOENT" -> "ErrPreconditionFailed"
              [] Probe(PathOf(c)) \in {"dir", "ENOTDIR"} -> "io"
              [] Probe(PathOf(c)) = "file" ->
                   IF ETag(files[PathOf(c)]) = req[c].ifMatch THEN "nil"
                   ELSE "ErrPreconditionFailed"
    BY <1>7, <2>1 DEF IfMatchError
  <2> QED
    BY <1>2, <1>3, <2>1, <2>2
<1> QED
  BY <1>1, <1>5, <1>6, <1>7 DEF Preconds

-----------------------------------------------------------------------------
(* An object is installed by a write to its own key.                       *)
LEMMA NextContent ==
  ASSUME PlainKeys, IInv, ReadInv, [Next]_vars
  PROVE  ContentWritten'
<1> SUFFICES ASSUME NEW k \in Keys, files'[keyPath(k)] # Absent
             PROVE  WrittenBy(k, files'[keyPath(k)])
  BY DEF ContentWritten, WrittenBy
<1> DEFINE p == keyPath(k)
<1>0. /\ p \in Paths /\ files \in [Paths -> Bodies \cup {Absent}]
      /\ files[p] # Absent => WrittenBy(k, files[p])
  BY PathType DEF IInv, TypeOK, ReadInv, ContentWritten
<1> HIDE DEF p
<1> USE DEF Goto, Answer, Finish, disk
<1>1. CASE UNCHANGED files
  BY <1>0, <1>1 DEF p
<1>2. ASSUME NEW c \in Clients, Commit(c)
      PROVE  WrittenBy(k, files'[keyPath(k)])
  <2>1. files'[p] = files[p] \/ (p = PathOf(c) /\ files'[p] = tmp[c])
    BY <1>0, <1>2 DEF Commit, Link, Rename, RenameFails, Install
  <2>2. tmp[c] = req[c].body /\ req[c].op \in Writes /\ req[c] \in Calls[c]
    BY <1>2 DEF Commit, IInv, TempComplete, CallFits, WriteSteps
  <2>3. p = PathOf(c) => k = req[c].key
    BY <1>2, CallType DEF p, PathOf, PlainKeys, Commit
  <2> QED
    BY <1>0, <2>1, <2>2, <2>3 DEF p, WrittenBy
<1>3. ASSUME NEW c \in Clients, Remove(c) \/ Prune(c)
      PROVE  WrittenBy(k, files'[keyPath(k)])
  <2>1. files'[p] \in {files[p], Absent}
    BY <1>0, <1>3 DEF Remove, Prune
  <2> QED
    BY <1>0, <2>1 DEF p
<1>4. ASSUME NEW c \in Clients, Invoke(c) \/ Enter(c) \/ Lock(c) \/ Return(c)
      PROVE  UNCHANGED files
  BY <1>4 DEF Invoke, Enter, Lock, Return
<1>5. ASSUME NEW c \in Clients, MkdirAll(c) \/ CreateTemp(c) \/ WriteAndSync(c)
                               \/ Discard(c) \/ CheckIfMatch(c) \/ UnlinkTemp(c) \/ Unlock(c)
      PROVE  UNCHANGED files
  BY <1>5 DEF MkdirAll, CreateTemp, WriteAndSync, Discard, CheckIfMatch, UnlinkTemp, Unlock
<1>6. ASSUME NEW c \in Clients, FileETag(c) \/ Open(c) \/ StatFile(c) \/ StatETag(c)
      PROVE  UNCHANGED files
  BY <1>6 DEF FileETag, Open, StatFile, StatETag
<1>7. ASSUME NEW i \in Instances, Crash(i)
      PROVE  UNCHANGED files
  BY <1>7 DEF Crash
<1>8. CASE UNCHANGED vars
  BY <1>1, <1>8 DEF vars
<1> QED
  BY <1>1, <1>2, <1>3, <1>4, <1>5, <1>6, <1>7, <1>8 DEF Next, Step

(* Get and Stat remember, between their two looks at the file, what the    *)
(* first one saw.                                                          *)
LEMMA NextReads ==
  ASSUME PlainKeys, IInv, ReadInv, [Next]_vars
  PROVE  ReadFits' /\ HalfRead'
<1> DEFINE Fits(d) ==
      /\ pc[d] = "idle" => req[d] = NoCall
      /\ pc[d] = "etag" => req[d].op = "Get"
      /\ pc[d] = "open" => req[d].op \in {"Get", "GetRange"}
      /\ pc[d] \in {"stat", "statetag"} => req[d].op = "Stat"
    Half(d) ==
      /\ pc[d] \in {"idle", "entry"} => resp[d] = Blank
      /\ pc[d] = "open" /\ req[d].op = "GetRange" => resp[d] = Blank
      /\ pc[d] = "open" /\ req[d].op = "Get" =>
           \E b \in Bodies : /\ WrittenBy(req[d].key, b)
                             /\ resp[d] = [Blank EXCEPT !.etag = ETag(b)]
      /\ pc[d] = "statetag" =>
           \E b \in Bodies : /\ WrittenBy(req[d].key, b)
                             /\ resp[d] = [Blank EXCEPT !.size = Len(b)]
<1> SUFFICES ASSUME NEW d \in Clients PROVE Fits(d)' /\ Half(d)'
  BY DEF ReadFits, HalfRead, WrittenBy
<1> USE DEF Goto, Answer, Finish, disk
<1> DEFINE Goal == Fits(d)' /\ Half(d)'
<1>0. /\ pc \in [Clients -> Labels]
      /\ req \in [Clients -> Call \cup {NoCall}]
      /\ resp \in [Clients -> Response]
      /\ Fits(d) /\ Half(d)
  BY DEF IInv, TypeOK, ReadInv, ReadFits, HalfRead
<1> HIDE DEF Fits, Half
(* A step that leaves d where it is leaves what it has read.               *)
<1>k. ASSUME pc'[d] = pc[d], req'[d] = req[d], resp'[d] = resp[d] PROVE Goal
  BY <1>0, <1>k DEF Fits, Half, WrittenBy
(* A step that takes d to one of the other steps has nothing to show.      *)
<1>l. ASSUME pc'[d] \notin {"idle", "entry", "etag", "open", "stat", "statetag"} PROVE Goal
  BY <1>l DEF Fits, Half
<1>1. ASSUME NEW c \in Clients, Invoke(c) \/ Return(c) PROVE Goal
  <2>1. CASE c = d
    BY <1>0, <1>1, <2>1 DEF Invoke, Return, Fits, Half
  <2>2. CASE c # d
    BY <1>0, <1>1, <1>k, <2>2 DEF Invoke, Return
  <2> QED
    BY <2>1, <2>2
<1>2. ASSUME NEW c \in Clients, Enter(c) PROVE Goal
  <2>1. CASE c = d
    <3>1. req[c].op \in Writes \cup {"Get", "GetRange", "Stat", "Delete"}
      BY <1>2, CallType DEF Enter, Call, PutCall, KeyCall, Reads
    <3>2. UNCHANGED req /\ resp[d] = Blank
      BY <1>0, <1>2, <2>1 DEF Enter, Half
    <3>3. pc'[d] = "done" \/ (pc'[d] = First(req[d].op) /\ resp'[d] = resp[d])
      BY <1>0, <1>2, <2>1 DEF Enter
    <3> QED
      BY <1>l, <2>1, <3>1, <3>2, <3>3 DEF First, Writes, Fits, Half
  <2>2. CASE c # d
    BY <1>0, <1>2, <1>k, <2>2 DEF Enter
  <2> QED
    BY <2>1, <2>2
<1>3. ASSUME NEW c \in Clients, MkdirAll(c) \/ CreateTemp(c) \/ WriteAndSync(c) \/ Discard(c)
      PROVE Goal
  BY <1>0, <1>3, <1>k, <1>l DEF MkdirAll, CreateTemp, WriteAndSync, Discard
<1>4. ASSUME NEW c \in Clients, Lock(c) \/ CheckIfMatch(c) \/ UnlinkTemp(c) \/ Unlock(c)
      PROVE Goal
  BY <1>0, <1>4, <1>k, <1>l DEF Lock, CheckIfMatch, UnlinkTemp, Unlock
<1>5. ASSUME NEW c \in Clients, Commit(c) PROVE Goal
  <2>1. UNCHANGED req /\ pc'[c] \in {"unlink", "unlock"}
        /\ \A e \in Clients \ {c} : pc'[e] = pc[e] /\ resp'[e] = resp[e]
    BY <1>0, <1>5 DEF Commit, Link, Rename, RenameFails
  <2> QED
    BY <1>k, <1>l, <2>1
<1>6. ASSUME NEW c \in Clients, FileETag(c) \/ StatFile(c) PROVE Goal
  <2>1. PathOf(c) \in Paths /\ req[c].key \in Keys
    BY <1>6, CallType DEF FileETag, StatFile
  <2>2. Probe(PathOf(c)) = IF files[PathOf(c)] # Absent THEN "file" ELSE "ENOENT"
    BY <2>1, PlainProbe
  <2>3. files[PathOf(c)] # Absent =>
          files[PathOf(c)] \in Bodies /\ WrittenBy(req[c].key, files[PathOf(c)])
    BY <2>1 DEF IInv, TypeOK, ReadInv, ContentWritten, PathOf
  <2>4. CASE c # d
    BY <1>0, <1>6, <1>k, <2>2, <2>4 DEF FileETag, StatFile
  <2>5. CASE c = d /\ files[PathOf(c)] = Absent
    BY <1>0, <1>6, <1>l, <2>2, <2>5 DEF FileETag, StatFile
  <2>6. CASE c = d /\ files[PathOf(c)] # Absent
    <3>1. UNCHANGED req
      BY <1>6 DEF FileETag, StatFile
    <3>2. \/ /\ pc[d] = "etag" /\ pc'[d] = "open"
             /\ resp'[d] = [Blank EXCEPT !.etag = ETag(files[PathOf(c)])]
          \/ /\ pc[d] = "stat" /\ pc'[d] = "statetag"
             /\ resp'[d] = [Blank EXCEPT !.size = Len(files[PathOf(c)])]
      BY <1>0, <1>6, <2>2, <2>6 DEF FileETag, StatFile
    <3>3. PICK b \in Bodies : b = files[PathOf(c)] /\ WrittenBy(req[d].key, b)
      BY <2>3, <2>6
    <3>4. CASE pc'[d] = "open"
      <4>1. pc[d] = "etag" /\ resp'[d] = [Blank EXCEPT !.etag = ETag(b)]
        BY <3>2, <3>3, <3>4
      <4> QED
        BY <1>0, <3>1, <3>3, <3>4, <4>1 DEF Fits, Half, WrittenBy
    <3>5. CASE pc'[d] = "statetag"
      <4>1. pc[d] = "stat" /\ resp'[d] = [Blank EXCEPT !.size = Len(b)]
        BY <3>2, <3>3, <3>5
      <4>2. \E a \in Bodies : /\ WrittenBy(req'[d].key, a)
                              /\ resp'[d] = [Blank EXCEPT !.size = Len(a)]
        BY <3>1, <3>3, <4>1, Zenon
      <4> QED
        BY <1>0, <3>1, <3>5, <4>1, <4>2 DEF Fits, Half, WrittenBy
    <3> QED
      BY <3>2, <3>4, <3>5
  <2> QED
    BY <2>4, <2>5, <2>6
<1>7. ASSUME NEW c \in Clients, Open(c) \/ StatETag(c) PROVE Goal
  <2>1. Probe(PathOf(c)) \in {"ENOTDIR", "dir", "file", "ENOENT"}
    BY DEF Probe
  <2>2. UNCHANGED req /\ pc'[c] = "done"
        /\ \A e \in Clients \ {c} : pc'[e] = pc[e] /\ resp'[e] = resp[e]
    BY <1>0, <1>7, <2>1 DEF Open, StatETag
  <2> QED
    BY <1>k, <1>l, <2>2
<1>8. ASSUME NEW c \in Clients, Remove(c) \/ Prune(c) PROVE Goal
  BY <1>0, <1>8, <1>k, <1>l DEF Remove, Prune
<1>9. ASSUME NEW i \in Instances, Crash(i) PROVE Goal
  <2>1. CASE Home[d] = i
    BY <1>9, <2>1 DEF Crash, Fits, Half
  <2>2. CASE Home[d] # i
    BY <1>9, <1>k, <2>2 DEF Crash
  <2> QED
    BY <2>1, <2>2
<1>10. CASE UNCHANGED vars
  BY <1>10, <1>k DEF vars
<1> QED
  BY <1>1, <1>2, <1>3, <1>4, <1>5, <1>6, <1>7, <1>8, <1>9, <1>10 DEF Next, Step

-----------------------------------------------------------------------------
(* The body a read finds in its second look is the one of the first: all   *)
(* writers of a key that is read with Get or Stat write the same body.     *)
LEMMA SecondLook ==
  ASSUME ReadsStable, IInv, ReadInv, NEW c \in Clients, pc[c] # "idle",
         req[c].op \in {"Get", "Stat"}, files[PathOf(c)] # Absent,
         NEW b, WrittenBy(req[c].key, b)
  PROVE  b = files[PathOf(c)]
<1>1. req[c] \in Calls[c] /\ req[c].key \in Keys
  BY CallType DEF IInv, CallFits
<1>2. WrittenBy(req[c].key, files[PathOf(c)])
  BY <1>1 DEF ReadInv, ContentWritten, PathOf
<1> QED
  BY <1>1, <1>2 DEF ReadsStable, WrittenBy

(* Every step of the backend is a step of the contract, or invisible.      *)
LEMMA NextRefines ==
  ASSUME Disciplined, IInv, ReadInv, CommitsCheckedView, [Next]_vars
  PROVE  [Contract!Next]_(Contract!vars)
<1> USE DEF Goto, Answer, Finish, disk, Effective
<1>a. PlainKeys /\ ReadsStable
  BY DEF Disciplined
<1>0. /\ pc \in [Clients -> Labels]
      /\ req \in [Clients -> Call \cup {NoCall}]
      /\ resp \in [Clients -> Response]
      /\ files \in [Paths -> Bodies \cup {Absent}]
  BY DEF IInv, TypeOK
<1> DEFINE Goal == [Contract!Next]_(Contract!vars)
<1>e. ASSUME NEW c \in Clients,
             Contract!Invoke(c) \/ Contract!TakeEffect(c) \/ Contract!FailWithoutEffect(c)
               \/ Contract!Return(c)
      PROVE  Goal
  BY <1>e DEF Contract!Next
<1>1. ASSUME NEW c \in Clients, Invoke(c) PROVE Goal
  <2>1. req[c] = NoCall
    BY <1>1 DEF Invoke, ReadInv, ReadFits
  <2>2. Stored' = Stored /\ Outcome' = Outcome
    BY <1>0, <1>1 DEF Invoke, Stored, Outcome
  <2>3. Contract!Invoke(c)
    BY <1>1, <2>1, <2>2 DEF Invoke, Contract!Invoke, Contract!NoCall, NoCall
  <2> QED
    BY <1>e, <2>3
<1>2. ASSUME NEW c \in Clients, Enter(c) PROVE Goal
  <2>1. CASE Finish(c, Fail("ctx")) \/ Finish(c, Fail("key"))
    <3>1. PICK e \in {"ctx", "key"} : Finish(c, Fail(e))
      BY <2>1
    <3>2. Contract!FailWithoutEffect(c)
      BY <1>0, <1>2, <3>1, FailStep DEF Enter
    <3> QED
      BY <1>e, <3>2
  <2>2. CASE Goto(c, First(req[c].op)) /\ UNCHANGED resp
    <3>1. First(req[c].op) \notin Effective
      BY <1>2, CallType DEF Enter, First, Call, PutCall, KeyCall, Writes, Reads
    <3>2. UNCHANGED Contract!vars
      BY <1>0, <1>2, <2>2, <3>1, HiddenStep DEF Enter
    <3> QED
      BY <3>2
  <2> QED
    BY <1>2, <2>1, <2>2 DEF Enter
<1>3. ASSUME NEW c \in Clients, MkdirAll(c) \/ CreateTemp(c) PROVE Goal
  <2>1. CASE Finish(c, Fail("io"))
    <3>1. Contract!FailWithoutEffect(c)
      BY <1>0, <1>3, <2>1, FailStep DEF MkdirAll, CreateTemp
    <3> QED
      BY <1>e, <3>1
  <2>2. CASE UNCHANGED resp /\ pc'[c] # "done"
    <3>1. UNCHANGED Contract!vars
      BY <1>0, <1>3, <2>2, HiddenStep DEF MkdirAll, CreateTemp
    <3> QED
      BY <3>1
  <2> QED
    BY <1>0, <1>3, <2>1, <2>2 DEF MkdirAll, CreateTemp
<1>4. ASSUME NEW c \in Clients, WriteAndSync(c) PROVE Goal
  <2>1. CASE Answer(c, Fail("body")) /\ Goto(c, "discard")
    <3>1. Contract!FailWithoutEffect(c)
      BY <1>0, <1>4, <2>1, FailStep DEF WriteAndSync
    <3> QED
      BY <1>e, <3>1
  <2>2. CASE UNCHANGED resp /\ Goto(c, "lock")
    <3>1. UNCHANGED Contract!vars
      BY <1>0, <1>4, <2>2, HiddenStep DEF WriteAndSync
    <3> QED
      BY <3>1
  <2> QED
    BY <1>4, <2>1, <2>2 DEF WriteAndSync
<1>5. ASSUME NEW c \in Clients, Discard(c) \/ Lock(c) \/ UnlinkTemp(c) \/ Unlock(c)
      PROVE Goal
  <2>1. UNCHANGED Contract!vars
    BY <1>0, <1>5, HiddenStep DEF Discard, Lock, UnlinkTemp, Unlock
  <2> QED
    BY <2>1
<1>6. ASSUME NEW c \in Clients, CheckIfMatch(c) PROVE Goal
  <2> DEFINE e == IfMatchError(req[c].ifMatch, PathOf(c))
  <2>1. pc[c] = "check" /\ UNCHANGED <<files, req>>
    BY <1>6 DEF CheckIfMatch
  <2>2. /\ e \in {"nil", "ErrPreconditionFailed"}
        /\ e # "nil" => ~Contract!Holds(req[c].ifMatch, files[PathOf(c)])
    BY <1>a, <2>1, CheckHolds
  <2> HIDE DEF e
  <2>3. CASE e = "nil"
    <3>1. UNCHANGED Contract!vars
      BY <1>0, <1>6, <2>1, <2>3, HiddenStep DEF CheckIfMatch, e
    <3> QED
      BY <3>1
  <2>4. CASE e = "ErrPreconditionFailed"
    <3>1. pc' = [pc EXCEPT ![c] = "unlink"] /\ resp' = [resp EXCEPT ![c] = Fail(e)]
      BY <1>6, <2>4 DEF CheckIfMatch, e
    <3>2. req[c] \in PutCall /\ req[c].op \in Writes
      BY <2>1, CallType DEF IInv, CallFits, WriteSteps
    <3>3. /\ Contract!Answer(req[c], files[PathOf(c)]) = Fail(e)
          /\ Contract!Leaves(req[c], files[PathOf(c)]) = files[PathOf(c)]
      BY <2>2, <2>4, <3>2, WriteEffect
    <3>4. Contract!TakeEffect(c)
      BY <1>a, <1>0, <2>1, <3>1, <3>3, EffectStep
    <3> QED
      BY <1>e, <3>4
  <2> QED
    BY <2>2, <2>3, <2>4
<1>7. ASSUME NEW c \in Clients, Commit(c) PROVE Goal
  <2>1. /\ pc[c] = "commit" /\ UNCHANGED req
        /\ req[c] \in PutCall /\ req[c].op \in Writes
        /\ PathOf(c) \in Paths /\ tmp[c] = req[c].body
    BY <1>7, CallType DEF Commit, IInv, CallFits, WriteSteps, TempComplete
  <2>2. Probe(PathOf(c)) = IF files[PathOf(c)] # Absent THEN "file" ELSE "ENOENT"
    BY <1>a, <2>1, PlainProbe
  <2>3. /\ pc'[c] \in Effective
        /\ \A d \in Clients \ {c} : pc'[d] = pc[d] /\ resp'[d] = resp[d]
    BY <1>0, <1>7 DEF Commit, Link, Rename, RenameFails
  <2>4. CASE Install(c) /\ Answer(c, [Blank EXCEPT !.etag = ETag(tmp[c])])
    <3>1. Contract!Holds(req[c].ifMatch, files[PathOf(c)])
      <4>1. CASE req[c].ifMatch = IfAbsent
        <5>1. files[PathOf(c)] = Absent
          <6> SUFFICES ASSUME files[PathOf(c)] # Absent PROVE FALSE
            OBVIOUS
          <6>1. Answer(c, Fail("ErrPreconditionFailed"))
            BY <1>7, <2>2, <4>1 DEF Commit, Link
          <6>2. resp'[c] = Fail("ErrPreconditionFailed")
                /\ resp'[c] = [Blank EXCEPT !.etag = ETag(tmp[c])]
            BY <1>0, <2>4, <6>1
          <6> QED
            BY <6>2 DEF Fail, Blank
        <5> QED
          BY <4>1, <5>1, HoldsIs
      <4>2. CASE req[c].ifMatch = NoMatch
        BY <4>2, HoldsIs
      <4>3. CASE req[c].ifMatch \in ETags
        BY <2>1, <4>3, HoldsIs DEF CommitsCheckedView
      <4> QED
        BY <2>1, <4>1, <4>2, <4>3 DEF PutCall, Preconds
    <3>2. /\ Contract!Answer(req[c], files[PathOf(c)]) = [Blank EXCEPT !.etag = ETag(tmp[c])]
          /\ Contract!Leaves(req[c], files[PathOf(c)]) = tmp[c]
      BY <2>1, <3>1, WriteEffect
    <3>3. /\ resp'[c] = [Blank EXCEPT !.etag = ETag(tmp[c])]
          /\ files'[PathOf(c)] = tmp[c]
          /\ \A p \in Paths : p # PathOf(c) => files'[p] = files[p]
      BY <1>0, <2>1, <2>4 DEF Install
    <3>4. Contract!TakeEffect(c)
      BY <1>a, <2>1, <2>3, <3>2, <3>3, EffectStep
    <3> QED
      BY <1>e, <3>4
  <2>5. CASE UNCHANGED files /\ files[PathOf(c)] # Absent /\ req[c].ifMatch = IfAbsent
             /\ Answer(c, Fail("ErrPreconditionFailed"))
    <3>1. ~Contract!Holds(req[c].ifMatch, files[PathOf(c)])
      <4>1. NoMatch # IfAbsent
        BY DEF NoMatch, IfAbsent
      <4> QED
        BY <2>5, <4>1, HoldsIs, TagsDistinct
    <3>2. /\ Contract!Answer(req[c], files[PathOf(c)]) = Fail("ErrPreconditionFailed")
          /\ Contract!Leaves(req[c], files[PathOf(c)]) = files[PathOf(c)]
      BY <2>1, <3>1, WriteEffect
    <3>3. resp'[c] = Fail("ErrPreconditionFailed")
      BY <1>0, <2>5
    <3>4. Contract!TakeEffect(c)
      BY <1>a, <2>1, <2>3, <2>5, <3>2, <3>3, EffectStep
    <3> QED
      BY <1>e, <3>4
  <2> QED
    BY <1>7, <2>2, <2>4, <2>5 DEF Commit, Link, Rename, RenameFails
<1>8. ASSUME NEW c \in Clients, FileETag(c) \/ Open(c) \/ StatFile(c) \/ StatETag(c)
      PROVE Goal
  <2> DEFINE b == files[PathOf(c)]
  <2>1. /\ UNCHANGED <<files, req>> /\ PathOf(c) \in Paths /\ pc[c] \notin Effective
        /\ pc[c] # "idle" /\ req[c] \in Call /\ req[c].op \notin Writes
        /\ req[c].op \in Reads
    BY <1>8, CallType DEF FileETag, Open, StatFile, StatETag, ReadInv, ReadFits, Writes, Reads
  <2>2. Probe(PathOf(c)) = IF b # Absent THEN "file" ELSE "ENOENT"
    BY <1>a, <2>1, PlainProbe
  <2>3. Contract!Leaves(req[c], b) = b
    BY <2>1, KeyEffect
  <2> HIDE DEF b
  <2>4. \A d \in Clients \ {c} : pc'[d] = pc[d] /\ resp'[d] = resp[d]
    BY <1>0, <1>8, <2>2 DEF FileETag, Open, StatFile, StatETag
  <2>5. CASE pc'[c] # "done"
    <3>1. pc'[c] \notin Effective
      BY <1>0, <1>8, <2>2, <2>5 DEF FileETag, Open, StatFile, StatETag
    <3>2. UNCHANGED Contract!vars
      BY <2>1, <2>4, <3>1, HiddenStep
    <3> QED
      BY <3>2
  <2>6. CASE StatETag(c) /\ b = Absent
    <3>1. pc'[c] = "done" /\ resp'[c] = Fail("io")
      BY <1>0, <2>2, <2>6 DEF StatETag
    <3>2. Contract!FailWithoutEffect(c)
      BY <2>1, <2>4, <3>1, FailStep
    <3> QED
      BY <1>e, <3>2
  <2>7. CASE pc'[c] = "done" /\ ~(StatETag(c) /\ b = Absent)
    <3>1. resp'[c] = Contract!Answer(req[c], b)
      <4>1. CASE b = Absent
        <5>1. resp'[c] = Fail("ErrNotFound")
          BY <1>0, <1>8, <2>2, <2>7, <4>1 DEF FileETag, Open, StatFile
        <5> QED
          BY <2>1, <4>1, <5>1, KeyEffect
      <4>2. CASE b # Absent /\ Open(c) /\ req[c].op = "Get"
        <5>1. resp'[c] = [resp[c] EXCEPT !.body = b]
          BY <1>0, <2>2, <4>2 DEF Open, b
        <5>2. PICK x \in Bodies : /\ WrittenBy(req[c].key, x)
                                  /\ resp[c] = [Blank EXCEPT !.etag = ETag(x)]
          BY <4>2 DEF Open, ReadInv, HalfRead
        <5>3. x = b
          BY <1>a, <2>1, <4>2, <5>2, SecondLook DEF b
        <5>4. resp'[c] = [Blank EXCEPT !.etag = ETag(b), !.body = b]
          BY <5>1, <5>2, <5>3 DEF Blank
        <5> QED
          BY <2>1, <4>2, <5>4, KeyEffect
      <4>3. CASE b # Absent /\ Open(c) /\ req[c].op = "GetRange"
        <5>1. resp'[c] = [Blank EXCEPT !.body = b]
          BY <1>0, <2>2, <4>3 DEF Open, b, ReadInv, HalfRead
        <5> QED
          BY <2>1, <4>3, <5>1, KeyEffect
      <4>4. CASE b # Absent /\ StatETag(c)
        <5>1. resp'[c] = [resp[c] EXCEPT !.etag = ETag(b)] /\ req[c].op = "Stat"
          BY <1>0, <2>2, <4>4 DEF StatETag, b, ReadInv, ReadFits
        <5>2. PICK x \in Bodies : /\ WrittenBy(req[c].key, x)
                                  /\ resp[c] = [Blank EXCEPT !.size = Len(x)]
          BY <4>4 DEF StatETag, ReadInv, HalfRead
        <5>3. x = b
          BY <1>a, <2>1, <4>4, <5>1, <5>2, SecondLook DEF b
        <5>4. resp'[c] = [Blank EXCEPT !.etag = ETag(b), !.size = Len(b)]
          BY <5>1, <5>2, <5>3 DEF Blank
        <5> QED
          BY <2>1, <4>4, <5>1, <5>4, KeyEffect
      <4>5. b # Absent => Open(c) \/ StatETag(c)
        BY <1>0, <1>8, <2>2, <2>7 DEF FileETag, StatFile
      <4>6. Open(c) => req[c].op \in {"Get", "GetRange"}
        BY DEF Open, ReadInv, ReadFits
      <4> QED
        BY <4>1, <4>2, <4>3, <4>4, <4>5, <4>6
    <3>2. Contract!TakeEffect(c)
      BY <1>a, <2>1, <2>3, <2>4, <2>7, <3>1, EffectStep DEF b
    <3> QED
      BY <1>e, <3>2
  <2> QED
    BY <2>5, <2>6, <2>7
<1>9. ASSUME NEW c \in Clients, Remove(c) PROVE Goal
  <2>1. /\ pc[c] = "remove" /\ UNCHANGED req /\ PathOf(c) \in Paths
        /\ req[c] \in Call /\ req[c].op = "Delete"
    BY <1>9, CallType DEF Remove, IInv, CallFits
  <2>2. Probe(PathOf(c)) = IF files[PathOf(c)] # Absent THEN "file" ELSE "ENOENT"
    BY <1>a, <2>1, PlainProbe
  <2>3. /\ pc'[c] \in Effective
        /\ \A d \in Clients \ {c} : pc'[d] = pc[d] /\ resp'[d] = resp[d]
        /\ \A p \in Paths : p # PathOf(c) => files'[p] = files[p]
        /\ files'[PathOf(c)] = Absent
        /\ resp'[c] = IF files[PathOf(c)] = Absent THEN Fail("ErrNotFound") ELSE Blank
    BY <1>0, <1>9, <2>1, <2>2 DEF Remove
  <2>4. /\ Contract!Leaves(req[c], files[PathOf(c)]) = Absent
        /\ resp'[c] = Contract!Answer(req[c], files[PathOf(c)])
    BY <2>1, <2>3, KeyEffect DEF Writes
  <2>5. Contract!TakeEffect(c)
    BY <1>a, <2>1, <2>3, <2>4, EffectStep
  <2> QED
    BY <1>e, <2>5
<1>10. ASSUME NEW c \in Clients, Prune(c) PROVE Goal
  <2>1. \A p \in Paths : files'[p] = files[p]
    BY <1>a, <1>0, <1>10 DEF Prune, CanPrune, PlainKeys, IInv, TypeOK
  <2>2. UNCHANGED Contract!vars
    BY <1>0, <1>10, <2>1, HiddenStep DEF Prune
  <2> QED
    BY <2>2
<1>11. ASSUME NEW c \in Clients, Return(c) PROVE Goal
  <2>1. Outcome[c] # Contract!Pending
    BY <1>0, <1>11 DEF Return, Outcome, Contract!Pending, Response, Errs
  <2>2. Outcome' = [Outcome EXCEPT ![c] = Contract!Pending] /\ Stored' = Stored
    BY <1>0, <1>11 DEF Return, Outcome, Stored, Contract!Pending
  <2>3. Contract!Return(c)
    BY <1>11, <2>1, <2>2 DEF Return, Contract!Return, Contract!NoCall, NoCall
  <2> QED
    BY <1>e, <2>3
<1>12. ASSUME NEW i \in Instances, Crash(i) PROVE Goal
  <2> DEFINE lost == {c \in Clients : Home[c] = i}
  <2>1. Outcome' = [c \in Clients |-> IF c \in lost THEN Contract!Pending ELSE Outcome[c]]
    BY <1>12 DEF Crash, Outcome, Contract!Pending
  <2>2. Contract!Die(lost)
    BY <1>12, <2>1 DEF Crash, Contract!Die, Stored, Contract!NoCall, NoCall
  <2> QED
    BY <2>2 DEF Contract!Next
<1>13. CASE UNCHANGED vars
  BY <1>13 DEF vars, Contract!vars, Stored, Outcome
<1> QED
  BY <1>1, <1>2, <1>3, <1>4, <1>5, <1>6, <1>7, <1>8, <1>9, <1>10, <1>11, <1>12, <1>13
     DEF Next, Step

(***************************************************************************)
(* The filesystem backend implements the Bucket contract: with disciplined *)
(* calls, the Puts, Deletes and reads of any number of clients in any      *)
(* number of processes are linearizable and all-or-nothing, crashes        *)
(* included (bucket.go:43, docs/SEMANTICS.md).                             *)
(***************************************************************************)
THEOREM Refinement ==
  ASSUME Disciplined
  PROVE  Spec => ImplementsBucket
<1>1. Init => Contract!Init
  <2> SUFFICES ASSUME Init PROVE Contract!Init
    OBVIOUS
  <2>1. Stored = [k \in Keys |-> Absent]
    BY PathType DEF Init, Stored
  <2>2. Outcome = [c \in Clients |-> Contract!Pending]
    BY DEF Init, Outcome, Effective, Contract!Pending
  <2> QED
    BY <2>1, <2>2 DEF Init, Contract!Init, Contract!NoCall, NoCall
<1>2. Init => ReadInv
  BY PathType DEF Init, ReadInv, ContentWritten, ReadFits, HalfRead
<1>3. IInv /\ ReadInv /\ [Next]_vars => ReadInv'
  BY NextContent, NextReads DEF ReadInv, Disciplined
<1>4. IInv /\ ReadInv /\ CommitsCheckedView /\ [Next]_vars => [Contract!Next]_(Contract!vars)
  BY NextRefines
<1>5. Spec => []CommitsCheckedView
  BY CompareAndSwap DEF Disciplined
<1> QED
  BY <1>1, <1>2, <1>3, <1>4, <1>5, Inductive, PTL DEF Spec, ImplementsBucket, Contract!Spec
=============================================================================
