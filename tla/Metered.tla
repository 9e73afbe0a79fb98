------------------------------ MODULE Metered ------------------------------
(***************************************************************************)
(* Clients that share one Metered bucket (metering.go) through Prefixed    *)
(* views, and somebody who takes Stats meanwhile.  One client enumerates a *)
(* view page by page.                                                      *)
(*                                                                         *)
(* The counters of a label are an object of their own: a request looks it  *)
(* up once, under the mutex, and adds to it later, atomically, without.    *)
(* Stats holds the mutex while it loads every counter, one after another.  *)
(***************************************************************************)
EXTENDS Views

CONSTANTS
  Clients,
  Opened,       \* what Prefixed is called with: pairs of a view and a prefix
  Pager,        \* the client that enumerates a view,
  Paged,        \* and that view
  Calls,        \* Calls[c]: the calls client c makes: op, view, key, size
  MaxCalls,     \* MaxCalls[c]: how many of them
  Stored,       \* what is stored at first: sizes by service key
  MaxSize,      \* the largest size
  Classify(_)   \* classify: the label of a key

ListCall == [op |-> "List", view |-> Paged, key |-> <<>>, size |-> 0]

Ops == {"Put", "PutStream", "Get", "GetRange", "Stat", "Delete"}

ASSUME MeteredAssumption ==
  /\ IsFiniteSet(Clients)
  /\ Opened \subseteq Seq(Int) \X (Seq(Int) \ {<<>>})
  /\ Paged \in {Prefixed(o[1], o[2]) : o \in Opened}
  /\ Pager \in Clients /\ Calls[Pager] = {ListCall}
  /\ \A c \in Clients \ {Pager} : \A r \in Calls[c] :
       /\ r.op \in Ops /\ r.key \in Seq(Int) /\ r.size \in 0..MaxSize
       /\ r.view \in {Prefixed(o[1], o[2]) : o \in Opened}
  /\ MaxCalls \in [Clients -> Nat] /\ MaxSize \in Nat
  /\ DOMAIN Stored \subseteq Seq(Int)
  /\ \A k \in DOMAIN Stored : Stored[k] \in 0..MaxSize

(* No object has the empty name in the enumerated view: startAfter cannot  *)
(* tell it from the beginning.                                             *)
ASSUME NamesAssumption ==
  /\ ServiceKey(Paged, <<>>) \notin DOMAIN Stored
  /\ \A c \in Clients \ {Pager} : \A r \in Calls[c] : Full(r.view, r.key) # Paged

VARIABLES
  objects,   \* the service: the size of every object, by service key
  labels,    \* Metered.labels: the counters of every label, as an index into heap
  heap,      \* the labelCounters there are
  pc, req, ptr, left, made,   \* of each client: where it is, its call, its
             \* counters, the bytes its body still has, the calls made
  after, page, listed, steady,   \* the enumeration: startAfter, the objects of
             \* the last page, the keys returned, and (history) the keys
             \* there since it began
  counted,   \* history: the number of requests counted so far, by label
  spc, snap  \* Stats: how many counters of each label it has loaded, and what

bucket == <<objects, labels, heap>>
client == <<pc, req, ptr, left, made>>
paging == <<after, page, listed, steady>>
stats  == <<spc, snap>>
vars   == <<bucket, client, paging, counted, stats>>

(* The order in which Stats loads the counters of a label.                 *)
LoadOrderSwapped == <<"putCount", "putBytes", "getCount", "getBytes",   \* mutant
                      "listCount", "listObjects", "listObjectBytes">>
LoadOrder == <<"putBytes", "putCount", "getBytes", "getCount",
               "listCount", "listObjects", "listObjectBytes">>

Zero == [f \in {"putBytes", "putCount", "getBytes", "getCount",
                "listCount", "listObjects", "listObjectBytes"} |-> 0]
Nothing == [x \in {} |-> 0]

(* The labels the calls may have.                                          *)
Labels == {Classify(Full(r.view, r.key)) : r \in UNION {Calls[c] : c \in Clients}}

(* The keys the enumerated view shows.                                     *)
Shown(objs) ==
  LET p == ServiceKey(Paged, <<>>)
  IN {TrimPrefix(k, p) : k \in {x \in DOMAIN objs : IsPrefix(p, x)}}

Init ==
  /\ objects = Stored
  /\ labels = Nothing
  /\ heap = <<>>
  /\ pc = [c \in Clients |-> "idle"]
  /\ req = [c \in Clients |-> [op |-> "none"]]
  /\ ptr = [c \in Clients |-> 0]
  /\ left = [c \in Clients |-> 0]
  /\ made = [c \in Clients |-> 0]
  /\ after = <<>> /\ page = <<>> /\ listed = <<>> /\ steady = Shown(Stored)
  /\ counted = [l \in Labels |-> 0]
  /\ spc = Nothing /\ snap = Nothing

-----------------------------------------------------------------------------
Goto(c, l) == pc' = [pc EXCEPT ![c] = l]
Add(c, f, n) == heap' = [heap EXCEPT ![ptr[c]][f] = @ + n]

(* A Delete is not metered.                                                *)
Invoke(c) ==
  /\ pc[c] = "idle"
  /\ made[c] < MaxCalls[c]
  /\ \E r \in Calls[c] : req' = [req EXCEPT ![c] = r]
  /\ Goto(c, IF req'[c].op = "Delete" THEN "inner" ELSE "bucket")
  /\ made' = [made EXCEPT ![c] = @ + 1]
  /\ UNCHANGED <<bucket, ptr, left, paging, counted, stats>>

(* Metered.bucket, under the mutex: the label's counters, made if need be. *)
Label(c) == Classify(Full(req[c].view, req[c].key))

KnownNever(c) == FALSE   \* mutant: the map is not looked at
Known(c)      == Label(c) \in DOMAIN labels

Locked == \E l \in DOMAIN spc : spc[l] < Len(LoadOrder)

Bucket(c) ==
  /\ pc[c] = "bucket"
  /\ ~Locked
  /\ \/ /\ Known(c)
        /\ ptr' = [ptr EXCEPT ![c] = labels[Label(c)]]
        /\ UNCHANGED <<labels, heap>>
     \/ /\ ~Known(c)
        /\ heap' = Append(heap, Zero)
        /\ labels' = [l \in DOMAIN labels \cup {Label(c)} |->
                        IF l = Label(c) THEN Len(heap') ELSE labels[l]]
        /\ ptr' = [ptr EXCEPT ![c] = Len(heap')]
  /\ Goto(c, "count")
  /\ UNCHANGED <<objects, req, left, made, paging, counted, stats>>

Counter(op) == CASE op \in {"Put", "PutStream"} -> "putCount"
                 [] op \in {"Get", "GetRange", "Stat"} -> "getCount"
                 [] op = "List" -> "listCount"

Count(c) ==
  /\ pc[c] = "count"
  /\ Add(c, Counter(req[c].op), 1)
  /\ counted' = [counted EXCEPT ![Label(c)] = @ + 1]
  /\ left' = [left EXCEPT ![c] = IF req[c].op = "PutStream" THEN req[c].size ELSE 0]
  /\ Goto(c, "inner")
  /\ UNCHANGED <<objects, labels, req, ptr, made, paging, stats>>

-----------------------------------------------------------------------------
(* The wrapped bucket takes a call, or fails.                              *)
Key(c) == ServiceKey(req[c].view, req[c].key)

Fails(c) ==
  /\ pc[c] = "inner"
  /\ Goto(c, "idle")
  /\ left' = [left EXCEPT ![c] = 0]
  /\ UNCHANGED <<bucket, req, ptr, made, paging, counted, stats>>

Store(k, n) == objects' = [x \in DOMAIN objects \cup {k} |->
                               IF x = k THEN n ELSE objects[x]]

(* Put adds its length afterwards, if it succeeds.                         *)
Put(c) ==
  /\ pc[c] = "inner" /\ req[c].op = "Put"
  /\ Store(Key(c), req[c].size)
  /\ Goto(c, IF req[c].size > 0 THEN "putbytes" ELSE "idle")
  /\ UNCHANGED <<labels, heap, req, ptr, left, made, paging, counted, stats>>

PutBytes(c) ==
  /\ pc[c] = "putbytes"
  /\ Add(c, "putBytes", req[c].size)
  /\ Goto(c, "idle")
  /\ UNCHANGED <<objects, labels, req, ptr, left, made, paging, counted, stats>>

(* PutStream's countingReader adds what the wrapped bucket reads.          *)
StreamRead(c) ==
  /\ pc[c] = "inner" /\ req[c].op = "PutStream"
  /\ left[c] > 0
  /\ left' = [left EXCEPT ![c] = @ - 1]
  /\ Add(c, "putBytes", 1)
  /\ UNCHANGED <<objects, labels, pc, req, ptr, made, paging, counted, stats>>

PutStream(c) ==
  /\ pc[c] = "inner" /\ req[c].op = "PutStream"
  /\ left[c] = 0
  /\ Store(Key(c), req[c].size)
  /\ Goto(c, "idle")
  /\ UNCHANGED <<labels, heap, req, ptr, left, made, paging, counted, stats>>

(* Get and GetRange return a countingReadCloser; the caller reads from it  *)
(* and closes it when it likes.  Stat has no body.                         *)
Get(c) ==
  /\ pc[c] = "inner" /\ req[c].op \in {"Get", "GetRange", "Stat"}
  /\ Key(c) \in DOMAIN objects
  /\ Goto(c, IF req[c].op = "Stat" THEN "idle" ELSE "body")
  /\ left' = [left EXCEPT ![c] = IF req[c].op = "Stat" THEN 0 ELSE objects[Key(c)]]
  /\ UNCHANGED <<bucket, req, ptr, made, paging, counted, stats>>

BodyRead(c) ==
  /\ pc[c] = "body"
  /\ left[c] > 0
  /\ left' = [left EXCEPT ![c] = @ - 1]
  /\ Add(c, "getBytes", 1)
  /\ UNCHANGED <<objects, labels, pc, req, ptr, made, paging, counted, stats>>

BodyClose(c) ==
  /\ pc[c] = "body"
  /\ Goto(c, "idle")
  /\ left' = [left EXCEPT ![c] = 0]
  /\ UNCHANGED <<bucket, req, ptr, made, paging, counted, stats>>

Delete(c) ==
  /\ pc[c] = "inner" /\ req[c].op = "Delete"
  /\ Key(c) \in DOMAIN objects
  /\ objects' = [k \in DOMAIN objects \ {Key(c)} |-> objects[k]]
  /\ steady' = steady \cap Shown(objects')
  /\ Goto(c, "idle")
  /\ UNCHANGED <<labels, heap, req, ptr, left, made, after, page, listed, counted, stats>>

(* List: one page of the pager's view, then the two sums over it.  An      *)
(* empty page ends the enumeration.                                        *)
List(c) ==
  /\ pc[c] = "inner" /\ req[c].op = "List"
  /\ \E keys \in PrefixedList(req[c].view, DOMAIN objects, <<>>, after) :
       /\ page' = [i \in DOMAIN keys |->
                     [key |-> keys[i], size |-> objects[ServiceKey(req[c].view, keys[i])]]]
       /\ listed' = listed \o keys
       /\ after' = IF keys = <<>> THEN after ELSE Last(keys)
  /\ Goto(c, "listobjects")
  /\ UNCHANGED <<bucket, req, ptr, left, made, steady, counted, stats>>

ListObjects(c) ==
  /\ pc[c] = "listobjects"
  /\ Add(c, "listObjects", Len(page))
  /\ Goto(c, "listbytes")
  /\ UNCHANGED <<objects, labels, req, ptr, left, made, paging, counted, stats>>

ListBytes(c) ==
  /\ pc[c] = "listbytes"
  /\ Add(c, "listObjectBytes", FoldLeft(LAMBDA acc, o : acc + o.size, 0, page))
  /\ Goto(c, IF page = <<>> THEN "over" ELSE "idle")
  /\ page' = <<>>
  /\ UNCHANGED <<objects, labels, req, ptr, left, made, after, listed, steady, counted, stats>>

-----------------------------------------------------------------------------
(* Stats: lock; load the counters, label by label; unlock.                 *)
StatsLock ==
  /\ ~Locked
  /\ spc' = [l \in DOMAIN labels |-> 0]
  /\ snap' = [l \in DOMAIN labels |-> Zero]
  /\ UNCHANGED <<bucket, client, paging, counted>>

StatsLoad(l) ==
  /\ spc[l] < Len(LoadOrder)
  /\ \A k \in DOMAIN spc \ {l} : spc[k] \in {0, Len(LoadOrder)}
  /\ spc' = [spc EXCEPT ![l] = @ + 1]
  /\ snap' = [snap EXCEPT ![l][LoadOrder[spc'[l]]] = heap[labels[l]][LoadOrder[spc'[l]]]]
  /\ UNCHANGED <<bucket, client, paging, counted>>

Next ==
  \/ \E c \in Clients :
       \/ Invoke(c) \/ Bucket(c) \/ Count(c) \/ Fails(c)
       \/ Put(c) \/ PutBytes(c) \/ StreamRead(c) \/ PutStream(c)
       \/ Get(c) \/ BodyRead(c) \/ BodyClose(c) \/ Delete(c)
       \/ List(c) \/ ListObjects(c) \/ ListBytes(c)
  \/ StatsLock
  \/ \E l \in DOMAIN spc : StatsLoad(l)

Spec == Init /\ [][Next]_vars

-----------------------------------------------------------------------------
(***************************************************************************)
(* No request is lost: the counters of a label add up to its requests that *)
(* were counted, however the first requests of a label race                *)
(* (Metered.bucket).                                                       *)
(***************************************************************************)
NoCountLost ==
  \A l \in Labels :
    counted[l] = IF l \in DOMAIN labels
                 THEN heap[labels[l]].putCount + heap[labels[l]].getCount
                        + heap[labels[l]].listCount
                 ELSE 0

(***************************************************************************)
(* A snapshot has no bytes without their request: counts are added first   *)
(* and loaded last, so the bytes of a label never exceed what its counted  *)
(* puts and gets can have moved (Metered.Stats).                           *)
(***************************************************************************)
BytesHaveRequests ==
  ~Locked => \A l \in DOMAIN snap :
    /\ snap[l].putBytes <= snap[l].putCount * MaxSize
    /\ snap[l].getBytes <= snap[l].getCount * MaxSize

(***************************************************************************)
(* The pages of a view ascend, in the keys the view shows, and none comes  *)
(* twice (prefixedBucket.List, S3.List).                                   *)
(***************************************************************************)
ViewAscends == \A i \in 1..(Len(listed) - 1) : Less(listed[i], listed[i + 1])

(***************************************************************************)
(* An enumeration through a view that ends has every key of the view that  *)
(* existed throughout (bucket.go:57, prefixedBucket.List).                 *)
(***************************************************************************)
ViewNoneMissed ==
  pc[Pager] = "over" => steady \subseteq {listed[i] : i \in DOMAIN listed}

(***************************************************************************)
(* A call through another view leaves what this view shows alone           *)
(* (prefixed.go:15: "two isolated views over one underlying connection").  *)
(* Views are apart when they begin with different names: they differ in a  *)
(* byte before the first "/", or at the end, of either.                    *)
(***************************************************************************)
ByteAt(v, i) == IF i \in DOMAIN v THEN v[i] ELSE Slash

Apart(v, w) ==
  /\ v # <<>> /\ w # <<>>
  /\ \E i \in 1..(Len(v) + 1) :
       /\ ByteAt(v, i) # ByteAt(w, i)
       /\ \A j \in 1..(i - 1) : ByteAt(v, j) # Slash /\ ByteAt(w, j) # Slash

ViewsIsolated ==
  [][\A c \in Clients :
       (req[c].op # "none" /\ pc'[c] # pc[c] /\ Apart(req[c].view, Paged))
         => Shown(objects') = Shown(objects)]_vars
=============================================================================
