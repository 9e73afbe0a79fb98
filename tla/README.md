# objectstore: TLA+ models and proofs

`objectstore` is a Go library that gives S3-compatible object stores and a
local directory one small interface, `Bucket`, with conditional writes, ranged
reads, and wrappers that fetch large objects in parallel, survive broken
connections and spread requests over several connection pools.  This directory
holds TLA+ models of the parts of it that are hard to test, the TLC runs that
check them on small instances, and TLAPS proofs of the results that matter most
for every instance.  Source paths and line numbers refer to the repository root.

## 1. Inventory

| Component | State | Operations | Hard behaviour | What makes it correct |
|---|---|---|---|---|
| `Bucket` contract (`bucket.go`, `docs/SEMANTICS.md`) | keys to objects | Put, PutStream, Get, GetRange, Stat, List, Delete | concurrent conditional writes | linearizable, all-or-nothing; a conditional write is evaluated on the view it commits to |
| FS backend (`fs.go`) | a directory tree, temp files, one mutex per `FS` value | the same | Delete and reads run without the mutex; two processes share the tree; a process dies between temp file and rename; parents are made and pruned concurrently | implements the contract; no returned call leaves a temp file; every call returns |
| Ranged fetch (`fetchranged.go`) | semaphore, wait group, `firstErr`, destination | `FetchRangedAt` | parts fail in any order, cancel one another, and race the caller's context | success means complete; the root cause decides about degrading; no part outlives the call |
| Ordered reader (`fetchranged.go`) | slot channel, semaphore, two contexts, current part | Read, Close; a producer and one goroutine per part | parts arrive out of order; degrading cancels the reader's context; the channel closes on success and on cancellation | bytes in order exactly once; bounded memory; Read returns; Close ends every goroutine |
| Healing reads (`heal.go`) | current body, bytes consumed, attempts, entity tag, watchdog | Get/GetRange, Read, Close; timer callbacks | resuming at an offset after any number of failures; clean EOFs of dead connections; replacement of the object; stalled connections | exactly the requested bytes of one version; EOF only when complete; Read returns |
| Striped HTTP clients (`clientset.go`) | slots with a stripe each; per stripe in-flight count, bytes, last sample, `belowSince` | RoundTrip (pick, sample, evict, send), body Close, socket Read | several requests find one stripe sick; a request outlives its stripe's place in the slot; samples are taken only when requests are issued | counts never drift; a fresh stripe is not thrown away on the verdict about its predecessor; only busy, slow stripes are condemned, and pinned ones are left |
| S3 backend (`s3.go`) | none but the client; the state is the service's | the `Bucket` operations as HTTP requests | answers are lost and requests sent again; HEAD-then-DELETE; regions with trailing replicas | the contract, as far as a network allows |
| `Prefixed` (`prefixed.go`) | none | all operations under a prefix | `startAfter` through several prefixes; one prefix beginning with another's name | views are isolated; paging is complete and ascending |
| Metering (`metering.go`) | counters per label | all operations, Stats | first requests of a label race; Stats loads while requests add | no request lost; no bytes without their request in a snapshot |
| URL parsing (`url.go`), context hints (`cachecontrol.go`, `consistentread.go`) | none | parse; carry a value | none | a pure function |

Interaction: the fetchers and the healing wrapper call a `Bucket`; the healing
wrapper is itself a `Bucket`, so the fetchers can run on top of it; S3 sends
its requests through the striped client; `Prefixed` and `Metering` wrap any
`Bucket`.  `PROJECT.json` lists every component with its status and, under
`hazards`, the lines where each hard behaviour bites.

## 2. Modules

| Module | Models | Notes |
|---|---|---|
| `BucketTypes` | vocabulary of `bucket.go`: keys, bodies, entity tags, `ifMatch`, calls, responses, errors | constants and their assumptions |
| `Bucket` | the contract: a call takes effect in one step between invocation and return, or fails without effect | abstract specification |
| `FS` | `fs.go`, one step per system call | the detailed specification |
| `FSProperties` | hypotheses on use, invariants, refinement mapping, liveness | |
| `MCFS` | instances for TLC | |
| `FSProofs` | theorems | types, temp files, compare-and-swap, deletion, directories; `FS` implements `Bucket` |
| `FetchOpts` | `FetchOpts` after `withDefaults`, errors of bucket calls | shared by the next two |
| `FetchRanged` | `FetchRangedAt`, `fetchParts`, `fetchOnePart`, `fetchSingle` | |
| `FetchRangedProofs` | theorems | |
| `FetchReader` | `orderedReader` | |
| `MCFetch` | instance for TLC: a caller that uses either of the two | |
| `FetchReaderProofs` | theorems | |
| `Ranges` | the arithmetic of `GetRange`: `fs.go`, `limitedFile`, `formatRange` | pure operators with wraparound, against the reference `Requested` |
| `Healing`, `MCHealing` | `healingBody`, `heal`, `watchdog` | on top of `Ranges` |
| `HealingProofs` | theorems | range arithmetic, then healing reads on top of it |
| `FSList`, `MCFSList` | `FS.List` and a caller that pages through it, composed with `FS` | extends `FSProperties` |
| `FSListProofs` | theorems | on top of `FSProofs` |
| `S3`, `MCS3` | the methods of `s3.go`, the SDK's attempts, a service with replicas | implements `Bucket` |
| `S3Proofs` | theorem | `S3` implements `Bucket!RemoteSpec` |
| `ClientSet`, `MCClientSet` | `clientSet.RoundTrip`, `stripe.sick`, `stripeBody`, `countingConn` | |
| `ClientSetProofs` | theorems | |
| `Views` | key mapping and List of `Prefixed` and of S3's own prefix | pure operators |
| `Metered`, `MCMetered` | `Metered` and Stats, composed with `Views` over a store | |
| `MeteredProofs` | theorems | key mapping of views, paging, counters |

### FS

A key is the sequence of its segments; `keyPath` drops `.` segments and `Refused` is the
code's refusal of empty segments and of any key that contains `..`; `DotNames` are the
names that do, `..` itself and names such as `d..1`. `files` maps every object path to
its content, `dirs` is the set of existing directories; what `stat`, `open`, `link`,
`rename`, `unlink` and `rmdir` find at a path is `Probe` (file, directory, ENOENT,
ENOTDIR). `tmp[c]` is the temp file of client `c`; `litter` marks directories that hold
a temp file of a dead process. Each client has a program counter whose labels are the
system calls: `mkdir` (one directory per step, as `os.MkdirAll` does), `create`,
`spool`, `discard`, `lock`, `check`, `commit`, `unlink`, `unlock` for the two puts;
`etag`, `open` for Get; `open` for GetRange; `stat`, `statetag` for Stat; `remove`,
`prune` for Delete. `Home[c]` is the `FS` value a client calls, so that both goroutines
of one process and separate processes are covered. `Crash(i)` kills all calls of an
instance; the tree stays. An entity tag is a one-to-one function of the body (sha256 in
the code). A body that has been named is never modified (the code writes only temp
files), so reading a whole file is one step.

Any operation may fail with the context's error at its start.  Disk errors
appear where the code reacts to them: `writeAndSync` may fail at any point
(reader error, short or long body, full disk, failing sync).  Spontaneous errors
of `link`, `rename` and `stat` are not injected; only the ones that the state of
the tree explains.

### Refinement

`FSProperties!ImplementsBucket` is `Bucket!Spec` under the mapping
`store[k] = files[keyPath(k)]`, `call = req`, and `outcome[c]` is the response
once it is final (labels `discard`, `unlink`, `unlock`, `prune`, `done`).  It
holds for *disciplined* use, three hypotheses on the calls:

* `CasSerialised`: a key updated by compare-and-swap is written through one
  `FS` value and never deleted;
* `ReadsStable`: a key read with Get or Stat is content-addressed (all writers
  write the same body);
* `PlainKeys`: no key is a directory of another, no two keys share a path.

Each is necessary: `fs_delete_race` and section 6 say what happens without.

### FSList

List runs without the mutex. `todo` is the set of entries `filepath.WalkDir` still has
to visit: reading a directory replaces its entry by what it holds, files, directories
and temp files alike; a directory that has disappeared fails the walk, as the callback
returns the error it is given. The next to be visited is the first in the order of
`Before`, name by name along the path, which is what sorting each directory and going
depth first amount to. A file is then filtered (temp name, prefix, `startAfter`;
`TempNames` are the names of objects that contain `.tmp.`, which the code cannot tell
from temp files and skips), stat'ed and hashed, in steps of their own, so that the other
clients' system calls fall between any two. Sorting (`Sorts`: the permutations of what
was found that are in key order) and cutting to `MaxKeys` end the call, and the caller
goes on behind the last key until a page is empty. `steady`, `ever` and `gone` are
history: what has been there throughout, what has been there at some time, and whether
anything was removed. A crash changes nothing the walk sees but frees names of temp
files, so `Crash` is left out here.

### FetchRanged and FetchReader

The object is immutable; a byte is its offset.  Bucket calls may fail with
`ErrNotFound`, another error, or the context's error, the latter only if the
context they were given has ended, which they may also fail to notice.  A Go
`select` with two ready cases takes either.  `fail` is two steps (record the
error, cancel) because another part may run between them.  A body that is
longer than its part runs over the bytes that follow it in `dst` before the
length is compared (`CopyBeyond`).

A part's buffer exists from the end of `io.ReadFull` until Read has taken its
slot, then as `r.cur`'s: `bytes.Reader` keeps the slice that was read out until
`r.cur.Reset`, which comes only after the next part has arrived.  `Buffers`
counts it.

### Healing

The object has versions and a byte is `<<version, index>>`, so mixing versions
is visible.  `Faults` names what may go wrong in an instance.  There is no
clock: an armed watchdog's timer may fire at any time, in particular while the
caller is between two Reads; while a Read is waiting it may fire only if stalls
are among the faults.  `Minimum` is the byte floor per check interval of a
connection that is not the last; the last one needs one byte.

A request goes to a bucket of either kind (`via`): `InnerRange` is what `FS`
(`FSRange`) or S3 (`formatRange`, then what the service serves) returns for an
offset and a length, `Refuses` the 416 of S3.  So the offsets a heal computes run
through the same arithmetic as the caller's.

`Replace` happens only once the reader knows the entity tag; nothing can be
compared with before.  `EOFIsComplete` is about an object that is not replaced:
after its replacement by a shorter one, an EOF before the requested end is
accepted, as `truncated` compares with the size the object has by then.

`Resumable` names the requests and faults for which healing works, and is the
hypothesis of the theorems: no early clean EOF of unknown length, no replacement
inside a heal, no negative length, and a suffix that the object has, with a
length only on FS and inside the suffix.  What happens to the others is in
sections 5 and 6.

### Ranges

Integers are `-MaxInt64-1..MaxInt64` and sums wrap around, as Go's `int64` do.
`Requested` is the reference, from `docs/SEMANTICS.md`: length bytes from an
offset, a zero length meaning to the end and a negative offset counting from it.

### S3

One method is one request, Delete two.  A request reaches a site, is executed
there in one step and answered; the answer or the request may be lost, then the
SDK sends it again (`Retry`, up to `MaxAttempts[c]`) or gives up.  The service is
external and modelled from the comments of `s3.go` and `consistentread.go`: a
leader, replicas that trail behind (`Pull`), writes given to a replica that reach
the leader later and overwrite it (`Push`).  `Target` is the code's part: a
conditional put and a Get under `WithConsistentRead` carry
`X-Tigris-Consistent` and go to the leader, everything else goes to the nearest
site.  `Meaning` is how a method reads the answer: 404 of a read, 412 of a put, and
an error of its own (`status`) for any other refusal, which the contract does not
allow.  `MissingStatus` is what the service answers to an If-Match for a missing
object, 404 or 412.

The abstract specification is `Bucket!RemoteSpec`: the contract, plus `Unheard` (a call
took effect, its caller gets an error) and `AskAgain` (a read, a call that was refused
without effect, or, for clients in `Resent`, an unconditional put is evaluated once
more). A conditional put that has taken effect is not asked for again, so that it can
never be refused: "A failed precondition returns `ErrPreconditionFailed` without
changing the object" (`docs/SEMANTICS.md:23`). Three hypotheses make that true.
`CasOnce`: the SDK of a client that makes conditional writes sends nothing again
(`MaxAttempts` 1; the default is three, and `s3_resent` shows what then happens).
`OneDeleter`. And `Seated`: a key with compare-and-swaps or consistent reads has its
seat at the leader, and all other calls about a key are made by clients at its seat.

### ClientSet

A tick is half a sampling interval in the run; bytes per tick replace
`floorBps`.  The steps of `RoundTrip` are single atomic operations: pick a slot
and load its stripe, `sick` (under the stripe's mutex), `CompareAndSwap`, reload,
`inflight.Add`.  Time stands still between reading the clock and `inflight.Add`
on the path that does not replace a stripe, which has no blocking operation.
The number of stripes ever made is bounded by `Stripes`, and bytes arrive only on
stripes with a request in flight.
`seen` is history: what really happened to a stripe, against which the sampler's
verdict is judged.

A request that loses the `CompareAndSwap` reloads the slot and sends its request
on the stripe it finds there, without looking at it (`clientset.go:89`).  If it is
late, that stripe is not fresh: it may have been idle, and then the sampler never
learns of the pause, or may be pinned itself.  `seen.joined` is the last time this
happened to a stripe, and `SickWasBusy` and `PinnedIsLeft` except it.  To matter it
takes a second window after the replacement, more than the run's twelve ticks; the
attempt to prove the properties without the exception brought it up.

### Views and Metered

A key is a sequence of bytes.  A view is the prefix it puts before its keys:
`Prefixed` of a view is one view with both prefixes, as the code flattens them.
`PrefixedList` is the set of pages List may return through `prefixedBucket`, then
`S3.List`, then the service, whose page is the first `MaxKeys` of the keys it finds,
in order.  In `Metered` the counters of a label are an object on a heap, which a request
looks up under the mutex and adds to later without it; Stats holds the mutex
while it loads one counter after another, the labels in any order, as Go ranges
over maps (`spc[l]` is how many of label `l` it has loaded).  `counted` is history:
the requests of each label that have been counted.

Two views are `Apart` when they begin with different names.  `ViewsIsolated` is about
those; a view inside another, such as `a/s/` in `a/`, shares its objects with it.
`NamesAssumption` excludes an object whose key in the enumerated view is empty, see
section 6.

## 3. Runs

| Run | Result | Instance and what it shows |
|---|---|---|
| `fs_contract` | pass | Three clients on two `FS` values, two keys, two bodies, crashes of either instance, about 1,400,000 states.  Two clients compare-and-swap `head`, both from the same tag and back again (so they compete, and the tag returns to an earlier value), all three create, read or delete `d/blob`, whose parent is made and pruned all the while.  The backend implements the contract; conditional writes commit on the view they checked; no temp file is left; only a Delete takes an object away. |
| `fs_nested` | pass | Two clients of one `FS` value, keys `a`, `a/b/c` and a refused key, every operation, one client deleting below directories the other writes to, wrong lengths, crashes.  The inductive invariant of the proofs, directory consistency, and termination of every call, on the error paths that disciplined use does not reach. |
| `fs_delete_race` | violation | Delete removes the object between check and rename of a compare-and-swap. |
| `fetch` | pass | `FetchRangedAt` on five bytes in parts of two over two goroutines: two full parts and a short one, more parts than tokens.  `FetchReader` on nine bytes in parts of two, channel and semaphore of two: a full channel, a full semaphore, a short last part, and two buffers beside a full channel all occur.  About 141,000 states. |
| `fetch_cancelled` | violation | The context ends between two parts and `FetchRangedAt` returns nil with parts missing. |
| `heal_broken` | pass | Thirteen requests over FS and S3 (whole, bounded, beyond the end, overflowing, suffix) of an object of three bytes that may be replaced by one of two, three connections, with errors, short bodies, stalls, failing calls, cancellation; about 68,000 states. |
| `heal_long_suffix` | violation | A suffix longer than the object, once healed, delivers bytes again. |
| `fs_list` | pass | Keys `a.tmp.1`, `a.x`, `a.y`, `a/b`, where the walk's order differs from the keys' and one name looks like a temp file's; one client puts them all, `a.x` with two bodies, one deletes `a/b` (and prunes `a`), a third enumerates in pages of two.  About 862,000 states. |
| `s3_contract` | pass | A leader and one replica.  `w` at the leader and `p` in the far region compare-and-swap `head`, each request sent once; `w` deletes and stats it, `p` reads it consistently; `q` writes and deletes `blob` in the far region with two attempts and `p` reads it there.  About 1,135,000 states. |
| `s3_resent` | violation | The same, but `p` has two attempts: its conditional put is done, the answer lost, the second attempt refused because of the first. |
| `client_set` | pass | One slot, three requests, three generations of stripes, a window of eight ticks sampled every two, twelve ticks.  About 4,160,000 states. |
| `views` | pass | Views `a/`, `a/s/` and `ab/` of a metered bucket on S3 with prefix `m/`; a pager through `a/`, a writer with puts, reads and deletes in all three, Stats at any moment.  About 3,200,000 states. |

Properties of the passing runs:

* `CommitsCheckedView`: when a compare-and-swap is about to rename, the file
  still has the tag it checked.
* `ParentsExist`: pruning never takes a directory from under an object or a
  temp file.
* `NoLeftovers`: a temp file exists only while its call is between creating and
  removing or renaming it.
* `ImplementsBucket`: linearizability by refinement, crashes included.  Any call
  may fail without effect with an error of its own (`io`), so an error that should
  have been `ErrNotFound` is not seen (section 6).
* `CallsReturn`: every call returns (no path keeps the mutex).
* `SuccessIsComplete`, `RootCause`, `NoStragglers`, `BoundedParts`,
  `FetchReturns` for the ranged fetch; `DeliversInOrder`, `EOFIsComplete`,
  `ContextErrorIsCallers`, `BuffersBounded`, `ReadReturns`,
  `CloseEndsGoroutines` for the ordered reader; `DeliversRequested`,
  `EOFIsComplete`, `ReadReturns` for healing reads.
* `DeleteRemovesOnlyItsKey`: an object disappears only in the `os.Remove` of a
  Delete of its own path.
* List: `PagesAscend`, `NoneMissed` (what was there throughout is listed),
  `ListedExisted` (every entry was true at some time), `FailsOnlyBesideRemoval`.
* S3: `ImplementsBucket` against `RemoteSpec`.
* Striped clients: `InflightExact`; `ServesAWindow` (a stripe is in its slot for a
  window before it is replaced, however many requests condemned its predecessor
  and however late they are); `SickWasBusy`, `SickWasSlow`
  (no healthy stripe is condemned); `PinnedIsLeft` (a stripe that delivers
  nothing gets no request after a window and a sampling interval); two of them
  except the late loser of a replacement, see `ClientSet` above.
* Views: `ViewsIsolated`, `ViewAscends`, `ViewNoneMissed`; metering:
  `NoCountLost`, `BytesHaveRequests`.

`SuccessIsComplete` and the reader's `EOFIsComplete` except the case that the
caller's context has ended, in which both fetchers report success with bytes
missing: `fetch_cancelled` shows it for one, section 6 names the other.
`heal_broken` leaves out early clean EOFs of bodies whose length is unknown
(`cut`) and replacement inside a heal (`race`): both break the properties, see
section 6.

### Bounds

* FS: two or three clients with one call each at a time, unlimited calls one
  after another.  Races of `fs.go` involve a check, a change and the act on the
  check: two writers, or a writer, a deleter and a reader.  Two directory levels
  (`fs_nested`) are needed for pruning that stops half-way.
* Fetchers: one part more than the semaphore and the channel hold, and a last
  part shorter than the others.
* Healing: three attempts, so that there is a first, a middle and a last
  connection; the watchdog's four windows are the code's.  Three bytes suffice
  for first, middle and last offset.
* List: three keys that are listed and one that is not, pages of two, so that an
  enumeration has a page to sort and to cut, a last one and an empty one.  An enumeration
  begins while no other call is under way, and `MaxCalls = 2` calls begin while it goes on,
  at any moment of it; between enumerations any number.
* S3: two conditional writers in different regions are what the leader is for; a
  second attempt is the first retry, and a third is like the second.  The service
  refuses with 412 (`MissingStatus`).
* ClientSet: two samples are needed to fall below the floor and one more to be
  condemned; twelve ticks leave room for an idle pause before, or a burst of
  bytes within, a window of eight.  One slot suffices, as slots share nothing but
  `next`.  A second replacement would take a second window; a third stripe lets two
  requests that condemned the first one both try to replace it.
* Views: two calls of the writer beside four pages and a snapshot; `a` and `ab`
  are names one of which begins with the other.
* Ranges: `MaxInt64 = 7` in `heal_broken`, so that offsets overflow; the theorems
  are for every width.
* Symmetry is used in `client_set`, whose requests are interchangeable and whose
  properties, invariants and action properties, do not name one.  Elsewhere
  clients have different calls, or liveness is checked.

### Fairness

* FS: a goroutine that can take a step takes it (weak fairness of `Step` and
  `Return`).  `Lock` is strongly fair: `sync.Mutex` hands the lock to a waiter
  that has waited for a millisecond, so a waiter is not overtaken for ever.
  Nobody has to call, no process has to crash.
* Fetchers: the goroutines run, and bucket calls and bodies end (with data or an
  error).  Nobody has to end the context, to read or to close.
* Healing: steps of Read and bucket calls return, and the watchdog's timer
  fires.  A body owes nothing: it may stall for ever, which is the case the
  watchdog is for.

Deadlock is checked where the system never stops (FS, List, S3) or marks its end
(`Ended` of `FetchRanged`); a reader that is closed or at EOF stops (in `fetch` it
stutters with the fetch at rest beside it, so it is `ReadReturns` and
`CloseEndsGoroutines` that say it is not stuck), a healing body too, and the clock of
`ClientSet` and the calls of `Metered` are bounded, so it is not checked in those.

S3, the striped clients and metering have no liveness property: a request may be
lost for ever or wait for its context, and the code starts no work of its own.

## 4. Proofs

Every theorem below is for all values of the constants that satisfy the named
assumptions, which TLC evaluates in each run.  A component's safety follows from one
inductive invariant (`IInv`; `LInv` for List, `MInv` for metering): each clause has a
lemma with a step per action, and one lemma combines them.  Each invariant was
model-checked before it was proved.

### FS (`FSProofs`)

| Theorem | Hypothesis | Statement |
|---|---|---|
| `TypeCorrect` | | `Spec => []TypeOK` |
| `NoTempLeft` | | `Spec => []NoLeftovers` |
| `ParentsStay` | | `Spec => []ParentsExist` |
| `CompareAndSwap` | `CasSerialised`, `PlainKeys` | `Spec => []CommitsCheckedView` |
| `OnlyDeleteRemoves` | `PlainKeys` | `Spec => DeleteRemovesOnlyItsKey` |
| `Refinement` | `Disciplined` | `Spec => ImplementsBucket` |

`IInv` is the conjunction of `TypeOK`, `CallFits` (a client at a step of some
operation has made such a call), `MutexOwned` (a client is in its critical
section exactly when it holds the mutex of its instance), `TempComplete` (what
will be committed is the whole body) and `NoLeftovers`.

* `CommitsCheckedView` is not inductive alone: two clients of one instance could
  both be at `commit`.  By `MutexOwned` at most one client of an instance is in its
  critical section (`OneCommitter`); by `CasSerialised` every writer of a
  compare-and-swap key shares the instance and nobody deletes it; by `PlainKeys`
  no other key's commit, removal or pruning touches its path.  A step that changes
  the file is therefore the committer's own.
* `OnlyDeleteRemoves`: by `TempComplete` a commit leaves a body behind, and by
  `PlainKeys` the paths that pruning reaches are no object paths.
* `ParentsStay` needs `TreeInv` on top of `IInv`: a name is a file's or a
  directory's (`NamesDistinct`), the cursor of `MkdirAll` is a prefix of its path
  (`CursorOnPath`), and what is spooled has a temp file (`SpoolHasTemp`).  It has
  no hypothesis: `rmdir` fails on a directory that is not empty, and `link`, `rename`
  and `open` fail when the parent is missing, so no order of `MkdirAll` and
  pruning breaks it.
* `Refinement` needs `ReadInv` on top of these: what a key holds was written to it
  (`ContentWritten`), a read is at the steps of its own operation (`ReadFits`), and
  the first half of Get and Stat has read tag or length of a body written to the key
  (`HalfRead`).  By `ReadsStable` all bodies written to a key that is read in two
  steps are one, so both halves belong to it.  The effect of a put is its `link`
  or `rename`, that of a Delete its `unlink`, and every other step stutters, or fixes
  an outcome that leaves the store alone.

Assumptions: `CallsAssumption` (calls are well formed; `Absent` is neither a body nor
the empty one), `HomeAssumption` (every client has an instance, `Free` is no client),
and `PathsAssumption` (every key names a path below the root that is a sequence of
strings; what `SelectSeq` returns in general needs induction, which is out of
the prover's reach, so it is assumed of the keys and evaluated by TLC).

### FSList (`FSListProofs`)

`PagesInOrder` (`PagesAscend`), `EnumerationComplete` (`NoneMissed`, which leaves out the
keys whose last segment is in `TempNames`), `ListedWereThere`
(`ListedExisted`), `OnlyRemovalFailsList` (`FailsOnlyBesideRemoval`), without hypothesis on
the calls of the other clients, for every tree of keys, page size, number of clients and
order of names.  `LInv` stands on `IInv` and `TreeInv` of `FS`:

* `CoverInv` gives completeness: a key that has existed since the first page is on a page
  if it is not after `startAfter`; otherwise, while List walks, it has been found or lies
  ahead, as an entry still to be visited or below a directory still to be read.  Reading a
  directory keeps it because the tree has every object's parents (`ParentsExist`).
* `WalkInv`: no entry still to be visited lies in another, and none holds what was found,
  so nothing is found twice.  Temp files are not part of this: they may be made and
  renamed beside the walk.
* `PagesInv`: the pages ascend and end with `startAfter`. With `LType` (what was found
  comes after `startAfter`) and the order that `Sorts` gives, the next page goes on from
  there. What is cut off is found again by the next List, since it comes after the cut.
* `HistoryInv`: the tag of an entry was that of a stored object when it was read.
* `StillThere`: while nothing has been removed, every entry of the walk is there.

None of these depends on the order of the walk, and the proofs use nothing of `Before`:
List is correct whatever order `WalkDir` takes.  `OrderAssumption`: keys have an order, the
keys asked for are written as they are listed (without `.` segments), and pages are not
empty.

### Ranges (in `HealingProofs`)

For every width of the integers: `FSRangeExact` (`FS.GetRange` returns exactly the
requested bytes when the end of the range can be represented), `FSRangeOverflow`
(otherwise it returns none), `S3RangeExact` (for offsets that are not negative, the
Range header asks for exactly the requested bytes).  They rest on two lemmas about
wraparound (`WrapFits`, `WrapExceeds`) and on `StartInObject`.

### FetchRanged (`FetchRangedProofs`)

`TypeCorrect`, `Complete` (`SuccessIsComplete`), `FirstErrorIsCause` (`RootCause`),
`PartsAreAwaited` (`NoStragglers`), `ConcurrencyIsBound` (`BoundedParts`), for every
size of object and part, threshold and concurrency.  The run checks them through
`MCFetch`'s instance of the module.

* `LoopStarts`: exactly the parts below the loop's offset have been started.
* `TokensHeld`: parts under way hold tokens, and the loop one more between taking it
  and starting the part.  `BoundedParts` alone does not survive a start.
* `CancelHasCause`, `ErrorsRecorded`: the parts' context ends with the caller's or
  after an error was recorded, because `fail` records before it cancels.  So a part
  that notices the cancellation finds `firstErr` taken: `RootCause`.
* `PartsWritten`, `LoopCompletes`, `StreamWritten`: what was copied is in `dst`; with
  no error and the caller's context alive, the loop ran to the end and every part it
  started is complete.

### FetchReader (`FetchReaderProofs`)

`TypeCorrect`, `InOrder` (`DeliversInOrder`), `EOFAtTheEnd` (`EOFIsComplete`),
`ContextErrors` (`ContextErrorIsCallers`), `MemoryIsBounded` (`BuffersBounded`).

* `InSequence` is the core: while Read takes parts, it has delivered what lies before
  the rest it holds, the first slot in the channel is the part after that, each slot
  follows the one before it, and the producer's offset follows the last.  A channel
  closed with the reader's context alive means that all parts are in it or taken.
* `EndHasCause`: the reader's context ends with the caller's, with Close, when Read
  degrades, or with an error Read has returned; so a context error that Read still
  gets to see is the caller's.
* `OnBoundary`, `Modes`: where the producer and Read stand and what they then hold.
* `TokensHeld`: the semaphore is the number of parts that have not released it; the
  type of `sem` needs it.

`BuffersBounded` follows from the capacity of the channel: a part that has a buffer is in
a slot of the channel, is the one Read waits for, or is `r.cur`'s.  The bound is
`Concurrency + 2`, and the run reaches it: Read waits for a part while the last one, read
out, is still in `r.cur`.

### Healing (`HealingProofs`)

`TypeCorrect` holds without hypothesis.  `ResumesExactly` (`DeliversRequested`) and
`EOFIsTheEnd` (`EOFIsComplete`) are proved for `Resumable` requests, for every object
size, number of connections, windows and width of the integers.

* `SameVersion`: every connection reads the version the first one read, since the
  object is replaced only outside of a heal and the heal compares tags.
* `InStep`: the connection stands at the byte after the last one delivered and ends no
  later than the request; where the length is not known to the reader, exactly there.
* `AtEnd`, `Healable`, `Reading`, `Unopened`: a clean EOF of unknown length is the end,
  a heal has bytes left to ask for, and Read goes on only after data.

The step that matters is the reopening: `Continues` shows that the offset and length
heal computes from what was consumed give, through the arithmetic of FS (`FSFits`) and
of S3's header and the service (`S3Fits`), a connection in step with the request.
`HealAssumption` asks that sizes can be represented and that a Get has no range.

### S3 (`S3Proofs`)

`Refinement`: under `Seated`, `OneDeleter`, `CasOnce` and `MissingStatus = {"412"}`,
`Spec => ImplementsBucket`, for any number of clients, replicas and attempts.

* By `Target`, the code's use of `X-Tigris-Consistent`, all requests about a key meet at
  its seat.
* `SeatsAgree`: only the seat of a key is ever ahead of the leader, and unless it is,
  both agree; so `Pull` and `Push` change nothing that anybody reads.
* `HopFits`: a request belongs to its call, and its answer is one the service gives to
  such a request.
* `DeleteFinds`: between HEAD and DELETE the object stays, and after a DELETE that may be
  sent again it stays away; this is what `OneDeleter` is for, and why a Delete takes
  effect once.

A request executed again maps to the abstract `AskAgain`, an answer lost for good to
`Unheard`.

### ClientSet (`ClientSetProofs`)

`CountsAreExact` (`InflightExact`), `FreshStripesServe` (`ServesAWindow`), `IdleStripesStay`
(`SickWasBusy`), `FastStripesStay` (`SickWasSlow`), `PinnedStripesAreLeft` (`PinnedIsLeft`),
for any number of slots, stripes and requests, every window and floor.

* `ClosedOnce`, `OnlyMade`, `OwnSlot`: a stripe has one slot, a request's stripe is in the
  request's slot or in none.  They give the theorem about counts.
* `BornFirst`, `CondemnedServed`: a stripe is not sampled before it is in its slot, and
  a request that holds a verdict on the stripe in a slot got it after a window of that
  stripe. The `CompareAndSwap` fails for all others: `ServesAWindow`.
* `SampledSlow`: since `belowSince` a stripe has delivered less than the floor asks for.
* `UsedWhenLooked`, `RestsSeen`: who is about to use a stripe has looked at it within a
  sampling interval, so after a rest of an interval the sampler starts again before
  the stripe is used; except where a late loser joined it.
* `PinnedBelow`, `CondemnedLeaves`: a stripe that delivers nothing has been below the
  floor since its first sample, and once condemned it is out of its slot or being
  replaced.

`SetAssumption`: a window has at least four ticks, so that a sampling interval is not
empty, and the floor is positive; the code's are ten seconds and 100 KiB/s
(`clientset.go:23`).

### Views and metering (`MeteredProofs`)

`MeteringLosesNothing` (`NoCountLost`), `SnapshotsHaveRequests` (`BytesHaveRequests`),
`ViewPagesInOrder` (`ViewAscends`), `ViewEnumerationComplete` (`ViewNoneMissed`) and
`ViewsAreIsolated` (`ViewsIsolated`), for every set of clients, views, prefixes, calls,
labels, objects and page size.

* Keys: `TrimConcat` (what is put before a key is cut off again), `LessConcat` (and does not
  change the order of keys) and `LessEmpty` carry a page through both prefixes.
  `ViewPage` is what results: the keys of a page are in the view, after `startAfter`,
  ascending, and what the page leaves out comes after it.
* `PagingInv`: the pages ascend and end with `startAfter`, and a key that has been there
  since the first page is on one of them or comes after, as long as no page was empty.
* `LabelInv`: labels have different counters, and a request that has looked up its counters
  holds those of its label.  Without it an `Add` could go to counters that no label names.
* `BytesInv`: the bytes of a label, plus those that its counted requests may still add
  (`PutDue`, `GetDue`), are at most `MaxSize` for each request counted.  The sum of what is
  due is the cardinality of a set of tokens, which changes by one client's part with each
  step (`TotalStep`).
* `SnapInv`: bytes that Stats has loaded are bounded by the count in the heap, which only
  grows (`Grows`), until that count is loaded too.  This is where the order of loading
  matters.
* `ApartKeys`: views that Prefixed has made end with `/`, so two that differ in a byte
  before the first `/` of either have no key in common.

`MeteredAssumption`: calls are well formed, sizes are bounded and views are made by
Prefixed; `NamesAssumption` is explained in section 2.

### Only model-checked

Every invariant, action property and refinement of the passing runs is also proved.
Liveness (`CallsReturn`, `FetchReturns`, `ReadReturns`, `CloseEndsGoroutines`) is
checked at the bounds of section 3 only: the prover does not reason about fairness. The
sum of the listed sizes (`listObjectBytes`) is a fold, of which the prover knows
nothing; no property is about it.

## 5. Findings

Each violation run is a finding; `PROJECT.json` quotes the sentence the code
contradicts.  In short: Delete races compare-and-swap (`fs.go:309`);
`FetchRangedAt` reports success on a cancelled context (`fetchranged.go:98`); a
suffix longer than the object is resumed at the wrong offset (`heal.go:188`); a
conditional put that the SDK sends again is refused because of its own write
(`s3.go:186`).

## 6. Further deviations seen while modelling

These were seen in the code or on other instances of the models; they have no run of
their own:

FS:

* compare-and-swaps of two processes on one tag can both succeed, as only a
  mutex of the process joins check and rename (`fs.go:88`; the comment at
  `fs.go:24` relies on rename alone);
* Get hashes the file and then opens it again: a Put in between pairs the old
  tag with the new body (`fs.go:152`);
* pruning calls `os.Remove`, which also unlinks files: when another caller has
  removed an empty parent and stored an object under its name, that object goes
  (`fs.go:318`; excluded by `PlainKeys`);
* Stat of an object deleted after its `os.Stat` returns an error that is not
  `ErrNotFound` (`fs.go:288`);
* objects `a` and `a/b` exclude each other (`fs.go:76`), although
  `docs/SEMANTICS.md` calls keys opaque;
* PutStream returns on a refused key or failed `MkdirAll` without draining its
  reader (`fs.go:104`);
* a deletion anywhere in the tree, outside the prefix too, can fail a List
  (`fs.go:215`); size and tag of an entry may be of different versions
  (`fs.go:243`); a key whose last segment contains `.tmp.` is never listed
  (`fs.go:229`); a key with `.` segments is listed without them;
* `start + length` beyond the largest `int64` gives an empty body (`fs.go:201`,
  theorem `FSRangeOverflow`).

Fetchers and healing:

* the comment at `fetchranged.go:134` promises "(Concurrency+1) x PartSize of in-flight part
  buffers"; with the one that `r.cur` keeps after it was read out there are
  `Concurrency + 2` (`fetchranged.go:250`);
* when the context ends, `produce` closes the slots and the ordered reader
  reports `io.EOF` with bytes missing (`fetchranged.go:223`);
* an object replaced between a heal's Stat and its GetRange is not noticed: the
  rest comes from the new one (`heal.go:193`);
* a suffix range whose length exceeds the suffix, failing after its last byte,
  is resumed at offset 0, the start of the object (`heal.go:161`);
* a body of unknown length that ends early with a clean EOF is taken for
  complete (`heal.go:147`);
* over S3, a read to the end that fails after the last byte is resumed beyond
  the object and gets a 416 instead of EOF (`heal.go:193`);
* a caller that pauses between Reads has healthy connections killed, the last
  one included (`heal.go:274`).

S3:

* two deleters of a key both succeed, and a put between HEAD and DELETE is
  deleted by a Delete that did not see it (`s3.go:311`);
* an If-Match for a missing object that the service answers with 404 is not
  `ErrPreconditionFailed` (`s3.go:368` knows only 412), which
  `conformance_test.go:164` asks for; with 404 in `MissingStatus` the refinement
  fails;
* a suffix range ignores its length (`s3.go:340`).

Wrappers:

* an object whose relative key is empty makes paging through a view begin again,
  as `startAfter` "" means none (`prefixed.go:65`, `s3.go:259`);
* Stats loads the number of lists before the number of listed objects, so a
  snapshot can show objects without their list (`metering.go:88`);
* an idle pause shorter than a sampling interval counts as busy
  (`clientset.go:145`); a goroutine suspended between `sick` and `inflight.Add`,
  or one that loaded its stripe just before an eviction, sends its request on a
  condemned stripe;
* an endpoint forces path-style addressing, also where the URL says otherwise
  (`s3.go:123`).

## 7. Not modelled

* URL parsing and the assembly of the SDK's configuration (`url.go`, `OpenS3`):
  a string becomes a record once, before anything runs; there is no state, no
  order and no second actor for a model to explore.
* Cache-Control of the context: metadata that no operation reads back.
* Power failure: the code syncs the file and not its directory; the documents
  promise no durability.
* Requests that the service executes after their client has given up on them,
  multipart uploads of PutStream (the request that completes one decides), and
  bodies the SDK cannot rewind for a retry.
* Log rate limits (`warnEvicted`, `warnHeal`), transport tuning, dialing.
* Concurrent Close and Read of one reader: not a use `io.Reader` allows here.
* Wall-clock time, retries and backoff durations, HTTP details.

## 8. Plan

Done: every component but URL parsing, with runs; proofs of every safety property the runs
check and of both refinements.

Open: concurrent Close and Read of a healing body, should a caller come to need it; a model
of power failure, should the documents come to promise durability; the fetchers on top of
healing reads as one composed specification, for which the properties of the parts suffice
today.
