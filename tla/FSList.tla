------------------------------- MODULE FSList -------------------------------
(***************************************************************************)
(* FS.List (fs.go) beside the other operations: it walks the tree without  *)
(* the mutex, one directory or file at a time.  A caller enumerates the    *)
(* keys with a prefix page by page, as bucket.go tells it to: startAfter   *)
(* is the last key of the page before, until a page is empty.              *)
(*                                                                         *)
(* A prefix is the set of the keys that begin with it.                     *)
(***************************************************************************)
EXTENDS FSProperties, Functions

CONSTANTS
  Prefixes,    \* the prefixes the caller enumerates
  KeyOrder,    \* the keys in byte order
  NameOrder,   \* the names of files and directories in byte order
  TempNames,   \* the names of objects that contain ".tmp."
  MaxKeys      \* maxKeys

(* A key is listed as the path it has, so the keys asked for are written   *)
(* that way: without "." segments.                                         *)
ASSUME OrderAssumption ==
  /\ KeyOrder \in Seq(Keys) /\ Range(KeyOrder) = Keys
  /\ \A p \in Paths : Range(p) \subseteq Range(NameOrder)
  /\ Prefixes \subseteq SUBSET {k \in Keys : keyPath(k) = k}
  /\ MaxKeys \in Nat \ {0}

VARIABLES
  lpc,      \* where the caller is
  prefix,   \* what it enumerates
  after,    \* startAfter: the rank of a key in KeyOrder, 0 for ""
  todo,     \* the entries of the directories read that WalkDir has not visited
  out,      \* what this List has found
  listed,   \* what the pages so far have returned
  steady,   \* history: the keys that have existed since the first page began
  ever,     \* history: the <<key, etag>> there have been since then
  gone      \* history: a file or directory was removed since this List began

walk    == <<prefix, after, todo, out, listed>>
history == <<steady, ever, gone>>
lvars   == <<vars, lpc, walk, history>>

Rank(s, x) == CHOOSE i \in DOMAIN s : s[i] = x
Last(s)    == s[Len(s)]
Entry(p, kind) == [path |-> p, kind |-> kind]
Present    == {k \in Keys : files[keyPath(k)] # Absent}
Tags       == {<<k, ETag(files[keyPath(k)])>> : k \in Present}

LInit ==
  /\ Init
  /\ lpc = "idle"
  /\ prefix = {} /\ after = 0 /\ todo = {} /\ out = <<>> /\ listed = <<>>
  /\ steady = {} /\ ever = {} /\ gone = FALSE

-----------------------------------------------------------------------------
Begin ==
  /\ lpc = "idle"
  /\ lpc' = "call"
  /\ prefix' \in Prefixes
  /\ after' = 0
  /\ listed' = <<>>
  /\ steady' = Present
  /\ ever' = Tags
  /\ UNCHANGED <<vars, todo, out, gone>>

(* ctx.Err, then WalkDir begins at the root.                               *)
Listing ==
  /\ lpc = "call"
  /\ \/ lpc' = "ctx" /\ UNCHANGED todo
     \/ lpc' = "walk" /\ todo' = {Entry(Root, "dir")}
  /\ out' = <<>>
  /\ gone' = FALSE
  /\ UNCHANGED <<vars, prefix, after, listed, steady, ever>>

(* What a directory holds, and what ReadDir returns of it.                *)
Holds(d, kind) ==
  CASE kind = "dir"  -> {e \in dirs : Dir(e) = d}
    [] kind = "file" -> {p \in Paths : IsFile(p) /\ Dir(p) = d}
    [] kind = "temp" -> {p \in {PathOf(c) : c \in {x \in Clients : tmp[x] # Absent}} :
                           Dir(p) = d}

There(e) == e.path \in Holds(Dir(e.path), e.kind)

Entries(d) == UNION {{Entry(p, kind) : p \in Holds(d, kind)} : kind \in {"dir", "file", "temp"}}

(* ReadDir sorts by name and WalkDir goes depth first, so that the entries *)
(* are visited in the order of their paths, name by name; a temp file's    *)
(* name is its object's with a suffix.                                     *)
Before(e, f) ==
  \/ \E i \in DOMAIN e.path \cap DOMAIN f.path :
       /\ \A j \in 1..(i - 1) : e.path[j] = f.path[j]
       /\ Rank(NameOrder, e.path[i]) < Rank(NameOrder, f.path[i])
  \/ f.kind = "temp" /\ e # f /\ f.path \in Ancestors(e.path) \cup {e.path}

Turn(e) == lpc = "walk" /\ \A f \in todo : ~Before(f, e)

ReadDir(e) ==
  /\ Turn(e) /\ e.kind = "dir"
  /\ IF IsDir(e.path)
     THEN todo' = (todo \ {e}) \cup Entries(e.path) /\ UNCHANGED lpc
     ELSE lpc' = "failed" /\ UNCHANGED todo
  /\ UNCHANGED <<vars, prefix, after, out, listed, history>>

(* The callback on a file: a name with ".tmp." in it is skipped, whether   *)
(* CreateTemp gave it or a caller; prefix and startAfter decide about the  *)
(* others; then d.Info ...                                                 *)
TempNamed(e) == e.kind = "temp" \/ Last(e.path) \in TempNames

WantsTemp(e) ==   \* mutant: temp files are not skipped
  e.path \in prefix /\ Rank(KeyOrder, e.path) > after
Wants(e) ==
  ~TempNamed(e) /\ e.path \in prefix /\ Rank(KeyOrder, e.path) > after

Visit(e) ==
  /\ Turn(e) /\ e.kind # "dir"
  /\ todo' = todo \ {e}
  /\ LET p == e.path
     IN \/ /\ ~Wants(e)
           /\ UNCHANGED <<lpc, out>>
        \/ /\ Wants(e) /\ (There(e) \/ p \in dirs)
           /\ out' = Append(out, [key |-> p, etag |-> NoTag,
                                  size |-> IF IsFile(p) THEN Len(files[p]) ELSE 0])
           /\ lpc' = "etag"
        \/ /\ Wants(e) /\ ~(There(e) \/ p \in dirs)
           /\ lpc' = "failed"
           /\ UNCHANGED out
  /\ UNCHANGED <<vars, prefix, after, listed, history>>

(* ... and fileETag.                                                       *)
ReadETagShadowed ==   \* mutant: the tag found before is kept (etag, err := shadows)
  /\ lpc = "etag"
  /\ LET p == Last(out).key
         n == Len(out)
     IN IF Probe(p) = "file"
        THEN /\ out' = [out EXCEPT ![n].etag =
                          IF n > 1 THEN out[n - 1].etag ELSE ETag(files[p])]
             /\ lpc' = "walk"
        ELSE lpc' = "failed" /\ UNCHANGED out
  /\ UNCHANGED <<vars, prefix, after, todo, listed, history>>

ReadETag ==
  /\ lpc = "etag"
  /\ LET p == Last(out).key
     IN IF Probe(p) = "file"
        THEN /\ out' = [out EXCEPT ![Len(out)].etag = ETag(files[p])]
             /\ lpc' = "walk"
        ELSE lpc' = "failed" /\ UNCHANGED out
  /\ UNCHANGED <<vars, prefix, after, todo, listed, history>>

(* sort.Slice, then the first maxKeys.                                     *)
SortsNot(s) == {s}   \* mutant: in the order of the walk
Sorts(s) ==
  {t \in {[i \in DOMAIN s |-> s[f[i]]] : f \in Bijection(DOMAIN s, DOMAIN s)} :
     \A i, j \in DOMAIN s :
       i < j => Rank(KeyOrder, t[i].key) <= Rank(KeyOrder, t[j].key)}
Cut(s) == SubSeq(s, 1, IF Len(s) > MaxKeys THEN MaxKeys ELSE Len(s))

PagesCutFirst == Sorts(Cut(out))   \* mutant: cut before it is sorted
Pages         == {Cut(s) : s \in Sorts(out)}

EndPage ==
  /\ lpc = "walk" /\ todo = {}
  /\ \E page \in Pages :
       /\ listed' = listed \o page
       /\ IF page = <<>>
          THEN lpc' = "over" /\ UNCHANGED after
          ELSE lpc' = "call" /\ after' = Rank(KeyOrder, Last(page).key)
  /\ out' = <<>>
  /\ UNCHANGED <<vars, prefix, todo, history>>

(* The caller has all pages, or an error, and forgets about them.          *)
Forget ==
  /\ lpc \in {"over", "failed", "ctx"}
  /\ lpc' = "idle"
  /\ prefix' = {} /\ after' = 0 /\ todo' = {} /\ out' = <<>> /\ listed' = <<>>
  /\ steady' = {} /\ ever' = {} /\ gone' = FALSE
  /\ UNCHANGED vars

-----------------------------------------------------------------------------
(* The other operations go on.  (A crash changes nothing the walk sees.)   *)
Others ==
  /\ \E c \in Clients : Invoke(c) \/ Step(c) \/ Lock(c) \/ Return(c)
  /\ IF lpc = "idle" THEN UNCHANGED history
     ELSE /\ steady' = steady \cap Present'
          /\ ever' = ever \cup Tags'
          /\ gone' = (gone \/ ~(Present \subseteq Present') \/ ~(dirs \subseteq dirs'))
  /\ UNCHANGED <<lpc, walk>>

LNext ==
  \/ Begin \/ Listing
  \/ \E e \in todo : ReadDir(e) \/ Visit(e)
  \/ ReadETag \/ EndPage \/ Forget
  \/ Others

LSpec == LInit /\ [][LNext]_lvars

-----------------------------------------------------------------------------
(***************************************************************************)
(* The pages together are in ascending key order, so no key comes twice,   *)
(* although the walk visits "a/b" before "a.x" (bucket.go:56).             *)
(***************************************************************************)
PagesAscend ==
  \A i \in 1..(Len(listed) - 1) :
    Rank(KeyOrder, listed[i].key) < Rank(KeyOrder, listed[i + 1].key)

(***************************************************************************)
(* Whatever is created, replaced and deleted meanwhile, an enumeration     *)
(* that ends has every key with the prefix that existed throughout         *)
(* (bucket.go:57: "iterate with startAfter = lastKey to enumerate"), but   *)
(* for the keys whose last segment looks like the name of a temp file.     *)
(***************************************************************************)
Listable == {k \in Keys : Last(k) \notin TempNames}

NoneMissed ==
  lpc = "over" =>
    steady \cap prefix \cap Listable \subseteq {listed[i].key : i \in DOMAIN listed}

(***************************************************************************)
(* A listed object existed, with the entity tag it is listed with, at some *)
(* time during the enumeration (fileETag of FS.List).                      *)
(***************************************************************************)
ListedExisted ==
  \A i \in DOMAIN listed : <<listed[i].key, listed[i].etag>> \in ever

(***************************************************************************)
(* List fails only when a file or a directory was removed under it, not    *)
(* because objects or temp files come into being (the errors of WalkDir,   *)
(* d.Info and fileETag).                                                   *)
(***************************************************************************)
FailsOnlyBesideRemoval == lpc = "failed" => gone
=============================================================================
