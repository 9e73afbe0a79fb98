---------------------------- MODULE FSListProofs ----------------------------
(***************************************************************************)
(* Enumerating the keys of a filesystem backend page by page, for every    *)
(* tree, page size, number of clients and interleaving with them.          *)
(***************************************************************************)
EXTENDS FSList, FSProofs

(* A path, and the directories it is in.                                   *)
Up(p) == {Root, p} \cup Ancestors(p)

Kinds   == {"dir", "file", "temp"}
Walking == lpc \in {"walk", "etag"}
Objects == [key : Keys, etag : ETags \cup {NoTag}, size : Nat]

(* What the walk has found has the prefix and comes after startAfter; what *)
(* the pages have, and what is still to be visited, is of its type.        *)
LType ==
  /\ prefix \in Prefixes \cup {{}} /\ after \in Nat
  /\ out \in Seq(Objects) /\ listed \in Seq(Objects)
  /\ steady \subseteq Keys /\ gone \in BOOLEAN
  /\ \A e \in todo : /\ e.kind \in Kinds /\ e = Entry(e.path, e.kind)
                     /\ e.kind = "dir"  => e.path \in DirPaths \cup {Root}
                     /\ e.kind # "dir" => e.path \in Paths
  /\ Walking => \A i \in DOMAIN out :
                  out[i].key \in prefix /\ Rank(KeyOrder, out[i].key) > after
  /\ lpc = "etag" => out # <<>>

(* The history of an enumeration under way.                                *)
HistoryInv ==
  lpc # "idle" =>
    /\ steady \subseteq Present
    /\ Tags \subseteq ever
    /\ \A i \in DOMAIN listed : <<listed[i].key, listed[i].etag>> \in ever
    /\ Walking => \A i \in DOMAIN out : \/ lpc = "etag" /\ i = Len(out)
                                        \/ <<out[i].key, out[i].etag>> \in ever

(* No entry lies in another one, or holds what has been found: so nothing  *)
(* is found twice.                                                         *)
Solid(e) == e.kind # "temp"

WalkInv ==
  Walking =>
    /\ \A e, f \in todo : Solid(e) /\ Solid(f) /\ e.path \in Up(f.path) => e = f
    /\ \A e \in todo : \A i \in DOMAIN out : Solid(e) => e.path \notin Up(out[i].key)
    /\ \A i, j \in DOMAIN out : out[i].key = out[j].key => i = j

(* A key that has existed since the first page is on a page, or comes      *)
(* after them and was found, or is still ahead of the walk.                *)
Ahead(k) ==
  \E e \in todo : \/ e.kind = "file" /\ e.path = k
                  \/ e.kind = "dir" /\ e.path \in Up(k) \ {k}

CoverInv ==
  \A k \in steady \cap prefix \cap Listable :
    /\ Rank(KeyOrder, k) <= after => \E i \in DOMAIN listed : listed[i].key = k
    /\ Rank(KeyOrder, k) > after /\ Walking =>
         Ahead(k) \/ \E i \in DOMAIN out : out[i].key = k
    /\ lpc = "over" => \E i \in DOMAIN listed : listed[i].key = k

(* The pages ascend and end with startAfter.                               *)
PagesInv ==
  /\ PagesAscend
  /\ listed # <<>> => after = Rank(KeyOrder, listed[Len(listed)].key)
  /\ lpc = "idle" => listed = <<>>

(* While nothing is removed, what the walk knows of is there.              *)
StillThere ==
  /\ lpc = "failed" => gone
  /\ Walking /\ ~gone =>
       /\ \A e \in todo : /\ e.kind = "dir" => IsDir(e.path)
                          /\ e.kind = "file" => IsFile(e.path)
       /\ lpc = "etag" => IsFile(out[Len(out)].key)

(* The inductive invariant of the enumeration, on top of that of the tree. *)
LInv == LType /\ HistoryInv /\ WalkInv /\ CoverInv /\ PagesInv /\ StillThere

-----------------------------------------------------------------------------
(* Keys are compared by their rank, which tells them apart.                *)
LEMMA RankFacts ==
  ASSUME NEW k \in Keys
  PROVE  Rank(KeyOrder, k) \in Nat \ {0} /\ KeyOrder[Rank(KeyOrder, k)] = k
<1>1. DOMAIN KeyOrder = 1..Len(KeyOrder) /\ Len(KeyOrder) \in Nat
  BY OrderAssumption, LenProperties
<1>2. \E i \in DOMAIN KeyOrder : KeyOrder[i] = k
  BY OrderAssumption DEF Range
<1>3. Rank(KeyOrder, k) \in DOMAIN KeyOrder /\ KeyOrder[Rank(KeyOrder, k)] = k
  BY <1>2 DEF Rank
<1> QED
  BY <1>1, <1>3

(* Two keys of one rank are one key.                                       *)
LEMMA RankInjective ==
  ASSUME NEW j \in Keys, NEW k \in Keys, Rank(KeyOrder, j) = Rank(KeyOrder, k)
  PROVE  j = k
BY RankFacts

(* The keys asked for are keys that are their own paths.                   *)
LEMMA AskedFor ==
  ASSUME LInv, NEW k \in prefix
  PROVE  k \in Keys /\ keyPath(k) = k /\ k \in Paths
BY OrderAssumption DEF LInv, LType, Paths

(* Paths are sequences of names; only the root is empty.                   *)
LEMMA PathSeq ==
  ASSUME NEW p \in Paths \cup DirPaths
  PROVE  p \in Seq(STRING) /\ p # Root
<1>1. CASE p \in Paths
  BY <1>1, PathType DEF Paths
<1>2. CASE p \in DirPaths
  BY <1>2, DirPathSeq DEF Root
<1> QED
  BY <1>1, <1>2

(* What holds a path is the path itself and what holds its parent.         *)
LEMMA UpOfChild ==
  ASSUME NEW p \in Seq(STRING), p # Root
  PROVE  Up(p) = Up(Dir(p)) \cup {p}
<1>1. Ancestors(Root) = {}
  <2>1. Len(Root) = 0
    BY DEF Root
  <2> QED
    BY <2>1 DEF Ancestors
<1> QED
  BY <1>1, AncestorsUp DEF Up

(* What holds a path has its own parent among what holds the path.         *)
LEMMA UpClosed ==
  ASSUME NEW p \in Seq(STRING), NEW q \in Up(p), q # Root
  PROVE  Dir(q) \in Up(p)
<1>0. Len(p) \in Nat
  BY LenProperties
<1>1. CASE q = p
  BY <1>1, AncestorsUp DEF Up
<1>2. CASE q \in Ancestors(p)
  <2>1. PICK i \in 1..(Len(p) - 1) : q = SubSeq(p, 1, i)
    BY <1>2 DEF Ancestors
  <2>2. i \in 1..Len(p) /\ Dir(q) = SubSeq(p, 1, i - 1)
    BY <1>0, <2>1, PrefixFacts
  <2>3. CASE i = 1
    BY <2>2, <2>3, SubSeqEmpty DEF Up, Root
  <2>4. CASE i > 1
    <3>1. i - 1 \in 1..(Len(p) - 1)
      BY <1>0, <2>1, <2>4
    <3> QED
      BY <2>2, <3>1 DEF Up, Ancestors
  <2> QED
    BY <1>0, <2>1, <2>3, <2>4
<1> QED
  BY <1>1, <1>2 DEF Up

(* A path does not hold its own parent.                                    *)
LEMMA ChildNotUp ==
  ASSUME NEW p \in Seq(STRING), p # Root
  PROVE  p \notin Up(Dir(p))
<1>0. Len(p) \in Nat \ {0} /\ p = SubSeq(p, 1, Len(p))
  BY LenProperties, EmptySeq, SubSeqFull DEF Root
<1>1. Ancestors(p) = {SubSeq(p, 1, i) : i \in 1..(Len(p) - 1)}
  BY DEF Ancestors
<1>2. ASSUME NEW q \in Ancestors(p) PROVE Len(q) < Len(p)
  <2>1. PICK i \in 1..(Len(p) - 1) : q = SubSeq(p, 1, i)
    BY <1>1
  <2>2. i \in 1..Len(p) /\ Len(q) = i
    BY <1>0, <2>1, PrefixFacts
  <2> QED
    BY <1>0, <2>1, <2>2
<1>3. p \notin Ancestors(p)
  BY <1>0, <1>2
<1>4. Up(Dir(p)) \subseteq {Root} \cup Ancestors(p)
  <2>1. Ancestors(Root) = {}
    <3>1. Len(Root) = 0
      BY DEF Root
    <3> QED
      BY <3>1 DEF Ancestors
  <2> QED
    BY <2>1, AncestorsUp DEF Up
<1> QED
  BY <1>3, <1>4

(* From a directory that holds a path, one step leads towards it.          *)
LEMMA ChildTowards ==
  ASSUME NEW p \in Seq(STRING), p # Root, NEW d \in Up(p), d # p
  PROVE  \E q \in Up(p) : q # Root /\ Dir(q) = d
<1>0. Len(p) \in Nat \ {0} /\ p = SubSeq(p, 1, Len(p))
  BY LenProperties, EmptySeq, SubSeqFull DEF Root
<1>1. CASE d = Root
  <2> DEFINE q == SubSeq(p, 1, 1)
  <2>1. Len(q) = 1 /\ Dir(q) = SubSeq(p, 1, 0)
    BY <1>0, PrefixFacts
  <2>2. Dir(q) = Root /\ q # Root
    BY <2>1, SubSeqEmpty DEF Root
  <2>3. q \in Up(p)
    <3>1. CASE Len(p) = 1
      BY <1>0, <3>1 DEF Up
    <3>2. CASE Len(p) > 1
      <4>1. 1 \in 1..(Len(p) - 1)
        BY <1>0, <3>2
      <4> QED
        BY <4>1 DEF Up, Ancestors
    <3> QED
      BY <1>0, <3>1, <3>2
  <2> QED
    BY <1>1, <2>2, <2>3
<1>2. CASE d \in Ancestors(p)
  <2>1. ASSUME NEW q \in Ancestors(p) PROVE q # Root
    <3>1. PICK i \in 1..(Len(p) - 1) : q = SubSeq(p, 1, i)
      BY <2>1 DEF Ancestors
    <3>2. i \in 1..Len(p) /\ Len(q) = i
      BY <1>0, <3>1, PrefixFacts
    <3>3. Len(Root) = 0
      BY DEF Root
    <3> QED
      BY <3>1, <3>2, <3>3
  <2>2. Dir(p) = d \/ \E e \in Ancestors(p) : Dir(e) = d
    BY <1>2, AncestorHasChild
  <2> QED
    BY <2>1, <2>2 DEF Up
<1> QED
  BY <1>1, <1>2 DEF Up

-----------------------------------------------------------------------------
(* What ReadDir returns: names of the directory, files and directories     *)
(* that are there.                                                         *)
LEMMA EntriesFacts ==
  ASSUME IInv, NEW d, NEW f \in Entries(d)
  PROVE  /\ f.kind \in Kinds /\ f = Entry(f.path, f.kind)
         /\ f.path \in Seq(STRING) /\ f.path # Root /\ Dir(f.path) = d
         /\ f.kind = "dir"  => f.path \in dirs /\ f.path \in DirPaths
         /\ f.kind = "file" => IsFile(f.path)
         /\ f.kind # "dir"  => f.path \in Paths
<1>1. PICK kind \in Kinds : \E p \in Holds(d, kind) : f = Entry(p, kind)
  BY DEF Entries, Kinds
<1>2. PICK p \in Holds(d, kind) : f = Entry(p, kind)
  BY <1>1
<1>3. f.path = p /\ f.kind = kind
  BY <1>2 DEF Entry
<1>4. CASE kind = "dir"
  <2>1. p \in dirs /\ Dir(p) = d
    BY <1>2, <1>4 DEF Holds
  <2>2. p \in DirPaths
    BY <2>1 DEF IInv, TypeOK
  <2> QED
    BY <1>1, <1>2, <1>3, <1>4, <2>1, <2>2, PathSeq
<1>5. CASE kind = "file"
  <2>1. p \in Paths /\ IsFile(p) /\ Dir(p) = d
    BY <1>2, <1>5 DEF Holds
  <2> QED
    BY <1>1, <1>2, <1>3, <1>5, <2>1, PathSeq
<1>6. CASE kind = "temp"
  <2>1. Holds(d, kind) = {q \in {PathOf(c) : c \in {x \in Clients : tmp[x] # Absent}} : Dir(q) = d}
    BY <1>6 DEF Holds
  <2>2. PICK c \in Clients : tmp[c] # Absent /\ p = PathOf(c) /\ Dir(p) = d
    BY <1>2, <2>1
  <2>3. pc[c] \in HasTemp
    BY <2>2 DEF IInv, NoLeftovers
  <2>4. pc[c] # "idle"
    BY <2>3 DEF HasTemp
  <2>5. p \in Paths
    BY <2>2, <2>4, CallType
  <2> QED
    BY <1>1, <1>2, <1>3, <1>6, <2>2, <2>5, PathSeq
<1> QED
  BY <1>1, <1>4, <1>5, <1>6 DEF Kinds

(* It returns all the files and directories there are.                     *)
LEMMA EntriesComplete ==
  ASSUME NEW p
  PROVE  /\ p \in dirs => Entry(p, "dir") \in Entries(Dir(p))
         /\ IsFile(p) => Entry(p, "file") \in Entries(Dir(p))
<1>1. ASSUME p \in dirs PROVE Entry(p, "dir") \in Entries(Dir(p))
  <2>1. p \in Holds(Dir(p), "dir")
    BY <1>1 DEF Holds
  <2> QED
    BY <2>1 DEF Entries
<1>2. ASSUME IsFile(p) PROVE Entry(p, "file") \in Entries(Dir(p))
  <2>1. p \in Holds(Dir(p), "file")
    BY <1>2 DEF Holds, IsFile
  <2> QED
    BY <2>1 DEF Entries
<1> QED
  BY <1>1, <1>2

(* A steady key's parents are directories, itself a file.                  *)
LEMMA SteadyIsThere ==
  ASSUME TreeInv, LInv, lpc # "idle", NEW k \in steady \cap prefix
  PROVE  IsFile(k) /\ Up(k) \ {k} \subseteq dirs \cup {Root} /\ k \in Seq(STRING) /\ k # Root
<1>1. k \in Keys /\ keyPath(k) = k /\ k \in Paths
  BY AskedFor
<1>2. IsFile(k)
  BY <1>1 DEF LInv, HistoryInv, Present, IsFile
<1>3. Ancestors(k) \subseteq dirs
  BY <1>2 DEF TreeInv, ParentsExist, IsFile
<1> QED
  BY <1>1, <1>2, <1>3, PathSeq DEF Up

(* Reading a directory replaces its entry by what is in it.                *)
LEMMA ReadDirKeeps ==
  ASSUME IInv, TreeInv, LInv, NEW e \in todo, ReadDir(e)
  PROVE  LInv'
<1> USE DEF LInv, Walking
<1>0. /\ lpc = "walk" /\ lpc' # "idle" /\ e.kind = "dir"
      /\ UNCHANGED <<files, dirs, prefix, after, out, listed, steady, ever, gone>>
  BY DEF ReadDir, Turn, vars, history
<1>1. Present' = Present /\ Tags' = Tags
  BY <1>0 DEF Present, Tags
<1>2. PagesInv'
  BY <1>0 DEF PagesInv, PagesAscend
<1>3. CASE ~IsDir(e.path)
  <2>1. lpc' = "failed" /\ todo' = todo
    BY <1>3 DEF ReadDir
  <2>2. LType' /\ HistoryInv' /\ WalkInv'
    BY <1>0, <1>1, <2>1 DEF LType, HistoryInv, WalkInv
  <2>3. CoverInv'
    BY <1>0, <2>1 DEF CoverInv
  <2>4. StillThere'
    BY <1>0, <1>3, <2>1 DEF StillThere
  <2> QED
    BY <1>2, <2>2, <2>3, <2>4
<1>4. CASE IsDir(e.path)
  <2> DEFINE d == e.path
             new == Entries(d)
  <2>1. lpc' = "walk" /\ todo' = (todo \ {e}) \cup new
    BY <1>0, <1>4 DEF ReadDir
  <2>2. \A f \in new :
           /\ f.kind \in Kinds /\ f = Entry(f.path, f.kind)
           /\ f.path \in Seq(STRING) /\ f.path # Root /\ Dir(f.path) = d
           /\ f.kind = "dir"  => f.path \in dirs /\ f.path \in DirPaths
           /\ f.kind = "file" => IsFile(f.path)
           /\ f.kind # "dir"  => f.path \in Paths
    BY EntriesFacts
  <2>3. \A g \in todo : g.path \in Seq(STRING)
    <3>1. Root \in Seq(STRING)
      BY EmptySeq DEF Root
    <3>2. \A g \in todo : g.path \in Paths \cup DirPaths \cup {Root}
      BY DEF LType
    <3> QED
      BY <3>1, <3>2, PathSeq
  <2>4. \A i \in DOMAIN out : out[i].key \in Seq(STRING)
    BY <1>0, AskedFor, PathSeq DEF LType
  <2> HIDE DEF new, d
  <2>5. LType'
    BY <1>0, <2>1, <2>2 DEF LType
  <2>6. HistoryInv'
    BY <1>0, <1>1, <2>1 DEF HistoryInv
  <2>7. WalkInv'
    <3>1. ASSUME NEW f \in new, NEW g \in todo \ {e}, Solid(f), Solid(g)
          PROVE  f.path \notin Up(g.path) /\ g.path \notin Up(f.path)
      <4>1. d \notin Up(g.path) /\ g.path \notin Up(d)
        BY <1>0, <3>1 DEF WalkInv, Solid, d
      <4>2. f.path \notin Up(g.path)
        BY <2>2, <2>3, <4>1, UpClosed
      <4>3. g.path \notin Up(f.path)
        <5>1. Up(f.path) = Up(d) \cup {f.path}
          BY <2>2, UpOfChild
        <5>2. g.path # f.path
          BY <4>2 DEF Up
        <5> QED
          BY <4>1, <5>1, <5>2
      <4> QED
        BY <4>2, <4>3
    <3>2. ASSUME NEW f \in new, NEW g \in new, Solid(f), Solid(g), f.path \in Up(g.path)
          PROVE  f = g
      <4>1. Up(g.path) = Up(d) \cup {g.path} /\ f.path \notin Up(d)
        BY <2>2, UpOfChild, ChildNotUp
      <4>2. f.path = g.path
        BY <3>2, <4>1
      <4>3. f.kind = g.kind
        BY <2>2, <3>2, <4>2 DEF Solid, Kinds, TreeInv, NamesDistinct, IsFile
      <4> QED
        BY <2>2, <4>2, <4>3
    <3>3. ASSUME NEW f \in new, NEW i \in DOMAIN out, Solid(f)
          PROVE  f.path \notin Up(out[i].key)
      <4>1. d \notin Up(out[i].key)
        BY <1>0 DEF WalkInv, Solid, d
      <4> QED
        BY <2>2, <2>4, <4>1, UpClosed
    <3> QED
      BY <1>0, <2>1, <3>1, <3>2, <3>3 DEF WalkInv
  <2>8. CoverInv'
    <3>1. ASSUME NEW k \in steady \cap prefix \cap Listable, Ahead(k)
          PROVE  Ahead(k)'
      <4>1. PICK f \in todo : \/ f.kind = "file" /\ f.path = k
                              \/ f.kind = "dir" /\ f.path \in Up(k) \ {k}
        BY <3>1 DEF Ahead
      <4>2. CASE f # e
        BY <2>1, <4>1, <4>2 DEF Ahead
      <4>3. CASE f = e
        <5>1. d \in Up(k) \ {k}
          BY <1>0, <4>1, <4>3 DEF d
        <5>2. /\ IsFile(k) /\ Up(k) \ {k} \subseteq dirs \cup {Root}
              /\ k \in Seq(STRING) /\ k # Root
          BY <1>0, SteadyIsThere
        <5>3. PICK q \in Up(k) : q # Root /\ Dir(q) = d
          BY <5>1, <5>2, ChildTowards
        <5>4. CASE q = k
          <6>1. Entry(q, "file") \in new
            BY <5>2, <5>3, <5>4, EntriesComplete DEF new
          <6> QED
            BY <2>1, <5>4, <6>1 DEF Ahead, Entry
        <5>5. CASE q # k
          <6>1. Entry(q, "dir") \in new
            BY <5>2, <5>3, <5>5, EntriesComplete DEF new
          <6> QED
            BY <2>1, <5>3, <5>5, <6>1 DEF Ahead, Entry
        <5> QED
          BY <5>4, <5>5
      <4> QED
        BY <4>2, <4>3
    <3> QED
      BY <1>0, <2>1, <3>1 DEF CoverInv
  <2>9. StillThere'
    BY <1>0, <2>1, <2>2 DEF StillThere, IsDir, IsFile
  <2> QED
    BY <1>2, <2>5, <2>6, <2>7, <2>8, <2>9
<1> QED
  BY <1>3, <1>4

(* Visiting a file skips it, or finds it, or fails because it has gone.    *)
LEMMA VisitKeeps ==
  ASSUME IInv, TreeInv, LInv, NEW e \in todo, Visit(e)
  PROVE  LInv'
<1> USE DEF LInv, Walking
<1>0. /\ lpc = "walk" /\ lpc' # "idle" /\ e.kind # "dir" /\ todo' = todo \ {e}
      /\ UNCHANGED <<files, dirs, prefix, after, listed, steady, ever, gone>>
  BY DEF Visit, Turn, vars, history
<1>1. Present' = Present /\ Tags' = Tags
  BY <1>0 DEF Present, Tags
<1>2. PagesInv'
  BY <1>0 DEF PagesInv, PagesAscend
<1>3. \A i \in DOMAIN out : out[i] \in Objects
  BY LenProperties, ElementOfSeq DEF LType
<1>k. Wants(e) => e.kind = "file" /\ e.path \in prefix /\ Rank(KeyOrder, e.path) > after
  <2>1. e.kind \in {"dir", "file", "temp"}
    BY DEF LType, Kinds
  <2> QED
    BY <1>0, <2>1 DEF Wants, TempNamed
<1>4. CASE ~Wants(e)
  <2>1. lpc' = "walk" /\ out' = out
    BY <1>0, <1>4 DEF Visit
  <2>2. LType' /\ HistoryInv' /\ WalkInv' /\ StillThere'
    BY <1>0, <1>1, <2>1 DEF LType, HistoryInv, WalkInv, StillThere, IsFile, IsDir
  <2>3. ASSUME NEW k \in steady \cap prefix \cap Listable, Rank(KeyOrder, k) > after, Ahead(k)
        PROVE  Ahead(k)'
    <3>1. PICK f \in todo : \/ f.kind = "file" /\ f.path = k
                            \/ f.kind = "dir" /\ f.path \in Up(k) \ {k}
      BY <2>3 DEF Ahead
    <3>2. f # e
      BY <1>0, <1>4, <2>3, <3>1 DEF Wants, TempNamed, Listable
    <3> QED
      BY <1>0, <3>1, <3>2 DEF Ahead
  <2>4. CoverInv'
    BY <1>0, <2>1, <2>3 DEF CoverInv
  <2> QED
    BY <1>2, <2>2, <2>4
<1>5. CASE Wants(e) /\ ~(There(e) \/ e.path \in dirs)
  <2>1. lpc' = "failed" /\ out' = out
    BY <1>0, <1>5 DEF Visit
  <2>2. LType' /\ HistoryInv' /\ WalkInv' /\ CoverInv'
    BY <1>0, <1>1, <2>1 DEF LType, HistoryInv, WalkInv, CoverInv
  <2>3. ~IsFile(e.path)
    BY <1>5, <1>k DEF There, Holds, IsFile
  <2>4. StillThere'
    BY <1>0, <1>5, <1>k, <2>1, <2>3 DEF StillThere
  <2> QED
    BY <1>2, <2>2, <2>4
<1>6. CASE Wants(e) /\ (There(e) \/ e.path \in dirs)
  <2> DEFINE o == [key |-> e.path, etag |-> NoTag,
                   size |-> IF IsFile(e.path) THEN Len(files[e.path]) ELSE 0]
  <2>1. lpc' = "etag" /\ out' = Append(out, o)
    BY <1>0, <1>6 DEF Visit
  <2>2. /\ e.kind = "file" /\ e.path \in prefix /\ Rank(KeyOrder, e.path) > after
        /\ e.path \in Keys /\ e.path \in Paths
    BY <1>6, <1>k, AskedFor
  <2>3. o \in Objects
    <3>1. IsFile(e.path) => Len(files[e.path]) \in Nat
      BY CallsAssumption, LenProperties DEF IInv, TypeOK, IsFile
    <3> QED
      BY <2>2, <3>1 DEF Objects
  <2>4. /\ Len(out) \in Nat /\ DOMAIN out = 1..Len(out)
        /\ out' \in Seq(Objects) /\ Len(out') = Len(out) + 1 /\ DOMAIN out' = 1..(Len(out) + 1)
        /\ \A i \in 1..Len(out) : out'[i] = out[i]
        /\ out'[Len(out) + 1] = o
    BY <2>1, <2>3, AppendProperties, LenProperties DEF LType
  <2>5. o.key = e.path
    OBVIOUS
  <2> HIDE DEF o
  <2>6. LType'
    BY <1>0, <2>1, <2>2, <2>4, <2>5 DEF LType
  <2>7. HistoryInv'
    BY <1>0, <1>1, <2>1, <2>4 DEF HistoryInv
  <2>8. WalkInv'
    <3>1. ASSUME NEW f \in todo \ {e}, Solid(f) PROVE f.path \notin Up(e.path)
      BY <1>0, <2>2, <3>1 DEF WalkInv, Solid
    <3>2. ASSUME NEW i \in DOMAIN out PROVE e.path # out[i].key
      BY <1>0, <2>2 DEF WalkInv, Solid, Up
    <3> QED
      BY <1>0, <2>1, <2>4, <2>5, <3>1, <3>2 DEF WalkInv
  <2>9. CoverInv'
    <3>1. ASSUME NEW k \in steady \cap prefix \cap Listable, Ahead(k), k # e.path
          PROVE  Ahead(k)'
      BY <1>0, <3>1 DEF Ahead
    <3>2. \E i \in DOMAIN out' : out'[i].key = e.path
      BY <2>4, <2>5
    <3>3. ASSUME NEW k, NEW i \in DOMAIN out, out[i].key = k
          PROVE  \E j \in DOMAIN out' : out'[j].key = k
      BY <2>4, <3>3
    <3> QED
      BY <1>0, <2>1, <3>1, <3>2, <3>3 DEF CoverInv
  <2>10. StillThere'
    BY <1>0, <2>1, <2>2, <2>4, <2>5 DEF StillThere, IsFile, IsDir
  <2> QED
    BY <1>2, <2>6, <2>7, <2>8, <2>9, <2>10
<1> QED
  BY <1>4, <1>5, <1>6

(* fileETag completes the last object found, or fails because it has gone. *)
LEMMA ReadETagKeeps ==
  ASSUME IInv, TreeInv, LInv, ReadETag
  PROVE  LInv'
<1> USE DEF LInv, Walking
<1> DEFINE n == Len(out)
           p == out[n].key
<1>0. /\ lpc = "etag" /\ lpc' # "idle"
      /\ UNCHANGED <<files, dirs, todo, prefix, after, listed, steady, ever, gone>>
  BY DEF ReadETag, vars, history
<1>1. Present' = Present /\ Tags' = Tags
  BY <1>0 DEF Present, Tags
<1>2. PagesInv'
  BY <1>0 DEF PagesInv, PagesAscend
<1>3. /\ out \in Seq(Objects) /\ n \in Nat \ {0} /\ n \in 1..Len(out) /\ DOMAIN out = 1..n
      /\ \A i \in DOMAIN out : out[i] \in Objects
  BY <1>0, LenProperties, EmptySeq, ElementOfSeq DEF LType
<1>4. p \in prefix /\ p \in Keys /\ keyPath(p) = p /\ p \in Paths
  BY <1>0, <1>3, AskedFor DEF LType
<1>5. CASE Probe(p) # "file"
  <2>1. lpc' = "failed" /\ out' = out
    BY <1>0, <1>5 DEF ReadETag, Last
  <2>2. LType' /\ HistoryInv' /\ WalkInv' /\ CoverInv'
    BY <1>0, <1>1, <2>1 DEF LType, HistoryInv, WalkInv, CoverInv
  <2>3. ~IsFile(p)
    <3>1. SUFFICES ASSUME IsFile(p) PROVE Probe(p) = "file"
      BY <1>5
    <3>2. Ancestors(p) \subseteq dirs /\ p \notin dirs
      BY <3>1 DEF TreeInv, ParentsExist, NamesDistinct, IsFile
    <3>3. \A a \in Ancestors(p) : ~IsFile(a)
      BY <3>2 DEF TreeInv, NamesDistinct, IsFile
    <3> QED
      BY <3>1, <3>2, <3>3 DEF Probe
  <2>4. StillThere'
    BY <1>0, <2>1, <2>3 DEF StillThere
  <2> QED
    BY <1>2, <2>2, <2>4
<1>6. CASE Probe(p) = "file"
  <2> DEFINE o == [out[n] EXCEPT !.etag = ETag(files[p])]
  <2>1. lpc' = "walk" /\ out' = [out EXCEPT ![n] = o]
    BY <1>0, <1>6 DEF ReadETag, Last
  <2>2. IsFile(p)
    BY <1>6 DEF Probe
  <2>3. files[p] \in Bodies
    BY <2>2 DEF IsFile, IInv, TypeOK
  <2>4. o \in Objects /\ o.key = p /\ o.etag = ETag(files[p])
    BY <1>3, <2>3 DEF Objects, ETags
  <2>5. <<p, ETag(files[p])>> \in ever
    BY <1>0, <1>4, <2>2 DEF HistoryInv, Tags, Present, IsFile
  <2> HIDE DEF o
  <2>6. /\ out' \in Seq(Objects) /\ Len(out') = n /\ DOMAIN out' = 1..n
        /\ \A i \in 1..n : out'[i] = IF i = n THEN o ELSE out[i]
    BY <1>3, <2>1, <2>4, ExceptSeq, LenProperties
  <2>7. \A i \in 1..n : out'[i].key = out[i].key
    BY <1>3, <2>4, <2>6
  <2> HIDE DEF n, p
  <2>8. LType'
    BY <1>0, <1>3, <2>1, <2>6, <2>7 DEF LType
  <2>9. HistoryInv'
    <3>1. ASSUME NEW i \in 1..n PROVE <<out'[i].key, out'[i].etag>> \in ever
      <4>1. CASE i = n
        BY <2>4, <2>5, <2>6, <4>1
      <4>2. CASE i # n
        BY <1>0, <1>3, <2>6, <4>2 DEF HistoryInv, n
      <4> QED
        BY <4>1, <4>2
    <3> QED
      BY <1>0, <1>1, <2>1, <2>6, <3>1 DEF HistoryInv
  <2>10. WalkInv' /\ CoverInv'
    BY <1>0, <1>3, <2>1, <2>6, <2>7 DEF WalkInv, CoverInv, Ahead
  <2>11. StillThere'
    BY <1>0, <2>1 DEF StillThere, IsDir, IsFile
  <2> QED
    BY <1>2, <2>8, <2>9, <2>10, <2>11
<1> QED
  BY <1>5, <1>6

(* The caller's own steps: no walk is under way, and the pages stay or are *)
(* forgotten.                                                              *)
LEMMA CallerKeeps ==
  ASSUME IInv, TreeInv, LInv, Begin \/ Listing \/ Forget
  PROVE  LInv'
<1> USE DEF LInv, Walking
<1>0. files' = files /\ dirs' = dirs
  BY DEF Begin, Listing, Forget, vars
<1>1. Present' = Present /\ Tags' = Tags /\ Present \subseteq Keys
  BY <1>0 DEF Present, Tags
<1>2. \A k \in Keys : Rank(KeyOrder, k) \in Nat \ {0}
  BY RankFacts
<1>3. <<>> \in Seq(Objects) /\ DOMAIN <<>> = {} /\ Len(<<>>) = 0
  BY EmptySeq
<1>4. CASE Begin \/ Forget
  <2>1. /\ lpc' \in {"idle", "call"} /\ after' = 0 /\ listed' = <<>>
        /\ out' \in {out, <<>>} /\ todo' \subseteq todo /\ prefix' \in Prefixes \cup {{}}
        /\ steady' \subseteq Present /\ gone' \in BOOLEAN
        /\ lpc' = "call" => ever' = Tags
    BY <1>4, <1>1 DEF Begin, Forget, LType
  <2>2. LType' /\ HistoryInv'
    BY <1>0, <1>1, <1>3, <2>1 DEF LType, HistoryInv
  <2>3. WalkInv' /\ StillThere'
    BY <2>1 DEF WalkInv, StillThere
  <2>4. CoverInv'
    BY <1>1, <1>2, <2>1 DEF CoverInv
  <2>5. PagesInv'
    BY <1>3, <2>1 DEF PagesInv, PagesAscend
  <2> QED
    BY <2>2, <2>3, <2>4, <2>5
<1>5. CASE Listing
  <2>1. /\ lpc = "call" /\ lpc' \in {"ctx", "walk"} /\ out' = <<>> /\ gone' = FALSE
        /\ lpc' = "walk" => todo' = {Entry(Root, "dir")}
        /\ lpc' = "ctx" => todo' = todo
        /\ UNCHANGED <<prefix, after, listed, steady, ever>>
    BY <1>5 DEF Listing
  <2>0. Entry(Root, "dir").path = Root /\ Entry(Root, "dir").kind = "dir"
    BY DEF Entry
  <2>2. LType'
    <3>1. \A f \in todo' : /\ f.kind \in Kinds /\ f = Entry(f.path, f.kind)
                           /\ f.kind = "dir"  => f.path \in DirPaths \cup {Root}
                           /\ f.kind # "dir" => f.path \in Paths
      BY <2>1, <2>0 DEF LType, Kinds
    <3> QED
      BY <1>3, <2>1, <3>1 DEF LType
  <2>3. HistoryInv'
    BY <1>1, <1>3, <2>1 DEF HistoryInv
  <2>4. WalkInv' /\ PagesInv'
    BY <1>3, <2>1 DEF WalkInv, PagesInv, PagesAscend
  <2>5. CoverInv'
    <3>1. ASSUME NEW k \in steady \cap prefix \cap Listable, lpc' = "walk" PROVE Ahead(k)'
      <4>1. k # Root
        BY <2>1, SteadyIsThere
      <4> QED
        BY <2>1, <2>0, <3>1, <4>1 DEF Ahead, Up
    <3> QED
      BY <2>1, <3>1 DEF CoverInv
  <2>6. StillThere'
    BY <2>1 DEF StillThere, Entry, IsDir
  <2> QED
    BY <2>2, <2>3, <2>4, <2>5, <2>6
<1> QED
  BY <1>4, <1>5

(* A sequence of objects.                                                  *)
LEMMA ObjectsSeq ==
  ASSUME NEW s \in Seq(Objects)
  PROVE  /\ Len(s) \in Nat /\ DOMAIN s = 1..Len(s)
         /\ \A i \in 1..Len(s) : s[i] \in Objects /\ s[i].key \in Keys
<1>1. Len(s) \in Nat /\ DOMAIN s = 1..Len(s)
  BY LenProperties
<1>2. \A i \in 1..Len(s) : s[i] \in Objects
  BY ElementOfSeq
<1> QED
  BY <1>1, <1>2 DEF Objects

(* An interval from 1 has one end.                                         *)
LEMMA IntervalEnd ==
  ASSUME NEW a \in Nat, NEW b \in Nat, 1..a = 1..b
  PROVE  a = b
<1>1. CASE a = 0
  <2>1. 1 \notin 1..a
    BY <1>1
  <2> QED
    BY <1>1, <2>1
<1>2. CASE a # 0
  <2>1. a \in 1..b /\ a + 1 \notin 1..b
    BY <1>2
  <2> QED
    BY <2>1
<1> QED
  BY <1>1, <1>2

(* A page is the first objects found, in the order of their keys: it has   *)
(* nothing twice, leaves out only what comes after it, and is empty only   *)
(* if nothing was found.                                                   *)
LEMMA PageFacts ==
  ASSUME LInv, lpc = "walk", NEW page \in Pages
  PROVE  /\ page \in Seq(Objects) /\ Len(page) \in Nat /\ DOMAIN page = 1..Len(page)
         /\ page = <<>> => out = <<>>
         /\ \A i \in DOMAIN page : \E j \in DOMAIN out : page[i] = out[j]
         /\ \A i, j \in DOMAIN page :
              i < j => Rank(KeyOrder, page[i].key) < Rank(KeyOrder, page[j].key)
         /\ \A j \in DOMAIN out :
              \/ \E i \in DOMAIN page : page[i] = out[j]
              \/ page # <<>> /\ Rank(KeyOrder, out[j].key) > Rank(KeyOrder, page[Len(page)].key)
<1> DEFINE n == Len(out)
           m == IF n > MaxKeys THEN MaxKeys ELSE n
           R(o) == Rank(KeyOrder, o.key)
<1>1. /\ n \in Nat /\ out \in Seq(Objects) /\ DOMAIN out = 1..n
      /\ \A i \in 1..n : out[i] \in Objects /\ out[i].key \in Keys
  <2>1. out \in Seq(Objects)
    BY DEF LInv, LType
  <2> QED
    BY <2>1, ObjectsSeq
<1> HIDE DEF n
<1>2. PICK t \in Sorts(out) : page = Cut(t)
  BY DEF Pages
<1>3. PICK f \in Bijection(1..n, 1..n) : t = [i \in 1..n |-> out[f[i]]]
  BY <1>1, <1>2 DEF Sorts
<1>4. /\ f \in [1..n -> 1..n]
      /\ \A i, j \in 1..n : f[i] = f[j] => i = j
      /\ \A j \in 1..n : \E i \in 1..n : f[i] = j
  BY <1>3 DEF Bijection, Injection, Surjection, IsInjective
<1>5. t \in [1..n -> Objects] /\ \A i \in 1..n : t[i] = out[f[i]] /\ t[i].key \in Keys
  BY <1>1, <1>3, <1>4
<1>6. t \in Seq(Objects) /\ Len(t) = n
  <2>1. t \in Seq(Objects)
    BY <1>1, <1>5, SeqDef
  <2>2. Len(t) \in Nat /\ DOMAIN t = 1..Len(t) /\ DOMAIN t = 1..n
    BY <1>5, <2>1, LenProperties
  <2> QED
    BY <1>1, <2>1, <2>2, IntervalEnd
<1>7. \A i, j \in 1..n : i < j => R(t[i]) < R(t[j])
  <2> SUFFICES ASSUME NEW i \in 1..n, NEW j \in 1..n, i < j PROVE R(t[i]) < R(t[j])
    OBVIOUS
  <2>1. R(t[i]) <= R(t[j])
    BY <1>1, <1>2 DEF Sorts
  <2>2. t[i].key # t[j].key
    <3>1. f[i] \in DOMAIN out /\ f[j] \in DOMAIN out /\ f[i] # f[j]
      BY <1>1, <1>4
    <3>2. out[f[i]].key # out[f[j]].key
      BY <3>1 DEF LInv, WalkInv, Walking
    <3> QED
      BY <1>5, <3>2
  <2>3. R(t[i]) \in Nat /\ R(t[j]) \in Nat /\ R(t[i]) # R(t[j])
    BY <1>5, <2>2, RankFacts, RankInjective
  <2> QED
    BY <2>1, <2>3
<1>8. m \in Nat /\ m <= n /\ (m = 0 <=> n = 0)
  BY <1>1, OrderAssumption
<1>9. page = SubSeq(t, 1, m)
  BY <1>2, <1>6 DEF Cut
<1> HIDE DEF m
<1>10. /\ page \in Seq(Objects) /\ Len(page) = m /\ DOMAIN page = 1..m
       /\ \A i \in 1..m : page[i] = t[i]
  <2>1. page \in Seq(Objects) /\ Len(page) = m /\ \A i \in 1..m : page[i] = t[i]
    BY <1>1, <1>5, <1>6, <1>8, <1>9, SubSeqProperties
  <2> QED
    BY <2>1, LenProperties
<1>11. page = <<>> => out = <<>>
  <2>1. page = <<>> => m = 0
    BY <1>10, EmptySeq
  <2> QED
    BY <1>1, <1>8, <2>1, EmptySeq DEF n
<1>12. ASSUME NEW j \in DOMAIN out
       PROVE  \/ \E i \in DOMAIN page : page[i] = out[j]
              \/ page # <<>> /\ R(out[j]) > R(page[Len(page)])
  <2>1. PICK i \in 1..n : t[i] = out[j]
    BY <1>1, <1>4, <1>5
  <2>2. CASE i <= m
    BY <1>8, <1>10, <2>1, <2>2
  <2>3. CASE i > m
    <3>1. m \in 1..n /\ m < i
      BY <1>1, <1>8, <2>3
    <3>2. R(t[m]) < R(t[i])
      BY <1>7, <3>1
    <3>3. R(t[m]) \in Nat /\ R(t[i]) \in Nat
      BY <1>5, <3>1, RankFacts
    <3>4. page[Len(page)] = t[m] /\ page # <<>>
      BY <1>10, <3>1
    <3> QED
      BY <2>1, <3>2, <3>3, <3>4
  <2> QED
    BY <1>1, <1>8, <2>2, <2>3
<1>13. \A i, j \in DOMAIN page : i < j => R(page[i]) < R(page[j])
  BY <1>7, <1>8, <1>10, <1>1
<1>14. \A i \in DOMAIN page : \E j \in DOMAIN out : page[i] = out[j]
  <2> SUFFICES ASSUME NEW i \in 1..m PROVE \E j \in 1..n : page[i] = out[j]
    BY <1>1, <1>10
  <2>1. i \in 1..n
    BY <1>1, <1>8
  <2>2. f[i] \in 1..n /\ page[i] = out[f[i]]
    BY <1>4, <1>5, <1>10, <2>1
  <2> QED
    BY <2>2
<1> QED
  BY <1>8, <1>10, <1>11, <1>12, <1>13, <1>14

(* A page is added, and the next one begins after it.                      *)
LEMMA EndPageKeeps ==
  ASSUME IInv, TreeInv, LInv, EndPage
  PROVE  LInv'
<1> USE DEF LInv, Walking
<1> DEFINE R(o) == Rank(KeyOrder, o.key)
           L == Len(listed)
<1>0. /\ lpc = "walk" /\ todo = {} /\ out' = <<>>
      /\ UNCHANGED <<files, dirs, prefix, todo, steady, ever, gone>>
  BY DEF EndPage, vars, history
<1>1. Present' = Present /\ Tags' = Tags
  BY <1>0 DEF Present, Tags
<1>2. PICK page \in Pages :
        /\ listed' = listed \o page
        /\ page = <<>> => lpc' = "over" /\ after' = after
        /\ page # <<>> => lpc' = "call" /\ after' = R(page[Len(page)])
  BY DEF EndPage, Last
<1> DEFINE P == Len(page)
<1>3. /\ page \in Seq(Objects) /\ P \in Nat /\ DOMAIN page = 1..P
      /\ page = <<>> => out = <<>>
      /\ \A i \in DOMAIN page : \E j \in DOMAIN out : page[i] = out[j]
      /\ \A i, j \in DOMAIN page : i < j => R(page[i]) < R(page[j])
      /\ \A j \in DOMAIN out :
           \/ \E i \in DOMAIN page : page[i] = out[j]
           \/ page # <<>> /\ R(out[j]) > R(page[Len(page)])
  BY <1>0, PageFacts
<1>4. L \in Nat /\ DOMAIN listed = 1..L /\ \A i \in 1..L : listed[i].key \in Keys
  BY ObjectsSeq DEF LType
<1>5. \A i \in 1..P : page[i].key \in Keys /\ R(page[i]) \in Nat /\ R(page[i]) > after
  BY <1>0, <1>3, AskedFor, RankFacts DEF LType
<1>6. /\ listed' \in Seq(Objects) /\ Len(listed') = L + P /\ DOMAIN listed' = 1..(L + P)
      /\ \A i \in 1..(L + P) : listed'[i] = IF i <= L THEN listed[i] ELSE page[i - L]
  BY <1>2, <1>3, ConcatProperties, LenProperties DEF LType
<1>7. P = 0 <=> page = <<>>
  BY <1>3, EmptySeq
<1>8. after' \in Nat /\ after <= after'
  BY <1>2, <1>3, <1>5, <1>7 DEF LType
<1>9. lpc' \in {"over", "call"}
  BY <1>2
<1> HIDE DEF L, P
<1>10. /\ \A i \in 1..L : i \in 1..(L + P) /\ listed'[i] = listed[i]
       /\ \A i \in 1..P : L + i \in 1..(L + P) /\ listed'[L + i] = page[i]
  BY <1>3, <1>4, <1>6
<1>11. LType'
  BY <1>0, <1>6, <1>8, <1>9 DEF LType
<1>12. HistoryInv'
  <2>1. ASSUME NEW i \in 1..P PROVE <<page[i].key, page[i].etag>> \in ever
    BY <1>0, <1>3 DEF HistoryInv
  <2>2. ASSUME NEW i \in 1..L PROVE <<listed[i].key, listed[i].etag>> \in ever
    BY <1>0, <1>4 DEF HistoryInv
  <2>3. ASSUME NEW i \in 1..(L + P) PROVE <<listed'[i].key, listed'[i].etag>> \in ever
    <3>1. CASE i <= L
      BY <1>4, <1>6, <2>2, <3>1
    <3>2. CASE i > L
      <4>1. i - L \in 1..P
        BY <1>3, <1>4, <3>2
      <4> QED
        BY <1>4, <1>6, <2>1, <3>2, <4>1
    <3> QED
      BY <1>4, <3>1, <3>2
  <2> QED
    BY <1>0, <1>1, <1>6, <1>9, <2>3 DEF HistoryInv
<1>13. WalkInv' /\ StillThere'
  BY <1>9 DEF WalkInv, StillThere
<1>14. PagesInv'
  <2>1. ASSUME NEW i \in 1..(L + P - 1) PROVE R(listed'[i]) < R(listed'[i + 1])
    <3>1. CASE i < L
      <4>0. i \in 1..(L - 1) /\ i \in 1..L /\ i + 1 \in 1..L
        BY <1>4, <3>1
      <4>1. listed'[i] = listed[i] /\ listed'[i + 1] = listed[i + 1]
        BY <1>10, <4>0
      <4> QED
        BY <4>0, <4>1 DEF PagesInv, PagesAscend, L
    <3>2. CASE i = L
      <4>0. P \in Nat /\ L \in Nat /\ L # 0 /\ L \in 1..L /\ 1 \in 1..P
        <5>1. P \in Nat /\ L \in Nat /\ i \in 1..(L + P - 1)
          BY <1>3, <1>4
        <5> QED
          BY <3>2, <5>1
      <4>1. 1 \in 1..P /\ listed'[i] = listed[L] /\ listed'[i + 1] = page[1] /\ L # 0
        BY <1>10, <3>2, <4>0
      <4>2. R(listed[L]) = after
        BY <4>1 DEF PagesInv, L
      <4> QED
        BY <1>5, <4>1, <4>2
    <3>3. CASE i > L
      <4>1. /\ i - L \in 1..P /\ i + 1 - L \in 1..P /\ i - L < i + 1 - L
            /\ listed'[i] = page[i - L] /\ listed'[i + 1] = page[i + 1 - L]
        BY <1>3, <1>4, <1>6, <3>3
      <4> QED
        BY <1>3, <4>1
    <3> QED
      BY <1>4, <3>1, <3>2, <3>3
  <2>2. PagesAscend'
    <3>1. Len(listed') - 1 = L + P - 1
      BY <1>3, <1>4, <1>6
    <3>2. \A i \in 1..(Len(listed') - 1) : R(listed'[i]) < R(listed'[i + 1])
      BY <2>1, <3>1
    <3> QED
      BY <3>2 DEF PagesAscend
  <2>3. CASE page = <<>>
    <3>1. P = 0 /\ listed' = listed
      BY <1>2, <1>7, <2>3, ConcatEmptySeq DEF LType
    <3> QED
      BY <1>2, <2>3, <3>1 DEF PagesInv, PagesAscend
  <2>4. CASE page # <<>>
    <3>1. P \in 1..P /\ listed'[L + P] = page[P] /\ Len(listed') = L + P
      BY <1>3, <1>6, <1>7, <1>10, <2>4
    <3>2. after' = R(listed'[Len(listed')])
      BY <1>2, <2>4, <3>1 DEF P
    <3> QED
      BY <1>9, <2>2, <3>2 DEF PagesInv
  <2> QED
    BY <2>3, <2>4
<1>15. CoverInv'
  <2> SUFFICES ASSUME NEW k \in steady \cap prefix \cap Listable
               PROVE  Rank(KeyOrder, k) <= after' \/ page = <<>> =>
                        \E i \in DOMAIN listed' : listed'[i].key = k
    BY <1>0, <1>2, <1>9 DEF CoverInv
  <2>0. Rank(KeyOrder, k) \in Nat
    BY AskedFor, RankFacts
  <2>1. CASE Rank(KeyOrder, k) <= after
    <3>1. \E i \in 1..L : listed[i].key = k
      BY <1>4, <2>1 DEF CoverInv
    <3> QED
      BY <1>6, <1>10, <3>1
  <2>2. CASE Rank(KeyOrder, k) > after
    <3>1. PICK j \in DOMAIN out : out[j].key = k
      BY <1>0, <2>2 DEF CoverInv, Ahead
    <3>2. page # <<>>
      BY <1>3, <3>1
    <3>3. CASE \E i \in DOMAIN page : page[i] = out[j]
      BY <1>3, <1>6, <1>10, <3>1, <3>3
    <3>4. CASE R(out[j]) > R(page[Len(page)])
      BY <1>2, <1>8, <2>0, <3>1, <3>2, <3>4
    <3> QED
      BY <1>3, <3>3, <3>4
  <2> QED
    BY <2>0, <2>1, <2>2 DEF LType
<1> QED
  BY <1>11, <1>12, <1>13, <1>14, <1>15

(* The other operations change the tree and its history, and nothing that  *)
(* the walk has.                                                           *)
LEMMA OthersKeep ==
  ASSUME IInv, TreeInv, LInv, Others
  PROVE  LInv'
<1> USE DEF LInv, Walking
<1>0. UNCHANGED <<lpc, prefix, after, todo, out, listed>>
  BY DEF Others, walk
<1>1. CASE lpc = "idle"
  BY <1>0, <1>1 DEF Others, history, LType, HistoryInv, WalkInv, CoverInv, PagesInv,
     PagesAscend, StillThere
<1>2. CASE lpc # "idle"
  <2>1. /\ steady' = steady \cap Present' /\ ever' = ever \cup Tags'
        /\ gone' = (gone \/ ~(Present \subseteq Present') \/ ~(dirs \subseteq dirs'))
    BY <1>2 DEF Others
  <2>2. LType'
    BY <1>0, <2>1 DEF LType
  <2>3. HistoryInv' /\ WalkInv'
    BY <1>0, <2>1 DEF HistoryInv, WalkInv
  <2>4. CoverInv' /\ PagesInv'
    BY <1>0, <2>1 DEF CoverInv, Ahead, PagesInv, PagesAscend
  <2>5. StillThere'
    <3>1. ASSUME NEW p, IsFile(p), Present \subseteq Present' PROVE IsFile(p)'
      <4>1. PICK k \in Keys : p = keyPath(k)
        BY <3>1 DEF IsFile, Paths
      <4> QED
        BY <3>1, <4>1 DEF IsFile, Present
    <3>2. ASSUME NEW p, IsDir(p), dirs \subseteq dirs' PROVE IsDir(p)'
      BY <3>2 DEF IsDir
    <3>3. ~gone' => ~gone /\ Present \subseteq Present' /\ dirs \subseteq dirs'
      BY <2>1
    <3> QED
      BY <1>0, <2>1, <3>1, <3>2, <3>3 DEF StillThere
  <2> QED
    BY <2>2, <2>3, <2>4, <2>5
<1> QED
  BY <1>1, <1>2

(* Every step keeps the invariants of the tree and of the enumeration.     *)
LEMMA ListInductive == LSpec => [](IInv /\ TreeInv /\ LInv)
<1> DEFINE Inv == IInv /\ TreeInv /\ LInv
<1>1. LInit => Inv
  <2> SUFFICES ASSUME LInit PROVE Inv
    OBVIOUS
  <2>1. IInv
    BY InitIInv DEF LInit
  <2>2. TreeInv
    BY DEF LInit, Init, TreeInv, ParentsExist, NamesDistinct, CursorOnPath, SpoolHasTemp
  <2>3. <<>> \in Seq(Objects) /\ DOMAIN <<>> = {} /\ Len(<<>>) = 0
    BY EmptySeq
  <2>4. LType
    BY <2>3 DEF LInit, LType, Walking
  <2>5. HistoryInv /\ WalkInv /\ CoverInv /\ StillThere
    BY DEF LInit, HistoryInv, WalkInv, CoverInv, StillThere, Walking
  <2>6. PagesInv
    BY <2>3 DEF LInit, PagesInv, PagesAscend
  <2> QED
    BY <2>1, <2>2, <2>4, <2>5, <2>6 DEF LInv
<1>2. Inv /\ [LNext]_lvars => Inv'
  <2> SUFFICES ASSUME Inv, [LNext]_lvars PROVE Inv'
    OBVIOUS
  <2>1. [Next]_vars
    BY DEF LNext, Begin, Listing, ReadDir, Visit, ReadETag, EndPage, Forget, Others, Next, lvars
  <2>2. IInv' /\ TreeInv'
    BY <2>1, NextTypeOK, NextCallFits, NextMutexOwned, NextTemp, NextParents, NextCursor,
       NextSpool DEF IInv, TreeInv
  <2>3. LInv'
    <3>1. CASE UNCHANGED lvars
      <4>1. UNCHANGED <<files, dirs, lpc, prefix, after, todo, out, listed, steady, ever, gone>>
        BY <3>1 DEF lvars, vars, walk, history
      <4>2. Present' = Present /\ Tags' = Tags
        BY <4>1 DEF Present, Tags
      <4>3. LType' /\ HistoryInv' /\ WalkInv'
        BY <4>1, <4>2 DEF LInv, LType, HistoryInv, WalkInv, Walking
      <4>4. CoverInv' /\ PagesInv' /\ StillThere'
        BY <4>1, <4>2 DEF LInv, CoverInv, Ahead, PagesInv, PagesAscend, StillThere,
           Walking, IsDir, IsFile
      <4> QED
        BY <4>3, <4>4 DEF LInv
    <3> QED
      BY <3>1, ReadDirKeeps, VisitKeeps, ReadETagKeeps, CallerKeeps, EndPageKeeps, OthersKeep
      DEF LNext
  <2> QED
    BY <2>2, <2>3
<1> QED
  BY <1>1, <1>2, PTL DEF LSpec

(***************************************************************************)
(* List (fs.go:209-268) followed from page to page returns keys in         *)
(* strictly ascending order, for every tree and page size and whatever is  *)
(* written and deleted meanwhile: no key comes twice.                      *)
(***************************************************************************)
THEOREM PagesInOrder == LSpec => []PagesAscend
<1>1. LInv => PagesAscend
  BY DEF LInv, PagesInv
<1> QED
  BY <1>1, ListInductive, PTL

(***************************************************************************)
(* An enumeration that ends has every key with its prefix that existed     *)
(* from its first page to its last, but for those whose last segment has   *)
(* ".tmp." in it (fs.go:229), although the walk of fs.go:215 holds no lock *)
(* and its order is not that of the keys.                                  *)
(***************************************************************************)
THEOREM EnumerationComplete == LSpec => []NoneMissed
<1>1. LInv => NoneMissed
  BY DEF LInv, CoverInv, NoneMissed
<1> QED
  BY <1>1, ListInductive, PTL

(***************************************************************************)
(* Every listed object existed, with the tag it is listed with, at some    *)
(* time during the enumeration (fileETag, fs.go:247), for any number of    *)
(* writers.                                                                *)
(***************************************************************************)
THEOREM ListedWereThere == LSpec => []ListedExisted
<1>1. LInv => ListedExisted
  <2> SUFFICES ASSUME LInv PROVE ListedExisted
    OBVIOUS
  <2>1. CASE lpc = "idle"
    BY <2>1 DEF LInv, PagesInv, ListedExisted
  <2>2. CASE lpc # "idle"
    BY <2>2 DEF LInv, HistoryInv, ListedExisted
  <2> QED
    BY <2>1, <2>2
<1> QED
  BY <1>1, ListInductive, PTL

(***************************************************************************)
(* List fails only when a file or directory has been removed since it      *)
(* began: creating and replacing objects, and the temp files of writers,   *)
(* never make it fail.                                                     *)
(***************************************************************************)
THEOREM OnlyRemovalFailsList == LSpec => []FailsOnlyBesideRemoval
<1>1. LInv => FailsOnlyBesideRemoval
  BY DEF LInv, StillThere, FailsOnlyBesideRemoval
<1> QED
  BY <1>1, ListInductive, PTL
============================================================================
