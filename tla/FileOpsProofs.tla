--------------------------- MODULE FileOpsProofs ---------------------------
(***************************************************************************)
(* Proofs about FileOps, for any tree, any requests and any number of them *)
(* at once.                                                                *)
(*                                                                         *)
(* TreeInv is the invariant the rest stands on: types, which request is at *)
(* which step and how much of its staging file is there (Routed, Filled),  *)
(* and the shape of the tree (what is there is in directories, and so is   *)
(* every staging file).  FilesInv adds where the files of a request come   *)
(* from, HandInv who is about to hand over what the relay still owns.      *)
(***************************************************************************)
EXTENDS FileOps, SequenceTheorems, WellFoundedInduction, TLAPS

-----------------------------------------------------------------------------
(* Paths.                                                                  *)

\* A prefix, element by element.
LEMMA PrefixIs ==
  ASSUME NEW s \in Seq(Names), NEW t \in Seq(Names)
  PROVE  IsPrefix(s, t) <=> Len(s) <= Len(t) /\ \A i \in 1 .. Len(s) : s[i] = t[i]
<1>1. CASE Len(s) <= Len(t)
  <2>1. SubSeq(s, 1, Len(s)) \in Seq(Names) /\ SubSeq(t, 1, Len(s)) \in Seq(Names)
        /\ Len(SubSeq(s, 1, Len(s))) = Len(s) /\ Len(SubSeq(t, 1, Len(s))) = Len(s)
    BY <1>1
  <2>2. \A i \in 1 .. Len(s) : SubSeq(s, 1, Len(s))[i] = s[i] /\ SubSeq(t, 1, Len(s))[i] = t[i]
    BY <1>1
  <2>3. ASSUME \A i \in 1 .. Len(s) : s[i] = t[i]
        PROVE  SubSeq(s, 1, Len(s)) = SubSeq(t, 1, Len(s))
    BY <2>1, <2>2, <2>3, SeqEqual
  <2> QED BY <1>1, <2>2, <2>3 DEF IsPrefix
<1>2. CASE ~(Len(s) <= Len(t))
  BY <1>2 DEF IsPrefix
<1> QED BY <1>1, <1>2

\* The first i elements of a path.
LEMMA CutIs ==
  ASSUME NEW p \in Seq(Names), NEW i \in 0 .. Len(p)
  PROVE  /\ SubSeq(p, 1, i) \in Seq(Names) /\ Len(SubSeq(p, 1, i)) = i
         /\ \A j \in 1 .. i : SubSeq(p, 1, i)[j] = p[j]
         /\ IsPrefix(SubSeq(p, 1, i), p)
<1> DEFINE c == SubSeq(p, 1, i)
<1>1. c \in Seq(Names) /\ Len(c) = i /\ \A j \in 1 .. i : c[j] = p[j]
  OBVIOUS
<1> HIDE DEF c
<1>2. IsPrefix(c, p)
  BY <1>1, PrefixIs
<1> QED BY <1>1, <1>2 DEF c

\* A prefix of known length is the cut at that length.
LEMMA PrefixIsCut ==
  ASSUME NEW s \in Seq(Names), NEW t \in Seq(Names), IsPrefix(s, t)
  PROVE  s = SubSeq(t, 1, Len(s))
<1>1. Len(s) \in 0 .. Len(t) /\ \A i \in 1 .. Len(s) : s[i] = t[i]
  BY PrefixIs
<1>2. /\ SubSeq(t, 1, Len(s)) \in Seq(Names) /\ Len(SubSeq(t, 1, Len(s))) = Len(s)
      /\ \A j \in 1 .. Len(s) : SubSeq(t, 1, Len(s))[j] = t[j]
  BY <1>1, CutIs
<1> QED BY <1>1, <1>2, SeqEqual

\* A prefix of a prefix is a prefix.
LEMMA PrefixTransitive ==
  ASSUME NEW s \in Seq(Names), NEW t \in Seq(Names), NEW u \in Seq(Names),
         IsPrefix(s, t), IsPrefix(t, u)
  PROVE  IsPrefix(s, u)
BY PrefixIs

\* Two prefixes of one path lie on one line.
LEMMA PrefixesAlign ==
  ASSUME NEW s \in Seq(Names), NEW t \in Seq(Names), NEW u \in Seq(Names),
         IsPrefix(s, u), IsPrefix(t, u), Len(s) <= Len(t)
  PROVE  IsPrefix(s, t)
BY PrefixIs

\* What a rebased path is made of.
LEMMA RebasedIs ==
  ASSUME NEW q \in Seq(Names), NEW from \in Seq(Names), NEW to \in Seq(Names),
         IsPrefix(from, q)
  PROVE  /\ Rebased(q, from, to) \in Seq(Names)
         /\ Len(Rebased(q, from, to)) = Len(to) + (Len(q) - Len(from))
         /\ \A i \in 1 .. Len(to) : Rebased(q, from, to)[i] = to[i]
         /\ \A i \in 1 .. Len(q) - Len(from) :
              Rebased(q, from, to)[Len(to) + i] = q[Len(from) + i]
         /\ IsPrefix(to, Rebased(q, from, to))
<1> DEFINE t == SubSeq(q, Len(from) + 1, Len(q))
           r == to \o t
<1>1. Len(from) <= Len(q)
  BY PrefixIs
<1>2. /\ t \in Seq(Names) /\ Len(t) = Len(q) - Len(from)
      /\ \A i \in 1 .. Len(q) - Len(from) : t[i] = q[Len(from) + i]
  BY <1>1
<1> HIDE DEF t
<1>3. /\ r \in Seq(Names) /\ Len(r) = Len(to) + Len(t)
      /\ \A i \in 1 .. Len(to) : r[i] = to[i]
      /\ \A i \in 1 .. Len(t) : r[Len(to) + i] = t[i]
  <2>1. r \in Seq(Names) /\ Len(r) = Len(to) + Len(t)
    BY <1>2, ConcatProperties
  <2>2. \A i \in 1 .. Len(r) : r[i] = IF i <= Len(to) THEN to[i] ELSE t[i - Len(to)]
    BY <1>2
  <2>3. Len(to) \in Nat /\ Len(t) \in Nat
    BY <1>2
  <2> HIDE DEF r
  <2>4. ASSUME NEW i \in 1 .. Len(t) PROVE r[Len(to) + i] = t[i]
    <3>1. Len(to) + i \in 1 .. Len(r) /\ ~(Len(to) + i <= Len(to)) /\ (Len(to) + i) - Len(to) = i
      BY <2>1, <2>3
    <3> QED BY <2>2, <3>1
  <2> QED BY <2>1, <2>2, <2>3, <2>4
<1>4. Rebased(q, from, to) = r
  BY DEF Rebased, t
<1> HIDE DEF r
<1>5. IsPrefix(to, r)
  <2>1. r \in Seq(Names) /\ Len(to) <= Len(r) /\ \A i \in 1 .. Len(to) : to[i] = r[i]
    BY <1>2, <1>3
  <2> QED BY <2>1, PrefixIs
<1> QED BY <1>2, <1>3, <1>4, <1>5

\* Rebasing can be undone.
LEMMA RebasedBack ==
  ASSUME NEW q \in Seq(Names), NEW from \in Seq(Names), NEW to \in Seq(Names),
         IsPrefix(from, q)
  PROVE  Rebased(Rebased(q, from, to), to, from) = q
<1> DEFINE r == Rebased(q, from, to)
<1>1. /\ r \in Seq(Names) /\ Len(r) = Len(to) + (Len(q) - Len(from)) /\ IsPrefix(to, r)
      /\ \A i \in 1 .. Len(q) - Len(from) : r[Len(to) + i] = q[Len(from) + i]
  BY RebasedIs
<1>2. Len(from) <= Len(q) /\ \A i \in 1 .. Len(from) : from[i] = q[i]
  BY PrefixIs
<1> HIDE DEF r
<1> DEFINE b == Rebased(r, to, from)
<1>3. /\ b \in Seq(Names) /\ Len(b) = Len(from) + (Len(r) - Len(to))
      /\ \A i \in 1 .. Len(from) : b[i] = from[i]
      /\ \A i \in 1 .. Len(r) - Len(to) : b[Len(from) + i] = r[Len(to) + i]
  BY <1>1, RebasedIs
<1> HIDE DEF b
<1>4. Len(b) = Len(q) /\ Len(r) - Len(to) = Len(q) - Len(from)
  BY <1>1, <1>2, <1>3
<1>5. ASSUME NEW i \in 1 .. Len(q) PROVE b[i] = q[i]
  <2>1. CASE i <= Len(from)
    BY <1>2, <1>3, <2>1
  <2>2. CASE i > Len(from)
    <3>1. i - Len(from) \in 1 .. Len(q) - Len(from) /\ Len(from) + (i - Len(from)) = i
      BY <1>2, <2>2
    <3>2. b[Len(from) + (i - Len(from))] = q[Len(from) + (i - Len(from))]
      BY <1>1, <1>3, <1>4, <3>1
    <3> QED BY <3>1, <3>2
  <2> QED BY <2>1, <2>2
<1>6. b = q
  BY <1>3, <1>4, <1>5, SeqEqual
<1> QED BY <1>6 DEF b, r

\* A cut of a rebased path is a rebased cut.
LEMMA RebasedCut ==
  ASSUME NEW q \in Seq(Names), NEW from \in Seq(Names), NEW to \in Seq(Names),
         IsPrefix(from, q), NEW i \in Len(from) .. Len(q)
  PROVE  /\ IsPrefix(from, SubSeq(q, 1, i))
         /\ Rebased(SubSeq(q, 1, i), from, to) =
              SubSeq(Rebased(q, from, to), 1, Len(to) + (i - Len(from)))
<1> DEFINE c == SubSeq(q, 1, i)
           r == Rebased(q, from, to)
           k == Len(to) + (i - Len(from))
<1>0. Len(from) \in Nat /\ Len(to) \in Nat /\ Len(q) \in Nat /\ Len(from) <= Len(q)
      /\ i \in 0 .. Len(q)
  BY PrefixIs
<1>1. c \in Seq(Names) /\ Len(c) = i /\ \A j \in 1 .. i : c[j] = q[j]
  BY <1>0, CutIs
<1>2. IsPrefix(c, q)
  BY <1>0, CutIs
<1>3. /\ r \in Seq(Names) /\ Len(r) = Len(to) + (Len(q) - Len(from))
      /\ \A j \in 1 .. Len(to) : r[j] = to[j]
      /\ \A j \in 1 .. Len(q) - Len(from) : r[Len(to) + j] = q[Len(from) + j]
  BY RebasedIs
<1> HIDE DEF c, r
<1>4. IsPrefix(from, c)
  BY <1>0, <1>1, <1>2, PrefixesAlign
<1> DEFINE b == Rebased(c, from, to)
           d == SubSeq(r, 1, k)
<1>5. /\ b \in Seq(Names) /\ Len(b) = Len(to) + (i - Len(from))
      /\ \A j \in 1 .. Len(to) : b[j] = to[j]
      /\ \A j \in 1 .. i - Len(from) : b[Len(to) + j] = c[Len(from) + j]
  BY <1>1, <1>4, RebasedIs
<1>6. k \in 0 .. Len(r)
  BY <1>0, <1>3
<1>7. d \in Seq(Names) /\ Len(d) = k /\ \A j \in 1 .. k : d[j] = r[j]
  BY <1>3, <1>6, CutIs
<1> HIDE DEF b, d
<1>8. ASSUME NEW j \in 1 .. k PROVE b[j] = d[j]
  <2>1. CASE j <= Len(to)
    BY <1>0, <1>3, <1>5, <1>7, <2>1
  <2>2. CASE j > Len(to)
    <3>1. PICK m \in 1 .. i - Len(from) : j = Len(to) + m
      <4>1. j - Len(to) \in 1 .. i - Len(from) /\ j = Len(to) + (j - Len(to))
        BY <1>0, <2>2
      <4> QED BY <4>1
    <3>2. Len(from) + m \in 1 .. i /\ m \in 1 .. Len(q) - Len(from)
      BY <1>0, <3>1
    <3>3. b[j] = c[Len(from) + m] /\ r[j] = q[Len(from) + m]
      BY <1>3, <1>5, <3>1, <3>2
    <3> QED BY <1>1, <1>7, <3>2, <3>3
  <2> QED BY <1>0, <2>1, <2>2
<1>9. b = d
  BY <1>5, <1>7, <1>8, SeqEqual
<1> QED BY <1>4, <1>9 DEF b, c, d, r

\* The paths of the tree.
LEMMA PathsAre ==
  ASSUME NEW p \in Paths
  PROVE  /\ p \in Seq(Names) /\ Len(p) \in Nat \ {0} /\ p # Root
         /\ \A i \in 1 .. Len(p) : SubSeq(p, 1, i) \in Paths
         /\ Front(p) = SubSeq(p, 1, Len(p) - 1)
         /\ Front(p) \in Paths \cup {Root}
<1>1. p \in Seq(Names) /\ p # Root
  BY TreeAssumption
<1>2. Len(p) \in Nat \ {0}
  BY <1>1 DEF Root
<1>3. Front(p) = SubSeq(p, 1, Len(p) - 1)
  BY DEF Front
<1>4. \A i \in 1 .. Len(p) : SubSeq(p, 1, i) \in Paths
  BY TreeAssumption
<1>5. CASE Len(p) = 1
  <2>1. SubSeq(p, 1, 0) = << >>
    BY <1>1
  <2> QED BY <1>1, <1>2, <1>3, <1>4, <1>5, <2>1 DEF Root
<1>6. CASE Len(p) # 1
  <2>1. Len(p) - 1 \in 1 .. Len(p)
    BY <1>2, <1>6
  <2> QED BY <1>1, <1>2, <1>3, <1>4, <2>1
<1> QED BY <1>5, <1>6

-----------------------------------------------------------------------------
(* Requests and their types.                                               *)

\* What is at a path, and what a staging file is.
Nodes == [kind : {"none", "file", "dir"}, owner : {"none", "relay", "drive"},
          by : Ops \cup {"none"}, filled : BOOLEAN]
Stages == [on : BOOLEAN, dir : Paths \cup {Root}, owner : {"none", "relay", "drive"},
           filled : 0..Chunks]

\* A request is asked once.
Asked ==
  \A o \in Ops : /\ pc[o] = "idle" => req[o] = NoReq /\ pairs[o] = 0
                 /\ pc[o] # "idle" => req[o] \in Requests

\* A file.copy is at one of its pairs.
Paired == \A o \in Ops : req[o].verb = "copy" => pairs[o] < Len(req[o].pairs)

\* The verbs that make directories on their way.
Makers == {"write", "ensure", "mkdirall", "copy"}

\* Each verb has its own steps.
Placed(o) ==
  /\ pc[o] = "dirs" => req[o].verb \in Makers
  /\ pc[o] \in {"mkdir", "hand"} => req[o].verb \in Makers \cup {"mkdir"}
  /\ pc[o] = "handfile" => req[o].verb \in {"write", "copy", "ensure"}
  /\ pc[o] \in {"fill", "publish"} => req[o].verb \in {"write", "copy"}
  /\ pc[o] = "check" => req[o].verb = "write"
  /\ pc[o] = "verify" => req[o].verb = "ensure"
  /\ pc[o] = "remove" => req[o].verb \in {"remove", "removeall"}
  /\ pc[o] \in {"lstat", "rename", "replace"} => req[o].verb = "rename"
  /\ pc[o] = "replace" => ~noReplace
  /\ pc[o] = "hand" => missing[o] # << >>

Routed == Asked /\ Paired /\ \A o \in Ops : Placed(o)

\* A sequence that is not empty, and its items.
LEMMA SeqItems ==
  ASSUME NEW S, NEW s \in Seq(S)
  PROVE  /\ Len(s) \in Nat /\ \A i \in 1 .. Len(s) : s[i] \in S
         /\ s # << >> => Len(s) > 0
OBVIOUS

\* The shapes of the requests.
LEMMA RequestsAre ==
  ASSUME NEW r \in Requests
  PROVE  /\ r.verb \in Makers \cup {"mkdir", "remove", "removeall", "rename"}
         /\ r.verb # "copy" => r.path \in Paths
         /\ r.verb = "rename" => r.to \in Paths /\ RoomToRename(r.path, r.to)
         /\ r.verb = "copy" => r.pairs \in Seq([src : Paths, dest : Paths]) /\ Len(r.pairs) > 0
<1>1. ASSUME r.verb = "copy"
      PROVE  r.pairs \in Seq([src : Paths, dest : Paths]) /\ Len(r.pairs) > 0
  <2>1. r.pairs \in Seq([src : Paths, dest : Paths]) /\ r.pairs # << >>
    BY <1>1, RequestsAssumption
  <2> QED BY <2>1, SeqItems
<1> QED BY <1>1, RequestsAssumption DEF Makers, RoomToRename

\* The paths a request works on are paths of the tree.
LEMMA TargetsAre ==
  ASSUME FilesTypeOK, Routed, NEW o \in Ops, pc[o] # "idle"
  PROVE  /\ req[o].verb \in {"write", "ensure", "copy"} => Target(o) \in Paths
         /\ req[o].verb \in {"write", "ensure", "copy"} => TargetDir(o) \in Paths \cup {Root}
         /\ req[o].verb \in Makers \cup {"mkdir"} => WantedDir(o) \in Paths \cup {Root}
         /\ req[o].verb = "copy" => req[o].pairs[pairs[o] + 1] \in [src : Paths, dest : Paths]
<1>1. req[o] \in Requests
  BY DEF Routed, Asked
<1>2. CASE req[o].verb = "copy"
  <2>1. req[o].pairs \in Seq([src : Paths, dest : Paths])
    BY <1>1, <1>2, RequestsAre
  <2>a. Len(req[o].pairs) \in Nat /\ pairs[o] \in Nat /\ pairs[o] < Len(req[o].pairs)
    BY <1>2, <2>1, SeqItems DEF Routed, Paired, FilesTypeOK
  <2>b. pairs[o] + 1 \in 1 .. Len(req[o].pairs)
    BY <2>a
  <2>2. req[o].pairs[pairs[o] + 1] \in [src : Paths, dest : Paths]
    BY <2>1, <2>b, SeqItems
  <2>3. Target(o) \in Paths
    BY <1>2, <2>2 DEF Target
  <2>4. TargetDir(o) \in Paths \cup {Root}
    BY <2>3, PathsAre DEF TargetDir
  <2> QED BY <1>2, <2>2, <2>3, <2>4 DEF WantedDir
<1>3. CASE req[o].verb # "copy"
  <2>1. req[o].path \in Paths
    BY <1>1, <1>3, RequestsAre
  <2>2. Target(o) \in Paths
    BY <1>3, <2>1 DEF Target
  <2>3. TargetDir(o) \in Paths \cup {Root}
    BY <2>2, PathsAre DEF TargetDir
  <2> QED BY <1>3, <2>1, <2>2, <2>3 DEF WantedDir
<1> QED BY <1>2, <1>3

\* The walk upwards ends at what is there; what it lists are cuts of the path.
LEMMA MissingAre ==
  ASSUME NEW d \in Paths \cup {Root}, NEW S,
         \A i \in 1 .. Len(d) : SubSeq(d, 1, i) \in S
  PROVE  MissingComponents(d) \in Seq(S)
<1>1. d \in Seq(Names) /\ Len(d) \in Nat /\ \A i \in 1 .. Len(d) : SubSeq(d, 1, i) \in S
  <2>1. CASE d = Root
    BY <2>1 DEF Root
  <2> QED BY <2>1, PathsAre
<1> DEFINE Here(k) == /\ Present(SubSeq(d, 1, k))
                      /\ \A i \in k+1..Len(d) : ~ Present(SubSeq(d, 1, i))
           T == {k \in Nat : k <= Len(d) /\ \A i \in k+1..Len(d) : ~ Present(SubSeq(d, 1, i))}
<1>2. \E k \in 0..Len(d) : Here(k)
  <2>1. Len(d) \in T
    BY <1>1
  <2>2. PICK k \in T : \A j \in T : ~(<<j, k>> \in OpToRel(<, Nat))
    <3>1. T \subseteq Nat /\ T # {}
      BY <2>1
    <3> HIDE DEF T
    <3> QED BY <3>1, NatLessThanWellFounded, WFMin, Zenon
  <2>3. k \in 0..Len(d) /\ \A i \in k+1..Len(d) : ~ Present(SubSeq(d, 1, i))
    BY <1>1
  <2>4. CASE k = 0
    <3>1. SubSeq(d, 1, 0) = Root
      BY <1>1 DEF Root
    <3> QED BY <2>3, <2>4, <3>1 DEF Present, Kind
  <2>5. CASE k # 0
    <3>1. k - 1 \in Nat /\ k - 1 < k
      BY <2>3, <2>5
    <3>2. k - 1 \notin T
      BY <2>2, <2>3, <3>1 DEF OpToRel
    <3>3. PICK i \in (k - 1)+1..Len(d) : Present(SubSeq(d, 1, i))
      BY <1>1, <2>3, <3>1, <3>2
    <3>4. i = k
      BY <1>1, <2>3, <3>3
    <3> QED BY <2>3, <3>3, <3>4
  <2> QED BY <2>4, <2>5
<1> DEFINE k == CHOOSE k \in 0..Len(d) : Here(k)
<1>3. k \in 0..Len(d)
  BY <1>2
<1>4. MissingComponents(d) = [j \in 1..Len(d) - k |-> SubSeq(d, 1, k + j)]
  BY DEF MissingComponents
<1> HIDE DEF k
<1>5. ASSUME NEW j \in 1..Len(d) - k PROVE SubSeq(d, 1, k + j) \in S
  <2>1. k + j \in 1 .. Len(d)
    BY <1>1, <1>3
  <2> QED BY <1>1, <2>1
<1>6. Len(d) - k \in Nat
  BY <1>1, <1>3
<1>7. MissingComponents(d) \in [1..Len(d) - k -> S]
  BY <1>4, <1>5
<1>8. PICK n \in Nat : n = Len(d) - k
  BY <1>6
<1>9. MissingComponents(d) \in [1..n -> S]
  BY <1>7, <1>8
<1> QED BY <1>9, SeqDef

\* What file.remove "recursive" does to the staging files.
LEMMA RemoveTreeStages ==
  ASSUME NEW o \in Ops, RemoveTree(o)
  PROVE  UNCHANGED stage \/ \E s \in Ops : stage' = [stage EXCEPT ![s].on = FALSE]
<1>1. ASSUME Fail(o) PROVE UNCHANGED stage
  BY <1>1 DEF RemoveTree, Fail
<1> QED BY <1>1, Zenon DEF RemoveTree

\* A request touches no row but its own: of another, at most where its staging
\* file is and whether it is there.
LEMMA OthersWait ==
  ASSUME FilesTypeOK, NEW o \in Ops, Serve(o), NEW w \in Ops, w # o
  PROVE  /\ pc'[w] = pc[w] /\ req'[w] = req[w] /\ missing'[w] = missing[w]
         /\ pairs'[w] = pairs[w] /\ result'[w] = result[w]
         /\ stage'[w].filled = stage[w].filled /\ stage'[w].owner = stage[w].owner
<1> DEFINE Goal == /\ pc'[w] = pc[w] /\ req'[w] = req[w] /\ missing'[w] = missing[w]
                   /\ pairs'[w] = pairs[w] /\ result'[w] = result[w]
                   /\ stage'[w].filled = stage[w].filled /\ stage'[w].owner = stage[w].owner
<1> USE DEF Goto, Fixed, Fail, Answer, ChownFails, Cleaned, FilesTypeOK
<1>0. stage[w] \in [on : BOOLEAN, dir : Paths \cup {Root}, owner : {"none", "relay", "drive"},
                   filled : 0..Chunks]
  OBVIOUS
<1>1. ASSUME NEW r \in Requests, Accept(o, r) PROVE Goal
  BY <1>1 DEF Accept
<1>2. CASE Begin(o)
  BY <1>2 DEF Begin
<1>3. CASE ListMissing(o)
  BY <1>3 DEF ListMissing
<1>4. CASE MakeDir(o)
  BY <1>4 DEF MakeDir
<1>5. CASE HandDir(o)
  BY <1>5 DEF HandDir
<1>6. CASE MkdirDone(o) \/ CreateStaging(o)
  BY <1>6 DEF MkdirDone, CreateStaging
<1>7. CASE Fill(o)
  BY <1>7 DEF Fill
<1>8. CASE HandStaged(o) \/ LastCheck(o)
  BY <1>8 DEF HandStaged, LastCheck
<1>9. CASE Publish(o)
  BY <1>9 DEF Publish
<1>10. CASE OpenExclusive(o) \/ VerifyOwner(o) \/ HandEnsured(o)
  BY <1>10 DEF OpenExclusive, VerifyOwner, HandEnsured
<1>11. CASE RemoveOne(o)
  BY <1>11 DEF RemoveOne
<1>12. CASE RemoveTree(o)
  <2>1. UNCHANGED stage \/ (\E s \in Ops : stage' = [stage EXCEPT ![s].on = FALSE])
    BY <1>12, RemoveTreeStages
  <2>2. stage'[w].filled = stage[w].filled /\ stage'[w].owner = stage[w].owner
    <3>1. CASE UNCHANGED stage
      BY <3>1
    <3>2. ASSUME NEW s \in Ops, stage' = [stage EXCEPT ![s].on = FALSE]
          PROVE  stage'[w].filled = stage[w].filled /\ stage'[w].owner = stage[w].owner
      <4>1. stage'[w] = IF w = s THEN [stage[w] EXCEPT !.on = FALSE] ELSE stage[w]
        BY <3>2
      <4> QED BY <1>0, <4>1
    <3> QED BY <2>1, <3>1, <3>2
  <2> QED BY <1>12, <2>2 DEF RemoveTree
<1>13. CASE LookAtSource(o)
  BY <1>13 DEF LookAtSource
<1>14. ASSUME NEW from, NEW to, PlainRename(o, from, to), Fixed PROVE Goal
  <2>1. CASE Fail(o)
    BY <1>14, <2>1
  <2>2. CASE Moved(from, to) /\ Answer(o, "ok") /\ UNCHANGED << pairs, faults >>
    <3>1. stage'[w] = IF stage[w].on /\ IsPrefix(from, stage[w].dir)
                      THEN [stage[w] EXCEPT !.dir = Rebased(stage[w].dir, from, to)]
                      ELSE stage[w]
      BY <2>2 DEF Moved
    <3>2. stage'[w].filled = stage[w].filled /\ stage'[w].owner = stage[w].owner
      BY <1>0, <3>1
    <3> QED BY <1>14, <2>2, <3>2
  <2> QED BY <1>14, <2>1, <2>2 DEF PlainRename
<1>15. CASE RenameNoReplace(o)
  BY <1>14, <1>15 DEF RenameNoReplace
<1>16. CASE RenameFallback(o)
  BY <1>14, <1>16 DEF RenameFallback
<1> QED BY <1>1, <1>2, <1>3, <1>4, <1>5, <1>6, <1>7, <1>8, <1>9, <1>10, <1>11, <1>12, <1>13,
           <1>15, <1>16 DEF Serve

\* The parts of FilesTypeOK.
NodeOK == node \in [Paths -> Nodes]
StageOK == stage \in [Ops -> Stages]
RowsOK ==
  /\ pc \in [Ops -> PCs]
  /\ req \in [Ops -> Requests \cup {NoReq}]
  /\ missing \in [Ops -> Seq(Paths)]
  /\ pairs \in [Ops -> Nat]
  /\ resetAt \in [Ops -> {"no", "before", "after"}]
  /\ noReplace \in BOOLEAN
  /\ result \in [Ops -> {"none", "ok", "error"}]
  /\ faults \in 0..MaxFaults

\* FilesTypeOK, taken apart: the tree, the staging files, the rest.
LEMMA TypesAre == FilesTypeOK <=> NodeOK /\ StageOK /\ RowsOK /\ strayed \subseteq Ops
BY DEF FilesTypeOK, NodeOK, StageOK, RowsOK, Nodes, Stages

\* An answer keeps the types of the rows.
LEMMA AnswerRows ==
  ASSUME RowsOK, NEW o \in Ops, NEW r \in {"ok", "error"}, Answer(o, r), Fixed,
         pairs' \in [Ops -> Nat], faults' \in 0..MaxFaults
  PROVE  RowsOK'
<1>1. pc' \in [Ops -> PCs]
  BY DEF RowsOK, Answer, Goto, PCs
<1>2. missing' \in [Ops -> Seq(Paths)]
  <2>1. << >> \in Seq(Paths)
    OBVIOUS
  <2> QED BY <2>1 DEF RowsOK, Answer
<1>3. result' \in [Ops -> {"none", "ok", "error"}]
  BY DEF RowsOK, Answer
<1> QED BY <1>1, <1>2, <1>3 DEF RowsOK, Fixed

\* The ways to answer keep the types of the rows and of the staging files.
LEMMA AnswerTypes ==
  ASSUME FilesTypeOK, NEW o \in Ops, Fixed, Fail(o) \/ ChownFails(o)
  PROVE  RowsOK' /\ StageOK'
<1>1. RowsOK /\ StageOK
  BY TypesAre
<1>2. MaxFaults \in Nat /\ NoStage \in Stages
  BY TreeAssumption DEF NoStage, Stages
<1>3. RowsOK'
  <2>1. Answer(o, "error") /\ UNCHANGED pairs
    BY DEF Fail, ChownFails
  <2>2. faults' \in 0..MaxFaults
    BY <1>1, <1>2 DEF RowsOK, Fail, ChownFails
  <2> QED BY <1>1, <2>1, <2>2, AnswerRows DEF RowsOK
<1>4. Cleaned(o) \in [Ops -> Stages]
  BY <1>1, <1>2 DEF Cleaned, StageOK
<1>5. stage' = Cleaned(o) \/ stage' = stage
  BY DEF Fail, ChownFails
<1> QED BY <1>1, <1>3, <1>4, <1>5 DEF StageOK

\* Serving a request keeps the types of the rows.
LEMMA RowsStep ==
  ASSUME FilesTypeOK, Routed, NEW o \in Ops, Serve(o)
  PROVE  RowsOK'
<1>0. RowsOK /\ MaxFaults \in Nat
  BY TypesAre, TreeAssumption
<1>f. ASSUME Fixed, Fail(o) \/ ChownFails(o) PROVE RowsOK'
  BY <1>f, AnswerTypes
<1>a. ASSUME Fixed, Answer(o, "ok"), UNCHANGED << pairs, faults >> PROVE RowsOK'
  BY <1>0, <1>a, AnswerRows DEF RowsOK
<1> USE DEF Goto, RowsOK, PCs
<1>1. ASSUME NEW r \in Requests, Accept(o, r) PROVE RowsOK'
  BY <1>0, <1>1 DEF Accept, Fixed
<1>2. CASE Begin(o)
  <2>1. CASE Fail(o)
    BY <1>2, <1>f, <2>1 DEF Begin
  <2>2. CASE ~Fail(o)
    <3>1. req[o].verb \in Makers \cup {"mkdir", "remove", "removeall", "rename"}
          /\ (req[o].verb # "copy" => req[o].path \in Paths)
      BY <1>2, RequestsAre DEF Routed, Asked, Begin, At
    <3>2. FirstStep(req[o].verb) \in PCs
      BY <3>1 DEF FirstStep, Makers
    <3>3. /\ pc' = [pc EXCEPT ![o] = FirstStep(req[o].verb)]
          /\ missing' = [missing EXCEPT ![o] =
                           IF req[o].verb = "mkdir" THEN << req[o].path >> ELSE << >>]
          /\ UNCHANGED << req, resetAt, noReplace, pairs, result, faults >>
      BY <1>2, <2>2 DEF Begin, Fixed
    <3>4. (IF req[o].verb = "mkdir" THEN << req[o].path >> ELSE << >>) \in Seq(Paths)
      BY <3>1
    <3> HIDE DEF PCs
    <3> QED BY <1>0, <3>2, <3>3, <3>4
  <2> QED BY <2>1, <2>2
<1>3. CASE ListMissing(o)
  <2>1. MissingComponents(WantedDir(o)) \in Seq(Paths)
    <3>1. PICK d \in Paths \cup {Root} : d = WantedDir(o)
      BY <1>3, TargetsAre DEF ListMissing, Routed, Placed, At
    <3>2. \A i \in 1 .. Len(d) : SubSeq(d, 1, i) \in Paths
      BY PathsAre DEF Root
    <3> QED BY <3>1, <3>2, MissingAre
  <2> QED BY <1>0, <1>3, <1>f, <2>1 DEF ListMissing, Fixed
<1>4. CASE MakeDir(o)
  <2>1. Tail(missing[o]) \in Seq(Paths)
    BY <1>0, <1>4 DEF MakeDir
  <2> QED BY <1>0, <1>4, <1>f, <2>1 DEF MakeDir, Fixed
<1>5. CASE HandDir(o)
  <2>1. Tail(missing[o]) \in Seq(Paths)
    BY <1>0, <1>5 DEF HandDir, Routed, Placed, At
  <2> QED BY <1>0, <1>5, <1>f, <2>1 DEF HandDir, Fixed
<1>6. CASE MkdirDone(o)
  BY <1>6, <1>a DEF MkdirDone
<1>7. CASE CreateStaging(o) \/ Fill(o)
  BY <1>0, <1>7, <1>f DEF CreateStaging, Fill, Fixed
<1>8. CASE HandStaged(o) \/ LastCheck(o)
  BY <1>0, <1>8, <1>f DEF HandStaged, LastCheck, Fixed
<1>9. CASE Publish(o)
  <2>1. CASE Fail(o)
    BY <1>9, <1>f, <2>1 DEF Publish
  <2>2. CASE ~Fail(o)
    <3>1. /\ UNCHANGED faults /\ Fixed
          /\ \/ pairs' = [pairs EXCEPT ![o] = @ + 1] /\ Goto(o, "dirs")
                /\ UNCHANGED << missing, result >>
             \/ (Answer(o, "ok") \/ Answer(o, "error")) /\ UNCHANGED pairs
      BY <1>9, <2>2 DEF Publish
    <3>2. CASE (Answer(o, "ok") \/ Answer(o, "error")) /\ UNCHANGED pairs
      <4>1. pairs' \in [Ops -> Nat] /\ faults' \in 0..MaxFaults
        BY <1>0, <3>1, <3>2
      <4> QED BY <1>0, <3>1, <3>2, <4>1, AnswerRows
    <3>3. CASE pairs' = [pairs EXCEPT ![o] = @ + 1] /\ Goto(o, "dirs")
               /\ UNCHANGED << missing, result >>
      BY <1>0, <3>1, <3>3 DEF Fixed
    <3> QED BY <3>1, <3>2, <3>3
  <2> QED BY <2>1, <2>2
<1>10. CASE OpenExclusive(o) \/ VerifyOwner(o) \/ HandEnsured(o)
  BY <1>0, <1>10, <1>a, <1>f DEF OpenExclusive, VerifyOwner, HandEnsured, Fixed
<1>11. CASE RemoveOne(o)
  BY <1>0, <1>11, <1>a, <1>f DEF RemoveOne, Fixed
<1>12. CASE RemoveTree(o)
  BY <1>0, <1>12, <1>a, <1>f DEF RemoveTree, Fixed
<1>13. CASE LookAtSource(o)
  BY <1>0, <1>13, <1>f DEF LookAtSource, Fixed
<1>14. ASSUME NEW from, NEW to, PlainRename(o, from, to), Fixed PROVE RowsOK'
  BY <1>14, <1>a, <1>f DEF PlainRename
<1>15. CASE RenameNoReplace(o)
  BY <1>0, <1>14, <1>15, <1>f DEF RenameNoReplace, Fixed
<1>16. CASE RenameFallback(o)
  BY <1>14, <1>16 DEF RenameFallback
<1> QED BY <1>1, <1>2, <1>3, <1>4, <1>5, <1>6, <1>7, <1>8, <1>9, <1>10, <1>11, <1>12, <1>13,
           <1>15, <1>16 DEF Serve

\* What is there is in directories, and so is every staging file.
Nested ==
  \A p \in Paths : \A i \in 1 .. Len(p) - 1 : Present(p) => IsDir(SubSeq(p, 1, i))
Housed == \A o \in Ops : stage[o].on => IsDir(stage[o].dir)

\* Nothing is below what is no directory.
LEMMA BelowDirs ==
  ASSUME Nested, NEW s \in Paths, NEW t \in Paths, IsStrictPrefix(s, t), Present(t)
  PROVE  IsDir(s)
<1>1. s \in Seq(Names) /\ t \in Seq(Names) /\ Len(s) \in Nat \ {0} /\ Len(t) \in Nat
      /\ IsPrefix(s, t) /\ s # t
  BY PathsAre DEF IsStrictPrefix
<1>2. Len(s) <= Len(t) /\ s = SubSeq(t, 1, Len(s))
  BY <1>1, PrefixIs, PrefixIsCut
<1>3. ASSUME Len(s) = Len(t) PROVE FALSE
  BY <1>1, <1>2, <1>3, SeqEqual, CutIs
<1>4. Len(s) \in 1 .. Len(t) - 1
  BY <1>1, <1>2, <1>3
<1> QED BY <1>2, <1>4 DEF Nested

\* No path is a prefix of the root.
LEMMA RootIsAbove ==
  ASSUME NEW p \in Paths
  PROVE  ~IsPrefix(p, Root)
<1>1. p \in Seq(Names) /\ Len(p) \in Nat \ {0}
  BY PathsAre
<1>2. Root \in Seq(Names) /\ Len(Root) = 0
  BY DEF Root
<1>3. ~(Len(p) <= Len(Root))
  BY <1>1, <1>2
<1> HIDE DEF Root
<1> QED BY <1>1, <1>2, <1>3, PrefixIs

\* A rename moves what is there, and what is there is of the tree.
LEMMA MovedTypes ==
  ASSUME FilesTypeOK, NEW from \in Paths, NEW to \in Paths, RoomToRename(from, to),
         ~(IsDir(from) /\ IsStrictPrefix(from, to)),
         Nested, Housed,
         Moved(from, to)
  PROVE  NodeOK' /\ StageOK'
<1>1. NodeOK /\ StageOK
  BY TypesAre
<1>2. NodeOK'
  <2>1. NoNode \in Nodes
    BY DEF NoNode, Nodes
  <2>2. ASSUME NEW q \in Paths PROVE node'[q] \in Nodes
    <3>1. node'[q] = IF IsPrefix(to, q)
                     THEN IF Rebased(q, to, from) \in Paths THEN node[Rebased(q, to, from)]
                                                            ELSE NoNode
                     ELSE IF IsPrefix(from, q) THEN NoNode ELSE node[q]
      BY DEF Moved
    <3> QED BY <1>1, <2>1, <3>1 DEF NodeOK
  <2>3. \E e : node' = [q \in Paths |-> e[q]]
    <3>1. node' = [q \in Paths |-> node'[q]]
      BY DEF Moved
    <3> QED BY <3>1
  <2> QED BY <2>2, <2>3 DEF NodeOK
<1>3. StageOK'
  <2>1. ASSUME NEW w \in Ops, stage[w].on, IsPrefix(from, stage[w].dir)
        PROVE  Rebased(stage[w].dir, from, to) \in Paths
    <3>1. stage[w].dir \in Paths \cup {Root}
      BY <1>1 DEF StageOK, Stages
    <3>2. stage[w].dir # Root
      BY <2>1, RootIsAbove
    <3>3. PICK d \in Paths : d = stage[w].dir
      BY <3>1, <3>2
    <3>4. IsDir(d) /\ d # Root
      BY <2>1, <3>3, <3>2 DEF Housed
    <3>5. IsDir(from)
      <4>1. CASE from = d
        BY <3>4, <4>1
      <4>2. CASE from # d
        <5>1. IsStrictPrefix(from, d) /\ Present(d)
          BY <2>1, <3>3, <3>4, <4>2 DEF IsStrictPrefix, IsDir, Present
        <5> QED BY <5>1, BelowDirs
      <4> QED BY <4>1, <4>2
    <3>6. Rebased(d, from, to) \in Paths
      BY <2>1, <3>3, <3>5 DEF RoomToRename
    <3> QED BY <3>3, <3>6
  <2>2. ASSUME NEW w \in Ops PROVE stage'[w] \in Stages
    <3>1. stage[w] \in Stages
      BY <1>1 DEF StageOK
    <3>2. stage'[w] = IF stage[w].on /\ IsPrefix(from, stage[w].dir)
                      THEN [stage[w] EXCEPT !.dir = Rebased(stage[w].dir, from, to)]
                      ELSE stage[w]
      BY DEF Moved
    <3>3. CASE stage[w].on /\ IsPrefix(from, stage[w].dir)
      <4>1. Rebased(stage[w].dir, from, to) \in Paths
        BY <2>1, <3>3
      <4> QED BY <3>1, <3>2, <3>3, <4>1 DEF Stages
    <3> QED BY <3>1, <3>2, <3>3
  <2>3. stage' = [w \in Ops |-> stage'[w]]
    BY DEF Moved
  <2> QED BY <2>2, <2>3 DEF StageOK
<1> QED BY <1>2, <1>3

-----------------------------------------------------------------------------
(* The tree and the steps that change it.                                  *)

\* An entry appears, in a directory and not in the place of one.
Grows(c, x) == /\ node' = [node EXCEPT ![c] = x]
               /\ x.kind # "none" /\ IsDir(Front(c)) /\ ~IsDir(c)

\* Entries are handed over.
HandsOver == /\ node' = [p \in Paths |-> node'[p]]
             /\ \A p \in Paths : \/ node'[p] = node[p]
                                 \/ node'[p] = [node[p] EXCEPT !.owner = "drive"]

\* An entry goes, with nothing in it.
Shrinks(q) == /\ node' = [node EXCEPT ![q] = NoNode]
              /\ UNCHANGED stage
              /\ IsDir(q) => Empty(q)

\* An entry moves, with what is in it.
Moves(from, to) == /\ Moved(from, to)
                   /\ RoomToRename(from, to)
                   /\ Present(from) /\ IsDir(Front(to)) /\ ~IsDir(to)
                   /\ ~(IsDir(from) /\ IsStrictPrefix(from, to))

\* The staging files are in directories of the tree as it was.
StagesHoused == \A w \in Ops : stage'[w].on => IsDir(stage'[w].dir)

\* What makes a file appear.
Creates(o, x) ==
  \/ At(o, "publish") /\ x = NewFile(o, stage[o].owner, stage[o].filled = Chunks)
     /\ (req[o].verb = "write" => pc'[o] = "done")
  \/ At(o, "mkdir") /\ req[o].verb = "ensure" /\ pc'[o] = "handfile"

\* What makes a directory appear.
MakesDir(o, c) == /\ At(o, "mkdir") /\ missing[o] # << >> /\ c = Head(missing[o])
                  /\ UNCHANGED missing /\ pc'[o] = "hand"

\* A file.rename takes what is at "from".
Takes(o, from) ==
  pc[o] \in {"rename", "replace"} /\ result'[o] = "ok" /\ from = req[o].path

\* The ways in which a step of a request changes the tree.
TreeStep(o) ==
  \/ StagesHoused /\ UNCHANGED node
  \/ StagesHoused /\ \E c \in Paths, x \in Nodes :
       /\ Grows(c, x) /\ x.by = o
       /\ x.kind = "file" => Creates(o, x)
       /\ x.kind = "dir" => MakesDir(o, c)
  \/ StagesHoused /\ HandsOver
  \/ \E q \in Paths : Shrinks(q)
  \/ \E from \in Paths, to \in Paths : Takes(o, from) /\ Moves(from, to)

\* A step that leaves the staging files alone, or takes one away.
LEMMA StagesStay ==
  ASSUME FilesTypeOK, Housed, NEW o \in Ops,
         \/ UNCHANGED stage
         \/ stage' = Cleaned(o)
         \/ \E s \in Ops : stage' = [stage EXCEPT ![s].on = FALSE]
         \/ stage' = [stage EXCEPT ![o] = NoStage]
  PROVE  StagesHoused
<1>0. \A w \in Ops : stage[w] \in Stages
  BY TypesAre DEF StageOK
<1>1. \A w \in Ops : stage'[w].on => stage[w].on /\ stage'[w].dir = stage[w].dir
  <2>0. DOMAIN stage = Ops
    BY TypesAre DEF StageOK
  <2>1. CASE UNCHANGED stage
    BY <2>1
  <2>2. CASE stage' = [stage EXCEPT ![o] = NoStage]
    BY <2>0, <2>2 DEF NoStage
  <2>3. CASE stage' = Cleaned(o)
    BY <2>1, <2>2, <2>3 DEF Cleaned
  <2>4. ASSUME NEW s \in Ops, stage' = [stage EXCEPT ![s].on = FALSE]
        PROVE  \A w \in Ops : stage'[w].on => stage[w].on /\ stage'[w].dir = stage[w].dir
    <3>1. \A w \in Ops : stage'[w] = IF w = s THEN [stage[w] EXCEPT !.on = FALSE] ELSE stage[w]
      BY <2>0, <2>4
    <3> QED BY <1>0, <3>1 DEF Stages
  <2> QED BY <2>1, <2>2, <2>3, <2>4
<1> QED BY <1>1 DEF Housed, StagesHoused

\* Every step of a request is one of the ways of TreeStep.
LEMMA TreeSteps ==
  ASSUME FilesTypeOK, Routed, Housed, NEW o \in Ops, Serve(o)
  PROVE  TreeStep(o)
<1>f. ASSUME Fail(o) \/ ChownFails(o) PROVE TreeStep(o)
  BY <1>f, StagesStay DEF Fail, ChownFails, TreeStep
<1>u. ASSUME UNCHANGED << node, stage >> PROVE TreeStep(o)
  BY <1>u, StagesStay DEF TreeStep
<1>0. node \in [Paths -> Nodes] /\ stage \in [Ops -> Stages]
  BY TypesAre DEF NodeOK, StageOK
<1>1. ASSUME NEW r \in Requests, Accept(o, r) PROVE TreeStep(o)
  BY <1>1, <1>u DEF Accept
<1>2. CASE Begin(o)
  BY <1>2, <1>f, <1>u DEF Begin
<1>3. CASE ListMissing(o)
  BY <1>3, <1>f, <1>u DEF ListMissing
<1>4. CASE MakeDir(o)
  <2>1. CASE Fail(o) \/ UNCHANGED << node, stage >>
    BY <1>f, <1>u, <2>1
  <2>2. CASE ~(Fail(o) \/ UNCHANGED << node, stage >>)
    <3> DEFINE c == Head(missing[o])
               x == [kind |-> "dir", owner |-> "relay", by |-> o, filled |-> FALSE]
    <3>1. c \in Paths
      BY <1>4 DEF MakeDir, FilesTypeOK
    <3>2. /\ IsDir(Front(c)) /\ ~Present(c) /\ node' = [node EXCEPT ![c] = x] /\ UNCHANGED stage
      BY <1>4, <2>2 DEF MakeDir
    <3>3. x \in Nodes /\ x.kind # "none" /\ x.kind # "file" /\ x.by = o
      BY DEF Nodes
    <3>4. StagesHoused
      BY <3>2, StagesStay
    <3>5. Grows(c, x)
      BY <3>2, <3>3 DEF Grows, Present, IsDir
    <3>6. MakesDir(o, c)
      BY <1>4, <2>2, <3>2 DEF MakeDir, MakesDir, Goto, FilesTypeOK
    <3> QED BY <3>1, <3>3, <3>4, <3>5, <3>6 DEF TreeStep
  <2> QED BY <2>1, <2>2
<1>5. CASE HandDir(o)
  <2>1. CASE Fail(o) \/ ChownFails(o)
    BY <1>f, <2>1
  <2>2. CASE ~(Fail(o) \/ ChownFails(o))
    <3>1. node' = [node EXCEPT ![Head(missing[o])].owner = "drive"] /\ UNCHANGED stage
      BY <1>5, <2>2 DEF HandDir
    <3>2. StagesHoused
      BY <3>1, StagesStay
    <3>3. HandsOver
      BY <1>0, <3>1 DEF HandsOver
    <3> QED BY <3>2, <3>3 DEF TreeStep
  <2> QED BY <2>1, <2>2
<1>6. CASE MkdirDone(o)
  BY <1>6, <1>u DEF MkdirDone
<1>7. CASE CreateStaging(o)
  <2>1. CASE Fail(o)
    BY <1>f, <2>1
  <2>2. CASE ~Fail(o)
    <3>1. /\ IsDir(TargetDir(o)) /\ UNCHANGED node
          /\ stage' = [stage EXCEPT ![o] = [on |-> TRUE, dir |-> TargetDir(o),
                                            owner |-> "relay", filled |-> 0]]
      BY <1>7, <2>2 DEF CreateStaging
    <3>2. StagesHoused
      BY <1>0, <3>1 DEF Housed, StagesHoused
    <3> QED BY <3>1, <3>2 DEF TreeStep
  <2> QED BY <2>1, <2>2
<1>8. ASSUME UNCHANGED node,
             \A w \in Ops : stage'[w].on = stage[w].on /\ stage'[w].dir = stage[w].dir
      PROVE  TreeStep(o)
  BY <1>8 DEF Housed, StagesHoused, TreeStep
<1>9. CASE Fill(o)
  <2>1. CASE Fail(o)
    BY <1>f, <2>1
  <2>2. CASE ~Fail(o)
    <3>1. \E n : stage' = [stage EXCEPT ![o].filled = n]
      BY <1>9, <2>2 DEF Fill
    <3>2. UNCHANGED node
      BY <1>9, <2>2 DEF Fill
    <3>3. \A w \in Ops : stage'[w].on = stage[w].on /\ stage'[w].dir = stage[w].dir
      BY <1>0, <3>1 DEF Stages
    <3> QED BY <1>8, <3>2, <3>3
  <2> QED BY <2>1, <2>2
<1>10. CASE HandStaged(o)
  <2>1. CASE ChownFails(o)
    BY <1>f, <2>1
  <2>2. CASE ~ChownFails(o)
    <3>1. stage' = [stage EXCEPT ![o].owner = "drive"] /\ UNCHANGED node
      BY <1>10, <2>2 DEF HandStaged
    <3>2. \A w \in Ops : stage'[w].on = stage[w].on /\ stage'[w].dir = stage[w].dir
      BY <1>0, <3>1 DEF Stages
    <3> QED BY <1>8, <3>1, <3>2
  <2> QED BY <2>1, <2>2
<1>11. CASE LastCheck(o)
  BY <1>11, <1>f, <1>u DEF LastCheck
<1>12. CASE Publish(o)
  <2>1. CASE Fail(o)
    BY <1>f, <2>1
  <2>2. CASE ~Fail(o)
    <3> DEFINE x == NewFile(o, stage[o].owner, stage[o].filled = Chunks)
    <3>1. /\ stage[o].on /\ stage[o].dir = TargetDir(o) /\ ~IsDir(Target(o))
          /\ node' = [node EXCEPT ![Target(o)] = x]
          /\ stage' = [stage EXCEPT ![o] = NoStage]
          /\ req[o].verb = "write" => Goto(o, "done")
      BY <1>12, <2>2 DEF Publish, Answer
    <3>2. Target(o) \in Paths
      BY <1>12, TargetsAre DEF Publish, At, Routed, Placed
    <3>3. IsDir(Front(Target(o)))
      BY <3>1 DEF Housed, TargetDir
    <3>4. x \in Nodes /\ x.kind = "file" /\ x.by = o
      BY <1>0 DEF NewFile, Nodes, Stages
    <3>5. Creates(o, x)
      <4>1. req[o].verb = "write" => pc'[o] = "done"
        BY <3>1 DEF Goto, FilesTypeOK
      <4> QED BY <1>12, <4>1 DEF Creates, Publish
    <3>6. StagesHoused
      BY <3>1, StagesStay
    <3>7. Grows(Target(o), x)
      BY <3>1, <3>3, <3>4 DEF Grows
    <3> HIDE DEF x
    <3> QED BY <3>2, <3>4, <3>5, <3>6, <3>7 DEF TreeStep
  <2> QED BY <2>1, <2>2
<1>13. CASE OpenExclusive(o)
  <2>1. CASE UNCHANGED node
    BY <1>13, <1>u, <2>1 DEF OpenExclusive
  <2>2. CASE ~UNCHANGED node
    <3> DEFINE x == NewFile(o, "relay", TRUE)
    <3>1. /\ IsDir(TargetDir(o)) /\ ~Present(Target(o)) /\ UNCHANGED stage
          /\ node' = [node EXCEPT ![Target(o)] = x]
          /\ At(o, "mkdir") /\ req[o].verb = "ensure" /\ pc'[o] = "handfile"
      BY <1>13, <2>2 DEF OpenExclusive, DirsReady, Goto, FilesTypeOK
    <3>2. Target(o) \in Paths
      BY <3>1, TargetsAre DEF At
    <3>3. x \in Nodes /\ x.kind = "file" /\ x.by = o
      BY DEF NewFile, Nodes
    <3>4. Creates(o, x)
      BY <3>1 DEF Creates
    <3>5. StagesHoused
      BY <3>1, StagesStay
    <3>6. Grows(Target(o), x)
      BY <3>1, <3>3 DEF Grows, TargetDir, Present, IsDir
    <3> HIDE DEF x
    <3> QED BY <3>2, <3>3, <3>4, <3>5, <3>6 DEF TreeStep
  <2> QED BY <2>1, <2>2
<1>14. CASE VerifyOwner(o)
  BY <1>14, <1>f, <1>u DEF VerifyOwner
<1>15. CASE HandEnsured(o)
  <2>1. CASE ChownFails(o)
    BY <1>f, <2>1
  <2>2. CASE ~ChownFails(o)
    <3>1. /\ node' = [p \in Paths |-> IF IsFile(p) /\ node[p].by = o
                                      THEN [node[p] EXCEPT !.owner = "drive"] ELSE node[p]]
          /\ UNCHANGED stage
      BY <1>15, <2>2 DEF HandEnsured
    <3>2. StagesHoused
      BY <3>1, StagesStay
    <3>3. HandsOver
      BY <3>1 DEF HandsOver
    <3> QED BY <3>2, <3>3 DEF TreeStep
  <2> QED BY <2>1, <2>2
<1>16. CASE RemoveOne(o)
  <2>1. CASE Fail(o)
    BY <1>f, <2>1
  <2>2. CASE ~Fail(o)
    <3>1. req[o].path \in Paths
      BY <1>16, RequestsAre DEF RemoveOne, At, Routed, Asked
    <3>2. Shrinks(req[o].path)
      BY <1>16, <2>2 DEF RemoveOne, Shrinks
    <3> QED BY <3>1, <3>2 DEF TreeStep
  <2> QED BY <2>1, <2>2
<1>17. CASE RemoveTree(o)
  <2>1. CASE Fail(o) \/ UNCHANGED << node, stage >>
    BY <1>f, <1>u, <2>1
  <2>2. ASSUME NEW q \in Paths, IsDir(q) => Empty(q),
               node' = [node EXCEPT ![q] = NoNode], UNCHANGED stage
        PROVE  TreeStep(o)
    BY <2>2 DEF Shrinks, TreeStep
  <2>3. ASSUME NEW s \in Ops, stage' = [stage EXCEPT ![s].on = FALSE], UNCHANGED node
        PROVE  TreeStep(o)
    BY <2>3, StagesStay DEF TreeStep
  <2> QED BY <1>17, <2>1, <2>2, <2>3 DEF RemoveTree
<1>18. CASE LookAtSource(o)
  BY <1>18, <1>f, <1>u DEF LookAtSource
<1>19. ASSUME pc[o] \in {"rename", "replace"}, req[o].verb = "rename",
              PlainRename(o, req[o].path, req[o].to)
       PROVE  TreeStep(o)
  <2>1. CASE Fail(o)
    BY <1>f, <2>1
  <2>2. CASE ~Fail(o)
    <3>1. req[o].path \in Paths /\ req[o].to \in Paths /\ RoomToRename(req[o].path, req[o].to)
      BY <1>19, RequestsAre DEF Routed, Asked
    <3>2. Moves(req[o].path, req[o].to)
      BY <1>19, <2>2, <3>1 DEF PlainRename, Moves
    <3>3. Takes(o, req[o].path)
      BY <1>19, <2>2 DEF PlainRename, Answer, FilesTypeOK, Takes
    <3> QED BY <3>1, <3>2, <3>3 DEF TreeStep
  <2> QED BY <2>1, <2>2
<1>20. CASE RenameNoReplace(o)
  BY <1>20, <1>19, <1>f, <1>u DEF RenameNoReplace, At, Routed, Placed
<1>21. CASE RenameFallback(o)
  BY <1>21, <1>19 DEF RenameFallback, At, Routed, Placed
<1> QED BY <1>1, <1>2, <1>3, <1>4, <1>5, <1>6, <1>7, <1>9, <1>10, <1>11, <1>12, <1>13, <1>14,
           <1>15, <1>16, <1>17, <1>18, <1>20, <1>21 DEF Serve

\* The shape of the tree.
Shape == Nested /\ Housed

\* The directory of an entry, and what is below it.
LEMMA FrontIsAbove ==
  ASSUME Nested, NEW p \in Paths, IsDir(Front(p)), NEW i \in 1 .. Len(p) - 1
  PROVE  /\ SubSeq(p, 1, i) \in Paths /\ IsDir(SubSeq(p, 1, i))
         /\ Front(p) \in Paths /\ IsPrefix(SubSeq(p, 1, i), Front(p))
<1>1. /\ p \in Seq(Names) /\ Len(p) \in Nat /\ Front(p) = SubSeq(p, 1, Len(p) - 1)
      /\ \A j \in 1 .. Len(p) : SubSeq(p, 1, j) \in Paths
  BY PathsAre
<1>2. i \in 1 .. Len(p) /\ Len(p) - 1 \in 1 .. Len(p) /\ Len(p) - 1 \in 0 .. Len(p)
  BY <1>1
<1> DEFINE f == Front(p)
           c == SubSeq(p, 1, i)
<1>3. /\ f \in Paths /\ f \in Seq(Names) /\ Len(f) = Len(p) - 1
      /\ \A j \in 1 .. Len(p) - 1 : f[j] = p[j]
  <2>1. /\ SubSeq(p, 1, Len(p) - 1) \in Seq(Names) /\ Len(SubSeq(p, 1, Len(p) - 1)) = Len(p) - 1
        /\ \A j \in 1 .. Len(p) - 1 : SubSeq(p, 1, Len(p) - 1)[j] = p[j]
    BY <1>1, <1>2, CutIs
  <2> QED BY <1>1, <1>2, <2>1
<1>4. c \in Seq(Names) /\ Len(c) = i /\ \A j \in 1 .. i : c[j] = p[j]
  BY <1>1, <1>2, CutIs
<1> HIDE DEF f, c
<1>5. IsPrefix(c, f)
  BY <1>3, <1>4, PrefixIs
<1>6. c \in Paths
  BY <1>1, <1>2 DEF c
<1>7. IsDir(c)
  <2>1. CASE c = f
    BY <2>1 DEF f
  <2>2. CASE c # f
    <3>1. Present(f)
      BY DEF f, Present, IsDir
    <3>2. IsStrictPrefix(c, f)
      BY <1>5, <2>2 DEF IsStrictPrefix
    <3> QED BY <1>3, <1>6, <3>1, <3>2, BelowDirs
  <2> QED BY <2>1, <2>2
<1> QED BY <1>3, <1>5, <1>6, <1>7 DEF c, f

\* The cuts of a path are paths of the tree.
LEMMA CutsArePaths ==
  ASSUME NEW p \in Paths, NEW i \in 1 .. Len(p) - 1
  PROVE  SubSeq(p, 1, i) \in Paths /\ SubSeq(p, 1, i) # Root /\ i \in 1 .. Len(p)
<1>1. Len(p) \in Nat
  BY PathsAre
<1>2. i \in 1 .. Len(p)
  BY <1>1
<1> QED BY <1>2, PathsAre

\* The ways to change the tree keep its shape: a new entry,
LEMMA GrowsShape ==
  ASSUME FilesTypeOK, Shape, NEW c \in Paths, NEW x, Grows(c, x), StagesHoused
  PROVE  Shape'
<1>0. DOMAIN node = Paths
  BY DEF FilesTypeOK
<1>1. \A p \in Paths : p # c => node'[p] = node[p]
  BY <1>0 DEF Grows
<1>2. node'[c].kind # "none"
  BY <1>0 DEF Grows
<1>3. ASSUME NEW p \in Paths \cup {Root}, IsDir(p) PROVE IsDir(p)'
  BY <1>1, <1>3 DEF Grows, IsDir, Kind
<1>4. Nested'
  <2> SUFFICES ASSUME NEW p \in Paths, NEW i \in 1 .. Len(p) - 1, Present(p)'
               PROVE  IsDir(SubSeq(p, 1, i))'
    BY DEF Nested
  <2>1. SubSeq(p, 1, i) \in Paths
    BY CutsArePaths
  <2>2. CASE p = c
    <3>1. IsDir(Front(p))
      BY <2>2 DEF Grows
    <3>2. IsDir(SubSeq(p, 1, i))
      BY <3>1, FrontIsAbove DEF Shape
    <3> QED BY <1>3, <2>1, <3>2
  <2>3. CASE p # c
    <3>1. Present(p)
      BY <1>1, <2>3, PathsAre DEF Present, Kind
    <3>2. IsDir(SubSeq(p, 1, i))
      BY <3>1 DEF Shape, Nested
    <3> QED BY <1>3, <2>1, <3>2
  <2> QED BY <2>2, <2>3
<1>5. Housed'
  <2> SUFFICES ASSUME NEW w \in Ops, stage'[w].on PROVE IsDir(stage[w].dir)'
    BY DEF Housed
  <2>1. Kind(stage'[w].dir) = "dir"
    BY DEF StagesHoused, IsDir
  <2>2. CASE stage'[w].dir = c
    BY <2>1, <2>2 DEF Grows, IsDir
  <2>3. CASE stage'[w].dir # c
    <3>1. stage'[w].dir = Root \/ node'[stage'[w].dir] = node[stage'[w].dir]
      BY <1>0, <2>3 DEF Grows
    <3> QED BY <2>1, <3>1 DEF IsDir, Kind
  <2> QED BY <2>2, <2>3
<1> QED BY <1>4, <1>5 DEF Shape

\* a handing over,
LEMMA HandsOverShape ==
  ASSUME FilesTypeOK, Shape, HandsOver, StagesHoused, StageOK'
  PROVE  Shape'
<1>1. ASSUME NEW p \in Paths PROVE node'[p].kind = node[p].kind
  <2>1. node[p] \in Nodes
    BY TypesAre DEF NodeOK
  <2>2. [node[p] EXCEPT !.owner = "drive"].kind = node[p].kind
    BY <2>1 DEF Nodes
  <2> QED BY <2>2 DEF HandsOver
<1>2. \A p \in Paths \cup {Root} : Kind(p)' = Kind(p)
  BY <1>1 DEF Kind
<1>3. Nested'
  <2> SUFFICES ASSUME NEW p \in Paths, NEW i \in 1 .. Len(p) - 1, Present(p)'
               PROVE  IsDir(SubSeq(p, 1, i))'
    BY DEF Nested
  <2>1. Present(p) /\ SubSeq(p, 1, i) \in Paths
    BY <1>2, CutsArePaths DEF Present
  <2>2. IsDir(SubSeq(p, 1, i))
    BY <2>1 DEF Shape, Nested
  <2> QED BY <1>2, <2>1, <2>2 DEF IsDir
<1>4. Housed'
  <2> SUFFICES ASSUME NEW w \in Ops, stage'[w].on PROVE IsDir(stage[w].dir)'
    BY DEF Housed
  <2>1. Kind(stage'[w].dir) = "dir"
    BY DEF StagesHoused, IsDir
  <2>2. stage'[w].dir \in Paths \cup {Root}
    BY DEF StageOK, Stages
  <2> QED BY <1>1, <2>1, <2>2 DEF IsDir, Kind
<1> QED BY <1>3, <1>4 DEF Shape

\* an entry that goes: there was nothing in it,
LEMMA ShrinksShape ==
  ASSUME FilesTypeOK, Shape, NEW q \in Paths, Shrinks(q)
  PROVE  Shape'
<1>0. DOMAIN node = Paths
  BY DEF FilesTypeOK
<1>1. \A p \in Paths : node'[p] = IF p = q THEN NoNode ELSE node[p]
  BY <1>0 DEF Shrinks
<1>2. \A p \in Paths \cup {Root} : p # q => Kind(p)' = Kind(p)
  BY <1>1 DEF Kind
<1>3. ~Present(q)'
  BY <1>1, PathsAre DEF Present, Kind, NoNode
<1>4. Nested'
  <2> SUFFICES ASSUME NEW p \in Paths, NEW i \in 1 .. Len(p) - 1, Present(p)'
               PROVE  IsDir(SubSeq(p, 1, i))'
    BY DEF Nested
  <2>1. p # q /\ Present(p)
    BY <1>2, <1>3 DEF Present
  <2>2. SubSeq(p, 1, i) \in Paths /\ IsDir(SubSeq(p, 1, i))
    BY <2>1, CutsArePaths DEF Shape, Nested
  <2>3. SubSeq(p, 1, i) # q
    <3> SUFFICES ASSUME SubSeq(p, 1, i) = q PROVE FALSE
      OBVIOUS
    <3>1. Empty(q)
      BY <2>2 DEF Shrinks
    <3>2. p \in Seq(Names) /\ Len(p) \in Nat
      BY PathsAre
    <3>3. i + 1 \in 1 .. Len(p) /\ i + 1 \in 0 .. Len(p)
      BY <3>2
    <3> DEFINE c == SubSeq(p, 1, i + 1)
    <3>4. c \in Paths /\ Len(c) = i + 1 /\ Front(c) = SubSeq(c, 1, i)
      <4>1. c \in Paths /\ Len(c) = i + 1
        BY <3>2, <3>3, PathsAre, CutIs
      <4>2. Front(c) = SubSeq(c, 1, Len(c) - 1)
        BY <4>1, PathsAre
      <4> QED BY <4>1, <4>2
    <3>5. Front(c) = q
      <4>1. i \in 0 .. Len(c) /\ i \in 0 .. Len(p) /\ c \in Seq(Names)
        BY <3>2, <3>3, <3>4, PathsAre
      <4>2. \A j \in 1 .. i + 1 : c[j] = p[j]
        BY <3>2, <3>3, CutIs
      <4>3. SubSeq(c, 1, i) \in Seq(Names) /\ Len(SubSeq(c, 1, i)) = i
            /\ \A j \in 1 .. i : SubSeq(c, 1, i)[j] = c[j]
        BY <4>1, CutIs
      <4>4. SubSeq(p, 1, i) \in Seq(Names) /\ Len(SubSeq(p, 1, i)) = i
            /\ \A j \in 1 .. i : SubSeq(p, 1, i)[j] = p[j]
        BY <3>2, <4>1, CutIs
      <4> HIDE DEF c
      <4>5. SubSeq(c, 1, i) = SubSeq(p, 1, i)
        BY <4>2, <4>3, <4>4, SeqEqual
      <4> QED BY <3>4, <4>5
    <3>6. Present(c)
      <4>1. CASE i + 1 = Len(p)
        <5>1. c = p
          BY <3>2, <4>1
        <5> QED BY <2>1, <5>1
      <4>2. CASE i + 1 # Len(p)
        <5>1. i + 1 \in 1 .. Len(p) - 1
          BY <3>2, <3>3, <4>2
        <5> QED BY <2>1, <5>1 DEF Shape, Nested, Present, IsDir
      <4> QED BY <4>1, <4>2
    <3> HIDE DEF c
    <3> QED BY <3>1, <3>4, <3>5, <3>6 DEF Empty
  <2> QED BY <1>2, <2>2, <2>3 DEF IsDir
<1>5. Housed'
  <2> SUFFICES ASSUME NEW w \in Ops, stage'[w].on PROVE IsDir(stage[w].dir)'
    BY DEF Housed
  <2>0. stage'[w] = stage[w]
    BY DEF Shrinks
  <2>1. IsDir(stage[w].dir) /\ stage[w].dir \in Paths \cup {Root}
    BY <2>0 DEF Shape, Housed, FilesTypeOK
  <2>2. stage[w].dir # q
    BY <2>0, <2>1 DEF Shrinks, Empty
  <2>3. stage[w].dir = Root \/ node'[stage[w].dir] = node[stage[w].dir]
    BY <1>1, <2>1, <2>2
  <2> QED BY <2>0, <2>1, <2>3 DEF IsDir, Kind
<1> QED BY <1>4, <1>5 DEF Shape

\* Where everything is after a rename: what was below "from" is at the same
\* place below "to", and of the rest nothing is lost.
LEMMA MovesLookBack ==
  ASSUME FilesTypeOK, Shape, NEW from \in Paths, NEW to \in Paths, Moves(from, to),
         NEW p \in Paths, Present(p)'
  PROVE  \/ /\ IsPrefix(to, p) /\ Rebased(p, to, from) \in Paths
            /\ node'[p] = node[Rebased(p, to, from)] /\ Present(Rebased(p, to, from))
         \/ ~IsPrefix(to, p) /\ ~IsPrefix(from, p) /\ node'[p] = node[p] /\ Present(p)
<1>1. node'[p] = IF IsPrefix(to, p)
                 THEN IF Rebased(p, to, from) \in Paths THEN node[Rebased(p, to, from)]
                                                        ELSE NoNode
                 ELSE IF IsPrefix(from, p) THEN NoNode ELSE node[p]
  BY DEF Moves, Moved
<1>2. node'[p].kind # "none"
  BY PathsAre DEF Present, Kind
<1> QED BY <1>1, <1>2, PathsAre DEF NoNode, Present, Kind

\* Where an entry goes in a rename.
LEMMA MovesLookAhead ==
  ASSUME FilesTypeOK, Shape, NEW from \in Paths, NEW to \in Paths, Moves(from, to),
         NEW p \in Paths, Present(p), ~Present(to) \/ IsDir(p)
  PROVE  \/ /\ IsPrefix(from, p) /\ Rebased(p, from, to) \in Paths
            /\ node'[Rebased(p, from, to)] = node[p]
         \/ ~IsPrefix(from, p) /\ node'[p] = node[p]
<1>0. p \in Seq(Names) /\ from \in Seq(Names) /\ to \in Seq(Names)
  BY PathsAre
<1>1. ASSUME NEW q \in Paths
      PROVE  node'[q] = IF IsPrefix(to, q)
                        THEN IF Rebased(q, to, from) \in Paths THEN node[Rebased(q, to, from)]
                                                               ELSE NoNode
                        ELSE IF IsPrefix(from, q) THEN NoNode ELSE node[q]
  BY DEF Moves, Moved
<1>2. CASE IsPrefix(from, p)
  <2>1. Rebased(p, from, to) \in Paths
    <3>1. ASSUME IsStrictPrefix(from, to) PROVE FALSE
      <4>1. /\ from # to /\ IsPrefix(from, to) /\ Len(from) \in Nat \ {0} /\ Len(to) \in Nat
            /\ IsDir(Front(to)) /\ ~IsDir(from)
        BY <3>1, PathsAre DEF IsStrictPrefix, Moves
      <4>2. Len(from) <= Len(to) /\ from = SubSeq(to, 1, Len(from))
        BY <1>0, <4>1, PrefixIs, PrefixIsCut
      <4>3. ASSUME Len(from) = Len(to) PROVE FALSE
        BY <1>0, <4>1, <4>2, <4>3, SeqEqual, CutIs
      <4>4. Len(from) \in 1 .. Len(to) - 1
        BY <4>1, <4>2, <4>3
      <4>5. IsDir(SubSeq(to, 1, Len(from)))
        BY <4>1, <4>4, FrontIsAbove DEF Shape
      <4> QED BY <4>1, <4>2, <4>5
    <3> QED BY <1>2, <3>1 DEF Moves, RoomToRename
  <2>2. IsPrefix(to, Rebased(p, from, to)) /\ Rebased(Rebased(p, from, to), to, from) = p
    BY <1>0, <1>2, RebasedIs, RebasedBack
  <2>3. node'[Rebased(p, from, to)] = node[p]
    BY <1>1, <2>1, <2>2
  <2> QED BY <1>2, <2>1, <2>3
<1>3. CASE ~IsPrefix(from, p)
  <2>1. ~IsPrefix(to, p)
    <3> SUFFICES ASSUME IsPrefix(to, p) PROVE FALSE
      OBVIOUS
    <3>1. p # to
      BY DEF Moves
    <3>2. IsStrictPrefix(to, p)
      BY <3>1 DEF IsStrictPrefix
    <3>3. IsDir(to)
      BY <3>2, BelowDirs DEF Shape
    <3> QED BY <3>3 DEF Moves
  <2> QED BY <1>1, <1>3, <2>1
<1> QED BY <1>2, <1>3

\* and a rename.
LEMMA MovesShape ==
  ASSUME FilesTypeOK, Shape, NEW from \in Paths, NEW to \in Paths, Moves(from, to)
  PROVE  Shape'
<1>0. from \in Seq(Names) /\ to \in Seq(Names) /\ Len(from) \in Nat \ {0} /\ Len(to) \in Nat \ {0}
  BY PathsAre
<1>d. ASSUME NEW d \in Paths, IsDir(d), ~IsPrefix(from, d) PROVE IsDir(d)'
  <2>1. node'[d] = node[d]
    BY <1>d, MovesLookAhead DEF IsDir, Present
  <2> QED BY <1>d, <2>1 DEF IsDir, Kind
<1>1. Nested'
  <2> SUFFICES ASSUME NEW p \in Paths, NEW i \in 1 .. Len(p) - 1, Present(p)'
               PROVE  IsDir(SubSeq(p, 1, i))'
    BY DEF Nested
  <2> DEFINE s == SubSeq(p, 1, i)
  <2>1. /\ p \in Seq(Names) /\ Len(p) \in Nat /\ i \in 0 .. Len(p) /\ i \in 1 .. Len(p)
        /\ s \in Paths /\ s \in Seq(Names) /\ Len(s) = i /\ IsPrefix(s, p)
    <3>1. p \in Seq(Names) /\ Len(p) \in Nat
      BY PathsAre
    <3>2. i \in 0 .. Len(p) /\ i \in 1 .. Len(p)
      BY <3>1
    <3> QED BY <3>1, <3>2, CutsArePaths, CutIs
  <2>2. CASE ~IsPrefix(to, p)
    <3>1. ~IsPrefix(from, p) /\ Present(p)
      BY <2>2, MovesLookBack
    <3>2. ~IsPrefix(from, s)
      BY <1>0, <2>1, <3>1, PrefixTransitive
    <3>3. IsDir(s)
      BY <3>1 DEF Shape, Nested
    <3> HIDE DEF s
    <3>4. IsDir(s)'
      BY <1>d, <2>1, <3>2, <3>3
    <3> QED BY <3>4 DEF s
  <2>3. CASE IsPrefix(to, p)
    <3> DEFINE q == Rebased(p, to, from)
    <3>1. q \in Paths /\ Present(q)
      BY <2>3, MovesLookBack
    <3>2. Len(to) <= Len(p) /\ Len(q) = Len(from) + (Len(p) - Len(to))
      BY <1>0, <2>1, <2>3, PrefixIs, RebasedIs
    <3>3. CASE i >= Len(to)
      <4> DEFINE j == Len(from) + (i - Len(to))
      <4>1. i \in Len(to) .. Len(p) /\ j \in 1 .. Len(q) - 1
        BY <1>0, <2>1, <3>2, <3>3
      <4>2. IsPrefix(to, s) /\ Rebased(s, to, from) = SubSeq(q, 1, j)
        BY <1>0, <2>1, <2>3, <4>1, RebasedCut
      <4>3. SubSeq(q, 1, j) \in Paths /\ SubSeq(q, 1, j) # Root
        BY <3>1, <4>1, CutsArePaths
      <4>4. IsDir(SubSeq(q, 1, j))
        BY <3>1, <4>1 DEF Shape, Nested
      <4> HIDE DEF j, q
      <4>5. node'[s] = node[SubSeq(q, 1, j)]
        BY <2>1, <4>2, <4>3 DEF Moves, Moved
      <4>6. s # Root
        BY <2>1, PathsAre
      <4> HIDE DEF s
      <4>7. IsDir(s)'
        BY <4>3, <4>4, <4>5, <4>6 DEF IsDir, Kind
      <4> QED BY <4>7 DEF s
    <3>4. CASE i < Len(to)
      <4>1. i \in 1 .. Len(to) - 1 /\ i \in 0 .. Len(to)
        BY <1>0, <3>4
      <4>2. SubSeq(to, 1, i) = s
        <5>1. /\ SubSeq(to, 1, i) \in Seq(Names) /\ Len(SubSeq(to, 1, i)) = i
              /\ \A k \in 1 .. i : SubSeq(to, 1, i)[k] = to[k]
          BY <1>0, <4>1, CutIs
        <5>2. \A k \in 1 .. i : s[k] = p[k]
          BY <2>1, CutIs
        <5>3. \A k \in 1 .. Len(to) : to[k] = p[k]
          BY <1>0, <2>1, <2>3, PrefixIs
        <5>4. \A k \in 1 .. i : k \in 1 .. Len(to)
          BY <1>0, <4>1
        <5> HIDE DEF s
        <5> QED BY <2>1, <5>1, <5>2, <5>3, <5>4, SeqEqual
      <4>3. IsDir(Front(to))
        BY DEF Moves
      <4>4. IsDir(s) /\ IsPrefix(s, Front(to)) /\ IsPrefix(s, to)
        <5>1. IsDir(SubSeq(to, 1, i)) /\ IsPrefix(SubSeq(to, 1, i), Front(to))
          BY <4>1, <4>3, FrontIsAbove DEF Shape
        <5>2. IsPrefix(SubSeq(to, 1, i), to)
          BY <1>0, <4>1, CutIs
        <5> QED BY <4>2, <5>1, <5>2
      <4>5. ~IsPrefix(from, s)
        <5> SUFFICES ASSUME IsPrefix(from, s) PROVE FALSE
          OBVIOUS
        <5>1. IsDir(from)
          <6>1. CASE from = s
            BY <4>4, <6>1
          <6>2. CASE from # s
            <7>1. IsStrictPrefix(from, s) /\ Present(s)
              BY <4>4, <6>2 DEF IsStrictPrefix, IsDir, Present
            <7> QED BY <2>1, <7>1, BelowDirs DEF Shape
          <6> QED BY <6>1, <6>2
        <5>2. IsPrefix(from, to)
          BY <1>0, <2>1, <4>4, PrefixTransitive
        <5>3. from # to
          BY <5>1 DEF Moves
        <5> QED BY <5>1, <5>2, <5>3 DEF Moves, IsStrictPrefix
      <4> HIDE DEF s
      <4>6. IsDir(s)'
        BY <1>d, <2>1, <4>4, <4>5
      <4> QED BY <4>6 DEF s
    <3> QED BY <1>0, <2>1, <3>3, <3>4
  <2> QED BY <2>2, <2>3
<1>2. Housed'
  <2> SUFFICES ASSUME NEW w \in Ops, stage'[w].on PROVE IsDir(stage[w].dir)'
    BY DEF Housed
  <2>1. stage'[w] = IF stage[w].on /\ IsPrefix(from, stage[w].dir)
                    THEN [stage[w] EXCEPT !.dir = Rebased(stage[w].dir, from, to)]
                    ELSE stage[w]
    BY DEF Moves, Moved
  <2>2. stage[w] \in Stages
    BY TypesAre DEF StageOK
  <2>3. stage[w].on
    BY <2>1, <2>2 DEF Stages
  <2>4. PICK d \in Paths \cup {Root} : d = stage[w].dir
    BY <2>2 DEF Stages
  <2>5. IsDir(d)
    BY <2>3, <2>4 DEF Shape, Housed
  <2>6. CASE IsPrefix(from, d)
    <3>1. d \in Paths
      BY <2>4, <2>6, RootIsAbove
    <3>2. stage'[w].dir = Rebased(d, from, to)
      BY <2>1, <2>2, <2>3, <2>4, <2>6 DEF Stages
    <3>3. Rebased(d, from, to) \in Paths /\ node'[Rebased(d, from, to)] = node[d]
      BY <2>5, <2>6, <3>1, MovesLookAhead DEF IsDir, Present
    <3>4. node[d].kind = "dir" /\ Rebased(d, from, to) # Root
      BY <2>5, <3>1, <3>3, PathsAre DEF IsDir, Kind
    <3> QED BY <3>2, <3>3, <3>4 DEF IsDir, Kind
  <2>7. CASE ~IsPrefix(from, d)
    <3>1. stage'[w].dir = d
      BY <2>1, <2>4, <2>7
    <3>2. d = Root \/ node'[d] = node[d]
      BY <2>5, <2>7, MovesLookAhead DEF IsDir, Present
    <3> QED BY <2>5, <3>1, <3>2 DEF IsDir, Kind
  <2> QED BY <2>6, <2>7
<1> QED BY <1>1, <1>2 DEF Shape

\* What is filled, and whose it is, before it is published.
Filled(o) ==
  /\ pc[o] = "fill" => stage[o].filled < Chunks
  /\ pc[o] \in {"handfile", "check", "publish"} /\ req[o].verb \in {"write", "copy"} =>
       stage[o].filled = Chunks
  /\ pc[o] \in {"check", "publish"} => stage[o].owner = "drive"

\* One request of Routed, with what is known of its staging file.
Row(o) ==
  /\ pc[o] = "idle" => req[o] = NoReq /\ pairs[o] = 0
  /\ pc[o] # "idle" => req[o] \in Requests
  /\ req[o].verb = "copy" => pairs[o] < Len(req[o].pairs)
  /\ Placed(o)
  /\ Filled(o)

\* Routed and Filled, request by request.
LEMMA RowsAre == (\A o \in Ops : Row(o)) <=> Routed /\ \A o \in Ops : Filled(o)
BY DEF Row, Routed, Asked, Paired

\* A request that answers is done.
LEMMA AnswerRow ==
  ASSUME FilesTypeOK, Routed, NEW o \in Ops, NEW r, Answer(o, r), Fixed, UNCHANGED pairs,
         pc[o] # "idle"
  PROVE  Row(o)'
<1>1. pc'[o] = "done" /\ req'[o] = req[o] /\ pairs'[o] = pairs[o]
  BY DEF Answer, Goto, Fixed, FilesTypeOK
<1> QED BY <1>1 DEF Row, Routed, Asked, Paired, Placed, Filled

\* Serving a request keeps its own row, and the type of the staging files as
\* long as no directory moves.
LEMMA OwnRowStep ==
  ASSUME FilesTypeOK, Routed, \A w \in Ops : Filled(w), NEW o \in Ops, Serve(o)
  PROVE  Row(o)'
<1>0. Row(o) /\ Chunks \in Nat \ {0} /\ RowsOK /\ NodeOK /\ StageOK /\ RowsOK'
  BY RowsAre, TreeAssumption, TypesAre, RowsStep
<1>s. stage[o] \in Stages /\ stage[o].filled \in 0 .. Chunks
  BY <1>0 DEF StageOK, Stages
<1>d. /\ DOMAIN pc = Ops /\ DOMAIN req = Ops /\ DOMAIN missing = Ops /\ DOMAIN pairs = Ops
      /\ DOMAIN stage = Ops
  BY <1>0 DEF RowsOK, StageOK
<1>a. ASSUME pc[o] # "idle", Fixed, UNCHANGED pairs, Answer(o, "ok") \/ Answer(o, "error")
      PROVE  Row(o)'
  BY <1>a, AnswerRow
<1>f. ASSUME pc[o] # "idle", Fixed, Fail(o) \/ ChownFails(o) PROVE Row(o)'
  BY <1>a, <1>f DEF Fail, ChownFails
\* Steps that go on with the same request.
<1>g. ASSUME pc[o] # "idle", Fixed, pairs'[o] = pairs[o], Placed(o)', Filled(o)', pc'[o] # "idle"
      PROVE  Row(o)'
  BY <1>0, <1>g DEF Row, Fixed
<1> USE DEF Goto, At
<1>1. ASSUME NEW r \in Requests, Accept(o, r) PROVE Row(o)'
  <2>1. pc'[o] = "begin" /\ req'[o] = r /\ pairs'[o] = 0
    BY <1>0, <1>1, <1>d DEF Accept, Row
  <2>2. r.verb = "copy" => r.pairs \in Seq([src : Paths, dest : Paths]) /\ Len(r.pairs) > 0
    BY RequestsAre
  <2>3. pc'[o] # "idle" /\ req'[o] \in Requests
        /\ (req'[o].verb = "copy" => pairs'[o] < Len(req'[o].pairs))
    BY <2>1, <2>2
  <2> QED BY <2>1, <2>3 DEF Row, Placed, Filled
<1>2. CASE Begin(o)
  <2>1. CASE Fail(o)
    BY <1>2, <1>f, <2>1 DEF Begin
  <2>2. CASE ~Fail(o)
    <3>1. /\ pc'[o] = FirstStep(req[o].verb) /\ UNCHANGED << req, pairs, stage, noReplace >>
          /\ pc[o] = "begin" /\ Fixed
      BY <1>2, <1>d, <2>2 DEF Begin, Fixed
    <3>2. req[o].verb \in {"write", "ensure", "mkdirall", "copy", "mkdir", "remove", "removeall",
                           "rename"}
      BY <1>0, <3>1, RequestsAre DEF Row, Makers
    <3>3. /\ pc'[o] \in {"dirs", "mkdir", "remove", "lstat"}
          /\ pc'[o] = "dirs" => req[o].verb \in {"write", "ensure", "mkdirall", "copy"}
          /\ pc'[o] = "mkdir" => req[o].verb = "mkdir"
          /\ pc'[o] = "remove" => req[o].verb \in {"remove", "removeall"}
          /\ pc'[o] = "lstat" => req[o].verb = "rename"
      BY <3>1, <3>2 DEF FirstStep
    <3>4. Placed(o)' /\ Filled(o)'
      BY <3>1, <3>3 DEF Placed, Filled, Makers
    <3> QED BY <1>g, <3>1, <3>3, <3>4
  <2> QED BY <2>1, <2>2
<1>3. CASE ListMissing(o)
  <2>1. CASE Fail(o)
    BY <1>3, <1>f, <2>1 DEF ListMissing
  <2>2. CASE ~Fail(o)
    <3>1. /\ pc'[o] = "mkdir" /\ UNCHANGED << req, pairs, stage, noReplace >>
          /\ pc[o] = "dirs" /\ Fixed
      BY <1>3, <1>d, <2>2 DEF ListMissing, Fixed
    <3>2. Placed(o)' /\ Filled(o)'
      BY <1>0, <3>1 DEF Row, Placed, Filled
    <3> QED BY <1>g, <3>1, <3>2
  <2> QED BY <2>1, <2>2
<1>4. CASE MakeDir(o)
  <2>1. CASE Fail(o)
    BY <1>4, <1>f, <2>1 DEF MakeDir
  <2>2. CASE ~Fail(o)
    <3>1. /\ \/ pc'[o] = "mkdir"
             \/ pc'[o] = "hand" /\ missing'[o] # << >>
          /\ UNCHANGED << req, pairs, stage, noReplace >> /\ pc[o] = "mkdir" /\ Fixed
      BY <1>4, <1>d, <2>2 DEF MakeDir, Fixed
    <3>2. Placed(o)' /\ Filled(o)'
      BY <1>0, <3>1 DEF Row, Placed, Filled
    <3> QED BY <1>g, <3>1, <3>2
  <2> QED BY <2>1, <2>2
<1>5. CASE HandDir(o)
  <2>1. CASE Fail(o) \/ ChownFails(o)
    BY <1>5, <1>f, <2>1 DEF HandDir
  <2>2. CASE ~(Fail(o) \/ ChownFails(o))
    <3>1. /\ pc'[o] = "mkdir" /\ UNCHANGED << req, pairs, stage, noReplace >>
          /\ pc[o] = "hand" /\ Fixed
      BY <1>5, <1>d, <2>2 DEF HandDir, Fixed
    <3>2. Placed(o)' /\ Filled(o)'
      BY <1>0, <3>1 DEF Row, Placed, Filled
    <3> QED BY <1>g, <3>1, <3>2
  <2> QED BY <2>1, <2>2
<1>6. CASE MkdirDone(o)
  BY <1>6, <1>a DEF MkdirDone, DirsReady
<1>7. CASE CreateStaging(o)
  <2>1. CASE Fail(o)
    BY <1>7, <1>f, <2>1 DEF CreateStaging, DirsReady
  <2>2. CASE ~Fail(o)
    <3>1. /\ pc'[o] = "fill" /\ UNCHANGED << req, pairs, noReplace >>
          /\ pc[o] = "mkdir" /\ Fixed /\ req[o].verb \in {"write", "copy"}
          /\ stage'[o].filled = 0
      BY <1>7, <1>d, <2>2 DEF CreateStaging, DirsReady, Fixed
    <3>2. Placed(o)' /\ Filled(o)'
      BY <1>0, <3>1 DEF Placed, Filled
    <3> QED BY <1>g, <3>1, <3>2
  <2> QED BY <2>1, <2>2
<1>8. CASE Fill(o)
  <2>1. CASE Fail(o)
    BY <1>8, <1>f, <2>1 DEF Fill
  <2>2. CASE ~Fail(o)
    <3> DEFINE n == IF req[o].verb = "copy" THEN Chunks ELSE stage[o].filled + 1
    <3>1. /\ pc'[o] = IF n = Chunks THEN "handfile" ELSE "fill"
          /\ UNCHANGED << req, pairs, noReplace >> /\ pc[o] = "fill" /\ Fixed
          /\ stage' = [stage EXCEPT ![o].filled = n]
      BY <1>8, <1>d, <2>2 DEF Fill, Fixed
    <3>2. stage[o].filled < Chunks /\ req[o].verb \in {"write", "copy"}
      BY <1>0, <3>1 DEF Row, Placed, Filled
    <3>3. stage'[o].filled = n
      BY <1>s, <1>d, <3>1 DEF Stages
    <3>4. n \in 0 .. Chunks
      BY <1>0, <1>s, <3>2
    <3>5. Placed(o)'
      BY <3>1, <3>2 DEF Placed
    <3>6. Filled(o)'
      <4> HIDE DEF n
      <4> QED BY <1>0, <3>1, <3>3, <3>4 DEF Filled
    <3>7. pc'[o] # "idle"
      BY <3>1
    <3> QED BY <1>g, <3>1, <3>5, <3>6, <3>7
  <2> QED BY <2>1, <2>2
<1>9. CASE HandStaged(o)
  <2>1. CASE ChownFails(o)
    BY <1>9, <1>f, <2>1 DEF HandStaged
  <2>2. CASE ~ChownFails(o)
    <3>1. /\ pc'[o] = IF req[o].verb = "write" THEN "check" ELSE "publish"
          /\ UNCHANGED << req, pairs, noReplace >> /\ pc[o] = "handfile" /\ Fixed
          /\ req[o].verb \in {"write", "copy"}
          /\ stage' = [stage EXCEPT ![o].owner = "drive"]
      BY <1>9, <1>d, <2>2 DEF HandStaged, Fixed
    <3>2. stage'[o].owner = "drive" /\ stage'[o].filled = stage[o].filled
      BY <1>s, <1>d, <3>1 DEF Stages
    <3>3. stage[o].filled = Chunks
      BY <1>0, <3>1 DEF Row, Filled
    <3>4. Placed(o)' /\ Filled(o)'
      BY <3>1, <3>2, <3>3 DEF Placed, Filled
    <3> QED BY <1>g, <3>1, <3>4
  <2> QED BY <2>1, <2>2
<1>10. CASE LastCheck(o)
  <2>1. CASE Fail(o)
    BY <1>10, <1>f, <2>1 DEF LastCheck
  <2>2. CASE ~Fail(o)
    <3>1. /\ pc'[o] = "publish" /\ UNCHANGED << req, pairs, stage, noReplace >>
          /\ pc[o] = "check" /\ Fixed
      BY <1>10, <1>d, <2>2 DEF LastCheck, Fixed
    <3>2. Placed(o)' /\ Filled(o)'
      BY <1>0, <3>1 DEF Row, Placed, Filled
    <3> QED BY <1>g, <3>1, <3>2
  <2> QED BY <2>1, <2>2
<1>11. CASE Publish(o)
  <2>1. CASE Fail(o)
    BY <1>11, <1>f, <2>1 DEF Publish
  <2>2. CASE UNCHANGED pairs /\ (Answer(o, "ok") \/ Answer(o, "error"))
    BY <1>11, <1>a, <2>2 DEF Publish
  <2>3. CASE ~Fail(o) /\ ~(UNCHANGED pairs /\ (Answer(o, "ok") \/ Answer(o, "error")))
    <3>1. /\ pc'[o] = "dirs" /\ UNCHANGED << req, noReplace >> /\ pc[o] = "publish" /\ Fixed
          /\ req[o].verb = "copy" /\ pairs[o] + 1 < Len(req[o].pairs)
          /\ pairs'[o] = pairs[o] + 1
      BY <1>11, <1>d, <2>3 DEF Publish, Fixed
    <3>2. Placed(o)' /\ Filled(o)'
      BY <3>1 DEF Placed, Filled, Makers
    <3> QED BY <1>0, <3>1, <3>2 DEF Row
  <2> QED BY <2>1, <2>2, <2>3
<1>12. CASE OpenExclusive(o)
  <2>1. /\ pc'[o] \in {"handfile", "verify"} /\ UNCHANGED << req, pairs, stage, noReplace >>
        /\ pc[o] = "mkdir" /\ Fixed /\ req[o].verb = "ensure"
    BY <1>12, <1>d DEF OpenExclusive, DirsReady, Fixed
  <2>2. Placed(o)' /\ Filled(o)'
    BY <2>1 DEF Placed, Filled
  <2> QED BY <1>g, <2>1, <2>2
<1>13. CASE VerifyOwner(o)
  BY <1>13, <1>a, <1>f DEF VerifyOwner
<1>14. CASE HandEnsured(o)
  BY <1>14, <1>a, <1>f DEF HandEnsured
<1>15. CASE RemoveOne(o)
  BY <1>15, <1>a, <1>f DEF RemoveOne
<1>16. CASE RemoveTree(o)
  <2>1. CASE Fail(o) \/ (Answer(o, "ok") /\ UNCHANGED pairs)
    BY <1>16, <1>a, <1>f, <2>1 DEF RemoveTree
  <2>2. CASE ~(Fail(o) \/ (Answer(o, "ok") /\ UNCHANGED pairs))
    <3>1. UNCHANGED << req, pairs, pc, noReplace >> /\ pc[o] = "remove" /\ Fixed
      BY <1>16, <2>2 DEF RemoveTree, Fixed
    <3>2. Placed(o)' /\ Filled(o)'
      BY <1>0, <3>1 DEF Row, Placed, Filled
    <3> QED BY <1>g, <3>1, <3>2
  <2> QED BY <2>1, <2>2
<1>17. CASE LookAtSource(o)
  <2>1. CASE Fail(o)
    BY <1>17, <1>f, <2>1 DEF LookAtSource
  <2>2. CASE ~Fail(o)
    <3>1. /\ pc'[o] = "rename" /\ UNCHANGED << req, pairs, stage, noReplace >>
          /\ pc[o] = "lstat" /\ Fixed
      BY <1>17, <1>d, <2>2 DEF LookAtSource, Fixed
    <3>2. Placed(o)' /\ Filled(o)'
      BY <1>0, <3>1 DEF Row, Placed, Filled
    <3> QED BY <1>g, <3>1, <3>2
  <2> QED BY <2>1, <2>2
<1>18. ASSUME NEW from, NEW to, PlainRename(o, from, to), Fixed, pc[o] # "idle" PROVE Row(o)'
  BY <1>18, <1>a, <1>f DEF PlainRename
<1>19. CASE RenameNoReplace(o)
  <2>1. CASE Fail(o) \/ PlainRename(o, req[o].path, req[o].to)
    BY <1>19, <1>18, <1>f, <2>1 DEF RenameNoReplace
  <2>2. CASE ~(Fail(o) \/ PlainRename(o, req[o].path, req[o].to))
    <3>1. /\ pc'[o] = "replace" /\ UNCHANGED << req, pairs, stage, noReplace >>
          /\ pc[o] = "rename" /\ Fixed /\ ~noReplace
      BY <1>19, <1>d, <2>2 DEF RenameNoReplace, Fixed
    <3>2. Placed(o)' /\ Filled(o)'
      BY <1>0, <3>1 DEF Row, Placed, Filled
    <3> QED BY <1>g, <3>1, <3>2
  <2> QED BY <2>1, <2>2
<1>20. CASE RenameFallback(o)
  BY <1>20, <1>18 DEF RenameFallback
<1> QED BY <1>1, <1>2, <1>3, <1>4, <1>5, <1>6, <1>7, <1>8, <1>9, <1>10, <1>11, <1>12, <1>13,
           <1>14, <1>15, <1>16, <1>17, <1>19, <1>20 DEF Serve

\* Serving a request keeps the rows of all.
LEMMA RowStep ==
  ASSUME FilesTypeOK, Routed, \A w \in Ops : Filled(w), NEW o \in Ops, Serve(o)
  PROVE  Routed' /\ \A w \in Ops : Filled(w)'
<1>1. ASSUME NEW w \in Ops PROVE Row(w)'
  <2>1. CASE w = o
    BY <2>1, OwnRowStep
  <2>2. CASE w # o
    <3>1. /\ pc'[w] = pc[w] /\ req'[w] = req[w] /\ missing'[w] = missing[w]
          /\ pairs'[w] = pairs[w] /\ stage'[w].filled = stage[w].filled
          /\ stage'[w].owner = stage[w].owner
      BY <2>2, OthersWait
    <3>2. Row(w)
      BY RowsAre
    <3>3. UNCHANGED noReplace
      BY DEF Serve, Accept, Begin, ListMissing, MakeDir, HandDir, MkdirDone, CreateStaging, Fill,
             HandStaged, LastCheck, Publish, OpenExclusive, VerifyOwner, HandEnsured, RemoveOne,
             RemoveTree, LookAtSource, RenameNoReplace, RenameFallback, Fixed
    <3> QED BY <3>1, <3>2, <3>3 DEF Row, Placed, Filled
  <2> QED BY <2>1, <2>2
<1>2. Routed' /\ \A w \in Ops : Filled(w)'
  BY <1>1 DEF Row, Routed, Asked, Paired
<1> QED BY <1>2

\* Serving a request keeps the type of the staging files.
LEMMA StageStep ==
  ASSUME FilesTypeOK, Routed, \A w \in Ops : Filled(w), Shape, NEW o \in Ops, Serve(o)
  PROVE  StageOK'
<1>0. StageOK /\ Chunks \in Nat \ {0} /\ stage[o] \in Stages /\ DOMAIN stage = Ops
  BY TypesAre, TreeAssumption DEF StageOK
<1>f. ASSUME Fixed, Fail(o) \/ ChownFails(o) PROVE StageOK'
  BY <1>f, AnswerTypes
<1>u. ASSUME UNCHANGED stage PROVE StageOK'
  BY <1>0, <1>u DEF StageOK
<1>o. ASSUME NEW x \in Stages, NEW s \in Ops, stage' = [stage EXCEPT ![s] = x] PROVE StageOK'
  BY <1>0, <1>o DEF StageOK
<1>1. ASSUME NEW r \in Requests, Accept(o, r) PROVE StageOK'
  BY <1>1, <1>u DEF Accept
<1>2. CASE Begin(o) \/ ListMissing(o) \/ MakeDir(o) \/ HandDir(o) \/ MkdirDone(o) \/ LastCheck(o)
  BY <1>2, <1>f, <1>u DEF Begin, ListMissing, MakeDir, HandDir, MkdirDone, LastCheck
<1>3. CASE OpenExclusive(o) \/ VerifyOwner(o) \/ HandEnsured(o) \/ RemoveOne(o)
           \/ LookAtSource(o)
  BY <1>3, <1>f, <1>u DEF OpenExclusive, VerifyOwner, HandEnsured, RemoveOne, LookAtSource
<1>4. CASE CreateStaging(o)
  <2>1. CASE Fail(o)
    BY <1>4, <1>f, <2>1 DEF CreateStaging
  <2>2. CASE ~Fail(o)
    <3> DEFINE x == [on |-> TRUE, dir |-> TargetDir(o), owner |-> "relay", filled |-> 0]
    <3>1. stage' = [stage EXCEPT ![o] = x]
      BY <1>4, <2>2 DEF CreateStaging
    <3>2. TargetDir(o) \in Paths \cup {Root}
      BY <1>4, TargetsAre DEF CreateStaging, DirsReady, At
    <3>3. x \in Stages
      BY <1>0, <3>2 DEF Stages
    <3> QED BY <1>o, <3>1, <3>3
  <2> QED BY <2>1, <2>2
<1>5. CASE Fill(o)
  <2>1. CASE Fail(o)
    BY <1>5, <1>f, <2>1 DEF Fill
  <2>2. CASE ~Fail(o)
    <3> DEFINE n == IF req[o].verb = "copy" THEN Chunks ELSE stage[o].filled + 1
    <3>1. stage' = [stage EXCEPT ![o].filled = n] /\ pc[o] = "fill"
      BY <1>5, <2>2 DEF Fill, At
    <3>2. stage[o].filled < Chunks /\ stage[o].filled \in Nat
      BY <1>0, <3>1 DEF Filled, Stages
    <3>3. n \in 0 .. Chunks
      BY <1>0, <3>2
    <3> HIDE DEF n
    <3>4. [stage[o] EXCEPT !.filled = n] \in Stages
      BY <1>0, <3>3 DEF Stages
    <3>5. stage' = [stage EXCEPT ![o] = [stage[o] EXCEPT !.filled = n]]
      BY <3>1
    <3> QED BY <1>o, <3>4, <3>5
  <2> QED BY <2>1, <2>2
<1>6. CASE HandStaged(o)
  <2>1. CASE ChownFails(o)
    BY <1>6, <1>f, <2>1 DEF HandStaged
  <2>2. CASE ~ChownFails(o)
    <3>1. stage' = [stage EXCEPT ![o] = [stage[o] EXCEPT !.owner = "drive"]]
      BY <1>6, <2>2 DEF HandStaged
    <3>2. [stage[o] EXCEPT !.owner = "drive"] \in Stages
      BY <1>0 DEF Stages
    <3> QED BY <1>o, <3>1, <3>2
  <2> QED BY <2>1, <2>2
<1>7. CASE Publish(o)
  <2>1. NoStage \in Stages
    BY <1>0 DEF NoStage, Stages
  <2> QED BY <1>7, <1>f, <1>o, <2>1 DEF Publish
<1>8. CASE RemoveTree(o)
  <2>1. ASSUME NEW s \in Ops, stage' = [stage EXCEPT ![s].on = FALSE] PROVE StageOK'
    <3>1. [stage[s] EXCEPT !.on = FALSE] \in Stages
      BY <1>0 DEF StageOK, Stages
    <3>2. stage' = [stage EXCEPT ![s] = [stage[s] EXCEPT !.on = FALSE]]
      BY <2>1
    <3> QED BY <1>o, <3>1, <3>2
  <2>2. UNCHANGED stage \/ \E s \in Ops : stage' = [stage EXCEPT ![s].on = FALSE]
    BY <1>8, RemoveTreeStages
  <2> QED BY <1>u, <2>1, <2>2
<1>9. ASSUME pc[o] # "idle", req[o].verb = "rename", PlainRename(o, req[o].path, req[o].to), Fixed
      PROVE  StageOK'
  <2>1. CASE Fail(o)
    BY <1>9, <1>f, <2>1
  <2>2. CASE ~Fail(o)
    <3>1. req[o].path \in Paths /\ req[o].to \in Paths /\ RoomToRename(req[o].path, req[o].to)
      BY <1>9, RequestsAre DEF Routed, Asked
    <3>2. /\ Moved(req[o].path, req[o].to)
          /\ ~(IsDir(req[o].path) /\ IsStrictPrefix(req[o].path, req[o].to))
      BY <1>9, <2>2 DEF PlainRename
    <3> QED BY <3>1, <3>2, MovedTypes DEF Shape
  <2> QED BY <2>1, <2>2
<1>10. CASE RenameNoReplace(o)
  BY <1>10, <1>9, <1>f, <1>u DEF RenameNoReplace, At, Routed, Placed
<1>11. CASE RenameFallback(o)
  BY <1>11, <1>9 DEF RenameFallback, At, Routed, Placed
<1> QED BY <1>1, <1>2, <1>3, <1>4, <1>5, <1>6, <1>7, <1>8, <1>10, <1>11 DEF Serve

\* Changing the tree keeps its type, and its shape.
LEMMA NodeStep ==
  ASSUME FilesTypeOK, Shape, NEW o \in Ops, TreeStep(o)
  PROVE  NodeOK'
<1>0. NodeOK /\ NoNode \in Nodes
  BY TypesAre DEF NoNode, Nodes
<1>1. CASE UNCHANGED node
  BY <1>0, <1>1 DEF NodeOK
<1>2. ASSUME NEW c \in Paths, NEW x \in Nodes, node' = [node EXCEPT ![c] = x] PROVE NodeOK'
  BY <1>0, <1>2 DEF NodeOK
<1>3. CASE HandsOver
  <2>1. ASSUME NEW p \in Paths PROVE node'[p] \in Nodes
    <3>1. node[p] \in Nodes
      BY <1>0 DEF NodeOK
    <3>2. [node[p] EXCEPT !.owner = "drive"] \in Nodes
      BY <3>1 DEF Nodes
    <3> QED BY <1>3, <3>1, <3>2 DEF HandsOver
  <2> QED BY <1>3, <2>1 DEF HandsOver, NodeOK
<1>4. ASSUME NEW from \in Paths, NEW to \in Paths, Moves(from, to) PROVE NodeOK'
  BY <1>4, MovedTypes DEF Moves, Shape
<1>5. ASSUME NEW q \in Paths, Shrinks(q) PROVE NodeOK'
  BY <1>0, <1>2, <1>5 DEF Shrinks
<1> QED BY <1>1, <1>2, <1>3, <1>4, <1>5 DEF TreeStep, Grows

LEMMA ShapeStep ==
  ASSUME FilesTypeOK, Shape, NEW o \in Ops, TreeStep(o), StageOK'
  PROVE  Shape'
<1>1. CASE StagesHoused /\ UNCHANGED node
  <2>1. ASSUME NEW w \in Ops, stage'[w].on PROVE IsDir(stage[w].dir)'
    BY <1>1, <2>1 DEF StagesHoused, IsDir, Kind
  <2>2. Housed'
    BY <2>1 DEF Housed
  <2>3. Nested'
    BY <1>1 DEF Shape, Nested, Present, IsDir, Kind
  <2> QED BY <2>2, <2>3 DEF Shape
<1>2. ASSUME StagesHoused, NEW c \in Paths, NEW x \in Nodes, Grows(c, x) PROVE Shape'
  BY <1>2, GrowsShape
<1>3. CASE StagesHoused /\ HandsOver
  BY <1>3, HandsOverShape
<1>4. ASSUME NEW q \in Paths, Shrinks(q) PROVE Shape'
  BY <1>4, ShrinksShape
<1>5. ASSUME NEW from \in Paths, NEW to \in Paths, Moves(from, to) PROVE Shape'
  BY <1>5, MovesShape
<1> QED BY <1>1, <1>2, <1>3, <1>4, <1>5 DEF TreeStep

\* The invariant so far: types, where every request is, and the tree.
TreeInv == FilesTypeOK /\ Routed /\ (\A o \in Ops : Filled(o)) /\ Shape

\* TreeInv is inductive.
LEMMA InitTree == FilesInit => TreeInv
<1> SUFFICES ASSUME FilesInit PROVE TreeInv
  OBVIOUS
<1>1. PICK t \in Trees : node = t
  BY DEF FilesInit
<1>2. /\ t \in [Paths -> [kind : {"none", "file", "dir"}, owner : {"none", "relay", "drive"},
                          by : {"none"}, filled : BOOLEAN]]
      /\ \A p \in Paths : \A i \in 1 .. Len(p) - 1 :
           t[p].kind # "none" => t[SubSeq(p, 1, i)].kind = "dir"
  BY StartAssumption
<1>3. NodeOK
  BY <1>1, <1>2 DEF NodeOK, Nodes
<1>4. StageOK
  BY TreeAssumption DEF FilesInit, StageOK, Stages, NoStage
<1>5. RowsOK
  BY TreeAssumption DEF FilesInit, RowsOK, PCs
<1>6. ASSUME NEW o \in Ops PROVE Row(o)
  BY <1>6 DEF FilesInit, Row, Placed, Filled, NoReq
<1>7. Shape
  <2>1. Housed
    BY DEF FilesInit, Housed, NoStage
  <2>2. Nested
    BY <1>1, <1>2, CutsArePaths, PathsAre DEF Nested, Present, IsDir, Kind
  <2> QED BY <2>1, <2>2 DEF Shape
<1>8. strayed \subseteq Ops
  BY DEF FilesInit
<1> QED BY <1>3, <1>4, <1>5, <1>6, <1>7, <1>8, RowsAre, TypesAre DEF TreeInv

LEMMA StepTree == TreeInv /\ [FilesNext]_vars => TreeInv'
<1> SUFFICES ASSUME TreeInv, [FilesNext]_vars PROVE TreeInv'
  OBVIOUS
<1>0. FilesTypeOK /\ Routed /\ (\A o \in Ops : Filled(o)) /\ Shape
  BY DEF TreeInv
<1>a. strayed' \subseteq Ops
  BY <1>0 DEF FilesNext, vars, FilesTypeOK
<1>1. ASSUME NEW o \in Ops, Serve(o) PROVE TreeInv'
  <2>1. TreeStep(o)
    BY <1>0, <1>1, TreeSteps DEF Shape
  <2>2. Routed' /\ \A w \in Ops : Filled(w)'
    BY <1>0, <1>1, RowStep
  <2>3. StageOK' /\ RowsOK' /\ NodeOK'
    BY <1>0, <1>1, <2>1, StageStep, RowsStep, NodeStep
  <2>4. Shape'
    BY <1>0, <2>1, <2>3, ShapeStep
  <2>5. FilesTypeOK'
    BY <1>a, <2>3 DEF FilesTypeOK, NodeOK, StageOK, RowsOK, Nodes, Stages
  <2>6. (\A w \in Ops : Filled(w))'
    BY <2>2
  <2> QED BY <2>2, <2>4, <2>5, <2>6 DEF TreeInv
<1>2. ASSUME UNCHANGED << node, stage, req, missing, pairs, noReplace, result >>,
             pc' \in [Ops -> PCs], resetAt' \in [Ops -> {"no", "before", "after"}],
             faults' \in 0 .. MaxFaults,
             \A o \in Ops : pc'[o] = pc[o] \/ (pc[o] # "idle" /\ pc'[o] = "dead")
      PROVE  TreeInv'
  <2>1. FilesTypeOK'
    BY <1>0, <1>a, <1>2 DEF FilesTypeOK
  <2>2. ASSUME NEW o \in Ops PROVE Row(o)'
    <3>1. Row(o)
      BY <1>0, RowsAre
    <3> QED BY <1>2, <3>1 DEF Row, Placed, Filled
  <2>3. Routed' /\ (\A o \in Ops : Filled(o))'
    BY <2>2 DEF Row, Routed, Asked, Paired
  <2>4. Shape'
    BY <1>0, <1>2 DEF Shape, Nested, Housed, Present, IsDir, Kind
  <2> QED BY <2>1, <2>3, <2>4 DEF TreeInv
<1>3. MaxFaults \in Nat /\ RowsOK
  BY <1>0, TreeAssumption, TypesAre
<1>4. CASE ResetRuntime
  <2>1. resetAt' \in [Ops -> {"no", "before", "after"}] /\ faults' \in 0 .. MaxFaults
    BY <1>3, <1>4 DEF ResetRuntime, RowsOK
  <2> QED BY <1>2, <1>3, <1>4, <2>1 DEF ResetRuntime, RowsOK
<1>5. CASE Crash
  <2>1. pc' \in [Ops -> PCs] /\ faults' \in 0 .. MaxFaults
    BY <1>3, <1>5 DEF Crash, RowsOK, PCs
  <2>2. \A o \in Ops : pc'[o] = pc[o] \/ (pc[o] # "idle" /\ pc'[o] = "dead")
    BY <1>5 DEF Crash, Working
  <2> QED BY <1>2, <1>3, <1>5, <2>1, <2>2 DEF Crash, RowsOK
<1>6. CASE UNCHANGED vars
  BY <1>2, <1>3, <1>6 DEF vars, RowsOK
<1> QED BY <1>1, <1>4, <1>5, <1>6 DEF FilesNext

LEMMA TreeInvHolds == FilesSpec => []TreeInv
BY InitTree, StepTree, PTL DEF FilesSpec

\* FilesTypeOK, the types of MCFileOps.
THEOREM FilesTypeCorrect == FilesSpec => []FilesTypeOK
<1>1. TreeInv => FilesTypeOK
  BY DEF TreeInv
<1> QED BY <1>1, TreeInvHolds, PTL

-----------------------------------------------------------------------------
(* What becomes of files.                                                  *)

\* A file is one that was there, at this path or another, or one the request
\* of this step makes.
LEMMA FilesCome ==
  ASSUME FilesTypeOK, Shape, NEW o \in Ops, TreeStep(o), NEW p \in Paths, IsFile(p)'
  PROVE  \/ \E q \in Paths : /\ IsFile(q) /\ node'[p].by = node[q].by
                             /\ node'[p].filled = node[q].filled
                             /\ node'[p].owner = node[q].owner \/ node'[p].owner = "drive"
         \/ node'[p].by = o /\ Creates(o, node'[p])
<1> DEFINE Comes(q) == /\ IsFile(q) /\ node'[p].by = node[q].by
                       /\ node'[p].filled = node[q].filled
                       /\ node'[p].owner = node[q].owner \/ node'[p].owner = "drive"
           Made == node'[p].by = o /\ Creates(o, node'[p])
<1>0. NodeOK /\ DOMAIN node = Paths /\ p # Root
  BY TypesAre, PathsAre DEF NodeOK
<1>1. node'[p].kind = "file"
  BY <1>0 DEF IsFile, Kind
<1>2. ASSUME NEW q \in Paths, node'[p] = node[q] PROVE Comes(q)
  BY <1>1, <1>2, PathsAre DEF IsFile, Kind
<1> HIDE DEF Made
<1>3. ASSUME UNCHANGED node PROVE Comes(p)
  BY <1>2, <1>3
<1>4. ASSUME NEW c \in Paths, NEW x \in Nodes, Grows(c, x), x.by = o,
             x.kind = "file" => Creates(o, x)
      PROVE  Made \/ \E q \in Paths : Comes(q)
  <2>1. CASE p = c
    <3>1. node'[p] = x
      BY <1>0, <1>4, <2>1 DEF Grows
    <3> QED BY <1>1, <1>4, <3>1 DEF Made
  <2>2. CASE p # c
    <3>1. node'[p] = node[p]
      BY <1>0, <1>4, <2>2 DEF Grows
    <3> QED BY <1>2, <3>1
  <2> QED BY <2>1, <2>2
<1>5. ASSUME HandsOver PROVE Comes(p)
  <2>1. CASE node'[p] = node[p]
    BY <1>2, <2>1
  <2>2. CASE node'[p] = [node[p] EXCEPT !.owner = "drive"]
    <3>1. node[p] \in Nodes
      BY <1>0 DEF NodeOK
    <3>2. /\ node'[p].by = node[p].by /\ node'[p].filled = node[p].filled
          /\ node'[p].kind = node[p].kind /\ node'[p].owner = "drive"
      BY <2>2, <3>1 DEF Nodes
    <3> QED BY <1>0, <1>1, <3>2 DEF IsFile, Kind
  <2> QED BY <1>5, <2>1, <2>2 DEF HandsOver
<1>6. ASSUME NEW q \in Paths, Shrinks(q) PROVE Comes(p)
  <2>1. p # q
    BY <1>0, <1>1, <1>6 DEF Shrinks, NoNode
  <2>2. node'[p] = node[p]
    BY <1>0, <1>6, <2>1 DEF Shrinks
  <2> QED BY <1>2, <2>2
<1>7. ASSUME NEW from \in Paths, NEW to \in Paths, Moves(from, to)
      PROVE  \E q \in Paths : Comes(q)
  <2>1. Present(p)'
    BY <1>0, <1>1 DEF Present, Kind
  <2>2. \E q \in Paths : node'[p] = node[q]
    BY <1>7, <2>1, MovesLookBack
  <2> HIDE DEF Comes
  <2> QED BY <1>2, <2>2
<1>8. Made \/ \E q \in Paths : Comes(q)
  <2> HIDE DEF Comes
  <2> QED BY <1>3, <1>4, <1>5, <1>6, <1>7 DEF TreeStep
<1> QED BY <1>8 DEF Made

\* A file.write that may still be stopped has made no file.
Late(o) ==
  /\ pc[o] = "publish" /\ req[o].verb = "write" => resetAt[o] # "before"
  /\ req[o].verb = "write" /\ pc[o] # "done" => FileOf(o) = {}
  /\ pc[o] = "idle" => FileOf(o) = {}

\* The invariant of the files.
FilesInv == /\ TreeInv
            /\ PublishedIsComplete
            /\ ResetStopsWrites
            /\ \A o \in Ops : Late(o)

\* No request gets from "done" to anywhere.
LEMMA WhereItWas ==
  ASSUME FilesTypeOK, Routed, NEW o \in Ops, Serve(o)
  PROVE  /\ pc[o] \notin {"done", "dead"} /\ resetAt' = resetAt /\ pc'[o] # "idle"
         /\ pc[o] # "idle" => req'[o] = req[o]
         /\ pc[o] = "idle" => UNCHANGED node
         /\ pc'[o] = "publish" /\ req[o].verb = "write" => pc[o] = "check" /\ Live(o)
<1> USE DEF At, Goto, Fixed, Fail, Answer, ChownFails, FilesTypeOK, DirsReady
<1>1. ASSUME NEW r \in Requests, Accept(o, r)
      PROVE  /\ pc[o] = "idle" /\ resetAt' = resetAt /\ pc'[o] = "begin" /\ UNCHANGED node
  BY <1>1 DEF Accept
<1> DEFINE Goal == /\ pc[o] \notin {"idle", "done", "dead"} /\ UNCHANGED << resetAt, req >>
                   /\ pc'[o] # "idle"
                   /\ pc'[o] = "publish" /\ req[o].verb = "write" => pc[o] = "check" /\ Live(o)
<1>2. CASE Begin(o)
  <2>1. req[o].verb \in {"write", "ensure", "mkdirall", "copy", "mkdir", "remove", "removeall",
                         "rename"}
    BY <1>2, RequestsAre DEF Begin, Routed, Asked, Makers
  <2> QED BY <1>2, <2>1 DEF Begin, FirstStep
<1>3. CASE ListMissing(o) \/ MakeDir(o) \/ HandDir(o) \/ MkdirDone(o)
  BY <1>3 DEF ListMissing, MakeDir, HandDir, MkdirDone
<1>4. CASE CreateStaging(o) \/ Fill(o)
  BY <1>4 DEF CreateStaging, Fill
<1>5. CASE HandStaged(o) \/ LastCheck(o)
  BY <1>5 DEF HandStaged, LastCheck
<1>6. CASE Publish(o)
  BY <1>6 DEF Publish
<1>7. CASE OpenExclusive(o) \/ VerifyOwner(o) \/ HandEnsured(o)
  BY <1>7 DEF OpenExclusive, VerifyOwner, HandEnsured
<1>8. CASE RemoveOne(o) \/ LookAtSource(o)
  BY <1>8 DEF RemoveOne, LookAtSource
<1>9. CASE RemoveTree(o)
  BY <1>9 DEF RemoveTree
<1>10. CASE RenameNoReplace(o) \/ RenameFallback(o)
  BY <1>10 DEF RenameNoReplace, RenameFallback, PlainRename
<1> QED BY <1>1, <1>2, <1>3, <1>4, <1>5, <1>6, <1>7, <1>8, <1>9, <1>10 DEF Serve

\* The files of a request come from its files, unless it makes one now.
LEMMA FilesOfCome ==
  ASSUME FilesTypeOK, Shape, NEW o \in Ops, TreeStep(o), NEW w \in Ops, FileOf(w) = {},
         FileOf(w)' # {}
  PROVE  w = o /\ \E x : x.by = o /\ Creates(o, x)
<1>1. PICK p \in Paths : IsFile(p)' /\ node'[p].by = w
  BY DEF FileOf
<1>2. ASSUME NEW q \in Paths, IsFile(q), node'[p].by = node[q].by PROVE FALSE
  BY <1>1, <1>2 DEF FileOf
<1>3. node'[p].by = o /\ Creates(o, node'[p])
  BY <1>1, <1>2, FilesCome
<1> QED BY <1>1, <1>3

\* A request that is idle can only be accepted.
LEMMA IdleBegins ==
  ASSUME FilesTypeOK, NEW o \in Ops, Serve(o), pc[o] = "idle"
  PROVE  pc'[o] = "begin"
BY DEF Serve, Accept, Begin, ListMissing, MakeDir, HandDir, MkdirDone, CreateStaging, Fill,
       HandStaged, LastCheck, Publish, OpenExclusive, VerifyOwner, HandEnsured, RemoveOne,
       RemoveTree, LookAtSource, RenameNoReplace, RenameFallback, DirsReady, At, Goto, FilesTypeOK

\* Serving a request keeps what is said of files.
LEMMA FilesStep ==
  ASSUME FilesInv, NEW o \in Ops, Serve(o)
  PROVE  PublishedIsComplete' /\ ResetStopsWrites' /\ \A w \in Ops : Late(w)'
<1>0. /\ FilesTypeOK /\ Routed /\ (\A w \in Ops : Filled(w)) /\ Shape
      /\ PublishedIsComplete /\ ResetStopsWrites /\ \A w \in Ops : Late(w)
  BY DEF FilesInv, TreeInv
<1>1. TreeStep(o)
  BY <1>0, TreeSteps DEF Shape
<1>2. /\ pc[o] \notin {"done", "dead"} /\ resetAt' = resetAt /\ pc'[o] # "idle"
      /\ pc[o] # "idle" => req'[o] = req[o]
      /\ pc[o] = "idle" => UNCHANGED node
      /\ pc'[o] = "publish" /\ req[o].verb = "write" => pc[o] = "check" /\ Live(o)
  BY <1>0, WhereItWas
<1>3. \A w \in Ops : w # o => pc'[w] = pc[w] /\ req'[w] = req[w]
  BY <1>0, OthersWait
\* A file that appears is one a file.write or file.copy publishes, complete.
<1>5. ASSUME NEW x, Creates(o, x), req[o].verb \in {"write", "copy"}
      PROVE  /\ x.filled /\ x.owner = "drive" /\ pc[o] = "publish"
             /\ req[o].verb = "write" => pc'[o] = "done"
  <2>1. pc[o] = "publish" /\ x = NewFile(o, stage[o].owner, stage[o].filled = Chunks)
        /\ (req[o].verb = "write" => pc'[o] = "done")
    BY <1>5 DEF Creates, At
  <2>2. stage[o].owner = "drive" /\ stage[o].filled = Chunks
    BY <1>0, <1>5, <2>1 DEF Filled
  <2> QED BY <2>1, <2>2 DEF NewFile
<1>6. ASSUME NEW w \in Ops, pc[w] = "idle"
      PROVE  FileOf(w)' = {} /\ FileOf(w) = {}
  <2>1. FileOf(w) = {}
    BY <1>0, <1>6 DEF Late
  <2>2. CASE w = o
    <3>1. UNCHANGED node
      BY <1>2, <1>6, <2>2
    <3> QED BY <2>1, <3>1 DEF FileOf, IsFile, Kind
  <2>3. CASE w # o
    BY <1>0, <1>1, <2>1, <2>3, FilesOfCome
  <2> QED BY <2>1, <2>2, <2>3
<1>7. PublishedIsComplete'
  <2> SUFFICES ASSUME NEW w \in Ops, req'[w].verb \in {"write", "copy"},
                      NEW p \in Paths, IsFile(p)', node'[p].by = w
               PROVE  node'[p].filled /\ node'[p].owner = "drive"
    BY DEF PublishedIsComplete, FileOf
  <2>1. CASE pc[w] = "idle"
    BY <1>6, <2>1 DEF FileOf
  <2>2. CASE pc[w] # "idle"
    <3>1. req[w].verb \in {"write", "copy"}
      BY <1>2, <1>3, <2>2
    <3>2. CASE \E q \in Paths : /\ IsFile(q) /\ node'[p].by = node[q].by
                                /\ node'[p].filled = node[q].filled
                                /\ node'[p].owner = node[q].owner \/ node'[p].owner = "drive"
      BY <1>0, <3>1, <3>2 DEF PublishedIsComplete, FileOf
    <3>3. CASE node'[p].by = o /\ Creates(o, node'[p])
      BY <1>5, <3>1, <3>3
    <3> QED BY <1>0, <1>1, <3>2, <3>3, FilesCome
  <2> QED BY <2>1, <2>2
<1>8. ResetStopsWrites'
  <2> SUFFICES ASSUME NEW w \in Ops, req'[w].verb = "write", FileOf(w)' # {}
               PROVE  resetAt[w] # "before"
    BY <1>2 DEF ResetStopsWrites
  <2>1. pc[w] # "idle"
    BY <1>6
  <2>2. req[w].verb = "write"
    BY <1>2, <1>3, <2>1
  <2>3. CASE FileOf(w) # {}
    BY <1>0, <2>2, <2>3 DEF ResetStopsWrites
  <2>4. CASE FileOf(w) = {}
    <3>1. w = o /\ \E x : x.by = o /\ Creates(o, x)
      BY <1>0, <1>1, <2>4, FilesOfCome
    <3>2. pc[w] = "publish"
      BY <1>5, <2>2, <3>1
    <3> QED BY <1>0, <2>2, <3>2 DEF Late
  <2> QED BY <2>3, <2>4
<1>9. ASSUME NEW w \in Ops PROVE Late(w)'
  <2>1. ASSUME pc'[w] = "publish", req'[w].verb = "write" PROVE resetAt'[w] # "before"
    <3>1. pc[w] # "idle"
      <4>1. CASE w = o
        BY <1>0, <2>1, <4>1, IdleBegins
      <4>2. CASE w # o
        BY <1>3, <2>1, <4>2
      <4> QED BY <4>1, <4>2
    <3>2. req[w].verb = "write"
      BY <1>2, <1>3, <2>1, <3>1
    <3>3. CASE w = o
      BY <1>2, <2>1, <3>2, <3>3 DEF Live
    <3>4. CASE w # o
      BY <1>0, <1>2, <1>3, <2>1, <3>2, <3>4 DEF Late
    <3> QED BY <3>3, <3>4
  <2>2. ASSUME req'[w].verb = "write", pc'[w] # "done" PROVE FileOf(w)' = {}
    <3>1. CASE pc[w] = "idle"
      BY <1>6, <3>1
    <3>2. CASE pc[w] # "idle"
      <4>1. req[w].verb = "write" /\ pc[w] # "done"
        BY <1>2, <1>3, <2>2, <3>2
      <4>2. FileOf(w) = {}
        BY <1>0, <4>1 DEF Late
      <4>3. ASSUME FileOf(w)' # {} PROVE FALSE
        <5>1. w = o /\ \E x : x.by = o /\ Creates(o, x)
          BY <1>0, <1>1, <4>2, <4>3, FilesOfCome
        <5> QED BY <1>5, <2>2, <4>1, <5>1
      <4> QED BY <4>3
    <3> QED BY <3>1, <3>2
  <2>3. ASSUME pc'[w] = "idle" PROVE FileOf(w)' = {}
    <3>1. pc[w] = "idle"
      BY <1>2, <1>3, <2>3
    <3> QED BY <1>6, <3>1
  <2> QED BY <2>1, <2>2, <2>3 DEF Late
<1> QED BY <1>7, <1>8, <1>9

\* FilesInv is inductive.
LEMMA InitFilesInv == FilesInit => FilesInv
<1> SUFFICES ASSUME FilesInit PROVE FilesInv
  OBVIOUS
<1>1. TreeInv
  BY InitTree
<1>2. ASSUME NEW w \in Ops PROVE FileOf(w) = {}
  <2>1. w # "none"
    BY TreeAssumption
  <2>2. PICK t \in Trees : node = t
    BY DEF FilesInit
  <2>3. \A p \in Paths : node[p].by = "none"
    BY <2>2, StartAssumption
  <2> QED BY <2>1, <2>3 DEF FileOf
<1>3. PublishedIsComplete /\ ResetStopsWrites
  BY <1>2 DEF PublishedIsComplete, ResetStopsWrites
<1>4. \A w \in Ops : Late(w)
  BY <1>2 DEF Late, FilesInit
<1> QED BY <1>1, <1>3, <1>4 DEF FilesInv

LEMMA StepFilesInv == FilesInv /\ [FilesNext]_vars => FilesInv'
<1> SUFFICES ASSUME FilesInv, [FilesNext]_vars PROVE FilesInv'
  OBVIOUS
<1>1. TreeInv'
  BY StepTree DEF FilesInv
<1>2. ASSUME UNCHANGED << node, req >>,
             \A w \in Ops : /\ pc[w] = "done" => pc'[w] = "done"
                            /\ pc'[w] \in {"idle", "publish"} => pc'[w] = pc[w]
                            /\ resetAt'[w] = "before" =>
                                 resetAt[w] = "before" \/ pc[w] \notin {"publish", "done"}
                            /\ pc'[w] = "publish" /\ resetAt'[w] = "before" =>
                                 resetAt[w] = "before"
      PROVE  FilesInv'
  <2>1. \A w \in Ops : FileOf(w)' = FileOf(w)
    BY <1>2 DEF FileOf, IsFile, Kind
  <2>2. PublishedIsComplete'
    BY <1>2, <2>1 DEF FilesInv, PublishedIsComplete
  <2>3. ResetStopsWrites'
    BY <1>2, <2>1 DEF FilesInv, ResetStopsWrites, Late
  <2>4. (\A w \in Ops : Late(w))'
    BY <1>2, <2>1 DEF FilesInv, Late
  <2> QED BY <1>1, <2>2, <2>3, <2>4 DEF FilesInv
<1>3. RowsOK
  BY TypesAre DEF FilesInv, TreeInv
<1>4. ASSUME NEW o \in Ops, Serve(o) PROVE FilesInv'
  <2>1. PublishedIsComplete' /\ ResetStopsWrites' /\ (\A w \in Ops : Late(w)')
    BY <1>4, FilesStep
  <2>2. (\A w \in Ops : Late(w))'
    BY <2>1
  <2> QED BY <1>1, <2>1, <2>2 DEF FilesInv
<1>5. CASE ResetRuntime
  <2>1. ASSUME NEW w \in Ops
        PROVE  /\ pc'[w] = pc[w]
               /\ resetAt'[w] = "before" =>
                    resetAt[w] = "before" \/ pc[w] \notin {"publish", "done"}
    BY <1>3, <1>5 DEF ResetRuntime, Working, At
  <2> QED BY <1>2, <1>5, <2>1 DEF ResetRuntime
<1>6. CASE Crash
  <2>1. ASSUME NEW w \in Ops
        PROVE  /\ pc[w] = "done" => pc'[w] = "done"
               /\ pc'[w] \in {"idle", "publish"} => pc'[w] = pc[w]
    BY <1>3, <1>6 DEF Crash, Working, RowsOK
  <2> QED BY <1>2, <1>6, <2>1 DEF Crash
<1>7. CASE UNCHANGED vars
  BY <1>2, <1>7 DEF vars
<1> QED BY <1>4, <1>5, <1>6, <1>7 DEF FilesNext

LEMMA FilesInvHolds == FilesSpec => []FilesInv
BY InitFilesInv, StepFilesInv, PTL DEF FilesSpec

\* PublishedIsComplete, a file that has its name is complete.
THEOREM TargetsAreComplete == FilesSpec => []PublishedIsComplete
<1>1. FilesInv => PublishedIsComplete
  BY DEF FilesInv
<1> QED BY <1>1, FilesInvHolds, PTL

\* ResetStopsWrites, no write of a runtime that was reset reaches its target.
THEOREM ResetReachesWrites == FilesSpec => []ResetStopsWrites
<1>1. FilesInv => ResetStopsWrites
  BY DEF FilesInv
<1> QED BY <1>1, FilesInvHolds, PTL

\* What an answered file.rename did to the tree, with RENAME_NOREPLACE.
LEMMA RenameEnds ==
  ASSUME FilesTypeOK, Routed, NEW o \in Ops, Serve(o), noReplace, req[o].verb = "rename",
         pc[o] # "idle"
  PROVE  \/ UNCHANGED node
         \/ \E from \in Paths, to \in Paths : Moves(from, to) /\ ~Present(to)
<1>0. Placed(o)
  BY DEF Routed
<1>1. ASSUME NEW r \in Requests, Accept(o, r) PROVE FALSE
  BY <1>1 DEF Accept, At
<1>2. CASE Begin(o)
  BY <1>2 DEF Begin, Fail
<1>3. CASE ListMissing(o) \/ MakeDir(o) \/ HandDir(o) \/ MkdirDone(o)
  BY <1>0, <1>3 DEF ListMissing, MakeDir, HandDir, MkdirDone, DirsReady, At, Placed, Makers
<1>4. CASE CreateStaging(o) \/ Fill(o) \/ HandStaged(o) \/ LastCheck(o) \/ Publish(o)
  BY <1>0, <1>4 DEF CreateStaging, Fill, HandStaged, LastCheck, Publish, DirsReady, At, Placed,
     Makers
<1>5. CASE OpenExclusive(o) \/ VerifyOwner(o) \/ HandEnsured(o) \/ RemoveOne(o) \/ RemoveTree(o)
  BY <1>0, <1>5 DEF OpenExclusive, VerifyOwner, HandEnsured, RemoveOne, RemoveTree, DirsReady, At,
     Placed, Makers
<1>6. CASE LookAtSource(o)
  BY <1>6 DEF LookAtSource, Fail
<1>7. CASE RenameNoReplace(o)
  <2>1. CASE Fail(o)
    BY <2>1 DEF Fail
  <2>2. CASE ~Fail(o)
    <3>1. /\ ~Present(req[o].to) /\ PlainRename(o, req[o].path, req[o].to)
      BY <1>7, <2>2 DEF RenameNoReplace
    <3>2. req[o].path \in Paths /\ req[o].to \in Paths /\ RoomToRename(req[o].path, req[o].to)
      BY RequestsAre DEF Routed, Asked
    <3>3. Moves(req[o].path, req[o].to)
      BY <2>2, <3>1, <3>2 DEF PlainRename, Moves
    <3> QED BY <3>1, <3>2, <3>3
  <2> QED BY <2>1, <2>2
<1>8. CASE RenameFallback(o)
  BY <1>0, <1>8 DEF RenameFallback, At, Placed
<1> QED BY <1>1, <1>2, <1>3, <1>4, <1>5, <1>6, <1>7, <1>8 DEF Serve

\* RenameDestroysNothing, step by step.
LEMMA RenameStep ==
  ASSUME TreeInv, FilesNext, NEW o \in Ops, NEW w \in Ops, noReplace, req[o].verb = "rename",
         Working(o), pc'[o] = "done", FileOf(w) # {}
  PROVE  FileOf(w)' # {}
<1>0. FilesTypeOK /\ Routed /\ Shape /\ RowsOK
  BY TypesAre DEF TreeInv
<1>1. PICK p \in Paths : IsFile(p) /\ node[p].by = w
  BY DEF FileOf
<1>2. ASSUME NEW q \in Paths, node'[q] = node[p] PROVE FileOf(w)' # {}
  <2>1. IsFile(q)' /\ node'[q].by = w
    BY <1>1, <1>2, PathsAre DEF IsFile, Kind
  <2> QED BY <2>1 DEF FileOf
<1>3. Serve(o)
  <2>1. CASE ResetRuntime
    BY <1>0, <2>1 DEF ResetRuntime, Working
  <2>2. CASE Crash
    BY <1>0, <2>2 DEF Crash, RowsOK
  <2>3. ASSUME NEW s \in Ops, Serve(s), s # o PROVE FALSE
    BY <1>0, <2>3, OthersWait DEF Working
  <2> QED BY <2>1, <2>2, <2>3 DEF FilesNext
<1>4. CASE UNCHANGED node
  BY <1>2, <1>4
<1>5. ASSUME NEW from \in Paths, NEW to \in Paths, Moves(from, to), ~Present(to)
      PROVE  FileOf(w)' # {}
  <2>1. Present(p)
    BY <1>1 DEF IsFile, Present
  <2>2. \E q \in Paths : node'[q] = node[p]
    BY <1>0, <1>5, <2>1, MovesLookAhead
  <2> QED BY <1>2, <2>2
<1> QED BY <1>0, <1>3, <1>4, <1>5, RenameEnds DEF Working

\* RenameDestroysNothing, a file.rename keeps the files of every request.
THEOREM RenamesKeepFiles == FilesSpec => RenameDestroysNothing
<1>1. TreeInv /\ [FilesNext]_vars =>
        [\A o, w \in Ops :
           /\ noReplace /\ req[o].verb = "rename" /\ Working(o) /\ pc'[o] = "done"
           => (FileOf(w) # {} => FileOf(w)' # {})]_vars
  BY RenameStep
<1> QED BY <1>1, TreeInvHolds, PTL DEF FilesSpec, RenameDestroysNothing

-----------------------------------------------------------------------------
(* What a request leaves to the relay.                                     *)

\* An answered request is done.
Answered == \A o \in Ops : result[o] # "none" => pc[o] = "done"

\* What a request made and has not handed over, it is about to, or it has
\* failed, or the directory was taken away from under it.
Unhanded(o, p) ==
  \/ pc[o] = "hand" /\ p = Head(missing[o]) /\ node[p].kind = "dir"
  \/ pc[o] = "handfile" /\ req[o].verb = "ensure" /\ node[p].kind = "file"
  \/ pc[o] = "dead"
  \/ result[o] = "error"
  \/ o \in strayed

\* Nothing else is left to the relay.
HandedOver ==
  \A o \in Ops : \A p \in Paths :
    node[p].by = o /\ node[p].owner # "drive" => Unhanded(o, p)

\* The invariant of handing over.
HandInv == TreeInv /\ Answered /\ HandedOver

\* A request is answered in its last step.
LEMMA AnswersStep ==
  ASSUME FilesTypeOK, Routed, NEW o \in Ops, Serve(o), result[o] = "none"
  PROVE  result'[o] # "none" => pc'[o] = "done"
<1> USE DEF Goto, Fail, Answer, ChownFails, FilesTypeOK
<1>1. ASSUME NEW r \in Requests, Accept(o, r) PROVE result'[o] = "none"
  BY <1>1 DEF Accept
<1>2. CASE Begin(o) \/ ListMissing(o) \/ MakeDir(o) \/ HandDir(o) \/ MkdirDone(o)
  BY <1>2 DEF Begin, ListMissing, MakeDir, HandDir, MkdirDone
<1>3. CASE CreateStaging(o) \/ Fill(o) \/ HandStaged(o) \/ LastCheck(o)
  BY <1>3 DEF CreateStaging, Fill, HandStaged, LastCheck
<1>4. CASE Publish(o)
  BY <1>4 DEF Publish
<1>5. CASE OpenExclusive(o) \/ VerifyOwner(o) \/ HandEnsured(o)
  BY <1>5 DEF OpenExclusive, VerifyOwner, HandEnsured
<1>6. CASE RemoveOne(o) \/ LookAtSource(o)
  BY <1>6 DEF RemoveOne, LookAtSource
<1>7. CASE RemoveTree(o)
  BY <1>7 DEF RemoveTree
<1>8. CASE RenameNoReplace(o) \/ RenameFallback(o)
  BY <1>8 DEF RenameNoReplace, RenameFallback, PlainRename
<1> QED BY <1>1, <1>2, <1>3, <1>4, <1>5, <1>6, <1>7, <1>8 DEF Serve

\* What a request made is where it was, or a rename took it from where it was,
\* and it is what it was, or handed over.
LEMMA MadeStays ==
  ASSUME FilesTypeOK, Shape, NEW o \in Ops, TreeStep(o), NEW p \in Paths, node'[p] # NoNode
  PROVE  \/ \E q \in Paths : /\ node'[p].by = node[q].by /\ node'[p].kind = node[q].kind
                             /\ node'[p].owner = node[q].owner \/ node'[p].owner = "drive"
                             /\ q = p \/ (\E f \in Paths : Takes(o, f) /\ IsPrefix(f, q))
         \/ /\ node'[p].by = o
            /\ \/ node'[p].kind = "file" /\ Creates(o, node'[p])
               \/ node'[p].kind = "dir" /\ MakesDir(o, p)
<1> DEFINE Stays(q) == /\ node'[p].by = node[q].by /\ node'[p].kind = node[q].kind
                       /\ node'[p].owner = node[q].owner \/ node'[p].owner = "drive"
                       /\ q = p \/ (\E f \in Paths : Takes(o, f) /\ IsPrefix(f, q))
           Made == /\ node'[p].by = o
                   /\ \/ node'[p].kind = "file" /\ Creates(o, node'[p])
                      \/ node'[p].kind = "dir" /\ MakesDir(o, p)
<1>0. NodeOK /\ DOMAIN node = Paths /\ p # Root
  BY TypesAre, PathsAre DEF NodeOK
<1> HIDE DEF Made
<1>1. ASSUME UNCHANGED node PROVE Stays(p)
  BY <1>1
<1>2. ASSUME NEW c \in Paths, NEW x \in Nodes, Grows(c, x), x.by = o,
             x.kind = "file" => Creates(o, x), x.kind = "dir" => MakesDir(o, c)
      PROVE  Made \/ Stays(p)
  <2>1. CASE p = c
    <3>1. node'[p] = x
      BY <1>0, <1>2, <2>1 DEF Grows
    <3>2. x.kind \in {"file", "dir"}
      BY <1>2 DEF Grows, Nodes
    <3> QED BY <1>2, <2>1, <3>1, <3>2 DEF Made
  <2>2. CASE p # c
    BY <1>0, <1>2, <2>2 DEF Grows
  <2> QED BY <2>1, <2>2
<1>3. ASSUME HandsOver PROVE Stays(p)
  <2>1. node[p] \in Nodes
    BY <1>0 DEF NodeOK
  <2>2. [node[p] EXCEPT !.owner = "drive"].by = node[p].by
        /\ [node[p] EXCEPT !.owner = "drive"].kind = node[p].kind
        /\ [node[p] EXCEPT !.owner = "drive"].owner = "drive"
    BY <2>1 DEF Nodes
  <2> QED BY <1>3, <2>2 DEF HandsOver
<1>4. ASSUME NEW q \in Paths, Shrinks(q) PROVE Stays(p)
  <2>1. p # q
    BY <1>0, <1>4 DEF Shrinks
  <2> QED BY <1>0, <1>4, <2>1 DEF Shrinks
<1>5. ASSUME NEW from \in Paths, NEW to \in Paths, Takes(o, from), Moves(from, to)
      PROVE  \E q \in Paths : Stays(q)
  <2>1. node'[p] = IF IsPrefix(to, p)
                   THEN IF Rebased(p, to, from) \in Paths THEN node[Rebased(p, to, from)]
                                                          ELSE NoNode
                   ELSE IF IsPrefix(from, p) THEN NoNode ELSE node[p]
    BY <1>5 DEF Moves, Moved
  <2>2. CASE node'[p] = node[p]
    BY <2>2
  <2>3. ASSUME NEW q \in Paths, q = Rebased(p, to, from), IsPrefix(to, p), node'[p] = node[q]
        PROVE  Stays(q)
    <3>1. p \in Seq(Names) /\ from \in Seq(Names) /\ to \in Seq(Names)
      BY PathsAre
    <3>2. IsPrefix(from, q)
      BY <2>3, <3>1, RebasedIs
    <3> QED BY <1>5, <2>3, <3>2
  <2> HIDE DEF Stays
  <2> QED BY <2>1, <2>2, <2>3
<1>6. Made \/ \E q \in Paths : Stays(q)
  <2> HIDE DEF Stays
  <2> QED BY <1>1, <1>2, <1>3, <1>4, <1>5 DEF TreeStep
<1> QED BY <1>6 DEF Made

\* A request that hands over what it made has handed it over, or has failed.
LEMMA HandsOrFails ==
  ASSUME FilesTypeOK, Routed, NEW o \in Ops, Serve(o), NEW p \in Paths,
         \/ pc[o] = "hand" /\ p = Head(missing[o])
         \/ pc[o] = "handfile" /\ req[o].verb = "ensure" /\ node'[p].kind = "file"
            /\ node'[p].by = o
  PROVE  result'[o] = "error" \/ node'[p].owner = "drive"
<1> USE DEF At, Fail, Answer, ChownFails
<1>0. NodeOK /\ DOMAIN result = Ops
  BY TypesAre DEF FilesTypeOK
<1>1. CASE pc[o] = "hand" /\ p = Head(missing[o])
  <2>1. HandDir(o)
    BY <1>1 DEF Serve, Accept, Begin, ListMissing, MakeDir, MkdirDone, CreateStaging, Fill,
       HandStaged, LastCheck, Publish, OpenExclusive, VerifyOwner, HandEnsured, RemoveOne,
       RemoveTree, LookAtSource, RenameNoReplace, RenameFallback, DirsReady
  <2>2. CASE result' = [result EXCEPT ![o] = "error"]
    BY <1>0, <2>2
  <2>3. CASE node' = [node EXCEPT ![p].owner = "drive"]
    <3>1. node'[p] = [node[p] EXCEPT !.owner = "drive"] /\ node[p] \in Nodes
      BY <1>0, <2>3 DEF NodeOK
    <3> QED BY <3>1 DEF Nodes
  <2> QED BY <1>1, <2>1, <2>2, <2>3 DEF HandDir
<1>2. CASE pc[o] = "handfile" /\ req[o].verb = "ensure" /\ node'[p].kind = "file"
           /\ node'[p].by = o
  <2>1. HandEnsured(o)
    BY <1>2 DEF Serve, Accept, Begin, ListMissing, MakeDir, HandDir, MkdirDone, CreateStaging,
       Fill, HandStaged, LastCheck, Publish, OpenExclusive, VerifyOwner, RemoveOne,
       RemoveTree, LookAtSource, RenameNoReplace, RenameFallback, DirsReady
  <2>2. CASE result' = [result EXCEPT ![o] = "error"]
    BY <1>0, <2>2
  <2>3. CASE node' = [q \in Paths |-> IF IsFile(q) /\ node[q].by = o
                                      THEN [node[q] EXCEPT !.owner = "drive"] ELSE node[q]]
    <3>1. node'[p] = IF IsFile(p) /\ node[p].by = o
                     THEN [node[p] EXCEPT !.owner = "drive"] ELSE node[p]
      BY <2>3
    <3>2. node[p] \in Nodes /\ p # Root
      BY <1>0, PathsAre DEF NodeOK
    <3>3. IsFile(p) /\ node[p].by = o
      BY <1>2, <3>1, <3>2 DEF IsFile, Kind, Nodes
    <3> QED BY <3>1, <3>2, <3>3 DEF Nodes
  <2> QED BY <2>1, <2>2, <2>3 DEF HandEnsured
<1> QED BY <1>1, <1>2

\* What a request made and did not hand over it is about to hand over still.
LEMMA HandedOverStep ==
  ASSUME HandInv, NEW o \in Ops, Serve(o), TreeStep(o),
         strayed' = strayed \cup {v \in Ops : Strays(v)}
  PROVE  HandedOver'
<1> SUFFICES ASSUME NEW w \in Ops, NEW p \in Paths, node'[p].by = w, node'[p].owner # "drive"
             PROVE  Unhanded(w, p)'
  BY DEF HandedOver
<1>0. /\ FilesTypeOK /\ Routed /\ (\A v \in Ops : Filled(v)) /\ Shape
      /\ Answered /\ HandedOver
  BY DEF HandInv, TreeInv
<1>1. /\ pc[o] \notin {"done", "dead"} /\ result[o] = "none"
      /\ pc[o] # "idle" => req'[o] = req[o]
  <2>1. pc[o] \notin {"done", "dead"} /\ (pc[o] # "idle" => req'[o] = req[o])
    BY <1>0, WhereItWas
  <2> QED BY <1>0, <2>1 DEF Answered
<1>2. ASSUME node'[p].by = o, node'[p].kind = "file", Creates(o, node'[p])
      PROVE  Unhanded(w, p)'
  <2>1. CASE At(o, "publish") /\ node'[p] = NewFile(o, stage[o].owner, stage[o].filled = Chunks)
    <3>1. node'[p].owner = "drive"
      BY <1>0, <2>1 DEF Filled, At, NewFile
    <3> QED BY <3>1
  <2>2. CASE At(o, "mkdir") /\ req[o].verb = "ensure" /\ pc'[o] = "handfile"
    BY <1>1, <1>2, <2>2 DEF Unhanded, At
  <2> QED BY <1>2, <2>1, <2>2 DEF Creates
<1>3. ASSUME node'[p].by = o, node'[p].kind = "dir", MakesDir(o, p)
      PROVE  Unhanded(w, p)'
  BY <1>3 DEF Unhanded, MakesDir
<1>4. ASSUME NEW q \in Paths, node'[p].by = node[q].by, node'[p].kind = node[q].kind,
             node'[p].owner = node[q].owner \/ node'[p].owner = "drive",
             q = p \/ (\E f \in Paths : Takes(o, f) /\ IsPrefix(f, q))
      PROVE  Unhanded(w, p)'
  <2>1. Unhanded(w, q)
    BY <1>0, <1>4 DEF HandedOver
  <2> SUFFICES ASSUME w \notin strayed'
               PROVE  Unhanded(w, p)'
    BY DEF Unhanded
  <2>4. w \notin strayed /\ ~Strays(w)
    OBVIOUS
  <2>5. ASSUME pc[w] = "hand", q = Head(missing[w]) PROVE p = q
    BY <1>4, <2>4, <2>5 DEF Strays, Takes, At
  <2>2. CASE w # o
    <3>1. /\ pc'[w] = pc[w] /\ req'[w] = req[w] /\ missing'[w] = missing[w]
          /\ result'[w] = result[w]
      BY <1>0, <2>2, OthersWait
    <3> QED BY <1>4, <2>1, <2>4, <2>5, <3>1 DEF Unhanded
  <2>3. CASE w = o
    <3>1. \/ pc[o] = "hand" /\ p = Head(missing[o])
          \/ pc[o] = "handfile" /\ req[o].verb = "ensure" /\ node'[p].kind = "file"
             /\ node'[p].by = o
      BY <1>1, <1>4, <2>1, <2>3, <2>4, <2>5 DEF Unhanded
    <3>2. result'[o] = "error"
      BY <1>0, <3>1, HandsOrFails
    <3> QED BY <2>3, <3>2 DEF Unhanded
  <2> QED BY <2>2, <2>3
<1>5. node'[p] # NoNode
  BY TreeAssumption DEF NoNode
<1> QED BY <1>0, <1>2, <1>3, <1>4, <1>5, MadeStays

\* HandInv is inductive.
LEMMA InitHandInv == FilesInit => HandInv
<1> SUFFICES ASSUME FilesInit PROVE HandInv
  OBVIOUS
<1>1. PICK t \in Trees : node = t
  BY DEF FilesInit
<1>4. Answered
  BY DEF FilesInit, Answered
<1>5. HandedOver
  <2>1. \A p \in Paths : node[p].by = "none"
    BY <1>1, StartAssumption
  <2> QED BY <2>1, TreeAssumption DEF HandedOver
<1> QED BY <1>4, <1>5, InitTree DEF HandInv

LEMMA StepHandInv == HandInv /\ [FilesNext]_vars => HandInv'
<1> SUFFICES ASSUME HandInv, [FilesNext]_vars PROVE HandInv'
  OBVIOUS
<1>0. FilesTypeOK /\ Routed /\ Shape /\ RowsOK /\ Answered /\ TreeInv'
  BY StepTree, TypesAre DEF HandInv, TreeInv
<1>1. ASSUME NEW o \in Ops, Serve(o), strayed' = strayed \cup {v \in Ops : Strays(v)}
      PROVE  HandInv'
  <2>1. TreeStep(o)
    BY <1>0, <1>1, TreeSteps DEF Shape
  <2>2. HandedOver'
    BY <1>1, <2>1, HandedOverStep
  <2>4. Answered'
    <3> SUFFICES ASSUME NEW w \in Ops, result'[w] # "none" PROVE pc'[w] = "done"
      BY DEF Answered
    <3>1. CASE w = o
      <4>1. pc[o] # "done"
        BY <1>0, <1>1, WhereItWas
      <4>2. result[o] = "none"
        BY <1>0, <4>1 DEF Answered
      <4> QED BY <1>0, <1>1, <3>1, <4>2, AnswersStep
    <3>2. CASE w # o
      BY <1>0, <1>1, <3>2, OthersWait DEF Answered
    <3> QED BY <3>1, <3>2
  <2> QED BY <1>0, <2>2, <2>4 DEF HandInv
<1>2. ASSUME UNCHANGED << node, req, missing, result >>, strayed \subseteq strayed',
             \A o \in Ops : \/ pc'[o] = pc[o]
                            \/ pc'[o] = "dead" /\ pc[o] # "done"
      PROVE  HandInv'
  <2>2. Answered'
    BY <1>0, <1>2 DEF Answered
  <2>3. HandedOver'
    BY <1>2 DEF HandInv, HandedOver, Unhanded
  <2> QED BY <1>0, <2>2, <2>3 DEF HandInv
<1>3. CASE ResetRuntime /\ strayed \subseteq strayed'
  BY <1>2, <1>3 DEF ResetRuntime
<1>4. CASE Crash /\ strayed \subseteq strayed'
  <2>1. \A o \in Ops : pc'[o] = pc[o] \/ (pc'[o] = "dead" /\ pc[o] # "done")
    BY <1>4 DEF Crash, Working
  <2> QED BY <1>2, <1>4, <2>1 DEF Crash
<1>5. CASE UNCHANGED vars
  BY <1>2, <1>5 DEF vars
<1> QED BY <1>1, <1>3, <1>4, <1>5 DEF FilesNext

\* SuccessHandsOver, what a successful request made is the drive owner's, unless
\* a rename took its directory away before the chown.
THEOREM SuccessLeavesNothing == FilesSpec => []SuccessHandsOver
<1>1. HandInv => SuccessHandsOver
  <2> SUFFICES ASSUME HandInv, NEW o \in Ops, result[o] = "ok", o \notin strayed,
                      NEW p \in Paths, node[p].by = o
               PROVE  node[p].owner = "drive"
    BY DEF SuccessHandsOver
  <2>1. pc[o] = "done"
    BY DEF HandInv, Answered
  <2> QED BY <2>1 DEF HandInv, HandedOver, Unhanded
<1>2. FilesInit => HandInv
  BY InitHandInv
<1>3. HandInv /\ [FilesNext]_vars => HandInv'
  BY StepHandInv
<1> QED BY <1>1, <1>2, <1>3, PTL DEF FilesSpec
=============================================================================
