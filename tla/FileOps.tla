------------------------------ MODULE FileOps ------------------------------
(***************************************************************************)
(* The file requests of the relay (internal/fileops), each served by a     *)
(* goroutine of its own under the context of the runtime that received it, *)
(* all of them working on one directory tree inside a managed drive root.  *)
(*                                                                         *)
(* A step is one system call, or one run of calls nothing else can tell    *)
(* apart.  What is kept of a file is who owns it, which request made it    *)
(* and whether all its bytes are there; a chmod is part of the chown that  *)
(* follows it, since both fail, or not, on the same file.  Symbolic links, *)
(* paths outside the drive roots and writers other than the relay are not  *)
(* in the model.                                                           *)
(***************************************************************************)
EXTENDS Naturals, FiniteSets, SequencesExt

CONSTANTS Ops,        \* requests the relay receives, one goroutine each
          Names,      \* the names of files and directories
          Paths,      \* the paths of the tree, sequences of names
          Requests,   \* what a request may ask for
          Trees,      \* what the tree may hold when the relay starts
          Chunks,     \* how many chunks the content of a file.write has
          MaxFaults   \* bound: resets, restarts and refused chowns together

Root == << >>         \* the drive root: a directory of the drive owner

\* Where q, at or below "from", is once "from" is "to".
Rebased(q, from, to) == to \o SubSeq(q, Len(from) + 1, Len(q))

\* The paths are long enough for what is renamed, unless rename refuses it.
RoomToRename(from, to) ==
  /\ to \in Paths
  /\ IsStrictPrefix(from, to) \/
     \A q \in Paths : IsPrefix(from, q) => Rebased(q, from, to) \in Paths

ASSUME TreeAssumption ==
  /\ Paths \subseteq Seq(Names) \ {Root}
  /\ \A p \in Paths : \A i \in 1 .. Len(p) : SubSeq(p, 1, i) \in Paths
  /\ Chunks \in Nat \ {0}
  /\ MaxFaults \in Nat
  /\ "none" \notin Ops

\* The relay has made none of what is there when it starts.
ASSUME StartAssumption ==
  \A t \in Trees :
    /\ t \in [Paths -> [kind : {"none", "file", "dir"}, owner : {"none", "relay", "drive"},
                         by : {"none"}, filled : BOOLEAN]]
    /\ \A p \in Paths : \A i \in 1 .. Len(p) - 1 :
         t[p].kind # "none" => t[SubSeq(p, 1, i)].kind = "dir"

\* A file.copy of no pairs is refused before it reaches the tree.
ASSUME RequestsAssumption ==
  \A r \in Requests :
    \/ /\ r.verb \in {"write", "ensure", "mkdirall", "mkdir", "remove", "removeall"}
       /\ r.path \in Paths
    \/ r.verb = "rename" /\ r.path \in Paths /\ RoomToRename(r.path, r.to)
    \/ /\ r.verb = "copy"
       /\ r.pairs \in Seq([src : Paths, dest : Paths]) \ {<< >>}

VARIABLES node,      \* what is at each path
          stage,     \* the staging file of each request
          pc,        \* where each request's goroutine is
          req,       \* what the request asks for
          missing,   \* components EnsureOwnedDir still has to create
          pairs,     \* how many pairs of a file.copy are done
          resetAt,   \* was its runtime reset, before or after its last look?
          noReplace, \* does the filesystem have RENAME_NOREPLACE?
          result,    \* the answer
          strayed,   \* history: requests whose new directory was renamed away
          faults     \* resets, restarts and refused chowns so far

vars == << node, stage, pc, req, missing, pairs, resetAt, noReplace, result,
           strayed, faults >>

PCs == {"idle", "begin", "dirs", "mkdir", "hand", "fill", "handfile", "check",
        "publish", "verify", "remove", "lstat", "rename", "replace", "done",
        "dead"}

NoNode  == [kind |-> "none", owner |-> "none", by |-> "none", filled |-> FALSE]
NoStage == [on |-> FALSE, dir |-> Root, owner |-> "none", filled |-> 0]
NoReq   == [verb |-> "none"]

-----------------------------------------------------------------------------
(* The tree. *)

Kind(p)    == IF p = Root THEN "dir" ELSE node[p].kind
Present(p) == Kind(p) # "none"
IsDir(p)   == Kind(p) = "dir"
IsFile(p)  == Kind(p) = "file"

\* A component of the path is a file: lstat says ENOTDIR, not "does not exist".
Blocked(p) == \E q \in Paths : IsPrefix(q, p) /\ IsFile(q)

\* No entry in the directory, and no staging file.
Empty(d) == /\ \A p \in Paths : Front(p) = d => ~ Present(p)
            /\ \A o \in Ops : ~ (stage[o].on /\ stage[o].dir = d)

\* The components below the deepest one that is there: the walk goes upwards.
MissingComponents(d) ==
  LET k == CHOOSE k \in 0..Len(d) : /\ Present(SubSeq(d, 1, k))
                                   /\ \A i \in k+1..Len(d) : ~ Present(SubSeq(d, 1, i))
  IN [j \in 1..Len(d) - k |-> SubSeq(d, 1, k + j)]

NewFile(o, owner, filled) ==
  [kind |-> "file", owner |-> owner, by |-> o, filled |-> filled]

\* The path a request creates or fills: the pair at hand of a file.copy.
Target(o) == IF req[o].verb = "copy" THEN req[o].pairs[pairs[o] + 1].dest
                                     ELSE req[o].path
TargetDir(o) == Front(Target(o))

\* The directory EnsureOwnedDir is asked for.
WantedDir(o) == IF req[o].verb \in {"mkdirall", "mkdir"} THEN req[o].path
                                                        ELSE TargetDir(o)

FilesTypeOK ==
  /\ node \in [Paths -> [kind : {"none", "file", "dir"},
                         owner : {"none", "relay", "drive"},
                         by : Ops \cup {"none"}, filled : BOOLEAN]]
  /\ stage \in [Ops -> [on : BOOLEAN, dir : Paths \cup {Root},
                        owner : {"none", "relay", "drive"},
                        filled : 0..Chunks]]
  /\ pc \in [Ops -> PCs]
  /\ req \in [Ops -> Requests \cup {NoReq}]
  /\ missing \in [Ops -> Seq(Paths)]
  /\ pairs \in [Ops -> Nat]
  /\ resetAt \in [Ops -> {"no", "before", "after"}]
  /\ noReplace \in BOOLEAN
  /\ result \in [Ops -> {"none", "ok", "error"}]
  /\ strayed \subseteq Ops
  /\ faults \in 0..MaxFaults

FilesInit ==
  /\ node \in Trees
  /\ stage = [o \in Ops |-> NoStage]
  /\ pc = [o \in Ops |-> "idle"]
  /\ req = [o \in Ops |-> NoReq]
  /\ missing = [o \in Ops |-> << >>]
  /\ pairs = [o \in Ops |-> 0]
  /\ resetAt = [o \in Ops |-> "no"]
  /\ noReplace \in BOOLEAN
  /\ result = [o \in Ops |-> "none"]
  /\ strayed = {}
  /\ faults = 0

-----------------------------------------------------------------------------
(* How a request moves on. *)

Goto(o, label) == pc' = [pc EXCEPT ![o] = label]
At(o, label)   == pc[o] = label

\* checkContext: the runtime of the request has not been reset.
Live(o) == resetAt[o] = "no"

\* The deferred os.Remove of a file.write or file.copy that returns: it finds
\* the staging file only where it was created.
Cleaned(o) == IF stage[o].on /\ stage[o].dir = TargetDir(o)
              THEN [stage EXCEPT ![o] = NoStage] ELSE stage

Answer(o, r) == /\ Goto(o, "done")
                /\ result' = [result EXCEPT ![o] = r]
                /\ missing' = [missing EXCEPT ![o] = << >>]

Fail(o) == /\ Answer(o, "error")
           /\ stage' = IF req[o].verb \in {"write", "copy"} THEN Cleaned(o) ELSE stage
           /\ UNCHANGED << node, pairs, faults >>

Fixed == UNCHANGED << req, resetAt, noReplace >>

\* A chown that the system refuses.
ChownFails(o) == /\ faults < MaxFaults
                 /\ faults' = faults + 1
                 /\ Answer(o, "error")
                 /\ stage' = IF req[o].verb \in {"write", "copy"} THEN Cleaned(o) ELSE stage
                 /\ UNCHANGED << node, pairs >>

FirstStep(verb) ==
  CASE verb \in {"write", "ensure", "mkdirall", "copy"} -> "dirs"
    [] verb = "mkdir" -> "mkdir"
    [] verb \in {"remove", "removeall"} -> "remove"
    [] verb = "rename" -> "lstat"

Accept(o, r) ==
  /\ At(o, "idle")
  /\ req' = [req EXCEPT ![o] = r]
  /\ Goto(o, "begin")
  /\ UNCHANGED << node, stage, missing, pairs, resetAt, noReplace, result, faults >>

Begin(o) ==
  /\ At(o, "begin")
  /\ Fixed
  /\ \/ ~ Live(o) /\ Fail(o)
     \/ /\ Live(o)
        /\ Goto(o, FirstStep(req[o].verb))
        /\ missing' = [missing EXCEPT ![o] =
                         IF req[o].verb = "mkdir" THEN << req[o].path >> ELSE << >>]
        /\ UNCHANGED << node, stage, pairs, result, faults >>

-----------------------------------------------------------------------------
(* EnsureOwnedDir, and the single mkdir of file.mkdir. *)

\* The walk up that collects what is missing.  A file.copy opens its source
\* before: a source that is no file fails the request.
ListMissing(o) ==
  /\ At(o, "dirs")
  /\ Fixed
  /\ \/ /\ \/ Blocked(WantedDir(o))
           \/ req[o].verb = "copy" /\ ~ IsFile(req[o].pairs[pairs[o] + 1].src)
        /\ Fail(o)
     \/ /\ ~ Blocked(WantedDir(o))
        /\ req[o].verb = "copy" => IsFile(req[o].pairs[pairs[o] + 1].src)
        /\ missing' = [missing EXCEPT ![o] = MissingComponents(WantedDir(o))]
        /\ Goto(o, "mkdir")
        /\ UNCHANGED << node, stage, pairs, result, faults >>

\* A component that is there already was made by another request and is left
\* alone; file.mkdir without "recursive" fails on it instead.
MakeDir(o) ==
  /\ At(o, "mkdir") /\ missing[o] # << >>
  /\ Fixed
  /\ LET c == Head(missing[o]) IN
     \/ /\ ~ IsDir(Front(c)) \/ (Present(c) /\ req[o].verb = "mkdir")
        /\ Fail(o)
     \/ /\ IsDir(Front(c)) /\ Present(c) /\ req[o].verb # "mkdir"
        /\ missing' = [missing EXCEPT ![o] = Tail(@)]
        /\ UNCHANGED << node, stage, pc, pairs, result, faults >>
     \/ /\ IsDir(Front(c)) /\ ~ Present(c)
        /\ node' = [node EXCEPT ![c] = [kind |-> "dir", owner |-> "relay",
                                        by |-> o, filled |-> FALSE]]
        /\ Goto(o, "hand")
        /\ UNCHANGED << stage, missing, pairs, result, faults >>

\* Mutant of HandDir: only the leaf is handed over, not the directories above.
HandLeafOnly(o) ==
  /\ At(o, "hand")
  /\ Fixed
  /\ node' = IF Len(missing[o]) = 1 /\ Present(Head(missing[o]))
             THEN [node EXCEPT ![Head(missing[o])].owner = "drive"] ELSE node
  /\ missing' = [missing EXCEPT ![o] = Tail(@)]
  /\ Goto(o, "mkdir")
  /\ UNCHANGED << stage, pairs, result, faults >>

\* chmod and lchown of the component, by its path: whatever is there now.
HandDir(o) ==
  /\ At(o, "hand")
  /\ Fixed
  /\ LET c == Head(missing[o]) IN
     \/ ~ Present(c) /\ Fail(o)
     \/ Present(c) /\ ChownFails(o)
     \/ /\ Present(c)
        /\ node' = [node EXCEPT ![c].owner = "drive"]
        /\ missing' = [missing EXCEPT ![o] = Tail(@)]
        /\ Goto(o, "mkdir")
        /\ UNCHANGED << stage, pairs, result, faults >>

DirsReady(o) == At(o, "mkdir") /\ missing[o] = << >>

MkdirDone(o) ==
  /\ DirsReady(o) /\ req[o].verb \in {"mkdirall", "mkdir"}
  /\ Fixed
  /\ Answer(o, "ok")
  /\ UNCHANGED << node, stage, pairs, faults >>

-----------------------------------------------------------------------------
(* file.write and file.copy: fill a staging file, hand it over, publish it. *)

CreateStaging(o) ==
  /\ DirsReady(o) /\ req[o].verb \in {"write", "copy"}
  /\ Fixed
  /\ \/ ~ IsDir(TargetDir(o)) /\ Fail(o)
     \/ /\ IsDir(TargetDir(o))
        /\ stage' = [stage EXCEPT ![o] = [on |-> TRUE, dir |-> TargetDir(o),
                                          owner |-> "relay", filled |-> 0]]
        /\ Goto(o, "fill")
        /\ UNCHANGED << node, missing, pairs, result, faults >>

\* Mutant of Fill: the loop runs once more, past the end of the content.
FillPastEnd(o) ==
  /\ At(o, "fill")
  /\ Fixed
  /\ stage' = [stage EXCEPT ![o].filled = @ + 1]
  /\ Goto(o, IF stage[o].filled = Chunks THEN "handfile" ELSE "fill")
  /\ UNCHANGED << node, missing, pairs, result, faults >>

\* A file.write looks at its context before every chunk; io.Copy never does.
Fill(o) ==
  /\ At(o, "fill")
  /\ Fixed
  /\ \/ req[o].verb = "write" /\ ~ Live(o) /\ Fail(o)
     \/ /\ req[o].verb = "copy" \/ Live(o)
        /\ LET n == IF req[o].verb = "copy" THEN Chunks ELSE stage[o].filled + 1 IN
           /\ stage' = [stage EXCEPT ![o].filled = n]
           /\ Goto(o, IF n = Chunks THEN "handfile" ELSE "fill")
        /\ UNCHANGED << node, missing, pairs, result, faults >>

\* Mutant of HandStaged: chown by the name of the target, as before a rename.
HandTarget(o) ==
  /\ At(o, "handfile") /\ req[o].verb \in {"write", "copy"}
  /\ Fixed
  /\ node' = IF Present(Target(o)) THEN [node EXCEPT ![Target(o)].owner = "drive"] ELSE node
  /\ Goto(o, IF req[o].verb = "write" THEN "check" ELSE "publish")
  /\ UNCHANGED << stage, missing, pairs, result, faults >>

\* fchown of the staging file, through the handle: its path does not matter.
HandStaged(o) ==
  /\ At(o, "handfile") /\ req[o].verb \in {"write", "copy"}
  /\ Fixed
  /\ \/ ChownFails(o)
     \/ /\ stage' = [stage EXCEPT ![o].owner = "drive"]
        /\ Goto(o, IF req[o].verb = "write" THEN "check" ELSE "publish")
        /\ UNCHANGED << node, missing, pairs, result, faults >>

\* Mutant of LastCheck: the context is not looked at again after the last chunk.
NoLastCheck(o) ==
  /\ At(o, "check")
  /\ Fixed
  /\ Goto(o, "publish")
  /\ UNCHANGED << node, stage, missing, pairs, result, faults >>

LastCheck(o) ==
  /\ At(o, "check")
  /\ Fixed
  /\ \/ ~ Live(o) /\ Fail(o)
     \/ /\ Live(o)
        /\ Goto(o, "publish")
        /\ UNCHANGED << node, stage, missing, pairs, result, faults >>

\* os.Rename onto the target.  It fails when the staging file has gone or moved
\* with its directory, and on a target that is a directory.  A file.copy goes on
\* with its next pair if its context allows.
Publish(o) ==
  /\ At(o, "publish")
  /\ Fixed
  /\ \/ /\ ~ stage[o].on \/ stage[o].dir # TargetDir(o) \/ IsDir(Target(o))
        /\ Fail(o)
     \/ /\ stage[o].on /\ stage[o].dir = TargetDir(o) /\ ~ IsDir(Target(o))
        /\ node' = [node EXCEPT ![Target(o)] =
                      NewFile(o, stage[o].owner, stage[o].filled = Chunks)]
        /\ stage' = [stage EXCEPT ![o] = NoStage]
        /\ UNCHANGED faults
        /\ IF req[o].verb = "copy" /\ pairs[o] + 1 < Len(req[o].pairs)
           THEN IF Live(o)
                THEN /\ pairs' = [pairs EXCEPT ![o] = @ + 1]
                     /\ Goto(o, "dirs")
                     /\ UNCHANGED << missing, result >>
                ELSE Answer(o, "error") /\ UNCHANGED pairs
           ELSE Answer(o, "ok") /\ UNCHANGED pairs

-----------------------------------------------------------------------------
(* file.ensure_file: create the file where it is missing, else look at its   *)
(* owner.                                                                    *)

OpenExclusive(o) ==
  /\ DirsReady(o) /\ req[o].verb = "ensure"
  /\ Fixed
  /\ \/ /\ IsDir(TargetDir(o)) /\ ~ Present(Target(o))
        /\ node' = [node EXCEPT ![Target(o)] = NewFile(o, "relay", TRUE)]
        /\ Goto(o, "handfile")
     \/ /\ ~ IsDir(TargetDir(o)) \/ Present(Target(o))
        /\ Goto(o, "verify")
        /\ UNCHANGED node
  /\ UNCHANGED << stage, missing, pairs, result, faults >>

\* Lstat after the open failed: there is a file of the drive owner, or an error.
VerifyOwner(o) ==
  /\ At(o, "verify")
  /\ Fixed
  /\ \/ /\ IsFile(Target(o)) /\ node[Target(o)].owner = "drive"
        /\ Answer(o, "ok")
        /\ UNCHANGED << node, stage, pairs, faults >>
     \/ /\ ~ (IsFile(Target(o)) /\ node[Target(o)].owner = "drive")
        /\ Fail(o)

\* fchown through the handle: it finds the file under any name, or nowhere.
HandEnsured(o) ==
  /\ At(o, "handfile") /\ req[o].verb = "ensure"
  /\ Fixed
  /\ \/ ChownFails(o)
     \/ /\ node' = [p \in Paths |->
                      IF IsFile(p) /\ node[p].by = o
                      THEN [node[p] EXCEPT !.owner = "drive"] ELSE node[p]]
        /\ Answer(o, "ok")
        /\ UNCHANGED << stage, pairs, faults >>

-----------------------------------------------------------------------------
(* file.remove and file.rename. *)

RemoveOne(o) ==
  /\ At(o, "remove") /\ req[o].verb = "remove"
  /\ Fixed
  /\ LET p == req[o].path IN
     \/ /\ ~ Present(p) \/ (IsDir(p) /\ ~ Empty(p))
        /\ Fail(o)
     \/ /\ Present(p) /\ (IsDir(p) => Empty(p))
        /\ node' = [node EXCEPT ![p] = NoNode]
        /\ Answer(o, "ok")
        /\ UNCHANGED << stage, pairs, faults >>

\* os.RemoveAll, one entry at a time.  It gives up when entries are added
\* behind its back.
RemoveTree(o) ==
  /\ At(o, "remove") /\ req[o].verb = "removeall"
  /\ Fixed
  /\ LET p == req[o].path IN
     \/ /\ ~ Present(p) /\ ~ Blocked(p)
        /\ Answer(o, "ok")
        /\ UNCHANGED << node, stage, pairs, faults >>
     \/ \E q \in Paths :
        /\ IsPrefix(p, q) /\ Present(q) /\ (IsDir(q) => Empty(q))
        /\ node' = [node EXCEPT ![q] = NoNode]
        /\ UNCHANGED << stage, pc, missing, pairs, result, faults >>
     \/ \E s \in Ops :
        /\ stage[s].on /\ IsPrefix(p, stage[s].dir)
        /\ stage' = [stage EXCEPT ![s].on = FALSE]
        /\ UNCHANGED << node, pc, missing, pairs, result, faults >>
     \/ /\ (IsDir(p) /\ ~ Empty(p)) \/ (~ Present(p) /\ Blocked(p))
        /\ Fail(o)

LookAtSource(o) ==
  /\ At(o, "lstat")
  /\ Fixed
  /\ \/ ~ Present(req[o].path) /\ Fail(o)
     \/ /\ Present(req[o].path)
        /\ Goto(o, "rename")
        /\ UNCHANGED << node, stage, missing, pairs, result, faults >>

\* Everything at or below "from" goes below "to", the staging files included.
Moved(from, to) ==
  /\ node' = [q \in Paths |->
                IF IsPrefix(to, q)
                THEN IF Rebased(q, to, from) \in Paths THEN node[Rebased(q, to, from)]
                                                       ELSE NoNode
                ELSE IF IsPrefix(from, q) THEN NoNode ELSE node[q]]
  /\ stage' = [o \in Ops |->
                 IF stage[o].on /\ IsPrefix(from, stage[o].dir)
                 THEN [stage[o] EXCEPT !.dir = Rebased(@, from, to)]
                 ELSE stage[o]]

\* rename(2), and the look of os.Rename at the target before it.
PlainRename(o, from, to) ==
  LET refused == \/ ~ Present(from) \/ ~ IsDir(Front(to)) \/ IsDir(to)
                 \/ IsDir(from) /\ (Present(to) \/ IsStrictPrefix(from, to)) IN
  \/ refused /\ Fail(o)
  \/ /\ ~ refused
     /\ Moved(from, to)
     /\ Answer(o, "ok")
     /\ UNCHANGED << pairs, faults >>

\* Mutant of RenameNoReplace: the fallback on every filesystem.
CheckThenRename(o) ==
  /\ At(o, "rename")
  /\ Fixed
  /\ \/ Present(req[o].to) /\ Fail(o)
     \/ /\ ~ Present(req[o].to)
        /\ Goto(o, "replace")
        /\ UNCHANGED << node, stage, missing, pairs, result, faults >>

\* renameat2 with RENAME_NOREPLACE; a filesystem without it is left to the
\* fallback, which looks whether the target exists first.
RenameNoReplace(o) ==
  /\ At(o, "rename")
  /\ Fixed
  /\ \/ noReplace /\ Present(req[o].to) /\ Fail(o)
     \/ noReplace /\ ~ Present(req[o].to) /\ PlainRename(o, req[o].path, req[o].to)
     \/ ~ noReplace /\ Present(req[o].to) /\ Fail(o)
     \/ /\ ~ noReplace /\ ~ Present(req[o].to)
        /\ Goto(o, "replace")
        /\ UNCHANGED << node, stage, missing, pairs, result, faults >>

RenameFallback(o) ==
  /\ At(o, "replace")
  /\ Fixed
  /\ PlainRename(o, req[o].path, req[o].to)

-----------------------------------------------------------------------------
(* The runtime and the process. *)

Working(o) == pc[o] \notin {"idle", "done", "dead"}

\* A reset cancels the context of every request of the old runtime.
ResetRuntime ==
  /\ faults < MaxFaults
  /\ \E o \in Ops : Working(o) /\ Live(o)
  /\ faults' = faults + 1
  /\ resetAt' = [o \in Ops |->
                   IF ~ Working(o) \/ ~ Live(o) THEN resetAt[o]
                   ELSE IF At(o, "publish") THEN "after" ELSE "before"]
  /\ UNCHANGED << node, stage, pc, req, missing, pairs, noReplace, result >>

\* The relay is killed: requests end where they are, the files stay.
Crash ==
  /\ faults < MaxFaults
  /\ \E o \in Ops : Working(o)
  /\ faults' = faults + 1
  /\ pc' = [o \in Ops |-> IF Working(o) THEN "dead" ELSE pc[o]]
  /\ UNCHANGED << node, stage, req, missing, pairs, resetAt, noReplace, result >>

Serve(o) ==
  \/ \E r \in Requests : Accept(o, r)
  \/ Begin(o)
  \/ ListMissing(o) \/ MakeDir(o) \/ HandDir(o) \/ MkdirDone(o)
  \/ CreateStaging(o) \/ Fill(o) \/ HandStaged(o) \/ LastCheck(o) \/ Publish(o)
  \/ OpenExclusive(o) \/ VerifyOwner(o) \/ HandEnsured(o)
  \/ RemoveOne(o) \/ RemoveTree(o)
  \/ LookAtSource(o) \/ RenameNoReplace(o) \/ RenameFallback(o)

\* A file.rename takes a directory away, or one above it, that o has made and
\* not handed over yet.
Strays(o) ==
  /\ At(o, "hand")
  /\ \E w \in Ops : /\ pc[w] \in {"rename", "replace"} /\ result'[w] = "ok"
                    /\ IsPrefix(req[w].path, Head(missing[o]))

FilesNext ==
  /\ (\E o \in Ops : Serve(o)) \/ ResetRuntime \/ Crash
  /\ strayed' = strayed \cup {o \in Ops : Strays(o)}

FilesSpec == FilesInit /\ [][FilesNext]_vars

-----------------------------------------------------------------------------
\* The files that a request made.
FileOf(w) == {p \in Paths : IsFile(p) /\ node[p].by = w}

(* A file that has its name is complete: whoever finds the target of a       *)
(* file.write or file.copy sees all its bytes and the drive owner, at any    *)
(* moment and after a crash (write.go 76-78: "no window in which it exists   *)
(* under the target name owned by the relay").                               *)
PublishedIsComplete ==
  \A o \in Ops : req[o].verb \in {"write", "copy"} =>
    \A p \in FileOf(o) : node[p].filled /\ node[p].owner = "drive"

(* A request that answered success left nothing behind that it made and the  *)
(* relay still owns, intermediate directories included, whatever the other   *)
(* requests did to the same paths (EnsureOwnedDir, EnsureOwnedFile), unless  *)
(* another request renamed a directory away before its chown, which goes by  *)
(* its path.                                                                 *)
SuccessHandsOver ==
  \A o \in Ops : result[o] = "ok" /\ o \notin strayed =>
    \A p \in Paths : node[p].by = o => node[p].owner = "drive"

(* A file.write whose runtime was reset before its last look at the context  *)
(* never reaches its target (WriteContext).                                  *)
ResetStopsWrites ==
  \A o \in Ops : req[o].verb = "write" /\ FileOf(o) # {} =>
    resetAt[o] # "before"

(* A file disappears only because a request removes it or publishes a file   *)
(* over it: a file.rename never destroys what another request put at its     *)
(* destination, where the filesystem has RENAME_NOREPLACE (rename.go 32-33). *)
RenameDestroysNothing ==
  [][\A o, w \in Ops :
       /\ noReplace /\ req[o].verb = "rename" /\ Working(o) /\ pc'[o] = "done"
       => (FileOf(w) # {} => FileOf(w)' # {})]_vars
=============================================================================
