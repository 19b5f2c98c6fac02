----------------------------- MODULE MCFileOps -----------------------------
(***************************************************************************)
(* A small instance of FileOps: two levels of directories, one file below  *)
(* them and one beside them, at whose place a directory can come too.      *)
(***************************************************************************)
EXTENDS FileOps, TLC

CONSTANTS a, b, f, g

A == << a >>
AB == << a, b >>
ABF == << a, b, f >>
G == << g >>
GF == << g, f >>

MCNames == {a, b, f, g}
MCPaths == {A, AB, ABF, G, GF}

Move(verb, from, to) == [verb |-> verb, path |-> from, to |-> to]
One(verb, path) == [verb |-> verb, path |-> path]

\* A file that is written, ensured, renamed onto, copied and removed, below
\* directories that are made, renamed and removed.
MCRequests ==
  {One("write", ABF), One("ensure", ABF), One("mkdirall", ABF), One("mkdir", A),
   One("removeall", A), One("remove", ABF),
   Move("rename", ABF, G), Move("rename", AB, G),
   [verb |-> "copy", pairs |-> << [src |-> ABF, dest |-> G],
                                  [src |-> G, dest |-> ABF] >>]}

\* The tree when the relay starts: nothing, or directories and a file that
\* the drive owner has had for long, or a file that an older relay left.
Old(kind, owner) == [kind |-> kind, owner |-> owner, by |-> "none", filled |-> TRUE]

Nothing == [p \in MCPaths |-> NoNode]
Settled == [Nothing EXCEPT ![A] = Old("dir", "drive"), ![AB] = Old("dir", "drive"),
                           ![G] = Old("file", "drive")]
Legacy == [Settled EXCEPT ![ABF] = Old("file", "relay"), ![G] = NoNode]

MCTrees == {Nothing, Settled, Legacy}

MCSymmetry == Permutations(Ops)
=============================================================================
