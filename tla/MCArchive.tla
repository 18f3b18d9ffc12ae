----------------------------- MODULE MCArchive -----------------------------
(* Two jobs and a tree of two directories' depth.  A scenario packs a list *)
(* of paths and extracts it while the other job extracts one more archive, *)
(* or extracts two archives, into a tree that is empty or holds older      *)
(* nodes.                                                                  *)
EXTENDS Archive, TLC

CONSTANTS j1, j2, root, a, b, ab

MCDir == [x \in {a, b, ab} |-> IF x = ab THEN a ELSE root]

D(x) == EntryOf(x, "dir", "")
F(x, data) == EntryOf(x, "file", data)
L(x, to) == EntryOf(x, "link", to)
O(x) == EntryOf(x, "other", "")

Tree(A, B, AB) == [x \in {a, b, ab} |-> CASE x = a -> A [] x = b -> B [] x = ab -> AB]
Empty == Tree(NoNode, NoNode, NoNode)
Old == FileNode("old", <<"old">>)
Trees == {
  Empty,
  Tree(DirNode, Old, Old),
  Tree(DirNode, LinkNode("nowhere"), LinkNode("directory")),
  Tree(LinkNode("directory"), DirNode, NoNode),
  Tree(Old, LinkNode("directory"), NoNode) }

Archives == {
  << >>,
  << D(a), F(ab, "1"), L(b, "nowhere") >>,
  << F(ab, "1"), F(b, "2"), F(b, "3") >>,
  << F(ab, "2"), L(b, "directory"), F(b, "2") >>,
  << L(a, "directory"), F(ab, "1") >>,
  << F(a, "1"), F(ab, "1"), O(b) >>,
  << L(ab, "nowhere"), D(b) >> }

NodeOf(kind) ==
  CASE kind = "none" -> NoNode
    [] kind = "dir" -> DirNode
    [] kind = "link" -> LinkNode("nowhere")
    [] OTHER -> [kind |-> kind, data |-> "1", ino |-> <<"src">>]
Sources == {[x \in {a, b, ab} |-> CASE x = a -> DirNode
                                    [] x = ab -> NodeOf(f)
                                    [] x = b -> NodeOf(g)] :
              f \in {"file", "unreadable"},
              g \in {"none", "file", "link", "fifo"}}
Lists == { << a, ab, b >>, << b, ab >> }

MCScenarios ==
  { [src |-> s, list |-> l, arch |-> (j1 :> << >> @@ j2 :> x), want |-> (j1 :> w @@ j2 :> root),
     tree |-> Empty] :
      s \in Sources, l \in Lists, x \in {<< >>, << F(ab, "1"), L(b, "nowhere") >>}, w \in {root, ab} }
  \cup
  { [src |-> Empty, list |-> << >>, arch |-> (j1 :> x @@ j2 :> y), want |-> (j1 :> root @@ j2 :> w),
     tree |-> t] :
      x \in Archives \ {<< >>}, y \in Archives, w \in {root, ab}, t \in Trees }
=============================================================================
