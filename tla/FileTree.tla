------------------------------ MODULE FileTree ------------------------------
(***************************************************************************)
(* A directory tree as the helpers of src/ccode/file.c see it.  A tree is  *)
(* a function from paths to nodes, of at most two directories' depth.      *)
(* Links are leaves: what lies behind one is outside the tree, and only    *)
(* whether it is a directory, a file or nothing is known.                  *)
(***************************************************************************)
EXTENDS Integers, Sequences

CONSTANTS
  Path,        \* the paths below the tree's root
  Root,        \* the root itself, always a directory
  Dir          \* sdirname: the directory a path lies in

ASSUME TreeAssumption ==
  /\ Root \notin Path /\ Dir \in [Path -> Path \cup {Root}]
  /\ \A x \in Path : Dir[x] = Root \/ Dir[Dir[x]] = Root

(* data is a file's content or what a link leads to; ino tells a file that *)
(* was created again from the one it replaced.                             *)
NoNode == [kind |-> "none", data |-> "", ino |-> <<>>]
DirNode == [kind |-> "dir", data |-> "", ino |-> <<>>]
LinkNode(to) == [kind |-> "link", data |-> to, ino |-> <<>>]
FileNode(data, ino) == [kind |-> "file", data |-> data, ino |-> ino]

IsNode(n) ==
  n = [kind |-> n.kind, data |-> n.data, ino |-> n.ino] /\ (n.kind = "dir" => n.data = "")
IsTree(tree, kinds) ==
  tree = [x \in Path |-> tree[x]] /\ \A x \in Path : IsNode(tree[x]) /\ tree[x].kind \in kinds

issymlink(tree, x) == tree[x].kind = "link"

(* opendir follows links, so isdir rules them out first.                   *)
isdir(tree, x) == x = Root \/ tree[x].kind = "dir"

(* lstat suffices, so a link that leads nowhere is a file, and so is one   *)
(* that leads to a directory.                                              *)
isfile(tree, x) == tree[x].kind # "none" /\ ~ isdir(tree, x)

(* access(F_OK) follows links.                                             *)
access(tree, x) ==
  tree[x].kind \in {"dir", "file"} \/ (issymlink(tree, x) /\ tree[x].data # "nowhere")

(* A name can be made or looked up in a directory, or in what a link to    *)
(* one leads to, astray from this tree.                                    *)
Inside(tree, x) == isdir(tree, Dir[x])
Astray(tree, x) ==
  Dir[x] # Root /\ issymlink(tree, Dir[x]) /\ tree[Dir[x]].data = "directory"

(* create_dir: mkdir from the top down; an existing node is left as it is. *)
mkdir(tree, x) ==
  IF x # Root /\ tree[x].kind = "none" /\ Inside(tree, x)
  THEN [tree EXCEPT ![x] = DirNode] ELSE tree
create_dir(tree, x) == IF x = Root THEN tree ELSE mkdir(mkdir(tree, Dir[x]), x)

(* It reports an error if the last mkdir failed and nothing is there.      *)
CreateFails(tree, x) ==
  x # Root /\ create_dir(tree, x)[x].kind = "none" /\ ~ Astray(tree, x)
=============================================================================
