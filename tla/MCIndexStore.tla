---------------------------- MODULE MCIndexStore ----------------------------
(* Two commits, one unapproved content, two builds and one server.         *)
EXTENDS IndexStore, TLC

CONSTANTS b1, b2, s1, c1, c2, v1, v2, v3, p1, p2

MCBuilders == {b1, b2}
OneBuilder == {b1}
MCServers == {s1}
MCCommits == {c1, c2}
MCContents == {v1, v2, v3}
MCTreeOf == c1 :> v1 @@ c2 :> v2
MCApproved == {v1, v2}
MCPins == {p1, p2}

\* The second build is an upgraded installation with other hashes.
MCPinOf == b1 :> p1 @@ b2 :> p2 @@ s1 :> p1

\* Nothing tells one commit and its tree from the other.
Symmetry ==
  {p \in Permutations({c1, c2, v1, v2}) :
     \A c \in MCCommits : p[c] \in MCCommits /\ MCTreeOf[p[c]] = p[MCTreeOf[c]]}

\* All processes of one installation.
SamePinOf == [p \in Procs |-> p1]
=============================================================================
