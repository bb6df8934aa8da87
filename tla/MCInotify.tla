----------------------------- MODULE MCInotify -----------------------------
(* Instance of Inotify for TLC: two paths, two inodes, two heap addresses. *)
EXTENDS Inotify, TLC

MCMask == {{"IN_MODIFY"}, {"IN_DELETE_SELF", "IN_MODIFY", "IN_ONESHOT"}}
MCType == {"IN_MODIFY"}

(* Names are not interpreted and no addresses are compared.                *)
Symmetry == Permutations(Path) \cup Permutations(Inode) \cup Permutations(Watch)
=============================================================================
