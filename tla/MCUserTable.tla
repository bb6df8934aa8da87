---------------------------- MODULE MCUserTable ----------------------------
(* Instances of UserTable for TLC.  The small one has a directory d and    *)
(* one below it, s; the rich one adds a link l to d, a glob g over s and   *)
(* a second directory r, which has the name of s and a hyphen.             *)
EXTENDS UserTable, TLC

CONSTANTS d, s, r, l, g, i1, i2, c1, c2

MCBelow  == [p \in Path |-> IF p \in {d, g} THEN {s, r} \cap Path ELSE {}]
MCParent == [p \in Path |-> IF p \in {s, r} THEN d ELSE NULL]
MCTarget == [p \in Path |-> IF p = l THEN d ELSE p]
MCShort  == [p \in Path |-> IF p = r THEN s ELSE p]

(* A member of the group of i2, who may be moved out of it.                *)
MCRights  == [i \in Inode |-> IF i = i2 THEN {"group", "owner"} ELSE {"others"}]
Open      == [i \in Inode |-> {"others"}]
MCRole    == [u \in {"allowed", "denied"} |-> {"group"}] @@ [u \in {"moved", "unknown"} |-> {}]

Create == {DirCreated}
Write  == {"IN_CLOSE_WRITE"}
Once   == {DirCreated, "IN_ONESHOT"}
MCMask == {Create, Write, Once}
MCType == {"IN_CLOSE_WRITE", DirCreated}

E(p, m, c, nr) == [path |-> p, mask |-> m, cmd |-> c, norec |-> nr, dotdirs |-> FALSE]
OneRecursive == <<E(d, Create, c1, FALSE)>>
Two          == <<E(s, Write, c1, TRUE), E(d, Create, c2, FALSE)>>
Linked       == <<E(d, Create, c1, FALSE), E(l, Write, c2, TRUE)>>
Globbed      == <<E(g, Once, c1, FALSE), E(d, Write, c2, FALSE)>>

MCTable   == {OneRecursive, Two}
RichTable == MCTable \cup {Linked, Globbed}

Symmetry == Permutations(Watch) \cup Permutations(Inode)
=============================================================================
