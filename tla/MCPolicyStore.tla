---------------------------- MODULE MCPolicyStore ----------------------------
(***************************************************************************)
(* Small instances of PolicyStore: a machine that was upgraded and still   *)
(* has the row of the old policy table.                                    *)
(***************************************************************************)
EXTENDS PolicyStore, TLC

CONSTANTS a, b

OldRow == [version |-> 1, rules |-> a]

Symmetry == Permutations(Process) \cup Permutations(Inode)
=============================================================================
