--------------------------- MODULE MCUpdateCheck ---------------------------
(***************************************************************************)
(* Two invocations at a time, as often as time allows, of an ana that is a *)
(* pre-release of the second release; processes and inodes are             *)
(* interchangeable.                                                        *)
(***************************************************************************)
EXTENDS UpdateCheck, TLC

MCVersion == [parts |-> <<1, 1, 0>>, pre |-> 1]
MCTagOf   == <<[parts |-> <<1, 0, 9>>, pre |-> NoPre], [parts |-> <<1, 1, 0>>, pre |-> NoPre]>>

Symmetry == Permutations(Proc) \union Permutations(Inode)
=============================================================================
