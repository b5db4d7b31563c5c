----------------------------- MODULE MCLockFile -----------------------------
(***************************************************************************)
(* LockFile for TLC: package sets over the packages two directories        *)
(* require, none of them, and the two sides of what a session may find in  *)
(* the working directory.                                                  *)
(***************************************************************************)
EXTENDS LockFileRefinement

CONSTANT Package

MCContents == {{}} \cup {{k} : k \in Package}
MCNoPackages == {}
MCAnyFile == MCContents \cup {Absent}
MCNoFile == {Absent}
=============================================================================
