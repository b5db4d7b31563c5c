---------------------------- MODULE MCFileCache ----------------------------
(***************************************************************************)
(* FileCache for TLC: the clients in Elsewhere are configured with another *)
(* registry, which publishes the version with other content.               *)
(***************************************************************************)
EXTENDS FileCache

CONSTANTS Elsewhere, here, there

MCDigest == {here, there}
MCUpstream == [c \in Client |-> IF c \in Elsewhere THEN there ELSE here]
=============================================================================
