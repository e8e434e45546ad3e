---------------------------- MODULE MCEmailPoller ----------------------------
(* Small instances of EmailPoller for TLC. *)
EXTENDS EmailPoller, TLC

CONSTANTS idA, idB, alice, bob, fileA, fileB

\* Without a Message-ID; and two with the same one, whose handling raises.
Hard        == 1 :> "file" @@ 2 :> "unreplyable" @@ 3 :> "unstorable"
HardIds     == 1 :> NoId @@ 2 :> idA @@ 3 :> idA
HardSenders == 1 :> alice @@ 2 :> bob @@ 3 :> bob
HardFiles   == 1 :> fileA @@ 2 :> fileA @@ 3 :> fileB

Mixed        == 1 :> "unparsable" @@ 2 :> "file" @@ 3 :> "nofile"
MixedIds     == 1 :> idA @@ 2 :> idB @@ 3 :> NoId
MixedSenders == 1 :> alice @@ 2 :> alice @@ 3 :> alice
MixedFiles   == 1 :> fileA @@ 2 :> fileA @@ 3 :> fileB

Folded        == 1 :> "unreplyable" @@ 2 :> "file"
FoldedIds     == 1 :> idA @@ 2 :> idB
FoldedSenders == 1 :> alice @@ 2 :> alice
FoldedFiles   == 1 :> fileA @@ 2 :> fileB
=============================================================================
