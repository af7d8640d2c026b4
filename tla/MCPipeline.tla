----------------------------- MODULE MCPipeline -----------------------------
(***************************************************************************)
(* Small instances of Pipeline for TLC: the second generation drops the    *)
(* last child from the manifests.                                          *)
(***************************************************************************)
EXTENDS Pipeline

MCNames == {1, 2}
MCDesired == <<{1, 2}, {1}>>
MCThreeNames == {1, 2, 3}
MCThreeDesired == <<{1, 2, 3}, {1, 2}>>
MCOne == {1}
MCNone == {}
MCKeepEdits == {"drift", "release"}
MCAllEdits == {"drift", "release", "manage", "unstamp", "delete"}
=============================================================================
