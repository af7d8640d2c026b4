------------------------- MODULE MCStandaloneDeploy -------------------------
(***************************************************************************)
(* A Deployment that a legacy kind owned, and a child the second           *)
(* generation drops; or a CustomResourceDefinition, a namespace and a      *)
(* create-only child.                                                      *)
(***************************************************************************)
EXTENDS StandaloneDeploy

MCRendered == <<{1, 2, 3, 4}, {1, 3, 4}>>
MCReleases == <<[type |-> "ODH", version |-> "1"], [type |-> "ODH", version |-> "2"]>>
MCSampleRendered == <<{1, 2}, {1}>>
\* The release of the documentation's example has no type.
MCSampleRelease == <<[type |-> "", version |-> "1.0.0"]>>
=============================================================================
