--------------------------- MODULE MCReleaseImpact ---------------------------
(* Instances of ReleaseImpact for TLC: three releases, of which the second   *)
(* changed a file that the issue's stack names only from then on, and the    *)
(* third is a minified bundle.                                               *)
EXTENDS ReleaseImpact

CONSTANTS FileA, FileB

MCFramesOf == <<{FileA}, {FileA, FileB}, {}>>
MCChanged == <<{}, {FileB}, {}>>
MCTagSets == {{2}, {1, 2}, {1, 2, 3}}
MCBases == {None, 1}
=============================================================================
