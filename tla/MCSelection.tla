----------------------------- MODULE MCSelection -----------------------------
(* Model-checking instance of Selection. *)
EXTENDS Selection

CONSTANTS a, b, c

ThreePaths == {a, b, c}
\* all files; two of them, in reverse; none
ThreeListings == {<<a, b, c>>, <<c, a>>, <<>>}
\* past the top, up by one, across the listing or past its end
ThreeCounts == {-3, -1, 2}
TwoPicks == {{}, {b, c}}
=============================================================================
