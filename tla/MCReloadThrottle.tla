--------------------------- MODULE MCReloadThrottle ---------------------------
(* Model-checking instance of ReloadThrottle. *)
EXTENDS ReloadThrottle

CONSTANTS dir, pv

OneDir == {dir}
OnePreview == {pv}
Both == {dir, pv}
NoPreviews == {}
TwoTimeouts == {2, 4}
OneTimeout == {3}
TwoDelays == {1, 2}
LongDelay == {2}
=============================================================================
