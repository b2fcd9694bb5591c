------------------------------- MODULE MCHooks -------------------------------
(* Model-checking instance of Hooks. *)
EXTENDS Hooks

CONSTANTS h1, h2, c1, c2, c3, c4

TwoHooks == {h1, h2}
FourCallbacks == {c1, c2, c3, c4}
ThreeCallbacks == {c1, c2, c3}
=============================================================================
