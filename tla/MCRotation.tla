----------------------------- MODULE MCRotation -----------------------------
(***************************************************************************)
(* Rotation for TLC: one base name, or two of which one contains the other. *)
(***************************************************************************)
EXTENDS Rotation

OneBase == {"app"}
OneContains == {<<"app", "app">>}
TwoBases == {"app", "app2"}
TwoContain == {<<"app", "app">>, <<"app2", "app2">>, <<"app2", "app">>}
=============================================================================
