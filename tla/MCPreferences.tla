---------------------------- MODULE MCPreferences ----------------------------
(* The palette and one run of `superspace launcher`, with one thing to save. *)
EXTENDS LauncherPreferences
=============================================================================
