----------------------------- MODULE MCMainLoop -----------------------------
(* Bounds for model checking MainLoop: a button, and two directions, one   *)
(* of them on the line of the button.                                      *)
EXTENDS MainLoop

SomeKeys == {"GB_KEY_START", "GB_KEY_DOWN", "GB_KEY_LEFT"}
=============================================================================
