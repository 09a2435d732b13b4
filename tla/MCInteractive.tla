---------------------------- MODULE MCInteractive ---------------------------
(* The interactive demo with everything a user can type in a few lines.    *)
EXTENDS Interactive

CONSTANT word

MCLine == {1, 2, 3, word}
=============================================================================
