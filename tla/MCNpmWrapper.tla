----------------------------- MODULE MCNpmWrapper -----------------------------
(* Three launches, and files of two parts: the third launch is the one that   *)
(* moves, or meets, what the other two have left.                             *)
EXTENDS NpmWrapper
=============================================================================
