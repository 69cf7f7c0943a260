----------------------------- MODULE MCLogSpace -----------------------------
(* Small instances of Log without its history variable.                      *)
EXTENDS Log
=============================================================================
