---------------------------- MODULE MCJobControl ----------------------------
(* Small instances of JobControl.                                            *)
EXTENDS JobControl
=============================================================================
