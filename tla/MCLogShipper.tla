---------------------------- MODULE MCLogShipper ----------------------------
(***************************************************************************)
(* Instances of LogShipper for TLC.                                        *)
(***************************************************************************)
EXTENDS LogShipper

\* A traceback of more than 8192 characters.
OneOversize == {4}
=============================================================================
