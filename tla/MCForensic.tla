----------------------------- MODULE MCForensic -----------------------------
(* A directory with two files and two directories, one of them with a file and a *)
(* directory of its own.                                                          *)
EXTENDS Forensic, TLC

CONSTANTS top, sub, deep, side, a, b, c, e

Tree == (top :> {a, e, sub, side}) @@ (sub :> {b, deep}) @@ (deep :> {c}) @@ (side :> {})
=============================================================================
