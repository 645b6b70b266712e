------------------------------ MODULE Exercise ------------------------------
(* The programs of Exercises/ run one at a time: `program` is the one that    *)
(* runs, named after its directory and its file.                              *)
VARIABLE program
=============================================================================
