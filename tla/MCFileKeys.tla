------------------------------- MODULE MCFileKeys ------------------------------
(* A small instance of FileKeys for TLC: two tokens that may take each other's  *)
(* place.  They are treated alike.                                              *)
EXTENDS FileKeys, TLC

CONSTANTS d1, d2

Devices == Permutations(Device)
================================================================================
