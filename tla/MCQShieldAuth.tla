----------------------------- MODULE MCQShieldAuth -----------------------------
(* A small instance of QShieldAuth for TLC: two attempts of one client, two     *)
(* tokens whose keys the server knows.                                          *)
EXTENDS QShieldAuth, TLC

CONSTANTS d1, d2, client, key

AnyDevice == [n \in Attempt |-> d1]
OneClient == [n \in Attempt |-> client]
AnyKey    == [n \in Attempt |-> key]
SameKey   == [d \in Device |-> key]
================================================================================
