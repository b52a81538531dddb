--------------------------------- MODULE MCQKey --------------------------------
(* A small instance of QKey for TLC: the keeper of the root key, whose calls may *)
(* leave more behind, and one other thread.                                     *)
EXTENDS QKey, TLC

CONSTANTS keeper, app

Bounds == keeper :> 3 @@ app :> 1
================================================================================
