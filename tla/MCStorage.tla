------------------------------- MODULE MCStorage -------------------------------
(* Instances of Storage for TLC.                                           *)
EXTENDS Storage

FirstCarried == [k \in Kinds |-> IF k \in Plains THEN 0 ELSE 2]
===============================================================================
