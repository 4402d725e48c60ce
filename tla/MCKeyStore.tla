----------------------------- MODULE MCKeyStore -----------------------------
(***************************************************************************)
(* KeyStore with one key for objects of all types, two values, requests of *)
(* up to two values, two fields and two scores.  Fields are only compared, *)
(* so that they can be exchanged.                                          *)
(***************************************************************************)
EXTENDS KeyStore, TLC

CONSTANTS v1, v2

MCValueLists == {<<>>, <<v2>>, <<v1, v2>>}

FieldSymmetry == Permutations(Fields)
=============================================================================
