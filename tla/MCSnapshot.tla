----------------------------- MODULE MCSnapshot -----------------------------
(* Instances of Snapshot for TLC: which types the keys have, and in which   *)
(* databases commands use them.                                             *)
EXTENDS Snapshot

CONSTANTS k1, k2

Anywhere == Dbs \X Keys

(* Two databases, a set in the first one only. *)
HashAndSet == [k \in Keys |-> IF k = k1 THEN "hash" ELSE "set"]
HashesAndOneSet == {<<0, k1>>, <<0, k2>>, <<1, k1>>}

AllStrings == [k \in Keys |-> "string"]
=============================================================================
