------------------------------ MODULE Contents ------------------------------
(***************************************************************************)
(* What requests to the store and its answers carry, and what can be done  *)
(* with it; shared by Store and KeyStore.                                  *)
(***************************************************************************)
EXTENDS Integers, Sequences

CONSTANTS
  Keys,        \* keys
  Values,      \* values and members
  Fields,      \* fields of hashes
  Scores,      \* scores of sorted sets
  ValueLists,  \* the value lists requests carry
  None,        \* no string
  MaxPushed    \* bound: values pushed to one list

ASSUME ContentsAssumption ==
  /\ Scores \subseteq Int
  /\ ValueLists \subseteq Seq(Values)
  /\ None \notin Values
  /\ MaxPushed \in Nat

(* Partial functions: what requests carry, what hashes and sorted sets     *)
(* hold.                                                                   *)
Maps(S, T) == UNION {[A -> T] : A \in SUBSET S}

Nothing == [x \in {} |-> x]

Overlay(f, g) ==
  [x \in DOMAIN f \cup DOMAIN g |-> IF x \in DOMAIN g THEN g[x] ELSE f[x]]

Between(f, low, high) == [s \in DOMAIN f \cap (low..high) |-> f[s]]

(* Answers *)
Ok == <<"ok">>
Fail == <<"fail">>
Null == <<"null">>      \* a text that says that there is no value
Blank == <<"blank">>    \* no text at all
NoAnswer == <<"died">>  \* the server is gone
=============================================================================
