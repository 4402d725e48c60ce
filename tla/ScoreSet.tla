------------------------------ MODULE ScoreSet ------------------------------
(***************************************************************************)
(* What a sorted set of the server amounts to, for zadd and zrange: each   *)
(* score has at most one member, the first that was added with it.         *)
(* ScoreTree implements it.                                                *)
(***************************************************************************)
CONSTANTS
  Scores,  \* scores that zadd may be called with
  Values   \* members

VARIABLE entries  \* the members zrange finds at each score

Init == entries = [s \in Scores |-> {}]

Add(s, v) ==
  /\ entries[s] = {}
  /\ entries' = [entries EXCEPT ![s] = {v}]

(* The answer is OK, and the member is lost. *)
AddAgain(s) ==
  /\ entries[s] # {}
  /\ UNCHANGED entries

Next == \E s \in Scores : AddAgain(s) \/ \E v \in Values : Add(s, v)

Spec == Init /\ [][Next]_entries
=============================================================================
