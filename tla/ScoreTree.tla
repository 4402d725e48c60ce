------------------------------ MODULE ScoreTree ------------------------------
(***************************************************************************)
(* The tree of a sorted set: rb_tree::insert_tree with its search for a    *)
(* place and its repair, and getByScore.  One turn of the repair loop is a *)
(* step.  A node is named by its score, as an insertion with a score that  *)
(* is in the tree adds no node.                                            *)
(*                                                                         *)
(* A step that would go through nullptr has no value here, and TLC would   *)
(* stop at it.                                                             *)
(***************************************************************************)
EXTENDS Integers, FiniteSets

CONSTANTS
  Scores,  \* scores that zadd may be called with
  Values,  \* members
  Null,    \* rb_tree::null, the sentinel every leaf points to
  Nil      \* nullptr

ASSUME ScoresAssumption == Scores \subseteq Int

ASSUME NullAssumption ==
  /\ Null \notin Scores
  /\ Nil \notin Scores \cup {Null}

VARIABLES
  tree,    \* the nodes' links and colours, and the root
  values,  \* tree_node::value of each node
  cur,     \* the node under repair in fix_up_insert, or Nil
  turns,   \* history: turns of the repair loop in the last insertion
  added    \* history: the scores zadd was called with

vars == <<tree, values, cur, turns, added>>

Black == "black"
Red == "red"

Nodes == Scores \cup {Null}

Tree == [root : Scores \cup {Nil},
         left : [Nodes -> Nodes \cup {Nil}],
         right : [Nodes -> Nodes \cup {Nil}],
         parent : [Nodes -> Nodes \cup {Nil}],
         colour : [Nodes -> {Black, Red}]]

-----------------------------------------------------------------------------
(* Rotations.  Operators named after a slip (Orphaned, RootStays...) are   *)
(* used by no action; PROJECT.json substitutes them to test the            *)
(* properties.                                                             *)

(* y takes the place of x under x's parent, or at the root. *)
Replaced(t, x, y) ==
  LET p == t.parent[x]
  IN IF p = Null
       THEN [t EXCEPT !.root = y, !.parent[y] = Null]
       ELSE [t EXCEPT !.left[p] = IF @ = x THEN y ELSE @,
                      !.right[p] = IF @ = x THEN y ELSE @,
                      !.parent[y] = p]

Orphaned(t, x, child) == t

Adopted(t, x, child) ==
  IF child = Null THEN t ELSE [t EXCEPT !.parent[child] = x]

LeftRotated(t, x) ==
  LET y == t.right[x]
      inner == t.left[y]
  IN IF y = Null THEN t
     ELSE [Adopted(Replaced(t, x, y), x, inner) EXCEPT
             !.right[x] = inner, !.left[y] = x, !.parent[x] = y]

(* The inner grandchild is dropped. *)
RightRotatedBare(t, x) ==
  LET y == t.left[x]
  IN IF y = Null THEN t
     ELSE [Replaced(t, x, y) EXCEPT
             !.left[x] = Null, !.right[y] = x, !.parent[x] = y]

RightRotated(t, x) ==
  LET y == t.left[x]
      inner == t.right[y]
  IN IF y = Null THEN t
     ELSE [Adopted(Replaced(t, x, y), x, inner) EXCEPT
             !.left[x] = inner, !.right[y] = x, !.parent[x] = y]

-----------------------------------------------------------------------------
(* A turn of the loop in fix_up_insert, in three parts. *)

IsLeft(t, x) == x = t.left[t.parent[x]]

Sibling(t, x) ==
  IF IsLeft(t, x) THEN t.right[t.parent[x]] ELSE t.left[t.parent[x]]

Grandparent(t, x) == t.parent[t.parent[x]]

(* A missing uncle: the grandparent is rotated away from it, whichever     *)
(* child x is.  A red uncle: the repair goes on at the grandparent.  A     *)
(* black one: it stops.                                                    *)
Recoloured(t, x) ==
  LET p == t.parent[x]
      g == t.parent[p]
      uncle == Sibling(t, p)
      coloured == [t EXCEPT !.colour[p] = Black, !.colour[g] = Red]
  IN IF uncle = Null
       THEN [t |-> IF IsLeft(t, p) THEN RightRotated(coloured, g)
                                   ELSE LeftRotated(coloured, g),
             x |-> x, stop |-> FALSE]
     ELSE IF t.colour[uncle] = Red
       THEN [t |-> [coloured EXCEPT !.colour[uncle] = Black],
             x |-> g, stop |-> FALSE]
     ELSE [t |-> t, x |-> x, stop |-> TRUE]

AtTop(t, x) == t.parent[x] = Null \/ Grandparent(t, x) = Null

StraightenedStill(t, x, uncle) ==
  IF x = t.right[t.parent[x]] /\ t.colour[uncle] = Black
    THEN [t |-> LeftRotated(t, t.parent[x]), x |-> x]
    ELSE [t |-> t, x |-> x]

(* A right child is rotated under, on either side of the grandparent. *)
Straightened(t, x, uncle) ==
  IF x = t.right[t.parent[x]] /\ t.colour[uncle] = Black
    THEN [t |-> LeftRotated(t, t.parent[x]), x |-> t.parent[x]]
    ELSE [t |-> t, x |-> x]

(* The second test for the top, which differs on the two sides. *)
AtTopAgain(t, x, onLeft) ==
  IF onLeft THEN AtTop(t, x) ELSE Grandparent(t, x) = Null

Lifted(t, x, uncle) ==
  IF t.colour[uncle] = Black /\ x = t.left[t.parent[x]]
    THEN RightRotated([t EXCEPT !.colour[t.parent[x]] = Black,
                                !.colour[Grandparent(t, x)] = Red],
                      Grandparent(t, x))
    ELSE t

Turned(t, x) ==
  LET a == Recoloured(t, x)
      uncle == Sibling(a.t, a.t.parent[a.x])
      b == Straightened(a.t, a.x, uncle)
  IN IF a.stop \/ AtTop(a.t, a.x) THEN [a EXCEPT !.stop = TRUE]
     ELSE IF AtTopAgain(b.t, b.x, IsLeft(t, t.parent[x]))
       THEN [t |-> [b.t EXCEPT !.colour[b.t.parent[b.x]] = Black],
             x |-> b.x, stop |-> TRUE]
     ELSE [t |-> Lifted(b.t, b.x, uncle), x |-> b.x, stop |-> FALSE]

(* The test of the loop. *)
GoesOn(r) ==
  /\ ~r.stop
  /\ r.t.parent[r.x] # Null
  /\ r.t.colour[r.t.parent[r.x]] = Red

RootStays(r) == r.t

(* After the loop the root is made black. *)
Rooted(r) == [r.t EXCEPT !.colour[r.t.root] = Black]

Resume(r) ==
  IF GoesOn(r) THEN tree' = r.t /\ cur' = r.x
               ELSE tree' = Rooted(r) /\ cur' = Nil

-----------------------------------------------------------------------------
Inserted == {s \in Scores : values[s] # {}}

(* The child of n below which a score s other than n belongs. *)
Toward(n, s) == IF n > s THEN tree.left[n] ELSE tree.right[n]

(* The node under which the search for a new score ends. *)
Place(s) ==
  LET below[n \in Inserted] ==
        IF Toward(n, s) = Null THEN n ELSE below[Toward(n, s)]
  IN below[tree.root]

LinkedHalf(s) ==
  LET p == Place(s)
  IN [tree EXCEPT !.left[p] = IF s < p THEN s ELSE @,
                  !.left[s] = Null,
                  !.right[p] = IF s < p THEN @ ELSE s,
                  !.parent[s] = p]

Linked(s) ==
  LET p == Place(s)
  IN [tree EXCEPT !.left[p] = IF s < p THEN s ELSE @,
                  !.left[s] = Null,
                  !.right[p] = IF s < p THEN @ ELSE s,
                  !.right[s] = Null,
                  !.parent[s] = p]

(* New nodes come red out of the constructor. *)
Init ==
  /\ tree = [root |-> Nil,
             left |-> [n \in Nodes |-> Nil],
             right |-> [n \in Nodes |-> Nil],
             parent |-> [n \in Nodes |-> Nil],
             colour |-> [n \in Nodes |-> IF n = Null THEN Black ELSE Red]]
  /\ values = [s \in Scores |-> {}]
  /\ cur = Nil
  /\ turns = 0
  /\ added = {}

Zadd(s) ==
  /\ cur = Nil
  /\ added' = added \cup {s}

InsertFirst(s, v) ==
  /\ tree.root = Nil
  /\ Zadd(s)
  /\ tree' = [tree EXCEPT !.root = s, !.colour[s] = Black, !.left[s] = Null,
                          !.right[s] = Null, !.parent[s] = Null]
  /\ values' = [values EXCEPT ![s] = {v}]
  /\ UNCHANGED <<cur, turns>>

Insert(s, v) ==
  /\ tree.root # Nil
  /\ values[s] = {}
  /\ Zadd(s)
  /\ Resume([t |-> Linked(s), x |-> s, stop |-> FALSE])
  /\ values' = [values EXCEPT ![s] = {v}]
  /\ turns' = 0

InsertReplacing(s, v) ==
  /\ values[s] # {}
  /\ Zadd(s)
  /\ values' = [values EXCEPT ![s] = {v}]
  /\ UNCHANGED <<tree, cur, turns>>

(* The score has a node: the members of the new node are added to the new  *)
(* node, and that is dropped.                                              *)
InsertAgain(s, v) ==
  /\ values[s] # {}
  /\ Zadd(s)
  /\ UNCHANGED <<tree, values, cur, turns>>

FixUp ==
  /\ cur # Nil
  /\ \E r \in {Turned(tree, cur)} : Resume(r)
  /\ turns' = turns + 1
  /\ UNCHANGED <<values, added>>

Next ==
  \/ FixUp
  \/ \E s \in Scores, v \in Values :
       InsertFirst(s, v) \/ Insert(s, v) \/ InsertAgain(s, v)

Spec == Init /\ [][Next]_vars

-----------------------------------------------------------------------------
(* getByScore: the scores whose members zrange answers with. *)
ByScore(from, to) ==
  LET found[n \in Inserted \cup {Null}] ==
        IF n = Null THEN {}
        ELSE found[tree.left[n]]
             \cup ({n} \cap (from .. to))
             \cup (IF n > to THEN {} ELSE found[tree.right[n]])
  IN IF tree.root = Nil THEN {} ELSE found[tree.root]

-----------------------------------------------------------------------------
(* Links and colours are those of nodes (rbTree.h); the links of a node    *)
(* that was inserted lead to nodes or to the sentinel.                     *)
TypeOK ==
  /\ tree \in Tree
  /\ \A s \in added :
       Nil \notin {tree.left[s], tree.right[s], tree.parent[s], tree.root}
  /\ values \in [Scores -> SUBSET Values]
  /\ cur \in Scores \cup {Nil}
  /\ turns \in Nat
  /\ added \subseteq Scores

(* Parents and children agree at every node, in the middle of a repair     *)
(* too: the rotations that left_rotate and right_rotate leave out when     *)
(* there is nothing to rotate keep no half-moved link.                     *)
LinksAgree ==
  \A s \in added :
    /\ IF s = tree.root
         THEN tree.parent[s] = Null
         ELSE s \in {tree.left[tree.parent[s]], tree.right[tree.parent[s]]}
    /\ \A c \in {tree.left[s], tree.right[s]} \ {Null} : tree.parent[c] = s

(* zrange finds exactly the scores of its interval that were ever added:   *)
(* no rotation of fix_up_insert loses a subtree or breaks the order that   *)
(* getByScore's early return relies on.                                    *)
RangesRight ==
  \A from, to \in Scores :
    ByScore(from, to) = {s \in added : from =< s /\ s =< to}

(* fix_up_insert never works above the root: links agree, and while it has *)
(* a red parent to repair, the root is black, so there is a grandparent;   *)
(* and the sentinel is as it was made.  Otherwise it would go through      *)
(* nullptr.                                                                *)
RepairSafe ==
  /\ LinksAgree
  /\ cur # Nil => tree.colour[tree.root] = Black
  /\ tree.colour[Null] = Black
  /\ {tree.left[Null], tree.right[Null], tree.parent[Null]} = {Nil}

(* Though it may turn the wrong way, and once without getting any higher,  *)
(* fix_up_insert ends, after at most one turn for every three nodes.       *)
RepairShort == 3 * turns =< Cardinality(added)

(* What zrange finds, member by member, follows the abstract set. *)
Abstract ==
  INSTANCE ScoreSet WITH
    entries <- [s \in Scores |->
                  IF s \in ByScore(s, s) THEN values[s] ELSE {}]

(* The tree implements ScoreSet, where a score keeps its first member. *)
IsScoreSet == Abstract!Spec
=============================================================================
