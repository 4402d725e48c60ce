--------------------------- MODULE ScoreTreeProofs ---------------------------
(***************************************************************************)
(* The tree of a sorted set is a search tree, for any scores inserted in   *)
(* any order, at every turn of the repair.                                 *)
(***************************************************************************)
EXTENDS ScoreTree, FiniteSetTheorems, WellFoundedInduction, TLAPS

-----------------------------------------------------------------------------
(* The inductive invariant *)

(* The links of the nodes in S make one tree of them. *)
Links(t, S) ==
  /\ t.root \in S /\ t.parent[t.root] = Null
  /\ \A n \in S :
       /\ t.left[n] \in S \cup {Null} /\ t.right[n] \in S \cup {Null}
       /\ t.left[n] # Null => t.parent[t.left[n]] = n
       /\ t.right[n] # Null => t.parent[t.right[n]] = n
       /\ n # t.root =>
            /\ t.parent[n] \in S
            /\ n = t.left[t.parent[n]] \/ n = t.right[t.parent[n]]

(* sub[n] is the set of nodes of the subtree of n, and in it the smaller    *)
(* scores are on the left of n and the greater ones on the right.           *)
Ordered(t, S, sub) ==
  /\ sub \in [S -> SUBSET S]
  /\ sub[t.root] = S
  /\ \A n \in S :
       /\ n \in sub[n]
       /\ IF t.left[n] = Null THEN \A m \in sub[n] : m >= n
                              ELSE sub[t.left[n]] = {m \in sub[n] : m < n}
       /\ IF t.right[n] = Null THEN \A m \in sub[n] : m =< n
                               ELSE sub[t.right[n]] = {m \in sub[n] : m > n}

(* A subtree is below all that is above any of its nodes. *)
Nested(t, S, sub) ==
  \A n \in S : \A m \in sub[n] :
    /\ sub[m] \subseteq sub[n]
    /\ m # n => t.parent[m] \in sub[n]

Shaped(t, S, sub) == Links(t, S) /\ Ordered(t, S, sub) /\ Nested(t, S, sub)

-----------------------------------------------------------------------------
(* Rotations *)

(* The root of a tree is set. *)
LEMMA SetRoot ==
  ASSUME NEW t \in Tree, NEW v \in Scores
  PROVE  LET u == [t EXCEPT !.root = v]
         IN /\ u \in Tree /\ u.root = v /\ u.left = t.left
            /\ u.right = t.right /\ u.parent = t.parent /\ u.colour = t.colour
  BY DEF Tree

(* The left child of a node is set. *)
LEMMA SetLeft ==
  ASSUME NEW t \in Tree, NEW n \in Nodes, NEW v \in Nodes \cup {Nil}
  PROVE  LET u == [t EXCEPT !.left[n] = v]
         IN /\ u \in Tree /\ u.root = t.root /\ u.right = t.right
            /\ u.parent = t.parent /\ u.colour = t.colour
            /\ u.left = [t.left EXCEPT ![n] = v]
  BY DEF Tree

(* The right child of a node is set. *)
LEMMA SetRight ==
  ASSUME NEW t \in Tree, NEW n \in Nodes, NEW v \in Nodes \cup {Nil}
  PROVE  LET u == [t EXCEPT !.right[n] = v]
         IN /\ u \in Tree /\ u.root = t.root /\ u.left = t.left
            /\ u.parent = t.parent /\ u.colour = t.colour
            /\ u.right = [t.right EXCEPT ![n] = v]
  BY DEF Tree

(* The parent of a node is set. *)
LEMMA SetParent ==
  ASSUME NEW t \in Tree, NEW n \in Nodes, NEW v \in Nodes \cup {Nil}
  PROVE  LET u == [t EXCEPT !.parent[n] = v]
         IN /\ u \in Tree /\ u.root = t.root /\ u.left = t.left
            /\ u.right = t.right /\ u.colour = t.colour
            /\ u.parent = [t.parent EXCEPT ![n] = v]
  BY DEF Tree

(* The colour of a node is set. *)
LEMMA SetColour ==
  ASSUME NEW t \in Tree, NEW n \in Nodes, NEW v \in {Black, Red}
  PROVE  LET u == [t EXCEPT !.colour[n] = v]
         IN /\ u \in Tree /\ u.root = t.root /\ u.left = t.left
            /\ u.right = t.right /\ u.parent = t.parent
            /\ u.colour = [t.colour EXCEPT ![n] = v]
  BY DEF Tree

(* r is t with y in the place of x. *)
TakesPlace(r, t, x, y) ==
  LET p == t.parent[x]
  IN /\ r \in Tree /\ r.colour = t.colour
     /\ r.root = IF p = Null THEN y ELSE t.root
     /\ r.parent = [t.parent EXCEPT ![y] = p]
     /\ \A n \in Nodes :
          /\ r.left[n] = IF n = p /\ p # Null /\ t.left[n] = x
                           THEN y ELSE t.left[n]
          /\ r.right[n] = IF n = p /\ p # Null /\ t.right[n] = x
                            THEN y ELSE t.right[n]

(* What the first part of a rotation does. *)
LEMMA ReplacedIs ==
  ASSUME NEW t \in Tree, NEW x \in Scores, NEW y \in Scores,
         t.parent[x] \in Nodes
  PROVE  TakesPlace(Replaced(t, x, y), t, x, y)
<1> USE DEF TakesPlace
<1> DEFINE p == t.parent[x]
           r == Replaced(t, x, y)
<1>1. CASE p = Null
  <2> DEFINE r1 == [t EXCEPT !.root = y]
  <2>1. /\ r1 \in Tree /\ r1.root = y /\ r1.left = t.left
        /\ r1.right = t.right /\ r1.parent = t.parent /\ r1.colour = t.colour
    BY SetRoot
  <2>2. r = [r1 EXCEPT !.parent[y] = Null]
    BY <1>1, Zenon DEF Replaced
  <2> HIDE DEF r1
  <2> QED
    BY <1>1, <2>1, <2>2, SetParent, NullAssumption DEF Nodes
<1>2. CASE p # Null
  <2> DEFINE l == IF t.left[p] = x THEN y ELSE t.left[p]
             r1 == [t EXCEPT !.left[p] = l]
             k == IF t.right[p] = x THEN y ELSE t.right[p]
             r2 == [r1 EXCEPT !.right[p] = k]
  <2>1. /\ l \in Nodes \cup {Nil} /\ k \in Nodes \cup {Nil} /\ p \in Nodes
    BY DEF Tree, Nodes
  <2>2. /\ r1 \in Tree /\ r1.root = t.root /\ r1.right = t.right
        /\ r1.parent = t.parent /\ r1.colour = t.colour
        /\ r1.left = [t.left EXCEPT ![p] = l]
    <3> HIDE DEF l
    <3> QED  BY <2>1, SetLeft
  <2>3. r = [r2 EXCEPT !.parent[y] = p]
    BY <1>2, <2>2, Zenon DEF Replaced
  <2>4. /\ r2 \in Tree /\ r2.root = r1.root /\ r2.left = r1.left
        /\ r2.parent = r1.parent /\ r2.colour = r1.colour
        /\ r2.right = [r1.right EXCEPT ![p] = k]
    <3> HIDE DEF r1, k
    <3> QED  BY <2>1, <2>2, SetRight
  <2> HIDE DEF r1, r2
  <2>5. /\ r \in Tree /\ r.root = r2.root /\ r.left = r2.left
        /\ r.right = r2.right /\ r.colour = r2.colour
        /\ r.parent = [r2.parent EXCEPT ![y] = p]
    BY <2>1, <2>3, <2>4, SetParent DEF Nodes
  <2> QED
    BY <1>2, <2>2, <2>4, <2>5 DEF Tree
<1> QED
  BY <1>1, <1>2

(* A left child is before its parent and a right child is after it. *)
LEMMA ChildrenOrdered ==
  ASSUME NEW t, NEW S \in SUBSET Scores, NEW sub, Shaped(t, S, sub), NEW x \in S
  PROVE  /\ t.left[x] # Null => /\ t.left[x] \in S /\ t.left[x] < x
                                /\ t.left[x] \in sub[x]
                                /\ t.parent[t.left[x]] = x
         /\ t.right[x] # Null => /\ t.right[x] \in S /\ t.right[x] > x
                                 /\ t.right[x] \in sub[x]
                                 /\ t.parent[t.right[x]] = x
  BY ScoresAssumption DEF Shaped, Links, Ordered

(* u is t with x rotated under its right child. *)
LeftTurn(u, t, x) ==
  LET y == t.right[x]
      p == t.parent[x]
  IN /\ u \in Tree
     /\ u.colour = t.colour
     /\ u.root = IF x = t.root THEN y ELSE t.root
     /\ \A n \in Nodes :
          /\ u.left[n] = IF n = y THEN x
                         ELSE IF n = p /\ x # t.root /\ t.left[n] = x THEN y
                         ELSE t.left[n]
          /\ u.right[n] = IF n = x THEN t.left[y]
                          ELSE IF n = p /\ x # t.root /\ t.right[n] = x THEN y
                          ELSE t.right[n]
          /\ u.parent[n] = IF n = x THEN y
                           ELSE IF n = y THEN p
                           ELSE IF n = t.left[y] /\ n # Null THEN x
                           ELSE t.parent[n]

(* What left_rotate does when there is something to rotate. *)
LEMMA LeftRotatedIs ==
  ASSUME NEW t \in Tree, NEW S \in SUBSET Scores, NEW sub, Shaped(t, S, sub),
         NEW x \in S, t.right[x] # Null
  PROVE  LeftTurn(LeftRotated(t, x), t, x)
<1> DEFINE y == t.right[x]
           inner == t.left[y]
           p == t.parent[x]
           r == Replaced(t, x, y)
           a == Adopted(r, x, inner)
           u == LeftRotated(t, x)
<1>0. inner # Null => inner > x
  <2> SUFFICES ASSUME inner # Null PROVE inner > x
    OBVIOUS
  <2>1. y \in S /\ inner \in sub[y]
    BY ChildrenOrdered
  <2>2. sub[y] = {m \in sub[x] : m > x}
    BY DEF Shaped, Ordered
  <2> QED
    BY <2>1, <2>2
<1>1. /\ y \in S /\ x < y /\ inner \in S \cup {Null}
      /\ inner # Null => inner < y /\ t.parent[inner] = y
      /\ p \in S \cup {Null} /\ (p = Null <=> x = t.root)
  BY ChildrenOrdered, NullAssumption DEF Shaped, Links
<1>2. x \in Int /\ y \in Int /\ x \in Nodes /\ y \in Nodes /\ inner \in Nodes
      /\ x # Null /\ y # Null /\ x # y /\ inner # y
  BY <1>1, ScoresAssumption, NullAssumption DEF Nodes
<1>3. /\ r \in Tree /\ r.colour = t.colour
      /\ r.root = IF x = t.root THEN y ELSE t.root
      /\ r.parent = [t.parent EXCEPT ![y] = p]
      /\ \A n \in Nodes :
          /\ r.left[n] = IF n = p /\ p # Null /\ t.left[n] = x THEN y ELSE t.left[n]
          /\ r.right[n] = IF n = p /\ p # Null /\ t.right[n] = x THEN y ELSE t.right[n]
  <2>1. x \in Scores /\ y \in Scores /\ p \in Nodes
    BY <1>1 DEF Nodes
  <2>2. TakesPlace(r, t, x, y)
    <3> HIDE DEF y
    <3> QED  BY <2>1, ReplacedIs
  <2> QED
    BY <1>1, <2>2 DEF TakesPlace
<1>4. /\ a \in Tree /\ a.root = r.root /\ a.left = r.left /\ a.right = r.right
      /\ a.colour = r.colour
      /\ a.parent = IF inner = Null THEN r.parent ELSE [r.parent EXCEPT ![inner] = x]
  <2> HIDE DEF r
  <2> QED  BY <1>2, <1>3, SetParent DEF Adopted
<1>5. r.left[y] = inner
  <2>1. ~(p = y /\ t.left[y] = x)
    BY <1>0, <1>1, <1>2
  <2> QED  BY <2>1, <1>2, <1>3
<1> DEFINE b == [a EXCEPT !.right[x] = inner]
           c == [b EXCEPT !.left[y] = x]
<1>6. u = [c EXCEPT !.parent[x] = y]
  BY <1>2, <1>5, Zenon DEF LeftRotated
<1> HIDE DEF a, r
<1>7. /\ b \in Tree /\ b.root = a.root /\ b.left = a.left /\ b.parent = a.parent
      /\ b.colour = a.colour /\ b.right = [a.right EXCEPT ![x] = inner]
  BY <1>2, <1>4, SetRight
<1> HIDE DEF b
<1>8. /\ c \in Tree /\ c.root = b.root /\ c.right = b.right /\ c.parent = b.parent
      /\ c.colour = b.colour /\ c.left = [b.left EXCEPT ![y] = x]
  BY <1>2, <1>7, SetLeft
<1> HIDE DEF c
<1>9. /\ u \in Tree /\ u.root = c.root /\ u.right = c.right /\ u.left = c.left
      /\ u.colour = c.colour /\ u.parent = [c.parent EXCEPT ![x] = y]
  BY <1>2, <1>6, <1>8, SetParent
<1> HIDE DEF u
<1>10. u.colour = t.colour /\ u.root = IF x = t.root THEN y ELSE t.root
  BY <1>3, <1>4, <1>7, <1>8, <1>9
<1>11. ASSUME NEW n \in Nodes
       PROVE  /\ u.left[n] = IF n = y THEN x
                              ELSE IF n = p /\ x # t.root /\ t.left[n] = x
                                     THEN y
                              ELSE t.left[n]
              /\ u.right[n] = IF n = x THEN inner
                               ELSE IF n = p /\ x # t.root /\ t.right[n] = x
                                     THEN y
                               ELSE t.right[n]
              /\ u.parent[n] = IF n = x THEN y
                                ELSE IF n = y THEN p
                                ELSE IF n = inner /\ n # Null THEN x
                                ELSE t.parent[n]
  BY <1>1, <1>2, <1>3, <1>4, <1>7, <1>8, <1>9 DEF Tree
<1> QED
  BY <1>9, <1>10, <1>11 DEF LeftTurn, u

(* The subtrees when x is rotated under its right child y. *)
LeftSubtrees(sub, x, y) ==
  [sub EXCEPT ![x] = {m \in sub[x] : m < y}, ![y] = sub[x]]

(* A left rotation keeps the tree a search tree. *)
LEMMA LeftTurnShaped ==
  ASSUME NEW t \in Tree, NEW S \in SUBSET Scores, NEW sub, Shaped(t, S, sub),
         NEW x \in S, t.right[x] # Null,
         NEW u, LeftTurn(u, t, x)
  PROVE  Shaped(u, S, LeftSubtrees(sub, x, t.right[x]))
<1> DEFINE y == t.right[x]
           inner == t.left[y]
           p == t.parent[x]
           new == LeftSubtrees(sub, x, y)
<1>1. /\ y \in S /\ x < y /\ x \in Int /\ y \in Int /\ x # Null /\ y # Null
      /\ S \subseteq Int /\ S \subseteq Nodes /\ Null \notin S
      /\ t.parent[y] = x
  BY ChildrenOrdered, ScoresAssumption, NullAssumption DEF Nodes
<1>2. /\ sub \in [S -> SUBSET S]
      /\ sub[y] = {m \in sub[x] : m > x}
      /\ inner # Null => sub[inner] = {m \in sub[x] : m > x /\ m < y}
      /\ x \in sub[x] /\ y \in sub[x]
  BY <1>1 DEF Shaped, Ordered
<1>3. inner # Null => /\ inner \in S /\ inner > x /\ inner < y
                      /\ t.parent[inner] = y
  <2>1. inner # Null => inner \in sub[inner] /\ inner \in S /\ t.parent[inner] = y
    BY <1>1 DEF Shaped, Ordered, Links
  <2> QED
    BY <2>1, <1>2
<1>4. /\ (p \in S \/ x = t.root) /\ p \in S \cup {Null}
      /\ x # t.root => x = t.left[p] \/ x = t.right[p]
      /\ p # y
  <2>1. (p \in S \/ x = t.root) /\ p \in S \cup {Null}
        /\ (x # t.root => x = t.left[p] \/ x = t.right[p])
    BY DEF Shaped, Links
  <2>2. t.right[y] # Null => t.right[y] > y
    BY <1>1, ChildrenOrdered
  <2>3. p = y => x = t.root
    BY <2>1, <2>2, <1>1, <1>3, ScoresAssumption
  <2> QED
    BY <2>1, <2>3, <1>1 DEF Shaped, Links
<1>5. new \in [S -> SUBSET S]
      /\ \A n \in S : new[n] = IF n = y THEN sub[x]
                                ELSE IF n = x THEN {m \in sub[x] : m < y}
                                ELSE sub[n]
  BY <1>1, <1>2 DEF LeftSubtrees
<1> HIDE DEF new
<1>6. /\ u.root = IF x = t.root THEN y ELSE t.root
      /\ \A n \in S :
          /\ u.left[n] = IF n = y THEN x
                         ELSE IF n = p /\ x # t.root /\ t.left[n] = x THEN y
                         ELSE t.left[n]
          /\ u.right[n] = IF n = x THEN inner
                          ELSE IF n = p /\ x # t.root /\ t.right[n] = x THEN y
                          ELSE t.right[n]
          /\ u.parent[n] = IF n = x THEN y
                           ELSE IF n = y THEN p
                           ELSE IF n = inner THEN x
                           ELSE t.parent[n]
  BY <1>1 DEF LeftTurn
<1>10. /\ t.right[x] = y /\ t.left[y] = inner /\ t.parent[x] = p
       /\ x = t.root <=> p = Null
       /\ inner \in S \cup {Null} /\ inner # x /\ inner # y
  BY <1>1, <1>3, <1>4 DEF Shaped, Links
<1>11. \A n \in S :
         /\ t.left[n] \in S \cup {Null} /\ t.right[n] \in S \cup {Null}
         /\ t.left[n] # Null => /\ t.left[n] \in S /\ t.left[n] \in Int
                                /\ t.left[n] < n /\ t.parent[t.left[n]] = n
         /\ t.right[n] # Null => /\ t.right[n] \in S /\ t.right[n] \in Int
                                 /\ t.right[n] > n /\ t.parent[t.right[n]] = n
         /\ n # t.root => /\ t.parent[n] \in S
                          /\ n = t.left[t.parent[n]] \/ n = t.right[t.parent[n]]
  BY <1>1, ChildrenOrdered DEF Shaped, Links
<1>12. t.root \in S /\ t.parent[t.root] = Null /\ sub[t.root] = S
  BY DEF Shaped, Links, Ordered
<1>13. p # x
  BY <1>1, <1>4, <1>10, <1>11
<1>14. \A n \in S :
         /\ n \in sub[n] /\ sub[n] \subseteq S
         /\ IF t.left[n] = Null THEN \A m \in sub[n] : m >= n
                                ELSE sub[t.left[n]] = {m \in sub[n] : m < n}
         /\ IF t.right[n] = Null THEN \A m \in sub[n] : m =< n
                                 ELSE sub[t.right[n]] = {m \in sub[n] : m > n}
  BY DEF Shaped, Ordered
<1> HIDE DEF y, inner, p
<1>7. Links(u, S)
  <2>1. u.root \in S /\ u.parent[u.root] = Null
    <3>1. CASE x = t.root
      BY <3>1, <1>1, <1>6, <1>10
    <3>2. CASE x # t.root
      BY <3>2, <1>1, <1>3, <1>6, <1>12
    <3> QED  BY <3>1, <3>2
  <2>2. ASSUME NEW n \in S
        PROVE  /\ u.left[n] \in S \cup {Null}
               /\ u.left[n] # Null => u.parent[u.left[n]] = n
    <3>1. CASE n = y
      BY <3>1, <1>1, <1>6
    <3>2. CASE n = x
      <4>1. u.left[x] = t.left[x]
        BY <1>1, <1>6, <1>13
      <4>2. t.left[x] # Null =>
              t.left[x] # x /\ t.left[x] # y /\ t.left[x] # inner
        BY <1>1, <1>3, <1>11
      <4> QED
        BY <3>2, <4>1, <4>2, <1>6, <1>11
    <3>3. CASE n \notin {x, y} /\ n = p /\ t.left[n] = x
      BY <3>3, <1>1, <1>4, <1>6, <1>10
    <3>4. CASE n \notin {x, y} /\ ~(n = p /\ t.left[n] = x)
      <4>1. u.left[n] = t.left[n] /\ t.left[n] \in S \cup {Null}
        BY <3>4, <1>6, <1>11
      <4>2. t.left[n] # Null =>
              t.left[n] # x /\ t.left[n] # y /\ t.left[n] # inner
        BY <3>4, <1>1, <1>3, <1>10, <1>11
      <4> QED
        BY <4>1, <4>2, <1>6, <1>11
    <3> QED  BY <3>1, <3>2, <3>3, <3>4
  <2>3. ASSUME NEW n \in S
        PROVE  /\ u.right[n] \in S \cup {Null}
               /\ u.right[n] # Null => u.parent[u.right[n]] = n
    <3>1. CASE n = y
      <4>1. u.right[y] = t.right[y]
        BY <1>1, <1>4, <1>6
      <4>2. t.right[y] # Null =>
              t.right[y] # x /\ t.right[y] # y /\ t.right[y] # inner
        BY <1>1, <1>10, <1>11
      <4> QED
        BY <3>1, <4>1, <4>2, <1>1, <1>6, <1>11
    <3>2. CASE n = x
      BY <3>2, <1>1, <1>3, <1>6, <1>10
    <3>3. CASE n \notin {x, y} /\ n = p /\ t.right[n] = x
      BY <3>3, <1>1, <1>4, <1>6, <1>10
    <3>4. CASE n \notin {x, y} /\ ~(n = p /\ t.right[n] = x)
      <4>1. u.right[n] = t.right[n] /\ t.right[n] \in S \cup {Null}
        BY <3>4, <1>6, <1>11
      <4>2. t.right[n] # Null =>
              t.right[n] # x /\ t.right[n] # y /\ t.right[n] # inner
        BY <3>4, <1>1, <1>3, <1>10, <1>11
      <4> QED
        BY <4>1, <4>2, <1>6, <1>11
    <3> QED  BY <3>1, <3>2, <3>3, <3>4
  <2>4. ASSUME NEW n \in S, n # u.root
        PROVE  /\ u.parent[n] \in S
               /\ n = u.left[u.parent[n]] \/ n = u.right[u.parent[n]]
    <3>1. CASE n = x
      BY <3>1, <1>1, <1>6
    <3>2. CASE n = y
      BY <3>2, <2>4, <1>1, <1>4, <1>6, <1>10
    <3>3. CASE n = inner
      BY <3>3, <1>1, <1>3, <1>6
    <3>4. CASE n \notin {x, y, inner}
      <4>1. u.parent[n] = t.parent[n] /\ n # t.root
        BY <2>4, <3>4, <1>1, <1>6
      <4>2. t.parent[n] \in S /\ n \in {t.left[t.parent[n]], t.right[t.parent[n]]}
        BY <4>1, <1>11
      <4> QED
        BY <3>4, <4>1, <4>2, <1>1, <1>6, <1>10
    <3> QED  BY <3>1, <3>2, <3>3, <3>4
  <2> QED
    BY <2>1, <2>2, <2>3, <2>4 DEF Links
<1>8. Ordered(u, S, new)
  <2>1. new[u.root] = S
    BY <1>1, <1>5, <1>6, <1>12
  <2>2. ASSUME NEW n \in S
        PROVE  n \in new[n]
    BY <1>1, <1>2, <1>5, <1>14
  <2>3. ASSUME NEW n \in S
        PROVE  IF u.left[n] = Null THEN \A m \in new[n] : m >= n
               ELSE new[u.left[n]] = {m \in new[n] : m < n}
    <3>1. CASE n = y
      BY <3>1, <1>1, <1>5, <1>6
    <3>2. CASE n = x
      <4>1. u.left[x] = t.left[x] /\ t.left[x] # y /\ t.left[x] # x
        BY <1>1, <1>6, <1>11, <1>13
      <4>2. t.left[x] \in S \cup {Null} /\ new[x] = {m \in sub[x] : m < y}
        BY <1>1, <1>5, <1>11
      <4>3. t.left[x] # Null => new[t.left[x]] = sub[t.left[x]]
        BY <4>1, <4>2, <1>5
      <4>4. /\ sub[x] \subseteq Int
            /\ IF t.left[x] = Null THEN \A m \in sub[x] : m >= x
                                   ELSE sub[t.left[x]] = {m \in sub[x] : m < x}
        BY <1>1, <1>14
      <4> QED
        BY <3>2, <4>1, <4>2, <4>3, <4>4, <1>1
    <3>3. CASE n \notin {x, y} /\ n = p /\ t.left[n] = x
      BY <3>3, <1>1, <1>4, <1>5, <1>6, <1>10, <1>14
    <3>4. CASE n \notin {x, y} /\ ~(n = p /\ t.left[n] = x)
      <4>1. u.left[n] = t.left[n] /\ t.left[n] \in S \cup {Null} /\ new[n] = sub[n]
        BY <3>4, <1>5, <1>6, <1>11
      <4>2. t.left[n] # Null => t.left[n] # x /\ t.left[n] # y
        BY <3>4, <1>1, <1>10, <1>11
      <4>3. t.left[n] # Null => new[t.left[n]] = sub[t.left[n]]
        BY <4>1, <4>2, <1>5
      <4> QED
        BY <4>1, <4>3, <1>14
    <3> QED  BY <3>1, <3>2, <3>3, <3>4
  <2>4. ASSUME NEW n \in S
        PROVE  IF u.right[n] = Null THEN \A m \in new[n] : m =< n
               ELSE new[u.right[n]] = {m \in new[n] : m > n}
    <3>1. CASE n = y
      <4>1. u.right[y] = t.right[y] /\ t.right[y] # y /\ t.right[y] # x
        BY <1>1, <1>4, <1>6, <1>11
      <4>2. t.right[y] \in S \cup {Null} /\ new[y] = sub[x]
        BY <1>1, <1>5, <1>11
      <4>3. t.right[y] # Null => new[t.right[y]] = sub[t.right[y]]
        BY <4>1, <4>2, <1>5
      <4>4. IF t.right[y] = Null THEN \A m \in sub[y] : m =< y
                                 ELSE sub[t.right[y]] = {m \in sub[y] : m > y}
        BY <1>1, <1>14
      <4>5. sub[x] \subseteq Int
        BY <1>1, <1>14
      <4> QED
        BY <3>1, <4>1, <4>2, <4>3, <4>4, <4>5, <1>1, <1>2
    <3>2. CASE n = x
      <4>1. u.right[x] = inner /\ new[x] = {m \in sub[x] : m < y}
        BY <1>1, <1>5, <1>6
      <4>2. CASE inner = Null
        <5>1. \A m \in sub[y] : m >= y
          BY <4>2, <1>1, <1>10, <1>14
        <5>2. sub[x] \subseteq Int
          BY <1>1, <1>14
        <5> QED
          BY <3>2, <4>1, <4>2, <5>1, <5>2, <1>1, <1>2
      <4>3. CASE inner # Null
        <5>1. new[inner] = sub[inner]
          BY <4>3, <1>1, <1>5, <1>10
        <5>2. sub[x] \subseteq Int
          BY <1>1, <1>14
        <5> QED
          BY <3>2, <4>1, <4>3, <5>1, <5>2, <1>1, <1>2
      <4> QED  BY <4>2, <4>3
    <3>3. CASE n \notin {x, y} /\ n = p /\ t.right[n] = x
      BY <3>3, <1>1, <1>4, <1>5, <1>6, <1>10, <1>14
    <3>4. CASE n \notin {x, y} /\ ~(n = p /\ t.right[n] = x)
      <4>1. u.right[n] = t.right[n] /\ t.right[n] \in S \cup {Null} /\ new[n] = sub[n]
        BY <3>4, <1>5, <1>6, <1>11
      <4>2. t.right[n] # Null => t.right[n] # x /\ t.right[n] # y
        BY <3>4, <1>1, <1>10, <1>11
      <4>3. t.right[n] # Null => new[t.right[n]] = sub[t.right[n]]
        BY <4>1, <4>2, <1>5
      <4> QED
        BY <4>1, <4>3, <1>14
    <3> QED  BY <3>1, <3>2, <3>3, <3>4
  <2> QED
    BY <1>5, <2>1, <2>2, <2>3, <2>4 DEF Ordered
<1>9. Nested(u, S, new)
  <2> SUFFICES ASSUME NEW n \in S, NEW m \in new[n]
               PROVE  /\ new[m] \subseteq new[n]
                      /\ m # n => u.parent[m] \in new[n]
    BY DEF Nested
  <2>1. \A a \in S : \A b \in sub[a] :
          /\ b \in S /\ b \in Int /\ sub[b] \subseteq sub[a]
          /\ b # a => t.parent[b] \in sub[a]
    BY <1>1, <1>14 DEF Shaped, Nested
  <2>2. CASE n = x
    <3>1. m \in sub[x] /\ m < y /\ m \in S /\ m \in Int
      BY <2>1, <2>2, <1>1, <1>5
    <3>2. ASSUME NEW k \in new[m] PROVE k \in new[n]
      <4>1. CASE m = x
        BY <3>2, <4>1, <2>2
      <4>2. CASE m < x
        <5>1. new[m] = sub[m]
          BY <4>2, <3>1, <1>1, <1>5
        <5>2. t.left[x] # Null /\ m \in sub[t.left[x]] /\ t.left[x] \in S
          BY <4>2, <3>1, <1>1, <1>11, <1>14
        <5>3. k \in sub[t.left[x]]
          BY <3>2, <5>1, <5>2, <2>1
        <5> QED
          BY <5>3, <5>2, <2>2, <2>1, <1>1, <1>5, <1>14
      <4>3. CASE m > x
        <5>1. new[m] = sub[m]
          BY <4>3, <3>1, <1>1, <1>5
        <5>2. inner # Null /\ m \in sub[inner] /\ inner \in S
          BY <4>3, <3>1, <1>1, <1>2, <1>10, <1>14
        <5>3. k \in sub[inner]
          BY <3>2, <5>1, <5>2, <2>1
        <5> QED
          BY <5>3, <5>2, <2>2, <1>1, <1>2, <1>5
      <4> QED  BY <4>1, <4>2, <4>3, <3>1, <1>1
    <3>3. ASSUME m # n PROVE u.parent[m] \in new[n]
      <4>1. CASE m = inner
        BY <4>1, <2>2, <3>1, <1>1, <1>2, <1>5, <1>6, <1>10
      <4>2. CASE m # inner
        <5>1. u.parent[m] = t.parent[m] /\ t.parent[m] \in sub[x]
          BY <3>1, <3>3, <4>2, <2>1, <2>2, <1>1, <1>6
        <5>2. CASE m < x
          <6>1. t.left[x] # Null /\ m \in sub[t.left[x]] /\ t.left[x] \in S
            BY <5>2, <3>1, <1>1, <1>11, <1>14
          <6>2. t.parent[m] = x \/ t.parent[m] < x
            BY <6>1, <2>1, <1>1, <1>11, <1>14
          <6> QED
            BY <5>1, <6>2, <2>1, <2>2, <1>1, <1>5
        <5>3. CASE m > x
          <6>1. inner # Null /\ m \in sub[inner] /\ inner \in S
            BY <5>3, <3>1, <1>1, <1>2, <1>10, <1>14
          <6>2. t.parent[m] \in sub[inner]
            BY <6>1, <4>2, <2>1
          <6> QED
            BY <5>1, <6>1, <6>2, <2>2, <1>1, <1>2, <1>5
        <5> QED  BY <5>2, <5>3, <3>1, <3>3, <2>2, <1>1
      <4> QED  BY <4>1, <4>2
    <3> QED  BY <3>2, <3>3
  <2>3. CASE n = y
    <3>1. new[n] = sub[x] /\ m \in sub[x] /\ m \in S
      BY <2>1, <2>3, <1>1, <1>5
    <3>2. new[m] \subseteq sub[x]
      BY <3>1, <2>1, <1>5
    <3>3. m # n => u.parent[m] \in sub[x]
      BY <3>1, <2>1, <2>3, <1>1, <1>2, <1>6
    <3> QED  BY <3>1, <3>2, <3>3
  <2>4. CASE n \notin {x, y}
    <3>1. new[n] = sub[n] /\ m \in sub[n] /\ m \in S
      BY <2>1, <2>4, <1>5
    <3>2. y \in sub[n] => x \in sub[n]
      BY <2>1, <2>4, <1>1
    <3>3. inner \in sub[n] => inner = n \/ x \in sub[n]
      BY <3>2, <2>1, <1>3, <1>1
    <3>4. new[m] \subseteq sub[n]
      BY <3>1, <3>2, <2>1, <1>1, <1>5
    <3>5. m # n => u.parent[m] \in sub[n]
      BY <3>1, <3>2, <3>3, <2>1, <2>4, <1>1, <1>2, <1>6, <1>10
    <3> QED  BY <3>1, <3>4, <3>5
  <2> QED
    BY <2>2, <2>3, <2>4
<1> QED
  BY <1>7, <1>8, <1>9 DEF Shaped, new, y

(* u is t with x rotated under its left child. *)
RightTurn(u, t, x) ==
  LET y == t.left[x]
      p == t.parent[x]
  IN /\ u \in Tree
     /\ u.colour = t.colour
     /\ u.root = IF x = t.root THEN y ELSE t.root
     /\ \A n \in Nodes :
          /\ u.right[n] = IF n = y THEN x
                         ELSE IF n = p /\ x # t.root /\ t.right[n] = x THEN y
                         ELSE t.right[n]
          /\ u.left[n] = IF n = x THEN t.right[y]
                          ELSE IF n = p /\ x # t.root /\ t.left[n] = x THEN y
                          ELSE t.left[n]
          /\ u.parent[n] = IF n = x THEN y
                           ELSE IF n = y THEN p
                           ELSE IF n = t.right[y] /\ n # Null THEN x
                           ELSE t.parent[n]

(* What right_rotate does when there is something to rotate. *)
LEMMA RightRotatedIs ==
  ASSUME NEW t \in Tree, NEW S \in SUBSET Scores, NEW sub, Shaped(t, S, sub),
         NEW x \in S, t.left[x] # Null
  PROVE  RightTurn(RightRotated(t, x), t, x)
<1> DEFINE y == t.left[x]
           inner == t.right[y]
           p == t.parent[x]
           r == Replaced(t, x, y)
           a == Adopted(r, x, inner)
           u == RightRotated(t, x)
<1>0. inner # Null => inner < x
  <2> SUFFICES ASSUME inner # Null PROVE inner < x
    OBVIOUS
  <2>1. y \in S /\ inner \in sub[y]
    BY ChildrenOrdered
  <2>2. sub[y] = {m \in sub[x] : m < x}
    BY DEF Shaped, Ordered
  <2> QED
    BY <2>1, <2>2
<1>1. /\ y \in S /\ x > y /\ inner \in S \cup {Null}
      /\ inner # Null => inner > y /\ t.parent[inner] = y
      /\ p \in S \cup {Null} /\ (p = Null <=> x = t.root)
  BY ChildrenOrdered, NullAssumption DEF Shaped, Links
<1>2. x \in Int /\ y \in Int /\ x \in Nodes /\ y \in Nodes /\ inner \in Nodes
      /\ x # Null /\ y # Null /\ x # y /\ inner # y
  BY <1>1, ScoresAssumption, NullAssumption DEF Nodes
<1>3. /\ r \in Tree /\ r.colour = t.colour
      /\ r.root = IF x = t.root THEN y ELSE t.root
      /\ r.parent = [t.parent EXCEPT ![y] = p]
      /\ \A n \in Nodes :
          /\ r.right[n] = IF n = p /\ p # Null /\ t.right[n] = x THEN y ELSE t.right[n]
          /\ r.left[n] = IF n = p /\ p # Null /\ t.left[n] = x THEN y ELSE t.left[n]
  <2>1. x \in Scores /\ y \in Scores /\ p \in Nodes
    BY <1>1 DEF Nodes
  <2>2. TakesPlace(r, t, x, y)
    <3> HIDE DEF y
    <3> QED  BY <2>1, ReplacedIs
  <2> QED
    BY <1>1, <2>2 DEF TakesPlace
<1>4. /\ a \in Tree /\ a.root = r.root /\ a.right = r.right /\ a.left = r.left
      /\ a.colour = r.colour
      /\ a.parent = IF inner = Null THEN r.parent ELSE [r.parent EXCEPT ![inner] = x]
  <2> HIDE DEF r
  <2> QED  BY <1>2, <1>3, SetParent DEF Adopted
<1>5. r.right[y] = inner
  <2>1. ~(p = y /\ t.right[y] = x)
    BY <1>0, <1>1, <1>2
  <2> QED  BY <2>1, <1>2, <1>3
<1> DEFINE b == [a EXCEPT !.left[x] = inner]
           c == [b EXCEPT !.right[y] = x]
<1>6. u = [c EXCEPT !.parent[x] = y]
  BY <1>2, <1>5, Zenon DEF RightRotated
<1> HIDE DEF a, r
<1>7. /\ b \in Tree /\ b.root = a.root /\ b.right = a.right /\ b.parent = a.parent
      /\ b.colour = a.colour /\ b.left = [a.left EXCEPT ![x] = inner]
  BY <1>2, <1>4, SetLeft
<1> HIDE DEF b
<1>8. /\ c \in Tree /\ c.root = b.root /\ c.left = b.left /\ c.parent = b.parent
      /\ c.colour = b.colour /\ c.right = [b.right EXCEPT ![y] = x]
  BY <1>2, <1>7, SetRight
<1> HIDE DEF c
<1>9. /\ u \in Tree /\ u.root = c.root /\ u.left = c.left /\ u.right = c.right
      /\ u.colour = c.colour /\ u.parent = [c.parent EXCEPT ![x] = y]
  BY <1>2, <1>6, <1>8, SetParent
<1> HIDE DEF u
<1>10. u.colour = t.colour /\ u.root = IF x = t.root THEN y ELSE t.root
  BY <1>3, <1>4, <1>7, <1>8, <1>9
<1>11. ASSUME NEW n \in Nodes
       PROVE  /\ u.right[n] = IF n = y THEN x
                              ELSE IF n = p /\ x # t.root /\ t.right[n] = x
                                     THEN y
                              ELSE t.right[n]
              /\ u.left[n] = IF n = x THEN inner
                               ELSE IF n = p /\ x # t.root /\ t.left[n] = x
                                     THEN y
                               ELSE t.left[n]
              /\ u.parent[n] = IF n = x THEN y
                                ELSE IF n = y THEN p
                                ELSE IF n = inner /\ n # Null THEN x
                                ELSE t.parent[n]
  BY <1>1, <1>2, <1>3, <1>4, <1>7, <1>8, <1>9 DEF Tree
<1> QED
  BY <1>9, <1>10, <1>11 DEF RightTurn, u

(* The subtrees when x is rotated under its left child y. *)
RightSubtrees(sub, x, y) ==
  [sub EXCEPT ![x] = {m \in sub[x] : m > y}, ![y] = sub[x]]

(* A right rotation keeps the tree a search tree. *)
LEMMA RightTurnShaped ==
  ASSUME NEW t \in Tree, NEW S \in SUBSET Scores, NEW sub, Shaped(t, S, sub),
         NEW x \in S, t.left[x] # Null,
         NEW u, RightTurn(u, t, x)
  PROVE  Shaped(u, S, RightSubtrees(sub, x, t.left[x]))
<1> DEFINE y == t.left[x]
           inner == t.right[y]
           p == t.parent[x]
           new == RightSubtrees(sub, x, y)
<1>1. /\ y \in S /\ x > y /\ x \in Int /\ y \in Int /\ x # Null /\ y # Null
      /\ S \subseteq Int /\ S \subseteq Nodes /\ Null \notin S
      /\ t.parent[y] = x
  BY ChildrenOrdered, ScoresAssumption, NullAssumption DEF Nodes
<1>2. /\ sub \in [S -> SUBSET S]
      /\ sub[y] = {m \in sub[x] : m < x}
      /\ inner # Null => sub[inner] = {m \in sub[x] : m < x /\ m > y}
      /\ x \in sub[x] /\ y \in sub[x]
  BY <1>1 DEF Shaped, Ordered
<1>3. inner # Null => /\ inner \in S /\ inner < x /\ inner > y
                      /\ t.parent[inner] = y
  <2>1. inner # Null => inner \in sub[inner] /\ inner \in S /\ t.parent[inner] = y
    BY <1>1 DEF Shaped, Ordered, Links
  <2> QED
    BY <2>1, <1>2
<1>4. /\ (p \in S \/ x = t.root) /\ p \in S \cup {Null}
      /\ x # t.root => x = t.right[p] \/ x = t.left[p]
      /\ p # y
  <2>1. (p \in S \/ x = t.root) /\ p \in S \cup {Null}
        /\ (x # t.root => x = t.right[p] \/ x = t.left[p])
    BY DEF Shaped, Links
  <2>2. t.left[y] # Null => t.left[y] < y
    BY <1>1, ChildrenOrdered
  <2>3. p = y => x = t.root
    BY <2>1, <2>2, <1>1, <1>3, ScoresAssumption
  <2> QED
    BY <2>1, <2>3, <1>1 DEF Shaped, Links
<1>5. new \in [S -> SUBSET S]
      /\ \A n \in S : new[n] = IF n = y THEN sub[x]
                                ELSE IF n = x THEN {m \in sub[x] : m > y}
                                ELSE sub[n]
  BY <1>1, <1>2 DEF RightSubtrees
<1> HIDE DEF new
<1>6. /\ u.root = IF x = t.root THEN y ELSE t.root
      /\ \A n \in S :
          /\ u.right[n] = IF n = y THEN x
                         ELSE IF n = p /\ x # t.root /\ t.right[n] = x THEN y
                         ELSE t.right[n]
          /\ u.left[n] = IF n = x THEN inner
                          ELSE IF n = p /\ x # t.root /\ t.left[n] = x THEN y
                          ELSE t.left[n]
          /\ u.parent[n] = IF n = x THEN y
                           ELSE IF n = y THEN p
                           ELSE IF n = inner THEN x
                           ELSE t.parent[n]
  BY <1>1 DEF RightTurn
<1>10. /\ t.left[x] = y /\ t.right[y] = inner /\ t.parent[x] = p
       /\ x = t.root <=> p = Null
       /\ inner \in S \cup {Null} /\ inner # x /\ inner # y
  BY <1>1, <1>3, <1>4 DEF Shaped, Links
<1>11. \A n \in S :
         /\ t.right[n] \in S \cup {Null} /\ t.left[n] \in S \cup {Null}
         /\ t.right[n] # Null => /\ t.right[n] \in S /\ t.right[n] \in Int
                                /\ t.right[n] > n /\ t.parent[t.right[n]] = n
         /\ t.left[n] # Null => /\ t.left[n] \in S /\ t.left[n] \in Int
                                 /\ t.left[n] < n /\ t.parent[t.left[n]] = n
         /\ n # t.root => /\ t.parent[n] \in S
                          /\ n = t.right[t.parent[n]] \/ n = t.left[t.parent[n]]
  BY <1>1, ChildrenOrdered DEF Shaped, Links
<1>12. t.root \in S /\ t.parent[t.root] = Null /\ sub[t.root] = S
  BY DEF Shaped, Links, Ordered
<1>13. p # x
  BY <1>1, <1>4, <1>10, <1>11
<1>14. \A n \in S :
         /\ n \in sub[n] /\ sub[n] \subseteq S
         /\ IF t.right[n] = Null THEN \A m \in sub[n] : m =< n
                                ELSE sub[t.right[n]] = {m \in sub[n] : m > n}
         /\ IF t.left[n] = Null THEN \A m \in sub[n] : m >= n
                                 ELSE sub[t.left[n]] = {m \in sub[n] : m < n}
  BY DEF Shaped, Ordered
<1> HIDE DEF y, inner, p
<1>7. Links(u, S)
  <2>1. u.root \in S /\ u.parent[u.root] = Null
    <3>1. CASE x = t.root
      BY <3>1, <1>1, <1>6, <1>10
    <3>2. CASE x # t.root
      BY <3>2, <1>1, <1>3, <1>6, <1>12
    <3> QED  BY <3>1, <3>2
  <2>2. ASSUME NEW n \in S
        PROVE  /\ u.right[n] \in S \cup {Null}
               /\ u.right[n] # Null => u.parent[u.right[n]] = n
    <3>1. CASE n = y
      BY <3>1, <1>1, <1>6
    <3>2. CASE n = x
      <4>1. u.right[x] = t.right[x]
        BY <1>1, <1>6, <1>13
      <4>2. t.right[x] # Null =>
              t.right[x] # x /\ t.right[x] # y /\ t.right[x] # inner
        BY <1>1, <1>3, <1>11
      <4> QED
        BY <3>2, <4>1, <4>2, <1>6, <1>11
    <3>3. CASE n \notin {x, y} /\ n = p /\ t.right[n] = x
      BY <3>3, <1>1, <1>4, <1>6, <1>10
    <3>4. CASE n \notin {x, y} /\ ~(n = p /\ t.right[n] = x)
      <4>1. u.right[n] = t.right[n] /\ t.right[n] \in S \cup {Null}
        BY <3>4, <1>6, <1>11
      <4>2. t.right[n] # Null =>
              t.right[n] # x /\ t.right[n] # y /\ t.right[n] # inner
        BY <3>4, <1>1, <1>3, <1>10, <1>11
      <4> QED
        BY <4>1, <4>2, <1>6, <1>11
    <3> QED  BY <3>1, <3>2, <3>3, <3>4
  <2>3. ASSUME NEW n \in S
        PROVE  /\ u.left[n] \in S \cup {Null}
               /\ u.left[n] # Null => u.parent[u.left[n]] = n
    <3>1. CASE n = y
      <4>1. u.left[y] = t.left[y]
        BY <1>1, <1>4, <1>6
      <4>2. t.left[y] # Null =>
              t.left[y] # x /\ t.left[y] # y /\ t.left[y] # inner
        BY <1>1, <1>10, <1>11
      <4> QED
        BY <3>1, <4>1, <4>2, <1>1, <1>6, <1>11
    <3>2. CASE n = x
      BY <3>2, <1>1, <1>3, <1>6, <1>10
    <3>3. CASE n \notin {x, y} /\ n = p /\ t.left[n] = x
      BY <3>3, <1>1, <1>4, <1>6, <1>10
    <3>4. CASE n \notin {x, y} /\ ~(n = p /\ t.left[n] = x)
      <4>1. u.left[n] = t.left[n] /\ t.left[n] \in S \cup {Null}
        BY <3>4, <1>6, <1>11
      <4>2. t.left[n] # Null =>
              t.left[n] # x /\ t.left[n] # y /\ t.left[n] # inner
        BY <3>4, <1>1, <1>3, <1>10, <1>11
      <4> QED
        BY <4>1, <4>2, <1>6, <1>11
    <3> QED  BY <3>1, <3>2, <3>3, <3>4
  <2>4. ASSUME NEW n \in S, n # u.root
        PROVE  /\ u.parent[n] \in S
               /\ n = u.right[u.parent[n]] \/ n = u.left[u.parent[n]]
    <3>1. CASE n = x
      BY <3>1, <1>1, <1>6
    <3>2. CASE n = y
      BY <3>2, <2>4, <1>1, <1>4, <1>6, <1>10
    <3>3. CASE n = inner
      BY <3>3, <1>1, <1>3, <1>6
    <3>4. CASE n \notin {x, y, inner}
      <4>1. u.parent[n] = t.parent[n] /\ n # t.root
        BY <2>4, <3>4, <1>1, <1>6
      <4>2. t.parent[n] \in S /\ n \in {t.right[t.parent[n]], t.left[t.parent[n]]}
        BY <4>1, <1>11
      <4> QED
        BY <3>4, <4>1, <4>2, <1>1, <1>6, <1>10
    <3> QED  BY <3>1, <3>2, <3>3, <3>4
  <2> QED
    BY <2>1, <2>2, <2>3, <2>4 DEF Links
<1>8. Ordered(u, S, new)
  <2>1. new[u.root] = S
    BY <1>1, <1>5, <1>6, <1>12
  <2>2. ASSUME NEW n \in S
        PROVE  n \in new[n]
    BY <1>1, <1>2, <1>5, <1>14
  <2>3. ASSUME NEW n \in S
        PROVE  IF u.right[n] = Null THEN \A m \in new[n] : m =< n
               ELSE new[u.right[n]] = {m \in new[n] : m > n}
    <3>1. CASE n = y
      BY <3>1, <1>1, <1>5, <1>6
    <3>2. CASE n = x
      <4>1. u.right[x] = t.right[x] /\ t.right[x] # y /\ t.right[x] # x
        BY <1>1, <1>6, <1>11, <1>13
      <4>2. t.right[x] \in S \cup {Null} /\ new[x] = {m \in sub[x] : m > y}
        BY <1>1, <1>5, <1>11
      <4>3. t.right[x] # Null => new[t.right[x]] = sub[t.right[x]]
        BY <4>1, <4>2, <1>5
      <4>4. /\ sub[x] \subseteq Int
            /\ IF t.right[x] = Null THEN \A m \in sub[x] : m =< x
                                   ELSE sub[t.right[x]] = {m \in sub[x] : m > x}
        BY <1>1, <1>14
      <4> QED
        BY <3>2, <4>1, <4>2, <4>3, <4>4, <1>1
    <3>3. CASE n \notin {x, y} /\ n = p /\ t.right[n] = x
      BY <3>3, <1>1, <1>4, <1>5, <1>6, <1>10, <1>14
    <3>4. CASE n \notin {x, y} /\ ~(n = p /\ t.right[n] = x)
      <4>1. u.right[n] = t.right[n] /\ t.right[n] \in S \cup {Null} /\ new[n] = sub[n]
        BY <3>4, <1>5, <1>6, <1>11
      <4>2. t.right[n] # Null => t.right[n] # x /\ t.right[n] # y
        BY <3>4, <1>1, <1>10, <1>11
      <4>3. t.right[n] # Null => new[t.right[n]] = sub[t.right[n]]
        BY <4>1, <4>2, <1>5
      <4> QED
        BY <4>1, <4>3, <1>14
    <3> QED  BY <3>1, <3>2, <3>3, <3>4
  <2>4. ASSUME NEW n \in S
        PROVE  IF u.left[n] = Null THEN \A m \in new[n] : m >= n
               ELSE new[u.left[n]] = {m \in new[n] : m < n}
    <3>1. CASE n = y
      <4>1. u.left[y] = t.left[y] /\ t.left[y] # y /\ t.left[y] # x
        BY <1>1, <1>4, <1>6, <1>11
      <4>2. t.left[y] \in S \cup {Null} /\ new[y] = sub[x]
        BY <1>1, <1>5, <1>11
      <4>3. t.left[y] # Null => new[t.left[y]] = sub[t.left[y]]
        BY <4>1, <4>2, <1>5
      <4>4. IF t.left[y] = Null THEN \A m \in sub[y] : m >= y
                                 ELSE sub[t.left[y]] = {m \in sub[y] : m < y}
        BY <1>1, <1>14
      <4>5. sub[x] \subseteq Int
        BY <1>1, <1>14
      <4> QED
        BY <3>1, <4>1, <4>2, <4>3, <4>4, <4>5, <1>1, <1>2
    <3>2. CASE n = x
      <4>1. u.left[x] = inner /\ new[x] = {m \in sub[x] : m > y}
        BY <1>1, <1>5, <1>6
      <4>2. CASE inner = Null
        <5>1. \A m \in sub[y] : m =< y
          BY <4>2, <1>1, <1>10, <1>14
        <5>2. sub[x] \subseteq Int
          BY <1>1, <1>14
        <5> QED
          BY <3>2, <4>1, <4>2, <5>1, <5>2, <1>1, <1>2
      <4>3. CASE inner # Null
        <5>1. new[inner] = sub[inner]
          BY <4>3, <1>1, <1>5, <1>10
        <5>2. sub[x] \subseteq Int
          BY <1>1, <1>14
        <5> QED
          BY <3>2, <4>1, <4>3, <5>1, <5>2, <1>1, <1>2
      <4> QED  BY <4>2, <4>3
    <3>3. CASE n \notin {x, y} /\ n = p /\ t.left[n] = x
      BY <3>3, <1>1, <1>4, <1>5, <1>6, <1>10, <1>14
    <3>4. CASE n \notin {x, y} /\ ~(n = p /\ t.left[n] = x)
      <4>1. u.left[n] = t.left[n] /\ t.left[n] \in S \cup {Null} /\ new[n] = sub[n]
        BY <3>4, <1>5, <1>6, <1>11
      <4>2. t.left[n] # Null => t.left[n] # x /\ t.left[n] # y
        BY <3>4, <1>1, <1>10, <1>11
      <4>3. t.left[n] # Null => new[t.left[n]] = sub[t.left[n]]
        BY <4>1, <4>2, <1>5
      <4> QED
        BY <4>1, <4>3, <1>14
    <3> QED  BY <3>1, <3>2, <3>3, <3>4
  <2> QED
    BY <1>5, <2>1, <2>2, <2>3, <2>4 DEF Ordered
<1>9. Nested(u, S, new)
  <2> SUFFICES ASSUME NEW n \in S, NEW m \in new[n]
               PROVE  /\ new[m] \subseteq new[n]
                      /\ m # n => u.parent[m] \in new[n]
    BY DEF Nested
  <2>1. \A a \in S : \A b \in sub[a] :
          /\ b \in S /\ b \in Int /\ sub[b] \subseteq sub[a]
          /\ b # a => t.parent[b] \in sub[a]
    BY <1>1, <1>14 DEF Shaped, Nested
  <2>2. CASE n = x
    <3>1. m \in sub[x] /\ m > y /\ m \in S /\ m \in Int
      BY <2>1, <2>2, <1>1, <1>5
    <3>2. ASSUME NEW k \in new[m] PROVE k \in new[n]
      <4>1. CASE m = x
        BY <3>2, <4>1, <2>2
      <4>2. CASE m > x
        <5>1. new[m] = sub[m]
          BY <4>2, <3>1, <1>1, <1>5
        <5>2. t.right[x] # Null /\ m \in sub[t.right[x]] /\ t.right[x] \in S
          BY <4>2, <3>1, <1>1, <1>11, <1>14
        <5>3. k \in sub[t.right[x]]
          BY <3>2, <5>1, <5>2, <2>1
        <5> QED
          BY <5>3, <5>2, <2>2, <2>1, <1>1, <1>5, <1>14
      <4>3. CASE m < x
        <5>1. new[m] = sub[m]
          BY <4>3, <3>1, <1>1, <1>5
        <5>2. inner # Null /\ m \in sub[inner] /\ inner \in S
          BY <4>3, <3>1, <1>1, <1>2, <1>10, <1>14
        <5>3. k \in sub[inner]
          BY <3>2, <5>1, <5>2, <2>1
        <5> QED
          BY <5>3, <5>2, <2>2, <1>1, <1>2, <1>5
      <4> QED  BY <4>1, <4>2, <4>3, <3>1, <1>1
    <3>3. ASSUME m # n PROVE u.parent[m] \in new[n]
      <4>1. CASE m = inner
        BY <4>1, <2>2, <3>1, <1>1, <1>2, <1>5, <1>6, <1>10
      <4>2. CASE m # inner
        <5>1. u.parent[m] = t.parent[m] /\ t.parent[m] \in sub[x]
          BY <3>1, <3>3, <4>2, <2>1, <2>2, <1>1, <1>6
        <5>2. CASE m > x
          <6>1. t.right[x] # Null /\ m \in sub[t.right[x]] /\ t.right[x] \in S
            BY <5>2, <3>1, <1>1, <1>11, <1>14
          <6>2. t.parent[m] = x \/ t.parent[m] > x
            BY <6>1, <2>1, <1>1, <1>11, <1>14
          <6> QED
            BY <5>1, <6>2, <2>1, <2>2, <1>1, <1>5
        <5>3. CASE m < x
          <6>1. inner # Null /\ m \in sub[inner] /\ inner \in S
            BY <5>3, <3>1, <1>1, <1>2, <1>10, <1>14
          <6>2. t.parent[m] \in sub[inner]
            BY <6>1, <4>2, <2>1
          <6> QED
            BY <5>1, <6>1, <6>2, <2>2, <1>1, <1>2, <1>5
        <5> QED  BY <5>2, <5>3, <3>1, <3>3, <2>2, <1>1
      <4> QED  BY <4>1, <4>2
    <3> QED  BY <3>2, <3>3
  <2>3. CASE n = y
    <3>1. new[n] = sub[x] /\ m \in sub[x] /\ m \in S
      BY <2>1, <2>3, <1>1, <1>5
    <3>2. new[m] \subseteq sub[x]
      BY <3>1, <2>1, <1>5
    <3>3. m # n => u.parent[m] \in sub[x]
      BY <3>1, <2>1, <2>3, <1>1, <1>2, <1>6
    <3> QED  BY <3>1, <3>2, <3>3
  <2>4. CASE n \notin {x, y}
    <3>1. new[n] = sub[n] /\ m \in sub[n] /\ m \in S
      BY <2>1, <2>4, <1>5
    <3>2. y \in sub[n] => x \in sub[n]
      BY <2>1, <2>4, <1>1
    <3>3. inner \in sub[n] => inner = n \/ x \in sub[n]
      BY <3>2, <2>1, <1>3, <1>1
    <3>4. new[m] \subseteq sub[n]
      BY <3>1, <3>2, <2>1, <1>1, <1>5
    <3>5. m # n => u.parent[m] \in sub[n]
      BY <3>1, <3>2, <3>3, <2>1, <2>4, <1>1, <1>2, <1>6, <1>10
    <3> QED  BY <3>1, <3>4, <3>5
  <2> QED
    BY <2>2, <2>3, <2>4
<1> QED
  BY <1>7, <1>8, <1>9 DEF Shaped, new, y

-----------------------------------------------------------------------------
(* Trees in which nothing leads through nullptr *)

Sentinel(t) ==
  /\ t.left[Null] = Nil /\ t.right[Null] = Nil /\ t.parent[Null] = Nil
  /\ t.colour[Null] = Black

Good(t, S, sub) ==
  t \in Tree /\ S \in SUBSET Scores /\ Shaped(t, S, sub) /\ Sentinel(t)

(* left_rotate keeps the tree a search tree, and every colour. *)
LEMMA LeftRotatedGood ==
  ASSUME NEW t, NEW S, NEW sub, Good(t, S, sub), NEW x \in S
  PROVE  /\ LeftRotated(t, x).colour = t.colour
         /\ LeftRotated(t, x).root = IF x = t.root /\ t.right[x] # Null
                                     THEN t.right[x] ELSE t.root
         /\ \E new : Good(LeftRotated(t, x), S, new)
<1> t \in Tree /\ S \in SUBSET Scores /\ Shaped(t, S, sub) /\ Sentinel(t)
  BY DEF Good
<1> DEFINE u == LeftRotated(t, x)
<1>1. CASE t.right[x] = Null
  BY <1>1 DEF LeftRotated
<1>2. CASE t.right[x] # Null
  <2>1. LeftTurn(u, t, x)
    BY <1>2, LeftRotatedIs
  <2>2. PICK new : Shaped(u, S, new)
    BY <1>2, <2>1, LeftTurnShaped
  <2>3. x \in Scores /\ t.right[x] \in Scores /\ (x # t.root => t.parent[x] \in Scores)
    BY <1>2, ChildrenOrdered DEF Shaped, Links
  <2>4. Sentinel(u)
    BY <2>1, <2>3, NullAssumption DEF Sentinel, LeftTurn, Nodes
  <2> QED
    BY <1>2, <2>1, <2>2, <2>4 DEF LeftTurn, Good
<1> QED
  BY <1>1, <1>2

(* right_rotate does too. *)
LEMMA RightRotatedGood ==
  ASSUME NEW t, NEW S, NEW sub, Good(t, S, sub), NEW x \in S
  PROVE  /\ RightRotated(t, x).colour = t.colour
         /\ RightRotated(t, x).root = IF x = t.root /\ t.left[x] # Null
                                     THEN t.left[x] ELSE t.root
         /\ \E new : Good(RightRotated(t, x), S, new)
<1> t \in Tree /\ S \in SUBSET Scores /\ Shaped(t, S, sub) /\ Sentinel(t)
  BY DEF Good
<1> DEFINE u == RightRotated(t, x)
<1>1. CASE t.left[x] = Null
  BY <1>1 DEF RightRotated
<1>2. CASE t.left[x] # Null
  <2>1. RightTurn(u, t, x)
    BY <1>2, RightRotatedIs
  <2>2. PICK new : Shaped(u, S, new)
    BY <1>2, <2>1, RightTurnShaped
  <2>3. x \in Scores /\ t.left[x] \in Scores /\ (x # t.root => t.parent[x] \in Scores)
    BY <1>2, ChildrenOrdered DEF Shaped, Links
  <2>4. Sentinel(u)
    BY <2>1, <2>3, NullAssumption DEF Sentinel, RightTurn, Nodes
  <2> QED
    BY <1>2, <2>1, <2>2, <2>4 DEF RightTurn, Good
<1> QED
  BY <1>1, <1>2

(* u is t with nodes in other colours. *)
Repainted(u, t) ==
  /\ u \in Tree
  /\ u.root = t.root /\ u.left = t.left /\ u.right = t.right /\ u.parent = t.parent
  /\ u.colour[Null] = Black

(* Colours have no part in the search. *)
LEMMA RepaintedGood ==
  ASSUME NEW t, NEW S, NEW sub, Good(t, S, sub), NEW u, Repainted(u, t)
  PROVE  Good(u, S, sub)
<1>1. Links(u, S)
  BY DEF Good, Repainted, Shaped, Links
<1>2. Ordered(u, S, sub)
  BY DEF Good, Repainted, Shaped, Ordered
<1>3. Nested(u, S, sub)
  BY DEF Good, Repainted, Shaped, Nested
<1> QED
  BY <1>1, <1>2, <1>3 DEF Good, Shaped, Repainted, Sentinel

Paint(t, n, c) == [t EXCEPT !.colour[n] = c]

(* One node in another colour. *)
LEMMA PaintIs ==
  ASSUME NEW t, NEW S, NEW sub, Good(t, S, sub), NEW n \in S, NEW c \in {Black, Red}
  PROVE  /\ Repainted(Paint(t, n, c), t) /\ Good(Paint(t, n, c), S, sub)
         /\ Paint(t, n, c).colour = [t.colour EXCEPT ![n] = c]
<1> DEFINE u == Paint(t, n, c)
<1>1. t \in Tree /\ n \in Nodes /\ n # Null /\ t.colour[Null] = Black
  BY NullAssumption DEF Good, Nodes, Sentinel
<1>2. /\ u \in Tree /\ u.root = t.root /\ u.left = t.left
      /\ u.right = t.right /\ u.parent = t.parent
      /\ u.colour = [t.colour EXCEPT ![n] = c]
  BY <1>1, SetColour DEF Paint
<1> HIDE DEF u
<1>3. u.colour[Null] = Black
  BY <1>1, <1>2 DEF Tree, Nodes
<1>4. Repainted(u, t)
  BY <1>2, <1>3 DEF Repainted
<1>5. Good(u, S, sub)
  BY <1>4, RepaintedGood
<1> QED
  BY <1>2, <1>4, <1>5 DEF u

(* A node made black. *)
LEMMA PaintBlackIs ==
  ASSUME NEW t, NEW S, NEW sub, Good(t, S, sub), NEW n \in S
  PROVE  /\ Repainted(Paint(t, n, Black), t) /\ Good(Paint(t, n, Black), S, sub)
         /\ Paint(t, n, Black).colour = [t.colour EXCEPT ![n] = Black]
<1>1. Black \in {Black, Red}
  OBVIOUS
<1> QED  BY <1>1, PaintIs, Zenon

(* A node made red. *)
LEMMA PaintRedIs ==
  ASSUME NEW t, NEW S, NEW sub, Good(t, S, sub), NEW n \in S
  PROVE  /\ Repainted(Paint(t, n, Red), t) /\ Good(Paint(t, n, Red), S, sub)
         /\ Paint(t, n, Red).colour = [t.colour EXCEPT ![n] = Red]
<1>1. Red \in {Black, Red}
  OBVIOUS
<1> QED  BY <1>1, PaintIs, Zenon

(* A node that is not the root hangs on another one. *)
LEMMA ParentIs ==
  ASSUME NEW t, NEW S, NEW sub, Good(t, S, sub), NEW x \in S
  PROVE  /\ t.parent[x] \in S \cup {Null}
         /\ t.parent[x] = Null <=> x = t.root
         /\ x # t.root =>
              /\ t.parent[x] \in S
              /\ x = t.left[t.parent[x]] \/ x = t.right[t.parent[x]]
              /\ Sibling(t, x) \in S \cup {Null}
<1> t \in Tree /\ S \in SUBSET Scores /\ Links(t, S) /\ Null \notin S
  BY NullAssumption DEF Good, Shaped
<1> QED
  BY DEF Links, Sibling, IsLeft

-----------------------------------------------------------------------------
(* A turn of the repair *)

(* A red node below the root, with a child under repair. *)
RedAbove(t, S, x) ==
  /\ x \in S
  /\ t.parent[x] \in S
  /\ t.colour[t.parent[x]] = Red
  /\ t.colour[t.root] = Black

Uncle(t, x) == Sibling(t, t.parent[x])

(* What a is after the first part of a turn. *)
HalfTurned(a, t, S, sub, x) ==
  /\ a = [t |-> a.t, x |-> a.x, stop |-> a.stop]
  /\ a.x \in S
  /\ a.stop \in BOOLEAN
  /\ a.stop \/ a.x = a.t.root \/ a.t.colour[a.t.root] = Black
  /\ Uncle(t, x) # Null /\ ~a.stop => a.x = Grandparent(t, x)
  /\ \E mid : /\ Good(a.t, S, mid)
              /\ Uncle(t, x) # Null => mid = sub

(* What the first part of a turn does with the uncle. *)
LEMMA RecolouredGood ==
  ASSUME NEW t, NEW S, NEW sub, Good(t, S, sub), NEW x, RedAbove(t, S, x)
  PROVE  /\ t.parent[x] # t.root
         /\ Grandparent(t, x) \in S /\ Uncle(t, x) \in S \cup {Null}
         /\ HalfTurned(Recoloured(t, x), t, S, sub, x)
<1> DEFINE p == t.parent[x]
           g == t.parent[p]
           uncle == Sibling(t, p)
           c1 == Paint(t, p, Black)
           c2 == Paint(c1, g, Red)
           a == Recoloured(t, x)
<1>1. /\ x \in S /\ p \in S /\ p # t.root /\ t.colour[t.root] = Black
      /\ g = Grandparent(t, x) /\ uncle = Uncle(t, x)
  BY DEF RedAbove, Uncle, Grandparent, Black, Red
<1>2. /\ g \in S /\ uncle \in S \cup {Null}
      /\ IsLeft(t, p) => p = t.left[g]
      /\ ~IsLeft(t, p) => p = t.right[g]
  BY <1>1, ParentIs DEF IsLeft
<1>3. S \subseteq Nodes /\ t.colour \in [Nodes -> {Black, Red}] /\ Null \notin S
      /\ t.root \in S
  BY NullAssumption DEF Good, Tree, Nodes, Shaped, Links
<1>4. g # p
  <2>1. Shaped(t, S, sub) /\ S \in SUBSET Scores /\ g \in Int
    BY <1>2, ScoresAssumption DEF Good
  <2>2. (t.left[g] # Null => t.left[g] < g) /\ (t.right[g] # Null => t.right[g] > g)
    BY <2>1, <1>2, ChildrenOrdered
  <2> QED
    BY <2>1, <2>2, <1>1, <1>2, <1>3
<1>5. /\ Good(c1, S, sub) /\ c1.root = t.root /\ c1.left = t.left /\ c1.right = t.right
      /\ c1.colour = [t.colour EXCEPT ![p] = Black]
  <2>1. Repainted(c1, t) /\ Good(c1, S, sub)
        /\ c1.colour = [t.colour EXCEPT ![p] = Black]
    BY <1>1, PaintBlackIs
  <2> QED  BY <2>1 DEF Repainted
<1> HIDE DEF c1
<1>6. /\ Good(c2, S, sub) /\ c2.root = c1.root /\ c2.left = c1.left /\ c2.right = c1.right
      /\ c2.colour = [c1.colour EXCEPT ![g] = Red]
  <2>1. Repainted(c2, c1) /\ Good(c2, S, sub)
        /\ c2.colour = [c1.colour EXCEPT ![g] = Red]
    <3>1. Good(c1, S, sub) /\ g \in S
      BY <1>2, <1>5
    <3> HIDE DEF g
    <3> QED  BY <3>1, PaintRedIs
  <2> QED  BY <2>1 DEF Repainted
<1>7. a = IF uncle = Null
            THEN [t |-> IF IsLeft(t, p) THEN RightRotated(c2, g)
                                        ELSE LeftRotated(c2, g),
                  x |-> x, stop |-> FALSE]
          ELSE IF t.colour[uncle] = Red
            THEN [t |-> Paint(c2, uncle, Black),
                  x |-> g, stop |-> FALSE]
          ELSE [t |-> t, x |-> x, stop |-> TRUE]
  BY Zenon DEF Recoloured, Paint, c1
<1> HIDE DEF c2, p, g, uncle, a
<1>8. ASSUME uncle = Null /\ IsLeft(t, p)
      PROVE  HalfTurned(a, t, S, sub, x)
  <2> DEFINE u == RightRotated(c2, g)
  <2>1. a.t = u /\ a.x = x
    BY <1>7, <1>8
  <2>2. /\ u.colour = c2.colour /\ \E mid : Good(u, S, mid)
        /\ u.root = IF g = c2.root /\ c2.left[g] # Null THEN c2.left[g] ELSE c2.root
    BY <1>2, <1>6, RightRotatedGood
  <2> HIDE DEF u
  <2>3. u.root = IF g = t.root THEN p ELSE t.root
    BY <2>2, <1>1, <1>2, <1>3, <1>5, <1>6, <1>8
  <2>4. u.colour[u.root] = Black
    BY <2>2, <2>3, <1>1, <1>2, <1>3, <1>4, <1>5, <1>6
  <2> QED
    BY <2>1, <2>2, <2>4, <1>1, <1>2, <1>7, <1>8 DEF HalfTurned
<1>9. ASSUME uncle = Null /\ ~IsLeft(t, p)
      PROVE  HalfTurned(a, t, S, sub, x)
  <2> DEFINE u == LeftRotated(c2, g)
  <2>1. a.t = u /\ a.x = x
    BY <1>7, <1>9
  <2>2. /\ u.colour = c2.colour /\ \E mid : Good(u, S, mid)
        /\ u.root = IF g = c2.root /\ c2.right[g] # Null THEN c2.right[g] ELSE c2.root
    BY <1>2, <1>6, LeftRotatedGood
  <2> HIDE DEF u
  <2>3. u.root = IF g = t.root THEN p ELSE t.root
    BY <2>2, <1>1, <1>2, <1>3, <1>5, <1>6, <1>9
  <2>4. u.colour[u.root] = Black
    BY <2>2, <2>3, <1>1, <1>2, <1>3, <1>4, <1>5, <1>6
  <2> QED
    BY <2>1, <2>2, <2>4, <1>1, <1>2, <1>7, <1>9 DEF HalfTurned
<1>10. ASSUME uncle # Null /\ t.colour[uncle] = Red
      PROVE  HalfTurned(a, t, S, sub, x)
  <2> DEFINE u == Paint(c2, uncle, Black)
  <2>1. a.t = u /\ a.x = g
    BY <1>7, <1>10
  <2>2. /\ Good(u, S, sub) /\ u.root = c2.root
        /\ u.colour = [c2.colour EXCEPT ![uncle] = Black]
    <3>1. Repainted(u, c2) /\ Good(u, S, sub)
          /\ u.colour = [c2.colour EXCEPT ![uncle] = Black]
      BY <1>2, <1>6, <1>10, PaintBlackIs
    <3> QED  BY <3>1 DEF Repainted
  <2> HIDE DEF u
  <2>3. g = u.root \/ u.colour[u.root] = Black
    BY <2>2, <1>1, <1>2, <1>3, <1>5, <1>6
  <2> QED
    BY <2>1, <2>2, <2>3, <1>1, <1>2, <1>7, <1>10 DEF HalfTurned
<1>11. ASSUME uncle # Null /\ t.colour[uncle] # Red
      PROVE  HalfTurned(a, t, S, sub, x)
  BY <1>1, <1>2, <1>7, <1>11 DEF HalfTurned
<1> QED
  BY <1>1, <1>2, <1>8, <1>9, <1>10, <1>11 DEF a, p

(* A node is not in the subtree of any of its children. *)
LEMMA ParentAbove ==
  ASSUME NEW t, NEW S, NEW sub, Good(t, S, sub), NEW x \in S, x # t.root
  PROVE  /\ t.parent[x] \in S
         /\ x \in sub[x] /\ sub[x] \subseteq sub[t.parent[x]]
         /\ t.parent[x] \notin sub[x]
<1> DEFINE p == t.parent[x]
<1>1. p \in S /\ (x = t.left[p] \/ x = t.right[p])
  BY ParentIs
<1>2. /\ S \subseteq Int /\ Null \notin S /\ sub \in [S -> SUBSET S] /\ x \in sub[x]
      /\ IF t.left[p] = Null THEN \A m \in sub[p] : m >= p
                             ELSE sub[t.left[p]] = {m \in sub[p] : m < p}
      /\ IF t.right[p] = Null THEN \A m \in sub[p] : m =< p
                              ELSE sub[t.right[p]] = {m \in sub[p] : m > p}
  BY <1>1, ScoresAssumption, NullAssumption DEF Good, Shaped, Ordered
<1> QED
  BY <1>1, <1>2

(* The second part of a turn: a right child is rotated under. *)
LEMMA StraightenedGood ==
  ASSUME NEW t, NEW S, NEW sub, Good(t, S, sub), NEW x \in S,
         t.parent[x] \in S, Grandparent(t, x) \in S, NEW uncle
  PROVE  LET b == Straightened(t, x, uncle)
             rotates == x = t.right[t.parent[x]] /\ t.colour[uncle] = Black
         IN /\ b.x \in S /\ b.t.parent[b.x] \in S /\ Grandparent(b.t, b.x) \in S
            /\ b.t.colour = t.colour
            /\ \E new : Good(b.t, S, new)
            /\ ~rotates => b = [t |-> t, x |-> x]
            /\ rotates => b.x = b.t.left[b.t.parent[b.x]]
<1> DEFINE q == t.parent[x]
           h == t.parent[q]
           u == LeftRotated(t, q)
<1>1. /\ t \in Tree /\ S \in SUBSET Scores /\ Shaped(t, S, sub)
      /\ S \subseteq Nodes /\ Null \notin S /\ q \in S /\ h \in S
  BY NullAssumption DEF Good, Nodes, Grandparent
<1>2. CASE ~(x = t.right[q] /\ t.colour[uncle] = Black)
  BY <1>1, <1>2 DEF Straightened, Grandparent
<1>3. CASE x = t.right[q] /\ t.colour[uncle] = Black
  <2>1. Straightened(t, x, uncle) = [t |-> u, x |-> q]
    BY <1>3 DEF Straightened
  <2>2. u.colour = t.colour /\ \E new : Good(u, S, new)
    BY <1>1, LeftRotatedGood
  <2>3. LeftTurn(u, t, q)
    BY <1>1, <1>3, LeftRotatedIs
  <2>4. q # x
    <3>1. x # t.root
      BY <1>1, ParentIs
    <3> QED  BY <3>1, ParentAbove
  <2>5. u.parent[q] = x /\ u.parent[x] = h /\ u.left[x] = q
    BY <2>3, <2>4, <1>1, <1>3 DEF LeftTurn
  <2> HIDE DEF u, q, h
  <2> QED
    BY <2>1, <2>2, <2>5, <1>1, <1>3 DEF Grandparent, q
<1> QED
  BY <1>2, <1>3

(* The third part: when it turns anything, the repair is over. *)
LEMMA LiftedGood ==
  ASSUME NEW t, NEW S, NEW sub, Good(t, S, sub), NEW x \in S,
         t.parent[x] \in S, Grandparent(t, x) \in S, NEW uncle
  PROVE  LET u == Lifted(t, x, uncle)
             lifts == t.colour[uncle] = Black /\ x = t.left[t.parent[x]]
         IN /\ \E new : Good(u, S, new)
            /\ lifts => u.colour[u.parent[x]] = Black
            /\ ~lifts => u = t
<1> DEFINE q == t.parent[x]
           h == t.parent[q]
           y == t.left[h]
           c1 == Paint(t, q, Black)
           c2 == Paint(c1, h, Red)
           u == RightRotated(c2, h)
<1>1. /\ t \in Tree /\ S \in SUBSET Scores /\ Shaped(t, S, sub)
      /\ S \subseteq Nodes /\ Null \notin S /\ q \in S /\ h \in S
      /\ h = Grandparent(t, x)
  BY NullAssumption DEF Good, Nodes, Grandparent
<1>2. CASE ~(t.colour[uncle] = Black /\ x = t.left[q])
  BY <1>2 DEF Lifted
<1>3. CASE t.colour[uncle] = Black /\ x = t.left[q]
  <2>1. Lifted(t, x, uncle) = u
    BY <1>3, <1>1, Zenon DEF Lifted, Paint
  <2>2. q # h /\ x # h /\ x # q
    <3>1. x # t.root /\ q # t.root
      BY <1>1, ParentIs
    <3>2. x \in sub[x] /\ sub[x] \subseteq sub[q] /\ q \notin sub[x]
      BY <3>1, ParentAbove
    <3>3. q \in sub[q] /\ h \notin sub[q]
      BY <3>1, <1>1, ParentAbove
    <3> QED  BY <3>2, <3>3
  <2>3. Repainted(c1, t) /\ Good(c1, S, sub) /\ c1.colour = [t.colour EXCEPT ![q] = Black]
    BY <1>1, PaintBlackIs
  <2> HIDE DEF c1, q, h
  <2>4. Repainted(c2, c1) /\ Good(c2, S, sub) /\ c2.colour = [c1.colour EXCEPT ![h] = Red]
    BY <1>1, <2>3, PaintRedIs
  <2>5. c2.colour[q] = Black
    BY <2>2, <2>3, <2>4, <1>1 DEF Good, Tree
  <2>6. c2 \in Tree /\ Shaped(c2, S, sub) /\ c2.left = t.left /\ c2.right = t.right
        /\ c2.parent = t.parent
    BY <2>3, <2>4 DEF Good, Repainted
  <2> HIDE DEF c2
  <2>7. u.colour = c2.colour /\ \E new : Good(u, S, new)
    BY <1>1, <2>4, RightRotatedGood
  <2>8. u.parent[x] = q
    <3>1. CASE y = Null
      BY <3>1, <2>6 DEF RightRotated, q
    <3>2. CASE y # Null
      <4>1. RightTurn(u, c2, h)
        BY <3>2, <1>1, <2>6, RightRotatedIs
      <4>2. x # y
        <5>1. t.parent[y] = h
          BY <3>2, <1>1, ChildrenOrdered
        <5> QED
          BY <5>1, <2>2 DEF q
      <4>3. x # t.right[y]
        <5>1. SUFFICES ASSUME x = t.right[y] PROVE FALSE
          OBVIOUS
        <5>2. y \in S
          BY <3>2, <1>1, ChildrenOrdered
        <5>3. y \in Int /\ q \in Int /\ x # Null
          BY <5>2, <1>1, ScoresAssumption
        <5>4. x > y /\ t.parent[x] = y
          BY <5>1, <5>2, <5>3, <1>1, ChildrenOrdered
        <5>5. x < q
          BY <5>3, <1>1, <1>3, ChildrenOrdered
        <5> QED
          BY <5>3, <5>4, <5>5, <1>1, ScoresAssumption DEF q
      <4> QED
        BY <4>1, <4>2, <4>3, <2>2, <2>6, <1>1 DEF RightTurn, q
    <3> QED  BY <3>1, <3>2
  <2> QED
    BY <2>1, <2>5, <2>7, <2>8, <1>3 DEF q
<1> QED
  BY <1>2, <1>3

(* A turn of the repair keeps the tree a search tree.  While the repair    *)
(* goes on it stays below a red node and the root is black; and where      *)
(* there was an uncle, it has gone up to the grandparent.                  *)
LEMMA TurnedGood ==
  ASSUME NEW t, NEW S, NEW sub, Good(t, S, sub), NEW x, RedAbove(t, S, x)
  PROVE  LET r == Turned(t, x)
         IN /\ r.x \in S
            /\ \E new :
                 /\ Good(r.t, S, new)
                 /\ GoesOn(r) =>
                      /\ RedAbove(r.t, S, r.x)
                      /\ r.t.colour[Uncle(r.t, r.x)] = Red
                      /\ Uncle(t, x) # Null => new = sub /\ r.x = Grandparent(t, x)
<1> DEFINE a == Recoloured(t, x)
           uncle == Sibling(a.t, a.t.parent[a.x])
           b == Straightened(a.t, a.x, uncle)
           r == Turned(t, x)
           onLeft == IsLeft(t, t.parent[x])
<1>1. r = IF a.stop \/ AtTop(a.t, a.x) THEN [a EXCEPT !.stop = TRUE]
          ELSE IF AtTopAgain(b.t, b.x, onLeft)
            THEN [t |-> Paint(b.t, b.t.parent[b.x], Black), x |-> b.x, stop |-> TRUE]
          ELSE [t |-> Lifted(b.t, b.x, uncle), x |-> b.x, stop |-> FALSE]
  BY Zenon DEF Turned, Paint
<1>2. HalfTurned(a, t, S, sub, x)
  BY RecolouredGood
<1> HIDE DEF a, r
<1>3. PICK mid : /\ Good(a.t, S, mid)
                 /\ Uncle(t, x) # Null => mid = sub
  BY <1>2 DEF HalfTurned
<1>4. CASE a.stop \/ AtTop(a.t, a.x)
  <2>1. r = [t |-> a.t, x |-> a.x, stop |-> TRUE]
    BY <1>1, <1>2, <1>4 DEF HalfTurned
  <2>2. r.x = a.x /\ r.t = a.t /\ r.stop
    BY <2>1
  <2> QED
    BY <2>2, <1>2, <1>3 DEF HalfTurned, GoesOn, r
<1>5. CASE ~a.stop /\ ~AtTop(a.t, a.x)
  <2>1. /\ a.x \in S /\ a.t.parent[a.x] \in S /\ Grandparent(a.t, a.x) \in S
        /\ a.x # a.t.root
    <3>1. a.x \in S /\ a.t.parent[a.x] # Null /\ Grandparent(a.t, a.x) # Null
      BY <1>2, <1>5 DEF HalfTurned, AtTop
    <3>2. a.t.parent[a.x] \in S /\ a.x # a.t.root
      BY <3>1, <1>3, ParentIs
    <3>3. Grandparent(a.t, a.x) \in S
      BY <3>1, <3>2, <1>3, ParentIs DEF Grandparent
    <3> QED  BY <3>1, <3>2, <3>3
  <2>2. a.t.colour[a.t.root] = Black
    BY <2>1, <1>2, <1>5 DEF HalfTurned
  <2> DEFINE rotates == a.x = a.t.right[a.t.parent[a.x]] /\ a.t.colour[uncle] = Black
  <2>3. /\ b.x \in S /\ b.t.parent[b.x] \in S /\ Grandparent(b.t, b.x) \in S
        /\ b.t.colour = a.t.colour
        /\ \E new : Good(b.t, S, new)
        /\ ~rotates => b = [t |-> a.t, x |-> a.x]
        /\ rotates => b.x = b.t.left[b.t.parent[b.x]]
    <3> HIDE DEF uncle
    <3> QED  BY <2>1, <1>3, StraightenedGood
  <2>7. uncle = Uncle(a.t, a.x)
    BY DEF Uncle
  <2> HIDE DEF b, uncle
  <2>4. PICK new : Good(b.t, S, new)
    BY <2>3
  <2>5. CASE AtTopAgain(b.t, b.x, onLeft)
    <3>1. r.x = b.x /\ r.t = Paint(b.t, b.t.parent[b.x], Black) /\ r.stop = TRUE
      <4>1. r = [t |-> Paint(b.t, b.t.parent[b.x], Black), x |-> b.x, stop |-> TRUE]
        BY <1>1, <1>5, <2>5, Zenon
      <4> QED  BY <4>1
    <3>2. Good(r.t, S, new)
      <4>1. Good(Paint(b.t, b.t.parent[b.x], Black), S, new)
        BY <2>3, <2>4, PaintBlackIs
      <4> QED  BY <3>1, <4>1
    <3> QED
      BY <3>1, <3>2, <2>3 DEF GoesOn, r
  <2>6. CASE ~AtTopAgain(b.t, b.x, onLeft)
    <3>1. r.x = b.x /\ r.t = Lifted(b.t, b.x, uncle) /\ r.stop = FALSE
      BY <1>1, <1>5, <2>6
    <3> DEFINE lifts == b.t.colour[uncle] = Black /\ b.x = b.t.left[b.t.parent[b.x]]
    <3>2. /\ \E last : Good(r.t, S, last)
          /\ lifts => r.t.colour[r.t.parent[b.x]] = Black
          /\ ~lifts => r.t = b.t
      BY <3>1, <2>3, <2>4, LiftedGood
    <3>3. CASE lifts
      <4>1. ~GoesOn(r)
        BY <3>1, <3>2, <3>3 DEF GoesOn, Black, Red
      <4> QED
        BY <4>1, <3>1, <3>2, <2>3 DEF r
    <3>4. CASE ~lifts
      <4>1. ~rotates
        BY <3>4, <2>3
      <4>2. r.t = a.t /\ r.x = a.x
        BY <4>1, <3>1, <3>2, <3>4, <2>3
      <4>3. a.t.colour[uncle] # Black
        <5>1. a.x = a.t.left[a.t.parent[a.x]] \/ a.x = a.t.right[a.t.parent[a.x]]
          BY <2>1, <1>3, ParentIs
        <5> QED
          BY <5>1, <4>1, <4>2, <3>1, <3>2, <3>4
      <4>4. uncle \in Nodes
        <5>1. a.t.parent[a.x] # a.t.root
          <6>1. a.t.parent[a.x] \in Scores
            BY <2>1, <1>3 DEF Good
          <6> QED
            BY <6>1, <2>1, <1>3, ParentIs, NullAssumption DEF Grandparent, Good
        <5> QED
          BY <5>1, <2>1, <2>7, <1>3, ParentIs DEF Uncle, Good, Nodes
      <4>5. a.t.colour[uncle] = Red
        BY <4>3, <4>4, <1>3 DEF Good, Tree
      <4>6. GoesOn(r) => RedAbove(r.t, S, r.x)
        BY <4>2, <2>1, <2>2 DEF GoesOn, RedAbove
      <4>7. Uncle(t, x) # Null => mid = sub /\ r.x = Grandparent(t, x)
        BY <4>2, <1>2, <1>3, <1>5 DEF HalfTurned
      <4> QED
        BY <4>2, <4>5, <4>6, <4>7, <2>1, <2>7, <1>3 DEF r
    <3> QED  BY <3>3, <3>4
  <2> QED  BY <2>5, <2>6
<1> QED
  BY <1>4, <1>5

(* Where there is an uncle, the subtree of the grandparent has three nodes *)
(* more: the parent, the uncle and the grandparent.                        *)
LEMMA Climb ==
  ASSUME NEW t, NEW S, NEW sub, Good(t, S, sub), IsFiniteSet(S),
         NEW x, RedAbove(t, S, x), Uncle(t, x) # Null
  PROVE  /\ Grandparent(t, x) \in S
         /\ Cardinality(sub[x]) \in Nat
         /\ Cardinality(sub[Grandparent(t, x)]) \in Nat
         /\ Cardinality(sub[x]) + 3 =< Cardinality(sub[Grandparent(t, x)])
<1> DEFINE p == t.parent[x]
           g == t.parent[p]
           uncle == Sibling(t, p)
           more == ((sub[x] \cup {p}) \cup {uncle}) \cup {g}
<1>1. /\ x \in S /\ p \in S /\ p # t.root /\ x # t.root
      /\ g = Grandparent(t, x) /\ uncle = Uncle(t, x)
      /\ S \subseteq Int /\ Null \notin S
  <2>1. /\ x \in S /\ p \in S /\ p # t.root
        /\ S \subseteq Int /\ Null \notin S
    BY ScoresAssumption, NullAssumption DEF RedAbove, Black, Red, Good
  <2>2. x # t.root
    BY <2>1, ParentIs
  <2> QED
    BY <2>1, <2>2 DEF Uncle, Grandparent
<1>2. g \in S /\ uncle \in S /\ (p = t.left[g] \/ p = t.right[g])
  BY <1>1, ParentIs
<1>3. /\ x \in sub[x] /\ sub[x] \subseteq sub[p] /\ p \notin sub[x]
      /\ p \in sub[p] /\ sub[p] \subseteq sub[g] /\ g \notin sub[p]
  BY <1>1, ParentAbove
<1>4. /\ sub \in [S -> SUBSET S] /\ g \in sub[g] /\ uncle \in sub[uncle]
      /\ t.left[g] # Null => sub[t.left[g]] = {m \in sub[g] : m < g}
      /\ t.right[g] # Null => sub[t.right[g]] = {m \in sub[g] : m > g}
  BY <1>2 DEF Good, Shaped, Ordered
<1>5. uncle = IF p = t.left[g] THEN t.right[g] ELSE t.left[g]
  BY DEF Sibling, IsLeft
<1>6. uncle \in sub[g] /\ uncle \notin sub[p] /\ uncle # g
  <2> HIDE DEF p, g, uncle
  <2>1. CASE p = t.left[g]
    BY <2>1, <1>1, <1>2, <1>3, <1>4, <1>5
  <2>2. CASE p # t.left[g]
    BY <2>2, <1>1, <1>2, <1>3, <1>4, <1>5
  <2> QED  BY <2>1, <2>2
<1> HIDE DEF p, g, uncle
<1>7. sub[x] \in SUBSET S /\ sub[g] \in SUBSET S /\ more \in SUBSET sub[g]
  BY <1>1, <1>2, <1>3, <1>4, <1>6
<1>8. IsFiniteSet(sub[x]) /\ IsFiniteSet(sub[g])
  BY <1>7, FS_Subset
<1>9. /\ p \notin sub[x]
      /\ uncle \notin sub[x] \cup {p}
      /\ g \notin (sub[x] \cup {p}) \cup {uncle}
  BY <1>3, <1>6
<1>10. /\ IsFiniteSet(sub[x] \cup {p})
       /\ Cardinality(sub[x] \cup {p}) = Cardinality(sub[x]) + 1
  BY <1>8, <1>9, FS_AddElement
<1>11. /\ IsFiniteSet((sub[x] \cup {p}) \cup {uncle})
       /\ Cardinality((sub[x] \cup {p}) \cup {uncle})
            = Cardinality(sub[x] \cup {p}) + 1
  BY <1>9, <1>10, FS_AddElement
<1>12. Cardinality(more) = Cardinality((sub[x] \cup {p}) \cup {uncle}) + 1
  BY <1>9, <1>11, FS_AddElement
<1>13. Cardinality(more) =< Cardinality(sub[g])
  BY <1>7, <1>8, FS_Subset
<1>14. Cardinality(sub[x]) \in Nat /\ Cardinality(sub[g]) \in Nat
  BY <1>8, FS_CardinalityType
<1> QED
  BY <1>1, <1>2, <1>10, <1>11, <1>12, <1>13, <1>14

-----------------------------------------------------------------------------
(* Searches *)

(* Some node of a set has no child in it. *)
LEMMA LowestNode ==
  ASSUME NEW t, NEW S, NEW sub, Good(t, S, sub), IsFiniteSet(S),
         NEW B, B \subseteq S, B # {}
  PROVE  \E n \in B : t.left[n] \notin B /\ t.right[n] \notin B
<1> DEFINE T == {sub[n] : n \in B}
<1>1. /\ sub \in [S -> SUBSET S] /\ S \subseteq Int /\ Null \notin S
  BY ScoresAssumption, NullAssumption DEF Good, Shaped, Ordered
<1>2. IsWellFoundedOn(StrictSubsetOrdering(S), SUBSET S)
  BY FS_StrictSubsetOrderingWellFounded, FS_FiniteSubsetsOfFinite
<1>3. T \subseteq SUBSET S /\ T # {}
  BY <1>1
<1>4. PICK least \in T : \A y \in T : ~ (<<y, least>> \in StrictSubsetOrdering(S))
  <2> HIDE DEF T
  <2> QED  BY <1>2, <1>3, WFMin
<1>5. PICK n \in B : least = sub[n]
  BY <1>4
<1>6. ASSUME NEW c \in B, c = t.left[n] \/ c = t.right[n]
      PROVE  FALSE
  <2>1. c \in S /\ n \in S /\ c # Null
    BY <1>1
  <2>2. c # t.root /\ t.parent[c] = n
    BY <1>6, <2>1, NullAssumption DEF Good, Shaped, Links
  <2>3. sub[c] \subseteq sub[n] /\ sub[c] # sub[n]
    <3>1. /\ n \in sub[n] /\ sub[c] \subseteq sub[n] /\ n \notin sub[c]
      <4>1. n \in sub[n]
        BY <2>1 DEF Good, Shaped, Ordered
      <4> QED  BY <4>1, <2>1, <2>2, ParentAbove
    <3> QED  BY <3>1
  <2>4. <<sub[c], sub[n]>> \in StrictSubsetOrdering(S)
    BY <1>1, <2>1, <2>3 DEF StrictSubsetOrdering
  <2> QED
    BY <1>4, <1>5, <2>4
<1> QED
  BY <1>6

(* A node is not below any other node of its own subtree. *)
LEMMA NoneAbove ==
  ASSUME NEW t, NEW S, NEW sub, Good(t, S, sub), NEW n \in S, NEW m \in sub[n], m # n
  PROVE  n \notin sub[m]
<1>1. /\ sub \in [S -> SUBSET S] /\ S \subseteq Int /\ Null \notin S
      /\ n \in sub[n]
      /\ IF t.left[n] = Null THEN \A k \in sub[n] : k >= n
                             ELSE sub[t.left[n]] = {k \in sub[n] : k < n}
      /\ IF t.right[n] = Null THEN \A k \in sub[n] : k =< n
                              ELSE sub[t.right[n]] = {k \in sub[n] : k > n}
      /\ t.left[n] \in S \cup {Null} /\ t.right[n] \in S \cup {Null}
  BY ScoresAssumption, NullAssumption DEF Good, Shaped, Ordered, Links
<1>2. m \in Int /\ m \in S
  BY <1>1
<1>3. PICK c \in S : m \in sub[c] /\ n \notin sub[c]
  <2>1. CASE m < n
    <3>1. t.left[n] \in S /\ m \in sub[t.left[n]] /\ n \notin sub[t.left[n]]
      BY <2>1, <1>1, <1>2
    <3> QED  BY <3>1
  <2>2. CASE m > n
    <3>1. t.right[n] \in S /\ m \in sub[t.right[n]] /\ n \notin sub[t.right[n]]
      BY <2>2, <1>1, <1>2
    <3> QED  BY <3>1
  <2> QED  BY <2>1, <2>2, <1>1, <1>2
<1>4. sub[m] \subseteq sub[c]
  BY <1>3 DEF Good, Shaped, Nested
<1> QED
  BY <1>3, <1>4

(* The nodes of the subtree of n that a search for s may end at: they have *)
(* no child on the side of s, and s is on their side of all above them.    *)
Ends(n, s, sub) ==
  {p \in sub[n] :
     /\ Toward(p, s) = Null
     /\ \A a \in sub[n] : p \in sub[a] /\ a # p => (s < a <=> p < a)}

(* A search ends where it is, or where it would from the child on the side *)
(* of the score.                                                           *)
LEMMA EndsBelow ==
  ASSUME NEW sub, Good(tree, Inserted, sub),
         NEW s \in Scores, s \notin Inserted, NEW n \in Inserted
  PROVE  /\ Toward(n, s) \in Inserted \cup {Null}
         /\ Toward(n, s) = Null => Ends(n, s, sub) = {n}
         /\ Toward(n, s) # Null => Ends(n, s, sub) = Ends(Toward(n, s), s, sub)
<1> DEFINE S == Inserted
           c == Toward(n, s)
           l == tree.left[n]
           k == tree.right[n]
<1>1. /\ sub \in [S -> SUBSET S] /\ S \subseteq Int /\ Null \notin S
      /\ s \in Int /\ n \in Int /\ n # s
      /\ n \in sub[n]
      /\ IF l = Null THEN \A m \in sub[n] : m >= n
                     ELSE sub[l] = {m \in sub[n] : m < n}
      /\ IF k = Null THEN \A m \in sub[n] : m =< n
                     ELSE sub[k] = {m \in sub[n] : m > n}
      /\ l \in S \cup {Null} /\ k \in S \cup {Null}
      /\ c = IF n > s THEN l ELSE k
  BY ScoresAssumption, NullAssumption DEF Good, Shaped, Ordered, Links, Toward
<1>2. \A m \in S : \A j \in sub[m] : sub[j] \subseteq sub[m]
  BY DEF Good, Shaped, Nested
<1>3. \A m \in sub[n] : m # n => n \notin sub[m]
  BY NoneAbove
<1> HIDE DEF S, c, l, k
<1>4. ASSUME c = Null
      PROVE  Ends(n, s, sub) = {n}
  <2>1. n \in Ends(n, s, sub)
    BY <1>1, <1>3, <1>4 DEF Ends, c
  <2>2. ASSUME NEW p \in Ends(n, s, sub), p # n
        PROVE  FALSE
    <3>1. p \in sub[n] /\ p \in S /\ p \in sub[p] /\ (s < n <=> p < n)
      BY <2>2, <1>1 DEF Ends, Good, Shaped, Ordered, S
    <3>2. p \in Int
      BY <3>1, <1>1
    <3> QED  BY <2>2, <3>1, <3>2, <1>1, <1>4
  <2> QED  BY <2>1, <2>2
<1>5. ASSUME c # Null
      PROVE  Ends(n, s, sub) = Ends(c, s, sub)
  <2>1. /\ c \in S
        /\ sub[c] = {m \in sub[n] : s < n <=> m < n} \ {n}
    <3>1. \A m \in sub[n] : m \in Int
      BY <1>1
    <3>2. CASE n > s
      <4>1. c = l /\ c \in S /\ sub[c] = {m \in sub[n] : m < n}
        BY <3>2, <1>1, <1>5
      <4>2. s < n
        BY <3>2, <1>1
      <4> QED  BY <4>1, <4>2, <3>1, <1>1
    <3>3. CASE ~(n > s)
      <4>1. c = k /\ c \in S /\ sub[c] = {m \in sub[n] : m > n}
        BY <3>3, <1>1, <1>5
      <4>2. ~(s < n)
        BY <3>3, <1>1
      <4>3. \A m \in sub[n] : m > n <=> ~(m < n) /\ m # n
        BY <3>1, <1>1
      <4> QED  BY <4>1, <4>2, <4>3
    <3> QED  BY <3>2, <3>3
  <2>2. ASSUME NEW p \in Ends(c, s, sub)
        PROVE  p \in Ends(n, s, sub)
    <3>1. /\ p \in sub[c] /\ p \in sub[n] /\ Toward(p, s) = Null
          /\ (s < n <=> p < n)
      BY <2>1 DEF Ends
    <3>2. ASSUME NEW a \in sub[n], p \in sub[a], a # p
          PROVE  s < a <=> p < a
      <4>1. CASE a \in sub[c]
        BY <4>1, <3>2 DEF Ends
      <4>2. CASE a = n
        BY <4>2, <3>1
      <4>3. CASE a \notin sub[c] /\ a # n
        <5>1. PICK d \in {l, k} : d # Null /\ a \in sub[d]
                                  /\ sub[d] \cap sub[c] = {}
          <6>1. a \in Int
            BY <1>1, <3>2
          <6>2. CASE n > s
            <7>1. c = l /\ s < n /\ ~(a < n) /\ a > n
              BY <6>1, <6>2, <4>3, <2>1, <1>1
            <7>2. k # Null /\ a \in sub[k]
              BY <7>1, <6>1, <1>1
            <7>3. sub[k] \cap sub[c] = {}
              <8>1. \A m \in sub[n] : ~(m < n /\ m > n)
                BY <1>1
              <8>2. /\ sub[k] = {m \in sub[n] : m > n}
                    /\ sub[c] = {m \in sub[n] : m < n}
                BY <7>1, <7>2, <1>1, <1>5
              <8> QED  BY <8>1, <8>2
            <7> QED  BY <7>2, <7>3
          <6>3. CASE ~(n > s)
            <7>1. c = k /\ ~(s < n) /\ a < n
              BY <6>1, <6>3, <4>3, <2>1, <1>1
            <7>2. l # Null /\ a \in sub[l]
              BY <7>1, <6>1, <1>1
            <7>3. sub[l] \cap sub[c] = {}
              <8>1. \A m \in sub[n] : ~(m < n /\ m > n)
                BY <1>1
              <8>2. /\ sub[l] = {m \in sub[n] : m < n}
                    /\ sub[c] = {m \in sub[n] : m > n}
                BY <7>1, <7>2, <1>1, <1>5
              <8> QED  BY <8>1, <8>2
            <7> QED  BY <7>2, <7>3
          <6> QED  BY <6>2, <6>3
        <5>2. sub[a] \subseteq sub[d]
          BY <5>1, <1>1, <1>2
        <5> QED  BY <5>1, <5>2, <3>1, <3>2
      <4> QED  BY <4>1, <4>2, <4>3
    <3> QED  BY <3>1, <3>2 DEF Ends
  <2>3. ASSUME NEW p \in Ends(n, s, sub)
        PROVE  p \in Ends(c, s, sub)
    <3>1. /\ p \in sub[n] /\ Toward(p, s) = Null
          /\ \A a \in sub[n] : p \in sub[a] /\ a # p => (s < a <=> p < a)
      BY DEF Ends
    <3>2. p # n
      BY <3>1, <1>5 DEF c
    <3>3. p \in sub[c]
      BY <3>1, <3>2, <1>1, <2>1
    <3>4. sub[c] \subseteq sub[n]
      BY <2>1
    <3> QED  BY <3>1, <3>3, <3>4 DEF Ends
  <2> QED  BY <2>2, <2>3
<1> QED
  BY <1>1, <1>4, <1>5 DEF c, S

(* The search of insert_tree ends at a node that has room on the side of   *)
(* the score, and that is on its side of all the nodes above.              *)
LEMMA PlaceFound ==
  ASSUME NEW sub, Good(tree, Inserted, sub), IsFiniteSet(Inserted),
         NEW s \in Scores, s \notin Inserted
  PROVE  Place(s) \in Ends(tree.root, s, sub)
<1> DEFINE S == Inserted
           below[n \in S] ==
             IF Toward(n, s) = Null THEN n ELSE below[Toward(n, s)]
           end == [n \in S |-> CHOOSE p : p \in Ends(n, s, sub)]
<1>1. Place(s) = below[tree.root]
  BY DEF Place
<1>2. \E f : f = [n \in S |-> IF Toward(n, s) = Null THEN n ELSE f[Toward(n, s)]]
  <2>1. ASSUME NEW n \in S
        PROVE  end[n] = IF Toward(n, s) = Null THEN n ELSE end[Toward(n, s)]
    <3>1. CASE Toward(n, s) = Null
      <4>1. Ends(n, s, sub) = {n}
        BY <3>1, EndsBelow
      <4> QED  BY <4>1, <3>1
    <3>2. CASE Toward(n, s) # Null
      <4>1. Ends(n, s, sub) = Ends(Toward(n, s), s, sub) /\ Toward(n, s) \in S
        BY <3>2, EndsBelow
      <4> QED  BY <4>1, <3>2
    <3> QED  BY <3>1, <3>2
  <2>2. end = [n \in S |-> IF Toward(n, s) = Null THEN n ELSE end[Toward(n, s)]]
    <3>1. end = [n \in S |-> end[n]]
      OBVIOUS
    <3> HIDE DEF end, S
    <3> QED  BY <2>1, <3>1
  <2> HIDE DEF end
  <2> QED  BY <2>2
<1>3. below = [n \in S |-> IF Toward(n, s) = Null THEN n ELSE below[Toward(n, s)]]
  BY <1>2, Zenon DEF below
<1> HIDE DEF below
<1> DEFINE B == {n \in S : below[n] \notin Ends(n, s, sub)}
<1>4. B = {}
  <2>1. SUFFICES ASSUME B # {} PROVE FALSE
    OBVIOUS
  <2>2. PICK n \in B : tree.left[n] \notin B /\ tree.right[n] \notin B
    <3> HIDE DEF S
    <3>1. B \subseteq S
      OBVIOUS
    <3> HIDE DEF B
    <3> QED  BY <2>1, <3>1, LowestNode DEF S
  <2>3. n \in S /\ below[n] = IF Toward(n, s) = Null THEN n ELSE below[Toward(n, s)]
    <3> HIDE DEF S
    <3> QED  BY <1>3
  <2>4. CASE Toward(n, s) = Null
    BY <2>3, <2>4, EndsBelow
  <2>5. CASE Toward(n, s) # Null
    <3>1. Toward(n, s) \in S /\ Toward(n, s) \notin B
      BY <2>2, <2>3, <2>5, EndsBelow DEF Toward
    <3>2. below[Toward(n, s)] \in Ends(Toward(n, s), s, sub)
      BY <3>1
    <3> QED  BY <3>2, <2>3, <2>5, EndsBelow
  <2> QED  BY <2>4, <2>5
<1>5. tree.root \in S
  BY DEF Good, Shaped, Links
<1> QED
  BY <1>1, <1>4, <1>5

(* p has no child on the side of s, and s is on the side of p of all the   *)
(* nodes above p.                                                          *)
Room(t, S, sub, s, p) ==
  /\ s < p => t.left[p] = Null
  /\ ~(s < p) => t.right[p] = Null
  /\ \A a \in S : p \in sub[a] /\ a # p => (s < a <=> p < a)

(* u is t with s hung on p as a leaf. *)
Hung(u, t, s, p) ==
  /\ u \in Tree
  /\ u.root = t.root /\ u.colour = t.colour
  /\ u.parent = [t.parent EXCEPT ![s] = p]
  /\ \A n \in Nodes :
       /\ u.left[n] = IF n = s THEN Null
                      ELSE IF n = p /\ s < p THEN s ELSE t.left[n]
       /\ u.right[n] = IF n = s THEN Null
                       ELSE IF n = p /\ ~(s < p) THEN s ELSE t.right[n]

(* A tree with one leaf more, where the search for it ends, is a search    *)
(* tree.                                                                   *)
LEMMA HungGood ==
  ASSUME NEW t, NEW S, NEW sub, Good(t, S, sub),
         NEW s \in Scores, s \notin S, NEW p \in S, Room(t, S, sub, s, p),
         NEW u, Hung(u, t, s, p)
  PROVE  \E new : Good(u, S \cup {s}, new) /\ new[s] = {s}
<1> USE DEF Room
<1> DEFINE W == S \cup {s}
           new == [n \in W |-> IF n = s THEN {s}
                               ELSE IF p \in sub[n] THEN sub[n] \cup {s}
                               ELSE sub[n]]
<1>1. /\ S \subseteq Int /\ Null \notin W /\ W \in SUBSET Scores /\ s \in Int /\ p # s
      /\ W \subseteq Nodes /\ Null \in Nodes /\ p \in Int
      /\ t \in Tree /\ u \in Tree
  BY ScoresAssumption, NullAssumption DEF Good, Hung, Nodes
<1>2. /\ u.root = t.root /\ u.colour = t.colour
      /\ u.parent[s] = p
      /\ \A n \in Nodes : n # s => u.parent[n] = t.parent[n]
      /\ u.left[s] = Null /\ u.right[s] = Null
      /\ \A n \in Nodes : n # s /\ n # p => u.left[n] = t.left[n] /\ u.right[n] = t.right[n]
      /\ u.left[p] = (IF s < p THEN s ELSE t.left[p])
      /\ u.right[p] = (IF s < p THEN t.right[p] ELSE s)
  BY <1>1 DEF Hung, Tree
<1>3. /\ t.root \in S /\ t.parent[t.root] = Null
      /\ \A n \in S :
           /\ t.left[n] \in S \cup {Null} /\ t.right[n] \in S \cup {Null}
           /\ t.left[n] # Null => t.parent[t.left[n]] = n
           /\ t.right[n] # Null => t.parent[t.right[n]] = n
           /\ n # t.root =>
                /\ t.parent[n] \in S
                /\ n = t.left[t.parent[n]] \/ n = t.right[t.parent[n]]
  BY DEF Good, Shaped, Links
<1>4. /\ sub \in [S -> SUBSET S]
      /\ sub[t.root] = S
      /\ \A n \in S :
           /\ n \in sub[n]
           /\ IF t.left[n] = Null THEN \A m \in sub[n] : m >= n
                                  ELSE sub[t.left[n]] = {m \in sub[n] : m < n}
           /\ IF t.right[n] = Null THEN \A m \in sub[n] : m =< n
                                   ELSE sub[t.right[n]] = {m \in sub[n] : m > n}
  BY DEF Good, Shaped, Ordered
<1>5. \A n \in S : \A m \in sub[n] :
        sub[m] \subseteq sub[n] /\ (m # n => t.parent[m] \in sub[n])
  BY DEF Good, Shaped, Nested
<1>6. /\ new \in [W -> SUBSET W] /\ new[s] = {s}
      /\ \A n \in S : new[n] = IF p \in sub[n] THEN sub[n] \cup {s} ELSE sub[n]
  BY <1>1, <1>4
<1> HIDE DEF new
<1>7. Links(u, W)
  <2>1. u.root \in W /\ u.parent[u.root] = Null
    BY <1>1, <1>2, <1>3
  <2>2. ASSUME NEW n \in S
        PROVE  /\ u.left[n] \in W \cup {Null} /\ u.right[n] \in W \cup {Null}
               /\ u.left[n] # Null => u.parent[u.left[n]] = n
               /\ u.right[n] # Null => u.parent[u.right[n]] = n
    <3>1. n # s /\ n # Null /\ n \in Nodes
      BY <1>1
    <3>2. \A c \in S : u.parent[c] = t.parent[c]
      BY <1>1, <1>2
    <3>3. /\ u.left[n] = t.left[n] \/ (n = p /\ u.left[n] = s)
          /\ u.right[n] = t.right[n] \/ (n = p /\ u.right[n] = s)
      BY <3>1, <1>2
    <3> QED  BY <3>1, <3>2, <3>3, <1>2, <1>3
  <2>3. ASSUME NEW n \in S, n # u.root
        PROVE  /\ u.parent[n] \in W
               /\ n = u.left[u.parent[n]] \/ n = u.right[u.parent[n]]
    <3>1. n # s /\ n # Null /\ n \in Nodes /\ u.parent[n] = t.parent[n]
      BY <1>1, <1>2
    <3>2. t.parent[n] \in S /\ (n = t.left[t.parent[n]] \/ n = t.right[t.parent[n]])
      BY <2>3, <1>2, <1>3
    <3>3. t.parent[n] \in Nodes /\ t.parent[n] # s
      BY <3>2, <1>1
    <3> QED  BY <3>1, <3>2, <3>3, <1>2
  <2>4. s # u.root /\ u.parent[s] \in W /\ (s = u.left[p] \/ s = u.right[p])
    BY <1>1, <1>2, <1>3
  <2> QED  BY <2>1, <2>2, <2>3, <2>4, <1>2 DEF Links
<1>8. Ordered(u, W, new)
  <2>1. new[u.root] = W
    BY <1>2, <1>3, <1>4, <1>6
  <2>2. ASSUME NEW n \in S
        PROVE  /\ n \in new[n]
               /\ IF u.left[n] = Null THEN \A m \in new[n] : m >= n
                                      ELSE new[u.left[n]] = {m \in new[n] : m < n}
               /\ IF u.right[n] = Null THEN \A m \in new[n] : m =< n
                                       ELSE new[u.right[n]] = {m \in new[n] : m > n}
    <3>1. n \in new[n] /\ n \in Int /\ n # s /\ n \in Nodes /\ sub[n] \subseteq Int
      <4>1. n \in sub[n] /\ sub[n] \in SUBSET S
        BY <1>4
      <4> QED  BY <4>1, <1>1, <1>6
    <3>2. CASE n = p
      <4>1. new[n] = sub[n] \cup {s}
        BY <3>2, <1>4, <1>6
      <4>2. \A c \in S : c # n /\ (c = t.left[n] \/ c = t.right[n]) => new[c] = sub[c]
        BY <3>1, <3>2, <1>1, <1>4, <1>6
      <4>3. CASE s < p
        <5>1. u.left[n] = s /\ s # Null /\ u.right[n] = t.right[n] /\ t.left[n] = Null
          BY <3>2, <4>3, <1>1, <1>2
        <5>2. new[s] = {m \in new[n] : m < n}
          BY <5>1, <4>1, <4>3, <3>1, <3>2, <1>1, <1>4, <1>6
        <5>3. CASE t.right[n] = Null
          BY <5>1, <5>2, <5>3, <4>1, <4>3, <3>1, <3>2, <1>1, <1>4
        <5>4. CASE t.right[n] # Null
          <6>1. t.right[n] \in S /\ sub[t.right[n]] = {m \in sub[n] : m > n}
            BY <5>4, <1>3, <1>4
          <6>2. t.right[n] # n
            BY <6>1, <3>1, <1>4
          <6>3. new[t.right[n]] = {m \in new[n] : m > n}
            <7>1. new[t.right[n]] = sub[t.right[n]]
              BY <6>1, <6>2, <4>2
            <7>2. ~(s > n)
              BY <4>3, <3>2, <1>1
            <7> QED  BY <7>1, <7>2, <6>1, <4>1
          <6> QED  BY <6>3, <5>1, <5>2, <5>4, <3>1
        <5> QED  BY <5>3, <5>4
      <4>4. CASE ~(s < p)
        <5>1. u.right[n] = s /\ s # Null /\ u.left[n] = t.left[n] /\ t.right[n] = Null
              /\ s > n
          BY <3>2, <4>4, <1>1, <1>2
        <5>2. new[s] = {m \in new[n] : m > n}
          BY <5>1, <4>1, <4>4, <3>1, <3>2, <1>1, <1>4, <1>6
        <5>3. CASE t.left[n] = Null
          BY <5>1, <5>2, <5>3, <4>1, <4>4, <3>1, <3>2, <1>1, <1>4
        <5>4. CASE t.left[n] # Null
          <6>1. t.left[n] \in S /\ sub[t.left[n]] = {m \in sub[n] : m < n}
            BY <5>4, <1>3, <1>4
          <6>2. t.left[n] # n
            BY <6>1, <3>1, <1>4
          <6>3. new[t.left[n]] = {m \in new[n] : m < n}
            BY <5>1, <6>1, <6>2, <4>1, <4>2, <4>4, <3>1, <3>2, <1>1
          <6> QED  BY <6>3, <5>1, <5>2, <5>4, <3>1
        <5> QED  BY <5>3, <5>4
      <4> QED  BY <4>3, <4>4
    <3>3. CASE n # p /\ p \in sub[n]
      <4>1. new[n] = sub[n] \cup {s} /\ (s < n <=> p < n) /\ s # n
            /\ u.left[n] = t.left[n] /\ u.right[n] = t.right[n]
        BY <3>1, <3>3, <1>1, <1>2, <1>6
      <4>2. IF u.left[n] = Null THEN \A m \in new[n] : m >= n
                                ELSE new[u.left[n]] = {m \in new[n] : m < n}
        <5>1. CASE t.left[n] = Null
          BY <5>1, <4>1, <3>1, <3>3, <1>1, <1>4
        <5>2. CASE t.left[n] # Null
          <6>1. t.left[n] \in S /\ sub[t.left[n]] = {m \in sub[n] : m < n}
            BY <5>2, <1>3, <1>4
          <6>2. new[t.left[n]] = IF s < n THEN sub[t.left[n]] \cup {s} ELSE sub[t.left[n]]
            BY <6>1, <4>1, <3>3, <1>6
          <6>3. {m \in new[n] : m < n}
                  = IF s < n THEN {m \in sub[n] : m < n} \cup {s} ELSE {m \in sub[n] : m < n}
            BY <4>1
          <6> QED  BY <6>1, <6>2, <6>3, <5>2, <4>1
        <5> QED  BY <5>1, <5>2
      <4>3. IF u.right[n] = Null THEN \A m \in new[n] : m =< n
                                 ELSE new[u.right[n]] = {m \in new[n] : m > n}
        <5>0. s > n <=> p > n
          BY <4>1, <3>1, <3>3, <1>1
        <5>1. CASE t.right[n] = Null
          BY <5>0, <5>1, <4>1, <3>1, <3>3, <1>1, <1>4
        <5>2. CASE t.right[n] # Null
          <6>1. t.right[n] \in S /\ sub[t.right[n]] = {m \in sub[n] : m > n}
            BY <5>2, <1>3, <1>4
          <6>2. new[t.right[n]] = IF s > n THEN sub[t.right[n]] \cup {s} ELSE sub[t.right[n]]
            BY <5>0, <6>1, <4>1, <3>3, <1>6
          <6>3. {m \in new[n] : m > n}
                  = IF s > n THEN {m \in sub[n] : m > n} \cup {s} ELSE {m \in sub[n] : m > n}
            BY <4>1
          <6> QED  BY <6>1, <6>2, <6>3, <5>2, <4>1
        <5> QED  BY <5>1, <5>2
      <4> QED  BY <4>2, <4>3, <3>1
    <3>4. CASE n # p /\ p \notin sub[n]
      <4>1. new[n] = sub[n] /\ u.left[n] = t.left[n] /\ u.right[n] = t.right[n]
        BY <3>1, <3>4, <1>2, <1>6
      <4>2. \A c \in S : sub[c] \subseteq sub[n] => new[c] = sub[c]
        BY <3>4, <1>6
      <4>3. /\ t.left[n] # Null => new[t.left[n]] = sub[t.left[n]]
            /\ t.right[n] # Null => new[t.right[n]] = sub[t.right[n]]
        BY <4>2, <1>3, <1>4
      <4> QED  BY <4>1, <4>3, <3>1, <1>4
    <3> QED  BY <3>2, <3>3, <3>4
  <2>3. /\ s \in new[s] /\ u.left[s] = Null /\ u.right[s] = Null
        /\ \A m \in new[s] : m >= s /\ m =< s
    BY <1>1, <1>2, <1>6
  <2> QED  BY <2>1, <2>2, <2>3, <1>6 DEF Ordered
<1>9. Nested(u, W, new)
  <2>1. ASSUME NEW n \in S, NEW m \in S, m \in sub[n]
        PROVE  new[m] \subseteq new[n] /\ (m # n => u.parent[m] \in new[n])
    <3>1. sub[m] \subseteq sub[n] /\ (m # n => t.parent[m] \in sub[n])
      BY <2>1, <1>5
    <3>2. u.parent[m] = t.parent[m]
      BY <1>1, <1>2
    <3> QED  BY <3>1, <3>2, <1>6
  <2>2. ASSUME NEW n \in S, s \in new[n]
        PROVE  new[s] \subseteq new[n] /\ u.parent[s] \in new[n]
    <3>1. p \in sub[n]
      BY <2>2, <1>4, <1>6
    <3> QED  BY <3>1, <2>2, <1>2, <1>6
  <2>3. ASSUME NEW n \in S, NEW m \in new[n]
        PROVE  new[m] \subseteq new[n] /\ (m # n => u.parent[m] \in new[n])
    <3>1. m = s \/ (m \in S /\ m \in sub[n])
      BY <1>4, <1>6
    <3> QED  BY <3>1, <2>1, <2>2
  <2> QED  BY <2>3, <1>6 DEF Nested
<1>10. Sentinel(u)
  <2>1. Null # s /\ Null # p
    BY <1>1
  <2> QED  BY <2>1, <1>1, <1>2 DEF Good, Sentinel
<1> QED
  BY <1>1, <1>6, <1>7, <1>8, <1>9, <1>10 DEF Good, Shaped

(* insert_tree hangs the node of a new score where its search ends.        *)
LEMMA LinkedGood ==
  ASSUME NEW sub, Good(tree, Inserted, sub), IsFiniteSet(Inserted),
         NEW s \in Scores, s \notin Inserted
  PROVE  /\ Linked(s).root = tree.root /\ Linked(s).colour = tree.colour
         /\ Linked(s).parent[s] \in Inserted
         /\ \E new : Good(Linked(s), Inserted \cup {s}, new) /\ new[s] = {s}
<1> DEFINE S == Inserted
           p == Place(s)
           u == Linked(s)
<1>1. p \in Ends(tree.root, s, sub)
  BY PlaceFound
<1>2. sub[tree.root] = S /\ tree \in Tree /\ S \in SUBSET Scores
  BY DEF Good, Shaped, Ordered
<1>3. /\ p \in S /\ Toward(p, s) = Null
      /\ \A a \in S : p \in sub[a] /\ a # p => (s < a <=> p < a)
  BY <1>1, <1>2 DEF Ends
<1>4. p > s <=> s < p
  BY <1>2, <1>3, ScoresAssumption
<1>5. /\ s < p => tree.left[p] = Null
      /\ ~(s < p) => tree.right[p] = Null
  BY <1>3, <1>4 DEF Toward
<1>6. /\ s \in Nodes /\ p \in Nodes /\ Null \in Nodes /\ Nodes \subseteq Nodes \cup {Nil}
      /\ p # s
  BY <1>2, <1>3 DEF Nodes
<1>7. /\ u \in Tree /\ u.root = tree.root /\ u.colour = tree.colour
      /\ u.left = [[tree.left EXCEPT ![p] = IF s < p THEN s ELSE tree.left[p]]
                     EXCEPT ![s] = Null]
      /\ u.right = [[tree.right EXCEPT ![p] = IF s < p THEN tree.right[p] ELSE s]
                      EXCEPT ![s] = Null]
      /\ u.parent = [tree.parent EXCEPT ![s] = p]
  <2> DEFINE l == IF s < p THEN s ELSE tree.left[p]
             k == IF s < p THEN tree.right[p] ELSE s
             u1 == [tree EXCEPT !.left[p] = l]
             u2 == [u1 EXCEPT !.left[s] = Null]
             u3 == [u2 EXCEPT !.right[p] = k]
             u4 == [u3 EXCEPT !.right[s] = Null]
  <2>1. u = [u4 EXCEPT !.parent[s] = p]
    <3>1. u2.right[p] = tree.right[p]
      BY <1>2 DEF Tree
    <3> QED  BY <3>1, Zenon DEF Linked
  <2> HIDE DEF u, p
  <2>2. l \in Nodes \cup {Nil} /\ k \in Nodes \cup {Nil}
    BY <1>2, <1>6 DEF Tree
  <2>3. /\ u1 \in Tree /\ u1.root = tree.root /\ u1.right = tree.right
        /\ u1.parent = tree.parent /\ u1.colour = tree.colour
        /\ u1.left = [tree.left EXCEPT ![p] = l]
    <3> HIDE DEF l
    <3> QED  BY <1>2, <1>6, <2>2, SetLeft
  <2> HIDE DEF u1
  <2>4. /\ u2 \in Tree /\ u2.root = u1.root /\ u2.right = u1.right
        /\ u2.parent = u1.parent /\ u2.colour = u1.colour
        /\ u2.left = [u1.left EXCEPT ![s] = Null]
    BY <1>6, <2>3, SetLeft
  <2> HIDE DEF u2
  <2>5. /\ u3 \in Tree /\ u3.root = u2.root /\ u3.left = u2.left
        /\ u3.parent = u2.parent /\ u3.colour = u2.colour
        /\ u3.right = [u2.right EXCEPT ![p] = k]
    <3> HIDE DEF k
    <3> QED  BY <1>6, <2>2, <2>4, SetRight
  <2> HIDE DEF u3
  <2>6. /\ u4 \in Tree /\ u4.root = u3.root /\ u4.left = u3.left
        /\ u4.parent = u3.parent /\ u4.colour = u3.colour
        /\ u4.right = [u3.right EXCEPT ![s] = Null]
    BY <1>6, <2>5, SetRight
  <2> HIDE DEF u4
  <2>7. /\ u \in Tree /\ u.root = u4.root /\ u.left = u4.left
        /\ u.right = u4.right /\ u.colour = u4.colour
        /\ u.parent = [u4.parent EXCEPT ![s] = p]
    BY <1>6, <2>1, <2>6, SetParent
  <2> HIDE DEF l, k
  <2>8. u.left = [[tree.left EXCEPT ![p] = l] EXCEPT ![s] = Null]
    BY <2>3, <2>4, <2>5, <2>6, <2>7
  <2>9. u.right = [[tree.right EXCEPT ![p] = k] EXCEPT ![s] = Null]
    BY <2>3, <2>4, <2>5, <2>6, <2>7
  <2> QED  BY <2>3, <2>4, <2>5, <2>6, <2>7, <2>8, <2>9 DEF l, k
<1> HIDE DEF p, u, S
<1>8. /\ tree.left \in [Nodes -> Nodes \cup {Nil}]
      /\ tree.right \in [Nodes -> Nodes \cup {Nil}]
      /\ tree.parent \in [Nodes -> Nodes \cup {Nil}]
  BY <1>2 DEF Tree
<1>9. \A n \in Nodes :
         /\ u.left[n] = IF n = s THEN Null
                        ELSE IF n = p /\ s < p THEN s ELSE tree.left[n]
         /\ u.right[n] = IF n = s THEN Null
                         ELSE IF n = p /\ ~(s < p) THEN s ELSE tree.right[n]
  BY <1>6, <1>7, <1>8
<1>10. Hung(u, tree, s, p)
  <2>1. /\ u \in Tree /\ u.root = tree.root /\ u.colour = tree.colour
        /\ u.parent = [tree.parent EXCEPT ![s] = p]
    BY <1>7
  <2> QED  BY <1>9, <2>1 DEF Hung
<1>11. \E new : Good(u, S \cup {s}, new) /\ new[s] = {s}
  <2>1. Good(tree, S, sub) /\ s \notin S
    BY DEF S
  <2>2. p \in S /\ Room(tree, S, sub, s, p)
    BY <1>3, <1>5 DEF Room
  <2> QED  BY <1>10, <2>1, <2>2, HungGood
<1>12. u.parent[s] = p
  BY <1>6, <1>7, <1>8
<1> QED
  BY <1>3, <1>7, <1>11, <1>12 DEF u, S

(* getByScore finds the scores of the interval, each time it is called.    *)
LEMMA ByScoreIs ==
  ASSUME NEW sub, Good(tree, Inserted, sub), IsFiniteSet(Inserted),
         NEW from \in Scores, NEW to \in Scores
  PROVE  ByScore(from, to) = {s \in Inserted : from =< s /\ s =< to}
<1> DEFINE S == Inserted
           found[n \in S \cup {Null}] ==
             IF n = Null THEN {}
             ELSE found[tree.left[n]]
                  \cup ({n} \cap (from .. to))
                  \cup (IF n > to THEN {} ELSE found[tree.right[n]])
           within(n) == {m \in sub[n] : from =< m /\ m =< to}
           all == [n \in S \cup {Null} |-> IF n = Null THEN {} ELSE within(n)]
           Found(f, n) == IF n = Null THEN {}
                          ELSE f[tree.left[n]]
                               \cup ({n} \cap (from .. to))
                               \cup (IF n > to THEN {} ELSE f[tree.right[n]])
<1>1. /\ sub \in [S -> SUBSET S] /\ S \subseteq Int /\ Null \notin S
      /\ from \in Int /\ to \in Int /\ tree.root \in S /\ sub[tree.root] = S
      /\ \A n \in S :
           /\ n \in sub[n]
           /\ tree.left[n] \in S \cup {Null} /\ tree.right[n] \in S \cup {Null}
           /\ IF tree.left[n] = Null THEN \A m \in sub[n] : m >= n
                                  ELSE sub[tree.left[n]] = {m \in sub[n] : m < n}
           /\ IF tree.right[n] = Null THEN \A m \in sub[n] : m =< n
                                   ELSE sub[tree.right[n]] = {m \in sub[n] : m > n}
  <2>1. S \in SUBSET Scores /\ Links(tree, S) /\ Ordered(tree, S, sub)
    BY DEF Good, Shaped
  <2> HIDE DEF S
  <2>2. S \subseteq Int /\ Null \notin S /\ from \in Int /\ to \in Int
    BY <2>1, ScoresAssumption, NullAssumption
  <2> QED  BY <2>1, <2>2 DEF Ordered, Links
<1>2. ByScore(from, to) = found[tree.root]
  <2>1. tree.root # Nil
    <3>1. tree.root \in Scores
      BY <1>1 DEF Good
    <3> QED  BY <3>1, NullAssumption
  <2> QED  BY <2>1, Zenon DEF ByScore
<1>3. \A n \in S : within(n) = all[tree.left[n]]
                               \cup ({n} \cap (from .. to))
                               \cup (IF n > to THEN {} ELSE all[tree.right[n]])
  <2> SUFFICES ASSUME NEW n \in S
               PROVE within(n) = all[tree.left[n]]
                               \cup ({n} \cap (from .. to))
                               \cup (IF n > to THEN {} ELSE all[tree.right[n]])
    OBVIOUS
  <2> HIDE DEF S
  <2>1. /\ n \in Int /\ sub[n] \subseteq Int /\ n \in sub[n]
    BY <1>1
  <2>2. all[tree.left[n]] = {m \in sub[n] : m < n /\ from =< m /\ m =< to}
    <3>1. CASE tree.left[n] = Null
      <4>1. \A m \in sub[n] : ~(m < n)
        BY <3>1, <1>1, <2>1
      <4> QED  BY <3>1, <4>1
    <3>2. CASE tree.left[n] # Null
      <4>1. tree.left[n] \in S /\ sub[tree.left[n]] = {m \in sub[n] : m < n}
        BY <3>2, <1>1
      <4> QED  BY <3>2, <4>1
    <3> QED  BY <3>1, <3>2
  <2>3. all[tree.right[n]] = {m \in sub[n] : m > n /\ from =< m /\ m =< to}
    <3>1. CASE tree.right[n] = Null
      <4>1. \A m \in sub[n] : ~(m > n)
        BY <3>1, <1>1, <2>1
      <4> QED  BY <3>1, <4>1
    <3>2. CASE tree.right[n] # Null
      <4>1. tree.right[n] \in S /\ sub[tree.right[n]] = {m \in sub[n] : m > n}
        BY <3>2, <1>1
      <4> QED  BY <3>2, <4>1
    <3> QED  BY <3>1, <3>2
  <2> HIDE DEF all
  <2>4. {n} \cap (from .. to) = {m \in {n} : from =< m /\ m =< to}
    BY <1>1, <2>1
  <2>5. n > to => {m \in sub[n] : m > n /\ from =< m /\ m =< to} = {}
    BY <1>1, <2>1
  <2>6. within(n) = {m \in sub[n] : m < n /\ from =< m /\ m =< to}
                    \cup {m \in {n} : from =< m /\ m =< to}
                    \cup {m \in sub[n] : m > n /\ from =< m /\ m =< to}
    BY <2>1
  <2> HIDE DEF within
  <2> QED  BY <2>2, <2>3, <2>4, <2>5, <2>6
<1>4. \E f : f = [n \in S \cup {Null} |-> Found(f, n)]
  <2>1. \A n \in S \cup {Null} : all[n] = Found(all, n)
    BY <1>1, <1>3
  <2>2. all = [n \in S \cup {Null} |-> all[n]]
    OBVIOUS
  <2> HIDE DEF all, S, Found
  <2>3. all = [n \in S \cup {Null} |-> Found(all, n)]
    BY <2>1, <2>2
  <2> QED  BY <2>3
<1>5. found = [n \in S \cup {Null} |-> Found(found, n)]
  BY <1>4, Zenon DEF found
<1> HIDE DEF found
<1> DEFINE B == {n \in S : found[n] # within(n)}
<1>6. found[Null] = {}
  <2> HIDE DEF S
  <2>1. found[Null] = Found(found, Null)
    <3> HIDE DEF Found
    <3> QED  BY <1>5
  <2> QED  BY <2>1
<1>7. B = {}
  <2>1. SUFFICES ASSUME B # {} PROVE FALSE
    OBVIOUS
  <2>2. PICK n \in B : tree.left[n] \notin B /\ tree.right[n] \notin B
    <3>1. B \subseteq S
      OBVIOUS
    <3> HIDE DEF B, S
    <3> QED  BY <2>1, <3>1, LowestNode DEF S
  <2>3. n \in S /\ n # Null /\ found[n] = Found(found, n) /\ found[n] # within(n)
    <3> HIDE DEF S, within, Found
    <3>1. n \in S /\ found[n] # within(n)
      BY <2>2
    <3> QED  BY <3>1, <1>1, <1>5
  <2>4. \A c \in {tree.left[n], tree.right[n]} : found[c] = all[c]
    <3> SUFFICES ASSUME NEW c \in {tree.left[n], tree.right[n]}
                 PROVE  found[c] = all[c]
      OBVIOUS
    <3>1. c \in S \cup {Null} /\ c \notin B
      BY <2>2, <2>3, <1>1
    <3>2. CASE c = Null
      BY <3>2, <1>6
    <3>3. CASE c # Null
      <4>1. c \in S /\ found[c] = within(c)
        BY <3>1, <3>3
      <4> HIDE DEF S, within
      <4> QED  BY <4>1, <3>3
    <3> QED  BY <3>2, <3>3
  <2> HIDE DEF all, within, S
  <2> QED  BY <1>3, <2>3, <2>4
<1>8. found[tree.root] = within(tree.root)
  BY <1>1, <1>7
<1> QED
  BY <1>1, <1>2, <1>8

-----------------------------------------------------------------------------
(* The inductive invariant *)

(* A node under repair hangs on a red one that is not the root.  After the *)
(* first turn its uncle is red, so that the next turn goes up; and its     *)
(* subtree has three nodes for every turn but the first.                   *)
Repairing(sub) ==
  cur # Nil =>
    /\ RedAbove(tree, added, cur)
    /\ turns > 0 => tree.colour[Uncle(tree, cur)] = Red
    /\ 3 * turns =< Cardinality(sub[cur]) + 2

IInv ==
  /\ tree \in Tree /\ Sentinel(tree)
  /\ values \in [Scores -> SUBSET Values]
  /\ cur \in Scores \cup {Nil}
  /\ turns \in Nat
  /\ added \in SUBSET Scores /\ IsFiniteSet(added) /\ added = Inserted
  /\ 3 * turns =< Cardinality(added) + 2
  /\ IF added = {} THEN tree.root = Nil /\ cur = Nil
     ELSE /\ tree.colour[tree.root] = Black
          /\ \E sub : Good(tree, added, sub) /\ Repairing(sub)

(* An empty set has no tree. *)
LEMMA IInvInit == Init => IInv
<1> SUFFICES ASSUME Init PROVE IInv
  OBVIOUS
<1> USE DEF Init
<1>1. tree \in Tree /\ Sentinel(tree) /\ tree.root = Nil
  BY NullAssumption DEF Tree, Sentinel, Nodes, Black, Red
<1>2. added = Inserted /\ IsFiniteSet(added) /\ Cardinality(added) = 0
  BY FS_EmptySet DEF Inserted
<1> QED
  BY <1>1, <1>2 DEF IInv

(* However the repair resumes, the root is black; and the repair goes on   *)
(* or is over.                                                             *)
LEMMA Resumed ==
  ASSUME NEW r, NEW S, NEW new, Good(r.t, S, new), r.x \in S,
         GoesOn(r) => RedAbove(r.t, S, r.x),
         Resume(r)
  PROVE  /\ Good(tree', S, new)
         /\ tree'.colour[tree'.root] = Black
         /\ cur' = Nil \/ (GoesOn(r) /\ tree' = r.t /\ cur' = r.x)
<1>1. CASE GoesOn(r)
  BY <1>1 DEF Resume, RedAbove
<1>2. CASE ~GoesOn(r)
  <2>1. tree' = Paint(r.t, r.t.root, Black) /\ cur' = Nil
    BY <1>2 DEF Resume, Rooted, Paint
  <2>2. r.t.root \in S /\ r.t.colour \in [Nodes -> {Black, Red}] /\ S \subseteq Nodes
    BY DEF Good, Shaped, Links, Tree, Nodes
  <2>3. /\ Repainted(tree', r.t) /\ Good(tree', S, new)
        /\ tree'.colour = [r.t.colour EXCEPT ![r.t.root] = Black]
    <3>1. /\ Repainted(Paint(r.t, r.t.root, Black), r.t)
          /\ Good(Paint(r.t, r.t.root, Black), S, new)
          /\ Paint(r.t, r.t.root, Black).colour
               = [r.t.colour EXCEPT ![r.t.root] = Black]
      BY <2>2, PaintBlackIs
    <3> QED  BY <2>1, <3>1
  <2> QED  BY <2>1, <2>2, <2>3 DEF Repainted
<1> QED  BY <1>1, <1>2

(* The members of one score are set. *)
LEMMA InsertedNow ==
  ASSUME values \in [Scores -> SUBSET Values],
         NEW s \in Scores, NEW v \in Values, values' = [values EXCEPT ![s] = {v}]
  PROVE  /\ values' \in [Scores -> SUBSET Values]
         /\ Inserted' = Inserted \cup {s}
BY DEF Inserted

(* A set whose tree has no root is empty. *)
LEMMA RootlessIsEmpty ==
  ASSUME IInv, tree.root = Nil
  PROVE  added = {}
<1>1. ASSUME added # {} PROVE FALSE
  <2>1. tree.root \in Scores
    BY <1>1 DEF IInv, Good, Shaped, Links
  <2> QED  BY <2>1, NullAssumption
<1> QED  BY <1>1

(* The first node is a tree by itself. *)
LEMMA FirstKeeps ==
  ASSUME IInv, NEW s \in Scores, NEW v \in Values, InsertFirst(s, v)
  PROVE  IInv'
<1> DEFINE sub == [n \in {s} |-> {s}]
<1> USE DEF InsertFirst, Zadd
<1>1. added = {} /\ cur = Nil
  BY RootlessIsEmpty DEF IInv
<1>2. /\ added' = {s} /\ IsFiniteSet(added') /\ Cardinality(added') = 1
      /\ Cardinality(added) = 0
  <2>1. added' = {s}
    BY <1>1
  <2>2. IsFiniteSet({s}) /\ Cardinality({s}) = 1
    BY FS_Singleton
  <2> QED  BY <1>1, <2>1, <2>2, FS_EmptySet
<1>3. Inserted' = added' /\ values' \in [Scores -> SUBSET Values]
  BY InsertedNow DEF IInv
<1>4. s \in Nodes /\ Null \in Nodes /\ s # Null /\ s \in Int
  BY NullAssumption, ScoresAssumption DEF Nodes
<1>5. tree \in Tree /\ Sentinel(tree)
  BY DEF IInv
<1>6. /\ tree' \in Tree /\ tree'.root = s /\ tree'.colour[s] = Black
      /\ tree'.left[s] = Null /\ tree'.right[s] = Null /\ tree'.parent[s] = Null
      /\ tree'.left[Null] = Nil /\ tree'.right[Null] = Nil
      /\ tree'.parent[Null] = Nil /\ tree'.colour[Null] = Black
  BY <1>4, <1>5 DEF Tree, Sentinel
<1>7. Links(tree', {s})
  BY <1>6 DEF Links
<1>8. Ordered(tree', {s}, sub)
  BY <1>4, <1>6 DEF Ordered
<1>9. Nested(tree', {s}, sub)
  BY DEF Nested
<1>10. Good(tree', {s}, sub)
  BY <1>6, <1>7, <1>8, <1>9 DEF Good, Shaped, Sentinel
<1>11. Good(tree', added', sub) /\ Repairing(sub)'
  BY <1>1, <1>2, <1>10 DEF Repairing
<1> HIDE DEF sub
<1> QED
  BY <1>1, <1>2, <1>3, <1>6, <1>11 DEF IInv, Sentinel

(* A new leaf keeps the tree a search tree. *)
LEMMA InsertKeeps ==
  ASSUME IInv, NEW s \in Scores, NEW v \in Values, Insert(s, v)
  PROVE  IInv'
<1> DEFINE r == [t |-> Linked(s), x |-> s, stop |-> FALSE]
           W == added \cup {s}
<1> USE DEF Insert, Zadd
<1>1. added # {} /\ s \notin added /\ added = Inserted /\ IsFiniteSet(added)
      /\ added \in SUBSET Scores
  BY DEF IInv, Inserted
<1>2. PICK sub : Good(tree, added, sub)
  BY <1>1 DEF IInv
<1>3. tree.colour[tree.root] = Black
  BY <1>1 DEF IInv
<1>4. /\ Linked(s).root = tree.root /\ Linked(s).colour = tree.colour
      /\ Linked(s).parent[s] \in added
      /\ \E new : Good(Linked(s), W, new) /\ new[s] = {s}
  BY <1>1, <1>2, LinkedGood
<1>5. PICK new : Good(Linked(s), W, new) /\ new[s] = {s}
  BY <1>4
<1>6. r.t = Linked(s) /\ r.x = s
  OBVIOUS
<1>7. Resume(r)
  OBVIOUS
<1> HIDE DEF r
<1>8. GoesOn(r) => RedAbove(r.t, W, r.x)
  BY <1>3, <1>4, <1>6 DEF GoesOn, RedAbove
<1>9. /\ Good(tree', W, new)
      /\ tree'.colour[tree'.root] = Black
      /\ cur' = Nil \/ (GoesOn(r) /\ tree' = r.t /\ cur' = r.x)
  BY <1>5, <1>6, <1>7, <1>8, Resumed
<1>10. /\ added' = W /\ W \in SUBSET Scores /\ W # {} /\ IsFiniteSet(W)
       /\ Cardinality(W) \in Nat
  BY <1>1, FS_AddElement, FS_CardinalityType
<1>11. Inserted' = added' /\ values' \in [Scores -> SUBSET Values]
  BY <1>1, <1>10, InsertedNow DEF IInv
<1>12. Cardinality({s}) = 1
  BY FS_Singleton
<1>13. /\ cur' \in Scores \cup {Nil} /\ tree' \in Tree /\ Sentinel(tree')
       /\ turns' = 0
  BY <1>6, <1>9 DEF Good
<1>14. Repairing(new)'
  <2>1. ASSUME cur' # Nil
        PROVE  cur' = s /\ RedAbove(tree', added', cur')
    BY <2>1, <1>6, <1>8, <1>9, <1>10
  <2>2. cur' # Nil => 3 * turns' =< Cardinality(new[cur']) + 2
    BY <2>1, <1>5, <1>12, <1>13
  <2> QED  BY <2>1, <2>2, <1>13 DEF Repairing
<1>15. /\ 3 * turns' =< Cardinality(added') + 2
       /\ added' \in SUBSET Scores /\ added' # {} /\ IsFiniteSet(added')
       /\ turns' \in Nat /\ Good(tree', added', new)
  BY <1>9, <1>10, <1>13
<1> HIDE DEF W
<1> QED
  BY <1>9, <1>11, <1>13, <1>14, <1>15 DEF IInv

(* A turn of the repair keeps the tree a search tree, and goes up unless   *)
(* it is the first.                                                        *)
LEMMA FixUpKeeps ==
  ASSUME IInv, FixUp
  PROVE  IInv'
<1> DEFINE r == Turned(tree, cur)
           g == Grandparent(tree, cur)
<1>1. /\ added # {} /\ added = Inserted /\ IsFiniteSet(added) /\ turns \in Nat
      /\ Cardinality(added) \in Nat /\ added \in SUBSET Scores
  BY FS_CardinalityType DEF IInv, FixUp
<1>2. PICK sub : Good(tree, added, sub) /\ Repairing(sub)
  BY <1>1 DEF IInv
<1>3. /\ RedAbove(tree, added, cur)
      /\ turns > 0 => tree.colour[Uncle(tree, cur)] = Red
      /\ 3 * turns =< Cardinality(sub[cur]) + 2
  BY <1>2 DEF FixUp, Repairing
<1>4. /\ r.x \in added
      /\ \E new :
           /\ Good(r.t, added, new)
           /\ GoesOn(r) =>
                /\ RedAbove(r.t, added, r.x)
                /\ r.t.colour[Uncle(r.t, r.x)] = Red
                /\ Uncle(tree, cur) # Null => new = sub /\ r.x = g
  BY <1>2, <1>3, TurnedGood
<1>5. Resume(r) /\ turns' = turns + 1 /\ UNCHANGED <<values, added>>
  BY DEF FixUp
<1> HIDE DEF r
<1>6. PICK new :
        /\ Good(r.t, added, new)
        /\ GoesOn(r) =>
             /\ RedAbove(r.t, added, r.x)
             /\ r.t.colour[Uncle(r.t, r.x)] = Red
             /\ Uncle(tree, cur) # Null => new = sub /\ r.x = g
  BY <1>4
<1>7. /\ Good(tree', added, new)
      /\ tree'.colour[tree'.root] = Black
      /\ cur' = Nil \/ (GoesOn(r) /\ tree' = r.t /\ cur' = r.x)
  BY <1>4, <1>5, <1>6, Resumed
<1>8. Uncle(tree, cur) # Null =>
        /\ 3 * turns + 3 =< Cardinality(sub[g]) + 2
        /\ 3 * turns + 3 =< Cardinality(added) + 2
  <2> SUFFICES ASSUME Uncle(tree, cur) # Null
               PROVE  /\ 3 * turns + 3 =< Cardinality(sub[g]) + 2
                      /\ 3 * turns + 3 =< Cardinality(added) + 2
    OBVIOUS
  <2>1. /\ g \in added
        /\ Cardinality(sub[cur]) \in Nat /\ Cardinality(sub[g]) \in Nat
        /\ Cardinality(sub[cur]) + 3 =< Cardinality(sub[g])
    BY <1>1, <1>2, <1>3, Climb
  <2>2. sub[g] \in SUBSET added
    BY <2>1, <1>2 DEF Good, Shaped, Ordered
  <2>3. Cardinality(sub[g]) =< Cardinality(added)
    BY <2>2, <1>1, FS_Subset
  <2> QED  BY <2>1, <2>3, <1>1, <1>3
<1>9. Uncle(tree, cur) = Null => turns = 0
  <2>1. tree.colour[Null] # Red
    BY <1>2 DEF Good, Sentinel, Black, Red
  <2> QED  BY <2>1, <1>1, <1>3
<1>10. \A n \in added : Cardinality(new[n]) \in Nat /\ Cardinality(new[n]) >= 1
  <2> SUFFICES ASSUME NEW n \in added
               PROVE  Cardinality(new[n]) \in Nat /\ Cardinality(new[n]) >= 1
    OBVIOUS
  <2>1. n \in new[n] /\ new[n] \in SUBSET added
    BY <1>6 DEF Good, Shaped, Ordered
  <2>2. IsFiniteSet(new[n]) /\ new[n] # {}
    BY <2>1, <1>1, FS_Subset
  <2>3. Cardinality(new[n]) \in Nat /\ Cardinality(new[n]) # 0
    BY <2>2, FS_EmptySet, FS_CardinalityType
  <2> QED  BY <2>3
<1>11. Cardinality(added) >= 1
  <2>1. Cardinality(added) # 0
    BY <1>1, FS_EmptySet
  <2> QED  BY <2>1, <1>1
<1>12. 3 * turns' =< Cardinality(added') + 2
  BY <1>1, <1>5, <1>8, <1>9, <1>11
<1>13. Repairing(new)'
  <2>1. ASSUME cur' # Nil
        PROVE  /\ RedAbove(tree', added', cur')
               /\ tree'.colour[Uncle(tree', cur')] = Red
               /\ 3 * turns' =< Cardinality(new[cur']) + 2
    <3>1. GoesOn(r) /\ tree' = r.t /\ cur' = r.x
      BY <2>1, <1>7
    <3>2. 3 * turns' =< Cardinality(new[cur']) + 2
      <4>1. CASE Uncle(tree, cur) # Null
        <5>1. new = sub /\ cur' = g
          BY <4>1, <3>1, <1>6
        <5> QED  BY <5>1, <4>1, <1>1, <1>5, <1>8
      <4>2. CASE Uncle(tree, cur) = Null
        <5>1. turns' = 1
          BY <4>2, <1>5, <1>9
        <5>2. Cardinality(new[cur']) \in Nat /\ Cardinality(new[cur']) >= 1
          BY <3>1, <1>4, <1>10
        <5> QED  BY <5>1, <5>2
      <4> QED  BY <4>1, <4>2
    <3> QED  BY <3>1, <3>2, <1>5, <1>6
  <2> QED  BY <2>1 DEF Repairing
<1>14. /\ cur' \in Scores \cup {Nil} /\ tree' \in Tree /\ Sentinel(tree')
       /\ turns' \in Nat
  BY <1>1, <1>4, <1>5, <1>7 DEF Good
<1>15. added' = Inserted' /\ values' \in [Scores -> SUBSET Values]
  BY <1>5 DEF IInv, Inserted
<1> QED
  BY <1>1, <1>5, <1>7, <1>12, <1>13, <1>14, <1>15 DEF IInv

(* Every step keeps the inductive invariant. *)
LEMMA IInvNext == IInv /\ [Next]_vars => IInv'
<1> SUFFICES ASSUME IInv, [Next]_vars PROVE IInv'
  OBVIOUS
<1>1. CASE FixUp
  BY <1>1, FixUpKeeps
<1>2. ASSUME NEW s \in Scores, NEW v \in Values, InsertFirst(s, v)
      PROVE  IInv'
  BY <1>2, FirstKeeps
<1>3. ASSUME NEW s \in Scores, NEW v \in Values, Insert(s, v)
      PROVE  IInv'
  BY <1>3, InsertKeeps
<1>4. ASSUME NEW s \in Scores, NEW v \in Values, InsertAgain(s, v)
      PROVE  IInv'
  <2>1. added' = added
    BY <1>4 DEF InsertAgain, Zadd, IInv, Inserted
  <2> QED
    BY <2>1, <1>4 DEF InsertAgain, IInv, Inserted, Repairing, Sentinel
<1>5. CASE UNCHANGED vars
  BY <1>5 DEF vars, IInv, Inserted, Repairing, Sentinel
<1> QED
  BY <1>1, <1>2, <1>3, <1>4, <1>5 DEF Next

(* The inductive invariant holds in every state. *)
LEMMA Inductive == Spec => []IInv
  BY IInvInit, IInvNext, PTL DEF Spec

-----------------------------------------------------------------------------
(* What follows from it *)

(* A set has scores when its tree has a root, and the tree is then a       *)
(* search tree.                                                            *)
LEMMA IInvGood ==
  ASSUME IInv, added # {}
  PROVE  \E sub : Good(tree, added, sub) /\ Repairing(sub)
  BY DEF IInv

(* The links of insert_tree and its rotations lead to nodes or to the      *)
(* sentinel, for any scores.                                               *)
THEOREM TypeCorrect == Spec => []TypeOK
<1>1. IInv => TypeOK
  <2> SUFFICES ASSUME IInv PROVE TypeOK
    OBVIOUS
  <2>1. ASSUME NEW s \in added
        PROVE  Nil \notin {tree.left[s], tree.right[s], tree.parent[s], tree.root}
    <3>1. PICK sub : Good(tree, added, sub)
      BY IInvGood
    <3>2. added \in SUBSET Scores /\ Links(tree, added)
      BY <3>1 DEF Good, Shaped
    <3> QED  BY <3>2, NullAssumption DEF Links
  <2> QED  BY <2>1 DEF TypeOK, IInv
<1> QED
  BY <1>1, Inductive, PTL

(* Parents and children agree after every rotation, at every turn of the   *)
(* repair.                                                                 *)
LEMMA LinksCorrect == IInv => LinksAgree
<1> SUFFICES ASSUME IInv, NEW s \in added
             PROVE  /\ IF s = tree.root
                         THEN tree.parent[s] = Null
                         ELSE s \in {tree.left[tree.parent[s]], tree.right[tree.parent[s]]}
                    /\ \A c \in {tree.left[s], tree.right[s]} \ {Null} : tree.parent[c] = s
  BY DEF LinksAgree
<1>1. PICK sub : Good(tree, added, sub)
  BY IInvGood
<1> QED  BY <1>1 DEF Good, Shaped, Links

(* What zrange finds in the tree of a set. *)
LEMMA ByScoreRight ==
  ASSUME IInv, NEW from \in Scores, NEW to \in Scores
  PROVE  ByScore(from, to) = {s \in added : from =< s /\ s =< to}
<1>1. CASE added = {}
  BY <1>1 DEF IInv, ByScore
<1>2. CASE added # {}
  <2>1. PICK sub : Good(tree, Inserted, sub)
    BY <1>2, IInvGood DEF IInv
  <2> QED  BY <2>1, ByScoreIs DEF IInv
<1> QED  BY <1>1, <1>2

(* zrange finds exactly the scores of its interval that were added, after  *)
(* any insertions and any rotations.                                       *)
THEOREM RangesCorrect == Spec => []RangesRight
<1>1. IInv => RangesRight
  BY ByScoreRight DEF RangesRight
<1> QED
  BY <1>1, Inductive, PTL

(* Parents and children agree after every rotation, fix_up_insert works    *)
(* below a black root, and it leaves the sentinel as it was made.          *)
THEOREM RepairCorrect == Spec => []RepairSafe
<1>1. IInv => RepairSafe
  BY LinksCorrect DEF IInv, RepairSafe, Sentinel
<1> QED
  BY <1>1, Inductive, PTL

(* fix_up_insert takes one turn for every three nodes, rounded up, at most. *)
RepairEnds == 3 * turns =< Cardinality(added) + 2

(* The repair of an insertion ends: every turn but the first goes up by    *)
(* two levels, and takes in three nodes more.                              *)
THEOREM RepairBounded == Spec => []RepairEnds
<1>1. IInv => RepairEnds
  BY DEF IInv, RepairEnds
<1> QED
  BY <1>1, Inductive, PTL

-----------------------------------------------------------------------------
(* The tree implements the abstract set *)

(* What zrange finds for each score alone. *)
Entries == [s \in Scores |-> IF s \in ByScore(s, s) THEN values[s] ELSE {}]

EntriesAreValues == Entries = values

(* What zrange finds for a score alone is what was first added with it.    *)
LEMMA EntriesRight == IInv => EntriesAreValues
<1> SUFFICES ASSUME IInv PROVE EntriesAreValues
  OBVIOUS
<1>1. ASSUME NEW s \in Scores
      PROVE  (IF s \in ByScore(s, s) THEN values[s] ELSE {}) = values[s]
  <2>1. s \in ByScore(s, s) <=> s \in added
    BY ByScoreRight, ScoresAssumption
  <2>2. s \in added <=> values[s] # {}
    BY DEF IInv, Inserted
  <2> QED  BY <2>1, <2>2
<1>2. values = [s \in Scores |-> values[s]]
  BY DEF IInv
<1> QED
  BY <1>1, <1>2 DEF EntriesAreValues, Entries

(* The tree implements the abstract set: whatever the repair does, only an *)
(* insertion with a new score changes what zrange finds.                   *)
THEOREM ImplementsScoreSet == Spec => IsScoreSet
<1>1. EntriesAreValues /\ Init => Abstract!Init
  BY DEF EntriesAreValues, Entries, Init, Abstract!Init
<1>2. IInv /\ EntriesAreValues /\ EntriesAreValues' /\ [Next]_vars
        => [Abstract!Next]_Entries
  <2> SUFFICES ASSUME IInv, EntriesAreValues, EntriesAreValues', [Next]_vars
               PROVE  [Abstract!Next]_Entries
    OBVIOUS
  <2>1. Entries = values /\ Entries' = values'
    BY DEF EntriesAreValues
  <2>2. ASSUME NEW s \in Scores, NEW v \in Values,
               InsertFirst(s, v) \/ Insert(s, v), Entries[s] = {}
        PROVE  Abstract!Next
    <3>1. Entries' = [Entries EXCEPT ![s] = {v}]
      BY <2>1, <2>2 DEF InsertFirst, Insert
    <3>2. Abstract!Add(s, v)
      BY <3>1, <2>2 DEF Abstract!Add, Entries
    <3> QED  BY <3>2 DEF Abstract!Next
  <2>3. CASE FixUp
    BY <2>1, <2>3 DEF FixUp
  <2>4. ASSUME NEW s \in Scores, NEW v \in Values, InsertFirst(s, v)
        PROVE  Abstract!Next
    <3>1. added = {}
      BY <2>4, RootlessIsEmpty DEF InsertFirst
    <3>2. values[s] = {}
      BY <3>1 DEF IInv, Inserted
    <3> QED  BY <3>2, <2>1, <2>2, <2>4
  <2>5. ASSUME NEW s \in Scores, NEW v \in Values, Insert(s, v)
        PROVE  Abstract!Next
    BY <2>1, <2>2, <2>5 DEF Insert
  <2>6. ASSUME NEW s \in Scores, NEW v \in Values, InsertAgain(s, v)
        PROVE  UNCHANGED Entries
    BY <2>1, <2>6 DEF InsertAgain
  <2>7. CASE UNCHANGED vars
    BY <2>1, <2>7 DEF vars
  <2> QED
    BY <2>3, <2>4, <2>5, <2>6, <2>7 DEF Next
<1>3. IInv => EntriesAreValues
  BY EntriesRight
<1> QED
  BY <1>1, <1>2, <1>3, Inductive, PTL DEF Spec, IsScoreSet, Abstract!Spec, Entries
====
