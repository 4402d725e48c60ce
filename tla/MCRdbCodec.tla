----------------------------- MODULE MCRdbCodec -----------------------------
(***************************************************************************)
(* Objects for RdbCodec: strings of every encoding, at the boundaries of   *)
(* their ranges, and texts with the characters the parser looks for.       *)
(***************************************************************************)
EXTENDS RdbCodec

X == Ch(120)

String(k, v) == [type |-> StringType, key |-> k, end |-> Never, vals |-> <<v>>]
Strings(keys, values) == {String(k, v) : k \in keys, v \in values}

Expiring(o, end) == [o EXCEPT !.end = end]

Hash(k, vals) == [type |-> HashType, key |-> k, end |-> Never, vals |-> vals]
List(k, vals) == [type |-> ListType, key |-> k, end |-> Never, vals |-> vals]
Set(k, end) == [type |-> 7, key |-> k, end |-> end, vals |-> <<>>]

MCNow == 1700000000

Numbers ==
  {<<Dec(n)>> : n \in {-300, 0, 13, 58, 126, 127, 256, 32766, 32767,
                       1800000000, 2147483646, 2147483647}}
    \cup {<<Frac(7)>>, <<Frac(200)>>}

Texts == {<<X>>, <<X, Colon, X>>, <<E, Colon, X>>, <<E, Colon, Dec(5)>>,
          <<Dollar>>, <<Run>>, <<Rep>>}

MCObjects ==
  Strings({<<X>>}, Numbers \cup Texts)
    \cup Strings({<<X, E>>, <<X, Colon, E>>},
                 {<<X>>, <<Dec(40000)>>, <<Dec(1800000000)>>})
    \cup {Hash(<<X>>, <<<<X>>, <<E, Colon, Dollar>>>>),
          Hash(<<E>>, <<<<E>>, <<Dec(18)>>, <<X>>, <<X>>>>),
          Hash(<<Colon>>, <<<<X, Colon, E>>, <<X>>, <<X>>, <<E>>>>),
          Hash(<<Dollar>>, <<<<Colon, X>>, <<X>>, <<E>>, <<X>>>>),
          List(<<X>>, <<>>),
          List(<<E>>, <<<<X, Colon>>, <<E, Colon, X>>>>),
          List(<<Colon>>, <<<<X>>, <<Dollar, X>>, <<E, Colon, X>>>>),
          List(<<Dollar>>, <<<<X>>, <<X, Dollar>>>>),
          Set(<<X>>, Never), Set(<<E>>, 0), Set(<<Colon>>, MCNow - 1),
          Expiring(Hash(<<X, E>>, <<<<X>>, <<X>>>>), 5),
          Expiring(Hash(<<X, X>>, <<<<X>>, <<X>>>>), MCNow + 5),
          Expiring(List(<<X, E>>, <<<<Dollar, Dollar>>>>), 0),
          Expiring(String(<<E>>, <<Dec(5)>>), 5),
          Expiring(String(<<E>>, <<LF, E, Colon>>), 5),
          Expiring(String(<<LF>>, <<LF>>), MCNow),
          String(<<E, Colon, X, E>>, <<Dec(5)>>),
          String(<<E>>, <<Dec(10)>>)}
=============================================================================
