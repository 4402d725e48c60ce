--------------------------- MODULE TimerHeapProofs ---------------------------
(***************************************************************************)
(* The timer heap for any descriptors, interval and run of the clock: the  *)
(* entries know their places, the heap is ordered whenever no sift runs,   *)
(* and the whole is the queue of timers that TimerQueue promises.          *)
(***************************************************************************)
EXTENDS TimerHeap, SequenceTheorems, WellFoundedInduction, TLAPS

Timer == [fd : Fds, time : Nat, index : Nat]

(* What a heap is, sorted or not: timers that know their places, at most   *)
(* one of a descriptor.                                                    *)
HeapOK(h) ==
  /\ h \in Seq(Timer)
  /\ \A i \in 1..Len(h) : h[i].index = i
  /\ \A i, j \in 1..Len(h) : h[i].fd = h[j].fd => i = j

Ordered(h) == \A i \in 2..Len(h) : h[i \div 2].time =< h[i].time

(* The children of p are no earlier than its parent. *)
Bridged(h, p) ==
  p > 1 => \A i \in 2..Len(h) : i \div 2 = p => h[p \div 2].time =< h[i].time

(* The heap while the entry at p moves up... *)
Rising(h, p) ==
  /\ \A i \in 2..Len(h) : i # p => h[i \div 2].time =< h[i].time
  /\ Bridged(h, p)

(* ...and while it moves down. *)
Sinking(h, p) ==
  /\ \A i \in 2..Len(h) : i \div 2 # p => h[i \div 2].time =< h[i].time
  /\ Bridged(h, p)

-----------------------------------------------------------------------------
(* Halves, swaps, ends *)

LEMMA Halves ==
  ASSUME NEW i \in Nat
  PROVE  /\ i \div 2 \in Nat
         /\ 2 * (i \div 2) =< i /\ i =< 2 * (i \div 2) + 1
         /\ i > 1 => i \div 2 \in 1..(i - 1)
OBVIOUS

(* A timer that learns another place. *)
LEMMA Reindexed ==
  ASSUME NEW e \in Timer, NEW n \in Nat
  PROVE  /\ [e EXCEPT !.index = n] \in Timer
         /\ [e EXCEPT !.index = n].fd = e.fd
         /\ [e EXCEPT !.index = n].time = e.time
         /\ [e EXCEPT !.index = n].index = n
BY DEF Timer

(* A swap exchanges the timers of two places. *)
LEMMA SwappedHeap ==
  ASSUME NEW h, HeapOK(h), NEW i \in 1..Len(h), NEW j \in 1..Len(h), i # j
  PROVE  /\ HeapOK(Swapped(h, i, j))
         /\ Len(Swapped(h, i, j)) = Len(h)
         /\ Swapped(h, i, j)[i].fd = h[j].fd
         /\ Swapped(h, i, j)[i].time = h[j].time
         /\ Swapped(h, i, j)[j].fd = h[i].fd
         /\ Swapped(h, i, j)[j].time = h[i].time
         /\ \A k \in 1..Len(h) : k # i /\ k # j => Swapped(h, i, j)[k] = h[k]
<1> DEFINE x == [h[j] EXCEPT !.index = i]
           y == [h[i] EXCEPT !.index = j]
           g == [h EXCEPT ![i] = x]
           s == [g EXCEPT ![j] = y]
<1>1. h \in Seq(Timer) /\ Len(h) \in Nat /\ h[i] \in Timer /\ h[j] \in Timer
  BY ElementOfSeq, LenProperties DEF HeapOK
<1>2. /\ x \in Timer /\ x.fd = h[j].fd /\ x.time = h[j].time /\ x.index = i
      /\ y \in Timer /\ y.fd = h[i].fd /\ y.time = h[i].time /\ y.index = j
  BY <1>1, Reindexed
<1> HIDE DEF x, y
<1>3. /\ g \in Seq(Timer) /\ Len(g) = Len(h)
      /\ \A k \in 1..Len(h) : g[k] = IF k = i THEN x ELSE h[k]
  BY <1>1, <1>2, ExceptSeq
<1> HIDE DEF g
<1>4. /\ s \in Seq(Timer) /\ Len(s) = Len(g)
      /\ \A k \in 1..Len(g) : s[k] = IF k = j THEN y ELSE g[k]
  BY <1>1, <1>2, <1>3, ExceptSeq
<1>5. Swapped(h, i, j) = s
  BY DEF Swapped, s, g, x, y
<1> HIDE DEF s
<1>6. \A k \in 1..Len(h) : s[k] = IF k = j THEN y ELSE IF k = i THEN x ELSE h[k]
  BY <1>3, <1>4
<1>7. /\ s[i] = x /\ s[j] = y
      /\ \A k \in 1..Len(h) : k # i /\ k # j => s[k] = h[k]
  BY <1>6
<1>8. \A k \in 1..Len(h) : s[k].index = k
  BY <1>2, <1>7 DEF HeapOK
<1>9. \A k, l \in 1..Len(h) : s[k].fd = s[l].fd => k = l
  BY <1>2, <1>7 DEF HeapOK
<1> QED
  BY <1>2, <1>3, <1>4, <1>5, <1>7, <1>8, <1>9 DEF HeapOK

(* Popping drops the last timer and leaves the others. *)
LEMMA PoppedHeap ==
  ASSUME NEW h, HeapOK(h), Len(h) > 0
  PROVE  /\ HeapOK(Popped(h))
         /\ Len(Popped(h)) = Len(h) - 1
         /\ \A k \in 1..(Len(h) - 1) : Popped(h)[k] = h[k]
<1>1. h \in Seq(Timer) /\ Len(h) \in Nat /\ \A k \in 1..Len(h) : h[k] \in Timer
  BY ElementOfSeq, LenProperties DEF HeapOK
<1>2. /\ Popped(h) \in Seq(Timer)
      /\ Len(Popped(h)) = Len(h) - 1
      /\ \A k \in 1..(Len(h) - 1) : Popped(h)[k] = h[k]
  <2>1. /\ 1 \in Int /\ Len(h) - 1 \in Int
        /\ \A k \in 1..(Len(h) - 1) : h[k] \in Timer
    BY <1>1
  <2>2. /\ SubSeq(h, 1, Len(h) - 1) \in Seq(Timer)
        /\ Len(SubSeq(h, 1, Len(h) - 1)) =
             IF 1 =< Len(h) - 1 THEN Len(h) - 1 - 1 + 1 ELSE 0
        /\ \A k \in 1..(Len(h) - 1 - 1 + 1) :
             SubSeq(h, 1, Len(h) - 1)[k] = h[1 + k - 1]
    BY <2>1, SubSeqProperties
  <2>3. Len(SubSeq(h, 1, Len(h) - 1)) = Len(h) - 1
    <3>1. CASE Len(h) = 1
      BY <2>2, <3>1
    <3>2. CASE Len(h) > 1
      BY <1>1, <2>2, <3>2
    <3> QED
      BY <1>1, <3>1, <3>2
  <2>4. \A k \in 1..(Len(h) - 1) : SubSeq(h, 1, Len(h) - 1)[k] = h[k]
    BY <1>1, <2>2
  <2> QED
    BY <2>2, <2>3, <2>4 DEF Popped
<1> QED
  BY <1>1, <1>2 DEF HeapOK

(* A timer of a descriptor that has none is added at the end. *)
LEMMA AppendedHeap ==
  ASSUME NEW h, HeapOK(h), NEW e \in Timer, e.index = Len(h) + 1,
         \A i \in 1..Len(h) : h[i].fd # e.fd
  PROVE  /\ HeapOK(Append(h, e))
         /\ Len(Append(h, e)) = Len(h) + 1
         /\ \A k \in 1..Len(h) : Append(h, e)[k] = h[k]
         /\ Append(h, e)[Len(h) + 1] = e
<1>1. h \in Seq(Timer) /\ Len(h) \in Nat
  BY LenProperties DEF HeapOK
<1>2. /\ Append(h, e) \in Seq(Timer)
      /\ Len(Append(h, e)) = Len(h) + 1
      /\ \A k \in 1..Len(h) : Append(h, e)[k] = h[k]
      /\ Append(h, e)[Len(h) + 1] = e
  BY <1>1, AppendProperties
<1> QED
  BY <1>1, <1>2 DEF HeapOK

(* The length is a number and the times are numbers. *)
LEMMA HeapTypes ==
  ASSUME NEW h, HeapOK(h)
  PROVE  /\ Len(h) \in Nat /\ DOMAIN h = 1..Len(h)
         /\ \A i \in 1..Len(h) :
              h[i] \in Timer /\ h[i].time \in Nat /\ h[i].fd \in Fds
<1>1. h \in Seq(Timer)
  BY DEF HeapOK
<1>2. /\ Len(h) \in Nat /\ DOMAIN h = 1..Len(h)
      /\ \A i \in 1..Len(h) : h[i] \in Timer
  BY <1>1, ElementOfSeq, LenProperties
<1> QED
  BY <1>2 DEF Timer

-----------------------------------------------------------------------------
(* The order *)

LEMMA AboveMeans ==
  ASSUME NEW h, HeapOK(h), NEW i \in 1..Len(h)
  PROVE  ~Above(h, i) <=> (i > 1 => h[i \div 2].time =< h[i].time)
<1>1. CASE i > 1
  <2>1. i \div 2 \in 1..Len(h)
    BY <1>1, Halves, HeapTypes
  <2> QED
    BY <1>1, <2>1, HeapTypes DEF Above
<1>2. CASE ~(i > 1)
  BY <1>2 DEF Above
<1> QED
  BY <1>1, <1>2

(* A new last entry moves up. *)
LEMMA RisesFromTheEnd ==
  ASSUME NEW h, HeapOK(h), Ordered(h), NEW e \in Timer, e.index = Len(h) + 1,
         \A i \in 1..Len(h) : h[i].fd # e.fd
  PROVE  Rising(Append(h, e), Len(h) + 1)
<1> DEFINE g == Append(h, e)
<1>1. /\ Len(g) = Len(h) + 1 /\ Len(h) \in Nat
      /\ \A k \in 1..Len(h) : g[k] = h[k]
  BY AppendedHeap, HeapTypes
<1> HIDE DEF g
<1>2. ASSUME NEW i \in 2..Len(g) PROVE i \div 2 \in 1..(i - 1) /\ i \div 2 \in 1..Len(h)
  BY <1>1, Halves
<1>3. ASSUME NEW i \in 2..Len(g), i # Len(h) + 1
      PROVE  g[i \div 2].time =< g[i].time
  <2>1. i \in 2..Len(h) /\ i \in 1..Len(h)
    BY <1>1, <1>3
  <2>2. h[i \div 2].time =< h[i].time
    BY <2>1 DEF Ordered
  <2>3. g[i] = h[i] /\ g[i \div 2] = h[i \div 2]
    BY <1>1, <1>2, <2>1
  <2> QED
    BY <2>2, <2>3
<1>4. Bridged(g, Len(h) + 1)
  BY <1>1, <1>2 DEF Bridged
<1> QED
  BY <1>3, <1>4 DEF Rising, g

(* One turn of up_heap... *)
LEMMA RisesOn ==
  ASSUME NEW h, HeapOK(h), NEW p \in 1..Len(h), Rising(h, p), Above(h, p)
  PROVE  /\ p \div 2 \in 1..Len(h) /\ p \div 2 # p
         /\ Rising(Swapped(h, p, p \div 2), p \div 2)
<1> DEFINE q == p \div 2
           g == Swapped(h, p, q)
<1>1. p > 1 /\ h[p].time < h[q].time
  BY DEF Above
<1>2. q \in 1..(p - 1) /\ q \in 1..Len(h) /\ q # p
  BY <1>1, Halves, HeapTypes
<1>10. p \div 2 = q
  OBVIOUS
<1> HIDE DEF q
<1>3. /\ Len(g) = Len(h)
      /\ g[p].time = h[q].time /\ g[q].time = h[p].time
      /\ \A k \in 1..Len(h) : k # p /\ k # q => g[k].time = h[k].time
  BY <1>2, SwappedHeap
<1> HIDE DEF g
<1>4. \A i \in 2..Len(h) : i \div 2 \in 1..(i - 1) /\ i \div 2 \in 1..Len(h)
  BY Halves, HeapTypes
<1>5. \A i \in 1..Len(h) : h[i].time \in Nat
  BY HeapTypes
<1>6. ASSUME NEW i \in 2..Len(h), i # q PROVE g[i \div 2].time =< g[i].time
  <2>1. CASE i = p
    BY <1>1, <1>2, <1>3, <1>5, <1>10, <2>1
  <2>2. CASE i # p /\ i \div 2 = p
    <3>1. h[q].time =< h[i].time
      BY <1>1, <1>10, <2>2 DEF Rising, Bridged
    <3> QED
      BY <1>3, <1>6, <2>2, <3>1
  <2>3. CASE i # p /\ i \div 2 = q
    <3>1. h[q].time =< h[i].time
      BY <2>3 DEF Rising
    <3> QED
      BY <1>1, <1>2, <1>3, <1>5, <1>6, <2>3, <3>1
  <2>4. CASE i # p /\ i \div 2 # p /\ i \div 2 # q
    <3>1. h[i \div 2].time =< h[i].time
      BY <2>4 DEF Rising
    <3> QED
      BY <1>3, <1>4, <1>6, <2>4, <3>1
  <2> QED
    BY <2>1, <2>2, <2>3, <2>4
<1>7. Bridged(g, q)
  <2> SUFFICES ASSUME q > 1, NEW i \in 2..Len(h), i \div 2 = q
               PROVE  g[q \div 2].time =< g[i].time
    BY <1>3 DEF Bridged
  <2>1. q \in 2..Len(h) /\ q \div 2 \in 1..(q - 1) /\ q \div 2 \in 1..Len(h)
    BY <1>2, <1>4
  <2>2. h[q \div 2].time =< h[q].time
    BY <1>2, <2>1 DEF Rising
  <2>3. g[q \div 2].time = h[q \div 2].time
    BY <1>2, <1>3, <2>1
  <2>4. CASE i = p
    BY <1>3, <2>2, <2>3, <2>4
  <2>5. CASE i # p
    <3>1. h[q].time =< h[i].time
      BY <2>5 DEF Rising
    <3>2. g[i].time = h[i].time
      BY <1>3, <1>4, <2>5
    <3> QED
      BY <1>2, <1>5, <2>1, <2>2, <2>3, <3>1, <3>2
  <2> QED
    BY <2>4, <2>5
<1> QED
  BY <1>2, <1>3, <1>6, <1>7 DEF Rising, g, q

(* ...and its last. *)
LEMMA RisenIsOrdered ==
  ASSUME NEW h, HeapOK(h), NEW p \in 1..Len(h), Rising(h, p), ~Above(h, p)
  PROVE  Ordered(h)
BY AboveMeans DEF Rising, Ordered

(* The last entry, in the place of a removed one, moves up or down. *)
LEMMA RefilledHeap ==
  ASSUME NEW h, HeapOK(h), Ordered(h), NEW i \in 1..Len(h)
  PROVE  LET g == Popped(Swapped(h, i, Len(h)))
         IN  i # Len(h) =>
               /\ HeapOK(g) /\ Len(g) = Len(h) - 1 /\ i \in 1..Len(g)
               /\ g[i].fd = h[Len(h)].fd /\ g[i].time = h[Len(h)].time
               /\ \A k \in 1..Len(g) : k # i => g[k] = h[k]
<1> SUFFICES ASSUME i # Len(h)
             PROVE  LET g == Popped(Swapped(h, i, Len(h)))
                    IN  /\ HeapOK(g) /\ Len(g) = Len(h) - 1 /\ i \in 1..Len(g)
                        /\ g[i].fd = h[Len(h)].fd /\ g[i].time = h[Len(h)].time
                        /\ \A k \in 1..Len(g) : k # i => g[k] = h[k]
  OBVIOUS
<1> DEFINE s == Swapped(h, i, Len(h))
           g == Popped(s)
<1>1. Len(h) \in Nat /\ Len(h) \in 1..Len(h) /\ i < Len(h)
  BY HeapTypes
<1>2. /\ HeapOK(s) /\ Len(s) = Len(h)
      /\ s[i].fd = h[Len(h)].fd /\ s[i].time = h[Len(h)].time
      /\ \A k \in 1..Len(h) : k # i /\ k # Len(h) => s[k] = h[k]
  BY <1>1, SwappedHeap
<1> HIDE DEF s
<1>3. /\ HeapOK(g) /\ Len(g) = Len(h) - 1
      /\ \A k \in 1..(Len(h) - 1) : g[k] = s[k]
  BY <1>1, <1>2, PoppedHeap
<1> HIDE DEF g
<1>4. i \in 1..Len(g) /\ \A k \in 1..Len(g) : k \in 1..Len(h) /\ k # Len(h)
  BY <1>1, <1>3
<1>5. /\ g[i].fd = h[Len(h)].fd /\ g[i].time = h[Len(h)].time
      /\ \A k \in 1..Len(g) : k # i => g[k] = h[k]
  BY <1>2, <1>3, <1>4
<1> QED
  BY <1>3, <1>4, <1>5 DEF g, s

(* The removed last entry leaves a shorter heap. *)
LEMMA ShortenedHeap ==
  ASSUME NEW h, HeapOK(h), Len(h) > 0
  PROVE  LET g == Popped(Swapped(h, Len(h), Len(h)))
         IN  /\ HeapOK(g) /\ Len(g) = Len(h) - 1
             /\ \A k \in 1..Len(g) : g[k] = h[k]
<1> DEFINE n == Len(h)
           x == [h[n] EXCEPT !.index = n]
           a == [h EXCEPT ![n] = x]
           s == [a EXCEPT ![n] = x]
           g == Popped(s)
<1>1. h \in Seq(Timer) /\ n \in Nat /\ n \in 1..Len(h) /\ h[n] \in Timer
  BY HeapTypes DEF HeapOK
<1>2. x \in Timer /\ x.fd = h[n].fd /\ x.index = n
  BY <1>1, Reindexed
<1>3. s = Swapped(h, Len(h), Len(h))
  BY DEF Swapped
<1> HIDE DEF x, n
<1>4. /\ a \in Seq(Timer) /\ Len(a) = Len(h)
      /\ \A k \in 1..Len(h) : a[k] = IF k = n THEN x ELSE h[k]
  BY <1>1, <1>2, ExceptSeq
<1> HIDE DEF a
<1>5. /\ s \in Seq(Timer) /\ Len(s) = Len(a)
      /\ \A k \in 1..Len(a) : s[k] = IF k = n THEN x ELSE a[k]
  BY <1>1, <1>2, <1>4, ExceptSeq
<1> HIDE DEF s
<1>6. \A k \in 1..Len(h) : s[k] = IF k = n THEN x ELSE h[k]
  BY <1>4, <1>5
<1>7. \A k \in 1..Len(h) : s[k].index = k /\ s[k].fd = h[k].fd
  BY <1>2, <1>6 DEF HeapOK
<1>8. HeapOK(s) /\ Len(s) = Len(h)
  BY <1>4, <1>5, <1>7 DEF HeapOK
<1>9. /\ HeapOK(g) /\ Len(g) = Len(h) - 1
      /\ \A k \in 1..(Len(h) - 1) : g[k] = s[k]
  BY <1>8, PoppedHeap
<1>10. \A k \in 1..(Len(h) - 1) : s[k] = h[k]
  BY <1>1, <1>6 DEF n
<1> HIDE DEF g
<1>11. \A k \in 1..Len(g) : g[k] = h[k]
  BY <1>9, <1>10
<1> QED
  BY <1>3, <1>9, <1>11 DEF g

(* A refilled place is the only one that can be out of order. *)
LEMMA RefilledOrder ==
  ASSUME NEW h, HeapOK(h), Ordered(h), NEW i \in 1..Len(h), i # Len(h),
         NEW g, HeapOK(g), Len(g) = Len(h) - 1, i \in 1..Len(g),
         \A k \in 1..Len(g) : k # i => g[k] = h[k]
  PROVE  /\ Above(g, i) => Rising(g, i)
         /\ ~Above(g, i) => Sinking(g, i)
<1>1. /\ Len(h) \in Nat
      /\ \A k \in 1..Len(h) : h[k].time \in Nat
      /\ \A k \in 1..Len(g) : g[k].time \in Nat
  BY HeapTypes
<1>2. \A j \in 2..Len(g) :
        j \in 2..Len(h) /\ j \div 2 \in 1..(j - 1) /\ j \div 2 \in 1..Len(g)
          /\ j \div 2 \in 1..Len(h)
  BY <1>1, Halves
<1>3. ASSUME NEW j \in 2..Len(g), j # i, j \div 2 # i
      PROVE  g[j \div 2].time =< g[j].time
  <2>1. h[j \div 2].time =< h[j].time
    BY <1>2 DEF Ordered
  <2> QED
    BY <1>2, <1>3, <2>1
<1>4. i > 1 => i \in 2..Len(g) /\ i \div 2 # i /\ g[i \div 2] = h[i \div 2]
              /\ h[i \div 2].time =< h[i].time
  <2> SUFFICES ASSUME i > 1
               PROVE  i \in 2..Len(g) /\ i \div 2 # i /\ g[i \div 2] = h[i \div 2]
                        /\ h[i \div 2].time =< h[i].time
    OBVIOUS
  <2>1. i \in 2..Len(g)
    BY <1>1
  <2> QED
    BY <1>2, <2>1 DEF Ordered
<1>5. ASSUME NEW j \in 2..Len(g), j \div 2 = i
      PROVE  g[j] = h[j] /\ h[i].time =< h[j].time
  <2>1. j \in 2..Len(h) /\ j # i
    BY <1>2, <1>5
  <2>2. j \in 1..Len(g)
    BY <1>1
  <2>3. h[j \div 2].time =< h[j].time
    BY <2>1 DEF Ordered
  <2> QED
    BY <1>5, <2>1, <2>2, <2>3
<1>6. Bridged(g, i)
  <2> SUFFICES ASSUME i > 1, NEW j \in 2..Len(g), j \div 2 = i
               PROVE  g[i \div 2].time =< g[j].time
    BY DEF Bridged
  <2>1. i \in 1..Len(h) /\ j \in 1..Len(h) /\ i \div 2 \in 1..Len(h)
    BY <1>2, <1>4
  <2> QED
    BY <1>1, <1>4, <1>5, <2>1
<1>7. ASSUME Above(g, i) PROVE Rising(g, i)
  <2> SUFFICES ASSUME NEW j \in 2..Len(g), j \div 2 = i
               PROVE  g[i].time =< g[j].time
    BY <1>3, <1>6 DEF Rising
  <2>1. i > 1 /\ g[i].time < g[i \div 2].time
    BY <1>7 DEF Above
  <2>2. g[i \div 2].time =< g[j].time
    BY <1>6, <2>1 DEF Bridged
  <2>3. i \div 2 \in 1..Len(g) /\ j \in 1..Len(g)
    BY <1>2, <1>4, <2>1
  <2> QED
    BY <1>1, <2>1, <2>2, <2>3
<1>8. ASSUME ~Above(g, i) PROVE Sinking(g, i)
  <2>1. i > 1 => g[i \div 2].time =< g[i].time
    BY <1>8, AboveMeans
  <2>2. \A j \in 2..Len(g) : j = i => j > 1
    BY <1>1
  <2> QED
    BY <1>3, <1>6, <2>1, <2>2 DEF Sinking
<1> QED
  BY <1>7, <1>8

(* The child down_heap picks is the least. *)
LEMMA MinChildIsLeast ==
  ASSUME NEW h, HeapOK(h), NEW p \in 1..Len(h), 2 * p =< Len(h)
  PROVE  LET c == MinChild(h, p)
         IN  /\ c \in 2..Len(h) /\ c \div 2 = p /\ c # p
             /\ \A i \in 2..Len(h) : i \div 2 = p => h[c].time =< h[i].time
<1> DEFINE c == MinChild(h, p)
<1>1. /\ Len(h) \in Nat
      /\ \A k \in 1..Len(h) : h[k].time \in Nat
  BY HeapTypes
<1>2. c \in {2 * p, 2 * p + 1} /\ (2 * p = Len(h) => c = 2 * p)
  BY DEF MinChild
<1>3. c \in 2..Len(h)
  BY <1>1, <1>2
<1>4. (2 * p) \div 2 = p /\ (2 * p + 1) \div 2 = p
  OBVIOUS
<1>5. ASSUME NEW i \in 2..Len(h), i \div 2 = p PROVE h[c].time =< h[i].time
  <2>1. i \in {2 * p, 2 * p + 1} /\ (2 * p = Len(h) => i = 2 * p)
    BY <1>1, <1>5, Halves
  <2>2. i \in 1..Len(h) /\ 2 * p \in 1..Len(h)
    BY <1>1
  <2>3. CASE 2 * p = Len(h)
    BY <1>1, <1>2, <2>1, <2>2, <2>3
  <2>4. CASE 2 * p # Len(h)
    <3>1. 2 * p + 1 \in 1..Len(h)
      BY <1>1, <2>4
    <3> QED
      BY <1>1, <2>1, <2>2, <2>4, <3>1 DEF MinChild
  <2> QED
    BY <2>3, <2>4
<1>6. c \div 2 = p /\ c # p
  BY <1>2, <1>4
<1> QED
  BY <1>3, <1>5, <1>6

(* One turn of down_heap... *)
LEMMA SinksOn ==
  ASSUME NEW h, HeapOK(h), NEW p \in 1..Len(h), Sinking(h, p),
         2 * p =< Len(h), ~(h[p].time < h[MinChild(h, p)].time)
  PROVE  Sinking(Swapped(h, p, MinChild(h, p)), MinChild(h, p))
<1> DEFINE c == MinChild(h, p)
           g == Swapped(h, p, c)
<1>1. /\ c \in 2..Len(h) /\ c \div 2 = p /\ c # p
      /\ \A i \in 2..Len(h) : i \div 2 = p => h[c].time =< h[i].time
  BY MinChildIsLeast
<1>2. h[c].time =< h[p].time
  BY <1>1, HeapTypes
<1> HIDE DEF c
<1>9. c \in 1..Len(h)
  BY <1>1
<1>3. /\ Len(g) = Len(h) /\ c \in 1..Len(h)
      /\ g[p].time = h[c].time /\ g[c].time = h[p].time
      /\ \A k \in 1..Len(h) : k # p /\ k # c => g[k].time = h[k].time
  BY <1>1, <1>9, SwappedHeap
<1> HIDE DEF g
<1>4. \A i \in 2..Len(h) : i \div 2 \in 1..(i - 1) /\ i \div 2 \in 1..Len(h)
  BY Halves, HeapTypes
<1>5. \A i \in 1..Len(h) : h[i].time \in Nat
  BY HeapTypes
<1>6. ASSUME NEW i \in 2..Len(h), i \div 2 # c PROVE g[i \div 2].time =< g[i].time
  <2>1. CASE i = c
    BY <1>1, <1>2, <1>3, <2>1
  <2>2. CASE i # c /\ i \div 2 = p
    <3>1. i # p
      BY <1>4, <2>2
    <3> QED
      BY <1>1, <1>3, <2>2, <3>1
  <2>3. CASE i = p
    <3>1. p > 1 /\ c \in 2..Len(h) /\ c \div 2 = p
      BY <1>1, <2>3
    <3>2. h[p \div 2].time =< h[c].time
      BY <3>1 DEF Sinking, Bridged
    <3>3. p \div 2 \in 1..Len(h) /\ p \div 2 # p /\ p \div 2 # c
      BY <1>4, <1>6, <2>3
    <3> QED
      BY <1>3, <2>3, <3>2, <3>3
  <2>4. CASE i # c /\ i # p /\ i \div 2 # p
    <3>1. h[i \div 2].time =< h[i].time
      BY <2>4 DEF Sinking
    <3> QED
      BY <1>3, <1>4, <1>6, <2>4, <3>1
  <2> QED
    BY <2>1, <2>2, <2>3, <2>4
<1>7. ASSUME NEW i \in 2..Len(h), i \div 2 = c
      PROVE  g[c \div 2].time =< g[i].time
  <2>1. i # p /\ i # c /\ i \div 2 # p
    <3>1. i > c /\ c > p
      BY <1>1, <1>4, <1>7
    <3> QED
      BY <1>1, <1>7, <3>1
  <2>2. h[c].time =< h[i].time
    BY <1>7, <2>1 DEF Sinking
  <2> QED
    BY <1>1, <1>3, <2>1, <2>2
<1>8. Bridged(g, c)
  BY <1>3, <1>7 DEF Bridged
<1> QED
  BY <1>3, <1>6, <1>8 DEF Sinking, g, c

(* ...and its last. *)
LEMMA SunkIsOrdered ==
  ASSUME NEW h, HeapOK(h), NEW p \in 1..Len(h), Sinking(h, p),
         ~(2 * p =< Len(h) /\ ~(h[p].time < h[MinChild(h, p)].time))
  PROVE  Ordered(h)
<1>1. /\ Len(h) \in Nat
      /\ \A k \in 1..Len(h) : h[k].time \in Nat
  BY HeapTypes
<1>2. ASSUME NEW i \in 2..Len(h), i \div 2 = p PROVE h[p].time =< h[i].time
  <2>1. 2 * p =< Len(h)
    BY <1>1, <1>2, Halves
  <2>2. /\ MinChild(h, p) \in 1..Len(h)
        /\ h[MinChild(h, p)].time =< h[i].time
    BY <1>2, <2>1, MinChildIsLeast
  <2>3. h[p].time < h[MinChild(h, p)].time /\ i \in 1..Len(h)
    BY <2>1
  <2> QED
    BY <1>1, <2>2, <2>3
<1> QED
  BY <1>2 DEF Sinking, Ordered

(* Nobody is earlier than the root: of the entries that were, the one with *)
(* the smallest place would have a parent among them.                      *)
LEMMA RootIsFirst ==
  ASSUME NEW h, HeapOK(h), Ordered(h), NEW i \in 1..Len(h)
  PROVE  h[1].time =< h[i].time
<1> DEFINE T == {k \in 1..Len(h) : ~(h[1].time =< h[k].time)}
<1>1. /\ Len(h) \in Nat
      /\ \A k \in 1..Len(h) : h[k].time \in Nat
  BY HeapTypes
<1>2. SUFFICES ASSUME T # {} PROVE FALSE
  OBVIOUS
<1>3. T \subseteq Nat
  BY <1>1
<1>4. IsWellFoundedOn(OpToRel(<, Nat), Nat)
  BY NatLessThanWellFounded
<1>5. PICK k \in T : \A l \in T : ~(<<l, k>> \in OpToRel(<, Nat))
  <2> HIDE DEF T
  <2> QED
    BY <1>2, <1>3, <1>4, WFMin
<1>6. \A l \in T : ~(l < k)
  BY <1>3, <1>5 DEF OpToRel
<1>7. k \in 2..Len(h) /\ 1 \in 1..Len(h)
  BY <1>1
<1>8. k \div 2 \in 1..(k - 1) /\ k \div 2 \in 1..Len(h)
  BY <1>1, <1>7, Halves
<1>9. h[k \div 2].time =< h[k].time
  BY <1>7 DEF Ordered
<1>10. k \div 2 \in T
  BY <1>1, <1>7, <1>8, <1>9
<1> QED
  BY <1>6, <1>8, <1>10

-----------------------------------------------------------------------------
(* The timers a heap holds, without their places *)

TimerOf(e) == [fd |-> e.fd, time |-> e.time]

Timers(h) == {TimerOf(h[i]) : i \in 1..Len(h)}

(* No timer of h is one of descriptor f. *)
Without(f, h) == \A i \in 1..Len(h) : h[i].fd # f

LEMMA SwapKeepsTimers ==
  ASSUME NEW h, HeapOK(h), NEW i \in 1..Len(h), NEW j \in 1..Len(h), i # j
  PROVE  /\ Timers(Swapped(h, i, j)) = Timers(h)
         /\ \A f : Without(f, h) => Without(f, Swapped(h, i, j))
<1> DEFINE g == Swapped(h, i, j)
<1>1. /\ Len(g) = Len(h)
      /\ g[i].fd = h[j].fd /\ g[i].time = h[j].time
      /\ g[j].fd = h[i].fd /\ g[j].time = h[i].time
      /\ \A k \in 1..Len(h) : k # i /\ k # j => g[k] = h[k]
  BY SwappedHeap
<1> HIDE DEF g
<1>2. /\ TimerOf(g[i]) = TimerOf(h[j]) /\ TimerOf(g[j]) = TimerOf(h[i])
      /\ \A k \in 1..Len(h) : k # i /\ k # j => TimerOf(g[k]) = TimerOf(h[k])
  BY <1>1 DEF TimerOf
<1>3. \A k \in 1..Len(h) : \E l \in 1..Len(h) : TimerOf(g[k]) = TimerOf(h[l])
  BY <1>2
<1>4. \A k \in 1..Len(h) : \E l \in 1..Len(h) : TimerOf(h[k]) = TimerOf(g[l])
  BY <1>2
<1>5. Timers(g) = Timers(h)
  <2>1. Timers(g) = {TimerOf(g[k]) : k \in 1..Len(h)}
    BY <1>1 DEF Timers
  <2>2. ASSUME NEW t \in Timers(g) PROVE t \in Timers(h)
    <3>1. PICK k \in 1..Len(h) : t = TimerOf(g[k])
      BY <2>1
    <3> QED
      BY <1>3, <3>1 DEF Timers
  <2>3. Timers(h) \subseteq Timers(g)
    BY <1>4, <2>1 DEF Timers
  <2> QED
    BY <2>2, <2>3
<1>6. \A f : Without(f, h) => Without(f, g)
  BY <1>1 DEF Without
<1> QED
  BY <1>5, <1>6 DEF g

LEMMA AppendAddsTimer ==
  ASSUME NEW h, HeapOK(h), NEW e \in Timer, e.index = Len(h) + 1, Without(e.fd, h)
  PROVE  Timers(Append(h, e)) = Timers(h) \cup {TimerOf(e)}
<1> DEFINE g == Append(h, e)
<1>1. /\ Len(g) = Len(h) + 1
      /\ \A k \in 1..Len(h) : g[k] = h[k]
      /\ g[Len(h) + 1] = e
  BY AppendedHeap DEF Without
<1> HIDE DEF g
<1>2. Len(h) \in Nat /\ 1..(Len(h) + 1) = 1..Len(h) \cup {Len(h) + 1}
  BY HeapTypes
<1> QED
  BY <1>1, <1>2 DEF Timers, g

(* What a removal leaves: the heap, its order but for the place that was    *)
(* refilled, and every timer but the removed one.                           *)
LEMMA RemovedHeap ==
  ASSUME NEW h, HeapOK(h), Ordered(h), NEW i \in 1..Len(h)
  PROVE  LET g == Popped(Swapped(h, i, Len(h)))
         IN  /\ HeapOK(g) /\ Len(g) = Len(h) - 1
             /\ i = Len(h) => Ordered(g)
             /\ i # Len(h) => /\ i \in 1..Len(g)
                              /\ Above(g, i) => Rising(g, i)
                              /\ ~Above(g, i) => Sinking(g, i)
             /\ Timers(g) = Timers(h) \ {TimerOf(h[i])}
             /\ Without(h[i].fd, g)
<1> DEFINE g == Popped(Swapped(h, i, Len(h)))
<1>1. Len(h) \in Nat
  BY HeapTypes
<1>2. ASSUME NEW k \in 1..Len(h), NEW l \in 1..Len(h), TimerOf(h[k]) = TimerOf(h[l])
      PROVE  k = l
  BY <1>2 DEF TimerOf, HeapOK
<1>3. ASSUME i = Len(h)
      PROVE  /\ HeapOK(g) /\ Len(g) = Len(h) - 1
             /\ \A k \in 1..Len(g) : g[k] = h[k]
  BY <1>1, <1>3, ShortenedHeap
<1>4. ASSUME i # Len(h)
      PROVE  /\ HeapOK(g) /\ Len(g) = Len(h) - 1 /\ i \in 1..Len(g)
             /\ g[i].fd = h[Len(h)].fd /\ g[i].time = h[Len(h)].time
             /\ \A k \in 1..Len(g) : k # i => g[k] = h[k]
  BY <1>4, RefilledHeap
<1> HIDE DEF g
<1>5. HeapOK(g) /\ Len(g) = Len(h) - 1
  BY <1>3, <1>4
<1>6. ASSUME NEW k \in 1..Len(g)
      PROVE  \E l \in 1..Len(h) :
               l # i /\ TimerOf(g[k]) = TimerOf(h[l]) /\ g[k].fd = h[l].fd
  <2>1. k \in 1..Len(h) /\ Len(h) \in 1..Len(h) /\ k # Len(h)
    BY <1>1, <1>5
  <2>2. CASE i = Len(h)
    BY <1>3, <2>1, <2>2
  <2>3. CASE i # Len(h) /\ k = i
    BY <1>4, <2>1, <2>3 DEF TimerOf
  <2>4. CASE i # Len(h) /\ k # i
    BY <1>4, <2>1, <2>4
  <2> QED
    BY <2>2, <2>3, <2>4
<1>7. ASSUME NEW l \in 1..Len(h), l # i
      PROVE  \E k \in 1..Len(g) : TimerOf(g[k]) = TimerOf(h[l])
  <2>1. CASE l = Len(h)
    BY <1>4, <1>7, <2>1 DEF TimerOf
  <2>2. CASE l # Len(h)
    <3>1. l \in 1..Len(g)
      BY <1>1, <1>5, <2>2
    <3> QED
      BY <1>3, <1>4, <1>7, <3>1
  <2> QED
    BY <2>1, <2>2
<1>8. Timers(g) = Timers(h) \ {TimerOf(h[i])}
  <2>1. Timers(g) \subseteq Timers(h) \ {TimerOf(h[i])}
    BY <1>2, <1>6 DEF Timers
  <2>2. Timers(h) \ {TimerOf(h[i])} \subseteq Timers(g)
    BY <1>7 DEF Timers
  <2> QED
    BY <2>1, <2>2
<1>9. Without(h[i].fd, g)
  <2> SUFFICES ASSUME NEW k \in 1..Len(g) PROVE g[k].fd # h[i].fd
    BY DEF Without
  <2> QED
    BY <1>6 DEF HeapOK
<1>10. ASSUME i = Len(h) PROVE Ordered(g)
  <2> SUFFICES ASSUME NEW k \in 2..Len(g) PROVE g[k \div 2].time =< g[k].time
    BY DEF Ordered
  <2>1. k \in 2..Len(h) /\ k \in 1..Len(g) /\ k \div 2 \in 1..Len(g)
    BY <1>1, <1>5, Halves
  <2>2. h[k \div 2].time =< h[k].time
    BY <2>1 DEF Ordered
  <2> QED
    BY <1>3, <1>10, <2>1, <2>2
<1>11. ASSUME i # Len(h)
       PROVE  /\ i \in 1..Len(g)
              /\ Above(g, i) => Rising(g, i)
              /\ ~Above(g, i) => Sinking(g, i)
  BY <1>4, <1>11, RefilledOrder
<1> QED
  BY <1>5, <1>8, <1>9, <1>10, <1>11 DEF g

-----------------------------------------------------------------------------
(* The inductive invariant *)

Resting == {"idle", "scan", "loop", "fire", "add"}

(* Where the operation goes on when the sift is over. *)
Going == IF pc \in {"up", "down"} THEN then ELSE pc

Typed ==
  /\ HeapOK(heap)
  /\ now \in 0..MaxNow
  /\ pc \in Places /\ then \in Places /\ Going \in Resting
  /\ op \in {"none", "start", "modify", "detect"}
  /\ fd \in Fds \cup {0} /\ pos \in Nat /\ at \in Nat
  /\ cur \in [fd : Fds \cup {0}, time : Nat, index : Nat]

Sorted ==
  /\ pc \notin {"up", "down"} => Ordered(heap)
  /\ pc \in {"up", "down"} => at \in 1..Len(heap)
  /\ pc = "up" => Rising(heap, at)
  /\ pc = "down" => Sinking(heap, at)

(* The timer in hand is in the heap no longer. *)
Held ==
  /\ Going = "fire" => cur.index > Len(heap)
  /\ Going = "add" => cur.fd \in Fds /\ Without(cur.fd, heap)

(* Which operation is at which place. *)
Operating ==
  /\ Going \in {"loop", "fire"} => op = "detect"
  /\ Going = "scan" => op = "modify"
  /\ Going = "add" => op \in {"modify", "detect"}
  /\ Going = "idle" /\ pc # "idle" => op = "start"
  /\ op = "modify" => pos > 0

Inv == Typed /\ Sorted /\ Held /\ Operating

(* A turn of a sift moves timers about and keeps the rest. *)
LEMMA Sift ==
  ASSUME Inv, Up \/ Down
  PROVE  /\ HeapOK(heap') /\ Sorted' /\ Going' = Going
         /\ pc' \in Places /\ at' \in Nat /\ Len(heap') = Len(heap)
         /\ Timers(heap') = Timers(heap)
         /\ \A f : Without(f, heap) => Without(f, heap')
         /\ pc' = "idle" => then = "idle"
<1> USE DEF Inv
<1>1. /\ HeapOK(heap) /\ at \in 1..Len(heap) /\ Len(heap) \in Nat
      /\ then \in Resting /\ Going = then /\ then' = then
  BY HeapTypes DEF Typed, Sorted, Going, Up, Down
<1>2. ASSUME pc' = then, heap' = heap, at' = at, Ordered(heap)
      PROVE  /\ HeapOK(heap') /\ Sorted' /\ Going' = Going
             /\ pc' \in Places /\ at' \in Nat /\ Len(heap') = Len(heap)
             /\ Timers(heap') = Timers(heap)
             /\ \A f : Without(f, heap) => Without(f, heap')
             /\ pc' = "idle" => then = "idle"
  BY <1>1, <1>2 DEF Sorted, Going, Resting, Places
<1>3. CASE Up
  <2>1. Rising(heap, at)
    BY <1>3 DEF Up, Sorted
  <2>2. CASE Above(heap, at)
    <3>1. /\ heap' = Swapped(heap, at, at \div 2)
          /\ at' = at \div 2 /\ pc' = "up" /\ pc = "up"
      BY <1>3, <2>2 DEF Up
    <3>2. /\ at \div 2 \in 1..Len(heap) /\ at \div 2 # at
          /\ Rising(heap', at')
      BY <1>1, <2>1, <2>2, <3>1, RisesOn
    <3>3. /\ HeapOK(heap') /\ Len(heap') = Len(heap)
          /\ Timers(heap') = Timers(heap)
          /\ \A f : Without(f, heap) => Without(f, heap')
      BY <1>1, <3>1, <3>2, SwappedHeap, SwapKeepsTimers
    <3>4. at' \in 1..Len(heap') /\ at' \in Nat
      BY <1>1, <3>1, <3>2, <3>3
    <3> QED
      BY <1>1, <3>1, <3>2, <3>3, <3>4 DEF Sorted, Going, Places
  <2>3. CASE ~Above(heap, at)
    <3>1. Ordered(heap)
      BY <1>1, <2>1, <2>3, RisenIsOrdered
    <3> QED
      BY <1>2, <1>3, <2>3, <3>1 DEF Up
  <2> QED
    BY <2>2, <2>3
<1>4. CASE Down
  <2> DEFINE c == MinChild(heap, at)
  <2>1. Sinking(heap, at)
    BY <1>4 DEF Down, Sorted
  <2>2. CASE 2 * at =< Len(heap) /\ ~(heap[at].time < heap[c].time)
    <3>1. /\ heap' = Swapped(heap, at, c)
          /\ at' = c /\ pc' = "down" /\ pc = "down"
      BY <1>4, <2>2 DEF Down
    <3>2. c \in 2..Len(heap) /\ c # at
      BY <1>1, <2>2, MinChildIsLeast
    <3>3. Sinking(heap', at')
      BY <1>1, <2>1, <2>2, <3>1, SinksOn
    <3> HIDE DEF c
    <3>4. c \in 1..Len(heap)
      BY <1>1, <3>2
    <3>5. /\ HeapOK(heap') /\ Len(heap') = Len(heap)
          /\ Timers(heap') = Timers(heap)
          /\ \A f : Without(f, heap) => Without(f, heap')
      BY <1>1, <3>1, <3>2, <3>4, SwappedHeap, SwapKeepsTimers
    <3>6. at' \in 1..Len(heap') /\ at' \in Nat
      BY <1>1, <3>1, <3>4, <3>5
    <3> QED
      BY <1>1, <3>1, <3>3, <3>5, <3>6 DEF Sorted, Going, Places
  <2>3. CASE ~(2 * at =< Len(heap) /\ ~(heap[at].time < heap[c].time))
    <3>1. Ordered(heap)
      BY <1>1, <2>1, <2>3, SunkIsOrdered
    <3> QED
      BY <1>2, <1>4, <2>3, <3>1 DEF Down
  <2> QED
    BY <2>2, <2>3
<1> QED
  BY <1>3, <1>4

(* remove_timer takes one timer out and leaves a sift to do. *)
LEMMA Removal ==
  ASSUME Inv, pc \notin {"up", "down"}, NEW i \in 1..Len(heap),
         NEW next \in Resting, Remove(i, next)
  PROVE  /\ HeapOK(heap') /\ Sorted' /\ Going' = next
         /\ pc' \in Places \ ({"idle"} \ {next}) /\ then' \in Places /\ at' \in Nat
         /\ Len(heap') = Len(heap) - 1
         /\ Timers(heap') = Timers(heap) \ {TimerOf(heap[i])}
         /\ Without(heap[i].fd, heap')
<1>1. HeapOK(heap) /\ Ordered(heap)
  BY DEF Inv, Typed, Sorted
<1>2. Len(heap) \in Nat /\ ~(i > Len(heap)) /\ i \in Nat
  BY <1>1, HeapTypes
<1>3. /\ heap' = Popped(Swapped(heap, i, Len(heap)))
      /\ then' = next /\ at' = i
      /\ pc' = IF i = Len(heap) THEN next ELSE Direction(heap', i)
  BY <1>2 DEF Remove
<1>4. /\ HeapOK(heap') /\ Len(heap') = Len(heap) - 1
      /\ i = Len(heap) => Ordered(heap')
      /\ i # Len(heap) => /\ i \in 1..Len(heap')
                          /\ Above(heap', i) => Rising(heap', i)
                          /\ ~Above(heap', i) => Sinking(heap', i)
      /\ Timers(heap') = Timers(heap) \ {TimerOf(heap[i])}
      /\ Without(heap[i].fd, heap')
  BY <1>1, <1>3, RemovedHeap
<1>5. CASE i = Len(heap)
  BY <1>2, <1>3, <1>4, <1>5 DEF Sorted, Going, Resting, Places
<1>6. CASE i # Len(heap)
  <2>1. /\ pc' \in {"up", "down"}
        /\ pc' = "up" => Above(heap', i)
        /\ pc' = "down" => ~Above(heap', i)
    BY <1>3, <1>6 DEF Direction
  <2>2. Sorted'
    BY <1>3, <1>4, <1>6, <2>1 DEF Sorted
  <2> QED
    BY <1>2, <1>3, <1>4, <2>1, <2>2 DEF Going, Resting, Places
<1> QED
  BY <1>5, <1>6

(* add_timer adds one timer and leaves a sift to do. *)
LEMMA Addition ==
  ASSUME Inv, pc \notin {"up", "down"}, NEW f \in Fds, Without(f, heap),
         NEW next \in Resting, Add(f, next), HeapAssumption
  PROVE  /\ HeapOK(heap') /\ Sorted' /\ Going' = next
         /\ pc' = "up" /\ then' \in Places /\ at' \in Nat
         /\ Timers(heap') = Timers(heap) \cup {[fd |-> f, time |-> now + Slot]}
<1> DEFINE e == Entry(f, now + Slot, Len(heap) + 1)
<1>1. HeapOK(heap) /\ Ordered(heap) /\ Len(heap) \in Nat /\ now \in Nat
  BY HeapTypes DEF Inv, Typed, Sorted, HeapAssumption
<1>2. /\ e \in Timer /\ e.index = Len(heap) + 1 /\ e.fd = f
      /\ TimerOf(e) = [fd |-> f, time |-> now + Slot]
  BY <1>1 DEF Entry, Timer, HeapAssumption, TimerOf
<1>3. /\ heap' = Append(heap, e)
      /\ at' = Len(heap) + 1 /\ pc' = "up" /\ then' = next
  BY DEF Add
<1> HIDE DEF e
<1>4. /\ HeapOK(heap') /\ Len(heap') = Len(heap) + 1
      /\ Rising(heap', at')
      /\ Timers(heap') = Timers(heap) \cup {TimerOf(e)}
  BY <1>1, <1>2, <1>3, AppendedHeap, RisesFromTheEnd, AppendAddsTimer DEF Without
<1>5. at' \in 1..Len(heap') /\ at' \in Nat
  BY <1>1, <1>3, <1>4
<1> QED
  BY <1>2, <1>3, <1>4, <1>5 DEF Sorted, Going, Resting, Places

(* The timer taken out, as the handlers see it. *)
LEMMA TakenOutIs ==
  ASSUME HeapOK(heap), NEW i \in 1..Len(heap)
  PROVE  /\ TakenOut(i) \in Timer
         /\ TakenOut(i).fd = heap[i].fd
         /\ TakenOut(i).index = Len(heap)
<1>1. Len(heap) \in Nat /\ Len(heap) \in 1..Len(heap) /\ heap[i] \in Timer
  BY HeapTypes
<1>2. CASE i = Len(heap)
  BY <1>1, <1>2 DEF TakenOut, HeapOK
<1>3. CASE i # Len(heap)
  <2> DEFINE g == Swapped(heap, i, Len(heap))
  <2>1. HeapOK(g) /\ Len(g) = Len(heap) /\ g[Len(heap)].fd = heap[i].fd
    BY <1>1, <1>3, SwappedHeap
  <2>2. TakenOut(i) = g[Len(heap)]
    BY <1>3 DEF TakenOut
  <2> HIDE DEF g
  <2>3. g[Len(heap)] \in Timer /\ g[Len(heap)].index = Len(heap)
    BY <1>1, <2>1, HeapTypes DEF HeapOK
  <2> QED
    BY <2>1, <2>2, <2>3
<1> QED
  BY <1>2, <1>3

-----------------------------------------------------------------------------
(* Every action keeps the invariant. *)

LEMMA InitInv == HeapAssumption /\ Init => Inv
<1> SUFFICES ASSUME HeapAssumption, Init PROVE Inv
  OBVIOUS
<1>1. heap \in Seq(Timer) /\ Len(heap) = 0
  BY EmptySeq DEF Init
<1>2. Typed
  BY <1>1 DEF Init, Typed, HeapOK, Entry, Places, Going, Resting, HeapAssumption
<1>3. Sorted
  BY <1>1 DEF Init, Sorted, Ordered
<1> QED
  BY <1>2, <1>3 DEF Inv, Init, Held, Operating, Going

(* A step that leaves the heap alone and begins or goes on with an          *)
(* operation.                                                               *)
LEMMA SameHeapInv ==
  ASSUME Inv, pc \notin {"up", "down"}, heap' = heap, now' \in 0..MaxNow,
         pc' \in Resting, then' \in Places,
         op' \in {"none", "start", "modify", "detect"},
         fd' \in Fds \cup {0}, pos' \in Nat, at' \in Nat, cur' = cur,
         Held', Operating'
  PROVE  Inv'
BY DEF Inv, Typed, Sorted, Going, Resting, Places

LEMMA RemovalInv ==
  ASSUME Inv, pc \notin {"up", "down"}, NEW i \in 1..Len(heap),
         NEW next \in {"fire", "add"}, Remove(i, next), cur' = TakenOut(i),
         now' = now, op' = op, fd' = fd, pos' \in {pos, pos + 1},
         next = "fire" => op = "detect", op \in {"modify", "detect"}
  PROVE  Inv'
<1>1. HeapOK(heap) /\ Len(heap) \in Nat
  BY HeapTypes DEF Inv, Typed
<1>2. /\ HeapOK(heap') /\ Sorted' /\ Going' = next
      /\ pc' \in Places \ {"idle"} /\ then' \in Places /\ at' \in Nat
      /\ Len(heap') = Len(heap) - 1
      /\ Without(heap[i].fd, heap')
  BY Removal DEF Resting
<1>3. cur' \in Timer /\ cur'.fd = heap[i].fd /\ cur'.index = Len(heap)
  BY <1>1, TakenOutIs
<1>6. pos \in Nat /\ pos' \in Nat /\ (op' = "modify" => pos' > 0)
  BY DEF Inv, Typed, Operating
<1>4. Typed'
  BY <1>2, <1>3, <1>6 DEF Inv, Typed, Timer, Resting
<1>5. Held'
  BY <1>1, <1>2, <1>3 DEF Held, Timer
<1> QED
  BY <1>2, <1>4, <1>5, <1>6 DEF Inv, Operating

LEMMA AdditionInv ==
  ASSUME HeapAssumption, Inv, pc \notin {"up", "down"},
         NEW f \in Fds, Without(f, heap),
         NEW next \in {"idle", "scan", "loop"}, Add(f, next),
         now' = now, cur' = cur, fd' \in Fds \cup {0}, pos' = pos,
         op' = CASE next = "idle" -> "start"
                 [] next = "scan" -> "modify"
                 [] next = "loop" -> "detect",
         next = "scan" => pos > 0
  PROVE  Inv'
<1>1. /\ HeapOK(heap') /\ Sorted' /\ Going' = next
      /\ pc' = "up" /\ then' \in Places /\ at' \in Nat
  BY Addition DEF Resting
<1>2. op' \in {"start", "modify", "detect"}
  OBVIOUS
<1>3. Typed'
  BY <1>1, <1>2 DEF Inv, Typed, Resting, Places
<1>4. Held' /\ Operating'
  BY <1>1 DEF Held, Operating
<1> QED
  BY <1>1, <1>3, <1>4 DEF Inv

LEMMA SiftInv ==
  ASSUME Inv, Up \/ Down
  PROVE  Inv'
<1>1. /\ HeapOK(heap') /\ Sorted' /\ Going' = Going
      /\ pc' \in Places /\ at' \in Nat /\ Len(heap') = Len(heap)
      /\ \A f : Without(f, heap) => Without(f, heap')
      /\ pc' = "idle" => then = "idle"
  BY Sift
<1>2. /\ pc \in {"up", "down"} /\ now' = now /\ then' = then /\ cur' = cur
      /\ op' = op /\ fd' = fd /\ pos' = pos
  BY DEF Up, Down, opVars
<1>3. Typed'
  BY <1>1, <1>2 DEF Inv, Typed
<1>4. Held'
  BY <1>1, <1>2 DEF Inv, Held
<1>5. Operating'
  BY <1>1, <1>2 DEF Inv, Operating
<1> QED
  BY <1>1, <1>3, <1>4, <1>5 DEF Inv

(* The top of a heap is in the first place and knows it. *)
LEMMA TopIsFirst ==
  ASSUME HeapOK(heap), heap # <<>>
  PROVE  1 \in 1..Len(heap) /\ heap[1].index = 1
<1>1. heap \in Seq(Timer)
  BY DEF HeapOK
<1>2. Len(heap) \in Nat \ {0}
  BY <1>1, EmptySeq
<1> QED
  BY <1>2 DEF HeapOK

LEMMA NextInv == HeapAssumption /\ Inv /\ [Next]_vars => Inv'
<1> SUFFICES ASSUME HeapAssumption, Inv, [Next]_vars PROVE Inv'
  OBVIOUS
<1>1. HeapOK(heap) /\ Len(heap) \in Nat /\ DOMAIN heap = 1..Len(heap)
  BY HeapTypes DEF Inv, Typed
<1>2. CASE Up \/ Down
  BY <1>2, SiftInv
<1>3. CASE Tick
  <2>1. now' \in 0..MaxNow
    BY <1>3 DEF Tick, Inv, Typed, HeapAssumption
  <2>2. Held' /\ Operating'
    BY <1>3 DEF Tick, Inv, Held, Operating, Going, opVars
  <2> QED
    BY <1>3, <2>1, <2>2, SameHeapInv DEF Tick, opVars, Inv, Typed, Resting
<1>4. CASE Detect
  <2>1. Held' /\ Operating'
    BY <1>4 DEF Detect, Held, Operating, Going
  <2> QED
    BY <1>4, <2>1, SameHeapInv DEF Detect, Inv, Typed, Resting
<1>5. ASSUME NEW f \in Fds, Modify(f) PROVE Inv'
  <2>1. Held' /\ Operating'
    BY <1>5 DEF Modify, Held, Operating, Going
  <2> QED
    BY <1>5, <2>1, SameHeapInv DEF Modify, Inv, Typed, Resting
<1>6. ASSUME NEW f \in Fds, Start(f) PROVE Inv'
  <2>1. Without(f, heap)
    BY <1>1, <1>6 DEF Start, Without
  <2> QED
    BY <1>6, <2>1, AdditionInv DEF Start
<1>7. CASE ScanPast
  <2>1. Held' /\ Operating'
    BY <1>7 DEF ScanPast, Inv, Typed, Held, Operating, Going
  <2> QED
    BY <1>7, <2>1, SameHeapInv DEF ScanPast, Inv, Typed, Resting
<1>8. CASE ScanHit
  <2>1. pos \in 1..Len(heap) /\ pos + 1 \in Nat
    BY <1>1, <1>8 DEF ScanHit, Inv, Typed, Operating, Going
  <2>2. heap[pos].index = pos /\ op = "modify"
    BY <1>1, <1>8, <2>1 DEF ScanHit, HeapOK, Inv, Operating, Going
  <2> QED
    BY <1>8, <2>1, <2>2, RemovalInv DEF ScanHit
<1>9. CASE ScanEnd
  <2>1. Held' /\ Operating'
    BY <1>9 DEF ScanEnd, opVars, Inv, Held, Operating, Going
  <2> QED
    BY <1>9, <2>1, SameHeapInv DEF ScanEnd, opVars, Inv, Typed, Resting
<1>10. CASE AddAgain
  <2>1. /\ cur.fd \in Fds /\ Without(cur.fd, heap) /\ op \in {"modify", "detect"}
        /\ op = "modify" => pos > 0
    BY <1>10 DEF AddAgain, Inv, Held, Operating, Going
  <2> QED
    BY <1>10, <2>1, AdditionInv DEF AddAgain, opVars, Inv, Typed
<1>11. CASE LoopDue \/ LoopPutOff
  <2>1. 1 \in 1..Len(heap) /\ heap[1].index = 1 /\ op = "detect"
    BY <1>1, <1>11, TopIsFirst DEF LoopDue, LoopPutOff, Inv, Operating, Going
  <2> QED
    BY <1>11, <2>1, RemovalInv DEF LoopDue, LoopPutOff, opVars, Inv, Typed
<1>12. CASE Fire
  <2>1. cur.index > Len(heap) /\ op = "detect"
    BY <1>12 DEF Fire, Inv, Held, Operating, Going
  <2>2. heap' = heap /\ pc' = "loop" /\ then' = then /\ at' = at
    BY <1>12, <2>1 DEF Fire, Remove
  <2>3. Held' /\ Operating'
    BY <1>12, <2>1, <2>2 DEF Fire, opVars, Held, Operating, Going
  <2> QED
    BY <1>12, <2>2, <2>3, SameHeapInv DEF Fire, opVars, Inv, Typed, Resting
<1>13. CASE LoopEnd
  <2>1. Held' /\ Operating'
    BY <1>13 DEF LoopEnd, opVars, Inv, Held, Operating, Going
  <2> QED
    BY <1>13, <2>1, SameHeapInv DEF LoopEnd, opVars, Inv, Typed, Resting
<1>14. CASE UNCHANGED vars
  BY <1>14 DEF vars, opVars, Inv, Typed, Sorted, Held, Operating, Going
<1> QED
  BY <1>2, <1>3, <1>4, <1>5, <1>6, <1>7, <1>8, <1>9, <1>10, <1>11, <1>12, <1>13,
     <1>14 DEF Next, Step

LEMMA Invariance == Spec => []Inv
BY HeapAssumption, InitInv, NextInv, PTL DEF Spec

-----------------------------------------------------------------------------
(* The theorems *)

(* The state always has its types, and an index is always one of the heap. *)
THEOREM TypeCorrect == Spec => []TypeOK
<1>1. Inv => TypeOK
  BY HeapTypes DEF Inv, Typed, HeapOK, Timer, TypeOK
<1> QED
  BY <1>1, Invariance, PTL

(* Every timer knows its place (swap_heap, timerHeap.cpp), at every turn of *)
(* every sift, for any number of timers: a removal by index removes the     *)
(* timer that was meant, and the second removal of a timer that ran off     *)
(* (on_timer after detect_timers) finds nobody at its index.                *)
THEOREM TimersKnowTheirPlaces == Spec => []IndexRight
<1>1. Inv => \A i \in DOMAIN heap : heap[i].index = i
  BY HeapTypes DEF Inv, Typed, HeapOK
<1>2. Inv => (pc = "fire" => cur.index > Len(heap))
  BY DEF Inv, Held, Going
<1> QED
  BY <1>1, <1>2, Invariance, PTL DEF IndexRight

(* After every operation no timer is earlier than its parent: one sift, up  *)
(* or down as remove_timer chooses, repairs the heap.                       *)
THEOREM HeapIsOrdered == Spec => []HeapOrdered
<1>1. Inv => HeapOrdered
  <2> SUFFICES ASSUME Inv, pc \notin {"up", "down"}, NEW i \in 2..Len(heap)
               PROVE  ~Above(heap, i)
    BY DEF HeapOrdered
  <2>1. HeapOK(heap) /\ Ordered(heap) /\ i \in 1..Len(heap)
    BY HeapTypes DEF Inv, Typed, Sorted
  <2> QED
    BY <2>1, AboveMeans DEF Ordered
<1> QED
  BY <1>1, Invariance, PTL

-----------------------------------------------------------------------------
(* The heap is the queue of timers TimerQueue promises. *)

(* The timer that was taken out and is not back yet. *)
Pending ==
  IF Going = "add" THEN {[fd |-> cur.fd, time |-> now + Slot]} ELSE {}

LEMMA RunningIs ==
  ASSUME Inv
  PROVE  /\ Running = Timers(heap) \cup Pending
         /\ InDetect <=> pc # "idle" /\ op = "detect"
<1>1. DOMAIN heap = 1..Len(heap)
  BY HeapTypes DEF Inv, Typed
<1>2. {[fd |-> heap[i].fd, time |-> heap[i].time] : i \in DOMAIN heap} = Timers(heap)
  BY <1>1 DEF Timers, TimerOf
<1>3. (pc = "add" \/ (pc \in {"up", "down"} /\ then = "add")) <=> Going = "add"
  BY DEF Going
<1>4. Running = Timers(heap) \cup Pending
  BY <1>2, <1>3 DEF Running, Pending
<1>5. InDetect <=> pc # "idle" /\ op = "detect"
  BY DEF InDetect, Inv, Operating, Going
<1> QED
  BY <1>4, <1>5

(* The same in the next state. *)
LEMMA RunningIsNext ==
  ASSUME Inv'
  PROVE  /\ Running' = Timers(heap') \cup Pending'
         /\ InDetect' <=> pc' # "idle" /\ op' = "detect"
<1>1. DOMAIN heap' = 1..Len(heap')
  BY HeapTypes DEF Inv, Typed
<1>2. {[fd |-> heap'[i].fd, time |-> heap'[i].time] : i \in DOMAIN heap'}
        = Timers(heap')
  BY <1>1 DEF Timers, TimerOf
<1>3. (pc' = "add" \/ (pc' \in {"up", "down"} /\ then' = "add")) <=> Going' = "add"
  BY DEF Going
<1>4. Running' = Timers(heap') \cup Pending'
  BY <1>2, <1>3 DEF Running, Pending
<1>5. InDetect' <=> pc' # "idle" /\ op' = "detect"
  BY DEF InDetect, Inv, Operating, Going
<1> QED
  BY <1>4, <1>5

(* The root's timer is the first. *)
LEMMA RootsTimer ==
  ASSUME Inv, pc = "loop", heap # <<>>
  PROVE  /\ TimerOf(heap[1]) \in Queue!First
         /\ TimerOf(heap[1]).time = heap[1].time
         /\ TimerOf(heap[1]).fd = heap[1].fd
         /\ Running = Timers(heap)
         /\ \A t \in Running : heap[1].time =< t.time
<1>1. HeapOK(heap) /\ Ordered(heap) /\ 1 \in 1..Len(heap)
  BY TopIsFirst DEF Inv, Typed, Sorted
<1>2. Running = Timers(heap)
  BY RunningIs DEF Pending, Going
<1>3. TimerOf(heap[1]).time = heap[1].time /\ TimerOf(heap[1]).fd = heap[1].fd
  BY DEF TimerOf
<1>4. ASSUME NEW t \in Running PROVE heap[1].time =< t.time
  <2>1. PICK i \in 1..Len(heap) : t = TimerOf(heap[i])
    BY <1>2 DEF Timers
  <2>2. t.time = heap[i].time
    BY <2>1 DEF TimerOf
  <2> QED
    BY <1>1, <2>2, RootIsFirst
<1>5. TimerOf(heap[1]) \in Running
  BY <1>1, <1>2 DEF Timers
<1> QED
  BY <1>2, <1>3, <1>4, <1>5 DEF Queue!First

(* An entry of the heap is the only timer of its descriptor. *)
LEMMA OnlyTimer ==
  ASSUME HeapOK(heap), NEW i \in 1..Len(heap), NEW t \in Timers(heap),
         t.fd = heap[i].fd
  PROVE  t = TimerOf(heap[i])
<1>1. PICK k \in 1..Len(heap) : t = TimerOf(heap[k])
  BY DEF Timers
<1>2. t.fd = heap[k].fd
  BY <1>1 DEF TimerOf
<1> QED
  BY <1>1, <1>2 DEF HeapOK

LEMMA SiftIsStutter ==
  ASSUME Inv, Inv', Up \/ Down
  PROVE  UNCHANGED Queue!vars
<1>1. /\ Timers(heap') = Timers(heap) /\ Going' = Going
      /\ pc' = "idle" => then = "idle"
  BY Sift
<1>2. /\ pc \in {"up", "down"} /\ now' = now /\ cur' = cur /\ op' = op
  BY DEF Up, Down, opVars
<1>3. Pending' = Pending
  BY <1>1, <1>2 DEF Pending
<1>4. Running' = Running
  BY <1>1, <1>3, RunningIs, RunningIsNext
<1>5. pc' = "idle" => op = "start"
  BY <1>1, <1>2 DEF Inv, Operating, Going
<1>6. InDetect' = InDetect
  <2>1. InDetect' <=> InDetect
    BY <1>2, <1>5, RunningIs, RunningIsNext
  <2> QED
    BY <2>1 DEF InDetect
<1> QED
  BY <1>2, <1>4, <1>6 DEF Queue!vars

(* modify_timers takes a timer out: it is renewed. *)
LEMMA HitIsRenew ==
  ASSUME Inv, Inv', ScanHit
  PROVE  \E f \in Fds : Queue!Renew(f)
<1> DEFINE e == heap[pos]
           new == [fd |-> e.fd, time |-> now + Slot]
<1>1. /\ HeapOK(heap) /\ pos \in 1..Len(heap) /\ pc = "scan" /\ op = "modify"
  BY HeapTypes DEF ScanHit, Inv, Typed, Operating, Going
<1>2. /\ Renewable(e) /\ e.index = pos /\ e \in Timer
      /\ e.fd = fd /\ e.fd \in Fds
  BY <1>1, HeapTypes DEF ScanHit, HeapOK, Renewable
<1>3. /\ Timers(heap') = Timers(heap) \ {TimerOf(e)} /\ Going' = "add"
  BY <1>1, <1>2, Removal DEF ScanHit, Resting
<1>4. cur'.fd = e.fd /\ now' = now /\ op' = op
  BY <1>1, <1>2, TakenOutIs DEF ScanHit
<1>5. Running = Timers(heap)
  BY <1>1, RunningIs DEF Pending, Going
<1>6. Running' = (Timers(heap) \ {TimerOf(e)}) \cup {new}
  BY <1>3, <1>4, RunningIsNext DEF Pending
<1>7. TimerOf(e) \in Timers(heap)
  BY <1>1 DEF Timers
<1>8. /\ TimerOf(e).fd = e.fd /\ TimerOf(e).time = e.time
      /\ [TimerOf(e) EXCEPT !.time = now + Slot] = new
  BY DEF TimerOf
<1>9. ~InDetect /\ ~InDetect'
  BY <1>1, <1>4, RunningIs, RunningIsNext
<1>10. e.fd = fd /\ e.time >= now /\ e.time - now < Near
  BY <1>2 DEF Renewable
<1> DEFINE new_of(t) ==
             IF t.fd = e.fd /\ t.time >= now /\ t.time - now < Near
               THEN [t EXCEPT !.time = now + Slot] ELSE t
<1>11. \A t \in Timers(heap) \ {TimerOf(e)} : new_of(t) = t
  <2> SUFFICES ASSUME NEW t \in Timers(heap), t # TimerOf(e) PROVE t.fd # e.fd
    OBVIOUS
  <2> QED
    BY <1>1, OnlyTimer
<1>12. new_of(TimerOf(e)) = new
  BY <1>8, <1>10
<1> HIDE DEF new, new_of
<1>13. Running' = {new_of(t) : t \in Running}
  BY <1>5, <1>6, <1>7, <1>11, <1>12
<1>14. Queue!Renew(e.fd)
  <2>1. UNCHANGED <<now, InDetect>>
    BY <1>4, <1>9 DEF InDetect
  <2> QED
    BY <1>9, <1>13, <2>1 DEF Queue!Renew, new_of
<1> QED
  BY <1>2, <1>14

(* detect_timers takes the top out. *)
LEMMA TopTaken ==
  ASSUME Inv, Inv', LoopDue \/ LoopPutOff
  PROVE  /\ heap # <<>> /\ pc = "loop" /\ now' = now
         /\ InDetect /\ InDetect'
         /\ Running' = (Running \ {TimerOf(heap[1])})
                          \cup (IF LoopDue THEN {}
                                 ELSE {[fd |-> heap[1].fd, time |-> now + Slot]})
<1>1. /\ pc = "loop" /\ heap # <<>> /\ op = "detect" /\ op' = op /\ now' = now
      /\ HeapOK(heap)
  BY DEF LoopDue, LoopPutOff, opVars, Inv, Typed, Operating, Going
<1>2. 1 \in 1..Len(heap) /\ heap[1].index = 1
  BY <1>1, TopIsFirst
<1>3. /\ LoopDue => Remove(1, "fire")
      /\ ~LoopDue => Remove(1, "add")
      /\ cur' = TakenOut(1)
  BY <1>2 DEF LoopDue, LoopPutOff
<1>4. Timers(heap') = Timers(heap) \ {TimerOf(heap[1])} /\ pc' # "idle"
  <2>1. CASE Remove(1, "fire")
    BY <1>1, <1>2, <2>1, Removal DEF Resting
  <2>2. CASE Remove(1, "add")
    BY <1>1, <1>2, <2>2, Removal DEF Resting
  <2> QED
    BY <1>3, <2>1, <2>2
<1>5. /\ LoopDue => Going' = "fire"
      /\ ~LoopDue => Going' = "add"
  BY <1>1, <1>2, <1>3, Removal DEF Resting
<1>6. cur'.fd = heap[1].fd
  BY <1>1, <1>2, <1>3, TakenOutIs
<1>7. Running = Timers(heap)
  BY <1>1, RootsTimer
<1>8. Pending' = IF LoopDue THEN {} ELSE {[fd |-> heap[1].fd, time |-> now + Slot]}
  BY <1>1, <1>5, <1>6 DEF Pending
<1>9. InDetect /\ InDetect'
  BY <1>1, <1>4, RunningIs, RunningIsNext
<1> QED
  BY <1>1, <1>4, <1>7, <1>8, <1>9, RunningIsNext

LEMMA DueIsExpire ==
  ASSUME Inv, Inv', LoopDue
  PROVE  Queue!Expire
<1>1. /\ heap # <<>> /\ pc = "loop" /\ now' = now /\ InDetect /\ InDetect'
      /\ Running' = Running \ {TimerOf(heap[1])}
  BY TopTaken
<1>2. /\ TimerOf(heap[1]) \in Queue!First
      /\ TimerOf(heap[1]).time = heap[1].time
  BY <1>1, RootsTimer
<1>3. TimerOf(heap[1]) \in Queue!Due
  BY <1>2 DEF LoopDue, Due, Queue!Due, Queue!First
<1>4. UNCHANGED <<now, InDetect>>
  BY <1>1 DEF InDetect
<1> QED
  BY <1>1, <1>2, <1>3, <1>4 DEF Queue!Expire

LEMMA PutOffIsPutOff ==
  ASSUME Inv, Inv', LoopPutOff
  PROVE  Queue!PutOff
<1> DEFINE t == TimerOf(heap[1])
<1>1. /\ heap # <<>> /\ ~Due(heap[1]) /\ ~LoopDue
  BY DEF LoopPutOff, LoopDue
<1>2. /\ pc = "loop" /\ now' = now /\ InDetect /\ InDetect'
      /\ Running' = (Running \ {t}) \cup {[fd |-> heap[1].fd, time |-> now + Slot]}
  BY <1>1, TopTaken
<1>3. t \in Queue!First /\ \A u \in Running : heap[1].time =< u.time
  BY <1>1, <1>2, RootsTimer
<1>4. [t EXCEPT !.time = now + Slot] = [fd |-> heap[1].fd, time |-> now + Slot]
  BY DEF TimerOf
<1>5. Queue!Due = {}
  <2>1. \A u \in Running : u.time \in Nat
    BY <1>1, <1>2, RootsTimer, HeapTypes DEF Timers, TimerOf, Inv, Typed
  <2>2. heap[1].time \in Nat /\ now \in Nat /\ ~(heap[1].time =< now)
    BY <1>1, TopIsFirst, HeapTypes, HeapAssumption DEF Due, Inv, Typed
  <2> QED
    BY <1>3, <2>1, <2>2 DEF Queue!Due
<1>6. UNCHANGED <<now, InDetect>>
  BY <1>2 DEF InDetect
<1> HIDE DEF t
<1> QED
  BY <1>2, <1>3, <1>4, <1>5, <1>6 DEF Queue!PutOff

LEMMA StartIsStart ==
  ASSUME HeapAssumption, Inv, Inv', NEW f \in Fds, Start(f)
  PROVE  Queue!Start(f)
<1>1. pc = "idle" /\ Without(f, heap) /\ HeapOK(heap)
  BY HeapTypes DEF Start, Inv, Typed, Without
<1>2. /\ Timers(heap') = Timers(heap) \cup {[fd |-> f, time |-> now + Slot]}
      /\ Going' = "idle"
  BY <1>1, Addition DEF Start, Resting
<1>3. Running = Timers(heap) /\ Running' = Timers(heap')
  BY <1>1, <1>2, RunningIs, RunningIsNext DEF Pending, Going
<1>4. \A t \in Running : t.fd # f
  BY <1>1, <1>3 DEF Timers, TimerOf, Without
<1>5. ~InDetect /\ ~InDetect' /\ now' = now
  BY <1>1, RunningIs, RunningIsNext DEF Start
<1>6. UNCHANGED <<now, InDetect>>
  BY <1>5 DEF InDetect
<1> QED
  BY <1>2, <1>3, <1>4, <1>5, <1>6 DEF Queue!Start

(* A step that moves no timer. *)
LEMMA SameRunning ==
  ASSUME Inv, Inv', heap' = heap, cur' = cur, now' = now,
         Going' = "add" <=> Going = "add"
  PROVE  Running' = Running
BY RunningIs, RunningIsNext DEF Pending

(* add_time's second half brings the timer back: nothing to be seen. *)
LEMMA AddAgainIsStutter ==
  ASSUME HeapAssumption, Inv, Inv', AddAgain
  PROVE  UNCHANGED Queue!vars
<1>1. /\ pc = "add" /\ cur.fd \in Fds /\ Without(cur.fd, heap)
      /\ op \in {"modify", "detect"} /\ op' = op /\ now' = now /\ pc' = "up"
  BY DEF AddAgain, Add, opVars, Inv, Held, Operating, Going
<1>2. /\ Timers(heap') = Timers(heap) \cup {[fd |-> cur.fd, time |-> now + Slot]}
      /\ Going' \in {"scan", "loop"}
  <2>1. CASE op = "modify"
    BY <1>1, <2>1, Addition DEF AddAgain, Resting
  <2>2. CASE op # "modify"
    BY <1>1, <2>2, Addition DEF AddAgain, Resting
  <2> QED
    BY <2>1, <2>2
<1>3. Running' = Running
  BY <1>1, <1>2, RunningIs, RunningIsNext DEF Pending, Going
<1>4. InDetect' <=> InDetect
  BY <1>1, RunningIs, RunningIsNext
<1> QED
  BY <1>1, <1>3, <1>4 DEF Queue!vars, InDetect

LEMMA NextIsQueue ==
  ASSUME HeapAssumption, Inv, Inv', [Next]_vars
  PROVE  [Queue!Next]_(Queue!vars)
<1>1. CASE Up \/ Down
  BY <1>1, SiftIsStutter
<1>2. CASE Tick
  <2>1. ~InDetect /\ ~InDetect'
    BY <1>2, RunningIs, RunningIsNext DEF Tick
  <2>2. Running' = Running
    BY <1>2, RunningIs, RunningIsNext DEF Tick, Pending, Going
  <2>3. Queue!Tick
    BY <1>2, <2>1, <2>2 DEF Tick, Queue!Tick, InDetect
  <2> QED
    BY <2>3 DEF Queue!Next
<1>3. CASE Detect
  <2>1. ~InDetect /\ InDetect' /\ now' = now
    BY <1>3, RunningIs, RunningIsNext DEF Detect
  <2>2. Running' = Running
    BY <1>3, SameRunning DEF Detect, Going
  <2>3. Queue!BeginDetect
    BY <2>1, <2>2 DEF Queue!BeginDetect, InDetect
  <2> QED
    BY <2>3 DEF Queue!Next
<1>4. CASE LoopEnd
  <2>1. InDetect /\ ~InDetect' /\ now' = now /\ HeapOK(heap)
    BY <1>4, RunningIs, RunningIsNext
       DEF LoopEnd, Inv, Typed, Operating, Going
  <2>2. Running' = Running
    BY <1>4, SameRunning DEF LoopEnd, Going
  <2>3. Running = {}
    <3>1. heap = <<>> /\ Pending = {}
      BY <1>4 DEF LoopEnd, Pending, Going
    <3>2. Timers(heap) = {}
      BY <3>1 DEF Timers
    <3> QED
      BY <3>1, <3>2, RunningIs
  <2>4. Queue!EndDetect
    BY <2>1, <2>2, <2>3 DEF Queue!EndDetect, InDetect
  <2> QED
    BY <2>4 DEF Queue!Next
<1>5. CASE (\E f \in Fds : Modify(f)) \/ ScanPast \/ ScanEnd \/ UNCHANGED vars
  <2>1. /\ heap' = heap /\ cur' = cur /\ now' = now
        /\ Going' = "add" <=> Going = "add"
    BY <1>5 DEF Modify, ScanPast, ScanEnd, vars, Going
  <2>2. InDetect' <=> InDetect
    BY <1>5, RunningIs, RunningIsNext
       DEF Modify, ScanPast, ScanEnd, vars, opVars, Inv, Operating, Going
  <2> QED
    BY <2>1, <2>2, SameRunning DEF Queue!vars, InDetect
<1>6. CASE Fire
  <2>1. cur.index > Len(heap) /\ op = "detect"
    BY <1>6 DEF Fire, Inv, Held, Operating, Going
  <2>2. heap' = heap /\ pc' = "loop" /\ op' = op /\ now' = now /\ cur' = cur
    BY <1>6, <2>1 DEF Fire, Remove, opVars
  <2>3. Running' = Running
    BY <1>6, <2>2, SameRunning DEF Fire, Going
  <2>4. InDetect' <=> InDetect
    BY <1>6, <2>1, <2>2, RunningIs, RunningIsNext DEF Fire
  <2> QED
    BY <2>2, <2>3, <2>4 DEF Queue!vars, InDetect
<1>7. CASE AddAgain
  BY <1>7, AddAgainIsStutter
<1>8. CASE LoopDue
  BY <1>8, DueIsExpire DEF Queue!Next
<1>9. CASE LoopPutOff
  BY <1>9, PutOffIsPutOff DEF Queue!Next
<1>10. CASE ScanHit
  BY <1>10, HitIsRenew DEF Queue!Next
<1>11. ASSUME NEW f \in Fds, Start(f) PROVE [Queue!Next]_(Queue!vars)
  BY <1>11, StartIsStart DEF Queue!Next
<1> QED
  BY <1>1, <1>2, <1>3, <1>4, <1>5, <1>6, <1>7, <1>8, <1>9, <1>10, <1>11
     DEF Next, Step

(* The heap implements the queue (TimerQueue): however long its sifts, no   *)
(* timer is lost or doubled, timers run off the earliest first and only     *)
(* when they are due, and one is renewed only when it is nearly over.       *)
THEOREM HeapIsQueue == Spec => IsQueue
<1>1. Init => Queue!Init
  <2> SUFFICES ASSUME Init PROVE Queue!Init
    OBVIOUS
  <2>1. Running = {}
    BY DEF Init, Running
  <2>2. InDetect = FALSE
    BY DEF Init, InDetect
  <2> QED
    BY <2>1, <2>2 DEF Init, Queue!Init
<1>2. Inv /\ Inv' /\ [Next]_vars => [Queue!Next]_(Queue!vars)
  BY NextIsQueue, HeapAssumption
<1> QED
  BY <1>1, <1>2, Invariance, PTL DEF Spec, IsQueue, Queue!Spec
=============================================================================
