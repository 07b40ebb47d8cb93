------------------------- MODULE HistoryStoreProofs -------------------------
(***************************************************************************)
(* The undo history of the map editor: for any number of floors, any plans *)
(* and any limit the two stacks of the history store stay within the limit *)
(* and are one line of versions on which undo and redo only move.          *)
(***************************************************************************)
EXTENDS HistoryStore, TLAPS

Histories(P) == [past : Seq(P), future : Seq(P)]

\* What one floor remembers stays within the limit.
Within(h) == Len(h.past) + Len(h.future) <= Limit

-----------------------------------------------------------------------------
(* What the operations do to one history. *)

\* push keeps the versions before the change, but for the oldest when full.
LEMMA PushFacts ==
    ASSUME NEW P, NEW h \in Histories(P), NEW p \in P, Within(h)
    PROVE  LET drop == IF Len(h.past) = Limit THEN 1 ELSE 0 IN
           /\ Push(h, p) \in Histories(P)
           /\ Push(h, p).future = <<>>
           /\ Len(Push(h, p).past) = Len(h.past) + 1 - drop
           /\ Within(Push(h, p))
           /\ \A i \in 1..(Len(h.past) + 1 - drop) : Push(h, p).past[i] = LineAt(h, p, i + drop)
<1> DEFINE grown == Append(h.past, p)
<1>1. h.past \in Seq(P)
  BY DEF Histories
<1>2. Limit \in Nat \ {0} /\ Len(h.past) \in Nat /\ Len(h.future) \in Nat
  BY LimitAssumption DEF Histories
<1>3. grown \in Seq(P) /\ Len(grown) = Len(h.past) + 1
  BY <1>1
<1>4. \A i \in 1..(Len(h.past) + 1) : grown[i] = LineAt(h, p, i)
  <2>1. \A i \in 1..(Len(h.past) + 1) : grown[i] = IF i <= Len(h.past) THEN h.past[i] ELSE p
    BY <1>1
  <2> HIDE DEF grown
  <2> QED
    BY <1>2, <2>1 DEF LineAt
<1>5. Len(h.past) <= Limit
  <2> HIDE DEF grown
  <2>1. Len(h.past) + Len(h.future) <= Limit
    BY DEF Within
  <2>2. \A a, b, c \in Nat : a + b <= c => a <= c
    OBVIOUS
  <2> QED
    BY <1>2, <2>1, <2>2
<1>6. CASE Len(h.past) = Limit
  <2>1. ~(Len(grown) <= Limit) /\ Len(grown) - Limit + 1 = 2
    <3> HIDE DEF grown
    <3> QED
      BY <1>2, <1>3, <1>6
  <2>2. Push(h, p) = [past |-> SubSeq(grown, 2, Len(grown)), future |-> <<>>]
    BY <2>1 DEF Push
  <2>3. /\ SubSeq(grown, 2, Len(grown)) \in Seq(P)
        /\ Len(SubSeq(grown, 2, Len(grown))) = Len(h.past)
        /\ \A i \in 1..Len(h.past) : SubSeq(grown, 2, Len(grown))[i] = grown[i + 1]
    <3> HIDE DEF grown
    <3>1. Len(grown) \in Nat /\ 2 \in 1..(Len(grown) + 1)
      BY <1>2, <1>3
    <3>2. /\ SubSeq(grown, 2, Len(grown)) \in Seq(P)
          /\ Len(SubSeq(grown, 2, Len(grown))) = Len(grown) - 1
          /\ \A i \in 1..(Len(grown) - 1) : SubSeq(grown, 2, Len(grown))[i] = grown[i + 1]
      BY <1>3, <3>1
    <3> QED
      BY <1>2, <1>3, <3>2
  <2>4. \A i \in 1..Len(h.past) : grown[i + 1] = LineAt(h, p, i + 1)
    <3> HIDE DEF grown
    <3>1. \A i \in 1..Len(h.past) : i + 1 \in 1..(Len(h.past) + 1)
      BY <1>2
    <3> QED
      BY <1>4, <3>1
  <2> DEFINE rest == SubSeq(grown, 2, Len(grown))
  <2>5. Push(h, p).past = rest /\ Push(h, p).future = <<>>
    BY <2>2
  <2>6. rest \in Seq(P) /\ Len(rest) = Len(h.past)
    BY <2>3
  <2>7. \A i \in 1..Len(h.past) : rest[i] = LineAt(h, p, i + 1)
    BY <2>3, <2>4
  <2> HIDE DEF rest, grown
  <2>8. Push(h, p) \in Histories(P)
    BY <2>2, <2>6 DEF Histories, rest
  <2>9. Len(Push(h, p).future) = 0
    BY <2>5
  <2> QED
    BY <1>2, <1>6, <2>5, <2>6, <2>7, <2>8, <2>9 DEF Within
<1>7. CASE Len(h.past) # Limit
  <2> HIDE DEF grown
  <2>1. Len(grown) <= Limit
    BY <1>2, <1>3, <1>5, <1>7
  <2>2. Push(h, p) = [past |-> grown, future |-> <<>>]
    BY <2>1 DEF Push, grown
  <2>3. Push(h, p).past = grown /\ Push(h, p).future = <<>>
    BY <2>2
  <2>4. Push(h, p) \in Histories(P)
    BY <1>3, <2>2 DEF Histories
  <2>5. Len(Push(h, p).future) = 0
    BY <2>3
  <2> QED
    BY <1>2, <1>3, <1>4, <1>7, <2>1, <2>3, <2>4, <2>5 DEF Within
<1> QED
  BY <1>6, <1>7

\* undo moves the cursor back and leaves the line alone.
LEMMA UndoneFacts ==
    ASSUME NEW P, NEW h \in Histories(P), NEW p \in P, h.past # <<>>
    PROVE  LET q == h.past[Len(h.past)] IN
           /\ q \in P
           /\ Undone(h, p) \in Histories(P)
           /\ Len(Undone(h, p).past) = Len(h.past) - 1
           /\ Len(Undone(h, p).future) = Len(h.future) + 1
           /\ \A i \in 1..LineSize(h) : LineAt(Undone(h, p), q, i) = LineAt(h, p, i)
<1> DEFINE n == Len(h.past)
           m == Len(h.future)
           past == SubSeq(h.past, 1, n - 1)
           future == <<p>> \o h.future
<1>1. h.past \in Seq(P) /\ h.future \in Seq(P)
  BY DEF Histories
<1>2. n \in Nat /\ n > 0 /\ m \in Nat
  BY <1>1
<1>3. Undone(h, p) = [past |-> past, future |-> future]
  BY DEF Undone
<1>4. past \in Seq(P) /\ Len(past) = n - 1 /\ \A i \in 1..(n - 1) : past[i] = h.past[i]
  BY <1>1
<1>5. future \in Seq(P) /\ Len(future) = m + 1
  BY <1>1
<1>6. future[1] = p /\ \A i \in 2..(m + 1) : future[i] = h.future[i - 1]
  BY <1>1
<1>7. h.past[n] \in P
  BY <1>1, <1>2
<1>8. \A i \in Int : LineAt(h, p, i)
         = IF i <= n THEN h.past[i] ELSE IF i = n + 1 THEN p ELSE h.future[i - n - 1]
  BY DEF LineAt
<1>9. \A i \in Int : LineAt(Undone(h, p), h.past[n], i)
         = IF i <= n - 1 THEN past[i] ELSE IF i = n THEN h.past[n] ELSE future[i - n]
  <2> HIDE DEF n, past, future
  <2>1. \A i \in Int : LineAt(Undone(h, p), h.past[n], i)
           = IF i <= n - 1 THEN past[i] ELSE IF i = n - 1 + 1 THEN h.past[n] ELSE future[i - (n - 1) - 1]
    BY <1>3, <1>4 DEF LineAt
  <2>2. n - 1 + 1 = n /\ \A i \in Int : i - (n - 1) - 1 = i - n
    BY <1>2
  <2> QED
    BY <2>1, <2>2
<1>10. LineSize(h) = n + 1 + m
  BY DEF LineSize
<1>11. Undone(h, p) \in Histories(P)
  BY <1>3, <1>4, <1>5 DEF Histories
<1>12. Len(Undone(h, p).past) = n - 1 /\ Len(Undone(h, p).future) = m + 1
  BY <1>3, <1>4, <1>5
<1> HIDE DEF n, m, past, future
<1>13. ASSUME NEW i \in 1..LineSize(h) PROVE LineAt(Undone(h, p), h.past[n], i) = LineAt(h, p, i)
  <2>1. i \in Int /\ i >= 1 /\ i <= n + 1 + m
    BY <1>2, <1>10
  <2>2. CASE i <= n - 1
    BY <1>2, <1>4, <1>8, <1>9, <2>1, <2>2
  <2>3. CASE i = n
    BY <1>2, <1>8, <1>9, <2>1, <2>3
  <2>4. CASE i = n + 1
    BY <1>2, <1>6, <1>8, <1>9, <2>1, <2>4
  <2>5. CASE i > n + 1
    <3>1. i - n \in 2..(m + 1) /\ (i - n) - 1 = i - n - 1
      BY <1>2, <2>1, <2>5
    <3> QED
      BY <1>2, <1>6, <1>8, <1>9, <2>1, <2>5, <3>1
  <2> QED
    BY <1>2, <2>1, <2>2, <2>3, <2>4, <2>5
<1> QED
  BY <1>7, <1>11, <1>12, <1>13 DEF n, m

\* redo moves it forward again.
LEMMA RedoneFacts ==
    ASSUME NEW P, NEW h \in Histories(P), NEW p \in P, h.future # <<>>
    PROVE  LET q == Head(h.future) IN
           /\ q \in P
           /\ Redone(h, p) \in Histories(P)
           /\ Len(Redone(h, p).past) = Len(h.past) + 1
           /\ Len(Redone(h, p).future) = Len(h.future) - 1
           /\ \A i \in 1..LineSize(h) : LineAt(Redone(h, p), q, i) = LineAt(h, p, i)
<1> DEFINE n == Len(h.past)
           m == Len(h.future)
           past == Append(h.past, p)
           future == Tail(h.future)
           q == Head(h.future)
<1>1. h.past \in Seq(P) /\ h.future \in Seq(P)
  BY DEF Histories
<1>2. n \in Nat /\ m \in Nat /\ m > 0
  BY <1>1
<1>3. Redone(h, p) = [past |-> past, future |-> future]
  BY DEF Redone
<1>4. past \in Seq(P) /\ Len(past) = n + 1
  BY <1>1
<1>5. past[n + 1] = p /\ \A i \in 1..n : past[i] = h.past[i]
  BY <1>1
<1>6. future \in Seq(P) /\ Len(future) = m - 1 /\ \A i \in 1..(m - 1) : future[i] = h.future[i + 1]
  BY <1>1, <1>2
<1>7. q = h.future[1] /\ q \in P
  BY <1>1, <1>2
<1>8. \A i \in Int : LineAt(h, p, i)
         = IF i <= n THEN h.past[i] ELSE IF i = n + 1 THEN p ELSE h.future[i - n - 1]
  BY DEF LineAt
<1>9. \A i \in Int : LineAt(Redone(h, p), q, i)
         = IF i <= n + 1 THEN past[i] ELSE IF i = n + 2 THEN q ELSE future[i - n - 2]
  <2> HIDE DEF n, past, future, q
  <2>1. \A i \in Int : LineAt(Redone(h, p), q, i)
           = IF i <= n + 1 THEN past[i] ELSE IF i = n + 1 + 1 THEN q ELSE future[i - (n + 1) - 1]
    BY <1>3, <1>4 DEF LineAt
  <2>2. n + 1 + 1 = n + 2 /\ \A i \in Int : i - (n + 1) - 1 = i - n - 2
    BY <1>2
  <2> QED
    BY <2>1, <2>2
<1>10. LineSize(h) = n + 1 + m
  BY DEF LineSize
<1>11. Redone(h, p) \in Histories(P)
  BY <1>3, <1>4, <1>6 DEF Histories
<1>12. Len(Redone(h, p).past) = n + 1 /\ Len(Redone(h, p).future) = m - 1
  BY <1>3, <1>4, <1>6
<1> HIDE DEF n, m, past, future, q
<1>13. ASSUME NEW i \in 1..LineSize(h) PROVE LineAt(Redone(h, p), q, i) = LineAt(h, p, i)
  <2>1. i \in Int /\ i >= 1 /\ i <= n + 1 + m
    BY <1>2, <1>10
  <2>2. CASE i <= n
    BY <1>2, <1>5, <1>8, <1>9, <2>1, <2>2
  <2>3. CASE i = n + 1
    BY <1>2, <1>5, <1>8, <1>9, <2>1, <2>3
  <2>4. CASE i = n + 2
    <3>1. i - n - 1 = 1
      BY <1>2, <2>4
    <3> QED
      BY <1>2, <1>7, <1>8, <1>9, <2>1, <2>4, <3>1
  <2>5. CASE i > n + 2
    <3>1. i - n - 2 \in 1..(m - 1) /\ (i - n - 2) + 1 = i - n - 1
      BY <1>2, <2>1, <2>5
    <3>2. future[i - n - 2] = h.future[i - n - 1]
      BY <1>6, <3>1
    <3>3. LineAt(Redone(h, p), q, i) = future[i - n - 2]
      BY <1>2, <1>9, <2>1, <2>5
    <3>4. LineAt(h, p, i) = h.future[i - n - 1]
      BY <1>2, <1>8, <2>1, <2>5
    <3> QED
      BY <3>2, <3>3, <3>4
  <2> QED
    BY <1>2, <2>1, <2>2, <2>3, <2>4, <2>5
<1> QED
  BY <1>7, <1>11, <1>12, <1>13 DEF n, m, q
-----------------------------------------------------------------------------
(* The invariant, for plans of any kind P: type correctness needs the      *)
(* bound, for push slices by it.                                           *)

StoreInv(P) ==
    /\ plans \in [Floors -> P] /\ hist \in [Floors -> Histories(P)]
    /\ \A f \in Floors : Within(hist[f])

\* The line when no floor but one gets another history or plan.
LEMMA FloorChanged ==
    ASSUME NEW f \in Floors,
           \A g \in Floors \ {f} : hist'[g] = hist[g] /\ plans'[g] = plans[g]
    PROVE  /\ Versions' = [Versions EXCEPT ![f] = LineOf(hist'[f], plans'[f])]
           /\ Sizes' = [Sizes EXCEPT ![f] = LineSize(hist'[f])]
           /\ Cursors' = [Cursors EXCEPT ![f] = Len(hist'[f].past) + 1]
<1>1. Versions' = [Versions EXCEPT ![f] = LineOf(hist'[f], plans'[f])]
  <2>1. Versions' = [g \in Floors |-> LineOf(hist'[g], plans'[g])]
    BY DEF Versions, LineOf, LineAt, LineSize
  <2> QED
    BY <2>1 DEF Versions
<1>2. Sizes' = [Sizes EXCEPT ![f] = LineSize(hist'[f])]
  <2>1. Sizes' = [g \in Floors |-> LineSize(hist'[g])]
    BY DEF Sizes, LineSize
  <2> QED
    BY <2>1 DEF Sizes
<1>3. Cursors' = [Cursors EXCEPT ![f] = Len(hist'[f].past) + 1]
  <2> DEFINE C(g) == Len(hist[g].past) + 1
             D(g) == Len(hist'[g].past) + 1
  <2>1. Cursors = [g \in Floors |-> C(g)] /\ Cursors' = [g \in Floors |-> D(g)]
    BY DEF Cursors
  <2>2. \A g \in Floors : D(g) = IF g = f THEN D(f) ELSE C(g)
    OBVIOUS
  <2> HIDE DEF C, D
  <2>3. Cursors' = [Cursors EXCEPT ![f] = D(f)]
    BY <2>1, <2>2
  <2> QED
    BY <2>3 DEF D
<1> QED
  BY <1>1, <1>2, <1>3

-----------------------------------------------------------------------------
(* Each operation is a step of the line. *)

\* What a floor's entries of the line are.
LEMMA LineFacts ==
    ASSUME NEW P, StoreInv(P), NEW f \in Floors
    PROVE  /\ hist[f] \in Histories(P) /\ plans[f] \in P /\ Within(hist[f])
           /\ Len(hist[f].past) \in Nat /\ Len(hist[f].future) \in Nat
           /\ Versions[f] = LineOf(hist[f], plans[f])
           /\ Sizes[f] = LineSize(hist[f])
           /\ Cursors[f] = Len(hist[f].past) + 1
<1>1. hist[f] \in Histories(P) /\ plans[f] \in P /\ Within(hist[f])
  BY DEF StoreInv
<1>2. Len(hist[f].past) \in Nat /\ Len(hist[f].future) \in Nat
  BY <1>1 DEF Histories
<1> QED
  BY <1>1, <1>2 DEF Versions, Sizes, Cursors

\* A push, with whatever plan then, is an edit of the line.
LEMMA PushRecords ==
    ASSUME NEW P, StoreInv(P), NEW f \in Floors, NEW p \in P,
           hist' = [hist EXCEPT ![f] = Push(@, plans[f])], plans' = [plans EXCEPT ![f] = p]
    PROVE  StoreInv(P)' /\ Timeline!Next
<1> DEFINE h == hist[f]
           c == plans[f]
           H == Push(h, c)
           n == Len(h.past)
           drop == IF n = Limit THEN 1 ELSE 0
<1>1. h \in Histories(P) /\ c \in P /\ Within(h) /\ n \in Nat /\ Len(h.future) \in Nat
  BY LineFacts
<1>2. /\ H \in Histories(P) /\ H.future = <<>> /\ Len(H.past) = n + 1 - drop /\ Within(H)
      /\ \A i \in 1..(n + 1 - drop) : H.past[i] = LineAt(h, c, i + drop)
  BY <1>1, PushFacts
<1>3. hist' = [hist EXCEPT ![f] = H]
  BY DEF StoreInv
<1> HIDE DEF H
<1>4. /\ StoreInv(P)'
      /\ Versions' = [Versions EXCEPT ![f] = LineOf(H, p)]
      /\ Sizes' = [Sizes EXCEPT ![f] = LineSize(H)]
      /\ Cursors' = [Cursors EXCEPT ![f] = Len(H.past) + 1]
  <2>1. H \in Histories(P) /\ Within(H) /\ p \in P
    BY <1>2
  <2>2. /\ StoreInv(P)' /\ hist'[f] = H /\ plans'[f] = p
        /\ \A g \in Floors \ {f} : hist'[g] = hist[g] /\ plans'[g] = plans[g]
    BY ONLY <1>3, <2>1, StoreInv(P), f \in Floors, plans' = [plans EXCEPT ![f] = p] DEF StoreInv
  <2> QED
    BY ONLY <2>2, f \in Floors, FloorChanged
<1>5. Versions[f] = LineOf(h, c) /\ Sizes[f] = LineSize(h) /\ Cursors[f] = n + 1
  BY LineFacts
<1>6. drop \in {0, 1} /\ drop = IF Cursors[f] = Limit + 1 THEN 1 ELSE 0
  BY <1>1, <1>5, LimitAssumption
<1>7. LineSize(H) = n + 2 - drop
  <2>1. Len(H.future) = 0
    BY <1>2
  <2> HIDE DEF h, c, n, drop
  <2> QED
    BY <1>1, <1>2, <1>6, <2>1 DEF LineSize
<1>8. LineSize(h) = n + 1 + Len(h.future)
  BY DEF LineSize
<1> HIDE DEF h, c, n, drop
<1>9. \A i \in 1..(n + 1 - drop) : LineOf(H, p)[i] = LineOf(h, c)[i + drop]
  <2>1. ASSUME NEW i \in 1..(n + 1 - drop) PROVE LineOf(H, p)[i] = LineOf(h, c)[i + drop]
    <3>0. Len(H.past) = n + 1 - drop /\ n \in Nat /\ Len(h.future) \in Nat /\ drop \in {0, 1}
      BY <1>1, <1>2, <1>6
    <3>1. i \in 1..LineSize(H) /\ i <= Len(H.past) /\ i + drop \in 1..LineSize(h)
      <4>1. \A a, b \in Nat, d \in {0, 1} : \A j \in 1..(a + 1 - d) :
              j \in 1..(a + 2 - d) /\ j <= a + 1 - d /\ j + d \in 1..(a + 1 + b)
        OBVIOUS
      <4>2. i \in 1..(n + 2 - drop) /\ i <= n + 1 - drop /\ i + drop \in 1..(n + 1 + Len(h.future))
        BY <3>0, <4>1
      <4> QED
        BY <3>0, <4>2, <1>7, <1>8
    <3>2. LineOf(H, p)[i] = H.past[i]
      BY <3>1 DEF LineOf, LineAt
    <3>3. LineOf(h, c)[i + drop] = LineAt(h, c, i + drop)
      BY <3>1 DEF LineOf
    <3> QED
      BY <1>2, <3>2, <3>3
  <2> QED
    BY <2>1
<1>10. DOMAIN LineOf(H, p) = 1..(n + 2 - drop)
  BY <1>7 DEF LineOf
<1>11. Versions'[f] = LineOf(H, p) /\ \A g \in Floors \ {f} : Versions'[g] = Versions[g]
  BY <1>4 DEF Versions
<1>12. /\ n + 1 + 1 - drop = n + 2 - drop
       /\ (n + 1 - drop) + 1 = n + 2 - drop
  BY <1>1, <1>6
<1>13. Timeline!Record(f)
  <2>1. Cursors' = [Cursors EXCEPT ![f] = Cursors[f] + 1 - drop]
    BY <1>2, <1>4, <1>5, <1>12
  <2>2. Sizes' = [Sizes EXCEPT ![f] = Cursors[f] + 1 - drop]
    BY <1>4, <1>5, <1>7, <1>12
  <2>3. DOMAIN Versions'[f] = 1..(Cursors[f] + 1 - drop)
    BY <1>5, <1>10, <1>11, <1>12
  <2>4. \A i \in 1..(Cursors[f] - drop) : Versions'[f][i] = Versions[f][i + drop]
    <3>0. Cursors[f] = n + 1
      BY <1>5
    <3>1. Cursors[f] - drop = n + 1 - drop
      BY <1>1, <1>6, <3>0
    <3>2. ASSUME NEW i \in 1..(Cursors[f] - drop) PROVE Versions'[f][i] = Versions[f][i + drop]
      <4>1. i \in 1..(n + 1 - drop)
        BY <3>1
      <4>2. LineOf(H, p)[i] = LineOf(h, c)[i + drop]
        BY <4>1, <1>9
      <4> QED
        BY <4>2, <1>5, <1>11
    <3> QED
      BY <3>2
  <2> QED
    BY <1>6, <2>1, <2>2, <2>3, <2>4 DEF Timeline!Record
<1>14. Timeline!OthersKept(f)
  BY <1>11 DEF Timeline!OthersKept
<1> QED
  BY <1>4, <1>13, <1>14 DEF Timeline!Next

\* A step in which a floor's line stays and the cursor moves by one.
LEMMA UndoMoves ==
    ASSUME NEW P, StoreInv(P), NEW f \in Floors, UndoStep(f)
    PROVE  StoreInv(P)' /\ Timeline!Next
<1> DEFINE h == hist[f]
           c == plans[f]
           H == Undone(h, c)
           q == h.past[Len(h.past)]
<1>1. /\ h \in Histories(P) /\ c \in P /\ Within(h) /\ h.past # <<>>
      /\ Len(h.past) \in Nat /\ Len(h.future) \in Nat
  BY LineFacts DEF UndoStep, CanUndo
<1>2. /\ q \in P /\ H \in Histories(P)
      /\ Len(H.past) = Len(h.past) - 1 /\ Len(H.future) = Len(h.future) + 1
      /\ \A i \in 1..LineSize(h) : LineAt(H, q, i) = LineAt(h, c, i)
  BY <1>1, UndoneFacts
<1>3. hist' = [hist EXCEPT ![f] = H] /\ plans' = [plans EXCEPT ![f] = q]
  BY DEF StoreInv, UndoStep
<1>4. Len(h.past) > 0
  BY <1>1 DEF Histories
<1> HIDE DEF h, c, H, q
<1>5. LineSize(H) = LineSize(h) /\ Within(H)
  <2>1. Len(h.past) + Len(h.future) <= Limit
    BY <1>1 DEF Within
  <2>2. /\ Len(H.past) + 1 + Len(H.future) = Len(h.past) + 1 + Len(h.future)
        /\ Len(H.past) + Len(H.future) = Len(h.past) + Len(h.future)
    <3>1. \A a, b \in Nat : (a - 1) + 1 + (b + 1) = a + 1 + b /\ (a - 1) + (b + 1) = a + b
      OBVIOUS
    <3> QED
      BY <1>1, <1>2, <3>1
  <2> QED
    BY <2>1, <2>2 DEF LineSize, Within
<1>6. LineOf(H, q) = LineOf(h, c)
  BY <1>2, <1>5 DEF LineOf
<1>7. /\ StoreInv(P)'
      /\ Versions' = [Versions EXCEPT ![f] = LineOf(H, q)]
      /\ Sizes' = [Sizes EXCEPT ![f] = LineSize(H)]
      /\ Cursors' = [Cursors EXCEPT ![f] = Len(H.past) + 1]
  <2>1. H \in Histories(P) /\ Within(H) /\ q \in P
    BY <1>2, <1>5
  <2>2. /\ StoreInv(P)' /\ hist'[f] = H /\ plans'[f] = q
        /\ \A g \in Floors \ {f} : hist'[g] = hist[g] /\ plans'[g] = plans[g]
    BY ONLY <1>3, <2>1, StoreInv(P), f \in Floors DEF StoreInv
  <2> QED
    BY ONLY <2>2, f \in Floors, FloorChanged
<1>8. Versions[f] = LineOf(h, c) /\ Sizes[f] = LineSize(h) /\ Cursors[f] = Len(h.past) + 1
  BY LineFacts DEF h, c
<1>9. Versions' = Versions /\ Sizes' = Sizes
  BY <1>5, <1>6, <1>7, <1>8 DEF Versions, Sizes
<1>10. Cursors[f] > 1 /\ Cursors' = [Cursors EXCEPT ![f] = Cursors[f] - 1]
  <2>1. \A a \in Nat : a > 0 => a + 1 > 1 /\ (a - 1) + 1 = (a + 1) - 1
    OBVIOUS
  <2> QED
    BY <1>1, <1>2, <1>4, <1>7, <1>8, <2>1
<1>11. Timeline!Undo(f)
  BY <1>9, <1>10 DEF Timeline!Undo
<1>12. Timeline!OthersKept(f)
  BY <1>9 DEF Timeline!OthersKept
<1> QED
  BY <1>7, <1>11, <1>12 DEF Timeline!Next

LEMMA RedoMoves ==
    ASSUME NEW P, StoreInv(P), NEW f \in Floors, RedoStep(f)
    PROVE  StoreInv(P)' /\ Timeline!Next
<1> DEFINE h == hist[f]
           c == plans[f]
           H == Redone(h, c)
           q == Head(h.future)
<1>1. /\ h \in Histories(P) /\ c \in P /\ Within(h) /\ h.future # <<>>
      /\ Len(h.past) \in Nat /\ Len(h.future) \in Nat
  BY LineFacts DEF RedoStep, CanRedo
<1>2. /\ q \in P /\ H \in Histories(P)
      /\ Len(H.past) = Len(h.past) + 1 /\ Len(H.future) = Len(h.future) - 1
      /\ \A i \in 1..LineSize(h) : LineAt(H, q, i) = LineAt(h, c, i)
  BY <1>1, RedoneFacts
<1>3. hist' = [hist EXCEPT ![f] = H] /\ plans' = [plans EXCEPT ![f] = q]
  BY DEF StoreInv, RedoStep
<1>4. Len(h.future) > 0
  BY <1>1 DEF Histories
<1> HIDE DEF h, c, H, q
<1>5. LineSize(H) = LineSize(h) /\ Within(H)
  <2>1. Len(h.past) + Len(h.future) <= Limit
    BY <1>1 DEF Within
  <2>2. /\ Len(H.past) + 1 + Len(H.future) = Len(h.past) + 1 + Len(h.future)
        /\ Len(H.past) + Len(H.future) = Len(h.past) + Len(h.future)
    <3>1. \A a, b \in Nat : (a + 1) + 1 + (b - 1) = a + 1 + b /\ (a + 1) + (b - 1) = a + b
      OBVIOUS
    <3> QED
      BY <1>1, <1>2, <3>1
  <2> QED
    BY <2>1, <2>2 DEF LineSize, Within
<1>6. LineOf(H, q) = LineOf(h, c)
  BY <1>2, <1>5 DEF LineOf
<1>7. /\ StoreInv(P)'
      /\ Versions' = [Versions EXCEPT ![f] = LineOf(H, q)]
      /\ Sizes' = [Sizes EXCEPT ![f] = LineSize(H)]
      /\ Cursors' = [Cursors EXCEPT ![f] = Len(H.past) + 1]
  <2>1. H \in Histories(P) /\ Within(H) /\ q \in P
    BY <1>2, <1>5
  <2>2. /\ StoreInv(P)' /\ hist'[f] = H /\ plans'[f] = q
        /\ \A g \in Floors \ {f} : hist'[g] = hist[g] /\ plans'[g] = plans[g]
    BY ONLY <1>3, <2>1, StoreInv(P), f \in Floors DEF StoreInv
  <2> QED
    BY ONLY <2>2, f \in Floors, FloorChanged
<1>8. Versions[f] = LineOf(h, c) /\ Sizes[f] = LineSize(h) /\ Cursors[f] = Len(h.past) + 1
  BY LineFacts DEF h, c
<1>9. Versions' = Versions /\ Sizes' = Sizes
  BY <1>5, <1>6, <1>7, <1>8 DEF Versions, Sizes
<1>10. Cursors[f] < Sizes[f] /\ Cursors' = [Cursors EXCEPT ![f] = Cursors[f] + 1]
  <2>1. \A a, b \in Nat : b > 0 => a + 1 < a + 1 + b
    OBVIOUS
  <2>2. LineSize(h) = Len(h.past) + 1 + Len(h.future)
    BY DEF LineSize
  <2> QED
    BY <1>1, <1>2, <1>4, <1>7, <1>8, <2>1, <2>2
<1>11. Timeline!Redo(f)
  BY <1>9, <1>10 DEF Timeline!Redo
<1>12. Timeline!OthersKept(f)
  BY <1>9 DEF Timeline!OthersKept
<1> QED
  BY <1>7, <1>11, <1>12 DEF Timeline!Next

\* A gesture rewrites the plan at the cursor and nothing else.
LEMMA GestureRevises ==
    ASSUME NEW P, StoreInv(P), NEW f \in Floors, NEW p \in P, Revise(f, p)
    PROVE  StoreInv(P)' /\ Timeline!Next
<1> DEFINE h == hist[f]
           c == plans[f]
<1>1. h \in Histories(P) /\ Within(h) /\ Len(h.past) \in Nat /\ Len(h.future) \in Nat
  BY LineFacts
<1>2. hist' = [hist EXCEPT ![f] = h] /\ plans' = [plans EXCEPT ![f] = p]
  BY DEF StoreInv, Revise
<1> HIDE DEF h, c
<1>3. /\ StoreInv(P)'
      /\ Versions' = [Versions EXCEPT ![f] = LineOf(h, p)]
      /\ Sizes' = [Sizes EXCEPT ![f] = LineSize(h)]
      /\ Cursors' = [Cursors EXCEPT ![f] = Len(h.past) + 1]
  <2>1. /\ StoreInv(P)' /\ hist'[f] = h /\ plans'[f] = p
        /\ \A g \in Floors \ {f} : hist'[g] = hist[g] /\ plans'[g] = plans[g]
    BY <1>1, <1>2 DEF StoreInv
  <2> QED
    BY ONLY <2>1, f \in Floors, FloorChanged
<1>4. Versions[f] = LineOf(h, c) /\ Sizes[f] = LineSize(h) /\ Cursors[f] = Len(h.past) + 1
  BY LineFacts DEF h, c
<1>5. Sizes' = Sizes /\ Cursors' = Cursors
  BY <1>3, <1>4 DEF Sizes, Cursors
<1>6. Versions'[f] = LineOf(h, p) /\ \A g \in Floors \ {f} : Versions'[g] = Versions[g]
  BY <1>3 DEF Versions
<1>7. \A i \in 1..LineSize(h) : i # Len(h.past) + 1 => LineOf(h, p)[i] = LineOf(h, c)[i]
  BY DEF LineOf, LineAt
<1>8. DOMAIN LineOf(h, p) = 1..LineSize(h)
  BY DEF LineOf
<1>9. Timeline!Revise(f)
  BY <1>4, <1>5, <1>6, <1>7, <1>8 DEF Timeline!Revise
<1>10. Timeline!OthersKept(f)
  BY <1>6 DEF Timeline!OthersKept
<1> QED
  BY <1>3, <1>9, <1>10 DEF Timeline!Next

\* An import starts the floor's line anew.
LEMMA ImportRestarts ==
    ASSUME NEW P, StoreInv(P), NEW f \in Floors, NEW p \in P, TakeOver(f, p)
    PROVE  StoreInv(P)' /\ Timeline!Next
<1>1. EmptyHistory \in Histories(P) /\ Len(EmptyHistory.past) = 0 /\ Len(EmptyHistory.future) = 0
  BY DEF EmptyHistory, Histories
<1>2. Within(EmptyHistory) /\ LineSize(EmptyHistory) = 1
  BY <1>1, LimitAssumption DEF Within, LineSize
<1>3. /\ StoreInv(P)'
      /\ Versions' = [Versions EXCEPT ![f] = LineOf(EmptyHistory, p)]
      /\ Sizes' = [Sizes EXCEPT ![f] = LineSize(EmptyHistory)]
      /\ Cursors' = [Cursors EXCEPT ![f] = Len(EmptyHistory.past) + 1]
  <2>1. /\ StoreInv(P)' /\ hist'[f] = EmptyHistory /\ plans'[f] = p
        /\ \A g \in Floors \ {f} : hist'[g] = hist[g] /\ plans'[g] = plans[g]
    BY <1>1, <1>2 DEF StoreInv, TakeOver
  <2> QED
    BY ONLY <2>1, f \in Floors, FloorChanged
<1>4. Sizes' = [Sizes EXCEPT ![f] = 1] /\ Cursors' = [Cursors EXCEPT ![f] = 1]
  BY <1>1, <1>2, <1>3
<1>5. /\ Versions'[f] = LineOf(EmptyHistory, p)
      /\ \A g \in Floors \ {f} : Versions'[g] = Versions[g]
  BY <1>3 DEF Versions
<1>6. DOMAIN Versions'[f] = 1..1
  BY <1>2, <1>5 DEF LineOf
<1>7. Timeline!Restart(f)
  BY <1>4, <1>6 DEF Timeline!Restart
<1>8. Timeline!OthersKept(f)
  BY <1>5 DEF Timeline!OthersKept
<1> QED
  BY <1>3, <1>7, <1>8 DEF Timeline!Next

-----------------------------------------------------------------------------
LEMMA InitOfLine ==
    ASSUME NEW P, plans \in [Floors -> P], hist = [f \in Floors |-> EmptyHistory]
    PROVE  StoreInv(P) /\ Timeline!Init
<1>1. EmptyHistory \in Histories(P) /\ Len(EmptyHistory.past) = 0 /\ Len(EmptyHistory.future) = 0
  BY DEF EmptyHistory, Histories
<1>2. Within(EmptyHistory) /\ LineSize(EmptyHistory) = 1
  BY <1>1, LimitAssumption DEF Within, LineSize
<1>3. \A f \in Floors : hist[f] = EmptyHistory
  OBVIOUS
<1>4. StoreInv(P)
  BY <1>1, <1>2, <1>3 DEF StoreInv
<1>5. Sizes = [f \in Floors |-> 1] /\ Cursors = [f \in Floors |-> 1]
  BY <1>1, <1>2, <1>3 DEF Sizes, Cursors
<1>6. \A f \in Floors : DOMAIN Versions[f] = 1..1
  BY <1>2, <1>3 DEF Versions, LineOf
<1> QED
  BY <1>4, <1>5, <1>6 DEF Timeline!Init

\* What the operations of the store do, for plans of any kind P.
StoreMove(P) ==
    \E f \in Floors :
        \/ \E p \in P : Commit(f, p) \/ Revise(f, p) \/ TakeOver(f, p)
        \/ BeginGesture(f)
        \/ UndoStep(f)
        \/ RedoStep(f)

LEMMA MoveOfLine ==
    ASSUME NEW P, StoreInv(P), StoreMove(P)
    PROVE  StoreInv(P)' /\ Timeline!Next
<1>1. ASSUME NEW f \in Floors, NEW p \in P, Commit(f, p) PROVE StoreInv(P)' /\ Timeline!Next
  BY <1>1, PushRecords DEF Commit
<1>2. ASSUME NEW f \in Floors, BeginGesture(f) PROVE StoreInv(P)' /\ Timeline!Next
  <2>1. plans[f] \in P /\ plans' = [plans EXCEPT ![f] = plans[f]]
    BY <1>2 DEF StoreInv, BeginGesture
  <2> QED
    BY <1>2, <2>1, PushRecords DEF BeginGesture
<1> QED
  BY <1>1, <1>2, GestureRevises, UndoMoves, RedoMoves, ImportRestarts DEF StoreMove

LEMMA LineAtRest ==
    ASSUME UNCHANGED storeVars
    PROVE  UNCHANGED Timeline!timeline /\ \A P : StoreInv(P) => StoreInv(P)'
<1>1. UNCHANGED <<Versions, Sizes, Cursors>>
  BY DEF storeVars, Versions, Sizes, Cursors, LineOf, LineAt, LineSize
<1>2. \A P : StoreInv(P) => StoreInv(P)'
  BY DEF storeVars, StoreInv
<1> QED
  BY <1>1, <1>2 DEF Timeline!timeline

LEMMA StoreStarts == StoreInit => StoreInv(Plan) /\ Timeline!Init
  BY InitOfLine DEF StoreInit

LEMMA StoreSteps ==
    StoreInv(Plan) /\ [StoreNext]_storeVars
        => StoreInv(Plan)' /\ [Timeline!Next]_(Timeline!timeline)
  BY MoveOfLine, LineAtRest DEF StoreNext, StoreMove

-----------------------------------------------------------------------------
(* Every plan and every remembered version is a plan of its floor: the     *)
(* store of historyStore.ts holds what mapStore.ts gave it.                *)
THEOREM StoreTypeCorrect == StoreSpec => []StoreTypeOK
<1>1. StoreInv(Plan) => StoreTypeOK
  BY DEF StoreInv, Histories, StoreTypeOK
<1> QED
  BY <1>1, StoreStarts, StoreSteps, PTL DEF StoreSpec

(* Whatever is edited, dragged, undone, redone and imported, no floor      *)
(* remembers more versions than the limit of historyStore.ts.              *)
THEOREM HistoryStaysBounded == StoreSpec => []HistoryBounded
<1>1. StoreInv(Plan) => HistoryBounded
  BY DEF StoreInv, Within, HistoryBounded
<1> QED
  BY <1>1, StoreStarts, StoreSteps, PTL DEF StoreSpec

(* The two stacks of historyStore.ts and the plans of mapStore.ts implement *)
(* one line of versions with a cursor: undo and redo only move it.          *)
THEOREM HistoryRefinesTimeline == StoreSpec => HistoryIsTimeline
  BY StoreStarts, StoreSteps, PTL DEF StoreSpec, HistoryIsTimeline, Timeline!Spec
=============================================================================
