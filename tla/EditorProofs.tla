---------------------------- MODULE EditorProofs ----------------------------
(***************************************************************************)
(* The map editor, for any drawings, files and number of changes: plans    *)
(* open as they were traced and named, stay whole, what is shown beside one *)
(* belongs to it, and the web map shows all of it.  Every step of the      *)
(* editor does one of a few things to the versions of the floors, so that  *)
(* what an edit keeps is kept in all of them, through undo and redo.       *)
(***************************************************************************)
EXTENDS Editor, HistoryStoreProofs, SequenceTheorems, FiniteSetTheorems, TLAPS
LOCAL INSTANCE SequencesExt
LOCAL INSTANCE FiniteSetsExt
WF == INSTANCE WellFoundedInduction

Whole(s) == s \in Seq(Elements(s))

\* The stacks of a floor are sequences of what is in them.
Stacked(h) ==
    /\ h = [past |-> h.past, future |-> h.future]
    /\ Whole(h.past) /\ Whole(h.future)
    /\ Len(h.past) + Len(h.future) <= Limit

\* The versions a history holds, and those of a floor.
Kept(h) == Elements(h.past) \cup Elements(h.future)
Line(f) == {plans[f]} \cup Kept(hist[f])
Lines == [f \in Floors |-> Line(f)]

-----------------------------------------------------------------------------
(* What the operations of the history do to the versions it holds. *)

LEMMA WholeSeq ==
  ASSUME NEW S, NEW s \in Seq(S)
  PROVE  Whole(s) /\ Elements(s) \subseteq S /\ Len(s) \in Nat /\ DOMAIN s = 1..Len(s)
<1>1. Len(s) \in Nat /\ DOMAIN s = 1..Len(s) /\ \A i \in 1..Len(s) : s[i] \in S
  BY LenProperties, ElementOfSeq
<1>2. s \in [1..Len(s) -> Elements(s)]
  <2>1. PICK n \in Nat : s \in [1..n -> S]
    BY SeqDef
  <2>2. s = [i \in 1..n |-> s[i]] /\ DOMAIN s = 1..n
    BY <2>1
  <2>3. \A i \in 1..n : s[i] \in Elements(s)
    BY <2>2 DEF Elements
  <2>4. n = Len(s)
    BY <2>1, LenProperties
  <2> QED
    BY <2>2, <2>3, <2>4
<1>3. Whole(s)
  BY <1>1, <1>2, SeqDef DEF Whole
<1> QED
  BY <1>1, <1>3 DEF Elements

LEMMA NothingStacked == Stacked(EmptyHistory) /\ Kept(EmptyHistory) = {}
<1> DEFINE S == {}
<1>1. <<>> \in Seq(S) /\ Len(<<>>) = 0
  BY EmptySeq
<1>2. Whole(<<>>) /\ Elements(<<>>) = {}
  <2> HIDE DEF S
  <2>1. Whole(<<>>) /\ Elements(<<>>) \subseteq S
    BY ONLY <1>1, WholeSeq
  <2> QED
    BY <2>1 DEF S
<1> QED
  BY <1>1, <1>2, LimitAssumption DEF Stacked, Kept, EmptyHistory

LEMMA PushStacks ==
  ASSUME NEW h, Stacked(h), NEW p
  PROVE  Stacked(Push(h, p)) /\ Kept(Push(h, p)) \subseteq Kept(h) \cup {p}
<1> DEFINE S == Elements(h.past) \cup {p}
           grown == Append(h.past, p)
           past == IF Len(grown) <= Limit THEN grown
                   ELSE SubSeq(grown, Len(grown) - Limit + 1, Len(grown))
<1>1. h.past \in Seq(S) /\ p \in S
  BY SeqMonotonic DEF Stacked, Whole
<1>2. grown \in Seq(S) /\ Len(grown) \in Nat
  <2> HIDE DEF S
  <2> QED
    BY <1>1, AppendProperties, LenProperties
<1>3. Limit \in Nat /\ Limit > 0
  BY LimitAssumption
<1>4. past \in Seq(S) /\ Len(past) <= Limit
  <2> HIDE DEF grown, S
  <2>1. CASE Len(grown) <= Limit
    BY <1>2, <2>1
  <2>2. CASE ~(Len(grown) <= Limit)
    <3> DEFINE m == Len(grown) - Limit + 1
    <3>1. m \in Int /\ m >= 1 /\ m <= Len(grown) /\ Len(grown) - m + 1 = Limit
      BY <1>2, <1>3, <2>2
    <3>2. past = SubSeq(grown, m, Len(grown))
      BY <2>2
    <3> HIDE DEF m, past
    <3>3. \A i \in m..Len(grown) : grown[i] \in S
      BY <1>2, <3>1, ElementOfSeq
    <3> QED
      BY <1>2, <1>3, <3>1, <3>2, <3>3, SubSeqProperties
  <2> QED
    BY <2>1, <2>2
<1>5. Push(h, p) = [past |-> past, future |-> <<>>]
  BY DEF Push
<1> HIDE DEF past, S
<1>6. Whole(past) /\ Elements(past) \subseteq S /\ Len(past) \in Nat
  BY <1>4, WholeSeq
<1>7. Whole(<<>>) /\ Elements(<<>>) = {} /\ Len(<<>>) = 0
  BY NothingStacked, EmptySeq DEF Stacked, Kept, EmptyHistory
<1>8. Stacked(Push(h, p))
  BY <1>3, <1>4, <1>5, <1>6, <1>7 DEF Stacked
<1>9. Kept(Push(h, p)) \subseteq S
  BY <1>5, <1>6, <1>7 DEF Kept
<1> QED
  BY <1>8, <1>9 DEF S, Kept

LEMMA UndoStacks ==
  ASSUME NEW h, Stacked(h), NEW p, h.past # <<>>
  PROVE  /\ Stacked(Undone(h, p)) /\ Kept(Undone(h, p)) \subseteq Kept(h) \cup {p}
         /\ h.past[Len(h.past)] \in Kept(h)
<1> DEFINE P == Elements(h.past)
           F == Elements(h.future) \cup {p}
           past == SubSeq(h.past, 1, Len(h.past) - 1)
           one == <<p>>
           future == one \o h.future
<1>1. h.past \in Seq(P) /\ h.future \in Seq(F)
  BY SeqMonotonic DEF Stacked, Whole
<1>2. Len(h.past) \in Nat /\ Len(h.past) > 0 /\ Len(h.future) \in Nat
  <2> HIDE DEF P, F
  <2> QED
    BY <1>1, LenProperties, EmptySeq
<1>3. /\ past \in Seq(P) /\ Len(past) = Len(h.past) - 1
      /\ h.past[Len(h.past)] \in P
  <2>1. \A i \in 1..Len(h.past) : h.past[i] \in P
    <3> HIDE DEF P
    <3> QED
      BY <1>1, ElementOfSeq
  <2> HIDE DEF P
  <2> QED
    BY <1>2, <2>1, SubSeqProperties
<1>4. one \in Seq(F) /\ Len(one) = 1
  <2>1. p \in F
    OBVIOUS
  <2>2. one = [i \in 1..1 |-> p]
    OBVIOUS
  <2> HIDE DEF F, one
  <2>3. one \in [1..1 -> F]
    BY <2>1, <2>2
  <2>4. one \in Seq(F)
    BY <2>3, SeqDef
  <2>5. Len(one) = 1
    BY ONLY DEF one
  <2> QED
    BY <2>4, <2>5
<1>5. future \in Seq(F) /\ Len(future) = 1 + Len(h.future)
  <2> HIDE DEF F, one
  <2>1. h.future \in Seq(F) /\ one \in Seq(F) /\ Len(one) = 1
    BY <1>1, <1>4
  <2>2. one \o h.future \in Seq(F) /\ Len(one \o h.future) = Len(one) + Len(h.future)
    BY ONLY <2>1, ConcatProperties
  <2> QED
    BY <2>1, <2>2
<1>6. Undone(h, p) = [past |-> past, future |-> future]
  BY DEF Undone
<1> HIDE DEF past, future, P, F
<1>7. /\ Whole(past) /\ Elements(past) \subseteq P
      /\ Whole(future) /\ Elements(future) \subseteq F
  BY <1>3, <1>5, WholeSeq
<1>8. Stacked(Undone(h, p))
  <2>1. Len(past) + Len(future) <= Limit
    BY <1>2, <1>3, <1>5, LimitAssumption DEF Stacked
  <2> QED
    BY <1>6, <1>7, <2>1 DEF Stacked
<1> QED
  BY <1>3, <1>6, <1>7, <1>8 DEF Kept, P, F

LEMMA RedoStacks ==
  ASSUME NEW h, Stacked(h), NEW p, h.future # <<>>
  PROVE  /\ Stacked(Redone(h, p)) /\ Kept(Redone(h, p)) \subseteq Kept(h) \cup {p}
         /\ Head(h.future) \in Kept(h)
<1> DEFINE P == Elements(h.past) \cup {p}
           F == Elements(h.future)
           past == Append(h.past, p)
           future == Tail(h.future)
<1>1. h.past \in Seq(P) /\ h.future \in Seq(F) /\ p \in P
  BY SeqMonotonic DEF Stacked, Whole
<1>2. Len(h.past) \in Nat /\ Len(h.future) \in Nat /\ Len(h.future) > 0
  <2> HIDE DEF P, F
  <2> QED
    BY <1>1, LenProperties, EmptySeq
<1>3. past \in Seq(P) /\ Len(past) = Len(h.past) + 1
  <2> HIDE DEF P
  <2> QED
    BY <1>1, AppendProperties
<1>4. future \in Seq(F) /\ Len(future) = Len(h.future) - 1 /\ Head(h.future) \in F
  <2> HIDE DEF F
  <2> QED
    BY <1>1, <1>2, HeadTailProperties
<1>5. Redone(h, p) = [past |-> past, future |-> future]
  BY DEF Redone
<1> HIDE DEF past, future, P, F
<1>6. /\ Whole(past) /\ Elements(past) \subseteq P
      /\ Whole(future) /\ Elements(future) \subseteq F
  BY <1>3, <1>4, WholeSeq
<1>7. Stacked(Redone(h, p))
  <2>1. Len(past) + Len(future) <= Limit
    BY <1>2, <1>3, <1>4, LimitAssumption DEF Stacked
  <2> QED
    BY <1>5, <1>6, <2>1 DEF Stacked
<1> QED
  BY <1>4, <1>5, <1>6, <1>7 DEF Kept, P, F

-----------------------------------------------------------------------------
(* Sequences that are joined from parts.  Induction goes by the least       *)
(* counterexample.                                                          *)

\* Each entry ends where the next one begins.
Linked(from, to, s) == \A i \in 1..Len(s) - 1 : to[s[i]] = from[s[i + 1]]
Chain(S, from, to, s) == s \in Seq(S) /\ Len(s) > 0 /\ Linked(from, to, s)
Opening(s) == s[1]
Ending(s) == s[Len(s)]
Follows(a, b, c) == c = a \o b
Pair(s, x, y) == s = <<x, y>>
Leads(from, to, x, y) == to[x] = from[y]
Meet(from, to, a, b) == to[Ending(a)] = from[Opening(b)]

LEMMA LeastNat ==
  ASSUME NEW T \in SUBSET Nat, NEW t \in T
  PROVE  \E n \in T : \A m \in T : n <= m
<1> DEFINE R == {p \in Nat \X Nat : p[1] < p[2]}
<1>1. WF!IsWellFoundedOn(R, Nat)
  BY WF!NatLessThanWellFounded DEF WF!OpToRel
<1>2. PICK n \in T : \A m \in T : ~ (<<m, n>> \in R)
  <2> HIDE DEF R
  <2> QED
    BY <1>1, WF!WFMin
<1>3. ASSUME NEW m \in T PROVE n <= m
  <2>1. m \in Nat /\ n \in Nat
    BY <1>2
  <2>2. ~ (m < n)
    BY <1>2, <2>1
  <2> QED
    BY <2>1, <2>2
<1> QED
  BY <1>3

\* What holds of 1 and of the next number holds up to n.
LEMMA UpTo ==
  ASSUME NEW n \in Nat, NEW G, 1 \in G, \A k \in 1..n : k > 1 /\ k - 1 \in G => k \in G
  PROVE  \A k \in 1..n : k \in G
<1> DEFINE T == {k \in 1..n : k \notin G}
<1> SUFFICES ASSUME NEW t \in T PROVE FALSE
  OBVIOUS
<1>1. T \in SUBSET Nat
  OBVIOUS
<1>2. PICK k \in T : \A m \in T : k <= m
  <2> HIDE DEF T
  <2> QED
    BY <1>1, LeastNat
<1>3. k \in 1..n /\ k # 1 /\ k \notin G
  BY <1>2
<1>4. k > 1 /\ k - 1 \in 1..n /\ ~(k <= k - 1)
  BY <1>3
<1>5. k - 1 \in G
  BY <1>2, <1>4
<1> QED
  BY <1>3, <1>4, <1>5

LEMMA OneEntry ==
  ASSUME NEW S, NEW x \in S
  PROVE  <<x>> \in Seq(S) /\ Len(<<x>>) = 1 /\ <<x>>[1] = x
<1> DEFINE one == <<x>>
<1>1. one = [i \in 1..1 |-> x]
  OBVIOUS
<1>2. Len(one) = 1 /\ one[1] = x
  BY ONLY DEF one
<1> HIDE DEF one
<1>3. one \in [1..1 -> S]
  BY <1>1
<1>4. one \in Seq(S)
  BY <1>3, SeqDef
<1> QED
  BY <1>2, <1>4 DEF one

LEMMA Joined ==
  ASSUME NEW S, NEW s \in Seq(S), NEW t \in Seq(S), NEW u, u = s \o t
  PROVE  /\ u \in Seq(S) /\ Len(u) = Len(s) + Len(t) /\ Len(s) \in Nat /\ Len(t) \in Nat
         /\ \A i \in 1..Len(s) : u[i] = s[i]
         /\ \A i \in 1..Len(t) : u[Len(s) + i] = t[i]
<1>1. Len(s) \in Nat /\ Len(t) \in Nat
  BY LenProperties
<1>2. /\ s \o t \in Seq(S)
      /\ Len(s \o t) = Len(s) + Len(t)
      /\ \A i \in 1..Len(s) + Len(t) :
            (s \o t)[i] = IF i <= Len(s) THEN s[i] ELSE t[i - Len(s)]
  BY ONLY ConcatProperties, s \in Seq(S), t \in Seq(S)
<1>3. /\ u \in Seq(S) /\ Len(u) = Len(s) + Len(t)
      /\ \A i \in 1..Len(s) + Len(t) : u[i] = IF i <= Len(s) THEN s[i] ELSE t[i - Len(s)]
  BY ONLY u = s \o t, <1>2
<1>4. ASSUME NEW i \in 1..Len(s) PROVE u[i] = s[i]
  <2>1. i \in 1..Len(s) + Len(t) /\ i <= Len(s)
    BY <1>1
  <2> QED
    BY ONLY <1>3, <2>1
<1>5. ASSUME NEW i \in 1..Len(t) PROVE u[Len(s) + i] = t[i]
  <2>1. /\ Len(s) + i \in 1..Len(s) + Len(t) /\ ~(Len(s) + i <= Len(s))
        /\ Len(s) + i - Len(s) = i
    BY <1>1
  <2> QED
    BY ONLY <1>3, <2>1
<1> QED
  BY <1>1, <1>3, <1>4, <1>5

\* FlattenSeq joins its parts one after the other.
LEMMA Joining ==
  ASSUME NEW n \in Nat, n # 0, NEW ss, Len(ss) = n
  PROVE  \E F : /\ F[1] = ss[1]
                /\ \A i \in 1..n : i > 1 => F[i] = F[i - 1] \o ss[i]
                /\ FlattenSeq(ss) = F[n]
<1> DEFINE Rule(g, k) == g = [i \in 1..k |-> IF i = 1 THEN ss[i] ELSE g[i - 1] \o ss[i]]
           T == {k \in Nat : k > 0 /\ ~ \E g : Rule(g, k)}
           F == CHOOSE g : Rule(g, n)
<1>1. FlattenSeq(ss) = F[n]
  BY DEF FlattenSeq
<1> HIDE DEF F
<1>2. ASSUME NEW k \in T, \A m \in T : k <= m PROVE FALSE
  <2>1. CASE k = 1
    <3> DEFINE g == [i \in 1..1 |-> ss[i]]
    <3>1. Rule(g, 1)
      OBVIOUS
    <3> HIDE DEF g
    <3> QED
      BY <2>1, <3>1
  <2>2. CASE k # 1
    <3>1. k \in Nat /\ k - 1 \in Nat /\ k - 1 > 0 /\ k - 1 \notin T
      <4>1. k \in Nat /\ k > 0
        OBVIOUS
      <4> HIDE DEF T
      <4> QED
        BY <1>2, <2>2, <4>1
    <3>2. PICK g : Rule(g, k - 1)
      BY <3>1
    <3> DEFINE last == g[k - 1] \o ss[k]
    <3> HIDE DEF last
    <3> DEFINE h == [i \in 1..k |-> IF i = k THEN last ELSE g[i]]
    <3>3. \A i \in 1..k : h[i] = IF i = 1 THEN ss[i] ELSE h[i - 1] \o ss[i]
      <4>1. ASSUME NEW i \in 1..k - 1 PROVE h[i] = g[i]
        <5>1. i \in 1..k /\ i # k
          BY <3>1
        <5> QED
          BY <5>1
      <4>2. ASSUME NEW i \in 1..k - 1 PROVE g[i] = IF i = 1 THEN ss[i] ELSE g[i - 1] \o ss[i]
        BY <3>2
      <4>3. h[k] = last
        <5>1. k \in 1..k
          BY <3>1
        <5> QED
          BY <5>1
      <4> HIDE DEF h, Rule
      <4>4. ASSUME NEW i \in 1..k PROVE h[i] = IF i = 1 THEN ss[i] ELSE h[i - 1] \o ss[i]
        <5>1. CASE i = k
          <6>1. k - 1 \in 1..k - 1
            BY <3>1
          <6> QED
            BY <2>2, <4>1, <4>3, <5>1, <6>1 DEF last
        <5>2. CASE i # k
          <6>1. i \in 1..k - 1 /\ (i # 1 => i - 1 \in 1..k - 1)
            BY <3>1, <5>2
          <6> QED
            BY <4>1, <4>2, <6>1
        <5> QED
          BY <5>1, <5>2
      <4> QED
        BY <4>4
    <3>4. Rule(h, k)
      BY <3>3
    <3> QED
      BY <3>4
  <2> QED
    BY <2>1, <2>2
<1>3. \E g : Rule(g, n)
  <2> HIDE DEF Rule
  <2>1. T \in SUBSET Nat
    OBVIOUS
  <2>2. n \notin T
    <3> HIDE DEF T
    <3> QED
      BY <1>2, <2>1, LeastNat
  <2> QED
    BY <2>2
<1>4. Rule(F, n)
  <2> HIDE DEF Rule
  <2> QED
    BY <1>3 DEF F
<1>5. ASSUME NEW i \in 1..n PROVE F[i] = IF i = 1 THEN ss[i] ELSE F[i - 1] \o ss[i]
  BY <1>4
<1>6. F[1] = ss[1]
  <2>1. 1 \in 1..n
    OBVIOUS
  <2> HIDE DEF Rule
  <2> QED
    BY <1>5, <2>1
<1>7. ASSUME NEW i \in 1..n, i > 1 PROVE F[i] = F[i - 1] \o ss[i]
  <2>1. i # 1
    BY <1>7
  <2> HIDE DEF Rule
  <2> QED
    BY <1>5, <2>1
<1> QED
  BY <1>1, <1>6, <1>7

\* A list of parts is a sequence.
LEMMA PartsSeq ==
  ASSUME NEW n \in Nat, NEW ss, DOMAIN ss = 1..n, ss = [i \in 1..n |-> ss[i]]
  PROVE  Len(ss) = n /\ DOMAIN ss = 1..Len(ss)
<1>1. ss \in Seq({ss[i] : i \in 1..n})
  <2>1. ss \in [1..n -> {ss[i] : i \in 1..n}]
    OBVIOUS
  <2> QED
    BY <2>1, SeqDef
<1> DEFINE S == {ss[i] : i \in 1..n}
<1> HIDE DEF S
<1>2. Len(ss) \in Nat /\ DOMAIN ss = 1..Len(ss)
  <2>1. ss \in Seq(S)
    BY <1>1 DEF S
  <2> QED
    BY <2>1, LenProperties
<1> QED
  BY <1>2

LEMMA FlattenIn ==
  ASSUME NEW S, NEW n \in Nat, NEW ss, ss = [i \in 1..n |-> ss[i]],
         \A i \in 1..n : ss[i] \in Seq(S)
  PROVE  FlattenSeq(ss) \in Seq(S)
<1>1. Len(ss) = n
  BY PartsSeq
<1>2. CASE n = 0
  <2>1. FlattenSeq(ss) = ss
    BY <1>1, <1>2 DEF FlattenSeq
  <2>2. ss \in [1..n -> S]
    <3>1. \A i \in 1..n : ss[i] \in S
      BY <1>2
    <3> QED
      BY <3>1
  <2> QED
    BY <2>1, <2>2, SeqDef
<1>3. CASE n # 0
  <2>1. PICK F : /\ F[1] = ss[1]
                 /\ \A i \in 1..n : i > 1 => F[i] = F[i - 1] \o ss[i]
                 /\ FlattenSeq(ss) = F[n]
    BY ONLY n \in Nat, <1>1, <1>3, Joining
  <2> DEFINE G == {k \in 1..n : F[k] \in Seq(S)}
  <2>2. 1 \in G /\ n \in 1..n
    BY <1>3, <2>1
  <2>3. ASSUME NEW k \in 1..n, k > 1, k - 1 \in G PROVE k \in G
    <3>1. F[k - 1] \in Seq(S) /\ ss[k] \in Seq(S) /\ F[k] = F[k - 1] \o ss[k]
      BY <2>1, <2>3
    <3>2. F[k] \in Seq(S)
      BY ONLY <3>1, Joined
    <3> QED
      BY <3>2
  <2> HIDE DEF G
  <2>4. n \in G
    BY <2>2, <2>3, UpTo
  <2> QED
    BY <2>1, <2>4 DEF G
<1> QED
  BY <1>2, <1>3

\* What is left of a sequence has the property it was sifted for.
LEMMA SiftedIn ==
  ASSUME NEW s, Whole(s), NEW K, NEW ss, DOMAIN ss = DOMAIN s, ss = [i \in DOMAIN s |-> ss[i]],
         \A i \in DOMAIN s : ss[i] = <<>> \/ (s[i] \in K /\ ss[i] = <<s[i]>>)
  PROVE  /\ Whole(FlattenSeq(ss))
         /\ \A i \in DOMAIN FlattenSeq(ss) : FlattenSeq(ss)[i] \in K
<1> DEFINE n == Len(s)
           c == FlattenSeq(ss)
<1>1. n \in Nat /\ DOMAIN s = 1..n
  BY LenProperties DEF Whole
<1>2. \A i \in 1..n : ss[i] \in Seq(K)
  <2>1. ASSUME NEW i \in 1..n PROVE ss[i] \in Seq(K)
    <3>1. CASE ss[i] = <<>>
      <4>1. <<>> \in Seq(K)
        BY EmptySeq
      <4> QED
        BY <3>1, <4>1
    <3>2. CASE s[i] \in K /\ ss[i] = <<s[i]>>
      <4>1. ASSUME NEW x \in K PROVE <<x>> \in Seq(K)
        OBVIOUS
      <4> QED
        BY <3>2, <4>1
    <3> QED
      BY <1>1, <3>1, <3>2
  <2> QED
    BY <2>1
<1>3. c \in Seq(K)
  <2>1. n \in Nat /\ ss = [i \in 1..n |-> ss[i]]
    BY <1>1
  <2> QED
    BY ONLY <1>2, <2>1, FlattenIn DEF c
<1>4. Whole(c) /\ DOMAIN c = 1..Len(c) /\ \A i \in 1..Len(c) : c[i] \in K
  <2> HIDE DEF c
  <2> QED
    BY <1>3, WholeSeq, ElementOfSeq
<1> QED
  BY <1>4

\* Parts of one entry each.
LEMMA FlattenSingles ==
  ASSUME NEW S, NEW s \in Seq(S)
  PROVE  FlattenSeq([i \in DOMAIN s |-> <<s[i]>>]) = s
<1> DEFINE n == Len(s)
           ss == [i \in DOMAIN s |-> <<s[i]>>]
<1>1. n \in Nat /\ DOMAIN s = 1..n /\ \A i \in 1..n : s[i] \in S
  BY LenProperties, ElementOfSeq
<1>2. /\ ss = [i \in 1..n |-> ss[i]] /\ DOMAIN ss = 1..n
      /\ \A i \in 1..n : ss[i] = <<s[i]>>
  BY <1>1
<1> HIDE DEF ss, n
<1>3. Len(ss) = n
  BY <1>1, <1>2, PartsSeq
<1>4. CASE n = 0
  <2>1. FlattenSeq(ss) = ss
    BY <1>3, <1>4 DEF FlattenSeq
  <2>2. s = <<>>
    BY <1>4, EmptySeq DEF n
  <2>3. ss = [i \in {} |-> <<s[i]>>]
    BY <1>1, <1>4 DEF ss
  <2>4. s = [i \in {} |-> s[i]]
    BY <2>2
  <2>5. ss = s
    BY <2>3, <2>4
  <2> QED
    BY <2>1, <2>5 DEF ss
<1>5. CASE n # 0
  <2>1. PICK F : /\ F[1] = ss[1]
                 /\ \A i \in 1..n : i > 1 => F[i] = F[i - 1] \o ss[i]
                 /\ FlattenSeq(ss) = F[n]
    BY <1>1, <1>3, <1>5, Joining
  <2> DEFINE P(k) == /\ F[k] \in Seq(S) /\ Len(F[k]) = k
                     /\ \A i \in 1..k : F[k][i] = s[i]
             G == {k \in 1..n : P(k)}
  <2>2. ASSUME NEW i \in 1..n PROVE ss[i] \in Seq(S) /\ Len(ss[i]) = 1 /\ ss[i][1] = s[i]
    BY <1>1, <1>2, OneEntry
  <2>3. 1 \in G /\ n \in 1..n
    <3>1. 1 \in 1..n /\ n \in 1..n
      BY <1>1, <1>5
    <3>2. P(1)
      <4>1. F[1] \in Seq(S) /\ Len(F[1]) = 1 /\ F[1][1] = s[1]
        BY <2>1, <2>2, <3>1
      <4> QED
        BY <4>1
    <3> QED
      BY <3>1, <3>2
  <2>4. ASSUME NEW k \in 1..n, k > 1, k - 1 \in G PROVE k \in G
    <3>1. F[k] = F[k - 1] \o ss[k] /\ P(k - 1)
      BY <2>1, <2>4
    <3>2. Len(F[k - 1]) = k - 1 /\ Len(ss[k]) = 1 /\ ss[k][1] = s[k] /\ k \in Nat
      BY <1>1, <2>2, <3>1
    <3>3. /\ F[k] \in Seq(S) /\ Len(F[k]) = Len(F[k - 1]) + Len(ss[k])
          /\ \A i \in 1..Len(F[k - 1]) : F[k][i] = F[k - 1][i]
          /\ \A i \in 1..Len(ss[k]) : F[k][Len(F[k - 1]) + i] = ss[k][i]
      <4> DEFINE a == F[k - 1]
                 b == ss[k]
                 c == F[k]
      <4>1. a \in Seq(S) /\ b \in Seq(S) /\ c = a \o b
        BY <2>2, <3>1
      <4> HIDE DEF a, b, c
      <4>2. /\ c \in Seq(S) /\ Len(c) = Len(a) + Len(b)
            /\ \A i \in 1..Len(a) : c[i] = a[i]
            /\ \A i \in 1..Len(b) : c[Len(a) + i] = b[i]
        BY ONLY <4>1, Joined
      <4> QED
        BY <4>2 DEF a, b, c
    <3>4. F[k] \in Seq(S) /\ Len(F[k]) = k
      BY <3>2, <3>3
    <3>5. ASSUME NEW i \in 1..k PROVE F[k][i] = s[i]
      <4>1. CASE i = k
        <5>1. F[k][k - 1 + 1] = ss[k][1] /\ k - 1 + 1 = k
          BY <3>2, <3>3
        <5> QED
          BY <3>2, <4>1, <5>1
      <4>2. CASE i # k
        <5>1. i \in 1..k - 1
          BY <3>2, <4>2
        <5>2. F[k][i] = F[k - 1][i]
          BY <3>2, <3>3, <5>1
        <5> QED
          BY <3>1, <5>1, <5>2
      <4> QED
        BY <4>1, <4>2
    <3> QED
      BY <3>4, <3>5
  <2>5. P(n)
    <3> HIDE DEF P
    <3>1. 1 \in G /\ \A k \in 1..n : k > 1 /\ k - 1 \in G => k \in G
      BY <2>3, <2>4
    <3>2. n \in G
      <4> HIDE DEF G
      <4> QED
        BY <1>1, <2>3, <3>1, UpTo
    <3> QED
      BY <3>2
  <2>6. F[n] = s
    BY <1>1, <2>5, SeqEqual DEF n
  <2> QED
    BY <2>1, <2>6 DEF ss
<1> QED
  BY <1>4, <1>5

LEMMA OneChain ==
  ASSUME NEW S, NEW from, NEW to, NEW x \in S
  PROVE  Chain(S, from, to, <<x>>) /\ Opening(<<x>>) = x /\ Ending(<<x>>) = x
  BY OneEntry DEF Chain, Linked, Opening, Ending

LEMMA TwoChain ==
  ASSUME NEW S, NEW from, NEW to, NEW x \in S, NEW y \in S, Leads(from, to, x, y),
         NEW s, Pair(s, x, y)
  PROVE  Chain(S, from, to, s) /\ Opening(s) = x /\ Ending(s) = y
<1> DEFINE two == <<x, y>>
<1>1. two = [i \in 1..2 |-> IF i = 1 THEN x ELSE y]
  OBVIOUS
<1>2. Len(two) = 2 /\ two[1] = x /\ two[2] = y
  BY ONLY DEF two
<1> HIDE DEF two
<1>3. two \in [1..2 -> S]
  BY <1>1
<1>4. two \in Seq(S)
  BY <1>3, SeqDef
<1>5. Linked(from, to, two)
  BY <1>2 DEF Linked, Leads
<1>6. Chain(S, from, to, two) /\ Opening(two) = x /\ Ending(two) = y
  BY <1>2, <1>4, <1>5 DEF Chain, Opening, Ending
<1> QED
  BY <1>6 DEF two, Pair

\* Two chains, the second of which goes on where the first ends, are one.
LEMMA ChainsJoin ==
  ASSUME NEW S, NEW from, NEW to, NEW a, NEW b, NEW c, Follows(a, b, c),
         Chain(S, from, to, a), Chain(S, from, to, b), Meet(from, to, a, b)
  PROVE  Chain(S, from, to, c) /\ Opening(c) = Opening(a) /\ Ending(c) = Ending(b)
<1>1. /\ c \in Seq(S) /\ Len(c) = Len(a) + Len(b) /\ Len(a) \in Nat /\ Len(b) \in Nat
      /\ \A i \in 1..Len(a) : c[i] = a[i]
      /\ \A i \in 1..Len(b) : c[Len(a) + i] = b[i]
  <2>1. a \in Seq(S) /\ b \in Seq(S) /\ c = a \o b
    BY DEF Chain, Follows
  <2> QED
    BY ONLY <2>1, Joined
<1> DEFINE m == Len(a)
           n == Len(b)
<1>2. /\ m \in Nat /\ n \in Nat /\ m > 0 /\ n > 0 /\ Len(c) = m + n
      /\ \A i \in 1..m : c[i] = a[i]
      /\ \A i \in 1..n : c[m + i] = b[i]
      /\ \A i \in 1..m - 1 : to[a[i]] = from[a[i + 1]]
      /\ \A i \in 1..n - 1 : to[b[i]] = from[b[i + 1]]
      /\ to[a[m]] = from[b[1]]
  BY <1>1 DEF Chain, Meet, Linked, Opening, Ending
<1> HIDE DEF m, n
<1>3. c[1] = a[1] /\ c[m + n] = b[n]
  BY ONLY <1>2
<1>4. ASSUME NEW i \in 1..m + n - 1 PROVE to[c[i]] = from[c[i + 1]]
  <2>1. CASE i < m
    <3>1. i \in 1..m /\ i + 1 \in 1..m /\ i \in 1..m - 1
      BY <1>2, <2>1
    <3> QED
      BY ONLY <1>2, <3>1
  <2>2. CASE i = m
    <3>1. i \in 1..m /\ 1 \in 1..n
      BY <1>2, <2>2
    <3>2. c[i] = a[m] /\ c[i + 1] = b[1]
      BY ONLY <1>2, <2>2, <3>1
    <3> QED
      BY <1>2, <3>2
  <2>3. CASE i > m
    <3> DEFINE j == i - m
    <3>1. j \in 1..n - 1 /\ j \in 1..n /\ j + 1 \in 1..n /\ m + j = i /\ m + (j + 1) = i + 1
      <4>1. m \in Nat /\ n \in Nat /\ i \in Nat /\ i < m + n
        BY <1>2
      <4> QED
        BY ONLY <2>3, <4>1 DEF j
    <3> HIDE DEF j
    <3>2. c[i] = b[j] /\ c[i + 1] = b[j + 1]
      BY <1>2, <3>1
    <3> QED
      BY <1>2, <3>1, <3>2
  <2> QED
    BY <1>2, <2>1, <2>2, <2>3
<1>5. Linked(from, to, c)
  <2>1. Len(c) = m + n /\ m \in Nat /\ n \in Nat
    BY <1>2
  <2> QED
    BY ONLY <1>4, <2>1 DEF Linked
<1> QED
  <2>1. Len(c) > 0
    BY <1>2
  <2> QED
    BY <1>1, <1>2, <1>3, <1>5, <2>1 DEF Chain, m, n, Opening, Ending

\* A filter that all entries pass leaves the sequence.
LEMMA AllPass ==
  ASSUME NEW s, Whole(s), NEW ss, ss = [i \in DOMAIN s |-> ss[i]],
         \A i \in DOMAIN s : ss[i] = <<s[i]>>
  PROVE  FlattenSeq(ss) = s
<1>1. ss = [i \in DOMAIN s |-> <<s[i]>>]
  OBVIOUS
<1>2. FlattenSeq([i \in DOMAIN s |-> <<s[i]>>]) = s
  BY FlattenSingles DEF Whole
<1> QED
  BY <1>1, <1>2

\* Chains that follow one another are one chain.
LEMMA FlattenChain ==
  ASSUME NEW S, NEW from, NEW to, NEW n \in Nat, n # 0, NEW ss, ss = [i \in 1..n |-> ss[i]],
         \A i \in 1..n : Chain(S, from, to, ss[i]),
         \A i \in 1..n : i > 1 => Meet(from, to, ss[i - 1], ss[i]),
         NEW c, c = FlattenSeq(ss)
  PROVE  /\ Chain(S, from, to, c) /\ Len(c) >= n
         /\ Opening(c) = Opening(ss[1]) /\ Ending(c) = Ending(ss[n])
<1>1. Len(ss) = n
  BY PartsSeq
<1>2. PICK F : /\ F[1] = ss[1]
               /\ \A i \in 1..n : i > 1 => F[i] = F[i - 1] \o ss[i]
               /\ FlattenSeq(ss) = F[n]
  BY ONLY n \in Nat, n # 0, <1>1, Joining
<1> DEFINE P(k) == /\ Chain(S, from, to, F[k]) /\ Len(F[k]) >= k
                   /\ Opening(F[k]) = Opening(ss[1]) /\ Ending(F[k]) = Ending(ss[k])
           G == {k \in 1..n : P(k)}
<1>3. 1 \in G /\ n \in 1..n
  <2>1. 1 \in 1..n /\ n \in 1..n
    OBVIOUS
  <2>2. Chain(S, from, to, ss[1]) /\ Len(ss[1]) >= 1
    <3>1. Chain(S, from, to, ss[1])
      BY <2>1
    <3> QED
      BY <3>1, LenProperties DEF Chain
  <2>3. P(1)
    BY <1>2, <2>2
  <2> QED
    BY <2>1, <2>3
<1>4. ASSUME NEW k \in 1..n, k > 1, k - 1 \in G PROVE k \in G
  <2> PICK a, b, d : a = F[k - 1] /\ b = ss[k] /\ d = F[k]
    OBVIOUS
  <2>1. P(k - 1) /\ k - 1 \in Nat /\ k - 1 >= 1
    BY <1>4
  <2>2. /\ Chain(S, from, to, a) /\ Len(a) >= k - 1
        /\ Opening(a) = Opening(ss[1]) /\ Ending(a) = Ending(ss[k - 1])
    BY <2>1
  <2>3. Chain(S, from, to, b) /\ Meet(from, to, a, b)
    BY <1>4, <2>2 DEF Meet
  <2>4. d = a \o b
    BY <1>2, <1>4
  <2>5. k \in G <=> /\ Chain(S, from, to, d) /\ Len(d) >= k
                    /\ Opening(d) = Opening(ss[1]) /\ Ending(d) = Ending(b)
    OBVIOUS
  <2>6. Chain(S, from, to, d) /\ Opening(d) = Opening(a) /\ Ending(d) = Ending(b)
    <3>1. Chain(S, from, to, a) /\ Chain(S, from, to, b) /\ Meet(from, to, a, b)
      BY <2>2, <2>3
    <3>2. Follows(a, b, d)
      BY <2>4 DEF Follows
    <3> QED
      BY ONLY <3>1, <3>2, ChainsJoin
  <2>7. Len(d) = Len(a) + Len(b) /\ Len(a) \in Nat /\ Len(b) \in Nat
    <3>1. a \in Seq(S) /\ b \in Seq(S)
      BY <2>2, <2>3 DEF Chain
    <3> QED
      BY ONLY <2>4, <3>1, Joined
  <2>8. Len(d) >= k
    BY <2>1, <2>2, <2>3, <2>7 DEF Chain
  <2> QED
    BY <2>2, <2>5, <2>6, <2>8
<1>5. P(n)
  <2> HIDE DEF P
  <2>1. 1 \in G /\ \A k \in 1..n : k > 1 /\ k - 1 \in G => k \in G
    BY <1>3, <1>4
  <2>2. n \in G
    <3> HIDE DEF G
    <3> QED
      BY <1>3, <2>1, UpTo
  <2> QED
    BY <2>2
<1> QED
  BY <1>2, <1>5

\* A finite set of numbers has a greatest.
LEMMA Greatest ==
  ASSUME NEW T \in SUBSET Nat, IsFiniteSet(T), T # {}
  PROVE  \E m \in T : \A t \in T : t <= m
<1>1. PICK f \in Seq(T) : \A t \in T : \E i \in 1..Len(f) : f[i] = t
  BY DEF IsFiniteSet
<1> DEFINE n == Len(f)
<1>2. n \in Nat /\ (\A i \in 1..n : f[i] \in T /\ f[i] \in Nat) /\ \A t \in T : \E i \in 1..n : f[i] = t
  BY <1>1, LenProperties, ElementOfSeq
<1> HIDE DEF n
<1> DEFINE G == {k \in 1..n : \E m \in T : \A i \in 1..k : f[i] <= m}
<1>3. 1 \in 1..n /\ n \in 1..n
  <2>1. PICK t \in T : TRUE
    OBVIOUS
  <2>2. PICK i \in 1..n : f[i] = t
    BY <1>2, <2>1
  <2> QED
    BY <1>2, <2>2
<1>4. 1 \in G
  <2>1. f[1] \in T /\ f[1] \in Nat
    BY <1>2, <1>3
  <2>2. \A i \in 1..1 : f[i] <= f[1]
    BY <2>1
  <2> QED
    BY <1>3, <2>1, <2>2
<1>5. ASSUME NEW k \in 1..n, k > 1, k - 1 \in G PROVE k \in G
  <2>1. PICK m \in T : \A i \in 1..k - 1 : f[i] <= m
    BY <1>5
  <2>2. m \in Nat /\ f[k] \in T /\ f[k] \in Nat /\ k \in Nat
    BY <1>2, <2>1
  <2>3. CASE f[k] <= m
    <3>1. ASSUME NEW i \in 1..k PROVE f[i] <= m
      BY <2>1, <2>2, <2>3
    <3> QED
      BY <3>1
  <2>4. CASE ~(f[k] <= m)
    <3>1. ASSUME NEW i \in 1..k PROVE f[i] <= f[k]
      <4>1. f[i] \in Nat
        <5>1. i \in 1..n
          BY <1>2
        <5> QED
          BY <1>2, <5>1
      <4>2. i = k \/ f[i] <= m
        BY <2>1, <2>2
      <4> QED
        BY <2>2, <2>4, <4>1, <4>2
    <3> QED
      BY <2>2, <3>1
  <2> QED
    BY <2>3, <2>4
<1>6. n \in G
  <2> HIDE DEF G
  <2> QED
    BY <1>2, <1>3, <1>4, <1>5, UpTo
<1>7. PICK m \in T : \A i \in 1..n : f[i] <= m
  BY <1>6
<1> QED
  BY <1>2, <1>7

\* The next id is not taken yet.
LEMMA NextIdIsFree ==
  ASSUME NEW ids \in SUBSET Nat, IsFiniteSet(ids), ids # {}
  PROVE  NextId(ids) \in Nat /\ NextId(ids) \notin ids
<1> DEFINE top == 2 * Cardinality(ids) + Max(ids) + 1
           T == {n \in Cardinality(ids) + 1 .. top : n \notin ids}
<1>1. Cardinality(ids) \in Nat
  BY FS_CardinalityType
<1>2. Max(ids) \in ids /\ \A x \in ids : Max(ids) >= x
  <2>1. PICK m \in ids : \A t \in ids : t <= m
    BY Greatest
  <2>2. \A t \in ids : m >= t
    <3>1. m \in Nat /\ \A t \in ids : t \in Nat
      BY <2>1
    <3> QED
      BY <2>1, <3>1
  <2> QED
    BY <2>1, <2>2 DEF Max
<1>3. Max(ids) \in Nat
  BY <1>2
<1>4. T \in SUBSET Nat
  BY <1>1, <1>3
<1>5. top \in T
  <2>1. top \in Cardinality(ids) + 1 .. top /\ ~ (Max(ids) >= top)
    BY <1>1, <1>3
  <2> QED
    BY <1>2, <2>1
<1>6. PICK n \in T : \A m \in T : n <= m
  <2> HIDE DEF T, top
  <2> QED
    BY <1>4, <1>5, LeastNat
<1>7. Min(T) \in T
  BY <1>6 DEF Min
<1>8. NextId(ids) = Min(T)
  BY DEF NextId
<1> HIDE DEF T
<1>9. NextId(ids) \in T
  BY <1>7, <1>8
<1> QED
  BY <1>4, <1>9 DEF T

-----------------------------------------------------------------------------
(* The references of a plan.  A contour is an outline when each of its      *)
(* walls is known with both ends and, provided the contours of all drawings *)
(* and files are closed, each ends where the next one begins.               *)

From(p, r) == IF r.dir = 1 THEN p.walls[r.wall].start ELSE p.walls[r.wall].end
To(p, r) == IF r.dir = 1 THEN p.walls[r.wall].end ELSE p.walls[r.wall].start

Placed(p, r) ==
    /\ r.wall \in DOMAIN p.walls
    /\ p.walls[r.wall].start \in DOMAIN p.points /\ p.walls[r.wall].end \in DOMAIN p.points

Round(p, refs) ==
    /\ \A i \in 1..Len(refs) - 1 : To(p, refs[i]) = From(p, refs[i + 1])
    /\ To(p, refs[Len(refs)]) = From(p, refs[1])

Outline(p, refs) ==
    /\ Whole(refs) /\ Len(refs) >= 3
    /\ \A i \in DOMAIN refs : Placed(p, refs[i])
    /\ ClosedFiles => Round(p, refs)

\* A contour whose walls are all known is read entry by entry.
LEMMA ReadWhole ==
  ASSUME NEW p, NEW refs, Whole(refs), \A i \in DOMAIN refs : Placed(p, refs[i])
  PROVE  /\ Resolve(p, refs) = [i \in DOMAIN refs |-> Resolve(p, refs)[i]]
         /\ \A i \in DOMAIN refs : /\ Resolve(p, refs)[i].wall = refs[i].wall
                                   /\ Resolve(p, refs)[i].from = From(p, refs[i])
                                   /\ Resolve(p, refs)[i].to = To(p, refs[i])
<1> DEFINE Known(r) == /\ r.wall \in DOMAIN p.walls
                       /\ {p.walls[r.wall].start, p.walls[r.wall].end} \subseteq DOMAIN p.points
           Parts == [i \in DOMAIN refs |-> IF Known(refs[i]) THEN <<refs[i]>> ELSE <<>>]
           kept == Sifted(refs, Known)
<1>1. kept = refs
  <2>1. kept = FlattenSeq(Parts)
    BY DEF Sifted
  <2>2. \A i \in DOMAIN refs : Known(refs[i])
    BY DEF Placed
  <2>3. Parts = [i \in DOMAIN refs |-> Parts[i]] /\ \A i \in DOMAIN refs : Parts[i] = <<refs[i]>>
    <3> HIDE DEF Known
    <3> QED
      BY <2>2
  <2> HIDE DEF Parts, kept
  <2> QED
    BY <2>1, <2>3, AllPass
<1> DEFINE segment(r) ==
             LET w == p.walls[r.wall] IN
             [wall  |-> r.wall,
              from  |-> IF r.dir = 1 THEN w.start ELSE w.end,
              to    |-> IF r.dir = 1 THEN w.end ELSE w.start,
              bulge |-> IF w.kind = "arc" THEN w.bulge * r.dir ELSE 0]
<1>2. Resolve(p, refs) = [i \in DOMAIN kept |-> segment(kept[i])]
  BY DEF Resolve
<1>3. Resolve(p, refs) = [i \in DOMAIN refs |-> segment(refs[i])]
  <2> HIDE DEF kept, segment
  <2> QED
    BY <1>1, <1>2
<1>4. \A r : segment(r).wall = r.wall /\ segment(r).from = From(p, r) /\ segment(r).to = To(p, r)
  BY DEF From, To
<1> HIDE DEF segment
<1> QED
  BY <1>3, <1>4

\* Such a contour goes round if the validation finds nothing in it.
LEMMA ClosedIsRound ==
  ASSUME NEW p, NEW refs, Whole(refs), Len(refs) >= 3,
         \A i \in DOMAIN refs : Placed(p, refs[i]), NEW owner, NEW code
  PROVE  ValidateChain(p, refs, owner, code) = {} <=> Round(p, refs)
<1> DEFINE segs == Resolve(p, refs)
           n == Len(refs)
           missing == {r \in Elements(refs) : r.wall \notin DOMAIN p.walls}
           broken == {i \in 1..Len(segs) : segs[i].to # After(segs, i).from}
           told(i) == Issue(IF i = Len(segs) THEN code ELSE "not-chained", owner, segs[i].wall)
<1>1. n \in Nat /\ DOMAIN refs = 1..n /\ n >= 3
  BY LenProperties DEF Whole
<1>2. /\ DOMAIN segs = 1..n
      /\ \A i \in 1..n : segs[i].from = From(p, refs[i]) /\ segs[i].to = To(p, refs[i])
  BY <1>1, ReadWhole
<1>3. Len(segs) = n
  <2>1. segs = [i \in 1..n |-> segs[i]]
    BY <1>1, ReadWhole
  <2> HIDE DEF segs
  <2> QED
    BY <1>1, <1>2, <2>1, PartsSeq
<1>4. missing = {}
  BY DEF Elements, Placed
<1>5. ValidateChain(p, refs, owner, code) =
        IF missing # {} THEN {Issue("missing-ref", owner, r.wall) : r \in missing}
        ELSE IF Len(segs) < 3 THEN {Issue(code, owner, 0)}
        ELSE {told(i) : i \in broken}
  BY DEF ValidateChain
<1> HIDE DEF missing, told, broken, segs
<1>6. ValidateChain(p, refs, owner, code) = {told(i) : i \in broken}
  BY <1>1, <1>3, <1>4, <1>5
<1>7. ValidateChain(p, refs, owner, code) = {} <=> broken = {}
  BY <1>6
<1> HIDE DEF n
<1>8. \A i \in 1..n : After(segs, i) = IF i = n THEN segs[1] ELSE segs[i + 1]
  <2>1. ASSUME NEW i \in 1..n PROVE (i % n) + 1 = IF i = n THEN 1 ELSE i + 1
    <3>1. CASE i = n
      BY <1>1, <3>1
    <3>2. CASE i # n
      <4>1. 0 <= i /\ i < n /\ i \in Nat
        BY <1>1, <3>2
      <4>2. i % n = i
        BY <1>1, <4>1
      <4> QED
        BY <3>2, <4>2
    <3> QED
      BY <3>1, <3>2
  <2> QED
    BY <1>3, <2>1 DEF After
<1>9. broken = {} <=> \A i \in 1..n : segs[i].to = After(segs, i).from
  BY <1>3 DEF broken
<1>10. broken = {} <=> \A i \in 1..n : To(p, refs[i]) = IF i = n THEN From(p, refs[1])
                                                       ELSE From(p, refs[i + 1])
  <2>1. ASSUME NEW i \in 1..n
        PROVE  segs[i].to = After(segs, i).from
                 <=> To(p, refs[i]) = IF i = n THEN From(p, refs[1]) ELSE From(p, refs[i + 1])
    <3>1. CASE i = n
      <4>1. 1 \in 1..n
        BY <1>1
      <4> QED
        BY <1>2, <1>8, <3>1, <4>1
    <3>2. CASE i # n
      <4>1. i + 1 \in 1..n
        BY <1>1, <3>2
      <4> QED
        BY <1>2, <1>8, <3>2, <4>1
    <3> QED
      BY <3>1, <3>2
  <2> QED
    BY <1>9, <2>1
<1>11. broken = {} <=> Round(p, refs)
  <2>1. Round(p, refs) <=> /\ \A i \in 1..n - 1 : To(p, refs[i]) = From(p, refs[i + 1])
                           /\ To(p, refs[n]) = From(p, refs[1])
    BY DEF Round, n
  <2>2. ASSUME NEW i \in 1..n PROVE i = n \/ i \in 1..n - 1
    BY <1>1
  <2>3. ASSUME NEW i \in 1..n - 1 PROVE i \in 1..n /\ i # n
    BY <1>1
  <2>4. n \in 1..n
    BY <1>1
  <2> QED
    BY <1>10, <2>1, <2>2, <2>3, <2>4
<1> QED
  BY <1>7, <1>11

\* An outline depends on the ends of its walls only.
LEMMA OutlineKept ==
  ASSUME NEW p, NEW q, NEW refs, Outline(p, refs), DOMAIN p.points \subseteq DOMAIN q.points,
         \A i \in DOMAIN refs : /\ refs[i].wall \in DOMAIN q.walls
                                /\ q.walls[refs[i].wall].start = p.walls[refs[i].wall].start
                                /\ q.walls[refs[i].wall].end = p.walls[refs[i].wall].end
  PROVE  Outline(q, refs)
<1>1. Len(refs) \in Nat /\ DOMAIN refs = 1..Len(refs) /\ Len(refs) >= 3
  BY LenProperties DEF Outline, Whole
<1>2. \A i \in DOMAIN refs : From(q, refs[i]) = From(p, refs[i]) /\ To(q, refs[i]) = To(p, refs[i])
  BY DEF From, To
<1>3. \A i \in DOMAIN refs : Placed(q, refs[i])
  BY DEF Outline, Placed
<1> DEFINE n == Len(refs)
<1>4. ASSUME ClosedFiles PROVE Round(q, refs)
  <2>1. ASSUME NEW i \in 1..n - 1 PROVE i \in DOMAIN refs /\ i + 1 \in DOMAIN refs
    BY <1>1
  <2>2. 1 \in DOMAIN refs /\ n \in DOMAIN refs
    BY <1>1
  <2>3. Round(p, refs)
    BY <1>4 DEF Outline
  <2> QED
    BY <1>2, <2>1, <2>2, <2>3 DEF Round
<1> QED
  BY <1>3, <1>4 DEF Outline

\* The walls of a plan of which one was split: its halves meet at a new point.
FirstHalf(p) == NextId(DOMAIN p.walls)
SecondHalf(p) == NextId(DOMAIN p.walls \cup {FirstHalf(p)})

Halved(p, q, w, w1, w2, mid) ==
    /\ w1 \in Nat /\ w2 \in Nat /\ w1 # w2
    /\ w1 \notin DOMAIN p.walls /\ w2 \notin DOMAIN p.walls
    /\ DOMAIN q.points = DOMAIN p.points \cup {mid}
    /\ DOMAIN q.walls = (DOMAIN p.walls \cup {w1, w2}) \ {w}
    /\ q.walls[w1] = [p.walls[w] EXCEPT !.end = mid]
    /\ q.walls[w2] = [p.walls[w] EXCEPT !.start = mid]
    /\ \A x \in DOMAIN p.walls \ {w} : q.walls[x] = p.walls[x]
    /\ IsFiniteSet(DOMAIN q.walls)

LEMMA HalvesOfWall ==
  ASSUME NEW p, DOMAIN p = PlanFields, IsFiniteSet(DOMAIN p.walls), DOMAIN p.walls \subseteq Nat,
         NEW w \in DOMAIN p.walls
  PROVE  \E mid : Halved(p, WithSplitWall(p, w), w, FirstHalf(p), SecondHalf(p), mid)
<1> DEFINE q == WithSplitWall(p, w)
           w1 == FirstHalf(p)
           w2 == SecondHalf(p)
<1>1. w1 \in Nat /\ w1 \notin DOMAIN p.walls
  BY NextIdIsFree DEF FirstHalf
<1>2. IsFiniteSet(DOMAIN p.walls \cup {w1}) /\ DOMAIN p.walls \cup {w1} \subseteq Nat
  BY <1>1, FS_AddElement
<1>3. w2 \in Nat /\ w2 \notin DOMAIN p.walls \cup {w1}
  BY <1>2, NextIdIsFree DEF SecondHalf
<1> DEFINE mid == NextId(DOMAIN p.points)
           one == [p.walls[w] EXCEPT !.end = mid]
           two == [p.walls[w] EXCEPT !.start = mid]
           first == With(p.walls, w1, one)
           both == With(first, w2, two)
           points == With(p.points, mid, MiddleOf(p, p.walls[w]))
<1>4. q.points = points /\ q.walls = Without(both, w)
  BY DEF WithSplitWall, FirstHalf, SecondHalf, PlanFields
<1> HIDE DEF mid, one, two, q, w1, w2
<1>5. DOMAIN q.points = DOMAIN p.points \cup {mid}
  BY <1>4 DEF With
<1> HIDE DEF points
<1>6. /\ DOMAIN first = DOMAIN p.walls \cup {w1} /\ first[w1] = one
      /\ \A x \in DOMAIN p.walls : first[x] = p.walls[x]
  BY <1>1 DEF With
<1> HIDE DEF first
<1>7. /\ DOMAIN both = DOMAIN p.walls \cup {w1, w2} /\ both[w1] = one /\ both[w2] = two
      /\ \A x \in DOMAIN p.walls : both[x] = p.walls[x]
  BY <1>3, <1>6 DEF With
<1> HIDE DEF both
<1>8. /\ DOMAIN q.walls = (DOMAIN p.walls \cup {w1, w2}) \ {w}
      /\ q.walls[w1] = one /\ q.walls[w2] = two
      /\ \A x \in DOMAIN p.walls \ {w} : q.walls[x] = p.walls[x]
  BY <1>1, <1>3, <1>4, <1>7 DEF Without
<1>9. IsFiniteSet(DOMAIN q.walls)
  <2>1. IsFiniteSet((DOMAIN p.walls \cup {w1}) \cup {w2})
    BY <1>2, FS_AddElement
  <2>2. DOMAIN q.walls \in SUBSET ((DOMAIN p.walls \cup {w1}) \cup {w2})
    BY <1>8
  <2> QED
    BY ONLY <2>1, <2>2, FS_Subset
<1> QED
  BY <1>1, <1>3, <1>5, <1>8, <1>9 DEF Halved, one, two, q, w1, w2

\* Through the halves of a wall an outline runs as it did through the wall.
LEMMA OutlineSplit ==
  ASSUME NEW p, NEW q, NEW w \in DOMAIN p.walls, NEW w1, NEW w2, NEW mid,
         {"start", "end"} \subseteq DOMAIN p.walls[w], Halved(p, q, w, w1, w2, mid),
         NEW refs, Outline(p, refs)
  PROVE  Outline(q, Rewritten(refs, w, w1, w2))
<1> USE DEF Halved
<1> DEFINE n == Len(refs)
           a1 == [wall |-> w1, dir |-> 1]
           a2 == [wall |-> w2, dir |-> 1]
           b1 == [wall |-> w1, dir |-> -1]
           b2 == [wall |-> w2, dir |-> -1]
           S == {r \in Elements(refs) \cup {a1, a2, b1, b2} : Placed(q, r)}
           from == [r \in S |-> From(q, r)]
           to == [r \in S |-> To(q, r)]
           part(r) == IF r.wall # w THEN <<r>>
                      ELSE IF r.dir = 1 THEN <<a1, a2>> ELSE <<b2, b1>>
           ss == [i \in DOMAIN refs |-> part(refs[i])]
           c == Rewritten(refs, w, w1, w2)
<1>1. n \in Nat /\ DOMAIN refs = 1..n /\ n >= 3
  BY LenProperties DEF Outline, Whole
<1>2. /\ q.walls[w1].start = p.walls[w].start /\ q.walls[w1].end = mid
      /\ q.walls[w2].start = mid /\ q.walls[w2].end = p.walls[w].end
  OBVIOUS
<1>3. c = FlattenSeq(ss)
  BY DEF Rewritten
<1>4. ASSUME NEW i \in 1..n
      PROVE  /\ Chain(S, from, to, ss[i])
             /\ from[Opening(ss[i])] = From(p, refs[i]) /\ to[Ending(ss[i])] = To(p, refs[i])
  <2> DEFINE r == refs[i]
  <2>1. Placed(p, r) /\ r \in Elements(refs) /\ ss[i] = part(r)
    BY <1>1 DEF Outline, Elements
  <2> HIDE DEF r, ss
  <2>2. CASE r.wall # w
    <3>1. Placed(q, r) /\ From(q, r) = From(p, r) /\ To(q, r) = To(p, r)
      BY <2>1, <2>2 DEF Placed, From, To
    <3>2. r \in S /\ from[r] = From(p, r) /\ to[r] = To(p, r)
      BY <2>1, <3>1
    <3>3. ss[i] = <<r>>
      BY <2>1, <2>2
    <3> HIDE DEF S, from, to
    <3>4. Chain(S, from, to, ss[i]) /\ Opening(ss[i]) = r /\ Ending(ss[i]) = r
      BY <3>2, <3>3, OneChain
    <3> QED
      BY <3>2, <3>4 DEF r
  <2>3. CASE r.wall = w
    <3>1. Placed(q, a1) /\ Placed(q, a2) /\ Placed(q, b1) /\ Placed(q, b2)
      BY <1>2, <2>1, <2>3 DEF Placed
    <3>2. /\ From(q, a1) = p.walls[w].start /\ To(q, a1) = mid
          /\ From(q, a2) = mid /\ To(q, a2) = p.walls[w].end
          /\ From(q, b2) = p.walls[w].end /\ To(q, b2) = mid
          /\ From(q, b1) = mid /\ To(q, b1) = p.walls[w].start
      BY <1>2 DEF From, To
    <3> HIDE DEF a1, a2, b1, b2
    <3>3. /\ a1 \in S /\ a2 \in S /\ b1 \in S /\ b2 \in S
          /\ from[a1] = p.walls[w].start /\ to[a1] = mid
          /\ from[a2] = mid /\ to[a2] = p.walls[w].end
          /\ from[b2] = p.walls[w].end /\ to[b2] = mid
          /\ from[b1] = mid /\ to[b1] = p.walls[w].start
      BY <3>1, <3>2
    <3> HIDE DEF S, from, to
    <3>4. CASE r.dir = 1
      <4>1. ss[i] = <<a1, a2>> /\ From(p, r) = p.walls[w].start /\ To(p, r) = p.walls[w].end
        BY <2>1, <2>3, <3>4 DEF From, To
      <4>2. Chain(S, from, to, ss[i]) /\ Opening(ss[i]) = a1 /\ Ending(ss[i]) = a2
        <5>1. a1 \in S /\ a2 \in S /\ Leads(from, to, a1, a2)
          BY <3>3 DEF Leads
        <5>2. Pair(ss[i], a1, a2)
          BY <4>1 DEF Pair
        <5> QED
          BY ONLY <5>1, <5>2, TwoChain
      <4> QED
        BY <3>3, <4>1, <4>2 DEF r
    <3>5. CASE r.dir # 1
      <4>1. ss[i] = <<b2, b1>> /\ From(p, r) = p.walls[w].end /\ To(p, r) = p.walls[w].start
        BY <2>1, <2>3, <3>5 DEF From, To
      <4>2. Chain(S, from, to, ss[i]) /\ Opening(ss[i]) = b2 /\ Ending(ss[i]) = b1
        <5>1. b2 \in S /\ b1 \in S /\ Leads(from, to, b2, b1)
          BY <3>3 DEF Leads
        <5>2. Pair(ss[i], b2, b1)
          BY <4>1 DEF Pair
        <5> QED
          BY ONLY <5>1, <5>2, TwoChain
      <4> QED
        BY <3>3, <4>1, <4>2 DEF r
    <3> QED
      BY <3>4, <3>5
  <2> QED
    BY <2>2, <2>3
<1>5. ss = [i \in 1..n |-> ss[i]] /\ n # 0
  BY <1>1
<1> HIDE DEF ss, S, from, to, c, n
<1>6. c \in Seq(S) /\ Len(c) >= n
  <2> DEFINE none == [r \in S |-> 0]
  <2>1. n \in Nat /\ n # 0 /\ ss = [i \in 1..n |-> ss[i]] /\ c = FlattenSeq(ss)
    BY <1>1, <1>3, <1>5
  <2>2. ASSUME NEW s, Chain(S, from, to, s)
        PROVE  Chain(S, none, none, s) /\ none[Opening(s)] = 0 /\ none[Ending(s)] = 0
    <3>1. s \in Seq(S) /\ Len(s) \in Nat /\ Len(s) > 0 /\ \A k \in 1..Len(s) : s[k] \in S
      BY <2>2, LenProperties, ElementOfSeq DEF Chain
    <3>2. \A k \in 1..Len(s) : none[s[k]] = 0
      BY <3>1
    <3>3. /\ \A k \in 1..Len(s) - 1 : k \in 1..Len(s) /\ k + 1 \in 1..Len(s)
          /\ 1 \in 1..Len(s) /\ Len(s) \in 1..Len(s)
      BY <3>1
    <3> HIDE DEF none
    <3>4. Linked(none, none, s)
      BY <3>2, <3>3 DEF Linked
    <3> QED
      BY <3>1, <3>2, <3>3, <3>4 DEF Chain, Opening, Ending
  <2> HIDE DEF none
  <2>3. /\ \A i \in 1..n : Chain(S, none, none, ss[i])
        /\ \A i \in 1..n : i > 1 => Meet(none, none, ss[i - 1], ss[i])
    <3>1. \A i \in 1..n : i > 1 => i - 1 \in 1..n
      BY <1>1
    <3> QED
      BY <1>4, <2>2, <3>1 DEF Meet
  <2>4. Chain(S, none, none, c) /\ Len(c) >= n
    BY ONLY <2>1, <2>3, FlattenChain
  <2> QED
    BY <2>4 DEF Chain
<1>7. /\ Whole(c) /\ Len(c) \in Nat /\ DOMAIN c = 1..Len(c) /\ Len(c) >= 3
      /\ \A i \in 1..Len(c) : c[i] \in S
  BY <1>1, <1>6, WholeSeq, ElementOfSeq
<1>8. \A x \in S : Placed(q, x) /\ from[x] = From(q, x) /\ to[x] = To(q, x)
  BY DEF S, from, to
<1>9. ASSUME ClosedFiles PROVE Round(q, c)
  <2>1. Round(p, refs)
    BY <1>9 DEF Outline
  <2>2. ASSUME NEW i \in 1..n, i > 1 PROVE Meet(from, to, ss[i - 1], ss[i])
    <3>1. i - 1 \in 1..n /\ i - 1 \in 1..n - 1 /\ i - 1 + 1 = i
      BY <1>1, <2>2
    <3>2. To(p, refs[i - 1]) = From(p, refs[i - 1 + 1])
      BY <2>1, <3>1 DEF Round, n
    <3> QED
      BY <1>4, <3>1, <3>2 DEF Meet
  <2>3. /\ Chain(S, from, to, c) /\ Len(c) >= n
        /\ Opening(c) = Opening(ss[1]) /\ Ending(c) = Ending(ss[n])
    <3>1. n \in Nat /\ n # 0 /\ ss = [i \in 1..n |-> ss[i]] /\ c = FlattenSeq(ss)
      BY <1>1, <1>3, <1>5
    <3>2. /\ \A i \in 1..n : Chain(S, from, to, ss[i])
          /\ \A i \in 1..n : i > 1 => Meet(from, to, ss[i - 1], ss[i])
      BY <1>4, <2>2
    <3> QED
      BY ONLY <3>1, <3>2, FlattenChain
  <2>4. to[Ending(c)] = from[Opening(c)]
    <3>1. 1 \in 1..n /\ n \in 1..n
      BY <1>1
    <3>2. To(p, refs[n]) = From(p, refs[1])
      BY <2>1 DEF Round, n
    <3> QED
      BY <1>4, <2>3, <3>1, <3>2
  <2>5. ASSUME NEW i \in 1..Len(c) - 1 PROVE To(q, c[i]) = From(q, c[i + 1])
    <3>1. i \in 1..Len(c) /\ i + 1 \in 1..Len(c)
      BY <1>7
    <3>2. to[c[i]] = from[c[i + 1]]
      BY <2>3 DEF Chain, Linked
    <3> QED
      BY <1>7, <1>8, <3>1, <3>2
  <2>6. To(q, c[Len(c)]) = From(q, c[1])
    <3>1. 1 \in 1..Len(c) /\ Len(c) \in 1..Len(c)
      BY <1>7
    <3> QED
      BY <1>7, <1>8, <2>4, <3>1 DEF Opening, Ending
  <2> QED
    BY <2>5, <2>6 DEF Round
<1> QED
  BY <1>7, <1>8, <1>9 DEF Outline, c

-----------------------------------------------------------------------------
(* What a step of the editor does to the versions of the floors. *)

HistInv ==
    /\ plans = [f \in Floors |-> plans[f]] /\ hist = [f \in Floors |-> hist[f]]
    /\ \A f \in Floors : Stacked(hist[f])

\* A wall no outline runs through.
Unused(plan, w) ==
    \A refs \in {plan.exterior} \cup {r.boundary : r \in Elements(plan.rooms)} :
        \A i \in DOMAIN refs : refs[i].wall # w

\* q is what one edit makes of p.
IsEdit(p, q) ==
    \/ \E a, b : q = WithWall(p, a, b)
    \/ \E w : Unused(p, w) /\ q = WithoutWall(p, w)
    \/ \E w \in DOMAIN p.walls : q = WithSplitWall(p, w)
    \/ \E w \in DOMAIN p.walls, pos \in 0..4 : \E id : q = WithDoor(p, id, w, pos)
    \/ \E w \in DOMAIN p.walls, kind \in {"line", "arc"} : q = WithWallType(p, w, kind)
    \/ \E w \in DOMAIN p.walls : \E bulge : q = WithWallBulge(p, w, bulge)
    \/ \E pos \in 0..4 : \E id : q = WithDoorAt(p, id, pos)
    \/ \E id : q = WithoutDoor(p, id)
    \/ \E field \in {"status", "spot"} : \E id, value : q = WithRoom(p, id, field, value)
    \/ \E k, at : q = [p EXCEPT !.points = With(@, k, at)]

\* The versions of all floors but f are as they were.
OthersAsBefore(f) == \A g \in Floors \ {f} : Lines'[g] = Lines[g]

\* The active floor has at most one version more, an edit of the one shown.
Worked ==
    /\ listed' = listed /\ OthersAsBefore(active)
    /\ \/ Lines'[active] \subseteq Line(active)
       \/ \E q : IsEdit(ThePlan, q) /\ Lines'[active] \subseteq Line(active) \cup {q}

\* A floor starts anew with a plan that passed the schema.
Imported(p) ==
    /\ FloorPlanSchema(p) /\ p.id \in Floors
    /\ listed' = listed \cup {p.id} /\ OthersAsBefore(p.id) /\ Lines'[p.id] = {p}

LEMMA Committed ==
  ASSUME HistInv, active \in Floors, NEW q, Commit(active, q)
  PROVE  /\ HistInv' /\ OthersAsBefore(active)
         /\ Lines'[active] \subseteq Line(active) \cup {q}
         /\ plans'[active] = q
<1>1. /\ hist' = [hist EXCEPT ![active] = Push(@, plans[active])]
      /\ plans' = [plans EXCEPT ![active] = q]
  BY DEF Commit
<1>2. /\ Stacked(Push(hist[active], plans[active]))
      /\ Kept(Push(hist[active], plans[active])) \subseteq Line(active)
  BY PushStacks DEF HistInv, Lines, Line
<1>3. /\ hist'[active] = Push(hist[active], plans[active]) /\ plans'[active] = q
      /\ \A g \in Floors \ {active} : hist'[g] = hist[g] /\ plans'[g] = plans[g]
      /\ plans' = [f \in Floors |-> plans'[f]] /\ hist' = [f \in Floors |-> hist'[f]]
  BY <1>1 DEF HistInv
<1>4. HistInv'
  BY <1>2, <1>3 DEF HistInv
<1> QED
  BY <1>2, <1>3, <1>4 DEF Lines, Line, OthersAsBefore

LEMMA GestureBegun ==
  ASSUME HistInv, active \in Floors, BeginGesture(active)
  PROVE  HistInv' /\ OthersAsBefore(active) /\ Lines'[active] \subseteq Line(active)
<1>1. hist' = [hist EXCEPT ![active] = Push(@, plans[active])] /\ plans' = plans
  BY DEF BeginGesture
<1>2. /\ Stacked(Push(hist[active], plans[active]))
      /\ Kept(Push(hist[active], plans[active])) \subseteq Line(active)
  BY PushStacks DEF HistInv, Lines, Line
<1>3. /\ hist'[active] = Push(hist[active], plans[active])
      /\ \A g \in Floors \ {active} : hist'[g] = hist[g]
      /\ hist' = [f \in Floors |-> hist'[f]]
  BY <1>1 DEF HistInv
<1>4. HistInv'
  BY <1>1, <1>2, <1>3 DEF HistInv
<1> QED
  BY <1>1, <1>2, <1>3, <1>4 DEF Lines, Line, OthersAsBefore

LEMMA Revised ==
  ASSUME HistInv, active \in Floors, NEW q, Revise(active, q)
  PROVE  /\ HistInv' /\ OthersAsBefore(active)
         /\ Lines'[active] \subseteq Line(active) \cup {q}
  BY DEF Revise, HistInv, Lines, Line, OthersAsBefore

\* Undo and redo show a version that was there.
LEMMA Stepped ==
  ASSUME HistInv, active \in Floors, UndoStep(active) \/ RedoStep(active)
  PROVE  HistInv' /\ OthersAsBefore(active) /\ Lines'[active] \subseteq Line(active)
<1>1. PICK h, q : /\ Stacked(h) /\ Kept(h) \subseteq Line(active) /\ q \in Line(active)
                  /\ plans' = [plans EXCEPT ![active] = q]
                  /\ hist' = [hist EXCEPT ![active] = h]
  <2>1. Stacked(hist[active])
    BY DEF HistInv
  <2>2. CASE UndoStep(active)
    <3> DEFINE h == Undone(hist[active], plans[active])
               q == hist[active].past[Len(hist[active].past)]
    <3>1. /\ hist[active].past # <<>> /\ plans' = [plans EXCEPT ![active] = q]
          /\ hist' = [hist EXCEPT ![active] = h]
      BY <2>2 DEF UndoStep, CanUndo
    <3>2. Stacked(h) /\ Kept(h) \subseteq Line(active) /\ q \in Line(active)
      BY <2>1, <3>1, UndoStacks DEF Lines, Line
    <3> HIDE DEF h, q
    <3> QED
      BY <3>1, <3>2
  <2>3. CASE RedoStep(active)
    <3> DEFINE h == Redone(hist[active], plans[active])
               q == Head(hist[active].future)
    <3>1. /\ hist[active].future # <<>> /\ plans' = [plans EXCEPT ![active] = q]
          /\ hist' = [hist EXCEPT ![active] = h]
      BY <2>3 DEF RedoStep, CanRedo
    <3>2. Stacked(h) /\ Kept(h) \subseteq Line(active) /\ q \in Line(active)
      BY <2>1, <3>1, RedoStacks DEF Lines, Line
    <3> HIDE DEF h, q
    <3> QED
      BY <3>1, <3>2
  <2> QED
    BY <2>2, <2>3
<1>2. /\ hist'[active] = h /\ plans'[active] = q
      /\ \A g \in Floors \ {active} : hist'[g] = hist[g] /\ plans'[g] = plans[g]
      /\ plans' = [f \in Floors |-> plans'[f]] /\ hist' = [f \in Floors |-> hist'[f]]
  BY <1>1 DEF HistInv
<1>3. HistInv'
  BY <1>1, <1>2 DEF HistInv
<1> QED
  BY <1>1, <1>2, <1>3 DEF Lines, Line, OthersAsBefore

LEMMA TakenOver ==
  ASSUME HistInv, NEW f \in Floors, NEW p, TakeOver(f, p)
  PROVE  HistInv' /\ OthersAsBefore(f) /\ Lines'[f] = {p}
<1>1. /\ hist' = [hist EXCEPT ![f] = EmptyHistory] /\ plans' = [plans EXCEPT ![f] = p]
  BY DEF TakeOver
<1>2. /\ hist'[f] = EmptyHistory /\ plans'[f] = p
      /\ \A g \in Floors \ {f} : hist'[g] = hist[g] /\ plans'[g] = plans[g]
      /\ plans' = [g \in Floors |-> plans'[g]] /\ hist' = [g \in Floors |-> hist'[g]]
  BY <1>1 DEF HistInv
<1>3. HistInv'
  BY <1>2, NothingStacked DEF HistInv
<1> QED
  BY <1>2, <1>3, NothingStacked DEF Lines, Line, OthersAsBefore

-----------------------------------------------------------------------------
(* What a step of the editor shows. *)

UiTyped ==
    /\ listed \subseteq Floors /\ active \in Floors
    /\ listed # {} => active \in listed
    /\ DOMAIN sel = {"wall", "door", "pending"}
    /\ mode \in {"view", "edit"} /\ tool \in Tools
    /\ pressed \in {"no", "handle", "label"}
    /\ edits \in 0..MaxEdits

\* Before a step, and after it.
Ready ==
    /\ HistInv /\ UiTyped /\ IssuesAreCurrent
    /\ listed # {} /\ ThePlan.id \in Floors

Shown ==
    /\ HistInv' /\ UiTyped' /\ IssuesAreCurrent'
    /\ \/ /\ Worked
          /\ \/ active' = active /\ room' \in {"", room} \cup RoomIds(ThePlan)
             \/ active' \in listed /\ room' = ""
       \/ \E p \in Files \cup {ThePlan} :
            Imported(p) /\ active' = p.id /\ room' = ""

\* Nothing but the selection, the tool or the mode.
LEMMA BesideThePlans ==
  ASSUME Ready, UNCHANGED <<plans, hist, listed>>, UiTyped', IssuesAreCurrent',
         \/ active' = active /\ room' \in {"", room} \cup RoomIds(ThePlan)
         \/ active' \in listed /\ room' = ""
  PROVE  Shown
<1>1. HistInv'
  BY DEF Ready, HistInv
<1>2. Lines' = Lines /\ \A f \in Floors : Lines[f] = Line(f)
  BY DEF Lines, Line
<1>3. Worked
  BY <1>2 DEF Worked, OthersAsBefore, Ready, UiTyped
<1> QED
  BY <1>1, <1>3 DEF Shown

\* A recorded change.
LEMMA EditShown ==
  ASSUME Ready, NEW q, IsEdit(ThePlan, q), Edit(q), UNCHANGED <<listed, active, room>>,
         DOMAIN sel' = DOMAIN sel, mode' = mode, tool' = tool,
         pressed' \in {pressed, "handle"}
  PROVE  Shown
<1>1. active \in Floors /\ HistInv
  BY DEF Ready, UiTyped
<1>2. Commit(active, q) /\ issues' = ValidateFloor(q) /\ edits < MaxEdits /\ edits' = edits + 1
  BY DEF Edit
<1>3. /\ HistInv' /\ OthersAsBefore(active) /\ plans'[active] = q
      /\ Lines'[active] \subseteq Line(active) \cup {q}
  BY <1>1, <1>2, Committed
<1>4. Worked
  BY <1>3 DEF Worked
<1>5. IssuesAreCurrent'
  BY <1>2, <1>3 DEF IssuesAreCurrent, ThePlan
<1>6. UiTyped'
  BY <1>2, EditorAssumption DEF Ready, UiTyped
<1> QED
  BY <1>3, <1>4, <1>5, <1>6 DEF Shown

LEMMA ClicksShown ==
  ASSUME Ready,
         \/ \E f \in listed : SetActiveFloor(f)
         \/ SetMode
         \/ \E t \in Tools : SetTool(t)
         \/ Deselect
         \/ \E w : SelectWall(w) \/ SelectDoor(w)
         \/ \E r \in Elements(ThePlan.rooms) : SelectRoom(r) \/ GrabLabel(r)
         \/ ReleaseLabel \/ ReleasePoint
  PROVE  Shown
<1> USE DEF Ready
<1>1. ASSUME NEW f \in listed, SetActiveFloor(f) PROVE Shown
  BY <1>1, BesideThePlans DEF SetActiveFloor, UiTyped, IssuesAreCurrent, ThePlan, NoSel
<1>2. ASSUME SetMode PROVE Shown
  <2>1. edits' \in 0..MaxEdits
    BY <1>2, EditorAssumption DEF SetMode, UiTyped
  <2> QED
    BY <1>2, <2>1, BesideThePlans DEF SetMode, UiTyped, IssuesAreCurrent, ThePlan, NoSel, Tools
<1>3. ASSUME NEW t \in Tools, SetTool(t) PROVE Shown
  BY <1>3, BesideThePlans DEF SetTool, UiTyped, IssuesAreCurrent, ThePlan
<1>4. ASSUME Deselect PROVE Shown
  BY <1>4, BesideThePlans DEF Deselect, UiTyped, IssuesAreCurrent, ThePlan, NoSel, Unselected
<1>5. ASSUME NEW w, SelectWall(w) \/ SelectDoor(w) PROVE Shown
  BY <1>5, BesideThePlans
  DEF SelectWall, SelectDoor, UiTyped, IssuesAreCurrent, ThePlan, NoSel, Selected
<1>6. ASSUME NEW r \in Elements(ThePlan.rooms), SelectRoom(r) \/ GrabLabel(r) PROVE Shown
  <2>1. r.id \in RoomIds(ThePlan)
    BY DEF RoomIds, IdsOf, Elements
  <2> QED
    BY <1>6, <2>1, BesideThePlans DEF SelectRoom, GrabLabel, UiTyped, IssuesAreCurrent, ThePlan
<1>7. ASSUME ReleaseLabel PROVE Shown
  <2>1. edits' = edits \/ (edits < MaxEdits /\ edits' = edits + 1)
    BY <1>7 DEF ReleaseLabel
  <2>2. edits \in 0..MaxEdits /\ MaxEdits \in Nat
    BY EditorAssumption DEF UiTyped
  <2>3. edits' \in 0..MaxEdits
    BY <2>1, <2>2
  <2>4. UNCHANGED <<plans, hist, table, listed, active, room, sel, mode, tool, issues, drag>>
    BY <1>7 DEF ReleaseLabel
  <2>5. UiTyped' /\ IssuesAreCurrent'
    BY <1>7, <2>3, <2>4 DEF ReleaseLabel, UiTyped, IssuesAreCurrent, ThePlan
  <2> QED
    BY <2>4, <2>5, BesideThePlans
<1>8. ASSUME ReleasePoint PROVE Shown
  BY <1>8, BesideThePlans DEF ReleasePoint, UiTyped, IssuesAreCurrent, ThePlan
<1> QED
  BY <1>1, <1>2, <1>3, <1>4, <1>5, <1>6, <1>7, <1>8

LEMMA WallsShown ==
  ASSUME Ready, OnWalls
  PROVE  Shown
<1>1. PICK w \in Reachable(DOMAIN ThePlan.walls, "walls") :
        \/ SelectWall(w) \/ DeleteWall(w) \/ SplitWall(w) \/ SplitThrows(w)
        \/ \E pos \in {1, 2} : AddDoor(w, pos)
  BY DEF OnWalls
<1>2. w \in DOMAIN ThePlan.walls
  BY DEF Reachable
<1>3. ASSUME SelectWall(w) PROVE Shown
  BY <1>3, ClicksShown
<1>4. ASSUME DeleteWall(w) PROVE Shown
  <2>1. Edit(WithoutWall(ThePlan, w)) /\ Unused(ThePlan, w)
    BY <1>4 DEF DeleteWall, Unused
  <2>2. IsEdit(ThePlan, WithoutWall(ThePlan, w))
    BY <2>1 DEF IsEdit
  <2> QED
    BY <1>4, <2>1, <2>2, EditShown DEF DeleteWall, Ready, UiTyped
<1>5. ASSUME SplitWall(w) PROVE Shown
  <2>1. IsEdit(ThePlan, WithSplitWall(ThePlan, w))
    BY <1>2 DEF IsEdit
  <2> QED
    BY <1>5, <2>1, EditShown DEF SplitWall, Ready, UiTyped
<1>6. ASSUME NEW pos \in {1, 2}, AddDoor(w, pos) PROVE Shown
  <2>1. PICK id : /\ Edit(WithDoor(ThePlan, id, w, pos)) /\ sel' = Selected("door", id)
                  /\ UNCHANGED <<table, listed, active, room, mode, tool, drag, held, pressed>>
    BY <1>6 DEF AddDoor
  <2>2. IsEdit(ThePlan, WithDoor(ThePlan, id, w, pos))
    BY <1>2 DEF IsEdit
  <2>3. DOMAIN sel' = DOMAIN sel
    BY <2>1 DEF Selected, NoSel, Ready, UiTyped
  <2> QED
    BY <2>1, <2>2, <2>3, EditShown
<1>7. ASSUME SplitThrows(w) PROVE Shown
  <2>1. active \in Floors /\ BeginGesture(active) /\ UNCHANGED <<table, uiVars, edits>>
    BY <1>7 DEF SplitThrows, Ready, UiTyped
  <2>2. HistInv' /\ OthersAsBefore(active) /\ Lines'[active] \subseteq Line(active)
    BY <2>1, GestureBegun DEF Ready
  <2>3. UNCHANGED <<plans, listed, active, room, sel, mode, tool, issues, drag, pressed, edits>>
    BY <2>1 DEF BeginGesture, uiVars
  <2>4. UiTyped' /\ IssuesAreCurrent'
    BY <2>3 DEF Ready, UiTyped, IssuesAreCurrent, ThePlan
  <2> QED
    BY <2>2, <2>3, <2>4 DEF Shown, Worked
<1> QED
  BY <1>1, <1>3, <1>4, <1>5, <1>6, <1>7

\* While a point is dragged the issues may be old; a point is never 0.
LEMMA PointsShown ==
  ASSUME Ready, OnPoints
  PROVE  Shown
<1> DEFINE Same == UNCHANGED <<table, listed, active, room, mode, tool, drag>>
<1>1. ASSUME NEW p \in Reachable(DOMAIN ThePlan.points, "points"), GrabPoint(p) PROVE Shown
  <2>1. p # 0 /\ active \in Floors
    BY EditorAssumption DEF Reachable, Ready, UiTyped
  <2>2. drag' # NoDrag
    BY <1>1, <2>1 DEF GrabPoint, NoDrag
  <2>3. HistInv' /\ OthersAsBefore(active) /\ Lines'[active] \subseteq Line(active)
    BY <1>1, <2>1, GestureBegun DEF GrabPoint, Ready
  <2>4. edits' \in 0..MaxEdits
    BY <1>1, EditorAssumption DEF GrabPoint, Editing, Ready, UiTyped
  <2>5. UiTyped'
    BY <1>1, <2>4 DEF GrabPoint, Ready, UiTyped, Unselected, NoSel
  <2> QED
    BY <1>1, <2>2, <2>3, <2>5 DEF GrabPoint, Shown, Worked, IssuesAreCurrent
<1>2. ASSUME NEW p, ClickPointForWall(p) PROVE Shown
  <2>1. Same /\ pressed' = "handle" /\ DOMAIN sel' = DOMAIN sel
    BY <1>2 DEF ClickPointForWall
  <2>2. CASE Edit(WithWall(ThePlan, sel.pending, p))
    <3>1. IsEdit(ThePlan, WithWall(ThePlan, sel.pending, p))
      BY DEF IsEdit
    <3> QED
      BY <2>1, <2>2, <3>1, EditShown
  <2>3. CASE UNCHANGED <<plans, hist, issues, edits>>
    <3>1. UiTyped' /\ IssuesAreCurrent'
      BY <2>1, <2>3 DEF Ready, UiTyped, IssuesAreCurrent, ThePlan
    <3> QED
      BY <2>1, <2>3, <3>1, BesideThePlans
  <2> QED
    BY <1>2, <2>2, <2>3 DEF ClickPointForWall
<1>3. ASSUME NEW raw, NEW alt, MovePoint(raw, alt) PROVE Shown
  <2>1. PICK at : /\ Revise(active, [ThePlan EXCEPT !.points = With(@, drag.point, at)])
                  /\ drag # NoDrag /\ UNCHANGED <<table, uiVars, edits>>
    BY <1>3 DEF MovePoint
  <2> DEFINE q == [ThePlan EXCEPT !.points = With(@, drag.point, at)]
  <2>2. IsEdit(ThePlan, q)
    BY DEF IsEdit
  <2>3. Revise(active, q)
    BY <2>1
  <2> HIDE DEF q
  <2>4. active \in Floors /\ HistInv
    BY DEF Ready, UiTyped
  <2>5. HistInv' /\ OthersAsBefore(active) /\ Lines'[active] \subseteq Line(active) \cup {q}
    BY <2>3, <2>4, Revised
  <2> QED
    BY <2>1, <2>2, <2>5 DEF Ready, Shown, Worked, UiTyped, IssuesAreCurrent, uiVars
<1>4. ASSUME ReleasePoint PROVE Shown
  BY <1>4, ClicksShown
<1> QED
  BY <1>1, <1>2, <1>3, <1>4 DEF OnPoints

LEMMA RoomsShown ==
  ASSUME Ready, OnRooms
  PROVE  Shown
<1>1. ASSUME NEW at, MoveLabel(at) PROVE Shown
  <2>1. IsEdit(ThePlan, WithRoom(ThePlan, held, "spot", at))
    BY DEF IsEdit
  <2> QED
    BY <1>1, <2>1, EditShown DEF MoveLabel
<1>2. ASSUME UpdateRoom("busy") PROVE Shown
  <2>1. IsEdit(ThePlan, WithRoom(ThePlan, room, "status", "busy"))
    BY DEF IsEdit
  <2> QED
    BY <1>2, <2>1, EditShown DEF UpdateRoom
<1> QED
  BY <1>1, <1>2, ClicksShown DEF OnRooms

LEMMA ImportShown ==
  ASSUME Ready, NEW p \in Files \cup {ThePlan}, Import(p)
  PROVE  Shown
<1>1. p.id \in Floors
  BY EditorAssumption DEF Ready
<1>2. /\ FloorPlanSchema(p) /\ TakeOver(p.id, p) /\ listed' = listed \cup {p.id}
      /\ active' = p.id /\ room' = "" /\ issues' = ValidateFloor(p)
      /\ edits < MaxEdits /\ edits' = edits + 1
      /\ UNCHANGED <<table, sel, mode, tool, drag, held, pressed>>
  BY DEF Import
<1>3. HistInv' /\ OthersAsBefore(p.id) /\ Lines'[p.id] = {p}
  BY <1>1, <1>2, TakenOver DEF Ready
<1>4. plans'[p.id] = p
  BY <1>1, <1>3 DEF Lines, Line
<1>5. UiTyped'
  <2>1. edits' \in 0..MaxEdits
    <3>1. MaxEdits \in Nat /\ edits \in 0..MaxEdits
      BY EditorAssumption DEF Ready, UiTyped
    <3>2. edits < MaxEdits /\ edits' = edits + 1
      BY <1>2
    <3> QED
      BY ONLY <3>1, <3>2
  <2>2. listed' \subseteq Floors /\ active' \in Floors /\ active' \in listed'
    BY <1>1, <1>2 DEF Ready, UiTyped
  <2> QED
    BY <1>2, <2>1, <2>2 DEF Ready, UiTyped
<1>6. IssuesAreCurrent'
  BY <1>2, <1>4 DEF IssuesAreCurrent, ThePlan
<1> QED
  BY <1>1, <1>2, <1>3, <1>5, <1>6 DEF Shown, Imported

LEMMA PanelShown ==
  ASSUME Ready, OnPanel
  PROVE  Shown
<1>1. ASSUME NEW d, SelectDoor(d) PROVE Shown
  BY <1>1, ClicksShown
<1>2. ASSUME NEW kind \in {"line", "arc"}, SetWallType(kind) PROVE Shown
  <2>1. IsEdit(ThePlan, WithWallType(ThePlan, sel.wall, kind))
    BY <1>2 DEF IsEdit, SetWallType
  <2> QED
    BY <1>2, <2>1, EditShown DEF SetWallType
<1>3. ASSUME NEW bulge, SetWallBulge(bulge) PROVE Shown
  <2>1. IsEdit(ThePlan, WithWallBulge(ThePlan, sel.wall, bulge))
    BY <1>3 DEF IsEdit, SetWallBulge
  <2> QED
    BY <1>3, <2>1, EditShown DEF SetWallBulge
<1>4. ASSUME UpdateDoor(3) PROVE Shown
  <2>1. IsEdit(ThePlan, WithDoorAt(ThePlan, sel.door, 3))
    <3>1. 3 \in 0..4
      OBVIOUS
    <3> QED
      BY <3>1 DEF IsEdit
  <2> QED
    BY <1>4, <2>1, EditShown DEF UpdateDoor
<1>5. ASSUME DeleteDoor PROVE Shown
  <2>1. IsEdit(ThePlan, WithoutDoor(ThePlan, sel.door))
    BY DEF IsEdit
  <2> QED
    BY <1>5, <2>1, EditShown DEF DeleteDoor, Ready, UiTyped
<1>6. ASSUME NEW p \in Files \cup {ExportJson}, Import(p) PROVE Shown
  BY <1>6, ImportShown DEF ExportJson
<1> QED
  BY <1>1, <1>2, <1>3, <1>4, <1>5, <1>6 DEF OnPanel

LEMMA HistoryShown ==
  ASSUME Ready, UndoKey \/ RedoKey
  PROVE  Shown
<1>1. /\ UndoStep(active) \/ RedoStep(active)
      /\ issues' = ValidateFloor(plans'[active])
      /\ UNCHANGED <<table, listed, active, room, sel, mode, tool, drag, held, pressed, edits>>
  BY DEF UndoKey, RedoKey
<1>2. active \in Floors /\ HistInv
  BY DEF Ready, UiTyped
<1>3. HistInv' /\ OthersAsBefore(active) /\ Lines'[active] \subseteq Line(active)
  BY <1>1, <1>2, Stepped
<1>4. UiTyped' /\ IssuesAreCurrent'
  BY <1>1 DEF Ready, UiTyped, IssuesAreCurrent, ThePlan
<1> QED
  BY <1>1, <1>3, <1>4 DEF Shown, Worked

LEMMA EditorShown ==
  ASSUME Ready, EditorNext
  PROVE  Shown
  BY ClicksShown, WallsShown, PointsShown, RoomsShown, PanelShown, HistoryShown
  DEF EditorNext

-----------------------------------------------------------------------------
(* What an edit may rely on and keeps: the references of a plan mean        *)
(* something, and its contours are outlines.                                *)

WallSound(v) == {"start", "end", "kind", "bulge"} \subseteq DOMAIN v /\ (v.kind = "arc" => v.bulge # 0)

WallsSound(p) ==
    /\ IsFiniteSet(DOMAIN p.walls) /\ DOMAIN p.walls \subseteq Nat
    /\ \A w \in DOMAIN p.walls : WallSound(p.walls[w])

DoorSound(walls, d) == {"wall", "pos"} \subseteq DOMAIN d /\ d.wall \in walls /\ d.pos \in 0..4

DoorsSound(p) ==
    Whole(p.doors) /\ \A i \in DOMAIN p.doors : DoorSound(DOMAIN p.walls, p.doors[i])

RoomsSound(p) ==
    /\ Distinct(IdsOf(p.rooms))
    /\ \A z \in Elements(p.zones) : z.room \in Elements(IdsOf(p.rooms))

OutlinesSound(p) ==
    /\ Outline(p, p.exterior)
    /\ \A i \in DOMAIN p.rooms :
        "boundary" \in DOMAIN p.rooms[i] /\ Outline(p, p.rooms[i].boundary)

Sound(p) == WallsSound(p) /\ DoorsSound(p) /\ RoomsSound(p) /\ OutlinesSound(p)

\* The walls of its outlines and their ends are what an edit must not touch.
LEMMA OutlinesKept ==
  ASSUME NEW p, NEW q, OutlinesSound(p), DOMAIN p.points \subseteq DOMAIN q.points,
         NEW K, \A x \in K : /\ x \in DOMAIN q.walls
                             /\ q.walls[x].start = p.walls[x].start
                             /\ q.walls[x].end = p.walls[x].end,
         \A i \in DOMAIN p.exterior : p.exterior[i].wall \in K,
         \A k \in DOMAIN p.rooms : \A i \in DOMAIN p.rooms[k].boundary :
            p.rooms[k].boundary[i].wall \in K,
         q.exterior = p.exterior, DOMAIN q.rooms = DOMAIN p.rooms,
         \A k \in DOMAIN p.rooms : "boundary" \in DOMAIN q.rooms[k]
                                   /\ q.rooms[k].boundary = p.rooms[k].boundary
  PROVE  OutlinesSound(q)
<1>1. Outline(q, q.exterior)
  <2>1. Outline(p, p.exterior)
    BY DEF OutlinesSound
  <2> QED
    BY <2>1, OutlineKept
<1>2. ASSUME NEW k \in DOMAIN p.rooms PROVE Outline(q, q.rooms[k].boundary)
  <2>1. Outline(p, p.rooms[k].boundary)
    BY DEF OutlinesSound
  <2> QED
    BY <2>1, OutlineKept
<1> QED
  BY <1>1, <1>2 DEF OutlinesSound

LEMMA WallsOfOutlines ==
  ASSUME NEW p, OutlinesSound(p)
  PROVE  /\ \A i \in DOMAIN p.exterior : p.exterior[i].wall \in DOMAIN p.walls
         /\ \A k \in DOMAIN p.rooms : \A i \in DOMAIN p.rooms[k].boundary :
                p.rooms[k].boundary[i].wall \in DOMAIN p.walls
         /\ \E w : w \in DOMAIN p.walls
<1>1. /\ \A i \in DOMAIN p.exterior : p.exterior[i].wall \in DOMAIN p.walls
      /\ \A k \in DOMAIN p.rooms : \A i \in DOMAIN p.rooms[k].boundary :
                p.rooms[k].boundary[i].wall \in DOMAIN p.walls
  BY DEF OutlinesSound, Outline, Placed
<1>2. 1 \in DOMAIN p.exterior
  BY LenProperties DEF OutlinesSound, Outline, Whole
<1> QED
  BY <1>1, <1>2

\* Edits that touch the walls only, the points only or the doors only.
LEMMA FieldAlone ==
  ASSUME NEW p, DOMAIN p = PlanFields, NEW q, NEW x
  PROVE  /\ q = [p EXCEPT !.walls = x] =>
              /\ q.walls = x /\ q.points = p.points /\ q.doors = p.doors
              /\ q.rooms = p.rooms /\ q.zones = p.zones /\ q.exterior = p.exterior
         /\ q = [p EXCEPT !.points = x] =>
              /\ q.walls = p.walls /\ q.points = x /\ q.doors = p.doors
              /\ q.rooms = p.rooms /\ q.zones = p.zones /\ q.exterior = p.exterior
         /\ q = [p EXCEPT !.doors = x] =>
              /\ q.walls = p.walls /\ q.points = p.points /\ q.doors = x
              /\ q.rooms = p.rooms /\ q.zones = p.zones /\ q.exterior = p.exterior
         /\ q = [p EXCEPT !.rooms = x] =>
              /\ q.walls = p.walls /\ q.points = p.points /\ q.doors = p.doors
              /\ q.rooms = x /\ q.zones = p.zones /\ q.exterior = p.exterior
  BY DEF PlanFields

\* More walls, or walls between the same ends.
LEMMA WallsKept ==
  ASSUME NEW p, DOMAIN p = PlanFields, Sound(p), NEW q, NEW walls, q = [p EXCEPT !.walls = walls],
         IsFiniteSet(DOMAIN walls), DOMAIN walls \subseteq Nat,
         \A x \in DOMAIN walls : WallSound(walls[x]),
         \A x \in DOMAIN p.walls : /\ x \in DOMAIN walls
                                   /\ walls[x].start = p.walls[x].start
                                   /\ walls[x].end = p.walls[x].end
  PROVE  Sound(q)
<1>1. /\ q.walls = walls /\ q.points = p.points /\ q.doors = p.doors
      /\ q.rooms = p.rooms /\ q.zones = p.zones /\ q.exterior = p.exterior
  BY FieldAlone
<1> USE DEF Sound
<1>2. WallsSound(q)
  BY <1>1 DEF WallsSound
<1>3. DoorsSound(q)
  BY <1>1 DEF DoorsSound, DoorSound
<1>4. RoomsSound(q)
  BY <1>1 DEF RoomsSound
<1>5. OutlinesSound(q)
  <2>1. \A k \in DOMAIN p.rooms : "boundary" \in DOMAIN p.rooms[k]
    BY DEF OutlinesSound
  <2>2. OutlinesSound(p) /\ DOMAIN p.points \subseteq DOMAIN q.points
    BY <1>1
  <2>3. \A x \in DOMAIN p.walls : /\ x \in DOMAIN q.walls
                                  /\ q.walls[x].start = p.walls[x].start
                                  /\ q.walls[x].end = p.walls[x].end
    BY <1>1
  <2>4. /\ \A i \in DOMAIN p.exterior : p.exterior[i].wall \in DOMAIN p.walls
        /\ \A k \in DOMAIN p.rooms : \A i \in DOMAIN p.rooms[k].boundary :
              p.rooms[k].boundary[i].wall \in DOMAIN p.walls
    BY <2>2, WallsOfOutlines
  <2>5. /\ q.exterior = p.exterior /\ DOMAIN q.rooms = DOMAIN p.rooms
        /\ \A k \in DOMAIN p.rooms : "boundary" \in DOMAIN q.rooms[k]
                                     /\ q.rooms[k].boundary = p.rooms[k].boundary
    BY <1>1, <2>1
  <2> QED
    BY ONLY <2>2, <2>3, <2>4, <2>5, OutlinesKept
<1> QED
  BY <1>2, <1>3, <1>4, <1>5

LEMMA DoorsKept ==
  ASSUME NEW p, DOMAIN p = PlanFields, Sound(p), NEW q, NEW doors, q = [p EXCEPT !.doors = doors],
         Whole(doors), \A i \in DOMAIN doors : DoorSound(DOMAIN p.walls, doors[i])
  PROVE  Sound(q)
<1>1. /\ q.walls = p.walls /\ q.points = p.points /\ q.doors = doors
      /\ q.rooms = p.rooms /\ q.zones = p.zones /\ q.exterior = p.exterior
  BY FieldAlone
<1> USE DEF Sound
<1>2. WallsSound(q) /\ RoomsSound(q)
  BY <1>1 DEF WallsSound, RoomsSound
<1>3. DoorsSound(q)
  BY <1>1 DEF DoorsSound
<1>4. OutlinesSound(q)
  <2>1. \A k \in DOMAIN p.rooms : "boundary" \in DOMAIN p.rooms[k]
    BY DEF OutlinesSound
  <2> QED
    BY <1>1, <2>1, WallsOfOutlines, OutlinesKept
<1> QED
  BY <1>2, <1>3, <1>4

LEMMA WallAdded ==
  ASSUME NEW p, DOMAIN p = PlanFields, Sound(p), NEW a, NEW b, NEW q, q = WithWall(p, a, b)
  PROVE  Sound(q)
<1> DEFINE new == NextId(DOMAIN p.walls)
           wall == [start |-> a, end |-> b, kind |-> "line", bulge |-> 0,
                    ext |-> FALSE, virtual |-> FALSE]
           walls == With(p.walls, new, wall)
<1>1. q = [p EXCEPT !.walls = walls]
  BY DEF WithWall
<1>2. new \in Nat /\ new \notin DOMAIN p.walls
  BY NextIdIsFree, WallsOfOutlines DEF Sound, WallsSound
<1>3. WallSound(wall)
  BY DEF WallSound
<1> HIDE DEF new, wall
<1>4. /\ DOMAIN walls = DOMAIN p.walls \cup {new} /\ walls[new] = wall
      /\ \A x \in DOMAIN p.walls : walls[x] = p.walls[x]
  BY <1>2 DEF With
<1> HIDE DEF walls
<1>5. IsFiniteSet(DOMAIN walls) /\ DOMAIN walls \subseteq Nat
  BY <1>2, <1>4, FS_AddElement DEF Sound, WallsSound
<1>6. \A x \in DOMAIN walls : WallSound(walls[x])
  BY <1>3, <1>4 DEF Sound, WallsSound
<1> QED
  BY <1>1, <1>4, <1>5, <1>6, WallsKept

LEMMA WallChanged ==
  ASSUME NEW p, DOMAIN p = PlanFields, Sound(p), NEW w \in DOMAIN p.walls, NEW v, WallSound(v),
         v.start = p.walls[w].start, v.end = p.walls[w].end,
         NEW q, q = [p EXCEPT !.walls = [p.walls EXCEPT ![w] = v]]
  PROVE  Sound(q)
<1> DEFINE walls == [p.walls EXCEPT ![w] = v]
<1>1. q = [p EXCEPT !.walls = walls]
  OBVIOUS
<1>2. /\ DOMAIN walls = DOMAIN p.walls /\ walls[w] = v
      /\ \A x \in DOMAIN p.walls : x # w => walls[x] = p.walls[x]
  OBVIOUS
<1> HIDE DEF walls
<1>3. \A x \in DOMAIN walls : WallSound(walls[x])
  BY <1>2 DEF Sound, WallsSound
<1>4. IsFiniteSet(DOMAIN walls) /\ DOMAIN walls \subseteq Nat
  BY <1>2 DEF Sound, WallsSound
<1>5. \A x \in DOMAIN p.walls : /\ x \in DOMAIN walls
                                /\ walls[x].start = p.walls[x].start
                                /\ walls[x].end = p.walls[x].end
  BY <1>2
<1> QED
  BY <1>1, <1>3, <1>4, <1>5, WallsKept

LEMMA WallRetyped ==
  ASSUME NEW p, DOMAIN p = PlanFields, Sound(p), NEW w \in DOMAIN p.walls,
         NEW kind \in {"line", "arc"}, NEW q, q = WithWallType(p, w, kind)
  PROVE  Sound(q)
<1> DEFINE old == p.walls[w]
           bulge == IF kind = "line" THEN 0 ELSE IF old.bulge = 0 THEN 1 ELSE old.bulge
           v == [old EXCEPT !.kind = kind, !.bulge = bulge]
<1>1. {"start", "end", "kind", "bulge"} \subseteq DOMAIN old
  BY DEF Sound, WallsSound, WallSound
<1>2. WallSound(v) /\ v.start = old.start /\ v.end = old.end
  BY <1>1 DEF WallSound
<1>3. q = [p EXCEPT !.walls[w] = v]
  BY DEF WithWallType
<1> HIDE DEF v
<1>4. q = [p EXCEPT !.walls = [p.walls EXCEPT ![w] = v]]
  BY <1>3
<1> QED
  BY <1>2, <1>4, WallChanged

LEMMA WallArched ==
  ASSUME NEW p, DOMAIN p = PlanFields, Sound(p), NEW w \in DOMAIN p.walls, NEW bulge,
         NEW q, q = WithWallBulge(p, w, bulge)
  PROVE  Sound(q)
<1> DEFINE old == p.walls[w]
           drawn == IF bulge = 0 THEN 1 ELSE bulge
           v == [old EXCEPT !.kind = "arc", !.bulge = drawn]
<1>1. {"start", "end", "kind", "bulge"} \subseteq DOMAIN old
  BY DEF Sound, WallsSound, WallSound
<1>2. WallSound(v) /\ v.start = old.start /\ v.end = old.end
  BY <1>1 DEF WallSound
<1>3. q = [p EXCEPT !.walls[w] = v]
  BY DEF WithWallBulge
<1> HIDE DEF v
<1>4. q = [p EXCEPT !.walls = [p.walls EXCEPT ![w] = v]]
  BY <1>3
<1> QED
  BY <1>2, <1>4, WallChanged

\* Without a wall no contour runs through, and without its doors.
LEMMA WallRemoved ==
  ASSUME NEW p, DOMAIN p = PlanFields, Sound(p), NEW w, Unused(p, w), NEW q, q = WithoutWall(p, w)
  PROVE  Sound(q)
<1> DEFINE walls == Without(p.walls, w)
           K == {d \in Elements(p.doors) : d.wall # w}
           parts == [i \in DOMAIN p.doors |-> IF p.doors[i].wall # w THEN <<p.doors[i]>> ELSE <<>>]
           doors == FlattenSeq(parts)
<1>1. /\ q.walls = walls /\ q.points = p.points /\ q.doors = doors
      /\ q.rooms = p.rooms /\ q.zones = p.zones /\ q.exterior = p.exterior
  BY DEF WithoutWall, Sifted, PlanFields
<1>2. Whole(doors) /\ \A i \in DOMAIN doors : doors[i] \in K
  <2>1. Whole(p.doors)
    BY DEF Sound, DoorsSound
  <2>2. \A i \in DOMAIN p.doors :
          parts[i] = <<>> \/ (p.doors[i] \in K /\ parts[i] = <<p.doors[i]>>)
    BY DEF Elements
  <2>3. DOMAIN parts = DOMAIN p.doors /\ parts = [i \in DOMAIN p.doors |-> parts[i]]
    OBVIOUS
  <2> HIDE DEF parts, K
  <2> QED
    BY <2>1, <2>2, <2>3, SiftedIn
<1> HIDE DEF doors
<1>3. DOMAIN walls = DOMAIN p.walls \ {w} /\ \A x \in DOMAIN walls : walls[x] = p.walls[x]
  BY DEF Without
<1> HIDE DEF walls
<1> USE DEF Sound
<1>4. WallsSound(q)
  <2>1. IsFiniteSet(DOMAIN walls)
    BY <1>3, FS_Subset DEF WallsSound
  <2> QED
    BY <1>1, <1>3, <2>1 DEF WallsSound
<1>5. DoorsSound(q)
  <2>1. \A d \in K : DoorSound(DOMAIN walls, d)
    BY <1>3 DEF DoorsSound, DoorSound, Elements
  <2> HIDE DEF K
  <2> QED
    BY <1>1, <1>2, <2>1 DEF DoorsSound
<1>6. RoomsSound(q)
  BY <1>1 DEF RoomsSound
<1>7. OutlinesSound(q)
  <2> DEFINE R == DOMAIN p.walls \ {w}
  <2>1. \A k \in DOMAIN p.rooms : "boundary" \in DOMAIN p.rooms[k]
    BY DEF OutlinesSound
  <2>2. OutlinesSound(p) /\ DOMAIN p.points \subseteq DOMAIN q.points
    BY <1>1
  <2>3. \A x \in R : /\ x \in DOMAIN q.walls
                     /\ q.walls[x].start = p.walls[x].start
                     /\ q.walls[x].end = p.walls[x].end
    BY <1>1, <1>3
  <2>4. /\ \A i \in DOMAIN p.exterior : p.exterior[i].wall \in R
        /\ \A k \in DOMAIN p.rooms : \A i \in DOMAIN p.rooms[k].boundary :
              p.rooms[k].boundary[i].wall \in R
    <3>1. /\ \A i \in DOMAIN p.exterior : p.exterior[i].wall # w
          /\ \A k \in DOMAIN p.rooms : \A i \in DOMAIN p.rooms[k].boundary :
                p.rooms[k].boundary[i].wall # w
      BY DEF Unused, Elements
    <3> QED
      BY <2>2, <3>1, WallsOfOutlines
  <2>5. /\ q.exterior = p.exterior /\ DOMAIN q.rooms = DOMAIN p.rooms
        /\ \A k \in DOMAIN p.rooms : "boundary" \in DOMAIN q.rooms[k]
                                     /\ q.rooms[k].boundary = p.rooms[k].boundary
    BY <1>1, <2>1
  <2> HIDE DEF R
  <2> QED
    BY ONLY <2>2, <2>3, <2>4, <2>5, OutlinesKept
<1> QED
  BY <1>4, <1>5, <1>6, <1>7

\* A list of as many doors as there were.
LEMMA DoorsAsMany ==
  ASSUME NEW s, Whole(s), NEW doors, DOMAIN doors = DOMAIN s, doors = [i \in DOMAIN s |-> doors[i]]
  PROVE  Whole(doors)
<1> DEFINE n == Len(s)
<1>1. n \in Nat /\ DOMAIN s = 1..n
  BY LenProperties DEF Whole
<1>2. doors \in [1..n -> Elements(doors)]
  <2>1. \A i \in 1..n : doors[i] \in Elements(doors)
    BY <1>1 DEF Elements
  <2> QED
    BY <1>1, <2>1
<1> QED
  BY <1>1, <1>2, SeqDef DEF Whole

LEMMA DoorsChanged ==
  ASSUME NEW p, DOMAIN p = PlanFields, Sound(p), NEW w \in DOMAIN p.walls, NEW id, NEW pos \in 0..4,
         NEW q, \/ q = WithDoor(p, id, w, pos)
                \/ q = WithDoorAt(p, id, pos)
                \/ q = WithoutDoor(p, id)
  PROVE  Sound(q)
<1>1. Whole(p.doors) /\ \A i \in DOMAIN p.doors : DoorSound(DOMAIN p.walls, p.doors[i])
  BY DEF Sound, DoorsSound
<1>2. CASE q = WithDoor(p, id, w, pos)
  <2> DEFINE d == [id |-> id, wall |-> w, pos |-> pos]
             doors == Append(p.doors, d)
             S == {e \in Elements(p.doors) \cup {d} : DoorSound(DOMAIN p.walls, e)}
  <2>1. q = [p EXCEPT !.doors = doors]
    BY <1>2 DEF WithDoor
  <2>2. d \in S
    BY DEF DoorSound
  <2>3. Elements(p.doors) \subseteq S
    BY <1>1 DEF Elements
  <2> HIDE DEF d, S
  <2>4. p.doors \in Seq(S)
    BY <1>1, <2>3, SeqMonotonic DEF Whole
  <2>5. doors \in Seq(S)
    BY <2>2, <2>4, AppendProperties
  <2> HIDE DEF doors
  <2>6. Whole(doors) /\ \A i \in DOMAIN doors : doors[i] \in S
    BY <2>5, WholeSeq, ElementOfSeq
  <2>7. \A i \in DOMAIN doors : DoorSound(DOMAIN p.walls, doors[i])
    BY <2>6 DEF S
  <2> QED
    BY <2>1, <2>6, <2>7, DoorsKept
<1>3. CASE q = WithDoorAt(p, id, pos)
  <2> DEFINE doors == [i \in DOMAIN p.doors |->
               IF p.doors[i].id = id THEN [p.doors[i] EXCEPT !.pos = pos] ELSE p.doors[i]]
  <2>1. q = [p EXCEPT !.doors = doors]
    BY <1>3 DEF WithDoorAt
  <2>2. \A i \in DOMAIN p.doors : DoorSound(DOMAIN p.walls, doors[i])
    BY <1>1 DEF DoorSound
  <2>3. DOMAIN doors = DOMAIN p.doors /\ doors = [i \in DOMAIN p.doors |-> doors[i]]
    OBVIOUS
  <2> HIDE DEF doors
  <2>4. Whole(doors)
    BY <1>1, <2>3, DoorsAsMany
  <2> QED
    BY <2>1, <2>2, <2>3, <2>4, DoorsKept
<1>4. CASE q = WithoutDoor(p, id)
  <2> DEFINE K == Elements(p.doors)
             parts == [i \in DOMAIN p.doors |-> IF p.doors[i].id # id THEN <<p.doors[i]>> ELSE <<>>]
             doors == FlattenSeq(parts)
  <2>1. q = [p EXCEPT !.doors = doors]
    BY <1>4 DEF WithoutDoor, Sifted
  <2>2. \A i \in DOMAIN p.doors :
          parts[i] = <<>> \/ (p.doors[i] \in K /\ parts[i] = <<p.doors[i]>>)
    BY DEF Elements
  <2>3. DOMAIN parts = DOMAIN p.doors /\ parts = [i \in DOMAIN p.doors |-> parts[i]]
    OBVIOUS
  <2>4. \A d \in K : DoorSound(DOMAIN p.walls, d)
    BY <1>1 DEF Elements
  <2> HIDE DEF parts, K
  <2>5. Whole(doors) /\ \A i \in DOMAIN doors : doors[i] \in K
    BY <1>1, <2>2, <2>3, SiftedIn
  <2> HIDE DEF doors
  <2> QED
    BY <2>1, <2>4, <2>5, DoorsKept
<1> QED
  BY <1>2, <1>3, <1>4

\* A door of the split wall is on one of its halves.
LEMMA DoorStaysOnWall ==
  ASSUME NEW walls, NEW after, NEW w, NEW w1 \in after, NEW w2 \in after,
         walls \ {w} \subseteq after, NEW d, DoorSound(walls, d)
  PROVE  DoorSound(after, DoorAfterSplit(d, w, w1, w2))
<1> DEFINE one == [d EXCEPT !.wall = w1, !.pos = d.pos * 2]
           two == [d EXCEPT !.wall = w2, !.pos = (d.pos - 2) * 2]
<1>1. {"wall", "pos"} \subseteq DOMAIN d /\ d.wall \in walls /\ d.pos \in 0..4
  BY DEF DoorSound
<1>2. /\ {"wall", "pos"} \subseteq DOMAIN one /\ one.wall = w1 /\ one.pos = d.pos * 2
      /\ {"wall", "pos"} \subseteq DOMAIN two /\ two.wall = w2 /\ two.pos = (d.pos - 2) * 2
  BY <1>1
<1>3. DoorAfterSplit(d, w, w1, w2) = IF d.wall # w THEN d ELSE IF d.pos <= 2 THEN one ELSE two
  BY DEF DoorAfterSplit
<1> HIDE DEF one, two
<1>4. d.pos <= 2 => one.pos \in 0..4
  BY <1>1, <1>2
<1>5. ~(d.pos <= 2) => two.pos \in 0..4
  BY <1>1, <1>2
<1> QED
  BY <1>1, <1>2, <1>3, <1>4, <1>5 DEF DoorSound

LEMMA WallSplit ==
  ASSUME NEW p, DOMAIN p = PlanFields, Sound(p), NEW w \in DOMAIN p.walls,
         NEW q, q = WithSplitWall(p, w), IdsOf(q.rooms) = IdsOf(p.rooms)
  PROVE  Sound(q)
<1> USE DEF Sound
<1> DEFINE w1 == FirstHalf(p)
           w2 == SecondHalf(p)
           old == p.walls[w]
           doors == [i \in DOMAIN p.doors |-> DoorAfterSplit(p.doors[i], w, w1, w2)]
           rooms == [i \in DOMAIN p.rooms |->
             [p.rooms[i] EXCEPT !.boundary = Rewritten(p.rooms[i].boundary, w, w1, w2)]]
<1>1. /\ q.doors = doors /\ q.zones = p.zones /\ q.rooms = rooms
      /\ q.exterior = Rewritten(p.exterior, w, w1, w2)
  BY DEF WithSplitWall, FirstHalf, SecondHalf, PlanFields
<1> HIDE DEF w1, w2
<1>2. PICK mid : Halved(p, q, w, w1, w2, mid)
  <2>1. IsFiniteSet(DOMAIN p.walls) /\ DOMAIN p.walls \subseteq Nat
    BY DEF WallsSound
  <2>2. \E mid : Halved(p, WithSplitWall(p, w), w, w1, w2, mid)
    BY ONLY <2>1, DOMAIN p = PlanFields, w \in DOMAIN p.walls, HalvesOfWall DEF w1, w2
  <2> QED
    BY <2>2
<1>3. {"start", "end", "kind", "bulge"} \subseteq DOMAIN old /\ (old.kind = "arc" => old.bulge # 0)
  BY DEF WallsSound, WallSound
<1>4. WallsSound(q)
  <2>1. WallSound(q.walls[w1]) /\ WallSound(q.walls[w2])
    BY <1>2, <1>3 DEF Halved, WallSound
  <2>2. \A x \in DOMAIN p.walls : WallSound(p.walls[x]) /\ x \in Nat
    BY DEF WallsSound
  <2> QED
    BY <1>2, <2>1, <2>2 DEF Halved, WallsSound
<1>5. DoorsSound(q)
  <2>1. Whole(p.doors) /\ \A i \in DOMAIN p.doors : DoorSound(DOMAIN p.walls, p.doors[i])
    BY DEF DoorsSound
  <2>2. \A i \in DOMAIN p.doors : DoorSound(DOMAIN q.walls, doors[i])
    <3>1. w1 \in DOMAIN q.walls /\ w2 \in DOMAIN q.walls /\ DOMAIN p.walls \ {w} \subseteq DOMAIN q.walls
      BY <1>2 DEF Halved
    <3> QED
      BY <2>1, <3>1, DoorStaysOnWall
  <2>3. DOMAIN doors = DOMAIN p.doors /\ doors = [i \in DOMAIN p.doors |-> doors[i]]
    OBVIOUS
  <2> HIDE DEF doors
  <2>4. Whole(doors)
    BY <2>1, <2>3, DoorsAsMany
  <2> QED
    BY <1>1, <2>2, <2>3, <2>4 DEF DoorsSound
<1>6. RoomsSound(q)
  BY <1>1 DEF RoomsSound
<1>7. ASSUME NEW refs, Outline(p, refs) PROVE Outline(q, Rewritten(refs, w, w1, w2))
  <2>1. {"start", "end"} \subseteq DOMAIN p.walls[w]
    BY <1>3
  <2> QED
    BY ONLY <1>2, <1>7, <2>1, w \in DOMAIN p.walls, OutlineSplit
<1>8. OutlinesSound(q)
  <2>1. /\ Outline(p, p.exterior)
        /\ \A i \in DOMAIN p.rooms :
              "boundary" \in DOMAIN p.rooms[i] /\ Outline(p, p.rooms[i].boundary)
    BY DEF OutlinesSound
  <2>2. DOMAIN rooms = DOMAIN p.rooms
    OBVIOUS
  <2>3. \A i \in DOMAIN p.rooms :
          /\ "boundary" \in DOMAIN rooms[i]
          /\ rooms[i].boundary = Rewritten(p.rooms[i].boundary, w, w1, w2)
    BY <2>1
  <2> HIDE DEF rooms
  <2>4. Outline(q, q.exterior)
    <3>1. Outline(q, Rewritten(p.exterior, w, w1, w2))
      BY <1>7, <2>1
    <3> QED
      BY <1>1, <3>1
  <2>5. \A i \in DOMAIN p.rooms : Outline(q, rooms[i].boundary)
    <3>1. \A i \in DOMAIN p.rooms : Outline(q, Rewritten(p.rooms[i].boundary, w, w1, w2))
      BY <1>7, <2>1
    <3> QED
      BY <2>3, <3>1
  <2>6. q.rooms = rooms
    BY <1>1
  <2> QED
    BY ONLY <2>2, <2>3, <2>4, <2>5, <2>6 DEF OutlinesSound
<1> QED
  BY <1>4, <1>5, <1>6, <1>8

LEMMA PointMoved ==
  ASSUME NEW p, DOMAIN p = PlanFields, Sound(p), NEW k, NEW at,
         NEW q, q = [p EXCEPT !.points = With(@, k, at)]
  PROVE  Sound(q)
<1>1. /\ q.walls = p.walls /\ q.points = With(p.points, k, at) /\ q.doors = p.doors
      /\ q.rooms = p.rooms /\ q.zones = p.zones /\ q.exterior = p.exterior
  BY FieldAlone
<1>2. DOMAIN p.points \subseteq DOMAIN q.points
  BY <1>1 DEF With
<1> USE DEF Sound
<1>3. WallsSound(q) /\ RoomsSound(q) /\ DoorsSound(q)
  BY <1>1 DEF WallsSound, RoomsSound, DoorsSound
<1>4. OutlinesSound(q)
  <2>1. \A i \in DOMAIN p.rooms : "boundary" \in DOMAIN p.rooms[i]
    BY DEF OutlinesSound
  <2> QED
    BY <1>1, <1>2, <2>1, WallsOfOutlines, OutlinesKept
<1> QED
  BY <1>3, <1>4

LEMMA RoomChanged ==
  ASSUME NEW p, DOMAIN p = PlanFields, Sound(p), NEW field \in {"status", "spot"}, NEW id, NEW value,
         NEW q, q = WithRoom(p, id, field, value), IdsOf(q.rooms) = IdsOf(p.rooms)
  PROVE  Sound(q)
<1> DEFINE rooms == [i \in DOMAIN p.rooms |->
             IF p.rooms[i].id = id THEN [p.rooms[i] EXCEPT ![field] = value] ELSE p.rooms[i]]
<1>1. q = [p EXCEPT !.rooms = rooms]
  BY DEF WithRoom
<1>2. /\ DOMAIN rooms = DOMAIN p.rooms
      /\ \A k \in DOMAIN p.rooms :
            "boundary" \in DOMAIN rooms[k] /\ rooms[k].boundary = p.rooms[k].boundary
  BY DEF Sound, OutlinesSound
<1> HIDE DEF rooms
<1>3. /\ q.walls = p.walls /\ q.points = p.points /\ q.doors = p.doors
      /\ q.rooms = rooms /\ q.zones = p.zones /\ q.exterior = p.exterior
  BY <1>1, FieldAlone
<1> USE DEF Sound
<1>4. WallsSound(q) /\ RoomsSound(q) /\ DoorsSound(q)
  BY <1>3 DEF WallsSound, RoomsSound, DoorsSound
<1>5. OutlinesSound(q)
  BY <1>2, <1>3, WallsOfOutlines, OutlinesKept
<1> QED
  BY <1>4, <1>5

-----------------------------------------------------------------------------
(* Rooms keep their ids. *)

\* The holes of a room are rings.
Holed(r) == "holes" \in DOMAIN r /\ Whole(r.holes) /\ \A k \in DOMAIN r.holes : Whole(r.holes[k])

PlanLike(p) ==
    /\ DOMAIN p = PlanFields /\ p.id \in Floors /\ Whole(p.rooms)
    /\ \A i \in DOMAIN p.rooms : "id" \in DOMAIN p.rooms[i] /\ Holed(p.rooms[i])

Proper(p) == PlanLike(p) /\ Sound(p)

\* All versions of a floor are sound plans with the rooms of the one that is shown.
RoomsStay ==
    \A f \in listed : \A p \in Line(f) :
        Proper(p) /\ IdsOf(p.rooms) = IdsOf(plans[f].rooms)

(* Inductive strengthening: a room that is selected is still there after    *)
(* undo and redo only because the versions of a floor have the same rooms.  *)
EditorInv == HistInv /\ UiTyped /\ IssuesAreCurrent /\ RoomsStay /\ PinnedRoomIsOnTheFloor

LEMMA EditKeepsRooms ==
  ASSUME NEW p, PlanLike(p), NEW q, IsEdit(p, q)
  PROVE  PlanLike(q) /\ IdsOf(q.rooms) = IdsOf(p.rooms)
<1> DEFINE Goal == PlanLike(q) /\ IdsOf(q.rooms) = IdsOf(p.rooms)
<1>1. ASSUME DOMAIN q = DOMAIN p, q.id = p.id, q.rooms = p.rooms PROVE Goal
  BY <1>1 DEF PlanLike
<1>2. \A x : /\ Goal \/ q # [p EXCEPT !.walls = x]
             /\ Goal \/ q # [p EXCEPT !.doors = x]
             /\ Goal \/ q # [p EXCEPT !.points = x]
  BY <1>1 DEF PlanLike, PlanFields
<1>3. \A x, y : Goal \/ q # [p EXCEPT !.walls = x, !.doors = y]
  BY <1>1 DEF PlanLike, PlanFields
<1>4. ASSUME NEW rooms, DOMAIN q = DOMAIN p, q.id = p.id, q.rooms = rooms,
             rooms = [i \in DOMAIN p.rooms |-> rooms[i]],
             \A i \in DOMAIN rooms : /\ {"id", "holes"} \subseteq DOMAIN rooms[i]
                                     /\ rooms[i].id = p.rooms[i].id
                                     /\ rooms[i].holes = p.rooms[i].holes
      PROVE  Goal
  <2>1. Whole(rooms)
    <3>1. DOMAIN p.rooms = 1..Len(p.rooms) /\ Len(p.rooms) \in Nat
      BY WholeSeq DEF PlanLike, Whole
    <3>2. rooms \in [1..Len(p.rooms) -> Elements(rooms)]
      BY <1>4, <3>1 DEF Elements
    <3> QED
      BY <3>1, <3>2, SeqDef DEF Whole
  <2>2. \A i \in DOMAIN rooms : Holed(rooms[i])
    BY <1>4 DEF PlanLike, Holed
  <2> QED
    BY <1>4, <2>1, <2>2 DEF PlanLike, IdsOf
<1> HIDE DEF Goal
<1>5. ASSUME NEW w, q = WithSplitWall(p, w) PROVE Goal
  <2> DEFINE w1 == NextId(DOMAIN p.walls)
             w2 == NextId(DOMAIN p.walls \cup {w1})
             new == [i \in DOMAIN p.rooms |->
                       [p.rooms[i] EXCEPT !.boundary = Rewritten(p.rooms[i].boundary, w, w1, w2)]]
  <2>1. DOMAIN q = DOMAIN p /\ q.id = p.id /\ q.rooms = new
    BY <1>5 DEF WithSplitWall, PlanLike, PlanFields
  <2>2. /\ new = [i \in DOMAIN p.rooms |-> new[i]]
        /\ \A i \in DOMAIN new : /\ {"id", "holes"} \subseteq DOMAIN new[i]
                                 /\ new[i].id = p.rooms[i].id /\ new[i].holes = p.rooms[i].holes
    BY DEF PlanLike, Holed
  <2> HIDE DEF new
  <2> QED
    BY <1>4, <2>1, <2>2
<1>6. ASSUME NEW field \in {"status", "spot"}, NEW id, NEW value, q = WithRoom(p, id, field, value)
      PROVE  Goal
  <2> DEFINE new == [i \in DOMAIN p.rooms |->
                       IF p.rooms[i].id = id THEN [p.rooms[i] EXCEPT ![field] = value]
                       ELSE p.rooms[i]]
  <2>1. /\ new = [i \in DOMAIN p.rooms |-> new[i]]
        /\ \A i \in DOMAIN new : /\ {"id", "holes"} \subseteq DOMAIN new[i]
                                 /\ new[i].id = p.rooms[i].id /\ new[i].holes = p.rooms[i].holes
    BY DEF PlanLike, Holed
  <2>2. q = [p EXCEPT !.rooms = new]
    BY <1>6 DEF WithRoom
  <2> HIDE DEF new
  <2>3. DOMAIN q = DOMAIN p /\ q.id = p.id /\ q.rooms = new
    BY <2>2 DEF PlanLike, PlanFields
  <2> QED
    BY <1>4, <2>1, <2>3
<1>7. ASSUME NEW a, NEW b, q = WithWall(p, a, b) PROVE Goal
  BY <1>2, <1>7 DEF WithWall
<1>8. ASSUME NEW w, q = WithoutWall(p, w) PROVE Goal
  BY <1>3, <1>8 DEF WithoutWall
<1>9. ASSUME NEW w, NEW x, q = WithWallType(p, w, x) \/ q = WithWallBulge(p, w, x) PROVE Goal
  <2>1. PICK y : q = [p EXCEPT !.walls[w] = y]
    BY <1>9 DEF WithWallType, WithWallBulge
  <2>2. q = [p EXCEPT !.walls = [p.walls EXCEPT ![w] = y]]
    BY <2>1
  <2> QED
    BY <1>2, <2>2
<1>10. ASSUME NEW id, NEW w, NEW pos,
              q = WithDoor(p, id, w, pos) \/ q = WithDoorAt(p, id, pos) \/ q = WithoutDoor(p, id)
       PROVE  Goal
  BY <1>2, <1>10 DEF WithDoor, WithDoorAt, WithoutDoor
<1>11. ASSUME NEW k, NEW at, q = [p EXCEPT !.points = With(@, k, at)] PROVE Goal
  BY <1>2, <1>11
<1>12. Goal
  BY <1>5, <1>6, <1>7, <1>8, <1>9, <1>10, <1>11 DEF IsEdit
<1> QED
  BY <1>12 DEF Goal

LEMMA EditKeepsSound ==
  ASSUME NEW p, PlanLike(p), Sound(p), NEW q, IsEdit(p, q)
  PROVE  Sound(q)
<1>1. DOMAIN p = PlanFields /\ IdsOf(q.rooms) = IdsOf(p.rooms)
  BY EditKeepsRooms DEF PlanLike
<1>2. ASSUME NEW a, NEW b, q = WithWall(p, a, b) PROVE Sound(q)
  BY ONLY <1>1, <1>2, Sound(p), WallAdded
<1>3. ASSUME NEW w, Unused(p, w), q = WithoutWall(p, w) PROVE Sound(q)
  BY ONLY <1>1, <1>3, Sound(p), WallRemoved
<1>4. ASSUME NEW w \in DOMAIN p.walls, q = WithSplitWall(p, w) PROVE Sound(q)
  BY ONLY <1>1, <1>4, Sound(p), WallSplit
<1>5. ASSUME NEW w \in DOMAIN p.walls, NEW kind \in {"line", "arc"}, q = WithWallType(p, w, kind)
      PROVE  Sound(q)
  BY ONLY <1>1, <1>5, Sound(p), WallRetyped
<1>6. ASSUME NEW w \in DOMAIN p.walls, NEW bulge, q = WithWallBulge(p, w, bulge) PROVE Sound(q)
  BY ONLY <1>1, <1>6, Sound(p), WallArched
<1>7. ASSUME NEW id, NEW pos \in 0..4,
             \/ \E w \in DOMAIN p.walls : q = WithDoor(p, id, w, pos)
             \/ q = WithDoorAt(p, id, pos)
             \/ q = WithoutDoor(p, id)
      PROVE  Sound(q)
  <2>1. \E w : w \in DOMAIN p.walls
    BY WallsOfOutlines DEF Sound
  <2>2. PICK w \in DOMAIN p.walls : \/ q = WithDoor(p, id, w, pos)
                                    \/ q = WithDoorAt(p, id, pos)
                                    \/ q = WithoutDoor(p, id)
    BY <1>7, <2>1
  <2> QED
    BY ONLY <1>1, <2>2, pos \in 0..4, Sound(p), DoorsChanged
<1>8. ASSUME NEW field \in {"status", "spot"}, NEW id, NEW value, q = WithRoom(p, id, field, value)
      PROVE  Sound(q)
  BY ONLY <1>1, <1>8, Sound(p), RoomChanged
<1>9. ASSUME NEW k, NEW at, q = [p EXCEPT !.points = With(@, k, at)] PROVE Sound(q)
  BY ONLY <1>1, <1>9, Sound(p), PointMoved
<1>10. 0 \in 0..4
  OBVIOUS
<1> QED
  BY <1>2, <1>3, <1>4, <1>5, <1>6, <1>7, <1>8, <1>9, <1>10 DEF IsEdit

\* What passes the schema is sound if its contours were found closed, as those
\* of the drawing t it has its walls and points from.
LEMMA SchemaSound ==
  ASSUME NEW p, Formed(p), FloorPlanSchema(p), NEW t, t.walls = p.walls, t.points = p.points,
         ClosedFiles =>
            \A refs \in {p.exterior} \cup {r.boundary : r \in Elements(p.rooms)} :
                ValidateChain(t, refs, "", "not-closed") = {}
  PROVE  Sound(p)
<1>1. WallsSound(p)
  BY DEF Formed, FloorPlanSchema, WallsWhole, WallsSound, WallSound
<1>2. DoorsSound(p)
  BY DEF Formed, FloorPlanSchema, DoorsWhole, DoorsSound, DoorSound, Elements, Whole
<1>3. RoomsSound(p)
  BY DEF FloorPlanSchema, RoomsWhole, RoomsSound
<1>4. ASSUME NEW refs \in {p.exterior} \cup {r.boundary : r \in Elements(p.rooms)},
             Whole(refs), RefsWhole(p, refs)
      PROVE  Outline(p, refs)
  <2>1. Len(refs) >= 3 /\ \A i \in DOMAIN refs : Placed(p, refs[i])
    BY <1>4 DEF RefsWhole, FloorPlanSchema, WallsWhole, Placed
  <2>2. \A i \in DOMAIN refs : Placed(t, refs[i])
    BY <2>1 DEF Placed
  <2>3. ASSUME ClosedFiles PROVE Round(t, refs)
    <3>1. ValidateChain(t, refs, "", "not-closed") = {}
      BY <2>3
    <3> QED
      BY ONLY <1>4, <2>1, <2>2, <3>1, ClosedIsRound
  <2>4. ClosedFiles => Round(p, refs)
    BY <2>3 DEF Round, From, To
  <2> QED
    BY <1>4, <2>1, <2>4 DEF Outline
<1>5. Outline(p, p.exterior)
  BY <1>4 DEF Formed, FloorPlanSchema, Whole
<1>6. ASSUME NEW i \in DOMAIN p.rooms
      PROVE  "boundary" \in DOMAIN p.rooms[i] /\ Outline(p, p.rooms[i].boundary)
  <2>1. p.rooms[i] \in Elements(p.rooms)
    BY DEF Elements
  <2>2. "boundary" \in DOMAIN p.rooms[i] /\ Whole(p.rooms[i].boundary)
    BY <2>1 DEF Formed, Whole
  <2>3. RefsWhole(p, p.rooms[i].boundary)
    BY <2>1 DEF FloorPlanSchema, RoomsWhole
  <2>4. p.rooms[i].boundary \in {r.boundary : r \in Elements(p.rooms)}
    BY <2>1
  <2> QED
    BY <1>4, <2>2, <2>3, <2>4
<1> QED
  BY <1>1, <1>2, <1>3, <1>5, <1>6 DEF Sound, OutlinesSound

LEMMA FormedHoles ==
  ASSUME NEW p, Formed(p)
  PROVE  Whole(p.rooms) /\ \A i \in DOMAIN p.rooms : Holed(p.rooms[i])
<1>1. ASSUME NEW i \in DOMAIN p.rooms PROVE Holed(p.rooms[i])
  <2> DEFINE r == p.rooms[i]
  <2>1. r \in Elements(p.rooms)
    BY DEF Elements
  <2> HIDE DEF r
  <2>2. "holes" \in DOMAIN r /\ Whole(r.holes) /\ \A ring \in Elements(r.holes) : Whole(ring)
    BY <2>1 DEF Formed, Whole
  <2>3. Holed(r)
    BY <2>2 DEF Holed, Elements
  <2> QED
    BY <2>3 DEF r
<1> QED
  BY <1>1 DEF Formed, Whole

\* What is read as a plan is one.
LEMMA FileLike ==
  ASSUME NEW p \in Files, FloorPlanSchema(p)
  PROVE  Proper(p)
<1>1. PlanLike(p) /\ Formed(p)
  <2>1. DOMAIN p = PlanFields /\ p.id \in Floors /\ Formed(p) /\ \A i \in DOMAIN p.rooms : "id" \in DOMAIN p.rooms[i]
    BY EditorAssumption DEF Elements
  <2> QED
    BY <2>1, FormedHoles DEF PlanLike
<1>2. ClosedFiles =>
         \A refs \in {p.exterior} \cup {r.boundary : r \in Elements(p.rooms)} :
             ValidateChain(p, refs, "", "not-closed") = {}
  BY DEF ClosedFiles, ClosedContours
<1>3. Sound(p)
  BY ONLY <1>1, <1>2, FloorPlanSchema(p), SchemaSound
<1> QED
  BY <1>1, <1>3 DEF Proper

LEMMA RoomsStayOn ==
  ASSUME UiTyped, listed # {}, RoomsStay, PinnedRoomIsOnTheFloor, Shown
  PROVE  RoomsStay' /\ PinnedRoomIsOnTheFloor'
<1> DEFINE Ids(f) == IdsOf(plans[f].rooms)
           Like(q, f) == Proper(q) /\ IdsOf(q.rooms) = Ids(f)
<1>1. /\ \A f \in Floors : Lines[f] = Line(f) /\ plans'[f] \in Lines'[f]
      /\ active \in listed /\ listed \subseteq Floors /\ listed' \subseteq Floors
  BY DEF Lines, Line, UiTyped, Shown
<1>2. \A f \in listed : \A q \in Lines[f] : Like(q, f)
  BY <1>1 DEF RoomsStay
<1>3. Like(ThePlan, active)
  BY <1>1 DEF RoomsStay, Line, ThePlan
<1>4. RoomsStay' <=> \A f \in listed' : \A q \in Lines'[f] :
                       Proper(q) /\ IdsOf(q.rooms) = IdsOf(plans'[f].rooms)
  BY <1>1 DEF RoomsStay, Lines
<1>5. CASE Worked
  <2>1. ASSUME NEW f \in listed PROVE \A q \in Lines'[f] : Like(q, f)
    <3>1. CASE f # active
      <4>1. Lines'[f] = Lines[f]
        BY <1>1, <1>5, <3>1 DEF Worked, OthersAsBefore
      <4> QED
        BY <1>2, <4>1
    <3>2. CASE f = active /\ Lines'[active] \subseteq Line(active)
      BY <1>1, <1>2, <3>2
    <3>3. CASE f = active /\ \E q : /\ IsEdit(ThePlan, q)
                                    /\ Lines'[active] \subseteq Line(active) \cup {q}
      <4>1. PICK q : IsEdit(ThePlan, q) /\ Lines'[active] \subseteq Line(active) \cup {q}
        BY <3>3
      <4>2. Like(q, active)
        BY <1>3, <4>1, EditKeepsRooms, EditKeepsSound DEF Proper
      <4> QED
        BY <1>1, <1>2, <3>3, <4>1, <4>2
    <3> QED
      BY <1>5, <3>1, <3>2, <3>3 DEF Worked
  <2>2. \A f \in listed : IdsOf(plans'[f].rooms) = Ids(f)
    BY <1>1, <2>1
  <2>3. listed' = listed
    BY <1>5 DEF Worked
  <2>4. RoomsStay'
    BY <1>4, <2>1, <2>2, <2>3
  <2>5. /\ active' \in listed
        /\ \/ active' = active /\ room' \in {"", room} \cup RoomIds(ThePlan)
           \/ room' = ""
    <3>1. listed' \subseteq Floors /\ (listed' # {} => active' \in listed')
      BY DEF Shown, UiTyped
    <3>2. CASE \E p \in Files \cup {ThePlan} : Imported(p) /\ active' = p.id /\ room' = ""
      BY <1>1, <2>3, <3>1, <3>2
    <3> QED
      BY <1>1, <3>2 DEF Shown
  <2>6. PinnedRoomIsOnTheFloor'
    <3>1. RoomIds(plans'[active]) = RoomIds(plans[active])
      BY <1>1, <2>2 DEF RoomIds
    <3>2. PinnedRoomIsOnTheFloor' <=> (room' # "" => room' \in RoomIds(plans'[active']))
      BY DEF PinnedRoomIsOnTheFloor, ThePlan
    <3>3. room # "" => room \in RoomIds(plans[active])
      BY DEF PinnedRoomIsOnTheFloor, ThePlan
    <3> QED
      BY <2>5, <3>1, <3>2, <3>3 DEF ThePlan
  <2> QED
    BY <2>4, <2>6
<1>6. ASSUME NEW p \in Files \cup {ThePlan}, Imported(p), room' = ""
      PROVE  RoomsStay' /\ PinnedRoomIsOnTheFloor'
  <2>1. Proper(p)
    BY <1>3, <1>6, FileLike DEF Imported
  <2>2. p.id \in Floors /\ listed' = listed \cup {p.id} /\ Lines'[p.id] = {p}
    BY <1>6 DEF Imported
  <2>3. plans'[p.id] = p
    BY <1>1, <2>2
  <2>4. ASSUME NEW f \in listed', f # p.id PROVE Lines'[f] = Lines[f] /\ f \in listed
    BY <1>1, <1>6, <2>2, <2>4 DEF Imported, OthersAsBefore
  <2>5. ASSUME NEW f \in listed', NEW q \in Lines'[f]
        PROVE  Proper(q) /\ IdsOf(q.rooms) = IdsOf(plans'[f].rooms)
    <3>1. CASE f = p.id
      BY <2>1, <2>2, <2>3, <3>1
    <3>2. CASE f # p.id
      BY <1>1, <1>2, <2>4, <3>2
    <3> QED
      BY <3>1, <3>2
  <2>6. RoomsStay'
    BY <1>4, <2>5
  <2> QED
    BY <1>6, <2>6 DEF PinnedRoomIsOnTheFloor
<1> QED
  BY <1>5, <1>6 DEF Shown

LEMMA ReadyToStep ==
  ASSUME EditorInv, EditorNext
  PROVE  Ready /\ listed # {}
<1>1. listed # {}
  BY DEF EditorNext
<1>2. ThePlan.id \in Floors
  BY <1>1 DEF EditorInv, RoomsStay, UiTyped, Line, ThePlan, Proper, PlanLike
<1> QED
  BY <1>1, <1>2 DEF EditorInv, Ready

LEMMA EditorKeepsInv == EditorInv /\ [EditorNext]_editorVars => EditorInv'
<1> SUFFICES ASSUME EditorInv, [EditorNext]_editorVars PROVE EditorInv'
  OBVIOUS
<1>1. CASE EditorNext
  <2>1. listed # {} /\ Shown
    BY <1>1, ReadyToStep, EditorShown
  <2> QED
    BY <2>1, RoomsStayOn DEF EditorInv, Shown
<1>2. CASE UNCHANGED editorVars
  BY <1>2
  DEF EditorInv, editorVars, uiVars, HistInv, UiTyped, IssuesAreCurrent, RoomsStay, Line,
      ThePlan, PinnedRoomIsOnTheFloor
<1> QED
  BY <1>1, <1>2

-----------------------------------------------------------------------------
(* The plans and histories of the editor change by operations of the store  *)
(* only, whatever the plans are.                                            *)

\* Nothing, or one operation of the store with whatever plan.
OneMove == UNCHANGED storeVars \/ \E q : StoreMove({q})

LEMMA MoveIsOne ==
  ASSUME NEW f \in Floors, NEW q,
         Commit(f, q) \/ Revise(f, q) \/ TakeOver(f, q)
            \/ BeginGesture(f) \/ UndoStep(f) \/ RedoStep(f)
  PROVE  OneMove
<1>1. StoreMove({q})
  BY DEF StoreMove
<1> QED
  BY <1>1 DEF OneMove

LEMMA WorkMoves ==
  ASSUME active \in Floors, OnWalls \/ OnPoints \/ OnRooms
  PROVE  OneMove
<1>1. ASSUME NEW q, Edit(q) PROVE OneMove
  BY <1>1, MoveIsOne DEF Edit
<1>2. ASSUME UNCHANGED <<plans, hist>> PROVE OneMove
  BY <1>2 DEF OneMove, storeVars
<1>3. CASE OnWalls
  <2>1. PICK w : \/ SelectWall(w) \/ DeleteWall(w) \/ SplitWall(w) \/ SplitThrows(w)
                 \/ \E pos \in {1, 2} : AddDoor(w, pos)
    BY <1>3 DEF OnWalls
  <2>2. CASE SplitThrows(w)
    BY <2>2, MoveIsOne DEF SplitThrows
  <2> QED
    BY <1>1, <1>2, <2>1, <2>2 DEF SelectWall, DeleteWall, SplitWall, AddDoor
<1>4. CASE OnPoints
  <2>1. ASSUME NEW p, GrabPoint(p) PROVE OneMove
    BY <2>1, MoveIsOne DEF GrabPoint
  <2>2. ASSUME NEW p, ClickPointForWall(p) PROVE OneMove
    BY <1>1, <1>2, <2>2 DEF ClickPointForWall
  <2>3. ASSUME NEW raw, NEW alt, MovePoint(raw, alt) PROVE OneMove
    BY <2>3, MoveIsOne DEF MovePoint
  <2>4. ASSUME ReleasePoint PROVE OneMove
    BY <1>2, <2>4 DEF ReleasePoint
  <2> QED
    BY <1>4, <2>1, <2>2, <2>3, <2>4 DEF OnPoints
<1>5. CASE OnRooms
  BY <1>1, <1>2, <1>5 DEF OnRooms, SelectRoom, GrabLabel, MoveLabel, ReleaseLabel, UpdateRoom
<1> QED
  BY <1>3, <1>4, <1>5

LEMMA EditorMoves ==
  ASSUME Ready, EditorNext
  PROVE  OneMove
<1>1. active \in Floors /\ \A p \in Files \cup {ExportJson} : p.id \in Floors
  BY EditorAssumption DEF Ready, UiTyped, ExportJson
<1>2. ASSUME NEW q, Edit(q) PROVE OneMove
  BY <1>1, <1>2, MoveIsOne DEF Edit
<1>3. ASSUME UNCHANGED <<plans, hist>> PROVE OneMove
  BY <1>3 DEF OneMove, storeVars
<1>4. ASSUME NEW f, NEW t, SetActiveFloor(f) \/ SetMode \/ SetTool(t) \/ Deselect PROVE OneMove
  BY <1>3, <1>4 DEF SetActiveFloor, SetMode, SetTool, Deselect
<1>5. CASE OnPanel
  <2>1. ASSUME NEW p \in Files \cup {ExportJson}, Import(p) PROVE OneMove
    BY <1>1, <2>1, MoveIsOne DEF Import
  <2> QED
    BY <1>2, <1>3, <1>5, <2>1
    DEF OnPanel, SelectDoor, SetWallType, SetWallBulge, UpdateDoor, DeleteDoor
<1>6. ASSUME UndoKey \/ RedoKey PROVE OneMove
  BY <1>1, <1>6, MoveIsOne DEF UndoKey, RedoKey
<1> QED
  BY <1>1, <1>4, <1>5, <1>6, WorkMoves DEF EditorNext

\* The plans and histories of any moment are of some kind, and of any wider one.
LEMMA SomeKind ==
  ASSUME HistInv, NEW q
  PROVE  \E P : StoreInv(P) /\ q \in P
<1> DEFINE P == (UNION {Line(f) : f \in Floors}) \cup {q}
<1>1. \A f \in Floors : Line(f) \subseteq P
  OBVIOUS
<1>2. q \in P
  OBVIOUS
<1> HIDE DEF P
<1>3. ASSUME NEW f \in Floors
      PROVE  /\ plans[f] \in P /\ hist[f] \in Histories(P) /\ Within(hist[f])
  <2> DEFINE past == hist[f].past
             future == hist[f].future
  <2>1. /\ hist[f] = [past |-> past, future |-> future]
        /\ past \in Seq(Elements(past)) /\ future \in Seq(Elements(future))
        /\ Within(hist[f])
    BY DEF HistInv, Stacked, Whole, Within
  <2>2. plans[f] \in P /\ Elements(past) \subseteq P /\ Elements(future) \subseteq P
    BY <1>1 DEF Line, Kept
  <2> HIDE DEF past, future
  <2>3. past \in Seq(P) /\ future \in Seq(P)
    BY <2>1, <2>2, SeqMonotonic
  <2>4. [past |-> past, future |-> future] \in Histories(P)
    BY <2>3 DEF Histories
  <2> QED
    BY <2>1, <2>2, <2>4
<1>4. StoreInv(P)
  BY <1>3 DEF HistInv, StoreInv
<1> QED
  BY <1>2, <1>4

LEMMA EditorStepOfLine ==
  EditorInv /\ [EditorNext]_editorVars => [Timeline!Next]_(Timeline!timeline)
<1> SUFFICES ASSUME EditorInv, [EditorNext]_editorVars
             PROVE  [Timeline!Next]_(Timeline!timeline)
  OBVIOUS
<1>1. OneMove
  <2>1. CASE EditorNext
    BY <2>1, ReadyToStep, EditorMoves
  <2>2. CASE UNCHANGED editorVars
    BY <2>2 DEF OneMove, editorVars, storeVars
  <2> QED
    BY <2>1, <2>2
<1>2. ASSUME NEW q, StoreMove({q}) PROVE Timeline!Next
  <2>1. PICK P : StoreInv(P) /\ q \in P
    BY SomeKind DEF EditorInv
  <2>2. StoreMove(P)
    BY <1>2, <2>1 DEF StoreMove
  <2> QED
    BY <2>1, <2>2, MoveOfLine
<1> QED
  BY <1>1, <1>2, LineAtRest DEF OneMove

-----------------------------------------------------------------------------
(* How the editor opens. *)

LEMMA LowestIsOne ==
  ASSUME NEW F \in SUBSET Floors, F # {}
  PROVE  Lowest(F) \in F
<1> DEFINE T == {Rank[f] : f \in F}
<1>1. PICK f0 \in F : TRUE
  OBVIOUS
<1>2. T \in SUBSET Nat /\ Rank[f0] \in T
  <2>1. Rank \in [Floors -> Nat]
    BY EditorAssumption
  <2> QED
    BY <2>1
<1>3. PICK n \in T : \A m \in T : n <= m
  <2> HIDE DEF T
  <2> QED
    BY <1>2, LeastNat
<1>4. \E f \in F : \A g \in F : Rank[f] <= Rank[g]
  BY <1>3
<1> QED
  BY <1>4 DEF Lowest

\* Each floor opens with the faces of its drawing: its contours are those that
\* were traced.
LEMMA GeneratedLike ==
  ASSUME NEW tables, NEW f \in DOMAIN GeneratedFloors(Drawings, tables)
  PROVE  f \in Floors /\ Proper(GeneratedFloors(Drawings, tables)[f])
<1> DEFINE t == Drawings[f]
           p == GeneratedFloors(Drawings, tables)[f]
<1>1. f \in DOMAIN Drawings /\ p = BuildFromTraced(t, tables[f]).plan /\ FloorPlanSchema(p)
  BY DEF GeneratedFloors
<1>2. f \in Floors /\ t.id = f /\ Formed(t) /\ (ClosedFiles => ClosedContours(t))
  BY <1>1, EditorAssumption DEF ClosedFiles
<1>3. PICK rooms : /\ p = PlanOfRooms(t, rooms)
                   /\ rooms = [i \in DOMAIN t.rooms |-> rooms[i]]
                   /\ \A i \in DOMAIN rooms : \E who : rooms[i] = RoomOfFace(t.rooms[i], who)
  BY <1>1 DEF BuildFromTraced, BuildFromNamed
<1> HIDE DEF t, p
<1>4. \A i \in DOMAIN rooms : /\ {"id", "boundary", "holes"} \subseteq DOMAIN rooms[i]
                              /\ rooms[i].boundary = t.rooms[i].boundary
                              /\ rooms[i].holes = t.rooms[i].holes
  <2>1. \A face, who : /\ {"id", "boundary", "holes"} \subseteq DOMAIN RoomOfFace(face, who)
                       /\ RoomOfFace(face, who).boundary = face.boundary
                       /\ RoomOfFace(face, who).holes = face.holes
    BY DEF RoomOfFace
  <2> QED
    BY <1>3, <2>1
<1>5. /\ DOMAIN p = PlanFields /\ p.id = t.id /\ p.points = t.points /\ p.walls = t.walls
      /\ p.rooms = rooms /\ p.exterior = t.exterior /\ p.doors = t.doors
  BY <1>3 DEF PlanOfRooms, PlanFields
<1>6. PlanLike(p)
  <2>1. Whole(p.rooms)
    <3>1. DOMAIN t.rooms = 1..Len(t.rooms) /\ Len(t.rooms) \in Nat
      BY <1>2, WholeSeq DEF Formed
    <3>2. rooms \in [1..Len(t.rooms) -> Elements(rooms)]
      <4>1. rooms = [i \in 1..Len(t.rooms) |-> rooms[i]]
        BY <1>3, <3>1
      <4>2. \A i \in 1..Len(t.rooms) : rooms[i] \in Elements(rooms)
        BY <4>1 DEF Elements
      <4> QED
        BY <4>1, <4>2
    <3> QED
      BY <1>5, <3>1, <3>2, SeqDef DEF Whole
  <2>2. \A i \in DOMAIN t.rooms : Holed(t.rooms[i])
    BY <1>2, FormedHoles
  <2>3. \A i \in DOMAIN rooms : Holed(rooms[i])
    BY <1>3, <1>4, <2>2 DEF Holed
  <2> QED
    BY <1>2, <1>4, <1>5, <2>1, <2>3 DEF PlanLike
<1>7. {r.boundary : r \in Elements(p.rooms)} = {r.boundary : r \in Elements(t.rooms)}
  BY <1>3, <1>4, <1>5 DEF Elements
<1>8. Formed(p)
  <2>1. \A r \in Elements(p.rooms) :
          /\ {"boundary", "holes"} \subseteq DOMAIN r
          /\ r.boundary \in Seq(Elements(r.boundary)) /\ r.holes \in Seq(Elements(r.holes))
          /\ \A ring \in Elements(r.holes) : ring \in Seq(Elements(ring))
    <3>1. ASSUME NEW r \in Elements(p.rooms)
          PROVE  /\ {"boundary", "holes"} \subseteq DOMAIN r
                 /\ \E face \in Elements(t.rooms) : r.boundary = face.boundary /\ r.holes = face.holes
      <4>1. PICK i \in DOMAIN rooms : r = rooms[i]
        BY <1>5 DEF Elements
      <4>2. t.rooms[i] \in Elements(t.rooms)
        BY <1>3 DEF Elements
      <4> QED
        BY <1>4, <4>1, <4>2
    <3>2. \A face \in Elements(t.rooms) :
            /\ face.boundary \in Seq(Elements(face.boundary)) /\ face.holes \in Seq(Elements(face.holes))
            /\ \A ring \in Elements(face.holes) : ring \in Seq(Elements(ring))
      BY <1>2 DEF Formed
    <3>3. ASSUME NEW r \in Elements(p.rooms)
          PROVE  /\ r.boundary \in Seq(Elements(r.boundary)) /\ r.holes \in Seq(Elements(r.holes))
                 /\ \A ring \in Elements(r.holes) : ring \in Seq(Elements(ring))
      BY <3>1, <3>2
    <3> QED
      BY <3>1, <3>3
  <2>2. p.rooms \in Seq(Elements(p.rooms))
    BY <1>6 DEF PlanLike, Whole
  <2> QED
    BY <1>2, <1>5, <2>1, <2>2 DEF Formed
<1>9. ClosedFiles =>
         \A refs \in {p.exterior} \cup {r.boundary : r \in Elements(p.rooms)} :
             ValidateChain(t, refs, "", "not-closed") = {}
  BY <1>2, <1>5, <1>7 DEF ClosedContours
<1>10. Sound(p)
  BY ONLY <1>1, <1>5, <1>8, <1>9, SchemaSound
<1> QED
  BY <1>2, <1>6, <1>10 DEF Proper, p

LEMMA EditorOpens == EditorInit => EditorInv
<1> SUFFICES ASSUME EditorInit PROVE EditorInv
  OBVIOUS
<1> DEFINE floors == GeneratedFloors(Drawings, table)
<1>1. listed = DOMAIN floors /\ listed \subseteq Floors
  BY GeneratedLike DEF EditorInit
<1>2. HistInv
  BY NothingStacked DEF EditorInit, HistInv
<1>3. active \in Floors /\ (listed # {} => active \in listed)
  BY <1>1, LowestIsOne, EditorAssumption DEF EditorInit
<1>4. UiTyped
  <2>1. edits = 0 /\ edits \in 0..MaxEdits
    <3>1. MaxEdits \in Nat
      BY EditorAssumption
    <3>2. edits = 0
      BY DEF EditorInit
    <3> QED
      BY <3>1, <3>2
  <2>2. /\ DOMAIN sel = {"wall", "door", "pending"} /\ mode \in {"view", "edit"}
        /\ tool \in Tools /\ pressed \in {"no", "handle", "label"}
    BY DEF EditorInit, NoSel, Tools
  <2> QED
    BY <1>1, <1>3, <2>1, <2>2 DEF UiTyped
<1>5. \A f \in listed : Proper(plans[f]) /\ Line(f) = {plans[f]}
  <2>1. \A f \in listed : plans[f] = floors[f] /\ hist[f] = EmptyHistory
    BY <1>1 DEF EditorInit
  <2> QED
    BY <1>1, <2>1, GeneratedLike, NothingStacked DEF Line
<1>6. RoomsStay
  BY <1>5 DEF RoomsStay
<1>7. IssuesAreCurrent /\ PinnedRoomIsOnTheFloor
  BY DEF EditorInit, IssuesAreCurrent, PinnedRoomIsOnTheFloor, ThePlan
<1> QED
  BY <1>2, <1>4, <1>6, <1>7 DEF EditorInv

-----------------------------------------------------------------------------
(* The selection, the mode and the tool of the editor are what its panels   *)
(* and handlers take them for, and a selected room is a room of some floor. *)
THEOREM EditorTypeCorrect == EditorSpec => []EditorTypeOK
<1>1. EditorInv => EditorTypeOK
  <2> SUFFICES ASSUME EditorInv PROVE EditorTypeOK
    OBVIOUS
  <2>1. room \in {""} \cup UNION {RoomIds(plans[f]) : f \in Floors}
    BY DEF EditorInv, UiTyped, PinnedRoomIsOnTheFloor, ThePlan
  <2>2. ASSUME NEW f \in Floors PROVE DOMAIN hist[f] = {"past", "future"}
    <3>1. \E a, b : hist[f] = [past |-> a, future |-> b]
      BY DEF EditorInv, HistInv, Stacked
    <3> QED
      BY <3>1
  <2> QED
    BY <2>1, <2>2 DEF EditorInv, UiTyped, EditorTypeOK
<1> QED
  BY <1>1, EditorOpens, EditorKeepsInv, PTL DEF EditorSpec

(* In the running editor, too, no floor remembers more versions than the    *)
(* limit of historyStore.ts.                                                *)
THEOREM EditorStaysBounded == EditorSpec => []HistoryBounded
<1>1. EditorInv => HistoryBounded
  BY DEF EditorInv, HistInv, Stacked, HistoryBounded
<1> QED
  BY <1>1, EditorOpens, EditorKeepsInv, PTL DEF EditorSpec

(* The issues listed beside a plan are those of the plan that is shown,     *)
(* whatever the drawings, the files and the order of edits, undo, imports   *)
(* and changes of floor; only during a drag may they be older.              *)
THEOREM IssuesStayCurrent == EditorSpec => []IssuesAreCurrent
<1>1. EditorInv => IssuesAreCurrent
  BY DEF EditorInv
<1> QED
  BY <1>1, EditorOpens, EditorKeepsInv, PTL DEF EditorSpec

(* The room whose details are open is a room of the floor that is shown:    *)
(* no edit, undo, redo or import takes it away from under the panel.        *)
THEOREM PinnedRoomStays == EditorSpec => []PinnedRoomIsOnTheFloor
<1>1. EditorInv => PinnedRoomIsOnTheFloor
  BY DEF EditorInv
<1> QED
  BY <1>1, EditorOpens, EditorKeepsInv, PTL DEF EditorSpec

LEMMA SoundMeansReferences ==
  ASSUME NEW p, Sound(p)
  PROVE  /\ DoorsWhole(p) /\ Distinct(IdsOf(p.rooms)) /\ RefsWhole(p, p.exterior)
         /\ \A r \in Elements(p.rooms) : RefsWhole(p, r.boundary)
         /\ \A w \in Elements([d \in DOMAIN p.walls |-> p.walls[d]]) : w.kind = "arc" => w.bulge # 0
         /\ \A z \in Elements(p.zones) : z.room \in RoomIds(p)
<1> USE DEF Sound
<1>1. DoorsWhole(p)
  BY DEF DoorsSound, DoorSound, DoorsWhole, Elements
<1>2. ASSUME NEW refs, Outline(p, refs) PROVE RefsWhole(p, refs)
  BY <1>2 DEF Outline, Placed, RefsWhole
<1>3. RefsWhole(p, p.exterior) /\ \A r \in Elements(p.rooms) : RefsWhole(p, r.boundary)
  BY <1>2 DEF OutlinesSound, Elements
<1>4. \A w \in Elements([d \in DOMAIN p.walls |-> p.walls[d]]) : w.kind = "arc" => w.bulge # 0
  BY DEF WallsSound, WallSound, Elements
<1>5. Distinct(IdsOf(p.rooms)) /\ \A z \in Elements(p.zones) : z.room \in RoomIds(p)
  BY DEF RoomsSound, RoomIds
<1> QED
  BY <1>1, <1>3, <1>4, <1>5

LEMMA SoundMeansClosed ==
  ASSUME ClosedFiles, NEW p, Sound(p)
  PROVE  ClosedContours(p)
<1>1. ASSUME NEW refs, Outline(p, refs) PROVE ValidateChain(p, refs, "", "not-closed") = {}
  BY <1>1, ClosedIsRound DEF Outline
<1>2. \A refs \in {p.exterior} \cup {r.boundary : r \in Elements(p.rooms)} : Outline(p, refs)
  BY DEF Sound, OutlinesSound, Elements
<1> QED
  BY <1>1, <1>2 DEF ClosedContours

(* The edits keep what the references between the parts of a plan mean:     *)
(* after any of them, and after undo, redo and import, every door, boundary *)
(* and exterior has its walls, arcs have a bulge, and the ids of rooms are  *)
(* distinct and the ones the signs name.                                    *)
THEOREM EditsKeepReferences == EditorSpec => []EditKeepsReferences
<1>1. EditorInv => EditKeepsReferences
  <2> SUFFICES ASSUME EditorInv PROVE EditKeepsReferences
    OBVIOUS
  <2>1. \A f \in listed : Sound(plans[f])
    BY DEF EditorInv, RoomsStay, Line, Proper
  <2> QED
    BY <2>1, SoundMeansReferences DEF EditKeepsReferences
<1> QED
  BY <1>1, EditorOpens, EditorKeepsInv, PTL DEF EditorSpec

(* Boundaries and outlines that came closed into the editor stay closed, in *)
(* every version of every floor: splitting a wall leads each of them through *)
(* its halves, in either direction, and none of their walls can be deleted. *)
(* The rings of the holes are not among them: the editor may open those.    *)
THEOREM ContoursNeverOpen ==
  ASSUME ClosedFiles
  PROVE  EditorSpec => []ContoursStayClosed
<1>1. EditorInv => ContoursStayClosed
  <2> SUFFICES ASSUME EditorInv PROVE ContoursStayClosed
    OBVIOUS
  <2>1. \A f \in listed : \A p \in Line(f) : Sound(p)
    BY DEF EditorInv, RoomsStay, Proper
  <2> QED
    BY <2>1, SoundMeansClosed DEF ContoursStayClosed, Line, Kept
<1> QED
  BY <1>1, EditorOpens, EditorKeepsInv, PTL DEF EditorSpec

-----------------------------------------------------------------------------
(* What the map makes of a plan that passes the schema. *)

\* A ring whose walls are all there is drawn through each of them.
LEMMA RingDrawn ==
  ASSUME NEW p, WallsWhole(p), NEW refs, Whole(refs), RefsWhole(p, refs)
  PROVE  /\ RingPath(p, refs) = [n \in DOMAIN refs |-> refs[n].wall]
         /\ RingPath(p, refs) # <<>>
<1>1. \A i \in DOMAIN refs : Placed(p, refs[i])
  BY DEF RefsWhole, WallsWhole, Placed
<1>2. /\ Resolve(p, refs) = [i \in DOMAIN refs |-> Resolve(p, refs)[i]]
      /\ \A i \in DOMAIN refs : Resolve(p, refs)[i].wall = refs[i].wall
  BY <1>1, ReadWhole
<1>3. RingPath(p, refs) = [n \in DOMAIN refs |-> refs[n].wall]
  BY <1>2 DEF RingPath
<1>4. 1 \in DOMAIN refs
  BY WholeSeq DEF RefsWhole, Whole
<1>5. DOMAIN RingPath(p, refs) # {}
  BY <1>3, <1>4
<1> QED
  BY <1>3, <1>5

\* A room is drawn with its outline and all of its holes.
LEMMA RoomDrawn ==
  ASSUME NEW p, WallsWhole(p), NEW r, Holed(r), Whole(r.boundary), RefsWhole(p, r.boundary),
         \A k \in DOMAIN r.holes : RefsWhole(p, r.holes[k])
  PROVE  /\ RoomPath(p, r.boundary, r.holes)[1] = [n \in DOMAIN r.boundary |-> r.boundary[n].wall]
         /\ Len(RoomPath(p, r.boundary, r.holes)) = 1 + Len(r.holes)
<1> DEFINE outer == RingPath(p, r.boundary)
           rings == [k \in DOMAIN r.holes |-> RingPath(p, r.holes[k])]
           Drawn(ring) == ring # <<>>
           Parts == [k \in DOMAIN rings |-> IF Drawn(rings[k]) THEN <<rings[k]>> ELSE <<>>]
           inner == Sifted(rings, Drawn)
<1>1. outer = [n \in DOMAIN r.boundary |-> r.boundary[n].wall] /\ outer # <<>>
  BY RingDrawn
<1>2. \A k \in DOMAIN r.holes : rings[k] # <<>>
  BY RingDrawn DEF Holed
<1>3. Len(r.holes) \in Nat /\ DOMAIN r.holes = 1..Len(r.holes)
  BY WholeSeq DEF Holed, Whole
<1>4. Whole(rings) /\ DOMAIN rings = DOMAIN r.holes /\ Len(rings) = Len(r.holes)
  <2>1. rings = [k \in 1..Len(r.holes) |-> rings[k]]
    BY <1>3
  <2> HIDE DEF rings
  <2>2. rings \in [1..Len(r.holes) -> Elements(rings)]
    <3>1. \A k \in 1..Len(r.holes) : rings[k] \in Elements(rings)
      BY <2>1 DEF Elements
    <3> QED
      BY <2>1, <3>1
  <2>3. rings \in Seq(Elements(rings))
    BY <1>3, <2>2, SeqDef
  <2>4. Len(rings) = Len(r.holes)
    BY <1>3, <2>1, <2>3, WholeSeq, LenProperties
  <2> QED
    BY <1>3, <2>1, <2>3, <2>4 DEF Whole
<1>5. Parts = [k \in DOMAIN rings |-> Parts[k]] /\ \A k \in DOMAIN rings : Parts[k] = <<rings[k]>>
  <2>1. \A k \in DOMAIN rings : Drawn(rings[k])
    BY <1>2
  <2> HIDE DEF rings, Drawn
  <2> QED
    BY <2>1
<1>6. inner = FlattenSeq(Parts)
  BY DEF Sifted
<1>7. RoomPath(p, r.boundary, r.holes) = IF outer = <<>> THEN <<>> ELSE <<outer>> \o inner
  BY DEF RoomPath
<1> HIDE DEF outer, rings, Parts, inner
<1>8. inner = rings
  BY <1>4, <1>5, <1>6, AllPass
<1>9. RoomPath(p, r.boundary, r.holes) = <<outer>> \o rings
  BY <1>1, <1>7, <1>8
<1>10. /\ Len(<<outer>> \o rings) = 1 + Len(rings) /\ (<<outer>> \o rings)[1] = outer
  <2> DEFINE S == {outer} \cup Elements(rings)
             a == <<outer>>
             c == a \o rings
  <2>1. outer \in S /\ rings \in Seq(S)
    <3>1. Elements(rings) \subseteq S
      OBVIOUS
    <3> HIDE DEF S
    <3>2. rings \in Seq(S)
      BY <1>4, <3>1, SeqMonotonic DEF Whole
    <3> QED
      BY <3>2 DEF S
  <2> HIDE DEF S
  <2>2. a \in Seq(S) /\ Len(a) = 1 /\ a[1] = outer
    BY <2>1, OneEntry
  <2> HIDE DEF a
  <2>3. a \in Seq(S) /\ rings \in Seq(S) /\ c = a \o rings
    BY <2>1, <2>2
  <2> HIDE DEF c
  <2>4. Len(c) = Len(a) + Len(rings) /\ \A i \in 1..Len(a) : c[i] = a[i]
    BY ONLY <2>3, Joined
  <2>5. 1 \in 1..Len(a)
    BY <2>2
  <2>6. Len(c) = 1 + Len(rings) /\ c[1] = outer
    BY <2>2, <2>4, <2>5
  <2> QED
    BY <2>6 DEF a, c
<1> QED
  BY <1>1, <1>4, <1>9, <1>10

\* No door is left out of the map.
LEMMA DoorsDrawn ==
  ASSUME NEW p, WallsWhole(p), DoorsWhole(p), Whole(p.doors), NEW codes, NEW width, NEW minimum
  PROVE  MapFloor(p, codes, width, minimum).doors = p.doors
<1> DEFINE Drawn(d) == DoorDrawn(p, d)
           Parts == [i \in DOMAIN p.doors |-> IF Drawn(p.doors[i]) THEN <<p.doors[i]>> ELSE <<>>]
<1>1. MapFloor(p, codes, width, minimum).doors = FlattenSeq(Parts)
  BY DEF MapFloor, Sifted
<1>2. \A i \in DOMAIN p.doors : Drawn(p.doors[i])
  BY DEF DoorDrawn, DoorsWhole, WallsWhole, Elements
<1>3. Parts = [i \in DOMAIN p.doors |-> Parts[i]] /\ \A i \in DOMAIN p.doors : Parts[i] = <<p.doors[i]>>
  <2> HIDE DEF Drawn
  <2> QED
    BY <1>2
<1> HIDE DEF Parts
<1> QED
  BY <1>1, <1>3, AllPass

\* No room is left out of a map that is made: each is drawn once, in its place.
LEMMA RoomsDrawn ==
  ASSUME NEW p, Whole(p.rooms), \A r \in Elements(p.rooms) : HasContour(p, r),
         NEW codes, NEW width, NEW minimum
  PROVE  MapFloor(p, codes, width, minimum).rooms
            = [i \in DOMAIN p.rooms |-> MapRoom(p, p.rooms[i], codes, width)]
<1> DEFINE Drawn(r) == HasContour(p, r)
           Parts == [i \in DOMAIN p.rooms |-> IF Drawn(p.rooms[i]) THEN <<p.rooms[i]>> ELSE <<>>]
           kept == FlattenSeq(Parts)
           drawn(r) == MapRoom(p, r, codes, width)
<1>1. MapFloor(p, codes, width, minimum).rooms = [i \in DOMAIN kept |-> drawn(kept[i])]
  BY DEF MapFloor, Sifted
<1>2. \A i \in DOMAIN p.rooms : Drawn(p.rooms[i])
  BY DEF Elements
<1>3. Parts = [i \in DOMAIN p.rooms |-> Parts[i]] /\ \A i \in DOMAIN p.rooms : Parts[i] = <<p.rooms[i]>>
  <2> HIDE DEF Drawn
  <2> QED
    BY <1>2
<1> HIDE DEF Parts
<1>4. kept = p.rooms
  BY <1>3, AllPass
<1> HIDE DEF kept, drawn
<1>5. MapFloor(p, codes, width, minimum).rooms = [i \in DOMAIN p.rooms |-> drawn(p.rooms[i])]
  BY <1>1, <1>4
<1> QED
  BY <1>5 DEF drawn

\* The floor a map shows of a plan has all that the plan has.
LEMMA FloorShown ==
  ASSUME NEW p, Proper(p), FloorPlanSchema(p), \A r \in Elements(p.rooms) : HasContour(p, r),
         NEW codes, NEW width, NEW minimum,
         NEW m, m = MapFloor(p, codes, width, minimum)
  PROVE  /\ m.doors = p.doors
         /\ [k \in DOMAIN m.rooms |-> m.rooms[k].code] = CodesOf(p, codes)
         /\ \A r \in Elements(p.rooms) : \E k \in DOMAIN m.rooms :
              /\ {l \in DOMAIN m.rooms : m.rooms[l].id = r.id} = {k}
              /\ m.rooms[k].path[1] = [n \in DOMAIN r.boundary |-> r.boundary[n].wall]
              /\ Len(m.rooms[k].path) = 1 + Len(r.holes)
<1>1. /\ WallsWhole(p) /\ DoorsWhole(p) /\ RoomsWhole(p) /\ PlanLike(p)
      /\ Whole(p.doors) /\ Whole(p.rooms)
      /\ \A i \in DOMAIN p.rooms : Whole(p.rooms[i].boundary)
  BY DEF Proper, PlanLike, Sound, DoorsSound, OutlinesSound, Outline, FloorPlanSchema
<1>2. m.doors = p.doors
  BY <1>1, DoorsDrawn
<1>3. m.rooms = [i \in DOMAIN p.rooms |-> MapRoom(p, p.rooms[i], codes, width)]
  BY <1>1, RoomsDrawn
<1>4. \A r : /\ MapRoom(p, r, codes, width).id = r.id
             /\ MapRoom(p, r, codes, width).code = CodeOf(r, codes)
             /\ MapRoom(p, r, codes, width).path = RoomPath(p, r.boundary, r.holes)
  BY DEF MapRoom
<1>5. /\ DOMAIN m.rooms = DOMAIN p.rooms
      /\ \A k \in DOMAIN p.rooms :
            /\ m.rooms[k].id = p.rooms[k].id
            /\ m.rooms[k].code = CodeOf(p.rooms[k], codes)
            /\ m.rooms[k].path = RoomPath(p, p.rooms[k].boundary, p.rooms[k].holes)
  BY <1>3, <1>4
<1>6. [k \in DOMAIN m.rooms |-> m.rooms[k].code] = CodesOf(p, codes)
  BY <1>5 DEF CodesOf
<1>7. ASSUME NEW r \in Elements(p.rooms)
      PROVE  \E k \in DOMAIN m.rooms :
              /\ {l \in DOMAIN m.rooms : m.rooms[l].id = r.id} = {k}
              /\ m.rooms[k].path[1] = [n \in DOMAIN r.boundary |-> r.boundary[n].wall]
              /\ Len(m.rooms[k].path) = 1 + Len(r.holes)
  <2>1. PICK k \in DOMAIN p.rooms : r = p.rooms[k]
    BY DEF Elements
  <2>2. \A l \in DOMAIN p.rooms : p.rooms[l].id = r.id => l = k
    BY <1>1, <2>1 DEF RoomsWhole, Distinct, IdsOf
  <2>3. {l \in DOMAIN m.rooms : m.rooms[l].id = r.id} = {k}
    BY <1>5, <2>1, <2>2
  <2>4. /\ Holed(r) /\ Whole(r.boundary) /\ RefsWhole(p, r.boundary)
        /\ \A n \in DOMAIN r.holes : RefsWhole(p, r.holes[n])
    BY <1>1, <2>1 DEF PlanLike, RoomsWhole
  <2>5. /\ RoomPath(p, r.boundary, r.holes)[1] = [n \in DOMAIN r.boundary |-> r.boundary[n].wall]
        /\ Len(RoomPath(p, r.boundary, r.holes)) = 1 + Len(r.holes)
    BY <1>1, <2>4, RoomDrawn
  <2>6. m.rooms[k].path = RoomPath(p, r.boundary, r.holes) /\ k \in DOMAIN m.rooms
    BY <1>5, <2>1
  <2> QED
    BY <2>3, <2>5, <2>6
<1> QED
  BY <1>2, <1>6, <1>7

(* Whatever the editor holds the web can show: as soon as all its plans     *)
(* pass the schema and the map is made of them, every room is on it once,   *)
(* with a code of its own, its outline and its holes, and every door is.    *)
THEOREM PlansAreShown == EditorSpec => []MapShowsThePlans
<1>1. EditorInv => MapShowsThePlans
  <2> DEFINE floors == [f \in listed |-> plans[f]]
             map == Vector2Map(floors, Codes, Width, 4)
             Shows(f, r) == \E k \in {k \in DOMAIN map[f].rooms : map[f].rooms[k].id = r.id} :
                /\ {l \in DOMAIN map[f].rooms : map[f].rooms[l].id = r.id} = {k}
                /\ map[f].rooms[k].path[1] = [n \in DOMAIN r.boundary |-> r.boundary[n].wall]
                /\ Len(map[f].rooms[k].path) = 1 + Len(r.holes)
  <2> SUFFICES ASSUME EditorInv, \A f \in listed : FloorPlanSchema(plans[f]), map # <<>>
               PROVE  /\ AllApart([f \in listed |-> [k \in DOMAIN map[f].rooms |-> map[f].rooms[k].code]])
                      /\ \A f \in listed :
                            /\ Len(map[f].doors) = Len(plans[f].doors)
                            /\ \A r \in Elements(plans[f].rooms) : Shows(f, r)
    BY DEF MapShowsThePlans
  <2>1. /\ \A f \in listed : \A r \in Elements(plans[f].rooms) : HasContour(plans[f], r)
        /\ AllApart([f \in listed |-> CodesOf(plans[f], Codes)])
        /\ \A f \in listed : map[f] = MapFloor(plans[f], Codes, Width, 4)
    <3> DEFINE whole == \A f \in DOMAIN floors : \A r \in Elements(floors[f].rooms) :
                            HasContour(floors[f], r)
               known == DOMAIN Codes \subseteq
                            UNION {Elements(IdsOf(floors[f].rooms)) : f \in DOMAIN floors}
               unique == AllApart([f \in DOMAIN floors |-> CodesOf(floors[f], Codes)])
               made == [f \in DOMAIN floors |-> MapFloor(floors[f], Codes, Width, 4)]
    <3>1. map = IF whole /\ known /\ unique THEN made ELSE <<>>
      BY DEF Vector2Map
    <3>2. whole /\ unique /\ map = made
      <4> HIDE DEF whole, known, unique, made, map
      <4> QED
        BY <3>1
    <3>3. DOMAIN floors = listed /\ \A f \in listed : floors[f] = plans[f]
      OBVIOUS
    <3> HIDE DEF floors
    <3>4. \A f \in listed : map[f] = MapFloor(plans[f], Codes, Width, 4)
      <4>1. \A f \in listed : made[f] = MapFloor(plans[f], Codes, Width, 4)
        BY <3>3
      <4> QED
        BY <3>2, <4>1
    <3>5. [f \in DOMAIN floors |-> CodesOf(floors[f], Codes)] = [f \in listed |-> CodesOf(plans[f], Codes)]
      BY <3>3
    <3> QED
      BY <3>2, <3>3, <3>4, <3>5
  <2> HIDE DEF map
  <2>2. ASSUME NEW f \in listed
        PROVE  /\ map[f].doors = plans[f].doors
               /\ [k \in DOMAIN map[f].rooms |-> map[f].rooms[k].code] = CodesOf(plans[f], Codes)
               /\ \A r \in Elements(plans[f].rooms) : Shows(f, r)
    <3>1. Proper(plans[f])
      BY DEF EditorInv, RoomsStay, Line
    <3>2. /\ FloorPlanSchema(plans[f]) /\ map[f] = MapFloor(plans[f], Codes, Width, 4)
          /\ \A r \in Elements(plans[f].rooms) : HasContour(plans[f], r)
      BY <2>1
    <3>3. /\ map[f].doors = plans[f].doors
          /\ [k \in DOMAIN map[f].rooms |-> map[f].rooms[k].code] = CodesOf(plans[f], Codes)
      BY <3>1, <3>2, FloorShown
    <3>4. ASSUME NEW r \in Elements(plans[f].rooms) PROVE Shows(f, r)
      <4>1. PICK k \in DOMAIN map[f].rooms :
                /\ {l \in DOMAIN map[f].rooms : map[f].rooms[l].id = r.id} = {k}
                /\ map[f].rooms[k].path[1] = [n \in DOMAIN r.boundary |-> r.boundary[n].wall]
                /\ Len(map[f].rooms[k].path) = 1 + Len(r.holes)
        BY <3>1, <3>2, FloorShown
      <4> QED
        BY <4>1
    <3> QED
      BY <3>3, <3>4
  <2>3. [f \in listed |-> [k \in DOMAIN map[f].rooms |-> map[f].rooms[k].code]]
          = [f \in listed |-> CodesOf(plans[f], Codes)]
    BY <2>2
  <2> QED
    BY <2>1, <2>2, <2>3
<1> QED
  BY <1>1, EditorOpens, EditorKeepsInv, PTL DEF EditorSpec

-----------------------------------------------------------------------------
(* What the identity table makes of a drawing. *)

\* The face an entry falls on is the smallest of those around its point.
LEMMA SmallestFace ==
  ASSUME NEW t, Whole(t.rooms), \A face \in Elements(t.rooms) : face.area \in Nat,
         NEW p, NEW i, i = FaceAt(p, t), i # 0
  PROVE  /\ i \in DOMAIN t.rooms /\ PointInRegion(p, t.rooms[i], t)
         /\ \A g \in Elements(t.rooms) : PointInRegion(p, g, t) => t.rooms[i].area <= g.area
<1> DEFINE hits == {j \in DOMAIN t.rooms : PointInRegion(p, t.rooms[j], t)}
           least == {j \in hits : \A n \in hits : t.rooms[j].area <= t.rooms[n].area}
           areas == {t.rooms[j].area : j \in hits}
<1>1. hits # {} /\ i = Min(least)
  <2>1. FaceAt(p, t) = IF hits = {} THEN 0 ELSE Min(least)
    BY DEF FaceAt
  <2> HIDE DEF hits, least
  <2> QED
    BY <2>1
<1>2. areas \in SUBSET Nat /\ hits \subseteq Nat
  BY WholeSeq DEF Whole, Elements
<1>3. PICK j0 \in hits : TRUE
  BY <1>1
<1>4. PICK a \in areas : \A b \in areas : a <= b
  <2>1. t.rooms[j0].area \in areas
    OBVIOUS
  <2> HIDE DEF areas
  <2> QED
    BY <1>2, <2>1, LeastNat
<1>5. PICK j \in least : TRUE
  BY <1>4
<1>6. i \in least
  <2>1. least \in SUBSET Nat
    BY <1>2
  <2> HIDE DEF least
  <2>2. PICK n \in least : \A m \in least : n <= m
    BY <1>5, <2>1, LeastNat
  <2> QED
    BY <1>1, <2>2 DEF Min
<1>7. ASSUME NEW g \in Elements(t.rooms), PointInRegion(p, g, t) PROVE t.rooms[i].area <= g.area
  <2>1. PICK n \in DOMAIN t.rooms : g = t.rooms[n]
    BY DEF Elements
  <2>2. n \in hits
    BY <1>7, <2>1
  <2> QED
    BY <1>6, <2>1, <2>2
<1> QED
  BY <1>6, <1>7

\* In a build that went through, each entry names the face it falls on.
LEMMA EachNamesItsFace ==
  ASSUME NEW t, NEW entries, AssignIdentities(t, entries).ok, NEW k \in DOMAIN entries,
         NEW i, i = FaceAt(entries[k].at, t)
  PROVE  /\ i # 0 /\ i \in DOMAIN AssignIdentities(t, entries).of
         /\ AssignIdentities(t, entries).of[i] = entries[k]
<1> DEFINE faces == FacesNamed(t, entries)
           of == [n \in Elements(faces) |-> entries[CHOOSE l \in DOMAIN entries : faces[l] = n]]
<1>1. 0 \notin Elements(faces) /\ Distinct(faces) /\ AssignIdentities(t, entries).of = of
  BY DEF AssignIdentities
<1>2. DOMAIN faces = DOMAIN entries /\ faces[k] = i
  BY DEF FacesNamed
<1> HIDE DEF faces
<1>3. i \in Elements(faces) /\ \A l \in DOMAIN entries : faces[l] = i => l = k
  BY <1>1, <1>2 DEF Elements, Distinct
<1>4. (CHOOSE l \in DOMAIN entries : faces[l] = i) = k
  BY <1>2, <1>3
<1> QED
  BY <1>1, <1>3, <1>4

LEMMA NamesLand ==
  ASSUME NEW tables, NEW f \in DOMAIN GeneratedFloors(Drawings, tables),
         NEW p, p = GeneratedFloors(Drawings, tables)[f]
  PROVE  /\ Len(p.rooms) = Len(Drawings[f].rooms)
         /\ \A k \in DOMAIN tables[f] : \E i \in DOMAIN p.rooms :
              LET around(g) == PointInRegion(tables[f][k].at, g, Drawings[f])
              IN  /\ p.rooms[i].id = tables[f][k].id
                  /\ around(Drawings[f].rooms[i])
                  /\ \A g \in Elements(Drawings[f].rooms) :
                        around(g) => Drawings[f].rooms[i].area <= g.area
<1> DEFINE t == Drawings[f]
           entries == tables[f]
           named == AssignIdentities(t, entries)
<1>1. f \in DOMAIN Drawings /\ BuildFromNamed(t, named).ok /\ p = BuildFromNamed(t, named).plan
  <2> DEFINE built(g) == BuildFromTraced(Drawings[g], tables[g])
             failed == \E g \in DOMAIN Drawings : ~built(g).ok
             floors == [g \in {g \in DOMAIN Drawings : FloorPlanSchema(built(g).plan)} |-> built(g).plan]
  <2>1. GeneratedFloors(Drawings, tables) = IF failed THEN [g \in {} |-> <<>>] ELSE floors
    BY DEF GeneratedFloors
  <2>2. ~failed /\ f \in DOMAIN floors /\ p = floors[f]
    <3> HIDE DEF failed, floors
    <3> QED
      BY <2>1
  <2>3. f \in DOMAIN Drawings /\ built(f).ok /\ p = built(f).plan
    <3> HIDE DEF built
    <3> QED
      BY <2>2
  <2> QED
    BY <2>3 DEF BuildFromTraced
<1>2. Whole(t.rooms) /\ \A face \in Elements(t.rooms) : face.area \in Nat
  BY <1>1, EditorAssumption DEF Formed, Whole
<1> HIDE DEF t, entries, named
<1> DEFINE Who(i) == IF i \in DOMAIN named.of THEN NamedRoom(t.rooms[i], named.of[i])
                     ELSE UnnamedRoom(t.rooms[i], t.id)
<1>3. /\ named.ok /\ p.rooms = [i \in DOMAIN t.rooms |-> RoomOfFace(t.rooms[i], Who(i))]
  BY <1>1 DEF BuildFromNamed, PlanOfRooms
<1>4. \A i \in DOMAIN t.rooms : p.rooms[i].id = Who(i).id
  <2>1. \A face, who : RoomOfFace(face, who).id = who.id
    BY DEF RoomOfFace
  <2> HIDE DEF Who
  <2> QED
    BY <1>3, <2>1
<1>5. Len(p.rooms) = Len(t.rooms) /\ DOMAIN p.rooms = DOMAIN t.rooms
  <2>1. Len(t.rooms) \in Nat /\ DOMAIN t.rooms = 1..Len(t.rooms)
    BY <1>2, WholeSeq DEF Whole
  <2>2. DOMAIN p.rooms = DOMAIN t.rooms
    BY <1>3
  <2>3. Whole(p.rooms)
    BY GeneratedLike DEF Proper, PlanLike
  <2>4. Len(p.rooms) \in Nat /\ DOMAIN p.rooms = 1..Len(p.rooms)
    BY <2>3, WholeSeq DEF Whole
  <2> QED
    BY <2>1, <2>2, <2>4
<1>6. ASSUME NEW k \in DOMAIN entries
      PROVE  \E i \in DOMAIN p.rooms :
                /\ p.rooms[i].id = entries[k].id
                /\ PointInRegion(entries[k].at, t.rooms[i], t)
                /\ \A g \in Elements(t.rooms) :
                      PointInRegion(entries[k].at, g, t) => t.rooms[i].area <= g.area
  <2> DEFINE i == FaceAt(entries[k].at, t)
  <2>1. i # 0 /\ i \in DOMAIN named.of /\ named.of[i] = entries[k]
    BY <1>3, EachNamesItsFace DEF named
  <2>2. /\ i \in DOMAIN t.rooms /\ PointInRegion(entries[k].at, t.rooms[i], t)
        /\ \A g \in Elements(t.rooms) :
              PointInRegion(entries[k].at, g, t) => t.rooms[i].area <= g.area
    BY <1>2, <2>1, SmallestFace
  <2> HIDE DEF i
  <2>3. p.rooms[i].id = entries[k].id
    BY <1>4, <2>1, <2>2 DEF NamedRoom
  <2> QED
    BY <1>5, <2>2, <2>3
<1> QED
  BY <1>5, <1>6 DEF t, entries

\* Until the first change the editor shows what was generated.
Untouched ==
    edits = 0 =>
        /\ listed = DOMAIN GeneratedFloors(Drawings, table)
        /\ \A f \in listed : plans[f] = GeneratedFloors(Drawings, table)[f]
        /\ \A f \in Floors : hist[f] = EmptyHistory
        /\ drag = NoDrag

\* Every wall of a floor that was generated is drawn.
LEMMA GeneratedDrawn ==
  ASSUME NEW tables, NEW f \in DOMAIN GeneratedFloors(Drawings, tables),
         NEW p, p = GeneratedFloors(Drawings, tables)[f], NEW w \in DOMAIN p.walls
  PROVE  DoorDrawn(p, [wall |-> w])
<1>1. FloorPlanSchema(p)
  BY DEF GeneratedFloors
<1>2. {p.walls[w].start, p.walls[w].end} \subseteq DOMAIN p.points
  BY <1>1 DEF FloorPlanSchema, WallsWhole
<1> QED
  BY <1>2 DEF DoorDrawn

\* A step that is no change leaves it so: there is nothing to undo or to move,
\* and no wall without its ends to split.
LEMMA NothingTouched ==
  ASSUME UiTyped, Untouched, EditorNext, edits' = 0
  PROVE  /\ edits = 0 /\ drag' = NoDrag
         /\ table' = table /\ listed' = listed /\ plans' = plans /\ hist' = hist
<1> DEFINE Rests == /\ edits = 0 /\ drag' = NoDrag
                    /\ table' = table /\ listed' = listed /\ plans' = plans /\ hist' = hist
<1> SUFFICES Rests
  OBVIOUS
<1>1. edits \in Nat /\ ~(edits' = edits + 1)
  BY EditorAssumption DEF UiTyped
<1>2. ASSUME edits' = edits, drag' \in {drag, NoDrag},
             table' = table, listed' = listed, plans' = plans, hist' = hist
      PROVE  Rests
  BY <1>2 DEF Untouched
<1>3. \A q : ~Edit(q)
  BY <1>1 DEF Edit
<1> HIDE DEF Rests
<1>4. ASSUME (\E f \in listed : SetActiveFloor(f)) \/ SetMode \/ (\E t \in Tools : SetTool(t)) \/ Deselect
      PROVE  Rests
  <2>1. ASSUME NEW f, SetActiveFloor(f) PROVE Rests
    BY <1>2, <2>1 DEF SetActiveFloor
  <2>2. CASE SetMode
    BY <1>1, <1>2, <2>2 DEF SetMode
  <2>3. ASSUME NEW t, SetTool(t) PROVE Rests
    BY <1>2, <2>3 DEF SetTool
  <2>4. CASE Deselect
    BY <1>2, <2>4 DEF Deselect
  <2> QED
    BY <1>4, <2>1, <2>2, <2>3, <2>4
<1>5. CASE OnWalls
  <2>1. ASSUME NEW w, SelectWall(w) PROVE Rests
    BY <1>2, <2>1 DEF SelectWall
  <2>2. \A w : ~DeleteWall(w) /\ ~SplitWall(w) /\ \A pos : ~AddDoor(w, pos)
    BY <1>3 DEF DeleteWall, SplitWall, AddDoor
  <2>3. ASSUME NEW w \in DOMAIN ThePlan.walls PROVE ~SplitThrows(w)
    <3>1. SUFFICES ASSUME SplitThrows(w) PROVE FALSE
      OBVIOUS
    <3>2. edits = 0 /\ w \notin DrawnWalls
      BY <3>1 DEF SplitThrows
    <3>3. active \in listed
      BY DEF EditorNext, UiTyped
    <3>4. /\ active \in DOMAIN GeneratedFloors(Drawings, table)
          /\ ThePlan = GeneratedFloors(Drawings, table)[active]
      BY <3>2, <3>3 DEF Untouched, ThePlan
    <3>5. DoorDrawn(ThePlan, [wall |-> w])
      BY <3>4, GeneratedDrawn
    <3> QED
      BY <3>2, <3>5 DEF DrawnWalls
  <2> QED
    BY <1>5, <2>1, <2>2, <2>3 DEF OnWalls, Reachable
<1>6. CASE OnPoints
  <2>1. ASSUME NEW raw, NEW alt PROVE ~MovePoint(raw, alt)
    <3>1. SUFFICES ASSUME MovePoint(raw, alt) PROVE FALSE
      OBVIOUS
    <3>2. drag # NoDrag /\ edits' = edits
      BY <3>1 DEF MovePoint
    <3> QED
      BY <3>2 DEF Untouched
  <2>2. ASSUME NEW p, GrabPoint(p) \/ ClickPointForWall(p) PROVE Rests
    <3>1. ~GrabPoint(p)
      BY <1>1 DEF GrabPoint
    <3>2. ASSUME ClickPointForWall(p)
          PROVE  /\ table' = table /\ listed' = listed /\ drag' = drag
                 /\ plans' = plans /\ hist' = hist /\ edits' = edits
      BY <1>3, <3>2 DEF ClickPointForWall
    <3> QED
      BY <1>2, <2>2, <3>1, <3>2
  <2>3. CASE ReleasePoint
    BY <1>2, <2>3 DEF ReleasePoint
  <2> QED
    BY <1>6, <2>1, <2>2, <2>3 DEF OnPoints
<1>7. CASE OnRooms
  <2>1. ASSUME NEW r, SelectRoom(r) \/ GrabLabel(r) PROVE Rests
    BY <1>2, <2>1 DEF SelectRoom, GrabLabel
  <2>2. \A x : ~MoveLabel(x) /\ ~UpdateRoom(x)
    BY <1>3 DEF MoveLabel, UpdateRoom
  <2>3. CASE ReleaseLabel
    <3>1. edits' = edits
      BY <1>1, <2>3 DEF ReleaseLabel
    <3> QED
      BY <1>2, <2>3, <3>1 DEF ReleaseLabel
  <2> QED
    BY <1>7, <2>1, <2>2, <2>3 DEF OnRooms
<1>8. CASE OnPanel
  <2>1. ASSUME NEW d, SelectDoor(d) PROVE Rests
    BY <1>2, <2>1 DEF SelectDoor
  <2>2. \A x : ~SetWallType(x) /\ ~SetWallBulge(x) /\ ~UpdateDoor(x)
    BY <1>3 DEF SetWallType, SetWallBulge, UpdateDoor
  <2>3. ~DeleteDoor
    BY <1>3 DEF DeleteDoor
  <2>4. \A p : ~Import(p)
    BY <1>1 DEF Import
  <2> QED
    BY <1>8, <2>1, <2>2, <2>3, <2>4 DEF OnPanel
<1>9. CASE UndoKey \/ RedoKey
  <2>1. edits = 0 /\ active \in Floors
    BY <1>9 DEF UndoKey, RedoKey, UiTyped
  <2>2. ~CanUndo(active) /\ ~CanRedo(active)
    BY <2>1 DEF Untouched, EmptyHistory, CanUndo, CanRedo
  <2>3. ~UndoKey /\ ~RedoKey
    BY <2>2 DEF UndoKey, RedoKey, UndoStep, RedoStep
  <2> QED
    BY <1>9, <2>3
<1> QED
  BY <1>4, <1>5, <1>6, <1>7, <1>8, <1>9 DEF EditorNext

(* Identities land where they point, whatever the drawings and the table:   *)
(* in a generated floor each entry of the table names the smallest face     *)
(* around its point, every entry is used and every face becomes a room.     *)
THEOREM IdentitiesAlwaysLand == EditorSpec => []IdentitiesLand
<1>1. EditorInit => Untouched
  <2> SUFFICES ASSUME EditorInit PROVE Untouched
    OBVIOUS
  <2> DEFINE floors == GeneratedFloors(Drawings, table)
  <2>1. listed = DOMAIN floors /\ \A f \in DOMAIN floors : f \in Floors
    BY GeneratedLike DEF EditorInit
  <2>2. plans = [f \in Floors |-> IF f \in listed THEN floors[f] ELSE NoPlan]
    BY DEF EditorInit
  <2> HIDE DEF floors
  <2>3. \A f \in listed : plans[f] = floors[f]
    BY <2>1, <2>2
  <2>4. (\A f \in Floors : hist[f] = EmptyHistory) /\ drag = NoDrag
    BY DEF EditorInit
  <2> QED
    BY <2>1, <2>3, <2>4 DEF Untouched, floors
<1>2. EditorInv /\ Untouched /\ [EditorNext]_editorVars => Untouched'
  <2> SUFFICES ASSUME EditorInv, Untouched, [EditorNext]_editorVars, edits' = 0
               PROVE  /\ listed' = DOMAIN GeneratedFloors(Drawings, table')
                      /\ \A f \in listed' : plans'[f] = GeneratedFloors(Drawings, table')[f]
                      /\ \A f \in Floors : hist'[f] = EmptyHistory
                      /\ drag' = NoDrag
    BY DEF Untouched
  <2>1. /\ edits = 0 /\ drag' = NoDrag
        /\ table' = table /\ listed' = listed /\ plans' = plans /\ hist' = hist
    <3>1. CASE EditorNext
      BY <3>1, NothingTouched DEF EditorInv
    <3>2. CASE UNCHANGED editorVars
      BY <3>2 DEF editorVars, uiVars, Untouched
    <3> QED
      BY <3>1, <3>2
  <2> QED
    BY <2>1 DEF Untouched
<1>3. Untouched => IdentitiesLand
  <2> SUFFICES ASSUME Untouched, edits = 0, NEW f \in listed
               PROVE  /\ Len(plans[f].rooms) = Len(Drawings[f].rooms)
                      /\ \A k \in DOMAIN table[f] : \E i \in DOMAIN plans[f].rooms :
                           LET around(g) == PointInRegion(table[f][k].at, g, Drawings[f])
                           IN  /\ plans[f].rooms[i].id = table[f][k].id
                               /\ around(Drawings[f].rooms[i])
                               /\ \A g \in Elements(Drawings[f].rooms) :
                                     around(g) => Drawings[f].rooms[i].area <= g.area
    BY DEF IdentitiesLand
  <2>1. f \in DOMAIN GeneratedFloors(Drawings, table) /\ plans[f] = GeneratedFloors(Drawings, table)[f]
    BY DEF Untouched
  <2> QED
    BY <2>1, NamesLand
<1> QED
  BY <1>1, <1>2, <1>3, EditorOpens, EditorKeepsInv, PTL DEF EditorSpec

(* The plans and stacks of the running editor are one line of versions with *)
(* a cursor for each floor: whatever is edited, dragged and imported, undo  *)
(* and redo lose or alter no version.                                       *)
THEOREM EditorRefinesTimeline == EditorSpec => HistoryIsTimeline
<1>1. EditorInit => Timeline!Init
  <2> SUFFICES ASSUME EditorInit PROVE Timeline!Init
    OBVIOUS
  <2>1. DOMAIN plans = Floors /\ hist = [f \in Floors |-> EmptyHistory]
    BY DEF EditorInit
  <2>2. \E P : plans \in [Floors -> P]
    <3>1. plans \in [Floors -> {plans[f] : f \in Floors}]
      BY DEF EditorInit
    <3> QED
      BY <3>1
  <2>3. PICK P : plans \in [Floors -> P]
    BY <2>2
  <2> QED
    BY <2>1, <2>3, InitOfLine
<1> QED
  BY <1>1, EditorOpens, EditorKeepsInv, EditorStepOfLine, PTL
  DEF EditorSpec, HistoryIsTimeline, Timeline!Spec
=============================================================================
