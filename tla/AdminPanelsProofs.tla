------------------------- MODULE AdminPanelsProofs --------------------------
(***************************************************************************)
(* The panels of an administrator, for any catalogue, any lessons and any  *)
(* number of requests: the undo button offers what exists, and the grid    *)
(* ends up with the lessons of the server.  Both are shown of the whole    *)
(* page; only one of its parts changes what they speak of.                 *)
(***************************************************************************)
EXTENDS WebPage, FiniteSetTheorems, SequenceTheorems, TLAPS

-----------------------------------------------------------------------------
(***************************************************************************)
(* Single changes.  An order of this mount is one that the panel waits     *)
(* for; an order of mount 0 was given up, and one of an earlier mount is   *)
(* answered to a panel that is gone.                                       *)
(***************************************************************************)
OrdersTyped ==
    /\ errands \in Nat
    /\ DOMAIN panel = {"life", "last"} /\ panel.life \in Nat \ {0}
    /\ panel.last = NoOverride \/ panel.last.id \in 1..errands
    /\ \A o \in orders :
        /\ DOMAIN o = {"no", "kind", "of", "life", "stage"}
        /\ o.kind \in {"make", "undo", "announce"} /\ o.stage \in {"sent", "done", "refused"}
        /\ o.no \in 1..errands /\ o.of.id \in 0..errands /\ o.life \in 0..panel.life

\* Orders have numbers of their own; an override is named by the order for it.
OrdersNumbered ==
    /\ \A o, p \in orders : o.no = p.no => o = p
    /\ \A o \in orders : o.kind = "make" => o.of.id = o.no

\* The panel waits for one answer at a time.
OneIsAwaited == \A o, p \in Mine(orders) : o = p

\* No override is undone, or offered to be, before it was answered; so what was
\* made is still there when the answer comes, unless its lesson is gone.
NothingUndoneEarly ==
    /\ \A o, p \in orders : o.kind = "make" /\ p.kind = "undo" => o.of # p.of
    /\ \A o \in orders : o.kind = "make" => o.of # panel.last
    /\ \A o \in orders : o.kind = "make" /\ o.stage = "done"
                            => o.of \in overrides \/ o.of.lesson \notin lessons

\* What is being undone is what the panel offers, was given up, or is of an
\* earlier mount and not offered any more.
UndoneIsOffered ==
    \A o \in orders : o.kind = "undo" =>
        /\ o.of.id # 0
        /\ o.life = panel.life => o.of = panel.last
        /\ o.life = 0 => o.of \in unsure
        /\ o.of = panel.last => o.life \in {0, panel.life}

\* What is offered exists, unless its lesson is gone, or the server has undone
\* it and the panel is about to hear of it.
OfferExists ==
    \/ panel.last \in {NoOverride} \cup overrides \cup unsure
    \/ panel.last.lesson \notin lessons
    \/ \E o \in Mine(orders) : o.kind = "undo" /\ o.stage = "done"

\* The lessons there were at first and are now, and those the orders are about.
Known ==
    Taught \cup lessons \cup {NoLesson, panel.last.lesson} \cup {o.of.lesson : o \in orders}

Added == {c \in changes : c.kind = "add"}

\* A lesson that is asked for is a new one, so a lesson that is gone never comes
\* back, and neither does the override that went with it.
LessonsNumbered ==
    /\ \A c \in changes : DOMAIN c = {"kind", "lesson", "life", "stage"}
    /\ \A l \in Known : l.id \in Int /\ l.id <= errands
    /\ \A c \in Added : c.lesson.id \in 1..errands
    /\ \A c, d \in Added : c.lesson.id = d.lesson.id => c = d
    /\ \A c \in Added : c.stage = "sent" => c.lesson \notin Known

UndoInv ==
    /\ OrdersTyped /\ OrdersNumbered /\ OneIsAwaited
    /\ NothingUndoneEarly /\ UndoneIsOffered /\ OfferExists
    /\ LessonsNumbered

USE DEF Mine

\* No lesson comes to be known that was not, and none is asked for.
LEMMA KnownKept ==
  ASSUME LessonsNumbered, errands \in Nat, errands' \in {errands, errands + 1},
         Known' \subseteq Known, UNCHANGED changes
  PROVE  LessonsNumbered'
<1>1. Added' = Added
  BY DEF Added
<1>2. \A n \in Int : n <= errands => n <= errands'
  OBVIOUS
<1> QED
  BY <1>1, <1>2 DEF LessonsNumbered

\* Steps that only count another request leave the orders as they are.
LEMMA UndoKept ==
  ASSUME UndoInv, UNCHANGED <<panelVars, changes, lessons>>, errands' \in {errands, errands + 1}
  PROVE  UndoInv'
<1>1. OrdersTyped'
  <2>1. errands \in Nat /\ errands' \in Nat /\ errands <= errands'
    BY DEF UndoInv, OrdersTyped
  <2> QED
    BY <2>1 DEF UndoInv, OrdersTyped, panelVars
<1>2. /\ OrdersNumbered' /\ OneIsAwaited' /\ NothingUndoneEarly' /\ UndoneIsOffered'
      /\ OfferExists'
  BY DEF UndoInv, OrdersNumbered, OneIsAwaited, NothingUndoneEarly, UndoneIsOffered,
         OfferExists, panelVars
<1>3. Known' = Known
  BY DEF Known, panelVars
<1>4. LessonsNumbered'
  BY <1>3, KnownKept DEF UndoInv, OrdersTyped
<1> QED
  BY <1>1, <1>2, <1>4 DEF UndoInv

\* A mount of the panels anew: they wait for nothing and offer nothing.
LEMMA UndoRemounted ==
  ASSUME UndoInv, Remount
  PROVE  UndoInv'
<1>1. /\ panel' = [life |-> panel.life + 1, last |-> NoOverride] /\ errands' = errands + 1
      /\ UNCHANGED <<orders, overrides, unsure, changes, lessons>>
  BY DEF Remount
<1>2. /\ panel.life \in Nat \ {0} /\ errands \in Nat
      /\ \A o \in orders : /\ o.no \in 1..errands /\ o.of.id \in 0..errands
                           /\ o.life \in 0..panel.life
  BY DEF UndoInv, OrdersTyped
<1>3. \A o \in orders : o.life # panel'.life /\ o.life \in 0..panel'.life
  BY <1>1, <1>2
<1>4. OrdersTyped'
  BY <1>1, <1>2, <1>3 DEF UndoInv, OrdersTyped
<1>5. OrdersNumbered' /\ OneIsAwaited'
  BY <1>1, <1>3 DEF UndoInv, OrdersNumbered, OneIsAwaited
<1>6. NoOverride.id = 0 /\ NoOverride.lesson = NoLesson
  BY DEF NoOverride
<1>7. NothingUndoneEarly'
  <2>1. \A o \in orders : o.kind = "make" => o.of # NoOverride
    BY <1>2, <1>6 DEF UndoInv, OrdersNumbered
  <2> QED
    BY <1>1, <2>1 DEF UndoInv, NothingUndoneEarly
<1>8. UndoneIsOffered'
  BY <1>1, <1>3, <1>6 DEF UndoInv, UndoneIsOffered
<1>9. OfferExists'
  BY <1>1 DEF OfferExists
<1>10. LessonsNumbered'
  <2>1. Known' \subseteq Known
    BY <1>1, <1>6 DEF Known
  <2> QED
    BY <1>1, <1>2, <2>1, KnownKept DEF UndoInv
<1> QED
  BY <1>4, <1>5, <1>7, <1>8, <1>9, <1>10 DEF UndoInv

\* A new order has a number, and a new override a name, that no other has.
LEMMA UndoOrdered ==
  ASSUME UndoInv, ~Busy, NEW kind, NEW of, Order(kind, of),
         \/ kind = "make" /\ of.id = errands + 1 /\ of.lesson \in Known
         \/ kind = "undo" /\ of = panel.last /\ of # NoOverride
         \/ kind = "announce" /\ of = NoOverride
  PROVE  UndoInv'
<1> DEFINE new == [no |-> errands + 1, kind |-> kind, of |-> of, life |-> panel.life,
                   stage |-> "sent"]
<1>1. /\ orders' = orders \cup {new} /\ errands' = errands + 1
      /\ UNCHANGED <<panel, overrides, unsure, changes, lessons>>
  BY DEF Order, gridVars
<1>2. /\ panel.life \in Nat \ {0} /\ errands \in Nat
      /\ panel.last = NoOverride \/ panel.last.id \in 1..errands
      /\ NoOverride.id = 0 /\ NoOverride.lesson = NoLesson
  BY DEF UndoInv, OrdersTyped, NoOverride
<1>3. \A o \in orders : /\ o.no \in 1..errands /\ o.of.id \in 0..errands
                        /\ o.life \in 0..panel.life
  BY DEF UndoInv, OrdersTyped
<1>4. /\ DOMAIN new = {"no", "kind", "of", "life", "stage"}
      /\ new.no = errands + 1 /\ new.kind = kind /\ new.of = of
      /\ new.life = panel.life /\ new.stage = "sent"
  OBVIOUS
<1>5. of.id \in 0..errands + 1 /\ (kind = "undo" => of.id # 0)
  BY <1>2
<1>6. Mine(orders) = {}
  BY DEF Busy
<1> HIDE DEF new
<1>7. OrdersTyped'
  <2>1. \A o \in orders' :
          /\ DOMAIN o = {"no", "kind", "of", "life", "stage"}
          /\ o.kind \in {"make", "undo", "announce"} /\ o.stage \in {"sent", "done", "refused"}
    BY <1>1, <1>4 DEF UndoInv, OrdersTyped
  <2>2. \A o \in orders' : /\ o.no \in 1..errands' /\ o.of.id \in 0..errands'
                           /\ o.life \in 0..panel'.life
    BY <1>1, <1>2, <1>3, <1>4, <1>5
  <2>3. errands' \in Nat /\ (panel'.last = NoOverride \/ panel'.last.id \in 1..errands')
    BY <1>1, <1>2
  <2> QED
    BY <1>1, <2>1, <2>2, <2>3 DEF UndoInv, OrdersTyped
<1>8. OrdersNumbered'
  BY <1>1, <1>2, <1>3, <1>4 DEF UndoInv, OrdersNumbered
<1>9. OneIsAwaited'
  BY <1>1, <1>6 DEF OneIsAwaited
<1>10. NothingUndoneEarly'
  <2>1. ASSUME NEW o \in orders', NEW p \in orders', o.kind = "make", p.kind = "undo"
        PROVE  o.of # p.of
    <3>1. CASE o \in orders /\ p \in orders
      BY <2>1, <3>1 DEF UndoInv, NothingUndoneEarly
    <3>2. CASE o = new
      BY <1>1, <1>2, <1>3, <1>4, <2>1, <3>2
    <3>3. CASE o \in orders /\ p = new
      BY <1>4, <2>1, <3>3 DEF UndoInv, NothingUndoneEarly
    <3> QED
      BY <1>1, <3>1, <3>2, <3>3
  <2>2. ASSUME NEW o \in orders', o.kind = "make" PROVE o.of # panel'.last
    BY <1>1, <1>2, <1>4, <2>2 DEF UndoInv, NothingUndoneEarly
  <2>3. ASSUME NEW o \in orders', o.kind = "make", o.stage = "done"
        PROVE  o.of \in overrides' \/ o.of.lesson \notin lessons'
    BY <1>1, <1>4, <2>3 DEF UndoInv, NothingUndoneEarly
  <2> QED
    BY <2>1, <2>2, <2>3 DEF NothingUndoneEarly
<1>11. UndoneIsOffered'
  BY <1>1, <1>2, <1>4, <1>5 DEF UndoInv, UndoneIsOffered
<1>12. OfferExists'
  BY <1>1, <1>6 DEF UndoInv, OfferExists
<1>13. LessonsNumbered'
  <2>1. of.lesson \in Known
    BY <1>2 DEF Known
  <2>2. Known' \subseteq Known
    BY <1>1, <1>4, <2>1 DEF Known
  <2> QED
    BY <1>1, <1>2, <2>2, KnownKept DEF UndoInv
<1> QED
  BY <1>7, <1>8, <1>9, <1>10, <1>11, <1>12, <1>13 DEF UndoInv

\* A served order is the same order, answered; the override it undoes is the
\* one that is offered, or was given up, or is offered no more.
LEMMA UndoServed ==
  ASSUME UndoInv, NEW o \in orders, OrderServed(o)
  PROVE  UndoInv'
<1>1. PICK done \in BOOLEAN :
        /\ o.stage = "sent"
        /\ overrides' = CASE done /\ o.kind = "make" -> overrides \cup {o.of}
                          [] done /\ o.kind = "undo" -> overrides \ {o.of}
                          [] OTHER -> overrides
        /\ orders' = (orders \ {o})
                        \cup {[o EXCEPT !.stage = IF done THEN "done" ELSE "refused"]}
        /\ UNCHANGED <<panel, unsure, errands, changes, lessons>>
  BY DEF OrderServed, gridVars
<1> DEFINE s == [o EXCEPT !.stage = IF done THEN "done" ELSE "refused"]
<1>2. DOMAIN o = {"no", "kind", "of", "life", "stage"}
  BY DEF UndoInv, OrdersTyped
<1>3. /\ DOMAIN s = {"no", "kind", "of", "life", "stage"}
      /\ s.no = o.no /\ s.kind = o.kind /\ s.of = o.of
      /\ s.life = o.life /\ s.stage = (IF done THEN "done" ELSE "refused")
  BY <1>2
<1>4. orders' = (orders \ {o}) \cup {s}
  BY <1>1
<1> HIDE DEF s
<1>5. OrdersTyped'
  BY <1>1, <1>2, <1>3, <1>4 DEF UndoInv, OrdersTyped
<1>6. OrdersNumbered'
  BY <1>3, <1>4 DEF UndoInv, OrdersNumbered
<1>7. OneIsAwaited'
  BY <1>1, <1>3, <1>4 DEF UndoInv, OneIsAwaited
<1>8. NothingUndoneEarly'
  <2>1. \A p, q \in orders' : p.kind = "make" /\ q.kind = "undo" => p.of # q.of
    BY <1>3, <1>4 DEF UndoInv, NothingUndoneEarly
  <2>2. \A p \in orders' : p.kind = "make" => p.of # panel'.last
    BY <1>1, <1>3, <1>4 DEF UndoInv, NothingUndoneEarly
  <2>3. ASSUME NEW p \in orders', p.kind = "make", p.stage = "done"
        PROVE  p.of \in overrides' \/ p.of.lesson \notin lessons'
    <3>1. CASE p = s
      BY <1>1, <1>3, <2>3, <3>1
    <3>2. CASE p \in orders
      <4>1. p.of \in overrides \/ p.of.lesson \notin lessons
        BY <2>3, <3>2 DEF UndoInv, NothingUndoneEarly
      <4>2. o.kind = "undo" => p.of # o.of
        BY <2>3, <3>2 DEF UndoInv, NothingUndoneEarly
      <4> QED
        BY <1>1, <4>1, <4>2
    <3> QED
      BY <1>4, <3>1, <3>2
  <2> QED
    BY <2>1, <2>2, <2>3 DEF NothingUndoneEarly
<1>9. UndoneIsOffered'
  BY <1>1, <1>3, <1>4 DEF UndoInv, UndoneIsOffered
<1>10. OfferExists'
  <2>1. CASE done /\ o.kind = "undo" /\ o.of = panel.last
    <3>1. o.life \in {0, panel.life} /\ (o.life = 0 => o.of \in unsure)
      BY <2>1 DEF UndoInv, UndoneIsOffered
    <3>2. CASE o.life = 0
      BY <1>1, <2>1, <3>1, <3>2 DEF OfferExists
    <3>3. CASE o.life = panel.life
      <4>1. s \in Mine(orders)' /\ s.kind = "undo" /\ s.stage = "done"
        BY <1>1, <1>3, <1>4, <2>1, <3>3
      <4> QED
        BY <4>1 DEF OfferExists
    <3> QED
      BY <3>1, <3>2, <3>3
  <2>2. CASE ~(done /\ o.kind = "undo" /\ o.of = panel.last)
    <3>1. CASE panel.last \in {NoOverride} \cup overrides \cup unsure
      <4>1. panel.last \in overrides => panel.last \in overrides'
        BY <1>1, <2>2
      <4> QED
        BY <1>1, <3>1, <4>1 DEF OfferExists
    <3>2. CASE panel.last.lesson \notin lessons
      BY <1>1, <3>2 DEF OfferExists
    <3>3. CASE \E p \in Mine(orders) : p.kind = "undo" /\ p.stage = "done"
      <4>1. PICK p \in Mine(orders) : p.kind = "undo" /\ p.stage = "done"
        BY <3>3
      <4>2. p # o /\ p \in Mine(orders)'
        BY <1>1, <1>4, <4>1
      <4> QED
        BY <4>1, <4>2 DEF OfferExists
    <3> QED
      BY <3>1, <3>2, <3>3 DEF UndoInv, OfferExists
  <2> QED
    BY <2>1, <2>2
<1>11. LessonsNumbered'
  <2>1. Known' \subseteq Known
    BY <1>1, <1>3, <1>4 DEF Known
  <2> QED
    BY <1>1, <2>1, KnownKept DEF UndoInv, OrdersTyped
<1> QED
  BY <1>5, <1>6, <1>7, <1>8, <1>9, <1>10, <1>11 DEF UndoInv

\* An answer reaches the panel that waited for it, or none.
LEMMA UndoAnswered ==
  ASSUME UndoInv, NEW o \in orders, OrderAnswered(o)
  PROVE  UndoInv'
<1>1. /\ o.stage # "sent" /\ orders' = orders \ {o}
      /\ panel' = IF o.life = panel.life THEN [panel EXCEPT !.last = LastAfter(o)] ELSE panel
      /\ UNCHANGED <<overrides, unsure, errands, changes, lessons>>
  BY DEF OrderAnswered, gridVars
<1>2. /\ DOMAIN panel = {"life", "last"} /\ errands \in Nat
      /\ panel.last = NoOverride \/ panel.last.id \in 1..errands
      /\ o.of.id \in 0..errands /\ o.no \in 1..errands
      /\ o.kind \in {"make", "undo", "announce"} /\ o.stage \in {"sent", "done", "refused"}
      /\ NoOverride.id = 0 /\ NoOverride.lesson = NoLesson
  BY DEF UndoInv, OrdersTyped, NoOverride
<1>3. CASE o.life # panel.life
  <2>1. panel' = panel
    BY <1>1, <1>3
  <2>2. OrdersTyped' /\ OrdersNumbered' /\ OneIsAwaited'
    BY <1>1, <2>1 DEF UndoInv, OrdersTyped, OrdersNumbered, OneIsAwaited
  <2>3. NothingUndoneEarly' /\ UndoneIsOffered'
    BY <1>1, <2>1 DEF UndoInv, NothingUndoneEarly, UndoneIsOffered
  <2>4. OfferExists'
    BY <1>1, <1>3, <2>1 DEF UndoInv, OfferExists
  <2>5. LessonsNumbered'
    <3>1. Known' \subseteq Known
      BY <1>1, <2>1 DEF Known
    <3> QED
      BY <1>1, <1>2, <3>1, KnownKept DEF UndoInv
  <2> QED
    BY <2>2, <2>3, <2>4, <2>5 DEF UndoInv
<1>4. CASE o.life = panel.life
  <2>1. /\ DOMAIN panel' = {"life", "last"} /\ panel'.life = panel.life
        /\ panel'.last = LastAfter(o) /\ LastAfter(o) \in {o.of, NoOverride, panel.last}
    BY <1>1, <1>2, <1>4 DEF LastAfter
  <2>2. OrdersTyped'
    <3>1. LastAfter(o) = o.of => o.kind = "make" \/ o.of = panel.last \/ o.of = NoOverride
      BY DEF LastAfter
    <3>2. o.kind = "make" => o.of.id \in 1..errands
      BY <1>2 DEF UndoInv, OrdersNumbered
    <3>3. panel'.last = NoOverride \/ panel'.last.id \in 1..errands
      BY <1>2, <2>1, <3>1, <3>2
    <3> QED
      BY <1>1, <2>1, <3>3 DEF UndoInv, OrdersTyped
  <2>3. OrdersNumbered'
    BY <1>1 DEF UndoInv, OrdersNumbered
  <2>4. Mine(orders)' = {}
    BY <1>1, <1>4, <2>1 DEF UndoInv, OneIsAwaited
  <2>5. OneIsAwaited'
    BY <2>4 DEF OneIsAwaited
  <2>6. LessonsNumbered'
    <3>1. panel'.last.lesson \in Known
      BY <1>2, <2>1 DEF Known
    <3>2. Known' \subseteq Known
      BY <1>1, <3>1 DEF Known
    <3> QED
      BY <1>1, <1>2, <3>2, KnownKept DEF UndoInv
  <2>7. CASE o.stage = "done" /\ o.kind = "make"
    <3>1. panel'.last = o.of /\ (o.of \in overrides \/ o.of.lesson \notin lessons)
      BY <2>1, <2>7 DEF LastAfter, UndoInv, NothingUndoneEarly
    <3>2. \A p \in orders' : p.kind = "make" => p.of # o.of
      BY <1>1, <2>7 DEF UndoInv, OrdersNumbered
    <3>3. NothingUndoneEarly'
      BY <1>1, <3>1, <3>2 DEF UndoInv, NothingUndoneEarly
    <3>4. \A p \in orders' : p.kind = "undo" => p.of # o.of
      BY <1>1, <2>7 DEF UndoInv, NothingUndoneEarly
    <3>5. UndoneIsOffered'
      BY <1>1, <2>1, <2>4, <3>1, <3>4 DEF UndoInv, UndoneIsOffered
    <3>6. OfferExists'
      BY <1>1, <3>1 DEF OfferExists
    <3> QED
      BY <2>2, <2>3, <2>5, <2>6, <3>3, <3>5, <3>6 DEF UndoInv
  <2>8. CASE o.stage = "done" /\ o.kind = "undo"
    <3>1. panel'.last = NoOverride
      BY <2>1, <2>8 DEF LastAfter
    <3>2. \A p \in orders' : p.kind = "make" => p.of # NoOverride
      BY <1>1, <1>2 DEF UndoInv, OrdersNumbered, OrdersTyped
    <3>3. NothingUndoneEarly'
      BY <1>1, <3>1, <3>2 DEF UndoInv, NothingUndoneEarly
    <3>4. UndoneIsOffered'
      BY <1>1, <1>2, <2>1, <2>4, <3>1 DEF UndoInv, UndoneIsOffered
    <3>5. OfferExists'
      BY <3>1 DEF OfferExists
    <3> QED
      BY <2>2, <2>3, <2>5, <2>6, <3>3, <3>4, <3>5 DEF UndoInv
  <2>9. CASE ~(o.stage = "done" /\ o.kind \in {"make", "undo"})
    <3>1. panel'.last = panel.last
      BY <2>1, <2>9 DEF LastAfter
    <3>2. NothingUndoneEarly' /\ UndoneIsOffered'
      BY <1>1, <2>1, <3>1 DEF UndoInv, NothingUndoneEarly, UndoneIsOffered
    <3>3. panel.last \in {NoOverride} \cup overrides \cup unsure \/ panel.last.lesson \notin lessons
      BY <1>4, <2>9 DEF UndoInv, OfferExists, OneIsAwaited
    <3>4. OfferExists'
      BY <1>1, <3>1, <3>3 DEF OfferExists
    <3> QED
      BY <2>2, <2>3, <2>5, <2>6, <3>2, <3>4 DEF UndoInv
  <2> QED
    BY <2>7, <2>8, <2>9
<1> QED
  BY <1>3, <1>4

\* An order that is given up is awaited no more.
LEMMA UndoLost ==
  ASSUME UndoInv, NEW o \in orders, OrderLost(o)
  PROVE  UndoInv'
<1> DEFINE f == Forgotten(o)
<1>1. /\ orders' = (orders \ {o}) \cup {f}
      /\ unsure' = IF o.kind = "undo" THEN unsure \cup {o.of} ELSE unsure
      /\ UNCHANGED <<panel, overrides, errands, changes, lessons>>
  BY DEF OrderLost, gridVars
<1>2. DOMAIN o = {"no", "kind", "of", "life", "stage"} /\ panel.life \in Nat \ {0}
  BY DEF UndoInv, OrdersTyped
<1>3. /\ DOMAIN f = {"no", "kind", "of", "life", "stage"}
      /\ f.no = o.no /\ f.kind = o.kind /\ f.of = o.of
      /\ f.life = 0 /\ f.stage = o.stage
  BY <1>2 DEF Forgotten
<1> HIDE DEF f
<1>4. OrdersTyped'
  BY <1>1, <1>2, <1>3 DEF UndoInv, OrdersTyped
<1>5. OrdersNumbered'
  BY <1>1, <1>3 DEF UndoInv, OrdersNumbered
<1>6. OneIsAwaited'
  BY <1>1, <1>2, <1>3 DEF UndoInv, OneIsAwaited
<1>7. NothingUndoneEarly'
  BY <1>1, <1>3 DEF UndoInv, NothingUndoneEarly
<1>8. UndoneIsOffered'
  BY <1>1, <1>2, <1>3 DEF UndoInv, UndoneIsOffered
<1>9. OfferExists'
  <2>1. CASE panel.last \in {NoOverride} \cup overrides \cup unsure \/ panel.last.lesson \notin lessons
    BY <1>1, <2>1 DEF OfferExists
  <2>2. CASE \E p \in Mine(orders) : p.kind = "undo" /\ p.stage = "done"
    <3>1. PICK p \in Mine(orders) : p.kind = "undo" /\ p.stage = "done"
      BY <2>2
    <3>2. p.of = panel.last
      BY <3>1 DEF UndoInv, UndoneIsOffered
    <3>3. CASE p = o
      BY <1>1, <3>1, <3>2, <3>3 DEF OfferExists
    <3>4. CASE p # o
      <4>1. p \in Mine(orders)'
        BY <1>1, <3>1, <3>4
      <4> QED
        BY <3>1, <4>1 DEF OfferExists
    <3> QED
      BY <3>3, <3>4
  <2> QED
    BY <2>1, <2>2 DEF UndoInv, OfferExists
<1>10. LessonsNumbered'
  <2>1. Known' \subseteq Known
    BY <1>1, <1>3 DEF Known
  <2> QED
    BY <1>1, <2>1, KnownKept DEF UndoInv, OrdersTyped
<1> QED
  BY <1>4, <1>5, <1>6, <1>7, <1>8, <1>9, <1>10 DEF UndoInv

\* Steps of the timetable leave the orders alone, as long as no lesson comes
\* back and an override goes only with its lesson.
LEMMA UndoBeside ==
  ASSUME UndoInv, LessonsNumbered', UNCHANGED <<panel, orders, unsure>>,
         errands' \in {errands, errands + 1},
         \A v \in overrides : v \in overrides' \/ v.lesson \notin lessons',
         \A l \in Known : l \in lessons' => l \in lessons
  PROVE  UndoInv'
<1>1. OrdersTyped'
  <2>1. errands \in Nat /\ errands' \in Nat /\ errands <= errands'
    BY DEF UndoInv, OrdersTyped
  <2> QED
    BY <2>1 DEF UndoInv, OrdersTyped
<1>2. OrdersNumbered' /\ OneIsAwaited' /\ UndoneIsOffered'
  BY DEF UndoInv, OrdersNumbered, OneIsAwaited, UndoneIsOffered
<1>3. panel.last.lesson \in Known /\ \A o \in orders : o.of.lesson \in Known
  BY DEF Known
<1>4. NothingUndoneEarly'
  BY <1>3 DEF UndoInv, NothingUndoneEarly
<1>5. OfferExists'
  BY <1>3 DEF UndoInv, OfferExists
<1> QED
  BY <1>1, <1>2, <1>4, <1>5 DEF UndoInv

\* A lesson that is asked for gets a number that no lesson has.
LEMMA UndoAsked ==
  ASSUME UndoInv, NEW kind, NEW lesson, Change(kind, lesson),
         kind = "add" => lesson.id = errands + 1
  PROVE  UndoInv'
<1> DEFINE new == [kind |-> kind, lesson |-> lesson, life |-> panel.life, stage |-> "sent"]
<1>1. /\ changes' = changes \cup {new} /\ errands' = errands + 1
      /\ UNCHANGED <<panel, orders, overrides, unsure, lessons>>
  BY DEF Change, panelVars
<1>2. /\ DOMAIN new = {"kind", "lesson", "life", "stage"}
      /\ new.kind = kind /\ new.lesson = lesson
  OBVIOUS
<1> HIDE DEF new
<1>3. errands \in Nat
  BY DEF UndoInv, OrdersTyped
<1>4. Known' = Known /\ \A c \in Added' : c \in Added \/ (c = new /\ c.lesson.id = errands + 1)
  BY <1>1, <1>2 DEF Known, Added
<1>5. LessonsNumbered'
  <2>1. \A l \in Known : l.id \in Int /\ l.id <= errands' /\ l.id # errands + 1
    BY <1>1, <1>3 DEF UndoInv, LessonsNumbered
  <2>2. \A c \in Added : c.lesson.id \in 1..errands
    BY DEF UndoInv, LessonsNumbered
  <2>3. \A c \in Added' : c.lesson.id \in 1..errands'
    BY <1>1, <1>3, <1>4, <2>2
  <2>4. \A c, d \in Added' : c.lesson.id = d.lesson.id => c = d
    BY <1>3, <1>4, <2>2 DEF UndoInv, LessonsNumbered
  <2>5. \A c \in Added' : c.stage = "sent" => c.lesson \notin Known
    BY <1>4, <2>1 DEF UndoInv, LessonsNumbered
  <2>6. \A c \in changes' : DOMAIN c = {"kind", "lesson", "life", "stage"}
    BY <1>1, <1>2 DEF UndoInv, LessonsNumbered
  <2> QED
    BY <1>4, <2>1, <2>3, <2>4, <2>5, <2>6 DEF LessonsNumbered
<1> QED
  BY <1>1, <1>5, UndoBeside DEF Known

\* A change that is served, lost, answered or given up is the same change, or
\* none; its lesson is a new one when it comes, and gone for good when it goes.
LEMMA UndoChanged ==
  ASSUME UndoInv, NEW c \in changes,
         ChangeServed(c) \/ ChangeAnswered(c) \/ ChangeFails(c) \/ ChangeLost(c)
  PROVE  UndoInv'
<1>1. /\ UNCHANGED <<panel, orders, unsure, errands>> /\ errands \in Nat
      /\ DOMAIN c = {"kind", "lesson", "life", "stage"}
  BY DEF ChangeServed, ChangeAnswered, ChangeFails, ChangeLost, panelVars, UndoInv, OrdersTyped,
         LessonsNumbered
<1>2. ASSUME NEW s, DOMAIN s = {"kind", "lesson", "life", "stage"},
             s.kind = c.kind, s.lesson = c.lesson, s.stage = "sent" => c.stage = "sent",
             changes' \subseteq (changes \ {c}) \cup {s},
             \/ Known' \subseteq Known
             \/ c.kind = "add" /\ s.stage # "sent" /\ Known' \subseteq Known \cup {c.lesson}
      PROVE  LessonsNumbered'
  <2>1. \A d \in Added' : d \in Added \ {c} \/ (d = s /\ c \in Added)
    BY <1>2 DEF Added
  <2>2. \A d \in changes' : DOMAIN d = {"kind", "lesson", "life", "stage"}
    BY <1>2 DEF UndoInv, LessonsNumbered
  <2>3. \A l \in Known' : l.id \in Int /\ l.id <= errands'
    BY <1>1, <1>2 DEF UndoInv, LessonsNumbered, Added
  <2>4. \A d \in Added' : d.lesson.id \in 1..errands'
    BY <1>1, <1>2, <2>1 DEF UndoInv, LessonsNumbered
  <2>5. \A d, e \in Added' : d.lesson.id = e.lesson.id => d = e
    BY <1>2, <2>1 DEF UndoInv, LessonsNumbered
  <2>6. ASSUME NEW d \in Added', d.stage = "sent" PROVE d.lesson \notin Known'
    <3>1. CASE d = s
      BY <1>2, <2>1, <2>6, <3>1 DEF UndoInv, LessonsNumbered
    <3>2. CASE d \in Added \ {c}
      <4>1. d.lesson \notin Known
        BY <2>6, <3>2 DEF UndoInv, LessonsNumbered
      <4>2. c.kind = "add" => d.lesson # c.lesson
        BY <3>2 DEF UndoInv, LessonsNumbered, Added
      <4> QED
        BY <1>2, <4>1, <4>2
    <3> QED
      BY <2>1, <3>1, <3>2
  <2> QED
    BY <2>2, <2>3, <2>4, <2>5, <2>6 DEF LessonsNumbered
<1>3. CASE ChangeAnswered(c) \/ ChangeFails(c)
  <2>1. changes' = changes \ {c} /\ UNCHANGED <<overrides, lessons>>
    BY <1>3 DEF ChangeAnswered, ChangeFails, panelVars
  <2>2. LessonsNumbered'
    BY <1>1, <1>2, <2>1 DEF Known
  <2> QED
    BY <1>1, <2>1, <2>2, UndoBeside
<1>4. CASE ChangeLost(c)
  <2> DEFINE f == Forgotten(c)
  <2>1. changes' = (changes \ {c}) \cup {f} /\ UNCHANGED <<overrides, lessons>>
    BY <1>4 DEF ChangeLost, panelVars
  <2>2. /\ DOMAIN f = {"kind", "lesson", "life", "stage"}
        /\ f.kind = c.kind /\ f.lesson = c.lesson /\ f.stage = c.stage
    BY <1>1 DEF Forgotten
  <2> HIDE DEF f
  <2>3. LessonsNumbered'
    BY <1>1, <1>2, <2>1, <2>2 DEF Known
  <2> QED
    BY <1>1, <2>1, <2>3, UndoBeside
<1>5. CASE ChangeServed(c)
  <2> DEFINE done == [c EXCEPT !.stage = "done"]
  <2>1. /\ c.stage = "sent" /\ changes' \subseteq (changes \ {c}) \cup {done}
        /\ lessons' = IF c.kind = "add" THEN lessons \cup {c.lesson} ELSE lessons \ {c.lesson}
        /\ overrides' = IF c.kind = "add" THEN overrides
                        ELSE {v \in overrides : v.lesson # c.lesson}
    BY <1>5 DEF ChangeServed, OverridesWithout
  <2>2. /\ DOMAIN done = {"kind", "lesson", "life", "stage"}
        /\ done.kind = c.kind /\ done.lesson = c.lesson /\ done.stage = "done"
    BY <1>1
  <2> HIDE DEF done
  <2>3. LessonsNumbered'
    <3>1. CASE c.kind = "add"
      <4>1. Known' \subseteq Known \cup {c.lesson}
        BY <1>1, <2>1, <3>1 DEF Known
      <4> QED
        BY <1>2, <2>1, <2>2, <3>1, <4>1
    <3>2. CASE c.kind # "add"
      <4>1. Known' \subseteq Known
        BY <1>1, <2>1, <3>2 DEF Known
      <4> QED
        BY <1>2, <2>1, <2>2, <4>1
    <3> QED
      BY <3>1, <3>2
  <2>4. c.kind = "add" => c.lesson \notin Known
    BY <2>1 DEF UndoInv, LessonsNumbered, Added
  <2>5. \A v \in overrides : v \in overrides' \/ v.lesson \notin lessons'
    BY <2>1
  <2>6. \A l \in Known : l \in lessons' => l \in lessons
    BY <2>1, <2>4
  <2> QED
    BY <1>1, <2>3, <2>5, <2>6, UndoBeside
<1> QED
  BY <1>3, <1>4, <1>5

\* The other parts of the page leave the panels alone.
LEMMA UndoInvStep == UndoInv /\ [WebNext]_webVars => UndoInv'
<1> SUFFICES ASSUME UndoInv, [WebNext]_webVars PROVE UndoInv'
  OBVIOUS
<1>1. ASSUME UNCHANGED adminVars PROVE UndoInv'
  BY <1>1, UndoKept DEF adminVars, gridVars
<1>2. ASSUME NEW k, KeyArrives(k) PROVE UndoInv'
  BY <1>2, UndoKept DEF KeyArrives
<1>3. ASSUME OrdersNext PROVE UndoInv'
  <2>1. ASSUME NEW l \in Taught \cup lessons, ~Busy,
               Order("make", [id |-> errands + 1, lesson |-> l])
        PROVE  UndoInv'
    <3> DEFINE of == [id |-> errands + 1, lesson |-> l]
    <3>1. of.id = errands + 1 /\ of.lesson \in Known
      BY DEF Known
    <3>2. Order("make", of)
      BY <2>1
    <3> HIDE DEF of
    <3> QED
      BY <2>1, <3>1, <3>2, UndoOrdered
  <2>2. ASSUME UndoOrder \/ Announce PROVE UndoInv'
    BY <2>2, UndoOrdered DEF UndoOrder, Announce
  <2> QED
    BY <1>3, <2>1, <2>2, UndoServed, UndoAnswered, UndoLost DEF OrdersNext, PlaceOrder
<1>4. ASSUME TimetableNext PROVE UndoInv'
  <2>1. ASSUME NEW u, NEW g, Shows(u, g) PROVE UndoInv'
    BY <2>1, UndoKept DEF Shows
  <2>2. ASSUME OpenSchedule \/ CloseSchedule \/ CancelForm PROVE UndoInv'
    BY <2>1, <2>2 DEF OpenSchedule, CloseSchedule, CancelForm
  <2>3. ASSUME NEW r, PickRoom(r) \/ PressAdd(r) PROVE UndoInv'
    BY <2>1, <2>3 DEF PickRoom, PressAdd
  <2>4. ASSUME NEW r, FetchServed(r) \/ FetchLands(r) \/ FetchFails(r) PROVE UndoInv'
    BY <2>4, UndoKept DEF FetchServed, FetchLands, FetchFails
  <2>5. ASSUME SaveLesson PROVE UndoInv'
    <3> DEFINE new == [id |-> errands + 1, room |-> grid.room, cell |-> grid.cell]
    <3>1. Change("add", new) /\ new.id = errands + 1
      BY <2>5 DEF SaveLesson
    <3> HIDE DEF new
    <3> QED
      BY <3>1, UndoAsked
  <2>6. ASSUME RemoveLesson PROVE UndoInv'
    BY <2>6, UndoAsked DEF RemoveLesson
  <2> QED
    BY <1>4, <2>2, <2>3, <2>4, <2>5, <2>6, UndoChanged DEF TimetableNext
<1> QED
  BY <1>1, <1>2, <1>3, <1>4, UndoRemounted DEF WebNext, webVars, AdminNext, StreamScene, BoardScene

LEMMA UndoInvAlways == WebSpec => []UndoInv
<1>1. WebInit => UndoInv
  <2> SUFFICES ASSUME AdminInit PROVE UndoInv
    BY DEF WebInit
  <2>1. panel.life = 1 /\ panel.last = NoOverride /\ DOMAIN panel = {"life", "last"}
    BY DEF AdminInit
  <2>2. /\ OrdersTyped /\ OrdersNumbered /\ OneIsAwaited /\ NothingUndoneEarly
        /\ UndoneIsOffered /\ OfferExists
    BY <2>1 DEF AdminInit, OrdersTyped, OrdersNumbered, OneIsAwaited,
                NothingUndoneEarly, UndoneIsOffered, OfferExists
  <2>3. LessonsNumbered
    <3>1. Known = Taught \cup {NoLesson} /\ changes = {} /\ errands = 0
      BY <2>1 DEF AdminInit, Known, NoOverride
    <3>2. \A l \in Taught : l.id \in Int /\ l.id <= 0
      <4>1. ASSUME NEW l \in Taught PROVE l.id \in Int /\ l.id < 0
        BY AdminAssumption
      <4>2. \A n \in Int : n < 0 => n <= 0
        OBVIOUS
      <4> QED
        BY <4>1, <4>2
    <3>0. NoLesson.id = 0
      BY DEF NoLesson
    <3>3. \A l \in Known : l.id \in Int /\ l.id <= errands
      BY <3>0, <3>1, <3>2
    <3>4. Added = {}
      BY <3>1 DEF Added
    <3> QED
      BY <3>1, <3>3, <3>4 DEF LessonsNumbered
  <2> QED
    BY <2>2, <2>3 DEF UndoInv
<1> QED
  BY <1>1, UndoInvStep, PTL DEF WebSpec

\* The undo button offers an override that exists, unless its undoing is under
\* way or was never answered, or its lesson is no longer in the timetable, and
\* one answer is awaited at a time (DemoAdminPanel.tsx), for any number of
\* orders, refusals, losses and mounts, beside any changes of the timetable.
THEOREM UndoIsHonest == WebSpec => []UndoOffersWhatExists
<1>1. UndoInv => UndoOffersWhatExists
  <2> SUFFICES ASSUME UndoInv PROVE UndoOffersWhatExists
    OBVIOUS
  <2>1. \/ panel.last \in {NoOverride} \cup overrides \cup unsure
        \/ panel.last.lesson \notin lessons
        \/ \E o \in orders : o.kind = "undo" /\ o.of = panel.last
    BY DEF UndoInv, OfferExists, UndoneIsOffered
  <2>2. Cardinality(Mine(orders)) <= 1
    <3>1. CASE Mine(orders) = {}
      BY <3>1, FS_EmptySet
    <3>2. CASE Mine(orders) # {}
      <4>1. PICK o \in Mine(orders) : Mine(orders) = {o}
        BY <3>2 DEF UndoInv, OneIsAwaited
      <4>2. Cardinality({o}) = 1
        BY FS_Singleton
      <4> QED
        BY <4>1, <4>2
    <3> QED
      BY <3>1, <3>2
  <2> QED
    BY <2>1, <2>2 DEF UndoOffersWhatExists
<1> QED
  BY <1>1, UndoInvAlways, PTL

-----------------------------------------------------------------------------
(***************************************************************************)
(* The timetable.  An answered change of a room's lessons is under way     *)
(* until it is heard of.                                                   *)
(***************************************************************************)
Unheard(r) == \E c \in changes : c.stage = "done" /\ c.lesson.room = r

CacheTyped ==
    /\ "room" \in DOMAIN grid /\ DOMAIN cache = Edited
    /\ \A r \in Edited : /\ DOMAIN cache[r] = {"known", "data", "old", "fetch"}
                         /\ cache[r].old \in BOOLEAN
    /\ \A c \in changes : /\ {"stage", "lesson"} \subseteq DOMAIN c
                          /\ c.stage \in {"sent", "done"}

\* Only the administrator's part of the page opens the timetable.
ScheduleStaysShut ==
    "scheduleOpen" \in DOMAIN ui /\ (scene # "panels" => ~ui.scheduleOpen)

\* What passes for fresh is what the server has, or a change of it is unheard.
FreshIsCurrent ==
    \A r \in Edited \ excused :
        cache[r].known /\ ~cache[r].old /\ cache[r].data # LessonsOf(r) => Unheard(r)

\* So is the answer to a fetch that is on its way.
AnswerIsCurrent ==
    \A r \in Edited \ excused :
        cache[r].fetch.at = "back" /\ cache[r].fetch.data # LessonsOf(r) => Unheard(r)

\* The room that is shown is fetched, or has been and nothing changed since.
ShownIsFetched ==
    \A r \in Edited \ excused :
        Active(r) /\ cache[r].fetch = Idle => cache[r].known /\ ~cache[r].old

LessonsInv ==
    /\ CacheTyped /\ ScheduleStaysShut
    /\ FreshIsCurrent /\ AnswerIsCurrent /\ ShownIsFetched

\* Without the panels no room is shown, and the cache stands still.
LEMMA LessonsApart ==
  ASSUME LessonsInv, scene # "panels", scene' = scene,
         "scheduleOpen" \in DOMAIN ui', ~ui'.scheduleOpen, "room" \in DOMAIN grid',
         UNCHANGED <<changes, lessons, cache, excused>>
  PROVE  LessonsInv'
<1>1. \A r : ~Active(r)'
  BY DEF Active
<1>2. CacheTyped' /\ FreshIsCurrent' /\ AnswerIsCurrent'
  BY DEF LessonsInv, CacheTyped, FreshIsCurrent, AnswerIsCurrent, Unheard, LessonsOf
<1>3. ScheduleStaysShut' /\ ShownIsFetched'
  BY <1>1 DEF ScheduleStaysShut, ShownIsFetched
<1> QED
  BY <1>2, <1>3 DEF LessonsInv

\* Nothing changes but what is shown, and no other room comes to be shown.
LEMMA LessonsShown ==
  ASSUME LessonsInv, scene = "panels", scene' = scene,
         "scheduleOpen" \in DOMAIN ui', "room" \in DOMAIN grid',
         UNCHANGED <<changes, lessons, cache, excused>>,
         \A r \in Edited : Active(r)' => Active(r)
  PROVE  LessonsInv'
<1>1. CacheTyped' /\ FreshIsCurrent' /\ AnswerIsCurrent'
  BY DEF LessonsInv, CacheTyped, FreshIsCurrent, AnswerIsCurrent, Unheard, LessonsOf
<1>2. ScheduleStaysShut' /\ ShownIsFetched'
  BY DEF LessonsInv, ScheduleStaysShut, ShownIsFetched
<1> QED
  BY <1>1, <1>2 DEF LessonsInv

\* A room that comes to be shown is fetched when it is stale.
LEMMA LessonsVisited ==
  ASSUME LessonsInv, scene = "panels", scene' = scene,
         "scheduleOpen" \in DOMAIN ui', "room" \in DOMAIN grid',
         UNCHANGED <<changes, lessons, excused>>,
         NEW q, NEW aged \in BOOLEAN, cache' = Visited(q, aged),
         \A r \in Edited : Active(r)' => r = q
  PROVE  LessonsInv'
<1>1. CASE q \notin Edited \/ ~(cache[q].fetch = Idle /\ (~cache[q].known \/ cache[q].old \/ aged))
  <2>1. DOMAIN cache' = Edited /\ \A r \in Edited : cache'[r] = cache[r]
    <3>1. DOMAIN cache = Edited
      BY DEF LessonsInv, CacheTyped
    <3>2. CASE q \notin Edited
      BY <3>1, <3>2 DEF Visited
    <3>3. CASE q \in Edited
      BY <1>1, <3>1, <3>3 DEF Visited
    <3> QED
      BY <3>2, <3>3
  <2>2. CacheTyped' /\ FreshIsCurrent' /\ AnswerIsCurrent' /\ ScheduleStaysShut'
    BY <2>1 DEF LessonsInv, CacheTyped, FreshIsCurrent, AnswerIsCurrent, Unheard,
                LessonsOf, ScheduleStaysShut
  <2>3. ShownIsFetched'
    BY <1>1, <2>1 DEF ShownIsFetched
  <2> QED
    BY <2>2, <2>3 DEF LessonsInv
<1>2. CASE q \in Edited /\ cache[q].fetch = Idle /\ (~cache[q].known \/ cache[q].old \/ aged)
  <2>1. DOMAIN cache = Edited /\ DOMAIN cache[q] = {"known", "data", "old", "fetch"}
    BY <1>2 DEF LessonsInv, CacheTyped
  <2>2. cache' = [cache EXCEPT ![q].fetch = Asked]
    BY <1>2 DEF Visited
  <2>3. /\ DOMAIN cache' = Edited /\ \A r \in Edited \ {q} : cache'[r] = cache[r]
        /\ DOMAIN cache'[q] = {"known", "data", "old", "fetch"}
        /\ cache'[q].known = cache[q].known /\ cache'[q].old = cache[q].old
        /\ cache'[q].data = cache[q].data /\ cache'[q].fetch = Asked
    BY <1>2, <2>1, <2>2
  <2>4. Asked.at = "sent" /\ Asked # Idle
    BY DEF Asked, Idle
  <2>5. CacheTyped'
    BY <2>3 DEF LessonsInv, CacheTyped
  <2>6. FreshIsCurrent' /\ AnswerIsCurrent'
    BY <2>3, <2>4 DEF LessonsInv, FreshIsCurrent, AnswerIsCurrent, Unheard, LessonsOf
  <2>7. ScheduleStaysShut' /\ ShownIsFetched'
    BY <2>3, <2>4 DEF LessonsInv, ScheduleStaysShut, ShownIsFetched
  <2> QED
    BY <2>5, <2>6, <2>7 DEF LessonsInv
<1> QED
  BY <1>1, <1>2

\* A fetch of a room goes out, comes back or fails.
LEMMA LessonsFetched ==
  ASSUME LessonsInv, scene = "panels", scene' = scene, NEW q \in Edited,
         FetchServed(q) \/ FetchLands(q) \/ FetchFails(q)
  PROVE  LessonsInv'
<1>1. /\ UNCHANGED <<changes, lessons, ui, grid>> /\ \A r : Active(r)' = Active(r)
  BY DEF FetchServed, FetchLands, FetchFails, Active, pageVars
<1>2. DOMAIN cache = Edited /\ \A r \in Edited : DOMAIN cache[r] = {"known", "data", "old", "fetch"}
  BY DEF LessonsInv, CacheTyped
<1>3. ScheduleStaysShut'
  BY <1>1 DEF LessonsInv, ScheduleStaysShut
<1>4. CASE FetchServed(q)
  <2> DEFINE answer == [at |-> "back", data |-> LessonsOf(q)]
  <2>1. /\ cache' = [cache EXCEPT ![q].fetch = answer] /\ excused' = excused
        /\ answer.at = "back" /\ answer.data = LessonsOf(q) /\ answer # Idle
    BY <1>4 DEF FetchServed, Idle
  <2> HIDE DEF answer
  <2>2. /\ DOMAIN cache' = Edited /\ \A r \in Edited \ {q} : cache'[r] = cache[r]
        /\ DOMAIN cache'[q] = {"known", "data", "old", "fetch"}
        /\ cache'[q].known = cache[q].known /\ cache'[q].old = cache[q].old
        /\ cache'[q].data = cache[q].data /\ cache'[q].fetch = answer
    BY <1>2, <2>1
  <2>3. CacheTyped'
    BY <1>1, <2>2 DEF LessonsInv, CacheTyped
  <2>4. FreshIsCurrent' /\ AnswerIsCurrent'
    BY <1>1, <2>1, <2>2
    DEF LessonsInv, FreshIsCurrent, AnswerIsCurrent, Unheard, LessonsOf
  <2>5. ShownIsFetched'
    BY <1>1, <2>1, <2>2 DEF LessonsInv, ShownIsFetched
  <2> QED
    BY <1>3, <2>3, <2>4, <2>5 DEF LessonsInv
<1>5. CASE FetchLands(q)
  <2> DEFINE fresh == [known |-> TRUE, data |-> cache[q].fetch.data, old |-> FALSE,
                       fetch |-> Idle]
  <2>1. /\ cache[q].fetch.at = "back"
        /\ cache' = [cache EXCEPT ![q] = fresh]
        /\ excused' = IF cache[q].fetch.data = LessonsOf(q) THEN excused \ {q} ELSE excused
    BY <1>5 DEF FetchLands
  <2>2. /\ DOMAIN fresh = {"known", "data", "old", "fetch"} /\ fresh.known /\ ~fresh.old
        /\ fresh.old \in BOOLEAN /\ fresh.data = cache[q].fetch.data /\ fresh.fetch = Idle
        /\ fresh.fetch.at # "back"
    BY DEF Idle
  <2> HIDE DEF fresh
  <2>3. /\ DOMAIN cache' = Edited /\ \A r \in Edited \ {q} : cache'[r] = cache[r]
        /\ cache'[q] = fresh
    BY <1>2, <2>1
  <2>4. CacheTyped'
    BY <1>1, <2>2, <2>3 DEF LessonsInv, CacheTyped
  <2>5. FreshIsCurrent'
    <3> SUFFICES ASSUME NEW r \in Edited \ excused', cache'[r].known, ~cache'[r].old,
                        cache'[r].data # LessonsOf(r)'
                 PROVE  Unheard(r)'
      BY DEF FreshIsCurrent
    <3>1. LessonsOf(r)' = LessonsOf(r) /\ (Unheard(r)' <=> Unheard(r))
      BY <1>1 DEF LessonsOf, Unheard
    <3>2. CASE r = q
      <4>1. cache[q].fetch.data # LessonsOf(q) /\ q \notin excused
        BY <2>1, <2>2, <2>3, <3>1, <3>2
      <4> QED
        BY <2>1, <3>1, <3>2, <4>1 DEF LessonsInv, AnswerIsCurrent
    <3>3. CASE r # q
      BY <2>1, <2>3, <3>1, <3>3 DEF LessonsInv, FreshIsCurrent
    <3> QED
      BY <3>2, <3>3
  <2>6. AnswerIsCurrent'
    <3> SUFFICES ASSUME NEW r \in Edited \ excused', cache'[r].fetch.at = "back",
                        cache'[r].fetch.data # LessonsOf(r)'
                 PROVE  Unheard(r)'
      BY DEF AnswerIsCurrent
    <3>1. LessonsOf(r)' = LessonsOf(r) /\ (Unheard(r)' <=> Unheard(r))
      BY <1>1 DEF LessonsOf, Unheard
    <3>2. r # q
      BY <2>2, <2>3
    <3> QED
      BY <2>1, <2>3, <3>1, <3>2 DEF LessonsInv, AnswerIsCurrent
  <2>7. ShownIsFetched'
    BY <1>1, <2>1, <2>2, <2>3 DEF LessonsInv, ShownIsFetched
  <2> QED
    BY <1>3, <2>4, <2>5, <2>6, <2>7 DEF LessonsInv
<1>6. CASE FetchFails(q)
  <2>1. cache' = [cache EXCEPT ![q].fetch = Idle] /\ excused' = excused \cup {q}
    BY <1>6 DEF FetchFails
  <2>2. /\ DOMAIN cache' = Edited /\ \A r \in Edited \ {q} : cache'[r] = cache[r]
        /\ DOMAIN cache'[q] = {"known", "data", "old", "fetch"}
        /\ cache'[q].old = cache[q].old
    BY <1>2, <2>1
  <2>3. CacheTyped'
    BY <1>1, <2>2 DEF LessonsInv, CacheTyped
  <2>4. FreshIsCurrent' /\ AnswerIsCurrent'
    BY <1>1, <2>1, <2>2
    DEF LessonsInv, FreshIsCurrent, AnswerIsCurrent, Unheard, LessonsOf
  <2>5. ShownIsFetched'
    BY <1>1, <2>1, <2>2 DEF LessonsInv, ShownIsFetched
  <2> QED
    BY <1>3, <2>3, <2>4, <2>5 DEF LessonsInv
<1> QED
  BY <1>4, <1>5, <1>6

\* A request for a change is no change yet.
LEMMA LessonsAsked ==
  ASSUME LessonsInv, scene = "panels", scene' = scene,
         NEW kind, NEW lesson, Change(kind, lesson)
  PROVE  LessonsInv'
<1> DEFINE new == [kind |-> kind, lesson |-> lesson, life |-> panel.life, stage |-> "sent"]
<1>1. /\ changes' = changes \cup {new} /\ UNCHANGED <<ui, grid, lessons, cache, excused>>
      /\ \A r : Active(r)' = Active(r)
  BY DEF Change, Active, pageVars
<1>2. {"stage", "lesson"} \subseteq DOMAIN new /\ new.stage = "sent"
  OBVIOUS
<1> HIDE DEF new
<1>3. CacheTyped'
  BY <1>1, <1>2 DEF LessonsInv, CacheTyped
<1>4. FreshIsCurrent' /\ AnswerIsCurrent'
  BY <1>1 DEF LessonsInv, FreshIsCurrent, AnswerIsCurrent, Unheard, LessonsOf
<1>5. ScheduleStaysShut' /\ ShownIsFetched'
  BY <1>1 DEF LessonsInv, ScheduleStaysShut, ShownIsFetched
<1> QED
  BY <1>3, <1>4, <1>5 DEF LessonsInv

\* A change that is served is unheard of in its room, or the room is excused; no
\* other room differs.
LEMMA LessonsServed ==
  ASSUME LessonsInv, scene = "panels", scene' = scene, NEW c \in changes, ChangeServed(c)
  PROVE  LessonsInv'
<1> DEFINE done == [c EXCEPT !.stage = "done"]
<1>1. /\ c.stage = "sent"
      /\ changes' = (changes \ {c}) \cup (IF c.life = 0 THEN {} ELSE {done})
      /\ lessons' = IF c.kind = "add" THEN lessons \cup {c.lesson} ELSE lessons \ {c.lesson}
      /\ excused' = IF c.life = 0 THEN excused \cup {c.lesson.room} ELSE excused
      /\ UNCHANGED <<ui, grid, cache>> /\ \A r : Active(r)' = Active(r)
  BY DEF ChangeServed, Active, pageVars
<1>2. {"stage", "lesson"} \subseteq DOMAIN done /\ done.stage = "done" /\ done.lesson = c.lesson
  BY DEF LessonsInv, CacheTyped
<1> HIDE DEF done
<1>3. c.lesson.room \in excused' \/ Unheard(c.lesson.room)'
  BY <1>1, <1>2 DEF Unheard
<1>4. \A r : Unheard(r) => Unheard(r)'
  BY <1>1 DEF Unheard
<1>5. \A r : r # c.lesson.room => LessonsOf(r)' = LessonsOf(r)
  BY <1>1 DEF LessonsOf
<1>6. CacheTyped' /\ excused \subseteq excused'
  BY <1>1, <1>2 DEF LessonsInv, CacheTyped
<1>7. FreshIsCurrent' /\ AnswerIsCurrent'
  BY <1>1, <1>3, <1>4, <1>5, <1>6 DEF LessonsInv, FreshIsCurrent, AnswerIsCurrent
<1>8. ScheduleStaysShut' /\ ShownIsFetched'
  BY <1>1, <1>6 DEF LessonsInv, ScheduleStaysShut, ShownIsFetched
<1> QED
  BY <1>6, <1>7, <1>8 DEF LessonsInv

\* A change that is heard of makes every room stale, and the shown one fetched;
\* an older answer on its way is excused.
LEMMA LessonsAnswered ==
  ASSUME LessonsInv, scene = "panels", scene' = scene, NEW c \in changes, ChangeAnswered(c)
  PROVE  LessonsInv'
<1>1. /\ changes' = changes \ {c} /\ cache' = Invalidated
      /\ excused' = excused \cup PassingForFresh
      /\ UNCHANGED <<ui, lessons, key>>
      /\ "room" \in DOMAIN grid' /\ grid'.room = grid.room
  BY DEF ChangeAnswered, pageVars, LessonsInv, CacheTyped
<1>2. DOMAIN cache = Edited /\ \A r \in Edited : DOMAIN cache[r] = {"known", "data", "old", "fetch"}
  BY DEF LessonsInv, CacheTyped
<1>3. /\ DOMAIN cache' = Edited
      /\ \A r \in Edited :
           /\ DOMAIN cache'[r] = {"known", "data", "old", "fetch"}
           /\ cache'[r].known = cache[r].known /\ cache'[r].old = TRUE
           /\ cache'[r].fetch = IF Restarts(r) THEN Asked ELSE cache[r].fetch
  BY <1>1, <1>2 DEF Invalidated
<1>4. Asked.at = "sent" /\ Asked # Idle
  BY DEF Asked, Idle
<1>5. CacheTyped' /\ ScheduleStaysShut'
  BY <1>1, <1>3 DEF LessonsInv, CacheTyped, ScheduleStaysShut
<1>6. FreshIsCurrent'
  BY <1>3 DEF FreshIsCurrent
<1>7. AnswerIsCurrent'
  <2> SUFFICES ASSUME NEW r \in Edited \ excused', cache'[r].fetch.at = "back",
                      cache'[r].fetch.data # LessonsOf(r)'
               PROVE  FALSE
    BY DEF AnswerIsCurrent
  <2>1. ~Restarts(r) /\ cache'[r].fetch = cache[r].fetch
    BY <1>3, <1>4
  <2>2. LessonsOf(r)' = LessonsOf(r)
    BY <1>1 DEF LessonsOf
  <2>3. r \in PassingForFresh
    BY <1>2, <2>1, <2>2 DEF PassingForFresh
  <2> QED
    BY <1>1, <2>3
<1>8. ShownIsFetched'
  <2> SUFFICES ASSUME NEW r \in Edited \ excused', Active(r)', cache'[r].fetch = Idle
               PROVE  FALSE
    BY DEF ShownIsFetched
  <2>1. Active(r)
    BY <1>1 DEF Active
  <2>2. ~Restarts(r) /\ cache[r].fetch = Idle
    BY <1>3, <1>4
  <2> QED
    BY <2>1, <2>2 DEF Restarts
<1> QED
  BY <1>5, <1>6, <1>7, <1>8 DEF LessonsInv

\* A change that fails was none, or its room is excused.
LEMMA LessonsFailed ==
  ASSUME LessonsInv, scene = "panels", scene' = scene, NEW c \in changes, ChangeFails(c)
  PROVE  LessonsInv'
<1>1. /\ changes' = changes \ {c} /\ UNCHANGED <<ui, grid, lessons, cache>>
      /\ excused' = IF c.stage = "done" THEN excused \cup {c.lesson.room} ELSE excused
      /\ \A r : Active(r)' = Active(r)
  BY DEF ChangeFails, Active, pageVars
<1>2. \A r \in Edited \ excused' : r \notin excused /\ (Unheard(r) => Unheard(r)')
  BY <1>1 DEF Unheard
<1>3. CacheTyped' /\ ScheduleStaysShut'
  BY <1>1 DEF LessonsInv, CacheTyped, ScheduleStaysShut
<1>4. FreshIsCurrent' /\ AnswerIsCurrent'
  BY <1>1, <1>2 DEF LessonsInv, FreshIsCurrent, AnswerIsCurrent, LessonsOf
<1>5. ShownIsFetched'
  BY <1>1, <1>2 DEF LessonsInv, ShownIsFetched
<1> QED
  BY <1>3, <1>4, <1>5 DEF LessonsInv

\* A change that is given up before it is served is no change yet.
LEMMA LessonsLost ==
  ASSUME LessonsInv, scene = "panels", scene' = scene, NEW c \in changes, ChangeLost(c)
  PROVE  LessonsInv'
<1> DEFINE f == Forgotten(c)
<1>1. /\ c.stage = "sent" /\ changes' = (changes \ {c}) \cup {f}
      /\ UNCHANGED <<ui, grid, lessons, cache, excused>> /\ \A r : Active(r)' = Active(r)
  BY DEF ChangeLost, Active, pageVars
<1>2. {"stage", "lesson"} \subseteq DOMAIN f /\ f.stage = "sent"
  BY <1>1 DEF Forgotten, LessonsInv, CacheTyped
<1> HIDE DEF f
<1>3. \A r : Unheard(r) => Unheard(r)'
  BY <1>1 DEF Unheard
<1>4. CacheTyped' /\ ScheduleStaysShut'
  BY <1>1, <1>2 DEF LessonsInv, CacheTyped, ScheduleStaysShut
<1>5. FreshIsCurrent' /\ AnswerIsCurrent' /\ ShownIsFetched'
  BY <1>1, <1>3 DEF LessonsInv, FreshIsCurrent, AnswerIsCurrent, LessonsOf, ShownIsFetched
<1> QED
  BY <1>4, <1>5 DEF LessonsInv

-----------------------------------------------------------------------------
(* Clicks, keys and searches keep the timetable as open or shut as it is.   *)
StaysShut(u) == "scheduleOpen" \in DOMAIN u /\ u.scheduleOpen = ui.scheduleOpen

LEMMA OnFloorStaysShut ==
  ASSUME NEW u, StaysShut(u), NEW f
  PROVE  StaysShut(OnFloor(u, f))
BY DEF StaysShut, OnFloor

LEMMA ChosenStaysShut ==
  ASSUME NEW u, StaysShut(u), NEW h
  PROVE  StaysShut(WithChosen(u, h))
<1> DEFINE lit == [u EXCEPT !.highlight = h]
           at  == [lit EXCEPT !.selected = h.id]
<1>1. StaysShut(lit) /\ StaysShut(at)
  BY DEF StaysShut
<1>2. WithChosen(u, h) = IF h.kind = "room" THEN OnFloor(at, Map[h.id].floor) ELSE lit
  BY DEF WithChosen
<1> HIDE DEF lit, at
<1> QED
  BY <1>1, <1>2, OnFloorStaysShut

\* The board, the kiosk and the search of the page.
LEMMA PageStaysShut ==
  ASSUME LessonsInv, scene # "panels", BoardNext \/ SearchNext
  PROVE  "scheduleOpen" \in DOMAIN ui' /\ ~ui'.scheduleOpen
<1> DEFINE Shut == "scheduleOpen" \in DOMAIN ui' /\ ~ui'.scheduleOpen
<1> SUFFICES Shut
  OBVIOUS
<1>0. "scheduleOpen" \in DOMAIN ui /\ ~ui.scheduleOpen
  BY DEF LessonsInv, ScheduleStaysShut
<1>1. StaysShut(ui)
  BY <1>0 DEF StaysShut
<1>2. ASSUME NEW u, StaysShut(u), ui' = u PROVE Shut
  BY <1>0, <1>2 DEF StaysShut
<1>3. ASSUME UNCHANGED ui PROVE Shut
  BY <1>0, <1>3
<1>4. ASSUME NEW u, StaysShut(u), Click(u) PROVE Shut
  BY <1>2, <1>4 DEF Click
<1>5. /\ \A x : StaysShut([ui EXCEPT !.selected = x]) /\ StaysShut([ui EXCEPT !.highlight = x])
      /\ \A x : StaysShut([ui EXCEPT !.focused = x]) /\ StaysShut([ui EXCEPT !.searchOpen = x])
      /\ StaysShut([ui EXCEPT !.kiosk = ~@, !.searchOpen = FALSE])
  BY <1>0 DEF StaysShut
<1> HIDE DEF Shut
<1>7. CASE Escape
  <2>1. ASSUME Click([ui EXCEPT !.selected = ""]) PROVE Shut
    BY <1>4, <1>5, <2>1
  <2>2. ASSUME Click([ui EXCEPT !.highlight = NoHighlight]) PROVE Shut
    BY <1>4, <1>5, <2>2
  <2>3. ASSUME Click([ui EXCEPT !.focused = 0]) PROVE Shut
    BY <1>4, <1>5, <2>3
  <2> QED
    BY <1>3, <1>7, <2>1, <2>2, <2>3 DEF Escape
<1>8. CASE BoardPublished \/ BoardDelivered
  BY <1>3, <1>8 DEF BoardPublished, BoardDelivered, pageVars
<1>9. CASE BoardNext
  <2>1. ASSUME NEW f, PickFloor(f) \/ PressDigit(f) PROVE Shut
    BY <1>1, <1>4, <1>5, <2>1, OnFloorStaysShut DEF PickFloor, PressDigit
  <2>2. ASSUME NEW c, ClickRoom(c) PROVE Shut
    <3> DEFINE u == IF ui.focused = 0 THEN OnFloor([ui EXCEPT !.selected = c], Map[c].floor)
                    ELSE [ui EXCEPT !.selected = c]
    <3>1. StaysShut(u)
      BY <1>5, OnFloorStaysShut
    <3>2. Click(u)
      BY <2>2 DEF ClickRoom
    <3> HIDE DEF u
    <3> QED
      BY <1>4, <3>1, <3>2
  <2>3. ASSUME Unselect \/ ShowOnMap \/ ClearHighlight PROVE Shut
    BY <1>1, <1>4, <1>5, <2>3, OnFloorStaysShut DEF Unselect, ShowOnMap, ClearHighlight
  <2>4. ASSUME NEW row, ClickRow(row) PROVE Shut
    BY <1>4, <1>5, <2>4 DEF ClickRow
  <2>5. ASSUME NEW phase, ToggleLegend(phase) PROVE Shut
    BY <1>4, <1>5, <2>5 DEF ToggleLegend
  <2>6. ASSUME NEW s, NEW touched, Rotate(s) \/ TouchSection(s, touched) PROVE Shut
    BY <1>3, <2>6 DEF Rotate, TouchSection
  <2>7. ASSUME NEW s, NEW x, Hover(s) \/ PickDot(s, x) \/ Resize(s, x) PROVE Shut
    BY <2>6, <2>7 DEF Hover, PickDot, Resize
  <2>8. ASSUME KioskStep PROVE Shut
    <3>1. PICK f : ui' = OnFloor(ui, f)
      BY <2>8 DEF KioskStep
    <3> QED
      BY <1>1, <1>2, <3>1, OnFloorStaysShut
  <2>9. ASSUME ToggleKiosk PROVE Shut
    BY <1>2, <1>5, <2>9 DEF ToggleKiosk, PageOpens
  <2>10. ASSUME Reload PROVE Shut
    BY <2>10 DEF Reload, PageOpens, FreshUi, Shut
  <2> QED
    BY <1>7, <1>8, <1>9, <2>1, <2>2, <2>3, <2>4, <2>5, <2>6, <2>7, <2>8, <2>9, <2>10
    DEF BoardNext
<1>10. CASE SearchNext
  <2>1. ASSUME OpenSearch \/ CloseSearch \/ SearchAsked PROVE Shut
    BY <1>2, <1>3, <1>5, <2>1 DEF OpenSearch, CloseSearch, SearchAsked
  <2>2. ASSUME NEW q, TypeQuery(q) \/ SearchAnswered(q) \/ SearchFails(q) \/ DayServed(q)
        PROVE  Shut
    BY <1>3, <2>2 DEF TypeQuery, SearchAnswered, SearchFails, DayServed
  <2>3. ASSUME NEW entry, Choose(entry) PROVE Shut
    <3> DEFINE closed == [ui EXCEPT !.searchOpen = FALSE]
    <3>1. StaysShut(closed)
      BY <1>5
    <3>2. \E h : ui' \in {WithChosen(closed, h), closed}
      BY <2>3 DEF Choose
    <3> HIDE DEF closed
    <3> QED
      BY <1>2, <3>1, <3>2, ChosenStaysShut
  <2>4. ASSUME NEW i, NEW sessions, NEW asOf, Chosen(i, sessions, asOf) PROVE Shut
    <3>1. PICK h : ui' = WithChosen(ui, h)
      BY <2>4 DEF Chosen
    <3> QED
      BY <1>1, <1>2, <3>1, ChosenStaysShut
  <2>5. ASSUME NEW i, DayLands(i) \/ DayFails(i) PROVE Shut
    BY <2>4, <2>5 DEF DayLands, DayFails
  <2> QED
    BY <1>7, <1>8, <1>10, <2>1, <2>2, <2>3, <2>5 DEF SearchNext
<1> QED
  BY <1>9, <1>10

\* Every step keeps the invariant of the lessons.
LEMMA LessonsInvStep == LessonsInv /\ [WebNext]_webVars => LessonsInv'
<1> SUFFICES ASSUME LessonsInv, [WebNext]_webVars PROVE LessonsInv'
  OBVIOUS
<1>1. "scheduleOpen" \in DOMAIN ui /\ "room" \in DOMAIN grid
  BY DEF LessonsInv, CacheTyped, ScheduleStaysShut
<1>2. CASE UNCHANGED webVars
  BY <1>2 DEF webVars, pageVars, adminVars, gridVars, LessonsInv, CacheTyped, FreshIsCurrent,
              AnswerIsCurrent, Unheard, LessonsOf, ScheduleStaysShut, ShownIsFetched, Active
<1>3. CASE scene # "panels" /\ WebNext
  <2>1. ~ui.scheduleOpen
    BY <1>3 DEF LessonsInv, ScheduleStaysShut
  <2>2. ASSUME BoardNext \/ SearchNext, UNCHANGED <<adminVars, scene>>
        PROVE  LessonsInv'
    BY <1>1, <1>3, <2>2, PageStaysShut, LessonsApart DEF adminVars, gridVars
  <2>3. ASSUME UNCHANGED pageVars, UNCHANGED <<adminVars, scene>> PROVE LessonsInv'
    BY <1>1, <1>3, <2>1, <2>3, LessonsApart DEF adminVars, gridVars, pageVars
  <2> QED
    BY <1>3, <2>2, <2>3 DEF WebNext, StreamScene, BoardScene, EscapeToLive
<1>4. CASE scene = "panels" /\ ToggleAdmin /\ UNCHANGED <<adminVars, scene>>
  <2>1. ui' = [ui EXCEPT !.adminOpen = ~@]
    BY <1>4 DEF ToggleAdmin, Click
  <2>2. "scheduleOpen" \in DOMAIN ui' /\ ui'.scheduleOpen = ui.scheduleOpen /\ ui'.kiosk = ui.kiosk
    BY <1>1, <2>1
  <2>3. \A r \in Edited : Active(r)' => Active(r)
    BY <1>4, <2>2 DEF Active, adminVars, gridVars
  <2> QED
    BY <1>1, <1>4, <2>2, <2>3, LessonsShown DEF adminVars, gridVars
<1>5. CASE scene = "panels" /\ OrdersNext /\ UNCHANGED scene
  <2>1. UNCHANGED <<ui, key, gridVars>>
    <3>1. ASSUME NEW kind, NEW of, Order(kind, of) PROVE UNCHANGED <<ui, key, gridVars>>
      BY <3>1 DEF Order, pageVars
    <3>2. ASSUME PlaceOrder \/ UndoOrder \/ Announce PROVE UNCHANGED <<ui, key, gridVars>>
      BY <3>1, <3>2 DEF PlaceOrder, UndoOrder, Announce
    <3>3. ASSUME NEW o, OrderServed(o) \/ OrderAnswered(o) \/ OrderLost(o)
          PROVE  UNCHANGED <<ui, key, gridVars>>
      BY <3>3 DEF OrderServed, OrderAnswered, OrderLost, pageVars
    <3> QED
      BY <1>5, <3>2, <3>3 DEF OrdersNext
  <2>2. \A r \in Edited : Active(r)' => Active(r)
    BY <2>1 DEF Active, gridVars
  <2> QED
    BY <1>1, <1>5, <2>1, <2>2, LessonsShown DEF gridVars
<1>6. ASSUME scene = "panels", scene' = scene, NEW k, KeyArrives(k) PROVE LessonsInv'
  <2>1. UNCHANGED <<ui, grid, changes, lessons, excused>>
    BY <1>6 DEF KeyArrives, pageVars
  <2>2. CASE ui.scheduleOpen /\ k = "known"
    <3>1. cache' = Visited(grid.room, FALSE)
      BY <1>6, <2>2 DEF KeyArrives
    <3>2. \A r \in Edited : Active(r)' => r = grid.room
      BY <2>1 DEF Active
    <3> QED
      BY <1>1, <1>6, <2>1, <3>1, <3>2, LessonsVisited
  <2>3. CASE ~(ui.scheduleOpen /\ k = "known")
    <3>1. cache' = cache /\ \A r \in Edited : ~Active(r)'
      BY <1>6, <2>1, <2>3 DEF KeyArrives, Active
    <3> QED
      BY <1>1, <1>6, <2>1, <3>1, LessonsShown
  <2> QED
    BY <2>2, <2>3
<1>7. ASSUME scene = "panels", scene' = scene, Remount PROVE LessonsInv'
  <2>1. /\ grid' = [room |-> FirstRoom, cell |-> 0] /\ grid'.room = FirstRoom
        /\ UNCHANGED <<ui, key, changes, lessons, excused>>
    BY <1>7 DEF Remount, pageVars
  <2>2. CASE ui.scheduleOpen /\ key = "known"
    <3>1. PICK aged \in BOOLEAN : cache' = Visited(FirstRoom, aged)
      BY <1>7, <2>2 DEF Remount
    <3>2. \A r \in Edited : Active(r)' => r = FirstRoom
      BY <2>1 DEF Active
    <3> QED
      BY <1>1, <1>7, <2>1, <3>1, <3>2, LessonsVisited
  <2>3. CASE ~(ui.scheduleOpen /\ key = "known")
    <3>1. cache' = cache /\ \A r \in Edited : ~Active(r)'
      BY <1>7, <2>1, <2>3 DEF Remount, Active
    <3> QED
      BY <1>1, <1>7, <2>1, <3>1, LessonsShown
  <2> QED
    BY <2>2, <2>3
<1>8. CASE scene = "panels" /\ TimetableNext /\ UNCHANGED scene
  <2>1. ASSUME NEW u, NEW g, Shows(u, g), "scheduleOpen" \in DOMAIN u, "room" \in DOMAIN g
        PROVE  LessonsInv'
    <3>1. ui' = u /\ grid' = g /\ UNCHANGED <<key, changes, lessons, excused>>
      BY <2>1 DEF Shows
    <3>2. CASE u.scheduleOpen /\ ~u.kiosk /\ key = "known" /\ <<u, g.room>> # <<ui, grid.room>>
      <4>1. PICK aged \in BOOLEAN : cache' = Visited(g.room, aged)
        BY <2>1, <3>2 DEF Shows
      <4>2. \A r \in Edited : Active(r)' => r = g.room
        BY <3>1 DEF Active
      <4> QED
        BY <1>8, <2>1, <3>1, <4>1, <4>2, LessonsVisited
    <3>3. CASE ~(u.scheduleOpen /\ ~u.kiosk /\ key = "known" /\ <<u, g.room>> # <<ui, grid.room>>)
      <4>1. cache' = cache
        BY <2>1, <3>3 DEF Shows
      <4>2. \A r \in Edited : Active(r)' => Active(r)
        BY <3>1, <3>3 DEF Active
      <4> QED
        BY <1>8, <2>1, <3>1, <4>1, <4>2, LessonsShown
    <3> QED
      BY <3>2, <3>3
  <2>2. ASSUME OpenSchedule \/ CloseSchedule \/ CancelForm PROVE LessonsInv'
    BY <1>1, <2>1, <2>2 DEF OpenSchedule, CloseSchedule, CancelForm
  <2>3. ASSUME NEW r, PickRoom(r) \/ PressAdd(r) PROVE LessonsInv'
    BY <1>1, <2>1, <2>3 DEF PickRoom, PressAdd
  <2>4. ASSUME SaveLesson \/ RemoveLesson PROVE LessonsInv'
    BY <1>8, <2>4, LessonsAsked DEF SaveLesson, RemoveLesson
  <2> QED
    BY <1>8, <2>2, <2>3, <2>4, LessonsFetched, LessonsServed, LessonsAnswered, LessonsFailed,
       LessonsLost DEF TimetableNext
<1> QED
  BY <1>2, <1>3, <1>4, <1>5, <1>6, <1>7, <1>8
  DEF WebNext, AdminNext, StreamScene, BoardScene

LEMMA LessonsInvAlways == WebSpec => []LessonsInv
<1>1. WebInit => LessonsInv
  <2> SUFFICES ASSUME WebInit PROVE LessonsInv
    OBVIOUS
  <2>1. "scheduleOpen" \in DOMAIN ui /\ ~ui.scheduleOpen
    <3>1. PICK k \in BOOLEAN, a \in BOOLEAN : ui = [FreshUi(k) EXCEPT !.adminOpen = a]
      BY DEF WebInit, BoardInit
    <3> QED
      BY <3>1 DEF FreshUi
  <2>2. /\ cache = [r \in Edited |->
                      [known |-> FALSE, data |-> {}, old |-> FALSE, fetch |-> Idle]]
        /\ changes = {} /\ "room" \in DOMAIN grid
    BY DEF WebInit, AdminInit
  <2>3. Idle.at = "none"
    BY DEF Idle
  <2>4. CacheTyped /\ ScheduleStaysShut
    BY <2>1, <2>2 DEF CacheTyped, ScheduleStaysShut
  <2>5. FreshIsCurrent /\ AnswerIsCurrent /\ ShownIsFetched
    BY <2>1, <2>2, <2>3 DEF FreshIsCurrent, AnswerIsCurrent, ShownIsFetched, Active
  <2> QED
    BY <2>4, <2>5 DEF LessonsInv
<1> QED
  BY <1>1, LessonsInvStep, PTL DEF WebSpec

\* The grid of the timetable shows the lessons of the server once nothing is
\* under way, but for a failure, a change given up or an answer from before one
\* (SchedulePanel.tsx), for any rooms, lessons and number of changes.
THEOREM LessonsSettleAlways == WebSpec => []LessonsSettle
<1>1. LessonsInv => LessonsSettle
  BY DEF LessonsInv, FreshIsCurrent, ShownIsFetched, LessonsSettle, Unheard
<1> QED
  BY <1>1, LessonsInvAlways, PTL

-----------------------------------------------------------------------------
(***************************************************************************)
(* The types of the panels.  Every override is named by an order that was  *)
(* placed, and every lesson by a room of the catalogue.                    *)
(***************************************************************************)
AdminInv ==
    /\ AdminTypeOK
    /\ grid \in [room : Edited, cell : {0} \cup Cells]
    /\ \A c \in changes : c.lesson.room \in Edited

\* What the orders of the demo panel do.
LEMMA OrdersKeepTypes ==
  ASSUME AdminInv, UndoInv, UndoInv', UNCHANGED lessons, errands' \in {errands, errands + 1},
         \/ UNCHANGED <<panel, overrides, unsure>>
         \/ \E o \in orders : OrderServed(o) \/ OrderAnswered(o) \/ OrderLost(o)
  PROVE  /\ panel'.life \in 1..errands' + 1 /\ panel'.last.id \in 0..errands'
         /\ \A v \in overrides' \cup unsure' : v.id \in 1..errands'
         /\ \A v \in overrides' : v.lesson \in lessons'
<1>1. /\ errands \in Nat /\ errands' \in Nat /\ errands <= errands'
      /\ panel.life \in 1..errands + 1
      /\ \A v \in overrides \cup unsure : v.id \in 1..errands
      /\ \A v \in overrides : v.lesson \in lessons
  BY DEF AdminInv, AdminTypeOK, UndoInv, OrdersTyped
<1>2. panel'.last.id \in 0..errands'
  BY <1>1 DEF UndoInv, OrdersTyped, NoOverride
<1>3. panel'.life \in 1..errands' + 1
  <2>1. panel'.life = panel.life
    BY DEF OrderServed, OrderAnswered, OrderLost, UndoInv, OrdersTyped
  <2> QED
    BY <1>1, <2>1
<1>4. \A o \in orders : o.kind \in {"make", "undo"} => o.of.id \in 1..errands
  <2> SUFFICES ASSUME NEW o \in orders, o.kind \in {"make", "undo"} PROVE o.of.id \in 1..errands
    OBVIOUS
  <2>1. o.of.id \in 0..errands /\ o.no \in 1..errands
    BY DEF UndoInv, OrdersTyped
  <2>2. o.of.id # 0
    BY <2>1 DEF UndoInv, OrdersNumbered, UndoneIsOffered
  <2> QED
    BY <1>1, <2>1, <2>2
<1>5. \A v \in overrides' \cup unsure' : v.id \in 1..errands
  BY <1>1, <1>4 DEF OrderServed, OrderAnswered, OrderLost
<1>6. \A v \in overrides' : v.lesson \in lessons'
  BY <1>1 DEF OrderServed, OrderAnswered, OrderLost
<1> QED
  BY <1>1, <1>2, <1>3, <1>5, <1>6

\* What the steps of the timetable leave alone, and the steps of its cache.
LEMMA CacheKeepsTypes ==
  ASSUME AdminInv, LessonsInv, NEW r \in Edited,
         \/ FetchServed(r) \/ FetchLands(r) \/ FetchFails(r)
         \/ cache' = Visited(r, TRUE) \/ cache' = Visited(r, FALSE)
         \/ cache' = Invalidated
  PROVE  \A s \in Edited : \A l \in cache'[s].data \cup cache'[s].fetch.data : l.room = s
<1>1. /\ DOMAIN cache = Edited
      /\ \A s \in Edited : DOMAIN cache[s] = {"known", "data", "old", "fetch"}
      /\ \A s \in Edited : \A l \in cache[s].data \cup cache[s].fetch.data : l.room = s
  BY DEF AdminInv, AdminTypeOK, LessonsInv, CacheTyped
<1>2. Idle.data = {} /\ Asked.data = {}
  BY DEF Idle, Asked
<1>3. CASE FetchServed(r)
  BY <1>1, <1>3 DEF FetchServed, LessonsOf
<1>4. CASE FetchLands(r)
  BY <1>1, <1>2, <1>4 DEF FetchLands
<1>5. CASE FetchFails(r)
  BY <1>1, <1>2, <1>5 DEF FetchFails
<1>6. CASE cache' = Visited(r, TRUE) \/ cache' = Visited(r, FALSE)
  BY <1>1, <1>2, <1>6 DEF Visited
<1>7. CASE cache' = Invalidated
  BY <1>1, <1>2, <1>7 DEF Invalidated
<1> QED
  BY <1>3, <1>4, <1>5, <1>6, <1>7

LEMMA FirstIsEdited == FirstRoom \in Edited
<1>1. Head(Catalogue) = Catalogue[1] /\ 1 \in DOMAIN Catalogue
  BY AdminAssumption, HeadTailProperties, LenProperties, EmptySeq
<1> QED
  BY <1>1 DEF FirstRoom, Edited, Elements

LEMMA AdminInvStep ==
  ASSUME AdminInv, UndoInv, LessonsInv, UndoInv', [WebNext]_webVars
  PROVE  AdminInv'
<1> DEFINE Counted == /\ panel.life \in 1..errands + 1 /\ panel.last.id \in 0..errands
                      /\ \A v \in overrides \cup unsure : v.id \in 1..errands
                      /\ \A v \in overrides : v.lesson \in lessons
           Shelved == \A s \in Edited : \A l \in cache[s].data \cup cache[s].fetch.data : l.room = s
           Placed == grid \in [room : Edited, cell : {0} \cup Cells]
           Lent == (\A c \in changes : c.lesson.room \in Edited) /\ excused \subseteq Edited
<1>1. /\ AdminInv <=> key \in {"unknown", "known", "none"} /\ Counted /\ Shelved /\ Placed /\ Lent
      /\ AdminInv' <=> key' \in {"unknown", "known", "none"} /\ Counted' /\ Shelved' /\ Placed' /\ Lent'
  BY DEF AdminInv, AdminTypeOK
<1>2. grid.room \in Edited /\ DOMAIN cache = Edited
  BY DEF AdminInv, LessonsInv, CacheTyped
<1>3. ASSUME UNCHANGED <<panel, overrides, unsure, lessons>>, errands' \in {errands, errands + 1}
      PROVE  Counted'
  BY <1>3, OrdersKeepTypes
<1>4. ASSUME UNCHANGED cache PROVE Shelved'
  BY <1>1, <1>4
<1>5. ASSUME NEW r \in Edited, cache' = Visited(r, TRUE) \/ cache' = Visited(r, FALSE)
      PROVE  Shelved'
  BY <1>5, CacheKeepsTypes
<1> HIDE DEF Counted, Shelved
<1>6. CASE UNCHANGED adminVars
  <2>1. Counted' /\ Shelved'
    BY <1>3, <1>4, <1>6 DEF adminVars, panelVars, gridVars
  <2> QED
    BY <1>1, <1>6, <2>1 DEF adminVars, panelVars, gridVars
<1>7. ASSUME NEW k \in {"known", "none"}, KeyArrives(k) PROVE AdminInv'
  <2>1. cache' = cache \/ cache' = Visited(grid.room, FALSE)
    BY <1>7 DEF KeyArrives
  <2>2. Counted' /\ Shelved'
    BY <1>2, <1>3, <1>4, <1>5, <1>7, <2>1 DEF KeyArrives, panelVars
  <2> QED
    BY <1>1, <1>7, <2>2 DEF KeyArrives
<1>8. ASSUME Remount PROVE AdminInv'
  <2>1. cache' \in {cache, Visited(FirstRoom, TRUE), Visited(FirstRoom, FALSE)}
    BY <1>8 DEF Remount
  <2>2. Shelved'
    BY <1>4, <1>5, <2>1, FirstIsEdited
  <2>3. Placed'
    BY <1>8, FirstIsEdited DEF Remount
  <2>4. Counted'
    <3>1. /\ errands \in Nat /\ errands' = errands + 1
          /\ panel' = [life |-> panel.life + 1, last |-> NoOverride]
          /\ UNCHANGED <<overrides, unsure, lessons>>
      BY <1>8 DEF Remount, UndoInv, OrdersTyped
    <3>2. /\ panel.life \in 1..errands + 1
          /\ \A v \in overrides \cup unsure : v.id \in 1..errands
          /\ \A v \in overrides : v.lesson \in lessons
      BY DEF AdminInv, AdminTypeOK
    <3>3. panel'.life \in 1..errands' + 1 /\ panel'.last.id \in 0..errands'
      BY <3>1, <3>2 DEF NoOverride
    <3>4. /\ \A v \in overrides' \cup unsure' : v.id \in 1..errands'
          /\ \A v \in overrides' : v.lesson \in lessons'
      BY <3>1, <3>2
    <3> QED
      BY <3>3, <3>4 DEF Counted
  <2> QED
    BY <1>1, <1>8, <2>2, <2>3, <2>4 DEF Remount
<1>9. CASE OrdersNext
  <2>1. ASSUME NEW kind, NEW of, Order(kind, of) PROVE AdminInv'
    <3>1. Counted' /\ Shelved'
      BY <1>3, <1>4, <2>1 DEF Order, gridVars
    <3> QED
      BY <1>1, <2>1, <3>1 DEF Order, gridVars
  <2>2. CASE PlaceOrder \/ UndoOrder \/ Announce
    BY <2>1, <2>2 DEF PlaceOrder, UndoOrder, Announce
  <2>3. ASSUME NEW o \in orders, OrderServed(o) \/ OrderAnswered(o) \/ OrderLost(o) PROVE AdminInv'
    <3>1. UNCHANGED <<key, gridVars, errands>>
      BY <2>3 DEF OrderServed, OrderAnswered, OrderLost
    <3>2. Counted'
      BY <2>3, <3>1, OrdersKeepTypes DEF Counted, gridVars
    <3>3. Shelved'
      BY <1>4, <3>1 DEF gridVars
    <3> QED
      BY <1>1, <3>1, <3>2, <3>3 DEF gridVars
  <2> QED
    BY <1>9, <2>2, <2>3 DEF OrdersNext
<1>10. CASE TimetableNext
  <2>1. ASSUME NEW u, NEW g \in [room : Edited, cell : {0} \cup Cells], Shows(u, g) PROVE AdminInv'
    <3>1. cache' \in {cache, Visited(g.room, TRUE), Visited(g.room, FALSE)}
      BY <2>1 DEF Shows
    <3>2. Counted' /\ Shelved'
      BY <1>3, <1>4, <1>5, <2>1, <3>1 DEF Shows, panelVars
    <3> QED
      BY <1>1, <2>1, <3>2 DEF Shows
  <2>2. CASE OpenSchedule \/ CloseSchedule \/ CancelForm
    BY <1>1, <2>1, <2>2 DEF OpenSchedule, CloseSchedule, CancelForm
  <2>3. ASSUME NEW r \in Edited, PickRoom(r) PROVE AdminInv'
    BY <2>1, <2>3 DEF PickRoom
  <2>4. ASSUME NEW c \in Cells, PressAdd(c) PROVE AdminInv'
    BY <1>1, <2>1, <2>4 DEF PressAdd
  <2>5. ASSUME NEW r \in Edited, FetchServed(r) \/ FetchLands(r) \/ FetchFails(r) PROVE AdminInv'
    <3>1. UNCHANGED <<key, panelVars, grid, changes, lessons, errands>> /\ excused' \subseteq Edited
      BY <1>1, <2>5 DEF FetchServed, FetchLands, FetchFails
    <3>2. Counted'
      BY <1>3, <3>1 DEF panelVars
    <3>3. Shelved'
      BY <2>5, CacheKeepsTypes DEF Shelved
    <3> QED
      BY <1>1, <3>1, <3>2, <3>3
  <2>6. ASSUME NEW kind, NEW lesson, lesson.room \in Edited, Change(kind, lesson) PROVE AdminInv'
    <3>1. Counted' /\ Shelved'
      BY <1>3, <1>4, <2>6 DEF Change, panelVars
    <3>2. Lent'
      BY <1>1, <2>6 DEF Change
    <3> QED
      BY <1>1, <2>6, <3>1, <3>2 DEF Change
  <2>7. CASE SaveLesson
    BY <1>2, <2>6, <2>7 DEF SaveLesson
  <2>8. CASE RemoveLesson
    <3>1. PICK l \in cache[grid.room].data : Change("remove", l)
      BY <2>8 DEF RemoveLesson
    <3>2. l.room = grid.room
      BY <1>1, <1>2 DEF Shelved
    <3> QED
      BY <1>2, <2>6, <3>1, <3>2
  <2>9. ASSUME NEW c \in changes, ChangeServed(c) PROVE AdminInv'
    <3>1. Shelved'
      BY <1>4, <2>9 DEF ChangeServed
    <3>2. Counted'
      <4>1. /\ overrides' \subseteq overrides /\ UNCHANGED <<panel, unsure, errands>>
            /\ \A v \in overrides' : v.lesson \in lessons => v.lesson \in lessons'
        BY <2>9 DEF ChangeServed, OverridesWithout
      <4> QED
        BY <1>1, <4>1 DEF Counted
    <3>3. [c EXCEPT !.stage = "done"].lesson = c.lesson
      BY DEF LessonsInv, CacheTyped
    <3>4. Lent'
      BY <1>1, <2>9, <3>3 DEF ChangeServed
    <3> QED
      BY <1>1, <2>9, <3>1, <3>2, <3>4 DEF ChangeServed
  <2>10. ASSUME NEW c \in changes, ChangeAnswered(c) PROVE AdminInv'
    <3>1. Counted'
      BY <1>3, <2>10 DEF ChangeAnswered, panelVars
    <3>2. Shelved'
      BY <1>2, <2>10, CacheKeepsTypes DEF ChangeAnswered, Shelved
    <3>3. Placed'
      BY <1>1, <2>10 DEF ChangeAnswered
    <3>4. Lent'
      BY <1>1, <1>2, <2>10 DEF ChangeAnswered, PassingForFresh
    <3> QED
      BY <1>1, <2>10, <3>1, <3>2, <3>3, <3>4 DEF ChangeAnswered
  <2>11. ASSUME NEW c \in changes, ChangeFails(c) PROVE AdminInv'
    <3>1. Counted' /\ Shelved'
      BY <1>3, <1>4, <2>11 DEF ChangeFails, panelVars
    <3>2. Lent'
      BY <1>1, <2>11 DEF ChangeFails
    <3> QED
      BY <1>1, <2>11, <3>1, <3>2 DEF ChangeFails
  <2>12. ASSUME NEW c \in changes, ChangeLost(c) PROVE AdminInv'
    <3>1. Counted' /\ Shelved'
      BY <1>3, <1>4, <2>12 DEF ChangeLost, panelVars
    <3>2. Forgotten(c).lesson = c.lesson
      BY DEF Forgotten, LessonsInv, CacheTyped
    <3>3. Lent'
      BY <1>1, <2>12, <3>2 DEF ChangeLost
    <3> QED
      BY <1>1, <2>12, <3>1, <3>3 DEF ChangeLost
  <2> QED
    BY <1>10, <2>2, <2>3, <2>4, <2>5, <2>7, <2>8, <2>9, <2>10, <2>11, <2>12
    DEF TimetableNext
<1> QED
  BY <1>6, <1>7, <1>8, <1>9, <1>10 DEF WebNext, webVars, AdminNext, StreamScene, BoardScene

LEMMA AdminInvInit == WebInit => AdminInv
<1> SUFFICES ASSUME AdminInit PROVE AdminInv
  BY DEF WebInit
<1>1. FirstRoom \in Edited
  BY FirstIsEdited
<1>2. \A r \in Edited : cache[r].data = {} /\ cache[r].fetch.data = {}
  BY DEF AdminInit, Idle
<1> QED
  BY <1>1, <1>2 DEF AdminInit, AdminInv, AdminTypeOK, NoOverride

LEMMA AdminInvAlways == WebSpec => []AdminInv
  BY AdminInvInit, AdminInvStep, UndoInvAlways, LessonsInvAlways, PTL DEF WebSpec
=============================================================================
