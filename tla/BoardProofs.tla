---------------------------- MODULE BoardProofs ----------------------------
(***************************************************************************)
(* Type correctness of Board, and that no invalidation is lost, for every  *)
(* number of requests, lessons and failures.                               *)
(***************************************************************************)
EXTENDS Board, TLAPS

\* The label after catalog() is a label.
LEMMA AfterCatalogLabel ==
  ASSUME NEW p \in Procs, NEW call \in CatalogCalls
  PROVE  AfterCatalog(p, call) \in Labels
BY DEF AfterCatalog, CatalogCalls, Queries, Finished, Labels

\* The label after a failed query is a label.
LEMMA AfterErrorLabel ==
  ASSUME NEW p \in Procs
  PROVE  AfterError(p) \in Labels
BY DEF AfterError, CatalogCalls, Queries, Finished, Labels

\* The first label of a handler is a label.
LEMMA FirstStepLabel ==
  ASSUME NEW h \in AllHandlers
  PROVE  FirstStep(h) \in Labels
BY DEF FirstStep, AllHandlers, CatalogCalls, Queries, Finished, Labels

\* Goto keeps the program counters well typed.
LEMMA GotoType ==
  ASSUME NEW p \in Procs, NEW label \in Labels, pc \in [Procs -> Labels],
         Goto(p, label)
  PROVE  pc' \in [Procs -> Labels]
BY DEF Goto

\* The empty working copy is a snapshot.
LEMMA NoRowsType == NoRows \in Snapshot
BY DEF NoRows, Snapshot

\* Setting one field of a goroutine's working copy keeps it a snapshot.
LEMMA SnapFieldType ==
  ASSUME snap \in [Procs -> Snapshot], NEW p \in Procs
  PROVE  /\ \A ls \in SUBSET Lessons :
              [snap EXCEPT ![p].lessons = ls] \in [Procs -> Snapshot]
         /\ \A n \in Nat :
              [snap EXCEPT ![p].overrides = n] \in [Procs -> Snapshot]
         /\ \A n \in Nat :
              [snap EXCEPT ![p].announcements = n] \in [Procs -> Snapshot]
BY DEF Snapshot

(***************************************************************************)
(* A goroutine between the lookup of the conflict check and the insertion  *)
(* has a lesson to insert; without it the lessons table has no type.       *)
(***************************************************************************)
ChecksConflicts(p) ==
  \/ pc[p] \in {"conflicts", "insertLesson"}
  \/ pc[p] \in {"load", "install"} /\ site[p] = "conflicts"

LessonChosen == \A p \in Procs : ChecksConflicts(p) => arg[p] \in Lessons

\* Only the start of createLesson leads to the conflict check.
LEMMA ConflictsOnlyFromStart ==
  ASSUME NEW p \in Procs, NEW call \in CatalogCalls
  PROVE  /\ AfterCatalog(p, call) \notin {"conflicts", "load", "install"}
         /\ AfterCatalog(p, call) = "insertLesson" => call = "conflicts"
         /\ AfterError(p) \notin {"conflicts", "insertLesson", "load", "install"}
BY DEF AfterCatalog, AfterError, CatalogCalls

\* Every step keeps LessonChosen.
LEMMA LessonChosenStep == TypeOK /\ LessonChosen /\ [Next]_vars => LessonChosen'
<1> SUFFICES ASSUME TypeOK, LessonChosen, [Next]_vars, NEW q \in Procs,
                    ChecksConflicts(q)'
             PROVE  arg'[q] \in Lessons
  BY DEF LessonChosen
<1> USE DEF ChecksConflicts, LessonChosen, TypeOK, Goto
<1>1. ASSUME NEW p \in Procs, Lookup(p) PROVE arg'[q] \in Lessons
  <2>1. AfterCatalog(p, pc[p]) \in Labels
    BY <1>1, AfterCatalogLabel DEF Lookup
  <2> QED
    BY <1>1, <2>1, ConflictsOnlyFromStart DEF Lookup
<1>2. ASSUME NEW p \in Procs, LoadCatalog(p) PROVE arg'[q] \in Lessons
  BY <1>2 DEF LoadCatalog
<1>3. ASSUME NEW p \in Procs, InstallCatalog(p) PROVE arg'[q] \in Lessons
  BY <1>3, ConflictsOnlyFromStart DEF InstallCatalog
<1>4. ASSUME NEW p \in Procs, ReadOverrides(p) \/ ReadAnnouncements(p)
      PROVE  arg'[q] \in Lessons
  BY <1>4 DEF ReadOverrides, ReadAnnouncements
<1>5. ASSUME NEW p \in Procs, StoreLive(p) \/ PublishSnapshot(p)
      PROVE  arg'[q] \in Lessons
  BY <1>5 DEF StoreLive, PublishSnapshot, local
<1>6. ASSUME NEW p \in Procs, Fail(p) PROVE arg'[q] \in Lessons
  <2>1. "snapshot" \in CatalogCalls
    BY DEF CatalogCalls
  <2> QED
    BY <1>6, <2>1, ConflictsOnlyFromStart DEF Fail, local
<1>7. ASSUME NEW r \in Requests, Start(r) PROVE arg'[q] \in Lessons
  <2> r \in Procs
    BY DEF Procs
  <2>1. PICK h \in Handlers :
          /\ Goto(r, FirstStep(h))
          /\ CASE h = "createLesson" ->
                    \E l \in Lessons \ lessons : arg' = [arg EXCEPT ![r] = l]
               [] h = "deleteLesson" ->
                    \E l \in lessons : arg' = [arg EXCEPT ![r] = l]
               [] OTHER -> UNCHANGED arg
    BY <1>7 DEF Start
  <2>2. h \in AllHandlers
    BY BoardAssumption
  <2>3. site' = site
    BY <1>7 DEF Start
  <2>4. CASE q = r
    <3>1. FirstStep(h) \notin {"insertLesson", "load", "install"}
      BY <2>2 DEF FirstStep, AllHandlers
    <3>2. pc'[q] = FirstStep(h)
      BY <2>1, <2>4
    <3>3. FirstStep(h) = "conflicts"
      BY <3>1, <3>2
    <3>4. h = "createLesson"
      BY <2>2, <3>3 DEF FirstStep, AllHandlers
    <3> QED
      BY <2>1, <2>4, <3>4
  <2>5. CASE q # r
    <3>1. ChecksConflicts(q)
      BY <2>1, <2>3, <2>5
    <3>2. arg'[q] = arg[q]
      BY <2>1, <2>2, <2>5 DEF AllHandlers
    <3> QED
      BY <3>1, <3>2
  <2> QED
    BY <2>4, <2>5
<1>8. ASSUME NEW r \in Requests,
             \/ Current(r) \/ HasSnapshot(r) \/ InsertOverride(r)
             \/ DeleteOverride(r) \/ InsertAnnouncement(r) \/ InsertLesson(r)
             \/ Reread(r) \/ DeleteLesson(r) \/ EveryBuilding(r)
             \/ ReloadCatalog(r) \/ Invalidate(r) \/ Poke(r)
      PROVE arg'[q] \in Lessons
  BY <1>8 DEF Current, HasSnapshot, InsertOverride, DeleteOverride,
     InsertAnnouncement, InsertLesson, Reread, DeleteLesson, EveryBuilding,
     ReloadCatalog, Invalidate, Poke, local
<1>9. CASE Invalidated \/ TimerFires \/ UNCHANGED vars
  BY <1>9 DEF Invalidated, TimerFires, vars, local
<1> QED
  BY <1>1, <1>2, <1>3, <1>4, <1>5, <1>6, <1>7, <1>8, <1>9 DEF Next, Read, Handle

\* Type correctness: caches hold what the code stores in them, and a goroutine
\* stands at a statement of its handler.
THEOREM TypeCorrect == Spec => [](TypeOK /\ LessonChosen)
<1>1. Init => TypeOK /\ LessonChosen
  <2> SUFFICES ASSUME Init PROVE TypeOK /\ LessonChosen
    OBVIOUS
  <2>1. pc \in [Procs -> Labels] /\ site \in [Procs -> CatalogCalls]
    BY DEF Init, Labels, CatalogCalls
  <2>2. lessons \in SUBSET Lessons
    BY DEF Init
  <2>3. snap \in [Procs -> Snapshot]
    BY NoRowsType DEF Init
  <2>4. told \in [overrides : Nat, announcements : Nat]
    BY DEF Init
  <2>5. TypeOK
    BY <2>1, <2>2, <2>3, <2>4 DEF Init, TypeOK
  <2>6. LessonChosen
    BY DEF Init, LessonChosen, ChecksConflicts
  <2> QED
    BY <2>5, <2>6
<1>2. TypeOK /\ LessonChosen /\ [Next]_vars => TypeOK'
  <2> SUFFICES ASSUME TypeOK, LessonChosen, [Next]_vars PROVE TypeOK'
    OBVIOUS
  <2>1. ASSUME NEW p \in Procs, Lookup(p) PROVE TypeOK'
    <3>1. pc[p] \in CatalogCalls /\ "load" \in Labels
      BY <2>1 DEF Lookup, Labels, Queries
    <3>2. CASE catalog # None
      <4>1. catalog \in SUBSET Lessons
        BY <3>2 DEF TypeOK
      <4>2. snap' \in [Procs -> Snapshot]
        <5>1. snap' = [snap EXCEPT ![p].lessons = catalog]
          BY <2>1, <3>2 DEF Lookup
        <5>2. snap \in [Procs -> Snapshot]
          BY DEF TypeOK
        <5> QED
          BY <4>1, <5>1, <5>2, SnapFieldType
      <4>3. pc' \in [Procs -> Labels]
        BY <2>1, <3>1, <3>2, AfterCatalogLabel, GotoType DEF Lookup, TypeOK
      <4> QED
        BY <2>1, <3>2, <4>2, <4>3 DEF Lookup, TypeOK, db
    <3>3. CASE catalog = None
      <4>1. pc' \in [Procs -> Labels]
        BY <2>1, <3>1, <3>3, GotoType DEF Lookup, TypeOK
      <4> QED
        BY <2>1, <3>1, <3>3, <4>1 DEF Lookup, TypeOK, db
    <3> QED
      BY <3>2, <3>3
  <2>2. ASSUME NEW p \in Procs, LoadCatalog(p) PROVE TypeOK'
    <3>1. pc' \in [Procs -> Labels]
      BY <2>2, GotoType DEF LoadCatalog, TypeOK, Labels
    <3>2. snap' \in [Procs -> Snapshot]
      BY <2>2, SnapFieldType DEF LoadCatalog, TypeOK
    <3> QED
      BY <2>2, <3>1, <3>2 DEF LoadCatalog, TypeOK, db
  <2>3. ASSUME NEW p \in Procs, InstallCatalog(p) PROVE TypeOK'
    <3>1. pc' \in [Procs -> Labels]
      BY <2>3, AfterCatalogLabel, GotoType DEF InstallCatalog, TypeOK
    <3>2. catalog' \in SUBSET Lessons
      BY <2>3 DEF InstallCatalog, TypeOK, Snapshot
    <3>3. site' \in [Procs -> CatalogCalls]
      BY <2>3 DEF InstallCatalog, TypeOK, CatalogCalls
    <3> QED
      BY <2>3, <3>1, <3>2, <3>3 DEF InstallCatalog, TypeOK, db
  <2>4. ASSUME NEW p \in Procs, ReadOverrides(p) PROVE TypeOK'
    <3>1. pc' \in [Procs -> Labels]
      BY <2>4, GotoType DEF ReadOverrides, TypeOK, Labels, Queries
    <3>2. snap' \in [Procs -> Snapshot]
      BY <2>4, SnapFieldType DEF ReadOverrides, TypeOK
    <3> QED
      BY <2>4, <3>1, <3>2 DEF ReadOverrides, TypeOK, db
  <2>5. ASSUME NEW p \in Procs, ReadAnnouncements(p) PROVE TypeOK'
    <3>1. pc' \in [Procs -> Labels]
      BY <2>5, GotoType DEF ReadAnnouncements, TypeOK, Labels, Finished
    <3>2. snap' \in [Procs -> Snapshot]
      BY <2>5, SnapFieldType DEF ReadAnnouncements, TypeOK
    <3> QED
      BY <2>5, <3>1, <3>2 DEF ReadAnnouncements, TypeOK, db
  <2>6. ASSUME NEW p \in Procs, StoreLive(p) PROVE TypeOK'
    <3>1. pc' \in [Procs -> Labels]
      BY <2>6, GotoType DEF StoreLive, TypeOK, Labels, Finished
    <3>2. live' \in Snapshot
      BY <2>6 DEF StoreLive, TypeOK
    <3> QED
      BY <2>6, <3>1, <3>2 DEF StoreLive, TypeOK, db, local
  <2>7. ASSUME NEW p \in Procs, PublishSnapshot(p) PROVE TypeOK'
    <3>1. pc' \in [Procs -> Labels]
      BY <2>7, GotoType DEF PublishSnapshot, TypeOK, Labels, Finished, CatalogCalls
    <3>2. last' \in Snapshot
      BY <2>7 DEF PublishSnapshot, TypeOK
    <3> QED
      BY <2>7, <3>1, <3>2 DEF PublishSnapshot, TypeOK, db, local
  <2>8. ASSUME NEW p \in Procs, Fail(p) PROVE TypeOK'
    <3>1. pc' \in [Procs -> Labels]
      BY <2>8, AfterErrorLabel, GotoType DEF Fail, TypeOK
    <3>2. failures' \in Nat
      BY <2>8 DEF Fail, TypeOK
    <3> QED
      BY <2>8, <3>1, <3>2 DEF Fail, TypeOK, db, local
  <2>9. ASSUME NEW r \in Requests, Start(r) PROVE TypeOK'
    <3> r \in Procs
      BY DEF Procs
    <3>1. PICK h \in Handlers :
            /\ op' = [op EXCEPT ![r] = h]
            /\ Goto(r, FirstStep(h))
            /\ CASE h = "createLesson" ->
                      \E l \in Lessons \ lessons :
                         /\ \A q \in Requests : arg[q] # l
                         /\ arg' = [arg EXCEPT ![r] = l]
                 [] h = "deleteLesson" ->
                      \E l \in lessons : arg' = [arg EXCEPT ![r] = l]
                 [] OTHER -> UNCHANGED arg
      BY <2>9 DEF Start
    <3>2. h \in AllHandlers
      BY BoardAssumption
    <3>3. pc' \in [Procs -> Labels]
      BY <3>1, <3>2, FirstStepLabel, GotoType DEF TypeOK
    <3>4. op' \in [Procs -> AllHandlers \cup {None}]
      BY <3>1, <3>2 DEF TypeOK
    <3>5. arg' \in [Procs -> Lessons \cup {None}]
      BY <3>1 DEF TypeOK
    <3> QED
      BY <2>9, <3>3, <3>4, <3>5 DEF Start, TypeOK, db
  <2>10. ASSUME NEW r \in Requests,
                \/ Current(r) \/ HasSnapshot(r) \/ InsertOverride(r)
                \/ DeleteOverride(r) \/ InsertAnnouncement(r) \/ InsertLesson(r)
                \/ Reread(r) \/ DeleteLesson(r) \/ EveryBuilding(r)
                \/ ReloadCatalog(r) \/ Invalidate(r) \/ Poke(r)
         PROVE TypeOK'
    <3> r \in Procs
      BY DEF Procs
    <3> USE GotoType DEF TypeOK, Labels, Finished, Queries, CatalogCalls, db, local
    <3>1. CASE Current(r)          BY <3>1 DEF Current
    <3>2. CASE HasSnapshot(r)      BY <3>2 DEF HasSnapshot
    <3>3. CASE InsertOverride(r)   BY <3>3 DEF InsertOverride
    <3>4. CASE DeleteOverride(r)   BY <3>4 DEF DeleteOverride
    <3>5. CASE InsertAnnouncement(r) BY <3>5 DEF InsertAnnouncement
    <3>6. CASE InsertLesson(r)
      <4>1. lessons' \in SUBSET Lessons
        BY <3>6 DEF InsertLesson, LessonChosen, ChecksConflicts
      <4> QED BY <3>6, <4>1 DEF InsertLesson
    <3>7. CASE Reread(r)           BY <3>7 DEF Reread
    <3>8. CASE DeleteLesson(r)     BY <3>8 DEF DeleteLesson
    <3>9. CASE EveryBuilding(r)    BY <3>9 DEF EveryBuilding
    <3>10. CASE ReloadCatalog(r)   BY <3>10 DEF ReloadCatalog
    <3>11. CASE Invalidate(r)      BY <3>11 DEF Invalidate
    <3>12. CASE Poke(r)            BY <3>12 DEF Poke
    <3> QED
      BY <2>10, <3>1, <3>2, <3>3, <3>4, <3>5, <3>6, <3>7, <3>8, <3>9, <3>10,
         <3>11, <3>12
  <2>11. CASE Invalidated \/ TimerFires
    <3> Sched \in Procs /\ "snapshot" \in Labels
      BY DEF Procs, Labels, CatalogCalls
    <3> QED
      BY <2>11, GotoType DEF Invalidated, TimerFires, TypeOK, db, local
  <2>12. CASE UNCHANGED vars
    BY <2>12 DEF vars, TypeOK
  <2> QED
    BY <2>1, <2>2, <2>3, <2>4, <2>5, <2>6, <2>7, <2>8, <2>9, <2>10, <2>11, <2>12
    DEF Next, Read, Handle
<1> QED
  BY <1>1, <1>2, LessonChosenStep, PTL DEF Spec
-----------------------------------------------------------------------------
(***************************************************************************)
(* No lost wakeup.  The invariant says at every point of the scheduler's   *)
(* loop what NoLostWakeup says at its end: as soon as a query has run,     *)
(* either what it read covers every invalidation sent so far, or a tick is *)
(* in the channel.  It holds because Invalidate sends after the write is   *)
(* committed and the scheduler takes the tick before it reads.             *)
(***************************************************************************)
AfterOverrides ==
  \/ pc[Sched] \in {"announcements", "store", "publish", "building", "sleep"}
  \/ pc[Sched] \in {"load", "install"} /\ site[Sched] = "building"

AfterAnnouncements ==
  \/ pc[Sched] \in {"store", "publish", "building", "sleep"}
  \/ pc[Sched] \in {"load", "install"} /\ site[Sched] = "building"

SchedulerLabels ==
  {"snapshot", "timeline", "load", "install", "overrides", "announcements",
   "store", "publish", "building", "sleep", "backoff"}

WakeupInv ==
  /\ pc[Sched] \in SchedulerLabels
  /\ site[Sched] \in {"snapshot", "timeline", "building"}
  /\ op[Sched] = None
  /\ told.overrides <= overrides
  /\ told.announcements <= announcements
  /\ ~token /\ AfterOverrides => told.overrides <= snap[Sched].overrides
  /\ ~token /\ AfterAnnouncements =>
       told.announcements <= snap[Sched].announcements

\* What a step of a request may do to the state WakeupInv is about.
RequestStep ==
  /\ pc'[Sched] = pc[Sched] /\ site'[Sched] = site[Sched]
  /\ op'[Sched] = op[Sched] /\ snap'[Sched] = snap[Sched]
  /\ overrides <= overrides' /\ announcements <= announcements'
  /\ \/ told' = told /\ token' = token
     \/ token' /\ told' = [overrides |-> overrides, announcements |-> announcements]
               /\ overrides' = overrides /\ announcements' = announcements

\* A request never moves the scheduler, never empties the channel, and raises
\* `told` only together with a tick.
LEMMA RequestSteps ==
  ASSUME TypeOK, NEW r \in Requests, Read(r) \/ Fail(r) \/ Handle(r)
  PROVE  RequestStep
<1> r \in Procs /\ r # Sched /\ Sched \in Procs
  BY BoardAssumption DEF Procs
<1> USE DEF TypeOK, Goto, RequestStep, db, local
<1>1. CASE Read(r)
  BY <1>1 DEF Read, Lookup, LoadCatalog, InstallCatalog, ReadOverrides,
     ReadAnnouncements, StoreLive, PublishSnapshot
<1>2. CASE Fail(r)
  BY <1>2 DEF Fail
<1>3. CASE Start(r)
  BY <1>3 DEF Start
<1>4. CASE \/ Current(r) \/ HasSnapshot(r) \/ Reread(r) \/ EveryBuilding(r)
           \/ ReloadCatalog(r) \/ Invalidate(r)
  BY <1>4 DEF Current, HasSnapshot, Reread, EveryBuilding, ReloadCatalog, Invalidate
<1>5. CASE \/ InsertOverride(r) \/ DeleteOverride(r) \/ InsertAnnouncement(r)
           \/ InsertLesson(r) \/ DeleteLesson(r)
  BY <1>5 DEF InsertOverride, DeleteOverride, InsertAnnouncement, InsertLesson,
     DeleteLesson
<1>6. CASE Poke(r)
  BY <1>6 DEF Poke
<1> QED
  BY <1>1, <1>2, <1>3, <1>4, <1>5, <1>6 DEF Handle

\* Such a step keeps the invariant.
LEMMA RequestKeepsWakeup ==
  ASSUME TypeOK, TypeOK', WakeupInv, RequestStep
  PROVE  WakeupInv'
<1> USE DEF TypeOK, RequestStep
<1> Sched \in Procs
  BY DEF Procs
<1>1. /\ overrides \in Nat /\ overrides' \in Nat
      /\ announcements \in Nat /\ announcements' \in Nat
      /\ told.overrides \in Nat /\ told.announcements \in Nat
  OBVIOUS
<1>2. CASE told' = told /\ token' = token
  BY <1>1, <1>2 DEF WakeupInv, AfterOverrides, AfterAnnouncements
<1>3. CASE ~(told' = told /\ token' = token)
  <2>1. /\ token'
        /\ told'.overrides = overrides' /\ told'.announcements = announcements'
    BY <1>3
  <2> QED
    BY <1>1, <2>1 DEF WakeupInv
<1> QED
  BY <1>2, <1>3

\* The scheduler's own steps.
LEMMA SchedulerKeepsWakeup ==
  ASSUME TypeOK, TypeOK', WakeupInv,
         Read(Sched) \/ Fail(Sched) \/ Invalidated \/ TimerFires
  PROVE  WakeupInv'
<1> Sched \in Procs
  BY DEF Procs
<1> op[Sched] = None /\ None \notin AllHandlers
  BY BoardAssumption DEF WakeupInv
<1>0. /\ overrides \in Nat /\ announcements \in Nat
      /\ told.overrides \in Nat /\ told.announcements \in Nat
  BY DEF TypeOK
<1> DEFINE Rest == UNCHANGED <<overrides, announcements, token, told>>
                   /\ op'[Sched] = op[Sched]
<1> USE DEF WakeupInv, AfterOverrides, AfterAnnouncements, SchedulerLabels, Goto
<1>1. CASE Lookup(Sched)
  <2>1. pc[Sched] \in {"snapshot", "timeline", "building"}
    BY <1>1 DEF Lookup, CatalogCalls
  <2>2. /\ Rest
        /\ snap'[Sched].overrides = snap[Sched].overrides
        /\ snap'[Sched].announcements = snap[Sched].announcements
    BY <1>1 DEF Lookup, TypeOK, Snapshot, db
  <2>3. \/ /\ pc'[Sched] = "load" /\ site'[Sched] = pc[Sched]
        \/ /\ pc'[Sched] = AfterCatalog(Sched, pc[Sched])
           /\ site'[Sched] = site[Sched]
    BY <1>1 DEF Lookup, TypeOK
  <2> QED
    BY <1>0, <2>1, <2>2, <2>3 DEF AfterCatalog
<1>2. CASE LoadCatalog(Sched)
  <2>1. /\ Rest /\ pc[Sched] = "load" /\ pc'[Sched] = "install"
        /\ site'[Sched] = site[Sched]
        /\ snap'[Sched].overrides = snap[Sched].overrides
        /\ snap'[Sched].announcements = snap[Sched].announcements
    BY <1>2 DEF LoadCatalog, TypeOK, Snapshot, db
  <2> QED
    BY <1>0, <2>1
<1>3. CASE InstallCatalog(Sched)
  <2>1. /\ Rest /\ pc[Sched] = "install" /\ site'[Sched] = "snapshot"
        /\ pc'[Sched] = AfterCatalog(Sched, site[Sched])
        /\ snap' = snap
    BY <1>3 DEF InstallCatalog, TypeOK, db
  <2> QED
    BY <1>0, <2>1 DEF AfterCatalog
<1>4. CASE ReadOverrides(Sched)
  <2>1. /\ Rest /\ pc'[Sched] = "announcements"
        /\ snap'[Sched].overrides = overrides
        /\ site'[Sched] = site[Sched]
    BY <1>4 DEF ReadOverrides, TypeOK, Snapshot, db
  <2> QED
    BY <1>0, <2>1
<1>5. CASE ReadAnnouncements(Sched)
  <2>1. /\ Rest /\ pc[Sched] = "announcements" /\ pc'[Sched] = "store"
        /\ snap'[Sched].announcements = announcements
        /\ snap'[Sched].overrides = snap[Sched].overrides
        /\ site'[Sched] = site[Sched]
    BY <1>5 DEF ReadAnnouncements, TypeOK, Snapshot, db, AllHandlers
  <2> QED
    BY <1>0, <2>1
<1>6. CASE StoreLive(Sched) \/ PublishSnapshot(Sched)
  <2>1. /\ Rest /\ snap' = snap /\ site'[Sched] = site[Sched]
        /\ \/ pc[Sched] = "store" /\ pc'[Sched] = "publish"
           \/ pc[Sched] = "publish" /\ pc'[Sched] = "building"
    BY <1>6 DEF StoreLive, PublishSnapshot, TypeOK, db, local
  <2> QED
    BY <1>0, <2>1
<1>7. CASE Fail(Sched)
  <2>1. /\ Rest /\ snap' = snap /\ site'[Sched] = site[Sched]
        /\ pc[Sched] \in Queries /\ pc'[Sched] = AfterError(Sched)
    BY <1>7 DEF Fail, TypeOK, db, local
  <2>2. \/ pc'[Sched] = "backoff"
        \/ /\ pc[Sched] = "load" /\ site[Sched] = "building"
           /\ pc'[Sched] = "sleep"
    BY <2>1 DEF AfterError, Queries
  <2> QED
    BY <1>0, <2>1, <2>2
<1>8. CASE Invalidated \/ TimerFires
  <2>1. /\ pc'[Sched] = "snapshot" /\ site' = site /\ snap' = snap /\ op' = op
        /\ UNCHANGED <<overrides, announcements, told>>
    BY <1>8 DEF Invalidated, TimerFires, TypeOK, db, local
  <2> QED
    BY <1>0, <2>1
<1> QED
  BY <1>1, <1>2, <1>3, <1>4, <1>5, <1>6, <1>7, <1>8 DEF Read

\* Whenever the scheduler sleeps with an empty channel after a successful
\* rebuild, what it published covers every invalidation that was sent.
THEOREM NoWakeupIsLost == Spec => []NoLostWakeup
<1>1. Init => WakeupInv
  <2> Sched \in Procs
    BY DEF Procs
  <2> QED
    BY DEF Init, WakeupInv, AfterOverrides, AfterAnnouncements, SchedulerLabels
<1>2. TypeOK /\ TypeOK' /\ WakeupInv /\ [Next]_vars => WakeupInv'
  <2> SUFFICES ASSUME TypeOK, TypeOK', WakeupInv, [Next]_vars PROVE WakeupInv'
    OBVIOUS
  <2>1. CASE UNCHANGED vars
    BY <2>1 DEF vars, WakeupInv, AfterOverrides, AfterAnnouncements
  <2>2. CASE \E r \in Requests : Read(r) \/ Fail(r) \/ Handle(r)
    BY <2>2, RequestSteps, RequestKeepsWakeup
  <2>3. CASE Read(Sched) \/ Fail(Sched) \/ Invalidated \/ TimerFires
    BY <2>3, SchedulerKeepsWakeup
  <2> QED
    BY <2>1, <2>2, <2>3 DEF Next, Procs
<1>3. WakeupInv => NoLostWakeup
  BY DEF WakeupInv, NoLostWakeup, Covers, AfterOverrides, AfterAnnouncements
<1> QED
  BY <1>1, <1>2, <1>3, TypeCorrect, PTL DEF Spec
=============================================================================
