----------------------------- MODULE WallProofs -----------------------------
(***************************************************************************)
(* Proofs about the wall orchestrator of Wall.tla, for every number of     *)
(* instances and every configuration: the type invariant, that a locked    *)
(* previewing instance stays in the high class, that a force-frozen        *)
(* instance is queued for unfreezing, and, when the pointer is not grabbed *)
(* (conf.Wall.UseMouse off), that at most one instance is Ingame and that  *)
(* no locked instance is ever reset.                                       *)
(***************************************************************************)
EXTENDS Wall, SequenceTheorems, TLAPS

USE ConstAssumption DEF ConstAssumption

\* Starting a timer goroutine for the ids allowed by CanSchedule keeps every
\* pending count within the bound.
LEMMA ScheduleType ==
    ASSUME NEW pending \in [Inst -> 0..MaxPending], NEW S \in SUBSET Inst,
           CanSchedule(pending, S)
    PROVE  Schedule(pending, S) \in [Inst -> 0..MaxPending]
BY DEF Schedule, CanSchedule

\* Sending the reset key to a set of instances keeps resetKey a predicate.
LEMMA SendResetType ==
    ASSUME NEW S, resetKey \in [Inst -> BOOLEAN], SendReset(S)
    PROVE  resetKey' \in [Inst -> BOOLEAN]
BY DEF SendReset

\* wallPlay leaves affinity, locks and current well typed.
LEMMA PlayEffectsType ==
    ASSUME NEW id \in Inst, affinity \in [Inst -> Classes],
           locks \in [Inst -> BOOLEAN], PlayEffects(id)
    PROVE  /\ affinity' \in [Inst -> Classes]
           /\ locks' \in [Inst -> BOOLEAN]
           /\ onWall' \in BOOLEAN
           /\ current' \in Inst
BY DEF PlayEffects, Classes

\* The class the log-update handler picks is a CPU class.
LEMMA UpdateAffinityType ==
    ASSUME NEW id \in Inst, NEW u \in Updates, affinity \in [Inst -> Classes]
    PROVE  UpdateAffinity(id, u) \in Classes
BY DEF UpdateAffinity, Updates, Classes

\* The handlers wallHandleEvent dispatches to.
Body(i) == Play(i) \/ ResetInstance(i) \/ ResetOthers(i) \/ Lock(i)

\* How the event source moves when a handler runs: a key press is handled
\* only on the wall, a click is taken from the head of the queue.
Dispatched ==
    \/ onWall /\ UNCHANGED clicks
    \/ clicks # <<>> /\ clicks' = Tail(clicks)

\* A queued click whose handler returns at once.
ClickRefused ==
    /\ clicks # <<>>
    /\ clicks' = Tail(clicks)
    /\ UNCHANGED <<blocked, states, locks, frozen, current, onWall, toUnfreeze,
                   forceFreeze, toFreeze, curFreeze, envVars>>

\* Every step of the system is one of these: the key and click paths both
\* end in a handler body, or a click is dropped by an early return.
LEMMA NextCases ==
    ASSUME TypeOK, [Next]_vars
    PROVE  \/ \E i \in Inst : HandleForceFreeze(i) \/ HandleToFreeze(i)
                              \/ HandleLogUpdate(i)
           \/ \E i \in Inst : Body(i) /\ Dispatched
           \/ ClickRefused
           \/ ResetAll \/ ResetCurrent \/ CurrentTimerFires
           \/ \E i \in Inst : GameReset(i) \/ GameAdvance(i)
           \/ \E i \in Inst, op \in Ops : Click(i, op)
           \/ UNCHANGED vars
<1>1. ASSUME NEW i \in Inst, NEW op \in Ops, KeyEvent(i, op)
      PROVE  Body(i) /\ Dispatched
  BY <1>1 DEF KeyEvent, wallHandleEvent, Body, Dispatched
<1>2. ASSUME HandleClick
      PROVE  (\E i \in Inst : Body(i) /\ Dispatched) \/ ClickRefused
  <2>1. Head(clicks) \in Clicks
    BY <1>2 DEF HandleClick, TypeOK
  <2>2. Head(clicks).id \in Inst
    BY <2>1 DEF Clicks
  <2>3. clicks # <<>> /\ clicks' = Tail(clicks)
    BY <1>2 DEF HandleClick
  <2>4. CASE wallHandleEvent(Head(clicks).id, Head(clicks).op)
    BY <2>2, <2>3, <2>4 DEF wallHandleEvent, Body, Dispatched
  <2>5. CASE ~wallHandleEvent(Head(clicks).id, Head(clicks).op)
    BY <1>2, <2>3, <2>5 DEF HandleClick, ClickRefused, envVars
  <2> QED
    BY <2>4, <2>5
<1> QED
  BY <1>1, <1>2 DEF Next, WallNext, GameNext, UserNext

\* Every variable keeps its type: the state space the wall loop, its timer
\* goroutines, the user and the game processes move in is the one TypeOK
\* describes.
THEOREM TypeCorrect == Spec => []TypeOK
<1>1. Init => TypeOK
  <2> SUFFICES ASSUME Init PROVE TypeOK
    OBVIOUS
  <2>1. current \in Inst
    BY DEF Init, Inst
  <2>2. toUnfreeze \in Seq(Inst) /\ logUpdates \in [Inst -> Seq(Updates)]
    BY DEF Init
  <2>3. forceFreeze \in [Inst -> 0..MaxPending] /\ toFreeze \in [Inst -> 0..MaxPending]
    BY DEF Init
  <2>4. clicks \in Seq(Clicks) /\ curFreeze \in 0..MaxPending
    BY DEF Init
  <2> QED
    BY <2>1, <2>2, <2>3, <2>4 DEF Init, TypeOK, Phases, Classes, GamePhases
<1>2. TypeOK /\ [Next]_vars => TypeOK'
  <2> SUFFICES ASSUME TypeOK, [Next]_vars PROVE TypeOK'
    OBVIOUS
  <2>0. clicks' \in Seq(Clicks)
    <3>1. CASE Dispatched \/ ClickRefused
      <4>1. clicks # <<>> => Tail(clicks) \in Seq(Clicks)
        BY HeadTailProperties DEF TypeOK
      <4> QED
        BY <3>1, <4>1 DEF Dispatched, ClickRefused, TypeOK
    <3>2. ASSUME NEW i \in Inst, NEW op \in Ops, Click(i, op) PROVE clicks' \in Seq(Clicks)
      BY <3>2 DEF Click, Clicks, TypeOK
    <3>3. CASE UNCHANGED clicks
      BY <3>3 DEF TypeOK
    <3> QED
      BY <3>1, <3>2, <3>3, NextCases
         DEF HandleForceFreeze, HandleToFreeze, HandleLogUpdate, ResetAll,
             ResetCurrent, CurrentTimerFires, GameReset, GameAdvance, wallVars,
             vars, Body
  <2>1. ASSUME NEW i \in Inst, HandleForceFreeze(i) PROVE TypeOK'
    <3>1. forceFreeze' \in [Inst -> 0..MaxPending]
      <4>1. forceFreeze[i] > 0 /\ forceFreeze' = [forceFreeze EXCEPT ![i] = @ - 1]
        BY <2>1 DEF HandleForceFreeze
      <4> QED
        BY <4>1 DEF TypeOK
    <3>2. toUnfreeze' \in Seq(Inst) /\ frozen' \in [Inst -> BOOLEAN]
      <4>1. \/ toUnfreeze' = Append(toUnfreeze, i) /\ frozen' = [frozen EXCEPT ![i] = TRUE]
            \/ UNCHANGED <<toUnfreeze, frozen>>
        BY <2>1 DEF HandleForceFreeze
      <4>2. Append(toUnfreeze, i) \in Seq(Inst)
        BY DEF TypeOK
      <4>3. [frozen EXCEPT ![i] = TRUE] \in [Inst -> BOOLEAN]
        BY DEF TypeOK
      <4> QED
        BY <4>1, <4>2, <4>3 DEF TypeOK
    <3> QED
      BY <2>0, <2>1, <3>1, <3>2 DEF HandleForceFreeze, TypeOK
  <2>2. ASSUME NEW i \in Inst, HandleToFreeze(i) PROVE TypeOK'
    BY <2>0, <2>2 DEF HandleToFreeze, TypeOK
  <2>3. ASSUME NEW i \in Inst, HandleLogUpdate(i) PROVE TypeOK'
    <3> DEFINE u == Head(logUpdates[i])
    <3>1. u \in Updates
      BY <2>3 DEF HandleLogUpdate, TypeOK
    <3>2. UpdateAffinity(i, u) \in Classes
      BY <3>1, UpdateAffinityType DEF TypeOK
    <3>3. u.st \in Phases
      BY <3>1 DEF Updates, Phases
    <3>4. toUnfreeze # <<>> => Head(toUnfreeze) \in Inst /\ Tail(toUnfreeze) \in Seq(Inst)
      BY DEF TypeOK
    <3>5. toFreeze' \in [Inst -> 0..MaxPending]
      BY <2>3 DEF HandleLogUpdate, TypeOK
    <3>6. /\ toUnfreeze' \in Seq(Inst)
          /\ suspended' \in [Inst -> BOOLEAN]
          /\ frozen' \in [Inst -> BOOLEAN]
      BY <2>3, <3>4 DEF HandleLogUpdate, UnfreezeOldest, TypeOK
    <3>7. states' \in [Inst -> Phases] /\ affinity' \in [Inst -> Classes]
      BY <2>3, <3>2, <3>3 DEF HandleLogUpdate, TypeOK
    <3>8. logUpdates' \in [Inst -> Seq(Updates)]
      BY <2>3 DEF HandleLogUpdate, TypeOK
    <3> QED
      BY <2>0, <2>3, <3>5, <3>6, <3>7, <3>8 DEF HandleLogUpdate, TypeOK
  <2>4. ASSUME NEW i \in Inst, Play(i) PROVE TypeOK'
    BY <2>0, <2>4, PlayEffectsType DEF Play, TypeOK, Phases
  <2>5. ASSUME NEW i \in Inst, ResetInstance(i) PROVE TypeOK'
    <3>1. forceFreeze' \in [Inst -> 0..MaxPending]
      BY <2>5, ScheduleType DEF ResetInstance, TypeOK
    <3>2. resetKey' \in [Inst -> BOOLEAN]
      BY <2>5, SendResetType DEF ResetInstance, TypeOK
    <3> QED
      BY <2>0, <2>5, <3>1, <3>2 DEF ResetInstance, TypeOK, Phases
  <2>6. ASSUME NEW i \in Inst, ResetOthers(i) PROVE TypeOK'
    <3>1. forceFreeze' \in [Inst -> 0..MaxPending]
      BY <2>6, ScheduleType DEF ResetOthers, TypeOK
    <3>2. resetKey' \in [Inst -> BOOLEAN]
      BY <2>6, SendResetType DEF ResetOthers, TypeOK
    <3>3. /\ affinity' \in [Inst -> Classes]
          /\ locks' \in [Inst -> BOOLEAN]
          /\ onWall' \in BOOLEAN
          /\ current' \in Inst
      BY <2>6, PlayEffectsType DEF ResetOthers, TypeOK
    <3> QED
      BY <2>0, <2>6, <3>1, <3>2, <3>3 DEF ResetOthers, TypeOK, Phases
  <2>7. ASSUME NEW i \in Inst, Lock(i) PROVE TypeOK'
    BY <2>0, <2>7 DEF Lock, TypeOK, Classes
  <2>8. CASE ResetAll
    <3>1. forceFreeze' \in [Inst -> 0..MaxPending]
      <4> DEFINE R == {k \in Inst : CanReset(k)}
      <4>1. PICK S \in SUBSET R : /\ CanSchedule(forceFreeze, S)
                                   /\ forceFreeze' = Schedule(forceFreeze, S)
        BY <2>8 DEF ResetAll
      <4> QED
        BY <4>1, ScheduleType DEF TypeOK
    <3>2. resetKey' \in [Inst -> BOOLEAN]
      BY <2>8, SendResetType DEF ResetAll, TypeOK
    <3> QED
      BY <2>0, <2>8, <3>1, <3>2 DEF ResetAll, TypeOK, Phases
  <2>9. CASE ResetCurrent
    <3>1. curFreeze' \in 0..MaxPending
      BY <2>9 DEF ResetCurrent, TypeOK
    <3>2. resetKey' \in [Inst -> BOOLEAN]
      BY <2>9, SendResetType DEF ResetCurrent, TypeOK
    <3>3. /\ affinity' \in [Inst -> Classes]
          /\ locks' \in [Inst -> BOOLEAN]
          /\ onWall' \in BOOLEAN
          /\ current' \in Inst
          /\ states' \in [Inst -> Phases]
          /\ suspended' \in [Inst -> BOOLEAN]
      BY <2>9, PlayEffectsType DEF ResetCurrent, TypeOK, Phases
    <3> QED
      BY <2>0, <2>9, <3>1, <3>2, <3>3 DEF ResetCurrent, TypeOK
  <2>10. CASE CurrentTimerFires
    BY <2>0, <2>10 DEF CurrentTimerFires, TypeOK
  <2>11. ASSUME NEW i \in Inst, GameReset(i) PROVE TypeOK'
    <3>1. CASE GameStep(i, GamePhases \ {"Generating"}, "Generating",
                        [st |-> "Generating", hi |-> FALSE])
      BY <2>11, <3>1 DEF GameReset, GameStep, Log, TypeOK, GamePhases, Updates,
                         wallVars
    <3>2. CASE UNCHANGED <<game, logUpdates>>
      BY <2>11, <3>2 DEF GameReset, TypeOK, wallVars
    <3> QED
      BY <2>11, <3>1, <3>2 DEF GameReset
  <2>12. ASSUME NEW i \in Inst, GameAdvance(i) PROVE TypeOK'
    <3> USE DEF GameAdvance, GameStep, Log, TypeOK, GamePhases, Updates, wallVars
    <3>1. CASE GameStep(i, {"Generating"}, "PreviewLow",
                        [st |-> "Preview", hi |-> FALSE])
      BY <2>12, <3>1
    <3>2. CASE GameStep(i, {"PreviewLow"}, "PreviewHigh",
                        [st |-> "Preview", hi |-> TRUE])
      BY <2>12, <3>2
    <3>3. CASE GameStep(i, {"PreviewLow", "PreviewHigh"}, "Loaded",
                        [st |-> "Idle", hi |-> FALSE])
      BY <2>12, <3>3
    <3> QED
      BY <2>12, <3>1, <3>2, <3>3
  <2>13. CASE ClickRefused \/ \E i \in Inst, op \in Ops : Click(i, op)
    BY <2>0, <2>13 DEF ClickRefused, Click, envVars, TypeOK
  <2>14. CASE UNCHANGED vars
    BY <2>14 DEF vars, wallVars, envVars, TypeOK
  <2> QED
    BY <2>1, <2>2, <2>3, <2>4, <2>5, <2>6, <2>7, <2>8, <2>9, <2>10, <2>11,
       <2>12, <2>13, <2>14, NextCases DEF Body
<1> QED
  BY <1>1, <1>2, PTL DEF Spec


\* Without conf.Wall.UseMouse the pointer is never grabbed, so no pointer
\* event ever reaches the loop.
LEMMA NoClicks == Spec => [](TypeOK /\ (~UseMouse => clicks = <<>>))
<1> DEFINE KeyboardOnly == ~UseMouse => clicks = <<>>
<1>1. Init => KeyboardOnly
  BY DEF Init
<1>2. TypeOK /\ KeyboardOnly /\ [Next]_vars => KeyboardOnly'
  <2> SUFFICES ASSUME TypeOK, ~UseMouse, clicks = <<>>, [Next]_vars
               PROVE clicks' = <<>>
    OBVIOUS
  <2>1. ASSUME NEW i \in Inst, NEW op \in Ops, Click(i, op) PROVE FALSE
    BY <2>1 DEF Click
  <2> QED
    BY <2>1, NextCases
       DEF Dispatched, ClickRefused, HandleForceFreeze, HandleToFreeze,
           HandleLogUpdate, ResetAll, ResetCurrent, CurrentTimerFires,
           GameReset, GameAdvance, wallVars, vars
<1> QED
  BY <1>1, <1>2, TypeCorrect, PTL DEF Spec

\* With the keyboard only, at most one instance is ever Ingame, and it is
\* the current one while the wall is not shown: wallPlay and
\* wallResetOthers run only from a wall key press, which the loop drops
\* unless the wall is shown (and then no instance is Ingame), and the
\* GoToLocked branch of wallHandleResetKey plays only after resetting the
\* current one.  With the mouse the property fails (run
\* wall_mouse_double_play): a queued click reaches wallPlay after the wall
\* was left.
THEOREM OneIngame == ASSUME ~UseMouse PROVE Spec => []AtMostOneIngame
<1> DEFINE Inv == TypeOK /\ clicks = <<>> /\ AtMostOneIngame
<1>1. Init => AtMostOneIngame
  BY DEF Init, AtMostOneIngame
<1>2. Inv /\ [Next]_vars => AtMostOneIngame'
  <2> SUFFICES ASSUME Inv, [Next]_vars PROVE AtMostOneIngame'
    OBVIOUS
  <2> NoneOnWall == onWall => \A k \in Inst : states[k] # "Ingame"
  <2>0. NoneOnWall
    BY DEF AtMostOneIngame
  <2>1. ASSUME NEW i \in Inst, HandleForceFreeze(i) \/ HandleToFreeze(i)
        PROVE AtMostOneIngame'
    BY <2>1 DEF HandleForceFreeze, HandleToFreeze, AtMostOneIngame
  <2>2. ASSUME NEW i \in Inst, HandleLogUpdate(i) PROVE AtMostOneIngame'
    <3>0. Head(logUpdates[i]) \in Updates
      BY <2>2 DEF HandleLogUpdate, TypeOK
    <3>1. Head(logUpdates[i]).st # "Ingame"
      BY <3>0 DEF Updates
    <3>2. /\ states' = [states EXCEPT ![i] = Head(logUpdates[i]).st]
          /\ UNCHANGED <<current, onWall>>
      BY <2>2 DEF HandleLogUpdate
    <3> QED
      BY <3>1, <3>2 DEF AtMostOneIngame, TypeOK
  <2>3. ASSUME NEW i \in Inst, Body(i), Dispatched PROVE AtMostOneIngame'
    <3>0. onWall
      BY <2>3 DEF Dispatched
    <3>1. CASE Play(i)
      BY <2>0, <3>0, <3>1 DEF Play, PlayEffects, AtMostOneIngame, TypeOK
    <3>2. CASE ResetInstance(i)
      BY <2>0, <3>2 DEF ResetInstance, AtMostOneIngame, TypeOK
    <3>3. CASE ResetOthers(i)
      BY <2>0, <3>0, <3>3 DEF ResetOthers, PlayEffects, AtMostOneIngame, TypeOK
    <3>4. CASE Lock(i)
      BY <3>4 DEF Lock, AtMostOneIngame
    <3> QED
      BY <2>3, <3>1, <3>2, <3>3, <3>4 DEF Body
  <2>4. CASE ResetAll
    BY <2>0, <2>4 DEF ResetAll, AtMostOneIngame, TypeOK
  <2>5. CASE ResetCurrent
    <3> DEFINE st == [states EXCEPT ![current] = "Generating"]
               lockedIdle == {k \in Inst : locks[k] /\ st[k] = "Idle"}
    <3>1. \A k \in Inst : st[k] # "Ingame"
      BY DEF AtMostOneIngame, TypeOK
    <3>2. CASE GoToLocked /\ lockedIdle # {}
      <4>1. PICK idx \in lockedIdle : /\ states' = [st EXCEPT ![idx] = "Ingame"]
                                      /\ PlayEffects(idx)
        BY <2>5, <3>2 DEF ResetCurrent
      <4> QED
        BY <3>1, <4>1 DEF PlayEffects, AtMostOneIngame, TypeOK
    <3>3. CASE ~(GoToLocked /\ lockedIdle # {})
      <4>1. states' = st /\ onWall' = TRUE /\ UNCHANGED current
        BY <2>5, <3>3 DEF ResetCurrent
      <4> QED
        BY <3>1, <4>1 DEF AtMostOneIngame, TypeOK
    <3> QED
      BY <3>2, <3>3
  <2>6. CASE CurrentTimerFires \/ ClickRefused \/ \E i \in Inst, op \in Ops : Click(i, op)
    BY <2>6 DEF CurrentTimerFires, ClickRefused, Click, AtMostOneIngame
  <2>7. ASSUME NEW i \in Inst, GameReset(i) \/ GameAdvance(i) PROVE AtMostOneIngame'
    BY <2>7 DEF GameReset, GameAdvance, AtMostOneIngame, wallVars
  <2>8. CASE UNCHANGED vars
    BY <2>8 DEF vars, wallVars, AtMostOneIngame
  <2> QED
    BY <2>1, <2>2, <2>3, <2>4, <2>5, <2>6, <2>7, <2>8, NextCases
<1> QED
  BY <1>1, <1>2, NoClicks, TypeCorrect, PTL DEF Spec, Inv


\* With CPU affinity on, a locked instance in the preview is in the high
\* class: locking a previewing instance raises it (wallLock), the lock rule
\* of the log-update handler keeps a locked instance that enters the
\* preview high, and every other step that changes a state, a lock or a
\* class either unlocks the instance (wallPlay) or moves it out of the
\* preview (the resets).  Inductive together with the type invariant.
THEOREM LockedHigh == Spec => []LockedPreviewHigh
<1> DEFINE Inv == TypeOK /\ LockedPreviewHigh
<1>1. Init => LockedPreviewHigh
  BY DEF Init, LockedPreviewHigh
<1>2. Inv /\ [Next]_vars => LockedPreviewHigh'
  <2> SUFFICES ASSUME Inv, [Next]_vars, Affinity,
                      NEW j \in Inst, locks'[j], states'[j] = "Preview"
               PROVE affinity'[j] = "high"
    BY DEF LockedPreviewHigh
  <2>1. ASSUME NEW i \in Inst,
               HandleForceFreeze(i) \/ HandleToFreeze(i) \/ GameReset(i)
               \/ GameAdvance(i)
        PROVE affinity'[j] = "high"
    BY <2>1 DEF HandleForceFreeze, HandleToFreeze, GameReset, GameAdvance,
                wallVars, LockedPreviewHigh
  <2>2. ASSUME NEW i \in Inst, HandleLogUpdate(i) PROVE affinity'[j] = "high"
    <3> DEFINE u == Head(logUpdates[i])
    <3>1. /\ states' = [states EXCEPT ![i] = u.st]
          /\ affinity' = [affinity EXCEPT ![i] = UpdateAffinity(i, u)]
          /\ UNCHANGED locks
      BY <2>2 DEF HandleLogUpdate
    <3>2. CASE j = i
      BY <3>1, <3>2 DEF UpdateAffinity, TypeOK
    <3>3. CASE j # i
      BY <3>1, <3>3 DEF LockedPreviewHigh, TypeOK
    <3> QED
      BY <3>2, <3>3
  <2>3. ASSUME NEW i \in Inst, Play(i) PROVE affinity'[j] = "high"
    BY <2>3 DEF Play, PlayEffects, LockedPreviewHigh, TypeOK
  <2>4. ASSUME NEW i \in Inst, ResetInstance(i) PROVE affinity'[j] = "high"
    BY <2>4 DEF ResetInstance, LockedPreviewHigh, TypeOK
  <2>5. ASSUME NEW i \in Inst, ResetOthers(i) PROVE affinity'[j] = "high"
    <3> DEFINE R == {k \in Inst \ {i} : CanReset(k)}
    <3>1. /\ states' = [k \in Inst |-> IF k = i THEN "Ingame"
                                       ELSE IF k \in R /\ k =< N THEN "Generating"
                                       ELSE states[k]]
          /\ PlayEffects(i)
      BY <2>5 DEF ResetOthers
    <3> QED
      BY <3>1 DEF PlayEffects, LockedPreviewHigh, TypeOK
  <2>6. ASSUME NEW i \in Inst, Lock(i) PROVE affinity'[j] = "high"
    BY <2>6 DEF Lock, LockedPreviewHigh, TypeOK
  <2>7. CASE ResetAll
    <3> DEFINE R == {k \in Inst : CanReset(k)}
    <3>1. /\ states' = [k \in Inst |-> IF k \in R THEN "Generating" ELSE states[k]]
          /\ UNCHANGED <<locks, affinity>>
      BY <2>7 DEF ResetAll
    <3> QED
      BY <3>1 DEF LockedPreviewHigh, TypeOK
  <2>8. CASE ResetCurrent
    <3> DEFINE st == [states EXCEPT ![current] = "Generating"]
               lockedIdle == {k \in Inst : locks[k] /\ st[k] = "Idle"}
    <3>1. CASE GoToLocked /\ lockedIdle # {}
      <4>1. PICK idx \in lockedIdle : /\ states' = [st EXCEPT ![idx] = "Ingame"]
                                      /\ PlayEffects(idx)
        BY <2>8, <3>1 DEF ResetCurrent
      <4> QED
        BY <4>1 DEF PlayEffects, LockedPreviewHigh, TypeOK
    <3>2. CASE ~(GoToLocked /\ lockedIdle # {})
      <4>1. states' = st /\ UNCHANGED <<locks, affinity>>
        BY <2>8, <3>2 DEF ResetCurrent
      <4> QED
        BY <4>1 DEF LockedPreviewHigh, TypeOK
    <3> QED
      BY <3>1, <3>2
  <2>9. CASE UNCHANGED vars
    BY <2>9 DEF vars, wallVars, envVars, LockedPreviewHigh
  <2>10. CASE CurrentTimerFires \/ ClickRefused \/ \E i \in Inst, op \in Ops : Click(i, op)
    BY <2>10 DEF CurrentTimerFires, ClickRefused, Click, envVars, LockedPreviewHigh
  <2> QED
    BY <2>1, <2>2, <2>3, <2>4, <2>5, <2>6, <2>7, <2>8, <2>9, <2>10, NextCases
       DEF Body
<1> QED
  BY <1>1, <1>2, TypeCorrect, PTL DEF Spec, Inv


\* Dequeuing the oldest id keeps every other queued id queued.
LEMMA TailKeepsOthers ==
    ASSUME NEW q \in Seq(Inst), q # <<>>, NEW j \in Inst, j # Head(q),
           \E k \in DOMAIN q : q[k] = j
    PROVE  \E k \in DOMAIN Tail(q) : Tail(q)[k] = j
<1>1. PICK k \in DOMAIN q : q[k] = j
  OBVIOUS
<1>2. k # 1 /\ k \in 1..Len(q)
  BY <1>1
<1>3. k - 1 \in 1..Len(Tail(q)) /\ Tail(q)[k - 1] = q[k]
  BY <1>2, HeadTailProperties
<1> QED
  BY <1>1, <1>3

\* Enqueuing an id keeps every queued id queued and queues the new one.
LEMMA AppendKeepsAll ==
    ASSUME NEW q \in Seq(Inst), NEW id \in Inst, NEW j \in Inst,
           j = id \/ \E k \in DOMAIN q : q[k] = j
    PROVE  \E k \in DOMAIN Append(q, id) : Append(q, id)[k] = j
<1>1. CASE j = id
  <2>1. Len(q) + 1 \in DOMAIN Append(q, id) /\ Append(q, id)[Len(q) + 1] = id
    BY AppendProperties
  <2> QED
    BY <1>1, <2>1
<1>2. CASE \E k \in DOMAIN q : q[k] = j
  <2>1. PICK k \in DOMAIN q : q[k] = j
    BY <1>2
  <2>2. k \in DOMAIN Append(q, id) /\ Append(q, id)[k] = q[k]
    BY AppendProperties
  <2> QED
    BY <2>1, <2>2
<1> QED
  BY <1>1, <1>2

\* Every instance the forceFreeze handler flagged frozen is queued in
\* toUnfreeze: the handler flags an id only together with enqueuing it, and
\* the non-blocking receive of the log-update handler clears the flag of
\* the id it dequeues; wallResetInstance refuses a frozen instance and
\* nothing else touches the flag or the queue.
THEOREM FrozenAreQueued == Spec => []FrozenQueued
<1> DEFINE Inv == TypeOK /\ FrozenQueued
           Queued(q, j) == \E k \in DOMAIN q : q[k] = j
<1>1. Init => FrozenQueued
  BY DEF Init, FrozenQueued
<1>2. Inv /\ [Next]_vars => FrozenQueued'
  <2> SUFFICES ASSUME Inv, [Next]_vars, NEW j \in Inst, frozen'[j]
               PROVE Queued(toUnfreeze', j)
    BY DEF FrozenQueued
  <2>0. frozen[j] => Queued(toUnfreeze, j)
    BY DEF FrozenQueued
  <2>1. ASSUME NEW i \in Inst, HandleForceFreeze(i) PROVE Queued(toUnfreeze', j)
    <3>1. CASE Len(toUnfreeze) < QueueCap
      <4>1. /\ toUnfreeze' = Append(toUnfreeze, i)
            /\ frozen' = [frozen EXCEPT ![i] = TRUE]
        BY <2>1, <3>1 DEF HandleForceFreeze
      <4>2. j = i \/ Queued(toUnfreeze, j)
        BY <2>0, <4>1 DEF TypeOK
      <4>3. toUnfreeze \in Seq(Inst)
        BY DEF TypeOK
      <4>4. Queued(Append(toUnfreeze, i), j)
        BY <4>2, <4>3, AppendKeepsAll
      <4> QED
        BY <4>1, <4>4
    <3>2. CASE ~(Len(toUnfreeze) < QueueCap)
      BY <2>0, <2>1, <3>2 DEF HandleForceFreeze
    <3> QED
      BY <3>1, <3>2
  <2>2. ASSUME NEW i \in Inst, HandleLogUpdate(i) PROVE Queued(toUnfreeze', j)
    <3> DEFINE wake == ConcResets > 0 /\ Head(logUpdates[i]).st = "Idle"
                       /\ toUnfreeze # <<>>
    <3>1. CASE wake
      <4>1. /\ toUnfreeze' = Tail(toUnfreeze)
            /\ frozen' = [frozen EXCEPT ![Head(toUnfreeze)] = FALSE]
        BY <2>2, <3>1 DEF HandleLogUpdate, UnfreezeOldest
      <4>2. j # Head(toUnfreeze) /\ frozen[j]
        BY <4>1 DEF TypeOK
      <4> QED
        BY <2>0, <3>1, <4>1, <4>2, TailKeepsOthers DEF TypeOK
    <3>2. CASE ~wake
      BY <2>0, <2>2, <3>2 DEF HandleLogUpdate
    <3> QED
      BY <3>1, <3>2
  <2>3. ASSUME NEW i \in Inst,
               \/ HandleToFreeze(i) \/ Play(i) \/ ResetInstance(i)
               \/ ResetOthers(i) \/ Lock(i) \/ GameReset(i) \/ GameAdvance(i)
        PROVE Queued(toUnfreeze', j)
    BY <2>0, <2>3 DEF HandleToFreeze, Play, ResetInstance, ResetOthers, Lock,
                      GameReset, GameAdvance, wallVars
  <2>4. CASE ResetAll \/ ResetCurrent \/ CurrentTimerFires \/ ClickRefused
              \/ \E i \in Inst, op \in Ops : Click(i, op)
    BY <2>0, <2>4 DEF ResetAll, ResetCurrent, CurrentTimerFires, ClickRefused,
                      Click
  <2>5. CASE UNCHANGED vars
    BY <2>0, <2>5 DEF vars, wallVars
  <2> QED
    BY <2>1, <2>2, <2>3, <2>4, <2>5, NextCases DEF Body
<1> QED
  BY <1>1, <1>2, TypeCorrect, PTL DEF Spec, Inv, FrozenQueued


\* While the user plays an instance, that instance is not locked: wallPlay
\* (also through wallResetOthers and the GoToLocked auto-play) clears the
\* lock of the instance it plays, and a wall key press, the only way to
\* wallLock without the mouse, is dropped off the wall.
PlayedUnlocked == ~onWall => ~locks[current]

\* wallPlay's effects make the played instance current and unlocked.
LEMMA PlayEffectsUnlock ==
    ASSUME NEW id \in Inst, locks \in [Inst -> BOOLEAN], PlayEffects(id)
    PROVE  PlayedUnlocked'
BY DEF PlayEffects, PlayedUnlocked

\* With the keyboard only, PlayedUnlocked holds in every reachable state.
LEMMA PlayedUnlockedHolds ==
    ASSUME ~UseMouse
    PROVE  Spec => [](TypeOK /\ clicks = <<>> /\ PlayedUnlocked)
<1>1. Init => PlayedUnlocked
  BY DEF Init, PlayedUnlocked
<1>2. TypeOK /\ clicks = <<>> /\ PlayedUnlocked /\ [Next]_vars => PlayedUnlocked'
  <2> SUFFICES ASSUME TypeOK, clicks = <<>>, PlayedUnlocked, [Next]_vars
               PROVE PlayedUnlocked'
    OBVIOUS
  <2>1. ASSUME NEW i \in Inst, Body(i), Dispatched PROVE PlayedUnlocked'
    <3>0. onWall
      BY <2>1 DEF Dispatched
    <3>1. CASE Play(i) \/ ResetOthers(i)
      BY <3>1, PlayEffectsUnlock DEF Play, ResetOthers, TypeOK
    <3>2. CASE Lock(i)
      BY <3>0, <3>2 DEF Lock, PlayedUnlocked
    <3>3. CASE ResetInstance(i)
      BY <3>3 DEF ResetInstance, PlayedUnlocked
    <3> QED
      BY <2>1, <3>1, <3>2, <3>3 DEF Body
  <2>2. ASSUME NEW i \in Inst,
               \/ HandleForceFreeze(i) \/ HandleToFreeze(i) \/ HandleLogUpdate(i)
               \/ GameReset(i) \/ GameAdvance(i)
        PROVE PlayedUnlocked'
    BY <2>2 DEF HandleForceFreeze, HandleToFreeze, HandleLogUpdate,
                GameReset, GameAdvance, wallVars, PlayedUnlocked
  <2>3. CASE ResetAll
    BY <2>3 DEF ResetAll, PlayedUnlocked
  <2>4. CASE ResetCurrent
    <3> DEFINE lockedIdle == {k \in Inst : locks[k] /\
                               [states EXCEPT ![current] = "Generating"][k] = "Idle"}
    <3>1. CASE GoToLocked /\ lockedIdle # {}
      <4>1. PICK idx \in lockedIdle : PlayEffects(idx)
        BY <2>4, <3>1 DEF ResetCurrent
      <4> QED
        BY <4>1, PlayEffectsUnlock DEF TypeOK
    <3>2. CASE ~(GoToLocked /\ lockedIdle # {})
      BY <2>4, <3>2 DEF ResetCurrent, PlayedUnlocked
    <3> QED
      BY <3>1, <3>2
  <2>5. CASE CurrentTimerFires \/ ClickRefused \/ \E i \in Inst, op \in Ops : Click(i, op)
    BY <2>5 DEF CurrentTimerFires, ClickRefused, Click, PlayedUnlocked
  <2>6. CASE UNCHANGED vars
    BY <2>6 DEF vars, wallVars, PlayedUnlocked
  <2> QED
    BY <2>1, <2>2, <2>3, <2>4, <2>5, <2>6, NextCases
<1> QED
  BY <1>1, <1>2, NoClicks, PTL DEF Spec

\* Sending the reset key to the instances of S leaves every other
\* instance's key unsent.
LEMMA SendResetSkips ==
    ASSUME NEW S, NEW i \in Inst, i \notin S, ~resetKey[i], SendReset(S)
    PROVE  ~resetKey'[i]
BY DEF SendReset

\* With the keyboard only, no step sends a reset key to a locked instance:
\* wallResetInstance, wallResetOthers and the reset-all goroutines only
\* reset instances that CanReset admits, which excludes locked ones, and
\* the reset of the played instance while playing hits an unlocked
\* instance by PlayedUnlocked.  With the mouse, a queued lock click can
\* lock the played instance, which the reset key then resets.
THEOREM LockedNeverReset == ASSUME ~UseMouse PROVE Spec => NoResetOfLocked
<1>1. TypeOK /\ PlayedUnlocked /\ [Next]_vars
        => \A i \in Inst : locks[i] /\ ~resetKey[i] => ~resetKey'[i]
  <2> SUFFICES ASSUME TypeOK, PlayedUnlocked, [Next]_vars,
                      NEW i \in Inst, locks[i], ~resetKey[i]
               PROVE ~resetKey'[i]
    OBVIOUS
  <2>1. ASSUME NEW j \in Inst, ResetInstance(j) PROVE ~resetKey'[i]
    <3>1. i \notin {j} /\ SendReset({j})
      BY <2>1 DEF ResetInstance, CanReset
    <3> QED
      BY <3>1, SendResetSkips
  <2>2. ASSUME NEW j \in Inst, ResetOthers(j) PROVE ~resetKey'[i]
    <3>1. i \notin {k \in Inst \ {j} : CanReset(k)}
      BY DEF CanReset
    <3> QED
      BY <2>2, <3>1, SendResetSkips DEF ResetOthers
  <2>3. CASE ResetAll
    <3>1. i \notin {k \in Inst : CanReset(k)}
      BY DEF CanReset
    <3>2. SendReset({k \in Inst : CanReset(k)})
      BY <2>3 DEF ResetAll
    <3> QED
      BY <3>1, <3>2, SendResetSkips
  <2>4. CASE ResetCurrent
    <3>1. i \notin {current} /\ SendReset({current})
      BY <2>4 DEF ResetCurrent, PlayedUnlocked
    <3> QED
      BY <3>1, SendResetSkips
  <2>5. ASSUME NEW j \in Inst, GameReset(j) PROVE ~resetKey'[i]
    BY <2>5 DEF GameReset, TypeOK
  <2>6. ASSUME NEW j \in Inst,
               \/ HandleForceFreeze(j) \/ HandleToFreeze(j) \/ HandleLogUpdate(j)
               \/ Play(j) \/ Lock(j) \/ GameAdvance(j)
        PROVE ~resetKey'[i]
    BY <2>6 DEF HandleForceFreeze, HandleToFreeze, HandleLogUpdate, Play, Lock,
                GameAdvance
  <2>7. CASE CurrentTimerFires \/ ClickRefused \/ \E j \in Inst, op \in Ops : Click(j, op)
    BY <2>7 DEF CurrentTimerFires, ClickRefused, Click, envVars
  <2>8. CASE UNCHANGED vars
    BY <2>8 DEF vars, envVars
  <2> QED
    BY <2>1, <2>2, <2>3, <2>4, <2>5, <2>6, <2>7, <2>8, NextCases DEF Body
<1> QED
  BY <1>1, PlayedUnlockedHolds, PTL DEF Spec, NoResetOfLocked

=============================================================================
