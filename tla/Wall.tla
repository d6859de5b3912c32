-------------------------------- MODULE Wall --------------------------------
(***************************************************************************)
(* The wall orchestrator of resetti (src/internal/mc/mc.go, ResetWall and   *)
(* the wall* helpers): one goroutine owning wallState, selecting over the   *)
(* forceFreeze and toFreeze channels, the merged log-update channel and the *)
(* user's key and pointer events.  Timer goroutines that sleep and then     *)
(* send an instance id (forced freeze after 500 ms, idle freeze after       *)
(* FreezeDelay) are modelled as per-instance counts of pending sends.       *)
(*                                                                         *)
(* The environment is modelled too, because the hazards live between the   *)
(* wall and it: each game process advances Generating -> Preview -> world  *)
(* loaded only while it is not SIGSTOPped, consumes the reset key that the  *)
(* wall sends through X, and its log reader delivers updates in file order. *)
(***************************************************************************)
EXTENDS Naturals, Sequences, FiniteSets

CONSTANTS
    N,           \* number of instances; ids are 0..N-1 (FindInstances)
    ConcResets,  \* conf.AdvancedWall.ConcResets, 0 disables the cap
    Freeze,      \* conf.AdvancedWall.Freeze: freeze instances that go idle
    Affinity,    \* conf.AdvancedWall.Affinity: per-class CPU affinity
    GoToLocked,  \* conf.Wall.GoToLocked: after a reset, play a locked idle instance
    UseMouse,    \* conf.Wall.UseMouse: the pointer is grabbed on the wall
    LogCap,      \* model bound: undelivered log updates per instance
    MaxPending,  \* model bound: sleeping timer goroutines per instance and kind
    QueueCap,    \* capacity of the toUnfreeze channel (128 in the code)
    ClickCap     \* model bound: pointer events queued in the X event stream

ASSUME ConstAssumption ==
    /\ N \in Nat \ {0}
    /\ ConcResets \in Nat
    /\ Freeze \in BOOLEAN
    /\ Affinity \in BOOLEAN
    /\ GoToLocked \in BOOLEAN
    /\ UseMouse \in BOOLEAN
    /\ LogCap \in Nat \ {0}
    /\ MaxPending \in Nat \ {0}
    /\ QueueCap \in Nat \ {0}
    /\ ClickCap \in Nat \ {0}

Inst == 0..N-1

\* Public instance states as the wall sees them (InstanceState.State).
Phases == {"Idle", "Generating", "Preview", "Ingame"}
\* A log update (LogUpdate): the state and whether preview progress has
\* reached conf.AdvancedWall.LowThreshold.
Updates == [st : {"Generating", "Preview", "Idle"}, hi : BOOLEAN]
\* What the game process is really doing.
GamePhases == {"Generating", "PreviewLow", "PreviewHigh", "Loaded"}
\* CPU sets applied with sched_setaffinity ("none": never set).
Classes == {"none", "idle", "low", "high", "active"}
\* The wall commands wallHandleEvent dispatches on by modifier.
Ops == {"play", "reset", "others", "lock"}
\* A click or drag over the cell of an instance, with its modifiers.
Clicks == [id : Inst, op : Ops]

VARIABLES
    \* wallState
    states,      \* wall.states[id].State
    locks,       \* wall.locks
    frozen,      \* wall.frozen
    current,     \* wall.current
    onWall,      \* wall.onWall
    toUnfreeze,  \* the toUnfreeze channel (FIFO of ids)
    forceFreeze, \* pending sends on forceFreeze, per id (sleeping + buffered)
    toFreeze,    \* pending sends on toFreeze, per id (sleeping + buffered)
    curFreeze,   \* sleeping forced-freeze goroutines of wallHandleResetKey,
                 \* which read w.current only when they wake
    clicks,      \* pointer events in the X event stream, not yet handled
    blocked,     \* the loop is stuck sending on its own full toUnfreeze channel
    \* environment
    suspended,   \* the process is stopped by SIGSTOP and not yet SIGCONTed
    affinity,    \* the CPU class last applied to the process
    game,        \* the game's real phase
    resetKey,    \* a reset key press is queued for the window
    logUpdates   \* per-instance log updates not yet received by the loop

wallVars == <<states, locks, frozen, current, onWall, toUnfreeze,
              forceFreeze, toFreeze, curFreeze, clicks, blocked>>
envVars == <<suspended, affinity, game, resetKey, logUpdates>>
vars == <<wallVars, envVars>>

-----------------------------------------------------------------------------
(* Helpers *)

\* wallGetResettingCount over a states vector st.
ResettingCount(st) ==
    Cardinality({i \in Inst : st[i] \in {"Generating", "Preview"}})

\* The condition under which wallResetInstance schedules a forced freeze.
OverCap(st) == ConcResets # 0 /\ ResettingCount(st) > ConcResets

\* Start one timer goroutine for every id in S.
Schedule(pending, S) == [i \in Inst |-> IF i \in S THEN pending[i] + 1
                                                   ELSE pending[i]]

\* A goroutine can be started for every id in S (model bound).
CanSchedule(pending, S) == \A i \in S : pending[i] < MaxPending

\* Fault variant of SendReset: the key press is lost.
SendResetLost(S) == UNCHANGED resetKey

\* v14_reset: the reset key is sent to the window of every id in S.
SendReset(S) == resetKey' = [k \in Inst |-> resetKey[k] \/ k \in S]

\* Fault variant of PlayEffects: without `w.onWall = false`.
PlayEffectsStayOnWall(id) ==
    /\ affinity' = IF Affinity THEN [affinity EXCEPT ![id] = "active"]
                               ELSE affinity
    /\ locks' = [locks EXCEPT ![id] = FALSE]
    /\ onWall' = TRUE
    /\ current' = id

\* The post-state of wallPlay on id, other than states and suspended.
PlayEffects(id) ==
    /\ affinity' = IF Affinity THEN [affinity EXCEPT ![id] = "active"]
                               ELSE affinity
    /\ locks' = [locks EXCEPT ![id] = FALSE]
    /\ onWall' = FALSE
    /\ current' = id

-----------------------------------------------------------------------------
Init ==
    /\ states = [i \in Inst |-> "Idle"]
    /\ locks = [i \in Inst |-> FALSE]
    /\ frozen = [i \in Inst |-> FALSE]
    /\ current = 0
    /\ onWall = TRUE
    /\ toUnfreeze = <<>>
    /\ forceFreeze = [i \in Inst |-> 0]
    /\ toFreeze = [i \in Inst |-> 0]
    /\ curFreeze = 0
    /\ clicks = <<>>
    /\ blocked = FALSE
    /\ suspended = [i \in Inst |-> FALSE]
    /\ affinity = [i \in Inst |-> "none"]
    /\ game = [i \in Inst |-> "Loaded"]
    /\ resetKey = [i \in Inst |-> FALSE]
    /\ logUpdates = [i \in Inst |-> <<>>]

-----------------------------------------------------------------------------
(* The wall's main loop: one action per select case and per user command. *)

\* case id := <-wall.forceFreeze: SIGSTOP, queue for unfreezing, flag.  The
\* loop itself is the only receiver of toUnfreeze, so a send on the full
\* channel blocks it for good.
HandleForceFreeze(id) ==
    /\ forceFreeze[id] > 0
    /\ suspended' = [suspended EXCEPT ![id] = TRUE]
    /\ forceFreeze' = [forceFreeze EXCEPT ![id] = @ - 1]
    /\ IF Len(toUnfreeze) < QueueCap
       THEN /\ toUnfreeze' = Append(toUnfreeze, id)
            /\ frozen' = [frozen EXCEPT ![id] = TRUE]
            /\ UNCHANGED blocked
       ELSE /\ blocked' = TRUE
            /\ UNCHANGED <<toUnfreeze, frozen>>
    /\ UNCHANGED <<states, locks, current, onWall, toFreeze, curFreeze, clicks,
                   affinity, game, resetKey, logUpdates>>

\* case id := <-wall.toFreeze: SIGSTOP the instance if it is (still) idle.
HandleToFreeze(id) ==
    /\ toFreeze[id] > 0
    /\ toFreeze' = [toFreeze EXCEPT ![id] = @ - 1]
    /\ suspended' = IF states[id] = "Idle"
                    THEN [suspended EXCEPT ![id] = TRUE] ELSE suspended
    /\ UNCHANGED <<blocked, states, locks, frozen, current, onWall, toUnfreeze,
                   forceFreeze, curFreeze, clicks, affinity, game, resetKey,
                   logUpdates>>

\* Fault variant of UpdateAffinity: without the rule for locked instances.
UpdateAffinityNoLockRule(id, u) ==
    CASE u.st = "Generating" -> "high"
      [] u.st = "Preview"    -> IF u.hi THEN "low" ELSE affinity[id]
      [] u.st = "Idle"       -> "idle"

\* The CPU class chosen for an instance on log update u.
UpdateAffinity(id, u) ==
    IF locks[id] /\ u.st # "Idle" THEN "high"
    ELSE CASE u.st = "Generating" -> "high"
           [] u.st = "Preview"    -> IF u.hi THEN "low" ELSE affinity[id]
           [] u.st = "Idle"       -> "idle"

\* Fault variant of UnfreezeOldest: without `wall.frozen[id] = false`.
UnfreezeOldestKeepFlag ==
    /\ toUnfreeze' = Tail(toUnfreeze)
    /\ suspended' = [suspended EXCEPT ![Head(toUnfreeze)] = FALSE]
    /\ UNCHANGED frozen

\* The non-blocking receive on toUnfreeze when an instance goes idle:
\* SIGCONT the oldest force-frozen instance and clear its flag.
UnfreezeOldest ==
    /\ toUnfreeze' = Tail(toUnfreeze)
    /\ suspended' = [suspended EXCEPT ![Head(toUnfreeze)] = FALSE]
    /\ frozen' = [frozen EXCEPT ![Head(toUnfreeze)] = FALSE]

\* case update := <-logUpdates: schedule an idle freeze, unfreeze the oldest
\* force-frozen instance when one goes idle, store the state, set affinity.
HandleLogUpdate(id) ==
    /\ logUpdates[id] # <<>>
    /\ LET u == Head(logUpdates[id])
           goesIdle == u.st = "Idle"
           wake == ConcResets > 0 /\ goesIdle /\ toUnfreeze # <<>>
       IN /\ Freeze /\ goesIdle => toFreeze[id] < MaxPending
          /\ toFreeze' = IF Freeze /\ goesIdle
                         THEN [toFreeze EXCEPT ![id] = @ + 1] ELSE toFreeze
          /\ IF wake THEN UnfreezeOldest
                     ELSE UNCHANGED <<toUnfreeze, suspended, frozen>>
          /\ states' = [states EXCEPT ![id] = u.st]
          /\ affinity' = IF Affinity
                         THEN [affinity EXCEPT ![id] = UpdateAffinity(id, u)]
                         ELSE affinity
          /\ logUpdates' = [logUpdates EXCEPT ![id] = Tail(@)]
    /\ UNCHANGED <<blocked, locks, current, onWall, forceFreeze, curFreeze,
                   clicks, game, resetKey>>

\* wallPlay(id): only an idle instance is played.
Play(id) ==
    /\ states[id] = "Idle"
    /\ suspended' = [suspended EXCEPT ![id] = FALSE]
    /\ states' = [states EXCEPT ![id] = "Ingame"]
    /\ PlayEffects(id)
    /\ UNCHANGED <<blocked, frozen, toUnfreeze, forceFreeze, toFreeze, curFreeze,
                   game, resetKey, logUpdates>>

\* Fault variant of CanReset: without the `w.locks[id]` check.
CanResetIgnoringLock(id) == ~frozen[id] /\ states[id] # "Generating"

\* wallResetInstance may reset id: not locked, not force-frozen, not generating.
CanReset(id) ==
    ~locks[id] /\ ~frozen[id] /\ states[id] # "Generating"

\* wallResetInstance(id): the reset key, Generating, and a forced freeze
\* 500 ms later if the resetting count exceeds the cap.
ResetInstance(id) ==
    /\ CanReset(id)
    /\ LET st == [states EXCEPT ![id] = "Generating"]
           S == IF OverCap(st) THEN {id} ELSE {}
       IN /\ CanSchedule(forceFreeze, S)
          /\ forceFreeze' = Schedule(forceFreeze, S)
          /\ states' = st
    /\ suspended' = [suspended EXCEPT ![id] = FALSE]
    /\ SendReset({id})
    /\ UNCHANGED <<blocked, locks, frozen, current, onWall, toUnfreeze, toFreeze,
                   curFreeze, affinity, game, logUpdates>>

\* wallResetOthers(id): wallPlay(id), then wallResetInstance on every other
\* id in index order; each reset counts the states the earlier ones left.
ResetOthers(id) ==
    /\ states[id] = "Idle"
    /\ LET R == {j \in Inst \ {id} : CanReset(j)}
           StAfter(j) == [k \in Inst |->
                            IF k = id THEN "Ingame"
                            ELSE IF k \in R /\ k =< j THEN "Generating"
                            ELSE states[k]]
           S == {j \in R : OverCap(StAfter(j))}
       IN /\ CanSchedule(forceFreeze, S)
          /\ forceFreeze' = Schedule(forceFreeze, S)
          /\ states' = StAfter(N)
          /\ suspended' = [k \in Inst |->
                             IF k = id \/ k \in R THEN FALSE ELSE suspended[k]]
          /\ SendReset(R)
    /\ PlayEffects(id)
    /\ UNCHANGED <<blocked, frozen, toUnfreeze, toFreeze, curFreeze, game,
                   logUpdates>>

\* wallLock(id): toggle the lock; locking a previewing instance raises it to
\* the high class (the syscall fails on the empty set when affinity is off).
Lock(id) ==
    /\ locks' = [locks EXCEPT ![id] = ~@]
    /\ affinity' = IF locks'[id] /\ states[id] = "Preview" /\ Affinity
                   THEN [affinity EXCEPT ![id] = "high"] ELSE affinity
    /\ UNCHANGED <<blocked, states, frozen, current, onWall, toUnfreeze, forceFreeze,
                   toFreeze, curFreeze, suspended, game, resetKey, logUpdates>>

\* wallHandleResetKey on the wall: one goroutine per unlocked, non-generating
\* instance runs wallResetInstance, and the loop waits for all of them.  The
\* goroutines write and count wall.states concurrently (a data race), so each
\* one's count sees its own write and any subset of the others'.
ResetAll ==
    /\ onWall
    /\ LET R == {i \in Inst : CanReset(i)}
           base == ResettingCount([k \in Inst |->
                                     IF k \in R THEN "Idle" ELSE states[k]])
           previews == {k \in R : states[k] = "Preview"}
           \* fewest and most resetting instances goroutine i can count
           low(i) == base + 1 + Cardinality(previews \ {i})
           high == base + Cardinality(R)
       IN \E S \in SUBSET R :
            /\ \A i \in R : ConcResets # 0 /\ low(i) > ConcResets => i \in S
            /\ S # {} => ConcResets # 0 /\ high > ConcResets
            /\ CanSchedule(forceFreeze, S)
            /\ forceFreeze' = Schedule(forceFreeze, S)
            /\ states' = [k \in Inst |-> IF k \in R THEN "Generating"
                                                    ELSE states[k]]
            /\ suspended' = [k \in Inst |-> suspended[k] /\ k \notin R]
            /\ SendReset(R)
    /\ UNCHANGED <<blocked, locks, frozen, current, onWall, toUnfreeze, toFreeze,
                   curFreeze, clicks, affinity, game, logUpdates>>

\* wallHandleResetKey while playing: reset the current instance without any
\* check, then wallGotoWall, or with GoToLocked play the first locked idle
\* instance instead.  Over the cap a timer goroutine is started that reads
\* w.current only when it wakes, 500 ms later (CurrentTimerFires).
ResetCurrent ==
    /\ ~onWall
    /\ LET st == [states EXCEPT ![current] = "Generating"]
           lockedIdle == {k \in Inst : locks[k] /\ st[k] = "Idle"}
       IN /\ OverCap(st) => curFreeze < MaxPending
          /\ curFreeze' = IF OverCap(st) THEN curFreeze + 1 ELSE curFreeze
          /\ SendReset({current})
          /\ IF GoToLocked /\ lockedIdle # {}
             THEN \E idx \in lockedIdle :
                     /\ \A k \in lockedIdle : idx =< k
                     /\ states' = [st EXCEPT ![idx] = "Ingame"]
                     /\ suspended' = [suspended EXCEPT ![idx] = FALSE]
                     /\ PlayEffects(idx)
             ELSE /\ states' = st
                  /\ onWall' = TRUE
                  /\ UNCHANGED <<suspended, affinity, locks, current>>
    /\ UNCHANGED <<blocked, frozen, toUnfreeze, forceFreeze, toFreeze, clicks,
                   game, logUpdates>>

\* The timer goroutine of ResetCurrent wakes and sends the instance that is
\* current at that moment, which is the one played since if GoToLocked
\* played a locked instance.  It runs beside the loop, blocked or not.
CurrentTimerFires ==
    /\ curFreeze > 0
    /\ forceFreeze[current] < MaxPending
    /\ forceFreeze' = [forceFreeze EXCEPT ![current] = @ + 1]
    /\ curFreeze' = curFreeze - 1
    /\ UNCHANGED <<blocked, states, locks, frozen, current, onWall, toUnfreeze,
                   toFreeze, clicks, suspended, affinity, game, resetKey,
                   logUpdates>>

\* wallHandleEvent: the modifier held with the key or the click picks the
\* operation on instance id.
wallHandleEvent(id, op) ==
    \/ op = "play" /\ Play(id)
    \/ op = "reset" /\ ResetInstance(id)
    \/ op = "others" /\ ResetOthers(id)
    \/ op = "lock" /\ Lock(id)

\* A wall key press: the loop drops it unless the wall is shown.
KeyEvent(id, op) ==
    /\ onWall
    /\ wallHandleEvent(id, op)
    /\ UNCHANGED clicks

\* The user clicks (or drags onto) instance id while the wall has grabbed
\* the pointer; X queues the event for the loop.
Click(id, op) ==
    /\ UseMouse
    /\ onWall
    /\ Len(clicks) < ClickCap
    /\ clicks' = Append(clicks, [id |-> id, op |-> op])
    /\ UNCHANGED <<blocked, states, locks, frozen, current, onWall, toUnfreeze,
                   forceFreeze, toFreeze, curFreeze, suspended, affinity, game,
                   resetKey, logUpdates>>

\* The early returns of wallPlay, wallResetInstance and wallResetOthers.
Refused(c) ==
    \/ c.op \in {"play", "others"} /\ states[c.id] # "Idle"
    \/ c.op = "reset" /\ ~CanReset(c.id)

\* The loop takes a queued pointer event and calls wallHandleEvent with no
\* check of wall.onWall: a click queued before wallPlay ungrabbed the
\* pointer is still handled after it.
HandleClick ==
    /\ clicks # <<>>
    /\ clicks' = Tail(clicks)
    /\ LET c == Head(clicks) IN
       \/ wallHandleEvent(c.id, c.op)
       \/ /\ Refused(c)
          /\ UNCHANGED <<blocked, states, locks, frozen, current, onWall,
                         toUnfreeze, forceFreeze, toFreeze, curFreeze,
                         suspended, affinity, game, resetKey, logUpdates>>

-----------------------------------------------------------------------------
(* The game processes and their log readers (environment). *)

\* The game writes a log line; its reader queues the update.
Log(i, u) == logUpdates' = [logUpdates EXCEPT ![i] = Append(@, u)]

GameStep(i, from, to, u) ==
    /\ ~suspended[i]
    /\ game[i] \in from
    /\ Len(logUpdates[i]) < LogCap
    /\ game' = [game EXCEPT ![i] = to]
    /\ Log(i, u)

\* The game consumes a queued reset key and starts generating a new world;
\* while it is already generating the key does nothing.
GameReset(i) ==
    /\ resetKey[i]
    /\ resetKey' = [resetKey EXCEPT ![i] = FALSE]
    /\ \/ GameStep(i, GamePhases \ {"Generating"}, "Generating",
                   [st |-> "Generating", hi |-> FALSE])
       \/ /\ ~suspended[i] /\ game[i] = "Generating"
          /\ UNCHANGED <<game, logUpdates>>
    /\ UNCHANGED <<wallVars, suspended, affinity>>

\* Generation reaches the preview, progress crosses the low threshold, and
\* the world finishes loading.  Progress is read only by the affinity rule,
\* so without affinity the second preview update is left out: to the wall
\* it is the first one delivered again.
GameAdvance(i) ==
    /\ \/ GameStep(i, {"Generating"}, "PreviewLow",
                   [st |-> "Preview", hi |-> FALSE])
       \/ /\ Affinity
          /\ GameStep(i, {"PreviewLow"}, "PreviewHigh",
                      [st |-> "Preview", hi |-> TRUE])
       \/ GameStep(i, {"PreviewLow", "PreviewHigh"}, "Loaded",
                   [st |-> "Idle", hi |-> FALSE])
    /\ UNCHANGED <<wallVars, suspended, affinity, resetKey>>

-----------------------------------------------------------------------------
WallNext ==
  /\ ~blocked
  /\ \/ \E i \in Inst :
          \/ HandleForceFreeze(i) \/ HandleToFreeze(i) \/ HandleLogUpdate(i)
          \/ \E op \in Ops : KeyEvent(i, op)
     \/ HandleClick
     \/ ResetAll
     \/ ResetCurrent

GameNext == \E i \in Inst : GameReset(i) \/ GameAdvance(i)

UserNext == \E i \in Inst, op \in Ops : Click(i, op)

Next == WallNext \/ CurrentTimerFires \/ GameNext \/ UserNext

\* Go's select picks uniformly among ready cases, so every channel the loop
\* can receive from is eventually served; a running game process makes
\* progress, and a sleeping timer goroutine wakes.  The user's commands are
\* not assumed to happen.
Fairness ==
    /\ WF_vars(HandleClick)
    /\ WF_vars(CurrentTimerFires)
    /\ \A i \in Inst :
        /\ WF_vars(HandleForceFreeze(i))
        /\ WF_vars(HandleToFreeze(i))
        /\ WF_vars(HandleLogUpdate(i))
        /\ WF_vars(GameReset(i))
        /\ WF_vars(GameAdvance(i))

Spec == Init /\ [][Next]_vars
FairSpec == Spec /\ Fairness

-----------------------------------------------------------------------------
(* Properties *)

TypeOK ==
    /\ states \in [Inst -> Phases]
    /\ locks \in [Inst -> BOOLEAN]
    /\ frozen \in [Inst -> BOOLEAN]
    /\ current \in Inst
    /\ onWall \in BOOLEAN
    /\ toUnfreeze \in Seq(Inst)
    /\ forceFreeze \in [Inst -> 0..MaxPending]
    /\ toFreeze \in [Inst -> 0..MaxPending]
    /\ curFreeze \in 0..MaxPending
    /\ clicks \in Seq(Clicks)
    /\ blocked \in BOOLEAN
    /\ suspended \in [Inst -> BOOLEAN]
    /\ affinity \in [Inst -> Classes]
    /\ game \in [Inst -> GamePhases]
    /\ resetKey \in [Inst -> BOOLEAN]
    /\ logUpdates \in [Inst -> Seq(Updates)]

\* At most one instance is ever Ingame: the spec's "at most one instance is
\* Ingame/active at a time", across wallPlay, wallResetOthers and the
\* GoToLocked auto-play of wallHandleResetKey.  An Ingame instance is the
\* current one and the wall view is not shown.
AtMostOneIngame ==
    \A i \in Inst : states[i] = "Ingame" => i = current /\ ~onWall

\* Every instance the forceFreeze handler flagged frozen is still waiting in
\* toUnfreeze, so some later idle update will SIGCONT it and clear the flag
\* (wallResetInstance refuses a frozen instance, so nothing else can).
FrozenQueued ==
    \A i \in Inst : frozen[i] => \E k \in DOMAIN toUnfreeze : toUnfreeze[k] = i

\* A locked instance in the preview is kept in the high CPU class (wallLock
\* and the lock rule of the log-update handler): locking protects it from
\* starving while the user may pick it.
LockedPreviewHigh ==
    Affinity => \A i \in Inst : locks[i] /\ states[i] = "Preview"
                                  => affinity[i] = "high"

\* No step sends a reset key to a locked instance: resetting all, resetting
\* the others and resetting the played instance all skip locked ones.
NoResetOfLocked ==
    [][\A i \in Inst : locks[i] /\ ~resetKey[i] => ~resetKey'[i]]_vars

\* The instance the user is playing is never stopped by SIGSTOP: freezing
\* is meant for instances on the wall.
PlayedNotSuspended ==
    ~onWall => ~suspended[current]

\* Freezing on idle (the toFreeze case) only ever stops a game whose world
\* has loaded; stopping it mid-generation leaves it stuck.
IdleFreezeOnlyLoaded ==
    \A i \in Inst : suspended[i] /\ ~frozen[i] => game[i] = "Loaded"

\* Every reset completes: an instance the wall sees generating eventually
\* leaves that state.
ResetsComplete ==
    \A i \in Inst : states[i] = "Generating" ~> states[i] # "Generating"

=============================================================================
