# Formal models of resetti

These are TLA+ models of the concurrent parts of resetti, a multi-instance Minecraft reset tool. TLC model-checks them, and TLAPS proves the main invariants for every value of the constants. The Go source lives under `src/`. Each module below names the functions it models, and `PROJECT.json` maps every definition to its source lines.

## The system and how its parts interact

- **Wall orchestrator.** `src/internal/mc/mc.go`, `ResetWall` and the `wall*` helpers.
  - One goroutine owns `wallState`. It selects over:
    - `forceFreeze`: ids sent by sleeping timer goroutines 500 ms after a reset that exceeds `ConcResets`;
    - `toFreeze`: ids sent `FreezeDelay` after an instance goes Idle;
    - the merged log-update channel;
    - X key and pointer events.
  - User commands are: play, reset, reset others, lock, reset all (one goroutine per instance, joined by a WaitGroup), and reset while playing.
  - A wall key press is handled only while the wall is shown. With `conf.Wall.UseMouse` the pointer is grabbed on the wall, and the pointer cases of the loop call `wallHandleEvent` with no `onWall` check. A click queued before `wallPlay` ungrabbed the pointer is therefore handled after it.
  - A reset while playing that exceeds the cap starts a timer goroutine that reads `w.current` only when it wakes, 500 ms later.
  - The loop freezes (SIGSTOP) and unfreezes (SIGCONT) game processes and sets their CPU affinity.
  - Force-frozen ids wait in the buffered `toUnfreeze` channel. Only the loop sends to it and only the loop receives from it.
- **Instance Manager.** `src/internal/mc/instance.go`.
  - `Manager.Run` handles state-file writes. Under `m.mu` it applies the reader's state, resolves `stWorld` to Ingame or Idle by `m.active`, and sends an `Update` on `evtch` before unlocking.
  - `Reset` and `Play` run on the controller's goroutine and take `m.mu`.
- **Controller.** `src/manager/worker.go`, `Run` and `Controller.run`.
  - It starts the reset counter, the manager and the input manager.
  - Its loop consumes manager events and user inputs. The frontend then calls `ResetInstance` or `PlayInstance`.
  - On return it cancels the context and waits on a WaitGroup.
- **Reset counter.** `worker.go`, `counter`.
  - `ResetInstance` sends on a 64-slot channel. The counter goroutine adds each increment and rewrites the count file at most once a second.
  - On cancellation it drains the channel, then writes and calls `wg.Done`.
- **Worker.** `worker.go`, lines 1-267. It is a per-instance log watcher.
  - `Start` takes `w.active` with TryLock, opens the log, reads it whole and starts `run`.
  - `run` selects over watcher events and the unbuffered `stop` channel.
  - `updateState` checks the new state without the mutex, then locks and applies it. `Focus` takes the same mutex.
- **Input manager.** `worker.go`, `inputManager.Run`.
  - Every tick it queries the keymap and the pointer, and collects the binds whose keys and buttons are all held, in Go's map iteration order.
  - It sorts them with its own comparator, sends the first on `inputs` with a `Held` flag (was it among the binds pressed last tick?), and remembers the pressed binds.

## Modules

| Module | Models | State | Actions |
|---|---|---|---|
| `Wall` | mc.go `ResetWall`, `wallHandleEvent`, `wallPlay`, `wallResetInstance`, `wallResetOthers`, `wallLock`, `wallHandleResetKey`, `wallGetResettingCount` | `wallState` fields; `toUnfreeze` as a sequence; pending timer goroutines as per-id counts, plus `curFreeze` for the reset-while-playing timers that read `w.current` late; `clicks`, the queued pointer events; the environment: `suspended` (SIGSTOP), `affinity`, `game` phase, queued reset key, undelivered log updates | one per select case (`HandleForceFreeze`, `HandleToFreeze`, `HandleLogUpdate`, `KeyEvent`, `HandleClick`) and for the reset key (`ResetAll`, `ResetCurrent`); the handlers `Play`, `ResetInstance`, `ResetOthers`, `Lock` are reached through `wallHandleEvent`; `CurrentTimerFires` for the late timer; `Click` for the user; `GameReset` and `GameAdvance` for the game processes |
| `Manager` | instance.go `Manager.Run`, `Reset`, `Play`, `NewManager`; worker.go `Controller.run` | instance types, the progress > 85 flag, the grace flag, `m.active`, who holds `m.mu`, `Manager.Run`'s pc, items in `evtch`, the controller's pc | `LogWrite`, `SendUpdate`, `CtlUpdate`, `CtlInput`, `Reset`, `Play`, `GraceEnds` |
| `Counter` | worker.go `counter`, `Run`'s defers and `go c.counter.Run`, `ResetInstance`, `Controller.run`'s return | channel fill, count, file contents, a "more than a second" flag, the goroutine's pc, the WaitGroup counter, the controller's pc | `ResetInstance`, `Tick`, `Spawn` (wg.Add), `Receive`, `Cancelled`, `DrainOne`, `DrainEnd`, `Shutdown`, `Exit` |
| `InputManager` | worker.go `inputManager.Run` | held keys and buttons, `i.lastBinds`, the last input sent, and the previous winner (history, for the property) | `PollNone` (no bind pressed), `PollSend` (sort and send); `PressKey`, `ReleaseKey`, `PressButton`, `ReleaseButton` for the user |
| `ResetLedger` | no code: what the counter promises | the resets counted, the number saved in the file, the controller's phase | `Count`, `Save`, `Stop`, `Exit` |
| `Worker` | worker.go `Worker.Start`, `Stop`, `run`, `Focus`, `readState`, `updateState` | instance state, `w.active` held, the run goroutine's pc, the state updateState read, the last unread and last overall log marker, window focus, the caller's pc | `Start` (success or error return), `StopSend`/`StopRecv`/`StopReply`/`StopClose`, `RunFail`, `Focus`, `UpdateCheck` (unlocked checks), `UpdateApply` (locked part), `GameLog`, `LoseFocus` |

An action models a whole handler. For example, `HandleLogUpdate` covers the schedule of the idle freeze, the non-blocking unfreeze, the state store and the affinity update, in the code's order. A Go mutex critical section is one step. An unlocked read that is used after the lock is taken is a separate step (`UpdateCheck`, then `UpdateApply`). A blocking channel send is a guard on the sender's next step (`SendUpdate`, `Increment`, the `toUnfreeze` send in `HandleForceFreeze`).

The sort in `inputManager.Run` is `golang.org/x/exp/slices.SortFunc`. Its pattern-defeating quicksort handles slices of at most 12 elements by insertion sort. `SortFunc` in `InputManager.tla` is that insertion sort, with the inner loop as the RECURSIVE `SinkLeft`, run on every order `SetToSeqs` gives. A failed X query (`continue`) changes no state, so it is a stutter step.

Data is abstracted. Log lines are a marker or an update record. Time is a flag: "a second has passed" for the counter, "within the grace period" for the manager. Preview progress is a Boolean. X, OBS and key presses are left out, except the reset key the game consumes.

The `*Lost`, `*NoLockRule`, `*DoubleDone`, `*Raw` and similar operators are fault variants of the definition that follows each of them. Each is the code with one plausible bug. They are used only as mutants, and each makes TLC report the corresponding property violated.

## Runs

| Run | Expect | What it shows |
|---|---|---|
| `MCWall_safety` | pass | Keyboard only, with cap 1, idle freezing and GoToLocked: at most one instance is Ingame; every force-frozen instance is queued for unfreezing; no step sends a reset key to a locked instance (action property). About 2.2M states, 1.5 min. |
| `MCWall_liveness` | pass | With the mouse, affinity and GoToLocked, without cap and freezing: every reset the wall sees completes under the fairness below, and a locked previewing instance stays in the high CPU class. |
| `MCWall_played_frozen` | violation | A forced freeze SIGSTOPs the instance being played (mc.go:576). |
| `MCWall_reset_stuck` | violation | With the cap, all resetting instances get force-frozen and nothing unfreezes them (mc.go:956). |
| `MCWall_idle_freeze_stale` | violation | A stale Idle update overwrites Generating; the idle freeze stops a generating game (mc.go:630). |
| `MCWall_mouse_double_play` | violation | With the mouse, a play click queued before `wallPlay` ungrabbed the pointer is handled after it: a second instance becomes Ingame (mc.go:697). |
| `MCCounter` | pass | The finished counter has written every counted reset; `wg.Wait` always returns; the counter implements the abstract `ResetLedger` (`LedgerSpec`, see below). |
| `MCCounter_final` | violation | The process exits before `wg.Add(1)` has run and skips the final write (worker.go:361). |
| `MCManager` | pass | The active instance is never reported Idle, whatever order log writes, resets and plays take. |
| `MCManager_stall` | violation | `evtch <-` under `m.mu` deadlocks with the controller waiting in `Reset`/`Play` (instance.go:153). |
| `MCWorker` | pass | updateState's unlocked check racing `Focus` never demotes Ingame to Ready while `run` runs. A `Stop` called on a running Worker returns unless `run` has meanwhile failed (`StopReturns`). With only weak fairness on the stop case this fails: log writes can keep `run` busy forever. |
| `MCInputManager` | violation | With a one-key-plus-button bind and a two-key bind held together, the sort can rank the one-key bind first, depending on map order (worker.go:758). |

The findings behind the violation runs are described in `PROJECT.json`.

### Bounds

- **Wall.** Two instances. This is the least that shows one instance played while another resets, a cap exceeded, and resets of the others. Each instance holds at most one undelivered log update in the passing runs, and two in the runs that look for a stale update overtaken by a reset. One queued update already lets a reset race an update in flight, and the passing runs are kept at one so that they finish in minutes. There is at most one sleeping timer goroutine per instance and kind. `toUnfreeze` holds 1 or 2 ids instead of the code's 128. In `MCWall_safety` it can fill, and the loop then blocks for good. That run therefore does not check deadlock, and its properties are checked in every state up to the block. At most one click is queued in the liveness run and two in the double-play run, which is the least needed for a click to overtake the wall's state. `ConcResets = 1` is the only cap below the instance count with two instances.
- **Counter.** A channel capacity of 2 makes a full channel reachable, and three resets fill it with one to spare.
- **Manager.** Two instances and an `evtch` of capacity 2: a full channel and a play of the other instance are both reachable.
- **Worker.** No bound; its state space is finite.
- **Input manager.** Two keys, one button and three binds: one key with the button, both keys, and one key alone. This is the least that has overlapping chords and binds that differ in both key and button counts.

### Fairness

- **Wall.** Weak fairness on each select case that has a pending message (force freeze, idle freeze, log update, queued click), and on the wake-up of a sleeping reset-while-playing timer. Go's `select` picks uniformly among ready cases, so a ready case is not ignored forever. A game process that is not stopped keeps progressing and consumes its reset key, so its actions are weakly fair too. User commands are not assumed.
- **Counter.** Weak fairness on the counter goroutine's steps and on `Exit`, because a runnable goroutine is eventually scheduled. Resets, clock ticks and the shutdown are not assumed.
- **Worker.** Strong fairness on `StopRecv`, weak fairness on `StopReply`, `StopClose` and `UpdateApply`. The stop case of `run`'s select is disabled while `updateState` runs, so it is only enabled again and again, not continuously. Go's `select` picks uniformly among ready cases, so a case that is ready infinitely often is taken. The game, the user and the caller are not assumed.

## Proofs (TLAPS)

| Module | Theorem | Statement |
|---|---|---|
| `WallProofs` | `TypeCorrect` | `Spec => []TypeOK`, from `ConstAssumption`: one step per action, with lemmas on `Schedule`, `SendReset`, `PlayEffects` and `UpdateAffinity` |
| `WallProofs` | `OneIngame` | `ASSUME ~UseMouse PROVE Spec => []AtMostOneIngame`. The strengthening adds `TypeOK` and `clicks = <<>>`. Every action that sets Ingame also sets `current` and clears `onWall`, and a wall key press runs only while the wall is shown. A log update never stores Ingame. |
| `WallProofs` | `LockedHigh` | `Spec => []LockedPreviewHigh`, for the mouse too. It is inductive with `TypeOK`: each action that can make an instance locked and previewing sets its affinity by the same rule as `UpdateAffinity`. |
| `WallProofs` | `FrozenAreQueued` | `Spec => []FrozenQueued`, for the mouse too. It is inductive with `TypeOK`. The lemmas `AppendKeepsAll` and `TailKeepsOthers` say that `Append` keeps every queued id and `Tail` keeps every id but the head. |
| `WallProofs` | `LockedNeverReset` | `ASSUME ~UseMouse PROVE Spec => NoResetOfLocked`, from the invariant `PlayedUnlocked` (lemma `PlayedUnlockedHolds`) and the lemma `SendResetSkips` |
| `CounterProofs` | `CounterTypeCorrect`, `DrainedCountCorrect` | `[]TypeOK` and `[]DrainedCountSaved` |
| `CounterProofs` | `CounterRefinesLedger` | `Spec => LedgerSpec`, the refinement below |
| `ManagerProofs` | `ManagerTypeCorrect`, `ActiveNeverIdleHolds` | `[]TypeOK`, and `[]ActiveNeverIdle` with `TypeOK` as the strengthening |
| `WorkerProofs` | `WorkerTypeCorrect`, `RunningKeepsIngameHolds` | `[]TypeOK`, and the action property `RunningKeepsIngame` |

Every Wall proof starts from the lemma `NextCases`. A key press (`KeyEvent`) and a handled click (`HandleClick`) both end in one of the handler bodies `Play`, `ResetInstance`, `ResetOthers` or `Lock`. A key press also requires `onWall`, while a click only takes the head of `clicks`. Otherwise the step is a click that an early return refuses, and it changes nothing but the queue. The lemma `NoClicks` shows that without the mouse the queue stays empty. The keyboard-only theorems need that fact, and `MCWall_mouse_double_play` shows that `AtMostOneIngame` fails without it. `NoResetOfLocked` fails with the mouse too: a queued lock click can lock the instance being played after the wall was left, and the reset key then resets it.

The counter and Worker proofs rest on the inductive invariants `CounterInv` (lemma `CounterInvInductive`) and `WorkerInv` (lemma `WorkerInvInductive`).

- `DrainedCountSaved` alone is not inductive. `CounterInv` adds these facts:
  - every counted reset is in the channel or in the count (`count + inc = StartCount + resets`);
  - the WaitGroup counts exactly the running counter goroutine;
  - the drain starts only after `c.run` returns, and a finished counter has written its whole count and emptied the channel.
- `RunningKeepsIngame` needs `WorkerInv`, which adds these facts:
  - the run goroutine exists only while `w.active` is held;
  - `UpdateApply` is pending with a Ready snapshot only if the state checked was neither Ready nor Ingame. `Focus` cannot change such a state to Ingame before the lock is taken.
- `NoResetOfLocked` needs `PlayedUnlocked`: while the wall is hidden, the instance played last is not locked.
  - `ResetCurrent` sends the reset key to `current` without looking at its lock.
  - `Play`, `ResetOthers` and `ResetCurrent`'s jump to a locked instance all go through `PlayEffects` (`wallPlay`), which unlocks the played instance.
  - Without the mouse, `Lock` only runs from a key press on the wall.
  - Every other action that sends a reset key skips locked instances (`SendResetSkips`).

TLAPS does not prove the following. Only TLC checks them, on the bounds above:

- the liveness properties (`ResetsComplete`, `ShutdownCompletes`), which need fairness and ENABLED, both beyond the prover;
- `StopReturns`, for the same reason;
- the input manager's sort: `SortFunc` is recursive, and what it computes for every input needs induction over data.

### Refinement: the counter implements a reset ledger

`ResetLedger.tla` states what the counter promises, without its channel, goroutine or clock:

- resets are counted one at a time while the controller runs;
- the file moves forward only, to a number of resets already counted;
- nothing is counted after the controller stops, and the file is not written once the process has exited.

`Counter.tla` instantiates it as `Ledger` with `counted <- StartCount + resets`, `saved <- file` and `phase <- ctl`. TLC checks `LedgerSpec == Ledger!Spec` as a property in `MCCounter`. `CounterRefinesLedger` proves it for every start count, capacity and bound:

- `Init` maps to the ledger's initial state;
- under `CounterInv`, `ResetInstance` is `Count`, a write of the file in `Receive`, `DrainOne` or `DrainEnd` is `Save`, `Shutdown` is `Stop`, `Exit` is `Exit`, and every other step is a stutter.

For this, `CounterInv` includes `file =< count`: every write stores a number the count has reached.

## Not modelled

- The OBS client and `ObsSetup` are request/response I/O with no shared state.
- `CmdReset` is sequential start-up that calls packages outside this tree.
- The X queries of the input manager and the `Held` flag's consumers: no frontend in this tree reads `Held`. The poller sets `Held` from all binds pressed at the previous tick, not from the previous winner. `SendsSpecInput` covers that as well as the comparator, but the run's shortest counterexample is the comparator's.
- `Start`'s error returns keep `w.active` locked (worker.go:53-66). Every later `Start` then fails with "worker already running". The Worker model keeps this path (a `Start` that leaves `running` set without a run goroutine). No property treats it as an error: it is sequential, and a unit test of `Start` with a missing log file reaches it.
- `run` sends the stop reply before it closes the watcher and unlocks `w.active` (worker.go:179-181), so a `Start` right after `Stop` returns can fail its TryLock. The model keeps the two steps apart (`StopReply`, then `StopClose`), but the callers of `Start` and `Stop` are not in this tree, so no property says whether they may do that.
- `counter.write` is modelled on its successful path. A failed seek returns before `lastWrite` is set, and a failed or short write is only logged. Every property about the count file assumes that the disk accepts the write.
- The toUnfreeze overflow. `wallPlay` SIGCONTs a force-frozen instance but leaves `wall.frozen` set and its id in `toUnfreeze` (mc.go:806). The ids pile up until the 128-slot channel is full, and then the loop blocks on a send to its own channel (mc.go:581). The model has the channel and the block. No run checks it, because it needs more than a hundred such plays at the real capacity.
- `Manager.Run` sends on `evtch` whenever the reader reports an update. spec.md says an update that leaves the phase as it was produces no notification. The model follows the code.
- The log readers (`startLogReaders`, `stateReader.Process`) are not in `src/`. Their behaviour is modelled from the spec and marked `spec_modelled`: updates come in file order, and a reader yields Dirt, Preview or World.
- A restarted Worker re-reads the whole log and sets the last marker's state without updateState's Ingame rule (worker.go:67). The re-read is modelled, but the spec does not settle whether a restart may demote Ingame, so no property checks it.
- `Worker.Stop` hangs if `run` has already returned, as its comment admits. `StopSend` is enabled only while `run` runs, and `StopReturns` names the one remaining hang: a watcher failure after the caller's decision. The callers are not in this tree, so whether one can stop a failed Worker is not checked.

## Plan

1. Compose the Worker with the Manager's view of the same instance.
