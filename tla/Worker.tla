------------------------------- MODULE Worker -------------------------------
(***************************************************************************)
(* One Worker of the manager package (src/manager/worker.go, lines 1-267): *)
(* its run goroutine handles the log watcher's events and the stop signal; *)
(* updateState reads the new log lines, checks the instance state without  *)
(* the mutex, then locks it and applies the new state; Focus, called by    *)
(* the owning manager's goroutine, takes the mutex too.  Start and Stop    *)
(* are called by that same goroutine.  The game writes log lines at any    *)
(* time; the window can lose focus at any time.                            *)
(***************************************************************************)
EXTENDS Naturals

\* Log markers readState recognises, by the state they stand for.
Markers == {"Generating", "Preview", "Ready"}
\* mc.InstanceState values.
States == {"Unknown", "Generating", "Preview", "Ready", "Ingame"}
NoMarker == "none"

VARIABLES
    wstate,   \* w.instance.State
    running,  \* w.active is locked
    rpc,      \* the run goroutine: "none", "loop", "apply" (between the
              \* unlocked checks of updateState and its locked part), "reply"
              \* (received the stop signal, sending it back), "closing"
              \* (sent it back; closing the watcher, w.active still locked)
    snap,     \* the state updateState read from the log
    unread,   \* the last marker written since the reader's position
    lastMark, \* the last marker in the whole log
    focused,  \* the instance's window is the active window
    cpc       \* the caller: "idle", "stopping" (sending on w.stop),
              \* "stopwait" (receiving the reply)

vars == <<wstate, running, rpc, snap, unread, lastMark, focused, cpc>>

-----------------------------------------------------------------------------
\* A Worker after SetDeps, before Start; its log may already hold lines.
Init ==
    /\ wstate = "Unknown"
    /\ running = FALSE
    /\ rpc = "none"
    /\ snap = "Unknown"
    /\ unread \in Markers \cup {NoMarker}
    /\ lastMark = unread
    /\ focused \in BOOLEAN
    /\ cpc = "idle"

\* The game writes a line with a marker.
GameLog(m) ==
    /\ unread' = m
    /\ lastMark' = m
    /\ UNCHANGED <<wstate, running, rpc, snap, focused, cpc>>

\* The user focuses another window.
LoseFocus ==
    /\ focused
    /\ focused' = FALSE
    /\ UNCHANGED <<wstate, running, rpc, snap, unread, lastMark, cpc>>

\* Fault variant of StartState: the state of an empty read is not Unknown.
StartStateRaw(m) == m

\* readState over the whole log, as Start's fresh reader does it.
StartState(m) == IF m = NoMarker THEN "Unknown" ELSE m

\* Start: TryLock w.active; open the log, create and add the watcher (each
\* may fail and return, leaving w.active locked); read the whole log and
\* set the state; start run.
Start ==
    /\ cpc = "idle"
    /\ ~running
    /\ running' = TRUE
    /\ \/ UNCHANGED <<wstate, rpc, unread>>
       \/ /\ wstate' = StartState(lastMark)
          /\ unread' = NoMarker
          /\ rpc' = "loop"
    /\ UNCHANGED <<snap, lastMark, focused, cpc>>

\* Stop: send on the unbuffered w.stop ... (called, as its comment asks,
\* only while the run goroutine is running)
StopSend ==
    /\ cpc = "idle"
    /\ rpc \notin {"none", "closing"}
    /\ cpc' = "stopping"
    /\ UNCHANGED <<wstate, running, rpc, snap, unread, lastMark, focused>>

\* ... which run receives in its select ...
StopRecv ==
    /\ cpc = "stopping"
    /\ rpc = "loop"
    /\ cpc' = "stopwait"
    /\ rpc' = "reply"
    /\ UNCHANGED <<wstate, running, snap, unread, lastMark, focused>>

\* Fault variant of StopReply: run goes on to close the watcher without
\* sending the stop signal back.
StopReplyForgotten ==
    /\ rpc = "reply"
    /\ cpc = "stopwait"
    /\ rpc' = "closing"
    /\ UNCHANGED <<wstate, running, snap, unread, lastMark, focused, cpc>>

\* ... and sends it back, which lets Stop return at once ...
StopReply ==
    /\ rpc = "reply"
    /\ cpc = "stopwait"
    /\ cpc' = "idle"
    /\ rpc' = "closing"
    /\ UNCHANGED <<wstate, running, snap, unread, lastMark, focused>>

\* ... and only then closes the watcher, unlocks w.active and returns.  A
\* Start in between fails its TryLock and changes nothing.
StopClose ==
    /\ rpc = "closing"
    /\ rpc' = "none"
    /\ running' = FALSE
    /\ UNCHANGED <<wstate, snap, unread, lastMark, focused, cpc>>

\* run: the watcher's Errors or Events channel is closed, or the log was
\* removed or renamed: report on errch, unlock w.active and return.
RunFail ==
    /\ rpc = "loop"
    /\ rpc' = "none"
    /\ running' = FALSE
    /\ UNCHANGED <<wstate, snap, unread, lastMark, focused, cpc>>

\* Focus: lock; focus the window (which may fail); unpause a Ready
\* instance and set it Ingame.
Focus ==
    /\ cpc = "idle"
    /\ \/ UNCHANGED <<wstate, focused>>
       \/ /\ focused' = TRUE
          /\ wstate' = IF wstate = "Ready" THEN "Ingame" ELSE wstate
    /\ UNCHANGED <<running, rpc, snap, unread, lastMark, cpc>>

\* Fault variant of UpdateCheck: without the check that an Ingame instance
\* does not go back to Ready.
UpdateCheckNoIngameRule ==
    /\ rpc = "loop"
    /\ unread # NoMarker
    /\ unread' = NoMarker
    /\ IF unread = wstate
       THEN UNCHANGED <<rpc, snap>>
       ELSE rpc' = "apply" /\ snap' = unread
    /\ UNCHANGED <<wstate, running, lastMark, focused, cpc>>

\* run, case fsnotify.Write: updateState reads the new lines (the last
\* marker wins) and, without the mutex, returns early when the state is
\* unchanged or when an Ingame instance would go back to Ready.
UpdateCheck ==
    /\ rpc = "loop"
    /\ unread # NoMarker
    /\ unread' = NoMarker
    /\ IF unread = wstate \/ (wstate = "Ingame" /\ unread = "Ready")
       THEN UNCHANGED <<rpc, snap>>
       ELSE rpc' = "apply" /\ snap' = unread
    /\ UNCHANGED <<wstate, running, lastMark, focused, cpc>>

\* The locked part of updateState: set the state; unless GetActiveWindow
\* fails, a Ready instance whose window is active becomes Ingame.
UpdateApply ==
    /\ rpc = "apply"
    /\ rpc' = "loop"
    /\ \/ wstate' = snap
       \/ wstate' = IF focused /\ snap = "Ready" THEN "Ingame" ELSE snap
    /\ UNCHANGED <<running, snap, unread, lastMark, focused, cpc>>

Next ==
    \/ \E m \in Markers : GameLog(m)
    \/ LoseFocus \/ Start \/ StopSend \/ StopRecv \/ StopReply \/ StopClose
    \/ RunFail
    \/ Focus \/ UpdateCheck \/ UpdateApply

Spec == Init /\ [][Next]_vars

\* run is a runnable goroutine and Go's select picks uniformly among its
\* ready cases, so a stop signal offered again and again is eventually
\* taken (strong fairness: the case is disabled while updateState runs);
\* the locked part of updateState, the reply and the close that follows it
\* are single runnable steps.
\* The game, the user and the caller's next call are not assumed.
FairSpec ==
    /\ Spec
    /\ SF_vars(StopRecv)
    /\ WF_vars(StopReply)
    /\ WF_vars(StopClose)
    /\ WF_vars(UpdateApply)

-----------------------------------------------------------------------------
(* Properties *)

TypeOK ==
    /\ wstate \in States
    /\ running \in BOOLEAN
    /\ rpc \in {"none", "loop", "apply", "reply", "closing"}
    /\ snap \in Markers \cup {"Unknown"}
    /\ unread \in Markers \cup {NoMarker}
    /\ lastMark \in Markers \cup {NoMarker}
    /\ focused \in BOOLEAN
    /\ cpc \in {"idle", "stopping", "stopwait"}

\* While the run goroutine handles the log, a pause line ("Saving and
\* pausing game...") never turns the instance being played back to Ready,
\* although updateState checks the state before it takes the mutex and
\* Focus may set Ingame in between.
RunningKeepsIngame ==
    [][rpc # "none" /\ rpc' # "none" /\ wstate = "Ingame" => wstate' # "Ready"]_vars

\* Stop returns to its caller, however many log writes compete with the
\* stop signal in run's select, unless run has meanwhile returned through
\* a watcher failure: that, and only that, is the permanent hang Stop's
\* comment admits (the send on w.stop then has no receiver).
StopReturns ==
    cpc # "idle" ~> (cpc = "idle" \/ (cpc = "stopping" /\ rpc = "none"))

\* The inductive strengthening of RunningKeepsIngame: the run goroutine
\* only exists while w.active is held, and updateState only goes on to the
\* locked part with a Ready snapshot when the state it checked was neither
\* Ready nor Ingame, which Focus cannot change before the lock is taken;
\* the snapshot it then applies is a marker read from the log.
WorkerInv ==
    /\ TypeOK
    /\ rpc # "none" => running
    /\ rpc = "apply" /\ snap = "Ready" => wstate \notin {"Ready", "Ingame"}
    /\ rpc = "apply" => snap \in Markers

=============================================================================
