------------------------------- MODULE Manager -------------------------------
(***************************************************************************)
(* The instance Manager (src/internal/mc/instance.go) and the controller   *)
(* loop that calls it (src/manager/worker.go, Controller.run).  Manager.Run *)
(* is one goroutine: on a log write it takes m.mu, applies the reader's    *)
(* state to the instance, and sends an Update on the buffered evtch before *)
(* unlocking.  The controller goroutine consumes evtch and user inputs;    *)
(* an input makes the frontend call Manager.Reset or Manager.Play, which   *)
(* take m.mu too.  The frontends are not part of the source, so an input   *)
(* may ask for any Reset or Play.                                          *)
(*                                                                         *)
(* Progress above 85% is one flag per instance, and the grace period one   *)
(* flag per instance: the last preview started less than GracePeriod ago.  *)
(***************************************************************************)
EXTENDS Integers

CONSTANTS
    N,        \* number of instances
    EvtCap,   \* capacity of evtch (bufferSize * N = 16N in the code)
    GraceOn   \* conf.Wall.Enabled: Reset checks the grace period

ASSUME ManagerAssumption ==
    /\ N \in Nat \ {0}
    /\ EvtCap \in Nat \ {0}
    /\ GraceOn \in BOOLEAN

Inst == 0..N-1
NoActive == -1

\* Public state types (State.Type); "Dirt" is the world-generation screen.
Types == {"Dirt", "Preview", "Idle", "Ingame"}
\* What the state reader's Process can return: stWorld is internal.
RawTypes == {"Dirt", "Preview", "World"}

VARIABLES
    mtype,    \* m.instances[id].state.Type
    high,     \* m.instances[id].state.Progress > 85
    fresh,    \* time.Since(state.LastPreview) < GracePeriod
    active,   \* m.active
    mu,       \* holder of m.mu between steps: "none" or "run" (Manager.Run);
              \* Reset and Play hold it only within their own step
    mpc,      \* Manager.Run: "select", or "send" (holding m.mu, sending)
    evq,      \* Updates buffered in evtch
    cpc,      \* the controller: "loop", or blocked calling "reset"/"play"
    target    \* the instance the pending Reset or Play is for

vars == <<mtype, high, fresh, active, mu, mpc, evq, cpc, target>>

-----------------------------------------------------------------------------
\* NewManager: the readers' initial states; no active instance.
Init ==
    /\ mtype \in [Inst -> Types \ {"Ingame"}]
    /\ high \in [Inst -> BOOLEAN]
    /\ fresh = [i \in Inst |-> FALSE]
    /\ active = NoActive
    /\ mu = "none"
    /\ mpc = "select"
    /\ evq = 0
    /\ cpc = "loop"
    /\ target = 0

\* Fault variant of Resolve: the internal stWorld is passed on untranslated.
ResolveRaw(id, raw) == raw

\* Fault variant of Resolve: stWorld always resolves to Idle.
ResolveIgnoringActive(id, raw) ==
    IF raw = "World" THEN "Idle" ELSE raw

\* The public type a raw state resolves to: stWorld is Ingame for the
\* active instance and Idle (after the F3+Esc pause macro) for the others.
Resolve(id, raw) ==
    IF raw = "World" THEN IF active = id THEN "Ingame" ELSE "Idle"
    ELSE raw

\* Manager.Run, case Write on the log of id: Process reported an update;
\* lock m.mu and apply Type and Progress; a new preview restarts the grace.
LogWrite(id, raw, hi) ==
    /\ mpc = "select"
    /\ mu = "none"
    /\ mu' = "run"
    /\ mtype' = [mtype EXCEPT ![id] = Resolve(id, raw)]
    /\ high' = [high EXCEPT ![id] = hi]
    /\ fresh' = IF raw = "Preview" /\ mtype[id] # "Preview"
                THEN [fresh EXCEPT ![id] = TRUE] ELSE fresh
    /\ mpc' = "send"
    /\ UNCHANGED <<active, evq, cpc, target>>

\* evtch <- Update, then m.mu.Unlock(): blocks while evtch is full.
SendUpdate ==
    /\ mpc = "send"
    /\ evq < EvtCap
    /\ evq' = evq + 1
    /\ mu' = "none"
    /\ mpc' = "select"
    /\ UNCHANGED <<mtype, high, fresh, active, cpc, target>>

\* Controller.run, case evt := <-c.mgrEvents: the frontend's Update.
CtlUpdate ==
    /\ cpc = "loop"
    /\ evq > 0
    /\ evq' = evq - 1
    /\ UNCHANGED <<mtype, high, fresh, active, mu, mpc, cpc, target>>

\* Controller.run, case input := <-c.inputs: the frontend calls
\* ResetInstance or PlayInstance on some instance.
CtlInput(id, op) ==
    /\ cpc = "loop"
    /\ cpc' = op
    /\ target' = id
    /\ UNCHANGED <<mtype, high, fresh, active, mu, mpc, evq>>

\* Manager.Reset's legality checks.
CanReset(id) ==
    /\ mtype[id] # "Dirt"
    /\ ~(mtype[id] = "Preview" /\ high[id])
    /\ ~(GraceOn /\ fresh[id])

\* Manager.Reset(target) under m.mu: a legal reset clears active status if
\* target is active and sends the reset key; the type waits for the log.
Reset ==
    /\ cpc = "reset"
    /\ mu = "none"
    /\ active' = IF CanReset(target) /\ active = target THEN NoActive ELSE active
    /\ cpc' = "loop"
    /\ UNCHANGED <<mtype, high, fresh, mu, mpc, evq, target>>

\* Manager.Play(target) under m.mu: mark it active and Ingame.
Play ==
    /\ cpc = "play"
    /\ mu = "none"
    /\ active' = target
    /\ mtype' = [mtype EXCEPT ![target] = "Ingame"]
    /\ cpc' = "loop"
    /\ UNCHANGED <<high, fresh, mu, mpc, evq, target>>

\* The grace period of id's last preview runs out.
GraceEnds(id) ==
    /\ fresh[id]
    /\ fresh' = [fresh EXCEPT ![id] = FALSE]
    /\ UNCHANGED <<mtype, high, active, mu, mpc, evq, cpc, target>>

Next ==
    \/ \E id \in Inst, raw \in RawTypes, hi \in BOOLEAN : LogWrite(id, raw, hi)
    \/ SendUpdate
    \/ CtlUpdate
    \/ \E id \in Inst, op \in {"reset", "play"} : CtlInput(id, op)
    \/ Reset
    \/ Play
    \/ \E id \in Inst : GraceEnds(id)

Spec == Init /\ [][Next]_vars

-----------------------------------------------------------------------------
(* Properties *)

TypeOK ==
    /\ mtype \in [Inst -> Types]
    /\ high \in [Inst -> BOOLEAN]
    /\ fresh \in [Inst -> BOOLEAN]
    /\ active \in Inst \cup {NoActive}
    /\ mu \in {"none", "run"}
    /\ mpc \in {"select", "send"}
    /\ evq \in 0..EvtCap
    /\ cpc \in {"loop", "reset", "play"}
    /\ target \in Inst

\* The active instance is never Idle: a world that loads for it is played,
\* not paused, whatever order log writes, resets and plays come in.
ActiveNeverIdle ==
    active # NoActive => mtype[active] # "Idle"

\* The two goroutines never wait on each other: Manager.Run never blocks
\* on a full evtch while holding m.mu and the controller, the only reader
\* of evtch, waits for m.mu in Reset or Play.
NoLockedSendStall ==
    ~(mpc = "send" /\ evq = EvtCap /\ cpc \in {"reset", "play"})

=============================================================================
