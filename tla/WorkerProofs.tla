---------------------------- MODULE WorkerProofs ----------------------------
(***************************************************************************)
(* Proofs about the Worker of Worker.tla: the unlocked check of            *)
(* updateState racing Focus never turns a played instance back to Ready    *)
(* while the run goroutine handles the log.                                *)
(***************************************************************************)
EXTENDS Worker, TLAPS

\* WorkerInv holds initially and is preserved by the game's log writes,
\* focus changes, Start, the steps of Stop, run's failure, Focus and updateState.
LEMMA WorkerInvInductive == Spec => []WorkerInv
<1>1. Init => WorkerInv
  BY DEF Init, WorkerInv, TypeOK, Markers, States, NoMarker
<1>2. WorkerInv /\ [Next]_vars => WorkerInv'
  <2> SUFFICES ASSUME WorkerInv, [Next]_vars PROVE WorkerInv'
    OBVIOUS
  <2> USE DEF WorkerInv, TypeOK
  <2>1. ASSUME NEW m \in Markers, GameLog(m) PROVE WorkerInv'
    BY <2>1 DEF GameLog
  <2>2. CASE LoseFocus
    BY <2>2 DEF LoseFocus
  <2>3. CASE Start
    BY <2>3 DEF Start, StartState, States, Markers, NoMarker
  <2>4. CASE StopSend
    BY <2>4 DEF StopSend
  <2>5. CASE StopRecv
    BY <2>5 DEF StopRecv
  <2>6. CASE StopReply
    BY <2>6 DEF StopReply
  <2>7. CASE RunFail \/ StopClose
    BY <2>7 DEF RunFail, StopClose
  <2>8. CASE Focus
    BY <2>8 DEF Focus, States
  <2>9. CASE UpdateCheck
    BY <2>9 DEF UpdateCheck, Markers, NoMarker
  <2>10. CASE UpdateApply
    BY <2>10 DEF UpdateApply, States, Markers
  <2>11. CASE UNCHANGED vars
    BY <2>11 DEF vars
  <2> QED
    BY <2>1, <2>2, <2>3, <2>4, <2>5, <2>6, <2>7, <2>8, <2>9, <2>10, <2>11
       DEF Next
<1> QED
  BY <1>1, <1>2, PTL DEF Spec

\* The variables keep their types.
THEOREM WorkerTypeCorrect == Spec => []TypeOK
<1>1. WorkerInv => TypeOK
  BY DEF WorkerInv
<1> QED
  BY <1>1, WorkerInvInductive, PTL

\* While the run goroutine handles the log, no step turns an Ingame
\* instance back to Ready: updateState's unlocked check cannot be made
\* stale by Focus in a way that lets a pause line demote the instance.
THEOREM RunningKeepsIngameHolds == Spec => RunningKeepsIngame
<1> DEFINE Keep == rpc # "none" /\ rpc' # "none" /\ wstate = "Ingame"
                   => wstate' # "Ready"
<1>1. WorkerInv /\ [Next]_vars => [Keep]_vars
  <2> SUFFICES ASSUME WorkerInv, Next, rpc # "none", rpc' # "none",
                      wstate = "Ingame"
               PROVE wstate' # "Ready"
    BY DEF vars
  <2> USE DEF WorkerInv, TypeOK
  <2>1. CASE UpdateApply
    BY <2>1 DEF UpdateApply, Markers
  <2>2. CASE Start
    BY <2>2 DEF Start
  <2>3. CASE Focus
    BY <2>3 DEF Focus
  <2>4. CASE \/ \E m \in Markers : GameLog(m)
             \/ LoseFocus \/ StopSend \/ StopRecv \/ StopReply \/ StopClose
             \/ RunFail \/ UpdateCheck
    BY <2>4 DEF GameLog, LoseFocus, StopSend, StopRecv, StopReply, StopClose,
                RunFail, UpdateCheck
  <2> QED
    BY <2>1, <2>2, <2>3, <2>4 DEF Next
<1> QED
  BY <1>1, WorkerInvInductive, PTL DEF Spec, RunningKeepsIngame

=============================================================================
