---------------------------- MODULE ManagerProofs ----------------------------
(***************************************************************************)
(* Proofs about the instance Manager of Manager.tla, for every number of   *)
(* instances and every evtch capacity.                                     *)
(***************************************************************************)
EXTENDS Manager, TLAPS

USE ManagerAssumption DEF ManagerAssumption

\* The registry's variables keep their types under log writes, resets,
\* plays and the controller's handling of events and inputs.
THEOREM ManagerTypeCorrect == Spec => []TypeOK
<1>1. Init => TypeOK
  BY DEF Init, TypeOK, Types, Inst, NoActive
<1>2. TypeOK /\ [Next]_vars => TypeOK'
  <2> SUFFICES ASSUME TypeOK, [Next]_vars PROVE TypeOK'
    OBVIOUS
  <2>1. ASSUME NEW id \in Inst, NEW raw \in RawTypes, NEW hi \in BOOLEAN,
               LogWrite(id, raw, hi)
        PROVE TypeOK'
    <3>1. Resolve(id, raw) \in Types
      BY DEF Resolve, RawTypes, Types
    <3>2. fresh' \in [Inst -> BOOLEAN]
      BY <2>1 DEF LogWrite, TypeOK
    <3> QED
      BY <2>1, <3>1, <3>2 DEF LogWrite, TypeOK
  <2>2. CASE SendUpdate
    BY <2>2 DEF SendUpdate, TypeOK
  <2>3. CASE CtlUpdate
    BY <2>3 DEF CtlUpdate, TypeOK
  <2>4. ASSUME NEW id \in Inst, NEW op \in {"reset", "play"}, CtlInput(id, op)
        PROVE TypeOK'
    BY <2>4 DEF CtlInput, TypeOK
  <2>5. CASE Reset
    BY <2>5 DEF Reset, TypeOK
  <2>6. CASE Play
    BY <2>6 DEF Play, TypeOK, Types
  <2>7. ASSUME NEW id \in Inst, GraceEnds(id) PROVE TypeOK'
    BY <2>7 DEF GraceEnds, TypeOK
  <2>8. CASE UNCHANGED vars
    BY <2>8 DEF vars, TypeOK
  <2> QED
    BY <2>1, <2>2, <2>3, <2>4, <2>5, <2>6, <2>7, <2>8 DEF Next
<1> QED
  BY <1>1, <1>2, PTL DEF Spec

\* The active instance is never Idle: Play makes its target Ingame, a world
\* that loads for the active instance resolves to Ingame, and a reset of
\* the active instance clears m.active.  With the type invariant this is
\* inductive.
THEOREM ActiveNeverIdleHolds == Spec => []ActiveNeverIdle
<1>1. Init => ActiveNeverIdle
  BY DEF Init, ActiveNeverIdle
<1>2. TypeOK /\ ActiveNeverIdle /\ [Next]_vars => ActiveNeverIdle'
  <2> SUFFICES ASSUME TypeOK, ActiveNeverIdle, [Next]_vars
               PROVE ActiveNeverIdle'
    OBVIOUS
  <2>1. ASSUME NEW id \in Inst, NEW raw \in RawTypes, NEW hi \in BOOLEAN,
               LogWrite(id, raw, hi)
        PROVE ActiveNeverIdle'
    <3>1. active = id => Resolve(id, raw) # "Idle"
      BY DEF Resolve, RawTypes
    <3> QED
      BY <2>1, <3>1 DEF LogWrite, ActiveNeverIdle, TypeOK
  <2>2. CASE Reset
    BY <2>2 DEF Reset, ActiveNeverIdle
  <2>3. CASE Play
    BY <2>3 DEF Play, ActiveNeverIdle, TypeOK
  <2>4. CASE SendUpdate \/ CtlUpdate \/ UNCHANGED vars
    BY <2>4 DEF SendUpdate, CtlUpdate, vars, ActiveNeverIdle
  <2>5. ASSUME NEW id \in Inst, NEW op \in {"reset", "play"}, CtlInput(id, op)
        PROVE ActiveNeverIdle'
    BY <2>5 DEF CtlInput, ActiveNeverIdle
  <2>6. ASSUME NEW id \in Inst, GraceEnds(id) PROVE ActiveNeverIdle'
    BY <2>6 DEF GraceEnds, ActiveNeverIdle
  <2> QED
    BY <2>1, <2>2, <2>3, <2>4, <2>5, <2>6 DEF Next
<1> QED
  BY <1>1, <1>2, ManagerTypeCorrect, PTL DEF Spec

=============================================================================
