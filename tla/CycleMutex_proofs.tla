-------------------------- MODULE CycleMutex_proofs --------------------------
(***************************************************************************)
(* The promise chain is a mutex for any number of calls, and implements    *)
(* the abstract Mutex.  Mutual exclusion is not inductive by itself: a     *)
(* call may start when the one it waits for has settled, so one must know  *)
(* that no other call waits for the same one (Chained) and that everything *)
(* before a started call is over (InTurn).                                 *)
(***************************************************************************)
EXTENDS CycleMutex, TLAPS

LEMMA InitialTypes == Init => TypeOK
<1> SUFFICES ASSUME Init PROVE TypeOK
  OBVIOUS
<1>1. 0 \in 0 .. MaxCalls
  BY MaxCallsNat
<1>2. /\ made \in 0 .. MaxCalls
      /\ chain \in 0 .. MaxCalls
      /\ prev \in [Calls -> 0 .. MaxCalls]
  BY <1>1 DEF Init
<1>3. phase \in [Calls -> {"none", "waiting", "running", "settled", "refused"}]
  BY DEF Init
<1>4. mode \in [Calls -> Modes]
  BY DEF Init, Modes
<1>5. busy \in BOOLEAN
  BY DEF Init
<1> QED
  BY <1>2, <1>3, <1>4, <1>5 DEF TypeOK

LEMMA TypesKept == TypeOK /\ [Next]_vars => TypeOK'
<1> SUFFICES ASSUME TypeOK, [Next]_vars PROVE TypeOK'
  OBVIOUS
<1> USE MaxCallsNat DEF TypeOK, Calls, Modes
<1>1. ASSUME NEW c \in Calls, Refuse(c) PROVE TypeOK'
  BY <1>1 DEF Refuse
<1>2. ASSUME NEW c \in Calls, NEW m \in Modes, Link(c, m) PROVE TypeOK'
  BY <1>2 DEF Link
<1>3. ASSUME NEW c \in Calls, Run(c) PROVE TypeOK'
  BY <1>3 DEF Run
<1>4. ASSUME NEW c \in Calls, Settle(c) PROVE TypeOK'
  BY <1>4 DEF Settle
<1>5. CASE UNCHANGED vars
  BY <1>5 DEF vars
<1> QED
  BY <1>1, <1>2, <1>3, <1>4, <1>5 DEF Next

\* Every call variable has its type in every state.
THEOREM Typing == Spec => []TypeOK
  BY InitialTypes, TypesKept, PTL DEF Spec

-----------------------------------------------------------------------------
Linked(c) == phase[c] \in {"waiting", "running", "settled"}

\* chain points at the newest linked call, and each linked call at the
\* newest one before it: two calls never wait for the same one.
Chained ==
    /\ \A c \in Calls : phase[c] = "none" <=> c > made
    /\ chain <= made
    /\ \A c \in Calls : Linked(c) =>
           /\ c <= chain
           /\ prev[c] < c
           /\ \A d \in Calls : Linked(d) /\ d < c => d <= prev[c]

IInv == TypeOK /\ Chained /\ InTurn

LEMMA InvariantInit == Init => IInv
<1>1. Init => TypeOK
  BY InitialTypes
<1>2. Init => Chained
  BY MaxCallsNat DEF Init, Chained, Linked, Calls
<1>3. Init => InTurn
  BY DEF Init, InTurn
<1> QED
  BY <1>1, <1>2, <1>3 DEF IInv

\* Every step of a call keeps the list linear and in turn.
LEMMA InvariantNext == IInv /\ TypeOK' /\ [Next]_vars => IInv'
<1> SUFFICES ASSUME IInv, TypeOK', [Next]_vars PROVE IInv'
  OBVIOUS
<1> USE MaxCallsNat DEF IInv, TypeOK
<1>1. ASSUME NEW c \in Calls, Refuse(c) PROVE IInv'
  <2>1. Chained'
    BY <1>1 DEF Refuse, Chained, Linked, Calls
  <2>2. InTurn'
    BY <1>1 DEF Refuse, Chained, InTurn, Linked, Calls
  <2> QED BY <2>1, <2>2
<1>2. ASSUME NEW c \in Calls, NEW m \in Modes, Link(c, m) PROVE IInv'
  <2>1. phase[c] = "none" /\ c = made + 1 /\ chain < c
    BY <1>2 DEF Link, Chained, Calls
  <2>2. Chained'
    <3>1. \A d \in Calls : Linked(d)' <=> Linked(d) \/ d = c
      BY <1>2, <2>1 DEF Link, Linked
    <3>2. (\A d \in Calls : phase[d] = "none" <=> d > made)'
      BY <1>2, <2>1 DEF Link, Chained, Calls
    <3>3. ASSUME NEW d \in Calls, Linked(d)' PROVE d <= chain' /\ prev'[d] < d
      BY <1>2, <2>1, <3>1, <3>3 DEF Link, Chained, Calls
    <3>4. ASSUME NEW d \in Calls, Linked(d)', NEW e \in Calls, Linked(e)', e < d
          PROVE e <= prev'[d]
      BY <1>2, <2>1, <3>1, <3>4 DEF Link, Chained, Calls
    <3>5. chain' <= made'
      BY <1>2 DEF Link, Calls
    <3> QED BY <3>2, <3>3, <3>4, <3>5 DEF Chained
  <2>3. InTurn'
    BY <1>2, <2>1 DEF Link, Chained, InTurn, Linked, Calls
  <2> QED BY <2>2, <2>3
<1>3. ASSUME NEW c \in Calls, Run(c) PROVE IInv'
  <2>1. \A d \in Calls : Linked(d)' <=> Linked(d)
    BY <1>3 DEF Run, Linked
  <2>2. Chained'
    BY <1>3, <2>1 DEF Run, Chained, Calls
  <2>3. ASSUME NEW d \in Calls, d < c PROVE phase[d] \in {"settled", "refused"}
    <3>1. Linked(c) /\ c <= made
      BY <1>3 DEF Run, Linked, Chained, Calls
    <3>2. CASE ~Linked(d)
      BY <2>3, <3>1, <3>2 DEF Linked, Chained, Calls
    <3>3. CASE Linked(d)
      <4>1. d <= prev[c] /\ prev[c] < c
        BY <2>3, <3>1, <3>3 DEF Chained
      <4>2. prev[c] \in Calls /\ phase[prev[c]] = "settled"
        BY <1>3, <4>1 DEF Run, Settled, Calls
      <4> QED BY <4>1, <4>2 DEF InTurn, Calls
    <3> QED BY <3>2, <3>3
  <2>4. InTurn'
    BY <1>3, <2>3 DEF Run, InTurn, Calls
  <2> QED BY <2>2, <2>4
<1>4. ASSUME NEW c \in Calls, Settle(c) PROVE IInv'
  <2>1. \A d \in Calls : Linked(d)' <=> Linked(d)
    BY <1>4 DEF Settle, Linked
  <2>2. Chained'
    BY <1>4, <2>1 DEF Settle, Chained, Calls
  <2>3. InTurn'
    BY <1>4 DEF Settle, InTurn, Calls
  <2> QED BY <2>2, <2>3
<1>5. CASE UNCHANGED vars
  BY <1>5 DEF vars, Chained, InTurn, Linked
<1> QED
  BY <1>1, <1>2, <1>3, <1>4, <1>5 DEF Next

LEMMA Invariant == Spec => []IInv
  BY InvariantInit, InvariantNext, Typing, PTL DEF Spec

LEMMA InTurnExcludes == IInv => MutualExclusion
  BY DEF IInv, TypeOK, InTurn, MutualExclusion, Calls

\* No call overtakes one made before it.
THEOREM TurnsAreKept == Spec => []InTurn
  BY Invariant, PTL DEF IInv

\* At most one cycle body runs at any time, for any number of calls.
THEOREM Exclusion == Spec => []MutualExclusion
  BY Invariant, InTurnExcludes, PTL

\* busy is up exactly while a body runs.
THEOREM BusyFlag == Spec => []BusyMeansRunning
<1>1. Init => BusyMeansRunning
  BY DEF Init, BusyMeansRunning
<1>2. IInv /\ MutualExclusion' /\ MutualExclusion /\ TypeOK' /\ BusyMeansRunning /\ [Next]_vars
        => BusyMeansRunning'
  <2> SUFFICES ASSUME IInv, MutualExclusion, BusyMeansRunning, [Next]_vars
               PROVE  BusyMeansRunning'
    OBVIOUS
  <2> USE DEF BusyMeansRunning, IInv, TypeOK
  <2>1. ASSUME NEW c \in Calls, Refuse(c) PROVE BusyMeansRunning'
    <3>1. phase[c] = "none"
      BY <2>1, MaxCallsNat DEF Refuse, Chained, Calls
    <3> QED BY <2>1, <3>1 DEF Refuse
  <2>2. ASSUME NEW c \in Calls, NEW m \in Modes, Link(c, m) PROVE BusyMeansRunning'
    <3>1. phase[c] = "none"
      BY <2>2, MaxCallsNat DEF Link, Chained, Calls
    <3> QED BY <2>2, <3>1 DEF Link
  <2>3. ASSUME NEW c \in Calls, Run(c) PROVE BusyMeansRunning'
    BY <2>3 DEF Run
  <2>4. ASSUME NEW c \in Calls, Settle(c) PROVE BusyMeansRunning'
    BY <2>4 DEF Settle, MutualExclusion
  <2>5. CASE UNCHANGED vars
    BY <2>5 DEF vars
  <2> QED
    BY <2>1, <2>2, <2>3, <2>4, <2>5 DEF Next
<1>3. Spec => []MutualExclusion
  BY Exclusion
<1> QED
  BY <1>1, <1>2, <1>3, Invariant, Typing, PTL DEF Spec

-----------------------------------------------------------------------------
\* The linked promises implement the plain mutex: linking is asking, the
\* start of a body is the grant, its settling the release, and a refused
\* call is a stutter.
THEOREM ImplementsMutex == Spec => AbstractMutex
<1> USE DEF Abs!Init, Abs!Next, Abs!Ask, Abs!Grant, Abs!Release
<1>1. Init => Abs!Init
  BY DEF Init
<1>2. IInv /\ IInv' /\ [Next]_vars => [Abs!Next]_<<
          {c \in Calls : phase[c] = "running"},
          {c \in Calls : phase[c] = "waiting"},
          {c \in Calls : phase[c] = "settled"}>>
  <2> SUFFICES ASSUME IInv, IInv', [Next]_vars,
                      ~(Abs!Next)
               PROVE  UNCHANGED <<{c \in Calls : phase[c] = "running"},
                                  {c \in Calls : phase[c] = "waiting"},
                                  {c \in Calls : phase[c] = "settled"}>>
    OBVIOUS
  <2>0. MutualExclusion /\ MutualExclusion'
    <3>1. MutualExclusion
      BY InTurnExcludes
    <3>2. MutualExclusion'
      BY DEF IInv, MutualExclusion, InTurn, TypeOK, Calls
    <3> QED BY <3>1, <3>2
  <2> USE DEF IInv, TypeOK
  <2>1. ASSUME NEW c \in Calls, Refuse(c)
        PROVE  UNCHANGED <<{d \in Calls : phase[d] = "running"},
                           {d \in Calls : phase[d] = "waiting"},
                           {d \in Calls : phase[d] = "settled"}>>
    <3>1. phase[c] = "none"
      BY <2>1, MaxCallsNat DEF Refuse, Chained, Calls
    <3> QED BY <2>1, <3>1 DEF Refuse
  <2>2. ASSUME NEW c \in Calls, NEW m \in Modes, Link(c, m) PROVE Abs!Ask(c)
    <3>1. phase[c] = "none"
      BY <2>2, MaxCallsNat DEF Link, Chained, Calls
    <3> QED BY <2>2, <3>1 DEF Link
  <2>3. ASSUME NEW c \in Calls, Run(c) PROVE Abs!Grant(c)
    <3>1. phase'[c] = "running" /\ \A d \in Calls : phase'[d] = "running" => d = c
      BY <2>0, <2>3 DEF Run, MutualExclusion
    <3>2. phase[c] = "waiting" /\ \A d \in Calls : phase[d] # "running"
      BY <2>3, <3>1 DEF Run
    <3> QED BY <2>3, <3>1, <3>2 DEF Run
  <2>4. ASSUME NEW c \in Calls, Settle(c) PROVE Abs!Release(c)
    BY <2>0, <2>4 DEF Settle, MutualExclusion
  <2>5. CASE UNCHANGED vars
    BY <2>5 DEF vars
  <2> QED
    BY <2>1, <2>2, <2>3, <2>4, <2>5 DEF Next
<1> QED
  BY <1>1, <1>2, Invariant, PTL DEF Spec, AbstractMutex, Abs!Spec
=============================================================================
