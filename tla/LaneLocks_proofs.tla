-------------------------- MODULE LaneLocks_proofs --------------------------
(***************************************************************************)
(* The two locks of the Zillow lane keep cycles and screen users apart,    *)
(* for any number of them.  The steps of the lane are steps of each lock   *)
(* (LaneSteps), so what CycleMutex_proofs shows of one lock holds of both; *)
(* what is left is that a task past a lock holds the call it was given     *)
(* (CycleHeld, ScreenHeld) and that no lock sees more calls than it was    *)
(* made for (Counted).  The later parts of the module are about what       *)
(* starts a cycle and who notices that none ran: the poll driver, and the  *)
(* watchdog next to the hourly job.                                        *)
(***************************************************************************)
EXTENDS LaneLocks, PollDriver, Watchdog, CycleMutex_proofs, FiniteSetTheorems,
        WellFoundedInduction

GuiLock == INSTANCE CycleMutex_proofs WITH
    MaxCalls <- Cardinality(ScreenCalls),
    made <- gMade, phase <- gPhase,
    mode <- gMode, prev <- gPrev, chain <- gChain, busy <- gBusy

Stages == {"out", "queued", "in", "asked", "screen", "done"}

LaneTypes ==
    /\ pc \in [Tasks -> Stages]
    /\ left \in [Tasks -> Nat]
    /\ call \in [Tasks -> Nat]
    /\ ticket \in [Tasks -> Nat]
    /\ made \in Nat /\ gMade \in Nat
    /\ \A t \in Tasks : left[t] <= IF t \in Cycles THEN Sections ELSE 1
    /\ \A t \in Tasks : pc[t] \in {"asked", "screen"} => left[t] > 0

\* A cycle past the chain is the call that runs, one queued a call that waits.
CycleHeld ==
    /\ \A t \in Tasks :
         /\ call[t] <= made
         /\ pc[t] \in {"queued", "in"} => t \in Cycles
         /\ pc[t] = "queued" => call[t] > 0 /\ phase[call[t]] = "waiting"
         /\ t \in Cycles /\ pc[t] \in {"in", "asked", "screen"}
              => call[t] > 0 /\ phase[call[t]] = "running"
    /\ \A t, u \in Tasks : t # u /\ call[t] = call[u] => call[t] = 0

\* The same of the screen.
ScreenHeld ==
    /\ \A t \in Tasks :
         /\ ticket[t] <= gMade
         /\ pc[t] = "asked" => ticket[t] > 0 /\ gPhase[ticket[t]] = "waiting"
         /\ pc[t] = "screen" => ticket[t] > 0 /\ gPhase[ticket[t]] = "running"
    /\ \A t, u \in Tasks : t # u /\ ticket[t] = ticket[u] => ticket[t] = 0

\* Every call of a lock is a task's, every ticket one of its screen sections.
Begun == {t \in Cycles : pc[t] # "out"}
Used  == {x \in ScreenCalls :
            \/ x[2] > left[x[1]]
            \/ x[2] = left[x[1]] /\ pc[x[1]] \in {"asked", "screen"}}

Counted ==
    /\ made <= Cardinality(Begun)
    /\ gMade <= Cardinality(Used)

LaneInv == LaneTypes /\ CycleHeld /\ ScreenHeld /\ Counted

LEMMA Finite ==
    /\ IsFiniteSet(Cycles) /\ IsFiniteSet(ScreenCalls)
    /\ Cardinality(Cycles) \in Nat /\ Cardinality(ScreenCalls) \in Nat
  <1>1. IsFiniteSet(Cycles) /\ IsFiniteSet(ScreenOnly)
    BY TasksFinite, FS_Subset DEF Tasks
  <1>2. IsFiniteSet(1 .. Sections) /\ IsFiniteSet({1})
    <2>1. 1 \in Int /\ Sections \in Int
      BY SectionsPositive
    <2> QED
      BY <2>1, FS_Interval, FS_Singleton
  <1>3. IsFiniteSet(Cycles \X (1 .. Sections)) /\ IsFiniteSet(ScreenOnly \X {1})
    BY <1>1, <1>2, FS_Product
  <1>4. IsFiniteSet(ScreenCalls)
    BY <1>3, FS_Union DEF ScreenCalls
  <1> QED
    BY <1>1, <1>4, FS_CardinalityType

LEMMA LaneInvInit == LaneInit => LaneInv
  <1> SUFFICES ASSUME LaneInit PROVE LaneInv
    OBVIOUS
  <1>1. LaneTypes
    BY SectionsPositive DEF LaneInit, LaneTypes, Stages, Init, Gui!Init
  <1>2. CycleHeld /\ ScreenHeld
    BY DEF LaneInit, CycleHeld, ScreenHeld, Init, Gui!Init
  <1>3. Begun = {} /\ IsFiniteSet(Used)
    BY Finite, FS_Subset DEF LaneInit, Begun, Used, Tasks
  <1>4. Counted
    BY <1>3, FS_EmptySet, FS_CardinalityType DEF LaneInit, Counted, Init, Gui!Init
  <1> QED
    BY <1>1, <1>2, <1>4 DEF LaneInv

-----------------------------------------------------------------------------
(* The lane's steps are steps of its locks. *)

\* A cycle not yet begun finds a free call.
LEMMA CallFree ==
    ASSUME LaneInv, NEW t \in Cycles, pc[t] = "out"
    PROVE  made + 1 \in Calls /\ Cardinality(Begun) + 1 <= Cardinality(Cycles)
  <1>1. Begun \subseteq Cycles \ {t}
    BY DEF Begun
  <1>2. /\ IsFiniteSet(Cycles \ {t})
        /\ Cardinality(Cycles \ {t}) = Cardinality(Cycles) - 1
    BY Finite, FS_RemoveElement
  <1>3. IsFiniteSet(Begun) /\ Cardinality(Begun) <= Cardinality(Cycles) - 1
    BY <1>1, <1>2, FS_Subset
  <1>4. Cardinality(Begun) \in Nat
    BY <1>3, FS_CardinalityType
  <1>5. made <= Cardinality(Begun) /\ made \in Nat
    BY DEF LaneInv, Counted, LaneTypes
  <1> QED
    BY <1>3, <1>4, <1>5, Finite, CallPerCycle DEF Calls

\* A task that may take the screen finds a free ticket.
LEMMA SectionFree ==
    ASSUME LaneInv, NEW t \in Tasks, left[t] > 0, pc[t] \notin {"asked", "screen"}
    PROVE  <<t, left[t]>> \in ScreenCalls \ Used
  <1>1. left[t] \in Nat /\ left[t] <= IF t \in Cycles THEN Sections ELSE 1
    BY DEF LaneInv, LaneTypes
  <1>2. ~(left[t] > left[t])
    BY <1>1
  <1>3. <<t, left[t]>> \in ScreenCalls
    <2>1. CASE t \in Cycles
      <3>1. left[t] \in 1 .. Sections
        BY <1>1, <2>1, SectionsPositive
      <3> QED
        BY <2>1, <3>1 DEF ScreenCalls
    <2>2. CASE t \notin Cycles
      <3>1. left[t] = 1
        BY <1>1, <2>2
      <3>2. t \in ScreenOnly
        BY <2>2 DEF Tasks
      <3> QED
        BY <3>1, <3>2 DEF ScreenCalls
    <2> QED
      BY <2>1, <2>2
  <1> SUFFICES ASSUME NEW x, x = <<t, left[t]>> PROVE x \in ScreenCalls \ Used
    OBVIOUS
  <1>4. x[1] = t /\ x[2] = left[t]
    OBVIOUS
  <1> QED
    BY <1>2, <1>3, <1>4 DEF Used

LEMMA TicketFree ==
    ASSUME LaneInv, NEW x \in ScreenCalls \ Used
    PROVE  /\ gMade + 1 \in 1 .. Cardinality(ScreenCalls)
           /\ gMade + 1 <= Cardinality(Used \union {x})
  <1>1. Used \subseteq ScreenCalls \ {x}
    BY DEF Used
  <1>2. /\ IsFiniteSet(ScreenCalls \ {x})
        /\ Cardinality(ScreenCalls \ {x}) = Cardinality(ScreenCalls) - 1
    BY Finite, FS_RemoveElement
  <1>3. IsFiniteSet(Used) /\ Cardinality(Used) <= Cardinality(ScreenCalls \ {x})
    BY <1>1, <1>2, FS_Subset
  <1>4. Cardinality(Used) \in Nat /\ Cardinality(Used \union {x}) = Cardinality(Used) + 1
    BY <1>1, <1>3, FS_CardinalityType, FS_AddElement
  <1>5. gMade <= Cardinality(Used) /\ gMade \in Nat
    BY DEF LaneInv, Counted, LaneTypes
  <1> QED
    BY <1>2, <1>3, <1>4, <1>5, Finite

LEMMA LaneSteps ==
    ASSUME LaneInv, TypeOK, GuiLock!TypeOK, [LaneNext]_laneVars
    PROVE  [Next]_vars /\ [GuiLock!Next]_(GuiLock!vars)
  <1>1. ASSUME NEW t \in Hourly, QueueHourly(t)
        PROVE  [Next]_vars /\ [GuiLock!Next]_(GuiLock!vars)
    <2>1. made + 1 \in Calls
      BY <1>1, CallFree DEF QueueHourly, Cycles
    <2> QED
      BY <1>1, <2>1 DEF QueueHourly, Next, Modes, guiLock, GuiLock!vars
  <1>2. ASSUME NEW t \in Polls, QueuePoll(t)
        PROVE  [Next]_vars /\ [GuiLock!Next]_(GuiLock!vars)
    <2>1. made + 1 \in Calls
      BY <1>2, CallFree DEF QueuePoll, Cycles
    <2> QED
      BY <1>2, <2>1 DEF QueuePoll, Next, Modes, cycleLock, vars, guiLock, GuiLock!vars
  <1>3. ASSUME NEW t \in Tasks, QueueScreen(t)
        PROVE  [Next]_vars /\ [GuiLock!Next]_(GuiLock!vars)
    <2>1. gMade + 1 \in GuiLock!Calls
      <3>1. left[t] > 0 /\ pc[t] \notin {"asked", "screen"}
        BY <1>3 DEF QueueScreen
      <3> QED
        BY <3>1, SectionFree, TicketFree DEF GuiLock!Calls
    <2>2. GuiLock!Link(gMade + 1, "wait")
      BY <1>3 DEF QueueScreen, Gui!Link, GuiLock!Link
    <2> QED
      BY <1>3, <2>1, <2>2 DEF QueueScreen, GuiLock!Next, GuiLock!Modes, cycleLock, vars
  <1>4. ASSUME NEW t \in Tasks, StartCycle(t) \/ EndCycle(t)
        PROVE  [Next]_vars /\ [GuiLock!Next]_(GuiLock!vars)
    <2>1. call[t] \in Calls
      <3>1. call[t] > 0 /\ call[t] <= made /\ call[t] \in Nat
        BY <1>4 DEF StartCycle, EndCycle, LaneInv, CycleHeld, LaneTypes
      <3>2. made \in 0 .. MaxCalls
        BY DEF TypeOK
      <3> QED
        BY <3>1, <3>2, MaxCallsNat DEF Calls
    <2> QED
      BY <1>4, <2>1 DEF StartCycle, EndCycle, Next, guiLock, GuiLock!vars
  <1>5. ASSUME NEW t \in Tasks, TakeScreen(t) \/ LeaveScreen(t)
        PROVE  [Next]_vars /\ [GuiLock!Next]_(GuiLock!vars)
    <2>1. ticket[t] \in GuiLock!Calls
      <3>1. ticket[t] > 0 /\ ticket[t] <= gMade /\ ticket[t] \in Nat
        BY <1>5 DEF TakeScreen, LeaveScreen, LaneInv, ScreenHeld, LaneTypes
      <3>2. gMade \in 0 .. Cardinality(ScreenCalls)
        BY DEF GuiLock!TypeOK
      <3> QED
        BY <3>1, <3>2, Finite DEF GuiLock!Calls
    <2>2. GuiLock!Run(ticket[t]) \/ GuiLock!Settle(ticket[t])
      BY <1>5 DEF TakeScreen, LeaveScreen, Gui!Run, Gui!Settle, Gui!Settled, GuiLock!Run,
                  GuiLock!Settle, GuiLock!Settled
    <2> QED
      BY <1>5, <2>1, <2>2 DEF TakeScreen, LeaveScreen, GuiLock!Next, cycleLock, vars
  <1>6. CASE UNCHANGED laneVars
    BY <1>6 DEF laneVars, cycleLock, guiLock, vars, GuiLock!vars
  <1> QED
    BY <1>1, <1>2, <1>3, <1>4, <1>5, <1>6 DEF LaneNext, Resume

-----------------------------------------------------------------------------
(* The steps keep the tasks and their calls together. *)

LEMMA LaneTypesKept ==
    ASSUME LaneInv, [LaneNext]_laneVars PROVE LaneTypes'
  <1> USE DEF LaneInv, LaneTypes, Goto, Stages
  <1>1. ASSUME NEW t \in Hourly, QueueHourly(t) PROVE LaneTypes'
    <2>1. /\ made' = made + 1 /\ gMade' = gMade /\ left' = left /\ ticket' = ticket
          /\ call' = [call EXCEPT ![t] = made + 1] /\ pc' = [pc EXCEPT ![t] = "queued"]
      BY <1>1 DEF QueueHourly, Link, guiLock
    <2>2. made + 1 \in Nat
      OBVIOUS
    <2> QED
      BY <2>1, <2>2
  <1>2. ASSUME NEW t \in Polls, QueuePoll(t) PROVE LaneTypes'
    BY <1>2 DEF QueuePoll, Link, Refuse, guiLock, cycleLock
  <1>3. ASSUME NEW t \in Tasks, QueueScreen(t) PROVE LaneTypes'
    <2>1. gMade' = gMade + 1 /\ made' = made /\ call' = call /\ left' = left
      BY <1>3 DEF QueueScreen, Gui!Link, cycleLock
    <2>2. ticket' \in [Tasks -> Nat] /\ gMade' \in Nat
      BY <1>3, <2>1 DEF QueueScreen
    <2>3. pc' = [pc EXCEPT ![t] = "asked"] /\ left[t] > 0
      BY <1>3 DEF QueueScreen
    <2> QED
      BY <2>1, <2>2, <2>3
  <1>4. ASSUME NEW t \in Tasks, StartCycle(t) \/ EndCycle(t) PROVE LaneTypes'
    BY <1>4 DEF StartCycle, EndCycle, Run, Settle, guiLock
  <1>5. ASSUME NEW t \in Tasks, TakeScreen(t) PROVE LaneTypes'
    BY <1>5 DEF TakeScreen, Gui!Run, cycleLock, ScreenHeld
  <1>6. ASSUME NEW t \in Tasks, LeaveScreen(t) PROVE LaneTypes'
    <2>1. left[t] \in Nat /\ left[t] > 0
      BY <1>6 DEF LeaveScreen
    <2>2. left[t] - 1 \in Nat /\ left[t] - 1 <= left[t]
      BY <2>1
    <2>3. left' = [left EXCEPT ![t] = left[t] - 1] /\ left' \in [Tasks -> Nat]
      BY <1>6, <2>2 DEF LeaveScreen
    <2>4. \A u \in Tasks : left'[u] <= IF u \in Cycles THEN Sections ELSE 1
      BY <2>1, <2>2, <2>3, SectionsPositive
    <2>5. pc' \in [Tasks -> Stages] /\ pc'[t] \in {"in", "done"}
          /\ \A u \in Tasks \ {t} : pc'[u] = pc[u]
      BY <1>6 DEF LeaveScreen
    <2>6. made' = made /\ gMade' = gMade /\ call' = call /\ ticket' = ticket
      BY <1>6 DEF LeaveScreen, Gui!Settle, cycleLock
    <2> QED
      BY <2>3, <2>4, <2>5, <2>6
  <1>7. CASE UNCHANGED laneVars
    BY <1>7 DEF laneVars, cycleLock, guiLock
  <1> QED
    BY <1>1, <1>2, <1>3, <1>4, <1>5, <1>6, <1>7 DEF LaneNext, Resume

LEMMA CycleHeldKept ==
    ASSUME LaneInv, TypeOK, [LaneNext]_laneVars PROVE CycleHeld'
  <1> USE DEF LaneInv, LaneTypes, CycleHeld, Goto, TypeOK
  <1>1. ASSUME NEW t \in Hourly \union Polls, pc[t] = "out", NEW m \in Modes, Link(made + 1, m),
               call' = [call EXCEPT ![t] = made + 1], Goto(t, "queued")
        PROVE  CycleHeld'
    <2>1. t \in Tasks /\ t \in Cycles /\ made + 1 \in Calls
      BY <1>1, CallFree DEF Tasks, Cycles
    <2>2. /\ made' = made + 1 /\ phase'[made + 1] = "waiting"
          /\ \A c \in Calls : c <= made => phase'[c] = phase[c]
      BY <1>1, <2>1 DEF Link, Calls
    <2>3. call'[t] = made + 1 /\ pc'[t] = "queued"
          /\ \A u \in Tasks \ {t} : call'[u] = call[u] /\ pc'[u] = pc[u]
      BY <1>1, <2>1
    <2>4. \A u \in Tasks \ {t} : /\ call[u] \in Nat /\ call[u] <= made
                                 /\ call[u] > 0 => call[u] \in Calls
      BY MaxCallsNat DEF Calls
    <2> QED
      BY <2>1, <2>2, <2>3, <2>4
  <1>2. ASSUME NEW t \in Hourly, QueueHourly(t) PROVE CycleHeld'
    BY <1>1, <1>2 DEF QueueHourly, Modes
  <1>3. ASSUME NEW t \in Polls, QueuePoll(t) PROVE CycleHeld'
    <2>1. t \in Tasks /\ t \in Cycles /\ made + 1 \in Calls
      BY <1>3, CallFree DEF QueuePoll, Tasks, Cycles
    <2>2. CASE Goto(t, "done") /\ call' = call /\ UNCHANGED cycleLock
      BY <2>1, <2>2 DEF cycleLock
    <2>3. CASE Goto(t, "done") /\ call' = call /\ Refuse(made + 1)
      <3>1. made' = made + 1 /\ \A c \in Calls : c <= made => phase'[c] = phase[c]
        BY <2>1, <2>3 DEF Refuse, Calls
      <3>2. \A u \in Tasks : call[u] > 0 => call[u] \in Calls
        BY MaxCallsNat DEF Calls
      <3> QED
        BY <2>1, <2>3, <3>1, <3>2
    <2> QED
      BY <1>1, <1>3, <2>2, <2>3 DEF QueuePoll, Modes
  <1>4. ASSUME NEW t \in Tasks, StartCycle(t) \/ EndCycle(t) PROVE CycleHeld'
    <2>1. made' = made /\ call' = call /\ call[t] > 0 /\ t \in Cycles
      BY <1>4 DEF StartCycle, EndCycle, Run, Settle
    <2>2. call[t] \in Calls /\ \A u \in Tasks \ {t} : call[u] # call[t]
      BY <2>1, MaxCallsNat DEF Calls
    <2>3. \A u \in Tasks \ {t} :
             pc'[u] = pc[u] /\ (call[u] > 0 => phase'[call[u]] = phase[call[u]])
      <3>1. \A u \in Tasks : call[u] > 0 => call[u] \in Calls
        BY MaxCallsNat DEF Calls
      <3> QED
        BY <1>4, <2>2, <3>1 DEF StartCycle, EndCycle, Run, Settle
    <2>4. \/ pc'[t] = "in" /\ phase'[call[t]] = "running"
          \/ pc'[t] = "done"
      BY <1>4, <2>2 DEF StartCycle, EndCycle, Run, Settle
    <2> QED
      BY <2>1, <2>2, <2>3, <2>4
  <1>5. ASSUME NEW t \in Tasks, QueueScreen(t) \/ TakeScreen(t) \/ LeaveScreen(t) PROVE CycleHeld'
    <2>1. /\ made' = made /\ phase' = phase /\ call' = call
          /\ \A u \in Tasks \ {t} : pc'[u] = pc[u]
      BY <1>5 DEF QueueScreen, TakeScreen, LeaveScreen, cycleLock
    <2>2. /\ t \in Cycles => pc[t] \in {"in", "asked", "screen"} /\ pc'[t] \in {"in", "asked", "screen"}
          /\ t \notin Cycles => pc'[t] \notin {"queued", "in"}
          /\ pc'[t] # "queued"
      BY <1>5 DEF QueueScreen, TakeScreen, LeaveScreen
    <2> QED
      BY <2>1, <2>2
  <1>6. CASE UNCHANGED laneVars
    BY <1>6 DEF laneVars, cycleLock
  <1> QED
    BY <1>2, <1>3, <1>4, <1>5, <1>6 DEF LaneNext, Resume

LEMMA ScreenHeldKept ==
    ASSUME LaneInv, GuiLock!TypeOK, [LaneNext]_laneVars PROVE ScreenHeld'
  <1> USE DEF LaneInv, LaneTypes, ScreenHeld, Goto
  <1>1. gPhase \in [GuiLock!Calls -> {"none", "waiting", "running", "settled", "refused"}]
    BY DEF GuiLock!TypeOK
  <1>2. \A u \in Tasks : ticket[u] > 0 => ticket[u] \in GuiLock!Calls
    <2>1. gMade \in 0 .. Cardinality(ScreenCalls)
      BY DEF GuiLock!TypeOK
    <2> QED
      BY <2>1, Finite DEF GuiLock!Calls
  <1>3. ASSUME NEW t \in Tasks, QueueScreen(t) PROVE ScreenHeld'
    <2>1. left[t] > 0 /\ pc[t] \notin {"asked", "screen"}
      BY <1>3 DEF QueueScreen
    <2>2. gMade + 1 \in GuiLock!Calls
      BY <2>1, SectionFree, TicketFree DEF GuiLock!Calls
    <2>3. /\ gMade' = gMade + 1 /\ gPhase'[gMade + 1] = "waiting"
          /\ \A c \in GuiLock!Calls : c <= gMade => gPhase'[c] = gPhase[c]
      BY <1>1, <1>3, <2>2 DEF QueueScreen, Gui!Link, GuiLock!Calls
    <2>4. /\ ticket'[t] = gMade + 1 /\ pc'[t] = "asked"
          /\ \A u \in Tasks \ {t} : ticket'[u] = ticket[u] /\ pc'[u] = pc[u]
      BY <1>3 DEF QueueScreen
    <2> QED
      BY <1>2, <2>3, <2>4
  <1>4. ASSUME NEW t \in Tasks, TakeScreen(t) \/ LeaveScreen(t) PROVE ScreenHeld'
    <2>1. gMade' = gMade /\ ticket' = ticket /\ ticket[t] > 0
      BY <1>4 DEF TakeScreen, LeaveScreen, Gui!Run, Gui!Settle
    <2>2. ticket[t] \in GuiLock!Calls /\ \A u \in Tasks \ {t} : ticket[u] # ticket[t]
      BY <1>2, <2>1
    <2>3. \A u \in Tasks \ {t} :
             pc'[u] = pc[u] /\ (ticket[u] > 0 => gPhase'[ticket[u]] = gPhase[ticket[u]])
      BY <1>1, <1>2, <1>4, <2>2 DEF TakeScreen, LeaveScreen, Gui!Run, Gui!Settle
    <2>4. \/ pc'[t] = "screen" /\ gPhase'[ticket[t]] = "running"
          \/ pc'[t] \in {"in", "done"}
      BY <1>1, <1>4, <2>2 DEF TakeScreen, LeaveScreen, Gui!Run, Gui!Settle
    <2> QED
      BY <2>1, <2>2, <2>3, <2>4
  <1>5. ASSUME NEW t \in Tasks, UNCHANGED <<ticket, guiLock>>,
               \E where \in {"queued", "in", "done"} : Goto(t, where)
        PROVE  ScreenHeld'
    BY <1>5 DEF guiLock
  <1>6. ASSUME NEW t \in Tasks, StartCycle(t) \/ EndCycle(t) PROVE ScreenHeld'
    BY <1>5, <1>6 DEF StartCycle, EndCycle
  <1>7. ASSUME NEW t \in Hourly, QueueHourly(t) PROVE ScreenHeld'
    BY <1>5, <1>7 DEF QueueHourly, Tasks, Cycles
  <1>8. ASSUME NEW t \in Polls, QueuePoll(t) PROVE ScreenHeld'
    BY <1>5, <1>8 DEF QueuePoll, Tasks, Cycles
  <1>9. CASE UNCHANGED laneVars
    BY <1>9 DEF laneVars, guiLock
  <1> QED
    BY <1>3, <1>4, <1>6, <1>7, <1>8, <1>9 DEF LaneNext, Resume

LEMMA CountedKept ==
    ASSUME LaneInv, [LaneNext]_laneVars PROVE Counted'
  <1>1. /\ IsFiniteSet(Begun) /\ IsFiniteSet(Used)
        /\ Cardinality(Begun) \in Nat /\ Cardinality(Used) \in Nat
    BY Finite, FS_Subset, FS_CardinalityType DEF Begun, Used
  <1>2. made \in Nat /\ gMade \in Nat /\ made <= Cardinality(Begun) /\ gMade <= Cardinality(Used)
    BY DEF LaneInv, LaneTypes, Counted
  <1>3. ASSUME NEW t \in Cycles, pc[t] = "out", made' \in {made, made + 1},
               Goto(t, "queued") \/ Goto(t, "done"), UNCHANGED <<left, guiLock>>
        PROVE  Counted'
    <2>1. t \in Tasks /\ pc \in [Tasks -> Stages]
      BY DEF Tasks, LaneInv, LaneTypes
    <2>2. Begun' = Begun \union {t} /\ t \notin Begun
      BY <1>3, <2>1 DEF Begun, Goto, Tasks
    <2>3. Cardinality(Begun') = Cardinality(Begun) + 1
      BY <1>1, <2>2, FS_AddElement
    <2>4. Used' = Used
      <3>1. \A u \in Tasks : pc'[u] \in {"asked", "screen"} <=> pc[u] \in {"asked", "screen"}
        BY <1>3, <2>1 DEF Goto
      <3>2. \A x \in ScreenCalls : x[1] \in Tasks
        BY DEF ScreenCalls, Tasks
      <3> QED
        BY <1>3, <3>1, <3>2 DEF Used
    <2> QED
      BY <1>1, <1>2, <1>3, <2>3, <2>4 DEF Counted, guiLock
  <1>4. ASSUME NEW t \in Tasks, QueueScreen(t) PROVE Counted'
    <2>1. left[t] > 0 /\ pc[t] \notin {"asked", "screen"} /\ pc \in [Tasks -> Stages]
      BY <1>4 DEF QueueScreen, LaneInv, LaneTypes
    <2>2. PICK x \in ScreenCalls \ Used : x = <<t, left[t]>>
      BY <2>1, SectionFree
    <2>3. x[1] = t /\ x[2] = left[t]
      BY <2>2
    <2>4. left' = left /\ pc' = [pc EXCEPT ![t] = "asked"] /\ gMade' = gMade + 1 /\ made' = made
      BY <1>4 DEF QueueScreen, Goto, Gui!Link, cycleLock
    <2>5. Used \union {x} \subseteq Used'
      <3>1. \A y \in ScreenCalls : y[1] \in Tasks
        BY DEF ScreenCalls, Tasks
      <3> QED
        BY <2>1, <2>2, <2>3, <2>4, <3>1 DEF Used
    <2>6. Begun \subseteq Begun' /\ Begun' \subseteq Cycles /\ Used' \subseteq ScreenCalls
      BY <2>1, <2>4 DEF Begun, Used, Tasks
    <2>7. gMade' <= Cardinality(Used \union {x})
      BY <2>4, TicketFree
    <2>8. /\ Cardinality(Used \union {x}) <= Cardinality(Used')
          /\ Cardinality(Begun) <= Cardinality(Begun')
          /\ Cardinality(Used') \in Nat /\ Cardinality(Begun') \in Nat
          /\ Cardinality(Used \union {x}) \in Nat
      BY <2>5, <2>6, Finite, FS_Subset, FS_CardinalityType
    <2> QED
      BY <1>1, <1>2, <2>4, <2>7, <2>8 DEF Counted
  <1>5. ASSUME made' = made, gMade' = gMade, Begun \subseteq Begun', Used \subseteq Used'
        PROVE  Counted'
    <2>1. Begun' \subseteq Cycles /\ Used' \subseteq ScreenCalls
      BY DEF Begun, Used
    <2>2. /\ Cardinality(Begun) <= Cardinality(Begun') /\ Cardinality(Used) <= Cardinality(Used')
          /\ Cardinality(Begun') \in Nat /\ Cardinality(Used') \in Nat
      BY <1>5, <2>1, Finite, FS_Subset, FS_CardinalityType
    <2> QED
      BY <1>1, <1>2, <1>5, <2>2 DEF Counted
  <1>6. ASSUME NEW t \in Tasks, StartCycle(t) \/ EndCycle(t) \/ TakeScreen(t) PROVE Counted'
    <2>1. pc \in [Tasks -> Stages] /\ \A x \in ScreenCalls : x[1] \in Tasks
      BY DEF LaneInv, LaneTypes, ScreenCalls, Tasks
    <2>2. /\ left' = left /\ made' = made /\ gMade' = gMade
          /\ \A u \in Tasks : /\ pc'[u] = "out" => pc[u] = "out"
                              /\ pc[u] \in {"asked", "screen"} => pc'[u] \in {"asked", "screen"}
      BY <1>6, <2>1 DEF StartCycle, EndCycle, TakeScreen, Goto, Run, Settle, Gui!Run, guiLock,
                        cycleLock
    <2> QED
      BY <1>5, <2>1, <2>2 DEF Begun, Used, Tasks
  <1>7. ASSUME NEW t \in Tasks, LeaveScreen(t) PROVE Counted'
    <2>1. pc \in [Tasks -> Stages] /\ \A x \in ScreenCalls : x[1] \in Tasks
      BY DEF LaneInv, LaneTypes, ScreenCalls, Tasks
    <2>2. left[t] \in Nat /\ left[t] > 0 /\ left \in [Tasks -> Nat] /\ left[t] > left[t] - 1
      BY <1>7 DEF LeaveScreen, LaneInv, LaneTypes
    <2>3. made' = made /\ gMade' = gMade /\ left'[t] = left[t] - 1
          /\ \A u \in Tasks \ {t} : left'[u] = left[u] /\ pc'[u] = pc[u]
      BY <1>7, <2>1, <2>2 DEF LeaveScreen, Goto, Gui!Settle, cycleLock
    <2>4. pc'[t] # "out" 
      BY <1>7, <2>1 DEF LeaveScreen, Goto
    <2>5. Begun \subseteq Begun'
      BY <2>3, <2>4 DEF Begun, Tasks
    <2>6. Used \subseteq Used'
      <3> SUFFICES ASSUME NEW x \in Used PROVE x \in Used'
        OBVIOUS
      <3>1. x \in ScreenCalls /\ x[1] \in Tasks
        BY <2>1 DEF Used
      <3>2. x[2] \in Nat
        BY <3>1, SectionsPositive DEF ScreenCalls
      <3>3. CASE x[1] = t
        BY <2>2, <2>3, <3>1, <3>2, <3>3 DEF Used
      <3>4. CASE x[1] # t
        BY <2>3, <3>1, <3>4 DEF Used
      <3> QED
        BY <3>3, <3>4
    <2> QED
      BY <1>5, <2>3, <2>5, <2>6
  <1>8. ASSUME NEW t \in Hourly, QueueHourly(t) PROVE Counted'
    BY <1>3, <1>8 DEF QueueHourly, Link, Cycles
  <1>9. ASSUME NEW t \in Polls, QueuePoll(t) PROVE Counted'
    BY <1>3, <1>9 DEF QueuePoll, Link, Refuse, Cycles, cycleLock
  <1>10. CASE UNCHANGED laneVars
    BY <1>5, <1>10 DEF laneVars, cycleLock, guiLock, Begun, Used
  <1> QED
    BY <1>4, <1>6, <1>7, <1>8, <1>9, <1>10 DEF LaneNext, Resume

-----------------------------------------------------------------------------
LEMMA LaneInvariant == LaneSpec => [](LaneInv /\ IInv /\ GuiLock!IInv)
  <1>1. LaneInit => LaneInv /\ IInv /\ GuiLock!IInv
    <2>1. LaneInit => GuiLock!Init
      BY DEF LaneInit, Gui!Init, Gui!Calls, GuiLock!Init, GuiLock!Calls
    <2> QED
      BY <2>1, LaneInvInit, InvariantInit, Finite, GuiLock!InvariantInit DEF LaneInit
  <1>2. LaneInv /\ IInv /\ GuiLock!IInv /\ [LaneNext]_laneVars => (LaneInv /\ IInv /\ GuiLock!IInv)'
    <2> SUFFICES ASSUME LaneInv, IInv, GuiLock!IInv, [LaneNext]_laneVars
                 PROVE  (LaneInv /\ IInv /\ GuiLock!IInv)'
      OBVIOUS
    <2>1. TypeOK /\ GuiLock!TypeOK
      BY DEF IInv, GuiLock!IInv
    <2>2. [Next]_vars /\ [GuiLock!Next]_(GuiLock!vars)
      BY <2>1, LaneSteps
    <2>3. IInv'
      BY <2>1, <2>2, TypesKept, InvariantNext
    <2>4. GuiLock!IInv'
      BY <2>1, <2>2, Finite, GuiLock!TypesKept, GuiLock!InvariantNext
    <2>5. LaneInv'
      BY <2>1, LaneTypesKept, CycleHeldKept, ScreenHeldKept, CountedKept DEF LaneInv
    <2> QED
      BY <2>3, <2>4, <2>5
  <1> QED
    BY <1>1, <1>2, PTL DEF LaneSpec

\* No two tasks are on the screen, and no cycle is inside its own run while
\* another is on the screen: for any number of hourly runs, polls and others.
THEOREM CyclesKeptApart == LaneSpec => []NoInterference
  <1>1. LaneInv /\ IInv /\ GuiLock!IInv => NoInterference
    <2> SUFFICES ASSUME LaneInv, IInv, GuiLock!IInv, NEW t \in Tasks, NEW u \in Tasks,
                        pc[t] = "screen", t # u
                 PROVE  /\ pc[u] # "screen"
                        /\ {t, u} \subseteq Cycles => pc[u] \notin {"in", "asked"}
      BY DEF NoInterference
    <2>1. MutualExclusion
      BY InTurnExcludes
    <2>2. GuiLock!MutualExclusion
      BY Finite, GuiLock!InTurnExcludes
    <2>3. \A v \in Tasks : /\ call[v] > 0 => call[v] \in Calls
                           /\ ticket[v] > 0 => ticket[v] \in GuiLock!Calls
      <3>1. made \in 0 .. MaxCalls /\ gMade \in 0 .. Cardinality(ScreenCalls)
        BY DEF IInv, GuiLock!IInv, TypeOK, GuiLock!TypeOK
      <3>2. \A v \in Tasks : /\ call[v] \in Nat /\ ticket[v] \in Nat
                             /\ call[v] <= made /\ ticket[v] <= gMade
        BY DEF LaneInv, LaneTypes, CycleHeld, ScreenHeld
      <3> QED
        BY <3>1, <3>2, Finite, MaxCallsNat DEF Calls, GuiLock!Calls
    <2>4. pc[u] # "screen"
      BY <2>2, <2>3 DEF LaneInv, LaneTypes, ScreenHeld, GuiLock!MutualExclusion
    <2>5. ASSUME {t, u} \subseteq Cycles PROVE pc[u] \notin {"in", "asked"}
      BY <2>1, <2>3, <2>5 DEF LaneInv, LaneTypes, CycleHeld, MutualExclusion
    <2> QED
      BY <2>4, <2>5
  <1> QED
    BY <1>1, LaneInvariant, PTL

\* The cycles of the lane are served in turn by their lock.
THEOREM LaneTurnsAreKept == LaneSpec => []InTurn
  BY LaneInvariant, PTL DEF IInv

\* Among its tasks the lane uses the cycle lock as a plain mutex.
THEOREM LaneImplementsMutex == LaneSpec => AbstractMutex
  <1>1. LaneInit => Init
    BY DEF LaneInit
  <1>2. LaneInv /\ IInv /\ GuiLock!IInv /\ [LaneNext]_laneVars => [Next]_vars
    BY LaneSteps DEF IInv, GuiLock!IInv
  <1>3. LaneSpec => Spec
    BY <1>1, <1>2, LaneInvariant, PTL DEF LaneSpec, Spec
  <1> QED
    BY <1>3, ImplementsMutex

-----------------------------------------------------------------------------
(* The poll driver, which shares the cycle lock with the lane (PollDriver,    *)
(* where the lock is one variable).                                           *)
TickRow == [at: {"free", "reading", "deciding", "cycle"}, now: 0 .. MaxTime, seen: Nat]
Reasons == {"not_evaluated", "resting", "gui_busy", "cycle_busy", "error", "due", "ran_cycle"}
PollRow == [end: 0 .. MaxTime, jitter: 0 .. Jitter, notified: BOOLEAN,
            reason: Reasons, since: 0 .. NoTime]

LEMMA Numbers ==
    /\ Gap \in Nat /\ Jitter \in Nat /\ Warmup \in Nat /\ Ceiling \in Nat /\ HourRuns \in Nat
    /\ Gap > 0 /\ MaxTime \in Nat /\ Start \in Nat /\ NoTime \in Nat
    /\ Start = Gap + Jitter /\ NoTime = MaxTime + 1 /\ Never = 0 /\ Start <= MaxTime
  BY Intervals, Times, GapPositive, Room DEF Start, NoTime, Never

LEMMA Rows ==
    ASSUME DriverTypeOK
    PROVE  /\ time \in Nat /\ time <= MaxTime /\ Start <= time
           /\ tick \in [Ticks -> TickRow] /\ poll \in PollRow
           /\ \A t \in Ticks : tick[t].now \in Nat /\ tick[t].now <= MaxTime
                       /\ tick[t].seen \in Nat
           /\ poll.end \in Nat /\ poll.end <= MaxTime
           /\ poll.jitter \in Nat /\ poll.since \in Nat /\ poll.since <= NoTime
           /\ poll.notified \in BOOLEAN /\ poll.reason \in Reasons
  <1>1. time \in Start .. MaxTime /\ tick \in [Ticks -> TickRow] /\ poll \in PollRow
    BY DEF DriverTypeOK, TickRow, PollRow, Reasons
  <1>2. \A t \in Ticks : tick[t].now \in 0 .. MaxTime /\ tick[t].seen \in Nat
    BY <1>1 DEF TickRow
  <1>3. /\ poll.end \in 0 .. MaxTime /\ poll.jitter \in 0 .. Jitter /\ poll.notified \in BOOLEAN
        /\ poll.reason \in Reasons /\ poll.since \in 0 .. NoTime
    BY <1>1 DEF PollRow
  <1> QED
    BY <1>1, <1>2, <1>3, Numbers

\* A blocked decision starts the streak or keeps it; one that is not ends it or
\* leaves it as it was.
LEMMA Stalls ==
    ASSUME NEW s \in PollRow, NEW reason \in Reasons, NEW now \in 0 .. MaxTime
    PROVE  /\ Stalled(s, reason, now) \in PollRow
           /\ Stalled(s, reason, now).end = s.end /\ Stalled(s, reason, now).jitter = s.jitter
           /\ Stalled(s, reason, now).since = IF s.since = NoTime THEN now ELSE s.since
           /\ Stalled(s, reason, now).notified =
                  (s.notified \/ now > Stalled(s, reason, now).since + 3 * Gap)
  <1>1. now \in 0 .. NoTime
    BY Numbers
  <1> QED
    BY <1>1 DEF Stalled, PollRow

LEMMA Flows ==
    ASSUME NEW s \in PollRow, NEW reason \in Reasons
    PROVE  /\ Flowing(s, reason) \in PollRow
           /\ Flowing(s, reason).end = s.end /\ Flowing(s, reason).jitter = s.jitter
           /\ Flowing(s, reason).since \in {s.since, NoTime}
           /\ Flowing(s, reason).notified = (reason # "ran_cycle" /\ s.notified)
           /\ reason = "ran_cycle" => Flowing(s, reason).since = NoTime
  <1>1. NoTime \in 0 .. NoTime
    BY Numbers
  <1> QED
    BY <1>1 DEF Flowing, PollRow

LEMMA Tracked ==
    ASSUME NEW reason \in Reasons, NEW now \in 0 .. MaxTime, poll \in PollRow, Track(reason, now)
    PROVE  /\ poll' \in PollRow /\ poll'.end = poll.end /\ poll'.jitter = poll.jitter
           /\ Blocked(reason) => /\ poll'.since = IF poll.since = NoTime THEN now ELSE poll.since
                                 /\ poll'.notified = (poll.notified
                                             \/ now > poll'.since + 3 * Gap)
           /\ ~Blocked(reason) => /\ poll'.since \in {poll.since, NoTime}
                                  /\ poll'.notified = (reason # "ran_cycle" /\ poll.notified)
  BY Stalls, Flows DEF Track

-----------------------------------------------------------------------------
LEMMA TypeKept == ASSUME DriverTypeOK, [DriverNext]_driverVars PROVE DriverTypeOK'
  <1> USE DEF DriverTypeOK
  <1>0. /\ time \in Nat /\ time <= MaxTime /\ Start <= time
        /\ tick \in [Ticks -> TickRow] /\ poll \in PollRow
        /\ poll.reason \in Reasons
    BY Rows
  <1>1. ASSUME NEW t \in Ticks, Fire(t) PROVE DriverTypeOK'
    <2>1. time' \in Start .. MaxTime /\ time' \in 0 .. MaxTime
      BY <1>0, <1>1, Numbers DEF Fire
    <2>2. tick' \in [Ticks -> TickRow]
      BY <1>0, <1>1, <2>1 DEF Fire, TickRow
    <2> QED
      BY <1>1, <2>1, <2>2 DEF Fire, TickRow
  <1>2. ASSUME NEW t \in Ticks, Count(t) PROVE DriverTypeOK'
    <2>1. tick' \in [Ticks -> TickRow]
      BY <1>0, <1>2 DEF Count, TickRow
    <2> QED
      BY <1>2, <2>1 DEF Count, TickRow
  <1>3. Idle \in TickRow
    BY Numbers DEF Idle, TickRow
  <1>4. ASSUME NEW t \in Ticks, ReadError(t) PROVE DriverTypeOK'
    <2>1. tick' \in [Ticks -> TickRow] /\ poll' \in PollRow
      BY <1>0, <1>3, <1>4 DEF ReadError, PollRow, Reasons
    <2> QED
      BY <1>4, <2>1 DEF ReadError, TickRow, PollRow, Reasons
  <1>5. ASSUME NEW t \in Ticks, Rest(t) PROVE DriverTypeOK'
    <2>1. tick[t].now \in 0 .. MaxTime /\ "resting" \in Reasons
      BY <1>0 DEF TickRow, Reasons
    <2>2. poll' \in PollRow
      BY <1>0, <1>5, <2>1, Tracked DEF Rest
    <2>3. tick' \in [Ticks -> TickRow]
      BY <1>0, <1>3, <1>5 DEF Rest
    <2> QED
      BY <1>5, <2>2, <2>3 DEF Rest, TickRow, PollRow, Reasons
  <1>6. ASSUME NEW t \in Ticks, Blocks(t) PROVE DriverTypeOK'
    <2>1. tick[t].now \in 0 .. MaxTime
      BY <1>0 DEF TickRow
    <2>2. PICK reason \in {"gui_busy", "cycle_busy"} : Track(reason, tick[t].now)
      BY <1>6 DEF Blocks
    <2>3. reason \in Reasons
      BY DEF Reasons
    <2>4. poll' \in PollRow
      BY <1>0, <2>1, <2>2, <2>3, Tracked
    <2>5. tick' \in [Ticks -> TickRow]
      BY <1>0, <1>3, <1>6 DEF Blocks
    <2> QED
      BY <1>6, <2>4, <2>5 DEF Blocks, TickRow, PollRow, Reasons
  <1>7. ASSUME NEW t \in Ticks, StartPoll(t) PROVE DriverTypeOK'
    <2>1. tick' \in [Ticks -> TickRow] /\ poll' \in PollRow
      BY <1>0, <1>7 DEF StartPoll, PollRow, Reasons, TickRow
    <2> QED
      BY <1>7, <2>1 DEF StartPoll, TickRow, PollRow, Reasons
  <1>8. ASSUME NEW t \in Ticks, EndPoll(t) PROVE DriverTypeOK'
    <2>1. "ran_cycle" \in Reasons /\ time \in 0 .. MaxTime
      BY <1>0, Numbers DEF Reasons
    <2>2. Flowing(poll, "ran_cycle") \in PollRow
      BY <1>0, <2>1, Flows
    <2>3. PICK j \in 0 .. Jitter : poll' = [Flowing(poll, "ran_cycle") EXCEPT !.end = time,
                !.jitter = j]
      BY <1>8 DEF EndPoll
    <2>4. poll' \in PollRow
      BY <2>1, <2>2, <2>3 DEF PollRow
    <2>5. tick' \in [Ticks -> TickRow]
      BY <1>0, <1>3, <1>8 DEF EndPoll
    <2>6. cycle' \in 0 .. 2
      BY <1>8 DEF EndPoll
    <2> QED
      BY <1>8, <2>4, <2>5, <2>6 DEF EndPoll, TickRow, PollRow, Reasons
  <1>9. CASE Broadcast
    BY <1>9 DEF Broadcast
  <1>10. CASE StartHour
    BY <1>10, Numbers DEF StartHour
  <1>11. CASE EndHour
    BY <1>11 DEF EndHour
  <1>12. CASE Restart
    <2>1. PICK j \in 0 .. Jitter : poll' = [Fresh EXCEPT !.jitter = j]
      BY <1>12 DEF Restart
    <2>2. 0 \in 0 .. MaxTime /\ 0 \in 0 .. Jitter /\ NoTime \in 0 .. NoTime
      BY Numbers
    <2>5. Fresh \in PollRow
      BY <2>2, Numbers DEF Fresh, PollRow, Reasons
    <2>6. poll' \in PollRow
      BY <2>1, <2>5 DEF PollRow
    <2>3. tick' \in [Ticks -> TickRow]
      BY <1>3, <1>12 DEF Restart
    <2>4. cycle' \in 0 .. 2
      BY <1>12 DEF Restart
    <2> QED
      BY <1>12, <2>6, <2>3, <2>4 DEF Restart, TickRow, PollRow, Reasons
  <1>13. CASE UNCHANGED driverVars
    BY <1>13 DEF driverVars
  <1> QED
    BY <1>1, <1>2, <1>4, <1>5, <1>6, <1>7, <1>8, <1>9, <1>10, <1>11, <1>12, <1>13 DEF DriverNext

LEMMA Clean ==
    0 \in 0 .. MaxTime /\ 0 \in 0 .. Jitter /\ NoTime \in 0 .. NoTime
    /\ Fresh \in PollRow /\ Idle \in TickRow
  <1>1. 0 \in 0 .. MaxTime /\ 0 \in 0 .. Jitter /\ NoTime \in 0 .. NoTime
    BY Numbers
  <1> QED
    BY <1>1, Numbers DEF Fresh, PollRow, Reasons, Idle, TickRow

LEMMA TypeStarts == DriverInit => DriverTypeOK
  <1> SUFFICES ASSUME DriverInit PROVE DriverTypeOK
    OBVIOUS
  <1>1. PICK j \in 0 .. Jitter : poll = [Fresh EXCEPT !.jitter = j]
    BY DEF DriverInit
  <1>2. poll \in PollRow
    BY <1>1, Clean DEF PollRow
  <1>3. time \in Start .. MaxTime /\ runs \in 0 .. HourRuns /\ tick \in [Ticks -> TickRow]
    BY Numbers, Clean DEF DriverInit
  <1> QED
    BY <1>2, <1>3 DEF DriverInit, DriverTypeOK, TickRow, PollRow, Reasons

\* The clock, the ticks, pollState and the counts stay well typed.
THEOREM DriverTyping == DriverSpec => []DriverTypeOK
  BY TypeStarts, TypeKept, PTL DEF DriverSpec

-----------------------------------------------------------------------------
(* The gap.  lastCycleEndMs is when a poll last ended, and a tick that        *)
(* decides is one of the last two.                                            *)
GapInv ==
    /\ ran = poll.end /\ ran <= time
    /\ \A t \in Ticks :
           /\ tick[t].now <= time
           /\ tick[t].at \in {"reading", "deciding"} => time <= tick[t].now + 1

\* A streak: what was blocked since "stuck" is known to pollState, which began
\* to count no later than a tick after; it knows nothing from before a poll.
StreakInv ==
    /\ stuck # NoTime => /\ stuck \in Nat /\ poll.since # NoTime /\ poll.since <= stuck + 1
    /\ poll.since # NoTime => ran <= poll.since /\ poll.since <= time
    /\ notes.stalls \in Nat /\ notes.recoveries \in Nat
    /\ notes.stalls = notes.recoveries + IF poll.notified THEN 1 ELSE 0

\* Polls have sent p of today's batches, the scheduled cycles h.
Eligible(t) == tick[t].now >= poll.end + Gap + poll.jitter
Split(p, h) ==
    /\ p \in Nat /\ h \in Nat
    /\ sent = p + h
    /\ h + (IF lock = "hour" THEN 2 - cycle ELSE 0) <= 2 * runs
    /\ lock = "free" => cycle = 0
    /\ p <= Ceiling + 1
    /\ lock = "poll" => p + 1 <= Ceiling + cycle
    /\ lock # "poll" =>
           \A t \in Ticks : tick[t].at = "deciding" /\ Eligible(t) => p <= tick[t].seen
SentInv == Ceiling > 0 => \E p, h : Split(p, h)

LEMMA GapKept == ASSUME DriverTypeOK, DriverTypeOK', GapInv, [DriverNext]_driverVars PROVE GapInv'
  <1>1. /\ time \in Nat /\ tick \in [Ticks -> TickRow] /\ poll \in PollRow
        /\ \A t \in Ticks : tick[t].now \in Nat
        /\ poll.end \in Nat
    BY Rows
  <1>2. Idle.at = "free" /\ Idle.now = 0
    BY DEF Idle
  <1>3. ASSUME NEW t \in Ticks, Fire(t) PROVE GapInv'
    <2>1. time' = time + 1 /\ poll' = poll /\ ran' = ran
      BY <1>3 DEF Fire
    <2>2. ASSUME NEW u \in Ticks
          PROVE  /\ tick'[u].now <= time'
                 /\ tick'[u].at \in {"reading", "deciding"} => time' <= tick'[u].now + 1
      <3>1. CASE u = t
        <4>1. tick'[u].now = time'
          BY <1>1, <1>3, <3>1 DEF Fire
        <4> QED
          BY <1>1, <2>1, <4>1
      <3>2. CASE u # t
        <4>1. tick'[u] = tick[u] /\ (tick[u].at \in {"reading", "deciding"} => tick[u].now = time)
          BY <1>1, <1>3, <3>2 DEF Fire
        <4> QED
          BY <1>1, <2>1, <4>1 DEF GapInv
      <3> QED
        BY <3>1, <3>2
    <2>3. ran \in Nat /\ ran <= time
      BY <1>1 DEF GapInv
    <2> QED
      BY <1>1, <2>1, <2>2, <2>3 DEF GapInv
  <1>4. ASSUME NEW t \in Ticks,
               \/ Count(t) \/ ReadError(t) \/ Rest(t) \/ Blocks(t) \/ StartPoll(t)
        PROVE  GapInv'
    <2>1. time' = time /\ ran' = ran
      BY <1>4 DEF Count, ReadError, Rest, Blocks, StartPoll
    <2>2. poll'.end = poll.end
      <3>1. CASE Count(t) \/ ReadError(t) \/ StartPoll(t)
        BY <1>1, <3>1 DEF Count, ReadError, StartPoll, PollRow
      <3>2. CASE Rest(t) \/ Blocks(t)
        <4>1. tick[t].now \in 0 .. MaxTime
          BY <1>1 DEF TickRow
        <4>2. PICK reason \in Reasons : Track(reason, tick[t].now)
          BY <3>2 DEF Rest, Blocks, Reasons
        <4> QED
          BY <1>1, <4>1, <4>2, Tracked
      <3> QED
        BY <1>4, <3>1, <3>2
    <2>3. ASSUME NEW u \in Ticks
          PROVE  \/ tick'[u] = Idle
                 \/ /\ tick'[u].now = tick[u].now
                    /\ tick'[u].at \in {"reading", "deciding"} => tick[u].at \in {"reading",
                                "deciding"}
      <3>1. CASE Count(t)
        BY <1>1, <3>1 DEF Count, TickRow
      <3>2. CASE ReadError(t) \/ Rest(t) \/ Blocks(t)
        BY <1>1, <3>2 DEF ReadError, Rest, Blocks
      <3>3. CASE StartPoll(t)
        <4>1. tick' = [tick EXCEPT ![t].at = "cycle"]
          BY <3>3 DEF StartPoll
        <4>2. CASE u = t
          BY <1>1, <4>1, <4>2 DEF TickRow
        <4>3. CASE u # t
          BY <1>1, <4>1, <4>3
        <4> QED
          BY <4>2, <4>3
      <3> QED
        BY <1>4, <3>1, <3>2, <3>3
    <2> QED
      BY <1>1, <1>2, <2>1, <2>2, <2>3 DEF GapInv
  <1>5. ASSUME NEW t \in Ticks, EndPoll(t) PROVE GapInv'
    <2>1. PICK j \in 0 .. Jitter : poll' = [Flowing(poll, "ran_cycle") EXCEPT !.end = time,
                !.jitter = j]
      BY <1>5 DEF EndPoll
    <2>2. Flowing(poll, "ran_cycle") \in PollRow
      BY <1>1, Flows DEF Reasons
    <2>3. poll'.end = time
      BY <2>1, <2>2 DEF PollRow
    <2>4. \A u \in Ticks : tick'[u] = tick[u] \/ tick'[u] = Idle
      BY <1>1, <1>5 DEF EndPoll
    <2>5. time' = time /\ ran' = time
      BY <1>5 DEF EndPoll
    <2> QED
      BY <1>1, <1>2, <2>3, <2>4, <2>5 DEF GapInv
  <1>6. CASE Restart
    <2>1. poll'.end = 0 /\ ran' = 0 /\ time' = time
      BY <1>6 DEF Restart, Fresh, Never
    <2>2. \A u \in Ticks : tick'[u] = Idle
      BY <1>6 DEF Restart
    <2> QED
      BY <1>1, <1>2, <2>1, <2>2 DEF GapInv
  <1>7. CASE Broadcast \/ StartHour \/ EndHour \/ UNCHANGED driverVars
    BY <1>7 DEF Broadcast, StartHour, EndHour, driverVars, GapInv
  <1> QED
    BY <1>3, <1>4, <1>5, <1>6, <1>7 DEF DriverNext

LEMMA GapStarts == DriverInit => GapInv
  BY Numbers DEF DriverInit, GapInv, Fresh, Idle

LEMMA GapHolds == DriverSpec => []GapInv
  BY GapStarts, GapKept, DriverTyping, PTL DEF DriverSpec

\* A step that may start a poll, seen from the invariants.
LEMMA GapStep == ASSUME DriverTypeOK, GapInv, [DriverNext]_driverVars
            PROVE PollStarts => time >= ran + Gap
  <1> SUFFICES ASSUME PollStarts PROVE time >= ran + Gap
    OBVIOUS
  <1>1. PICK t \in Ticks : StartPoll(t)
    BY DEF PollStarts, DriverNext, Fire, Count, ReadError, Rest, Blocks, EndPoll, Broadcast,
                StartHour,
           EndHour, Restart, driverVars
  <1>2. ~(tick[t].now < poll.end + Gap + poll.jitter)
    BY <1>1 DEF StartPoll, Resting
  <1>3. /\ tick[t].now \in Nat /\ poll.end \in Nat /\ poll.jitter \in Nat /\ time \in Nat
        /\ tick[t].now <= time /\ ran = poll.end
    BY Rows DEF GapInv
  <1> QED
    BY <1>2, <1>3, Numbers

\* Overlapping ticks, each with a now it read before its awaits, never start a
\* poll sooner than the gap after the last one.
THEOREM GapIsKept == DriverSpec => PollsKeepTheGap
  <1>1. DriverTypeOK /\ GapInv /\ [DriverNext]_driverVars => [PollStarts
              => time >= ran + Gap]_driverVars
    BY GapStep
  <1> QED
    BY <1>1, DriverTyping, GapHolds, PTL DEF DriverSpec, PollsKeepTheGap

-----------------------------------------------------------------------------
LEMMA StreakKept == ASSUME DriverTypeOK, DriverTypeOK', GapInv, StreakInv,
            [DriverNext]_driverVars PROVE StreakInv'
  <1>1. /\ time \in Nat /\ tick \in [Ticks -> TickRow] /\ poll \in PollRow /\ time <= MaxTime
        /\ \A t \in Ticks : tick[t].now \in Nat /\ tick[t].now <= MaxTime
        /\ poll.end \in Nat /\ poll.since \in Nat /\ poll.since <= NoTime /\ poll.jitter \in Nat
        /\ poll.notified \in BOOLEAN
    BY Rows
  <1>2. /\ NoTime \in Nat /\ MaxTime \in Nat /\ MaxTime < NoTime /\ Gap \in Nat /\ Gap > 0
    BY Numbers
  <1>3. ran \in Nat /\ ran <= time /\ ran = poll.end
    BY <1>1 DEF GapInv
  <1>4. ASSUME NEW t \in Ticks, Fire(t) \/ Count(t) \/ ReadError(t) \/ StartPoll(t)
        PROVE  StreakInv'
    <2>1. /\ poll'.since = poll.since /\ poll'.notified = poll.notified
          /\ notes' = notes /\ ran' = ran /\ stuck' \in {stuck, NoTime}
      BY <1>1, <1>4 DEF Fire, Count, ReadError, StartPoll, PollRow
    <2>2. time' \in Nat /\ time <= time'
      BY <1>1, <1>4 DEF Fire, Count, ReadError, StartPoll
    <2> QED
      BY <1>1, <1>2, <1>3, <2>1, <2>2 DEF StreakInv
  <1>5. ASSUME NEW t \in Ticks, Rest(t) PROVE StreakInv'
    <2>1. tick[t].now \in 0 .. MaxTime /\ "resting" \in Reasons /\ ~Blocked("resting")
      BY <1>1 DEF TickRow, Reasons, Blocked
    <2>2. Track("resting", tick[t].now) /\ stuck' = NoTime /\ ran' = ran /\ time' = time
      BY <1>5 DEF Rest
    <2>3. poll'.since \in {poll.since, NoTime} /\ poll'.notified = poll.notified
      BY <1>1, <2>1, <2>2, Tracked
    <2>4. notes'.stalls = notes.stalls /\ notes'.recoveries = notes.recoveries
      BY <1>1, <2>2, <2>3 DEF Track, StreakInv
    <2> QED
      BY <1>1, <1>2, <1>3, <2>2, <2>3, <2>4 DEF StreakInv
  <1>6. ASSUME NEW t \in Ticks, Blocks(t) PROVE StreakInv'
    <2>1. PICK reason \in {"gui_busy", "cycle_busy"} : Track(reason, tick[t].now)
      BY <1>6 DEF Blocks
    <2>2. reason \in Reasons /\ Blocked(reason) /\ tick[t].now \in 0 .. MaxTime
      BY <1>1 DEF TickRow, Reasons, Blocked
    <2>3. /\ poll'.since = IF poll.since = NoTime THEN tick[t].now ELSE poll.since
          /\ poll'.notified = (poll.notified \/ tick[t].now > poll'.since + 3 * Gap)
      BY <1>1, <2>1, <2>2, Tracked
    <2>4. /\ ran' = ran /\ time' = time
          /\ stuck' = IF stuck = NoTime THEN tick[t].now ELSE stuck
          /\ tick[t].at = "deciding" /\ ~(tick[t].now < poll.end + Gap + poll.jitter)
      BY <1>6 DEF Blocks, Resting
    <2>5. PICK n \in Nat : n = tick[t].now /\ n <= time /\ time <= n + 1 /\ n <= MaxTime
      BY <1>1, <2>4 DEF GapInv
    <2>6. ran <= n
      BY <1>1, <1>2, <1>3, <2>4, <2>5
    <2>7. poll'.since \in Nat /\ ran <= poll'.since /\ poll'.since <= time /\ poll'.since # NoTime
      <3>1. CASE poll.since = NoTime
        BY <1>2, <2>3, <2>5, <2>6, <3>1
      <3>2. CASE poll.since # NoTime
        BY <1>1, <2>3, <3>2 DEF StreakInv
      <3> QED
        BY <3>1, <3>2
    <2>8. stuck' \in Nat /\ poll'.since <= stuck' + 1
      <3>1. CASE stuck = NoTime
        BY <1>1, <2>4, <2>5, <2>7, <3>1
      <3>2. CASE stuck # NoTime
        BY <2>3, <2>4, <3>2 DEF StreakInv
      <3> QED
        BY <3>1, <3>2
    <2>9. /\ notes'.stalls = notes.stalls + IF ~poll.notified /\ poll'.notified THEN 1 ELSE 0
          /\ notes'.recoveries = notes.recoveries + 0
      BY <2>1 DEF Track
    <2>10. poll.notified => poll'.notified
      BY <2>3
    <2>11. poll'.notified \in BOOLEAN
      BY <1>1, <2>3
    <2>12. /\ notes'.stalls \in Nat /\ notes'.recoveries \in Nat
           /\ notes'.stalls = notes'.recoveries + IF poll'.notified THEN 1 ELSE 0
      BY <1>1, <2>9, <2>10, <2>11 DEF StreakInv
    <2> QED
      BY <2>4, <2>7, <2>8, <2>12 DEF StreakInv
  <1>7. ASSUME NEW t \in Ticks, EndPoll(t) PROVE StreakInv'
    <2>1. PICK j \in 0 .. Jitter : poll' = [Flowing(poll, "ran_cycle") EXCEPT !.end = time,
                !.jitter = j]
      BY <1>7 DEF EndPoll
    <2>2. /\ Flowing(poll, "ran_cycle") \in PollRow
          /\ Flowing(poll, "ran_cycle").since = NoTime /\ Flowing(poll,
                      "ran_cycle").notified = FALSE
      BY <1>1, Flows DEF Reasons
    <2>3. poll'.since = NoTime /\ poll'.notified = FALSE
      BY <2>1, <2>2 DEF PollRow
    <2>4. /\ notes' = [notes EXCEPT !.recoveries = @ + IF poll.notified THEN 1 ELSE 0]
          /\ stuck' = NoTime
      BY <1>7 DEF EndPoll
    <2>5. notes'.stalls = notes.stalls
          /\ notes'.recoveries = notes.recoveries + IF poll.notified THEN 1 ELSE 0
      BY <2>4 DEF StreakInv
    <2> QED
      BY <1>1, <2>3, <2>4, <2>5 DEF StreakInv
  <1>8. CASE Restart
    <2>1. PICK j \in 0 .. Jitter : poll' = [Fresh EXCEPT !.jitter = j]
      BY <1>8 DEF Restart
    <2>2. poll'.since = NoTime /\ poll'.notified = FALSE
      BY <2>1 DEF Fresh
    <2> QED
      BY <1>8, <2>2 DEF Restart, StreakInv
  <1>9. CASE Broadcast \/ StartHour \/ EndHour \/ UNCHANGED driverVars
    BY <1>9 DEF Broadcast, StartHour, EndHour, driverVars, StreakInv
  <1> QED
    BY <1>4, <1>5, <1>6, <1>7, <1>8, <1>9 DEF DriverNext

LEMMA StreakStarts == DriverInit => StreakInv
  BY DEF DriverInit, StreakInv, Fresh

LEMMA StreakHolds == DriverSpec => []StreakInv
  BY StreakStarts, StreakKept, DriverTyping, GapHolds, PTL DEF DriverSpec

NotesStep ==
    /\ notes'.stalls > notes.stalls => time > ran + 3 * Gap
    /\ notes'.stalls - notes'.recoveries \in {0, 1}
    /\ \A t \in Ticks :
           /\ tick[t].at = "deciding" /\ tick'[t].at = "free"
           /\ stuck' # NoTime /\ tick[t].now > stuck' + 3 * Gap + 1
           => poll'.notified

LEMMA NotesKept == ASSUME DriverTypeOK, DriverTypeOK', GapInv, StreakInv, StreakInv',
            [DriverNext]_driverVars PROVE [NotesStep]_driverVars
  <1>1. /\ time \in Nat /\ tick \in [Ticks -> TickRow] /\ poll \in PollRow /\ time <= MaxTime
        /\ \A t \in Ticks : tick[t].now \in Nat /\ tick[t].now <= MaxTime
        /\ poll.end \in Nat /\ poll.since \in Nat /\ poll.jitter \in Nat
        /\ poll.notified \in BOOLEAN
    BY Rows
  <1>2. NoTime \in Nat /\ Gap \in Nat /\ Gap > 0 /\ ran \in Nat
    BY <1>1, Numbers DEF GapInv
  <1>3. notes'.stalls - notes'.recoveries \in {0, 1}
    BY DEF StreakInv
  <1>4. ASSUME NEW t \in Ticks, Blocks(t) PROVE NotesStep
    <2>1. PICK reason \in {"gui_busy", "cycle_busy"} : Track(reason, tick[t].now)
      BY <1>4 DEF Blocks
    <2>2. reason \in Reasons /\ Blocked(reason) /\ tick[t].now \in 0 .. MaxTime
      BY <1>1 DEF TickRow, Reasons, Blocked
    <2>3. /\ poll'.since = IF poll.since = NoTime THEN tick[t].now ELSE poll.since
          /\ poll'.notified = (poll.notified \/ tick[t].now > poll'.since + 3 * Gap)
      BY <1>1, <2>1, <2>2, Tracked
    <2>4. PICK n \in Nat : n = tick[t].now /\ n <= time
      BY <1>1 DEF GapInv
    <2>5. PICK s \in Nat : s = poll'.since
      BY <1>1, <2>3, <2>4
    <2>6. notes'.stalls > notes.stalls => time > ran + 3 * Gap
      <3> SUFFICES ASSUME notes'.stalls > notes.stalls PROVE time > ran + 3 * Gap
        OBVIOUS
      <3>1. notes'.stalls = notes.stalls + IF ~poll.notified /\ poll'.notified THEN 1 ELSE 0
        BY <2>1 DEF Track
      <3>2. ~poll.notified /\ poll'.notified
        BY <3>1 DEF StreakInv
      <3>3. n > s + 3 * Gap
        BY <2>3, <2>4, <2>5, <3>2
      <3>4. ran <= s
        <4>1. ran' = ran /\ poll'.since # NoTime
          <5>1. ran' = ran /\ n <= MaxTime /\ n # NoTime
            BY <1>1, <1>4, <2>4, Numbers DEF Blocks
          <5> QED
            BY <2>3, <2>4, <5>1
        <4> QED
          BY <2>5, <4>1 DEF StreakInv
      <3> QED
        BY <1>1, <1>2, <2>4, <3>3, <3>4
    <2>7. ASSUME NEW u \in Ticks, tick[u].at = "deciding", tick'[u].at = "free", stuck' # NoTime,
                 tick[u].now > stuck' + 3 * Gap + 1
          PROVE  poll'.notified
      <3>1. u = t
        BY <1>1, <1>4, <2>7 DEF Blocks
      <3>2. PICK k \in Nat : k = stuck' /\ s <= k + 1
        BY <2>5, <2>7 DEF StreakInv
      <3>3. PICK g \in Nat : g = 3 * Gap
        BY <1>2
      <3>4. n > k + g + 1
        BY <1>2, <2>4, <2>7, <3>1, <3>2, <3>3
      <3>5. n > s + g
        BY <2>4, <2>5, <3>2, <3>3, <3>4
      <3> QED
        BY <2>3, <2>4, <2>5, <3>3, <3>5
    <2> QED
      BY <1>3, <2>6, <2>7 DEF NotesStep
  <1>5. ASSUME NEW t \in Ticks, Rest(t) PROVE NotesStep
    <2>1. stuck' = NoTime /\ Track("resting", tick[t].now)
      BY <1>5 DEF Rest
    <2>2. tick[t].now \in 0 .. MaxTime /\ "resting" \in Reasons /\ ~Blocked("resting")
      BY <1>1 DEF TickRow, Reasons, Blocked
    <2>3. poll'.notified = poll.notified
      BY <1>1, <2>1, <2>2, Tracked
    <2>4. notes'.stalls = notes.stalls
      BY <2>1, <2>3 DEF Track, StreakInv
    <2> QED
      BY <1>3, <2>1, <2>4 DEF NotesStep, StreakInv
  <1>6. ASSUME NEW t \in Ticks, EndPoll(t) PROVE NotesStep
    <2>1. stuck' = NoTime /\ notes'.stalls = notes.stalls
      BY <1>6 DEF EndPoll, StreakInv
    <2> QED
      BY <1>3, <2>1 DEF NotesStep, StreakInv
  <1>7. CASE Restart
    BY <1>3, <1>7 DEF NotesStep, StreakInv, Restart
  <1>8. ASSUME NEW t \in Ticks, Fire(t) \/ Count(t) \/ ReadError(t) \/ StartPoll(t)
              PROVE NotesStep
    <2>1. notes' = notes
      BY <1>8 DEF Fire, Count, ReadError, StartPoll
    <2>2. ASSUME NEW u \in Ticks, tick[u].at = "deciding" PROVE tick'[u].at # "free"
      <3>1. CASE u = t
        <4>1. StartPoll(t)
          BY <1>1, <1>8, <2>2, <3>1 DEF Fire, Count, ReadError
        <4>2. tick' = [tick EXCEPT ![t].at = "cycle"]
          BY <4>1 DEF StartPoll
        <4> QED
          BY <1>1, <3>1, <4>2 DEF TickRow
      <3>2. CASE u # t
        BY <1>1, <1>8, <2>2, <3>2 DEF Fire, Count, ReadError, StartPoll
      <3> QED
        BY <3>1, <3>2
    <2> QED
      BY <1>3, <2>1, <2>2 DEF NotesStep, StreakInv
  <1>9. CASE Broadcast \/ StartHour \/ EndHour
    BY <1>3, <1>9 DEF NotesStep, StreakInv, Broadcast, StartHour, EndHour
  <1> QED
    BY <1>4, <1>5, <1>6, <1>7, <1>8, <1>9 DEF DriverNext

\* Whatever ticks interleave, the owner is told of a stall only when no poll has
\* ended for three gaps, once a streak, and of every streak that long.
THEOREM StallsAreNoted == DriverSpec => StallNotes
  <1>1. [NotesStep]_driverVars =>
            [/\ notes'.stalls > notes.stalls => time > ran + 3 * Gap
             /\ notes'.stalls - notes'.recoveries \in {0, 1}
             /\ \A t \in Ticks :
                    /\ tick[t].at = "deciding" /\ tick'[t].at = "free"
                    /\ stuck' # NoTime /\ tick[t].now > stuck' + 3 * Gap + 1
                    => poll'.notified]_driverVars
    BY DEF NotesStep
  <1> QED
    BY <1>1, NotesKept, DriverTyping, GapHolds, StreakHolds, PTL DEF DriverSpec, StallNotes

-----------------------------------------------------------------------------
(* The ceiling.  A poll that starts has counted all that polls have sent: the *)
(* ticks that counted before the last poll ended are due no more.             *)
LEMMA SentKept == ASSUME DriverTypeOK, DriverTypeOK', GapInv, SentInv, [DriverNext]_driverVars
            PROVE SentInv'
  <1> SUFFICES ASSUME Ceiling > 0 PROVE \E p, h : Split(p, h)'
    BY DEF SentInv
  <1>1. PICK p, h : Split(p, h)
    BY DEF SentInv
  <1>2. /\ p \in Nat /\ h \in Nat /\ sent = p + h
        /\ runs \in Nat /\ cycle \in {0, 1, 2} /\ lock \in {"free", "poll", "hour"}
        /\ Ceiling \in Nat
    BY <1>1, Numbers DEF Split, DriverTypeOK
  <1>3. /\ tick \in [Ticks -> TickRow] /\ poll \in PollRow /\ time \in Nat
        /\ \A t \in Ticks : tick[t].now \in Nat /\ tick[t].seen \in Nat
        /\ poll.end \in Nat /\ poll.jitter \in Nat
    BY Rows
  <1>4. ASSUME NEW t \in Ticks, Fire(t) \/ ReadError(t) \/ Rest(t) \/ Blocks(t)
        PROVE  Split(p, h)'
    <2>1. UNCHANGED <<lock, sent, runs, cycle>>
      BY <1>4 DEF Fire, ReadError, Rest, Blocks
    <2>2. poll'.end = poll.end /\ poll'.jitter = poll.jitter
      <3>1. CASE Fire(t) \/ ReadError(t)
        BY <1>3, <3>1 DEF Fire, ReadError, PollRow
      <3>2. CASE Rest(t) \/ Blocks(t)
        <4>1. tick[t].now \in 0 .. MaxTime
          BY <1>3 DEF TickRow
        <4>2. PICK reason \in Reasons : Track(reason, tick[t].now)
          BY <3>2 DEF Rest, Blocks, Reasons
        <4> QED
          BY <1>3, <4>1, <4>2, Tracked
      <3> QED
        BY <1>4, <3>1, <3>2
    <2>3. \A u \in Ticks : tick'[u].at = "deciding" => tick'[u] = tick[u]
      BY <1>3, <1>4 DEF Fire, ReadError, Rest, Blocks, Idle
    <2> QED
      BY <1>1, <2>1, <2>2, <2>3 DEF Split, Eligible
  <1>5. ASSUME NEW t \in Ticks, Count(t) PROVE Split(p, h)'
    <2>1. /\ UNCHANGED <<lock, sent, runs, cycle, poll>> /\ tick'[t].seen = sent
          /\ \A u \in Ticks \ {t} : tick'[u] = tick[u]
      BY <1>3, <1>5 DEF Count, TickRow
    <2>2. p <= tick'[t].seen
      BY <1>2, <2>1
    <2> QED
      BY <1>1, <2>1, <2>2 DEF Split, Eligible
  <1>6. ASSUME NEW t \in Ticks, StartPoll(t) PROVE Split(p, h)'
    <2>1. /\ UNCHANGED <<sent, runs, cycle>> /\ lock = "free" /\ lock' = "poll"
          /\ tick[t].at = "deciding" /\ ~Resting(t)
      BY <1>6 DEF StartPoll
    <2>2. PICK s \in Nat : s = tick[t].seen /\ s < Ceiling
      BY <1>2, <1>3, <2>1 DEF Resting
    <2>3. Eligible(t)
      <3>1. tick[t].now \in Nat /\ poll.end + Gap + poll.jitter \in Nat
        BY <1>3, Numbers
      <3> QED
        BY <2>1, <3>1 DEF Resting, Eligible
    <2>4. p <= s
      BY <1>1, <2>1, <2>2, <2>3 DEF Split
    <2>5. cycle = 0 /\ p + 1 <= Ceiling + cycle
      BY <1>1, <1>2, <2>1, <2>2, <2>4 DEF Split
    <2> QED
      BY <1>1, <1>2, <2>1, <2>5 DEF Split
  <1>7. ASSUME NEW t \in Ticks, EndPoll(t) PROVE Split(p, h)'
    <2>1. UNCHANGED <<sent, runs>> /\ lock' = "free" /\ cycle' = 0
      BY <1>7 DEF EndPoll
    <2>2. PICK j \in 0 .. Jitter : poll' = [Flowing(poll, "ran_cycle") EXCEPT !.end = time,
                !.jitter = j]
      BY <1>7 DEF EndPoll
    <2>3. Flowing(poll, "ran_cycle") \in PollRow
      BY <1>3, Flows DEF Reasons
    <2>4. poll'.end = time /\ poll'.jitter = j /\ j \in Nat
      BY <2>2, <2>3, Numbers DEF PollRow
    <2>5. ASSUME NEW u \in Ticks, tick'[u].at = "deciding" PROVE ~Eligible(u)'
      <3>1. tick'[u] = tick[u]
        BY <1>3, <1>7, <2>5 DEF EndPoll, Idle
      <3>2. tick[u].now <= time /\ tick[u].now \in Nat
        BY <1>3 DEF GapInv
      <3> QED
        BY <1>3, <2>4, <3>1, <3>2, Numbers DEF Eligible
    <2>6. h <= 2 * runs
      BY <1>1, <1>2 DEF Split
    <2> QED
      BY <1>1, <1>2, <2>1, <2>5, <2>6 DEF Split
  <1>8. CASE Broadcast
    <2>1. /\ UNCHANGED <<tick, poll, lock, runs>> /\ lock # "free" /\ cycle < 2
          /\ cycle' = cycle + 1 /\ sent' = sent + 1
      BY <1>8 DEF Broadcast
    <2>2. CASE lock = "poll"
      <3>1. /\ p + 1 \in Nat /\ sent' = (p + 1) + h /\ (p + 1) + 1 <= Ceiling + cycle'
            /\ p + 1 <= Ceiling + 1
        BY <1>1, <1>2, <2>1, <2>2 DEF Split
      <3>2. Split(p + 1, h)'
        BY <1>1, <1>2, <2>1, <2>2, <3>1 DEF Split
      <3> QED
        BY <3>2
    <2>3. CASE lock = "hour"
      <3>1. /\ h + 1 \in Nat /\ sent' = p + (h + 1)
            /\ (h + 1) + (2 - cycle') <= 2 * runs
        BY <1>1, <1>2, <2>1, <2>3 DEF Split
      <3>2. Split(p, h + 1)'
        BY <1>1, <1>2, <2>1, <2>3, <3>1 DEF Split, Eligible
      <3> QED
        BY <3>2
    <2> QED
      BY <1>2, <2>1, <2>2, <2>3
  <1>9. CASE StartHour
    <2>1. /\ UNCHANGED <<tick, poll, sent, cycle>> /\ lock = "free" /\ lock' = "hour"
          /\ runs' = runs + 1
      BY <1>9 DEF StartHour
    <2>2. cycle = 0 /\ h <= 2 * runs
      BY <1>1, <1>2, <2>1 DEF Split
    <2>3. h + (2 - cycle') <= 2 * runs'
      BY <1>2, <2>1, <2>2
    <2>4. Split(p, h)'
      BY <1>1, <1>2, <2>1, <2>3 DEF Split, Eligible
    <2> QED
      BY <2>4
  <1>10. CASE EndHour
    <2>1. /\ UNCHANGED <<tick, poll, sent, runs>> /\ lock = "hour" /\ lock' = "free" /\ cycle' = 0
      BY <1>10 DEF EndHour
    <2>2. h <= 2 * runs
      BY <1>1, <1>2, <2>1 DEF Split
    <2>3. Split(p, h)'
      BY <1>1, <1>2, <2>1, <2>2 DEF Split, Eligible
    <2> QED
      BY <2>3
  <1>11. CASE Restart
    <2>1. /\ UNCHANGED <<sent, runs>> /\ lock' = "free" /\ cycle' = 0
          /\ \A u \in Ticks : tick'[u] = Idle
      BY <1>11 DEF Restart
    <2>2. h <= 2 * runs
      BY <1>1, <1>2 DEF Split
    <2>3. Split(p, h)'
      BY <1>1, <1>2, <2>1, <2>2 DEF Split, Idle
    <2> QED
      BY <2>3
  <1>12. CASE UNCHANGED driverVars
    BY <1>1, <1>12 DEF driverVars, Split, Eligible
  <1> QED
    BY <1>4, <1>5, <1>6, <1>7, <1>8, <1>9, <1>10, <1>11, <1>12 DEF DriverNext

LEMMA SentStarts == DriverInit => SentInv
  <1> SUFFICES ASSUME DriverInit PROVE SentInv
    OBVIOUS
  <1>1. Split(0, 0)
    BY Numbers DEF DriverInit, Split, Idle
  <1> QED
    BY <1>1 DEF SentInv

LEMMA SentBounds == DriverTypeOK /\ SentInv => CeilingBound
  <1> SUFFICES ASSUME DriverTypeOK, SentInv, Ceiling > 0 PROVE sent <= Ceiling + 1 + 2 * HourRuns
    BY DEF CeilingBound
  <1>1. PICK p, h : Split(p, h)
    BY DEF SentInv
  <1>2. /\ p \in Nat /\ h \in Nat /\ sent = p + h /\ p <= Ceiling + 1
        /\ runs \in Nat /\ runs <= HourRuns /\ cycle \in {0, 1, 2}
        /\ Ceiling \in Nat /\ HourRuns \in Nat
    BY <1>1, Numbers DEF Split, DriverTypeOK
  <1>3. h <= 2 * runs
    BY <1>1, <1>2 DEF Split
  <1> QED
    BY <1>2, <1>3

\* Polls and scheduled cycles together send at most one batch over the ceiling,
\* and what the scheduled cycles may.
THEOREM CeilingIsKept == DriverSpec => []CeilingBound
  BY SentStarts, SentKept, SentBounds, DriverTyping, GapHolds, PTL DEF DriverSpec

-----------------------------------------------------------------------------
(* The watchdog, for any schedule, any lengths of the hour and of a run,   *)
(* and any number of slots.  What it tells rests on two facts: everything  *)
(* judged is over, so no run of it can begin (JudgedOver), and an open     *)
(* streak was told where it began (StreakTold).  The reports of bad runs   *)
(* also need that a calm day claims a slot once (RunsOnce).                *)
Kinds    == {"missed", "crashed", "failed", "needs_login"}
Statuses == {"none", "running", "done", "failed", "needs_login"}

WatchdogTypeOK ==
    /\ clock \in Nat /\ awake \in BOOLEAN
    /\ job \in [registered : BOOLEAN, stamp : Nat]
    /\ row \in [Slots -> Statuses] /\ started \in [Slots -> Nat]
    /\ running \in [slot : Slots \union {NoRun}, since : Nat]
    /\ running.slot # NoRun => row[running.slot] = "running"
    /\ dog \in [last : Int, streak : BOOLEAN, offline : BOOLEAN]
    /\ upsets \subseteq EventKinds /\ judged \subseteq Slots
    /\ said \subseteq Slots \X Kinds

\* The numbers and slots of this part.
LEMMA Hours ==
    /\ Hour \in Nat /\ Hour > 1 /\ LastSlot \in Nat /\ OnTime \in Nat /\ MaxRun \in Nat
    /\ StaleRunning \in Nat /\ Lookback \in Nat /\ OnTime + MaxRun <= Hour
    /\ OnTime + StaleRunning <= Hour
    /\ Slots \subseteq Nat \ {0} /\ NoRun \notin Slots /\ Scheduled \subseteq Slots
  BY Durations, EarlyEnough, Schedule DEF Slots, NoRun

\* A set of numbers has a least one.
LEMMA LeastOf ==
    ASSUME NEW T \in SUBSET Nat, T # {}
    PROVE  \E n \in T : \A m \in T : n <= m
  <1>1. PICK n \in T : \A m \in T : ~(<<m, n>> \in OpToRel(<, Nat))
    BY NatLessThanWellFounded, WFMin, Zenon
  <1>2. ASSUME NEW m \in T PROVE n <= m
    <2>1. m \in Nat /\ n \in Nat
      OBVIOUS
    <2>2. ~(m < n)
      BY <1>1, <2>1 DEF OpToRel
    <2> QED
      BY <2>1, <2>2
  <1> QED
    BY <1>2

LEMMA SlotBounds ==
    ASSUME NEW t \in Int
    PROVE  /\ SlotOf(t) \in Int
           /\ SlotOf(t) * Hour <= t /\ t < SlotOf(t) * Hour + Hour
           /\ t = (SlotOf(t) * Hour) + (t % Hour)
           /\ t % Hour \in Nat
  <1>1. Hour \in Int /\ Hour > 0
    BY Hours
  <1>2. t \div Hour \in Int /\ t % Hour \in 0 .. Hour - 1
    BY <1>1
  <1>3. t = (Hour * (t \div Hour)) + (t % Hour)
    BY <1>1
  <1>4. Hour * (t \div Hour) = (t \div Hour) * Hour /\ (t \div Hour) * Hour \in Int
    BY <1>1, <1>2
  <1> QED
    BY <1>1, <1>2, <1>3, <1>4 DEF SlotOf

\* A slot whose hour, and the grace, are over.
Over(s) == (s + 1) * Hour < clock

LEMMA LatestIsOver == ASSUME clock \in Nat, NEW s \in Nat, s <= Latest PROVE Over(s)
  <1>1. Latest \in Int /\ Latest * Hour <= clock - Hour - 1
    BY Hours, SlotBounds DEF Latest
  <1>2. s * Hour <= Latest * Hour
    BY Hours, <1>1
  <1>3. (s + 1) * Hour = (s * Hour) + Hour /\ s * Hour \in Int /\ Latest * Hour \in Int
    BY Hours, <1>1
  <1> QED
    BY Hours, <1>1, <1>2, <1>3 DEF Over

LEMMA OverIsPast == ASSUME clock \in Nat, NEW s \in Nat, Over(s) PROVE s < SlotOf(clock)
  <1> clock \in Int
    OBVIOUS
  <1>1. SlotOf(clock) \in Int /\ clock < (SlotOf(clock) * Hour) + Hour
    BY SlotBounds
  <1>2. (s + 1) * Hour < (SlotOf(clock) + 1) * Hour
    <2>1. (SlotOf(clock) + 1) * Hour = (SlotOf(clock) * Hour) + Hour
      BY Hours, <1>1
    <2>2. (s + 1) * Hour \in Int /\ (SlotOf(clock) + 1) * Hour \in Int
      BY Hours, <1>1
    <2> QED
      BY <1>1, <2>1, <2>2 DEF Over
  <1>3. ASSUME SlotOf(clock) <= s PROVE FALSE
    <2>1. (SlotOf(clock) + 1) * Hour <= (s + 1) * Hour
      BY Hours, <1>1, <1>3
    <2> QED
      BY <1>1, <1>2, <2>1, Hours
  <1> QED
    BY <1>1, <1>3

LEMMA OneClaim ==
    ASSUME WatchdogTypeOK, NEW s \in Slots, NEW force \in BOOLEAN, Claim(s, force),
           running.slot = NoRun
    PROVE  /\ row' \in [Slots -> Statuses] /\ row'[s] = "running"
           /\ \A e \in Slots : e # s => row'[e] = row[e] /\ started'[e] = started[e]
           /\ started' \in [Slots -> Nat]
           /\ row[s] = "none" => started'[s] = clock
           /\ running' = [slot |-> s, since |-> clock]
  BY DEF WatchdogTypeOK, Claim, Statuses

\* The slot of a tick in the schedule, which is claimed, or of a manual run.
LEMMA OneScheduled ==
    ASSUME WatchdogTypeOK, ScheduledRun
    PROVE  /\ SlotOf(clock) \in Slots \ ticked /\ ticked' = ticked \union {SlotOf(clock)}
           /\ Claim(SlotOf(clock), FALSE) /\ running.slot = NoRun
           /\ UNCHANGED <<clock, awake, job, dog, upsets, judged, said>>
  BY Hours DEF ScheduledRun

LEMMA OneManual ==
    ASSUME WatchdogTypeOK, ManualRun
    PROVE  /\ SlotOf(clock) \in Slots /\ running.slot = NoRun
           /\ \E force \in BOOLEAN : Claim(SlotOf(clock), force)
           /\ upsets' = upsets \union {"manual"}
           /\ UNCHANGED <<clock, awake, job, ticked, dog, judged, said>>
  BY DEF ManualRun

LEMMA OneEnd ==
    ASSUME WatchdogTypeOK, EndRun
    PROVE  /\ running.slot \in Slots /\ row[running.slot] = "running"
           /\ row' \in [Slots -> Statuses]
           /\ row'[running.slot] \in {"done", "failed", "needs_login"}
           /\ \A e \in Slots : e # running.slot => row'[e] = row[e]
           /\ running' = [slot |-> NoRun, since |-> 0]
           /\ job' \in [registered : BOOLEAN, stamp : Nat]
           /\ UNCHANGED <<clock, awake, started, ticked, dog, upsets, judged, said>>
  <1>1. running.slot \in Slots /\ row[running.slot] = "running"
    BY DEF EndRun, WatchdogTypeOK
  <1>2. job' \in [registered : BOOLEAN, stamp : Nat]
    BY DEF EndRun, WatchdogTypeOK
  <1>3. PICK outcome \in {"done", "failed", "needs_login"} :
            row' = [row EXCEPT ![running.slot] = outcome]
    BY DEF EndRun
  <1> QED
    BY <1>1, <1>2, <1>3 DEF EndRun, WatchdogTypeOK, Statuses

LEMMA StreakBoolean == ASSUME WatchdogTypeOK, NEW s PROVE StreakBefore(s) \in BOOLEAN
  BY DEF StreakBefore, WatchdogTypeOK

\* The verdicts one by one.
LEMMA EachVerdict ==
    ASSUME NEW s
    PROVE  /\ Verdicts(s) \subseteq Kinds
           /\ "missed" \in Verdicts(s) <=> Missed(s) /\ ~StreakBefore(s)
           /\ "crashed" \in Verdicts(s) <=> row[s] = "running" /\ clock > started[s] + StaleRunning
           /\ "failed" \in Verdicts(s) <=> row[s] = "failed"
           /\ "needs_login" \in Verdicts(s) <=> row[s] = "needs_login"
  BY DEF Verdicts, Kinds

\* What one tick of the watchdog says.
ToldNow == UNION {{s} \X Verdicts(s) : s \in Judge \intersect Scheduled}

LEMMA EachTold ==
    /\ \A s, v : <<s, v>> \in ToldNow <=> s \in Judge \intersect Scheduled /\ v \in Verdicts(s)
    /\ \A w \in ToldNow : w = <<w[1], w[2]>>
    /\ ToldNow \subseteq Slots \X Kinds
  <1>1. \A s, v : <<s, v>> \in ToldNow <=> s \in Judge \intersect Scheduled /\ v \in Verdicts(s)
    BY DEF ToldNow
  <1>2. ASSUME NEW w \in ToldNow PROVE w = <<w[1], w[2]>> /\ w \in Slots \X Kinds
    <2>1. PICK s \in Judge \intersect Scheduled : w \in {s} \X Verdicts(s)
      BY DEF ToldNow
    <2> QED
      BY <2>1, EachVerdict DEF Judge
  <1> QED
    BY <1>1, <1>2

LEMMA OneTick ==
    ASSUME WatchdogTypeOK, Tick
    PROVE  /\ dog' \in [last : Int, streak : BOOLEAN, offline : BOOLEAN]
           /\ dog'.last = IF Cursor <= Latest THEN Latest ELSE dog.last
           /\ dog'.streak = StreakBefore(LastSlot + 1)
           /\ Judge \subseteq Slots /\ judged' = judged \union Judge
           /\ said' = said \union ToldNow
           /\ UNCHANGED <<clock, awake, job, row, started, running, ticked, upsets>>
  <1>1. Latest \in Int
    BY Hours, SlotBounds DEF Latest, WatchdogTypeOK
  <1>2. StreakBefore(LastSlot + 1) \in BOOLEAN /\ (~Online) \in BOOLEAN
    <2>1. StreakBefore(LastSlot + 1) \in BOOLEAN
      BY StreakBoolean
    <2>2. (~Online) \in BOOLEAN
      BY DEF Online
    <2> QED
      BY <2>1, <2>2
  <1>3. dog' = [last    |-> IF Cursor <= Latest THEN Latest ELSE dog.last,
                streak  |-> StreakBefore(LastSlot + 1),
                offline |-> ~Online]
    BY DEF Tick
  <1>4. dog.last \in Int
    BY DEF WatchdogTypeOK
  <1>5. dog' \in [last : Int, streak : BOOLEAN, offline : BOOLEAN]
    BY <1>1, <1>2, <1>3, <1>4
  <1> QED
    BY <1>3, <1>5 DEF Tick, ToldNow, Judge

LEMMA WatchdogTypeKept ==
    ASSUME WatchdogTypeOK, [WatchdogNext]_watchdogVars PROVE WatchdogTypeOK'
  <1> USE Hours
  <1>1. CASE Advance
    BY <1>1 DEF Advance, WatchdogTypeOK
  <1>2. CASE SleepWake
    BY <1>2 DEF SleepWake, WatchdogTypeOK, EventKinds
  <1>3. CASE OffHourTick
    <2>1. SlotOf(clock) \in Int
      BY SlotBounds DEF WatchdogTypeOK
    <2> QED
      BY <1>3, <2>1 DEF OffHourTick, WatchdogTypeOK
  <1>4. CASE ScheduledRun
    <2>1. /\ SlotOf(clock) \in Slots /\ Claim(SlotOf(clock), FALSE) /\ running.slot = NoRun
          /\ UNCHANGED <<clock, awake, job, dog, upsets, judged, said>>
      BY <1>4, OneScheduled
    <2>2. /\ row' \in [Slots -> Statuses] /\ row'[SlotOf(clock)] = "running"
          /\ started' \in [Slots -> Nat] /\ running' = [slot |-> SlotOf(clock), since |-> clock]
      BY <2>1, OneClaim
    <2>3. running' \in [slot : Slots \union {NoRun}, since : Nat]
      BY <2>1, <2>2 DEF WatchdogTypeOK
    <2> QED
      BY <2>1, <2>2, <2>3 DEF WatchdogTypeOK
  <1>5. CASE ManualRun
    <2>1. /\ SlotOf(clock) \in Slots /\ running.slot = NoRun
          /\ upsets' = upsets \union {"manual"}
          /\ UNCHANGED <<clock, awake, job, ticked, dog, judged, said>>
      BY <1>5, OneManual
    <2>2. PICK force \in BOOLEAN : Claim(SlotOf(clock), force)
      BY <1>5, OneManual
    <2>3. /\ row' \in [Slots -> Statuses] /\ row'[SlotOf(clock)] = "running"
          /\ started' \in [Slots -> Nat] /\ running' = [slot |-> SlotOf(clock), since |-> clock]
      BY <2>1, <2>2, OneClaim
    <2>4. running' \in [slot : Slots \union {NoRun}, since : Nat]
      BY <2>1, <2>3 DEF WatchdogTypeOK
    <2> QED
      BY <2>1, <2>3, <2>4 DEF WatchdogTypeOK, EventKinds
  <1>6. CASE EndRun
    <2>1. /\ row' \in [Slots -> Statuses] /\ running' = [slot |-> NoRun, since |-> 0]
          /\ job' \in [registered : BOOLEAN, stamp : Nat]
          /\ UNCHANGED <<clock, awake, started, ticked, dog, upsets, judged, said>>
      BY <1>6, OneEnd
    <2> QED
      BY <2>1 DEF WatchdogTypeOK
  <1>7. CASE Reboot
    <2>1. job' \in [registered : BOOLEAN, stamp : Nat] /\ dog' = FreshDog
      BY <1>7 DEF Reboot, WatchdogTypeOK
    <2>2. upsets' \subseteq EventKinds
      BY <1>7 DEF Reboot, WatchdogTypeOK, EventKinds
    <2> QED
      BY <1>7, <2>1, <2>2 DEF Reboot, WatchdogTypeOK, FreshDog, NoSlot
  <1>8. CASE Tick
    BY <1>8, OneTick, EachTold DEF WatchdogTypeOK
  <1>9. CASE UNCHANGED watchdogVars
    BY <1>9 DEF watchdogVars, WatchdogTypeOK
  <1> QED
    BY <1>1, <1>2, <1>3, <1>4, <1>5, <1>6, <1>7, <1>8, <1>9 DEF WatchdogNext

LEMMA WatchdogTypeStarts == WatchdogInit => WatchdogTypeOK
  BY Hours DEF WatchdogInit, WatchdogTypeOK, FreshDog, NoSlot, Statuses

\* The rows, the run, the state of the watchdog and what it said stay well typed.
THEOREM WatchdogTyping == WatchdogSpec => []WatchdogTypeOK
  BY WatchdogTypeStarts, WatchdogTypeKept, PTL DEF WatchdogSpec

-----------------------------------------------------------------------------
\* Everything judged is over and at most the last slot of the watchdog's state,
\* what was said is of judged slots, and an open streak was told where it began.
JudgedOver == \A s \in judged : dog.last # NoSlot /\ s <= dog.last /\ Over(s)
ToldJudged == \A w \in said : w[1] \in judged
Begins(d) ==
    /\ d \in judged \intersect Scheduled /\ <<d, "missed">> \in said
    /\ \A e \in judged \intersect Scheduled : d <= e => Missed(e)
StreakTold == dog.streak => \E d : Begins(d)
MissInv == JudgedOver /\ ToldJudged /\ MissReports /\ StreakTold

\* What MissReports says of one judged miss.
Covers(d, s) ==
    /\ d \in judged \intersect Scheduled /\ d <= s /\ <<d, "missed">> \in said
    /\ \A e \in judged \intersect Scheduled : d <= e /\ e <= s => Missed(e)

LEMMA MissSame ==
    ASSUME WatchdogTypeOK, WatchdogTypeOK', MissInv,
           UNCHANGED <<judged, said, dog>>, clock' >= clock,
           \A s \in judged : row'[s] = "none" <=> row[s] = "none"
    PROVE  MissInv'
  <1>1. \A s \in judged : Missed(s)' <=> Missed(s)
    BY DEF Missed
  <1>2. JudgedOver'
    <2> SUFFICES ASSUME NEW s \in judged PROVE Over(s)'
      BY DEF MissInv, JudgedOver
    <2>1. (s + 1) * Hour < clock
      BY DEF MissInv, JudgedOver, Over
    <2>2. (s + 1) * Hour \in Int /\ clock \in Int /\ clock' \in Int
      BY Hours DEF WatchdogTypeOK
    <2> QED
      BY <2>1, <2>2 DEF Over
  <1>3. ToldJudged'
    BY DEF MissInv, ToldJudged
  <1>4. MissReports'
    <2>1. ASSUME NEW s \in Slots, <<s, "missed">> \in said PROVE Missed(s)'
      <3>1. s \in judged
        BY <2>1 DEF MissInv, ToldJudged
      <3> QED
        BY <1>1, <2>1, <3>1 DEF MissInv, MissReports
    <2> QED
      BY <1>1, <2>1 DEF MissInv, MissReports
  <1>5. StreakTold'
    <2> SUFFICES ASSUME dog.streak PROVE \E d : Begins(d)'
      BY DEF StreakTold
    <2>1. PICK d : Begins(d)
      BY DEF MissInv, StreakTold
    <2>2. Begins(d)'
      BY <1>1, <2>1 DEF Begins
    <2> QED
      BY <2>2
  <1> QED
    BY <1>2, <1>3, <1>4, <1>5 DEF MissInv

\* A run that begins is one of a slot not judged.
LEMMA ClaimsLate ==
    ASSUME WatchdogTypeOK, JudgedOver, NEW s \in judged PROVE s # SlotOf(clock)
  <1>1. clock \in Nat /\ s \in Nat /\ Over(s)
    BY Hours DEF WatchdogTypeOK, JudgedOver
  <1> QED
    BY <1>1, OverIsPast

LEMMA CursorRises ==
    ASSUME WatchdogTypeOK
    PROVE  /\ clock \in Nat /\ dog.last \in Int /\ Latest \in Int /\ Cursor \in Int
           /\ dog.last # NoSlot => dog.last < Cursor
  <1>1. clock \in Int /\ clock - Hour - 1 \in Int /\ clock \in Nat /\ dog.last \in Int
    BY Hours DEF WatchdogTypeOK
  <1>2. Latest \in Int /\ SlotOf(clock) \in Int
    BY <1>1, SlotBounds DEF Latest
  <1> QED
    BY <1>1, <1>2, Hours DEF Cursor

\* The tick judges only what is over and was not judged.
LEMMA JudgesOnce ==
    ASSUME WatchdogTypeOK, JudgedOver, NEW s \in Judge
    PROVE  s <= Latest /\ Cursor <= Latest /\ Over(s) /\ \A e \in judged : e < s
  <1>1. s \in Nat /\ s <= Latest /\ Cursor <= s
    BY Hours DEF Judge
  <1>2. Cursor <= Latest /\ Over(s)
    BY <1>1, CursorRises, LatestIsOver
  <1>3. ASSUME NEW e \in judged PROVE e < s
    <2>1. e \in Nat /\ dog.last # NoSlot /\ e <= dog.last
      BY Hours DEF JudgedOver, WatchdogTypeOK
    <2> QED
      BY <1>1, <2>1, CursorRises
  <1> QED
    BY <1>1, <1>2, <1>3

LEMMA TickJudges == ASSUME WatchdogTypeOK, JudgedOver, Tick PROVE JudgedOver'
  <1> SUFFICES ASSUME NEW s \in judged' PROVE dog'.last # NoSlot /\ s <= dog'.last /\ Over(s)'
    BY DEF JudgedOver
  <1>1. /\ clock' = clock /\ judged' = judged \union Judge
        /\ dog'.last = IF Cursor <= Latest THEN Latest ELSE dog.last
    BY OneTick
  <1>2. CASE s \in Judge
    <2>1. s \in Nat /\ s # 0
      BY <1>2, Hours DEF Judge
    <2> QED
      BY <1>1, <1>2, <2>1, JudgesOnce, CursorRises DEF Over, NoSlot
  <1>3. CASE s \in judged
    <2>1. s \in Nat /\ s # 0 /\ dog.last # NoSlot /\ s <= dog.last /\ Over(s)
      BY <1>3, Hours DEF JudgedOver, WatchdogTypeOK
    <2> QED
      BY <1>1, <2>1, CursorRises DEF Over, NoSlot
  <1> QED
    BY <1>1, <1>2, <1>3

\* Of the misses that lead to s without a run between them, the tick told one
\* or an earlier tick did.
LEMMA EarliestMiss ==
    ASSUME WatchdogTypeOK, MissInv, Tick, NEW s \in Judge \intersect Scheduled, Missed(s)
    PROVE  \E d : Covers(d, s)'
  <1> DEFINE Reaches(d) == /\ d \in Judge \intersect Scheduled /\ d <= s
                         /\ \A e \in Judge \intersect Scheduled : d <= e /\ e <= s => Missed(e)
             Misses   == {d \in Judge \intersect Scheduled : Reaches(d)}
  <1>1. Judge \subseteq Nat /\ judged \subseteq Nat /\ s \in Nat
    BY Hours DEF Judge, WatchdogTypeOK
  <1>2. s \in Misses /\ Misses \in SUBSET Nat
    <2>1. ASSUME NEW e \in Judge \intersect Scheduled, s <= e, e <= s PROVE Missed(e)
      <3>1. e = s
        BY <1>1, <2>1
      <3> QED
        BY <3>1
    <2>2. Reaches(s)
      BY <1>1, <2>1
    <2>3. Misses \subseteq Judge
      OBVIOUS
    <2> HIDE DEF Reaches
    <2> QED
      BY <1>1, <2>2, <2>3
  <1>3. PICK d \in Misses : \A m \in Misses : d <= m
    BY <1>2, LeastOf
  <1>4. /\ judged' = judged \union Judge /\ said' = said \union ToldNow
        /\ \A e : Missed(e)' <=> Missed(e)
    BY OneTick DEF Missed
  <1>5. ASSUME NEW e \in judged, NEW j \in Judge PROVE e < j
    BY JudgesOnce DEF MissInv
  <1>6. d \in Judge \intersect Scheduled /\ d <= s /\ Reaches(d)
    BY <1>3
  <1>7. CASE ~StreakBefore(d)
    <2>1. Missed(d)
      BY <1>1, <1>6
    <2>2. <<d, "missed">> \in said'
      BY <1>4, <1>6, <1>7, <2>1, EachVerdict, EachTold
    <2>3. ASSUME NEW e \in judged' \intersect Scheduled, d <= e, e <= s PROVE Missed(e)
      <3>1. e \in Judge
        BY <1>1, <1>4, <1>5, <1>6, <2>3
      <3> QED
        BY <1>6, <2>3, <3>1
    <2>4. Covers(d, s)'
      BY <1>4, <1>6, <2>2, <2>3 DEF Covers
    <2> QED
      BY <2>4
  <1>8. CASE StreakBefore(d)
    <2> DEFINE before == {e \in Judge \intersect Scheduled : e < d}
    <2>1. CASE before = {}
      <3>1. dog.streak
        BY <1>8, <2>1 DEF StreakBefore
      <3>2. PICK b : Begins(b)
        BY <3>1 DEF MissInv, StreakTold
      <3>3. b \in judged \intersect Scheduled /\ b \in Nat /\ b < s
        BY <1>1, <1>5, <3>2 DEF Begins
      <3>4. ASSUME NEW e \in judged' \intersect Scheduled, b <= e, e <= s PROVE Missed(e)
        <4>1. CASE e \in judged
          BY <3>2, <3>4, <4>1 DEF Begins
        <4>2. CASE e \in Judge
          <5>1. d <= e
            BY <1>1, <1>6, <2>1, <3>4, <4>2
          <5> QED
            BY <1>6, <3>4, <4>2, <5>1
        <4> QED
          BY <1>4, <4>1, <4>2
      <3>5. Covers(b, s)'
        BY <1>1, <1>4, <3>2, <3>3, <3>4 DEF Begins, Covers
      <3> QED
        BY <3>5
    <2>2. CASE before # {}
      <3>1. PICK m \in before : Missed(m) /\ \A e \in before : e <= m
        BY <1>8, <2>2 DEF StreakBefore
      <3>2. m \in Judge \intersect Scheduled /\ m < d /\ m \in Nat /\ d \in Nat
        BY <1>1, <1>6, <3>1
      <3>3. ASSUME NEW e \in Judge \intersect Scheduled, m <= e, e <= s PROVE Missed(e)
        <4>1. CASE e < d
          <5>1. e <= m /\ e \in Nat
            BY <1>1, <3>1, <3>3, <4>1
          <5>2. e = m
            BY <3>2, <3>3, <5>1
          <5> QED
            BY <3>1, <5>2
        <4>2. CASE ~(e < d)
          <5>1. d <= e
            BY <1>1, <3>2, <4>2
          <5> QED
            BY <1>6, <3>3, <5>1
        <4> QED
          BY <4>1, <4>2
      <3>4. m \in Misses
        BY <1>1, <1>6, <3>2, <3>3
      <3> QED
        BY <1>3, <3>2, <3>4
    <2> QED
      BY <2>1, <2>2
  <1> QED
    BY <1>7, <1>8

LEMMA TickTells == ASSUME WatchdogTypeOK, MissInv, Tick PROVE MissReports' /\ ToldJudged'
  <1>1. /\ judged' = judged \union Judge /\ said' = said \union ToldNow
        /\ \A e : Missed(e)' <=> Missed(e)
    BY OneTick DEF Missed
  <1>2. ToldJudged'
    <2>1. ASSUME NEW w \in ToldNow PROVE w[1] \in Judge
      BY EachTold
    <2> QED
      BY <1>1, <2>1 DEF MissInv, ToldJudged
  <1>3. ASSUME NEW s \in Slots, <<s, "missed">> \in said' PROVE Missed(s)'
    <2>1. <<s, "missed">> \in ToldNow => Missed(s)
      BY EachTold, EachVerdict
    <2> QED
      BY <1>1, <1>3, <2>1 DEF MissInv, MissReports
  <1>4. ASSUME NEW s \in judged' \intersect Scheduled, Missed(s)' PROVE \E d : Covers(d, s)'
    <2>1. CASE s \in Judge
      BY <1>1, <1>4, <2>1, EarliestMiss
    <2>2. CASE s \in judged
      <3>1. PICK d \in judged \intersect Scheduled :
                /\ d <= s /\ <<d, "missed">> \in said
                /\ \A e \in judged \intersect Scheduled : d <= e /\ e <= s => Missed(e)
        BY <1>1, <1>4, <2>2 DEF MissInv, MissReports
      <3>2. ASSUME NEW e \in judged' \intersect Scheduled, d <= e, e <= s PROVE Missed(e)
        <4>1. e \in Nat /\ s \in Nat
          BY <1>1, <2>2, Hours DEF WatchdogTypeOK, Judge
        <4>2. e \notin Judge
          BY <2>2, <3>2, <4>1, JudgesOnce DEF MissInv
        <4> QED
          BY <1>1, <3>1, <3>2, <4>2
      <3>3. Covers(d, s)'
        BY <1>1, <3>1, <3>2 DEF Covers
      <3> QED
        BY <3>3
    <2> QED
      BY <1>1, <1>4, <2>1, <2>2
  <1>5. MissReports'
    BY <1>3, <1>4 DEF MissReports, Covers
  <1> QED
    BY <1>2, <1>5

LEMMA TickStreak == ASSUME WatchdogTypeOK, MissInv, Tick PROVE StreakTold'
  <1> SUFFICES ASSUME dog'.streak PROVE \E d : Begins(d)'
    BY DEF StreakTold
  <1> DEFINE before == {e \in Judge \intersect Scheduled : e < LastSlot + 1}
  <1>1. /\ judged' = judged \union Judge /\ said' = said \union ToldNow
        /\ \A e : Missed(e)' <=> Missed(e)
        /\ StreakBefore(LastSlot + 1)
    BY OneTick DEF Missed
  <1>2. Judge \subseteq Slots /\ \A e \in Slots : e < LastSlot + 1
    BY Hours DEF Judge, Slots
  <1>3. before = Judge \intersect Scheduled
    BY <1>2
  <1>4. CASE before = {}
    <2>1. dog.streak
      BY <1>1, <1>4 DEF StreakBefore
    <2>2. PICK d : Begins(d)
      BY <2>1 DEF MissInv, StreakTold
    <2>3. Begins(d)'
      BY <1>1, <1>3, <1>4, <2>2 DEF Begins
    <2> QED
      BY <2>3
  <1>5. CASE before # {}
    <2>1. PICK m \in before : Missed(m) /\ \A e \in before : e <= m
      BY <1>1, <1>5 DEF StreakBefore
    <2>2. m \in Judge \intersect Scheduled /\ Missed(m)
      BY <2>1
    <2>3. PICK d : Covers(d, m)'
      BY <2>2, EarliestMiss
    <2>4. ASSUME NEW e \in judged' \intersect Scheduled, d <= e PROVE Missed(e)'
      <3>1. e <= m
        <4>1. e \in Nat /\ m \in Nat
          BY <1>1, <1>2, <2>2, Hours DEF WatchdogTypeOK
        <4>2. e \in judged => e < m
          BY <2>2, JudgesOnce DEF MissInv
        <4> QED
          BY <1>1, <1>3, <2>1, <4>1, <4>2
      <3> QED
        BY <2>3, <2>4, <3>1 DEF Covers
    <2>5. Begins(d)'
      BY <2>3, <2>4 DEF Covers, Begins
    <2> QED
      BY <2>5
  <1> QED
    BY <1>4, <1>5

LEMMA MissKept ==
    ASSUME WatchdogTypeOK, WatchdogTypeOK', MissInv, [WatchdogNext]_watchdogVars PROVE MissInv'
  <1>0. clock \in Nat
    BY DEF WatchdogTypeOK
  <1>1. CASE Advance
    BY <1>0, <1>1, MissSame DEF Advance
  <1>2. CASE SleepWake
    BY <1>0, <1>2, MissSame DEF SleepWake
  <1>3. CASE OffHourTick
    BY <1>0, <1>3, MissSame DEF OffHourTick
  <1>4. CASE ScheduledRun
    <2>1. /\ UNCHANGED <<judged, said, dog, clock>> /\ SlotOf(clock) \in Slots
          /\ running.slot = NoRun /\ Claim(SlotOf(clock), FALSE)
      BY <1>4, OneScheduled
    <2>2. ASSUME NEW s \in judged PROVE row'[s] = row[s]
      BY <2>1, OneClaim, ClaimsLate DEF MissInv, WatchdogTypeOK
    <2> QED
      BY <1>0, <2>1, <2>2, MissSame
  <1>5. CASE ManualRun
    <2>1. /\ UNCHANGED <<judged, said, dog, clock>> /\ SlotOf(clock) \in Slots
          /\ running.slot = NoRun
      BY <1>5, OneManual
    <2>2. PICK force \in BOOLEAN : Claim(SlotOf(clock), force)
      BY <1>5, OneManual
    <2>3. ASSUME NEW s \in judged PROVE row'[s] = row[s]
      BY <2>1, <2>2, OneClaim, ClaimsLate DEF MissInv, WatchdogTypeOK
    <2> QED
      BY <1>0, <2>1, <2>3, MissSame
  <1>6. CASE EndRun
    <2>1. \A s \in judged : row'[s] = "none" <=> row[s] = "none"
      BY <1>6, OneEnd DEF WatchdogTypeOK
    <2> QED
      BY <1>0, <1>6, <2>1, MissSame DEF EndRun
  <1>7. CASE Reboot
    BY <1>7 DEF Reboot, FreshDog, MissInv, JudgedOver, ToldJudged, MissReports, StreakTold
  <1>8. CASE Tick
    BY <1>8, TickJudges, TickTells, TickStreak DEF MissInv
  <1>9. CASE UNCHANGED watchdogVars
    BY <1>0, <1>9, MissSame DEF watchdogVars
  <1> QED
    BY <1>1, <1>2, <1>3, <1>4, <1>5, <1>6, <1>7, <1>8, <1>9 DEF WatchdogNext

LEMMA MissStarts == WatchdogInit => MissInv
  BY DEF WatchdogInit, FreshDog, MissInv, JudgedOver, ToldJudged, MissReports, StreakTold

\* A reported miss is one, and every streak of misses is told.
THEOREM MissesAreTold == WatchdogSpec => []MissReports
  <1>1. WatchdogSpec => []MissInv
    BY WatchdogTyping, MissStarts, MissKept, PTL DEF WatchdogSpec
  <1>2. MissInv => MissReports
    BY DEF MissInv
  <1> QED
    BY <1>1, <1>2, PTL

-----------------------------------------------------------------------------
\* In a day without sleep or a manual retry a slot is claimed once, by its own
\* tick, and its run is over MaxRun later.
Calm == upsets \intersect {"sleep", "manual"} = {}
RunsOnce ==
    Calm =>
        /\ awake
        /\ \A s \in Slots : row[s] # "none" => s \in ticked /\ SlotOf(started[s]) = s
        /\ running.slot # NoRun =>
               /\ running.since = started[running.slot]
               /\ clock <= running.since + MaxRun

LEMMA TimeUp ==
    ASSUME WatchdogTypeOK, NEW s \in Slots, Over(s), SlotOf(started[s]) = s,
           started[s] % Hour <= OnTime
    PROVE  started[s] + MaxRun < clock /\ started[s] + StaleRunning < clock
  <1>1. started[s] \in Int /\ clock \in Int /\ s \in Int
    BY Hours DEF WatchdogTypeOK
  <1>2. started[s] = (s * Hour) + (started[s] % Hour) /\ started[s] % Hour \in Nat
    BY <1>1, SlotBounds
  <1>3. (s + 1) * Hour = (s * Hour) + Hour /\ s * Hour \in Int /\ (s + 1) * Hour < clock
    BY <1>1, Hours DEF Over
  <1> QED
    BY <1>1, <1>2, <1>3, Hours

\* The run of a slot that is over has ended too, if it began in time.
LEMMA NotRunning ==
    ASSUME WatchdogTypeOK, RunsOnce, Calm, NEW s \in Slots, Over(s), row[s] # "none",
           started[s] % Hour <= OnTime
    PROVE  running.slot # s /\ started[s] + StaleRunning < clock
  <1>1. SlotOf(started[s]) = s /\ s # NoRun
    BY Hours DEF RunsOnce
  <1>2. started[s] + MaxRun < clock /\ started[s] + StaleRunning < clock
    BY <1>1, TimeUp
  <1>3. ASSUME running.slot = s PROVE FALSE
    <2>1. clock <= started[s] + MaxRun
      BY <1>1, <1>3 DEF RunsOnce
    <2>2. started[s] \in Nat /\ clock \in Nat /\ MaxRun \in Nat
      BY Hours DEF WatchdogTypeOK
    <2> QED
      BY <1>2, <2>1, <2>2
  <1> QED
    BY <1>2, <1>3

LEMMA CalmStays == ASSUME [WatchdogNext]_watchdogVars, Calm' PROVE Calm /\ upsets \subseteq upsets'
  <1>1. upsets \subseteq upsets'
    BY DEF WatchdogNext, watchdogVars, Advance, SleepWake, OffHourTick, ScheduledRun, ManualRun,
           EndRun, Reboot, Tick
  <1> QED
    BY <1>1 DEF Calm

LEMMA RunsSame ==
    ASSUME RunsOnce, Calm, UNCHANGED <<awake, row, started, running, clock>>, ticked \subseteq ticked'
    PROVE  RunsOnce'
  BY DEF RunsOnce, Calm

LEMMA RunsKept ==
    ASSUME WatchdogTypeOK, RunsOnce, [WatchdogNext]_watchdogVars PROVE RunsOnce'
  <1> SUFFICES ASSUME Calm' PROVE RunsOnce'
    BY DEF RunsOnce
  <1>0. Calm
    BY CalmStays
  <1>1. CASE Advance
    <2>1. /\ clock \in Nat /\ running.since \in Nat
          /\ awake /\ running.slot # NoRun => clock < running.since + MaxRun
          /\ clock' = clock + 1 /\ UNCHANGED <<awake, row, started, running, ticked>>
      BY <1>1 DEF Advance, WatchdogTypeOK
    <2>2. running.slot # NoRun => clock' <= running.since + MaxRun
      BY <1>0, <2>1, Hours DEF RunsOnce
    <2> QED
      BY <1>0, <2>1, <2>2 DEF RunsOnce
  <1>2. CASE SleepWake
    <2>1. "sleep" \in upsets'
      BY <1>2 DEF SleepWake
    <2> QED
      BY <2>1 DEF Calm
  <1>3. CASE OffHourTick
    BY <1>0, <1>3, RunsSame DEF OffHourTick
  <1>4. CASE ScheduledRun
    <2> DEFINE c == SlotOf(clock)
    <2>1. /\ c \in Slots \ ticked /\ ticked' = ticked \union {c} /\ running.slot = NoRun
          /\ Claim(c, FALSE) /\ UNCHANGED <<clock, awake>>
      BY <1>4, OneScheduled
    <2>2. row[c] = "none"
      BY <1>0, <2>1 DEF RunsOnce
    <2>3. /\ started'[c] = clock /\ running' = [slot |-> c, since |-> clock]
          /\ \A e \in Slots : e # c => row'[e] = row[e] /\ started'[e] = started[e]
      BY <2>1, <2>2, OneClaim
    <2>4. clock <= clock + MaxRun
      BY Hours DEF WatchdogTypeOK
    <2>5. ASSUME NEW s \in Slots, row'[s] # "none" PROVE s \in ticked' /\ SlotOf(started'[s]) = s
      <3>1. CASE s = c
        BY <2>1, <2>3, <3>1
      <3>2. CASE s # c
        BY <1>0, <2>1, <2>3, <2>5, <3>2 DEF RunsOnce
      <3> QED
        BY <3>1, <3>2
    <2>6. SlotOf(clock) = SlotOf(clock)' /\ \A s \in Slots : SlotOf(started'[s]) = SlotOf(started[s])'
      BY <2>1 DEF SlotOf
    <2>7. running'.since = started'[running'.slot] /\ clock' <= running'.since + MaxRun
      BY <2>1, <2>3, <2>4
    <2> QED
      BY <1>0, <2>1, <2>5, <2>6, <2>7 DEF RunsOnce
  <1>5. CASE ManualRun
    <2>1. "manual" \in upsets'
      BY <1>5, OneManual
    <2> QED
      BY <2>1 DEF Calm
  <1>6. CASE EndRun
    <2>1. /\ running.slot \in Slots /\ row[running.slot] = "running"
          /\ \A e \in Slots : e # running.slot => row'[e] = row[e]
          /\ running' = [slot |-> NoRun, since |-> 0]
          /\ UNCHANGED <<clock, awake, started, ticked>>
      BY <1>6, OneEnd
    <2>2. \A s \in Slots : row'[s] # "none" => row[s] # "none"
      BY <2>1
    <2> QED
      BY <1>0, <2>1, <2>2 DEF RunsOnce
  <1>7. CASE Reboot
    BY <1>0, <1>7 DEF Reboot, RunsOnce
  <1>8. CASE Tick
    BY <1>0, <1>8, RunsSame DEF Tick
  <1>9. CASE UNCHANGED watchdogVars
    BY <1>0, <1>9, RunsSame DEF watchdogVars
  <1> QED
    BY <1>1, <1>2, <1>3, <1>4, <1>5, <1>6, <1>7, <1>8, <1>9 DEF WatchdogNext

LEMMA RunsStart == WatchdogInit => RunsOnce
  BY DEF WatchdogInit, RunsOnce

-----------------------------------------------------------------------------
\* A judged slot whose run began in time: what BadRunReported says of it.
Reported(s) ==
    started[s] % Hour <= OnTime =>
        /\ row[s] \in {"failed", "needs_login"} => <<s, row[s]>> \in said
        /\ row[s] = "running" /\ running.slot # s => <<s, "crashed">> \in said

LEMMA ReportsSame ==
    ASSUME BadRunReported, Calm, UNCHANGED <<judged, said>>,
           \A s \in judged \intersect Scheduled : Reported(s) => Reported(s)'
    PROVE  BadRunReported'
  BY DEF BadRunReported, Calm, Reported

LEMMA ReportsKept ==
    ASSUME WatchdogTypeOK, MissInv, RunsOnce, BadRunReported, [WatchdogNext]_watchdogVars
    PROVE  BadRunReported'
  <1> SUFFICES ASSUME Calm' PROVE BadRunReported'
    BY DEF BadRunReported, Calm
  <1>0. Calm
    BY CalmStays
  <1>1. CASE Advance
    BY <1>0, <1>1, ReportsSame DEF Advance, Reported
  <1>2. CASE SleepWake
    BY <1>0, <1>2, ReportsSame DEF SleepWake, Reported
  <1>3. CASE OffHourTick
    BY <1>0, <1>3, ReportsSame DEF OffHourTick, Reported
  <1>4. CASE ScheduledRun
    <2> DEFINE c == SlotOf(clock)
    <2>1. /\ c \in Slots /\ running.slot = NoRun /\ Claim(c, FALSE) /\ UNCHANGED <<judged, said>>
      BY <1>4, OneScheduled
    <2>2. \A e \in Slots : e # c => row'[e] = row[e] /\ started'[e] = started[e]
      BY <2>1, OneClaim
    <2>3. ASSUME NEW s \in judged \intersect Scheduled, Reported(s) PROVE Reported(s)'
      <3>1. s \in Slots /\ s # c /\ s # NoRun
        BY Hours, ClaimsLate DEF MissInv
      <3> QED
        BY <2>1, <2>2, <2>3, <3>1 DEF Reported
    <2> QED
      BY <1>0, <2>1, <2>3, ReportsSame
  <1>5. CASE ManualRun
    <2>1. "manual" \in upsets'
      BY <1>5, OneManual
    <2> QED
      BY <2>1 DEF Calm
  <1>6. CASE EndRun
    <2>1. /\ running.slot \in Slots /\ row[running.slot] = "running"
          /\ \A e \in Slots : e # running.slot => row'[e] = row[e]
          /\ UNCHANGED <<started, judged, said>>
      BY <1>6, OneEnd
    <2>2. ASSUME NEW s \in judged \intersect Scheduled, Reported(s) PROVE Reported(s)'
      <3>1. s \in Slots /\ Over(s)
        BY Hours DEF MissInv, JudgedOver
      <3>2. CASE s = running.slot
        <4>1. ~(started[s] % Hour <= OnTime)
          BY <1>0, <2>1, <3>1, <3>2, NotRunning
        <4> QED
          BY <2>1, <4>1 DEF Reported
      <3>3. CASE s # running.slot
        BY <2>1, <2>2, <3>1, <3>3 DEF Reported
      <3> QED
        BY <3>2, <3>3
    <2> QED
      BY <1>0, <2>1, <2>2, ReportsSame
  <1>7. CASE Reboot
    BY <1>7 DEF Reboot, BadRunReported
  <1>8. CASE Tick
    <2>1. /\ judged' = judged \union Judge /\ said' = said \union ToldNow /\ Judge \subseteq Slots
          /\ UNCHANGED <<row, started, running, upsets>>
      BY <1>8, OneTick
    <2>2. ASSUME NEW s \in judged' \intersect Scheduled, started[s] % Hour <= OnTime
          PROVE  /\ row[s] \in {"failed", "needs_login"} => <<s, row[s]>> \in said'
                 /\ row[s] = "running" /\ running.slot # s => <<s, "crashed">> \in said'
      <3>1. CASE s \in judged
        BY <1>0, <2>1, <2>2, <3>1 DEF BadRunReported, Calm
      <3>2. CASE s \in Judge
        <4>1. s \in Slots /\ Over(s)
          BY <2>1, <3>2, JudgesOnce DEF MissInv
        <4>2. row[s] \in {"failed", "needs_login"} => <<s, row[s]>> \in ToldNow
          BY <3>2, EachVerdict, EachTold
        <4>3. row[s] = "running" => <<s, "crashed">> \in ToldNow
          BY <1>0, <2>2, <3>2, <4>1, NotRunning, EachVerdict, EachTold
        <4> QED
          BY <2>1, <4>2, <4>3
      <3> QED
        BY <2>1, <3>1, <3>2
    <2> QED
      BY <2>1, <2>2 DEF BadRunReported
  <1>9. CASE UNCHANGED watchdogVars
    BY <1>0, <1>9, ReportsSame DEF watchdogVars, Reported
  <1> QED
    BY <1>1, <1>2, <1>3, <1>4, <1>5, <1>6, <1>7, <1>8, <1>9 DEF WatchdogNext

LEMMA ReportsStart == WatchdogInit => BadRunReported
  BY DEF WatchdogInit, BadRunReported

LEMMA WatchdogInvariant ==
    WatchdogSpec => [](WatchdogTypeOK /\ MissInv /\ RunsOnce /\ BadRunReported)
  BY WatchdogTyping, MissStarts, MissKept, RunsStart, RunsKept, ReportsStart, ReportsKept, PTL
     DEF WatchdogSpec

\* A run that went wrong was reported, in a day without sleep or a manual retry.
THEOREM BadRunsAreReported == WatchdogSpec => []BadRunReported
  BY WatchdogInvariant, PTL

\* What a step may say.
VerdictStep ==
    \A w \in said' \ said :
        /\ w[1] \notin judged
        /\ upsets \intersect {"sleep", "manual"} = {} /\ w[2] = "crashed"
              /\ started[w[1]] % Hour <= OnTime => running.slot # w[1]

LEMMA SaysOnce ==
    ASSUME WatchdogTypeOK, MissInv, RunsOnce, [WatchdogNext]_watchdogVars PROVE VerdictStep
  <1>1. CASE Tick
    <2> SUFFICES ASSUME NEW w \in ToldNow
                 PROVE  /\ w[1] \notin judged
                        /\ Calm /\ w[2] = "crashed" /\ started[w[1]] % Hour <= OnTime
                              => running.slot # w[1]
      BY <1>1, OneTick DEF VerdictStep, Calm
    <2>1. w[1] \in Judge \intersect Scheduled /\ w[2] \in Verdicts(w[1])
      BY EachTold
    <2>2. w[1] \in Slots /\ Over(w[1]) /\ \A e \in judged : e < w[1]
      BY <2>1, JudgesOnce DEF MissInv, Judge
    <2>3. w[1] \notin judged
      <3>1. w[1] \in Nat
        BY <2>2, Hours
      <3> QED
        BY <2>2, <3>1
    <2>4. w[2] = "crashed" => row[w[1]] = "running"
      BY <2>1, EachVerdict
    <2> QED
      BY <2>2, <2>3, <2>4, NotRunning
  <1>2. CASE ~Tick
    <2>1. said' \subseteq said
      BY <1>2 DEF WatchdogNext, watchdogVars, Advance, SleepWake, OffHourTick, ScheduledRun,
                  ManualRun, EndRun, Reboot
    <2> QED
      BY <2>1 DEF VerdictStep
  <1> QED
    BY <1>1, <1>2

\* A slot is judged once in a process, and no run that goes on is a crashed one.
THEOREM VerdictsAreKept == WatchdogSpec => VerdictsStand
  <1>1. WatchdogTypeOK /\ MissInv /\ RunsOnce /\ [WatchdogNext]_watchdogVars => VerdictStep
    BY SaysOnce
  <1>2. VerdictsStand <=> [][VerdictStep]_watchdogVars
    BY DEF VerdictsStand, VerdictStep
  <1> QED
    BY <1>1, <1>2, WatchdogInvariant, PTL DEF WatchdogSpec
=============================================================================
