----------------------------- MODULE LaneLocks ------------------------------
(***************************************************************************)
(* The two locks of the Zillow lane composed: cycles run under the cycle   *)
(* mutex and take the screen (the GUI lock) once per scrape, probe or      *)
(* send; a manual import, a home-search alert and an individual relay take *)
(* the screen alone.  The cycle mutex is the module extended here, whose   *)
(* calls are the cycles'; the GUI lock is a second instance of it.         *)
(* Neither is re-entrant.                                                  *)
(***************************************************************************)
EXTENDS CycleMutex, FiniteSets

CONSTANTS
    Hourly,       \* runDailyAutomation calls: cron ticks and manual runs
    Polls,        \* runPollTick calls that are due
    ScreenOnly,   \* callers of withGuiLock outside a cycle
    Sections      \* how often a cycle takes the screen at most

ASSUME SectionsPositive == Sections \in Nat \ {0}

Cycles == Hourly \union Polls
Tasks  == Cycles \union ScreenOnly

ASSUME TasksFinite == IsFiniteSet(Tasks)
ASSUME CallPerCycle == MaxCalls = Cardinality(Cycles)

\* The times a task takes the screen.
ScreenCalls == (Cycles \X (1 .. Sections)) \union (ScreenOnly \X {1})

VARIABLES
    pc,           \* where each task is
    left,         \* screen sections a cycle still has
    call,         \* each task's place in the cycle chain (0: none)
    ticket,       \* and in the GUI chain
    gMade, gPhase, gMode, gPrev, gChain, gBusy    \* the GUI lock

cycleLock == <<made, phase, mode, prev, chain, busy>>
guiLock   == <<gMade, gPhase, gMode, gPrev, gChain, gBusy>>
laneVars  == <<pc, left, call, ticket, cycleLock, guiLock>>

Gui == INSTANCE CycleMutex WITH
    MaxCalls <- Cardinality(ScreenCalls),
    made <- gMade, phase <- gPhase,
    mode <- gMode, prev <- gPrev, chain <- gChain, busy <- gBusy

LaneInit ==
    /\ pc = [t \in Tasks |-> "out"]
    /\ left = [t \in Tasks |-> IF t \in Cycles THEN Sections ELSE 1]
    /\ call = [t \in Tasks |-> 0]
    /\ ticket = [t \in Tasks |-> 0]
    /\ Init
    /\ Gui!Init

Goto(t, where) == pc' = [pc EXCEPT ![t] = where]

\* Mutant: a run does not wait for its turn in the chain.
QueueHourly_Unlocked(t) ==
    /\ pc[t] = "out"
    /\ Link(made + 1, "wait")
    /\ call' = [call EXCEPT ![t] = made + 1]
    /\ Goto(t, "in")
    /\ UNCHANGED <<left, ticket, guiLock>>

\* runDailyAutomation: wait mode.
QueueHourly(t) ==
    /\ pc[t] = "out"
    /\ Link(made + 1, "wait")
    /\ call' = [call EXCEPT ![t] = made + 1]
    /\ Goto(t, "queued")
    /\ UNCHANGED <<left, ticket, guiLock>>

\* runPollTick: gives up when the screen is busy or a cycle runs.
QueuePoll(t) ==
    /\ pc[t] = "out"
    /\ UNCHANGED <<left, ticket, guiLock>>
    /\ \/ /\ gBusy
          /\ Goto(t, "done")
          /\ UNCHANGED <<call, cycleLock>>
       \/ /\ ~gBusy
          /\ Refuse(made + 1)
          /\ Goto(t, "done")
          /\ UNCHANGED call
       \/ /\ ~gBusy
          /\ Link(made + 1, "try")
          /\ call' = [call EXCEPT ![t] = made + 1]
          /\ Goto(t, "queued")

StartCycle(t) ==
    /\ pc[t] = "queued"
    /\ Run(call[t])
    /\ Goto(t, "in")
    /\ UNCHANGED <<left, call, ticket, guiLock>>

\* withGuiLock, from a running cycle or from a screen-only caller.
QueueScreen(t) ==
    /\ pc[t] = IF t \in Cycles THEN "in" ELSE "out"
    /\ left[t] > 0
    /\ Gui!Link(gMade + 1, "wait")
    /\ ticket' = [ticket EXCEPT ![t] = gMade + 1]
    /\ Goto(t, "asked")
    /\ UNCHANGED <<left, call, cycleLock>>

TakeScreen(t) ==
    /\ pc[t] = "asked"
    /\ Gui!Run(ticket[t])
    /\ Goto(t, "screen")
    /\ UNCHANGED <<left, call, ticket, cycleLock>>

\* Mutant: a cycle holds the screen from its first section to its end.
LeaveScreen_HoldsForCycle(t) ==
    /\ pc[t] = "screen"
    /\ IF t \in Cycles /\ left[t] > 1
       THEN UNCHANGED guiLock
       ELSE Gui!Settle(ticket[t])
    /\ left' = [left EXCEPT ![t] = @ - 1]
    /\ Goto(t, IF t \in Cycles THEN "in" ELSE "done")
    /\ UNCHANGED <<call, ticket, cycleLock>>

LeaveScreen(t) ==
    /\ pc[t] = "screen"
    /\ Gui!Settle(ticket[t])
    /\ left' = [left EXCEPT ![t] = @ - 1]
    /\ Goto(t, IF t \in Cycles THEN "in" ELSE "done")
    /\ UNCHANGED <<call, ticket, cycleLock>>

\* The cycle returns or throws, maybe before its last section.
EndCycle(t) ==
    /\ pc[t] = "in"
    /\ t \in Cycles
    /\ Settle(call[t])
    /\ Goto(t, "done")
    /\ UNCHANGED <<left, call, ticket, guiLock>>

Resume(t) ==
    \/ StartCycle(t)
    \/ TakeScreen(t)
    \/ LeaveScreen(t)
    \/ EndCycle(t)

LaneNext ==
    \/ \E t \in Hourly : QueueHourly(t)
    \/ \E t \in Polls : QueuePoll(t)
    \/ \E t \in Tasks : QueueScreen(t) \/ Resume(t)

\* Promises resolve, osascript calls end (each has a timeout), and a cycle
\* does not go back to the screen for ever (Sections).
LaneFairness == \A t \in Tasks : WF_laneVars(Resume(t))

LaneSpec == LaneInit /\ [][LaneNext]_laneVars /\ LaneFairness

-----------------------------------------------------------------------------
\* "running two at once = a focus war that corrupts both" (gui-lock.ts:4):
\* whoever is on the screen is there alone, and if it is a cycle then no other
\* cycle is between two of its own sections: a manual run, the hourly tick and
\* a poll never interleave their send phases.
NoInterference ==
    \A t, u \in Tasks :
        pc[t] = "screen" /\ (\/ pc[u] = "screen"
                             \/ {t, u} \subseteq Cycles /\ pc[u] \in {"in", "asked"})
            => t = u

\* The order cycle mutex, then GUI lock cannot deadlock, and a cycle that throws
\* poisons neither chain: whoever asked for a lock ends.
EveryTaskEnds == \A t \in Tasks : pc[t] # "out" ~> pc[t] = "done"
=============================================================================
