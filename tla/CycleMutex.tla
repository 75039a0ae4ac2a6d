----------------------------- MODULE CycleMutex -----------------------------
(***************************************************************************)
(* The promise-chain mutex of zillow-cycle.ts; lib/gui-lock.ts is the same *)
(* chain with "wait" callers only.  Each call links itself behind the call *)
(* the variable chain points at, so the lock is a linked list of promises  *)
(* and nothing in the code holds the list itself.  A call starts to run in *)
(* a later microtask than the one it was made in, also when nothing runs,  *)
(* and busy is only set then.                                              *)
(***************************************************************************)
EXTENDS Naturals

CONSTANT MaxCalls        \* how many calls are made (a bound)
ASSUME MaxCallsNat == MaxCalls \in Nat

Calls == 1 .. MaxCalls
Modes == {"wait", "try"}

VARIABLES
    made,     \* calls made so far
    phase,    \* of each call's promise
    mode,     \* what each call asked for
    prev,     \* the call whose promise it waits for (0: none)
    chain,    \* the variable chain: the last call that linked itself
    busy      \* the variable busy

vars == <<made, phase, mode, prev, chain, busy>>

Init ==
    /\ made = 0
    /\ phase = [c \in Calls |-> "none"]
    /\ mode = [c \in Calls |-> "wait"]
    /\ prev = [c \in Calls |-> 0]
    /\ chain = 0
    /\ busy = FALSE

Settled(c) == c # 0 => phase[c] = "settled"

\* A "try" call that finds a cycle running.
Refuse(c) ==
    /\ c = made + 1
    /\ busy
    /\ made' = c
    /\ phase' = [phase EXCEPT ![c] = "refused"]
    /\ mode' = [mode EXCEPT ![c] = "try"]
    /\ UNCHANGED <<prev, chain, busy>>

\* Mutant: the new promise is never stored back in chain.
Link_NotStored(c, m) ==
    /\ c = made + 1
    /\ m = "try" => ~busy
    /\ made' = c
    /\ phase' = [phase EXCEPT ![c] = "waiting"]
    /\ mode' = [mode EXCEPT ![c] = m]
    /\ prev' = [prev EXCEPT ![c] = chain]
    /\ UNCHANGED <<chain, busy>>

\* Any other call: result = chain.then(run, run); chain = result.then(...).
Link(c, m) ==
    /\ c = made + 1
    /\ m = "try" => ~busy
    /\ made' = c
    /\ phase' = [phase EXCEPT ![c] = "waiting"]
    /\ mode' = [mode EXCEPT ![c] = m]
    /\ prev' = [prev EXCEPT ![c] = chain]
    /\ chain' = c
    /\ UNCHANGED busy

\* Mutant: a call starts when the flag is down instead of in its turn.
Run_Barging(c) ==
    /\ phase[c] = "waiting"
    /\ ~busy
    /\ phase' = [phase EXCEPT ![c] = "running"]
    /\ busy' = TRUE
    /\ UNCHANGED <<made, mode, prev, chain>>

\* The promise it waits for has settled: busy = true, then fn.
Run(c) ==
    /\ phase[c] = "waiting"
    /\ Settled(prev[c])
    /\ phase' = [phase EXCEPT ![c] = "running"]
    /\ busy' = TRUE
    /\ UNCHANGED <<made, mode, prev, chain>>

\* fn resolved or rejected: finally busy = false, and both callbacks of
\* result.then settle the link.
Settle(c) ==
    /\ phase[c] = "running"
    /\ phase' = [phase EXCEPT ![c] = "settled"]
    /\ busy' = FALSE
    /\ UNCHANGED <<made, mode, prev, chain>>

Next == \E c \in Calls :
    \/ Refuse(c)
    \/ \E m \in Modes : Link(c, m)
    \/ Run(c)
    \/ Settle(c)

Spec == Init /\ [][Next]_vars

-----------------------------------------------------------------------------
\* Types of all variables.
TypeOK ==
    /\ made \in 0 .. MaxCalls
    /\ phase \in [Calls -> {"none", "waiting", "running", "settled", "refused"}]
    /\ mode \in [Calls -> Modes]
    /\ prev \in [Calls -> 0 .. MaxCalls]
    /\ chain \in 0 .. MaxCalls
    /\ busy \in BOOLEAN

\* Two cycles never interleave their send phases (zillow-auto.ts:213): the
\* linked promises admit one body at a time.
MutualExclusion ==
    \A c, d \in Calls : phase[c] = "running" /\ phase[d] = "running" => c = d

\* The flag the poll tick and the status page read is up exactly while a
\* body runs, however the previous body ended.
BusyMeansRunning == busy <=> \E c \in Calls : phase[c] = "running"

\* The later caller queues: no call starts before one made earlier, so a
\* cron tick cannot be starved by manual runs.
InTurn ==
    \A c, d \in Calls : d < c /\ phase[c] \in {"running", "settled"}
                              => phase[d] \in {"settled", "refused"}

\* The chain of promises implements the plain mutex.
Abs == INSTANCE Mutex WITH
    Callers <- Calls,
    holding <- {c \in Calls : phase[c] = "running"},
    waiting <- {c \in Calls : phase[c] = "waiting"},
    done    <- {c \in Calls : phase[c] = "settled"}

AbstractMutex == Abs!Spec
=============================================================================
