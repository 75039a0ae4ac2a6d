------------------------------- MODULE Mutex --------------------------------
(***************************************************************************)
(* What runExclusiveCycle and withGuiLock promise their callers, without   *)
(* the promise chain: a caller that is let in waits, then holds the lock   *)
(* alone, then is done.                                                    *)
(***************************************************************************)
CONSTANT Callers
VARIABLES holding, waiting, done

Init ==
    /\ holding = {}
    /\ waiting = {}
    /\ done = {}

Ask(c) ==
    /\ c \notin holding \union waiting \union done
    /\ waiting' = waiting \union {c}
    /\ UNCHANGED <<holding, done>>

Grant(c) ==
    /\ holding = {}
    /\ c \in waiting
    /\ holding' = {c}
    /\ waiting' = waiting \ {c}
    /\ UNCHANGED done

Release(c) ==
    /\ holding = {c}
    /\ holding' = {}
    /\ done' = done \union {c}
    /\ UNCHANGED waiting

Next == \E c \in Callers : Ask(c) \/ Grant(c) \/ Release(c)

Spec == Init /\ [][Next]_<<holding, waiting, done>>
=============================================================================
