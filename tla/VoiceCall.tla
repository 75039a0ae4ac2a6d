------------------------------- MODULE VoiceCall -------------------------------
(***************************************************************************)
(* A voice call from the carrier's webhook to the end of its media stream, *)
(* the OpenAI session behind it, the registry that counts live calls, and  *)
(* the shutdown that waits for them.  The process is one event loop: an    *)
(* action is what runs between two awaits or two events.                   *)
(*                                                                         *)
(*   pc      ringing  the webhook answered with a stream address           *)
(*           lookup   the stream is up, handleMediaStream awaits its reads *)
(*           live     its listeners were installed and it was registered   *)
(*   line    the media socket; ai the OpenAI socket; "reopening" is a      *)
(*           reconnectOpenAI between its awaits                            *)
(*   reg     the calls in activeCalls; watched: those with a monitor timer *)
(*   ending  handleCallEnd, once for the stop message and once for close   *)
(*   usage   UsageRecord rows of the call                                  *)
(*                                                                         *)
(* Histories: raced (admitted while another admitted call was not counted  *)
(* yet), overlapped (its second end began inside the first), crossed (a    *)
(* reconnect and an end overlapped), late (registered after the shutdown   *)
(* stopped waiting), graceOver.                                            *)
(***************************************************************************)
EXTENDS Naturals, FiniteSets

CONSTANTS Calls, MaxConcurrent, MaxReconnects,
          MaxFaults     \* bound: failed reads and writes

ASSUME LimitsNat == MaxConcurrent \in Nat /\ MaxReconnects \in Nat /\ MaxFaults \in Nat
ASSUME CallsFinite == IsFiniteSet(Calls)

VARIABLES pc, line, ai, reg, watched, age, tries, ending, usage, server, faults,
          raced, overlapped, crossed, late, graceOver

carrier   == <<pc, line>>
registry  == <<reg, watched>>
session   == <<ai, tries>>
billing   == <<ending, usage>>
histories == <<raced, overlapped, crossed, late, graceOver>>
vars == <<carrier, registry, session, billing, age, server, faults, histories>>

Ends == {"stop", "close"}
Steps == {"none", "usage", "link", "over", "threw"}

TypeOK ==
    /\ pc \in [Calls -> {"none", "ringing", "lookup", "live", "over"}]
    /\ line \in [Calls -> {"none", "open", "closing", "closed"}]
    /\ ai \in [Calls -> {"none", "open", "closing", "reopening", "gone"}]
    /\ reg \in SUBSET Calls /\ watched \in SUBSET Calls
    /\ age \in [Calls -> {"young", "old", "expired"}]
    /\ tries \in [Calls -> 0..(MaxReconnects + 1)]
    /\ ending \in [Calls -> [Ends -> Steps]]
    /\ usage \in [Calls -> 0..2]
    /\ server \in {"up", "closing", "waiting", "stopping", "gone", "crashed"}
    /\ faults \in 0..MaxFaults
    /\ graceOver \in BOOLEAN
    /\ {raced, overlapped, crossed, late} \subseteq SUBSET Calls

Init ==
    /\ pc = [c \in Calls |-> "none"] /\ line = [c \in Calls |-> "none"]
    /\ ai = [c \in Calls |-> "none"] /\ tries = [c \in Calls |-> 0]
    /\ reg = {} /\ watched = {}
    /\ age = [c \in Calls |-> "young"]
    /\ ending = [c \in Calls |-> [k \in Ends |-> "none"]]
    /\ usage = [c \in Calls |-> 0]
    /\ server = "up" /\ faults = 0 /\ graceOver = FALSE
    /\ raced = {} /\ overlapped = {} /\ crossed = {} /\ late = {}

--------------------------------------------------------------------------------
Set(f, c, v) == [f EXCEPT ![c] = v]
Fault == faults < MaxFaults /\ faults' = faults + 1
Running == server \notin {"gone", "crashed"}
Ended(c) == \E k \in Ends : ending[c][k] \in {"usage", "link"}

\* buildIncomingCallXml: the lines are not all busy.
MayAdmit == Cardinality(reg) < MaxConcurrent

\* The voice webhook; an admitted call counts only once its stream started.
Incoming(c) ==
    /\ server = "up" /\ pc[c] = "none"
    /\ MayAdmit
    /\ pc' = Set(pc, c, "ringing")
    /\ raced' = IF \E d \in Calls : pc[d] \in {"ringing", "lookup"}
                THEN raced \cup {c} ELSE raced
    /\ UNCHANGED <<line, registry, session, billing, age, server, faults,
                   overlapped, crossed, late, graceOver>>

\* The carrier opens the media stream and sends its start message, or the
\* caller is gone before that.
Connect(c) ==
    /\ Running
    /\ pc[c] = "ringing"
    /\ \/ server = "up" /\ pc' = Set(pc, c, "lookup") /\ line' = Set(line, c, "open")
       \/ pc' = Set(pc, c, "over") /\ UNCHANGED line
    /\ UNCHANGED <<registry, session, billing, age, server, faults, histories>>

\* The property is gone or a read throws, and the socket is closed; or there
\* is no API key: setupOpenAI throws before addCall, the listener logs it and
\* the line stays open.
LookupFails(c) ==
    /\ Running
    /\ pc[c] = "lookup"
    /\ Fault
    /\ pc' = Set(pc, c, "over")
    /\ \/ line' = Set(line, c, IF line[c] = "open" THEN "closing" ELSE line[c])
       \/ UNCHANGED line
    /\ UNCHANGED <<registry, session, billing, age, server, histories>>

\* The reads are done: the listeners are installed and the buffered start
\* message is replayed.  Nothing looks at the socket's state.
GoLive(c) ==
    /\ Running
    /\ pc[c] = "lookup"
    /\ pc' = Set(pc, c, "live")
    /\ ai' = Set(ai, c, "open")
    /\ reg' = reg \cup {c} /\ watched' = watched \cup {c}
    /\ late' = IF server = "stopping" THEN late \cup {c} ELSE late
    /\ UNCHANGED <<line, tries, billing, age, server, faults,
                   raced, overlapped, crossed, graceOver>>

--------------------------------------------------------------------------------
\* Mutant: the session is left to close by itself.
CloseSession_Skip(c) == ai[c]

\* handleCallEnd closes the session it finds; one being reopened is not there.
CloseSession(c) == IF ai[c] = "open" THEN "closing" ELSE ai[c]

\* Mutant: the close of a call whose stop was handled is ignored.
BeginEnd_Once(c, k) ==
    IF c \notin reg \/ ending[c]["stop"] # "none"
    THEN UNCHANGED <<watched, ai, ending, overlapped, crossed>>
    ELSE /\ watched' = watched \ {c}
         /\ ai' = Set(ai, c, CloseSession(c))
         /\ ending' = [ending EXCEPT ![c][k] = "usage"]
         /\ overlapped' = IF Ended(c) THEN overlapped \cup {c} ELSE overlapped
         /\ crossed' = IF ai[c] = "reopening" THEN crossed \cup {c} ELSE crossed

\* handleCallEnd up to its first await; a call not registered is left alone.
BeginEnd(c, k) ==
    IF c \notin reg
    THEN UNCHANGED <<watched, ai, ending, overlapped, crossed>>
    ELSE /\ watched' = watched \ {c}
         /\ ai' = Set(ai, c, CloseSession(c))
         /\ ending' = [ending EXCEPT ![c][k] = "usage"]
         /\ overlapped' = IF Ended(c) THEN overlapped \cup {c} ELSE overlapped
         /\ crossed' = IF ai[c] = "reopening" THEN crossed \cup {c} ELSE crossed

\* The carrier's stop message.
Stop(c) ==
    /\ Running
    /\ pc[c] = "live" /\ line[c] = "open" /\ ending[c]["stop"] = "none"
    /\ BeginEnd(c, "stop")
    /\ UNCHANGED <<carrier, reg, tries, usage, age, server, faults,
                   raced, late, graceOver>>

\* The media socket closes, because the other side closed it or because the
\* server had begun to.  During the lookups nobody listens.
LineCloses(c) ==
    /\ Running
    /\ line[c] \in {"open", "closing"}
    /\ line' = Set(line, c, "closed")
    /\ IF pc[c] = "live"
       THEN BeginEnd(c, "close")
       ELSE UNCHANGED <<watched, ai, ending, overlapped, crossed>>
    /\ UNCHANGED <<pc, reg, tries, usage, age, server, faults, raced, late, graceOver>>

At(c, k, step) == ending[c][k] = step
Goto(c, k, step) == ending' = [ending EXCEPT ![c][k] = step]

\* The call log is updated and the usage recorded.
RecordUsage(c, k) ==
    /\ Running
    /\ At(c, k, "usage")
    /\ Goto(c, k, "link")
    /\ usage' = Set(usage, c, usage[c] + 1)
    /\ UNCHANGED <<carrier, registry, session, age, server, faults, histories>>

\* The link text, whose errors are caught, and removeCall.
Remove(c, k) ==
    /\ Running
    /\ At(c, k, "link")
    /\ Goto(c, k, "over")
    /\ reg' = reg \ {c}
    /\ UNCHANGED <<carrier, watched, session, usage, age, server, faults, histories>>

\* A write of handleCallEnd rejects.  The message listener logs it; from the
\* close listener it is an unhandled rejection, which ends the process.
EndThrows(c, k) ==
    /\ Running
    /\ At(c, k, "usage")
    /\ Fault
    /\ Goto(c, k, "threw")
    /\ server' = IF k = "close" THEN "crashed" ELSE server
    /\ UNCHANGED <<carrier, registry, session, usage, age, histories>>

--------------------------------------------------------------------------------
\* The OpenAI socket closes, by itself or because the server closed it;
\* reconnectOpenAI runs up to its first await.
SessionCloses(c) ==
    /\ Running
    /\ ai[c] \in {"open", "closing"}
    /\ IF c \notin reg \/ line[c] # "open"
       THEN ai' = Set(ai, c, "gone") /\ UNCHANGED <<tries, line, crossed>>
       ELSE /\ tries' = Set(tries, c, tries[c] + 1)
            /\ IF tries[c] + 1 > MaxReconnects
               THEN /\ ai' = Set(ai, c, "gone")
                    /\ line' = Set(line, c, "closing")
                    /\ UNCHANGED crossed
               ELSE /\ ai' = Set(ai, c, "reopening")
                    /\ crossed' = IF Ended(c) THEN crossed \cup {c} ELSE crossed
                    /\ UNCHANGED line
    /\ UNCHANGED <<pc, registry, billing, age, server, faults,
                   raced, overlapped, late, graceOver>>

\* The new session is stored in the call, registered or not.
Reopen(c) ==
    /\ Running
    /\ ai[c] = "reopening"
    /\ ai' = Set(ai, c, "open")
    /\ UNCHANGED <<carrier, registry, tries, billing, age, server, faults, histories>>

\* A read of reconnectOpenAI rejects: nobody awaits it.
ReopenThrows(c) ==
    /\ Running
    /\ ai[c] = "reopening"
    /\ Fault
    /\ server' = "crashed"
    /\ UNCHANGED <<carrier, registry, session, billing, age, histories>>

--------------------------------------------------------------------------------
\* Time: 45 minutes, and the property's maxCallMinutes before or after them.
Grow(c) ==
    /\ Running
    /\ c \in reg
    /\ \E next \in {"old", "expired"} :
           /\ age[c] # "expired" /\ next # age[c]
           /\ age' = Set(age, c, next)
    /\ UNCHANGED <<carrier, registry, session, billing, server, faults, histories>>

\* The 30 s monitor closes an expired call's socket if it is open.
MonitorLine(c) ==
    IF age[c] = "expired" /\ line[c] = "open" THEN "closing" ELSE line[c]

\* ... and from 45 minutes on, whatever it did before, an open session.
Monitor(c) ==
    /\ Running
    /\ c \in watched /\ c \in reg
    /\ line' = Set(line, c, MonitorLine(c))
    /\ ai' = Set(ai, c, IF age[c] = "old" /\ ai[c] = "open" THEN "closing" ELSE ai[c])
    /\ UNCHANGED <<pc, registry, tries, billing, age, server, faults, histories>>

--------------------------------------------------------------------------------
Sigterm ==
    /\ server = "up"
    /\ server' = "closing"
    /\ UNCHANGED <<carrier, registry, session, billing, age, faults, histories>>

\* Mutant: calls are not waited for.
AfterClose_NoWait == "stopping"

\* The shutdown waits only if a call is registered when the server closed.
AfterClose == IF reg = {} THEN "stopping" ELSE "waiting"

CloseServer ==
    /\ server = "closing"
    /\ server' = AfterClose
    /\ UNCHANGED <<carrier, registry, session, billing, age, faults, histories>>

\* The one-second check, or the grace timer.
StopWaiting ==
    /\ server = "waiting"
    /\ server' = "stopping"
    /\ \/ reg = {} /\ UNCHANGED graceOver
       \/ graceOver' = TRUE
    /\ UNCHANGED <<carrier, registry, session, billing, age, faults,
                   raced, overlapped, crossed, late>>

\* Jobs, Redis and Prisma are closed and the process exits.
Exit ==
    /\ server = "stopping"
    /\ server' = "gone"
    /\ UNCHANGED <<carrier, registry, session, billing, age, faults, histories>>

Lookup(c) == LookupFails(c) \/ GoLive(c)
EndStep(c, k) == RecordUsage(c, k) \/ Remove(c, k) \/ EndThrows(c, k)
Reconnect(c) == Reopen(c) \/ ReopenThrows(c)
Shutdown == CloseServer \/ StopWaiting \/ Exit

Next ==
    \/ \E c \in Calls :
        \/ Incoming(c) \/ Connect(c) \/ Lookup(c)
        \/ Stop(c) \/ LineCloses(c) \/ SessionCloses(c) \/ Reconnect(c)
        \/ \E k \in Ends : EndStep(c, k)
        \/ Grow(c) \/ Monitor(c)
    \/ Sigterm \/ Shutdown

Spec == Init /\ [][Next]_vars

--------------------------------------------------------------------------------
\* A call that left the registry was billed and holds no OpenAI session; it was
\* billed once, unless the stop message and the socket's close were handled at
\* the same time (call-handler.ts:493-505), and the session is closed, unless a
\* reconnect was under way when the call ended.
CleanEnd == \A c \in Calls :
    /\ pc[c] = "live" /\ c \notin reg =>
           /\ usage[c] >= 1
           /\ ai[c] = "open" => c \in crossed
    /\ c \notin overlapped => usage[c] <= 1

\* The shutdown cuts a registered call only when its grace period is over or
\* when the call was registered after the last look at the registry.
CallsNotCut == server = "gone" => graceOver \/ reg \subseteq late

\* Its socket closed before the listeners were installed: nobody was told.
Unheard(c) == line[c] = "closed" /\ \A k \in Ends : ending[c][k] = "none"

\* The places of MaxConcurrent are neither exceeded nor lost.  The check and
\* the count are apart (voice-twiml.ts:33), so only a call admitted while
\* another was on its way exceeds them; and every registered call has somebody
\* left who removes it: an end at work, or a socket still to close, under the
\* monitor or after an end that threw.  The hard limit (call-handler.ts:463)
\* does not reach the exception, a call whose close was not heard.
CapacityKept ==
    /\ Cardinality(reg \ raced) <= MaxConcurrent
    /\ \A c \in reg :
           \/ Ended(c) \/ Unheard(c) \/ ~Running
           \/ line[c] # "closed" /\ (c \in watched \/ At(c, "stop", "threw"))
================================================================================
