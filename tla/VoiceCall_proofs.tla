-------------------------- MODULE VoiceCall_proofs --------------------------
(***************************************************************************)
(* What VoiceCall promises of every call, for any number of calls, lines,  *)
(* reconnects and faults.  CallInv says where one call can be; a step of   *)
(* one call leaves the others alone (SameKept); Lines counts the calls the *)
(* registry admits and Cut follows the shutdown.                           *)
(***************************************************************************)
EXTENDS VoiceCall, FiniteSetTheorems, TLAPS

Types ==
    /\ pc \in [Calls -> {"none", "ringing", "lookup", "live", "over"}]
    /\ line \in [Calls -> {"none", "open", "closing", "closed"}]
    /\ ai \in [Calls -> {"none", "open", "closing", "reopening", "gone"}]
    /\ reg \in SUBSET Calls /\ watched \in SUBSET Calls
    /\ age \in [Calls -> {"young", "old", "expired"}]
    /\ tries \in [Calls -> Nat]
    /\ ending \in [Calls -> [Ends -> Steps]]
    /\ usage \in [Calls -> Nat]
    /\ server \in {"up", "closing", "waiting", "stopping", "gone", "crashed"}
    /\ faults \in 0..MaxFaults
    /\ graceOver \in BOOLEAN
    /\ raced \in SUBSET Calls /\ overlapped \in SUBSET Calls
    /\ crossed \in SUBSET Calls /\ late \in SUBSET Calls

Billed(c, k) == IF ending[c][k] \in {"link", "over"} THEN 1 ELSE 0
Begun(c, k)  == ending[c][k] \in {"usage", "link", "over"}

\* A call that is not live has no session and no end.
Quiet(c) == pc[c] # "live" => /\ c \notin reg /\ ai[c] = "none" /\ tries[c] = 0
                              /\ \A k \in Ends : ending[c][k] = "none"

\* Each end is billed once, and two only when they overlap.
Bills(c) == /\ usage[c] = Billed(c, "stop") + Billed(c, "close")
            /\ c \in overlapped \/ ~Begun(c, "stop") \/ ~Begun(c, "close")

\* A session left open after an end crossed a reconnect.
Session(c) ==
    /\ tries[c] <= MaxReconnects + 1
    /\ ai[c] \in {"open", "closing", "reopening"} => tries[c] <= MaxReconnects
    /\ Ended(c) \/ (pc[c] = "live" /\ c \notin reg)
         => ai[c] \notin {"open", "reopening"} \/ c \in crossed

\* Who is registered, and who will take it out.
Held(c) ==
    /\ c \in reg => \A k \in Ends : ending[c][k] # "over"
    /\ pc[c] = "live" /\ c \notin reg => \E k \in Ends : ending[c][k] = "over"
    /\ c \in reg => c \in watched \/ \E k \in Ends : ending[c][k] # "none"
    /\ ending[c]["close"] # "none" => line[c] = "closed"
    /\ ending[c]["close"] = "threw" => server = "crashed"
    /\ line[c] = "closed" /\ ending[c]["close"] = "none" /\ c \in reg => ending[c]["stop"] = "none"

CallInv(c) == Quiet(c) /\ Bills(c) /\ Session(c) /\ Held(c)

LEMMA TypesInit == Init => Types
  <1> SUFFICES ASSUME Init PROVE Types
    OBVIOUS
  <1>1. [k \in Ends |-> "none"] \in [Ends -> Steps]
    BY DEF Steps
  <1>2. ending \in [Calls -> [Ends -> Steps]] /\ faults \in 0 .. MaxFaults
    BY <1>1, LimitsNat DEF Init
  <1> QED
    BY <1>2 DEF Init, Types

LEMMA CallInit == Init => \A c \in Calls : CallInv(c)
  BY LimitsNat DEF Init, CallInv, Quiet, Bills, Session, Held, Billed, Begun, Ended, Ends

LEMMA BeginEndTypes ==
    ASSUME Types, NEW c \in Calls, NEW k \in Ends, BeginEnd(c, k)
    PROVE  /\ watched' \in SUBSET Calls
           /\ ai' \in [Calls -> {"none", "open", "closing", "reopening", "gone"}]
           /\ ending' \in [Calls -> [Ends -> Steps]]
           /\ overlapped' \in SUBSET Calls /\ crossed' \in SUBSET Calls
  <1>1. CASE c \notin reg
    BY <1>1 DEF Types, BeginEnd
  <1>2. CASE c \in reg
    <2>1. CloseSession(c) \in {"none", "open", "closing", "reopening", "gone"}
      BY DEF Types, CloseSession
    <2>2. ai' = [ai EXCEPT ![c] = CloseSession(c)]
      BY <1>2 DEF BeginEnd, Set
    <2>3. ending' = [ending EXCEPT ![c][k] = "usage"]
      BY <1>2 DEF BeginEnd
    <2>4. watched' = watched \ {c} /\ overlapped' \in {overlapped, overlapped \cup {c}}
          /\ crossed' \in {crossed, crossed \cup {c}}
      BY <1>2 DEF BeginEnd
    <2> QED
      BY <2>1, <2>2, <2>3, <2>4 DEF Types, Steps
  <1> QED
    BY <1>1, <1>2

LEMMA TypesKept == Types /\ [Next]_vars => Types'
  <1> SUFFICES ASSUME Types, [Next]_vars PROVE Types'
    OBVIOUS
  <1> USE DEF Types, Set, Goto, Ends, Steps, Fault, carrier, registry, session, billing, histories
  <1>1. ASSUME NEW c \in Calls, Incoming(c) PROVE Types'
    BY <1>1 DEF Incoming
  <1>2. ASSUME NEW c \in Calls, Connect(c) PROVE Types'
    BY <1>2 DEF Connect
  <1>3. ASSUME NEW c \in Calls, LookupFails(c) PROVE Types'
    BY <1>3, LimitsNat DEF LookupFails
  <1>4. ASSUME NEW c \in Calls, GoLive(c) PROVE Types'
    BY <1>4 DEF GoLive
  <1>5. ASSUME NEW c \in Calls, Stop(c) PROVE Types'
    BY <1>5, BeginEndTypes DEF Stop
  <1>6. ASSUME NEW c \in Calls, LineCloses(c) PROVE Types'
    <2>1. CASE BeginEnd(c, "close")
      BY <1>6, <2>1, BeginEndTypes DEF LineCloses
    <2>2. CASE UNCHANGED <<watched, ai, ending, overlapped, crossed>>
      BY <1>6, <2>2 DEF LineCloses
    <2> QED
      BY <1>6, <2>1, <2>2 DEF LineCloses
  <1>7. ASSUME NEW c \in Calls, SessionCloses(c) PROVE Types'
    <2>1. /\ ai' \in {Set(ai, c, "gone"), Set(ai, c, "reopening")}
          /\ line' \in {line, Set(line, c, "closing")}
          /\ crossed' \in {crossed, crossed \cup {c}}
      BY <1>7 DEF SessionCloses
    <2>2. tries' \in [Calls -> Nat]
      <3>1. tries[c] + 1 \in Nat
        OBVIOUS
      <3> QED
        BY <1>7, <3>1 DEF SessionCloses
    <2> QED
      BY <1>7, <2>1, <2>2 DEF SessionCloses
  <1>8. ASSUME NEW c \in Calls, Reopen(c) PROVE Types'
    BY <1>8 DEF Reopen
  <1>9. ASSUME NEW c \in Calls, ReopenThrows(c) PROVE Types'
    BY <1>9, LimitsNat DEF ReopenThrows
  <1>10. ASSUME NEW c \in Calls, NEW k \in Ends, RecordUsage(c, k) PROVE Types'
    BY <1>10 DEF RecordUsage
  <1>11. ASSUME NEW c \in Calls, NEW k \in Ends, Remove(c, k) PROVE Types'
    BY <1>11 DEF Remove
  <1>12. ASSUME NEW c \in Calls, NEW k \in Ends, EndThrows(c, k) PROVE Types'
    BY <1>12, LimitsNat DEF EndThrows
  <1>13. ASSUME NEW c \in Calls, Grow(c) PROVE Types'
    BY <1>13 DEF Grow
  <1>14. ASSUME NEW c \in Calls, Monitor(c) PROVE Types'
    BY <1>14 DEF Monitor, MonitorLine
  <1>15. CASE Sigterm
    BY <1>15 DEF Sigterm
  <1>16. CASE Shutdown
    BY <1>16 DEF Shutdown, CloseServer, AfterClose, StopWaiting, Exit
  <1>17. CASE UNCHANGED vars
    BY <1>17 DEF vars
  <1> QED
    BY <1>1, <1>2, <1>3, <1>4, <1>5, <1>6, <1>7, <1>8, <1>9, <1>10, <1>11, <1>12, <1>13,
       <1>14, <1>15, <1>16, <1>17 DEF Next, Lookup, Reconnect, EndStep

--------------------------------------------------------------------------------
\* What CallInv(d) reads is as it was.
Same(d) ==
    /\ pc'[d] = pc[d] /\ line'[d] = line[d] /\ ai'[d] = ai[d] /\ tries'[d] = tries[d]
    /\ ending'[d] = ending[d] /\ usage'[d] = usage[d]
    /\ (d \in reg') = (d \in reg) /\ (d \in watched') = (d \in watched)
    /\ (d \in overlapped') = (d \in overlapped) /\ (d \in crossed') = (d \in crossed)
    /\ server = "crashed" => server' = "crashed"

\* A step of call c, of its carrier, its session, one of its ends or its clock.
CallStep(c) ==
    \/ Incoming(c) \/ Connect(c) \/ LookupFails(c) \/ GoLive(c)
    \/ Stop(c) \/ LineCloses(c) \/ SessionCloses(c) \/ Reopen(c) \/ ReopenThrows(c)
    \/ \E k \in Ends : RecordUsage(c, k) \/ Remove(c, k) \/ EndThrows(c, k)
    \/ Grow(c) \/ Monitor(c)

LEMMA SameKeeps ==
    ASSUME NEW d \in Calls, CallInv(d), Same(d)
    PROVE  CallInv(d)'
  <1>1. Quiet(d)' /\ Bills(d)'
    BY DEF CallInv, Same, Quiet, Bills, Billed, Begun
  <1>2. Session(d)'
    BY DEF CallInv, Same, Session, Ended
  <1>3. Held(d)'
    BY DEF CallInv, Same, Held
  <1> QED
    BY <1>1, <1>2, <1>3 DEF CallInv

LEMMA BeginEndSame ==
    ASSUME Types, NEW c \in Calls, NEW d \in Calls \ {c}, NEW k \in Ends, BeginEnd(c, k)
    PROVE  /\ ai'[d] = ai[d] /\ ending'[d] = ending[d]
           /\ (d \in watched') = (d \in watched)
           /\ (d \in overlapped') = (d \in overlapped) /\ (d \in crossed') = (d \in crossed)
  <1>1. CASE c \notin reg
    BY <1>1 DEF BeginEnd
  <1>2. CASE c \in reg
    BY <1>2 DEF BeginEnd, Types, Set
  <1> QED
    BY <1>1, <1>2

\* A step of one call leaves every other call alone.
LEMMA OthersSame ==
    ASSUME Types, NEW c \in Calls, NEW d \in Calls \ {c}, CallStep(c)
    PROVE  Same(d)
  <1> USE DEF Types, Same, Set, Goto, Running, carrier, registry, session, billing, histories
  <1>1. CASE Incoming(c)
    BY <1>1 DEF Incoming
  <1>2. CASE Connect(c)
    BY <1>2 DEF Connect
  <1>3. CASE LookupFails(c)
    BY <1>3 DEF LookupFails
  <1>4. CASE GoLive(c)
    BY <1>4 DEF GoLive
  <1>5. CASE Stop(c)
    BY <1>5, BeginEndSame DEF Stop, Ends
  <1>6. CASE LineCloses(c)
    <2>1. CASE BeginEnd(c, "close")
      BY <1>6, <2>1, BeginEndSame DEF LineCloses, Ends
    <2>2. CASE UNCHANGED <<watched, ai, ending, overlapped, crossed>>
      BY <1>6, <2>2 DEF LineCloses
    <2> QED
      BY <1>6, <2>1, <2>2 DEF LineCloses
  <1>7. CASE SessionCloses(c)
    <2>1. /\ ai' \in {Set(ai, c, "gone"), Set(ai, c, "reopening")}
          /\ line' \in {line, Set(line, c, "closing")}
          /\ crossed' \in {crossed, crossed \cup {c}}
          /\ tries' \in {tries, Set(tries, c, tries[c] + 1)}
      BY <1>7 DEF SessionCloses
    <2> QED
      BY <1>7, <2>1 DEF SessionCloses
  <1>8. CASE Reopen(c)
    BY <1>8 DEF Reopen
  <1>9. CASE ReopenThrows(c)
    BY <1>9 DEF ReopenThrows
  <1>10. CASE \E k \in Ends : RecordUsage(c, k) \/ Remove(c, k) \/ EndThrows(c, k)
    BY <1>10 DEF RecordUsage, Remove, EndThrows
  <1>11. CASE Grow(c)
    BY <1>11 DEF Grow
  <1>12. CASE Monitor(c)
    BY <1>12 DEF Monitor
  <1> QED
    BY <1>1, <1>2, <1>3, <1>4, <1>5, <1>6, <1>7, <1>8, <1>9, <1>10, <1>11, <1>12 DEF CallStep

--------------------------------------------------------------------------------
\* What the acting call itself becomes, one lemma per kind of step.
LEMMA ArrivalKeeps ==
    ASSUME Types, NEW c \in Calls, CallInv(c),
           Incoming(c) \/ Connect(c) \/ LookupFails(c) \/ GoLive(c)
    PROVE  CallInv(c)'
  <1> USE DEF Types, Set, Fault, carrier, registry, session, billing, histories, CallInv, Quiet
  <1>1. CASE Incoming(c)
    <2>1. pc[c] # "live" /\ pc'[c] # "live"
      BY <1>1 DEF Incoming
    <2> QED
      BY <1>1, <2>1 DEF Incoming, Bills, Billed, Begun, Session, Held, Ended
  <1>2. CASE Connect(c)
    <2>1. pc[c] # "live" /\ pc'[c] # "live"
      BY <1>2 DEF Connect
    <2> QED
      BY <1>2, <2>1 DEF Connect, Bills, Billed, Begun, Session, Held, Ended, Ends
  <1>3. CASE LookupFails(c)
    <2>1. pc[c] # "live" /\ pc'[c] # "live"
      BY <1>3 DEF LookupFails
    <2> QED
      BY <1>3, <2>1 DEF LookupFails, Bills, Billed, Begun, Session, Held, Ended, Ends
  <1>4. CASE GoLive(c)
    <2>1. /\ pc[c] # "live" /\ pc'[c] = "live" /\ ai'[c] = "open" /\ c \in reg' /\ c \in watched'
          /\ UNCHANGED <<line, tries, ending, usage, server, overlapped, crossed>>
      BY <1>4 DEF GoLive
    <2>2. tries[c] = 0 /\ \A k \in Ends : ending[c][k] = "none"
      BY <2>1
    <2>3. ~Ended(c)'
      BY <2>1, <2>2 DEF Ended
    <2> QED
      BY <2>1, <2>2, <2>3, LimitsNat DEF Bills, Billed, Begun, Session, Held, Ends
  <1> QED
    BY <1>1, <1>2, <1>3, <1>4

\* handleCallEnd's first part, for the stop message and for the close.
LEMMA BeginEndKeeps ==
    ASSUME Types, NEW c \in Calls, CallInv(c), pc[c] = "live", NEW k \in Ends, BeginEnd(c, k),
           ending[c][k] = "none",
           UNCHANGED <<pc, reg, tries, usage, server>>,
           IF k = "close" THEN line'[c] = "closed" ELSE line[c] = "open" /\ line'[c] = line[c]
    PROVE  CallInv(c)'
  <1>1. CASE c \notin reg
    <2>1. UNCHANGED <<watched, ai, ending, overlapped, crossed>>
      BY <1>1 DEF BeginEnd
    <2> QED
      BY <1>1, <2>1 DEF CallInv, Quiet, Bills, Billed, Begun, Session, Held, Ended, Ends
  <1>2. CASE c \in reg
    <2>1. /\ ending'[c] = [ending[c] EXCEPT ![k] = "usage"]
          /\ ai'[c] = CloseSession(c)
          /\ Ended(c) => c \in overlapped'
          /\ ai[c] = "reopening" => c \in crossed'
          /\ (c \in overlapped => c \in overlapped') /\ (c \in crossed => c \in crossed')
      BY <1>2 DEF BeginEnd, Types, Set
    <2>2. /\ ending'[c][k] = "usage"
          /\ \A j \in Ends : j # k => ending'[c][j] = ending[c][j]
      BY <2>1 DEF Types
    <2>3. Quiet(c)'
      BY DEF CallInv, Quiet
    <2>4. Bills(c)'
      <3>1. \A j \in Ends : Billed(c, j)' = Billed(c, j)
        BY <2>2 DEF Billed
      <3>2. \A j \in Ends : j # k /\ Begun(c, j)' => Ended(c)
        BY <2>2, <1>2 DEF CallInv, Held, Begun, Ended
      <3> QED
        BY <2>1, <2>2, <3>1, <3>2 DEF CallInv, Bills, Ends
    <2>5. Session(c)'
      BY <2>1, <1>2 DEF CallInv, Session, CloseSession
    <2>6. Held(c)'
      BY <2>2, <1>2 DEF CallInv, Held, Ends
    <2> QED
      BY <2>3, <2>4, <2>5, <2>6 DEF CallInv
  <1> QED
    BY <1>1, <1>2

LEMMA HangUpKeeps ==
    ASSUME Types, NEW c \in Calls, CallInv(c), Stop(c) \/ LineCloses(c)
    PROVE  CallInv(c)'
  <1> USE DEF Set, carrier, registry, session, billing, histories
  <1>1. CASE Stop(c)
    BY <1>1, BeginEndKeeps DEF Stop, Ends
  <1>2. CASE LineCloses(c)
    <2>1. line[c] # "closed" /\ line'[c] = "closed" /\ UNCHANGED <<pc, reg, tries, usage, server>>
      BY <1>2 DEF LineCloses, Types
    <2>2. CASE pc[c] = "live"
      <3>1. ending[c]["close"] = "none"
        BY <2>1 DEF CallInv, Held
      <3> QED
        BY <1>2, <2>1, <2>2, <3>1, BeginEndKeeps DEF LineCloses, Ends
    <2>3. CASE pc[c] # "live"
      <3>1. UNCHANGED <<watched, ai, ending, overlapped, crossed>>
        BY <1>2, <2>3 DEF LineCloses
      <3> QED
        BY <2>1, <2>3, <3>1 DEF CallInv, Quiet, Bills, Billed, Begun, Session, Held, Ended, Ends
    <2> QED
      BY <2>2, <2>3
  <1> QED
    BY <1>1, <1>2

\* The rest of handleCallEnd.
LEMMA EndKeeps ==
    ASSUME Types, NEW c \in Calls, CallInv(c), NEW k \in Ends,
           RecordUsage(c, k) \/ Remove(c, k) \/ EndThrows(c, k)
    PROVE  CallInv(c)'
  <1> USE DEF At, Goto, Set, carrier, registry, session, billing, histories
  <1>live. pc[c] = "live"
    BY DEF CallInv, Quiet, RecordUsage, Remove, EndThrows
  <1>same. UNCHANGED <<pc, line, ai, tries, watched, overlapped, crossed>>
    BY DEF RecordUsage, Remove, EndThrows
  <1>1. CASE RecordUsage(c, k)
    <2>1. /\ ending[c][k] = "usage" /\ ending'[c] = [ending[c] EXCEPT ![k] = "link"]
          /\ usage'[c] = usage[c] + 1 /\ UNCHANGED <<reg, server>>
      BY <1>1 DEF RecordUsage, Types
    <2>2. /\ ending'[c][k] = "link"
          /\ \A j \in Ends : j # k => ending'[c][j] = ending[c][j]
      BY <2>1 DEF Types
    <2>3. Quiet(c)'
      BY <1>live, <1>same DEF Quiet
    <2>4. Bills(c)'
      <3>1. /\ Billed(c, k) = 0 /\ Billed(c, k)' = 1
            /\ \A j \in Ends : Begun(c, j)' = Begun(c, j) /\ (j # k => Billed(c, j)' = Billed(c, j))
        BY <2>1, <2>2 DEF Billed, Begun
      <3> QED
        BY <1>same, <2>1, <3>1 DEF CallInv, Bills, Ends, Billed
    <2>5. Session(c)' /\ Held(c)'
      BY <1>same, <2>1, <2>2 DEF CallInv, Session, Held, Ended, Ends
    <2> QED
      BY <2>3, <2>4, <2>5 DEF CallInv
  <1>2. CASE Remove(c, k)
    <2>1. /\ ending[c][k] = "link" /\ ending'[c] = [ending[c] EXCEPT ![k] = "over"]
          /\ c \notin reg' /\ UNCHANGED <<usage, server>>
      BY <1>2 DEF Remove, Types
    <2>2. /\ ending'[c][k] = "over"
          /\ \A j \in Ends : j # k => ending'[c][j] = ending[c][j]
      BY <2>1 DEF Types
    <2>3. Quiet(c)'
      BY <1>live, <1>same DEF Quiet
    <2>4. Bills(c)'
      <3>1. \A j \in Ends : Begun(c, j)' = Begun(c, j) /\ Billed(c, j)' = Billed(c, j)
        BY <2>1, <2>2 DEF Billed, Begun
      <3> QED
        BY <1>same, <2>1, <3>1 DEF CallInv, Bills, Ends
    <2>5. Session(c)' /\ Held(c)'
      BY <1>same, <2>1, <2>2 DEF CallInv, Session, Held, Ended, Ends
    <2> QED
      BY <2>3, <2>4, <2>5 DEF CallInv
  <1>3. CASE EndThrows(c, k)
    <2>1. /\ ending[c][k] = "usage" /\ ending'[c] = [ending[c] EXCEPT ![k] = "threw"]
          /\ UNCHANGED <<usage, reg>>
          /\ (k = "close" => server' = "crashed") /\ (k # "close" => server' = server)
      BY <1>3 DEF EndThrows, Types
    <2>2. /\ ending'[c][k] = "threw"
          /\ \A j \in Ends : j # k => ending'[c][j] = ending[c][j]
      BY <2>1 DEF Types
    <2>3. Quiet(c)'
      BY <1>live, <1>same DEF Quiet
    <2>4. Bills(c)'
      <3>1. /\ ~Begun(c, k)'
            /\ \A j \in Ends : (Begun(c, j)' => Begun(c, j)) /\ Billed(c, j)' = Billed(c, j)
        BY <2>1, <2>2 DEF Billed, Begun
      <3> QED
        BY <1>same, <2>1, <3>1 DEF CallInv, Bills, Ends
    <2>5. Session(c)'
      BY <1>same, <2>1, <2>2 DEF CallInv, Session, Ended
    <2>6. Held(c)'
      BY <1>same, <2>1, <2>2, <1>3 DEF CallInv, Held, Ends, EndThrows, Running
    <2> QED
      BY <2>3, <2>4, <2>5, <2>6 DEF CallInv
  <1> QED
    BY <1>1, <1>2, <1>3

\* The OpenAI session, its reconnects, the clock and the monitor.
LEMMA SessionKeeps ==
    ASSUME Types, NEW c \in Calls, CallInv(c),
           SessionCloses(c) \/ Reopen(c) \/ ReopenThrows(c) \/ Grow(c) \/ Monitor(c)
    PROVE  CallInv(c)'
  <1> USE DEF Set, carrier, registry, session, billing, histories
  <1>same. /\ UNCHANGED <<pc, ending, usage, reg, watched, overlapped>>
           /\ server = "crashed" => server' = "crashed"
           /\ ai[c] = "none" => ai'[c] = "none" /\ tries'[c] = tries[c]
           /\ (line[c] = "closed") = (line'[c] = "closed")
           /\ c \in crossed => c \in crossed'
    <2>1. CASE SessionCloses(c)
      BY <2>1 DEF SessionCloses, Types, Running
    <2>2. CASE Reopen(c) \/ ReopenThrows(c)
      BY <2>2 DEF Reopen, ReopenThrows, Types
    <2>3. CASE Grow(c) \/ Monitor(c)
      BY <2>3 DEF Grow, Monitor, MonitorLine, Types
    <2> QED
      BY <2>1, <2>2, <2>3
  <1>1. Quiet(c)' /\ Bills(c)' /\ Held(c)'
    BY <1>same DEF CallInv, Quiet, Bills, Held, Billed, Begun
  <1>2. Session(c)'
    <2>1. CASE SessionCloses(c)
      <3>1. /\ ai[c] # "none" /\ tries[c] <= MaxReconnects
            /\ tries'[c] = tries[c] \/ tries'[c] = tries[c] + 1
            /\ \/ ai'[c] = "gone"
               \/ /\ ai'[c] = "reopening" /\ c \in reg /\ tries'[c] <= MaxReconnects
                  /\ Ended(c) => c \in crossed'
        BY <2>1, LimitsNat DEF SessionCloses, Types, CallInv, Session
      <3> QED
        BY <1>same, <3>1, LimitsNat DEF Types, Session, Ended
    <2>2. CASE Reopen(c) \/ ReopenThrows(c)
      BY <1>same, <2>2 DEF Reopen, ReopenThrows, Types, CallInv, Session, Ended
    <2>3. CASE Grow(c) \/ Monitor(c)
      BY <1>same, <2>3 DEF Grow, Monitor, Types, CallInv, Session, Ended
    <2> QED
      BY <2>1, <2>2, <2>3
  <1> QED
    BY <1>1, <1>2 DEF CallInv

LEMMA CallsKept == Types /\ (\A c \in Calls : CallInv(c)) /\ [Next]_vars => (\A c \in Calls : CallInv(c))'
  <1> SUFFICES ASSUME Types, \A c \in Calls : CallInv(c), [Next]_vars, NEW d \in Calls
               PROVE  CallInv(d)'
    OBVIOUS
  <1>1. ASSUME NEW c \in Calls, CallStep(c) PROVE CallInv(d)'
    <2>1. CASE c = d
      BY <1>1, <2>1, ArrivalKeeps, HangUpKeeps, EndKeeps, SessionKeeps DEF CallStep
    <2>2. CASE c # d
      BY <1>1, <2>2, OthersSame, SameKeeps
    <2> QED
      BY <2>1, <2>2
  <1>2. CASE Sigterm \/ Shutdown \/ UNCHANGED vars
    <2>1. Same(d)
      BY <1>2 DEF Same, Sigterm, Shutdown, CloseServer, StopWaiting, Exit, vars,
                  carrier, registry, session, billing, histories
    <2> QED
      BY <2>1, SameKeeps
  <1> QED
    BY <1>1, <1>2 DEF Next, CallStep, Lookup, Reconnect, EndStep

Inv == Types /\ \A c \in Calls : CallInv(c)

LEMMA InvHolds == Spec => []Inv
  <1>1. Init => Inv
    BY TypesInit, CallInit DEF Inv
  <1>2. Inv /\ [Next]_vars => Inv'
    BY TypesKept, CallsKept DEF Inv
  <1> QED
    BY <1>1, <1>2, PTL DEF Spec

\* Every variable stays in its range; a call is billed at most twice, and a
\* session is reopened at most MaxReconnects times and given up on once.
THEOREM Typing == Spec => []TypeOK
  <1>1. Inv => TypeOK
    <2> SUFFICES ASSUME Inv PROVE TypeOK
      OBVIOUS
    <2>1. \A c \in Calls : usage[c] \in 0..2 /\ tries[c] \in 0..(MaxReconnects + 1)
      BY LimitsNat DEF Inv, Types, CallInv, Bills, Session, Billed
    <2> QED
      BY <2>1 DEF Inv, Types, TypeOK
  <1> QED
    BY <1>1, InvHolds, PTL

\* A call that left the registry was billed, once unless its two ends
\* overlapped, and its session is closed unless a reconnect crossed its end.
THEOREM EndedCleanly == Spec => []CleanEnd
  <1>1. Inv => CleanEnd
    <2> SUFFICES ASSUME Inv, NEW c \in Calls
                 PROVE  /\ pc[c] = "live" /\ c \notin reg =>
                               /\ usage[c] >= 1
                               /\ ai[c] = "open" => c \in crossed
                        /\ c \notin overlapped => usage[c] <= 1
      BY DEF CleanEnd
    <2>1. ASSUME pc[c] = "live", c \notin reg
          PROVE  usage[c] >= 1 /\ (ai[c] = "open" => c \in crossed)
      <3>1. PICK k \in Ends : ending[c][k] = "over"
        BY <2>1 DEF Inv, CallInv, Held
      <3>2. usage[c] >= 1
        BY <3>1 DEF Inv, CallInv, Bills, Billed, Ends
      <3> QED
        BY <2>1, <3>2 DEF Inv, CallInv, Session
    <2>2. ASSUME c \notin overlapped PROVE usage[c] <= 1
      BY <2>2 DEF Inv, CallInv, Bills, Billed, Begun
    <2> QED
      BY <2>1, <2>2
  <1> QED
    BY <1>1, InvHolds, PTL

--------------------------------------------------------------------------------
\* Nothing is registered when the shutdown stops waiting, its grace aside, and
\* what is registered after that is late.
Cut == server \in {"stopping", "gone"} => graceOver \/ reg \subseteq late

LEMMA CutKept == Types /\ Cut /\ [Next]_vars => Cut'
  <1> SUFFICES ASSUME Types, Cut, [Next]_vars PROVE Cut'
    OBVIOUS
  <1> USE DEF Cut, Types, carrier, registry, session, billing, histories
  <1>1. ASSUME NEW c \in Calls, CallStep(c) PROVE Cut'
    <2>1. server' \in {server, "crashed"} /\ graceOver' = graceOver
      BY <1>1 DEF CallStep, Incoming, Connect, LookupFails, GoLive, Stop, LineCloses,
                  SessionCloses, Reopen, ReopenThrows, RecordUsage, Remove, EndThrows, Grow, Monitor
    <2>2. CASE GoLive(c)
      BY <2>2 DEF GoLive, Running
    <2>3. CASE ~GoLive(c)
      <3>1. late' = late /\ reg' \subseteq reg
        BY <1>1, <2>3 DEF CallStep, Incoming, Connect, LookupFails, Stop, LineCloses,
                  SessionCloses, Reopen, ReopenThrows, RecordUsage, Remove, EndThrows, Grow, Monitor
      <3> QED
        BY <2>1, <3>1
    <2> QED
      BY <2>2, <2>3
  <1>2. CASE Sigterm
    BY <1>2 DEF Sigterm
  <1>3. CASE Shutdown
    BY <1>3 DEF Shutdown, CloseServer, AfterClose, StopWaiting, Exit
  <1>4. CASE UNCHANGED vars
    BY <1>4 DEF vars
  <1> QED
    BY <1>1, <1>2, <1>3, <1>4 DEF Next, CallStep, Lookup, Reconnect, EndStep

\* The shutdown cuts a registered call only when its grace is over or the call
\* was registered after the last look at the registry.
THEOREM NotCut == Spec => []CallsNotCut
  <1>1. Init => Cut
    BY DEF Init, Cut
  <1>2. Inv /\ Cut /\ [Next]_vars => Cut'
    BY CutKept DEF Inv
  <1>3. Cut => CallsNotCut
    BY DEF Cut, CallsNotCut
  <1> QED
    BY <1>1, <1>2, <1>3, InvHolds, PTL DEF Spec

--------------------------------------------------------------------------------
\* The calls on their way that are counted when they arrive: at most one, and
\* there is a line for it.
Coming == {c \in Calls : pc[c] \in {"ringing", "lookup"} /\ c \notin raced}

Lines ==
    /\ Cardinality(reg \ raced) <= MaxConcurrent
    /\ \A c \in Coming : Coming = {c} /\ Cardinality(reg \ raced) < MaxConcurrent

LEMMA LinesInit == Init => Lines
  <1> SUFFICES ASSUME Init PROVE Lines
    OBVIOUS
  <1>1. reg \ raced = {} /\ Coming = {}
    BY DEF Init, Coming
  <1> QED
    BY <1>1, FS_EmptySet, LimitsNat DEF Lines

\* Fewer registered and fewer on their way keep Lines.
LEMMA FewerLines ==
    ASSUME Types, Lines, reg' \ raced' \subseteq reg \ raced, Coming' \subseteq Coming
    PROVE  Lines'
  <1>1. /\ Cardinality(reg \ raced) \in Nat /\ Cardinality(reg' \ raced') \in Nat
        /\ Cardinality(reg' \ raced') <= Cardinality(reg \ raced)
    <2>1. IsFiniteSet(reg \ raced)
      BY CallsFinite, FS_Subset DEF Types
    <2> QED
      BY <2>1, FS_Subset, FS_CardinalityType
  <1> QED
    BY <1>1, LimitsNat DEF Lines

LEMMA LinesKept == Types /\ (\A c \in Calls : Quiet(c)) /\ Lines /\ [Next]_vars => Lines'
  <1> SUFFICES ASSUME Types, \A c \in Calls : Quiet(c), Lines, [Next]_vars PROVE Lines'
    OBVIOUS
  <1> USE DEF carrier, registry, session, billing, histories
  <1>1. ASSUME NEW c \in Calls, Incoming(c) PROVE Lines'
    <2>1. reg' = reg /\ Cardinality(reg) < MaxConcurrent /\ pc' = [pc EXCEPT ![c] = "ringing"]
      BY <1>1 DEF Incoming, MayAdmit, Set
    <2>2. CASE \E d \in Calls : pc[d] \in {"ringing", "lookup"}
      <3>1. raced' = raced \cup {c}
        BY <1>1, <2>2 DEF Incoming
      <3>2. reg' \ raced' \subseteq reg \ raced /\ Coming' \subseteq Coming
        BY <2>1, <3>1 DEF Types, Coming
      <3> QED
        BY <3>2, FewerLines
    <2>3. CASE \A d \in Calls : pc[d] \notin {"ringing", "lookup"}
      <3>1. raced' = raced
        BY <1>1, <2>3 DEF Incoming
      <3>2. Coming' \subseteq {c}
        BY <2>1, <2>3 DEF Types, Coming
      <3>3. Cardinality(reg \ raced) < MaxConcurrent /\ Cardinality(reg \ raced) \in Nat
        <4>1. IsFiniteSet(reg)
          BY CallsFinite, FS_Subset DEF Types
        <4>2. /\ Cardinality(reg \ raced) \in Nat /\ Cardinality(reg) \in Nat
              /\ Cardinality(reg \ raced) <= Cardinality(reg)
          BY <4>1, FS_Subset, FS_CardinalityType
        <4> QED
          BY <2>1, <4>2, LimitsNat
      <3> QED
        BY <2>1, <3>1, <3>2, <3>3, LimitsNat DEF Lines
    <2> QED
      BY <2>2, <2>3
  <1>2. ASSUME NEW c \in Calls, GoLive(c) PROVE Lines'
    <2>1. /\ pc[c] = "lookup" /\ pc' = [pc EXCEPT ![c] = "live"]
          /\ reg' = reg \cup {c} /\ raced' = raced
      BY <1>2 DEF GoLive, Set
    <2>2. CASE c \in raced
      BY <2>1, <2>2, FewerLines DEF Types, Coming
    <2>3. CASE c \notin raced
      <3>1. c \in Coming /\ Coming = {c} /\ Cardinality(reg \ raced) < MaxConcurrent
        BY <2>1, <2>3 DEF Coming, Lines
      <3>2. Coming' = {}
        BY <2>1, <3>1 DEF Types, Coming
      <3>3. c \notin reg
        BY <2>1 DEF Quiet
      <3>4. IsFiniteSet(reg \ raced)
        BY CallsFinite, FS_Subset DEF Types
      <3>5. Cardinality((reg \ raced) \cup {c}) = Cardinality(reg \ raced) + 1
            /\ Cardinality(reg \ raced) \in Nat
        BY <3>3, <3>4, FS_AddElement, FS_CardinalityType
      <3>6. reg' \ raced' = (reg \ raced) \cup {c}
        BY <2>1, <2>3
      <3>7. Cardinality(reg' \ raced') <= MaxConcurrent
        <4>1. Cardinality(reg' \ raced') = Cardinality(reg \ raced) + 1
          BY <3>5, <3>6, Zenon
        <4> QED
          BY <3>1, <3>5, <4>1, LimitsNat
      <3> QED
        BY <3>2, <3>7 DEF Lines
    <2> QED
      BY <2>2, <2>3
  <1>3. ASSUME NEW c \in Calls, CallStep(c), ~Incoming(c), ~GoLive(c) PROVE Lines'
    <2>1. raced' = raced /\ reg' \subseteq reg
      BY <1>3 DEF CallStep, Connect, LookupFails, Stop, LineCloses,
                  SessionCloses, Reopen, ReopenThrows, RecordUsage, Remove, EndThrows, Grow, Monitor
    <2>2. Coming' \subseteq Coming
      <3>1. CASE pc' = pc
        BY <2>1, <3>1 DEF Coming
      <3>2. CASE Connect(c) \/ LookupFails(c)
        BY <2>1, <3>2 DEF Connect, LookupFails, Set, Types, Coming
      <3> QED
        BY <1>3, <3>1, <3>2 DEF CallStep, Stop, LineCloses,
                  SessionCloses, Reopen, ReopenThrows, RecordUsage, Remove, EndThrows, Grow, Monitor
    <2> QED
      BY <2>1, <2>2, FewerLines
  <1>4. CASE Sigterm \/ Shutdown \/ UNCHANGED vars
    <2>1. UNCHANGED <<reg, raced, pc>>
      BY <1>4 DEF Sigterm, Shutdown, CloseServer, StopWaiting, Exit, vars
    <2>2. Coming' \subseteq Coming
      BY <2>1 DEF Coming
    <2> QED
      BY <2>1, <2>2, FewerLines
  <1> QED
    BY <1>1, <1>2, <1>3, <1>4 DEF Next, CallStep, Lookup, Reconnect, EndStep

\* The places are neither exceeded, calls admitted while another was on its way
\* aside, nor lost: every registered call has somebody left who removes it.
THEOREM CapacityIsKept == Spec => []CapacityKept
  <1>1. Init => Lines
    BY LinesInit
  <1>2. Inv /\ Lines /\ [Next]_vars => Lines'
    BY LinesKept DEF Inv, CallInv
  <1>3. Inv /\ Lines => CapacityKept
    <2> SUFFICES ASSUME Inv, Lines, NEW c \in reg
                 PROVE  \/ Ended(c) \/ Unheard(c) \/ ~Running
                        \/ line[c] # "closed" /\ (c \in watched \/ At(c, "stop", "threw"))
      BY DEF CapacityKept, Lines
    <2>1. c \in Calls /\ \A k \in Ends : ending[c][k] \in Steps
      BY DEF Inv, Types
    <2>2. CASE line[c] = "closed"
      BY <2>1, <2>2 DEF Inv, CallInv, Held, Ended, Unheard, Running, Ends, Steps
    <2>3. CASE line[c] # "closed"
      BY <2>1, <2>3 DEF Inv, CallInv, Held, Ended, At, Running, Ends, Steps
    <2> QED
      BY <2>2, <2>3
  <1> QED
    BY <1>1, <1>2, <1>3, InvHolds, PTL DEF Spec
=============================================================================
