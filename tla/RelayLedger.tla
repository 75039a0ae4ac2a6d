---------------------------- MODULE RelayLedger -----------------------------
(***************************************************************************)
(* The guarded, ledgered sends of the Messages relay (relay-guards.ts):    *)
(* relaySendWithGuards calls run next to each other and next to the        *)
(* ten-minute sweep, over the OutboundRelayMessage rows.  Every await is a *)
(* boundary between actions; reads and the write of the worker's own row   *)
(* that follows at once are one action, because no one else writes a row   *)
(* while its call is alive (a call lasts less than the five minutes after  *)
(* which the sweep looks at a pending row).                                *)
(***************************************************************************)
EXTENDS Naturals, FiniteSets

CONSTANTS
    Calls,           \* relaySendWithGuards calls (bound); a call's row has its name
    None,            \* no row
    Requests,        \* what a call may ask for: to, kind and bypass (by hand)
    HourlyCap, DailyCap, NewRecipientCap, QaCap, QaDailyCap,
    MaxAttempts,     \* MAX_ATTEMPTS
    SweepSends,      \* MAX_SENDS_PER_SWEEP
    Take,            \* rows one sweep reads
    Faults, MaxFaults

Kinds      == {"link", "forward", "heartbeat", "confirmation", "ai", "caller", "intake", "test"}
FaultKinds == {"error",   \* osascript failed, nothing was sent
               "landed",  \* osascript timed out after the text left
               "db",      \* a database call was rejected
               "crash",   \* the process died
               "stop", "start" }
NoFaults   == {"stop", "start"}   \* a recipient texts STOP or START
Phones == {q.to : q \in Requests}
NoRequest == [to |-> "none", kind |-> "none", bypass |-> FALSE]

ASSUME RequestKinds == \A q \in Requests : q.kind \in Kinds /\ q.bypass \in BOOLEAN
ASSUME Caps ==
    {HourlyCap, DailyCap, NewRecipientCap, QaCap, QaDailyCap, SweepSends, Take, MaxFaults} \subseteq Nat
ASSUME AttemptsPositive == MaxAttempts \in Nat \ {0}
ASSUME FaultChoice == Faults \subseteq FaultKinds
ASSUME CallsFinite == IsFiniteSet(Calls) /\ None \notin Calls

VARIABLES
    asked,      \* the request of each call
    row,        \* OutboundRelayMessage rows; no: their order by createdAt
    optOut,     \* SmsOptOut: phones
    inFlight,   \* the reservation set
    at,         \* where each call is
    sweep,      \* the sweep: where it is, the row it is at, those still to come,
                \* sends so far
    old,        \* pending rows older than five minutes
    texts,      \* how often the text of a row really left
    late,       \* calls whose phone opted out since its worker last read the table
    raced,      \* a cap was checked while another worker was past its check
    faults      \* kinds of the faults so far (bound MaxFaults)

vars == <<asked, row, optOut, inFlight, at, sweep, old, texts, late, raced, faults>>

NoRow   == [status |-> "none", error |-> "none", attempts |-> 0, sent |-> "never", no |-> 0]
NoSweep == [at |-> "idle", row |-> None, todo |-> {}, sends |-> 0]
To(c)     == asked[c].to
Kind(c)   == asked[c].kind
Stored(c) == IF Kind(c) = "confirmation" THEN "link" ELSE Kind(c)
Key(c)    == <<To(c), Kind(c)>>

Init ==
    /\ asked = [c \in Calls |-> NoRequest]
    /\ row = [c \in Calls |-> NoRow]
    /\ optOut = {}
    /\ inFlight = {}
    /\ at = [c \in Calls |-> "idle"]
    /\ sweep = NoSweep
    /\ old = {}
    /\ texts = [c \in Calls |-> 0]
    /\ late = {}
    /\ raced = FALSE
    /\ faults = {}

\* Each kind happens once at most, and MaxFaults of the true faults.
Fault(f) ==
    /\ f \in Faults \ faults
    /\ f \notin NoFaults => Cardinality(faults \ NoFaults) < MaxFaults
    /\ faults' = faults \union {f}

-----------------------------------------------------------------------------
(* checkCaps.  A sent row is in the last "hour", the last "day" or "past". *)

Sent(S)    == {c \in S : row[c].status = "sent"}
InHour(S)  == {c \in Sent(S) : row[c].sent = "hour"}
InDay(S)   == {c \in Sent(S) : row[c].sent \in {"hour", "day"}}
Ai         == {c \in Calls : Stored(c) = "ai"}
NewToday   == {To(c) : c \in InDay(Calls)}
                \ {To(c) : c \in {d \in Sent(Calls) : row[d].sent = "past"}}
Effective(kind) == IF kind \in {"forward", "heartbeat"} THEN HourlyCap
                   ELSE IF HourlyCap > 2 THEN HourlyCap - 2 ELSE 1

\* Past its caps check, its text not yet recorded.
Sending  == {"attempt", "send", "sent", "failed"}
Raced    == raced \/ sweep.at \in Sending \/ \E c \in Calls : at[c] \in Sending

\* Mutant: the hourly cap lets one more through.
Capped_OffByOne(phone, kind) ==
    IF kind = "ai"
    THEN Cardinality(InHour(Ai)) > QaCap \/ Cardinality(InDay(Ai)) > QaDailyCap
    ELSE \/ Cardinality(InHour(Calls \ Ai)) > Effective(kind)
         \/ Cardinality(InDay(Calls \ Ai)) > DailyCap
         \/ /\ \A c \in Sent(Calls) : To(c) # phone
            /\ Cardinality(NewToday) > NewRecipientCap

Capped(phone, kind) ==
    IF kind = "ai"
    THEN Cardinality(InHour(Ai)) >= QaCap \/ Cardinality(InDay(Ai)) >= QaDailyCap
    ELSE \/ Cardinality(InHour(Calls \ Ai)) >= Effective(kind)
         \/ Cardinality(InDay(Calls \ Ai)) >= DailyCap
         \/ /\ \A c \in Sent(Calls) : To(c) # phone
            /\ Cardinality(NewToday) >= NewRecipientCap

-----------------------------------------------------------------------------
(* relaySendWithGuards *)

\* What becomes of a row: an outcome, the last one, a text that left.
Outcome(c, status, error) == [row[c] EXCEPT !.status = status, !.error = error]
GivenUp(c, error) == [Outcome(c, "failed", error) EXCEPT !.attempts = MaxAttempts]
Delivered(c)      == [Outcome(c, "sent", "none") EXCEPT !.sent = "hour"]

Leave(c) ==
    /\ inFlight' = inFlight \ {Key(c)}
    /\ at' = [at EXCEPT ![c] = "over"]

\* The reservation and the guards start; a duplicate in flight is skipped.
Call(c) ==
    /\ at[c] = "idle"
    /\ \E q \in Requests :
         /\ asked' = [asked EXCEPT ![c] = q]
         /\ IF <<q.to, q.kind>> \in inFlight
            THEN /\ at' = [at EXCEPT ![c] = "over"]
                 /\ UNCHANGED inFlight
            ELSE /\ inFlight' = inFlight \union {<<q.to, q.kind>>}
                 /\ at' = [at EXCEPT ![c] = "opt-out"]
    /\ UNCHANGED <<row, optOut, sweep, old, texts, late, faults, raced>>

\* Mutant: only links look at the opt-outs.
OptedOut_LinksOnly(c) == Kind(c) = "link" /\ To(c) \in optOut

OptedOut(c) == Kind(c) # "confirmation" /\ To(c) \in optOut

CheckOptOut(c) ==
    /\ at[c] = "opt-out"
    /\ IF OptedOut(c)
       THEN Leave(c)
       ELSE at' = [at EXCEPT ![c] = "create"] /\ UNCHANGED inFlight
    /\ late' = late \ {c}
    /\ UNCHANGED <<asked, row, optOut, sweep, old, texts, faults, raced>>

\* The row exists before any attempt.
Written == {d \in Calls : row[d].status # "none"}

Create(c) ==
    /\ at[c] = "create"
    /\ row' = [row EXCEPT ![c] = [NoRow EXCEPT !.status = "pending",
                                   !.no = Cardinality(Written) + 1]]
    /\ at' = [at EXCEPT ![c] = "cooldown"]
    /\ UNCHANGED <<asked, optOut, inFlight, sweep, old, texts, late, faults, raced>>

\* A link of the last cooldown_minutes (an hour) was sent to this phone.
Cooling(c) ==
    /\ Kind(c) = "link" /\ ~asked[c].bypass
    /\ \E d \in InHour(Calls) : d # c /\ To(d) = To(c) /\ Stored(d) = "link"

CheckCooldown(c) ==
    /\ at[c] = "cooldown"
    /\ IF Cooling(c)
       THEN /\ row' = [row EXCEPT ![c] = GivenUp(c, "cooldown")]
            /\ Leave(c)
       ELSE /\ at' = [at EXCEPT ![c] = "caps"]
            /\ UNCHANGED <<row, inFlight>>
    /\ UNCHANGED <<asked, optOut, sweep, old, texts, late, faults, raced>>

CheckCaps(c) ==
    /\ at[c] = "caps"
    /\ IF Capped(To(c), Kind(c))
       THEN /\ row' = [row EXCEPT ![c] = Outcome(c, "deferred", "cap")]
            /\ Leave(c)
            /\ UNCHANGED raced
       ELSE /\ at' = [at EXCEPT ![c] = "attempt"]
            /\ raced' = Raced
            /\ UNCHANGED <<row, inFlight>>
    /\ UNCHANGED <<asked, optOut, sweep, old, texts, late, faults>>

-----------------------------------------------------------------------------
(* attemptSend, of a call and of the sweep.                                *)

\* The sweep goes on with its row, is done with it, or comes to the next one.
SweepTo(label) == [sweep EXCEPT !.at = label]
RowDone(sends) == [sweep EXCEPT !.at = "next", !.row = None, !.sends = @ + sends]
RowDropped(c)  == [sweep EXCEPT !.todo = @ \ {c}]
RowPicked(c)   == [sweep EXCEPT !.at = "caps", !.row = c, !.todo = @ \ {c}]

\* Attempting(c): the worker on row c is about to send; Goto moves it on.
Attempting(c, label) ==
    \/ at[c] = label
    \/ sweep.at = label /\ sweep.row = c

Goto(c, label) ==
    IF at[c] \notin {"idle", "over"}
    THEN /\ UNCHANGED sweep
         /\ IF label = "done" THEN Leave(c)
            ELSE at' = [at EXCEPT ![c] = label] /\ UNCHANGED inFlight
    ELSE /\ UNCHANGED <<at, inFlight>>
         /\ sweep' = IF label = "done"
                     THEN RowDone(1) ELSE SweepTo(label)

Attempt(c) ==
    /\ Attempting(c, "attempt")
    /\ row' = [row EXCEPT ![c].attempts = @ + 1]
    /\ Goto(c, "send")
    /\ UNCHANGED <<asked, optOut, old, texts, late, faults, raced>>

\* osascript ends: the text left, or an error is thrown, or both.
SendText(c) ==
    /\ Attempting(c, "send")
    /\ \/ /\ texts' = [texts EXCEPT ![c] = @ + 1]
          /\ Goto(c, "sent")
          /\ UNCHANGED faults
       \/ /\ Fault("error")
          /\ Goto(c, "failed")
          /\ UNCHANGED texts
       \/ /\ Fault("landed")
          /\ texts' = [texts EXCEPT ![c] = @ + 1]
          /\ Goto(c, "failed")
    /\ UNCHANGED <<asked, row, optOut, old, late, raced>>

\* Mutant: the update after the send sets sentAt and not the status.
RecordSent_NoStatus(c) ==
    /\ Attempting(c, "sent")
    /\ row' = [row EXCEPT ![c].sent = "hour"]
    /\ Goto(c, "done")
    /\ UNCHANGED <<asked, optOut, old, texts, late, faults, raced>>

\* The update after the send is inside the same try: if it throws, the row
\* is recorded as failed.
RecordSent(c) ==
    /\ Attempting(c, "sent")
    /\ \/ /\ row' = [row EXCEPT ![c] = Delivered(c)]
          /\ Goto(c, "done")
          /\ UNCHANGED faults
       \/ /\ Fault("db")
          /\ Goto(c, "failed")
          /\ UNCHANGED row
    /\ UNCHANGED <<asked, optOut, old, texts, late, raced>>

RecordFailed(c) ==
    /\ Attempting(c, "failed")
    /\ row' = [row EXCEPT ![c] = Outcome(c, "failed", "send")]
    /\ Goto(c, "done")
    /\ UNCHANGED <<asked, optOut, old, texts, late, faults, raced>>

-----------------------------------------------------------------------------
(* sweepOnce *)

\* Mutant: deferred rows are not candidates.
Candidate_NoDeferred(c) ==
    /\ Stored(c) # "ai"
    /\ \/ row[c].status = "failed" /\ row[c].error # "cooldown" /\ row[c].attempts < MaxAttempts
       \/ row[c].status = "pending" /\ c \in old

Candidate(c) ==
    /\ Stored(c) # "ai"
    /\ \/ row[c].status = "deferred"
       \/ row[c].status = "failed" /\ row[c].error # "cooldown" /\ row[c].attempts < MaxAttempts
       \/ row[c].status = "pending" /\ c \in old

\* The Take oldest candidates.
StartSweep ==
    /\ sweep.at = "idle"
    /\ LET all == {c \in Calls : Candidate(c)} IN
       /\ all # {}
       /\ sweep' = [NoSweep EXCEPT !.at = "next",
                      !.todo = {c \in all : Cardinality({d \in all : row[d].no < row[c].no}) < Take}]
    /\ UNCHANGED <<asked, row, optOut, inFlight, at, old, texts, late, faults, raced>>

EndSweep ==
    /\ sweep.at = "next"
    /\ sweep.todo = {} \/ sweep.sends >= SweepSends
    /\ sweep' = NoSweep
    /\ UNCHANGED <<asked, row, optOut, inFlight, at, old, texts, late, faults, raced>>

\* The next row, oldest first: its opt-out is read, then its caps, then it is sent.
SweepOptOut(c) ==
    /\ sweep.at = "next" /\ sweep.sends < SweepSends
    /\ c \in sweep.todo /\ \A d \in sweep.todo : row[c].no <= row[d].no
    /\ late' = late \ {c}
    /\ IF To(c) \in optOut
       THEN /\ row' = [row EXCEPT ![c] = GivenUp(c, "opted out")]
            /\ sweep' = RowDropped(c)
       ELSE /\ sweep' = RowPicked(c)
            /\ UNCHANGED row
    /\ UNCHANGED <<asked, optOut, inFlight, at, old, texts, faults, raced>>

SweepCaps(c) ==
    /\ sweep.at = "caps" /\ sweep.row = c
    /\ IF Capped(To(c), Stored(c))
       THEN /\ row' = [row EXCEPT ![c] = Outcome(c, "deferred", "cap")]
            /\ sweep' = RowDone(0)
            /\ UNCHANGED raced
       ELSE /\ sweep' = SweepTo("attempt")
            /\ raced' = Raced
            /\ UNCHANGED row
    /\ UNCHANGED <<asked, optOut, inFlight, at, old, texts, late, faults>>

-----------------------------------------------------------------------------
(* A database call outside attemptSend's try throws: the call ends, with its *)
(* reservation released and its row as it is, or the sweep does.             *)

Throw(c) ==
    /\ at[c] \in {"opt-out", "create", "cooldown", "caps", "attempt", "failed"}
    /\ Fault("db")
    /\ Leave(c)
    /\ UNCHANGED <<asked, row, optOut, sweep, old, texts, late, raced>>

SweepThrow ==
    /\ \/ sweep.at \in {"caps", "attempt", "failed"}
       \/ sweep.at = "next" /\ sweep.todo # {}
    /\ Fault("db")
    /\ sweep' = NoSweep
    /\ UNCHANGED <<asked, row, optOut, inFlight, at, old, texts, late, raced>>

-----------------------------------------------------------------------------
(* The environment. *)

\* Five minutes pass over a pending row whose call is gone.
Ageing(c) ==
    /\ row[c].status = "pending" /\ at[c] = "over" /\ c \notin old
    /\ old' = old \union {c}
    /\ UNCHANGED <<asked, row, optOut, inFlight, at, sweep, texts, late, faults, raced>>

Older(from, to) == [c \in Calls |-> IF row[c].sent \in from
                                    THEN [row[c] EXCEPT !.sent = to] ELSE row[c]]

HourPasses ==
    /\ InHour(Calls) # {}
    /\ row' = Older({"hour"}, "day")
    /\ UNCHANGED <<asked, optOut, inFlight, at, sweep, old, texts, late, faults, raced>>

DayPasses ==
    /\ InDay(Calls) # {}
    /\ row' = Older({"hour", "day"}, "past")
    /\ UNCHANGED <<asked, optOut, inFlight, at, sweep, old, texts, late, faults, raced>>

Stop(p) ==
    /\ p \notin optOut
    /\ Fault("stop")
    /\ optOut' = optOut \union {p}
    /\ late' = late \union {c \in Calls : To(c) = p}
    /\ UNCHANGED <<asked, row, inFlight, at, sweep, old, texts, raced>>

Resubscribe(p) ==
    /\ p \in optOut
    /\ Fault("start")
    /\ optOut' = optOut \ {p}
    /\ UNCHANGED <<asked, row, inFlight, at, sweep, old, texts, late, raced>>

Crash ==
    /\ Fault("crash")
    /\ inFlight' = {}
    /\ at' = [c \in Calls |-> IF at[c] = "idle" THEN "idle" ELSE "over"]
    /\ sweep' = NoSweep
    /\ UNCHANGED <<asked, row, optOut, old, texts, late, raced>>

CallStep(c) ==
    \/ CheckOptOut(c) \/ Create(c) \/ CheckCooldown(c) \/ CheckCaps(c)
    \/ Attempt(c) \/ SendText(c) \/ RecordSent(c) \/ RecordFailed(c)

SweepStep == StartSweep \/ EndSweep \/ \E c \in Calls : SweepOptOut(c) \/ SweepCaps(c)

Next ==
    \/ \E c \in Calls : Call(c) \/ CallStep(c) \/ Throw(c) \/ Ageing(c)
    \/ SweepStep \/ SweepThrow
    \/ HourPasses \/ DayPasses
    \/ \E p \in Phones : Stop(p) \/ Resubscribe(p)
    \/ Crash

\* Calls and sweeps run to their end, the sweep's interval keeps firing and
\* time passes.
Fairness ==
    /\ \A c \in Calls : WF_vars(CallStep(c)) /\ WF_vars(Ageing(c))
    /\ WF_vars(SweepStep) /\ WF_vars(HourPasses) /\ WF_vars(DayPasses)

Spec     == Init /\ [][Next]_vars
FairSpec == Spec /\ Fairness

-----------------------------------------------------------------------------
Active(c) == at[c] \notin {"idle", "over"}
Swept(c)  == c \in sweep.todo \/ c = sweep.row
Final(c)  == \/ row[c].status = "sent"
             \/ row[c].status = "failed" /\ row[c].attempts >= MaxAttempts

Row == [status   : {"none", "pending", "sent", "deferred", "failed"},
        error    : {"none", "cooldown", "cap", "send", "opted out"},
        attempts : Nat,
        sent     : {"never", "hour", "day", "past"},
        no       : Nat]

Places     == {"idle", "opt-out", "create", "cooldown", "caps",
               "attempt", "send", "sent", "failed", "over"}
SweepState == [at    : {"idle", "next", "caps", "attempt", "send", "sent", "failed"},
               row   : Calls \union {None},
               todo  : SUBSET Calls,
               sends : Nat]

TypeOK ==
    /\ asked \in [Calls -> Requests \union {NoRequest}]
    /\ row \in [Calls -> Row]
    /\ optOut \subseteq Phones
    /\ inFlight \subseteq {<<q.to, q.kind>> : q \in Requests}
    /\ at \in [Calls -> Places]
    /\ sweep \in SweepState
    /\ old \subseteq Calls /\ late \subseteq Calls
    /\ texts \in [Calls -> Nat] /\ faults \subseteq Faults
    /\ raced \in BOOLEAN

(* The caps hold as long as no worker checked them while another was between *)
(* its own check and the record of its text: through deferrals, retries,     *)
(* failures and the passing of hours and days.  An hourly cap of 0 still     *)
(* lets one text through: the reserve never takes the last place.            *)
CapsHold ==
    ~raced => /\ Cardinality(InHour(Calls \ Ai)) <= IF HourlyCap = 0 THEN 1 ELSE HourlyCap
              /\ Cardinality(InDay(Calls \ Ai)) <= DailyCap
              /\ Cardinality(InHour(Ai)) <= QaCap
              /\ Cardinality(InDay(Ai)) <= QaDailyCap

(* One worker per row, one text per row.  A phone and kind have one call in  *)
(* progress, through every early return, exception and overlap, and the      *)
(* sweep works on rows whose call has ended; and as long as a send that      *)
(* fails has sent nothing, its record is written and the process lives, the  *)
(* text of a row leaves at most once, retries included.                      *)
AtMostOnce ==
    /\ \A c, d \in Calls : c # d /\ Active(c) /\ Active(d) => Key(c) # Key(d)
    /\ \A c \in Calls : Swept(c) => ~Active(c)
    /\ faults \intersect {"landed", "db", "crash"} = {} => \A c \in Calls : texts[c] <= 1

(* A text leaves for a phone that has opted out only when STOP arrived after *)
(* the worker had read the opt-outs, or when it is an opt-out confirmation.  *)
StopRespected ==
    [][\A c \in Calls : texts'[c] > texts[c] =>
         To(c) \notin optOut \/ c \in late \/ Kind(c) = "confirmation"]_vars

(* Nothing but an AI answer is silently dropped: a row once written ends     *)
(* sent, or failed with its attempts spent.                                  *)
EveryRowSettles ==
    \A c \in Calls : row[c].status # "none" /\ Stored(c) # "ai" ~> Final(c)
=============================================================================
