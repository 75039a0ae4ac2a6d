----------------------------- MODULE PollDriver -----------------------------
(***************************************************************************)
(* The fast-poll driver of zillow-poll.ts: a timer evaluates the gates     *)
(* every tick and sometimes runs a cycle.  setInterval does not wait for   *)
(* the tick before, so ticks overlap: one may sit in a cycle for many      *)
(* intervals while others read the configuration and decide.  They share   *)
(* pollState.  The cycle mutex is one variable here (see CycleMutex).      *)
(* One unit of time is one evaluation interval (POLL_EVAL_MS).             *)
(***************************************************************************)
EXTENDS Integers

CONSTANTS
    Ticks,       \* ticks in progress at once: one in its cycle, two reading
    Open,        \* instants whose hour is inside [startHour, endHour]
    Gap,         \* max(fast_poll_sec, POLL_FLOOR_SEC), in intervals
    Jitter,      \* the most a gap is lengthened
    Warmup,      \* POLL_MIN_UPTIME_SEC
    Ceiling,     \* max_broadcasts_per_day (0: unlimited)
    HourRuns,    \* scheduled cycles left today
    ReadErrors,  \* BOOLEAN: the configuration or the count can throw
    MaxTime      \* bound on the clock

ASSUME Times == Open \subseteq Nat /\ MaxTime \in Nat
ASSUME Intervals == {Gap, Jitter, Warmup, Ceiling, HourRuns} \subseteq Nat
ASSUME GapPositive == Gap > 0       \* the floor is four intervals
ASSUME ReadsMayFail == ReadErrors \in BOOLEAN

VARIABLES
    time,
    tick,      \* ticks: where they are, their now, the count they read
    poll,      \* pollState: lastCycleEndMs, jitterMs, lastReason class,
               \* blockedSinceMs, stallNotified
    lock,      \* who holds the cycle mutex
    booted,    \* when the process started
    sent,      \* today's batches with status sent or ambiguous
    runs,      \* scheduled cycles so far
    cycle,     \* batches of the cycle in progress
    notes,     \* stall and recovery notifications of this process
    ran,       \* when a poll last completed in this process
    stuck      \* since when every decision was blocked

driverVars == <<time, tick, poll, lock, booted, sent, runs, cycle, notes, ran, stuck>>

Never   == 0                     \* lastCycleEndMs of a fresh process
NoTime  == MaxTime + 1           \* blockedSinceMs = null
Start   == Gap + Jitter          \* the epoch is long past
ASSUME Room == Start <= MaxTime
Blocked(reason) == reason \in {"gui_busy", "cycle_busy", "error"}

Fresh == [end |-> Never, jitter |-> 0, reason |-> "not_evaluated",
          since |-> NoTime, notified |-> FALSE]
Idle  == [at |-> "free", now |-> 0, seen |-> 0]

DriverInit ==
    /\ time = Start
    /\ tick = [t \in Ticks |-> Idle]
    /\ \E j \in 0 .. Jitter : poll = [Fresh EXCEPT !.jitter = j]
    /\ lock = "free"
    /\ booted = Start
    /\ sent = 0
    /\ runs = 0
    /\ cycle = 0
    /\ notes = [stalls |-> 0, recoveries |-> 0]
    /\ ran = Never
    /\ stuck = NoTime

-----------------------------------------------------------------------------
(* trackStall, on the state s and the notifications n. *)

\* Mutant: every blocked evaluation starts the streak anew.
Stalled_Restarts(s, reason, now) ==
    [s EXCEPT !.since = now, !.notified = @ \/ now > now + 3 * Gap, !.reason = reason]

Stalled(s, reason, now) ==
    LET since == IF s.since = NoTime THEN now ELSE s.since IN
    [s EXCEPT !.since = since,
              !.notified = @ \/ now > since + 3 * Gap,
              !.reason = reason]

Flowing(s, reason) ==
    [s EXCEPT !.since    = IF reason = "ran_cycle" \/ ~Blocked(s.reason) THEN NoTime ELSE @,
              !.notified = IF reason = "ran_cycle" THEN FALSE ELSE @,
              !.reason   = reason]

Track(reason, now) ==
    /\ poll' = IF Blocked(reason) THEN Stalled(poll, reason, now) ELSE Flowing(poll, reason)
    /\ notes' = [stalls     |-> notes.stalls
                                + IF ~poll.notified /\ poll'.notified THEN 1 ELSE 0,
                 recoveries |-> notes.recoveries
                                + IF poll.notified /\ reason = "ran_cycle" THEN 1 ELSE 0]

-----------------------------------------------------------------------------
\* The interval fires: a new tick reads the clock, then awaits its reads,
\* which may outlast this interval but not the next.
Fire(t) ==
    /\ time < MaxTime
    /\ tick[t].at = "free"
    /\ \A u \in Ticks : tick[u].at \in {"reading", "deciding"} => tick[u].now = time
    /\ time' = time + 1
    /\ tick' = [tick EXCEPT ![t] = [at |-> "reading", now |-> time', seen |-> 0]]
    /\ UNCHANGED <<poll, lock, booted, sent, runs, cycle, notes, ran, stuck>>

\* countBroadcastsToday, the last read before the decision.
Count(t) ==
    /\ tick[t].at = "reading"
    /\ tick' = [tick EXCEPT ![t].at = "deciding", ![t].seen = sent]
    /\ UNCHANGED <<time, poll, lock, booted, sent, runs, cycle, notes, ran, stuck>>

\* A read threw: the catch writes lastReason and returns.
ReadError(t) ==
    /\ ReadErrors
    /\ tick[t].at = "reading"
    /\ tick' = [tick EXCEPT ![t] = Idle]
    /\ poll' = [poll EXCEPT !.reason = "error"]
    /\ UNCHANGED <<time, lock, booted, sent, runs, cycle, notes, ran, stuck>>

\* Mutant: the ceiling is off by one.
Resting_CeilingOffByOne(t) ==
    \/ tick[t].now \notin Open
    \/ time < booted + Warmup
    \/ tick[t].now < poll.end + Gap + poll.jitter
    \/ Ceiling > 0 /\ tick[t].seen > Ceiling

\* decidePoll: a gate that is the poll resting, not failing.
Resting(t) ==
    \/ tick[t].now \notin Open
    \/ time < booted + Warmup
    \/ tick[t].now < poll.end + Gap + poll.jitter
    \/ Ceiling > 0 /\ tick[t].seen >= Ceiling

Rest(t) ==
    /\ tick[t].at = "deciding"
    /\ Resting(t)
    /\ Track("resting", tick[t].now)
    /\ tick' = [tick EXCEPT ![t] = Idle]
    /\ stuck' = NoTime
    /\ UNCHANGED <<time, lock, booted, sent, runs, cycle, ran>>

\* Due, but the screen is in use, or the mutex refuses the try call.
Blocks(t) ==
    /\ tick[t].at = "deciding"
    /\ ~Resting(t)
    /\ \E reason \in {"gui_busy", "cycle_busy"} :
           /\ reason = "cycle_busy" => lock # "free"
           /\ Track(reason, tick[t].now)
    /\ tick' = [tick EXCEPT ![t] = Idle]
    /\ stuck' = IF stuck = NoTime THEN tick[t].now ELSE stuck
    /\ UNCHANGED <<time, lock, booted, sent, runs, cycle, ran>>

StartPoll(t) ==
    /\ tick[t].at = "deciding"
    /\ ~Resting(t)
    /\ lock = "free"
    /\ lock' = "poll"
    /\ poll' = [poll EXCEPT !.reason = "due"]
    /\ tick' = [tick EXCEPT ![t].at = "cycle"]
    /\ stuck' = NoTime
    /\ UNCHANGED <<time, booted, sent, runs, cycle, notes, ran>>

\* Mutant: the gap is measured from the start of the tick.
EndPoll_StampsNow(t) ==
    /\ tick[t].at = "cycle"
    /\ \E j \in 0 .. Jitter :
           poll' = [Flowing(poll, "ran_cycle") EXCEPT !.end = tick[t].now, !.jitter = j]
    /\ notes' = [notes EXCEPT !.recoveries = @ + IF poll.notified THEN 1 ELSE 0]
    /\ tick' = [tick EXCEPT ![t] = Idle]
    /\ lock' = "free"
    /\ cycle' = 0
    /\ ran' = time
    /\ stuck' = NoTime
    /\ UNCHANGED <<time, booted, sent, runs>>

\* The cycle returns: lastCycleEndMs, a new jitter, trackStall("ran_cycle").
EndPoll(t) ==
    /\ tick[t].at = "cycle"
    /\ \E j \in 0 .. Jitter :
           poll' = [Flowing(poll, "ran_cycle") EXCEPT !.end = time, !.jitter = j]
    /\ notes' = [notes EXCEPT !.recoveries = @ + IF poll.notified THEN 1 ELSE 0]
    /\ tick' = [tick EXCEPT ![t] = Idle]
    /\ lock' = "free"
    /\ cycle' = 0
    /\ ran' = time
    /\ stuck' = NoTime
    /\ UNCHANGED <<time, booted, sent, runs>>

\* A cycle, of either kind, broadcasts a segment (leads, then applicants).
Broadcast ==
    /\ lock # "free"
    /\ cycle < 2
    /\ cycle' = cycle + 1
    /\ sent' = sent + 1
    /\ UNCHANGED <<time, tick, poll, lock, booted, runs, notes, ran, stuck>>

\* A scheduled cycle takes the mutex.  It reads no gate of the driver.
StartHour ==
    /\ lock = "free"
    /\ runs < HourRuns
    /\ lock' = "hour"
    /\ runs' = runs + 1
    /\ UNCHANGED <<time, tick, poll, booted, sent, cycle, notes, ran, stuck>>

EndHour ==
    /\ lock = "hour"
    /\ lock' = "free"
    /\ cycle' = 0
    /\ UNCHANGED <<time, tick, poll, booted, sent, runs, notes, ran, stuck>>

\* The process dies and is relaunched: pollState is a fresh one.
Restart ==
    /\ tick' = [t \in Ticks |-> Idle]
    /\ \E j \in 0 .. Jitter : poll' = [Fresh EXCEPT !.jitter = j]
    /\ lock' = "free"
    /\ cycle' = 0
    /\ booted' = time
    /\ notes' = [stalls |-> 0, recoveries |-> 0]
    /\ ran' = Never
    /\ stuck' = NoTime
    /\ UNCHANGED <<time, sent, runs>>

DriverNext ==
    \/ \E t \in Ticks :
           \/ Fire(t) \/ Count(t) \/ ReadError(t)
           \/ Rest(t) \/ Blocks(t) \/ StartPoll(t) \/ EndPoll(t)
    \/ Broadcast \/ StartHour \/ EndHour \/ Restart

DriverSpec == DriverInit /\ [][DriverNext]_driverVars

-----------------------------------------------------------------------------
\* Types of all variables.
DriverTypeOK ==
    /\ time \in Start .. MaxTime
    /\ tick \in [Ticks -> [at: {"free", "reading", "deciding", "cycle"},
                           now: 0 .. MaxTime, seen: Nat]]
    /\ poll \in [end: 0 .. MaxTime, jitter: 0 .. Jitter, notified: BOOLEAN,
                 reason: {"not_evaluated", "resting", "gui_busy", "cycle_busy",
                          "error", "due", "ran_cycle"}, since: 0 .. NoTime]
    /\ lock \in {"free", "poll", "hour"}
    /\ sent \in Nat /\ runs \in 0 .. HourRuns /\ cycle \in 0 .. 2

PollStarts == lock = "free" /\ lock' = "poll"

\* "floor 120 - anti-bot": overlapping ticks, each with a now it read before
\* its awaits, never start a poll sooner than the gap after the last one, in
\* one process.
PollsKeepTheGap == [][PollStarts => time >= ran + Gap]_driverVars

\* The count is read before the decision and a cycle sends up to two
\* batches, so the ceiling can be passed by one, and by what the scheduled
\* cycles send.
CeilingBound == Ceiling > 0 => sent <= Ceiling + 1 + 2 * HourRuns

\* "while polls are eligible but blocked for longer than 3x the poll gap,
\* notify the owner" (zillow-poll.ts:166), whatever ticks interleave: a stall
\* note is only raised when no poll has completed for three gaps; the notes of
\* one process alternate, one stall and one recovery per streak; and a decision
\* that is blocked, in a streak of blocked decisions that is longer, leaves the
\* owner notified, whatever reads failed in between (one interval more, because
\* a tick can overtake the one before).
StallNotes ==
    [][/\ notes'.stalls > notes.stalls => time > ran + 3 * Gap
       /\ notes'.stalls - notes'.recoveries \in {0, 1}
       /\ \A t \in Ticks :
              /\ tick[t].at = "deciding" /\ tick'[t].at = "free"
              /\ stuck' # NoTime /\ tick[t].now > stuck' + 3 * Gap + 1
              => poll'.notified]_driverVars
=============================================================================
