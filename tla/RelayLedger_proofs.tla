------------------------- MODULE RelayLedger_proofs -------------------------
(* Theorems about RelayLedger for every set of calls and requests, every   *)
(* value of the caps and every choice of faults.                           *)
EXTENDS RelayLedger, FiniteSetTheorems, TLAPS

-----------------------------------------------------------------------------
(* Typing. *)

LEMMA RowsType ==
    ASSUME row \in [Calls -> Row], NEW c \in Calls, NEW r \in Row
    PROVE  [row EXCEPT ![c] = r] \in [Calls -> Row]
  OBVIOUS

LEMMA OutcomeType ==
    ASSUME TypeOK, NEW c \in Calls,
           NEW st \in {"pending", "sent", "deferred", "failed"},
           NEW er \in {"none", "cooldown", "cap", "send", "opted out"}
    PROVE  Outcome(c, st, er) \in Row
  <1>1. row[c] \in Row
    BY DEF TypeOK
  <1> QED
    BY <1>1 DEF Outcome, Row

LEMMA LastOutcomeType ==
    ASSUME TypeOK, NEW c \in Calls
    PROVE  /\ GivenUp(c, "cooldown") \in Row
           /\ GivenUp(c, "opted out") \in Row
           /\ Delivered(c) \in Row
  <1>1. ASSUME NEW r \in Row PROVE [r EXCEPT !.attempts = MaxAttempts] \in Row
    BY AttemptsPositive DEF Row
  <1>2. ASSUME NEW r \in Row PROVE [r EXCEPT !.sent = "hour"] \in Row
    BY DEF Row
  <1>3. /\ Outcome(c, "failed", "cooldown") \in Row
        /\ Outcome(c, "failed", "opted out") \in Row
        /\ Outcome(c, "sent", "none") \in Row
    BY OutcomeType
  <1> QED
    BY <1>1, <1>2, <1>3 DEF GivenUp, Delivered

LEMMA OlderType ==
    ASSUME TypeOK, NEW from, NEW to \in {"day", "past"}
    PROVE  Older(from, to) \in [Calls -> Row]
  <1>1. ASSUME NEW r \in Row PROVE [r EXCEPT !.sent = to] \in Row
    BY DEF Row
  <1>2. row \in [Calls -> Row]
    BY DEF TypeOK
  <1> QED
    BY <1>1, <1>2 DEF Older

LEMMA TypeInit == Init => TypeOK
  <1>1. NoRow \in Row
    BY DEF NoRow, Row
  <1>2. NoSweep \in SweepState
    BY DEF NoSweep, SweepState
  <1>3. ASSUME Init PROVE row \in [Calls -> Row] /\ sweep \in SweepState
    BY <1>1, <1>2, <1>3 DEF Init
  <1>4. ASSUME Init PROVE asked \in [Calls -> Requests \union {NoRequest}]
    BY <1>4 DEF Init
  <1>5. ASSUME Init PROVE at \in [Calls -> Places] /\ texts \in [Calls -> Nat]
    BY <1>5 DEF Init, Places
  <1> QED
    BY <1>3, <1>4, <1>5 DEF Init, TypeOK

\* The moves of the sweep.
LEMMA SweepStateType ==
    ASSUME TypeOK, NEW label \in {"next", "caps", "attempt", "send", "sent", "failed"},
           NEW n \in {0, 1}, NEW c \in Calls
    PROVE  /\ SweepTo(label) \in SweepState
           /\ RowDone(n) \in SweepState
           /\ RowDropped(c) \in SweepState
           /\ RowPicked(c) \in SweepState
  <1>1. sweep \in SweepState
    BY DEF TypeOK
  <1>2. SweepTo(label) \in SweepState
    BY <1>1 DEF SweepState, SweepTo
  <1>3. RowDone(n) \in SweepState
    <2>1. ASSUME NEW s \in SweepState, NEW m \in Nat
          PROVE  [s EXCEPT !.at = "next", !.row = None, !.sends = m] \in SweepState
      BY DEF SweepState
    <2>2. sweep.sends \in Nat
      BY <1>1 DEF SweepState
    <2>3. sweep.sends + n \in Nat
      BY <2>2
    <2> QED
      BY <1>1, <2>1, <2>3 DEF RowDone
  <1>4. RowDropped(c) \in SweepState
    BY <1>1 DEF SweepState, RowDropped
  <1>5. RowPicked(c) \in SweepState
    BY <1>1 DEF SweepState, RowPicked
  <1> QED
    BY <1>2, <1>3, <1>4, <1>5

LEMMA NoSweepType == NoSweep \in SweepState
  BY DEF SweepState, NoSweep

\* Where a worker goes next, whoever it is.
LEMMA GotoType ==
    ASSUME TypeOK, NEW c \in Calls, NEW label \in {"send", "sent", "failed", "done"},
           Goto(c, label)
    PROVE  /\ at' \in [Calls -> Places]
           /\ inFlight' \subseteq inFlight
           /\ sweep' \in SweepState
  <1>1. at \in [Calls -> Places] /\ sweep \in SweepState
    BY DEF TypeOK
  <1> QED
    BY <1>1, SweepStateType DEF Goto, Leave, Places

LEMMA AttemptType ==
    ASSUME TypeOK, NEW c \in Calls,
           Attempt(c) \/ SendText(c) \/ RecordSent(c) \/ RecordFailed(c)
    PROVE  TypeOK'
  <1>1. CASE Attempt(c)
    <2>1. row \in [Calls -> Row]
      BY DEF TypeOK
    <2>2. ASSUME NEW r \in Row PROVE [r EXCEPT !.attempts = @ + 1] \in Row
      <3>1. r.attempts \in Nat
        BY DEF Row
      <3>2. r.attempts + 1 \in Nat
        BY <3>1
      <3> QED
        BY <3>2 DEF Row
    <2>3. row' = [row EXCEPT ![c] = [row[c] EXCEPT !.attempts = @ + 1]]
      BY <1>1 DEF Attempt
    <2>4. row' \in [Calls -> Row]
      BY <2>1, <2>2, <2>3, RowsType
    <2> QED
      BY <1>1, <2>4, GotoType DEF Attempt, TypeOK
  <1>2. CASE SendText(c)
    <2>1. texts' \in [Calls -> Nat] /\ faults' \subseteq Faults
      BY <1>2 DEF SendText, TypeOK, Fault
    <2> QED
      BY <1>2, <2>1, GotoType DEF SendText, TypeOK
  <1>3. CASE RecordSent(c)
    <2>1. row' \in [Calls -> Row] /\ faults' \subseteq Faults
      BY <1>3, LastOutcomeType DEF RecordSent, TypeOK, Fault
    <2> QED
      BY <1>3, <2>1, GotoType DEF RecordSent, TypeOK
  <1>4. CASE RecordFailed(c)
    <2>1. row' \in [Calls -> Row]
      <3>1. row \in [Calls -> Row]
        BY DEF TypeOK
      <3> QED
        BY <1>4, <3>1, OutcomeType DEF RecordFailed
    <2> QED
      BY <1>4, <2>1, GotoType DEF RecordFailed, TypeOK
  <1> QED
    BY <1>1, <1>2, <1>3, <1>4

LEMMA GuardType ==
    ASSUME TypeOK, NEW c \in Calls,
           Call(c) \/ CheckOptOut(c) \/ Create(c) \/ CheckCooldown(c) \/ CheckCaps(c)
    PROVE  TypeOK'
  <1>1. CASE Call(c)
    BY <1>1 DEF Call, TypeOK, Places
  <1>2. CASE CheckOptOut(c)
    BY <1>2 DEF CheckOptOut, Leave, TypeOK, Places
  <1>3. CASE Create(c)
    <2>1. Cardinality(Written) + 1 \in Nat
      BY CallsFinite, FS_Subset, FS_CardinalityType DEF Written
    <2>2. [NoRow EXCEPT !.status = "pending", !.no = Cardinality(Written) + 1] \in Row
      BY <2>1 DEF Row, NoRow
    <2>3. row' \in [Calls -> Row]
      BY <1>3, <2>2 DEF Create, TypeOK
    <2> QED
      BY <1>3, <2>3 DEF Create, TypeOK, Places
  <1>4. CASE CheckCooldown(c)
    <2>1. row' \in [Calls -> Row]
      <3>1. row \in [Calls -> Row]
        BY DEF TypeOK
      <3> QED
        BY <1>4, <3>1, LastOutcomeType DEF CheckCooldown
    <2> QED
      BY <1>4, <2>1 DEF CheckCooldown, Leave, TypeOK, Places
  <1>5. CASE CheckCaps(c)
    <2>1. row' \in [Calls -> Row]
      <3>1. row \in [Calls -> Row]
        BY DEF TypeOK
      <3>2. \/ row' = [row EXCEPT ![c] = Outcome(c, "deferred", "cap")]
            \/ row' = row
        BY <1>5 DEF CheckCaps
      <3> QED
        BY <3>1, <3>2, OutcomeType
    <2>2. raced' \in BOOLEAN
      BY <1>5 DEF CheckCaps, Raced, TypeOK
    <2> QED
      BY <1>5, <2>1, <2>2 DEF CheckCaps, Leave, TypeOK, Places
  <1> QED
    BY <1>1, <1>2, <1>3, <1>4, <1>5

LEMMA SweepType == ASSUME TypeOK, SweepStep \/ SweepThrow PROVE TypeOK'
  <1>1. CASE StartSweep
    <2>1. sweep' \in SweepState
      BY <1>1 DEF StartSweep, NoSweep, SweepState
    <2> QED
      BY <1>1, <2>1 DEF StartSweep, TypeOK
  <1>2. CASE EndSweep \/ SweepThrow
    BY <1>2, NoSweepType DEF EndSweep, SweepThrow, Fault, TypeOK
  <1>3. ASSUME NEW c \in Calls, SweepOptOut(c) PROVE TypeOK'
    <2>1. row' \in [Calls -> Row]
      <3>1. row \in [Calls -> Row]
        BY DEF TypeOK
      <3> QED
        BY <1>3, <3>1, LastOutcomeType DEF SweepOptOut
    <2>2. sweep' \in SweepState
      BY <1>3, SweepStateType DEF SweepOptOut
    <2> QED
      BY <1>3, <2>1, <2>2 DEF SweepOptOut, TypeOK
  <1>4. ASSUME NEW c \in Calls, SweepCaps(c) PROVE TypeOK'
    <2>1. row' \in [Calls -> Row]
      <3>1. row \in [Calls -> Row]
        BY DEF TypeOK
      <3>2. \/ row' = [row EXCEPT ![c] = Outcome(c, "deferred", "cap")]
            \/ row' = row
        BY <1>4 DEF SweepCaps
      <3> QED
        BY <3>1, <3>2, OutcomeType
    <2>2. raced' \in BOOLEAN
      BY <1>4 DEF SweepCaps, Raced, TypeOK
    <2> QED
      BY <1>4, <2>1, <2>2, SweepStateType DEF SweepCaps, TypeOK
  <1> QED
    BY <1>1, <1>2, <1>3, <1>4 DEF SweepStep

LEMMA TypeStep == TypeOK /\ [Next]_vars => TypeOK'
  <1> SUFFICES ASSUME TypeOK, [Next]_vars PROVE TypeOK'
    OBVIOUS
  <1>1. ASSUME NEW c \in Calls, Call(c) \/ CallStep(c) PROVE TypeOK'
    BY <1>1, GuardType, AttemptType DEF CallStep
  <1>2. ASSUME NEW c \in Calls, Throw(c) \/ Ageing(c) PROVE TypeOK'
    BY <1>2 DEF Throw, Fault, Leave, Ageing, TypeOK, Places
  <1>3. CASE HourPasses \/ DayPasses
    <2>1. row' \in [Calls -> Row]
      BY <1>3, OlderType DEF HourPasses, DayPasses
    <2> QED
      BY <1>3, <2>1 DEF HourPasses, DayPasses, TypeOK
  <1>4. ASSUME NEW p \in Phones, Stop(p) \/ Resubscribe(p) PROVE TypeOK'
    BY <1>4 DEF Stop, Resubscribe, Fault, TypeOK
  <1>5. CASE Crash
    BY <1>5, NoSweepType DEF Crash, Fault, TypeOK, Places
  <1>6. CASE UNCHANGED vars
    BY <1>6 DEF vars, TypeOK
  <1> QED
    BY <1>1, <1>2, <1>3, <1>4, <1>5, <1>6, SweepType DEF Next

\* Every reachable state of the ledger is well typed.
THEOREM Typing == Spec => []TypeOK
  <1> QED
    BY TypeInit, TypeStep, PTL DEF Spec

-----------------------------------------------------------------------------
(* One worker per row. *)

\* The row of a call follows the call until it is over; the sweep works on rows
\* whose call is over, and never on one that was sent.
Worked(c) ==
    /\ at[c] \in {"idle", "opt-out", "create"} => row[c].status = "none"
    /\ at[c] \in {"cooldown", "caps", "attempt", "send", "sent", "failed"}
           => row[c].status = "pending"
    /\ c \in old => at[c] = "over"
    /\ Swept(c) => at[c] = "over" /\ row[c].status \notin {"none", "sent"}

WorkInv ==
    /\ \A c \in Calls : Worked(c)
    /\ sweep.row \notin sweep.todo
    /\ sweep.at \in {"idle", "next"} <=> sweep.row = None

LEMMA OutcomeFields ==
    ASSUME TypeOK, NEW c \in Calls, NEW st, NEW er
    PROVE  /\ Outcome(c, st, er).status = st
           /\ Outcome(c, st, er).sent = row[c].sent
           /\ GivenUp(c, er).status = "failed"
           /\ GivenUp(c, er).sent = row[c].sent
           /\ Delivered(c).status = "sent"
  <1>1. row[c] \in Row
    BY DEF TypeOK
  <1> QED
    BY <1>1 DEF Outcome, GivenUp, Delivered, Row

LEMMA OlderFields ==
    ASSUME TypeOK, NEW from, NEW to, NEW c \in Calls
    PROVE  /\ Older(from, to)[c].status = row[c].status
           /\ Older(from, to)[c].sent = IF row[c].sent \in from THEN to ELSE row[c].sent
  <1>1. row[c] \in Row
    BY DEF TypeOK
  <1> QED
    BY <1>1 DEF Older, Row

LEMMA WorkInit == Init => WorkInv
  <1> SUFFICES ASSUME Init PROVE WorkInv
    OBVIOUS
  <1>1. ASSUME NEW c \in Calls PROVE Worked(c)
    BY CallsFinite DEF Init, Worked, Swept, NoRow, NoSweep
  <1> QED
    BY <1>1 DEF Init, WorkInv, NoSweep

\* What the sweep's moves change of its state.
LEMMA SweepFields ==
    ASSUME TypeOK, NEW c, NEW label, NEW n
    PROVE  /\ SweepTo(label).at = label
           /\ SweepTo(label).row = sweep.row
           /\ SweepTo(label).todo = sweep.todo
           /\ RowDone(n).at = "next"
           /\ RowDone(n).row = None
           /\ RowDone(n).todo = sweep.todo
           /\ RowDropped(c).at = sweep.at
           /\ RowDropped(c).row = sweep.row
           /\ RowDropped(c).todo = sweep.todo \ {c}
           /\ RowPicked(c).at = "caps"
           /\ RowPicked(c).row = c
           /\ RowPicked(c).todo = sweep.todo \ {c}
  <1>1. sweep \in SweepState
    BY DEF TypeOK
  <1>2. /\ SweepTo(label).at = label
        /\ SweepTo(label).row = sweep.row
        /\ SweepTo(label).todo = sweep.todo
    BY <1>1 DEF SweepState, SweepTo
  <1>3. /\ RowDone(n).at = "next"
        /\ RowDone(n).row = None
        /\ RowDone(n).todo = sweep.todo
    BY <1>1 DEF SweepState, RowDone
  <1>4. /\ RowDropped(c).at = sweep.at
        /\ RowDropped(c).row = sweep.row
        /\ RowDropped(c).todo = sweep.todo \ {c}
    BY <1>1 DEF SweepState, RowDropped
  <1>5. /\ RowPicked(c).at = "caps"
        /\ RowPicked(c).row = c
        /\ RowPicked(c).todo = sweep.todo \ {c}
    BY <1>1 DEF SweepState, RowPicked
  <1> QED
    BY <1>2, <1>3, <1>4, <1>5

\* A worker's step moves the call, or the sweep when the call is over.
LEMMA GotoEffect ==
    ASSUME TypeOK, WorkInv, NEW c \in Calls,
           NEW from \in {"attempt", "send", "sent", "failed"}, Attempting(c, from),
           NEW to \in {"send", "sent", "failed", "done"}, Goto(c, to)
    PROVE  \/ /\ at[c] = from /\ ~Swept(c)
              /\ at' = [at EXCEPT ![c] = IF to = "done" THEN "over" ELSE to]
              /\ inFlight' = IF to = "done" THEN inFlight \ {Key(c)} ELSE inFlight
              /\ sweep' = sweep
           \/ /\ at[c] = "over" /\ sweep.at = from /\ sweep.row = c
              /\ at' = at /\ inFlight' = inFlight
              /\ sweep'.todo = sweep.todo
              /\ sweep'.at = IF to = "done" THEN "next" ELSE to
              /\ sweep'.row = IF to = "done" THEN None ELSE c
  <1>1. Worked(c)
    BY DEF WorkInv
  <1>2. CASE at[c] = from
    BY <1>1, <1>2 DEF Goto, Leave, Worked
  <1>3. CASE at[c] # from
    <2>1. sweep.at = from /\ sweep.row = c
      BY <1>3 DEF Attempting
    <2>2. at[c] = "over"
      BY <1>1, <2>1 DEF Worked, Swept
    <2>3. CASE to = "done"
      BY <2>1, <2>2, <2>3, SweepFields DEF Goto
    <2>4. CASE to # "done"
      BY <2>1, <2>2, <2>4, SweepFields DEF Goto
    <2> QED
      BY <2>3, <2>4
  <1> QED
    BY <1>2, <1>3

\* A worker's step keeps it: a row that is done with is sent or failed.
LEMMA WorkGoto ==
    ASSUME TypeOK, WorkInv, NEW c \in Calls,
           NEW from \in {"attempt", "send", "sent", "failed"}, Attempting(c, from),
           NEW to \in {"send", "sent", "failed", "done"}, Goto(c, to),
           old' = old, \A d \in Calls \ {c} : row'[d] = row[d],
           to # "done" => row'[c].status = row[c].status,
           to = "done" => row'[c].status \in {"sent", "failed"}
    PROVE  WorkInv'
  <1>1. Worked(c) /\ \A d \in Calls : Worked(d)
    BY DEF WorkInv
  <1>2. CASE /\ at[c] = from /\ ~Swept(c)
             /\ at' = [at EXCEPT ![c] = IF to = "done" THEN "over" ELSE to]
             /\ sweep' = sweep
    <2>1. at'[c] = IF to = "done" THEN "over" ELSE to
      BY <1>2 DEF TypeOK
    <2>2. Worked(c)'
      BY <1>1, <1>2, <2>1 DEF Worked, Swept
    <2>3. ASSUME NEW d \in Calls \ {c} PROVE Worked(d)'
      <3>1. at'[d] = at[d] /\ row'[d] = row[d]
        BY <1>2 DEF TypeOK
      <3> QED
        BY <1>1, <1>2, <3>1 DEF Worked, Swept
    <2> QED
      BY <1>2, <2>2, <2>3 DEF WorkInv
  <1>3. CASE /\ at[c] = "over" /\ sweep.at = from /\ sweep.row = c
             /\ at' = at
             /\ sweep'.todo = sweep.todo
             /\ sweep'.at = IF to = "done" THEN "next" ELSE to
             /\ sweep'.row = IF to = "done" THEN None ELSE c
    <2>1. c # None /\ c \notin sweep.todo
      BY <1>3, CallsFinite DEF WorkInv
    <2>2. Worked(c)'
      <3>1. CASE to = "done"
        BY <1>1, <1>3, <2>1, <3>1 DEF Worked, Swept
      <3>2. CASE to # "done"
        BY <1>1, <1>3, <2>1, <3>2 DEF Worked, Swept
      <3> QED
        BY <3>1, <3>2
    <2>3. ASSUME NEW d \in Calls \ {c} PROVE Worked(d)'
      <3>1. Swept(d)' => Swept(d)
        BY <1>3, CallsFinite DEF Swept
      <3> QED
        BY <1>1, <1>3, <3>1 DEF Worked
    <2>4. sweep'.row \notin sweep'.todo
      <3>1. None \notin sweep.todo
        BY CallsFinite DEF TypeOK, SweepState
      <3> QED
        BY <1>3, <2>1, <3>1
    <2> QED
      BY <1>3, <2>1, <2>2, <2>3, <2>4 DEF WorkInv
  <1> QED
    BY <1>2, <1>3, GotoEffect

\* attemptSend keeps it, whoever runs it.
LEMMA WorkAttempt ==
    ASSUME TypeOK, WorkInv, NEW c \in Calls,
           Attempt(c) \/ SendText(c) \/ RecordSent(c) \/ RecordFailed(c)
    PROVE  WorkInv'
  <1>1. old' = old /\ \A d \in Calls \ {c} : row'[d] = row[d]
    BY DEF Attempt, SendText, RecordSent, RecordFailed, TypeOK
  <1>2. row[c] \in Row /\ row \in [Calls -> Row]
    BY DEF TypeOK
  <1>3. CASE Attempt(c)
    <2>1. row'[c].status = row[c].status
      BY <1>2, <1>3 DEF Attempt, Row
    <2> QED
      BY <1>1, <1>3, <2>1, WorkGoto DEF Attempt
  <1>4. CASE SendText(c)
    BY <1>1, <1>4, WorkGoto DEF SendText
  <1>5. CASE RecordSent(c)
    <2>1. CASE row' = row /\ Goto(c, "failed")
      BY <1>1, <1>5, <2>1, WorkGoto DEF RecordSent
    <2>2. CASE row' = [row EXCEPT ![c] = Delivered(c)] /\ Goto(c, "done")
      <3>1. row'[c].status = "sent"
        BY <1>2, <2>2, OutcomeFields
      <3> QED
        BY <1>1, <1>5, <2>2, <3>1, WorkGoto DEF RecordSent
    <2> QED
      BY <1>5, <2>1, <2>2 DEF RecordSent
  <1>6. CASE RecordFailed(c)
    <2>1. row'[c].status = "failed"
      BY <1>2, <1>6, OutcomeFields DEF RecordFailed
    <2> QED
      BY <1>1, <1>6, <2>1, WorkGoto DEF RecordFailed
  <1> QED
    BY <1>3, <1>4, <1>5, <1>6

LEMMA WorkStep == TypeOK /\ WorkInv /\ [Next]_vars => WorkInv'
  <1> SUFFICES ASSUME TypeOK, WorkInv, [Next]_vars PROVE WorkInv'
    OBVIOUS
  <1>1. ASSUME NEW c \in Calls, Call(c) PROVE WorkInv'
    BY <1>1 DEF Call, WorkInv, Worked, Swept, TypeOK, Places
  <1>2. ASSUME NEW c \in Calls, CheckOptOut(c) PROVE WorkInv'
    BY <1>2 DEF CheckOptOut, Leave, WorkInv, Worked, Swept, TypeOK, Places
  <1>3. ASSUME NEW c \in Calls, Create(c) PROVE WorkInv'
    <2>1. row'[c].status = "pending" /\ \A d \in Calls \ {c} : row'[d] = row[d]
      BY <1>3 DEF Create, TypeOK, NoRow
    <2> QED
      BY <1>3, <2>1 DEF Create, WorkInv, Worked, Swept, TypeOK
  <1>4. ASSUME NEW c \in Calls, CheckCooldown(c) PROVE WorkInv'
    <2>1. \A d \in Calls \ {c} : row'[d] = row[d]
      BY <1>4 DEF CheckCooldown, TypeOK
    <2>2. \/ row'[c].status = "failed" /\ at' = [at EXCEPT ![c] = "over"]
          \/ row' = row /\ at' = [at EXCEPT ![c] = "caps"]
      BY <1>4, OutcomeFields DEF CheckCooldown, Leave, TypeOK
    <2> QED
      BY <1>4, <2>1, <2>2 DEF CheckCooldown, WorkInv, Worked, Swept, TypeOK
  <1>5. ASSUME NEW c \in Calls, CheckCaps(c) PROVE WorkInv'
    <2>1. \A d \in Calls \ {c} : row'[d] = row[d]
      BY <1>5 DEF CheckCaps, TypeOK
    <2>2. \/ row'[c].status = "deferred" /\ at' = [at EXCEPT ![c] = "over"]
          \/ row' = row /\ at' = [at EXCEPT ![c] = "attempt"]
      BY <1>5, OutcomeFields DEF CheckCaps, Leave, TypeOK
    <2> QED
      BY <1>5, <2>1, <2>2 DEF CheckCaps, WorkInv, Worked, Swept, TypeOK
  <1>6. ASSUME NEW c \in Calls, Throw(c) \/ Ageing(c) PROVE WorkInv'
    BY <1>6 DEF Throw, Leave, Ageing, WorkInv, Worked, Swept, TypeOK
  <1>7. CASE StartSweep
    <2>1. ASSUME NEW c \in Calls, Candidate(c)
          PROVE  at[c] = "over" /\ row[c].status \notin {"none", "sent"}
      <3>1. Worked(c) /\ at[c] \in Places
        BY DEF WorkInv, TypeOK
      <3> QED
        BY <2>1, <3>1 DEF Candidate, Worked, Places
    <2>2. sweep'.todo \subseteq {c \in Calls : Candidate(c)} /\ sweep'.row = None
          /\ sweep'.at = "next"
      BY <1>7 DEF StartSweep, NoSweep
    <2> QED
      BY <1>7, <2>1, <2>2, CallsFinite DEF StartSweep, WorkInv, Worked, Swept
  <1>8. CASE EndSweep \/ SweepThrow
    BY <1>8, CallsFinite DEF EndSweep, SweepThrow, NoSweep, WorkInv, Worked, Swept
  <1>9. ASSUME NEW c \in Calls, SweepOptOut(c) PROVE WorkInv'
    <2>1. \A d \in Calls \ {c} : row'[d] = row[d]
      BY <1>9 DEF SweepOptOut, TypeOK
    <2>2. c # None /\ at' = at /\ old' = old /\ c \in sweep.todo /\ sweep.at = "next"
      BY <1>9, CallsFinite DEF SweepOptOut
    <2>3. Worked(c) /\ \A d \in Calls : Worked(d)
      BY DEF WorkInv
    <2>4. row \in [Calls -> Row]
      BY DEF TypeOK
    <2>5. CASE row' = [row EXCEPT ![c] = GivenUp(c, "opted out")] /\ sweep' = RowDropped(c)
      <3>1. row'[c].status = "failed"
        BY <2>4, <2>5, OutcomeFields
      <3>2. sweep'.at = sweep.at /\ sweep'.row = sweep.row /\ sweep'.todo = sweep.todo \ {c}
        BY <2>5, SweepFields
      <3> QED
        BY <2>1, <2>2, <2>3, <3>1, <3>2 DEF WorkInv, Worked, Swept
    <2>6. CASE row' = row /\ sweep' = RowPicked(c)
      <3>1. sweep'.at = "caps" /\ sweep'.row = c /\ sweep'.todo = sweep.todo \ {c}
        BY <2>6, SweepFields
      <3> QED
        BY <2>2, <2>3, <2>6, <3>1 DEF WorkInv, Worked, Swept
    <2> QED
      BY <1>9, <2>5, <2>6 DEF SweepOptOut
  <1>10. ASSUME NEW c \in Calls, SweepCaps(c) PROVE WorkInv'
    <2>1. \A d \in Calls \ {c} : row'[d] = row[d]
      BY <1>10 DEF SweepCaps, TypeOK
    <2>2. c # None /\ at' = at /\ old' = old /\ sweep.at = "caps" /\ sweep.row = c
      BY <1>10, CallsFinite DEF SweepCaps
    <2>3. Worked(c) /\ \A d \in Calls : Worked(d)
      BY DEF WorkInv
    <2>4. row \in [Calls -> Row] /\ None \notin sweep.todo
      BY CallsFinite DEF TypeOK, SweepState
    <2>5. CASE row' = [row EXCEPT ![c] = Outcome(c, "deferred", "cap")] /\ sweep' = RowDone(0)
      <3>1. row'[c].status = "deferred"
        BY <2>4, <2>5, OutcomeFields
      <3>2. sweep'.at = "next" /\ sweep'.row = None /\ sweep'.todo = sweep.todo
        BY <2>5, SweepFields
      <3> QED
        BY <2>1, <2>2, <2>3, <2>4, <3>1, <3>2, CallsFinite DEF WorkInv, Worked, Swept
    <2>6. CASE row' = row /\ sweep' = SweepTo("attempt")
      <3>1. sweep'.at = "attempt" /\ sweep'.row = c /\ sweep'.todo = sweep.todo
        BY <2>2, <2>6, SweepFields
      <3> QED
        BY <2>2, <2>3, <2>6, <3>1 DEF WorkInv, Worked, Swept
    <2> QED
      BY <1>10, <2>5, <2>6 DEF SweepCaps
  <1>11. CASE HourPasses \/ DayPasses
    <2>1. \A c \in Calls : row'[c].status = row[c].status
      BY <1>11, OlderFields DEF HourPasses, DayPasses
    <2> QED
      BY <1>11, <2>1 DEF HourPasses, DayPasses, WorkInv, Worked, Swept
  <1>12. ASSUME NEW p \in Phones, Stop(p) \/ Resubscribe(p) PROVE WorkInv'
    BY <1>12 DEF Stop, Resubscribe, WorkInv, Worked, Swept
  <1>13. CASE Crash
    BY <1>13, CallsFinite DEF Crash, NoSweep, WorkInv, Worked, Swept, TypeOK
  <1>14. CASE UNCHANGED vars
    BY <1>14 DEF vars, WorkInv, Worked, Swept
  <1> QED
    BY <1>1, <1>2, <1>3, <1>4, <1>5, <1>6, <1>7, <1>8, <1>9, <1>10, <1>11, <1>12, <1>13,
       <1>14, WorkAttempt DEF Next, CallStep, SweepStep

-----------------------------------------------------------------------------
(* One text per row. *)

\* A call in progress holds the reservation of its phone and kind, alone.
Reserved ==
    \A c \in Calls : Active(c) =>
        /\ Key(c) \in inFlight
        /\ \A d \in Calls \ {c} : Active(d) => Key(c) # Key(d)

\* A text that left is on its row, or about to be written there.
Harmful  == {"landed", "db", "crash"}
Recorded(c) == texts[c] = 1 => row[c].status = "sent" \/ Attempting(c, "sent")
OnceInv  == faults \intersect Harmful = {}
              => \A c \in Calls : texts[c] \in {0, 1} /\ Recorded(c)

\* A step that leaves the other calls alone and ends or moves on one.
LEMMA ReservedKept ==
    ASSUME TypeOK, Reserved, NEW c \in Calls, asked' = asked,
           \/ at' = at /\ inFlight' = inFlight
           \/ Active(c) /\ Leave(c)
           \/ /\ Active(c) /\ inFlight' = inFlight
              /\ \E label \in Places : at' = [at EXCEPT ![c] = label]
    PROVE  Reserved'
  <1>1. \A d \in Calls : Key(d)' = Key(d)
    BY DEF Key, To, Kind
  <1>2. CASE at' = at /\ inFlight' = inFlight
    BY <1>1, <1>2 DEF Reserved, Active
  <1>3. CASE Active(c) /\ Leave(c)
    <2>1. ~Active(c)' /\ \A d \in Calls \ {c} : Active(d)' <=> Active(d)
      BY <1>3 DEF Leave, TypeOK, Active
    <2> QED
      BY <1>1, <1>3, <2>1 DEF Reserved, Leave
  <1>4. CASE /\ Active(c) /\ inFlight' = inFlight
             /\ \E label \in Places : at' = [at EXCEPT ![c] = label]
    <2>1. \A d \in Calls : Active(d)' => Active(d)
      BY <1>4 DEF TypeOK, Active
    <2> QED
      BY <1>1, <1>4, <2>1 DEF Reserved
  <1> QED
    BY <1>2, <1>3, <1>4

\* What attemptSend does to the reservations, whoever runs it.
LEMMA ReservedGoto ==
    ASSUME TypeOK, WorkInv, Reserved, NEW c \in Calls, asked' = asked,
           NEW from \in {"attempt", "send", "sent", "failed"}, Attempting(c, from),
           NEW to \in {"send", "sent", "failed", "done"}, Goto(c, to)
    PROVE  Reserved'
  <1>1. \/ at' = at /\ inFlight' = inFlight
        \/ Active(c) /\ Leave(c)
        \/ /\ Active(c) /\ inFlight' = inFlight
           /\ \E label \in Places : at' = [at EXCEPT ![c] = label]
    BY DEF Goto, Active, Places
  <1> QED
    BY <1>1, ReservedKept

LEMMA ReservedStep == TypeOK /\ WorkInv /\ Reserved /\ [Next]_vars => Reserved'
  <1> SUFFICES ASSUME TypeOK, WorkInv, Reserved, [Next]_vars PROVE Reserved'
    OBVIOUS
  <1>1. ASSUME NEW c \in Calls, Call(c) PROVE Reserved'
    <2>1. PICK q \in Requests :
            /\ asked' = [asked EXCEPT ![c] = q]
            /\ \/ /\ at' = [at EXCEPT ![c] = "over"] /\ inFlight' = inFlight
               \/ /\ <<q.to, q.kind>> \notin inFlight
                  /\ inFlight' = inFlight \union {<<q.to, q.kind>>}
                  /\ at' = [at EXCEPT ![c] = "opt-out"]
      BY <1>1 DEF Call
    <2>2. \A d \in Calls \ {c} : Key(d)' = Key(d) /\ (Active(d)' <=> Active(d))
      BY <2>1 DEF Key, To, Kind, Active, TypeOK
    <2>3. ~Active(c) /\ Key(c)' = <<q.to, q.kind>>
      BY <1>1, <2>1 DEF Call, Active, Key, To, Kind, TypeOK
    <2>4. CASE at' = [at EXCEPT ![c] = "over"] /\ inFlight' = inFlight
      <3>1. ~Active(c)'
        BY <2>4 DEF Active, TypeOK
      <3> QED
        BY <2>2, <2>4, <3>1 DEF Reserved
    <2>5. CASE /\ <<q.to, q.kind>> \notin inFlight
               /\ inFlight' = inFlight \union {<<q.to, q.kind>>}
      BY <2>2, <2>3, <2>5 DEF Reserved
    <2> QED
      BY <2>1, <2>4, <2>5
  <1>2. ASSUME NEW c \in Calls,
               CheckOptOut(c) \/ Create(c) \/ CheckCooldown(c) \/ CheckCaps(c) \/ Throw(c)
        PROVE  Reserved'
    <2>1. asked' = asked /\ Active(c)
      BY <1>2 DEF CheckOptOut, Create, CheckCooldown, CheckCaps, Throw, Active
    <2>2. \/ Leave(c)
          \/ inFlight' = inFlight /\ \E label \in Places : at' = [at EXCEPT ![c] = label]
      BY <1>2 DEF CheckOptOut, Create, CheckCooldown, CheckCaps, Throw, Places
    <2> QED
      BY <2>1, <2>2, ReservedKept
  <1>3. ASSUME NEW c \in Calls,
               Attempt(c) \/ SendText(c) \/ RecordSent(c) \/ RecordFailed(c)
        PROVE  Reserved'
    BY <1>3, ReservedGoto DEF Attempt, SendText, RecordSent, RecordFailed
  <1>4. CASE asked' = asked /\ at' = at /\ inFlight' = inFlight
    BY <1>4 DEF Reserved, Active, Key, To, Kind
  <1>5. CASE Crash
    BY <1>5 DEF Crash, Reserved, Active, TypeOK
  <1> QED
    BY <1>1, <1>2, <1>3, <1>4, <1>5
    DEF Next, CallStep, Ageing, SweepStep, StartSweep, EndSweep, SweepOptOut, SweepCaps,
        SweepThrow, HourPasses, DayPasses, Stop, Resubscribe, vars

\* The other rows, where the worker of row c goes on.
LEMMA OthersKept ==
    ASSUME TypeOK, WorkInv, NEW c \in Calls,
           NEW from \in {"attempt", "send", "sent", "failed"}, Attempting(c, from),
           NEW to \in {"send", "sent", "failed", "done"}, Goto(c, to),
           NEW label \in {"attempt", "send", "sent", "failed"}
    PROVE  /\ \A d \in Calls \ {c} : Attempting(d, label)' <=> Attempting(d, label)
           /\ Attempting(c, label)' <=> to = label
           /\ Attempting(c, label) <=> from = label
  <1>1. Worked(c) /\ c # None
    BY CallsFinite DEF WorkInv
  <1>2. CASE /\ at[c] = from /\ ~Swept(c)
             /\ at' = [at EXCEPT ![c] = IF to = "done" THEN "over" ELSE to]
             /\ sweep' = sweep
    BY <1>1, <1>2 DEF Attempting, Swept, TypeOK
  <1>3. CASE /\ at[c] = "over" /\ sweep.at = from /\ sweep.row = c
             /\ at' = at
             /\ sweep'.at = IF to = "done" THEN "next" ELSE to
             /\ sweep'.row = IF to = "done" THEN None ELSE c
    <2>1. \A d \in Calls : d # None
      BY CallsFinite
    <2> QED
      BY <1>1, <1>3, <2>1 DEF Attempting
  <1> QED
    BY <1>2, <1>3, GotoEffect

\* The worker of row c goes on: what it has to show for it.
LEMMA OnceGoto ==
    ASSUME TypeOK, WorkInv, OnceInv, faults \intersect Harmful = {}, NEW c \in Calls,
           NEW from \in {"attempt", "send", "sent", "failed"}, Attempting(c, from),
           NEW to \in {"send", "sent", "failed", "done"}, Goto(c, to),
           \A d \in Calls \ {c} : row'[d] = row[d] /\ texts'[d] = texts[d],
           \/ /\ from = "send" /\ to = "sent" /\ texts'[c] = texts[c] + 1
           \/ /\ from = "sent" /\ to = "done" /\ texts'[c] = texts[c]
              /\ row'[c].status = "sent"
           \/ /\ from # "sent" /\ texts'[c] = texts[c]
    PROVE  \A d \in Calls : texts'[d] \in {0, 1} /\ Recorded(d)'
  <1>1. ASSUME NEW d \in Calls PROVE texts[d] \in {0, 1} /\ Recorded(d)
    BY DEF OnceInv
  <1>2. ASSUME NEW d \in Calls \ {c} PROVE texts'[d] \in {0, 1} /\ Recorded(d)'
    BY <1>1, OthersKept DEF Recorded
  <1>3. row[c].status # "sent"
    BY DEF WorkInv, Worked, Attempting, Swept
  <1>4. from # "sent" => texts[c] = 0
    BY <1>1, <1>3, OthersKept DEF Recorded
  <1>5. texts'[c] \in {0, 1} /\ Recorded(c)'
    BY <1>1, <1>4, OthersKept DEF Recorded
  <1> QED
    BY <1>2, <1>5

\* A step that sends nothing and moves no worker past its send.
LEMMA OnceKept ==
    ASSUME OnceInv, faults \intersect Harmful = {}, texts' = texts,
           \A c \in Calls : /\ Attempting(c, "sent") => Attempting(c, "sent")'
                            /\ row[c].status = "sent" => row'[c].status = "sent"
    PROVE  \A d \in Calls : texts'[d] \in {0, 1} /\ Recorded(d)'
  BY DEF OnceInv, Recorded

LEMMA OnceInit == Init => Reserved /\ OnceInv
  BY DEF Init, Reserved, Active, OnceInv, Recorded

LEMMA OnceStep == TypeOK /\ WorkInv /\ OnceInv /\ [Next]_vars => OnceInv'
  <1> SUFFICES ASSUME TypeOK, WorkInv, OnceInv, [Next]_vars,
                      faults' \intersect Harmful = {}
               PROVE  \A d \in Calls : texts'[d] \in {0, 1} /\ Recorded(d)'
    BY DEF OnceInv
  <1>1. faults \subseteq faults'
    BY DEF Next, Call, CallStep, CheckOptOut, Create, CheckCooldown, CheckCaps, Attempt, SendText,
           RecordSent, RecordFailed, Throw, Ageing, SweepStep, StartSweep, EndSweep, SweepOptOut,
           SweepCaps, SweepThrow, HourPasses, DayPasses, Stop, Resubscribe, Crash, Fault, vars
  <1>2. faults \intersect Harmful = {}
    BY <1>1
  <1>3. \A f \in Harmful : ~Fault(f)
    BY DEF Fault
  <1>4. ASSUME NEW c \in Calls, Attempt(c) PROVE \A d \in Calls : texts'[d] \in {0, 1} /\ Recorded(d)'
    BY <1>2, <1>4, OnceGoto DEF Attempt, TypeOK
  <1>5. ASSUME NEW c \in Calls, SendText(c) PROVE \A d \in Calls : texts'[d] \in {0, 1} /\ Recorded(d)'
    <2>1. ~Fault("landed")
      BY <1>3 DEF Harmful
    <2>2. CASE texts' = [texts EXCEPT ![c] = @ + 1] /\ Goto(c, "sent")
      <3>1. texts'[c] = texts[c] + 1 /\ \A d \in Calls \ {c} : texts'[d] = texts[d]
        BY <2>2 DEF TypeOK
      <3> QED
        BY <1>2, <1>5, <2>2, <3>1, OnceGoto DEF SendText
    <2>3. CASE texts' = texts /\ Goto(c, "failed")
      BY <1>2, <1>5, <2>3, OnceGoto DEF SendText
    <2> QED
      BY <1>5, <2>1, <2>2, <2>3 DEF SendText
  <1>6. ASSUME NEW c \in Calls, RecordSent(c) PROVE \A d \in Calls : texts'[d] \in {0, 1} /\ Recorded(d)'
    <2>1. ~Fault("db")
      BY <1>3 DEF Harmful
    <2>2. row' = [row EXCEPT ![c] = Delivered(c)] /\ Goto(c, "done") /\ texts' = texts
      BY <1>6, <2>1 DEF RecordSent
    <2>3. row'[c].status = "sent" /\ \A d \in Calls \ {c} : row'[d] = row[d]
      BY <2>2, OutcomeFields DEF TypeOK
    <2> QED
      BY <1>2, <1>6, <2>2, <2>3, OnceGoto DEF RecordSent
  <1>7. ASSUME NEW c \in Calls, RecordFailed(c) PROVE \A d \in Calls : texts'[d] \in {0, 1} /\ Recorded(d)'
    <2>1. \A d \in Calls \ {c} : row'[d] = row[d]
      BY <1>7 DEF RecordFailed, TypeOK
    <2> QED
      BY <1>2, <1>7, <2>1, OnceGoto DEF RecordFailed
  <1>8. ASSUME NEW c \in Calls,
               Call(c) \/ CheckOptOut(c) \/ Create(c) \/ CheckCooldown(c) \/ CheckCaps(c)
        PROVE \A d \in Calls : texts'[d] \in {0, 1} /\ Recorded(d)'
    <2>1. Worked(c) /\ at[c] \in {"idle", "opt-out", "create", "cooldown", "caps"}
      BY <1>8 DEF WorkInv, Call, CheckOptOut, Create, CheckCooldown, CheckCaps
    <2>2. sweep' = sweep /\ texts' = texts /\ \A d \in Calls \ {c} : row'[d] = row[d] /\ at'[d] = at[d]
      BY <1>8 DEF Call, CheckOptOut, Create, CheckCooldown, CheckCaps, Leave, TypeOK
    <2>3. row[c].status # "sent" /\ ~Attempting(c, "sent")
      BY <2>1 DEF Worked, Attempting, Swept
    <2> QED
      BY <1>2, <2>2, <2>3, OnceKept DEF Attempting
  <1>9. ASSUME NEW c \in Calls, Throw(c) \/ Ageing(c)
        PROVE  \A d \in Calls : texts'[d] \in {0, 1} /\ Recorded(d)'
    BY <1>2, <1>3, <1>9, OnceKept DEF Throw, Ageing, Harmful, Attempting
  <1>10. CASE StartSweep \/ EndSweep
    BY <1>2, <1>10, OnceKept DEF StartSweep, EndSweep, Attempting
  <1>11. ASSUME NEW c \in Calls, SweepOptOut(c) \/ SweepCaps(c)
         PROVE  \A d \in Calls : texts'[d] \in {0, 1} /\ Recorded(d)'
    <2>1. Worked(c) /\ Swept(c) /\ sweep.at # "sent"
      BY <1>11 DEF WorkInv, SweepOptOut, SweepCaps, Swept
    <2>2. at' = at /\ texts' = texts /\ \A d \in Calls \ {c} : row'[d] = row[d]
      BY <1>11 DEF SweepOptOut, SweepCaps, TypeOK
    <2> QED
      BY <1>2, <2>1, <2>2, OnceKept DEF Attempting, Worked
  <1>12. CASE SweepThrow \/ Crash
    BY <1>3, <1>12 DEF SweepThrow, Crash, Harmful
  <1>13. CASE HourPasses \/ DayPasses
    <2>1. \A c \in Calls : row'[c].status = row[c].status
      BY <1>13, OlderFields DEF HourPasses, DayPasses
    <2> QED
      BY <1>2, <1>13, <2>1, OnceKept DEF HourPasses, DayPasses, Attempting
  <1>14. CASE (\E p \in Phones : Stop(p) \/ Resubscribe(p)) \/ UNCHANGED vars
    BY <1>2, <1>14, OnceKept DEF Stop, Resubscribe, vars, Attempting
  <1> QED
    BY <1>4, <1>5, <1>6, <1>7, <1>8, <1>9, <1>10, <1>11, <1>12, <1>13, <1>14
    DEF Next, CallStep, SweepStep

LEMMA OnceHolds == TypeOK /\ WorkInv /\ Reserved /\ OnceInv => AtMostOnce
  <1> SUFFICES ASSUME TypeOK, WorkInv, Reserved, OnceInv PROVE AtMostOnce
    OBVIOUS
  <1>1. \A c \in Calls : Swept(c) => ~Active(c)
    BY DEF WorkInv, Worked, Active
  <1>2. faults \intersect Harmful = {} => \A c \in Calls : texts[c] <= 1
    BY DEF OnceInv
  <1> QED
    BY <1>1, <1>2 DEF AtMostOnce, Reserved, Harmful

\* One worker per row and one text per row, however calls and sweeps overlap,
\* fail, throw and are retried.
THEOREM OneTextPerRow == Spec => []AtMostOnce
  <1> QED
    BY Typing, WorkInit, WorkStep, OnceInit, ReservedStep, OnceStep, OnceHolds, PTL DEF Spec

-----------------------------------------------------------------------------
(* STOP. *)

\* A call past its look at the opt-outs, and the sweep with a row in hand.
Past == {"create", "cooldown", "caps"} \union Sending

MayText(c) == To(c) \notin optOut \/ c \in late

StopInv ==
    \A c \in Calls : /\ at[c] \in Past => MayText(c) \/ Kind(c) = "confirmation"
                     /\ sweep.row = c => MayText(c)

LEMMA StopInit == Init => StopInv
  BY CallsFinite DEF Init, StopInv, Past, Sending, NoSweep

LEMMA StopStep == TypeOK /\ WorkInv /\ StopInv /\ [Next]_vars => StopInv'
  <1> SUFFICES ASSUME TypeOK, WorkInv, StopInv, [Next]_vars PROVE StopInv'
    OBVIOUS
  <1>1. ASSUME NEW c \in Calls, Call(c) PROVE StopInv'
    <2>1. /\ sweep' = sweep /\ optOut' = optOut /\ late' = late
          /\ \A d \in Calls \ {c} : at'[d] = at[d] /\ asked'[d] = asked[d]
      BY <1>1 DEF Call, TypeOK
    <2>2. at'[c] \notin Past /\ sweep.row # c
      BY <1>1 DEF Call, Past, Sending, TypeOK, WorkInv, Worked, Swept
    <2> QED
      BY <2>1, <2>2 DEF StopInv, MayText, To, Kind
  <1>2. ASSUME NEW c \in Calls, CheckOptOut(c) PROVE StopInv'
    <2>1. /\ sweep' = sweep /\ optOut' = optOut /\ late' = late \ {c} /\ asked' = asked
          /\ \A d \in Calls \ {c} : at'[d] = at[d]
      BY <1>2 DEF CheckOptOut, Leave, TypeOK
    <2>2. sweep.row # c
      BY <1>2 DEF CheckOptOut, WorkInv, Worked, Swept
    <2>3. at'[c] \in Past => To(c) \notin optOut \/ Kind(c) = "confirmation"
      BY <1>2 DEF CheckOptOut, OptedOut, Leave, Past, Sending, TypeOK
    <2> QED
      BY <2>1, <2>2, <2>3 DEF StopInv, MayText, To, Kind
  <1>3. ASSUME NEW c \in Calls, Create(c) \/ CheckCooldown(c) \/ CheckCaps(c) PROVE StopInv'
    <2>1. /\ sweep' = sweep /\ optOut' = optOut /\ late' = late /\ asked' = asked
          /\ \A d \in Calls : at'[d] \in Past => at[d] \in Past
      BY <1>3 DEF Create, CheckCooldown, CheckCaps, Leave, TypeOK, Past, Sending
    <2> QED
      BY <2>1 DEF StopInv, MayText, To, Kind
  <1>4. ASSUME NEW c \in Calls,
               Attempt(c) \/ SendText(c) \/ RecordSent(c) \/ RecordFailed(c)
        PROVE StopInv'
    <2>1. optOut' = optOut /\ late' = late /\ asked' = asked
      BY <1>4 DEF Attempt, SendText, RecordSent, RecordFailed
    <2>2. PICK from \in {"attempt", "send", "sent", "failed"},
               to \in {"send", "sent", "failed", "done"} : Attempting(c, from) /\ Goto(c, to)
      BY <1>4 DEF Attempt, SendText, RecordSent, RecordFailed
    <2>3. \A d \in Calls : at'[d] \in Past => at[d] \in Past
      BY <2>2, GotoEffect DEF TypeOK, Past, Sending
    <2>4. \A d \in Calls : sweep'.row = d => sweep.row = d
      BY <2>2, GotoEffect, CallsFinite
    <2> QED
      BY <2>1, <2>3, <2>4 DEF StopInv, MayText, To, Kind
  <1>5. ASSUME NEW c \in Calls, Throw(c) \/ Ageing(c) PROVE StopInv'
    <2>1. /\ sweep' = sweep /\ optOut' = optOut /\ late' = late /\ asked' = asked
          /\ \A d \in Calls : at'[d] \in Past => at[d] \in Past
      BY <1>5 DEF Throw, Ageing, Leave, TypeOK, Past, Sending
    <2> QED
      BY <2>1 DEF StopInv, MayText, To, Kind
  <1>6. CASE StartSweep \/ EndSweep \/ SweepThrow
    <2>1. sweep'.row = None
      <3>1. CASE StartSweep
        BY <3>1 DEF StartSweep, NoSweep
      <3>2. CASE EndSweep \/ SweepThrow
        BY <3>2 DEF EndSweep, SweepThrow, NoSweep
      <3> QED
        BY <1>6, <3>1, <3>2
    <2>2. optOut' = optOut /\ late' = late /\ asked' = asked /\ at' = at
      BY <1>6 DEF StartSweep, EndSweep, SweepThrow
    <2> QED
      BY <2>1, <2>2, CallsFinite DEF StopInv, MayText, To, Kind
  <1>7. ASSUME NEW c \in Calls, SweepOptOut(c) PROVE StopInv'
    <2>1. /\ optOut' = optOut /\ late' = late \ {c} /\ asked' = asked /\ at' = at
      BY <1>7 DEF SweepOptOut
    <2>2. at[c] = "over" /\ sweep.row = None
      <3>1. Worked(c) /\ Swept(c) /\ sweep.at = "next"
        BY <1>7 DEF SweepOptOut, WorkInv, Swept
      <3> QED
        BY <3>1 DEF Worked, WorkInv
    <2>3. at'[c] \notin Past
      BY <2>1, <2>2 DEF Past, Sending
    <2>4. sweep'.row = None \/ (sweep'.row = c /\ To(c) \notin optOut)
      <3>1. CASE sweep' = RowDropped(c)
        BY <2>2, <3>1, SweepFields
      <3>2. CASE To(c) \notin optOut /\ sweep' = RowPicked(c)
        BY <3>2, SweepFields
      <3> QED
        BY <1>7, <3>1, <3>2 DEF SweepOptOut
    <2>5. ASSUME NEW d \in Calls \ {c}
          PROVE  /\ at'[d] \in Past => MayText(d)' \/ Kind(d)' = "confirmation"
                 /\ sweep'.row # d
      BY <2>1, <2>4, <2>5, CallsFinite DEF StopInv, MayText, To, Kind
    <2>6. sweep'.row = c => MayText(c)'
      BY <2>1, <2>4, CallsFinite DEF MayText, To
    <2> QED
      BY <2>3, <2>5, <2>6 DEF StopInv
  <1>8. ASSUME NEW c \in Calls, SweepCaps(c) PROVE StopInv'
    <2>1. /\ optOut' = optOut /\ late' = late /\ asked' = asked /\ at' = at
          /\ sweep'.row \in {None, sweep.row}
      BY <1>8, SweepFields DEF SweepCaps
    <2> QED
      BY <2>1, CallsFinite DEF StopInv, MayText, To, Kind
  <1>9. CASE HourPasses \/ DayPasses \/ UNCHANGED vars
    BY <1>9 DEF HourPasses, DayPasses, vars, StopInv, MayText, To, Kind
  <1>10. ASSUME NEW p \in Phones, Stop(p) \/ Resubscribe(p) PROVE StopInv'
    BY <1>10 DEF Stop, Resubscribe, StopInv, MayText, To, Kind
  <1>11. CASE Crash
    BY <1>11, CallsFinite DEF Crash, NoSweep, StopInv, MayText, To, Kind, Past, Sending, TypeOK
  <1> QED
    BY <1>1, <1>2, <1>3, <1>4, <1>5, <1>6, <1>7, <1>8, <1>9, <1>10, <1>11
    DEF Next, CallStep, SweepStep

\* Only a worker about to send lets a text leave.
LEMMA TextIsSent ==
    ASSUME TypeOK, [Next]_vars, NEW c \in Calls, texts'[c] > texts[c]
    PROVE  Attempting(c, "send")
  <1>1. PICK d \in Calls : SendText(d)
    <2> SUFFICES ASSUME \A d \in Calls : ~SendText(d) PROVE texts' = texts
      BY DEF TypeOK
    <2>1. ASSUME NEW d \in Calls, Call(d) \/ CallStep(d) \/ Throw(d) \/ Ageing(d)
          PROVE  texts' = texts
      BY <2>1 DEF Call, CallStep, CheckOptOut, Create, CheckCooldown, CheckCaps, Attempt,
                  RecordSent, RecordFailed, Throw, Ageing
    <2>2. CASE SweepStep \/ SweepThrow
      BY <2>2 DEF SweepStep, StartSweep, EndSweep, SweepOptOut, SweepCaps, SweepThrow
    <2> QED
      BY <2>1, <2>2 DEF Next, HourPasses, DayPasses, Stop, Resubscribe, Crash, vars
  <1>2. c = d
    BY <1>1 DEF SendText, TypeOK
  <1> QED
    BY <1>1, <1>2 DEF SendText

\* A phone that opted out is texted by those alone whose look at the opt-outs
\* came before its STOP, and by the confirmation of the STOP.
THEOREM StopIsRespected == Spec => StopRespected
  <1>1. TypeOK /\ StopInv /\ [Next]_vars =>
          [\A c \in Calls : texts'[c] > texts[c] =>
              To(c) \notin optOut \/ c \in late \/ Kind(c) = "confirmation"]_vars
    <2> SUFFICES ASSUME TypeOK, StopInv, [Next]_vars, NEW c \in Calls, texts'[c] > texts[c]
                 PROVE  MayText(c) \/ Kind(c) = "confirmation"
      BY DEF MayText
    <2>1. Attempting(c, "send")
      BY TextIsSent
    <2> QED
      BY <2>1 DEF StopInv, Attempting, Past, Sending
  <1> QED
    BY <1>1, Typing, WorkInit, WorkStep, StopInit, StopStep, PTL DEF Spec, StopRespected

-----------------------------------------------------------------------------
(* The caps. *)

HourBound == IF HourlyCap = 0 THEN 1 ELSE HourlyCap

\* The worker of row c is past its look at the caps, and they leave room for it.
Sender(c) == Attempting(c, "attempt") \/ Attempting(c, "send")
                \/ Attempting(c, "sent") \/ Attempting(c, "failed")
Room(c)   == IF c \in Ai
             THEN Cardinality(InHour(Ai)) < QaCap /\ Cardinality(InDay(Ai)) < QaDailyCap
             ELSE /\ Cardinality(InHour(Calls \ Ai)) < HourBound
                  /\ Cardinality(InDay(Calls \ Ai)) < DailyCap

\* As long as checks did not overlap there is one sender at most, with room.
CapsInv ==
    /\ CapsHold
    /\ ~raced => \A c \in Calls : Sender(c) => Room(c) /\ \A d \in Calls \ {c} : ~Sender(d)

LEMMA CardKept ==
    ASSUME NEW S \in SUBSET Calls, NEW T \in SUBSET S
    PROVE  /\ Cardinality(S) \in Nat /\ Cardinality(T) \in Nat
           /\ Cardinality(T) <= Cardinality(S)
  BY CallsFinite, FS_Subset, FS_CardinalityType

LEMMA CardAdd ==
    ASSUME NEW S \in SUBSET Calls, NEW c \in Calls, NEW T \in SUBSET (S \union {c})
    PROVE  /\ Cardinality(S) \in Nat /\ Cardinality(T) \in Nat
           /\ Cardinality(T) <= Cardinality(S) + 1
  <1>1. IsFiniteSet(S) /\ IsFiniteSet(S \union {c})
    BY CallsFinite, FS_Subset
  <1>2. Cardinality(S \union {c}) \in {Cardinality(S), Cardinality(S) + 1}
    BY <1>1, FS_AddElement
  <1>3. Cardinality(S) \in Nat
    BY <1>1, FS_CardinalityType
  <1>4. Cardinality(T) <= Cardinality(S \union {c}) /\ Cardinality(T) \in Nat
    BY <1>1, FS_Subset, FS_CardinalityType
  <1> QED
    BY <1>2, <1>3, <1>4

\* A step after which row d counts no more than before.
NoNewer(d) ==
    row'[d].status = "sent" =>
        /\ row[d].status = "sent" /\ asked'[d] = asked[d]
        /\ row'[d].sent = "hour" => row[d].sent = "hour"
        /\ row'[d].sent \in {"hour", "day"} => row[d].sent \in {"hour", "day"}

LEMMA CountsKept ==
    ASSUME \A d \in Calls : NoNewer(d)
    PROVE  /\ Cardinality(InHour(Ai))' <= Cardinality(InHour(Ai))
           /\ Cardinality(InDay(Ai))' <= Cardinality(InDay(Ai))
           /\ Cardinality(InHour(Calls \ Ai))' <= Cardinality(InHour(Calls \ Ai))
           /\ Cardinality(InDay(Calls \ Ai))' <= Cardinality(InDay(Calls \ Ai))
  <1>1. /\ InHour(Ai)' \subseteq InHour(Ai) /\ InDay(Ai)' \subseteq InDay(Ai)
        /\ InHour(Calls \ Ai)' \subseteq InHour(Calls \ Ai)
        /\ InDay(Calls \ Ai)' \subseteq InDay(Calls \ Ai)
    BY DEF NoNewer, InHour, InDay, Sent, Ai, Stored, Kind
  <1>2. /\ InHour(Ai) \subseteq Calls /\ InDay(Ai) \subseteq Calls
        /\ InHour(Calls \ Ai) \subseteq Calls /\ InDay(Calls \ Ai) \subseteq Calls
    BY DEF InHour, InDay, Sent, Ai
  <1> QED
    BY <1>1, <1>2, CardKept

\* A text is recorded: the caps of its own kind count one more.
LEMMA CountsAdd ==
    ASSUME NEW c \in Calls, asked' = asked, \A d \in Calls \ {c} : row'[d] = row[d]
    PROVE  /\ c \in Ai =>
               /\ Cardinality(InHour(Ai))' <= Cardinality(InHour(Ai)) + 1
               /\ Cardinality(InDay(Ai))' <= Cardinality(InDay(Ai)) + 1
               /\ Cardinality(InHour(Calls \ Ai))' <= Cardinality(InHour(Calls \ Ai))
               /\ Cardinality(InDay(Calls \ Ai))' <= Cardinality(InDay(Calls \ Ai))
           /\ c \notin Ai =>
               /\ Cardinality(InHour(Ai))' <= Cardinality(InHour(Ai))
               /\ Cardinality(InDay(Ai))' <= Cardinality(InDay(Ai))
               /\ Cardinality(InHour(Calls \ Ai))' <= Cardinality(InHour(Calls \ Ai)) + 1
               /\ Cardinality(InDay(Calls \ Ai))' <= Cardinality(InDay(Calls \ Ai)) + 1
  <1>1. Ai' = Ai
    BY DEF Ai, Stored, Kind
  <1>2. ASSUME NEW S \in SUBSET Calls
        PROVE  /\ InHour(S) \subseteq Calls /\ InDay(S) \subseteq Calls
               /\ {d \in S : row'[d].status = "sent" /\ row'[d].sent = "hour"}
                    \subseteq InHour(S) \union {c}
               /\ {d \in S : row'[d].status = "sent" /\ row'[d].sent \in {"hour", "day"}}
                    \subseteq InDay(S) \union {c}
               /\ c \notin S =>
                  /\ {d \in S : row'[d].status = "sent" /\ row'[d].sent = "hour"} \subseteq InHour(S)
                  /\ {d \in S : row'[d].status = "sent" /\ row'[d].sent \in {"hour", "day"}}
                       \subseteq InDay(S)
    BY DEF InHour, InDay, Sent
  <1>3. /\ InHour(Ai)' = {d \in Ai : row'[d].status = "sent" /\ row'[d].sent = "hour"}
        /\ InDay(Ai)' = {d \in Ai : row'[d].status = "sent" /\ row'[d].sent \in {"hour", "day"}}
        /\ InHour(Calls \ Ai)'
             = {d \in Calls \ Ai : row'[d].status = "sent" /\ row'[d].sent = "hour"}
        /\ InDay(Calls \ Ai)'
             = {d \in Calls \ Ai : row'[d].status = "sent" /\ row'[d].sent \in {"hour", "day"}}
    BY <1>1 DEF InHour, InDay, Sent
  <1>4. Ai \in SUBSET Calls /\ Calls \ Ai \in SUBSET Calls
    BY DEF Ai
  <1>5. CASE c \in Ai
    BY <1>2, <1>3, <1>4, <1>5, CardKept, CardAdd
  <1>6. CASE c \notin Ai
    BY <1>2, <1>3, <1>4, <1>6, CardKept, CardAdd
  <1> QED
    BY <1>5, <1>6

LEMMA CountsType ==
    /\ Cardinality(InHour(Ai)) \in Nat /\ Cardinality(InDay(Ai)) \in Nat
    /\ Cardinality(InHour(Calls \ Ai)) \in Nat /\ Cardinality(InDay(Calls \ Ai)) \in Nat
    /\ Cardinality(InHour(Ai))' \in Nat /\ Cardinality(InDay(Ai))' \in Nat
    /\ Cardinality(InHour(Calls \ Ai))' \in Nat /\ Cardinality(InDay(Calls \ Ai))' \in Nat
  <1>1. ASSUME NEW S \in SUBSET Calls PROVE Cardinality(S) \in Nat
    BY <1>1, CardKept
  <1>2. /\ InHour(Ai) \subseteq Calls /\ InDay(Ai) \subseteq Calls
        /\ InHour(Calls \ Ai) \subseteq Calls /\ InDay(Calls \ Ai) \subseteq Calls
        /\ InHour(Ai)' \subseteq Calls /\ InDay(Ai)' \subseteq Calls
        /\ InHour(Calls \ Ai)' \subseteq Calls /\ InDay(Calls \ Ai)' \subseteq Calls
    BY DEF InHour, InDay, Sent, Ai
  <1> QED
    BY <1>1, <1>2

\* A step that records no text and lets no worker past the caps.
LEMMA CapsKept ==
    ASSUME CapsInv, \A d \in Calls : NoNewer(d), raced' = raced,
           \A d \in Calls : Sender(d)' => Sender(d) /\ asked'[d] = asked[d]
    PROVE  CapsInv'
  <1>1. ASSUME ~raced' PROVE CapsHold'
    BY <1>1, CountsKept, CountsType, Caps DEF CapsInv, CapsHold
  <1>2. ASSUME ~raced', NEW c \in Calls, Sender(c)'
        PROVE  Room(c)' /\ \A d \in Calls \ {c} : ~Sender(d)'
    <2>1. Room(c) /\ \A d \in Calls \ {c} : ~Sender(d)
      BY <1>2 DEF CapsInv
    <2>2. (c \in Ai)' <=> c \in Ai
      BY <1>2 DEF Ai, Stored, Kind
    <2> QED
      BY <1>2, <2>1, <2>2, CountsKept, CountsType, Caps DEF Room, HourBound
  <1>3. raced' => CapsHold'
    BY DEF CapsHold
  <1> QED
    BY <1>1, <1>2, <1>3 DEF CapsInv

\* Past its caps, a worker with nobody else past his.
LEMMA CapsChecked ==
    ASSUME TypeOK, CapsInv, NEW c \in Calls, row' = row, asked' = asked, raced' = Raced,
           ~Capped(To(c), Kind(c)) \/ ~Capped(To(c), Stored(c)),
           \A d \in Calls \ {c} : Sender(d)' => Sender(d)
    PROVE  CapsInv'
  <1>1. ASSUME NEW d \in Calls, Sender(d) PROVE Raced
    BY <1>1 DEF Sender, Attempting, Raced, Sending
  <1>2. Room(c)
    <2>1. CASE c \in Ai
      <3>1. Kind(c) = "ai" /\ Stored(c) = "ai"
        BY <2>1 DEF Ai, Stored
      <3> QED
        BY <2>1, <3>1, CountsType, Caps DEF Room, Capped
    <2>2. CASE c \notin Ai
      <3>1. Kind(c) # "ai" /\ Stored(c) # "ai"
        BY <2>2 DEF Ai, Stored
      <3>2. Effective(Kind(c)) <= HourBound /\ Effective(Stored(c)) <= HourBound
        BY Caps DEF Effective, HourBound
      <3>3. Effective(Kind(c)) \in Nat /\ Effective(Stored(c)) \in Nat /\ HourBound \in Nat
        BY Caps DEF Effective, HourBound
      <3> QED
        BY <2>2, <3>1, <3>2, <3>3, CountsType, Caps DEF Room, Capped
    <2> QED
      BY <2>1, <2>2
  <1>3. Ai' = Ai /\ (raced => Raced)
    BY DEF Ai, Stored, Kind, Raced
  <1>4. /\ InHour(Ai)' = InHour(Ai) /\ InDay(Ai)' = InDay(Ai)
        /\ InHour(Calls \ Ai)' = InHour(Calls \ Ai) /\ InDay(Calls \ Ai)' = InDay(Calls \ Ai)
    BY <1>3 DEF InHour, InDay, Sent
  <1>5. CapsHold'
    BY <1>3, <1>4 DEF CapsInv, CapsHold
  <1>6. Room(c)'
    BY <1>2, <1>3, <1>4 DEF Room
  <1> QED
    BY <1>1, <1>5, <1>6 DEF CapsInv

\* The text of the only sender is recorded.
LEMMA CapsRecorded ==
    ASSUME TypeOK, WorkInv, CapsInv, NEW c \in Calls, asked' = asked, raced' = raced,
           \A d \in Calls \ {c} : row'[d] = row[d],
           Attempting(c, "sent"), Goto(c, "done")
    PROVE  CapsInv'
  <1>1. ~Sender(c)' /\ \A d \in Calls \ {c} : Sender(d)' => Sender(d)
    BY OthersKept DEF Sender
  <1>2. Sender(c)
    BY DEF Sender
  <1>3. ASSUME ~raced PROVE Room(c) /\ \A d \in Calls \ {c} : ~Sender(d)
    BY <1>2, <1>3 DEF CapsInv
  <1>4. ASSUME ~raced PROVE CapsHold'
    <2>1. HourBound \in Nat
      BY Caps DEF HourBound
    <2>2. CASE c \in Ai
      BY <1>3, <1>4, <2>1, <2>2, CountsAdd, CountsType, Caps DEF Room, CapsInv, CapsHold
    <2>3. CASE c \notin Ai
      <3>1. Cardinality(InHour(Calls \ Ai))' <= HourBound
        BY <1>3, <1>4, <2>1, <2>3, CountsAdd, CountsType DEF Room
      <3> QED
        BY <1>3, <1>4, <2>3, <3>1, CountsAdd, CountsType, Caps
        DEF Room, CapsInv, CapsHold, HourBound
    <2> QED
      BY <2>2, <2>3
  <1>5. raced => CapsHold'
    BY DEF CapsHold
  <1> QED
    BY <1>1, <1>3, <1>4, <1>5 DEF CapsInv

LEMMA CapsInit == Init => CapsInv
  <1> SUFFICES ASSUME Init PROVE CapsInv
    OBVIOUS
  <1>1. Sent(Ai) = {} /\ Sent(Calls \ Ai) = {}
    BY DEF Init, Sent, NoRow, Ai
  <1>2. /\ InHour(Ai) = {} /\ InDay(Ai) = {}
        /\ InHour(Calls \ Ai) = {} /\ InDay(Calls \ Ai) = {}
    BY <1>1 DEF InHour, InDay
  <1>3. Cardinality({}) = 0
    BY FS_EmptySet
  <1>4. CapsHold
    BY <1>2, <1>3, Caps DEF CapsHold
  <1>5. \A c \in Calls : ~Sender(c)
    BY DEF Init, Sender, Attempting, NoSweep
  <1> QED
    BY <1>4, <1>5 DEF CapsInv

\* A row that is not sent, or is as it was, counts no more than before.
LEMMA NoNewerRows ==
    ASSUME NEW d \in Calls,
           \/ row'[d].status # "sent"
           \/ row'[d] = row[d] /\ asked'[d] = asked[d]
    PROVE  NoNewer(d)
  BY DEF NoNewer

\* attemptSend, whoever runs it.
LEMMA CapsAttempt ==
    ASSUME TypeOK, WorkInv, CapsInv, NEW c \in Calls,
           Attempt(c) \/ SendText(c) \/ RecordSent(c) \/ RecordFailed(c)
    PROVE  CapsInv'
  <1>1. asked' = asked /\ raced' = raced /\ \A d \in Calls \ {c} : row'[d] = row[d]
    BY DEF Attempt, SendText, RecordSent, RecordFailed, TypeOK
  <1>2. row[c] \in Row /\ row \in [Calls -> Row]
    BY DEF TypeOK
  <1>3. CASE RecordSent(c) /\ Goto(c, "done")
    BY <1>1, <1>3, CapsRecorded DEF RecordSent
  <1>4. CASE ~(RecordSent(c) /\ Goto(c, "done"))
    <2>1. NoNewer(c)
      <3>1. CASE Attempt(c)
        <4>1. row'[c].status = row[c].status /\ row'[c].sent = row[c].sent
          BY <1>2, <3>1 DEF Attempt, Row
        <4> QED
          BY <1>1, <4>1 DEF NoNewer
      <3>2. CASE RecordFailed(c)
        <4>1. row'[c].status = "failed"
          BY <1>2, <3>2, OutcomeFields DEF RecordFailed
        <4> QED
          BY <4>1, NoNewerRows
      <3>3. CASE SendText(c) \/ RecordSent(c)
        BY <1>1, <1>4, <3>3, NoNewerRows DEF SendText, RecordSent
      <3> QED
        BY <3>1, <3>2, <3>3
    <2>2. \A d \in Calls : NoNewer(d)
      BY <1>1, <2>1, NoNewerRows
    <2>3. PICK from \in {"attempt", "send", "sent", "failed"},
               to \in {"send", "sent", "failed", "done"} : Attempting(c, from) /\ Goto(c, to)
      BY DEF Attempt, SendText, RecordSent, RecordFailed
    <2>4. \A d \in Calls : Sender(d)' => Sender(d)
      BY <2>3, OthersKept DEF Sender
    <2> QED
      BY <1>1, <2>2, <2>4, CapsKept
  <1> QED
    BY <1>3, <1>4

LEMMA CapsStep == TypeOK /\ WorkInv /\ CapsInv /\ [Next]_vars => CapsInv'
  <1> SUFFICES ASSUME TypeOK, WorkInv, CapsInv, [Next]_vars PROVE CapsInv'
    OBVIOUS
  <1>1. ASSUME NEW c \in Calls, Call(c) \/ CheckOptOut(c) \/ Create(c) PROVE CapsInv'
    <2>1. /\ raced' = raced /\ sweep' = sweep
          /\ \A d \in Calls \ {c} : row'[d] = row[d] /\ at'[d] = at[d] /\ asked'[d] = asked[d]
      BY <1>1 DEF Call, CheckOptOut, Create, Leave, TypeOK
    <2>2. Worked(c) /\ at[c] \in {"idle", "opt-out", "create"}
      BY <1>1 DEF WorkInv, Call, CheckOptOut, Create
    <2>3. row'[c].status # "sent"
      BY <1>1, <2>2 DEF Call, CheckOptOut, Create, Worked, NoRow, TypeOK
    <2>4. at'[c] \in {"opt-out", "create", "cooldown", "over"}
      BY <1>1 DEF Call, CheckOptOut, Create, Leave, TypeOK
    <2>5. \A d \in Calls : NoNewer(d)
      BY <2>1, <2>3, NoNewerRows
    <2>6. ~Sender(c)' /\ \A d \in Calls \ {c} : Sender(d)' => Sender(d)
      BY <2>1, <2>2, <2>4 DEF Sender, Attempting, Worked, Swept
    <2> QED
      BY <2>1, <2>5, <2>6, CapsKept
  <1>2. ASSUME NEW c \in Calls, CheckCooldown(c) PROVE CapsInv'
    <2>1. /\ raced' = raced /\ sweep' = sweep /\ asked' = asked
          /\ \A d \in Calls \ {c} : row'[d] = row[d] /\ at'[d] = at[d]
      BY <1>2 DEF CheckCooldown, Leave, TypeOK
    <2>2. at'[c] \in {"caps", "over"}
      BY <1>2 DEF CheckCooldown, Leave, TypeOK
    <2>3. row'[c].status = "failed" \/ row'[c] = row[c]
      BY <1>2, OutcomeFields DEF CheckCooldown, TypeOK
    <2>4. \A d \in Calls : NoNewer(d)
      BY <2>1, <2>3, NoNewerRows
    <2>5. Worked(c) /\ at[c] = "cooldown"
      BY <1>2 DEF CheckCooldown, WorkInv
    <2>6. \A d \in Calls : Sender(d)' => Sender(d)
      BY <2>1, <2>2, <2>5 DEF Sender, Attempting, Worked, Swept
    <2> QED
      BY <2>1, <2>4, <2>6, CapsKept
  <1>3. ASSUME NEW c \in Calls, CheckCaps(c) PROVE CapsInv'
    <2>1. /\ sweep' = sweep /\ asked' = asked
          /\ \A d \in Calls \ {c} : row'[d] = row[d] /\ at'[d] = at[d]
      BY <1>3 DEF CheckCaps, Leave, TypeOK
    <2>2. Worked(c) /\ at[c] = "caps"
      BY <1>3 DEF CheckCaps, WorkInv
    <2>3. CASE Capped(To(c), Kind(c))
      <3>1. row'[c].status = "deferred" /\ at'[c] = "over" /\ raced' = raced
        BY <1>3, <2>3, OutcomeFields DEF CheckCaps, Leave, TypeOK
      <3>2. \A d \in Calls : NoNewer(d)
        BY <2>1, <3>1, NoNewerRows
      <3>3. \A d \in Calls : Sender(d)' => Sender(d)
        BY <2>1, <2>2, <3>1 DEF Sender, Attempting, Worked, Swept
      <3> QED
        BY <2>1, <3>1, <3>2, <3>3, CapsKept
    <2>4. CASE ~Capped(To(c), Kind(c))
      <3>1. row' = row /\ raced' = Raced
        BY <1>3, <2>4 DEF CheckCaps
      <3>2. \A d \in Calls \ {c} : Sender(d)' => Sender(d)
        BY <2>1 DEF Sender, Attempting
      <3> QED
        BY <2>1, <2>4, <3>1, <3>2, CapsChecked
    <2> QED
      BY <2>3, <2>4
  <1>4. ASSUME NEW c \in Calls, Throw(c) \/ Ageing(c) PROVE CapsInv'
    <2>1. /\ sweep' = sweep /\ asked' = asked /\ raced' = raced /\ row' = row
          /\ \A d \in Calls : at'[d] = at[d] \/ at'[d] = "over"
      BY <1>4 DEF Throw, Ageing, Leave, TypeOK
    <2>2. \A d \in Calls : Sender(d)' => Sender(d)
      BY <2>1 DEF Sender, Attempting
    <2> QED
      BY <2>1, <2>2, NoNewerRows, CapsKept
  <1>5. CASE StartSweep \/ EndSweep \/ SweepThrow
    <2>1. sweep'.at \in {"idle", "next"}
      <3>1. CASE StartSweep
        BY <3>1 DEF StartSweep, NoSweep
      <3>2. CASE EndSweep \/ SweepThrow
        BY <3>2 DEF EndSweep, SweepThrow, NoSweep
      <3> QED
        BY <1>5, <3>1, <3>2
    <2>2. asked' = asked /\ raced' = raced /\ row' = row /\ at' = at
      BY <1>5 DEF StartSweep, EndSweep, SweepThrow
    <2>3. \A d \in Calls : Sender(d)' => Sender(d)
      BY <2>1, <2>2 DEF Sender, Attempting
    <2> QED
      BY <2>2, <2>3, NoNewerRows, CapsKept
  <1>6. ASSUME NEW c \in Calls, SweepOptOut(c) PROVE CapsInv'
    <2>1. /\ asked' = asked /\ raced' = raced /\ at' = at /\ sweep.at = "next"
          /\ \A d \in Calls \ {c} : row'[d] = row[d]
      BY <1>6 DEF SweepOptOut, TypeOK
    <2>2. row'[c].status = "failed" \/ row'[c] = row[c]
      <3>1. row' = row \/ row' = [row EXCEPT ![c] = GivenUp(c, "opted out")]
        BY <1>6 DEF SweepOptOut
      <3>2. GivenUp(c, "opted out").status = "failed" /\ row \in [Calls -> Row]
        BY OutcomeFields DEF TypeOK
      <3> QED
        BY <3>1, <3>2
    <2>3. sweep'.at \in {"next", "caps"}
      <3>1. sweep' = RowDropped(c) \/ sweep' = RowPicked(c)
        BY <1>6 DEF SweepOptOut
      <3> QED
        BY <2>1, <3>1, SweepFields
    <2>4. \A d \in Calls : Sender(d)' => Sender(d)
      BY <2>1, <2>3 DEF Sender, Attempting
    <2> QED
      BY <2>1, <2>2, <2>4, NoNewerRows, CapsKept
  <1>7. ASSUME NEW c \in Calls, SweepCaps(c) PROVE CapsInv'
    <2>1. asked' = asked /\ at' = at /\ sweep.at = "caps" /\ sweep.row = c
      BY <1>7 DEF SweepCaps
    <2>2. CASE Capped(To(c), Stored(c))
      <3>1. row' = [row EXCEPT ![c] = Outcome(c, "deferred", "cap")] /\ raced' = raced
        BY <1>7, <2>2 DEF SweepCaps
      <3>2. row'[c].status = "deferred" /\ \A d \in Calls \ {c} : row'[d] = row[d]
        BY <3>1, OutcomeFields DEF TypeOK
      <3>3. sweep'.at = "next"
        BY <1>7, <2>2, SweepFields DEF SweepCaps
      <3>4. \A d \in Calls : Sender(d)' => Sender(d)
        BY <2>1, <3>3 DEF Sender, Attempting
      <3> QED
        BY <2>1, <3>1, <3>2, <3>4, NoNewerRows, CapsKept
    <2>3. CASE ~Capped(To(c), Stored(c))
      <3>1. row' = row /\ raced' = Raced
        BY <1>7, <2>3 DEF SweepCaps
      <3>2. sweep'.row = c
        BY <1>7, <2>1, <2>3, SweepFields DEF SweepCaps
      <3>3. \A d \in Calls \ {c} : Sender(d)' => Sender(d)
        BY <2>1, <3>2 DEF Sender, Attempting
      <3> QED
        BY <2>1, <2>3, <3>1, <3>3, CapsChecked
    <2> QED
      BY <2>2, <2>3
  <1>8. CASE HourPasses \/ DayPasses
    <2>1. \A d \in Calls :
             /\ row'[d].status = row[d].status
             /\ row'[d].sent \in {"hour", "day"} => row[d].sent \in {"hour", "day"}
             /\ row'[d].sent = "hour" => row[d].sent = "hour"
      <3>1. CASE row' = Older({"hour"}, "day")
        BY <3>1, OlderFields
      <3>2. CASE row' = Older({"hour", "day"}, "past")
        BY <3>2, OlderFields
      <3> QED
        BY <1>8, <3>1, <3>2 DEF HourPasses, DayPasses
    <2>3. asked' = asked /\ raced' = raced /\ sweep' = sweep /\ at' = at
      BY <1>8 DEF HourPasses, DayPasses
    <2>4. \A d \in Calls : NoNewer(d)
      BY <2>1, <2>3 DEF NoNewer
    <2>5. \A d \in Calls : Sender(d)' => Sender(d)
      BY <2>3 DEF Sender, Attempting
    <2> QED
      BY <2>3, <2>4, <2>5, CapsKept
  <1>9. CASE (\E p \in Phones : Stop(p) \/ Resubscribe(p)) \/ UNCHANGED vars
    <2>1. asked' = asked /\ raced' = raced /\ sweep' = sweep /\ at' = at /\ row' = row
      BY <1>9 DEF Stop, Resubscribe, vars
    <2>2. \A d \in Calls : Sender(d)' => Sender(d)
      BY <2>1 DEF Sender, Attempting
    <2> QED
      BY <2>1, <2>2, NoNewerRows, CapsKept
  <1>10. CASE Crash
    <2>1. asked' = asked /\ raced' = raced /\ row' = row
      BY <1>10 DEF Crash
    <2>2. \A d \in Calls : ~Sender(d)'
      BY <1>10 DEF Crash, Sender, Attempting, NoSweep
    <2> QED
      BY <2>1, <2>2, NoNewerRows, CapsKept
  <1> QED
    BY <1>1, <1>2, <1>3, <1>4, <1>5, <1>6, <1>7, <1>8, <1>9, <1>10, CapsAttempt
    DEF Next, CallStep, SweepStep

\* The hourly and daily caps hold, for texts and for AI answers, until two
\* workers were past their checks at a time.
THEOREM CapsAreKept == Spec => []CapsHold
  <1>1. CapsInv => CapsHold
    BY DEF CapsInv
  <1> QED
    BY <1>1, Typing, WorkInit, WorkStep, CapsInit, CapsStep, PTL DEF Spec
=============================================================================
