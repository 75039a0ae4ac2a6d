---------------------------- MODULE ZillowCycle ----------------------------
(***************************************************************************)
(* One Zillow cycle on the Text-Em-All channel in direct-API mode, and the *)
(* tables it works on: import, gate, ambiguity resolution, then a leads    *)
(* and an applicants segment, each build / upsert / send / record / flip.  *)
(* Every await of the code is a boundary between two actions, because STOP *)
(* and survey handlers run there and the process can die there.            *)
(*                                                                         *)
(* The cycle mutex (module CycleMutex) lets one cycle run at a time, so    *)
(* the running cycle is one program counter.  A lead stands for one phone. *)
(***************************************************************************)
EXTENDS Naturals, Sequences

CONSTANTS
    Leads,           \* renters the scrape can find, one phone each
    Owner,           \* textemall.always_include_phone
    PollSlots,       \* minute slots of fast-poll cycles
    HourSlots,       \* hour slots of scheduled and manual runs
    DailyKey,        \* the once-a-day broadcast key of the legacy hourly mode
    RunHours,        \* BOOLEAN: zillow.auto_run_hours is set
    ApplicantRelay,  \* BOOLEAN: textemall.applicant_relay_enabled
    Faults,          \* the faults the environment may inject
    MaxFaults,       \* and how many of them in one behaviour
    ProbeMax         \* how many of the newest broadcasts the probe lists

FaultKinds == { "login",      \* import: Safari is logged out of Zillow
                "import",     \* import: any other failure, or import busy
                "needs_login",\* send: Safari is logged out of Text-Em-All
                "unsent",     \* send: failed before the final POST
                "lost",       \* send: reported ambiguous, nothing went out
                "landed",     \* send: reported ambiguous, the texts went out
                "partial",    \* send: accepted, but some contacts were not added
                "landed_partial", \* send: both of the above at once
                "probe",      \* probe: failed or logged out
                "details",    \* probe: a recipient list could not be read
                "flip",       \* the lead update after a send was rejected
                "db",         \* any other database call threw
                "crash",      \* the process died
                "force",      \* not faults but the operator: forces a run,
                "reimport",   \* imports by hand,
                "resend" }    \* sends one lead the link by hand

Segments == {"leads", "appl"}
Slots    == PollSlots \union HourSlots \union {DailyKey}
Keys     == Slots \X Segments
Phones   == Leads \union {Owner}

ASSUME SlotsDisjoint ==
    /\ PollSlots \intersect HourSlots = {}
    /\ DailyKey \notin PollSlots \union HourSlots
ASSUME OwnerIsNoLead == Owner \notin Leads
ASSUME Switches == RunHours \in BOOLEAN /\ ApplicantRelay \in BOOLEAN
ASSUME FaultBudget == Faults \subseteq FaultKinds /\ MaxFaults \in Nat
ASSUME ProbeWindow == ProbeMax \in Nat

VARIABLES
    lead,      \* ZillowLead rows: status, applicationCompleted, applicantSentBatchId
    optOut,    \* SmsOptOut: phones
    batch,     \* TextEmAllBatch rows by slot and segment
    row,       \* ZillowAutoRun status of each hour slot
    tea,       \* broadcasts Text-Em-All really sent, oldest first
    pc,        \* where the running cycle is ("idle": none runs)
    run,       \* its CycleContext: slot, trigger, force
    seg,       \* the segment it is in, or that of the batch it promotes
    csv,       \* phones of the CSV it built
    reply,     \* what sendBroadcastViaApi returned
    flip,      \* phones of the lead update that follows a send or a promotion
    queue,     \* ambiguous batches the resolver still has to settle
    taken,     \* broadcasts the resolver can no longer match
    errs,      \* sawNeedsLogin and segErrors
    stopping,  \* STOP handlers between their two writes
    late,      \* opt-outs recorded since the running cycle built its CSV
    ingest,    \* ingestLeads: for whom, the leads it is done with, and the one
               \* it has read as still new and not yet written
    hand,      \* sendSurveyToLead for each lead: what it still has to do
    linked,    \* by lead: 1 + the broadcasts sent before its first link by hand
    unseen,    \* leads whose link by hand a cycle may be unable to see
    faults     \* faults injected so far (bound MaxFaults)

tables == <<lead, optOut, batch, row, tea>>
memory == <<pc, run, seg, csv, reply, flip, queue, taken, errs>>
operator == <<ingest, hand, linked, unseen>>
vars   == <<tables, memory, stopping, late, operator, faults>>

LeadRow  == [status: {"absent", "new", "invited", "applied", "opted_out"},
             completed: BOOLEAN, marked: BOOLEAN]
BatchRow == [status: {"none", "built", "sent", "failed", "ambiguous"},
             phones: SUBSET Phones, since: Nat]
Context  == [slot: Slots, trigger: {"poll", "hour"}, force: BOOLEAN]
Reply    == [kind: {"none", "ok", "needs_login", "unsent", "ambiguous"},
             added: SUBSET Phones]
Labels   == {"idle", "import", "gate", "probe", "resolve", "csv", "upsert",
             "send", "record", "flip", "mark", "finish"}

NoRun   == [slot |-> DailyKey, trigger |-> "poll", force |-> FALSE]
NoReply == [kind |-> "none", added |-> {}]
NoIngest == [by |-> "nobody", done |-> {}, held |-> {}]

-----------------------------------------------------------------------------
(* Reading the tables. *)

Fault(f) == f \in Faults /\ faults < MaxFaults /\ faults' = faults + 1

\* The broadcast idempotence key of the running cycle.
BroadcastSlot == IF run.trigger = "poll" \/ RunHours THEN run.slot ELSE DailyKey
BatchKey      == <<BroadcastSlot, seg>>

Ambiguous   == {k \in Keys : batch[k].status = "ambiguous"}

\* Mutants: a dedupe that forgets the quarantine; one that also drops every
\* phone of a batch that failed.
AlreadySent_NoQuarantine ==
    UNION {batch[k].phones : k \in {j \in Keys : batch[j].status = "sent"}}
AlreadySent_AnyBatch ==
    UNION {batch[k].phones : k \in {j \in Keys : batch[j].status # "none"}}

AlreadySent == UNION {batch[k].phones :
                        k \in {j \in Keys : batch[j].status \in {"sent", "ambiguous"}}}

\* Mutant: the opt-out filter is missing.
Rows_NoOptOut(sg) ==
    IF sg = "leads"
    THEN {l \in Leads \ AlreadySent :
            lead[l].status = "new" /\ ~(ApplicantRelay /\ lead[l].completed)}
    ELSE {l \in Leads : lead[l].status # "absent" /\ lead[l].completed /\ ~lead[l].marked}

\* The rows buildTextEmAllCsv selects, before it appends the owner's number.
Rows(sg) ==
    IF sg = "leads"
    THEN {l \in Leads \ (optOut \union AlreadySent) :
            lead[l].status = "new" /\ ~(ApplicantRelay /\ lead[l].completed)}
    ELSE {l \in Leads \ optOut :
            lead[l].status # "absent" /\ lead[l].completed /\ ~lead[l].marked}

\* The broadcasts that prove batch k was sent: listed by the probe, not
\* created before the batch, with exactly its recipients.
Matches(k) == {i \in DOMAIN tea : /\ i + ProbeMax > Len(tea)
                                  /\ i \notin taken
                                  /\ i > batch[k].since
                                  /\ batch[k].phones # {}
                                  /\ tea[i].phones = batch[k].phones}

\* The update of the selected leads once segment sg is known to be sent.
Flipped(sg, ids) ==
    [l \in Leads |-> IF l \notin ids THEN lead[l]
                     ELSE IF sg = "leads" THEN [lead[l] EXCEPT !.status = "invited"]
                     ELSE [lead[l] EXCEPT !.marked = TRUE]]
Flippable(sg, phones) ==
    {l \in Leads \intersect phones :
        IF sg = "leads" THEN lead[l].status = "new"
        ELSE lead[l].status # "absent" /\ lead[l].completed /\ ~lead[l].marked}

NextSegment == IF seg = "leads" /\ ApplicantRelay
               THEN pc' = "csv" /\ seg' = "appl"
               ELSE pc' = "finish" /\ UNCHANGED seg

-----------------------------------------------------------------------------
(* Starting a cycle. *)

Init ==
    /\ lead = [l \in Leads |-> [status |-> "absent", completed |-> FALSE, marked |-> FALSE]]
    /\ optOut = {}
    /\ batch = [k \in Keys |-> [status |-> "none", phones |-> {}, since |-> 0]]
    /\ row = [h \in HourSlots |-> "none"]
    /\ tea = <<>>
    /\ pc = "idle" /\ run = NoRun /\ seg = "leads" /\ csv = {} /\ reply = NoReply
    /\ flip = {} /\ queue = {} /\ taken = {} /\ errs = {}
    /\ stopping = {} /\ late = {} /\ faults = 0
    /\ ingest = NoIngest /\ hand = [l \in Leads |-> "no"]
    /\ linked = [l \in Leads |-> 0] /\ unseen = {}

\* The cycle's import is its first step; it takes the import flag if that is down.
Begin(context) ==
    /\ pc = "idle"
    /\ ingest' = IF ingest = NoIngest THEN [NoIngest EXCEPT !.by = "cycle"] ELSE ingest
    /\ pc' = "import" /\ run' = context /\ seg' = "leads"
    /\ UNCHANGED <<lead, optOut, batch, tea, csv, reply, flip, queue, taken, errs,
                   stopping, late, hand, linked, unseen>>

\* A poll always has a minute slot of its own; a poll that built no batch
\* leaves no row behind, so its slot stands for any later minute as well.
BeginPoll(s) ==
    /\ \A sg \in Segments : batch[<<s, sg>>].status = "none"
    /\ Begin([slot |-> s, trigger |-> "poll", force |-> FALSE])
    /\ UNCHANGED <<row, faults>>

\* claimSlot: a fresh row, a retryable one, a running one gone stale (its
\* process died, for no cycle runs now), or any done one when forced.
BeginHour(h, force) ==
    /\ IF force THEN Fault("force") ELSE UNCHANGED faults
    /\ row[h] = "done" => force
    /\ row' = [row EXCEPT ![h] = "running"]
    /\ Begin([slot |-> h, trigger |-> "hour", force |-> force])

-----------------------------------------------------------------------------
(* Import and gate. *)

Updated(l, status, completed) ==
    [lead EXCEPT ![l] = [status |-> status, completed |-> lead[l].completed \/ completed,
                         marked |-> lead[l].marked]]

\* One scraped lead, found by a read: a lead not seen before is inserted, one
\* whose status is sticky keeps it, one that is still new is written by the
\* next call.
Ingest(l, completed) ==
    /\ ingest.by # "nobody" /\ ingest.held = {} /\ l \notin ingest.done
    /\ IF lead[l].status = "new"
       THEN ingest' = [ingest EXCEPT !.held = {l}] /\ UNCHANGED lead
       ELSE /\ ingest' = [ingest EXCEPT !.done = @ \union {l}]
            /\ lead' = Updated(l, IF lead[l].status = "absent" THEN "new"
                                  ELSE lead[l].status, completed)
    /\ UNCHANGED <<optOut, batch, row, tea, memory, stopping, late, hand, linked, unseen,
                   faults>>

\* The update by id: the status that was read is written back, whatever a
\* handler or the operator made of it meanwhile.
IngestWrite(l, completed) ==
    /\ l \in ingest.held
    /\ ingest' = [ingest EXCEPT !.held = {}, !.done = @ \union {l}]
    /\ lead' = Updated(l, "new", completed)
    /\ unseen' = IF lead[l].status # "new" /\ linked[l] # 0 THEN unseen \union {l} ELSE unseen
    /\ UNCHANGED <<optOut, batch, row, tea, memory, stopping, late, hand, linked, faults>>

ImportOk ==
    /\ pc = "import" /\ ingest.by = "cycle" /\ ingest.held = {}
    /\ pc' = "gate" /\ ingest' = NoIngest
    /\ UNCHANGED <<tables, run, seg, csv, reply, flip, queue, taken, errs, stopping, late,
                   hand, linked, unseen, faults>>

\* Also when another import has the flag.
ImportFails ==
    /\ pc = "import" /\ pc' = "finish"
    /\ \/ ingest.by # "cycle" /\ errs' = {"failed"} /\ UNCHANGED <<ingest, faults>>
       \/ /\ ingest.by = "cycle" /\ ingest' = NoIngest
          /\ \/ Fault("login")  /\ errs' = {"needs_login"}
             \/ Fault("import") /\ errs' = {"failed"}
    /\ UNCHANGED <<tables, run, seg, csv, reply, flip, queue, taken, stopping, late,
                   hand, linked, unseen>>

\* A key already sent is skipped; every other status is rebuilt.  A legacy
\* run before the broadcast hour stops here too.
Gate ==
    /\ pc = "gate"
    /\ \/ pc' = "finish" /\ batch[BatchKey].status = "sent" /\ ~run.force
       \/ pc' = "finish" /\ BroadcastSlot = DailyKey /\ ~run.force
       \/ pc' = "probe" /\ (batch[BatchKey].status = "sent" => run.force)
    /\ UNCHANGED <<tables, run, seg, csv, reply, flip, queue, taken, errs, stopping,
                   late, faults, operator>>

-----------------------------------------------------------------------------
(* resolveAmbiguousBatches. *)

\* Nothing to resolve, or a probe that failed (the quarantine holds).
SkipResolution ==
    /\ pc = "probe" /\ pc' = "csv"
    /\ \/ Ambiguous = {} /\ UNCHANGED faults
       \/ Ambiguous # {} /\ Fault("probe")
    /\ UNCHANGED <<tables, run, seg, csv, reply, flip, queue, taken, errs, stopping, late, operator>>

\* A recipient list that could not be read comes back empty and matches nothing.
Probe ==
    /\ pc = "probe" /\ pc' = "resolve"
    /\ Ambiguous # {} /\ queue' = Ambiguous
    /\ \/ taken' = {} /\ UNCHANGED faults
       \/ Fault("details") /\ \E i \in DOMAIN tea : taken' = {i}
    /\ UNCHANGED <<tables, run, seg, csv, reply, flip, errs, stopping, late, operator>>

\* A match promotes the batch; its leads are updated by a second call, which
\* may be rejected (the code logs that and carries on).
Promote(k, i) ==
    /\ pc = "resolve" /\ k \in queue /\ flip = {} /\ i \in Matches(k)
    /\ batch' = [batch EXCEPT ![k].status = "sent"]
    /\ taken' = taken \union {i}
    /\ flip' = batch[k].phones /\ seg' = k[2]
    /\ queue' = queue \ {k}
    /\ UNCHANGED <<lead, optOut, row, tea, pc, run, csv, reply, errs, stopping, late, faults, operator>>

PromoteFlip ==
    /\ pc = "resolve" /\ flip # {} /\ flip' = {} /\ seg' = "leads"
    /\ \/ lead' = Flipped(seg, Flippable(seg, flip)) /\ UNCHANGED faults
       \/ Fault("flip") /\ UNCHANGED lead
    /\ UNCHANGED <<optOut, batch, row, tea, pc, run, csv, reply, queue, taken, errs,
                   stopping, late, operator>>

Demote(k) ==
    /\ pc = "resolve" /\ k \in queue /\ flip = {} /\ Matches(k) = {}
    /\ batch' = [batch EXCEPT ![k].status = "failed"]
    /\ queue' = queue \ {k}
    /\ UNCHANGED <<lead, optOut, row, tea, pc, run, seg, csv, reply, flip, taken, errs,
                   stopping, late, faults, operator>>

\* The list is done, or a call threw: that is logged, and what is left of the
\* list stays in quarantine.
Resolved ==
    /\ pc = "resolve" /\ flip = {}
    /\ IF queue = {} THEN UNCHANGED faults ELSE Fault("db")
    /\ pc' = "csv" /\ queue' = {} /\ taken' = {}
    /\ UNCHANGED <<tables, run, seg, csv, reply, flip, errs, stopping, late, operator>>

-----------------------------------------------------------------------------
(* A segment: build, upsert, send, record, flip. *)

\* Only a genuine recipient starts a broadcast, except that a scheduled or
\* manual run also sends the leads message to the owner alone.
BuildCsv ==
    /\ pc = "csv"
    /\ IF Rows(seg) # {} \/ (seg = "leads" /\ run.trigger = "hour")
       THEN pc' = "upsert" /\ csv' = Rows(seg) \union {Owner} /\ UNCHANGED seg
       ELSE NextSegment /\ UNCHANGED csv
    /\ late' = {}
    /\ unseen' = IF seg = "leads" THEN unseen \union {l \in Rows(seg) : hand[l] = "invite"}
                 ELSE unseen
    /\ UNCHANGED <<tables, run, reply, flip, queue, taken, errs, stopping, ingest, hand,
                   linked, faults>>

\* The row keeps its createdAt when the key had one.  A match may be up to a
\* minute older than the row, so the newest broadcast can still count.
Upsert ==
    /\ pc = "upsert" /\ pc' = "send"
    /\ \E since \in {n \in 0..Len(tea) : n + 1 >= Len(tea)} :
          batch' = [batch EXCEPT ![BatchKey] =
                      [status |-> "built", phones |-> csv,
                       since |-> IF @.status = "none" THEN since ELSE @.since]]
    /\ UNCHANGED <<lead, optOut, row, tea, run, seg, csv, reply, flip, queue, taken, errs,
                   stopping, late, faults, operator>>

Sent(phones) == tea' = Append(tea, [seg |-> seg, phones |-> phones])

Send ==
    /\ pc = "send" /\ pc' = "record"
    /\ \/ /\ Sent(csv) /\ reply' = [kind |-> "ok", added |-> csv]
          /\ UNCHANGED faults
       \/ /\ Fault("landed")
          /\ Sent(csv) /\ reply' = [kind |-> "ambiguous", added |-> {}]
       \/ \E added \in SUBSET csv \ {{}, csv} :
             /\ Sent(added)
             /\ \/ Fault("partial") /\ reply' = [kind |-> "ok", added |-> added]
                \/ Fault("landed_partial") /\ reply' = [kind |-> "ambiguous", added |-> {}]
       \/ /\ \/ Fault("needs_login") /\ reply' = [kind |-> "needs_login", added |-> {}]
             \/ Fault("unsent")      /\ reply' = [kind |-> "unsent", added |-> {}]
             \/ Fault("lost")        /\ reply' = [kind |-> "ambiguous", added |-> {}]
          /\ UNCHANGED tea
    /\ UNCHANGED <<lead, optOut, batch, row, run, seg, csv, flip, queue, taken, errs,
                   stopping, late, operator>>

RecordOk ==
    /\ pc = "record" /\ reply.kind = "ok" /\ pc' = "flip"
    /\ batch' = [batch EXCEPT ![BatchKey].status = "sent", ![BatchKey].phones = reply.added]
    /\ UNCHANGED <<lead, optOut, row, tea, run, seg, csv, reply, flip, queue, taken, errs,
                   stopping, late, faults, operator>>

\* Mutant: every failure counts as unsent.
RecordFailure_Unsent ==
    /\ pc = "record" /\ reply.kind # "ok"
    /\ batch' = [batch EXCEPT ![BatchKey].status = "failed"]
    /\ errs' = errs \union {IF reply.kind = "needs_login" THEN "needs_login" ELSE "failed"}
    /\ NextSegment
    /\ UNCHANGED <<lead, optOut, row, tea, run, csv, reply, flip, queue, taken, stopping,
                   late, faults, operator>>

RecordFailure ==
    /\ pc = "record" /\ reply.kind # "ok"
    /\ batch' = [batch EXCEPT ![BatchKey].status =
                   IF reply.kind = "ambiguous" THEN "ambiguous" ELSE "failed"]
    /\ errs' = errs \union {IF reply.kind = "needs_login" THEN "needs_login" ELSE "failed"}
    /\ NextSegment
    /\ UNCHANGED <<lead, optOut, row, tea, run, csv, reply, flip, queue, taken, stopping,
                   late, faults, operator>>

\* The leads to update are read by one call and written by id by the next.
SelectFlip ==
    /\ pc = "flip"
    /\ flip' = Flippable(seg, reply.added)
    /\ IF flip' = {} THEN NextSegment ELSE pc' = "mark" /\ UNCHANGED seg
    /\ UNCHANGED <<tables, run, csv, reply, queue, taken, errs, stopping, late, faults, operator>>

WriteFlip ==
    /\ pc = "mark" /\ flip' = {}
    /\ \/ lead' = Flipped(seg, flip) /\ UNCHANGED faults
       \/ Fault("flip") /\ UNCHANGED lead
    /\ NextSegment
    /\ UNCHANGED <<optOut, batch, row, tea, run, csv, reply, queue, taken, errs, stopping,
                   late, operator>>

\* Any other call that throws ends in the catch of runZillowCycle.
DbError ==
    /\ pc \in {"csv", "upsert", "record", "flip"} /\ Fault("db")
    /\ pc' = "finish" /\ errs' = {"failed"}
    /\ UNCHANGED <<tables, run, seg, csv, reply, flip, queue, taken, stopping, late, operator>>

-----------------------------------------------------------------------------
(* The end of a cycle, and a crash. *)

Forget == /\ pc' = "idle" /\ run' = NoRun /\ seg' = "leads" /\ csv' = {} /\ reply' = NoReply
          /\ flip' = {} /\ queue' = {} /\ taken' = {} /\ errs' = {} /\ late' = {}

Outcome == IF "needs_login" \in errs THEN "needs_login"
           ELSE IF errs # {} THEN "failed" ELSE "done"

Finish ==
    /\ pc = "finish"
    /\ row' = [h \in HourSlots |->
                 IF run.trigger = "hour" /\ h = run.slot THEN Outcome ELSE row[h]]
    /\ Forget
    /\ UNCHANGED <<lead, optOut, batch, tea, stopping, faults, operator>>

Crash ==
    /\ pc # "idle" /\ Fault("crash")
    /\ Forget /\ stopping' = {}
    /\ ingest' = NoIngest /\ hand' = [l \in Leads |-> "no"]
    /\ unseen' = unseen \union {l \in Leads : hand[l] = "invite"}
    /\ UNCHANGED <<tables, linked>>

-----------------------------------------------------------------------------
(* Handlers that run between the awaits of a cycle. *)

\* STOP: upsert the opt-out, then move the lead.
StopOptOut(l) ==
    /\ l \notin stopping \union optOut
    /\ optOut' = optOut \union {l} /\ stopping' = stopping \union {l}
    /\ late' = IF pc \in {"upsert", "send"} THEN late \union {l} ELSE late
    /\ UNCHANGED <<lead, batch, row, tea, memory, faults, operator>>

StopLead(l) ==
    /\ l \in stopping /\ stopping' = stopping \ {l}
    /\ lead' = [lead EXCEPT ![l].status = IF @ \in {"new", "invited"} THEN "opted_out" ELSE @]
    /\ UNCHANGED <<optOut, batch, row, tea, memory, late, faults, operator>>

\* START deletes the opt-out and leaves the lead alone.
Start(l) ==
    /\ l \in optOut \ stopping
    /\ optOut' = optOut \ {l} /\ late' = late \ {l}
    /\ UNCHANGED <<lead, batch, row, tea, memory, stopping, faults, operator>>

\* A submitted survey closes the loop.
Applied(l) ==
    /\ lead[l].status \in {"new", "invited"}
    /\ lead' = [lead EXCEPT ![l].status = "applied"]
    /\ UNCHANGED <<optOut, batch, row, tea, memory, stopping, late, faults, operator>>

-----------------------------------------------------------------------------
(* The operator's import and one-lead sends, by the internal routes: neither *)
(* takes the cycle mutex.                                                    *)

StartImport ==
    /\ ingest = NoIngest /\ Fault("reimport")
    /\ ingest' = [NoIngest EXCEPT !.by = "operator"]
    /\ UNCHANGED <<tables, memory, stopping, late, hand, linked, unseen>>

EndImport ==
    /\ ingest.by = "operator" /\ ingest' = NoIngest
    /\ IF ingest.held = {} THEN UNCHANGED faults ELSE Fault("import")
    /\ UNCHANGED <<tables, memory, stopping, late, hand, linked, unseen>>

\* The lead is read: any but an opted-out one may be sent the link again.
HandRead(l) ==
    /\ hand[l] = "no" /\ Fault("resend")
    /\ lead[l].status \notin {"absent", "opted_out"}
    /\ hand' = [hand EXCEPT ![l] = "send"]
    /\ UNCHANGED <<tables, memory, stopping, late, ingest, linked, unseen>>

Linked(l) == linked' = [linked EXCEPT ![l] = IF @ = 0 THEN Len(tea) + 1 ELSE @]

\* The relay finds an opt-out, sends or defers the link, or reports a failure;
\* a link it calls failed may have left, or leave with the sweep.
HandSend(l) ==
    /\ hand[l] = "send"
    /\ \/ l \in optOut /\ hand' = [hand EXCEPT ![l] = "stop"] /\ UNCHANGED <<linked, unseen>>
       \/ /\ l \notin optOut /\ hand' = [hand EXCEPT ![l] = "invite"] /\ Linked(l)
          /\ unseen' = IF pc \in {"upsert", "send"} /\ seg = "leads" /\ l \in csv
                       THEN unseen \union {l} ELSE unseen
       \/ /\ hand' = [hand EXCEPT ![l] = "no"]
          /\ \/ UNCHANGED <<linked, unseen>>
             \/ l \notin optOut /\ Linked(l) /\ unseen' = unseen \union {l}
    /\ UNCHANGED <<tables, memory, stopping, late, ingest, faults>>

\* The update by id that follows, or its failure.
HandWrite(l) ==
    /\ hand[l] \in {"invite", "stop"} /\ hand' = [hand EXCEPT ![l] = "no"]
    /\ \/ /\ lead' = Updated(l, IF hand[l] = "invite" THEN "invited" ELSE "opted_out", FALSE)
          /\ UNCHANGED <<unseen, faults>>
       \/ Fault("flip") /\ unseen' = unseen \union {l} /\ UNCHANGED lead
    /\ UNCHANGED <<optOut, batch, row, tea, memory, stopping, late, ingest, linked>>

-----------------------------------------------------------------------------
\* applicationCompleted is read only when the applicants segment is on.
ImportStep ==
    \/ \E l \in Leads, completed \in {FALSE, ApplicantRelay} :
          Ingest(l, completed) \/ IngestWrite(l, completed)
    \/ EndImport

CycleStep ==
    \/ ImportOk \/ ImportFails \/ Gate
    \/ SkipResolution \/ Probe \/ PromoteFlip \/ Resolved
    \/ \E k \in Keys : Demote(k) \/ \E i \in DOMAIN tea : Promote(k, i)
    \/ BuildCsv \/ Upsert \/ Send \/ RecordOk \/ RecordFailure \/ SelectFlip \/ WriteFlip
    \/ DbError \/ Finish

Poll    == \E s \in PollSlots : BeginPoll(s)
Hour    == \E h \in HourSlots, force \in BOOLEAN : BeginHour(h, force)
Handler == \E l \in Leads : StopOptOut(l) \/ StopLead(l) \/ Start(l) \/ Applied(l)

Operator == StartImport \/ \E l \in Leads : HandRead(l) \/ HandSend(l) \/ HandWrite(l)

Next == Poll \/ Hour \/ ImportStep \/ CycleStep \/ Crash \/ Handler \/ Operator

Spec == Init /\ [][Next]_vars

\* The poll timer and the running promise chain never stop being scheduled
\* while the process is up; a restarted process arms the timer again.
FairSpec == Spec /\ WF_vars(CycleStep) /\ WF_vars(ImportStep) /\ WF_vars(Poll)
                 /\ \A l \in Leads : WF_vars(StopLead(l))

-----------------------------------------------------------------------------
(* Properties. *)

TypeOK ==
    /\ lead \in [Leads -> LeadRow] /\ optOut \subseteq Leads
    /\ batch \in [Keys -> BatchRow]
    /\ row \in [HourSlots -> {"none", "running", "done", "needs_login", "failed"}]
    /\ tea \in Seq([seg: Segments, phones: SUBSET Phones])
    /\ pc \in Labels /\ run \in Context /\ seg \in Segments /\ csv \subseteq Phones
    /\ reply \in Reply /\ flip \subseteq Phones /\ queue \subseteq Keys
    /\ taken \subseteq Nat /\ errs \subseteq {"needs_login", "failed"}
    /\ stopping \subseteq Leads /\ late \subseteq Leads /\ faults \in 0..MaxFaults
    /\ ingest \in [by: {"nobody", "cycle", "operator"}, done: SUBSET Leads, held: SUBSET Leads]
    /\ hand \in [Leads -> {"no", "send", "invite", "stop"}]
    /\ linked \in [Leads -> Nat] /\ unseen \subseteq Leads

TextedAs(sg, l) == {i \in DOMAIN tea : tea[i].seg = sg /\ l \in tea[i].phones}

\* Nobody gets the leads message twice, whatever failed on the way to
\* recording it (the purpose of the quarantine, textemall-ambiguity.ts), and a
\* lead shown as invited got it, or the link by hand: a promotion on the
\* resolver's evidence is never wrong.  A broadcast follows a link by hand only
\* when the cycle had read the lead before the status was written, when that
\* write or the send failed or the process died, or when an import wrote the old
\* status back.
OneInvitation ==
    \A l \in Leads :
        /\ \A i, j \in TextedAs("leads", l) : i = j
        /\ lead[l].status = "invited" => TextedAs("leads", l) # {} \/ linked[l] # 0
        /\ linked[l] # 0 /\ l \notin unseen => \A i \in TextedAs("leads", l) : i < linked[l]

\* A leads broadcast about to go out names nobody whose earlier batch was
\* sent or is still unresolved: nothing that runs between the CSV build and the
\* send makes the exclusion stale.
QuarantineExcludes ==
    pc \in {"upsert", "send"} /\ seg = "leads" =>
        \A k \in Keys \ {BatchKey} :
            batch[k].status \in {"sent", "ambiguous"} =>
                csv \intersect batch[k].phones \subseteq {Owner}

\* A text reaches an opted-out phone only if the STOP came after the running
\* cycle built its CSV: a STOP recorded before that is always respected.
StopRespected ==
    [][tea' # tea => tea'[Len(tea')].phones \intersect optOut \subseteq late]_vars

\* A lead the lane may text is eventually texted or stops being eligible, and
\* a quarantine ends: no phone is held for ever.
Waiting(l) == /\ lead[l].status = "new" /\ l \notin optOut
              /\ ~lead[l].completed /\ TextedAs("leads", l) = {}
Held(k) == batch[k].status = "ambiguous"
EveryLeadServed ==
    /\ \A l \in Leads : Waiting(l) ~> ~Waiting(l)
    /\ \A k \in Keys : Held(k) ~> ~Held(k)
=============================================================================
