------------------------ MODULE ZillowCycle_proofs -------------------------
(* Theorems about ZillowCycle for every set of leads and slots, every      *)
(* switch and every budget of faults.                                      *)
EXTENDS ZillowCycle, TLAPS

USE DEF Segments, Slots, Keys, Phones, Labels

\* The key of the running segment's batch row is always a key of the table.
LEMMA BatchKeyType == TypeOK => BatchKey \in Keys
  BY DEF TypeOK, BatchKey, BroadcastSlot, Context

LEMMA FaultType == ASSUME TypeOK, NEW f, Fault(f) PROVE faults' \in 0..MaxFaults
  BY FaultBudget DEF TypeOK, Fault

LEMMA NextSegmentType ==
    ASSUME TypeOK, NextSegment PROVE pc' \in Labels /\ seg' \in Segments
  BY DEF TypeOK, NextSegment

LEMMA RowsType == ASSUME NEW sg PROVE Rows(sg) \subseteq Leads \ optOut
  BY DEF Rows

LEMMA FlippedType ==
    ASSUME TypeOK, NEW sg, NEW ids PROVE Flipped(sg, ids) \in [Leads -> LeadRow]
  <1> SUFFICES ASSUME NEW l \in Leads PROVE Flipped(sg, ids)[l] \in LeadRow
    BY DEF Flipped
  <1>1. lead[l] \in LeadRow
    BY DEF TypeOK
  <1> QED
    BY <1>1 DEF Flipped, LeadRow

LEMMA StatusType ==
    ASSUME TypeOK, NEW k \in Keys, NEW st \in {"sent", "failed", "ambiguous"}
    PROVE  [batch EXCEPT ![k].status = st] \in [Keys -> BatchRow]
  <1>1. batch \in [Keys -> BatchRow]
    BY DEF TypeOK
  <1> QED
    BY <1>1 DEF BatchRow

LEMMA LeadStatusType ==
    ASSUME TypeOK, NEW l \in Leads,
           NEW st \in {"absent", "new", "invited", "applied", "opted_out"}
    PROVE  [lead EXCEPT ![l].status = st] \in [Leads -> LeadRow]
  <1>1. lead \in [Leads -> LeadRow]
    BY DEF TypeOK
  <1> QED
    BY <1>1 DEF LeadRow

LEMMA TypeInit == Init => TypeOK
  <1> SUFFICES ASSUME Init PROVE TypeOK
    OBVIOUS
  <1> QED
    BY FaultBudget DEF Init, TypeOK, LeadRow, BatchRow, Context, Reply, NoRun, NoReply,
       NoIngest

\* The import and the operator's requests write lead rows and their own state.
LEMMA UpdatedType ==
    ASSUME TypeOK, NEW l \in Leads, NEW completed \in BOOLEAN,
           NEW st \in {"absent", "new", "invited", "applied", "opted_out"}
    PROVE  Updated(l, st, completed) \in [Leads -> LeadRow]
  <1>1. lead[l].marked \in BOOLEAN /\ lead \in [Leads -> LeadRow]
    BY DEF TypeOK, LeadRow
  <1>2. (lead[l].completed \/ completed) \in BOOLEAN
    OBVIOUS
  <1>3. [status |-> st, completed |-> lead[l].completed \/ completed,
         marked |-> lead[l].marked] \in LeadRow
    BY <1>1, <1>2 DEF LeadRow
  <1> QED
    BY <1>1, <1>3 DEF Updated

LEMMA ImportStepType == ASSUME TypeOK, ImportStep PROVE TypeOK'
  <1> USE DEF tables, memory, operator
  <1>1. ASSUME NEW l \in Leads, NEW completed \in BOOLEAN, Ingest(l, completed)
        PROVE  TypeOK'
    <2>1. lead' \in [Leads -> LeadRow]
      <3>1. lead[l].status \in {"absent", "new", "invited", "applied", "opted_out"}
        BY DEF TypeOK, LeadRow
      <3> QED
        BY <1>1, <3>1, UpdatedType DEF Ingest, TypeOK
    <2>2. ingest' \in [by: {"nobody", "cycle", "operator"}, done: SUBSET Leads,
                       held: SUBSET Leads]
      <3>1. ingest \in [by: {"nobody", "cycle", "operator"}, done: SUBSET Leads,
                        held: SUBSET Leads]
        BY DEF TypeOK
      <3>2. \/ ingest' = [ingest EXCEPT !.held = {l}]
            \/ ingest' = [ingest EXCEPT !.done = @ \union {l}]
        BY <1>1 DEF Ingest
      <3> QED
        BY <3>1, <3>2
    <2> QED
      BY <1>1, <2>1, <2>2 DEF TypeOK, Ingest
  <1>2. ASSUME NEW l \in Leads, NEW completed \in BOOLEAN, IngestWrite(l, completed)
        PROVE  TypeOK'
    <2>1. lead' \in [Leads -> LeadRow]
      BY <1>2, UpdatedType DEF IngestWrite
    <2>2. ingest' \in [by: {"nobody", "cycle", "operator"}, done: SUBSET Leads,
                       held: SUBSET Leads]
      BY <1>2 DEF IngestWrite, TypeOK
    <2>3. unseen' \subseteq Leads
      BY <1>2 DEF IngestWrite, TypeOK
    <2> QED
      BY <1>2, <2>1, <2>2, <2>3 DEF TypeOK, IngestWrite
  <1>3. ASSUME EndImport PROVE TypeOK'
    <2>1. faults' \in 0..MaxFaults
      BY <1>3, FaultType DEF EndImport, TypeOK
    <2> QED
      BY <1>3, <2>1 DEF TypeOK, EndImport, NoIngest
  <1> QED
    BY <1>1, <1>2, <1>3, Switches DEF ImportStep

LEMMA OperatorType == ASSUME TypeOK, Operator PROVE TypeOK'
  <1> USE DEF tables, memory, operator
  <1>1. ASSUME StartImport PROVE TypeOK'
    <2>1. faults' \in 0..MaxFaults
      BY <1>1, FaultType DEF StartImport
    <2> QED
      BY <1>1, <2>1 DEF TypeOK, StartImport, NoIngest
  <1>2. ASSUME NEW l \in Leads, HandRead(l) PROVE TypeOK'
    <2>1. faults' \in 0..MaxFaults
      BY <1>2, FaultType DEF HandRead
    <2> QED
      BY <1>2, <2>1 DEF TypeOK, HandRead
  <1>3. ASSUME NEW l \in Leads, HandSend(l) PROVE TypeOK'
    <2>1. linked' \in [Leads -> Nat]
      BY <1>3 DEF HandSend, Linked, TypeOK
    <2>2. hand' \in [Leads -> {"no", "send", "invite", "stop"}] /\ unseen' \subseteq Leads
      BY <1>3 DEF HandSend, TypeOK
    <2> QED
      BY <1>3, <2>1, <2>2 DEF TypeOK, HandSend
  <1>4. ASSUME NEW l \in Leads, HandWrite(l) PROVE TypeOK'
    <2>1. faults' \in 0..MaxFaults
      BY <1>4, FaultType DEF HandWrite, TypeOK
    <2>2. lead' \in [Leads -> LeadRow]
      <3>1. \/ lead' = Updated(l, "invited", FALSE)
            \/ lead' = Updated(l, "opted_out", FALSE)
            \/ lead' = lead
        BY <1>4 DEF HandWrite
      <3>2. Updated(l, "invited", FALSE) \in [Leads -> LeadRow]
        BY UpdatedType
      <3>3. Updated(l, "opted_out", FALSE) \in [Leads -> LeadRow]
        BY UpdatedType
      <3>4. lead \in [Leads -> LeadRow]
        BY DEF TypeOK
      <3> HIDE DEF LeadRow, tables, memory, operator
      <3> QED
        BY <3>1, <3>2, <3>3, <3>4
    <2>3. hand' \in [Leads -> {"no", "send", "invite", "stop"}] /\ unseen' \subseteq Leads
      BY <1>4 DEF HandWrite, TypeOK
    <2> QED
      BY <1>4, <2>1, <2>2, <2>3 DEF TypeOK, HandWrite
  <1> QED
    BY <1>1, <1>2, <1>3, <1>4 DEF Operator

LEMMA TypeStep == TypeOK /\ [Next]_vars => TypeOK'
  <1> SUFFICES ASSUME TypeOK, [Next]_vars PROVE TypeOK'
    OBVIOUS
  <1> USE DEF vars, tables, memory, operator
  <1>1. ASSUME NEW s \in PollSlots, BeginPoll(s) PROVE TypeOK'
    BY <1>1 DEF TypeOK, BeginPoll, Begin, Context, NoIngest
  <1>2. ASSUME NEW h \in HourSlots, NEW force \in BOOLEAN, BeginHour(h, force) PROVE TypeOK'
    <2>1. faults' \in 0..MaxFaults
      BY <1>2, FaultType DEF BeginHour, TypeOK
    <2> QED
      BY <1>2, <2>1 DEF TypeOK, BeginHour, Begin, Context, NoIngest
  <1>3. ASSUME ImportOk PROVE TypeOK'
    BY <1>3 DEF TypeOK, ImportOk, NoIngest
  <1>4. ASSUME ImportFails PROVE TypeOK'
    <2>1. faults' \in 0..MaxFaults
      BY <1>4, FaultType DEF ImportFails, TypeOK
    <2> QED
      BY <1>4, <2>1 DEF TypeOK, ImportFails, NoIngest
  <1>5. ASSUME Gate PROVE TypeOK'
    BY <1>5 DEF TypeOK, Gate
  <1>6. ASSUME SkipResolution PROVE TypeOK'
    <2>1. faults' \in 0..MaxFaults
      BY <1>6, FaultType DEF SkipResolution, TypeOK
    <2> QED
      BY <1>6, <2>1 DEF TypeOK, SkipResolution
  <1>7. ASSUME Probe PROVE TypeOK'
    <2>1. faults' \in 0..MaxFaults
      BY <1>7, FaultType DEF Probe, TypeOK
    <2>2. taken' \subseteq Nat /\ queue' \subseteq Keys
      BY <1>7 DEF Probe, TypeOK, Ambiguous
    <2> QED
      BY <1>7, <2>1, <2>2 DEF TypeOK, Probe
  <1>8. ASSUME PromoteFlip PROVE TypeOK'
    <2>1. faults' \in 0..MaxFaults
      BY <1>8, FaultType DEF PromoteFlip, TypeOK
    <2>2. lead' \in [Leads -> LeadRow]
      BY <1>8, FlippedType DEF PromoteFlip, TypeOK
    <2> QED
      BY <1>8, <2>1, <2>2 DEF TypeOK, PromoteFlip
  <1>9. ASSUME Resolved PROVE TypeOK'
    <2>1. faults' \in 0..MaxFaults
      BY <1>9, FaultType DEF Resolved, TypeOK
    <2> QED
      BY <1>9, <2>1 DEF TypeOK, Resolved
  <1>10. ASSUME NEW k \in Keys, Demote(k) PROVE TypeOK'
    <2>1. batch' \in [Keys -> BatchRow]
      BY <1>10, StatusType DEF Demote
    <2> QED
      BY <1>10, <2>1 DEF TypeOK, Demote
  <1>11. ASSUME NEW k \in Keys, NEW i \in DOMAIN tea, Promote(k, i) PROVE TypeOK'
    <2>1. batch' \in [Keys -> BatchRow]
      BY <1>11, StatusType DEF Promote
    <2>3. flip' \subseteq Phones /\ seg' \in Segments
      BY <1>11 DEF Promote, TypeOK, BatchRow
    <2>2. taken' \subseteq Nat
      BY <1>11 DEF Promote, TypeOK
    <2> QED
      BY <1>11, <2>1, <2>2, <2>3 DEF TypeOK, Promote
  <1>12. ASSUME BuildCsv PROVE TypeOK'
    <2>1. csv' \subseteq Phones /\ pc' \in Labels /\ seg' \in Segments
      BY <1>12, RowsType, NextSegmentType DEF BuildCsv, TypeOK
    <2>2. unseen' \subseteq Leads
      BY <1>12, RowsType DEF BuildCsv, TypeOK
    <2>3. late' \subseteq Leads
      BY <1>12 DEF BuildCsv
    <2>4. UNCHANGED <<tables, run, reply, flip, queue, taken, errs, stopping, ingest, hand,
                      linked, faults>>
      BY <1>12 DEF BuildCsv
    <2> QED
      BY <2>1, <2>2, <2>3, <2>4 DEF TypeOK
  <1>13. ASSUME Upsert PROVE TypeOK'
    <2>1. batch' \in [Keys -> BatchRow]
      BY <1>13, BatchKeyType DEF Upsert, TypeOK, BatchRow
    <2> QED
      BY <1>13, <2>1 DEF TypeOK, Upsert
  <1>14. ASSUME Send PROVE TypeOK'
    <2>1. faults' \in 0..MaxFaults
      BY <1>14, FaultType DEF Send, TypeOK
    <2>2. ASSUME NEW added \in SUBSET Phones, Sent(added)
          PROVE  tea' \in Seq([seg: Segments, phones: SUBSET Phones])
      <3>1. [seg |-> seg, phones |-> added] \in [seg: Segments, phones: SUBSET Phones]
        BY DEF TypeOK
      <3> QED
        BY <2>2, <3>1 DEF Sent, TypeOK
    <2>3. tea' \in Seq([seg: Segments, phones: SUBSET Phones])
      BY <1>14, <2>2 DEF Send, TypeOK
    <2>4. reply' \in Reply
      BY <1>14 DEF Send, TypeOK, Reply
    <2> QED
      BY <1>14, <2>1, <2>3, <2>4 DEF TypeOK, Send
  <1>15. ASSUME RecordOk PROVE TypeOK'
    <2>1. batch' \in [Keys -> BatchRow]
      BY <1>15, BatchKeyType DEF RecordOk, TypeOK, BatchRow, Reply
    <2> QED
      BY <1>15, <2>1 DEF TypeOK, RecordOk
  <1>16. ASSUME RecordFailure PROVE TypeOK'
    <2>1. batch' \in [Keys -> BatchRow]
      <3>1. PICK st \in {"ambiguous", "failed"} :
                 batch' = [batch EXCEPT ![BatchKey].status = st]
        BY <1>16 DEF RecordFailure
      <3> QED
        BY <3>1, BatchKeyType, StatusType
    <2>2. pc' \in Labels /\ seg' \in Segments
      BY <1>16, NextSegmentType DEF RecordFailure
    <2> QED
      BY <1>16, <2>1, <2>2 DEF TypeOK, RecordFailure
  <1>17. ASSUME SelectFlip PROVE TypeOK'
    <2>1. flip' \subseteq Phones
      BY <1>17 DEF SelectFlip, Flippable
    <2>2. pc' \in Labels /\ seg' \in Segments
      BY <1>17, NextSegmentType DEF SelectFlip, TypeOK
    <2> QED
      BY <1>17, <2>1, <2>2 DEF TypeOK, SelectFlip
  <1>18. ASSUME WriteFlip PROVE TypeOK'
    <2>1. faults' \in 0..MaxFaults
      BY <1>18, FaultType DEF WriteFlip, TypeOK
    <2>2. lead' \in [Leads -> LeadRow]
      BY <1>18, FlippedType DEF WriteFlip, TypeOK
    <2>3. pc' \in Labels /\ seg' \in Segments
      BY <1>18, NextSegmentType DEF WriteFlip
    <2> QED
      BY <1>18, <2>1, <2>2, <2>3 DEF TypeOK, WriteFlip
  <1>19. ASSUME DbError PROVE TypeOK'
    <2>1. faults' \in 0..MaxFaults
      BY <1>19, FaultType DEF DbError
    <2> QED
      BY <1>19, <2>1 DEF TypeOK, DbError
  <1>20. ASSUME Finish PROVE TypeOK'
    <2>1. row' \in [HourSlots -> {"none", "running", "done", "needs_login", "failed"}]
      BY <1>20 DEF TypeOK, Finish, Outcome
    <2> QED
      BY <1>20, <2>1 DEF TypeOK, Finish, Forget, NoRun, NoReply, Context, Reply
  <1>21. ASSUME Crash PROVE TypeOK'
    <2>1. faults' \in 0..MaxFaults
      BY <1>21, FaultType DEF Crash
    <2> QED
      BY <1>21, <2>1 DEF TypeOK, Crash, Forget, NoRun, NoReply, NoIngest, Context, Reply
  <1>22. ASSUME NEW l \in Leads, StopOptOut(l) PROVE TypeOK'
    BY <1>22 DEF TypeOK, StopOptOut
  <1>23. ASSUME NEW l \in Leads, StopLead(l) PROVE TypeOK'
    <2>1. lead' \in [Leads -> LeadRow]
      <3>1. lead[l].status \in {"absent", "new", "invited", "applied", "opted_out"}
        BY DEF TypeOK, LeadRow
      <3>2. PICK st \in {"absent", "new", "invited", "applied", "opted_out"} :
                 lead' = [lead EXCEPT ![l].status = st]
        BY <1>23, <3>1 DEF StopLead
      <3> QED
        BY <3>2, LeadStatusType
    <2> QED
      BY <1>23, <2>1 DEF TypeOK, StopLead
  <1>24. ASSUME NEW l \in Leads, Start(l) PROVE TypeOK'
    BY <1>24 DEF TypeOK, Start
  <1>25. ASSUME NEW l \in Leads, Applied(l) PROVE TypeOK'
    <2>1. lead' \in [Leads -> LeadRow]
      BY <1>25, LeadStatusType DEF Applied
    <2> QED
      BY <1>25, <2>1 DEF TypeOK, Applied
  <1>26. ASSUME ImportStep PROVE TypeOK'
    BY <1>26, ImportStepType
  <1>27. ASSUME Operator PROVE TypeOK'
    BY <1>27, OperatorType
  <1>28. CASE UNCHANGED vars
    BY <1>28 DEF TypeOK
  <1> QED
    BY <1>1, <1>2, <1>3, <1>4, <1>5, <1>6, <1>7, <1>8, <1>9, <1>10, <1>11, <1>12, <1>13,
       <1>14, <1>15, <1>16, <1>17, <1>18, <1>19, <1>20, <1>21, <1>22, <1>23, <1>24,
       <1>25, <1>26, <1>27, <1>28
       DEF Next, Poll, Hour, CycleStep, Handler

\* Every reachable state of the lane is well typed.
THEOREM Typing == Spec => []TypeOK
  <1> QED
    BY TypeInit, TypeStep, PTL DEF Spec

-----------------------------------------------------------------------------
(* The CSV of a cycle stays valid until it is sent. *)

\* While a CSV waits to be sent, the opted-out phones in it opted out late.
CsvRespectsStop == pc \in {"upsert", "send"} => csv \intersect optOut \subseteq late

CsvInv == CsvRespectsStop /\ QuarantineExcludes

LEMMA CsvInit == Init => CsvInv
  BY DEF Init, CsvInv, CsvRespectsStop, QuarantineExcludes

\* The steps that neither wait on a CSV afterwards nor touch one.
LEMMA CsvElsewhere == ASSUME pc' \notin {"upsert", "send"} PROVE CsvInv'
  BY DEF CsvInv, CsvRespectsStop, QuarantineExcludes

LEMMA CsvBuild == ASSUME TypeOK, BuildCsv PROVE CsvInv'
  <1>1. CASE pc' # "upsert"
    <2>1. pc' \in {"csv", "finish"}
      BY <1>1 DEF BuildCsv, NextSegment
    <2> QED
      BY <2>1, CsvElsewhere
  <1>2. CASE pc' = "upsert"
    <2>1. csv' = Rows(seg) \union {Owner} /\ seg' = seg
      BY <1>2 DEF BuildCsv, NextSegment
    <2>2. CsvRespectsStop'
      BY <2>1, RowsType, OwnerIsNoLead DEF BuildCsv, CsvRespectsStop, TypeOK, tables
    <2>3. ASSUME seg = "leads", NEW k \in Keys, batch[k].status \in {"sent", "ambiguous"}
          PROVE  Rows(seg) \intersect batch[k].phones = {}
      BY <2>3 DEF Rows, AlreadySent
    <2>4. QuarantineExcludes'
      BY <2>1, <2>3 DEF BuildCsv, QuarantineExcludes, tables
    <2> QED
      BY <2>2, <2>4 DEF CsvInv
  <1> QED
    BY <1>1, <1>2

LEMMA CsvUpsert == ASSUME TypeOK, CsvInv, Upsert PROVE CsvInv'
  <1>1. CsvRespectsStop'
    BY DEF CsvInv, CsvRespectsStop, Upsert
  <1>2. BatchKey' = BatchKey
    BY DEF Upsert, BatchKey, BroadcastSlot
  <1>3. \A k \in Keys \ {BatchKey} : batch'[k] = batch[k]
    BY DEF Upsert, TypeOK
  <1>4. QuarantineExcludes'
    BY <1>2, <1>3 DEF CsvInv, QuarantineExcludes, Upsert
  <1> QED
    BY <1>1, <1>4 DEF CsvInv

\* A handler, an import and the operator leave the batches and the running cycle
\* alone; only STOP adds an opt-out, and it adds a late one while a CSV waits.
LEMMA CsvHandler == ASSUME TypeOK, CsvInv, Handler \/ ImportStep \/ Operator PROVE CsvInv'
  <1> USE DEF Handler, StopOptOut, StopLead, Start, Applied, ImportStep, Ingest,
         IngestWrite, EndImport, Operator, StartImport, HandRead, HandSend, HandWrite,
         tables
  <1>1. UNCHANGED <<batch, memory>>
    OBVIOUS
  <1>2. BatchKey' = BatchKey
    BY <1>1 DEF memory, BatchKey, BroadcastSlot
  <1>3. QuarantineExcludes'
    BY <1>1, <1>2 DEF CsvInv, QuarantineExcludes, memory
  <1>4. CsvRespectsStop'
    BY <1>1 DEF CsvInv, CsvRespectsStop, memory
  <1> QED
    BY <1>3, <1>4 DEF CsvInv

LEMMA CsvStep == TypeOK /\ CsvInv /\ [Next]_vars => CsvInv'
  <1> SUFFICES ASSUME TypeOK, CsvInv, [Next]_vars PROVE CsvInv'
    OBVIOUS
  <1>1. CASE Poll \/ Hour \/ Crash
    <2>1. pc' \in {"import", "idle"}
      BY <1>1 DEF Poll, Hour, Crash, BeginPoll, BeginHour, Begin, Forget
    <2> QED
      BY <2>1, CsvElsewhere
  <1>2. CASE CycleStep /\ pc' \notin {"upsert", "send"}
    BY <1>2, CsvElsewhere
  <1>3. CASE CycleStep /\ pc' \in {"upsert", "send"}
    <2>1. BuildCsv \/ Upsert
      BY <1>3 DEF CycleStep, ImportOk, ImportFails, Gate, SkipResolution, Probe,
         PromoteFlip, Resolved, Demote, Promote, Send, RecordOk, RecordFailure,
         SelectFlip, WriteFlip, DbError, Finish, Forget, NextSegment
    <2> QED
      BY <2>1, CsvBuild, CsvUpsert
  <1>4. CASE Handler \/ ImportStep \/ Operator
    BY <1>4, CsvHandler
  <1>5. CASE UNCHANGED vars
    <2>1. BatchKey' = BatchKey
      BY <1>5 DEF vars, memory, BatchKey, BroadcastSlot
    <2> QED
      BY <1>5, <2>1 DEF vars, tables, memory, CsvInv, CsvRespectsStop, QuarantineExcludes
  <1> QED
    BY <1>1, <1>2, <1>3, <1>4, <1>5 DEF Next

\* A leads broadcast about to go out names nobody of an earlier batch that
\* was sent or is unresolved, whatever runs between the build and the send.
THEOREM QuarantineExclusion == Spec => []QuarantineExcludes
  <1>1. CsvInv => QuarantineExcludes
    BY DEF CsvInv
  <1> QED
    BY <1>1, TypeInit, TypeStep, CsvInit, CsvStep, PTL DEF Spec

\* A STOP recorded before the running cycle built its CSV is always respected
\* by the broadcasts of both segments.
THEOREM StopIsRespected == Spec => StopRespected
  <1>1. ASSUME TypeOK, CsvInv, [Next]_vars, tea' # tea
        PROVE  tea'[Len(tea')].phones \intersect optOut \subseteq late
    <2>1. Send
      BY <1>1 DEF Next, Poll, Hour, CycleStep, Handler, Crash, vars, tables, BeginPoll,
         BeginHour, Begin, ImportOk, ImportFails, Gate, SkipResolution, Probe, PromoteFlip,
         Resolved, Demote, Promote, BuildCsv, Upsert, RecordOk, RecordFailure, SelectFlip,
         WriteFlip, DbError, Finish, StopOptOut, StopLead, Start, Applied, ImportStep,
         Ingest, IngestWrite, EndImport, Operator, StartImport, HandRead, HandSend,
         HandWrite
    <2>2. PICK phones \in SUBSET csv : Sent(phones)
      BY <1>1, <2>1 DEF Send
    <2>3. tea'[Len(tea')].phones = phones
      BY <1>1, <2>2 DEF Sent, TypeOK
    <2>4. csv \intersect optOut \subseteq late
      BY <1>1, <2>1 DEF Send, CsvInv, CsvRespectsStop
    <2> QED
      BY <2>3, <2>4
  <1>2. TypeOK /\ CsvInv /\ [Next]_vars =>
          [tea' # tea => tea'[Len(tea')].phones \intersect optOut \subseteq late]_vars
    BY <1>1
  <1> QED
    BY <1>2, TypeInit, TypeStep, CsvInit, CsvStep, PTL DEF Spec, StopRespected

-----------------------------------------------------------------------------
(* One leads message for everybody, in poll mode (the run zillow_poll): no      *)
(* scheduled runs, one segment, no death between a send and its record, no      *)
(* broadcast that is both partial and ambiguous, recipient lists that can be    *)
(* read, and a probe that lists at least as many broadcasts as there are faults. *)
PollMode ==
    /\ HourSlots = {} /\ ApplicantRelay = FALSE
    /\ Faults \intersect {"crash", "db", "details", "landed_partial"} = {}
    /\ MaxFaults <= ProbeMax

Texted(l) == \E i \in DOMAIN tea : l \in tea[i].phones

\* Every cycle is a poll with a batch of its own, which is built only from its
\* upsert to the record of its send.
Polls ==
    /\ seg = "leads" /\ run.trigger = "poll" /\ (pc # "idle" => run.slot \in PollSlots)
    /\ \A i \in DOMAIN tea : tea[i].seg = "leads"
    /\ \A k \in Keys : batch[k].status # "none" => k[2] = "leads"
    /\ \A k \in Keys : batch[k].status = "built" => k = BatchKey /\ pc \in {"send", "record"}
    /\ pc \in {"import", "gate", "probe", "resolve", "csv", "upsert"} =>
          batch[BatchKey].status = "none"
    /\ pc \in {"send", "record"} =>
          batch[BatchKey].status = "built" /\ batch[BatchKey].phones = csv
    /\ \A k \in Keys : batch[k].status = "ambiguous" => batch[k].phones # {}
    /\ pc \in {"upsert", "send", "record"} => csv # {}

\* The running cycle is past its probe and may still add a broadcast.
Due == IF pc \in {"csv", "upsert", "send"} THEN 1 ELSE 0

\* The row of a broadcast, as long as it counts: sent, or unresolved and still
\* within the probe's sight, which every cycle that leaves it so pays with a fault.
Backs(k, i) ==
    /\ batch[k].phones = tea[i].phones
    /\ \/ batch[k].status = "sent"
       \/ /\ batch[k].status = "ambiguous" /\ batch[k].since < i
          /\ Len(tea) + Due < i + faults

\* The broadcast just sent, before its record.
Fresh(i) ==
    /\ pc = "record" /\ i = Len(tea)
    /\ \/ reply.kind = "ok" /\ reply.added = tea[i].phones
       \/ /\ reply.kind = "ambiguous" /\ csv = tea[i].phones
          /\ batch[BatchKey].since < i /\ faults > 0

Backed == \A i \in DOMAIN tea : Fresh(i) \/ \E k \in Keys : Backs(k, i)

\* What the resolver still has to do, and what it has done.
Resolving ==
    /\ IF pc = "resolve" THEN queue = Ambiguous ELSE taken = {}
    /\ \A i \in taken : /\ i \in DOMAIN tea
                        /\ \E k \in Keys : /\ batch[k].status = "sent"
                                           /\ batch[k].phones = tea[i].phones

\* A CSV about to go out has nobody who was texted, and nobody with a link by
\* hand that the cycle could have seen.
Clear ==
    /\ pc \in {"upsert", "send"} =>
         \A l \in csv \intersect Leads : ~Texted(l) /\ (linked[l] = 0 \/ l \in unseen)
    /\ pc = "send" => batch[BatchKey].since <= Len(tea)

\* Whom the next lead update calls invited was texted.
Flips ==
    /\ \A l \in flip \intersect Leads : Texted(l)
    /\ (pc = "record" /\ reply.kind = "ok") \/ pc = "flip" =>
          \A l \in reply.added \intersect Leads : Texted(l)

Once == \A i, j \in DOMAIN tea : \A l \in Leads :
           l \in tea[i].phones /\ l \in tea[j].phones => i = j

Told == \A l \in Leads : lead[l].status = "invited" => Texted(l) \/ linked[l] # 0

\* A link by hand shows in the lead's status, unless that write is still to come
\* or the link is one that a cycle may be unable to see.
Link(l) ==
    /\ linked[l] <= Len(tea) + 1
    /\ hand[l] = "invite" => linked[l] # 0
    /\ linked[l] # 0 \/ hand[l] # "no" => lead[l].status # "absent"
    /\ linked[l] # 0 /\ l \notin unseen =>
          /\ lead[l].status = "new" => hand[l] = "invite"
          /\ \A i \in DOMAIN tea : l \in tea[i].phones => i < linked[l]
Links == \A l \in Leads : Link(l)

PollInv ==
    TypeOK /\ Polls /\ Backed /\ Resolving /\ Clear /\ Flips /\ Once /\ Told /\ Links

\* Only the send adds a broadcast, and only five steps write a batch.
LEMMA TeaChanges == ASSUME [Next]_vars PROVE tea' = tea \/ Send
  BY DEF Next, Poll, Hour, CycleStep, Handler, Crash, vars, tables, BeginPoll,
     BeginHour, Begin, ImportOk, ImportFails, Gate, SkipResolution, Probe, PromoteFlip,
     Resolved, Demote, Promote, BuildCsv, Upsert, RecordOk, RecordFailure, SelectFlip,
     WriteFlip, DbError, Finish, StopOptOut, StopLead, Start, Applied, ImportStep,
     Ingest, IngestWrite, EndImport, Operator, StartImport, HandRead, HandSend,
     HandWrite

\* What runs beside a cycle leaves the batches, the broadcasts and the cycle alone.
LEMMA Beside ==
    ASSUME Handler \/ ImportStep \/ Operator PROVE UNCHANGED <<batch, tea, memory>>
  BY DEF Handler, StopOptOut, StopLead, Start, Applied, ImportStep, Ingest, IngestWrite,
     EndImport, Operator, StartImport, HandRead, HandSend, HandWrite, tables

LEMMA FaultsGrow == ASSUME TypeOK, [Next]_vars PROVE faults <= faults'
  <1>1. faults \in Nat
    BY FaultBudget DEF TypeOK
  <1>2. faults' = faults \/ faults' = faults + 1
    BY DEF Next, Poll, Hour, CycleStep, Handler, Crash, vars, tables, BeginPoll,
       BeginHour, Begin, ImportOk, ImportFails, Gate, SkipResolution, Probe, PromoteFlip,
       Resolved, Demote, Promote, BuildCsv, Upsert, Send, RecordOk, RecordFailure,
       SelectFlip, WriteFlip, DbError, Finish, StopOptOut, StopLead, Start, Applied,
       ImportStep, Ingest, IngestWrite, EndImport, Operator, StartImport, HandRead,
       HandSend, HandWrite, Fault
  <1> QED
    BY <1>1, <1>2

\* The steps of poll mode.
Resolve == \E k \in Keys : Demote(k) \/ \E i \in DOMAIN tea : Promote(k, i)
LEMMA PollSteps ==
    ASSUME PollMode, [Next]_vars
    PROVE  \/ Poll \/ Handler \/ ImportStep \/ Operator
           \/ ImportOk \/ ImportFails \/ Gate \/ SkipResolution \/ Probe \/ PromoteFlip
           \/ Resolved \/ Resolve \/ BuildCsv \/ Upsert \/ Send \/ RecordOk \/ RecordFailure
           \/ SelectFlip \/ WriteFlip \/ Finish \/ UNCHANGED vars
  <1>1. ~Hour
    BY DEF PollMode, Hour
  <1>2. ~Crash /\ ~DbError
    BY DEF PollMode, Crash, DbError, Fault
  <1> QED
    BY <1>1, <1>2 DEF Next, CycleStep, Resolve

LEMMA PollKey ==
    ASSUME TypeOK, Polls PROVE BatchKey = <<run.slot, "leads">> /\ BatchKey \in Keys
  BY BatchKeyType DEF Polls, BatchKey, BroadcastSlot

LEMMA OneSegment ==
    ASSUME PollMode, Polls, NextSegment PROVE pc' = "finish" /\ seg' = "leads"
  BY DEF PollMode, Polls, NextSegment

\* The row of a key after one field of it was written.
LEMMA BatchPut ==
    ASSUME TypeOK, NEW k \in Keys, NEW st, batch' = [batch EXCEPT ![k].status = st]
    PROVE  /\ \A j \in Keys \ {k} : batch'[j] = batch[j]
           /\ batch'[k].status = st
           /\ batch'[k].phones = batch[k].phones /\ batch'[k].since = batch[k].since
  <1>1. batch \in [Keys -> BatchRow]
    BY DEF TypeOK
  <1> QED
    BY <1>1 DEF BatchRow

LEMMA Broadcast ==
    ASSUME TypeOK, NEW phones \in SUBSET Phones, Sent(phones)
    PROVE  /\ Len(tea) \in Nat /\ Len(tea') = Len(tea) + 1
           /\ DOMAIN tea = 1..Len(tea) /\ DOMAIN tea' = DOMAIN tea \union {Len(tea) + 1}
           /\ \A i \in DOMAIN tea : tea'[i] = tea[i] /\ i # Len(tea) + 1
           /\ tea'[Len(tea')] = [seg |-> seg, phones |-> phones]
  <1>1. tea \in Seq([seg: Segments, phones: SUBSET Phones]) /\ seg \in Segments
    BY DEF TypeOK
  <1> QED
    BY <1>1 DEF Sent

LEMMA RecordPut ==
    ASSUME TypeOK, BatchKey \in Keys, RecordOk
    PROVE  /\ \A j \in Keys \ {BatchKey} : batch'[j] = batch[j]
           /\ batch'[BatchKey].status = "sent" /\ batch'[BatchKey].phones = reply.added
  <1>1. batch \in [Keys -> BatchRow]
    BY DEF TypeOK
  <1>2. batch' = [batch EXCEPT ![BatchKey].status = "sent", ![BatchKey].phones = reply.added]
    BY DEF RecordOk
  <1> QED
    BY <1>1, <1>2 DEF BatchRow

\* A send of poll mode: nothing went out, or one broadcast, which is reported as
\* it was or, in full, as ambiguous.
LEMMA PollSend ==
    ASSUME PollMode, TypeOK, Send
    PROVE  \/ tea' = tea /\ reply'.kind # "ok"
           \/ \E phones \in SUBSET csv :
                 /\ Sent(phones)
                 /\ \/ reply' = [kind |-> "ok", added |-> phones]
                    \/ /\ reply' = [kind |-> "ambiguous", added |-> {}]
                       /\ phones = csv /\ faults' = faults + 1
  BY DEF PollMode, TypeOK, Send, Fault

-----------------------------------------------------------------------------
(* Polls is kept. *)

\* By a step that writes no batch and starts no cycle.
LEMMA PollsStay ==
    ASSUME TypeOK, Polls, UNCHANGED <<batch, tea>>, pc \notin {"send", "record"} \/ pc' = pc,
           seg' = "leads", UNCHANGED run \/ (pc' = "idle" /\ run' = NoRun),
           pc' # "idle" => pc # "idle",
           pc' \in {"import", "gate", "probe", "resolve", "csv", "upsert"} =>
              pc \in {"import", "gate", "probe", "resolve", "csv", "upsert"},
           pc' \in {"send", "record"} => pc' = pc,
           pc' \in {"upsert", "send", "record"} => csv' # {} /\ (pc' # "upsert" => csv' = csv)
    PROVE  Polls'
  <1>1. pc' # "idle" => BatchKey' = BatchKey
    BY DEF BatchKey, BroadcastSlot, Polls
  <1>2. run'.trigger = "poll" /\ (pc' # "idle" => run'.slot \in PollSlots)
    BY DEF Polls, NoRun
  <1>3. \A k \in Keys : batch'[k].status = "built" => k = BatchKey' /\ pc' \in {"send", "record"}
    BY <1>1 DEF Polls
  <1> QED
    BY <1>1, <1>2, <1>3 DEF Polls

LEMMA PollsBegin == ASSUME PollMode, TypeOK, Polls, Poll PROVE Polls'
  <1>1. PICK s \in PollSlots : BeginPoll(s)
    BY DEF Poll
  <1>2. UNCHANGED <<batch, tea>> /\ pc = "idle" /\ pc' = "import" /\ seg' = "leads"
    BY <1>1 DEF BeginPoll, Begin
  <1>3. run'.trigger = "poll" /\ run'.slot = s
    BY <1>1 DEF BeginPoll, Begin
  <1>4. BatchKey' = <<s, "leads">>
    BY <1>2, <1>3 DEF BatchKey, BroadcastSlot
  <1>5. batch[<<s, "leads">>].status = "none"
    BY <1>1 DEF BeginPoll
  <1> QED
    BY <1>2, <1>3, <1>4, <1>5 DEF Polls

\* By the resolver, which leaves the running batch alone.
LEMMA PollsResolve ==
    ASSUME TypeOK, Polls, Resolving, Resolve
    PROVE  Polls'
  <1>1. pc = "resolve" /\ UNCHANGED <<pc, run, tea, csv>>
    BY DEF Resolve, Demote, Promote
  <1>2. PICK k \in queue, st \in {"sent", "failed"} : batch' = [batch EXCEPT ![k].status = st]
    BY DEF Resolve, Demote, Promote
  <1>3. k \in Keys /\ batch[k].status = "ambiguous"
    BY <1>1, <1>2 DEF Resolving, Ambiguous
  <1>4. seg' = "leads"
    BY <1>1 DEF Resolve, Demote, Promote, Polls, Resolving, Ambiguous
  <1>5. BatchKey' = BatchKey /\ BatchKey \in Keys /\ k # BatchKey
    BY <1>1, <1>3, <1>4, PollKey DEF BatchKey, BroadcastSlot, Polls
  <1>6. /\ \A j \in Keys \ {k} : batch'[j] = batch[j]
        /\ batch'[k].status = st
    BY <1>2, <1>3, BatchPut
  <1> QED
    BY <1>1, <1>3, <1>4, <1>5, <1>6 DEF Polls

LEMMA PollsUpsert == ASSUME TypeOK, Polls, Upsert PROVE Polls'
  <1>1. BatchKey' = BatchKey /\ BatchKey \in Keys
    BY PollKey DEF Upsert, BatchKey, BroadcastSlot
  <1>2. /\ \A j \in Keys \ {BatchKey} : batch'[j] = batch[j]
        /\ batch'[BatchKey].status = "built" /\ batch'[BatchKey].phones = csv
    BY <1>1 DEF Upsert, TypeOK
  <1>3. UNCHANGED <<tea, run, seg, csv>> /\ pc = "upsert" /\ pc' = "send"
    BY DEF Upsert
  <1>4. BatchKey[2] = "leads"
    BY PollKey
  <1> QED
    BY <1>1, <1>2, <1>3, <1>4 DEF Polls

LEMMA PollsSend == ASSUME PollMode, TypeOK, Polls, Send PROVE Polls'
  <1>1. UNCHANGED <<batch, run, seg, csv>> /\ pc = "send" /\ pc' = "record"
    BY DEF Send
  <1>2. BatchKey' = BatchKey
    BY <1>1 DEF BatchKey, BroadcastSlot
  <1>3. \A i \in DOMAIN tea' : tea'[i].seg = "leads"
    <2>1. CASE tea' = tea
      BY <2>1 DEF Polls
    <2>2. CASE \E phones \in SUBSET csv : Sent(phones)
      <3>1. PICK phones \in SUBSET Phones : Sent(phones)
        BY <2>2 DEF TypeOK
      <3>2. /\ Len(tea') = Len(tea) + 1
            /\ DOMAIN tea' = DOMAIN tea \union {Len(tea) + 1}
            /\ \A i \in DOMAIN tea : tea'[i] = tea[i]
            /\ tea'[Len(tea')] = [seg |-> seg, phones |-> phones]
        BY <3>1, Broadcast
      <3> QED
        BY <3>2 DEF Polls
    <2> QED
      BY <2>1, <2>2, PollSend
  <1> QED
    BY <1>1, <1>2, <1>3 DEF Polls

LEMMA PollsRecord ==
    ASSUME PollMode, TypeOK, Polls, RecordOk \/ RecordFailure PROVE Polls'
  <1>1. UNCHANGED <<tea, run, csv>> /\ pc = "record" /\ pc' \in {"flip", "finish"}
        /\ seg' = "leads"
    BY OneSegment DEF RecordOk, RecordFailure, Polls
  <1>2. BatchKey' = BatchKey /\ BatchKey \in Keys /\ BatchKey[2] = "leads"
    BY <1>1, PollKey DEF BatchKey, BroadcastSlot, Polls
  <1>3. /\ \A j \in Keys \ {BatchKey} : batch'[j] = batch[j]
        /\ batch'[BatchKey].status \in {"sent", "failed", "ambiguous"}
        /\ batch'[BatchKey].status = "ambiguous" => batch'[BatchKey].phones = csv
    <2>1. CASE RecordOk
      BY <2>1, <1>2, RecordPut
    <2>2. CASE RecordFailure
      <3>1. PICK st \in {"ambiguous", "failed"} :
                 batch' = [batch EXCEPT ![BatchKey].status = st]
        BY <2>2 DEF RecordFailure
      <3>2. /\ \A j \in Keys \ {BatchKey} : batch'[j] = batch[j]
            /\ batch'[BatchKey].status = st
            /\ batch'[BatchKey].phones = batch[BatchKey].phones
        BY <3>1, <1>2, BatchPut
      <3> QED
        BY <3>2, <1>1 DEF Polls
    <2> QED
      BY <2>1, <2>2
  <1> QED
    BY <1>1, <1>2, <1>3 DEF Polls

LEMMA PollsStep ==
    ASSUME PollMode, TypeOK, Polls, Resolving, [Next]_vars PROVE Polls'
  <1>1. CASE Handler \/ ImportStep \/ Operator \/ UNCHANGED vars
    <2>1. UNCHANGED <<batch, tea, memory>>
      BY <1>1, Beside DEF vars, tables
    <2> QED
      BY <2>1, PollsStay DEF memory, Polls
  <1>2. CASE ImportOk \/ ImportFails \/ Gate \/ SkipResolution \/ Probe \/ PromoteFlip
             \/ Resolved
    <2>1. UNCHANGED <<batch, tea, run, csv>> /\ seg' = "leads"
          /\ pc \in {"import", "gate", "probe", "resolve"}
          /\ pc' \in {"finish", "gate", "probe", "resolve", "csv"}
      BY <1>2 DEF ImportOk, ImportFails, Gate, SkipResolution, Probe, PromoteFlip,
         Resolved, tables, Polls
    <2> QED
      BY <2>1, PollsStay
  <1>3. CASE BuildCsv
    <2>1. UNCHANGED <<batch, tea, run>> /\ pc = "csv"
      BY <1>3 DEF BuildCsv, tables
    <2>2. /\ seg' = "leads" /\ pc' \in {"upsert", "finish"}
          /\ pc' = "upsert" => csv' # {}
      BY <1>3, OneSegment DEF BuildCsv, Polls
    <2> QED
      BY <2>1, <2>2, PollsStay
  <1>4. CASE SelectFlip \/ WriteFlip
    <2>1. UNCHANGED <<batch, tea, run, csv>> /\ seg' = "leads"
          /\ pc \in {"flip", "mark"} /\ pc' \in {"mark", "finish"}
      BY <1>4, OneSegment DEF SelectFlip, WriteFlip, tables, Polls
    <2> QED
      BY <2>1, PollsStay
  <1>5. CASE Finish
    <2>1. UNCHANGED <<batch, tea>> /\ seg' = "leads" /\ pc = "finish" /\ pc' = "idle"
          /\ run' = NoRun
      BY <1>5 DEF Finish, Forget
    <2> QED
      BY <2>1, PollsStay
  <1> QED
    BY <1>1, <1>2, <1>3, <1>4, <1>5, PollSteps, PollsBegin, PollsResolve, PollsUpsert,
       PollsSend, PollsRecord

-----------------------------------------------------------------------------
(* Resolving is kept. *)

LEMMA ResolvingStay ==
    ASSUME TypeOK, Resolving, UNCHANGED batch,
           \A i \in DOMAIN tea : i \in DOMAIN tea' /\ tea'[i] = tea[i],
           \/ UNCHANGED <<pc, queue, taken>>
           \/ pc # "resolve" /\ pc' # "resolve" /\ taken' = taken
           \/ taken' = {} /\ (pc' = "resolve" => queue' = Ambiguous)
    PROVE  Resolving'
  <1>1. Ambiguous' = Ambiguous
    BY DEF Ambiguous
  <1>2. IF pc' = "resolve" THEN queue' = Ambiguous' ELSE taken' = {}
    BY <1>1 DEF Resolving
  <1>3. taken' \subseteq taken
    OBVIOUS
  <1> QED
    BY <1>2, <1>3 DEF Resolving

\* A batch the resolver is done with is no longer ambiguous, and one it promotes
\* has the recipients of the broadcast it is promoted for.
LEMMA ResolvingResolve == ASSUME TypeOK, Resolving, Resolve PROVE Resolving'
  <1>1. pc = "resolve" /\ UNCHANGED <<pc, tea>>
    BY DEF Resolve, Demote, Promote
  <1>2. PICK k \in queue, st \in {"sent", "failed"} :
             /\ batch' = [batch EXCEPT ![k].status = st] /\ queue' = queue \ {k}
             /\ \/ taken' = taken
                \/ st = "sent" /\ \E i \in Matches(k) : taken' = taken \union {i}
    BY DEF Resolve, Demote, Promote
  <1>3. k \in Keys /\ batch[k].status = "ambiguous" /\ queue = Ambiguous
    BY <1>1, <1>2 DEF Resolving, Ambiguous
  <1>4. /\ \A j \in Keys \ {k} : batch'[j] = batch[j]
        /\ batch'[k].status = st /\ batch'[k].phones = batch[k].phones
    BY <1>2, <1>3, BatchPut
  <1>5. Ambiguous' = Ambiguous \ {k}
    BY <1>3, <1>4 DEF Ambiguous
  <1>6. \A i \in taken' : /\ i \in DOMAIN tea
                          /\ \E j \in Keys : /\ batch'[j].status = "sent"
                                             /\ batch'[j].phones = tea[i].phones
    <2> SUFFICES ASSUME NEW i \in taken'
                 PROVE  /\ i \in DOMAIN tea
                        /\ \E j \in Keys : /\ batch'[j].status = "sent"
                                           /\ batch'[j].phones = tea[i].phones
      OBVIOUS
    <2>1. CASE i \in taken
      <3>1. PICK j \in Keys : batch[j].status = "sent" /\ batch[j].phones = tea[i].phones
        BY <2>1 DEF Resolving
      <3>2. batch'[j] = batch[j]
        BY <3>1, <1>3, <1>4
      <3> QED
        BY <2>1, <3>1, <3>2 DEF Resolving
    <2>2. CASE i \notin taken
      <3>1. st = "sent" /\ i \in Matches(k)
        BY <1>2, <2>2
      <3> QED
        BY <3>1, <1>3, <1>4 DEF Matches
    <2> QED
      BY <2>1, <2>2
  <1> QED
    BY <1>1, <1>2, <1>3, <1>5, <1>6 DEF Resolving

\* Outside the resolver nothing is taken.
LEMMA ResolvingElsewhere ==
    ASSUME Resolving, pc # "resolve", pc' # "resolve", taken' = taken PROVE Resolving'
  BY DEF Resolving

LEMMA ResolvingStep ==
    ASSUME PollMode, TypeOK, Resolving, [Next]_vars PROVE Resolving'
  <1>1. CASE Poll \/ Upsert \/ Send \/ RecordOk \/ RecordFailure
    <2>1. pc # "resolve" /\ pc' # "resolve" /\ taken' = taken
      BY <1>1 DEF Poll, BeginPoll, Begin, Upsert, Send, RecordOk, RecordFailure, NextSegment
    <2> QED
      BY <2>1, ResolvingElsewhere
  <1>2. CASE Handler \/ ImportStep \/ Operator \/ UNCHANGED vars
    <2>1. UNCHANGED <<batch, tea, memory>>
      BY <1>2, Beside DEF vars, tables
    <2> QED
      BY <2>1, ResolvingStay DEF memory
  <1>3. CASE \/ ImportOk \/ ImportFails \/ Gate \/ SkipResolution \/ Probe \/ PromoteFlip
             \/ Resolved \/ BuildCsv \/ SelectFlip \/ WriteFlip \/ Finish
    <2>1. UNCHANGED <<batch, tea>>
      BY <1>3 DEF ImportOk, ImportFails, Gate, SkipResolution, Probe, PromoteFlip,
         Resolved, BuildCsv, SelectFlip, WriteFlip, Finish, tables
    <2>2. "details" \notin Faults
      BY DEF PollMode
    <2>3. \/ UNCHANGED <<pc, queue, taken>>
          \/ pc # "resolve" /\ pc' # "resolve" /\ taken' = taken
          \/ taken' = {} /\ (pc' = "resolve" => queue' = Ambiguous)
      BY <1>3, <2>2 DEF ImportOk, ImportFails, Gate, SkipResolution, Probe, PromoteFlip,
         Resolved, BuildCsv, SelectFlip, WriteFlip, Finish, Forget, NextSegment, Fault
    <2> QED
      BY <2>1, <2>3, ResolvingStay
  <1> QED
    BY <1>1, <1>2, <1>3, PollSteps, ResolvingResolve

-----------------------------------------------------------------------------
(* Backed is kept: every broadcast that a later cycle must know of has a batch. *)

LEMMA Paid ==
    ASSUME NEW d \in Nat, NEW e \in Nat, NEW f \in Nat, NEW g \in Nat, f <= g,
           e <= d \/ (e <= d + 1 /\ g = f + 1)
    PROVE  e + f <= d + g
  OBVIOUS

LEMMA Budget ==
    ASSUME NEW n \in Nat, NEW d \in Nat, NEW e \in Nat, NEW i \in Nat, NEW f \in Nat,
           NEW g \in Nat, n + d < i + f, e + f <= d + g
    PROVE  n + e < i + g
  OBVIOUS

\* By a step that writes no batch, as long as there is no broadcast to record.
LEMMA BackedStay ==
    ASSUME TypeOK, TypeOK', Backed, UNCHANGED <<batch, tea>>, faults <= faults',
           pc # "record" \/ UNCHANGED <<pc, reply, csv, run, seg>>,
           Ambiguous = {} \/ Due' + faults <= Due + faults'
    PROVE  Backed'
  <1>1. faults \in Nat /\ faults' \in Nat /\ Due \in Nat /\ Due' \in Nat /\ Len(tea) \in Nat
    BY FaultBudget DEF TypeOK, Due
  <1>2. ASSUME NEW i \in DOMAIN tea, NEW k \in Keys, Backs(k, i) PROVE Backs(k, i)'
    <2>1. i \in Nat
      BY <1>2 DEF TypeOK
    <2>2. CASE batch[k].status = "sent"
      BY <1>2, <2>2 DEF Backs
    <2>3. CASE batch[k].status # "sent"
      <3>1. batch[k].status = "ambiguous" /\ batch[k].since < i /\ Len(tea) + Due < i + faults
        BY <1>2, <2>3 DEF Backs
      <3>2. Due' + faults <= Due + faults'
        BY <3>1 DEF Ambiguous
      <3>3. Len(tea) + Due' < i + faults'
        BY <1>1, <2>1, <3>1, <3>2, Budget
      <3> QED
        BY <1>2, <3>1, <3>3 DEF Backs
    <2> QED
      BY <2>2, <2>3
  <1>3. ASSUME NEW i \in DOMAIN tea, Fresh(i) PROVE Fresh(i)'
    <2>1. UNCHANGED <<pc, reply, csv, run, seg>>
      BY <1>3 DEF Fresh
    <2>2. BatchKey' = BatchKey
      BY <2>1 DEF BatchKey, BroadcastSlot
    <2> QED
      BY <1>1, <1>3, <2>1, <2>2 DEF Fresh
  <1> QED
    BY <1>2, <1>3 DEF Backed

\* What keeps its row keeps counting.
LEMMA BacksOther ==
    ASSUME TypeOK, NEW k \in Keys, NEW i \in DOMAIN tea, Backs(k, i),
           batch'[k] = batch[k], tea' = tea, Due' = Due, faults' = faults
    PROVE  Backs(k, i)'
  BY DEF Backs

LEMMA BackedResolve ==
    ASSUME PollMode, TypeOK, Polls, Resolving, Backed, Resolve PROVE Backed'
  <1>1. pc = "resolve" /\ UNCHANGED <<pc, tea, faults>> /\ Due = 0 /\ Due' = 0
    BY DEF Resolve, Demote, Promote, Due
  <1> SUFFICES ASSUME NEW i \in DOMAIN tea PROVE \E j \in Keys : Backs(j, i)'
    BY <1>1 DEF Backed
  <1>2. PICK j \in Keys : Backs(j, i)
    BY <1>1 DEF Backed, Fresh
  <1>3. PICK k \in queue, st \in {"sent", "failed"} :
             /\ batch' = [batch EXCEPT ![k].status = st]
             /\ st = "failed" => Matches(k) = {}
    BY DEF Resolve, Demote, Promote
  <1>4. k \in Keys /\ batch[k].status = "ambiguous"
    BY <1>1, <1>3 DEF Resolving, Ambiguous
  <1>5. /\ \A h \in Keys \ {k} : batch'[h] = batch[h]
        /\ batch'[k].status = st /\ batch'[k].phones = batch[k].phones
    BY <1>3, <1>4, BatchPut
  <1>6. CASE j # k
    BY <1>1, <1>2, <1>5, <1>6, BacksOther
  <1>7. CASE j = k /\ st = "sent"
    BY <1>1, <1>2, <1>5, <1>7 DEF Backs
  <1>8. CASE j = k /\ st = "failed"
    <2>1. /\ batch[k].phones = tea[i].phones /\ batch[k].since < i
          /\ Len(tea) < i + faults /\ batch[k].phones # {}
      BY <1>1, <1>2, <1>4, <1>8 DEF Backs, Polls, TypeOK
    <2>2. i + ProbeMax > Len(tea)
      <3>1. i \in Nat /\ faults \in 0..MaxFaults /\ Len(tea) \in Nat
        BY DEF TypeOK
      <3> QED
        BY <2>1, <3>1, FaultBudget, ProbeWindow DEF PollMode
    <2>3. i \in taken
      BY <1>3, <1>8, <2>1, <2>2 DEF Matches
    <2>4. PICK h \in Keys : batch[h].status = "sent" /\ batch[h].phones = tea[i].phones
      BY <2>3 DEF Resolving
    <2>5. Backs(h, i) /\ h # k
      BY <1>4, <2>4 DEF Backs
    <2> QED
      BY <1>1, <1>5, <2>5, BacksOther
  <1> QED
    BY <1>6, <1>7, <1>8

LEMMA BackedUpsert == ASSUME TypeOK, Polls, Backed, Upsert PROVE Backed'
  <1>1. pc = "upsert" /\ pc' = "send" /\ UNCHANGED <<tea, faults>> /\ Due' = Due
    BY DEF Upsert, Due
  <1> SUFFICES ASSUME NEW i \in DOMAIN tea PROVE \E k \in Keys : Backs(k, i)'
    BY <1>1 DEF Backed
  <1>2. PICK k \in Keys : Backs(k, i)
    BY <1>1 DEF Backed, Fresh
  <1>3. k # BatchKey
    BY <1>1, <1>2 DEF Backs, Polls
  <1>4. batch'[k] = batch[k]
    BY <1>3 DEF Upsert, TypeOK
  <1> QED
    BY <1>1, <1>2, <1>4, BacksOther

LEMMA BackedSend ==
    ASSUME PollMode, TypeOK, TypeOK', Polls, Clear, Backed, Send PROVE Backed'
  <1>1. /\ pc = "send" /\ pc' = "record" /\ UNCHANGED <<batch, run, seg, csv>>
        /\ Due = 1 /\ Due' = 0
    BY DEF Send, Due
  <1>2. Len(tea) \in Nat /\ faults \in Nat /\ faults' \in Nat /\ faults <= faults'
    BY FaultBudget DEF TypeOK, Send, Fault
  <1>3. ASSUME NEW i \in DOMAIN tea, tea'[i] = tea[i],
               Len(tea') = Len(tea) \/ Len(tea') = Len(tea) + 1
        PROVE  \E k \in Keys : Backs(k, i)'
    <2>1. PICK k \in Keys : Backs(k, i)
      BY <1>1 DEF Backed, Fresh
    <2>2. i \in Nat
      BY DEF TypeOK
    <2> QED
      BY <1>1, <1>2, <1>3, <2>1, <2>2 DEF Backs
  <1>4. CASE tea' = tea
    BY <1>3, <1>4 DEF Backed
  <1>5. CASE tea' # tea
    <2>1. PICK phones \in SUBSET csv :
             /\ Sent(phones)
             /\ \/ reply' = [kind |-> "ok", added |-> phones]
                \/ /\ reply' = [kind |-> "ambiguous", added |-> {}]
                   /\ phones = csv /\ faults' = faults + 1
      BY <1>5, PollSend
    <2>2. /\ Len(tea') = Len(tea) + 1
          /\ DOMAIN tea' = DOMAIN tea \union {Len(tea) + 1}
          /\ \A i \in DOMAIN tea : tea'[i] = tea[i]
          /\ tea'[Len(tea')] = [seg |-> seg, phones |-> phones]
      <3>1. phones \in SUBSET Phones
        BY DEF TypeOK
      <3> QED
        BY <2>1, <3>1, Broadcast
    <2>3. BatchKey' = BatchKey /\ batch[BatchKey].since <= Len(tea)
      BY <1>1 DEF BatchKey, BroadcastSlot, Clear
    <2>4. batch[BatchKey].since \in Nat
      BY BatchKeyType DEF TypeOK, BatchRow
    <2>5. PICK n \in Nat : n = Len(tea) + 1
      BY <1>2
    <2>6. Fresh(n)'
      BY <1>1, <1>2, <2>1, <2>2, <2>3, <2>4, <2>5 DEF Fresh
    <2>7. \A i \in DOMAIN tea : \E k \in Keys : Backs(k, i)'
      BY <1>3, <2>2
    <2> QED
      BY <2>2, <2>5, <2>6, <2>7 DEF Backed
  <1> QED
    BY <1>4, <1>5

LEMMA BackedRecord ==
    ASSUME PollMode, TypeOK, Polls, Backed, RecordOk \/ RecordFailure PROVE Backed'
  <1>1. /\ UNCHANGED <<tea, run, csv, faults>> /\ pc = "record" /\ pc' \in {"flip", "finish"}
        /\ Due = 0 /\ Due' = 0
    BY OneSegment DEF RecordOk, RecordFailure, Due
  <1>2. BatchKey \in Keys /\ batch[BatchKey].status = "built" /\ batch[BatchKey].phones = csv
    BY <1>1, PollKey DEF Polls
  <1> SUFFICES ASSUME NEW i \in DOMAIN tea PROVE \E k \in Keys : Backs(k, i)'
    BY <1>1 DEF Backed
  <1>3. \A j \in Keys \ {BatchKey} : batch'[j] = batch[j]
    <2>1. CASE RecordOk
      BY <2>1, <1>2, RecordPut
    <2>2. CASE RecordFailure
      BY <2>2, <1>2 DEF RecordFailure, TypeOK
    <2> QED
      BY <2>1, <2>2
  <1>4. ASSUME NEW k \in Keys, Backs(k, i) PROVE Backs(k, i)'
    <2>1. k # BatchKey
      BY <1>2, <1>4 DEF Backs
    <2> QED
      BY <1>1, <1>3, <1>4, <2>1, BacksOther
  <1>5. ASSUME NEW b \in Keys, b = BatchKey, Fresh(i) PROVE Backs(b, i)'
    <2>1. CASE RecordOk
      <3>1. batch'[b].status = "sent" /\ batch'[b].phones = reply.added
        BY <1>5, <2>1, <1>2, RecordPut
      <3>2. reply.added = tea[i].phones
        BY <1>5, <2>1 DEF Fresh, RecordOk
      <3> QED
        BY <1>1, <3>1, <3>2 DEF Backs
    <2>2. CASE RecordFailure
      <3>1. /\ reply.kind = "ambiguous" /\ csv = tea[i].phones /\ i = Len(tea)
            /\ batch[b].since < i /\ faults > 0
        BY <1>5, <2>2 DEF Fresh, RecordFailure
      <3>2. batch' = [batch EXCEPT ![BatchKey].status = "ambiguous"]
        BY <2>2, <3>1 DEF RecordFailure
      <3>3. /\ batch'[b].status = "ambiguous" /\ batch'[b].phones = csv
            /\ batch'[b].since = batch[b].since
        BY <1>2, <1>5, <3>2 DEF TypeOK, BatchRow
      <3>4. Len(tea) \in Nat /\ faults \in Nat
        BY FaultBudget DEF TypeOK
      <3> QED
        BY <1>1, <3>1, <3>3, <3>4 DEF Backs
    <2> QED
      BY <2>1, <2>2
  <1> QED
    BY <1>2, <1>4, <1>5 DEF Backed

LEMMA BackedStep ==
    ASSUME PollMode, TypeOK, TypeOK', Polls, Resolving, Clear, Backed, [Next]_vars
    PROVE  Backed'
  <1>0. faults <= faults' /\ faults \in Nat /\ faults' \in Nat
        /\ Due \in Nat /\ Due' \in Nat
    BY FaultsGrow, FaultBudget DEF TypeOK, Due
  <1>1. CASE Handler \/ ImportStep \/ Operator \/ UNCHANGED vars
    <2>1. UNCHANGED <<batch, tea, memory>>
      BY <1>1, Beside DEF vars, tables
    <2>2. Due' <= Due
      BY <2>1 DEF Due, memory
    <2>3. Due' + faults <= Due + faults'
      BY <1>0, <2>2, Paid
    <2> QED
      BY <1>0, <2>1, <2>3, BackedStay DEF memory
  <1>2. CASE \/ Poll \/ ImportOk \/ ImportFails \/ Gate \/ SkipResolution \/ Probe
             \/ PromoteFlip \/ Resolved \/ BuildCsv \/ SelectFlip \/ WriteFlip \/ Finish
    <2>1. UNCHANGED <<batch, tea>> /\ pc # "record"
      BY <1>2 DEF Poll, BeginPoll, Begin, ImportOk, ImportFails, Gate, SkipResolution, Probe,
         PromoteFlip, Resolved, BuildCsv, SelectFlip, WriteFlip, Finish, tables
    <2>2. "db" \notin Faults
      BY DEF PollMode
    <2>3. CASE SkipResolution \/ Resolved
      <3>1. Ambiguous = {} \/ faults' = faults + 1
        BY <2>2, <2>3 DEF SkipResolution, Resolved, Resolving, Fault
      <3>2. pc' = "csv" /\ pc \notin {"csv", "upsert", "send"}
        BY <2>3 DEF SkipResolution, Resolved
      <3>3. Due' <= Due + 1
        BY <3>2 DEF Due
      <3>4. Ambiguous = {} \/ Due' + faults <= Due + faults'
        BY <1>0, <3>1, <3>3, Paid
      <3> QED
        BY <1>0, <2>1, <3>4, BackedStay
    <2>4. CASE ~(SkipResolution \/ Resolved)
      <3>1. pc' \in {"csv", "upsert", "send"} => pc \in {"csv", "upsert", "send"}
        BY <1>2, <2>4, OneSegment DEF Poll, BeginPoll, Begin, ImportOk, ImportFails, Gate, Probe,
           PromoteFlip, BuildCsv, SelectFlip, WriteFlip, Finish, Forget
      <3>2. Due' <= Due
        BY <3>1 DEF Due
      <3>3. Due' + faults <= Due + faults'
        BY <1>0, <3>2, Paid
      <3> QED
        BY <1>0, <2>1, <3>3, BackedStay
    <2> QED
      BY <2>3, <2>4
  <1> QED
    BY <1>1, <1>2, PollSteps, BackedResolve, BackedUpsert, BackedSend, BackedRecord

-----------------------------------------------------------------------------
(* Clear, Once and Flips are kept. *)

\* Whoever was texted stays texted.
LEMMA TextedStay ==
    ASSUME TypeOK, [Next]_vars, NEW l, Texted(l) PROVE Texted(l)'
  <1>1. CASE tea' = tea
    BY <1>1 DEF Texted
  <1>2. CASE Send /\ tea' # tea
    <2>1. PICK phones \in SUBSET Phones : Sent(phones)
      BY <1>2 DEF Send, TypeOK
    <2>2. /\ DOMAIN tea' = DOMAIN tea \union {Len(tea) + 1}
          /\ \A i \in DOMAIN tea : tea'[i] = tea[i]
      BY <2>1, Broadcast
    <2> QED
      BY <2>2 DEF Texted
  <1> QED
    BY <1>1, <1>2, TeaChanges

\* A row the CSV is built from is of a lead that no broadcast reached.
LEMMA RowsUntexted ==
    ASSUME TypeOK, Polls, Backed, pc = "csv", NEW l \in Rows("leads") PROVE ~Texted(l)
  <1> SUFFICES ASSUME NEW i \in DOMAIN tea, l \in tea[i].phones PROVE FALSE
    BY DEF Texted
  <1>1. PICK k \in Keys : Backs(k, i)
    BY DEF Backed, Fresh
  <1>2. l \in AlreadySent
    BY <1>1 DEF Backs, AlreadySent
  <1> QED
    BY <1>2 DEF Rows

LEMMA ClearBuild ==
    ASSUME TypeOK, Polls, Backed, Links, BuildCsv, pc' = "upsert" PROVE Clear'
  <1>1. /\ pc = "csv" /\ seg = "leads" /\ csv' = Rows("leads") \union {Owner}
        /\ unseen' = unseen \union {l \in Rows("leads") : hand[l] = "invite"}
        /\ UNCHANGED <<tea, linked>>
    BY DEF BuildCsv, NextSegment, Polls, tables
  <1> SUFFICES ASSUME NEW l \in csv' \intersect Leads
               PROVE  ~Texted(l)' /\ (linked'[l] = 0 \/ l \in unseen')
    BY DEF Clear
  <1>2. l \in Rows("leads")
    BY <1>1, OwnerIsNoLead
  <1>3. ~Texted(l)'
    BY <1>1, <1>2, RowsUntexted DEF Texted
  <1>4. lead[l].status = "new"
    BY <1>2 DEF Rows
  <1>5. linked[l] = 0 \/ l \in unseen \/ hand[l] = "invite"
    BY <1>4 DEF Links, Link
  <1> QED
    BY <1>1, <1>2, <1>3, <1>5

LEMMA ClearUpsert == ASSUME TypeOK, Polls, Clear, Upsert PROVE Clear'
  <1>1. pc = "upsert" /\ pc' = "send" /\ UNCHANGED <<tea, csv, linked, unseen>>
    BY DEF Upsert, operator
  <1>2. BatchKey' = BatchKey /\ BatchKey \in Keys /\ batch[BatchKey].status = "none"
    BY <1>1, PollKey DEF Upsert, BatchKey, BroadcastSlot, Polls
  <1>3. PICK since \in 0..Len(tea) :
          batch' = [batch EXCEPT ![BatchKey] =
                      [status |-> "built", phones |-> csv,
                       since |-> IF @.status = "none" THEN since ELSE @.since]]
    BY DEF Upsert
  <1>4. batch'[BatchKey].since = since
    BY <1>2, <1>3 DEF TypeOK
  <1>5. since <= Len(tea)
    BY DEF TypeOK
  <1> QED
    BY <1>1, <1>2, <1>4, <1>5 DEF Clear, Texted

\* By what runs beside the cycle: only HandSend adds a link, and it says so if
\* the lead is already in the CSV.
LEMMA ClearBeside ==
    ASSUME TypeOK, Polls, Clear, Handler \/ ImportStep \/ Operator PROVE Clear'
  <1>1. UNCHANGED <<batch, tea, memory>>
    BY Beside
  <1>2. BatchKey' = BatchKey
    BY <1>1 DEF memory, BatchKey, BroadcastSlot
  <1>3. ASSUME NEW l \in csv \intersect Leads, pc \in {"upsert", "send"}
        PROVE  linked'[l] = 0 \/ l \in unseen'
    <2>1. linked[l] = 0 \/ l \in unseen
      BY <1>3 DEF Clear
    <2>2. unseen \subseteq unseen'
      BY DEF Handler, StopOptOut, StopLead, Start, Applied, ImportStep, Ingest, IngestWrite,
         EndImport, Operator, StartImport, HandRead, HandSend, HandWrite, operator
    <2>3. CASE linked' = linked
      BY <2>1, <2>2, <2>3
    <2>4. CASE linked' # linked
      <3>1. PICK m \in Leads : HandSend(m)
        BY <2>4 DEF Handler, StopOptOut, StopLead, Start, Applied, ImportStep, Ingest,
           IngestWrite, EndImport, Operator, StartImport, HandRead, HandWrite, operator
      <3>2. Linked(m)
        BY <2>4, <3>1 DEF HandSend
      <3>3. m = l => l \in unseen'
        BY <1>3, <2>4, <3>1 DEF HandSend, Polls
      <3>4. m # l => linked'[l] = linked[l]
        BY <3>2 DEF Linked, TypeOK
      <3> QED
        BY <2>1, <2>2, <3>3, <3>4
    <2> QED
      BY <2>3, <2>4
  <1> QED
    BY <1>1, <1>2, <1>3 DEF Clear, Texted, memory

LEMMA ClearStep ==
    ASSUME PollMode, TypeOK, Polls, Backed, Links, Clear, [Next]_vars PROVE Clear'
  <1>1. CASE UNCHANGED vars
    <2>1. BatchKey' = BatchKey
      BY <1>1 DEF vars, memory, BatchKey, BroadcastSlot
    <2> QED
      BY <1>1, <2>1 DEF vars, tables, memory, operator, Clear, Texted
  <1>2. CASE pc' \notin {"upsert", "send"}
    BY <1>2 DEF Clear
  <1>3. CASE pc' \in {"upsert", "send"} /\ ~(Handler \/ ImportStep \/ Operator)
             /\ ~UNCHANGED vars
    <2>1. (BuildCsv /\ pc' = "upsert") \/ Upsert
      BY <1>3, PollSteps, OneSegment
         DEF Poll, BeginPoll, Begin, ImportOk, ImportFails, Gate, SkipResolution, Probe,
         PromoteFlip, Resolved, Resolve, Demote, Promote, BuildCsv, Send, RecordOk,
         RecordFailure, SelectFlip, WriteFlip, Finish, Forget
    <2> QED
      BY <2>1, ClearBuild, ClearUpsert
  <1> QED
    BY <1>1, <1>2, <1>3, ClearBeside

LEMMA OnceStep ==
    ASSUME TypeOK, Clear, Once, [Next]_vars PROVE Once'
  <1>1. CASE tea' = tea
    BY <1>1 DEF Once
  <1>2. CASE Send /\ tea' # tea
    <2>1. PICK phones \in SUBSET csv : Sent(phones)
      BY <1>2 DEF Send
    <2>2. /\ DOMAIN tea' = DOMAIN tea \union {Len(tea) + 1} /\ Len(tea') = Len(tea) + 1
          /\ \A i \in DOMAIN tea : tea'[i] = tea[i]
          /\ tea'[Len(tea')] = [seg |-> seg, phones |-> phones]
      <3>1. phones \in SUBSET Phones
        BY DEF TypeOK
      <3> QED
        BY <2>1, <3>1, Broadcast
    <2>3. PICK n : n = Len(tea) + 1
      OBVIOUS
    <2>4. tea'[n].phones = phones
      BY <2>2, <2>3
    <2>5. ASSUME NEW l \in phones \intersect Leads, NEW i \in DOMAIN tea
          PROVE  l \notin tea[i].phones
      BY <1>2 DEF Send, Clear, Texted
    <2> QED
      BY <2>2, <2>3, <2>4, <2>5 DEF Once
  <1> QED
    BY <1>1, <1>2, TeaChanges

LEMMA FlipsStep ==
    ASSUME PollMode, TypeOK, Polls, Flips, [Next]_vars PROVE Flips'
  <1>1. \A l \in Leads : Texted(l) => Texted(l)'
    BY TextedStay
  <1>2. ASSUME NEW l \in flip' \intersect Leads PROVE Texted(l)'
    <2>1. CASE l \in flip
      BY <1>1, <2>1 DEF Flips
    <2>2. CASE Resolve /\ l \notin flip
      <3>1. PICK k \in Keys, i \in DOMAIN tea : Promote(k, i)
        BY <1>2, <2>2 DEF Resolve, Demote
      <3>2. flip' = batch[k].phones /\ tea[i].phones = batch[k].phones
        BY <3>1 DEF Promote, Matches
      <3> QED
        BY <1>1, <3>2 DEF Texted
    <2>3. CASE SelectFlip
      <3>1. pc = "flip" /\ flip' \subseteq reply.added
        BY <2>3 DEF SelectFlip, Flippable
      <3> QED
        BY <1>1, <3>1 DEF Flips
    <2>4. Resolve \/ SelectFlip \/ flip' \subseteq flip
      BY PollSteps, Beside DEF Poll, BeginPoll, Begin, ImportOk, ImportFails, Gate,
         SkipResolution, Probe, PromoteFlip, Resolved, BuildCsv, Upsert, Send, RecordOk,
         RecordFailure, WriteFlip, Finish, Forget, vars, memory
    <2> QED
      BY <2>1, <2>2, <2>3, <2>4
  <1>3. ASSUME (pc' = "record" /\ reply'.kind = "ok") \/ pc' = "flip",
               NEW l \in reply'.added \intersect Leads
        PROVE  Texted(l)'
    <2>1. CASE Send
      <3>1. pc' = "record"
        BY <2>1 DEF Send
      <3>2. PICK phones \in SUBSET csv :
               Sent(phones) /\ reply' = [kind |-> "ok", added |-> phones]
        BY <1>3, <2>1, <3>1, PollSend
      <3>3. /\ DOMAIN tea' = DOMAIN tea \union {Len(tea) + 1} /\ Len(tea') = Len(tea) + 1
            /\ tea'[Len(tea')] = [seg |-> seg, phones |-> phones]
        <4>1. phones \in SUBSET Phones
          BY DEF TypeOK
        <4> QED
          BY <3>2, <4>1, Broadcast
      <3> QED
        BY <1>3, <3>2, <3>3 DEF Texted
    <2>2. CASE ~Send
      <3>1. /\ (pc = "record" /\ reply.kind = "ok") \/ pc = "flip"
            /\ reply' = reply
        BY <1>3, <2>2, PollSteps, Beside, OneSegment
           DEF Poll, BeginPoll, Begin, ImportOk, ImportFails, Gate,
           SkipResolution, Probe, PromoteFlip, Resolved, Resolve, Demote, Promote, BuildCsv,
           Upsert, RecordOk, RecordFailure, SelectFlip, WriteFlip, Finish, Forget, vars, memory
      <3> QED
        BY <1>1, <1>3, <3>1 DEF Flips
    <2> QED
      BY <2>1, <2>2
  <1> QED
    BY <1>2, <1>3 DEF Flips

-----------------------------------------------------------------------------
(* Told and Links are kept. *)

LEMMA LeadPut ==
    ASSUME TypeOK, NEW m \in Leads, NEW st, NEW completed, lead' = Updated(m, st, completed)
    PROVE  lead'[m].status = st /\ \A l \in Leads \ {m} : lead'[l] = lead[l]
  BY DEF TypeOK, Updated

LEMMA FlippedPut ==
    ASSUME TypeOK, NEW ids, NEW l \in Leads, lead' = Flipped("leads", ids)
    PROVE  lead'[l].status = lead[l].status \/ (l \in ids /\ lead'[l].status = "invited")
  <1>1. lead'[l] = lead[l] \/ (l \in ids /\ lead'[l] = [lead[l] EXCEPT !.status = "invited"])
    BY DEF Flipped
  <1>2. lead[l] \in LeadRow
    BY DEF TypeOK
  <1> QED
    BY <1>1, <1>2 DEF LeadRow

\* What a step of the cycle or a handler makes of a lead's status.
LEMMA CycleMoves ==
    ASSUME PollMode, TypeOK, Polls, [Next]_vars, ~ImportStep, ~Operator, NEW l \in Leads
    PROVE  \/ lead'[l].status = lead[l].status
           \/ lead'[l].status = "invited" /\ l \in flip
           \/ lead'[l].status \in {"applied", "opted_out"}
  <1>1. CASE WriteFlip
    <2>1. lead' = lead \/ lead' = Flipped("leads", flip)
      BY <1>1 DEF WriteFlip, Polls
    <2> QED
      BY <2>1, FlippedPut
  <1>2. CASE PromoteFlip
    <2>1. lead' = lead \/ lead' = Flipped("leads", Flippable("leads", flip))
      BY <1>2 DEF PromoteFlip, Polls
    <2>2. Flippable("leads", flip) \subseteq flip
      BY DEF Flippable
    <2> QED
      BY <2>1, <2>2, FlippedPut
  <1>3. CASE Handler
    <2>1. \/ lead' = lead
          \/ \E m \in Leads, st \in {"applied", "opted_out"} :
                lead' = [lead EXCEPT ![m].status = st]
          \/ \E m \in Leads : lead' = [lead EXCEPT ![m].status = @]
      BY <1>3 DEF Handler, StopOptOut, StopLead, Start, Applied
    <2>2. lead \in [Leads -> LeadRow]
      BY DEF TypeOK
    <2> QED
      BY <2>1, <2>2 DEF LeadRow
  <1>4. CASE ~WriteFlip /\ ~PromoteFlip /\ ~Handler
    <2>1. lead' = lead
      BY <1>4, PollSteps DEF Poll, BeginPoll, Begin, ImportOk, ImportFails, Gate,
         SkipResolution, Probe, Resolved, Resolve, Demote, Promote, BuildCsv,
         Upsert, Send, RecordOk, RecordFailure, SelectFlip, Finish, vars, tables
    <2> QED
      BY <2>1
  <1> QED
    BY <1>1, <1>2, <1>3, <1>4

\* An import inserts a lead nobody knew as new, or writes "new" back; if that
\* hides a link by hand, the lead counts as unseen.
LEMMA ImportMoves ==
    ASSUME TypeOK, ImportStep, NEW l \in Leads
    PROVE  /\ UNCHANGED <<hand, linked>> /\ unseen \subseteq unseen'
           /\ \/ lead'[l].status = lead[l].status
              \/ /\ lead'[l].status = "new"
                 /\ lead[l].status = "absent" \/ linked[l] = 0 \/ l \in unseen'
  <1>1. CASE EndImport
    BY <1>1 DEF EndImport, tables
  <1>2. ASSUME NEW m \in Leads, NEW completed, Ingest(m, completed) PROVE
               /\ UNCHANGED <<hand, linked>> /\ unseen \subseteq unseen'
               /\ \/ lead'[l].status = lead[l].status
                  \/ lead'[l].status = "new" /\ lead[l].status = "absent"
    <2>1. \/ lead' = lead
          \/ lead' = Updated(m, "new", completed) /\ lead[m].status = "absent"
          \/ lead' = Updated(m, lead[m].status, completed)
      BY <1>2 DEF Ingest
    <2>2. UNCHANGED <<hand, linked, unseen>>
      BY <1>2 DEF Ingest
    <2> QED
      BY <2>1, <2>2, LeadPut
  <1>3. ASSUME NEW m \in Leads, NEW completed, IngestWrite(m, completed) PROVE
               /\ UNCHANGED <<hand, linked>> /\ unseen \subseteq unseen'
               /\ \/ lead'[l].status = lead[l].status
                  \/ lead'[l].status = "new" /\ (linked[l] = 0 \/ l \in unseen')
    <2>1. lead'[m].status = "new" /\ \A h \in Leads \ {m} : lead'[h] = lead[h]
      BY <1>3, LeadPut DEF IngestWrite
    <2>2. /\ UNCHANGED <<hand, linked>> /\ unseen \subseteq unseen'
          /\ lead[m].status # "new" /\ linked[m] # 0 => m \in unseen'
      BY <1>3 DEF IngestWrite
    <2> QED
      BY <2>1, <2>2
  <1> QED
    BY <1>1, <1>2, <1>3 DEF ImportStep

\* The operator's sends: what becomes of the lead, the link and the handler.
HandMove(l) ==
    \/ /\ hand'[l] = hand[l] /\ linked'[l] = linked[l] /\ lead'[l] = lead[l]
    \/ /\ hand[l] = "no" /\ hand'[l] = "send" /\ lead[l].status # "absent"
       /\ linked'[l] = linked[l] /\ lead'[l] = lead[l]
    \/ /\ hand[l] = "send" /\ hand'[l] \in {"stop", "no"}
       /\ linked'[l] = linked[l] /\ lead'[l] = lead[l]
    \/ /\ hand[l] = "send" /\ hand'[l] \in {"invite", "no"}
       /\ hand'[l] = "invite" \/ l \in unseen'
       /\ linked'[l] = IF linked[l] = 0 THEN Len(tea) + 1 ELSE linked[l]
       /\ lead'[l] = lead[l]
    \/ /\ hand[l] \in {"invite", "stop"} /\ hand'[l] = "no" /\ linked'[l] = linked[l]
       /\ \/ lead'[l].status = "invited" /\ hand[l] = "invite"
          \/ lead'[l].status = "opted_out"
          \/ lead'[l] = lead[l] /\ l \in unseen'

LEMMA OperatorMoves ==
    ASSUME TypeOK, Operator, NEW l \in Leads
    PROVE  unseen \subseteq unseen' /\ HandMove(l)
  <1>0. hand \in [Leads -> {"no", "send", "invite", "stop"}] /\ linked \in [Leads -> Nat]
    BY DEF TypeOK
  <1>1. CASE StartImport
    BY <1>1 DEF StartImport, HandMove, tables
  <1>2. ASSUME NEW m \in Leads, HandRead(m) PROVE unseen \subseteq unseen' /\ HandMove(l)
    BY <1>0, <1>2 DEF HandRead, HandMove, tables
  <1>3. ASSUME NEW m \in Leads, HandSend(m) PROVE unseen \subseteq unseen' /\ HandMove(l)
    <2>1. lead' = lead /\ hand[m] = "send" /\ unseen \subseteq unseen'
      BY <1>3 DEF HandSend, tables
    <2>2. CASE m # l
      BY <1>0, <1>3, <2>1, <2>2 DEF HandSend, Linked, HandMove
    <2>3. CASE m = l
      <3>1. \/ hand'[l] \in {"stop", "no"} /\ linked' = linked
            \/ hand'[l] = "invite" /\ Linked(l)
            \/ hand'[l] = "no" /\ Linked(l) /\ l \in unseen'
        BY <1>0, <1>3, <2>3 DEF HandSend
      <3>2. Linked(l) => linked'[l] = IF linked[l] = 0 THEN Len(tea) + 1 ELSE linked[l]
        BY <1>0 DEF Linked
      <3> QED
        BY <2>1, <2>3, <3>1, <3>2 DEF HandMove
    <2> QED
      BY <2>2, <2>3
  <1>4. ASSUME NEW m \in Leads, HandWrite(m) PROVE unseen \subseteq unseen' /\ HandMove(l)
    <2>1. /\ hand[m] \in {"invite", "stop"} /\ hand' = [hand EXCEPT ![m] = "no"]
          /\ linked' = linked /\ unseen \subseteq unseen'
          /\ \/ lead' = Updated(m, "invited", FALSE) /\ hand[m] = "invite"
             \/ lead' = Updated(m, "opted_out", FALSE)
             \/ lead' = lead /\ m \in unseen'
      BY <1>4 DEF HandWrite
    <2>2. /\ \A h \in Leads \ {m} : lead'[h] = lead[h]
          /\ \/ lead'[m].status = "invited" /\ hand[m] = "invite"
             \/ lead'[m].status = "opted_out"
             \/ lead'[m] = lead[m] /\ m \in unseen'
      BY <2>1, LeadPut
    <2> QED
      BY <1>0, <2>1, <2>2 DEF HandMove
  <1> QED
    BY <1>1, <1>2, <1>3, <1>4 DEF Operator

\* The cycle and the handlers leave the links alone; a CSV build may add to those
\* that a cycle is unable to see.
LEMMA CycleLeaves ==
    ASSUME PollMode, [Next]_vars, ~ImportStep, ~Operator
    PROVE  UNCHANGED <<hand, linked>> /\ unseen \subseteq unseen'
  BY PollSteps DEF Handler, StopOptOut, StopLead, Start, Applied, Poll, BeginPoll, Begin,
     ImportOk, ImportFails, Gate, SkipResolution, Probe, PromoteFlip, Resolved, Resolve,
     Demote, Promote, BuildCsv, Upsert, Send, RecordOk, RecordFailure, SelectFlip, WriteFlip,
     Finish, vars, operator

LEMMA ToldStep ==
    ASSUME PollMode, TypeOK, Polls, Flips, Links, Told, [Next]_vars PROVE Told'
  <1> SUFFICES ASSUME NEW l \in Leads, lead'[l].status = "invited"
               PROVE  Texted(l)' \/ linked'[l] # 0
    BY DEF Told
  <1>1. Texted(l) => Texted(l)'
    BY TextedStay
  <1>2. CASE ~ImportStep /\ ~Operator
    <2>1. linked' = linked
      BY <1>2, CycleLeaves
    <2>2. lead[l].status = "invited" \/ l \in flip
      BY <1>2, CycleMoves
    <2> QED
      BY <1>1, <2>1, <2>2 DEF Told, Flips
  <1>3. CASE ImportStep
    <2>1. linked' = linked /\ lead[l].status = "invited"
      BY <1>3, ImportMoves
    <2> QED
      BY <1>1, <2>1 DEF Told
  <1>4. CASE Operator
    <2>1. HandMove(l)
      BY <1>4, OperatorMoves
    <2>2. linked[l] # 0 => linked'[l] # 0
      BY <2>1 DEF HandMove
    <2>3. lead[l].status = "invited" \/ hand[l] = "invite"
      BY <2>1 DEF HandMove
    <2> QED
      BY <1>1, <2>2, <2>3 DEF Told, Links, Link
  <1> QED
    BY <1>2, <1>3, <1>4

LEMMA LinksStep ==
    ASSUME PollMode, TypeOK, Polls, Clear, Links, [Next]_vars PROVE Links'
  <1>0. Len(tea) \in Nat /\ linked \in [Leads -> Nat] /\ DOMAIN tea = 1..Len(tea)
    BY DEF TypeOK
  <1> SUFFICES ASSUME NEW l \in Leads PROVE Link(l)'
    BY DEF Links
  <1>1. Link(l)
    BY DEF Links
  <1>2. CASE Send /\ tea' # tea
    <2>1. UNCHANGED <<lead, hand, linked, unseen>>
      BY <1>2 DEF Send, operator
    <2>2. PICK phones \in SUBSET csv : Sent(phones)
      BY <1>2 DEF Send
    <2>3. /\ DOMAIN tea' = DOMAIN tea \union {Len(tea) + 1} /\ Len(tea') = Len(tea) + 1
          /\ \A i \in DOMAIN tea : tea'[i] = tea[i]
          /\ tea'[Len(tea')] = [seg |-> seg, phones |-> phones]
      <3>1. phones \in SUBSET Phones
        BY DEF TypeOK
      <3> QED
        BY <2>2, <3>1, Broadcast
    <2>4. linked[l] # 0 /\ l \notin unseen => l \notin phones
      BY <1>2 DEF Send, Clear
    <2>5. linked[l] # 0 /\ l \notin unseen =>
             \A i \in DOMAIN tea' : l \in tea'[i].phones => i < linked[l]
      BY <1>1, <2>3, <2>4 DEF Link
    <2>6. linked[l] <= Len(tea') + 1
      BY <1>0, <1>1, <2>3 DEF Link
    <2> QED
      BY <1>1, <2>1, <2>5, <2>6 DEF Link
  <1>3. CASE tea' = tea /\ ~ImportStep /\ ~Operator
    <2>1. UNCHANGED <<hand, linked>> /\ unseen \subseteq unseen'
      BY <1>3, CycleLeaves
    <2>2. \/ lead'[l].status = lead[l].status
          \/ lead'[l].status \in {"invited", "applied", "opted_out"}
      BY <1>3, CycleMoves
    <2> QED
      BY <1>1, <1>3, <2>1, <2>2 DEF Link
  <1>4. CASE ImportStep
    <2>1. /\ UNCHANGED <<hand, linked>> /\ unseen \subseteq unseen'
          /\ \/ lead'[l].status = lead[l].status
             \/ /\ lead'[l].status = "new"
                /\ lead[l].status = "absent" \/ linked[l] = 0 \/ l \in unseen'
      BY <1>4, ImportMoves
    <2>2. tea' = tea
      BY <1>4, Beside
    <2> QED
      BY <1>1, <2>1, <2>2 DEF Link
  <1>5. CASE Operator
    <2>1. unseen \subseteq unseen' /\ HandMove(l)
      BY <1>5, OperatorMoves
    <2>2. tea' = tea
      BY <1>5, Beside
    <2>3. /\ linked'[l] <= Len(tea) + 1
          /\ \/ linked'[l] = linked[l]
             \/ linked[l] = 0 /\ \A i \in DOMAIN tea : i < linked'[l]
      BY <1>0, <1>1, <2>1 DEF HandMove, Link
    <2>4. hand'[l] = "invite" => linked'[l] # 0
      BY <1>0, <1>1, <2>1 DEF HandMove, Link
    <2>5. linked'[l] # 0 \/ hand'[l] # "no" => lead'[l].status # "absent"
      BY <1>0, <1>1, <2>1 DEF HandMove, Link
    <2>6. linked'[l] # 0 /\ l \notin unseen' /\ lead'[l].status = "new" => hand'[l] = "invite"
      BY <1>0, <1>1, <2>1 DEF HandMove, Link
    <2> QED
      BY <1>1, <2>1, <2>2, <2>3, <2>4, <2>5, <2>6 DEF Link
  <1> QED
    BY <1>2, <1>3, <1>4, <1>5, TeaChanges

-----------------------------------------------------------------------------
LEMMA PollInit == PollMode /\ Init => PollInv
  <1> SUFFICES ASSUME PollMode, Init PROVE PollInv
    OBVIOUS
  <1>1. TypeOK
    BY TypeInit
  <1>2. Polls
    BY DEF Init, Polls, NoRun
  <1>3. Backed /\ Resolving /\ Clear /\ Flips /\ Once
    BY DEF Init, Backed, Resolving, Clear, Flips, Once
  <1>4. Told /\ Links
    BY DEF Init, Told, Links, Link
  <1> QED
    BY <1>1, <1>2, <1>3, <1>4 DEF PollInv

LEMMA PollStep == PollMode /\ PollInv /\ [Next]_vars => PollInv'
  <1> SUFFICES ASSUME PollMode, PollInv, [Next]_vars PROVE PollInv'
    OBVIOUS
  <1>1. TypeOK'
    BY TypeStep DEF PollInv
  <1> QED
    BY <1>1, PollsStep, BackedStep, ResolvingStep, ClearStep, FlipsStep, OnceStep, ToldStep,
       LinksStep DEF PollInv

LEMMA PollImplies == PollInv => OneInvitation
  BY DEF PollInv, Polls, Once, Told, Links, Link, Texted, TextedAs, OneInvitation

\* In poll mode nobody gets the leads message twice, a lead shown as invited got
\* it or the link by hand, and no broadcast follows a link by hand that the cycle
\* could see.
THEOREM OneInvitationInPollMode == PollMode => (Spec => []OneInvitation)
  <1> SUFFICES ASSUME PollMode PROVE Spec => []OneInvitation
    OBVIOUS
  <1>1. Init => PollInv
    BY PollInit
  <1>2. PollInv /\ [Next]_vars => PollInv'
    BY PollStep
  <1> QED
    BY <1>1, <1>2, PollImplies, PTL DEF Spec
=============================================================================
