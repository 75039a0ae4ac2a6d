--------------------------- MODULE Tenancy_proofs ---------------------------
(***************************************************************************)
(* What Tenancy promises for any units, tenants, requests and deaths:      *)
(* types, one let per unit, a unit's status that agrees with its leases,   *)
(* and renewals the job does not undo.  Inv is the inductive invariant;    *)
(* a part of it per idea, and one lemma per part.  The applications that a *)
(* tenancy begins with are a specification of their own; what they promise *)
(* is proved in the second half of this module.                            *)
(***************************************************************************)
EXTENDS Tenancy, Applications, FiniteSetTheorems, WellFoundedInduction, TLAPS

--------------------------------------------------------------------------------
\* The requests that may still create a row; there is room for all of them,
\* and the rows are numbered as they come.
Pending == {r \in Requests : req[r].pc \in {"account", "letCheck", "create"}}

Numbered == /\ Rows = 1..Cardinality(Rows)
            /\ Cardinality(Rows) + Cardinality(Pending) <= MaxLeases

\* What a request remembers from its earlier statements.
Asked(r) ==
    /\ req[r].pc = "account" => req[r].tenant \in Tenants
    /\ req[r].pc \in {"letCheck", "create"} => req[r].tenant \in Tenants /\ req[r].unit \in Units
    /\ req[r].pc \in {"create", "occupy"} => req[r].body \in NewEnds
    /\ req[r].pc \in {"occupy", "vacate", "write"} =>
           req[r].lease \in Rows /\ req[r].unit = lease[req[r].lease].unit
    /\ req[r].pc = "vacate" => req[r].body = "terminate"
    /\ req[r].pc = "write" => req[r].body \in PutBodies

\* The foreign key: a row names a unit that is there.
Keyed == \A l \in Rows : unit[lease[l].unit] # "absent"

\* One active lease, or one request past the check for it, but not both.
LetOnce(u) == u \notin overlapped =>
    /\ \A l, m \in ActiveOn(u) : l = m
    /\ \A r, s \in Creating(u) : r = s
    /\ ActiveOn(u) = {} \/ Creating(u) = {}

\* An occupied unit has a lease that stays; an active lease has its unit
\* occupied, about to be, or is being ended.
Occupying(l) == \E r \in Requests : req[r].pc = "occupy" /\ req[r].lease = l

Status(u) == u \notin unsettled \cup overlapped =>
    /\ unit[u] = "occupied" => \E l \in ActiveOn(u) : ~Ending(l)
    /\ \A l \in ActiveOn(u) : unit[u] = "occupied" \/ Ending(l) \/ Occupying(l)

\* A settled end is ahead and not on the job's list.
Settled ==
    /\ job.list \subseteq Rows
    /\ \A l \in settledEnd : /\ l \in Rows /\ lease[l].end = "ahead"
                             /\ job.pc = "converting" => l \notin job.list

Basics == TypeOK /\ Numbered /\ (\A r \in Requests : Asked(r)) /\ Keyed

LEMMA IdleTyped == Idle \in ReqRow /\ Idle.pc = "idle"
  BY DEF Idle, ReqRow, NewEnds

\* What a request's record becomes keeps its type.
LEMMA ReqKept ==
    ASSUME TypeOK, NEW r \in Requests, NEW record \in ReqRow, To(r, record)
    PROVE  /\ req' \in [Requests -> ReqRow] /\ req'[r] = record
           /\ \A s \in Requests : s # r => req'[s] = req[s]
  BY DEF TypeOK, To

LEMMA RowFields ==
    ASSUME NEW row \in LeaseRow
    PROVE  /\ RolledOver(row) \in LeaseRow
           /\ RolledOver(row).unit = row.unit /\ RolledOver(row).status = row.status
           /\ RolledOver(row).end = "none"
  BY DEF LeaseRow, RolledOver

LEMMA PutFields ==
    ASSUME NEW row \in LeaseRow, NEW body \in PutBodies
    PROVE  /\ Put(row, body) \in LeaseRow
           /\ Put(row, body).unit = row.unit
           /\ body = "terminate" => Put(row, body).status = "terminated" /\ Put(row, body).end = row.end
           /\ body # "terminate" => Put(row, body).status = row.status
           /\ body = "renew" => Put(row, body).end = "ahead"
           /\ body = "monthly" => Put(row, body).end = "none"
  <1>1. CASE body = "renew"
    BY <1>1 DEF Put, LeaseRow
  <1>2. CASE body = "monthly"
    BY <1>2, RowFields DEF Put, LeaseRow
  <1>3. CASE body = "terminate"
    BY <1>3 DEF Put, LeaseRow
  <1> QED
    BY <1>1, <1>2, <1>3 DEF PutBodies

LEMMA NewFields ==
    ASSUME NEW u \in Units, NEW t \in Tenants, NEW end \in NewEnds
    PROVE  /\ NewLease(u, t, end) \in LeaseRow
           /\ NewLease(u, t, end).unit = u /\ NewLease(u, t, end).status = "active"
  BY DEF NewLease, LeaseRow, NewEnds

LEMMA RowsTyped ==
    ASSUME TypeOK
    PROVE  /\ \A l \in Rows : l \in LeaseIds /\ lease[l] \in LeaseRow
           /\ \A l \in LeaseIds : lease[l] \in LeaseRow => l \in Rows
  BY NoneIsNoRow DEF TypeOK, Rows

--------------------------------------------------------------------------------
\* The first statements of a request read and remember; what they leave.
AskStep(r) ==
    \/ \E u \in Units, t \in Tenants, end \in NewEnds : PostLease(r, u, t, end)
    \/ \E t \in Tenants : Convert(r, t)
    \/ CreateTenant(r)
    \/ \E end \in NewEnds : ConvertLetCheck(r, end)
    \/ \E l \in LeaseIds, body \in PutBodies : PutLease(r, l, body)

NowConverting(r) ==
    req[r].pc = "idle" /\ RoomForLease
    /\ req'[r].pc = "account" /\ req'[r].tenant \in Tenants

NowChecking(r) ==
    /\ req[r].pc = "account"
    /\ req'[r].pc = "letCheck" /\ req'[r].tenant \in Tenants /\ req'[r].unit \in Units

NowCreating(r) ==
    /\ (req[r].pc = "idle" /\ RoomForLease) \/ req[r].pc = "letCheck"
    /\ req'[r].pc = "create" /\ req'[r].tenant \in Tenants /\ req'[r].unit \in Units
    /\ req'[r].body \in NewEnds
    /\ unit[req'[r].unit] # "absent" /\ ActiveOn(req'[r].unit) = {}
    /\ Creating(req'[r].unit) # {} => req'[r].unit \in overlapped'

NowWriting(r) ==
    req[r].pc = "idle"
    /\ req'[r].lease \in Rows /\ req'[r].unit = lease[req'[r].lease].unit
    /\ req'[r].body \in PutBodies
    /\ req'[r].pc = (IF req'[r].body = "terminate" THEN "vacate" ELSE "write")

GivenUp(r) == req[r].pc \in {"account", "letCheck"} /\ req'[r] = Idle

LEMMA AskEffect ==
    ASSUME Basics, NEW r \in Requests, AskStep(r)
    PROVE  /\ UNCHANGED <<unit, lease, job, deaths, unsettled, settledEnd>>
           /\ overlapped \subseteq overlapped' /\ overlapped' \in SUBSET Units
           /\ account' \in SUBSET Tenants
           /\ req' \in [Requests -> ReqRow] /\ \A s \in Requests : s # r => req'[s] = req[s]
           /\ NowConverting(r) \/ NowChecking(r) \/ NowCreating(r) \/ NowWriting(r) \/ GivenUp(r)
  <1> USE DEF Basics
  <1>r. req[r] \in ReqRow /\ overlapped \in SUBSET Units /\ account \in SUBSET Tenants
    BY DEF TypeOK
  <1>create. ASSUME NEW u \in Units, NEW t \in Tenants, NEW end \in NewEnds,
                    LeaseCheckPasses(u), PastCheck(r, u, t, end),
                    (req[r].pc = "idle" /\ RoomForLease) \/ req[r].pc = "letCheck"
             PROVE  /\ overlapped \subseteq overlapped' /\ overlapped' \in SUBSET Units
                    /\ req' \in [Requests -> ReqRow] /\ \A s \in Requests : s # r => req'[s] = req[s]
                    /\ NowCreating(r)
    <2> DEFINE record == [Idle EXCEPT !.pc = "create", !.unit = u, !.tenant = t, !.body = end]
    <2>1. /\ record \in ReqRow /\ record.pc = "create" /\ record.unit = u
          /\ record.tenant = t /\ record.body = end
      BY DEF Idle, ReqRow
    <2>2. To(r, record) /\ overlapped' = IF Creating(u) # {} THEN overlapped \cup {u} ELSE overlapped
      BY <1>create DEF PastCheck
    <2> HIDE DEF record
    <2>3. /\ req' \in [Requests -> ReqRow] /\ \A s \in Requests : s # r => req'[s] = req[s]
          /\ req'[r] = record
      BY <2>1, <2>2, ReqKept
    <2> QED
      BY <1>r, <1>create, <2>1, <2>2, <2>3 DEF NowCreating, LeaseCheckPasses
  <1>1. ASSUME NEW u \in Units, NEW t \in Tenants, NEW end \in NewEnds, PostLease(r, u, t, end)
        PROVE  NowCreating(r) /\ overlapped \subseteq overlapped' /\ overlapped' \in SUBSET Units
               /\ req' \in [Requests -> ReqRow] /\ \A s \in Requests : s # r => req'[s] = req[s]
    BY <1>1, <1>create, IdleTyped DEF PostLease
  <1>2. ASSUME NEW end \in NewEnds, ConvertLetCheck(r, end)
        PROVE  (NowCreating(r) \/ GivenUp(r))
               /\ overlapped \subseteq overlapped' /\ overlapped' \in SUBSET Units
               /\ req' \in [Requests -> ReqRow] /\ \A s \in Requests : s # r => req'[s] = req[s]
    <2>1. req[r].pc = "letCheck" /\ req[r].unit \in Units /\ req[r].tenant \in Tenants
      BY <1>2 DEF ConvertLetCheck, Asked
    <2>2. CASE Done(r) /\ UNCHANGED overlapped
      BY <1>r, <2>1, <2>2, ReqKept, IdleTyped DEF Done, GivenUp
    <2>3. CASE LeaseCheckPasses(req[r].unit) /\ PastCheck(r, req[r].unit, req[r].tenant, end)
      BY <2>1, <2>3, <1>create
    <2> QED
      BY <1>2, <2>2, <2>3 DEF ConvertLetCheck
  <1>3. ASSUME NEW t \in Tenants, Convert(r, t)
        PROVE  /\ NowConverting(r)
               /\ req' \in [Requests -> ReqRow] /\ \A s \in Requests : s # r => req'[s] = req[s]
    <2> DEFINE record == [Idle EXCEPT !.pc = "account", !.tenant = t]
    <2>1. record \in ReqRow /\ record.pc = "account" /\ record.tenant = t
      BY DEF Idle, ReqRow, NewEnds
    <2>2. To(r, record) /\ req[r] = Idle /\ RoomForLease
      BY <1>3 DEF Convert
    <2> HIDE DEF record
    <2> QED
      BY <2>1, <2>2, ReqKept, IdleTyped DEF NowConverting
  <1>4. ASSUME CreateTenant(r)
        PROVE  /\ NowChecking(r) \/ GivenUp(r)
               /\ account' \in SUBSET Tenants
               /\ req' \in [Requests -> ReqRow] /\ \A s \in Requests : s # r => req'[s] = req[s]
    <2>1. req[r].pc = "account" /\ req[r].tenant \in Tenants
      BY <1>4 DEF CreateTenant, Asked
    <2>2. account' \in SUBSET Tenants
      BY <1>r, <1>4, <2>1 DEF CreateTenant
    <2>3. CASE Done(r)
      BY <2>1, <2>2, <2>3, ReqKept, IdleTyped DEF Done, GivenUp
    <2>4. ASSUME NEW u \in Units, To(r, [req[r] EXCEPT !.pc = "letCheck", !.unit = u])
          PROVE  /\ NowChecking(r)
                 /\ req' \in [Requests -> ReqRow] /\ \A s \in Requests : s # r => req'[s] = req[s]
      <3> DEFINE record == [req[r] EXCEPT !.pc = "letCheck", !.unit = u]
      <3>1. /\ record \in ReqRow /\ record.pc = "letCheck" /\ record.unit = u
            /\ record.tenant = req[r].tenant
        BY <1>r DEF ReqRow
      <3>2. To(r, record)
        BY <2>4
      <3> HIDE DEF record
      <3> QED
        BY <2>1, <3>1, <3>2, ReqKept DEF NowChecking
    <2> QED
      BY <1>4, <2>2, <2>3, <2>4 DEF CreateTenant
  <1>5. ASSUME NEW l \in LeaseIds, NEW body \in PutBodies, PutLease(r, l, body)
        PROVE  /\ NowWriting(r)
               /\ req' \in [Requests -> ReqRow] /\ \A s \in Requests : s # r => req'[s] = req[s]
    <2> DEFINE record == [Idle EXCEPT !.pc = IF body = "terminate" THEN "vacate" ELSE "write",
                                      !.unit = lease[l].unit, !.lease = l, !.body = body]
    <2>1. l \in Rows /\ lease[l].unit \in Units /\ req[r] = Idle /\ To(r, record)
      BY <1>5, RowsTyped DEF PutLease, LeaseRow
    <2>2. /\ record \in ReqRow /\ record.lease = l /\ record.unit = lease[l].unit /\ record.body = body
          /\ record.pc = IF body = "terminate" THEN "vacate" ELSE "write"
      BY <2>1 DEF Idle, ReqRow
    <2> HIDE DEF record
    <2> QED
      BY <2>1, <2>2, ReqKept, IdleTyped DEF NowWriting
  <1>6. UNCHANGED <<unit, lease, job, deaths, unsettled, settledEnd>>
    BY DEF AskStep, PostLease, Convert, CreateTenant, ConvertLetCheck, PutLease
  <1>7. ASSUME CreateTenant(r) \/ \E t \in Tenants : Convert(r, t)
        PROVE  UNCHANGED overlapped
    BY <1>7 DEF CreateTenant, Convert
  <1>8. ASSUME ~CreateTenant(r) PROVE UNCHANGED account
    BY <1>8 DEF AskStep, PostLease, Convert, ConvertLetCheck, PutLease
  <1>9. ASSUME NEW l \in LeaseIds, NEW body \in PutBodies, PutLease(r, l, body)
        PROVE  UNCHANGED overlapped
    BY <1>9 DEF PutLease
  <1> QED
    BY <1>r, <1>1, <1>2, <1>3, <1>4, <1>5, <1>6, <1>7, <1>8, <1>9 DEF AskStep

\* A row that is written again stays where it is; only its status tells
\* whether it is still active.
LEMMA Rewrite ==
    ASSUME TypeOK, NEW l \in Rows, NEW row \in LeaseRow, row.unit = lease[l].unit,
           lease' = [lease EXCEPT ![l] = row]
    PROVE  /\ lease' \in [LeaseIds -> LeaseRow \cup {None}] /\ Rows' = Rows
           /\ lease'[l] = row /\ \A m \in LeaseIds : m # l => lease'[m] = lease[m]
           /\ \A m \in Rows : lease'[m].unit = lease[m].unit
           /\ row.status = lease[l].status => \A u \in Units : ActiveOn(u)' = ActiveOn(u)
           /\ row.status = "terminated" => \A u \in Units : ActiveOn(u)' = ActiveOn(u) \ {l}
  <1>1. /\ lease' \in [LeaseIds -> LeaseRow \cup {None}]
        /\ lease'[l] = row /\ \A m \in LeaseIds : m # l => lease'[m] = lease[m]
    BY DEF TypeOK, Rows
  <1>2. Rows' = Rows
    BY <1>1, NoneIsNoRow DEF Rows
  <1>3. \A m \in Rows : lease'[m].unit = lease[m].unit
    BY <1>1 DEF Rows
  <1>4. ASSUME row.status = lease[l].status, NEW u \in Units PROVE ActiveOn(u)' = ActiveOn(u)
    <2>1. \A m \in Rows : lease'[m].unit = lease[m].unit /\ lease'[m].status = lease[m].status
      BY <1>1, <1>4 DEF Rows
    <2> QED
      BY <1>2, <2>1 DEF ActiveOn
  <1>5. ASSUME row.status = "terminated", NEW u \in Units PROVE ActiveOn(u)' = ActiveOn(u) \ {l}
    <2>1. \A m \in Rows : m # l => lease'[m] = lease[m]
      BY <1>1 DEF Rows
    <2>2. lease'[l].status = "terminated"
      BY <1>1, <1>5
    <2> QED
      BY <1>2, <2>1, <2>2 DEF ActiveOn
  <1> QED
    BY <1>1, <1>2, <1>3, <1>4, <1>5

LEMMA RowsFinite ==
    ASSUME TypeOK
    PROVE  /\ IsFiniteSet(Rows) /\ Cardinality(Rows) \in Nat
           /\ IsFiniteSet(Pending) /\ Cardinality(Pending) \in Nat
  <1>1. IsFiniteSet(Rows)
    <2>1. IsFiniteSet(1..MaxLeases)
      BY MaxLeasesNat, FS_Interval
    <2>2. Rows \subseteq 1..MaxLeases
      BY DEF Rows, LeaseIds
    <2> QED
      BY <2>1, <2>2, FS_Subset
  <1>2. IsFiniteSet(Pending)
    BY RequestsFinite, FS_Subset DEF Pending
  <1> QED
    BY <1>1, <1>2, FS_CardinalityType

LEMMA NumberedKept ==
    ASSUME TypeOK, Numbered, Rows' = Rows, Pending' \subseteq Pending
    PROVE  Numbered'
  <1>1. Cardinality(Pending') <= Cardinality(Pending) /\ Cardinality(Pending') \in Nat
    BY RowsFinite, FS_Subset, FS_CardinalityType
  <1>2. Rows' = 1..Cardinality(Rows') /\ Cardinality(Rows') = Cardinality(Rows)
    BY DEF Numbered
  <1> QED
    BY <1>1, <1>2, RowsFinite, MaxLeasesNat DEF Numbered

LEMMA NumberedAsked ==
    ASSUME TypeOK, Numbered, Rows' = Rows, RoomForLease,
           NEW r \in Requests, Pending' \subseteq Pending \cup {r}
    PROVE  Numbered'
  <1>1. /\ Cardinality(Pending \cup {r}) <= Cardinality(Pending) + 1
        /\ IsFiniteSet(Pending \cup {r}) /\ Cardinality(Pending \cup {r}) \in Nat
    <2>1. IsFiniteSet(Pending \cup {r})
          /\ \/ Cardinality(Pending \cup {r}) = Cardinality(Pending)
             \/ Cardinality(Pending \cup {r}) = Cardinality(Pending) + 1
      BY RowsFinite, FS_AddElement, Zenon
    <2>2. Cardinality(Pending \cup {r}) \in Nat
      BY <2>1, FS_CardinalityType
    <2> QED
      BY <2>1, <2>2, RowsFinite
  <1>2. Cardinality(Pending') <= Cardinality(Pending \cup {r}) /\ Cardinality(Pending') \in Nat
    BY <1>1, FS_Subset, FS_CardinalityType
  <1>3. Rows' = 1..Cardinality(Rows') /\ Cardinality(Rows') = Cardinality(Rows)
    BY DEF Numbered
  <1>4. Cardinality(Rows) + Cardinality(Pending) < MaxLeases
    BY DEF RoomForLease, Pending
  <1> QED
    BY <1>1, <1>2, <1>3, <1>4, RowsFinite, MaxLeasesNat DEF Numbered

\* lease.create: a row of its own, active on the request's unit.
NewRow(r) ==
    /\ req'[r].pc = "occupy" /\ req'[r].unit = req[r].unit /\ req'[r].body = req[r].body
    /\ unit[req[r].unit] # "absent"
    /\ req'[r].lease \notin Rows /\ Rows' = Rows \cup {req'[r].lease}
    /\ lease'[req'[r].lease].unit = req[r].unit
    /\ \A l \in Rows : lease'[l] = lease[l]
    /\ \A u \in Units : ActiveOn(u)' = IF u = req[r].unit THEN ActiveOn(u) \cup {req'[r].lease}
                                                          ELSE ActiveOn(u)

LEMMA CreateEffect ==
    ASSUME Basics, NEW r \in Requests, CreateLease(r)
    PROVE  /\ UNCHANGED <<unit, account, job, deaths, overlapped, unsettled, settledEnd>>
           /\ req' \in [Requests -> ReqRow] /\ \A s \in Requests : s # r => req'[s] = req[s]
           /\ lease' \in [LeaseIds -> LeaseRow \cup {None}]
           /\ \/ req'[r] = Idle /\ lease' = lease
              \/ NewRow(r) /\ Numbered'
  <1> DEFINE u == req[r].unit
             l == Cardinality(Rows) + 1
  <1> USE DEF Basics
  <1>1. /\ UNCHANGED <<unit, account, job, deaths, overlapped, unsettled, settledEnd>>
        /\ req[r].pc = "create" /\ u \in Units /\ req[r].tenant \in Tenants /\ req[r].body \in NewEnds
        /\ req[r] \in ReqRow
    BY DEF CreateLease, Asked, TypeOK
  <1>2. CASE unit[u] = "absent" /\ Done(r) /\ UNCHANGED lease
    BY <1>1, <1>2, ReqKept, IdleTyped DEF Done, TypeOK
  <1>3. ASSUME unit[u] # "absent", lease' = [lease EXCEPT ![l] = NewLease(u, req[r].tenant, req[r].body)],
               To(r, [req[r] EXCEPT !.pc = "occupy", !.lease = l])
        PROVE  /\ req' \in [Requests -> ReqRow] /\ \A s \in Requests : s # r => req'[s] = req[s]
               /\ lease' \in [LeaseIds -> LeaseRow \cup {None}]
               /\ NewRow(r) /\ Numbered'
    <2>1. Cardinality(Pending) >= 1
      <3>1. Pending # {}
        BY <1>1 DEF Pending
      <3> QED
        BY <3>1, RowsFinite, FS_EmptySet
    <2>2. l \in LeaseIds /\ l \notin Rows /\ l \in Nat
      BY <2>1, RowsFinite, MaxLeasesNat DEF Numbered, LeaseIds
    <2> DEFINE row == NewLease(u, req[r].tenant, req[r].body)
               record == [req[r] EXCEPT !.pc = "occupy", !.lease = l]
    <2>3. row \in LeaseRow /\ row.unit = u /\ row.status = "active"
      BY <1>1, NewFields
    <2>4. /\ record \in ReqRow /\ record.pc = "occupy" /\ record.lease = l
          /\ record.unit = u /\ record.body = req[r].body
      BY <1>1, <2>2 DEF ReqRow
    <2> HIDE DEF row, record, l, u
    <2>5. /\ req' \in [Requests -> ReqRow] /\ \A s \in Requests : s # r => req'[s] = req[s]
          /\ req'[r] = record
      BY <1>3, <2>4, ReqKept DEF record
    <2>6. /\ lease' \in [LeaseIds -> LeaseRow \cup {None}]
          /\ lease'[l] = row /\ \A m \in LeaseIds : m # l => lease'[m] = lease[m]
      BY <1>3, <2>2, <2>3 DEF TypeOK, row
    <2>7. Rows' = Rows \cup {l}
      BY <2>2, <2>3, <2>6, NoneIsNoRow DEF Rows
    <2>8. \A m \in Rows : m # l /\ lease'[m] = lease[m]
      BY <2>2, <2>6 DEF Rows
    <2>9. \A v \in Units : ActiveOn(v)' = IF v = u THEN ActiveOn(v) \cup {l} ELSE ActiveOn(v)
      BY <2>3, <2>6, <2>7, <2>8 DEF ActiveOn
    <2>10. NewRow(r)
      BY <1>3, <2>2, <2>3, <2>4, <2>5, <2>6, <2>7, <2>8, <2>9 DEF NewRow, u
    <2>11. Numbered'
      <3>1. Cardinality(Rows \cup {l}) = Cardinality(Rows) + 1
        BY <2>2, RowsFinite, FS_AddElement
      <3>2. Cardinality(Rows') = Cardinality(Rows) + 1
        BY <2>7, <3>1, Zenon
      <3>3. Rows' = 1..(Cardinality(Rows) + 1)
        BY <2>7, RowsFinite DEF Numbered, l
      <3>4. Pending' = Pending \ {r} /\ r \in Pending
        BY <1>1, <2>4, <2>5 DEF Pending
      <3>5. Cardinality(Pending \ {r}) = Cardinality(Pending) - 1
        BY <3>4, RowsFinite, FS_RemoveElement
      <3>6. Cardinality(Pending') = Cardinality(Pending) - 1
        BY <3>4, <3>5, Zenon
      <3> QED
        BY <3>2, <3>3, <3>6, RowsFinite, MaxLeasesNat DEF Numbered
    <2> QED
      BY <2>5, <2>6, <2>10, <2>11
  <1> QED
    BY <1>1, <1>2, <1>3 DEF CreateLease

--------------------------------------------------------------------------------
\* The steps that leave every row on its unit and ask for no new row.
LEMMA Settles ==
    ASSUME Basics, TypeOK', Rows' = Rows, \A l \in Rows : lease'[l].unit = lease[l].unit,
           \A l \in Rows : unit'[lease[l].unit] # "absent",
           \A s \in Requests : req'[s] = req[s] \/ (Asked(s)' /\ s \notin Pending')
    PROVE  Basics'
  <1>1. Numbered'
    <2>1. Pending' \subseteq Pending
      BY DEF Pending
    <2> QED
      BY <2>1, NumberedKept DEF Basics
  <1>2. ASSUME NEW s \in Requests PROVE Asked(s)'
    <2>1. CASE req'[s] = req[s]
      BY <2>1 DEF Basics, Asked
    <2> QED
      BY <2>1
  <1>3. Keyed'
    BY DEF Basics, Keyed
  <1> QED
    BY <1>1, <1>2, <1>3 DEF Basics

LEMMA AskBasics ==
    ASSUME Basics, NEW r \in Requests, AskStep(r)
    PROVE  Basics'
  <1>e. /\ UNCHANGED <<unit, lease, job, deaths, unsettled, settledEnd>>
        /\ overlapped' \in SUBSET Units /\ account' \in SUBSET Tenants
        /\ req' \in [Requests -> ReqRow] /\ \A s \in Requests : s # r => req'[s] = req[s]
        /\ NowConverting(r) \/ NowChecking(r) \/ NowCreating(r) \/ NowWriting(r) \/ GivenUp(r)
    BY AskEffect
  <1>1. TypeOK'
    BY <1>e DEF Basics, TypeOK
  <1>2. Rows' = Rows
    BY <1>e DEF Rows
  <1>3. Numbered'
    <2>1. CASE RoomForLease
      <3>1. Pending' \subseteq Pending \cup {r}
        BY <1>e DEF Pending
      <3> QED
        BY <1>2, <2>1, <3>1, NumberedAsked DEF Basics
    <2>2. CASE ~RoomForLease
      <3>1. Pending' \subseteq Pending
        BY <1>e, <2>2, IdleTyped DEF Pending, NowConverting, NowChecking, NowCreating, NowWriting, GivenUp
      <3> QED
        BY <1>2, <3>1, NumberedKept DEF Basics
    <2> QED
      BY <2>1, <2>2
  <1>4. ASSUME NEW s \in Requests PROVE Asked(s)'
    <2>1. CASE s # r
      BY <1>e, <1>2, <2>1 DEF Basics, Asked
    <2>2. Asked(r)'
      BY <1>e, <1>2, IdleTyped
         DEF Asked, NowConverting, NowChecking, NowCreating, NowWriting, GivenUp, Idle
    <2> QED
      BY <2>1, <2>2
  <1>5. Keyed'
    BY <1>e, <1>2 DEF Basics, Keyed
  <1> QED
    BY <1>1, <1>3, <1>4, <1>5 DEF Basics

LEMMA CreateBasics ==
    ASSUME Basics, NEW r \in Requests, CreateLease(r)
    PROVE  Basics'
  <1>e. /\ UNCHANGED <<unit, account, job, deaths, overlapped, unsettled, settledEnd>>
        /\ req' \in [Requests -> ReqRow] /\ \A s \in Requests : s # r => req'[s] = req[s]
        /\ lease' \in [LeaseIds -> LeaseRow \cup {None}]
        /\ \/ req'[r] = Idle /\ lease' = lease
           \/ NewRow(r) /\ Numbered'
    BY CreateEffect
  <1>1. TypeOK'
    BY <1>e DEF Basics, TypeOK
  <1>2. CASE req'[r] = Idle /\ lease' = lease
    <2>1. Rows' = Rows /\ Asked(r)' /\ r \notin Pending'
      BY <1>2, IdleTyped DEF Rows, Asked, Pending
    <2> QED
      BY <1>e, <1>1, <1>2, <2>1, Settles DEF Basics, Keyed
  <1>3. CASE NewRow(r) /\ Numbered'
    <2>1. Asked(r)'
      BY <1>3 DEF NewRow, Asked, Basics, CreateLease
    <2>2. ASSUME NEW s \in Requests, s # r PROVE Asked(s)'
      BY <1>e, <1>3, <2>2 DEF NewRow, Asked, Basics
    <2>3. Keyed'
      BY <1>e, <1>3 DEF NewRow, Keyed, Basics
    <2> QED
      BY <1>1, <1>3, <2>1, <2>2, <2>3 DEF Basics
  <1> QED
    BY <1>e, <1>2, <1>3

\* unit.update, lease.update and a request's death.
LEMMA UpdateBasics ==
    ASSUME Basics, NEW r \in Requests,
           OccupyUnit(r) \/ VacateUnit(r) \/ WriteLease(r) \/ RequestDies(r)
    PROVE  Basics'
  <1> USE DEF Basics
  <1>r. req[r] \in ReqRow /\ unit \in [Units -> {"absent", "vacant", "occupied", "maintenance"}]
    BY DEF TypeOK
  <1>idle. ASSUME Done(r)
           PROVE  /\ req' \in [Requests -> ReqRow]
                  /\ \A s \in Requests : req'[s] = req[s] \/ (Asked(s)' /\ s \notin Pending')
    <2>1. /\ req' \in [Requests -> ReqRow] /\ req'[r] = Idle
          /\ \A s \in Requests : s # r => req'[s] = req[s]
      BY <1>idle, ReqKept, IdleTyped DEF Done
    <2>2. Asked(r)' /\ r \notin Pending'
      BY <2>1, IdleTyped DEF Asked, Pending
    <2> QED
      BY <2>1, <2>2
  <1>1. CASE OccupyUnit(r)
    <2>1. /\ unit' = [unit EXCEPT ![req[r].unit] = "occupied"] /\ Done(r)
          /\ unsettled' \in {unsettled \ {req[r].unit}, unsettled \cup {req[r].unit}}
          /\ UNCHANGED <<account, lease, job, deaths, overlapped, settledEnd>>
      BY <1>1 DEF OccupyUnit
    <2>2. req[r].unit \in Units
      BY <1>1, RowsTyped DEF OccupyUnit, Asked, LeaseRow
    <2>3. TypeOK' /\ Rows' = Rows
      BY <1>idle, <2>1, <2>2 DEF TypeOK, Rows
    <2>4. \A l \in Rows : unit'[lease[l].unit] # "absent"
      BY <1>r, <2>1, RowsTyped DEF Keyed, LeaseRow
    <2> QED
      BY <1>idle, <2>1, <2>3, <2>4, Settles
  <1>2. CASE VacateUnit(r)
    <2> DEFINE record == [req[r] EXCEPT !.pc = "write"]
    <2>1. /\ unit' = [unit EXCEPT ![req[r].unit] = "vacant"] /\ To(r, record)
          /\ unsettled' \in {unsettled, unsettled \cup {req[r].unit}}
          /\ UNCHANGED <<account, lease, job, deaths, overlapped, settledEnd>>
      BY <1>2 DEF VacateUnit
    <2>2. req[r].unit \in Units
      BY <1>2, RowsTyped DEF VacateUnit, Asked, LeaseRow
    <2>3. /\ record \in ReqRow /\ record.pc = "write" /\ record.lease = req[r].lease
          /\ record.unit = req[r].unit /\ record.body = req[r].body
      BY <1>r DEF ReqRow
    <2> HIDE DEF record
    <2>4. /\ req' \in [Requests -> ReqRow] /\ req'[r] = record
          /\ \A s \in Requests : s # r => req'[s] = req[s]
      BY <2>1, <2>3, ReqKept
    <2>5. TypeOK' /\ Rows' = Rows
      BY <2>1, <2>2, <2>4 DEF TypeOK, Rows
    <2>6. Asked(r)' /\ r \notin Pending'
      BY <1>2, <2>1, <2>3, <2>4, <2>5 DEF VacateUnit, Asked, PutBodies, Pending
    <2>7. \A l \in Rows : unit'[lease[l].unit] # "absent"
      BY <1>r, <2>1, RowsTyped DEF Keyed, LeaseRow
    <2> QED
      BY <2>1, <2>4, <2>5, <2>6, <2>7, Settles
  <1>3. CASE WriteLease(r)
    <2> DEFINE l == req[r].lease
               row == Put(lease[l], req[r].body)
    <2>1. /\ l \in Rows /\ req[r].body \in PutBodies /\ lease' = [lease EXCEPT ![l] = row] /\ Done(r)
          /\ settledEnd' \in {settledEnd, settledEnd \cup {l}, settledEnd \ {l}}
          /\ UNCHANGED <<unit, account, job, deaths, overlapped, unsettled>>
      BY <1>3 DEF WriteLease, Asked
    <2>2. lease[l] \in LeaseRow /\ row \in LeaseRow /\ row.unit = lease[l].unit /\ l \in LeaseIds
      BY <2>1, RowsTyped, PutFields
    <2> HIDE DEF row, l
    <2>3. /\ lease' \in [LeaseIds -> LeaseRow \cup {None}] /\ Rows' = Rows
          /\ \A m \in Rows : lease'[m].unit = lease[m].unit
      BY <2>1, <2>2, Rewrite
    <2>4. TypeOK'
      BY <1>idle, <2>1, <2>2, <2>3 DEF TypeOK
    <2> QED
      BY <1>idle, <2>1, <2>3, <2>4, Settles DEF Keyed
  <1>4. CASE RequestDies(r)
    <2>1. /\ Done(r) /\ deaths' \in 0..MaxDeaths
          /\ UNCHANGED <<unit, account, lease, job, overlapped, settledEnd>>
      BY <1>4, MaxDeathsNat DEF RequestDies, TypeOK
    <2>2. unsettled' \in SUBSET Units
      BY <1>4, RowsTyped DEF RequestDies, TypeOK, Asked, LeaseRow
    <2>3. TypeOK' /\ Rows' = Rows
      BY <1>idle, <2>1, <2>2 DEF TypeOK, Rows
    <2> QED
      BY <1>idle, <2>1, <2>3, Settles DEF Keyed
  <1> QED
    BY <1>1, <1>2, <1>3, <1>4

--------------------------------------------------------------------------------
\* The steps no request takes: the unit form, the job, the passing of an end.
OtherStep ==
    \/ \E u \in Units : AddUnit(u) \/ DeleteUnit(u)
    \/ \E u \in Units, s \in {"vacant", "occupied", "maintenance"} : PutUnit(u, s)
    \/ \E l \in LeaseIds : EndPasses(l)
    \/ JobStep \/ JobDies
    \/ UNCHANGED vars

\* A status set without a look at the leases is noted as unsettled.
LEMMA OtherEffect ==
    ASSUME Basics, Settled, OtherStep
    PROVE  /\ Basics' /\ UNCHANGED <<req, overlapped>>
           /\ \A u \in Units : ActiveOn(u)' = ActiveOn(u)
           /\ unsettled \subseteq unsettled'
           /\ \A u \in Units : \/ unit'[u] = unit[u] \/ u \in unsettled'
                               \/ ActiveOn(u) = {} /\ unit'[u] # "occupied"
  <1> USE DEF Basics
  <1>t. /\ unit \in [Units -> {"absent", "vacant", "occupied", "maintenance"}]
        /\ job.pc \in {"off", "reminding", "converting"} /\ job.list \in SUBSET LeaseIds
        /\ settledEnd \in SUBSET LeaseIds
    BY DEF TypeOK
  <1>1. ASSUME NEW u \in Units, NEW s \in {"absent", "vacant", "occupied", "maintenance"},
               unit' = [unit EXCEPT ![u] = s],
               s = "absent" => \A l \in Rows : lease[l].unit # u,
               unsettled' \in {unsettled, unsettled \cup {u}},
               u \in unsettled' \/ (ActiveOn(u) = {} /\ s # "occupied"),
               UNCHANGED <<account, lease, req, job, deaths, overlapped, settledEnd>>
        PROVE  /\ Basics' /\ \A v \in Units : ActiveOn(v)' = ActiveOn(v)
               /\ \A v \in Units : \/ unit'[v] = unit[v] \/ v \in unsettled'
                                   \/ ActiveOn(v) = {} /\ unit'[v] # "occupied"
    <2>1. Rows' = Rows /\ \A v \in Units : ActiveOn(v)' = ActiveOn(v)
      BY <1>1 DEF Rows, ActiveOn
    <2>2. TypeOK'
      BY <1>1 DEF TypeOK
    <2>3. \A l \in Rows : unit'[lease[l].unit] # "absent"
      BY <1>t, <1>1, RowsTyped DEF Keyed, LeaseRow
    <2>4. Basics'
      BY <1>1, <2>1, <2>2, <2>3, Settles
    <2> QED
      BY <1>t, <1>1, <2>1, <2>4
  <1>2. ASSUME NEW u \in Units, AddUnit(u)
        PROVE  /\ unit' = [unit EXCEPT ![u] = "vacant"] /\ unsettled' = unsettled
               /\ ActiveOn(u) = {}
               /\ UNCHANGED <<account, lease, req, job, deaths, overlapped, settledEnd>>
    BY <1>2 DEF AddUnit, Keyed, ActiveOn
  <1>3. ASSUME NEW u \in Units, DeleteUnit(u)
        PROVE  /\ unit' = [unit EXCEPT ![u] = "absent"] /\ unsettled' = unsettled
               /\ ActiveOn(u) = {} /\ \A l \in Rows : lease[l].unit # u
               /\ UNCHANGED <<account, lease, req, job, deaths, overlapped, settledEnd>>
    BY <1>3 DEF DeleteUnit
  <1>4. ASSUME NEW u \in Units, NEW s \in {"vacant", "occupied", "maintenance"}, PutUnit(u, s)
        PROVE  /\ unit' = [unit EXCEPT ![u] = s] /\ unsettled' = unsettled \cup {u}
               /\ UNCHANGED <<account, lease, req, job, deaths, overlapped, settledEnd>>
    BY <1>4 DEF PutUnit
  <1>5. ASSUME NEW l \in Rows, NEW row \in LeaseRow, lease' = [lease EXCEPT ![l] = row],
               row.unit = lease[l].unit, row.status = lease[l].status,
               job' \in [pc : {"off", "reminding", "converting"}, list : SUBSET LeaseIds],
               settledEnd' \in SUBSET LeaseIds,
               UNCHANGED <<unit, account, req, deaths, overlapped, unsettled>>
        PROVE  Basics' /\ \A v \in Units : ActiveOn(v)' = ActiveOn(v)
    <2>1. /\ lease' \in [LeaseIds -> LeaseRow \cup {None}] /\ Rows' = Rows
          /\ \A m \in Rows : lease'[m].unit = lease[m].unit
          /\ \A v \in Units : ActiveOn(v)' = ActiveOn(v)
      BY <1>5, Rewrite
    <2>2. TypeOK'
      BY <1>5, <2>1 DEF TypeOK
    <2> QED
      BY <1>5, <2>1, <2>2, Settles DEF Keyed
  <1>6. ASSUME NEW l \in LeaseIds, EndPasses(l)
        PROVE  Basics' /\ \A v \in Units : ActiveOn(v)' = ActiveOn(v)
    <2> DEFINE row == [lease[l] EXCEPT !.end = "past"]
    <2>1. l \in Rows /\ lease[l] \in LeaseRow
      BY <1>6, RowsTyped DEF EndPasses
    <2>2. row \in LeaseRow /\ row.unit = lease[l].unit /\ row.status = lease[l].status
      BY <2>1 DEF LeaseRow
    <2>3. /\ lease' = [lease EXCEPT ![l] = row] /\ settledEnd' = settledEnd \ {l}
          /\ UNCHANGED <<unit, account, req, job, deaths, overlapped, unsettled>>
      BY <1>6 DEF EndPasses
    <2>4. job' \in [pc : {"off", "reminding", "converting"}, list : SUBSET LeaseIds]
      BY <2>3 DEF TypeOK
    <2> HIDE DEF row
    <2> QED
      BY <1>t, <1>5, <2>1, <2>2, <2>3, <2>4
  <1>7. ASSUME NEW l \in LeaseIds, JobConvert(l)
        PROVE  Basics' /\ \A v \in Units : ActiveOn(v)' = ActiveOn(v)
    <2>1. l \in Rows /\ lease[l] \in LeaseRow
      BY <1>7, RowsTyped DEF JobConvert, Settled
    <2>2. /\ lease' = [lease EXCEPT ![l] = RolledOver(lease[l])]
          /\ job' = IF job.list = {l} THEN NoJob ELSE [job EXCEPT !.list = @ \ {l}]
          /\ UNCHANGED <<unit, account, req, deaths, overlapped, unsettled, settledEnd>>
      BY <1>7 DEF JobConvert
    <2>3. job' \in [pc : {"off", "reminding", "converting"}, list : SUBSET LeaseIds]
      BY <2>2 DEF TypeOK, NoJob
    <2> QED
      BY <1>t, <1>5, <2>1, <2>2, <2>3, RowFields
  <1>8. ASSUME JobRemind \/ JobRead \/ JobDies \/ UNCHANGED vars
        PROVE  /\ Basics' /\ \A v \in Units : ActiveOn(v)' = ActiveOn(v)
               /\ UNCHANGED <<unit, req, overlapped, unsettled>>
    <2>1. UNCHANGED <<unit, account, lease, req, overlapped, unsettled, settledEnd>>
      BY <1>8 DEF JobRemind, JobRead, JobDies, vars
    <2>2. deaths' \in 0..MaxDeaths
      BY <1>8, MaxDeathsNat DEF JobRemind, JobRead, JobDies, vars, TypeOK
    <2>3. job' \in [pc : {"off", "reminding", "converting"}, list : SUBSET LeaseIds]
      <3>1. CASE JobRemind
        BY <3>1 DEF JobRemind, NoJob, TypeOK
      <3>2. CASE JobRead
        BY <3>2 DEF JobRead, NoJob
      <3>3. CASE JobDies \/ UNCHANGED vars
        BY <3>3 DEF JobDies, NoJob, vars, TypeOK
      <3> QED
        BY <1>8, <3>1, <3>2, <3>3
    <2>4. TypeOK'
      BY <2>1, <2>2, <2>3 DEF TypeOK
    <2>5. Rows' = Rows /\ \A v \in Units : ActiveOn(v)' = ActiveOn(v)
      BY <2>1 DEF Rows, ActiveOn
    <2> QED
      BY <2>1, <2>4, <2>5, Settles DEF Keyed
  <1>9. CASE \E u \in Units : AddUnit(u) \/ DeleteUnit(u)
    BY <1>1, <1>2, <1>3, <1>9
  <1>10. CASE \E u \in Units, s \in {"vacant", "occupied", "maintenance"} : PutUnit(u, s)
    BY <1>1, <1>4, <1>10
  <1>11. CASE \E l \in LeaseIds : EndPasses(l)
    BY <1>6, <1>11 DEF EndPasses
  <1>12. CASE JobStep
    BY <1>7, <1>8, <1>12 DEF JobStep, JobConvert
  <1>13. CASE JobDies \/ UNCHANGED vars
    BY <1>8, <1>13
  <1> QED
    BY <1>9, <1>10, <1>11, <1>12, <1>13 DEF OtherStep

\* What the later statements do to the records, the active leases and the ends.
LEMMA UpdateEffect ==
    ASSUME Basics, NEW r \in Requests,
           OccupyUnit(r) \/ VacateUnit(r) \/ WriteLease(r) \/ RequestDies(r)
    PROVE  /\ \A s \in Requests : s # r => req'[s] = req[s]
           /\ IF VacateUnit(r) THEN req'[r] = [req[r] EXCEPT !.pc = "write"] ELSE req'[r] = Idle
           /\ \A u \in Units : ActiveOn(u)' =
                  IF WriteLease(r) /\ req[r].body = "terminate"
                  THEN ActiveOn(u) \ {req[r].lease} ELSE ActiveOn(u)
           /\ UNCHANGED overlapped
  <1> USE DEF Basics
  <1>r. req[r] \in ReqRow /\ Idle \in ReqRow
    BY IdleTyped DEF TypeOK
  <1>1. CASE VacateUnit(r)
    <2>1. ~WriteLease(r) /\ UNCHANGED <<lease, overlapped>>
      BY <1>1 DEF VacateUnit, WriteLease
    <2>2. \A u \in Units : ActiveOn(u)' = ActiveOn(u)
      BY <2>1 DEF ActiveOn, Rows
    <2>3. To(r, [req[r] EXCEPT !.pc = "write"]) /\ [req[r] EXCEPT !.pc = "write"] \in ReqRow
      BY <1>r, <1>1 DEF VacateUnit, ReqRow
    <2> QED
      BY <1>1, <2>1, <2>2, <2>3, ReqKept
  <1>2. ASSUME ~VacateUnit(r)
        PROVE  req'[r] = Idle /\ \A s \in Requests : s # r => req'[s] = req[s]
    <2>1. Done(r)
      BY <1>2 DEF OccupyUnit, WriteLease, RequestDies
    <2> QED
      BY <1>r, <2>1, ReqKept DEF Done
  <1>3. CASE (OccupyUnit(r) \/ RequestDies(r)) /\ ~VacateUnit(r) /\ ~WriteLease(r)
    <2>1. UNCHANGED <<lease, overlapped>>
      BY <1>3 DEF OccupyUnit, RequestDies
    <2>2. \A u \in Units : ActiveOn(u)' = ActiveOn(u)
      BY <2>1 DEF ActiveOn, Rows
    <2> QED
      BY <1>2, <1>3, <2>1, <2>2
  <1>4. CASE WriteLease(r)
    <2> DEFINE l == req[r].lease
               row == Put(lease[l], req[r].body)
    <2>1. /\ l \in Rows /\ req[r].body \in PutBodies /\ lease' = [lease EXCEPT ![l] = row]
          /\ UNCHANGED overlapped /\ ~VacateUnit(r)
      BY <1>4 DEF WriteLease, Asked, VacateUnit
    <2>2. /\ row \in LeaseRow /\ row.unit = lease[l].unit
          /\ row.status = IF req[r].body = "terminate" THEN "terminated" ELSE lease[l].status
      BY <2>1, RowsTyped, PutFields
    <2> HIDE DEF row
    <2>3. \A u \in Units : ActiveOn(u)' =
              IF req[r].body = "terminate" THEN ActiveOn(u) \ {l} ELSE ActiveOn(u)
      BY <2>1, <2>2, Rewrite
    <2> QED
      BY <1>2, <1>4, <2>1, <2>3
  <1> QED
    BY <1>1, <1>2, <1>3, <1>4

LEMMA LetOnceKept ==
    Basics /\ Settled /\ (\A u \in Units : LetOnce(u)) /\ [Next]_vars => (\A u \in Units : LetOnce(u))'
  <1> SUFFICES ASSUME Basics, Settled, \A u \in Units : LetOnce(u), [Next]_vars,
                      NEW u \in Units, u \notin overlapped'
               PROVE  /\ \A l, m \in ActiveOn(u)' : l = m
                      /\ \A r, s \in Creating(u)' : r = s
                      /\ ActiveOn(u)' = {} \/ Creating(u)' = {}
    BY DEF LetOnce
  <1>fewer. ASSUME ActiveOn(u)' \subseteq ActiveOn(u), Creating(u)' \subseteq Creating(u), u \notin overlapped
            PROVE  /\ \A l, m \in ActiveOn(u)' : l = m
                   /\ \A r, s \in Creating(u)' : r = s
                   /\ ActiveOn(u)' = {} \/ Creating(u)' = {}
    BY <1>fewer DEF LetOnce
  <1>1. ASSUME NEW r \in Requests, AskStep(r)
        PROVE  /\ \A l, m \in ActiveOn(u)' : l = m
               /\ \A s, t \in Creating(u)' : s = t
               /\ ActiveOn(u)' = {} \/ Creating(u)' = {}
    <2>1. /\ u \notin overlapped /\ lease' = lease /\ \A s \in Requests : s # r => req'[s] = req[s]
          /\ NowConverting(r) \/ NowChecking(r) \/ NowCreating(r) \/ NowWriting(r) \/ GivenUp(r)
      BY <1>1, AskEffect
    <2>2. ActiveOn(u)' = ActiveOn(u)
      BY <2>1 DEF ActiveOn, Rows
    <2>3. CASE NowCreating(r) /\ req'[r].unit = u
      <3>1. ActiveOn(u) = {} /\ Creating(u) = {}
        BY <2>3 DEF NowCreating
      <3>2. Creating(u)' \subseteq {r}
        BY <2>1, <3>1 DEF Creating
      <3> QED
        BY <2>2, <3>1, <3>2
    <2>4. CASE ~(NowCreating(r) /\ req'[r].unit = u)
      <3>1. Creating(u)' \subseteq Creating(u)
        BY <2>1, <2>4, IdleTyped DEF Creating, NowConverting, NowChecking, NowWriting, GivenUp
      <3> QED
        BY <2>1, <2>2, <3>1, <1>fewer
    <2> QED
      BY <2>3, <2>4
  <1>2. ASSUME NEW r \in Requests, CreateLease(r)
        PROVE  /\ \A l, m \in ActiveOn(u)' : l = m
               /\ \A s, t \in Creating(u)' : s = t
               /\ ActiveOn(u)' = {} \/ Creating(u)' = {}
    <2>1. /\ u \notin overlapped /\ \A s \in Requests : s # r => req'[s] = req[s]
          /\ \/ req'[r] = Idle /\ lease' = lease
             \/ NewRow(r)
      BY <1>2, CreateEffect
    <2>2. Creating(u)' \subseteq Creating(u) \ {r}
      BY <2>1, IdleTyped DEF Creating, NewRow
    <2>3. CASE lease' = lease
      <3>1. ActiveOn(u)' = ActiveOn(u)
        BY <2>3 DEF ActiveOn, Rows
      <3> QED
        BY <2>1, <2>2, <3>1, <1>fewer
    <2>4. CASE NewRow(r) /\ req[r].unit = u
      <3>1. r \in Creating(u)
        BY <1>2, <2>4 DEF CreateLease, Creating
      <3>2. ActiveOn(u) = {} /\ Creating(u) \subseteq {r}
        BY <2>1, <3>1 DEF LetOnce
      <3>3. ActiveOn(u)' = {req'[r].lease} /\ Creating(u)' = {}
        BY <2>2, <2>4, <3>2 DEF NewRow
      <3> QED
        BY <3>3
    <2>5. CASE NewRow(r) /\ req[r].unit # u
      BY <2>1, <2>2, <2>5, <1>fewer DEF NewRow
    <2> QED
      BY <2>1, <2>3, <2>4, <2>5
  <1>3. ASSUME NEW r \in Requests, OccupyUnit(r) \/ VacateUnit(r) \/ WriteLease(r) \/ RequestDies(r)
        PROVE  /\ \A l, m \in ActiveOn(u)' : l = m
               /\ \A s, t \in Creating(u)' : s = t
               /\ ActiveOn(u)' = {} \/ Creating(u)' = {}
    <2>1. ActiveOn(u)' \subseteq ActiveOn(u) /\ u \notin overlapped
      BY <1>3, UpdateEffect
    <2>2. /\ \A s \in Requests : s # r => req'[s] = req[s]
          /\ req'[r].pc # "create"
      <3>1. [req[r] EXCEPT !.pc = "write"].pc = "write"
        BY DEF Basics, TypeOK, ReqRow
      <3> QED
        BY <1>3, <3>1, UpdateEffect, IdleTyped
    <2>3. Creating(u)' \subseteq Creating(u)
      BY <2>2 DEF Creating
    <2> QED
      BY <2>1, <2>3, <1>fewer
  <1>4. CASE OtherStep
    <2>1. UNCHANGED <<req, overlapped>> /\ ActiveOn(u)' = ActiveOn(u)
      BY <1>4, OtherEffect
    <2>2. Creating(u)' = Creating(u)
      BY <2>1 DEF Creating
    <2> QED
      BY <2>1, <2>2, <1>fewer
  <1> QED
    BY <1>1, <1>2, <1>3, <1>4 DEF Next, RequestStep, AskStep, OtherStep

--------------------------------------------------------------------------------
\* Status reads the unit, its active leases, and who is ending or occupying them.
LEMMA StatusSame ==
    ASSUME NEW u \in Units, Status(u), u \notin unsettled \cup overlapped,
           unit'[u] = unit[u], ActiveOn(u) \subseteq ActiveOn(u)',
           \A l \in ActiveOn(u) : (Ending(l)' <=> Ending(l)) /\ (Occupying(l) => Occupying(l)'),
           \A l \in ActiveOn(u)' : l \in ActiveOn(u) \/ Occupying(l)'
    PROVE  Status(u)'
  BY DEF Status

LEMMA StatusAsk ==
    ASSUME Basics, NEW r \in Requests, AskStep(r), NEW u \in Units, Status(u)
    PROVE  Status(u)'
  <1>1. /\ UNCHANGED <<unit, lease, unsettled>> /\ overlapped \subseteq overlapped'
        /\ \A s \in Requests : s # r => req'[s] = req[s]
        /\ NowConverting(r) \/ NowChecking(r) \/ NowCreating(r) \/ NowWriting(r) \/ GivenUp(r)
    BY AskEffect
  <1>2. /\ req[r].pc \notin {"write", "occupy"} /\ req'[r].pc # "occupy"
        /\ ~(req'[r].pc = "write" /\ req'[r].body = "terminate")
    BY <1>1, IdleTyped DEF NowConverting, NowChecking, NowCreating, NowWriting, GivenUp
  <1>3. \A l : (Ending(l)' <=> Ending(l)) /\ (Occupying(l)' <=> Occupying(l))
    BY <1>1, <1>2 DEF Ending, Occupying
  <1>4. ActiveOn(u)' = ActiveOn(u)
    BY <1>1 DEF ActiveOn, Rows
  <1> QED
    BY <1>1, <1>3, <1>4 DEF Status

LEMMA StatusCreate ==
    ASSUME Basics, NEW r \in Requests, CreateLease(r), NEW u \in Units, Status(u)
    PROVE  Status(u)'
  <1> SUFFICES ASSUME u \notin unsettled' \cup overlapped' PROVE Status(u)'
    BY DEF Status
  <1>1. /\ UNCHANGED <<unit, overlapped, unsettled>>
        /\ \A s \in Requests : s # r => req'[s] = req[s]
        /\ \/ req'[r] = Idle /\ lease' = lease
           \/ NewRow(r)
    BY CreateEffect
  <1>2. req[r].pc = "create" /\ req'[r].pc # "write"
    BY <1>1, IdleTyped DEF CreateLease, NewRow
  <1>3. \A l : (Ending(l)' <=> Ending(l)) /\ (Occupying(l) => Occupying(l)')
    BY <1>1, <1>2 DEF Ending, Occupying
  <1>4. ActiveOn(u) \subseteq ActiveOn(u)' /\ \A l \in ActiveOn(u)' : l \in ActiveOn(u) \/ Occupying(l)'
    <2>1. CASE lease' = lease
      BY <2>1 DEF ActiveOn, Rows
    <2>2. CASE NewRow(r)
      BY <2>2 DEF NewRow, Occupying
    <2> QED
      BY <1>1, <2>1, <2>2
  <1> QED
    BY <1>1, <1>3, <1>4, StatusSame

LEMMA StatusUpdate ==
    ASSUME Basics, NEW r \in Requests,
           OccupyUnit(r) \/ VacateUnit(r) \/ WriteLease(r) \/ RequestDies(r),
           NEW u \in Units, Status(u)
    PROVE  Status(u)'
  <1> SUFFICES ASSUME u \notin unsettled' \cup overlapped' PROVE Status(u)'
    BY DEF Status
  <1> PICK l0, u0 : l0 = req[r].lease /\ u0 = req[r].unit
    OBVIOUS
  <1>r. /\ unit \in [Units -> {"absent", "vacant", "occupied", "maintenance"}]
        /\ req[r] \in ReqRow /\ Asked(r)
    BY DEF Basics, TypeOK
  <1>e. /\ \A s \in Requests : s # r => req'[s] = req[s]
        /\ IF VacateUnit(r) THEN req'[r] = [req[r] EXCEPT !.pc = "write"] ELSE req'[r] = Idle
        /\ ActiveOn(u)' = IF WriteLease(r) /\ req[r].body = "terminate"
                          THEN ActiveOn(u) \ {l0} ELSE ActiveOn(u)
        /\ UNCHANGED overlapped
    BY UpdateEffect
  <1>mine. ASSUME NEW l \in ActiveOn(u), req[r].pc \in {"occupy", "vacate", "write"}, l = l0
           PROVE  u = u0
    BY <1>mine, <1>r DEF Asked, ActiveOn
  <1>idle. ASSUME req'[r] = Idle
           PROVE  /\ \A l : (Ending(l)' => Ending(l)) /\ (Occupying(l)' => Occupying(l))
                  /\ \A l : Ending(l) => Ending(l)' \/ (l = l0 /\ req[r].pc = "write" /\ req[r].body = "terminate")
                  /\ \A l : Occupying(l) => Occupying(l)' \/ (l = l0 /\ req[r].pc = "occupy")
    BY <1>e, <1>idle, IdleTyped DEF Ending, Occupying
  <1>1. CASE OccupyUnit(r)
    <2>1. /\ req[r].pc = "occupy" /\ req'[r] = Idle /\ unit' = [unit EXCEPT ![u0] = "occupied"]
          /\ unsettled' = IF l0 \in ActiveOn(u0) /\ ~Ending(l0) THEN unsettled \ {u0} ELSE unsettled \cup {u0}
          /\ ActiveOn(u)' = ActiveOn(u)
      BY <1>1, <1>e DEF OccupyUnit, VacateUnit, WriteLease
    <2>2. CASE u = u0
      <3>1. l0 \in ActiveOn(u) /\ ~Ending(l0) /\ unit'[u] = "occupied"
        BY <1>r, <2>1, <2>2
      <3>2. ~Ending(l0)'
        BY <1>idle, <2>1, <3>1
      <3> QED
        BY <2>1, <3>1, <3>2 DEF Status
    <2>3. CASE u # u0
      <3>1. unit'[u] = unit[u] /\ u \notin unsettled \cup overlapped
        BY <1>r, <1>e, <2>1, <2>3
      <3>2. \A l \in ActiveOn(u) : (Ending(l)' <=> Ending(l)) /\ (Occupying(l) => Occupying(l)')
        BY <1>idle, <1>mine, <2>1, <2>3 DEF Ending
      <3> QED
        BY <2>1, <3>1, <3>2, StatusSame
    <2> QED
      BY <2>2, <2>3
  <1>2. CASE VacateUnit(r)
    <2>1. /\ req[r].pc = "vacate" /\ req[r].body = "terminate" /\ req'[r] = [req[r] EXCEPT !.pc = "write"]
          /\ unit' = [unit EXCEPT ![u0] = "vacant"]
          /\ unsettled' = IF ActiveOn(u0) \subseteq {l0} THEN unsettled ELSE unsettled \cup {u0}
          /\ ActiveOn(u)' = ActiveOn(u)
      BY <1>2, <1>e, <1>r DEF VacateUnit, WriteLease, Asked
    <2>2. req'[r].pc = "write" /\ req'[r].lease = l0 /\ req'[r].body = "terminate"
      BY <2>1, <1>r DEF ReqRow
    <2>3. Ending(l0)'
      BY <2>2 DEF Ending
    <2>4. CASE u = u0
      <3>1. ActiveOn(u) \subseteq {l0} /\ unit'[u] = "vacant"
        BY <1>r, <2>1, <2>4
      <3> QED
        BY <2>1, <2>3, <3>1 DEF Status
    <2>5. CASE u # u0
      <3>1. unit'[u] = unit[u] /\ u \notin unsettled \cup overlapped
        BY <1>r, <1>e, <2>1, <2>5
      <3>2. \A l \in ActiveOn(u) : l # l0
        BY <1>mine, <2>1, <2>5
      <3>3. \A l \in ActiveOn(u) : (Ending(l)' <=> Ending(l)) /\ (Occupying(l) => Occupying(l)')
        BY <1>e, <2>1, <2>2, <3>2 DEF Ending, Occupying
      <3> QED
        BY <2>1, <3>1, <3>3, StatusSame
    <2> QED
      BY <2>4, <2>5
  <1>3. CASE WriteLease(r)
    <2>1. req[r].pc = "write" /\ req'[r] = Idle /\ UNCHANGED <<unit, unsettled>>
      BY <1>3, <1>e DEF WriteLease, VacateUnit
    <2>2. u \notin unsettled \cup overlapped
      BY <1>e, <2>1
    <2>3. CASE req[r].body = "terminate"
      <3>1. ActiveOn(u)' = ActiveOn(u) \ {l0} /\ Ending(l0)
        BY <1>3, <1>e, <2>1, <2>3 DEF Ending
      <3>2. \A l \in ActiveOn(u)' : l # l0 /\ (Ending(l)' <=> Ending(l)) /\ (Occupying(l) => Occupying(l)')
        BY <1>idle, <2>1, <3>1
      <3> QED
        BY <2>1, <2>2, <3>1, <3>2 DEF Status
    <2>4. CASE req[r].body # "terminate"
      <3>1. ActiveOn(u)' = ActiveOn(u)
        BY <1>e, <2>4
      <3>2. \A l \in ActiveOn(u) : (Ending(l)' <=> Ending(l)) /\ (Occupying(l) => Occupying(l)')
        BY <1>idle, <2>1, <2>4
      <3> QED
        BY <2>1, <2>2, <3>1, <3>2, StatusSame
    <2> QED
      BY <2>3, <2>4
  <1>4. CASE RequestDies(r) /\ ~WriteLease(r) /\ ~VacateUnit(r)
    <2>1. /\ req'[r] = Idle /\ UNCHANGED unit /\ ActiveOn(u)' = ActiveOn(u)
          /\ unsettled' = IF req[r].pc \in {"occupy", "write"} /\ req[r].body # "renew"
                          THEN unsettled \cup {u0} ELSE unsettled
      BY <1>4, <1>e DEF RequestDies
    <2>2. u \notin unsettled \cup overlapped
      BY <1>e, <2>1
    <2>3. \A l \in ActiveOn(u) : l = l0 => /\ ~(req[r].pc = "write" /\ req[r].body = "terminate")
                                           /\ req[r].pc # "occupy"
      BY <1>mine, <1>r, <2>1 DEF Asked, NewEnds
    <2>4. \A l \in ActiveOn(u) : (Ending(l)' <=> Ending(l)) /\ (Occupying(l) => Occupying(l)')
      BY <1>idle, <2>1, <2>3
    <2> QED
      BY <2>1, <2>2, <2>4, StatusSame
  <1> QED
    BY <1>1, <1>2, <1>3, <1>4

LEMMA StatusKept ==
    Basics /\ Settled /\ (\A u \in Units : Status(u)) /\ [Next]_vars => (\A u \in Units : Status(u))'
  <1> SUFFICES ASSUME Basics, Settled, \A u \in Units : Status(u), [Next]_vars, NEW u \in Units
               PROVE  Status(u)'
    OBVIOUS
  <1>1. CASE OtherStep
    <2>1. /\ UNCHANGED <<req, overlapped>> /\ ActiveOn(u)' = ActiveOn(u) /\ unsettled \subseteq unsettled'
          /\ \/ unit'[u] = unit[u] \/ u \in unsettled'
             \/ ActiveOn(u) = {} /\ unit'[u] # "occupied"
      BY <1>1, OtherEffect
    <2>2. \A l : (Ending(l)' <=> Ending(l)) /\ (Occupying(l)' <=> Occupying(l))
      BY <2>1 DEF Ending, Occupying
    <2> QED
      BY <2>1, <2>2 DEF Status
  <1> QED
    BY <1>1, StatusAsk, StatusCreate, StatusUpdate DEF Next, RequestStep, AskStep, OtherStep

--------------------------------------------------------------------------------
\* The job's list and the settled ends, when the rows and ends stay.
LEMMA SettledSame ==
    ASSUME Settled, \A l \in Rows : l \in Rows' /\ lease'[l].end = lease[l].end,
           UNCHANGED <<job, settledEnd>>
    PROVE  Settled'
  BY DEF Settled

LEMMA SettledKept == Basics /\ Settled /\ [Next]_vars => Settled'
  <1> SUFFICES ASSUME Basics, Settled, [Next]_vars PROVE Settled'
    OBVIOUS
  <1>same. ASSUME UNCHANGED <<lease, job, settledEnd>> PROVE Settled'
    <2>1. \A l \in Rows : l \in Rows' /\ lease'[l].end = lease[l].end
      BY <1>same DEF Rows
    <2> QED
      BY <1>same, <2>1, SettledSame
  <1>1. ASSUME NEW r \in Requests, AskStep(r) \/ OccupyUnit(r) \/ VacateUnit(r) \/ RequestDies(r)
        PROVE  Settled'
    <2>1. CASE AskStep(r)
      BY <2>1, <1>same, AskEffect
    <2>2. CASE OccupyUnit(r) \/ VacateUnit(r) \/ RequestDies(r)
      BY <2>2, <1>same DEF OccupyUnit, VacateUnit, RequestDies
    <2> QED
      BY <1>1, <2>1, <2>2
  <1>2. ASSUME NEW r \in Requests, CreateLease(r) PROVE Settled'
    <2>1. UNCHANGED <<job, settledEnd>> /\ (lease' = lease \/ NewRow(r))
      BY <1>2, CreateEffect
    <2>2. CASE NewRow(r)
      BY <2>1, <2>2, SettledSame DEF NewRow
    <2> QED
      BY <1>same, <2>1, <2>2
  <1>3. ASSUME NEW r \in Requests, WriteLease(r) PROVE Settled'
    <2> PICK l0, row : l0 = req[r].lease /\ row = Put(lease[l0], req[r].body)
      OBVIOUS
    <2>1. /\ l0 \in Rows /\ req[r].body \in PutBodies /\ lease' = [lease EXCEPT ![l0] = row]
          /\ settledEnd' = IF req[r].body = "renew" /\ job.pc # "converting"
                             THEN settledEnd \cup {l0}
                             ELSE IF req[r].body = "monthly" THEN settledEnd \ {l0}
                             ELSE settledEnd
          /\ UNCHANGED job
      BY <1>3 DEF WriteLease, Basics, Asked
    <2>2. /\ row \in LeaseRow /\ row.unit = lease[l0].unit
          /\ req[r].body = "terminate" => row.end = lease[l0].end
          /\ req[r].body = "renew" => row.end = "ahead"
      BY <2>1, RowsTyped, PutFields DEF Basics
    <2>3. Rows' = Rows /\ lease'[l0] = row /\ \A m \in LeaseIds : m # l0 => lease'[m] = lease[m]
      BY <2>1, <2>2, Rewrite DEF Basics
    <2>4. ASSUME NEW l \in settledEnd'
          PROVE  l \in Rows /\ lease'[l].end = "ahead" /\ (job.pc = "converting" => l \notin job.list)
      <3>1. CASE l = l0
        BY <2>1, <2>2, <2>3, <2>4, <3>1 DEF Settled, PutBodies
      <3>2. CASE l # l0
        <4>1. l \in settledEnd /\ l \in LeaseIds
          BY <2>1, <2>4, <3>2 DEF Settled, Rows
        <4> QED
          BY <2>3, <3>2, <4>1 DEF Settled
      <3> QED
        BY <3>1, <3>2
    <2> QED
      BY <2>1, <2>3, <2>4 DEF Settled
  <1>4. ASSUME NEW l0 \in LeaseIds, EndPasses(l0) \/ JobConvert(l0) PROVE Settled'
    <2>1. l0 \in Rows /\ lease[l0] \in LeaseRow /\ (l0 \notin settledEnd' )
          /\ settledEnd' \subseteq settledEnd
          /\ job' \in {job, NoJob, [job EXCEPT !.list = @ \ {l0}]}
      BY <1>4, RowsTyped DEF EndPasses, JobConvert, Settled, Basics
    <2> DEFINE past == [lease[l0] EXCEPT !.end = "past"]
               rolled == RolledOver(lease[l0])
    <2>2. /\ past \in LeaseRow /\ past.unit = lease[l0].unit
          /\ rolled \in LeaseRow /\ rolled.unit = lease[l0].unit
      BY <2>1, RowFields DEF LeaseRow
    <2>3. lease' = [lease EXCEPT ![l0] = past] \/ lease' = [lease EXCEPT ![l0] = rolled]
      BY <1>4 DEF EndPasses, JobConvert
    <2> HIDE DEF past, rolled
    <2>4. Rows' = Rows /\ \A m \in LeaseIds : m # l0 => lease'[m] = lease[m]
      BY <2>1, <2>2, <2>3, Rewrite DEF Basics
    <2>5. job'.list \subseteq job.list /\ (job'.pc = "converting" => job.pc = "converting")
      BY <2>1 DEF Basics, TypeOK, NoJob
    <2>6. ASSUME NEW l \in settledEnd'
          PROVE  /\ l \in Rows /\ lease'[l].end = "ahead"
                 /\ job'.pc = "converting" => l \notin job'.list
      BY <2>1, <2>4, <2>5 DEF Settled, Rows
    <2> QED
      BY <2>4, <2>5, <2>6 DEF Settled
  <1>5. CASE JobRead
    <2>1. /\ job'.list \subseteq {l \in LeaseIds : Overdue(l)}
          /\ UNCHANGED <<lease, settledEnd>>
      BY <1>5 DEF JobRead, NoJob
    <2>2. \A l \in job'.list : l \in Rows /\ lease[l].end = "past"
      BY <2>1 DEF Overdue
    <2>3. Rows' = Rows
      BY <2>1 DEF Rows
    <2> QED
      BY <2>1, <2>2, <2>3 DEF Settled
  <1>6. CASE JobRemind \/ JobDies
    <2>1. /\ job'.pc # "converting" /\ job'.list = {}
          /\ UNCHANGED <<lease, settledEnd>>
      BY <1>6 DEF JobRemind, JobDies, NoJob
    <2>2. Rows' = Rows
      BY <2>1 DEF Rows
    <2> QED
      BY <2>1, <2>2 DEF Settled
  <1>7. CASE \/ \E u \in Units : AddUnit(u) \/ DeleteUnit(u)
             \/ \E u \in Units, s \in {"vacant", "occupied", "maintenance"} : PutUnit(u, s)
             \/ UNCHANGED vars
    BY <1>7, <1>same DEF AddUnit, DeleteUnit, PutUnit, vars
  <1> QED
    BY <1>1, <1>2, <1>3, <1>4, <1>5, <1>6, <1>7 DEF Next, RequestStep, AskStep, JobStep

--------------------------------------------------------------------------------
Inv == Basics /\ Settled /\ (\A u \in Units : LetOnce(u)) /\ (\A u \in Units : Status(u))

LEMMA InvInit == Init => Inv
  <1> SUFFICES ASSUME Init PROVE Inv
    OBVIOUS
  <1>1. TypeOK
    BY IdleTyped, MaxDeathsNat DEF Init, TypeOK, NoJob
  <1>2. Rows = {} /\ Pending = {}
    BY IdleTyped DEF Init, Rows, Pending
  <1>3. Numbered
    <2>1. Cardinality(Rows) = 0 /\ Cardinality(Pending) = 0
      BY <1>2, FS_EmptySet
    <2> QED
      BY <1>2, <2>1, MaxLeasesNat DEF Numbered
  <1>4. (\A r \in Requests : Asked(r)) /\ Keyed /\ Settled
    BY <1>2, IdleTyped DEF Init, Asked, Keyed, Settled, NoJob
  <1>5. ASSUME NEW u \in Units PROVE LetOnce(u) /\ Status(u)
    <2>1. ActiveOn(u) = {} /\ unit[u] = "vacant" /\ Creating(u) = {}
      BY <1>2, IdleTyped DEF Init, ActiveOn, Creating
    <2> QED
      BY <2>1 DEF LetOnce, Status
  <1> QED
    BY <1>1, <1>3, <1>4, <1>5 DEF Inv, Basics

LEMMA BasicsKept == Basics /\ Settled /\ [Next]_vars => Basics'
  BY AskBasics, CreateBasics, UpdateBasics, OtherEffect DEF Next, RequestStep, AskStep, OtherStep

LEMMA InvHolds == Spec => []Inv
  <1>1. Inv /\ [Next]_vars => Inv'
    BY BasicsKept, SettledKept, LetOnceKept, StatusKept DEF Inv
  <1> QED
    BY <1>1, InvInit, PTL DEF Spec

\* Every variable stays in its range; the ids of lease rows do not run out.
THEOREM Typing == Spec => []TypeOK
  <1>1. Inv => TypeOK
    BY DEF Inv, Basics
  <1> QED
    BY <1>1, InvHolds, PTL

\* A unit with two active leases had two requests past the check at once.
THEOREM OneLet == Spec => []SingleLet
  <1>1. Inv => SingleLet
    <2> SUFFICES ASSUME Inv, NEW u \in Units, u \notin overlapped
                 PROVE  ~(Cardinality(ActiveOn(u)) > 1)
      BY DEF SingleLet
    <2>1. CASE ActiveOn(u) = {}
      <3>1. Cardinality(ActiveOn(u)) = 0
        BY <2>1, FS_EmptySet
      <3> QED
        BY <3>1
    <2>2. CASE ActiveOn(u) # {}
      <3>1. PICK l \in ActiveOn(u) : ActiveOn(u) = {l}
        BY <2>2 DEF Inv, LetOnce
      <3>2. Cardinality({l}) = 1
        BY FS_Singleton
      <3>3. Cardinality(ActiveOn(u)) = 1
        BY <3>1, <3>2, Zenon
      <3> QED
        BY <3>3
    <2> QED
      BY <2>1, <2>2
  <1> QED
    BY <1>1, InvHolds, PTL

\* A unit nobody is at work on, and no known accident touched, is occupied
\* exactly when it is let.
THEOREM OccupancyIsRight == Spec => []OccupancyAgrees
  <1>1. Inv => OccupancyAgrees
    <2> SUFFICES ASSUME Inv, NEW u \in Units \ (unsettled \cup overlapped), ~AtWork(u)
                 PROVE  unit[u] = "occupied" <=> ActiveOn(u) # {}
      BY DEF OccupancyAgrees
    <2>1. ASSUME NEW l \in ActiveOn(u) PROVE ~Ending(l) /\ ~Occupying(l)
      BY DEF Inv, Basics, Asked, ActiveOn, AtWork, Ending, Occupying
    <2> QED
      BY <2>1 DEF Inv, Status
  <1> QED
    BY <1>1, InvHolds, PTL

\* Only the landlord's change to month-to-month takes a settled end away.
THEOREM RenewalsAreKept == Spec => RenewalKept
  <1>1. ASSUME Inv, [Next]_vars, NEW l \in settledEnd, lease[l].end = "ahead", lease'[l].end = "none"
        PROVE  \E r \in Requests : req[r].body = "monthly" /\ req[r].lease = l /\ req'[r] = Idle
    <2>0. Basics /\ Settled /\ l \in Rows /\ l \in LeaseIds
      BY <1>1 DEF Inv, Settled, Rows
    <2>1. ASSUME NEW r \in Requests,
                 AskStep(r) \/ CreateLease(r) \/ OccupyUnit(r) \/ VacateUnit(r) \/ RequestDies(r)
          PROVE  FALSE
      <3>1. lease'[l] = lease[l]
        <4>1. CASE AskStep(r)
          BY <2>0, <4>1, AskEffect
        <4>2. CASE CreateLease(r)
          BY <2>0, <4>2, CreateEffect DEF NewRow
        <4>3. CASE OccupyUnit(r) \/ VacateUnit(r) \/ RequestDies(r)
          BY <4>3 DEF OccupyUnit, VacateUnit, RequestDies
        <4> QED
          BY <2>1, <4>1, <4>2, <4>3
      <3> QED
        BY <1>1, <3>1
    <2>2. ASSUME NEW r \in Requests, WriteLease(r)
          PROVE  req[r].body = "monthly" /\ req[r].lease = l /\ req'[r] = Idle
      <3> PICK l0, row : l0 = req[r].lease /\ row = Put(lease[l0], req[r].body)
        OBVIOUS
      <3>1. l0 \in Rows /\ req[r].body \in PutBodies /\ lease' = [lease EXCEPT ![l0] = row]
        BY <2>0, <2>2 DEF WriteLease, Basics, Asked
      <3>2. /\ row \in LeaseRow /\ row.unit = lease[l0].unit
            /\ req[r].body = "terminate" => row.end = lease[l0].end
            /\ req[r].body = "renew" => row.end = "ahead"
        BY <2>0, <3>1, RowsTyped, PutFields DEF Basics
      <3>3. lease'[l0] = row /\ \A m \in LeaseIds : m # l0 => lease'[m] = lease[m]
        BY <2>0, <3>1, <3>2, Rewrite DEF Basics
      <3>4. l = l0 /\ req[r].body = "monthly"
        BY <1>1, <2>0, <3>1, <3>2, <3>3 DEF PutBodies
      <3>5. req'[r] = Idle
        BY <2>0, <2>2, UpdateEffect DEF WriteLease, VacateUnit
      <3> QED
        BY <3>4, <3>5
    <2>3. ASSUME NEW l0 \in LeaseIds, EndPasses(l0) \/ JobConvert(l0) PROVE FALSE
      <3>1. l0 \in Rows /\ lease[l0] \in LeaseRow /\ (JobConvert(l0) => l0 # l)
        BY <2>0, <2>3, RowsTyped DEF EndPasses, JobConvert, Settled, Basics
      <3>2. lease'[l] = lease[l] \/ (l = l0 /\ lease'[l] = [lease[l] EXCEPT !.end = "past"])
        BY <2>0, <2>3, <3>1 DEF EndPasses, JobConvert, Basics, TypeOK
      <3>3. [lease[l] EXCEPT !.end = "past"].end # "none" \/ l # l0
        BY <3>1 DEF LeaseRow
      <3> QED
        BY <1>1, <3>2, <3>3
    <2>4. ASSUME \/ JobRemind \/ JobRead \/ JobDies \/ UNCHANGED vars
                 \/ \E u \in Units : AddUnit(u) \/ DeleteUnit(u)
                 \/ \E u \in Units, s \in {"vacant", "occupied", "maintenance"} : PutUnit(u, s)
          PROVE  FALSE
      <3>1. lease' = lease
        BY <2>4 DEF JobRemind, JobRead, JobDies, vars, AddUnit, DeleteUnit, PutUnit
      <3> QED
        BY <1>1, <3>1
    <2> QED
      BY <1>1, <2>1, <2>2, <2>3, <2>4 DEF Next, RequestStep, AskStep, JobStep
  <1>2. Inv /\ [Next]_vars =>
          [\A l \in settledEnd :
              lease[l].end = "ahead" /\ lease'[l].end = "none"
                => \E r \in Requests : req[r].body = "monthly" /\ req[r].lease = l /\ req'[r] = Idle]_vars
    BY <1>1
  <1> QED
    BY <1>2, InvHolds, PTL DEF Spec, RenewalKept

-----------------------------------------------------------------------------
(* The applications, from which the tenants come (Applications): types, what  *)
(* each action does, and for each promise its invariant (ForwardInv,          *)
(* FilledInv, DecidedInv, and Linked, Stands and AloneInv).                   *)
(* Types, and what the records refer to.                                      *)

ChatRow == [pc : {"off", "talking", "starting", "saving", "completing"}, kind : {"voice", "sms"},
            who : Applicants \cup {Null}, app : AppIds \cup {Null},
            field : Answers \cup {Null}, seen : SUBSET Answers]
FormRow == [pc : {"idle", "claim", "create", "submit"}, who : Applicants \cup {Null},
            invite : InviteIds \cup {Null}]
DeskRow == [pc : {"idle", "write", "questions", "property"}, app : AppIds \cup {Null},
            to : {"none", "completed"} \cup Decided]
Summary == [sending : Nat, deferred : Nat, told : Nat, marked : BOOLEAN]

AppsTyped == app \in [AppIds -> AppRow \cup {Null}] /\ Apps = 1 .. Cardinality(Apps)
InvitesTyped == invite \in [InviteIds -> InviteRow \cup {Null}]
                /\ Invites = 1 .. Cardinality(Invites)

\* A conversation holds one of its own applications.
Talks(c) ==
    /\ chat[c].pc # "off" => chat[c].who \in Applicants
    /\ chat[c].app # Null
                => chat[c].pc # "off" /\ chat[c].app \in Apps /\ app[chat[c].app].by = "chat"
    /\ chat[c].pc \in {"saving", "completing"} => chat[c].app # Null
    /\ chat[c].pc = "saving" => chat[c].field \in Customs /\ chat[c].seen \subseteq Customs
ChatsTyped == chat \in [Chats -> ChatRow] /\ \A c \in Chats : Talks(c)

Fills(f) ==
    /\ form[f].pc # "idle" => form[f].who \in Applicants
    /\ form[f].pc \in {"claim", "submit"} => form[f].invite \in Invites
    /\ form[f].pc = "submit" => invite[form[f].invite].who = form[f].who
    /\ form[f].invite # Null => form[f].invite \in Invites
FormsTyped == form \in [Forms -> FormRow] /\ \A f \in Forms : Fills(f)

Works(d) ==
    desk[d].pc = "write" => desk[d].app \in Apps /\ desk[d].to \in {"completed"} \cup Decided
DesksTyped == desk \in [Desks -> DeskRow] /\ \A d \in Desks : Works(d)

SummariesTyped == fwd \in [AppIds -> Summary]

Typed ==
    /\ AppsTyped /\ InvitesTyped /\ ChatsTyped /\ FormsTyped /\ DesksTyped /\ SummariesTyped
    /\ property \in {"here", "gone"} /\ asked \in BOOLEAN

\* With the property its invites go, and there was no application.
Gone == property = "gone" => Apps = {} /\ \A n \in Invites : invite[n].state = "deleted"

LEMMA Keys == /\ AppIds \subseteq Nat /\ InviteIds \subseteq Nat /\ Null \notin AppIds
              /\ Null \notin InviteIds /\ Null \notin AppRow /\ Null \notin InviteRow
              /\ MaxApps \in Nat /\ MaxInvites \in Nat
  BY ApplicationsBounds, NullIsNoApplication DEF AppIds, InviteIds

LEMMA RowsOf ==
    ASSUME AppsTyped
    PROVE  /\ Apps \subseteq AppIds /\ IsFiniteSet(Apps) /\ Cardinality(Apps) \in Nat
           /\ \A a \in Apps : app[a] \in AppRow /\ a \in Nat /\ a # Null
           /\ NextApp \notin Apps /\ NextApp \in Nat
  <1>1. Apps \subseteq AppIds /\ \A a \in Apps : app[a] \in AppRow
    BY Keys DEF Apps, AppsTyped
  <1>2. IsFiniteSet(AppIds)
    BY FS_Interval, Keys DEF AppIds
  <1>3. IsFiniteSet(Apps) /\ Cardinality(Apps) \in Nat
    BY <1>1, <1>2, FS_Subset, FS_CardinalityType
  <1> QED
    BY <1>1, <1>3, Keys DEF AppsTyped, NextApp

LEMMA InvitesOfTyped ==
    ASSUME InvitesTyped
    PROVE  /\ Invites \subseteq InviteIds /\ IsFiniteSet(Invites) /\ Cardinality(Invites) \in Nat
           /\ \A n \in Invites : invite[n] \in InviteRow /\ n \in Nat /\ n # Null
           /\ Cardinality(Invites) + 1 \notin Invites
  <1>1. Invites \subseteq InviteIds /\ \A n \in Invites : invite[n] \in InviteRow
    BY Keys DEF Invites, InvitesTyped
  <1>2. IsFiniteSet(InviteIds)
    BY FS_Interval, Keys DEF InviteIds
  <1>3. IsFiniteSet(Invites) /\ Cardinality(Invites) \in Nat
    BY <1>1, <1>2, FS_Subset, FS_CardinalityType
  <1> QED
    BY <1>1, <1>3, Keys DEF InvitesTyped

-----------------------------------------------------------------------------
(* What a step does to the application rows: nothing, one row more, or one    *)
(* row's status, answers and age.                                             *)
Added(row) ==
    /\ NextApp \in AppIds /\ row \in AppRow
    /\ Apps' = Apps \cup {NextApp} /\ app'[NextApp] = row
    /\ \A a \in Apps : app'[a] = app[a]
Updated(a) ==
    /\ a \in Apps /\ Apps' = Apps /\ app'[a] \in AppRow
    /\ app'[a].who = app[a].who /\ app'[a].by = app[a].by /\ app'[a].via = app[a].via
    /\ \A b \in Apps \ {a} : app'[b] = app[b]

LEMMA RowAdded ==
    ASSUME AppsTyped, NextApp \in AppIds, NEW row \in AppRow, app' = [app EXCEPT ![NextApp] = row]
    PROVE  AppsTyped' /\ Added(row)
  <1>1. app' \in [AppIds -> AppRow \cup {Null}] /\ app'[NextApp] = row
        /\ \A a \in AppIds \ {NextApp} : app'[a] = app[a]
    BY DEF AppsTyped
  <1>2. Apps' = Apps \cup {NextApp}
    BY <1>1, Keys DEF Apps
  <1>3. Cardinality(Apps') = Cardinality(Apps) + 1 /\ Cardinality(Apps) \in Nat
    BY <1>2, RowsOf, FS_AddElement
  <1>4. Apps' = 1 .. Cardinality(Apps')
    BY <1>2, <1>3 DEF AppsTyped, NextApp
  <1> QED
    BY <1>1, <1>2, <1>4, RowsOf DEF AppsTyped, Added

LEMMA RowUpdated ==
    ASSUME AppsTyped, NEW a \in Apps, NEW row \in AppRow, app' = [app EXCEPT ![a] = row],
           row.who = app[a].who, row.by = app[a].by, row.via = app[a].via
    PROVE  AppsTyped' /\ Updated(a) /\ app'[a] = row
  <1>1. a \in AppIds
    BY RowsOf
  <1>2. app' \in [AppIds -> AppRow \cup {Null}] /\ app'[a] = row
        /\ \A b \in AppIds \ {a} : app'[b] = app[b]
    BY <1>1 DEF AppsTyped
  <1>3. Apps' = Apps
    BY <1>1, <1>2, Keys DEF Apps
  <1> QED
    BY <1>2, <1>3, RowsOf DEF AppsTyped, Updated

LEMMA NewApplicationTyped ==
    ASSUME NEW who \in Applicants, NEW by \in {"chat", "apply", "survey"},
           NEW status \in {"in_progress", "completed"}, NEW via \in InviteIds \cup {Null}
    PROVE  /\ NewApplication(who, by, status, {}) \in AppRow
           /\ [NewApplication(who, by, status, {}) EXCEPT !.via = via] \in AppRow
           /\ NewApplication(who, by, status, {}).who = who /\ NewApplication(who, by, status,
                       {}).by = by
           /\ NewApplication(who, by, status, {}).status = status /\ NewApplication(who, by,
                       status, {}).via = Null
           /\ [NewApplication(who, by, status, {}) EXCEPT !.via = via].who = who
           /\ [NewApplication(who, by, status, {}) EXCEPT !.via = via].by = by
           /\ [NewApplication(who, by, status, {}) EXCEPT !.via = via].status = status
           /\ [NewApplication(who, by, status, {}) EXCEPT !.via = via].via = via
  BY DEF NewApplication, AppRow, Answers

-----------------------------------------------------------------------------
(* The actions that write a row.                                              *)
LEMMA SavesColumn ==
    ASSUME Typed, NEW c \in Chats, NEW field \in Columns, SaveColumn(c, field)
    PROVE  LET a == chat[c].app IN
           /\ AppsTyped' /\ Updated(a) /\ app[a].by = "chat"
           /\ app'[a].status = app[a].status /\ app'[a].age = app[a].age
           /\ app'[a].ans = app[a].ans \cup {field}
  <1> DEFINE a == chat[c].app
  <1>1. a \in Apps /\ app[a] \in AppRow /\ app[a].by = "chat"
    BY RowsOf DEF SaveColumn, Typed, ChatsTyped, Talks
  <1>2. PICK row : row = [app[a] EXCEPT !.ans = @ \cup {field}]
    OBVIOUS
  <1>3. /\ row \in AppRow /\ row.who = app[a].who /\ row.by = app[a].by /\ row.via = app[a].via
        /\ row.status = app[a].status /\ row.age = app[a].age /\ row.ans = app[a].ans \cup {field}
    BY <1>1, <1>2 DEF AppRow, Answers
  <1>4. app' = [app EXCEPT ![a] = row]
    BY <1>1, <1>2 DEF SaveColumn
  <1> QED
    BY <1>1, <1>3, <1>4, RowUpdated DEF Typed

LEMMA WritesCustoms ==
    ASSUME Typed, NEW c \in Chats, WriteCustoms(c)
    PROVE  LET a == chat[c].app IN
           /\ AppsTyped' /\ Updated(a) /\ app[a].by = "chat"
           /\ app'[a].status = app[a].status /\ app'[a].age = app[a].age
           /\ app'[a].ans = (app[a].ans \cap Columns) \cup chat[c].seen \cup {chat[c].field}
           /\ chat[c].field \in Customs /\ chat[c].seen \subseteq Customs
  <1> DEFINE a == chat[c].app
             ans == (app[a].ans \cap Columns) \cup chat[c].seen \cup {chat[c].field}
  <1>1. /\ a \in Apps /\ app[a] \in AppRow /\ app[a].by = "chat"
        /\ chat[c].field \in Customs /\ chat[c].seen \subseteq Customs
    BY RowsOf DEF WriteCustoms, Typed, ChatsTyped, Talks
  <1>2. PICK row : row = [app[a] EXCEPT !.ans = ans]
    OBVIOUS
  <1>3. /\ row \in AppRow /\ row.who = app[a].who /\ row.by = app[a].by /\ row.via = app[a].via
        /\ row.status = app[a].status /\ row.age = app[a].age /\ row.ans = ans
    BY <1>1, <1>2 DEF AppRow, Answers
  <1>4. app' = [app EXCEPT ![a] = row]
    BY <1>1, <1>2 DEF WriteCustoms
  <1> QED
    BY <1>1, <1>3, <1>4, RowUpdated DEF Typed

LEMMA WritesCompleted ==
    ASSUME Typed, NEW c \in Chats, WriteCompleted(c)
    PROVE  LET a == chat[c].app IN
           /\ AppsTyped' /\ Updated(a) /\ app[a].by = "chat"
           /\ app'[a].status = "completed" /\ app'[a].ans = app[a].ans
  <1> DEFINE a == chat[c].app
  <1>1. a \in Apps /\ app[a] \in AppRow /\ app[a].by = "chat"
    BY RowsOf DEF WriteCompleted, Typed, ChatsTyped, Talks
  <1>2. PICK row : row = [app[a] EXCEPT !.status = "completed", !.age = "days"]
    OBVIOUS
  <1>3. /\ row \in AppRow /\ row.who = app[a].who /\ row.by = app[a].by /\ row.via = app[a].via
        /\ row.status = "completed" /\ row.ans = app[a].ans
    BY <1>1, <1>2 DEF AppRow, Answers
  <1>4. app' = [app EXCEPT ![a] = row]
    <2>1. app' = [app EXCEPT ![a].status = "completed", ![a].age = "days"]
      BY DEF WriteCompleted
    <2>2. a \in AppIds /\ app[a] \in AppRow
      BY <1>1, RowsOf DEF Typed
    <2>3. app'[a] = row /\ \A b \in AppIds \ {a} : app'[b] = app[b]
      BY <1>2, <2>1, <2>2 DEF Typed, AppsTyped, AppRow
    <2>4. app' = [b \in AppIds |-> app'[b]]
      BY <2>1 DEF Typed, AppsTyped
    <2> QED
      BY <2>2, <2>3, <2>4 DEF Typed, AppsTyped
  <1> QED
    BY <1>1, <1>3, <1>4, RowUpdated DEF Typed

LEMMA Ages ==
    ASSUME Typed, NEW a \in Apps, Age(a)
    PROVE  /\ AppsTyped' /\ Updated(a) /\ app'[a].status = app[a].status
           /\ app'[a].ans = app[a].ans /\ app[a].age = "days"
  <1>1. app[a] \in AppRow
    BY RowsOf DEF Typed
  <1>2. PICK age \in {"weeks", "months"} : app' = [app EXCEPT ![a].age = age]
    BY DEF Age
  <1>3. PICK row : row = [app[a] EXCEPT !.age = age]
    OBVIOUS
  <1>4. /\ row \in AppRow /\ row.who = app[a].who /\ row.by = app[a].by /\ row.via = app[a].via
        /\ row.status = app[a].status /\ row.ans = app[a].ans
    BY <1>1, <1>3 DEF AppRow
  <1>5. app' = [app EXCEPT ![a] = row]
    BY <1>2, <1>3
  <1> QED
    BY <1>4, <1>5, RowUpdated DEF Typed, Age

LEMMA WritesStatus ==
    ASSUME Typed, NEW d \in Desks, WriteStatus(d)
    PROVE  LET a == desk[d].app IN
           /\ AppsTyped' /\ Updated(a) /\ app'[a].status = desk[d].to
           /\ desk[d].to \in {"completed"} \cup Decided /\ app'[a].ans = app[a].ans
  <1> DEFINE a == desk[d].app
  <1>1. a \in Apps /\ app[a] \in AppRow /\ desk[d].to \in {"completed"} \cup Decided
    BY RowsOf DEF WriteStatus, Typed, DesksTyped, Works
  <1>2. PICK row : row = [app[a] EXCEPT !.status = desk[d].to]
    OBVIOUS
  <1>3. /\ row \in AppRow /\ row.who = app[a].who /\ row.by = app[a].by /\ row.via = app[a].via
        /\ row.status = desk[d].to /\ row.ans = app[a].ans
    BY <1>1, <1>2 DEF AppRow
  <1>4. app' = [app EXCEPT ![a] = row]
    BY <1>1, <1>2 DEF WriteStatus
  <1> QED
    BY <1>1, <1>3, <1>4, RowUpdated DEF Typed

LEMMA CreatesApplication ==
    ASSUME Typed, NEW c \in Chats, CreateApplication(c)
    PROVE  \/ /\ UNCHANGED app /\ property = "gone"
              /\ chat' = [chat EXCEPT ![c] = [chat[c] EXCEPT !.pc = "talking"]]
           \/ /\ AppsTyped' /\ \E row : Added(row)
              /\ app'[NextApp].who = chat[c].who /\ app'[NextApp].by = "chat"
              /\ app'[NextApp].status = "in_progress" /\ app'[NextApp].via = Null
              /\ chat' = [chat EXCEPT ![c] = [chat[c] EXCEPT !.pc = "talking", !.app = NextApp]]
  <1>1. CASE property = "gone" /\ SetChat(c, [chat[c] EXCEPT !.pc = "talking"]) /\ UNCHANGED app
    BY <1>1 DEF SetChat
  <1>2. CASE /\ property = "here" /\ NextApp \in AppIds
             /\ app' = [app EXCEPT ![NextApp] = NewApplication(chat[c].who, "chat",
                         "in_progress", {})]
             /\ SetChat(c, [chat[c] EXCEPT !.pc = "talking", !.app = NextApp])
    <2>1. chat[c].who \in Applicants
      BY DEF CreateApplication, Typed, ChatsTyped, Talks
    <2>2. PICK row : row = NewApplication(chat[c].who, "chat", "in_progress", {})
      OBVIOUS
    <2>3. row \in AppRow /\ row.who = chat[c].who /\ row.by = "chat" /\ row.status = "in_progress"
          /\ row.via = Null
      BY <2>1, <2>2 DEF NewApplication, AppRow, Answers
    <2>4. AppsTyped' /\ Added(row)
      BY <1>2, <2>2, <2>3, RowAdded DEF Typed
    <2> QED
      BY <1>2, <2>3, <2>4 DEF SetChat, Added
  <1> QED
    BY <1>1, <1>2 DEF CreateApplication

LEMMA CreatesFromForm ==
    ASSUME Typed, NEW f \in Forms, CreateFromForm(f)
    PROVE  \/ UNCHANGED app /\ property = "gone"
           \/ /\ AppsTyped' /\ (\E row : Added(row)) /\ property = "here"
              /\ app'[NextApp].who = form[f].who /\ app'[NextApp].by = "apply"
              /\ app'[NextApp].status = "completed" /\ app'[NextApp].via = form[f].invite
  <1>1. CASE property = "here" /\ NextApp \in AppIds
             /\ app' = [app EXCEPT ![NextApp] =
                   [NewApplication(form[f].who, "apply", "completed",
                               {}) EXCEPT !.via = form[f].invite]]
    <2>1. form[f].who \in Applicants /\ form[f].invite \in InviteIds \cup {Null}
      BY DEF CreateFromForm, Typed, FormsTyped, Fills, FormRow
    <2>2. PICK row : row = [NewApplication(form[f].who, "apply", "completed",
                {}) EXCEPT !.via = form[f].invite]
      OBVIOUS
    <2>3. row \in AppRow /\ row.who = form[f].who /\ row.by = "apply" /\ row.status = "completed"
          /\ row.via = form[f].invite
      BY <2>1, <2>2, NewApplicationTyped
    <2>4. AppsTyped' /\ Added(row)
      BY <1>1, <2>2, <2>3, RowAdded DEF Typed
    <2> QED
      BY <1>1, <2>3, <2>4 DEF Added
  <1> QED
    BY <1>1 DEF CreateFromForm

LEMMA SubmitsSurvey ==
    ASSUME Typed, NEW f \in Forms, SubmitSurvey(f)
    PROVE  \/ UNCHANGED <<app, invite, fwd, unsure>>
           \/ LET n == form[f].invite IN
              /\ AppsTyped' /\ \E row : Added(row)
              /\ app'[NextApp].by = "survey" /\ app'[NextApp].status = "completed"
              /\ app'[NextApp].via = n /\ n \in Invites
              /\ invite[n].state \in {"open", "expired"}
              /\ invite' = [invite EXCEPT ![n].state = "used"]
              /\ NextApp \in AppIds /\ StartForward(NextApp)
  <1> DEFINE n == form[f].invite
  <1>1. CASE /\ invite[n].state \in {"open", "expired"} /\ NextApp \in AppIds
             /\ invite' = [invite EXCEPT ![n].state = "used"]
             /\ app' = [app EXCEPT ![NextApp] =
                   [NewApplication(form[f].who, "survey", "completed", {}) EXCEPT !.via = n]]
             /\ StartForward(NextApp)
    <2>1. form[f].who \in Applicants /\ n \in InviteIds \cup {Null} /\ n \in Invites
      BY DEF SubmitSurvey, Typed, FormsTyped, Fills, FormRow
    <2>2. PICK row : row = [NewApplication(form[f].who, "survey", "completed",
                {}) EXCEPT !.via = n]
      OBVIOUS
    <2>3. row \in AppRow /\ row.by = "survey" /\ row.status = "completed" /\ row.via = n
      BY <2>1, <2>2, NewApplicationTyped
    <2>4. AppsTyped' /\ Added(row)
      BY <1>1, <2>2, <2>3, RowAdded DEF Typed
    <2> QED
      BY <1>1, <2>1, <2>3, <2>4 DEF Added
  <1> QED
    BY <1>1 DEF SubmitSurvey

-----------------------------------------------------------------------------
\* A step's row is a new one, an old one with another status, or none.
LEMMA RowsMove ==
    ASSUME Typed, [ApplicationsNext]_applicationsVars
    PROVE  /\ AppsTyped' /\ Apps \subseteq Apps'
           /\ \A a \in Apps : /\ app'[a].who = app[a].who /\ app'[a].by = app[a].by
                              /\ app'[a].via = app[a].via
           /\ property = "gone" /\ Gone => Apps' = {}
  <1>1. UNCHANGED app => /\ AppsTyped' /\ Apps' = Apps
                         /\ \A a \in Apps : app'[a] = app[a]
    BY DEF Typed, AppsTyped, Apps
  <1>2. ASSUME NEW a, Updated(a), AppsTyped'
        PROVE  /\ Apps' = Apps
               /\ \A b \in Apps : /\ app'[b].who = app[b].who /\ app'[b].by = app[b].by
                                  /\ app'[b].via = app[b].via
    BY <1>2 DEF Updated
  <1>3. ASSUME NEW row, Added(row) PROVE Apps \subseteq Apps' /\ \A b \in Apps : app'[b] = app[b]
    BY <1>3 DEF Added
  <1>g. ASSUME Gone, property = "gone" PROVE Apps = {}
    BY <1>g DEF Gone
  <1>4. ASSUME NEW c \in Chats, ChatStep(c)
        PROVE  \/ UNCHANGED app
               \/ AppsTyped' /\ \E a : Updated(a)
               \/ AppsTyped' /\ property = "here" /\ \E row : Added(row)
    <2>1. CASE CreateApplication(c)
      <3>1. UNCHANGED app \/ property = "here"
        BY <2>1 DEF CreateApplication
      <3> QED
        BY <2>1, <3>1, CreatesApplication
    <2>2. CASE \E field \in Columns : SaveColumn(c, field)
      BY <2>2, SavesColumn
    <2>3. CASE WriteCustoms(c)
      BY <2>3, WritesCustoms
    <2>4. CASE WriteCompleted(c)
      BY <2>4, WritesCompleted
    <2>5. CASE ~CreateApplication(c) /\ ~(\E field \in Columns : SaveColumn(c, field))
               /\ ~WriteCustoms(c) /\ ~WriteCompleted(c)
      BY <1>4, <2>5 DEF ChatStep, OpenChat, NextText, CloseChat, StartApplication, ReadCustoms,
                        CheckAnswers, Refused, ChatDies, rows
    <2> QED
      BY <2>1, <2>2, <2>3, <2>4, <2>5
  <1>5. ASSUME NEW f \in Forms, FormStep(f)
        PROVE  \/ UNCHANGED app
               \/ AppsTyped' /\ (Gone => property = "here") /\ \E row : Added(row)
    <2>1. CASE CreateFromForm(f)
      BY <2>1, CreatesFromForm
    <2>2. CASE SubmitSurvey(f)
      <3>1. CASE ~(UNCHANGED <<app, invite, fwd, unsure>>)
        <4>1. /\ AppsTyped' /\ \E row : Added(row)
              /\ form[f].invite \in Invites /\ invite[form[f].invite].state # "deleted"
          BY <2>2, <3>1, SubmitsSurvey
        <4>2. property \in {"here", "gone"}
          BY DEF Typed
        <4> QED
          BY <4>1, <4>2 DEF Gone
      <3> QED
        BY <3>1
    <2>3. CASE ~CreateFromForm(f) /\ ~SubmitSurvey(f)
      BY <1>5, <2>3 DEF FormStep, Apply, EnterForm, OpenSurvey, ClaimInvite, FormDies, rows
    <2> QED
      BY <2>1, <2>2, <2>3
  <1>6. ASSUME NEW d \in Desks, DeskStep(d)
              PROVE UNCHANGED app \/ (AppsTyped' /\ \E a : Updated(a))
    <2>1. CASE WriteStatus(d)
      BY <2>1, WritesStatus
    <2>2. CASE ~WriteStatus(d)
      BY <1>6, <2>2 DEF DeskStep, ReadStatus, DeleteProperty, DeleteQuestions, DeleteRow,
                  DeskDies, rows
    <2> QED
      BY <2>1, <2>2
  <1>7. ASSUME NEW a \in Apps, ForwardStep(a) \/ Age(a)
        PROVE  UNCHANGED app \/ (AppsTyped' /\ \E b : Updated(b))
    <2>1. CASE Age(a)
      BY <2>1, Ages
    <2>2. CASE ForwardStep(a)
      BY <2>2 DEF ForwardStep, ForwardSent, ForwardDeferred, SweepSends, ForwardDies, rows
    <2> QED
      BY <1>7, <2>1, <2>2
  <1>8. ASSUME (\E p \in Applicants : TextForLink(p)) \/ (\E n \in Invites : InviteExpires(n))
               \/ UNCHANGED applicationsVars
        PROVE  UNCHANGED app
    <2>1. ASSUME NEW p, TextForLink(p) PROVE UNCHANGED app
      BY <2>1 DEF TextForLink
    <2>2. ASSUME NEW n, InviteExpires(n) PROVE UNCHANGED app
      BY <2>2 DEF InviteExpires
    <2>3. UNCHANGED applicationsVars => UNCHANGED app
      BY DEF applicationsVars, rows
    <2> QED
      BY <1>8, <2>1, <2>2, <2>3
  <1>9. \/ UNCHANGED app
        \/ AppsTyped' /\ \E a : Updated(a)
        \/ AppsTyped' /\ (Gone => property = "here") /\ \E row : Added(row)
    <2>1. \/ \E c \in Chats : ChatStep(c)
          \/ \E f \in Forms : FormStep(f)
          \/ \E d \in Desks : DeskStep(d)
          \/ \E a \in Apps : ForwardStep(a) \/ Age(a)
          \/ \E p \in Applicants : TextForLink(p)
          \/ \E n \in Invites : InviteExpires(n)
          \/ UNCHANGED applicationsVars
      BY DEF ApplicationsNext
    <2>2. CASE \E c \in Chats : ChatStep(c)
      BY <2>2, <1>4
    <2>3. CASE \E f \in Forms : FormStep(f)
      BY <2>3, <1>5
    <2>4. CASE \E d \in Desks : DeskStep(d)
      BY <2>4, <1>6
    <2>5. CASE \E a \in Apps : ForwardStep(a) \/ Age(a)
      BY <2>5, <1>7
    <2> QED
      BY <2>1, <2>2, <2>3, <2>4, <2>5, <1>8
  <1>10. CASE UNCHANGED app
    BY <1>1, <1>10, <1>g
  <1>11. CASE AppsTyped' /\ \E a : Updated(a)
    BY <1>2, <1>11, <1>g
  <1>12. CASE AppsTyped' /\ (Gone => property = "here") /\ \E row : Added(row)
    BY <1>3, <1>12
  <1> QED
    BY <1>9, <1>10, <1>11, <1>12

-----------------------------------------------------------------------------
LEMMA Steps ==
    ASSUME [ApplicationsNext]_applicationsVars
    PROVE  \/ \E c \in Chats : ChatStep(c)
           \/ \E f \in Forms : FormStep(f)
           \/ \E d \in Desks : DeskStep(d)
           \/ \E a \in Apps : ForwardStep(a) \/ Age(a)
           \/ \E p \in Applicants : TextForLink(p)
           \/ \E n \in Invites : InviteExpires(n)
           \/ UNCHANGED applicationsVars
  BY DEF ApplicationsNext

\* What a step does to an invite: a new one, or one that expires, is used or goes
\* with its property.
Reused(n, state) ==
    /\ n \in Invites /\ Invites' = Invites
    /\ invite'[n].who = invite[n].who /\ invite'[n].state = state
    /\ \A m \in Invites \ {n} : invite'[m] = invite[m]

LEMMA InviteReused ==
    ASSUME Typed, NEW n \in Invites, NEW state \in {"expired", "used"},
           invite' = [invite EXCEPT ![n].state = state]
    PROVE  InvitesTyped' /\ Reused(n, state)
  <1>1. n \in InviteIds /\ invite[n] \in InviteRow
    BY InvitesOfTyped DEF Typed
  <1>2. PICK row : row = [invite[n] EXCEPT !.state = state]
    OBVIOUS
  <1>3. row \in InviteRow /\ row.who = invite[n].who /\ row.state = state
    BY <1>1, <1>2 DEF InviteRow
  <1>4. invite' \in [InviteIds -> InviteRow \cup {Null}] /\ invite'[n] = row
        /\ \A m \in InviteIds \ {n} : invite'[m] = invite[m]
    BY <1>1, <1>2, <1>3 DEF Typed, InvitesTyped
  <1>5. Invites' = Invites
    BY <1>1, <1>3, <1>4, Keys DEF Invites
  <1> QED
    BY <1>3, <1>4, <1>5, InvitesOfTyped DEF Typed, InvitesTyped, Reused

Deleting == /\ property' = "gone" /\ Apps = {} /\ Apps' = {} /\ Invites' = Invites
            /\ \A n \in Invites : invite'[n].who = invite[n].who /\ invite'[n].state = "deleted"

LEMMA InvitesDeleted ==
    ASSUME Typed, NEW d \in Desks, DeleteRow(d), ~(UNCHANGED invite)
    PROVE  InvitesTyped' /\ Deleting
  <1>1. /\ property' = "gone" /\ Apps = {} /\ app' = app
        /\ invite' = [n \in InviteIds |->
              IF n \in Invites THEN [invite[n] EXCEPT !.state = "deleted"] ELSE Null]
    BY DEF DeleteRow
  <1>2. Apps' = Apps
    BY <1>1 DEF Apps
  <1>3. Invites \subseteq InviteIds /\ \A n \in Invites : invite[n] \in InviteRow
    BY InvitesOfTyped DEF Typed
  <1>4. ASSUME NEW n \in Invites
        PROVE  invite'[n] \in InviteRow /\ invite'[n].who = invite[n].who
                    /\ invite'[n].state = "deleted"
    <2>1. n \in InviteIds /\ invite'[n] = [invite[n] EXCEPT !.state = "deleted"]
      BY <1>1, <1>3
    <2> QED
      BY <1>3, <2>1 DEF InviteRow
  <1>5. \A n \in InviteIds : invite'[n] # Null <=> n \in Invites
    BY <1>1, <1>4, Keys
  <1>6. Invites' = Invites
    BY <1>3, <1>5 DEF Invites
  <1>7. invite' \in [InviteIds -> InviteRow \cup {Null}]
    BY <1>1, <1>4
  <1> QED
    BY <1>1, <1>2, <1>4, <1>6, <1>7 DEF Typed, InvitesTyped, Deleting

LEMMA InviteAdded ==
    ASSUME Typed, NEW p \in Applicants, TextForLink(p)
    PROVE  /\ InvitesTyped' /\ property = "here" /\ Invites \subseteq Invites'
           /\ \A n \in Invites : invite'[n] = invite[n]
           /\ \A n \in Invites' \ Invites : invite'[n].state = "open"
  <1> DEFINE k == Cardinality(Invites) + 1
             row == [who |-> p, state |-> "open"]
  <1>1. /\ property = "here" /\ Cardinality(Invites) < MaxInvites /\ Cardinality(Invites) \in Nat
        /\ invite' = [invite EXCEPT ![k] = row] /\ k \notin Invites
    BY InvitesOfTyped DEF TextForLink, Typed
  <1>2. k \in InviteIds
    BY <1>1, Keys DEF InviteIds
  <1>3. row \in InviteRow
    BY DEF InviteRow
  <1>4. invite' \in [InviteIds -> InviteRow \cup {Null}] /\ invite'[k] = row
        /\ \A m \in InviteIds \ {k} : invite'[m] = invite[m]
    BY <1>1, <1>2, <1>3 DEF Typed, InvitesTyped
  <1>5. Invites' = Invites \cup {k}
    BY <1>2, <1>3, <1>4, Keys DEF Invites
  <1>6. Cardinality(Invites') = Cardinality(Invites) + 1
    BY <1>1, <1>5, InvitesOfTyped, FS_AddElement DEF Typed
  <1>7. Invites' = 1 .. Cardinality(Invites')
    BY <1>1, <1>5, <1>6 DEF Typed, InvitesTyped
  <1>8. \A n \in Invites : n \in InviteIds /\ n # k
    BY <1>1, InvitesOfTyped DEF Typed
  <1>9. \A n \in Invites' \ Invites : n = k
    BY <1>5
  <1>10. row.state = "open"
    OBVIOUS
  <1>11. Invites \subseteq Invites'
    BY <1>5
  <1>12. \A n \in Invites' \ Invites : invite'[n].state = "open"
    BY <1>4, <1>9, <1>10
  <1>13. \A n \in Invites : invite'[n] = invite[n]
    BY <1>4, <1>8
  <1>14. InvitesTyped'
    BY <1>4, <1>7 DEF InvitesTyped
  <1> QED
    BY <1>1, <1>11, <1>12, <1>13, <1>14

LEMMA InvitesMove ==
    ASSUME Typed, [ApplicationsNext]_applicationsVars
    PROVE  \/ UNCHANGED invite
           \/ InvitesTyped' /\ \E p \in Applicants : TextForLink(p)
           \/ InvitesTyped' /\ \E n, state : Reused(n, state) /\ invite[n].state \in {"open",
                       "expired"}
           \/ InvitesTyped' /\ Deleting
  <1>1. ASSUME NEW c \in Chats, ChatStep(c) PROVE UNCHANGED invite
    BY <1>1 DEF ChatStep, OpenChat, NextText, CloseChat, StartApplication, CreateApplication,
                SaveColumn, ReadCustoms, WriteCustoms, CheckAnswers, Refused, WriteCompleted,
                ChatDies, rows
  <1>2. ASSUME NEW f \in Forms, FormStep(f), ~(UNCHANGED invite)
        PROVE  InvitesTyped' /\ \E n, state : Reused(n, state) /\ invite[n].state \in {"open",
                    "expired"}
    <2>1. ClaimInvite(f) \/ SubmitSurvey(f)
      BY <1>2 DEF FormStep, Apply, EnterForm, OpenSurvey, CreateFromForm, FormDies, rows
    <2>2. /\ form[f].invite \in Invites /\ invite[form[f].invite].state \in {"open", "expired"}
          /\ invite' = [invite EXCEPT ![form[f].invite].state = "used"]
      BY <1>2, <2>1 DEF ClaimInvite, SubmitSurvey, Typed, FormsTyped, Fills
    <2> QED
      BY <2>2, InviteReused
  <1>3. ASSUME NEW d \in Desks, DeskStep(d), ~(UNCHANGED invite) PROVE InvitesTyped' /\ Deleting
    <2>1. DeleteRow(d)
      BY <1>3 DEF DeskStep, ReadStatus, WriteStatus, DeleteProperty, DeleteQuestions, DeskDies,
                  rows
    <2> QED
      BY <1>3, <2>1, InvitesDeleted
  <1>4. ASSUME NEW a \in Apps, ForwardStep(a) \/ Age(a) PROVE UNCHANGED invite
    BY <1>4 DEF ForwardStep, ForwardSent, ForwardDeferred, SweepSends, ForwardDies, Age, rows
  <1>5. ASSUME NEW p \in Applicants, TextForLink(p) PROVE InvitesTyped'
    BY <1>5, InviteAdded
  <1>6. ASSUME NEW n \in Invites, InviteExpires(n)
        PROVE  InvitesTyped' /\ \E m, state : Reused(m, state) /\ invite[m].state \in {"open",
                    "expired"}
    BY <1>6, InviteReused DEF InviteExpires
  <1>7. UNCHANGED applicationsVars => UNCHANGED invite
    BY DEF applicationsVars, rows
  <1> QED
    BY <1>1, <1>2, <1>3, <1>4, <1>5, <1>6, <1>7, Steps

\* An invite keeps its phone, and once used it stays so until it is deleted.
LEMMA InvitesStay ==
    ASSUME Typed, [ApplicationsNext]_applicationsVars
    PROVE  /\ InvitesTyped' /\ Invites \subseteq Invites'
           /\ \A n \in Invites :
                  /\ invite'[n].who = invite[n].who
                  /\ invite[n].state = "used" => invite'[n].state = "used" \/ Deleting
                  /\ invite[n].state = "deleted" => invite'[n].state = "deleted"
  <1>1. CASE UNCHANGED invite
    BY <1>1 DEF Typed, InvitesTyped, Invites
  <1>2. CASE InvitesTyped' /\ \E p \in Applicants : TextForLink(p)
    BY <1>2, InviteAdded
  <1>3. CASE InvitesTyped' /\ \E n, state : Reused(n, state) /\ invite[n].state \in {"open",
              "expired"}
    BY <1>3 DEF Reused
  <1>4. CASE InvitesTyped' /\ Deleting
    BY <1>4 DEF Deleting
  <1> QED
    BY <1>1, <1>2, <1>3, <1>4, InvitesMove

LEMMA PropertyStays ==
    ASSUME Typed, [ApplicationsNext]_applicationsVars
    PROVE  /\ property' \in {"here", "gone"} /\ asked' \in BOOLEAN
           /\ property = "gone" => property' = "gone"
           /\ property = "here" /\ property' = "gone" => Deleting
  <1> USE DEF Typed
  <1>1. ASSUME NEW c \in Chats, ChatStep(c) PROVE property' = property /\ asked' \in BOOLEAN
    BY <1>1 DEF ChatStep, OpenChat, NextText, CloseChat, StartApplication, CreateApplication,
                SaveColumn, ReadCustoms, WriteCustoms, CheckAnswers, Refused, WriteCompleted,
                ChatDies, rows
  <1>2. ASSUME NEW f \in Forms, FormStep(f) PROVE property' = property /\ asked' = asked
    BY <1>2 DEF FormStep, Apply, EnterForm, OpenSurvey, CreateFromForm, FormDies, ClaimInvite,
                SubmitSurvey, rows
  <1>3. ASSUME NEW d \in Desks, DeskStep(d)
        PROVE  asked' \in BOOLEAN /\ (property' = property \/ (property' = "gone" /\ Deleting))
    <2>1. CASE DeleteRow(d) /\ property' # property
      <3>1. /\ property' = "gone" /\ Apps = {} /\ asked' = asked /\ app' = app
            /\ invite' = [n \in InviteIds |->
                  IF n \in Invites THEN [invite[n] EXCEPT !.state = "deleted"] ELSE Null]
        BY <2>1 DEF DeleteRow
      <3>2. CASE ~(UNCHANGED invite)
        BY <2>1, <3>1, <3>2, InvitesDeleted
      <3>3. CASE UNCHANGED invite
        <4>1. \A n \in Invites : invite[n].state = "deleted"
          BY <3>1, <3>3, InvitesOfTyped DEF InviteRow
        <4>2. Apps' = {} /\ Invites' = Invites
          BY <3>1, <3>3 DEF Apps, Invites
        <4> QED
          BY <3>1, <3>3, <4>1, <4>2 DEF Deleting
      <3> QED
        BY <3>2, <3>3
    <2>2. CASE ~(DeleteRow(d) /\ property' # property)
      BY <1>3, <2>2 DEF DeskStep, ReadStatus, WriteStatus, DeleteProperty, DeleteQuestions,
                        DeleteRow, DeskDies, rows
    <2> QED
      BY <2>1, <2>2
  <1>4. ASSUME NEW a \in Apps, ForwardStep(a) \/ Age(a)
              PROVE property' = property /\ asked' = asked
    BY <1>4 DEF ForwardStep, ForwardSent, ForwardDeferred, SweepSends, ForwardDies, Age, rows
  <1>5. ASSUME NEW p, TextForLink(p) PROVE property' = property /\ asked' = asked
    BY <1>5 DEF TextForLink
  <1>6. ASSUME NEW n, InviteExpires(n) PROVE property' = property /\ asked' = asked
    BY <1>6 DEF InviteExpires
  <1>7. UNCHANGED applicationsVars => property' = property /\ asked' = asked
    BY DEF applicationsVars, rows
  <1> QED
    BY <1>1, <1>2, <1>3, <1>4, <1>5, <1>6, <1>7, Steps

LEMMA GoneKept == ASSUME Typed, Gone, [ApplicationsNext]_applicationsVars PROVE Gone'
  <1> SUFFICES ASSUME property' = "gone"
              PROVE Apps' = {} /\ \A n \in Invites' : invite'[n].state = "deleted"
    BY DEF Gone
  <1>1. CASE property = "here"
    BY <1>1, PropertyStays DEF Deleting
  <1>2. CASE property = "gone"
    <2>1. Apps' = {}
      BY <1>2, RowsMove
    <2>2. \A n \in Invites : invite[n].state = "deleted"
      BY <1>2 DEF Gone
    <2>3. Invites' = Invites
      <3>1. CASE UNCHANGED invite
        BY <3>1 DEF Invites
      <3>2. CASE \E p \in Applicants : TextForLink(p)
        BY <1>2, <3>2, InviteAdded
      <3> QED
        BY <3>1, <3>2, InvitesMove DEF Reused, Deleting
    <2> QED
      BY <2>1, <2>2, <2>3, InvitesStay
  <1> QED
    BY <1>1, <1>2 DEF Typed

-----------------------------------------------------------------------------
LEMMA LeastOf ==
    ASSUME NEW T \in SUBSET Nat, T # {}
    PROVE  \E n \in T : \A m \in T : n <= m
  <1>1. PICK n \in T : \A m \in T : ~(<<m, n>> \in OpToRel(<, Nat))
    BY NatLessThanWellFounded, WFMin, Zenon
  <1>2. ASSUME NEW m \in T PROVE n <= m
    <2>1. m \in Nat /\ n \in Nat
      OBVIOUS
    <2>2. ~(m < n)
      BY <1>1, <2>1 DEF OpToRel
    <2> QED
      BY <2>1, <2>2
  <1> QED
    BY <1>2

\* The conversation that StartApplication resumes is one of those it may.
LEMMA Latest ==
    ASSUME NEW n \in Nat, NEW T \in SUBSET (1 .. n), T # {}
    PROVE  Max(T) \in T
  <1> DEFINE Back == {n - i : i \in T}
  <1>1. Back \in SUBSET Nat /\ Back # {}
    <2>1. \A i \in T : n - i \in Nat
      OBVIOUS
    <2> QED
      BY <2>1
  <1>2. PICK m \in Back : \A k \in Back : m <= k
    BY <1>1, LeastOf
  <1>3. PICK i \in T : m = n - i
    BY <1>2
  <1>4. \A j \in T : n - i <= n - j
    BY <1>2, <1>3
  <1>5. \A j \in T : i >= j
    BY <1>4
  <1> QED
    BY <1>5 DEF Max

LEMMA ChatPut ==
    ASSUME Typed, NEW c \in Chats, NEW record \in ChatRow, chat' = [chat EXCEPT ![c] = record]
    PROVE  /\ chat' \in [Chats -> ChatRow] /\ chat'[c] = record
           /\ \A e \in Chats \ {c} : chat'[e] = chat[e]
  BY DEF Typed, ChatsTyped

\* What a step does to its conversation.
ChatTo(c, pc, a) ==
    /\ chat' \in [Chats -> ChatRow] /\ \A e \in Chats \ {c} : chat'[e] = chat[e]
    /\ chat'[c].pc = pc /\ chat'[c].app = a /\ chat'[c].who = chat[c].who

ChatClosed(c) ==
    /\ chat' \in [Chats -> ChatRow] /\ chat'[c] = NoChat
    /\ \A e \in Chats \ {c} : chat'[e] = chat[e]

LEMMA NoChatTyped == NoChat \in ChatRow /\ NoChat.pc = "off" /\ NoChat.app = Null
  BY DEF NoChat, ChatRow

LEMMA Opens ==
    ASSUME Typed, NEW c \in Chats, NEW p \in Applicants, NEW kind \in {"voice", "sms"},
           OpenChat(c, kind, p)
    PROVE  /\ chat' \in [Chats -> ChatRow] /\ \A e \in Chats \ {c} : chat'[e] = chat[e]
           /\ chat'[c].pc = "talking" /\ chat'[c].app = Null /\ chat'[c].who = p
  <1>1. PICK record : record = [NoChat EXCEPT !.pc = "talking", !.kind = kind, !.who = p]
    OBVIOUS
  <1>2. record \in ChatRow /\ record.pc = "talking" /\ record.app = Null /\ record.who = p
    BY <1>1 DEF NoChat, ChatRow
  <1>3. chat' = [chat EXCEPT ![c] = record]
    BY <1>1 DEF OpenChat, SetChat
  <1> QED
    BY <1>2, <1>3, ChatPut

LEMMA Closes ==
    ASSUME Typed, NEW c \in Chats, CloseChat(c) \/ ChatDies(c)
    PROVE  ChatClosed(c)
  BY NoChatTyped, ChatPut DEF CloseChat, ChatDies, SetChat, ChatClosed

LEMMA Resumes ==
    ASSUME Typed, NEW c \in Chats, StartApplication(c)
    PROVE  \/ \E a \in Resumable(chat[c].who) : ChatTo(c, "talking", a)
           \/ ChatTo(c, "starting", chat[c].app)
  <1>1. chat[c] \in ChatRow
    BY DEF Typed, ChatsTyped
  <1>2. CASE Resumable(chat[c].who) # {}
    <2> DEFINE a == Max(Resumable(chat[c].who))
    <2>1. a \in Resumable(chat[c].who)
      <3>1. Resumable(chat[c].who) \subseteq 1 .. MaxApps
        BY RowsOf DEF Resumable, AppIds, Typed
      <3> QED
        BY <1>2, <3>1, Keys, Latest
    <2>2. a \in AppIds
      BY <2>1, RowsOf DEF Resumable, Typed
    <2>3. PICK record : record = [chat[c] EXCEPT !.app = a]
      OBVIOUS
    <2>4. record \in ChatRow /\ record.pc = chat[c].pc /\ record.app = a
                /\ record.who = chat[c].who
      BY <1>1, <2>2, <2>3 DEF ChatRow
    <2>5. chat' = [chat EXCEPT ![c] = record] /\ chat[c].pc = "talking"
      BY <1>2, <2>3 DEF StartApplication, SetChat
    <2>6. ChatTo(c, "talking", a)
      BY <2>4, <2>5, ChatPut DEF ChatTo
    <2> QED
      BY <2>1, <2>6
  <1>3. CASE Resumable(chat[c].who) = {}
    <2>1. PICK record : record = [chat[c] EXCEPT !.pc = "starting"]
      OBVIOUS
    <2>2. record \in ChatRow /\ record.pc = "starting" /\ record.app = chat[c].app
          /\ record.who = chat[c].who
      BY <1>1, <2>1 DEF ChatRow
    <2>3. chat' = [chat EXCEPT ![c] = record]
      BY <1>3, <2>1 DEF StartApplication, SetChat
    <2> QED
      BY <2>2, <2>3, ChatPut DEF ChatTo
  <1> QED
    BY <1>2, <1>3

LEMMA Starts ==
    ASSUME Typed, NEW c \in Chats, CreateApplication(c)
    PROVE  \/ /\ UNCHANGED app /\ property = "gone" /\ ChatTo(c, "talking", chat[c].app)
           \/ /\ AppsTyped' /\ (\E row : Added(row)) /\ ChatTo(c, "talking", NextApp)
              /\ app'[NextApp].who = chat[c].who /\ app'[NextApp].by = "chat"
              /\ app'[NextApp].status = "in_progress" /\ app'[NextApp].via = Null
  <1>1. chat[c] \in ChatRow
    BY DEF Typed, ChatsTyped
  <1>2. ASSUME chat' = [chat EXCEPT ![c] = [chat[c] EXCEPT !.pc = "talking"]]
        PROVE  ChatTo(c, "talking", chat[c].app)
    <2>1. PICK record : record = [chat[c] EXCEPT !.pc = "talking"]
      OBVIOUS
    <2>2. record \in ChatRow /\ record.pc = "talking" /\ record.app = chat[c].app
          /\ record.who = chat[c].who
      BY <1>1, <2>1 DEF ChatRow
    <2>3. chat' = [chat EXCEPT ![c] = record]
      BY <1>2, <2>1
    <2> QED
      BY <2>2, <2>3, ChatPut DEF ChatTo
  <1>3. ASSUME NextApp \in AppIds,
               chat' = [chat EXCEPT ![c] = [chat[c] EXCEPT !.pc = "talking", !.app = NextApp]]
        PROVE  ChatTo(c, "talking", NextApp)
    <2>1. PICK record : record = [chat[c] EXCEPT !.pc = "talking", !.app = NextApp]
      OBVIOUS
    <2>2. record \in ChatRow /\ record.pc = "talking" /\ record.app = NextApp
          /\ record.who = chat[c].who
      BY <1>1, <1>3, <2>1 DEF ChatRow
    <2>3. chat' = [chat EXCEPT ![c] = record]
      BY <1>3, <2>1
    <2> QED
      BY <2>2, <2>3, ChatPut DEF ChatTo
  <1>4. \/ /\ UNCHANGED app /\ property = "gone"
           /\ chat' = [chat EXCEPT ![c] = [chat[c] EXCEPT !.pc = "talking"]]
        \/ /\ AppsTyped' /\ (\E row : Added(row)) /\ NextApp \in AppIds
           /\ app'[NextApp].who = chat[c].who /\ app'[NextApp].by = "chat"
           /\ app'[NextApp].status = "in_progress" /\ app'[NextApp].via = Null
           /\ chat' = [chat EXCEPT ![c] = [chat[c] EXCEPT !.pc = "talking", !.app = NextApp]]
    BY CreatesApplication DEF Added
  <1> QED
    BY <1>2, <1>3, <1>4

LEMMA ReadsCustoms ==
    ASSUME Typed, NEW c \in Chats, NEW field \in Customs, ReadCustoms(c, field)
    PROVE  /\ ChatTo(c, "saving", chat[c].app) /\ chat[c].app # Null
           /\ chat'[c].field = field /\ chat'[c].seen = app[chat[c].app].ans \cap Customs
  <1>1. chat[c] \in ChatRow
    BY DEF Typed, ChatsTyped
  <1>2. PICK record : record = [chat[c] EXCEPT !.pc = "saving", !.field = field,
                                               !.seen = app[chat[c].app].ans \cap Customs]
    OBVIOUS
  <1>3. record \in ChatRow /\ record.pc = "saving" /\ record.app = chat[c].app
        /\ record.who = chat[c].who /\ record.field = field
        /\ record.seen = app[chat[c].app].ans \cap Customs
    BY <1>1, <1>2 DEF ChatRow, Answers
  <1>4. chat' = [chat EXCEPT ![c] = record] /\ chat[c].app # Null
    BY <1>2 DEF ReadCustoms, SetChat
  <1> QED
    BY <1>3, <1>4, ChatPut DEF ChatTo

LEMMA Talking ==
    ASSUME Typed, NEW c \in Chats, WriteCustoms(c) \/ WriteCompleted(c)
    PROVE  ChatTo(c, "talking", chat[c].app)
  <1>1. chat[c] \in ChatRow
    BY DEF Typed, ChatsTyped
  <1>2. CASE WriteCustoms(c)
    <2>1. PICK record : record = [chat[c] EXCEPT !.pc = "talking", !.field = Null, !.seen = {}]
      OBVIOUS
    <2>2. record \in ChatRow /\ record.pc = "talking" /\ record.app = chat[c].app
          /\ record.who = chat[c].who
      BY <1>1, <2>1 DEF ChatRow
    <2>3. chat' = [chat EXCEPT ![c] = record]
      BY <1>2, <2>1 DEF WriteCustoms, SetChat
    <2> QED
      BY <2>2, <2>3, ChatPut DEF ChatTo
  <1>3. CASE WriteCompleted(c)
    <2>1. PICK record : record = [chat[c] EXCEPT !.pc = "talking"]
      OBVIOUS
    <2>2. record \in ChatRow /\ record.pc = "talking" /\ record.app = chat[c].app
          /\ record.who = chat[c].who
      BY <1>1, <2>1 DEF ChatRow
    <2>3. chat' = [chat EXCEPT ![c] = record]
      BY <1>3, <2>1 DEF WriteCompleted, SetChat
    <2> QED
      BY <2>2, <2>3, ChatPut DEF ChatTo
  <1> QED
    BY <1>2, <1>3

LEMMA Checks ==
    ASSUME Typed, NEW c \in Chats, CheckAnswers(c)
    PROVE  ChatTo(c, "completing", chat[c].app) /\ chat[c].app # Null
  <1>1. chat[c] \in ChatRow
    BY DEF Typed, ChatsTyped
  <1>2. PICK record : record = [chat[c] EXCEPT !.pc = "completing"]
    OBVIOUS
  <1>3. record \in ChatRow /\ record.pc = "completing" /\ record.app = chat[c].app
        /\ record.who = chat[c].who
    BY <1>1, <1>2 DEF ChatRow
  <1>4. chat' = [chat EXCEPT ![c] = record] /\ chat[c].app # Null
    BY <1>2 DEF CheckAnswers, SetChat
  <1> QED
    BY <1>3, <1>4, ChatPut DEF ChatTo

-----------------------------------------------------------------------------
LEMMA ChatsKept == ASSUME Typed, [ApplicationsNext]_applicationsVars PROVE ChatsTyped'
  <1>1. ASSUME NEW e \in Chats, chat'[e] = chat[e] PROVE Talks(e)'
    BY <1>1, RowsMove DEF Talks, Typed, ChatsTyped
  <1>2. ASSUME NEW c \in Chats, ChatStep(c) PROVE ChatsTyped'
    <2>0. Talks(c) /\ \A a \in Apps : a \in Apps' /\ app'[a].by = app[a].by
      BY RowsMove DEF Typed, ChatsTyped
    <2>1. CASE \E p \in Applicants, kind \in {"voice", "sms"} : OpenChat(c, kind, p)
      <3>1. PICK p \in Applicants, kind \in {"voice", "sms"} : OpenChat(c, kind, p)
        BY <2>1
      <3>2. /\ chat' \in [Chats -> ChatRow] /\ \A e \in Chats \ {c} : chat'[e] = chat[e]
            /\ chat'[c].pc = "talking" /\ chat'[c].app = Null /\ chat'[c].who = p
        BY <3>1, Opens
      <3>3. Talks(c)'
        BY <3>2 DEF Talks
      <3> QED
        BY <1>1, <3>2, <3>3 DEF ChatsTyped
    <2>2. CASE CloseChat(c) \/ ChatDies(c)
      <3>1. ChatClosed(c)
        BY <2>2, Closes
      <3>2. Talks(c)'
        BY <3>1, NoChatTyped DEF Talks, ChatClosed
      <3> QED
        BY <1>1, <3>1, <3>2 DEF ChatsTyped, ChatClosed
    <2>3. CASE StartApplication(c)
      <3>1. chat[c].pc = "talking"
        BY <2>3 DEF StartApplication
      <3>2. ASSUME NEW a \in Resumable(chat[c].who), ChatTo(c, "talking", a) PROVE ChatsTyped'
        <4>1. a \in Apps /\ app[a].by = "chat"
          BY DEF Resumable
        <4>2. Talks(c)'
          BY <2>0, <3>1, <3>2, <4>1 DEF Talks, ChatTo
        <4> QED
          BY <1>1, <3>2, <4>2 DEF ChatsTyped, ChatTo
      <3>3. ASSUME ChatTo(c, "starting", chat[c].app) PROVE ChatsTyped'
        <4>1. Talks(c)'
          BY <2>0, <3>1, <3>3 DEF Talks, ChatTo
        <4> QED
          BY <1>1, <3>3, <4>1 DEF ChatsTyped, ChatTo
      <3> QED
        BY <2>3, <3>2, <3>3, Resumes
    <2>4. CASE CreateApplication(c)
      <3>1. chat[c].pc = "starting"
        BY <2>4 DEF CreateApplication
      <3>2. ASSUME ChatTo(c, "talking", chat[c].app) PROVE ChatsTyped'
        <4>1. Talks(c)'
          BY <2>0, <3>1, <3>2 DEF Talks, ChatTo
        <4> QED
          BY <1>1, <3>2, <4>1 DEF ChatsTyped, ChatTo
      <3>3. ASSUME ChatTo(c, "talking", NextApp), NEW row, Added(row), app'[NextApp].by = "chat"
            PROVE  ChatsTyped'
        <4>1. Talks(c)'
          BY <2>0, <3>1, <3>3 DEF Talks, ChatTo, Added
        <4> QED
          BY <1>1, <3>3, <4>1 DEF ChatsTyped, ChatTo
      <3> QED
        BY <2>4, <3>2, <3>3, Starts
    <2>5. CASE \E field \in Customs : ReadCustoms(c, field)
      <3>1. PICK field \in Customs : ReadCustoms(c, field)
        BY <2>5
      <3>2. /\ ChatTo(c, "saving", chat[c].app) /\ chat[c].app # Null
            /\ chat'[c].field = field /\ chat'[c].seen \subseteq Customs /\ chat[c].pc = "talking"
        BY <3>1, ReadsCustoms DEF ReadCustoms
      <3>3. Talks(c)'
        BY <2>0, <3>2 DEF Talks, ChatTo
      <3> QED
        BY <1>1, <3>2, <3>3 DEF ChatsTyped, ChatTo
    <2>6. CASE WriteCustoms(c) \/ WriteCompleted(c)
      <3>1. ChatTo(c, "talking", chat[c].app) /\ chat[c].pc # "off"
        BY <2>6, Talking DEF WriteCustoms, WriteCompleted
      <3>2. Talks(c)'
        BY <2>0, <3>1 DEF Talks, ChatTo
      <3> QED
        BY <1>1, <3>1, <3>2 DEF ChatsTyped, ChatTo
    <2>7. CASE CheckAnswers(c)
      <3>1. ChatTo(c, "completing", chat[c].app) /\ chat[c].app # Null /\ chat[c].pc # "off"
        BY <2>7, Checks DEF CheckAnswers
      <3>2. Talks(c)'
        BY <2>0, <3>1 DEF Talks, ChatTo
      <3> QED
        BY <1>1, <3>1, <3>2 DEF ChatsTyped, ChatTo
    <2>8. CASE NextText(c) \/ Refused(c) \/ \E field \in Columns : SaveColumn(c, field)
      <3>1. UNCHANGED chat
        BY <2>8 DEF NextText, Refused, SaveColumn, actors
      <3> QED
        BY <1>1, <3>1 DEF ChatsTyped, Typed
    <2> QED
      BY <1>2, <2>1, <2>2, <2>3, <2>4, <2>5, <2>6, <2>7, <2>8 DEF ChatStep
  <1>3. ASSUME NEW f \in Forms, FormStep(f) PROVE UNCHANGED chat
    BY <1>3 DEF FormStep, Apply, EnterForm, OpenSurvey, CreateFromForm, FormDies, ClaimInvite,
                SubmitSurvey
  <1>4. ASSUME NEW d \in Desks, DeskStep(d) PROVE UNCHANGED chat
    BY <1>4 DEF DeskStep, ReadStatus, WriteStatus, DeleteProperty, DeleteQuestions, DeleteRow,
                DeskDies
  <1>5. ASSUME NEW a \in Apps, ForwardStep(a) \/ Age(a) PROVE UNCHANGED chat
    BY <1>5 DEF ForwardStep, ForwardSent, ForwardDeferred, SweepSends, ForwardDies, Age, actors
  <1>6. ASSUME NEW p, TextForLink(p) PROVE UNCHANGED chat
    BY <1>6 DEF TextForLink, actors
  <1>7. ASSUME NEW n, InviteExpires(n) PROVE UNCHANGED chat
    BY <1>7 DEF InviteExpires, actors
  <1>8. UNCHANGED applicationsVars => UNCHANGED chat
    BY DEF applicationsVars, actors
  <1>9. UNCHANGED chat => ChatsTyped'
    BY <1>1 DEF ChatsTyped, Typed
  <1> QED
    BY <1>2, <1>3, <1>4, <1>5, <1>6, <1>7, <1>8, <1>9, Steps

LEMMA NoFormTyped == NoForm \in FormRow /\ NoForm.pc = "idle" /\ NoForm.invite = Null
  BY DEF NoForm, FormRow

LEMMA FormPut ==
    ASSUME Typed, NEW f \in Forms, NEW record \in FormRow, form' = [form EXCEPT ![f] = record]
    PROVE  /\ form' \in [Forms -> FormRow] /\ form'[f] = record
           /\ \A g \in Forms \ {f} : form'[g] = form[g]
  BY DEF Typed, FormsTyped

LEMMA FormEnds ==
    ASSUME Typed, NEW f \in Forms, form' = [form EXCEPT ![f] = NoForm]
    PROVE  /\ form' \in [Forms -> FormRow] /\ form'[f] = NoForm
           /\ \A g \in Forms \ {f} : form'[g] = form[g]
  BY NoFormTyped, FormPut

LEMMA Applies ==
    ASSUME Typed, NEW f \in Forms, NEW p \in Applicants, NEW n \in Invites \cup {Null}, Apply(f,
                p, n)
    PROVE  /\ form' \in [Forms -> FormRow] /\ \A g \in Forms \ {f} : form'[g] = form[g]
           /\ form'[f].who = p /\ form'[f].invite = n
           /\ form'[f].pc = IF n = Null THEN "create" ELSE "claim"
  <1>1. PICK record : record = [pc |-> IF n = Null THEN "create" ELSE "claim", who |-> p,
              invite |-> n]
    OBVIOUS
  <1>2. n \in InviteIds \cup {Null}
    BY InvitesOfTyped DEF Typed
  <1>3. /\ record \in FormRow /\ record.who = p /\ record.invite = n
        /\ record.pc = IF n = Null THEN "create" ELSE "claim"
    BY <1>1, <1>2 DEF FormRow
  <1>4. form' = [form EXCEPT ![f] = record]
    BY <1>1 DEF Apply, EnterForm, SetForm
  <1> QED
    BY <1>3, <1>4, FormPut

LEMMA Claims ==
    ASSUME Typed, NEW f \in Forms, ClaimInvite(f)
    PROVE  LET n == form[f].invite IN
           /\ form[f].pc = "claim" /\ n \in Invites /\ n # Null
           /\ \/ /\ UNCHANGED invite /\ form' = [form EXCEPT ![f] = NoForm]
              \/ /\ invite[n].state \in {"open", "expired"} /\ InvitesTyped' /\ Reused(n, "used")
                 /\ form' \in [Forms -> FormRow] /\ \A g \in Forms \ {f} : form'[g] = form[g]
                 /\ form'[f].who = form[f].who /\ form'[f].invite = n /\ form'[f].pc = "create"
  <1> DEFINE n == form[f].invite
  <1>1. form[f].pc = "claim" /\ n \in Invites /\ n # Null /\ form[f] \in FormRow
    BY InvitesOfTyped DEF ClaimInvite, Typed, FormsTyped, Fills
  <1>2. CASE UNCHANGED invite /\ SetForm(f, NoForm)
    BY <1>1, <1>2 DEF SetForm
  <1>3. CASE /\ invite[n].state \in {"open", "expired"}
             /\ invite' = [invite EXCEPT ![n].state = "used"]
             /\ SetForm(f, [form[f] EXCEPT !.pc = "create"])
    <2>1. InvitesTyped' /\ Reused(n, "used")
      BY <1>1, <1>3, InviteReused
    <2>2. PICK record : record = [form[f] EXCEPT !.pc = "create"]
      OBVIOUS
    <2>3. record \in FormRow /\ record.who = form[f].who /\ record.invite = n
                /\ record.pc = "create"
      BY <1>1, <2>2 DEF FormRow
    <2>4. form' = [form EXCEPT ![f] = record]
      BY <1>3, <2>2 DEF SetForm
    <2>5. form' \in [Forms -> FormRow] /\ form'[f] = record
                /\ \A g \in Forms \ {f} : form'[g] = form[g]
      BY <2>3, <2>4, FormPut
    <2> QED
      BY <1>1, <1>3, <2>1, <2>3, <2>5
  <1> QED
    BY <1>2, <1>3 DEF ClaimInvite

LEMMA OpensSurvey ==
    ASSUME Typed, NEW f \in Forms, NEW n \in Invites, OpenSurvey(f, n)
    PROVE  /\ form' \in [Forms -> FormRow] /\ \A g \in Forms \ {f} : form'[g] = form[g]
           /\ form'[f].who = invite[n].who /\ form'[f].invite = n /\ form'[f].pc = "submit"
           /\ invite[n].who \in Applicants
  <1>1. PICK record : record = [pc |-> "submit", who |-> invite[n].who, invite |-> n]
    OBVIOUS
  <1>2. invite[n] \in InviteRow /\ n \in InviteIds
    BY InvitesOfTyped DEF Typed
  <1>3. invite[n].who \in Applicants
    BY <1>2 DEF InviteRow
  <1>4. record \in FormRow /\ record.who = invite[n].who /\ record.invite = n
              /\ record.pc = "submit"
    BY <1>1, <1>2, <1>3 DEF FormRow
  <1>5. form' = [form EXCEPT ![f] = record]
    BY <1>1 DEF OpenSurvey, SetForm
  <1> QED
    BY <1>3, <1>4, <1>5, FormPut

LEMMA FormsKept == ASSUME Typed, [ApplicationsNext]_applicationsVars PROVE FormsTyped'
  <1>0. Invites \subseteq Invites' /\ \A n \in Invites : invite'[n].who = invite[n].who
    BY InvitesStay
  <1>1. ASSUME NEW g \in Forms, form'[g] = form[g] PROVE Fills(g)'
    BY <1>0, <1>1 DEF Fills, Typed, FormsTyped
  <1>2. ASSUME NEW f \in Forms, FormStep(f) PROVE FormsTyped'
    <2>0. Fills(f)
      BY DEF Typed, FormsTyped
    <2>1. CASE \E p \in Applicants, n \in Invites \cup {Null} : Apply(f, p, n)
      <3>1. PICK p \in Applicants, n \in Invites \cup {Null} : Apply(f, p, n)
        BY <2>1
      <3>2. /\ form' \in [Forms -> FormRow] /\ \A g \in Forms \ {f} : form'[g] = form[g]
            /\ form'[f].who = p /\ form'[f].invite = n
            /\ form'[f].pc = IF n = Null THEN "create" ELSE "claim"
        BY <3>1, Applies
      <3>3. Fills(f)'
        BY <1>0, <3>2 DEF Fills
      <3> QED
        BY <1>1, <3>2, <3>3 DEF FormsTyped
    <2>2. CASE form' = [form EXCEPT ![f] = NoForm]
      <3>1. /\ form' \in [Forms -> FormRow] /\ form'[f] = NoForm
            /\ \A g \in Forms \ {f} : form'[g] = form[g]
        BY <2>2, FormEnds
      <3>2. Fills(f)'
        BY <3>1, NoFormTyped DEF Fills
      <3> QED
        BY <1>1, <3>1, <3>2 DEF FormsTyped
    <2>3. CASE ClaimInvite(f)
      <3>1. CASE /\ form' \in [Forms -> FormRow] /\ \A g \in Forms \ {f} : form'[g] = form[g]
                 /\ form'[f].who = form[f].who /\ form'[f].invite = form[f].invite
                 /\ form'[f].pc = "create" /\ form[f].pc = "claim" /\ form[f].invite \in Invites
        <4>1. Fills(f)'
          BY <1>0, <2>0, <3>1 DEF Fills
        <4> QED
          BY <1>1, <3>1, <4>1 DEF FormsTyped
      <3> QED
        BY <2>2, <2>3, <3>1, Claims
    <2>4. CASE \E n \in Invites : OpenSurvey(f, n)
      <3>1. PICK n \in Invites : OpenSurvey(f, n)
        BY <2>4
      <3>2. /\ form' \in [Forms -> FormRow] /\ \A g \in Forms \ {f} : form'[g] = form[g]
            /\ form'[f].who = invite[n].who /\ form'[f].invite = n /\ form'[f].pc = "submit"
            /\ invite[n].who \in Applicants
        BY <3>1, OpensSurvey
      <3>3. Fills(f)'
        BY <1>0, <3>2 DEF Fills
      <3> QED
        BY <1>1, <3>2, <3>3 DEF FormsTyped
    <2>5. CASE CreateFromForm(f) \/ SubmitSurvey(f) \/ FormDies(f)
      BY <2>2, <2>5 DEF CreateFromForm, SubmitSurvey, FormDies, SetForm
    <2> QED
      BY <1>2, <2>1, <2>3, <2>4, <2>5 DEF FormStep
  <1>3. ASSUME NEW c \in Chats, ChatStep(c) PROVE UNCHANGED form
    BY <1>3 DEF ChatStep, OpenChat, NextText, CloseChat, StartApplication, CreateApplication,
                SaveColumn, ReadCustoms, WriteCustoms, CheckAnswers, Refused, WriteCompleted,
                ChatDies, actors
  <1>4. ASSUME NEW d \in Desks, DeskStep(d) PROVE UNCHANGED form
    BY <1>4 DEF DeskStep, ReadStatus, WriteStatus, DeleteProperty, DeleteQuestions, DeleteRow,
                DeskDies
  <1>5. ASSUME NEW a \in Apps, ForwardStep(a) \/ Age(a) PROVE UNCHANGED form
    BY <1>5 DEF ForwardStep, ForwardSent, ForwardDeferred, SweepSends, ForwardDies, Age, actors
  <1>6. ASSUME NEW p, TextForLink(p) PROVE UNCHANGED form
    BY <1>6 DEF TextForLink, actors
  <1>7. ASSUME NEW n, InviteExpires(n) PROVE UNCHANGED form
    BY <1>7 DEF InviteExpires, actors
  <1>8. UNCHANGED applicationsVars => UNCHANGED form
    BY DEF applicationsVars, actors
  <1>9. UNCHANGED form => FormsTyped'
    BY <1>1 DEF FormsTyped, Typed
  <1> QED
    BY <1>2, <1>3, <1>4, <1>5, <1>6, <1>7, <1>8, <1>9, Steps

LEMMA DeskPut ==
    ASSUME Typed, NEW d \in Desks, NEW record \in DeskRow, desk' = [desk EXCEPT ![d] = record]
    PROVE  /\ desk' \in [Desks -> DeskRow] /\ desk'[d] = record
           /\ \A e \in Desks \ {d} : desk'[e] = desk[e]
  BY DEF Typed, DesksTyped

LEMMA NoDeskTyped == NoDesk \in DeskRow /\ NoDesk.pc = "idle" /\ NoDesk.app = Null
  BY DEF NoDesk, DeskRow

LEMMA ReadsStatus ==
    ASSUME Typed, NEW d \in Desks, NEW a \in Apps, NEW to \in Decided \cup {"completed"},
           ReadStatus(d, a, to)
    PROVE  /\ desk' \in [Desks -> DeskRow] /\ \A e \in Desks \ {d} : desk'[e] = desk[e]
           /\ desk'[d].pc = "write" /\ desk'[d].app = a /\ desk'[d].to = to
  <1>1. PICK record : record = [pc |-> "write", app |-> a, to |-> to]
    OBVIOUS
  <1>2. a \in AppIds
    BY RowsOf DEF Typed
  <1>3. record \in DeskRow /\ record.pc = "write" /\ record.app = a /\ record.to = to
    BY <1>1, <1>2 DEF DeskRow
  <1>4. desk' = [desk EXCEPT ![d] = record]
    BY <1>1 DEF ReadStatus, SetDesk
  <1> QED
    BY <1>3, <1>4, DeskPut

\* Any other step of a request leaves it with nothing to write.
DeskFree(d) ==
    /\ desk' \in [Desks -> DeskRow] /\ desk'[d].pc # "write"
    /\ \A e \in Desks \ {d} : desk'[e] = desk[e]

LEMMA FreesDesk ==
    ASSUME Typed, NEW d \in Desks,
           \/ WriteStatus(d) \/ DeleteProperty(d) \/ DeleteQuestions(d) \/ DeleteRow(d)
                       \/ DeskDies(d)
    PROVE  DeskFree(d)
  <1>1. CASE DeleteProperty(d) \/ DeleteQuestions(d)
    <2>1. PICK pc \in {"questions",
                "property"} : desk' = [desk EXCEPT ![d] = [NoDesk EXCEPT !.pc = pc]]
      BY <1>1 DEF DeleteProperty, DeleteQuestions, SetDesk
    <2>2. PICK record : record = [NoDesk EXCEPT !.pc = pc]
      OBVIOUS
    <2>3. record \in DeskRow /\ record.pc = pc
      BY <2>2 DEF NoDesk, DeskRow
    <2>4. desk' = [desk EXCEPT ![d] = record]
      BY <2>1, <2>2
    <2> QED
      BY <2>3, <2>4, DeskPut DEF DeskFree
  <1>2. CASE WriteStatus(d) \/ DeleteRow(d) \/ DeskDies(d)
    BY <1>2, NoDeskTyped, DeskPut DEF WriteStatus, DeleteRow, DeskDies, SetDesk, DeskFree
  <1> QED
    BY <1>1, <1>2

LEMMA DesksKept == ASSUME Typed, [ApplicationsNext]_applicationsVars PROVE DesksTyped'
  <1>1. ASSUME NEW e \in Desks, desk'[e] = desk[e] PROVE Works(e)'
    BY <1>1, RowsMove DEF Works, Typed, DesksTyped
  <1>2. ASSUME NEW d \in Desks, DeskStep(d) PROVE DesksTyped'
    <2>1. CASE \E a \in Apps, to \in Decided \cup {"completed"} : ReadStatus(d, a, to)
      <3>1. PICK a \in Apps, to \in Decided \cup {"completed"} : ReadStatus(d, a, to)
        BY <2>1
      <3>2. /\ desk' \in [Desks -> DeskRow] /\ \A e \in Desks \ {d} : desk'[e] = desk[e]
            /\ desk'[d].pc = "write" /\ desk'[d].app = a /\ desk'[d].to = to
        BY <3>1, ReadsStatus
      <3>3. Works(d)'
        BY <3>2, RowsMove DEF Works
      <3> QED
        BY <1>1, <3>2, <3>3 DEF DesksTyped
    <2>2. CASE \/ WriteStatus(d) \/ DeleteProperty(d) \/ DeleteQuestions(d) \/ DeleteRow(d)
               \/ DeskDies(d)
      BY <1>1, <2>2, FreesDesk DEF DesksTyped, DeskFree, Works
    <2> QED
      BY <1>2, <2>1, <2>2 DEF DeskStep
  <1>3. ASSUME NEW c \in Chats, ChatStep(c) PROVE UNCHANGED desk
    BY <1>3 DEF ChatStep, OpenChat, NextText, CloseChat, StartApplication, CreateApplication,
                SaveColumn, ReadCustoms, WriteCustoms, CheckAnswers, Refused, WriteCompleted,
                ChatDies, actors
  <1>4. ASSUME NEW f \in Forms, FormStep(f) PROVE UNCHANGED desk
    BY <1>4 DEF FormStep, Apply, EnterForm, OpenSurvey, CreateFromForm, FormDies, ClaimInvite,
                SubmitSurvey
  <1>5. ASSUME NEW a \in Apps, ForwardStep(a) \/ Age(a) PROVE UNCHANGED desk
    BY <1>5 DEF ForwardStep, ForwardSent, ForwardDeferred, SweepSends, ForwardDies, Age, actors
  <1>6. ASSUME NEW p, TextForLink(p) PROVE UNCHANGED desk
    BY <1>6 DEF TextForLink, actors
  <1>7. ASSUME NEW n, InviteExpires(n) PROVE UNCHANGED desk
    BY <1>7 DEF InviteExpires, actors
  <1>8. UNCHANGED applicationsVars => UNCHANGED desk
    BY DEF applicationsVars, actors
  <1>9. UNCHANGED desk => DesksTyped'
    BY <1>1 DEF DesksTyped, Typed
  <1> QED
    BY <1>2, <1>3, <1>4, <1>5, <1>6, <1>7, <1>8, <1>9, Steps

-----------------------------------------------------------------------------
(* The owner's summaries.                                                     *)
SummaryTo(a, sending, deferred, told, marked) ==
    /\ fwd' \in [AppIds -> Summary] /\ \A b \in AppIds \ {a} : fwd'[b] = fwd[b]
    /\ fwd'[a].sending = sending /\ fwd'[a].deferred = deferred
    /\ fwd'[a].told = told /\ fwd'[a].marked = marked

LEMMA SummaryPut ==
    ASSUME SummariesTyped, NEW a \in AppIds, NEW s \in Nat, NEW p \in Nat, NEW t \in Nat,
           NEW m \in BOOLEAN,
           fwd' = [fwd EXCEPT ![a] = [sending |-> s, deferred |-> p, told |-> t, marked |-> m]]
    PROVE  SummaryTo(a, s, p, t, m)
  <1>1. [sending |-> s, deferred |-> p, told |-> t, marked |-> m] \in Summary
    BY DEF Summary
  <1> QED
    BY <1>1 DEF SummariesTyped, SummaryTo

LEMMA SummaryParts ==
    ASSUME SummariesTyped, NEW a \in AppIds
    PROVE  /\ fwd[a].sending \in Nat /\ fwd[a].deferred \in Nat /\ fwd[a].told \in Nat
           /\ fwd[a].marked \in BOOLEAN /\ fwd[a] \in Summary
  BY DEF SummariesTyped, Summary

\* What happens to a summary: it is begun, sent, deferred, swept or lost.
Forwards(a) ==
    LET f == fwd[a] IN
    \/ /\ ~f.marked /\ SummaryTo(a, f.sending + 1, f.deferred, f.told, f.marked)
       /\ unsure' = IF f.sending > 0 THEN unsure \cup {a} ELSE unsure
    \/ /\ f.sending > 0 /\ SummaryTo(a, f.sending - 1, f.deferred, f.told + 1, TRUE)
       /\ unsure' = unsure
    \/ /\ f.deferred > 0 /\ SummaryTo(a, f.sending, f.deferred - 1, f.told + 1, f.marked)
       /\ unsure' = unsure
    \/ /\ SummariesTyped' /\ unsure' = unsure \cup {a}
       /\ \A b \in AppIds \ {a} : fwd'[b] = fwd[b]

LEMMA Begins ==
    ASSUME SummariesTyped, NEW a \in AppIds, StartForward(a), ~(UNCHANGED <<fwd, unsure>>)
    PROVE  Forwards(a)
  <1>1. /\ ~fwd[a].marked /\ fwd' = [fwd EXCEPT ![a].sending = @ + 1]
        /\ unsure' = IF fwd[a].sending > 0 THEN unsure \cup {a} ELSE unsure
    BY DEF StartForward
  <1>2. PICK s, p, t, m : s = fwd[a].sending + 1 /\ p = fwd[a].deferred /\ t = fwd[a].told
                          /\ m = fwd[a].marked
    OBVIOUS
  <1>3. s \in Nat /\ p \in Nat /\ t \in Nat /\ m \in BOOLEAN
    BY <1>2, SummaryParts
  <1>4. fwd' = [fwd EXCEPT ![a] = [sending |-> s, deferred |-> p, told |-> t, marked |-> m]]
    <2>1. [fwd[a] EXCEPT !.sending = s] = [sending |-> s, deferred |-> p, told |-> t,
                marked |-> m]
      BY <1>2, SummaryParts DEF Summary
    <2>2. fwd' = [fwd EXCEPT ![a] = [fwd[a] EXCEPT !.sending = s]]
      BY <1>1, <1>2
    <2> QED
      BY <2>1, <2>2
  <1>5. SummaryTo(a, s, p, t, m)
    BY <1>3, <1>4, SummaryPut
  <1>6. SummaryTo(a, fwd[a].sending + 1, fwd[a].deferred, fwd[a].told, fwd[a].marked)
    BY <1>2, <1>5
  <1> QED
    BY <1>1, <1>6 DEF Forwards

LEMMA Forwarding ==
    ASSUME SummariesTyped, NEW a \in AppIds, ForwardStep(a)
    PROVE  Forwards(a)
  <1>0. PICK f \in Summary : f = fwd[a]
    BY SummaryParts
  <1>1. f.sending \in Nat /\ f.deferred \in Nat /\ f.told \in Nat /\ f.marked \in BOOLEAN
    BY <1>0 DEF Summary
  <1>2. CASE ForwardSent(a)
    <2>1. fwd' = [fwd EXCEPT ![a].sending = @ - 1, ![a].told = @ + 1, ![a].marked = TRUE]
      BY <1>2 DEF ForwardSent
    <2>2. PICK s, t : s = f.sending - 1 /\ t = f.told + 1
      OBVIOUS
    <2>3. f.sending > 0 /\ s \in Nat /\ t \in Nat
      BY <1>0, <1>1, <1>2, <2>2 DEF ForwardSent
    <2>4. fwd' \in [AppIds -> Summary] /\ \A b \in AppIds \ {a} : fwd'[b] = fwd[b]
      <3>1. \A b \in AppIds : fwd'[b] = IF b = a THEN [f EXCEPT !.sending = s, !.told = t,
                  !.marked = TRUE]
                                        ELSE fwd[b]
        BY <1>0, <2>1, <2>2 DEF SummariesTyped, Summary
      <3>2. [f EXCEPT !.sending = s, !.told = t, !.marked = TRUE] \in Summary
        BY <1>0, <2>3 DEF Summary
      <3>3. fwd' = [b \in AppIds |-> fwd'[b]]
        BY <2>1 DEF SummariesTyped
      <3> QED
        BY <3>1, <3>2, <3>3 DEF SummariesTyped
    <2>5. fwd'[a].sending = s /\ fwd'[a].deferred = f.deferred /\ fwd'[a].told = t
                /\ fwd'[a].marked = TRUE
      BY <1>0, <2>1, <2>2 DEF SummariesTyped, Summary
    <2> QED
      BY <1>0, <1>2, <2>2, <2>3, <2>4, <2>5 DEF Forwards, SummaryTo, ForwardSent, history
  <1>3. CASE SweepSends(a)
    <2>1. fwd' = [fwd EXCEPT ![a].deferred = @ - 1, ![a].told = @ + 1]
      BY <1>3 DEF SweepSends
    <2>2. PICK s, t : s = f.deferred - 1 /\ t = f.told + 1
      OBVIOUS
    <2>3. f.deferred > 0 /\ s \in Nat /\ t \in Nat
      BY <1>0, <1>1, <1>3, <2>2 DEF SweepSends
    <2>4. fwd' \in [AppIds -> Summary] /\ \A b \in AppIds \ {a} : fwd'[b] = fwd[b]
      <3>1. \A b \in AppIds : fwd'[b] = IF b = a THEN [f EXCEPT !.deferred = s,
                  !.told = t] ELSE fwd[b]
        BY <1>0, <2>1, <2>2 DEF SummariesTyped, Summary
      <3>2. [f EXCEPT !.deferred = s, !.told = t] \in Summary
        BY <1>0, <2>3 DEF Summary
      <3>3. fwd' = [b \in AppIds |-> fwd'[b]]
        BY <2>1 DEF SummariesTyped
      <3> QED
        BY <3>1, <3>2, <3>3 DEF SummariesTyped
    <2>5. /\ fwd'[a].sending = f.sending /\ fwd'[a].deferred = s /\ fwd'[a].told = t
          /\ fwd'[a].marked = f.marked
      BY <1>0, <2>1, <2>2 DEF SummariesTyped, Summary
    <2> QED
      BY <1>0, <1>3, <2>2, <2>3, <2>4, <2>5 DEF Forwards, SummaryTo, SweepSends, history
  <1>4. CASE ForwardDeferred(a)
    <2>1. fwd' = [fwd EXCEPT ![a].sending = @ - 1, ![a].deferred = @ + 1]
      BY <1>4 DEF ForwardDeferred
    <2>2. PICK s, t : s = f.sending - 1 /\ t = f.deferred + 1
      OBVIOUS
    <2>3. f.sending > 0 /\ s \in Nat /\ t \in Nat
      BY <1>0, <1>1, <1>4, <2>2 DEF ForwardDeferred
    <2>4. fwd' \in [AppIds -> Summary] /\ \A b \in AppIds \ {a} : fwd'[b] = fwd[b]
      <3>1. \A b \in AppIds : fwd'[b] = IF b = a THEN [f EXCEPT !.sending = s,
                  !.deferred = t] ELSE fwd[b]
        BY <1>0, <2>1, <2>2 DEF SummariesTyped, Summary
      <3>2. [f EXCEPT !.sending = s, !.deferred = t] \in Summary
        BY <1>0, <2>3 DEF Summary
      <3>3. fwd' = [b \in AppIds |-> fwd'[b]]
        BY <2>1 DEF SummariesTyped
      <3> QED
        BY <3>1, <3>2, <3>3 DEF SummariesTyped
    <2> QED
      BY <1>4, <2>4 DEF Forwards, ForwardDeferred, SummariesTyped
  <1>5. CASE ForwardDies(a)
    <2>1. PICK told \in 0 .. 1 : fwd' = [fwd EXCEPT ![a].sending = @ - 1, ![a].told = @ + told]
      BY <1>5 DEF ForwardDies
    <2>2. PICK s, t : s = f.sending - 1 /\ t = f.told + told
      OBVIOUS
    <2>3. f.sending > 0 /\ s \in Nat /\ t \in Nat
      BY <1>0, <1>1, <1>5, <2>2 DEF ForwardDies
    <2>4. fwd' \in [AppIds -> Summary] /\ \A b \in AppIds \ {a} : fwd'[b] = fwd[b]
      <3>1. \A b \in AppIds : fwd'[b] = IF b = a THEN [f EXCEPT !.sending = s,
                  !.told = t] ELSE fwd[b]
        BY <1>0, <2>1, <2>2 DEF SummariesTyped, Summary
      <3>2. [f EXCEPT !.sending = s, !.told = t] \in Summary
        BY <1>0, <2>3 DEF Summary
      <3>3. fwd' = [b \in AppIds |-> fwd'[b]]
        BY <2>1 DEF SummariesTyped
      <3> QED
        BY <3>1, <3>2, <3>3 DEF SummariesTyped
    <2> QED
      BY <1>5, <2>4 DEF Forwards, ForwardDies, SummariesTyped
  <1> QED
    BY <1>2, <1>3, <1>4, <1>5 DEF ForwardStep

LEMMA ForwardsMove ==
    ASSUME Typed, [ApplicationsNext]_applicationsVars
    PROVE  UNCHANGED <<fwd, unsure>> \/ \E a \in AppIds : Forwards(a)
  <1>1. ASSUME NEW c \in Chats, ChatStep(c)
        PROVE  UNCHANGED <<fwd, unsure>> \/ \E a \in AppIds : Forwards(a)
    <2>1. CASE Refused(c) \/ WriteCompleted(c)
      <3>1. UNCHANGED <<fwd, unsure>> \/ StartForward(chat[c].app)
        BY <2>1 DEF Refused, WriteCompleted
      <3>2. chat[c].app \in AppIds
        BY <2>1, RowsOf DEF Refused, WriteCompleted, Typed, ChatsTyped, Talks
      <3> QED
        BY <3>1, <3>2, Begins DEF Typed
    <2>2. CASE ~Refused(c) /\ ~WriteCompleted(c)
      BY <1>1, <2>2 DEF ChatStep, OpenChat, NextText, CloseChat, StartApplication,
                        CreateApplication, SaveColumn, ReadCustoms, WriteCustoms, CheckAnswers,
                        ChatDies, history
    <2> QED
      BY <2>1, <2>2
  <1>2. ASSUME NEW f \in Forms, FormStep(f)
        PROVE  UNCHANGED <<fwd, unsure>> \/ \E a \in AppIds : Forwards(a)
    <2>1. CASE SubmitSurvey(f)
      <3>1. UNCHANGED <<fwd, unsure>> \/ (NextApp \in AppIds /\ StartForward(NextApp))
        BY <2>1, SubmitsSurvey
      <3> QED
        BY <3>1, Begins DEF Typed
    <2>2. CASE ~SubmitSurvey(f)
      BY <1>2, <2>2 DEF FormStep, Apply, EnterForm, OpenSurvey, CreateFromForm, FormDies,
                        ClaimInvite, history
    <2> QED
      BY <2>1, <2>2
  <1>3. ASSUME NEW d \in Desks, DeskStep(d) PROVE UNCHANGED <<fwd, unsure>>
    BY <1>3 DEF DeskStep, ReadStatus, WriteStatus, DeleteProperty, DeleteQuestions, DeleteRow,
                DeskDies, history
  <1>4. ASSUME NEW a \in Apps, ForwardStep(a) \/ Age(a)
        PROVE  UNCHANGED <<fwd, unsure>> \/ \E b \in AppIds : Forwards(b)
    BY <1>4, RowsOf, Forwarding DEF Age, Typed, history
  <1>5. ASSUME NEW p, TextForLink(p) PROVE UNCHANGED <<fwd, unsure>>
    BY <1>5 DEF TextForLink, history
  <1>6. ASSUME NEW n, InviteExpires(n) PROVE UNCHANGED <<fwd, unsure>>
    BY <1>6 DEF InviteExpires, history
  <1>7. UNCHANGED applicationsVars => UNCHANGED <<fwd, unsure>>
    BY DEF applicationsVars, history
  <1> QED
    BY <1>1, <1>2, <1>3, <1>4, <1>5, <1>6, <1>7, Steps

LEMMA TypedKept == ASSUME Typed, [ApplicationsNext]_applicationsVars PROVE Typed'
  <1>1. SummariesTyped'
    BY ForwardsMove DEF Forwards, SummaryTo, SummariesTyped, Typed
  <1> QED
    BY <1>1, RowsMove, InvitesStay, ChatsKept, FormsKept, DesksKept, PropertyStays DEF Typed

LEMMA TypedStarts == ApplicationsInit => Typed /\ Gone
  <1> SUFFICES ASSUME ApplicationsInit PROVE Typed /\ Gone
    OBVIOUS
  <1>1. Apps = {} /\ Invites = {}
    BY Keys DEF ApplicationsInit, Apps, Invites
  <1>2. Cardinality(Apps) = 0 /\ Cardinality(Invites) = 0
    BY <1>1, FS_EmptySet
  <1>3. AppsTyped /\ InvitesTyped
    BY <1>1, <1>2 DEF ApplicationsInit, AppsTyped, InvitesTyped
  <1>4. ChatsTyped
    BY NoChatTyped DEF ApplicationsInit, ChatsTyped, Talks
  <1>5. FormsTyped
    BY NoFormTyped DEF ApplicationsInit, FormsTyped, Fills
  <1>6. DesksTyped
    BY NoDeskTyped DEF ApplicationsInit, DesksTyped, Works
  <1>7. SummariesTyped
    BY DEF ApplicationsInit, SummariesTyped, Summary, Quiet
  <1> QED
    BY <1>3, <1>4, <1>5, <1>6, <1>7 DEF ApplicationsInit, Typed, Gone

\* Every value stays in its type, what the conversations, forms and requests refer
\* to exists, and of a deleted property nothing is left.
THEOREM ApplicationsTyping == ApplicationsSpec => [](Typed /\ Gone)
  BY TypedStarts, TypedKept, GoneKept, PTL DEF ApplicationsSpec

\* Unless it is known to be unsure, a summary is under way or told at most once.
ForwardInv ==
    \A a \in AppIds \ unsure :
        /\ fwd[a].deferred = 0 /\ fwd[a].sending + fwd[a].told <= 1
        /\ fwd[a].told > 0 => fwd[a].marked

LEMMA ForwardKept == ASSUME Typed, ForwardInv, [ApplicationsNext]_applicationsVars
            PROVE ForwardInv'
  <1>1. CASE UNCHANGED <<fwd, unsure>>
    BY <1>1 DEF ForwardInv
  <1>2. ASSUME NEW a \in AppIds, Forwards(a) PROVE ForwardInv'
    <2>1. \A b \in AppIds \ {a} : fwd'[b] = fwd[b]
      BY <1>2 DEF Forwards, SummaryTo
    <2>2. unsure \subseteq unsure'
      BY <1>2 DEF Forwards
    <2>4. ASSUME a \notin unsure'
          PROVE  /\ fwd'[a].deferred = 0 /\ fwd'[a].sending + fwd'[a].told <= 1
                 /\ fwd'[a].told > 0 => fwd'[a].marked
      <3>1. PICK f : f = fwd[a]
        OBVIOUS
      <3>2. /\ f.sending \in Nat /\ f.deferred = 0 /\ f.told \in Nat /\ f.sending + f.told <= 1
            /\ f.told > 0 => f.marked
        BY <2>2, <2>4, <3>1, SummaryParts DEF ForwardInv, Typed
      <3>3. CASE /\ ~f.marked /\ SummaryTo(a, f.sending + 1, f.deferred, f.told, f.marked)
                 /\ unsure' = IF f.sending > 0 THEN unsure \cup {a} ELSE unsure
        <4>1. f.sending = 0 /\ f.told = 0
          BY <2>4, <3>2, <3>3
        <4>2. /\ fwd'[a].deferred = 0 /\ fwd'[a].sending = f.sending + 1 /\ fwd'[a].told = f.told
              /\ fwd'[a].marked = f.marked
          BY <3>2, <3>3 DEF SummaryTo
        <4> QED
          BY <3>2, <4>1, <4>2
      <3>5. CASE f.sending > 0 /\ SummaryTo(a, f.sending - 1, f.deferred, f.told + 1, TRUE)
        <4>1. f.sending = 1 /\ f.told = 0
          BY <3>2, <3>5
        <4>2. /\ fwd'[a].deferred = 0 /\ fwd'[a].sending = f.sending - 1
                    /\ fwd'[a].told = f.told + 1
              /\ fwd'[a].marked = TRUE
          BY <3>2, <3>5 DEF SummaryTo
        <4> QED
          BY <4>1, <4>2
      <3>6. CASE f.deferred > 0
        BY <3>2, <3>6
      <3>7. CASE unsure' = unsure \cup {a}
        BY <2>4, <3>7
      <3> QED
        BY <1>2, <3>1, <3>3, <3>5, <3>6, <3>7 DEF Forwards
    <2> QED
      BY <2>1, <2>2, <2>4 DEF ForwardInv
  <1> QED
    BY <1>1, <1>2, ForwardsMove

LEMMA ForwardStarts == ApplicationsInit => ForwardInv
  BY DEF ApplicationsInit, ForwardInv, Quiet

\* The owner is told of an application twice only when a summary was deferred,
\* died, or overlapped another.
THEOREM ToldOnce == ApplicationsSpec => []ForwardOnce
  <1>1. Typed /\ ForwardInv => ForwardOnce
    <2> SUFFICES ASSUME Typed, ForwardInv, NEW a \in AppIds, fwd[a].told > 1, a \notin unsure
                 PROVE  FALSE
      BY DEF ForwardOnce
    <2>1. fwd[a].sending \in Nat /\ fwd[a].told \in Nat /\ fwd[a].sending + fwd[a].told <= 1
      BY SummaryParts DEF ForwardInv, Typed
    <2> QED
      BY <2>1
  <1> QED
    BY <1>1, ForwardStarts, ForwardKept, ApplicationsTyping, PTL DEF ApplicationsSpec

-----------------------------------------------------------------------------
(* Who moves an application's status.                                         *)
LEMMA RowSteps ==
    ASSUME Typed, [ApplicationsNext]_applicationsVars
    PROVE  \/ UNCHANGED app
           \/ \E c \in Chats : \/ CreateApplication(c) \/ WriteCustoms(c) \/ WriteCompleted(c)
                               \/ \E field \in Columns : SaveColumn(c, field)
           \/ \E f \in Forms : CreateFromForm(f) \/ SubmitSurvey(f)
           \/ \E d \in Desks : WriteStatus(d)
           \/ \E a \in Apps : Age(a)
  <1>1. ASSUME NEW c \in Chats, ChatStep(c), ~(UNCHANGED app)
        PROVE  \/ CreateApplication(c) \/ WriteCustoms(c) \/ WriteCompleted(c)
               \/ \E field \in Columns : SaveColumn(c, field)
    <2>1. CASE \/ \E p \in Applicants, kind \in {"voice", "sms"} : OpenChat(c, kind, p)
               \/ \E field \in Customs : ReadCustoms(c, field)
      BY <1>1, <2>1 DEF OpenChat, ReadCustoms, rows
    <2>2. CASE NextText(c) \/ CloseChat(c) \/ ChatDies(c)
      BY <1>1, <2>2 DEF NextText, CloseChat, ChatDies, rows
    <2>3. CASE StartApplication(c) \/ CheckAnswers(c)
      <3>1. UNCHANGED rows
        BY <2>3 DEF StartApplication, CheckAnswers
      <3> QED
        BY <1>1, <3>1 DEF rows
    <2>4. CASE Refused(c)
      BY <1>1, <2>4 DEF Refused, rows
    <2> QED
      BY <1>1, <2>1, <2>2, <2>3, <2>4 DEF ChatStep
  <1>2. ASSUME NEW f \in Forms, FormStep(f), ~(UNCHANGED app)
        PROVE  CreateFromForm(f) \/ SubmitSurvey(f)
    BY <1>2 DEF FormStep, Apply, EnterForm, OpenSurvey, ClaimInvite, FormDies, rows
  <1>3. ASSUME NEW d \in Desks, DeskStep(d), ~(UNCHANGED app) PROVE WriteStatus(d)
    BY <1>3 DEF DeskStep, ReadStatus, DeleteProperty, DeleteQuestions, DeleteRow, DeskDies, rows
  <1>4. ASSUME NEW a \in Apps, ForwardStep(a) PROVE UNCHANGED app
    BY <1>4 DEF ForwardStep, ForwardSent, ForwardDeferred, SweepSends, ForwardDies, rows
  <1>5. ASSUME NEW p, TextForLink(p) PROVE UNCHANGED app
    BY <1>5 DEF TextForLink
  <1>6. ASSUME NEW n, InviteExpires(n) PROVE UNCHANGED app
    BY <1>6 DEF InviteExpires
  <1>7. UNCHANGED applicationsVars => UNCHANGED app
    BY DEF applicationsVars, rows
  <1> QED
    BY <1>1, <1>2, <1>3, <1>4, <1>5, <1>6, <1>7, Steps

\* No application is opened again, and only a conversation opens one.
LEMMA StatusMoves ==
    ASSUME Typed, [ApplicationsNext]_applicationsVars
    PROVE  /\ \A a \in Apps : app[a].status # "in_progress" => app'[a].status # "in_progress"
           /\ \A a \in Apps' \ Apps : /\ app'[a].by # "chat" => app'[a].status = "completed"
                                      /\ app'[a].status \in {"in_progress", "completed"}
  <1>1. CASE UNCHANGED app
    BY <1>1 DEF Apps
  <1>2. ASSUME NEW c \in Chats,
               WriteCustoms(c) \/ (\E field \in Columns : SaveColumn(c,
                           field)) \/ WriteCompleted(c)
        PROVE  \E a \in Apps : Updated(a) /\ app'[a].status \in {app[a].status, "completed"}
    <2>1. CASE WriteCustoms(c)
      BY <2>1, WritesCustoms DEF Updated
    <2>2. CASE \E field \in Columns : SaveColumn(c, field)
      BY <2>2, SavesColumn DEF Updated
    <2>3. CASE WriteCompleted(c)
      BY <2>3, WritesCompleted DEF Updated
    <2> QED
      BY <1>2, <2>1, <2>2, <2>3
  <1>3. ASSUME NEW d \in Desks, WriteStatus(d)
        PROVE  \E a \in Apps : Updated(a) /\ app'[a].status \in {"completed"} \cup Decided
    BY <1>3, WritesStatus DEF Updated
  <1>4. ASSUME NEW a \in Apps, Age(a) PROVE Updated(a) /\ app'[a].status = app[a].status
    BY <1>4, Ages
  <1>5. ASSUME NEW a \in Apps, Updated(a),
               app'[a].status \in {app[a].status, "completed"} \cup Decided
        PROVE  /\ \A b \in Apps : app[b].status # "in_progress" => app'[b].status # "in_progress"
               /\ Apps' = Apps
    BY <1>5 DEF Updated, Decided
  <1>6. ASSUME NEW c \in Chats, CreateApplication(c), ~(UNCHANGED app)
        PROVE  /\ \E row : Added(row)
               /\ app'[NextApp].by = "chat" /\ app'[NextApp].status = "in_progress"
    BY <1>6, Starts
  <1>7. ASSUME NEW f \in Forms, CreateFromForm(f) \/ SubmitSurvey(f), ~(UNCHANGED app)
        PROVE  (\E row : Added(row)) /\ app'[NextApp].status = "completed"
    BY <1>7, CreatesFromForm, SubmitsSurvey
  <1>8. ASSUME NEW row, Added(row),
              app'[NextApp].by # "chat" => app'[NextApp].status = "completed",
               app'[NextApp].status \in {"in_progress", "completed"}
        PROVE  /\ \A b \in Apps : app'[b].status = app[b].status
               /\ \A a \in Apps' \ Apps : /\ app'[a].by # "chat" => app'[a].status = "completed"
                                          /\ app'[a].status \in {"in_progress", "completed"}
    BY <1>8 DEF Added
  <1>9. CASE \E c \in Chats : CreateApplication(c)
    BY <1>1, <1>6, <1>8, <1>9
  <1>10. CASE \E f \in Forms : CreateFromForm(f) \/ SubmitSurvey(f)
    BY <1>1, <1>7, <1>8, <1>10
  <1>11. CASE \/ \E c \in Chats : \/ WriteCustoms(c) \/ WriteCompleted(c)
                                  \/ \E field \in Columns : SaveColumn(c, field)
              \/ \E d \in Desks : WriteStatus(d)
              \/ \E a \in Apps : Age(a)
    <2>1. \E a \in Apps : Updated(a) /\ app'[a].status \in {app[a].status,
                "completed"} \cup Decided
      BY <1>2, <1>3, <1>4, <1>11
    <2> QED
      BY <1>5, <2>1
  <1> QED
    BY <1>1, <1>9, <1>10, <1>11, RowSteps

\* What a form creates is complete, and a request that decides an application
\* found it completed or decided; one that completes it found it in progress.
DeskSound ==
    /\ \A a \in Apps : app[a].by # "chat" => app[a].status # "in_progress"
    /\ \A d \in Desks : desk[d].pc = "write" =>
           /\ desk[d].to \in Decided => app[desk[d].app].status # "in_progress"
           /\ desk[d].to = "completed" => app[desk[d].app].by = "chat"

LEMMA Transitions ==
    ASSUME NEW status \in {"in_progress", "completed"} \cup Decided,
           NEW to \in ALLOWED_TRANSITIONS[status]
    PROVE  /\ to \in Decided => status # "in_progress"
           /\ to = "completed" => status = "in_progress"
  BY DEF ALLOWED_TRANSITIONS, Decided

LEMMA ReadsAllowed ==
    ASSUME Typed, NEW d \in Desks, NEW a \in Apps, NEW to \in Decided \cup {"completed"},
           ReadStatus(d, a, to)
    PROVE  /\ to \in Decided => app[a].status # "in_progress"
           /\ to = "completed" => app[a].status = "in_progress"
           /\ UNCHANGED <<app, chat, late>>
  <1>1. to \in ALLOWED_TRANSITIONS[app[a].status] /\ UNCHANGED <<app, chat, late>>
    BY DEF ReadStatus, rows, history, StatusOf
  <1>2. app[a].status \in {"in_progress", "completed"} \cup Decided
    BY RowsOf DEF Typed, AppRow
  <1> QED
    BY <1>1, <1>2, Transitions

LEMMA DesksMove ==
    ASSUME Typed, [ApplicationsNext]_applicationsVars
    PROVE  \/ UNCHANGED desk
           \/ \E d \in Desks : DeskFree(d) /\ DeskStep(d)
           \/ \E d \in Desks, a \in Apps, to \in Decided \cup {"completed"} : ReadStatus(d, a, to)
  <1>1. ASSUME NEW d \in Desks, DeskStep(d)
        PROVE  \/ DeskFree(d)
               \/ \E a \in Apps, to \in Decided \cup {"completed"} : ReadStatus(d, a, to)
    BY <1>1, FreesDesk DEF DeskStep
  <1>3. ASSUME NEW c \in Chats, ChatStep(c) PROVE UNCHANGED desk
    BY <1>3 DEF ChatStep, OpenChat, NextText, CloseChat, StartApplication, CreateApplication,
                SaveColumn, ReadCustoms, WriteCustoms, CheckAnswers, Refused, WriteCompleted,
                ChatDies, actors
  <1>4. ASSUME NEW f \in Forms, FormStep(f) PROVE UNCHANGED desk
    BY <1>4 DEF FormStep, Apply, EnterForm, OpenSurvey, CreateFromForm, FormDies, ClaimInvite,
                SubmitSurvey
  <1>5. ASSUME NEW a \in Apps, ForwardStep(a) \/ Age(a) PROVE UNCHANGED desk
    BY <1>5 DEF ForwardStep, ForwardSent, ForwardDeferred, SweepSends, ForwardDies, Age, actors
  <1>6. ASSUME NEW p, TextForLink(p) PROVE UNCHANGED desk
    BY <1>6 DEF TextForLink, actors
  <1>7. ASSUME NEW n, InviteExpires(n) PROVE UNCHANGED desk
    BY <1>7 DEF InviteExpires, actors
  <1>8. UNCHANGED applicationsVars => UNCHANGED desk
    BY DEF applicationsVars, actors
  <1> QED
    BY <1>1, <1>3, <1>4, <1>5, <1>6, <1>7, <1>8, Steps

LEMMA DeskSoundKept == ASSUME Typed, DeskSound, [ApplicationsNext]_applicationsVars
            PROVE DeskSound'
  <1>1. \A a \in Apps : /\ app[a].status # "in_progress" => app'[a].status # "in_progress"
                        /\ app'[a].by = app[a].by
    BY StatusMoves, RowsMove
  <1>2. \A a \in Apps' : app'[a].by # "chat" => app'[a].status # "in_progress"
    BY <1>1, StatusMoves DEF DeskSound
  <1>3. ASSUME NEW e \in Desks, desk'[e] = desk[e], desk[e].pc = "write"
        PROVE  /\ desk'[e].to \in Decided => app'[desk'[e].app].status # "in_progress"
               /\ desk'[e].to = "completed" => app'[desk'[e].app].by = "chat"
    BY <1>1, <1>3 DEF DeskSound, Typed, DesksTyped, Works
  <1>4. CASE UNCHANGED desk
    BY <1>2, <1>3, <1>4 DEF DeskSound
  <1>5. ASSUME NEW d \in Desks, DeskFree(d) PROVE DeskSound'
    BY <1>2, <1>3, <1>5 DEF DeskSound, DeskFree
  <1>6. ASSUME NEW d \in Desks, NEW a \in Apps, NEW to \in Decided \cup {"completed"},
               ReadStatus(d, a, to)
        PROVE  DeskSound'
    <2>1. /\ \A e \in Desks \ {d} : desk'[e] = desk[e]
          /\ desk'[d].pc = "write" /\ desk'[d].app = a /\ desk'[d].to = to
      BY <1>6, ReadsStatus
    <2>2. /\ to \in Decided => app[a].status # "in_progress"
          /\ to = "completed" => app[a].by = "chat"
      BY <1>6, ReadsAllowed DEF DeskSound
    <2> QED
      BY <1>1, <1>2, <1>3, <2>1, <2>2 DEF DeskSound
  <1> QED
    BY <1>4, <1>5, <1>6, DesksMove

LEMMA DeskSoundStarts == ApplicationsInit => DeskSound
  <1> SUFFICES ASSUME ApplicationsInit PROVE DeskSound
    OBVIOUS
  <1>1. Apps = {}
    BY Keys DEF ApplicationsInit, Apps
  <1> QED
    BY <1>1 DEF ApplicationsInit, DeskSound, NoDesk

-----------------------------------------------------------------------------
(* The answers.  Of an application that is not excused, the conversation      *)
(* about to complete it has seen every required answer on it, and the one     *)
(* about to write the custom answers, of which there is one at most, has read *)
(* those that are there.                                                      *)
Filled(a) ==
    app[a].by = "chat" /\ a \notin excused =>
        /\ app[a].status # "in_progress" => Required \subseteq app[a].ans
        /\ \A c \in Chats : chat[c].app = a =>
               /\ chat[c].pc = "completing" => Required \subseteq app[a].ans
               /\ chat[c].pc = "saving" =>
                      /\ app[a].ans \cap Customs \subseteq chat[c].seen
                      /\ \A e \in Chats : chat[e].app = a /\ chat[e].pc = "saving" => e = c
FilledInv == \A a \in Apps : Filled(a)

\* The other conversations, and those with nothing to write, leave it filled.
LEMMA FilledQuiet ==
    ASSUME Typed, NEW a \in Apps, Filled(a), excused \subseteq excused', app'[a].by = app[a].by,
           app'[a].ans = app[a].ans,
           app'[a].status \in {app[a].status, "in_progress"} \/ Required \subseteq app[a].ans,
           \A c \in Chats : chat'[c] = chat[c] \/ chat'[c].app # a
                            \/ chat'[c].pc \notin {"saving", "completing"}
    PROVE  Filled(a)'
  BY DEF Filled

LEMMA FilledAdded ==
    ASSUME Typed, NEW row, Added(row), NEW k, k = NextApp,
           app'[k].by = "chat" => app'[k].status = "in_progress",
           \A c \in Chats : chat'[c] = chat[c] \/ chat'[c].pc \notin {"saving", "completing"}
    PROVE  Filled(k)'
  <1>1. k \notin Apps /\ k # Null
    BY RowsOf, Keys DEF Typed, Added
  <1>2. \A c \in Chats : chat[c].app # k
    BY <1>1 DEF Typed, ChatsTyped, Talks
  <1> QED
    BY <1>2 DEF Filled

LEMMA FilledByChat ==
    ASSUME Typed, FilledInv, NEW c \in Chats, ChatStep(c), Gone PROVE FilledInv'
  <1>0. PICK h : h = chat[c].app
    OBVIOUS
  <1>1. CASE \/ \E p \in Applicants, kind \in {"voice", "sms"} : OpenChat(c, kind, p)
             \/ CloseChat(c) \/ ChatDies(c) \/ StartApplication(c) \/ NextText(c) \/ Refused(c)
    <2>1. UNCHANGED <<app, excused>>
      <3>1. CASE \E p \in Applicants, kind \in {"voice", "sms"} : OpenChat(c, kind, p)
        BY <3>1 DEF OpenChat, history
      <3>2. CASE CloseChat(c) \/ ChatDies(c)
        BY <3>2 DEF CloseChat, ChatDies, rows
      <3>3. CASE StartApplication(c)
        BY <3>3 DEF StartApplication, rows
      <3>4. CASE NextText(c) \/ Refused(c)
        BY <3>4 DEF NextText, Refused, rows, history
      <3> QED
        BY <1>1, <3>1, <3>2, <3>3, <3>4
    <2>2. \A e \in Chats : chat'[e] = chat[e] \/ chat'[e].pc \notin {"saving", "completing"}
      <3>1. CASE \E p \in Applicants, kind \in {"voice", "sms"} : OpenChat(c, kind, p)
        BY <3>1, Opens
      <3>2. CASE CloseChat(c) \/ ChatDies(c)
        BY <3>2, Closes, NoChatTyped DEF ChatClosed
      <3>3. CASE StartApplication(c)
        BY <3>3, Resumes DEF ChatTo
      <3>4. CASE NextText(c) \/ Refused(c)
        BY <3>4 DEF NextText, Refused, actors
      <3> QED
        BY <1>1, <3>1, <3>2, <3>3, <3>4
    <2>3. Apps' = Apps
      BY <2>1 DEF Apps
    <2> QED
      BY <2>1, <2>2, <2>3, FilledQuiet DEF FilledInv
  <1>2. CASE CreateApplication(c)
    <2>1. excused' = excused
      BY <1>2 DEF CreateApplication, history
    <2>2. \A e \in Chats : chat'[e] = chat[e] \/ chat'[e].pc \notin {"saving", "completing"}
      BY <1>2, Starts DEF ChatTo
    <2>3. CASE UNCHANGED app
      <3>1. Apps' = Apps
        BY <2>3 DEF Apps
      <3> QED
        BY <2>1, <2>2, <2>3, <3>1, FilledQuiet DEF FilledInv
    <2>4. CASE ~(UNCHANGED app)
      <3>1. PICK row : Added(row)
        BY <1>2, <2>4, Starts
      <3>2. app'[NextApp].status = "in_progress"
        BY <1>2, <2>4, Starts
      <3>3. \A a \in Apps : Filled(a)'
        BY <2>1, <2>2, <3>1, FilledQuiet DEF FilledInv, Added
      <3> QED
        BY <2>2, <3>1, <3>2, <3>3, FilledAdded DEF FilledInv, Added
    <2> QED
      BY <2>3, <2>4
  <1>3. CASE \E field \in Columns : SaveColumn(c, field)
    <2>1. PICK field \in Columns : SaveColumn(c, field)
      BY <1>0, <1>3
    <2>2. /\ Updated(h) /\ app'[h].status = app[h].status /\ app'[h].ans = app[h].ans \cup {field}
          /\ UNCHANGED <<chat, excused>>
      BY <1>0, <2>1, SavesColumn DEF SaveColumn, actors, history
    <2>3. field \notin Customs
      BY ApplicationsAnswers
    <2>4. Filled(h)'
      BY <2>2, <2>3 DEF Filled, FilledInv, Updated
    <2>5. ASSUME NEW a \in Apps \ {h} PROVE Filled(a)'
      BY <2>2, FilledQuiet DEF FilledInv, Updated
    <2> QED
      BY <2>2, <2>4, <2>5 DEF FilledInv, Updated
  <1>4. CASE \E field \in Customs : ReadCustoms(c, field)
    <2>1. PICK field \in Customs : ReadCustoms(c, field)
      BY <1>0, <1>4
    <2>2. /\ ChatTo(c, "saving", h) /\ h # Null /\ chat'[c].seen = app[h].ans \cap Customs
          /\ UNCHANGED app
          /\ excused' = IF Saving(h) # {} THEN excused \cup {h} ELSE excused
      BY <1>0, <2>1, ReadsCustoms DEF ReadCustoms, rows
    <2>3. h \in Apps /\ Apps' = Apps /\ excused \subseteq excused'
      BY <1>0, <2>2 DEF Apps, Typed, ChatsTyped, Talks
    <2>4. ASSUME NEW a \in Apps \ {h} PROVE Filled(a)'
      BY <2>2, <2>3, FilledQuiet DEF FilledInv, ChatTo
    <2>5. Filled(h)'
      <3> SUFFICES ASSUME h \notin excused', app[h].by = "chat" PROVE Filled(h)'
        BY <2>2 DEF Filled
      <3>1. \A e \in Chats \ {c} : ~(chat[e].app = h /\ chat[e].pc = "saving")
        BY <2>2 DEF Saving
      <3>2. \A e \in Chats \ {c} : chat'[e] = chat[e]
        BY <2>2 DEF ChatTo
      <3>3. \A e \in Chats \ {c} : ~(chat'[e].app = h /\ chat'[e].pc = "saving")
        BY <3>1, <3>2
      <3>4. chat'[c].pc = "saving"
        BY <2>2 DEF ChatTo
      <3>5. h \notin excused
        BY <2>3
      <3> QED
        BY <2>2, <2>3, <3>2, <3>3, <3>4, <3>5 DEF Filled, FilledInv
    <2> QED
      BY <2>3, <2>4, <2>5 DEF FilledInv
  <1>5. CASE WriteCustoms(c)
    <2>1. /\ Updated(h) /\ app'[h].status = app[h].status
          /\ app'[h].ans = (app[h].ans \cap Columns) \cup chat[c].seen \cup {chat[c].field}
          /\ ChatTo(c, "talking", h) /\ chat[c].pc = "saving" /\ UNCHANGED excused
      BY <1>0, <1>5, WritesCustoms, Talking DEF WriteCustoms, history
    <2>2. ASSUME NEW a \in Apps \ {h} PROVE Filled(a)'
      BY <2>1, FilledQuiet DEF FilledInv, ChatTo, Updated
    <2>3. Filled(h)'
      <3> SUFFICES ASSUME h \notin excused, app[h].by = "chat" PROVE Filled(h)'
        BY <2>1 DEF Filled, Updated
      <3>1. app[h].ans \cap Customs \subseteq chat[c].seen
            /\ \A e \in Chats : chat[e].app = h /\ chat[e].pc = "saving" => e = c
        BY <1>0, <2>1 DEF Filled, FilledInv, Updated
      <3>2. app[h].ans \subseteq Columns \cup Customs
        BY <2>1, RowsOf DEF Typed, AppRow, Answers, Updated
      <3>3. app[h].ans \subseteq app'[h].ans
        BY <2>1, <3>1, <3>2
      <3>4. \A e \in Chats : ~(chat'[e].app = h /\ chat'[e].pc = "saving")
        BY <2>1, <3>1 DEF ChatTo
      <3>5. \A e \in Chats : chat'[e].app = h /\ chat'[e].pc = "completing"
                             => chat[e].app = h /\ chat[e].pc = "completing"
        BY <2>1 DEF ChatTo
      <3> QED
        BY <2>1, <3>3, <3>4, <3>5 DEF Filled, FilledInv, Updated
    <2> QED
      BY <2>1, <2>2, <2>3 DEF FilledInv, Updated
  <1>6. CASE CheckAnswers(c)
    <2>1. /\ ChatTo(c, "completing", h) /\ h # Null /\ UNCHANGED app
          /\ asked => Required \subseteq app[h].ans
          /\ excused' = IF asked THEN excused ELSE excused \cup {h}
      BY <1>0, <1>6, Checks DEF CheckAnswers, rows, Complete
    <2>2. h \in Apps /\ Apps' = Apps /\ excused \subseteq excused'
      BY <1>0, <2>1 DEF Apps, Typed, ChatsTyped, Talks
    <2>3. ASSUME NEW a \in Apps \ {h} PROVE Filled(a)'
      BY <2>1, <2>2, FilledQuiet DEF FilledInv, ChatTo
    <2>4. Filled(h)'
      <3> SUFFICES ASSUME h \notin excused' PROVE Filled(h)'
        BY DEF Filled
      <3>1. Required \subseteq app[h].ans /\ h \notin excused
        BY <2>1
      <3>2. \A e \in Chats \ {c} : chat'[e] = chat[e]
        BY <2>1 DEF ChatTo
      <3>3. chat'[c].pc = "completing"
        BY <2>1 DEF ChatTo
      <3> QED
        BY <2>1, <2>2, <3>1, <3>2, <3>3 DEF Filled, FilledInv
    <2> QED
      BY <2>2, <2>3, <2>4 DEF FilledInv
  <1>7. CASE WriteCompleted(c)
    <2>1. /\ Updated(h) /\ app'[h].ans = app[h].ans /\ ChatTo(c, "talking", h)
          /\ chat[c].pc = "completing" /\ UNCHANGED excused
      BY <1>0, <1>7, WritesCompleted, Talking DEF WriteCompleted
    <2>2. ASSUME NEW a \in Apps \ {h} PROVE Filled(a)'
      BY <2>1, FilledQuiet DEF FilledInv, ChatTo, Updated
    <2>3. Filled(h)'
      <3> SUFFICES ASSUME h \notin excused, app[h].by = "chat" PROVE Filled(h)'
        BY <2>1 DEF Filled, Updated
      <3>1. Required \subseteq app[h].ans
        BY <1>0, <2>1 DEF Filled, FilledInv, Updated
      <3> QED
        BY <2>1, <3>1, FilledQuiet DEF FilledInv, ChatTo, Updated
    <2> QED
      BY <2>1, <2>2, <2>3 DEF FilledInv, Updated
  <1> QED
    BY <1>1, <1>2, <1>3, <1>4, <1>5, <1>6, <1>7 DEF ChatStep

LEMMA FilledByOthers ==
    ASSUME Typed, DeskSound, FilledInv, UNCHANGED chat, excused \subseteq excused',
                [ApplicationsNext]_applicationsVars,
           \/ UNCHANGED app
           \/ \E f \in Forms : CreateFromForm(f) \/ SubmitSurvey(f)
           \/ \E d \in Desks : WriteStatus(d)
           \/ \E a \in Apps : Age(a)
    PROVE  FilledInv'
  <1>1. CASE UNCHANGED app
    <2>1. Apps' = Apps
      BY <1>1 DEF Apps
    <2> QED
      BY <1>1, <2>1, FilledQuiet DEF FilledInv
  <1>2. CASE ~(UNCHANGED app) /\ \E f \in Forms : CreateFromForm(f) \/ SubmitSurvey(f)
    <2>1. PICK row : Added(row)
      BY <1>2, CreatesFromForm, SubmitsSurvey
    <2>2. app'[NextApp].by # "chat"
      BY <1>2, CreatesFromForm, SubmitsSurvey
    <2>3. \A a \in Apps : Filled(a)'
      BY <2>1, FilledQuiet DEF FilledInv, Added
    <2> QED
      BY <2>1, <2>2, <2>3, FilledAdded DEF FilledInv, Added
  <1>3. ASSUME NEW d \in Desks, WriteStatus(d) PROVE FilledInv'
    <2>0. PICK h : h = desk[d].app
      OBVIOUS
    <2>1. /\ Updated(h) /\ app'[h].status = desk[d].to /\ app'[h].ans = app[h].ans
          /\ desk[d].to \in {"completed"} \cup Decided
          /\ desk[d].to = "completed" => h \in excused'
      BY <1>3, <2>0, WritesStatus DEF WriteStatus
    <2>2. ASSUME NEW a \in Apps \ {h} PROVE Filled(a)'
      BY <2>1, FilledQuiet DEF FilledInv, Updated
    <2>3. Filled(h)'
      <3> SUFFICES ASSUME h \notin excused', app[h].by = "chat" PROVE Filled(h)'
        BY <2>1 DEF Filled, Updated
      <3>1. app[h].status # "in_progress"
        BY <1>3, <2>0, <2>1 DEF DeskSound, WriteStatus
      <3>2. Required \subseteq app[h].ans
        BY <2>1, <3>1 DEF Filled, FilledInv, Updated
      <3> QED
        BY <2>1, <3>2, FilledQuiet DEF FilledInv, Updated
    <2> QED
      BY <2>1, <2>2, <2>3 DEF FilledInv, Updated
  <1>4. ASSUME NEW h \in Apps, Age(h) PROVE FilledInv'
    <2>1. Updated(h) /\ app'[h].status = app[h].status /\ app'[h].ans = app[h].ans
      BY <1>4, Ages
    <2>2. ASSUME NEW a \in Apps PROVE Filled(a)'
      BY <2>1, FilledQuiet DEF FilledInv, Updated
    <2> QED
      BY <2>1, <2>2 DEF FilledInv, Updated
  <1> QED
    BY <1>1, <1>2, <1>3, <1>4

LEMMA ChatsMove ==
    ASSUME Typed, [ApplicationsNext]_applicationsVars
    PROVE  (UNCHANGED chat /\ excused \subseteq excused') \/ \E c \in Chats : ChatStep(c)
  <1>3. ASSUME NEW f \in Forms, FormStep(f) PROVE UNCHANGED chat /\ excused' = excused
    BY <1>3 DEF FormStep, Apply, EnterForm, OpenSurvey, CreateFromForm, FormDies, ClaimInvite,
                SubmitSurvey, history
  <1>4. ASSUME NEW d \in Desks, DeskStep(d) PROVE UNCHANGED chat /\ excused \subseteq excused'
    BY <1>4 DEF DeskStep, ReadStatus, WriteStatus, DeleteProperty, DeleteQuestions, DeleteRow,
                DeskDies,
                history
  <1>5. ASSUME NEW a \in Apps, ForwardStep(a) \/ Age(a) PROVE UNCHANGED chat /\ excused' = excused
    BY <1>5 DEF ForwardStep, ForwardSent, ForwardDeferred, SweepSends, ForwardDies, Age, actors,
                history
  <1>6. ASSUME NEW p, TextForLink(p) PROVE UNCHANGED chat /\ excused' = excused
    BY <1>6 DEF TextForLink, actors, history
  <1>7. ASSUME NEW n, InviteExpires(n) PROVE UNCHANGED chat /\ excused' = excused
    BY <1>7 DEF InviteExpires, actors, history
  <1>8. UNCHANGED applicationsVars => UNCHANGED chat /\ excused' = excused
    BY DEF applicationsVars, actors, history
  <1> QED
    BY <1>3, <1>4, <1>5, <1>6, <1>7, <1>8, Steps

LEMMA FilledKept == ASSUME Typed, Gone, DeskSound, FilledInv, [ApplicationsNext]_applicationsVars
            PROVE FilledInv'
  <1>1. CASE \E c \in Chats : ChatStep(c)
    BY <1>1, FilledByChat
  <1>2. CASE /\ UNCHANGED chat /\ excused \subseteq excused'
             /\ ~\E c \in Chats : ChatStep(c)
    <2>1. ~\E c \in Chats : \/ CreateApplication(c) \/ WriteCustoms(c) \/ WriteCompleted(c)
                            \/ \E field \in Columns : SaveColumn(c, field)
      BY <1>2 DEF ChatStep
    <2> QED
      BY <1>2, <2>1, RowSteps, FilledByOthers
  <1> QED
    BY <1>1, <1>2, ChatsMove

LEMMA FilledStarts == ApplicationsInit => FilledInv
  <1> SUFFICES ASSUME ApplicationsInit PROVE FilledInv
    OBVIOUS
  <1>1. Apps = {}
    BY Keys DEF ApplicationsInit, Apps
  <1> QED
    BY <1>1 DEF FilledInv

\* A conversation completes an application with every required answer on it, and
\* the answers stay, unless two saves of it overlapped, the questions were
\* stripped by a half-done deletion or the landlord completed it.
THEOREM CompletedWithAnswers == ApplicationsSpec => []CompletedIsFilled
  <1>1. FilledInv => CompletedIsFilled
    BY DEF FilledInv, Filled, CompletedIsFilled, StatusOf
  <1> QED
    BY <1>1, FilledStarts, FilledKept, DeskSoundStarts, DeskSoundKept, ApplicationsTyping,
                PTL DEF ApplicationsSpec

-----------------------------------------------------------------------------
(* Decisions.  Whoever holds a decided application and can write it still is  *)
(* one of "late", who held it before; a conversation that is starting anew    *)
(* gives it up.                                                               *)
Known(a) ==
    app[a].status \in Decided =>
        /\ \A c \in Chats : chat[c].app = a /\ chat[c].pc # "starting" => c \in late
        /\ \A d \in Desks : desk[d].pc = "write" /\ desk[d].app = a /\ desk[d].to = "completed"
                            => d \in late
DecidedInv == \A a \in Apps : Known(a)

\* What a conversation, a form or time does decides nothing.
LEMMA NoDecision ==
    ASSUME Typed, [ApplicationsNext]_applicationsVars, ~\E d \in Desks : WriteStatus(d)
    PROVE  \A a \in Apps' : app'[a].status \in Decided => a \in Apps /\ app[a].status \in Decided
  <1>1. \A a \in Apps' \ Apps : app'[a].status \notin Decided
    BY StatusMoves DEF Decided
  <1>2. ASSUME NEW h, Updated(h), app'[h].status \in {app[h].status, "completed"}
        PROVE  \A a \in Apps : app'[a].status \in Decided => app[a].status \in Decided
    BY <1>2 DEF Updated, Decided
  <1>3. CASE UNCHANGED app
    BY <1>3 DEF Apps
  <1>4. ASSUME NEW row, Added(row) PROVE \A a \in Apps : app'[a] = app[a]
    BY <1>4 DEF Added
  <1>5. ASSUME NEW c \in Chats,
               \/ CreateApplication(c) \/ WriteCustoms(c) \/ WriteCompleted(c)
               \/ \E field \in Columns : SaveColumn(c, field)
        PROVE  \A a \in Apps : app'[a].status \in Decided => app[a].status \in Decided
    <2>1. CASE CreateApplication(c)
      BY <1>4, <2>1, Starts
    <2>2. CASE WriteCustoms(c)
      BY <1>2, <2>2, WritesCustoms
    <2>3. CASE WriteCompleted(c)
      BY <1>2, <2>3, WritesCompleted
    <2>4. CASE \E field \in Columns : SaveColumn(c, field)
      BY <1>2, <2>4, SavesColumn
    <2> QED
      BY <1>5, <2>1, <2>2, <2>3, <2>4
  <1>6. ASSUME NEW f \in Forms, CreateFromForm(f) \/ SubmitSurvey(f)
        PROVE  \A a \in Apps : app'[a].status \in Decided => app[a].status \in Decided
    BY <1>4, <1>6, CreatesFromForm, SubmitsSurvey
  <1>7. ASSUME NEW a \in Apps, Age(a)
        PROVE  \A b \in Apps : app'[b].status \in Decided => app[b].status \in Decided
    BY <1>2, <1>7, Ages
  <1> QED
    BY <1>1, <1>3, <1>5, <1>6, <1>7, RowSteps

LEMMA DecidedByChat ==
    ASSUME Typed, Gone, DecidedInv, [ApplicationsNext]_applicationsVars, NEW c \in Chats,
                ChatStep(c)
    PROVE  DecidedInv'
  <1>1. UNCHANGED desk /\ late \ {c} \subseteq late'
    BY DEF ChatStep, OpenChat, NextText, CloseChat, StartApplication, CreateApplication,
           SaveColumn, ReadCustoms, WriteCustoms, CheckAnswers, Refused, WriteCompleted,
           ChatDies, actors, history
  <1>2. ASSUME ~\E d \in Desks : WriteStatus(d)
        PROVE  \A a \in Apps' : app'[a].status \in Decided
                    => a \in Apps /\ app[a].status \in Decided
    BY <1>2, NoDecision
  <1>3. \A d \in Desks : d # c
    BY ApplicationsActors
  <1>4. \A e \in Chats \ {c} : chat'[e] = chat[e]
    <2>1. CASE \E p \in Applicants, kind \in {"voice", "sms"} : OpenChat(c, kind, p)
      BY <2>1, Opens
    <2>2. CASE CloseChat(c) \/ ChatDies(c)
      BY <2>2, Closes DEF ChatClosed
    <2>3. CASE StartApplication(c)
      BY <2>3, Resumes DEF ChatTo
    <2>4. CASE CreateApplication(c)
      BY <2>4, Starts DEF ChatTo
    <2>5. CASE \E field \in Customs : ReadCustoms(c, field)
      BY <2>5, ReadsCustoms DEF ChatTo
    <2>6. CASE WriteCustoms(c) \/ WriteCompleted(c)
      BY <2>6, Talking DEF ChatTo
    <2>7. CASE CheckAnswers(c)
      BY <2>7, Checks DEF ChatTo
    <2>8. CASE NextText(c) \/ Refused(c) \/ \E field \in Columns : SaveColumn(c, field)
      BY <2>8 DEF NextText, Refused, SaveColumn, actors
    <2> QED
      BY <2>1, <2>2, <2>3, <2>4, <2>5, <2>6, <2>7, <2>8 DEF ChatStep
  <1>5. ASSUME NEW a \in Apps, app[a].status \in Decided, chat'[c].app = a,
              chat'[c].pc # "starting"
        PROVE  c \in late'
    <2>0. a # Null
      BY RowsOf DEF Typed
    <2>1. CASE \E p \in Applicants, kind \in {"voice", "sms"} : OpenChat(c, kind, p)
      BY <1>5, <2>0, <2>1, Opens
    <2>2. CASE CloseChat(c) \/ ChatDies(c)
      BY <1>5, <2>0, <2>2, Closes, NoChatTyped DEF ChatClosed
    <2>3. CASE StartApplication(c)
      <3>1. \A b \in Resumable(chat[c].who) : app[b].status = "in_progress"
        BY DEF Resumable, StatusOf
      <3> QED
        BY <1>5, <2>3, <3>1, Resumes DEF ChatTo, Decided
    <2>4. CASE CreateApplication(c)
      <3>1. a # NextApp
        BY RowsOf DEF Typed
      <3>2. property = "here"
        BY DEF Gone, Typed
      <3> QED
        BY <1>5, <2>4, <3>1, <3>2, Starts DEF ChatTo
    <2>5. CASE \/ \E field \in Customs : ReadCustoms(c, field)
               \/ WriteCustoms(c) \/ WriteCompleted(c) \/ CheckAnswers(c)
      <3>1. chat'[c].app = chat[c].app
        BY <2>5, ReadsCustoms, Talking, Checks DEF ChatTo
      <3>2. chat[c].pc # "starting" /\ late' = late
        BY <2>5 DEF ReadCustoms, WriteCustoms, WriteCompleted, CheckAnswers, history
      <3> QED
        BY <1>5, <3>1, <3>2 DEF DecidedInv, Known
    <2>6. CASE NextText(c) \/ Refused(c) \/ \E field \in Columns : SaveColumn(c, field)
      <3>1. chat'[c] = chat[c] /\ late' = late
        BY <2>6 DEF NextText, Refused, SaveColumn, actors, history
      <3> QED
        BY <1>5, <3>1 DEF DecidedInv, Known
    <2> QED
      BY <2>1, <2>2, <2>3, <2>4, <2>5, <2>6 DEF ChatStep
  <1>6. CASE ~\E d \in Desks : WriteStatus(d)
    BY <1>1, <1>2, <1>3, <1>4, <1>5, <1>6 DEF DecidedInv, Known
  <1>7. ASSUME NEW d \in Desks, WriteStatus(d) PROVE FALSE
    <2>1. desk'[d].pc = "idle" /\ desk[d].pc = "write"
      BY <1>7, NoDeskTyped, DeskPut DEF WriteStatus, SetDesk
    <2> QED
      BY <1>1, <2>1
  <1> QED
    BY <1>6, <1>7

LEMMA DecidedByDesk ==
    ASSUME Typed, DeskSound, DecidedInv, [ApplicationsNext]_applicationsVars, NEW d \in Desks,
                DeskStep(d)
    PROVE  DecidedInv'
  <1>1. UNCHANGED chat
    BY DEF DeskStep, ReadStatus, WriteStatus, DeleteProperty, DeleteQuestions, DeleteRow, DeskDies
  <1>2. d \notin Chats
    BY ApplicationsActors
  <1>3. CASE WriteStatus(d)
    <2>0. PICK h : h = desk[d].app
      OBVIOUS
    <2>1. /\ Updated(h) /\ app'[h].status = desk[d].to
          /\ late' = (IF app[h].status \notin Decided /\ desk[d].to \in Decided
                      THEN late \cup Holders(h) ELSE late) \ {d}
      BY <1>3, <2>0, WritesStatus DEF WriteStatus, StatusOf
    <2>2. DeskFree(d)
      BY <1>3, FreesDesk
    <2>3. late \ {d} \subseteq late'
      BY <2>1
    <2>4. ASSUME NEW a \in Apps \ {h} PROVE Known(a)'
      BY <1>1, <1>2, <2>1, <2>2, <2>3, <2>4 DEF DecidedInv, Known, Updated, DeskFree
    <2>5. Known(h)'
      <3> SUFFICES ASSUME desk[d].to \in Decided PROVE Known(h)'
        BY <2>1 DEF Known
      <3>1. CASE app[h].status \in Decided
        BY <1>1, <1>2, <2>1, <2>2, <2>3, <3>1 DEF DecidedInv, Known, Updated, DeskFree
      <3>2. CASE app[h].status \notin Decided
        <4>1. \A c \in Chats : chat[c].app = h => c \in late'
          BY <1>2, <2>1, <3>2 DEF Holders, Holds
        <4>2. \A e \in Desks \ {d} : desk[e].pc = "write" /\ desk[e].app = h => e \in late'
          BY <2>1, <3>2 DEF Holders, Holds
        <4> QED
          BY <1>1, <2>2, <4>1, <4>2 DEF Known, DeskFree
      <3> QED
        BY <3>1, <3>2
    <2> QED
      BY <2>1, <2>4, <2>5 DEF DecidedInv, Updated
  <1>4. CASE DeleteProperty(d) \/ DeleteQuestions(d) \/ DeleteRow(d) \/ DeskDies(d)
    <2>1. DeskFree(d)
      BY <1>4, FreesDesk
    <2>2. UNCHANGED app /\ late \ {d} \subseteq late'
      BY <1>4 DEF DeleteProperty, DeleteQuestions, DeleteRow, DeskDies, rows, history
    <2>3. Apps' = Apps
      BY <2>2 DEF Apps
    <2> QED
      BY <1>1, <1>2, <2>1, <2>2, <2>3 DEF DecidedInv, Known, DeskFree
  <1>5. CASE \E a \in Apps, to \in Decided \cup {"completed"} : ReadStatus(d, a, to)
    <2>1. PICK a \in Apps, to \in Decided \cup {"completed"} : ReadStatus(d, a, to)
      BY <1>5
    <2>2. /\ \A e \in Desks \ {d} : desk'[e] = desk[e]
          /\ desk'[d].pc = "write" /\ desk'[d].app = a /\ desk'[d].to = to
      BY <2>1, ReadsStatus
    <2>3. to = "completed" => app[a].status \notin Decided
      BY <2>1, ReadsAllowed DEF Decided
    <2>4. UNCHANGED <<app, late>>
      BY <2>1, ReadsAllowed
    <2>5. Apps' = Apps
      BY <2>4 DEF Apps
    <2> QED
      BY <1>1, <2>2, <2>3, <2>4, <2>5 DEF DecidedInv, Known
  <1> QED
    BY <1>3, <1>4, <1>5 DEF DeskStep

LEMMA DecidedKept == ASSUME Typed, Gone, DeskSound, DecidedInv,
            [ApplicationsNext]_applicationsVars PROVE DecidedInv'
  <1>1. ASSUME NEW f \in Forms, FormStep(f) PROVE UNCHANGED <<chat, desk, late>>
    BY <1>1 DEF FormStep, Apply, EnterForm, OpenSurvey, CreateFromForm, FormDies, ClaimInvite,
                SubmitSurvey, history
  <1>2. ASSUME NEW a \in Apps, ForwardStep(a) \/ Age(a) PROVE UNCHANGED <<chat, desk, late>>
    BY <1>2 DEF ForwardStep, ForwardSent, ForwardDeferred, SweepSends, ForwardDies, Age, actors,
                history
  <1>3. ASSUME NEW p, TextForLink(p) PROVE UNCHANGED <<chat, desk, late>>
    BY <1>3 DEF TextForLink, actors, history
  <1>4. ASSUME NEW n, InviteExpires(n) PROVE UNCHANGED <<chat, desk, late>>
    BY <1>4 DEF InviteExpires, actors, history
  <1>5. UNCHANGED applicationsVars => UNCHANGED <<chat, desk, late>>
    BY DEF applicationsVars, actors, history
  <1>6. CASE UNCHANGED <<chat, desk, late>>
    <2>1. ASSUME NEW d \in Desks, WriteStatus(d) PROVE FALSE
      <3>1. desk'[d].pc = "idle" /\ desk[d].pc = "write"
        BY <2>1, NoDeskTyped, DeskPut DEF WriteStatus, SetDesk
      <3> QED
        BY <1>6, <3>1
    <2>2. \A a \in Apps' : app'[a].status \in Decided => a \in Apps /\ app[a].status \in Decided
      BY <2>1, NoDecision
    <2> QED
      BY <1>6, <2>2 DEF DecidedInv, Known
  <1> QED
    BY <1>1, <1>2, <1>3, <1>4, <1>5, <1>6, DecidedByChat, DecidedByDesk, Steps

LEMMA DecidedStarts == ApplicationsInit => DecidedInv
  <1> SUFFICES ASSUME ApplicationsInit PROVE DecidedInv
    OBVIOUS
  <1>1. Apps = {}
    BY Keys DEF ApplicationsInit, Apps
  <1> QED
    BY <1>1 DEF DecidedInv

LEMMA OnlyTheLate ==
    ASSUME Typed, DecidedInv, ApplicationsNext, NEW a \in Apps, app[a].status \in Decided,
           app'[a].status \notin Decided
    PROVE  \E x \in late : Holds(x, a)
  <1>1. app'[a] # app[a]
    OBVIOUS
  <1>2. ASSUME NEW h, Updated(h) PROVE h = a
    BY <1>1, <1>2 DEF Updated
  <1>3. ASSUME NEW row, Added(row) PROVE FALSE
    BY <1>1, <1>3 DEF Added
  <1>4. ASSUME NEW c \in Chats,
               \/ CreateApplication(c) \/ WriteCustoms(c) \/ WriteCompleted(c)
               \/ \E field \in Columns : SaveColumn(c, field)
        PROVE  c \in late /\ Holds(c, a)
    <2>1. CASE CreateApplication(c)
      BY <1>1, <1>3, <2>1, Starts
    <2>2. CASE WriteCustoms(c)
      <3>1. Updated(chat[c].app) /\ app'[chat[c].app].status = app[chat[c].app].status
        BY <2>2, WritesCustoms
      <3> QED
        BY <1>2, <3>1
    <2>3. CASE WriteCompleted(c)
      <3>1. Updated(chat[c].app) /\ chat[c].pc # "starting"
        BY <2>3, WritesCompleted DEF WriteCompleted
      <3> QED
        BY <1>2, <3>1 DEF DecidedInv, Known, Holds
    <2>4. CASE \E field \in Columns : SaveColumn(c, field)
      <3>1. Updated(chat[c].app) /\ app'[chat[c].app].status = app[chat[c].app].status
        BY <2>4, SavesColumn
      <3> QED
        BY <1>2, <3>1
    <2> QED
      BY <1>4, <2>1, <2>2, <2>3, <2>4
  <1>5. ASSUME NEW f \in Forms, CreateFromForm(f) \/ SubmitSurvey(f) PROVE FALSE
    BY <1>1, <1>3, <1>5, CreatesFromForm, SubmitsSurvey
  <1>6. ASSUME NEW d \in Desks, WriteStatus(d) PROVE d \in late /\ Holds(d, a)
    <2>1. Updated(desk[d].app) /\ app'[desk[d].app].status = desk[d].to
          /\ desk[d].to \in {"completed"} \cup Decided /\ desk[d].pc = "write"
      BY <1>6, WritesStatus DEF WriteStatus
    <2>2. desk[d].app = a /\ desk[d].to = "completed"
      BY <1>2, <2>1
    <2> QED
      BY <2>1, <2>2 DEF DecidedInv, Known, Holds
  <1>7. ASSUME NEW h \in Apps, Age(h) PROVE FALSE
    BY <1>2, <1>7, Ages
  <1> QED
    BY <1>1, <1>4, <1>5, <1>6, <1>7, RowSteps

\* What a landlord has decided becomes undecided again only through a
\* conversation or a request that held the application when it was decided.
THEOREM DecisionsStand == ApplicationsSpec => DecidedStays
  <1>1. Typed /\ DecidedInv /\ [ApplicationsNext]_applicationsVars =>
            [\A a \in Apps : StatusOf(a) \in Decided /\ app'[a].status \notin Decided
                => \E x \in late : Holds(x, a)]_applicationsVars
    BY OnlyTheLate DEF StatusOf
  <1> QED
    BY <1>1, DecidedStarts, DecidedKept, DeskSoundStarts, DeskSoundKept, ApplicationsTyping, PTL
       DEF ApplicationsSpec, DecidedStays

-----------------------------------------------------------------------------
(* Applying once.  A link is used when an application or a form about to      *)
(* create one has it, and only one of them has.                               *)
Linked ==
    /\ \A a \in Apps : app[a].via # Null =>
           /\ app[a].via \in Invites /\ invite[app[a].via].state \in {"used", "deleted"}
           /\ \A b \in Apps : app[b].via = app[a].via => b = a
    /\ \A f \in Forms : form[f].pc = "create" /\ form[f].invite # Null =>
           /\ invite[form[f].invite].state \in {"used", "deleted"}
           /\ \A a \in Apps : app[a].via # form[f].invite
           /\ \A g \in Forms : form[g].pc = "create" /\ form[g].invite = form[f].invite => g = f
Stands ==
    \A n \in Invites : invite[n].state = "used" =>
        \/ \E a \in Apps : app[a].via = n
        \/ \E f \in Forms : form[f].invite = n /\ form[f].pc = "create"
        \/ n \in burnt

\* An applicant whose submissions have not met has one of them under way at most,
\* and then no recent application by the public form.
Recent(a) == app[a].by = "apply" /\ app[a].status = "completed" /\ app[a].age # "months"
Alone(p) ==
    /\ \A a, b \in Apps : Recent(a) /\ Recent(b) /\ app[a].who = p /\ app[b].who = p => a = b
    /\ \A f, g \in InFlight(p) : f = g
    /\ InFlight(p) # {} => \A a \in Apps : app[a].who = p => ~Recent(a)
AloneInv == \A p \in Applicants \ met : Alone(p)

\* What is not done by a form.
Aside ==
    /\ UNCHANGED <<form, met, burnt>>
    /\ \A n \in Invites' : invite'[n].state = "used" => n \in Invites /\ invite[n].state = "used"
    /\ \A a \in Apps' \ Apps : app'[a].via = Null /\ app'[a].by = "chat"

LEMMA Asides ==
    ASSUME Typed, [ApplicationsNext]_applicationsVars, ~\E f \in Forms : FormStep(f)
    PROVE  Aside
  <1> DEFINE UsedBefore == \A n \in Invites' : invite'[n].state = "used"
                               => n \in Invites /\ invite[n].state = "used"
  <1>1. UNCHANGED invite => UsedBefore
    BY DEF Invites
  <1>2. ASSUME NEW c \in Chats, ChatStep(c) PROVE UNCHANGED <<form, met, burnt, invite>>
    BY <1>2 DEF ChatStep, OpenChat, NextText, CloseChat, StartApplication, CreateApplication,
                SaveColumn, ReadCustoms, WriteCustoms, CheckAnswers, Refused, WriteCompleted,
                ChatDies, rows, actors, history
  <1>3. ASSUME NEW d \in Desks, DeskStep(d)
        PROVE  UNCHANGED <<form, met, burnt>> /\ UsedBefore
    <2>1. UNCHANGED <<form, met, burnt>>
      BY <1>3 DEF DeskStep, ReadStatus, WriteStatus, DeleteProperty, DeleteQuestions, DeleteRow,
                  DeskDies, history
    <2>2. CASE DeleteRow(d) /\ ~(UNCHANGED invite)
      <3>1. Deleting
        BY <2>2, InvitesDeleted
      <3>2. \A n \in Invites' : invite'[n].state = "deleted"
        BY <3>1 DEF Deleting
      <3> QED
        BY <2>1, <3>2
    <2>3. CASE ~DeleteRow(d)
      BY <1>1, <1>3, <2>1, <2>3 DEF DeskStep, ReadStatus, WriteStatus, DeleteProperty,
                                    DeleteQuestions, DeskDies, rows
    <2> QED
      BY <1>1, <2>1, <2>2, <2>3
  <1>4. ASSUME NEW a \in Apps, ForwardStep(a) \/ Age(a)
              PROVE UNCHANGED <<form, met, burnt, invite>>
    BY <1>4 DEF ForwardStep, ForwardSent, ForwardDeferred, SweepSends, ForwardDies, Age, rows,
                actors, history
  <1>5. ASSUME NEW p \in Applicants, TextForLink(p)
              PROVE UNCHANGED <<form, met, burnt>> /\ UsedBefore
    <2>1. UNCHANGED <<form, met, burnt>>
      BY <1>5 DEF TextForLink, actors, history
    <2>2. /\ \A n \in Invites : invite'[n] = invite[n]
          /\ \A n \in Invites' \ Invites : invite'[n].state = "open"
      BY <1>5, InviteAdded
    <2> QED
      BY <2>1, <2>2
  <1>6. ASSUME NEW n \in Invites, InviteExpires(n)
              PROVE UNCHANGED <<form, met, burnt>> /\ UsedBefore
    <2>1. UNCHANGED <<form, met, burnt>> /\ Reused(n, "expired")
      BY <1>6, InviteReused DEF InviteExpires, actors, history
    <2> QED
      BY <2>1 DEF Reused
  <1>7. UNCHANGED applicationsVars => UNCHANGED <<form, met, burnt, invite>>
    BY DEF applicationsVars, rows, actors, history
  <1>8. UNCHANGED <<form, met, burnt>> /\ UsedBefore
    BY <1>1, <1>2, <1>3, <1>4, <1>5, <1>6, <1>7, Steps
  <1>9. ASSUME NEW a, Updated(a) PROVE Apps' = Apps
    BY <1>9 DEF Updated
  <1>10. ASSUME NEW c \in Chats, CreateApplication(c), ~(UNCHANGED app)
         PROVE  \A a \in Apps' \ Apps : app'[a].via = Null /\ app'[a].by = "chat"
    BY <1>10, Starts DEF Added
  <1>11. ASSUME NEW c \in Chats,
                WriteCustoms(c) \/ WriteCompleted(c) \/ \E field \in Columns : SaveColumn(c,
                            field)
         PROVE  Apps' = Apps
    BY <1>9, <1>11, WritesCustoms, WritesCompleted, SavesColumn
  <1>12. ASSUME NEW f \in Forms, CreateFromForm(f) \/ SubmitSurvey(f) PROVE FALSE
    BY <1>12 DEF FormStep
  <1>13. (\E d \in Desks : WriteStatus(d)) \/ (\E a \in Apps : Age(a)) => Apps' = Apps
    BY <1>9, WritesStatus, Ages
  <1>14. UNCHANGED app => Apps' = Apps
    BY DEF Apps
  <1>15. \A a \in Apps' \ Apps : app'[a].via = Null /\ app'[a].by = "chat"
    BY <1>10, <1>11, <1>12, <1>13, <1>14, RowSteps
  <1> QED
    BY <1>8, <1>15 DEF Aside

\* A step does not make a row recent, unless it adds it.
LEMMA NotRecentAgain ==
    ASSUME Typed, DeskSound, [ApplicationsNext]_applicationsVars
    PROVE  \A a \in Apps : Recent(a)' => Recent(a)
  <1>1. \A a \in Apps : app'[a].by = app[a].by
    BY RowsMove
  <1>2. ASSUME NEW h \in Apps, Updated(h), app[h].by = "chat"
              PROVE \A a \in Apps : Recent(a)' => Recent(a)
    BY <1>1, <1>2 DEF Updated, Recent
  <1>3. ASSUME NEW row, Added(row) PROVE \A a \in Apps : Recent(a)' => Recent(a)
    BY <1>3 DEF Added, Recent
  <1>4. CASE UNCHANGED app
    BY <1>4 DEF Recent
  <1>5. ASSUME NEW c \in Chats,
               \/ CreateApplication(c) \/ WriteCustoms(c) \/ WriteCompleted(c)
               \/ \E field \in Columns : SaveColumn(c, field)
        PROVE  UNCHANGED app \/ (\E row : Added(row)) \/ \E h \in Apps : Updated(h)
                    /\ app[h].by = "chat"
    <2>1. CASE CreateApplication(c)
      BY <2>1, Starts
    <2>2. CASE WriteCustoms(c)
      BY <2>2, WritesCustoms DEF Updated
    <2>3. CASE WriteCompleted(c)
      BY <2>3, WritesCompleted DEF Updated
    <2>4. CASE \E field \in Columns : SaveColumn(c, field)
      BY <2>4, SavesColumn DEF Updated
    <2> QED
      BY <1>5, <2>1, <2>2, <2>3, <2>4
  <1>6. ASSUME NEW f \in Forms, CreateFromForm(f) \/ SubmitSurvey(f)
        PROVE  UNCHANGED app \/ \E row : Added(row)
    BY <1>6, CreatesFromForm, SubmitsSurvey
  <1>7. ASSUME NEW d \in Desks, WriteStatus(d) PROVE \A a \in Apps : Recent(a)' => Recent(a)
    <2>0. PICK h : h = desk[d].app
      OBVIOUS
    <2>1. /\ h \in Apps /\ Updated(h) /\ app'[h].status = desk[d].to
          /\ desk[d].to \in {"completed"} \cup Decided
          /\ desk[d].to = "completed" => app[h].by = "chat"
      BY <1>7, <2>0, WritesStatus DEF Updated, DeskSound, WriteStatus
    <2>2. CASE desk[d].to = "completed"
      BY <1>2, <2>1, <2>2
    <2>3. CASE desk[d].to \in Decided
      BY <2>1, <2>3 DEF Updated, Recent, Decided
    <2> QED
      BY <2>1, <2>2, <2>3
  <1>8. ASSUME NEW h \in Apps, Age(h) PROVE \A a \in Apps : Recent(a)' => Recent(a)
    <2>1. /\ Updated(h) /\ app'[h].status = app[h].status /\ app[h].age = "days"
      BY <1>8, Ages
    <2> QED
      BY <2>1 DEF Updated, Recent
  <1> QED
    BY <1>2, <1>3, <1>4, <1>5, <1>6, <1>7, <1>8, RowSteps

\* The steps of a form, by what they do to it.
FormTo(f, pc, p, n) ==
    /\ form' \in [Forms -> FormRow] /\ \A g \in Forms \ {f} : form'[g] = form[g]
    /\ form'[f].pc = pc /\ form'[f].who = p /\ form'[f].invite = n

LEMMA FormMoves ==
    ASSUME Typed, Gone, [ApplicationsNext]_applicationsVars, NEW f \in Forms, FormStep(f)
    PROVE  \/ /\ form[f].pc = "idle" /\ UNCHANGED <<app, invite, burnt>>
              /\ \E p \in Applicants, n \in Invites \cup {Null} :
                     \/ Apply(f, p, n) /\ FormTo(f, IF n = Null THEN "create" ELSE "claim", p, n)
                     \/ n # Null /\ FormTo(f, "submit", p, n) /\ UNCHANGED met
           \/ /\ form[f].pc = "claim" /\ UNCHANGED <<app, burnt, met>>
              /\ form[f].invite \in Invites
              /\ invite[form[f].invite].state \in {"open", "expired"}
              /\ Reused(form[f].invite, "used")
              /\ FormTo(f, "create", form[f].who, form[f].invite)
           \/ /\ form' = [form EXCEPT ![f] = NoForm] /\ UNCHANGED <<app, invite, met>>
              /\ burnt \subseteq burnt' /\ UNCHANGED met
              /\ form[f].pc = "create" => form[f].invite \in burnt' \/ property = "gone"
           \/ /\ form' = [form EXCEPT ![f] = NoForm] /\ UNCHANGED <<invite, burnt, met>>
              /\ form[f].pc = "create" /\ (\E row : Added(row))
              /\ app'[NextApp].who = form[f].who /\ app'[NextApp].by = "apply"
              /\ app'[NextApp].via = form[f].invite
           \/ /\ form' = [form EXCEPT ![f] = NoForm] /\ UNCHANGED <<burnt, met>>
              /\ form[f].pc = "submit" /\ (\E row : Added(row))
              /\ app'[NextApp].by = "survey" /\ app'[NextApp].via = form[f].invite
              /\ form[f].invite \in Invites
              /\ invite[form[f].invite].state \in {"open", "expired"}
              /\ Reused(form[f].invite, "used")
  <1>1. CASE \E p \in Applicants, n \in Invites \cup {Null} : Apply(f, p, n)
    <2>1. PICK p \in Applicants, n \in Invites \cup {Null} : Apply(f, p, n)
      BY <1>1
    <2>2. FormTo(f, IF n = Null THEN "create" ELSE "claim", p, n)
      BY <2>1, Applies DEF FormTo
    <2>3. form[f].pc = "idle" /\ UNCHANGED <<app, invite, burnt>>
      BY <2>1 DEF Apply, EnterForm, rows
    <2> QED
      BY <2>1, <2>2, <2>3
  <1>2. CASE \E n \in Invites : OpenSurvey(f, n)
    <2>1. PICK n \in Invites : OpenSurvey(f, n)
      BY <1>2
    <2>2. FormTo(f, "submit", invite[n].who, n) /\ invite[n].who \in Applicants
      BY <2>1, OpensSurvey DEF FormTo
    <2>3. form[f].pc = "idle" /\ UNCHANGED <<app, invite, burnt, met>>
      BY <2>1 DEF OpenSurvey, rows, history
    <2>4. n # Null
      BY InvitesOfTyped DEF Typed
    <2> QED
      BY <2>2, <2>3, <2>4
  <1>3. CASE ClaimInvite(f)
    <2>1. UNCHANGED <<app, burnt, met>>
      BY <1>3 DEF ClaimInvite, history
    <2> QED
      BY <1>3, <2>1, Claims DEF FormTo
  <1>4. CASE CreateFromForm(f)
    <2>1. UNCHANGED <<invite, burnt, met>> /\ form' = [form EXCEPT ![f] = NoForm]
          /\ form[f].pc = "create"
      BY <1>4 DEF CreateFromForm, SetForm, history
    <2> QED
      BY <1>4, <2>1, CreatesFromForm
  <1>5. CASE SubmitSurvey(f)
    <2>1. UNCHANGED <<burnt, met>> /\ form' = [form EXCEPT ![f] = NoForm] /\ form[f].pc = "submit"
      BY <1>5 DEF SubmitSurvey, SetForm
    <2>2. CASE UNCHANGED <<app, invite, fwd, unsure>>
      BY <2>1, <2>2
    <2>3. CASE ~(UNCHANGED <<app, invite, fwd, unsure>>)
      <3>1. /\ \E row : Added(row)
            /\ app'[NextApp].by = "survey" /\ app'[NextApp].via = form[f].invite
            /\ form[f].invite \in Invites
            /\ invite[form[f].invite].state \in {"open", "expired"}
            /\ invite' = [invite EXCEPT ![form[f].invite].state = "used"]
        BY <1>5, <2>3, SubmitsSurvey
      <3>2. Reused(form[f].invite, "used")
        BY <3>1, InviteReused
      <3> QED
        BY <2>1, <3>1, <3>2
    <2> QED
      BY <2>2, <2>3
  <1>6. CASE FormDies(f)
    BY <1>6 DEF FormDies, SetForm, rows
  <1> QED
    BY <1>1, <1>2, <1>3, <1>4, <1>5, <1>6 DEF FormStep

\* A step that links nothing new.
LEMMA LinkedQuiet ==
    ASSUME Typed, Linked, [ApplicationsNext]_applicationsVars,
           \A a \in Apps' \ Apps : app'[a].via = Null,
           \A f \in Forms : form'[f] = form[f] \/ form'[f].pc # "create" \/ form'[f].invite = Null
    PROVE  Linked'
  <1>1. /\ Invites \subseteq Invites' /\ Apps \subseteq Apps'
        /\ \A a \in Apps : app'[a].via = app[a].via
    BY InvitesStay, RowsMove
  <1>2. \A n \in Invites : invite[n].state \in {"used",
              "deleted"} => invite'[n].state \in {"used", "deleted"}
    BY InvitesStay DEF Deleting
  <1>3. ASSUME NEW a \in Apps', app'[a].via # Null
        PROVE  /\ app'[a].via \in Invites' /\ invite'[app'[a].via].state \in {"used", "deleted"}
               /\ \A b \in Apps' : app'[b].via = app'[a].via => b = a
    BY <1>1, <1>2, <1>3 DEF Linked
  <1>4. ASSUME NEW f \in Forms, form'[f].pc = "create", form'[f].invite # Null
        PROVE  /\ invite'[form'[f].invite].state \in {"used", "deleted"}
               /\ \A a \in Apps' : app'[a].via # form'[f].invite
               /\ \A g \in Forms : form'[g].pc = "create" /\ form'[g].invite = form'[f].invite
                           => g = f
    <2>1. form'[f] = form[f] /\ form[f].invite \in Invites
      BY <1>4 DEF Typed, FormsTyped, Fills
    <2>2. /\ invite[form[f].invite].state \in {"used", "deleted"}
          /\ \A a \in Apps : app[a].via # form[f].invite
          /\ \A g \in Forms : form[g].pc = "create" /\ form[g].invite = form[f].invite => g = f
      BY <1>4, <2>1 DEF Linked
    <2>3. \A a \in Apps' : app'[a].via # form[f].invite
      BY <1>1, <1>4, <2>1, <2>2
    <2>4. ASSUME NEW g \in Forms, form'[g].pc = "create", form'[g].invite = form[f].invite
                PROVE g = f
      BY <1>4, <2>1, <2>2, <2>4
    <2> QED
      BY <1>2, <2>1, <2>2, <2>3, <2>4
  <1> QED
    BY <1>3, <1>4 DEF Linked

LEMMA LinkedKept == ASSUME Typed, Gone, Linked, [ApplicationsNext]_applicationsVars PROVE Linked'
  <1>1. CASE ~\E f \in Forms : FormStep(f)
    BY <1>1, Asides, LinkedQuiet DEF Aside
  <1>2. ASSUME NEW f \in Forms, FormStep(f) PROVE Linked'
    <2>0. PICK n : n = form[f].invite
      OBVIOUS
    <2>a. UNCHANGED app => Apps' = Apps
      BY DEF Apps
    <2>b. form' = [form EXCEPT ![f] = NoForm] =>
              /\ form'[f].pc # "create" /\ \A g \in Forms \ {f} : form'[g] = form[g]
      BY FormEnds, NoFormTyped
    <2>1. CASE /\ form[f].pc = "idle" /\ UNCHANGED <<app, invite, burnt>>
               /\ \E p \in Applicants, m \in Invites \cup {Null} :
                      \/ FormTo(f, IF m = Null THEN "create" ELSE "claim", p, m)
                      \/ m # Null /\ FormTo(f, "submit", p, m) /\ UNCHANGED met
      <3>1. \A g \in Forms : form'[g] = form[g] \/ form'[g].pc # "create"
                  \/ form'[g].invite = Null
        BY <2>1 DEF FormTo
      <3> QED
        BY <2>a, <2>1, <3>1, LinkedQuiet
    <2>2. CASE /\ UNCHANGED app /\ n \in Invites /\ invite[n].state \in {"open", "expired"}
               /\ Reused(n, "used") /\ FormTo(f, "create", form[f].who, n)
      <3>1. /\ \A a \in Apps : app[a].via # n
            /\ \A g \in Forms : form[g].pc = "create" => form[g].invite # n
        BY <2>2, InvitesOfTyped DEF Linked, Typed
      <3>2. /\ Invites' = Invites /\ invite'[n].state = "used"
            /\ \A m \in Invites \ {n} : invite'[m] = invite[m]
        BY <2>2 DEF Reused
      <3>3. \A m \in Invites : invite[m].state \in {"used", "deleted"}
                => invite'[m].state \in {"used", "deleted"}
        BY <3>2
      <3>4. ASSUME NEW a \in Apps, app[a].via # Null
            PROVE  /\ app[a].via \in Invites /\ invite'[app[a].via].state \in {"used", "deleted"}
                   /\ \A b \in Apps : app[b].via = app[a].via => b = a
        BY <3>3, <3>4 DEF Linked
      <3>5. /\ form'[f].pc = "create" /\ form'[f].invite = n
            /\ \A g \in Forms \ {f} : form'[g] = form[g]
        BY <2>2 DEF FormTo
      <3>6. ASSUME NEW g \in Forms \ {f}, form[g].pc = "create", form[g].invite # Null
            PROVE  /\ invite'[form[g].invite].state \in {"used", "deleted"}
                   /\ \A a \in Apps : app[a].via # form[g].invite
                   /\ \A h \in Forms : form'[h].pc = "create" /\ form'[h].invite = form[g].invite
                               => h = g
        <4>1. form[g].invite \in Invites
          BY <3>6 DEF Typed, FormsTyped, Fills
        <4> QED
          BY <3>1, <3>3, <3>5, <3>6, <4>1 DEF Linked
      <3>7. \A g \in Forms \ {f} : form'[g].pc = "create" => form'[g].invite # n
        BY <3>1, <3>5
      <3>8. \A a \in Apps' : app'[a].via # Null =>
                /\ app'[a].via \in Invites' /\ invite'[app'[a].via].state \in {"used", "deleted"}
                /\ \A b \in Apps' : app'[b].via = app'[a].via => b = a
        BY <2>a, <2>2, <3>2, <3>4
      <3>9. \A g \in Forms : form'[g].pc = "create" /\ form'[g].invite # Null =>
                /\ invite'[form'[g].invite].state \in {"used", "deleted"}
                /\ \A a \in Apps' : app'[a].via # form'[g].invite
                /\ \A h \in Forms : form'[h].pc = "create" /\ form'[h].invite = form'[g].invite
                            => h = g
        <4>1. ASSUME NEW g \in Forms \ {f}, form'[g].pc = "create", form'[g].invite # Null
              PROVE  /\ invite'[form'[g].invite].state \in {"used", "deleted"}
                     /\ \A a \in Apps' : app'[a].via # form'[g].invite
                     /\ \A h \in Forms : form'[h].pc = "create"
                                 /\ form'[h].invite = form'[g].invite => h = g
          BY <2>a, <2>2, <3>5, <3>6, <4>1
        <4>2. /\ invite'[n].state \in {"used", "deleted"} /\ \A a \in Apps' : app'[a].via # n
              /\ \A h \in Forms : form'[h].pc = "create" /\ form'[h].invite = n => h = f
          BY <2>a, <2>2, <3>1, <3>2, <3>7
        <4> QED
          BY <3>5, <4>1, <4>2
      <3> QED
        BY <3>8, <3>9 DEF Linked
    <2>3. CASE form' = [form EXCEPT ![f] = NoForm] /\ UNCHANGED <<app, invite>>
      BY <2>a, <2>b, <2>3, LinkedQuiet
    <2>4. CASE /\ form' = [form EXCEPT ![f] = NoForm] /\ UNCHANGED invite
               /\ form[f].pc = "create" /\ (\E row : Added(row)) /\ app'[NextApp].via = n
      <3>0. PICK row : Added(row)
        BY <2>4
      <3>1. /\ Apps' = Apps \cup {NextApp} /\ \A a \in Apps : app'[a] = app[a]
        BY <3>0 DEF Added
      <3>2. CASE n = Null
        BY <2>b, <2>4, <3>1, <3>2, LinkedQuiet
      <3>3. CASE n # Null
        <4>1. /\ invite[n].state \in {"used", "deleted"} /\ \A a \in Apps : app[a].via # n
              /\ \A g \in Forms : form[g].pc = "create" /\ form[g].invite = n => g = f
              /\ n \in Invites
          BY <2>0, <2>4, <3>3 DEF Linked, Typed, FormsTyped, Fills
        <4>2. Invites' = Invites
          BY <2>4 DEF Invites
        <4>3. \A a \in Apps' : app'[a].via # Null =>
                /\ app'[a].via \in Invites' /\ invite'[app'[a].via].state \in {"used", "deleted"}
                /\ \A b \in Apps' : app'[b].via = app'[a].via => b = a
          BY <2>4, <3>1, <4>1, <4>2 DEF Linked
        <4>4. \A g \in Forms : form'[g].pc = "create" /\ form'[g].invite # Null =>
                /\ invite'[form'[g].invite].state \in {"used", "deleted"}
                /\ \A a \in Apps' : app'[a].via # form'[g].invite
                /\ \A h \in Forms : form'[h].pc = "create" /\ form'[h].invite = form'[g].invite
                            => h = g
          <5>1. ASSUME NEW g \in Forms, form'[g].pc = "create", form'[g].invite # Null
                PROVE  /\ invite'[form'[g].invite].state \in {"used", "deleted"}
                       /\ \A a \in Apps' : app'[a].via # form'[g].invite
                       /\ \A h \in Forms : form'[h].pc = "create"
                                   /\ form'[h].invite = form'[g].invite => h = g
            <6>1. g # f /\ form'[g] = form[g] /\ form[g].invite # n
              BY <2>b, <2>4, <4>1, <5>1
            <6>2. /\ invite[form[g].invite].state \in {"used", "deleted"}
                  /\ \A a \in Apps : app[a].via # form[g].invite
                  /\ \A h \in Forms : form[h].pc = "create" /\ form[h].invite = form[g].invite
                              => h = g
              BY <5>1, <6>1 DEF Linked
            <6>3. \A h \in Forms : form'[h].pc = "create" => form'[h] = form[h]
              BY <2>b, <2>4
            <6> QED
              BY <2>4, <3>1, <6>1, <6>2, <6>3
          <5> QED
            BY <5>1
        <4> QED
          BY <4>3, <4>4 DEF Linked
      <3> QED
        BY <3>2, <3>3
    <2>5. CASE /\ form' = [form EXCEPT ![f] = NoForm] /\ form[f].pc = "submit"
               /\ (\E row : Added(row)) /\ app'[NextApp].via = n
               /\ n \in Invites /\ invite[n].state \in {"open", "expired"} /\ Reused(n, "used")
      <3>0. PICK row : Added(row)
        BY <2>5
      <3>1. /\ Apps' = Apps \cup {NextApp} /\ \A a \in Apps : app'[a] = app[a]
        BY <3>0 DEF Added
      <3>2. /\ \A a \in Apps : app[a].via # n
            /\ \A g \in Forms : form[g].pc = "create" => form[g].invite # n
        BY <2>5, InvitesOfTyped DEF Linked, Typed
      <3>3. /\ Invites' = Invites /\ invite'[n].state = "used"
            /\ \A m \in Invites \ {n} : invite'[m] = invite[m]
        BY <2>5 DEF Reused
      <3>4. \A m \in Invites : invite[m].state \in {"used", "deleted"}
                => invite'[m].state \in {"used", "deleted"}
        BY <3>3
      <3>5. \A a \in Apps' : app'[a].via # Null =>
                /\ app'[a].via \in Invites' /\ invite'[app'[a].via].state \in {"used", "deleted"}
                /\ \A b \in Apps' : app'[b].via = app'[a].via => b = a
        BY <2>5, <3>1, <3>2, <3>3, <3>4 DEF Linked
      <3>6. ASSUME NEW g \in Forms, form'[g].pc = "create", form'[g].invite # Null
            PROVE  /\ invite'[form'[g].invite].state \in {"used", "deleted"}
                   /\ \A a \in Apps' : app'[a].via # form'[g].invite
                   /\ \A h \in Forms : form'[h].pc = "create"
                               /\ form'[h].invite = form'[g].invite => h = g
        <4>1. g # f /\ form'[g] = form[g] /\ form[g].invite \in Invites \ {n}
          BY <2>b, <2>5, <3>2, <3>6 DEF Typed, FormsTyped, Fills
        <4>2. /\ invite[form[g].invite].state \in {"used", "deleted"}
              /\ \A a \in Apps : app[a].via # form[g].invite
              /\ \A h \in Forms : form[h].pc = "create" /\ form[h].invite = form[g].invite
                          => h = g
          BY <3>6, <4>1 DEF Linked
        <4>3. \A h \in Forms : form'[h].pc = "create" => form'[h] = form[h]
          BY <2>b, <2>5
        <4> QED
          BY <2>5, <3>1, <3>4, <4>1, <4>2, <4>3
      <3> QED
        BY <3>5, <3>6 DEF Linked
    <2> QED
      BY <1>2, <2>0, <2>1, <2>2, <2>3, <2>4, <2>5, FormMoves
  <1> QED
    BY <1>1, <1>2

LEMMA StandsKept == ASSUME Typed, Gone, Linked, Stands, [ApplicationsNext]_applicationsVars
            PROVE Stands'
  <1>0. Apps \subseteq Apps' /\ \A a \in Apps : app'[a].via = app[a].via
    BY RowsMove
  <1>1. CASE ~\E f \in Forms : FormStep(f)
    <2>1. Aside
      BY <1>1, Asides
    <2> QED
      BY <1>0, <2>1 DEF Stands, Aside
  <1>2. ASSUME NEW f \in Forms, FormStep(f) PROVE Stands'
    <2>0. PICK n : n = form[f].invite
      OBVIOUS
    <2>a. UNCHANGED app => Apps' = Apps
      BY DEF Apps
    <2>b. form' = [form EXCEPT ![f] = NoForm] =>
              /\ form'[f].pc # "create" /\ \A g \in Forms \ {f} : form'[g] = form[g]
      BY FormEnds, NoFormTyped
    <2>c. UNCHANGED invite => Invites' = Invites
      BY DEF Invites
    <2>1. CASE /\ form[f].pc = "idle" /\ UNCHANGED <<app, invite, burnt>>
               /\ \E p \in Applicants, m \in Invites \cup {Null} :
                      \/ FormTo(f, IF m = Null THEN "create" ELSE "claim", p, m)
                      \/ m # Null /\ FormTo(f, "submit", p, m) /\ UNCHANGED met
      <3>1. \A g \in Forms \ {f} : form'[g] = form[g]
        BY <2>1 DEF FormTo
      <3>2. \A g \in Forms : form[g].pc = "create" => form'[g] = form[g]
        BY <2>1, <3>1
      <3> QED
        BY <2>a, <2>c, <2>1, <3>2 DEF Stands
    <2>2. CASE /\ form[f].pc = "claim" /\ UNCHANGED <<app, burnt>> /\ n \in Invites
               /\ Reused(n, "used") /\ FormTo(f, "create", form[f].who, n)
      <3>1. /\ Invites' = Invites /\ \A m \in Invites \ {n} : invite'[m] = invite[m]
        BY <2>2 DEF Reused
      <3>2. /\ form'[f].pc = "create" /\ form'[f].invite = n
            /\ \A g \in Forms : form[g].pc = "create" => form'[g] = form[g]
        BY <2>2 DEF FormTo
      <3> QED
        BY <2>a, <2>2, <3>1, <3>2 DEF Stands
    <2>3. CASE /\ form' = [form EXCEPT ![f] = NoForm] /\ UNCHANGED <<app, invite>>
               /\ burnt \subseteq burnt' /\ (form[f].pc = "create"
                           => n \in burnt' \/ property = "gone")
      <3>1. CASE property = "gone"
        BY <2>c, <2>3, <3>1 DEF Gone, Stands
      <3>2. CASE form[f].pc = "create" => n \in burnt'
        BY <2>0, <2>a, <2>b, <2>c, <2>3, <3>2 DEF Stands
      <3> QED
        BY <2>3, <3>1, <3>2
    <2>4. CASE /\ form' = [form EXCEPT ![f] = NoForm] /\ UNCHANGED <<invite, burnt>>
               /\ (\E row : Added(row)) /\ app'[NextApp].via = n
      <3>1. NextApp \in Apps'
        BY <2>4 DEF Added
      <3>2. \A g \in Forms \ {f} : form'[g] = form[g]
        BY <2>b, <2>4
      <3> QED
        BY <1>0, <2>0, <2>c, <2>4, <3>1, <3>2 DEF Stands
    <2>5. CASE /\ form' = [form EXCEPT ![f] = NoForm] /\ UNCHANGED burnt
               /\ form[f].pc = "submit" /\ (\E row : Added(row)) /\ app'[NextApp].via = n
               /\ Reused(n, "used")
      <3>1. NextApp \in Apps'
        BY <2>5 DEF Added
      <3>2. /\ Invites' = Invites /\ \A m \in Invites \ {n} : invite'[m] = invite[m]
        BY <2>5 DEF Reused
      <3>3. \A g \in Forms : form[g].pc = "create" => form'[g] = form[g]
        BY <2>b, <2>5
      <3> QED
        BY <1>0, <2>5, <3>1, <3>2, <3>3 DEF Stands
    <2> QED
      BY <1>2, <2>0, <2>1, <2>2, <2>3, <2>4, <2>5, FormMoves
  <1> QED
    BY <1>1, <1>2

\* While an applicant's submissions stay as they are and no recent row is added.
LEMMA AloneQuiet ==
    ASSUME Typed, DeskSound, [ApplicationsNext]_applicationsVars, NEW p \in Applicants, Alone(p),
                InFlight(p)' \subseteq InFlight(p),
           \A a \in Apps' \ Apps : app'[a].by # "apply"
    PROVE  Alone(p)'
  <1>1. \A a \in Apps' : Recent(a)' => a \in Apps /\ Recent(a)
    BY NotRecentAgain DEF Recent
  <1>2. \A a \in Apps : app'[a].who = app[a].who
    BY RowsMove
  <1> QED
    BY <1>1, <1>2 DEF Alone

LEMMA AloneKept == ASSUME Typed, Gone, DeskSound, AloneInv, [ApplicationsNext]_applicationsVars
            PROVE AloneInv'
  <1>1. CASE ~\E f \in Forms : FormStep(f)
    <2>1. Aside
      BY <1>1, Asides
    <2>2. \A p \in Applicants : InFlight(p)' = InFlight(p)
      BY <2>1 DEF Aside, InFlight
    <2> QED
      BY <2>1, <2>2, AloneQuiet DEF AloneInv, Aside
  <1>2. ASSUME NEW f \in Forms, FormStep(f) PROVE AloneInv'
    <2>0. PICK q : q = form[f].who
      OBVIOUS
    <2>a. UNCHANGED app => Apps' = Apps
      BY DEF Apps
    <2>b. form' = [form EXCEPT ![f] = NoForm] =>
              /\ form'[f].pc = "idle" /\ \A g \in Forms \ {f} : form'[g] = form[g]
      BY FormEnds, NoFormTyped
    <2>c. form' = [form EXCEPT ![f] = NoForm] =>
              \A p \in Applicants : InFlight(p)' \subseteq InFlight(p) \ {f}
      BY <2>b DEF InFlight
    <2>1. ASSUME form[f].pc = "idle", UNCHANGED app,
                 NEW p \in Applicants, NEW m \in Invites \cup {Null}, Apply(f, p, m),
                 FormTo(f, IF m = Null THEN "create" ELSE "claim", p, m)
          PROVE  AloneInv'
      <3>1. /\ Duplicates(p) = {} /\ met' = IF InFlight(p) # {} THEN met \cup {p} ELSE met
        BY <2>1 DEF Apply, EnterForm
      <3>2. \A a \in Apps : app[a].who = p => ~Recent(a)
        BY <3>1 DEF Duplicates, Recent, HasEmail, StatusOf
      <3>3. /\ \A g \in Forms \ {f} : form'[g] = form[g]
            /\ form'[f].who = p
        BY <2>1 DEF FormTo
      <3>4. InFlight(p)' \subseteq InFlight(p) \cup {f}
        BY <3>3 DEF InFlight
      <3>5. ASSUME NEW r \in Applicants \ {p}, r \notin met' PROVE Alone(r)'
        <4>1. InFlight(r)' \subseteq InFlight(r)
          BY <3>3, <3>5 DEF InFlight
        <4> QED
          BY <2>a, <2>1, <3>1, <3>5, <4>1, AloneQuiet DEF AloneInv
      <3>6. ASSUME p \notin met' PROVE Alone(p)'
        <4>1. InFlight(p)' \subseteq {f}
          BY <3>1, <3>4, <3>6
        <4>2. Alone(p)
          BY <3>1, <3>6 DEF AloneInv
        <4>3. \A a \in Apps' : app'[a].who = p => ~Recent(a)'
          BY <2>a, <2>1, <3>2 DEF Recent
        <4> QED
          BY <4>1, <4>3 DEF Alone
      <3> QED
        BY <3>5, <3>6 DEF AloneInv
    <2>2. ASSUME form[f].pc = "idle", UNCHANGED <<app, met>>,
                 NEW p, NEW m, FormTo(f, "submit", p, m)
          PROVE  AloneInv'
      <3>1. \A r \in Applicants : InFlight(r)' \subseteq InFlight(r)
        BY <2>2 DEF InFlight, FormTo
      <3> QED
        BY <2>a, <2>2, <3>1, AloneQuiet DEF AloneInv
    <2>3. ASSUME form[f].pc = "claim", UNCHANGED <<app, met>>,
                 FormTo(f, "create", form[f].who, form[f].invite)
          PROVE  AloneInv'
      <3>1. \A r \in Applicants : InFlight(r)' \subseteq InFlight(r)
        BY <2>3 DEF InFlight, FormTo
      <3> QED
        BY <2>a, <2>3, <3>1, AloneQuiet DEF AloneInv
    <2>4. ASSUME form' = [form EXCEPT ![f] = NoForm], UNCHANGED met,
                 \A a \in Apps' \ Apps : app'[a].by # "apply"
          PROVE  AloneInv'
      BY <2>c, <2>4, AloneQuiet DEF AloneInv
    <2>5. ASSUME form' = [form EXCEPT ![f] = NoForm], UNCHANGED met, form[f].pc = "create",
                 NEW row, Added(row), app'[NextApp].who = q
          PROVE  AloneInv'
      <3>1. /\ Apps' = Apps \cup {NextApp} /\ \A a \in Apps : app'[a] = app[a]
        BY <2>5 DEF Added
      <3>2. q \in Applicants /\ f \in InFlight(q)
        BY <2>0, <2>5 DEF InFlight, Typed, FormsTyped, Fills
      <3>3. ASSUME NEW r \in Applicants \ {q}, r \notin met PROVE Alone(r)'
        <4>1. Alone(r)
          BY <3>3 DEF AloneInv
        <4>2. \A a \in Apps' : app'[a].who = r => a \in Apps /\ app[a].who = r
          BY <2>5, <3>1, <3>3
        <4>3. \A a \in Apps : Recent(a)' => Recent(a)
          BY NotRecentAgain
        <4> QED
          BY <2>c, <2>5, <3>1, <4>1, <4>2, <4>3 DEF Alone
      <3>4. ASSUME q \notin met PROVE Alone(q)'
        <4>1. Alone(q)
          BY <3>2, <3>4 DEF AloneInv
        <4>2. InFlight(q)' = {}
          BY <2>c, <2>5, <3>2, <4>1 DEF Alone
        <4>3. \A a \in Apps : app[a].who = q => ~Recent(a)
          BY <3>2, <4>1 DEF Alone
        <4>4. \A a \in Apps : app'[a].who = q => ~Recent(a)'
          BY <3>1, <4>3, NotRecentAgain
        <4>5. PICK k : k = NextApp
          OBVIOUS
        <4>6. \A a \in Apps' : Recent(a)' /\ app'[a].who = q => a = k
          BY <3>1, <4>4, <4>5
        <4> QED
          BY <4>2, <4>6 DEF Alone
      <3> QED
        BY <2>5, <3>3, <3>4 DEF AloneInv
    <2>6. ASSUME NEW row, Added(row), app'[NextApp].by # "apply"
          PROVE  \A a \in Apps' \ Apps : app'[a].by # "apply"
      BY <2>6 DEF Added
    <2> QED
      BY <1>2, <2>0, <2>a, <2>1, <2>2, <2>3, <2>4, <2>5, <2>6, FormMoves
  <1> QED
    BY <1>1, <1>2

LEMMA AppliedStarts == ApplicationsInit => Linked /\ Stands /\ AloneInv
  <1> SUFFICES ASSUME ApplicationsInit PROVE Linked /\ Stands /\ AloneInv
    OBVIOUS
  <1>1. Apps = {} /\ Invites = {}
    BY Keys DEF ApplicationsInit, Apps, Invites
  <1>2. \A f \in Forms : form[f].pc = "idle"
    BY NoFormTyped DEF ApplicationsInit
  <1>3. \A p \in Applicants : InFlight(p) = {}
    BY <1>2 DEF InFlight
  <1> QED
    BY <1>1, <1>2, <1>3 DEF Linked, Stands, AloneInv, Alone

LEMMA OnePerLink ==
    ASSUME Typed, Linked, NEW n \in Invites
    PROVE  Cardinality({a \in Apps : app[a].via = n}) <= 1
  <1>1. n # Null
    BY InvitesOfTyped DEF Typed
  <1>2. CASE {a \in Apps : app[a].via = n} = {}
    BY <1>2, FS_EmptySet
  <1>3. ASSUME NEW a \in Apps, app[a].via = n
              PROVE Cardinality({b \in Apps : app[b].via = n}) <= 1
    <2>1. {b \in Apps : app[b].via = n} = {a}
      BY <1>1, <1>3 DEF Linked
    <2>2. Cardinality({a}) = 1
      BY FS_Singleton
    <2> QED
      BY <2>1, <2>2
  <1> QED
    BY <1>2, <1>3

\* A link makes one application, an applicant's recent applications by the public
\* form come from submissions that overlapped, and a used link stands for an
\* application, or for a submission that is about to create it or has died.
THEOREM AppliesOnce == ApplicationsSpec => []AppliedOnce
  <1>1. Typed /\ Linked /\ Stands /\ AloneInv => AppliedOnce
    <2> SUFFICES ASSUME Typed, Linked, Stands, AloneInv PROVE AppliedOnce
      OBVIOUS
    <2>1. ASSUME NEW a \in Apps, NEW b \in Apps, a # b, app[a].who = app[b].who,
                 \A x \in {a, b} : app[x].by = "apply" /\ StatusOf(x) = "completed"
                                   /\ app[x].age # "months"
          PROVE  app[a].who \in met
      <3>1. Recent(a) /\ Recent(b)
        BY <2>1 DEF Recent, StatusOf
      <3>2. app[a].who \in Applicants
        BY RowsOf DEF Typed, AppRow
      <3> QED
        BY <2>1, <3>1, <3>2 DEF AloneInv, Alone
    <2> QED
      BY <2>1, OnePerLink DEF AppliedOnce, Stands
  <1> QED
    BY <1>1, AppliedStarts, LinkedKept, StandsKept, AloneKept, DeskSoundStarts, DeskSoundKept,
       ApplicationsTyping, PTL DEF ApplicationsSpec
=============================================================================
