-------------------------------- MODULE Tenancy --------------------------------
(***************************************************************************)
(* Units, leases and the converted tenant, as the dashboard's API routes   *)
(* and the nightly lease-expiration job leave them.  No route opens a      *)
(* transaction: each statement is a step of its own, and other requests    *)
(* run between two statements.  A request is an element of Requests; its   *)
(* record says which statement comes next.                                 *)
(*                                                                         *)
(*   unit     the Unit rows' status                                        *)
(*   account  the tenants that have a Tenant row                           *)
(*   lease    the Lease rows, by id, in the order they were created        *)
(*   req      the requests under way                                       *)
(*   job      the lease-expiration job: its state and the list it read     *)
(*   deaths   processes that died between two statements                   *)
(*                                                                         *)
(* Histories: "overlapped" holds the units for which two requests were     *)
(* past the active-lease check together; "unsettled" the units whose       *)
(* status one of the known accidents may have left wrong; "settledEnd" the *)
(* leases whose end date was moved forward while the job was not running.  *)
(***************************************************************************)
EXTENDS Naturals, FiniteSets

CONSTANTS Units, Tenants, Requests, None,
          MaxLeases,   \* bound: Lease rows ever created
          MaxDeaths    \* bound: requests and job runs that die half-way

ASSUME MaxLeasesNat == MaxLeases \in Nat
ASSUME MaxDeathsNat == MaxDeaths \in Nat
ASSUME RequestsFinite == IsFiniteSet(Requests)

VARIABLES unit, account, lease, req, job, deaths, overlapped, unsettled, settledEnd

vars == <<unit, account, lease, req, job, deaths, overlapped, unsettled, settledEnd>>

LeaseIds == 1..MaxLeases
Idle == [pc |-> "idle", unit |-> None, tenant |-> None, lease |-> None, body |-> "none"]
NoJob == [pc |-> "off", list |-> {}]

(* The bodies the tenant page sends to PUT /api/leases/[id], and the end of *)
(* a new lease: none, or ahead.                                             *)
PutBodies == {"renew", "monthly", "terminate"}
NewEnds == {"none", "ahead"}

LeaseRow == [unit : Units, tenant : Tenants, status : {"active", "terminated"},
             type : {"fixed", "monthly"}, end : {"none", "ahead", "past"}]
ReqRow ==
    [pc : {"idle", "account", "letCheck", "create", "occupy", "vacate", "write"},
     unit : Units \cup {None}, tenant : Tenants \cup {None},
     lease : LeaseIds \cup {None}, body : PutBodies \cup NewEnds]

ASSUME NoneIsNoRow == None \notin LeaseRow

TypeOK ==
    /\ unit \in [Units -> {"absent", "vacant", "occupied", "maintenance"}]
    /\ account \in SUBSET Tenants
    /\ lease \in [LeaseIds -> LeaseRow \cup {None}]
    /\ req \in [Requests -> ReqRow]
    /\ job \in [pc : {"off", "reminding", "converting"}, list : SUBSET LeaseIds]
    /\ deaths \in 0..MaxDeaths
    /\ overlapped \in SUBSET Units
    /\ unsettled \in SUBSET Units
    /\ settledEnd \in SUBSET LeaseIds

Init ==
    /\ unit = [u \in Units |-> "vacant"]
    /\ account \in {{}, Tenants}
    /\ lease = [l \in LeaseIds |-> None]
    /\ req = [r \in Requests |-> Idle]
    /\ job = NoJob
    /\ deaths = 0
    /\ overlapped = {}
    /\ unsettled = {}
    /\ settledEnd = {}

--------------------------------------------------------------------------------
Rows == {l \in LeaseIds : lease[l] # None}
ActiveOn(u) == {l \in Rows : lease[l].unit = u /\ lease[l].status = "active"}
Creating(u) == {r \in Requests : req[r].pc = "create" /\ req[r].unit = u}

(* Row ids left for the requests that may still create one. *)
RoomForLease ==
    Cardinality(Rows) + Cardinality({r \in Requests :
        req[r].pc \in {"account", "letCheck", "create"}}) < MaxLeases

To(r, record) == req' = [req EXCEPT ![r] = record]
Done(r) == To(r, Idle)

--------------------------------------------------------------------------------
(* POST /api/leases: the unit, its active lease and the tenant are looked up *)
(* before anything is written; the legal caps can refuse as well, which      *)
(* changes nothing.                                                          *)
LeaseCheckPasses(u) == unit[u] # "absent" /\ ActiveOn(u) = {}

PastCheck(r, u, t, end) ==
    /\ To(r, [Idle EXCEPT !.pc = "create", !.unit = u, !.tenant = t, !.body = end])
    /\ overlapped' = IF Creating(u) # {} THEN overlapped \cup {u} ELSE overlapped

PostLease(r, u, t, end) ==
    /\ req[r] = Idle /\ RoomForLease
    /\ t \in account
    /\ LeaseCheckPasses(u)
    /\ PastCheck(r, u, t, end)
    /\ UNCHANGED <<unit, account, lease, job, deaths, unsettled, settledEnd>>

(* POST /api/tenants/[id]/convert: the application is fit for conversion and  *)
(* no tenant has its address yet.                                             *)
Convert(r, t) ==
    /\ req[r] = Idle /\ RoomForLease
    /\ t \notin account
    /\ To(r, [Idle EXCEPT !.pc = "account", !.tenant = t])
    /\ UNCHANGED <<unit, account, lease, job, deaths, overlapped, unsettled, settledEnd>>

(* The Tenant row and its invite are written; the (email, landlord) key makes *)
(* the second of two conversions fail.  A request without lease terms ends.   *)
CreateTenant(r) ==
    /\ req[r].pc = "account"
    /\ \/ /\ req[r].tenant \in account
          /\ Done(r)
          /\ UNCHANGED account
       \/ /\ req[r].tenant \notin account
          /\ account' = account \cup {req[r].tenant}
          /\ \/ Done(r)
             \/ \E u \in Units : To(r, [req[r] EXCEPT !.pc = "letCheck", !.unit = u])
    /\ UNCHANGED <<unit, lease, job, deaths, overlapped, unsettled, settledEnd>>

\* Mutant: a conversion does not ask whether the unit is let.
ConvertLetCheck_NoCheck(r, end) ==
    /\ req[r].pc = "letCheck"
    /\ PastCheck(r, req[r].unit, req[r].tenant, end)
    /\ UNCHANGED <<unit, account, lease, job, deaths, unsettled, settledEnd>>

(* The lease half of a conversion looks at the unit only now.  A refusal      *)
(* (no such unit, an active lease, a Cook County cap) leaves the new tenant.  *)
ConvertLetCheck(r, end) ==
    /\ req[r].pc = "letCheck"
    /\ \/ Done(r) /\ UNCHANGED overlapped
       \/ /\ LeaseCheckPasses(req[r].unit)
          /\ PastCheck(r, req[r].unit, req[r].tenant, end)
    /\ UNCHANGED <<unit, account, lease, job, deaths, unsettled, settledEnd>>

(* lease.create: refused by the foreign key when the unit is gone.            *)
NewLease(u, t, end) ==
    [unit |-> u, tenant |-> t, status |-> "active", end |-> end,
     type |-> IF end = "none" THEN "monthly" ELSE "fixed"]

CreateLease(r) ==
    LET u == req[r].unit
        l == Cardinality(Rows) + 1
    IN  /\ req[r].pc = "create"
        /\ \/ /\ unit[u] = "absent"
              /\ Done(r)
              /\ UNCHANGED lease
           \/ /\ unit[u] # "absent"
              /\ lease' = [lease EXCEPT ![l] = NewLease(u, req[r].tenant, req[r].body)]
              /\ To(r, [req[r] EXCEPT !.pc = "occupy", !.lease = l])
        /\ UNCHANGED <<unit, account, job, deaths, overlapped, unsettled, settledEnd>>

(* unit.update: the last statement of both routes.  The unit's status may be    *)
(* wrong afterwards when the lease has been ended, or its unit vacated, since.  *)
Ending(l) == \E r \in Requests : req[r].lease = l /\ req[r].pc = "write" /\ req[r].body = "terminate"

OccupyUnit(r) ==
    LET u == req[r].unit
    IN  /\ req[r].pc = "occupy"
        /\ unit' = [unit EXCEPT ![u] = "occupied"]
        /\ unsettled' = IF req[r].lease \in ActiveOn(u) /\ ~Ending(req[r].lease)
                           THEN unsettled \ {u}
                           ELSE unsettled \cup {u}
        /\ Done(r)
        /\ UNCHANGED <<account, lease, job, deaths, overlapped, settledEnd>>

--------------------------------------------------------------------------------
(* PUT /api/leases/[id], sent by a page that may have been loaded long ago: the *)
(* route looks the lease up, not its status.                                    *)
PutLease(r, l, body) ==
    /\ req[r] = Idle
    /\ l \in Rows
    /\ To(r, [Idle EXCEPT !.pc = IF body = "terminate" THEN "vacate" ELSE "write",
                          !.unit = lease[l].unit, !.lease = l, !.body = body])
    /\ UNCHANGED <<unit, account, lease, job, deaths, overlapped, unsettled, settledEnd>>

\* Mutant: a termination leaves the unit to the landlord.
VacateUnit_Skip(r) ==
    /\ req[r].pc = "vacate"
    /\ To(r, [req[r] EXCEPT !.pc = "write"])
    /\ UNCHANGED <<unit, account, lease, job, deaths, overlapped, unsettled, settledEnd>>

(* A termination vacates the unit first, whoever holds it now.                  *)
VacateUnit(r) ==
    LET u == req[r].unit
    IN  /\ req[r].pc = "vacate"
        /\ unit' = [unit EXCEPT ![u] = "vacant"]
        /\ unsettled' = IF ActiveOn(u) \subseteq {req[r].lease} THEN unsettled
                                                                ELSE unsettled \cup {u}
        /\ To(r, [req[r] EXCEPT !.pc = "write"])
        /\ UNCHANGED <<account, lease, job, deaths, overlapped, settledEnd>>

RolledOver(row) == [row EXCEPT !.type = "monthly", !.end = "none"]

Put(row, body) ==
    CASE body = "renew"     -> [row EXCEPT !.end = "ahead"]
      [] body = "monthly"   -> RolledOver(row)
      [] body = "terminate" -> [row EXCEPT !.status = "terminated"]

WriteLease(r) ==
    LET l == req[r].lease
    IN  /\ req[r].pc = "write"
        /\ lease' = [lease EXCEPT ![l] = Put(lease[l], req[r].body)]
        /\ settledEnd' = IF req[r].body = "renew" /\ job.pc # "converting"
                           THEN settledEnd \cup {l}
                           ELSE IF req[r].body = "monthly" THEN settledEnd \ {l}
                           ELSE settledEnd
        /\ Done(r)
        /\ UNCHANGED <<unit, account, job, deaths, overlapped, unsettled>>

--------------------------------------------------------------------------------
(* The unit form: add a unit, set any status without a look at the leases,  *)
(* delete a unit.  The delete's own check is for active leases; the foreign *)
(* key refuses it as long as any lease, ended or not, names the unit.       *)
AddUnit(u) ==
    /\ unit[u] = "absent"
    /\ unit' = [unit EXCEPT ![u] = "vacant"]
    /\ UNCHANGED <<account, lease, req, job, deaths, overlapped, unsettled, settledEnd>>

PutUnit(u, status) ==
    /\ unit[u] # "absent"
    /\ unit[u] # status
    /\ unit' = [unit EXCEPT ![u] = status]
    /\ unsettled' = unsettled \cup {u}
    /\ UNCHANGED <<account, lease, req, job, deaths, overlapped, settledEnd>>

DeleteUnit(u) ==
    /\ unit[u] # "absent"
    /\ ActiveOn(u) = {}
    /\ \A l \in Rows : lease[l].unit # u
    /\ unit' = [unit EXCEPT ![u] = "absent"]
    /\ UNCHANGED <<account, lease, req, job, deaths, overlapped, unsettled, settledEnd>>

--------------------------------------------------------------------------------
(* The job: reminders for the leases about to end, then one read of those past *)
(* their end, then one update per lease of that list, by id alone.             *)
Overdue(l) ==
    l \in Rows /\ lease[l].status = "active" /\ lease[l].type = "fixed" /\ lease[l].end = "past"

JobRemind ==
    /\ job = NoJob
    /\ job' = [job EXCEPT !.pc = "reminding"]
    /\ UNCHANGED <<unit, account, lease, req, deaths, overlapped, unsettled, settledEnd>>

\* Mutant: the list of the reminders is rolled over as well.
JobRead_Soon ==
    /\ job.pc = "reminding"
    /\ LET list == {l \in LeaseIds : l \in Rows /\ lease[l].status = "active"
                        /\ lease[l].type = "fixed" /\ lease[l].end # "none"}
       IN  job' = IF list = {} THEN NoJob ELSE [pc |-> "converting", list |-> list]
    /\ UNCHANGED <<unit, account, lease, req, deaths, overlapped, unsettled, settledEnd>>

JobRead ==
    /\ job.pc = "reminding"
    /\ LET list == {l \in LeaseIds : Overdue(l)}
       IN  job' = IF list = {} THEN NoJob ELSE [pc |-> "converting", list |-> list]
    /\ UNCHANGED <<unit, account, lease, req, deaths, overlapped, unsettled, settledEnd>>

\* Mutant: the end date is kept for the record, and so is the type.
JobConvert_MailOnly(l) ==
    /\ job.pc = "converting"
    /\ l \in job.list
    /\ job' = IF job.list = {l} THEN NoJob ELSE [job EXCEPT !.list = @ \ {l}]
    /\ UNCHANGED <<unit, account, lease, req, deaths, overlapped, unsettled, settledEnd>>

JobConvert(l) ==
    /\ job.pc = "converting"
    /\ l \in job.list
    /\ lease' = [lease EXCEPT ![l] = RolledOver(lease[l])]
    /\ job' = IF job.list = {l} THEN NoJob ELSE [job EXCEPT !.list = @ \ {l}]
    /\ UNCHANGED <<unit, account, req, deaths, overlapped, unsettled, settledEnd>>

EndPasses(l) ==
    /\ l \in Rows
    /\ lease[l].end = "ahead"
    /\ lease' = [lease EXCEPT ![l] = [lease[l] EXCEPT !.end = "past"]]
    /\ settledEnd' = settledEnd \ {l}
    /\ UNCHANGED <<unit, account, req, job, deaths, overlapped, unsettled>>

(* The web process or the server dies between two statements. *)
RequestDies(r) ==
    /\ req[r] # Idle
    /\ deaths < MaxDeaths
    /\ deaths' = deaths + 1
    /\ unsettled' = IF req[r].pc \in {"occupy", "write"} /\ req[r].body # "renew"
                      THEN unsettled \cup {req[r].unit} ELSE unsettled
    /\ Done(r)
    /\ UNCHANGED <<unit, account, lease, job, overlapped, settledEnd>>

JobDies ==
    /\ job # NoJob
    /\ deaths < MaxDeaths
    /\ deaths' = deaths + 1
    /\ job' = NoJob
    /\ UNCHANGED <<unit, account, lease, req, overlapped, unsettled, settledEnd>>

--------------------------------------------------------------------------------
JobStep == JobRemind \/ JobRead \/ \E l \in LeaseIds : JobConvert(l)

RequestStep(r) ==
    \/ CreateTenant(r)
    \/ \E end \in NewEnds : ConvertLetCheck(r, end)
    \/ CreateLease(r)
    \/ OccupyUnit(r)
    \/ VacateUnit(r)
    \/ WriteLease(r)
    \/ RequestDies(r)

Next ==
    \/ \E r \in Requests : RequestStep(r)
    \/ \E r \in Requests, u \in Units, t \in Tenants, end \in NewEnds : PostLease(r, u, t, end)
    \/ \E r \in Requests, t \in Tenants : Convert(r, t)
    \/ \E r \in Requests, l \in LeaseIds, body \in PutBodies : PutLease(r, l, body)
    \/ \E u \in Units : AddUnit(u) \/ DeleteUnit(u)
    \/ \E u \in Units, s \in {"vacant", "occupied", "maintenance"} : PutUnit(u, s)
    \/ \E l \in LeaseIds : EndPasses(l)
    \/ JobStep
    \/ JobDies

(* The job is scheduled daily, for ever. *)
Spec == Init /\ [][Next]_vars /\ WF_vars(JobStep)

--------------------------------------------------------------------------------
(* A unit has two active leases only if two requests were past the check for   *)
(* it at the same time: the check alone is what stands between a unit and a    *)
(* second tenant.                                                              *)
SingleLet ==
    \A u \in Units : Cardinality(ActiveOn(u)) > 1 => u \in overlapped

(* When no request is at work on a unit and none of the known accidents has   *)
(* touched it (a status set by hand, a request that died half-way, a stale    *)
(* termination of an earlier lease, a lease ended while it was being made),    *)
(* its status says whether it is let.                                         *)
AtWork(u) == \E r \in Requests : req[r].unit = u /\ req[r].pc \in {"occupy", "write"}

OccupancyAgrees ==
    \A u \in Units \ (unsettled \cup overlapped) :
        ~AtWork(u) /\ unit[u] # "absent" => (unit[u] = "occupied" <=> ActiveOn(u) # {})

(* A renewal made while the job is not converting is never undone by the job  *)
(* before the new date: only the landlord's own change to month-to-month      *)
(* removes the end date.                                                      *)
RenewalKept ==
    [][\A l \in settledEnd :
          lease[l].end = "ahead" /\ lease'[l].end = "none"
            => \E r \in Requests : req[r].body = "monthly" /\ req[r].lease = l /\ req'[r] = Idle]_vars

(* An active fixed lease does not stay past its end: the job rolls it over,   *)
(* unless the landlord renews or ends it first.                               *)
ExpiryHandled == \A l \in LeaseIds : Overdue(l) ~> ~Overdue(l)
================================================================================
