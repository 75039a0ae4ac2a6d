---------------------------- MODULE Subscription ----------------------------
(***************************************************************************)
(* A landlord's subscription to the platform: the row the dashboard keeps, *)
(* Stripe's subscription, the events that are to keep the two together,    *)
(* and the limit on properties that the row's plan sets.  A request is a   *)
(* chain of Stripe calls and single statements; other requests and events  *)
(* come in between.  Whatever a webhook handler does, Stripe is answered   *)
(* 200 and does not repeat the event.                                      *)
(*                                                                         *)
(* An event's handler is one step: the row it looks up is never deleted    *)
(* and what it writes comes from the event alone.  An administrator's      *)
(* limit in place of the plan's is left out: nothing else writes it.       *)
(***************************************************************************)
EXTENDS Integers, Sequences, FiniteSets, SequencesExt

CONSTANTS
    Requests,       \* requests handled at once (bound)
    Ids,            \* Stripe subscriptions ever made (bound)
    Limit,          \* maxProperties of each plan
    None,
    MaxProperties,  \* properties the landlord ever has (bound)
    MaxEvents,      \* events Stripe sends (bound)
    Upsets,         \* which disturbances may happen: a subset of UpsetKinds
    MaxUpsets       \* how many kinds of them in one behaviour (bound)

UpsetKinds ==
    {"reordered",   \* an event overtook an earlier one
     "lost",        \* an event found no row yet, or its handler threw
     "admin",       \* an administrator set the status
     "died",        \* a request died between Stripe and the row
     "crossed",     \* two changes of plan overlapped
     "crowded",     \* two additions were past the limit's check together
     "shrunk"}      \* the plan came to allow less than there was

Plans == DOMAIN Limit

(* What a model gives the constants. *)
Sizes ==
    /\ Limit \in [Plans -> Nat] /\ Upsets \subseteq UpsetKinds
    /\ {MaxProperties, MaxEvents, MaxUpsets} \subseteq Nat

VARIABLES
    row,      \* the Subscription row
    stripe,   \* Stripe's subscriptions
    queue,    \* events not yet delivered, in the order they were sent
    sent,     \* how many Stripe has sent
    count,    \* the landlord's properties
    req,      \* the requests
    stray,    \* subscriptions of Stripe's that no row came to hold
    upset     \* disturbances so far

vars == <<row, stripe, queue, sent, count, req, stray, upset>>

NoRow  == [status |-> "none", id |-> None, plan |-> None]
Unborn == [status |-> "none", ending |-> FALSE, plan |-> None]
Idle   == [at |-> "idle", id |-> None, plan |-> None, limit |-> 0]

Statuses == {"trialing", "active", "past_due", "canceled"}

TypeOK ==
    /\ row \in {NoRow} \cup [status : Statuses \cup {"suspended"},
                             id : Ids \cup {None}, plan : Plans]
    /\ stripe \in [Ids -> {Unborn} \cup
                      [status : Statuses, ending : BOOLEAN, plan : Plans]]
    /\ queue \in Seq([id : Ids, status : Statuses]) /\ Len(queue) <= sent
    /\ sent \in 0..MaxEvents /\ count \in 0..MaxProperties
    /\ req \in [Requests -> [at : {"idle", "customer", "row", "price", "plan", "cancel",
                                   "mark", "count", "add"},
                             id : Ids \cup {None}, plan : Plans \cup {None},
                             limit : Nat]]
    /\ stray \in SUBSET Ids /\ upset \in SUBSET Upsets

Init ==
    /\ row = NoRow
    /\ stripe = [i \in Ids |-> Unborn]
    /\ queue = << >> /\ sent = 0
    /\ count = 0
    /\ req = [r \in Requests |-> Idle]
    /\ stray = {}
    /\ upset = {}

-----------------------------------------------------------------------------
Busy == {r \in Requests : req[r].at # "idle"}
At(places) == {r \in Requests : req[r].at \in places}

Happens(kinds) ==
    /\ upset' = upset \cup kinds
    /\ upset' \subseteq Upsets /\ Cardinality(upset') <= MaxUpsets

To(r, record) == req' = [req EXCEPT ![r] = record]
End(r) == To(r, Idle)

\* customer.subscription.updated, or .deleted when the status is "canceled".
Send(id, status) ==
    /\ sent < MaxEvents
    /\ sent' = sent + 1
    /\ queue' = Append(queue, [id |-> id, status |-> status])

(* A plan comes to hold: additions past the check are still to come.         *)
Shrinks(plan) == IF count + Cardinality(At({"add"})) > Limit[plan] THEN {"shrunk"} ELSE {}

-----------------------------------------------------------------------------
(* POST /api/billing/subscription: none exists yet; then customer, price and  *)
(* subscription are made at Stripe, and the row.  Without a key for Stripe    *)
(* the row has no subscription there; a Stripe call that throws ends it all.  *)

Subscribe(r, p) ==
    /\ req[r] = Idle
    /\ row = NoRow
    /\ To(r, [Idle EXCEPT !.at = "customer", !.plan = p])
    /\ UNCHANGED <<row, stripe, queue, sent, count, stray, upset>>

CreateAtStripe(r) ==
    /\ req[r].at = "customer"
    /\ \/ \E i \in Ids :
              /\ stripe[i] = Unborn
              /\ stripe' = [stripe EXCEPT ![i] =
                     [status |-> "trialing", ending |-> FALSE, plan |-> req[r].plan]]
              /\ To(r, [req[r] EXCEPT !.at = "row", !.id = i])
       \/ /\ To(r, [req[r] EXCEPT !.at = "row"])
          /\ UNCHANGED stripe
       \/ /\ End(r)
          /\ UNCHANGED stripe
    /\ UNCHANGED <<row, queue, sent, count, stray, upset>>

\* Mutant: the row of the request that came first is replaced.
CreateRow_Upsert(r) ==
    /\ req[r].at = "row"
    /\ row' = [status |-> "trialing", id |-> req[r].id, plan |-> req[r].plan]
    /\ Happens(Shrinks(req[r].plan))
    /\ End(r)
    /\ UNCHANGED <<stripe, queue, sent, count, stray>>

\* A landlord has one row: the second of two requests fails here.
CreateRow(r) ==
    /\ req[r].at = "row"
    /\ IF row = NoRow
       THEN /\ row' = [status |-> "trialing", id |-> req[r].id, plan |-> req[r].plan]
            /\ Happens(Shrinks(req[r].plan))
            /\ UNCHANGED stray
       ELSE /\ stray' = stray \cup ({req[r].id} \ {None})
            /\ UNCHANGED <<row, upset>>
    /\ End(r)
    /\ UNCHANGED <<stripe, queue, sent, count>>

-----------------------------------------------------------------------------
(* PUT: Stripe's price, then the row's plan. *)

ChangePlan(r, p) ==
    /\ req[r] = Idle
    /\ row # NoRow
    /\ Happens(IF At({"price", "plan"}) = {} THEN {} ELSE {"crossed"})
    /\ To(r, [Idle EXCEPT !.at = IF row.id = None THEN "plan" ELSE "price",
                          !.id = row.id, !.plan = p])
    /\ UNCHANGED <<row, stripe, queue, sent, count, stray>>

\* Stripe refuses to change a subscription that has ended.
Reprice(r) ==
    LET i == req[r].id IN
    /\ req[r].at = "price"
    /\ IF stripe[i].status = "canceled"
       THEN End(r) /\ UNCHANGED <<stripe, queue, sent>>
       ELSE /\ stripe' = [stripe EXCEPT ![i].plan = req[r].plan]
            /\ Send(i, stripe[i].status)
            /\ To(r, [req[r] EXCEPT !.at = "plan"])
    /\ UNCHANGED <<row, count, stray, upset>>

WritePlan(r) ==
    /\ req[r].at = "plan"
    /\ row' = [row EXCEPT !.plan = req[r].plan]
    /\ Happens(Shrinks(req[r].plan))
    /\ End(r)
    /\ UNCHANGED <<stripe, queue, sent, count, stray>>

-----------------------------------------------------------------------------
(* DELETE: Stripe is told to end the subscription with its period, and the    *)
(* row is marked; PUT /api/admin/subscriptions/[id] marks the row alone.      *)

Cancel(r) ==
    /\ req[r] = Idle
    /\ row # NoRow
    /\ To(r, [Idle EXCEPT !.at = IF row.id = None THEN "mark" ELSE "cancel", !.id = row.id])
    /\ UNCHANGED <<row, stripe, queue, sent, count, stray, upset>>

CancelAtStripe(r) ==
    LET i == req[r].id IN
    /\ req[r].at = "cancel"
    /\ IF stripe[i].status = "canceled"
       THEN End(r) /\ UNCHANGED <<stripe, queue, sent>>
       ELSE /\ stripe' = [stripe EXCEPT ![i].ending = TRUE]
            /\ Send(i, stripe[i].status)
            /\ To(r, [req[r] EXCEPT !.at = "mark"])
    /\ UNCHANGED <<row, count, stray, upset>>

MarkCanceled(r) ==
    /\ req[r].at = "mark"
    /\ row' = [row EXCEPT !.status = "canceled"]
    /\ End(r)
    /\ UNCHANGED <<stripe, queue, sent, count, stray, upset>>

Administer(status) ==
    /\ row # NoRow
    /\ row' = [row EXCEPT !.status = status]
    /\ Happens({"admin"})
    /\ UNCHANGED <<stripe, queue, sent, count, req, stray>>

\* What Stripe has done stays done.
RequestDies(r) ==
    /\ req[r].at \in {"row", "plan", "mark"}
    /\ Happens({"died"})
    /\ stray' = IF req[r].at = "row" THEN stray \cup ({req[r].id} \ {None}) ELSE stray
    /\ End(r)
    /\ UNCHANGED <<row, stripe, queue, sent, count>>

-----------------------------------------------------------------------------
(* Stripe's own changes: the trial ends, a payment fails or succeeds, the     *)
(* period of an ending subscription is over, or Stripe gives up.              *)
Moves ==
    {<<"trialing", "active">>, <<"trialing", "past_due">>, <<"active", "past_due">>,
     <<"past_due", "active">>, <<"past_due", "canceled">>}

Move(i) ==
    /\ \/ \E m \in Moves :
              /\ stripe[i].status = m[1]
              /\ stripe' = [stripe EXCEPT ![i].status = m[2]]
              /\ Send(i, m[2])
       \/ /\ stripe[i].ending /\ stripe[i].status # "canceled"
          /\ stripe' = [stripe EXCEPT ![i].status = "canceled"]
          /\ Send(i, "canceled")
    /\ UNCHANGED <<row, count, req, stray, upset>>

Overtaking(n) == IF n = 1 THEN {} ELSE {"reordered"}

\* Mutant: a subscription in arrears is left as it is.
Deliver_NoArrears(n) ==
    LET e == queue[n] IN
    /\ queue' = RemoveAt(queue, n)
    /\ Happens(Overtaking(n))
    /\ row' = IF row.id = e.id /\ e.status # "past_due" THEN [row EXCEPT !.status = e.status] ELSE row
    /\ UNCHANGED <<stripe, sent, count, req, stray>>

(* handleSubscriptionUpdated and handleSubscriptionDeleted: the row with the  *)
(* subscription's id gets the event's status, whatever its own is.            *)
Deliver(n) ==
    LET e     == queue[n]
        early == \E r \in At({"row"}) : req[r].id = e.id
    IN  /\ queue' = RemoveAt(queue, n)
        /\ Happens(Overtaking(n) \cup IF early THEN {"lost"} ELSE {})
        /\ row' = IF row.id = e.id THEN [row EXCEPT !.status = e.status] ELSE row
        /\ UNCHANGED <<stripe, sent, count, req, stray>>

Throw(n) ==
    /\ queue' = RemoveAt(queue, n)
    /\ Happens(Overtaking(n) \cup {"lost"})
    /\ UNCHANGED <<row, stripe, sent, count, req, stray>>

-----------------------------------------------------------------------------
(* POST /api/properties: the plan's limit is read, then the properties are    *)
(* counted, then one is created.  A landlord without a row has no limit, and  *)
(* the row's status is not asked.                                             *)

AddProperty(r) ==
    /\ req[r] = Idle
    /\ count + Cardinality(At({"count", "add"})) < MaxProperties
    /\ To(r, [Idle EXCEPT !.at = IF row = NoRow THEN "add" ELSE "count",
                          !.limit = IF row = NoRow THEN MaxProperties ELSE Limit[row.plan]])
    /\ UNCHANGED <<row, stripe, queue, sent, count, stray, upset>>

\* Mutant: the limit is passed by one.
CountProperties_OffByOne(r) ==
    LET past == At({"add"}) IN
    /\ req[r].at = "count"
    /\ IF count > req[r].limit THEN End(r) /\ UNCHANGED upset
       ELSE /\ To(r, [req[r] EXCEPT !.at = "add"])
            /\ Happens(IF past # {} /\ count + Cardinality(past) >= Limit[row.plan] THEN {"crowded"} ELSE {})
    /\ UNCHANGED <<row, stripe, queue, sent, count, stray>>

CountProperties(r) ==
    LET past == At({"add"}) IN
    /\ req[r].at = "count"
    /\ IF count >= req[r].limit
       THEN End(r) /\ UNCHANGED upset
       ELSE /\ To(r, [req[r] EXCEPT !.at = "add"])
            /\ Happens((IF past # {} /\ count + Cardinality(past) >= Limit[row.plan]
                        THEN {"crowded"} ELSE {})
                       \cup (IF req[r].limit > Limit[row.plan] THEN {"shrunk"} ELSE {}))
    /\ UNCHANGED <<row, stripe, queue, sent, count, stray>>

CreateProperty(r) ==
    /\ req[r].at = "add"
    /\ count' = count + 1
    /\ End(r)
    /\ UNCHANGED <<row, stripe, queue, sent, stray, upset>>

DeleteProperty ==
    /\ count > 0
    /\ count' = count - 1
    /\ UNCHANGED <<row, stripe, queue, sent, req, stray, upset>>

-----------------------------------------------------------------------------
Next ==
    \/ \E r \in Requests :
           \/ CreateAtStripe(r) \/ CreateRow(r) \/ Reprice(r) \/ WritePlan(r)
           \/ Cancel(r) \/ CancelAtStripe(r) \/ MarkCanceled(r) \/ RequestDies(r)
           \/ AddProperty(r) \/ CountProperties(r) \/ CreateProperty(r)
    \/ \E r \in Requests, p \in Plans : Subscribe(r, p) \/ ChangePlan(r, p)
    \/ \E s \in {"active", "suspended", "past_due", "canceled"} : Administer(s)
    \/ \E i \in Ids : Move(i)
    \/ \E n \in DOMAIN queue : Deliver(n) \/ Throw(n)
    \/ DeleteProperty

Spec == Init /\ [][Next]_vars

-----------------------------------------------------------------------------
Without(kinds) == upset \cap kinds = {}

(* Once every request has ended and every event is delivered, the row says    *)
(* what Stripe says, or that the landlord has canceled a subscription that    *)
(* Stripe is about to end: unless an event was overtaken or lost, or an       *)
(* administrator had a hand in it.  The landlord pays for one subscription,   *)
(* the row's, at the price of the row's plan: unless two requests subscribed  *)
(* him, changes of plan crossed, or a request died half-way.  Events and      *)
(* requests write one row and know nothing of each other.                     *)
AgreesWithStripe ==
    /\ Busy = {} /\ queue = << >> /\ row.id # None
           /\ Without({"reordered", "lost", "admin"}) =>
           \/ row.status = stripe[row.id].status
           \/ row.status = "canceled" /\ stripe[row.id].ending
    /\ \A i \in Ids :
           stripe[i].status \notin {"none", "canceled"} =>
               row.id = i \/ i \in stray \/ \E r \in At({"row"}) : req[r].id = i
    /\ At({"price", "plan"}) = {} /\ row.id # None /\ Without({"crossed", "died"}) =>
           stripe[row.id].plan = row.plan

(* A landlord has no more properties than the plan allows, unless two         *)
(* additions passed the check together or the plan came after them.           *)
WithinPlan ==
    row # NoRow /\ Without({"crowded", "shrunk"}) => count <= Limit[row.plan]
=============================================================================
