----------------------------- MODULE RentLedger -----------------------------
(***************************************************************************)
(* The rent account of one lease: charges posted by the daily jobs, and    *)
(* payments credited to them oldest first by three writers that run in     *)
(* requests of their own: the Stripe webhook (one statement at a time, not *)
(* in a transaction), the recording of an offline payment and the refund   *)
(* (transactions, READ COMMITTED).  Each writes absolute values computed   *)
(* from what it read.  Stripe delivers its events in any order, and may    *)
(* repeat one; a handler that throws is not retried.                       *)
(***************************************************************************)
EXTENDS Integers, Sequences, FiniteSets, FiniteSetsExt

CONSTANTS
    Requests,     \* requests handled at once (bound)
    Payments,     \* Payment rows (bound)
    Amounts,      \* the amounts a tenant may pay
    Rent, Fee,    \* monthlyRent; the late fee, after its cap
    Months,       \* months posted (bound)
    Upsets,       \* which disturbances may happen: a subset of UpsetKinds
    MaxUpsets     \* how many kinds of them in one behaviour (bound)

UpsetKinds ==
    {"overlap",      \* a request started while another was in progress
     "refund_race",  \* one of them was a refund
     "duplicate",    \* an event was delivered again
     "regressed",    \* a late event overwrote a settled status
     "lost",         \* an event found no payment, or its handler threw
     "aborted",      \* a refund's transaction failed after Stripe's
     "over"}         \* a payment exceeded what was owed

ASSUME Money ==
    /\ {Rent, Fee} \subseteq Nat \ {0} /\ Amounts \subseteq Nat \ {0}
    /\ Months \in Nat /\ MaxUpsets \in Nat /\ Upsets \subseteq UpsetKinds

ASSUME RequestsFinite == IsFiniteSet(Requests)
ASSUME PaymentsFinite == IsFiniteSet(Payments)

VARIABLES
    ledger,   \* RentCharge rows of the lease by dueDate
    months,   \* months whose rent is posted
    unpaid,   \* months the running late-fee job still has to charge
    pay,      \* Payment rows
    intent,   \* Stripe's side of each payment
    events,   \* events Stripe has emitted
    seen,     \* and those it has delivered
    req,      \* the requests
    upset     \* disturbances so far

vars == <<ledger, months, unpaid, pay, intent, events, seen, req, upset>>

Idle   == [at |-> "idle", pay |-> "none", amount |-> 0, plan |-> << >>]
Unborn == [status |-> "none", amount |-> 0, id |-> FALSE]

Init ==
    /\ ledger = << >>
    /\ months = 0
    /\ unpaid = {}
    /\ pay = [p \in Payments |-> Unborn]
    /\ intent = [p \in Payments |-> "none"]
    /\ events = {}
    /\ seen = {}
    /\ req = [r \in Requests |-> Idle]
    /\ upset = {}

-----------------------------------------------------------------------------
(* What is paid, what is owed, and the plans of the three writers. *)

Charges == DOMAIN ledger
Open    == {i \in Charges : ledger[i].status \in {"unpaid", "partial"}}
Paid    == [i \in Charges |-> ledger[i].paid]
Owed    == [i \in Charges |-> ledger[i].amount - ledger[i].paid]
Total(f, S) == SumFunctionOnSet(f, S)
Least(a, b) == IF a < b THEN a ELSE b

With(i, paid) ==
    [ledger[i] EXCEPT !.paid = paid,
                      !.status = IF paid >= ledger[i].amount THEN "paid"
                                 ELSE IF paid <= 0 THEN "unpaid" ELSE "partial"]

\* Mutant: the newest open charge first.
Credit_NewestFirst(amount) ==
    LET left(i) == amount - Total(Owed, {j \in Open : j > i})
    IN  [i \in {j \in Open : left(j) > 0} |->
            With(i, Paid[i] + Least(left(i), Owed[i]))]

\* Oldest first: what each open charge becomes when amount is credited.
Credit(amount) ==
    LET left(i) == amount - Total(Owed, {j \in Open : j < i})
    IN  [i \in {j \in Open : left(j) > 0} |->
            With(i, Paid[i] + Least(left(i), Owed[i]))]

\* Mutant: the oldest paid charge first.
Reversal_OldestFirst(amount) ==
    LET left(i) == amount - Total(Paid, {j \in Charges : j < i})
    IN  [i \in {j \in Charges : Paid[j] > 0 /\ left(j) > 0} |->
            With(i, Paid[i] - Least(left(i), Paid[i]))]

\* Newest first: what each paid charge becomes when amount is taken back.
Reversal(amount) ==
    LET left(i) == amount - Total(Paid, {j \in Charges : j > i})
    IN  [i \in {j \in Charges : Paid[j] > 0 /\ left(j) > 0} |->
            With(i, Paid[i] - Least(left(i), Paid[i]))]

Written(plan) == [i \in Charges |-> IF i \in DOMAIN plan THEN plan[i] ELSE ledger[i]]

Excess(amount) == IF amount > Total(Owed, Open) THEN {"over"} ELSE {}

Busy == {r \in Requests : req[r].at # "idle"}
Refunding == {r \in Requests : req[r].at \in {"stripe", "reverse", "commit_refund"}}

Happens(kinds) ==
    /\ upset' = upset \union kinds
    /\ upset' \subseteq Upsets /\ Cardinality(upset') <= MaxUpsets

Once(kind) == kind \notin upset /\ Happens({kind})

\* A request starts next to those in progress.
Start(r, new, kinds) ==
    LET overlap == IF Busy = {} THEN {} ELSE {"overlap"}
        race    == IF Refunding # {} \/ (Busy # {} /\ new.at \in {"stripe", "reverse"})
                   THEN {"refund_race"} ELSE {}
    IN  /\ req[r].at = "idle"
        /\ Happens(overlap \union race \union kinds)
        /\ req' = [req EXCEPT ![r] = new]

End(r) == req' = [req EXCEPT ![r] = Idle]

-----------------------------------------------------------------------------
(* The daily jobs. *)

Charge(type, amount, month) ==
    [type |-> type, amount |-> amount, month |-> month, paid |-> 0, status |-> "unpaid"]

\* postRentCharges: at most one rent a month, whatever runs again.
PostRent ==
    /\ months < Months
    /\ months' = months + 1
    /\ ledger' = Append(ledger, Charge("rent", Rent, months'))
    /\ UNCHANGED <<unpaid, pay, intent, events, seen, req, upset>>

\* calculateLateFees: the rents found open and past their grace period...
FindOverdue ==
    /\ unpaid = {}
    /\ \E due \in SUBSET {ledger[i].month : i \in {j \in Open : ledger[j].type = "rent"}} :
           /\ due # {}
           /\ unpaid' = due
    /\ UNCHANGED <<ledger, months, pay, intent, events, seen, req, upset>>

\* ...are each charged a fee, once a month.
ChargeFee ==
    /\ \E m \in unpaid :
           /\ unpaid' = unpaid \ {m}
           /\ ledger' = IF \E i \in Charges : ledger[i].type = "late_fee" /\ ledger[i].month = m
                        THEN ledger
                        ELSE Append(ledger, Charge("late_fee", Fee, m))
    /\ UNCHANGED <<months, pay, intent, events, seen, req, upset>>

-----------------------------------------------------------------------------
(* create-intent (ACH), and Stripe. *)

CreatePayment(p) ==
    /\ pay[p].status = "none"
    /\ \A r \in Requests : req[r].pay # p
    /\ \E a \in Amounts : pay' = [pay EXCEPT ![p] = [status |-> "pending", amount |-> a, id |-> FALSE]]
    /\ UNCHANGED <<ledger, months, unpaid, intent, events, seen, req, upset>>

\* Stripe is asked for a confirmed PaymentIntent; it may not be configured.
CreateIntent(p) ==
    /\ pay[p].status = "pending" /\ intent[p] = "none"
    /\ \/ /\ intent' = [intent EXCEPT ![p] = "created"]
          /\ UNCHANGED pay
       \/ /\ intent' = [intent EXCEPT ![p] = "refused"]
          /\ pay' = [pay EXCEPT ![p].status = "failed"]
    /\ UNCHANGED <<ledger, months, unpaid, events, seen, req, upset>>

StoreId(p) ==
    /\ intent[p] \notin {"none", "refused"} /\ ~pay[p].id
    /\ pay' = [pay EXCEPT ![p].id = TRUE]
    /\ UNCHANGED <<ledger, months, unpaid, intent, events, seen, req, upset>>

Settle(p) ==
    /\ \E step \in {<<"created", "processing">>, <<"processing", "succeeded">>,
                    <<"processing", "failed">>} :
           /\ intent[p] = step[1]
           /\ intent' = [intent EXCEPT ![p] = step[2]]
           /\ events' = events \union {<<p, step[2]>>}
    /\ UNCHANGED <<ledger, months, unpaid, pay, seen, req, upset>>

-----------------------------------------------------------------------------
(* The Stripe webhook. *)

\* The event's payment is looked up by the id of its intent.
Deliver(r) ==
    \E e \in events :
        LET again == IF e \in seen THEN {"duplicate"} ELSE {}
        IN  /\ again \intersect upset = {}
            /\ seen' = seen \union {e}
            /\ IF pay[e[1]].id
               THEN Start(r, [Idle EXCEPT !.at = e[2], !.pay = e[1]], again)
               ELSE /\ req[r].at = "idle"
                    /\ Happens(again \union {"lost"})
                    /\ UNCHANGED req
            /\ UNCHANGED <<ledger, months, unpaid, pay, intent, events>>

\* Mutant: a payment in progress is credited already.
Mark_Applies(r) ==
    /\ req[r].at \in {"processing", "failed"}
    /\ pay' = [pay EXCEPT ![req[r].pay].status = req[r].at]
    /\ IF req[r].at = "processing" THEN req' = [req EXCEPT ![r].at = "read"] ELSE End(r)
    /\ UNCHANGED <<ledger, months, unpaid, intent, events, seen, upset>>

\* payment_intent.processing and payment_failed set the status.
Mark(r) ==
    LET p == req[r].pay IN
    /\ req[r].at \in {"processing", "failed"}
    /\ Happens(IF pay[p].status \in {"completed", "refunded"} THEN {"regressed"} ELSE {})
    /\ pay' = [pay EXCEPT ![p].status = req[r].at]
    /\ End(r)
    /\ UNCHANGED <<ledger, months, unpaid, intent, events, seen>>

\* payment_intent.succeeded: the status, ...
Complete(r) ==
    /\ req[r].at = "succeeded"
    /\ pay' = [pay EXCEPT ![req[r].pay].status = "completed"]
    /\ req' = [req EXCEPT ![r].at = "read"]
    /\ UNCHANGED <<ledger, months, unpaid, intent, events, seen, upset>>

\* ...the open charges, ...
ReadOpen(r) ==
    LET amount == pay[req[r].pay].amount IN
    /\ req[r].at = "read"
    /\ Happens(Excess(amount))
    /\ req' = [req EXCEPT ![r].at = "write", ![r].plan = Credit(amount)]
    /\ UNCHANGED <<ledger, months, unpaid, pay, intent, events, seen>>

\* Mutant: the amount paid is added to what the charge has by now.
WriteCharge_Adds(r) ==
    LET plan == req[r].plan IN
    /\ req[r].at = "write"
    /\ IF DOMAIN plan = {} THEN End(r) /\ UNCHANGED ledger
       ELSE LET i == Min(DOMAIN plan) IN
            /\ ledger' = [ledger EXCEPT ![i] = With(i, @.paid + plan[i].paid)]
            /\ req' = [req EXCEPT ![r].plan = [j \in DOMAIN plan \ {i} |-> plan[j]]]
    /\ UNCHANGED <<months, unpaid, pay, intent, events, seen, upset>>

\* ...and one update for each, oldest first.
WriteCharge(r) ==
    LET plan == req[r].plan IN
    /\ req[r].at = "write"
    /\ IF DOMAIN plan = {} THEN End(r) /\ UNCHANGED ledger
       ELSE LET i == Min(DOMAIN plan) IN
            /\ ledger' = [ledger EXCEPT ![i] = plan[i]]
            /\ req' = [req EXCEPT ![r].plan = [j \in DOMAIN plan \ {i} |-> plan[j]]]
    /\ UNCHANGED <<months, unpaid, pay, intent, events, seen, upset>>

\* A statement throws: Stripe is answered 200 all the same.
Throw(r) ==
    /\ req[r].at \in {"processing", "failed", "succeeded", "read", "write"}
    /\ Once("lost")
    /\ End(r)
    /\ UNCHANGED <<ledger, months, unpaid, pay, intent, events, seen>>

-----------------------------------------------------------------------------
(* Offline payments and refunds. *)

\* The transaction reads the open charges...
RecordOffline(r) ==
    /\ \E p \in Payments, a \in Amounts :
           /\ pay[p].status = "none" /\ \A s \in Requests : req[s].pay # p
           /\ Start(r, [at |-> "commit", pay |-> p, amount |-> a, plan |-> Credit(a)], Excess(a))
    /\ UNCHANGED <<ledger, months, unpaid, pay, intent, events, seen>>

\* ...and commits the payment and their new values.
CommitOffline(r) ==
    /\ req[r].at = "commit"
    /\ pay' = [pay EXCEPT ![req[r].pay] = [status |-> "completed", amount |-> req[r].amount, id |-> FALSE]]
    /\ ledger' = Written(req[r].plan)
    /\ End(r)
    /\ UNCHANGED <<months, unpaid, intent, events, seen, upset>>

\* Mutant: a payment that came from Stripe is taken back here only.
Refund_LedgerOnly(r) ==
    /\ \E p \in Payments :
           /\ pay[p].status = "completed"
           /\ Start(r, [Idle EXCEPT !.at = "reverse", !.pay = p], {})
    /\ UNCHANGED <<ledger, months, unpaid, pay, intent, events, seen>>

\* A completed payment is refunded, by Stripe first if it came from there.
Refund(r) ==
    /\ \E p \in Payments :
           /\ pay[p].status = "completed"
           /\ Start(r, [Idle EXCEPT !.at = IF pay[p].id THEN "stripe" ELSE "reverse", !.pay = p], {})
    /\ UNCHANGED <<ledger, months, unpaid, pay, intent, events, seen>>

\* Stripe refuses a second refund, and the request fails.
RefundAtStripe(r) ==
    LET p == req[r].pay IN
    /\ req[r].at = "stripe"
    /\ IF intent[p] = "succeeded"
       THEN /\ intent' = [intent EXCEPT ![p] = "refunded"]
            /\ req' = [req EXCEPT ![r].at = "reverse"]
       ELSE End(r) /\ UNCHANGED intent
    /\ UNCHANGED <<ledger, months, unpaid, pay, events, seen, upset>>

ReadPaid(r) ==
    /\ req[r].at = "reverse"
    /\ req' = [req EXCEPT ![r].at = "commit_refund",
                          ![r].plan = Reversal(pay[req[r].pay].amount)]
    /\ UNCHANGED <<ledger, months, unpaid, pay, intent, events, seen, upset>>

CommitRefund(r) ==
    /\ req[r].at = "commit_refund"
    /\ ledger' = Written(req[r].plan)
    /\ pay' = [pay EXCEPT ![req[r].pay].status = "refunded"]
    /\ End(r)
    /\ UNCHANGED <<months, unpaid, intent, events, seen, upset>>

\* The transaction fails: nothing of it is kept, but Stripe's refund is.
AbortRefund(r) ==
    /\ req[r].at \in {"reverse", "commit_refund"}
    /\ Once("aborted")
    /\ End(r)
    /\ UNCHANGED <<ledger, months, unpaid, pay, intent, events, seen>>

Next ==
    \/ PostRent \/ FindOverdue \/ ChargeFee
    \/ \E p \in Payments : CreatePayment(p) \/ CreateIntent(p) \/ StoreId(p) \/ Settle(p)
    \/ \E r \in Requests :
           \/ Deliver(r) \/ Mark(r) \/ Complete(r) \/ ReadOpen(r) \/ WriteCharge(r) \/ Throw(r)
           \/ RecordOffline(r) \/ CommitOffline(r)
           \/ Refund(r) \/ RefundAtStripe(r) \/ ReadPaid(r) \/ CommitRefund(r) \/ AbortRefund(r)

Spec == Init /\ [][Next]_vars

-----------------------------------------------------------------------------
Credited == Total(Paid, Charges)
Received == Total([p \in Payments |-> pay[p].amount],
                  {p \in Payments : pay[p].status = "completed"})
AtRest   == Busy = {}
Without(kinds) == upset \intersect kinds = {}

TypeOK ==
    /\ \A i \in Charges : ledger[i] \in [type : {"rent", "late_fee"}, amount : {Rent, Fee},
                                         month : 1 .. Months, paid : Int,
                                         status : {"unpaid", "partial", "paid"}]
    /\ months \in 0 .. Months /\ unpaid \subseteq 1 .. months
    /\ pay \in [Payments -> [status : {"none", "pending", "processing", "completed",
                                       "failed", "refunded"},
                             amount : Amounts \union {0}, id : BOOLEAN]]
    /\ seen \subseteq events /\ upset \subseteq Upsets
    /\ \A r \in Requests : DOMAIN req[r].plan \subseteq Charges

(* No charge is paid twice over or below nothing, its status says what was   *)
(* paid, and a month has one rent and one fee: through races, repeats and    *)
(* half-done handlers.                                                       *)
ChargeIsConsistent ==
    /\ \A i \in Charges :
           /\ 0 <= ledger[i].paid /\ ledger[i].paid <= ledger[i].amount
           /\ ledger[i].status = With(i, ledger[i].paid).status
    /\ \A i, j \in Charges :
           i # j => <<ledger[i].type, ledger[i].month>> # <<ledger[j].type, ledger[j].month>>

(* As long as requests do not overlap, a charge has money only if every      *)
(* older one is paid, also after refunds, repeats and half-done handlers.    *)
OldestFirst ==
    Without({"overlap"}) =>
        \A i, j \in Charges : i < j /\ ledger[j].paid > 0 => ledger[i].status = "paid"

(* Races of payments can lose a credit but never invent one: what the        *)
(* charges say was paid never exceeds what completed payments brought in.    *)
(* Without any disturbance the two are equal whenever no request runs.       *)
Conserved ==
    /\ Without({"duplicate", "regressed", "refund_race"}) => Credited <= Received
    /\ AtRest /\ upset = {} => Credited = Received

(* A payment is marked refunded exactly when Stripe has refunded it.         *)
RefundMatches ==
    AtRest /\ Without({"aborted", "duplicate", "regressed"}) =>
        \A p \in Payments : pay[p].id => (intent[p] = "refunded" <=> pay[p].status = "refunded")
=============================================================================
