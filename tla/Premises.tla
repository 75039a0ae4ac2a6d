------------------------------ MODULE Premises ------------------------------
(***************************************************************************)
(* What a property is reached and visited by: its phone number, bought     *)
(* from the carrier, and the tours booked on it, from the website and by   *)
(* call or text.  A request is a chain of single statements and carrier    *)
(* calls; other requests come in between, and the landlord may delete the  *)
(* property under all of them.                                             *)
(***************************************************************************)
EXTENDS Naturals, FiniteSets

CONSTANTS
    Requests,     \* requests handled at once (bound)
    Properties, Numbers, Times, None,
    Bookings,     \* TourBooking rows (bound)
    Casts,        \* who meets in one behaviour (bound): sets of "number", "tour"
    MaxUpsets     \* requests that die and carrier calls that fail (bound)

(* What a model gives the constants. *)
UpsetBudget == MaxUpsets \in Nat /\ Casts \subseteq SUBSET {"number", "tour"}

(* A number stands for its purchase: the carrier sells it once, because a    *)
(* second purchase would have another sid.                                   *)
VARIABLES
    property,  \* the Property rows: deleted, active, number and its sid
    carrier,   \* each number as the carrier has it
    booking,   \* the TourBooking rows
    req,       \* the requests
    upsets,    \* deaths and failures so far
    stray,     \* numbers a known accident left between the two
    cast,      \* who meets in this behaviour
    double     \* times booked while somebody else was past the check, or revived

vars == <<property, carrier, booking, req, upsets, stray, double, cast>>

Absent == [there |-> FALSE, active |-> FALSE, number |-> None, sid |-> "none"]
Fresh  == [Absent EXCEPT !.there = TRUE]
Idle   == [at |-> "idle", of |-> None, number |-> None, sid |-> "none", time |-> None,
           booking |-> None]
NoBooking == [of |-> None, time |-> None, status |-> "none"]

(* A sid from the carrier, or the one the onboarding page makes up.          *)
Sids == {"none", "bought", "made up"}
(* "done" is completed or no_show, which no code tells apart.                *)
BookingStatuses == {"confirmed", "done", "canceled"}

TypeOK ==
    /\ property \in [Properties -> [there : BOOLEAN, active : BOOLEAN,
                                    number : Numbers \cup {None}, sid : Sids]]
    /\ carrier \in [Numbers -> {"free", "owned", "released"}]
    /\ booking \in [Bookings -> {NoBooking} \cup
                       [of : Properties, time : Times, status : BookingStatuses]]
    /\ req \in [Requests ->
           [at : {"idle", "buy", "assign", "remove", "clear", "delete", "check", "book", "cancel"},
            of : Properties \cup {None}, number : Numbers \cup {None}, sid : Sids,
            time : Times \cup {None}, booking : Bookings \cup {None}]]
    /\ upsets \in 0..MaxUpsets
    /\ cast \in Casts /\ stray \in SUBSET Numbers /\ double \in SUBSET (Properties \X Times)

Init ==
    /\ property = [p \in Properties |-> Fresh]
    /\ carrier = [n \in Numbers |-> "free"]
    /\ booking = [b \in Bookings |-> NoBooking]
    /\ req = [r \in Requests |-> Idle]
    /\ upsets = 0
    /\ stray = {}
    /\ double = {}
    /\ cast \in Casts

-----------------------------------------------------------------------------
To(r, record) == req' = [req EXCEPT ![r] = record]
End(r) == To(r, Idle)

Bought(p) == IF property[p].sid = "bought" THEN {property[p].number} ELSE {}
Mine(r) == IF req[r].sid = "bought" THEN {req[r].number} ELSE {}
Standing(p, t) ==
    {b \in Bookings : booking[b].of = p /\ booking[b].time = t /\ booking[b].status # "canceled"}

-----------------------------------------------------------------------------
(* POST /api/properties/[id]/phone.  The property page lets the carrier sell  *)
(* the number; the onboarding page sends a sid it made up, and none is sold.  *)

Provision(r, p, n) ==
    /\ req[r] = Idle
    /\ property[p].there /\ property[p].number = None
    /\ \/ To(r, [Idle EXCEPT !.at = "buy", !.of = p, !.number = n])
       \/ To(r, [Idle EXCEPT !.at = "assign", !.of = p, !.number = n, !.sid = "made up"])
    /\ UNCHANGED <<property, carrier, booking, upsets, stray, double>>

(* The carrier sells a number once; it may refuse, and the request ends.      *)
Buy(r) ==
    LET n == req[r].number IN
    /\ req[r].at = "buy"
    /\ \/ /\ carrier[n] = "free"
          /\ carrier' = [carrier EXCEPT ![n] = "owned"]
          /\ To(r, [req[r] EXCEPT !.at = "assign", !.sid = "bought"])
       \/ /\ End(r)
          /\ UNCHANGED carrier
    /\ UNCHANGED <<property, booking, upsets, stray, double>>

(* The row is updated by id: a deleted property, or a number that another     *)
(* property has, makes it throw, and a number of its own is overwritten.      *)
Assign(r) ==
    LET p == req[r].of
        n == req[r].number
    IN  /\ req[r].at = "assign"
        /\ IF property[p].there /\ \A q \in Properties \ {p} : property[q].number # n
           THEN /\ property' = [property EXCEPT ![p] =
                       [there |-> TRUE, active |-> TRUE, number |-> n, sid |-> req[r].sid]]
                /\ stray' = (stray \cup Bought(p)) \ Mine(r)
           ELSE /\ stray' = stray \cup Mine(r)
                /\ UNCHANGED property
        /\ End(r)
        /\ UNCHANGED <<carrier, booking, upsets, double>>

-----------------------------------------------------------------------------
(* DELETE: the carrier is told, whatever it answers, then the row is cleared  *)
(* by id.  A sid that was made up is unknown there.                           *)

Release(r, p) ==
    /\ req[r] = Idle
    /\ property[p].there /\ property[p].number # None
    /\ To(r, [Idle EXCEPT !.at = "remove", !.of = p, !.number = property[p].number,
                          !.sid = property[p].sid])
    /\ UNCHANGED <<property, carrier, booking, upsets, stray, double>>

\* Mutant: the carrier is not told.
Remove_Skipped(r) ==
    /\ req[r].at = "remove"
    /\ To(r, [req[r] EXCEPT !.at = "clear"])
    /\ UNCHANGED <<property, carrier, booking, upsets, stray, double>>

Remove(r) ==
    LET n == req[r].number IN
    /\ req[r].at = "remove"
    /\ To(r, [req[r] EXCEPT !.at = "clear"])
    /\ \/ /\ carrier' = IF req[r].sid = "bought" THEN [carrier EXCEPT ![n] = "released"]
                        ELSE carrier
          /\ UNCHANGED <<stray, upsets>>
       \/ /\ req[r].sid = "bought" /\ carrier[n] = "owned"
          /\ upsets < MaxUpsets /\ upsets' = upsets + 1
          /\ stray' = stray \cup {n}
          /\ UNCHANGED carrier
    /\ UNCHANGED <<property, booking, double>>

Clear(r) ==
    LET p == req[r].of IN
    /\ req[r].at = "clear"
    /\ IF property[p].there
       THEN /\ property' = [property EXCEPT ![p] = Fresh]
            /\ stray' = stray \cup (Bought(p) \ Mine(r))
       ELSE UNCHANGED <<property, stray>>
    /\ End(r)
    /\ UNCHANGED <<carrier, booking, upsets, double>>

-----------------------------------------------------------------------------
(* The property itself: PUT sets isActive as it is told; DELETE looks for     *)
(* applications in progress, and the last of its statements takes the row     *)
(* and its bookings, unless another row still refers to it.  The number       *)
(* stays.                                                                     *)

SetActive(p) ==
    /\ property[p].there
    /\ \E active \in BOOLEAN : property' = [property EXCEPT ![p].active = active]
    /\ UNCHANGED <<carrier, booking, req, upsets, stray, double>>

AskDelete(r, p) ==
    /\ req[r] = Idle
    /\ property[p].there
    /\ To(r, [Idle EXCEPT !.at = "delete", !.of = p])
    /\ UNCHANGED <<property, carrier, booking, upsets, stray, double>>

Delete(r) ==
    LET p == req[r].of IN
    /\ req[r].at = "delete"
    /\ \/ /\ property' = [property EXCEPT ![p] = Absent]
          /\ booking' = [b \in Bookings |-> IF booking[b].of = p THEN NoBooking ELSE booking[b]]
          /\ stray' = stray \cup Bought(p)
       \/ UNCHANGED <<property, booking, stray>>
    /\ End(r)
    /\ UNCHANGED <<carrier, upsets, double>>

-----------------------------------------------------------------------------
(* Tours.  The website asks for an active property, a call or a text began by  *)
(* finding one.  Both then look for a standing booking of that very time and  *)
(* insert theirs.                                                             *)

BookTour(r, p, t) ==
    /\ req[r] = Idle
    /\ property[p].active
    /\ To(r, [Idle EXCEPT !.at = "check", !.of = p, !.time = t])
    /\ UNCHANGED <<property, carrier, booking, upsets, stray, double>>

\* Mutant: only a confirmed tour takes the time.
FindConflict_Confirmed(r) ==
    LET p == req[r].of
        t == req[r].time
    IN  /\ req[r].at = "check"
        /\ IF \E b \in Standing(p, t) : booking[b].status = "confirmed"
           THEN End(r) /\ UNCHANGED double
           ELSE /\ To(r, [req[r] EXCEPT !.at = "book"])
                /\ double' = IF \E s \in Requests : req[s].at = "book" /\ req[s].of = p /\ req[s].time = t
                             THEN double \cup {<<p, t>>} ELSE double
        /\ UNCHANGED <<property, carrier, booking, upsets, stray>>

FindConflict(r) ==
    LET p == req[r].of
        t == req[r].time
    IN  /\ req[r].at = "check"
        /\ IF Standing(p, t) # {}
           THEN End(r) /\ UNCHANGED double
           ELSE /\ To(r, [req[r] EXCEPT !.at = "book"])
                /\ double' = IF \E s \in Requests : req[s].at = "book" /\ req[s].of = p /\ req[s].time = t
                             THEN double \cup {<<p, t>>} ELSE double
        /\ UNCHANGED <<property, carrier, booking, upsets, stray>>

CreateBooking(r) ==
    /\ req[r].at = "book"
    /\ \/ /\ property[req[r].of].there
          /\ \E b \in Bookings :
                 /\ booking[b] = NoBooking
                 /\ booking' = [booking EXCEPT ![b] =
                        [of |-> req[r].of, time |-> req[r].time, status |-> "confirmed"]]
       \/ /\ ~property[req[r].of].there
          /\ UNCHANGED booking
    /\ End(r)
    /\ UNCHANGED <<property, carrier, upsets, stray, double>>

(* The visitor cancels what was not canceled when it was looked up.           *)
AskCancel(r, b) ==
    /\ req[r] = Idle
    /\ booking[b].status \in BookingStatuses \ {"canceled"}
    /\ To(r, [Idle EXCEPT !.at = "cancel", !.booking = b])
    /\ UNCHANGED <<property, carrier, booking, upsets, stray, double>>

CancelBooking(r) ==
    LET b == req[r].booking IN
    /\ req[r].at = "cancel"
    /\ booking' = IF booking[b] = NoBooking THEN booking
                  ELSE [booking EXCEPT ![b].status = "canceled"]
    /\ End(r)
    /\ UNCHANGED <<property, carrier, upsets, stray, double>>

(* The landlord sets any status, also on a canceled booking whose time has    *)
(* been taken since.                                                          *)
SetBooking(b, status) ==
    LET p == booking[b].of
        t == booking[b].time
    IN  /\ booking[b] # NoBooking
        /\ booking' = [booking EXCEPT ![b].status = status]
        /\ double' = IF booking[b].status = "canceled" /\ status # "canceled"
                        /\ (Standing(p, t) # {} \/ \E s \in Requests :
                                req[s].at = "book" /\ req[s].of = p /\ req[s].time = t)
                     THEN double \cup {<<p, t>>} ELSE double
        /\ UNCHANGED <<property, carrier, req, upsets, stray>>

RequestDies(r) ==
    /\ req[r] # Idle
    /\ upsets < MaxUpsets /\ upsets' = upsets + 1
    /\ stray' = IF req[r].at \in {"assign", "clear"} THEN stray \cup Mine(r) ELSE stray
    /\ End(r)
    /\ UNCHANGED <<property, carrier, booking, double>>

-----------------------------------------------------------------------------
Step ==
    \/ \E r \in Requests :
           \/ Buy(r) \/ Assign(r) \/ Remove(r) \/ Clear(r) \/ Delete(r)
           \/ FindConflict(r) \/ CreateBooking(r) \/ CancelBooking(r) \/ RequestDies(r)
    \/ \E r \in Requests, p \in Properties : AskDelete(r, p)
    \/ \E p \in Properties : SetActive(p)
    \/ /\ "number" \in cast
       /\ \E r \in Requests, p \in Properties :
              Release(r, p) \/ \E n \in Numbers : Provision(r, p, n)
    \/ /\ "tour" \in cast
       /\ \/ \E r \in Requests, p \in Properties, t \in Times : BookTour(r, p, t)
          \/ \E r \in Requests, b \in Bookings : AskCancel(r, b)
          \/ \E b \in Bookings, s \in BookingStatuses : SetBooking(b, s)

Next == Step /\ UNCHANGED cast

Spec == Init /\ [][Next]_vars

-----------------------------------------------------------------------------
(* What the carrier bills and what the properties have are the same numbers,  *)
(* but for those a request is about to assign or to clear: unless one of the  *)
(* accidents left a number between the two (a property deleted with it or     *)
(* under its purchase, a number overwritten, refused by the row or cleared in *)
(* place of another, a release the carrier failed, a death in between).       *)
NumbersHeld ==
    \A n \in Numbers \ stray :
        (\E r \in Requests : req[r].at \in {"assign", "clear"} /\ n \in Mine(r))
        \/ (carrier[n] = "owned" <=> \E p \in Properties : n \in Bought(p))

(* A property has two tours at one time only if two requests were past the    *)
(* check together, or the landlord revived a canceled tour.                   *)
BookedOnce ==
    \A p \in Properties, t \in Times :
        Cardinality(Standing(p, t)) > 1 => <<p, t>> \in double
=============================================================================
