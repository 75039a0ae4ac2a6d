-------------------------- MODULE Landlord_proofs ---------------------------
(***************************************************************************)
(* Theorems about the dashboard's parts, for every value of the constants. *)
(* A behaviour of the three together is one of each (PlaceAlone,           *)
(* PlanAlone, RentAlone), so a part is proved by itself.                   *)
(***************************************************************************)
EXTENDS Landlord, FiniteSetTheorems, SequenceTheorems, WellFoundedInduction, TLAPS

-----------------------------------------------------------------------------
(* The property's number and its tours (Premises). *)

\* What a number is bought for or is about to leave, and for whom.
Buying  == {r \in Requests : placeReq[r].at = "assign"}
Leaving == {r \in Requests : placeReq[r].at \in {"remove", "clear"}}

\* A property that is gone has no number, and no two have the same bought one.
NumberRows ==
    /\ \A p \in Properties : Place!Bought(p) \subseteq Numbers
    /\ \A p \in Properties : ~property[p].there => Place!Bought(p) = {}
    /\ \A p, q \in Properties : Place!Bought(p) \intersect Place!Bought(q) # {} => p = q
    /\ \A p \in Properties : \A n \in Place!Bought(p) : carrier[n] # "free"

\* A number bought and not yet assigned is nobody else's.
BoughtForOne ==
    \A r \in Buying : \A n \in Place!Mine(r) :
        /\ carrier[n] = "owned"
        /\ \A p \in Properties : n \notin Place!Bought(p)
        /\ \A s \in Requests \ {r} : n \notin Place!Mine(s)

\* A number on its way back is at most the property's it is taken from, and the
\* carrier has it back when only the row is left to clear.
ReleasedFromOne ==
    \A r \in Leaving : \A n \in Place!Mine(r) :
        /\ carrier[n] # "free"
        /\ \A p \in Properties : n \in Place!Bought(p) => p = placeReq[r].of
        /\ placeReq[r].at = "clear" /\ n \notin placeStray => carrier[n] = "released"

\* Requests under way name what they are about.
VisitRows ==
    \A r \in Requests :
        /\ Place!Mine(r) \subseteq Numbers
        /\ Place!Mine(r) # {} => r \in Buying \union Leaving
        /\ placeReq[r].at \in {"buy", "assign"} => placeReq[r].number \in Numbers
        /\ placeReq[r].at \in {"buy", "assign", "remove", "clear", "delete", "check", "book"} =>
              placeReq[r].of \in Properties
        /\ placeReq[r].at \in {"check", "book"} => placeReq[r].time \in Times
        /\ placeReq[r].at = "cancel" => placeReq[r].booking \in Bookings

\* A tour that stands at a time somebody else has, or is past the check for, is
\* counted among the doubles.
Past(p, t) == {r \in Requests : placeReq[r].at = "book" /\ placeReq[r].of = p /\ placeReq[r].time = t}
ToursCounted ==
    \A p \in Properties, t \in Times :
        /\ \A a, b \in Place!Standing(p, t) : a # b => <<p, t>> \in double
        /\ \A r, s \in Past(p, t) : r # s => <<p, t>> \in double
        /\ Past(p, t) # {} /\ Place!Standing(p, t) # {} => <<p, t>> \in double

\* What becomes of the requests, and of what they and the properties hold, when
\* one request or one property is written.
LEMMA VisitPut ==
    ASSUME Place!TypeOK, NEW r \in Requests, NEW new, Place!To(r, new)
    PROVE  /\ placeReq'[r] = new
           /\ \A s \in Requests \ {r} : placeReq'[s] = placeReq[s] /\ Place!Mine(s)' = Place!Mine(s)
           /\ Place!Mine(r)' = IF new.sid = "bought" THEN {new.number} ELSE {}
  <1>1. placeReq' = [placeReq EXCEPT ![r] = new] /\ r \in DOMAIN placeReq /\ DOMAIN placeReq = Requests
    BY DEF Place!TypeOK, Place!To
  <1>2. placeReq'[r] = new /\ \A s \in Requests \ {r} : placeReq'[s] = placeReq[s]
    BY <1>1
  <1> QED
    BY <1>2 DEF Place!Mine

LEMMA VisitEnd ==
    ASSUME Place!TypeOK, NEW r \in Requests, Place!End(r)
    PROVE  /\ placeReq'[r] = Place!Idle /\ placeReq'[r].at = "idle" /\ Place!Mine(r)' = {}
           /\ \A s \in Requests \ {r} : placeReq'[s] = placeReq[s] /\ Place!Mine(s)' = Place!Mine(s)
  <1>1. Place!To(r, Place!Idle)
    BY DEF Place!End
  <1>2. /\ placeReq'[r] = Place!Idle
        /\ \A s \in Requests \ {r} : placeReq'[s] = placeReq[s] /\ Place!Mine(s)' = Place!Mine(s)
        /\ Place!Mine(r)' = IF Place!Idle.sid = "bought" THEN {Place!Idle.number} ELSE {}
    BY <1>1, VisitPut
  <1> QED
    BY <1>2 DEF Place!Idle

LEMMA PropertyPut ==
    ASSUME Place!TypeOK, NEW p \in Properties, NEW new, property' = [property EXCEPT ![p] = new]
    PROVE  /\ property'[p] = new
           /\ Place!Bought(p)' = IF new.sid = "bought" THEN {new.number} ELSE {}
           /\ \A q \in Properties \ {p} :
                 property'[q] = property[q] /\ Place!Bought(q)' = Place!Bought(q)
  <1>1. p \in DOMAIN property /\ DOMAIN property = Properties
    BY DEF Place!TypeOK
  <1>2. property'[p] = new /\ \A q \in Properties \ {p} : property'[q] = property[q]
    BY <1>1
  <1> QED
    BY <1>2 DEF Place!Bought

LEMMA BoughtStays ==
    ASSUME property' = property, NEW p \in Properties PROVE Place!Bought(p)' = Place!Bought(p)
  BY DEF Place!Bought

-----------------------------------------------------------------------------
(* The parts about numbers. *)
NumberInv == NumberRows /\ BoughtForOne /\ ReleasedFromOne /\ Place!NumbersHeld

\* The inductive invariant.
PlaceInv == Place!TypeOK /\ VisitRows /\ NumberInv /\ ToursCounted

\* A request that ends, or takes up no number, and with it perhaps a number that
\* leaves a property: what it had is settled, or known to be placeStray.
LEMMA NumbersLeave ==
    ASSUME Place!TypeOK, VisitRows, NumberInv, carrier' = carrier, placeStray \subseteq placeStray',
           NEW r \in Requests, Place!Mine(r)' = {},
           \A s \in Requests \ {r} : placeReq'[s] = placeReq[s] /\ Place!Mine(s)' = Place!Mine(s),
           \A q \in Properties : /\ Place!Bought(q)' \subseteq Place!Bought(q)
                                 /\ ~property'[q].there => Place!Bought(q)' = {},
           \A m \in Numbers \ placeStray' :
               \/ m \in Place!Mine(r) /\ placeReq[r].at \in {"assign", "clear"}
               \/ \A q \in Properties : m \in Place!Bought(q) => m \in Place!Bought(q)',
           \A m \in Place!Mine(r) \ placeStray' : placeReq[r].at \in {"assign", "clear"} =>
               (carrier[m] = "owned" <=> \E q \in Properties : m \in Place!Bought(q)')
    PROVE  NumberInv'
  <1>2. NumberRows'
    BY DEF NumberInv, NumberRows
  <1>3. BoughtForOne'
    BY DEF NumberInv, BoughtForOne, Buying
  <1>4. ReleasedFromOne'
    BY DEF NumberInv, ReleasedFromOne, Leaving
  <1>5. Place!NumbersHeld'
    <2> SUFFICES ASSUME NEW m \in Numbers, m \notin placeStray',
                        \A s \in Requests : m \in Place!Mine(s)' => placeReq'[s].at \notin {"assign", "clear"}
                 PROVE  carrier'[m] = "owned" <=> \E q \in Properties : m \in Place!Bought(q)'
      BY DEF Place!NumbersHeld
    <2>1. CASE m \in Place!Mine(r) /\ placeReq[r].at \in {"assign", "clear"}
      BY <2>1
    <2>2. CASE ~(m \in Place!Mine(r) /\ placeReq[r].at \in {"assign", "clear"})
      <3>1. \A s \in Requests : m \in Place!Mine(s) => placeReq[s].at \notin {"assign", "clear"}
        BY <2>2
      <3>2. carrier[m] = "owned" <=> \E q \in Properties : m \in Place!Bought(q)
        BY <3>1 DEF NumberInv, Place!NumbersHeld
      <3> QED
        BY <2>2, <3>2
    <2> QED
      BY <2>1, <2>2
  <1> QED
    BY <1>2, <1>3, <1>4, <1>5 DEF NumberInv

\* A request that has no number on it, or only one it is about to give back.
LEMMA NumbersStay ==
    ASSUME Place!TypeOK, VisitRows, NumberInv, UNCHANGED <<property, carrier, placeStray>>,
           NEW r \in Requests, Place!Mine(r)' = {},
           Place!Mine(r) = {} \/ placeReq[r].at = "remove",
           \A s \in Requests \ {r} : placeReq'[s] = placeReq[s] /\ Place!Mine(s)' = Place!Mine(s)
    PROVE  NumberInv'
  <1>1. \A p \in Properties : Place!Bought(p)' = Place!Bought(p)
    BY BoughtStays
  <1>2. \A q \in Properties : /\ Place!Bought(q)' \subseteq Place!Bought(q)
                              /\ ~property'[q].there => Place!Bought(q)' = {}
    BY <1>1 DEF NumberInv, NumberRows
  <1>3. \A m \in Place!Mine(r) \ placeStray' : placeReq[r].at \in {"assign", "clear"} =>
            (carrier[m] = "owned" <=> \E q \in Properties : m \in Place!Bought(q)')
    OBVIOUS
  <1> QED
    BY <1>1, <1>2, <1>3, NumbersLeave

LEMMA NumbersBuy ==
    ASSUME Place!TypeOK, VisitRows, NumberInv, NEW r \in Requests, Place!Buy(r)
    PROVE  NumberInv'
  <1>0. Place!Mine(r) = {} /\ placeReq[r].at = "buy" /\ placeReq[r].number \in Numbers
    BY DEF VisitRows, Buying, Leaving, Place!Buy
  <1>1. CASE Place!End(r) /\ carrier' = carrier
    <2>1. Place!Mine(r)' = {}
          /\ \A s \in Requests \ {r} : placeReq'[s] = placeReq[s] /\ Place!Mine(s)' = Place!Mine(s)
      BY <1>1, VisitEnd
    <2> QED
      BY <1>0, <1>1, <2>1, NumbersStay DEF Place!Buy
  <1>2. CASE /\ carrier[placeReq[r].number] = "free"
             /\ carrier' = [carrier EXCEPT ![placeReq[r].number] = "owned"]
             /\ Place!To(r, [placeReq[r] EXCEPT !.at = "assign", !.sid = "bought"])
    <2>1. PICK n \in Numbers : n = placeReq[r].number
      BY <1>0
    <2>2. PICK new : new = [placeReq[r] EXCEPT !.at = "assign", !.sid = "bought"]
      OBVIOUS
    <2>3. new.at = "assign" /\ new.sid = "bought" /\ new.number = n
      BY <2>1, <2>2 DEF Place!TypeOK
    <2>4. /\ placeReq'[r] = new /\ Place!Mine(r)' = {n}
          /\ \A s \in Requests \ {r} : placeReq'[s] = placeReq[s] /\ Place!Mine(s)' = Place!Mine(s)
      BY <1>2, <2>2, <2>3, VisitPut
    <2>5. carrier'[n] = "owned" /\ \A m \in Numbers \ {n} : carrier'[m] = carrier[m]
      BY <1>2, <2>1 DEF Place!TypeOK
    <2>6. UNCHANGED <<property, placeStray>> /\ carrier[n] = "free"
      BY <1>2, <2>1 DEF Place!Buy
    <2>7. \A p \in Properties : Place!Bought(p)' = Place!Bought(p) /\ n \notin Place!Bought(p)
      BY <2>6, BoughtStays DEF NumberInv, NumberRows
    <2>8. \A s \in Requests : n \notin Place!Mine(s)
      BY <2>6 DEF NumberInv, BoughtForOne, ReleasedFromOne, VisitRows
    <2>9. NumberRows'
      BY <2>5, <2>6, <2>7 DEF NumberInv, NumberRows
    <2>10. BoughtForOne'
      BY <2>3, <2>4, <2>5, <2>7, <2>8 DEF NumberInv, BoughtForOne, Buying, VisitRows
    <2>11. ReleasedFromOne'
      BY <2>3, <2>4, <2>5, <2>6, <2>7, <2>8 DEF NumberInv, ReleasedFromOne, Leaving, VisitRows
    <2>12. Place!NumbersHeld'
      <3> SUFFICES ASSUME NEW m \in Numbers, m \notin placeStray,
                          \A s \in Requests : m \in Place!Mine(s)' => placeReq'[s].at \notin {"assign", "clear"}
                   PROVE  carrier'[m] = "owned" <=> \E p \in Properties : m \in Place!Bought(p)'
        BY <2>6 DEF Place!NumbersHeld
      <3>1. m # n
        BY <2>3, <2>4
      <3>2. \A s \in Requests : m \in Place!Mine(s) => placeReq[s].at \notin {"assign", "clear"}
        BY <1>0, <2>4
      <3>3. carrier[m] = "owned" <=> \E p \in Properties : m \in Place!Bought(p)
        BY <3>2 DEF NumberInv, Place!NumbersHeld
      <3> QED
        BY <3>1, <3>3, <2>5, <2>7
    <2> QED
      BY <2>9, <2>10, <2>11, <2>12 DEF NumberInv
  <1> QED
    BY <1>1, <1>2 DEF Place!Buy

LEMMA NumbersAssign ==
    ASSUME Place!TypeOK, VisitRows, NumberInv, NEW r \in Requests, Place!Assign(r)
    PROVE  NumberInv'
  <1>1. /\ placeReq[r].at = "assign" /\ r \in Buying /\ carrier' = carrier
        /\ Place!Mine(r)' = {}
        /\ \A s \in Requests \ {r} : placeReq'[s] = placeReq[s] /\ Place!Mine(s)' = Place!Mine(s)
    BY VisitEnd DEF Place!Assign, Buying
  <1>2. PICK p \in Properties : p = placeReq[r].of
    BY <1>1 DEF VisitRows
  <1>3. \A n \in Place!Mine(r) : /\ n \in Numbers /\ carrier[n] = "owned"
                                 /\ \A q \in Properties : n \notin Place!Bought(q)
                                 /\ \A s \in Requests \ {r} : n \notin Place!Mine(s)
    BY <1>1 DEF NumberInv, BoughtForOne, VisitRows
  <1>4. CASE UNCHANGED property /\ placeStray' = placeStray \union Place!Mine(r)
    <2>1. \A q \in Properties : Place!Bought(q)' = Place!Bought(q)
      BY <1>4, BoughtStays
    <2>2. \A q \in Properties : /\ Place!Bought(q)' \subseteq Place!Bought(q)
                                /\ ~property'[q].there => Place!Bought(q)' = {}
      BY <1>4, <2>1 DEF NumberInv, NumberRows
    <2> QED
      BY <1>1, <1>4, <2>1, <2>2, NumbersLeave
  <1>5. CASE /\ property' = [property EXCEPT ![placeReq[r].of] =
                    [there |-> TRUE, active |-> TRUE, number |-> placeReq[r].number,
                     sid |-> placeReq[r].sid]]
             /\ placeStray' = (placeStray \union Place!Bought(placeReq[r].of)) \ Place!Mine(r)
    <2>1. PICK held : held = [there |-> TRUE, active |-> TRUE, number |-> placeReq[r].number,
                            sid |-> placeReq[r].sid]
      OBVIOUS
    <2>2. /\ property'[p] = held
          /\ Place!Bought(p)' = IF held.sid = "bought" THEN {held.number} ELSE {}
          /\ \A q \in Properties \ {p} :
                property'[q] = property[q] /\ Place!Bought(q)' = Place!Bought(q)
      <3>1. property' = [property EXCEPT ![p] = held]
        BY <1>2, <1>5, <2>1
      <3> QED
        BY <3>1, PropertyPut
    <2>3. Place!Bought(p)' = Place!Mine(r) /\ property'[p].there
      BY <2>1, <2>2 DEF Place!Mine
    <2>4. placeStray' = (placeStray \union Place!Bought(p)) \ Place!Mine(r)
      BY <1>2, <1>5
    <2>5. NumberRows'
      BY <1>1, <1>3, <2>2, <2>3 DEF NumberInv, NumberRows
    <2>6. BoughtForOne'
      BY <1>1, <1>3, <2>2, <2>3 DEF NumberInv, BoughtForOne, Buying
    <2>7. ReleasedFromOne'
      BY <1>1, <1>3, <2>2, <2>3, <2>4 DEF NumberInv, ReleasedFromOne, Leaving
    <2>8. Place!NumbersHeld'
      <3> SUFFICES ASSUME NEW m \in Numbers, m \notin placeStray',
                          \A s \in Requests : m \in Place!Mine(s)' => placeReq'[s].at \notin {"assign", "clear"}
                   PROVE  carrier'[m] = "owned" <=> \E q \in Properties : m \in Place!Bought(q)'
        BY DEF Place!NumbersHeld
      <3>1. CASE m \in Place!Mine(r)
        <4>1. carrier'[m] = "owned" /\ m \in Place!Bought(p)'
          BY <1>1, <1>3, <2>3, <3>1
        <4> QED
          BY <4>1
      <3>2. CASE m \notin Place!Mine(r)
        <4>1. \A s \in Requests : m \in Place!Mine(s) => placeReq[s].at \notin {"assign", "clear"}
          BY <1>1, <3>2
        <4>2. m \notin placeStray /\ m \notin Place!Bought(p)
          BY <2>4, <3>2
        <4>3. carrier[m] = "owned" <=> \E q \in Properties : m \in Place!Bought(q)
          BY <4>1, <4>2 DEF NumberInv, Place!NumbersHeld
        <4> QED
          BY <1>1, <2>2, <2>3, <3>2, <4>2, <4>3
      <3> QED
        BY <3>1, <3>2
    <2> QED
      BY <2>5, <2>6, <2>7, <2>8 DEF NumberInv
  <1> QED
    BY <1>4, <1>5 DEF Place!Assign

LEMMA NumbersGiveBack ==
    ASSUME Place!TypeOK, VisitRows, NumberInv, NEW r \in Requests, NEW p \in Properties,
           Place!Release(r, p)
    PROVE  NumberInv'
  <1>1. PICK new : new = [Place!Idle EXCEPT !.at = "remove", !.of = p,
                          !.number = property[p].number, !.sid = property[p].sid]
    OBVIOUS
  <1>2. /\ placeReq'[r] = new
        /\ \A s \in Requests \ {r} : placeReq'[s] = placeReq[s] /\ Place!Mine(s)' = Place!Mine(s)
        /\ Place!Mine(r)' = IF new.sid = "bought" THEN {new.number} ELSE {}
    BY <1>1, VisitPut DEF Place!Release
  <1>3. /\ new.at = "remove" /\ new.of = p /\ Place!Mine(r)' = Place!Bought(p)
        /\ Place!Mine(r) = {} /\ placeReq[r].at = "idle"
        /\ UNCHANGED <<property, carrier, placeStray>>
    BY <1>1, <1>2 DEF Place!Idle, Place!Bought, Place!Mine, Place!Release
  <1>4. \A q \in Properties : Place!Bought(q)' = Place!Bought(q)
    BY <1>3, BoughtStays
  <1>5. NumberRows'
    BY <1>3, <1>4 DEF NumberInv, NumberRows
  <1>6. BoughtForOne'
    BY <1>2, <1>3, <1>4 DEF NumberInv, BoughtForOne, Buying
  <1>7. ReleasedFromOne'
    BY <1>2, <1>3, <1>4 DEF NumberInv, ReleasedFromOne, Leaving, NumberRows
  <1>8. Place!NumbersHeld'
    BY <1>2, <1>3, <1>4 DEF NumberInv, Place!NumbersHeld
  <1> QED
    BY <1>5, <1>6, <1>7, <1>8 DEF NumberInv

LEMMA NumbersRemove ==
    ASSUME Place!TypeOK, VisitRows, NumberInv, NEW r \in Requests, Place!Remove(r)
    PROVE  NumberInv'
  <1>1. PICK new : new = [placeReq[r] EXCEPT !.at = "clear"]
    OBVIOUS
  <1>2. /\ placeReq'[r] = new
        /\ \A s \in Requests \ {r} : placeReq'[s] = placeReq[s] /\ Place!Mine(s)' = Place!Mine(s)
        /\ Place!Mine(r)' = IF new.sid = "bought" THEN {new.number} ELSE {}
    BY <1>1, VisitPut DEF Place!Remove
  <1>3. /\ new.at = "clear" /\ new.of = placeReq[r].of /\ new.sid = placeReq[r].sid
        /\ new.number = placeReq[r].number
    BY <1>1 DEF Place!TypeOK
  <1>4. /\ Place!Mine(r)' = Place!Mine(r) /\ r \in Leaving /\ UNCHANGED property
        /\ placeReq[r].at = "remove"
    BY <1>2, <1>3 DEF Place!Mine, Place!Remove, Leaving
  <1>5. \A q \in Properties : Place!Bought(q)' = Place!Bought(q)
    BY <1>4, BoughtStays
  <1>6. /\ placeStray \subseteq placeStray'
        /\ \A m \in Numbers : m \notin Place!Mine(r) => carrier'[m] = carrier[m]
        /\ \A m \in Place!Mine(r) : m \in Numbers /\ carrier'[m] # "free"
                                    /\ (carrier'[m] = "released" \/ m \in placeStray')
    BY DEF Place!Remove, Place!Mine, Place!TypeOK, VisitRows
  <1>7. NumberRows'
    BY <1>4, <1>5, <1>6 DEF NumberInv, NumberRows
  <1>8. BoughtForOne'
    BY <1>2, <1>3, <1>4, <1>5, <1>6 DEF NumberInv, BoughtForOne, Buying, VisitRows
  <1>9. ReleasedFromOne'
    BY <1>2, <1>3, <1>4, <1>5, <1>6 DEF NumberInv, ReleasedFromOne, Leaving, VisitRows
  <1>10. Place!NumbersHeld'
    BY <1>2, <1>3, <1>4, <1>5, <1>6 DEF NumberInv, Place!NumbersHeld
  <1> QED
    BY <1>7, <1>8, <1>9, <1>10 DEF NumberInv

LEMMA NumbersClear ==
    ASSUME Place!TypeOK, VisitRows, NumberInv, NEW r \in Requests, Place!Clear(r)
    PROVE  NumberInv'
  <1>1. /\ placeReq[r].at = "clear" /\ r \in Leaving /\ carrier' = carrier
        /\ Place!Mine(r)' = {}
        /\ \A s \in Requests \ {r} : placeReq'[s] = placeReq[s] /\ Place!Mine(s)' = Place!Mine(s)
    BY VisitEnd DEF Place!Clear, Leaving
  <1>2. PICK p \in Properties : p = placeReq[r].of
    BY <1>1 DEF VisitRows
  <1>3. \A n \in Place!Mine(r) : /\ n \in Numbers
                                 /\ \A q \in Properties : n \in Place!Bought(q) => q = p
                                 /\ n \notin placeStray => carrier[n] = "released"
    BY <1>1, <1>2 DEF NumberInv, ReleasedFromOne, VisitRows
  <1>4. CASE ~property[p].there
    <2>1. UNCHANGED <<property, placeStray>>
      BY <1>2, <1>4 DEF Place!Clear
    <2>2. \A q \in Properties : Place!Bought(q)' = Place!Bought(q)
      BY <2>1, BoughtStays
    <2>3. \A q \in Properties : /\ Place!Bought(q)' \subseteq Place!Bought(q)
                                /\ ~property'[q].there => Place!Bought(q)' = {}
      BY <2>1, <2>2 DEF NumberInv, NumberRows
    <2>4. \A m \in Place!Mine(r) \ placeStray' : placeReq[r].at \in {"assign", "clear"} =>
            (carrier[m] = "owned" <=> \E q \in Properties : m \in Place!Bought(q)')
      BY <1>3, <1>4, <2>1, <2>2, <2>3
    <2> QED
      BY <1>1, <2>1, <2>2, <2>3, <2>4, NumbersLeave
  <1>5. CASE property[p].there
    <2>1. /\ property' = [property EXCEPT ![p] = Place!Fresh]
          /\ placeStray' = placeStray \union (Place!Bought(p) \ Place!Mine(r))
      BY <1>2, <1>5 DEF Place!Clear
    <2>2. /\ Place!Bought(p)' = {} /\ Place!Fresh.there
          /\ \A q \in Properties \ {p} :
                property'[q] = property[q] /\ Place!Bought(q)' = Place!Bought(q)
      <3>1. /\ Place!Bought(p)' = IF Place!Fresh.sid = "bought" THEN {Place!Fresh.number} ELSE {}
            /\ \A q \in Properties \ {p} :
                  property'[q] = property[q] /\ Place!Bought(q)' = Place!Bought(q)
        BY <2>1, PropertyPut
      <3> QED
        BY <3>1 DEF Place!Fresh, Place!Absent
    <2>3. \A q \in Properties : /\ Place!Bought(q)' \subseteq Place!Bought(q)
                                /\ ~property'[q].there => Place!Bought(q)' = {}
      BY <2>2 DEF NumberInv, NumberRows
    <2>4. \A m \in Place!Mine(r) \ placeStray' : placeReq[r].at \in {"assign", "clear"} =>
            (carrier[m] = "owned" <=> \E q \in Properties : m \in Place!Bought(q)')
      BY <1>3, <2>1, <2>2, <2>3
    <2>5. \A m \in Numbers \ placeStray' :
               \/ m \in Place!Mine(r) /\ placeReq[r].at \in {"assign", "clear"}
               \/ \A q \in Properties : m \in Place!Bought(q) => m \in Place!Bought(q)'
      BY <1>1, <2>1, <2>2
    <2> QED
      BY <1>1, <2>1, <2>3, <2>4, <2>5, NumbersLeave
  <1> QED
    BY <1>4, <1>5

LEMMA NumbersDelete ==
    ASSUME Place!TypeOK, VisitRows, NumberInv, NEW r \in Requests, Place!Delete(r)
    PROVE  NumberInv'
  <1>1. /\ placeReq[r].at = "delete" /\ Place!Mine(r) = {} /\ carrier' = carrier
        /\ Place!Mine(r)' = {}
        /\ \A s \in Requests \ {r} : placeReq'[s] = placeReq[s] /\ Place!Mine(s)' = Place!Mine(s)
    BY VisitEnd DEF Place!Delete, VisitRows, Buying, Leaving
  <1>2. PICK p \in Properties : p = placeReq[r].of
    BY <1>1 DEF VisitRows
  <1>3. CASE UNCHANGED <<property, placeStray>>
    BY <1>1, <1>3, NumbersStay
  <1>4. CASE /\ property' = [property EXCEPT ![p] = Place!Absent]
             /\ placeStray' = placeStray \union Place!Bought(p)
    <2>2. /\ Place!Bought(p)' = {}
          /\ \A q \in Properties \ {p} :
                property'[q] = property[q] /\ Place!Bought(q)' = Place!Bought(q)
      <3>1. /\ Place!Bought(p)' = IF Place!Absent.sid = "bought" THEN {Place!Absent.number} ELSE {}
            /\ \A q \in Properties \ {p} :
                  property'[q] = property[q] /\ Place!Bought(q)' = Place!Bought(q)
        BY <1>4, PropertyPut
      <3> QED
        BY <3>1 DEF Place!Absent
    <2>3. \A q \in Properties : /\ Place!Bought(q)' \subseteq Place!Bought(q)
                                /\ ~property'[q].there => Place!Bought(q)' = {}
      BY <2>2 DEF NumberInv, NumberRows
    <2>5. \A m \in Numbers \ placeStray' :
               \A q \in Properties : m \in Place!Bought(q) => m \in Place!Bought(q)'
      BY <1>4, <2>2
    <2> QED
      BY <1>1, <1>4, <2>3, <2>5, NumbersLeave
  <1> QED
    BY <1>2, <1>3, <1>4 DEF Place!Delete

LEMMA NumbersDie ==
    ASSUME Place!TypeOK, VisitRows, NumberInv, NEW r \in Requests, Place!RequestDies(r)
    PROVE  NumberInv'
  <1>1. /\ UNCHANGED <<property, carrier>> /\ Place!Mine(r)' = {} /\ placeStray \subseteq placeStray'
        /\ placeReq[r].at \in {"assign", "clear"} => Place!Mine(r) \subseteq placeStray'
        /\ \A s \in Requests \ {r} : placeReq'[s] = placeReq[s] /\ Place!Mine(s)' = Place!Mine(s)
    BY VisitEnd DEF Place!RequestDies
  <1>2. \A q \in Properties : Place!Bought(q)' = Place!Bought(q)
    BY <1>1, BoughtStays
  <1>3. \A q \in Properties : /\ Place!Bought(q)' \subseteq Place!Bought(q)
                              /\ ~property'[q].there => Place!Bought(q)' = {}
    BY <1>1, <1>2 DEF NumberInv, NumberRows
  <1> QED
    BY <1>1, <1>2, <1>3, NumbersLeave

\* Nothing of the numbers changes while every request and property keeps its own.
LEMMA NumbersUntouched ==
    ASSUME NumberInv, UNCHANGED <<placeReq, carrier, placeStray>>,
           \A q \in Properties : Place!Bought(q)' = Place!Bought(q)
                                 /\ property'[q].there = property[q].there
    PROVE  NumberInv'
  <1>1. \A s \in Requests : Place!Mine(s)' = Place!Mine(s)
    BY DEF Place!Mine
  <1>2. NumberRows' /\ BoughtForOne' /\ ReleasedFromOne'
    BY <1>1 DEF NumberInv, NumberRows, BoughtForOne, Buying, ReleasedFromOne, Leaving
  <1>3. Place!NumbersHeld'
    BY <1>1 DEF NumberInv, Place!NumbersHeld
  <1> QED
    BY <1>2, <1>3 DEF NumberInv

LEMMA NumbersActive ==
    ASSUME Place!TypeOK, NumberInv, NEW p \in Properties, Place!SetActive(p)
    PROVE  NumberInv'
  <1>1. PICK active \in BOOLEAN : property' = [property EXCEPT ![p].active = active]
    BY DEF Place!SetActive
  <1>2. PICK new : new = [property[p] EXCEPT !.active = active]
    OBVIOUS
  <1>3. /\ new.sid = property[p].sid /\ new.number = property[p].number
        /\ new.there = property[p].there
    BY <1>2 DEF Place!TypeOK
  <1>4. property' = [property EXCEPT ![p] = new]
    BY <1>1, <1>2
  <1>5. /\ property'[p] = new
        /\ Place!Bought(p)' = IF new.sid = "bought" THEN {new.number} ELSE {}
        /\ \A q \in Properties \ {p} :
              property'[q] = property[q] /\ Place!Bought(q)' = Place!Bought(q)
    BY <1>4, PropertyPut
  <1>6. \A q \in Properties : Place!Bought(q)' = Place!Bought(q)
                              /\ property'[q].there = property[q].there
    BY <1>3, <1>5 DEF Place!Bought
  <1> QED
    BY <1>6, NumbersUntouched DEF Place!SetActive

\* The other requests: they have no number on them, before and after.
LEMMA NumbersAside ==
    ASSUME Place!TypeOK, VisitRows, NumberInv, NEW r \in Requests,
           UNCHANGED <<property, carrier, placeStray>>,
           placeReq[r] = Place!Idle \/ placeReq[r].at \in {"check", "book", "cancel"},
           NEW new, Place!To(r, new), new.sid = placeReq[r].sid
    PROVE  NumberInv'
  <1>1. Place!Mine(r) = {} /\ placeReq[r].sid # "bought"
    BY DEF VisitRows, Buying, Leaving, Place!Idle, Place!Mine
  <1>2. Place!Mine(r)' = {}
        /\ \A s \in Requests \ {r} : placeReq'[s] = placeReq[s] /\ Place!Mine(s)' = Place!Mine(s)
    BY <1>1, VisitPut
  <1> QED
    BY <1>1, <1>2, NumbersStay

-----------------------------------------------------------------------------
(* The requests and the types. *)

VisitRecord ==
    [at : {"idle", "buy", "assign", "remove", "clear", "delete", "check", "book", "cancel"},
     of : Properties \union {None}, number : Numbers \union {None}, sid : Place!Sids,
     time : Times \union {None}, booking : Bookings \union {None}]
PropertyRecord ==
    [there : BOOLEAN, active : BOOLEAN, number : Numbers \union {None}, sid : Place!Sids]
TourRecord == {Place!NoBooking} \union
    [of : Properties, time : Times, status : Place!BookingStatuses]

\* What a request in hand has to name.
Named(v) ==
    /\ v.sid = "bought" => v.number \in Numbers /\ v.at \in {"assign", "remove", "clear"}
    /\ v.at \in {"buy", "assign"} => v.number \in Numbers
    /\ v.at \in {"buy", "assign", "remove", "clear", "delete", "check", "book"} =>
          v.of \in Properties
    /\ v.at \in {"check", "book"} => v.time \in Times
    /\ v.at = "cancel" => v.booking \in Bookings

LEMMA IdleNamed == Place!Idle \in VisitRecord /\ Named(Place!Idle)
  BY DEF Place!Idle, Named, VisitRecord, Place!Sids

LEMMA VisitRowsNamed ==
    VisitRows <=> \A r \in Requests : Named(placeReq[r])
  BY DEF VisitRows, Named, Place!Mine, Buying, Leaving

LEMMA RequestPut ==
    ASSUME Place!TypeOK, VisitRows, NEW r \in Requests, NEW new \in VisitRecord,
           Named(new), Place!To(r, new)
    PROVE  VisitRows' /\ placeReq' \in [Requests -> VisitRecord]
  <1>1. placeReq \in [Requests -> VisitRecord]
    BY DEF Place!TypeOK, VisitRecord
  <1>2. placeReq' = [placeReq EXCEPT ![r] = new]
    BY DEF Place!To
  <1>3. placeReq' \in [Requests -> VisitRecord]
    BY <1>1, <1>2
  <1>4. placeReq'[r] = new /\ \A s \in Requests \ {r} : placeReq'[s] = placeReq[s]
    BY <1>1, <1>2
  <1>5. \A s \in Requests : Named(placeReq[s])
    BY VisitRowsNamed
  <1>6. \A s \in Requests : Named(placeReq'[s])
    BY <1>4, <1>5
  <1>7. VisitRows'
    BY <1>6 DEF VisitRows, Named, Place!Mine, Buying, Leaving
  <1> QED
    BY <1>3, <1>7

LEMMA RequestEnds ==
    ASSUME Place!TypeOK, VisitRows, NEW r \in Requests, Place!End(r)
    PROVE  VisitRows' /\ placeReq' \in [Requests -> VisitRecord]
  BY IdleNamed, RequestPut DEF Place!End

\* One request writes itself and nothing of the rows; the rows keep their types.
LEMMA TypesKept ==
    ASSUME Place!TypeOK, placeReq' \in [Requests -> VisitRecord],
           property' \in [Properties -> PropertyRecord],
           carrier' \in [Numbers -> {"free", "owned", "released"}],
           booking' \in [Bookings -> TourRecord],
           placeUpsets' \in 0..MaxPlaceUpsets, placeStray' \subseteq Numbers,
           double' \subseteq Properties \X Times, cast' = cast
    PROVE  Place!TypeOK'
  BY DEF Place!TypeOK, VisitRecord, PropertyRecord, TourRecord

LEMMA Typed ==
    ASSUME Place!TypeOK
    PROVE  /\ placeReq \in [Requests -> VisitRecord]
           /\ property \in [Properties -> PropertyRecord]
           /\ carrier \in [Numbers -> {"free", "owned", "released"}]
           /\ booking \in [Bookings -> TourRecord]
           /\ placeUpsets \in 0..MaxPlaceUpsets /\ placeStray \subseteq Numbers
           /\ double \subseteq Properties \X Times
  BY DEF Place!TypeOK, VisitRecord, PropertyRecord, TourRecord

\* What a property has bought is a number, and so is what a request has.
LEMMA HeldNumbers ==
    ASSUME VisitRows, NumberInv
    PROVE  /\ \A p \in Properties : Place!Bought(p) \subseteq Numbers
           /\ \A r \in Requests : Place!Mine(r) \subseteq Numbers
  BY DEF VisitRows, NumberInv, NumberRows

\* Two conjuncts, one per action of the request or the landlord.
LEMMA RowsKept ==
    ASSUME MaxPlaceUpsets \in Nat, Place!TypeOK, VisitRows, NumberInv, [Place!Next]_(Place!vars)
    PROVE  Place!TypeOK' /\ VisitRows'
  <1> USE Typed, HeldNumbers
  <1>1. CASE UNCHANGED Place!vars
    BY <1>1 DEF Place!vars, Place!TypeOK, VisitRows, Buying, Leaving, Place!Mine
  <1>2. ASSUME Place!Next, NEW r \in Requests, Place!Buy(r) PROVE Place!TypeOK' /\ VisitRows'
    <2>1. placeReq[r].number \in Numbers /\ placeReq[r].of \in Properties
      BY <1>2 DEF Place!Buy, VisitRows
    <2>2. CASE Place!End(r) /\ carrier' = carrier
      BY <1>2, <2>2, RequestEnds, TypesKept DEF Place!Next, Place!Buy
    <2>3. CASE /\ carrier' = [carrier EXCEPT ![placeReq[r].number] = "owned"]
               /\ Place!To(r, [placeReq[r] EXCEPT !.at = "assign", !.sid = "bought"])
      <3>1. PICK new : new = [placeReq[r] EXCEPT !.at = "assign", !.sid = "bought"]
        OBVIOUS
      <3>2. new \in VisitRecord /\ Named(new)
        BY <1>2, <2>1, <3>1 DEF VisitRecord, Named, Place!Sids
      <3>3. VisitRows' /\ placeReq' \in [Requests -> VisitRecord]
        BY <2>3, <3>1, <3>2, RequestPut
      <3>4. carrier' \in [Numbers -> {"free", "owned", "released"}]
        BY <2>3
      <3> QED
        BY <1>2, <3>3, <3>4, TypesKept DEF Place!Next, Place!Buy
    <2> QED
      BY <1>2, <2>2, <2>3 DEF Place!Buy
  <1>3. ASSUME Place!Next, NEW r \in Requests, Place!Assign(r) PROVE Place!TypeOK' /\ VisitRows'
    <2>1. placeReq[r].number \in Numbers /\ placeReq[r].of \in Properties /\ placeReq[r].sid \in Place!Sids
      BY <1>3 DEF Place!Assign, VisitRows, VisitRecord
    <2>2. [there |-> TRUE, active |-> TRUE, number |-> placeReq[r].number, sid |-> placeReq[r].sid]
             \in PropertyRecord
      BY <2>1 DEF PropertyRecord
    <2>3. property' \in [Properties -> PropertyRecord] /\ placeStray' \subseteq Numbers
      BY <1>3, <2>1, <2>2 DEF Place!Assign
    <2> QED
      BY <1>3, <2>3, RequestEnds, TypesKept DEF Place!Next, Place!Assign
  <1>4. ASSUME Place!Next, NEW r \in Requests, Place!Remove(r) PROVE Place!TypeOK' /\ VisitRows'
    <2>1. PICK new : new = [placeReq[r] EXCEPT !.at = "clear"]
      OBVIOUS
    <2>2. new \in VisitRecord /\ Named(new)
      BY <1>4, <2>1, VisitRowsNamed DEF VisitRecord, Named, Place!Remove
    <2>3. VisitRows' /\ placeReq' \in [Requests -> VisitRecord]
      BY <1>4, <2>1, <2>2, RequestPut DEF Place!Remove
    <2>4. carrier' \in [Numbers -> {"free", "owned", "released"}]
      BY <1>4 DEF Place!Remove
    <2>5. placeReq[r].sid = "bought" => placeReq[r].number \in Numbers
      BY VisitRowsNamed DEF Named
    <2>6. placeUpsets' \in 0..MaxPlaceUpsets /\ placeStray' \subseteq Numbers
      BY <1>4, <2>5 DEF Place!Remove
    <2> QED
      BY <1>4, <2>3, <2>4, <2>6, TypesKept DEF Place!Next, Place!Remove
  <1>5. ASSUME Place!Next, NEW r \in Requests, Place!Clear(r) PROVE Place!TypeOK' /\ VisitRows'
    <2>1. placeReq[r].of \in Properties /\ Place!Fresh \in PropertyRecord
      BY <1>5 DEF Place!Clear, VisitRows, PropertyRecord, Place!Fresh, Place!Absent, Place!Sids
    <2>2. property' \in [Properties -> PropertyRecord] /\ placeStray' \subseteq Numbers
      BY <1>5, <2>1 DEF Place!Clear
    <2> QED
      BY <1>5, <2>2, RequestEnds, TypesKept DEF Place!Next, Place!Clear
  <1>6. ASSUME Place!Next, NEW r \in Requests, Place!Delete(r) PROVE Place!TypeOK' /\ VisitRows'
    <2>1. placeReq[r].of \in Properties /\ Place!Absent \in PropertyRecord
          /\ Place!NoBooking \in TourRecord
      BY <1>6 DEF Place!Delete, VisitRows, PropertyRecord, Place!Absent, Place!Sids, TourRecord
    <2>2. property' \in [Properties -> PropertyRecord] /\ placeStray' \subseteq Numbers
      BY <1>6, <2>1 DEF Place!Delete
    <2>3. booking' \in [Bookings -> TourRecord]
      BY <1>6, <2>1 DEF Place!Delete
    <2> QED
      BY <1>6, <2>2, <2>3, RequestEnds, TypesKept DEF Place!Next, Place!Delete
  <1>7. ASSUME Place!Next, NEW r \in Requests, Place!FindConflict(r)
        PROVE  Place!TypeOK' /\ VisitRows'
    <2>1. placeReq[r].of \in Properties /\ placeReq[r].time \in Times
      BY <1>7 DEF Place!FindConflict, VisitRows
    <2>2. double' \subseteq Properties \X Times
      BY <1>7, <2>1 DEF Place!FindConflict
    <2>3. CASE Place!End(r)
      BY <1>7, <2>2, <2>3, RequestEnds, TypesKept DEF Place!Next, Place!FindConflict
    <2>4. CASE Place!To(r, [placeReq[r] EXCEPT !.at = "book"])
      <3>1. PICK new : new = [placeReq[r] EXCEPT !.at = "book"]
        OBVIOUS
      <3>2. new \in VisitRecord /\ Named(new)
        BY <1>7, <2>1, <3>1, VisitRowsNamed DEF VisitRecord, Named, Place!FindConflict
      <3>3. VisitRows' /\ placeReq' \in [Requests -> VisitRecord]
        BY <2>4, <3>1, <3>2, RequestPut
      <3> QED
        BY <1>7, <2>2, <3>3, TypesKept DEF Place!Next, Place!FindConflict
    <2> QED
      BY <1>7, <2>3, <2>4 DEF Place!FindConflict
  <1>8. ASSUME Place!Next, NEW r \in Requests, Place!CreateBooking(r)
        PROVE  Place!TypeOK' /\ VisitRows'
    <2>1. [of |-> placeReq[r].of, time |-> placeReq[r].time, status |-> "confirmed"] \in TourRecord
      BY <1>8 DEF Place!CreateBooking, VisitRows, TourRecord, Place!BookingStatuses
    <2>2. booking' \in [Bookings -> TourRecord]
      BY <1>8, <2>1 DEF Place!CreateBooking
    <2> QED
      BY <1>8, <2>2, RequestEnds, TypesKept DEF Place!Next, Place!CreateBooking
  <1>9. ASSUME Place!Next, NEW r \in Requests, Place!CancelBooking(r)
        PROVE  Place!TypeOK' /\ VisitRows'
    <2>1. PICK b \in Bookings : b = placeReq[r].booking
      BY <1>9 DEF Place!CancelBooking, VisitRows
    <2>2. booking[b] # Place!NoBooking => [booking[b] EXCEPT !.status = "canceled"] \in TourRecord
      BY DEF TourRecord, Place!BookingStatuses
    <2>3. booking' = IF booking[b] = Place!NoBooking THEN booking
                     ELSE [booking EXCEPT ![b] = [booking[b] EXCEPT !.status = "canceled"]]
      BY <1>9, <2>1 DEF Place!CancelBooking
    <2>4. booking' \in [Bookings -> TourRecord]
      BY <2>2, <2>3
    <2> QED
      BY <1>9, <2>4, RequestEnds, TypesKept DEF Place!Next, Place!CancelBooking
  <1>10. ASSUME Place!Next, NEW r \in Requests, Place!RequestDies(r)
         PROVE  Place!TypeOK' /\ VisitRows'
    <2>1. placeUpsets' \in 0..MaxPlaceUpsets /\ placeStray' \subseteq Numbers
      BY <1>10 DEF Place!RequestDies
    <2> QED
      BY <1>10, <2>1, RequestEnds, TypesKept DEF Place!Next, Place!RequestDies
  <1>11. ASSUME Place!Next, NEW r \in Requests, NEW p \in Properties, Place!AskDelete(r, p)
         PROVE  Place!TypeOK' /\ VisitRows'
    <2>1. PICK new : new = [Place!Idle EXCEPT !.at = "delete", !.of = p]
      OBVIOUS
    <2>2. new \in VisitRecord /\ Named(new)
      BY <2>1 DEF VisitRecord, Named, Place!Idle, Place!Sids
    <2> QED
      BY <1>11, <2>1, <2>2, RequestPut, TypesKept DEF Place!Next, Place!AskDelete
  <1>12. ASSUME Place!Next, NEW p \in Properties, Place!SetActive(p)
         PROVE  Place!TypeOK' /\ VisitRows'
    <2>1. PICK active \in BOOLEAN : property' = [property EXCEPT ![p].active = active]
      BY <1>12 DEF Place!SetActive
    <2>2. property' = [property EXCEPT ![p] = [property[p] EXCEPT !.active = active]]
      BY <2>1
    <2>3. [property[p] EXCEPT !.active = active] \in PropertyRecord
      BY DEF PropertyRecord
    <2>4. property' \in [Properties -> PropertyRecord]
      BY <2>2, <2>3
    <2>5. VisitRows'
      BY <1>12 DEF Place!SetActive, VisitRows, Place!Mine, Buying, Leaving
    <2> QED
      BY <1>12, <2>4, <2>5, TypesKept DEF Place!Next, Place!SetActive
  <1>13. ASSUME Place!Next, NEW r \in Requests, NEW p \in Properties, Place!Release(r, p)
         PROVE  Place!TypeOK' /\ VisitRows'
    <2>1. PICK new : new = [Place!Idle EXCEPT !.at = "remove", !.of = p,
                            !.number = property[p].number, !.sid = property[p].sid]
      OBVIOUS
    <2>2. property[p] \in PropertyRecord /\ property[p].number # None
      BY <1>13 DEF Place!Release
    <2>3. new \in VisitRecord /\ Named(new)
      BY <2>1, <2>2 DEF VisitRecord, Named, Place!Idle, Place!Sids, PropertyRecord
    <2> QED
      BY <1>13, <2>1, <2>3, RequestPut, TypesKept DEF Place!Next, Place!Release
  <1>14. ASSUME Place!Next, NEW r \in Requests, NEW p \in Properties, NEW n \in Numbers,
                Place!Provision(r, p, n)
         PROVE  Place!TypeOK' /\ VisitRows'
    <2>1. PICK new : /\ \/ new = [Place!Idle EXCEPT !.at = "buy", !.of = p, !.number = n]
                        \/ new = [Place!Idle EXCEPT !.at = "assign", !.of = p, !.number = n,
                                  !.sid = "made up"]
                     /\ Place!To(r, new)
      BY <1>14 DEF Place!Provision
    <2>2. new \in VisitRecord /\ Named(new)
      BY <2>1 DEF VisitRecord, Named, Place!Idle, Place!Sids
    <2> QED
      BY <1>14, <2>1, <2>2, RequestPut, TypesKept DEF Place!Next, Place!Provision
  <1>15. ASSUME Place!Next, NEW r \in Requests, NEW p \in Properties, NEW t \in Times,
                Place!BookTour(r, p, t)
         PROVE  Place!TypeOK' /\ VisitRows'
    <2>1. PICK new : new = [Place!Idle EXCEPT !.at = "check", !.of = p, !.time = t]
      OBVIOUS
    <2>2. new \in VisitRecord /\ Named(new)
      BY <2>1 DEF VisitRecord, Named, Place!Idle, Place!Sids
    <2> QED
      BY <1>15, <2>1, <2>2, RequestPut, TypesKept DEF Place!Next, Place!BookTour
  <1>16. ASSUME Place!Next, NEW r \in Requests, NEW b \in Bookings, Place!AskCancel(r, b)
         PROVE  Place!TypeOK' /\ VisitRows'
    <2>1. PICK new : new = [Place!Idle EXCEPT !.at = "cancel", !.booking = b]
      OBVIOUS
    <2>2. new \in VisitRecord /\ Named(new)
      BY <2>1 DEF VisitRecord, Named, Place!Idle, Place!Sids
    <2> QED
      BY <1>16, <2>1, <2>2, RequestPut, TypesKept DEF Place!Next, Place!AskCancel
  <1>17. ASSUME Place!Next, NEW b \in Bookings, NEW s \in Place!BookingStatuses,
                Place!SetBooking(b, s)
         PROVE  Place!TypeOK' /\ VisitRows'
    <2>1. /\ booking[b] \in [of : Properties, time : Times, status : Place!BookingStatuses]
          /\ booking' = [booking EXCEPT ![b] = [booking[b] EXCEPT !.status = s]]
      BY <1>17 DEF Place!SetBooking, TourRecord
    <2>2. [booking[b] EXCEPT !.status = s] \in TourRecord
      BY <2>1 DEF TourRecord
    <2>3. booking' \in [Bookings -> TourRecord] /\ double' \subseteq Properties \X Times
      BY <1>17, <2>1, <2>2 DEF Place!SetBooking
    <2>4. VisitRows'
      BY <1>17 DEF Place!SetBooking, VisitRows, Place!Mine, Buying, Leaving
    <2> QED
      BY <1>17, <2>3, <2>4, TypesKept DEF Place!Next, Place!SetBooking
  <1> QED
    BY <1>1, <1>2, <1>3, <1>4, <1>5, <1>6, <1>7, <1>8, <1>9, <1>10, <1>11, <1>12, <1>13,
       <1>14, <1>15, <1>16, <1>17 DEF Place!Next, Place!Step

LEMMA NumbersKept ==
    ASSUME Place!TypeOK, VisitRows, NumberInv, [Place!Next]_(Place!vars)
    PROVE  NumberInv'
  <1>1. CASE UNCHANGED Place!vars
    <2>1. UNCHANGED <<placeReq, carrier, placeStray, property>>
      BY <1>1 DEF Place!vars
    <2>2. \A q \in Properties : Place!Bought(q)' = Place!Bought(q)
                                /\ property'[q].there = property[q].there
      BY <2>1, BoughtStays
    <2> QED
      BY <2>1, <2>2, NumbersUntouched
  <1>2. ASSUME NEW r \in Requests,
               \/ Place!Buy(r) \/ Place!Assign(r) \/ Place!Remove(r) \/ Place!Clear(r)
               \/ Place!Delete(r) \/ Place!RequestDies(r)
        PROVE  NumberInv'
    BY <1>2, NumbersBuy, NumbersAssign, NumbersRemove, NumbersClear, NumbersDelete, NumbersDie
  <1>3. ASSUME NEW r \in Requests,
               Place!FindConflict(r) \/ Place!CreateBooking(r) \/ Place!CancelBooking(r)
        PROVE  NumberInv'
    <2>1. /\ placeReq[r].at \in {"check", "book", "cancel"}
          /\ UNCHANGED <<property, carrier, placeStray>>
          /\ Place!End(r) \/ Place!To(r, [placeReq[r] EXCEPT !.at = "book"])
      BY <1>3 DEF Place!FindConflict, Place!CreateBooking, Place!CancelBooking
    <2>2. Place!Mine(r) = {} /\ placeReq[r].sid # "bought"
      BY <2>1 DEF VisitRows, Buying, Leaving, Place!Mine
    <2>3. CASE Place!End(r)
      BY <2>1, <2>2, <2>3, VisitEnd, NumbersStay
    <2>4. CASE Place!To(r, [placeReq[r] EXCEPT !.at = "book"])
      <3>1. PICK new : new = [placeReq[r] EXCEPT !.at = "book"]
        OBVIOUS
      <3>2. new.sid = placeReq[r].sid
        BY <3>1, Typed DEF VisitRecord
      <3>3. Place!To(r, new)
        BY <2>4, <3>1
      <3> QED
        BY <2>1, <3>2, <3>3, NumbersAside
    <2> QED
      BY <2>1, <2>3, <2>4
  <1>4. ASSUME NEW r \in Requests, NEW new, Place!To(r, new), placeReq[r] = Place!Idle,
               new.sid = "none" \/ new.sid = "made up", UNCHANGED <<property, carrier, placeStray>>
        PROVE  NumberInv'
    <2>1. Place!Mine(r) = {}
      <3>1. Place!Idle.sid = "none"
        BY DEF Place!Idle
      <3>2. placeReq[r].sid = "none"
        BY <1>4, <3>1
      <3> QED
        BY <3>2 DEF Place!Mine
    <2>2. Place!Mine(r)' = {}
          /\ \A s \in Requests \ {r} : placeReq'[s] = placeReq[s] /\ Place!Mine(s)' = Place!Mine(s)
      BY <1>4, VisitPut
    <2> QED
      BY <1>4, <2>1, <2>2, NumbersStay
  <1>5. ASSUME NEW r \in Requests, NEW p \in Properties, Place!AskDelete(r, p)
        PROVE  NumberInv'
    <2>1. PICK new : new = [Place!Idle EXCEPT !.at = "delete", !.of = p]
      OBVIOUS
    <2>2. new.sid = "none"
      BY <2>1 DEF Place!Idle
    <2> QED
      BY <1>4, <1>5, <2>1, <2>2 DEF Place!AskDelete
  <1>6. ASSUME NEW r \in Requests, NEW p \in Properties, NEW n \in Numbers,
               Place!Provision(r, p, n)
        PROVE  NumberInv'
    <2>1. PICK new : /\ \/ new = [Place!Idle EXCEPT !.at = "buy", !.of = p, !.number = n]
                        \/ new = [Place!Idle EXCEPT !.at = "assign", !.of = p, !.number = n,
                                  !.sid = "made up"]
                     /\ Place!To(r, new)
      BY <1>6 DEF Place!Provision
    <2>2. new.sid = "none" \/ new.sid = "made up"
      BY <2>1 DEF Place!Idle
    <2> QED
      BY <1>4, <1>6, <2>1, <2>2 DEF Place!Provision
  <1>7. ASSUME NEW r \in Requests, NEW p \in Properties, NEW t \in Times, Place!BookTour(r, p, t)
        PROVE  NumberInv'
    <2>1. PICK new : new = [Place!Idle EXCEPT !.at = "check", !.of = p, !.time = t]
      OBVIOUS
    <2>2. new.sid = "none"
      BY <2>1 DEF Place!Idle
    <2> QED
      BY <1>4, <1>7, <2>1, <2>2 DEF Place!BookTour
  <1>8. ASSUME NEW r \in Requests, NEW b \in Bookings, Place!AskCancel(r, b) PROVE NumberInv'
    <2>1. PICK new : new = [Place!Idle EXCEPT !.at = "cancel", !.booking = b]
      OBVIOUS
    <2>2. new.sid = "none"
      BY <2>1 DEF Place!Idle
    <2> QED
      BY <1>4, <1>8, <2>1, <2>2 DEF Place!AskCancel
  <1>9. ASSUME NEW b \in Bookings, NEW s \in Place!BookingStatuses, Place!SetBooking(b, s)
        PROVE  NumberInv'
    <2>1. UNCHANGED <<placeReq, carrier, placeStray, property>>
      BY <1>9 DEF Place!SetBooking
    <2>2. \A q \in Properties : Place!Bought(q)' = Place!Bought(q)
                                /\ property'[q].there = property[q].there
      BY <2>1, BoughtStays
    <2> QED
      BY <2>1, <2>2, NumbersUntouched
  <1> QED
    BY <1>1, <1>2, <1>3, <1>5, <1>6, <1>7, <1>8, <1>9, NumbersActive, NumbersGiveBack
       DEF Place!Next, Place!Step

-----------------------------------------------------------------------------
(* The tours. *)

\* What stands afterwards stood before, and who is past the check was past it.
LEMMA ToursShrink ==
    ASSUME ToursCounted, double \subseteq double',
           \A p \in Properties, t \in Times : Place!Standing(p, t)' \subseteq Place!Standing(p, t),
           \A p \in Properties, t \in Times : Past(p, t)' \subseteq Past(p, t)
    PROVE  ToursCounted'
  <1> SUFFICES ASSUME NEW p \in Properties, NEW t \in Times
               PROVE  /\ \A a, b \in Place!Standing(p, t)' : a # b => <<p, t>> \in double'
                      /\ \A r, s \in Past(p, t)' : r # s => <<p, t>> \in double'
                      /\ Past(p, t)' # {} /\ Place!Standing(p, t)' # {} => <<p, t>> \in double'
    BY DEF ToursCounted
  <1>1. Place!Standing(p, t)' \subseteq Place!Standing(p, t) /\ Past(p, t)' \subseteq Past(p, t)
    OBVIOUS
  <1>2. /\ \A a, b \in Place!Standing(p, t) : a # b => <<p, t>> \in double
        /\ \A r, s \in Past(p, t) : r # s => <<p, t>> \in double
        /\ Past(p, t) # {} /\ Place!Standing(p, t) # {} => <<p, t>> \in double
    BY DEF ToursCounted
  <1> QED
    BY <1>1, <1>2

LEMMA PastShrinks ==
    ASSUME Place!TypeOK, NEW r \in Requests, NEW new, Place!To(r, new), new.at # "book",
           NEW p, NEW t
    PROVE  Past(p, t)' = Past(p, t) \ {r}
  <1>1. placeReq'[r] = new /\ \A s \in Requests \ {r} : placeReq'[s] = placeReq[s]
    BY VisitPut
  <1> QED
    BY <1>1 DEF Past

LEMMA StandingSame ==
    ASSUME booking' = booking, NEW p, NEW t
    PROVE  Place!Standing(p, t)' = Place!Standing(p, t)
  BY DEF Place!Standing

\* A request that does not pass the check, and no tour.
LEMMA ToursAside ==
    ASSUME Place!TypeOK, ToursCounted, booking' = booking, double' = double,
           NEW r \in Requests, NEW new, Place!To(r, new), new.at # "book"
    PROVE  ToursCounted'
  <1>1. \A p \in Properties, t \in Times : Place!Standing(p, t)' \subseteq Place!Standing(p, t)
    BY StandingSame
  <1>2. \A p \in Properties, t \in Times : Past(p, t)' \subseteq Past(p, t)
    BY PastShrinks
  <1> QED
    BY <1>1, <1>2, ToursShrink

LEMMA ToursChecked ==
    ASSUME Place!TypeOK, ToursCounted, VisitRows, NEW r \in Requests, Place!FindConflict(r)
    PROVE  ToursCounted'
  <1>1. CASE Place!End(r) /\ double' = double
    BY <1>1, ToursAside, IdleNamed DEF Place!End, Place!Idle, Place!FindConflict
  <1>2. CASE ~(Place!End(r) /\ double' = double)
    <2>1. PICK u \in Properties : u = placeReq[r].of
      BY DEF Place!FindConflict, VisitRows
    <2>2. PICK v \in Times : v = placeReq[r].time
      BY DEF Place!FindConflict, VisitRows
    <2>3. PICK new : new = [placeReq[r] EXCEPT !.at = "book"]
      OBVIOUS
    <2>4. new.at = "book" /\ new.of = u /\ new.time = v
      BY <2>1, <2>2, <2>3, Typed DEF VisitRecord
    <2>5. /\ Place!To(r, new) /\ booking' = booking /\ Place!Standing(u, v) = {}
          /\ double \subseteq double'
          /\ Past(u, v) # {} => <<u, v>> \in double'
          /\ placeReq[r].at = "check"
      BY <1>2, <2>1, <2>2, <2>3 DEF Place!FindConflict, Past
    <2>6. placeReq'[r] = new /\ \A s \in Requests \ {r} : placeReq'[s] = placeReq[s]
      BY <2>5, VisitPut
    <2>7. Past(u, v)' = Past(u, v) \union {r}
      BY <2>4, <2>6 DEF Past
    <2>8. \A p \in Properties, t \in Times : p # u \/ t # v => Past(p, t)' = Past(p, t)
      BY <2>4, <2>5, <2>6 DEF Past
    <2>9. \A p \in Properties, t \in Times : Place!Standing(p, t)' = Place!Standing(p, t)
      BY <2>5, StandingSame
    <2> SUFFICES ASSUME NEW p \in Properties, NEW t \in Times
                 PROVE  /\ \A a, b \in Place!Standing(p, t)' : a # b => <<p, t>> \in double'
                        /\ \A q, s \in Past(p, t)' : q # s => <<p, t>> \in double'
                        /\ Past(p, t)' # {} /\ Place!Standing(p, t)' # {} => <<p, t>> \in double'
      BY DEF ToursCounted
    <2>10. /\ \A a, b \in Place!Standing(p, t) : a # b => <<p, t>> \in double
           /\ \A q, s \in Past(p, t) : q # s => <<p, t>> \in double
           /\ Past(p, t) # {} /\ Place!Standing(p, t) # {} => <<p, t>> \in double
      BY DEF ToursCounted
    <2>11. CASE p = u /\ t = v
      BY <2>5, <2>7, <2>9, <2>11
    <2>12. CASE p # u \/ t # v
      BY <2>5, <2>8, <2>9, <2>10, <2>12
    <2> QED
      BY <2>11, <2>12
  <1> QED
    BY <1>1, <1>2

LEMMA ToursBooked ==
    ASSUME Place!TypeOK, ToursCounted, VisitRows, NEW r \in Requests,
           Place!CreateBooking(r)
    PROVE  ToursCounted'
  <1>1. CASE booking' = booking
    BY <1>1, ToursAside, IdleNamed DEF Place!End, Place!Idle, Place!CreateBooking
  <1>2. CASE booking' # booking
    <2>1. PICK u \in Properties : u = placeReq[r].of
      BY DEF Place!CreateBooking, VisitRows
    <2>2. PICK v \in Times : v = placeReq[r].time
      BY DEF Place!CreateBooking, VisitRows
    <2>3. PICK c \in Bookings :
              /\ booking[c] = Place!NoBooking
              /\ booking' = [booking EXCEPT ![c] =
                    [of |-> placeReq[r].of, time |-> placeReq[r].time, status |-> "confirmed"]]
      BY <1>2 DEF Place!CreateBooking
    <2>4. /\ r \in Past(u, v) /\ double' = double
          /\ Place!To(r, Place!Idle) /\ Place!Idle.at # "book"
      BY <2>1, <2>2 DEF Past, Place!CreateBooking, Place!End, Place!Idle
    <2>5. \A p \in Properties, t \in Times : Past(p, t)' = Past(p, t) \ {r}
      BY <2>4, PastShrinks
    <2>6. /\ booking'[c] = [of |-> u, time |-> v, status |-> "confirmed"]
          /\ \A b \in Bookings \ {c} : booking'[b] = booking[b]
      BY <2>1, <2>2, <2>3, Typed
    <2>7. booking[c].of = None /\ None \notin Properties
      BY <2>3, NoneIsNobody DEF Place!NoBooking
    <2>8. Place!Standing(u, v)' \subseteq Place!Standing(u, v) \union {c}
      BY <2>6 DEF Place!Standing
    <2>9. \A p \in Properties, t \in Times : p # u \/ t # v =>
              Place!Standing(p, t)' \subseteq Place!Standing(p, t)
      BY <2>6 DEF Place!Standing
    <2> SUFFICES ASSUME NEW p \in Properties, NEW t \in Times
                 PROVE  /\ \A a, b \in Place!Standing(p, t)' : a # b => <<p, t>> \in double'
                        /\ \A q, s \in Past(p, t)' : q # s => <<p, t>> \in double'
                        /\ Past(p, t)' # {} /\ Place!Standing(p, t)' # {} => <<p, t>> \in double'
      BY DEF ToursCounted
    <2>10. /\ \A a, b \in Place!Standing(p, t) : a # b => <<p, t>> \in double
           /\ \A q, s \in Past(p, t) : q # s => <<p, t>> \in double
           /\ Past(p, t) # {} /\ Place!Standing(p, t) # {} => <<p, t>> \in double
      BY DEF ToursCounted
    <2>11. CASE p = u /\ t = v
      <3>1. Past(p, t)' \subseteq Past(p, t) \ {r} /\ r \in Past(p, t)
        BY <2>4, <2>5, <2>11
      <3>2. Place!Standing(p, t) # {} => <<p, t>> \in double'
        BY <2>4, <2>10, <3>1
      <3>3. \A a, b \in Place!Standing(p, t)' : a # b => Place!Standing(p, t) # {}
        BY <2>8, <2>11
      <3>4. \A q \in Past(p, t)' : q # r /\ q \in Past(p, t)
        BY <3>1
      <3>5. Past(p, t)' # {} => <<p, t>> \in double'
        BY <2>4, <2>10, <3>1, <3>4
      <3> QED
        BY <3>2, <3>3, <3>5
    <2>12. CASE p # u \/ t # v
      BY <2>4, <2>5, <2>9, <2>10, <2>12
    <2> QED
      BY <2>11, <2>12
  <1> QED
    BY <1>1, <1>2

LEMMA ToursSet ==
    ASSUME Place!TypeOK, ToursCounted, NEW c \in Bookings, NEW status \in Place!BookingStatuses,
           Place!SetBooking(c, status)
    PROVE  ToursCounted'
  <1>1. PICK u \in Properties : u = booking[c].of
    BY Typed DEF Place!SetBooking, TourRecord
  <1>2. PICK v \in Times : v = booking[c].time
    BY Typed DEF Place!SetBooking, TourRecord
  <1>3. PICK new : new = [booking[c] EXCEPT !.status = status]
    OBVIOUS
  <1>4. new.of = u /\ new.time = v /\ new.status = status
    BY <1>1, <1>2, <1>3, Typed DEF Place!SetBooking, TourRecord
  <1>5. /\ booking'[c] = new /\ \A b \in Bookings \ {c} : booking'[b] = booking[b]
        /\ placeReq' = placeReq /\ double \subseteq double'
    <2>1. booking' = [booking EXCEPT ![c] = new]
      BY <1>3 DEF Place!SetBooking
    <2>2. placeReq' = placeReq /\ double \subseteq double'
      BY DEF Place!SetBooking
    <2> QED
      BY <2>1, <2>2, Typed
  <1>6. \A p \in Properties, t \in Times : Past(p, t)' = Past(p, t)
    BY <1>5 DEF Past
  <1>7. \A p \in Properties, t \in Times : p # u \/ t # v =>
            Place!Standing(p, t)' \subseteq Place!Standing(p, t)
    BY <1>4, <1>5 DEF Place!Standing
  <1>8. Place!Standing(u, v)' \subseteq Place!Standing(u, v) \union {c}
    BY <1>4, <1>5 DEF Place!Standing
  <1>9. \/ Place!Standing(u, v)' \subseteq Place!Standing(u, v)
        \/ Place!Standing(u, v) = {} /\ Past(u, v) = {}
        \/ <<u, v>> \in double'
    <2>1. CASE booking[c].status # "canceled" \/ status = "canceled"
      <3>1. c \in Place!Standing(u, v) \/ c \notin Place!Standing(u, v)'
        BY <1>1, <1>2, <1>4, <1>5, <2>1 DEF Place!Standing
      <3> QED
        BY <1>8, <3>1
    <2>2. CASE booking[c].status = "canceled" /\ status # "canceled"
      BY <1>1, <1>2, <2>2 DEF Place!SetBooking, Past
    <2> QED
      BY <2>1, <2>2
  <1> SUFFICES ASSUME NEW p \in Properties, NEW t \in Times
               PROVE  /\ \A a, b \in Place!Standing(p, t)' : a # b => <<p, t>> \in double'
                      /\ \A q, s \in Past(p, t)' : q # s => <<p, t>> \in double'
                      /\ Past(p, t)' # {} /\ Place!Standing(p, t)' # {} => <<p, t>> \in double'
    BY DEF ToursCounted
  <1>10. /\ \A a, b \in Place!Standing(p, t) : a # b => <<p, t>> \in double
         /\ \A q, s \in Past(p, t) : q # s => <<p, t>> \in double
         /\ Past(p, t) # {} /\ Place!Standing(p, t) # {} => <<p, t>> \in double
    BY DEF ToursCounted
  <1>11. CASE p = u /\ t = v
    BY <1>5, <1>6, <1>8, <1>9, <1>10, <1>11
  <1>12. CASE p # u \/ t # v
    BY <1>5, <1>6, <1>7, <1>10, <1>12
  <1> QED
    BY <1>11, <1>12

\* A tour canceled, and the tours of a deleted property, no longer stand.
LEMMA ToursGone ==
    ASSUME Place!TypeOK, VisitRows, ToursCounted, NEW r \in Requests,
           Place!Delete(r) \/ Place!CancelBooking(r)
    PROVE  ToursCounted'
  <1>1. \A b \in Bookings : booking'[b] = booking[b]
                            \/ booking'[b].of = None
                            \/ booking'[b].status = "canceled"
    <2>1. CASE Place!Delete(r)
      BY <2>1, Typed DEF Place!Delete, Place!NoBooking
    <2>2. CASE Place!CancelBooking(r)
      <3>1. PICK c \in Bookings : c = placeReq[r].booking
        BY <2>2 DEF Place!CancelBooking, VisitRows
      <3>2. PICK new : new = [booking[c] EXCEPT !.status = "canceled"]
        OBVIOUS
      <3>3. booking[c] # Place!NoBooking => new.status = "canceled"
        BY <3>2, Typed DEF TourRecord
      <3>4. booking' = booking \/ (booking[c] # Place!NoBooking
                                   /\ booking' = [booking EXCEPT ![c] = new])
        BY <2>2, <3>1, <3>2 DEF Place!CancelBooking
      <3> QED
        BY <3>3, <3>4, Typed
    <2> QED
      BY <2>1, <2>2
  <1>2. \A p \in Properties, t \in Times : Place!Standing(p, t)' \subseteq Place!Standing(p, t)
    BY <1>1, NoneIsNobody DEF Place!Standing
  <1>3. \A p \in Properties, t \in Times : Past(p, t)' \subseteq Past(p, t)
    BY PastShrinks DEF Place!Delete, Place!CancelBooking, Place!End, Place!Idle
  <1>4. double' = double
    BY DEF Place!Delete, Place!CancelBooking
  <1> QED
    BY <1>2, <1>3, <1>4, ToursShrink

LEMMA ToursKept ==
    ASSUME Place!TypeOK, VisitRows, ToursCounted, [Place!Next]_(Place!vars)
    PROVE  ToursCounted'
  <1>1. CASE UNCHANGED <<placeReq, booking, double>>
    <2>1. \A p \in Properties, t \in Times : Place!Standing(p, t)' \subseteq Place!Standing(p, t)
      BY <1>1, StandingSame
    <2>2. \A p \in Properties, t \in Times : Past(p, t)' \subseteq Past(p, t)
      BY <1>1 DEF Past
    <2> QED
      BY <1>1, <2>1, <2>2, ToursShrink
  <1>2. ASSUME NEW r \in Requests, Place!End(r), UNCHANGED <<booking, double>>
        PROVE  ToursCounted'
    BY <1>2, ToursAside DEF Place!End, Place!Idle
  <1>3. ASSUME NEW r \in Requests,
               \/ Place!Buy(r) \/ Place!Assign(r) \/ Place!Remove(r) \/ Place!Clear(r)
               \/ Place!RequestDies(r)
        PROVE  ToursCounted'
    <2>1. UNCHANGED <<booking, double>>
      BY <1>3 DEF Place!Buy, Place!Assign, Place!Remove, Place!Clear, Place!RequestDies
    <2>2. \/ Place!End(r)
          \/ Place!To(r, [placeReq[r] EXCEPT !.at = "assign", !.sid = "bought"])
          \/ Place!To(r, [placeReq[r] EXCEPT !.at = "clear"])
      BY <1>3 DEF Place!Buy, Place!Assign, Place!Remove, Place!Clear, Place!RequestDies
    <2>3. [placeReq[r] EXCEPT !.at = "assign", !.sid = "bought"].at = "assign"
          /\ [placeReq[r] EXCEPT !.at = "clear"].at = "clear"
      BY Typed DEF VisitRecord
    <2> QED
      BY <1>2, <2>1, <2>2, <2>3, ToursAside
  <1>4. ASSUME NEW r \in Requests, NEW new, Place!To(r, new), new.at # "book",
               UNCHANGED <<booking, double>>
        PROVE  ToursCounted'
    BY <1>4, ToursAside
  <1>5. ASSUME NEW r \in Requests, NEW p \in Properties,
               Place!AskDelete(r, p) \/ Place!Release(r, p)
        PROVE  ToursCounted'
    <2>1. PICK new : new.at # "book" /\ Place!To(r, new)
      BY <1>5 DEF Place!AskDelete, Place!Release, Place!Idle
    <2> QED
      BY <1>4, <1>5, <2>1 DEF Place!AskDelete, Place!Release
  <1>6. ASSUME NEW r \in Requests, NEW p \in Properties, NEW n \in Numbers,
               Place!Provision(r, p, n)
        PROVE  ToursCounted'
    <2>1. PICK new : new.at # "book" /\ Place!To(r, new)
      BY <1>6 DEF Place!Provision, Place!Idle
    <2> QED
      BY <1>4, <1>6, <2>1 DEF Place!Provision
  <1>7. ASSUME NEW r \in Requests, NEW p \in Properties, NEW t \in Times, Place!BookTour(r, p, t)
        PROVE  ToursCounted'
    <2>1. PICK new : new.at # "book" /\ Place!To(r, new)
      BY <1>7 DEF Place!BookTour, Place!Idle
    <2> QED
      BY <1>4, <1>7, <2>1 DEF Place!BookTour
  <1>8. ASSUME NEW r \in Requests, NEW b \in Bookings, Place!AskCancel(r, b)
        PROVE  ToursCounted'
    <2>1. PICK new : new.at # "book" /\ Place!To(r, new)
      BY <1>8 DEF Place!AskCancel, Place!Idle
    <2> QED
      BY <1>4, <1>8, <2>1 DEF Place!AskCancel
  <1>9. ASSUME NEW p \in Properties, Place!SetActive(p) PROVE ToursCounted'
    BY <1>1, <1>9 DEF Place!SetActive
  <1>10. CASE UNCHANGED Place!vars
    BY <1>1, <1>10 DEF Place!vars
  <1> QED
    BY <1>3, <1>5, <1>6, <1>7, <1>8, <1>9, <1>10, ToursChecked, ToursBooked, ToursSet, ToursGone
       DEF Place!Next, Place!Step

LEMMA PlaceStarts ==
    ASSUME MaxPlaceUpsets \in Nat, Place!Init PROVE PlaceInv
  <1>1. /\ Place!Fresh \in PropertyRecord /\ Place!Fresh.there /\ Place!Fresh.sid = "none"
        /\ Place!Idle \in VisitRecord /\ Place!Idle.sid = "none" /\ Place!Idle.at = "idle"
        /\ Place!NoBooking \in TourRecord /\ Place!NoBooking.status = "none"
    BY DEF Place!Fresh, Place!Absent, Place!Idle, Place!NoBooking, PropertyRecord, VisitRecord,
           TourRecord, Place!Sids
  <1>2. /\ \A p \in Properties : property[p] = Place!Fresh
        /\ \A r \in Requests : placeReq[r] = Place!Idle
        /\ \A n \in Numbers : carrier[n] = "free"
    BY DEF Place!Init
  <1>3. /\ \A p \in Properties : Place!Bought(p) = {}
        /\ \A r \in Requests : Place!Mine(r) = {}
    BY <1>1, <1>2 DEF Place!Bought, Place!Mine
  <1>4. Place!TypeOK
    <2>1. /\ placeReq \in [Requests -> VisitRecord] /\ property \in [Properties -> PropertyRecord]
          /\ booking \in [Bookings -> TourRecord]
          /\ carrier \in [Numbers -> {"free", "owned", "released"}]
      BY <1>1 DEF Place!Init
    <2>2. placeUpsets \in 0..MaxPlaceUpsets /\ placeStray = {} /\ double = {} /\ cast \in Casts
      BY DEF Place!Init
    <2> QED
      BY <2>1, <2>2 DEF Place!TypeOK, VisitRecord, PropertyRecord, TourRecord
  <1>5. VisitRows
    BY <1>2, IdleNamed, VisitRowsNamed
  <1>6. NumberRows /\ BoughtForOne /\ ReleasedFromOne
    BY <1>1, <1>2, <1>3 DEF NumberRows, BoughtForOne, ReleasedFromOne, Buying, Leaving
  <1>7. Place!NumbersHeld
    BY <1>2, <1>3 DEF Place!NumbersHeld
  <1>8. ToursCounted
    <2>1. \A b \in Bookings : booking[b].of = None
      BY DEF Place!Init, Place!NoBooking
    <2>2. \A p \in Properties, t \in Times : Past(p, t) = {}
      BY <1>1, <1>2 DEF Past
    <2>3. \A p \in Properties, t \in Times : Place!Standing(p, t) = {}
      BY <2>1, NoneIsNobody DEF Place!Standing
    <2> QED
      BY <2>2, <2>3 DEF ToursCounted
  <1> QED
    BY <1>4, <1>5, <1>6, <1>7, <1>8 DEF PlaceInv, NumberInv

LEMMA PlaceHolds == Place!Spec => []PlaceInv
  <1>1. MaxPlaceUpsets \in Nat
    BY PlaceBudget DEF Place!UpsetBudget
  <1>2. Place!Init => PlaceInv
    BY <1>1, PlaceStarts
  <1>3. PlaceInv /\ [Place!Next]_(Place!vars) => PlaceInv'
    BY <1>1, RowsKept, NumbersKept, ToursKept DEF PlaceInv
  <1> QED
    BY <1>2, <1>3, PTL DEF Place!Spec

(* The property's part of the dashboard is Premises, whatever the rest does.  *)
THEOREM PlaceAlone == LandlordSpec => Place!Spec
  <1>1. LandlordInit => Place!Init
    BY DEF LandlordInit
  <1>2. [LandlordNext]_<<scene, vars, planVars, placeVars>> => [Place!Next]_(Place!vars)
    BY DEF LandlordNext, placeVars, Place!vars
  <1> QED
    BY <1>1, <1>2, PTL DEF LandlordSpec, Place!Spec

(* The types of the property, its number and its tours.                      *)
THEOREM PlaceTyping == LandlordSpec => []Place!TypeOK
  <1>1. PlaceInv => Place!TypeOK
    BY DEF PlaceInv
  <1> QED
    BY <1>1, PlaceAlone, PlaceHolds, PTL

(* The numbers the carrier bills are those the properties have, but for the   *)
(* ones in hand and the known strays.                                        *)
THEOREM NumbersAreHeld == LandlordSpec => []NumbersHeld
  <1>1. PlaceInv => NumbersHeld
    BY DEF PlaceInv, NumberInv, NumbersHeld
  <1> QED
    BY <1>1, PlaceAlone, PlaceHolds, PTL

(* Two tours at one time come only of two requests past the check together,  *)
(* or of one the landlord revived.                                           *)
THEOREM ToursBookedOnce == LandlordSpec => []BookedOnce
  <1>1. PlaceInv => BookedOnce
    <2> SUFFICES ASSUME PlaceInv, NEW p \in Properties, NEW t \in Times,
                        Cardinality(Place!Standing(p, t)) > 1
                 PROVE  <<p, t>> \in double
      <3>1. \A S : Place!Cardinality(S) = Cardinality(S)
        BY Zenon DEF Place!Cardinality, Cardinality
      <3> QED
        BY <3>1, Zenon DEF BookedOnce, Place!BookedOnce
    <2>1. Place!Standing(p, t) # {}
      BY FS_EmptySet
    <2>2. PICK a \in Place!Standing(p, t) : TRUE
      BY <2>1
    <2>3. Place!Standing(p, t) # {a}
      <3>1. Cardinality({a}) = 1
        BY FS_Singleton
      <3> QED
        BY <3>1
    <2>4. PICK b \in Place!Standing(p, t) : a # b
      BY <2>2, <2>3
    <2> QED
      BY <2>2, <2>4 DEF PlaceInv, ToursCounted
  <1> QED
    BY <1>1, PlaceAlone, PlaceHolds, PTL

-----------------------------------------------------------------------------
(* The subscription to the platform (Subscription). *)

\* A request that has found the row acts on the row's subscription, and one that
\* is to mark the row has told Stripe.
Fits(v) ==
    /\ v.at \in {"price", "plan", "cancel", "mark", "count"} => row # Plan!NoRow
    /\ v.at \in {"price", "plan", "cancel", "mark"} => v.id = row.id
    /\ v.at \in {"price", "cancel"} => v.id \in Ids
    /\ v.at = "customer" => v.id = None
    /\ v.at = "mark" /\ v.id \in Ids => stripe[v.id].ending
    /\ v.at \in {"customer", "row", "price", "plan"} => v.plan \in Plan!Plans
PlanRows == \A r \in Requests : Fits(planReq[r])

\* The subscriptions of Stripe's that the row, the events and the requests name
\* exist there, and a request about to make the row has one of its own.
Born(i) == stripe[i].status # "none"
Makes(r, i) == planReq[r].at = "row" /\ planReq[r].id = i
PlanBorn ==
    /\ row.id \in Ids => Born(row.id)
    /\ \A n \in DOMAIN queue : Born(queue[n].id)
    /\ \A r \in Requests, i \in Ids : Makes(r, i) =>
          /\ Born(i) /\ row.id # i /\ stripe[i].plan = planReq[r].plan
          /\ \A s \in Requests : Makes(s, i) => s = r

\* The last event queued of a subscription has its status, unless one overtook
\* another.
Queued(i) == {n \in DOMAIN queue : queue[n].id = i}
LastEvents ==
    Plan!Without({"reordered"}) =>
        \A n \in DOMAIN queue :
            \/ \E m \in DOMAIN queue : m > n /\ queue[m].id = queue[n].id
            \/ queue[n].status = stripe[queue[n].id].status

\* With nothing of it queued, a subscription's status is the row's, or the one
\* it was made with.
RowFollows ==
    Plan!Without({"reordered", "lost", "admin"}) /\ row.id \in Ids /\ Queued(row.id) = {} =>
        \/ row.status = stripe[row.id].status
        \/ row.status = "canceled" /\ stripe[row.id].ending
MakersFollow ==
    Plan!Without({"reordered", "lost"}) =>
        \A r \in Requests, i \in Ids :
            Makes(r, i) /\ Queued(i) = {} => stripe[i].status = "trialing"

\* Whatever Stripe bills for is the row's, a stray, or about to be the row's.
Billed ==
    \A i \in Ids : Born(i) => row.id = i \/ i \in planStray \/ \E r \in Requests : Makes(r, i)

\* One change of plan at a time; between its two statements Stripe is ahead.
Priced ==
    /\ Plan!Without({"crossed"}) =>
          \A r, s \in Plan!At({"price", "plan"}) : r = s
    /\ Plan!Without({"crossed", "died"}) /\ row.id \in Ids =>
          \/ \E r \in Plan!At({"plan"}) : stripe[row.id].plan = planReq[r].plan
          \/ Plan!At({"plan"}) = {} /\ stripe[row.id].plan = row.plan

\* Properties there are and properties past the check are within the plan, and
\* those asked for within the bound.
Crowd(places) == Cardinality(Plan!At(places))
Counted ==
    /\ row # Plan!NoRow /\ Plan!Without({"crowded", "shrunk"}) =>
           count + Crowd({"add"}) <= Limit[row.plan]
    /\ count + Crowd({"count", "add"}) <= MaxProperties

\* The parts that speak of the row, Stripe and the events, and the whole: the
\* inductive invariant.
Agreement == PlanBorn /\ LastEvents /\ RowFollows /\ MakersFollow /\ Billed
PlanInv == Plan!TypeOK /\ PlanRows /\ Agreement /\ Priced /\ Counted

-----------------------------------------------------------------------------
(* The records, and what one step does to a request and to the queue. *)

PlanRequest ==
    [at : {"idle", "customer", "row", "price", "plan", "cancel", "mark", "count", "add"},
     id : Ids \union {None}, plan : Plan!Plans \union {None}, limit : Nat]
PlanRow == [status : Plan!Statuses \union {"suspended"}, id : Ids \union {None}, plan : Plan!Plans]
StripeSubscription == [status : Plan!Statuses, ending : BOOLEAN, plan : Plan!Plans]
PlanEvent == [id : Ids, status : Plan!Statuses]

LEMMA PlanTyped ==
    ASSUME Plan!TypeOK
    PROVE  /\ row = Plan!NoRow \/ row \in PlanRow
           /\ stripe \in [Ids -> {Plan!Unborn} \union StripeSubscription]
           /\ queue \in Seq(PlanEvent) /\ Len(queue) \in Nat /\ Len(queue) <= sent
           /\ DOMAIN queue = 1..Len(queue) /\ \A n \in DOMAIN queue : queue[n] \in PlanEvent
           /\ sent \in 0..MaxEvents /\ count \in 0..MaxProperties
           /\ planReq \in [Requests -> PlanRequest]
           /\ planStray \subseteq Ids /\ planUpset \subseteq PlanUpsets
  <1>1. row = Plan!NoRow \/ row \in PlanRow
    BY DEF Plan!TypeOK, PlanRow
  <1>2. stripe \in [Ids -> {Plan!Unborn} \union StripeSubscription]
    BY DEF Plan!TypeOK, StripeSubscription
  <1>3. queue \in Seq(PlanEvent)
    BY DEF Plan!TypeOK, PlanEvent
  <1>4. /\ Len(queue) \in Nat /\ DOMAIN queue = 1..Len(queue)
        /\ \A n \in DOMAIN queue : queue[n] \in PlanEvent
    BY <1>3
  <1>5. planReq \in [Requests -> PlanRequest]
    BY DEF Plan!TypeOK, PlanRequest
  <1>6. /\ Len(queue) <= sent /\ sent \in 0..MaxEvents /\ count \in 0..MaxProperties
        /\ planStray \subseteq Ids /\ planUpset \subseteq PlanUpsets
    BY DEF Plan!TypeOK
  <1> QED
    BY <1>1, <1>2, <1>3, <1>4, <1>5, <1>6

LEMMA PlanTypesKept ==
    ASSUME row' = Plan!NoRow \/ row' \in PlanRow,
           stripe' \in [Ids -> {Plan!Unborn} \union StripeSubscription],
           queue' \in Seq(PlanEvent), Len(queue') <= sent',
           sent' \in 0..MaxEvents, count' \in 0..MaxProperties,
           planReq' \in [Requests -> PlanRequest],
           planStray' \subseteq Ids, planUpset' \subseteq PlanUpsets
    PROVE  Plan!TypeOK'
  BY DEF Plan!TypeOK, PlanRequest, PlanRow, StripeSubscription, PlanEvent

\* The blank records.
LEMMA Blanks ==
    /\ Plan!Unborn.status = "none" /\ ~Plan!Unborn.ending
    /\ Plan!NoRow.status = "none" /\ Plan!NoRow.id = None /\ Plan!NoRow \notin PlanRow
    /\ Plan!Idle \in PlanRequest /\ Plan!Idle.at = "idle" /\ Plan!Idle.id = None
    /\ \A s \in Plan!Statuses : s # "none"
  BY DEF Plan!Unborn, Plan!NoRow, Plan!Idle, PlanRow, PlanRequest, Plan!Statuses

\* One request, and one of Stripe's subscriptions, is written.
Moved(r, new) ==
    /\ new \in PlanRequest /\ planReq' \in [Requests -> PlanRequest]
    /\ planReq'[r] = new /\ \A s \in Requests \ {r} : planReq'[s] = planReq[s]
StripePut(i, new) ==
    /\ new \in StripeSubscription /\ stripe' \in [Ids -> {Plan!Unborn} \union StripeSubscription]
    /\ stripe'[i] = new /\ \A j \in Ids \ {i} : stripe'[j] = stripe[j]

LEMMA PlanPut ==
    ASSUME Plan!TypeOK, NEW r \in Requests, NEW new \in PlanRequest, Plan!To(r, new)
    PROVE  Moved(r, new)
  <1>1. planReq \in [Requests -> PlanRequest] /\ planReq' = [planReq EXCEPT ![r] = new]
    BY PlanTyped DEF Plan!To
  <1> QED
    BY <1>1 DEF Moved

LEMMA PlanEnd ==
    ASSUME Plan!TypeOK, NEW r \in Requests, Plan!End(r) PROVE Moved(r, Plan!Idle)
  BY PlanPut, Blanks DEF Plan!End

LEMMA StripeWritten ==
    ASSUME Plan!TypeOK, NEW i \in Ids, NEW new \in StripeSubscription,
           stripe' = [stripe EXCEPT ![i] = new]
    PROVE  StripePut(i, new)
  <1>1. stripe \in [Ids -> {Plan!Unborn} \union StripeSubscription]
    BY PlanTyped
  <1> QED
    BY <1>1 DEF StripePut

LEMMA BornTyped ==
    ASSUME Plan!TypeOK, NEW i \in Ids
    PROVE  /\ stripe[i] = Plan!Unborn \/ stripe[i] \in StripeSubscription
           /\ Born(i) <=> stripe[i] \in StripeSubscription
           /\ Born(i) <=> stripe[i] # Plan!Unborn
           /\ stripe[i].ending => Born(i)
           /\ Born(i) => stripe[i].status \in Plan!Statuses
  <1>1. stripe[i] = Plan!Unborn \/ stripe[i] \in StripeSubscription
    BY PlanTyped
  <1>2. stripe[i] \in StripeSubscription => stripe[i].status \in Plan!Statuses
    BY DEF StripeSubscription
  <1> QED
    BY <1>1, <1>2, Blanks DEF Born

LEMMA QueueSent ==
    ASSUME Plan!TypeOK, NEW i \in Ids, NEW s \in Plan!Statuses, Plan!Send(i, s)
    PROVE  /\ queue' \in Seq(PlanEvent) /\ Len(queue') = Len(queue) + 1 /\ Len(queue') <= sent'
           /\ sent' \in 0..MaxEvents
           /\ DOMAIN queue' = 1..(Len(queue) + 1) /\ DOMAIN queue = 1..Len(queue)
           /\ \A n \in DOMAIN queue : queue'[n] = queue[n]
           /\ queue'[Len(queue) + 1].id = i /\ queue'[Len(queue) + 1].status = s
  <1>1. PICK e \in PlanEvent : e = [id |-> i, status |-> s]
    BY DEF PlanEvent
  <1>2. queue' = Append(queue, e) /\ sent < MaxEvents /\ sent' = sent + 1
    BY <1>1 DEF Plan!Send
  <1>3. queue \in Seq(PlanEvent) /\ sent \in 0..MaxEvents /\ Len(queue) <= sent /\ MaxEvents \in Nat
    BY PlanTyped, PlanSizes DEF Plan!Sizes
  <1>4. /\ queue' \in Seq(PlanEvent) /\ Len(queue') = Len(queue) + 1
        /\ DOMAIN queue' = 1..(Len(queue) + 1) /\ DOMAIN queue = 1..Len(queue)
        /\ \A n \in DOMAIN queue : queue'[n] = queue[n]
        /\ queue'[Len(queue) + 1] = e
    BY <1>2, <1>3
  <1> QED
    BY <1>1, <1>2, <1>3, <1>4

LEMMA QueueTaken ==
    ASSUME Plan!TypeOK, NEW n \in DOMAIN queue, queue' = Plan!RemoveAt(queue, n)
    PROVE  /\ queue' \in Seq(PlanEvent) /\ Len(queue') = Len(queue) - 1
           /\ DOMAIN queue' = 1..(Len(queue) - 1) /\ DOMAIN queue = 1..Len(queue)
           /\ \A k \in DOMAIN queue' : queue'[k] = IF k < n THEN queue[k] ELSE queue[k + 1]
  <1>1. queue \in Seq(PlanEvent) /\ n \in 1..Len(queue) /\ Len(queue) \in Nat
    BY PlanTyped
  <1>2. PICK a : a = SubSeq(queue, 1, n - 1)
    OBVIOUS
  <1>3. PICK b : b = SubSeq(queue, n + 1, Len(queue))
    OBVIOUS
  <1>4. /\ a \in Seq(PlanEvent) /\ Len(a) = n - 1 /\ \A k \in 1..(n - 1) : a[k] = queue[k]
        /\ b \in Seq(PlanEvent) /\ Len(b) = Len(queue) - n
        /\ \A k \in 1..(Len(queue) - n) : b[k] = queue[k + n]
    BY <1>1, <1>2, <1>3
  <1>5. queue' = a \o b
    BY <1>2, <1>3 DEF Plan!RemoveAt
  <1>6. /\ queue' \in Seq(PlanEvent) /\ Len(queue') = Len(a) + Len(b)
        /\ \A k \in 1..(Len(a) + Len(b)) : queue'[k] = IF k <= Len(a) THEN a[k] ELSE b[k - Len(a)]
    BY <1>4, <1>5, ConcatProperties
  <1>7. Len(queue') = Len(queue) - 1 /\ DOMAIN queue' = 1..(Len(queue) - 1)
        /\ DOMAIN queue = 1..Len(queue)
    BY <1>1, <1>4, <1>6
  <1>8. ASSUME NEW k \in DOMAIN queue' PROVE queue'[k] = IF k < n THEN queue[k] ELSE queue[k + 1]
    <2>1. k \in 1..(Len(queue) - 1) /\ k \in 1..(Len(a) + Len(b))
      BY <1>1, <1>4, <1>7
    <2>2. CASE k < n
      <3>1. k \in 1..(n - 1) /\ k <= Len(a)
        BY <1>1, <1>4, <2>1, <2>2
      <3> QED
        BY <1>4, <1>6, <2>1, <2>2, <3>1
    <2>3. CASE ~(k < n)
      <3>1. /\ n \in Int /\ k \in Int /\ Len(queue) \in Int /\ Len(a) = n - 1
            /\ n <= k /\ k <= Len(queue) - 1
        BY <1>1, <1>4, <2>1, <2>3
      <3>2. PICK j \in Int : j = k - (n - 1)
        BY <3>1
      <3>3. j \in 1..(Len(queue) - n) /\ j + n = k + 1 /\ j = k - Len(a) /\ ~(k <= Len(a))
        BY <3>1, <3>2
      <3>4. queue'[k] = b[j]
        BY <1>6, <2>1, <3>3
      <3>5. b[j] = queue[k + 1]
        BY <1>4, <3>3
      <3> QED
        BY <2>3, <3>4, <3>5
    <2> QED
      BY <2>2, <2>3
  <1> QED
    BY <1>6, <1>7, <1>8

\* The disturbances add up.
LEMMA UpsetsAdd ==
    ASSUME NEW kinds, Plan!Happens(kinds)
    PROVE  planUpset' = planUpset \union kinds /\ planUpset' \subseteq PlanUpsets
  BY DEF Plan!Happens

-----------------------------------------------------------------------------
(* What each action writes, field by field. *)

LEMMA Subscribed ==
    ASSUME Plan!TypeOK, NEW r \in Requests, NEW p \in Plan!Plans, Plan!Subscribe(r, p)
    PROVE  \E new : Moved(r, new) /\ new.at = "customer" /\ new.plan = p /\ new.id = None
  <1>1. PICK new : new = [Plan!Idle EXCEPT !.at = "customer", !.plan = p]
    OBVIOUS
  <1>2. new \in PlanRequest /\ new.at = "customer" /\ new.plan = p /\ new.id = None
    BY <1>1 DEF Plan!Idle, PlanRequest
  <1> QED
    BY <1>1, <1>2, PlanPut DEF Plan!Subscribe

LEMMA MadeAtStripe ==
    ASSUME Plan!TypeOK, PlanRows, NEW r \in Requests, Plan!CreateAtStripe(r)
    PROVE  \/ \E i \in Ids : \E new, sub :
                  /\ ~Born(i) /\ StripePut(i, sub) /\ Moved(r, new)
                  /\ sub.status = "trialing" /\ ~sub.ending /\ sub.plan = planReq[r].plan
                  /\ new.at = "row" /\ new.id = i /\ new.plan = planReq[r].plan
                  /\ new.plan \in Plan!Plans
           \/ \E new : /\ Moved(r, new) /\ stripe' = stripe
                       /\ new.at = "row" /\ new.id = None /\ new.plan \in Plan!Plans
           \/ Moved(r, Plan!Idle) /\ stripe' = stripe
  <1>1. /\ planReq[r] \in PlanRequest /\ planReq[r].at = "customer"
        /\ planReq[r].plan \in Plan!Plans /\ planReq[r].id = None
    BY PlanTyped DEF Plan!CreateAtStripe, PlanRows, Fits
  <1>2. ASSUME NEW i \in Ids, stripe[i] = Plan!Unborn,
               stripe' = [stripe EXCEPT ![i] =
                   [status |-> "trialing", ending |-> FALSE, plan |-> planReq[r].plan]],
               Plan!To(r, [planReq[r] EXCEPT !.at = "row", !.id = i])
        PROVE  \E new, sub :
                  /\ ~Born(i) /\ StripePut(i, sub) /\ Moved(r, new)
                  /\ sub.status = "trialing" /\ ~sub.ending /\ sub.plan = planReq[r].plan
                  /\ new.at = "row" /\ new.id = i /\ new.plan = planReq[r].plan
                  /\ new.plan \in Plan!Plans
    <2>1. PICK sub : sub = [status |-> "trialing", ending |-> FALSE, plan |-> planReq[r].plan]
      OBVIOUS
    <2>2. /\ sub \in StripeSubscription
          /\ sub.status = "trialing" /\ ~sub.ending /\ sub.plan = planReq[r].plan
      BY <1>1, <2>1 DEF StripeSubscription, Plan!Statuses
    <2>3. PICK new : new = [planReq[r] EXCEPT !.at = "row", !.id = i]
      OBVIOUS
    <2>4. new \in PlanRequest /\ new.at = "row" /\ new.id = i /\ new.plan = planReq[r].plan
      BY <1>1, <2>3 DEF PlanRequest
    <2>5. ~Born(i)
      BY <1>2, BornTyped
    <2>6. StripePut(i, sub) /\ Moved(r, new)
      BY <1>2, <2>1, <2>2, <2>3, <2>4, StripeWritten, PlanPut
    <2> QED
      BY <1>1, <2>2, <2>4, <2>5, <2>6
  <1>3. ASSUME Plan!To(r, [planReq[r] EXCEPT !.at = "row"]), stripe' = stripe
        PROVE  \E new : /\ Moved(r, new) /\ stripe' = stripe
                        /\ new.at = "row" /\ new.id = None /\ new.plan \in Plan!Plans
    <2>1. PICK new : new = [planReq[r] EXCEPT !.at = "row"]
      OBVIOUS
    <2>2. new \in PlanRequest /\ new.at = "row" /\ new.id = None /\ new.plan \in Plan!Plans
      BY <1>1, <2>1 DEF PlanRequest
    <2> QED
      BY <1>3, <2>1, <2>2, PlanPut
  <1> QED
    BY <1>2, <1>3, PlanEnd DEF Plan!CreateAtStripe

LEMMA RowMade ==
    ASSUME Plan!TypeOK, PlanRows, NEW r \in Requests, Plan!CreateRow(r)
    PROVE  /\ planReq[r].at = "row" /\ Moved(r, Plan!Idle)
           /\ \/ /\ row = Plan!NoRow /\ row' \in PlanRow /\ row'.status = "trialing"
                 /\ row'.id = planReq[r].id /\ row'.plan = planReq[r].plan
                 /\ planStray' = planStray /\ Plan!Happens(Plan!Shrinks(row'.plan))
              \/ /\ row # Plan!NoRow /\ row' = row /\ planUpset' = planUpset
                 /\ planStray' = planStray \union ({planReq[r].id} \ {None})
  <1>1. planReq[r] \in PlanRequest /\ planReq[r].at = "row" /\ planReq[r].plan \in Plan!Plans
    BY PlanTyped DEF Plan!CreateRow, PlanRows, Fits
  <1>2. CASE row = Plan!NoRow
    <2>1. row' = [status |-> "trialing", id |-> planReq[r].id, plan |-> planReq[r].plan]
      BY <1>2 DEF Plan!CreateRow
    <2>2. row' \in PlanRow /\ row'.status = "trialing" /\ row'.id = planReq[r].id
          /\ row'.plan = planReq[r].plan
      BY <1>1, <2>1 DEF PlanRow, PlanRequest, Plan!Statuses
    <2> QED
      BY <1>1, <1>2, <2>2, PlanEnd DEF Plan!CreateRow
  <1>3. CASE row # Plan!NoRow
    BY <1>1, <1>3, PlanEnd DEF Plan!CreateRow
  <1> QED
    BY <1>2, <1>3

LEMMA ChangeAsked ==
    ASSUME Plan!TypeOK, NEW r \in Requests, NEW p \in Plan!Plans, Plan!ChangePlan(r, p)
    PROVE  \E new : /\ Moved(r, new) /\ new.plan = p /\ new.id = row.id /\ row # Plan!NoRow
                    /\ \/ new.at = "plan" /\ row.id = None
                       \/ new.at = "price" /\ row.id \in Ids
  <1>1. PICK new : new = [Plan!Idle EXCEPT !.at = IF row.id = None THEN "plan" ELSE "price",
                                           !.id = row.id, !.plan = p]
    OBVIOUS
  <1>2. row \in PlanRow /\ row # Plan!NoRow /\ row.id \in Ids \union {None}
    BY PlanTyped DEF Plan!ChangePlan, PlanRow
  <1>3. /\ new \in PlanRequest /\ new.plan = p /\ new.id = row.id
        /\ \/ new.at = "plan" /\ row.id = None
           \/ new.at = "price" /\ row.id \in Ids
    BY <1>1, <1>2 DEF Plan!Idle, PlanRequest
  <1> QED
    BY <1>1, <1>2, <1>3, PlanPut DEF Plan!ChangePlan

LEMMA CancelAsked ==
    ASSUME Plan!TypeOK, NEW r \in Requests, Plan!Cancel(r)
    PROVE  \E new : /\ Moved(r, new) /\ new.id = row.id /\ row # Plan!NoRow
                    /\ \/ new.at = "mark" /\ row.id = None
                       \/ new.at = "cancel" /\ row.id \in Ids
  <1>1. PICK new : new = [Plan!Idle EXCEPT !.at = IF row.id = None THEN "mark" ELSE "cancel",
                                           !.id = row.id]
    OBVIOUS
  <1>2. row \in PlanRow /\ row # Plan!NoRow /\ row.id \in Ids \union {None}
    BY PlanTyped DEF Plan!Cancel, PlanRow
  <1>3. /\ new \in PlanRequest /\ new.id = row.id
        /\ \/ new.at = "mark" /\ row.id = None
           \/ new.at = "cancel" /\ row.id \in Ids
    BY <1>1, <1>2 DEF Plan!Idle, PlanRequest
  <1> QED
    BY <1>1, <1>2, <1>3, PlanPut DEF Plan!Cancel

\* The two that ask Stripe for a change of the row's subscription.
LEMMA Repriced ==
    ASSUME Plan!TypeOK, PlanRows, PlanBorn, NEW r \in Requests, Plan!Reprice(r)
    PROVE  LET i == planReq[r].id IN
           /\ planReq[r].at = "price" /\ i \in Ids /\ row.id = i /\ Born(i)
           /\ \/ Moved(r, Plan!Idle) /\ UNCHANGED <<stripe, queue, sent>>
              \/ \E new, sub :
                    /\ Moved(r, new) /\ new.at = "plan" /\ new.id = i
                    /\ new.plan = planReq[r].plan
                    /\ StripePut(i, sub) /\ sub.plan = planReq[r].plan
                    /\ sub.status = stripe[i].status /\ sub.ending = stripe[i].ending
                    /\ Plan!Send(i, sub.status)
  <1>1. PICK i \in Ids : i = planReq[r].id
    BY DEF Plan!Reprice, PlanRows, Fits
  <1>2. /\ planReq[r] \in PlanRequest /\ planReq[r].at = "price" /\ row.id = i
        /\ planReq[r].plan \in Plan!Plans /\ Born(i) /\ stripe[i] \in StripeSubscription
    BY <1>1, PlanTyped, BornTyped DEF Plan!Reprice, PlanRows, Fits, PlanBorn
  <1>3. CASE stripe[i].status = "canceled"
    BY <1>1, <1>2, <1>3, PlanEnd DEF Plan!Reprice
  <1>4. CASE stripe[i].status # "canceled"
    <2>1. PICK sub : sub = [stripe[i] EXCEPT !.plan = planReq[r].plan]
      OBVIOUS
    <2>2. /\ sub \in StripeSubscription /\ sub.plan = planReq[r].plan
          /\ sub.status = stripe[i].status /\ sub.ending = stripe[i].ending
      BY <1>2, <2>1 DEF StripeSubscription
    <2>3. stripe' = [stripe EXCEPT ![i] = sub] /\ Plan!Send(i, sub.status)
      BY <1>1, <1>4, <2>1, <2>2 DEF Plan!Reprice
    <2>4. PICK new : new = [planReq[r] EXCEPT !.at = "plan"]
      OBVIOUS
    <2>5. new \in PlanRequest /\ new.at = "plan" /\ new.id = i /\ new.plan = planReq[r].plan
      BY <1>1, <1>2, <2>4 DEF PlanRequest
    <2>6. Moved(r, new) /\ StripePut(i, sub)
      BY <1>1, <1>4, <2>2, <2>3, <2>4, <2>5, PlanPut, StripeWritten DEF Plan!Reprice
    <2> QED
      BY <1>1, <1>2, <2>2, <2>3, <2>5, <2>6
  <1> QED
    BY <1>3, <1>4

LEMMA CanceledAtStripe ==
    ASSUME Plan!TypeOK, PlanRows, PlanBorn, NEW r \in Requests, Plan!CancelAtStripe(r)
    PROVE  LET i == planReq[r].id IN
           /\ planReq[r].at = "cancel" /\ i \in Ids /\ row.id = i /\ Born(i)
           /\ \/ Moved(r, Plan!Idle) /\ UNCHANGED <<stripe, queue, sent>>
              \/ \E new, sub :
                    /\ Moved(r, new) /\ new.at = "mark" /\ new.id = i
                    /\ StripePut(i, sub) /\ sub.plan = stripe[i].plan
                    /\ sub.status = stripe[i].status /\ sub.ending
                    /\ Plan!Send(i, sub.status)
  <1>1. PICK i \in Ids : i = planReq[r].id
    BY DEF Plan!CancelAtStripe, PlanRows, Fits
  <1>2. /\ planReq[r] \in PlanRequest /\ planReq[r].at = "cancel" /\ row.id = i
        /\ Born(i) /\ stripe[i] \in StripeSubscription
    BY <1>1, PlanTyped, BornTyped DEF Plan!CancelAtStripe, PlanRows, Fits, PlanBorn
  <1>3. CASE stripe[i].status = "canceled"
    BY <1>1, <1>2, <1>3, PlanEnd DEF Plan!CancelAtStripe
  <1>4. CASE stripe[i].status # "canceled"
    <2>1. PICK sub : sub = [stripe[i] EXCEPT !.ending = TRUE]
      OBVIOUS
    <2>2. /\ sub \in StripeSubscription /\ sub.plan = stripe[i].plan
          /\ sub.status = stripe[i].status /\ sub.ending
      BY <1>2, <2>1 DEF StripeSubscription
    <2>3. stripe' = [stripe EXCEPT ![i] = sub] /\ Plan!Send(i, sub.status)
      BY <1>1, <1>4, <2>1, <2>2 DEF Plan!CancelAtStripe
    <2>4. PICK new : new = [planReq[r] EXCEPT !.at = "mark"]
      OBVIOUS
    <2>5. new \in PlanRequest /\ new.at = "mark" /\ new.id = i
      BY <1>1, <1>2, <2>4 DEF PlanRequest
    <2>6. Moved(r, new) /\ StripePut(i, sub)
      BY <1>1, <1>4, <2>2, <2>3, <2>4, <2>5, PlanPut, StripeWritten DEF Plan!CancelAtStripe
    <2> QED
      BY <1>1, <1>2, <2>2, <2>3, <2>5, <2>6
  <1> QED
    BY <1>3, <1>4

\* The row's plan and status, written by its requests and by an administrator.
LEMMA PlanWritten ==
    ASSUME Plan!TypeOK, PlanRows, NEW r \in Requests, Plan!WritePlan(r)
    PROVE  /\ planReq[r].at = "plan" /\ planReq[r].id = row.id /\ Moved(r, Plan!Idle)
           /\ row # Plan!NoRow /\ row' \in PlanRow /\ row'.plan = planReq[r].plan
           /\ row'.status = row.status /\ row'.id = row.id
           /\ Plan!Happens(Plan!Shrinks(row'.plan))
  <1>1. /\ planReq[r].at = "plan" /\ row # Plan!NoRow /\ row \in PlanRow
        /\ planReq[r].plan \in Plan!Plans /\ planReq[r].id = row.id
    BY PlanTyped DEF Plan!WritePlan, PlanRows, Fits
  <1>2. row' = [row EXCEPT !.plan = planReq[r].plan]
    BY DEF Plan!WritePlan
  <1>3. /\ row' \in PlanRow /\ row'.plan = planReq[r].plan
        /\ row'.status = row.status /\ row'.id = row.id
    BY <1>1, <1>2 DEF PlanRow
  <1> QED
    BY <1>1, <1>3, PlanEnd DEF Plan!WritePlan

LEMMA RowMarked ==
    ASSUME Plan!TypeOK, PlanRows, NEW r \in Requests, Plan!MarkCanceled(r)
    PROVE  /\ planReq[r].at = "mark" /\ planReq[r].id = row.id /\ Moved(r, Plan!Idle)
           /\ row # Plan!NoRow /\ row' \in PlanRow /\ row'.plan = row.plan
           /\ row'.status = "canceled" /\ row'.id = row.id
  <1>1. /\ planReq[r].at = "mark" /\ row # Plan!NoRow /\ row \in PlanRow
        /\ planReq[r].id = row.id
    BY PlanTyped DEF Plan!MarkCanceled, PlanRows, Fits
  <1>2. row' = [row EXCEPT !.status = "canceled"]
    BY DEF Plan!MarkCanceled
  <1>3. /\ row' \in PlanRow /\ row'.plan = row.plan
        /\ row'.status = "canceled" /\ row'.id = row.id
    BY <1>1, <1>2 DEF PlanRow, Plan!Statuses
  <1> QED
    BY <1>1, <1>3, PlanEnd DEF Plan!MarkCanceled

LEMMA Administered ==
    ASSUME Plan!TypeOK, NEW s \in {"active", "suspended", "past_due", "canceled"},
           Plan!Administer(s)
    PROVE  /\ row # Plan!NoRow /\ row' \in PlanRow /\ row'.plan = row.plan /\ row'.id = row.id
           /\ "admin" \in planUpset'
  <1>1. row # Plan!NoRow /\ row \in PlanRow
    BY PlanTyped DEF Plan!Administer
  <1>2. row' = [row EXCEPT !.status = s] /\ Plan!Happens({"admin"})
    BY DEF Plan!Administer
  <1> QED
    BY <1>1, <1>2, UpsetsAdd DEF PlanRow, Plan!Statuses

LEMMA RequestDied ==
    ASSUME Plan!TypeOK, NEW r \in Requests, Plan!RequestDies(r)
    PROVE  /\ planReq[r].at \in {"row", "plan", "mark"} /\ Moved(r, Plan!Idle)
           /\ "died" \in planUpset'
           /\ \/ planReq[r].at = "row" /\ planStray' = planStray \union ({planReq[r].id} \ {None})
              \/ planReq[r].at # "row" /\ planStray' = planStray
  BY PlanEnd, UpsetsAdd DEF Plan!RequestDies

\* Stripe's own changes, each with its event.
LEMMA StripeMoved ==
    ASSUME Plan!TypeOK, NEW i \in Ids, Plan!Move(i)
    PROVE  /\ Born(i)
           /\ \E sub : /\ StripePut(i, sub) /\ sub.plan = stripe[i].plan
                       /\ sub.ending = stripe[i].ending /\ Plan!Send(i, sub.status)
  <1>1. Born(i) /\ stripe[i] \in StripeSubscription
    BY BornTyped DEF Plan!Move, Plan!Moves, Born
  <1>2. PICK s \in Plan!Statuses :
            stripe' = [stripe EXCEPT ![i].status = s] /\ Plan!Send(i, s)
    BY DEF Plan!Move, Plan!Moves, Plan!Statuses
  <1>3. PICK sub : sub = [stripe[i] EXCEPT !.status = s]
    OBVIOUS
  <1>4. /\ sub \in StripeSubscription /\ sub.plan = stripe[i].plan
        /\ sub.ending = stripe[i].ending /\ sub.status = s
    BY <1>1, <1>3 DEF StripeSubscription
  <1>5. stripe' = [stripe EXCEPT ![i] = sub]
    BY <1>2, <1>3
  <1> QED
    BY <1>1, <1>2, <1>4, <1>5, StripeWritten

LEMMA Delivered ==
    ASSUME Plan!TypeOK, NEW n \in DOMAIN queue, Plan!Deliver(n)
    PROVE  LET e == queue[n] IN
           /\ e \in PlanEvent /\ queue' = Plan!RemoveAt(queue, n)
           /\ n # 1 => "reordered" \in planUpset'
           /\ (\E r \in Requests : Makes(r, e.id)) => "lost" \in planUpset'
           /\ \/ row.id # e.id /\ row' = row
              \/ /\ row.id = e.id /\ row # Plan!NoRow /\ row' \in PlanRow
                 /\ row'.status = e.status /\ row'.id = row.id /\ row'.plan = row.plan
  <1>1. queue[n] \in PlanEvent /\ queue[n].id \in Ids /\ queue[n].status \in Plan!Statuses
    BY PlanTyped DEF PlanEvent
  <1>2. /\ queue' = Plan!RemoveAt(queue, n)
        /\ n # 1 => "reordered" \in planUpset'
    BY UpsetsAdd DEF Plan!Deliver, Plan!Overtaking
  <1>3. (\E r \in Requests : Makes(r, queue[n].id)) => "lost" \in planUpset'
    BY UpsetsAdd DEF Plan!Deliver, Makes, Plan!At
  <1>4. CASE row.id # queue[n].id
    BY <1>1, <1>2, <1>3, <1>4 DEF Plan!Deliver
  <1>5. CASE row.id = queue[n].id
    <2>1. row # Plan!NoRow /\ row \in PlanRow
      BY <1>1, <1>5, PlanTyped, Blanks, NoneIsNobody
    <2>2. row' = [row EXCEPT !.status = queue[n].status]
      BY <1>5 DEF Plan!Deliver
    <2>3. row' \in PlanRow /\ row'.status = queue[n].status /\ row'.id = row.id
          /\ row'.plan = row.plan
      BY <1>1, <2>1, <2>2 DEF PlanRow
    <2> QED
      BY <1>1, <1>2, <1>3, <1>5, <2>1, <2>3
  <1> QED
    BY <1>4, <1>5

LEMMA Thrown ==
    ASSUME Plan!TypeOK, NEW n \in DOMAIN queue, Plan!Throw(n)
    PROVE  /\ queue' = Plan!RemoveAt(queue, n) /\ "lost" \in planUpset'
           /\ n # 1 => "reordered" \in planUpset'
  BY UpsetsAdd DEF Plan!Throw, Plan!Overtaking

\* The properties.
LEMMA PropertyAsked ==
    ASSUME Plan!TypeOK, NEW r \in Requests, Plan!AddProperty(r)
    PROVE  \E new : /\ Moved(r, new) /\ planReq[r].at = "idle" /\ new.id = None
                    /\ \/ new.at = "add" /\ row = Plan!NoRow
                       \/ new.at = "count" /\ row # Plan!NoRow
  <1>1. PICK new : new = [Plan!Idle EXCEPT !.at = IF row = Plan!NoRow THEN "add" ELSE "count",
                            !.limit = IF row = Plan!NoRow THEN MaxProperties ELSE Limit[row.plan]]
    OBVIOUS
  <1>2. row # Plan!NoRow => row.plan \in Plan!Plans
    BY PlanTyped DEF PlanRow
  <1>3. MaxProperties \in Nat /\ Limit \in [Plan!Plans -> Nat]
    BY PlanSizes DEF Plan!Sizes
  <1>4. new \in PlanRequest /\ new.id = None
        /\ \/ new.at = "add" /\ row = Plan!NoRow
           \/ new.at = "count" /\ row # Plan!NoRow
    BY <1>1, <1>2, <1>3 DEF Plan!Idle, PlanRequest
  <1> QED
    BY <1>1, <1>4, PlanPut, Blanks DEF Plan!AddProperty

LEMMA LimitPassed ==
    ASSUME Plan!TypeOK, NEW r \in Requests, Plan!CountProperties(r)
    PROVE  /\ planReq[r].at = "count" /\ planReq[r].limit \in Nat
           /\ \/ Moved(r, Plan!Idle) /\ planUpset' = planUpset
              \/ \E new : /\ Moved(r, new) /\ new.at = "add" /\ new.id = planReq[r].id
                          /\ count < planReq[r].limit
                          /\ planUpset \subseteq planUpset' /\ planUpset' \subseteq PlanUpsets
                          /\ planReq[r].limit > Limit[row.plan] => "shrunk" \in planUpset'
                          /\ Plan!At({"add"}) # {}
                             /\ count + Plan!Cardinality(Plan!At({"add"})) >= Limit[row.plan]
                                => "crowded" \in planUpset'
  <1>1. planReq[r].at = "count" /\ planReq[r] \in PlanRequest /\ planReq[r].limit \in Nat
        /\ count \in Nat
    BY PlanTyped, PlanSizes DEF Plan!CountProperties, PlanRequest, Plan!Sizes
  <1>2. CASE count >= planReq[r].limit
    BY <1>1, <1>2, PlanEnd DEF Plan!CountProperties
  <1>3. CASE ~(count >= planReq[r].limit)
    <2>1. PICK new : new = [planReq[r] EXCEPT !.at = "add"]
      OBVIOUS
    <2>2. new \in PlanRequest /\ new.at = "add" /\ new.id = planReq[r].id
      BY <1>1, <2>1 DEF PlanRequest
    <2>3. Moved(r, new)
      BY <1>3, <2>1, <2>2, PlanPut DEF Plan!CountProperties
    <2>4. PICK kinds :
              /\ Plan!Happens(kinds)
              /\ planReq[r].limit > Limit[row.plan] => "shrunk" \in kinds
              /\ Plan!At({"add"}) # {}
                 /\ count + Plan!Cardinality(Plan!At({"add"})) >= Limit[row.plan]
                    => "crowded" \in kinds
      BY <1>3 DEF Plan!CountProperties
    <2> QED
      BY <1>1, <1>3, <2>2, <2>3, <2>4, UpsetsAdd
  <1> QED
    BY <1>2, <1>3

-----------------------------------------------------------------------------
(* What a step leaves as it was. *)

LEMMA RowsFit ==
    ASSUME PlanRows, NEW r \in Requests, NEW new, Moved(r, new), Fits(new)',
           row # Plan!NoRow => row' # Plan!NoRow /\ row'.id = row.id,
           \A i \in Ids : stripe[i].ending => stripe'[i].ending
    PROVE  PlanRows'
  <1>1. ASSUME NEW s \in Requests PROVE Fits(planReq[s])'
    <2>1. CASE s = r
      BY <2>1 DEF Moved, Fits
    <2>2. CASE s # r
      <3>1. planReq'[s] = planReq[s] /\ Fits(planReq[s])
        BY <2>2 DEF Moved, PlanRows
      <3> QED
        BY <3>1 DEF Fits
    <2> QED
      BY <2>1, <2>2
  <1> QED
    BY <1>1 DEF PlanRows

LEMMA RowsStay ==
    ASSUME PlanRows, planReq' = planReq,
           row # Plan!NoRow => row' # Plan!NoRow /\ row'.id = row.id,
           \A i \in Ids : stripe[i].ending => stripe'[i].ending
    PROVE  PlanRows'
  BY DEF PlanRows, Fits

LEMMA IdleFits == Fits(Plan!Idle)' /\ Plan!Idle.at = "idle"
  BY DEF Fits, Plan!Idle

\* The requests at some places: one that moves between others changes nothing.
LEMMA PlaceMoves ==
    ASSUME NEW r \in Requests, NEW new, Moved(r, new), NEW places
    PROVE  /\ (planReq[r].at \in places <=> new.at \in places) =>
                 Plan!At(places)' = Plan!At(places)
           /\ planReq[r].at \notin places /\ new.at \in places =>
                 Plan!At(places)' = Plan!At(places) \union {r}
           /\ new.at \notin places => Plan!At(places)' = Plan!At(places) \ {r}
           /\ r \in Plan!At(places) <=> planReq[r].at \in places
  BY DEF Moved, Plan!At

LEMMA MakersMove ==
    ASSUME NEW r \in Requests, NEW new, Moved(r, new)
    PROVE  /\ \A s \in Requests \ {r} : \A i : Makes(s, i)' = Makes(s, i)
           /\ \A i : Makes(r, i)' <=> new.at = "row" /\ new.id = i
  BY DEF Moved, Makes

LEMMA Sizes ==
    /\ \A S : Plan!Cardinality(S) = Cardinality(S)
    /\ \A places : IsFiniteSet(Plan!At(places)) /\ Crowd(places) \in Nat /\ Crowd(places)' \in Nat
  <1>1. \A S : Plan!Cardinality(S) = Cardinality(S)
    BY Zenon DEF Plan!Cardinality, Cardinality
  <1>2. ASSUME NEW places
        PROVE  IsFiniteSet(Plan!At(places)) /\ Crowd(places) \in Nat /\ Crowd(places)' \in Nat
    <2>1. Plan!At(places) \subseteq Requests /\ Plan!At(places)' \subseteq Requests
      BY DEF Plan!At
    <2>2. IsFiniteSet(Plan!At(places)) /\ IsFiniteSet(Plan!At(places)')
      BY <2>1, RequestsFinite, FS_Subset
    <2> QED
      BY <2>2, FS_CardinalityType DEF Crowd
  <1> QED
    BY <1>1, <1>2

\* The plan's limit is a number, once there is a row.
LEMMA LimitTyped ==
    ASSUME Plan!TypeOK
    PROVE  /\ count \in Nat /\ MaxProperties \in Nat
           /\ row # Plan!NoRow => Limit[row.plan] \in Nat
  <1>1. row # Plan!NoRow => row.plan \in Plan!Plans
    BY PlanTyped DEF PlanRow
  <1> QED
    BY <1>1, PlanTyped, PlanSizes DEF Plan!Sizes

LEMMA CrowdMoves ==
    ASSUME NEW r \in Requests, NEW new, Moved(r, new), NEW places
    PROVE  /\ (planReq[r].at \in places <=> new.at \in places) => Crowd(places)' = Crowd(places)
           /\ planReq[r].at \notin places /\ new.at \in places =>
                 Crowd(places)' = Crowd(places) + 1
           /\ planReq[r].at \in places /\ new.at \notin places =>
                 Crowd(places)' = Crowd(places) - 1
           /\ Plan!At(places) = {} => Crowd(places) = 0
           /\ planReq[r].at \in places => Crowd(places) > 0
  <1>1. IsFiniteSet(Plan!At(places)) /\ Cardinality(Plan!At(places)) \in Nat
    BY Sizes DEF Crowd
  <1>2. ASSUME planReq[r].at \in places <=> new.at \in places
        PROVE  Crowd(places)' = Crowd(places)
    <2>1. Plan!At(places)' = Plan!At(places)
      BY <1>2, PlaceMoves
    <2> QED
      BY <2>1 DEF Crowd
  <1>3. ASSUME planReq[r].at \notin places, new.at \in places
        PROVE  Crowd(places)' = Crowd(places) + 1
    <2>1. Plan!At(places)' = Plan!At(places) \union {r} /\ r \notin Plan!At(places)
      BY <1>3, PlaceMoves
    <2>2. Cardinality(Plan!At(places) \union {r}) = Cardinality(Plan!At(places)) + 1
      BY <1>1, <2>1, FS_AddElement
    <2> QED
      BY <2>1, <2>2 DEF Crowd
  <1>4. ASSUME planReq[r].at \in places, new.at \notin places
        PROVE  Crowd(places)' = Crowd(places) - 1
    <2>1. Plan!At(places)' = Plan!At(places) \ {r} /\ r \in Plan!At(places)
      BY <1>4, PlaceMoves
    <2>2. Cardinality(Plan!At(places) \ {r}) = Cardinality(Plan!At(places)) - 1
      BY <1>1, <2>1, FS_RemoveElement
    <2> QED
      BY <2>1, <2>2 DEF Crowd
  <1>5. Plan!At(places) = {} => Crowd(places) = 0
    BY FS_EmptySet DEF Crowd
  <1>6. planReq[r].at \in places => Crowd(places) > 0
    <2>1. planReq[r].at \in places => Plan!At(places) # {}
      BY PlaceMoves
    <2>2. Cardinality(Plan!At(places)) = 0 => Plan!At(places) = {}
      BY <1>1, FS_EmptySet
    <2> QED
      BY <1>1, <2>1, <2>2 DEF Crowd
  <1> QED
    BY <1>2, <1>3, <1>4, <1>5, <1>6

LEMMA AgreementStays ==
    ASSUME Agreement, UNCHANGED <<stripe, queue>>, row'.id = row.id,
           planUpset \subseteq planUpset',
           \/ row'.status = row.status
           \/ "admin" \in planUpset'
           \/ row'.status = "canceled" /\ (row.id \in Ids => stripe[row.id].ending),
           planStray \subseteq planStray',
           \A s \in Requests, i \in Ids : Makes(s, i)' => Makes(s, i) /\ planReq'[s] = planReq[s],
           \A s \in Requests, i \in Ids : Makes(s, i) => Makes(s, i)' \/ i \in planStray'
    PROVE  Agreement'
  <1>1. PlanBorn'
    BY DEF Agreement, PlanBorn, Born
  <1>2. LastEvents' /\ RowFollows'
    <2>1. LastEvents'
      BY DEF Agreement, LastEvents, Plan!Without
    <2>2. RowFollows'
      BY DEF Agreement, RowFollows, Queued, Plan!Without
    <2> QED
      BY <2>1, <2>2
  <1>3. MakersFollow'
    BY DEF Agreement, MakersFollow, Queued, Plan!Without
  <1>4. Billed'
    BY DEF Agreement, Billed, Born
  <1> QED
    BY <1>1, <1>2, <1>3, <1>4 DEF Agreement

LEMMA AtMost == ASSUME NEW a \in Int, NEW b \in Int, NEW c \in Int, a <= b, b <= c PROVE a <= c
  OBVIOUS

LEMMA CountedStays ==
    ASSUME Plan!TypeOK, count' \in Nat, Counted, planUpset \subseteq planUpset',
           row' = row \/ (row # Plan!NoRow /\ row'.plan = row.plan),
           row = Plan!NoRow \/ count' + Crowd({"add"})' <= count + Crowd({"add"}),
           count' + Crowd({"count", "add"})' <= count + Crowd({"count", "add"})
    PROVE  Counted'
  <1>1. /\ count \in Nat /\ MaxProperties \in Nat
        /\ row # Plan!NoRow => Limit[row.plan] \in Nat
        /\ \A places : Crowd(places) \in Nat /\ Crowd(places)' \in Nat
    BY LimitTyped, Sizes
  <1>2. ASSUME row' # Plan!NoRow, Plan!Without({"crowded", "shrunk"})'
        PROVE  count' + Crowd({"add"})' <= Limit[row'.plan]
    <2>1. row # Plan!NoRow /\ Plan!Without({"crowded", "shrunk"}) /\ row'.plan = row.plan
      BY <1>2 DEF Plan!Without
    <2>2. count + Crowd({"add"}) <= Limit[row.plan]
      BY <2>1 DEF Counted
    <2>3. count' + Crowd({"add"})' \in Int /\ count + Crowd({"add"}) \in Int
          /\ Limit[row.plan] \in Int
      BY <1>1, <2>1
    <2>4. count' + Crowd({"add"})' <= Limit[row.plan]
      BY <2>1, <2>2, <2>3, AtMost
    <2> QED
      BY <2>1, <2>4
  <1>3. count' + Crowd({"count", "add"})' <= MaxProperties
    <2>1. count + Crowd({"count", "add"}) <= MaxProperties
      BY DEF Counted
    <2>2. count' + Crowd({"count", "add"})' \in Int /\ count + Crowd({"count", "add"}) \in Int
      BY <1>1
    <2> QED
      BY <1>1, <2>1, <2>2, AtMost
  <1> QED
    BY <1>2, <1>3 DEF Counted

\* A request that moves while the properties stay.
LEMMA CountedQuiet ==
    ASSUME PlanInv, NEW r \in Requests, NEW new, Moved(r, new), count' = count,
           row' = row \/ (row # Plan!NoRow /\ row'.plan = row.plan),
           planUpset \subseteq planUpset', new.at \notin {"count", "add"}
    PROVE  Counted'
  <1>1. \A places : Crowd(places) \in Nat
    BY Sizes
  <1>2. Crowd({"add"})' = Crowd({"add"}) \/ Crowd({"add"})' = Crowd({"add"}) - 1
    BY CrowdMoves
  <1>3. Crowd({"count", "add"})' = Crowd({"count", "add"})
        \/ Crowd({"count", "add"})' = Crowd({"count", "add"}) - 1
    BY CrowdMoves
  <1>4. count \in Nat /\ Plan!TypeOK
    BY LimitTyped DEF PlanInv
  <1>5. Crowd({"add"}) \in Nat /\ Crowd({"count", "add"}) \in Nat
    BY <1>1
  <1>6. /\ count' + Crowd({"add"})' <= count + Crowd({"add"})
        /\ count' + Crowd({"count", "add"})' <= count + Crowd({"count", "add"})
    BY <1>2, <1>3, <1>4, <1>5
  <1> QED
    BY <1>4, <1>6, CountedStays DEF PlanInv

LEMMA PricedStays ==
    ASSUME Priced, planUpset \subseteq planUpset', row'.id = row.id, row'.plan = row.plan,
           row.id \in Ids => stripe'[row.id].plan = stripe[row.id].plan,
           Plan!At({"price", "plan"})' \subseteq Plan!At({"price", "plan"}),
           Plan!At({"plan"})' = Plan!At({"plan"}),
           \A r \in Plan!At({"plan"}) : planReq'[r] = planReq[r]
    PROVE  Priced'
  BY DEF Priced, Plan!Without

\* No request moves.
LEMMA NobodyMoves ==
    ASSUME planReq' = planReq
    PROVE  /\ \A places : Plan!At(places)' = Plan!At(places) /\ Crowd(places)' = Crowd(places)
           /\ \A s, i : Makes(s, i)' = Makes(s, i)
  <1>1. \A places : Plan!At(places)' = Plan!At(places)
    BY DEF Plan!At
  <1>2. \A places : Crowd(places)' = Crowd(places)
    BY <1>1 DEF Crowd
  <1> QED
    BY <1>1, <1>2 DEF Makes

-----------------------------------------------------------------------------
(* One action at a time. *)

\* A request that neither comes to have a subscription of its own nor had one.
LEMMA RequestQuiet ==
    ASSUME PlanInv, NEW r \in Requests, NEW new, Moved(r, new), Fits(new)',
           UNCHANGED <<row, stripe, queue, sent, count, planStray>>,
           planUpset \subseteq planUpset', planUpset' \subseteq PlanUpsets,
           planReq[r].at = "row" => planReq[r].id = None,
           new.at = "row" => new.id = None
    PROVE  Plan!TypeOK' /\ PlanRows' /\ Agreement'
  <1>1. Plan!TypeOK'
    <2>1. planReq' \in [Requests -> PlanRequest]
      BY DEF Moved
    <2> QED
      BY <2>1, PlanTyped, PlanTypesKept DEF PlanInv
  <1>2. PlanRows'
    BY RowsFit DEF PlanInv
  <1>3. Agreement'
    <2>1. \A i \in Ids : ~Makes(r, i) /\ ~Makes(r, i)'
      BY MakersMove, NoneIsNobody DEF Makes
    <2>2. \A s \in Requests, i \in Ids : Makes(s, i)' => Makes(s, i) /\ planReq'[s] = planReq[s]
      BY <2>1, MakersMove DEF Moved
    <2>3. \A s \in Requests, i \in Ids : Makes(s, i) => Makes(s, i)'
      BY <2>1, MakersMove
    <2> QED
      BY <2>2, <2>3, AgreementStays DEF PlanInv
  <1> QED
    BY <1>1, <1>2, <1>3

LEMMA PricedMoves ==
    ASSUME PlanInv, NEW r \in Requests, NEW new, Moved(r, new), planUpset \subseteq planUpset',
           row'.id = row.id, row'.plan = row.plan,
           row.id \in Ids => stripe'[row.id].plan = stripe[row.id].plan,
           planReq[r].at # "plan", new.at \notin {"price", "plan"}
    PROVE  Priced'
  <1>1. Plan!At({"plan"})' = Plan!At({"plan"}) /\ r \notin Plan!At({"plan"})
    BY PlaceMoves
  <1>2. Plan!At({"price", "plan"})' \subseteq Plan!At({"price", "plan"})
    BY PlaceMoves
  <1>3. \A s \in Plan!At({"plan"}) : planReq'[s] = planReq[s]
    BY <1>1 DEF Moved, Plan!At
  <1> QED
    BY <1>1, <1>2, <1>3, PricedStays DEF PlanInv

LEMMA PricedQuiet ==
    ASSUME PlanInv, NEW r \in Requests, NEW new, Moved(r, new), UNCHANGED <<row, stripe>>,
           planUpset \subseteq planUpset',
           planReq[r].at # "plan", new.at \notin {"price", "plan"}
    PROVE  Priced'
  BY PricedMoves

LEMMA KeptBySubscribe ==
    ASSUME PlanInv, NEW r \in Requests, NEW p \in Plan!Plans, Plan!Subscribe(r, p)
    PROVE  PlanInv'
  <1>1. PICK new : Moved(r, new) /\ new.at = "customer" /\ new.plan = p /\ new.id = None
    BY Subscribed DEF PlanInv
  <1>2. Fits(new)' /\ planReq[r].at = "idle" /\ planUpset \subseteq PlanUpsets
    BY <1>1, Blanks, PlanTyped DEF Fits, Plan!Subscribe, PlanInv
  <1>3. UNCHANGED <<row, stripe, queue, sent, count, planStray, planUpset>>
    BY DEF Plan!Subscribe
  <1> QED
    BY <1>1, <1>2, <1>3, RequestQuiet, PricedQuiet, CountedQuiet DEF PlanInv

LEMMA KeptByChangePlan ==
    ASSUME PlanInv, NEW r \in Requests, NEW p \in Plan!Plans, Plan!ChangePlan(r, p)
    PROVE  PlanInv'
  <1>1. PICK new : /\ Moved(r, new) /\ new.plan = p /\ new.id = row.id /\ row # Plan!NoRow
                   /\ \/ new.at = "plan" /\ row.id = None
                      \/ new.at = "price" /\ row.id \in Ids
    BY ChangeAsked DEF PlanInv
  <1>2. UNCHANGED <<row, stripe, queue, sent, count, planStray>> /\ planReq[r].at = "idle"
    BY Blanks DEF Plan!ChangePlan
  <1>3. Fits(new)'
    BY <1>1, <1>2 DEF Fits
  <1>4. /\ planUpset \subseteq planUpset' /\ planUpset' \subseteq PlanUpsets
        /\ Plan!At({"price", "plan"}) # {} => "crossed" \in planUpset'
    BY UpsetsAdd DEF Plan!ChangePlan
  <1>5. Priced'
    <2>1. Plan!At({"price", "plan"})' = Plan!At({"price", "plan"}) \union {r}
      BY <1>1, <1>2, PlaceMoves
    <2>2. Plan!Without({"crossed"})' =>
              \A q, s \in Plan!At({"price", "plan"})' : q = s
      BY <1>4, <2>1 DEF Plan!Without
    <2>3. CASE row.id = None
      BY <1>2, <2>2, <2>3, NoneIsNobody DEF Priced
    <2>4. CASE row.id \in Ids
      <3>1. new.at = "price"
        BY <1>1, <2>4, NoneIsNobody
      <3>2. Plan!At({"plan"})' = Plan!At({"plan"}) /\ r \notin Plan!At({"plan"})
        BY <1>1, <1>2, <3>1, PlaceMoves
      <3>3. \A s \in Plan!At({"plan"}) : planReq'[s] = planReq[s]
        BY <1>1, <3>2 DEF Moved, Plan!At
      <3> QED
        BY <1>2, <1>4, <2>2, <3>2, <3>3 DEF Priced, PlanInv, Plan!Without
    <2> QED
      BY <1>1, <2>3, <2>4
  <1> QED
    BY <1>1, <1>2, <1>3, <1>4, <1>5, RequestQuiet, CountedQuiet DEF PlanInv

LEMMA KeptByCancel ==
    ASSUME PlanInv, NEW r \in Requests, Plan!Cancel(r) PROVE PlanInv'
  <1>1. PICK new : /\ Moved(r, new) /\ new.id = row.id /\ row # Plan!NoRow
                   /\ \/ new.at = "mark" /\ row.id = None
                      \/ new.at = "cancel" /\ row.id \in Ids
    BY CancelAsked DEF PlanInv
  <1>2. UNCHANGED <<row, stripe, queue, sent, count, planStray, planUpset>>
        /\ planReq[r].at = "idle" /\ planUpset \subseteq PlanUpsets
    BY Blanks, PlanTyped DEF Plan!Cancel, PlanInv
  <1>3. Fits(new)'
    BY <1>1, <1>2, NoneIsNobody DEF Fits
  <1> QED
    BY <1>1, <1>2, <1>3, RequestQuiet, PricedQuiet, CountedQuiet DEF PlanInv

LEMMA KeptByAddProperty ==
    ASSUME PlanInv, NEW r \in Requests, Plan!AddProperty(r) PROVE PlanInv'
  <1>1. PICK new : /\ Moved(r, new) /\ planReq[r].at = "idle" /\ new.id = None
                   /\ \/ new.at = "add" /\ row = Plan!NoRow
                      \/ new.at = "count" /\ row # Plan!NoRow
    BY PropertyAsked DEF PlanInv
  <1>2. UNCHANGED <<row, stripe, queue, sent, count, planStray, planUpset>>
        /\ planUpset \subseteq PlanUpsets
    BY PlanTyped DEF Plan!AddProperty, PlanInv
  <1>3. Fits(new)'
    BY <1>1, <1>2 DEF Fits
  <1>4. Counted'
    <2>1. Crowd({"count", "add"}) \in Nat /\ count \in Nat /\ MaxProperties \in Nat
      BY Sizes, LimitTyped DEF PlanInv
    <2>2. count + Crowd({"count", "add"}) < MaxProperties
      BY Sizes DEF Plan!AddProperty, Crowd
    <2>3. Crowd({"count", "add"})' = Crowd({"count", "add"}) + 1
      BY <1>1, CrowdMoves
    <2>4. count' + Crowd({"count", "add"})' <= MaxProperties
      BY <1>2, <2>1, <2>2, <2>3
    <2>5. row # Plan!NoRow => Crowd({"add"})' = Crowd({"add"})
      BY <1>1, CrowdMoves
    <2> QED
      BY <1>2, <2>4, <2>5 DEF Counted, PlanInv, Plan!Without
  <1> QED
    BY <1>1, <1>2, <1>3, <1>4, RequestQuiet, PricedQuiet DEF PlanInv

\* A request that ends with nothing done.
LEMMA KeptByEnd ==
    ASSUME PlanInv, NEW r \in Requests, Moved(r, Plan!Idle),
           UNCHANGED <<row, stripe, queue, sent, count, planStray>>,
           planUpset \subseteq planUpset', planUpset' \subseteq PlanUpsets,
           planReq[r].at \in {"customer", "price", "cancel", "mark", "count"}
    PROVE  PlanInv'
  <1>1. Fits(Plan!Idle)' /\ Plan!Idle.at = "idle"
    BY IdleFits
  <1>2. PICK new : new = Plan!Idle
    OBVIOUS
  <1>3. Moved(r, new) /\ Fits(new)' /\ new.at = "idle"
    BY <1>1, <1>2
  <1> QED
    BY <1>3, RequestQuiet, PricedQuiet, CountedQuiet DEF PlanInv

\* A subscription changes at Stripe, which queues an event of it.
LEMMA AgreementSent ==
    ASSUME PlanInv, NEW i \in Ids, Born(i), NEW sub, StripePut(i, sub), Plan!Send(i, sub.status),
           UNCHANGED <<row, planStray, planUpset>>,
           sub.plan = stripe[i].plan \/ row.id = i,
           \A s \in Requests, j \in Ids : Makes(s, j)' <=> Makes(s, j),
           \A s \in Requests, j \in Ids : Makes(s, j) => planReq'[s] = planReq[s]
    PROVE  Agreement'
  <1>1. /\ DOMAIN queue' = 1..(Len(queue) + 1) /\ DOMAIN queue = 1..Len(queue)
        /\ \A n \in DOMAIN queue : queue'[n] = queue[n]
        /\ queue'[Len(queue) + 1].id = i /\ queue'[Len(queue) + 1].status = sub.status
    <2>1. sub.status \in Plan!Statuses
      BY DEF StripePut, StripeSubscription
    <2> QED
      BY <2>1, QueueSent DEF PlanInv
  <1>2. Len(queue) \in Nat /\ \A n \in DOMAIN queue : queue[n].id \in Ids
    BY PlanTyped DEF PlanInv, PlanEvent
  <1>3. PICK top \in Nat : top = Len(queue) + 1
    BY <1>2
  <1>4. /\ DOMAIN queue' = DOMAIN queue \union {top} /\ top \notin DOMAIN queue
        /\ queue'[top].id = i /\ queue'[top].status = sub.status
        /\ \A n \in DOMAIN queue : queue'[n] = queue[n] /\ top > n
    BY <1>1, <1>2, <1>3
  <1>5. /\ stripe'[i] = sub /\ Born(i)' /\ sub.status # "none"
        /\ \A j \in Ids \ {i} : stripe'[j] = stripe[j] /\ Born(j)' = Born(j)
    BY Blanks DEF StripePut, StripeSubscription, Born
  <1>6. \A j \in Ids : Queued(j)' = {} => Queued(j) = {} /\ j # i
    BY <1>4 DEF Queued
  <1>7. PlanBorn'
    <2>1. row.id \in Ids => Born(row.id)'
      BY <1>5 DEF PlanInv, Agreement, PlanBorn, Born
    <2>2. ASSUME NEW n \in DOMAIN queue' PROVE Born(queue[n].id)'
      <3>1. CASE n = top
        BY <1>4, <1>5, <3>1 DEF Born
      <3>2. CASE n \in DOMAIN queue
        <4>1. Born(queue[n].id) /\ queue[n].id \in Ids /\ queue'[n] = queue[n]
          BY <1>2, <1>4, <3>2 DEF PlanInv, Agreement, PlanBorn
        <4> QED
          BY <1>5, <4>1 DEF Born
      <3> QED
        BY <1>4, <3>1, <3>2
    <2>3. ASSUME NEW r \in Requests, NEW j \in Ids, Makes(r, j)'
          PROVE  /\ Born(j)' /\ row.id # j /\ stripe'[j].plan = planReq'[r].plan
                 /\ \A s \in Requests : Makes(s, j)' => s = r
      <3>1. /\ Makes(r, j) /\ Born(j) /\ row.id # j /\ stripe[j].plan = planReq[r].plan
            /\ \A s \in Requests : Makes(s, j) => s = r
        BY <2>3 DEF PlanInv, Agreement, PlanBorn
      <3>2. stripe'[j].plan = stripe[j].plan /\ Born(j)'
        BY <1>5, <3>1
      <3> QED
        BY <3>1, <3>2
    <2> QED
      BY <2>1, <2>2, <2>3 DEF PlanBorn
  <1>8. LastEvents'
    <2>1. ASSUME Plan!Without({"reordered"}), NEW n \in DOMAIN queue'
          PROVE  \/ \E m \in DOMAIN queue' : m > n /\ queue'[m].id = queue'[n].id
                 \/ queue'[n].status = stripe'[queue'[n].id].status
      <3>1. CASE n = top
        BY <1>4, <1>5, <3>1
      <3>2. CASE n \in DOMAIN queue /\ queue[n].id = i
        BY <1>4, <3>2
      <3>3. CASE n \in DOMAIN queue /\ queue[n].id # i
        <4>1. \/ \E m \in DOMAIN queue : m > n /\ queue[m].id = queue[n].id
              \/ queue[n].status = stripe[queue[n].id].status
          BY <2>1, <3>3 DEF PlanInv, Agreement, LastEvents
        <4>2. queue'[n] = queue[n] /\ stripe'[queue[n].id] = stripe[queue[n].id]
          BY <1>2, <1>4, <1>5, <3>3
        <4> QED
          BY <1>4, <4>1, <4>2
      <3> QED
        BY <1>4, <3>1, <3>2, <3>3
    <2> QED
      BY <2>1 DEF LastEvents, Plan!Without
  <1>9. RowFollows'
    <2>1. ASSUME Plan!Without({"reordered", "lost", "admin"}), row.id \in Ids, Queued(row.id)' = {}
          PROVE  \/ row.status = stripe'[row.id].status
                 \/ row.status = "canceled" /\ stripe'[row.id].ending
      BY <1>5, <1>6, <2>1 DEF PlanInv, Agreement, RowFollows
    <2> QED
      BY <2>1 DEF RowFollows, Queued, Plan!Without
  <1>10. MakersFollow'
    <2>1. ASSUME Plan!Without({"reordered", "lost"}), NEW r \in Requests, NEW j \in Ids,
                 Makes(r, j), Queued(j)' = {}
          PROVE  stripe'[j].status = "trialing"
      BY <1>5, <1>6, <2>1 DEF PlanInv, Agreement, MakersFollow
    <2> QED
      BY <2>1 DEF MakersFollow, Queued, Plan!Without
  <1>11. Billed'
    <2>1. ASSUME NEW j \in Ids, Born(j)'
          PROVE  row.id = j \/ j \in planStray \/ \E r \in Requests : Makes(r, j)'
      <3>1. Born(j)
        BY <1>5, <2>1
      <3> QED
        BY <3>1 DEF PlanInv, Agreement, Billed
    <2> QED
      BY <2>1 DEF Billed, Born
  <1> QED
    BY <1>7, <1>8, <1>9, <1>10, <1>11 DEF Agreement

\* An event is taken out of the queue: the row had it written, or it is lost.
LEMMA AgreementTaken ==
    ASSUME PlanInv, NEW n \in DOMAIN queue, queue' = Plan!RemoveAt(queue, n),
           UNCHANGED <<stripe, planReq, planStray>>, row'.id = row.id,
           planUpset \subseteq planUpset', n # 1 => "reordered" \in planUpset',
           \/ "lost" \in planUpset'
           \/ /\ \A r \in Requests : ~Makes(r, queue[n].id)
              /\ \/ row' = row /\ row.id # queue[n].id
                 \/ row.id = queue[n].id /\ row'.status = queue[n].status
    PROVE  Agreement'
  <1>1. /\ Len(queue) \in Nat /\ n \in 1..Len(queue) /\ DOMAIN queue = 1..Len(queue)
        /\ DOMAIN queue' = 1..(Len(queue) - 1)
        /\ \A k \in DOMAIN queue' : queue'[k] = IF k < n THEN queue[k] ELSE queue[k + 1]
        /\ \A k \in DOMAIN queue : queue[k] \in PlanEvent /\ queue[k].id \in Ids
    BY PlanTyped, QueueTaken DEF PlanInv, PlanEvent
  <1>2. \A k \in DOMAIN queue' : \E m \in DOMAIN queue : queue'[k] = queue[m]
    BY <1>1
  <1>3. ASSUME n = 1
        PROVE  /\ \A k \in DOMAIN queue' : k + 1 \in DOMAIN queue /\ queue'[k] = queue[k + 1]
               /\ \A k \in DOMAIN queue : k > 1 =>
                     k - 1 \in DOMAIN queue' /\ queue'[k - 1] = queue[k]
    <2>2. \A k \in DOMAIN queue' : k \in Int /\ ~(k < n) /\ k + 1 \in DOMAIN queue
      BY <1>1, <1>3
    <2>3. \A k \in DOMAIN queue' : k + 1 \in DOMAIN queue /\ queue'[k] = queue[k + 1]
      BY <1>1, <2>2
    <2>4. ASSUME NEW k \in DOMAIN queue, k > 1
          PROVE  k - 1 \in DOMAIN queue' /\ queue'[k - 1] = queue[k]
      <3>1. k - 1 \in DOMAIN queue' /\ (k - 1) + 1 = k
        BY <1>1, <2>4
      <3> QED
        BY <2>3, <3>1
    <2> QED
      BY <2>3, <2>4
  <1>4. \A r \in Requests, i \in Ids : Makes(r, i)' = Makes(r, i)
    BY DEF Makes
  <1>5. PlanBorn'
    BY <1>2 DEF PlanInv, Agreement, PlanBorn, Born, Makes
  <1>6. LastEvents'
    <2>1. ASSUME Plan!Without({"reordered"})', NEW k \in DOMAIN queue'
          PROVE  \/ \E m \in DOMAIN queue' : m > k /\ queue'[m].id = queue'[k].id
                 \/ queue'[k].status = stripe[queue'[k].id].status
      <3>1. n = 1 /\ Plan!Without({"reordered"})
        BY <2>1 DEF Plan!Without
      <3>2. k + 1 \in DOMAIN queue /\ queue'[k] = queue[k + 1] /\ k \in Nat
        BY <1>1, <1>3, <2>1, <3>1
      <3>3. \/ \E m \in DOMAIN queue : m > k + 1 /\ queue[m].id = queue[k + 1].id
            \/ queue[k + 1].status = stripe[queue[k + 1].id].status
        BY <3>1, <3>2 DEF PlanInv, Agreement, LastEvents
      <3>4. ASSUME NEW m \in DOMAIN queue, m > k + 1, queue[m].id = queue[k + 1].id
            PROVE  \E j \in DOMAIN queue' : j > k /\ queue'[j].id = queue'[k].id
        <4>1. m - 1 \in DOMAIN queue' /\ queue'[m - 1] = queue[m] /\ m - 1 > k
          BY <1>1, <1>3, <3>1, <3>2, <3>4
        <4> QED
          BY <3>2, <3>4, <4>1
      <3> QED
        BY <3>2, <3>3, <3>4
    <2> QED
      BY <2>1 DEF LastEvents
  <1>7. ASSUME n = 1, NEW i \in Ids, Queued(i)' = {}, i # queue[n].id PROVE Queued(i) = {}
    <2>1. ASSUME NEW k \in DOMAIN queue, queue[k].id = i PROVE FALSE
      <3>1. k > 1
        BY <1>1, <1>7, <2>1
      <3>2. k - 1 \in DOMAIN queue' /\ queue'[k - 1] = queue[k]
        BY <1>3, <1>7, <2>1, <3>1
      <3> QED
        BY <1>7, <2>1, <3>2 DEF Queued
    <2> QED
      BY <2>1 DEF Queued
  <1>8. ASSUME n = 1, NEW i \in Ids, Queued(i)' = {}, i = queue[n].id,
               Plan!Without({"reordered"})
        PROVE  queue[n].status = stripe[i].status
    <2>1. \/ \E m \in DOMAIN queue : m > n /\ queue[m].id = queue[n].id
          \/ queue[n].status = stripe[queue[n].id].status
      BY <1>8 DEF PlanInv, Agreement, LastEvents
    <2>2. ASSUME NEW m \in DOMAIN queue, m > n, queue[m].id = queue[n].id PROVE FALSE
      <3>1. m - 1 \in DOMAIN queue' /\ queue'[m - 1] = queue[m]
        BY <1>3, <1>8, <2>2
      <3> QED
        BY <1>8, <2>2, <3>1 DEF Queued
    <2> QED
      BY <1>8, <2>1, <2>2
  <1>9. RowFollows'
    <2>1. ASSUME Plan!Without({"reordered", "lost", "admin"})', NEW i \in Ids, i = row.id,
                 Queued(i)' = {}
          PROVE  \/ row'.status = stripe[i].status
                 \/ row'.status = "canceled" /\ stripe[i].ending
      <3>1. /\ n = 1 /\ "lost" \notin planUpset' /\ Plan!Without({"reordered"})
            /\ Plan!Without({"reordered", "lost", "admin"})
        BY <2>1 DEF Plan!Without
      <3>2. CASE row' = row /\ i # queue[n].id
        <4>1. Queued(i) = {}
          BY <1>7, <2>1, <3>1, <3>2
        <4>2. Queued(row.id) = {} /\ row.id \in Ids
          BY <2>1, <4>1
        <4> QED
          BY <2>1, <3>1, <3>2, <4>2 DEF PlanInv, Agreement, RowFollows
      <3>3. CASE i = queue[n].id /\ row'.status = queue[n].status
        BY <1>8, <2>1, <3>1, <3>3
      <3> QED
        BY <2>1, <3>1, <3>2, <3>3
    <2>2. ASSUME Plan!Without({"reordered", "lost", "admin"})', row'.id \in Ids,
                 Queued(row.id)' = {}
          PROVE  \/ row'.status = stripe'[row'.id].status
                 \/ row'.status = "canceled" /\ stripe'[row'.id].ending
      <3>1. PICK i \in Ids : i = row.id
        BY <2>2
      <3>2. Queued(i)' = {}
        BY <2>2, <3>1 DEF Queued
      <3> QED
        BY <2>1, <2>2, <3>1, <3>2
    <2> QED
      BY <2>2 DEF RowFollows
  <1>10. MakersFollow'
    <2>1. ASSUME Plan!Without({"reordered", "lost"})', NEW r \in Requests, NEW i \in Ids,
                 Makes(r, i)', Queued(i)' = {}
          PROVE  stripe[i].status = "trialing"
      <3>1. /\ n = 1 /\ "lost" \notin planUpset' /\ Makes(r, i)
            /\ Plan!Without({"reordered", "lost"})
        BY <1>4, <2>1 DEF Plan!Without
      <3>2. i # queue[n].id
        BY <3>1
      <3>3. Queued(i) = {}
        BY <1>7, <2>1, <3>1, <3>2
      <3> QED
        BY <3>1, <3>3 DEF PlanInv, Agreement, MakersFollow
    <2> QED
      BY <2>1 DEF MakersFollow
  <1>11. Billed'
    BY DEF PlanInv, Agreement, Billed, Born, Makes
  <1> QED
    BY <1>5, <1>6, <1>9, <1>10, <1>11 DEF Agreement

LEMMA KeptByCreateAtStripe ==
    ASSUME PlanInv, NEW r \in Requests, Plan!CreateAtStripe(r) PROVE PlanInv'
  <1>1. UNCHANGED <<row, queue, sent, count, planStray, planUpset>>
        /\ planReq[r].at = "customer" /\ planUpset \subseteq PlanUpsets
    BY PlanTyped DEF Plan!CreateAtStripe, PlanInv
  <1>2. CASE Moved(r, Plan!Idle) /\ stripe' = stripe
    BY <1>1, <1>2, KeptByEnd
  <1>3. CASE \E new : /\ Moved(r, new) /\ stripe' = stripe
                      /\ new.at = "row" /\ new.id = None /\ new.plan \in Plan!Plans
    <2>1. PICK new : /\ Moved(r, new) /\ stripe' = stripe
                     /\ new.at = "row" /\ new.id = None /\ new.plan \in Plan!Plans
      BY <1>3
    <2>2. Fits(new)'
      BY <2>1 DEF Fits
    <2> QED
      BY <1>1, <2>1, <2>2, RequestQuiet, PricedQuiet, CountedQuiet DEF PlanInv
  <1>4. ASSUME NEW i \in Ids, NEW new, NEW sub,
               ~Born(i), StripePut(i, sub), Moved(r, new),
               sub.status = "trialing", ~sub.ending, sub.plan = planReq[r].plan,
               new.at = "row", new.id = i, new.plan = planReq[r].plan, new.plan \in Plan!Plans
        PROVE  PlanInv'
    <2>1. /\ row.id # i /\ ~stripe[i].ending
          /\ \A n \in DOMAIN queue : queue[n].id # i /\ queue[n].id \in Ids
          /\ \A s \in Requests : ~Makes(s, i)
      BY <1>4, BornTyped, PlanTyped DEF PlanInv, Agreement, PlanBorn, PlanEvent
    <2>2. /\ stripe'[i] = sub /\ sub.status \in Plan!Statuses /\ Born(i)'
          /\ \A j \in Ids \ {i} : stripe'[j] = stripe[j] /\ Born(j)' = Born(j)
      BY <1>4, Blanks DEF StripePut, StripeSubscription, Born
    <2>3. /\ \A s \in Requests \ {r} : \A j : Makes(s, j)' = Makes(s, j)
          /\ \A j : Makes(r, j)' <=> j = i
          /\ \A j : ~Makes(r, j)
      BY <1>1, <1>4, MakersMove DEF Makes
    <2>4. Plan!TypeOK'
      <3>1. /\ stripe' \in [Ids -> {Plan!Unborn} \union StripeSubscription]
            /\ planReq' \in [Requests -> PlanRequest]
        BY <1>4 DEF StripePut, Moved
      <3> QED
        BY <1>1, <3>1, PlanTyped, PlanTypesKept DEF PlanInv
    <2>5. PlanRows'
      <3>1. Fits(new)'
        BY <1>4 DEF Fits
      <3>2. \A j \in Ids : stripe[j].ending => stripe'[j].ending
        BY <2>1, <2>2
      <3> QED
        BY <1>1, <1>4, <3>1, <3>2, RowsFit DEF PlanInv
    <2>6. PlanBorn'
      <3>1. row'.id \in Ids => Born(row.id)'
        BY <1>1, <2>2 DEF PlanInv, Agreement, PlanBorn, Born
      <3>2. ASSUME NEW n \in DOMAIN queue' PROVE Born(queue[n].id)'
        <4>1. n \in DOMAIN queue /\ queue'[n] = queue[n]
          BY <1>1
        <4>2. Born(queue[n].id) /\ queue[n].id \in Ids \ {i}
          BY <2>1, <4>1 DEF PlanInv, Agreement, PlanBorn
        <4> QED
          BY <2>2, <4>1, <4>2 DEF Born
      <3>3. ASSUME NEW q \in Requests, NEW j \in Ids, Makes(q, j)'
            PROVE  /\ Born(j)' /\ row'.id # j /\ stripe'[j].plan = planReq'[q].plan
                   /\ \A s \in Requests : Makes(s, j)' => s = q
        <4>1. CASE q = r
          <5>1. j = i /\ planReq'[q] = new
            BY <1>4, <2>3, <3>3, <4>1 DEF Moved
          <5> QED
            BY <1>1, <1>4, <2>1, <2>2, <2>3, <4>1, <5>1
        <4>2. CASE q # r
          <5>1. Makes(q, j) /\ planReq'[q] = planReq[q]
            BY <1>4, <2>3, <3>3, <4>2 DEF Moved
          <5>2. /\ Born(j) /\ row.id # j /\ stripe[j].plan = planReq[q].plan
                /\ \A s \in Requests : Makes(s, j) => s = q
            BY <5>1 DEF PlanInv, Agreement, PlanBorn
          <5>3. j # i
            BY <1>4, <5>2
          <5> QED
            BY <1>1, <2>2, <2>3, <5>1, <5>2, <5>3
        <4> QED
          BY <4>1, <4>2
      <3> QED
        BY <3>1, <3>2, <3>3 DEF PlanBorn
    <2>7. LastEvents'
      BY <1>1, <2>1, <2>2 DEF PlanInv, Agreement, LastEvents, Plan!Without
    <2>8. RowFollows'
      BY <1>1, <2>1, <2>2 DEF PlanInv, Agreement, RowFollows, Queued, Plan!Without
    <2>9. MakersFollow'
      <3>1. ASSUME Plan!Without({"reordered", "lost"}), NEW q \in Requests, NEW j \in Ids,
                   Makes(q, j)', Queued(j) = {}
            PROVE  stripe'[j].status = "trialing"
        <4>1. CASE j = i
          BY <1>4, <2>2, <4>1
        <4>2. CASE j # i
          <5>1. Makes(q, j)
            BY <2>3, <3>1, <4>2
          <5> QED
            BY <2>2, <3>1, <4>2, <5>1 DEF PlanInv, Agreement, MakersFollow
        <4> QED
          BY <4>1, <4>2
      <3> QED
        BY <1>1, <3>1 DEF MakersFollow, Queued, Plan!Without
    <2>10. Billed'
      <3>1. ASSUME NEW j \in Ids, Born(j)'
            PROVE  row.id = j \/ j \in planStray \/ \E q \in Requests : Makes(q, j)'
        <4>1. CASE j = i
          BY <2>3, <4>1
        <4>2. CASE j # i
          <5>1. row.id = j \/ j \in planStray \/ \E q \in Requests : Makes(q, j)
            BY <2>2, <3>1, <4>2 DEF PlanInv, Agreement, Billed
          <5> QED
            BY <2>3, <5>1
        <4> QED
          BY <4>1, <4>2
      <3> QED
        BY <1>1, <3>1 DEF Billed
    <2>11. Priced'
      <3>1. row.id \in Ids => stripe'[row.id].plan = stripe[row.id].plan
        BY <2>1, <2>2
      <3> QED
        BY <1>1, <1>4, <3>1, PricedMoves
    <2>12. Counted'
      BY <1>1, <1>4, CountedQuiet
    <2> QED
      BY <2>4, <2>5, <2>6, <2>7, <2>8, <2>9, <2>10, <2>11, <2>12 DEF PlanInv, Agreement
  <1> QED
    BY <1>2, <1>3, <1>4, MadeAtStripe DEF PlanInv

\* A plan comes to hold: there is room for it, or it is said that there is not.
LEMMA CountedHolds ==
    ASSUME PlanInv, NEW r \in Requests, NEW new, Moved(r, new), count' = count,
           planReq[r].at \notin {"count", "add"}, new.at \notin {"count", "add"},
           row' \in PlanRow, Plan!Happens(Plan!Shrinks(row'.plan))
    PROVE  Counted'
  <1>1. Crowd({"add"})' = Crowd({"add"}) /\ Crowd({"count", "add"})' = Crowd({"count", "add"})
    BY CrowdMoves
  <1>2. count + Crowd({"add"}) > Limit[row'.plan] => "shrunk" \in planUpset'
    <2>1. Plan!Cardinality(Plan!At({"add"})) = Crowd({"add"})
      BY Sizes DEF Crowd
    <2> QED
      BY <2>1, UpsetsAdd DEF Plan!Shrinks
  <1>3. count \in Nat /\ Crowd({"add"}) \in Nat /\ Limit[row'.plan] \in Nat
    BY LimitTyped, Sizes, PlanSizes DEF PlanRow, Plan!Sizes, PlanInv
  <1>4. Plan!Without({"crowded", "shrunk"})' => count + Crowd({"add"}) <= Limit[row'.plan]
    BY <1>2, <1>3 DEF Plan!Without
  <1> QED
    BY <1>1, <1>4 DEF Counted, PlanInv

LEMMA KeptByCreateRow ==
    ASSUME PlanInv, NEW r \in Requests, Plan!CreateRow(r) PROVE PlanInv'
  <1>1. UNCHANGED <<stripe, queue, sent, count>> /\ planReq[r].at = "row"
    BY DEF Plan!CreateRow
  <1>2. PICK new : new = Plan!Idle
    OBVIOUS
  <1>3. Moved(r, new) /\ Fits(new)' /\ new.at = "idle"
    BY <1>2, RowMade, IdleFits DEF PlanInv
  <1>4. \A s \in Requests, j \in Ids : Makes(s, j)' => s # r /\ Makes(s, j) /\ planReq'[s] = planReq[s]
    BY <1>3, MakersMove DEF Moved
  <1>5. \A s \in Requests \ {r}, j \in Ids : Makes(s, j) => Makes(s, j)'
    BY <1>3, MakersMove
  <1>6. planReq' \in [Requests -> PlanRequest]
    BY <1>3 DEF Moved
  <1>7. ASSUME row # Plan!NoRow, row' = row, planUpset' = planUpset,
               planStray' = planStray \union ({planReq[r].id} \ {None})
        PROVE  PlanInv'
    <2>1. planUpset \subseteq PlanUpsets /\ planStray' \subseteq Ids
      BY <1>7, PlanTyped DEF PlanInv, PlanRequest
    <2>2. Plan!TypeOK'
      BY <1>1, <1>6, <1>7, <2>1, PlanTyped, PlanTypesKept DEF PlanInv
    <2>3. PlanRows'
      BY <1>1, <1>3, <1>7, RowsFit DEF PlanInv
    <2>4. \A s \in Requests, j \in Ids : Makes(s, j) => Makes(s, j)' \/ j \in planStray'
      BY <1>5, <1>7, NoneIsNobody DEF Makes
    <2>5. Agreement'
      BY <1>1, <1>4, <1>7, <2>4, AgreementStays DEF PlanInv
    <2> QED
      BY <1>1, <1>3, <1>7, <2>2, <2>3, <2>5, PricedQuiet, CountedQuiet DEF PlanInv
  <1>8. ASSUME row = Plan!NoRow, row' \in PlanRow, row'.status = "trialing",
               row'.id = planReq[r].id, row'.plan = planReq[r].plan,
               planStray' = planStray, Plan!Happens(Plan!Shrinks(row'.plan))
        PROVE  PlanInv'
    <2>1. /\ planUpset \subseteq planUpset' /\ planUpset' \subseteq PlanUpsets
          /\ row' # Plan!NoRow /\ row.id \notin Ids
      BY <1>8, UpsetsAdd, Blanks, NoneIsNobody
    <2>2. Plan!TypeOK'
      BY <1>1, <1>6, <1>8, <2>1, PlanTyped, PlanTypesKept DEF PlanInv
    <2>3. PlanRows'
      BY <1>1, <1>3, <1>8, RowsFit DEF PlanInv
    <2>4. PICK i : i = planReq[r].id
      OBVIOUS
    <2>5. row'.id = i /\ \A j : Makes(r, j) <=> j = i
      BY <1>1, <1>8, <2>4 DEF Makes
    <2>6. i \in Ids =>
              /\ Born(i) /\ stripe[i].plan = row'.plan
              /\ \A s \in Requests : Makes(s, i) => s = r
      BY <1>8, <2>5 DEF PlanInv, Agreement, PlanBorn
    <2>7. PlanBorn'
      <3>1. row'.id \in Ids => Born(row.id)'
        BY <1>1, <2>5, <2>6 DEF Born
      <3>2. ASSUME NEW n \in DOMAIN queue' PROVE Born(queue[n].id)'
        BY <1>1 DEF PlanInv, Agreement, PlanBorn, Born
      <3>3. ASSUME NEW q \in Requests, NEW j \in Ids, Makes(q, j)'
            PROVE  /\ Born(j)' /\ row'.id # j /\ stripe'[j].plan = planReq'[q].plan
                   /\ \A s \in Requests : Makes(s, j)' => s = q
        <4>1. q # r /\ Makes(q, j) /\ planReq'[q] = planReq[q]
          BY <1>4, <3>3
        <4>2. /\ Born(j) /\ stripe[j].plan = planReq[q].plan
              /\ \A s \in Requests : Makes(s, j) => s = q
          BY <4>1 DEF PlanInv, Agreement, PlanBorn
        <4>3. j # i
          BY <2>6, <4>1
        <4> QED
          BY <1>1, <1>4, <2>5, <4>1, <4>2, <4>3 DEF Born
      <3> QED
        BY <3>1, <3>2, <3>3 DEF PlanBorn
    <2>8. LastEvents'
      BY <1>1, <2>1 DEF PlanInv, Agreement, LastEvents, Plan!Without
    <2>9. RowFollows'
      <3>1. ASSUME Plan!Without({"reordered", "lost", "admin"})', i \in Ids, Queued(i) = {}
            PROVE  stripe[i].status = "trialing"
        <4>1. Plan!Without({"reordered", "lost"}) /\ Makes(r, i)
          BY <2>1, <2>5, <3>1 DEF Plan!Without
        <4> QED
          BY <3>1, <4>1 DEF PlanInv, Agreement, MakersFollow
      <3>2. i \in Ids /\ Queued(row.id)' = {} => Queued(i) = {}
        BY <1>1, <2>5 DEF Queued
      <3> QED
        BY <1>1, <1>8, <2>5, <3>1, <3>2 DEF RowFollows
    <2>10. MakersFollow'
      BY <1>1, <1>4, <2>1 DEF PlanInv, Agreement, MakersFollow, Queued, Plan!Without
    <2>11. Billed'
      <3>1. ASSUME NEW j \in Ids, Born(j)
            PROVE  row'.id = j \/ j \in planStray \/ \E q \in Requests : Makes(q, j)'
        <4>1. j \in planStray \/ \E q \in Requests : Makes(q, j)
          BY <2>1, <3>1 DEF PlanInv, Agreement, Billed
        <4> QED
          BY <1>5, <2>5, <4>1
      <3> QED
        BY <1>1, <1>8, <3>1 DEF Billed, Born
    <2>12. Priced'
      <3>1. Plan!At({"price", "plan"}) = {} /\ Plan!At({"plan"}) = {}
        BY <1>8 DEF PlanInv, PlanRows, Fits, Plan!At
      <3>2. Plan!At({"price", "plan"})' = {} /\ Plan!At({"plan"})' = {}
        BY <1>3, <3>1, PlaceMoves
      <3>3. row'.id \in Ids => stripe'[row'.id].plan = row'.plan
        BY <1>1, <2>5, <2>6
      <3> QED
        BY <3>2, <3>3 DEF Priced
    <2>13. Counted'
      BY <1>1, <1>3, <1>8, CountedHolds
    <2> QED
      BY <2>2, <2>3, <2>7, <2>8, <2>9, <2>10, <2>11, <2>12, <2>13 DEF PlanInv, Agreement
  <1> QED
    BY <1>7, <1>8, RowMade DEF PlanInv

\* Stripe is told of a change, or refuses it.
LEMMA SentTyped ==
    ASSUME PlanInv, NEW i \in Ids, NEW sub, StripePut(i, sub), Plan!Send(i, sub.status),
           planReq' \in [Requests -> PlanRequest], UNCHANGED <<row, count, planStray, planUpset>>
    PROVE  Plan!TypeOK'
  <1>1. sub.status \in Plan!Statuses
        /\ stripe' \in [Ids -> {Plan!Unborn} \union StripeSubscription]
    BY DEF StripePut, StripeSubscription
  <1>2. queue' \in Seq(PlanEvent) /\ Len(queue') <= sent' /\ sent' \in 0..MaxEvents
    BY <1>1, QueueSent DEF PlanInv
  <1> QED
    BY <1>1, <1>2, PlanTyped, PlanTypesKept DEF PlanInv

LEMMA KeptByReprice ==
    ASSUME PlanInv, NEW r \in Requests, Plan!Reprice(r) PROVE PlanInv'
  <1>1. PICK i \in Ids : i = planReq[r].id
    BY Repriced DEF PlanInv, Agreement
  <1>2. /\ UNCHANGED <<row, count, planStray, planUpset>> /\ planReq[r].at = "price"
        /\ row.id = i /\ Born(i) /\ row # Plan!NoRow /\ planReq[r].plan \in Plan!Plans
        /\ planUpset \subseteq PlanUpsets
    BY <1>1, Repriced, PlanTyped DEF PlanInv, Agreement, PlanRows, Fits, Plan!Reprice
  <1>3. CASE Moved(r, Plan!Idle) /\ UNCHANGED <<stripe, queue, sent>>
    BY <1>2, <1>3, KeptByEnd
  <1>4. ASSUME NEW new, NEW sub, Moved(r, new), new.at = "plan", new.id = i,
               new.plan = planReq[r].plan, StripePut(i, sub), sub.plan = planReq[r].plan,
               sub.status = stripe[i].status, sub.ending = stripe[i].ending,
               Plan!Send(i, sub.status)
        PROVE  PlanInv'
    <2>1. /\ stripe'[i] = sub /\ \A j \in Ids \ {i} : stripe'[j] = stripe[j]
          /\ planReq' \in [Requests -> PlanRequest] /\ planReq'[r] = new
      BY <1>4 DEF StripePut, Moved
    <2>2. Plan!TypeOK'
      BY <1>2, <1>4, <2>1, SentTyped
    <2>3. PlanRows'
      <3>1. Fits(new)'
        BY <1>2, <1>4 DEF Fits
      <3>2. \A j \in Ids : stripe[j].ending => stripe'[j].ending
        BY <1>4, <2>1
      <3> QED
        BY <1>2, <1>4, <3>1, <3>2, RowsFit DEF PlanInv
    <2>4. /\ \A s \in Requests, j \in Ids : Makes(s, j)' <=> Makes(s, j)
          /\ \A s \in Requests, j \in Ids : Makes(s, j) => planReq'[s] = planReq[s]
      BY <1>2, <1>4 DEF Makes, Moved
    <2>5. Agreement'
      BY <1>2, <1>4, <2>4, AgreementSent
    <2>6. Priced'
      <3>1. Plan!At({"price", "plan"})' = Plan!At({"price", "plan"}) /\ r \in Plan!At({"plan"})'
        <4>1. Plan!At({"price", "plan"})' = Plan!At({"price", "plan"})
          BY <1>2, <1>4, PlaceMoves
        <4>2. Plan!At({"plan"})' = Plan!At({"plan"}) \union {r}
          BY <1>2, <1>4, PlaceMoves
        <4> QED
          BY <4>1, <4>2
      <3>2. stripe'[row.id].plan = planReq'[r].plan
        BY <1>2, <1>4, <2>1
      <3> QED
        BY <1>2, <3>1, <3>2 DEF PlanInv, Priced, Plan!Without
    <2>7. Counted'
      BY <1>2, <1>4, CountedQuiet
    <2> QED
      BY <2>2, <2>3, <2>5, <2>6, <2>7 DEF PlanInv
  <1> QED
    <2>1. \/ Moved(r, Plan!Idle) /\ UNCHANGED <<stripe, queue, sent>>
          \/ \E new, sub :
                /\ Moved(r, new) /\ new.at = "plan" /\ new.id = i
                /\ new.plan = planReq[r].plan
                /\ StripePut(i, sub) /\ sub.plan = planReq[r].plan
                /\ sub.status = stripe[i].status /\ sub.ending = stripe[i].ending
                /\ Plan!Send(i, sub.status)
      BY <1>1, Repriced DEF PlanInv, Agreement
    <2> QED
      BY <1>3, <1>4, <2>1

LEMMA KeptByWritePlan ==
    ASSUME PlanInv, NEW r \in Requests, Plan!WritePlan(r) PROVE PlanInv'
  <1>1. UNCHANGED <<stripe, queue, sent, count, planStray>>
    BY DEF Plan!WritePlan
  <1>2. /\ planReq[r].at = "plan" /\ planReq[r].id = row.id
        /\ row # Plan!NoRow /\ row' \in PlanRow /\ row'.plan = planReq[r].plan
        /\ row'.status = row.status /\ row'.id = row.id
        /\ Plan!Happens(Plan!Shrinks(row'.plan))
    BY PlanWritten DEF PlanInv
  <1>3. PICK new : new = Plan!Idle
    OBVIOUS
  <1>4. Moved(r, new) /\ Fits(new)' /\ new.at = "idle"
    BY <1>3, PlanWritten, IdleFits DEF PlanInv
  <1>5. planUpset \subseteq planUpset' /\ planUpset' \subseteq PlanUpsets /\ row' # Plan!NoRow
    BY <1>2, UpsetsAdd, Blanks
  <1>6. Plan!TypeOK'
    <2>1. planReq' \in [Requests -> PlanRequest]
      BY <1>4 DEF Moved
    <2> QED
      BY <1>1, <1>2, <1>5, <2>1, PlanTyped, PlanTypesKept DEF PlanInv
  <1>7. PlanRows'
    BY <1>1, <1>2, <1>4, <1>5, RowsFit DEF PlanInv
  <1>8. Agreement'
    <2>1. \A s \in Requests, j \in Ids : Makes(s, j)' => Makes(s, j) /\ planReq'[s] = planReq[s]
      BY <1>4 DEF Moved, Makes
    <2>2. \A s \in Requests, j \in Ids : Makes(s, j) => Makes(s, j)'
      BY <1>2, <1>4 DEF Moved, Makes
    <2> QED
      BY <1>1, <1>2, <1>5, <2>1, <2>2, AgreementStays DEF PlanInv
  <1>9. Priced'
    <2>1. Plan!At({"price", "plan"})' = Plan!At({"price", "plan"}) \ {r}
      BY <1>4, PlaceMoves
    <2>2. Plan!At({"plan"})' = Plan!At({"plan"}) \ {r} /\ r \in Plan!At({"plan"})
      <3>1. Plan!At({"plan"})' = Plan!At({"plan"}) \ {r}
        BY <1>4, PlaceMoves
      <3> QED
        BY <1>2, <3>1 DEF Plan!At
    <2>3. Plan!At({"plan"}) \subseteq Plan!At({"price", "plan"})
      BY DEF Plan!At
    <2>4. ASSUME Plan!Without({"crossed", "died"})', row.id \in Ids
          PROVE  Plan!At({"plan"})' = {} /\ stripe[row.id].plan = planReq[r].plan
      <3>1. Plan!Without({"crossed"}) /\ Plan!Without({"crossed", "died"})
        BY <1>5, <2>4 DEF Plan!Without
      <3>2. \A q, s \in Plan!At({"price", "plan"}) : q = s
        BY <3>1 DEF PlanInv, Priced
      <3>3. \A s \in Plan!At({"plan"}) : s = r
        BY <2>2, <2>3, <3>2
      <3> QED
        BY <2>2, <2>4, <3>1, <3>3 DEF PlanInv, Priced
    <2> QED
      BY <1>1, <1>2, <1>5, <2>1, <2>4 DEF PlanInv, Priced, Plan!Without
  <1>10. Counted'
    BY <1>1, <1>2, <1>4, CountedHolds
  <1> QED
    BY <1>6, <1>7, <1>8, <1>9, <1>10 DEF PlanInv

LEMMA KeptByCancelAtStripe ==
    ASSUME PlanInv, NEW r \in Requests, Plan!CancelAtStripe(r) PROVE PlanInv'
  <1>1. PICK i \in Ids : i = planReq[r].id
    BY CanceledAtStripe DEF PlanInv, Agreement
  <1>2. /\ UNCHANGED <<row, count, planStray, planUpset>> /\ planReq[r].at = "cancel"
        /\ row.id = i /\ Born(i) /\ row # Plan!NoRow /\ planUpset \subseteq PlanUpsets
    BY <1>1, CanceledAtStripe, PlanTyped DEF PlanInv, Agreement, PlanRows, Fits, Plan!CancelAtStripe
  <1>3. CASE Moved(r, Plan!Idle) /\ UNCHANGED <<stripe, queue, sent>>
    BY <1>2, <1>3, KeptByEnd
  <1>4. ASSUME NEW new, NEW sub, Moved(r, new), new.at = "mark", new.id = i,
               StripePut(i, sub), sub.plan = stripe[i].plan,
               sub.status = stripe[i].status, sub.ending, Plan!Send(i, sub.status)
        PROVE  PlanInv'
    <2>1. /\ stripe'[i] = sub /\ \A j \in Ids \ {i} : stripe'[j] = stripe[j]
          /\ planReq' \in [Requests -> PlanRequest]
      BY <1>4 DEF StripePut, Moved
    <2>2. Plan!TypeOK'
      BY <1>2, <1>4, <2>1, SentTyped
    <2>3. PlanRows'
      <3>1. Fits(new)'
        BY <1>2, <1>4, <2>1 DEF Fits
      <3>2. \A j \in Ids : stripe[j].ending => stripe'[j].ending
        BY <1>4, <2>1
      <3> QED
        BY <1>2, <1>4, <3>1, <3>2, RowsFit DEF PlanInv
    <2>4. /\ \A s \in Requests, j \in Ids : Makes(s, j)' <=> Makes(s, j)
          /\ \A s \in Requests, j \in Ids : Makes(s, j) => planReq'[s] = planReq[s]
      BY <1>2, <1>4 DEF Makes, Moved
    <2>5. Agreement'
      BY <1>2, <1>4, <2>4, AgreementSent
    <2>6. Priced'
      BY <1>2, <1>4, <2>1, PricedMoves
    <2>7. Counted'
      BY <1>2, <1>4, CountedQuiet
    <2> QED
      BY <2>2, <2>3, <2>5, <2>6, <2>7 DEF PlanInv
  <1> QED
    <2>1. \/ Moved(r, Plan!Idle) /\ UNCHANGED <<stripe, queue, sent>>
          \/ \E new, sub :
                /\ Moved(r, new) /\ new.at = "mark" /\ new.id = i
                /\ StripePut(i, sub) /\ sub.plan = stripe[i].plan
                /\ sub.status = stripe[i].status /\ sub.ending
                /\ Plan!Send(i, sub.status)
      BY <1>1, CanceledAtStripe DEF PlanInv, Agreement
    <2> QED
      BY <1>3, <1>4, <2>1

LEMMA KeptByMark ==
    ASSUME PlanInv, NEW r \in Requests, Plan!MarkCanceled(r) PROVE PlanInv'
  <1>1. UNCHANGED <<stripe, queue, sent, count, planStray, planUpset>>
        /\ planUpset \subseteq PlanUpsets
    BY PlanTyped DEF Plan!MarkCanceled, PlanInv
  <1>2. /\ planReq[r].at = "mark" /\ planReq[r].id = row.id
        /\ row # Plan!NoRow /\ row' \in PlanRow /\ row'.plan = row.plan
        /\ row'.status = "canceled" /\ row'.id = row.id /\ row' # Plan!NoRow
    BY RowMarked, Blanks DEF PlanInv
  <1>3. PICK new : new = Plan!Idle
    OBVIOUS
  <1>4. Moved(r, new) /\ Fits(new)' /\ new.at = "idle" /\ planReq' \in [Requests -> PlanRequest]
    BY <1>3, RowMarked, IdleFits DEF PlanInv, Moved
  <1>5. row.id \in Ids => stripe[row.id].ending
    BY <1>2 DEF PlanInv, PlanRows, Fits
  <1>6. Plan!TypeOK'
    BY <1>1, <1>2, <1>4, PlanTyped, PlanTypesKept DEF PlanInv
  <1>7. PlanRows'
    BY <1>1, <1>2, <1>4, RowsFit DEF PlanInv
  <1>8. Agreement'
    <2>1. \A s \in Requests, j \in Ids : Makes(s, j)' => Makes(s, j) /\ planReq'[s] = planReq[s]
      BY <1>4 DEF Moved, Makes
    <2>2. \A s \in Requests, j \in Ids : Makes(s, j) => Makes(s, j)'
      BY <1>2, <1>4 DEF Moved, Makes
    <2> QED
      BY <1>1, <1>2, <1>5, <2>1, <2>2, AgreementStays DEF PlanInv
  <1> QED
    BY <1>1, <1>2, <1>4, <1>6, <1>7, <1>8, PricedMoves, CountedQuiet DEF PlanInv

LEMMA KeptByRequestDies ==
    ASSUME PlanInv, NEW r \in Requests, Plan!RequestDies(r) PROVE PlanInv'
  <1>1. UNCHANGED <<row, stripe, queue, sent, count>> /\ planUpset \subseteq planUpset'
        /\ planUpset' \subseteq PlanUpsets
    BY UpsetsAdd DEF Plan!RequestDies
  <1>2. /\ planReq[r].at \in {"row", "plan", "mark"} /\ "died" \in planUpset'
        /\ \/ planReq[r].at = "row" /\ planStray' = planStray \union ({planReq[r].id} \ {None})
           \/ planReq[r].at # "row" /\ planStray' = planStray
    BY RequestDied DEF PlanInv
  <1>3. PICK new : new = Plan!Idle
    OBVIOUS
  <1>4. Moved(r, new) /\ Fits(new)' /\ new.at = "idle" /\ planReq' \in [Requests -> PlanRequest]
    BY <1>3, RequestDied, IdleFits DEF PlanInv, Moved
  <1>5. Plan!TypeOK'
    <2>1. planStray' \subseteq Ids
      BY <1>2, PlanTyped DEF PlanInv, PlanRequest
    <2> QED
      BY <1>1, <1>4, <2>1, PlanTyped, PlanTypesKept DEF PlanInv
  <1>6. PlanRows'
    BY <1>1, <1>4, RowsFit DEF PlanInv
  <1>7. Agreement'
    <2>1. \A s \in Requests, j \in Ids : Makes(s, j)' => Makes(s, j) /\ planReq'[s] = planReq[s]
      BY <1>4 DEF Moved, Makes
    <2>2. \A s \in Requests, j \in Ids : Makes(s, j) => Makes(s, j)' \/ j \in planStray'
      BY <1>2, <1>4, NoneIsNobody DEF Moved, Makes
    <2>3. planStray \subseteq planStray'
      BY <1>2
    <2> QED
      BY <1>1, <2>1, <2>2, <2>3, AgreementStays DEF PlanInv
  <1>8. Priced'
    <2>1. Plan!At({"price", "plan"})' = Plan!At({"price", "plan"}) \ {r}
      BY <1>4, PlaceMoves
    <2> QED
      BY <1>1, <1>2, <2>1 DEF PlanInv, Priced, Plan!Without
  <1>9. Counted'
    BY <1>1, <1>4, CountedQuiet
  <1> QED
    BY <1>5, <1>6, <1>7, <1>8, <1>9 DEF PlanInv

\* No request moves and no plan changes.
LEMMA OthersStay ==
    ASSUME PlanInv, planReq' = planReq, count' <= count, count' \in Nat,
           row' = row \/ (row # Plan!NoRow /\ row'.plan = row.plan /\ row'.id = row.id),
           \A i \in Ids : stripe'[i].plan = stripe[i].plan,
           planUpset \subseteq planUpset'
    PROVE  Priced' /\ Counted'
  <1>1. row'.id = row.id /\ row'.plan = row.plan
    OBVIOUS
  <1>2. Priced'
    <2>1. Plan!At({"price", "plan"})' = Plan!At({"price", "plan"})
          /\ Plan!At({"plan"})' = Plan!At({"plan"})
      BY NobodyMoves
    <2> QED
      BY <1>1, <2>1, PricedStays DEF PlanInv
  <1>3. Counted'
    <2>1. Crowd({"add"})' = Crowd({"add"}) /\ Crowd({"count", "add"})' = Crowd({"count", "add"})
      BY NobodyMoves
    <2>2. Crowd({"add"}) \in Nat /\ Crowd({"count", "add"}) \in Nat /\ count \in Nat
      BY Sizes, LimitTyped DEF PlanInv
    <2>3. /\ count' + Crowd({"add"})' <= count + Crowd({"add"})
          /\ count' + Crowd({"count", "add"})' <= count + Crowd({"count", "add"})
      BY <2>1, <2>2
    <2> QED
      BY <2>3, CountedStays DEF PlanInv
  <1> QED
    BY <1>2, <1>3

LEMMA KeptByAdminister ==
    ASSUME PlanInv, NEW s \in {"active", "suspended", "past_due", "canceled"},
           Plan!Administer(s)
    PROVE  PlanInv'
  <1>1. UNCHANGED <<stripe, queue, sent, count, planReq, planStray>>
        /\ planUpset \subseteq planUpset' /\ planUpset' \subseteq PlanUpsets
    BY UpsetsAdd DEF Plan!Administer
  <1>2. /\ row # Plan!NoRow /\ row' \in PlanRow /\ row'.plan = row.plan /\ row'.id = row.id
        /\ "admin" \in planUpset' /\ row' # Plan!NoRow
    BY Administered, Blanks DEF PlanInv
  <1>3. Plan!TypeOK'
    BY <1>1, <1>2, PlanTyped, PlanTypesKept DEF PlanInv
  <1>4. PlanRows'
    BY <1>1, <1>2, RowsStay DEF PlanInv
  <1>5. Agreement'
    BY <1>1, <1>2, NobodyMoves, AgreementStays DEF PlanInv
  <1>6. count \in Nat
    BY LimitTyped DEF PlanInv
  <1> QED
    BY <1>1, <1>2, <1>3, <1>4, <1>5, <1>6, OthersStay DEF PlanInv

LEMMA KeptByMove ==
    ASSUME PlanInv, NEW i \in Ids, Plan!Move(i) PROVE PlanInv'
  <1>1. UNCHANGED <<row, count, planReq, planStray, planUpset>> /\ count \in Nat
    BY LimitTyped DEF Plan!Move, PlanInv
  <1>2. PICK sub : /\ StripePut(i, sub) /\ sub.plan = stripe[i].plan
                   /\ sub.ending = stripe[i].ending /\ Plan!Send(i, sub.status)
    BY StripeMoved DEF PlanInv
  <1>3. /\ Born(i) /\ stripe'[i] = sub /\ \A j \in Ids \ {i} : stripe'[j] = stripe[j]
        /\ planReq' \in [Requests -> PlanRequest]
    BY <1>1, <1>2, StripeMoved, PlanTyped DEF StripePut, PlanInv
  <1>4. Plan!TypeOK'
    BY <1>1, <1>2, <1>3, SentTyped
  <1>5. \A j \in Ids : stripe'[j].ending = stripe[j].ending /\ stripe'[j].plan = stripe[j].plan
    BY <1>2, <1>3
  <1>6. PlanRows'
    BY <1>1, <1>5, RowsStay DEF PlanInv
  <1>7. Agreement'
    BY <1>1, <1>2, <1>3, NobodyMoves, AgreementSent
  <1> QED
    BY <1>1, <1>4, <1>5, <1>6, <1>7, OthersStay DEF PlanInv

\* An event is delivered, or thrown away.
LEMMA TakenKept ==
    ASSUME PlanInv, NEW n \in DOMAIN queue, queue' = Plan!RemoveAt(queue, n), Agreement',
           UNCHANGED <<stripe, sent, count, planReq, planStray>>,
           planUpset \subseteq planUpset', planUpset' \subseteq PlanUpsets,
           \/ row' = row
           \/ row # Plan!NoRow /\ row' \in PlanRow /\ row'.id = row.id /\ row'.plan = row.plan
    PROVE  PlanInv'
  <1>1. queue' \in Seq(PlanEvent) /\ Len(queue') <= sent' /\ count \in Nat
    <2>1. Len(queue') = Len(queue) - 1 /\ queue' \in Seq(PlanEvent)
      BY QueueTaken DEF PlanInv
    <2>2. Len(queue) \in Nat /\ Len(queue) <= sent /\ sent \in 0..MaxEvents
      BY PlanTyped DEF PlanInv
    <2>3. sent \in Int
      BY <2>2, PlanSizes DEF Plan!Sizes
    <2>4. Len(queue') <= sent'
      BY <2>1, <2>2, <2>3
    <2> QED
      BY <2>1, <2>4, LimitTyped DEF PlanInv
  <1>2. row # Plan!NoRow => row' # Plan!NoRow /\ row'.id = row.id /\ row'.plan = row.plan
    BY Blanks
  <1>3. Plan!TypeOK'
    BY <1>1, PlanTyped, PlanTypesKept DEF PlanInv
  <1>4. PlanRows'
    BY <1>2, RowsStay DEF PlanInv
  <1> QED
    BY <1>1, <1>3, <1>4, OthersStay DEF PlanInv

LEMMA KeptByDeliver ==
    ASSUME PlanInv, NEW n \in DOMAIN queue, Plan!Deliver(n) PROVE PlanInv'
  <1>1. UNCHANGED <<stripe, sent, count, planReq, planStray>>
        /\ planUpset \subseteq planUpset' /\ planUpset' \subseteq PlanUpsets
    BY UpsetsAdd DEF Plan!Deliver
  <1>2. PICK e : e = queue[n]
    OBVIOUS
  <1>3. /\ queue' = Plan!RemoveAt(queue, n)
        /\ n # 1 => "reordered" \in planUpset'
        /\ (\E r \in Requests : Makes(r, e.id)) => "lost" \in planUpset'
        /\ \/ row.id # e.id /\ row' = row
           \/ /\ row.id = e.id /\ row # Plan!NoRow /\ row' \in PlanRow
              /\ row'.status = e.status /\ row'.id = row.id /\ row'.plan = row.plan
    BY <1>2, Delivered DEF PlanInv
  <1>4. \/ "lost" \in planUpset'
        \/ /\ \A r \in Requests : ~Makes(r, queue[n].id)
           /\ \/ row' = row /\ row.id # queue[n].id
              \/ row.id = queue[n].id /\ row'.status = queue[n].status
    BY <1>2, <1>3
  <1>5. Agreement'
    BY <1>1, <1>3, <1>4, AgreementTaken
  <1> QED
    BY <1>1, <1>3, <1>5, TakenKept

LEMMA KeptByThrow ==
    ASSUME PlanInv, NEW n \in DOMAIN queue, Plan!Throw(n) PROVE PlanInv'
  <1>1. UNCHANGED <<row, stripe, sent, count, planReq, planStray>>
        /\ planUpset \subseteq planUpset' /\ planUpset' \subseteq PlanUpsets
    BY UpsetsAdd DEF Plan!Throw
  <1>2. /\ queue' = Plan!RemoveAt(queue, n) /\ "lost" \in planUpset'
        /\ n # 1 => "reordered" \in planUpset'
    BY Thrown DEF PlanInv
  <1>3. Agreement'
    BY <1>1, <1>2, AgreementTaken
  <1> QED
    BY <1>1, <1>2, <1>3, TakenKept

\* The properties: counted, created, deleted.
LEMMA KeptByCount ==
    ASSUME PlanInv, NEW r \in Requests, Plan!CountProperties(r) PROVE PlanInv'
  <1>1. UNCHANGED <<row, stripe, queue, sent, count, planStray>> /\ planReq[r].at = "count"
        /\ row # Plan!NoRow /\ planUpset \subseteq PlanUpsets
    BY PlanTyped DEF Plan!CountProperties, PlanInv, PlanRows, Fits
  <1>2. CASE Moved(r, Plan!Idle) /\ planUpset' = planUpset
    BY <1>1, <1>2, KeptByEnd
  <1>3. ASSUME NEW new, Moved(r, new), new.at = "add", count < planReq[r].limit,
               planUpset \subseteq planUpset', planUpset' \subseteq PlanUpsets,
               planReq[r].limit \in Nat,
               planReq[r].limit > Limit[row.plan] => "shrunk" \in planUpset',
               Plan!At({"add"}) # {}
               /\ count + Plan!Cardinality(Plan!At({"add"})) >= Limit[row.plan]
                  => "crowded" \in planUpset'
        PROVE  PlanInv'
    <2>1. Fits(new)'
      BY <1>3 DEF Fits
    <2>2. /\ Crowd({"add"})' = Crowd({"add"}) + 1
          /\ Crowd({"count", "add"})' = Crowd({"count", "add"})
      BY <1>1, <1>3, CrowdMoves
    <2>3. Plan!Cardinality(Plan!At({"add"})) = Crowd({"add"}) /\ Crowd({"add"}) \in Nat
      BY Sizes DEF Crowd
    <2>4. count \in Nat /\ Limit[row.plan] \in Nat
      BY <1>1, LimitTyped DEF PlanInv
    <2>5. Plan!At({"add"}) = {} => Crowd({"add"}) = 0
      BY <1>3, CrowdMoves
    <2>6. Plan!Without({"crowded", "shrunk"})' => count + (Crowd({"add"}) + 1) <= Limit[row.plan]
      <3> SUFFICES ASSUME "crowded" \notin planUpset', "shrunk" \notin planUpset'
                   PROVE  count + (Crowd({"add"}) + 1) <= Limit[row.plan]
        BY DEF Plan!Without
      <3>1. count < Limit[row.plan]
        BY <1>3, <2>4
      <3>2. CASE Plan!At({"add"}) = {}
        BY <2>4, <2>5, <3>1, <3>2
      <3>3. CASE Plan!At({"add"}) # {}
        <4>1. ~(count + Crowd({"add"}) >= Limit[row.plan])
          BY <1>3, <2>3, <3>3
        <4> QED
          BY <2>3, <2>4, <4>1
      <3> QED
        BY <3>2, <3>3
    <2>7. Counted'
      BY <1>1, <2>2, <2>6 DEF Counted, PlanInv
    <2> QED
      BY <1>1, <1>3, <2>1, <2>7, RequestQuiet, PricedQuiet DEF PlanInv
  <1> QED
    BY <1>2, <1>3, LimitPassed DEF PlanInv

LEMMA KeptByCreateProperty ==
    ASSUME PlanInv, NEW r \in Requests, Plan!CreateProperty(r) PROVE PlanInv'
  <1>1. UNCHANGED <<row, stripe, queue, sent, planStray, planUpset>> /\ planReq[r].at = "add"
        /\ count' = count + 1 /\ planUpset \subseteq PlanUpsets
    BY PlanTyped DEF Plan!CreateProperty, PlanInv
  <1>2. PICK new : new = Plan!Idle
    OBVIOUS
  <1>3. Moved(r, new) /\ Fits(new)' /\ new.at = "idle" /\ planReq' \in [Requests -> PlanRequest]
    BY <1>2, PlanEnd, IdleFits DEF PlanInv, Moved, Plan!CreateProperty
  <1>4. /\ Crowd({"add"})' = Crowd({"add"}) - 1
        /\ Crowd({"count", "add"})' = Crowd({"count", "add"}) - 1
        /\ Crowd({"count", "add"}) > 0
    BY <1>1, <1>3, CrowdMoves
  <1>5. /\ count \in Nat /\ MaxProperties \in Nat /\ Crowd({"add"}) \in Nat
        /\ Crowd({"count", "add"}) \in Nat /\ count + Crowd({"count", "add"}) <= MaxProperties
    BY LimitTyped, Sizes DEF PlanInv, Counted
  <1>6. /\ count' \in 0..MaxProperties /\ count' \in Nat
        /\ count' + Crowd({"add"})' <= count + Crowd({"add"})
        /\ count' + Crowd({"count", "add"})' <= count + Crowd({"count", "add"})
    BY <1>1, <1>4, <1>5
  <1>7. Plan!TypeOK'
    BY <1>1, <1>3, <1>6, PlanTyped, PlanTypesKept DEF PlanInv
  <1>8. PlanRows'
    BY <1>1, <1>3, RowsFit DEF PlanInv
  <1>9. Agreement'
    <2>1. \A s \in Requests, j \in Ids : Makes(s, j)' => Makes(s, j) /\ planReq'[s] = planReq[s]
      BY <1>3 DEF Moved, Makes
    <2>2. \A s \in Requests, j \in Ids : Makes(s, j) => Makes(s, j)'
      BY <1>1, <1>3 DEF Moved, Makes
    <2> QED
      BY <1>1, <2>1, <2>2, AgreementStays DEF PlanInv
  <1>10. Priced'
    BY <1>1, <1>3, PricedQuiet
  <1>11. Counted'
    BY <1>1, <1>6, CountedStays DEF PlanInv
  <1> QED
    BY <1>7, <1>8, <1>9, <1>10, <1>11 DEF PlanInv

LEMMA KeptByDeleteProperty ==
    ASSUME PlanInv, Plan!DeleteProperty PROVE PlanInv'
  <1>1. UNCHANGED <<row, stripe, queue, sent, planReq, planStray, planUpset>>
        /\ count > 0 /\ count' = count - 1 /\ planUpset \subseteq PlanUpsets
        /\ count \in 0..MaxProperties
    BY PlanTyped DEF Plan!DeleteProperty, PlanInv
  <1>2. count' \in 0..MaxProperties /\ count' \in Nat /\ count' <= count
    BY <1>1, LimitTyped DEF PlanInv
  <1>3. Plan!TypeOK'
    BY <1>1, <1>2, PlanTyped, PlanTypesKept DEF PlanInv
  <1>4. PlanRows'
    BY <1>1, RowsStay DEF PlanInv
  <1>5. Agreement'
    BY <1>1, NobodyMoves, AgreementStays DEF PlanInv
  <1> QED
    BY <1>1, <1>2, <1>3, <1>4, <1>5, OthersStay DEF PlanInv

LEMMA PlanUndisturbed == ASSUME PlanInv, UNCHANGED planVars PROVE PlanInv'
  <1>1. UNCHANGED <<row, stripe, queue, sent, count, planReq, planStray, planUpset>>
    BY DEF planVars
  <1>2. Plan!TypeOK'
    BY <1>1 DEF PlanInv, Plan!TypeOK
  <1>3. PlanRows'
    BY <1>1, RowsStay DEF PlanInv
  <1>4. Agreement'
    BY <1>1, NobodyMoves, AgreementStays DEF PlanInv
  <1>5. count \in Nat
    BY LimitTyped DEF PlanInv
  <1> QED
    BY <1>1, <1>2, <1>3, <1>4, <1>5, OthersStay DEF PlanInv

-----------------------------------------------------------------------------
(* The whole. *)

LEMMA PlanKept == ASSUME PlanInv, Plan!Next PROVE PlanInv'
  <1>1. ASSUME NEW r \in Requests,
               \/ Plan!CreateAtStripe(r) \/ Plan!CreateRow(r) \/ Plan!Reprice(r)
               \/ Plan!WritePlan(r) \/ Plan!Cancel(r) \/ Plan!CancelAtStripe(r)
               \/ Plan!MarkCanceled(r) \/ Plan!RequestDies(r) \/ Plan!AddProperty(r)
               \/ Plan!CountProperties(r) \/ Plan!CreateProperty(r)
        PROVE  PlanInv'
    BY <1>1, KeptByCreateAtStripe, KeptByCreateRow, KeptByReprice, KeptByWritePlan, KeptByCancel,
       KeptByCancelAtStripe, KeptByMark, KeptByRequestDies, KeptByAddProperty, KeptByCount,
       KeptByCreateProperty
  <1> QED
    BY <1>1, KeptBySubscribe, KeptByChangePlan, KeptByAdminister, KeptByMove, KeptByDeliver,
       KeptByThrow, KeptByDeleteProperty DEF Plan!Next

LEMMA PlanStarts == Plan!Init => PlanInv
  <1> SUFFICES ASSUME Plan!Init PROVE PlanInv
    OBVIOUS
  <1>1. /\ row = Plan!NoRow /\ row.id = None /\ queue = << >> /\ sent = 0 /\ count = 0
        /\ planStray = {} /\ planUpset = {}
        /\ \A i \in Ids : stripe[i] = Plan!Unborn /\ ~Born(i)
        /\ \A r \in Requests : planReq[r] = Plan!Idle /\ planReq[r].at = "idle"
    BY Blanks DEF Plan!Init, Born
  <1>2. Plan!TypeOK
    <2>1. stripe \in [Ids -> {Plan!Unborn} \union StripeSubscription]
          /\ planReq \in [Requests -> PlanRequest]
      BY Blanks DEF Plan!Init
    <2>2. queue \in Seq(PlanEvent) /\ Len(queue) = 0
      BY <1>1
    <2>3. Len(queue) <= sent /\ sent \in 0..MaxEvents /\ count \in 0..MaxProperties
      BY <1>1, <2>2, PlanSizes DEF Plan!Sizes
    <2> QED
      BY <1>1, <2>1, <2>2, <2>3
         DEF Plan!TypeOK, PlanRequest, StripeSubscription, PlanEvent, PlanRow
  <1>3. PlanRows
    BY <1>1 DEF PlanRows, Fits
  <1>4. \A r \in Requests, i \in Ids : ~Makes(r, i)
    BY <1>1 DEF Makes
  <1>5. Agreement
    <2>1. DOMAIN queue = {} /\ row.id \notin Ids
      BY <1>1, NoneIsNobody
    <2> QED
      BY <1>1, <1>4, <2>1
         DEF Agreement, PlanBorn, LastEvents, RowFollows, MakersFollow, Billed
  <1>6. \A places : (\A r \in Requests : planReq[r].at \notin places) => Plan!At(places) = {}
    BY DEF Plan!At
  <1>7. Priced
    BY <1>1, <1>6, NoneIsNobody DEF Priced
  <1>8. Counted
    <2>1. Plan!At({"count", "add"}) = {}
      BY <1>1, <1>6
    <2>2. Crowd({"count", "add"}) = 0
      BY <2>1, FS_EmptySet DEF Crowd
    <2> QED
      BY <1>1, <2>2, LimitTyped, <1>2 DEF Counted
  <1> QED
    BY <1>2, <1>3, <1>5, <1>7, <1>8 DEF PlanInv

LEMMA PlanHolds == Plan!Spec => []PlanInv
  <1>1. PlanInv /\ [Plan!Next]_(Plan!vars) => PlanInv'
    BY PlanKept, PlanUndisturbed DEF Plan!vars, planVars
  <1> QED
    BY <1>1, PlanStarts, PTL DEF Plan!Spec

(* The platform's subscription is Subscription, whatever the rest does.       *)
THEOREM PlanAlone == LandlordSpec => Plan!Spec
  <1>1. LandlordInit => Plan!Init
    BY DEF LandlordInit
  <1>2. [LandlordNext]_<<scene, vars, planVars, placeVars>> => [Plan!Next]_(Plan!vars)
    BY DEF LandlordNext, planVars, Plan!vars
  <1> QED
    BY <1>1, <1>2, PTL DEF LandlordSpec, Plan!Spec

(* The types of the subscription's row, of Stripe's and of the events.       *)
THEOREM PlanTyping == LandlordSpec => []Plan!TypeOK
  <1>1. PlanInv => Plan!TypeOK
    BY DEF PlanInv
  <1> QED
    BY <1>1, PlanAlone, PlanHolds, PTL

(* With the requests ended and the events delivered, the row says what Stripe *)
(* says, Stripe bills for one subscription, and at the row's price.          *)
THEOREM SubscriptionAgrees == LandlordSpec => []AgreesWithStripe
  <1>1. PlanInv => AgreesWithStripe
    <2> SUFFICES ASSUME PlanInv PROVE Plan!AgreesWithStripe
      BY DEF AgreesWithStripe
    <2>1. row.id # None => row.id \in Ids
      BY PlanTyped, Blanks DEF PlanInv, PlanRow
    <2>2. ASSUME queue = << >>, row.id # None, Plan!Without({"reordered", "lost", "admin"})
          PROVE  \/ row.status = stripe[row.id].status
                 \/ row.status = "canceled" /\ stripe[row.id].ending
      <3>1. Queued(row.id) = {}
        BY <2>2 DEF Queued
      <3> QED
        BY <2>1, <2>2, <3>1 DEF PlanInv, Agreement, RowFollows
    <2>3. ASSUME NEW i \in Ids, stripe[i].status \notin {"none", "canceled"}
          PROVE  row.id = i \/ i \in planStray \/ \E r \in Plan!At({"row"}) : planReq[r].id = i
      BY <2>3 DEF PlanInv, Agreement, Billed, Born, Makes, Plan!At
    <2>4. ASSUME Plan!At({"price", "plan"}) = {}, row.id # None, Plan!Without({"crossed", "died"})
          PROVE  stripe[row.id].plan = row.plan
      <3>1. Plan!At({"plan"}) = {}
        BY <2>4 DEF Plan!At
      <3> QED
        BY <2>1, <2>4, <3>1 DEF PlanInv, Priced
    <2> QED
      BY <2>2, <2>3, <2>4 DEF Plan!AgreesWithStripe
  <1> QED
    BY <1>1, PlanAlone, PlanHolds, PTL

(* No more properties than the plan allows, unless two additions were past    *)
(* the check together or the plan came after them.                           *)
THEOREM PlanIsKept == LandlordSpec => []WithinPlan
  <1>1. PlanInv => WithinPlan
    <2> SUFFICES ASSUME PlanInv, row # Plan!NoRow, Plan!Without({"crowded", "shrunk"})
                 PROVE  count <= Limit[row.plan]
      BY DEF WithinPlan, Plan!WithinPlan
    <2>1. count \in Nat /\ Crowd({"add"}) \in Nat /\ Limit[row.plan] \in Nat
      BY LimitTyped, Sizes DEF PlanInv
    <2>2. count + Crowd({"add"}) <= Limit[row.plan]
      BY DEF PlanInv, Counted
    <2> QED
      BY <2>1, <2>2
  <1> QED
    BY <1>1, PlanAlone, PlanHolds, PTL

-----------------------------------------------------------------------------
(* The rent account's refunds (RentLedger).                                   *)

RentPlaces ==
    {"idle", "processing", "failed", "succeeded", "read", "write", "commit",
     "stripe", "reverse", "commit_refund"}
WebhookPlaces == {"processing", "failed", "succeeded", "read", "write"}
RefundPlaces  == {"stripe", "reverse", "commit_refund"}
PaymentRow ==
    [status : {"none", "pending", "processing", "completed", "failed", "refunded"},
     amount : Amounts \union {0}, id : BOOLEAN]
Asked(plans) ==
    [at : RentPlaces, pay : Payments \union {"none"}, amount : Amounts \union {0}, plan : plans]

RentTyped ==
    /\ pay \in [Payments -> PaymentRow]
    /\ intent \in [Payments -> {"none", "refused", "created", "processing", "succeeded",
                                "failed", "refunded"}]
    /\ events \subseteq Payments \X {"processing", "succeeded", "failed"}
    /\ \E plans : req \in [Requests -> Asked(plans)]
    /\ \A r \in Requests : req[r].at # "idle" => req[r].pay \in Payments

\* A payment is recorded offline, or Stripe's, and then the event that completed
\* it was delivered; a refunded one Stripe has refunded.
Offline(p) == ~pay[p].id /\ intent[p] = "none"
Done(p)    == <<p, "succeeded">> \in seen
Settled(p) == pay[p].status \in {"completed", "refunded"}
PaymentRows ==
    \A p \in Payments :
        /\ pay[p].id => intent[p] \notin {"none", "refused"}
        /\ pay[p].status = "none" => Offline(p)
        /\ Settled(p) => Offline(p) \/ (pay[p].id /\ Done(p))
        /\ pay[p].id /\ pay[p].status = "refunded" => intent[p] = "refunded"
        /\ intent[p] = "refunded" => pay[p].id

\* The same of the payment a request works on; an offline one is its alone.
Works(r) ==
    /\ req[r].at \in WebhookPlaces => pay[req[r].pay].id
    /\ req[r].at = "succeeded" => Done(req[r].pay)
    /\ req[r].at \in RefundPlaces =>
          /\ Offline(req[r].pay) \/ (pay[req[r].pay].id /\ Done(req[r].pay))
          /\ pay[req[r].pay].status \notin {"none", "pending"}
    /\ req[r].at \in {"reverse", "commit_refund"} /\ pay[req[r].pay].id =>
          intent[req[r].pay] = "refunded"
    /\ req[r].at = "commit" =>
          /\ pay[req[r].pay].status = "none"
          /\ \A s \in Requests : req[s].at # "idle" /\ req[s].pay = req[r].pay => s = r
RequestRows == \A r \in Requests : Works(r)

\* A payment is completed once, and before it is refunded.
SucceedsOnce ==
    Without({"duplicate"}) =>
        \A r \in Requests : req[r].at = "succeeded" =>
            /\ ~Settled(req[r].pay)
            /\ \A s \in Requests :
                  req[s].at \in {"succeeded"} \union RefundPlaces /\ req[s].pay = req[r].pay => s = r

\* What Stripe has refunded is marked so, or about to be.
RefundsEnd ==
    Without({"aborted", "duplicate", "regressed"}) =>
        \A p \in Payments : intent[p] = "refunded" =>
            \/ pay[p].status = "refunded"
            \/ \E r \in Requests : req[r].at \in {"reverse", "commit_refund"} /\ req[r].pay = p

RefundInv == RentTyped /\ PaymentRows /\ RequestRows /\ SucceedsOnce /\ RefundsEnd

-----------------------------------------------------------------------------
\* A request, or a payment's row, is written.
Turned(r, at, p) ==
    /\ \E plans : req' \in [Requests -> Asked(plans)]
    /\ req'[r].at = at /\ req'[r].pay = p
    /\ \A s \in Requests \ {r} : req'[s] = req[s]
Booked(p, status) ==
    /\ pay' \in [Payments -> PaymentRow]
    /\ pay'[p].status = status /\ pay'[p].id = pay[p].id
    /\ \A q \in Payments \ {p} : pay'[q] = pay[q]

LEMMA RequestWritten ==
    ASSUME RentTyped, NEW r \in Requests, NEW new, NEW plans, new \in Asked(plans),
           req' = [req EXCEPT ![r] = new]
    PROVE  Turned(r, new.at, new.pay)
  <1>1. PICK old : req \in [Requests -> Asked(old)]
    BY DEF RentTyped
  <1>2. req' \in [Requests -> Asked(old \union plans)]
    BY <1>1 DEF Asked
  <1> QED
    BY <1>1, <1>2 DEF Turned

LEMMA Ended ==
    ASSUME RentTyped, NEW r \in Requests, End(r) PROVE Turned(r, "idle", "none")
  <1>1. Idle \in Asked({<< >>}) /\ Idle.at = "idle" /\ Idle.pay = "none"
    BY DEF Idle, Asked, RentPlaces
  <1>2. req' = [req EXCEPT ![r] = Idle]
    BY DEF End
  <1> QED
    BY <1>1, <1>2, RequestWritten

LEMMA Steps ==
    ASSUME RentTyped, NEW r \in Requests, NEW at \in RentPlaces,
           \/ req' = [req EXCEPT ![r].at = at]
           \/ \E plan : req' = [req EXCEPT ![r].at = at, ![r].plan = plan]
           \/ \E plan : req' = [req EXCEPT ![r].plan = plan] /\ at = req[r].at
    PROVE  Turned(r, at, req[r].pay)
  <1>1. PICK plans : req \in [Requests -> Asked(plans)]
    BY DEF RentTyped
  <1>2. CASE req' = [req EXCEPT ![r].at = at]
    <2>1. PICK new : new = [req[r] EXCEPT !.at = at]
      OBVIOUS
    <2>2. new \in Asked(plans) /\ new.at = at /\ new.pay = req[r].pay
      BY <1>1, <2>1 DEF Asked
    <2>3. req' = [req EXCEPT ![r] = new]
      BY <1>1, <1>2, <2>1
    <2> QED
      BY <2>2, <2>3, RequestWritten
  <1>3. ASSUME NEW plan, req' = [req EXCEPT ![r].at = at, ![r].plan = plan]
        PROVE  Turned(r, at, req[r].pay)
    <2>1. PICK new : new = [req[r] EXCEPT !.at = at, !.plan = plan]
      OBVIOUS
    <2>2. new \in Asked(plans \union {plan}) /\ new.at = at /\ new.pay = req[r].pay
      BY <1>1, <2>1 DEF Asked
    <2>3. req' = [req EXCEPT ![r] = new]
      BY <1>1, <1>3, <2>1
    <2> QED
      BY <2>2, <2>3, RequestWritten
  <1>4. ASSUME NEW plan, req' = [req EXCEPT ![r].plan = plan], at = req[r].at
        PROVE  Turned(r, at, req[r].pay)
    <2>1. PICK new : new = [req[r] EXCEPT !.plan = plan]
      OBVIOUS
    <2>2. new \in Asked(plans \union {plan}) /\ new.at = at /\ new.pay = req[r].pay
      BY <1>1, <1>4, <2>1 DEF Asked
    <2>3. req' = [req EXCEPT ![r] = new]
      BY <1>1, <1>4, <2>1
    <2> QED
      BY <2>2, <2>3, RequestWritten
  <1> QED
    BY <1>2, <1>3, <1>4

LEMMA Begun ==
    ASSUME RentTyped, NEW r \in Requests, NEW new, NEW plans, NEW kinds, new \in Asked(plans),
           Start(r, new, kinds)
    PROVE  /\ req[r].at = "idle" /\ Turned(r, new.at, new.pay)
           /\ upset \subseteq upset' /\ kinds \subseteq upset'
  <1>1. req' = [req EXCEPT ![r] = new] /\ req[r].at = "idle"
        /\ upset \subseteq upset' /\ kinds \subseteq upset'
    BY DEF Start, Happens
  <1> QED
    BY <1>1, RequestWritten

LEMMA MarkedAs ==
    ASSUME RentTyped, NEW p \in Payments,
           NEW status \in {"none", "pending", "processing", "completed", "failed", "refunded"},
           pay' = [pay EXCEPT ![p].status = status]
    PROVE  Booked(p, status)
  <1>1. PICK new : new = [pay[p] EXCEPT !.status = status]
    OBVIOUS
  <1>2. pay \in [Payments -> PaymentRow] /\ pay[p] \in PaymentRow
    BY DEF RentTyped
  <1>3. new \in PaymentRow /\ new.status = status /\ new.id = pay[p].id
    BY <1>1, <1>2 DEF PaymentRow
  <1>4. pay' = [pay EXCEPT ![p] = new]
    BY <1>1, <1>2
  <1> QED
    BY <1>2, <1>3, <1>4 DEF Booked

-----------------------------------------------------------------------------
(* One request moves, and no payment. *)
LEMMA RequestStep ==
    ASSUME RefundInv, NEW r \in Requests, NEW at \in RentPlaces, NEW p, Turned(r, at, p),
           UNCHANGED <<pay, intent, events>>, seen \subseteq seen', upset \subseteq upset',
           at # "idle" => p \in Payments
              /\ \A s \in Requests \ {r} : ~(req[s].at = "commit" /\ req[s].pay = p),
           at \in WebhookPlaces => pay[p].id,
           at = "succeeded" => Done(p)'
              /\ (Without({"duplicate"})' =>
                     /\ ~Settled(p)
                     /\ \A s \in Requests \ {r} :
                           ~(req[s].at \in {"succeeded"} \union RefundPlaces /\ req[s].pay = p)),
           at \in RefundPlaces =>
              /\ Offline(p) \/ (pay[p].id /\ Done(p)')
              /\ pay[p].status \notin {"none", "pending"}
              /\ Without({"duplicate"})' =>
                    \A s \in Requests \ {r} : ~(req[s].at = "succeeded" /\ req[s].pay = p),
           at \in {"reverse", "commit_refund"} /\ pay[p].id => intent[p] = "refunded",
           at = "commit" => pay[p].status = "none"
              /\ \A s \in Requests \ {r} : ~(req[s].at # "idle" /\ req[s].pay = p),
           req[r].at \in {"reverse", "commit_refund"} =>
              (at \in {"reverse", "commit_refund"} /\ p = req[r].pay) \/ "aborted" \in upset'
    PROVE  RefundInv'
  <1>1. /\ req'[r].at = at /\ req'[r].pay = p /\ \A s \in Requests \ {r} : req'[s] = req[s]
    BY DEF Turned
  <1>2. RentTyped'
    BY <1>1 DEF RefundInv, RentTyped, Turned
  <1>3. PaymentRows'
    BY DEF RefundInv, PaymentRows, Offline, Settled, Done
  <1>4. ASSUME NEW q \in Requests PROVE Works(q)'
    <2>1. CASE q = r
      <3>1. at = "commit" => \A s \in Requests : req'[s].at # "idle" /\ req'[s].pay = p => s = r
        BY <1>1
      <3> QED
        BY <1>1, <2>1, <3>1 DEF Works, Offline, Done
    <2>2. CASE q # r
      <3>1. Works(q) /\ req'[q] = req[q]
        BY <1>1, <2>2 DEF RefundInv, RequestRows
      <3>2. req[q].at = "commit" =>
                \A s \in Requests : req'[s].at # "idle" /\ req'[s].pay = req[q].pay => s = q
        BY <1>1, <2>2, <3>1 DEF Works
      <3> QED
        BY <3>1, <3>2 DEF Works, Offline, Done
    <2> QED
      BY <2>1, <2>2
  <1>5. SucceedsOnce'
    <2>1. ASSUME Without({"duplicate"})', NEW q \in Requests, req'[q].at = "succeeded",
                 NEW s \in Requests, req'[s].at \in {"succeeded"} \union RefundPlaces,
                 req'[s].pay = req'[q].pay, s # q
          PROVE  FALSE
      <3>1. Without({"duplicate"})
        BY <2>1 DEF Without
      <3>2. CASE q = r
        BY <1>1, <2>1, <3>2
      <3>3. CASE s = r
        BY <1>1, <2>1, <3>1, <3>3 DEF RefundInv, SucceedsOnce
      <3>4. CASE q # r /\ s # r
        BY <1>1, <2>1, <3>1, <3>4 DEF RefundInv, SucceedsOnce
      <3> QED
        BY <3>2, <3>3, <3>4
    <2>2. ASSUME Without({"duplicate"})', NEW q \in Requests, req'[q].at = "succeeded"
          PROVE  ~(pay[req'[q].pay].status \in {"completed", "refunded"})
      <3>1. Without({"duplicate"})
        BY <2>2 DEF Without
      <3> QED
        BY <1>1, <2>2, <3>1 DEF RefundInv, SucceedsOnce, Settled
    <2> QED
      BY <2>1, <2>2 DEF SucceedsOnce, Settled
  <1>6. RefundsEnd'
    <2>1. ASSUME Without({"aborted", "duplicate", "regressed"})', NEW q \in Payments,
                 intent[q] = "refunded"
          PROVE  \/ pay[q].status = "refunded"
                 \/ \E s \in Requests :
                        req'[s].at \in {"reverse", "commit_refund"} /\ req'[s].pay = q
      <3>1. Without({"aborted", "duplicate", "regressed"}) /\ "aborted" \notin upset'
        BY <2>1 DEF Without
      <3>2. \/ pay[q].status = "refunded"
            \/ \E s \in Requests : req[s].at \in {"reverse", "commit_refund"} /\ req[s].pay = q
        BY <2>1, <3>1 DEF RefundInv, RefundsEnd
      <3> QED
        BY <1>1, <3>1, <3>2
    <2> QED
      BY <2>1 DEF RefundsEnd
  <1> QED
    BY <1>2, <1>3, <1>4, <1>5, <1>6 DEF RefundInv, RequestRows

LEMMA UpsetKept == ASSUME NEW kinds, Happens(kinds) PROVE upset \subseteq upset' /\ kinds \subseteq upset'
  BY DEF Happens

LEMMA RefundKeptByDeliver == ASSUME RefundInv, NEW r \in Requests, Deliver(r) PROVE RefundInv'
  <1>1. PICK e \in events :
            LET again == IF e \in seen THEN {"duplicate"} ELSE {} IN
            /\ seen' = seen \union {e}
            /\ IF pay[e[1]].id
               THEN Start(r, [Idle EXCEPT !.at = e[2], !.pay = e[1]], again)
               ELSE /\ req[r].at = "idle" /\ Happens(again \union {"lost"}) /\ UNCHANGED req
            /\ UNCHANGED <<ledger, months, unpaid, pay, intent, events>>
    BY DEF Deliver
  <1>2. PICK p \in Payments, at \in {"processing", "succeeded", "failed"} : e = <<p, at>>
    BY DEF RefundInv, RentTyped
  <1>3. PICK again : again = IF e \in seen THEN {"duplicate"} ELSE {}
    OBVIOUS
  <1>4. CASE pay[p].id
    <2>1. PICK new : new = [Idle EXCEPT !.at = at, !.pay = p]
      OBVIOUS
    <2>2. new \in Asked({<< >>}) /\ new.at = at /\ new.pay = p
      BY <2>1 DEF Idle, Asked, RentPlaces
    <2>3. Start(r, new, again)
      BY <1>1, <1>2, <1>3, <1>4, <2>1
    <2>4. req[r].at = "idle" /\ Turned(r, at, p) /\ upset \subseteq upset' /\ again \subseteq upset'
      BY <2>2, <2>3, Begun DEF RefundInv
    <2>5. Without({"duplicate"})' => <<p, at>> \notin seen
      BY <1>2, <1>3, <2>4 DEF Without
    <2>6. \A s \in Requests : ~(req[s].at = "commit" /\ req[s].pay = p)
      BY <1>4 DEF RefundInv, RequestRows, Works, PaymentRows, Offline
    <2>7. ASSUME at = "succeeded", Without({"duplicate"})'
          PROVE  /\ ~Settled(p)
                 /\ \A s \in Requests :
                       ~(req[s].at \in {"succeeded"} \union RefundPlaces /\ req[s].pay = p)
      BY <1>4, <2>5, <2>7 DEF RefundInv, RequestRows, Works, PaymentRows, Offline, Done
    <2>8. /\ at \in RentPlaces /\ at \in WebhookPlaces /\ at # "commit" /\ at \notin RefundPlaces
          /\ at # "reverse" /\ at # "commit_refund"
          /\ seen \subseteq seen' /\ UNCHANGED <<pay, intent, events>>
          /\ at = "succeeded" => Done(p)'
      BY <1>1, <1>2 DEF RentPlaces, WebhookPlaces, RefundPlaces, Done
    <2> QED
      BY <1>4, <2>4, <2>6, <2>7, <2>8, RequestStep
  <1>5. CASE ~pay[p].id
    <2>1. UNCHANGED <<pay, intent, events, req>> /\ seen \subseteq seen' /\ upset \subseteq upset'
      BY <1>1, <1>2, <1>3, <1>5, UpsetKept
    <2>2. RentTyped' /\ PaymentRows'
      BY <2>1 DEF RefundInv, RentTyped, PaymentRows, Offline, Settled, Done
    <2>3. RequestRows'
      BY <2>1 DEF RefundInv, RequestRows, Works, Offline, Done
    <2>4. SucceedsOnce' /\ RefundsEnd'
      BY <2>1 DEF RefundInv, SucceedsOnce, RefundsEnd, Settled, Without
    <2> QED
      BY <2>2, <2>3, <2>4 DEF RefundInv
  <1> QED
    BY <1>4, <1>5

\* What the handlers do to the charges leaves the payment as it was.
LEMMA RefundKeptByCharges ==
    ASSUME RefundInv, NEW r \in Requests, ReadOpen(r) \/ WriteCharge(r) \/ Throw(r)
    PROVE  RefundInv'
  <1>1. /\ UNCHANGED <<pay, intent, events, seen>> /\ upset \subseteq upset'
        /\ req[r].at \in WebhookPlaces
    BY UpsetKept DEF ReadOpen, WriteCharge, Throw, Once, WebhookPlaces
  <1>2. PICK p \in Payments : p = req[r].pay
    BY <1>1 DEF RefundInv, RentTyped, WebhookPlaces
  <1>3. /\ pay[p].id /\ \A s \in Requests : ~(req[s].at = "commit" /\ req[s].pay = p)
        /\ req[r].at \notin {"reverse", "commit_refund"}
    BY <1>1, <1>2
       DEF RefundInv, RequestRows, Works, PaymentRows, Offline, WebhookPlaces
  <1>4. ASSUME NEW at \in {"idle", "write"}, NEW q, q \in Payments \/ at = "idle",
               at = "write" => q = p, Turned(r, at, q)
        PROVE  RefundInv'
    <2>1. /\ at \in RentPlaces /\ at # "succeeded" /\ at # "commit" /\ at \notin RefundPlaces
          /\ at \notin {"reverse", "commit_refund"} /\ seen \subseteq seen'
          /\ at \in WebhookPlaces => pay[q].id
      BY <1>1, <1>3, <1>4 DEF RentPlaces, RefundPlaces, WebhookPlaces
    <2>2. at # "idle" => q \in Payments
             /\ \A s \in Requests \ {r} : ~(req[s].at = "commit" /\ req[s].pay = q)
      BY <1>3, <1>4
    <2>3. req[r].at \in {"reverse", "commit_refund"} => FALSE
      BY <1>3
    <2>4. UNCHANGED <<pay, intent, events>> /\ upset \subseteq upset'
      BY <1>1
    <2> QED
      BY <1>4, <2>1, <2>2, <2>3, <2>4, RequestStep
  <1>5. CASE ReadOpen(r)
    <2>1. Turned(r, "write", p)
      BY <1>2, <1>5, Steps DEF ReadOpen, RentPlaces, RefundInv
    <2> QED
      BY <1>4, <2>1
  <1>6. CASE WriteCharge(r)
    <2>1. CASE End(r)
      BY <1>4, <2>1, Ended DEF RefundInv
    <2>2. CASE ~End(r)
      <3>1. req[r].at = "write" /\ \E plan : req' = [req EXCEPT ![r].plan = plan]
        BY <1>6, <2>2 DEF WriteCharge
      <3>2. Turned(r, "write", p)
        BY <1>2, <3>1, Steps DEF RentPlaces, RefundInv
      <3> QED
        BY <1>4, <3>2
    <2> QED
      BY <2>1, <2>2
  <1>7. CASE Throw(r)
    BY <1>4, <1>7, Ended DEF Throw, RefundInv
  <1> QED
    BY <1>5, <1>6, <1>7

LEMMA RefundKeptByAsking ==
    ASSUME RefundInv, NEW r \in Requests,
           RecordOffline(r) \/ Refund(r) \/ ReadPaid(r) \/ AbortRefund(r)
    PROVE  RefundInv'
  <1>1. UNCHANGED <<pay, intent, events, seen>> /\ seen \subseteq seen'
    BY DEF RecordOffline, Refund, ReadPaid, AbortRefund
  <1>2. CASE RecordOffline(r)
    <2>1. PICK p \in Payments, a \in Amounts :
              /\ pay[p].status = "none" /\ \A s \in Requests : req[s].pay # p
              /\ Start(r, [at |-> "commit", pay |-> p, amount |-> a, plan |-> Credit(a)], Excess(a))
      BY <1>2 DEF RecordOffline
    <2>2. PICK plan : plan = Credit(a)
      OBVIOUS
    <2>3. PICK new : new = [at |-> "commit", pay |-> p, amount |-> a, plan |-> plan]
      OBVIOUS
    <2>4. new \in Asked({plan}) /\ new.at = "commit" /\ new.pay = p
      BY <2>3 DEF Asked, RentPlaces
    <2>5. Start(r, new, Excess(a))
      BY <2>1, <2>2, <2>3
    <2>6. Turned(r, "commit", p) /\ upset \subseteq upset' /\ req[r].at = "idle"
      BY <2>4, <2>5, Begun DEF RefundInv
    <2>7. "commit" \in RentPlaces \ (WebhookPlaces \union RefundPlaces)
      BY DEF RentPlaces, WebhookPlaces, RefundPlaces
    <2> QED
      BY <1>1, <2>1, <2>6, <2>7, RequestStep
  <1>3. CASE Refund(r)
    <2>1. PICK p \in Payments :
              /\ pay[p].status = "completed"
              /\ Start(r, [Idle EXCEPT !.at = IF pay[p].id THEN "stripe" ELSE "reverse", !.pay = p], {})
      BY <1>3 DEF Refund
    <2>2. PICK at \in {"stripe", "reverse"} : at = IF pay[p].id THEN "stripe" ELSE "reverse"
      OBVIOUS
    <2>3. PICK new : new = [Idle EXCEPT !.at = at, !.pay = p]
      OBVIOUS
    <2>4. new \in Asked({<< >>}) /\ new.at = at /\ new.pay = p
      BY <2>3 DEF Idle, Asked, RentPlaces
    <2>5. Start(r, new, {})
      BY <2>1, <2>2, <2>3
    <2>6. Turned(r, at, p) /\ upset \subseteq upset' /\ req[r].at = "idle"
      BY <2>4, <2>5, Begun DEF RefundInv
    <2>7. /\ at \in RentPlaces /\ at \in RefundPlaces /\ at \notin WebhookPlaces
      BY DEF RentPlaces, WebhookPlaces, RefundPlaces
    <2>8. /\ Offline(p) \/ (pay[p].id /\ Done(p)')
          /\ pay[p].status \notin {"none", "pending"}
          /\ at \in {"reverse", "commit_refund"} => ~pay[p].id
      BY <1>1, <2>1, <2>2 DEF RefundInv, PaymentRows, Settled, Done
    <2>9. \A s \in Requests : ~(req[s].at = "commit" /\ req[s].pay = p)
      BY <2>1 DEF RefundInv, RequestRows, Works
    <2>10. Without({"duplicate"})' => \A s \in Requests : ~(req[s].at = "succeeded" /\ req[s].pay = p)
      BY <2>1, <2>6 DEF RefundInv, SucceedsOnce, Settled, Without
    <2> QED
      BY <1>1, <2>6, <2>7, <2>8, <2>9, <2>10, RequestStep
  <1>4. CASE ReadPaid(r)
    <2>1. /\ req[r].at = "reverse" /\ upset' = upset
          /\ \E plan : req' = [req EXCEPT ![r].at = "commit_refund", ![r].plan = plan]
      BY <1>4 DEF ReadPaid
    <2>2. PICK p \in Payments : p = req[r].pay
      BY <2>1 DEF RefundInv, RentTyped
    <2>3. Turned(r, "commit_refund", p)
      BY <2>1, <2>2, Steps DEF RentPlaces, RefundInv
    <2>4. "commit_refund" \in RentPlaces /\ "commit_refund" \in RefundPlaces
          /\ "commit_refund" \notin WebhookPlaces /\ req[r].at \in RefundPlaces
      BY <2>1 DEF RentPlaces, WebhookPlaces, RefundPlaces
    <2>5. /\ Offline(p) \/ (pay[p].id /\ Done(p)')
          /\ pay[p].status \notin {"none", "pending"}
          /\ pay[p].id => intent[p] = "refunded"
      BY <1>1, <2>1, <2>2, <2>4 DEF RefundInv, RequestRows, Works, Done
    <2>6. \A s \in Requests : ~(req[s].at = "commit" /\ req[s].pay = p)
      BY <2>5 DEF RefundInv, RequestRows, Works
    <2>7. Without({"duplicate"})' =>
              \A s \in Requests \ {r} : ~(req[s].at = "succeeded" /\ req[s].pay = p)
      BY <2>1, <2>2, <2>4 DEF RefundInv, SucceedsOnce, Without
    <2> QED
      BY <1>1, <2>1, <2>2, <2>3, <2>4, <2>5, <2>6, <2>7, RequestStep
  <1>5. CASE AbortRefund(r)
    <2>1. Turned(r, "idle", "none") /\ upset \subseteq upset' /\ "aborted" \in upset'
      BY <1>5, Ended, UpsetKept DEF AbortRefund, Once, RefundInv
    <2>2. "idle" \in RentPlaces \ (WebhookPlaces \union RefundPlaces)
      BY DEF RentPlaces, WebhookPlaces, RefundPlaces
    <2> QED
      BY <1>1, <2>1, <2>2, RequestStep
  <1> QED
    BY <1>2, <1>3, <1>4, <1>5

LEMMA RefundKeptByStripe == ASSUME RefundInv, NEW r \in Requests, RefundAtStripe(r) PROVE RefundInv'
  <1>1. UNCHANGED <<pay, events, seen, upset>> /\ req[r].at = "stripe" /\ req[r].at \in RefundPlaces
    BY DEF RefundAtStripe, RefundPlaces
  <1>2. PICK p \in Payments : p = req[r].pay
    BY <1>1 DEF RefundInv, RentTyped
  <1>3. CASE intent[p] # "succeeded"
    <2>1. Turned(r, "idle", "none") /\ UNCHANGED intent
      BY <1>2, <1>3, Ended DEF RefundAtStripe, RefundInv
    <2>2. "idle" \in RentPlaces \ (WebhookPlaces \union RefundPlaces)
      BY DEF RentPlaces, WebhookPlaces, RefundPlaces
    <2> QED
      BY <1>1, <2>1, <2>2, RequestStep
  <1>4. CASE intent[p] = "succeeded"
    <2>1. /\ intent' = [intent EXCEPT ![p] = "refunded"]
          /\ req' = [req EXCEPT ![r].at = "reverse"]
      BY <1>2, <1>4 DEF RefundAtStripe
    <2>2. Turned(r, "reverse", p)
      BY <1>2, <2>1, Steps DEF RentPlaces, RefundInv
    <2>3. /\ req'[r].at = "reverse" /\ req'[r].pay = p
          /\ \A s \in Requests \ {r} : req'[s] = req[s]
          /\ \A s \in Requests : req'[s].pay = req[s].pay
      BY <1>2, <2>2 DEF Turned
    <2>4. /\ intent'[p] = "refunded" /\ \A q \in Payments \ {p} : intent'[q] = intent[q]
          /\ ~Offline(p) /\ ~Offline(p)' /\ \A q \in Payments : Offline(q)' = Offline(q)
      BY <1>1, <1>4, <2>1 DEF RefundInv, RentTyped, Offline
    <2>5. RentTyped'
      BY <1>1, <2>1, <2>2, <2>3, <1>2 DEF RefundInv, RentTyped, Turned
    <2>6. PaymentRows'
      <3>1. pay[p].id
        BY <1>1, <1>2, <2>4 DEF RefundInv, RequestRows, Works
      <3> QED
        BY <1>1, <2>4, <3>1 DEF RefundInv, PaymentRows, Settled, Done
    <2>7. ASSUME NEW q \in Requests PROVE Works(q)'
      <3>1. Works(q) /\ Works(r)
        BY DEF RefundInv, RequestRows
      <3>2. CASE q = r
        BY <1>1, <1>2, <2>3, <2>4, <3>1, <3>2 DEF Works, Done, WebhookPlaces, RefundPlaces
      <3>3. CASE q # r
        <4>1. req[q].at # "idle" => req[q].pay \in Payments
          BY DEF RefundInv, RentTyped
        <4>2. req[q].at # "commit" => Works(q)'
          BY <1>1, <2>3, <2>4, <3>1, <3>3, <4>1 DEF Works, Done, WebhookPlaces, RefundPlaces
        <4>3. req[q].at = "commit" => Works(q)'
          BY <1>1, <2>3, <3>1, <3>3 DEF Works, WebhookPlaces, RefundPlaces
        <4> QED
          BY <4>2, <4>3
      <3> QED
        BY <3>2, <3>3
    <2>8. SucceedsOnce'
      <3>1. /\ \A s \in Requests : req'[s].at = "succeeded" => req[s].at = "succeeded"
            /\ \A s \in Requests : req'[s].at \in {"succeeded"} \union RefundPlaces =>
                   req[s].at \in {"succeeded"} \union RefundPlaces
        BY <1>1, <2>3
      <3> QED
        BY <1>1, <2>3, <3>1 DEF RefundInv, SucceedsOnce, Settled, Without
    <2>9. RefundsEnd'
      <3>1. ASSUME Without({"aborted", "duplicate", "regressed"}), NEW q \in Payments,
                   intent'[q] = "refunded"
            PROVE  \/ pay[q].status = "refunded"
                   \/ \E s \in Requests :
                          req'[s].at \in {"reverse", "commit_refund"} /\ req'[s].pay = q
        <4>1. CASE q = p
          BY <2>3, <4>1
        <4>2. CASE q # p
          <5>1. \/ pay[q].status = "refunded"
                \/ \E s \in Requests : req[s].at \in {"reverse", "commit_refund"} /\ req[s].pay = q
            BY <2>4, <3>1, <4>2 DEF RefundInv, RefundsEnd
          <5> QED
            BY <1>1, <2>3, <5>1
        <4> QED
          BY <4>1, <4>2
      <3> QED
        BY <1>1, <3>1 DEF RefundsEnd, Without
    <2> QED
      BY <2>5, <2>6, <2>7, <2>8, <2>9 DEF RefundInv, RequestRows
  <1> QED
    BY <1>3, <1>4

-----------------------------------------------------------------------------
(* A payment's row is written by the request that works on it. *)
LEMMA PaymentStep ==
    ASSUME RefundInv, NEW r \in Requests, NEW p \in Payments, NEW at \in {"idle", "read"},
           NEW status \in {"processing", "completed", "failed", "refunded"}, NEW to,
           req[r].at \notin {"idle", "stripe", "reverse"}, req[r].pay = p,
           Turned(r, at, to), at = "read" => to = p /\ pay[p].id, Booked(p, status),
           UNCHANGED <<intent, events, seen>>, upset \subseteq upset',
           status \in {"completed", "refunded"} => Offline(p) \/ (pay[p].id /\ Done(p)),
           pay[p].id /\ status = "refunded" => intent[p] = "refunded",
           req[r].at = "commit_refund" => status = "refunded",
           pay[p].status = "refunded" /\ pay[p].id /\ status # "refunded" =>
              ~Without({"duplicate", "regressed"})',
           status \in {"completed", "refunded"} /\ Without({"duplicate"})' =>
              \A s \in Requests \ {r} : ~(req[s].at = "succeeded" /\ req[s].pay = p),
           \A s \in Requests \ {r} : ~(req[s].at = "commit" /\ req[s].pay = p)
    PROVE  RefundInv'
  <1>1. /\ req'[r].at = at /\ req'[r].pay = to /\ \A s \in Requests \ {r} : req'[s] = req[s]
        /\ pay'[p].status = status /\ pay'[p].id = pay[p].id
        /\ \A q \in Payments \ {p} : pay'[q] = pay[q]
        /\ \A q \in Payments : Offline(q)' = Offline(q)
    BY DEF Turned, Booked, Offline
  <1>2. RentTyped'
    BY <1>1 DEF RefundInv, RentTyped, Turned, Booked
  <1>3. PaymentRows'
    BY <1>1 DEF RefundInv, PaymentRows, Settled, Done
  <1>4. ASSUME NEW q \in Requests PROVE Works(q)'
    <2>1. CASE q = r
      BY <1>1, <2>1 DEF Works, WebhookPlaces, RefundPlaces
    <2>2. CASE q # r
      <3>1. Works(q) /\ req'[q] = req[q] /\ (req[q].at # "idle" => req[q].pay \in Payments)
        BY <1>1, <2>2 DEF RefundInv, RequestRows, RentTyped
      <3>2. CASE req[q].at = "commit"
        <4>1. req[q].pay # p /\ req[q].pay \in Payments
          BY <2>2, <3>1, <3>2
        <4>2. \A s \in Requests : req'[s].at # "idle" /\ req'[s].pay = req[q].pay => s = q
          BY <1>1, <3>1, <3>2, <4>1 DEF Works
        <4> QED
          BY <1>1, <3>1, <3>2, <4>1, <4>2 DEF Works, WebhookPlaces, RefundPlaces
      <3>3. CASE req[q].at # "commit" /\ req[q].pay = p
        BY <1>1, <3>1, <3>3 DEF Works, WebhookPlaces, RefundPlaces, Done
      <3>4. CASE req[q].at # "commit" /\ req[q].pay # p
        BY <1>1, <3>1, <3>4 DEF Works, WebhookPlaces, RefundPlaces, Done
      <3> QED
        BY <3>2, <3>3, <3>4
    <2> QED
      BY <2>1, <2>2
  <1>5. SucceedsOnce'
    <2>1. ASSUME Without({"duplicate"})', NEW q \in Requests, req'[q].at = "succeeded"
          PROVE  /\ ~(pay'[req'[q].pay].status \in {"completed", "refunded"})
                 /\ \A s \in Requests :
                       req'[s].at \in {"succeeded"} \union RefundPlaces
                       /\ req'[s].pay = req'[q].pay => s = q
      <3>1. q # r /\ req'[q] = req[q] /\ req[q].pay \in Payments /\ Without({"duplicate"})
        BY <1>1, <2>1 DEF RefundInv, RentTyped, Without
      <3>2. /\ ~Settled(req[q].pay)
            /\ \A s \in Requests :
                  req[s].at \in {"succeeded"} \union RefundPlaces /\ req[s].pay = req[q].pay => s = q
        BY <2>1, <3>1 DEF RefundInv, SucceedsOnce
      <3>3. ~(pay'[req[q].pay].status \in {"completed", "refunded"})
        BY <1>1, <2>1, <3>1, <3>2 DEF Settled
      <3>4. \A s \in Requests : req'[s].at \in {"succeeded"} \union RefundPlaces =>
                req[s].at \in {"succeeded"} \union RefundPlaces /\ req'[s] = req[s]
        BY <1>1 DEF RefundPlaces
      <3> QED
        BY <3>1, <3>2, <3>3, <3>4
    <2> QED
      BY <2>1 DEF SucceedsOnce, Settled
  <1>6. RefundsEnd'
    <2>1. ASSUME Without({"aborted", "duplicate", "regressed"})', NEW q \in Payments,
                 intent[q] = "refunded"
          PROVE  \/ pay'[q].status = "refunded"
                 \/ \E s \in Requests :
                        req'[s].at \in {"reverse", "commit_refund"} /\ req'[s].pay = q
      <3>1. Without({"aborted", "duplicate", "regressed"}) /\ Without({"duplicate", "regressed"})'
        BY <2>1 DEF Without
      <3>2. \/ pay[q].status = "refunded"
            \/ \E s \in Requests : req[s].at \in {"reverse", "commit_refund"} /\ req[s].pay = q
        BY <2>1, <3>1 DEF RefundInv, RefundsEnd
      <3>3. CASE q = p /\ pay[q].status = "refunded"
        <4>1. pay[q].id
          BY <2>1, <3>3 DEF RefundInv, PaymentRows, Settled, Offline
        <4> QED
          BY <1>1, <3>1, <3>3, <4>1
      <3>4. CASE q # p /\ pay[q].status = "refunded"
        BY <1>1, <3>4
      <3>5. ASSUME NEW s \in Requests, req[s].at \in {"reverse", "commit_refund"}, req[s].pay = q
            PROVE  \/ pay'[q].status = "refunded"
                   \/ req'[s].at \in {"reverse", "commit_refund"} /\ req'[s].pay = q
        BY <1>1, <3>5
      <3> QED
        BY <3>2, <3>3, <3>4, <3>5
    <2> QED
      BY <2>1 DEF RefundsEnd
  <1> QED
    BY <1>2, <1>3, <1>4, <1>5, <1>6 DEF RefundInv, RequestRows

LEMMA RefundKeptByWebhook ==
    ASSUME RefundInv, NEW r \in Requests, Mark(r) \/ Complete(r) PROVE RefundInv'
  <1>1. UNCHANGED <<intent, events, seen>> /\ upset \subseteq upset'
        /\ req[r].at \in {"processing", "failed", "succeeded"} /\ req[r].at \in WebhookPlaces
    BY UpsetKept DEF Mark, Complete, WebhookPlaces
  <1>2. PICK p \in Payments : p = req[r].pay
    BY <1>1 DEF RefundInv, RentTyped
  <1>3. /\ pay[p].id /\ \A s \in Requests : ~(req[s].at = "commit" /\ req[s].pay = p)
    BY <1>1, <1>2 DEF RefundInv, RequestRows, Works, PaymentRows, Offline
  <1>4. CASE Mark(r)
    <2>1. /\ req[r].at \in {"processing", "failed"}
          /\ pay[p].status \in {"completed", "refunded"} => "regressed" \in upset'
          /\ pay' = [pay EXCEPT ![p].status = req[r].at] /\ Turned(r, "idle", "none")
      BY <1>2, <1>4, UpsetKept, Ended DEF Mark, RefundInv
    <2>2. PICK status \in {"processing", "failed"} : status = req[r].at
      BY <2>1
    <2>3. Booked(p, status)
      BY <2>1, <2>2, MarkedAs DEF RefundInv
    <2>4. pay[p].status = "refunded" => ~Without({"duplicate", "regressed"})'
      BY <2>1 DEF Without
    <2>5. /\ req[r].at \notin {"idle", "stripe", "reverse", "commit_refund"}
          /\ status \notin {"completed", "refunded"}
          /\ \A s \in Requests \ {r} : ~(req[s].at = "commit" /\ req[s].pay = p)
      BY <1>1, <1>3
    <2> QED
      BY <1>1, <1>2, <2>1, <2>3, <2>4, <2>5, PaymentStep
  <1>5. CASE Complete(r)
    <2>1. /\ req[r].at = "succeeded" /\ Turned(r, "read", p)
          /\ pay' = [pay EXCEPT ![p].status = "completed"]
      BY <1>2, <1>5, Steps DEF Complete, RefundInv, RentPlaces
    <2>2. Booked(p, "completed")
      BY <2>1, MarkedAs DEF RefundInv
    <2>3. Done(p)
      BY <1>2, <2>1 DEF RefundInv, RequestRows, Works
    <2>4. Without({"duplicate"})' =>
              /\ ~Settled(p)
              /\ \A s \in Requests \ {r} : ~(req[s].at = "succeeded" /\ req[s].pay = p)
      BY <1>1, <1>2, <2>1 DEF RefundInv, SucceedsOnce, Without
    <2>5. pay[p].status = "refunded" => ~Without({"duplicate", "regressed"})'
      BY <2>4 DEF Settled, Without
    <2>6. /\ req[r].at \notin {"idle", "stripe", "reverse", "commit_refund"}
          /\ \A s \in Requests \ {r} : ~(req[s].at = "commit" /\ req[s].pay = p)
          /\ Without({"duplicate"})' =>
                \A s \in Requests \ {r} : ~(req[s].at = "succeeded" /\ req[s].pay = p)
      BY <1>3, <2>1, <2>4
    <2>7. UNCHANGED <<intent, events, seen>> /\ upset \subseteq upset' /\ req[r].pay = p
          /\ pay[p].id /\ (Offline(p) \/ (pay[p].id /\ Done(p)))
      BY <1>1, <1>2, <1>3, <2>3
    <2> QED
      BY <2>1, <2>2, <2>5, <2>6, <2>7, PaymentStep
  <1> QED
    BY <1>4, <1>5

LEMMA RefundKeptByCommits ==
    ASSUME RefundInv, NEW r \in Requests, CommitOffline(r) \/ CommitRefund(r) PROVE RefundInv'
  <1>1. UNCHANGED <<intent, events, seen, upset>> /\ req[r].at \in {"commit", "commit_refund"}
        /\ Turned(r, "idle", "none")
    BY Ended DEF CommitOffline, CommitRefund, RefundInv
  <1>2. PICK p \in Payments : p = req[r].pay
    BY <1>1 DEF RefundInv, RentTyped
  <1>3. CASE CommitOffline(r)
    <2>1. req[r].at = "commit" /\ pay[p].status = "none" /\ Offline(p) /\ ~pay[p].id
          /\ \A s \in Requests : req[s].at # "idle" /\ req[s].pay = p => s = r
      BY <1>2, <1>3 DEF CommitOffline, RefundInv, RequestRows, Works, PaymentRows, Offline
    <2>2. PICK plans : req \in [Requests -> Asked(plans)]
      BY DEF RefundInv, RentTyped
    <2>3. PICK new : new = [status |-> "completed", amount |-> req[r].amount, id |-> FALSE]
      OBVIOUS
    <2>4. new \in PaymentRow /\ new.status = "completed" /\ new.id = FALSE
      BY <2>2, <2>3 DEF PaymentRow, Asked
    <2>5. pay' = [pay EXCEPT ![p] = new] /\ pay \in [Payments -> PaymentRow]
      BY <1>2, <1>3, <2>3 DEF CommitOffline, RefundInv, RentTyped
    <2>6. Booked(p, "completed")
      <3>1. pay[p].id = FALSE
        BY <2>1, <2>5 DEF PaymentRow
      <3> QED
        BY <2>4, <2>5, <3>1 DEF Booked
    <2>7. /\ \A s \in Requests \ {r} : ~(req[s].at = "succeeded" /\ req[s].pay = p)
          /\ \A s \in Requests \ {r} : ~(req[s].at = "commit" /\ req[s].pay = p)
      BY <2>1
    <2> QED
      BY <1>1, <1>2, <2>1, <2>6, <2>7, PaymentStep
  <1>4. CASE CommitRefund(r)
    <2>1. /\ req[r].at = "commit_refund" /\ req[r].at \in RefundPlaces
          /\ pay' = [pay EXCEPT ![p].status = "refunded"]
      BY <1>2, <1>4 DEF CommitRefund, RefundPlaces
    <2>2. Booked(p, "refunded")
      BY <2>1, MarkedAs DEF RefundInv
    <2>3. /\ Offline(p) \/ (pay[p].id /\ Done(p))
          /\ pay[p].id => intent[p] = "refunded"
          /\ pay[p].status # "none"
      BY <1>2, <2>1 DEF RefundInv, RequestRows, Works
    <2>4. \A s \in Requests : ~(req[s].at = "commit" /\ req[s].pay = p)
      BY <2>3 DEF RefundInv, RequestRows, Works
    <2>5. Without({"duplicate"})' =>
              \A s \in Requests \ {r} : ~(req[s].at = "succeeded" /\ req[s].pay = p)
      BY <1>1, <1>2, <2>1 DEF RefundInv, SucceedsOnce, Without
    <2> QED
      BY <1>1, <1>2, <2>1, <2>2, <2>3, <2>4, <2>5, PaymentStep
  <1> QED
    BY <1>3, <1>4

\* A payment no request works on is created, or asked for at Stripe; or its id
\* is stored, or Stripe settles it.
LEMMA PaymentAlone ==
    ASSUME RefundInv, NEW p \in Payments, UNCHANGED <<seen, req, upset>>,
           RentTyped', ~Settled(p), ~Settled(p)', intent[p] # "refunded", intent'[p] # "refunded",
           \A q \in Payments \ {p} : pay'[q] = pay[q] /\ intent'[q] = intent[q],
           pay[p].id => pay'[p].id,
           pay'[p].id => intent'[p] \notin {"none", "refused"},
           pay'[p].status = "none" => pay[p].status = "none" /\ Offline(p)',
           \A r \in Requests : req[r].pay = p =>
               /\ req[r].at \notin RefundPlaces
               /\ req[r].at = "commit" => pay'[p].status = "none"
    PROVE  RefundInv'
  <1>1. \A q \in Payments \ {p} : Offline(q)' = Offline(q) /\ Settled(q)' = Settled(q)
    BY DEF Offline, Settled
  <1>2. PaymentRows'
    <2>1. ASSUME NEW q \in Payments
          PROVE  /\ pay'[q].id => intent'[q] \notin {"none", "refused"}
                 /\ pay'[q].status = "none" => Offline(q)'
                 /\ Settled(q)' => Offline(q)' \/ (pay'[q].id /\ Done(q)')
                 /\ pay'[q].id /\ pay'[q].status = "refunded" => intent'[q] = "refunded"
                 /\ intent'[q] = "refunded" => pay'[q].id
      <3>1. CASE q = p
        BY <3>1 DEF Settled
      <3>2. CASE q # p
        BY <1>1, <3>2 DEF RefundInv, PaymentRows, Done
      <3> QED
        BY <3>1, <3>2
    <2> QED
      BY <2>1 DEF PaymentRows
  <1>3. ASSUME NEW r \in Requests PROVE Works(r)'
    <2>1. Works(r) /\ (req[r].at # "idle" => req[r].pay \in Payments)
      BY DEF RefundInv, RequestRows, RentTyped
    <2>2. CASE req[r].at = "idle"
      BY <2>2 DEF Works, WebhookPlaces, RefundPlaces
    <2>3. CASE req[r].at # "idle" /\ req[r].pay = p
      BY <2>1, <2>3 DEF Works, WebhookPlaces, RefundPlaces, Done
    <2>4. CASE req[r].at # "idle" /\ req[r].pay # p
      BY <1>1, <2>1, <2>4 DEF Works, Done
    <2> QED
      BY <2>2, <2>3, <2>4
  <1>4. SucceedsOnce'
    <2>1. \A r \in Requests : req[r].at = "succeeded" /\ ~Settled(req[r].pay) =>
              ~(pay'[req[r].pay].status \in {"completed", "refunded"})
      BY DEF RefundInv, RentTyped, Settled
    <2> QED
      BY <2>1 DEF RefundInv, SucceedsOnce, Settled, Without
  <1>5. RefundsEnd'
    BY DEF RefundInv, RefundsEnd, Without
  <1> QED
    BY <1>2, <1>3, <1>4, <1>5 DEF RefundInv, RequestRows

LEMMA RefundKeptByPayments ==
    ASSUME RefundInv, NEW p \in Payments,
           CreatePayment(p) \/ CreateIntent(p) \/ StoreId(p) \/ Settle(p)
    PROVE  RefundInv'
  <1>1. UNCHANGED <<seen, req, upset>>
    BY DEF CreatePayment, CreateIntent, StoreId, Settle
  <1>2. /\ pay \in [Payments -> PaymentRow] /\ pay[p] \in PaymentRow
        /\ intent[p] \in {"none", "refused", "created", "processing", "succeeded",
                          "failed", "refunded"}
    BY DEF RefundInv, RentTyped
  <1>3. \A r \in Requests : req[r].at # "idle" /\ req[r].pay = p =>
            /\ req[r].at \in RefundPlaces =>
                  (pay[p].id \/ Offline(p)) /\ pay[p].status \notin {"none", "pending"}
            /\ req[r].at \in {"reverse", "commit_refund"} /\ pay[p].id => intent[p] = "refunded"
            /\ req[r].at = "commit" => pay[p].status = "none" /\ Offline(p)
    BY DEF RefundInv, RequestRows, Works, PaymentRows
  <1>4. CASE CreatePayment(p)
    <2>1. PICK a \in Amounts :
              /\ pay' = [pay EXCEPT ![p] = [status |-> "pending", amount |-> a, id |-> FALSE]]
              /\ pay[p].status = "none" /\ \A r \in Requests : req[r].pay # p
      BY <1>4 DEF CreatePayment
    <2>2. PICK new : new = [status |-> "pending", amount |-> a, id |-> FALSE]
      OBVIOUS
    <2>3. new \in PaymentRow /\ new.status = "pending" /\ ~new.id
      BY <2>2 DEF PaymentRow
    <2>4. pay' \in [Payments -> PaymentRow] /\ pay'[p] = new
          /\ \A q \in Payments \ {p} : pay'[q] = pay[q]
      BY <1>2, <2>1, <2>2, <2>3
    <2>5. UNCHANGED <<intent, events>> /\ Offline(p)
      BY <1>4, <2>1 DEF CreatePayment, RefundInv, PaymentRows
    <2>6. RentTyped'
      BY <1>1, <2>4, <2>5 DEF RefundInv, RentTyped
    <2>7. ~Settled(p) /\ ~Settled(p)' /\ intent[p] # "refunded" /\ intent'[p] # "refunded"
          /\ ~pay[p].id /\ ~pay'[p].id /\ pay'[p].status # "none"
      BY <2>1, <2>3, <2>4, <2>5 DEF Settled, Offline
    <2> QED
      BY <1>1, <2>1, <2>4, <2>5, <2>6, <2>7, PaymentAlone
  <1>5. CASE CreateIntent(p)
    <2>1. /\ pay[p].status = "pending" /\ intent[p] = "none" /\ UNCHANGED events
          /\ ~pay[p].id /\ ~Settled(p)
      BY <1>5 DEF CreateIntent, RefundInv, PaymentRows, Settled
    <2>2. PICK to \in {"created", "refused"} : intent' = [intent EXCEPT ![p] = to]
      BY <1>5 DEF CreateIntent
    <2>3. PICK status \in {"pending", "failed"} : pay' = [pay EXCEPT ![p].status = status]
      <3>1. CASE pay' = [pay EXCEPT ![p].status = "failed"]
        BY <3>1
      <3>2. CASE pay' = pay
        <4>1. PICK new : new = [pay[p] EXCEPT !.status = "pending"]
          OBVIOUS
        <4>2. new = pay[p]
          BY <1>2, <2>1, <4>1 DEF PaymentRow
        <4>3. pay = [pay EXCEPT ![p] = new]
          BY <1>2, <4>2
        <4> QED
          BY <3>2, <4>1, <4>3
      <3> QED
        BY <1>5, <3>1, <3>2 DEF CreateIntent
    <2>4. Booked(p, status)
      BY <2>3, MarkedAs DEF RefundInv
    <2>5. /\ intent' \in [Payments -> {"none", "refused", "created", "processing", "succeeded",
                                       "failed", "refunded"}]
          /\ intent'[p] = to /\ \A q \in Payments \ {p} : intent'[q] = intent[q]
      BY <2>2 DEF RefundInv, RentTyped
    <2>6. RentTyped'
      BY <1>1, <2>1, <2>4, <2>5 DEF RefundInv, RentTyped, Booked
    <2>7. /\ \A q \in Payments \ {p} : pay'[q] = pay[q] /\ intent'[q] = intent[q]
          /\ ~Settled(p)' /\ ~pay'[p].id /\ pay'[p].status # "none"
          /\ intent[p] # "refunded" /\ intent'[p] # "refunded"
      BY <2>1, <2>4, <2>5 DEF Booked, Settled
    <2>8. \A r \in Requests : req[r].pay = p =>
              req[r].at \notin RefundPlaces /\ req[r].at # "commit"
      BY <1>3, <2>1 DEF RefundPlaces, Settled
    <2> QED
      BY <1>1, <2>1, <2>6, <2>7, <2>8, PaymentAlone
  <1>6. CASE StoreId(p)
    <2>1. /\ intent[p] \notin {"none", "refused"} /\ ~pay[p].id /\ UNCHANGED <<intent, events>>
          /\ pay' = [pay EXCEPT ![p].id = TRUE]
      BY <1>6 DEF StoreId
    <2>2. ~Offline(p) /\ ~Settled(p) /\ pay[p].status # "none" /\ intent[p] # "refunded"
      BY <2>1 DEF Offline, RefundInv, PaymentRows
    <2>3. PICK new : new = [pay[p] EXCEPT !.id = TRUE]
      OBVIOUS
    <2>4. new \in PaymentRow /\ new.status = pay[p].status /\ new.id
      BY <1>2, <2>3 DEF PaymentRow
    <2>5. pay' \in [Payments -> PaymentRow] /\ pay'[p] = new
          /\ \A q \in Payments \ {p} : pay'[q] = pay[q]
      BY <1>2, <2>1, <2>3, <2>4
    <2>6. RentTyped'
      BY <1>1, <2>1, <2>5 DEF RefundInv, RentTyped
    <2>7. ~Settled(p)' /\ pay'[p].id /\ pay'[p].status # "none"
          /\ intent'[p] \notin {"none", "refused", "refunded"}
      BY <2>1, <2>2, <2>4, <2>5 DEF Settled
    <2>8. \A r \in Requests : req[r].pay = p =>
              req[r].at \notin RefundPlaces /\ req[r].at # "commit"
      BY <1>3, <2>1, <2>2 DEF RefundPlaces
    <2> QED
      BY <1>1, <2>1, <2>2, <2>5, <2>6, <2>7, <2>8, PaymentAlone
  <1>7. CASE Settle(p)
    <2>1. PICK to \in {"processing", "succeeded", "failed"} :
              /\ intent[p] \in {"created", "processing"} /\ UNCHANGED pay
              /\ intent' = [intent EXCEPT ![p] = to] /\ events' = events \union {<<p, to>>}
      <3>1. PICK step \in {<<"created", "processing">>, <<"processing", "succeeded">>,
                           <<"processing", "failed">>} :
                /\ intent[p] = step[1] /\ intent' = [intent EXCEPT ![p] = step[2]]
                /\ events' = events \union {<<p, step[2]>>} /\ UNCHANGED pay
        BY <1>7 DEF Settle
      <3>2. step[1] \in {"created", "processing"} /\ step[2] \in {"processing", "succeeded", "failed"}
        OBVIOUS
      <3> QED
        BY <3>1, <3>2
    <2>2. /\ intent' \in [Payments -> {"none", "refused", "created", "processing", "succeeded",
                                       "failed", "refunded"}]
          /\ intent'[p] = to /\ \A q \in Payments \ {p} : intent'[q] = intent[q]
          /\ \A q \in Payments : Offline(q)' = Offline(q)
          /\ \A q \in Payments : intent'[q] = "refunded" <=> intent[q] = "refunded"
      BY <2>1 DEF RefundInv, RentTyped, Offline
    <2>3. RentTyped'
      BY <1>1, <2>1, <2>2 DEF RefundInv, RentTyped
    <2>4. PaymentRows'
      BY <1>1, <2>1, <2>2 DEF RefundInv, PaymentRows, Settled, Done
    <2>5. ASSUME NEW r \in Requests PROVE Works(r)'
      <3>1. Works(r) /\ (req[r].at # "idle" => req[r].pay \in Payments)
        BY DEF RefundInv, RequestRows, RentTyped
      <3>2. CASE req[r].at = "idle"
        BY <1>1, <3>2 DEF Works, WebhookPlaces, RefundPlaces
      <3>3. CASE req[r].at # "idle"
        BY <1>1, <2>1, <2>2, <3>1, <3>3 DEF Works, Done
      <3> QED
        BY <3>2, <3>3
    <2>6. SucceedsOnce'
      BY <1>1, <2>1 DEF RefundInv, SucceedsOnce, Settled, Without
    <2>7. RefundsEnd'
      BY <1>1, <2>1, <2>2 DEF RefundInv, RefundsEnd, Without
    <2> QED
      BY <2>3, <2>4, <2>5, <2>6, <2>7 DEF RefundInv, RequestRows
  <1> QED
    BY <1>4, <1>5, <1>6, <1>7

LEMMA RefundUndisturbed ==
    ASSUME RefundInv, UNCHANGED <<pay, intent, events, seen, req, upset>> PROVE RefundInv'
  BY DEF RefundInv, RentTyped, PaymentRows, RequestRows, Works, SucceedsOnce, RefundsEnd,
         Offline, Done, Settled, Without

LEMMA RefundKept == ASSUME RefundInv, [Next]_vars PROVE RefundInv'
  <1>1. CASE PostRent \/ FindOverdue \/ ChargeFee \/ UNCHANGED vars
    BY <1>1, RefundUndisturbed DEF PostRent, FindOverdue, ChargeFee, vars
  <1>2. ASSUME NEW r \in Requests,
               \/ Deliver(r) \/ Mark(r) \/ Complete(r) \/ ReadOpen(r) \/ WriteCharge(r) \/ Throw(r)
               \/ RecordOffline(r) \/ CommitOffline(r)
               \/ Refund(r) \/ RefundAtStripe(r) \/ ReadPaid(r) \/ CommitRefund(r) \/ AbortRefund(r)
        PROVE  RefundInv'
    BY <1>2, RefundKeptByDeliver, RefundKeptByWebhook, RefundKeptByCharges, RefundKeptByAsking,
       RefundKeptByCommits, RefundKeptByStripe
  <1> QED
    BY <1>1, <1>2, RefundKeptByPayments DEF Next

LEMMA RefundStarts == Init => RefundInv
  <1> SUFFICES ASSUME Init PROVE RefundInv
    OBVIOUS
  <1>1. Unborn \in PaymentRow /\ Unborn.status = "none" /\ ~Unborn.id
        /\ Idle \in Asked({<< >>}) /\ Idle.at = "idle"
    BY DEF Unborn, PaymentRow, Idle, Asked, RentPlaces
  <1>2. /\ \A p \in Payments : pay[p].status = "none" /\ ~pay[p].id /\ intent[p] = "none"
        /\ \A r \in Requests : req[r].at = "idle"
    BY <1>1 DEF Init
  <1>3. RentTyped
    BY <1>1, <1>2 DEF Init, RentTyped
  <1> QED
    BY <1>2, <1>3 DEF RefundInv, PaymentRows, RequestRows, Works, SucceedsOnce, RefundsEnd,
                      Offline, Settled, WebhookPlaces, RefundPlaces

LEMMA RefundHolds == Spec => []RefundInv
  BY RefundStarts, RefundKept, PTL DEF Spec

(* The rent account is RentLedger, whatever the rest does.                   *)
THEOREM RentAlone == LandlordSpec => Spec
  <1>1. LandlordInit => Init
    BY DEF LandlordInit
  <1>2. [LandlordNext]_<<scene, vars, planVars, placeVars>> => [Next]_vars
    BY DEF LandlordNext, vars
  <1> QED
    BY <1>1, <1>2, PTL DEF LandlordSpec, Spec

(* With no request in progress, a payment is marked refunded exactly when    *)
(* Stripe has refunded it, unless a refund was aborted, an event repeated or  *)
(* a late one overwrote a settled payment.                                   *)
THEOREM RefundsMatch == LandlordSpec => []RefundMatches
  <1>1. RefundInv => RefundMatches
    <2> SUFFICES ASSUME RefundInv, AtRest, Without({"aborted", "duplicate", "regressed"}),
                        NEW p \in Payments, pay[p].id
                 PROVE  intent[p] = "refunded" <=> pay[p].status = "refunded"
      BY DEF RefundMatches
    <2>1. \A r \in Requests : req[r].at = "idle"
      BY DEF AtRest, Busy
    <2>2. intent[p] = "refunded" => pay[p].status = "refunded"
      BY <2>1 DEF RefundInv, RefundsEnd
    <2> QED
      BY <2>2 DEF RefundInv, PaymentRows
  <1> QED
    BY <1>1, RentAlone, RefundHolds, PTL

-----------------------------------------------------------------------------
(* Sums over finite sets. *)

\* A set of naturals has a least element.
LEMMA LeastOf ==
    ASSUME NEW T \in SUBSET Nat, T # {}
    PROVE  \E n \in T : \A m \in T : n <= m
  <1>1. PICK n \in T : \A m \in T : ~(<<m, n>> \in OpToRel(<, Nat))
    BY NatLessThanWellFounded, WFMin, Zenon
  <1>2. ASSUME NEW m \in T PROVE n <= m
    <2>1. m \in Nat /\ n \in Nat
      OBVIOUS
    <2>2. ~(m < n)
      BY <1>1, <2>1 DEF OpToRel
    <2> QED
      BY <2>1, <2>2
  <1> QED
    BY <1>2

\* Of some subsets of a finite set, one has the fewest elements.
LEMMA SmallestOf ==
    ASSUME NEW S, IsFiniteSet(S), NEW Wrong \in SUBSET SUBSET S, Wrong # {}
    PROVE  \E T \in Wrong : \A U \in Wrong : Cardinality(T) <= Cardinality(U)
  <1> DEFINE Counts == {Cardinality(T) : T \in Wrong}
  <1>1. \A T \in Wrong : IsFiniteSet(T) /\ Cardinality(T) \in Nat
    BY FS_Subset, FS_CardinalityType
  <1>2. Counts \in SUBSET Nat /\ Counts # {}
    BY <1>1
  <1>3. PICK n \in Counts : \A m \in Counts : n <= m
    BY <1>2, LeastOf
  <1> QED
    BY <1>3

AnyOf(s) == CHOOSE x \in s : TRUE
FoldStep(f, g, s) == IF s = {} THEN 0 ELSE f[AnyOf(s)] + g[s \ {AnyOf(s)}]

LEMMA PickIn == \A s : s # {} => AnyOf(s) \in s
  BY DEF AnyOf

LEMMA FoldExists ==
    ASSUME NEW f, NEW S, IsFiniteSet(S)
    PROVE  \E g : g = [s \in SUBSET S |-> FoldStep(f, g, s)]
  <1> DEFINE Small(n) == {s \in SUBSET S : Cardinality(s) <= n}
             Good(n)  == \E g : \A s \in Small(n) : g[s] = FoldStep(f, g, s)
             Wrong      == {n \in Nat : ~Good(n)}
  <1>1. \A s \in SUBSET S : IsFiniteSet(s) /\ Cardinality(s) \in Nat
    BY FS_Subset, FS_CardinalityType
  <1>2. ASSUME NEW s \in SUBSET S, s # {} PROVE Cardinality(s \ {AnyOf(s)}) = Cardinality(s) - 1
    BY <1>1, <1>2, PickIn, FS_RemoveElement
  <1>3. Good(0)
    <2>1. \A s \in Small(0) : s = {}
      BY <1>1, FS_EmptySet
    <2>2. \A s \in Small(0) : [t \in SUBSET S |-> 0][s] = FoldStep(f, [t \in SUBSET S |-> 0], s)
      BY <2>1 DEF FoldStep
    <2> QED
      BY <2>2
  <1>4. ASSUME NEW n \in Nat, Good(n) PROVE Good(n + 1)
    <2>1. PICK g : \A s \in Small(n) : g[s] = FoldStep(f, g, s)
      BY <1>4
    <2> DEFINE h == [s \in SUBSET S |-> IF Cardinality(s) <= n THEN g[s] ELSE FoldStep(f, g, s)]
    <2>2. ASSUME NEW s \in Small(n + 1) PROVE h[s] = FoldStep(f, h, s)
      <3>1. CASE s = {}
        <4>1. Cardinality(s) = 0 /\ h[s] = g[s] /\ s \in Small(n)
          BY <3>1, FS_EmptySet
        <4> QED
          BY <3>1, <4>1, <2>1 DEF FoldStep
      <3>2. CASE s # {}
        <4>1. s \ {AnyOf(s)} \in Small(n)
          BY <1>1, <1>2, <3>2
        <4>2. h[s \ {AnyOf(s)}] = g[s \ {AnyOf(s)}]
          BY <4>1
        <4>3. h[s] = FoldStep(f, g, s)
          BY <2>1, <1>1
        <4> QED
          BY <3>2, <4>2, <4>3 DEF FoldStep
      <3> QED
        BY <3>1, <3>2
    <2> HIDE DEF h
    <2> QED
      BY <2>2
  <1> HIDE DEF Good
  <1>5. Wrong = {}
    <2> SUFFICES ASSUME Wrong # {} PROVE FALSE
      OBVIOUS
    <2>1. PICK n \in Wrong : \A m \in Wrong : n <= m
      BY LeastOf
    <2>2. n \in Nat /\ ~Good(n) /\ n # 0
      BY <1>3, <2>1
    <2>3. n - 1 \in Nat /\ ~(n - 1 \in Wrong)
      BY <2>1, <2>2
    <2>4. Good(n - 1)
      BY <2>3
    <2>5. Good(n - 1 + 1)
      BY <2>3, <2>4, <1>4
    <2>6. n - 1 + 1 = n
      BY <2>2
    <2> QED
      BY <2>2, <2>5, <2>6
  <1>6. Cardinality(S) \in Nat /\ Good(Cardinality(S))
    BY <1>1, <1>5
  <1>7. PICK g : \A s \in Small(Cardinality(S)) : g[s] = FoldStep(f, g, s)
    BY <1>6 DEF Good
  <1>8. \A s \in SUBSET S : s \in Small(Cardinality(S))
    BY FS_Subset
  <1>9. PICK h : h = [s \in SUBSET S |-> g[s]]
    OBVIOUS
  <1>10. \A s \in SUBSET S : h[s] = FoldStep(f, h, s)
    <2> SUFFICES ASSUME NEW s \in SUBSET S PROVE h[s] = FoldStep(f, h, s)
      OBVIOUS
    <2>1. h[s] = FoldStep(f, g, s)
      BY <1>7, <1>8, <1>9
    <2> QED
      BY <2>1, <1>9 DEF FoldStep
  <1>11. h = [s \in SUBSET S |-> FoldStep(f, h, s)]
    BY <1>9, <1>10
  <1> QED
    BY <1>11

FoldOf(f, S) == CHOOSE g : g = [s \in SUBSET S |-> FoldStep(f, g, s)]

LEMMA FoldEquation ==
    ASSUME NEW f, NEW S, IsFiniteSet(S), NEW s \in SUBSET S
    PROVE  FoldOf(f, S)[s] = FoldStep(f, FoldOf(f, S), s)
  <1>1. FoldOf(f, S) = [t \in SUBSET S |-> FoldStep(f, FoldOf(f, S), t)]
    BY FoldExists DEF FoldOf
  <1> HIDE DEF FoldOf
  <1> QED
    BY <1>1

LEMMA SumIsFold ==
    ASSUME NEW f, NEW S PROVE SumFunctionOnSet(f, S) = FoldOf(f, S)[S]
  BY DEF SumFunctionOnSet, FoldFunctionOnSet, MapThenFoldSet, FoldOf, FoldStep, AnyOf
LEMMA SumEmpty == ASSUME NEW f PROVE SumFunctionOnSet(f, {}) = 0
  BY FS_EmptySet, SumIsFold, FoldEquation DEF FoldStep

\* Two sums over a set agree when the functions do on it, whatever they are
\* folded in.
LEMMA FoldsAgree ==
    ASSUME NEW f, NEW g, NEW S, NEW U, NEW T, IsFiniteSet(S), IsFiniteSet(U),
           T \subseteq S, T \subseteq U, \A x \in T : f[x] = g[x]
    PROVE  FoldOf(f, S)[T] = FoldOf(g, U)[T]
  <1> DEFINE Wrong == {s \in SUBSET T : FoldOf(f, S)[s] # FoldOf(g, U)[s]}
  <1> SUFFICES ASSUME Wrong # {} PROVE FALSE
    OBVIOUS
  <1>1. IsFiniteSet(T) /\ Wrong \in SUBSET SUBSET T
    BY FS_Subset
  <1>2. PICK s \in Wrong : \A t \in Wrong : Cardinality(s) <= Cardinality(t)
    BY <1>1, SmallestOf
  <1>3. IsFiniteSet(s) /\ Cardinality(s) \in Nat /\ s \in SUBSET S /\ s \in SUBSET U /\ s \in SUBSET T
    BY <1>1, FS_Subset, FS_CardinalityType
  <1>4. FoldOf(f, S)[s] = FoldStep(f, FoldOf(f, S), s) /\ FoldOf(g, U)[s] = FoldStep(g, FoldOf(g, U), s)
    BY <1>3, FoldEquation
  <1>5. CASE s = {}
    BY <1>2, <1>4, <1>5 DEF FoldStep
  <1>6. CASE s # {}
    <2>1. AnyOf(s) \in s
      BY <1>6, PickIn
    <2> DEFINE r == s \ {AnyOf(s)}
    <2>2. Cardinality(r) = Cardinality(s) - 1 /\ r \in SUBSET T
      BY <1>3, <2>1, FS_RemoveElement
    <2>3. r \notin Wrong
      BY <1>2, <1>3, <2>2
    <2>4. FoldOf(f, S)[r] = FoldOf(g, U)[r]
      BY <2>2, <2>3
    <2>5. f[AnyOf(s)] = g[AnyOf(s)]
      BY <2>1, <1>3
    <2>6. FoldOf(f, S)[s] = f[AnyOf(s)] + FoldOf(f, S)[r] /\ FoldOf(g, U)[s] = g[AnyOf(s)] + FoldOf(g, U)[r]
      BY <1>4, <1>6 DEF FoldStep
    <2> QED
      BY <1>2, <2>4, <2>5, <2>6
  <1> QED
    BY <1>5, <1>6

LEMMA SumAgree ==
    ASSUME NEW f, NEW g, NEW S, IsFiniteSet(S), \A x \in S : f[x] = g[x]
    PROVE  SumFunctionOnSet(f, S) = SumFunctionOnSet(g, S)
  <1>1. FoldOf(f, S)[S] = FoldOf(g, S)[S]
    BY FoldsAgree
  <1> QED
    BY <1>1, SumIsFold

LEMMA SumPick ==
    ASSUME NEW f, NEW S, IsFiniteSet(S), S # {}
    PROVE  /\ AnyOf(S) \in S
           /\ SumFunctionOnSet(f, S) = f[AnyOf(S)] + SumFunctionOnSet(f, S \ {AnyOf(S)})
  <1>1. IsFiniteSet(S \ {AnyOf(S)})
    BY FS_Subset
  <1>2. FoldOf(f, S)[S] = f[AnyOf(S)] + FoldOf(f, S)[S \ {AnyOf(S)}]
    BY FoldEquation DEF FoldStep
  <1>3. FoldOf(f, S)[S \ {AnyOf(S)}] = FoldOf(f, S \ {AnyOf(S)})[S \ {AnyOf(S)}]
    BY <1>1, FoldsAgree
  <1> QED
    BY <1>2, <1>3, SumIsFold, PickIn

LEMMA SumInt ==
    ASSUME NEW f, NEW S, IsFiniteSet(S), \A x \in S : f[x] \in Int
    PROVE  SumFunctionOnSet(f, S) \in Int
  <1> DEFINE Wrong == {s \in SUBSET S : SumFunctionOnSet(f, s) \notin Int}
  <1> SUFFICES ASSUME Wrong # {} PROVE FALSE
    OBVIOUS
  <1>1. PICK s \in Wrong : \A t \in Wrong : Cardinality(s) <= Cardinality(t)
    BY SmallestOf
  <1>2. IsFiniteSet(s) /\ Cardinality(s) \in Nat /\ s \in SUBSET S
    BY FS_Subset, FS_CardinalityType
  <1>3. s # {}
    BY <1>1, SumEmpty
  <1>4. AnyOf(s) \in s /\ SumFunctionOnSet(f, s) = f[AnyOf(s)] + SumFunctionOnSet(f, s \ {AnyOf(s)})
    BY <1>2, <1>3, SumPick
  <1>5. Cardinality(s \ {AnyOf(s)}) = Cardinality(s) - 1
    BY <1>2, <1>4, FS_RemoveElement
  <1>6. s \ {AnyOf(s)} \notin Wrong
    BY <1>1, <1>2, <1>5
  <1>7. SumFunctionOnSet(f, s \ {AnyOf(s)}) \in Int /\ f[AnyOf(s)] \in Int
    BY <1>2, <1>4, <1>6
  <1> QED
    BY <1>1, <1>4, <1>7

\* Any element can be taken out of a sum.
LEMMA SumTake ==
    ASSUME NEW f, NEW S, IsFiniteSet(S), \A x \in S : f[x] \in Int, NEW a \in S
    PROVE  SumFunctionOnSet(f, S) = f[a] + SumFunctionOnSet(f, S \ {a})
  <1> DEFINE Takes(s) == \A x \in s : SumFunctionOnSet(f, s) = f[x] + SumFunctionOnSet(f, s \ {x})
             Wrong == {s \in SUBSET S : ~Takes(s)}
  <1> SUFFICES ASSUME Wrong # {} PROVE FALSE
    OBVIOUS
  <1>1. PICK s \in Wrong : \A t \in Wrong : Cardinality(s) <= Cardinality(t)
    BY SmallestOf
  <1>2. IsFiniteSet(s) /\ Cardinality(s) \in Nat /\ s \in SUBSET S
    BY FS_Subset, FS_CardinalityType
  <1>3. PICK x \in s : SumFunctionOnSet(f, s) # f[x] + SumFunctionOnSet(f, s \ {x})
    BY <1>1
  <1> DEFINE c == AnyOf(s)
  <1>4. c \in s /\ SumFunctionOnSet(f, s) = f[c] + SumFunctionOnSet(f, s \ {c})
    BY <1>2, <1>3, SumPick
  <1>5. x # c
    BY <1>3, <1>4
  <1>6. Takes(s \ {c}) /\ Takes(s \ {x})
    <2>1. Cardinality(s \ {c}) = Cardinality(s) - 1 /\ Cardinality(s \ {x}) = Cardinality(s) - 1
      BY <1>2, <1>3, <1>4, FS_RemoveElement
    <2>2. s \ {c} \notin Wrong /\ s \ {x} \notin Wrong
      BY <1>1, <1>2, <2>1
    <2>3. s \ {c} \in SUBSET S /\ s \ {x} \in SUBSET S
      BY <1>2
    <2> QED
      BY <2>2, <2>3
  <1> HIDE DEF c
  <1>7. SumFunctionOnSet(f, s \ {c}) = f[x] + SumFunctionOnSet(f, (s \ {c}) \ {x})
    BY <1>5, <1>6
  <1>8. SumFunctionOnSet(f, s \ {x}) = f[c] + SumFunctionOnSet(f, (s \ {x}) \ {c})
    BY <1>4, <1>5, <1>6
  <1>9. (s \ {x}) \ {c} = (s \ {c}) \ {x}
    OBVIOUS
  <1>10. SumFunctionOnSet(f, (s \ {c}) \ {x}) \in Int /\ f[x] \in Int /\ f[c] \in Int
    <2>1. IsFiniteSet((s \ {c}) \ {x}) /\ \A y \in (s \ {c}) \ {x} : f[y] \in Int
      BY <1>2, FS_Subset
    <2> QED
      BY <2>1, <1>2, <1>4, SumInt
  <1>11. PICK k \in Int : k = SumFunctionOnSet(f, (s \ {c}) \ {x})
    BY <1>10
  <1>12. SumFunctionOnSet(f, s) = f[c] + (f[x] + k) /\ SumFunctionOnSet(f, s \ {x}) = f[c] + k
    BY <1>4, <1>7, <1>8, <1>9, <1>11
  <1>13. f[c] + (f[x] + k) = f[x] + (f[c] + k)
    BY <1>10, <1>11
  <1> QED
    BY <1>3, <1>12, <1>13

\* A sum grows with its set and with its terms.
LEMMA SumMore ==
    ASSUME NEW f, NEW g, NEW S, IsFiniteSet(S), NEW T \in SUBSET S,
           \A x \in S : f[x] \in Nat /\ g[x] \in Nat /\ (x \in T => f[x] <= g[x])
    PROVE  /\ SumFunctionOnSet(f, T) \in Nat /\ SumFunctionOnSet(g, S) \in Nat
           /\ SumFunctionOnSet(f, T) <= SumFunctionOnSet(g, S)
  <1> DEFINE Less(s) == /\ SumFunctionOnSet(f, s \intersect T) \in Nat
                        /\ SumFunctionOnSet(g, s) \in Nat
                        /\ SumFunctionOnSet(f, s \intersect T) <= SumFunctionOnSet(g, s)
             Wrong == {s \in SUBSET S : ~Less(s)}
  <1> HIDE DEF Less
  <1>1. Wrong = {}
    <2> SUFFICES ASSUME Wrong # {} PROVE FALSE
      OBVIOUS
    <2>1. PICK s \in Wrong : \A t \in Wrong : Cardinality(s) <= Cardinality(t)
      BY SmallestOf
    <2>2. IsFiniteSet(s) /\ Cardinality(s) \in Nat /\ s \in SUBSET S /\ IsFiniteSet(s \intersect T)
      BY FS_Subset, FS_CardinalityType
    <2>3. s # {}
      <3>1. {} \intersect T = {}
        OBVIOUS
      <3>2. Less({})
        BY <3>1, SumEmpty DEF Less
      <3> QED
        BY <2>1, <3>2
    <2>4. PICK x \in s : TRUE
      BY <2>3
    <2>5. Cardinality(s \ {x}) = Cardinality(s) - 1
      BY <2>2, <2>4, FS_RemoveElement
    <2>6. s \ {x} \notin Wrong /\ s \ {x} \in SUBSET S
      BY <2>1, <2>2, <2>5
    <2>7. Less(s \ {x})
      BY <2>6
    <2>8. PICK m \in Nat, n \in Nat :
              /\ m = SumFunctionOnSet(f, (s \ {x}) \intersect T)
              /\ n = SumFunctionOnSet(g, s \ {x}) /\ m <= n
      BY <2>7 DEF Less
    <2>9. SumFunctionOnSet(g, s) = g[x] + n /\ g[x] \in Nat
      BY <2>2, <2>4, <2>8, SumTake
    <2>10. SumFunctionOnSet(f, s \intersect T) = m \/ \E k \in Nat :
              k <= g[x] /\ SumFunctionOnSet(f, s \intersect T) = k + m
      <3>1. CASE x \in T
        <4>1. SumFunctionOnSet(f, s \intersect T) = f[x] + SumFunctionOnSet(f, (s \intersect T) \ {x})
          BY <2>2, <2>4, <3>1, SumTake
        <4>2. (s \intersect T) \ {x} = (s \ {x}) \intersect T
          OBVIOUS
        <4>3. f[x] \in Nat /\ f[x] <= g[x]
          BY <2>2, <2>4, <3>1
        <4> QED
          BY <2>8, <4>1, <4>2, <4>3
      <3>2. CASE x \notin T
        <4>1. (s \ {x}) \intersect T = s \intersect T
          BY <3>2
        <4> QED
          BY <2>8, <4>1
      <3> QED
        BY <3>1, <3>2
    <2>11. PICK p : p = SumFunctionOnSet(g, s)
      OBVIOUS
    <2>12. PICK q : q = SumFunctionOnSet(f, s \intersect T)
      OBVIOUS
    <2>13. PICK d \in Nat : d = g[x]
      BY <2>9
    <2>14. p = d + n /\ (q = m \/ \E k \in Nat : k <= d /\ q = k + m) /\ m <= n
      BY <2>8, <2>9, <2>10, <2>11, <2>12, <2>13
    <2>15. p \in Nat /\ q \in Nat /\ q <= p
      <3>1. CASE q = m
        BY <2>14, <3>1
      <3>2. ASSUME NEW k \in Nat, k <= d, q = k + m PROVE q \in Nat /\ q <= p
        BY <2>14, <3>2
      <3> QED
        BY <2>14, <3>1, <3>2
    <2>16. Less(s)
      BY <2>11, <2>12, <2>15 DEF Less
    <2> QED
      BY <2>1, <2>16
  <1>2. Less(S) /\ S \intersect T = T
    BY <1>1
  <1> QED
    BY <1>2 DEF Less

-----------------------------------------------------------------------------
(* The rent account's charges (RentLedger). *)

StatusOf(paid, amount) ==
    IF paid >= amount THEN "paid" ELSE IF paid <= 0 THEN "unpaid" ELSE "partial"
ChargeRow ==
    [type : {"rent", "late_fee"}, amount : Nat \ {0}, month : Nat, paid : Nat,
     status : {"unpaid", "partial", "paid"}]
Sound(c) == c \in ChargeRow /\ c.paid <= c.amount /\ c.status = StatusOf(c.paid, c.amount)
SameCharge(c, d) == c.type = d.type /\ c.amount = d.amount /\ c.month = d.month

LedgerSound == ledger \in Seq(ChargeRow) /\ \A i \in Charges : Sound(ledger[i])

\* What a request is about to write are values of the charges it names.
Writing == {"write", "commit", "commit_refund"}
PlanSound(r) ==
    req[r].at \in Writing =>
        /\ DOMAIN req[r].plan \subseteq Charges
        /\ \A i \in DOMAIN req[r].plan :
               Sound(req[r].plan[i]) /\ SameCharge(req[r].plan[i], ledger[i])

\* A month has one rent, and one fee.
OneEach ==
    /\ months \in Nat /\ unpaid \subseteq Nat
    /\ \A i \in Charges : ledger[i].type = "rent" => ledger[i].month <= months
    /\ \A i, j \in Charges :
           i # j => <<ledger[i].type, ledger[i].month>> # <<ledger[j].type, ledger[j].month>>

ChargeInv == LedgerSound /\ (\A r \in Requests : PlanSound(r)) /\ OneEach

LEMMA Accounts ==
    ASSUME LedgerSound
    PROVE  /\ Len(ledger) \in Nat /\ Charges = 1 .. Len(ledger) /\ IsFiniteSet(Charges)
           /\ Charges \subseteq Nat
           /\ \A i \in Charges :
                  /\ Paid[i] = ledger[i].paid /\ Paid[i] \in Nat
                  /\ Owed[i] = ledger[i].amount - ledger[i].paid /\ Owed[i] \in Nat
                  /\ i \in Open <=> ledger[i].status # "paid"
                  /\ ledger[i].status = "paid" <=> Owed[i] = 0
  <1>1. Len(ledger) \in Nat /\ Charges = 1 .. Len(ledger)
    BY LenProperties DEF LedgerSound, Charges
  <1>2. IsFiniteSet(Charges)
    BY <1>1, FS_Interval
  <1>3. ASSUME NEW i \in Charges
        PROVE  /\ Paid[i] = ledger[i].paid /\ Paid[i] \in Nat
               /\ Owed[i] = ledger[i].amount - ledger[i].paid /\ Owed[i] \in Nat
               /\ i \in Open <=> ledger[i].status # "paid"
               /\ ledger[i].status = "paid" <=> Owed[i] = 0
    <2>1. Sound(ledger[i])
      BY DEF LedgerSound
    <2>2. /\ ledger[i].paid \in Nat /\ ledger[i].amount \in Nat \ {0}
          /\ ledger[i].paid <= ledger[i].amount
          /\ ledger[i].status = StatusOf(ledger[i].paid, ledger[i].amount)
          /\ ledger[i].status \in {"unpaid", "partial", "paid"}
      BY <2>1 DEF Sound, ChargeRow
    <2>3. ledger[i].status = "paid" <=> ledger[i].paid >= ledger[i].amount
      BY <2>2 DEF StatusOf
    <2>4. Paid[i] = ledger[i].paid /\ Owed[i] = ledger[i].amount - ledger[i].paid
      BY DEF Paid, Owed
    <2>5. i \in Open <=> ledger[i].status # "paid"
      BY <2>2 DEF Open
    <2> QED
      BY <2>2, <2>3, <2>4, <2>5
  <1> QED
    BY <1>1, <1>2, <1>3

LEMMA WithSound ==
    ASSUME LedgerSound, NEW i \in Charges, NEW n \in Nat, n <= ledger[i].amount
    PROVE  /\ Sound(With(i, n)) /\ SameCharge(With(i, n), ledger[i])
           /\ With(i, n).paid = n /\ (With(i, n).status = "paid" <=> n >= ledger[i].amount)
  <1>1. ledger[i] \in ChargeRow
    BY DEF LedgerSound, Sound
  <1>2. PICK st \in {"unpaid", "partial", "paid"} : st = StatusOf(n, ledger[i].amount)
    BY DEF StatusOf
  <1>3. With(i, n) = [ledger[i] EXCEPT !.paid = n, !.status = st]
    BY <1>2 DEF With, StatusOf
  <1>4. PICK new : new = [ledger[i] EXCEPT !.paid = n, !.status = st]
    OBVIOUS
  <1>5. /\ new \in ChargeRow /\ new.paid = n /\ new.status = st
        /\ new.type = ledger[i].type /\ new.amount = ledger[i].amount /\ new.month = ledger[i].month
    BY <1>1, <1>4 DEF ChargeRow
  <1>6. st = "paid" <=> n >= ledger[i].amount
    BY <1>2 DEF StatusOf
  <1> QED
    BY <1>2, <1>3, <1>4, <1>5, <1>6 DEF Sound, SameCharge

\* A part of a sum, and one more of its terms.
LEMMA SumPart ==
    ASSUME NEW f, NEW S, IsFiniteSet(S), \A x \in S : f[x] \in Nat,
           NEW T \in SUBSET S, NEW a \in S, a \notin T
    PROVE  /\ Total(f, T) \in Nat /\ Total(f, S) \in Nat
           /\ Total(f, T) + f[a] <= Total(f, S)
  <1>1. IsFiniteSet(S \ {a}) /\ T \in SUBSET (S \ {a})
    BY FS_Subset
  <1>2. PICK m \in Nat, n \in Nat :
            m = SumFunctionOnSet(f, T) /\ n = SumFunctionOnSet(f, S \ {a}) /\ m <= n
    BY <1>1, SumMore
  <1>3. SumFunctionOnSet(f, S) = f[a] + n
    BY <1>2, SumTake
  <1>4. PICK d \in Nat : d = f[a]
    OBVIOUS
  <1>5. PICK s : s = SumFunctionOnSet(f, S)
    OBVIOUS
  <1>6. s = d + n
    BY <1>3, <1>4, <1>5
  <1>7. s \in Nat /\ m + d <= s
    BY <1>2, <1>6
  <1> QED
    BY <1>2, <1>4, <1>5, <1>7 DEF Total

\* Credited oldest first: a charge gets something only if the open ones before
\* it are paid.
LEMMA CreditPlan ==
    ASSUME LedgerSound, NEW amount \in Nat, NEW plan, plan = Credit(amount)
    PROVE  /\ DOMAIN plan \subseteq Open
           /\ \A j \in DOMAIN plan :
                  /\ Sound(plan[j]) /\ SameCharge(plan[j], ledger[j]) /\ ledger[j].paid <= plan[j].paid
                  /\ \A i \in Open : i < j => i \in DOMAIN plan /\ plan[i].status = "paid"
  <1> DEFINE left(i) == amount - Total(Owed, {j \in Open : j < i})
             paid(i) == Paid[i] + Least(left(i), Owed[i])
  <1>1. /\ DOMAIN plan = {j \in Open : left(j) > 0}
        /\ \A i \in DOMAIN plan : plan[i] = With(i, paid(i))
    BY DEF Credit
  <1>2. Open \subseteq Charges /\ IsFiniteSet(Open)
    BY Accounts, FS_Subset DEF Open
  <1>3. ASSUME NEW i \in Open PROVE left(i) \in Int
    <2>1. IsFiniteSet({j \in Open : j < i}) /\ \A j \in {k \in Open : k < i} : Owed[j] \in Int
      BY <1>2, Accounts, FS_Subset
    <2>2. Total(Owed, {j \in Open : j < i}) \in Int
      BY <2>1, SumInt DEF Total
    <2> QED
      BY <2>2
  <1>4. ASSUME NEW i \in Open, NEW j \in Open, i < j, left(j) > 0
        PROVE  left(i) >= Owed[i] /\ left(i) > 0
    <2>1. {k \in Open : k < i} \in SUBSET {k \in Open : k < j} /\ i \in {k \in Open : k < j}
          /\ i \notin {k \in Open : k < i} /\ IsFiniteSet({k \in Open : k < j})
          /\ \A k \in {l \in Open : l < j} : Owed[k] \in Nat
      BY <1>2, <1>4, Accounts, FS_Subset
    <2>2. PICK m \in Nat, n \in Nat : /\ m = Total(Owed, {k \in Open : k < i})
                                      /\ n = Total(Owed, {k \in Open : k < j})
                                      /\ m + Owed[i] <= n
      BY <2>1, SumPart
    <2>3. PICK d \in Nat : d = Owed[i]
      BY <2>1, <1>4
    <2>4. d # 0
      BY <1>2, <2>3, Accounts
    <2>5. amount - n > 0 /\ m + d <= n
      BY <1>4, <2>2, <2>3
    <2>6. amount - m >= d /\ amount - m > 0
      BY <2>2, <2>3, <2>4, <2>5
    <2> QED
      BY <2>2, <2>3, <2>6
  <1>5. ASSUME NEW i \in DOMAIN plan
        PROVE  /\ paid(i) \in Nat /\ ledger[i].paid <= paid(i) /\ paid(i) <= ledger[i].amount
               /\ left(i) >= Owed[i] => paid(i) = ledger[i].amount
    <2>1. /\ i \in Charges /\ left(i) \in Int /\ left(i) > 0
          /\ Paid[i] = ledger[i].paid /\ Paid[i] \in Nat
          /\ Owed[i] = ledger[i].amount - ledger[i].paid /\ Owed[i] \in Nat
      BY <1>1, <1>2, <1>3, Accounts
    <2>2. ledger[i].amount \in Nat
      BY <2>1 DEF LedgerSound, Sound, ChargeRow
    <2>3. PICK k \in Int : k = left(i)
      BY <2>1
    <2>4. PICK d \in Nat : d = Owed[i]
      BY <2>1
    <2>5. PICK m : m = Least(k, d)
      OBVIOUS
    <2>6. m \in Nat /\ m <= d /\ (k >= d => m = d)
      BY <2>1, <2>3, <2>4, <2>5 DEF Least
    <2>7. paid(i) = ledger[i].paid + m
      BY <2>1, <2>3, <2>4, <2>5
    <2> HIDE DEF paid, left
    <2> QED
      BY <2>1, <2>2, <2>3, <2>4, <2>6, <2>7
  <1> HIDE DEF paid, left
  <1>6. ASSUME NEW i \in DOMAIN plan
        PROVE  /\ Sound(plan[i]) /\ SameCharge(plan[i], ledger[i]) /\ ledger[i].paid <= plan[i].paid
               /\ left(i) >= Owed[i] => plan[i].status = "paid"
    <2>1. i \in Charges /\ plan[i] = With(i, paid(i)) /\ ledger[i].amount \in Nat
      BY <1>1, <1>2 DEF LedgerSound, Sound, ChargeRow
    <2>2. PICK n \in Nat : n = paid(i) /\ n <= ledger[i].amount
      BY <1>5
    <2>3. /\ Sound(With(i, n)) /\ SameCharge(With(i, n), ledger[i])
          /\ With(i, n).paid = n /\ (With(i, n).status = "paid" <=> n >= ledger[i].amount)
      BY <2>1, <2>2, WithSound
    <2> QED
      BY <1>5, <2>1, <2>2, <2>3
  <1>7. ASSUME NEW j \in DOMAIN plan, NEW i \in Open, i < j
        PROVE  i \in DOMAIN plan /\ plan[i].status = "paid"
    BY <1>1, <1>4, <1>6, <1>7
  <1> QED
    BY <1>1, <1>6, <1>7

\* Taken back newest first: a charge loses something only if the later ones lose all.
LEMMA ReversalPlan ==
    ASSUME LedgerSound, NEW amount \in Nat, NEW plan, plan = Reversal(amount)
    PROVE  /\ DOMAIN plan \subseteq Charges
           /\ \A j \in DOMAIN plan :
                  /\ Sound(plan[j]) /\ SameCharge(plan[j], ledger[j]) /\ plan[j].paid <= ledger[j].paid
                  /\ \A i \in Charges : j < i /\ ledger[i].paid > 0 => i \in DOMAIN plan /\ plan[i].paid = 0
  <1> DEFINE left(i) == amount - Total(Paid, {j \in Charges : j > i})
             kept(i) == Paid[i] - Least(left(i), Paid[i])
  <1>1. /\ DOMAIN plan = {j \in Charges : Paid[j] > 0 /\ left(j) > 0}
        /\ \A i \in DOMAIN plan : plan[i] = With(i, kept(i))
    BY DEF Reversal
  <1>2. IsFiniteSet(Charges) /\ Charges \subseteq Nat /\ \A i \in Charges : Paid[i] \in Nat /\ Paid[i] = ledger[i].paid
    BY Accounts
  <1>3. ASSUME NEW i \in Charges PROVE left(i) \in Int
    <2>1. IsFiniteSet({j \in Charges : j > i}) /\ \A j \in {k \in Charges : k > i} : Paid[j] \in Int
      BY <1>2, FS_Subset
    <2>2. Total(Paid, {j \in Charges : j > i}) \in Int
      BY <2>1, SumInt DEF Total
    <2> QED
      BY <2>2
  <1>4. ASSUME NEW j \in Charges, NEW i \in Charges, j < i, Paid[i] > 0, left(j) > 0
        PROVE  left(i) >= Paid[i] /\ left(i) > 0
    <2>0. i \in Nat /\ j \in Nat /\ i > j /\ ~(i > i) /\ \A k \in Charges : k \in Nat /\ (k > i => k > j)
      BY <1>2, <1>4
    <2>1. {k \in Charges : k > i} \in SUBSET {k \in Charges : k > j} /\ i \in {k \in Charges : k > j}
          /\ i \notin {k \in Charges : k > i} /\ IsFiniteSet({k \in Charges : k > j})
          /\ \A k \in {l \in Charges : l > j} : Paid[k] \in Nat
      BY <1>2, <2>0, FS_Subset
    <2>2. PICK m \in Nat, n \in Nat : /\ m = Total(Paid, {k \in Charges : k > i})
                                      /\ n = Total(Paid, {k \in Charges : k > j})
                                      /\ m + Paid[i] <= n
      BY <2>1, SumPart
    <2>3. PICK d \in Nat : d = Paid[i]
      BY <1>2
    <2>4. d > 0
      BY <1>4, <2>3
    <2>5. amount - n > 0 /\ m + d <= n
      BY <1>4, <2>2, <2>3
    <2>6. amount - m >= d /\ amount - m > 0
      BY <2>2, <2>3, <2>4, <2>5
    <2> QED
      BY <2>2, <2>3, <2>6
  <1>5. ASSUME NEW i \in DOMAIN plan
        PROVE  /\ kept(i) \in Nat /\ kept(i) <= ledger[i].paid
               /\ left(i) >= Paid[i] => kept(i) = 0
    <2>1. /\ i \in Charges /\ left(i) \in Int /\ left(i) > 0
          /\ Paid[i] = ledger[i].paid /\ Paid[i] \in Nat
      BY <1>1, <1>2, <1>3
    <2>2. PICK k \in Int : k = left(i)
      BY <2>1
    <2>3. PICK d \in Nat : d = Paid[i]
      BY <2>1
    <2>4. PICK m : m = Least(k, d)
      OBVIOUS
    <2>5. m \in Nat /\ m <= d /\ (k >= d => m = d)
      BY <2>1, <2>2, <2>3, <2>4 DEF Least
    <2>6. kept(i) = d - m /\ ledger[i].paid = d
      BY <2>1, <2>2, <2>3, <2>4
    <2> HIDE DEF kept, left
    <2> QED
      BY <2>2, <2>3, <2>5, <2>6
  <1> HIDE DEF kept, left
  <1>6. ASSUME NEW i \in DOMAIN plan
        PROVE  /\ Sound(plan[i]) /\ SameCharge(plan[i], ledger[i]) /\ plan[i].paid <= ledger[i].paid
               /\ left(i) >= Paid[i] => plan[i].paid = 0
    <2>1. i \in Charges /\ plan[i] = With(i, kept(i)) /\ ledger[i].amount \in Nat
          /\ ledger[i].paid \in Nat /\ ledger[i].paid <= ledger[i].amount
      BY <1>1 DEF LedgerSound, Sound, ChargeRow
    <2>2. PICK n \in Nat : n = kept(i) /\ n <= ledger[i].paid /\ n <= ledger[i].amount
      BY <1>5, <2>1
    <2>3. /\ Sound(With(i, n)) /\ SameCharge(With(i, n), ledger[i]) /\ With(i, n).paid = n
      BY <2>1, <2>2, WithSound
    <2> QED
      BY <1>5, <2>1, <2>2, <2>3
  <1>7. ASSUME NEW j \in DOMAIN plan, NEW i \in Charges, j < i, ledger[i].paid > 0
        PROVE  i \in DOMAIN plan /\ plan[i].paid = 0
    BY <1>1, <1>2, <1>4, <1>6, <1>7
  <1> QED
    BY <1>1, <1>6, <1>7

-----------------------------------------------------------------------------
\* A charge is posted, ...
LEMMA ChargePosted ==
    ASSUME ChargeInv, NEW type \in {"rent", "late_fee"}, NEW amount \in Nat \ {0}, NEW month \in Nat,
           ledger' = Append(ledger, Charge(type, amount, month)),
           months' \in Nat, months <= months', type = "rent" => month <= months',
           \A i \in Charges : ~(ledger[i].type = type /\ ledger[i].month = month),
           unpaid' \subseteq Nat, UNCHANGED req
    PROVE  ChargeInv'
  <1>1. PICK n \in Nat : n = Len(ledger) /\ Charges = 1 .. n
    BY Accounts DEF ChargeInv
  <1>2. PICK new : new = Charge(type, amount, month)
    OBVIOUS
  <1>3. /\ Sound(new) /\ new \in ChargeRow
        /\ new.type = type /\ new.month = month
    BY <1>2 DEF Charge, Sound, ChargeRow, StatusOf
  <1>4. ledger \in Seq(ChargeRow) /\ ledger' = Append(ledger, new)
    BY <1>2 DEF ChargeInv, LedgerSound
  <1>5. /\ ledger' \in Seq(ChargeRow) /\ Charges' = 1 .. (n + 1)
        /\ \A i \in Charges : ledger'[i] = ledger[i]
        /\ ledger'[n + 1] = new
    BY <1>1, <1>3, <1>4, AppendProperties, LenProperties DEF Charges
  <1>6. Charges \subseteq Charges' /\ Charges' \subseteq Charges \union {n + 1}
    BY <1>1, <1>5
  <1>7. LedgerSound'
    <2>1. \A i \in Charges' : Sound(ledger'[i])
      BY <1>3, <1>5, <1>6 DEF ChargeInv, LedgerSound
    <2> QED
      BY <1>5, <2>1 DEF LedgerSound
  <1>8. \A r \in Requests : PlanSound(r)'
    BY <1>5, <1>6 DEF ChargeInv, PlanSound
  <1>9. OneEach'
    <2>1. ASSUME NEW i \in Charges', ledger'[i].type = "rent" PROVE ledger'[i].month <= months'
      <3>1. CASE i \in Charges
        <4>1. ledger'[i] = ledger[i] /\ ledger[i].month \in Nat
          BY <1>5, <3>1 DEF ChargeInv, LedgerSound, Sound, ChargeRow
        <4>2. ledger[i].month <= months /\ months \in Nat
          BY <2>1, <3>1, <4>1 DEF ChargeInv, OneEach
        <4> QED
          BY <4>1, <4>2
      <3>2. CASE i = n + 1
        BY <1>3, <1>5, <2>1, <3>2
      <3> QED
        BY <1>6, <3>1, <3>2
    <2>2. ASSUME NEW i \in Charges', NEW j \in Charges', i # j,
                 ledger'[i].type = ledger'[j].type, ledger'[i].month = ledger'[j].month
          PROVE  FALSE
      <3>1. CASE i \in Charges /\ j \in Charges
        BY <1>5, <2>2, <3>1 DEF ChargeInv, OneEach
      <3>2. CASE i \in Charges /\ j = n + 1
        BY <1>3, <1>5, <2>2, <3>2
      <3>3. CASE i = n + 1 /\ j \in Charges
        BY <1>3, <1>5, <2>2, <3>3
      <3> QED
        BY <1>6, <2>2, <3>1, <3>2, <3>3
    <2> QED
      BY <2>1, <2>2 DEF OneEach
  <1> QED
    BY <1>7, <1>8, <1>9 DEF ChargeInv

\* ...charges are written, ...
LEMMA ChargesWritten ==
    ASSUME ChargeInv, DOMAIN ledger' = Charges, ledger' = [i \in Charges |-> ledger'[i]],
           \A i \in Charges : Sound(ledger'[i]) /\ SameCharge(ledger'[i], ledger[i]),
           UNCHANGED <<months, unpaid>>,
           \A s \in Requests : req'[s].at \in Writing =>
               /\ req[s].at \in Writing /\ DOMAIN req'[s].plan \subseteq DOMAIN req[s].plan
               /\ \A i \in DOMAIN req'[s].plan : req'[s].plan[i] = req[s].plan[i]
    PROVE  ChargeInv'
  <1>1. PICK n \in Nat : n = Len(ledger) /\ Charges = 1 .. n
    BY Accounts DEF ChargeInv
  <1>2. \A i \in Charges : ledger'[i] \in ChargeRow
    BY DEF Sound
  <1>3. ledger' \in Seq(ChargeRow) /\ Charges' = Charges
    BY <1>1, <1>2 DEF Charges
  <1>4. LedgerSound'
    BY <1>3 DEF LedgerSound
  <1>5. ASSUME NEW s \in Requests PROVE PlanSound(s)'
    BY <1>3 DEF ChargeInv, PlanSound, SameCharge
  <1>6. OneEach'
    BY <1>3 DEF ChargeInv, OneEach, SameCharge
  <1> QED
    BY <1>4, <1>5, <1>6 DEF ChargeInv

\* ...or a request plans to.
LEMMA ChargesPlanned ==
    ASSUME ChargeInv, UNCHANGED <<ledger, months, unpaid>>, NEW r \in Requests,
           \A s \in Requests \ {r} : req'[s] = req[s],
           req'[r].at \in Writing =>
               /\ DOMAIN req'[r].plan \subseteq Charges
               /\ \A i \in DOMAIN req'[r].plan :
                      Sound(req'[r].plan[i]) /\ SameCharge(req'[r].plan[i], ledger[i])
    PROVE  ChargeInv'
  <1>1. Charges' = Charges
    BY DEF Charges
  <1>2. LedgerSound' /\ OneEach'
    BY <1>1 DEF ChargeInv, LedgerSound, OneEach
  <1>3. ASSUME NEW s \in Requests PROVE PlanSound(s)'
    BY <1>1 DEF ChargeInv, PlanSound
  <1> QED
    BY <1>2, <1>3 DEF ChargeInv

LEMMA PlanPutDown ==
    ASSUME RentTyped, NEW r \in Requests, NEW at \in RentPlaces, NEW plan,
           \/ req' = [req EXCEPT ![r].at = at, ![r].plan = plan]
           \/ req' = [req EXCEPT ![r].plan = plan] /\ at = req[r].at
    PROVE  /\ req'[r].at = at /\ req'[r].plan = plan /\ req'[r].pay = req[r].pay
           /\ \A s \in Requests \ {r} : req'[s] = req[s]
  <1>1. PICK plans : req \in [Requests -> Asked(plans)]
    BY DEF RentTyped
  <1>2. CASE req' = [req EXCEPT ![r].at = at, ![r].plan = plan]
    <2>1. PICK new : new = [req[r] EXCEPT !.at = at, !.plan = plan]
      OBVIOUS
    <2>2. new.at = at /\ new.plan = plan /\ new.pay = req[r].pay
      BY <1>1, <2>1 DEF Asked
    <2>3. req' = [req EXCEPT ![r] = new]
      BY <1>1, <1>2, <2>1
    <2> QED
      BY <1>1, <2>2, <2>3
  <1>3. CASE req' = [req EXCEPT ![r].plan = plan] /\ at = req[r].at
    <2>1. PICK new : new = [req[r] EXCEPT !.plan = plan]
      OBVIOUS
    <2>2. new.at = at /\ new.plan = plan /\ new.pay = req[r].pay
      BY <1>1, <1>3, <2>1 DEF Asked
    <2>3. req' = [req EXCEPT ![r] = new]
      BY <1>1, <1>3, <2>1
    <2> QED
      BY <1>1, <2>2, <2>3
  <1> QED
    BY <1>2, <1>3

LEMMA AmountIsNat ==
    ASSUME RefundInv, NEW r \in Requests, req[r].at # "idle" PROVE pay[req[r].pay].amount \in Nat
  <1>1. pay[req[r].pay] \in PaymentRow
    BY DEF RefundInv, RentTyped
  <1>2. pay[req[r].pay].amount \in Amounts \union {0}
    BY <1>1 DEF PaymentRow
  <1>3. ASSUME NEW n, n \in Amounts \union {0} PROVE n \in Nat
    BY <1>3, Money
  <1> QED
    BY <1>2, <1>3

LEMMA ChargesKeptByJobs ==
    ASSUME ChargeInv, PostRent \/ FindOverdue \/ ChargeFee PROVE ChargeInv'
  <1>1. /\ months \in Nat /\ unpaid \subseteq Nat
        /\ \A i \in Charges : ledger[i].month \in Nat /\ (ledger[i].type = "rent" => ledger[i].month <= months)
    BY DEF ChargeInv, OneEach, LedgerSound, Sound, ChargeRow
  <1>2. CASE PostRent
    <2>1. /\ months' = months + 1 /\ months' \in Nat /\ months <= months' /\ UNCHANGED <<unpaid, req>>
          /\ ledger' = Append(ledger, Charge("rent", Rent, months'))
      BY <1>1, <1>2 DEF PostRent
    <2>2. \A i \in Charges : ~(ledger[i].type = "rent" /\ ledger[i].month = months')
      BY <1>1, <2>1
    <2>3. PICK m \in Nat : m = months'
      BY <2>1
    <2>4. Rent \in Nat \ {0} /\ unpaid' \subseteq Nat
      BY <1>1, <2>1, Money
    <2>5. /\ ledger' = Append(ledger, Charge("rent", Rent, m)) /\ m <= months'
          /\ \A i \in Charges : ~(ledger[i].type = "rent" /\ ledger[i].month = m)
      BY <2>1, <2>2, <2>3
    <2> QED
      BY <2>1, <2>3, <2>4, <2>5, ChargePosted
  <1>3. CASE FindOverdue
    <2>1. UNCHANGED <<ledger, months, req>> /\ unpaid' \subseteq Nat
      BY <1>1, <1>3 DEF FindOverdue, Open
    <2> QED
      BY <2>1 DEF ChargeInv, LedgerSound, PlanSound, OneEach, Charges
  <1>4. CASE ChargeFee
    <2>1. PICK m \in unpaid :
              /\ unpaid' = unpaid \ {m} /\ UNCHANGED <<months, req>>
              /\ ledger' = IF \E i \in Charges : ledger[i].type = "late_fee" /\ ledger[i].month = m
                           THEN ledger ELSE Append(ledger, Charge("late_fee", Fee, m))
      BY <1>4 DEF ChargeFee
    <2>2. CASE ledger' = ledger
      BY <1>1, <2>1, <2>2 DEF ChargeInv, LedgerSound, PlanSound, OneEach, Charges
    <2>3. CASE /\ \A i \in Charges : ~(ledger[i].type = "late_fee" /\ ledger[i].month = m)
               /\ ledger' = Append(ledger, Charge("late_fee", Fee, m))
      <3>1. Fee \in Nat \ {0} /\ m \in Nat /\ months <= months' /\ months' \in Nat
        BY <1>1, <2>1, Money
      <3>2. unpaid' \subseteq Nat
        BY <1>1, <2>1
      <3> QED
        BY <2>1, <2>3, <3>1, <3>2, ChargePosted
    <2> QED
      BY <2>1, <2>2, <2>3
  <1> QED
    BY <1>2, <1>3, <1>4

LEMMA ChargesKeptByPlans ==
    ASSUME ChargeInv, RefundInv, NEW r \in Requests,
           ReadOpen(r) \/ RecordOffline(r) \/ ReadPaid(r)
    PROVE  ChargeInv'
  <1>0. Open \subseteq Charges /\ LedgerSound /\ UNCHANGED <<ledger, months, unpaid>> /\ RentTyped
    BY DEF Open, ChargeInv, ReadOpen, RecordOffline, ReadPaid, RefundInv
  <1>1. CASE ReadOpen(r)
    <2>1. PICK amount, plan :
              /\ amount \in Nat
              /\ plan = Credit(amount) /\ req' = [req EXCEPT ![r].at = "write", ![r].plan = plan]
      BY <1>1, AmountIsNat DEF ReadOpen
    <2>2. req'[r].plan = plan /\ \A s \in Requests \ {r} : req'[s] = req[s]
      BY <1>0, <2>1, PlanPutDown DEF RentPlaces
    <2>3. DOMAIN plan \subseteq Charges
          /\ \A i \in DOMAIN plan : Sound(plan[i]) /\ SameCharge(plan[i], ledger[i])
      BY <1>0, <2>1, CreditPlan
    <2> QED
      BY <1>0, <2>2, <2>3, ChargesPlanned
  <1>2. CASE RecordOffline(r)
    <2>1. PICK p \in Payments, a \in Amounts :
              req' = [req EXCEPT ![r] = [at |-> "commit", pay |-> p, amount |-> a, plan |-> Credit(a)]]
      BY <1>2 DEF RecordOffline, Start
    <2>2. PICK plan : plan = Credit(a)
      OBVIOUS
    <2>3. req'[r].plan = plan /\ \A s \in Requests \ {r} : req'[s] = req[s]
      BY <1>0, <2>1, <2>2 DEF RentTyped
    <2>4. DOMAIN plan \subseteq Charges
          /\ \A i \in DOMAIN plan : Sound(plan[i]) /\ SameCharge(plan[i], ledger[i])
      BY <1>0, <2>2, CreditPlan, Money
    <2> QED
      BY <1>0, <2>3, <2>4, ChargesPlanned
  <1>3. CASE ReadPaid(r)
    <2>1. PICK amount, plan :
              /\ amount \in Nat
              /\ plan = Reversal(amount) /\ req' = [req EXCEPT ![r].at = "commit_refund", ![r].plan = plan]
      BY <1>3, AmountIsNat DEF ReadPaid
    <2>2. req'[r].plan = plan /\ \A s \in Requests \ {r} : req'[s] = req[s]
      BY <1>0, <2>1, PlanPutDown DEF RentPlaces
    <2>3. DOMAIN plan \subseteq Charges
          /\ \A i \in DOMAIN plan : Sound(plan[i]) /\ SameCharge(plan[i], ledger[i])
      BY <1>0, <2>1, ReversalPlan
    <2> QED
      BY <1>0, <2>2, <2>3, ChargesPlanned
  <1> QED
    BY <1>1, <1>2, <1>3

\* A request ends, and writes what it planned, or one charge of it, or nothing.
LEMMA WritesPlan ==
    ASSUME ChargeInv, NEW r \in Requests, req[r].at \in Writing, ledger' = Written(req[r].plan)
    PROVE  /\ DOMAIN ledger' = Charges /\ ledger' = [i \in Charges |-> ledger'[i]]
           /\ \A i \in Charges : Sound(ledger'[i]) /\ SameCharge(ledger'[i], ledger[i])
  <1>1. PlanSound(r) /\ LedgerSound
    BY DEF ChargeInv
  <1> QED
    BY <1>1 DEF Written, PlanSound, LedgerSound, SameCharge

\* The webhook's next update: the oldest charge of its plan, or none is left.
Updates(r, i, plan) ==
    /\ i \in DOMAIN req[r].plan /\ \A j \in DOMAIN req[r].plan : i <= j
    /\ i \in Charges /\ Charges' = Charges
    /\ ledger' = [ledger EXCEPT ![i] = req[r].plan[i]]
    /\ ledger'[i] = req[r].plan[i] /\ \A j \in Charges \ {i} : ledger'[j] = ledger[j]
    /\ plan = [j \in DOMAIN req[r].plan \ {i} |-> req[r].plan[j]]
    /\ req'[r].at = "write" /\ req'[r].plan = plan
    /\ \A s \in Requests \ {r} : req'[s] = req[s]

LEMMA WritesOne ==
    ASSUME ChargeInv, RefundInv, NEW r \in Requests, WriteCharge(r), DOMAIN req[r].plan # {}
    PROVE  \E i, plan : Updates(r, i, plan)
  <1>1. PICK i : i = Min(DOMAIN req[r].plan)
    OBVIOUS
  <1>2. PICK plan : plan = [j \in DOMAIN req[r].plan \ {i} |-> req[r].plan[j]]
    OBVIOUS
  <1>3. /\ ledger' = [ledger EXCEPT ![i] = req[r].plan[i]] /\ req[r].at = "write"
        /\ req' = [req EXCEPT ![r].plan = plan] /\ RentTyped
    BY <1>1, <1>2 DEF WriteCharge, RefundInv
  <1>4. PlanSound(r) /\ LedgerSound /\ Charges \subseteq Nat
    BY Accounts DEF ChargeInv
  <1>5. DOMAIN req[r].plan \in SUBSET Nat /\ DOMAIN req[r].plan \subseteq Charges
    BY <1>3, <1>4 DEF PlanSound, Writing
  <1>6. i \in DOMAIN req[r].plan /\ \A j \in DOMAIN req[r].plan : i <= j
    <2>1. \E n \in DOMAIN req[r].plan : \A m \in DOMAIN req[r].plan : n <= m
      BY <1>5, LeastOf
    <2> QED
      BY <1>1, <2>1 DEF Min
  <1>7. /\ i \in Charges /\ Charges' = Charges
        /\ ledger'[i] = req[r].plan[i] /\ \A j \in Charges \ {i} : ledger'[j] = ledger[j]
    BY <1>3, <1>4, <1>5, <1>6 DEF LedgerSound, Charges
  <1>8. /\ req'[r].at = "write" /\ req'[r].plan = plan
        /\ \A s \in Requests \ {r} : req'[s] = req[s]
    BY <1>3, PlanPutDown DEF RentPlaces
  <1>9. Updates(r, i, plan)
    BY <1>2, <1>3, <1>6, <1>7, <1>8 DEF Updates
  <1> QED
    BY <1>9

LEMMA WritesNone ==
    ASSUME RefundInv, NEW r \in Requests, WriteCharge(r), DOMAIN req[r].plan = {}
    PROVE  UNCHANGED ledger /\ req'[r].at = "idle" /\ \A s \in Requests \ {r} : req'[s] = req[s]
  <1>1. RentTyped /\ End(r) /\ UNCHANGED ledger
    BY DEF RefundInv, WriteCharge
  <1> QED
    BY <1>1, Ended DEF Turned

LEMMA ChargesKeptByWrites ==
    ASSUME ChargeInv, RefundInv, NEW r \in Requests,
           WriteCharge(r) \/ CommitOffline(r) \/ CommitRefund(r)
    PROVE  ChargeInv'
  <1>1. RentTyped /\ UNCHANGED <<months, unpaid>>
    BY DEF RefundInv, WriteCharge, CommitOffline, CommitRefund
  <1>2. ASSUME End(r)
        PROVE  \A s \in Requests : req'[s].at \in Writing =>
                   /\ req[s].at \in Writing /\ DOMAIN req'[s].plan \subseteq DOMAIN req[s].plan
                   /\ \A i \in DOMAIN req'[s].plan : req'[s].plan[i] = req[s].plan[i]
    <2>1. req'[r].at = "idle" /\ \A s \in Requests \ {r} : req'[s] = req[s]
      BY <1>1, <1>2, Ended DEF Turned
    <2> QED
      BY <2>1 DEF Writing
  <1>3. CASE CommitOffline(r) \/ CommitRefund(r)
    <2>1. req[r].at \in Writing /\ ledger' = Written(req[r].plan) /\ End(r)
      BY <1>3 DEF CommitOffline, CommitRefund, Writing
    <2> QED
      BY <1>1, <1>2, <2>1, WritesPlan, ChargesWritten
  <1>4. CASE WriteCharge(r) /\ DOMAIN req[r].plan = {}
    BY <1>1, <1>4, WritesNone, ChargesPlanned DEF Writing
  <1>5. CASE WriteCharge(r) /\ DOMAIN req[r].plan # {}
    <2>1. PICK i, plan : Updates(r, i, plan)
      BY <1>5, WritesOne
    <2>2. PlanSound(r) /\ LedgerSound /\ req[r].at = "write"
      BY <1>5 DEF ChargeInv, WriteCharge
    <2>3. Sound(req[r].plan[i]) /\ SameCharge(req[r].plan[i], ledger[i])
      BY <2>1, <2>2 DEF PlanSound, Writing, Updates
    <2>4. /\ DOMAIN ledger' = Charges /\ ledger' = [j \in Charges |-> ledger'[j]]
          /\ \A j \in Charges : Sound(ledger'[j]) /\ SameCharge(ledger'[j], ledger[j])
      <3>1. ledger = [j \in Charges |-> ledger[j]]
        BY <2>2 DEF LedgerSound, Charges
      <3> QED
        BY <2>1, <2>2, <2>3, <3>1 DEF LedgerSound, SameCharge, Charges, Updates
    <2>5. \A s \in Requests : req'[s].at \in Writing =>
              /\ req[s].at \in Writing /\ DOMAIN req'[s].plan \subseteq DOMAIN req[s].plan
              /\ \A j \in DOMAIN req'[s].plan : req'[s].plan[j] = req[s].plan[j]
      BY <2>1, <2>2 DEF Writing, Updates
    <2> QED
      BY <1>1, <2>4, <2>5, ChargesWritten
  <1> QED
    BY <1>3, <1>4, <1>5

LEMMA ChargesKept == ASSUME ChargeInv, RefundInv, [Next]_vars PROVE ChargeInv'
  <1>0. RentTyped
    BY DEF RefundInv
  <1>1. CASE UNCHANGED vars
    BY <1>1 DEF vars, ChargeInv, LedgerSound, PlanSound, OneEach, Charges
  <1>2. ASSUME NEW p \in Payments, CreatePayment(p) \/ CreateIntent(p) \/ StoreId(p) \/ Settle(p)
        PROVE  ChargeInv'
    <2>1. UNCHANGED <<ledger, months, unpaid, req>>
      BY <1>2 DEF CreatePayment, CreateIntent, StoreId, Settle
    <2> QED
      BY <2>1 DEF ChargeInv, LedgerSound, PlanSound, OneEach, Charges
  <1>3. ASSUME NEW r \in Requests,
               \/ Deliver(r) \/ Mark(r) \/ Complete(r) \/ Throw(r)
               \/ Refund(r) \/ RefundAtStripe(r) \/ AbortRefund(r)
        PROVE  ChargeInv'
    <2>1. UNCHANGED <<ledger, months, unpaid>>
      BY <1>3 DEF Deliver, Mark, Complete, Throw, Refund, RefundAtStripe, AbortRefund
    <2>2. CASE UNCHANGED req
      BY <2>1, <2>2 DEF ChargeInv, LedgerSound, PlanSound, OneEach, Charges
    <2>3. CASE End(r)
      <3>1. req'[r].at = "idle" /\ \A s \in Requests \ {r} : req'[s] = req[s]
        BY <1>0, <2>3, Ended DEF Turned
      <3> QED
        BY <2>1, <3>1, ChargesPlanned DEF Writing
    <2>4. ASSUME NEW at \in RentPlaces \ Writing, req' = [req EXCEPT ![r].at = at]
          PROVE  ChargeInv'
      <3>1. req'[r].at = at /\ \A s \in Requests \ {r} : req'[s] = req[s]
        BY <1>0, <2>4, Steps DEF Turned
      <3> QED
        BY <2>1, <2>4, <3>1, ChargesPlanned
    <2>5. ASSUME NEW at \in RentPlaces \ Writing, NEW p,
                 req' = [req EXCEPT ![r] = [Idle EXCEPT !.at = at, !.pay = p]]
          PROVE  ChargeInv'
      <3>1. req'[r].at = at /\ \A s \in Requests \ {r} : req'[s] = req[s]
        BY <1>0, <2>5 DEF RentTyped, Idle
      <3> QED
        BY <2>1, <2>5, <3>1, ChargesPlanned
    <2>6. CASE Deliver(r)
      <3>1. PICK e \in events :
                \/ UNCHANGED req
                \/ req' = [req EXCEPT ![r] = [Idle EXCEPT !.at = e[2], !.pay = e[1]]]
        BY <2>6 DEF Deliver, Start
      <3>2. e[2] \in RentPlaces \ Writing
        BY <1>0 DEF RentTyped, RentPlaces, Writing
      <3> QED
        BY <2>2, <2>5, <3>1, <3>2
    <2>7. CASE Mark(r) \/ Throw(r) \/ AbortRefund(r)
      BY <2>3, <2>7 DEF Mark, Throw, AbortRefund
    <2>8. CASE Complete(r)
      BY <2>4, <2>8 DEF Complete, RentPlaces, Writing
    <2>9. CASE Refund(r)
      <3>1. PICK at \in {"stripe", "reverse"}, p \in Payments :
                req' = [req EXCEPT ![r] = [Idle EXCEPT !.at = at, !.pay = p]]
        BY <2>9 DEF Refund, Start
      <3> QED
        BY <2>5, <3>1 DEF RentPlaces, Writing
    <2>10. CASE RefundAtStripe(r)
      BY <2>3, <2>4, <2>10 DEF RefundAtStripe, RentPlaces, Writing
    <2> QED
      BY <1>3, <2>6, <2>7, <2>8, <2>9, <2>10
  <1> QED
    BY <1>1, <1>2, <1>3, ChargesKeptByJobs, ChargesKeptByPlans, ChargesKeptByWrites DEF Next

LEMMA ChargesStart == Init => ChargeInv
  <1> SUFFICES ASSUME Init PROVE ChargeInv
    OBVIOUS
  <1>1. ledger = << >> /\ ledger \in Seq(ChargeRow) /\ Charges = {} /\ months = 0 /\ unpaid = {}
    BY DEF Init, Charges
  <1>2. \A r \in Requests : req[r].at = "idle"
    BY DEF Init, Idle
  <1> QED
    BY <1>1, <1>2 DEF ChargeInv, LedgerSound, PlanSound, OneEach, Writing

LEMMA ChargesHold == Spec => []ChargeInv
  BY ChargesStart, ChargesKept, RefundHolds, PTL DEF Spec

LEMMA ChargesStand == ChargeInv => ChargeIsConsistent
  <1> SUFFICES ASSUME ChargeInv, NEW i \in Charges
               PROVE  /\ 0 <= ledger[i].paid /\ ledger[i].paid <= ledger[i].amount
                      /\ ledger[i].status = With(i, ledger[i].paid).status
    BY DEF ChargeIsConsistent, ChargeInv, OneEach
  <1>1. Sound(ledger[i]) /\ LedgerSound
    BY DEF ChargeInv, LedgerSound
  <1>2. PICK n \in Nat : n = ledger[i].paid /\ n <= ledger[i].amount
    BY <1>1 DEF Sound, ChargeRow
  <1>3. Sound(With(i, n)) /\ SameCharge(With(i, n), ledger[i]) /\ With(i, n).paid = n
    BY <1>1, <1>2, WithSound
  <1> QED
    BY <1>1, <1>2, <1>3 DEF Sound, SameCharge

-----------------------------------------------------------------------------
\* Oldest first, while requests do not overlap: what a request is about to write
\* keeps the order, once it is all written.
OneAtATime == \A r, s \in Requests : req[r].at # "idle" /\ req[s].at # "idle" => r = s
Fifo == \A i, j \in Charges : i < j /\ ledger[j].paid > 0 => ledger[i].status = "paid"
After(r, i) == IF i \in DOMAIN req[r].plan THEN req[r].plan[i] ELSE ledger[i]
CreditsInOrder(r) ==
    req[r].at \in {"write", "commit"} =>
        \A j \in DOMAIN req[r].plan :
            /\ ledger[j].paid <= req[r].plan[j].paid
            /\ \A i \in Charges : i < j => After(r, i).status = "paid"
TakesInOrder(r) ==
    req[r].at = "commit_refund" =>
        \A j \in DOMAIN req[r].plan :
            /\ req[r].plan[j].paid <= ledger[j].paid
            /\ \A i \in Charges : j < i /\ ledger[i].paid > 0 =>
                   i \in DOMAIN req[r].plan /\ req[r].plan[i].paid = 0
OrderInv ==
    Without({"overlap"}) =>
        OneAtATime /\ Fifo /\ \A r \in Requests : CreditsInOrder(r) /\ TakesInOrder(r)

LEMMA UpsetGrows == ASSUME [Next]_vars PROVE upset \subseteq upset'
  BY DEF Next, vars, PostRent, FindOverdue, ChargeFee, CreatePayment, CreateIntent, StoreId, Settle,
         Deliver, Mark, Complete, ReadOpen, WriteCharge, Throw, RecordOffline, CommitOffline,
         Refund, RefundAtStripe, ReadPaid, CommitRefund, AbortRefund, Start, Once, Happens

\* Without overlap a request that runs or starts is the only one.
LEMMA OnlyOne ==
    ASSUME OrderInv, NEW r \in Requests, upset \subseteq upset', Without({"overlap"})',
           req[r].at # "idle" \/ \E new, kinds : Start(r, new, kinds)
    PROVE  \A s \in Requests \ {r} : req[s].at = "idle"
  <1>1. CASE req[r].at # "idle"
    BY <1>1 DEF OrderInv, OneAtATime, Without
  <1>2. ASSUME NEW new, NEW kinds, Start(r, new, kinds) PROVE Busy = {}
    BY <1>2 DEF Start, Happens, Without
  <1> QED
    BY <1>1, <1>2 DEF Busy

LEMMA OrderPosted ==
    ASSUME OrderInv, ChargeInv, NEW type, NEW amount, NEW month,
           ledger' = Append(ledger, Charge(type, amount, month)), UNCHANGED <<req, upset>>
    PROVE  OrderInv'
  <1> SUFFICES ASSUME Without({"overlap"})
               PROVE  (OneAtATime /\ Fifo /\ \A r \in Requests : CreditsInOrder(r) /\ TakesInOrder(r))'
    BY DEF OrderInv, Without
  <1>1. PICK n \in Nat : n = Len(ledger) /\ Charges = 1 .. n
    BY Accounts DEF ChargeInv
  <1>2. PICK new : new = Charge(type, amount, month)
    OBVIOUS
  <1>3. new.paid = 0 /\ ~(new.paid > 0)
    BY <1>2 DEF Charge
  <1>4. ledger \in Seq(ChargeRow) /\ ledger' = Append(ledger, new)
    BY <1>2 DEF ChargeInv, LedgerSound
  <1>5. /\ Charges' = 1 .. (n + 1)
        /\ \A i \in Charges : ledger'[i] = ledger[i]
        /\ ledger'[n + 1] = new
    BY <1>1, <1>4, AppendProperties DEF Charges
  <1>6. /\ \A i \in Charges' : i \in Charges \/ (i = n + 1 /\ ~(ledger'[i].paid > 0))
        /\ \A i \in Charges : ~(n + 1 < i)
    BY <1>1, <1>3, <1>5
  <1>7. Fifo'
    <2> SUFFICES ASSUME NEW i \in Charges', NEW j \in Charges', i < j, ledger'[j].paid > 0
                 PROVE  ledger'[i].status = "paid"
      BY DEF Fifo
    <2>1. j \in Charges
      BY <1>6
    <2>2. i \in Charges
      BY <1>6, <2>1
    <2> QED
      BY <1>5, <2>1, <2>2 DEF OrderInv, Fifo
  <1>8. ASSUME NEW r \in Requests PROVE (CreditsInOrder(r) /\ TakesInOrder(r))'
    <2>1. req[r].at \in Writing => DOMAIN req[r].plan \subseteq Charges
      BY DEF ChargeInv, PlanSound
    <2>2. CreditsInOrder(r) /\ TakesInOrder(r)
      BY DEF OrderInv
    <2>3. CreditsInOrder(r)'
      <3> SUFFICES ASSUME req[r].at \in {"write", "commit"}, NEW j \in DOMAIN req[r].plan
                   PROVE  /\ ledger'[j].paid <= req[r].plan[j].paid
                          /\ \A i \in Charges' : i < j => After(r, i)'.status = "paid"
        BY DEF CreditsInOrder
      <3>1. j \in Charges
        BY <2>1 DEF Writing
      <3>2. \A i \in Charges' : i < j => i \in Charges /\ After(r, i)' = After(r, i)
        BY <1>5, <1>6, <3>1 DEF After
      <3> QED
        BY <1>5, <2>2, <3>1, <3>2 DEF CreditsInOrder
    <2>4. TakesInOrder(r)'
      <3> SUFFICES ASSUME req[r].at = "commit_refund", NEW j \in DOMAIN req[r].plan
                   PROVE  /\ req[r].plan[j].paid <= ledger'[j].paid
                          /\ \A i \in Charges' : j < i /\ ledger'[i].paid > 0 =>
                                 i \in DOMAIN req[r].plan /\ req[r].plan[i].paid = 0
        BY DEF TakesInOrder
      <3>1. j \in Charges
        BY <2>1 DEF Writing
      <3>2. \A i \in Charges' : ledger'[i].paid > 0 => i \in Charges /\ ledger'[i] = ledger[i]
        BY <1>5, <1>6
      <3> QED
        BY <1>5, <2>2, <3>1, <3>2 DEF TakesInOrder
    <2> QED
      BY <2>3, <2>4
  <1> QED
    BY <1>7, <1>8 DEF OrderInv, OneAtATime

LEMMA OrderPlanned ==
    ASSUME OrderInv, NEW r \in Requests, UNCHANGED ledger, upset \subseteq upset',
           \A s \in Requests \ {r} : req'[s] = req[s],
           Without({"overlap"})' =>
               /\ \A s \in Requests \ {r} : req[s].at = "idle"
               /\ Without({"overlap"}) => CreditsInOrder(r)' /\ TakesInOrder(r)'
    PROVE  OrderInv'
  <1> SUFFICES ASSUME Without({"overlap"})'
               PROVE  (OneAtATime /\ Fifo /\ \A s \in Requests : CreditsInOrder(s) /\ TakesInOrder(s))'
    BY DEF OrderInv
  <1>1. Without({"overlap"})
    BY DEF Without
  <1>2. Fifo'
    BY <1>1 DEF OrderInv, Fifo, Charges
  <1>3. \A s \in Requests \ {r} : req'[s].at = "idle"
    OBVIOUS
  <1>4. OneAtATime'
    BY <1>3 DEF OneAtATime
  <1>5. ASSUME NEW s \in Requests PROVE (CreditsInOrder(s) /\ TakesInOrder(s))'
    BY <1>1, <1>3 DEF CreditsInOrder, TakesInOrder
  <1> QED
    BY <1>2, <1>4, <1>5

\* A charge that is paid stays so when no less is written.
LEMMA PaidStays ==
    ASSUME NEW c, NEW d, Sound(c), Sound(d), SameCharge(d, c), c.paid <= d.paid, c.status = "paid"
    PROVE  d.status = "paid"
  <1>1. /\ c.paid \in Nat /\ d.paid \in Nat /\ c.amount \in Nat /\ d.amount = c.amount
        /\ "paid" = StatusOf(c.paid, c.amount) /\ d.status = StatusOf(d.paid, d.amount)
    BY DEF Sound, ChargeRow, SameCharge
  <1>2. c.paid >= c.amount
    BY <1>1 DEF StatusOf
  <1>3. d.paid >= d.amount
    BY <1>1, <1>2
  <1> QED
    BY <1>1, <1>3 DEF StatusOf

LEMMA OrderKeptByCommits ==
    ASSUME OrderInv, ChargeInv, RefundInv, NEW r \in Requests, CommitOffline(r) \/ CommitRefund(r)
    PROVE  OrderInv'
  <1>1. /\ ledger' = Written(req[r].plan) /\ End(r) /\ upset' = upset
        /\ req[r].at \in {"commit", "commit_refund"}
    BY DEF CommitOffline, CommitRefund
  <1> SUFFICES ASSUME Without({"overlap"})
               PROVE  (OneAtATime /\ Fifo /\ \A s \in Requests : CreditsInOrder(s) /\ TakesInOrder(s))'
    BY <1>1 DEF OrderInv, Without
  <1>2. \A s \in Requests : req'[s].at = "idle"
    <2>1. req'[r].at = "idle" /\ \A s \in Requests \ {r} : req'[s] = req[s]
      BY <1>1, Ended DEF Turned, RefundInv
    <2> QED
      BY <1>1, <2>1 DEF OrderInv, OneAtATime
  <1>3. /\ Charges' = Charges
        /\ \A i \in Charges : ledger'[i] = After(r, i)
    BY <1>1 DEF Written, After, Charges
  <1>4. /\ \A i \in Charges : Sound(ledger[i])
        /\ \A i \in DOMAIN req[r].plan :
               i \in Charges /\ Sound(req[r].plan[i]) /\ SameCharge(req[r].plan[i], ledger[i])
    BY <1>1 DEF ChargeInv, LedgerSound, PlanSound, Writing
  <1>5. Fifo'
    <2> SUFFICES ASSUME NEW i \in Charges, NEW j \in Charges, i < j, After(r, j).paid > 0
                 PROVE  After(r, i).status = "paid"
      BY <1>3 DEF Fifo
    <2>1. CASE req[r].at = "commit"
      <3>1. CASE j \in DOMAIN req[r].plan
        BY <2>1, <3>1 DEF OrderInv, CreditsInOrder
      <3>2. CASE j \notin DOMAIN req[r].plan
        <4>1. ledger[i].status = "paid"
          BY <3>2 DEF After, OrderInv, Fifo
        <4>2. ASSUME i \in DOMAIN req[r].plan PROVE req[r].plan[i].status = "paid"
          <5>1. ledger[i].paid <= req[r].plan[i].paid
            BY <2>1, <4>2 DEF OrderInv, CreditsInOrder
          <5> QED
            BY <1>4, <4>1, <4>2, <5>1, PaidStays
        <4> QED
          BY <4>1, <4>2 DEF After
      <3> QED
        BY <3>1, <3>2
    <2>2. CASE req[r].at = "commit_refund"
      <3>1. ledger[j].paid > 0
        <4>1. CASE j \in DOMAIN req[r].plan
          <5>1. req[r].plan[j].paid > 0 /\ req[r].plan[j].paid <= ledger[j].paid
            BY <2>2, <4>1 DEF OrderInv, TakesInOrder, After
          <5>2. req[r].plan[j].paid \in Nat /\ ledger[j].paid \in Nat
            BY <1>4, <4>1 DEF Sound, ChargeRow
          <5> QED
            BY <5>1, <5>2
        <4> QED
          BY <4>1 DEF After
      <3>2. ledger[i].status = "paid"
        BY <3>1 DEF OrderInv, Fifo
      <3>3. i \notin DOMAIN req[r].plan
        <4> SUFFICES ASSUME i \in DOMAIN req[r].plan PROVE FALSE
          OBVIOUS
        <4>1. j \in DOMAIN req[r].plan /\ req[r].plan[j].paid = 0
          BY <2>2, <3>1 DEF OrderInv, TakesInOrder
        <4>2. 0 > 0
          BY <4>1 DEF After
        <4> QED
          BY <4>2
      <3> QED
        BY <3>2, <3>3 DEF After
    <2> QED
      BY <1>1, <2>1, <2>2
  <1> QED
    BY <1>2, <1>5 DEF OneAtATime, CreditsInOrder, TakesInOrder

LEMMA OrderKeptByWrite ==
    ASSUME OrderInv, ChargeInv, RefundInv, NEW r \in Requests, WriteCharge(r) PROVE OrderInv'
  <1>0. req[r].at = "write" /\ UNCHANGED upset /\ RentTyped
    BY DEF WriteCharge, RefundInv
  <1>1. CASE DOMAIN req[r].plan = {}
    <2>1. UNCHANGED ledger /\ req'[r].at = "idle" /\ \A s \in Requests \ {r} : req'[s] = req[s]
      BY <1>1, WritesNone
    <2>2. CreditsInOrder(r)' /\ TakesInOrder(r)'
      BY <2>1 DEF CreditsInOrder, TakesInOrder
    <2> QED
      BY <1>0, <2>1, <2>2, OnlyOne, OrderPlanned
  <1>2. CASE DOMAIN req[r].plan # {}
    <2> SUFFICES ASSUME Without({"overlap"})
                 PROVE  (OneAtATime /\ Fifo /\ \A s \in Requests : CreditsInOrder(s) /\ TakesInOrder(s))'
      BY <1>0 DEF OrderInv, Without
    <2>1. PICK i, plan : Updates(r, i, plan)
      BY <1>2, WritesOne
    <2>2. plan = [j \in DOMAIN req[r].plan \ {i} |-> req[r].plan[j]]
      BY <2>1 DEF Updates
    <2>3. /\ Charges \subseteq Nat /\ DOMAIN req[r].plan \subseteq Charges
          /\ ledger \in Seq(ChargeRow) /\ \A j \in Charges : Sound(ledger[j])
          /\ \A j \in DOMAIN req[r].plan :
                 Sound(req[r].plan[j]) /\ SameCharge(req[r].plan[j], ledger[j])
      BY <1>0, Accounts DEF ChargeInv, LedgerSound, PlanSound, Writing
    <2>4. i \in DOMAIN req[r].plan /\ \A j \in DOMAIN req[r].plan : i <= j
      BY <2>1 DEF Updates
    <2>5. /\ Charges' = Charges /\ ledger'[i] = req[r].plan[i]
          /\ \A j \in Charges \ {i} : ledger'[j] = ledger[j]
      BY <2>1 DEF Updates
    <2>6. /\ req'[r].at = "write" /\ req'[r].plan = plan
          /\ \A s \in Requests \ {r} : req'[s] = req[s]
      BY <2>1 DEF Updates
    <2>7. \A s \in Requests \ {r} : req'[s].at = "idle"
      BY <1>0, <2>6 DEF OrderInv, OneAtATime
    <2>8. /\ Fifo
          /\ \A j \in DOMAIN req[r].plan :
                /\ ledger[j].paid <= req[r].plan[j].paid
                /\ \A k \in Charges : k < j => After(r, k).status = "paid"
      BY <1>0 DEF OrderInv, CreditsInOrder
    <2>9. Fifo'
      <3> SUFFICES ASSUME NEW k \in Charges, NEW j \in Charges, k < j, ledger'[j].paid > 0
                   PROVE  ledger'[k].status = "paid"
        BY <2>5 DEF Fifo
      <3>1. CASE j = i
        <4>1. k \notin DOMAIN req[r].plan /\ k # i
          BY <2>3, <2>4, <3>1
        <4> QED
          BY <2>4, <2>5, <2>8, <3>1, <4>1 DEF After
      <3>2. CASE j # i
        <4>1. ledger[k].status = "paid"
          BY <2>5, <2>8, <3>2 DEF Fifo
        <4>2. CASE k = i
          BY <2>3, <2>4, <2>5, <2>8, <4>1, <4>2, PaidStays
        <4> QED
          BY <2>5, <4>1, <4>2
      <3> QED
        BY <3>1, <3>2
    <2>10. CreditsInOrder(r)'
      <3> SUFFICES ASSUME NEW j \in DOMAIN req[r].plan \ {i}
                   PROVE  /\ ledger'[j].paid <= req[r].plan[j].paid
                          /\ \A k \in Charges : k < j => After(r, k)'.status = "paid"
        BY <2>2, <2>5, <2>6 DEF CreditsInOrder
      <3>1. ledger'[j].paid <= req[r].plan[j].paid
        BY <2>3, <2>5, <2>8
      <3>2. ASSUME NEW k \in Charges, k < j PROVE After(r, k)'.status = "paid"
        <4>1. After(r, k).status = "paid"
          BY <2>8, <3>2
        <4>2. After(r, k)' = After(r, k)
          BY <2>2, <2>4, <2>5, <2>6 DEF After
        <4> QED
          BY <4>1, <4>2
      <3> QED
        BY <3>1, <3>2
    <2>11. TakesInOrder(r)'
      BY <2>6 DEF TakesInOrder
    <2> QED
      BY <2>7, <2>9, <2>10, <2>11 DEF OneAtATime, CreditsInOrder, TakesInOrder
  <1> QED
    BY <1>1, <1>2

LEMMA CreditKeepsOrder ==
    ASSUME LedgerSound, UNCHANGED ledger, NEW r \in Requests, NEW amount \in Nat,
           req'[r].plan = Credit(amount)
    PROVE  CreditsInOrder(r)'
  <1>1. PICK plan : plan = Credit(amount) /\ req'[r].plan = plan
    OBVIOUS
  <1>2. Charges' = Charges /\ \A i \in Charges : i \in Open <=> ledger[i].status # "paid"
    BY Accounts DEF Charges
  <1>3. /\ DOMAIN plan \subseteq Open /\ Open \subseteq Charges
        /\ \A j \in DOMAIN plan :
              /\ ledger[j].paid <= plan[j].paid
              /\ \A i \in Open : i < j => i \in DOMAIN plan /\ plan[i].status = "paid"
    BY <1>1, CreditPlan DEF Open
  <1>4. ASSUME NEW j \in DOMAIN plan, NEW i \in Charges, i < j PROVE After(r, i)'.status = "paid"
    BY <1>1, <1>2, <1>3, <1>4 DEF After
  <1> QED
    BY <1>1, <1>2, <1>3, <1>4 DEF CreditsInOrder

LEMMA OrderKeptByPlans ==
    ASSUME OrderInv, ChargeInv, RefundInv, NEW r \in Requests,
           ReadOpen(r) \/ RecordOffline(r) \/ ReadPaid(r)
    PROVE  OrderInv'
  <1>0. LedgerSound /\ UNCHANGED ledger /\ RentTyped /\ upset \subseteq upset'
    BY DEF ChargeInv, ReadOpen, RecordOffline, ReadPaid, RefundInv, Start, Happens
  <1>1. CASE ReadOpen(r)
    <2>1. PICK amount, plan :
              /\ amount \in Nat
              /\ plan = Credit(amount) /\ req' = [req EXCEPT ![r].at = "write", ![r].plan = plan]
      BY <1>1, AmountIsNat DEF ReadOpen
    <2>2. /\ req'[r].at = "write" /\ req'[r].plan = plan
          /\ \A s \in Requests \ {r} : req'[s] = req[s]
      BY <1>0, <2>1, PlanPutDown DEF RentPlaces
    <2>3. CreditsInOrder(r)' /\ TakesInOrder(r)'
      BY <1>0, <2>1, <2>2, CreditKeepsOrder DEF TakesInOrder
    <2>4. req[r].at # "idle"
      BY <1>1 DEF ReadOpen
    <2> QED
      BY <1>0, <2>2, <2>3, <2>4, OnlyOne, OrderPlanned
  <1>2. CASE RecordOffline(r)
    <2>1. PICK p, a, new :
              /\ p \in Payments /\ a \in Amounts
              /\ new = [at |-> "commit", pay |-> p, amount |-> a, plan |-> Credit(a)]
              /\ Start(r, new, Excess(a))
      BY <1>2 DEF RecordOffline
    <2>2. req' = [req EXCEPT ![r] = new]
      BY <2>1 DEF Start
    <2>3. /\ req'[r].at = "commit" /\ req'[r].plan = Credit(a)
          /\ \A s \in Requests \ {r} : req'[s] = req[s]
      BY <1>0, <2>1, <2>2 DEF RentTyped
    <2>4. a \in Nat
      BY <2>1, Money
    <2>5. CreditsInOrder(r)' /\ TakesInOrder(r)'
      BY <1>0, <2>3, <2>4, CreditKeepsOrder DEF TakesInOrder
    <2>6. Without({"overlap"})' => \A s \in Requests \ {r} : req[s].at = "idle"
      BY <1>0, <2>1, OnlyOne
    <2> QED
      BY <1>0, <2>3, <2>5, <2>6, OrderPlanned
  <1>3. CASE ReadPaid(r)
    <2>1. PICK amount, plan :
              /\ amount \in Nat
              /\ plan = Reversal(amount) /\ req' = [req EXCEPT ![r].at = "commit_refund", ![r].plan = plan]
      BY <1>3, AmountIsNat DEF ReadPaid
    <2>2. /\ req'[r].at = "commit_refund" /\ req'[r].plan = plan
          /\ \A s \in Requests \ {r} : req'[s] = req[s]
      BY <1>0, <2>1, PlanPutDown DEF RentPlaces
    <2>3. \A j \in DOMAIN plan :
              /\ plan[j].paid <= ledger[j].paid
              /\ \A i \in Charges : j < i /\ ledger[i].paid > 0 => i \in DOMAIN plan /\ plan[i].paid = 0
      BY <1>0, <2>1, ReversalPlan
    <2>4. CreditsInOrder(r)' /\ TakesInOrder(r)'
      BY <1>0, <2>2, <2>3 DEF CreditsInOrder, TakesInOrder, Charges
    <2>5. req[r].at # "idle"
      BY <1>3 DEF ReadPaid
    <2> QED
      BY <1>0, <2>2, <2>4, <2>5, OnlyOne, OrderPlanned
  <1> QED
    BY <1>1, <1>2, <1>3

LEMMA OrderKept == ASSUME OrderInv, ChargeInv, RefundInv, [Next]_vars PROVE OrderInv'
  <1>0. RentTyped /\ upset \subseteq upset'
    BY UpsetGrows DEF RefundInv
  <1>1. ASSUME UNCHANGED <<ledger, req>> PROVE OrderInv'
    BY <1>0, <1>1 DEF OrderInv, Without, OneAtATime, Fifo, CreditsInOrder, TakesInOrder, After, Charges
  <1>2. ASSUME NEW type, NEW amount, NEW month,
               ledger' = Append(ledger, Charge(type, amount, month)), UNCHANGED <<req, upset>>
        PROVE  OrderInv'
    BY <1>2, OrderPosted
  <1>3. CASE PostRent \/ FindOverdue \/ ChargeFee \/ UNCHANGED vars
    <2>1. CASE PostRent
      <3>1. PICK m : m = months'
        OBVIOUS
      <3>2. ledger' = Append(ledger, Charge("rent", Rent, m)) /\ UNCHANGED <<req, upset>>
        BY <2>1, <3>1 DEF PostRent
      <3> QED
        BY <1>2, <3>2
    <2>2. CASE ChargeFee
      BY <1>1, <1>2, <2>2 DEF ChargeFee
    <2> QED
      BY <1>1, <1>3, <2>1, <2>2 DEF FindOverdue, vars
  <1>4. ASSUME NEW p \in Payments, CreatePayment(p) \/ CreateIntent(p) \/ StoreId(p) \/ Settle(p)
        PROVE  OrderInv'
    BY <1>1, <1>4 DEF CreatePayment, CreateIntent, StoreId, Settle
  <1>5. ASSUME NEW r \in Requests,
               \/ Deliver(r) \/ Mark(r) \/ Complete(r) \/ Throw(r)
               \/ Refund(r) \/ RefundAtStripe(r) \/ AbortRefund(r)
        PROVE  OrderInv'
    <2>1. UNCHANGED ledger
      BY <1>5 DEF Deliver, Mark, Complete, Throw, Refund, RefundAtStripe, AbortRefund
    <2>2. ASSUME NEW at \in RentPlaces \ Writing, req'[r].at = at,
                 \A s \in Requests \ {r} : req'[s] = req[s],
                 req[r].at # "idle" \/ \E new, kinds : Start(r, new, kinds)
          PROVE  OrderInv'
      <3>1. CreditsInOrder(r)' /\ TakesInOrder(r)'
        BY <2>2 DEF CreditsInOrder, TakesInOrder, Writing
      <3> QED
        BY <1>0, <2>1, <2>2, <3>1, OnlyOne, OrderPlanned
    <2>3. ASSUME End(r), req[r].at # "idle" PROVE OrderInv'
      BY <1>0, <2>2, <2>3, Ended DEF Turned, RentPlaces, Writing
    <2>4. ASSUME NEW at \in RentPlaces \ Writing, req' = [req EXCEPT ![r].at = at], req[r].at # "idle"
          PROVE  OrderInv'
      BY <1>0, <2>2, <2>4, Steps DEF Turned
    <2>5. ASSUME NEW at \in RentPlaces \ Writing, NEW p, NEW kinds,
                 Start(r, [Idle EXCEPT !.at = at, !.pay = p], kinds)
          PROVE  OrderInv'
      <3>1. req' = [req EXCEPT ![r] = [Idle EXCEPT !.at = at, !.pay = p]]
        BY <2>5 DEF Start
      <3>2. req'[r].at = at /\ \A s \in Requests \ {r} : req'[s] = req[s]
        BY <1>0, <3>1 DEF RentTyped, Idle
      <3> QED
        BY <2>2, <2>5, <3>2
    <2>6. CASE Deliver(r)
      <3>1. PICK e \in events :
                \/ UNCHANGED req
                \/ \E kinds : Start(r, [Idle EXCEPT !.at = e[2], !.pay = e[1]], kinds)
        BY <2>6 DEF Deliver
      <3>2. e[2] \in RentPlaces \ Writing
        BY <1>0 DEF RentTyped, RentPlaces, Writing
      <3> QED
        BY <1>1, <2>1, <2>5, <3>1, <3>2
    <2>7. CASE Mark(r) \/ Throw(r) \/ AbortRefund(r)
      BY <2>3, <2>7 DEF Mark, Throw, AbortRefund
    <2>8. CASE Complete(r)
      BY <2>4, <2>8 DEF Complete, RentPlaces, Writing
    <2>9. CASE Refund(r)
      <3>1. PICK p \in Payments :
                Start(r, [Idle EXCEPT !.at = IF pay[p].id THEN "stripe" ELSE "reverse", !.pay = p], {})
        BY <2>9 DEF Refund
      <3>2. PICK at \in {"stripe", "reverse"} : at = IF pay[p].id THEN "stripe" ELSE "reverse"
        OBVIOUS
      <3> QED
        BY <2>5, <3>1, <3>2 DEF RentPlaces, Writing
    <2>10. CASE RefundAtStripe(r)
      BY <2>3, <2>4, <2>10 DEF RefundAtStripe, RentPlaces, Writing
    <2> QED
      BY <1>5, <2>6, <2>7, <2>8, <2>9, <2>10
  <1> QED
    BY <1>3, <1>4, <1>5, OrderKeptByPlans, OrderKeptByCommits, OrderKeptByWrite DEF Next

LEMMA OrderStarts == Init => OrderInv
  <1> SUFFICES ASSUME Init PROVE OrderInv
    OBVIOUS
  <1>1. Charges = {} /\ \A r \in Requests : req[r].at = "idle"
    BY DEF Init, Idle, Charges
  <1> QED
    BY <1>1 DEF OrderInv, OneAtATime, Fifo, CreditsInOrder, TakesInOrder

LEMMA OrderHolds == Spec => []OrderInv
  BY OrderStarts, OrderKept, ChargesHold, RefundHolds, PTL DEF Spec

-----------------------------------------------------------------------------
(* Two more facts about sums: what is added to some of its terms is added to  *)
(* the sum, and an amount handed out along a chain of sets is handed out whole *)
(* or covers the sum.                                                        *)

LEMMA SumNat ==
    ASSUME NEW f, NEW S, IsFiniteSet(S), \A x \in S : f[x] \in Nat
    PROVE  Total(f, S) \in Nat
  BY SumMore DEF Total

\* h is f with g added on T.
Adding(f, g, h, S, T) ==
    /\ IsFiniteSet(S) /\ T \in SUBSET S
    /\ \A x \in S : f[x] \in Nat
    /\ \A x \in T : g[x] \in Nat
    /\ \A x \in S : h[x] = IF x \in T THEN f[x] + g[x] ELSE f[x]

LEMMA SumAdded ==
    ASSUME NEW f, NEW g, NEW h, NEW S, NEW T, Adding(f, g, h, S, T)
    PROVE  /\ Total(f, S) \in Nat /\ Total(g, T) \in Nat
           /\ Total(h, S) = Total(f, S) + Total(g, T)
  <1> USE DEF Adding
  <1> DEFINE Adds(s) == Total(h, s) = Total(f, s) + Total(g, s \intersect T)
             Wrong == {s \in SUBSET S : ~Adds(s)}
  <1> HIDE DEF Adds
  <1>1. ASSUME NEW s \in SUBSET S
        PROVE  /\ IsFiniteSet(s) /\ IsFiniteSet(s \intersect T)
               /\ Total(f, s) \in Nat /\ Total(g, s \intersect T) \in Nat
               /\ \A x \in s : h[x] \in Int
    <2>1. IsFiniteSet(s) /\ IsFiniteSet(s \intersect T)
      BY FS_Subset
    <2>2. Total(f, s) \in Nat
      BY <2>1, SumNat
    <2>3. Total(g, s \intersect T) \in Nat
      BY <2>1, SumNat
    <2> QED
      BY <2>1, <2>2, <2>3
  <1>2. Wrong = {}
    <2> SUFFICES ASSUME Wrong # {} PROVE FALSE
      OBVIOUS
    <2>1. PICK s \in Wrong : \A t \in Wrong : Cardinality(s) <= Cardinality(t)
      BY SmallestOf
    <2>2. s \in SUBSET S /\ IsFiniteSet(s) /\ Cardinality(s) \in Nat
      BY <1>1, FS_CardinalityType
    <2>3. s # {}
      <3>1. {} \intersect T = {}
        OBVIOUS
      <3>2. Adds({})
        BY <3>1, SumEmpty DEF Adds, Total
      <3> QED
        BY <2>1, <3>2
    <2>4. PICK x \in s : TRUE
      BY <2>3
    <2>5. Cardinality(s \ {x}) = Cardinality(s) - 1
      BY <2>2, <2>4, FS_RemoveElement
    <2>6. s \ {x} \notin Wrong /\ s \ {x} \in SUBSET S
      BY <2>1, <2>2, <2>5
    <2>7. Adds(s \ {x})
      BY <2>6
    <2>8. PICK a \in Nat, b \in Nat :
              /\ a = Total(f, s \ {x}) /\ b = Total(g, (s \ {x}) \intersect T)
              /\ Total(h, s \ {x}) = a + b
      BY <1>1, <2>6, <2>7 DEF Adds
    <2>9. PICK d \in Nat, e \in Nat :
              d = f[x] /\ h[x] = d + e /\ Total(g, s \intersect T) = e + b
      <3>1. CASE x \in T
        <4>1. Total(g, s \intersect T) = g[x] + Total(g, (s \intersect T) \ {x})
          BY <1>1, <2>2, <2>4, <3>1, SumTake DEF Total
        <4>2. (s \intersect T) \ {x} = (s \ {x}) \intersect T
          OBVIOUS
        <4>3. f[x] \in Nat /\ g[x] \in Nat /\ h[x] = f[x] + g[x]
          BY <2>2, <2>4, <3>1
        <4>4. PICK d \in Nat, e \in Nat : d = f[x] /\ e = g[x]
          BY <4>3
        <4>5. h[x] = d + e /\ Total(g, s \intersect T) = e + b
          BY <2>8, <4>1, <4>2, <4>3, <4>4
        <4> QED
          BY <4>4, <4>5
      <3>2. CASE x \notin T
        <4>1. (s \ {x}) \intersect T = s \intersect T
          BY <3>2
        <4>2. PICK d \in Nat : d = f[x] /\ h[x] = d
          BY <2>2, <2>4, <3>2
        <4>3. Total(g, s \intersect T) = b
          BY <2>8, <4>1
        <4>4. d + 0 = d /\ 0 + b = b /\ 0 \in Nat
          OBVIOUS
        <4> QED
          BY <4>2, <4>3, <4>4
      <3> QED
        BY <3>1, <3>2
    <2>10. Total(f, s) = f[x] + Total(f, s \ {x})
      BY <2>2, <2>4, SumTake DEF Total
    <2>11. Total(h, s) = h[x] + Total(h, s \ {x})
      BY <1>1, <2>2, <2>4, SumTake DEF Total
    <2>12. Total(f, s) = d + a /\ Total(h, s) = (d + e) + (a + b)
      BY <2>8, <2>9, <2>10, <2>11
    <2>13. Total(h, s) = Total(f, s) + Total(g, s \intersect T)
      BY <2>9, <2>12
    <2> QED
      BY <2>1, <2>13 DEF Adds
  <1>3. Adds(S) /\ S \intersect T = T
    BY <1>2
  <1> QED
    BY <1>1, <1>3 DEF Adds

LEMMA SumZero ==
    ASSUME NEW f, NEW S, IsFiniteSet(S), \A x \in S : f[x] = 0
    PROVE  Total(f, S) = 0
  <1> DEFINE Wrong == {s \in SUBSET S : Total(f, s) # 0}
  <1> SUFFICES ASSUME Wrong # {} PROVE FALSE
    OBVIOUS
  <1>1. PICK s \in Wrong : \A t \in Wrong : Cardinality(s) <= Cardinality(t)
    BY SmallestOf
  <1>2. IsFiniteSet(s) /\ Cardinality(s) \in Nat /\ s \in SUBSET S
    BY FS_Subset, FS_CardinalityType
  <1>3. PICK x \in s : TRUE
    BY <1>1, SumEmpty DEF Total
  <1>4. Cardinality(s \ {x}) = Cardinality(s) - 1
    BY <1>2, <1>3, FS_RemoveElement
  <1>5. s \ {x} \notin Wrong
    BY <1>1, <1>2, <1>4
  <1>6. Total(f, s \ {x}) = 0
    BY <1>2, <1>5
  <1>7. Total(f, s) = f[x] + Total(f, s \ {x}) /\ f[x] = 0
    BY <1>2, <1>3, SumTake DEF Total
  <1> QED
    BY <1>1, <1>6, <1>7

\* An amount is handed out along a chain of sets, each one element larger: the
\* elements of D get what g says.
HandsOut(amount, f, S, Chain, D, g) ==
    /\ amount \in Nat /\ IsFiniteSet(S) /\ \A x \in S : f[x] \in Nat
    /\ D \in SUBSET S /\ Chain \in SUBSET SUBSET S /\ S \in Chain
    /\ \A T \in Chain : T # {} =>
        \E x \in T : /\ T \ {x} \in Chain
                     /\ x \in D <=> f[x] > 0 /\ amount - Total(f, T \ {x}) > 0
                     /\ x \in D => g[x] = Least(amount - Total(f, T \ {x}), f[x])
LEMMA HandedOut ==
    ASSUME NEW amount, NEW f, NEW S, NEW Chain, NEW D, NEW g, HandsOut(amount, f, S, Chain, D, g)
    PROVE  /\ Total(g, D) \in Nat /\ Total(f, S) \in Nat
           /\ Total(g, D) = Least(amount, Total(f, S))
  <1> DEFINE Whole(T) == /\ Total(g, T \intersect D) \in Nat
                         /\ Total(g, T \intersect D) = Least(amount, Total(f, T))
                         /\ \A x \in T \intersect D : g[x] \in Nat
             Wrong == {T \in Chain : ~Whole(T)}
  <1> HIDE DEF Whole
  <1>0. /\ amount \in Nat /\ IsFiniteSet(S) /\ \A x \in S : f[x] \in Nat
        /\ D \in SUBSET S /\ Chain \in SUBSET SUBSET S /\ S \in Chain
    BY DEF HandsOut
  <1> USE <1>0
  <1>1. ASSUME NEW T \in SUBSET S
        PROVE  IsFiniteSet(T) /\ IsFiniteSet(T \intersect D) /\ Total(f, T) \in Nat
    <2>1. IsFiniteSet(T) /\ IsFiniteSet(T \intersect D)
      BY FS_Subset
    <2> QED
      BY <2>1, SumNat
  <1>2. Wrong = {}
    <2> SUFFICES ASSUME Wrong # {} PROVE FALSE
      OBVIOUS
    <2>1. PICK T \in Wrong : \A U \in Wrong : Cardinality(T) <= Cardinality(U)
      <3>1. Wrong \in SUBSET SUBSET S
        OBVIOUS
      <3> QED
        BY <3>1, SmallestOf
    <2>2. T \in Chain /\ T \in SUBSET S /\ IsFiniteSet(T) /\ Cardinality(T) \in Nat
      BY <1>1, FS_CardinalityType
    <2>3. T # {}
      <3>1. {} \intersect D = {}
        OBVIOUS
      <3>2. Whole({})
        BY <3>1, SumEmpty DEF Whole, Total, Least
      <3> QED
        BY <2>1, <3>2
    <2>4. PICK x \in T : /\ T \ {x} \in Chain
                         /\ x \in D <=> f[x] > 0 /\ amount - Total(f, T \ {x}) > 0
                         /\ x \in D => g[x] = Least(amount - Total(f, T \ {x}), f[x])
      BY <2>2, <2>3 DEF HandsOut
    <2>5. Cardinality(T \ {x}) = Cardinality(T) - 1
      BY <2>2, <2>4, FS_RemoveElement
    <2>6. T \ {x} \notin Wrong /\ T \ {x} \in SUBSET S
      BY <2>1, <2>2, <2>5
    <2>7. Whole(T \ {x})
      BY <2>4, <2>6
    <2>8. PICK m \in Nat, k \in Nat :
              /\ m = Total(f, T \ {x}) /\ k = Total(g, (T \ {x}) \intersect D) /\ k = Least(amount, m)
              /\ \A y \in (T \ {x}) \intersect D : g[y] \in Nat
      BY <1>1, <2>6, <2>7 DEF Whole
    <2>9. PICK d \in Nat : d = f[x] /\ Total(f, T) = d + m
      BY <2>2, <2>4, <2>8, SumTake DEF Total
    <2>10. CASE x \in D
      <3>1. d > 0 /\ amount - m > 0 /\ g[x] = Least(amount - m, d)
        BY <2>4, <2>8, <2>9, <2>10
      <3>2. PICK e \in Nat : e = g[x] /\ e = Least(amount - m, d)
        BY <3>1 DEF Least
      <3>3. Total(g, T \intersect D) = g[x] + Total(g, (T \intersect D) \ {x})
        <4>1. ASSUME NEW y \in T \intersect D PROVE g[y] \in Int
          <5>0. g[x] \in Nat
            BY <3>2
          <5>1. CASE y = x
            BY <5>0, <5>1
          <5>2. CASE y # x
            BY <2>8, <5>2
          <5> QED
            BY <5>1, <5>2
        <4>2. x \in T \intersect D /\ IsFiniteSet(T \intersect D)
          BY <1>1, <2>2, <2>10
        <4> QED
          BY <4>1, <4>2, SumTake DEF Total
      <3>4. (T \intersect D) \ {x} = (T \ {x}) \intersect D
        OBVIOUS
      <3>5. Total(g, T \intersect D) = e + k
        BY <2>8, <3>2, <3>3, <3>4
      <3>6. e + k = Least(amount, d + m)
        BY <2>8, <3>1, <3>2 DEF Least
      <3>7. \A y \in T \intersect D : g[y] \in Nat
        BY <2>8, <3>2
      <3>8. e + k \in Nat /\ Total(g, T \intersect D) = Least(amount, Total(f, T))
        BY <2>9, <3>5, <3>6
      <3>9. Whole(T)
        BY <3>5, <3>7, <3>8 DEF Whole
      <3> QED
        BY <2>1, <3>9
    <2>11. CASE x \notin D
      <3>1. T \intersect D = (T \ {x}) \intersect D
        BY <2>11
      <3>2. d = 0 \/ amount - m <= 0
        BY <2>4, <2>8, <2>9, <2>11
      <3>3. k = Least(amount, d + m)
        BY <2>8, <3>2 DEF Least
      <3>4. Whole(T)
        BY <2>8, <2>9, <3>1, <3>3 DEF Whole
      <3> QED
        BY <2>1, <3>4
    <2> QED
      BY <2>10, <2>11
  <1>3. Whole(S) /\ S \intersect D = D
    BY <1>2
  <1> QED
    BY <1>1, <1>3 DEF Whole

-----------------------------------------------------------------------------
(* What a plan gives the charges in all, or takes from them.                  *)

Given(plan) == [i \in DOMAIN plan |-> plan[i].paid - ledger[i].paid]
Taken(plan) == [i \in DOMAIN plan |-> ledger[i].paid - plan[i].paid]

LEMMA GreatestOf ==
    ASSUME NEW n \in Nat, NEW T \in SUBSET (1 .. n), T # {}
    PROVE  \E i \in T : \A j \in T : j <= i
  <1> DEFINE Back == {n - i : i \in T}
  <1>1. Back \in SUBSET Nat /\ Back # {}
    <2>1. \A i \in T : n - i \in Nat
      OBVIOUS
    <2> QED
      BY <2>1
  <1>2. PICK m \in Back : \A k \in Back : m <= k
    BY <1>1, LeastOf
  <1>3. PICK i \in T : m = n - i
    BY <1>2
  <1>4. \A j \in T : n - i <= n - j
    BY <1>2, <1>3
  <1> QED
    BY <1>4

LEMMA CreditSum ==
    ASSUME LedgerSound, NEW amount \in Nat, NEW plan, plan = Credit(amount)
    PROVE  /\ Total(Owed, Open) \in Nat /\ Total(Given(plan), DOMAIN plan) \in Nat
           /\ Total(Given(plan), DOMAIN plan) = Least(amount, Total(Owed, Open))
  <1> DEFINE left(i) == amount - Total(Owed, {j \in Open : j < i})
             Chain == {T \in SUBSET Open : \A i \in T, j \in Open : j < i => j \in T}
             D == DOMAIN plan
             g == Given(plan)
  <1>1. PICK n \in Nat : Charges = 1 .. n /\ Open \subseteq 1 .. n /\ IsFiniteSet(Open)
    <2>1. Open \subseteq Charges
      BY DEF Open
    <2> QED
      BY <2>1, Accounts, FS_Subset
  <1>2. \A i \in Open : Owed[i] \in Nat /\ Owed[i] > 0
    <2>1. \A i \in Open : i \in Charges
      BY DEF Open
    <2>2. \A i \in Open : Owed[i] \in Nat /\ Owed[i] # 0
      BY <2>1, Accounts
    <2> QED
      BY <2>2
  <1>3. /\ D = {j \in Open : left(j) > 0}
        /\ \A i \in D : plan[i] = With(i, Paid[i] + Least(left(i), Owed[i]))
    BY DEF Credit
  <1>4. ASSUME NEW i \in Open PROVE left(i) \in Int
    <2>1. IsFiniteSet({j \in Open : j < i}) /\ \A j \in {k \in Open : k < i} : Owed[j] \in Nat
      BY <1>1, <1>2, FS_Subset
    <2>2. Total(Owed, {j \in Open : j < i}) \in Nat
      BY <2>1, SumNat
    <2> QED
      BY <2>2
  <1>5. ASSUME NEW i \in D PROVE g[i] = Least(left(i), Owed[i])
    <2>1. /\ i \in Open /\ i \in Charges /\ left(i) \in Int /\ left(i) > 0 /\ Owed[i] \in Nat
          /\ Paid[i] = ledger[i].paid /\ Paid[i] \in Nat
          /\ Owed[i] = ledger[i].amount - ledger[i].paid
          /\ ledger[i].amount \in Nat
      BY <1>1, <1>3, <1>4, Accounts DEF LedgerSound, Sound, ChargeRow
    <2>2. PICK k \in Int : k = left(i)
      BY <2>1
    <2>3. PICK m : m = Least(k, Owed[i])
      OBVIOUS
    <2>4. m \in Nat /\ m <= Owed[i]
      BY <2>1, <2>2, <2>3 DEF Least
    <2>5. PICK v \in Nat : v = Paid[i] + m /\ v <= ledger[i].amount
      BY <2>1, <2>4
    <2>6. With(i, v).paid = v
      BY <2>1, <2>5, WithSound
    <2>7. plan[i].paid = v
      BY <1>3, <2>2, <2>3, <2>5, <2>6
    <2>8. g[i] = plan[i].paid - ledger[i].paid
      BY DEF Given
    <2> HIDE DEF left, g
    <2>9. g[i] = m
      BY <2>1, <2>4, <2>5, <2>7, <2>8
    <2> QED
      BY <2>2, <2>3, <2>9
  <1>6. Open \in Chain /\ Chain \in SUBSET SUBSET Open
    OBVIOUS
  <1>7. ASSUME NEW T \in Chain, T # {}
        PROVE  \E x \in T : /\ T \ {x} \in Chain
                            /\ x \in D <=> Owed[x] > 0 /\ amount - Total(Owed, T \ {x}) > 0
                            /\ x \in D => g[x] = Least(amount - Total(Owed, T \ {x}), Owed[x])
    <2>1. T \in SUBSET (1 .. n) /\ T \subseteq Open
      BY <1>1
    <2>2. PICK x \in T : \A j \in T : j <= x
      BY <1>7, <2>1, GreatestOf
    <2>3. T \ {x} = {j \in Open : j < x}
      <3>1. x \in Nat /\ \A j \in T : j \in Nat /\ j \in Open
        BY <1>1, <2>1
      <3>2. \A j \in T : j # x => j < x
        BY <2>2, <3>1
      <3>3. \A j \in Open : j < x => j \in T /\ j # x
        BY <3>1
      <3> QED
        BY <3>1, <3>2, <3>3
    <2>4. T \ {x} \in Chain
      BY <1>1, <2>1, <2>2
    <2>5. x \in Open /\ Owed[x] > 0
      BY <1>2, <2>1
    <2> HIDE DEF Chain, g, D
    <2>6. (x \in D <=> left(x) > 0) /\ (x \in D => g[x] = Least(left(x), Owed[x]))
      BY <1>3, <1>5, <2>5
    <2>7. left(x) = amount - Total(Owed, T \ {x})
      BY <2>3
    <2> HIDE DEF left
    <2> QED
      BY <2>4, <2>5, <2>6, <2>7
  <1>8. D \in SUBSET Open /\ \A x \in Open : Owed[x] \in Nat
    BY <1>2, <1>3
  <1> HIDE DEF Chain, g, D, left
  <1>0. HandsOut(amount, Owed, Open, Chain, D, g)
    BY <1>1, <1>6, <1>7, <1>8 DEF HandsOut
  <1>9. /\ Total(g, D) \in Nat /\ Total(Owed, Open) \in Nat
        /\ Total(g, D) = Least(amount, Total(Owed, Open))
    BY <1>0, HandedOut
  <1> QED
    BY <1>9 DEF g, D

LEMMA ReversalSum ==
    ASSUME LedgerSound, NEW amount \in Nat, NEW plan, plan = Reversal(amount)
    PROVE  /\ Credited \in Nat /\ Total(Taken(plan), DOMAIN plan) \in Nat
           /\ Total(Taken(plan), DOMAIN plan) = Least(amount, Credited)
  <1> DEFINE left(i) == amount - Total(Paid, {j \in Charges : j > i})
             Chain == {T \in SUBSET Charges : \A i \in T, j \in Charges : j > i => j \in T}
             D == DOMAIN plan
             g == Taken(plan)
  <1>1. Charges \subseteq Nat /\ IsFiniteSet(Charges) /\ \A i \in Charges : Paid[i] \in Nat
    BY Accounts
  <1>2. /\ D = {j \in Charges : Paid[j] > 0 /\ left(j) > 0}
        /\ \A i \in D : plan[i] = With(i, Paid[i] - Least(left(i), Paid[i]))
    BY DEF Reversal
  <1>3. ASSUME NEW i \in Charges PROVE left(i) \in Int
    <2>1. IsFiniteSet({j \in Charges : j > i}) /\ \A j \in {k \in Charges : k > i} : Paid[j] \in Nat
      BY <1>1, FS_Subset
    <2>2. Total(Paid, {j \in Charges : j > i}) \in Nat
      BY <2>1, SumNat
    <2> QED
      BY <2>2
  <1>4. ASSUME NEW i \in D PROVE g[i] = Least(left(i), Paid[i])
    <2>1. /\ i \in Charges /\ left(i) \in Int /\ left(i) > 0
          /\ Paid[i] = ledger[i].paid /\ Paid[i] \in Nat
          /\ ledger[i].amount \in Nat /\ ledger[i].paid <= ledger[i].amount
      BY <1>2, <1>3, Accounts DEF LedgerSound, Sound, ChargeRow
    <2>2. PICK k \in Int : k = left(i)
      BY <2>1
    <2>3. PICK m : m = Least(k, Paid[i])
      OBVIOUS
    <2>4. m \in Nat /\ m <= Paid[i]
      BY <2>1, <2>2, <2>3 DEF Least
    <2>5. PICK v \in Nat : v = Paid[i] - m /\ v <= ledger[i].amount
      BY <2>1, <2>4
    <2>6. With(i, v).paid = v
      BY <2>1, <2>5, WithSound
    <2>7. plan[i].paid = v
      BY <1>2, <2>2, <2>3, <2>5, <2>6
    <2>8. g[i] = ledger[i].paid - plan[i].paid
      BY DEF Taken
    <2> HIDE DEF left, g
    <2>9. g[i] = m
      BY <2>1, <2>4, <2>5, <2>7, <2>8
    <2> QED
      BY <2>2, <2>3, <2>9
  <1>5. Charges \in Chain /\ Chain \in SUBSET SUBSET Charges
    OBVIOUS
  <1>6. ASSUME NEW T \in Chain, T # {}
        PROVE  \E x \in T : /\ T \ {x} \in Chain
                            /\ x \in D <=> Paid[x] > 0 /\ amount - Total(Paid, T \ {x}) > 0
                            /\ x \in D => g[x] = Least(amount - Total(Paid, T \ {x}), Paid[x])
    <2>1. T \in SUBSET Nat /\ T \subseteq Charges
      BY <1>1
    <2>2. PICK x \in T : \A j \in T : x <= j
      BY <1>6, <2>1, LeastOf
    <2>3. T \ {x} = {j \in Charges : j > x}
      <3>1. x \in Nat /\ \A j \in T : j \in Nat /\ j \in Charges
        BY <1>1, <2>1
      <3>2. \A j \in T : j # x => j > x
        BY <2>2, <3>1
      <3>3. \A j \in Charges : j > x => j \in T /\ j # x
        BY <3>1
      <3> QED
        BY <3>1, <3>2, <3>3
    <2>4. T \ {x} \in Chain
      BY <1>1, <2>1, <2>2
    <2>5. x \in Charges
      BY <2>1
    <2> HIDE DEF Chain, g, D
    <2>6. (x \in D <=> Paid[x] > 0 /\ left(x) > 0) /\ (x \in D => g[x] = Least(left(x), Paid[x]))
      BY <1>2, <1>4, <2>5
    <2>7. left(x) = amount - Total(Paid, T \ {x})
      BY <2>3
    <2> HIDE DEF left
    <2> QED
      BY <2>4, <2>6, <2>7
  <1>7. D \in SUBSET Charges
    BY <1>2
  <1> HIDE DEF Chain, g, D, left
  <1>0. HandsOut(amount, Paid, Charges, Chain, D, g)
    BY <1>1, <1>5, <1>6, <1>7 DEF HandsOut
  <1>8. /\ Total(g, D) \in Nat /\ Total(Paid, Charges) \in Nat
        /\ Total(g, D) = Least(amount, Total(Paid, Charges))
    BY <1>0, HandedOut
  <1> QED
    BY <1>8 DEF g, D, Credited

-----------------------------------------------------------------------------
(* What completed payments brought in.                                        *)

LEMMA SumChanged ==
    ASSUME NEW f, NEW g, NEW S, IsFiniteSet(S), NEW a \in S,
           \A x \in S : f[x] \in Nat, \A x \in S : g[x] \in Nat, \A x \in S \ {a} : g[x] = f[x]
    PROVE  /\ Total(f, S) \in Nat /\ Total(g, S) \in Nat
           /\ Total(g, S) + f[a] = Total(f, S) + g[a]
  <1>1. IsFiniteSet(S \ {a})
    BY FS_Subset
  <1>2. PICK m \in Nat : m = Total(f, S \ {a})
    BY <1>1, SumNat
  <1>3. Total(g, S \ {a}) = m
    BY <1>1, <1>2, SumAgree DEF Total
  <1>4. Total(f, S) = f[a] + Total(f, S \ {a})
    BY SumTake DEF Total
  <1>5. Total(g, S) = g[a] + Total(g, S \ {a})
    BY SumTake DEF Total
  <1>6. PICK d \in Nat, e \in Nat : d = f[a] /\ e = g[a]
    OBVIOUS
  <1>7. Total(f, S) = d + m /\ Total(g, S) = e + m
    BY <1>2, <1>3, <1>4, <1>5, <1>6
  <1>8. PICK v, w : v = Total(f, S) /\ w = Total(g, S)
    OBVIOUS
  <1>9. v \in Nat /\ w \in Nat /\ w + d = v + e
    BY <1>7, <1>8
  <1> QED
    BY <1>6, <1>8, <1>9

Income    == [p \in Payments |-> IF pay[p].status = "completed" THEN pay[p].amount ELSE 0]
Completed == {p \in Payments : pay[p].status = "completed"}

IncomeTyped == \A p \in Payments : Income[p] \in Nat /\ pay[p].amount \in Nat
LEMMA IncomeIsNat == RentTyped => IncomeTyped
  <1> SUFFICES ASSUME RentTyped, NEW p \in Payments PROVE Income[p] \in Nat /\ pay[p].amount \in Nat
    BY DEF IncomeTyped
  <1>1. pay[p] \in PaymentRow
    BY DEF RentTyped
  <1>2. pay[p].amount \in Amounts \union {0}
    BY <1>1 DEF PaymentRow
  <1>3. ASSUME NEW n, n \in Amounts \union {0} PROVE n \in Nat
    BY <1>3, Money
  <1>4. pay[p].amount \in Nat
    BY <1>2, <1>3
  <1> QED
    BY <1>4 DEF Income

ReceivedTyped == Received = Total(Income, Payments) /\ Received \in Nat
LEMMA ReceivedIs == RentTyped => ReceivedTyped
  <1> SUFFICES ASSUME RentTyped PROVE ReceivedTyped
    OBVIOUS
  <1>1. PICK amount : amount = [p \in Payments |-> pay[p].amount]
    OBVIOUS
  <1>2. Received = Total(amount, Completed)
    BY <1>1 DEF Received, Completed
  <1>3. PICK zero : zero = [p \in Payments |-> 0]
    OBVIOUS
  <1>4. /\ Completed \in SUBSET Payments /\ IsFiniteSet(Payments)
        /\ \A p \in Payments : zero[p] = 0
        /\ \A p \in Payments : zero[p] \in Nat
        /\ \A p \in Completed : amount[p] \in Nat
        /\ \A p \in Payments : Income[p] = IF p \in Completed THEN zero[p] + amount[p] ELSE zero[p]
    <2>1. \A p \in Payments : zero[p] = 0 /\ amount[p] = pay[p].amount /\ amount[p] \in Nat
      BY <1>1, <1>3, IncomeIsNat DEF IncomeTyped
    <2>2. \A p \in Payments : 0 + amount[p] = amount[p]
      BY <2>1
    <2> QED
      BY <2>1, <2>2, PaymentsFinite DEF Income, Completed
  <1>5. /\ Total(zero, Payments) \in Nat /\ Total(amount, Completed) \in Nat
        /\ Total(Income, Payments) = Total(zero, Payments) + Total(amount, Completed)
    <2>1. Adding(zero, amount, Income, Payments, Completed)
      BY <1>4 DEF Adding
    <2> QED
      BY <2>1, SumAdded
  <1>6. Total(zero, Payments) = 0
    BY <1>4, SumZero
  <1> QED
    BY <1>2, <1>5, <1>6 DEF ReceivedTyped

\* It changes with one payment.
LEMMA ReceivedChanges ==
    ASSUME RentTyped, RentTyped', NEW p \in Payments, \A q \in Payments \ {p} : pay'[q] = pay[q]
    PROVE  /\ Received \in Nat /\ Received' \in Nat /\ Income[p] \in Nat /\ Income'[p] \in Nat
           /\ Received' + Income[p] = Received + Income'[p]
  <1>1. \A q \in Payments : Income[q] \in Nat /\ Income'[q] \in Nat
    <2>1. IncomeTyped /\ IncomeTyped'
      BY IncomeIsNat, PTL
    <2> QED
      BY <2>1 DEF IncomeTyped
  <1>2. \A q \in Payments \ {p} : Income'[q] = Income[q]
    BY DEF Income
  <1>3. PICK f, g : f = Income /\ g = Income'
    OBVIOUS
  <1>4. Total(g, Payments) + f[p] = Total(f, Payments) + g[p]
    BY <1>1, <1>2, <1>3, SumChanged, PaymentsFinite
  <1>5. /\ Received = Total(Income, Payments) /\ Received \in Nat
        /\ Received' = Total(Income', Payments) /\ Received' \in Nat
    <2>1. ReceivedTyped /\ ReceivedTyped'
      BY ReceivedIs, PTL
    <2> QED
      BY <2>1 DEF ReceivedTyped, Total
  <1> QED
    BY <1>1, <1>3, <1>4, <1>5

LEMMA ReceivedSame ==
    ASSUME RentTyped, RentTyped',
           \A q \in Payments : pay[q].status = "completed" \/ pay'[q].status = "completed" =>
               /\ pay[q].status = "completed" /\ pay'[q].status = "completed"
               /\ pay'[q].amount = pay[q].amount
    PROVE  Received' = Received /\ Received \in Nat
  <1>1. \A q \in Payments : Income'[q] = Income[q]
    BY DEF Income
  <1>2. PICK f, g : f = Income /\ g = Income'
    OBVIOUS
  <1>3. Total(g, Payments) = Total(f, Payments)
    BY <1>1, <1>2, SumAgree, PaymentsFinite DEF Total
  <1>4. /\ Received = Total(Income, Payments) /\ Received \in Nat
        /\ Received' = Total(Income', Payments)
    <2>1. ReceivedTyped /\ ReceivedTyped'
      BY ReceivedIs, PTL
    <2> QED
      BY <2>1 DEF ReceivedTyped, Total
  <1> QED
    BY <1>2, <1>3, <1>4

-----------------------------------------------------------------------------
(* Races of payments.  B bounds what each charge holds or is about to hold;    *)
(* the bounds, and what is still to be read, are covered by what came in.      *)

Calm    == Without({"duplicate", "regressed", "refund_race"})
Reading == [r \in Requests |-> IF req[r].at = "read" THEN pay[req[r].pay].amount ELSE 0]
Ends(r) == Total([i \in Charges |-> After(r, i).paid], Charges)

\* An offline payment adds no more than its amount to what B allows.
AddsTo(B, r) ==
    \E G \in [DOMAIN req[r].plan -> Nat] :
        /\ Total(G, DOMAIN req[r].plan) <= req[r].amount
        /\ \A i \in DOMAIN req[r].plan : req[r].plan[i].paid <= B[i] + G[i]
Within(B, r) ==
    /\ req[r].at = "write" => \A i \in DOMAIN req[r].plan : req[r].plan[i].paid <= B[i]
    /\ req[r].at = "commit" => AddsTo(B, r)
Backs(B) ==
    /\ B \in [Charges -> Nat]
    /\ \A i \in Charges : ledger[i].paid <= B[i]
    /\ \A r \in Requests : Within(B, r)
    /\ Total(B, Charges) + Total(Reading, Requests) <= Received

\* A refund runs alone, and takes its payment's amount, or all there is.
RefundAlone(r) ==
    req[r].at \in RefundPlaces =>
        /\ pay[req[r].pay].status = "completed"
        /\ \A s \in Requests \ {r} : req[s].at = "idle"
TakesEnough(r) ==
    req[r].at = "commit_refund" =>
        Ends(r) = 0 \/ Ends(r) + pay[req[r].pay].amount <= Received
RaceInv ==
    Calm => (\E B : Backs(B)) /\ \A r \in Requests : RefundAlone(r) /\ TakesEnough(r)

ReadingTyped == \A r \in Requests : Reading[r] \in Nat
LEMMA ReadingIsNat == RefundInv => ReadingTyped
  BY AmountIsNat DEF Reading, ReadingTyped

\* The bounds are natural numbers, and so are their sums.
LEMMA SumsOf ==
    ASSUME ChargeInv, RefundInv, NEW B, Backs(B)
    PROVE  /\ Total(B, Charges) \in Nat /\ Total(Reading, Requests) \in Nat /\ Received \in Nat
           /\ Credited \in Nat /\ Credited <= Total(B, Charges)
           /\ Credited <= Received
  <1>1. LedgerSound /\ IsFiniteSet(Charges) /\ \A i \in Charges : Paid[i] = ledger[i].paid /\ Paid[i] \in Nat
    BY Accounts DEF ChargeInv
  <1>2. \A i \in Charges : B[i] \in Nat /\ Paid[i] <= B[i]
    BY <1>1 DEF Backs
  <1>3. Total(Paid, Charges) \in Nat /\ Total(B, Charges) \in Nat
        /\ Total(Paid, Charges) <= Total(B, Charges)
    BY <1>1, <1>2, SumMore DEF Total
  <1>4. Total(Reading, Requests) \in Nat
    BY ReadingIsNat, RequestsFinite, SumNat DEF ReadingTyped
  <1>5. Received \in Nat
    BY ReceivedIs DEF ReceivedTyped, RefundInv
  <1>6. Total(B, Charges) + Total(Reading, Requests) <= Received
    BY DEF Backs
  <1> QED
    BY <1>3, <1>4, <1>5, <1>6 DEF Credited

LEMMA RacesStand == ChargeInv /\ RefundInv /\ RaceInv => (Calm => Credited <= Received)
  BY SumsOf DEF RaceInv

\* Nothing the sums are of changes but requests that end, start or move on.
LEMMA RaceStill ==
    ASSUME RaceInv, RefundInv, RefundInv', ChargeInv, UNCHANGED ledger, upset \subseteq upset',
           Calm' => Received' = Received,
           \A s \in Requests :
               \/ req'[s].at \notin {"read"} \union Writing
               \/ /\ req'[s] = req[s]
                  /\ req[s].at \in {"read", "commit_refund"} => pay'[req[s].pay].amount = pay[req[s].pay].amount,
           Calm' => \A s \in Requests : RefundAlone(s)'
    PROVE  RaceInv'
  <1> SUFFICES ASSUME Calm'
               PROVE  (\E B : Backs(B)') /\ \A r \in Requests : RefundAlone(r)' /\ TakesEnough(r)'
    BY DEF RaceInv
  <1>1. Calm
    BY DEF Calm, Without
  <1>2. PICK B : Backs(B)
    BY <1>1 DEF RaceInv
  <1>3. Charges' = Charges
    BY DEF Charges
  <1>4. \A r \in Requests : Reading[r] \in Nat /\ Reading'[r] \in Nat /\ Reading'[r] <= Reading[r]
    <2>1. ReadingTyped /\ ReadingTyped'
      BY ReadingIsNat, PTL
    <2>2. \A r \in Requests : Reading[r] \in Nat /\ Reading'[r] \in Nat
      BY <2>1 DEF ReadingTyped
    <2>3. \A r \in Requests : Reading'[r] = Reading[r] \/ Reading'[r] = 0
      BY DEF Reading
    <2> QED
      BY <2>2, <2>3
  <1>5. PICK f, g : f = Reading /\ g = Reading'
    OBVIOUS
  <1>6. /\ Total(g, Requests) \in Nat /\ Total(f, Requests) \in Nat
        /\ Total(g, Requests) <= Total(f, Requests)
    BY <1>4, <1>5, RequestsFinite, SumMore DEF Total
  <1>7. Total(B, Charges) + Total(g, Requests) <= Received
    BY <1>2, <1>5, <1>6, SumsOf DEF Backs
  <1>8. \A r \in Requests : Within(B, r)'
    BY <1>2 DEF Backs, Within, AddsTo, Writing
  <1>9. Backs(B)'
    BY <1>2, <1>3, <1>5, <1>7, <1>8 DEF Backs, Total
  <1>10. ASSUME NEW r \in Requests PROVE TakesEnough(r)'
    <2> SUFFICES ASSUME req'[r].at = "commit_refund"
                 PROVE  Ends(r)' = 0 \/ Ends(r)' + pay'[req'[r].pay].amount <= Received'
      BY DEF TakesEnough
    <2>1. req'[r] = req[r] /\ pay'[req[r].pay].amount = pay[req[r].pay].amount
      BY DEF Writing
    <2>2. Ends(r)' = Ends(r)
      BY <1>3, <2>1 DEF Ends, After, Total
    <2> QED
      BY <1>1, <2>1, <2>2 DEF RaceInv, TakesEnough
  <1> QED
    BY <1>9, <1>10

\* A charge more, with nothing paid, leaves the sums alone.
LEMMA SumExtended ==
    ASSUME NEW f, NEW g, NEW S, IsFiniteSet(S), NEW a, a \notin S,
           \A x \in S : f[x] \in Nat, \A x \in S : g[x] = f[x], g[a] = 0
    PROVE  Total(g, S \union {a}) = Total(f, S)
  <1>1. IsFiniteSet(S \union {a}) /\ \A x \in S \union {a} : g[x] \in Int
    BY FS_AddElement
  <1>2. Total(g, S \union {a}) = g[a] + Total(g, (S \union {a}) \ {a})
    BY <1>1, SumTake DEF Total
  <1>3. (S \union {a}) \ {a} = S
    OBVIOUS
  <1>4. Total(g, S) = Total(f, S)
    BY SumAgree DEF Total
  <1>5. PICK m \in Nat : m = Total(f, S)
    BY SumNat
  <1> QED
    BY <1>2, <1>3, <1>4, <1>5

LEMMA Posted ==
    ASSUME LedgerSound, NEW type, NEW amount, NEW month,
           ledger' = Append(ledger, Charge(type, amount, month))
    PROVE  \E a : /\ a \notin Charges /\ Charges' = Charges \union {a}
                  /\ ledger'[a].paid = 0 /\ \A i \in Charges : ledger'[i] = ledger[i]
  <1>1. PICK n \in Nat : n = Len(ledger) /\ Charges = 1 .. n
    BY Accounts
  <1>2. PICK new : new = Charge(type, amount, month)
    OBVIOUS
  <1>3. new.paid = 0
    BY <1>2 DEF Charge
  <1>4. ledger \in Seq(ChargeRow) /\ ledger' = Append(ledger, new)
    BY <1>2 DEF LedgerSound
  <1>5. /\ Charges' = 1 .. (n + 1)
        /\ \A i \in Charges : ledger'[i] = ledger[i]
        /\ ledger'[n + 1] = new
    BY <1>1, <1>4, AppendProperties DEF Charges
  <1>6. 1 .. (n + 1) = (1 .. n) \union {n + 1} /\ n + 1 \notin 1 .. n
    OBVIOUS
  <1> QED
    BY <1>1, <1>3, <1>5, <1>6

\* What a request is about to leave is what its plan says, or what is there.
LEMMA AfterIs ==
    ASSUME ChargeInv, NEW r \in Requests, req[r].at \in Writing
    PROVE  /\ DOMAIN req[r].plan \subseteq Charges
           /\ \A i \in Charges : After(r, i).paid \in Nat
           /\ \A i \in DOMAIN req[r].plan : req[r].plan[i].paid \in Nat
  <1>1. PlanSound(r) /\ LedgerSound
    BY DEF ChargeInv
  <1>2. /\ DOMAIN req[r].plan \subseteq Charges
        /\ \A i \in DOMAIN req[r].plan : Sound(req[r].plan[i])
        /\ \A i \in Charges : Sound(ledger[i])
    BY <1>1 DEF PlanSound, LedgerSound
  <1> QED
    BY <1>2 DEF After, Sound, ChargeRow

LEMMA EndsPosted ==
    ASSUME ChargeInv, NEW type, NEW amount, NEW month,
           ledger' = Append(ledger, Charge(type, amount, month)), UNCHANGED req
    PROVE  /\ Credited' = Credited
           /\ \A r \in Requests : req[r].at \in Writing => Ends(r)' = Ends(r)
  <1>1. LedgerSound /\ IsFiniteSet(Charges)
        /\ \A i \in Charges : Paid[i] \in Nat /\ Paid[i] = ledger[i].paid
    BY Accounts DEF ChargeInv
  <1>2. PICK a : /\ a \notin Charges /\ Charges' = Charges \union {a}
                 /\ ledger'[a].paid = 0 /\ \A i \in Charges : ledger'[i] = ledger[i]
    BY <1>1, Posted
  <1>3. Credited' = Credited
    <2>1. PICK f, g : f = Paid /\ g = Paid'
      OBVIOUS
    <2>2. /\ \A x \in Charges : f[x] \in Nat
          /\ \A x \in Charges : g[x] = f[x]
          /\ g[a] = 0
      BY <1>1, <1>2, <2>1 DEF Paid
    <2>3. Total(g, Charges \union {a}) = Total(f, Charges)
      BY <1>1, <1>2, <2>2, SumExtended
    <2> QED
      BY <1>2, <2>1, <2>3 DEF Credited, Total
  <1>4. ASSUME NEW r \in Requests, req[r].at \in Writing PROVE Ends(r)' = Ends(r)
    <2>1. PICK f, g : f = [i \in Charges |-> After(r, i).paid] /\ g = [i \in Charges' |-> After(r, i)'.paid]
      OBVIOUS
    <2>2. a \notin DOMAIN req[r].plan
      BY <1>2, <1>4, AfterIs
    <2>3. /\ \A x \in Charges : f[x] \in Nat
          /\ \A x \in Charges : g[x] = f[x]
          /\ g[a] = 0
      BY <1>2, <1>4, <2>1, <2>2, AfterIs DEF After
    <2>4. Total(g, Charges \union {a}) = Total(f, Charges)
      BY <1>1, <1>2, <2>3, SumExtended
    <2> QED
      BY <1>2, <2>1, <2>4 DEF Ends, Total
  <1> QED
    BY <1>3, <1>4

LEMMA RacePosted ==
    ASSUME RaceInv, RefundInv, ChargeInv, NEW type, NEW amount, NEW month,
           ledger' = Append(ledger, Charge(type, amount, month)), UNCHANGED <<pay, req, upset>>
    PROVE  RaceInv'
  <1> SUFFICES ASSUME Calm
               PROVE  (\E B : Backs(B)') /\ \A r \in Requests : RefundAlone(r)' /\ TakesEnough(r)'
    BY DEF RaceInv, Calm, Without
  <1>1. PICK B : Backs(B)
    BY DEF RaceInv
  <1>2. LedgerSound /\ IsFiniteSet(Charges)
    BY Accounts DEF ChargeInv
  <1>3. PICK a : /\ a \notin Charges /\ Charges' = Charges \union {a}
                 /\ ledger'[a].paid = 0 /\ \A i \in Charges : ledger'[i] = ledger[i]
    BY <1>2, Posted
  <1>4. PICK C : C = [i \in Charges' |-> IF i \in Charges THEN B[i] ELSE 0]
    OBVIOUS
  <1>5. /\ C \in [Charges' -> Nat] /\ C[a] = 0
        /\ \A x \in Charges : B[x] \in Nat
        /\ \A x \in Charges : C[x] = B[x]
    BY <1>1, <1>3, <1>4 DEF Backs
  <1>6. Total(C, Charges') = Total(B, Charges)
    <2>1. Total(C, Charges \union {a}) = Total(B, Charges)
      BY <1>2, <1>3, <1>5, SumExtended
    <2> QED
      BY <1>3, <2>1
  <1>7. Received' = Received /\ Reading' = Reading
    BY DEF Received, Reading, Total
  <1>8. \A i \in Charges' : ledger'[i].paid <= C[i]
    <2>1. \A i \in Charges : ledger'[i].paid <= C[i]
      BY <1>1, <1>3, <1>5 DEF Backs
    <2>2. 0 <= 0 /\ ledger'[a].paid = 0 /\ C[a] = 0
      BY <1>3, <1>5
    <2>3. ledger'[a].paid <= C[a]
      BY <2>2
    <2> QED
      BY <1>3, <2>1, <2>3
  <1>9. ASSUME NEW r \in Requests PROVE Within(C, r)'
    <2>1. Within(B, r)
      BY <1>1 DEF Backs
    <2>2. req[r].at \in Writing => \A i \in DOMAIN req[r].plan : i \in Charges /\ C[i] = B[i]
      BY <1>5, AfterIs
    <2> QED
      BY <2>1, <2>2 DEF Within, AddsTo, Writing, Total
  <1>10. Backs(C)'
    BY <1>1, <1>5, <1>6, <1>7, <1>8, <1>9 DEF Backs, Total
  <1>11. ASSUME NEW r \in Requests PROVE RefundAlone(r)' /\ TakesEnough(r)'
    <2>1. RefundAlone(r) /\ TakesEnough(r) /\ (req[r].at = "commit_refund" => Ends(r)' = Ends(r))
      BY EndsPosted DEF RaceInv, Writing
    <2> QED
      BY <1>7, <2>1 DEF RefundAlone, TakesEnough
  <1> QED
    BY <1>10, <1>11

\* Beside any other request that runs there is no refund.
LEMMA NoRefundBeside ==
    ASSUME RaceInv, RefundInv, NEW r \in Requests, upset \subseteq upset', Calm',
           \A s \in Requests \ {r} : req'[s] = req[s], req'[r].at \notin RefundPlaces,
           \/ req[r].at \notin {"idle"} \union RefundPlaces
           \/ \E new, kinds : Start(r, new, kinds)
    PROVE  Calm /\ \A s \in Requests : req'[s].at \notin RefundPlaces
  <1>1. Calm
    BY DEF Calm, Without
  <1>2. ASSUME NEW s \in Requests \ {r} PROVE req[s].at \notin RefundPlaces
    <2>1. CASE req[r].at \notin {"idle"} \union RefundPlaces
      BY <1>1, <2>1 DEF RaceInv, RefundAlone
    <2>2. ASSUME NEW new, NEW kinds, Start(r, new, kinds) PROVE Refunding = {}
      BY <2>2 DEF Start, Happens, Calm, Without
    <2> QED
      BY <2>1, <2>2 DEF Refunding, RefundPlaces
  <1> QED
    BY <1>1, <1>2

LEMMA RaceBacked ==
    ASSUME Calm' => (\E B : Backs(B)') /\ \A s \in Requests : req'[s].at \notin RefundPlaces
    PROVE  RaceInv'
  BY DEF RaceInv, RefundAlone, TakesEnough, RefundPlaces

\* Larger bounds still hold what is planned.
LEMMA WithinMore ==
    ASSUME ChargeInv, NEW r \in Requests, NEW B \in [Charges -> Nat], NEW C \in [Charges -> Nat],
           \A i \in Charges : B[i] <= C[i], Within(B, r)
    PROVE  Within(C, r)
  <1>1. CASE req[r].at = "write"
    <2>1. /\ DOMAIN req[r].plan \subseteq Charges
          /\ \A i \in DOMAIN req[r].plan : req[r].plan[i].paid \in Nat
      BY <1>1, AfterIs DEF Writing
    <2>2. \A i \in DOMAIN req[r].plan : req[r].plan[i].paid <= C[i]
      BY <1>1, <2>1 DEF Within
    <2> QED
      BY <1>1, <2>2 DEF Within
  <1>2. CASE req[r].at = "commit"
    <2>1. /\ DOMAIN req[r].plan \subseteq Charges
          /\ \A i \in DOMAIN req[r].plan : req[r].plan[i].paid \in Nat
      BY <1>2, AfterIs DEF Writing
    <2>2. PICK G \in [DOMAIN req[r].plan -> Nat] :
              /\ Total(G, DOMAIN req[r].plan) <= req[r].amount
              /\ \A i \in DOMAIN req[r].plan : req[r].plan[i].paid <= B[i] + G[i]
      BY <1>2 DEF Within, AddsTo
    <2>3. ASSUME NEW i \in DOMAIN req[r].plan PROVE req[r].plan[i].paid <= C[i] + G[i]
      <3>1. B[i] \in Nat /\ C[i] \in Nat /\ G[i] \in Nat /\ B[i] <= C[i]
        BY <2>1
      <3>2. req[r].plan[i].paid \in Nat /\ req[r].plan[i].paid <= B[i] + G[i]
        BY <2>1, <2>2
      <3> QED
        BY <3>1, <3>2
    <2> QED
      BY <1>2, <2>2, <2>3 DEF Within, AddsTo
  <1>3. CASE req[r].at \notin {"write", "commit"}
    BY <1>3 DEF Within
  <1> QED
    BY <1>1, <1>2, <1>3

\* A payment that completes brings in its amount.
LEMMA RaceKeptByComplete ==
    ASSUME RaceInv, RefundInv, RefundInv', ChargeInv, NEW r \in Requests, Complete(r) PROVE RaceInv'
  <1> DEFINE p == req[r].pay
  <1>1. /\ req[r].at = "succeeded" /\ UNCHANGED <<ledger, upset>> /\ p \in Payments /\ RentTyped /\ RentTyped'
        /\ pay' = [pay EXCEPT ![p].status = "completed"] /\ req' = [req EXCEPT ![r].at = "read"]
    BY DEF Complete, RefundInv, RentTyped
  <1>2. /\ req'[r].at = "read" /\ req'[r].pay = p /\ \A s \in Requests \ {r} : req'[s] = req[s]
    BY <1>1, Steps DEF Turned, RentPlaces
  <1>3. pay'[p].status = "completed" /\ pay'[p].amount = pay[p].amount
        /\ \A q \in Payments \ {p} : pay'[q] = pay[q]
    <2>1. PICK new : new = [pay[p] EXCEPT !.status = "completed"]
      OBVIOUS
    <2>2. pay[p] \in PaymentRow /\ pay \in [Payments -> PaymentRow]
      BY <1>1 DEF RentTyped
    <2>3. new.status = "completed" /\ new.amount = pay[p].amount
      BY <2>1, <2>2 DEF PaymentRow
    <2>4. pay' = [pay EXCEPT ![p] = new]
      BY <1>1, <2>1, <2>2
    <2> QED
      BY <1>1, <2>2, <2>3, <2>4
  <1> SUFFICES ASSUME Calm'
               PROVE  (\E B : Backs(B)') /\ \A s \in Requests : req'[s].at \notin RefundPlaces
    BY RaceBacked
  <1>4. Calm /\ \A s \in Requests : req'[s].at \notin RefundPlaces
    BY <1>1, <1>2, NoRefundBeside DEF RefundPlaces
  <1>5. pay[p].status # "completed"
    BY <1>1, <1>4 DEF RefundInv, SucceedsOnce, Settled, Calm, Without
  <1>6. PICK a \in Nat : a = pay[p].amount
    BY <1>1, AmountIsNat
  <1>7. Received \in Nat /\ Received' = Received + a
    <2>1. Received \in Nat /\ Received' \in Nat /\ Received' + Income[p] = Received + Income'[p]
      BY <1>1, <1>3, ReceivedChanges
    <2>2. Income[p] = 0 /\ Income'[p] = a
      BY <1>1, <1>3, <1>5, <1>6 DEF Income
    <2>3. PICK v \in Nat, w \in Nat : v = Received /\ w = Received'
      BY <2>1
    <2>4. w + 0 = v + a
      BY <2>1, <2>2, <2>3
    <2>5. w = v + a
      BY <2>4
    <2> QED
      BY <2>3, <2>5
  <1>8. PICK f, g : f = Reading /\ g = Reading'
    OBVIOUS
  <1>9. Total(f, Requests) \in Nat /\ Total(g, Requests) = Total(f, Requests) + a
    <2>1. ReadingTyped /\ ReadingTyped'
      BY ReadingIsNat, PTL
    <2>2. /\ \A x \in Requests : f[x] \in Nat
          /\ \A x \in Requests : g[x] \in Nat
      BY <1>8, <2>1 DEF ReadingTyped
    <2>3. ASSUME NEW s \in Requests \ {r} PROVE g[s] = f[s]
      <3>1. req[s].at = "read" => req[s].pay \in Payments /\ pay'[req[s].pay].amount = pay[req[s].pay].amount
        BY <1>1, <1>3 DEF RentTyped
      <3> QED
        BY <1>2, <1>8, <3>1 DEF Reading
    <2>4. f[r] = 0 /\ g[r] = a
      BY <1>1, <1>2, <1>3, <1>6, <1>8 DEF Reading
    <2>5. Total(f, Requests) \in Nat /\ Total(g, Requests) \in Nat
          /\ Total(g, Requests) + f[r] = Total(f, Requests) + g[r]
      BY <2>2, <2>3, RequestsFinite, SumChanged
    <2> QED
      BY <2>4, <2>5
  <1>10. PICK B : Backs(B)
    BY <1>4 DEF RaceInv
  <1>11. Total(B, Charges) + Total(g, Requests) <= Received'
    <2>1. Total(B, Charges) + Total(f, Requests) <= Received /\ Total(B, Charges) \in Nat
      BY <1>8, <1>10, SumsOf DEF Backs
    <2> QED
      BY <1>7, <1>9, <2>1
  <1>12. \A s \in Requests : Within(B, s)'
    BY <1>2, <1>10 DEF Backs, Within, AddsTo
  <1>13. Backs(B)'
    BY <1>1, <1>8, <1>10, <1>11, <1>12 DEF Backs, Charges, Total
  <1> QED
    BY <1>4, <1>13

\* C is B with G added.
Grown(B, D, G, C) ==
    /\ C \in [Charges -> Nat]
    /\ \A i \in Charges : B[i] <= C[i]
    /\ \A i \in D : C[i] = B[i] + G[i]
    /\ Total(B, Charges) \in Nat /\ Total(G, D) \in Nat
    /\ Total(C, Charges) = Total(B, Charges) + Total(G, D)

LEMMA MoreBounds ==
    ASSUME IsFiniteSet(Charges), NEW B \in [Charges -> Nat], NEW D \in SUBSET Charges, NEW G \in [D -> Nat]
    PROVE  \E C : Grown(B, D, G, C)
  <1>1. PICK C : C = [i \in Charges |-> IF i \in D THEN B[i] + G[i] ELSE B[i]]
    OBVIOUS
  <1>2. C \in [Charges -> Nat] /\ \A i \in Charges : B[i] <= C[i]
    BY <1>1
  <1>3. Adding(B, G, C, Charges, D)
    BY <1>1 DEF Adding
  <1>4. /\ Total(B, Charges) \in Nat /\ Total(G, D) \in Nat
        /\ Total(C, Charges) = Total(B, Charges) + Total(G, D)
    BY <1>3, SumAdded
  <1>5. Grown(B, D, G, C)
    BY <1>1, <1>2, <1>4 DEF Grown
  <1> QED
    BY <1>5

\* What a plan credits.
LEMMA CreditGives ==
    ASSUME LedgerSound, NEW amount \in Nat, NEW plan, plan = Credit(amount)
    PROVE  /\ DOMAIN plan \in SUBSET Charges
           /\ Given(plan) \in [DOMAIN plan -> Nat]
           /\ Total(Given(plan), DOMAIN plan) \in Nat
           /\ Total(Given(plan), DOMAIN plan) <= amount
           /\ \A i \in DOMAIN plan : /\ ledger[i].paid \in Nat /\ plan[i].paid \in Nat
                                     /\ plan[i].paid = ledger[i].paid + Given(plan)[i]
  <1>1. DOMAIN plan \subseteq Charges
        /\ \A i \in DOMAIN plan : Sound(plan[i]) /\ ledger[i].paid <= plan[i].paid
    BY CreditPlan DEF Open
  <1>2. \A i \in DOMAIN plan : /\ ledger[i].paid \in Nat /\ plan[i].paid \in Nat
                               /\ plan[i].paid - ledger[i].paid \in Nat
                               /\ plan[i].paid = ledger[i].paid + (plan[i].paid - ledger[i].paid)
    <2> SUFFICES ASSUME NEW i \in DOMAIN plan
                 PROVE  /\ ledger[i].paid \in Nat /\ plan[i].paid \in Nat
                        /\ plan[i].paid - ledger[i].paid \in Nat
                        /\ plan[i].paid = ledger[i].paid + (plan[i].paid - ledger[i].paid)
      OBVIOUS
    <2>1. ledger[i].paid \in Nat /\ plan[i].paid \in Nat /\ ledger[i].paid <= plan[i].paid
      BY <1>1 DEF LedgerSound, Sound, ChargeRow
    <2> QED
      BY <2>1
  <1>3. /\ Total(Owed, Open) \in Nat /\ Total(Given(plan), DOMAIN plan) \in Nat
        /\ Total(Given(plan), DOMAIN plan) = Least(amount, Total(Owed, Open))
    BY CreditSum
  <1>4. Total(Given(plan), DOMAIN plan) <= amount
    BY <1>3 DEF Least
  <1> QED
    BY <1>1, <1>2, <1>3, <1>4 DEF Given

\* What was still to be read is planned.
LEMMA RaceKeptByRead ==
    ASSUME RaceInv, RefundInv, RefundInv', ChargeInv, NEW r \in Requests, ReadOpen(r) PROVE RaceInv'
  <1>1. /\ req[r].at = "read" /\ UNCHANGED <<ledger, pay>> /\ LedgerSound /\ RentTyped
        /\ upset \subseteq upset' /\ req[r].pay \in Payments
    BY DEF ReadOpen, Happens, RefundInv, RentTyped, ChargeInv
  <1>2. PICK a, plan :
            /\ a \in Nat
            /\ a = pay[req[r].pay].amount /\ plan = Credit(a)
            /\ req' = [req EXCEPT ![r].at = "write", ![r].plan = plan]
    BY <1>1, AmountIsNat DEF ReadOpen
  <1>3. /\ req'[r].at = "write" /\ req'[r].plan = plan /\ \A s \in Requests \ {r} : req'[s] = req[s]
    BY <1>1, <1>2, PlanPutDown DEF RentPlaces
  <1> SUFFICES ASSUME Calm'
               PROVE  (\E B : Backs(B)') /\ \A s \in Requests : req'[s].at \notin RefundPlaces
    BY RaceBacked
  <1>4. Calm /\ \A s \in Requests : req'[s].at \notin RefundPlaces
    BY <1>1, <1>3, NoRefundBeside DEF RefundPlaces
  <1>5. PICK B : Backs(B)
    BY <1>4 DEF RaceInv
  <1>6. PICK D, G : /\ D = DOMAIN plan /\ G = Given(plan) /\ D \in SUBSET Charges /\ G \in [D -> Nat]
                    /\ Total(G, D) \in Nat /\ Total(G, D) <= a
                    /\ \A i \in D : /\ ledger[i].paid \in Nat /\ plan[i].paid \in Nat
                                    /\ plan[i].paid = ledger[i].paid + G[i]
    BY <1>1, <1>2, CreditGives
  <1>7. IsFiniteSet(Charges) /\ B \in [Charges -> Nat]
    BY <1>1, <1>5, Accounts DEF Backs
  <1>8. PICK C : Grown(B, D, G, C)
    BY <1>6, <1>7, MoreBounds
  <1>9. /\ C \in [Charges -> Nat]
        /\ \A i \in Charges : B[i] <= C[i]
        /\ \A i \in D : C[i] = B[i] + G[i]
        /\ Total(C, Charges) = Total(B, Charges) + Total(G, D)
    BY <1>8 DEF Grown
  <1>10. PICK f, g : f = Reading /\ g = Reading'
    OBVIOUS
  <1>11. Total(f, Requests) \in Nat /\ Total(g, Requests) \in Nat /\ Total(g, Requests) + a = Total(f, Requests)
    <2>1. ReadingTyped /\ ReadingTyped'
      BY ReadingIsNat, PTL
    <2>2. /\ \A x \in Requests : f[x] \in Nat
          /\ \A x \in Requests : g[x] \in Nat
      BY <1>10, <2>1 DEF ReadingTyped
    <2>3. \A s \in Requests \ {r} : g[s] = f[s]
      BY <1>1, <1>3, <1>10 DEF Reading
    <2>4. f[r] = a /\ g[r] = 0
      BY <1>1, <1>2, <1>3, <1>10 DEF Reading
    <2>5. Total(f, Requests) \in Nat /\ Total(g, Requests) \in Nat
          /\ Total(g, Requests) + f[r] = Total(f, Requests) + g[r]
      BY <2>2, <2>3, RequestsFinite, SumChanged
    <2> QED
      BY <2>4, <2>5
  <1>12. Received' = Received /\ Charges' = Charges
    BY <1>1 DEF Received, Total, Charges
  <1>13. Total(C, Charges) + Total(g, Requests) <= Received
    <2>1. /\ Total(B, Charges) + Total(f, Requests) <= Received /\ Total(B, Charges) \in Nat
          /\ Received \in Nat
      BY <1>5, <1>10, SumsOf DEF Backs
    <2>2. PICK v \in Nat : v = Received
      BY <2>1
    <2>3. PICK b \in Nat : b = Total(B, Charges)
      BY <2>1
    <2>4. PICK h \in Nat : h = Total(G, D)
      BY <1>6
    <2>5. PICK x \in Nat : x = Total(f, Requests)
      BY <1>11
    <2>6. PICK y \in Nat : y = Total(g, Requests)
      BY <1>11
    <2>7. /\ b + x <= v /\ h <= a /\ y + a = x /\ a \in Nat
          /\ Total(C, Charges) = b + h
      BY <1>2, <1>6, <1>9, <1>11, <2>1, <2>2, <2>3, <2>4, <2>5, <2>6
    <2>8. (b + h) + y <= v
      BY <2>7
    <2> QED
      BY <2>2, <2>6, <2>7, <2>8
  <1>14. \A i \in Charges : ledger[i].paid <= B[i] /\ ledger[i].paid \in Nat /\ B[i] \in Nat /\ C[i] \in Nat
    <2>1. \A i \in Charges : ledger[i].paid \in Nat
      BY <1>1 DEF LedgerSound, Sound, ChargeRow
    <2> QED
      BY <1>5, <1>7, <1>9, <2>1 DEF Backs
  <1>15. \A i \in Charges : ledger[i].paid <= C[i]
    BY <1>9, <1>14
  <1>16. \A i \in D : plan[i].paid <= C[i]
    BY <1>6, <1>9, <1>14
  <1>17. ASSUME NEW s \in Requests PROVE Within(C, s)'
    <2>1. CASE s = r
      BY <1>3, <1>6, <1>16, <2>1 DEF Within
    <2>2. CASE s # r
      <3>1. Within(C, s)
        BY <1>5, <1>7, <1>9, WithinMore DEF Backs
      <3> QED
        BY <1>3, <2>2, <3>1 DEF Within, AddsTo
    <2> QED
      BY <2>1, <2>2
  <1>18. Backs(C)'
    BY <1>1, <1>9, <1>10, <1>12, <1>13, <1>15, <1>17 DEF Backs, Total
  <1> QED
    BY <1>4, <1>18

\* A charge is written within its bound.
LEMMA RaceKeptByWrite ==
    ASSUME RaceInv, RefundInv, RefundInv', ChargeInv, NEW r \in Requests, WriteCharge(r) PROVE RaceInv'
  <1>1. /\ req[r].at = "write" /\ UNCHANGED <<pay, upset>> /\ RentTyped /\ upset \subseteq upset'
    BY DEF WriteCharge, RefundInv
  <1>2. DOMAIN req[r].plan \subseteq Charges /\ Charges \subseteq Nat /\ LedgerSound
    BY <1>1, AfterIs, Accounts DEF Writing, ChargeInv
  <1>3. \/ UNCHANGED ledger
        \/ \E i \in DOMAIN req[r].plan : ledger' = [ledger EXCEPT ![i] = req[r].plan[i]]
    <2>1. CASE DOMAIN req[r].plan = {}
      BY <2>1, WritesNone
    <2>2. CASE DOMAIN req[r].plan # {}
      BY <2>2, WritesOne DEF Updates
    <2> QED
      BY <2>1, <2>2
  <1>4. /\ \A s \in Requests \ {r} : req'[s] = req[s]
        /\ req'[r].at \in {"idle", "write"}
        /\ req'[r].at = "write" => \A i \in DOMAIN req'[r].plan :
               i \in DOMAIN req[r].plan /\ req'[r].plan[i] = req[r].plan[i]
    <2>1. CASE DOMAIN req[r].plan = {}
      BY <2>1, WritesNone
    <2>2. CASE DOMAIN req[r].plan # {}
      <3>1. PICK i, plan : Updates(r, i, plan)
        BY <2>2, WritesOne
      <3> QED
        BY <3>1 DEF Updates
    <2> QED
      BY <2>1, <2>2
  <1> SUFFICES ASSUME Calm'
               PROVE  (\E B : Backs(B)') /\ \A s \in Requests : req'[s].at \notin RefundPlaces
    BY RaceBacked
  <1>5. Calm /\ \A s \in Requests : req'[s].at \notin RefundPlaces
    BY <1>1, <1>4, NoRefundBeside DEF RefundPlaces
  <1>6. PICK B : Backs(B)
    BY <1>5 DEF RaceInv
  <1>7. Charges' = Charges /\ \A i \in Charges : ledger'[i].paid <= B[i]
    <2>1. \A i \in DOMAIN req[r].plan : req[r].plan[i].paid <= B[i]
      BY <1>1, <1>6 DEF Backs, Within
    <2> QED
      BY <1>2, <1>3, <1>6, <2>1 DEF Backs, Charges
  <1>8. ASSUME NEW s \in Requests PROVE Within(B, s)'
    <2>1. Within(B, s)
      BY <1>6 DEF Backs
    <2>2. CASE s = r
      BY <1>1, <1>4, <2>1, <2>2 DEF Within
    <2>3. CASE s # r
      BY <1>4, <2>1, <2>3 DEF Within, AddsTo
    <2> QED
      BY <2>2, <2>3
  <1>9. Received' = Received
    BY <1>1 DEF Received, Total
  <1>10. Total(Reading', Requests) = Total(Reading, Requests)
    <2>1. PICK f, g : f = Reading /\ g = Reading'
      OBVIOUS
    <2>2. \A s \in Requests : g[s] = f[s]
      BY <1>1, <1>4, <2>1 DEF Reading
    <2>3. Total(g, Requests) = Total(f, Requests)
      BY <2>2, SumAgree, RequestsFinite DEF Total
    <2> QED
      BY <2>1, <2>3
  <1>11. Backs(B)'
    BY <1>6, <1>7, <1>8, <1>9, <1>10 DEF Backs, Total
  <1> QED
    BY <1>5, <1>11

\* An offline payment plans no more than its amount.
LEMMA RaceKeptByRecord ==
    ASSUME RaceInv, RefundInv, RefundInv', ChargeInv, NEW r \in Requests, RecordOffline(r) PROVE RaceInv'
  <1>1. /\ UNCHANGED <<ledger, pay>> /\ LedgerSound /\ RentTyped
    BY DEF RecordOffline, RefundInv, ChargeInv
  <1>2. PICK p, a, new :
            /\ p \in Payments /\ a \in Amounts
            /\ new = [at |-> "commit", pay |-> p, amount |-> a, plan |-> Credit(a)]
            /\ Start(r, new, Excess(a))
    BY DEF RecordOffline
  <1>3. req' = [req EXCEPT ![r] = new] /\ upset \subseteq upset' /\ req[r].at = "idle"
    BY <1>2 DEF Start, Happens
  <1>4. PICK plan : plan = Credit(a)
    OBVIOUS
  <1>5. /\ req'[r].at = "commit" /\ req'[r].plan = plan /\ req'[r].amount = a
        /\ \A s \in Requests \ {r} : req'[s] = req[s]
    BY <1>1, <1>2, <1>3, <1>4 DEF RentTyped
  <1> SUFFICES ASSUME Calm'
               PROVE  (\E B : Backs(B)') /\ \A s \in Requests : req'[s].at \notin RefundPlaces
    BY RaceBacked
  <1>6. Calm /\ \A s \in Requests : req'[s].at \notin RefundPlaces
    BY <1>2, <1>3, <1>5, NoRefundBeside DEF RefundPlaces
  <1>7. PICK B : Backs(B)
    BY <1>6 DEF RaceInv
  <1>8. PICK D, G : /\ D = DOMAIN plan /\ G = Given(plan) /\ D \in SUBSET Charges /\ G \in [D -> Nat]
                    /\ Total(G, D) \in Nat /\ Total(G, D) <= a
                    /\ \A i \in D : /\ ledger[i].paid \in Nat /\ plan[i].paid \in Nat
                                    /\ plan[i].paid = ledger[i].paid + G[i]
    <2>1. a \in Nat
      BY <1>2, Money
    <2> QED
      BY <1>1, <1>4, <2>1, CreditGives
  <1>9. \A i \in D : plan[i].paid <= B[i] + G[i]
    <2> SUFFICES ASSUME NEW i \in D PROVE plan[i].paid <= B[i] + G[i]
      OBVIOUS
    <2>1. B[i] \in Nat /\ G[i] \in Nat /\ ledger[i].paid <= B[i]
      BY <1>7, <1>8 DEF Backs
    <2>2. ledger[i].paid \in Nat /\ plan[i].paid = ledger[i].paid + G[i]
      BY <1>8
    <2> QED
      BY <2>1, <2>2
  <1>10. ASSUME NEW s \in Requests PROVE Within(B, s)'
    <2>1. CASE s = r
      BY <1>5, <1>8, <1>9, <2>1 DEF Within, AddsTo
    <2>2. CASE s # r
      BY <1>5, <1>7, <2>2 DEF Backs, Within, AddsTo
    <2> QED
      BY <2>1, <2>2
  <1>11. Received' = Received /\ Charges' = Charges
    BY <1>1 DEF Received, Total, Charges
  <1>12. Total(Reading', Requests) = Total(Reading, Requests)
    <2>1. PICK f, g : f = Reading /\ g = Reading'
      OBVIOUS
    <2>2. \A s \in Requests : g[s] = f[s]
      BY <1>1, <1>3, <1>5, <2>1 DEF Reading
    <2>3. Total(g, Requests) = Total(f, Requests)
      BY <2>2, SumAgree, RequestsFinite DEF Total
    <2> QED
      BY <2>1, <2>3
  <1>13. Backs(B)'
    BY <1>1, <1>7, <1>10, <1>11, <1>12 DEF Backs, Total
  <1> QED
    BY <1>6, <1>13

\* It commits: what it brings in covers what it writes.
LEMMA RaceKeptByCommit ==
    ASSUME RaceInv, RefundInv, RefundInv', ChargeInv, NEW r \in Requests, CommitOffline(r) PROVE RaceInv'
  <1> DEFINE p == req[r].pay
             plan == req[r].plan
  <1>1. /\ req[r].at = "commit" /\ UNCHANGED upset /\ RentTyped /\ RentTyped' /\ LedgerSound
        /\ ledger' = Written(plan) /\ upset \subseteq upset' /\ p \in Payments
        /\ pay' = [pay EXCEPT ![p] = [status |-> "completed", amount |-> req[r].amount, id |-> FALSE]]
    BY DEF CommitOffline, RefundInv, ChargeInv, RentTyped
  <1>2. req'[r].at = "idle" /\ \A s \in Requests \ {r} : req'[s] = req[s]
    <2>1. End(r)
      BY DEF CommitOffline
    <2> QED
      BY <1>1, <2>1, Ended DEF Turned
  <1>3. /\ pay'[p].status = "completed" /\ pay'[p].amount = req[r].amount
        /\ \A q \in Payments \ {p} : pay'[q] = pay[q]
    BY <1>1 DEF RentTyped
  <1>4. PICK a \in Nat : a = req[r].amount
    <2>1. req[r].amount \in Amounts \union {0}
      BY <1>1 DEF RentTyped, Asked
    <2>2. ASSUME NEW n, n \in Amounts \union {0} PROVE n \in Nat
      BY <2>2, Money
    <2> QED
      BY <2>1, <2>2
  <1>5. /\ pay[p].status = "none"
        /\ \A s \in Requests : req[s].at # "idle" /\ req[s].pay = p => s = r
    BY <1>1 DEF RefundInv, RequestRows, Works
  <1> SUFFICES ASSUME Calm'
               PROVE  (\E B : Backs(B)') /\ \A s \in Requests : req'[s].at \notin RefundPlaces
    BY RaceBacked
  <1>6. Calm /\ \A s \in Requests : req'[s].at \notin RefundPlaces
    BY <1>1, <1>2, NoRefundBeside DEF RefundPlaces
  <1>7. PICK B : Backs(B)
    BY <1>6 DEF RaceInv
  <1>8. PICK D : D = DOMAIN plan /\ D \in SUBSET Charges /\ \A i \in D : plan[i].paid \in Nat
    BY <1>1, AfterIs DEF Writing
  <1>9. PICK G \in [D -> Nat] : Total(G, D) <= a /\ \A i \in D : plan[i].paid <= B[i] + G[i]
    BY <1>1, <1>4, <1>7, <1>8 DEF Backs, Within, AddsTo
  <1>10. IsFiniteSet(Charges) /\ B \in [Charges -> Nat]
    BY <1>1, <1>7, Accounts DEF Backs
  <1>11. PICK C : Grown(B, D, G, C)
    BY <1>8, <1>9, <1>10, MoreBounds
  <1>12. /\ C \in [Charges -> Nat]
         /\ \A i \in Charges : B[i] <= C[i]
         /\ \A i \in D : C[i] = B[i] + G[i]
         /\ Total(B, Charges) \in Nat /\ Total(G, D) \in Nat
         /\ Total(C, Charges) = Total(B, Charges) + Total(G, D)
    BY <1>11 DEF Grown
  <1>13. Received \in Nat /\ Received' = Received + a
    <2>1. Received \in Nat /\ Received' \in Nat /\ Received' + Income[p] = Received + Income'[p]
      BY <1>1, <1>3, ReceivedChanges
    <2>2. Income[p] = 0 /\ Income'[p] = a
      BY <1>1, <1>3, <1>4, <1>5 DEF Income
    <2>3. PICK v \in Nat, w \in Nat : v = Received /\ w = Received'
      BY <2>1
    <2>4. w + 0 = v + a
      BY <2>1, <2>2, <2>3
    <2>5. w = v + a
      BY <2>4
    <2> QED
      BY <2>3, <2>5
  <1>14. Total(Reading', Requests) = Total(Reading, Requests)
    <2>1. PICK f, g : f = Reading /\ g = Reading'
      OBVIOUS
    <2>2. ASSUME NEW s \in Requests PROVE g[s] = f[s]
      <3>1. req[s].at = "read" => req[s].pay \in Payments \ {p}
        BY <1>1, <1>5 DEF RentTyped
      <3> QED
        BY <1>1, <1>2, <1>3, <2>1, <3>1 DEF Reading
    <2>3. Total(g, Requests) = Total(f, Requests)
      BY <2>2, SumAgree, RequestsFinite DEF Total
    <2> QED
      BY <2>1, <2>3
  <1>15. Total(C, Charges) + Total(Reading, Requests) <= Received'
    <2>1. Total(Reading, Requests) \in Nat /\ Total(B, Charges) + Total(Reading, Requests) <= Received
      BY <1>7, SumsOf DEF Backs
    <2>2. PICK v \in Nat : v = Received
      BY <1>13
    <2>3. PICK b \in Nat : b = Total(B, Charges)
      BY <1>12
    <2>4. PICK h \in Nat : h = Total(G, D)
      BY <1>12
    <2>5. PICK x \in Nat : x = Total(Reading, Requests)
      BY <2>1
    <2>6. Received' = v + a
      BY <1>13, <2>2
    <2>7. /\ b + x <= v /\ h <= a /\ a \in Nat
          /\ Total(C, Charges) = b + h
      BY <1>4, <1>9, <1>12, <2>1, <2>2, <2>3, <2>4, <2>5
    <2>8. (b + h) + x <= v + a
      BY <2>7
    <2> QED
      BY <2>5, <2>6, <2>7, <2>8
  <1>16. Charges' = Charges /\ \A i \in Charges : ledger'[i].paid <= C[i]
    <2>1. Charges' = Charges /\ \A i \in Charges : ledger'[i] = IF i \in D THEN plan[i] ELSE ledger[i]
      BY <1>1, <1>8 DEF Written, Charges
    <2>2. ASSUME NEW i \in Charges PROVE ledger'[i].paid <= C[i]
      <3>1. CASE i \in D
        BY <1>9, <1>12, <2>1, <3>1
      <3>2. CASE i \notin D
        <4>1. ledger[i].paid \in Nat /\ ledger[i].paid <= B[i] /\ B[i] \in Nat /\ C[i] \in Nat /\ B[i] <= C[i]
          BY <1>1, <1>7, <1>10, <1>12 DEF LedgerSound, Sound, ChargeRow, Backs
        <4> QED
          BY <2>1, <3>2, <4>1
      <3> QED
        BY <3>1, <3>2
    <2> QED
      BY <2>1, <2>2
  <1>17. ASSUME NEW s \in Requests PROVE Within(C, s)'
    <2>1. CASE s = r
      BY <1>2, <2>1 DEF Within
    <2>2. CASE s # r
      <3>1. Within(C, s)
        BY <1>7, <1>10, <1>12, WithinMore DEF Backs
      <3> QED
        BY <1>2, <2>2, <3>1 DEF Within, AddsTo
    <2> QED
      BY <2>1, <2>2
  <1>18. Backs(C)'
    BY <1>12, <1>14, <1>15, <1>16, <1>17 DEF Backs, Total
  <1> QED
    BY <1>6, <1>18

-----------------------------------------------------------------------------
\* What the charges will hold when a plan is written.
Leaves(plan) == [i \in Charges |-> (IF i \in DOMAIN plan THEN plan[i] ELSE ledger[i]).paid]

LEMMA CreditLeaves ==
    ASSUME LedgerSound, NEW amount \in Nat, NEW plan, plan = Credit(amount)
    PROVE  /\ Credited \in Nat /\ Total(Owed, Open) \in Nat
           /\ Total(Leaves(plan), Charges) = Credited + Least(amount, Total(Owed, Open))
  <1>1. IsFiniteSet(Charges) /\ \A i \in Charges : Paid[i] = ledger[i].paid /\ Paid[i] \in Nat
    BY Accounts
  <1>2. /\ DOMAIN plan \in SUBSET Charges
        /\ Given(plan) \in [DOMAIN plan -> Nat]
        /\ \A i \in DOMAIN plan : plan[i].paid = ledger[i].paid + Given(plan)[i]
    BY CreditGives
  <1>3. Adding(Paid, Given(plan), Leaves(plan), Charges, DOMAIN plan)
    BY <1>1, <1>2 DEF Adding, Leaves
  <1>4. /\ Total(Paid, Charges) \in Nat
        /\ Total(Leaves(plan), Charges) = Total(Paid, Charges) + Total(Given(plan), DOMAIN plan)
    BY <1>3, SumAdded
  <1>5. /\ Total(Owed, Open) \in Nat
        /\ Total(Given(plan), DOMAIN plan) = Least(amount, Total(Owed, Open))
    BY CreditSum
  <1> QED
    BY <1>4, <1>5 DEF Credited

LEMMA ReversalLeaves ==
    ASSUME LedgerSound, NEW amount \in Nat, NEW plan, plan = Reversal(amount)
    PROVE  /\ Credited \in Nat /\ Total(Leaves(plan), Charges) \in Nat
           /\ Total(Leaves(plan), Charges) + Least(amount, Credited) = Credited
  <1>1. IsFiniteSet(Charges) /\ \A i \in Charges : Paid[i] = ledger[i].paid /\ Paid[i] \in Nat
    BY Accounts
  <1>2. /\ DOMAIN plan \in SUBSET Charges
        /\ \A i \in DOMAIN plan : Sound(plan[i]) /\ plan[i].paid <= ledger[i].paid
    BY ReversalPlan
  <1>3. \A i \in DOMAIN plan : /\ plan[i].paid \in Nat /\ Taken(plan)[i] \in Nat
                               /\ Paid[i] = plan[i].paid + Taken(plan)[i]
    <2> SUFFICES ASSUME NEW i \in DOMAIN plan
                 PROVE  /\ plan[i].paid \in Nat /\ Taken(plan)[i] \in Nat
                        /\ Paid[i] = plan[i].paid + Taken(plan)[i]
      OBVIOUS
    <2>1. /\ ledger[i].paid \in Nat /\ plan[i].paid \in Nat /\ plan[i].paid <= ledger[i].paid
          /\ Paid[i] = ledger[i].paid
      BY <1>1, <1>2 DEF Sound, ChargeRow
    <2>2. Taken(plan)[i] = ledger[i].paid - plan[i].paid
      BY DEF Taken
    <2> QED
      BY <2>1, <2>2
  <1>4. Adding(Leaves(plan), Taken(plan), Paid, Charges, DOMAIN plan)
    BY <1>1, <1>2, <1>3 DEF Adding, Leaves
  <1>5. /\ Total(Leaves(plan), Charges) \in Nat
        /\ Total(Paid, Charges) = Total(Leaves(plan), Charges) + Total(Taken(plan), DOMAIN plan)
    BY <1>4, SumAdded
  <1>6. /\ Credited \in Nat /\ Total(Taken(plan), DOMAIN plan) = Least(amount, Credited)
    BY ReversalSum
  <1> QED
    BY <1>5, <1>6 DEF Credited

\* A refund takes its amount, or all there is, ...
LEMMA RaceKeptByReadPaid ==
    ASSUME RaceInv, RefundInv, RefundInv', ChargeInv, NEW r \in Requests, ReadPaid(r) PROVE RaceInv'
  <1>1. /\ req[r].at = "reverse" /\ UNCHANGED <<ledger, pay, upset>> /\ LedgerSound /\ RentTyped
    BY DEF ReadPaid, RefundInv, ChargeInv
  <1>2. PICK a, plan :
            /\ a \in Nat
            /\ a = pay[req[r].pay].amount /\ plan = Reversal(a)
            /\ req' = [req EXCEPT ![r].at = "commit_refund", ![r].plan = plan]
    BY <1>1, AmountIsNat DEF ReadPaid
  <1>3. /\ req'[r].at = "commit_refund" /\ req'[r].plan = plan /\ req'[r].pay = req[r].pay
        /\ \A s \in Requests \ {r} : req'[s] = req[s]
    BY <1>1, <1>2, PlanPutDown DEF RentPlaces
  <1> SUFFICES ASSUME Calm
               PROVE  (\E B : Backs(B)') /\ \A s \in Requests : RefundAlone(s)' /\ TakesEnough(s)'
    BY <1>1 DEF RaceInv, Calm, Without
  <1>4. PICK B : Backs(B)
    BY DEF RaceInv
  <1>5. pay[req[r].pay].status = "completed" /\ \A s \in Requests \ {r} : req[s].at = "idle"
    BY <1>1 DEF RaceInv, RefundAlone, RefundPlaces
  <1>6. Received' = Received /\ Charges' = Charges
    BY <1>1 DEF Received, Total, Charges
  <1>7. Total(Reading', Requests) = Total(Reading, Requests)
    <2>1. PICK f, g : f = Reading /\ g = Reading'
      OBVIOUS
    <2>2. \A s \in Requests : g[s] = f[s]
      BY <1>1, <1>3, <2>1 DEF Reading
    <2>3. Total(g, Requests) = Total(f, Requests)
      BY <2>2, SumAgree, RequestsFinite DEF Total
    <2> QED
      BY <2>1, <2>3
  <1>8. \A s \in Requests : Within(B, s)'
    BY <1>3, <1>5 DEF Within
  <1>9. Backs(B)'
    BY <1>1, <1>4, <1>6, <1>7, <1>8 DEF Backs, Total
  <1>10. Ends(r)' = Total(Leaves(plan), Charges)
    BY <1>1, <1>3, <1>6 DEF Ends, After, Leaves, Total
  <1>11. Ends(r)' = 0 \/ Ends(r)' + a <= Received
    <2>1. PICK e : e = Ends(r)'
      OBVIOUS
    <2>2. /\ Credited \in Nat /\ e \in Nat /\ e + Least(a, Credited) = Credited
      BY <1>1, <1>2, <1>10, <2>1, ReversalLeaves
    <2>3. Credited <= Received /\ Received \in Nat
      BY <1>4, SumsOf
    <2>4. e = 0 \/ e + a <= Received
      BY <2>2, <2>3 DEF Least
    <2> QED
      BY <2>1, <2>4
  <1>12. ASSUME NEW s \in Requests PROVE RefundAlone(s)' /\ TakesEnough(s)'
    <2>1. CASE s = r
      BY <1>1, <1>2, <1>3, <1>5, <1>6, <1>11, <2>1 DEF RefundAlone, TakesEnough
    <2>2. CASE s # r
      BY <1>3, <1>5, <2>2 DEF RefundAlone, TakesEnough, RefundPlaces
    <2> QED
      BY <2>1, <2>2
  <1> QED
    BY <1>9, <1>12

\* ...so that what is left is covered by what is kept.
LEMMA RaceKeptByCommitRefund ==
    ASSUME RaceInv, RefundInv, RefundInv', ChargeInv, NEW r \in Requests, CommitRefund(r) PROVE RaceInv'
  <1> DEFINE p == req[r].pay
             plan == req[r].plan
  <1>1. /\ req[r].at = "commit_refund" /\ UNCHANGED upset /\ RentTyped /\ RentTyped' /\ LedgerSound
        /\ ledger' = Written(plan) /\ p \in Payments
        /\ pay' = [pay EXCEPT ![p].status = "refunded"]
    BY DEF CommitRefund, RefundInv, ChargeInv, RentTyped
  <1>2. req'[r].at = "idle" /\ \A s \in Requests \ {r} : req'[s] = req[s]
    <2>1. End(r)
      BY DEF CommitRefund
    <2> QED
      BY <1>1, <2>1, Ended DEF Turned
  <1>3. pay'[p].status = "refunded" /\ \A q \in Payments \ {p} : pay'[q] = pay[q]
    BY <1>1, MarkedAs DEF Booked
  <1> SUFFICES ASSUME Calm'
               PROVE  (\E B : Backs(B)') /\ \A s \in Requests : req'[s].at \notin RefundPlaces
    BY RaceBacked
  <1>4. Calm
    BY <1>1 DEF Calm, Without
  <1>5. pay[p].status = "completed" /\ \A s \in Requests : req'[s].at = "idle"
    BY <1>1, <1>2, <1>4 DEF RaceInv, RefundAlone, RefundPlaces
  <1>6. PICK a \in Nat : a = pay[p].amount
    BY <1>1, AmountIsNat
  <1>7. Received' \in Nat /\ Received' + a = Received
    <2>1. Received \in Nat /\ Received' \in Nat /\ Received' + Income[p] = Received + Income'[p]
      BY <1>1, <1>3, ReceivedChanges
    <2>2. Income[p] = a /\ Income'[p] = 0
      BY <1>1, <1>3, <1>5, <1>6 DEF Income
    <2>3. PICK v \in Nat, w \in Nat : v = Received /\ w = Received'
      BY <2>1
    <2>4. w + a = v + 0
      BY <2>1, <2>2, <2>3
    <2>5. w + a = v
      BY <2>4
    <2> QED
      BY <2>3, <2>5
  <1>8. PICK C : C = [i \in Charges |-> After(r, i).paid]
    OBVIOUS
  <1>9. /\ Charges' = Charges /\ C \in [Charges -> Nat]
        /\ \A i \in Charges : ledger'[i].paid = C[i]
    <2>1. \A i \in Charges : After(r, i).paid \in Nat
      BY <1>1, AfterIs DEF Writing
    <2> QED
      BY <1>1, <1>8, <2>1 DEF Written, After, Charges
  <1>10. Total(C, Charges) \in Nat /\ Total(C, Charges) <= Received'
    <2>1. Total(C, Charges) \in Nat
      BY <1>1, <1>9, Accounts, SumNat
    <2>2. Total(C, Charges) = 0 \/ Total(C, Charges) + a <= Received
      BY <1>1, <1>4, <1>6, <1>8 DEF RaceInv, TakesEnough, Ends
    <2> QED
      BY <1>6, <1>7, <2>1, <2>2
  <1>11. Total(Reading', Requests) = 0
    <2>1. PICK g : g = Reading'
      OBVIOUS
    <2>2. \A s \in Requests : g[s] = 0
      BY <1>5, <2>1 DEF Reading
    <2>3. Total(g, Requests) = 0
      BY <2>2, SumZero, RequestsFinite
    <2> QED
      BY <2>1, <2>3
  <1>12. Total(C, Charges) + Total(Reading', Requests) <= Received'
    BY <1>7, <1>10, <1>11
  <1>13. \A i \in Charges : ledger'[i].paid <= C[i]
    BY <1>9
  <1>14. \A s \in Requests : Within(C, s)'
    BY <1>5 DEF Within
  <1>15. Backs(C)'
    BY <1>9, <1>12, <1>13, <1>14 DEF Backs, Total
  <1> QED
    BY <1>5, <1>15 DEF RefundPlaces

-----------------------------------------------------------------------------
\* The other steps turn one request, or none, and bring nothing in.
Turns(r) ==
    /\ UNCHANGED ledger /\ upset \subseteq upset'
    /\ \A s \in Requests \ {r} : req'[s] = req[s]
    /\ req'[r].at \notin {"read"} \union Writing
    /\ req[r].at # "idle" \/ \E new, kinds : Start(r, new, kinds)
    /\ req[r].at \in {"read", "write"} => "lost" \in upset'
    /\ \A q \in Payments : pay'[q].amount = pay[q].amount
    /\ Calm' => \A q \in Payments : pay[q].status = "completed" <=> pay'[q].status = "completed"
    /\ Calm' /\ req'[r].at \in RefundPlaces =>
          /\ pay'[req'[r].pay].status = "completed"
          /\ \A s \in Requests \ {r} : req[s].at = "idle"
NothingIn ==
    /\ UNCHANGED <<ledger, req>> /\ upset \subseteq upset'
    /\ \A q \in Payments :
          /\ pay[q].status = "completed" <=> pay'[q].status = "completed"
          /\ \/ pay'[q].amount = pay[q].amount
             \/ pay[q].status # "completed" /\ \A s \in Requests : req[s].pay # q

LEMMA RaceTurned ==
    ASSUME RaceInv, RefundInv, RefundInv', ChargeInv, NEW r \in Requests, Turns(r) PROVE RaceInv'
  <1>1. RentTyped /\ RentTyped' /\ \A s \in Requests : req[s].at # "idle" => req[s].pay \in Payments
    BY DEF RefundInv, RentTyped
  <1>2. Calm' => Received' = Received
    BY <1>1, ReceivedSame DEF Turns
  <1>3. ASSUME Calm', NEW s \in Requests PROVE RefundAlone(s)'
    <2>1. CASE s = r
      BY <1>3, <2>1 DEF RefundAlone, Turns
    <2>2. CASE s # r
      <3> SUFFICES ASSUME req[s].at \in RefundPlaces
                   PROVE  /\ pay'[req[s].pay].status = "completed"
                          /\ \A t \in Requests \ {s} : req'[t].at = "idle"
        BY <2>2 DEF RefundAlone, Turns
      <3>1. Calm
        BY <1>3 DEF Calm, Without, Turns
      <3>2. pay[req[s].pay].status = "completed" /\ \A t \in Requests \ {s} : req[t].at = "idle"
        BY <3>1 DEF RaceInv, RefundAlone
      <3>3. PICK new, kinds : Start(r, new, kinds)
        BY <2>2, <3>2 DEF Turns
      <3>4. "refund_race" \in upset'
        BY <3>3 DEF Start, Happens, Refunding, RefundPlaces
      <3> QED
        BY <1>3, <3>4 DEF Calm, Without
    <2> QED
      BY <2>1, <2>2
  <1>4. ASSUME NEW s \in Requests
        PROVE  \/ req'[s].at \notin {"read"} \union Writing
               \/ /\ req'[s] = req[s]
                  /\ req[s].at \in {"read", "commit_refund"} =>
                         pay'[req[s].pay].amount = pay[req[s].pay].amount
    BY <1>1 DEF Turns
  <1> QED
    BY <1>2, <1>3, <1>4, RaceStill DEF Turns

LEMMA RaceUnturned ==
    ASSUME RaceInv, RefundInv, RefundInv', ChargeInv, NothingIn PROVE RaceInv'
  <1>1. RentTyped /\ RentTyped' /\ \A s \in Requests : req[s].at # "idle" => req[s].pay \in Payments
    BY DEF RefundInv, RentTyped
  <1>2. Received' = Received
    BY <1>1, ReceivedSame DEF NothingIn
  <1>3. ASSUME Calm', NEW s \in Requests PROVE RefundAlone(s)'
    <2>1. Calm
      BY <1>3 DEF Calm, Without, NothingIn
    <2> QED
      BY <1>1, <2>1 DEF RaceInv, RefundAlone, RefundPlaces, NothingIn
  <1>4. ASSUME NEW s \in Requests, req[s].at \in {"read", "commit_refund"}
        PROVE  pay'[req[s].pay].amount = pay[req[s].pay].amount
    BY <1>1, <1>4 DEF NothingIn
  <1> QED
    BY <1>2, <1>3, <1>4, RaceStill DEF NothingIn

\* No other row of a payment changes, and only this field of it.
LEMMA OneField ==
    ASSUME RentTyped, NEW p \in Payments,
           \/ \E status : pay' = [pay EXCEPT ![p].status = status]
           \/ pay' = [pay EXCEPT ![p].id = TRUE]
    PROVE  /\ \A q \in Payments : pay'[q].amount = pay[q].amount
           /\ \A q \in Payments \ {p} : pay'[q] = pay[q]
  <1>1. pay \in [Payments -> PaymentRow] /\ pay[p] \in PaymentRow
    BY DEF RentTyped
  <1>2. ASSUME NEW status, pay' = [pay EXCEPT ![p].status = status]
        PROVE  pay'[p].amount = pay[p].amount /\ \A q \in Payments \ {p} : pay'[q] = pay[q]
    <2>1. PICK new : new = [pay[p] EXCEPT !.status = status]
      OBVIOUS
    <2>2. new.amount = pay[p].amount /\ pay' = [pay EXCEPT ![p] = new]
      BY <1>1, <1>2, <2>1 DEF PaymentRow
    <2> QED
      BY <1>1, <2>2
  <1>3. CASE pay' = [pay EXCEPT ![p].id = TRUE]
    <2>1. PICK new : new = [pay[p] EXCEPT !.id = TRUE]
      OBVIOUS
    <2>2. new.amount = pay[p].amount /\ new.status = pay[p].status /\ pay' = [pay EXCEPT ![p] = new]
      BY <1>1, <1>3, <2>1 DEF PaymentRow
    <2> QED
      BY <1>1, <2>2
  <1> QED
    BY <1>2, <1>3

LEMMA PaymentsBringNothing ==
    ASSUME RentTyped, NEW p \in Payments, CreatePayment(p) \/ CreateIntent(p) \/ StoreId(p) \/ Settle(p)
    PROVE  NothingIn
  <1>1. UNCHANGED <<ledger, req>> /\ upset \subseteq upset' /\ RentTyped
    BY DEF CreatePayment, CreateIntent, StoreId, Settle
  <1>2. CASE CreatePayment(p)
    <2>1. PICK new : /\ pay' = [pay EXCEPT ![p] = new] /\ new.status = "pending"
                     /\ pay[p].status = "none" /\ \A s \in Requests : req[s].pay # p
      BY <1>2 DEF CreatePayment
    <2>2. pay'[p] = new /\ \A q \in Payments \ {p} : pay'[q] = pay[q]
      BY <1>1, <2>1 DEF RentTyped
    <2> QED
      BY <1>1, <2>1, <2>2 DEF NothingIn
  <1>3. CASE CreateIntent(p)
    <2>1. \/ UNCHANGED pay
          \/ pay[p].status = "pending" /\ pay' = [pay EXCEPT ![p].status = "failed"]
      BY <1>3 DEF CreateIntent
    <2>2. CASE pay[p].status = "pending" /\ pay' = [pay EXCEPT ![p].status = "failed"]
      <3>1. pay'[p].status = "failed"
        BY <1>1, <2>2, MarkedAs DEF Booked
      <3> QED
        BY <1>1, <2>2, <3>1, OneField DEF NothingIn
    <2> QED
      BY <1>1, <2>1, <2>2 DEF NothingIn
  <1>4. CASE StoreId(p)
    <2>1. pay' = [pay EXCEPT ![p].id = TRUE]
      BY <1>4 DEF StoreId
    <2>2. pay'[p].status = pay[p].status
      <3>1. PICK new : new = [pay[p] EXCEPT !.id = TRUE]
        OBVIOUS
      <3>2. pay[p] \in PaymentRow /\ pay \in [Payments -> PaymentRow]
        BY <1>1 DEF RentTyped
      <3>3. new.status = pay[p].status /\ pay' = [pay EXCEPT ![p] = new]
        BY <2>1, <3>1, <3>2 DEF PaymentRow
      <3> QED
        BY <3>2, <3>3
    <2> QED
      BY <1>1, <2>1, <2>2, OneField DEF NothingIn
  <1>5. CASE Settle(p)
    <2>1. UNCHANGED pay
      BY <1>5 DEF Settle
    <2> QED
      BY <1>1, <2>1 DEF NothingIn
  <1> QED
    BY <1>2, <1>3, <1>4, <1>5

LEMMA RequestsTurn ==
    ASSUME RaceInv, RefundInv, NEW r \in Requests, [Next]_vars,
           Deliver(r) \/ Mark(r) \/ Throw(r) \/ Refund(r) \/ RefundAtStripe(r) \/ AbortRefund(r)
    PROVE  Turns(r) \/ NothingIn
  <1>1. /\ UNCHANGED ledger /\ upset \subseteq upset' /\ RentTyped
        /\ \A s \in Requests : req[s].at # "idle" => req[s].pay \in Payments
    BY UpsetGrows DEF Deliver, Mark, Throw, Refund, RefundAtStripe, AbortRefund, RefundInv, RentTyped
  <1>2. ASSUME UNCHANGED pay, End(r), req[r].at # "idle",
               req[r].at \in {"read", "write"} => "lost" \in upset'
        PROVE  Turns(r)
    <2>1. req'[r].at = "idle" /\ \A s \in Requests \ {r} : req'[s] = req[s]
      BY <1>1, <1>2, Ended DEF Turned
    <2> QED
      BY <1>1, <1>2, <2>1 DEF Turns, Writing, RefundPlaces
  <1>3. CASE Throw(r) \/ AbortRefund(r)
    BY <1>2, <1>3 DEF Throw, AbortRefund, Once, Happens
  <1>4. CASE Mark(r)
    <2>1. PICK p \in Payments, at \in {"processing", "failed"} :
              /\ p = req[r].pay /\ at = req[r].at /\ pay' = [pay EXCEPT ![p].status = at] /\ End(r)
      BY <1>1, <1>4 DEF Mark
    <2>2. req'[r].at = "idle" /\ \A s \in Requests \ {r} : req'[s] = req[s]
      BY <1>1, <2>1, Ended DEF Turned
    <2>3. pay'[p].status = at /\ (\A q \in Payments \ {p} : pay'[q] = pay[q])
          /\ \A q \in Payments : pay'[q].amount = pay[q].amount
      BY <1>1, <2>1, MarkedAs, OneField DEF Booked
    <2>4. Calm' => pay[p].status # "completed"
      BY <1>4, <2>1 DEF Mark, Happens, Calm, Without
    <2> QED
      BY <1>1, <2>1, <2>2, <2>3, <2>4 DEF Turns, Writing, RefundPlaces
  <1>5. CASE RefundAtStripe(r)
    <2>1. UNCHANGED pay /\ req[r].at = "stripe" /\ (End(r) \/ req' = [req EXCEPT ![r].at = "reverse"])
      BY <1>5 DEF RefundAtStripe
    <2>2. CASE req' = [req EXCEPT ![r].at = "reverse"]
      <3>1. /\ req'[r].at = "reverse" /\ req'[r].pay = req[r].pay
            /\ \A s \in Requests \ {r} : req'[s] = req[s]
        BY <1>1, <2>2, Steps DEF Turned, RentPlaces
      <3>2. Calm' => /\ pay[req[r].pay].status = "completed"
                     /\ \A s \in Requests \ {r} : req[s].at = "idle"
        BY <1>1, <2>1 DEF RaceInv, RefundAlone, RefundPlaces, Calm, Without
      <3> QED
        BY <1>1, <2>1, <3>1, <3>2 DEF Turns, Writing
    <2> QED
      BY <1>2, <2>1, <2>2
  <1>6. ASSUME NEW at \in {"processing", "failed", "succeeded", "stripe", "reverse"}, NEW p \in Payments,
               NEW kinds, Start(r, [Idle EXCEPT !.at = at, !.pay = p], kinds), UNCHANGED pay,
               at \in {"stripe", "reverse"} => pay[p].status = "completed"
        PROVE  Turns(r)
    <2>1. PICK new : new = [Idle EXCEPT !.at = at, !.pay = p]
      OBVIOUS
    <2>2. new.at = at /\ new.pay = p /\ Start(r, new, kinds)
      BY <1>6, <2>1 DEF Idle
    <2>3. req[r].at = "idle" /\ req'[r] = new /\ \A s \in Requests \ {r} : req'[s] = req[s]
      BY <1>1, <2>2 DEF Start, RentTyped
    <2>4. Calm' /\ at \in RefundPlaces => \A s \in Requests : req[s].at = "idle"
      BY <1>6, <2>2 DEF Start, Happens, Calm, Without, Busy, RefundPlaces
    <2> QED
      BY <1>1, <1>6, <2>2, <2>3, <2>4 DEF Turns, Writing, RefundPlaces
  <1>7. CASE Refund(r)
    <2>1. PICK p \in Payments :
              /\ pay[p].status = "completed" /\ UNCHANGED pay
              /\ Start(r, [Idle EXCEPT !.at = IF pay[p].id THEN "stripe" ELSE "reverse", !.pay = p], {})
      BY <1>7 DEF Refund
    <2>2. PICK at \in {"stripe", "reverse"} : at = IF pay[p].id THEN "stripe" ELSE "reverse"
      OBVIOUS
    <2> QED
      BY <1>6, <2>1, <2>2
  <1>8. CASE Deliver(r)
    <2>1. PICK e, kinds :
              /\ e \in events
              /\ UNCHANGED pay
              /\ UNCHANGED req \/ Start(r, [Idle EXCEPT !.at = e[2], !.pay = e[1]], kinds)
      BY <1>8 DEF Deliver
    <2>2. PICK p \in Payments, at \in {"processing", "succeeded", "failed"} : e[1] = p /\ e[2] = at
      BY <1>1, <2>1 DEF RentTyped
    <2>3. CASE UNCHANGED req
      BY <1>1, <2>1, <2>3 DEF NothingIn
    <2> QED
      BY <1>6, <2>1, <2>2, <2>3
  <1> QED
    BY <1>3, <1>4, <1>5, <1>7, <1>8

LEMMA RaceKept == ASSUME RaceInv, RefundInv, RefundInv', ChargeInv, [Next]_vars PROVE RaceInv'
  <1>1. CASE UNCHANGED <<ledger, pay, req>>
    BY <1>1, UpsetGrows, RaceUnturned DEF NothingIn
  <1>2. CASE PostRent
    <2>1. PICK m : m = months'
      OBVIOUS
    <2>2. ledger' = Append(ledger, Charge("rent", Rent, m)) /\ UNCHANGED <<pay, req, upset>>
      BY <1>2, <2>1 DEF PostRent
    <2> QED
      BY <2>2, RacePosted
  <1>3. CASE ChargeFee
    <2>1. \/ UNCHANGED <<ledger, pay, req>>
          \/ \E m : ledger' = Append(ledger, Charge("late_fee", Fee, m)) /\ UNCHANGED <<pay, req, upset>>
      BY <1>3 DEF ChargeFee
    <2> QED
      BY <1>1, <2>1, RacePosted
  <1>4. CASE FindOverdue \/ UNCHANGED vars
    BY <1>1, <1>4 DEF FindOverdue, vars
  <1>5. ASSUME NEW r \in Requests,
               \/ Deliver(r) \/ Mark(r) \/ Complete(r) \/ ReadOpen(r) \/ WriteCharge(r) \/ Throw(r)
               \/ RecordOffline(r) \/ CommitOffline(r)
               \/ Refund(r) \/ RefundAtStripe(r) \/ ReadPaid(r) \/ CommitRefund(r) \/ AbortRefund(r)
        PROVE  RaceInv'
    BY <1>5, RequestsTurn, RaceTurned, RaceUnturned, RaceKeptByComplete, RaceKeptByRead, RaceKeptByWrite, RaceKeptByRecord,
       RaceKeptByCommit, RaceKeptByReadPaid, RaceKeptByCommitRefund
  <1>6. ASSUME NEW p \in Payments, CreatePayment(p) \/ CreateIntent(p) \/ StoreId(p) \/ Settle(p)
        PROVE  RaceInv'
    BY <1>6, PaymentsBringNothing, RaceUnturned DEF RefundInv
  <1> QED
    BY <1>2, <1>3, <1>4, <1>5, <1>6 DEF Next

LEMMA RaceStarts == Init => RaceInv
  <1> SUFFICES ASSUME Init PROVE RaceInv
    OBVIOUS
  <1>1. /\ Charges = {} /\ \A r \in Requests : req[r].at = "idle"
        /\ \A p \in Payments : pay[p].status = "none"
    BY DEF Init, Idle, Unborn, Charges
  <1>2. PICK B : B = [i \in Charges |-> 0]
    OBVIOUS
  <1>3. Total(B, Charges) = 0
    <2>1. \A i \in Charges : B[i] = 0
      BY <1>1
    <2> QED
      BY <1>1, <2>1, SumZero, FS_EmptySet
  <1>4. Total(Reading, Requests) = 0
    <2>1. PICK f : f = Reading
      OBVIOUS
    <2>2. \A r \in Requests : f[r] = 0
      BY <1>1, <2>1 DEF Reading
    <2>3. Total(f, Requests) = 0
      BY <2>2, SumZero, RequestsFinite
    <2> QED
      BY <2>1, <2>3
  <1>5. Received \in Nat
    BY RefundStarts, ReceivedIs DEF RefundInv, ReceivedTyped
  <1>6. Total(B, Charges) + Total(Reading, Requests) <= Received
    BY <1>3, <1>4, <1>5
  <1>7. Backs(B)
    BY <1>1, <1>2, <1>6 DEF Backs, Within
  <1> QED
    BY <1>1, <1>7 DEF RaceInv, RefundAlone, TakesEnough, RefundPlaces

LEMMA RaceHolds == Spec => []RaceInv
  BY RaceStarts, RaceKept, ChargesHold, RefundHolds, PTL DEF Spec

-----------------------------------------------------------------------------
(* Undisturbed, what the charges will hold once the one request that runs is   *)
(* done is what came in.                                                       *)
Balanced(r) ==
    /\ req[r].at = "read" => Credited + pay[req[r].pay].amount = Received
    /\ req[r].at = "write" => Ends(r) = Received
    /\ req[r].at = "commit" => Ends(r) = Received + req[r].amount
    /\ req[r].at = "commit_refund" => Ends(r) + pay[req[r].pay].amount = Received
ExactInv ==
    upset = {} =>
        /\ (\A r \in Requests : req[r].at \notin {"read", "write"}) => Credited = Received
        /\ \A r \in Requests : Balanced(r)

LEMMA ExactStands == ExactInv => (AtRest /\ upset = {} => Credited = Received)
  BY DEF ExactInv, AtRest, Busy

\* It is enough to look at the request that runs.
LEMMA ExactOf ==
    ASSUME OrderInv, upset \subseteq upset', NEW r \in Requests, \A s \in Requests \ {r} : req'[s] = req[s],
           req[r].at # "idle" \/ \E new, kinds : Start(r, new, kinds),
           /\ upset = {}
           /\ upset' = {}
           /\ \A s \in Requests \ {r} : req[s].at = "idle"
           /\ \A s \in Requests \ {r} : req'[s].at = "idle"
           => (req'[r].at \notin {"read", "write"} => Credited' = Received') /\ Balanced(r)'
    PROVE  ExactInv'
  <1> SUFFICES ASSUME upset' = {}
               PROVE  /\ (\A s \in Requests : req'[s].at \notin {"read", "write"}) => Credited' = Received'
                      /\ \A s \in Requests : Balanced(s)'
    BY DEF ExactInv
  <1>1. upset = {} /\ Without({"overlap"})'
    BY DEF Without
  <1>2. /\ \A s \in Requests \ {r} : req[s].at = "idle"
        /\ \A s \in Requests \ {r} : req'[s].at = "idle"
    BY <1>1, OnlyOne
  <1>3. (req'[r].at \notin {"read", "write"} => Credited' = Received') /\ Balanced(r)'
    BY <1>1, <1>2
  <1>4. \A s \in Requests \ {r} : Balanced(s)'
    BY <1>2 DEF Balanced
  <1> QED
    BY <1>3, <1>4

\* When it is none that reads or writes for the webhook, the books balance.
LEMMA BalancedBeside ==
    ASSUME ExactInv, upset = {}, NEW r \in Requests, \A s \in Requests \ {r} : req[s].at = "idle",
           req[r].at \notin {"read", "write"}
    PROVE  Credited = Received
  <1>1. \A s \in Requests : req[s].at \notin {"read", "write"}
    OBVIOUS
  <1> QED
    BY <1>1 DEF ExactInv

LEMMA ExactTurned ==
    ASSUME ExactInv, OrderInv, RefundInv, RefundInv', NEW r \in Requests, Turns(r) PROVE ExactInv'
  <1>1. upset' = {} => req[r].at \notin {"read", "write"}
    BY DEF Turns
  <1>2. Credited' = Credited
    BY DEF Credited, Paid, Charges, Total, Turns
  <1>3. Balanced(r)'
    BY DEF Balanced, Writing, Turns
  <1>4. upset' = {} => Received' = Received
    BY ReceivedSame DEF Turns, RefundInv, Calm, Without
  <1> QED
    BY <1>1, <1>2, <1>3, <1>4, BalancedBeside, ExactOf DEF Turns

LEMMA ExactUnturned ==
    ASSUME ExactInv, RefundInv, RefundInv', NothingIn PROVE ExactInv'
  <1> SUFFICES ASSUME upset' = {}
               PROVE  /\ (\A s \in Requests : req'[s].at \notin {"read", "write"}) => Credited' = Received'
                      /\ \A s \in Requests : Balanced(s)'
    BY DEF ExactInv
  <1>1. RentTyped /\ RentTyped' /\ \A s \in Requests : req[s].at # "idle" => req[s].pay \in Payments
    BY DEF RefundInv, RentTyped
  <1>2. Credited' = Credited /\ \A s \in Requests : Ends(s)' = Ends(s)
    BY DEF Credited, Paid, Charges, Ends, After, Total, NothingIn
  <1>3. Received' = Received
    BY <1>1, ReceivedSame DEF NothingIn
  <1>4. \A s \in Requests : req[s].at # "idle" => pay'[req[s].pay].amount = pay[req[s].pay].amount
    <2> SUFFICES ASSUME NEW s \in Requests, req[s].at # "idle"
                 PROVE  pay'[req[s].pay].amount = pay[req[s].pay].amount
      OBVIOUS
    <2> QED
      BY <1>1 DEF NothingIn
  <1>5. upset = {} /\ UNCHANGED req
    BY DEF NothingIn
  <1> QED
    BY <1>2, <1>3, <1>4, <1>5 DEF ExactInv, Balanced

LEMMA ExactPosted ==
    ASSUME ExactInv, ChargeInv, NEW type, NEW amount, NEW month,
           ledger' = Append(ledger, Charge(type, amount, month)), UNCHANGED <<pay, req, upset>>
    PROVE  ExactInv'
  <1>1. Credited' = Credited /\ \A r \in Requests : req[r].at \in Writing => Ends(r)' = Ends(r)
    BY EndsPosted
  <1>2. Received' = Received
    BY DEF Received, Total
  <1>3. \A r \in Requests : Balanced(r) => Balanced(r)'
    BY <1>1, <1>2 DEF Balanced, Writing
  <1> QED
    BY <1>1, <1>2, <1>3 DEF ExactInv

LEMMA EndsAre ==
    ASSUME NEW r \in Requests, NEW plan, req'[r].plan = plan, UNCHANGED ledger
    PROVE  Ends(r)' = Total(Leaves(plan), Charges)
  BY DEF Ends, After, Leaves, Charges, Total

LEMMA ExactKeptByComplete ==
    ASSUME ExactInv, OrderInv, RefundInv, RefundInv', ChargeInv, NEW r \in Requests, Complete(r) PROVE ExactInv'
  <1> DEFINE p == req[r].pay
  <1>1. /\ req[r].at = "succeeded" /\ UNCHANGED <<ledger, upset>> /\ p \in Payments /\ RentTyped /\ RentTyped'
        /\ pay' = [pay EXCEPT ![p].status = "completed"] /\ req' = [req EXCEPT ![r].at = "read"]
    BY DEF Complete, RefundInv, RentTyped
  <1>2. /\ req'[r].at = "read" /\ req'[r].pay = p /\ \A s \in Requests \ {r} : req'[s] = req[s]
    BY <1>1, Steps DEF Turned, RentPlaces
  <1>3. pay'[p].status = "completed" /\ pay'[p].amount = pay[p].amount
        /\ \A q \in Payments \ {p} : pay'[q] = pay[q]
    BY <1>1, MarkedAs, OneField DEF Booked
  <1>4. ASSUME upset = {}, \A s \in Requests \ {r} : req[s].at = "idle" PROVE Balanced(r)'
    <2>1. pay[p].status # "completed"
      BY <1>1, <1>4 DEF RefundInv, SucceedsOnce, Settled, Without
    <2>2. PICK a \in Nat : a = pay[p].amount
      BY <1>1, AmountIsNat
    <2>3. Received \in Nat /\ Received' \in Nat /\ Received' + Income[p] = Received + Income'[p]
      BY <1>1, <1>3, ReceivedChanges
    <2>4. Income[p] = 0 /\ Income'[p] = a
      BY <1>1, <1>3, <2>1, <2>2 DEF Income
    <2>5. Credited' = Credited /\ Credited = Received
      BY <1>1, <1>4, BalancedBeside DEF Credited, Paid, Charges, Total
    <2>6. PICK v \in Nat, w \in Nat : v = Received /\ w = Received'
      BY <2>3
    <2>7. w + 0 = v + a
      BY <2>3, <2>4, <2>6
    <2>8. w = v + a
      BY <2>7
    <2>9. Credited' + a = Received'
      BY <2>5, <2>6, <2>8
    <2> QED
      BY <1>2, <1>3, <2>2, <2>9 DEF Balanced
  <1> QED
    BY <1>1, <1>2, <1>4, ExactOf

LEMMA ExactKeptByRead ==
    ASSUME ExactInv, OrderInv, RefundInv, ChargeInv, NEW r \in Requests, ReadOpen(r) PROVE ExactInv'
  <1>1. /\ req[r].at = "read" /\ UNCHANGED <<ledger, pay>> /\ LedgerSound /\ RentTyped
        /\ upset \subseteq upset'
    BY DEF ReadOpen, Happens, RefundInv, ChargeInv
  <1>2. PICK a, plan :
            /\ a \in Nat
            /\ a = pay[req[r].pay].amount /\ plan = Credit(a) /\ Happens(Excess(a))
            /\ req' = [req EXCEPT ![r].at = "write", ![r].plan = plan]
    BY <1>1, AmountIsNat DEF ReadOpen
  <1>3. /\ req'[r].at = "write" /\ req'[r].plan = plan /\ \A s \in Requests \ {r} : req'[s] = req[s]
    BY <1>1, <1>2, PlanPutDown DEF RentPlaces
  <1>4. ASSUME upset = {}, upset' = {} PROVE Balanced(r)'
    <2>1. ~(a > Total(Owed, Open))
      BY <1>2, <1>4 DEF Happens, Excess
    <2>2. /\ Credited \in Nat /\ Total(Owed, Open) \in Nat
          /\ Total(Leaves(plan), Charges) = Credited + Least(a, Total(Owed, Open))
      BY <1>1, <1>2, CreditLeaves
    <2>3. Least(a, Total(Owed, Open)) = a
      BY <1>2, <2>1, <2>2 DEF Least
    <2>4. Credited + a = Received
      BY <1>1, <1>2, <1>4 DEF ExactInv, Balanced
    <2>5. Ends(r)' = Received /\ Received' = Received
      BY <1>1, <1>3, <2>2, <2>3, <2>4, EndsAre DEF Received, Total
    <2> QED
      BY <1>3, <2>5 DEF Balanced
  <1> QED
    BY <1>1, <1>3, <1>4, ExactOf

LEMMA ExactKeptByRecord ==
    ASSUME ExactInv, OrderInv, RefundInv, ChargeInv, NEW r \in Requests, RecordOffline(r) PROVE ExactInv'
  <1>1. UNCHANGED <<ledger, pay>> /\ LedgerSound /\ RentTyped
    BY DEF RecordOffline, RefundInv, ChargeInv
  <1>2. PICK p, a, new :
            /\ p \in Payments /\ a \in Amounts
            /\ new = [at |-> "commit", pay |-> p, amount |-> a, plan |-> Credit(a)]
            /\ Start(r, new, Excess(a))
    BY DEF RecordOffline
  <1>3. /\ req' = [req EXCEPT ![r] = new] /\ upset \subseteq upset' /\ req[r].at = "idle"
        /\ Excess(a) \subseteq upset'
    BY <1>2 DEF Start, Happens
  <1>4. PICK plan : plan = Credit(a)
    OBVIOUS
  <1>5. /\ req'[r].at = "commit" /\ req'[r].plan = plan /\ req'[r].amount = a
        /\ \A s \in Requests \ {r} : req'[s] = req[s]
    BY <1>1, <1>2, <1>3, <1>4 DEF RentTyped
  <1>6. ASSUME upset = {}, upset' = {}, \A s \in Requests \ {r} : req[s].at = "idle"
        PROVE  Credited' = Received' /\ Balanced(r)'
    <2>1. ~(a > Total(Owed, Open)) /\ a \in Nat
      BY <1>2, <1>3, <1>6, Money DEF Excess
    <2>2. /\ Credited \in Nat /\ Total(Owed, Open) \in Nat
          /\ Total(Leaves(plan), Charges) = Credited + Least(a, Total(Owed, Open))
      BY <1>1, <1>4, <2>1, CreditLeaves
    <2>3. Least(a, Total(Owed, Open)) = a
      BY <2>1, <2>2 DEF Least
    <2>4. Credited = Received
      BY <1>3, <1>6, BalancedBeside
    <2>5. Ends(r)' = Received + a /\ Received' = Received /\ Credited' = Credited
      BY <1>1, <1>5, <2>2, <2>3, <2>4, EndsAre DEF Received, Credited, Paid, Charges, Total
    <2> QED
      BY <1>5, <2>4, <2>5 DEF Balanced
  <1> QED
    BY <1>2, <1>3, <1>5, <1>6, ExactOf

\* What is written is what the request was to leave.
LEMMA CreditedAsPlanned ==
    ASSUME NEW r \in Requests, ledger' = Written(req[r].plan) PROVE Credited' = Ends(r)
  <1>1. Charges' = Charges /\ \A i \in Charges : ledger'[i] = After(r, i)
    BY DEF Written, After, Charges
  <1>2. Paid' = [i \in Charges |-> After(r, i).paid]
    BY <1>1 DEF Paid
  <1> QED
    BY <1>1, <1>2 DEF Credited, Ends, Total

LEMMA ExactKeptByCommit ==
    ASSUME ExactInv, OrderInv, RefundInv, RefundInv', ChargeInv, NEW r \in Requests, CommitOffline(r)
    PROVE  ExactInv'
  <1> DEFINE p == req[r].pay
             plan == req[r].plan
  <1>1. /\ req[r].at = "commit" /\ upset \subseteq upset' /\ RentTyped /\ RentTyped'
        /\ ledger' = Written(plan) /\ p \in Payments /\ End(r)
        /\ pay' = [pay EXCEPT ![p] = [status |-> "completed", amount |-> req[r].amount, id |-> FALSE]]
    BY DEF CommitOffline, RefundInv, RentTyped
  <1>2. req'[r].at = "idle" /\ \A s \in Requests \ {r} : req'[s] = req[s]
    BY <1>1, Ended DEF Turned
  <1>3. /\ pay'[p].status = "completed" /\ pay'[p].amount = req[r].amount
        /\ \A q \in Payments \ {p} : pay'[q] = pay[q]
    BY <1>1 DEF RentTyped
  <1>4. PICK a \in Nat : a = req[r].amount
    <2>1. req[r].amount \in Amounts \union {0}
      BY <1>1 DEF RentTyped, Asked
    <2>2. ASSUME NEW n, n \in Amounts \union {0} PROVE n \in Nat
      BY <2>2, Money
    <2> QED
      BY <2>1, <2>2
  <1>5. ASSUME upset = {} PROVE Credited' = Received'
    <2>1. Ends(r) = Received + a
      BY <1>1, <1>4, <1>5 DEF ExactInv, Balanced
    <2>2. Received \in Nat /\ Received' \in Nat /\ Received' + Income[p] = Received + Income'[p]
      BY <1>1, <1>3, ReceivedChanges
    <2>3. Income[p] = 0 /\ Income'[p] = a
      BY <1>1, <1>3, <1>4 DEF Income, RefundInv, RequestRows, Works
    <2>4. PICK v \in Nat, w \in Nat : v = Received /\ w = Received'
      BY <2>2
    <2>5. w + 0 = v + a
      BY <2>2, <2>3, <2>4
    <2>6. w = v + a
      BY <2>5
    <2>7. Credited' = Ends(r)
      BY <1>1, CreditedAsPlanned
    <2> QED
      BY <2>1, <2>4, <2>6, <2>7
  <1>6. Balanced(r)'
    BY <1>2 DEF Balanced
  <1> QED
    BY <1>1, <1>2, <1>5, <1>6, ExactOf

LEMMA ExactKeptByWrite ==
    ASSUME ExactInv, OrderInv, RefundInv, ChargeInv, NEW r \in Requests, WriteCharge(r) PROVE ExactInv'
  <1>1. req[r].at = "write" /\ UNCHANGED <<pay, upset>> /\ Received' = Received
    BY DEF WriteCharge, Received, Total
  <1>2. CASE DOMAIN req[r].plan = {}
    <2>1. UNCHANGED ledger /\ req'[r].at = "idle" /\ \A s \in Requests \ {r} : req'[s] = req[s]
      BY <1>2, WritesNone
    <2>2. ASSUME upset = {} PROVE Credited' = Received'
      <3>1. Ends(r) = Received
        BY <1>1, <2>2 DEF ExactInv, Balanced
      <3>2. Credited' = Ends(r)
        BY <1>2, <2>1 DEF Credited, Paid, Ends, After, Charges, Total
      <3> QED
        BY <1>1, <3>1, <3>2
    <2>3. Balanced(r)'
      BY <2>1 DEF Balanced
    <2> QED
      BY <1>1, <2>1, <2>2, <2>3, ExactOf
  <1>3. CASE DOMAIN req[r].plan # {}
    <2>1. PICK i, plan : Updates(r, i, plan)
      BY <1>3, WritesOne
    <2>2. \A j \in Charges : After(r, j)' = After(r, j)
      BY <2>1 DEF After, Updates
    <2>3. Ends(r)' = Ends(r)
      BY <2>1, <2>2 DEF Ends, Total, Updates
    <2>4. upset = {} => Balanced(r)'
      BY <1>1, <2>1, <2>3 DEF ExactInv, Balanced, Updates
    <2> QED
      BY <1>1, <2>1, <2>4, ExactOf DEF Updates
  <1> QED
    BY <1>2, <1>3

\* A completed payment's amount is among what came in.
LEMMA ReceivedHolds ==
    ASSUME RentTyped, NEW p \in Payments, pay[p].status = "completed"
    PROVE  pay[p].amount \in Nat /\ Received \in Nat /\ pay[p].amount <= Received
  <1>1. \A q \in Payments : Income[q] \in Nat
    BY IncomeIsNat DEF IncomeTyped
  <1>2. PICK f : f = Income
    OBVIOUS
  <1>3. {} \in SUBSET Payments /\ p \notin {} /\ \A q \in Payments : f[q] \in Nat
    BY <1>1, <1>2
  <1>4. Total(f, {}) \in Nat /\ Total(f, Payments) \in Nat /\ Total(f, {}) + f[p] <= Total(f, Payments)
    BY <1>3, SumPart, PaymentsFinite
  <1>5. f[p] = pay[p].amount /\ f[p] \in Nat
    BY <1>1, <1>2 DEF Income
  <1>6. f[p] <= Total(f, Payments)
    BY <1>4, <1>5
  <1> QED
    BY <1>2, <1>5, <1>6, ReceivedIs DEF ReceivedTyped

LEMMA ExactKeptByReadPaid ==
    ASSUME ExactInv, OrderInv, RaceInv, RefundInv, ChargeInv, NEW r \in Requests, ReadPaid(r) PROVE ExactInv'
  <1>1. req[r].at = "reverse" /\ UNCHANGED <<ledger, pay, upset>> /\ LedgerSound /\ RentTyped
    BY DEF ReadPaid, RefundInv, ChargeInv
  <1>2. PICK a, plan :
            /\ a \in Nat
            /\ a = pay[req[r].pay].amount /\ plan = Reversal(a)
            /\ req' = [req EXCEPT ![r].at = "commit_refund", ![r].plan = plan]
    BY <1>1, AmountIsNat DEF ReadPaid
  <1>3. /\ req'[r].at = "commit_refund" /\ req'[r].plan = plan /\ req'[r].pay = req[r].pay
        /\ \A s \in Requests \ {r} : req'[s] = req[s]
    BY <1>1, <1>2, PlanPutDown DEF RentPlaces
  <1>4. ASSUME upset = {}, \A s \in Requests \ {r} : req[s].at = "idle"
        PROVE  Credited' = Received' /\ Balanced(r)'
    <2>1. pay[req[r].pay].status = "completed" /\ req[r].pay \in Payments
      BY <1>1, <1>4 DEF RaceInv, RefundAlone, RefundPlaces, Calm, Without, RentTyped
    <2>2. Received \in Nat /\ a <= Received
      BY <1>1, <1>2, <2>1, ReceivedHolds
    <2>3. Credited = Received
      BY <1>1, <1>4, BalancedBeside
    <2>4. PICK e : e = Total(Leaves(plan), Charges)
      OBVIOUS
    <2>5. e \in Nat /\ e + Least(a, Credited) = Credited
      BY <1>1, <1>2, <2>4, ReversalLeaves
    <2>6. Least(a, Credited) = a
      BY <1>2, <2>2, <2>3 DEF Least
    <2>7. Ends(r)' + a = Received /\ Received' = Received /\ Credited' = Credited
      BY <1>1, <1>3, <2>3, <2>4, <2>5, <2>6, EndsAre DEF Received, Credited, Paid, Charges, Total
    <2> QED
      BY <1>1, <1>2, <1>3, <2>3, <2>7 DEF Balanced
  <1> QED
    BY <1>1, <1>3, <1>4, ExactOf

LEMMA ExactKeptByCommitRefund ==
    ASSUME ExactInv, OrderInv, RaceInv, RefundInv, RefundInv', ChargeInv, NEW r \in Requests, CommitRefund(r)
    PROVE  ExactInv'
  <1> DEFINE p == req[r].pay
             plan == req[r].plan
  <1>1. /\ req[r].at = "commit_refund" /\ upset \subseteq upset' /\ RentTyped /\ RentTyped'
        /\ ledger' = Written(plan) /\ p \in Payments /\ End(r)
        /\ pay' = [pay EXCEPT ![p].status = "refunded"]
    BY DEF CommitRefund, RefundInv, RentTyped
  <1>2. req'[r].at = "idle" /\ \A s \in Requests \ {r} : req'[s] = req[s]
    BY <1>1, Ended DEF Turned
  <1>3. pay'[p].status = "refunded" /\ \A q \in Payments \ {p} : pay'[q] = pay[q]
    BY <1>1, MarkedAs DEF Booked
  <1>4. ASSUME upset = {} PROVE Credited' = Received'
    <2>1. pay[p].status = "completed"
      BY <1>1, <1>4 DEF RaceInv, RefundAlone, RefundPlaces, Calm, Without
    <2>2. PICK a \in Nat : a = pay[p].amount
      BY <1>1, AmountIsNat
    <2>3. Ends(r) + a = Received
      BY <1>1, <1>4, <2>2 DEF ExactInv, Balanced
    <2>4. Received \in Nat /\ Received' \in Nat /\ Received' + Income[p] = Received + Income'[p]
      BY <1>1, <1>3, ReceivedChanges
    <2>5. Income[p] = a /\ Income'[p] = 0
      BY <1>1, <1>3, <2>1, <2>2 DEF Income
    <2>6. PICK v \in Nat, w \in Nat : v = Received /\ w = Received'
      BY <2>4
    <2>7. w + a = v + 0
      BY <2>4, <2>5, <2>6
    <2>8. PICK e \in Nat : e = Ends(r)
      <3>1. IsFiniteSet(Charges) /\ \A i \in Charges : After(r, i).paid \in Nat
        BY <1>1, AfterIs, Accounts DEF ChargeInv, Writing
      <3>2. PICK f : f = [i \in Charges |-> After(r, i).paid]
        OBVIOUS
      <3>3. \A i \in Charges : f[i] \in Nat
        BY <3>1, <3>2
      <3> QED
        BY <3>1, <3>2, <3>3, SumNat DEF Ends
    <2>9. e + a = v
      BY <2>3, <2>6, <2>8
    <2>10. w = e
      BY <2>7, <2>9
    <2>11. Credited' = Ends(r)
      BY <1>1, CreditedAsPlanned
    <2> QED
      BY <2>6, <2>8, <2>10, <2>11
  <1>5. Balanced(r)'
    BY <1>2 DEF Balanced
  <1> QED
    BY <1>1, <1>2, <1>4, <1>5, ExactOf

LEMMA ExactKept ==
    ASSUME ExactInv, OrderInv, RaceInv, RefundInv, RefundInv', ChargeInv, [Next]_vars PROVE ExactInv'
  <1>1. CASE UNCHANGED <<ledger, pay, req>>
    BY <1>1, UpsetGrows, ExactUnturned DEF NothingIn
  <1>2. CASE PostRent
    <2>1. PICK m : m = months'
      OBVIOUS
    <2>2. ledger' = Append(ledger, Charge("rent", Rent, m)) /\ UNCHANGED <<pay, req, upset>>
      BY <1>2, <2>1 DEF PostRent
    <2> QED
      BY <2>2, ExactPosted
  <1>3. CASE ChargeFee
    <2>1. \/ UNCHANGED <<ledger, pay, req>>
          \/ \E m : ledger' = Append(ledger, Charge("late_fee", Fee, m)) /\ UNCHANGED <<pay, req, upset>>
      BY <1>3 DEF ChargeFee
    <2> QED
      BY <1>1, <2>1, ExactPosted
  <1>4. CASE FindOverdue \/ UNCHANGED vars
    BY <1>1, <1>4 DEF FindOverdue, vars
  <1>5. ASSUME NEW r \in Requests,
               \/ Deliver(r) \/ Mark(r) \/ Complete(r) \/ ReadOpen(r) \/ WriteCharge(r) \/ Throw(r)
               \/ RecordOffline(r) \/ CommitOffline(r)
               \/ Refund(r) \/ RefundAtStripe(r) \/ ReadPaid(r) \/ CommitRefund(r) \/ AbortRefund(r)
        PROVE  ExactInv'
    BY <1>5, RequestsTurn, ExactTurned, ExactUnturned, ExactKeptByComplete, ExactKeptByRead,
       ExactKeptByWrite, ExactKeptByRecord, ExactKeptByCommit, ExactKeptByReadPaid, ExactKeptByCommitRefund
  <1>6. ASSUME NEW p \in Payments, CreatePayment(p) \/ CreateIntent(p) \/ StoreId(p) \/ Settle(p)
        PROVE  ExactInv'
    BY <1>6, PaymentsBringNothing, ExactUnturned DEF RefundInv
  <1> QED
    BY <1>2, <1>3, <1>4, <1>5, <1>6 DEF Next

LEMMA ExactStarts == Init => ExactInv
  <1> SUFFICES ASSUME Init PROVE ExactInv
    OBVIOUS
  <1>1. /\ Charges = {} /\ \A r \in Requests : req[r].at = "idle"
        /\ \A p \in Payments : pay[p].status = "none"
    BY DEF Init, Idle, Unborn, Charges
  <1>2. Credited = 0
    <2>1. PICK f : f = Paid
      OBVIOUS
    <2>2. \A i \in Charges : f[i] = 0
      BY <1>1
    <2> QED
      BY <1>1, <2>1, <2>2, SumZero, FS_EmptySet DEF Credited
  <1>3. Received = 0
    <2>1. PICK f : f = Income
      OBVIOUS
    <2>2. \A p \in Payments : f[p] = 0
      BY <1>1, <2>1 DEF Income
    <2>3. Total(f, Payments) = 0
      BY <2>2, SumZero, PaymentsFinite
    <2> QED
      BY <2>1, <2>3, RefundStarts, ReceivedIs DEF RefundInv, ReceivedTyped
  <1> QED
    BY <1>1, <1>2, <1>3 DEF ExactInv, Balanced

LEMMA ExactHolds == Spec => []ExactInv
  BY ExactStarts, ExactKept, OrderHolds, RaceHolds, ChargesHold, RefundHolds, PTL DEF Spec

LEMMA BooksBalance == ChargeInv /\ RefundInv /\ RaceInv /\ ExactInv => Conserved
  BY RacesStand, ExactStands DEF Conserved, Calm

LEMMA ConservedHolds == Spec => []Conserved
  BY BooksBalance, ExactHolds, RaceHolds, ChargesHold, RefundHolds, PTL

-----------------------------------------------------------------------------
(* Through races, repeats and half-done handlers no charge is paid twice over *)
(* or below nothing, its status says what was paid, and a month has one rent  *)
(* and one fee.                                                               *)
THEOREM ChargesAreConsistent == LandlordSpec => []ChargeIsConsistent
  BY ChargesStand, ChargesHold, RentAlone, PTL

(* As long as requests do not overlap, a charge has money only if every older *)
(* one is paid, also after refunds, repeats and half-done handlers.           *)
THEOREM OldestIsFirst == LandlordSpec => []OldestFirst
  <1>1. OrderInv => OldestFirst
    BY DEF OrderInv, OldestFirst, Fifo
  <1> QED
    BY <1>1, OrderHolds, RentAlone, PTL

(* Overlapping payments may lose a credit but never invent one: what the      *)
(* charges say was paid never exceeds what completed payments brought in,     *)
(* unless an event was repeated, a late one overwrote a settled payment or a  *)
(* refund ran beside another request.  Undisturbed, the two are equal         *)
(* whenever no request runs.                                                  *)
THEOREM MoneyConserved == LandlordSpec => []Conserved
  BY ConservedHolds, RentAlone, PTL
=============================================================================
