------------------------------ MODULE Landlord ------------------------------
(***************************************************************************)
(* Three parts of the dashboard that share no row: the rent account, the   *)
(* subscription to the platform, and the property's number and tours.  A   *)
(* behaviour is one of the three ("scene"), so that the state space of the *)
(* whole is their sum and not their product.                               *)
(***************************************************************************)
EXTENDS RentLedger

CONSTANTS
    Limit, Casts, Ids, None, MaxProperties, MaxEvents, PlanUpsets, MaxPlanUpsets,
    Properties, Numbers, Times, Bookings, MaxPlaceUpsets

VARIABLES
    scene,
    row, stripe, queue, sent, count, planReq, planStray, planUpset,
    property, carrier, booking, placeReq, placeUpsets, placeStray, double, cast

planVars  == <<row, stripe, queue, sent, count, planReq, planStray, planUpset>>
placeVars == <<property, carrier, booking, placeReq, placeUpsets, placeStray, double, cast>>

Plan == INSTANCE Subscription WITH
    Upsets <- PlanUpsets, MaxUpsets <- MaxPlanUpsets,
    req <- planReq, stray <- planStray, upset <- planUpset

Place == INSTANCE Premises WITH
    MaxUpsets <- MaxPlaceUpsets, req <- placeReq, upsets <- placeUpsets, stray <- placeStray

ASSUME PlanSizes == Plan!Sizes
ASSUME PlaceBudget == Place!UpsetBudget

\* None is no row's key.
ASSUME NoneIsNobody ==
    None \notin Ids \union Properties \union Numbers \union Times \union Bookings

LandlordInit ==
    /\ scene \in {"rent", "plan", "place"}
    /\ Init
    /\ Plan!Init
    /\ Place!Init
    /\ scene # "place" => cast = (CHOOSE c \in Casts : TRUE)   \* it has no part there

LandlordNext ==
    /\ \/ scene = "rent"  /\ Next       /\ UNCHANGED <<planVars, placeVars>>
       \/ scene = "plan"  /\ Plan!Next  /\ UNCHANGED <<vars, placeVars>>
       \/ scene = "place" /\ Place!Next /\ UNCHANGED <<vars, planVars>>
    /\ UNCHANGED scene

LandlordSpec == LandlordInit /\ [][LandlordNext]_<<scene, vars, planVars, placeVars>>

-----------------------------------------------------------------------------
(* The subscription's row and Stripe agree (Subscription).                   *)
AgreesWithStripe == Plan!AgreesWithStripe

(* No more properties than the plan allows (Subscription).                   *)
WithinPlan == Plan!WithinPlan

(* Numbers billed and numbers assigned are the same (Premises).              *)
NumbersHeld == Place!NumbersHeld

(* One tour at a time on a property (Premises).                              *)
BookedOnce == Place!BookedOnce
=============================================================================
