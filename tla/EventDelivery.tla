--------------------------- MODULE EventDelivery ---------------------------
(* What a use case may rely on from the dispatcher of domain events: the    *)
(* events an aggregate object raises are delivered without repetition and   *)
(* in the order it raised them, and a delivery takes everything the object  *)
(* has raised so far.  Delivery is not promised: an object may be passed    *)
(* over for ever.                                                           *)
EXTENDS Naturals

CONSTANT Aggregates       \* the aggregate objects in memory

VARIABLES raised,         \* how many events each object has raised
          delivered       \* how many of them, oldest first, were delivered

vars == <<raised, delivered>>

TypeOK == /\ raised \in [Aggregates -> Nat]
          /\ delivered \in [Aggregates -> Nat]

Init == /\ raised = [a \in Aggregates |-> 0]
        /\ delivered = [a \in Aggregates |-> 0]

Raise(a) == /\ raised' = [raised EXCEPT ![a] = @ + 1]
            /\ UNCHANGED delivered

Deliver(a) == /\ delivered[a] < raised[a]
              /\ delivered' = [delivered EXCEPT ![a] = raised[a]]
              /\ UNCHANGED raised

Next == \E a \in Aggregates : Raise(a) \/ Deliver(a)

Spec == Init /\ [][Next]_vars
=============================================================================
