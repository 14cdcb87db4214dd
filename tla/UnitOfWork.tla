----------------------------- MODULE UnitOfWork -----------------------------
(* The discipline of the use cases that raise domain events.  A request     *)
(* loads its own object of an aggregate, raises events on it, has the       *)
(* repository write it and then dispatches by identity; a query that fails  *)
(* ends the request early, with its object still marked.  Meanwhile the     *)
(* process starts: subscriptions are registered after the HTTP server       *)
(* already listens.                                                         *)
EXTENDS DomainEvents

CONSTANTS Subscriptions,  \* <<callback, class>> pairs, in registration order
          MaxEvents       \* bound on the events one object raises

ASSUME IdOfAssumption == IdOf \in [Aggregates -> Ids]
ASSUME SubscriptionsAssumption == Subscriptions \in Seq(Handlers \X EventClasses)
ASSUME MaxEventsAssumption == MaxEvents \in Nat

VARIABLES phase,       \* progress of the request that loaded each object
          subscribed   \* how many subscriptions are registered

vars == <<dispatcherVars, phase, subscribed>>

Phases == {"unloaded", "loaded", "written", "failed", "done"}

TypeOK == /\ DispatcherTypeOK
          /\ phase \in [Aggregates -> Phases]
          /\ subscribed \in 0..Len(Subscriptions)

Init == /\ DispatcherInit
        /\ phase = [a \in Aggregates |-> "unloaded"]
        /\ subscribed = 0

\* domainEventsRegisterLoader runs the subscriptions' constructors in turn.
SetupSubscription ==
  /\ subscribed < Len(Subscriptions)
  /\ LET s == Subscriptions[subscribed + 1] IN Register(s[1], s[2])
  /\ subscribed' = subscribed + 1
  /\ UNCHANGED phase

\* The repository's getById builds a new object: it has no events.
Load(a) ==
  /\ phase[a] = "unloaded"
  /\ phase' = [phase EXCEPT ![a] = "loaded"]
  /\ UNCHANGED <<dispatcherVars, subscribed>>

\* A mutator of the aggregate, before or after the write.
Raise(a, c) ==
  /\ phase[a] \in {"loaded", "written"}
  /\ raised[a] < MaxEvents
  /\ AddDomainEvent(a, c)
  /\ UNCHANGED <<phase, subscribed>>

\* The repository's update or save succeeds.
Commit(a) ==
  /\ phase[a] = "loaded"
  /\ phase' = [phase EXCEPT ![a] = "written"]
  /\ UNCHANGED <<dispatcherVars, subscribed>>

\* A query fails and the use case returns a left.
Fail(a) ==
  /\ phase[a] \in {"loaded", "written"}
  /\ phase' = [phase EXCEPT ![a] = "failed"]
  /\ UNCHANGED <<dispatcherVars, subscribed>>

\* The use case's last step.
DispatchEvents(a) ==
  /\ phase[a] = "written"
  /\ DispatchEventsForAggregate(IdOf[a])
  /\ phase' = [phase EXCEPT ![a] = "done"]
  /\ UNCHANGED subscribed

Next == \/ SetupSubscription
        \/ \E a \in Aggregates :
             \/ Load(a)
             \/ \E c \in EventClasses : Raise(a, c)
             \/ Commit(a)
             \/ Fail(a)
             \/ DispatchEvents(a)

Spec == Init /\ [][Next]_vars
-----------------------------------------------------------------------------
\* How many of its events, oldest first, an object has had dispatched.
Delivered(a) == raised[a] - Len(domainEvents[a])

\* No event is dispatched twice, skipped or overtaken by a later event of its
\* object, whichever requests interleave: the log holds the first Delivered(a)
\* events of every object a in the order raised, and the object holds the rest.
DeliveredInOrder ==
  /\ \A j, k \in DOMAIN dispatched :
       (j < k /\ dispatched[j].event.source = dispatched[k].event.source)
         => dispatched[j].event.number < dispatched[k].event.number
  /\ \A a \in Aggregates : \A n \in 1..Delivered(a) :
       \E k \in DOMAIN dispatched : /\ dispatched[k].event.source = a
                                    /\ dispatched[k].event.number = n
  /\ \A k \in DOMAIN dispatched :
       dispatched[k].event.number <= Delivered(dispatched[k].event.source)
  /\ \A a \in Aggregates : \A k \in DOMAIN domainEvents[a] :
       /\ domainEvents[a][k].source = a
       /\ domainEvents[a][k].number = Delivered(a) + k

\* When no other object of the same aggregate has raised an event, a request
\* that wrote its object and dispatched leaves none of its events behind.
SoleWriterDelivers ==
  \A a \in Aggregates :
    ( /\ phase[a] = "done"
      /\ \A b \in Aggregates \ {a} : IdOf[b] = IdOf[a] => raised[b] = 0 )
    => domainEvents[a] = <<>>

\* The dispatcher implements the delivery its callers may rely on.
Delivery == INSTANCE EventDelivery
              WITH delivered <- [a \in Aggregates |-> Delivered(a)]
ImplementsEventDelivery == Delivery!Spec

\* "... domain events to eventually be dispatched when the infrastructure
\* commits the unit of work" (DomainEvents.ts): after a request has written
\* its object and dispatched, none of the object's events is left.
CommittedEventsDispatched ==
  \A a \in Aggregates : phase[a] = "done" => domainEvents[a] = <<>>
=============================================================================
