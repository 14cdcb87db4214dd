---------------------------- MODULE DomainEvents ----------------------------
(* The process-wide dispatcher of domain events: the static class           *)
(* DomainEvents and the event list of every AggregateRoot object.  The      *)
(* operations are actions over the dispatcher's state; the use cases that   *)
(* call them are modelled in the modules that extend or instantiate this    *)
(* one.  Several objects in memory may stand for one aggregate: every       *)
(* request loads its own.                                                   *)
EXTENDS Naturals, Sequences, SequencesExt

CONSTANTS Aggregates,     \* aggregate objects in memory
          Ids,            \* identities of aggregates
          IdOf,           \* the identity of every object
          EventClasses,   \* classes of events
          Handlers        \* callbacks of the subscriptions

VARIABLES handlersMap,       \* callbacks of every event class, in order
          markedAggregates,  \* objects waiting for a dispatch, in order
          domainEvents,      \* the undispatched events of every object
          raised,            \* history: how many events every object raised
          dispatched         \* history: events dispatched, with the callbacks called

dispatcherVars ==
  <<handlersMap, markedAggregates, domainEvents, raised, dispatched>>

\* An event names the object that raised it and its place among that
\* object's events.
Event == [source : Aggregates, number : Nat \ {0}, class : EventClasses]

DispatcherTypeOK ==
  /\ handlersMap \in [EventClasses -> Seq(Handlers)]
  /\ markedAggregates \in Seq(Aggregates)
  /\ domainEvents \in [Aggregates -> Seq(Event)]
  /\ raised \in [Aggregates -> Nat]
  /\ dispatched \in Seq([event : Event, callbacks : Seq(Handlers)])

DispatcherInit ==
  /\ handlersMap = [c \in EventClasses |-> <<>>]
  /\ markedAggregates = <<>>
  /\ domainEvents = [a \in Aggregates |-> <<>>]
  /\ raised = [a \in Aggregates |-> 0]
  /\ dispatched = <<>>

-----------------------------------------------------------------------------
\* The places of the marked list that hold an object with this identity.
PlacesOf(id) == {k \in DOMAIN markedAggregates : IdOf[markedAggregates[k]] = id}

\* findMarkedAggregateByID keeps the last match of its loop.
FindMarkedAggregateByID(id) ==
  CHOOSE k \in PlacesOf(id) : \A j \in PlacesOf(id) : j <= k

\* removeAggregateFromMarkedDispatchList removes the first match.
FirstMarkedAggregate(id) ==
  CHOOSE k \in PlacesOf(id) : \A j \in PlacesOf(id) : k <= j

\* Mutant: the marked list is not searched first.
MarkWithoutSearch(a) == Append(markedAggregates, a)

\* An object is marked only when no object with its identity is.
MarkAggregateForDispatch(a) ==
  IF PlacesOf(IdOf[a]) = {}
    THEN Append(markedAggregates, a)
    ELSE markedAggregates

\* Mutant: the object is never marked.
AddUnmarked(a, c) ==
  /\ raised' = [raised EXCEPT ![a] = @ + 1]
  /\ domainEvents' = [domainEvents EXCEPT ![a] =
       Append(@, [source |-> a, number |-> raised[a] + 1, class |-> c])]
  /\ UNCHANGED <<handlersMap, markedAggregates, dispatched>>

\* Mutant: the event replaces the ones before it.
AddReplacing(a, c) ==
  /\ raised' = [raised EXCEPT ![a] = @ + 1]
  /\ domainEvents' = [domainEvents EXCEPT ![a] =
       <<[source |-> a, number |-> raised[a] + 1, class |-> c]>>]
  /\ markedAggregates' = MarkAggregateForDispatch(a)
  /\ UNCHANGED <<handlersMap, dispatched>>

\* AggregateRoot.addDomainEvent
AddDomainEvent(a, c) ==
  /\ raised' = [raised EXCEPT ![a] = @ + 1]
  /\ domainEvents' = [domainEvents EXCEPT ![a] =
       Append(@, [source |-> a, number |-> raised[a] + 1, class |-> c])]
  /\ markedAggregates' = MarkAggregateForDispatch(a)
  /\ UNCHANGED <<handlersMap, dispatched>>

\* Mutators that raise events of these classes one after the other, without an
\* await in between.
AddDomainEvents(a, classes) ==
  /\ raised' = [raised EXCEPT ![a] = @ + Len(classes)]
  /\ domainEvents' = [domainEvents EXCEPT ![a] = @ \o
       [k \in DOMAIN classes |->
          [source |-> a, number |-> raised[a] + k, class |-> classes[k]]]]
  /\ markedAggregates' = MarkAggregateForDispatch(a)
  /\ UNCHANGED <<handlersMap, dispatched>>

\* dispatch: the event goes to every callback registered for its class.
Dispatch(e) == [event |-> e, callbacks |-> handlersMap[e.class]]

DispatchAggregateEvents(a) ==
  [k \in DOMAIN domainEvents[a] |-> Dispatch(domainEvents[a][k])]

\* Mutant: clearEvents is forgotten.
DispatchWithoutClearing(id) ==
  \/ /\ PlacesOf(id) = {}
     /\ UNCHANGED dispatcherVars
  \/ /\ PlacesOf(id) # {}
     /\ dispatched' = dispatched \o
          DispatchAggregateEvents(markedAggregates[FindMarkedAggregateByID(id)])
     /\ markedAggregates' = RemoveAt(markedAggregates, FirstMarkedAggregate(id))
     /\ UNCHANGED <<handlersMap, domainEvents, raised>>

\* dispatchEventsForAggregate: the dispatch of the marked object, whichever
\* it is, that has this identity; without one it does nothing.
DispatchEventsForAggregate(id) ==
  \/ /\ PlacesOf(id) = {}
     /\ UNCHANGED dispatcherVars
  \/ /\ PlacesOf(id) # {}
     /\ LET found == markedAggregates[FindMarkedAggregateByID(id)]
        IN  /\ dispatched' = dispatched \o DispatchAggregateEvents(found)
            /\ domainEvents' = [domainEvents EXCEPT ![found] = <<>>]
     /\ markedAggregates' = RemoveAt(markedAggregates, FirstMarkedAggregate(id))
     /\ UNCHANGED <<handlersMap, raised>>

\* A mutator that raises an event and the dispatch right after it, without an
\* await between the two, as the use cases that write first do.
RaiseAndDispatch(a, c) ==
  LET e       == [source |-> a, number |-> raised[a] + 1, class |-> c]
      pending == [domainEvents EXCEPT ![a] = Append(@, e)]
      marked  == MarkAggregateForDispatch(a)
      place   == CHOOSE k \in DOMAIN marked : IdOf[marked[k]] = IdOf[a]
      found   == marked[place]
  IN  /\ raised' = [raised EXCEPT ![a] = @ + 1]
      /\ dispatched' = dispatched \o
           [k \in DOMAIN pending[found] |-> Dispatch(pending[found][k])]
      /\ domainEvents' = [pending EXCEPT ![found] = <<>>]
      /\ markedAggregates' = RemoveAt(marked, place)
      /\ UNCHANGED handlersMap

\* Mutant: the class is stored in place of the callback.
RegisterClass(h, c) ==
  /\ handlersMap' = [handlersMap EXCEPT ![c] = Append(@, c)]
  /\ UNCHANGED <<markedAggregates, domainEvents, raised, dispatched>>

\* register, called once by every subscription when the process starts
Register(h, c) ==
  /\ handlersMap' = [handlersMap EXCEPT ![c] = Append(@, h)]
  /\ UNCHANGED <<markedAggregates, domainEvents, raised, dispatched>>
-----------------------------------------------------------------------------
\* No two marked objects stand for the same aggregate, so the object that
\* dispatchEventsForAggregate finds and the place it frees belong together
\* (findMarkedAggregateByID keeps the last match, the removal takes the first).
MarkedUnique ==
  \A j, k \in DOMAIN markedAggregates :
    IdOf[markedAggregates[j]] = IdOf[markedAggregates[k]] => j = k
=============================================================================
