------------------------- MODULE DomainEventsProofs -------------------------
(* What the dispatcher's operations keep, whoever calls them: the types of  *)
(* its state and the uniqueness of marks.  First some facts about sequences. *)
EXTENDS DomainEvents, TLAPS, SequenceTheorems

\* Removing place i shifts the later places down by one.
LEMMA RemoveAtProperties ==
  ASSUME NEW S, NEW s \in Seq(S), NEW i \in 1..Len(s)
  PROVE  /\ RemoveAt(s, i) \in Seq(S)
         /\ Len(RemoveAt(s, i)) = Len(s) - 1
         /\ \A k \in 1..(Len(s) - 1) :
              RemoveAt(s, i)[k] = IF k < i THEN s[k] ELSE s[k + 1]
<1> DEFINE front == SubSeq(s, 1, i - 1)
           back == SubSeq(s, i + 1, Len(s))
<1>1. /\ front \in Seq(S)
      /\ Len(front) = i - 1
      /\ \A k \in 1..(i - 1) : front[k] = s[k]
  OBVIOUS
<1>2. /\ back \in Seq(S)
      /\ Len(back) = Len(s) - i
      /\ \A k \in 1..(Len(s) - i) : back[k] = s[i + k]
  OBVIOUS
<1>3. RemoveAt(s, i) = front \o back
  BY DEF RemoveAt
<1> HIDE DEF front, back
<1>4. /\ front \o back \in Seq(S)
      /\ Len(front \o back) = Len(front) + Len(back)
      /\ \A k \in 1..(Len(front) + Len(back)) :
           (front \o back)[k] = IF k <= Len(front) THEN front[k]
                                                   ELSE back[k - Len(front)]
  BY <1>1, <1>2, ConcatProperties
<1>5. Len(s) \in Nat /\ i \in Nat
  OBVIOUS
<1>6. ASSUME NEW k \in 1..(Len(s) - 1)
      PROVE  (front \o back)[k] = IF k < i THEN s[k] ELSE s[k + 1]
  <2>1. CASE k < i
    BY <2>1, <1>1, <1>2, <1>4, <1>5
  <2>2. CASE ~(k < i)
    <3>1. (front \o back)[k] = back[k - (i - 1)]
      <4>1. k \in 1..(Len(front) + Len(back)) /\ ~(k <= Len(front))
        BY <2>2, <1>1, <1>2, <1>5
      <4> QED BY <4>1, <1>1, <1>4
    <3>2. back[k - (i - 1)] = s[i + (k - (i - 1))]
      BY <2>2, <1>2, <1>5
    <3> QED BY <3>1, <3>2, <2>2, <1>5
  <2> QED BY <2>1, <2>2
<1>7. Len(front \o back) = Len(s) - 1
  BY <1>1, <1>2, <1>4, <1>5
<1> QED BY <1>3, <1>4, <1>6, <1>7

\* Appending adds one place at the end.
LEMMA AppendPlaces ==
  ASSUME NEW S, NEW s \in Seq(S), NEW e \in S
  PROVE  /\ Append(s, e) \in Seq(S)
         /\ Len(Append(s, e)) = Len(s) + 1
         /\ DOMAIN Append(s, e) = 1..(Len(s) + 1)
         /\ \A k \in 1..Len(s) : Append(s, e)[k] = s[k]
         /\ Append(s, e)[Len(s) + 1] = e
OBVIOUS

\* A function on 1..n is a sequence of n elements.
LEMMA FunctionIsSeq ==
  ASSUME NEW S, NEW n \in Nat, NEW g \in [1..n -> S]
  PROVE  g \in Seq(S) /\ Len(g) = n
<1>1. g \in Seq(S)
  OBVIOUS
<1> QED BY <1>1, LenProperties

-----------------------------------------------------------------------------
\* While no two marked objects share an identity, the place the search finds
\* is the only one and the one the removal frees.
LEMMA FoundPlace ==
  ASSUME DispatcherTypeOK, MarkedUnique, NEW id, PlacesOf(id) # {}
  PROVE  /\ FindMarkedAggregateByID(id) \in PlacesOf(id)
         /\ FirstMarkedAggregate(id) = FindMarkedAggregateByID(id)
         /\ \A k \in PlacesOf(id) : k = FindMarkedAggregateByID(id)
<1>1. PICK p \in PlacesOf(id) : TRUE
  OBVIOUS
<1>2. \A k \in PlacesOf(id) : k = p
  BY <1>1 DEF PlacesOf, MarkedUnique
<1>3. p \in Nat
  BY <1>1 DEF PlacesOf, DispatcherTypeOK
<1>4. PlacesOf(id) = {p}
  BY <1>1, <1>2
<1>5. FindMarkedAggregateByID(id) = p
  BY <1>3, <1>4 DEF FindMarkedAggregateByID
<1>6. FirstMarkedAggregate(id) = p
  BY <1>3, <1>4 DEF FirstMarkedAggregate
<1> QED BY <1>1, <1>2, <1>5, <1>6

\* Marking keeps the list typed and its identities distinct.
LEMMA MarkKeeps ==
  ASSUME DispatcherTypeOK, MarkedUnique, NEW a \in Aggregates,
         markedAggregates' = MarkAggregateForDispatch(a)
  PROVE  markedAggregates' \in Seq(Aggregates) /\ MarkedUnique'
<1>0. markedAggregates \in Seq(Aggregates)
  BY DEF DispatcherTypeOK
<1>1. CASE PlacesOf(IdOf[a]) = {}
  <2>1. markedAggregates' = Append(markedAggregates, a)
    BY <1>1 DEF MarkAggregateForDispatch
  <2>2. /\ markedAggregates' \in Seq(Aggregates)
        /\ DOMAIN markedAggregates' = 1..(Len(markedAggregates) + 1)
        /\ \A k \in 1..Len(markedAggregates) :
             markedAggregates'[k] = markedAggregates[k]
        /\ markedAggregates'[Len(markedAggregates) + 1] = a
    BY <1>0, <2>1, AppendPlaces
  <2>3. DOMAIN markedAggregates = 1..Len(markedAggregates) /\ Len(markedAggregates) \in Nat
    BY <1>0
  <2>4. \A k \in 1..Len(markedAggregates) : IdOf[markedAggregates[k]] # IdOf[a]
    BY <1>1, <2>3 DEF PlacesOf
  <2> QED BY <2>2, <2>3, <2>4 DEF MarkedUnique
<1>2. CASE PlacesOf(IdOf[a]) # {}
  BY <1>0, <1>2 DEF MarkAggregateForDispatch, MarkedUnique
<1> QED BY <1>1, <1>2

\* Removing a place keeps the identities of the others distinct.
LEMMA RemoveKeeps ==
  ASSUME NEW s \in Seq(Aggregates), NEW p \in 1..Len(s),
         \A j, k \in DOMAIN s : IdOf[s[j]] = IdOf[s[k]] => j = k
  PROVE  LET t == RemoveAt(s, p)
         IN  /\ t \in Seq(Aggregates)
             /\ \A j, k \in DOMAIN t : IdOf[t[j]] = IdOf[t[k]] => j = k
<1> DEFINE t == RemoveAt(s, p)
<1>1. /\ t \in Seq(Aggregates)
      /\ Len(t) = Len(s) - 1
      /\ \A k \in 1..(Len(s) - 1) : t[k] = IF k < p THEN s[k] ELSE s[k + 1]
  BY RemoveAtProperties
<1>2. Len(s) \in Nat /\ p \in Nat /\ DOMAIN s = 1..Len(s)
  OBVIOUS
<1> HIDE DEF t
<1>3. DOMAIN t = 1..(Len(s) - 1)
  BY <1>1
<1>4. SUFFICES ASSUME NEW j \in DOMAIN t, NEW k \in DOMAIN t, IdOf[t[j]] = IdOf[t[k]]
               PROVE  j = k
  BY <1>1 DEF t
<1> DEFINE was(n) == IF n < p THEN n ELSE n + 1
<1>5. was(j) \in DOMAIN s /\ was(k) \in DOMAIN s
  BY <1>2, <1>3
<1>6. t[j] = s[was(j)] /\ t[k] = s[was(k)]
  BY <1>1, <1>3
<1>7. was(j) = was(k)
  <2> HIDE DEF was
  <2> QED BY <1>4, <1>5, <1>6
<1> QED BY <1>2, <1>3, <1>7

\* The events of a typed list are logged as typed entries.
LEMMA EntriesTyped ==
  ASSUME handlersMap \in [EventClasses -> Seq(Handlers)], NEW l \in Seq(Event)
  PROVE  [k \in DOMAIN l |-> Dispatch(l[k])]
           \in Seq([event : Event, callbacks : Seq(Handlers)])
<1> DEFINE Entry == [event : Event, callbacks : Seq(Handlers)]
<1>1. Len(l) \in Nat /\ DOMAIN l = 1..Len(l) /\ \A k \in 1..Len(l) : l[k] \in Event
  OBVIOUS
<1>2. \A k \in 1..Len(l) : Dispatch(l[k]) \in Entry
  BY <1>1 DEF Dispatch, Event
<1> HIDE DEF Entry
<1>3. [k \in 1..Len(l) |-> Dispatch(l[k])] \in [1..Len(l) -> Entry]
  BY <1>2
<1>4. [k \in 1..Len(l) |-> Dispatch(l[k])] \in Seq(Entry)
  BY <1>1, <1>3, FunctionIsSeq
<1> QED BY <1>1, <1>4 DEF Entry

-----------------------------------------------------------------------------
\* Raising an event keeps the dispatcher's types and the uniqueness of marks.
LEMMA AddDomainEventKeeps ==
  ASSUME DispatcherTypeOK, MarkedUnique, NEW a \in Aggregates,
         NEW c \in EventClasses, AddDomainEvent(a, c)
  PROVE  DispatcherTypeOK' /\ MarkedUnique'
<1> DEFINE e == [source |-> a, number |-> raised[a] + 1, class |-> c]
<1>1. /\ raised \in [Aggregates -> Nat]
      /\ domainEvents \in [Aggregates -> Seq(Event)]
  BY DEF DispatcherTypeOK
<1>2. e \in Event
  <2>1. raised[a] + 1 \in Nat \ {0}
    BY <1>1
  <2> QED BY <2>1 DEF Event
<1>3. raised' \in [Aggregates -> Nat]
  BY <1>1 DEF AddDomainEvent
<1>4. domainEvents' \in [Aggregates -> Seq(Event)]
  <2>1. domainEvents' = [domainEvents EXCEPT ![a] = Append(@, e)]
    BY DEF AddDomainEvent
  <2> HIDE DEF e
  <2>2. Append(domainEvents[a], e) \in Seq(Event)
    BY <1>1, <1>2, AppendPlaces
  <2> QED BY <1>1, <2>1, <2>2
<1>5. markedAggregates' \in Seq(Aggregates) /\ MarkedUnique'
  BY MarkKeeps DEF AddDomainEvent
<1>6. UNCHANGED <<handlersMap, dispatched>>
  BY DEF AddDomainEvent
<1> QED BY <1>3, <1>4, <1>5, <1>6 DEF DispatcherTypeOK

\* So does a dispatch by identity.
LEMMA DispatchEventsForAggregateKeeps ==
  ASSUME DispatcherTypeOK, MarkedUnique, NEW id, DispatchEventsForAggregate(id)
  PROVE  DispatcherTypeOK' /\ MarkedUnique'
<1> DEFINE Entry == [event : Event, callbacks : Seq(Handlers)]
<1>1. CASE PlacesOf(id) = {}
  <2>1. UNCHANGED dispatcherVars
    BY <1>1 DEF DispatchEventsForAggregate
  <2> QED BY <2>1 DEF DispatcherTypeOK, MarkedUnique, dispatcherVars
<1>2. CASE PlacesOf(id) # {}
  <2>1. /\ markedAggregates \in Seq(Aggregates)
        /\ domainEvents \in [Aggregates -> Seq(Event)]
        /\ dispatched \in Seq(Entry)
        /\ handlersMap \in [EventClasses -> Seq(Handlers)]
        /\ raised \in [Aggregates -> Nat]
    BY DEF DispatcherTypeOK
  <2>2. PICK p \in PlacesOf(id) : /\ p = FindMarkedAggregateByID(id)
                                 /\ p = FirstMarkedAggregate(id)
    BY <1>2, FoundPlace
  <2>3. p \in 1..Len(markedAggregates) /\ markedAggregates[p] \in Aggregates
    BY <2>1, <2>2 DEF PlacesOf
  <2>4. PICK f \in Aggregates : f = markedAggregates[p]
    BY <2>3
  <2>5. /\ dispatched' = dispatched \o DispatchAggregateEvents(f)
        /\ domainEvents' = [domainEvents EXCEPT ![f] = <<>>]
        /\ markedAggregates' = RemoveAt(markedAggregates, p)
        /\ UNCHANGED <<handlersMap, raised>>
    BY <1>2, <2>2, <2>4 DEF DispatchEventsForAggregate
  <2>6. DispatchAggregateEvents(f) \in Seq(Entry)
    BY <2>1, EntriesTyped DEF DispatchAggregateEvents
  <2>7. dispatched' \in Seq(Entry)
    <3> HIDE DEF Entry
    <3> QED BY <2>1, <2>5, <2>6
  <2>8. domainEvents' \in [Aggregates -> Seq(Event)]
    BY <2>1, <2>5
  <2>9. markedAggregates' \in Seq(Aggregates) /\ MarkedUnique'
    BY <2>1, <2>3, <2>5, RemoveKeeps DEF MarkedUnique
  <2> QED BY <2>1, <2>5, <2>7, <2>8, <2>9 DEF DispatcherTypeOK
<1> QED BY <1>1, <1>2

\* The marked list with an object in it, for which an event is raised.
LEMMA MarkedOnce ==
  ASSUME DispatcherTypeOK, MarkedUnique, NEW a \in Aggregates
  PROVE  LET marked == MarkAggregateForDispatch(a)
         IN  /\ marked \in Seq(Aggregates)
             /\ \A j, k \in DOMAIN marked : IdOf[marked[j]] = IdOf[marked[k]] => j = k
             /\ \E k \in DOMAIN marked : IdOf[marked[k]] = IdOf[a]
<1> DEFINE marked == MarkAggregateForDispatch(a)
<1>1. markedAggregates \in Seq(Aggregates)
  BY DEF DispatcherTypeOK
<1>2. /\ marked \in Seq(Aggregates)
      /\ \A j, k \in DOMAIN marked : IdOf[marked[j]] = IdOf[marked[k]] => j = k
  <2>1. CASE PlacesOf(IdOf[a]) = {}
    <3>1. marked = Append(markedAggregates, a)
      BY <2>1 DEF MarkAggregateForDispatch
    <3>2. /\ marked \in Seq(Aggregates)
          /\ DOMAIN marked = 1..(Len(markedAggregates) + 1)
          /\ \A k \in 1..Len(markedAggregates) : marked[k] = markedAggregates[k]
          /\ marked[Len(markedAggregates) + 1] = a
      <4> HIDE DEF marked
      <4> QED BY <1>1, <3>1, AppendPlaces
    <3>3. /\ DOMAIN markedAggregates = 1..Len(markedAggregates)
          /\ Len(markedAggregates) \in Nat
      BY <1>1
    <3>4. \A k \in 1..Len(markedAggregates) : IdOf[markedAggregates[k]] # IdOf[a]
      BY <2>1, <3>3 DEF PlacesOf
    <3> HIDE DEF marked
    <3> QED BY <3>2, <3>3, <3>4 DEF MarkedUnique
  <2>2. CASE PlacesOf(IdOf[a]) # {}
    <3>1. marked = markedAggregates
      BY <2>2 DEF MarkAggregateForDispatch
    <3> HIDE DEF marked
    <3> QED BY <1>1, <3>1 DEF MarkedUnique
  <2> QED BY <2>1, <2>2
<1>3. \E k \in DOMAIN marked : IdOf[marked[k]] = IdOf[a]
  <2>1. CASE PlacesOf(IdOf[a]) = {}
    <3>1. marked = Append(markedAggregates, a)
      BY <2>1 DEF MarkAggregateForDispatch
    <3> HIDE DEF marked
    <3>2. /\ DOMAIN marked = 1..(Len(markedAggregates) + 1)
          /\ marked[Len(markedAggregates) + 1] = a
      BY <1>1, <3>1, AppendPlaces
    <3>3. Len(markedAggregates) + 1 \in 1..(Len(markedAggregates) + 1)
      BY <1>1
    <3> QED BY <3>2, <3>3
  <2>2. CASE PlacesOf(IdOf[a]) # {}
    BY <2>2 DEF MarkAggregateForDispatch, PlacesOf
  <2> QED BY <2>1, <2>2
<1> QED BY <1>2, <1>3

\* And raising and dispatching in one go.
LEMMA RaiseAndDispatchKeeps ==
  ASSUME DispatcherTypeOK, MarkedUnique, NEW a \in Aggregates,
         NEW c \in EventClasses, RaiseAndDispatch(a, c)
  PROVE  DispatcherTypeOK' /\ MarkedUnique'
<1> DEFINE Entry   == [event : Event, callbacks : Seq(Handlers)]
           e       == [source |-> a, number |-> raised[a] + 1, class |-> c]
           pending == [domainEvents EXCEPT ![a] = Append(@, e)]
           marked  == MarkAggregateForDispatch(a)
           place   == CHOOSE k \in DOMAIN marked : IdOf[marked[k]] = IdOf[a]
           found   == marked[place]
<1>1. /\ markedAggregates \in Seq(Aggregates)
      /\ domainEvents \in [Aggregates -> Seq(Event)]
      /\ dispatched \in Seq(Entry)
      /\ handlersMap \in [EventClasses -> Seq(Handlers)]
      /\ raised \in [Aggregates -> Nat]
  BY DEF DispatcherTypeOK
<1>2. e \in Event
  <2>1. raised[a] + 1 \in Nat \ {0}
    BY <1>1
  <2> QED BY <2>1 DEF Event
<1>3. /\ raised' = [raised EXCEPT ![a] = @ + 1]
      /\ dispatched' = dispatched \o [k \in DOMAIN pending[found] |-> Dispatch(pending[found][k])]
      /\ domainEvents' = [pending EXCEPT ![found] = <<>>]
      /\ markedAggregates' = RemoveAt(marked, place)
      /\ UNCHANGED handlersMap
  BY DEF RaiseAndDispatch
<1>4. /\ marked \in Seq(Aggregates)
      /\ \A j, k \in DOMAIN marked : IdOf[marked[j]] = IdOf[marked[k]] => j = k
      /\ \E k \in DOMAIN marked : IdOf[marked[k]] = IdOf[a]
  BY MarkedOnce
<1> HIDE DEF marked
<1>6. place \in DOMAIN marked
  BY <1>4
<1> HIDE DEF place
<1>7. place \in 1..Len(marked) /\ found \in Aggregates
  BY <1>4, <1>6
<1>8. pending \in [Aggregates -> Seq(Event)]
  <2> HIDE DEF e
  <2>1. Append(domainEvents[a], e) \in Seq(Event)
    BY <1>1, <1>2, AppendPlaces
  <2> QED BY <1>1, <2>1
<1> HIDE DEF pending, found
<1>9. dispatched' \in Seq(Entry)
  <2>1. pending[found] \in Seq(Event)
    BY <1>7, <1>8
  <2>2. [k \in DOMAIN pending[found] |-> Dispatch(pending[found][k])] \in Seq(Entry)
    BY <1>1, <2>1, EntriesTyped
  <2> HIDE DEF Entry
  <2> QED BY <1>1, <1>3, <2>2
<1>10. domainEvents' \in [Aggregates -> Seq(Event)]
  BY <1>3, <1>7, <1>8
<1>11. markedAggregates' \in Seq(Aggregates) /\ MarkedUnique'
  BY <1>3, <1>4, <1>7, RemoveKeeps DEF MarkedUnique
<1>12. raised' \in [Aggregates -> Nat]
  BY <1>1, <1>3
<1> QED BY <1>1, <1>3, <1>9, <1>10, <1>11, <1>12 DEF DispatcherTypeOK
\* And raising several events one after the other.
LEMMA AddDomainEventsKeeps ==
  ASSUME DispatcherTypeOK, MarkedUnique, NEW a \in Aggregates,
         NEW cs \in Seq(EventClasses), AddDomainEvents(a, cs)
  PROVE  DispatcherTypeOK' /\ MarkedUnique'
<1> DEFINE es == [k \in DOMAIN cs |->
                    [source |-> a, number |-> raised[a] + k, class |-> cs[k]]]
<1>1. /\ raised \in [Aggregates -> Nat]
      /\ domainEvents \in [Aggregates -> Seq(Event)]
      /\ Len(cs) \in Nat /\ DOMAIN cs = 1..Len(cs)
  BY DEF DispatcherTypeOK
<1>2. es \in Seq(Event)
  <2>1. ASSUME NEW k \in 1..Len(cs)
        PROVE  [source |-> a, number |-> raised[a] + k, class |-> cs[k]] \in Event
    <3>1. raised[a] + k \in Nat \ {0} /\ cs[k] \in EventClasses
      BY <1>1
    <3> QED BY <3>1 DEF Event
  <2>2. es \in [1..Len(cs) -> Event]
    BY <1>1, <2>1
  <2> HIDE DEF es
  <2> QED BY <1>1, <2>2, FunctionIsSeq
<1>3. raised' \in [Aggregates -> Nat]
  BY <1>1 DEF AddDomainEvents
<1>4. domainEvents' \in [Aggregates -> Seq(Event)]
  <2>1. domainEvents' = [domainEvents EXCEPT ![a] = @ \o es]
    BY DEF AddDomainEvents
  <2> HIDE DEF es
  <2>2. domainEvents[a] \o es \in Seq(Event)
    BY <1>1, <1>2, ConcatProperties
  <2> QED BY <1>1, <2>1, <2>2
<1>5. markedAggregates' \in Seq(Aggregates) /\ MarkedUnique'
  BY MarkKeeps DEF AddDomainEvents
<1>6. UNCHANGED <<handlersMap, dispatched>>
  BY DEF AddDomainEvents
<1> QED BY <1>3, <1>4, <1>5, <1>6 DEF DispatcherTypeOK

-----------------------------------------------------------------------------
\* No operation leaves events with an object that had none and raises none.
LEMMA RaisedEvents ==
  ASSUME DispatcherTypeOK, NEW a \in Aggregates, NEW c \in EventClasses,
         NEW cs \in Seq(EventClasses),
         AddDomainEvent(a, c) \/ AddDomainEvents(a, cs) \/ RaiseAndDispatch(a, c),
         NEW o \in Aggregates, domainEvents'[o] # <<>>
  PROVE  o = a \/ domainEvents[o] # <<>>
<1>1. domainEvents \in [Aggregates -> Seq(Event)]
  BY DEF DispatcherTypeOK
<1>2. CASE AddDomainEvent(a, c)
  BY <1>1, <1>2 DEF AddDomainEvent
<1>3. CASE AddDomainEvents(a, cs)
  BY <1>1, <1>3 DEF AddDomainEvents
<1>4. CASE RaiseAndDispatch(a, c)
  <2>1. PICK e, f : domainEvents' =
           [[domainEvents EXCEPT ![a] = Append(@, e)] EXCEPT ![f] = <<>>]
    BY <1>4 DEF RaiseAndDispatch
  <2> QED BY <1>1, <2>1
<1> QED BY <1>2, <1>3, <1>4

\* A dispatch by identity that delivers anything delivers the events of an
\* object of that identity, and leaves none behind that were not there.
LEMMA DispatchedEvents ==
  ASSUME DispatcherTypeOK, MarkedUnique, NEW id, DispatchEventsForAggregate(id)
  PROVE  /\ \A o \in Aggregates : domainEvents'[o] # <<>> => domainEvents[o] # <<>>
         /\ dispatched' # dispatched =>
              \E o \in Aggregates : IdOf[o] = id /\ domainEvents[o] # <<>>
<1>1. /\ domainEvents \in [Aggregates -> Seq(Event)]
      /\ markedAggregates \in Seq(Aggregates)
      /\ dispatched \in Seq([event : Event, callbacks : Seq(Handlers)])
      /\ handlersMap \in [EventClasses -> Seq(Handlers)]
  BY DEF DispatcherTypeOK
<1>2. CASE PlacesOf(id) = {}
  BY <1>2 DEF DispatchEventsForAggregate, dispatcherVars
<1>3. CASE PlacesOf(id) # {}
  <2>1. PICK p \in PlacesOf(id) : p = FindMarkedAggregateByID(id)
    BY <1>3, FoundPlace
  <2>2. p \in 1..Len(markedAggregates) /\ IdOf[markedAggregates[p]] = id
    BY <1>1, <2>1 DEF PlacesOf
  <2>3. PICK f \in Aggregates : f = markedAggregates[p]
    BY <1>1, <2>2
  <2>4. /\ dispatched' = dispatched \o DispatchAggregateEvents(f)
        /\ domainEvents' = [domainEvents EXCEPT ![f] = <<>>]
    BY <1>3, <2>1, <2>3 DEF DispatchEventsForAggregate
  <2>5. ASSUME domainEvents[f] = <<>> PROVE dispatched' = dispatched
    <3> DEFINE Entry == [event : Event, callbacks : Seq(Handlers)]
               l == domainEvents[f]
    <3>1. l \in Seq(Event) /\ Len(l) = 0 /\ DOMAIN l = 1..0
      BY <1>1, <2>5
    <3>2. DispatchAggregateEvents(f) \in Seq(Entry)
      BY <1>1, <3>1, EntriesTyped DEF DispatchAggregateEvents
    <3>3. DOMAIN DispatchAggregateEvents(f) = 1..0
      BY <3>1 DEF DispatchAggregateEvents
    <3> HIDE DEF Entry, l
    <3>4. Len(DispatchAggregateEvents(f)) = 0
      BY <3>2, <3>3
    <3>5. DispatchAggregateEvents(f) = <<>>
      BY <3>2, <3>4, EmptySeq
    <3>6. dispatched \o <<>> = dispatched
      BY <1>1, ConcatEmptySeq
    <3> QED BY <2>4, <3>5, <3>6
  <2> QED BY <1>1, <2>2, <2>3, <2>4, <2>5
<1> QED BY <1>2, <1>3

-----------------------------------------------------------------------------
\* What is delivered: the events of one object of the identity.
LEMMA DispatchDelivers ==
  ASSUME DispatcherTypeOK, MarkedUnique, NEW id, DispatchEventsForAggregate(id)
  PROVE  \/ UNCHANGED <<domainEvents, dispatched>>
         \/ \E f \in Aggregates :
              /\ IdOf[f] = id
              /\ dispatched' = dispatched \o DispatchAggregateEvents(f)
              /\ domainEvents' = [domainEvents EXCEPT ![f] = <<>>]
<1>1. CASE PlacesOf(id) = {}
  BY <1>1 DEF DispatchEventsForAggregate, dispatcherVars
<1>2. CASE PlacesOf(id) # {}
  <2>1. PICK p \in PlacesOf(id) : p = FindMarkedAggregateByID(id)
    BY <1>2, FoundPlace
  <2>2. p \in 1..Len(markedAggregates) /\ IdOf[markedAggregates[p]] = id
    BY <2>1 DEF PlacesOf, DispatcherTypeOK
  <2>3. PICK f \in Aggregates : f = markedAggregates[p]
    BY <2>2 DEF DispatcherTypeOK
  <2> QED BY <1>2, <2>1, <2>2, <2>3 DEF DispatchEventsForAggregate
<1> QED BY <1>1, <1>2

\* With an event raised before, the object found may be another one of the
\* same identity.
LEMMA RaiseAndDispatchDelivers ==
  ASSUME DispatcherTypeOK, MarkedUnique, NEW a \in Aggregates,
         NEW c \in EventClasses, RaiseAndDispatch(a, c)
  PROVE  \E f \in Aggregates, e \in Event, l \in Seq(Event) :
           /\ IdOf[f] = IdOf[a]
           /\ e.source = a /\ e.class = c
           /\ l = IF f = a THEN Append(domainEvents[a], e) ELSE domainEvents[f]
           /\ dispatched' = dispatched \o [k \in DOMAIN l |-> Dispatch(l[k])]
           /\ domainEvents' =
                [[domainEvents EXCEPT ![a] = Append(@, e)] EXCEPT ![f] = <<>>]
<1> DEFINE e       == [source |-> a, number |-> raised[a] + 1, class |-> c]
           pending == [domainEvents EXCEPT ![a] = Append(@, e)]
           marked  == MarkAggregateForDispatch(a)
           place   == CHOOSE k \in DOMAIN marked : IdOf[marked[k]] = IdOf[a]
           found   == marked[place]
<1>1. /\ domainEvents \in [Aggregates -> Seq(Event)]
      /\ raised \in [Aggregates -> Nat]
  BY DEF DispatcherTypeOK
<1>2. e \in Event /\ e.source = a /\ e.class = c
  <2>1. raised[a] + 1 \in Nat \ {0}
    BY <1>1
  <2> QED BY <2>1 DEF Event
<1>3. /\ dispatched' = dispatched \o [k \in DOMAIN pending[found] |-> Dispatch(pending[found][k])]
      /\ domainEvents' = [pending EXCEPT ![found] = <<>>]
  BY DEF RaiseAndDispatch
<1>4. /\ marked \in Seq(Aggregates)
      /\ \E k \in DOMAIN marked : IdOf[marked[k]] = IdOf[a]
  BY MarkedOnce
<1> HIDE DEF marked
<1>5. place \in DOMAIN marked /\ IdOf[marked[place]] = IdOf[a]
  BY <1>4
<1> HIDE DEF place
<1>6. found \in Aggregates /\ IdOf[found] = IdOf[a]
  BY <1>4, <1>5
<1> HIDE DEF found, e
<1>7. pending = [domainEvents EXCEPT ![a] = Append(@, e)]
  OBVIOUS
<1>8. pending[found] = IF found = a THEN Append(domainEvents[a], e) ELSE domainEvents[found]
  BY <1>1, <1>6
<1>9. pending[found] \in Seq(Event)
  <2>1. Append(domainEvents[a], e) \in Seq(Event)
    BY <1>1, <1>2, AppendPlaces
  <2> QED BY <1>1, <1>6, <1>8, <2>1
<1> HIDE DEF pending
<1> QED BY <1>2, <1>3, <1>6, <1>7, <1>8, <1>9

\* The log grows by one entry for each event, behind those it has.
LEMMA LogGrows ==
  ASSUME DispatcherTypeOK, NEW l \in Seq(Event),
         dispatched' = dispatched \o [k \in DOMAIN l |-> Dispatch(l[k])]
  PROVE  /\ Len(dispatched) \in Nat
         /\ DOMAIN dispatched = 1..Len(dispatched)
         /\ DOMAIN l = 1..Len(l)
         /\ DOMAIN dispatched' = 1..(Len(dispatched) + Len(l))
         /\ \A k \in 1..Len(dispatched) : dispatched'[k] = dispatched[k]
         /\ \A m \in 1..Len(l) : dispatched'[Len(dispatched) + m].event = l[m]
<1> DEFINE Entry   == [event : Event, callbacks : Seq(Handlers)]
           entries == [k \in DOMAIN l |-> Dispatch(l[k])]
<1>1. dispatched \in Seq(Entry) /\ entries \in Seq(Entry)
  BY EntriesTyped DEF DispatcherTypeOK
<1>2. DOMAIN l = 1..Len(l) /\ Len(l) \in Nat
  OBVIOUS
<1>3. \A m \in 1..Len(l) : entries[m].event = l[m]
  BY <1>2 DEF Dispatch
<1>4. DOMAIN entries = 1..Len(l)
  BY <1>2
<1>5. dispatched' = dispatched \o entries
  OBVIOUS
<1> HIDE DEF Entry, entries
<1>6. Len(entries) = Len(l)
  BY <1>1, <1>2, <1>4
<1>7. /\ DOMAIN dispatched' = 1..(Len(dispatched) + Len(l))
      /\ \A k \in 1..Len(dispatched) : dispatched'[k] = dispatched[k]
      /\ \A m \in 1..Len(l) : dispatched'[Len(dispatched) + m] = entries[m]
  BY <1>1, <1>2, <1>5, <1>6
<1> QED BY <1>1, <1>2, <1>3, <1>7
=============================================================================
