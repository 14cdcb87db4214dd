-------------------------- MODULE UnitOfWorkProofs --------------------------
(* Proofs about the dispatcher under any number of requests, objects and    *)
(* events.                                                                  *)
EXTENDS UnitOfWork, DomainEventsProofs

-----------------------------------------------------------------------------
\* A marked object has raised an event.
MarkedHaveRaised ==
  \A k \in DOMAIN markedAggregates : raised[markedAggregates[k]] > 0

\* An object with undispatched events is marked, unless another object of its
\* aggregate has raised events too and may have stood in its way.
PendingReachable ==
  \A a \in Aggregates : domainEvents[a] # <<>> =>
    \/ \E k \in DOMAIN markedAggregates : markedAggregates[k] = a
    \/ \E b \in Aggregates \ {a} : IdOf[b] = IdOf[a] /\ raised[b] > 0

\* The inductive invariant.
IInv == /\ TypeOK
        /\ MarkedUnique
        /\ MarkedHaveRaised
        /\ PendingReachable
        /\ DeliveredInOrder
        /\ SoleWriterDelivers

LEMMA IInvInit == Init => IInv
<1> SUFFICES ASSUME Init PROVE IInv
  OBVIOUS
<1> USE DEF Init, DispatcherInit
<1>1. TypeOK
  BY SubscriptionsAssumption DEF TypeOK, DispatcherTypeOK, Phases
<1>2. MarkedUnique /\ MarkedHaveRaised /\ PendingReachable /\ SoleWriterDelivers
  BY DEF MarkedUnique, MarkedHaveRaised, PendingReachable, SoleWriterDelivers
<1>3. DeliveredInOrder
  BY DEF DeliveredInOrder, Delivered
<1> QED BY <1>1, <1>2, <1>3 DEF IInv

\* What the entries of the log are.
LEMMA LogTyped ==
  ASSUME TypeOK, NEW k \in DOMAIN dispatched
  PROVE  /\ dispatched[k].event \in Event
         /\ dispatched[k].event.source \in Aggregates
         /\ dispatched[k].event.number \in Nat
<1> DEFINE Entry == [event : Event, callbacks : Seq(Handlers)]
<1>1. dispatched \in Seq(Entry)
  BY DEF TypeOK, DispatcherTypeOK
<1>2. dispatched[k] \in Entry
  <2> HIDE DEF Entry
  <2> QED BY <1>1
<1>3. dispatched[k].event \in Event
  BY <1>2
<1> QED BY <1>3 DEF Event

-----------------------------------------------------------------------------
\* Raising an event keeps the invariant.
LEMMA RaiseStep ==
  ASSUME IInv, NEW a \in Aggregates, NEW c \in EventClasses, Raise(a, c)
  PROVE  IInv'
<1> DEFINE e == [source |-> a, number |-> raised[a] + 1, class |-> c]
<1> USE DEF Raise, AddDomainEvent
<1>1. /\ raised \in [Aggregates -> Nat]
      /\ domainEvents \in [Aggregates -> Seq(Event)]
      /\ markedAggregates \in Seq(Aggregates)
      /\ e \in Event
  <2>1. /\ raised \in [Aggregates -> Nat]
        /\ domainEvents \in [Aggregates -> Seq(Event)]
        /\ markedAggregates \in Seq(Aggregates)
    BY DEF IInv, TypeOK, DispatcherTypeOK
  <2>2. raised[a] + 1 \in Nat \ {0}
    BY <2>1
  <2> QED BY <2>1, <2>2 DEF Event
<1>2. /\ domainEvents'[a] = Append(domainEvents[a], e)
      /\ \A b \in Aggregates \ {a} : domainEvents'[b] = domainEvents[b]
      /\ raised'[a] = raised[a] + 1
      /\ \A b \in Aggregates \ {a} : raised'[b] = raised[b]
  BY <1>1
<1>3. /\ Len(domainEvents'[a]) = Len(domainEvents[a]) + 1
      /\ DOMAIN domainEvents'[a] = 1..(Len(domainEvents[a]) + 1)
      /\ \A k \in 1..Len(domainEvents[a]) :
           domainEvents'[a][k] = domainEvents[a][k]
      /\ domainEvents'[a][Len(domainEvents[a]) + 1] = e
      /\ domainEvents'[a] \in Seq(Event)
  <2> HIDE DEF e
  <2> QED BY <1>1, <1>2, AppendPlaces
<1>4. \A b \in Aggregates : Len(domainEvents[b]) \in Nat
  BY <1>1
<1>5. \A b \in Aggregates : Delivered(b)' = Delivered(b)
  BY <1>1, <1>2, <1>3, <1>4 DEF Delivered
<1>6. TypeOK'
  <2>1. markedAggregates' \in Seq(Aggregates)
    BY <1>1 DEF MarkAggregateForDispatch
  <2>2. raised' \in [Aggregates -> Nat]
    BY <1>1
  <2>3. domainEvents' \in [Aggregates -> Seq(Event)]
    BY <1>1, <1>3
  <2> QED BY <2>1, <2>2, <2>3 DEF IInv, TypeOK, DispatcherTypeOK
<1>7. ASSUME PlacesOf(IdOf[a]) = {}
      PROVE  MarkedUnique' /\ MarkedHaveRaised' /\ PendingReachable'
  <2>1. markedAggregates' = Append(markedAggregates, a)
    BY <1>7 DEF MarkAggregateForDispatch
  <2>2. /\ DOMAIN markedAggregates = 1..Len(markedAggregates)
        /\ Len(markedAggregates) \in Nat
        /\ DOMAIN markedAggregates' = 1..(Len(markedAggregates) + 1)
        /\ \A k \in 1..Len(markedAggregates) :
             /\ markedAggregates[k] \in Aggregates
             /\ markedAggregates'[k] = markedAggregates[k]
        /\ markedAggregates'[Len(markedAggregates) + 1] = a
    BY <1>1, <2>1, AppendPlaces
  <2>3. MarkedUnique'
    <3>1. \A k \in 1..Len(markedAggregates) : IdOf[markedAggregates[k]] # IdOf[a]
      BY <1>7, <2>2 DEF PlacesOf
    <3> QED BY <2>2, <3>1 DEF IInv, MarkedUnique
  <2>4. MarkedHaveRaised'
    <3>1. \A b \in Aggregates : raised[b] > 0 => raised'[b] > 0
      BY <1>1, <1>2
    <3>2. raised'[a] > 0
      BY <1>1, <1>2
    <3>3. \A k \in 1..Len(markedAggregates) : raised[markedAggregates[k]] > 0
      BY <2>2 DEF IInv, MarkedHaveRaised
    <3> QED BY <2>2, <3>1, <3>2, <3>3 DEF MarkedHaveRaised
  <2>5. PendingReachable'
    <3> SUFFICES ASSUME NEW b \in Aggregates, domainEvents'[b] # <<>>
                 PROVE  \/ \E k \in DOMAIN markedAggregates' :
                             markedAggregates'[k] = b
                        \/ \E d \in Aggregates \ {b} :
                             IdOf[d] = IdOf[b] /\ raised'[d] > 0
      BY DEF PendingReachable
    <3>1. CASE b = a
      BY <3>1, <2>2
    <3>2. CASE b # a
      BY <3>2, <1>1, <1>2, <2>2 DEF IInv, PendingReachable
    <3> QED BY <3>1, <3>2
  <2> QED BY <2>3, <2>4, <2>5
<1>8. ASSUME PlacesOf(IdOf[a]) # {}
      PROVE  MarkedUnique' /\ MarkedHaveRaised' /\ PendingReachable'
  <2>1. markedAggregates' = markedAggregates
    BY <1>8 DEF MarkAggregateForDispatch
  <2>2. MarkedUnique'
    BY <2>1 DEF IInv, MarkedUnique
  <2>3. \A b \in Aggregates : raised[b] > 0 => raised'[b] > 0
    BY <1>1, <1>2
  <2>4. MarkedHaveRaised'
    BY <2>1, <2>3, <1>1 DEF IInv, MarkedHaveRaised
  <2>5. PendingReachable'
    <3>1. PICK k \in DOMAIN markedAggregates : IdOf[markedAggregates[k]] = IdOf[a]
      BY <1>8 DEF PlacesOf
    <3>2. markedAggregates[k] \in Aggregates /\ raised[markedAggregates[k]] > 0
      BY <1>1, <3>1 DEF IInv, MarkedHaveRaised
    <3> SUFFICES ASSUME NEW b \in Aggregates, domainEvents'[b] # <<>>
                 PROVE  \/ \E j \in DOMAIN markedAggregates' :
                             markedAggregates'[j] = b
                        \/ \E d \in Aggregates \ {b} :
                             IdOf[d] = IdOf[b] /\ raised'[d] > 0
      BY DEF PendingReachable
    <3>3. CASE b = a
      BY <3>1, <3>2, <3>3, <2>1, <2>3
    <3>4. CASE b # a
      BY <3>4, <1>2, <2>1, <2>3 DEF IInv, PendingReachable
    <3> QED BY <3>3, <3>4
  <2> QED BY <2>2, <2>4, <2>5
<1>9. DeliveredInOrder'
  <2>1. \A b \in Aggregates : \A k \in DOMAIN domainEvents'[b] :
          /\ domainEvents'[b][k].source = b
          /\ domainEvents'[b][k].number = Delivered(b) + k
    <3> SUFFICES ASSUME NEW b \in Aggregates, NEW k \in DOMAIN domainEvents'[b]
                 PROVE  /\ domainEvents'[b][k].source = b
                        /\ domainEvents'[b][k].number = Delivered(b) + k
      OBVIOUS
    <3>1. CASE b # a
      BY <3>1, <1>2 DEF IInv, DeliveredInOrder
    <3>2. CASE b = a /\ k = Len(domainEvents[a]) + 1
      BY <3>2, <1>1, <1>3, <1>4 DEF Delivered
    <3>3. CASE b = a /\ k # Len(domainEvents[a]) + 1
      <4>1. k \in 1..Len(domainEvents[a])
        BY <3>3, <1>3, <1>4
      <4>2. k \in DOMAIN domainEvents[a]
        BY <4>1, <1>1
      <4> QED BY <3>3, <4>1, <4>2, <1>3 DEF IInv, DeliveredInOrder
    <3> QED BY <3>1, <3>2, <3>3
  <2>2. dispatched' = dispatched
    OBVIOUS
  <2>3. \A k \in DOMAIN dispatched : dispatched[k].event.source \in Aggregates
    BY LogTyped DEF IInv
  <2> QED BY <1>5, <2>1, <2>2, <2>3 DEF IInv, DeliveredInOrder
<1>10. SoleWriterDelivers'
  <2> SUFFICES ASSUME NEW b \in Aggregates, phase[b] = "done",
                      \A d \in Aggregates \ {b} : IdOf[d] = IdOf[b] => raised'[d] = 0
               PROVE  domainEvents'[b] = <<>>
    BY DEF SoleWriterDelivers
  <2>1. b # a
    OBVIOUS
  <2>2. \A d \in Aggregates \ {b} : IdOf[d] = IdOf[b] => raised[d] = 0
    BY <1>1, <1>2
  <2> QED BY <2>1, <2>2, <1>2 DEF IInv, SoleWriterDelivers
<1> QED BY <1>6, <1>7, <1>8, <1>9, <1>10 DEF IInv

-----------------------------------------------------------------------------
\* A dispatch that finds no marked object keeps the invariant.
LEMMA DispatchNothingStep ==
  ASSUME IInv, NEW a \in Aggregates, DispatchEvents(a), PlacesOf(IdOf[a]) = {}
  PROVE  IInv'
<1>1. UNCHANGED dispatcherVars
  BY DEF DispatchEvents, DispatchEventsForAggregate
<1>2. phase' = [phase EXCEPT ![a] = "done"] /\ subscribed' = subscribed
  BY DEF DispatchEvents
<1>3. TypeOK'
  BY <1>1, <1>2 DEF IInv, TypeOK, DispatcherTypeOK, dispatcherVars, Phases
<1>4. MarkedUnique' /\ MarkedHaveRaised' /\ PendingReachable'
  BY <1>1 DEF IInv, MarkedUnique, MarkedHaveRaised, PendingReachable,
              dispatcherVars
<1>5. DeliveredInOrder'
  BY <1>1 DEF IInv, DeliveredInOrder, Delivered, dispatcherVars
<1>6. SoleWriterDelivers'
  <2> SUFFICES ASSUME NEW b \in Aggregates, phase'[b] = "done",
                      \A d \in Aggregates \ {b} : IdOf[d] = IdOf[b] => raised[d] = 0
               PROVE  domainEvents[b] = <<>>
    BY <1>1 DEF SoleWriterDelivers, dispatcherVars
  <2>1. CASE b = a
    BY <2>1 DEF IInv, PendingReachable, PlacesOf
  <2>2. CASE b # a
    BY <2>2, <1>2 DEF IInv, TypeOK, SoleWriterDelivers
  <2> QED BY <2>1, <2>2
<1> QED BY <1>3, <1>4, <1>5, <1>6 DEF IInv

\* A dispatch that finds a marked object keeps the invariant.
LEMMA DispatchMarkedStep ==
  ASSUME IInv, NEW a \in Aggregates, DispatchEvents(a), PlacesOf(IdOf[a]) # {}
  PROVE  IInv'
<1> DEFINE Entry == [event : Event, callbacks : Seq(Handlers)]
<1>1. /\ markedAggregates \in Seq(Aggregates)
      /\ raised \in [Aggregates -> Nat]
      /\ domainEvents \in [Aggregates -> Seq(Event)]
      /\ dispatched \in Seq(Entry)
      /\ handlersMap \in [EventClasses -> Seq(Handlers)]
      /\ Len(markedAggregates) \in Nat
  BY DEF IInv, TypeOK, DispatcherTypeOK
<1>2. PICK p \in PlacesOf(IdOf[a]) :
        /\ p = FindMarkedAggregateByID(IdOf[a])
        /\ p = FirstMarkedAggregate(IdOf[a])
        /\ \A k \in PlacesOf(IdOf[a]) : k = p
  BY FoundPlace DEF IInv, TypeOK
<1>3. /\ p \in 1..Len(markedAggregates)
      /\ p \in Nat
      /\ Len(markedAggregates) \in Nat
      /\ DOMAIN markedAggregates = 1..Len(markedAggregates)
  BY <1>1, <1>2 DEF PlacesOf
<1>4. PICK f \in Aggregates : f = markedAggregates[p] /\ IdOf[f] = IdOf[a]
  BY <1>1, <1>2, <1>3 DEF PlacesOf
<1>5. /\ dispatched' = dispatched \o DispatchAggregateEvents(f)
      /\ domainEvents' = [domainEvents EXCEPT ![f] = <<>>]
      /\ markedAggregates' = RemoveAt(markedAggregates, p)
      /\ UNCHANGED <<handlersMap, raised, subscribed>>
      /\ phase' = [phase EXCEPT ![a] = "done"]
  BY <1>2, <1>4 DEF DispatchEvents, DispatchEventsForAggregate
<1>20. /\ markedAggregates' \in Seq(Aggregates)
       /\ DOMAIN markedAggregates' = 1..(Len(markedAggregates) - 1)
       /\ \A k \in 1..(Len(markedAggregates) - 1) :
            markedAggregates'[k] =
              IF k < p THEN markedAggregates[k] ELSE markedAggregates[k + 1]
  <2>1. /\ RemoveAt(markedAggregates, p) \in Seq(Aggregates)
        /\ Len(RemoveAt(markedAggregates, p)) = Len(markedAggregates) - 1
        /\ \A k \in 1..(Len(markedAggregates) - 1) :
             RemoveAt(markedAggregates, p)[k] =
               IF k < p THEN markedAggregates[k] ELSE markedAggregates[k + 1]
    BY <1>1, <1>3, RemoveAtProperties
  <2>2. DOMAIN RemoveAt(markedAggregates, p) = 1..(Len(markedAggregates) - 1)
    BY <2>1
  <2> QED BY <2>1, <2>2, <1>5
<1>6. /\ domainEvents'[f] = <<>>
      /\ \A b \in Aggregates \ {f} : domainEvents'[b] = domainEvents[b]
  BY <1>5, <1>1, <1>3, <1>4
<1>7. /\ Len(domainEvents[f]) \in Nat
      /\ DOMAIN domainEvents[f] = 1..Len(domainEvents[f])
      /\ DOMAIN dispatched = 1..Len(dispatched)
      /\ Len(dispatched) \in Nat
  BY <1>1, <1>3, <1>4
<1>8. /\ DispatchAggregateEvents(f) \in Seq(Entry)
      /\ Len(DispatchAggregateEvents(f)) = Len(domainEvents[f])
      /\ \A k \in 1..Len(domainEvents[f]) :
           DispatchAggregateEvents(f)[k].event = domainEvents[f][k]
  <2>1. \A k \in 1..Len(domainEvents[f]) : domainEvents[f][k] \in Event
    BY <1>1, <1>3, <1>4
  <2>2. \A e \in Event : Dispatch(e) \in Entry /\ Dispatch(e).event = e
    BY <1>1 DEF Dispatch, Event
  <2>3. DispatchAggregateEvents(f) =
          [k \in 1..Len(domainEvents[f]) |-> Dispatch(domainEvents[f][k])]
    BY <1>7 DEF DispatchAggregateEvents
  <2> HIDE DEF Entry
  <2>4. DispatchAggregateEvents(f) \in [1..Len(domainEvents[f]) -> Entry]
    BY <2>1, <2>2, <2>3
  <2>5. /\ DispatchAggregateEvents(f) \in Seq(Entry)
        /\ Len(DispatchAggregateEvents(f)) = Len(domainEvents[f])
    BY <2>4, <1>7, FunctionIsSeq
  <2> QED BY <2>1, <2>2, <2>3, <2>5
<1>9. /\ dispatched' \in Seq(Entry)
      /\ DOMAIN dispatched' = 1..(Len(dispatched) + Len(domainEvents[f]))
      /\ \A k \in 1..Len(dispatched) : dispatched'[k] = dispatched[k]
      /\ \A k \in 1..Len(domainEvents[f]) :
           dispatched'[Len(dispatched) + k].event = domainEvents[f][k]
  <2> HIDE DEF Entry
  <2>1. /\ dispatched' \in Seq(Entry)
        /\ Len(dispatched') = Len(dispatched) + Len(domainEvents[f])
        /\ \A k \in 1..(Len(dispatched) + Len(domainEvents[f])) :
             dispatched'[k] = IF k <= Len(dispatched) THEN dispatched[k]
                              ELSE DispatchAggregateEvents(f)[k - Len(dispatched)]
    <3> DEFINE batch == DispatchAggregateEvents(f)
    <3>1. /\ batch \in Seq(Entry)
          /\ Len(batch) = Len(domainEvents[f])
          /\ dispatched' = dispatched \o batch
      BY <1>5, <1>8
    <3> HIDE DEF batch
    <3>2. /\ dispatched \o batch \in Seq(Entry)
          /\ Len(dispatched \o batch) = Len(dispatched) + Len(batch)
          /\ \A k \in 1..(Len(dispatched) + Len(batch)) :
               (dispatched \o batch)[k] =
                 IF k <= Len(dispatched) THEN dispatched[k]
                                         ELSE batch[k - Len(dispatched)]
      BY <1>1, <3>1, ConcatProperties
    <3>3. /\ dispatched' \in Seq(Entry)
          /\ Len(dispatched') = Len(dispatched) + Len(domainEvents[f])
      BY <3>1, <3>2
    <3>4. \A k \in 1..(Len(dispatched) + Len(domainEvents[f])) :
            dispatched'[k] = IF k <= Len(dispatched) THEN dispatched[k]
                                                     ELSE batch[k - Len(dispatched)]
      BY <3>1, <3>2
    <3> QED BY <3>3, <3>4 DEF batch
  <2>2. DOMAIN dispatched' = 1..(Len(dispatched) + Len(domainEvents[f]))
    BY <2>1
  <2>3. \A k \in 1..Len(dispatched) : dispatched'[k] = dispatched[k]
    BY <2>1, <1>7
  <2>4. ASSUME NEW k \in 1..Len(domainEvents[f])
        PROVE  dispatched'[Len(dispatched) + k].event = domainEvents[f][k]
    <3>1. dispatched'[Len(dispatched) + k] = DispatchAggregateEvents(f)[k]
      BY <2>1, <1>7
    <3> QED BY <3>1, <1>8
  <2> QED BY <2>1, <2>2, <2>3, <2>4
<1>10. TypeOK'
  <2>1. domainEvents' \in [Aggregates -> Seq(Event)]
    BY <1>1, <1>5, <1>4
  <2>2. phase' \in [Aggregates -> Phases]
    BY <1>5 DEF IInv, TypeOK, Phases
  <2> QED BY <1>5, <1>1, <1>20, <1>9, <2>1, <2>2
          DEF IInv, TypeOK, DispatcherTypeOK
<1>11. MarkedUnique'
  <2> SUFFICES ASSUME NEW j \in DOMAIN markedAggregates',
                      NEW k \in DOMAIN markedAggregates',
                      IdOf[markedAggregates'[j]] = IdOf[markedAggregates'[k]]
               PROVE  j = k
    BY DEF MarkedUnique
  <2> DEFINE old(i) == IF i < p THEN i ELSE i + 1
  <2>1. \A i \in 1..(Len(markedAggregates) - 1) :
          /\ old(i) \in 1..Len(markedAggregates)
          /\ markedAggregates'[i] = markedAggregates[old(i)]
    <3> SUFFICES ASSUME NEW i \in 1..(Len(markedAggregates) - 1)
                 PROVE  /\ old(i) \in 1..Len(markedAggregates)
                        /\ markedAggregates'[i] = markedAggregates[old(i)]
      OBVIOUS
    <3>1. CASE i < p
      BY <3>1, <1>3, <1>20
    <3>2. CASE ~(i < p)
      BY <3>2, <1>3, <1>20
    <3> QED BY <3>1, <3>2
  <2>4. /\ old(j) \in DOMAIN markedAggregates
        /\ old(k) \in DOMAIN markedAggregates
        /\ markedAggregates[old(j)] = markedAggregates'[j]
        /\ markedAggregates[old(k)] = markedAggregates'[k]
    <3> HIDE DEF old
    <3> QED BY <2>1, <1>3, <1>20
  <2>2. old(j) = old(k)
    <3> HIDE DEF old
    <3> QED BY <2>4 DEF IInv, MarkedUnique
  <2> QED BY <2>2, <1>3, <1>20
<1>12. MarkedHaveRaised'
  <2> SUFFICES ASSUME NEW k \in DOMAIN markedAggregates'
               PROVE  raised[markedAggregates'[k]] > 0
    BY <1>5 DEF MarkedHaveRaised
  <2>1. PICK j \in DOMAIN markedAggregates :
          markedAggregates'[k] = markedAggregates[j]
    <3>1. CASE k < p
      BY <3>1, <1>3, <1>20
    <3>2. CASE ~(k < p)
      <4>1. k + 1 \in DOMAIN markedAggregates
        BY <1>3, <1>20
      <4> QED BY <4>1, <3>2, <1>20
    <3> QED BY <3>1, <3>2
  <2> QED BY <2>1 DEF IInv, MarkedHaveRaised
<1>13. PendingReachable'
  <2> SUFFICES ASSUME NEW b \in Aggregates, domainEvents'[b] # <<>>
               PROVE  \/ \E k \in DOMAIN markedAggregates' :
                           markedAggregates'[k] = b
                      \/ \E d \in Aggregates \ {b} :
                           IdOf[d] = IdOf[b] /\ raised[d] > 0
    BY <1>5 DEF PendingReachable
  <2>1. b # f /\ domainEvents[b] # <<>>
    BY <1>6
  <2>2. CASE \E k \in DOMAIN markedAggregates : markedAggregates[k] = b
    <3>1. PICK k \in DOMAIN markedAggregates : markedAggregates[k] = b
      BY <2>2
    <3>2. k # p /\ k \in 1..Len(markedAggregates)
      BY <3>1, <2>1, <1>1, <1>4
    <3>3. CASE k < p
      BY <3>1, <3>2, <3>3, <1>3, <1>4, <1>20
    <3>4. CASE k > p
      <4>1. k - 1 \in DOMAIN markedAggregates' /\ ~(k - 1 < p)
        BY <3>2, <3>4, <1>3, <1>4, <1>20
      <4>2. markedAggregates'[k - 1] = b
        BY <4>1, <3>1, <3>2, <1>3, <1>4, <1>20
      <4> QED BY <4>1, <4>2
    <3> QED BY <3>2, <3>3, <3>4, <1>3, <1>4
  <2>3. CASE \E d \in Aggregates \ {b} : IdOf[d] = IdOf[b] /\ raised[d] > 0
    BY <2>3
  <2> QED BY <2>1, <2>2, <2>3 DEF IInv, PendingReachable
<1>14. /\ Delivered(f) \in Int
       /\ Delivered(f)' = Delivered(f) + Len(domainEvents[f])
       /\ \A b \in Aggregates \ {f} : Delivered(b)' = Delivered(b)
  <2>1. \A b \in Aggregates : raised[b] \in Nat /\ raised'[b] = raised[b]
    BY <1>1, <1>5
  <2>2. Len(domainEvents'[f]) = 0
    BY <1>6
  <2> QED BY <2>1, <2>2, <1>6, <1>7 DEF Delivered
<1>15. \A k \in 1..Len(domainEvents[f]) :
         /\ dispatched'[Len(dispatched) + k].event.source = f
         /\ dispatched'[Len(dispatched) + k].event.number = Delivered(f) + k
  <2>1. \A k \in 1..Len(domainEvents[f]) :
          /\ domainEvents[f][k].source = f
          /\ domainEvents[f][k].number = Delivered(f) + k
    BY <1>7 DEF IInv, DeliveredInOrder
  <2> QED BY <2>1, <1>9
<1>16. \A k \in 1..Len(dispatched) :
         /\ dispatched[k].event.source \in Aggregates
         /\ dispatched[k].event.number \in Nat
         /\ dispatched[k].event.number <= Delivered(dispatched[k].event.source)
  BY <1>7, LogTyped DEF IInv, DeliveredInOrder
<1>17. DeliveredInOrder'
  <2>1. ASSUME NEW j \in DOMAIN dispatched', NEW k \in DOMAIN dispatched',
               j < k, dispatched'[j].event.source = dispatched'[k].event.source
        PROVE  dispatched'[j].event.number < dispatched'[k].event.number
    <3>1. CASE k <= Len(dispatched)
      <4>1. j \in DOMAIN dispatched /\ k \in DOMAIN dispatched
        BY <2>1, <3>1, <1>7, <1>9
      <4>2. dispatched'[j] = dispatched[j] /\ dispatched'[k] = dispatched[k]
        BY <4>1, <1>7, <1>9
      <4> QED BY <2>1, <4>1, <4>2 DEF IInv, DeliveredInOrder
    <3>2. CASE k > Len(dispatched)
      <4>1. PICK m \in 1..Len(domainEvents[f]) : k = Len(dispatched) + m
        <5>1. k - Len(dispatched) \in 1..Len(domainEvents[f])
          BY <3>2, <1>7, <1>9
        <5> QED BY <5>1, <1>7, <1>9
      <4>2. CASE j <= Len(dispatched)
        <5>1. j \in 1..Len(dispatched)
          BY <2>1, <4>2, <1>7, <1>9
        <5>2. /\ dispatched'[k].event.source = f
              /\ dispatched'[k].event.number = Delivered(f) + m
          BY <4>1, <1>15
        <5>3. /\ dispatched[j].event.source = f
              /\ dispatched[j].event.number \in Nat
              /\ dispatched[j].event.number <= Delivered(f)
              /\ dispatched'[j] = dispatched[j]
          BY <2>1, <5>1, <5>2, <1>9, <1>16
        <5> QED BY <5>2, <5>3, <1>7, <1>14
      <4>3. CASE j > Len(dispatched)
        <5>1. PICK i \in 1..Len(domainEvents[f]) : j = Len(dispatched) + i
          <6>1. j - Len(dispatched) \in 1..Len(domainEvents[f])
            BY <4>3, <1>7, <1>9
          <6> QED BY <6>1, <1>7, <1>9
        <5> QED BY <2>1, <4>1, <5>1, <1>7, <1>14, <1>15
      <4> QED BY <4>2, <4>3, <1>7, <1>9
    <3> QED BY <3>1, <3>2, <1>7, <1>9
  <2>2. ASSUME NEW b \in Aggregates, NEW n \in 1..Delivered(b)'
        PROVE  \E k \in DOMAIN dispatched' :
                 /\ dispatched'[k].event.source = b
                 /\ dispatched'[k].event.number = n
    <3>1. CASE n \in 1..Delivered(b)
      <4>1. PICK k \in DOMAIN dispatched : /\ dispatched[k].event.source = b
                                           /\ dispatched[k].event.number = n
        BY <3>1 DEF IInv, DeliveredInOrder
      <4>2. k \in DOMAIN dispatched' /\ dispatched'[k] = dispatched[k]
        BY <1>7, <1>9
      <4> QED BY <4>1, <4>2
    <3>2. CASE n \notin 1..Delivered(b)
      <4>1. b = f
        BY <2>2, <3>2, <1>14
      <4>2. /\ n \in Int
            /\ n - Delivered(f) \in 1..Len(domainEvents[f])
        BY <2>2, <3>2, <4>1, <1>7, <1>14
      <4>3. Len(dispatched) + (n - Delivered(f)) \in DOMAIN dispatched'
        BY <4>2, <1>7, <1>9, <1>14
      <4>4. Delivered(f) + (n - Delivered(f)) = n
        BY <4>2, <1>14
      <4> QED BY <4>1, <4>2, <4>3, <4>4, <1>15
    <3> QED BY <3>1, <3>2
  <2>3. ASSUME NEW k \in DOMAIN dispatched'
        PROVE  dispatched'[k].event.number
                 <= Delivered(dispatched[k].event.source)'
    <3>1. CASE k <= Len(dispatched)
      <4>1. k \in 1..Len(dispatched) /\ dispatched'[k] = dispatched[k]
        BY <3>1, <1>7, <1>9
      <4>2. PICK b \in Aggregates : /\ b = dispatched[k].event.source
                                    /\ dispatched[k].event.number \in Nat
                                    /\ dispatched[k].event.number <= Delivered(b)
        BY <4>1, <1>16
      <4>6. Delivered(b) \in Int
        BY <1>1 DEF Delivered
      <4>3. Delivered(b) \in Int /\ Delivered(b) <= Delivered(b)'
        BY <4>6, <1>7, <1>14
      <4>4. Delivered(b)' \in Int
        BY <1>7, <1>14, <4>3
      <4>5. Delivered(dispatched[k].event.source)' = Delivered(b)'
        BY <4>1, <4>2 DEF Delivered
      <4> QED BY <4>1, <4>2, <4>3, <4>4, <4>5
    <3>2. CASE k > Len(dispatched)
      <4>1. PICK m \in 1..Len(domainEvents[f]) : k = Len(dispatched) + m
        <5>1. k - Len(dispatched) \in 1..Len(domainEvents[f])
          BY <3>2, <1>7, <1>9
        <5> QED BY <5>1, <1>7, <1>9
      <4>2. /\ dispatched'[k].event.source = f
            /\ dispatched'[k].event.number = Delivered(f) + m
        BY <4>1, <1>15
      <4>3. Delivered(dispatched[k].event.source)' = Delivered(f)'
        BY <4>2 DEF Delivered
      <4> QED BY <4>1, <4>2, <4>3, <1>7, <1>14
    <3> QED BY <3>1, <3>2, <1>7, <1>9
  <2>4. ASSUME NEW b \in Aggregates, NEW k \in DOMAIN domainEvents'[b]
        PROVE  /\ domainEvents'[b][k].source = b
               /\ domainEvents'[b][k].number = Delivered(b)' + k
    <3>1. b # f
      BY <2>4, <1>6
    <3>2. domainEvents'[b] = domainEvents[b] /\ Delivered(b)' = Delivered(b)
      BY <3>1, <1>6, <1>14
    <3> QED BY <2>4, <3>2 DEF IInv, DeliveredInOrder
  <2> QED BY <2>1, <2>2, <2>3, <2>4 DEF DeliveredInOrder
<1>18. SoleWriterDelivers'
  <2> SUFFICES ASSUME NEW b \in Aggregates, phase'[b] = "done",
                      \A d \in Aggregates \ {b} : IdOf[d] = IdOf[b] => raised[d] = 0
               PROVE  domainEvents'[b] = <<>>
    BY <1>5 DEF SoleWriterDelivers
  <2>1. CASE b = a
    <3>1. CASE domainEvents[a] = <<>>
      BY <2>1, <3>1, <1>6
    <3>2. CASE domainEvents[a] # <<>>
      <4>1. PICK k \in DOMAIN markedAggregates : markedAggregates[k] = a
        <5>1. ~ \E d \in Aggregates \ {a} : IdOf[d] = IdOf[a] /\ raised[d] > 0
          BY <2>1, <1>1
        <5> QED BY <3>2, <5>1 DEF IInv, PendingReachable
      <4>2. k = p
        BY <4>1, <1>2 DEF PlacesOf
      <4> QED BY <2>1, <4>1, <4>2, <1>4, <1>6
    <3> QED BY <3>1, <3>2
  <2>2. CASE b # a
    <3>1. domainEvents[b] = <<>>
      BY <2>2, <1>5 DEF IInv, TypeOK, SoleWriterDelivers
    <3> QED BY <3>1, <1>6
  <2> QED BY <2>1, <2>2
<1> QED BY <1>10, <1>11, <1>12, <1>13, <1>17, <1>18 DEF IInv

-----------------------------------------------------------------------------
\* A step that leaves the marks, the events and the log alone and completes
\* no request keeps the invariant.
LEMMA QuietStep ==
  ASSUME IInv, TypeOK',
         UNCHANGED <<markedAggregates, domainEvents, raised, dispatched>>,
         \A a \in Aggregates : phase'[a] = "done" => phase[a] = "done"
  PROVE  IInv'
<1>1. MarkedUnique' /\ MarkedHaveRaised' /\ PendingReachable'
  BY DEF IInv, MarkedUnique, MarkedHaveRaised, PendingReachable
<1>2. DeliveredInOrder'
  BY DEF IInv, DeliveredInOrder, Delivered
<1>3. SoleWriterDelivers'
  BY DEF IInv, SoleWriterDelivers
<1> QED BY <1>1, <1>2, <1>3 DEF IInv

LEMMA IInvNext == IInv /\ [Next]_vars => IInv'
<1> SUFFICES ASSUME IInv, [Next]_vars PROVE IInv'
  OBVIOUS
<1>t. /\ phase \in [Aggregates -> Phases]
      /\ subscribed \in 0..Len(Subscriptions)
      /\ handlersMap \in [EventClasses -> Seq(Handlers)]
  BY DEF IInv, TypeOK, DispatcherTypeOK
<1>1. CASE SetupSubscription
  <2> DEFINE s == Subscriptions[subscribed + 1]
  <2>1. /\ subscribed + 1 \in 1..Len(Subscriptions)
        /\ s \in Handlers \X EventClasses
    BY <1>1, <1>t, SubscriptionsAssumption DEF SetupSubscription
  <2>2. Register(s[1], s[2]) /\ subscribed' = subscribed + 1 /\ phase' = phase
    BY <1>1 DEF SetupSubscription
  <2> HIDE DEF s
  <2>3. handlersMap' \in [EventClasses -> Seq(Handlers)]
    BY <2>1, <2>2, <1>t DEF Register
  <2>4. TypeOK'
    BY <2>1, <2>2, <2>3 DEF IInv, TypeOK, DispatcherTypeOK, Register
  <2> QED BY <2>2, <2>4, QuietStep DEF Register
<1>2. ASSUME NEW a \in Aggregates, Load(a) \/ Commit(a) \/ Fail(a)
      PROVE  IInv'
  <2>1. UNCHANGED <<dispatcherVars, subscribed>>
    BY <1>2 DEF Load, Commit, Fail
  <2>2. \E p \in Phases \ {"done"} : phase' = [phase EXCEPT ![a] = p]
    BY <1>2 DEF Load, Commit, Fail, Phases
  <2>3. TypeOK'
    BY <2>1, <2>2 DEF IInv, TypeOK, DispatcherTypeOK, dispatcherVars
  <2>4. \A b \in Aggregates : phase'[b] = "done" => phase[b] = "done"
    BY <2>2, <1>t
  <2> QED BY <2>1, <2>3, <2>4, QuietStep DEF dispatcherVars
<1>3. ASSUME NEW a \in Aggregates, NEW c \in EventClasses, Raise(a, c)
      PROVE  IInv'
  BY <1>3, RaiseStep
<1>4. ASSUME NEW a \in Aggregates, DispatchEvents(a)
      PROVE  IInv'
  BY <1>4, DispatchNothingStep, DispatchMarkedStep
<1>5. CASE UNCHANGED vars
  <2>1. TypeOK'
    BY <1>5 DEF IInv, TypeOK, DispatcherTypeOK, vars, dispatcherVars
  <2> QED BY <1>5, <2>1, QuietStep DEF vars, dispatcherVars
<1> QED BY <1>1, <1>2, <1>3, <1>4, <1>5 DEF Next

THEOREM Invariance == Spec => []IInv
BY IInvInit, IInvNext, PTL DEF Spec

\* The state of the dispatcher keeps its type.
THEOREM TypeCorrect == Spec => []TypeOK
<1>1. IInv => TypeOK
  BY DEF IInv
<1> QED BY Invariance, <1>1, PTL

\* No two marked objects ever share an identity.
THEOREM MarkedUniqueCorrect == Spec => []MarkedUnique
<1>1. IInv => MarkedUnique
  BY DEF IInv
<1> QED BY Invariance, <1>1, PTL

\* Events are dispatched once, without gaps, in the order raised.
THEOREM DeliveryInOrderCorrect == Spec => []DeliveredInOrder
<1>1. IInv => DeliveredInOrder
  BY DEF IInv
<1> QED BY Invariance, <1>1, PTL

\* A request that has its aggregate to itself leaves no event behind.
THEOREM SoleWriterCorrect == Spec => []SoleWriterDelivers
<1>1. IInv => SoleWriterDelivers
  BY DEF IInv
<1> QED BY Invariance, <1>1, PTL

-----------------------------------------------------------------------------
\* Every step of the dispatcher is a step of EventDelivery or a stutter.
LEMMA DeliveryStep ==
  IInv /\ [Next]_vars => [Delivery!Next]_(Delivery!vars)
<1> SUFFICES ASSUME IInv, [Next]_vars
             PROVE  [Delivery!Next]_(Delivery!vars)
  OBVIOUS
<1> DEFINE delivered == [a \in Aggregates |-> Delivered(a)]
<1>t. /\ raised \in [Aggregates -> Nat]
      /\ domainEvents \in [Aggregates -> Seq(Event)]
      /\ markedAggregates \in Seq(Aggregates)
  BY DEF IInv, TypeOK, DispatcherTypeOK
<1>1. ASSUME UNCHANGED <<raised, domainEvents>>
      PROVE  UNCHANGED Delivery!vars
  BY <1>1 DEF Delivery!vars, Delivered
<1>2. CASE SetupSubscription
  BY <1>1, <1>2 DEF SetupSubscription, Register
<1>3. ASSUME NEW a \in Aggregates, Load(a) \/ Commit(a) \/ Fail(a)
      PROVE  UNCHANGED Delivery!vars
  BY <1>1, <1>3 DEF Load, Commit, Fail, dispatcherVars
<1>4. ASSUME NEW a \in Aggregates, NEW c \in EventClasses, Raise(a, c)
      PROVE  Delivery!Raise(a)
  <2> DEFINE e == [source |-> a, number |-> raised[a] + 1, class |-> c]
  <2>1. /\ raised' = [raised EXCEPT ![a] = @ + 1]
        /\ domainEvents' = [domainEvents EXCEPT ![a] = Append(@, e)]
    BY <1>4 DEF Raise, AddDomainEvent
  <2> HIDE DEF e
  <2>2. \A b \in Aggregates : Delivered(b)' = Delivered(b)
    <3> SUFFICES ASSUME NEW b \in Aggregates
                 PROVE  Delivered(b)' = Delivered(b)
      OBVIOUS
    <3>1. CASE b # a
      BY <3>1, <2>1, <1>t DEF Delivered
    <3>2. CASE b = a
      <4>1. domainEvents'[a] = Append(domainEvents[a], e)
        BY <2>1, <1>t
      <4>2. Len(domainEvents'[a]) = Len(domainEvents[a]) + 1
        BY <4>1, <1>t
      <4>3. raised'[a] = raised[a] + 1
        BY <2>1, <1>t
      <4> QED BY <3>2, <4>2, <4>3, <1>t DEF Delivered
    <3> QED BY <3>1, <3>2
  <2>3. delivered' = delivered
    BY <2>2
  <2> QED BY <2>1, <2>3 DEF Delivery!Raise
<1>5. ASSUME NEW a \in Aggregates, DispatchEvents(a), PlacesOf(IdOf[a]) = {}
      PROVE  UNCHANGED Delivery!vars
  BY <1>1, <1>5 DEF DispatchEvents, DispatchEventsForAggregate, dispatcherVars
<1>6. ASSUME NEW a \in Aggregates, DispatchEvents(a), PlacesOf(IdOf[a]) # {}
      PROVE  \/ UNCHANGED Delivery!vars
             \/ \E b \in Aggregates : Delivery!Deliver(b)
  <2>1. PICK f \in Aggregates : /\ domainEvents' = [domainEvents EXCEPT ![f] = <<>>]
                                /\ raised' = raised
    <3>1. FindMarkedAggregateByID(IdOf[a]) \in DOMAIN markedAggregates
      BY <1>6, FoundPlace DEF IInv, TypeOK, PlacesOf
    <3>2. markedAggregates[FindMarkedAggregateByID(IdOf[a])] \in Aggregates
      BY <3>1, <1>t
    <3> QED BY <1>6, <3>2 DEF DispatchEvents, DispatchEventsForAggregate
  <2>2. CASE domainEvents[f] = <<>>
    <3>1. domainEvents' = domainEvents
      BY <2>1, <2>2, <1>t
    <3> QED BY <2>1, <3>1, <1>1
  <2>3. CASE domainEvents[f] # <<>>
    <3>1. Len(domainEvents[f]) \in Nat \ {0}
      BY <2>3, <1>t, EmptySeq
    <3>2. Len(domainEvents'[f]) = 0
      BY <2>1, <1>t
    <3>3. Delivered(f)' = raised[f] /\ Delivered(f) < raised[f]
      BY <2>1, <3>1, <3>2, <1>t DEF Delivered
    <3>4. \A b \in Aggregates \ {f} : Delivered(b)' = Delivered(b)
      BY <2>1, <1>t DEF Delivered
    <3>5. delivered' = [delivered EXCEPT ![f] = raised[f]]
      BY <3>3, <3>4
    <3> QED BY <2>1, <3>3, <3>5 DEF Delivery!Deliver
  <2> QED BY <2>2, <2>3
<1>7. CASE UNCHANGED vars
  BY <1>1, <1>7 DEF vars, dispatcherVars
<1> QED BY <1>2, <1>3, <1>4, <1>5, <1>6, <1>7 DEF Next, Delivery!Next

LEMMA DeliveryInit == Init => Delivery!Init
BY DEF Init, DispatcherInit, Delivery!Init, Delivered

\* The dispatcher implements EventDelivery.
THEOREM Refinement == Spec => ImplementsEventDelivery
<1>1. Spec => Delivery!Init /\ [][Delivery!Next]_(Delivery!vars)
  BY Invariance, DeliveryInit, DeliveryStep, PTL DEF Spec
<1> QED BY <1>1 DEF ImplementsEventDelivery, Delivery!Spec
=============================================================================
