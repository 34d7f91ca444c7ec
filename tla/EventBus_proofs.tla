---------------------------- MODULE EventBus_proofs ---------------------------
(***************************************************************************)
(* Theorems about EventBus, for any publishers, handlers and event types.  *)
(***************************************************************************)
EXTENDS EventBus, SequenceTheorems, TLAPS

BusTypes == TypeOK /\ owed \in [Handlers -> SUBSET Events]

\* Between dispatches there is no loop; in one, it visits subscriptions once each.
LoopVisitsSubs ==
  /\ LockFree => todo = <<>>
  /\ \A i \in 1..Len(todo) : todo[i] \in ToSet(subs)
  /\ \A i, j \in 1..Len(todo) : todo[i] = todo[j] => i = j

\* One deferred event comes before another of the same thread.
Precedes(d, e) == d.from = e.from => d.num < e.num

\* The deferred events that wait are in the order of publication, the batch first.
QueuesInOrder ==
  /\ \A i \in 1..Len(deferred) :
       deferred[i].later /\ deferred[i].num <= sent[deferred[i].from]
  /\ \A i \in 1..Len(batch) : batch[i].later /\ batch[i].num <= sent[batch[i].from]
  /\ \A i, j \in 1..Len(deferred) : i < j => Precedes(deferred[i], deferred[j])
  /\ \A i, j \in 1..Len(batch) : i < j => Precedes(batch[i], batch[j])
  /\ \A i \in 1..Len(batch), j \in 1..Len(deferred) : Precedes(batch[i], deferred[j])

\* The event being dispatched comes before those that wait.
EventInOrder ==
  event # Nobody =>
    /\ event.num <= sent[event.from]
    /\ event.later =>
         /\ \A i \in 1..Len(batch) : Precedes(event, batch[i])
         /\ \A i \in 1..Len(deferred) : Precedes(event, deferred[i])

\* A handler the loop has still to call.
ToCall(h) == \E k \in 1..Len(todo) : todo[k] = h /\ ~(running /\ k = 1)

\* What a handler has been given comes before what waits, and before the event being
\* dispatched unless it has been given that.
SeenInOrder ==
  \A h \in Handlers : \A i \in 1..Len(seen[h]) :
    /\ seen[h][i].num <= sent[seen[h][i].from]
    /\ seen[h][i].later =>
         /\ \A j \in 1..Len(batch) : Precedes(seen[h][i], batch[j])
         /\ \A j \in 1..Len(deferred) : Precedes(seen[h][i], deferred[j])
         /\ event # Nobody /\ event.later /\ ToCall(h) => Precedes(seen[h][i], event)

BusInv ==
  BusTypes /\ LoopVisitsSubs /\ QueuesInOrder /\ EventInOrder /\ SeenInOrder /\ DeferredInOrder
-----------------------------------------------------------------------------

LEMMA BusInitial == Init => BusInv
<1> SUFFICES ASSUME Init
             PROVE  BusInv
  OBVIOUS
<1>1. BusTypes
  <2>1. running \in BOOLEAN /\ ~running
    BY DEF Init
  <2>2. \A p \in Publishers : 0 <= Quota[p]
    BY QuotaAssumption
  <2>3. IsInjective(subs)
    BY DEF Init, IsInjective
  <2> QED
    BY <2>1, <2>2, <2>3 DEF Init, BusTypes, TypeOK, LockFree, Threads
<1>2. LoopVisitsSubs /\ QueuesInOrder /\ EventInOrder /\ SeenInOrder /\ DeferredInOrder
  BY DEF Init, LoopVisitsSubs, QueuesInOrder, EventInOrder, SeenInOrder, DeferredInOrder
<1> QED
  BY <1>1, <1>2 DEF BusInv

LEMMA RemovedAt ==
  ASSUME NEW s \in Seq(Handlers), NEW i \in 1..Len(s), IsInjective(s)
  PROVE  RemoveAt(s, i) \in Seq(Handlers) /\ IsInjective(RemoveAt(s, i))
<1> DEFINE before == SubSeq(s, 1, i - 1)
           after == SubSeq(s, i + 1, Len(s))
<1>1. /\ before \in Seq(Handlers) /\ Len(before) = i - 1
      /\ \A j \in 1..(i - 1) : before[j] = s[j]
  OBVIOUS
<1>2. /\ after \in Seq(Handlers) /\ Len(after) = Len(s) - i
      /\ \A j \in 1..(Len(s) - i) : after[j] = s[i + j]
  OBVIOUS
<1> HIDE DEF before, after
<1>3. /\ before \o after \in Seq(Handlers) /\ Len(before \o after) = Len(s) - 1
      /\ \A j \in 1..(Len(s) - 1) :
           (before \o after)[j] = IF j < i THEN before[j] ELSE after[j - (i - 1)]
  <2>1. /\ Len(before \o after) = Len(before) + Len(after)
        /\ before \o after \in Seq(Handlers)
        /\ \A j \in 1..(Len(before) + Len(after)) :
             (before \o after)[j] = IF j <= Len(before) THEN before[j]
                                     ELSE after[j - Len(before)]
    BY <1>1, <1>2, ConcatProperties
  <2> QED
    BY <1>1, <1>2, <2>1
<1>4. \A j \in 1..(Len(s) - 1) : (before \o after)[j] = s[IF j < i THEN j ELSE j + 1]
  <2> TAKE j \in 1..(Len(s) - 1)
  <2>1. CASE j < i
    BY <1>1, <1>3, <2>1
  <2>2. CASE ~(j < i)
    <3>1. j - (i - 1) \in 1..(Len(s) - i) /\ i + (j - (i - 1)) = j + 1
      BY <2>2
    <3> QED
      BY <1>2, <1>3, <2>2, <3>1
  <2> QED
    BY <2>1, <2>2
<1>5. RemoveAt(s, i) = before \o after
  BY DEF RemoveAt, before, after
<1>6. ASSUME NEW a \in 1..(Len(s) - 1), NEW b \in 1..(Len(s) - 1),
             (before \o after)[a] = (before \o after)[b]
      PROVE  a = b
  <2>1. s[IF a < i THEN a ELSE a + 1] = s[IF b < i THEN b ELSE b + 1]
    BY <1>4, <1>6
  <2>2. (IF a < i THEN a ELSE a + 1) \in DOMAIN s /\ (IF b < i THEN b ELSE b + 1) \in DOMAIN s
    OBVIOUS
  <2>3. (IF a < i THEN a ELSE a + 1) = (IF b < i THEN b ELSE b + 1)
    BY <2>1, <2>2 DEF IsInjective
  <2> QED
    BY <2>3
<1>7. DOMAIN (before \o after) = 1..(Len(s) - 1)
  BY <1>3
<1> QED
  BY <1>3, <1>5, <1>6, <1>7 DEF IsInjective

\* A new event comes after all its thread has published.
LEMMA NewEventIsLast ==
  ASSUME BusInv, NEW p \in Publishers, NEW type \in Types, NEW later \in BOOLEAN, Publishing(p)
  PROVE  /\ NewEvent(p, type, later) \in Events /\ NewEvent(p, type, later) # Nobody
         /\ NewEvent(p, type, later).from = p
         /\ NewEvent(p, type, later).num = sent'[p]
         /\ NewEvent(p, type, later).later = later
         /\ sent' \in [Publishers -> Nat] /\ sent'[p] = sent[p] + 1
         /\ \A q \in Publishers : sent[q] <= sent'[q] /\ sent'[q] <= Quota[q]
<1>1. /\ sent \in [Publishers -> Nat] /\ \A q \in Publishers : sent[q] <= Quota[q]
      /\ sent[p] < Quota[p] /\ sent' = [sent EXCEPT ![p] = sent[p] + 1]
      /\ \A q \in Publishers : Quota[q] \in Nat
  BY QuotaAssumption DEF BusInv, BusTypes, TypeOK, Publishing
<1>2. /\ sent' \in [Publishers -> Nat] /\ sent'[p] = sent[p] + 1
      /\ \A q \in Publishers : sent[q] <= sent'[q] /\ sent'[q] <= Quota[q]
  BY <1>1
<1>3. NewEvent(p, type, later) \in Events
  BY <1>1 DEF NewEvent, Events
<1>4. NewEvent(p, type, later) # Nobody
  BY <1>3, NobodyAssumption
<1>5. /\ NewEvent(p, type, later).from = p
      /\ NewEvent(p, type, later).num = sent[p] + 1
      /\ NewEvent(p, type, later).later = later
  BY DEF NewEvent
<1> QED
  BY <1>2, <1>3, <1>4, <1>5

\* Subscriptions come and go between dispatches, and touch no event.
LEMMA SubscribeStep ==
  ASSUME BusInv, NEW h \in Handlers, Subscribe(h) \/ Unsubscribe(h)
  PROVE  BusInv'
<1>1. /\ LockFree /\ todo = <<>>
      /\ UNCHANGED <<deferred, batch, holder, event, todo, running, sent, seen>>
      /\ owed' \in {owed, [owed EXCEPT ![h] = {}]}
  BY DEF Subscribe, Unsubscribe, history, BusInv, LoopVisitsSubs
<1>2. subs' \in Seq(Handlers) /\ IsInjective(subs')
  <2>1. CASE Subscribe(h)
    <3>1. /\ subs \in Seq(Handlers) /\ subs' = Append(subs, h)
          /\ \A i \in 1..Len(subs) : subs[i] # h
          /\ \A i, j \in 1..Len(subs) : subs[i] = subs[j] => i = j
      <4>1. subs \in Seq(Handlers) /\ IsInjective(subs) /\ DOMAIN subs = 1..Len(subs)
        BY DEF BusInv, BusTypes, TypeOK
      <4>2. subs' = Append(subs, h) /\ h \notin ToSet(subs)
        BY <2>1 DEF Subscribe
      <4>3. \A i \in 1..Len(subs) : subs[i] # h
        BY <4>1, <4>2 DEF ToSet
      <4> QED
        BY <4>1, <4>2, <4>3 DEF IsInjective
    <3>2. /\ subs' \in Seq(Handlers) /\ Len(subs') = Len(subs) + 1
          /\ subs'[Len(subs) + 1] = h
          /\ \A i \in 1..Len(subs) : subs'[i] = subs[i]
          /\ DOMAIN subs' = 1..(Len(subs) + 1)
      BY <3>1
    <3>3. ASSUME NEW i \in 1..(Len(subs) + 1), NEW j \in 1..(Len(subs) + 1), subs'[i] = subs'[j]
          PROVE  i = j
      BY <3>1, <3>2, <3>3
    <3> QED
      BY <3>2, <3>3 DEF IsInjective
  <2>2. CASE Unsubscribe(h)
    <3>1. PICK i \in DOMAIN subs : subs' = RemoveAt(subs, i)
      BY <2>2 DEF Unsubscribe
    <3>2. subs \in Seq(Handlers) /\ IsInjective(subs) /\ i \in 1..Len(subs)
      BY DEF BusInv, BusTypes, TypeOK
    <3> QED
      BY <3>1, <3>2, RemovedAt
  <2> QED
    BY <2>1, <2>2
<1>3. BusTypes'
  BY <1>1, <1>2 DEF BusInv, BusTypes, TypeOK, LockFree
<1>4. LoopVisitsSubs'
  BY <1>1 DEF LoopVisitsSubs
<1>5. QueuesInOrder' /\ EventInOrder' /\ SeenInOrder' /\ DeferredInOrder'
  BY <1>1 DEF BusInv, QueuesInOrder, EventInOrder, SeenInOrder, ToCall, DeferredInOrder
<1> QED
  BY <1>3, <1>4, <1>5 DEF BusInv

\* A deferred event goes to the end of the queue.
LEMMA PublishDeferredStep ==
  ASSUME BusInv, NEW p \in Publishers, NEW type \in Types, PublishDeferred(p, type)
  PROVE  BusInv'
<1> DEFINE e == NewEvent(p, type, TRUE)
<1>1. /\ LockFree /\ Publishing(p) /\ deferred' = Append(deferred, e)
      /\ owed' = [h \in Handlers |-> IF h \in Matching(type) THEN owed[h] \cup {e} ELSE owed[h]]
      /\ UNCHANGED <<subs, batch, holder, event, todo, running, seen>>
  BY DEF PublishDeferred
<1>2. /\ e \in Events /\ e.from = p /\ e.num = sent'[p] /\ e.later
      /\ sent' \in [Publishers -> Nat] /\ sent'[p] = sent[p] + 1
      /\ \A q \in Publishers : sent[q] <= sent'[q] /\ sent'[q] <= Quota[q]
  BY <1>1, NewEventIsLast
<1> HIDE DEF e
<1>3. /\ deferred \in Seq(Events) /\ batch \in Seq(Events) /\ seen \in [Handlers -> Seq(Events)]
      /\ sent \in [Publishers -> Nat] /\ event = Nobody
  BY <1>1 DEF BusInv, BusTypes, TypeOK
<1>4. /\ deferred' \in Seq(Events) /\ Len(deferred') = Len(deferred) + 1
      /\ Len(deferred) \in Nat /\ deferred'[Len(deferred) + 1] = e
      /\ \A i \in 1..Len(deferred) : deferred'[i] = deferred[i] /\ deferred[i] \in Events
      /\ \A i \in 1..Len(batch) : batch[i] \in Events
      /\ \A h \in Handlers : \A i \in 1..Len(seen[h]) : seen[h][i] \in Events
  <2>1. /\ deferred' \in Seq(Events) /\ Len(deferred') = Len(deferred) + 1
        /\ Len(deferred) \in Nat /\ deferred'[Len(deferred) + 1] = e
        /\ \A i \in 1..Len(deferred) : deferred'[i] = deferred[i]
    BY <1>1, <1>2, <1>3, AppendProperties
  <2>2. /\ \A i \in 1..Len(deferred) : deferred[i] \in Events
        /\ \A i \in 1..Len(batch) : batch[i] \in Events
        /\ \A h \in Handlers : \A i \in 1..Len(seen[h]) : seen[h][i] \in Events
    BY <1>3
  <2> QED
    BY <2>1, <2>2
<1>5. \A i \in 1..Len(deferred') : i \in 1..Len(deferred) \/ i = Len(deferred) + 1
  BY <1>4
<1>6. \A d \in Events : d.num <= sent[d.from] => d.num <= sent'[d.from] /\ Precedes(d, e)
  BY <1>2, <1>3 DEF Events, Precedes
<1>7. BusTypes'
  <2>1. owed' \in [Handlers -> SUBSET Events] /\ \A h \in Handlers : \A d \in owed'[h] : d.later
    BY <1>1, <1>2 DEF BusInv, BusTypes, TypeOK
  <2> QED
    BY <1>1, <1>2, <1>4, <2>1 DEF BusInv, BusTypes, TypeOK, LockFree
<1>8. LoopVisitsSubs'
  BY <1>1 DEF BusInv, LoopVisitsSubs, LockFree
<1>9. QueuesInOrder'
  <2>1. /\ \A i \in 1..Len(deferred') :
             deferred'[i].later /\ deferred'[i].num <= sent'[deferred'[i].from]
        /\ \A i \in 1..Len(batch') : batch'[i].later /\ batch'[i].num <= sent'[batch'[i].from]
    <3>1. /\ \A i \in 1..Len(deferred) :
               deferred[i].later /\ deferred[i].num <= sent[deferred[i].from]
          /\ \A i \in 1..Len(batch) : batch[i].later /\ batch[i].num <= sent[batch[i].from]
      BY DEF BusInv, QueuesInOrder
    <3>2. e.num <= sent'[e.from]
      BY <1>2
    <3>3. ASSUME NEW i \in 1..Len(deferred')
          PROVE  deferred'[i].later /\ deferred'[i].num <= sent'[deferred'[i].from]
      <4>1. CASE i \in 1..Len(deferred)
        BY <1>4, <1>6, <3>1, <4>1
      <4>2. CASE i = Len(deferred) + 1
        BY <1>2, <1>4, <3>2, <4>2
      <4> QED
        BY <1>5, <4>1, <4>2
    <3>4. \A i \in 1..Len(batch') : batch'[i].later /\ batch'[i].num <= sent'[batch'[i].from]
      BY <1>1, <1>4, <1>6, <3>1
    <3> QED
      BY <3>3, <3>4
  <2>2. ASSUME NEW i \in 1..Len(deferred'), NEW j \in 1..Len(deferred'), i < j
        PROVE  Precedes(deferred'[i], deferred'[j])
    <3>1. i \in 1..Len(deferred)
      BY <1>4, <2>2
    <3>2. CASE j \in 1..Len(deferred)
      BY <1>4, <2>2, <3>1, <3>2 DEF BusInv, QueuesInOrder
    <3>3. CASE j = Len(deferred) + 1
      BY <1>4, <1>6, <3>1, <3>3 DEF BusInv, QueuesInOrder
    <3> QED
      BY <1>5, <3>2, <3>3
  <2>3. ASSUME NEW i \in 1..Len(batch), NEW j \in 1..Len(deferred')
        PROVE  Precedes(batch[i], deferred'[j])
    <3>1. CASE j \in 1..Len(deferred)
      BY <1>4, <3>1 DEF BusInv, QueuesInOrder
    <3>2. CASE j = Len(deferred) + 1
      BY <1>4, <1>6, <3>2 DEF BusInv, QueuesInOrder
    <3> QED
      BY <1>5, <3>1, <3>2
  <2>4. \A i, j \in 1..Len(batch) : i < j => Precedes(batch[i], batch[j])
    BY DEF BusInv, QueuesInOrder
  <2> QED
    BY <1>1, <2>1, <2>2, <2>3, <2>4 DEF QueuesInOrder
<1>10. EventInOrder'
  BY <1>1, <1>3 DEF EventInOrder
<1>11. SeenInOrder'
  <2> SUFFICES ASSUME NEW h \in Handlers, NEW i \in 1..Len(seen[h])
               PROVE  /\ seen[h][i].num <= sent'[seen[h][i].from]
                      /\ seen[h][i].later =>
                           /\ \A j \in 1..Len(batch) : Precedes(seen[h][i], batch[j])
                           /\ \A j \in 1..Len(deferred') : Precedes(seen[h][i], deferred'[j])
    BY <1>1, <1>3 DEF SeenInOrder
  <2>1. /\ seen[h][i] \in Events /\ seen[h][i].num <= sent[seen[h][i].from]
        /\ seen[h][i].later =>
             /\ \A j \in 1..Len(batch) : Precedes(seen[h][i], batch[j])
             /\ \A j \in 1..Len(deferred) : Precedes(seen[h][i], deferred[j])
    BY <1>4 DEF BusInv, SeenInOrder
  <2> QED
    BY <1>4, <1>5, <1>6, <2>1
<1>12. DeferredInOrder'
  BY <1>1 DEF BusInv, DeferredInOrder
<1> QED
  BY <1>7, <1>8, <1>9, <1>10, <1>11, <1>12 DEF BusInv

\* What is in the queues and histories are events.
LEMMA AreEvents ==
  ASSUME BusInv
  PROVE  /\ \A i \in 1..Len(deferred) : deferred[i] \in Events
         /\ \A i \in 1..Len(batch) : batch[i] \in Events
         /\ \A h \in Handlers : \A i \in 1..Len(seen[h]) : seen[h][i] \in Events
         /\ ~LockFree => event \in Events
         /\ DOMAIN subs = 1..Len(subs) /\ subs \in Seq(Handlers) /\ IsInjective(subs)
BY DEF BusInv, BusTypes, TypeOK

\* A loop begins with all that are subscribed.
LEMMA DispatchBegins ==
  ASSUME BusInv, NEW t \in Threads, NEW e \in Events, Dispatch(t, e)
  PROVE  /\ LoopVisitsSubs' /\ holder' = t /\ event' = e /\ event' # Nobody /\ ~LockFree'
         /\ todo' \in Seq(Handlers) /\ UNCHANGED <<subs, running>>
         /\ LockFree /\ event = Nobody /\ ~running /\ running \in BOOLEAN
<1>1. /\ LockFree /\ holder' = t /\ event' = e /\ todo' = subs /\ UNCHANGED <<subs, running>>
  BY DEF Dispatch
<1>2. t # Nobody /\ e # Nobody
  BY NamesAssumption, NobodyAssumption DEF Threads
<1>3. subs \in Seq(Handlers) /\ IsInjective(subs) /\ DOMAIN subs = 1..Len(subs)
  BY AreEvents
<1>4. \A i \in 1..Len(subs) : subs[i] \in ToSet(subs)
  BY <1>3 DEF ToSet
<1>5. \A i, j \in 1..Len(subs) : subs[i] = subs[j] => i = j
  BY <1>3 DEF IsInjective
<1>6. event = Nobody /\ ~running /\ running \in BOOLEAN
  BY <1>1 DEF BusInv, BusTypes, TypeOK
<1> QED
  BY <1>1, <1>2, <1>3, <1>4, <1>5, <1>6 DEF LoopVisitsSubs, LockFree

LEMMA PublishStep ==
  ASSUME BusInv, NEW p \in Publishers, NEW type \in Types, Publish(p, type)
  PROVE  BusInv'
<1> DEFINE e == NewEvent(p, type, FALSE)
<1>1. /\ Publishing(p) /\ Dispatch(p, e) /\ p \in Threads
      /\ UNCHANGED <<deferred, batch, seen, owed>>
  BY DEF Publish, Threads
<1>2. /\ e \in Events /\ e.from = p /\ e.num = sent'[p] /\ e.later = FALSE
      /\ sent' \in [Publishers -> Nat] /\ sent'[p] = sent[p] + 1
      /\ \A q \in Publishers : sent[q] <= sent'[q] /\ sent'[q] <= Quota[q]
  BY <1>1, NewEventIsLast
<1> HIDE DEF e
<1>3. /\ LoopVisitsSubs' /\ holder' = p /\ event' = e /\ event' # Nobody /\ ~LockFree'
      /\ todo' \in Seq(Handlers) /\ UNCHANGED <<subs, running>>
      /\ ~running /\ running \in BOOLEAN
  BY <1>1, <1>2, DispatchBegins
<1>4. \A d \in Events : d.num <= sent[d.from] => d.num <= sent'[d.from]
  BY <1>2 DEF Events, BusInv, BusTypes, TypeOK
<1>5. BusTypes'
  BY <1>1, <1>2, <1>3 DEF BusInv, BusTypes, TypeOK
<1>6. QueuesInOrder'
  BY <1>1, <1>4, AreEvents DEF BusInv, QueuesInOrder
<1>7. EventInOrder'
  BY <1>2, <1>3 DEF EventInOrder
<1>8. SeenInOrder'
  BY <1>1, <1>2, <1>3, <1>4, AreEvents DEF BusInv, SeenInOrder
<1>9. DeferredInOrder'
  BY <1>1 DEF BusInv, DeferredInOrder
<1> QED
  BY <1>3, <1>5, <1>6, <1>7, <1>8, <1>9 DEF BusInv

LEMMA QueueStep ==
  ASSUME BusInv, UIStep
  PROVE  BusInv'
<1>1. CASE Swap
  <2>1. /\ batch = <<>> /\ batch' = deferred /\ deferred' = <<>>
        /\ UNCHANGED <<subs, holder, event, todo, running, sent, seen, owed>>
    BY <1>1 DEF Swap, history
  <2>2. BusTypes' /\ LoopVisitsSubs'
    BY <2>1 DEF BusInv, BusTypes, TypeOK, LoopVisitsSubs, LockFree
  <2>3. QueuesInOrder' /\ EventInOrder'
    BY <2>1 DEF BusInv, QueuesInOrder, EventInOrder
  <2>4. SeenInOrder'
    BY <2>1 DEF BusInv, SeenInOrder, ToCall
  <2>5. DeferredInOrder'
    BY <2>1 DEF BusInv, DeferredInOrder
  <2> QED
    BY <2>2, <2>3, <2>4, <2>5 DEF BusInv
<1>2. CASE DispatchNext
  <2>1. /\ batch # <<>> /\ batch \in Seq(Events) /\ Dispatch(UI, Head(batch))
        /\ batch' = Tail(batch) /\ UI \in Threads
        /\ UNCHANGED <<deferred, sent, seen, owed>>
    BY <1>2 DEF DispatchNext, history, BusInv, BusTypes, TypeOK, Threads
  <2>2. /\ Head(batch) = batch[1] /\ Head(batch) \in Events /\ 1 \in 1..Len(batch)
        /\ batch' \in Seq(Events) /\ Len(batch') = Len(batch) - 1 /\ Len(batch) \in Nat
        /\ \A i \in 1..Len(batch') : batch'[i] = batch[i + 1]
    BY <2>1, HeadTailProperties
  <2>3. /\ LoopVisitsSubs' /\ holder' = UI /\ event' = batch[1] /\ event' # Nobody
        /\ ~LockFree' /\ todo' \in Seq(Handlers) /\ UNCHANGED <<subs, running>>
        /\ ~running /\ running \in BOOLEAN
    BY <2>1, <2>2, DispatchBegins
  <2>4. \A i \in 1..Len(batch') : i + 1 \in 1..Len(batch) /\ 1 < i + 1
    BY <2>2
  <2>5. BusTypes'
    BY <2>1, <2>2, <2>3 DEF BusInv, BusTypes, TypeOK
  <2>6. QueuesInOrder'
    <3>1. \A i, j \in 1..Len(batch') : i < j => i + 1 < j + 1
      BY <2>2
    <3> QED
      BY <2>1, <2>2, <2>4, <3>1 DEF BusInv, QueuesInOrder
  <2>7. EventInOrder'
    BY <2>1, <2>2, <2>3, <2>4 DEF BusInv, QueuesInOrder, EventInOrder
  <2>8. SeenInOrder'
    BY <2>1, <2>2, <2>3, <2>4 DEF BusInv, SeenInOrder
  <2>9. DeferredInOrder'
    BY <2>1 DEF BusInv, DeferredInOrder
  <2> QED
    BY <2>3, <2>5, <2>6, <2>7, <2>8, <2>9 DEF BusInv
<1> QED
  BY <1>1, <1>2 DEF UIStep

\* The loop calls a handler that the event is for.
LEMMA CallStep ==
  ASSUME BusInv, CallHandler
  PROVE  BusInv'
<1>0. PICK h : h = Head(todo)
  OBVIOUS
<1>1. /\ ~LockFree /\ todo # <<>> /\ todo \in Seq(Handlers) /\ ~running /\ running' = TRUE
      /\ seen' = [seen EXCEPT ![h] = Append(seen[h], event)]
      /\ owed' = [owed EXCEPT ![h] = owed[h] \ {event}]
      /\ UNCHANGED <<subs, deferred, batch, holder, event, todo, sent>>
  BY <1>0 DEF CallHandler, BusInv, BusTypes, TypeOK
<1>2. /\ h = todo[1] /\ h \in Handlers /\ 1 \in 1..Len(todo)
      /\ event \in Events /\ event # Nobody /\ seen \in [Handlers -> Seq(Events)]
  BY <1>0, <1>1, AreEvents DEF BusInv, BusTypes, TypeOK, LockFree
<1>3. /\ seen[h] \in Seq(Events) /\ seen'[h] = Append(seen[h], event)
      /\ \A g \in Handlers : g # h => seen'[g] = seen[g]
      /\ seen' \in [Handlers -> Seq(Events)]
  BY <1>1, <1>2
<1>4. /\ Len(seen'[h]) = Len(seen[h]) + 1 /\ Len(seen[h]) \in Nat
      /\ seen'[h][Len(seen[h]) + 1] = event
      /\ \A i \in 1..Len(seen[h]) : seen'[h][i] = seen[h][i]
  BY <1>2, <1>3, AppendProperties
<1>5. \A i \in 1..Len(seen'[h]) : i \in 1..Len(seen[h]) \/ i = Len(seen[h]) + 1
  BY <1>4
<1>6. BusTypes'
  <2>1. owed' \in [Handlers -> SUBSET Events] /\ \A g \in Handlers : owed'[g] \subseteq owed[g]
    BY <1>1, <1>2 DEF BusInv, BusTypes
  <2>2. \A g \in Handlers : \A e \in owed'[g] : e \in Events /\ e.later
    BY <2>1 DEF BusInv, BusTypes, TypeOK
  <2>3. running' \in BOOLEAN /\ (running' => todo' # <<>> /\ ~LockFree')
    BY <1>1 DEF LockFree
  <2> QED
    BY <1>1, <1>3, <2>1, <2>2, <2>3 DEF BusInv, BusTypes, TypeOK, LockFree
<1>7. LoopVisitsSubs' /\ QueuesInOrder' /\ EventInOrder'
  BY <1>1 DEF BusInv, LoopVisitsSubs, QueuesInOrder, EventInOrder, LockFree
<1>8. ToCall(h) /\ ~ToCall(h)' /\ \A g \in Handlers : ToCall(g)' => ToCall(g)
  BY <1>1, <1>2 DEF ToCall, BusInv, LoopVisitsSubs
<1>9. SeenInOrder'
  <2> SUFFICES ASSUME NEW g \in Handlers, NEW i \in 1..Len(seen'[g])
               PROVE  /\ seen'[g][i].num <= sent[seen'[g][i].from]
                      /\ seen'[g][i].later =>
                           /\ \A j \in 1..Len(batch) : Precedes(seen'[g][i], batch[j])
                           /\ \A j \in 1..Len(deferred) : Precedes(seen'[g][i], deferred[j])
                           /\ event # Nobody /\ event.later /\ ToCall(g)' =>
                                Precedes(seen'[g][i], event)
    BY <1>1 DEF SeenInOrder
  <2>1. CASE g # h
    BY <1>3, <1>8, <2>1 DEF BusInv, SeenInOrder
  <2>2. CASE g = h /\ i \in 1..Len(seen[h])
    BY <1>2, <1>4, <1>8, <2>2 DEF BusInv, SeenInOrder
  <2>3. CASE g = h /\ i = Len(seen[h]) + 1
    BY <1>2, <1>4, <1>8, <2>3 DEF BusInv, EventInOrder
  <2> QED
    BY <1>5, <2>1, <2>2, <2>3
<1>10. DeferredInOrder'
  <2> SUFFICES ASSUME NEW g \in Handlers, NEW i \in 1..Len(seen'[g]), NEW j \in 1..Len(seen'[g]),
                      i < j, seen'[g][i].later, seen'[g][j].later,
                      seen'[g][i].from = seen'[g][j].from
               PROVE  seen'[g][i].num < seen'[g][j].num
    BY DEF DeferredInOrder
  <2>1. CASE g # h
    BY <1>3, <2>1 DEF BusInv, DeferredInOrder
  <2>2. CASE g = h /\ j \in 1..Len(seen[h])
    <3>1. i \in 1..Len(seen[h])
      BY <1>4, <2>2
    <3>2. seen'[g][i] = seen[g][i] /\ seen'[g][j] = seen[g][j]
      BY <1>4, <2>2, <3>1
    <3> QED
      BY <2>2, <3>1, <3>2 DEF BusInv, DeferredInOrder
  <2>3. CASE g = h /\ j = Len(seen[h]) + 1
    <3>1. i \in 1..Len(seen[h])
      BY <1>4, <2>3
    <3>2. Precedes(seen[h][i], event)
      BY <1>2, <1>4, <1>8, <2>3, <3>1 DEF BusInv, SeenInOrder
    <3> QED
      BY <1>4, <2>3, <3>1, <3>2 DEF Precedes
  <2> QED
    BY <1>5, <2>1, <2>2, <2>3
<1> QED
  BY <1>6, <1>7, <1>9, <1>10 DEF BusInv

\* It goes on to the next subscription, or is over.
LEMMA LoopStep ==
  ASSUME BusInv, PassBy \/ HandlerReturns \/ Dispatched
  PROVE  BusInv'
<1>1. CASE PassBy \/ HandlerReturns
  <2>1. /\ ~LockFree /\ todo # <<>> /\ todo \in Seq(Handlers) /\ ~running' /\ running' = FALSE
        /\ todo' = Tail(todo)
        /\ UNCHANGED <<subs, deferred, batch, holder, event, sent, seen, owed>>
    BY <1>1 DEF PassBy, HandlerReturns, history, BusInv, BusTypes, TypeOK
  <2>2. /\ todo' \in Seq(Handlers) /\ Len(todo') = Len(todo) - 1 /\ Len(todo) \in Nat
        /\ \A i \in 1..Len(todo') : todo'[i] = todo[i + 1]
    BY <2>1, HeadTailProperties
  <2>3. \A i \in 1..Len(todo') : i + 1 \in 1..Len(todo) /\ i + 1 # 1
    BY <2>2
  <2>4. BusTypes'
    <3>1. running' \in BOOLEAN
      BY <2>1
    <3> QED
      BY <2>1, <2>2, <3>1 DEF BusInv, BusTypes, TypeOK, LockFree
  <2>5. LoopVisitsSubs'
    <3>1. ~LockFree'
      BY <2>1 DEF LockFree
    <3>2. \A i \in 1..Len(todo') : todo'[i] \in ToSet(subs')
      BY <2>1, <2>2, <2>3 DEF BusInv, LoopVisitsSubs
    <3>3. ASSUME NEW i \in 1..Len(todo'), NEW j \in 1..Len(todo'), todo'[i] = todo'[j]
          PROVE  i = j
      <4>1. i + 1 = j + 1
        BY <2>2, <2>3, <3>3 DEF BusInv, LoopVisitsSubs
      <4> QED
        BY <4>1
    <3> QED
      BY <3>1, <3>2, <3>3 DEF LoopVisitsSubs
  <2>6. \A h \in Handlers : ToCall(h)' => ToCall(h)
    BY <2>1, <2>2, <2>3 DEF ToCall
  <2>7. QueuesInOrder' /\ EventInOrder' /\ DeferredInOrder'
    BY <2>1 DEF BusInv, QueuesInOrder, EventInOrder, DeferredInOrder
  <2>8. SeenInOrder'
    BY <2>1, <2>6 DEF BusInv, SeenInOrder
  <2> QED
    BY <2>4, <2>5, <2>7, <2>8 DEF BusInv
<1>2. CASE Dispatched
  <2>1. /\ todo = <<>> /\ holder' = Nobody /\ event' = Nobody
        /\ UNCHANGED <<subs, deferred, batch, todo, running, sent, seen, owed>>
    BY <1>2 DEF Dispatched, history
  <2>2. BusTypes' /\ LoopVisitsSubs'
    BY <2>1 DEF BusInv, BusTypes, TypeOK, LoopVisitsSubs, LockFree
  <2>3. QueuesInOrder' /\ EventInOrder' /\ DeferredInOrder'
    BY <2>1 DEF BusInv, QueuesInOrder, EventInOrder, DeferredInOrder
  <2>4. SeenInOrder'
    BY <2>1 DEF BusInv, SeenInOrder
  <2> QED
    BY <2>2, <2>3, <2>4 DEF BusInv
<1> QED
  BY <1>1, <1>2

LEMMA BusStep == BusInv /\ [Next]_vars => BusInv'
<1> SUFFICES ASSUME BusInv, [Next]_vars
             PROVE  BusInv'
  OBVIOUS
<1>1. CASE UNCHANGED vars
  BY <1>1
  DEF vars, history, BusInv, BusTypes, TypeOK, LockFree, LoopVisitsSubs, QueuesInOrder,
      EventInOrder, SeenInOrder, ToCall, DeferredInOrder
<1>2. CASE Next
  BY <1>2, SubscribeStep, PublishDeferredStep, PublishStep, QueueStep, CallStep, LoopStep
  DEF Next, HolderStep
<1> QED
  BY <1>1, <1>2
-----------------------------------------------------------------------------

\* For any publishers and handlers, every variable keeps its type, and the mutex is held
\* exactly while an event is being dispatched.
THEOREM BusKeepsTypes == Spec => []TypeOK
<1>1. BusInv => TypeOK
  BY DEF BusInv, BusTypes
<1> QED
  BY BusInitial, BusStep, <1>1, PTL DEF Spec

\* For any publishers and handlers, no handler is called once unsubscribe has returned.
THEOREM UnsubscribedIsNotCalled == Spec => []NoCallAfterUnsubscribe
<1>1. BusInv => NoCallAfterUnsubscribe
  BY DEF BusInv, LoopVisitsSubs, NoCallAfterUnsubscribe
<1> QED
  BY BusInitial, BusStep, <1>1, PTL DEF Spec

\* For any publishers and handlers, a handler is given the deferred events of a thread in
\* the order of publication, none of them twice.
THEOREM DeferredComeInOrder == Spec => []DeferredInOrder
<1>1. BusInv => DeferredInOrder
  BY DEF BusInv
<1> QED
  BY BusInitial, BusStep, <1>1, PTL DEF Spec
=============================================================================
