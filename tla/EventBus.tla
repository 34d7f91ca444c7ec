------------------------------ MODULE EventBus -------------------------------
(***************************************************************************)
(* core/EventBus: subscriptions and a queue of deferred events behind one  *)
(* mutex.  publish and processQueue run the handlers with the mutex held;  *)
(* handlers are a step each, and end.  The interface thread calls          *)
(* processQueue once a frame; any thread publishes, any subscribes.        *)
(***************************************************************************)
EXTENDS Naturals, Sequences, SequencesExt

CONSTANTS
  Publishers,   \* threads that publish
  Quota,        \* how many events each publishes: bounds the queue
  Types,        \* event types
  Handlers,     \* handlers, each subscribed at most once
  Listens,      \* Listens[h]: the types h's subscription matches ("*" is all)
  UI,           \* the thread that calls processQueue
  Nobody        \* nobody holds the mutex; no event is being dispatched

ASSUME NamesAssumption == UI \notin Publishers /\ Nobody \notin Publishers \cup {UI}
ASSUME ListensAssumption == Listens \in [Handlers -> SUBSET Types]
ASSUME QuotaAssumption == Quota \in [Publishers -> Nat]

Events == [from : Publishers, num : Nat, type : Types, later : BOOLEAN]

ASSUME NobodyAssumption == Nobody \notin Events

VARIABLES
  subs,      \* m_subscriptions, oldest first
  deferred,  \* m_deferredQueue
  batch,     \* processQueue's local queue
  holder,    \* who holds m_mutex across steps
  event,     \* the event its holder is dispatching
  todo,      \* the subscriptions its loop has still to visit, in order
  running,   \* whether the handler at the head of todo is being run
  sent,      \* history: how many events each publisher has published
  seen,      \* history: the events each handler has been given
  owed       \* history: deferred events still to reach each handler

history == <<sent, seen, owed>>
vars == <<subs, deferred, batch, holder, event, todo, running, history>>

Threads == Publishers \cup {UI}
LockFree == holder = Nobody

\* The handlers subscribed to an event of this type.
Matching(type) == {h \in ToSet(subs) : type \in Listens[h]}

Init ==
  /\ subs = <<>> /\ deferred = <<>> /\ batch = <<>>
  /\ holder = Nobody /\ event = Nobody /\ todo = <<>> /\ running = FALSE
  /\ sent = [p \in Publishers |-> 0]
  /\ seen = [h \in Handlers |-> <<>>]
  /\ owed = [h \in Handlers |-> {}]

NewEvent(p, type, later) ==
  [from |-> p, num |-> sent[p] + 1, type |-> type, later |-> later]

Publishing(p) ==
  /\ sent[p] < Quota[p]
  /\ sent' = [sent EXCEPT ![p] = @ + 1]

-----------------------------------------------------------------------------

Subscribe(h) ==
  /\ LockFree
  /\ h \notin ToSet(subs) /\ seen[h] = <<>>
  /\ subs' = Append(subs, h)
  /\ UNCHANGED <<deferred, batch, holder, event, todo, running, history>>

\* Variant: m_mutex is not taken.
UnsubscribeUnlocked(h) ==
  /\ \E i \in DOMAIN subs : subs[i] = h /\ subs' = RemoveAt(subs, i)
  /\ owed' = [owed EXCEPT ![h] = {}]
  /\ UNCHANGED <<deferred, batch, holder, event, todo, running, sent, seen>>

Unsubscribe(h) ==
  /\ LockFree
  /\ \E i \in DOMAIN subs : subs[i] = h /\ subs' = RemoveAt(subs, i)
  /\ owed' = [owed EXCEPT ![h] = {}]
  /\ UNCHANGED <<deferred, batch, holder, event, todo, running, sent, seen>>

\* Variant: the newest event goes to the front of the queue.
DeferToFront(p, type) ==
  /\ LockFree /\ Publishing(p)
  /\ LET e == NewEvent(p, type, TRUE) IN
       /\ deferred' = <<e>> \o deferred
       /\ owed' = [h \in Handlers |->
                     IF h \in Matching(type) THEN owed[h] \cup {e} ELSE owed[h]]
  /\ UNCHANGED <<subs, batch, holder, event, todo, running, seen>>

PublishDeferred(p, type) ==
  /\ LockFree /\ Publishing(p)
  /\ LET e == NewEvent(p, type, TRUE) IN
       /\ deferred' = Append(deferred, e)
       /\ owed' = [h \in Handlers |->
                     IF h \in Matching(type) THEN owed[h] \cup {e} ELSE owed[h]]
  /\ UNCHANGED <<subs, batch, holder, event, todo, running, seen>>

-----------------------------------------------------------------------------
(* Dispatch: t takes m_mutex and keeps it until the last handler returns.  *)

Dispatch(t, e) ==
  /\ LockFree
  /\ holder' = t
  /\ event' = e
  /\ todo' = subs
  /\ UNCHANGED <<subs, running>>

Publish(p, type) ==
  /\ Publishing(p)
  /\ Dispatch(p, NewEvent(p, type, FALSE))
  /\ UNCHANGED <<deferred, batch, seen, owed>>

\* Variant: the queue is copied, and emptied once the copy has been dispatched.
SwapLate ==
  /\ LockFree
  /\ \/ batch = <<>> /\ deferred # <<>> /\ batch' = deferred /\ UNCHANGED deferred
     \/ batch = <<>> /\ deferred' = <<>> /\ UNCHANGED batch
  /\ UNCHANGED <<subs, holder, event, todo, running, history>>

\* processQueue swaps the queues under m_mutex, then takes it again for each event.
Swap ==
  /\ LockFree
  /\ batch = <<>> /\ deferred # <<>>
  /\ batch' = deferred
  /\ deferred' = <<>>
  /\ UNCHANGED <<subs, holder, event, todo, running, history>>

DispatchNext ==
  /\ batch # <<>>
  /\ Dispatch(UI, Head(batch))
  /\ batch' = Tail(batch)
  /\ UNCHANGED <<deferred, history>>

CallHandler ==
  /\ ~LockFree /\ todo # <<>> /\ ~running /\ event.type \in Listens[Head(todo)]
  /\ running' = TRUE
  /\ seen' = [seen EXCEPT ![Head(todo)] = Append(@, event)]
  /\ owed' = [owed EXCEPT ![Head(todo)] = @ \ {event}]
  /\ UNCHANGED <<subs, deferred, batch, holder, event, todo, sent>>

PassBy ==
  /\ ~LockFree /\ todo # <<>> /\ ~running /\ event.type \notin Listens[Head(todo)]
  /\ todo' = Tail(todo)
  /\ UNCHANGED <<subs, deferred, batch, holder, event, running, history>>

HandlerReturns ==
  /\ running
  /\ running' = FALSE
  /\ todo' = Tail(todo)
  /\ UNCHANGED <<subs, deferred, batch, holder, event, history>>

Dispatched ==
  /\ ~LockFree /\ todo = <<>>
  /\ holder' = Nobody
  /\ event' = Nobody
  /\ UNCHANGED <<subs, deferred, batch, todo, running, history>>

-----------------------------------------------------------------------------

UIStep == Swap \/ DispatchNext
HolderStep == CallHandler \/ PassBy \/ HandlerReturns \/ Dispatched

Next ==
  \/ \E h \in Handlers : Subscribe(h) \/ Unsubscribe(h)
  \/ \E p \in Publishers, type \in Types : PublishDeferred(p, type) \/ Publish(p, type)
  \/ UIStep \/ HolderStep

Spec == Init /\ [][Next]_vars

\* Handlers end, and the interface thread renders frames; it gets m_mutex in turn.
Fairness == SF_vars(UIStep) /\ WF_vars(HolderStep)

FairSpec == Spec /\ Fairness

-----------------------------------------------------------------------------

TypeOK ==
  /\ subs \in Seq(Handlers) /\ IsInjective(subs)
  /\ deferred \in Seq(Events) /\ batch \in Seq(Events)
  /\ holder \in Threads \cup {Nobody}
  /\ event \in Events \cup {Nobody}
  /\ todo \in Seq(Handlers)
  /\ running \in BOOLEAN
  /\ LockFree <=> event = Nobody
  /\ running => todo # <<>> /\ ~LockFree
  /\ sent \in [Publishers -> Nat] /\ \A p \in Publishers : sent[p] <= Quota[p]
  /\ seen \in [Handlers -> Seq(Events)]
  /\ \A h \in Handlers : \A e \in owed[h] : e \in Events /\ e.later

\* A handler is not run once unsubscribe has returned, so what its closure refers to
\* may be destroyed then (EventBus.cpp:15-22, against 31-35 and 58-63).
NoCallAfterUnsubscribe ==
  \A i \in 1..Len(todo) : todo[i] \in ToSet(subs)

\* A handler is given the deferred events of one thread in the order that thread
\* published them, and none of them twice, however frames, subscriptions and other
\* publishers fall in between (EventBus.cpp:38-65).
DeferredInOrder ==
  \A h \in Handlers : \A i, j \in 1..Len(seen[h]) :
    (/\ i < j
     /\ seen[h][i].later /\ seen[h][j].later
     /\ seen[h][i].from = seen[h][j].from) => seen[h][i].num < seen[h][j].num

\* A deferred event reaches every handler subscribed when it was published and not
\* unsubscribed since, events published while a batch is being processed included.
DeferredDelivered ==
  \A h \in Handlers : owed[h] # {} ~> owed[h] = {}
=============================================================================
