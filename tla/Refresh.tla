------------------------------- MODULE Refresh -------------------------------
(***************************************************************************)
(* The information on display: the interface thread enqueues a refresh     *)
(* every two seconds, however many are pending; pool workers ask the       *)
(* server twice over HTTP and replace ServerManager::m_cachedInfo, field   *)
(* by field and without a lock, then add a point to the FPS history under  *)
(* m_mutex.  Of ServerInfo two fields are kept: online, which the first    *)
(* request decides, and stats, which stands for what the second brings.    *)
(***************************************************************************)
EXTENDS Naturals, Sequences

CONSTANTS
  PoolWorkers,  \* the pool's threads
  HistoryCap,   \* m_fpsHistory's length limit, 300 in the code
  MaxPending,   \* bounds the refreshes waiting in the pool
  MaxTime       \* bounds the clock

ASSUME RefreshAssumption ==
  HistoryCap \in Nat \ {0} /\ MaxPending \in Nat /\ MaxTime \in Nat

VARIABLES
  reach,    \* what m_baseUrl leads to at the moment
  pending,  \* refreshes in the pool's queue
  step,     \* where each worker is in refreshData
  got,      \* the ServerInfo each worker is filling, empty while it is idle
  cached,   \* m_cachedInfo
  history,  \* m_fpsHistory: the time of each point
  time      \* the system clock, in seconds; assumed never to be set back

refreshVars == <<reach, pending, step, got, cached, history, time>>

\* "slow": some requests time out; "odd": JSON objects with fields of other types.
Reaches == {"up", "slow", "down", "odd"}
NoInfo == [online |-> FALSE, stats |-> FALSE]

\* What a request may come back with: an object, no object (an error, a timeout, or
\* a body that is not JSON), an object that cannot be read.  The status is not looked at.
Answers ==
  CASE reach = "up"   -> {"object"}
    [] reach = "slow" -> {"object", "null"}
    [] reach = "down" -> {"null"}
    [] reach = "odd"  -> {"odd"}

RefreshInit ==
  /\ reach = "down" /\ pending = 0
  /\ step = [w \in PoolWorkers |-> "idle"]
  /\ got = [w \in PoolWorkers |-> NoInfo]
  /\ cached = NoInfo
  /\ history = <<>> /\ time = 0

-----------------------------------------------------------------------------
\* render, when its timer has reached the interval.
EnqueueRefresh ==
  /\ pending < MaxPending
  /\ pending' = pending + 1
  /\ UNCHANGED <<reach, step, got, cached, history, time>>

TakeRefresh(w) ==
  /\ step[w] = "idle" /\ pending > 0
  /\ pending' = pending - 1
  /\ step' = [step EXCEPT ![w] = "info"]
  /\ UNCHANGED <<reach, got, cached, history, time>>

\* One of fetchServerInfo's two requests; an answer that cannot be read throws.
Fetch(w, from, field, to) ==
  /\ step[w] = from
  /\ \E a \in Answers :
       /\ step' = [step EXCEPT ![w] = IF a = "odd" THEN "failed" ELSE to]
       /\ got' = [got EXCEPT ![w][field] = (a = "object")]
  /\ UNCHANGED <<reach, pending, cached, history, time>>

FetchInfo(w) == Fetch(w, "info", "online", "metrics")
FetchMetrics(w) == Fetch(w, "metrics", "stats", "store")

Store(w, from, field, value, to) ==
  /\ step[w] = from
  /\ cached' = [cached EXCEPT ![field] = value]
  /\ step' = [step EXCEPT ![w] = to]
  /\ UNCHANGED <<reach, pending, got, history, time>>

\* Variant: an exception leaves the display as it is.
StoreInfoSkipsFailure(w) ==
  \/ Store(w, "store", "online", got[w].online, "storing")
  \/ Store(w, "storing", "stats", got[w].stats, "point")
  \/ Store(w, "failed", "online", cached.online, "point")

\* m_cachedInfo = ..., as two writes; after an exception only online is written.
StoreInfo(w) ==
  \/ Store(w, "store", "online", got[w].online, "storing")
  \/ Store(w, "storing", "stats", got[w].stats, "point")
  \/ Store(w, "failed", "online", FALSE, "point")

\* Variant: the limit is tested before the point is added.
AddPointTestsFirst(w) ==
  /\ step[w] = "point"
  /\ history' = IF Len(history) > HistoryCap THEN Tail(Append(history, time))
                ELSE Append(history, time)
  /\ step' = [step EXCEPT ![w] = "idle"]
  /\ got' = [got EXCEPT ![w] = NoInfo]
  /\ UNCHANGED <<reach, pending, cached, time>>

\* The end of refreshData, under m_mutex.
AddPoint(w) ==
  /\ step[w] = "point"
  /\ LET longer == Append(history, time) IN
     history' = IF Len(longer) > HistoryCap THEN Tail(longer) ELSE longer
  /\ step' = [step EXCEPT ![w] = "idle"]
  /\ got' = [got EXCEPT ![w] = NoInfo]
  /\ UNCHANGED <<reach, pending, cached, time>>

\* The server starts, stops or stalls, or updateConnection points elsewhere.
ReachChanges ==
  /\ reach' \in Reaches \ {reach}
  /\ UNCHANGED <<pending, step, got, cached, history, time>>

TimePasses ==
  /\ time < MaxTime /\ time' = time + 1
  /\ UNCHANGED <<reach, pending, step, got, cached, history>>

RefreshStep(w) ==
  TakeRefresh(w) \/ FetchInfo(w) \/ FetchMetrics(w) \/ StoreInfo(w) \/ AddPoint(w)

RefreshNext ==
  \/ EnqueueRefresh \/ ReachChanges \/ TimePasses
  \/ \E w \in PoolWorkers : RefreshStep(w)

\* The interface draws frames for ever, a worker is never stopped for good (a request
\* ends after a second), and a free worker takes what is pending.
RefreshFairness ==
  /\ WF_refreshVars(EnqueueRefresh)
  /\ \A w \in PoolWorkers : WF_refreshVars(RefreshStep(w))

RefreshSpec == RefreshInit /\ [][RefreshNext]_refreshVars /\ RefreshFairness

-----------------------------------------------------------------------------
Steps == {"idle", "info", "metrics", "store", "storing", "failed", "point"}
Infos == [online : BOOLEAN, stats : BOOLEAN]

RefreshTypeOK ==
  /\ reach \in Reaches /\ pending \in 0..MaxPending
  /\ step \in [PoolWorkers -> Steps] /\ got \in [PoolWorkers -> Infos]
  /\ cached \in Infos
  /\ history \in Seq(Nat) /\ Len(history) <= HistoryCap /\ time \in Nat

\* However the workers overlap, the FPS graph's points are in the order of their times.
HistoryInOrder ==
  \A i, j \in 1..Len(history) : i <= j => history[i] <= history[j]

\* The display follows the server, although an older answer may overwrite a newer one
\* and two workers' fields may mix: once the server stays reachable it is shown online
\* with its figures, once it stays down it is shown offline without, for good.
DisplayFollowsServer ==
  /\ <>[](reach = "up") => <>[](cached.online /\ cached.stats)
  /\ <>[](reach = "down") => <>[](cached = NoInfo)
  /\ <>[](reach = "odd") => <>[]~cached.online

RefreshKept == []HistoryInOrder /\ DisplayFollowsServer
=============================================================================
