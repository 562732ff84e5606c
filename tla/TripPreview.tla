---------------------------- MODULE TripPreview ----------------------------
(* The requests of the travel map's POST /trips/preview, one event loop,   *)
(* and everything they share: the rate limiter, the TTL and LRU cache, the *)
(* semaphore of the route orchestrator, and the fuel price each car        *)
(* provider keeps behind a lock (apps/travel-map/app: services/            *)
(* trip_preview.py, routing/orchestrator.py, providers/, cache.py,         *)
(* rate_limit.py, api/trips.py).  All requests ask for the same trip, so   *)
(* that they meet in the cache.                                            *)
(*                                                                         *)
(* A request gathers one job per display mode, then runs the two           *)
(* classification jobs OUT and BACK one after the other.  A display job    *)
(* walks the providers of its mode, each under the semaphore and under a   *)
(* timeout; a classification job awaits its provider directly.  A provider *)
(* sends one upstream request after the other, each with up to MaxAttempts *)
(* attempts; a car provider then needs the fuel price.                     *)
EXTENDS Integers, Sequences, FiniteSets, SequencesExt

CONSTANTS
    Requests,       \* the requests that arrive
    DisplayModes,   \* the members of TravelMode that are configured
    Hops,           \* Hops[m]: how many providers the chain of mode m has
    Legs,           \* Legs[k]: upstream requests of one answer (3 walking styles, else 1)
    MaxConcurrency, \* route_max_concurrency
    MaxAttempts,    \* attempts of BoundedHttpClient
    MaxEntries,     \* entries of the cache
    Ttl,            \* Ttl[k]: how long a result of job kind k is cached
    FuelTtl,        \* how long a fuel price is kept
    RateLimit,      \* previews allowed per client and window; the window is one tick
    MaxTime         \* bound of the clock

ASSUME ConcurrencyAssumption ==
    MaxConcurrency \in Nat \ {0} /\ MaxAttempts \in Nat \ {0} /\ MaxEntries \in Nat \ {0}

ASSUME FinitenessAssumption == IsFiniteSet(Requests) /\ IsFiniteSet(DisplayModes)

(* The classification jobs are no display modes, and no chain is empty.    *)
ASSUME ModesAssumption ==
    /\ DisplayModes \cap {"OUT", "BACK"} = {}
    /\ \A m \in DisplayModes : Hops[m] \in Nat \ {0}

ASSUME TimesAssumption ==
    /\ \A k \in DisplayModes \cup {"OUT", "BACK"} : Ttl[k] \in Nat
    /\ FuelTtl \in Nat /\ RateLimit \in Nat /\ MaxTime \in Nat

Kinds   == DisplayModes \cup {"OUT", "BACK"}
Jobs    == Requests \X Kinds
Display == Requests \X DisplayModes
Clients == {"DISPLAY", "CLASSIFICATION"}       \* the two OpinetClients
NoJob   == <<>>

Kind(j)   == j[2]
IsCar(j)  == Kind(j) \in {"CAR", "OUT", "BACK"}
Client(j) == IF j \in Display THEN "DISPLAY" ELSE "CLASSIFICATION"

VARIABLES
    req,        \* where the handler of each request is
    job,        \* what each job does
    waiting,    \* the jobs waiting for the semaphore, first in, first out
    locked,     \* the job that holds each fuel price's lock
    line,       \* the jobs waiting for that lock
    price,      \* until when each client's prices are good; 0 for none
    cache,      \* the OrderedDict: the least recently used entry first
    counts,     \* admitted requests of the present window
    now

shared == <<waiting, locked, line, price>>
vars   == <<req, job, shared, cache, counts, now>>

JobState == [pc : {"idle", "ready", "waiting", "http", "line", "fuel", "collected", "done"},
             hop : Nat, tries : Nat, asked : 0 .. MaxTime,
             permit : BOOLEAN, aborting : BOOLEAN, got : {"none", "routes"}]

Entries == [key : Kinds, got : {"none", "routes"}, until : Nat]

TypeOK ==
    /\ req \in [Requests -> {"new", "refused", "display", "out", "back", "answered"}]
    /\ job \in [Jobs -> JobState]
    /\ cache \in Seq(Entries)
    /\ waiting \in Seq(Display) /\ line \in [Clients -> Seq(Jobs)]
    /\ locked \in [Clients -> Jobs \cup {NoJob}]
    /\ price \in [Clients -> 0 .. MaxTime + FuelTtl]
    /\ now \in 0 .. MaxTime /\ counts \in 0 .. RateLimit

(* Requests before these have left in the cache the display collections,   *)
(* or the classification routes of both directions.                        *)
Warm(k) == [key |-> k, got |-> "routes", until |-> MaxTime + 1]

Init ==
    /\ req = [r \in Requests |-> "new"]
    /\ job = [j \in Jobs |-> [pc |-> "idle", hop |-> 0, tries |-> 0, asked |-> 0,
                              permit |-> FALSE, aborting |-> FALSE, got |-> "none"]]
    /\ waiting = <<>>
    /\ \E cold \in {DisplayModes, Kinds \ DisplayModes} :
          cache = SetToSeq({Warm(k) : k \in Kinds \ cold})
    /\ locked = [c \in Clients |-> NoJob]
    /\ line = [c \in Clients |-> <<>>]
    /\ price = [c \in Clients |-> 0]
    /\ counts = 0 /\ now = 0

-----------------------------------------------------------------------------
(* The cache.  A lookup removes an entry that is too old and makes any     *)
(* other the most recently used one; storing may evict the oldest.         *)
Entry(k) == SelectInSeq(cache, LAMBDA e : e.key = k)
Without(k) == IF Entry(k) = 0 THEN cache ELSE RemoveAt(cache, Entry(k))

Hit(k) == Entry(k) # 0 /\ now < cache[Entry(k)].until

CacheGet(k) == IF Hit(k) THEN Append(Without(k), cache[Entry(k)]) ELSE Without(k)

CacheSet(k, got) ==
    LET added == Append(Without(k), [key |-> k, got |-> got, until |-> now + Ttl[k]])
    IN  IF Len(added) > MaxEntries THEN Tail(added) ELSE added

-----------------------------------------------------------------------------
(* POST /trips/preview: the rate limiter, then the coverage.               *)
Arrive(r) ==
    /\ req[r] = "new"
    /\ \/ /\ counts >= RateLimit
          /\ req' = [req EXCEPT ![r] = "refused"]
          /\ UNCHANGED <<job, counts>>
       \/ /\ counts < RateLimit
          /\ counts' = counts + 1
          /\ \/ /\ req' = [req EXCEPT ![r] = "display"]
                /\ job' = [j \in Jobs |-> IF j[1] = r /\ j \in Display
                                          THEN [job[j] EXCEPT !.pc = "ready"] ELSE job[j]]
             \/ /\ req' = [req EXCEPT ![r] = "answered"]     \* out of coverage: no provider is asked
                /\ UNCHANGED job
    /\ UNCHANGED <<shared, cache, now>>

(* A job looks its result up before it asks anybody.                       *)
Lookup(j) ==
    /\ job[j].pc = "ready"
    /\ cache' = CacheGet(Kind(j))
    /\ IF Hit(Kind(j))
       THEN /\ job' = [job EXCEPT ![j].pc = "done", ![j].got = cache[Entry(Kind(j))].got]
            /\ UNCHANGED waiting
       ELSE IF j \in Display
       THEN /\ job' = [job EXCEPT ![j].pc = "waiting", ![j].hop = 1]
            /\ waiting' = Append(waiting, j)
       ELSE /\ job' = [job EXCEPT ![j].pc = "http", ![j].hop = 1, ![j].tries = 1]
            /\ UNCHANGED waiting
    /\ UNCHANGED <<req, locked, line, price, counts, now>>

Permits == MaxConcurrency - Cardinality({j \in Jobs : job[j].permit})

(* async with self._semaphore, and the first upstream request.             *)
Acquire(j) ==
    /\ waiting # <<>> /\ Head(waiting) = j /\ Permits > 0
    /\ waiting' = Tail(waiting)
    /\ job' = [job EXCEPT ![j].pc = "http", ![j].permit = TRUE, ![j].tries = 1]
    /\ UNCHANGED <<req, locked, line, price, cache, counts, now>>

-----------------------------------------------------------------------------
(* How a provider's turn ends: the permit is given back, and a display job *)
(* asks the next provider of the chain, through the semaphore again, or    *)
(* has collected what it could.  A SEOUL_TRANSIT answer has no geometry    *)
(* and is only kept aside for its successor in the chain.                  *)
LastHop(j) == IF j \in Display THEN job[j].hop = Hops[Kind(j)] ELSE TRUE

Returned(j, got) ==
    LET free == [job[j] EXCEPT !.permit = FALSE, !.aborting = FALSE, !.tries = 0, !.asked = 0]
    IN  IF LastHop(j)
        THEN [free EXCEPT !.pc = IF j \in Display THEN "collected" ELSE "done", !.got = got, !.hop = 0]
        ELSE [free EXCEPT !.pc = "waiting", !.hop = @ + 1, !.got = "none"]

Rejoin(j) == IF LastHop(j) THEN waiting ELSE Append(waiting, j)

(* A classification result is cached when there is a route, in the step    *)
(* that returns it; a display collection is cached later, by Store.        *)
Remember(j, got) ==
    IF j \notin Display /\ got # "none" THEN CacheSet(Kind(j), got) ELSE cache

Return(j, got) ==
    /\ job' = [job EXCEPT ![j] = Returned(j, got)]
    /\ waiting' = Rejoin(j)
    /\ cache' = Remember(j, got)

(* The fuel price of a car route: fresh, or asked for under the lock.      *)
Fresh(c) == now < price[c]

NeedPrice(j, got) ==
    LET c == Client(j)
    IN  IF Fresh(c) THEN Return(j, got) /\ UNCHANGED <<locked, line>>
        ELSE /\ UNCHANGED <<waiting, cache>>
             /\ IF locked[c] = NoJob /\ line[c] = <<>>
                THEN /\ locked' = [locked EXCEPT ![c] = j]
                     /\ job' = [job EXCEPT ![j].pc = "fuel", ![j].tries = 1,
                                           ![j].asked = now, ![j].got = got]
                     /\ UNCHANGED line
                ELSE /\ line' = [line EXCEPT ![c] = Append(@, j)]
                     /\ job' = [job EXCEPT ![j].pc = "line", ![j].got = got]
                     /\ UNCHANGED locked

(* An upstream request ends.  A failure that may pass (429, 5xx, timeout,  *)
(* connection) is repeated while attempts are left, and a walk provider    *)
(* sends one request per walking style; any other failure makes the        *)
(* provider return no routes, those of earlier requests included.          *)
Another(j) ==
    /\ job[j].pc \in {"http", "fuel"} /\ ~ job[j].aborting
    /\ job[j].tries < IF job[j].pc = "fuel" THEN MaxAttempts ELSE MaxAttempts * Legs[Kind(j)]
    /\ job' = [job EXCEPT ![j].tries = @ + 1]
    /\ UNCHANGED <<req, shared, cache, counts, now>>

Answered(j) ==
    /\ job[j].pc = "http" /\ ~ job[j].aborting
    /\ \E got \in {"routes", "none"} :
          IF IsCar(j) THEN NeedPrice(j, got)
          ELSE Return(j, got) /\ UNCHANGED <<locked, line>>
    /\ UNCHANGED <<req, price, counts, now>>

Failed(j) ==
    /\ job[j].pc = "http" /\ ~ job[j].aborting
    /\ Return(j, "none")
    /\ UNCHANGED <<req, locked, line, price, counts, now>>

(* average_price: the price is looked at again under the lock; both        *)
(* prices and expiry are replaced together, after a whole valid answer,    *)
(* and count from the moment the request was sent.                         *)
TakeLock(j) ==
    LET c == Client(j) IN
    /\ line[c] # <<>> /\ Head(line[c]) = j /\ locked[c] = NoJob
    /\ line' = [line EXCEPT ![c] = Tail(@)]
    /\ IF Fresh(c) THEN Return(j, job[j].got) /\ UNCHANGED locked
       ELSE /\ locked' = [locked EXCEPT ![c] = j]
            /\ job' = [job EXCEPT ![j].pc = "fuel", ![j].tries = 1, ![j].asked = now]
            /\ UNCHANGED <<waiting, cache>>
    /\ UNCHANGED <<req, price, counts, now>>

Unlock(j) == locked' = [locked EXCEPT ![Client(j)] = NoJob]

FuelAnswered(j) ==
    /\ job[j].pc = "fuel" /\ ~ job[j].aborting
    /\ price' = [price EXCEPT ![Client(j)] = job[j].asked + FuelTtl]
    /\ Unlock(j)
    /\ Return(j, job[j].got)
    /\ UNCHANGED <<req, line, counts, now>>

\* Mutant of FuelFailed: an error leaves the lock held.
FuelFailedLocked(j) ==
    /\ job[j].pc = "fuel" /\ ~ job[j].aborting
    /\ Return(j, job[j].got)
    /\ UNCHANGED <<req, locked, line, price, counts, now>>

(* Without a price the routes are kept and their cost is unknown.          *)
FuelFailed(j) ==
    /\ job[j].pc = "fuel" /\ ~ job[j].aborting
    /\ Unlock(j)
    /\ Return(j, job[j].got)
    /\ UNCHANGED <<req, line, price, counts, now>>

-----------------------------------------------------------------------------
(* wait_for expires.  A job waiting in the lock's line leaves it at once;  *)
(* one with an upstream request cancels the worker and goes on only when   *)
(* the worker has ended (_await_task): until then the permit and the lock  *)
(* stay taken.                                                             *)
\* Mutant of Timeout: the permit is given back before the worker has ended.
TimeoutReleases(j) ==
    /\ j \in Display /\ job[j].pc \in {"http", "fuel"} /\ ~ job[j].aborting
    /\ job' = [job EXCEPT ![j].aborting = TRUE, ![j].permit = FALSE]
    /\ UNCHANGED <<req, shared, cache, counts, now>>

Timeout(j) ==
    /\ j \in Display /\ job[j].pc \in {"http", "fuel"} /\ ~ job[j].aborting
    /\ job' = [job EXCEPT ![j].aborting = TRUE]
    /\ UNCHANGED <<req, shared, cache, counts, now>>

TimeoutInLine(j) ==
    /\ j \in Display /\ job[j].pc = "line"
    /\ \E i \in DOMAIN line[Client(j)] :
          line[Client(j)][i] = j /\ line' = [line EXCEPT ![Client(j)] = RemoveAt(@, i)]
    /\ Return(j, "none")
    /\ UNCHANGED <<req, locked, price, counts, now>>

WorkerEnds(j) ==
    /\ job[j].aborting
    /\ IF job[j].pc = "fuel" THEN Unlock(j) ELSE UNCHANGED locked
    /\ Return(j, "none")
    /\ UNCHANGED <<req, line, price, counts, now>>

-----------------------------------------------------------------------------
(* What was collected is cached, were it only warnings.                    *)
Store(j) ==
    /\ job[j].pc = "collected"
    /\ cache' = CacheSet(Kind(j), job[j].got)
    /\ job' = [job EXCEPT ![j].pc = "done"]
    /\ UNCHANGED <<req, shared, counts, now>>

(* The handler's own sequence: display, outbound, returning, response.     *)
Proceed(r) ==
    /\ \/ /\ req[r] = "display" /\ \A m \in DisplayModes : job[<<r, m>>].pc = "done"
          /\ req' = [req EXCEPT ![r] = "out"]
          /\ job' = [job EXCEPT ![<<r, "OUT">>].pc = "ready"]
       \/ /\ req[r] = "out" /\ job[<<r, "OUT">>].pc = "done"
          /\ req' = [req EXCEPT ![r] = "back"]
          /\ job' = [job EXCEPT ![<<r, "BACK">>].pc = "ready"]
       \/ /\ req[r] = "back" /\ job[<<r, "BACK">>].pc = "done"
          /\ req' = [req EXCEPT ![r] = "answered"]
          /\ UNCHANGED job
    /\ UNCHANGED <<shared, cache, counts, now>>

(* Time passes; the buckets of the window before are discarded.            *)
Tick ==
    /\ now < MaxTime
    /\ now' = now + 1 /\ counts' = 0
    /\ UNCHANGED <<req, job, shared, cache>>

Upstream(j) == Answered(j) \/ Failed(j) \/ FuelAnswered(j) \/ FuelFailed(j)
                 \/ WorkerEnds(j)
Step(j) == Lookup(j) \/ Acquire(j) \/ TakeLock(j) \/ Store(j)

Next ==
    \/ \E r \in Requests : Arrive(r) \/ Proceed(r)
    \/ \E j \in Jobs : Step(j) \/ Upstream(j) \/ Another(j) \/ Timeout(j) \/ TimeoutInLine(j)
    \/ Tick

(* The event loop runs what is ready, and every attempt ends: httpx limits *)
(* each read, and a body that trickles is limited in bytes.  It is enough  *)
(* that of all the requests can do, something is done.                     *)
Progress(r) == Proceed(r) \/ \E k \in Kinds : Step(<<r, k>>) \/ Upstream(<<r, k>>)

Fairness == WF_vars(\E r \in Requests : Progress(r))

Spec == Init /\ [][Next]_vars /\ Fairness

-----------------------------------------------------------------------------
(* The semaphore bounds what is open upstream for the display routes, the  *)
(* request of a cancelled job that has not ended yet included, and each    *)
(* client has at most one fuel price request open, that of the lock's      *)
(* holder.                                                                 *)
UpstreamIsBounded ==
    /\ Cardinality({j \in Display : job[j].pc \in {"http", "fuel"}}) <= MaxConcurrency
    /\ \A j \in Jobs : job[j].pc = "fuel" => locked[Client(j)] = j

(* Every preview that was admitted is answered: no job waits forever for   *)
(* the semaphore or for the lock, whatever fails or times out.  Each       *)
(* request arrives once and an answer is final, so that a request without  *)
(* one would be on its way for ever.                                       *)
AdmittedIsAnswered == []<>(\A r \in Requests : req[r] \in {"new", "refused", "answered"})
=============================================================================
