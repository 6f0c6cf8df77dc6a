---------------------------- MODULE RequestPath ----------------------------
(***************************************************************************)
(* The way of a request through one worker: the middleware's counters, the *)
(* session and its connection, the calls to Redis, the health probe; with  *)
(* a database that goes away and comes back and a Redis that may never     *)
(* answer.                                                                 *)
(*                                                                         *)
(* A request is known by the statement it wants to run next: "page" (any   *)
(* query), "write" (statements up to a commit), "subtree" (the query of a  *)
(* search by category whose list goes to Redis), "ping" (SELECT 1).        *)
(***************************************************************************)
EXTENDS Integers, FiniteSets

CONSTANTS
    Clients,    \* those who send one request after another
    Probes,     \* the same for GET /health
    Conns,      \* places of the pool: database_pool_size + database_max_overflow
    PoolSize,   \* database_pool_size: connections that stay open when idle
    Retries,    \* health_check_db_retries
    None,       \* no connection
    MaxOutages, \* bound: times the database crashes or hangs
    MaxDrift    \* bound: failed reconnections that are counted

Requests == Clients \cup Probes

ASSUME RequestsAssumption ==
    IsFiniteSet(Clients) /\ IsFiniteSet(Probes) /\ Clients \cap Probes = {}
ASSUME PoolAssumption == IsFiniteSet(Conns) /\ PoolSize \in Nat /\ None \notin Conns
ASSUME RetriesAssumption == Retries \in Nat /\ Retries >= 2
ASSUME BoundsAssumption == MaxOutages \in Nat /\ MaxDrift \in Nat

VARIABLES
    pc,         \* the await at which each request stands
    want,       \* the statement it wants to run
    conn,       \* the connection it holds
    inFlight,   \* _IN_FLIGHT_REQUESTS
    life,       \* each place of the pool: absent, or a record whose connection
                \* is live, dead (and nobody noticed), or void (to be opened)
    poolInUse,  \* _POOL_IN_USE_CONNECTIONS
    closing,    \* connections that a probe has left while they were rolled back
    db,         \* the database: up, hung (accepts, does not answer) or down
    outages,    \* outages so far
    attempt,    \* each probe's attempt
    verdict,    \* what a probe has found
    drift,      \* history: reconnections that failed
    troubled    \* history: the database was not up at some time in this probe,
                \* or the pool was full when it asked for a connection

requestVars == <<pc, want, inFlight>>
poolVars == <<conn, life, poolInUse, closing, drift>>
dbVars == <<db, outages>>
probeVars == <<attempt, verdict, troubled>>
vars == <<requestVars, poolVars, dbVars, probeVars>>

AtRedis == {"cache", "store", "invalidate"}

Steps == {"idle", "acquire", "wait", "execute", "commit", "pause", "unwind", "answered"}
            \cup AtRedis

TypeOK ==
    /\ pc \in [Requests -> Steps]
    /\ want \in [Requests -> {"page", "write", "subtree", "ping"}]
    /\ \A r \in Requests : want[r] = "ping" <=> r \in Probes
    /\ conn \in [Requests -> Conns \cup {None}]
    /\ inFlight \in Int
    /\ life \in [Conns -> {"absent", "live", "dead", "void"}]
    /\ poolInUse \in Int
    /\ closing \subseteq Conns
    /\ db \in {"up", "hung", "down"}
    /\ outages \in Nat
    /\ attempt \in [Probes -> 1..Retries]
    /\ verdict \in [Probes -> {"none", "ok", "unavailable"}]
    /\ drift \in Nat
    /\ troubled \in [Probes -> BOOLEAN]

Init ==
    /\ pc = [r \in Requests |-> "idle"]
    /\ want = [r \in Requests |-> IF r \in Probes THEN "ping" ELSE "page"]
    /\ conn = [r \in Requests |-> None]
    /\ inFlight = 0
    /\ life = [c \in Conns |-> "absent"]
    /\ poolInUse = 0
    /\ closing = {}
    /\ db = "up"
    /\ outages = 0
    /\ attempt = [p \in Probes |-> 1]
    /\ verdict = [p \in Probes |-> "none"]
    /\ drift = 0
    /\ troubled = [p \in Probes |-> FALSE]

At(r, step) == pc' = [pc EXCEPT ![r] = step]

\* Fault: a request that never had a connection is not counted down.
FaultyLeft(r) == IF conn[r] = None THEN inFlight ELSE inFlight - 1

\* The middleware's finally.
Left(r) == inFlight - 1

-----------------------------------------------------------------------------
(* The pool, and the events that count its connections.                    *)

Held == ({conn[r] : r \in Requests} \ {None}) \cup closing
Idle == {c \in Conns \ Held : life[c] # "absent"}
Absent == {c \in Conns \ Held : life[c] = "absent"}

\* Fault: a connection that was invalidated is not counted down.
FaultyAfterCheckin(c) == IF life[c] = "dead" THEN poolInUse ELSE poolInUse - 1

AfterCheckin(c) == poolInUse - 1

\* Connections of cs that stay in the pool are closed; their records reopen
\* when they are checked out.
Voided(cs) == [c \in Conns |-> IF c \in cs THEN "void" ELSE life[c]]

\* The pool keeps PoolSize idle ones; of a dead one the rollback finds out.
Returned(state) ==
    IF Cardinality(Idle) >= PoolSize THEN "absent"
    ELSE IF state = "dead" THEN "void" ELSE state

\* A connection goes back to the pool.  lives says how they all are by now.
Checkin(c, lives) ==
    /\ life' = [lives EXCEPT ![c] = Returned(@)]
    /\ poolInUse' = AfterCheckin(c)
    /\ UNCHANGED drift

\* The session, or the async with of a probe, gives up its connection.
GiveBack(r, lives) ==
    IF conn[r] = None THEN UNCHANGED poolVars
    ELSE /\ conn' = [conn EXCEPT ![r] = None]
         /\ Checkin(conn[r], lives)
         /\ UNCHANGED closing

\* A rollback needs an answer of the database, or an error.
Answers(c) == c # None => db # "hung" \/ life[c] # "live"

-----------------------------------------------------------------------------
(* A request begins.  One that is refused at once (validation, limiter)    *)
(* never asks for a connection.                                            *)

Begin(r) ==
    /\ pc[r] = "idle"
    /\ inFlight' = inFlight + 1
    /\ \/ /\ r \in Clients
          /\ \/ \E w \in {"page", "write", "subtree"} :
                   /\ want' = [want EXCEPT ![r] = w]
                   /\ At(r, IF w = "subtree" THEN "cache" ELSE "acquire")
             \/ At(r, "unwind") /\ UNCHANGED want
          /\ UNCHANGED probeVars
       \/ /\ r \in Probes
          /\ At(r, "acquire")
          /\ verdict' = [verdict EXCEPT ![r] = "none"]
          /\ troubled' = [troubled EXCEPT ![r] = db # "up"]
          /\ UNCHANGED <<want, attempt>>
    /\ UNCHANGED <<poolVars, dbVars>>

-----------------------------------------------------------------------------
(* Getting a connection.                                                   *)

Checkout(r, c) ==
    /\ conn' = [conn EXCEPT ![r] = c]
    /\ poolInUse' = poolInUse + 1
    /\ At(r, "execute")
    /\ UNCHANGED <<want, inFlight, closing, drift, dbVars, probeVars>>

\* An idle record; its connection may be dead (no pre_ping), or must be opened.
TakeIdle(r) ==
    /\ pc[r] \in {"acquire", "wait"}
    /\ \E c \in Idle :
          /\ \/ life[c] \in {"live", "dead"} /\ UNCHANGED life
             \/ life[c] = "void" /\ db = "up" /\ life' = [life EXCEPT ![c] = "live"]
          /\ Checkout(r, c)

\* A waiter opens one when it wakes at its timeout and there is room again.
OpenNew(r) ==
    /\ pc[r] \in {"acquire", "wait"}
    /\ Idle = {}
    /\ db = "up"
    /\ \E c \in Absent : life' = [life EXCEPT ![c] = "live"] /\ Checkout(r, c)

\* Connecting fails.  When it was the connection of an existing record, that
\* goes back to the pool and fires checkin, though checkout was never fired.
ConnectFails(r) ==
    /\ pc[r] \in {"acquire", "wait"}
    /\ db # "up"
    /\ \/ /\ \E c \in Idle : life[c] = "void"
          /\ drift < MaxDrift
          /\ drift' = drift + 1
          /\ poolInUse' = poolInUse - 1
       \/ /\ (Idle = {} /\ Absent # {}) \/ drift = MaxDrift
          /\ UNCHANGED <<drift, poolInUse>>
    /\ At(r, "unwind")
    /\ UNCHANGED <<want, inFlight, conn, life, closing, dbVars, probeVars>>

QueueUp(r) ==
    /\ pc[r] = "acquire"
    /\ Idle = {} /\ Absent = {}
    /\ At(r, "wait")
    /\ troubled' = [p \in Probes |-> troubled[p] \/ p = r]
    /\ UNCHANGED <<want, inFlight, poolVars, dbVars, attempt, verdict>>

\* Fault: no database_pool_timeout.
FaultyWaitTimesOut(r) == FALSE

\* database_pool_timeout: TimeoutError, unless there is room to open one.
WaitTimesOut(r) ==
    /\ pc[r] = "wait"
    /\ Absent = {}
    /\ At(r, "unwind")
    /\ UNCHANGED <<want, inFlight, poolVars, dbVars, probeVars>>

-----------------------------------------------------------------------------
(* Statements.                                                             *)

\* The handler returns.  Depending on the version of FastAPI the session is
\* closed before the response is sent or after it.
Finish(r) ==
    \/ At(r, "unwind") /\ UNCHANGED inFlight
    \/ At(r, "answered") /\ inFlight' = Left(r)

Running(r) == pc[r] = "execute" /\ db = "up" /\ life[conn[r]] = "live"

Executed(r) ==
    /\ Running(r)
    /\ \/ want[r] = "subtree" /\ At(r, "store") /\ UNCHANGED <<inFlight, verdict>>
       \/ want[r] = "page" /\ Finish(r) /\ UNCHANGED verdict
       \/ want[r] = "write" /\ At(r, "commit") /\ UNCHANGED <<inFlight, verdict>>
       \/ /\ want[r] = "ping"
          /\ At(r, "unwind")
          /\ verdict' = [verdict EXCEPT ![r] = "ok"]
          /\ UNCHANGED inFlight
    /\ UNCHANGED <<want, poolVars, dbVars, attempt, troubled>>

\* The database refuses a write.
Rejected(r) ==
    /\ Running(r)
    /\ want[r] = "write"
    /\ At(r, "unwind")
    /\ UNCHANGED <<want, inFlight, poolVars, dbVars, probeVars>>

\* The commit gives the connection back; a category's change then goes to Redis.
Commit(r) ==
    /\ pc[r] = "commit"
    /\ db = "up" /\ life[conn[r]] = "live"
    /\ GiveBack(r, life)
    /\ \/ At(r, "invalidate") /\ UNCHANGED inFlight
       \/ Finish(r)
    /\ UNCHANGED <<want, dbVars, probeVars>>

\* When a connection breaks the pool drops all it opened so far.
Stale(r) == Idle \cup {conn[r]}

Broken(r) ==
    /\ pc[r] \in {"execute", "commit"}
    /\ life[conn[r]] = "dead"
    /\ GiveBack(r, Voided(Stale(r)))
    /\ At(r, "unwind")
    /\ UNCHANGED <<want, inFlight, dbVars, probeVars>>

-----------------------------------------------------------------------------
(* Calls to Redis, which have no timeout.                                  *)

\* A hit, or an error, leaves the page to be queried; a miss the subtree first.
LookupReturns(r) ==
    /\ r \in Clients /\ pc[r] = "cache"
    /\ \E w \in {"page", "subtree"} : want' = [want EXCEPT ![r] = w]
    /\ At(r, "acquire")
    /\ UNCHANGED <<inFlight, poolVars, dbVars, probeVars>>

\* The page is queried over the connection held all the while.
StoreReturns(r) ==
    /\ r \in Clients /\ pc[r] = "store"
    /\ want' = [want EXCEPT ![r] = "page"]
    /\ At(r, "execute")
    /\ UNCHANGED <<inFlight, poolVars, dbVars, probeVars>>

InvalidationReturns(r) ==
    /\ r \in Clients /\ pc[r] = "invalidate"
    /\ Finish(r)
    /\ UNCHANGED <<want, poolVars, dbVars, probeVars>>

-----------------------------------------------------------------------------
(* A request ends, or a probe tries again.                                 *)

\* A request that is over wants nothing in particular.
End(r) == At(r, "idle") /\ want' = [want EXCEPT ![r] = "page"]

\* A client's session is closed, whether the handler returned or raised.
Unwind(r) ==
    /\ r \in Clients /\ pc[r] = "unwind"
    /\ Answers(conn[r])
    /\ GiveBack(r, life)
    /\ inFlight' = Left(r)
    /\ End(r)
    /\ UNCHANGED <<dbVars, probeVars>>

\* The session of a response that was sent before is closed.
Close(r) ==
    /\ r \in Clients /\ pc[r] = "answered"
    /\ Answers(conn[r])
    /\ GiveBack(r, life)
    /\ End(r)
    /\ UNCHANGED <<inFlight, dbVars, probeVars>>

\* Fault: attempts are not timed.
FaultyAttemptTimesOut(p) == FALSE

\* health_check_db_timeout: it ends the wait, breaks the statement off, which
\* costs the connection, or leaves the connection to be closed without it.
AttemptTimesOut(p) ==
    /\ p \in Probes
    /\ \/ pc[p] = "wait" /\ UNCHANGED poolVars
       \/ /\ pc[p] = "execute" /\ ~Answers(conn[p])
          /\ GiveBack(p, Voided({conn[p]}))
       \/ /\ pc[p] = "unwind" /\ ~Answers(conn[p])
          /\ conn' = [conn EXCEPT ![p] = None]
          /\ closing' = closing \cup {conn[p]}
          /\ UNCHANGED <<life, poolInUse, drift>>
    /\ verdict' = [verdict EXCEPT ![p] = "none"]
    /\ At(p, "unwind")
    /\ UNCHANGED <<want, inFlight, dbVars, attempt, troubled>>

\* Fault: range(1, retries + 2).
FaultyEndless(p) == attempt[p] > Retries

\* Fault: range(1, retries).
FaultyLastAttempt(p) == attempt[p] >= Retries - 1

LastAttempt(p) == attempt[p] = Retries

\* An attempt ends: with an answer, with a pause, or as the last one.
EndAttempt(p) ==
    /\ p \in Probes
    /\ pc[p] = "unwind"
    /\ Answers(conn[p])
    /\ GiveBack(p, life)
    /\ \/ /\ verdict[p] = "none" /\ ~LastAttempt(p)
          /\ At(p, "pause")
          /\ attempt' = [attempt EXCEPT ![p] = @ + 1]
          /\ UNCHANGED <<inFlight, verdict>>
       \/ /\ verdict[p] = "ok" \/ LastAttempt(p)
          /\ At(p, "idle")
          /\ verdict' = [verdict EXCEPT ![p] = IF @ = "none" THEN "unavailable" ELSE @]
          /\ attempt' = [attempt EXCEPT ![p] = 1]
          /\ inFlight' = Left(p)
    /\ UNCHANGED <<want, dbVars, troubled>>

Retry(p) ==
    /\ pc[p] = "pause"
    /\ At(p, "acquire")
    /\ UNCHANGED <<want, inFlight, poolVars, dbVars, probeVars>>

CloseEnds(c) ==
    /\ c \in closing
    /\ Answers(c)
    /\ closing' = closing \ {c}
    /\ Checkin(c, life)
    /\ UNCHANGED <<conn, requestVars, dbVars, probeVars>>

-----------------------------------------------------------------------------
(* The database, and the pool's clock.                                     *)

Trouble == troubled' = [p \in Probes |-> troubled[p] \/ pc[p] # "idle"]

Crash ==
    /\ db # "down" /\ outages < MaxOutages
    /\ db' = "down"
    /\ outages' = outages + 1
    /\ life' = [c \in Conns |-> IF life[c] = "live" THEN "dead" ELSE life[c]]
    /\ Trouble
    /\ UNCHANGED <<requestVars, conn, poolInUse, closing, drift, attempt, verdict>>

Hang ==
    /\ db = "up" /\ outages < MaxOutages
    /\ db' = "hung"
    /\ outages' = outages + 1
    /\ Trouble
    /\ UNCHANGED <<requestVars, poolVars, attempt, verdict>>

Recover ==
    /\ db # "up"
    /\ db' = "up"
    /\ UNCHANGED <<requestVars, poolVars, outages, probeVars>>

\* A connection opened before the last break, or older than
\* database_pool_recycle, is opened anew when it is checked out.
Recycle(c) ==
    /\ c \in Idle /\ life[c] = "live"
    /\ life' = Voided({c})
    /\ UNCHANGED <<requestVars, conn, poolInUse, closing, drift, dbVars, probeVars>>

-----------------------------------------------------------------------------
(* What a request does without waiting for Redis.                          *)

Advance(r) ==
    \/ TakeIdle(r) \/ OpenNew(r) \/ ConnectFails(r) \/ QueueUp(r) \/ WaitTimesOut(r)
    \/ Executed(r) \/ Rejected(r) \/ Commit(r) \/ Broken(r)
    \/ Unwind(r) \/ Close(r) \/ AttemptTimesOut(r) \/ EndAttempt(r) \/ Retry(r)

Next ==
    \/ \E r \in Requests :
          Begin(r) \/ Advance(r)
            \/ LookupReturns(r) \/ StoreReturns(r) \/ InvalidationReturns(r)
    \/ \E c \in Conns : CloseEnds(c) \/ Recycle(c)
    \/ Crash \/ Hang \/ Recover

\* The event loop and the timeouts.  Redis and the database owe nothing.
Fairness ==
    /\ \A r \in Requests : WF_vars(Advance(r))
    /\ \A c \in Conns : WF_vars(CloseEnds(c))

Spec == Init /\ [][Next]_vars
FairSpec == Spec /\ Fairness

-----------------------------------------------------------------------------
(* The gauge of requests in flight counts the requests whose response has  *)
(* not begun, whichever way they end (middleware.py:123).                  *)

InFlightExact == inFlight = Cardinality({r \in Requests : pc[r] \notin {"idle", "answered"}})

(* No connection serves two requests, none is held by a request that has   *)
(* none to hold, and the gauge of checked-out connections (db.py:71) is    *)
(* what is held, less the reconnections that failed.                       *)

PoolAccounted ==
    /\ \A r \in Requests : conn[r] # None => conn[r] \notin closing
    /\ \A r, s \in Requests : conn[r] # None /\ conn[r] = conn[s] => r = s
    /\ \A r \in Requests :
          pc[r] \in {"idle", "cache", "acquire", "wait", "pause", "invalidate"} => conn[r] = None
    /\ poolInUse = Cardinality(Held) - drift

(* GET /health reports the database unavailable only when it was not up at *)
(* some time during the probe, or the pool was full: connections that an   *)
(* earlier outage left dead cost one attempt at most (main.py:171).        *)

UnavailableHasCause ==
    \A p \in Probes : verdict[p] = "unavailable" => troubled[p]

(* GET /health is answered whether or not the database or Redis ever       *)
(* answers again (main.py:173).                                            *)

ProbesAnswered == \A p \in Probes : []<>(pc[p] = "idle")

(* While the database keeps coming back, every request ends unless it      *)
(* itself waits for Redis: requests that hold their connections there      *)
(* cannot hold up the others for ever (session.py:42).                     *)

EachMovesOn ==
    []<>(db = "up") => \A r \in Requests : []<>(pc[r] \in {"idle"} \cup AtRedis)
=============================================================================
