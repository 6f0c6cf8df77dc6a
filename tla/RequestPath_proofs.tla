------------------------- MODULE RequestPath_proofs -------------------------
(***************************************************************************)
(* Proofs about RequestPath: for any number of clients, probes and places  *)
(* in the pool, and whatever database and Redis do, the two gauges are     *)
(* exact, no connection serves two requests, and the health check blames   *)
(* the database only with reason.                                          *)
(***************************************************************************)
EXTENDS RequestPath, FiniteSetTheorems, TLAPS

-----------------------------------------------------------------------------
(* Types.                                                                   *)

LEMMA CheckinType ==
    ASSUME TypeOK, NEW c, NEW lives \in [Conns -> {"absent", "live", "dead", "void"}],
           Checkin(c, lives)
    PROVE  /\ life' \in [Conns -> {"absent", "live", "dead", "void"}]
           /\ poolInUse' \in Int
           /\ drift' \in Nat
<1> DEFINE Lives == {"absent", "live", "dead", "void"}
<1>1. ASSUME NEW state \in Lives
      PROVE  Returned(state) \in Lives
  BY <1>1 DEF Returned
<1>2. c \in Conns => Returned(lives[c]) \in Lives
  BY <1>1
<1>3. life' = [lives EXCEPT ![c] = Returned(lives[c])]
  BY DEF Checkin
<1>4. life' \in [Conns -> Lives]
  BY <1>2, <1>3
<1>5. poolInUse' \in Int /\ drift' \in Nat
  BY DEF TypeOK, Checkin, AfterCheckin
<1> QED
  BY <1>4, <1>5

LEMMA GiveBackType ==
    ASSUME TypeOK, NEW r, NEW lives \in [Conns -> {"absent", "live", "dead", "void"}],
           GiveBack(r, lives)
    PROVE  /\ conn' \in [Requests -> Conns \cup {None}]
           /\ life' \in [Conns -> {"absent", "live", "dead", "void"}]
           /\ poolInUse' \in Int
           /\ closing' \subseteq Conns
           /\ drift' \in Nat
<1>1. CASE conn[r] = None
  BY <1>1 DEF TypeOK, GiveBack, poolVars
<1>2. CASE conn[r] # None
  <2>1. Checkin(conn[r], lives)
    BY <1>2 DEF GiveBack
  <2>2. conn' = [conn EXCEPT ![r] = None] /\ closing' = closing
    BY <1>2 DEF GiveBack
  <2> QED
    BY <2>1, <2>2, CheckinType DEF TypeOK
<1> QED
  BY <1>1, <1>2

LEMMA VoidedType ==
    ASSUME TypeOK, NEW cs
    PROVE  Voided(cs) \in [Conns -> {"absent", "live", "dead", "void"}]
BY DEF TypeOK, Voided

\* What is left to show of an action that touches no pool.
LEMMA TypeWithoutPool ==
    ASSUME TypeOK, NEW r \in Requests, NEW s \in Steps, At(r, s),
           want' \in [Requests -> {"page", "write", "subtree", "ping"}],
           \A q \in Requests : want'[q] = "ping" <=> q \in Probes,
           inFlight' \in Int, UNCHANGED <<poolVars, dbVars>>,
           attempt' \in [Probes -> 1..Retries],
           verdict' \in [Probes -> {"none", "ok", "unavailable"}],
           troubled' \in [Probes -> BOOLEAN]
    PROVE  TypeOK'
BY DEF TypeOK, At, poolVars, dbVars

USE RequestsAssumption, PoolAssumption, RetriesAssumption, BoundsAssumption

LEMMA TypeInit == Init => TypeOK
BY DEF Init, TypeOK, Steps, Requests

LEMMA AdvanceKeepsType ==
    ASSUME TypeOK, NEW r \in Requests, Advance(r)
    PROVE  TypeOK'
<1> USE DEF Left, At, requestVars, poolVars, dbVars, probeVars, Steps, AtRedis
<1>1. CASE TakeIdle(r)
  BY <1>1 DEF TypeOK, TakeIdle, Checkout, Idle
<1>2. CASE OpenNew(r)
  BY <1>2 DEF TypeOK, OpenNew, Checkout, Absent
<1>3. CASE ConnectFails(r)
  BY <1>3 DEF TypeOK, ConnectFails
<1>4. CASE QueueUp(r)
  BY <1>4 DEF TypeOK, QueueUp
<1>5. CASE WaitTimesOut(r)
  BY <1>5 DEF TypeOK, WaitTimesOut
<1>6. CASE Executed(r)
  BY <1>6 DEF TypeOK, Executed, Finish
<1>7. CASE Rejected(r)
  BY <1>7 DEF TypeOK, Rejected
<1>8. CASE Commit(r)
  <2>1. life \in [Conns -> {"absent", "live", "dead", "void"}] /\ GiveBack(r, life)
    BY <1>8 DEF TypeOK, Commit
  <2> QED
    BY <1>8, <2>1, GiveBackType DEF TypeOK, Commit, Finish
<1>9. CASE Broken(r)
  <2>1. GiveBack(r, Voided(Stale(r)))
    BY <1>9 DEF Broken
  <2> QED
    BY <1>9, <2>1, GiveBackType, VoidedType DEF TypeOK, Broken
<1>10. CASE Unwind(r)
  <2>1. life \in [Conns -> {"absent", "live", "dead", "void"}] /\ GiveBack(r, life)
    BY <1>10 DEF TypeOK, Unwind
  <2> QED
    BY <1>10, <2>1, GiveBackType DEF TypeOK, Unwind, End
<1>11. CASE Close(r)
  <2>1. life \in [Conns -> {"absent", "live", "dead", "void"}] /\ GiveBack(r, life)
    BY <1>11 DEF TypeOK, Close
  <2> QED
    BY <1>11, <2>1, GiveBackType DEF TypeOK, Close, End
<1>12. CASE AttemptTimesOut(r)
  BY <1>12, GiveBackType, VoidedType DEF TypeOK, AttemptTimesOut, Answers
<1>13. CASE EndAttempt(r)
  <2>1. life \in [Conns -> {"absent", "live", "dead", "void"}] /\ GiveBack(r, life)
    BY <1>13 DEF TypeOK, EndAttempt
  <2> QED
    BY <1>13, <2>1, GiveBackType DEF TypeOK, EndAttempt, LastAttempt
<1>14. CASE Retry(r)
  BY <1>14 DEF TypeOK, Retry
<1> QED
  BY <1>1, <1>2, <1>3, <1>4, <1>5, <1>6, <1>7, <1>8, <1>9, <1>10, <1>11, <1>12, <1>13, <1>14
     DEF Advance

LEMMA NextKeepsType == TypeOK /\ [Next]_vars => TypeOK'
<1> SUFFICES ASSUME TypeOK, [Next]_vars PROVE TypeOK'
  OBVIOUS
<1> USE DEF Left, At, requestVars, poolVars, dbVars, probeVars, Steps, AtRedis
<1>1. ASSUME NEW r \in Requests, Begin(r) PROVE TypeOK'
  <2>1. CASE r \in Clients
    <3>1. r \notin Probes
      BY <2>1
    <3> QED
      BY <1>1, <3>1 DEF TypeOK, Begin
  <2>2. CASE r \notin Clients
    <3>1. r \in Probes /\ UNCHANGED <<want, attempt>>
      BY <1>1, <2>2 DEF Begin
    <3>2. /\ verdict' = [verdict EXCEPT ![r] = "none"]
          /\ troubled' = [troubled EXCEPT ![r] = db # "up"]
          /\ pc' = [pc EXCEPT ![r] = "acquire"]
      BY <1>1, <2>2 DEF Begin
    <3>3. troubled' \in [Probes -> BOOLEAN]
      BY <3>2, Zenon DEF TypeOK
    <3> QED
      BY <1>1, <3>1, <3>2, <3>3 DEF TypeOK, Begin
  <2> QED
    BY <2>1, <2>2
<1>2. ASSUME NEW r \in Requests, LookupReturns(r) PROVE TypeOK'
  BY <1>2 DEF TypeOK, LookupReturns, Requests
<1>3. ASSUME NEW r \in Requests, StoreReturns(r) PROVE TypeOK'
  BY <1>3 DEF TypeOK, StoreReturns, Requests
<1>4. ASSUME NEW r \in Requests, InvalidationReturns(r) PROVE TypeOK'
  BY <1>4 DEF TypeOK, InvalidationReturns, Finish
<1>5. ASSUME NEW c \in Conns, CloseEnds(c) PROVE TypeOK'
  <2>1. Checkin(c, life) /\ life \in [Conns -> {"absent", "live", "dead", "void"}]
    BY <1>5 DEF CloseEnds, TypeOK
  <2> QED
    BY <1>5, <2>1, CheckinType DEF TypeOK, CloseEnds
<1>6. ASSUME NEW c \in Conns, Recycle(c) PROVE TypeOK'
  BY <1>6, VoidedType DEF TypeOK, Recycle
<1>7. CASE Crash
  BY <1>7 DEF TypeOK, Crash, Trouble
<1>8. CASE Hang
  BY <1>8 DEF TypeOK, Hang, Trouble
<1>9. CASE Recover
  BY <1>9 DEF TypeOK, Recover
<1>10. CASE UNCHANGED vars
  BY <1>10 DEF TypeOK, vars
<1> QED
  BY <1>1, <1>2, <1>3, <1>4, <1>5, <1>6, <1>7, <1>8, <1>9, <1>10, AdvanceKeepsType DEF Next

(* Every state of the request path is well-typed.                           *)

THEOREM TypeCorrect == Spec => []TypeOK
<1> QED
  BY TypeInit, NextKeepsType, PTL DEF Spec

-----------------------------------------------------------------------------
(* The gauge of requests in flight: what a step does to it and to the set   *)
(* it counts.                                                               *)

Resting == {"idle", "answered"}
Active == {r \in Requests : pc[r] \notin Resting}

LEMMA RequestsFinite == IsFiniteSet(Requests)
BY FS_Union DEF Requests

LEMMA Counted ==
    ASSUME TypeOK, InFlightExact, NEW r \in Requests, NEW s, At(r, s),
           inFlight' = IF s \in Resting
                       THEN (IF pc[r] \in Resting THEN inFlight ELSE inFlight - 1)
                       ELSE (IF pc[r] \in Resting THEN inFlight + 1 ELSE inFlight)
    PROVE  InFlightExact'
<1>1. IsFiniteSet(Active)
  BY RequestsFinite, FS_Subset DEF Active
<1>2. r \in Active <=> pc[r] \notin Resting
  BY DEF Active
<1>3. CASE s \in Resting
  <2>1. Active' = Active \ {r}
    BY <1>3 DEF TypeOK, Active, At
  <2>2. Cardinality(Active') = IF r \in Active THEN Cardinality(Active) - 1 ELSE Cardinality(Active)
    BY <1>1, <2>1, FS_RemoveElement
  <2> QED
    BY <1>2, <1>3, <2>2 DEF InFlightExact, Active, Resting
<1>4. CASE s \notin Resting
  <2>1. Active' = Active \cup {r}
    BY <1>4 DEF TypeOK, Active, At
  <2>2. Cardinality(Active') = IF r \in Active THEN Cardinality(Active) ELSE Cardinality(Active) + 1
    BY <1>1, <2>1, FS_AddElement
  <2> QED
    BY <1>2, <1>4, <2>2 DEF InFlightExact, Active, Resting
<1> QED
  BY <1>3, <1>4

LEMMA NextCounts == TypeOK /\ InFlightExact /\ [Next]_vars => InFlightExact'
<1> SUFFICES ASSUME TypeOK, InFlightExact, [Next]_vars PROVE InFlightExact'
  OBVIOUS
<1> USE DEF Left, Resting
<1>1. ASSUME NEW r \in Requests, Advance(r) PROVE InFlightExact'
  <2>1. CASE TakeIdle(r) \/ OpenNew(r)
    BY <2>1, Counted DEF TakeIdle, OpenNew, Checkout
  <2>2. CASE ConnectFails(r) \/ QueueUp(r) \/ WaitTimesOut(r) \/ Rejected(r)
    BY <2>2, Counted DEF ConnectFails, QueueUp, WaitTimesOut, Rejected, Running
  <2>3. CASE Executed(r)
    BY <2>3, Counted DEF Executed, Running, Finish
  <2>4. CASE Commit(r) \/ Broken(r)
    BY <2>4, Counted DEF Commit, Broken, Finish
  <2>5. CASE Unwind(r) \/ Close(r)
    BY <2>5, Counted DEF Unwind, Close, End
  <2>6. CASE AttemptTimesOut(r) \/ EndAttempt(r) \/ Retry(r)
    BY <2>6, Counted DEF AttemptTimesOut, EndAttempt, Retry
  <2> QED
    BY <1>1, <2>1, <2>2, <2>3, <2>4, <2>5, <2>6 DEF Advance
<1>2. ASSUME NEW r \in Requests, Begin(r) PROVE InFlightExact'
  <2>1. PICK s \in {"cache", "acquire", "unwind"} : At(r, s)
    BY <1>2 DEF Begin
  <2> QED
    BY <1>2, <2>1, Counted DEF Begin
<1>3. ASSUME NEW r \in Requests,
             LookupReturns(r) \/ StoreReturns(r) \/ InvalidationReturns(r)
      PROVE  InFlightExact'
  BY <1>3, Counted DEF LookupReturns, StoreReturns, InvalidationReturns, Finish
<1>4. CASE UNCHANGED <<pc, inFlight>>
  BY <1>4 DEF InFlightExact
<1> QED
  BY <1>1, <1>2, <1>3, <1>4
     DEF Next, CloseEnds, Recycle, Crash, Hang, Recover, requestVars, vars

(* The gauge of requests in flight is exact.                                *)

THEOREM InFlightCounted == Spec => []InFlightExact
<1>1. Init => InFlightExact
  <2>1. Init => {r \in Requests : pc[r] \notin {"idle", "answered"}} = {}
    BY DEF Init
  <2> QED
    BY <2>1, FS_EmptySet DEF Init, InFlightExact
<1> QED
  BY <1>1, TypeInit, NextKeepsType, NextCounts, PTL DEF Spec

-----------------------------------------------------------------------------
(* The pool: a step takes one connection, gives one back, or moves none.    *)

WithoutConnection == {"idle", "cache", "acquire", "wait", "pause", "invalidate"}

LEMMA HeldFinite == TypeOK => IsFiniteSet(Held) /\ Held \subseteq Conns
<1>1. TypeOK => Held \subseteq Conns
  BY DEF TypeOK, Held
<1> QED
  BY <1>1, FS_Subset

LEMMA Taken ==
    ASSUME TypeOK, PoolAccounted, NEW r \in Requests, NEW c \in Conns \ Held,
           conn[r] = None, Checkout(r, c)
    PROVE  PoolAccounted'
<1>1. /\ conn' = [conn EXCEPT ![r] = c] /\ closing' = closing /\ drift' = drift
      /\ poolInUse' = poolInUse + 1 /\ pc' = [pc EXCEPT ![r] = "execute"]
  BY DEF Checkout, At
<1>2. Held' = Held \cup {c}
  BY <1>1 DEF TypeOK, Held
<1>3. Cardinality(Held') = Cardinality(Held) + 1
  BY <1>2, HeldFinite, FS_AddElement
<1>4. poolInUse' = Cardinality(Held') - drift'
  BY <1>1, <1>3, HeldFinite, FS_CardinalityType DEF PoolAccounted, TypeOK
<1>5. \A q \in Requests : conn'[q] # None => conn'[q] \notin closing'
  BY <1>1 DEF PoolAccounted, TypeOK, Held
<1>6. \A q, s \in Requests : conn'[q] # None /\ conn'[q] = conn'[s] => q = s
  BY <1>1 DEF PoolAccounted, TypeOK, Held
<1>7. \A q \in Requests : pc'[q] \in WithoutConnection => conn'[q] = None
  BY <1>1 DEF PoolAccounted, TypeOK, WithoutConnection
<1> QED
  BY <1>4, <1>5, <1>6, <1>7 DEF PoolAccounted, WithoutConnection

LEMMA NoneTaken ==
    ASSUME TypeOK, PoolAccounted, UNCHANGED <<conn, closing>>,
           poolInUse' + drift' = poolInUse + drift, poolInUse' \in Int, drift' \in Int,
           \A q \in Requests : pc'[q] \in WithoutConnection =>
                pc[q] \in WithoutConnection \/ conn[q] = None
    PROVE  PoolAccounted'
<1>1. Held' = Held
  BY DEF Held
<1>2. poolInUse' = Cardinality(Held') - drift'
  BY <1>1, HeldFinite, FS_CardinalityType DEF PoolAccounted, TypeOK
<1>3. \A q \in Requests : pc'[q] \in WithoutConnection => conn'[q] = None
  BY DEF PoolAccounted, WithoutConnection
<1> QED
  BY <1>2, <1>3 DEF PoolAccounted, WithoutConnection

LEMMA GivenBack ==
    ASSUME TypeOK, PoolAccounted, NEW r \in Requests, NEW lives, GiveBack(r, lives),
           NEW s, At(r, s)
    PROVE  PoolAccounted'
<1>1. CASE conn[r] = None
  BY <1>1, NoneTaken DEF GiveBack, poolVars, At, TypeOK
<1>2. CASE conn[r] # None
  <2> DEFINE c == conn[r]
  <2>1. /\ conn' = [conn EXCEPT ![r] = None] /\ closing' = closing /\ drift' = drift
        /\ poolInUse' = poolInUse - 1 /\ pc' = [pc EXCEPT ![r] = s]
    BY <1>2 DEF GiveBack, Checkin, AfterCheckin, At
  <2>2. c \in Held
    BY <1>2 DEF Held
  <2>3. Held' = Held \ {c}
    BY <1>2, <2>1 DEF TypeOK, Held, PoolAccounted
  <2>4. Cardinality(Held') = Cardinality(Held) - 1
    BY <2>2, <2>3, HeldFinite, FS_RemoveElement
  <2>5. poolInUse' = Cardinality(Held') - drift'
    BY <2>1, <2>4, HeldFinite, FS_CardinalityType DEF PoolAccounted, TypeOK
  <2>6. \A q \in Requests : conn'[q] # None => conn'[q] \notin closing'
    BY <2>1 DEF PoolAccounted, TypeOK
  <2>7. \A q, u \in Requests : conn'[q] # None /\ conn'[q] = conn'[u] => q = u
    BY <2>1 DEF PoolAccounted, TypeOK
  <2>8. \A q \in Requests : pc'[q] \in WithoutConnection => conn'[q] = None
    BY <2>1 DEF PoolAccounted, TypeOK, WithoutConnection
  <2> QED
    BY <2>5, <2>6, <2>7, <2>8 DEF PoolAccounted, WithoutConnection
<1> QED
  BY <1>1, <1>2

\* A step that moves no connection.
LEMMA Moved ==
    ASSUME TypeOK, PoolAccounted, NEW r \in Requests, NEW s, At(r, s),
           s \in WithoutConnection => pc[r] \in WithoutConnection,
           UNCHANGED <<conn, closing, poolInUse, drift>>
    PROVE  PoolAccounted'
BY NoneTaken DEF TypeOK, At

LEMMA NextAccounts == TypeOK /\ PoolAccounted /\ [Next]_vars => PoolAccounted'
<1> SUFFICES ASSUME TypeOK, PoolAccounted, [Next]_vars PROVE PoolAccounted'
  OBVIOUS
<1>1. ASSUME NEW r \in Requests, Advance(r) PROVE PoolAccounted'
  <2>1. CASE TakeIdle(r)
    <3>1. PICK c \in Idle : Checkout(r, c)
      BY <2>1 DEF TakeIdle
    <3>2. conn[r] = None
      BY <2>1 DEF TakeIdle, PoolAccounted
    <3> QED
      BY <3>1, <3>2, Taken DEF Idle
  <2>2. CASE OpenNew(r)
    <3>1. PICK c \in Absent : Checkout(r, c)
      BY <2>2 DEF OpenNew
    <3>2. conn[r] = None
      BY <2>2 DEF OpenNew, PoolAccounted
    <3> QED
      BY <3>1, <3>2, Taken DEF Absent
  <2>3. CASE ConnectFails(r)
    <3>1. poolInUse' + drift' = poolInUse + drift /\ poolInUse' \in Int /\ drift' \in Int
      BY <2>3 DEF ConnectFails, TypeOK
    <3> QED
      BY <2>3, <3>1, NoneTaken DEF ConnectFails, At, TypeOK, WithoutConnection
  <2>4. CASE QueueUp(r) \/ WaitTimesOut(r) \/ Rejected(r) \/ Executed(r) \/ Retry(r)
    BY <2>4, Moved
       DEF QueueUp, WaitTimesOut, Rejected, Executed, Running, Finish, Retry, poolVars,
           WithoutConnection
  <2>5. CASE Commit(r)
    <3>1. PICK s : At(r, s)
      BY <2>5 DEF Commit, Finish
    <3> QED
      BY <2>5, <3>1, GivenBack DEF Commit
  <2>6. CASE Broken(r) \/ Unwind(r) \/ Close(r)
    BY <2>6, GivenBack DEF Broken, Unwind, Close, End
  <2>7. CASE AttemptTimesOut(r)
    <3>1. CASE pc[r] = "wait" /\ UNCHANGED poolVars
      BY <2>7, <3>1, Moved DEF AttemptTimesOut, poolVars, WithoutConnection
    <3>2. CASE GiveBack(r, Voided({conn[r]}))
      BY <2>7, <3>2, GivenBack DEF AttemptTimesOut
    <3>3. CASE /\ ~Answers(conn[r])
               /\ conn' = [conn EXCEPT ![r] = None] /\ closing' = closing \cup {conn[r]}
               /\ UNCHANGED <<life, poolInUse, drift>>
      <4>1. conn[r] # None /\ pc' = [pc EXCEPT ![r] = "unwind"]
        BY <2>7, <3>3 DEF Answers, AttemptTimesOut, At
      <4>2. Held' = Held
        BY <3>3, <4>1 DEF Held, TypeOK
      <4>3. poolInUse' = Cardinality(Held') - drift'
        BY <3>3, <4>2 DEF PoolAccounted
      <4>4. \A q \in Requests : conn'[q] # None => conn'[q] \notin closing'
        BY <3>3, <4>1 DEF PoolAccounted, TypeOK
      <4>5. \A q, u \in Requests : conn'[q] # None /\ conn'[q] = conn'[u] => q = u
        BY <3>3 DEF PoolAccounted, TypeOK
      <4>6. \A q \in Requests : pc'[q] \in WithoutConnection => conn'[q] = None
        BY <3>3, <4>1 DEF PoolAccounted, TypeOK, WithoutConnection
      <4> QED
        BY <4>3, <4>4, <4>5, <4>6 DEF PoolAccounted, WithoutConnection
    <3> QED
      BY <2>7, <3>1, <3>2, <3>3 DEF AttemptTimesOut
  <2>8. CASE EndAttempt(r)
    <3>1. PICK s : At(r, s)
      BY <2>8 DEF EndAttempt
    <3> QED
      BY <2>8, <3>1, GivenBack DEF EndAttempt
  <2> QED
    BY <1>1, <2>1, <2>2, <2>3, <2>4, <2>5, <2>6, <2>7, <2>8 DEF Advance
<1>2. ASSUME NEW r \in Requests, Begin(r) PROVE PoolAccounted'
  <2>1. PICK s \in {"cache", "acquire", "unwind"} : At(r, s)
    BY <1>2 DEF Begin
  <2> QED
    BY <1>2, <2>1, Moved DEF Begin, poolVars, WithoutConnection
<1>3. ASSUME NEW r \in Requests,
             LookupReturns(r) \/ StoreReturns(r) \/ InvalidationReturns(r)
      PROVE  PoolAccounted'
  BY <1>3, Moved
     DEF LookupReturns, StoreReturns, InvalidationReturns, Finish, poolVars, WithoutConnection
<1>4. ASSUME NEW c \in Conns, CloseEnds(c) PROVE PoolAccounted'
  <2>1. /\ c \in closing /\ closing' = closing \ {c} /\ UNCHANGED <<conn, pc, drift>>
        /\ poolInUse' = poolInUse - 1
    BY <1>4 DEF CloseEnds, Checkin, AfterCheckin, requestVars
  <2>2. c \in Held /\ Held' = Held \ {c}
    BY <2>1 DEF Held, PoolAccounted, TypeOK
  <2>3. Cardinality(Held') = Cardinality(Held) - 1
    BY <2>2, HeldFinite, FS_RemoveElement
  <2>4. poolInUse' = Cardinality(Held') - drift'
    BY <2>1, <2>3, HeldFinite, FS_CardinalityType DEF PoolAccounted, TypeOK
  <2> QED
    BY <2>1, <2>4 DEF PoolAccounted
<1>5. CASE UNCHANGED <<pc, conn, closing, poolInUse, drift>>
  BY <1>5, NoneTaken DEF TypeOK
<1> QED
  BY <1>1, <1>2, <1>3, <1>4, <1>5
     DEF Next, Recycle, Crash, Hang, Recover, requestVars, poolVars, vars

(* No connection serves two requests, and the gauge of the pool counts the  *)
(* connections held, less the reconnections that failed.                    *)

THEOREM PoolCounted == Spec => []PoolAccounted
<1>1. Init => PoolAccounted
  <2> SUFFICES ASSUME Init PROVE PoolAccounted
    OBVIOUS
  <2>1. Held = {}
    BY DEF Init, Held
  <2>2. Cardinality(Held) = 0
    BY <2>1, FS_EmptySet
  <2> QED
    BY <2>2 DEF Init, PoolAccounted
<1> QED
  BY <1>1, TypeInit, NextKeepsType, NextAccounts, PTL DEF Spec

-----------------------------------------------------------------------------
(* The health check.  Once an attempt has failed although nothing was wrong *)
(* during the probe, it has met a connection that an earlier outage left    *)
(* dead; with that all idle ones were dropped, and no dead one comes back.  *)

ProbeSteps == {"idle", "acquire", "wait", "execute", "pause", "unwind"}

NoDead(p) ==
    /\ \A c \in Idle : life[c] # "dead"
    /\ conn[p] # None => life[conn[p]] # "dead"

Failed(p) == pc[p] = "unwind" /\ verdict[p] = "none"

ProbeInv(p) ==
    /\ pc[p] \in ProbeSteps
    /\ pc[p] = "execute" => conn[p] # None
    /\ pc[p] = "idle" => attempt[p] = 1
    /\ pc[p] \notin {"idle", "unwind"} => verdict[p] = "none"
    /\ pc[p] # "idle" => verdict[p] # "unavailable"
    /\ verdict[p] = "unavailable" => troubled[p]
    /\ pc[p] # "idle" /\ ~troubled[p] =>
          /\ db = "up" /\ pc[p] # "wait"
          /\ attempt[p] > 1 => NoDead(p) /\ ~Failed(p)
          /\ Failed(p) => NoDead(p)

\* What no step but Crash undoes.
DeadKept ==
    \A c \in Conns : life'[c] = "dead" => life[c] = "dead" /\ (c \in Idle' => c \in Idle)

LEMMA DeadKeptByReturn ==
    ASSUME TypeOK, NEW c \in Conns, NEW lives \in [Conns -> {"absent", "live", "dead", "void"}],
           \A d \in Conns : lives[d] = "dead" => life[d] = "dead",
           Checkin(c, lives), Held' \cup {c} = Held
    PROVE  DeadKept
<1>1. life' = [lives EXCEPT ![c] = Returned(lives[c])] /\ Returned(lives[c]) # "dead"
  BY DEF Checkin, Returned
<1>2. life'[c] # "dead"
  BY <1>1
<1>3. \A d \in Conns : d # c => life'[d] = lives[d]
  BY <1>1
<1> QED
  BY <1>2, <1>3 DEF DeadKept, Idle, TypeOK

LEMMA DeadKeptByGiveBack ==
    ASSUME TypeOK, PoolAccounted, NEW r \in Requests,
           NEW lives \in [Conns -> {"absent", "live", "dead", "void"}],
           \A d \in Conns : lives[d] = "dead" => life[d] = "dead",
           GiveBack(r, lives)
    PROVE  DeadKept
<1>1. CASE conn[r] = None
  BY <1>1 DEF GiveBack, poolVars, DeadKept, Idle, Held
<1>2. CASE conn[r] # None
  <2>1. /\ conn' = [conn EXCEPT ![r] = None] /\ closing' = closing
        /\ Checkin(conn[r], lives) /\ conn[r] \in Conns
    BY <1>2 DEF GiveBack, TypeOK
  <2>2. Held' \cup {conn[r]} = Held
    BY <1>2, <2>1 DEF Held, TypeOK
  <2> QED
    BY <2>1, <2>2, DeadKeptByReturn
<1> QED
  BY <1>1, <1>2

LEMMA VoidedNotDead ==
    ASSUME TypeOK, NEW cs
    PROVE  \A d \in Conns : Voided(cs)[d] = "dead" => life[d] = "dead"
BY DEF Voided

LEMMA DeadKeptByTaking ==
    ASSUME TypeOK, NEW r \in Requests, NEW c \in Conns, conn[r] = None, Checkout(r, c),
           life' = life \/ life' = [life EXCEPT ![c] = "live"]
    PROVE  DeadKept
<1>1. Held \subseteq Held'
  BY DEF Checkout, Held, TypeOK
<1> QED
  BY <1>1 DEF DeadKept, Idle, TypeOK

LEMMA DeadKeptByAdvance ==
    ASSUME TypeOK, PoolAccounted, NEW r \in Requests, Advance(r)
    PROVE  DeadKept
<1>1. CASE TakeIdle(r)
  <2>1. conn[r] = None
    BY <1>1 DEF TakeIdle, PoolAccounted
  <2> QED
    BY <1>1, <2>1, DeadKeptByTaking DEF TakeIdle, Idle
<1>2. CASE OpenNew(r)
  <2>1. conn[r] = None
    BY <1>2 DEF OpenNew, PoolAccounted
  <2> QED
    BY <1>2, <2>1, DeadKeptByTaking DEF OpenNew, Absent
<1>3. CASE GiveBack(r, life)
  <2>1. life \in [Conns -> {"absent", "live", "dead", "void"}]
    BY DEF TypeOK
  <2> QED
    BY <1>3, <2>1, DeadKeptByGiveBack
<1>4. ASSUME NEW cs, GiveBack(r, Voided(cs)) PROVE DeadKept
  BY <1>4, VoidedType, VoidedNotDead, DeadKeptByGiveBack
<1>5. CASE UNCHANGED <<life, conn, closing>>
  BY <1>5 DEF DeadKept, Idle, Held
<1>6. CASE AttemptTimesOut(r)
  <2>1. CASE /\ ~Answers(conn[r])
             /\ conn' = [conn EXCEPT ![r] = None] /\ closing' = closing \cup {conn[r]}
             /\ UNCHANGED <<life, poolInUse, drift>>
    <3>1. Held' = Held
      BY <2>1 DEF Held, TypeOK, Answers
    <3> QED
      BY <2>1, <3>1 DEF DeadKept, Idle
  <2> QED
    BY <1>4, <1>5, <1>6, <2>1 DEF AttemptTimesOut, poolVars
<1> QED
  BY <1>1, <1>2, <1>3, <1>4, <1>5, <1>6
     DEF Advance, ConnectFails, QueueUp, WaitTimesOut, Executed, Rejected, Commit, Broken,
         Unwind, Close, EndAttempt, Retry, poolVars

\* A probe keeps its connection or gives it up.
LEMMA NoDeadKept ==
    ASSUME TypeOK, NEW p \in Probes, NoDead(p), DeadKept, conn'[p] \in {conn[p], None}
    PROVE  NoDead(p)'
BY DEF NoDead, DeadKept, TypeOK, Idle, Requests

LEMMA OthersStep ==
    ASSUME TypeOK, NEW p \in Probes, ProbeInv(p), DeadKept,
           pc'[p] = pc[p], attempt'[p] = attempt[p], verdict'[p] = verdict[p],
           conn'[p] = conn[p], troubled'[p] = troubled[p], db' \in {db, "up"}
    PROVE  ProbeInv(p)'
BY NoDeadKept DEF ProbeInv, Failed

LEMMA OthersAdvance ==
    ASSUME TypeOK, PoolAccounted, NEW p \in Probes, ProbeInv(p),
           NEW r \in Requests, r # p, Advance(r)
    PROVE  ProbeInv(p)'
<1>1. DeadKept
  BY DeadKeptByAdvance
<1>2. conn'[p] = conn[p]
  BY DEF Advance, TakeIdle, OpenNew, Checkout, ConnectFails, QueueUp, WaitTimesOut, Executed,
         Rejected, Commit, Broken, Unwind, Close, AttemptTimesOut, EndAttempt, Retry, GiveBack,
         poolVars, TypeOK, Requests
<1>3. pc'[p] = pc[p]
  BY DEF Advance, TakeIdle, OpenNew, Checkout, ConnectFails, QueueUp, WaitTimesOut, Executed,
         Rejected, Commit, Broken, Unwind, Close, AttemptTimesOut, EndAttempt, Retry, Finish,
         End, At, TypeOK, Requests
<1>4. attempt'[p] = attempt[p] /\ verdict'[p] = verdict[p] /\ troubled'[p] = troubled[p]
  BY DEF Advance, TakeIdle, OpenNew, Checkout, ConnectFails, QueueUp, WaitTimesOut, Executed,
         Rejected, Commit, Broken, Unwind, Close, AttemptTimesOut, EndAttempt, Retry, probeVars,
         TypeOK
<1>5. db' = db
  BY DEF Advance, TakeIdle, OpenNew, Checkout, ConnectFails, QueueUp, WaitTimesOut, Executed,
         Rejected, Commit, Broken, Unwind, Close, AttemptTimesOut, EndAttempt, Retry, dbVars
<1> QED
  BY <1>1, <1>2, <1>3, <1>4, <1>5, OthersStep

LEMMA OwnAdvance ==
    ASSUME TypeOK, PoolAccounted, NEW p \in Probes, ProbeInv(p), Advance(p)
    PROVE  ProbeInv(p)'
<1> DEFINE Fine == pc[p] # "idle" /\ ~troubled[p]
<1>0. DeadKept /\ p \in Requests /\ p \notin Clients /\ want[p] = "ping"
  BY DeadKeptByAdvance DEF Requests, TypeOK
<1> USE DEF At, probeVars, dbVars, ProbeSteps
<1>1. ASSUME NEW c \in Conns, Checkout(p, c), pc[p] \in {"acquire", "wait"},
             ~(life'[c] = "dead" /\ c \notin Idle)
      PROVE  ProbeInv(p)'
  <2>1. /\ pc'[p] = "execute" /\ conn'[p] = c /\ db' = db
        /\ attempt' = attempt /\ verdict' = verdict /\ troubled' = troubled
    BY <1>0, <1>1 DEF Checkout, TypeOK
  <2>2. NoDead(p) => NoDead(p)'
    BY <1>0, <1>1, <2>1 DEF NoDead, DeadKept, Idle, TypeOK
  <2> QED
    BY <1>1, <2>1, <2>2 DEF ProbeInv, Failed
<1>2. CASE TakeIdle(p) \/ OpenNew(p)
  <2>1. PICK c \in Conns : Checkout(p, c) /\ ~(life'[c] = "dead" /\ c \notin Idle)
    BY <1>2 DEF TakeIdle, OpenNew, Idle, Absent, TypeOK
  <2> QED
    BY <1>1, <1>2, <2>1 DEF TakeIdle, OpenNew
<1>3. CASE ConnectFails(p)
  <2>1. ~Fine
    BY <1>3 DEF ConnectFails, ProbeInv
  <2> QED
    BY <1>0, <1>3, <2>1 DEF ConnectFails, ProbeInv, TypeOK
<1>4. CASE QueueUp(p)
  BY <1>0, <1>4 DEF QueueUp, ProbeInv, TypeOK
<1>5. CASE WaitTimesOut(p)
  <2>1. ~Fine
    BY <1>5 DEF WaitTimesOut, ProbeInv
  <2> QED
    BY <1>0, <1>5, <2>1 DEF WaitTimesOut, ProbeInv, TypeOK
<1>6. CASE Executed(p)
  <2>1. /\ pc'[p] = "unwind" /\ verdict'[p] = "ok" /\ UNCHANGED <<conn, life, closing, db>>
        /\ attempt' = attempt /\ troubled' = troubled /\ pc[p] = "execute"
    BY <1>0, <1>6 DEF Executed, Running, TypeOK, poolVars
  <2>2. NoDead(p) => NoDead(p)'
    BY <1>0, <2>1, NoDeadKept
  <2> QED
    BY <2>1, <2>2 DEF ProbeInv, Failed
<1>7. CASE Rejected(p) \/ Commit(p)
  BY <1>0, <1>7 DEF Rejected, Commit, ProbeInv
<1>8. CASE Broken(p)
  <2>1. /\ pc'[p] = "unwind" /\ verdict' = verdict /\ attempt' = attempt
        /\ troubled' = troubled /\ db' = db
    BY <1>0, <1>8 DEF Broken, TypeOK
  <2> DEFINE c == conn[p]
             lives == Voided(Stale(p))
  <2>2. /\ pc[p] = "execute" /\ c # None /\ c \in Conns
        /\ life[c] = "dead" /\ GiveBack(p, lives)
    BY <1>0, <1>8 DEF Broken, ProbeInv, TypeOK
  <2>3. /\ conn' = [conn EXCEPT ![p] = None] /\ closing' = closing
        /\ life' = [lives EXCEPT ![c] = Returned(lives[c])]
    BY <2>2 DEF GiveBack, Checkin
  <2>4. conn'[p] = None /\ Held \subseteq Held' \cup {c}
    BY <1>0, <2>2, <2>3 DEF Held, TypeOK
  <2>5. life'[c] # "dead"
    <3>1. lives \in [Conns -> {"absent", "live", "dead", "void"}]
      BY VoidedType
    <3>2. Returned(lives[c]) # "dead"
      BY DEF Returned
    <3> QED
      BY <2>2, <2>3, <3>1, <3>2
  <2>6. \A d \in Idle : d # c => life'[d] # "dead"
    BY <2>3 DEF Voided, Stale, Idle
  <2>7. ASSUME NEW d \in Idle', d # c, life'[d] = "dead" PROVE FALSE
    <3>1. d \in Conns /\ d \notin Held
      BY <2>4, <2>7 DEF Idle
    <3>2. life'[d] = lives[d] /\ life'[d] # "absent"
      BY <2>3, <2>7, <3>1
    <3>3. d \in Idle
      BY <3>1, <3>2, <2>7 DEF Idle, Voided
    <3> QED
      BY <2>6, <2>7, <3>3
  <2>8. NoDead(p)'
    BY <2>4, <2>5, <2>7 DEF NoDead
  <2>9. Fine => attempt[p] = 1
    BY <1>0, <2>2 DEF ProbeInv, NoDead, TypeOK
  <2> QED
    BY <2>1, <2>2, <2>8, <2>9 DEF ProbeInv, Failed, TypeOK
<1>9. CASE Unwind(p) \/ Close(p)
  BY <1>0, <1>9 DEF Unwind, Close
<1>10. CASE AttemptTimesOut(p)
  <2>1. ~Fine /\ pc[p] # "idle"
    BY <1>10 DEF AttemptTimesOut, ProbeInv, Answers
  <2>2. /\ pc'[p] = "unwind" /\ verdict'[p] = "none" /\ attempt' = attempt /\ troubled' = troubled
    BY <1>0, <1>10 DEF AttemptTimesOut, TypeOK
  <2> QED
    BY <2>1, <2>2 DEF ProbeInv
<1>11. CASE EndAttempt(p)
  <2>1. /\ pc[p] = "unwind" /\ GiveBack(p, life) /\ db' = db /\ troubled' = troubled
    BY <1>11 DEF EndAttempt
  <2>2. NoDead(p) => NoDead(p)'
    BY <1>0, <2>1, NoDeadKept DEF GiveBack, poolVars, TypeOK
  <2>3. CASE verdict[p] = "none" /\ ~LastAttempt(p) /\ attempt' = [attempt EXCEPT ![p] = @ + 1]
    <3>1. pc'[p] = "pause" /\ verdict'[p] = "none"
      BY <1>0, <1>11, <2>3 DEF EndAttempt, TypeOK
    <3> QED
      BY <2>1, <2>2, <2>3, <3>1 DEF ProbeInv, Failed
  <2>4. CASE (verdict[p] = "ok" \/ LastAttempt(p)) /\ pc' = [pc EXCEPT ![p] = "idle"]
    <3>1. /\ pc'[p] = "idle" /\ attempt'[p] = 1
          /\ verdict'[p] = IF verdict[p] = "none" THEN "unavailable" ELSE verdict[p]
      BY <1>0, <1>11, <2>4 DEF EndAttempt, TypeOK
    <3>2. verdict[p] = "none" => attempt[p] > 1
      BY <2>4 DEF LastAttempt
    <3>3. verdict'[p] = "unavailable" => troubled[p]
      BY <2>1, <3>1, <3>2 DEF ProbeInv, Failed
    <3> QED
      BY <2>1, <3>1, <3>3 DEF ProbeInv
  <2> QED
    BY <1>11, <2>3, <2>4 DEF EndAttempt
<1>12. CASE Retry(p)
  <2>1. /\ pc[p] = "pause" /\ pc'[p] = "acquire" /\ UNCHANGED <<conn, life, closing, db>>
        /\ attempt' = attempt /\ verdict' = verdict /\ troubled' = troubled
    BY <1>0, <1>12 DEF Retry, TypeOK, poolVars
  <2>2. NoDead(p) => NoDead(p)'
    BY <1>0, <2>1, NoDeadKept
  <2> QED
    BY <2>1, <2>2 DEF ProbeInv, Failed
<1> QED
  BY <1>0, <1>2, <1>3, <1>4, <1>5, <1>6, <1>7, <1>8, <1>9, <1>10, <1>11, <1>12 DEF Advance

LEMMA NextKeepsProbe ==
    ASSUME TypeOK, PoolAccounted, NEW p \in Probes, ProbeInv(p), [Next]_vars
    PROVE  ProbeInv(p)'
<1> USE DEF At, requestVars, poolVars, probeVars, dbVars
<1>0. p \in Requests /\ p \notin Clients
  BY DEF Requests
<1>1. ASSUME NEW r \in Requests, Advance(r) PROVE ProbeInv(p)'
  BY <1>1, OthersAdvance, OwnAdvance
<1>2. ASSUME NEW r \in Requests, Begin(r) PROVE ProbeInv(p)'
  <2>1. CASE r = p
    <3>1. /\ pc[p] = "idle" /\ pc'[p] = "acquire" /\ verdict'[p] = "none" /\ attempt' = attempt
          /\ troubled' = [troubled EXCEPT ![p] = db # "up"] /\ db' = db
      BY <1>0, <1>2, <2>1 DEF Begin, TypeOK
    <3>2. ~troubled'[p] => db = "up"
      BY <3>1, Zenon DEF TypeOK
    <3>3. attempt'[p] = 1
      BY <3>1 DEF ProbeInv
    <3> QED
      BY <3>1, <3>2, <3>3 DEF ProbeInv, ProbeSteps, Failed
  <2>2. CASE r # p
    <3>1. pc'[p] = pc[p] /\ conn'[p] = conn[p] /\ db' = db /\ attempt'[p] = attempt[p]
      BY <1>0, <1>2, <2>2 DEF Begin, TypeOK
    <3>2. verdict'[p] = verdict[p]
      BY <1>2, <2>2, Zenon DEF Begin, TypeOK
    <3>3. troubled'[p] = troubled[p]
      BY <1>2, <2>2, Zenon DEF Begin, TypeOK
    <3>4. DeadKept
      BY <1>2 DEF Begin, DeadKept, Idle, Held
    <3> QED
      BY <3>1, <3>2, <3>3, <3>4, OthersStep
  <2> QED
    BY <2>1, <2>2
<1>3. ASSUME NEW r \in Requests,
             LookupReturns(r) \/ StoreReturns(r) \/ InvalidationReturns(r)
      PROVE  ProbeInv(p)'
  <2>1. /\ r # p /\ pc'[p] = pc[p] /\ attempt' = attempt /\ verdict' = verdict
        /\ troubled' = troubled /\ UNCHANGED <<conn, life, closing, db>>
    BY <1>0, <1>3 DEF LookupReturns, StoreReturns, InvalidationReturns, Finish, TypeOK
  <2>2. DeadKept
    BY <2>1 DEF DeadKept, Idle, Held
  <2> QED
    BY <2>1, <2>2, OthersStep
<1>4. ASSUME NEW c \in Conns, CloseEnds(c) PROVE ProbeInv(p)'
  <2>1. /\ UNCHANGED <<conn, requestVars, dbVars, probeVars>> /\ c \in closing
        /\ closing' = closing \ {c} /\ Checkin(c, life)
    BY <1>4 DEF CloseEnds
  <2>2. Held' \cup {c} = Held
    BY <2>1 DEF Held, PoolAccounted, TypeOK
  <2>3. life \in [Conns -> {"absent", "live", "dead", "void"}]
    BY DEF TypeOK
  <2>4. DeadKept
    BY <2>1, <2>2, <2>3, DeadKeptByReturn
  <2> QED
    BY <2>1, <2>4, OthersStep
<1>5. ASSUME NEW c \in Conns, Recycle(c) PROVE ProbeInv(p)'
  <2>1. DeadKept
    BY <1>5, VoidedNotDead DEF Recycle, DeadKept, Idle, Held, Voided
  <2> QED
    BY <1>5, <2>1, OthersStep DEF Recycle
<1>6. CASE Crash \/ Hang
  <2>1. troubled' = [q \in Probes |-> troubled[q] \/ pc[q] # "idle"]
    BY <1>6 DEF Crash, Hang, Trouble
  <2>2. (troubled[p] => troubled'[p]) /\ (pc[p] # "idle" => troubled'[p])
    BY <2>1, Zenon DEF TypeOK
  <2>3. pc' = pc /\ attempt' = attempt /\ verdict' = verdict /\ conn' = conn
    BY <1>6 DEF Crash, Hang
  <2> QED
    BY <2>2, <2>3 DEF ProbeInv
<1>7. CASE Recover \/ UNCHANGED vars
  <2>1. /\ pc' = pc /\ attempt' = attempt /\ verdict' = verdict /\ troubled' = troubled
        /\ UNCHANGED <<conn, life, closing>> /\ db' \in {db, "up"}
    BY <1>7 DEF Recover, vars
  <2>2. DeadKept
    BY <2>1 DEF DeadKept, Idle, Held
  <2> QED
    BY <2>1, <2>2, OthersStep
<1> QED
  BY <1>1, <1>2, <1>3, <1>4, <1>5, <1>6, <1>7 DEF Next

(* The health check reports the database unavailable only with reason.      *)

THEOREM VerdictHasCause == Spec => []UnavailableHasCause
<1> DEFINE AllProbes == \A p \in Probes : ProbeInv(p)
<1>1. Init => AllProbes
  BY DEF Init, ProbeInv, ProbeSteps, Failed, Requests
<1>2. TypeOK /\ PoolAccounted /\ AllProbes /\ [Next]_vars => AllProbes'
  BY NextKeepsProbe
<1>3. AllProbes => UnavailableHasCause
  BY DEF ProbeInv, UnavailableHasCause
<1> QED
  BY <1>1, <1>2, <1>3, TypeCorrect, PoolCounted, PTL DEF Spec
=============================================================================
