# CommerceSystemDemo in TLA+

TLA+ specifications of the category tree, the category and product handlers,
the subtree cache, the product search, the way of a request through pool, Redis
and health probe, and the start, stop and migration of a deployment; TLC
configurations that check them on small instances; TLAPS proofs of the safety properties for
every value of the constants. Paths below are relative to the repository root
(`src/` in `PROJECT.json`'s map).

To check: `tlc -config X.cfg MCModule` for a run, `tlapm Module_proofs.tla` for
the proofs. `PROJECT.json` maps every definition to the lines it models and
names, for every property, a fault in the code that the property catches.

## 1. The system

A FastAPI application over PostgreSQL (async SQLAlchemy) with an optional Redis
cache. A worker process runs one asyncio event loop; a request is one coroutine
with one session and gives way only at an `await`. Several workers share one
PostgreSQL and one Redis. Nothing else is shared between requests.

| Component | State | Operations | What makes it correct |
|---|---|---|---|
| Tree queries and validation (`app/services/category_service.py`) | none | recursive CTEs: ancestors, descendants, subtree; `validate_category_parent`, `validate_category_reparent` | a create or move is accepted exactly when the tree stays acyclic and within `MAX_CATEGORY_DEPTH`; the subtree is every descendant and nothing else |
| Category handlers (`app/api/categories.py`) | `categories` table | create, PATCH, delete, get, list | no orphans, no equal siblings, no resurrected row, no lost update, each change followed by an invalidation |
| Subtree cache (`category_service.py:116-180`) | Redis: a version counter, entries keyed by version and root with a TTL | lookup, invalidate | a list served is never older than the last invalidation allows; a stale one goes away |
| Product handlers (`app/api/products.py`) | `products` table | create, PATCH, delete, get, list | SKU unique, no product under a missing category, omitted fields untouched, a failed request leaves no trace |
| Search and listing (`app/services/product_service.py`, `app/api/search.py`) | none | page query, windowed page + count, separate count | items match the filter, page and total belong together |
| Session and pool (`app/db/session.py`) | 20 + 5 connections, waits of 5 s | `get_session`, `create_schema` | every connection comes back; no request holds one while waiting for another |
| Redis client (`app/cache/redis_client.py`) | one client per process, its URL | get, close | one live client, closed once |
| Health check (`app/main.py:156`) | none | 3 probes of 2 s | reports the database's state, within its bound |
| Rate limits (`app/main.py:88`, `app/api/search.py:21`) | slowapi's counters, per process | per-client count | 30 searches a minute and client |
| Middleware and in-flight metrics (`app/observability/middleware.py`) | in-flight counters | up before `call_next`, down in `finally` | every exit takes exactly one off |
| Database instrumentation (`app/observability/db.py`) | per connection: stack of start times | before/after cursor execute | starts and ends pair up |
| Logging pipeline (`app/observability/logging.py`) | queue and listener thread | start, stop | no record lost while running or at shutdown |
| Lifespan, schema creation (`app/main.py:59`, `app/db/session.py:75`) | set-once flags | start, stop | workers may start at the same time; one told to create the schema serves only on it |
| Index migration (`scripts/migrate_indexes.py`) | PostgreSQL's indexes | create concurrently, if not exists | tables and extension are there after a run that reports success; a build that failed is reported by some run |
| Alembic revision, schemas, configuration, metrics setup, load and chaos scripts | constant, or none of the system's | | |

How they interact. A write handler reads the row (SELECT), validates (one
statement over the tree), flushes and commits, invalidates the cache (INCR) and
answers: five awaits, between which any other request may run its own. A search
asks the cache for the ids of a subtree (GET version, GET entry, query, SET) and
then reads its page and its total in one or two statements, each of which sees
its own snapshot (READ COMMITTED). A session takes a connection at its first
statement and keeps it until it commits or is closed: the SET after a miss is
awaited with a connection held, the GETs before it and the INCR after a commit
without one. The health probe takes its connections from the same pool. A
category's delete reaches into the product table through the foreign key
(`ON DELETE SET NULL`) and into its own through `ON DELETE CASCADE`.

What is hard here is between the awaits: a validation that is no longer true at
commit, a row that is gone when it is written, a list stored after the change
that made it stale, a failure between commit and INCR, a page and a total from
two snapshots. Then there are the failures around it: a database that crashes or
hangs and leaves dead connections in the pool, a Redis that never answers or
comes back empty, workers and migrations that start on the same new database, a
build that outlives the script that waits for it. `PROJECT.json` lists each such place under `hazards`, with the
properties that cover it or the reason why none does.

## 2. Modules

```
CategoryTree ──┬── CategoryEdits                          one request at a time
               └── CategoryService ── CategoryRaces       concurrent requests
SubtreeCache ── implements ── LookupContract
ProductCatalog ── implements ── ProductTable ── extended by ── CatalogSearch
RequestPath                                            one worker, its pool, the probe
IndexMigration ── extended by ── Deployment            workers start, stop, migrate
```

`X_proofs` holds the theorems about `X` (`CategoryRaces_proofs` those about
CategoryService too); `MCX` gives TLC its symmetry sets.
Definitions named `Faulty...` are deliberate faults that no specification uses;
each breaks a property when put in the place of the definition after it.

**CategoryTree** — the CTEs as operators on a snapshot `par : id -> parent`.
`Levels` walks depth by depth; the two validations stop at `MaxDepth + 1` rows,
the subtree query (`RowsAtDepth`) at nothing but a depth without rows; `ParentVerdict` and `ReparentVerdict` have the order of the
early returns of the two validators. `JoinedDepth` keeps that the move's query
is one SELECT over the product of two chains, which is empty when either is.
`Subtree` is defined as the least set closed under children, not as a
recursion, so that proofs can use it.

**CategoryEdits** — creates, moves and deletes one after the other. It isolates
what the verdicts are worth on the trees that the handlers can build.

**CategoryService** — `create_category`, `update_category` and
`delete_category`, one step per await:

| `pc` | the request stands before | step |
|---|---|---|
| `idle` | its first statement | `BeginCreate` (runs the parent check), `BeginUpdate`, `BeginDelete` (load the row) |
| `validate` | `validate_category_reparent` | `ValidateMove` |
| `write` | flush and commit | `InsertCategory`, `UpdateCategory`, `DeleteCategory` |
| `invalidate` | the cache's INCR | `InvalidateCache` |
| any | | `Abandon`: cancelled, or the worker died |

`dirty` holds the columns in which the assigned values differ from the row
that was loaded, because the session writes those and no others. `CommitRow`
applies the unique constraint (which compares no NULL parents) and the foreign
key. `answer` keeps, beside the status, what the statement really met, which
the client is not always told.

**CategoryRaces** — the same with two history variables: `overtaken[c]`, what
others did to the tree since `c` was validated, and `raced`, what had overtaken
the requests that committed anyway. It instantiates CategoryEdits over its own
table (`Alone`) to compare what a request does with what it would have done by
itself.

**SubtreeCache** — lookup and invalidation await by await against one Redis
that may fail at any call, apply a SET and lose its reply, expire an entry, or
hold an entry that something else wrote; and that restarts from an older dump or
empty, so that its counter falls back. The table is the number `rev` of
changes committed, a cached list the value of `rev` when it was queried. The
history variable `doubt` holds the values of the counter under which Redis may
keep lists from before the counter last took them: 1 when the key was missing at
the start, the value that a restart fell back to, and those read before it by
lookups still under way.

**LookupContract** — what the cache promises without the cache: a lookup answers
with something between the floor that the last invalidation had set when it
began and the latest commit. `Withdraw` takes the floor away, as a Redis
that may have lost its data does. The refinement does not raise it again after
that; that invalidations take effect once more as soon as the counter has passed
the values in doubt is what `OutdatedUnlessInDoubt` says.

**ProductTable** — the table as its schema promises it, one transaction at a
time. **ProductCatalog** — the product handlers in the manner of
CategoryService, with categories deleted meanwhile; it implements ProductTable.
**CatalogSearch** — `search_products` and `list_products` (and
`list_categories`, which is the same code over the other table) reading a
ProductTable that undergoes any step at any moment. Checking the readers against
the abstract table means they are right whatever the handlers do, as long as
these implement it, which is proved.

**RequestPath** — one worker. A request is known by the statement it wants next
(`want`: `page`, `write`, `subtree`, or a probe's `ping`) and stands at:

| `pc` | the request awaits | leaves by |
|---|---|---|
| `idle` | (no request) | `Begin`: the middleware counts it in |
| `cache` | GET version, GET entry | `LookupReturns` |
| `acquire` | a connection | `TakeIdle`, `OpenNew`, `ConnectFails`, `QueueUp` |
| `wait` | the pool's queue | `TakeIdle`, `OpenNew`, `WaitTimesOut` |
| `execute`, `commit` | the database | `Executed`, `Rejected`, `Commit`, `Broken` |
| `store` | SET, with its connection | `StoreReturns` |
| `invalidate` | INCR, without one | `InvalidationReturns` |
| `unwind` | rollback and close | `Unwind`; a probe: `EndAttempt` |
| `answered` | rollback and close, after its response | `Close` |
| `pause` | a probe's sleep | `Retry` |

`AttemptTimesOut` is `asyncio.timeout` around an attempt of the probe, at
whichever of its awaits it strikes. A place of the pool (`life`) is `absent`,
`live`, `dead` (broken, and nobody has noticed: the engine has no pre-ping) or
`void` (a record that opens its connection at the next checkout). `closing`
holds connections that a timed-out probe left while they were being rolled back.
`Crash`, `Hang` and `Recover` are the database's, `Recycle` the pool's.

**IndexMigration** — runs of `scripts/migrate_indexes.py`, alone or at the same
time: the table check, `create_all` in its transaction, the statements one after
another with their errors noted, the exit status. A build (`EndBuild`) belongs to
the server and ends whether or not its run still waits.

**Deployment** — the worker processes beside those runs: `Launch` (at any time,
or under docker compose after a successful migration), `create_all` as two steps
in which others may come between, serving, `Shutdown`, `Stop`, `Join`, death; and
each worker's log queue with its listener thread. `autoCreate` is
`settings.auto_create_schema`, which docker compose turns on
(`docker-compose.yml:66`) and which a worker started by hand may have off
(`app/core/config.py:29`): it then goes from its start to serving and looks at no
table.

### Abstractions

- *Flush and commit are one step.* Between them the handler does nothing, and
  the row and index locks that flush takes make conflicting writers wait until
  commit, so that what flush checked still holds at commit. That two
  transactions may wait for each other (a product's PATCH and its category's
  delete lock in opposite orders; PostgreSQL aborts one) is an outcome of the
  product's flush, `FlushFails`. In CategoryService such an abort is not
  distinguished from `Abandon`, which leaves the same state.
- *Ids.* An INSERT draws its id whether or not it succeeds. CategoryService
  numbers categories in the order of their commits: no property compares ids
  of different categories, so another order is a renaming. In ProductTable
  and ProductCatalog, where pages are ordered by id, INSERTs commit in any order
  of ids.
- *Columns.* A product keeps one column of each kind: unique (`sku`), compared
  and NOT NULL (`price`), foreign key (`category`). `title` behaves as `price`,
  and a text filter as a price filter: a predicate on the row. A category keeps
  parent and name.
- *Categories in ProductTable and ProductCatalog* only disappear (`live`): one
  not created yet and one already gone are the same to a product.
- *The subtree a search uses* is any set of categories, since LookupContract
  allows a list of the past.
- *The cache's metrics* (hits, misses) and logging are left out. redis-py's own
  retries are inside one call: the call succeeds, fails, or fails after it took
  effect.
- *Statements in RequestPath.* `page` stands for any number of reads over one
  connection, `write` for all statements up to a commit; what they read and write
  is the other modules' subject. Requests that validation or the rate limit turns
  away never ask for a connection. A connection attempt that hangs holds no place
  until it fails.
- *The pool's gauge* (`db.py:71`) follows SQLAlchemy's events. A record that
  cannot be reopened goes back to the pool and fires `checkin`, though `checkout`
  was never fired: the gauge stays too low from then on. `drift` counts these, and
  the gauge is exact up to it.
- *Session close and response.* Depending on the version of FastAPI the session
  of a request is closed before its response or after it; both are taken.
- *Indexes.* `ix_product_category_id` fares as `ix_product_price` does and is left
  out. CREATE INDEX CONCURRENTLY is refused or starts; while it runs, another on
  the same table waits.
- *Query durations, traces, labels and log formats* are values computed once per
  request or statement and change no modelled state.

## 3. Runs

| Run | Config | States | Question |
|---|---|---|---|
| `category_edits` | `CategoryEdits.cfg` | 1,997 | are the verdicts exact and the subtree query right? |
| `category_handlers` | `CategoryHandlers.cfg` | 399 thousand | what do interleaved handlers do to the table, and which commits can break the tree? |
| `category_cycle` | `CategoryCycle.cfg` | violation | can moves commit a cycle? |
| `category_gone` | `CategoryGone.cfg` | violation | does a missing category always answer 404? |
| `subtree_cache` | `SubtreeCache.cfg` | 534 thousand | does the cache keep its contract through races, failures and a restart of Redis? |
| `subtree_cache_cold` | `SubtreeCacheColdStart.cfg` | violation | also on an empty Redis? |
| `product_catalog` | `ProductCatalog.cfg` | 744 thousand | do the product handlers implement the table? |
| `catalog_search` | `CatalogSearch.cfg` | 296 thousand | are answers right while the table changes? |
| `catalog_search_total` | `CatalogSearchTotal.cfg` | violation | is the total always the number of matches? |
| `request_path` | `RequestPath.cfg` | 263 thousand | does every request end, and give back what it took? |
| `deployment` | `Deployment.cfg` | 1.63 million | what can start, stop and migrate at the same time? |
| `index_left_invalid` | `IndexLeftInvalid.cfg` | violation | does a migration that reports success leave usable indexes? |

**`category_edits`**: `StaysWithinDepth`, `VerdictsExact`,
`CycleReportedExactly`, `SubtreeIsDescendants`. `MaxDepth = 4` with five ids,
not smaller: up to a limit of three, a cycle that only the second or a later
ancestor reveals is always also refused by the depth check, so that a fault in
the cycle check would go unseen; at four, a tree of five has every case.

**`category_handlers`**: first `ParentsPresent`, `SiblingNamesUnique`,
`PatchKeepsOtherFields`, `DeletedStaysDeleted`, `EveryChangeInvalidates`. Two
clients, three ids, two names. Every one of them speaks of at most two rows and
one request that another overtakes; a third row lets a delete take a subtree
with it. `MaxDepth = 2` so that validation refuses some requests and lets
others through. `EveryChangeInvalidates` says that the INCR is called before
success is answered; that Redis may fail it is SubtreeCache's subject.

Then `AcyclicUnlessRaced`, `DepthKeptUnlessRaced`,
`SubtreeQueriesEnd`, `AsIfAloneUnlessOvertaken`. The first two say exactly how far the validators
protect the tree: a cycle needs a commit overtaken by a move; a tree too deep
needs one overtaken by a move, or a move overtaken by any growth. Two creates
never endanger each other. The third says what a cycle means to a search: the
query of a category on the cycle never ends, that of every other category does,
one that hangs under the cycle included. The fourth says of single steps, in any table: a
request that nothing overtook does to the tree what it would have done alone,
validation and write at one moment. Deletes, detachments and new roots overtake
nothing.

The run has one bound more, the state constraint `TwoNamesBound`. Until the
last id is drawn it cuts nothing: two rows, two names, any race. From then on two
names are followed for one request at a time, as long as no commit relied on an
overtaken validation (siblings of different names, renames and moves onto a name
that is taken), and one name to the end, whatever the race. Names matter to the
unique constraint and to what a PATCH writes, which the committing step alone
decides, not to the tree. So a rename that races another among three rows is in
no run; it is in the theorems. For every number of names all nine properties are
theorems.

**`subtree_cache`**: `OutdatedUnlessInDoubt`, `MeetsContract`,
`StaleListsDisappear`. Two readers, one root (roots do not share entries), two
changes, one restart of Redis, one foreign entry at a time. With two changes a
list can be stale by one and by two, and two invalidations can fall inside one
lookup; the counter can pass, fall back to and pass again a value under which a
slow lookup is still to store. With one writer a second change can still commit
before the INCR of the first, when that one fails; two INCRs pending at once,
which only set the floor to the same change twice, are left to the proofs, which
hold for any number of writers.

**`product_catalog`**: `SkusUnique`, `CategoriesExist`, `OmittedFieldsKept`,
`ImplementsTable`. Two clients, two ids, SKUs and prices, one category, which
may be deleted at any moment.

**`catalog_search`**: `ShownMatchesFilter`, `PageFitsTotal`,
`ExactUndisturbed`. Two products at a time under three ids, so that a new one
may come before or after the others while a request runs; pages of one and two,
offsets 0, 1 and 2: a full page with more behind it, a full and a short last
page, and one past the end. One reader is enough, because readers do not affect
each other.

**`request_path`**: `InFlightExact`, `PoolAccounted`, `UnavailableHasCause`,
`ProbesAnswered`, `EachMovesOn`. Two clients and one probe on a pool of two
places, one of which stays open when idle: with both places taken the probe, or a
client, waits; the place beyond `PoolSize` is closed when it comes back. Two
attempts of the probe, the fewest at which one may fail and the next succeed. One
outage (a crash, or a hang) and one reopening that fails. `UnavailableHasCause`
is the point of the retries: connections that an outage which is over left dead
cost a probe one attempt only, since the break makes the pool reopen all others.
With one place that stays open there is never more than one idle dead connection
in the run; several at once are the business of the theorem `VerdictHasCause`,
which is for a pool of any size.
`EachMovesOn` says that requests which wait for a silent Redis with their
connection in hand cannot hold up the others, which time out. With two clients a
pool taken altogether by such requests is met by the probe alone; a client then
finds one place taken so and the other by a probe.

**`deployment`**: `UnusableReported`, `ServesOnSchema`, `ComposeStartsClean`,
`LogsWritten`. Two runs and two workers: each race is between two of them. One
record queued at a time, because the order among records of the application is
no property's concern, only theirs against the sentinel.
`UnusableReported` is what the exit statuses of the migration are worth. One run's
success means tables, extension and no index missing. It does not mean that the
indexes are usable (`SuccessMeansUsable`, below); but the run whose build an
unusable index is left from still waits for that build, or reports failure, or was
killed, so that where all runs report success all indexes are valid.
`ServesOnSchema` is about workers with `auto_create_schema` on; with it off
nothing at startup depends on the tables, and workers that serve without them are
among the states of the run. `ComposeStartsClean` depends on
`service_completed_successfully`: started by hand on a new database, one of two
workers fails at startup. `LogsWritten` has an exception: `stop_log_listener` runs
before the server logs its own last records.

Bounds: `MaxId` and the product `Ids` bound the INSERTs, `MaxRev` the changes,
and clients name only ids that were handed out once (`KnownIds`, `spent`), which
are the ones a client can know; an id never handed out behaves like one that
was deleted. Symmetry is used on clients, names, SKUs, migration runs and
workers, never in a run with a liveness property. Only `deployment` and
`index_left_invalid` turn the deadlock check off: when both migrations have failed and compose waits for one to
succeed, the system has stopped.

### What the violations show

- `NoCycles`: two PATCHes each move one of two roots under the other. Each is
  validated by the one statement of `validate_category_reparent`
  (`category_service.py:258`) before either commits, and nothing is locked. Its
  docstring (`category_service.py:233`) promises "parent exists, no cycles, depth
  within limits". On such a cycle the subtree query, which is not bounded and
  uses UNION ALL, does not end.
- `MissingAnswers404`: a category deleted between a PATCH's load and its flush
  raises `StaleDataError`, which no handler catches: 500 instead of 404
  (`README.md:368`).
- `InvalidationTakesEffect` on an empty Redis: a missing version key reads as
  `"1"`, and the first INCR makes it 1. The first invalidation therefore
  changes nothing, and lists stored before it are served until their TTL
  (`category_service.py:135`).
- `TotalCountsMatches`: the count is a column of the page's rows, so a page past
  the last match answers `total: 0` (`product_service.py:83`).
- `SuccessMeansUsable`: one run's CREATE INDEX CONCURRENTLY fails and leaves its
  index invalid. To another run IF NOT EXISTS is satisfied by it
  (`scripts/migrate_indexes.py:95`): "ok", "All migrations applied
  successfully." (`scripts/migrate_indexes.py:110`), exit status 0, and an index
  that no query uses. The script is "Safe to run multiple times"
  (`scripts/migrate_indexes.py:8`) in that it does no harm; it repairs nothing.
  The property asks only when no build is going on, so that the index is not
  merely unfinished.

The passing runs state what does hold: `OutdatedUnlessInDoubt` excepts the
counter's value 1 on a Redis without the key, `ExactUndisturbed` the page past the
end, `AcyclicUnlessRaced` the commits that were overtaken, `UnusableReported` the
builds that another run has to answer for.

### Fairness

`subtree_cache` needs it for `StaleListsDisappear`: weak fairness of
`LookupStep`, because a coroutine that waits for Redis or the database is
resumed with an answer or an error, and of `Expire`, because every entry is
stored with `ex=` its TTL and Redis drops it. Nothing is assumed of writers, of
clients, or of whoever overwrites entries. A Redis that never answers at all
stops the lookup and is outside this property; what it means for the other
requests is `request_path`'s subject.

`request_path`: weak fairness of each request's `Advance`, its steps that do not
wait for Redis, and of `CloseEnds`. These are the event loop's (a coroutine that
can run is run) and the two timeouts' (`database_pool_timeout`,
`health_check_db_timeout`). Redis owes nothing: the client sets no timeout
(`app/cache/redis_client.py:25`). The database owes nothing either: a statement
sent to one that hangs stays where it is. `ProbesAnswered` holds even so;
`EachMovesOn` has the database's return as a hypothesis. No
strong fairness is needed: a waiter leaves the queue with a connection or at its
timeout, whichever comes.

## 4. Proofs

All theorems are about the specifications above with every constant arbitrary
within the named assumptions: finitely many clients and ids, special values
(`NoParent`, `Unset`, `Null`, `NoCategory`, the junk payloads) outside the sets
they are distinguished from, `MaxDepth` positive, limits positive, at least two
attempts of the health probe.

**CategoryTree_proofs** — lemmas on the operators of the tree, for any table.
`ParentVerdictExact` and `ReparentVerdictExact`: within the limit, the two
validators answer ok if and only if the write leaves a tree within the limit.
`SubtreeByDepth`: in any table the recursive query finds what `Subtree` is defined
as. `QueryEndsIff`: it ends if and only if its root does not hang below itself;
a row found at two depths puts the root below itself, and a finite table cannot
fill more depths than it has rows without finding one twice.
The walks are recursive functions, and no induction principle can be cited on
them; what stands in for one is the least level of a walk at which something
happens (`LeastElement`): a walk that ends under the limit has met every ancestor
(`ClimbsWithin`, `ChainIsExact`), and one that does not proves the table too deep.
`ParentVerdictStays` and `ReparentVerdictStays`: a verdict ok outlives any change
that only takes links away, whatever the table, because a chain over fewer links
is a part of the old one (`ShorterChain`).

**CategoryEdits_proofs** — `DepthKeptOneAtATime`, `VerdictsAreExact`,
`CyclesReportedExactly`, `SubtreesAreDescendants`. That the tree is within the
limit is itself inductive here, since what is accepted is exactly what keeps it
so. A cycle is reported exactly when there would be one: the new parent's
chain of ancestors, complete within the limit, holds the category if and only if
the parent hangs below it. The query's subtree is the least closed set, and its
complement among the rows together with those that do climb to the root is
closed too.

**CategoryRaces_proofs** — first of the specification of CategoryService:
`TypeCorrect`, `ReferencesKept`, `SiblingsKept`, `NoResurrection`,
`ChangesInvalidate`, `NoLostUpdate`. The invariant adds to
`TypeOK` that as many ids are left as INSERTs are pending: each create counted
itself against `MaxId` when it began. Referential integrity needs that what a
delete removes is closed under children, a lemma of CategoryTree_proofs
about `Subtree`. `NoLostUpdate` needs an invariant on requests in flight: a
column is dirty only if the body names it.

Then of CategoryRaces: `AcyclicExceptByRace`, `DepthKeptExceptByRace`,
`SearchesEnd`, `AloneUnlessOvertaken`.
"No cycle" is not inductive: a move that was validated commits on a tree others
have changed. The invariant says what each pending validation is still worth:
as long as nothing that matters to it has overtaken it, the moved category is
not above its new parent, and (for depth) there is a depth function under which
the moved subtree fits. A chain of ancestors cut off at `MaxDepth + 1` is
complete only in a tree within the limit, hence depth functions rather than
chains in the invariant; the lemmas that connect the two are in
CategoryTree_proofs. `AloneUnlessOvertaken` needs no depth: its invariant
(`StillOk`) is that a request about to write which nothing overtook would be
validated again now, and what others may do without overtaking it only takes links
away or adds a root.

**SubtreeCache_proofs** — `TypeCorrect`, `InvalidationWorks`,
`CacheMeetsContract`, from any counter, with any number of restarts. The
invariant: the values of `bornAt` rise with the version; every readable entry,
and every list about to be stored, reflects what was committed when its version
was born, unless that version is in `doubt`; no entry and no lookup is ahead of
the counter except under such a version; and a lookup's version is at least the
one whose birth set its floor. Since the version is read
*before* the query, a slow lookup can only store under a version its list is
fresh enough for. The refinement follows step by step; failures, expiry and
foreign writes are stutters of the contract.

**ProductCatalog_proofs** — the refinement comes first: `TableImplemented`
shows that every step is one of ProductTable's or leaves the table alone. That
SKUs stay unique and categories exist is then shown of ProductTable's steps and
carried over (`SkusKept`, `CategoriesKept`); `OmittedFieldsStay` needs the
invariant on dirty columns.

**CatalogSearch_proofs** — `ItemsMatch`, `TotalsFit`, `UndisturbedExact`. The first needs that what
a session already holds matches the filter. The second is about counting: a
page is the set of matches with rank in `[offset, offset + limit)`, ranks in a
finite set of integers are `0 .. n - 1`, each taken once, so that a page that is
not empty ends at the total exactly when it is not full. Induction over a finite
set is out of the prover's reach in this form, so the lemmas (`RankBelow`,
`RankRises`, `RanksAreAll`, `CutSize`) go through injections and the library's
facts on cardinality. The third relates two statements at different moments: the
invariant (`Fresh`) is that, until another's commit disturbs the request, what
it holds is what it would read now. `PagesShowEachMatchOnce` is about a client
that pages through an answer: while nobody writes, the pages at offsets `0`,
`limit`, `2 * limit` and so on show every match once and in order.

**RequestPath_proofs** — `TypeCorrect`, `InFlightCounted`, `PoolCounted`,
`VerdictHasCause`. The gauges are cardinalities of sets that change by one
member per step; the lemmas state what adding and removing a request, or a
connection, does to them. `PoolCounted` needs which steps of a request go with a
connection. `VerdictHasCause` is not inductive: while a probe has had no trouble
the invariant says that the database is up, and from the second attempt on that
every connection the pool would hand out is live or void, since the first
attempt's failure, if it had no other cause, was a dead connection, whose break
voids all others. `RetriesAssumption` (at least two attempts) is necessary.

**Deployment_proofs** — `TypeCorrect`, `UnusableIndexReported`,
`ServesOnSchemaAlways`, `ComposeStarts`, `LogsWrittenAlways`. For the exit
status: a run without errors has completed every statement before the one it is
at, and an index that it left invalid is still being built for it, counts as its
error, or belongs to a killed run (`KnowsInvalid`); the property adds up what this
says about every run once one has succeeded. For compose: once a run has succeeded the
tables are there, so that a worker launched after it never sees the schema missing.
For the log: while the thread runs, the sentinel is last in the queue if it is
there at all, and once the thread is gone the queue is empty.

Every safety property that a passing run checks, invariant or action property,
is the statement of a theorem. Model-checked only: `StaleListsDisappear`,
`ProbesAnswered` and `EachMovesOn`, which are liveness properties. The
violations that other runs find are counterexamples and have nothing to prove.

The proof attempts corrected the model once. `Subtree` of a root that is not in
the table was every row of it, so that DELETE of a category already gone emptied
the table; the query's anchor (`category_service.py:107`) finds no row, and the
least set closed under children now starts from none.

## 5. Not modelled

- *The rate limiter's counting*: slowapi's, in memory, per process. That the
  default limit is consulted by no middleware (`app/main.py:90`) is a fact of
  configuration, with no state to check.
- *Query timers* (`app/observability/db.py:86`): the stack of start times is read
  by nothing but a histogram. That a failed statement leaves one behind is listed
  as a hazard without a property.
- *A client's disconnect* cancels no handler here; death of a request at any await
  is in the handlers' modules (`Abandon`, `LookupDies`).
- *The change of the Redis client when its URL changes*: settings are read once,
  so the running system never does it.
- *The Alembic revision*: its one script makes what `create_all` makes.
- *Configuration, metric declarations, OpenTelemetry setup, load and chaos
  scripts*: no state that other parts depend on.
- *Field formats, lengths and serialisation*: pure functions of one field.

## 6. Plan

Done: the tree and its validation; the handlers of categories; the cache, its
contract and its restarts; products and their table; search; the way of a request
with pool, outage and probe; deployment with migration and logs. In this order
because each later part reads what the earlier one keeps.

Proved since: all safety properties that the runs check, and what a client that
pages through an answer and a search of a subtree rely on (`PagesShowEachMatchOnce`,
`QueryEndsIff`). Left is the relation of pages read one after the other while
others write: a product that is there throughout is skipped only if one before
it left the matches, and repeated only if one before it joined them.
