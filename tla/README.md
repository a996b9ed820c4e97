# A TLA+ verification of klens

klens is a Kafka UI: one Rust process that keeps projections of Kafka clusters in
memory, serves them to a browser (and to agents over MCP), reads records, follows
topics live, and makes changes on request. This directory holds TLA+ models of its
concurrent core, of every operation that changes a cluster, of sessions and MCP calls,
and of what a page is shown; the TLC runs that check them on small instances; and TLAPS
proofs, for every value of the constants, of every property those runs check but the
liveness ones.

File names below are relative to the repository (`src/src` is the Rust crate, `src/web`
the browser's code). `PROJECT.json` has the machine-readable side: components, runs,
mutants, the map from definitions to source lines, hazards, findings and theorems.

## 1. The system

| Part | State it keeps | Operations | What makes it hard |
|---|---|---|---|
| **Store lane** `kafka/store/lane.rs`, runner `kafka/ingest/runner.rs` | a table (`ArcSwapOption`), version, health, a `Notify`, a refresh flag, two watch channels | `commit`, `record_poll`, `wait`, `kick`, `refresh_until`, `follow` | lock-free accesses one after the other by a runner, any number of settles and followers; polls that were under way when something changed |
| **Sources** `kafka/ingest/*.rs` | per source: intervals, caches | `fetch`, `diff`, `stale`, `publish` | failures, part of a table served from a cache |
| **Write handlers** `app/context.rs`, `app/context/*.rs` | none | change the cluster, then settle on a lane | the cluster is shared with other clients and shows changes late; a timeout drops the settle |
| **Change bus** `kafka/store/bus.rs` | a broadcast channel of 256 changes | `publish`, `subscribe` | slow receivers lose changes |
| **Update stream** `app/resources/updates.rs`; `web/src/lib/api/{client,updates}.ts` | scope, receiver, pending frames; retries, query caches | subscribe, scope, forward, end; connect, apply, retry | frames cross the page's own reads; the session ends meanwhile |
| **Offsets lane, interest** `kafka/ingest/offsets.rs`, `kafka/store/interest.rs` | attempts, fingerprints; leases, touches | `sweep`, `lease_group`, `touch_group`, `hot_groups` | leases change while a sweep runs; groups leave and return; Kafka fails for some |
| **Record plan** `kafka/scan/{plan,batch,cursor}.rs` | none (pure) | `windows`, `advance`, `rewind`, `push` | gaps, falling timestamps, both orders and directions, edges of the log |
| **Record pages, export** `kafka/scan/{session,read,export}.rs` | a page's cursor, batch, windows | `fetch`, `run`, `next` | the deadline passes anywhere; partitions answer in any order |
| **Reader pool** `kafka/client/{pool,scan}.rs` | parked consumers; leases | `acquire`, `release`, `park`, `expire` | cancellation at every await, leftovers of the previous page, double release |
| **Live tail** `kafka/scan/tail.rs`, `kafka/client/tail.rs`, `app/resources/records/tail.rs`, `web/src/lib/api/tail.ts` | positions, batch, counts; the page's list | `open`, `next`, `skip_ahead`; pause, resume, reconnect | sampling that must account for what it leaves out; sessions that end while nothing happens |
| **Record query** `kafka/scan/{query,cursor}.rs`, `app/resources/records/types.rs` | none (pure) | parse, limits, instants to offsets, cursor to text and back | an inclusive end against Kafka's first-at-or-after; a cursor of another order or direction |
| **Record pipeline** `kafka/scan/{pipeline,filter,payload,obfuscate}.rs`, `kafka/registry/decode.rs`, `config/obfuscation.rs` | caches of schemas | screen, decode, redact, filter, render | the order of these steps decides what is searched and shown; the registry comes and goes |
| **Write handlers** `app/context/*.rs`, with bodies in `app/resources/*`, wire forms in `kafka/{acl,quota,scram,group,reset}.rs`, answers in `kafka/client*.rs` | none | create, edit, delete of topics, configs, records, ACLs, quotas, credentials, groups, schemas; produce | a look at a table some seconds old, then a request of which part may fail, then a settle on what a poll reads back |
| **Schema registry** `kafka/registry/*.rs`, `kafka/ingest/{subjects,schema_ids}.rs` | subjects, ids, schemas | register, soft and hard delete, level, references | versions that start over; two lanes that reuse what they know |
| **Watermarks and rates** `kafka/ingest/watermarks.rs`, `kafka/store/rates.rs` | last reading of the lows, last commit, rates | `fetch`, `diff`, `publish` | two speeds in one table, lookups that fail in part |
| **Projections** `kafka/store/{projections,tables,cluster}.rs` | none | rows and details | tables of different ages, some not there yet |
| **Sessions and access** `app/auth*.rs` | users by subject, session records | sign-in, sign-out, requests, `revalidate` | two sessions of one subject, expiry under open streams |
| **MCP** `app/mcp/*` | permits, a rate budget | tools over the same granted operations | checks and payment in each handler by hand, cancellation, replies of bounded size |
| Transport, search, configuration, server, UI pages, chart | | requests, ranking, start-up, presentation | no state or order of events of their own |

How they interact: a runner per lane polls Kafka, **commits** a table and **publishes**
its delta on the bus. Pages read projections of the tables over HTTP, and hold an **update
stream** that tells them what to read again. Lanes **follow** other lanes (configs and
log_dirs follow topology, schema_ids follows subjects, offsets and watermarks read
topology). A handler that changed the cluster **kicks** the lane and waits until the table
shows the change. A stream scoped to a group, and a reset, hold a **lease** that moves the
group to the fast tier of the offsets lane. Record pages borrow readers from the **pool**;
a live tail has a reader of its own.

What makes each part correct, in one line each:

- lane: no lost wakeup, no missed commit, what was shown stays shown, announce after
  store;
- update stream: a drained stream leaves the rows that a page hears of current;
- offsets: watched groups are read in time, no lag is kept from a page, a reset is shown;
- pages: a walk returns every record once, in spite of gaps, falling timestamps and
  deadlines;
- pool: one owner per reader, a page reads its own window, broken readers are not reused;
- tail: the newest records of each poll, everything else counted, an ended session's tail
  closes;
- record values: nothing a rule hides is shown or searched, the filter agrees with the
  page;
- writes: only what was named changes, success means all of it, a settle can end;
- registry: no id of a former life of a subject where one confirmed id can tell;
  references before what refers to them;
- watermarks and projections: nothing older than its interval, nothing told that was not
  measured;
- sessions: the rights of one's own sign-in, and none after it;
- MCP: a tool does what it is explained to do, pays before it reads, and answers for its
  changes.

## 2. Modules

| Module | Models | Built on |
|---|---|---|
| `SnapshotFeed` | the abstract promise of a lane: a table replaced whole, announced after it can be loaded | |
| `Lane` | a lane, its runner, settling writers, followers; one action per shared access | refines `SnapshotFeed` |
| `UpdateStream` | bus, streams, pages; `Commit` and `Publish` are those of `SnapshotFeed` | `SnapshotFeed`'s contract |
| `GroupOffsets` | offsets lane, interest registry, resets | `Lane`'s contract, coarser |
| `ScanPlan` | pure operators: windows, cursors, ranking, the bounded batch | |
| `RecordQuery` | a request's parameters, limits, instants and cursor | `ScanPlan` |
| `RecordScan` | a read of a topic, page by page, pass by pass, poll by poll | `RecordQuery` |
| `LiveTail` | a tail, its stream, its page | `ScanPlan`'s batch |
| `ScanPool` | pool, leases, pages that are cancelled | |
| `RecordValues` | a record on its way from bytes to a row of a page, caches and registry beside it | |
| `Access` | roles, grants, the order in which a request is refused | |
| `Sessions` | sign-in, user cache, session records, requests, streams, exports | `Access` |
| `Errors` | error codes, their status | |
| `ToolCalls` | the MCP server: grant, gate, permits, budget, the handlers' checks and awaits | `Access`, `Errors` |
| `Bodies`, `TopicAdmin`, `PrincipalAdmin`, `GroupAdmin`, `SchemaAdmin` | per area: bodies, wire forms, what the cluster makes of a request, what a poll reads back, the predicate of the settle | |
| `ClusterWrites` | the handlers that change a cluster, step by step, with another client | all of these, `Access`, `Errors` |
| `Projections` | rows and details as joins of the tables | |
| `Sums` | a sum over a set as the number of its units, which needs no recursion | |
| `Replies` | cutting a reply to its size | `Sums` |
| `StoreViews` | the watermark lane, the tables, pages and tools that join them | `Projections`, `Replies` |
| `SchemaIds` | the subjects and schema_ids lanes over the lives of a subject | |
| `UpdateStreamProofs`, `GroupOffsetsProofs`, `ScanPoolProofs`, `ClusterWritesProofs` | the theorems about a module and their proofs (section 5) | the module each is named after |
| `LaneProofs` | the same for lanes and ids | `Lane`, `SchemaIds` |
| `AccessProofs` | for sessions and MCP calls | `Sessions`, `ToolCalls` |
| `RecordScanProofs` | for pages, exports and the live tail | `RecordScan`, `LiveTail` |
| `ViewsProofs` | for watermarks, projections, replies and record values | `StoreViews`, `RecordValues` |
| `MC*` | instances for TLC | |

Four MC modules (`MCFollowers`, `MCSessions`, `MCWritesReads`, `MCStoreViews`) run two
models that share no variable as a disjoint sum: a variable chosen in the initial state
says which of the two moves, and the other one stays as it is. As neither reads the
other's state, every behaviour of either is a behaviour of the sum, and an invariant of
one of them is checked in all its states.

### Lane

Variables are the fields of `Lane<T>` (`table`, `permit` for the `Notify`, `refresh`,
`lastError`, `updated`, `ready`), the runner's position and locals (`rpc`, `previous`,
`full`, `fetched`), and per writer and follower the line it is at. A table is a set of
items. The watch channels are kept per receiver as "has a value it did not see", which
is all that `changed()` and `mark_unchanged()` can tell. The version is kept as "above
zero" and the time stamps as "is there one". `cluster` is what Kafka holds and `served`
what a read returns: `Propagate` closes the gap, as metadata spreads after the
controller answered. With `Caches` the source may answer for any part of its table from
its previous one unless the refresh flag told it not to; it stands for watermarks and
schema_ids. Handlers create and delete items; a follower's `stale` is "gained an item",
as for configs.

`claim` is a history variable: whether a writer's change is still the last one of its
item, and whether the table (or the poll about to commit) already looked like it before
it was made.

### UpdateStream

Two lanes stand for all that are announced by name: topology, whose frame goes out
whole or not at all, and configs, whose frame is narrowed to the topic of the stream.
A page of a topic, of a group or of the lists makes several queries; they share nothing
but the stream, so a page of the model has one of them (`query`). `Shows` says which rows
the answer to a query is made of, `Names` which names in a frame make `apply` read it
again, and `Heard` which rows the page hears of by themselves: those of `Names` whose
changes the scope lets through. A topic page shows its topic's groups, the number of them
and the counts of the sidebar, and hears of none of these alone.
The bus is a queue per receiver with `lagged`. A page's read is asked, answered from
the tables there are, and shown; a frame that names something the page shows cancels
it and asks again, except that the first read of a page goes on (TanStack Query keeps
a fetch that has no data yet). `missed` records the two ways in which the design lets
a page stay out of date (see Remarks).

### GroupOffsets

A sweep's steps are separate actions up to its commit: retain, hot groups, take refresh,
due groups, one answer or failure per group, commit, publish, record. A group's offsets
are one value and its lag is that value. Instants are kept as ages in ticks and stop at
`Slow + Ttl`. A reset alters Kafka, takes a lease and settles as in `Lane`.

### ScanPlan, RecordQuery and RecordScan

`ScanPlan` translates `LogSpan` and `RecordBatch` into operators without recursion;
`NoCursor` stands for `None` where the code has an `Option<Cursor>`. `RecordQuery` makes a
query of a request: order, limit against the configured ones, a range of instants that
Kafka resolves to offsets (a partition the lookup leaves out keeps its marks, one whose
low alone is missing counts as empty), and the cursor in the form of its text, which the
next request brings back and which is refused when its version, order or shape do not fit.
`RecordScan` opens a span, makes passes, polls records of any partition in any order, ends
a pass when its windows are read or the deadline passed, and hands the cursor to the next
page. `delivered`, `repeated` and `partial` are history. The log is fixed while it is
read: a span holds the offsets there were when it opened, and `recs` may go on past `high`
by a record that arrived later and must not be returned. Limits may make a window of no
offsets, as `config/tuning.rs` allows. What a query selects is said of each record's own
timestamp (`Stamped`); that klens goes by offsets instead is what `HasEveryRecord` and
`scan_instants` are about.

### LiveTail

`Tail::next` step by step: begin, poll, screen and admit, skip ahead, heartbeat or
flush; then the stream's look at the session and the frame. The page is `useTail`
with its list (bounded by `TAIL_BUFFER`), badge, pause, clear and reconnect. A poll
brings records of several partitions in any interleaving that keeps each partition's
own order. Kinds of records say whether they match and whether the raw bytes tell,
because a poll's records go through two passes: those whose bytes tell are pushed at
once, and those whose payload must be decoded are pushed after all of them. A record
that a full batch turns away unread counts as skipped, and so does one that a better one
displaces later. The permit of `AppState::tails` is
shared with other tails. The wait that keeps frames apart is left out (a frame may be
flushed at any time), offsets have no gaps, and retention does not overtake the tail.

### ScanPool

A consumer is a position, a pause and a life. `Cancelled` and `AcquireDropped` are the
deadline or the browser dropping the page's future at an await. `Acquire`, `Park`,
`Expired` run under the pool's mutex and are single steps. Each page reads a window of
one partition.

### RecordValues

A document is a set of objects that map paths to words; a text is a form and the words a
search finds in it. A framed message is read with its writer's schema. One without a frame
may be read with a schema that the query chose, which gives the fields of a binary form
its own names (`Renamed`); the paths of a rule are those of the document as it was
decoded. The model keeps which words are where, and not how they are written: words are
whole, and the tokens that replace them (the mask, a hash per word) are no words, so that
a search whose match would arise only across a replaced text is below the abstraction. A
page takes a record through `screen`, the decoder (schema from its cache, from the
registry, or not to be had), the rule of its topic (fields, patterns, headers, key and
value whole, what to do with a value that does not decode), the filter, and rendering.
Other pages fill the caches and entries are evicted meanwhile; the registry fails and
recovers. A policy whose rules overlap does not load.

### Access and Sessions

A role has privileges and bindings of groups to clusters; `Access` resolves groups to
grants and refuses in the code's order (unknown cluster, forbidden, read-only).
`Sessions` has the store of session records, the users cached by subject with their
groups and expiry, the states of logins under way, and per browser what it holds open.
A request loads its record, compares the hash with that of the cached user and is
answered with the grants of that user; `own` remembers, as history, the rights of the
sign-in behind each session. A stream asks its guard for each event, an export before
each page; `late` counts what they got after their session had ended. With auth
disabled everybody has every right, and nothing ends.

### ToolCalls

Each tool is the sequence of checks and awaits of its handler, in the order of its lines:
cluster, writability, privilege, arguments, tables, payment, awaits. What tables hold is
an input of the call. An await may fail in every way its handler knows (`Failing`): a
payload that is not base64 or does not fit its schema, a query that is refused, a topic
that is gone by now; and a page of records may not fit the result (`Returned`), which is
found out last. The rest is the server: the gateway's secret, the permit of `call_tool`,
the limiter of live calls that refills, cancellation, which stops a call that reads and
not one that changes something, and a panic, which becomes an answer.

### The Admin modules and ClusterWrites

One area of the cluster is live in a behaviour. A handler runs up to its first await in
one step (`Submit` when it is refused, `Admitted` otherwise): access, body, and the tables
klens has, which may be older than the cluster. Configs, records and resets are of one
`topic`, which may be internal, missing, or listed with other partitions than it has
(`listed`, which `PollTopology` brings up to date), on a cluster that may be read-only.
Then it sends its request, each item of which is taken or refused on its own and whose
answer may be lost, and settles: polls until the predicate holds, or the timeout. Resets,
schema deletions, registrations and producing have stages of their own in between. `kafka`
holds the area in the form of the wire, and `Table` reads it back as the lanes do: ACL
patterns shifted by one on the way out and back, the parts of a quota's entity sorted by
their type (`SortByKey`), groups whose state could not be read, a level that shows as
NONE. A reset reads marks, commits and timestamps in separate steps and then commits its
moves. A deletion of schemas for good is a soft one and a hard one. Producing with a
schema fetches what it refers to, wave by wave, and orders it; the graphs of references
are a constant (`References`), any set of them, with shared, repeated and circular ones.
The ids of brokers are numbers in the code and a constant here, of which it is assumed
that none is one of the words that name the other levels of a config. `disturbed` records
that another client changed the area after klens had looked.

### StoreViews, Projections and Replies

One topic of up to two partitions and one group. In a behaviour either time passes over
the watermark lane (lows by interval, highs by poll, lookups that fail for some
partitions, samples, the idle heartbeat), or the tables of all lanes are filled and
replaced while tools load them, some of them twice, or a reply is cut: lists, and the
texts and headers of records, by bisection over the count, with the note that says so
taking bytes too. Sums (sizes, lags, totals) are numbers of units, `Sums`.

### SchemaIds

A subject whose versions are registered, deleted, and deleted for good, upon which numbers
start over. A schema that the registry has seen before, in a former life too, keeps its id
(`earlier` remembers which version had which). The subjects lane reads the versions, then
the schema of the latest one unless it knows it; the schema_ids lane confirms an id that
it holds and then reads those it lacks, one by one (`Added` puts what was read beside what
was kept).

## 3. Runs

All bounds are in the `.cfg` files and MC modules. Deadlock is checked in every run but
the last three.

| Run | Bounds | What it shows |
|---|---|---|
| `lane_settle` | 1 item, 1 writer, cache, fairness | `ArmedWake`, `RefreshPromise`, `ReadYourWrite`, `SettleEnds` |
| `followers` | 2 items, 1 follower; or a tail of 2 partitions, 2 records, 2 timestamps, kinds of records with and without a match, batch 1, backlog 1; fairness | `FollowerFresh`, refinement of `SnapshotFeed`, `FollowerCatchesUp`; `FrameIsNewest`, `FramesGoForward`, `EveryRecordCounted`, `EndedTailCloses` |
| `scan_pages` | page of 2, windows of 2; browsing both ways and turning back over small logs of two partitions with gaps and 2 timestamps, within instants; searching with 2 passes and a deadline at any moment | `StepsOverNothing`, `NothingTwice`, `HasEveryRecord`, `ReadEnds` |
| `scan_newest_timeout` | browsing downwards with a deadline | **violation**, finding 1 |
| `scan_marks_fail` | browsing, watermarks may fail | **violation**, finding 2 |
| `scan_instants` | browsing within instants, 3 timestamps | **violation**, finding 3 |
| `update_stream` | 1 topic, 1 group, 1 page of any scope with any of its queries, bus and wire of 1, 1 retry | `PageFresh` |
| `group_offsets` | 1 group that comes and goes, 1 stream, 1 reset, fast 1, slow 2, ttl 1, failures, fairness | `LagTold`, `WatchedIsRead`, `ResetShown` |
| `scan_pool` | 2 topics, 2 pages, 3 readers, 1 per topic, 2 in total, symmetric in all three | `OneOwner`, `ReadsItsWindow`, `IdleReaderCloses` |
| `sessions` | 2 browsers, 1 subject, 3 memberships, 3 sign-ins, 3 ticks; or 3 MCP clients, every tool, 2 grants, 2 reaches, 2 permits, 1 live call; symmetric in browsers and clients | `OwnRights`, `EndedSessionGetsNothing`; `ExplainedAsCalled`, `LiveCallsArePaid`, `ChangesAreAnswered` |
| `writes_reads` | 1 request of any kind with up to 2 items, 1 change by another client, 3 callers, 2 clusters of which 1 is read-only, 2 topics of which 1 is internal; or 1 record of 23 under 11 policies, 4 needles, none or one of 2 fallback schemas | `SettleCanEnd`, `OnlyWhatWasNamed`, `OkMeansTaken`, `ChangesAreAdmitted`, `ResetInLog`, `ReferencesFirst`; `NoSecretShown`, `FilterMatchesView`, `VerbatimReproduces` |
| `store_views` | 2 partitions, 2 brokers, 2 members, offsets to 2, 4 ticks, intervals of 2; 6 lists and 5 sets of records; 3 versions, 3 ids, 2 lives | `MarksAreRecent`, `ViewsTellTheTables`, `RepliesFit`; `IdsOfThisLife` |

Why the bounds are enough. *Lane*: items are independent of each other except for
`Gained`, which needs two; the interference between settles is pairwise (one takes the
flag or the permit the other left), and the theorems cover any number of them, while the
run adds liveness with one. *Scan*: with a window of two offsets, four offsets make a
first, a middle and a last page; two partitions make ties and interleavings; two
timestamps make them rise, fall and tie. *UpdateStream*: a bus of one place lags as soon
as two changes meet; streams do not interact. *GroupOffsets*: one holder of each kind
makes leases overlap and end in either order; groups do not interact. *LiveTail*: a batch
of one and a backlog of one make displacement and jumps happen. *ScanPool*: three readers
with one place per topic exercise both limits, eviction and reuse across two pages.
*Sessions*: two sessions of one subject are what the cache by subject confuses; a third
sign-in returns to the first membership. *ToolCalls*: calls meet in the permits and the
budget only, and three clients exceed two permits and one live call. *ClusterWrites*:
handlers keep no state between requests, so one request against another client is every
pair. *RecordValues*: records are independent except through the caches, which other pages
fill and empty. *StoreViews*: intervals of two ticks are due, not due, and overdue within
four. *SchemaIds*: two lives of up to three versions repeat version numbers, and three
ids, of which each life uses some, repeat ids at the same and at other numbers. Its
constraint leaves out what follows once `mixed` is set, of which nothing is said.

The three runs that check no deadlock end by design: time, requests or calls run out.

Each property has a mutant in `PROJECT.json`: a plausible mistake in the code, defined
next to the definition it replaces, under which TLC finds the property violated.

### Fairness

- `Lane!FairSpec`: tasks that can run do run (tokio schedules every ready task), and
  changes reach the brokers in the end. Nothing is assumed of the runner's and the
  followers' intervals, of `SETTLE`, of requests or of other clients, so `SettleEnds`
  and `FollowerCatchesUp` hold by kicks and commits alone.
- `GroupOffsets!FairSpec`: the lane's task and the requests run; nothing about time, so
  that no tier is what a reset waits for. `ResetShown` excepts a group that keeps
  leaving, one whose consumers write over the reset, and reads that keep failing.
- `RecordScan!Spec` has weak fairness of its only process, the request; the deadline is
  just one of the steps it may take.
- `LiveTail!FairTail`: the server's task runs (`poll` returns within `poll_wait`), and
  the page takes what is sent to it.

`ScanPool` needs no fairness: its ticker fires on time, once every `pool_idle_ttl`, and
`IdleReaderCloses` is the bound that follows. Neither do the last three runs: what has
to happen there is stated of the steps that make it happen (`SettleCanEnd` says that a
settle's predicate holds of what a poll reads back; that the poll comes is `SettleEnds`).

## 4. Findings

1. **A page walked downwards can lose records when its deadline passes**
   (`scan_newest_timeout`, `kafka/scan/plan.rs:101`). A window is read upwards even on a
   walk to older records. If the batch is full when the deadline cuts the pass,
   `advance` moves the partition's cursor to the lowest kept offset although the newer
   rest of the window was not read, and the records of the rest are behind the cursor
   for good. `session.rs:269` says the cursor "never steps over a record the page left
   out". Upwards (`scan_pages`) the same cut is harmless.
2. **A partition without watermarks disappears from a walk** (`scan_marks_fail`,
   `kafka/scan/read.rs:121`). Kafka's failure to answer for a partition leaves it out of
   the span and of every later cursor, and the walk or export ends without an error;
   the HTTP reference says that an export "reads every record that matches the query".

3. **A range of instants is a range of offsets** (`scan_instants`,
   `kafka/scan/plan.rs:180`). `from` and `to` are resolved with Kafka's first offset at or
   after an instant, and no record is compared with them afterwards. Where a partition's
   timestamps fall, a record stamped before `from` is returned after one that is not, and
   one stamped within the range is left out after one past `to`. The HTTP reference
   (`http-api.mdx:88-89`) and the tool's arguments (`mcp/tools/records.rs:49-52`) say that
   they keep the records *stamped* at or after, or at or before. `HasEveryRecord` states
   these two exceptions and no other.

### Remarks: what holds only in part, by design

- A settle tests the table before it polls. A table from before somebody else changed the
  item can already look like the change, and the settle ends on it (`claim = "masked"`; a
  topic deleted elsewhere and created again here).
- A settle reads `last_error` after it was woken: an error that a later poll cleared in
  between is not seen, and the settle goes on, which is harmless.
- A partial page may return records that a later page returns again (`NothingTwice` allows
  only these); the page says that it is not complete.
- Opening or reopening an update stream does not make the page read again. Changes
  published while there was no stream, and one that overtakes the answer of a page's first
  read, stay unseen until the query is stale and mounted again.
- A stream scoped to a topic or a group drops a frame that names neither
  (`updates.rs:89-98`), while a topic page also shows the topic's groups
  (`topic-page.tsx:91`), the number of them and, as every page, the sidebar's counts. A
  change of a group alone leaves these as they are until another row of the page changes;
  `how-klens-reads-kafka.mdx:36` says that klens sends a frame when a lane commits a
  change. `PageFresh` is about the rows of `Heard`.
- `RecvError::Lagged` is answered with `Resync` without a look at the session. The frame
  has no content.
- `hot_groups` is read before `take_refresh`, so a reset's flag can be used up by a sweep
  that does not yet see its lease; the settle asks again after its backoff.
- Records that retention removes before the tail reads them, and records produced while
  the page reconnects, are not counted as skipped. A frame made of skipped records only (a
  heartbeat) does not count as a flush, so the next frame may follow it sooner than
  `tail.interval`.
- An acquire dropped by the deadline leaves its reader to `Drop` instead of `retire`. A
  lease that was cancelled in the middle of an assign or a poll is parked as reusable,
  which is sound because the next `assign` redoes everything (`ReadsItsWindow`). The sweep
  has the period of the ttl, so an idle reader may stay for nearly twice as long.
- A stream gets nothing after its session ended; an export may get the one page that it
  was reading (`EndedSessionGetsNothing`). A second sign-in of a subject with other groups
  ends the subject's other sessions, because their hash no longer fits.
- A record window of 0, which `configuration.mdx:238` and `config/tuning.rs:104` allow,
  makes windows of no offsets: a page reads nothing and has no next cursor
  (`HasEveryRecord` is about a positive `take`).
- The hint of UNENCODABLE and UNKNOWN_SCHEMA names klens_schema_get (`refusal.rs:119`),
  which a grant of writes alone does not offer. A payload that is not base64
  (`mcp/tools/records.rs:198-206`) and a page that does not fit the result (236) are
  refused after their live call was paid for. `ExplainedAsCalled` and `LiveCallsArePaid`
  except these and no others.
- The fields of a rule are names in the decoded document. For a message without a frame
  the reader may choose the schema it is decoded with, and so the names;
  `obfuscation.mdx:26` says that field rules know exactly where the data is.
  `NoSecretShown` is stated of the document as decoded.
- MCP tools load some tables more than once in a call (`mcp/tools/topics.rs:164-198`,
  `mcp/tools/clusters.rs:251`). A first table that arrives between the loads lets a reply
  tell 0 where the server's instructions (`mcp/server.rs:70`) promise null;
  `ViewsTellTheTables` holds what a tool joins of two loads only when both are the same.
- A partition whose low lookup failed in a full reading shows its high as its low, and
  keeps it until the next full reading. A poll that finds none of a topic's high
  watermarks takes no sample of it and keeps the rate (`watermarks.rs:205-241`,
  `rates.rs:31-34`), so that a topic without marks may show a rate for ever;
  `MarksAreRecent` speaks of topics with marks. A watermark poll that began with an older
  topology can put back the rate of a topic that is gone.
- `kafka/registry.rs:112` says that the registry does not change the schema behind a
  version. After a permanent deletion and new registrations that reach the same latest
  number it does, and the subjects lane keeps the former schema's id until the number
  changes; one poll can also see two lives. `IdsOfThisLife` excepts both (`mixed`).
- A registry gives the same schema the same id in every life of a subject. If a later
  version has the same id in both lives, confirming it (`schema_ids.rs:58-73`) keeps the
  ids of the former life for the versions before it (`Unnoticed`), until the subject's
  versions change in a way that the confirmation notices.
- A permanent deletion whose hard half fails leaves a soft-deleted version, which the next
  poll takes out of the table, so it cannot be asked for again. If another client finished
  it meanwhile, klens answers UNKNOWN_SUBJECT although it deleted softly.
- A subject whose load failed is left out of the table until a later poll; a level that
  could not be read shows as NONE.
- The registry takes a level for a subject that was deleted meanwhile, which no table will
  show: the settle ends by its timeout.
- A group whose state could not be described counts as running for a reset and a deletion,
  and offsets of it may still be asked to be deleted; Kafka decides.

## 5. Proofs

Each `*Proofs` module extends the modules it is about and proves its results with TLAPS
for every value of the constants: any sets of items, pages, topics, partitions, readers,
browsers, clients and groups, any logs, records, rules and graphs of references, any
capacities, limits and bounds. The hypotheses are the `ASSUME`s of the modules, which TLC
evaluates in the runs: sizes, limits and bounds are natural numbers (positive where a
limit of zero is refused at start-up), partitions and brokers are finite sets, subsets are
subsets, and the value that stands for "nothing" is none of the values it is told apart
from. Only the theorems about pages have two more, and each of them is what one of the
first two findings is about: watermarks are answered (`~MarksFail`; without it
`scan_marks_fail` loses a partition), and, for completeness alone, no pass that walks down
the log is cut by its deadline (`[]CutOnlyUpwards`; without it `scan_newest_timeout` steps
over a record).

All of them have the same layout: an inductive invariant in named parts, one lemma per
action that says the action keeps it, lemmas about the operators the actions use, and
the theorems, which follow from the invariant. Each invariant was checked with TLC on
the instance of its run before it was proved.

| Module | Theorem | What it states |
|---|---|---|
| `LaneProofs` | `TypeCorrect` | `TypeOK` with `RunnerInv` |
| | `NoLostWakeup` | `ArmedWake` |
| | `RefreshKept` | `RefreshPromise` |
| | `ReadyHasTable` | `ReadyServes`: a lane that is ready has a table |
| | `NoMissedCommit` | `FollowerFresh` |
| | `WritesStayVisible` | `ReadYourWrite` |
| | `LaneImplementsFeed` | `FeedImplemented`, the refinement |
| | `TableNeverDropped` | `TableKept`: no step takes a table away |
| | `KeptIdsAreOfThisLife` | `IdsOfThisLife` (of steps) |
| `UpdateStreamProofs` | `StreamsAreSound` | `StreamInv`, below |
| | `StreamsStayBounded` | `TypeOK`: queues, wires and attempts stay in their bounds |
| | `PagesStayFresh` | `PageFresh` |
| `GroupOffsetsProofs` | `OffsetsAreSound` | `OffsetInv`, below |
| | `HeldIsOfInterest` | a group that is held is of interest and hot |
| | `LagsAreTold` | `LagTold` |
| | `WatchedGroupsAreRead` | `WatchedIsRead` (of steps) |
| `ScanPoolProofs` | `PoolIsSound` | `PoolInv`, below |
| | `PoolStaysInLimits` | `TypeOK`: never more than `pool_total` and `pool_per_topic` |
| | `ReaderHasOneOwner` | `OneOwner` |
| | `NoReaderIsLost` | a reader that is open is with a page or in the pool |
| | `PagesReadTheirWindow` | `ReadsItsWindow` |
| | `IdleReadersClose` | `IdleReaderCloses` |
| `AccessProofs` | `SessionsSafe` | `SessionsInv`, below |
| | `RequestsRunAsTheirSignIn` | `OwnRights` |
| | `ReadersStopWithTheirSession` | `EndedSessionGetsNothing` |
| | `CallsAreSound` | `ToolsInv`, below |
| | `LiveCallsPaid` | `LiveCallsArePaid` |
| | `ChangesAnswered` | `ChangesAreAnswered` |
| | `ExplanationsHold` | `ExplainedAsCalled` |
| `ClusterWritesProofs` | `WritesAreSound` | `WritesInv`, below |
| | `SuccessMeansTaken` | `OkMeansTaken` |
| | `ResetsStayInLog` | `ResetInLog` |
| | `WritesAreAdmitted` | `ChangesAreAdmitted` (of steps) |
| | `WritesTouchTheNamed` | `OnlyWhatWasNamed` (of steps) |
| | `SchemasComeInOrder` | `ReferencesFirst` |
| | `SettlesCanEnd` | `SettleCanEnd` |
| `RecordScanProofs` | `PagesGoForward` | `PagesInv`, below |
| | `PagesReturnNothingTwice` | `NothingTwice` |
| | `PagesStepOverNothing` | `StepsOverNothing`, unless a walk downwards is cut |
| | `ReadsHaveEveryRecord` | `HasEveryRecord`, likewise |
| | `TailIsSound` | `TailInv`, below |
| | `TailStaysInLimits` | `TailTyped`: batch, wire, list and permits stay in their limits |
| | `FramesAreNewest` | `FrameIsNewest` |
| | `PagesGetNothingTwice` | `FramesGoForward` |
| | `TailCountsEveryRecord` | `EveryRecordCounted` |
| `ViewsProofs` | `MarksStayRecent` | `MarksAreRecent` |
| | `RepliesAlwaysFit` | `RepliesFit` |
| | `ViewsAlwaysTellTheTables` | `ViewsTellTheTables` |
| | `RulesAlwaysHold` | `NoSecretShown` |
| | `FilterAgreesWithPage` | `FilterMatchesView` |
| | `VerbatimIsVerbatim` | `VerbatimReproduces` |

### The arguments

**Lane.**

- `RunnerInv` ties the runner's locals to the shared state at each of its steps: a
  cached read has a previous table to start from, between the store and the publication
  the table is what was fetched and the bus still tells the previous one, and at all
  other times the bus tells the table. `TypeOK` is not inductive without it.
- `ArmedWake` is inductive together with `FlagInv`, which says the same of the refresh
  flag but from the step before the kick on: `RefreshPromise` alone forgets the writer
  that has raised the flag and not kicked yet.
- `FollowerFresh` is inductive over the types: marking before loading means that a
  commit after the load always leaves something unseen.
- `ReadYourWrite` needs `WriteInv`: for a genuine change, a table that shows it
  (committed or about to be) was read after the change reached the brokers, hence every
  later read, cached or not, shows it too.
- The refinement maps `view` to `table` and `told` to `published`; the store is the
  abstract commit, the publication the abstract publish, all else stutters.

**SchemaIds.** Ids alone do not tell lives apart, as a schema keeps its id, so the
invariant speaks of pairs: within one life a number stands for one schema (`Own`), and
`earlier` has the pairs of the lives before. A table that klens keeps is `Kept`, every id
its own or `Unnoticed`, or else `Former`, all of it from lives before. A confirmed id that
is a pair of this life makes a `Former` table a `Kept` one, with that pair as the later
version that `Unnoticed` asks for. A row put together from two lives is what `mixed`
records.

**UpdateStream.** `PageFresh` speaks of a page with nothing on its way, and no step can be
reasoned about from there: the invariant is `Owed`, a debt per row. A row the page hears
of, and that an informed page has read otherwise than the store has it is not published
yet, or named in the receiver's queue or on the wire, or covered by the mark that the
receiver lagged. Commits create debts, a publication turns each into a queued change or
into the mark, a frame that reaches the page turns it into a read that has not ended.
`Owed` needs to know what the page *has* read (an answer that is not shown yet counts),
and `Bounded`: an error is the last frame of its stream, so nothing owed is behind it.

**GroupOffsets.** `Counted` says that the number of leases is the number of holders;
`leases > 0` alone is lost by the first of two holders that lets go. `SeenHot` carries
what was held when the sweep looked through the next two steps, to where the due groups
are chosen. `LagTold` needs `Published` and `Shows`, which follow what was published
through the sweeps in which a group was not read, failed, or was out of the topology.

**ScanPool.** `Places` gives every reader its one place: with a page, in the queue once,
or closed. A double release is harmless because the second one finds the lease empty,
and that is a fact about places. `IdleReaderCloses` needs `Ages`: the queue is in the
order of parking, also after one was taken out of its middle, so the sweep that stops at
the first young entry leaves no old one behind. `Follows` ties the position, the pause
and the window of a reader to the stage of its page, and says nothing of a parked one,
whose leftovers `assign` has to overwrite.

**Sessions.** `OwnRights` compares the rights of a request with those of a sign-in that
may be long past. The invariant is `RecordsFit`: a record that is still in the store has
the hash and the end of the sign-in behind its id. A cached user with the same hash is
then that sign-in's user, as the hash covers the groups (`HashTellsApart`); this is where
leaving the groups out of the hash would fail.

**ToolCalls.** `CallInv` is stated of one call, from its tool, its arguments and its place
in the list of checks and awaits, and holds of every call whatever the others do: calls
meet in permits and budget only. `HandlersInOrder` says of every handler's steps that the
payment is before the first read of Kafka, after every check of rights and arguments that
comes before an await, and that no check that refuses comes after a change. `Awry` and
`OfSchemas` are the answers that only awaits give, which is where the two refusals after
the payment and the hint to klens_schema_get come from.

**ClusterWrites.** A handler checks, then reads, then sends, and each of the properties
speaks of the last with the words of the first. `Underway` carries the outcome of the
checks to the stage that sends: the caller may, the cluster is writable, the topic is not
internal (`KnownFits`, `ListedFits`: whatever partitions the table lists, it tells
internal topics apart, and that does not change with its age), the ACL is one the wire can
carry. `Taken` is what Kafka has taken by stage; for a deletion for good it says that a
soft version is left unless another client changed the subject, which makes an answer of
"unknown" honest. `Planning` is the reset: what it has read is older than the log by now,
and the log has only moved on (`Onward`), so that an instant's offset found later, clamped
with the earlier watermarks, is not past the first record of that instant (`PlaceClamps`).
`TakeTouches` compares, for each area, what Kafka makes of the request with what it named,
for every choice of the items it takes.

`SettleCanEnd` joins two ends of a handler: what the request makes of the cluster, and
the predicate over what is read back from it. `SettleInv` adds to `WritesInv` what a
request looks like when its handler sends it (`Formed`), what the cluster stores
(`Stores`), and what a handler prepared (`Prepared`: offsets to delete are those there
are, a version about to be deleted for good is not live). Then one lemma per operation:
of the levels that set a config `describe` answers with the most specific, so an edit
shows there or under a more specific one, and a reset level is not the source
(`EditShows`); an ACL comes back through the shifted codes, and no other row comes back
as it (`AclsComeBack`, `DeletedAclsGone`); the parts of a quota's entity are sorted both
by the request and by the reader, so the row is found (`PartsComeBack`); the version that
a registration looked up is among the live ones (`RegisteredShows`); and marking versions
never makes one live (`MarkedLive`).

`ReferencesFirst` is about a depth-first walk with an explicit stack, over a graph of any
size. `Ordering` says: a leave on the stack waits for what is above it, all of which is
reached from its schema (`AboveIsReached`); a schema that was entered is ordered or has
its leave on the stack, exactly once (`EachOnce`); and what a schema refers to is ordered,
or above its leave, or the graph has a circle (`LeavesLast`). Skipping a schema that was
entered is right because its leave, if it is below, would close a circle.

**RecordScan.** `Scanning` says that the batch is the best, by rank, of what was pushed,
whatever the order of arrival. The ranking timestamps of a window never fall, so that a
partition's share of the batch is consecutive, and `advance` or `rewind` can be told by
one offset what was kept; `PagesInv` says that the cursor is exactly there, that all that
was returned is behind it, and that the text of a cursor brings back the cursor.
Completeness (`Returned`) adds that all that is asked for and behind the cursor was
returned. Instants enter in one place: the first offset at or after an instant is a bound
(`Bounds`, `Since`) that a record is behind exactly when some record up to it was stamped
there, which is what the two exceptions of `HasEveryRecord` say. For a walk downwards that
is cut this fails at one step, `advance` after a cut,
which is finding 1.

**LiveTail.** `Sampled` says that the batch is the best of the records that matched in
this `next()`, through both passes: a record that is turned away ranks behind the worst of
a full batch, and what is pushed later only raises that. `Shown` and `Wired` keep the pool
ahead of the page's list and behind the reader's position, over pauses, jumps and
reconnects. `Counted` adds up four kinds of records over all partitions; as sums are
cardinalities of sets of records the books balance by disjointness, and a heartbeat loses
none because nothing is seen while the batch is empty.

**Watermarks.** `LowsRead`: the lows of the lane's table, and those that a cached reading
starts from, were read at or after the last full reading; and `stale` makes a full reading
due before the interval is over. `RateInv`: a rate above 0 needs
a record produced since the sample began, and a sample is at most `max_sample_gap` long;
a high above the one of the table, found by a reading or not yet, is of a record produced
since the last commit, and polls commit at least once per `idle_heartbeat`.

**Replies.** The bytes of a cut grow with the cut, up to but not including the whole,
which has no note. Nothing longer than the result fits, so the halving has a cut that fits
and one that does not to start from, and each half keeps such a pair (`SearchFinds`, by
induction on the distance of the two). An attempt at this proof showed that the model had
not weighed the headers of records, which the code counts; it does now.

**Views.** Totals and sums of rows are compared as sets of units, by injections between
them. That at most one member is named for a lag follows from owners that share no
partition: two of them cannot both have most of it. `CallInv` says what a tool has loaded,
and that what it made of it was made of one table; where it loads another one, the
property asks that the two be the same.

**RecordValues.** A policy that loads has at most one rule for a topic, since patterns
that match a common topic overlap. From there the proof follows the pipeline: what the
rule hides is no word of the document after it, whichever fields and patterns it has, by
an induction over the sets of fields that were visited; which schema decoded it, from a
cache, the registry or the query, does not matter, as the rule comes after it and goes by
the names it gave (`ReadWords`: renaming moves words and makes none); and the verdict on
the bytes is used only where the page shows these bytes.

### What the proofs changed

- `OnlyWhatWasNamed`: once the last version of a subject is deleted for good its numbers
  start over, so the versions that had been deleted for good before are gone from the
  registry with it. They are no versions any more, and `Untouched` leaves them out; TLC
  shows the difference with three changes by other clients, which the run's bound does
  not reach.
- `Replies` ignored the headers of records, which take bytes of the result. A poll of
  `LiveTail` is any interleaving of its partitions, taken in two passes as in the code.
- Sums, sorting and reachability are defined by sets, functions and `CHOOSE` rather than
  by recursion, so that they can be reasoned about.

### Model-checked only

- Liveness (`SettleEnds`, `FollowerCatchesUp`, `ResetShown`, `ReadEnds`,
  `EndedTailCloses`): fairness and `ENABLED` are beyond the prover's temporal backend.
- That a walk downwards loses nothing when it is *not* cut is proved; that it may when it
  is, that a read without watermarks may end early, and that a range of instants is not
  one of stamps, is what the three violation runs show.

## 6. Not modelled

- Kafka's transport, search ranking, health, configuration, the server's layers and
  start-up, the UI's pages, the chart: no state or order of events of their own, or calls
  to libraries.
- Byte codecs (Avro, Protobuf, JSON schema), regular expressions and hashes of the
  obfuscation, the texts of MCP replies: functions on bytes and text. The models keep
  which words are where and which steps fail.
- Lags and rates carried by value in frames of the update stream, and the browser's
  patches of them.
- Deltas between tables, other than whether and by which names something changed.
- The interval that keeps frames of a tail apart, retention under an open tail, and what
  the krafka library does with a consumer that is dropped rather than closed.
- Tokens of the identity provider: an exchange is accepted, with a subject, groups and
  an expiry, or it fails. Cookies and CSRF states are model values.

## 7. State of the project

The lane, the update stream, the offsets lane, record queries and pages, the live tail,
the reader pool, record values, sessions and access, MCP calls, all writes, the registry's
ids, watermarks, projections and replies are modelled and checked. Every invariant and
every property of steps that a passing run checks is also a theorem. What is left:

1. The values that frames of the update stream carry (lags, rates) and the browser's
   patches of them.
2. Retention and gaps in the offsets under an open tail.
3. More of the conversions in `kafka/client.rs` and `kafka/registry/decode.rs`, where they
   can fail in part.
4. When the findings are fixed in the code: `CutOnlyUpwards` and `~MarksFail` are to be
   taken out of the theorems about pages and the exceptions out of `HasEveryRecord`, and
   the three violation runs become passing ones.
