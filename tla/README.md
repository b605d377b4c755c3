# icb, modelled and proved in TLA+

icb (interactivecodebase) analyzes a Go or Scala project into a graph of routes,
call flows, SQL and tables, and serves it: as a web UI and JSON API over HTTP, and
to agents over MCP. `icb serve -watch` re-analyzes when files change and swaps the
new analysis in under the requests being served; one gopls process, shared by all
requests, answers hover and reference queries.

This directory holds TLA+ models of the parts of icb in which something can go wrong
that a unit test hardly reaches, the TLC configurations that check them on small
instances, and TLAPS proofs about them. `PROJECT.json` lists the components, the runs,
the mutants (each property is shown to fail for a plausible bug), what source lines
every definition models, the hazards and the findings.

There are two halves. The concurrent half (Live, Watch, Serve, Lsp) models goroutines,
locks, timers and processes. The analyzing half models icb's static analysis as
operators and then *executes the analyzed programs*: what the analysis says of a program
is compared with what each of its executions does. That is the property a static
analysis promises, and one that tests with golden files cannot state.

## The system

| Part (source) | State | Operations | What makes it correct | Module |
|---|---|---|---|---|
| current analysis (`internal/live/live.go`) | the analysis, its release function and generation (`mu`), status and subscribers (`statusMu`), `reanalyzing` | With, Reanalyze, Close, Subscribe, Status, Generation | an analysis is valid while used, released once, never lost; status and streams follow the swaps; nobody waits for ever | `Holder`, `Live`, `LiveProofs` |
| event streams (`internal/server/live.go`) | a channel of one status per client | subscribe, write, unsubscribe | a client never goes back, and ends up with the current status | `Live` |
| watcher (`internal/watch/watch.go`) | last snapshot, pending paths, `settleAt`, `nextScan`, the ticker | Run | no change is forgotten, each is reported once quiet, and in time | `Watch`, `ServeProofs` |
| serve (`internal/cli/serve.go`), openLive (`internal/cli/mcp.go`) | who analyzes | analyze, watch, re-analyze | the analysis served catches up with the files, or its failure shows | `Serve`, `ServeProofs` |
| gopls client (`internal/lsp/lsp.go`) | connection, `startMu`, per connection the pending calls and opened files | requests, Close, the reader goroutine | a call gets its own answer or an error, and always one of them; one gopls, it is stopped | `Exchange`, `Lsp`, `LspProofs` |
| schema (`internal/sqlparse/schema.go`) | tables, columns, keys | Apply: CREATE, ALTER, DROP, RENAME | equals the database's after the same statements | `Postgres`, `Schema`, `SchemaProofs` |
| queries (`sqlparse/query.go`, `parse.go`), gorm chains (`dataaccess.go`) | none | Query, gormSink, analyzeQueries | every table a statement touches is found, a write as a write | `Queries` |
| flows (`internal/flow`) | what was expanded, what leads to a sink | Build | every sink reached is shown, only paths to sinks are kept, references lead somewhere | `Flow`, `FlowProofs` |
| graph store (`internal/graph`) | SQLite tables | Write, Import, Neighbors, Paths | paths are shortest, simple and complete | `Store`, `ServedProofs` |
| access levels, methods (`auth.go`, `methods.go`) | guards, functions that work | classify, methodScopes | a route's guard runs before its work; a block is shown for each method that reaches it | `Methods`, `Auth`, `Requests`, `RequestsProofs` |
| graph build (`build.go`, `sinks.go`, `linksql.go`) | nodes and edges written | write, LinkSQL | what a request does is in the graph | `Build`, `Served`, `ServedProofs` |
| values, routes, routers (`values.go`, `routes.go`, `routers.go`) | scopes remembered, values at work | strings, discoverRoutes | every route served is shown, with the middleware that runs | `Values`, `Routers`, `Routing` |
| entry points (`entrypoints.go`) | none | discoverEntryPoints, addEntries | every worker, job, subscription, command and RPC method is shown | `Entrypoints`, `Startup` |
| pages, templates, navigation (`internal/analysis`) | none | parse templates, match links | | not modelled |
| migration files (`sqlparse/migrations.go`) | none | which files in which order | order of versions | not modelled |
| Scala analysis (`internal/scala`, `extractors/scala`) | the sbt server | compile, extract, import, shutdown | the sbt server icb started is stopped, no other is | `Store.Import` has the document; not modelled otherwise |
| API, MCP tools, diagrams, CLI, config, UI | a cache per analysis | read the graph, format | mostly stateless translation | callers of With in `Live`; not modelled otherwise |

How they interact: HTTP handlers and MCP tools run inside `Current.With` (read lock).
The watcher's callback and the MCP tool `reanalyze` call `Current.Reanalyze`, which
analyzes outside the lock, takes the write lock to swap, and publishes the status to
the streams through channels of capacity one. HTTP and MCP share one `lsp.Client`,
whose slow answers are awaited inside `With`. Migrations are parsed into a `Schema`
during each analysis, which `writeSchema` turns into graph nodes and edges. An analysis
evaluates strings (Values), finds routes (Routers) and entry points (Entrypoints), sinks
and their SQL (Queries), classifies access (Auth), and writes all of it into the graph
(Build, Store), from which flows are built on request (Flow). Scala projects, and what
other extractors write, come in through Import and LinkSQL instead.

Hard behaviours, listed with their lines as "hazards" in `PROJECT.json`: swaps under
readers, Close during an analysis, dropped statuses, queueing re-analyses (Live); ticks
that are stale when handled, edits during a scan or a callback (Watch, Serve); gopls
dying, answering late or never, reading nothing, racing starts and Close (Lsp); names
reused after renames and drops (Schema); memories that are read while they are being
filled (Flow, Routers); limits on depth and number (Flow, Values); branches on the
method between other branches and guards on only some paths (Requests); middleware that
counts from another moment on in each library (Routing); results that depend on where
in the source a function stands (Entrypoints).

## Modules

**Holder** is the promise of `internal/live` without its locks: callers use the current
analysis, it is replaced when nobody uses it, and one that is neither current nor used
is retired once.

**Live** is the code: one action per step between two synchronization points. `pc`
holds where each goroutine is. Readers are requests in `With`; analyzers call
Reanalyze and then, as the MCP tool does, With; closers call Close; streams are
`/api/events` handlers. sync.RWMutex is modelled by what Go documents: a writer that
announced itself (`writer`) keeps new readers out and on Unlock lets in those that
queued. An analysis is the number it was made as, 0 is nil. A Status keeps its
generation, Analyzing and whether it has an error. Reanalyze without an AnalyzeFunc is
left out: openLive always gives one.

**Watch** is the loop of `watch.Run` in discrete time. Times are relative to the clock,
a tick in the ticker's channel has an age, a scan looks at the files one after the other
while they change. A snapshot is kept as what it tells: which files differ from the last
one. Time does not pass during a scan (`MaxLag = 0`: the loop takes a tick at once); it
does during the callback, up to `MaxBusy`. The end of ctx is not modelled.

**Serve** extends Watch with the analyses: each reads every file at a moment of its own;
`stale` holds the files that changed since the served analysis read them. The first
analysis runs before the watcher's first snapshot, as in runServe; the reanalyze tool
may ask for one at any time; a re-analysis may fail.

**Exchange** is the promise of `internal/lsp` without ids, pipes, locks and reader
goroutines: a call goes to one process, which answers it after it has read it; the caller
is given that answer or an error, once, and never the answer of another call, nor a late
one to its own earlier call; when a process is known to be gone, no call to it is left that
nobody will tell. It promises nothing of time: that a call ends at all is RequestsReturn's.

**Lsp** has the processes of gopls with their pipes, the connections with `pending`,
`opened`, `closed`, the reader goroutine of each, and the goroutines that make requests
or close the client. A call is registered, written (while the pipe has room: send has no
deadline), answered, hung up by fail, or timed out. Taking `startMu` and looking at the
connection is one step, since only its holder sets `c.conn` to something; what `start`
and `positionRequest` do after an error without touching shared state is part of the
failing step. gopls, external, reads its input in order, answers in any order or never,
may make a request of its own, may not exit when told to, and may die at any time. How far
a call has come is read off where its id is (`Phase`): in the pipe to gopls, among the
answers, in the reader's hand; and off its channel. With that for Exchange's `call`, Lsp
implements Exchange.

**Postgres** is what the database does (external): tables and columns keep their
identity when renamed, constraints get generated names, CASCADE takes foreign keys
along. **Schema** executes every statement there and applies it to icb's Schema, a step
per statement or per command of an ALTER TABLE, in the order written (PostgreSQL takes the
drops of one ALTER first). `beyond` records which of the statements did something Schema
does not look at; `line` is where the last foreign key was added, so that the keys of one
CREATE, and those of commands and statements on one line, have one position. `Added` is
what writeSchema hands to AddEdge, `Shown` the edges that the unique key of the table of
edges leaves of it, `Shows` the columns each may have. Left out: CREATE TABLE AS and LIKE,
SET SCHEMA and schema-qualified names, keys of several columns, a second unnamed key on one
column, a name for the primary key of a CREATE, `ADD COLUMN ... PRIMARY KEY` that refers to
its own table; types, NOT NULL, indexes (shown nowhere) and the order of columns.

**Methods** and **Auth** are the operators of methods.go and auth.go over functions given
as basic blocks with calls and one condition each. **Requests** executes such a program:
a request with any method is called through the route's middleware to its handler,
guards pass or fail, conditions that analysis cannot read go both ways. `Searched` is
consults' search for guards as the code makes it, depth first with its memory and its
limit (`MaxConsults`). A call hands on the request wherever its callee takes one:
passesRequest is not looked at.

**Store** is the graph as records, **Flow** the expansion of a route's flow, an action
per turn of expand's loop, **Build** the writing of the graph from a program: what is
written of a function, a call or a sink is a sequence of nodes and edges (`AddFunc`,
`AddCalls`, `AddSinks`, ...), which Store's `Write` adds one after the other. **Queries** has
the tables of statements and gorm chains. **Served** composes them: it analyzes a
program, builds the flow of its route for a method, and then lets Requests execute the
program against that flow. It also imports the graphs that other extractors write. A
program of Served has, for each of its sinks, the uses of tables that Queries finds in what
the sink is given and those it may touch when it runs; `MCServed` computes both with
Queries. What Queries says of every statement that MCServed gives is the assumption
`AllFound` there, which TLC evaluates.
**Reach** has reachability, which the others share. Flow's own specification, `FlowSpec`,
builds the flow of any route or entry point of any graph with any options; Served's
is that of the graphs its programs and documents give.

**Values** evaluates strings, **Routers** finds routes, over programs that are short
sequences of instructions. **Routing** executes these on models of net/http, chi, gin,
echo and gorilla/mux, which record what is served and behind which middleware. The evaluator
leaves out some strings on purpose: the empty result of a function that also returns others
(`dropEmpty`), what is stored in a variable outside its package initializer
(`globalStores`), what a closure stores in a variable it captures, and that one's zero value.
Each text in a running program therefore knows whether it is made of such strings (`seen`):
`StringsCovered` is about the others, and `RoutesFound` and `EntryPointsFound` about programs
that give the libraries no other (`~blind`). os.Getenv, assignments to elements of a slice and
slices of arrays are not in the models.
**Entrypoints** finds workers, jobs, consumers, commands and RPC methods; **Startup**
executes go statements, calls through tables of jobs, subscriptions, cobra and gRPC
registrations. The libraries are external: their semantics are what icb's comments,
tests and fixtures say of them.

The inductive invariants stand at the end of the modules they are about, or in the
proof module where they need more definitions than the model has. The proof modules
(`LiveProofs`, `LspProofs`, `ServeProofs`, `SchemaProofs`, `ReachProofs`, `RequestsProofs`,
`FlowProofs`, `ServedProofs`) extend them and hold nothing but lemmas, theorems and the
words they are stated in.

`MC*.tla` and `MC*.cfg` instantiate the modules. Next to the operations stand *faulty
variants*, which no specification uses: PROJECT.json's mutants put one in the place of
its operation and each run's property must then fail.

## Runs

| Run | Module, cfg | Shows | Bounds |
|---|---|---|---|
| live_safety | MCLive | ValidWhileUsed, OneOwner, GenerationNamesCurrent, NoticeAfterSwap, AnalyzingWhileAtWork, QuietStreamIsCurrent, ReportsOwnOrNewer, StreamGoesForward; refinement of Holder | 2 readers, 2 analyzers, 1 closer, 1 stream, 3 analyses |
| live_returns | MCLiveReturns | ReaderGetsIn, ReanalyzeReturns, CloseReturns | 1 reader, 2 analyzers, 1 closer, 3 analyses |
| live_streams | MCLiveStreams | StreamCatchesUp | 2 analyzers, 1 stream, 2 analyses |
| serve_watch | MCServe | ReportedInTime, NoChangeForgotten, QuietBeforeReport, ServesChanges | Go defaults with 4 units a second, 2 files, 2 edits, callback up to 5 units |
| lsp_safety | MCLsp | NoneRegisteredForEver, OneGopls | 2 callers, 1 closer, 2 gopls processes, 2 requests, 1 request of gopls, pipe of 1 message |
| lsp_returns | MCLspReturns | RequestsReturn, CloseStops; refinement of Exchange | 1 gopls process and no request of its own, else as above |
| lsp_hung | MCLspHung | *violated:* RequestsReturn when gopls stops reading | as lsp_returns |
| schema | MCSchema | TablesAgree, NoForeignKeyLost, KeysAgree | 4 statements or commands, 2 table names, 2 column names, 1 constraint name; up to 2 foreign keys, unnamed, in a CREATE |
| requests | MCRequests | RunsAsScoped, GuardedFirst, DeniedWithoutWork, PublicAsksNobody | all handlers of four blocks made of the calls and conditions given there, handlers with three comparisons of the method, with calls of interfaces, with guards up to 4 calls below; 4 kinds of middleware; MaxConsults 2; 5 frames |
| flows | MCServed | SinksShown, KeptLeadsToSink, RefsExpanded, CallsCounted, ExecutedIsShown, PathsComplete | all graphs of 5 nodes with up to 4 calls, MaxDepth 2, 3 and 16, three pruning levels; programs of three functions; 4 frames; paths of 3 edges |
| routing | MCRouting | StringsCovered, RoutesFound, MiddlewareShown, GuardsRun, EntryPointsFound | 4798 programs: all sequences of up to 4 library calls (3 with gin), callbacks, mounts, helpers, variables, captured variables, error paths, patterns, jobs, commands; 2 branches |
| jobs_linked | MCRoutingJobs | *violated:* JobsLinked | the programs with workers |

The type invariants are proved (the `TypeCorrect` theorems) and in no cfg; so is
`NoCallStranded`, which Exchange's End asks for in its own words. The refinement of Exchange
holds on lsp_safety's instance as well, where it takes TLC three to four minutes. Two runs
evaluate what theorems assume of their instances: MCRequests that its programs are
`Unmixed`, MCServed that what the SQL of its programs touches is found
(`TouchesFound`: statements with subqueries, common table expressions, several texts, texts
that do not parse, gorm chains).

Why the bounds are enough: two of each kind of goroutine that contends with its own kind
(readers, re-analyses, requests) and one of each other; three analyses, so that a second
swap happens while the first replaced one is still being released; two gopls processes,
so that one dies and is started again; pipes that fill up with one message; two edits,
so that one comes during the other's scan, settling time, callback or re-analysis; four
statements, enough to create two tables, refer, rename or drop, and reuse the name (keys
that a CREATE names are the theorem's only). In a quarter-second unit the default Interval, Quiet and Tick are 4, 2 and 2, and a callback
of 5 leaves a tick behind that is older than both. The theorems below remove the bounds
of all safety properties but those of Routing and Startup (and of the watcher's two
promises about time where the loop may be late).

In the analyzing half the bounds are the programs. A handler of four blocks can test the
method, a guard and something else in every order and join again, which is all that the
block analyses distinguish. Graphs of two functions in a cycle with a sink and an
external function have every shape in which the memory of Flow is read too early, and
MaxDepth 2 and 3 cut them at each place. The real limits (`maxEvalDepth`,
`maxEvalValues`, 32 scopes) are constants, set to 6 and 3 so that they are reached; so is
consults' depth of 6, 2 in MCRequests, which checks for its programs with deep or interface
calls that the search is cut off only where a chain of calls is longer, and is cut off on
two of them (`GivesUp`).
Left out of the programs on purpose, since the code is known to differ there (see the
hazards): gorm's FirstOrCreate, common table expressions named like a table they read,
gorm models whose table is not known, chains of raw SQL; a function in two rows of jobs,
literals that run a table of jobs themselves, commands whose Use has several values, RPC
implementations behind interfaces; routers replaced in loops, routers mounted from a
variable, a field or a parameter (createdBy does not look there, and their prefix is lost),
Use on what chi's Route returned.

`CHECK_DEADLOCK FALSE` stands where a bound makes the system stop: Lsp (no more
requests), Schema (no more statements), and where programs end (Requests, Served, Routing).

Fairness. Live: a goroutine that can run does (WF), a sync.Mutex hands the lock to a
waiter kept out too long, its starvation mode (SF on the locking steps), and the
functions given to With and the analysis return. Readers need not come, nor need
anybody re-analyze or close. Serve: the ticker ticks, scans and analyses end, one
waiting for `reanalyzing` gets it (SF); files need not change. Lsp: goroutines run,
timeouts fire (`GoroutinesRun`) and gopls reads its input until it dies
(`GoplsReads`); that it answers, exits or makes requests is not assumed. `HungSpec` is
without `GoplsReads`.

## Findings

* A request's timeout does not cover writing to gopls: when gopls stops reading, requests
  and Close wait for ever (lsp_hung).
* A job whose function stands above the go statement of its worker in the source gets no
  `runs` edge, though addEntries promises "runs edges from workers to their jobs"
  (jobs_linked). The repository's own fixture `testdata/fixtures/entrypoints/main.go` is of
  this shape. Flows do not follow `runs` edges: what the job does is in the worker's flow all
  the same, by the call through the table.

What else was met is with the hazards, without a run of its own: a tick that waited while
the callback ran is taken as fresh (with Scala's defaults, where the quiet period is as
long as the interval, an edit just before `changed` returns is found on that tick and
reported on the next one, less than the quiet period after it: `QuietWhenReported` needs
Quiet < Interval for a reason); a file saved between the first analysis and the watcher's
first snapshot is not re-analyzed until it changes again; a file is marked opened before
gopls is told; Schema keeps foreign keys under old column names and those dropped by a
generated name or by CASCADE; of several foreign keys of one statement to one table (a
transfer's two accounts) the graph has one edge, with the columns of the first, for AddEdge
ignores an edge with the same ends and place; gorm's FirstOrCreate is shown as a select only; path.Join
does not clean its result; an interface method that a guard and a function that works
both implement counts as the guard's call only (dominatesWork leaves out the call's own
work), so that a route can be shown as guarded whose work was done instead of the check
(`Unmixed` excludes it, and `GuardsComeFirst` is false without); consults looks 6 calls
deep, and a function it first meets at that depth counts as seen when it is met again
nearer the route, so that a guard only a few calls below a public route is missed when a
longer chain leads to it first (`PublicAsksNobody` is about routes where the search was not
cut off; its comment, "directly or through module functions", names no limit).

## Proofs

Every safety invariant of Live, Watch, Serve, Lsp, Schema, Requests, Flow and Served that a
run checks is a theorem, from the assumptions named in the modules. The safety properties are
seldom inductive by themselves; each component has one inductive invariant (`IInv`, in Flow
`FlowInv`, in Served `ServedInv`) that adds what they rest on, and a lemma per action that it is kept. TLC
agrees: each is an invariant of its run's instance too (that of Requests, slow to evaluate,
with the third blocks of the handlers limited to `Go(<<"Error">>, 4)`; ServedInv was only
checked as far as TLC came in five minutes).

**LiveProofs** (the kinds of goroutine are disjoint, `Nobody` is none of them, `MaxAnalyses`
is a positive number):

* `TypeCorrect`, `Validity`, `ReleasedOnce`, `GenerationCorrect`, `NoticeCorrect`,
  `StreamsCurrent`, `ReportsCorrect`, `AnalyzingCorrect`: invariants of the run live_safety;
* `StreamsForward` and `SwapsWait`: what no step does (the generation a client sees does
  not go back; the current analysis does not change while a caller is inside With);
* `Implementation`: Live implements Holder.

`Invariant`, Spec => []IInv, is proved for the initial states (`InitInv`) and for each step,
one lemma per kind of goroutine (`ReaderStep`, `AnalyzerStep`, `CloserStep`, `StreamStep`).
IInv (at the end of Live) adds `Locks`, who holds a lock by where it is; `Uses`, a caller
uses the current analysis; `Ownership`, where an analyzer carries an analysis;
`Generations`, that the number of an analysis being swapped in is the next generation;
`Published`, that the status is one generation behind exactly between swap and
publication; `Told`, that what a stream holds is in order and, once setStatus has reached
it, ends in the current status. `Implementation` needs that a release is only of an
analysis that is neither current nor in use (Ownership and Uses), and that the write lock
is held only when nobody reads. `AnalyzingCorrect` is an induction of its own on top of
IInv: who is between setting Analyzing and clearing it holds `reanalyzing`.

**LspProofs** (callers and closers are disjoint, there is a file, the bounds are numbers):
`TypeCorrect`, `NoCallIsStranded`, `PendingAreUnderWay`, `AtMostOneGopls`, and
`Implementation`: Lsp implements Exchange. IInv (end of Lsp)
adds `Places`, what a goroutine at each place has and holds; `Ids`, that ids are given out
once and forgotten by a closed connection; `Calls`, what a registered call has to hope for:
it is pending on a connection that is open, or the reader has its answer in hand, or its
channel has told it; `Starting`, that every running gopls is the client's, or that of the
one who holds `startMu`, or being stopped. The last is what makes `AtMostOneGopls` hold although a start may fail after the
process runs. For the refinement it adds `Pipes`, that a gopls that is gone has nothing to
read and no id travels that was not given out, and `Unanswered`, that the id of a call not
yet written is nowhere on its way and the caller of an answer in the reader's hand has not
heard of it. Then each step either leaves the phase of every call (`SameTold`) or is the
step of Exchange that its name suggests: Deliver gives the answer to at most one caller,
since ids are unique (`DeliverStep`); fail tells those that are registered, and whoever is
not and waits has its answer in the reader's hand (`FailStep`); a process that dies, exits
or is killed loses what it had not read (`ProcessStops`).

**ServeProofs** has the watcher and the analyses, first lemmas about single steps of the
watcher, then the theorems: `TypeCorrect`; `ChangesAreOwed` for any intervals, lags and edits, from IInv
(end of Serve): `Places`, and `MissedIsOwed`, that what a running analysis missed is
still to be seen by the watcher, owed by it, or up to a re-analysis that queues;
`QuietWhenReported`, an action property, for a loop that is never late (MaxLag = 0) and
Quiet < Interval; `ReportsInTime` for MaxLag = 0 and intervals one of which divides the
other, as both defaults do. They rest on invariants of the clocks (end of Watch): only a
tick that came during the callback is old (`Ages`), and comes before the next scan is due
(`QuietSoFar`); the next scan and `settleAt` lie on ticks (`Aligned`), and a change is at
most as old as the time to them allows (`InTime`).
Outside these hypotheses the two promises do not hold of the code (see the findings) or
only within a tick more.

**SchemaProofs** (`PKey` is no column, `MaxStatements` and `MaxKeys` are numbers, `CreateNames`
are names: a CREATE has any number of foreign keys, named or not):
`TypeCorrect`, `SchemaIsTheResult`, `ForeignKeysShown`, `KeysShown`. IInv (end of Schema)
adds what PostgreSQL keeps true of its tables (`DbOK`: names are unique, keys are on columns
there are), and that Schema has the entry of every foreign key, with its line, until a column
or constraint is renamed (`EntriesKept`) and no other until it ignores something
(`EntriesExact`). One lemma per statement compares what it does to the database with what
Apply does. That the edges agree then follows key by key (`AllAdded`, `AddedIsActual`), what
AddEdge makes of keys at one place included: the theorems say which edges there are and
that an edge's columns are those of a key of the database, not that every key's columns are
shown.

**ReachProofs** proves that Reach's `Closure`, a recursive function, is reachability: it has
its start (`ClosureStarts`), is closed (`ClosureClosed`: as many rounds as there are nodes
are enough) and within every closed set (`ClosureLeast`). Inductions over rounds are stated
with the least number of a set of naturals, since the library's induction rule takes an
operator.

**RequestsProofs** (programs are bodies over the functions declared, what passes the request
on only calls the route's functions, a request's route is of its method or ANY):
`Invariant`, `TypeCorrect`, `RequestsRunAsScoped`, `DeniedDoNoWork` for every program,
`GuardsComeFirst` for `Unmixed` ones, `PublicRoutesAskNobody` for every program and route
below whose functions `consults` was not cut off at its depth (`LookedEverywhere`, a
condition of the property itself: the functions it looked at are then closed under calls,
and by `ClosureLeast` they are all that runs, `AllLookedAt`). For any depth of calls, recursion included: IInv (end of Requests) is about each activation by itself. It is
`Placed` and `Scoped`; a call it has not made is still ahead or not on its way
(`CalledOnTheWay`); after a guard failed it is in the region that denial leads to
(`Denied`); and each lower activation `Waits` at the call that runs the one above. From
this a sink reached from a call is work of that call, and dominatesWork and denySuccessor
say that such a call comes after the guard and not in the denial.

**FlowProofs**: `FlowInvariant`, `FlowTypeCorrect`, `FlowShowsSinks`, `FlowKeepsWhatLeads`,
`FlowExpandsRefs`, `FlowCountsCalls` from `FlowSpec`, that is for every graph whose edges
have ends and are there once (`IsGraph`) and every route, method, pruning level and
MaxDepth above 0. `EdgesStayUnique` shows that AddEdge, through which every edge is
written, keeps a graph one. FlowInv
(end of Flow) says of each open call of expand: the edges it has left are its node's
(`LeftOK`), what it has built is counted, marked and not deeper than MaxDepth (`ChildOK`),
of the calls of any node each is left, counted by a child or dropped for good (`Counts`),
the sinks it looked at are shown (`SinksSeen`) and pruning it loses none (`NothingLost`);
of the whole, that what is known to lead to a sink does (`leads`), and that every node that
was expanded is in progress or built (`ExpandedBuilt`). The hard part is the memory:
a node that does not lead to a sink *yet* is in `expanded` without being in `leads` while its
own call is open, and what is dropped on its account must not lead anywhere once it closes.
`Dropped` therefore keeps apart calls back to a node in
progress, dropped as cycles, and calls of one that is closed and led nowhere. That the flow is complete
then follows from ClosureLeast: what is built or pruned has all that it follows built or
pruned.

**ServedProofs** puts these together (what the queries and documents are that are given:
`ServedAssumption`; `Schema` is finite). Nothing is assumed of the number or size of
functions, calls, statements or documents.

* `ProgramGraph`, `ImportWritesGraph`, `LinkSQLWritesGraph`: what is written is a graph, and
  that of a program has, of each function, a node; of each call, edges to what it may run,
  through an interface's method if it is called on one; of each sink, its node, call and
  tables. Nodes come before the edges at them, which the database demands: `Fits` says what
  a sequence of writes needs to be known before, and that sequences fit one after the other
  (`ConcatFits`, `FlattenFits`) is an induction over their number.
* `ServedInvariant`, Spec => []ServedInv. ServedInv (end of Served) says that either a
  program was analyzed, then Requests' invariant holds, the graph is the program's and the
  flow asked for is the one of the request's method; or a document was imported. In both
  cases FlowInv holds while the flow is built and, once it is returned, every sink that the
  route reaches stands in it unless a call was cut off.
* `ServedFlows`: SinksShown, KeptLeadsToSink, RefsExpanded, CallsCounted of these flows.
* `ServedExecutedIsShown`. The functions on a request's stack are, one after the other, in
  the graph of the route: each is called at a place of the one below it, the call is drawn
  in the graph under the methods that reach it (Requests' `Scoped`), and the flow of the
  request's method follows such an edge (`CallRuns`, Flow's `Runs`). So the running
  function is reachable (`RunningReached`, an induction over the stack), the sink it calls
  is too, and ServedInv has it in the flow. Its tables are those found for it (`UseIsShown`),
  among which are the touched ones by the hypothesis `TouchesFound`.
* `ServedPathsComplete`. Paths goes forward along edges from whose end the search backwards
  said that the goal is near enough. Both are recursive functions on numbers whose steps
  `BackIs` and `WalksAre` give. What goes forward is a trail that visits nothing twice
  (`WalksTrail`); of an acyclic path every prefix goes on (`PathPrefix`), because the
  rest of it was seen backwards (`PathSeen`); so the walks are the acyclic paths
  (`WalksArePaths`). The order of the result is strict and total (`BeforeOrders`), so that
  the first `limit` of it are that many, none longer than one left out (`FirstOnes`).

Most of the leaves are proved within the provers' first seconds; those that are not name
the prover and its time.

Only model-checked, and why:

* liveness, which needs ENABLED and fairness: ReaderGetsIn, ReanalyzeReturns,
  CloseReturns, StreamCatchesUp, ServesChanges, RequestsReturn, CloseStops;
* what recurses over programs with RECURSIVE operators, as the code does, and what uses it:
  StringsCovered, RoutesFound, MiddlewareShown, GuardsRun, EntryPointsFound (Values,
  Routers, Routing, Entrypoints, Startup), and that Queries finds what SQL touches, which
  ServedExecutedIsShown has as its hypothesis;
* QuietBeforeReport and ReportedInTime of a watcher that is late.

## Plan

1. Done: Live, Watch with Serve, Lsp, Schema; Requests, Flow with Served, Routing with
   Startup; the proofs of all their invariants that have no RECURSIVE operator under them.
2. Proofs to come: that Queries finds what SQL touches, by recursive functions over trees
   of bounded depth; a bound for ReportsInTime with MaxLag above 0.
3. Model to come: migration files and their order, runServe's deferred stops.

## Not modelled

* Loading and the call graph (golang.org/x/tools), SQLite, the SQL parser: external.
* Pages, templates and navigation, migration file names, the Scala extractor: sequential
  walks over texts and trees, whose properties are those of the languages read.
* runServe's deferred stops of gopls, sbt and the analysis: a handful of steps, listed as
  hazards.
* Formatting of JSON, text and Mermaid, the configuration file, test fixtures, the
  command line and the web UI's rendering.
* Within the modelled parts: columns of queries, middleware around a whole ServeMux,
  handlers of user-defined router interfaces, queue groups, goroutines of function
  values, the name tables that decide what is a sink or looks like a guard (data of the
  models), sqlc's generated methods and sink functions passed as values as sinks, whether a
  call hands on the request it was given (passesRequest).
