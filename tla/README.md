# TLA+ verification of hdl-codegraph

hdl-codegraph parses SystemVerilog/UVM projects with tree-sitter, extracts a graph of nodes and
edges from every file, and answers questions about that graph from a command line tool, an MCP
server and a language server. The MCP server stands on `rmcp-sdk/`, the MCP library the repository
carries with it and builds from source. This directory holds TLA+ models of the parts of both that
keep state or carry an algorithm, the TLC configurations that check them on small instances, and
proofs, checked by TLAPS, that most of them have their safety properties for every instance.

Paths are relative to the repository. `parse/`, `cli/`, `core/`, ... stand for
`crates/hdl-graph-parse/src/`, ...; `rmcp/` for `rmcp-sdk/crates/rmcp/src/`.

## 1. Inventory

### The graph tools

| Component | State | Operations | Talks to | What makes it correct |
|---|---|---|---|---|
| In-memory store `storage/memory.rs`, symbol table `core/symbol.rs` | node table, two adjacency maps, name index, strings, id counter | `add_node`, `add_node_with_name`, `add_edge`, `remove_node`, `remove_edge`, `intern` | filled by the indexer, read by every query | the maps mirror each other; ids are not handed out twice; a stored node is found by name; it is the multigraph of the `Graph` trait |
| Persistent store `storage/persistent.rs` | column families of RocksDB | two puts per edge, atomic batches, prefix scans | shared by threads | after a crash no direction invents an edge; batches are all or nothing |
| Extractor `parse/extractor/*.rs` | id counter, names; per file the nodes and edges | `extract` and some forty `extract_*` functions | tree from the scanner, output to the store | ids unique, output names only this file's ids, a forest |
| Change sets `parse/extractor/{mod,incremental}.rs`, indexer `cli/main.rs` | graph, extractor and five tables per file | `extract_changeset`, `apply_to`, `index_project`, `cmd_index_incremental` | scanner, extractor, store, file system | the graph is the sum of the files' latest versions; the tables agree, by whatever path a file is named |
| Watch loop `cli/main.rs` | channel of events, `pending` with instants | receive, debounce 100 ms, hand over | notify watcher (a thread), file system, indexer | no change is lost |
| Queries, MCP tools, exports `cli/main.rs`, `mcp/tools/`, `query/` | none | walks over the graph | store | they end, list what they should, and agree with each other |
| Impact analysis `cli/main.rs`, `mcp/tools/impact.rs` | queue, visited set, results | one turn of the loop | store | the nodes within the depth, at their distance |
| Preprocessor with includes `parse/preprocessor/sv_preprocessor.rs` | macro table, conditional stack per file, `visited` | one line; one macro call | file system (recursive reads) | one branch per chain, cycles refused, calls replaced by what they stand for |
| Passes 1 to 4 `parse/preprocessor/pass*.rs` | macro table, stack of booleans; calls found, lines written, source map | one line each | the MCP server's project load | one branch per chain; each macro call expanded once, traced to its line |
| Glob matching `core/helpers.rs` | two positions and a place to return to | one turn of the loop | `query files` | decides every pattern |
| Language server `lsp/backend.rs` | index, open documents | scan for tokens, hover, definition, ... | editor | tokens stand where they are in the text |

### The MCP library

| Component | State | Operations | Talks to | What makes it correct |
|---|---|---|---|---|
| Service loop `rmcp/service.rs` | responder table, cancellation tokens, sends and handlers under way | select of messages, answers, sends, cancellation; drain at the end | callers and handlers (tasks), transport | callers get their own answers and always one; finished handlers' answers are sent |
| Handshake `rmcp/service/{server,client}.rs` | one position per side | initialize, answer, initialized, pings and stray messages | the other side | both serve one version or both fail |
| Line codec `rmcp/transport/async_rw.rs` | buffer, search position, discarding flag | `decode`, `decode_eof` | stdin in pieces | lines are frames however they are cut |
| HTTP server: sessions `.../streamable_http_server/tower.rs`, `session/local.rs` | map of sessions, workers, pending restores, external store | create, look up, restore, delete, abandon | requests (tasks) and workers | no worker unseen, 404 for a known session only after a restore that failed, every request ends |
| HTTP server: streams `session/local.rs`, `common/server_side_http.rs`, `common/client_side_sse.rs` | routers, replay caches, connections | register, push, resume, lose, reconnect | handler, client | only evicted events are missed; streams end |
| HTTP server: checks `tower.rs` | none | host, origin, version, session, message | sessions | a refused request changes nothing |
| HTTP client `rmcp/transport/streamable_http_client.rs`, `common/reqwest/`, `common/unix_socket.rs`, `worker.rs` | session, streams, message in hand, two bounded channels | post, retry after re-initialization, forward events, shut down | HTTP server, service loop | nothing handled twice, neither channels nor streams lose an answer, every sender told, close ends |
| OAuth `rmcp/transport/auth.rs` | state machine, credential and state stores, tokens | discover, register, authorize, call back, exchange, refresh, upgrade | browser, servers, concurrent requests | a state is gone once it was used, the store holds the live token, the right metadata is found |
| Tasks `rmcp/task_manager.rs`, `rmcp-macros/src/task_handler.rs` | running, completed, a channel of results | submit, collect, cancel, ask | tokio tasks, handlers behind a mutex | askers are answered, "not found" is true |
| Child process `rmcp/transport/child_process.rs`, `async_rw.rs` | handle, pipe, mutex of the writer | spawn, send, close, drop, kill | operating system, senders | no process is left, shutdown ends |
| Tool router `rmcp/handler/server/router/tool.rs` | routes, disabled names, notifier | add, remove, merge, disable, enable, list, call | client | a client that follows the notices has the right list |

**Where it is hard.** In the tools: long call sequences (store), one counter and one edge vector
shared by forty functions (extractor), tables that must change together (indexer), editors against
the watch loop, nesting (preprocessors), and the same walk written out a dozen times (queries). In
the library: tasks that stop at awaits while others change what they have read, sends that fail
after something was registered, timeouts against late answers, restores and retries, connections
that are lost without notice, bounded channels and mutexes held while their other end is busy, and
ends that must release everyone. `PROJECT.json` lists each hazard
at its line with the properties that would catch it.

## 2. Modules and how they correspond to the code

| Module | Stands for | Checked by run |
|---|---|---|
| `AbstractGraph` | the promise of the `Graph` trait (`core/graph.rs`): a set of nodes, a bag of edges | `store` (refined) |
| `GraphStore`, `RocksStore` | the two stores | `store` |
| `Extractor` | the walk of `GraphExtractor` | `index` |
| `Queries` (extends `Extractor`) | the query commands, MCP tools, exporters and LSP walks | `index` |
| `Indexer`, `Watch` (extends `Indexer`) | `IndexedProject` and `cmd_watch` with editors and watcher | `index`, `watch_real_time` |
| `CondChain` | reference definition of conditional compilation | |
| `SvPreprocessor`, `MacroExpand`, `Pass1Standard`, `UvmMacros` | the preprocessors | `algorithms`, `pass1_elsif` |
| `Impact`, `GlobMatch`, `LspTokens` | impact searches, glob matching, semantic tokens | `algorithms`, `lsp_directives` |
| `LineCodec`, `HttpGate`, `Discovery`, `ClientSetup`, `ToolRouter` | parts of the library that stand alone | `algorithms` |
| `McpService`, `McpHandshake` | one MCP connection | `mcp_service` |
| `HttpStreams` | event streams of one session, both ends | `http_streams` |
| `HttpSessions`, `TaskManager` | sessions of the server, its tasks | `http_sessions`, `http_restore`, `task_not_found` |
| `ChildProcess` | a server as child process | `transports` |
| `HttpClient` | the client's HTTP transport | `transports` |
| `Auth` | its OAuth layer | `algorithms` |
| `GraphStore_proofs` | theorems about `GraphStore` and `RocksStore` | |
| `Extractor_proofs` | theorems about `Extractor` and `Queries` | |
| `Algorithms_proofs` | theorems about `ToolRouter`, `Impact`, `GlobMatch`, `LspTokens`, `Discovery`, `ClientSetup` | |
| `Watch_proofs` | theorems about `Indexer` and `Watch` | |
| `Preprocessor_proofs` | theorems about `Pass1Standard` and `SvPreprocessor` | |
| `McpService_proofs` | theorems about `McpService` | |
| `HttpSessions_proofs` | theorems about `HttpSessions`, `HttpGate` and `HttpStreams` | |
| `HttpClient_proofs` | theorems about `HttpClient` and `Auth` | |
| `MC*` | constants for TLC; where a run has several modules, `part` chooses one at the start | |

Operators called "Mutant of ..." are deliberately wrong versions of the definition after them. They
belong to no specification: putting one in the place of the original must make the property it was
written for fail, which shows that the property depends on that code.

What the models keep and leave out, module by module:

**GraphStore.** A `Vec<Edge>` is a function from edges to counts, because no property observes the
order of a list; a missing key and an empty list are the same to every method. A node is its id and
the name its kind carries. `remove_node` goes in the order of the code: name index, incoming lists
of the nodes it points to, then, through *its own remaining incoming list*, the outgoing lists of
the nodes that point to it. That is where self loops and parallel edges matter.

**RocksStore.** The database is the log of its writes. `add_edge_raw` is two writes by a thread that
may fail or crash in between, a batch is one; a crash keeps any prefix of the log. Keys are byte
strings (a byte is a digit to base 2), so that prefix scans can be right or wrong.

**Extractor.** There is no input tree: each step picks a child that the running dispatch
(`match child.kind()`) handles, so the behaviours are the walks over all trees. `Rows` says what
node, edge and further dispatch a construct gives. Kept exactly: when an id is taken
(`extract_module` takes it before it knows the name, all others after), the second `Contains` edge
of a class at the top of a file, the module that ends without a node and leaves its children linked
to nothing. Names and attribute values are left out.

**Queries.** A query is an operator on an extracted file: how often a node is listed. `cmd_x` is
the command, `hdl_x` the tool of the server. `ToolsAgree` compares commands and tools with each
other where they claim the same; what the documentation says of a single command and the code does
not do is a definition of its own (section 4).

**Indexer and Watch.** The graph is the abstract multigraph that `GraphStore` is proved to
implement. What the extractor makes of a content is its outline, constrained by
`OutlineAssumption`, which `Extractor_proofs!OutlineCorrect` establishes. `ReuseStale` lets the
parser return the tree it was handed, because `parse_source_incremental` passes the old tree
without `Tree::edit`. The tables are keyed as in the code, by `strip_prefix(project).unwrap_or(path)`:
the walk names a file below the `--project` argument (`WalkPath`), an event by its absolute path
(`EventPath`), and `Rel` takes the project's prefix off where it is one. `Project = "."` is the
default of the command line, `Project = Absolute` a project given by its absolute path. A file that
lies in two include directories is listed twice. External: the notify watcher (one event per change after registration, errors
and access events as noise) and the passing of 100 ms. Between any two steps editors may write,
create, delete or make a file unreadable.

**Impact.** Both searches over all forests, with nodes missing that edges name; one step is one
turn of the loop, the order of edge lists is any order.

**Preprocessors.** `SvPreprocessor` chooses the text line by line when a file is first read;
`chain` is history, the truth of each branch's condition when it was met. `MacroExpand` is the
expansion of the calls of one line, token by token. `UvmMacros` has a line as the sequence of its
calls, each closed on it or not: the scan goes through the table of prefixes in its order and finds
the first place of each, at the beginning of longer names too.

**McpService.** The loop, every spawned send, every caller and every handler is a process; the other
peer is an environment that keeps to the protocol but may be slow, silent or gone. The drain at the
end sends the answers in the channel one after another and stops at the first send that fails.

**HttpStreams, HttpSessions, HttpClient, Auth.** Every request, worker and stream is a process that
stops at its awaits. Connections break without the server noticing, requests are abandoned, the
server restarts and keeps only its store, the authorization server rotates refresh tokens, the
program restarts and keeps only its credential store. In `HttpClient` both channels are bounded: a
stream that has received an event holds it (`held`) until there is room in `sse_worker_tx`, and the
worker waits for room in the channel to the handler (`deliver`, `forward`) without looking at the
token; a re-initialization aborts the streams of the old session with what they hold. In `Auth` a
callback is one step where the application owns the state machine, and three (load, delete, answer
of the exchange) where callbacks share an `AuthorizationSession` by `&self`.

**ChildProcess.** A send holds the mutex of the writer while the pipe is full, which is as long as
the child does not read. `graceful_shutdown` first waits for that mutex to close the pipe; only then
does its timer start.

**TaskManager.** A handler holds the mutex across all its calls of the processor;
the tasks send their results without it, so one may arrive between two of these calls. `Askers`
poll, tools end, panic or are cancelled.

**ToolRouter.** A method is one step, under the owner's lock; the notice is a task of its own. The
client, external, lists when it likes and throws away its list when told.

## 3. Runs

| Run | Instance | States | Shows |
|---|---|---|---|
| `store` | 2 ids, 2 names, 2 strings, 2 edge types, at most 2 edges with 2 copies; RocksDB: 2 threads, 3 writes | 268 493 | adjacency maps, name index, refinement of `AbstractGraph`; no half edge without its source half |
| `index` | one construct of each shape, 5 ids; 2 files, 3 contents, stale trees, 3 changes, 1 noise event, the project by its absolute path, 1 include directory | 412 286 | forests; walks that end and agree; links that lead to nodes; graph and tables of the indexer; no change lost, due changes flushed (liveness) |
| `algorithms` | see below | 2 195 846 | thirteen parts against reference definitions |
| `http_streams` | 1 request, cache of 2, 1 shadow, 3 connections, 3 common events | 447 012 | replay (action property), streams end (liveness) |
| `http_sessions` | 2 requests at a time, 1 session id, 3 workers, 1 fault; 2 tasks, 2 askers, 1 panic | 98 201 | no zombie worker, 404 for a stored session only after a restore that failed, requests and askers end (liveness) |
| `mcp_service` | 2 calls (one timed, one of a handler) with 1 handler, or 2 handlers without calls; 1 fault, 1 message of a handler; 3 versions, 2 stray messages | 511 404 | answers match, the drain delivers, nobody waits for ever, the handshake settles (liveness) |
| `transports` | 1 request, 1 notification, channels of 1, 2 sessions, 2 faults; 1 child | 251 920 | handled once, answers have a way, senders are told, children are reaped (liveness) |
| `watch_real_time` | 1 file, 1 change | violated | the last change of a burst stays pending |
| `pass1_elsif` | 6 lines | violated | two branches of one chain active |
| `lsp_directives` | 3 characters | violated | the scanner does not get past a backtick |
| `http_restore` | 2 requests, no fault | violated | `AlreadyPresent` does happen |
| `task_not_found` | as `http_sessions` | violated | a finished task is reported as unknown |

`algorithms`: a file, an include and an unreadable file with 4 lines; 6 lines for pass 1; all
forests of 5 nodes; patterns of 4 and texts of 3 characters; documents of 5 characters; streams of 5
bytes in any pieces; macro calls of up to 5 tokens; 2 lines of 2 UVM calls, closed or not; discovery with any
document missing, broken or pointing elsewhere, 2 servers; every metadata the client set-up
distinguishes; every combination of headers; 2 tools in 2 versions with 2 notices under way; OAuth
flows with 1 scope, 2 concurrent requests or callbacks, 2 flows, 3 tokens, 1 fault, and a server that
names its issuer or does not.

`CHECK_DEADLOCK FALSE` is set throughout because each of these may really stop: a walk, a search or
a text ends, a store need not be called again, a connection is closed, the watch loop blocks when
nobody changes a file. Where something must *not* stop there is a liveness property.

**Why the bounds are enough.** *Store:* `remove_node` can go wrong with a self loop, a parallel
edge or a neighbour; two ids give all three, and the theorems cover the rest. *Index:* five ids give
a file, two nested levels and a sibling. A second change during any phase of the first, plus a
change of the other file, is what makes events, debounce and reads overlap. *Impact:* five nodes are
the least that hold a path of four edges, one more than the depth. *Preprocessors:* six lines hold a
chain of three branches inside another block. *Codec:* the limits 0, 1 and 2 stand against lines of
up to five bytes, so a line is below, at and above it, and cut anywhere. *HTTP:* two requests are
what a race needs; three workers give a session that is restored and closed again; a cache of two
under three events evicts. *Service:* one timed call and one that a handler makes are the two that
cross in the loop; the fault is a failed send, a panic or a line in two reads at any place; two
handlers without calls are what it takes for a failed send of the drain to leave an answer behind.
*Transports:* with channels of one, an event in hand, one in each channel and one in a stream fill
every place where an answer can be; the notification is the second message, whose 404 aborts the
stream of the first. *OAuth:* two flows tell a late callback from a current one, three tokens give a refresh after a
refresh.

**Fairness.** `Watch`: the tool runs when it is not blocked, and time passes. Nobody owes the tool
another event, which is why `ChangeReachesIndex` fails. `McpService`, `McpHandshake`, `HttpStreams`,
`HttpClient`, `HttpSessions`: weak fairness of the tasks tokio schedules, of timers and of sockets
that are read; none of the other peer's answers, of callers or of faults. `HttpSessions` assumes
strong fairness of the steps that wait for the write lock, and `TaskManager` of those that wait for
the mutex, as tokio's locks are first come, first served. `TaskManager`: tools end (or panic).
`HttpClient` assumes strong fairness of the worker's `select!`, which picks a ready branch at random,
and that the handler reads its channel as long as it does not close the transport. `ChildProcess`: a
write ends when there is room, the mutex of the writer is granted, a timer fires and a killed process
dies; a child may ignore its closed input, or never read.
`LspTokens`: the scan goes on.

## 4. Where the code and its documentation disagree

With a run (quotations in `PROJECT.json`, `findings`):

- *Real time update.* `rx.recv()` has no timeout and the entry just made is too young to be due, so
  the last change waits for an unrelated event. It is never forgotten (`NoChangeLost`), and any
  further event flushes it (`DueIsFlushedByNextEvent`).
- *`elsif` in pass 1.* The entry of the chain is replaced by the new condition alone. The MCP server
  preprocesses every file with this pass; `sv_preprocessor.rs` does it right.
- *Semantic tokens.* A backtick starts a word and belongs to none: the scan stays where it is.
- *Restores.* A restore that ends between a request's look at the sessions and its look at
  `pending_restores` is not seen; the "impossible" `AlreadyPresent` comes up.
- *Task not found.* `get_task_result` asks for a result and then for the running tasks. The lock is
  held across both calls, but the task sends its result without it: one that arrives between the two
  is taken in by the second, and the task is reported as unknown.

Stated and refuted, without a run of its own. Each of the following is a definition that says what a
comment or document of the repository says; put into the configuration of the run named, TLC refutes
it. The property that run does check is stated so that it neither asserts the opposite nor hides it.

| Definition | Run | What the code does | What the repository says |
|---|---|---|---|
| `GraphIsUnionOfFiles` with `Project = "."` | `index` | `strip_prefix(project)` leaves the absolute path of an event as it is, while the walk's `./` comes off: a changed file is indexed under a second key and its old subgraph stays (`main.rs:558`) | `main.rs:32`: `.` is the default; `main.rs:596` "full rebuild of this file's subgraph" |
| `GraphIsUnionOfFiles` with `IncludeDirs = {sub, top}` | `index` | a file below two include directories is listed and indexed twice, and its first copy is forgotten (`main.rs:731`) | `main.rs:237` "Maps file path -> list of node IDs allocated for that file." |
| `CheckFindsDangling` | `index` | `check` collects the edges out of stored nodes, so an edge that starts nowhere (in a module without a name) is not reported | `main.rs:1355` and `README.md:255`: "verify both source and target nodes exist" |
| `RefsListedOnce` | `index` | the second scan of `refs` lists references the first one has listed | `main.rs:905` |
| `InstancesAreFound` | `index` | `inst` looks two levels below the file: none in generate blocks or nameless modules | `main.rs:152` "across the project" |
| `ExploreListsDeclared` | `index` | `explore` follows `Contains` only; ports and signals are linked by `Defines` | `main.rs:157` "ports, signals, instances, always blocks" |
| `DriversAreListed`, `CallsAreListed` | `index` | the extractor makes no `Drives`, `References` or `Calls` edge and no call site | `server.rs:153,158`, `README.md:325,335` |
| `StatsCountOnce` | `index` | a class at the top of a file is linked twice, and `stats` (also `files`, `search`, SCIP) counts it twice | `main.rs:101` |
| `McpStopsAtThree` | `algorithms` | the search of `hdl_impact` goes on from depth 3 and reports distance 4 | `server.rs:178`, `README.md:488`: "Uses BFS up to depth 3" |
| `ArgumentsAreWhole` | `algorithms` | a UVM call that goes on in the next line loses the last argument it has begun | `pass2_scanner.rs:82` "Handles nested parentheses and basic multi-line macros." |
| `EachCallIsListed` | `algorithms` | `` `uvm_do_with `` is listed as `` `uvm_do `` too; of two calls of one macro on a line the first only | `pass2_scanner.rs:12` "all detected UVM macro calls" |
| `WellKnownIsTried` | `algorithms` | a base URL that answers 200 with anything is taken for the resource's document | `auth.rs:1640` "try oauth-protected-resource discovery" |
| `StateUsedOnce` | `algorithms` | load and delete are two awaited calls on `&self`: two callbacks on one `AuthorizationSession` both exchange the code | `auth.rs:1282` "one-time use" |
| `FalseMeansUnknown` | `http_sessions` | a request that waits for another one's restore gets 404 when that restore fails or is abandoned, for a session the store holds | `tower.rs:697` "`false` when no store is configured or the session ID is unknown" |
| `CloseEnds` | `transports` | the worker waits for room in the channel to the handler, which in `close` waits for the worker and reads nothing (`worker.rs:170`) | `service.rs:552` "waits for the background task to finish" |
| `ReceivedIsKept` | `transports` | an expired session aborts streams that hold an answer received and not yet passed on (`streamable_http_client.rs:684`) | `streamable_http_client.rs:1071` "transparent recovery" |
| `ShutdownEnds` | `transports` | `graceful_shutdown` waits for the mutex of the writer before its timer starts; a send to a child that does not read holds it | `child_process.rs:108` "with a timeout" |

Met while modelling, not stated. In the tools:

- `Remove` events are ignored and an unreadable file is skipped: the nodes of a deleted file stay.
  A change between the initial read and `watcher.watch` is not noticed.
- `extract_package_item` has no arm for classes although `extract_class` is written for them.
- `check --ci` never fails; the command `callees` returns callers; `uvm hierarchy` lists second-level
  classes only; `find_parent_name` does not climb; `print_type_children` does not end on a cycle of
  class names.
- `hdl_impact` reports a node at the depth of the one before it. `search` and `files` of the server
  use an unanchored regular expression where the tool uses a glob; the glob takes a star in the text
  for the star of the pattern.
- `sv_preprocessor.rs`: a line that ends in `` `NAME( `` of a defined macro panics, an unclosed call
  loses its last character, a parenthesis in quotes closes a call, an argument that contains a
  parameter's name is replaced again, in the order of a hash map; a macro without parameters swallows
  parentheses after it.
- Language server: hover and definition look at the first file's graph only; an escaped newline in a
  string is not counted as a line; the command line tool prints to stdout before the LSP stream.

In the library:

- The drain gives up handlers that wait for the loop, and after a send of its own that fails the
  answers still in the channel are lost (`DrainDelivers` excludes both).
- A shadow of the standalone stream is not promoted when the primary one is lost.
- A POST without session id that is not `initialize` leaves its session in the map
  (`RefusalsLeaveNothing` names this exception).
- The session is not deleted on early returns of the HTTP client's worker.
- The secret flow accepts http although its message says HTTPS is
  required. A callback that names a wrong issuer spends its flow's state.
- Two ignored notifications make `decode_eof` join the lines after them.
- A tool that panics leaves `get_task_result` polling for ever: nothing calls `check_timeouts`. A
  cancelled task may later be reported as completed.
- A spawn without piped stdio, or a shutdown future that is dropped, leaves the child running.
- `add_route`, `merge` and `remove_route` do not call the notifier that is documented as "invoked
  when the visible tool list changes"; nothing is sent before `InitializedNotification` is handled,
  although requests are served.

## 5. Proofs

Everything in the `*_proofs` modules holds for every value of the constants that the named
assumptions allow, so without the bounds of the runs: the bounds are arbitrary naturals there. Each
theorem rests on an inductive invariant that TLC checked first; where the property itself is not
inductive, what had to be added is the interesting part. All assumptions are named `...Assumption`
in the module that declares the constants, and every run evaluates them: they say that bounds are
naturals, that a marker such as `None` is none of the real values, and what is said below.

**GraphStore.** Assumed: bounds are naturals and marker values are none of the real ones.
- `TypeCorrect`: `TypeOK` is inductive by itself.
- `MirrorCorrect`: `EdgesMirrored` is inductive relative to `TypeOK`. The substance is in the lemmas
  `TargetsAfter` and `SourcesAfter`: walking one map through lists found in the other removes
  exactly the edges that touch the node, *because* the maps mirrored each other before.
- `NextIdCorrect`: an automatic id is free; inductive relative to `TypeOK`.
- `NamesCorrect`: via `Found(i)` per node, as an entry is lost only when its own node is removed.
- `Refinement`: under the mapping `edges <- by_source[e.source][e]` every step is a step of
  `AbstractGraph` or a stutter; `EdgesMirrored` is needed to see that `remove_node` removes the
  incoming edges as well.

**RocksStore.** Assumed: ids below 4 (keys of two bytes, as in the model), types that are bytes. The
number of threads and the length of the log are arbitrary. `RocksCorrect` needs `RocksInv`: a target
key is never written before its source key, which every prefix of the log, and so every crash, keeps;
the write that holds the source key of an edge that only batches wrote holds the whole batch; and of
an edge between its two puts the first is in the log. Most of the work is in the lemmas about the
keys: different puts have different keys, and a scan from a prefix reads exactly the keys that begin
with it.

**Extractor.** Nothing is assumed about `Constructs` and `MaxIds`. The properties are not inductive:
that a module's node gets a fresh id when the module *ends* depends on nothing else having used an
id taken long before. The inductive invariant `IInv` says in addition
- `FramesOk`: the file's frame is the bottom one, a module's frame can only be directly above it,
  every other frame's id lies strictly between the file's id and the counter;
- `Reserved`: while a module is open its id has no node and ends no edge; while a class at the top
  of the file is open, the edges that end in it start at the file;
- `NodesOk`, `EdgesOk`: ids within the file's range, unique, edges upward, one source per target.

`RowsWellFormed` goes over the table of constructs once; each action then has its lemma.
`TypeCorrect`, `EdgesGoUp`, `ParentsAreUnique`, `NumberedOnce`, `OutlineCorrect` and `ForestCorrect`
follow from `IInv`.

`LinksCorrect`, about the edges `cmd_check` of `Queries` looks at and those it cannot see, needs `Linked` besides: every frame of the walk
stands for a node or for the module that is still open, every edge ends in a node and starts in one,
in the open module or in one that ended without a node, and every node but the file's ends an edge.
So an edge whose source is missing is always that of a module that got no name.

**ToolRouter.** Assumed: `MaxNotices` is a natural and the two error answers are no versions.
`ListCorrect` is `ListIsCurrent` for every set of tools and versions. The inductive part is `Current`,
that the client's list is the router's when no notice is due, relative to the types of the number of
notices and of the flag: a method leaves the visible list alone, or a notice goes out, or the flag is
set. That calls run what was listed follows in each state.

**Impact.** Assumed: the nodes are numbered from 1, and the edge types are `Contains` and possibly
`Defines` and `Drives`. `ImpactCorrect` is for forests of any size. Both searches go breadth first; the invariants say
that depths in the queue grow by at most one (`QueueOk`) and that what was found is in the queue or
searched. `CliInv` adds that the levels below the head of the queue are complete, so that what is
found first is found at its distance; `McpInv`, whose search drops nodes, adds what excuses a node
that is not gone up from. The reference, `Within(k)`, is a recursive function that is only ever
unfolded by one step.

**LspTokens.** `TokensCorrect` is for texts of any length. The reference counts line ends from the
beginning of the text; `TokensInv` says that every place the scan holds (the current one, that of the
token it is in, those of the tokens found) is the right one by that count, and that the encoded
tokens are the differences. That decoding adds them up again is shown for the least token that would
decode elsewhere.

**GlobMatch.** `GlobCorrect` is for patterns and texts of any length. `LoopOk` is why it is enough to
return to the last star: whether the pattern matches is whether the rest of it, from that star,
matches from where the star was met; and what the loop has matched since it can match again further
on, so that a later star never has to be undone.

**Discovery.** `DiscoveryCorrect` is for any headers and any number of servers a document names.
`DiscoveryInv`: while the client probes, the places before told nothing; once it goes on, the
description it found is that of the first place that settles it; while it searches, there was nothing
at the places before the one whose turn it is (`SearchAt`). A place settles the description when it
answers 200, with whatever (`SettlesOn`); `SearchFindsFirst` shows that where no place answers 200
with something else, that is the first place which has the description.

**ClientSetup.** `MethodCorrect`: `SetupInv` says that a client that is configured was configured by
the flow it is in, and for client credentials only after the check of the methods offered.

**Indexer and Watch.** Assumed: `OutlineAssumption`, which `OutlineCorrect` above establishes for
the extractor. Only `MetadataAgrees` is inductive as it stands (`Indexed`, with types).
- `NoChangeLostCorrect`: relative to `Indexed`, because a file that was read is up to date only if
  the digest on record is that of what was read; `WatchInv` adds that nothing is watched, pending or
  handed over before the watcher is registered.
- `LatestStored`, for any project path and any include directories: `GraphInv`. `SpansApart`, the ids
  of a file lie in an interval of its own below the extractor's counter, is what keeps a re-index of
  one key from removing nodes of another; `KeysStored` is the statement for every key, also for one
  that the same file no longer uses. Bags of edges are compared edge by edge.
- `UnionCorrect` adds that nothing *else* is in the graph (`NothingElse`). It has two hypotheses,
  without which the code does leave old subgraphs behind (section 4): `ListedOnce`, no file lies in
  two of the include directories, and `KeysAgree`, the `--project` argument is the absolute path
  that the events have. `Fresh`, the part of the invariant they are needed for, says that a file
  still to be indexed has no entry yet, and none under an unstripped path.

**McpService.** `AnswersMatch` needs `TalkInv`: ids are below the counter and no two callers share
one, and *everything* that carries an id (responder table, sends under way, queue of the peers,
wire, lines received) carries the id of the caller it is for, so that removing or delaying any of
it cannot hand an answer to someone else. `DrainCorrect`, an action property, needs `DrainInv`: an
answer that is not sent is in the sink or being sent, is lost only once the loop is closed, and none
is being sent when the drain is left, so that what a failed send of the drain loses is what the
channel still held.

**HttpSessions.** `SessInv` has three parts. `WorkersOk`: a handle in the map is that of a worker of
this session. `TaskInv`: the types of the requests by kind; a request that restores holds the entry
of its session in `pending_restores`, so that nobody else ends the wait of those who wait for it
(`EntriesOk`); a session that is being created is known to no client, and one request creates it
(`IssuedOk`); an entry that says "no" because a restore came to its end is that of a session that is
gone (`GoneOk`), which is what `NotFoundMeansGone` needs of a request that waited. An entry whose
restore failed or was abandoned is told apart, and so is the 404 it leads to (section 4). `CountOk`: there are at least as many unused
workers as requests that may still need one, so that the model's choice of a fresh worker is always
defined; it is a fact about the bound, proved by counting. Assumed: finitely many requests at a time.

**HttpGate.** `GateInv` says for each check what may have been done when it is reached: nothing
before the session is looked up, at most the restore before the version is read, exactly the new
session before an `initialize` message is examined.

**HttpStreams.** `SkipsCorrect`, an action property: when the client of the standalone stream gets an
event, those between it and the one before are not in the cache any more. It is about the client
alone and far from inductive. `StreamsInv` has four parts besides the types. `NotYetUsed` and `Alone`:
a connection never opened is nowhere in use, and that of the standalone stream serves no request, so
that only one writer ever has it. `PendingOf`: at most one request to resume on that connection is on
its way, and while its client waits it carries the last event the client saw, however many earlier
attempts are still queued. `Standing`: the cache is a run of consecutive events; the client never saw
more than was sent; and what is on its way to it (the channel, then the send the worker waits for) is
a run that continues what it has or begins no later than the cache, and ends with the newest event if
the worker writes to this connection. The number of requests, connections, events and losses and the
capacity of the cache are arbitrary.

**HttpClient.** `HandledCorrect`: the worker owns the responders of the message in hand and of those
that wait, each once (`Owned`), and the server took no message whose responder is still open
(`Once`): an answer settles the message, and "session expired", the one answer that is retried,
means that the server did not take it. `AnswersCorrect` needs `AnswersInv`: the types of the
channels and streams (`ChannelsOK`); nothing was sent before the handshake, and the worker holds a
message for the handler only at the two places where it sends one (`Phases`); and the answer of every
request that was sent has a `Way`: it was received, it is in the worker's hand, in one of the two
channels, in a stream that is open or holds it, or the server or the network cut it, or a
re-initialization aborted its stream. Only what was aborted counts as aborted: streams of a session
the server merely forgot do not.

**Auth.** `StateCorrect`, that a state is spent once its code was sent: a flow whose state is still
stored has never been exchanged (`FlowsOK`), and a callback under way keeps the application out of
the session (`CallbacksOK`). That a state is exchanged *once* is not a theorem: it fails when two
callbacks run at the same time (section 4).
`StoreCorrect`: `Locked` (behind `AuthClient` only the holder of the mutex runs), `Issued` (no token
is newer than the last one issued), `SaveAlone` (a request with a new token to save is the only one,
and nobody is on the way with that token) and `NeverLost` (the token the server accepts is in the
store or about to be saved).

**Preprocessors.** `CondChain` is the reference. `PlainChainsCorrect` needs that no chain but the
bottom one is empty, so that flipping the entry at `` `else `` selects the other branch of a plain
chain; an `` `elsif `` makes the chain not plain, and nothing is claimed of it (section 4).
`BranchesCorrect`: `StackOk` of every running call. The lemma `ChainGrows` says what one more branch
does to "the first branch that holds", and is all that `` `elsif `` and `` `else `` need.

**Only model-checked.**
- Liveness under fairness (`CallsEnd`, `RequestsEnd`, `SendsConclude`, `StreamsComeToAnEnd`, ...):
  outside what the installed provers do.
- `WalksAreExact` and `ToolsAgree` of `Queries`: they compare recursive walks over a whole forest with
  each other and with reachability, which needs induction over the forest.
- `LinesAreFrames` of `LineCodec`, `CallsAreExpanded` of `MacroExpand`, `CallsBecomeCode` of
  `UvmMacros`: the reference takes a text apart by a recursion (or a fold) of its own, and relating it
  to the code's recursion needs induction over texts.

Induction over data is not available as a rule here. Where a theorem above needs it, the property is
stated of every position and the least position at which it would fail is considered
(`LeastElement`, from the well-foundedness of the naturals), and a recursive reference is unfolded by
one step at a time. That works for references that recurse over numbers.

## 6. Not modelled

- `rmcp/model*.rs` (message types, capabilities, elicitation schemas), about a sixth of the code:
  data types, builders and their JSON form, no state.
- The procedural macros apart from `task_handler`, the prompt router (the tool router without
  disabling and notices), handler traits that dispatch one method per request type.
- The registration of the tools in `mcp/server.rs`; the table of open documents, completion and the
  LSP transport; the tree-sitter parser and its grammar (external: any tree the dispatch can meet, or
  the stale one).
- Examples, conformance servers and tests of the SDK, the editor extension, empty crates.
- Wording, formatting, logging, byte positions other than those of tokens, cryptography.
- The language server indexes once and keeps no promise about documents edited since; there is no
  property to state.

## 7. Plan

Done: all components of section 1 with their runs, and proofs of the safety properties of both
stores, extractor, consistency check, indexer, watch loop, impact search, conditional compilation,
glob matching, semantic tokens, service loop, HTTP sessions, streams and checks, HTTP client, OAuth
(flows, store, discovery, set-up) and tool router.

Next:
1. `LinesAreFrames`: the lines given out so far are those of the bytes consumed, stated position by
   position instead of by the fold that defines them now.
2. `WalksAreExact`: the walks as functions of a depth, so that the least depth at which two of them
   differ can be considered.

## 8. Running the checks

In this directory: `tlc -config <cfg> <module>` for the pairs listed in `PROJECT.json` (each below
five minutes with two workers), and `tlapm` on each of the eight `*_proofs.tla`.
