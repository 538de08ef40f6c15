# A TLA+ model of carqna-agent

carqna-agent answers car questions with a LangGraph agent. It runs as a web
server (`copilotkit_server.py`) for authenticated users and as a local command
line program (`carqna_cli.py`). This directory models the parts of it whose
correctness depends on how several things happen at once or fail half-way, checks
the models with TLC and proves every safety result of the passing runs with TLAPS.

## Inventory

| Component | State | Operations | Interacts with | Hard behaviour |
|---|---|---|---|---|
| `user_tracking.py` | table `user_registry`, pool `user_pool` | `track_user` | PostgreSQL, Auth0 `/userinfo`; called first by every authenticated route | concurrent first requests, a transaction and a connection held over an HTTP call, swallowed failures |
| `sessions.py` | table `user_sessions` | `list_sessions`, `create_session`, `touch_session` | PostgreSQL; reads `user_registry` | unique-name races, lost commits, scoping by caller |
| `copilotkit_server.py` | pool, checkpointer, agent, routes | `POST /`, `GET /sessions`, `POST /sessions`, `GET /health`, `lifespan` | everything above, LangGraph | interleaved requests, agent clones, raw versus parsed thread id, restart, start-up failure |
| `auth.py`, `auth_middleware.py`, `auth_context.py` | `_ctx` (ContextVar), `_jwks_client` and its key set | verify, set, reset, read | wraps every route; Auth0's key set | identity across awaits, keys that change or cannot be fetched |
| `graph.py` | `_mcp_client`, `_mcp_tools`, `_graph_instance` | `create_graph`, `get_graph`, `_initialize_mcp_tools` | MCP servers, LLM; called at import, by `lifespan` and by the CLI | once-only initialisation, failure half-way |
| `carqna_cli.py` | SQLite table `sessions`, checkpoints | `--list`, find-or-create, conversation loop | SQLite file shared by CLI processes | two processes, one file |
| `s3_backend.py` | objects in a bucket | `ls`, `read`, `write`, `edit`, `grep`, `glob` | S3 store, called from worker threads | read-modify-write, path/key mapping |
| `sync-docs.sh` | - | upload a directory to the bucket | the store, while the agent's tools use it | trailing slashes, a second writer |
| DDL scripts, compose file | - | - | - | none: configuration |

What makes each correct: a user has one registry row, under one id, for ever; a
call never keeps a connection; tracking never fails a request; a request works for
the identity its own token was verified for; a conversation is read and continued
only by its user; a created session is listed, a name is created once, a conflict
is real; every request is answered. For the CLI: one name is one session and one
thread. For S3: what is listed can be read back under the listed path, an edit
changes only what it names. For a process: it serves only when everything it needs
is there, and closes what it opened however it ends; a token is refused only for a
reason.

## Modules

| Module | Models | EXTENDS |
|---|---|---|
| `UserDb` | the connection pool, PostgreSQL transactions, `user_registry` | |
| `UserRegistry` | abstract specification of the registry | |
| `UserTracking` | `track_user()`, with a specification of its own | `UserDb` |
| `UserTrackingProofs` | theorems about `UserTracking` | `UserTracking` |
| `DataLemmas` | facts about the library's operators that several proofs cite | |
| `Sessions` | the three functions of `sessions.py` | `UserDb` |
| `CopilotServer` | middleware, routes, agent runs, crash; composes the two above | `UserTracking`, `Sessions` |
| `ServerProperties` | what the server promises | `CopilotServer` |
| `ServerProofs` | theorems about identities, streams and conversations | `ServerProperties` |
| `ServerTablesProofs` | theorems about the tables and the answers drawn from them | `ServerProofs`, `UserTrackingProofs` |
| `SessionCatalog` | abstract specification of both session tables | |
| `CliSessions` | `carqna_cli.py`: processes of one user on one SQLite file, and what they promise | |
| `CliProofs` | theorems about the CLI's table | `CliSessions`, `DataLemmas` |
| `CliHistoryProofs` | theorems about races, lists and resumed threads | `CliProofs` |
| `Startup` | `graph.py`, `lifespan()` and the CLI's start: a process from its start to its end | |
| `TokenCheck` | `authenticate_request()` and the cached key set | |
| `ServerProcess` | a process with the tokens it judges; composes the two above | `Startup`, `TokenCheck` |
| `StartupProofs` | theorems about `ServerProcess` | `ServerProcess` |
| `S3Paths` | path/key mapping and listings of `s3_backend.py`, the root from its URI, the keys of `sync-docs.sh` | |
| `S3Store` | the six file tools as requests of concurrent workers, beside uploads | `S3Paths` |
| `S3Properties` | what the S3 backend promises | `S3Store` |
| `S3Proofs` | theorems about `S3Store` | `S3Properties`, `DataLemmas` |
| `MCUserTracking`, `MCServer`, `MCCli`, `MCS3`, `MCProcess` | small instances | |

**State.** A request `r` is handled once. `phase[r]` is the place in its handler
(see the head of `CopilotServer`), `step[r]` the place in its current database call:
`wait` for a connection, `exec` the first statement, `fetch` the profile, `insert`,
`commit`. `registry` and `sessions` are the committed tables; `regWrite[r]` and
`sesWrite[r]` are rows written by `r`'s open transaction, which are also the locks
other transactions wait for. `clock` counts transactions begun and `txStart[r]` is
what `now()` returns in `r`'s transaction. `warned` stands for `logger.warning`.

**Actions.** One per await-to-await stretch of the code. `track_user()` is
`Checkout`, then `UpdateHit` or `UpdateMiss; Fetched; InsertRow`, then
`CommitTrack`; `FailTrack` is its `except` clause and `CommitTrackUnknown` a
COMMIT that took effect although psycopg raised. `sessions.py` follows the same
scheme; a list is in any order `LatestFirst` allows, as ORDER BY leaves ties open. `CopilotServer` adds the middleware (`Unauthenticated`, `Refuse`,
`Admit`, and the reset in `Answer`), the routes (`Dispatch` reads the identity
from the context only after the await of the application), the run of the agent,
and `Crash`, which drops everything in memory and every open transaction.

**The CLI.** `pc[p]` is the place of process `p`: `find` (SELECT), `write` (UPDATE or
INSERT, taking SQLite's write lock `writer`), `commit`, `graph`, then `chat`,
`think`, `saved` in the loop. `before[p]` remembers which processes had ended when
`p` was started; the properties use it to tell succession from overlap.

**S3.** `versions[k]` is the history of an object, its last element the current
content, so that properties can compare what a call read or returned with what was
there during the call (`since[w]`, `until[w]`). Paths and keys are sequences of name
fragments and slashes, because the slashes are what the mapping is about. A call
is one action per request: an edit is a get and a put with no precondition, a grep is a
listing and one download per object. A text is a sequence of words and line ends,
so that an edit can be compared with what its arguments ask for; `"\r\n"`, `"\r"` and
`"\n"` are different words, and `OldsAssumption` says of which texts that is exact.
`PutAgain` is a put that the store took and whose answer was lost: the client has
boto3's default retries and sends it again. A call is any of `ToolCalls`; its operation fixes the
`FirstRequest`. `Sync` is one upload of `sync-docs.sh`.

**A process.** `host` says whose process it is (the server's, the CLI's or LangGraph's
own, which only imports `graph.py`) and `stage` where it stands: `import`, then the
blocks of `lifespan()` or `main()` in their order, then `serving`, and the way out,
`closing` (the saver's `async with`) and `pool` (the `finally` block). `client`,
`tools` and `instance` are the globals of `graph.py`: clients are numbered, and
`tools` is the number of the client the tools came from. `agent` is the graph that
serves. Every stage has an action that succeeds and one that raises. `LoadTools`
and `LoadToolsFails` are `_initialize_mcp_tools()`, used at import and again by the
host; the import's outcome depends on whether a loop is running, as the guard in
`get_graph()` never re-raises. `cache` is the key set of the process, gone when it
is started again; `verdict` records the last token with what was true when it was
judged. There is no await between look-up and verdict, so `Verify` is one action.

**External parts.** PostgreSQL at READ COMMITTED: an uncommitted row is
invisible, a writer of the same row or unique key waits for it, a sequence is
never rolled back, `now()` is the transaction's start. LangGraph: a run loads the
thread's checkpoint when it starts and saves it with its own turn when it ends.
SQLite: one writer, a transaction opened by the
UPDATE or INSERT, AUTOINCREMENT rolled back with it. The object store: each request
is atomic, a failed put may have taken effect. Uvicorn: one task and one context per request. Auth0: `/userinfo` answers or
fails; a token is some user's or invalid. `asyncio.run()` raises inside a running
loop. A psycopg pool opens without waiting for the database. The server's
checkpointer is one connection and dies with an outage. `PyJWKClient` asks Auth0 for
a key it has not cached, and its set expires. `s3cmd sync` uploads and never deletes.

## Runs

| Run | Question | Result |
|---|---|---|
| `Tracking` | do overlapping, failing calls of `track_user()` keep the table, the pool and the log right, and end? | holds |
| `TrackingSeenWindow` | is `first_seen_at <= last_seen_at`? | **violated** |
| `TrackingNeverBlocks` | does tracking never block? | **violated** |
| `ServerChat` | does a request keep its identity, and a conversation its user, its thread and its turns? | holds |
| `ServerSessions` | do lists, creations and conflicts tell the truth, and do the tables implement `SessionCatalog`? | holds |
| `ServerLive` | is every admitted request answered, also when every connection is out? | holds |
| `ServerMissingRow` | is the caller always registered before a creation? | **violated** |
| `ServerSpelling` | is one session one thread? | **violated** |
| `Cli` | is a name one session and one thread, is it resumed and listed, does the file implement `SessionCatalog`, does every process arrive? | holds |
| `CliClash` | does `--session` never fail because the name exists? | **violated** |
| `S3` | are roots apart, listed and synced paths readable, edits, answers and searches truthful? | holds |
| `Process` | does a process serve only when complete, leave nothing open, judge tokens rightly, and does every start end? | holds |

**Bounds.** `Tracking`: three requests, three users (one known), two
connections: enough for two calls of one user to overlap while a third waits for
a connection or for the row. Server runs: two requests, two users (bob known, with
one session; ann new), two connections, at most one crash (`MaxCrashes`). Two
requests suffice for the safety of each hazard listed, which are all between two
actors or an actor and a failure; the behaviours of a third request on the shared
tables are covered by `Tracking`, and the theorems cover any number. In `ServerChat`
and `ServerSessions` no request finds the pool full, so that a pool time-out in a
chat or a touch is covered by the theorem `ChatGoesOn` only. `ServerLive`: three
creations of one name by one user over the two connections, so that a request
waits for a connection while the others wait for a row lock or a unique-index
entry or for `/userinfo`; it fails by pool time-outs and by `/userinfo`. Failures
of the database with a full pool are in `Tracking` (`CallsEnd`); the row lock of
`touch_session()` is in no liveness run. Counters need no bound: each request is handled once.
`Cli`: three processes, two names, one message each (`MaxTurns`): two processes race
while a third comes before, beside or after them. `S3`: two workers, one call each
of any kind, on five objects and five paths: a file, a file with `"\r\n"` and `"\r"`
ends in a directory, a directory marker, undecodable bytes, a file of another root with a name
that begins alike, a new path, which is also synced once, and one with doubled
slashes; edits look for one word and for three lines; a put is sent again at most
once (`Resends`); one form of the destination of the sync (`WalkingFinds` has both);
workers are interchangeable,
hence the symmetry. `Process`: all three kinds of process, two starts (`MaxStarts`:
what the first leaves must not reach the second), two signing keys (one to
replace the other), and outages at any moment and without number.
`Past` is the largest id and time in the database when the server starts.

**Faults.** `pool`: a request gives up waiting, only while all connections are
out. `db`: a statement or commit fails, or a commit's answer is lost. `userinfo`:
Auth0 fails or times out. `Process` has no such switch: `GoesDown` and `ComesBack` take
any of the three services away at any time, any step may raise, `Kill` ends the
process anywhere.

**Fairness.** Weak fairness of a request's own steps (the event loop runs ready
tasks), of `Checkout` (psycopg_pool serves waiters in order, and finitely many
requests compete), of the database's answers, of `/userinfo` (5 second timeout)
and of the end of a run. For the CLI: a process runs, SQLite grants a free lock, a
turn ends. For a start: `StartProgress`, as each await succeeds or raises, so it ends
also when the services never come back. No fairness for what a user types or for
services to return, and none in `S3`, which checks safety only. Nothing is assumed about failures: liveness holds whether
they happen or not.

## Findings

The violations above are real behaviours of the code; `PROJECT.json` quotes what
they contradict. In short: `now()` is fixed when a transaction begins, so a slow
first request writes an old `last_seen_at`; `/userinfo` is awaited while holding a
pooled connection and a transaction, so slow first requests can use up the pool; a
swallowed tracking failure makes a new user's first
`POST /sessions` a 500; and the thread key uses the raw thread id while the touch
uses the parsed one; two CLI processes started with one new name clash on the INSERT.

One more has no run of its own: `user_tracking.py:47-49` says that the profile is
fetched "only the first time a given user_id is ever seen" (the repository's
README, lines 457-458, says the same), but every first request of a user that
overlaps another's finds no row and fetches it too. The upserts that follow are
judged by `WritesExclusive` and `ImplementsRegistry`.

More things seen while modelling, which contradict nothing the repository says and
so have no run:

- `ls` cannot enter a directory with an empty name (a doubled slash inside a key);
- an object whose name in the root begins with a slash is listed under a path that
  reads another key, as `_key_for()` strips every leading slash;
- of two runs that overlap on one thread (or two CLI processes in one session) the
  turn saved first is lost: `ConversationContinues` and `Resumes` are about turns that
  ran alone;
- overlapping edits of one S3 object lose the first one's replacement, as the backend
  writes without a precondition;
- an edit of several lines is refused in a file with `"\r\n"` or `"\r"` ends, since
  only its arguments are normalised (`AnswerTells` has that exception);
- a put that boto3 sends again may overwrite what another worker wrote since the
  first copy was stored (`PutAgain`);
- the server's checkpointer is one connection: after an outage of the database the
  pool recovers and the checkpointer does not, and turns fail until a restart;
- the key set is fetched synchronously in the event loop, so a slow Auth0 holds up
  every request;
- in a process that only imports `graph.py`, a failed import leaves `graph` at `None`.

## Proofs

Every safety invariant and every refinement that a run checks is also a theorem,
for all values of the constants; a run shows it on a small instance, TLAPS for any
number of requests, processes, workers, users, names and restarts. The theorems
rest on the assumptions named in the models and evaluated by TLC in the runs
(`WalkingFinds` has two more, below). An invariant is proved from an inductive one,
with a lemma for each action; the refinements from the same invariants, a step at a
time. Where a step of one component is a step of another, a lemma says so
(`DbOnward`, `ServerSteps`, `ProcIsStart`) instead of a second proof.

**Tracking** (`UserTrackingProofs`). `TrackInv` says which calls hold connections, that
a call is in progress exactly in phase `track`, that uncommitted rows belong to
calls about to commit, one per user and in agreement with the committed row
(without this a commit could renumber a user), that ids come from the sequence and
are distinct. `Refinement`: a commit is `Appear` or `See` of `UserRegistry`,
everything else stutters. `TrackInv` is stated with the proofs; what the run
checks are its parts that say something of the code. `SeenByOwn` needs in addition that an open row carries its
own transaction's start (`SeenInv`).

**A process** (`StartupProofs`). `StartInv` says what is open in each stage: the pool
once `connect` is done and until `pool` is, the saver between `saver` and `closing`
and set up after `setup`, the tools after `tools`. Token judgements leave that alone
(`ProcIsStart`). `TokensJudged` is inductive: a verdict records what it rests on.

**The CLI** (`CliProofs`, `CliHistoryProofs`). What makes `CliInv` inductive is
`LockHeld`, that the one process about to commit has the write lock and has
written either the row it found or the next id for a name still without a row, and
`FoundStays`, that the row a SELECT found is still there when it is written. `RaceInv`
adds where rows come from: a name in the table was opened by a process, and one
that found no row started before every process that opened the name (`Openers`). A
clash and an incomplete list would contradict that. `SessionsResume` is about
the threads: an id is the number of names in the table, so a new row's
thread is still empty (`ThreadTypes`), a thread holds turns of one name (`OwnTurns`),
and the last answered turn of a process that ran alone is in its thread and in what
every later process has loaded (`Carried`).

**The server's identities** (`ServerProofs`). `ServerInv` ties what a request is
handled under to what its token said: the context holds the owner from admission to
answer, the caller is the owner once the route has asked, a phase belongs to one
route, every turn saved on a thread is of that thread's user and raw id, and the
clone that streams for a request runs that request's turn. The last two are needed
together: a turn is saved on the thread of the clone's active run.
`ConversationsContinue` has `Carried` beside it: a turn that ran alone on its thread
is in the checkpoint, and in what every later run loaded. The argument is about a save
by an overlapping run: it would drop the turn, and it is what `Alone` excludes.

**The server's tables** (`ServerTablesProofs`). `TableInv` is `TrackInv`'s facts
restated for all calls of a request and across `Crash`, which forgets them, with those
of `user_sessions`: the rows committed and those of open transactions together
respect the primary key, the foreign key and the unique index (`SesRows`), and an open
touch is the committed row with another access time, so that its commit loses no
update. For that last point the locks matter: no other open row has the same id.
`TablesAreCatalog` and `TouchesAreOwn` are read off a commit. `AnswerInv` says for each
place of a request what it knows of the tables (its list is its user's, its new row
is there, the name it was refused is taken, a missing user has been logged);
these facts stay true because the tables only grow (`Grown`).

**S3** (`S3Proofs`). `S3Inv` compares each call with the histories of the objects: an
edit about to put holds the replacement in a version that its file had since the call
began (`Grounded`), a worker's versions are at its call's key, hold its content and
were put while the call ran (`Wrote`), what is found is a version of that time at a key of the root
(`Listed`), and a searched object is still to do, skipped, or its text was taken
(`Searched`). Below it lie lemmas on `_key_for()` and the listings (a path with one
leading slash maps back to its key; keys of the root are those with the prefix), and
on replacements: a text with one occurrence is what precedes it, the new text, and
what follows. `WalkingFinds` adds that uploads stay (`Uploaded`) and, by induction on
the depth, that ls level by level reaches each directory of a key.

Its two hypotheses: `SyncsRoot`, that `S3_DEST` names the place `INSURANCE_DOCS_ROOT`
does but for a slash at the end, as `sync-docs.sh` and the repository's README tell
the operator, and that file names are plain (no empty part); and that finitely
many keys are in play. Without the first, uploads go elsewhere and the theorem's
second half is false. `MCS3` checks `SyncsRoot` of its instance.

`S3Proofs` found three statements that were too strong, each true of the instance
and false in general: an object whose name in the root begins with a slash is
listed but cannot be read, as `_key_for()` strips the slash (now an exception of
`FoundIsReadable` and `GrepTruthful`); without a prefix, a key that begins with a
slash has its doubled slash only in the path, which is what ls is given
(`WalkFindsAll` now looks at the path); and an empty key cannot be reached (no store
has one).

**Assumptions stated for the proofs.** `IsFiniteSet(Names)` in `CliSessions`: the model
numbers the threads up to `Cardinality(Names)`, which only then is a number. In
`StoreAssumption`: paths, keys and texts are sequences of fragments, and an edit looks for
a text that is not empty (what the library does with an empty one cannot be read off
the source, so the model has no such call).

**Data.** What recursive definitions compute is proved with `WFMin`, which takes a set:
the least n at which a statement fails (`DataLemmas`: `Iterated` for functions
defined by recursion on n, `FlattenedIs` for `FlattenSeq`, `MaxOfFinite` for `Max`).

Only model-checked: liveness (`CallsEnd`, `Answered`, `Arrives`, `StartEnds`), as fairness
and ENABLED are out of the prover's reach.

## Not modelled

The arithmetic of token verification (PyJWT: a token's claims are good or bad),
profile columns, request validation by FastAPI before the handler, encoding of
events, tracing, the models and subagents a graph is configured with, prompts,
containers, the checks of `sync-docs.sh`'s arguments and its dry run. How long a
step takes: there is no clock, so a blocking fetch cannot be told from a quick one.

## Plan

1. Done: the models of all components with state, `SessionCatalog` and `UserRegistry`
   with their refinements, the runs, and a theorem for each safety property of the
   passing runs.
2. Left: the temporal results stay with TLC. Worth adding to the theorems are facts no
   run states by itself: that `ls` shows only what exists (the converse of
   `WalkFindsAll`), and that `Crash` loses none of the promises of `UserTracking` (an
   explicit lifting of `TrackInv` instead of the restatement in `TableInv`).
