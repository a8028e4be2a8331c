# A verification project for ULTRA-TEMPLATE

ULTRA-TEMPLATE is a repository template. It ships three task services that
keep one contract in three languages (`services/api-go`, `api-ts`, `api-py`),
a web board and an MCP server over them, and the scripts that make a project
from the template, keep it up to date, verify it and publish it.

This directory specifies the parts of it whose behaviour depends on the order
in which things happen, in TLA+: modules that follow the source action by
action, TLC configurations that explore small instances of them, and TLAPS
proofs of the main results for every value of the constants.

    tlc -workers 2 -config TaskService.cfg MCTaskService     one run
    tlapm TaskServiceProofs.tla                              one proof module

`PROJECT.json` lists the runs, the source lines each definition translates,
the faults each property is shown to catch, the hazards of the code and the
theorems.

## 1. Inventory

### Components that are modelled

**Task rules** (`internal/entity/task.go`, `domain/task.ts`, `domain/task.py`).
No state. Which titles are accepted, how a task is born, the three legal moves
`todo -> in_progress -> done` and `in_progress -> todo`, and what a transition
changes. Correct when the three services and the two clients judge alike.

**Task use cases and the in-memory store** (`usecase/task.go`,
`repo/memory/task.go` and their counterparts). State: a map from id to task
and a slice with the order of insertion, behind one lock. Operations: create,
get, list, and a move that reads a task, judges the move outside the lock,
and replaces the task only while it is still the one judged (ADR-0019), else
starts over. Hard: racing moves, a clock read outside the lock, values that
return, an unbounded retry. Correct when every request looks as if it took
effect at one instant, moves are legal, updatedAt does not go back, and
retries end.

**HTTP transport** (`controller/httpapi/`, `adapters/http.ts`,
`adapters/http.py`). State: a connection, how much of its request has arrived,
the timer armed for it, the status its recorder was given. Operations: receive
headers and body under two absolute deadlines (ADR-0021), arm or look at the
timer, route, decode, call a use case, answer, log a line when the handler has
returned. Hard: bodies that are late, cut short, too large or framed in chunks;
timers that each runtime arms in its own way; and three routers, three decoders
and three tables of errors that must come to the same answer (ADR-0018). Calls
the use cases; answers the web board and the MCP gateway.

**Shutdown of the services** (`app/app.go`, `cmd/api/main.go`, `main.ts`,
`adapters/after.ts`, `main.py`). State: the listener, the connections, timers,
threads, an exit code. Operations: a signal, the drain, the timeout. Hard:
Go's polling under a context, Node's two racing callbacks and timers that
overflow, Python's joins and its second look. Correct when exit code 0
abandons no request, giving up takes the whole timeout, and the process exits.

**Web task board** (`apps/web/src/features/tasks`). State: React state as of
the last render, two refs read at once, requests under way. Operations: type,
create, move, load, unmount. Hard: stale renders, loads answered out of order,
changes whose answer is lost and that are made afterwards.

**MCP tools and gateway** (`services/mcp-server`). State: one call of a tool,
with one or two HTTP exchanges, each under a timeout. Hard: an exchange given
up on that is carried out later, a failure between headers and body, a proxy
that answers in the service's place.

**Project initialisation, template update and features** (`template/init.mjs`,
`scripts/template-update.mjs`, `scripts/template-source.mjs`). State: the
project's files, its changelog and its provenance record. Operations: turn a
copy of the template into a project in place; generate the project as it was
and as it would be, find what stands in the way, merge the difference, record
it. Hard: three versions of a tree, two manifests that may give a path to
different features, interruptions between writes, tags that move, any order of
updates, feature changes, edits, builds, reverts and conflict resolutions.
Correct when the record names what is there, the project's own work survives
every run, and a refusal changes nothing.

**Release guard and release workflow** (`template/check-release.mjs`,
`template/release-notes.mjs`, `template-release.yml`). State: main, tags,
releases, one run under way and one waiting. Operations: check a head, merge,
look, create the release, fail, run again. Hard: pull requests that pass side
by side, a newer run that replaces the one waiting, tags made after the check
looked. Correct when one version means one output, the notes miss nothing and
main's version is published. Supplies what `init` and updates generate from.

**GitHub configuration** (`scripts/configure-github.mjs`). State: what is set
at GitHub, and how far the run is. Operations: look, create, replace or trim,
one request each. Hard: a run that stops anywhere, administrators who change
settings meanwhile, lists that come in pages. Correct when the report is true,
a later run completes an earlier one, and no publishing environment is ever
open to more than it was.

**Contract check and image probe** (`scripts/check-contract.mjs`,
`scripts/probe-image.mjs`). State: several processes, their ports and pipes,
the verdict so far. Operations: take a free port, start, wait until it answers,
send the cases, signal, stop, kill, judge. Hard: ports taken between the
question and the bind, signals that race an exit, children that outlive their
parent, requests without a deadline. Correct when the exit code tells the truth
about the services and the check ends.

**Tools, verify and setup** (`scripts/tools.mjs`, `modules.mjs`, `verify.mjs`,
`setup.mjs`). State: copies of each tool at some version in some directory,
`.tools/bin`, what is installed. Operations: install, copy file by file, run
the checks, skip or fail what cannot run. Hard: copies cut short, pins that
move, helpers a check quietly goes without. Correct when a green verify stands
for CI's.

### Components that are not modelled

| component | what it does | why not |
|---|---|---|
| configuration of the services and of mcp-server | parse PORT, SHUTDOWN_TIMEOUT, the API's address | pure functions of a string, whose cases `contract/` lists one by one and the contract check runs |
| mcp-server entry point | wires the tools to a transport | no state of its own |
| hygiene, docs, pins, facts, architecture checks, generators, coverage summary, agent-env | single passes over text files, or the start of one child process | no state and no concurrency: what they compute is in regular expressions and messages, which a model would only copy |
| ts-library | one pure function | nothing to explore |

### How they interact

The board and the MCP gateway call the services over HTTP: both models take
the service at the grain of `AtomicTasks`, one instant for each request, and
`TaskServiceProofs` proves that the services have that grain. `HttpApi` takes
the use case as one step for the same reason. The clients send and answer
under no assumption on the network. `ContractCheck` takes a service as one
that keeps the contract or has one of the flaws the check looks for. The
scripts share only files: `TemplateUpdate` contains what `init` generates and
writes, because an update is defined by it; `TemplateRelease` is what decides
which commits those scripts see as a version, and `ConfigureGithub` sets the
rules it takes for granted (a merge needs an up-to-date branch that passed).

## 2. Modules

| module | models | how it corresponds to the code |
|---|---|---|
| `TaskRules` | the domain rules | `CanTransition`, `NewTask`, `Transition`; a title is plain, blank or too long |
| `AtomicTasks` | what callers are promised | each request performed at one instant between arrival and answer |
| `TaskService` | use cases and store | one action for each critical section of the lock and each reading of the clock outside it; `pc[r]` is where the handler of request `r` is |
| `HttpApi` | one connection to one of three services | `GoRoute`, `TsRoute`, `PyRoute` and `GoDecide`, `TsDecide`, `PyDecide` are each translated from that service's own file, as are `GoAnswer`, `TsAnswer`, `PyAnswer`; `phase` and `got` are what has arrived, `clock` the time since the accept, `timer` what `Rearmed` armed at the last read; `AnswerAtOnce`, `AnswerBody`, `AnswerTooLarge`, `BodyEnds`, `HeadersLate`, `BodyLate` are the ends a request can have, `recorded` what the recorder was given and `LogRequest` the line written from it |
| `ServiceShutdown` | signal to exit code, in three services | `service` is which one, `pc` is where the main thread or loop is, `left` and `more` the timers, `conn[r]` the connections |
| `TaskBoard` | the React component | `rendered` is what handlers close over, `busy` and `latest` the refs; loads and changes are messages |
| `McpGateway` | the tools and their exchanges | `requests` and `replies` are messages; `made[c]` counts what the service did for a call |
| `TemplateUpdate` | a copy, the project init makes of it, and the update script | a file is a few hunks, a hunk's text the commit it comes from; `owners` and `marks` are the manifest and the markers of each commit; `origin`, `before`, `after`, `removed`, `kept`, `blocked`, `patched`, `Merge`, `emptied`, `recordUpdate` are the script's own stages; `ignored` is where dependencies and build output lie; `CanInitialize`, `Generated`, `StopInitialize` are init's |
| `ContractCheck` | both scripts that start services and judge them | `at[k]` is where start `k` is, `server[k]` its process, `child[k]` what the script sees of it, `holder[p]` who listens on a port; `flaw` is what is wrong with the service |
| `LocalVerify` | a machine, its tools and what verify says | `sys` and `bin` are the copies of a tool outside and in `.tools/bin`; `verify` is an operator of the state, with one entry per recorded step |
| `TemplateRelease` | main, pull requests, tags, runs, releases | `CheckRelease` is the guard, `Look` and `Create` the workflow's two requests, `Bootstrap` what a copy of main resolves to |
| `ConfigureGithub` | one run after another over a repository's settings | `todo` and `stage` are where the run is, `listed` what it last read; `NothingToSend` where the branch is already listed; `Answered`, `Refused`, `Lost` are the ends of a request |

`MC*` modules hold the instances; `*Proofs` modules hold the theorems.
Definitions introduced by "A fault:" are not part of the models: each is what
a plausible bug would make of the definition after it, and `PROJECT.json`
names the property that catches it.

Abstractions worth knowing when reading them:

- `TaskService`: ids are unique because `newID` is, so a task is named after
  the request that creates it. api-ts does the steps of a move in one turn of
  its event loop; its behaviours are among those of the model.
- `HttpApi`: sizes are units, `MaxBody` a mebibyte; api-py's limit on what it
  drains of a refused body is `MaxDrain`. A request differs from another in
  its method, target, the kind of its body, its size and its framing. Time
  stops at a timer that is due, not at a deadline: where a deadline lies
  beyond the timer, or the timer is armed for too long, the service receives
  on. api-go arms one for each phase; api-py one at each read, for what remains
  (`main.py:96`); in api-ts, Node looks for late requests at an interval of its
  own (`CheckFindsNone`), so it may be late by less than one interval. Left out:
  a client that leaves before its headers are complete, keep-alive, request
  ids, the text of answers, and api-py under another WSGI server.
- `ServiceShutdown`: a timer holds at most `Longest`; a Node timer set to more
  fires after one unit, as Node's do after a millisecond.
- `TaskBoard`: the list is one task's status and a count of the changes the
  service had made when it was read, which is what the properties compare. An
  answer that `parseTasks` refuses is one that failed.
- `McpGateway`: an answer of success that cannot be read ("malformed") is not
  JSON, no task, or a task with an unknown status: a GatewayError,
  MALFORMED_TASK or UNKNOWN_STATUS.
- `TemplateUpdate`: two edits contend when they are in one hunk. A path is a
  directory of a feature with one file in it, so that no path lies inside
  another. A build counts as one of the project's edits. A bound: a project
  that init left half made is taken back by the user, not edited. Left out:
  sources without a tag, overrides of the identity, `--latest`, and the
  dry run, which stops before it writes.
- `ContractCheck`: a service has one flaw or none, and the cases a start takes
  find it or not by what it is; the judging of one response is not modelled. A
  service that is going to start, answer or exit does so before the check's
  deadline for it. A service that takes a request and never answers it is the
  flaw "silent", which no deadline of the check ends. Another program answers
  as the contract says, otherwise, or with no HTTP at all. Left out: another
  program that accepts and never answers, a failing `freePort`, an interrupted
  check.
- `LocalVerify`: `actionlint` and `shellcheck` stand for every chassis tool
  with a check; one module stands for each toolchain. uv's asset is two files:
  once the first is copied, uv reads as pinned while uvx is still as it was.
  The retries of a fetch are one outcome, fetched or not. What a step finds is
  left open: the model tells only whether it ran as CI runs it.
- `TemplateRelease`: a commit is the version it declares and the output its
  initializer generates. A merge that keeps the version may start a run, if it
  changes `features.json` otherwise, or none; one that changes it always does.
  The ruleset (an up-to-date branch, a passed check, a squash) is assumed; it
  is what `ConfigureGithub` sets. Left out: a merge queue, the check on pushes,
  `check-publication`, failures of generation.
- `ConfigureGithub`: a setting is absent, somebody else's or the script's. Left
  out: rulesets of an organisation, the dry run, the look-up of the default
  branch.

## 3. Runs

Each property of a passing run fails under a named fault of the code it is
about.

| run | asks | bounds, and why they are enough |
|---|---|---|
| `TaskService` | linearizability (`ImplementsAtomicTasks`), legal moves, a retry only after another's change, updatedAt that does not go back, every one of finitely many requests answered | one create and three requests on its task, two readings of the clock. Three moves are one to win, one to be refused as stale and one to interfere with its retry. Proved besides for any requests and for a clock that is set back |
| `TaskBoard` | one change at a time, a list that never goes back, a failure that stays shown, the newest change shown, neither disabled nor without a list for good if every request ends | two changes by the user, so that the second can meet the loads and lost answers of the first; one move by another user; both counts of first loads (StrictMode) |
| `McpGateway` | a success was made exactly once, a refusal by a rule never will be, every call ends | two calls that race on one task which may be missing; every tool, every title, every status |
| `ServiceShutdown` | code 0 abandons nothing, giving up takes the whole timeout, the process exits | three connections (finished, idle and running at once), a timeout of three timers, the last one short |
| `TemplateUpdate` | the record tells what is there, the changelog agrees, the project's own work survives, a refusal changes nothing, a removed feature leaves nothing | three commits of two versions; a file changed, one added, one deleted; a project made with one of two features from the release or from a later copy, and a block kept only with both. Two histories: in one the second version drops a feature and what it shared is everyone's; in the other a path of one feature comes to both and a block of both to one, so that the two manifests of an update disagree. Two runs that write, the first of which may be interrupted (a run is, as long as another may follow: it is what the next one starts from that counts), one edit or build, one tag that may move |
| `HttpApi` | the contract's answer from each service's own routing and decoding, no wait past the deadlines by the timers armed, log lines that tell what was sent, only whole requests act, the connection ends | every request there is, with bodies below, at and above the limit and above what is drained; deadlines 1 and 3, and in api-ts a look every two ticks from any first one, so that each can be met, missed, and missed late by less than an interval |
| `ContractCheck` | the exit code tells the truth about the services, whoever answered on their ports (`VerdictTells`); the check ends, or waits for a service that takes a request and never answers (`CheckEnds`) | two services, the first with any flaw, the second with three, to see that a verdict is kept; two starts at once on two ports, which can hand one port to both; a pool of two starts that accept requests and one that refuses its configuration, so that two services can meet on one port; one port taken by another program at any step. The flaw and the start it shows in do not depend on how many starts there are; what only several takes bring about is left to the proof. `CheckEnds` needs that not every port is held by others for ever, which one take on two ports ensures |
| `LocalVerify` | a green verify ran every step as CI runs it or names it as skipped; CI skips nothing; the install it advises leaves no other version in use | one change to the machine (a pin, a copy, dependencies) between any two commands, with an install that may stop in the middle of a copy or between the two files of uv; every toolchain present, or a client without a service |
| `TemplateRelease` | a copy generates what its version names, no release's notes miss a change, the version main ends with is published if its run does not fail | two pull requests, two outputs and three versions: one to stay, one to advance, one to pass both. Two merges fill the running and the waiting place of the workflow, each with or without a new version; one failure, run on a branch or tag from elsewhere |
| `ConfigureGithub` | a tick is true, a later run completes an earlier one, the environment never admits more | two troubles: a run that is cut short and one disturbed after it. A page of three rulesets holds what is there at first and no longer after an addition; that of two variables likewise |

Two more runs state what a document or comment says and the code does not do:

| run | says | shows |
|---|---|---|
| `HttpApiChunked` | no difference the contract does not state (ADR-0018) | api-py takes a chunked body for an empty one |
| `McpGatewayWire` | everything that goes wrong on the wire is a GatewayError (`http-task-gateway.ts:4`) | a failure while the body is read is not |

Noticed while modelling, with no run of their own.

In the services:

- "Oldest first" (`usecase/task.go:67`, `openapi.json:20`) is the order of
  saving: of two creates that race, the clock is read at `usecase/task.go:45`
  and the task saved at `:50`, so the one saved first may have the later
  createdAt.
- Requests may finish for SHUTDOWN_TIMEOUT (`api-ts/README.md:35`), but a
  second signal kills api-ts at once: its handler is a `process.once`
  (`main.ts:37`).
- Node answers a late body with 408 itself while the handler logs a 500, and
  that answer has no `X-Request-Id`.
- api-py's deadline passing while it drains a body that is too large makes a
  500 of a 400 (`adapters/http.py:183`).
- An id with a percent escape that is not UTF-8 is a 400 in api-ts and a 404
  in the other two.
- A move has no bound on its retries (`usecase/task.go:82`): ADR-0019 says that
  each follows another's success, and an endless stream of moves to and fro
  could starve one. `EveryRequestAnswered` is about finitely many requests.
- mcp-server reports an answer whose status it does not know as UNKNOWN_STATUS
  (`domain/task.ts:93`), the code it has for a status the caller got wrong,
  and may do so after the change was made. `RefusedMeansNeverMade` does not
  take that code for a refusal.

In the template's scripts:

- `readOrigin` takes the first line of the newest version because it is the
  newest (`template-update.mjs:59`); in a changelog without its heading the
  line is written below the older ones (`:82`).
- What a removed feature owned is taken from the manifest of the project's
  release, and what is kept from that of the release asked for
  (`template-update.mjs:228`). A file of the project's own under a path that
  only the second gives to the removed feature is neither named nor deleted.
- A change of the selection drops, unnamed, a feature that the release asked
  for no longer has (`:180`); the project's own files in it stay where they
  were.
- Where an update has no file to patch it returns (`:249`) before it removes
  the emptied directories (`:271`), so ignored files can keep a removed
  feature's directory, and with it the module, present. `NothingLeftBehind`
  names these three as its exceptions.
- Init in place deletes tracked files that the project made before it under
  paths of dropped features. They stay in the commit, and `OwnWorkSurvives`
  exempts that run for this reason.
- A version that was merged may never be published, against
  `template-release.yml:6`: of three quick merges that each declare one, the
  second's run waits and is replaced by the third's. `NewestIsPublished`
  promises the last.
- A run asked for on a branch (`workflow_dispatch`) can replace main's waiting
  run, or publish a version before its merge.
- Past a page, `configure-github.mjs` takes an existing entry for a missing
  one, and GitHub refuses the POST in every later run; `SafeToRunAgain` is
  about lists that fit in a page. A transient failure of an optional setting
  is reported as "unavailable" and the run ends with 0.
- Policies of the environment are deleted before the branch's is added, so a
  run that stops between leaves it closed to everyone: safe, and completed by
  the next run.

In the checks:

- The version of uv is not compared with its pin (`verify.mjs` only probes that
  it is there), against ADR-0015:15 and ADR-0016:19: a green verify may have
  run by another uv than CI's. `GreenStandsForCI` leaves uv out.
- `install --local` without `.tools/bin` on PATH says "already on PATH" of a
  tool that verify goes on refusing. `AdviceWorks` is about a shell that has
  it there.
- An installation that stops between uv's two files leaves uvx as it was, or
  missing, and every later one finds uv at its pin and leaves it alone
  (`tools.mjs:244`). Only CI runs uvx; `AdviceWorks` is about what verify runs.
- The contract check's requests have no deadline (`check-contract.mjs:256`),
  and that of a start is looked at between two of them: a service that takes a
  request and never answers holds the check for good. `CheckEnds` names it.
- A stale `node_modules` is not seen by verify, nor Node's version with
  `--no-chassis`.
- A flaw can be missed where another task service had the port that was handed
  out: one that shows only while a service stops, or any in an end-to-end run,
  which does not look at whose answers they were. So can that of a service that
  is never ready, if another one answers for it in each of the four starts that
  wait for readiness and has left the port before the service binds it; this
  came up in the proof, as the run's one take does not reach it. `VerdictTells`
  names the three.
- A probe whose `docker run` fails after the container was created leaves it.

## 4. Fairness

- `TaskService`: a goroutine or thread that can run is run, `WF(Handle(r))`.
  Nothing makes a request arrive or the clock move. That a move ends is not
  fairness but that the other requests are finitely many, each answered once.
- `HttpApi`: time passes and the service does what it can do, `WF(Tick)` and
  `WF(Serve)`; a client promises nothing. The services' own timers, as they
  arm them, are what ends a connection.
- `ServiceShutdown`: time passes and each service's own steps are taken. Go's
  `select` between the poll's timer and the context chooses at random when both
  are ready, so the context cannot lose for ever: strong fairness for that one
  choice. Clients owe nothing.
- `TaskBoard`: every request, a change or a load, is answered or fails in the
  end, `WF(Answer)`. This is an assumption about services and browser and not
  something the board sees to: its fetch carries no signal. The user owes
  nothing.
- `McpGateway`: only the timers are fair. That is the point of the property:
  a call ends even if no service and no network ever does anything.
- `ContractCheck`: the check's own steps, and the processes it starts, go on:
  an operating system runs what can run. Other programs owe nothing, and a
  service that never answers, ignores signals or leaves a child behind is one
  of the flaws.
- `TemplateRelease`: GitHub starts a run that may start, and a run that has
  looked goes on to create, `WF(Look)` and `WF(Create)`. Nobody needs to merge,
  and nothing makes a failed run be run again.
- `LocalVerify`, `ConfigureGithub` and `TemplateUpdate` have no liveness
  property; the scripts run when somebody runs them.

## 5. Proofs

Proved for any set of requests, any sizes, limits, timeouts, histories and
numbers of steps; the assumptions are the named `ASSUME`s of each module. They
say that bounds are natural numbers, for `HttpApi` which limit is below which,
for `TemplateUpdate` what a history of the template is (numbered commits, each
with a version, the features it knows, a text for each of its files, and a
manifest and markers that name features it knows, which need agree with those
of no other commit; and files of at least one hunk), and for `LocalVerify` that
a checkout holds modules of the template. Every invariant and every action
property that a passing run checks is the conclusion of a theorem.

`HttpApiProofs` and `ChecksProofs` each extend two components, those that run
side by side in the code; nothing in one part of them is used in the other.

**`TaskServiceProofs`.** The inductive invariant is `TypeOK /\ StoreShape /\
InFlight`. `StoreShape` alone is not inductive: that a create does not store
over a task needs that nobody stored under its id, which is in `InFlight`, as
is what a move holds after it read (`HoldsReadTask`: the stored task, for as
long as no move was made to it since) and after it judged (`HoldsJudgedMove`).
From it follow `LegalMoves`, `RetryFollowsChange`, `UpdatedAtNeverBack`, and
`Linearizable`: `TaskService` implements `AtomicTasks` under the mapping that
takes a request as decided once it is answered, or once it read a task from
which its move is illegal (`Doomed`). Every other step before the answer maps
to a stutter; there is one lemma for each action.

**`HttpApiProofs`.** The invariant adds to `TypeOK` and the log that nothing is
done or logged for a request that has not been answered (`Untouched`), what an
answer sent by Node in the handler's place leaves the handler to meet
(`NodeAnswered`), what each runtime has armed its timer for (`Timers`), and what
the recorder holds between the handler's answer and its line (`Recording`).
`BoundedReceive` follows from `Timers`, which is kept because each arming of a
timer is for no later than the deadline (`RearmedInTime`). `Alike` is the theorem
with the most work in it. There are three routers and three decoders, each as in
its own file: Go's table of patterns, with one verdict on a body, and the two
that compare path and method themselves and refuse a body for one thing after
another. `GoRoutes`, `TsRoutes` and `PyRoutes` bring the routers to one form, and
`RouteAgrees` and `DecideAgrees` show what each service answers to be the
contract's first objection, which is stated apart from them as an ordered list.

Its second part is about `ServiceShutdown`. The invariant adds `Stage` (which
service can be where), `Budget` (time passed, the current timer and what is left
for the next add up to the limit, which is what makes a chain of timers as long
as one) and `Looked` (what api-py's second look can find) to the goals
`CleanExit` and `NoEarlyExit`.

**`TaskBoardProofs`.** None of the four properties is inductive. `NoneOlder`
orders the counts that are about at any moment: what the service shows is no
older than what any load read, any change was told or the list shows, and the
newest load is no older than the list it will replace. `SomethingPending` says
that between a change and the list that shows it there is the change itself, a
load, or an error. `BusyTells` ties the ref to the change under way; that the
ref is set in the event and not in the render is what makes it inductive.

**`McpGatewayProofs`.** The invariant follows one change from the call to its
result: not asked for (`NotAsked`), asked for once and not made (`Asked`),
answered by a reply that tells whether it was made (`Replied`), arrived
(`Arrived`), reported (`Reported`). A timeout gives up the exchange and leaves
the request under way, which is why the properties speak of successes and
refusals and say of a call that failed only that it was made once at most. An
answer of success that cannot be read is a failure in this sense, although its
error may carry the code of a rule (`Unreadable`).

**`ConfigureGithubProofs`.** `FoundHolds` and `ListedHolds` say what a reading
is still worth when the script acts on it: what it found holds unless others
touched the setting, and a list longer than its page stays longer. `Counted`
and `Accounted` say that no setting falls out of the plan. From them follow
what a tick means, that another run completes the work, and `NeverWider`, which
needs that policies are listed after the environment was closed.

**`TemplateUpdateProofs`.** `RefusedChangesNothing` is a fact of one step, and
the one a test would hardly settle: where the paths the script looks for are
all clear (`CanGenerate`, nothing `blocked`), git's three-way merge can apply
the whole difference, over any three versions of the tree. `NothingLeftBehind`,
whose `removed` and `kept` come from two manifests that need not agree, and
`OwnWorkSurvives` are facts of one run as well, but need that the origin is a
real version of the template. That is the invariant `Sound`: a project without
a record has at most the line of init and one of an update that stopped before
it wrote the record.

`RecordTellsFiles` is about projects without an interrupted run and is not
inductive, because a run may start from what an interrupted one left. `Based`
says it of all projects: each text of the template's in the project is what the
recorded source, or one of the interrupted runs that were kept, generates there;
and where there is no record, either the changelog's one line names the source
or an interrupted run wrote all its files. A run replaces its base by its target
in every file (`PatchedIsFrom`), and `BaseIsASource` says that the base it takes
is one of those sources. `ChangelogAgrees` is carried by `Reads`: while the
heading is where the script writes below it, the newest line that names features
names those of the record or of an interrupted run, and no line is later than
all of them. `Counted` bounds the lines and completes `TypeOK`.

**`TemplateReleaseProofs`.** `CopyGetsWhatItShows` compares two commits that no
step ever compares. `Follows` says that what may be merged agrees with main's
tip where it declares the tip's version; `TagsTell` that a tag says the same as
main's commits of that version and as a head that may still be merged as it;
`RunsOfMain` that a run publishes what main has. Together they carry the
property past merges side by side, replaced runs and tags pushed by hand.

`NotesMissNothing` is a property of the history in a tag's past, while a run
looks at it at one time and publishes at another. `Numbered` and `RunsKnown`
place each commit of a run in main, `TagsAreReleases` keeps tags and releases in
step as long as nobody pushes a tag by hand, and `Looked` says what a run's look
is still worth when it publishes: its version is not published yet, since only
one run is under way, and the version it will tell its notes since is an older
one that is. `Told` says that of the releases made, and an older version is at
most the greatest older one.

**`ChecksProofs`.** The exit code of `ContractCheck` depends on processes that
start, answer, stop and are killed while other programs take their ports. The
invariant `Inv` holds, for each start, where it can be (`Place`), what its
process, the check's view of it and its port have to do with each other there
(`Life`), and which flaws it would have shown by now unless another program was
in the way (`Held`); then, that starts take their turns (`InOrder`, `Phases`),
that a failure recorded is a real one (`Truthful`) and what the code so far says
(`Codes`). A step of one start leaves what is held of the others
(`OthersStay`, `MovesKeep`): each action has a lemma about its own start, and
`PassedTells` is the argument at the end, that a service with a flaw cannot have
passed every start undisturbed.

For `LocalVerify`, `GreenStandsForCI` and `CISkipsNothing` follow from the types
of the state by going through what verify records, so the proofs are of `verify`
itself, over any machine. `AdviceWorks` needs `InPlace`: in a shell with
`.tools/bin` first on PATH, what the install under way no longer has to fetch is
found at its pin, also after an install that stopped in the middle of a copy.
`MachineTypeOK` has uv as the exception to what a copy under way is: between its
two files it is pinned already.

Out of the provers' reach and only model-checked: liveness under fairness and
`ENABLED` (`EveryRequestAnswered`, `SettlesAgain`, `EveryCallEnds`,
`StopsWhenAsked`, `ConnectionEnds`, `CheckEnds`, `NewestIsPublished`), and what
is computed by recursion or by folding over data. The properties of the two runs
that expect a violation are false of the code.

## 6. Plan

What is left, in the order of what matters most to a user of the template:

1. The safety that liveness rests on, as theorems: that no request, call, start
   or run is ever in a place from which no step of its own leads on.
2. That the clients' steps are those of `AtomicTasks` seen over a network:
   `McpGateway`'s and `TaskBoard`'s services as instances of it.
3. Start-up of the services: configuration, a port in use, and a signal that
   comes before the listener is up.
4. Overrides of the identity and sources without a tag in `TemplateUpdate`.

Every hazard in `PROJECT.json` has a property. Where the code itself is exposed
to a part of one, the property names that part as its exception or states it as
its assumption, and the hazard's note says so: the board's requests carry no
deadline of their own (`web/src/lib/http.ts:11`), nor do the contract check's.

### Not modelled, and why

Configuration parsing, mcp-server's entry point, and the checks and generators
over text files (hygiene, documentation, pins, facts, architecture, coverage
summary, `agent-env`) are functions of their input with no state between
steps; their content is in expressions and messages. `ts-library` is one pure
function. Inside the parts that are modelled, section 2 lists what is left out
of each.
