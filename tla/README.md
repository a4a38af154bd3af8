# TLA+ models of epicoracle-feedback

These modules model the parts of the feedback substrate that are hard to test: what
happens to a submission between the operator's browser and GitHub, what the HTTP log
does under load, crash and shutdown, what the access log keeps and an admin reads of it
while others write, and what the agent workflow leaves on an issue. TLC checks them on
small instances; TLAPS proves every safety property they are checked for, and more, for
every value of the constants. `PROJECT.json` maps each definition to the source lines it
stands for. Paths below are relative to the repository (`src/...` there is the Python
package, `scripts/...` the scripts).

    tlc -workers 2 -config InboxDelivery.cfg MCInboxReplay     # a run
    tlapm InboxReplay_proofs.tla                               # the proofs of a module


## 1. The system

    browser --POST--> feedback_router --> dispatch_feedback --gh--> GitHub issue --+
                                              |   ^ search                         |
                                              v   |                      (opened / labeled)
                                         inbox.jsonl  <--rewrite-- replay script   |
                                              |------- read ------>     (cron)     v
    every request --> HttpLoggingMiddleware --queue--> drain task --> sink    agent-dispatch
                                                                       |       workflow run
                                                           access-log store         |
                                                                       |    label, comment,
                                                           admin router (read)  pull request

| component | state it keeps | operations | interacts with |
|---|---|---|---|
| feedback router (`feedback_router.py`) | none | POST, status route | calls the dispatcher in a worker thread per request |
| dispatcher (`dispatch.py`) | none of its own; the inbox file | `dispatch_feedback`, `_append_to_inbox` | sanitizer, `gh issue create`, search, inbox, event sink |
| idempotency check (`idempotency.py`) | none | `check_idempotency` | GitHub's search index, which lags behind the issues |
| sanitizer, credential scan (`sanitization.py`, `credentials.py`) | none | verdict on a text | called by router and dispatcher |
| payload, events (`payload.py`, `events.py`) | the registered sink | validation, `emit_feedback_event` | audit trail of the satellite |
| replay script (`replay-feedback-inbox.py`) | inbox, archive, its own fallback file; a copy of the inbox in memory | `replay()` | dispatcher, idempotency check; runs from cron and by hand beside the satellite |
| HTTP middleware (`http_middleware.py`, `http_events.py`) | bounded queue, drain task, two counters | request end, drain, lifespan start and shutdown | asyncio loop of the satellite, sink |
| access-log store (`access_log_store.py`) | SQLite file | insert with retention, cursor query, summary | one connection per call, several processes on one file |
| admin router (`admin_router.py`) | hits per principal | gate, rate limit, read with audit | store, event sink |
| triage, dispatch driver, agent scripts (`scripts/agent-dispatch/*.py`) | issue label, comments, branches, pull requests; the runner's checkout and container | classify, route, three attempts per script, `fix_pr`, `trinity_dispatch`, `answer_draft`, `sandbox_repro` | GitHub, models, docker; several runs on one issue |
| workflow template (`templates/agent-dispatch.yml`) | none | triggers, permissions, job timeout | starts a run |
| path guard, GHCR contract, schemas, closed-loop exercise, set-up scripts | none | checks and one-time configuration | - |

### What is hard in it, and what correctness means

*Delivery.* Threads of the satellite and replay processes share a file without a
lock; `gh` may be killed before, during or after GitHub acts; the search index is
late; disk writes break off; what is written as one line may be
read as several or as none; processes die. Correct means: what the operator was told
is true, what was queued is filed in the end and never lost, nothing is filed twice,
the archive holds only what was dealt with, refused text never reaches GitHub nor, from a
POST, a file.

*HTTP log.* Requests must never wait for the log; a burst overflows the queue; the
drain task may die; shutdown races with requests that are still finishing. Correct
means: the events in order, each at most once, one consumer, bounded memory, and
everything accepted before the shutdown reaches the sink.

*Agent runs.* Two runs may work on one issue, a script may be killed between pushing
and opening a pull request and is retried on the same checkout, label edits fail
silently. Correct means: a risky issue never gets a pull request, labels tell what
happened, verdicts stand, attempts end.

*Access log and admin reads.* Several processes insert into one SQLite file; insert,
count and delete are separate statements in autocommit; the byte cap deletes in a loop
from a file that does not shrink; pages are cut by a cursor over concurrent inserts
and prunes; timestamps are compared as text; a statement may raise after the one
before it has committed. Correct means: the caps hold but for writes under way or cut
short, the newest rows stay, every write ends, a walk through the pages
skips no row that stayed and returns none twice, nothing is read without an admin of
the tenant and an audit event, and a principal does not read more often than allowed.


## 2. Modules

| module | stands for |
|---|---|
| `IssueTracker` | GitHub as `src/` uses it: issues filed for a submission id, the search index, requests that are carried out after their `gh` was killed |
| `FeedbackDispatch` | one call of `dispatch_feedback`, with the router in front of it and the inbox behind it |
| `InboxReplay` | composes the requests of `FeedbackDispatch` with replay passes over the same inbox; holds the properties of delivery; `IsDelivery` says it implements `DeliveryPromise` |
| `InboxReplay_proofs` | type correctness and three safety theorems of it |
| `InboxRecords_proofs` | on top of those: answers, audit trail, dry runs, one issue for each submission, the implementation of `DeliveryPromise` |
| `InboxGuards_proofs` | under which conditions the documentation's promises hold of it, and that calls and passes advance |
| `DeliveryPromise` | abstract: what becomes of each request (open, declined, failed, held, stuck, exposed, filed) and which ids issues carry; no files, passes or network |
| `EventChannel` | abstract: a bounded, lossy, first-in first-out channel |
| `HttpLogging` | the middleware; `IsChannel` says it implements `EventChannel` |
| `HttpLogging_proofs` | its safety and the implementation of `EventChannel` |
| `AgentDispatch` | workflow runs on one issue, all scripts |
| `AgentDispatch_proofs` | its safety |
| `AgentBounds_proofs` | what runs share, and how many steps, fixes and pull requests a run can take |
| `AccessLogStore` | writers of several processes on one SQLite file, and what a query selects |
| `AccessLogStore_proofs` | its caps and retention |
| `AdminAccessLog` | extends `AccessLogStore` with the admin router: gate, limiter, audit, a client's walk through the pages |
| `AdminAccessLog_proofs` | its safety, and that the store's theorems hold under it |
| `MCInboxReplay`, `MCHttpLogging`, `MCAgentDispatch`, `MCAccessLogStore`, `MCAdminAccessLog` | the small instances for TLC |

Definitions that begin with a comment `Mutant:` are plausible bugs. They are not part
of a specification: each, put in the place of the definition that follows it, breaks
the property that `PROJECT.json` pairs with it.

### Delivery: IssueTracker, FeedbackDispatch, InboxReplay, DeliveryPromise

A caller is a request or a replay pass. `step[d]` says where its call of
`dispatch_feedback` stands; a new step begins at each network or file operation, where
other threads and processes interleave: `Submit` (router, sanitizer), `FoundExisting`
and `FoundNothing` (the search), `GhMissing`, `GhRejectsArgv`, `GhSends`,
`CreateLands`, `GhSucceeds`, `GhFails` (the `gh` process), `Queue`, `QueueRaises` (the
append). A pass adds `StartPass`, `KeepUnparsed`, `ParseRaises`, `SkipFiled`,
`KeepInDryRun`, `Dispatch`, `TakeResult`, `AbortPass`, `EndDryRun`, `Truncate`,
`WriteBack` and `ReplayDies`.

- The inbox is the set of its lines, each named by the request that captured it;
  `ending` says whether there is a file and whether it ends in a whole line. A line
  appended after a fragment is glued to it and lost to the parser. The order of the
  lines does not matter: a pass may take them in any order.
- A text is a class: refused by the sanitizer (`Refuses`), by the router
  (`RouterRejects`), not usable as an argument (`Unspawnable`, it holds a NUL), citing
  another id (`Quotes`), cut up when its line is read (`Splits`, and `Strays` where a
  piece is JSON by itself), or too long for a payload once sanitized (`Outgrows`). What
  the regular expressions match is left out.
- Reading is a conversion, not the identity. `ReadBack` is `read_text().splitlines()`:
  U+2028, U+2029 and U+0085, which `json.dumps(ensure_ascii=False)` writes as they are,
  end a line for the reader, so a line of `Splits` comes back as pieces. A piece is
  never a whole record, as quotes inside a text are escaped. The pieces are kept like
  any line that does not parse, and the rewrite makes the cut final; a piece that is a
  number or the like has no `.get` and ends the pass (`ParseRaises`). `Parses` is
  `_parse_record`, which validates the payload once more: a text of `Outgrows` is
  skipped and kept by every pass. A `GarbledLine` is what an append cut off inside a
  multibyte character leaves: `read_text` raises, so `StartPass` needs an inbox without one.
- Appends by live processes are atomic; a broken-off append is the fault "disk", a
  kill is "crash". Rewriting is two steps, as `open("w")` empties the file long before
  the text is written.
- `exposed` is a history variable. A line enters it in exactly four windows: it is
  appended or written back while another pass is going to overwrite the inbox from a
  copy without it; it is appended after a fragment; the pass that holds it dies
  between truncating and writing; a committing pass has read it as pieces.
  `QueuedNotLost` says that nothing outside these windows is lost, so it stays useful
  although the windows exist. Not lost is not filed: what never drains although it is
  there is `stuck` in `DeliveryPromise` and excused by name in `QueueDrains`.
- `DeliveryPromise` has two variables, mapped by `tracked <-` the ids some issue
  mentions and `fate <-` `Fate(r)` of each request. `Fate` reads off outcome, issues,
  files and passes at once; a queued line that is neither filed, nor safe, nor exposed
  is "lost", which is no fate of the abstract module.
- Client-side 422 validation, authentication and the status route change no state.

### HTTP log: HttpLogging

One action is what the event loop runs without suspension; `queue.get()` on a
non-empty queue does not suspend, so a drain task that runs takes all that waits
(`DrainAll`) or all up to the `None` (`DrainToSentinel`). `queue` holds the events,
`sentinel` the place of the `None` among them. `delivered` is what was handed to
`emit_http_event`, which swallows the sink's exceptions; the middleware's promise ends
there. `DrainCrashes` is an exception the `except` does not catch. Drain tasks are
numbered as they are spawned. The lifespan goes down, up, putting (waiting to put
`None`), awaiting, and stopped or failed; then the loop closes. Requests may end in
any phase, also after the shutdown, when a new drain task may start beside the old.

`EventChannel` knows nothing of tasks, the `None` or the lifespan: events are accepted
when there is room, may be turned away when at most one place is left (the `None` may
hold it), and are handed over in order. Refinement: `Events <- Requests`,
`Capacity <- maxsize`, the three histories by their own names.

### Agent runs: AgentDispatch

`pc[w]` follows one run through `triage.py`, `dispatch.py` and the scripts. Issues are
classes (kind, risk, unsupported request, well-formed body), setups are the secrets
and permissions of the workflow. `Classify` is the decision of `triage.py`;
`TransitionStatus` is one `gh` call that either lands or is silently lost. A proposal
is a fix of a single file on a branch of its own; different proposals are different
files and branches. `tree` is what the run's checkout has beyond `main`: a retried
`fix_pr.py` finds there what its predecessor committed. Every run has a fresh
checkout. A review takes two models one after the other (`Critique`, `Reconcile`), an
answer one (`DraftAnswer`); both end in one comment (`PostAdvice`, `PostFails`), and
`posted` records each comment with the attempt it is from, as `gh` may fail or time out
although the comment is there. `SetupFails` is any step of the workflow before the
triage (checkout, Python, the environment's gate): the job ends with no label. A kill
is the job's own timeout. Prompts, model answers and the path allow-list are the
choice between going on and `ModelIsNoHelp` or `NoReconciliation`.

### Access log: AccessLogStore, AdminAccessLog

`table` maps the rows to their ids, in the order of arrival; `pc[t]` is the statement
`write_entry` has come to: `Insert`, `CountRows`, `DeleteExcess`, `CheckSize`,
`CheckLoop`, `DeleteBatch`, `Checkpoint`. Threads of one process exclude each other by
the store's lock, processes do not. `TextOf` orders instants as SQLite orders their
`isoformat()` text: an exact second has no microseconds and sorts after every fraction
of its second. `slots` and `wal` stand for the size of the file and of its `-wal`, in
rows and frames: a `DELETE` frees pages inside the file and adds a frame, only a
checkpoint truncates the `-wal`, and nothing vacuums the file. SQLite is external: its
statements are atomic and a writer waits for another's, 30 s at most: then, or on a
full disk, the statement raises, the sink's caller (`emit_http_event`) swallows it, and
the write ends where it is (`StatementFails`, `SelectFails` for a read). Its INSERT has
committed by then, so the row stays and nothing is pruned.

The router adds a request in three steps, cut where other processes can act:
`Authorize` (address, role gate, development stub, limiter), `CountPage` (refusals,
audit, `COUNT`) and `SelectPage`; `RefuseRead` and `BadCursor` are the ways out in
between, `Summary` is a single `SELECT`. `store.query()` runs on the event loop, so
nothing else of the router runs between its two statements (`LoopFree`), while other
processes do. `walk[c]` is what a client knows: its `since` and `until`, and the cursor
of its last page. `KillProcess` of the router's own process forgets hits and requests.
`owed` collects the rows that were due on every page so far: inside the window by
their instants, but not in the second of one of its bounds, where text and time
disagree, and not sharing timestamp and correlation id with another row, as the cursor
cannot tell those apart. Without `until` the window's end slides from page to page
with the clock, and so does the default `since`, a day before it.


## 3. Runs

| run | instance | states | shows |
|---|---|---|---|
| `inbox_delivery` | a request and its retry, two replay scripts, lagging index, 3 faults of all 6 kinds, symmetry | 2 026 854 | `QueuedNotLost`, `ArchivedIsFiled`, `RepliesAreTrue`, `AuditIsTrue`, `DryRunIsInert` |
| `inbox_texts` | five requests with a text of each class (plain, refused, rejected, cut up with a stray piece, outgrown), a line of an older release, one replay, 2 faults | 571 920 | `AtMostOneIssue` (with a prompt index and no late request), `RefusedStaysOut`, `IsDelivery`: every fate occurs |
| `inbox_drain` | four requests (plain, with a NUL, cut up, outgrown), one replay, 2 faults, fairness | 120 876 | `EveryRequestAnswered`, `QueueDrains` |
| `http_log` | four requests, two places, one crash, shutdown at any time, fairness | 66 498 | six invariants, among them `ShutdownCanGoOn`, `IsChannel`, `AcceptedIsDelivered`, `ShutdownEnds` |
| `agent_runs` | two runs, 8 issue classes, 4 setups, 2 fixes, 3 faults, fairness | 602 936 | eight invariants, among them `OnePrPerBranch`, `VerdictStands`, `EveryRunEnds` |
| `access_log_writes` | two processes, three threads, five entries, a cap of two rows, a byte cap of five, one write cut short, fairness | 398 187 | `RetentionBound`, `OneWriterPerProcess`, `KeepsNewest`, `WriteEnds` |
| `access_log_reads` | an admin and a user with a forged header, a writer in another process, four entries, pages of one row, a limit of two hits, one write cut short | 3 374 530 | `RateIsBounded`, `ReadsAreAudited`, `WalkIsComplete`, `NoRowTwice` |
| `find_*` | the smallest instance that shows a disagreement of code and documentation | - | section 6 |

*Why the bounds are enough.* Every counter is bounded by `MaxFaults`, `MaxCrashes` or
`MaxCuts`; three faults allow, for instance, a lost `gh` answer, a broken-off append and
a crash of the pass that meets its fragment. Where the texts differ (`inbox_texts`,
`inbox_drain`) two are enough to queue one line and break the file behind it; in both,
and in `inbox_delivery`, a broken-off write may end inside a character. The retry of one
submission and two passes are the fewest actors for which every pair of the
interleavings of section 1 occurs; as their texts are one and the passes alike,
`inbox_delivery` takes them up to symmetry, its properties being safety only. In `http_log` two places and four requests fill the
queue, overflow it and leave a straggler behind the `None`. In `agent_runs` uncounted
failures (model, docker, `gh pr create`) may happen at each attempt, so all three
attempts can fail; the eight issues reach every branch of `classify` and every refusal
of the scripts, the four setups are all rights, the template as shipped (no push, no
sandbox), one key, and no key. In `access_log_writes` two threads contend for one lock
and a second process prunes beside them, and a kill or a statement that raises may end
any write once (the counts of `RetentionBound` take each such event for itself); five
entries exceed both caps, one is at an exact second and two share an instant. In
`access_log_reads` one admin walks (a second reader adds nothing: readers share only the
limiter's table, in which each has a key of its own; the proofs cover any number); pages
of one row make every row a page boundary, inserts and prunes fall between any two
pages, and the clock runs past a whole window of the limiter. Runs do not check
deadlock: each system may be quiescent (no one submits, all is filed, the satellite has
exited, all workflow runs have ended).

*Fairness.* `InboxReplay`: weak fairness of each call and of each pass, because a
thread or process that can run does, and the subprocess timeout bounds `gh`; strong
fairness of starting a committing pass, because cron starts it again and again while
at times none can start; weak fairness of the index catching up (`inbox_drain` itself has
a prompt index: a late one files twice, but delays no line). Nothing obliges an
operator to submit or a late request to be carried out. `HttpLogging`: weak fairness
of the drain tasks and of the shutdown's own steps, because the loop runs ready
tasks; requests and the beginning of the shutdown are free. `AgentDispatch`: weak
fairness of the steps of a triggered run. `AccessLogStore`: weak fairness of a thread
inside `write_entry`, as it waits for no one but SQLite, whose busy timeout ends the
wait. Faults are never fair.


## 4. Proofs

The theorems of the table hold for any finite or infinite set of
requests, runs and submissions, any sizes and any fault budget. All rest on the named
`ASSUME`s of the modules: the types of the constants, and that the names of requests,
replays and lines are distinct. The theorems marked * state a further hypothesis, on
the use of the satellite or on a change of the code, which their comments justify.

| theorem | property |
|---|---|
| `InboxReplay_proofs!TypeCorrect`, `QueuedNeverLost`, `ArchiveIsSound`, `RefusalsStayOut` | `TypeOK`, `QueuedNotLost`, `ArchivedIsFiled`, `RefusedStaysOut` |
| `InboxRecords_proofs!AnswersAreTrue`, `AuditTrailIsTrue`, `DryRunsAreInert`, `OneIssueEach`* | `RepliesAreTrue`, `AuditIsTrue`, `DryRunIsInert`, `AtMostOneIssue` |
| `InboxRecords_proofs!OneIssueWhenSerial`* | `AtMostOneIssue` |
| `InboxRecords_proofs!ImplementsDelivery` | `IsDelivery`: router, dispatcher and replay implement `DeliveryPromise` |
| `InboxGuards_proofs!NothingLostWhenGuarded`*, `OwnIssueUnlessQuoted`* | `NothingLost`, `DedupIsOwnIssue`, which section 6 refutes without the hypothesis |
| `InboxGuards_proofs!PassesRunThrough`*, `CallsAndPassesAdvance` | a pass that has begun ends only with its rewrite or as a dry run; calls count down, passes take each line once |
| `HttpLogging_proofs!TypeCorrect`, `NothingLostInQueue`, `QueueIsBounded`, `OneConsumer`, `ShutdownHasFlushed` | `TypeOK`, `InOrder`, `Bounded`, `SingleConsumer`, `ShutdownFlushes` |
| `HttpLogging_proofs!ShutdownIsNotStuck`, `CleanShutdownLosesNothing`* | `ShutdownCanGoOn`; without a crash every shutdown returns normally and has flushed |
| `HttpLogging_proofs!ImplementsChannel` | `IsChannel`: the middleware implements `EventChannel` |
| `AgentDispatch_proofs!TypeCorrect`, `RiskyIssuesGetNoPr`, `FixReadyIsNoCourtesy`, `EveryOutcomeIsVisible`, `CleanRunsOpenOnePr`, `VerdictIsFinal`, `AdviceIsWhole`, `AdviceIsGivenOnce` | `TypeOK`, `NoPrForRisky`, `FixReadyIsTrue`, `OutcomeIsVisible`, `OnePrPerRun`, `VerdictStands`, `AdviceHasItsVoices`, `AdviceOnce` |
| `AgentBounds_proofs!BranchesAreNotShared`, `PullRequestsAreBounded`, `RunsAreShort` | `OnePrPerBranch`; at most three pull requests of at most three fixes per run; at most fifty steps, none of which goes back |
| `AccessLogStore_proofs!TypeCorrect`, `RetentionHolds`, `WritersAreExclusive`, `NewestAreKept` | `TypeOK`, `RetentionBound`, `OneWriterPerProcess`, `KeepsNewest` |
| `AccessLogStore_proofs!LogKeptUnderCap`*, `ByteCapTakesAll`*, `WritesRunOut` | `LogIsKept` below the byte cap; above it a write leaves nothing; every statement of a write uses up what only inserts refill |
| `AdminAccessLog_proofs!AdminTypeCorrect`, `RateBounded`, `ReadsAudited`, `WalkCompletes`, `NoRowReturnsTwice` | `AdminTypeOK`, `RateIsBounded`, `ReadsAreAudited`, `WalkIsComplete`, `NoRowTwice` |
| `AdminAccessLog_proofs!AnyWindowIsBounded` | no window, wherever it begins, holds more than `limit` passes of a principal |
| `AdminAccessLog_proofs!RouterKeepsStore` | the router's steps are steps or stutters of `StoreSpec` |

*Delivery.* None of the invariants is inductive alone. `Shape` says when a pass
carries a line and that a truncated inbox belongs to a pass that has seen every line;
`CallsAreTrue` says what a call has learnt so far (a searchable id has an issue, a
success of `gh` has an issue, an outcome tells what happened); `NoRefusedLine` says
that no refused request has a line on disk or in memory (a refused line of an older
release may have both, and is archived). With them, each of the three invariants is kept
by every action. `QueuedNotLost` is about lines as they are read back, cut up or not: a
line that a committing pass reads as pieces is exposed when it is read, and a line that
is there but cannot be used is still there.

*Answers and records.* `Recorded` adds that each answer has its event; with
`CallsAreTrue`, which ties the events to issues, both are true. `OneIssueEach` is a
theorem with an assumption, `OneAtATime`, on the surroundings the code relies on: a
prompt index, searches that answer, no request carried out after its `gh` was given up,
one replay at a time, and one delivery of each submission that is not refused. Its
invariants are `LineAfterAnswer` (a request has no line anywhere before it is answered)
and `FirstToFile` (a call past its search, whose issue has not landed, is for an id
without an issue): request and replay never have a submission in hand together.

*The promise.* `KnownFates` shows from the invariants above that a fate depends only on
the answer, the issues and `exposed`, and is never "lost". `StepKinds` sorts the steps:
one answers a single request and adds no issue, another may add an issue and exposes
nobody, a third does neither. They map to `Answer`, `File` and `Expose`, or to a
stutter. A text that outgrew its payload goes from open to stuck, never to held. The
theorem, unlike the run, covers overlapping passes, retries, quoted ids, late requests
and a lagging index.

*HTTP log.* `LifespanShape` says which tasks and whether a `None` can exist in which
phase, `FlushPending` that during the shutdown the events put before the `None` are
exactly those ahead of it or already delivered. The proof that the middleware
implements the channel shows that each action maps to an accept, a turning away, a
hand-over or a stutter; it rests on the inductive invariant and on `Recorded`: an
event in one of the histories belongs to a request that has ended.

*Agent runs.* Runs share labels and branches, but no property of a run rests on what
another wrote there. The invariant is therefore a predicate `RunOk(w)` of a single
run: `Routed` (which script a stage belongs to), `Told` when it is over, something to
show before fix-ready, needs-human only at the end, and `CleanTree` (without an
exception nothing is committed before the only attempt). One lemma per action shows
that the run that steps keeps `RunOk` and leaves the others alone; `OthersKept`
carries theirs over. A second layer, `Advised(w)`, rests on it: a script that works has
its keys, one that is about to comment has accepted the issue, and as long as the run
can still be attempted again (`Early`) it has not commented.

*Access log.* Retention is an invariant on counts: each row above the cap is owed to a
writer that has inserted and not pruned, or to one cut short by a kill or by a statement
that raised. `KeepsNewest` rests on a
stale count never being too large while no two prunes overlap. `RateIsBounded` follows
from `LimiterInv`: the hits of a principal are the last ones admitted, and those popped
are a window older than any to come. `ReadInv` ties a request's stage to its audit and
to an admin. `WalkInv` says that what a walk has returned is not past its cursor and that
every row owed is returned or past it; the argument is about sets cut by the page
order and needs no bound on pages or writers.

*Conditions.* Section 6 lists sentences of the documentation that the code breaks.
For each there is a theorem that says when it holds, which is also what a repair has
to bring about:

- Nothing queued is lost if the inbox is locked and written in one piece (`Guarded`:
  no append while a committing pass is between reading and writing back, one such
  pass at a time, no fragment, and no death between truncating and writing) and if
  no text holds a line end that only the reader knows (`Splits = {}`; reading with
  `split("\n")` would bring that about). The two parts of the lock and the two of the
  writing are all needed: with any of them left out TLC finds a lost line in the
  instance of `inbox_delivery`.
- A submission that is deduplicated or archived as such has an issue of its own if no
  text cites the id of another submission.
- A pass that has begun reaches its end if every text can be an argument, no piece of a
  cut text is JSON by itself, and neither appends nor the script itself fail
  (`NothingRaises`). A file that is not UTF-8 keeps a pass from beginning, which no
  condition here rules out.
- No submission is filed twice if index and searches are prompt and a call is alone
  with its submission from its search to gh's answer (`Serial`); `OneIssueEach` derives
  `Serial` from `OneAtATime`, so a use without overlap needs no lock.
- The log is kept if one process writes it and the file stays below `max_bytes`;
  `ByteCapTakesAll` shows that nothing weaker will do, as a write that finds the file
  above it deletes every row.

*Bounds of the agent runs.* A branch enters the remote only with a push that finds it
absent, and the run that pushed it is the only one that may open the request:
`BranchInv` says so of the branches pushed and not yet requested. `FixInv` counts: an
attempt adds one fix to the checkout, so fixes never exceed attempts. `Rank` measures
what is left of a run: the attempts still allowed, then the place in the script.

*What liveness rests on.* The liveness properties (`EveryRequestAnswered`,
`QueueDrains`, `AcceptedIsDelivered`, `ShutdownEnds`, `EveryRunEnds`, `WriteEnds`) are
only model-checked, as fairness and `ENABLED` are out of the prover's reach. Their
safety part is proved: `RunsAreShort`, `WritesRunOut` and `CallsAndPassesAdvance` give
the measure that each step of a run, a write, a call or a pass uses up, so that none can
go round in circles; `ShutdownIsNotStuck` says that what a waiting shutdown waits for
can come; `PassesRunThrough` names what must not happen for a pass to come to its
rewrite. What is left to TLC is that the scheduler lets the steps happen, on the
instances of the runs. Every other property of a passing run is a theorem.


## 5. Not modelled

- The texts of issues, comments, prompts and log lines; the regular expressions. Of a
  text in the inbox the classes of section 2 are left.
- The sink's own work behind `emit_http_event` and `emit_feedback_event`, and the
  registration of a sink.
- The path guard: a pure match, and the workflow runs it only when `PR_NUMBER` is set,
  which nothing sets. The GHCR contract and the schemas: validation without state.
- The closed-loop exercise, the set-up scripts and the CI workflows.
- Of the access log: the optional filters besides tenant, window and cursor and the
  statistics of a summary, which change nothing; `count()`, which nothing in `src/`
  calls; a vacuum or a deletion of the file by hand.


## 6. Where code and documentation disagree

Five runs end in a counterexample. Each checks one sentence of the documentation.

- `find_append_lost` / `NothingLost`: a line appended during a replay pass is
  overwritten by the rewrite (`replay-feedback-inbox.py:160`), against
  `dispatch.py:32-33` "nothing the operator typed is lost".
- `find_index_lag` / `AtMostOneIssue`: `gh` times out after GitHub created the issue,
  the line is queued, and the replay's search does not know the issue yet; against
  `dispatch.py:34-35` "idempotency check prevents double-create".
- `find_quoted_id` / `DedupIsOwnIssue`: an issue that cites another submission's id
  counts as that submission's issue, and its queued line is archived unfiled.
- `find_poison_line` / `QueueDrains`: a queued text with a NUL ends each pass before
  the rewrite; neither it nor the lines behind it are filed.
- `find_byte_cap` / `LogIsKept`: once file and `-wal` are larger than `max_bytes`, the
  loop of `access_log_store.py:299` deletes until the table is empty, the row just
  written included, since a `DELETE` makes neither of them smaller; against line 56
  "Append one access-log row and enforce retention caps" and
  `_briefs/wB-observability-substrate.md:302` and `:440`.

Met while modelling, without a run of their own:

- Delivery. Two overlapping deliveries of one submission both search, find nothing and
  create (no lock; excluded in `inbox_texts` by giving each submission one delivery).
  `dispatch_feedback` "Never raises" (`dispatch.py:298`) but a NUL raises. A line of an
  older release that the sanitizer refuses at replay is archived in full like a filed
  one (`replay-feedback-inbox.py:154-156`), though "Intake refusals are explicit and are
  not persisted" (`dispatch.py:331-332`); `RefusedStaysOut` and `ArchivedIsFiled` name
  the case.
- Reading the inbox. Against "nothing the operator typed is lost" (`dispatch.py:32-33`)
  and besides `find_append_lost`: a text with U+2028, U+2029 or U+0085 is written as one
  line (`dispatch.py:221`) and read as several (`replay-feedback-inbox.py:106`), no piece
  parses, and the rewrite makes them lines of their own; a piece that is JSON but no
  object raises `AttributeError` (line 59) and ends every pass. Redaction and the fence
  replacement may make a text longer than its field (`sanitization.py:81`), `model_copy`
  (line 87) does not validate, and `_parse_record` (lines 63-79) does: the line is
  skipped and kept by every pass. A fragment that ends inside a character makes
  `read_text` raise in every pass, until someone repairs the file by hand.
- HTTP log. The handler that counts sink failures (`http_middleware.py:179`) is not
  reachable, as `emit_http_event` swallows them. A shutdown hangs when the drain task
  has crashed with a full queue and no request comes (`ShutdownEnds` names the case).
  After a shutdown two drain tasks may be alive (`SingleConsumer` ends there).
- Agent runs. When `git push` times out, `fix_pr.py` is started again on the branch it
  left, and its pull request may change two files, against `fix_pr.py:25` "No multi-file
  changes in v0.2" (`OnePrPerRun` names the case). A high-risk bug is routed to
  `trinity_dispatch.py` "regardless of kind" (lines 4-8), which hands every issue that
  is no suggestion to a human without a review (line 426). A failed comment leaves the
  status "so a follow-up run can retry" (`answer_draft.py:282`), and nothing starts one.
  A skipped or failed step can leave an issue "processing" for ever (`OutcomeIsVisible`
  names the seven cases, among them a set-up step that fails before the triage and the
  job's own timeout). The docstring of `dispatch.py` has `trinity_dispatch.py` followed
  by `fix_pr.py` (line 8), which would draft a pull request for a risky bug; the table
  (lines 41-50) has had no such step since v0.2, and `NoPrForRisky` is about the table.
  The template's `contents: read` makes every push of `fix_pr.py` fail.
- Access log. A statement that raises after the INSERT (locked for 30 s, disk full)
  leaves the row in place and the caps unenforced until the next write
  (`access_log_store.py:285-297`), and the caller learns nothing (`RetentionBound`
  counts the case). An exact second sorts as the last instant of its second, so a window
  that begins or ends within it may leave rows of that second out or in (`Due`). Rows
  with the same timestamp and correlation id cannot be told apart by a cursor
  (`HasTwin`). A page's `total` and rows come from two statements. Overlapping prunes
  may delete more than the excess (`KeepsNewest` names the case). The limiter is kept
  per process and forgets at a restart. An awaited gate that raises ends the request
  instead of counting as nobody (`GateFindsNobody`).


## 7. Plan

Done, in this order: delivery (`IssueTracker`, `FeedbackDispatch`, `InboxReplay`,
`DeliveryPromise`), HTTP log (`EventChannel`, `HttpLogging`), agent runs
(`AgentDispatch`), access log (`AccessLogStore`) and admin reads (`AdminAccessLog`),
each with its proofs.

Then the measures, bounds and conditions of section 4 (`InboxGuards_proofs`,
`AgentBounds_proofs` and the last part of each other proof module).

Left to prove: that a new drain task after a shutdown is at most one beside the old
(`SingleConsumer` ends there); a measure for the drain task; that two overlapping
prunes delete at most their two excesses. Left to model: the sink between
`HttpLogging` and `AccessLogStore`, the satellite's own callback, which lies outside
this repository's `src/`, would join the two models.
