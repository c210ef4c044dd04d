# sitesift in TLA+

sitesift crawls a list of URLs politely, keeps what it found in a SQLite
frontier, and has a language model classify each page. What is hard about it is
not any single function but what happens between them: a process can be killed
between any two commits, many fetches share one limiter and one robots cache, a
model answers whatever it likes, and an operator reruns, requeues and
reclassifies the same database for weeks. These modules model that part of the
code, TLC checks them on small instances, and TLAPS proves the central claims
for every instance.

Paths below are relative to `src/sitesift/`.

## The system

| part | state | operations | interacts with |
|---|---|---|---|
| frontier (`frontier/store.py`) | tables `urls`, `evidence`, `page_records` | one transaction per method | called by the pipeline and the CLI |
| pipeline (`pipeline.py`, `cli.py`, `output/jsonl.py`) | a session: its workers, two semaphores, counters, the JSONL file | `run`, `reclassify`, `requeue` | awaits the fetcher and, in a thread, the ladder |
| limiter (`net/limiter.py`) | global semaphore, a lock and a time stamp per host | `__aenter__`, `__aexit__` | entered by the fetcher for each request |
| fetcher (`net/fetcher.py`) | per fetch: hop, attempt, pinned address | `fetch`, `_fetch_once`, `_fetch_robots`, `_finalize` | limiter, robots cache, guard, the network |
| robots cache (`net/robots.py`) | policy per host | `get`, `set`, `set_from_fetch` | shared by all fetches |
| guard (`net/guard.py`) | none | `aresolve_and_validate`, `validate_ip` | called on every hop |
| ladder (`classify/ladder.py`, `classify/llm/`) | none between pages | `classify`, `complete`, `_repair` | the model's server |
| taxonomy (`taxonomy/loader.py`), validation (`classify/validate.py`) | the loaded tree | `_parse`, `is_descendant`, `to_verdict` | used by the ladder |
| intake (`frontier/normalize.py`, `filters.py`) | none | `normalize_url`, `prefilter` | the populate loop; its result is the key of the frontier |
| extraction (`extract/`) | what was counted and found so far | `build_evidence`, `language_from_evidence` | called between fetch and ladder |

The behaviours that are hard to test, each at its line, are listed in
`PROJECT.json` under `hazards`, with the properties that watch over them.

## The modules

    Frontier <- Pipeline <- MCPipeline, PipelineProofs
                Pipeline <- Processes <- MCProcesses
                PipelineProofs, Processes <- ProcessesProofs
    UrlLifecycle <- Pipeline (refined)
    PoliteHost <- HostLimiter (refined) <- MCHostLimiter, HostLimiterProofs
    Fetcher <- MCFetcher, FetcherProofs
    Guard <- Intake <- MCIntake, IntakeProofs
    Extraction, Ladder <- Judging <- MCJudging, JudgingProofs
    Topics <- MCTopics, TopicsProofs
    LoopLemmas <- IntakeProofs, JudgingProofs

**Frontier** has one operator per store method. Each method of the code runs in
one `with self._conn:` block, so each operator is one atomic change of the
columns that are ever read back. An evidence payload is the page it came from.

**Pipeline** composes the store with the sessions that use it. `phase` is where
the session is, `work[u]` where the worker of URL `u` is; `held`, `verdict` and
`fault` are its local variables, `out` what the JSONL file says last about `u`.
The event loop runs one worker at a time between two awaits: `Alone(u)` says
so, and the states in `Hot` are the points between two commits without an
await, where nobody else moves but a kill can still fall. `Begin`, `Bump`,
`FetchOk`/`FetchFails`, `StartJudging`, `Judge`, `Emit`/`EmitError` follow
`_process`; `Raise`, `HandleUnexpected` and `Abort` are the exception paths, and
`Cancel` is what a task group does to the others. What the fetch and the ladder
return is nondeterministic here, within what Fetcher and Ladder produce
(`OutcomesAreExpected` proves that `Judgments` allows all the ladder's outcomes).

**UrlLifecycle** is the abstract specification of the frontier: the state machine
of one URL row behind `UrlStatus` of `models.py`, with no sessions, permits,
exceptions or files. A URL is busy while some worker is responsible for it;
`Pipeline!Lifecycle` is the refinement mapping (busy: a worker that is not
closed). It says what the sum of all store methods, workers and faults may do
to a row: only a pending row is fetched, only a stuck row nobody works at is
recovered, a verdict judges the stored evidence and needs it, a failure keeps
what is known of the page, and only the operator reopens anything. `models.py`
sends the reader to a document for these transitions that the repository does
not contain; the module is written from the code.

**Processes** puts two Pipelines on one store and one output file. The second
one is `INSTANCE Pipeline` with private variables of its own; nothing in
`cli.py` or `store.py` stops an operator from starting it.

**Intake** follows a line of the input file to the row it becomes: `normalize_url`
with its helpers in their order, `prefilter` with its gates, and `INSERT OR
IGNORE` under the key. A path is a sequence of tokens, each one character or
one percent-triple; `Turn` is a turn of `_remove_dot_segments` over its two
buffers. A host is a name in one of its spellings: `HostSpelling` says which of
them are brought to one, and which ways of writing an IPv4 address are left as
they are. A key or value of the query is an atom, and `Decode` what `parse_qsl`
makes of it: texts that are no UTF-8 become the replacement character. The
reference is `Page`: which page a line names by RFC 3986 and form encoding, the
path read token by token with a stack of segments, the parameters counted, with
no canonical spelling and no order. `Relist` feeds a key of the output back in. A row may then be fetched: **Guard** decides
which of the resolved addresses may be pinned. An address is the form it is
written in and the kind of place it is or leads to.

**Extraction** is `build_evidence` after the fetch: the charset, the loops over
links and JSON-LD turn by turn, the deterministic flags, and the language
block as it is detected, stored and rebuilt. A page is what the parser
libraries find in it. `Json` is what `json.loads` can return from its scripts,
with every part of it; that this is finite is `JsonAssumption`, by the `Depth`
each part nests to. `Visit` is one call of `_walk_jsonld`, and `walk` the calls
still to come. The reference is `ObjectsIn`: the objects of a piece of data, read
off its nesting without a stack. A script nested beyond Python's recursion limit is
one kind, `"deep"`, whether `json.loads` or `_walk_jsonld` meets the limit: either
way the page ends there. **Judging** composes the extraction with Ladder:
the flags of the evidence are the `blocking` of the ladder.

**HostLimiter** models `_HostSlot` over anyio's primitives, which hand a permit
or lock to the first waiter at release. Time advances in ticks; the age of a
host's last request stops counting at the largest delay. `HostDelay` is
`Fetcher._host_delay`. The task group of a run cancels all its tasks at once
(`Cancel`, `CutOff`). Inside the body of the `async with` a task still runs
`__aexit__`; cut off in `__aenter__`, between its permit and its request, it runs
none and keeps the permit, and the lock if it had it (`"cutOff"`). The limiter
dies with its run, so that nobody waits for them. **PoliteHost** is the abstract
specification: what `docs/politeness.md` promises a server, one request at a time
and a minimum delay between the end of one and the start of the next, with no
locks, permits or sleeps. `HostLimiter!Promise` is the refinement mapping.

**Fetcher** models `fetch` around `_fetch_once` for concurrent fetches that share
the robots cache and the slots. A response is a record of what the gates of
`_finalize` look at; a robots.txt is the set of URLs it disallows. An exception
that is no `httpx` error leaves `_fetch_once` as `"raised"`, and Pipeline's
`Raise` continues there.

**Ladder** models `Ladder.classify` over either provider, and is run through
Judging. An answer is a confidence and whether a site type was named. `Refuse` is
every failure a client turns into a `ClassifyError`; `Garble` is one it does not,
and the ladder does not catch it: a 200 answer of Ollama that is no JSON, or an
answer the SDK of Anthropic cannot validate in `messages.parse`. A request is a
call of the client library; that the Anthropic SDK repeats an HTTP request of
its own accord is not seen.

**Topics** models the loops of `_parse`, `to_verdict` and `is_descendant`, one
turn per step. The reference it is checked against, `Above`, computes ancestors
as a set, without the walk.

The operators introduced by "Slip:" are mistakes a maintainer could make in the
definition below them. They are not part of any specification: substituted for
the definition, each makes the property named in `PROJECT.json` fail.

## What the runs check

| run | question | bounds |
|---|---|---|
| `pipeline` | types, evidence behind every verdict, output and counters that agree with the frontier, nothing left undone, nothing finished touched; UrlLifecycle is refined | 2 URLs (one listed twice), 2 pages, 2 sessions, every fault |
| `pipeline_ends` | every session ends; every URL a run took comes to its end, however the others raise; nothing finished moves without a requeue | 3 URLs, one of them filtered at first, 2 permits, model gate of 1, 2 sessions, exceptions, Ctrl-C, an operator requeueing `failed_fetch` and `classified` rows under a live session and any rows between sessions |
| `processes` | two processes strand no row, and a finished row at which neither has a worker stays as it is | 1 URL, 2 sessions of the first process, 1 of the second, kills and failing transactions |
| `intake` | one row per page, named by its key, stable when fed back, but for the spellings named under `Clear`; filters and guard let through what they should | any 2 of 387 lines, 66 answers of the resolver, paths of up to 4 segments, `MaxUrlLength` 5 |
| `judging` | JSON-LD, flags, link counts and language of the evidence; spending, settling, what is kept | pages with 2 links or 2 scripts, both sides of every threshold, both providers and none, confidences around both thresholds and outside 0..1 |
| `limiter` | locks, permits and spacing, also when the run is cancelled anywhere; everybody is served; PoliteHost is refined | 3 tasks, 2 hosts, 2 permits, `min_host_delay` 3, crawl-delays 0, 1 and 5 against a clamp of 2..3 |
| `fetcher` | slots, pins, robots checks, retries, bounds; every fetch ends | 2 fetches, 2 hosts, 3 URLs, 1 redirect, 1 retry, 12 kinds of answer, `respect_robots` on and off |
| `topics` | loading, resolving, termination | every file of 3 nodes on 3 tiers, every answer of 2 topics |

Why these bounds are enough: the interesting orders in the pipeline need one
URL and several sessions (a row is only ever touched by its own worker and by
the operator), or a few URLs in one session (permits, cancellation, the counters);
both are there. Requeues do not count as sessions and are unbounded. That the
safety properties hold for more of everything, a requeue beside a session of
any length included, is what the theorems below say. Two tasks contend for a
host and a third one waits for the permit they hold. Two fetches suffice for the
race on the robots cache; one redirect and one retry exercise both loops to
their bound. The cycles a taxonomy file can hold show up with two nodes, a
second tier below them with three.

Two processes meet at a row, and rows are independent of each other, so one
URL is enough for them; the first process needs a second session to recover
what it left itself while the other one works. Whether two lines share a row is
a question about two lines. A dot segment acts on the segment before it and
leaves what comes after; four segments hold each pair of them at either end.
`Resolve` happens after one line only, since what the guard does depends on one
row. In `judging` every page differs from a plain one in one part (its links,
its JSON-LD, what its flags are made of, its language), since the parts are
computed apart from each other and meet in the flags, whose ingredients are
varied together; the ladder then runs on every page.

In `pipeline_ends` two workers are inside at once and one waits outside, so both
semaphores are contended, and an exception in `reclassify` or Ctrl-C in any
session finds workers at a fetch, before the model gate and in a thread that
cannot be cancelled. `RunSurvives` says of a URL of a run that nothing the other
URLs raise keeps it from its end, Ctrl-C excepted. That the store and the output
file work is a premise: a failure of `_handle_unexpected` itself does end the
batch (`Abort`), so failing writes and transactions are left to `pipeline`. A kill
ends a session at once and is left to `pipeline` too.

`pipeline`, `pipeline_ends`, `processes` and `fetcher` take one to three minutes
each; the other runs take less than a minute.

### Claims that do not hold

Four further runs state a claim of the repository's own text and show how the
code departs from it; `PROJECT.json` quotes each claim under `findings`.

| run | what happens |
|---|---|
| `pipeline_stranded` | a kill between evidence and verdict leaves an `extracted` row that no later `run` takes up (`reclassify` would) |
| `pipeline_bad_line` | a line on which `urlsplit`, `.port` or `int` raises `ValueError` (a stray bracket, a port out of range, a host label of superscript digits) ends the run |
| `limiter_base` | a crawl-delay below `min_host_delay` replaces it |
| `fetcher_overwrite` | of two first fetches of one robots.txt, the one that fails overwrites the rules |

Further departures were met while reading and modelling and have no run of
their own; most are listed under `hazards`:

- A kill between verdict and line loses the line for good.
- A requeue of `skipped_filter` sends filtered URLs to the fetcher.
- In `reclassify` one exception cancels every other page of the batch (`Abort`);
  the comment that one bad URL must never do so stands at the worker of `run`.
- A 200 answer of Ollama that is no JSON, and an answer of Anthropic that does
  not validate, raise through the ladder (`Garble`), where
  `classify/llm/base.py` speaks of `ClassifyError`. At the large rung that loses
  the answer of the small one, which was not sure enough (`AnswerKept`).
- The language of a short page is stored as `html_lang` with confidence 0.4 and
  comes back as `detected` with an agreement (`LanguageKept` excepts it).
- A task cancelled between its permit and its request returns neither permit nor
  lock, since `__aexit__` does not run; harmless as long as a limiter does not
  outlive its run.
- JSON-LD nested too deeply ends its page with a `RecursionError`, though the
  comment says "ignore, never raise" (`StructuredFound` excepts it).
- `example.com:8080/x` is rejected, though a missing scheme is said to be put in
  front: the `:` before the first `/` reads as a scheme (`ColonInHead`).
- An ideographic full stop at the end of a host stays in the key as a root dot:
  UTS 46 makes a dot of it after `rstrip(".")` has run. Such a line gets a second
  row for its page, and one whose host is an address passes the filter.
- An IPv4 host in full-width digits is left as it is (`isdigit` takes them) and is
  no address to `ipaddress`, and neither is a short form such as `127.1`. Both get
  a key of their own and pass the filter of IP hosts; the guard still judges what
  they resolve to.
- `parse_qsl` replaces what is no UTF-8, so `?q=%E8` and `?q=%E9` share one row,
  whose key names neither page.
- Two `run`s at once may leave the verdict of one beside the evidence of the
  other.
- The Retry-After of a 503 is not used; a body without Content-Length is not
  held to `max_body_bytes`.

## Fairness

- Pipeline: weak fairness of the populate steps, of each worker's steps and of
  closing. The loop runs every ready task; a fetch ends (`FetchEnds`), and a
  judging thread ends because its HTTP client has timeouts. No fairness of
  starting sessions, of faults or of Ctrl-C.
- HostLimiter: weak fairness of time and of each task past its request; a
  request ends by the client's timeouts. Asking and cancelling
  are never forced.
- Fetcher: weak fairness of each task, and strong fairness of entering a slot,
  which stands for the FIFO queue that HostLimiter models (`AskServed`).
- Topics: a loop that can take its next turn takes it.

## What is proved

TLAPS checks every theorem of eight modules, for any tasks, hosts, URLs, pages,
inputs, answers, faults, delays and numbers of sessions that satisfy the named
assumptions. These give the constants their types, say that a configuration is
one the settings accept (`FetcherAssumption`, `LimiterAssumption`), and keep
`None` and other marks apart from what they stand beside. TLC evaluates them on
every run. Each inductive invariant below was checked as an invariant of its
component's run before it was proved.

Every safety property, action property and refinement the passing runs check is
stated by a theorem.

**`PipelineProofs`**: `TypeCorrect`, `VerdictsAreBacked`, `Judgeable`,
`FetchingOwned`, `OutputMatches`, `CountersAddUp`, `ImplementsLifecycle`. The
invariant `IInv` relates each worker's local variables to the row it works on:
what a judging worker holds is the stored evidence (`HeldIsEvidence`), what it
is about to write is what it stored unless the row was requeued under it
(`VerdictReady`, `ErrorReady`), a reclassifying worker finds its evidence
(`LoadFinds`), and only a working session has workers (`NoStrayWork`). The proof
goes URL by URL: a frame lemma says that a step of one worker leaves the others'
rows alone, and each action has a lemma of its own. `CountersAddUp` counts: at
most one URL enters or leaves the finished set of an outcome per step
(`WorkerCounts`), so that its cardinality moves with the counter.
`ImplementsLifecycle` is the step simulation of UrlLifecycle: a worker's step is
a move of its URL while every other URL stays (`OneMoves`); recovery, requeue,
cancellation and a kill move several at once, each along its machine. Besides
`IInv` it needs `FetchesPending`: a worker of a run is queued for a pending row
only, and only its own fetch or a requeue moves the row before the fetch
returns. `HeldIsEvidence` gives that a verdict is about the stored page,
`LoadFinds` that work begins on a row there is something to do for.

`RunsDrain`, `ResumeIsIdempotent`, of the same module. Every row that is pending or
in its fetch is `Due` to the session: nothing of it is left once the session is
over, a recovered session has it pending, a working one has a worker on its way
to it or at it. `RunsDrain` assumes `LiveRequeue = {}`, that nobody requeues rows
under a working session; otherwise a row requeued behind its worker stays
pending, which is what the operator asked for.

**`ProcessesProofs`**: `FetchesHaveOwners`, `BothRunsDrain` (with the same
assumption), `BothLeaveFinished`. The lemmas under `RunsDrain` ask of the state only
its shape, never that the rows are as this process left them, so they hold of
either process whatever the other one does: a row either of them puts in its
fetch has a worker there (`Holds`), and a row that is not done is due to one of
them. The provers do not see that two instances of Pipeline under one
substitution are the same; `SameAssumptions`, `SameInit` and `SameStep` say so
operation by operation.

**`HostLimiterProofs`**: `TypeCorrect`, `LockBookkeeping`, `MutualExclusion`,
`Spacing`, `PermitsAreConserved`, `KeepsThePromise`. `OneRequestPerHost` is not
inductive: a hand-over makes a waiter an owner, and only the exact bookkeeping
(`LocksExact`: owners are past the lock, waiters stand once in the queue of
their own host, nobody waits for a free lock) rules out a second one.
`SpacingHeld` needs `NapSuffices`: a sleeper's remaining nap covers what is left
of its delay, which time preserves since nobody else can leave the host
meanwhile. `PermitsAreConserved` counts the holders next to the free permits
(`Accounted`); a release gives the permit to a waiter or back, never both, and a
task that is cut off keeps the permit or puts it back. With
`DelayClamped` (no delay is below `Lo`) the invariant gives the step simulation
of PoliteHost: entering a request maps to `Start`, leaving to `Stop`, time to
`Tick`, everything else to a stutter.

**`FetcherProofs`**: `TypeCorrect`, `SlotsAreExact`, `AddressesArePinned`,
`RobotsAreConsulted`, `TransientsAreRetried`, `FetchesAreBounded`,
`AloneDisallowHonored`. `TransientRetried` needs that the outcome of an attempt
is the verdict of `_finalize` on its response (`OutcomeOfResponse`) and that every
transient status has a retryable error (`HttpErrorSays`). The last theorem is
the other half of a finding: two fetches may overwrite each other's robots.txt
(`fetcher_overwrite`), and a fetch on its own never asks for a page that the
rules it read disallow, since a policy in the cache is the one last read
(`PolicyKept`).

**`JudgingProofs`**: `LadderTypeCorrect`, `SpendIsBounded`, `SettledAreSure`,
`AnswersAreKept`, `OutcomesAreExpected`, `EmptyPagesAreFree`, `LanguageIsKept`,
`StructuredDataIsFound`.
That a page costs at most two requests per rung is not inductive: `Asked` says
what each place in the ladder was asked before (nothing on entering a rung, once
before a repair, which only Ollama gets), `Answered` which rungs have answered,
and `Waits` that nothing was asked while the page was extracted, so that flags
which change then are still the flags that decide. From the assumption that
`None` is no verdict it follows that a large rung stands on a small answer that
was not sure enough. `EmptyPagesAreFree` rests on the loop over the links:
`Counting` says that the counter is the number of links read so far whose host
is of the page's site (`InternalIsSameSite`), and `Flagged` that the stored
flags block exactly the pages that are gone or for sale.

`StructuredDataIsFound` is about JSON-LD of any nesting, in any number of scripts.
`Reading` says that the objects of the page are those heard so far, in their
order, then the objects of the data still to visit, then those of the scripts
still to read (`Along`), and that what was found is what the heard ones say
(`Hears`). A call on a list or on an object with a `@graph` only unfolds the first
piece of data (`ObjectsOfParts`); a call on an object moves it from ahead to
heard, where its types are added to the others, each once (`TypesAdded`), and who
spoke first stays the first (`FirstStays`). That `ObjectsIn` has the values its
equation says is proved from `JsonAssumption` by induction over the depth
(`ListingExists`, `OneListing`).

**`TopicsProofs`**: `FilesLoadAsForests`, `AnswersAreResolved`. `LinkInv` says
that every node the second loop has passed has its parent one tier up and stands
once among that parent's children; so nobody is above itself
(`NobodyAboveItself`). For resolving, the invariant relates the topics kept so
far, the ones still ahead, and where the walk stands to the set `Above`, and the
walk ends because it climbs. `Above` is the least set closed under parents, so
that no induction is needed to reason about it.

**`IntakeProofs`**: `PinnedArePublic`, `PublicHostsGetThrough`. The order of the
checks and the deduplication of the answer are the point: `DedupeKeepsAll` says
that the loop keeps the first of each address and loses none.

`PagesHaveOneRow`, `RelistingAddsNothing`, `PendingAreWanted`, for paths and
queries of any length. The invariant is short (`RowsInv`: the rows are the keys
of the lines that got one, and a pending row is one `prefilter` let through);
what carries it is that two lines have one key exactly if they name one page
(`OneKey`, `KeyNames`).
- Paths. `TurnInv` is the invariant of `_remove_dot_segments`: the output buffer
  spells segments that are clean (canonical tokens, no dot segment), and reading
  the input on from them leads where the whole path leads. A turn on a dot
  segment or on any other preserves it (`DotTurns`, `MoveTurn`) and takes a token
  at least, so the loop ends with nothing left to read (`DotsRemoved`). Since
  segments have one clean spelling (`OctInjective`), the form is determined by
  the page; since decoding a triple keeps slashes and octets apart
  (`PercentKeeps`), the order of the two passes is right.
- Queries. A pair is kept as often as it names the page (`KeptCounts`), sorting
  loses none and orders all (`SortedKeeps`), and there is one order for a bag of
  pairs (`OneOrder`). What the form names is the page of the decoded query
  (`Seen`); that is the page itself exactly where its texts are legible
  (`LegiblePieces`, `DecodedParameters`), and a line is clear exactly if its key is
  and no ideographic stop was in it (`ClearLines`).
- Filters. A path whose last segment names a PDF file, in whatever spelling, has
  that extension in its form (`FileIsSeen`).

The three hold for every list of lines. Their exceptions are in the properties,
and each was found necessary by TLC: a line is `Clear` if its host is of the kinds
that are brought to one spelling and its parameters are texts of UTF-8 without
the replacement character. Rows of lines that are not clear may be there too;
that they share no key with a clear line is part of the proof.

Two ways round a limit of the prover are worth knowing. Its induction theorems
take an operator, which none of the backends can instantiate; `Induct` of
**LoopLemmas** states induction over `Nat` for *sets*, from well-foundedness, and
`LoopExists` uses it to show that a recursive function over the turns of a loop
has the values its equation says. `FoldUnique` and `FoldConcat` make a loop over
a sequence a fold, which is what Intake's Reading and Kept and FlattenSeq are reasoned about
as; `JoinedConcat` says it of a loop that joins what it makes of each element. And
where a loop is only read as the set it
computes, the definition says so directly (`Above`, `InternalLinks`).

What the proofs showed of the model: `Finalize` was a CASE whose branches
overlapped, and is now the chain of early returns it is in the code; `Dedupe`
was a fold that said less than the loop does; the reference for JSON-LD was a
RECURSIVE operator, and is a recursive function whose domain has to be finite
data, which nothing had said before; sorting was a CHOOSE over all
orders and is now the place each pair has; and six assumptions on constants were
missing, which the configurations met and the theorems need (`None` beside
addresses, numbers, reasons to skip, outcomes, kinds of answer and ids).

Only model-checked are the liveness properties (`SessionEnds`, `RunSurvives`,
`AskServed`, `FetchEnds`, `ResolvingEnds` and the like): temporal reasoning under
fairness and ENABLED are outside this prover.

## What is not modelled

- Of the extraction: the fingerprint of the software, the sanitizing of prompt
  text, the detection of forms and the fields that are copied from the page to
  the evidence. They are regular expressions over text without control of
  their own; what they match is part of a page in the model.
- Of the intake: userinfo, control characters and the list of excluded hosts,
  which the pipeline never passes. `parse_input` appears as the kinds of line
  the populate loop can meet.
- How long a fetch backs off between retries: that it retries, and how often,
  is modelled, the clock is not.
- Prompts, token counts, formatting, logging, the evaluation harness.
- Two processes and what they write to the JSONL file: the rows are modelled,
  the interleaving of their lines is not looked at.
- anyio, SQLite, httpx, protego: modelled by what the code relies on.

## Plan

Done, in the order of importance: Frontier and Pipeline; HostLimiter with
PoliteHost; Fetcher; Ladder; Topics; UrlLifecycle with its refinement; Processes;
Guard and Intake; Extraction and Judging; the proofs of all of their safety
properties.

What could follow: the lines two processes write to one JSONL file, the backoff
clock of the fetcher, and `parse_input` character by character.
