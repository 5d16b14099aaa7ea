# Glaucium in TLA+

TLA+ modules, TLC runs and TLAPS proofs for Glaucium, a server that collects, processes and
displays Breakpad crash reports. Paths below are relative to the repository (`src/`).

## 1. The system

Three programs share one filesystem, one Elasticsearch cluster and, where it is configured, S3.

| part | code | state | operations |
| --- | --- | --- | --- |
| collector | `cmd/collector/app` | none | `handleDumpSubmit`: draws a crash id that ends in today's date and calls `SaveRawCrash` |
| filesystem storage | `pkg/crashstorage/fs` | one directory per crash (raw JSON, dumps, report, back link) and a dated branch `<day>/dated/<hour>/<minute_slice>/` of forward links | `SaveRawCrash`, `SaveProcessed`, `SaveRawAndProcessed`, `Remove`, `GetRawCrash`, `GetRawDumps*`, `GetProcessedCrash`, `NewCrashes` |
| processor | `cmd/processor/app` | configuration; per round a mutex, a condition variable and a counter; goroutines | `Run`: rounds of `NewCrashes`, a goroutine per forward link, the callback (read, stackwalk, extract, sign, store, remove) |
| composed storage | `pkg/crashstorage`, `.../interface` | list of storages | calls each storage in turn |
| Elasticsearch storage | `pkg/crashstorage/es` | one document per crash in an index per week | `SaveRawAndProcessed`, `SaveProcessed`, `Remove` |
| S3 storage | `pkg/crashstorage/s3` | objects by crash id | as the filesystem, without `NewCrashes`; a refused object is only printed |
| crash analysis | `cmd/processor/app` | none | `processCrash` (stackwalker, date), `createFramelist`, `generateSignature` |
| webapp API | `cmd/webapp/app` | none | report, download, delete, reprocess, search (`DoSearch`) |
| frontend | `data/webapp/src` | filters, page, total and rows of a list; the chart's cells | requests whose answers are applied as they arrive |

They interact through the spool. `SaveRawCrash` writes the crash's files in place, makes the slot
directory of the current time, then a *back link* in the crash's directory and a *forward link* in
the slot directory. The processor scans the dated branch once per round, skips the slots it takes
to be current, and starts a goroutine for each forward link; the goroutine removes the link,
processes the crash, and stores the report in the destination storages. When a destination is the
filesystem the crash came from, storing runs `SaveRawCrash` again for the same crash. There is no
lock between the programs, and no operation on the spool is atomic beyond one system call.

### What is hard, and what makes each part correct

* **Spool**: two writers and a remover on the same directories; a clock read once and used later; in
  place rewrites under readers; death of any process between two system calls. Correct when every
  answered crash is queued, is queued once, is whole when it is found, is handed out once, is not
  lost or overwritten, and is searchable in the end.
* **Pool**: a counter and a condition variable per round, goroutines that outlive their round.
  Correct when the count is exact, the limit holds, no wakeup is lost, and an interrupt gets through.
* **Storage pipeline**: destinations one after the other, on one shared map; a destination may drop
  the crash, refuse it, or rename its dumps. Correct when a hit has its report, nothing is removed
  before it is stored, a crash is read back as it was sent, and it has one document, or after a
  delete only those that an index refused to give up.
* **Signatures**: a bracket counter, a state machine over frames and three files of expressions.
  Correct when instances of one template and spellings of one function agree, and when every crash
  whose thread is known has a signature that names it.
* **Frontend**: requests in flight at the same time, answers in any order, watchers that answer
  answers. Correct when the page comes to rest, and then shows what was chosen last.

`PROJECT.json` lists the hazards line by line, with the property that would catch each.

## 2. Modules

| module | models | how state and actions correspond to the code |
| --- | --- | --- |
| `SlotTime` | `currentSlot`, `greaterThanEqualsSlot`, the skip test of `NewCrashes` | a time is a day, an hour and a minute slice; names are zero padded, so string order is number order |
| `CrashSpool` | collector, reprocess request, filesystem storage, scan, callback | see below |
| `CrashLife` | the abstract life of a crash that the spool implements | `new`, `queued`, `taken`; and `searchable` |
| `WorkerPool` | `Run`'s loop, `visitMinuteSlot`'s counting, gate, throttle and drain | a critical section is one step; `current` is the round's goroutines, `running` all of them |
| `CrashStorages` | composed storage, fs, S3, Elasticsearch and null storage, `processCrash`, reprocess, delete | one crash; a call of a storage is one step |
| `Signatures` | `collapse`, `normalizeSignature`, `createFramelist`, `internalGenerateSignature` | text is a sequence of tokens; a step per frame |
| `SearchIndex` | `DoSearch`: filters, page, facets, histogram | a document is product, version, signature and date; `index` is all of Elasticsearch |
| `ReportList` | the search and reports pages | requests and answers are bags; `Serve` is the server, `Deliver` the callback and the watchers it sets off |
| `DayChart` | the home page's chart (`getDayHistogramData`) | two readings of the clock and two searches, a step each |
| `SearchPages` | composes the three above | one page is open while crashes arrive |
| `MC...` | bounds, inputs and symmetry for TLC | |
| `Induction` | lemmas on natural numbers, sums and folds that the proofs share | models nothing of the code |
| `..._proofs` | the theorems, section 4 | |

### The spool

`CrashSpool` has one action per file operation. `call[p]` is a running save: the program counter
follows `saveFiles` (`Truncate`, `Write`) and the rest of `SaveRawCrash` (`PickSlot`, `MakeHourDir`,
`MakeSlotDir`, `LinkBack`, `LinkForward`). A handler's save is a request of the collector (`Submit`)
or of the webapp (`Reprocess`); a worker's is a report or a raw crash stored into the filesystem.
`scan` is the main goroutine inside `NewCrashes`: the captured slot and date, and what is left of
each directory listing. `worker[w]` is a goroutine: `Lstat`, `Stat` and `RemoveLink` twice, then the
callback of `Run` from `GetRaw` to the last destination or `RemoveDir`. A nil dereference is a
panic, and a panic ends the processor with all its goroutines (`GoOnIf`, `ProcessorDown`), leaving
the files as they are; `Restart` begins a new scan.

Data is reduced to what the properties tell apart. The raw JSON and the dumps of a crash are one
file (`absent`, `torn` between truncation and write, `good`, or the JSON `null`); so is the report.
A raw file that is not `good` parses to nil, which is `"null"` here, as in `GetRawCrash`. Radix
directories are part of the crash's directory. Elasticsearch is the set of indexed crashes; its
failures are panics, that is, `ProcessorDies`. The stackwalker ends. A crash without a minidump has
no date, and `SaveRawAndProcessed` of Elasticsearch drops it (`Index(w, dated)`).

`CrashSpool` uses the pool through two facts that `WorkerPool` establishes: a round throttles on the
number of its own goroutines (`CountIsCurrent`), which here is the workers marked `fresh`, and the
gate and the drain never wait (`OnlyThrottleWaits`), so that they need no step. In `WorkerPool` the
gate is kept as the `if` it is: `InSlot` lets who was woken go on without a second look.

`filed`, `handed` and `answered` are history variables: forward links made, callbacks begun, and
requests that were answered.

`CrashLife` says what all of this is for: a crash is queued, taken off the queue, and found by the
search, in this order and, while raw crashes are kept, once. The refinement mapping is at the end of
`CrashSpool`: a crash is queued while a forward link to it exists, taken when it was filed and has
none, and searchable when it is indexed. Saves, listings, deaths, restarts and second visits of a
link are stutters. With `remove_raw_dump` the back link goes with the directory, and a late save
queues the crash again, which the abstract life allows (`keeps`).

### The storages

`CrashStorages` takes one crash through all storages, where `CrashSpool` takes many through one. A
composed storage is the list of members in `task[p].todo`; each gets the same `dumps` and the same
`report`, which Elasticsearch changes for those after it. Dumps are mappings from names to the
uploaded dump behind the name, so that a rename (`FileOf`, `NameOf`, `S3Keys`) or a lost dump shows in
what is read back. A report is what the properties tell apart: the dump its stack comes from and the
week it is dated in. The indices are weeks, `Undated` the one of the zero time. A delete takes the
list of indices (`Delete`) and goes through it (`DeleteFrom`), while the processor may store.
`Refusals` lets S3 refuse an object, which is printed and passed over, and Elasticsearch a call: a
refused store ends the processor, a refused list of indices turns a delete into nothing, and a refused
delete in one index is printed and leaves its document there. `refused`, `deleted` and `spared` (the
documents that the last delete was refused) are history variables, and `reprocessed` counts up to its
bound.

### Signatures

A text is a sequence of tokens: words, brackets, commas, spaces, addresses, and `name omitted`, what a
compiler writes for an anonymous one. The three files of regular expressions are sets of tokens that
match; an empty set matches everything, as an empty alternative does. A path is a sequence of names and
separators (`FileOf`). `NextFrame` is a frame of
`createFramelist`, `Skip` and `Choose` a frame of `internalGenerateSignature`, `Join` the end.

### The pages

A page sends a request with what is chosen (`Show`), the server answers it with what the index holds
by then (`Serve`), and the browser delivers answers in any order (`Deliver`). The answer's total is
not the number of hits but the sum of its facet of products, and a changed total sets off the deep
watcher of the pagination, which asks again. A search that fails (`Refuse`) leaves the list as it is.
`Back` is `onpopstate`, which restores the selection and not the page. Requests for signatures change
only their own list, so that they are served and shown in one step. `noted` is the history that the
properties need: whether the current search failed, whether requests of different content overlapped
or the index grew (`disturbed`), and the totals that the index had for what is chosen (`counts`). The
chart of the home page takes its days from two readings of the clock, its versions from one search and
its counts from a later one.

### Assumptions on time and on users

Three Boolean constants name what the environment is assumed to do; with `FALSE` nothing is assumed.

* `SavesWithinSlot`: a request ends in the slot it began in. (Without it `AnsweredIsFiled` fails too:
  a request that reads the clock just before a slot ends files into a slot a scan takes for past.)
* `ScansWithinHour`: a scan ends in the hour it began in. `spool_hour_rollover` shows why.
* `ReprocessesHits`: a user reprocesses a crash found by search. Without it a reprocess request may
  rewrite a raw crash that is still queued, and `LinkedIsWhole` does not hold.

## 3. Runs

| run | bounds | shows |
| --- | --- | --- |
| `spool_concurrent` | 1 crash, 2 requests, 2 workers, limit 2, 3 configurations, 2 reprocess requests, deaths, 2 slots, no timing assumption | `TypeOK`, `FiledAtMostOnce`, `LinkedIsWhole`, `HitHasReport`, `RemovedIsIndexed`, `ImplementsLife` |
| `spool_serial` | 2 crashes, 1 request, 2 workers, limit 1, deaths, 2 x 2 x 2 calendar, timing assumed | `HandedOnce`, `CollectedIsKept`, `HitReportIsWhole`, `AnsweredIsFiled`, `NoPanic` |
| `spool_live` | 2 crashes, 1 request, 1 worker, 1 reprocess request, the development configuration, no deaths, 2 x 2 x 2 calendar, fair | `CollectedIsProcessed` |
| `pool` | 5 goroutines, limit 3, 2 slots of up to 4 crashes, any number of rounds, fair | `TypeOK`, `CountIsCurrent`, `RoundWithinMax`, `OnlyThrottleWaits`, `WaiterHasWaker`, `InterruptStops` |
| `storages` | 1 crash with any of 3 upload fields (2 of them minidumps, dated or not), 4 configurations, 2 weeks, 1 reprocess request, refusals | `TypeOK`, `ReadsBack`, `ReportKeepsStack`, `RemovedIsStored`, `OneDocument`, `DeletedIsGone` |
| `signatures` | every text of up to 5 bracket tokens, of up to 4 spacing tokens, and of up to 5 of both; every path of up to 4 tokens; stacks of up to 4 frames, 3 of them looked at; 4 sets of files | `TypeOK`, `CollapsedIsOutside`, `SpellingsAgree`, `SignatureIsRelevant`, `NeverEmpty` |
| `search_pages` | 4 reports and one that arrives, 1 row a page, a window and a facet of 2, days of 4 ticks, seconds of 2, 2 inputs, fair | `TypeOK`, `QuietTotalIsCurrent`, `QuietListIsCurrent`, `ChartCountsEach`, `Settles` |
| `spool_hour_rollover` | as `spool_serial` with 1 crash, without deaths and `ScansWithinHour` | `AnsweredIsFiled` is violated |
| `spool_round_overlap` | 1 crash, 2 workers, limit 2 | `CollectedIsKept` is violated |
| `pool_rounds` | 3 goroutines, limit 2 | `RunningWithinMax` is violated |
| `storages_shared_report` | as `storages`, Elasticsearch before the filesystem, no refusals | `StoredReportsKeepStack` is violated |
| `search_chart` | as `search_pages` | `CellsAreInitialized` is violated |

*Why the bounds are enough.* Crashes meet only in directories and in the pool: one crash with two
requests and two workers has every conflict on one crash's files, and a second crash in
`spool_serial` and `spool_live` adds the shared slot directory and the pool's limit. Two days of two
hours of two slots have every kind of boundary once, and a slot between two boundaries. The pool
needs more goroutines than the limit so that an old round can keep some: five against a limit of
three. The last slot of the calendar never ends, so no crash is submitted in it (`Submit`); without
that, a crash of the last slot would never be scanned, for want of a later time.

Crashes do not meet in the storages, so that one is enough; its dumps are the configured one, another
minidump and a file that is none, which is every way a name is changed or lost. The four
configurations keep the crash in the spool, move it to S3 (and read it back from there), mirror it
from the start, and put Elasticsearch first; two weeks make a second processing fall into another
index. In a text of tokens, five brackets nest, close too early and stay open, four spacing tokens
put every pair of them next to each other, and five of both put a pair of spaces around a bracket that
does not match; three frames are every order of an irrelevant, a prefix and
a repeated one, and a fourth is one too many. A window of two rows with pages of one has pages beyond
the window; four reports are two selections of equal and of different totals, and one report that
names no product. Two inputs are the shortest history in which searches overlap, a page is left behind
by `Back`, or a failure follows a choice.

*Fairness.* Requests and goroutines are scheduled by the operating system and the Go runtime, hence
weak fairness of `Save(p)`, `Process(w)`, `Scan` and of the pool's main goroutine and `Finish(w)`.
The clock advances: strong fairness of `Tick`, since the timing assumptions put a tick off without
stopping time. That a callback ends is an assumption about the stackwalker, which the processor runs
without a timeout. Nothing is assumed of requests, reprocessing, interrupts or deaths. `stop` is shared
by two goroutines without synchronisation; `InterruptStops` takes it that the main goroutine sees the
write by its next look at it, which the sleep before that look gives in practice and the Go memory
model does not promise.

`search_pages` assumes weak fairness of `Answer`: a browser ends every request, with an answer or an
error. Nothing is assumed of what the user does, of crashes that arrive or of the order of answers.

The runs of the spool check deadlock. The others do not: the processor stops when it was interrupted,
a crash that has been through its storages and a signature that is made are at rest, and so is a page
that nobody uses.

*Preconditions.* Some properties hold only under a condition that they state. `HitHasReport` and
`LinkedIsWhole` speak of processors that keep raw crashes. `RemovedIsStored` ends with the first
refused call, which the code prints or panics over. `DeletedIsGone` allows for the documents whose own
delete was refused, and speaks of deletes that were told the indices. `ReadsBack` and `OneDocument` let a crash go
through S3 only with a single minidump: S3 gives back no other. `ReportKeepsStack` leaves out the
storages that come after Elasticsearch, and `OneDocument` asks for minidumps that agree on the time of
the crash. `CollapsedIsOutside` and `SpellingsAgree` speak of texts whose brackets match and
hide no anonymous name (`Templated`): the code drops what follows a bracket that does not match, and
where that makes two spaces follow each other, one spelling keeps a space the other has not. That
`SpellingsAgree` needs this was found by its proof: `, >< ` and its squeezed spelling differ. `QuietTotalIsCurrent` and `QuietListIsCurrent` except searches that failed, after which the
page keeps what it had; the second also asks for requests that did not overlap with others, because a
stale answer with the same total replaces the newer list for good.

### What the violations show

* `spool_hour_rollover`: the slot comparison goes by component, so that after an hour boundary the
  slot that is being written counts as past. The scanner removes the slot directory between the
  request's `MkdirAll` and its forward link; the error is printed, the request answered, and the crash
  has a back link that keeps it from ever being queued.
* `spool_round_overlap`: the next round does not wait for the goroutines of the last one and lists a
  link whose goroutine has not removed it. Two goroutines process one crash; with `save_raw_dump` into
  the same filesystem the second may read a half-written raw JSON and save `null` over it.
* `pool_rounds`: goroutines of an earlier round are not counted, so that more than
  `max_simultaneous_processing` run.
* `storages_shared_report`: Elasticsearch deletes the stack from the report that all destinations
  share, so that a filesystem after it stores a report without one, and the report page shows none.
* `search_chart`: the days of the chart begin at a second reading of the clock, and go back in local
  time; a tick or a change of daylight saving time between the two leaves today without a cell, and
  its count is added to `undefined`. A version that is not in the earlier list throws.

Met while modelling, and true of the model, without a run of their own: with `remove_raw_dump` a
reprocess request that passed its check before `Remove` leaves a forward link to nothing, on which
the processor panics in each round (hence the precondition of `LinkedIsWhole` and the configuration of
`NoPanic`); a reprocess request never queues the crash again, as the back link is still there; with
`remove_raw_dump` and a filesystem destination the report is removed with the raw crash (hence the
preconditions of `HitHasReport`).

## 4. Proofs

TLAPS checks the following for every value of the constants that satisfies the named assumptions
(`CalendarAssumption`, `SpoolAssumption`, `PoolAssumption`, `StoragesAssumption`, in the spool and the
storages a `ConfigAssumption`, of signatures `FramesAssumption`, `CrashesAssumption`,
`FunctionsAssumption` and `TextAssumption`, of the pages `IndexAssumption`, `ListAssumption` and
`ChartAssumption`), and the hypotheses given with the theorem. Every safety property of a passing run
is a theorem, and so are the action property of the chart and the refinement of `CrashLife`.

* `WorkerPool_proofs`. The inductive invariant adds to `TypeOK` that `count` is the number of the
  round's goroutines, plus the one counted but not started, and that outside the throttle that number
  is below the limit. `CountIsCurrent` alone is not inductive: `Go` has to know that the goroutine it
  starts is new, and the gate that it is only reached after the throttle. From it follow
  `RoundWithinMax`, `OnlyThrottleWaits` and `WaiterHasWaker`.
* `CrashSpool_proofs`, of every configuration and without any assumption on time or users.
  * `SpoolTypeOK`, one lemma per group of actions. Of the calendar: a scan spares the slot it began in
    (`CurrentSlotIsSpared`), spares the current slot as long as its hour lasts
    (`SlotsOfTheHourAreSpared`, which is where `ScansWithinHour` comes from: the statement is false one
    hour later), and skips nothing that was past when it began (`PastSlotsAreVisited`).
  * `SpoolFiledAtMostOnce`: without `remove_raw_dump` no crash is queued twice. `filed[c] <= 1` is not
    inductive. `BackLinkGuards` adds that a crash without a back link was not filed, that a process
    about to make the forward link is the only one for its crash, sees the back link and finds the
    crash not filed, and that no worker removes. Only `LinkBack` and `LinkForward` touch what it speaks
    of; every other action is shown to be `Quiet`.
  * `SpoolImplementsLife`: the spool implements `CrashLife`. The invariant `LInv` adds that whatever is
    linked, listed or held was filed (`HeldIsFiled`), and, while raw crashes are kept, that a crash has
    one link, that what is listed or held is this link, and that a goroutine past removing it leaves
    none (`OneLink`). Then `LinkForward` is `Queue`, the first `RemoveLink` is `Take`, `Index` is
    `Publish`, and everything else is a stutter.
* `SpoolFiles_proofs`, with the hypothesis `ReprocessesHits`.
  * `SpoolLinkedIsWhole`, and `SpoolHitHasReport` where the filesystem, if it is a destination, is the
    first. `FilesInv` divides the life of a crash at the first report or document of it: until then
    only its first save writes to its raw file, and nobody after it was filed; who holds it has read it
    whole and writes a report next.
  * `SpoolAnsweredIsFiled`, from `SavesWithinSlot`, `ScansWithinHour`, kept raw crashes, and a day of
    more than one hour: `Tick` compares hours to tell whether a scan has left its own, which a day of
    one hour would hide. `SlotsInv` says that the slot and date of a scan are of the current hour
    (`ScanIsNow`), so that it does not enter the slot a request files into, and that a request that has
    made its directories finds them (`InSlot`).
  * `SpoolRemovedIsIndexed`, where every configuration that removes raw crashes has Elasticsearch among
    its destinations, for any number of overlapping workers. `RemovedIsIndexed` speaks of one step, the
    removal; `RemovalInv` carries to it what the goroutine did before. Until a crash is indexed, its
    files are whole from the moment it is queued or its request is answered (`FilesFit`); so each of the
    goroutines that hold it has read it whole, and has Elasticsearch before it or the crash in the index
    (`WorkersFit`), even when another one removes the crash meanwhile.
* `SpoolSerial_proofs`. What a limit of one buys while raw crashes are kept: `SpoolHandedOnce`; with
  `ReprocessesHits` also `SpoolNoPanic` and `SpoolCollectedIsKept`; and with the filesystem nowhere
  but first among the destinations `SpoolHitReportIsWhole`. `SerialInv` says that while a goroutine
  holds a crash the scanner is in the slot and counts it, and that what is listed is still linked,
  which is what the wait for the goroutine at the end of `visitMinuteSlot` ensures. Then a worker
  reads and rewrites a crash alone (`WholeInv`), and finishes the report before it indexes the crash
  (`ReportsInv`).
* `CrashStorages_proofs`, of any configurations, uploads, weeks, reprocess requests and refusals.
  * `StoragesTypeOK`. `PlacesInv` adds to the types what makes them inductive: every dump that a task
    carries or a storage holds is one that was uploaded, and a minidump has a week.
  * `StoragesDeletedIsGone`: a document is still on the list of the delete, or its delete was refused,
    unless the crash was indexed again (`OnTheList`). `StoragesRemovedIsStored`, for collectors that save to the filesystem: `TasksInv`
    carries the minidump through renaming, storing and reading back, so that every report of a crash
    with one is dated, and `StoredInv` says that each destination is still to come or has what it was
    given.
  * `StoragesReadsBack`. `NamesInv` says that each save of the raw crash carries the dumps under the
    names they were uploaded by, that a filesystem holding it has the files of exactly these names, and
    that S3 has a single minidump under the crash id.
  * `StoragesReportKeepsStack`, for finitely many names. `StackInv` says that a minidump's name has a
    minidump behind it wherever dumps are (`MinidumpsInv`), and that a report has the stack of one
    unless Elasticsearch is among the destinations it has been to (`ReportInv`), which a storage before
    Elasticsearch is not. The walk over the minidumps goes in any order, and ends with one of them.
  * `StoragesOneDocument`. `WeeksInv`: a report is dated in the week of the crash's minidumps, and so is
    every document, under `NamesInv` because a lost minidump would make the next report undated.
* `Signatures_proofs`, of stacks of any length, any expressions and any texts.
  * `SignaturesTypeOK`, `SignaturesSignatureIsRelevant`, `SignaturesNeverEmpty`. `ChoiceInv` relates the
    choice to the frames looked at so far: it has each relevant one, only relevant ones, and none that
    is no prefix but the last; `EndInv` says that where it ends is the first stop. `TextInv` says that
    two frames with nothing left do not follow each other: the second is a repetition.
  * `SignaturesCollapsedIsOutside`, for functions of any number of tokens and any depth of brackets.
    The three passes over a text are folds; `PassRuns` turns each into the sequence of its rounds. After
    `k` tokens `collapse` has kept what is outside brackets, and its counter is their depth
    (`CollapseRuns`); where the text is `Templated` it never goes below zero, and the result is
    `Outside` (`CollapseIsOutside`).
  * `SignaturesSpellingsAgree`. The two spellings are read side by side (`SqueezedAgrees`): after `k`
    tokens their collapsed texts are `Alike`, that is, the spacing passes make the same of both and they
    end alike, or the longer one has a space more that the next token will drop (`Pending`).
    `SpacedGrows` is what makes it work: the spacing passes of a text that grows by a token depend on the
    text before it and the last token only.
* `SearchPages_proofs`, of any index, choices, page length, window, facet, outages and order of answers.
  * `SearchQuietTotalIsCurrent`, without hypotheses. Once no search failed, the page has a total that
    the index had, or a request for what is chosen is under way, or an answer to one (`TotalInv`).
  * `SearchTypeOK`, for finite indices. `PagesInv` adds that every answer on its way has no more rows
    than a page and no larger total than the index.
  * `SearchQuietListIsCurrent`, where the products fit into a facet, a page into an answer, and no two
    reports have one date (`FiniteIndexes`, `ProductsFit`, `Rows <= MaxSize`, `DatesDiffer`: the search
    sorts by date alone, which leaves the order of equal dates open). `CalmInv` says that, unless
    searches overlapped or the index grew, the page shows what is chosen or all that is under way asks
    for it. That a page of answers is the reports with the right number of newer ones, and that the
    facet counts each product, are lemmas on `Hits` and `Counted`.
  * `SearchChartCountsEach`, for finite indices, as an action property: a report of the chart's days is
    in one bucket of one day, and the sum over the cells goes through each once (`DrawCounts`).

The provers take no operator as the parameter of a lemma, so that the induction theorems of their
library cannot be used. `Induction` states induction of *sets* instead: a set of natural numbers has a
least member (`Least`), so that one with zero and every successor has them all (`Induct`). From it come
the sums and the folds of `FoldSet` and `FoldLeftDomain`, whose recursive functions exist and go through
their rounds one after the other (`FoldsExist`, `FoldRuns`), and the members of greatest weight
(`TopExists`).

The hypotheses of each theorem are met by the constants of the run that checks its property.

Model-checked only: what needs fairness or `ENABLED`, that is, `CollectedIsProcessed`,
`InterruptStops` and `Settles`; and the five violations, which are behaviours.

## 5. Not modelled

* *Code that nothing calls*: in the filesystem storage `GetRawDump` and `GetProcessedCrashes`; in S3
  `Remove`, `GetRawDump` and `GetRawDumpsAsFiles`, since the source storage is always the filesystem;
  `buildFields` and `GetVersions` of the search; the empty handlers of versions, products and
  platforms.
* *Copying of fields*: `extractCrashInfo`, `extractCPUInfo`, `extractOSInfo` and
  `extractOSPrettyVersion` copy fields of the stackwalker's JSON into the report. They keep no state
  and no property of another part depends on them.
* *Pages that show what they are given*: the report and signature pages, sorting by a column, the
  drop-down lists, login, apps and layouts.
* *Configuration errors*, which end a program at start, and the mapping given to a new index.
* RabbitMQ is an empty package. Packaging, build rules, Breakpad, jsoncpp, `minidump_stackwalk` and
  the Go vendor tree are other projects' code or keep no state of this system.

## 6. What is left

A run of the spool with `remove_raw_dump` and reprocess requests that race `Remove`, once a document
says what should happen to the forward link that is left behind, and the liveness properties as
theorems, once the prover can reason about fairness.
