# OpsGraph: a TLA+ model

OpsGraph is a command line tool that keeps an *incident graph* (services,
dependencies, alerts, deploys, evidence, runbooks) in a SQLite file,
`<data_dir>/state.db`, fills it from fixtures or from live connectors
(Kubernetes snapshot, Prometheus, Alertmanager, git, helm, plugins) and answers
"what is going on with this service" from it. There is no server: every command
is a process of its own, and the processes share nothing but that file. What is
hard about it is therefore what happens to the file when a command fails half
way, is killed, or runs beside another one, and which of several possible
sources an answer comes from.

Every definition in the modules is translated from the Go source; `PROJECT.json`
gives the file and the lines for each. (Source references below are to
`src/internal` and `src/cmd/opsgraph`, by file name.)

## 1. The system

| Part | Source | State it keeps | Operations | Correct when |
|---|---|---|---|---|
| Store file | `internal/store/store.go` | `state.db`, `state.db.tmp`, `state.db.bak`, the open handle | `Open`, `OpenTemp`, `Close`, `Reset`, `ReplaceFromFile` | the graph survives every failure and crash; the answer is true; the handle is on the file the name denotes |
| Merge | `internal/store/merge.go`, `query_extra.go`, `sqlite.go`, `meta.go` | rows of `state.db`, the pinned clock `as_of` | `MergeFrom`, `mergeServiceRow`, `DeleteDependenciesNotIn`, `ResolveActiveAlertsNotIn`, `SetAsOf`, `ClearAsOf` | an interrupted merge can be run again; no row refers to nothing; silence is not an all-clear; fresh knowledge beats stale |
| Ingest | `cmd/opsgraph/ingest.go`, `internal/ingest/ingest.go`, `fixtures.go` | a temporary store | `--fixture`, `--replace`, `--merge` | each mode leaves the store its data belongs to, with the right clock |
| Live scrape | `internal/ingest/live.go`, `prometheus.go`, `alertmanager.go` | the temporary store, `connector:*` marks | `LiveIngest` and one function per connector | a row says which source saw it; a connector that was not asked leaves no mark |
| Source selection | `cmd/opsgraph/common.go`, `cwd.go` | open stores and temporary directories | `loadAskStore`, `storeFromConfig`, `storeFromDataDir`, `peekCounts` | nothing leaks; the documented order of sources is kept; a poor scrape does not displace a good store |
| Watch | `cmd/opsgraph/watch.go` | deadline, last health seen | the polling loop, `watchTick`, `watchFatalLoad` | it ends, in time, without spinning, and sees a recovery |
| Ask | `internal/ask/*` | none, many queries for one answer | `Ask`, `correlate`, `recommend`, `buildTimeline`, `collectEvidence` | the parts of an answer agree, all it cites is shown, a cause in the store is named |
| Score, fingerprint | `internal/score`, `internal/fingerprint` | none | `Compute`, `Of` | one incident has one score and one fingerprint, however the window is set |
| Runbook checks | `internal/runbook/verify.go` | none | `Verify` | a check does not contradict the answer it stands in |
| Fleet commands | `cmd/opsgraph/hottest.go`, `top.go`, `compare.go` | a ranking | bare `ask`, `top`, `compare` | the service that burns is not skipped |
| Validate | `cmd/opsgraph/validate.go` | none | reference and alias checks | what validates can be answered about |
| Graph searches | `internal/impact`, `internal/pathfind` | a stack or a queue | `Downstream`, `Cycles`, `Shortest` | they end on cyclic graphs and agree with reachability |
| Kubernetes roll-up | `internal/ingest/kubernetes.go`, `native_k8s.go` | health, source and rollout note of service rows, rollout changes | `ingestK8sFiles`, `assessWorkload`, `applyDeploymentHealth`, `emitRollout` | the worst workload speaks for its service in any order; replica counts are no all-clear; recovery shows |
| Packs | `internal/ingest/pack*.go`, `cmd/opsgraph/pack.go`, `test.go` | an archive or a directory, a temporary directory | `pack`, `ask --fixture`, `test` | exit 0 means a whole pack; nothing is lost unasked; a part is not taken for the whole |
| git, helm, plugins, discovery, config, AI, output | the rest | none that lasts | child processes, parsing, prompt text, formatting | not modelled |

**How they interact.** `ingest` opens the persistent store, fills a temporary one
by a live scrape and then either merges it row by row (`MergeFrom`) or copies
its file over `state.db` (`ReplaceFromFile`); a fixture is written directly
after `Reset`. Every reading command goes through `loadAskStore`, which may run
a scrape of its own, may look into `state.db`, and hands one open store to
`ask.Ask`, which puts an answer together from a dozen queries and no transaction;
`top`, `compare` and a bare `ask` call it once per service. `watch` calls that once
per tick. `pack` writes a store as files, reads them back as a fixture, asks about
the services in it and keeps the answers as goldens. Two commands that run at the same
time meet only in the file system: there is no lock file, the statements of
`MergeFrom` and of a fixture ingest commit one by one, and `store.Open` creates
whatever it does not find.

**What is hard.** The steps between two renames; a failure while a failure is
being repaired; a crash that leaves `.tmp` or `.bak` behind; a merge that stops
after any statement and is run again; which of two contradicting sources wins;
five fallbacks that share the same handles; polling against a deadline with late
timers; an ingest in the middle of somebody else's read; five places that judge
the same rows apart from one another; searches on cyclic graphs; and a pack that is
killed before it is whole. `PROJECT.json` lists
them as hazards, each at the line where it bites.

## 2. The modules

| Module | Models | Its variables in the code |
|---|---|---|
| `AtomicStore` | what `--replace` promises: one graph, replaced indivisibly or not at all | abstract |
| `StoreSwap` | `store.Open` and `ReplaceFromFile`, one action per effect on the file system, the calling process, crashes, and other processes that open the store | `disk` the three files, `handle` is `s.db`, `pc` the next statement, `result` the returned error, `faults` the system calls that failed in this call; `prev`, `target`, `seen` are history |
| `LiveScrape` | the temporary store after `LiveIngest`, as a function of the config, the snapshot and Prometheus | no variables |
| `IngestStore` | the three ingest modes on a store that outlives them, one action per committed statement | `db` the rows and `as_of`, `src` the temporary store, `todo` the rows of the current loop not yet written, `pc` the phase; `base`, `cut` are history |
| `LoadStore` | `loadAskStore` and everything it calls that opens, closes or counts a store | `open` the open handles and directories, `live` what the scrape left, `use` and `why` the branch, `disk` state.db, which other processes change |
| `Watch` | the loop of `opsgraph watch`, the clock, and an ingest next to it | `now`, `wake` the timer, `seen` what the tick returned, `code` how the command ended |
| `Workloads` | what one object of a Kubernetes dump says of its health, and the ranks by which workloads and rows are merged | no variables |
| `Rollup` | `ingestK8sFiles` from a dump to service rows, and `packK8s` with the replay of the pack | `dump` the files, `deps` the list of `k8sDeployment`, `worst` the loop variable of that name, `rows` the services table, `changes` its rollout changes, `todo` what the loop has left; `prior` is history |
| `GraphSearch` | `impact.Downstream`, `impact.Cycles` and `pathfind.Shortest`, one step of their loops at a time | `arcs` the adjacency map, `stack` the recursion, `rest` the neighbours a node has left, `seen` the visited map (in `Cycles` the grey and black nodes), `queue` the paths of the breadth-first search |
| `Signals` | what is concluded from the rows of an answer: suspects, links from changes to alerts, recommendations, timeline, score, fingerprint | no variables |
| `Ask` | `ask.Ask` query by query, runbook checks, a bare `ask`, `top` and `compare`, while another process writes rows | `store` the tables, `res` the answer in the making, `pend` what the next queries are for, `todo`, `rows`, `answers` the ranking; `versions` is history |
| `Archive` | the command `pack` onto a directory or an archive, its repetition, its recipients | `out` what is at the path, `work` the temporary directory, `todo` the files left to write, `src` the store read; `before`, `calm`, `unread`, `unseen`, `short` are history |
| `StoreSwapProofs`, `IngestStoreProofs`, `LoadStoreProofs`, `RollupProofs`, `GraphSearchProofs`, `WatchProofs`, `ArchiveProofs`, `AskProofs` | the theorems about the module of that name | |
| `MCStoreSwap`, `MCIngestStore`, `MCRollup`, `MCGraphSearch`, `MCAsk`, `MCArchive` | instances for TLC | |

`IngestStore` extends `LiveScrape` and treats the swap as one step, which is what
`StoreSwap` implements (theorem `SwapIsAtomic`); `LoadStore` and `Watch` see
other processes' ingests only as changes of what `state.db` holds, in the order
`IngestStore` makes them.

`Rollup` looks into the step that `LiveScrape` takes as one: there a service in the
cluster has one health, here it has workloads.

`Ask` extends `Signals`: the queries that fill an answer are actions, what every
command concludes from it are operators. A load (`LoadStore`) ends where `Ask`
begins. `Ask` takes the services that impact finds as reachability, which is what
`GraphSearch` shows of the search (`AffectedIsReach`, theorem `ImpactIsRight`).

`Archive` models `WritePack` file by file and its replay as the set of the services that
each file has rows of; what a replay makes of the Kubernetes part is `Rollup`'s
subject.

**Abstractions.** A graph is a model value in `StoreSwap` because nothing there
looks inside. A service row in `IngestStore` is its health and whether
Kubernetes is among its sources, because these decide every branch of
`mergeServiceRow`; aliases, labels, tier and owner are copied text.
`unhealthy` behaves as `degraded` does everywhere in the merge and is not listed
apart. Alertmanager is a second Prometheus with its own mark and its own
source, and is left out. A fixture pack has services, edges and alerts; deploys,
owners, evidence and runbooks are further loops of the same form. In `Rollup` an
object carries its counters under one name each, the conditions that the code
tells apart, the service that its labels and name stand for, and the name its
parent would have; an absent field is `Absent`, because the code tells absent from
zero. A note is the set of its phrases. Two workloads that say the same are one.
The names of rollout changes are left out, so two changes never overwrite each
other, and which of two rollouts of the same instant a pack stores is left open.

In `GraphSearch`, `Signals` and `Ask` ids are numbers, because the code sorts them; a list
that the store returns sorted is the set of its rows, with the order as an operator
(`Newest`, `alertSortLess`). Time goes in ticks and 0 is the zero time. The text of
evidence, recommendations and timeline entries is left out; what each refers to is
kept. A fingerprint is the set of the lines that are hashed. In `Archive` a golden
is the set of the parts of the store that spoke of its service, and the two budgets
in bytes act as the one in files does.

## 3. The runs

| Run | Question | Result |
|---|---|---|
| `swap_faults` | What does a replacement leave when system calls fail, processes die and others open the store? | `NoLoss`, `StoreNeverTorn`, `ReturnContract`, `HandleOnStore` hold |
| `swap_refines` | Is it an indivisible replacement when undisturbed? | `ImplementsAtomicStore` holds |
| `swap_readers` | And to a concurrent reader? | no: finding 1 |
| `ingest_merge` | What do sequences of ingests leave, each of which may be cut short? | `MergeRetrySafe`, `NoDanglingRows`, `ClockMovesLast`, `NoFalseAllClear` hold |
| `merge_stale` | Is a health that nobody reports any more cleared? | no: finding 2 |
| `load_sources` | Does source selection leak, or choose a poor source? | `OnlyTheAnswerIsOpen`, `LiveEarnsItsPlace`, `AnswerHasServices` hold |
| `rollup` | What becomes of a service whose workloads contradict one another, in whatever order, and of a pack made of it? | `WorstWins`, `HealthyIsEarned`, `RecoveryShows`, `PackReplays` hold |
| `pack_health` | Does a replayed pack show every service as it was? | no: finding 3 |
| `watch_poll` | Does a watch end in time, without spinning, and see a recovery? | `NoBusySpin`, `EndsInTime`, `RecoveryNotMissed`, `Terminates` hold |
| `graph_search` | Do the searches end on every graph, and agree with reachability? | `AffectedIsReach`, `CountedOnce`, `TreeIsTheGraph`, `CyclesReal`, `CyclesBreakAll`, `PathShortest`, `NoPathIsNone`, `Termination` hold |
| `ask_answer` | Do the parts of an answer agree with one another and with the store, also while it is written? | `PartsAgree`, `CitedShown`, `CausesFound`, `IncidentKept`, `NoFireHidden`, `ValidGraphAnswers` hold |
| `archive` | What does `pack` leave when calls fail or it is killed, and what may a recipient think? | `PackedIsWhole`, `NothingLostUnasked`, `ReaderSeesWhole`, `RetryWorks` hold |

Type correctness is a theorem for every specification, and is checked by a run for
`Ask` and `Archive` besides. So is every invariant of the table (section 5); `Terminates`
and `Termination` are only checked.

**Bounds, and why they are enough.**

- `StoreSwap`: two snapshots (a replacement by another graph and by an equal
  one), three failures in a call and two crashes. A call has at most three
  failures in a row that matter to the same file (the install, its undoing and
  the reopening), and two crashes put leftovers of one call under the next.
  The proofs remove these bounds.
- `IngestStore`: two services and an edge, a Prometheus alert on each, one alert of
  a fixture; five worlds between which the environment moves freely, chosen so
  that an edge comes and goes, a service leaves the config, leaves the cluster,
  is reported with a stale status, or is in the cluster but in no config, and
  Prometheus fires, is quiet, or is not asked; two ingests cut short, so that a
  retry can be cut short too. The pack names only one end of its edge.
- `LoadStore`: every combination of flags, config, connectors and working
  directory, two failing steps and two changes by other processes: a failed
  scrape followed by a failed look at the store, and a store that is filled and
  emptied between the look and the use.
- `Rollup`: two services; every dump of one or two of twenty-six objects, and of three
  that speak for one service: a Deployment, its canary and ReplicaSets with full,
  partial and no counts, and with each thing that overrules a count (a condition, the
  available numbers, an older generation, nothing wanted); jobs that finished,
  failed, or retry with and without successes; events. Two workloads contradict
  each other and a third breaks the tie. Onto rows of each origin, with and without
  filters, and two packs in a row, as the first replay changes where a row is from.
- `Watch`: an interval that does not divide the timeout, loads and timers that
  take up to one second more, two failing loads, two changes of the service or
  ingests. The proofs remove these bounds.
- `GraphSearch`: every graph of four services without loops and every graph of three
  with them; each service fails; a path is asked for from 1 to 3, from 3 to 1 and
  from a service to itself. Four nodes are the fewest on which two circles share a
  node that the search has left, and on which a path has a detour.
- `Ask`: twelve ticks, a suspect window of two and a correlation window of four, and
  rows on the edges of both, at no time and in the future; three services with
  aliases, one of them ambiguous, a node agent and a stub. The stores are a base
  store with up to two changes and two alerts (windows 1, 4 and 8: narrower than both
  of those, between, and wider), with every runbook check, five graphs and with or
  without evidence, and every pair of healths for the rankings. A bare `ask` runs with
  and without its runbook, also where a failed runbook outranks an alert. Where another process writes, it puts or deletes two
  rows, one of each table among them, between any two queries.
- `Archive`: three services, two of which share the file name of their runbook; two
  stores, one with a runbook of a service that it does not list; six things that may be at the path (nothing, a torn file, an archive, an
  empty directory, a pack, a directory of somebody else's); two commands in a row with
  two failing calls or crashes between them; and a budget of eleven files, which one
  store keeps to and the other does not. 1.8 million states.

**Deadlock** is checked except in `LoadStore`, `Watch`, `Rollup`, `GraphSearch`, `Ask` and
`Archive`, whose commands end.

**Fairness** is assumed in `Watch`: weak fairness of the command's own steps (a process
that can run is scheduled) and of the clock, which a sleeping or loading process
waits for. The connectors' time limits (`MaxLoad`) are what makes a load end;
without them the code would not end either. Nothing makes the service recover, and
nothing is assumed of the user or of other processes. And in `GraphSearch`: weak
fairness of the search, a sequential function that nothing blocks.

## 4. What the checks show

*Replacement.* Whatever fails and wherever the process dies, the previous graph is
in `state.db` or in `state.db.bak`, or the new one is in `state.db`. This needs
the order the code has: the copy is synced before anything is renamed, and the
old file is renamed, not removed. The returned error is true of the directory as
long as one system call fails. Beyond that the code gives it up: when the install
and its undoing both fail, or a restoring rename fails silently, the caller gets
an error and a *blank* store is left at the name, with the graph in `.bak` where
no command looks for it. `NoLoss` says only that it is still there.

*Merge.* `MergeFrom` is not a transaction, and the model shows that it need not be
for its own purpose: each of its statements is idempotent and the pruning loops
compare with the scrape, so a merge that was cut short any number of times and is
repeated on the same scrape ends as one uninterrupted merge into the original
store. A mutant in which the kept health depends on the row still being
Kubernetes' breaks it.

*The clock.* `as_of` is the last thing that a fixture ingest writes and that a merge
removes, and the first that `Reset` clears (with all else, in one transaction). So a
pinned clock always stands over all the rows of some pack (`ClockMovesLast`; a
merge may have removed edges since). The converse is not promised: a merge that is
cut short leaves live rows under the pack's clock, and a reader in between looks
at them from the pack's time. Running the merge again ends that, and never before
the store is what one whole merge would have made of it.

*Source selection.* Every path that opens a temporary store releases it, including
the one where a quiet scrape is kept open while the persisted store is tried.

*Roll-up.* The pairwise comparison gives the same health in every order because
`workloadSignalRank` is a total order on what a workload can say, with the stale
status between healthy and degraded; a rank taken from the health alone breaks it.
`HealthyIsEarned` and `RecoveryShows` are each other's converse, stated on the
object as Kubernetes wrote it and not on the flags that the code derives: no
all-clear without Kubernetes' word, and none withheld once it is given. Between the
two, a row that an earlier app-level source made worse stays as it is: `WorstWins` says
which health a service ends with as the worst of a set (what its workloads say and what
others said before), and not by the pairwise merge that the code uses.

*Watch.* The deadline is kept to within one load or one late timer. There is no
load at the deadline itself: the timer of the last sleep never fires early, so
the head of the loop finds the deadline passed. A recovery in the last interval
can therefore be reported as a timeout, and `RecoveryNotMissed` states the
margin.

*Graph searches.* Both searches of a path start from a fresh `seen`; a mutant that keeps
the first one's hides paths. `Cycles` does not list every circle (see below), but
what it lists is enough: whoever breaks up the reported circles has none left, so
that `validate` is right when it takes an empty list for an acyclic graph.

*Answers.* The five places that judge the same rows (suspect, check, score, fingerprint,
link) agree because they take the same windows and the same order of the lists, and
because changes are looked up as far back as the correlation needs, whatever
`--since` says: under a window of minutes the deploy that caused an alert within the last
hour is still found, and a mutant without that floor loses it. With another writer between
the queries an answer may be a mixture of two graphs, but what it cites is still shown:
`collectEvidence` makes a row for each id that is gone.

*Packs.* An archive that is cut short is a valid zip file, because the error path
closes the writer. That a recipient who runs `test` does not take it for the whole
rests on the order of the files: `alerts` first and `services` last, with the goldens
in the middle, so that a golden is missing only where its service is not listed
either. Zipped in the order in which it was written, the archive would break
`ReaderSeesWhole`. With `--force`, nothing that a failed command leaves behind makes a
later one refuse, except a directory that has lost its `meta.yaml`, or has none yet.

### Findings

1. **A concurrent reader can see a blank store during a swap** (`swap_readers`).
   Between the renames at `store.go:140` and `:144` there is no `state.db`, and
   `store.Open` makes one. `docs/USAGE.md:159` calls the swap atomic.
2. **A service that leaves both config and cluster keeps its health**
   (`merge_stale`). `merge.go:30` visits only services of the scrape, and
   `docs/USAGE.md:160` says that `--merge` prunes stale health.
3. **A replayed pack can show a sick service as healthy** (`pack_health`). `packK8s`
   (`pack.go:177`) prefers the counts of the newest rollout to those it synthesizes
   from the health, and packs neither conditions nor the stale mark nor the second
   workload; the replayed row is already Kubernetes', so the counts win.
   `docs/USAGE.md:124` promises the same JSON.

### What the models show besides

No run states these; they are in the models as they are in the code.

- *Merge.* A scraped "unknown" loses to an older health (`merge.go:149`), so a workload
  whose status is stale stays healthy. A failed read is taken for a missing row
  (`merge.go:143`), and a config seed overwrites known health (`ReadErrors`).
- *Watch.* An ingest into the same directory can end a watch, because an empty store and
  a missing service are fatal to a tick (`watch.go:161`, `:174`).
- *Sources.* A `state.db` that opens but holds no service ends the search even when the
  working directory has a snapshot (`PeekCount`, `common.go:281`), whereas
  `docs/ARCHITECTURE.md:24` lists "else populated `state.db`" and after it "else a
  `k8s-snapshot.yaml`". A failed read of the scrape's marks or rows is taken for nothing found
  (`common.go:323-342`, `:418-425`), so that a scrape full of alerts may be thrown away or taken
  for a quiet one (`Glimpses`).
- *Answers.* An alert may be older than the window while it is live, and its cause older
  than the lookback, max(60m, since) (`recommend.go:20-22`): then no link is found. A
  service with a loop is among its own neighbours, and the tip on transitive impact may
  be missing (`ask.go:149`). While others write, the score and the health in one answer
  may be of two times. The rankings skip a service whose id is another one's alias, as
  its answer fails. A bare `ask --runbook=false` ranks with the runbooks (`load.go:77`) and
  answers without (`ask.go:82`): the score it prints may be lower than the one it chose by, by
  up to ten points (`NoFireHidden`, `Repeatable`). The fingerprint has every alert row, the score each name and
  severity once. A service that ten healthy ones depend on has a lower score once one
  of them is degraded (`score.go`, `downstream_impact`).
- *Circles.* `Cycles` says "unique simple cycles" (`impact.go`) but leaves out some that
  run through nodes it is done with: of 1-2-3-1 and 1-3-1 it may report one.
- *Packs.* `--force` removes the archive before the new one is complete. A runbook that
  cannot be read, or whose file name is another one's, is lost and the exit code is 0
  (`internal/ingest/pack.go:132-143`); if nothing is left then that needs a golden,
  `pack` refuses. The runbook of a service that is not listed can be stored
  (`runbooks.go:36-39`) and asked for, but `WritePack` asks for those of listed services
  only (`internal/ingest/pack.go:133`) and drops the others with exit code 0, too. An
  archive that was cut short can be asked (`ask --fixture`).
  `opsgraph test` skips the goldens of services that are not listed (`test.go:71-88`).
  An error of `os.Stat` is taken for a free path (`CheckBlind`). A kill after the
  making of `k8s` and before `meta.yaml`, or while an old pack is removed, leaves a
  directory that `--force` refuses. A fleet of more files than an archive may have can be packed
  to a directory, never to an archive.

## 5. What is proved

### Replacement

`StoreSwapProofs` proves for every set of snapshots, any number of failing system
calls and crashes, and with or without other processes:

| Theorem | Statement |
|---|---|
| `Invariance` | `Spec => []IInv` |
| `TypeCorrect` | `Spec => []TypeOK` |
| `GraphNeverLost` | `Spec => []NoLoss` |
| `NeverTorn` | `Spec => []StoreNeverTorn` |
| `AnswerIsTrue` | `Spec => []ReturnContract` |
| `HandleIsCurrent` | `Spec => []HandleOnStore` |
| `SwapIsAtomic` | `Undisturbed => (Spec => ImplementsAtomicStore)` |

The assumption is `SwapAssumption`: the snapshots, the blank store, a torn file, no
file and a closed handle are different things.

None of the properties is inductive. `NoLoss` says that the backup holds the old
graph or `state.db` holds one of two graphs; to see that the next step keeps this
one must know *which* holds at which statement. `IInv` adds to the properties
`Kept` (`NoLoss`, and the graph in question is not a missing file, which the next
`Open` would turn into a blank store) and `CallInv`, which says of each
statement of `ReplaceFromFile` what the files hold there: `state.db` is untouched
up to the backup, the temporary file is complete from its sync to its rename,
the backup is the old graph from the backup until the restore, and an error path
is reached only by a failure. Three lemmas say what creating, renaming and
removing do to each file; the step lemma has one case per action.

`SwapIsAtomic` needs in addition `VacancyInv`: if nobody else opens the store, the
name is missing only between the renames and before the first open. `Install` is
the commit, `Restore` the rollback, and the three returning steps answer.
`Undisturbed` (at most one failure per call, no crash, no other process) cannot be
dropped: finding 1 and the double faults above are its counterexamples.

### Ingests

`IngestStoreProofs` proves for every set of services and alerts, every set of
worlds the scrapes meet, every set of packs and any number of interruptions:

| Theorem | Statement |
|---|---|
| `TypeCorrect` | `Spec => []TypeOK` |
| `RetryIsSafe` | `~ReadErrors`: `Spec => []MergeRetrySafe` |
| `RowsResolve` | `PacksNameServices`: `Spec => []NoDanglingRows` |
| `NoAllClear` | `Spec => NoFalseAllClear` |
| `ClockIsLast` | `~ReadErrors`: `Spec => []ClockMovesLast` |

`ScrapeAssumption` and `IngestAssumption` say that the constants have their types
and that "no row" is no row. `PacksNameServices` is a condition on the fixture:
the fixture ingest makes stubs for the ends of edges but not for alerts, so a
pack whose live Prometheus alert names an unlisted service does break
`NoDanglingRows`. `~ReadErrors` cannot be dropped: a row that cannot be read is
overwritten (section 4), and the retry does not bring the lost health back.

`PhaseInv` carries the proofs: it ties each phase to its mode, says that the
temporary store is the scrape of the world for as long as a live ingest runs,
and bounds what is left to write. `RowsResolve` needs `WrittenInv` besides: once
the service loop is over, every service of the source is in the store, and no
phase removes one. That and `ScrapeClosed` (the ends of a configured edge are
seeded, the service of an active alert gets a stub) is the argument; the order
of the phases is its heart, as the mutant that merges edges early shows.

`RetryIsSafe` rests on two facts. `MergeAgain`: merging a row into what the same
row was merged into changes nothing, so it does not matter which rows an earlier
attempt had reached. And `RetryInv`: at every instant, between attempts too, each
row is the one from before the first attempt or the merged one, and it is the
merged one once the present attempt is past it. The resolving phase needs most
care, because its list of alerts is computed from a store that is already half
merged.

`ClockIsLast` needs two more. `PackInv`: while a fixture is written, each row of the
pack is in the store or left to write; no later phase removes a service or an alert
(`PackStays`), so once pinned, the clock stands over that pack until a `Reset`. `KeptInv`: a
merge onto a pinned store keeps it pinned up to its last statement, where `RetryInv`
says that the store is the whole merge. This is where `~ReadErrors` comes in.

### Source selection

`LoadStoreProofs` proves for any bounds on failures and on the ingests of other
processes:

| Theorem | Statement |
|---|---|
| `Invariance` | `Spec => []IInv` |
| `TypeCorrect` | `Spec => []TypeOK` |
| `NoLeak` | `Spec => []OnlyTheAnswerIsOpen` |
| `LiveIsEarned` | `Spec => []LiveEarnsItsPlace` |
| `AnswersHaveServices` | `Spec => []AnswerHasServices` |

`IInv` is the conjunction of `OpenInv` (what is open at each statement of
`loadAskStore`), `BranchInv` (which flags, and which use of the temporary store,
lead to it), `ScrapeInv` (what is known of a scrape that was looked at), `DiskInv`
(what is known of `state.db` while nobody else ingests) and `ChoiceInv` (while
nothing fails either, a populated store is never passed over). A leak is only
visible after the return, so the property itself says nothing about the middle
of the branch that would cause it: `OpenInv` does.

### Roll-up

`RollupProofs` proves for every set of services, dumps of any size, every filter and
table of rows, and any number of packs:

| Theorem | Statement |
|---|---|
| `Invariance` | `Spec => []IInv` |
| `TypeCorrect` | `Spec => []TypeOK` |
| `WorstWinsAlways` | `Spec => []WorstWins` |
| `AllClearIsEarned` | `Spec => []HealthyIsEarned` |
| `RecoveryIsVisible` | `Spec => []RecoveryShows` |
| `ReplayAgrees` | `Spec => []PackReplays` |

`AbsentAssumption` and `RollupAssumption` say that the constants have their types and
that an absent field, row or name is none. The properties speak of the finished
ingest; the invariants say what the loops have done so far. `WorstInv` (in `IInv`):
of the workloads already weighed, the one that speaks for the service has the
highest rank. `RowsInv`: a visited row is the merge of its earlier self with
that workload's word, and the events loop does not disturb it. `MergedIsWorst`: the
pairwise merge is the worst of the set that `WorstWins` names. `LoadedInv`: until a
pack is made the workloads are those of the dump. `PackInv`: a replayed workload
has either the health of the row or the counts of a rollout. What remains is about
one object and has no state: `HighestIsWorst` (a workload of the highest rank has
the worst health), `HealthyServes` and `ServesHealthy` (an entry is healthy exactly
when its object serves).

### Watch

`WatchProofs` proves for every interval, timeout and limit of loads and timers, and any
number of failing loads, changes and ingests:

| Theorem | Statement |
|---|---|
| `TypeCorrect` | `Spec => []TypeOK` |
| `DeadlineKept` | `Spec => []EndsInTime` |
| `RecoverySeen` | `Spec => []RecoveryNotMissed` |
| `WaitsBetweenLooks` | `Spec => []NoBusySpin` |

`WatchAssumption`: times are natural numbers, interval and timeout are not 0. `TimeInv` says
where the time stands at each statement; `SoonInv` that a look comes soon after the one
before, `LookInv` that what the last look did not find has happened since: together
they give the margin of `RecoverySeen`. `LoadsInv` bounds the number of looks by the time
that has gone, with one exception, the sleep that the deadline cuts short; `Fit` turns
that product into the quotient of `NoBusySpin`.

### Graph searches

`GraphSearchProofs` proves for every finite set of services, every graph and command:

| Theorem | Statement |
|---|---|
| `GraphTyped` | `Spec => []TypeOK` |
| `ImpactIsRight` | `Spec => []AffectedIsReach` |
| `CountedOnceHolds` | `Spec => []CountedOnce` |
| `TreeIsComplete` | `Spec => []TreeIsTheGraph` |
| `PathIsRealHolds` | `Spec => []PathIsReal` |
| `PathShortestHolds` | `Spec => []PathShortest` |
| `NoPathIsRight` | `Spec => []NoPathIsNone` |
| `CyclesAreReal` | `Spec => []CyclesReal` |
| `CyclesBreakAllHolds` | `Spec => []CyclesBreakAll` |
| `EachStepIsProgress` | `Spec => Measure = 4(n * n + n) + 5 /\ [](Measure \in Nat) /\ [][Measure' < Measure]_vars` |

`GraphAssumption` says that the services are a finite set of integers and that the graphs
and the commands are over them. That such a set has a least element is proved
(`LeastInt`, by the theorem that a well-founded relation has minimal elements).
Reachability is stated without recursion: what every closed set around the start holds.
`SeenInv` is the invariant of any search: what was seen is within every such set (nothing
too much), and the neighbours of a seen node are seen or in `rest` (nothing forgotten);
when the stack or the queue is empty nothing is in `rest`, and the seen set is closed
itself. `TreeInv`, `ImpactInv`, `SearchInv` and `StackInv` say what each search keeps
besides: which edges are drawn, that nodes with a rest are on the stack or in the queue,
that a queued path leads from the start along edges, that the stack is a path without a
node twice. Three arguments are about the order in which a search meets nodes:

- *No path is shorter* (`LevelInv`). The seen nodes have levels, `lev`: a queued path is as long
  as the level of its last node, the queue is in order of length, its last path at most one
  longer than its first, and an edge that was looked at leads at most one level up. A
  walk as short as the path in progress then meets seen nodes only (`NoShorterWalk`): at its
  first position that is not seen, or above its level, the node before it has nothing left
  to look at. So the target, which is not seen, is on none of them.
- *A circle is broken up* (`BreakInv`). A node that is left gets a rank above all ranks given
  before it. An edge from a node that was left leads to one of a lower rank or is an
  edge of a reported circle, so that what can be reached along unreported edges has lower
  ranks throughout. This is why it is enough that `Cycles` reports a circle for each edge
  that closes one, and need not list them all.
- *Every step is progress.* `Measure` counts twice the pairs of nodes not yet looked at and
  the nodes not seen, and once what is on the stack and in the queue. The bound it gives is
  the number of steps: what `Termination` adds to it is only that a search which has not
  ended can take one.

### Answers

`AskProofs` proves for every finite store, every command, and any number of writes of other
processes between the queries:

| Theorem | Statement |
|---|---|
| `AnswersTyped` | `Spec => []TypeOK` |
| `AllCitedIsShown` | `Spec => []CitedShown` |
| `CausesAreFound` | `Spec => []CausesFound` |
| `AnswersAgree` | `Spec => []PartsAgree` |
| `IncidentsAreKept` | `Spec => []IncidentKept` |
| `AnswersAreRepeatable` | `Spec => []Repeatable` |
| `ValidPacksAnswer` | `Spec => []ValidGraphAnswers` |
| `NoFireIsHidden` | `Spec => []NoFireHidden` |

`SignalsAssumption`: the two windows are natural numbers, the suspect window the shorter, and
both lie within the past. `AskAssumption`: the ids of services are numbers, and each service
can be asked for by its id; a test is a store of the schema (finite tables, each with its
primary key) with a command; another process writes or deletes rows of the schema.

- `TypeInv` gives each statement of `Ask` what it has read, and keeps that every table stays
  finite and keyed whatever others write. `CitedInv`, with it, is enough for `CitedShown`: the
  ids to load cover what is cited, what was shown at a time that has come stays so, and the
  store of the moment is among the `versions`, which is where a missing row was missing.
- `StaysInv`: a change or an alert that has been in every version since the command was begun
  is in the answer once its query is over. `CausesFound` is about such rows only; it holds
  while others write.
- `QuietInv`: as long as nobody writes, each part of an answer is a function of the store at
  the command's begin (`AnswerOf`), after the query that fills it (`ListedQuiet`,
  `NeighboursQuiet`), for each step of a runbook that has been verified (`RunbookQuiet`,
  `VerdictsQuiet`), and for what the last two queries add (`EndQuiet`). `PartsAgree`,
  `IncidentKept` and `Repeatable` then are statements about one store and no behaviour. They
  need that a set of rows with a primary key has one newest row (`Newest`) and, for
  `IncidentKept`, that of the rows of one name and severity the one that is scored has the
  most points.
- `HotInv` (for `NoFireHidden`): a listed service is still to be asked about or settled, that
  is, in the ranking with its score if it has a signal at all; the ranked scores are those of
  the store; and after the ranking the hottest is asked about once more, with its runbook or,
  under --runbook=false, without, which by `BookCounts` is at most ten points.
  `SumOf` says of the fold in a score that it is a natural number not less than any of the
  points, in whatever order it takes them.
- `ListedInv` (for `ValidGraphAnswers`): the ids that a ranking has still to ask about are those
  of rows, so each is found.

"First", "newest" and "hottest" are least elements of finite sets; `LeastSet` proves that they
exist, as inclusion among the subsets of a finite set is well-founded too.

### Packs

`ArchiveProofs` proves for every fleet, store and thing at the path, and any number of
commands, failing calls and kills:

| Theorem | Statement |
|---|---|
| `TypeCorrect` | `Spec => []TypeOK` |
| `NothingLost` | `Spec => []NothingLostUnasked` |
| `ExitZeroIsWhole` | `Spec => []PackedIsWhole` |
| `ReaderIsSafe` | `Spec => []ReaderSeesWhole` |
| `RefusesForAReason` | `Spec => []RetryWorks` |

`ArchiveAssumption` gives the constants their types; `BeforeAssumption` says that an archive
which was there before was made by this command. `LostInv`: nothing is touched before
the source is read. `BuildInv` says what the tree holds at each step: `Carried` (all of the
source but what is left to write or was lost on the way), then `Gilded` (each golden so
far is reproduced by a replay, and each that is wanted is there or left to write), then
`Sealed`. `CarriedReplay` and `GoldenReplay` say that a replay of such a tree gives back the
source and does not depend on the goldens. `ReaderIsSafe` needs in addition how far the
zip file has got, in its order: if `meta` is in, the goldens are, and an archive without
`meta` cannot be opened (`PartTrusted`). `CalmInv` carries what a command without failures has
not done.

### Not proved

- `Terminates` and `Termination`, liveness under fairness, which is beyond the prover. TLC checks
  them. The safety half of each is a theorem: `EachStepIsProgress` bounds the steps of a search,
  `DeadlineKept` and `WaitsBetweenLooks` the time and the number of looks of a watch.
- That a command which has not ended can take a step (`ENABLED`): TLC checks it where deadlock is
  checked, and through the liveness properties.
- `ClockMovesLast`, `NoDanglingRows` and `MergeRetrySafe` beyond the conditions named with their
  theorems, and `ImplementsAtomicStore` without `Undisturbed`: they are false there.
- What a recursive definition computes on every input, by induction over data. No property needs
  it: what looked like it, least elements and shortest walks, follows from well-foundedness.

## 6. Not modelled

Text: parsing of configs, packs, YAML and Kubernetes objects, prompts, tables,
JSON, and AI answers, which are checked for citations and never stored; the guessing
of runbook checks out of a step's words. git, helm and plugin connectors and the
discovery of runbooks: child processes and directories whose content becomes rows.
SQLite itself: a statement commits or does not, and a reader sees committed rows.
Schema versions: `store.Open` refuses a newer one. Full-text search and counts.
`test --update`, which rewrites goldens in place. A directory that is read while it is
being packed into: the recipient of a directory may meet any mixture, and the code
promises nothing there. `config`, `init`, `doctor`, `demo` and `prove` keep no state.

## 7. The plan

Done, in this order: `StoreSwap` with `AtomicStore`; `IngestStore` over `LiveScrape`; `LoadStore` and
`Watch`; `Rollup` over `Workloads`; `GraphSearch`; `Ask` over `Signals`; `Archive`; and their proofs.

Next:

1. Two replacements of one directory, which share `.tmp` and `.bak` (`store.go:119`).
2. Two merging processes that both read, then write a row (`merge.go:142`); deploys and
   runbooks in the merge and in a fixture.
3. The `pods` of `LiveScrape` as what `Rollup` leaves; services inferred from names; failing
   statements.
4. A plugin process: started, stopped in time, its output taken or left.
5. Proofs: `MergeRetrySafe` with reads that fail only for rows that are missing; the order of
   `Cycles`' output; what holds of an answer's parts when others write to other services only.
