# Verification of missingarr

missingarr sends search commands to Sonarr and Radarr ("*arr") instances on a
schedule, remembers what it searched, and later asks *arr what became of every
command. This directory holds TLA+ models of the parts of it where several
threads, an unreliable peer and a restartable process meet, the TLC runs that
check them on small instances, and theorems checked by TLAPS for every size.
Paths below are relative to `src/`.

    tlc -workers 2 -config MCSearchLedger_ledger.cfg MCSearchLedger.tla
    tlapm SearchLedgerProofs.tla

## 1. Inventory

The program is one Python process: a FastAPI application whose requests run in
a thread pool, one agent per instance with an APScheduler thread and its job
threads, and one SQLite file. Threads share the orchestrator's tables, an
`InstanceRuntime` per instance, and the database.

| Component (code) | State | Operations | What must be right |
|---|---|---|---|
| Search runs and the books (`skills/base.py`, `skills/search_*.py`, `db/history.py`, `db/searched.py`) | `search_history`, `search_history_items`, `searched_items`, `runtime.unsaved_submissions` | start a run, store earlier unsaved results, read the cache, send, record, close; clear, purge; close what a crash cut off | an accepted command is never forgotten, stored once, its title not searched twice; cache, items and run verdicts agree |
| Command verification (`verification.py`, `skills/verify_commands.py`) | item status, `checked_at`, run verdict | ask *arr, resolve, mark, expire, settle | a verdict is *arr's word or a giving up, is final, and always comes |
| Agents and orchestrator (`agents/orchestrator.py`, `agents/base.py`, `api/instances.py`) | `_agents`, `_adhoc`, `_runtimes`, events, scheduler threads, skill locks | start, stop, reload, forget, trigger, gated jobs | one run per skill; no scheduler nobody can stop; enabled means scheduled; switching off and deleting end what runs |
| Rate window (`agents/base.py`) | deque of time stamps | reserve, release, prune | the cap holds for skills side by side |
| Checked search (`checked_search/runner.py`, `db/checked_search_*.py`) | log rows, pauses, dry-run round, retry entries, kept grabs | collect; per title: load, queue, release search, `/parse`, health, reads before the grab, grab, store | no download doubled, an unclear grab counts as a grab, a slot per search, every title comes up, a title once per dry-run round |
| Checked search rules (`checked_search/*_rules.py`, `verdict.py`, ...) | none | pure matching | cases, not behaviour |
| Imports page (`imports/service.py`, `api/imports.py`) | queue snapshots, counts, proposals, generations, tickets, slots; `_busy`, `_uncertain`, `_sent`, `_revision` | list, count, card, import, discard, follow a command, forget | a download is imported once and not discarded meanwhile; nothing sent for a configuration that is gone; "imported" is true; no stale answer comes back |
| Quality profiles (`skills/profiles.py`) | fingerprints on cache entries | compare | a changed profile unblocks |
| Candidate selection (`search_missing.py`, `search_upgrades.py`) | none | order, quotas, ancestor rule, quiet hours | every candidate comes up; midnight and equal bounds |
| Sign-in (`auth.py`), key migration (`crypto.py`), live log (`log_broadcaster.py`), health check, database migrations, web pages, front end | small | see PROJECT.json | see PROJECT.json |

Interactions: a job or a force run takes the skill's lock from the instance's
runtime, runs `execute`, which reserves a slot of the rate window per title,
sends the command and stores item and cache entry in one transaction; what
SQLite refuses is kept in `unsaved_submissions` and stored by the next run of
any skill of the instance. `verify_commands` (a job every two minutes, not tied
to the search flags) settles items and runs. The API writes the row and calls
the orchestrator, which replaces or stops agents while their runs go on.

The Imports page talks to *arr from request threads with detached agents; it
shares nothing with the searches but the instance's row, whose edits call
`forget_instance` before and after the write.

Hard behaviour: two search skills side by side on the same list and cache; the
database refusing a write between sending and recording; lost answers;
verdicts that arrive after a newer search of the title; process death between
any two steps; requests interleaving inside the orchestrator; a run outliving
its agent; everything around deletion; *arr going on by itself while a title is
checked; a POST that arrives after its client gave up; answers stored in another
order than they were asked for; time limits that must fit together (pauses and
run intervals, retry windows, the 24 hours of an item, the hour of
housekeeping). `PROJECT.json` lists the hazards at their lines, with the
properties that cover them; the note of an uncovered one says why.

## 2. Modules

**`Verification`**: the two decision tables of `verification.py`
(`MapCommandStatus`, `AggregateRunStatus`). Order and multiplicity of a run's
items do not matter to the code, so a run is the *set* of its statuses.

**`SearchLedger`**: the books of one instance. One step is one transaction, one
HTTP exchange or one access to the shared list.

| State | Code |
|---|---|
| `runs`, `items` | `search_history.status`, `search_history_items`; `live` is FALSE once a row was deleted |
| `cache`, `lapsed` | `searched_items` with `history_item_id`; an entry lapses when its retry window ends or the profile changed |
| `unsaved` | `runtime.unsaved_submissions`, guarded by `unsaved_lock` |
| `searcher[s]` | the local variables of the skill's running `execute` |
| `verify` | those of the verification pass |
| `arr` | commands inside *arr; a command is named after the attempt that sent it |
| `lost`, `excused` | observations for the properties: commands whose answer or process died; keys unblocked on purpose |

`StartRun` ... `CloseBroken` are `execute`, `submit_candidates`, `run_checked`
(one step per title), `_store_submission`, `store_unsaved_submissions` and
`finish_search_run`, error paths included. `VerifyStart` ... `VerifyFails` are
the pass. `ClearHistory`, `PurgeOldRun`, `ClearCache`, `EntryLapses`,
`PurgeEntry` are the user and the hourly housekeeping. `CrashRestart` is the
death of the process followed by `close_interrupted_runs`. `ArrSettles`,
`ArrForgets`, `ItemAges` are the world.
Left out: which candidates qualify (any subset of the skill's unblocked keys is
taken), hold keys and ancestor keys (more entries, no further state), dry runs
(log rows only), the profile fingerprint (it is `EntryLapses`), the 50-item batch and
its order (`VerifyPass`), legacy statuses. `searched.add` is called
by nothing and is not modelled.

**`CommandTracking`**: the promise about one command: unsent, held, tracked, a
verdict, or lost with a crash or its answer. `SearchLedger` implements it; the
mapping (`PhaseOf`) reads the phase off items, `lost` and `arr`. `Resolve`
accepts *arr's verdict also when *arr forgot the command since the answer,
because the answer and its transaction are two steps.

**`AgentLifecycle`**: the orchestrator, the agents and the requests of one
instance. `Clients` are request threads; a request is a program counter through
`start_agent`, `stop_agent`, `reload_agent`, the delete handler or `trigger`,
one step per hold of the orchestrator's lock, row access or event. An agent is
its scheduler state, `_stop_event`, `_abort_event` and runtime; `locked` are the
runtime's skill locks; `run` is how far a skill run is ("gated" holds the lock,
"searching" has its history row). A trigger that reaches a registered agent
before `start()` built its skills is turned away, as in the code.
Left out: the start and stop of the whole process, a thread that cannot be
started, the join time-out, quiet hours (a job may always be skipped), and
display state.

**`RateWindow`**: `reserve_action`, `release_action`, `_prune_actions`,
`get_rate_used` over the deque, with a clock, a cap that is saved anew, and lost
answers. The window's length is fixed per instance of the model. The deque is
in memory, a restart empties it by design.

**`CheckedRun`**: the scheduled checked search of one instance, the inside of
`SearchLedger`'s `Check`. A run is a program counter through `execute`
(`Begin`, `ReadWholeQueue`, `Collect`), `run_checked` (`NextTitle`, `Store`,
`StoreFails`) and `_TitleCheck.run` (`Load`, `ReadQueue`, `Search`, `Parse`,
`ReadHealth`, two `Reread`s, `Post`); `Stop` is `stop_check` at each of its
places. A step is one HTTP exchange or one transaction.

| State | Code |
|---|---|
| `file`, `download`, `late` | in *arr: file id, queue entry, grabs without an answer it still works on |
| `cached`, `unsaved`, `pause`, `rows` | `searched_items`, `runtime.unsaved_submissions`, `checked_search_pauses`, dry-run rows of the log |
| `mode`, `round` | `checked_search`, `dry_run_round` of the instance |
| `wait` | time until the scheduler's next run; the unit is six hours |
| `out`, `checks`, `seen`, `run.news` | observations: grabs that may be at *arr, checks per round, the round of the last load, when a download began |

Titles are listed in a fixed order (`search_order` oldest or newest; random
order has no first title to starve on). The verdict on a release, whether an
answer arrives and how many releases a search approves are free choices. Left
out: fingerprints, the ancestor rule and the anime rule (they only exclude further
titles), `cache_key`s of seasons, deleting a file by hand, purging an old round's
rows while it is not the running one's (`KeptRows` keeps only the running round;
the code keeps younger rows of other rounds too, which nothing reads). A run
is short against a unit of time: `Tick` waits for it. A pause that ends
at the very instant of a run counts as over.

**`VerifyPass`**: the verification pass with more open items than `MAX_PER_RUN`.
`line` is the order by `last_checked_at` (never-checked items come first, by id),
`old` are items past `STALE_HOURS`, `late` those that were also checked past
them; `since` and `sweepers` are `_last_housekeeping` and who passed its guard;
`loop` is the time until the next round of the orchestrator's housekeeping thread,
which may lie anywhere in the hour an agent claimed (`Init`: the instance may be
created at any time between two rounds); a round that cannot read the instances
claims nothing and is followed by a full interval all the same (`AppRefused`).
`heard`, `gap` and `missed` (such rounds since housekeeping last began) are
observations. Checks made in one pass share a time stamp and are ordered by id;
two passes never write the same second. An item whose `GET` is never answered is
never marked and stays first in its group; *arr comes back by assumption. Local
time and its change in autumn are left out.

**`Imports`**: the actions of the Imports page on one instance. A step is one hold
of the service's lock, one access to the row, or one half of an HTTP exchange.

| State | Code |
|---|---|
| `row`, `revision` | the instance in the database, `_revision` |
| `busy`, `guards`, `sent` | `_busy`, `_uncertain`, `_sent` |
| `client[c]` | a request thread in `import_download`, `discard_download`, `command_status`, or an edit in `api/instances.py` |
| `wire` | POSTs and DELETEs no app has taken; a client may give up first, the request arrives within `MaxDelay` or never |
| `arr[a]` | the app: listed commands, queue, import records, start time |
| `lines` | result lines of the activity log |

An edit is `forget_instance`, the row, `forget_instance` (update, toggle, delete).
An app that restarts shows an empty queue until its next refresh, and its commands
may be orphaned, gone or run again. Left out: imports somebody starts in the app
itself, a download client the app cannot read (the same empty queue without a new
start time: the "Known limit" of `_completed`, service.py:902-904, under which a partly
imported download may still look imported), what the proposal says. Actions never read a cache, so the caches
are a module of their own. The memory-only state is lost with missingarr's own
process; the guards are then gone by design and the model has no such step.

**`ImportCaches`**: the caches of the page. What an app answers is the *version* of
its state at that moment, so "stale" is "older than". A reader is a program counter
through `list_open`, `cached_count`, `proposal_view` or an action; every cache entry
may expire at any time (`Expire`), an edit drops all (`Forget`). `queueFloor`,
`proposalFloor` and `shown` are observations: the version at the last invalidation
and in the newest list a page got.

**`MC*`**: model values, constant definitions and symmetry for TLC.
**`SearchLedgerProofs`**, **`LedgerTrackingProofs`**, **`AgentLifecycleProofs`**, **`RateWindowProofs`**,
**`ImportsProofs`**, **`ImportCachesProofs`**, **`CheckedRunProofs`**, **`VerifyPassProofs`**: theorems.

## 3. Runs

| Run | Shows |
|---|---|
| `MCSearchLedger_ledger` | one skill, one title, commands and checked searches, two runs, two faults, a crash: types, `CommandAccounted`, `EntryNamesItsWriter`, `VerdictMatchesItems`, `NoDoubleSearch`, `EntriesStay`, `VerdictsAreFinal` |
| `MCSearchLedger_skills` | two skills side by side, three runs: the shared list stores each command once (`RecordedOnce`); `ImplementsTracking` |
| `MCSearchLedger_live` | every pending run gets its verdict |
| `MCSearchLedger_race` (violation) | two skills search one title twice |
| `MCAgentLifecycle_single` | requests one after the other, deletes included, against schedulers and runs: types, `EnabledIsScheduled`, `OffReachesKnownRuns`, `OneRunPerSkill` |
| `MCRateWindow_cap` | `CapKept`, `SlotsHeld` with two skills, equal time stamps, refusals, aborts, a lost answer, caps including 0 |
| `MCImports_imports` | two tabs, two apps, one download: late POSTs and DELETEs, edits, a restart of an app: `OneImportPerDownload`, `AwaitedDiscardIsAlone`, `SendsUnderCurrentRow`, `FollowedIsCurrent`, `LoggedOnce`, `ImportedHasLeft` |
| `MCImportCaches_caches` | three readers, two slots: `NothingStaleKept`, `ServedAfterAction`, `CountMatchesList`, `SlotsGivenBack`, `LaterReadWins` |
| `MCCheckedRun_title` | one title, both modes, a dry-run reset, faults: `NeverDoublesDownload`, `UnclearGrabBlocks`, `SlotsMatchSearches`, `EachRoundOnce` |
| `MCCheckedRun_turns` | two titles, one per run, six hours between runs: `TitlesComeUp` |
| `MCCheckedRun_starve` (violation) | the same with thirty hours between runs |
| `MCVerifyPass_rotation` | three items, two per pass, outages, switching, restarts, rounds that cannot read the instances: `EachHeardAgain`, `NobodyOvertakes`, `GivenUpWasHeard`, `HousekeepingGoesOn` |

**Bounds.** Every bound is a constant named in its module. Two commands for one
title are what every double-search, ownership and ordering question needs; two
runs let a result be kept by one and stored by the other, a third is needed when
two skills start while the list holds a first run's result. With one title
everything meets that can: commands, results and entries interact only under the
same key, and through a run's verdict, which has items with different verdicts
here too (a kept result is filed under a later run when its own was deleted). Two faults allow a refused write
followed by a second one on the error path. The clearing of the cache and the end of the
retry window already bring two commands of one title about; force runs take
part in the liveness run and in the violations, and are left out of the two large
runs to keep them small. `MaxItems` leaves
room for recording a title twice. Four agents and
requests allow an agent to be replaced twice while a run of the first goes on
and a throwaway agent exists. The rate window has five instants and a window of
two, so slots expire at either side of the boundary.


One download, two threads and two apps are what the questions of `Imports` need: its
state is kept per download, an action excludes one other, and an edit points the
instance from one app to the other. Two POSTs are a first import and the
one that must not happen, three requests leave room for an edit or a poll besides,
and three instants let a guard of two run out after a POST of age one arrived.
`ImportCaches` has one reader more than slots, and two versions, before and after,
which is all "older than" needs.
`CheckedRun` is checked with one title for what concerns a title (two outside
events, two faults, one force run, one reset) and with two titles for their turns;
what a run does to two titles meets only in `PerRun` and the order. Four units of
time are the longest pause. `VerifyPass` has one item more than a pass asks
about, so that a wrong order leaves one behind; an hour of two ticks
lets the orchestrator's round fall at the start, in the middle or at the end of an
hour the agent claimed, and two faults allow two rounds in a row that cannot read the
instances. The bound of `HousekeepingGoesOn` is reached: the gap grows to one tick
under two hours without such a round and to one under four with two.

**Deadlock** is checked for the ledger, the rate window and the verification pass.
An idle instance whose request, job, outside-event or clock bounds are used up
rests, so `AgentLifecycle`, `Imports`, `ImportCaches` and `CheckedRun` are run with
`CHECK_DEADLOCK FALSE`.

**Symmetry** is declared for skills, clients, apps and readers where they are
interchangeable and the run checks no liveness.

**Fairness.** `SearchLedger` (`FairSpec`): weak fairness of the verification pass,
because the scheduler starts it every two minutes whatever the search flags say,
also after a restart, and of time passing over an open item. Nothing else is fair:
*arr may never finish a command, no run has to start, no run has to end. Aborted and
failed passes are bounded by `MaxFaults`: infinitely many of them would starve
the verdicts in the code too.
`VerifyPass` (`Spec`): the same pass, each step of it (every HTTP call has a time-out),
and *arr coming back; no command has to end, no item has to grow old.
`CheckedRun` (`FairSpec`): the scheduler fires, every step of a run ends (time-outs
again), time passes, and a late grab arrives or is given up. What makes a title fail
is left free, so a title may fail in every run.

### What the code does otherwise than it says

Two of these are kept as runs that TLC must find violated:

- `race`: `_take_eligible` / `_keep_uncached` read the cache first and the list
  of unsaved commands second; a command that moves from the list into the cache
  in between is in neither result, and its title is searched again.
- `starve`: the pauses of 6, 12 and 24 hours are meant to let the next title come
  up, but the time between two runs may be longer (`interval_minutes` up to a
  week, upgrades every four intervals). Each pause is then over, and 24 hours
  after its end forgotten, when the next run begins.

The others show when the named property is checked with the constants given here:

- *A late command takes the entry.* `NewerSearchKeepsTitle` (`SearchLedger`, `command`
  mode, both `Forces`, three runs, two faults): entries are owned by the item stored
  last. A kept command stored late takes the entry of a newer command of the title,
  and its failure releases it.
- *A lost answer is a refusal.* `AcceptedCommandsKnown` (`command` mode, one fault):
  every exception of the POST counts as a refusal, also a time-out after *arr
  accepted; the checked search tells the two apart.
- *A run outlives its agent.* `DisablingAborts` (`AgentLifecycle`, one client, four
  agents): a run that outlived a reload belongs to an agent nobody references;
  switching the instance off does not abort it. (Saving the form with the flag
  off does not abort either, by design: a reload lets runs finish.)
- *An unreferenced scheduler.* `NoOrphan` (`AgentLifecycle`, two clients, one skill, the
  kinds on, off and save, three agents and requests, no jobs): `start_agent`
  registers an agent before `start()`. If another request takes it out and stops it in
  between, `start()` clears the stop event and the scheduler runs on, referenced by
  nobody. The comment at orchestrator.py:118-120 promises the contrary of concurrent starts
  ("stop it too, or its scheduler would keep running unreferenced").
  `EnabledIsScheduled` fails with the same constants: an off that comes between the
  reading of the row and the registration finds nothing to stop, and the switched off
  instance keeps an agent. Both hold as long as edits do not overlap.
- *A run for a deleted instance.* `DeletedIsSilent` with two clients: between the wait
  for the locks and the deletion of the row a trigger may start a run nobody
  aborts. The forgotten runtime also takes its locks with it, and a throwaway agent
  made meanwhile gets new ones: `OneRunPerSkill` with two clients, one deleting. The
  theorem `DeletesKeepLocks` names exactly that as its hypothesis (`ForgetsAlone`).
- *A force run between the two steps of an off.* `OffReachesKnownRuns` with two clients: an
  off takes the agents out under the orchestrator's lock and stops them after it.
  A force run enlisted on a throwaway agent in between is in no list the off has
  and is not told to end. `OffReachesRuns` names it as its hypothesis (`OffAlone`).
- *A late DELETE.* `NoDiscardUnderImport` (`Imports`, the constants of the run `imports`,
  17 steps): a discard whose answer is lost leaves no guard (only an import does), so the
  download may be imported again while the DELETE still travels to the app.
  running_import (service.py:662-665) says what that means: "A discard would delete the
  files under a queued import". What holds is `AwaitedDiscardIsAlone`: as long as
  the discard waits for its answer there is no import, also no late one.
- *A result for another import.* `ImportedIsComplete` (`Imports`) with `MaxRequests = 4`,
  `MaxRestarts = 0` and the kinds import, status and edit: `_final` looks
  `_sent[(instance, command id)]` up again and does not compare the entry with the one
  its request began with. If the row gets another app while a status request is
  under way, and an import sent there is given the same command id, the old app's
  result is logged as the new import's. What holds is `ImportedHasLeft`: the
  conclusion itself is right for the import it was read for, and the theorem `LogIsRight`
  says that the missing comparison (`SameImport`) is the only way the log can be wrong.

Small ones, seen while modelling: `expire_stale_items` compares the time at the *end*
of the pass, so an item answered just before its 24 hours are over may be given up in
that very pass; a guard of an import ends with any new ManualImport of the download,
also one somebody started in the app.

## 4. Theorems

All constants are arbitrary up to the named `ASSUME`s (bounds are naturals, a POST is
on its way for less than a guard lasts, keys have an owner among the skills, `NoKey` is no key, modes and request kinds are
the known ones, the readers of the Imports page and the skills that share a
rate window are finitely many, the first file's rank is one of the ranks). No proof takes a step on trust.

`SearchLedgerProofs`
- `TypesHold`: `Spec => []TypeOK`, from `TypeInv`, which adds that a search under
  way has a run of its own (the type of the run a result is filed under).
- `CommandsAccounted`: `Spec => []CommandAccounted`. `CommandAccounted` alone is
  not inductive: a command moves from hand to list to item, and no step may empty
  one place before the next is filled. `AccountInv` adds that only a title
  waiting to be stored carries a command, that one search at a time works
  through the list, that the entry about to leave the list has its item, that
  rows not written yet hold no command, and that a verdict about to be written
  never reopens an item. `BooksMove` covers the steps outside the searches (the
  pass, the user, time, *arr): they send nothing, and an item keeps its command
  and is not deleted while it is open.

`LedgerTrackingProofs` (any number of skills, titles, runs, crashes and refused writes)
- `VerdictsFinal` (`VerdictsAreFinal`), `VerdictsMatchItems` (`VerdictMatchesItems`): from
  `SettlingInv`. A verdict is not written at once: a pass decides on items it listed
  earlier, a search closes a run from results it holds. So the invariant says that results
  and items agree on what may still change (`ResultsAgree`), that a row is written
  before it counts (`ItemsWritten`), that a pass asks only about items that were open when
  it listed them (`PassAsksOpenItems`), that a run under way is held by one search
  (`RunsHeld`) and that a run which could not save ends as failed (`UnsavedRunsFail`).
- `EntriesNameWriters` (`EntryNamesItsWriter`), `EntriesGiveWay` (`EntriesStay`): who
  wrote an entry, and that only the failure of that item, or the user, releases it.
- `CommandsRecordedOnce` (`RecordedOnce`): from `PlaceInv`. A command has one place,
  a hand or the list, until it is filed; the search that files it from the list
  is the only one that works through it.
- `LedgerImplementsTracking` (`ImplementsTracking`): the initial states map to initial
  states, and every step to a step of `CommandTracking` or a stutter
  (`TrackingInit`, `TrackingStep`). `TrackInv` adds `AnswerStands`: what *arr has
  said of a command is still true of it when the pass writes it down.
- `SearchesAreSingle`: `Spec /\ []ReadsAlone => []NoDoubleSearch`. `ReadsAlone`
  excludes one interleaving, that of the run `race`: a search moves results from the
  list to the cache while another is between its reads of the two. TLC shows the
  property violated without it; with one skill it always holds. `BlockInv` follows a command
  that must block its title to the one thing that blocks it (`OneBlocks`): the
  result in hand, the list, an entry, or the open item (`FiledBlocks`); and a search
  that has read has seen it, wherever it was (`ReadBlocks`, `TodoIsFree`).

`AgentLifecycleProofs`
- `TypesHold`: from `TypeInv`: whatever is registered, dispatched or running was
  made, an agent that was made has a runtime, and a request between making and
  launching (or firing) has an agent.
- `LocksHold`: `"delete" \notin Kinds => (Spec => []OneRunPerSkill)`, for any
  number of request threads, agents and skills, with edits that overlap as they
  like. `LockInv` adds that every agent made so far uses the first runtime, that
  the runtime stays, and that a run holds its skill's lock in it.
- `DeletesKeepLocks`: `Spec /\ []OneEdit /\ []ForgetsAlone => []OneRunPerSkill`, deletes
  included. `OneEdit`: the edits of the instance (switch, save, delete) do not
  overlap; force runs, jobs and runs go on beside them, any number at once.
  `ForgetsAlone`: while a delete is between forgetting the runtime and erasing the
  row, nobody is about to make a throwaway agent. `GoneForGood` replaces "the
  runtime stays": it is missing only while a delete is at that point, or for ever.
  TLC, two clients: the property holds under both and is violated without either.
- `EnabledHasAgent`: `Spec /\ []OneEdit => []EnabledIsScheduled`. `EditInv` says at each
  place of an edit which agent may still schedule, what is registered and what the
  edit knows of the row (`Stage`), and what holds between edits (`Settled`). Without
  `OneEdit` it does not hold (see "An unreferenced scheduler").
- `OffReachesRuns`: `Spec /\ []OneEdit /\ []OffAlone => OffReachesKnownRuns`. `ReachInv`:
  every run that no reload has let go is of the registered agent, of a throwaway
  one on the list, or of one in the hand of the request that stops it
  (`RunsReached`), and so is every run about to fire (`FiresReached`). `OffAlone`
  excludes the interleaving described above; TLC, two clients: holds with it,
  violated without.

These hypotheses are always true for one client, which is what the run `single` checks;
the theorems say how far the properties reach beyond it.

`RateWindowProofs`
- `TypesHold`; `EverySlotHeld` (`SlotsHeld`); `CapIsKept` (`CapKept`). That a skill's search
  is counted is not inductive: a release removes *a* stamp of its instant, perhaps the
  other skill's. `SlotsCover` therefore says for every *set* of instants within the
  window that the deque has a stamp for each search that counts there, which no
  removal of an equal stamp disturbs. The proof needs no order of the deque: only
  stamps out of the window leave from the left. `SkillsAssumption` makes the sets
  countable.

`ImportsProofs`
- `TypesHold`, `OneImport`, `NoDiscard`, `SendsCurrent`, `FollowsCurrent`, `OneLine`:
  `Spec => []` of `TypeOK`, `OneImportPerDownload`, `AwaitedDiscardIsAlone`,
  `SendsUnderCurrentRow`, `FollowedIsCurrent` and `LoggedOnce`, for
  any threads, apps, downloads and bounds, late POSTs and DELETEs included.
- The first needs an argument of its own, that an app has no more commands than
  were sent (`PostsBound`, a pigeonhole): each post number is sent by one client, on
  the wire once and at an app once (`PostsOnce`).
- `ImportInv` carries `OneImport`. `Exclusive`: one action per download, the one that
  holds `_busy`. `GuardInv`: a POST nobody waits for is guarded, by a guard set
  no earlier than the POST left, whose `before` has all listed commands of the download;
  `TimesAssumption` makes the guard outlast it. `ReadyInv`: an action between its list and
  its guard check either will be refused or has nothing on its way; from the guard
  check to its own request nothing is. `OneInv` follows the rest: one POST of a download
  on the wire, none while a command of it runs.
- `CurrentInv`: while no edit is between its write and its second forgetting, who
  has the current revision was made from the row as it is; each forgetting makes all
  revisions taken before it old ones (`ForgetSettles`).
- `LogInv`: what is followed or logged is a command whose answer is not
  awaited by anybody, so it is never remembered anew.
- `ImportedLeftQueue`: `Spec => []ImportedHasLeft`. `FollowInv` says what a
  request may rely on at each step (`Relies`): an action saw the queue and no
  restart came since; a status knows of any restart after its reading of the start
  time, and what it found out of the queue is out for good.
- `LogIsRight`: `Spec /\ []SameImport => []ImportedIsComplete`, in fact that a download
  logged as imported has left the queue (`LoggedLeft`). `SameImport` is the
  comparison `_final` does not make (see "A result for another import").

`ImportCachesProofs`
- `CacheTypes`, `SlotsComeBack`, `NothingStaleIsKept`, `NobodyIsServedStale`,
  `MenuFollowsPage`: `Spec => []` of `TypeOK`, `SlotsGivenBack`,
  `NothingStaleKept`, `ServedAfterAction` and `CountMatchesList`, all from
  `CacheInv`; `LaterReadStays`: `Spec => LaterReadWins`. A finished cache
  is fresh because of what is still *in hand*: while the generation a reader
  remembered is the current one, the answer it holds is no older than the last
  action or edit, so storing it is harmless; once the generation moved on it is
  not stored. The slots come from the cardinality of the set of readers between
  taking and giving back, for which a step of one reader adds or removes that
  reader only (`Counting`).

`CheckedRunProofs`
- `CheckTypes`, `SlotsAreSearches`, `RoundsAreOnce`, `DownloadsAreNotDoubled`,
  `UnclearGrabsBlock`: the invariants `TypeOK`, `SlotsMatchSearches` and
  `EachRoundOnce` and the action properties `NeverDoublesDownload` and
  `UnclearGrabBlocks`, from `CheckInv`. It adds `RunOK` (which fields of the run may
  hold what at which step; without `SlotsMatchSearches` the slots could not be
  shown to stay a natural number when one is given back), `NewsInv` (a download
  that began before the two last reads is still in the queue or already in the
  file, so the reads saw it), `OutInv` (a grab that is out is in the cache, in the
  process's memory or in the hand that is about to store it, and never on the
  list of a run that minds blocks) and `RoundInv` (a counted check has its row, a
  listed title has none of this round).

`VerifyPassProofs`
- `HeardBeforeGivenUp`: `Spec => []GivenUpWasHeard`, from `HeardInv`: an item
  kept as late was heard of past its time.
- `HousekeepingIsKept`: `Spec => []HousekeepingGoesOn`, from `KeepingInv`: the gap
  since housekeeping last began plus the time left until the orchestrator's next round
  stays under two hours and one more for each round given up, and who
  keeps house has used up the hour.
- `PassTypes` (`TypeOK`), `NobodyIsOvertaken` (`NobodyOvertakes`), `BatchesAreFull`: from `OrderInv`. The line
  holds open items only, each once; what a pass has asked or will ask is open; items
  are filed in the order of their ids. The two last are what `EachHeardAgain` rests
  on besides fairness, for any number of items: until *arr has answered about an
  open item nobody gets in front of it (except a new item in front of those asked
  before, which `get_pending_items` wants), and a pass leaves an item out only for a
  full batch in front of it. So what is in front of an item shrinks with every
  pass that *arr answers. `ById` and `Without` are ordered lists of a finite
  set; that there is one is proved from the well-foundedness of inclusion
  (`Listable`, `ByIdLists`), without induction over an operator. The run `rotation` checks
  the first; without either exception TLC finds it violated.

**Only model-checked.** The liveness properties `PendingRunsSettle`, `TitlesComeUp` and
`EachHeardAgain`: they rest on fairness and `ENABLED`, out of the prover's reach. For the
last, `NobodyIsOvertaken` and `BatchesAreFull` prove the safety half. Every other
property of a passing run is stated by a theorem, four of them under the
hypotheses named above.

## 5. Plan

Done: the ledger with its promise, the agent life cycle, the rate window, the checked
run, the verification pass, the Imports page with its caches, and a theorem for
every safety property. Next:

1. `CheckedRun`'s title check as a refinement of `SearchLedger`'s `Check`.
2. `CandidateOrder`: order, quotas, quiet hours and ancestor rule as pure operators
   against reference definitions.
3. `SignIn`, `KeyMigration`: login throttle and token version, re-encryption in one
   transaction (low priority).

Not modelled, and why: the rules of the checked search, `imports/entries.py` and the
profile fingerprints are functions of one answer, whose cases are data (strings,
tags, numbers) and are covered by the repository's own tests; the front end, the
pages, the queries and the health check change no state anything depends on; the
database migrations run once before anything else does.
