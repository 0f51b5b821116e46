----------------------------- MODULE CheckedRun -----------------------------
(***************************************************************************)
(* The scheduled checked search of one instance (checked_search/runner.py  *)
(* under skills/search_missing.py): what a run leaves out before it counts *)
(* "per run", the reads around the release search and the grab, and what a *)
(* title's outcome leaves behind: retry entry, error pause, dry-run row.   *)
(*                                                                         *)
(* A step is one HTTP exchange or one transaction.  *arr goes on meanwhile *)
(* (other grabs, imports).  Time is counted in units of six hours, a run   *)
(* is short against one (its time budget is 25 minutes by default).        *)
(***************************************************************************)
EXTENDS Integers, FiniteSets

CONSTANTS
    LastTitle,      \* number of titles
    FirstFile,      \* file a listed title has: 0 (missing) or 1 (upgrade)
    PerRun,         \* missing_per_run
    Interval,       \* time units between two scheduled runs
    MaxReleases,    \* approved releases of one search
    Modes,          \* settings of checked_search the user chooses from
    MaxOutside,     \* bounds of the model: what *arr, time and the user do,
    MaxFaults,      \* refused writes, unread lists, aborts and crashes,
    MaxForced,      \* force runs,
    MaxRound,       \* dry-run rounds,
    MaxFile         \* files of a title

ASSUME ModesAssumption == Modes \subseteq {"active", "dry_run"} /\ Modes # {}
ASSUME BoundsAssumption ==
    {LastTitle, PerRun, Interval, FirstFile, MaxReleases, MaxOutside,
     MaxFaults, MaxForced, MaxRound, MaxFile} \subseteq Nat
ASSUME FileAssumption == FirstFile <= MaxFile

VARIABLES
    file, download,     \* in *arr: file id and queue entry of each title
    late,               \* grabs without an answer *arr still works on
    cached,             \* searched_items: "none", "miss" or "grab"
    unsaved,            \* runtime.unsaved_submissions: titles of kept grabs
    pause,              \* checked_search_pauses
    rows,               \* dry-run rows in the log, errors aside: title, round
    mode, round,        \* the instance's row: checked_search, dry_run_round
    wait,               \* time until the scheduler's next run
    run,                \* local variables of the skill run
    forced, outside, faults,
    out,                \* observation: titles with a grab that may be at *arr
    checks,             \* observation: checks of a title per round
    seen                \* observation: the round a title was last loaded in

world == <<file, download, late>>
books == <<cached, unsaved, pause, rows>>
setup == <<mode, round>>
observed == <<out, checks, seen>>
vars == <<world, books, setup, wait, run, forced, outside, faults, observed>>

----------------------------------------------------------------------------
(* Types *)

Titles == 1 .. LastTitle        \* in the fixed order of the search
Rounds == 0 .. MaxRound
Files == 0 .. MaxFile

Pausing == {"error", "grab_failed"}
Posted  == {"grabbed", "grab_uncertain", "grab_failed"}
Outcomes == Pausing \cup Posted
            \cup {"would_grab", "no_clean_hit", "no_results", "changed_meanwhile"}

\* ERROR_PAUSE_HOURS (6, 12, 24) and ERROR_PAUSE_FORGET_HOURS (24).
PauseUnits == <<1, 2, 4>>
ForgetUnits == 4

\* left: time until the pause ends, negative once it is over.
Pause == [failures : 0 .. 3, left : -ForgetUnits .. ForgetUnits]
NoPause == [failures |-> 0, left |-> 0]

\* Before "next" the titles are collected; "load" to "post" are one title's
\* steps, "store" files what they came to.
Run == [pc : {"idle", "queue", "collect", "next", "load", "queued", "search", "parse",
              "health", "reread", "reread2", "post", "store"},
        mode : {"active", "dry_run"}, force : BOOLEAN, round : Rounds,
        queued : SUBSET Titles, todo : SUBSET Titles, title : Titles \cup {0},
        file : Files, releases : 0 .. MaxReleases, unparsed : BOOLEAN, tried : BOOLEAN,
        outcome : Outcomes \cup {"none"}, slots : Nat, searches : Nat,
        news : {"none", "early", "late"}]

Idle == [pc |-> "idle", mode |-> "active", force |-> FALSE, round |-> 0,
         queued |-> {}, todo |-> {}, title |-> 0, file |-> 0, releases |-> 0,
         unparsed |-> FALSE, tried |-> FALSE, outcome |-> "none",
         slots |-> 0, searches |-> 0, news |-> "none"]

Downloads == {"none", "held", "queued", "imported", "failed"}

TypeOK ==
    /\ file \in [Titles -> Files]
    /\ download \in [Titles -> Downloads]
    /\ {late, unsaved, out} \subseteq SUBSET Titles
    /\ cached \in [Titles -> {"none", "miss", "grab"}]
    /\ pause \in [Titles -> Pause]
    /\ rows \subseteq Titles \X Rounds
    /\ mode \in Modes
    /\ round \in Rounds
    /\ wait \in 0 .. Interval
    /\ run \in Run
    /\ forced \in 0 .. MaxForced
    /\ outside \in 0 .. MaxOutside
    /\ faults \in 0 .. MaxFaults
    /\ checks \in [Titles \X Rounds -> 0 .. 2]
    /\ seen \in [Titles -> Rounds]

Init ==
    /\ file = [t \in Titles |-> FirstFile]
    /\ download = [t \in Titles |-> "none"]
    /\ late = {}
    /\ cached = [t \in Titles |-> "none"]
    /\ unsaved = {}
    /\ pause = [t \in Titles |-> NoPause]
    /\ rows = {}
    /\ mode \in Modes
    /\ round = 0
    /\ wait = Interval
    /\ run = Idle
    /\ forced = 0
    /\ outside = 0
    /\ faults = 0
    /\ out = {}
    /\ checks = [check \in Titles \X Rounds |-> 0]
    /\ seen = [t \in Titles |-> 0]

----------------------------------------------------------------------------
(* Helpers *)

Fault == faults < MaxFaults /\ faults' = faults + 1
NoFault == UNCHANGED faults

Outside == outside < MaxOutside /\ outside' = outside + 1

\* _downloading: held-back releases and failed downloads are none.  An import
\* takes the download out of the queue only after the file is in place.
Downloading(t) == download[t] \in {"queued", "imported"}

\* "Upgrades" lists the titles with the old file, "missing" those without one.
Wanted == {t \in Titles : file[t] = FirstFile}

NobodyPaused == {}

Paused == {t \in Titles : pause[t].failures > 0 /\ pause[t].left > 0}

\* The first PerRun of a set, in the fixed order.
First(S) == {t \in S : Cardinality({u \in S : u <= t}) <= PerRun}

\* Retry entries and kept grabs block, unless forced; a dry run asks its round
\* instead, a force run too (_take_eligible).
Free(t, m, force, r) ==
    IF m = "dry_run" THEN <<t, r>> \notin rows
    ELSE force \/ (cached[t] = "none" /\ t \notin unsaved)

\* note_with: an error sets or extends the title's pause, anything else ends it.
NextPause(t, outcome) ==
    IF outcome \notin Pausing THEN NoPause
    ELSE LET recent == pause[t].failures > 0 /\ pause[t].left > -ForgetUnits
             n == IF recent /\ pause[t].failures < 3 THEN pause[t].failures + 1
                  ELSE IF recent THEN 3 ELSE 1
         IN  [failures |-> n, left |-> PauseUnits[n]]

Ends(outcome) == run' = [run EXCEPT !.pc = "store", !.outcome = outcome]

EndsKeepingSlot(outcome) == Ends(outcome)

\* The outcome of a title whose release search never ran: its rate slot goes back.
EndsUnsearched(outcome) ==
    run' = [run EXCEPT !.pc = "store", !.outcome = outcome, !.slots = @ - 1]

----------------------------------------------------------------------------
(* Collecting *)

\* start_run and store_unsaved_submissions: what the database takes becomes a
\* retry entry and leaves the list, the rest stays.
Begin(force) ==
    /\ run.pc = "idle"
    /\ run' = [Idle EXCEPT !.pc = "queue", !.mode = mode, !.force = force, !.round = round]
    /\ \E stored \in SUBSET unsaved :
          /\ IF stored = unsaved THEN NoFault ELSE Fault
          /\ unsaved' = unsaved \ stored
          /\ cached' = [t \in Titles |-> IF t \in stored THEN "grab" ELSE cached[t]]
          /\ pause' = [t \in Titles |-> IF t \in stored THEN NoPause ELSE pause[t]]
    /\ UNCHANGED <<world, rows, setup, outside, observed>>

\* The scheduler starts the run when its time has come.
BeginScheduled == Begin(FALSE) /\ wait = 0 /\ wait' = Interval /\ UNCHANGED forced

BeginForced == Begin(TRUE) /\ forced < MaxForced /\ forced' = forced + 1 /\ UNCHANGED wait

\* queued_before_collecting.  An indexer with differing switches or an abort
\* ends the run before.
ReadWholeQueue ==
    /\ run.pc = "queue"
    /\ \/ /\ run' = [run EXCEPT !.pc = "collect",
                                !.queued = {t \in Titles : run.mode = "active" /\ Downloading(t)}]
          /\ NoFault
       \/ run.mode = "active" /\ run' = [run EXCEPT !.pc = "collect"] /\ Fault
       \/ run' = Idle /\ Fault
    /\ UNCHANGED <<world, books, setup, wait, forced, outside, observed>>

\* _collect_ordered, _take_eligible: who is blocked, queued or paused takes no
\* place of "per run".
Collect ==
    /\ run.pc = "collect"
    /\ LET eligible == {t \in Wanted \ (run.queued \cup Paused) :
                           Free(t, run.mode, run.force, run.round)}
       IN  run' = IF eligible = {} THEN Idle
                  ELSE [run EXCEPT !.pc = "next", !.queued = {}, !.todo = First(eligible)]
    /\ UNCHANGED <<world, books, setup, wait, forced, outside, faults, observed>>

\* The next title takes a rate slot; an abort, the rate cap or the used up time
\* budget ends the run.
NextTitle ==
    /\ run.pc = "next"
    /\ \/ run.todo = {} /\ run' = Idle /\ NoFault
       \/ /\ \E t \in run.todo :
                /\ \A u \in run.todo : t <= u
                /\ run' = [run EXCEPT !.pc = "load", !.title = t, !.todo = @ \ {t},
                                      !.slots = @ + 1]
          /\ NoFault
       \/ run.todo # {} /\ run' = Idle /\ Fault
    /\ UNCHANGED <<world, books, setup, wait, forced, outside, observed>>

----------------------------------------------------------------------------
(* One title (_TitleCheck.run) *)

Load ==
    /\ run.pc = "load"
    /\ seen' = [seen EXCEPT ![run.title] = round]
    /\ \/ run' = [run EXCEPT !.pc = IF run.mode = "active" THEN "queued" ELSE "search",
                             !.file = file[run.title],
                             !.news = IF download[run.title] = "queued" THEN "early" ELSE "none"]
       \/ EndsUnsearched("error")
    /\ UNCHANGED <<world, books, setup, wait, forced, outside, faults, out, checks>>

\* Active: a title in the queue is not searched, one whose queue cannot be read
\* neither.
ReadQueue ==
    /\ run.pc = "queued"
    /\ \/ ~Downloading(run.title) /\ run' = [run EXCEPT !.pc = "search"]
       \/ Downloading(run.title) /\ EndsUnsearched("changed_meanwhile")
       \/ EndsUnsearched("error")
    /\ UNCHANGED <<world, books, setup, wait, forced, outside, faults, observed>>

\* GET /release.  Refused: no search ran.  No answer: it ran.  *arr approves no
\* release of a title it is downloading.
Search ==
    /\ run.pc = "search"
    /\ \/ EndsUnsearched("error")
       \/ run' = [run EXCEPT !.pc = "store", !.outcome = "error", !.searches = @ + 1]
       \/ \E n \in 0 .. MaxReleases :
             /\ n > 0 => download[run.title] # "queued"
             /\ run' = [run EXCEPT !.pc = IF n = 0 THEN "health" ELSE "parse",
                                   !.releases = n, !.tried = n > 0, !.searches = @ + 1]
    /\ UNCHANGED <<world, books, setup, wait, forced, outside, faults, observed>>

\* stop_check after the search, before /parse, while waiting for the health
\* checks, before the reads and before the grab: the title is left as it was.
Stop ==
    /\ run.pc \in {"parse", "health", "reread", "post"}
    /\ run' = Idle
    /\ Fault
    /\ UNCHANGED <<world, books, setup, wait, forced, outside, observed>>

\* /parse and the rules, release by release: the first that passes is the pick,
\* one /parse cannot check is no rejection.
Parse ==
    /\ run.pc = "parse"
    /\ \/ \* passes
          IF run.mode = "active"
          THEN run' = [run EXCEPT !.pc = "reread", !.releases = 0, !.unparsed = FALSE]
          ELSE Ends("would_grab")
       \/ \* rejected, or not checked
          \E failed \in BOOLEAN :
             LET unparsed == run.unparsed \/ failed
             IN  IF run.releases > 1
                 THEN run' = [run EXCEPT !.releases = @ - 1, !.unparsed = unparsed]
                 ELSE IF unparsed THEN Ends("error")
                 ELSE run' = [run EXCEPT !.pc = "health", !.releases = 0]
    /\ UNCHANGED <<world, books, setup, wait, forced, outside, faults, observed>>

\* indexer_failure: with an indexer blocked, or the health unread, no clean miss.
ReadHealth ==
    /\ run.pc = "health"
    /\ \/ Ends(IF run.tried THEN "no_clean_hit" ELSE "no_results")
       \/ Ends("error")
    /\ UNCHANGED <<world, books, setup, wait, forced, outside, faults, observed>>

\* changed_meanwhile: the queue first, then the file.
FileFirst == <<"file", "queue">>
Rereads == <<"queue", "file">>

AsLoaded(what) ==
    IF what = "queue" THEN ~Downloading(run.title) ELSE file[run.title] = run.file

Reread ==
    /\ run.pc \in {"reread", "reread2"}
    /\ LET what == Rereads[IF run.pc = "reread" THEN 1 ELSE 2]
       IN  \/ /\ AsLoaded(what)
              /\ run' = [run EXCEPT !.pc = IF run.pc = "reread" THEN "reread2" ELSE "post"]
           \/ ~AsLoaded(what) /\ Ends("changed_meanwhile")
           \/ Ends("error")
    /\ UNCHANGED <<world, books, setup, wait, forced, outside, faults, observed>>

Grabs(t) == download' = [download EXCEPT ![t] = "queued"]

\* POST /release: taken, refused (_refused), or without a clear answer: *arr
\* took it, still will, or never got it.
Post ==
    /\ run.pc = "post"
    /\ LET t == run.title
       IN  \/ Ends("grabbed") /\ Grabs(t) /\ out' = out \cup {t} /\ UNCHANGED late
           \/ Ends("grab_failed") /\ UNCHANGED <<download, out, late>>
           \/ /\ Ends("grab_uncertain")
              /\ out' = out \cup {t}
              /\ \/ Grabs(t) /\ UNCHANGED late
                 \/ UNCHANGED download /\ late' = late \cup {t}
                 \/ UNCHANGED <<download, late>>
    /\ UNCHANGED <<file, books, setup, wait, forced, outside, faults, checks, seen>>

----------------------------------------------------------------------------
(* Storing *)

ClearGrabs == {"grabbed"}

\* A grab that is out, or may be.
KeptOutcomes == {"grabbed", "grab_uncertain"}

EntryForAll(t, outcome) ==
    IF run.mode = "dry_run" THEN cached[t]
    ELSE IF outcome \in KeptOutcomes THEN "grab" ELSE outcome

\* The retry entry an outcome leaves (record_checked; a dry run writes none).
Entry(t, outcome) ==
    IF run.mode = "dry_run" THEN cached[t]
    ELSE IF outcome \in KeptOutcomes THEN "grab"
    ELSE IF outcome \in {"no_clean_hit", "no_results"} THEN "miss"
    ELSE cached[t]

Counts(outcome) == run.mode = "dry_run" /\ outcome # "error"

Onwards == run' = [run EXCEPT !.pc = "next", !.title = 0, !.file = 0, !.unparsed = FALSE,
                              !.tried = FALSE, !.outcome = "none", !.news = "none"]

\* Item, retry entry, log row and pause in one transaction.
Store ==
    /\ run.pc = "store"
    /\ LET t == run.title
           check == <<t, run.round>>
       IN  /\ cached' = [cached EXCEPT ![t] = Entry(t, run.outcome)]
           /\ pause' = [pause EXCEPT ![t] = NextPause(t, run.outcome)]
           /\ IF Counts(run.outcome)
              THEN /\ rows' = rows \cup {check}
                   /\ checks' = [checks EXCEPT ![check] = IF @ < 2 THEN @ + 1 ELSE 2]
              ELSE UNCHANGED <<rows, checks>>
    /\ Onwards
    /\ UNCHANGED <<world, unsaved, setup, wait, forced, outside, faults, out, seen>>

\* The database refuses: the run ends, a grab that is out (or may be) is kept.
StoreFails ==
    /\ run.pc = "store"
    /\ Fault
    /\ unsaved' = IF run.outcome \in KeptOutcomes
                  THEN unsaved \cup {run.title} ELSE unsaved
    /\ run' = Idle
    /\ UNCHANGED <<world, cached, pause, rows, setup, wait, forced, outside, observed>>

RunStep ==
    \/ ReadWholeQueue \/ Collect \/ NextTitle \/ Load \/ ReadQueue \/ Search \/ Stop
    \/ Parse \/ ReadHealth \/ Reread \/ Post \/ Store \/ StoreFails

----------------------------------------------------------------------------
(* The user, housekeeping and a crash *)

\* Clear cache drops the pauses too.
ClearCache ==
    /\ Outside
    /\ cached' = [t \in Titles |-> "none"]
    /\ pause' = [t \in Titles |-> NoPause]
    /\ out' = out \cap unsaved
    /\ UNCHANGED <<world, unsaved, rows, setup, wait, run, forced, faults, checks, seen>>

ResetDryRun ==
    /\ round < MaxRound
    /\ round' = round + 1
    /\ UNCHANGED <<world, books, mode, wait, run, forced, outside, faults, observed>>

\* Switching to dry run begins a round.
SwitchMode ==
    /\ Outside
    /\ mode' \in Modes \ {mode}
    /\ round' = IF mode' = "dry_run" THEN round + 1 ELSE round
    /\ round' <= MaxRound
    /\ UNCHANGED <<world, books, wait, run, forced, faults, observed>>

\* An entry's time is over (lookup_many): the days of a grab or an empty search,
\* the retry window.
EntryEnds(t) ==
    /\ cached[t] # "none" /\ t \notin late
    /\ Outside
    /\ cached' = [cached EXCEPT ![t] = "none"]
    /\ out' = IF t \in unsaved THEN out ELSE out \ {t}
    /\ UNCHANGED <<world, unsaved, pause, rows, setup, wait, run, forced, faults, checks, seen>>

\* Pauses that no longer count (checked_search_pause.purge_expired).
PurgePause(t) ==
    /\ pause[t].failures > 0 /\ pause[t].left <= -ForgetUnits
    /\ pause' = [pause EXCEPT ![t] = NoPause]
    /\ UNCHANGED <<world, cached, unsaved, rows, setup, wait, run, forced, outside, faults,
                   observed>>

NoRows == {}

\* Old log rows go, those of the running round stay (purge_old).
KeptRows == {row \in rows : row[2] = round}

PurgeLog ==
    /\ rows # KeptRows
    /\ rows' = KeptRows
    /\ UNCHANGED <<world, cached, unsaved, pause, setup, wait, run, forced, outside, faults,
                   observed>>

\* The process dies; a grab only memory knew of is forgotten.
Crash ==
    /\ Fault
    /\ run.pc # "idle" \/ unsaved # {}
    /\ run' = Idle
    /\ unsaved' = {}
    /\ out' = {t \in out : cached[t] # "none"}
    /\ wait' = Interval
    /\ UNCHANGED <<world, cached, pause, rows, setup, forced, outside, checks, seen>>

----------------------------------------------------------------------------
(* *arr and time *)

\* A download that begins: before or after the last reads of the title's check.
Begins(t) ==
    /\ Grabs(t)
    /\ run' = IF run.title # t \/ run.news = "early" THEN run
              ELSE [run EXCEPT !.news = IF run.pc \in {"reread2", "post"} THEN "late"
                                        ELSE "early"]

\* RSS, the user or another program grabs the title, or *arr holds a release back.
OtherGrab(t) ==
    /\ Outside
    /\ download[t] = "none"
    /\ \/ Begins(t)
       \/ download' = [download EXCEPT ![t] = "held"] /\ UNCHANGED run
    /\ UNCHANGED <<file, late, books, setup, wait, forced, faults, observed>>

HeldIsSent(t) ==
    /\ download[t] = "held"
    /\ Begins(t)
    /\ UNCHANGED <<file, late, books, setup, wait, forced, outside, faults, observed>>

LateGrab(t) ==
    /\ t \in late
    /\ late' = late \ {t}
    /\ Begins(t)
    /\ UNCHANGED <<file, books, setup, wait, forced, outside, faults, observed>>

DownloadFails(t) ==
    /\ download[t] = "queued"
    /\ download' = [download EXCEPT ![t] = "failed"]
    /\ run' = IF run.title = t THEN [run EXCEPT !.news = "none"] ELSE run
    /\ UNCHANGED <<file, late, books, setup, wait, forced, outside, faults, observed>>

ArrImports(t) ==
    /\ download[t] = "queued" /\ file[t] < MaxFile
    /\ file' = [file EXCEPT ![t] = @ + 1]
    /\ download' = [download EXCEPT ![t] = "imported"]
    /\ UNCHANGED <<late, books, setup, wait, run, forced, outside, faults, observed>>

LeavesQueue(t) ==
    /\ download[t] \in {"imported", "failed"}
    /\ download' = [download EXCEPT ![t] = "none"]
    /\ UNCHANGED <<file, late, books, setup, wait, run, forced, outside, faults, observed>>

Tick ==
    /\ run.pc = "idle" /\ wait > 0 /\ late = {}
    /\ wait' = wait - 1
    /\ pause' = [t \in Titles |->
                    IF pause[t].failures = 0 \/ pause[t].left = -ForgetUnits THEN pause[t]
                    ELSE [pause[t] EXCEPT !.left = @ - 1]]
    /\ UNCHANGED <<world, cached, unsaved, rows, setup, run, forced, outside, faults, observed>>

UserStep == ClearCache \/ ResetDryRun \/ SwitchMode

WorldStep ==
    \/ \E t \in Titles : \/ EntryEnds(t) \/ PurgePause(t) \/ OtherGrab(t) \/ HeldIsSent(t)
                         \/ LateGrab(t) \/ DownloadFails(t) \/ ArrImports(t) \/ LeavesQueue(t)
    \/ PurgeLog
    \/ Crash

Next == BeginScheduled \/ BeginForced \/ RunStep \/ UserStep \/ WorldStep \/ Tick

Spec == Init /\ [][Next]_vars

\* The scheduler fires, every call of a run ends, time passes.
FairSpec ==
    /\ Spec
    /\ WF_vars(BeginScheduled)
    /\ WF_vars(RunStep)
    /\ WF_vars(Tick)
    /\ \A t \in Titles : WF_vars(LateGrab(t))

----------------------------------------------------------------------------
(* Properties *)

Grab(t) == run.title = t /\ run.outcome = "none" /\ run'.outcome \in Posted

\* A grab never doubles a download of the title that began before the two last
\* reads, whether it is still in the queue or was imported meanwhile
\* (changed_meanwhile: "one of the two reads sees it").
NeverDoublesDownload == [][\A t \in Titles : Grab(t) => run.news # "early"]_vars

\* A title with a grab that is out, or may be, is not grabbed again before its
\* block ends, also when the bookkeeping failed; force runs ignore blocks by design.
UnclearGrabBlocks == [][\A t \in Titles : Grab(t) => t \notin out \/ run.force]_vars

\* The run holds a rate slot for exactly the searches *arr ran, and one for the
\* title it is about to search (_Result.searched, run_checked).
SlotsMatchSearches ==
    run.slots = run.searches + (IF run.pc \in {"load", "queued", "search"} THEN 1 ELSE 0)

\* Dry run: each title is checked once in the running round, and a round's rows
\* come from checks made since it began, whatever is reset or purged while a run
\* goes on.
EachRoundOnce ==
    /\ \A t \in Titles : checks[<<t, round>>] <= 1
    /\ \A row \in rows : seen[row[1]] >= row[2]

\* A scheduled run could take the title.
Due(t) ==
    /\ t \in Wanted \ Paused
    /\ ~Downloading(t)
    /\ Free(t, mode, FALSE, round)

\* However long other titles keep ending in errors, every title comes up
\* (checked_search_pause: without the pause "the next title would never come up").
TitlesComeUp == \A t \in Titles : []<>(run.title = t \/ ~Due(t))
=============================================================================
