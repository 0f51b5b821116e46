--------------------------- MODULE CheckedRunProofs ---------------------------
(***************************************************************************)
(* What holds of the scheduled checked search for any number of titles,    *)
(* any "per run", any settings the user chooses from, and any number of    *)
(* outside changes, faults, force runs and dry-run rounds.                 *)
(***************************************************************************)
EXTENDS CheckedRun, TLAPS

----------------------------------------------------------------------------
(* Types and control *)

Steps == {"load", "queued", "search", "parse", "health", "reread", "reread2", "post"}

\* Which title a run is at, and what it can have come to.
RunFits ==
    /\ run.pc \in Steps => run.title \in Titles /\ run.outcome = "none"
    /\ run.pc = "store" => run.title \in Titles /\ run.outcome \in Outcomes
    /\ run.pc \in {"idle", "queue", "collect", "next"} => run.title = 0 /\ run.outcome = "none"
    /\ run.pc \in {"queued", "reread", "reread2", "post"} => run.mode = "active"
    /\ run.outcome \in KeptOutcomes => run.mode = "active"
    /\ run.title \notin run.todo
    /\ run.round <= round

RunInv == TypeOK /\ RunFits /\ SlotsMatchSearches

\* The local variables of no run are well typed.
LEMMA IdleFits == Idle \in Run
  BY BoundsAssumption DEF Idle, Run, Rounds, Files, Outcomes

\* note_with yields a pause, or none.
LEMMA NextPauseFits ==
    ASSUME pause \in [Titles -> Pause], NEW t \in Titles, NEW outcome
    PROVE  NextPause(t, outcome) \in Pause
<1>1. NoPause \in Pause
  BY DEF NoPause, Pause, ForgetUnits
<1>2. \A n \in 1 .. 3 : [failures |-> n, left |-> PauseUnits[n]] \in Pause
  BY DEF PauseUnits, Pause, ForgetUnits
<1>3. pause[t].failures \in 0 .. 3
  BY DEF Pause
<1> QED
  BY <1>1, <1>2, <1>3 DEF NextPause

\* The invariant of the run holds at the start.
LEMMA RunInit ==
    ASSUME Init
    PROVE  RunInv
<1>1. Idle \in Run /\ NoPause \in Pause
  BY IdleFits DEF NoPause, Pause, ForgetUnits
<1>2. TypeOK
  BY <1>1, BoundsAssumption, FileAssumption DEF Init, TypeOK, Rounds, Files, Downloads
<1>3. RunFits
  BY BoundsAssumption DEF Init, RunFits, Idle, Steps, KeptOutcomes
<1> QED
  BY <1>2, <1>3 DEF Init, RunInv, SlotsMatchSearches, Idle

----------------------------------------------------------------------------
(* The ways the run's variables change *)

RunOK == run \in Run /\ RunFits /\ SlotsMatchSearches

\* The outcomes by name.
LEMMA OutcomesKnown ==
    /\ {"error", "grab_failed", "grabbed", "grab_uncertain", "would_grab", "no_clean_hit",
        "no_results", "changed_meanwhile"} \subseteq Outcomes
    /\ "none" \notin Outcomes /\ "none" \notin KeptOutcomes
  BY DEF Outcomes, Pausing, Posted, KeptOutcomes

\* A run ends.
LEMMA RunEnds ==
    ASSUME RunOK, run' = Idle, UNCHANGED round, round \in Rounds
    PROVE  RunOK'
<1>1. run' \in Run
  BY IdleFits
<1> QED
  BY <1>1, OutcomesKnown DEF RunOK, RunFits, SlotsMatchSearches, Idle, Steps, Titles, Rounds

\* A title's check comes to its outcome after its search ran ...
LEMMA TitleEnds ==
    ASSUME RunOK, NEW outcome \in Outcomes, Ends(outcome), UNCHANGED round,
           run.pc \in {"parse", "health", "reread", "reread2", "post"},
           outcome \in KeptOutcomes => run.mode = "active"
    PROVE  RunOK'
<1>1. run' \in Run
  BY DEF RunOK, Ends, Run
<1> QED
  BY <1>1 DEF RunOK, Ends, Run, RunFits, SlotsMatchSearches, Steps

\* ... or before it.
LEMMA TitleEndsUnsearched ==
    ASSUME RunOK, NEW outcome \in Outcomes \ KeptOutcomes, EndsUnsearched(outcome),
           UNCHANGED round, run.pc \in {"load", "queued", "search"}
    PROVE  RunOK'
<1>1. run.slots - 1 \in Nat
  BY DEF RunOK, Run, SlotsMatchSearches
<1>2. run' \in Run
  BY <1>1 DEF RunOK, EndsUnsearched, Run
<1> QED
  BY <1>2 DEF RunOK, EndsUnsearched, Run, RunFits, SlotsMatchSearches, Steps

\* *arr tells something new of the title.
LEMMA NewsArrive ==
    ASSUME RunOK, UNCHANGED round, NEW news \in {"none", "early", "late"},
           run' = run \/ run' = [run EXCEPT !.news = news]
    PROVE  RunOK'
<1>1. CASE run' = run
  BY <1>1 DEF RunOK, RunFits, SlotsMatchSearches
<1>2. CASE run' = [run EXCEPT !.news = news]
  <2>1. run' \in Run
    BY <1>2 DEF RunOK, Run
  <2> QED
    BY <1>2, <2>1 DEF RunOK, Run, RunFits, SlotsMatchSearches
<1> QED
  BY <1>1, <1>2

\* A round may begin under a run.
LEMMA RoundGoesOn ==
    ASSUME RunOK, UNCHANGED run, round \in Rounds, round' \in {round, round + 1}
    PROVE  RunOK'
  BY DEF RunOK, RunFits, SlotsMatchSearches, Run, Rounds

\* Every step of a run keeps its type, its control and its slots.
LEMMA RunStepKept ==
    ASSUME TypeOK, RunOK, RunStep
    PROVE  RunOK'
<1>1. round \in Rounds /\ UNCHANGED round
  BY DEF TypeOK, RunStep, ReadWholeQueue, Collect, NextTitle, Load, ReadQueue, Search, Stop,
     Parse, ReadHealth, Reread, Post, Store, StoreFails, setup
<1>a. 0 \in 0 .. MaxReleases /\ 0 \in Files
  BY BoundsAssumption DEF Files
<1>b. run.slots + 1 \in Nat /\ run.searches + 1 \in Nat
  BY DEF RunOK, Run
<1>2. CASE ReadWholeQueue
  <2>1. run.pc = "queue"
    BY <1>2 DEF ReadWholeQueue
  <2>2. \/ run' = Idle
        \/ \E S \in SUBSET Titles : run' = [run EXCEPT !.pc = "collect", !.queued = S]
    <3>1. \/ run' = Idle
          \/ run' = [run EXCEPT !.pc = "collect"]
          \/ run' = [run EXCEPT !.pc = "collect",
                                !.queued = {t \in Titles : run.mode = "active" /\ Downloading(t)}]
      BY <1>2, Zenon DEF ReadWholeQueue
    <3>2. run' = [run EXCEPT !.pc = "collect"]
          => run' = [run EXCEPT !.pc = "collect", !.queued = run.queued]
      BY DEF RunOK, Run
    <3>3. run.queued \in SUBSET Titles
      BY DEF RunOK, Run
    <3> QED
      BY <3>1, <3>2, <3>3, Zenon
  <2>3. ASSUME NEW S \in SUBSET Titles, run' = [run EXCEPT !.pc = "collect", !.queued = S]
        PROVE  RunOK'
    <3>1. run' \in Run
      BY <2>3 DEF RunOK, Run
    <3> QED
      BY <1>1, <2>1, <2>3, <3>1, OutcomesKnown DEF RunOK, Run, RunFits, SlotsMatchSearches, Steps
  <2> QED
    BY <1>1, <2>2, <2>3, RunEnds
<1>3. CASE Collect
  <2>1. run.pc = "collect"
    BY <1>3 DEF Collect
  <2>2. \/ run' = Idle
        \/ \E S \in SUBSET Titles : run' = [run EXCEPT !.pc = "next", !.queued = {}, !.todo = S]
    <3> DEFINE eligible == {t \in Wanted \ (run.queued \cup Paused) :
                               Free(t, run.mode, run.force, run.round)}
    <3>1. \/ run' = Idle
          \/ run' = [run EXCEPT !.pc = "next", !.queued = {}, !.todo = First(eligible)]
      BY <1>3 DEF Collect
    <3>2. First(eligible) \in SUBSET Titles
      BY DEF First, Wanted
    <3> HIDE DEF eligible
    <3> QED
      BY <3>1, <3>2
  <2>3. ASSUME NEW S \in SUBSET Titles,
               run' = [run EXCEPT !.pc = "next", !.queued = {}, !.todo = S]
        PROVE  RunOK'
    <3>1. run' \in Run
      BY <2>3 DEF RunOK, Run
    <3>2. 0 \notin S
      BY DEF Titles
    <3> QED
      BY <1>1, <2>1, <2>3, <3>1, <3>2, OutcomesKnown DEF RunOK, Run, RunFits, SlotsMatchSearches, Steps
  <2> QED
    BY <1>1, <2>2, <2>3, RunEnds
<1>4. CASE NextTitle
  <2>1. run.pc = "next"
    BY <1>4 DEF NextTitle
  <2>2. \/ run' = Idle
        \/ \E t \in run.todo : run' = [run EXCEPT !.pc = "load", !.title = t, !.todo = @ \ {t},
                                                  !.slots = @ + 1]
    BY <1>4, Zenon DEF NextTitle
  <2>3. ASSUME NEW t \in run.todo,
               run' = [run EXCEPT !.pc = "load", !.title = t, !.todo = @ \ {t}, !.slots = @ + 1]
        PROVE  RunOK'
    <3>1. t \in Titles
      BY DEF RunOK, Run
    <3>2. run' \in Run
      BY <2>3, <3>1, <1>b DEF RunOK, Run
    <3> QED
      BY <1>1, <2>1, <2>3, <3>1, <3>2, OutcomesKnown DEF RunOK, Run, RunFits, SlotsMatchSearches, Steps
  <2> QED
    BY <1>1, <2>2, <2>3, RunEnds
<1>5. CASE Load
  <2>1. run.pc = "load"
    BY <1>5 DEF Load
  <2>2. CASE EndsUnsearched("error")
    BY <1>1, <2>1, <2>2, OutcomesKnown, TitleEndsUnsearched DEF KeptOutcomes
  <2>3. ASSUME NEW pc \in {"queued", "search"}, NEW news \in {"none", "early", "late"},
               pc = "queued" => run.mode = "active",
               run' = [run EXCEPT !.pc = pc, !.file = file[run.title], !.news = news]
        PROVE  RunOK'
    <3>1. file[run.title] \in Files
      BY <2>1 DEF TypeOK, RunOK, RunFits, Steps
    <3>2. run' \in Run
      BY <2>3, <3>1 DEF RunOK, Run
    <3> QED
      BY <1>1, <2>1, <2>3, <3>2, OutcomesKnown DEF RunOK, Run, RunFits, SlotsMatchSearches, Steps
  <2>4. \/ EndsUnsearched("error")
        \/ \E pc \in {"queued", "search"}, news \in {"none", "early", "late"} :
              /\ pc = "queued" => run.mode = "active"
              /\ run' = [run EXCEPT !.pc = pc, !.file = file[run.title], !.news = news]
    BY <1>5 DEF Load
  <2> QED
    BY <2>2, <2>3, <2>4
<1>6. CASE ReadQueue
  <2>1. run.pc = "queued"
    BY <1>6 DEF ReadQueue
  <2>2. \/ EndsUnsearched("error")
        \/ EndsUnsearched("changed_meanwhile")
        \/ run' = [run EXCEPT !.pc = "search"]
    BY <1>6, Zenon DEF ReadQueue
  <2>3. CASE run' = [run EXCEPT !.pc = "search"]
    <3>1. run' \in Run
      BY <2>3 DEF RunOK, Run
    <3> QED
      BY <1>1, <2>1, <2>3, <3>1 DEF RunOK, Run, RunFits, SlotsMatchSearches, Steps
  <2> QED
    BY <1>1, <2>1, <2>2, <2>3, OutcomesKnown, TitleEndsUnsearched DEF KeptOutcomes
<1>7. CASE Search
  <2>1. run.pc = "search"
    BY <1>7 DEF Search
  <2>2. \/ EndsUnsearched("error")
        \/ run' = [run EXCEPT !.pc = "store", !.outcome = "error", !.searches = @ + 1]
        \/ \E n \in 0 .. MaxReleases, pc \in {"health", "parse"} :
              run' = [run EXCEPT !.pc = pc, !.releases = n, !.tried = n > 0, !.searches = @ + 1]
    BY <1>7 DEF Search
  <2>3. CASE run' = [run EXCEPT !.pc = "store", !.outcome = "error", !.searches = @ + 1]
    <3>1. run' \in Run
      BY <1>b, <2>3, OutcomesKnown DEF RunOK, Run
    <3> QED
      BY <1>1, <2>1, <2>3, <3>1, OutcomesKnown
         DEF RunOK, Run, RunFits, SlotsMatchSearches, Steps, KeptOutcomes
  <2>4. ASSUME NEW n \in 0 .. MaxReleases, NEW pc \in {"health", "parse"},
               run' = [run EXCEPT !.pc = pc, !.releases = n, !.tried = n > 0, !.searches = @ + 1]
        PROVE  RunOK'
    <3>1. (n > 0) \in BOOLEAN
      OBVIOUS
    <3>2. run' \in Run
      BY <1>b, <2>4, <3>1 DEF RunOK, Run
    <3> QED
      BY <1>1, <2>1, <2>4, <3>2 DEF RunOK, Run, RunFits, SlotsMatchSearches, Steps
  <2> QED
    BY <1>1, <2>1, <2>2, <2>3, <2>4, OutcomesKnown, TitleEndsUnsearched DEF KeptOutcomes
<1>8. CASE Stop \/ StoreFails
  BY <1>1, <1>8, RunEnds DEF Stop, StoreFails
<1>9. CASE Parse
  <2>1. run.pc = "parse"
    BY <1>9 DEF Parse
  <2>2. \/ Ends("would_grab")
        \/ Ends("error")
        \/ run.mode = "active" /\ run' = [run EXCEPT !.pc = "reread", !.releases = 0, !.unparsed = FALSE]
        \/ run' = [run EXCEPT !.pc = "health", !.releases = 0]
        \/ \E unparsed \in BOOLEAN :
              run.releases > 1 /\ run' = [run EXCEPT !.releases = @ - 1, !.unparsed = unparsed]
    <3>1. run.unparsed \in BOOLEAN
      BY DEF RunOK, Run
    <3>2. \A failed \in BOOLEAN : (run.unparsed \/ failed) \in BOOLEAN
      OBVIOUS
    <3> QED
      BY <1>9, <3>2, Zenon DEF Parse
  <2>3. CASE run.mode = "active" /\ run' = [run EXCEPT !.pc = "reread", !.releases = 0, !.unparsed = FALSE]
    <3>1. run' \in Run
      BY <1>a, <2>3 DEF RunOK, Run
    <3> QED
      BY <1>1, <2>1, <2>3, <3>1 DEF RunOK, Run, RunFits, SlotsMatchSearches, Steps
  <2>4. CASE run' = [run EXCEPT !.pc = "health", !.releases = 0]
    <3>1. run' \in Run
      BY <1>a, <2>4 DEF RunOK, Run
    <3> QED
      BY <1>1, <2>1, <2>4, <3>1 DEF RunOK, Run, RunFits, SlotsMatchSearches, Steps
  <2>5. ASSUME NEW unparsed \in BOOLEAN, run.releases > 1,
               run' = [run EXCEPT !.releases = @ - 1, !.unparsed = unparsed]
        PROVE  RunOK'
    <3>1. run.releases \in 0 .. MaxReleases
      BY DEF RunOK, Run
    <3>2. run.releases - 1 \in 0 .. MaxReleases
      BY <2>5, <3>1, BoundsAssumption
    <3>3. run' \in Run
      BY <2>5, <3>2 DEF RunOK, Run
    <3> QED
      BY <1>1, <2>1, <2>5, <3>3 DEF RunOK, Run, RunFits, SlotsMatchSearches, Steps
  <2> QED
    BY <1>1, <2>1, <2>2, <2>3, <2>4, <2>5, OutcomesKnown, TitleEnds DEF KeptOutcomes
<1>10. CASE ReadHealth
  <2>1. run.pc = "health" /\ (Ends("no_clean_hit") \/ Ends("no_results") \/ Ends("error"))
    BY <1>10 DEF ReadHealth
  <2> QED
    BY <1>1, <2>1, OutcomesKnown, TitleEnds DEF KeptOutcomes
<1>11. CASE Reread
  <2>1. run.pc \in {"reread", "reread2"}
    BY <1>11 DEF Reread
  <2>2. \/ Ends("changed_meanwhile") \/ Ends("error")
        \/ \E pc \in {"reread2", "post"} : run' = [run EXCEPT !.pc = pc]
    BY <1>11 DEF Reread
  <2>3. ASSUME NEW pc \in {"reread2", "post"}, run' = [run EXCEPT !.pc = pc]
        PROVE  RunOK'
    <3>1. run' \in Run
      BY <2>3 DEF RunOK, Run
    <3> QED
      BY <1>1, <2>1, <2>3, <3>1 DEF RunOK, Run, RunFits, SlotsMatchSearches, Steps
  <2> QED
    BY <1>1, <2>1, <2>2, <2>3, OutcomesKnown, TitleEnds DEF KeptOutcomes
<1>12. CASE Post
  <2>1. run.pc = "post" /\ (Ends("grabbed") \/ Ends("grab_failed") \/ Ends("grab_uncertain"))
    BY <1>12 DEF Post
  <2>2. run.mode = "active"
    BY <2>1 DEF RunOK, RunFits
  <2> QED
    BY <1>1, <2>1, <2>2, OutcomesKnown, TitleEnds
<1>13. CASE Store
  <2>1. run.pc = "store" /\ Onwards
    BY <1>13 DEF Store
  <2>2. run' \in Run
    BY <1>a, <2>1 DEF RunOK, Run, Onwards
  <2>3. 0 \notin run.todo
    BY DEF RunOK, Run, Titles
  <2> QED
    BY <1>1, <2>1, <2>2, <2>3, OutcomesKnown DEF RunOK, Run, RunFits, SlotsMatchSearches, Steps, Onwards
<1> QED
  BY <1>2, <1>3, <1>4, <1>5, <1>6, <1>7, <1>8, <1>9, <1>10, <1>11, <1>12, <1>13, Zenon DEF RunStep

\* So does everything else.
LEMMA RunKept ==
    ASSUME TypeOK, RunOK, [Next]_vars
    PROVE  RunOK'
<1>1. round \in Rounds
  BY DEF TypeOK
<1>2. CASE RunStep
  BY <1>2, RunStepKept
<1>3. CASE BeginScheduled \/ BeginForced
  <2>1. UNCHANGED round /\ \E force \in BOOLEAN :
          run' = [Idle EXCEPT !.pc = "queue", !.mode = mode, !.force = force, !.round = round]
    BY <1>3 DEF BeginScheduled, BeginForced, Begin, setup
  <2>2. PICK force \in BOOLEAN :
          run' = [Idle EXCEPT !.pc = "queue", !.mode = mode, !.force = force, !.round = round]
    BY <2>1, Zenon
  <2>3. mode \in {"active", "dry_run"}
    BY ModesAssumption DEF TypeOK
  <2>4. run' \in Run
    BY <1>1, <2>2, <2>3, IdleFits DEF Run
  <2>5. /\ run'.pc = "queue" /\ run'.title = 0 /\ run'.outcome = "none" /\ run'.todo = {}
        /\ run'.round = round /\ run'.slots = 0 /\ run'.searches = 0
    BY <2>2 DEF Idle
  <2> QED
    BY <1>1, <2>1, <2>4, <2>5, OutcomesKnown DEF RunOK, RunFits, SlotsMatchSearches, Steps, Rounds
<1>4. CASE ResetDryRun \/ SwitchMode
  BY <1>1, <1>4, RoundGoesOn DEF ResetDryRun, SwitchMode
<1>5. CASE Crash
  BY <1>1, <1>5, RunEnds DEF Crash, setup
<1>6. CASE ClearCache \/ PurgeLog \/ Tick \/ UNCHANGED vars
  BY <1>1, <1>6, RoundGoesOn DEF ClearCache, PurgeLog, Tick, vars, setup
<1>7. ASSUME NEW t \in Titles, EntryEnds(t) \/ PurgePause(t) \/ ArrImports(t) \/ LeavesQueue(t)
      PROVE  RunOK'
  BY <1>1, <1>7, RoundGoesOn DEF EntryEnds, PurgePause, ArrImports, LeavesQueue, setup
<1>8. ASSUME NEW t \in Titles, OtherGrab(t) \/ HeldIsSent(t) \/ LateGrab(t) \/ DownloadFails(t)
      PROVE  RunOK'
  <2>1. UNCHANGED round /\ (\/ run' = run
                            \/ run' = [run EXCEPT !.news = "early"]
                            \/ run' = [run EXCEPT !.news = "late"]
                            \/ run' = [run EXCEPT !.news = "none"])
    BY <1>8 DEF OtherGrab, HeldIsSent, LateGrab, DownloadFails, Begins, setup
  <2> QED
    BY <2>1, NewsArrive
<1> QED
  BY <1>2, <1>3, <1>4, <1>5, <1>6, <1>7, <1>8, Zenon DEF Next, UserStep, WorldStep

----------------------------------------------------------------------------
(* The types of the rest *)

\* Every step keeps the types of the rest.
LEMMA BooksKept ==
    ASSUME RunInv, run' \in Run, [Next]_vars
    PROVE  TypeOK'
<1> USE BoundsAssumption
        DEF RunInv, TypeOK, Rounds, Fault, NoFault, Outside, world, books, setup, observed
<1>1. CASE BeginScheduled
  <2>1. NoPause \in Pause
    BY DEF NoPause, Pause, ForgetUnits
  <2>2. PICK stored \in SUBSET unsaved :
          /\ faults' \in 0 .. MaxFaults
          /\ unsaved' = unsaved \ stored
          /\ cached' = [t \in Titles |-> IF t \in stored THEN "grab" ELSE cached[t]]
          /\ pause' = [t \in Titles |-> IF t \in stored THEN NoPause ELSE pause[t]]
    BY <1>1 DEF BeginScheduled, Begin
  <2> QED
    BY <1>1, <2>1, <2>2 DEF BeginScheduled, Begin
<1>2. CASE BeginForced
  <2>1. NoPause \in Pause
    BY DEF NoPause, Pause, ForgetUnits
  <2>2. PICK stored \in SUBSET unsaved :
          /\ faults' \in 0 .. MaxFaults
          /\ unsaved' = unsaved \ stored
          /\ cached' = [t \in Titles |-> IF t \in stored THEN "grab" ELSE cached[t]]
          /\ pause' = [t \in Titles |-> IF t \in stored THEN NoPause ELSE pause[t]]
    BY <1>2 DEF BeginForced, Begin
  <2> QED
    BY <1>2, <2>1, <2>2 DEF BeginForced, Begin
<1>3. CASE ReadWholeQueue
  BY <1>3 DEF ReadWholeQueue
<1>4. CASE Collect
  BY <1>4 DEF Collect, First
<1>5. CASE NextTitle
  <2>1. /\ faults' = faults \/ (faults < MaxFaults /\ faults' = faults + 1)
        /\ UNCHANGED <<world, books, setup, wait, forced, outside, observed>>
    BY <1>5, Zenon DEF NextTitle
  <2> QED
    BY <2>1
<1>6. CASE Load
  BY <1>6 DEF Load, EndsUnsearched
<1>7. CASE ReadQueue
  BY <1>7 DEF ReadQueue, EndsUnsearched
<1>8. CASE Search
  BY <1>8 DEF Search, EndsUnsearched
<1>9. CASE Stop
  BY <1>9 DEF Stop
<1>10. CASE Parse
  BY <1>10 DEF Parse, Ends
<1>11. CASE ReadHealth
  BY <1>11 DEF ReadHealth, Ends
<1>12. CASE Reread
  BY <1>12 DEF Reread, Ends
<1>13. CASE Post
  BY <1>13 DEF Post, Ends, Grabs, Downloads, RunFits, Steps
<1>14. CASE Store
  <2>1. run.title \in Titles /\ Entry(run.title, run.outcome) \in {"none", "miss", "grab"}
    BY <1>14 DEF Store, RunFits, Entry
  <2>2. NextPause(run.title, run.outcome) \in Pause
    BY <2>1, NextPauseFits
  <2>3. <<run.title, run.round>> \in Titles \X Rounds
    BY <2>1 DEF Run
  <2> QED
    BY <1>14, <2>1, <2>2, <2>3 DEF Store
<1>15. CASE StoreFails
  BY <1>15 DEF StoreFails, RunFits
<1>16. CASE ClearCache
  <2>1. NoPause \in Pause
    BY DEF NoPause, Pause, ForgetUnits
  <2> QED
    BY <1>16, <2>1 DEF ClearCache
<1>17. CASE ResetDryRun
  BY <1>17 DEF ResetDryRun
<1>18. CASE SwitchMode
  BY <1>18 DEF SwitchMode
<1>19. CASE PurgeLog
  BY <1>19 DEF PurgeLog, KeptRows
<1>20. CASE Crash
  BY <1>20 DEF Crash
<1>21. CASE Tick
  BY <1>21 DEF Tick, Pause, ForgetUnits
<1>22. ASSUME NEW t \in Titles, EntryEnds(t)
      PROVE  TypeOK'
  BY <1>22 DEF EntryEnds
<1>23. ASSUME NEW t \in Titles, PurgePause(t)
      PROVE  TypeOK'
  BY <1>23 DEF PurgePause, NoPause, Pause, ForgetUnits
<1>24. ASSUME NEW t \in Titles, OtherGrab(t)
      PROVE  TypeOK'
  BY <1>24 DEF OtherGrab, Begins, Grabs, Downloads
<1>25. ASSUME NEW t \in Titles, HeldIsSent(t)
      PROVE  TypeOK'
  BY <1>25 DEF HeldIsSent, Begins, Grabs, Downloads
<1>26. ASSUME NEW t \in Titles, LateGrab(t)
      PROVE  TypeOK'
  BY <1>26 DEF LateGrab, Begins, Grabs, Downloads
<1>27. ASSUME NEW t \in Titles, DownloadFails(t)
      PROVE  TypeOK'
  BY <1>27 DEF DownloadFails, Downloads
<1>28. ASSUME NEW t \in Titles, ArrImports(t)
      PROVE  TypeOK'
  BY <1>28 DEF ArrImports, Files, Downloads
<1>29. ASSUME NEW t \in Titles, LeavesQueue(t)
      PROVE  TypeOK'
  BY <1>29 DEF LeavesQueue, Downloads
<1>30. CASE UNCHANGED vars
  BY <1>30 DEF vars
<1> QED
  BY <1>1, <1>2, <1>3, <1>4, <1>5, <1>6, <1>7, <1>8, <1>9, <1>10, <1>11, <1>12, <1>13,
     <1>14, <1>15, <1>16, <1>17, <1>18, <1>19, <1>20, <1>21, <1>22, <1>23, <1>24,
     <1>25, <1>26, <1>27, <1>28, <1>29, <1>30, Zenon
     DEF Next, RunStep, UserStep, WorldStep

----------------------------------------------------------------------------
(* News of a title *)

\* What began before the last reads of a title's check is still in the queue, or
\* in the title's file, when they are made.
NewsInv ==
    /\ run.pc \in Steps \ {"load"} => run.file <= file[run.title]
    /\ run.pc \in {"queued", "search", "parse", "reread"} /\ run.news = "early" =>
          download[run.title] = "queued" \/ file[run.title] > run.file
    /\ run.pc = "reread2" /\ run.news = "early" => file[run.title] > run.file
    /\ run.pc = "post" => run.news # "early"

\* Where a run goes from the queue ...
LEMMA QueueRead ==
    ASSUME run \in Run, ReadWholeQueue
    PROVE  run'.pc \in {"collect", "idle"}
<1>1. \/ run' = Idle
      \/ run' = [run EXCEPT !.pc = "collect"]
      \/ \E S : run' = [run EXCEPT !.pc = "collect", !.queued = S]
  BY Zenon DEF ReadWholeQueue
<1>2. Idle.pc = "idle"
  BY DEF Idle
<1> QED
  BY <1>1, <1>2 DEF Run

\* ... from one title to the next ...
LEMMA TitleTaken ==
    ASSUME run \in Run, NextTitle
    PROVE  run'.pc \in {"load", "idle"}
<1>1. run' = Idle \/ \E t \in run.todo : run' = [run EXCEPT !.pc = "load", !.title = t,
                                                          !.todo = @ \ {t}, !.slots = @ + 1]
  BY Zenon DEF NextTitle
<1>2. Idle.pc = "idle"
  BY DEF Idle
<1> QED
  BY <1>1, <1>2 DEF Run

\* ... and from a release it could, or could not, check.
LEMMA ReleaseParsed ==
    ASSUME run \in Run, Parse
    PROVE  \/ run'.pc = "store"
           \/ /\ run'.pc \in {"reread", "parse", "health"}
              /\ run'.file = run.file /\ run'.title = run.title /\ run'.news = run.news
<1>1. run.pc = "parse"
  BY DEF Parse
<1>2. \/ Ends("would_grab")
      \/ Ends("error")
      \/ run' = [run EXCEPT !.pc = "reread", !.releases = 0, !.unparsed = FALSE]
      \/ run' = [run EXCEPT !.pc = "health", !.releases = 0]
      \/ \E unparsed : run' = [run EXCEPT !.releases = @ - 1, !.unparsed = unparsed]
  BY Zenon DEF Parse
<1> QED
  BY <1>1, <1>2 DEF Run, Ends

\* Every step keeps it.
LEMMA NewsKept ==
    ASSUME TypeOK, RunOK, NewsInv, [Next]_vars
    PROVE  NewsInv'
<1> USE DEF TypeOK, RunOK, RunFits, NewsInv, Steps, Run, Files, Titles, world, books, setup
<1>1. CASE BeginScheduled
  BY <1>1 DEF BeginScheduled, Begin, Idle
<1>2. CASE BeginForced
  BY <1>2 DEF BeginForced, Begin, Idle
<1>3. CASE ReadWholeQueue
  BY <1>3, QueueRead
<1>4. CASE Collect
  BY <1>4 DEF Collect, Idle
<1>5. CASE NextTitle
  BY <1>5, TitleTaken
<1>6. CASE Load
  <2>1. run.pc = "load" /\ UNCHANGED <<file, download>>
    BY <1>6 DEF Load
  <2>2. CASE EndsUnsearched("error")
    BY <2>1, <2>2 DEF EndsUnsearched
  <2>3. CASE ~EndsUnsearched("error")
    <3>1. PICK pc \in {"queued", "search"}, news \in {"none", "early"} :
            /\ run' = [run EXCEPT !.pc = pc, !.file = file[run.title], !.news = news]
            /\ news = "early" => download[run.title] = "queued"
      BY <1>6, <2>3 DEF Load
    <3> QED
      BY <2>1, <3>1
  <2> QED
    BY <2>2, <2>3
<1>7. CASE ReadQueue
  BY <1>7 DEF ReadQueue, EndsUnsearched
<1>8. CASE Search
  <2>1. run.pc = "search" /\ UNCHANGED <<file, download>>
    BY <1>8 DEF Search
  <2>2. \/ run'.pc = "store"
        \/ /\ run'.pc \in {"health", "parse"}
           /\ run'.file = run.file /\ run'.title = run.title /\ run'.news = run.news
    BY <1>8 DEF Search, EndsUnsearched
  <2> QED
    BY <2>1, <2>2
<1>9. CASE Stop
  BY <1>9 DEF Stop, Idle
<1>10. CASE Parse
  <2>1. run.pc = "parse" /\ UNCHANGED <<file, download>>
    BY <1>10 DEF Parse
  <2>2. \/ run'.pc = "store"
        \/ /\ run'.pc \in {"reread", "parse", "health"}
           /\ run'.file = run.file /\ run'.title = run.title /\ run'.news = run.news
    BY <1>10, ReleaseParsed
  <2> QED
    BY <2>1, <2>2
<1>11. CASE ReadHealth
  BY <1>11 DEF ReadHealth, Ends
<1>12. CASE Reread
  <2>1. run.pc \in {"reread", "reread2"} /\ UNCHANGED <<file, download>>
    BY <1>12 DEF Reread
  <2>2. CASE Ends("changed_meanwhile") \/ Ends("error")
    BY <2>2 DEF Ends
  <2>3. CASE run.pc = "reread" /\ ~Downloading(run.title) /\ run' = [run EXCEPT !.pc = "reread2"]
    BY <2>1, <2>3 DEF Downloading
  <2>4. CASE run.pc = "reread2" /\ file[run.title] = run.file /\ run' = [run EXCEPT !.pc = "post"]
    BY <2>1, <2>4
  <2>5. Rereads[1] = "queue" /\ Rereads[2] = "file" /\ "queue" # "file"
    BY DEF Rereads
  <2> QED
    BY <1>12, <2>2, <2>3, <2>4, <2>5 DEF Reread, AsLoaded
<1>13. CASE Post
  BY <1>13 DEF Post, Ends
<1>14. CASE Store
  BY <1>14 DEF Store, Onwards
<1>15. CASE StoreFails
  BY <1>15 DEF StoreFails, Idle
<1>16. CASE ClearCache
  BY <1>16 DEF ClearCache
<1>17. CASE ResetDryRun
  BY <1>17 DEF ResetDryRun
<1>18. CASE SwitchMode
  BY <1>18 DEF SwitchMode
<1>19. CASE PurgeLog
  BY <1>19 DEF PurgeLog
<1>20. CASE Crash
  BY <1>20 DEF Crash, Idle
<1>21. CASE Tick
  BY <1>21 DEF Tick
<1>22. ASSUME NEW t \in Titles, EntryEnds(t)
      PROVE  NewsInv'
  BY <1>22 DEF EntryEnds
<1>23. ASSUME NEW t \in Titles, PurgePause(t)
      PROVE  NewsInv'
  BY <1>23 DEF PurgePause
<1>24. ASSUME NEW t \in Titles, OtherGrab(t)
      PROVE  NewsInv'
  <2>1. UNCHANGED file /\ download[t] = "none"
    BY <1>24 DEF OtherGrab
  <2>2. CASE Begins(t)
    BY <2>1, <2>2 DEF Begins, Grabs
  <2>3. CASE download' = [download EXCEPT ![t] = "held"] /\ UNCHANGED run
    BY <2>1, <2>3
  <2> QED
    BY <1>24, <2>2, <2>3 DEF OtherGrab
<1>25. ASSUME NEW t \in Titles, HeldIsSent(t)
      PROVE  NewsInv'
  BY <1>25 DEF HeldIsSent, Begins, Grabs
<1>26. ASSUME NEW t \in Titles, LateGrab(t)
      PROVE  NewsInv'
  BY <1>26 DEF LateGrab, Begins, Grabs
<1>27. ASSUME NEW t \in Titles, DownloadFails(t)
      PROVE  NewsInv'
  BY <1>27 DEF DownloadFails
<1>28. ASSUME NEW t \in Titles, ArrImports(t)
      PROVE  NewsInv'
  BY <1>28 DEF ArrImports
<1>29. ASSUME NEW t \in Titles, LeavesQueue(t)
      PROVE  NewsInv'
  BY <1>29 DEF LeavesQueue
<1>30. CASE UNCHANGED vars
  BY <1>30 DEF vars
<1> QED
  BY <1>1, <1>2, <1>3, <1>4, <1>5, <1>6, <1>7, <1>8, <1>9, <1>10, <1>11, <1>12, <1>13,
     <1>14, <1>15, <1>16, <1>17, <1>18, <1>19, <1>20, <1>21, <1>22, <1>23, <1>24,
     <1>25, <1>26, <1>27, <1>28, <1>29, <1>30, Zenon
     DEF Next, RunStep, UserStep, WorldStep

----------------------------------------------------------------------------
(* What a run keeps on its way *)

\* A run that goes on keeps its settings; its titles come from the list it began
\* with.
GoesOn ==
    \/ run' = Idle
    \/ /\ run'.mode = run.mode /\ run'.force = run.force /\ run'.round = run.round
       /\ run'.todo \subseteq run.todo
       /\ run'.title = run.title \/ run'.title \in run.todo
       /\ run'.outcome = "none" => run.outcome = "none"
       /\ run.pc \notin Steps \cup {"store"} => run'.pc \notin (Steps \ {"load"}) \cup {"store"}
       /\ run.pc \in Steps \cup {"store"} => run'.title = run.title
       /\ run.pc = "store" => run'.pc = "store" /\ run'.outcome = run.outcome
       /\ run.pc = "load" => run'.pc \in {"load", "queued", "search", "store"}

\* So does every step but those that make the list and file an outcome.
LEMMA StepsGoOn ==
    ASSUME RunOK, RunStep, ~Collect, ~Store
    PROVE  GoesOn
<1> USE DEF GoesOn, RunOK
<1>1. CASE Load \/ ReadQueue
  <2>1. CASE Load
    <3>1. /\ run.pc = "load"
          /\ \/ EndsUnsearched("error")
             \/ \E pc \in {"queued", "search"}, news \in {"none", "early"} :
                   run' = [run EXCEPT !.pc = pc, !.file = file[run.title], !.news = news]
      BY <2>1 DEF Load
    <3> QED
      BY <3>1, OutcomesKnown DEF EndsUnsearched, Run, Steps
  <2>2. CASE ReadQueue
    BY <2>2 DEF ReadQueue, EndsUnsearched, Run, RunFits, Steps
  <2> QED
    BY <1>1, <2>1, <2>2
<1>2. CASE Search
  <2>1. \/ EndsUnsearched("error")
        \/ run' = [run EXCEPT !.pc = "store", !.outcome = "error", !.searches = @ + 1]
        \/ \E n \in 0 .. MaxReleases, pc \in {"health", "parse"} :
              run' = [run EXCEPT !.pc = pc, !.releases = n, !.tried = n > 0, !.searches = @ + 1]
    BY <1>2 DEF Search
  <2> QED
    BY <1>2, <2>1 DEF Search, EndsUnsearched, Run, Steps
<1>3. CASE Parse
  <2>1. \/ Ends("would_grab")
        \/ Ends("error")
        \/ run' = [run EXCEPT !.pc = "reread", !.releases = 0, !.unparsed = FALSE]
        \/ run' = [run EXCEPT !.pc = "health", !.releases = 0]
        \/ \E unparsed : run' = [run EXCEPT !.releases = @ - 1, !.unparsed = unparsed]
    BY <1>3, Zenon DEF Parse
  <2> QED
    BY <1>3, <2>1 DEF Parse, Ends, Run, Steps
<1>4. CASE ReadHealth \/ Reread \/ Post
  <2>1. /\ run.pc \in {"health", "reread", "reread2", "post"}
        /\ \/ \E outcome \in Outcomes : Ends(outcome)
           \/ \E pc \in {"reread2", "post"} : run' = [run EXCEPT !.pc = pc]
    BY <1>4, OutcomesKnown DEF ReadHealth, Reread, Post
  <2>2. ASSUME NEW outcome \in Outcomes, Ends(outcome)
        PROVE  GoesOn
    BY <2>1, <2>2, OutcomesKnown DEF Ends, Run, Steps
  <2>3. ASSUME NEW pc \in {"reread2", "post"}, run' = [run EXCEPT !.pc = pc]
        PROVE  GoesOn
    BY <2>1, <2>3 DEF Run, Steps
  <2> QED
    BY <2>1, <2>2, <2>3
<1>5. CASE ReadWholeQueue
  <2>1. /\ run.pc = "queue"
        /\ \/ run' = Idle
           \/ run' = [run EXCEPT !.pc = "collect"]
           \/ \E S : run' = [run EXCEPT !.pc = "collect", !.queued = S]
    BY <1>5, Zenon DEF ReadWholeQueue
  <2> QED
    BY <2>1 DEF Run, Steps
<1>6. CASE NextTitle
  <2>1. /\ run.pc = "next"
        /\ \/ run' = Idle
           \/ \E t \in run.todo : run' = [run EXCEPT !.pc = "load", !.title = t,
                                                     !.todo = @ \ {t}, !.slots = @ + 1]
    BY <1>6, Zenon DEF NextTitle
  <2>2. ASSUME NEW t \in run.todo, run' = [run EXCEPT !.pc = "load", !.title = t,
                                                      !.todo = @ \ {t}, !.slots = @ + 1]
        PROVE  GoesOn
    BY <2>1, <2>2 DEF Run, Steps
  <2> QED
    BY <2>1, <2>2
<1>7. CASE Stop \/ StoreFails
  BY <1>7 DEF Stop, StoreFails
<1> QED
  BY <1>1, <1>2, <1>3, <1>4, <1>5, <1>6, <1>7, Zenon DEF RunStep

\* News of a title change nothing of it.
LEMMA NewsGoOn ==
    ASSUME RunOK, NEW t \in Titles,
           \/ OtherGrab(t) \/ HeldIsSent(t) \/ LateGrab(t) \/ DownloadFails(t)
    PROVE  GoesOn
<1>1. \/ run' = run
      \/ run' = [run EXCEPT !.news = "early"]
      \/ run' = [run EXCEPT !.news = "late"]
      \/ run' = [run EXCEPT !.news = "none"]
  BY DEF OtherGrab, HeldIsSent, LateGrab, DownloadFails, Begins
<1>2. CASE run' = run
  BY <1>2 DEF GoesOn, Steps
<1>3. ASSUME NEW news, run' = [run EXCEPT !.news = news]
      PROVE  GoesOn
  BY <1>3 DEF GoesOn, RunOK, Run, Steps
<1> QED
  BY <1>1, <1>2, <1>3

----------------------------------------------------------------------------
(* Grabs that are out *)

\* A grab that is out, or may be, is remembered somewhere, and a run that minds
\* blocks has no title of one on its list.
OutInv ==
    /\ \A t \in out :
          \/ cached[t] # "none" \/ t \in unsaved
          \/ run.pc = "store" /\ run.title = t /\ run.outcome \in KeptOutcomes
    /\ run.mode = "active" /\ ~run.force =>
          \A t \in out : t \notin run.todo /\ (run.outcome = "none" => t # run.title)

\* What a run that ended knows.
LEMMA IdleForgets ==
    /\ Idle.todo = {} /\ Idle.title = 0 /\ Idle.pc = "idle" /\ Idle.mode = "active"
  BY DEF Idle

\* The steps that leave the books alone.
LEMMA OutStays ==
    ASSUME TypeOK, RunOK, OutInv, GoesOn, UNCHANGED <<cached, unsaved, out>>,
           run.pc # "store" \/ run' # Idle
    PROVE  OutInv'
<1>1. out \subseteq Titles /\ 0 \notin Titles
  BY DEF TypeOK, Titles
<1>2. CASE run' = Idle
  BY <1>1, <1>2, IdleForgets DEF OutInv
<1>3. CASE run' # Idle
  BY <1>3 DEF OutInv, GoesOn
<1> QED
  BY <1>2, <1>3

\* Every step keeps it.
LEMMA OutKept ==
    ASSUME TypeOK, RunOK, OutInv, [Next]_vars
    PROVE  OutInv'
<1>1. out \subseteq Titles /\ 0 \notin Titles
  BY DEF TypeOK, Titles
<1>2. CASE RunStep
  <2>1. CASE ReadWholeQueue \/ NextTitle \/ Load \/ ReadQueue \/ Search \/ Stop \/ Parse
             \/ ReadHealth \/ Reread
    <3>1. GoesOn
      <4>1. run.pc \notin {"collect", "store"}
        BY <2>1 DEF ReadWholeQueue, NextTitle, Load, ReadQueue, Search, Stop, Parse, ReadHealth, Reread
      <4>2. ~Collect /\ ~Store
        BY <4>1 DEF Collect, Store
      <4> QED
        BY <1>2, <4>2, StepsGoOn
    <3>2. run.pc # "store" /\ UNCHANGED <<cached, unsaved, out>>
      BY <2>1 DEF ReadWholeQueue, NextTitle, Load, ReadQueue, Search, Stop, Parse, ReadHealth,
         Reread, books, observed
    <3> QED
      BY <3>1, <3>2, OutStays
  <2>2. CASE Collect
    <3>1. run.pc = "collect" /\ UNCHANGED <<cached, unsaved, out>>
      BY <2>2 DEF Collect, books, observed
    <3>2. run.title = 0 /\ run.outcome = "none"
      BY <3>1 DEF RunOK, RunFits
    <3> DEFINE eligible == {t \in Wanted \ (run.queued \cup Paused) :
                               Free(t, run.mode, run.force, run.round)}
    <3>3. \/ run' = Idle
          \/ run' = [run EXCEPT !.pc = "next", !.queued = {}, !.todo = First(eligible)]
      BY <2>2 DEF Collect
    <3>4. run.mode = "active" /\ ~run.force => \A t \in eligible : t \notin out
      BY <3>1 DEF Free, OutInv
    <3>5. First(eligible) \subseteq eligible
      BY DEF First
    <3> HIDE DEF eligible
    <3> DEFINE list == First(eligible)
    <3>6. run.mode = "active" /\ ~run.force => \A t \in list : t \notin out
      BY <3>4, <3>5
    <3> HIDE DEF list
    <3>7. CASE run' = Idle
      BY <1>1, <3>1, <3>7, IdleForgets DEF OutInv
    <3>8. CASE run' = [run EXCEPT !.pc = "next", !.queued = {}, !.todo = list]
      BY <1>1, <3>1, <3>2, <3>6, <3>8 DEF OutInv, RunOK, Run
    <3> QED
      BY <3>3, <3>7, <3>8 DEF list
  <2>3. CASE Post
    <3>1. /\ run.pc = "post" /\ UNCHANGED <<cached, unsaved>>
          /\ \/ Ends("grabbed") /\ out' = out \cup {run.title}
             \/ Ends("grab_failed") /\ out' = out
             \/ Ends("grab_uncertain") /\ out' = out \cup {run.title}
      BY <2>3 DEF Post, books
    <3>2. run.title \notin run.todo /\ run.outcome = "none"
      BY <3>1 DEF RunOK, RunFits, Steps
    <3> QED
      BY <3>1, <3>2 DEF OutInv, Ends, RunOK, Run, KeptOutcomes
  <2>4. CASE Store
    <3>1. /\ run.pc = "store" /\ UNCHANGED <<unsaved, out>>
          /\ cached' = [cached EXCEPT ![run.title] = Entry(run.title, run.outcome)]
          /\ Onwards
      BY <2>4 DEF Store
    <3>2. /\ run.title \in Titles
          /\ run.outcome \in KeptOutcomes => run.mode = "active"
      BY <3>1 DEF RunOK, RunFits
    <3>3. Entry(run.title, run.outcome) = "none" =>
             cached[run.title] = "none" /\ run.outcome \notin KeptOutcomes
      BY <3>2 DEF Entry
    <3>4. cached \in [Titles -> {"none", "miss", "grab"}]
      BY DEF TypeOK
    <3>5. \A t \in out : cached'[t] # "none" \/ t \in unsaved'
      BY <1>1, <3>1, <3>2, <3>3, <3>4 DEF OutInv
    <3>6. run'.title = 0 /\ run'.mode = run.mode /\ run'.force = run.force /\ run'.todo = run.todo
      BY <3>1 DEF Onwards, RunOK, Run
    <3> QED
      BY <1>1, <3>1, <3>5, <3>6 DEF OutInv
  <2>5. CASE StoreFails
    <3>1. /\ run' = Idle /\ UNCHANGED <<cached, out>> /\ run.pc = "store"
          /\ unsaved \subseteq unsaved'
          /\ run.outcome \in KeptOutcomes => run.title \in unsaved'
      BY <2>5 DEF StoreFails, observed
    <3> QED
      BY <1>1, <3>1, IdleForgets DEF OutInv
  <2> QED
    BY <1>2, <2>1, <2>2, <2>3, <2>4, <2>5, Zenon DEF RunStep
<1>3. CASE BeginScheduled \/ BeginForced
  <2>1. \E force \in BOOLEAN : Begin(force)
    BY <1>3 DEF BeginScheduled, BeginForced
  <2>2. PICK stored \in SUBSET unsaved :
          /\ unsaved' = unsaved \ stored
          /\ cached' = [t \in Titles |-> IF t \in stored THEN "grab" ELSE cached[t]]
    BY <2>1, Zenon DEF Begin
  <2>3. run'.title = 0 /\ run'.todo = {} /\ run.pc = "idle" /\ out' = out
    BY <2>1 DEF Begin, Idle, observed
  <2> QED
    BY <1>1, <2>2, <2>3 DEF OutInv
<1>4. CASE ClearCache
  BY <1>1, <1>4 DEF ClearCache, OutInv
<1>5. CASE Crash
  BY <1>1, <1>5, IdleForgets DEF Crash, OutInv
<1>6. ASSUME NEW t \in Titles, EntryEnds(t)
      PROVE  OutInv'
  <2>1. cached \in [Titles -> {"none", "miss", "grab"}]
    BY DEF TypeOK
  <2> QED
    BY <1>1, <1>6, <2>1 DEF EntryEnds, OutInv
<1>7. ASSUME NEW t \in Titles, OtherGrab(t) \/ HeldIsSent(t) \/ LateGrab(t) \/ DownloadFails(t)
      PROVE  OutInv'
  <2>1. UNCHANGED <<cached, unsaved, out>>
    BY <1>7 DEF OtherGrab, HeldIsSent, LateGrab, DownloadFails, books, observed
  <2>2. GoesOn
    BY <1>7, NewsGoOn
  <2>3. run.pc = "store" => run' # Idle
    BY <1>7, IdleForgets DEF OtherGrab, HeldIsSent, LateGrab, DownloadFails, Begins, RunOK, Run
  <2> QED
    BY <2>1, <2>2, <2>3, OutStays
<1>8. CASE ResetDryRun \/ SwitchMode \/ PurgeLog \/ Tick \/ UNCHANGED vars
           \/ \E t \in Titles : PurgePause(t) \/ ArrImports(t) \/ LeavesQueue(t)
  <2>1. UNCHANGED <<run, cached, unsaved, out>>
    BY <1>8 DEF ResetDryRun, SwitchMode, PurgeLog, Tick, PurgePause, ArrImports, LeavesQueue, vars,
       books, observed
  <2> QED
    BY <2>1 DEF OutInv
<1> QED
  BY <1>2, <1>3, <1>4, <1>5, <1>6, <1>7, <1>8, Zenon DEF Next, UserStep, WorldStep

----------------------------------------------------------------------------
(* Dry-run rounds *)

\* A check that counts in the running round has its row, a run in a round has
\* only titles without one on its list, and no row is of a round its title was
\* not loaded in.
RoundInv ==
    /\ \A t \in Titles : seen[t] <= round
    /\ \A t \in Titles, r \in Rounds : r > round => checks[<<t, r>>] = 0
    /\ \A t \in Titles : checks[<<t, round>>] <= 1
    /\ \A t \in Titles : <<t, round>> \notin rows => checks[<<t, round>>] = 0
    /\ \A t \in Titles, r \in Rounds : <<t, r>> \in rows => r <= seen[t]
    /\ run.mode = "dry_run" =>
          \A t \in Titles : t \in run.todo \/ t = run.title => <<t, run.round>> \notin rows
    /\ run.pc \in (Steps \ {"load"}) \cup {"store"} => run.round <= seen[run.title]

\* The steps that neither count nor purge.
LEMMA RoundStays ==
    ASSUME TypeOK, RunOK, RoundInv, GoesOn, UNCHANGED <<rows, checks, round>>,
           \/ UNCHANGED seen /\ run.pc # "load"
           \/ run.pc = "load" /\ seen' = [seen EXCEPT ![run.title] = round]
           \/ UNCHANGED seen /\ run'.pc = "load"
    PROVE  RoundInv'
<1>1. /\ 0 \notin Titles
      /\ round \in Nat /\ run.round \in Rounds /\ seen \in [Titles -> Rounds] /\ Rounds \subseteq Nat
      /\ run.round <= round
  BY DEF TypeOK, Titles, Rounds, RunOK, Run, RunFits
<1>2. seen' = seen \/ seen' = [seen EXCEPT ![run.title] = round]
  OBVIOUS
<1>a. /\ seen' \in [Titles -> Rounds]
      /\ \A t \in Titles : seen'[t] = seen[t] \/ seen'[t] = round
  BY <1>1, <1>2 DEF TypeOK
<1>b. \A t \in Titles : seen[t] <= round
  BY DEF RoundInv
<1>c. \A t \in Titles : seen'[t] <= round /\ seen[t] <= seen'[t]
  <2>1. \A t \in Titles : seen[t] \in Nat /\ seen'[t] \in Nat
    BY <1>1, <1>a
  <2> QED
    BY <1>1, <1>a, <1>b, <2>1
<1>d. \A t \in Titles, r \in Rounds : <<t, r>> \in rows => r <= seen[t]
  BY DEF RoundInv
<1>3. \A t \in Titles, r \in Rounds : <<t, r>> \in rows => r <= seen'[t]
  <2>1. SUFFICES ASSUME NEW t \in Titles, NEW r \in Rounds, <<t, r>> \in rows
                 PROVE  r <= seen'[t]
    OBVIOUS
  <2>2. r <= seen[t] /\ seen[t] <= seen'[t]
    BY <1>c, <1>d, <2>1
  <2>3. r \in Nat /\ seen[t] \in Nat /\ seen'[t] \in Nat
    BY <1>1, <1>a
  <2> QED
    BY <2>2, <2>3
<1>4. run'.mode = "dry_run" =>
        \A t \in Titles : t \in run'.todo \/ t = run'.title => <<t, run'.round>> \notin rows
  BY <1>1, IdleForgets DEF RoundInv, GoesOn
<1>5. run'.pc \in (Steps \ {"load"}) \cup {"store"} => run'.round <= seen'[run'.title]
  <2>1. run.pc \in Steps \cup {"store"} => run.title \in Titles
    BY DEF RunOK, RunFits
  <2>2. CASE run' = Idle
    BY <2>2, IdleForgets DEF Steps
  <2>3. CASE run.pc = "load" /\ seen' = [seen EXCEPT ![run.title] = round]
    BY <1>1, <2>1, <2>2, <2>3 DEF GoesOn, Steps
  <2>4. CASE UNCHANGED seen /\ run.pc # "load"
    BY <1>1, <2>2, <2>4 DEF GoesOn, Steps, RoundInv
  <2>5. CASE run'.pc = "load"
    BY <2>5 DEF Steps
  <2> QED
    BY <2>3, <2>4, <2>5
<1> QED
  BY <1>c, <1>3, <1>4, <1>5 DEF RoundInv

\* Every step keeps it.
LEMMA RoundKept ==
    ASSUME TypeOK, RunOK, RoundInv, [Next]_vars
    PROVE  RoundInv'
<1>1. /\ 0 \notin Titles
      /\ round \in Rounds /\ run.round \in Rounds /\ seen \in [Titles -> Rounds] /\ Rounds \subseteq Nat
      /\ run.round <= round
      /\ rows \subseteq Titles \X Rounds
      /\ checks \in [Titles \X Rounds -> 0 .. 2]
  BY DEF TypeOK, Titles, Rounds, RunOK, Run, RunFits
<1>2. CASE RunStep
  <2>1. CASE ReadWholeQueue \/ NextTitle \/ Load \/ ReadQueue \/ Search \/ Stop \/ Parse
             \/ ReadHealth \/ Reread \/ Post \/ StoreFails
    <3>1. GoesOn
      <4>1. (~Collect /\ ~Store) \/ StoreFails
        BY <2>1 DEF ReadWholeQueue, NextTitle, Load, ReadQueue, Search, Stop, Parse, ReadHealth,
           Reread, Post, Collect, Store
      <4>2. StoreFails => GoesOn
        BY DEF StoreFails, GoesOn
      <4> QED
        BY <1>2, <4>1, <4>2, StepsGoOn
    <3>2. UNCHANGED <<rows, checks, round>>
      BY <2>1 DEF ReadWholeQueue, NextTitle, Load, ReadQueue, Search, Stop, Parse, ReadHealth,
         Reread, Post, StoreFails, books, observed, setup
    <3>3. \/ UNCHANGED seen /\ run.pc # "load"
          \/ run.pc = "load" /\ seen' = [seen EXCEPT ![run.title] = round]
      BY <2>1 DEF ReadWholeQueue, NextTitle, Load, ReadQueue, Search, Stop, Parse, ReadHealth,
         Reread, Post, StoreFails, observed
    <3> QED
      BY <3>1, <3>2, <3>3, RoundStays
  <2>2. CASE Collect
    <3>1. run.pc = "collect" /\ UNCHANGED <<rows, checks, seen, round>>
      BY <2>2 DEF Collect, books, observed, setup
    <3> DEFINE eligible == {t \in Wanted \ (run.queued \cup Paused) :
                               Free(t, run.mode, run.force, run.round)}
    <3>2. \/ run' = Idle
          \/ run' = [run EXCEPT !.pc = "next", !.queued = {}, !.todo = First(eligible)]
      BY <2>2 DEF Collect
    <3>3. run.mode = "dry_run" => \A t \in eligible : <<t, run.round>> \notin rows
      BY DEF Free
    <3>4. First(eligible) \subseteq eligible
      BY DEF First
    <3> HIDE DEF eligible
    <3> DEFINE list == First(eligible)
    <3>5. run.mode = "dry_run" => \A t \in list : <<t, run.round>> \notin rows
      BY <3>3, <3>4
    <3> HIDE DEF list
    <3>6. /\ run'.pc \in {"idle", "next"}
          /\ run'.mode = "dry_run" =>
                \A t \in Titles : t \in run'.todo \/ t = run'.title => <<t, run'.round>> \notin rows
      <4>1. run.title = 0
        BY <3>1 DEF RunOK, RunFits
      <4>2. CASE run' = Idle
        BY <1>1, <4>2, IdleForgets
      <4>3. CASE run' = [run EXCEPT !.pc = "next", !.queued = {}, !.todo = list]
        BY <1>1, <3>5, <4>1, <4>3 DEF RunOK, Run
      <4> QED
        BY <3>2, <4>2, <4>3 DEF list
    <3> QED
      BY <3>1, <3>6 DEF RoundInv, Steps
  <2>3. CASE Store
    <3> DEFINE check == <<run.title, run.round>>
    <3>1. /\ run.pc = "store" /\ UNCHANGED <<seen, round>>
          /\ Onwards
          /\ \/ UNCHANGED <<rows, checks>>
             \/ /\ run.mode = "dry_run"
                /\ rows' = rows \cup {check}
                /\ checks' = [checks EXCEPT ![check] = IF @ < 2 THEN @ + 1 ELSE 2]
      BY <2>3 DEF Store, Counts, setup
    <3>2. run.title \in Titles
      BY <3>1 DEF RunOK, RunFits
    <3>3. /\ run'.pc = "next" /\ run'.title = 0 /\ run'.mode = run.mode
          /\ run'.round = run.round /\ run'.todo = run.todo
          /\ run.title \notin run.todo
      BY <3>1 DEF Onwards, RunOK, Run, RunFits
    <3>4. CASE UNCHANGED <<rows, checks>>
      BY <1>1, <3>1, <3>3, <3>4 DEF RoundInv, Steps
    <3>5. CASE /\ run.mode = "dry_run"
               /\ rows' = rows \cup {check}
               /\ checks' = [checks EXCEPT ![check] = IF @ < 2 THEN @ + 1 ELSE 2]
      <4>1. check \in Titles \X Rounds
        BY <1>1, <3>2
      <4>2. \A t \in Titles, r \in Rounds :
               /\ <<t, r>> = check <=> t = run.title /\ r = run.round
               /\ <<t, r>> \in Titles \X Rounds
        OBVIOUS
      <4>3. check \notin rows
        BY <3>2, <3>5 DEF RoundInv
      <4>4. \A t \in Titles, r \in Rounds :
               checks'[<<t, r>>] = IF t = run.title /\ r = run.round
                                   THEN (IF checks[check] < 2 THEN checks[check] + 1 ELSE 2)
                                   ELSE checks[<<t, r>>]
        BY <1>1, <3>5, <4>1, <4>2
      <4>5. \A t \in Titles, r \in Rounds :
               <<t, r>> \in rows' <=> <<t, r>> \in rows \/ (t = run.title /\ r = run.round)
        BY <3>5, <4>2
      <4>6. run.round = round => checks[check] = 0
        BY <3>2, <4>3 DEF RoundInv
      <4>7. run.round <= seen[run.title]
        BY <3>1 DEF RoundInv
      <4> HIDE DEF check
      <4>8. \A t \in Titles, r \in Rounds : r > round => checks'[<<t, r>>] = 0
        BY <1>1, <4>4 DEF RoundInv
      <4>9. \A t \in Titles : /\ checks'[<<t, round>>] <= 1
                              /\ <<t, round>> \notin rows' => checks'[<<t, round>>] = 0
        BY <1>1, <4>4, <4>5, <4>6 DEF RoundInv
      <4>10. \A t \in Titles, r \in Rounds : <<t, r>> \in rows' => r <= seen[t]
        BY <4>5, <4>7 DEF RoundInv
      <4>11. run'.mode = "dry_run" =>
               \A t \in Titles : t \in run'.todo \/ t = run'.title => <<t, run'.round>> \notin rows'
        BY <1>1, <3>3, <4>5 DEF RoundInv
      <4> QED
        BY <3>1, <3>3, <4>8, <4>9, <4>10, <4>11 DEF RoundInv, Steps
    <3> QED
      BY <3>1, <3>4, <3>5
  <2> QED
    BY <1>2, <2>1, <2>2, <2>3, Zenon DEF RunStep
<1>3. CASE BeginScheduled \/ BeginForced
  <2>1. run'.title = 0 /\ run'.todo = {} /\ run'.pc = "queue" /\ UNCHANGED <<rows, checks, seen, round>>
    BY <1>3 DEF BeginScheduled, BeginForced, Begin, Idle, observed, setup
  <2> QED
    BY <1>1, <2>1 DEF RoundInv, Steps
<1>4. CASE ResetDryRun \/ SwitchMode
  <2>1. UNCHANGED <<run, rows, checks, seen>> /\ round' \in {round, round + 1} /\ round' \in Rounds
    BY <1>1, <1>4, BoundsAssumption DEF ResetDryRun, SwitchMode, books, observed, Rounds
  <2>2. CASE round' = round
    BY <2>1, <2>2 DEF RoundInv
  <2>3. CASE round' = round + 1
    <3>1. \A t \in Titles : checks[<<t, round'>>] = 0
      BY <1>1, <2>1, <2>3 DEF RoundInv
    <3>2. \A t \in Titles, r \in Rounds : r > round' => checks[<<t, r>>] = 0
      BY <1>1, <2>3 DEF RoundInv
    <3>a. \A t \in Titles : seen[t] \in Nat /\ seen[t] <= round
      BY <1>1 DEF RoundInv
    <3>b. round \in Nat
      BY <1>1
    <3>3. \A t \in Titles : seen[t] <= round'
      BY <2>3, <3>a, <3>b
    <3> QED
      BY <2>1, <3>1, <3>2, <3>3 DEF RoundInv
  <2> QED
    BY <2>1, <2>2, <2>3
<1>5. CASE Crash
  BY <1>1, <1>5, IdleForgets DEF Crash, RoundInv, setup, Steps
<1>6. CASE PurgeLog
  <2>1. UNCHANGED <<run, checks, seen, round>> /\ rows' \subseteq rows
    BY <1>6 DEF PurgeLog, KeptRows, observed, setup
  <2>2. \A t \in Titles : <<t, round>> \in rows => <<t, round>> \in rows'
    BY <1>6 DEF PurgeLog, KeptRows
  <2> QED
    BY <2>1, <2>2 DEF RoundInv
<1>7. ASSUME NEW t \in Titles, OtherGrab(t) \/ HeldIsSent(t) \/ LateGrab(t) \/ DownloadFails(t)
      PROVE  RoundInv'
  <2>1. UNCHANGED <<rows, checks, round, seen>>
    BY <1>7 DEF OtherGrab, HeldIsSent, LateGrab, DownloadFails, books, observed, setup
  <2>2. GoesOn
    BY <1>7, NewsGoOn
  <2>3. run'.pc = run.pc
    BY <1>7 DEF OtherGrab, HeldIsSent, LateGrab, DownloadFails, Begins, RunOK, Run
  <2> QED
    BY <2>1, <2>2, <2>3, RoundStays
<1>8. CASE ClearCache \/ Tick \/ UNCHANGED vars
           \/ \E t \in Titles : EntryEnds(t) \/ PurgePause(t) \/ ArrImports(t) \/ LeavesQueue(t)
  <2>1. UNCHANGED <<run, rows, checks, round, seen>>
    BY <1>8 DEF ClearCache, Tick, EntryEnds, PurgePause, ArrImports, LeavesQueue, vars,
       books, observed, setup
  <2> QED
    BY <2>1 DEF RoundInv
<1> QED
  BY <1>2, <1>3, <1>4, <1>5, <1>6, <1>7, <1>8, Zenon DEF Next, UserStep, WorldStep

----------------------------------------------------------------------------
(* The theorems *)

CheckInv == TypeOK /\ RunOK /\ NewsInv /\ OutInv /\ RoundInv

\* The whole invariant holds at the start ...
LEMMA CheckInit ==
    ASSUME Init
    PROVE  CheckInv
<1>1. TypeOK /\ RunOK
  BY RunInit DEF RunInv, RunOK, TypeOK
<1>2. NewsInv
  BY DEF Init, NewsInv, Idle, Steps
<1>3. OutInv
  BY DEF Init, OutInv
<1>4. RoundInv
  BY BoundsAssumption DEF Init, RoundInv, Idle, Steps, Rounds
<1> QED
  BY <1>1, <1>2, <1>3, <1>4 DEF CheckInv

\* ... and every step keeps it ...
LEMMA CheckStep ==
    ASSUME CheckInv, [Next]_vars
    PROVE  CheckInv'
<1>1. RunOK'
  BY RunKept DEF CheckInv
<1>2. TypeOK'
  BY <1>1, BooksKept DEF CheckInv, RunOK, RunInv
<1> QED
  BY <1>1, <1>2, NewsKept, OutKept, RoundKept DEF CheckInv

\* ... so it holds always.
LEMMA CheckAlways == Spec => []CheckInv
  BY CheckInit, CheckStep, PTL DEF Spec

\* Every variable of the checked run keeps to its type, the slots it holds never
\* fall below zero.
THEOREM CheckTypes == Spec => []TypeOK
<1>1. CheckInv => TypeOK
  BY DEF CheckInv
<1> QED
  BY <1>1, CheckAlways, PTL

\* A run gives back exactly the rate slots of titles whose search never ran
\* (run_checked).
THEOREM SlotsAreSearches == Spec => []SlotsMatchSearches
<1>1. CheckInv => SlotsMatchSearches
  BY DEF CheckInv, RunOK
<1> QED
  BY <1>1, CheckAlways, PTL

\* In a dry-run round no title is checked twice, and no row is of a round before
\* the one its title was loaded in, across resets and purges during a run.
THEOREM RoundsAreOnce == Spec => []EachRoundOnce
<1>1. CheckInv => EachRoundOnce
  <2> SUFFICES ASSUME CheckInv
               PROVE  EachRoundOnce
    OBVIOUS
  <2>1. \A t \in Titles : checks[<<t, round>>] <= 1
    BY DEF CheckInv, RoundInv
  <2>2. ASSUME NEW row \in rows
        PROVE  seen[row[1]] >= row[2]
    <3>1. PICK t \in Titles, r \in Rounds : row = <<t, r>>
      BY <2>2 DEF CheckInv, TypeOK
    <3>2. r <= seen[t]
      BY <3>1 DEF CheckInv, RoundInv
    <3>3. r \in Nat /\ seen[t] \in Nat
      BY DEF CheckInv, TypeOK, Rounds
    <3> QED
      BY <3>1, <3>2, <3>3
  <2> QED
    BY <2>1, <2>2 DEF EachRoundOnce
<1> QED
  BY <1>1, CheckAlways, PTL

\* Only a POST gives a title's check one of its outcomes.
LEMMA GrabIsPost ==
    ASSUME RunOK, [Next]_vars, run.outcome = "none", run'.outcome \in Posted
    PROVE  Post
<1>1. Posted = {"grabbed", "grab_uncertain", "grab_failed"} /\ Idle.outcome = "none"
  BY DEF Posted, Idle
<1>2. CASE RunStep
  <2>1. ASSUME Load \/ ReadQueue \/ Search
        PROVE  FALSE
    BY <1>1, <2>1 DEF Load, ReadQueue, Search, EndsUnsearched, RunOK, Run
  <2>2. ASSUME Parse
        PROVE  FALSE
    <3>1. \/ Ends("would_grab")
          \/ Ends("error")
          \/ run' = [run EXCEPT !.pc = "reread", !.releases = 0, !.unparsed = FALSE]
          \/ run' = [run EXCEPT !.pc = "health", !.releases = 0]
          \/ \E unparsed : run' = [run EXCEPT !.releases = @ - 1, !.unparsed = unparsed]
      BY <2>2, Zenon DEF Parse
    <3> QED
      BY <1>1, <3>1 DEF Ends, RunOK, Run
  <2>3. ASSUME ReadHealth \/ Reread
        PROVE  FALSE
    BY <1>1, <2>3 DEF ReadHealth, Reread, Ends, RunOK, Run
  <2>4. ASSUME ReadWholeQueue
        PROVE  FALSE
    <3>1. \/ run' = Idle
          \/ run' = [run EXCEPT !.pc = "collect"]
          \/ \E S : run' = [run EXCEPT !.pc = "collect", !.queued = S]
      BY <2>4, Zenon DEF ReadWholeQueue
    <3> QED
      BY <1>1, <3>1 DEF RunOK, Run
  <2>5. ASSUME NextTitle
        PROVE  FALSE
    <3>1. run' = Idle \/ \E t \in run.todo : run' = [run EXCEPT !.pc = "load", !.title = t,
                                                              !.todo = @ \ {t}, !.slots = @ + 1]
      BY <2>5, Zenon DEF NextTitle
    <3> QED
      BY <1>1, <3>1 DEF RunOK, Run
  <2>6. ASSUME Stop \/ StoreFails
        PROVE  FALSE
    BY <1>1, <2>6 DEF Stop, StoreFails
  <2>7. ASSUME Collect
        PROVE  FALSE
    BY <1>1, <2>7 DEF Collect, RunOK, Run
  <2>8. ASSUME Store
        PROVE  FALSE
    BY <1>1, <2>8 DEF Store, Onwards, RunOK, Run
  <2> QED
    BY <1>2, <2>1, <2>2, <2>3, <2>4, <2>5, <2>6, <2>7, <2>8, Zenon DEF RunStep
<1>3. ASSUME BeginScheduled \/ BeginForced
      PROVE  FALSE
  BY <1>1, <1>3 DEF BeginScheduled, BeginForced, Begin, Idle
<1>4. ASSUME NEW t \in Titles, OtherGrab(t) \/ HeldIsSent(t) \/ LateGrab(t) \/ DownloadFails(t)
      PROVE  FALSE
  BY <1>1, <1>4 DEF OtherGrab, HeldIsSent, LateGrab, DownloadFails, Begins, RunOK, Run
<1>5. ASSUME Crash \/ UNCHANGED run
      PROVE  FALSE
  BY <1>1, <1>5 DEF Crash
<1>6. ASSUME \/ ClearCache \/ ResetDryRun \/ SwitchMode \/ PurgeLog \/ Tick \/ UNCHANGED vars
             \/ \E t \in Titles : EntryEnds(t) \/ PurgePause(t) \/ ArrImports(t) \/ LeavesQueue(t)
      PROVE  UNCHANGED run
  BY <1>6 DEF ClearCache, ResetDryRun, SwitchMode, PurgeLog, Tick, EntryEnds, PurgePause, ArrImports,
     LeavesQueue, vars
<1> QED
  BY <1>2, <1>3, <1>4, <1>5, <1>6, Zenon DEF Next, UserStep, WorldStep

\* No grab of a title follows a download of it that began before the two last
\* reads (changed_meanwhile), in whatever order *arr queues and imports.
THEOREM DownloadsAreNotDoubled == Spec => NeverDoublesDownload
<1> DEFINE Kept == \A t \in Titles : Grab(t) => run.news # "early"
<1>1. ASSUME CheckInv, [Next]_vars
      PROVE  [Kept]_vars
  <2>1. ASSUME NEW t \in Titles, Grab(t)
        PROVE  run.news # "early"
    <3>1. Post
      BY <1>1, <2>1, GrabIsPost DEF CheckInv, Grab
    <3> QED
      BY <1>1, <3>1 DEF Post, CheckInv, NewsInv
  <2> QED
    BY <2>1
<1> QED
  BY <1>1, CheckAlways, PTL DEF Spec, NeverDoublesDownload

\* No title with a grab that is, or may be, out is grabbed again, unless a force
\* run ignores the block.
THEOREM UnclearGrabsBlock == Spec => UnclearGrabBlocks
<1> DEFINE Kept == \A t \in Titles : Grab(t) => t \notin out \/ run.force
<1>1. ASSUME CheckInv, [Next]_vars
      PROVE  [Kept]_vars
  <2>1. ASSUME NEW t \in Titles, Grab(t)
        PROVE  t \notin out \/ run.force
    <3>1. Post
      BY <1>1, <2>1, GrabIsPost DEF CheckInv, Grab
    <3>2. run.mode = "active" /\ run.outcome = "none" /\ run.title = t
      BY <1>1, <2>1, <3>1 DEF Post, CheckInv, RunOK, RunFits, Grab
    <3> QED
      BY <1>1, <3>2 DEF CheckInv, OutInv
  <2> QED
    BY <2>1
<1> QED
  BY <1>1, CheckAlways, PTL DEF Spec, UnclearGrabBlocks
=============================================================================
