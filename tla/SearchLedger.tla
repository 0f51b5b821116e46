---------------------------- MODULE SearchLedger ----------------------------
(***************************************************************************)
(* The books missingarr keeps about the searches of one instance: runs and *)
(* their items (search_history, search_history_items), the retry cache     *)
(* (searched_items), the in-memory list of results that could not be       *)
(* stored (InstanceRuntime.unsaved_submissions), the search skills that    *)
(* write them, the verification pass that settles them, the user who       *)
(* clears them, *arr which runs the commands, and a crash of the process.  *)
(*                                                                         *)
(* One step is one database transaction, one HTTP exchange or one access   *)
(* to the shared list.  Everything between two such steps is local to its  *)
(* thread.                                                                 *)
(***************************************************************************)
EXTENDS Integers, Sequences, FiniteSets, Verification

CONSTANTS
    Skills,       \* the search skills that may run at the same time
    Keys,         \* cache keys
    KeyOwner,     \* the skill that searches under a key (keys are prefixed)
    NoKey,        \* the empty cache_key of an item that wrote no entry
    Modes,        \* search paths of a run: "command", "checked" (active)
    Forces,       \* whether a run is a force run: subset of BOOLEAN
    MaxRuns,      \* bound: runs started
    MaxAttempts,  \* bound: titles sent, tried or checked
    MaxItems,     \* bound: history items, enough to record a title twice
    MaxFaults,    \* bound: refused writes, lost answers, outages, aborts
    MaxCrashes    \* bound: crashes of the process

ASSUME SkillsAssumption == Skills # {}
ASSUME KeysAssumption ==
    /\ NoKey \notin Keys
    /\ KeyOwner \in [Keys -> Skills]
ASSUME ModesAssumption == Modes \subseteq {"command", "checked"} /\ Forces \subseteq BOOLEAN
ASSUME BoundsAssumption ==
    /\ MaxRuns \in Nat
    /\ MaxAttempts \in Nat
    /\ MaxItems \in Nat
    /\ MaxFaults \in Nat
    /\ MaxCrashes \in Nat

VARIABLES
    runs,      \* run id -> status
    nextRun,
    items,     \* item id -> row; live is FALSE once the row was deleted
    nextItem,
    cache,     \* cache key -> id of the item that wrote the entry, 0: no entry
    lapsed,    \* keys whose entry no longer blocks (window over, profile changed)
    unsaved,   \* results in memory that the database refused
    searcher,  \* skill -> what its thread is doing
    verify,    \* what the verification pass is doing
    arr,       \* command id -> the command in *arr
    attempts,  \* titles tried so far; an accepted command is named after its try
    faults,
    crashes,
    lost,      \* observation: commands nobody in missingarr knows any more
    excused    \* observation: keys whose protection was lifted on purpose

dbVars     == <<runs, nextRun, items, nextItem, cache, lapsed>>
budgetVars == <<faults, crashes>>
ghostVars  == <<lost, excused>>
vars == <<dbVars, unsaved, searcher, verify, arr, attempts, budgetVars, ghostVars>>

-----------------------------------------------------------------------------
(* Types and empty values *)

RunId  == 1..MaxRuns
ItemId == 1..MaxItems
CmdId  == 1..MaxAttempts     \* 0 stands for a missing command id

RunStatuses == SettledStatuses \cup {"none", "running", "pending", "error", "deleted"}

Item == [run : RunId \cup {0}, key : Keys \cup {NoKey}, cmd : CmdId \cup {0},
         status : ItemStatuses \cup {"none"}, age : {"young", "due", "late"},
         live : BOOLEAN]

NoItem == [run |-> 0, key |-> NoKey, cmd |-> 0, status |-> "none",
           age |-> "young", live |-> FALSE]

(***************************************************************************)
(* The result of one title: a command with or without an id, a submission  *)
(* *arr refused, or an outcome of the checked search.  "uncertain" is a    *)
(* grab without a clear answer, "skipped" a title that changed meanwhile.  *)
(***************************************************************************)
ResultStatuses == {"none", "submitted", "expired", "failed", "grabbed",
                   "no_hit", "uncertain", "skipped"}
Result   == [key : Keys \cup {NoKey}, cmd : CmdId \cup {0}, status : ResultStatuses]
NoResult == [key |-> NoKey, cmd |-> 0, status |-> "none"]

\* Results the code keeps in memory when the database refuses them.
Kept(result) == result.status \in {"submitted", "expired", "grabbed", "uncertain"}

Unsaved == [run : RunId, result : {result \in Result : Kept(result)}]

SearcherPc == {"idle", "waiting", "saving", "dropping", "collect", "hits", "loop", "storing", "broken"}

\* What a run has seen so far: a title that went well, one that did not, an
\* abort, a result that could not be stored.
Marks == {"sent", "failed", "stopped", "unstored"}

Searcher == [pc : SearcherPc, run : RunId \cup {0}, mode : {"command", "checked"},
             force : BOOLEAN, hits : SUBSET Keys, todo : SUBSET Keys, result : Result,
             marks : SUBSET Marks]

IdleSearcher == [pc |-> "idle", run |-> 0, mode |-> "command", force |-> FALSE,
                 hits |-> {}, todo |-> {}, result |-> NoResult, marks |-> {}]

VerifyPc == {"idle", "asking", "resolving", "expiring", "listing", "settling"}

Verify == [pc : VerifyPc, batch : SUBSET ItemId, answered : SUBSET ItemId,
           item : ItemId \cup {0}, verdict : ItemStatuses \cup {"none"},
           todo : SUBSET RunId]

IdleVerify == [pc |-> "idle", batch |-> {}, answered |-> {}, item |-> 0,
               verdict |-> "none", todo |-> {}]

Command   == [key : Keys \cup {NoKey}, state : {"none", "open", "completed", "failed", "forgotten"}]
NoCommand == [key |-> NoKey, state |-> "none"]

TypeOK ==
    /\ runs \in [RunId -> RunStatuses]
    /\ nextRun \in 1..(MaxRuns + 1)
    /\ items \in [ItemId -> Item]
    /\ nextItem \in 1..(MaxItems + 1)
    /\ cache \in [Keys -> ItemId \cup {0}]
    /\ lapsed \in SUBSET Keys
    /\ unsaved \in Seq(Unsaved)
    /\ searcher \in [Skills -> Searcher]
    /\ verify \in Verify
    /\ arr \in [CmdId -> Command]
    /\ attempts \in 0..MaxAttempts
    /\ faults \in 0..MaxFaults
    /\ crashes \in 0..MaxCrashes
    /\ lost \in SUBSET CmdId
    /\ excused \in SUBSET Keys

Init ==
    /\ runs = [r \in RunId |-> "none"]
    /\ nextRun = 1
    /\ items = [i \in ItemId |-> NoItem]
    /\ nextItem = 1
    /\ cache = [k \in Keys |-> 0]
    /\ lapsed = {}
    /\ unsaved = <<>>
    /\ searcher = [s \in Skills |-> IdleSearcher]
    /\ verify = IdleVerify
    /\ arr = [c \in CmdId |-> NoCommand]
    /\ attempts = 0
    /\ faults = 0
    /\ crashes = 0
    /\ lost = {}
    /\ excused = {}

-----------------------------------------------------------------------------
(* Reading the books *)

LiveItems        == {i \in ItemId : items[i].live}
ItemsOf(r)       == {i \in LiveItems : items[i].run = r}
StatusesOf(r)    == {items[i].status : i \in ItemsOf(r)}
OpenItems        == {i \in LiveItems : items[i].status = "submitted"}
AwaitsVerdict(r) == \E i \in OpenItems : items[i].run = r

\* Which results write a cache entry: an accepted command with an id, and
\* every checked-search outcome except a plain failure.
Caches(result) == result.status \in {"submitted", "grabbed", "no_hit", "uncertain"}

\* A grab without a clear answer is filed as failed, with its cache key.
ItemStatus(result) == IF result.status = "uncertain" THEN "failed" ELSE result.status

CacheHits   == {k \in Keys : cache[k] # 0 /\ k \notin lapsed}
\* Mutant: unsaved_cache_keys blocks nothing.
NoUnsavedHits == {}

UnsavedHits == {k \in Keys : \E n \in DOMAIN unsaved :
                    unsaved[n].result.key = k /\ Caches(unsaved[n].result)}

\* Mutant: unsaved_lock is not taken.
NoLock == TRUE

\* The unsaved list is locked while a starting run works through it.
UnsavedFree == \A t \in Skills : searcher[t].pc \notin {"saving", "dropping"}

\* Database transactions and HTTP exchanges that go wrong, all together.
Fault == /\ faults < MaxFaults
         /\ faults' = faults + 1

NewItem(r, result) ==
    [run |-> r, key |-> IF Caches(result) THEN result.key ELSE NoKey,
     cmd |-> result.cmd, status |-> ItemStatus(result), age |-> "young", live |-> TRUE]

(***************************************************************************)
(* record_submission, record_failed_submission, record_checked: the item   *)
(* and its cache entry in one transaction.  The entry names the item.      *)
(***************************************************************************)
Record(r, result) ==
    /\ nextItem \in ItemId
    /\ items' = [items EXCEPT ![nextItem] = NewItem(r, result)]
    /\ nextItem' = nextItem + 1
    /\ IF Caches(result)
       THEN /\ cache' = [cache EXCEPT ![result.key] = nextItem]
            /\ lapsed' = lapsed \ {result.key}
       ELSE UNCHANGED <<cache, lapsed>>
    /\ UNCHANGED <<runs, nextRun>>

-----------------------------------------------------------------------------
(* A search run: start, store what earlier runs could not, collect *)

StartRun(s) ==
    /\ searcher[s].pc = "idle"
    /\ nextRun \in RunId
    /\ \E mode \in Modes, force \in Forces :
        searcher' = [searcher EXCEPT ![s] =
            [IdleSearcher EXCEPT !.pc = "waiting", !.run = nextRun, !.mode = mode, !.force = force]]
    /\ runs' = [runs EXCEPT ![nextRun] = "running"]
    /\ nextRun' = nextRun + 1
    /\ UNCHANGED <<items, nextItem, cache, lapsed, unsaved, verify, arr, attempts, budgetVars, ghostVars>>

LockUnsaved(s) ==
    /\ searcher[s].pc = "waiting"
    /\ UnsavedFree
    /\ searcher' = [searcher EXCEPT ![s] = [searcher[s] EXCEPT !.pc = "saving"]]
    /\ UNCHANGED <<dbVars, unsaved, verify, arr, attempts, budgetVars, ghostVars>>

\* The run an unsaved result is filed under: its own, or the current one
\* when its own was deleted meanwhile (the foreign key refuses the insert).
FiledUnder(s, entry) == IF runs[entry.run] = "deleted" THEN searcher[s].run ELSE entry.run

StoreUnsaved(s) ==
    /\ searcher[s].pc = "saving"
    /\ unsaved # <<>>
    /\ Record(FiledUnder(s, Head(unsaved)), Head(unsaved).result)
    /\ searcher' = [searcher EXCEPT ![s] = [searcher[s] EXCEPT !.pc = "dropping"]]
    /\ UNCHANGED <<unsaved, verify, arr, attempts, budgetVars, ghostVars>>

\* Mutant: the stored entry stays in the list.
Rest(list) == list
Remaining(list) == Tail(list)

\* The stored entry leaves the list only after its transaction.
DropStored(s) ==
    /\ searcher[s].pc = "dropping"
    /\ unsaved # <<>>
    /\ unsaved' = Remaining(unsaved)
    /\ searcher' = [searcher EXCEPT ![s] = [searcher[s] EXCEPT !.pc = "saving"]]
    /\ UNCHANGED <<dbVars, verify, arr, attempts, budgetVars, ghostVars>>

UnsavedDone(s) ==
    /\ searcher[s].pc = "saving"
    /\ IF unsaved = <<>> THEN UNCHANGED faults ELSE Fault
    /\ searcher' = [searcher EXCEPT ![s] = [searcher[s] EXCEPT !.pc = "collect"]]
    /\ UNCHANGED <<dbVars, unsaved, verify, arr, attempts, crashes, ghostVars>>

\* lookup_many: the keys the cache blocks; a force run asks nothing.
ReadCache(s) ==
    /\ searcher[s].pc = "collect"
    /\ searcher' = [searcher EXCEPT ![s] = [searcher[s] EXCEPT !.pc = "hits",
                                                 !.hits = IF searcher[s].force THEN {} ELSE CacheHits]]
    /\ UNCHANGED <<dbVars, unsaved, verify, arr, attempts, budgetVars, ghostVars>>

\* unsaved_cache_keys is read after the cache; the candidates are some of
\* the skill's keys that neither blocks.
TakeCandidates(s) ==
    /\ searcher[s].pc = "hits"
    /\ UnsavedFree
    /\ LET hits == searcher[s].hits \cup (IF searcher[s].force THEN {} ELSE UnsavedHits)
           free == {k \in Keys : KeyOwner[k] = s /\ k \notin hits}
       IN \E todo \in SUBSET free :
            searcher' = [searcher EXCEPT ![s] = [searcher[s] EXCEPT !.pc = "loop", !.hits = {}, !.todo = todo]]
    /\ UNCHANGED <<dbVars, unsaved, verify, arr, attempts, budgetVars, ghostVars>>

\* Reading the wanted list, the profiles or every upgrade source failed.
CollectFails(s) ==
    /\ searcher[s].pc = "collect"
    /\ Fault
    /\ searcher' = [searcher EXCEPT ![s] = [searcher[s] EXCEPT !.pc = "broken"]]
    /\ UNCHANGED <<dbVars, unsaved, verify, arr, attempts, crashes, ghostVars>>

-----------------------------------------------------------------------------
(* One title: submit_candidates (command) and run_checked (active) *)

Working(s, k, mode) ==
    /\ searcher[s].pc = "loop"
    /\ searcher[s].mode = mode
    /\ k \in searcher[s].todo
    /\ attempts < MaxAttempts
    /\ attempts' = attempts + 1

\* The title leaves the list and waits to be stored.
Holding(s, k, status, cmd, mark) ==
    searcher' = [searcher EXCEPT ![s] = [searcher[s] EXCEPT
        !.pc = "storing",
        !.todo = @ \ {k},
        !.result = [key |-> k, cmd |-> cmd, status |-> status],
        !.marks = @ \cup {mark}]]

ArrAccepts(k) == arr' = [arr EXCEPT ![attempts + 1] = [key |-> k, state |-> "open"]]

\* *arr accepted the command and named it.
Send(s, k) ==
    /\ Working(s, k, "command")
    /\ ArrAccepts(k)
    /\ Holding(s, k, "submitted", attempts + 1, "sent")
    /\ excused' = IF searcher[s].force THEN excused \cup {k} ELSE excused
    /\ UNCHANGED <<dbVars, unsaved, verify, budgetVars, lost>>

\* *arr accepted the command but returned no id for it.
SendWithoutId(s, k) ==
    /\ Working(s, k, "command")
    /\ Holding(s, k, "expired", 0, "sent")
    /\ UNCHANGED <<dbVars, unsaved, verify, arr, budgetVars, ghostVars>>

\* *arr refused the command, or was not reached.
SendRefused(s, k) ==
    /\ Working(s, k, "command")
    /\ Holding(s, k, "failed", 0, "failed")
    /\ UNCHANGED <<dbVars, unsaved, verify, arr, budgetVars, ghostVars>>

\* *arr accepted the command, its answer got lost: the code takes every
\* exception of the POST for a refusal.
SendAnswerLost(s, k) ==
    /\ Working(s, k, "command")
    /\ Fault
    /\ ArrAccepts(k)
    /\ Holding(s, k, "failed", 0, "failed")
    /\ lost' = lost \cup {attempts + 1}
    /\ UNCHANGED <<dbVars, unsaved, verify, crashes, excused>>

\* A checked title; a skipped one counts as handled and writes no item.
Check(s, k) ==
    /\ Working(s, k, "checked")
    /\ \E status \in {"grabbed", "no_hit", "failed", "uncertain", "skipped"} :
        Holding(s, k, status, 0, IF status \in {"failed", "uncertain"} THEN "failed" ELSE "sent")
    /\ UNCHANGED <<dbVars, unsaved, verify, arr, budgetVars, ghostVars>>

\* The result and, unless the title was skipped, its cache entry are stored.
StoreResult(s) ==
    /\ searcher[s].pc = "storing"
    /\ IF searcher[s].result.status = "skipped"
       THEN UNCHANGED dbVars
       ELSE Record(searcher[s].run, searcher[s].result)
    /\ searcher' = [searcher EXCEPT ![s] = [searcher[s] EXCEPT !.pc = "loop", !.result = NoResult]]
    /\ UNCHANGED <<unsaved, verify, arr, attempts, budgetVars, ghostVars>>

\* Mutant: a sent command the database refused is only logged.
LoggedOnly(s) == UNCHANGED unsaved

KeptInMemory(s) ==
    /\ UnsavedFree
    /\ unsaved' = Append(unsaved, [run |-> searcher[s].run, result |-> searcher[s].result])

(***************************************************************************)
(* The database refuses the write.  Something *arr may act on is kept in   *)
(* memory and the run stops; a refused submission is only logged; anything *)
(* else the checked search could not store stops the run as well.          *)
(***************************************************************************)
StoreResultFails(s) ==
    LET result == searcher[s].result
        stops  == Kept(result) \/ searcher[s].mode = "checked"
    IN /\ searcher[s].pc = "storing"
       /\ Fault
       /\ IF Kept(result) THEN KeptInMemory(s) ELSE UNCHANGED unsaved
       /\ searcher' = [searcher EXCEPT ![s] = [searcher[s] EXCEPT
            !.pc = "loop",
            !.result = NoResult,
            !.todo = IF stops THEN {} ELSE @,
            !.marks = IF stops THEN @ \cup {"unstored"} ELSE @]]
       /\ UNCHANGED <<dbVars, verify, arr, attempts, crashes, ghostVars>>

\* An abort, between two titles or inside a checked one before its grab.
StopEarly(s) ==
    /\ searcher[s].pc = "loop"
    /\ searcher[s].todo # {}
    /\ searcher' = [searcher EXCEPT ![s] = [searcher[s] EXCEPT !.todo = {}, !.marks = @ \cup {"stopped"}]]
    /\ UNCHANGED <<dbVars, unsaved, verify, arr, attempts, budgetVars, ghostVars>>

\* The rate cap is reached, or the time budget of a checked run is used up.
CapReached(s) ==
    /\ searcher[s].pc = "loop"
    /\ searcher[s].todo # {}
    /\ searcher' = [searcher EXCEPT ![s] = [searcher[s] EXCEPT !.todo = {}]]
    /\ UNCHANGED <<dbVars, unsaved, verify, arr, attempts, budgetVars, ghostVars>>

-----------------------------------------------------------------------------
(* Closing a run *)

\* finish_search_run: every submission failed, stopped before sending
\* anything, or a sent command could not be stored.
EndsInError(s) ==
    \/ "unstored" \in searcher[s].marks
    \/ "sent" \notin searcher[s].marks /\ searcher[s].marks # {}

\* Mutant: a run that went well is a success whatever became of its commands.
PlainStatus(s) == IF EndsInError(s) THEN "error" ELSE "success"

\* finish_run derives the status of a run that went well from its items.
ClosingStatus(s) ==
    IF EndsInError(s) THEN "error" ELSE AggregateRunStatus(StatusesOf(searcher[s].run))

CloseRun(s) ==
    /\ searcher[s].pc = "loop"
    /\ searcher[s].todo = {}
    /\ runs' = [runs EXCEPT ![searcher[s].run] = ClosingStatus(s)]
    /\ searcher' = [searcher EXCEPT ![s] = IdleSearcher]
    /\ UNCHANGED <<nextRun, items, nextItem, cache, lapsed, unsaved, verify, arr, attempts, budgetVars, ghostVars>>

CloseRunFails(s) ==
    /\ searcher[s].pc = "loop"
    /\ searcher[s].todo = {}
    /\ Fault
    /\ searcher' = [searcher EXCEPT ![s] = [searcher[s] EXCEPT !.pc = "broken"]]
    /\ UNCHANGED <<dbVars, unsaved, verify, arr, attempts, crashes, ghostVars>>

\* The except branch of execute; it may fail too, and the row stays running.
CloseBroken(s) ==
    /\ searcher[s].pc = "broken"
    /\ \/ /\ runs' = [runs EXCEPT ![searcher[s].run] = "error"]
          /\ UNCHANGED faults
       \/ /\ Fault
          /\ UNCHANGED runs
    /\ searcher' = [searcher EXCEPT ![s] = IdleSearcher]
    /\ UNCHANGED <<nextRun, items, nextItem, cache, lapsed, unsaved, verify, arr, attempts, crashes, ghostVars>>

SearchStep(s) ==
    \/ StartRun(s) \/ LockUnsaved(s) \/ StoreUnsaved(s) \/ DropStored(s) \/ UnsavedDone(s)
    \/ ReadCache(s) \/ TakeCandidates(s) \/ CollectFails(s)
    \/ \E k \in Keys : \/ Send(s, k) \/ SendWithoutId(s, k) \/ SendRefused(s, k)
                       \/ SendAnswerLost(s, k) \/ Check(s, k)
    \/ StoreResult(s) \/ StoreResultFails(s) \/ StopEarly(s) \/ CapReached(s)
    \/ CloseRun(s) \/ CloseRunFails(s) \/ CloseBroken(s)

-----------------------------------------------------------------------------
(* The verification pass: ask, resolve, mark, expire, settle *)

verifyFrame == <<unsaved, searcher, arr, attempts, crashes, ghostVars>>

\* get_pending_items; fewer than MAX_PER_RUN items are open here.
VerifyStart ==
    /\ verify.pc = "idle"
    /\ verify' = [IdleVerify EXCEPT !.pc = "asking", !.batch = OpenItems]
    /\ UNCHANGED <<dbVars, faults, verifyFrame>>

\* Mutant: an answer without a verdict leaves no mark.
NothingCounts(answer) == FALSE

\* Only *arr's own word on the command counts as a check.
CountsAsCheck(answer) == answer = "open"

\* GET /command/{id}
VerifyAsk(i) ==
    /\ verify.pc = "asking"
    /\ i \in verify.batch
    /\ \E answer \in {arr[items[i].cmd].state, "unreachable"} :
        LET verdict == MapCommandStatus(answer)
        IN /\ IF answer = "unreachable" THEN Fault ELSE UNCHANGED faults
           /\ verify' = IF verdict = "submitted"
                THEN [verify EXCEPT !.batch = @ \ {i},
                                    !.answered = IF CountsAsCheck(answer) THEN @ \cup {i} ELSE @]
                ELSE [verify EXCEPT !.pc = "resolving", !.item = i, !.verdict = verdict]
    /\ UNCHANGED <<dbVars, verifyFrame>>

ReleasesNothing(i, verdict) == FALSE                                \* mutant

\* Mutant: the entry is released whoever wrote it.
ReleasesAnyEntry(i, verdict) == verdict = "failed" /\ items[i].key # NoKey

(***************************************************************************)
(* resolve_item: the verdict and, for a failed command, the release of its *)
(* key in one transaction; only an entry this item still owns is deleted.  *)
(***************************************************************************)
Releases(i, verdict) ==
    /\ verdict = "failed"
    /\ items[i].key # NoKey
    /\ cache[items[i].key] = i

VerifyResolve ==
    LET i == verify.item IN
    /\ verify.pc = "resolving"
    /\ items' = [items EXCEPT ![i] = [items[i] EXCEPT !.status = verify.verdict]]
    /\ IF Releases(i, verify.verdict)
       THEN /\ cache' = [cache EXCEPT ![items[i].key] = 0]
            /\ lapsed' = lapsed \ {items[i].key}
       ELSE UNCHANGED <<cache, lapsed>>
    /\ verify' = [verify EXCEPT !.pc = "asking", !.batch = @ \ {i}, !.item = 0, !.verdict = "none"]
    /\ UNCHANGED <<runs, nextRun, nextItem, faults, verifyFrame>>

\* An abort ends the asking, the rest of the pass still runs.
VerifyStopped ==
    /\ verify.pc = "asking"
    /\ verify.batch # {}
    /\ Fault
    /\ verify' = [verify EXCEPT !.batch = {}]
    /\ UNCHANGED <<dbVars, verifyFrame>>

\* mark_checked: an item answered after its 24 hours may be given up on.
VerifyMark ==
    /\ verify.pc = "asking"
    /\ verify.batch = {}
    /\ items' = [i \in ItemId |->
         IF i \in verify.answered /\ items[i].age = "due" THEN [items[i] EXCEPT !.age = "late"]
                                                           ELSE items[i]]
    /\ verify' = [verify EXCEPT !.pc = "expiring", !.answered = {}]
    /\ UNCHANGED <<runs, nextRun, nextItem, cache, lapsed, faults, verifyFrame>>

\* expire_stale_items
VerifyExpire ==
    /\ verify.pc = "expiring"
    /\ items' = [i \in ItemId |->
         IF i \in OpenItems /\ items[i].age = "late" THEN [items[i] EXCEPT !.status = "expired"]
                                                     ELSE items[i]]
    /\ verify' = [verify EXCEPT !.pc = "listing"]
    /\ UNCHANGED <<runs, nextRun, nextItem, cache, lapsed, faults, verifyFrame>>

\* Mutant: only runs with a command *arr could be asked about are settled.
UnresolvedAsked == {r \in RunId : /\ runs[r] = "pending" /\ ~AwaitsVerdict(r)
                                  /\ \E i \in ItemsOf(r) : items[i].cmd # 0}

\* get_unresolved_run_ids
Unresolved == {r \in RunId : runs[r] = "pending" /\ ~AwaitsVerdict(r)}

VerifyList ==
    /\ verify.pc = "listing"
    /\ verify' = [verify EXCEPT !.pc = "settling", !.todo = Unresolved]
    /\ UNCHANGED <<dbVars, faults, verifyFrame>>

\* get_item_statuses and update_run_verification
VerifySettle(r) ==
    /\ verify.pc = "settling"
    /\ r \in verify.todo
    /\ runs' = IF runs[r] = "pending"
               THEN [runs EXCEPT ![r] = AggregateRunStatus(StatusesOf(r))]
               ELSE runs
    /\ verify' = [verify EXCEPT !.todo = @ \ {r}]
    /\ UNCHANGED <<nextRun, items, nextItem, cache, lapsed, faults, verifyFrame>>

VerifyDone ==
    /\ verify.pc = "settling"
    /\ verify.todo = {}
    /\ verify' = IdleVerify
    /\ UNCHANGED <<dbVars, faults, verifyFrame>>

\* The database refuses a step of the pass: the exception ends it.
VerifyFails ==
    /\ verify.pc # "idle"
    /\ Fault
    /\ verify' = IdleVerify
    /\ UNCHANGED <<dbVars, verifyFrame>>

VerifyStep ==
    \/ VerifyStart \/ VerifyResolve \/ VerifyMark \/ VerifyExpire \/ VerifyList \/ VerifyDone
    \/ \E i \in ItemId : VerifyAsk(i)
    \/ \E r \in RunId : VerifySettle(r)

-----------------------------------------------------------------------------
(* The user and the hourly housekeeping *)

idleFrame == <<nextRun, nextItem, unsaved, searcher, verify, arr, attempts, faults, crashes, lost>>

Finished(r) == runs[r] \in SettledStatuses \cup {"error"}

\* Open runs, and finished runs with commands awaiting a verdict, stay.
Deletable(r) ==
    /\ Finished(r)
    /\ ~AwaitsVerdict(r)

\* Deleting a run deletes its items (ON DELETE CASCADE).
DeleteRuns(gone) ==
    /\ runs' = [r \in RunId |-> IF r \in gone THEN "deleted" ELSE runs[r]]
    /\ items' = [i \in ItemId |->
         IF items[i].live /\ items[i].run \in gone THEN [items[i] EXCEPT !.live = FALSE] ELSE items[i]]
    /\ UNCHANGED <<cache, lapsed, excused, idleFrame>>

\* history.clear deletes every run it may.
ClearHistory ==
    /\ {r \in RunId : Deletable(r)} # {}
    /\ DeleteRuns({r \in RunId : Deletable(r)})

\* purge_old_runs: any of them may be past the retention.
PurgeOldRun(r) ==
    /\ Deletable(r)
    /\ DeleteRuns({r})

\* searched.clear: every title may be searched again.
ClearCache ==
    /\ cache' = [k \in Keys |-> 0]
    /\ lapsed' = {}
    /\ excused' = excused \cup {k \in Keys : cache[k] # 0}
    /\ UNCHANGED <<runs, items, idleFrame>>

\* The retry window of an entry ends, or its quality profile changed.
EntryLapses(k) ==
    /\ cache[k] # 0
    /\ k \notin lapsed
    /\ lapsed' = lapsed \cup {k}
    /\ excused' = excused \cup {k}
    /\ UNCHANGED <<runs, items, cache, idleFrame>>

\* purge_expired deletes entries outside the retry window.
PurgeEntry(k) ==
    /\ k \in lapsed
    /\ cache' = [cache EXCEPT ![k] = 0]
    /\ lapsed' = lapsed \ {k}
    /\ UNCHANGED <<runs, items, excused, idleFrame>>

UserStep ==
    \/ ClearHistory \/ ClearCache
    \/ \E r \in RunId : PurgeOldRun(r)
    \/ \E k \in Keys : EntryLapses(k) \/ PurgeEntry(k)

-----------------------------------------------------------------------------
(* The world: *arr, time, and the end of the process *)

ArrSettles(c) ==
    /\ arr[c].state = "open"
    /\ \E state \in {"completed", "failed", "forgotten"} : arr' = [arr EXCEPT ![c] = [arr[c] EXCEPT !.state = state]]
    /\ UNCHANGED <<dbVars, unsaved, searcher, verify, attempts, budgetVars, ghostVars>>

ArrForgets(c) ==
    /\ arr[c].state \in {"completed", "failed"}
    /\ arr' = [arr EXCEPT ![c] = [arr[c] EXCEPT !.state = "forgotten"]]
    /\ UNCHANGED <<dbVars, unsaved, searcher, verify, attempts, budgetVars, ghostVars>>

\* STALE_HOURS have passed since the item was created.
ItemAges(i) ==
    /\ i \in OpenItems
    /\ items[i].age = "young"
    /\ items' = [items EXCEPT ![i] = [items[i] EXCEPT !.age = "due"]]
    /\ UNCHANGED <<runs, nextRun, nextItem, cache, lapsed, unsaved, searcher, verify, arr, attempts, budgetVars, ghostVars>>

\* Commands known only to the memory of the process.
InHand   == {c \in CmdId : \E s \in Skills : searcher[s].result.cmd = c}
Buffered == {c \in CmdId : \E n \in DOMAIN unsaved : unsaved[n].result.cmd = c}

\* Mutant: whatever did not end well counts as interrupted.
NotSucceeded == {r \in RunId : runs[r] \in {"running", "error"}}

Interrupted == {r \in RunId : runs[r] = "running"}

(***************************************************************************)
(* The process dies and starts again; close_interrupted_runs closes what   *)
(* was cut off: runs with items become pending, the others an error.       *)
(***************************************************************************)
CrashRestart ==
    /\ crashes < MaxCrashes
    /\ crashes' = crashes + 1
    /\ runs' = [r \in RunId |->
         IF r \notin Interrupted THEN runs[r]
         ELSE IF ItemsOf(r) # {} THEN "pending" ELSE "error"]
    /\ unsaved' = <<>>
    /\ searcher' = [s \in Skills |-> IdleSearcher]
    /\ verify' = IdleVerify
    /\ lost' = lost \cup InHand \cup Buffered
    /\ UNCHANGED <<nextRun, items, nextItem, cache, lapsed, arr, attempts, faults, excused>>

WorldStep ==
    \/ CrashRestart
    \/ \E c \in CmdId : ArrSettles(c) \/ ArrForgets(c)
    \/ \E i \in ItemId : ItemAges(i)

Next ==
    \/ \E s \in Skills : SearchStep(s)
    \/ VerifyStep \/ VerifyStopped \/ VerifyFails
    \/ UserStep
    \/ WorldStep

Spec == Init /\ [][Next]_vars

(***************************************************************************)
(* The scheduler repeats the verification pass every two minutes whatever  *)
(* the search flags say, and time passes.  Nothing else is fair: *arr may  *)
(* never finish a command, nobody has to start a run.                      *)
(***************************************************************************)
FairSpec ==
    /\ Spec
    /\ WF_vars(VerifyStep)
    /\ \A i \in ItemId : WF_vars(ItemAges(i))

-----------------------------------------------------------------------------
(* Properties *)

\* Commands *arr accepted.
Sent == {c \in CmdId : arr[c].state # "none"}

\* A command has its item, which is not deleted while it is open.
Filed(c) == \E i \in ItemId : /\ items[i].cmd = c
                              /\ items[i].status = "submitted" => items[i].live

\* Every command *arr accepted is lost (crash, lost answer), in the hand of
\* a search, kept in memory, or has its history item; and that item is not
\* deleted before it has a verdict (_store_submission, B2, B-L2).
CommandAccounted == \A c \in Sent : c \in lost \cup InHand \cup Buffered \/ Filed(c)

\* A command is recorded once: it never has two items, nor an item while it
\* waits in memory or in a search's hand, except for the moment between its
\* transaction and its leaving the list (store_unsaved_submissions).
RecordedOnce ==
    \A i \in ItemId : items[i].cmd # 0 =>
        /\ items[i].cmd \notin InHand
        /\ items[i].cmd \in Buffered =>
              \E s \in Skills : searcher[s].pc = "dropping" /\ Head(unsaved).result.cmd = items[i].cmd
        /\ \A j \in ItemId : items[j].cmd = items[i].cmd => j = i

\* A cache entry names the item that wrote it, and never a command *arr
\* reported as failed: that one released its title (resolve_item, B3).
EntryNamesItsWriter ==
    \A k \in Keys : cache[k] # 0 =>
        LET writer == items[cache[k]]
        IN /\ writer.key = k
           /\ ~(writer.cmd # 0 /\ writer.status = "failed")

\* What the statuses of a run's items say about the run.
VerdictOf(statuses) ==
    LET done == statuses \cap DoneStatuses
        undone == statuses \ DoneStatuses
    IN CASE undone = {}                              -> "success"
         [] done # {} /\ undone # {}                 -> "partial"
         [] done = {} /\ "failed" \in undone         -> "failed"
         [] done = {} /\ undone = {"expired"}        -> "unverified"

\* A run with a verdict has no open item, and the verdict is the one its
\* items add up to, also when another run filed a result under it
\* (finish_run, update_run_verification, store_unsaved_submissions).
VerdictMatchesItems ==
    \A r \in RunId : runs[r] \in SettledStatuses =>
        /\ ~AwaitsVerdict(r)
        /\ runs[r] = VerdictOf(StatusesOf(r))

ReleasedByFailure(k) ==
    LET writer == items'[cache[k]]
    IN writer.cmd # 0 /\ writer.status = "failed"

\* A cache entry gives way only to a newer search of its title, to the
\* failure of the very command that wrote it, to the end of its window or to
\* the user: the late verdict of an older command never unblocks a title a
\* newer search holds (resolve_item, history_item_id).
EntriesStay ==
    [][\A k \in Keys : cache'[k] # cache[k] =>
          \/ cache'[k] > cache[k]
          \/ /\ cache'[k] = 0
             /\ k \in lapsed \/ ClearCache \/ ReleasedByFailure(k)]_vars

\* *arr never works on two commands for the same title at once, unless a
\* force run asked for it, the block was lifted on purpose or one of the two
\* was lost (unsaved_cache_keys: unsaved commands block like cache entries).
NoDoubleSearch ==
    \A c, d \in CmdId :
        (c # d /\ arr[c].state = "open" /\ arr[d].state = "open" /\ arr[c].key = arr[d].key) =>
            arr[c].key \in excused \/ {c, d} \cap lost # {}

\* A verdict is final: a settled or failed run and a settled item are only
\* ever deleted, whatever restarts, later runs and passes do
\* (update_run_verification, close_interrupted_runs, expire_stale_items).
VerdictsAreFinal ==
    [][/\ \A r \in RunId : runs[r] \in SettledStatuses \cup {"error"} => runs'[r] \in {runs[r], "deleted"}
       /\ \A i \in ItemId : items[i].status \in ItemVerdicts => items'[i].status = items[i].status]_vars

\* Every pending run gets its verdict, also one a restart cut off whose
\* items never passed through a verification (get_unresolved_run_ids).
PendingRunsSettle == \A r \in RunId : []<>(runs[r] # "pending")

\* Every open item gets its verdict, from *arr or by giving up on it, also
\* when *arr never finishes the command (mark_checked, expire_stale_items).
OpenItemsSettle == \A i \in ItemId : items[i].status = "submitted" ~> items[i].status # "submitted"

\* An item filed as failed without a command id stands for "a command *arr
\* did not accept" (record_failed_submission): short of a crash, whatever
\* *arr accepted is in hand, in memory or has an item of its own.
AcceptedCommandsKnown ==
    crashes = 0 => \A c \in Sent : c \in InHand \cup Buffered \/ \E i \in ItemId : items[i].cmd = c

\* "Only this command's own entry: a newer search of the same title wrote the
\* entry since and still holds it" (resolve_item): the failure of a command
\* never releases a title that a command sent later, and recorded, still holds.
NewerSearchKeepsTitle ==
    [][VerifyResolve =>
          \A k \in Keys : (cache[k] # 0 /\ cache'[k] = 0) =>
              ~\E j \in OpenItems : /\ items[j].key = k
                                    /\ items[j].cmd > items[cache[k]].cmd
                                    /\ arr[items[j].cmd].state = "open"]_vars

-----------------------------------------------------------------------------
(* SearchLedger implements CommandTracking *)

PhaseOf(c) ==
    IF \E i \in ItemId : items[i].cmd = c
    THEN LET item == items[CHOOSE i \in ItemId : items[i].cmd = c]
         IN IF item.status = "submitted" THEN "tracked" ELSE item.status
    ELSE IF c \in lost THEN "lost"
    ELSE IF c \in Sent THEN "held"
    ELSE "unsent"

Tracking == INSTANCE CommandTracking WITH
    Commands <- CmdId,
    phase    <- [c \in CmdId |-> PhaseOf(c)],
    fate     <- [c \in CmdId |-> arr[c].state]

\* Every run of the books is a run of CommandTracking: no command changes
\* its phase in a way the promise does not allow, and a verdict is never
\* anything *arr did not say.
ImplementsTracking == Tracking!Spec
=============================================================================
