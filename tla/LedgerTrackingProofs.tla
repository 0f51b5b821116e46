------------------------ MODULE LedgerTrackingProofs ------------------------
(***************************************************************************)
(* What the books say, proved for any number of skills, titles, runs and   *)
(* faults: verdicts are final and are those of the items, a cache entry    *)
(* names the item that wrote it and gives way only to that item's failure, *)
(* a command is recorded once, the ledger implements CommandTracking, and  *)
(* no title is searched twice while nobody moves results between the two   *)
(* places another search reads.                                            *)
(***************************************************************************)
EXTENDS SearchLedgerProofs

-----------------------------------------------------------------------------
(* Kinds of steps *)

\* Only the search of s does something.
Others(s) == \A t \in Skills : t # s => searcher'[t] = searcher[t]

\* A search moves on in its run and writes nothing.
Quiet(s) ==
    /\ Others(s)
    /\ searcher[s].pc \notin {"idle", "storing", "dropping"}
    /\ searcher'[s].pc \notin {"idle", "storing", "dropping"}
    /\ searcher'[s].run = searcher[s].run
    /\ searcher'[s].result = searcher[s].result
    /\ searcher[s].marks \subseteq searcher'[s].marks
    /\ UNCHANGED <<dbVars, unsaved, verify, arr, attempts, ghostVars>>

\* What a search learns from *arr about the title it tries: a command with
\* its name, or nothing it could name.
Answered(result) ==
    \/ /\ result.cmd = attempts + 1 /\ result.status = "submitted"
       /\ \E k \in Keys : ArrAccepts(k)
       /\ UNCHANGED lost
    \/ /\ result.cmd = 0 /\ result.status \notin {"submitted", "none"}
       /\ \/ UNCHANGED <<arr, lost>>
          \/ /\ \E k \in Keys : ArrAccepts(k)
             /\ lost' = lost \cup {attempts + 1}

\* A search tries a title.
Tries(s) ==
    /\ Others(s)
    /\ searcher[s].pc = "loop" /\ searcher'[s].pc = "storing"
    /\ searcher'[s].run = searcher[s].run
    /\ searcher[s].marks \subseteq searcher'[s].marks
    /\ attempts + 1 \in CmdId /\ attempts' = attempts + 1
    /\ Answered(searcher'[s].result)
    /\ UNCHANGED <<dbVars, unsaved, verify>>

\* A search ends its run, or leaves the row as it is.
Closes(s) ==
    /\ Others(s)
    /\ searcher[s].pc \in {"loop", "broken"} /\ searcher'[s] = IdleSearcher
    /\ \/ runs' = [runs EXCEPT ![searcher[s].run] = ClosingStatus(s)]
       \/ runs' = [runs EXCEPT ![searcher[s].run] = "error"]
       \/ UNCHANGED runs
    /\ UNCHANGED <<nextRun, items, nextItem, cache, lapsed, unsaved, verify, arr, attempts, ghostVars>>

\* A step of the verification pass that writes nothing.
PassMoves ==
    \/ VerifyStart \/ VerifyList \/ VerifyDone \/ VerifyStopped \/ VerifyFails
    \/ \E i \in ItemId : VerifyAsk(i)

\* Items grow older.
Ages ==
    \/ VerifyMark
    \/ \E i \in ItemId : ItemAges(i)

\* Closed runs are deleted with their items.
Deletes ==
    \E gone \in SUBSET RunId : (\A r \in gone : Deletable(r)) /\ DeleteRuns(gone)

\* Cache entries lapse or are deleted.
EntriesGo == ClearCache \/ \E k \in Keys : EntryLapses(k) \/ PurgeEntry(k)

\* A command ends in *arr or is forgotten there.
ArrMoves == \E c \in CmdId : ArrSettles(c) \/ ArrForgets(c)

\* A run starts.
Starts(s) ==
    /\ Others(s)
    /\ searcher[s].pc = "idle" /\ searcher'[s].pc = "waiting"
    /\ searcher'[s].run = nextRun /\ searcher'[s].result = NoResult /\ searcher'[s].marks = {}
    /\ nextRun \in RunId /\ nextRun' = nextRun + 1
    /\ runs' = [runs EXCEPT ![nextRun] = "running"]
    /\ UNCHANGED <<items, nextItem, cache, lapsed, unsaved, verify, arr, attempts, ghostVars>>

SameButPc(s) ==
    /\ searcher'[s].run = searcher[s].run
    /\ searcher'[s].result = searcher[s].result
    /\ searcher'[s].marks = searcher[s].marks

\* The first of the kept results is filed.
FilesKept(s) ==
    /\ Others(s) /\ SameButPc(s)
    /\ searcher[s].pc = "saving" /\ searcher'[s].pc = "dropping"
    /\ unsaved # <<>>
    /\ Record(FiledUnder(s, Head(unsaved)), Head(unsaved).result)
    /\ UNCHANGED <<unsaved, verify, arr, attempts, ghostVars>>

\* It leaves the list.
Drops(s) ==
    /\ Others(s) /\ SameButPc(s)
    /\ searcher[s].pc = "dropping" /\ searcher'[s].pc = "saving"
    /\ unsaved # <<>> /\ unsaved' = Tail(unsaved)
    /\ UNCHANGED <<dbVars, verify, arr, attempts, ghostVars>>

\* The result in hand is filed.
FilesHand(s) ==
    /\ Others(s)
    /\ searcher[s].pc = "storing" /\ searcher'[s].pc = "loop"
    /\ searcher'[s].run = searcher[s].run
    /\ searcher'[s].result = NoResult
    /\ searcher'[s].marks = searcher[s].marks
    /\ \/ searcher[s].result.status = "skipped" /\ UNCHANGED dbVars
       \/ searcher[s].result.status # "skipped" /\ Record(searcher[s].run, searcher[s].result)
    /\ UNCHANGED <<unsaved, verify, arr, attempts, ghostVars>>

\* It cannot be filed: kept in memory, or given up.
KeepsHand(s) ==
    /\ Others(s)
    /\ searcher[s].pc = "storing" /\ searcher'[s].pc = "loop"
    /\ searcher'[s].run = searcher[s].run
    /\ searcher'[s].result = NoResult
    /\ searcher[s].marks \subseteq searcher'[s].marks
    /\ \/ ~Kept(searcher[s].result) /\ UNCHANGED unsaved
       \/ /\ Kept(searcher[s].result) /\ "unstored" \in searcher'[s].marks
          /\ UnsavedFree
          /\ unsaved' = Append(unsaved, [run |-> searcher[s].run, result |-> searcher[s].result])
    /\ UNCHANGED <<dbVars, verify, arr, attempts, ghostVars>>

SearchKinds(s) ==
    \/ Starts(s) \/ Quiet(s) \/ FilesKept(s) \/ Drops(s)
    \/ Tries(s) \/ FilesHand(s) \/ KeepsHand(s) \/ Closes(s)

\* Steps of the pass, the user, time and *arr.
OtherKinds ==
    \/ PassMoves \/ VerifyResolve \/ Ages \/ VerifyExpire \/ \E r \in RunId : VerifySettle(r)
    \/ Deletes \/ EntriesGo \/ ArrMoves
    \/ UNCHANGED vars

\* Steps that write nothing.
LEMMA QuietSteps ==
    ASSUME TypeInv, NEW s \in Skills,
           \/ LockUnsaved(s) \/ UnsavedDone(s) \/ ReadCache(s) \/ TakeCandidates(s) \/ CollectFails(s)
           \/ StopEarly(s) \/ CapReached(s) \/ CloseRunFails(s)
    PROVE  Quiet(s)
<1>0. searcher \in [Skills -> Searcher] /\ searcher[s] \in Searcher
  BY DEF TypeInv, TypeOK
<1>1. CASE LockUnsaved(s)
  BY <1>0, <1>1 DEF LockUnsaved, Quiet, Others, Searcher
<1>2. CASE UnsavedDone(s)
  BY <1>0, <1>2 DEF UnsavedDone, Quiet, Others, Searcher
<1>3. CASE ReadCache(s)
  <2> DEFINE hits == IF searcher[s].force THEN {} ELSE CacheHits
  <2>1. searcher' = [searcher EXCEPT ![s] = [searcher[s] EXCEPT !.pc = "hits", !.hits = hits]]
    BY <1>3 DEF ReadCache
  <2> HIDE DEF hits
  <2> QED
    BY <1>0, <1>3, <2>1 DEF ReadCache, Quiet, Others, Searcher
<1>4. CASE TakeCandidates(s)
  <2>1. PICK todo : searcher' = [searcher EXCEPT ![s] = [searcher[s] EXCEPT !.pc = "loop", !.hits = {}, !.todo = todo]]
    BY <1>4 DEF TakeCandidates
  <2> QED
    BY <1>0, <1>4, <2>1 DEF TakeCandidates, Quiet, Others, Searcher
<1>5. CASE CollectFails(s)
  BY <1>0, <1>5 DEF CollectFails, Quiet, Others, Searcher
<1>6. CASE StopEarly(s)
  BY <1>0, <1>6 DEF StopEarly, Quiet, Others, Searcher
<1>7. CASE CapReached(s)
  BY <1>0, <1>7 DEF CapReached, Quiet, Others, Searcher
<1>8. CASE CloseRunFails(s)
  BY <1>0, <1>8 DEF CloseRunFails, Quiet, Others, Searcher
<1> QED
  BY <1>1, <1>2, <1>3, <1>4, <1>5, <1>6, <1>7, <1>8

\* Taking a title in hand.
LEMMA HoldingMoves ==
    ASSUME searcher \in [Skills -> Searcher], NEW s \in Skills, NEW k, NEW status, NEW cmd, NEW mark,
           Holding(s, k, status, cmd, mark)
    PROVE  /\ Others(s)
           /\ searcher'[s].pc = "storing"
           /\ searcher'[s].run = searcher[s].run
           /\ searcher'[s].result = [key |-> k, cmd |-> cmd, status |-> status]
           /\ searcher[s].marks \subseteq searcher'[s].marks
  BY DEF Holding, Others, Searcher

\* Every way to try a title.
LEMMA TrySteps ==
    ASSUME TypeInv, NEW s \in Skills, NEW k \in Keys,
           Send(s, k) \/ SendWithoutId(s, k) \/ SendRefused(s, k) \/ SendAnswerLost(s, k) \/ Check(s, k)
    PROVE  Tries(s)
<1>0. searcher \in [Skills -> Searcher] /\ attempts \in Nat
  BY BoundsAssumption DEF TypeInv, TypeOK
<1>a. ASSUME NEW mode, Working(s, k, mode)
      PROVE  searcher[s].pc = "loop" /\ attempts + 1 \in CmdId /\ attempts' = attempts + 1
  BY <1>0, <1>a, BoundsAssumption DEF Working, CmdId
<1>1. CASE Send(s, k)
  <2>1. Holding(s, k, "submitted", attempts + 1, "sent") /\ Working(s, k, "command")
    BY <1>1 DEF Send
  <2>2. ArrAccepts(k) /\ UNCHANGED <<dbVars, unsaved, verify, lost>>
    BY <1>1 DEF Send
  <2>3. searcher'[s].result = [key |-> k, cmd |-> attempts + 1, status |-> "submitted"]
    BY <1>0, <2>1, HoldingMoves
  <2>4. Answered(searcher'[s].result)
    BY <2>2, <2>3 DEF Answered
  <2> QED
    BY <1>0, <1>a, <2>1, <2>2, <2>4, HoldingMoves DEF Tries
<1>2. CASE SendWithoutId(s, k)
  <2>1. Holding(s, k, "expired", 0, "sent") /\ Working(s, k, "command")
    BY <1>2 DEF SendWithoutId
  <2>2. UNCHANGED <<dbVars, unsaved, verify, arr, lost>>
    BY <1>2 DEF SendWithoutId, ghostVars
  <2>3. searcher'[s].result = [key |-> k, cmd |-> 0, status |-> "expired"]
    BY <1>0, <2>1, HoldingMoves
  <2>4. Answered(searcher'[s].result)
    BY <2>2, <2>3 DEF Answered
  <2> QED
    BY <1>0, <1>a, <2>1, <2>2, <2>4, HoldingMoves DEF Tries
<1>3. CASE SendRefused(s, k)
  <2>1. Holding(s, k, "failed", 0, "failed") /\ Working(s, k, "command")
    BY <1>3 DEF SendRefused
  <2>2. UNCHANGED <<dbVars, unsaved, verify, arr, lost>>
    BY <1>3 DEF SendRefused, ghostVars
  <2>3. searcher'[s].result = [key |-> k, cmd |-> 0, status |-> "failed"]
    BY <1>0, <2>1, HoldingMoves
  <2>4. Answered(searcher'[s].result)
    BY <2>2, <2>3 DEF Answered
  <2> QED
    BY <1>0, <1>a, <2>1, <2>2, <2>4, HoldingMoves DEF Tries
<1>4. CASE SendAnswerLost(s, k)
  <2>1. Holding(s, k, "failed", 0, "failed") /\ Working(s, k, "command")
    BY <1>4 DEF SendAnswerLost
  <2>2. /\ ArrAccepts(k) /\ lost' = lost \cup {attempts + 1}
        /\ UNCHANGED <<dbVars, unsaved, verify>>
    BY <1>4 DEF SendAnswerLost
  <2>3. searcher'[s].result = [key |-> k, cmd |-> 0, status |-> "failed"]
    BY <1>0, <2>1, HoldingMoves
  <2>4. Answered(searcher'[s].result)
    BY <2>2, <2>3 DEF Answered
  <2> QED
    BY <1>0, <1>a, <2>1, <2>2, <2>4, HoldingMoves DEF Tries
<1>5. CASE Check(s, k)
  <2>1. PICK status \in {"grabbed", "no_hit", "failed", "uncertain", "skipped"} :
          Holding(s, k, status, 0, IF status \in {"failed", "uncertain"} THEN "failed" ELSE "sent")
    BY <1>5 DEF Check
  <2> DEFINE mark == IF status \in {"failed", "uncertain"} THEN "failed" ELSE "sent"
  <2>2. Holding(s, k, status, 0, mark) /\ Working(s, k, "checked")
    BY <1>5, <2>1 DEF Check
  <2> HIDE DEF mark
  <2>3. UNCHANGED <<dbVars, unsaved, verify, arr, lost>>
    BY <1>5 DEF Check, ghostVars
  <2>4. searcher'[s].result = [key |-> k, cmd |-> 0, status |-> status]
    BY <1>0, <2>2, HoldingMoves
  <2>5. Answered(searcher'[s].result)
    BY <2>3, <2>4 DEF Answered
  <2> QED
    BY <1>0, <1>a, <2>2, <2>3, <2>5, HoldingMoves DEF Tries
<1> QED
  BY <1>1, <1>2, <1>3, <1>4, <1>5

\* Every way to end a run.
LEMMA CloseSteps ==
    ASSUME TypeInv, NEW s \in Skills, CloseRun(s) \/ CloseBroken(s)
    PROVE  Closes(s)
<1>0. searcher \in [Skills -> Searcher]
  BY DEF TypeInv, TypeOK
<1> QED
  BY <1>0 DEF CloseRun, CloseBroken, Closes, Others, budgetVars, ghostVars

\* Starting a run, and moving results between hand, list and books.
LEMMA StoreSteps ==
    ASSUME TypeInv, NEW s \in Skills
    PROVE  /\ StartRun(s) => Starts(s)
           /\ StoreUnsaved(s) => FilesKept(s)
           /\ DropStored(s) => Drops(s)
           /\ StoreResult(s) => FilesHand(s)
           /\ StoreResultFails(s) => KeepsHand(s)
<1>0. searcher \in [Skills -> Searcher] /\ searcher[s] \in Searcher
  BY DEF TypeInv, TypeOK
<1>1. ASSUME StartRun(s) PROVE Starts(s)
  <2>1. PICK mode, force :
          searcher' = [searcher EXCEPT ![s] =
             [IdleSearcher EXCEPT !.pc = "waiting", !.run = nextRun, !.mode = mode, !.force = force]]
    BY <1>1 DEF StartRun
  <2>2. /\ searcher'[s].pc = "waiting" /\ searcher'[s].run = nextRun
        /\ searcher'[s].result = NoResult /\ searcher'[s].marks = {}
    BY <1>0, <2>1 DEF IdleSearcher
  <2>3. Others(s)
    BY <1>0, <2>1 DEF Others
  <2> QED
    BY <1>1, <2>2, <2>3 DEF StartRun, Starts
<1>2. ASSUME StoreUnsaved(s) PROVE FilesKept(s)
  BY <1>0, <1>2 DEF StoreUnsaved, FilesKept, Others, SameButPc, Searcher
<1>3. ASSUME DropStored(s) PROVE Drops(s)
  BY <1>0, <1>3 DEF DropStored, Drops, Remaining, Others, SameButPc, Searcher
<1>4. ASSUME StoreResult(s) PROVE FilesHand(s)
  BY <1>0, <1>4 DEF StoreResult, FilesHand, Others, Searcher
<1>5. ASSUME StoreResultFails(s) PROVE KeepsHand(s)
  <2> DEFINE stops == Kept(searcher[s].result) \/ searcher[s].mode = "checked"
             todo == IF stops THEN {} ELSE searcher[s].todo
             marks == IF stops THEN searcher[s].marks \cup {"unstored"} ELSE searcher[s].marks
  <2>1. searcher' = [searcher EXCEPT ![s] = [searcher[s] EXCEPT
          !.pc = "loop", !.result = NoResult, !.todo = todo, !.marks = marks]]
    BY <1>5 DEF StoreResultFails
  <2>2. searcher[s].marks \subseteq marks /\ (Kept(searcher[s].result) => "unstored" \in marks)
    OBVIOUS
  <2> HIDE DEF todo, marks
  <2>3. /\ Others(s) /\ searcher'[s].pc = "loop" /\ searcher'[s].run = searcher[s].run
        /\ searcher'[s].result = NoResult /\ searcher'[s].marks = marks
    BY <1>0, <2>1 DEF Others, Searcher
  <2> QED
    BY <1>5, <2>2, <2>3 DEF StoreResultFails, KeptInMemory, KeepsHand
<1> QED
  BY <1>1, <1>2, <1>3, <1>4, <1>5

\* Every step is of one of these kinds.
LEMMA StepKinds ==
    ASSUME TypeInv, [Next]_vars
    PROVE  \/ \E s \in Skills : SearchKinds(s)
           \/ CrashRestart
           \/ OtherKinds
<1>1. ASSUME NEW s \in Skills, SearchStep(s) PROVE SearchKinds(s)
  BY <1>1, QuietSteps, TrySteps, StoreSteps, CloseSteps DEF SearchStep, SearchKinds
<1>2. ClearHistory \/ (\E r \in RunId : PurgeOldRun(r)) => Deletes
  <2>1. ClearHistory => Deletes
    BY DEF ClearHistory, Deletes
  <2>2. ASSUME NEW r \in RunId, PurgeOldRun(r) PROVE Deletes
    <3>1. {r} \in SUBSET RunId /\ \A q \in {r} : Deletable(q)
      BY <2>2 DEF PurgeOldRun
    <3> QED
      BY <2>2, <3>1 DEF PurgeOldRun, Deletes
  <2> QED
    BY <2>1, <2>2
<1> QED
  BY <1>1, <1>2 DEF OtherKinds, Next, VerifyStep, UserStep, WorldStep, PassMoves, Ages, EntriesGo, ArrMoves

\* What the steps of others leave alone.
LEMMA OthersLeave ==
    ASSUME OtherKinds
    PROVE  UNCHANGED <<searcher, unsaved, attempts, lost, nextRun, nextItem>>
  BY DEF OtherKinds, PassMoves, VerifyStart, VerifyList, VerifyDone, VerifyStopped, VerifyFails, VerifyAsk,
         VerifyResolve, Ages, VerifyMark, ItemAges, VerifyExpire, VerifySettle, Deletes, DeleteRuns,
         EntriesGo, ClearCache, EntryLapses, PurgeEntry, ArrMoves, ArrSettles, ArrForgets,
         vars, dbVars, verifyFrame, idleFrame, ghostVars

\* The list of kept results as one is added or removed.
LEMMA ListMoves ==
    ASSUME unsaved \in Seq(Unsaved)
    PROVE  /\ \A entry : unsaved' = Append(unsaved, entry) =>
                \A n \in DOMAIN unsaved' :
                    \/ n \in DOMAIN unsaved /\ unsaved'[n] = unsaved[n]
                    \/ n = Len(unsaved) + 1 /\ unsaved'[n] = entry
           /\ unsaved # <<>> /\ unsaved' = Tail(unsaved) =>
                \A n \in DOMAIN unsaved' : n + 1 \in DOMAIN unsaved /\ unsaved'[n] = unsaved[n + 1]
  OBVIOUS

-----------------------------------------------------------------------------
(* The parts of the invariant *)

\* A result names a command exactly when *arr accepted one by name.
Agrees(result) == result.cmd # 0 <=> result.status = "submitted"

ResultsAgree ==
    /\ \A s \in Skills : /\ Agrees(searcher[s].result)
                         /\ searcher[s].pc = "storing" => searcher[s].result.status # "none"
    /\ \A n \in DOMAIN unsaved : Agrees(unsaved[n].result)

\* Rows are written from the first on; a row without a verdict has a
\* command, and a command's verdict is one *arr or the age of the item gave.
ItemsWritten ==
    \A i \in ItemId :
        /\ i >= nextItem => items[i] = NoItem
        /\ i < nextItem => items[i].status \in ItemStatuses
        /\ items[i].status = "submitted" => items[i].cmd # 0
        /\ items[i].cmd # 0 => items[i].status \in {"submitted", "completed", "failed", "expired"}

\* What the pass still asks about has no verdict yet.
PassAsksOpenItems ==
    /\ \A i \in verify.batch : items[i].status = "submitted"
    /\ verify.batch # {} => verify.pc \in {"asking", "resolving"}
    /\ verify.pc = "resolving" => /\ verify.item \in verify.batch
                                  /\ verify.verdict \in {"completed", "failed", "expired"}

\* A run under way is open, and nobody else's; ids are given out once.
RunsHeld ==
    /\ \A s \in Skills : searcher[s].pc # "idle" => runs[searcher[s].run] = "running"
    /\ \A s, t \in Skills :
          searcher[s].pc # "idle" /\ searcher[t].pc # "idle" /\ searcher[s].run = searcher[t].run => s = t
    /\ \A r \in RunId : r >= nextRun => runs[r] = "none"

\* A run whose result waits in memory does not end well.
UnsavedRunsFail ==
    \A n \in DOMAIN unsaved :
        /\ runs[unsaved[n].run] \in {"running", "error", "deleted"}
        /\ \A s \in Skills : searcher[s].pc # "idle" /\ searcher[s].run = unsaved[n].run =>
                              "unstored" \in searcher[s].marks

\* Results keep their command and their status.
LEMMA AgreeStep ==
    ASSUME TypeInv, ResultsAgree, [Next]_vars PROVE ResultsAgree'
<1>0. unsaved \in Seq(Unsaved)
  BY DEF TypeInv, TypeOK
<1>1. Agrees(NoResult)
  BY DEF Agrees, NoResult
<1>2. ASSUME NEW s \in Skills, SearchKinds(s) PROVE ResultsAgree'
  <2>1. CASE Starts(s) \/ Closes(s)
    BY <1>1, <2>1 DEF Starts, Closes, Others, ResultsAgree, Agrees, IdleSearcher
  <2>2. CASE Quiet(s) \/ FilesKept(s)
    BY <2>2 DEF Quiet, FilesKept, Others, SameButPc, ResultsAgree, Agrees
  <2>3. CASE Drops(s)
    BY <1>0, <2>3, ListMoves DEF Drops, Others, SameButPc, ResultsAgree, Agrees
  <2>4. CASE Tries(s)
    <3>1. Agrees(searcher'[s].result) /\ searcher'[s].result.status # "none"
      BY <2>4 DEF Tries, Answered, Agrees, CmdId
    <3> QED
      BY <2>4, <3>1 DEF Tries, Others, ResultsAgree, Agrees
  <2>5. CASE FilesHand(s)
    BY <1>1, <2>5 DEF FilesHand, Others, ResultsAgree, Agrees
  <2>6. CASE KeepsHand(s)
    <3>1. \A t \in Skills : Agrees(searcher[t].result)' /\ (searcher'[t].pc = "storing" => searcher'[t].result.status # "none")
      BY <1>1, <2>6 DEF KeepsHand, Others, ResultsAgree, Agrees
    <3>2. \A n \in DOMAIN unsaved' : Agrees(unsaved[n].result)'
      <4>1. CASE UNCHANGED unsaved
        BY <4>1 DEF ResultsAgree, Agrees
      <4>2. CASE unsaved' = Append(unsaved, [run |-> searcher[s].run, result |-> searcher[s].result])
        BY <1>0, <4>2, ListMoves DEF ResultsAgree, Agrees
      <4> QED
        BY <2>6, <4>1, <4>2 DEF KeepsHand
    <3> QED
      BY <3>1, <3>2 DEF ResultsAgree
  <2> QED
    BY <1>2, <2>1, <2>2, <2>3, <2>4, <2>5, <2>6 DEF SearchKinds
<1>3. CASE CrashRestart
  BY <1>1, <1>3 DEF CrashRestart, ResultsAgree, Agrees, IdleSearcher
<1>4. CASE OtherKinds
  BY <1>4, OthersLeave DEF ResultsAgree, Agrees
<1> QED
  BY <1>2, <1>3, <1>4, StepKinds

\* A result that is filed.
Fileable(result) ==
    /\ result \in Result
    /\ result.status \notin {"none", "skipped"}
    /\ Agrees(result)

LEMMA FiledResults ==
    ASSUME TypeInv, ResultsAgree, NEW s \in Skills
    PROVE  /\ FilesKept(s) => Fileable(Head(unsaved).result) /\ FiledUnder(s, Head(unsaved)) \in RunId \cup {0}
           /\ FilesHand(s) => \/ UNCHANGED dbVars
                              \/ /\ Fileable(searcher[s].result)
                                 /\ Record(searcher[s].run, searcher[s].result)
           /\ searcher[s].run \in RunId \cup {0}
<1>0. unsaved \in Seq(Unsaved) /\ searcher[s] \in Searcher
  BY DEF TypeInv, TypeOK
<1>1. ASSUME FilesKept(s)
      PROVE  Fileable(Head(unsaved).result) /\ FiledUnder(s, Head(unsaved)) \in RunId \cup {0}
  <2>1. Head(unsaved) \in Unsaved /\ Agrees(Head(unsaved).result)
    BY <1>0, <1>1 DEF FilesKept, ResultsAgree
  <2> QED
    BY <1>0, <2>1 DEF Unsaved, Kept, Fileable, FiledUnder, Searcher
<1>2. ASSUME FilesHand(s)
      PROVE  \/ UNCHANGED dbVars
             \/ Fileable(searcher[s].result) /\ Record(searcher[s].run, searcher[s].result)
  BY <1>0, <1>2 DEF FilesHand, Fileable, ResultsAgree, Searcher
<1> QED
  BY <1>0, <1>1, <1>2 DEF Searcher

\* Filing a result writes the first free row and no other.
LEMMA Filing ==
    ASSUME TypeInv, ItemsWritten, NEW r \in RunId \cup {0}, NEW result, Fileable(result), Record(r, result)
    PROVE  /\ nextItem \in ItemId /\ nextItem' = nextItem + 1
           /\ items[nextItem] = NoItem /\ items'[nextItem] = NewItem(r, result)
           /\ \A i \in ItemId : i # nextItem => items'[i] = items[i]
           /\ ItemsWritten'
<1>1. nextItem \in ItemId /\ nextItem' = nextItem + 1 /\ nextItem \in Int
  BY BoundsAssumption DEF Record, ItemId
<1>2. items[nextItem] = NoItem
  BY <1>1 DEF ItemsWritten
<1>3. items'[nextItem] = NewItem(r, result) /\ \A i \in ItemId : i # nextItem => items'[i] = items[i]
  BY <1>1 DEF Record, TypeInv, TypeOK
<1>4. /\ NewItem(r, result).cmd = result.cmd
      /\ NewItem(r, result).status \in ItemStatuses
      /\ NewItem(r, result).status = "submitted" <=> result.status = "submitted"
  BY DEF NewItem, ItemStatus, Fileable, Result, ResultStatuses, ItemStatuses, ItemVerdicts, DoneStatuses
<1>5. ItemsWritten'
  BY <1>1, <1>3, <1>4 DEF ItemsWritten, Fileable, Agrees, ItemId
<1> QED
  BY <1>1, <1>2, <1>3, <1>5

\* Rows keep their run, key, command and status, and live while their run does.
RowsStay ==
    \A i \in ItemId :
        /\ items'[i].run = items[i].run
        /\ items'[i].key = items[i].key
        /\ items'[i].cmd = items[i].cmd
        /\ items'[i].status = items[i].status
        /\ items'[i].live => items[i].live
        /\ items[i].live => items'[i].live \/ runs'[items[i].run] = "deleted"
        /\ items[i] = NoItem => items'[i] = NoItem

\* What growing older, a deletion and a verdict leave of a row.
LEMMA RowFields ==
    ASSUME NEW t \in Item
    PROVE  /\ \A age : /\ [t EXCEPT !.age = age].run = t.run
                       /\ [t EXCEPT !.age = age].key = t.key
                       /\ [t EXCEPT !.age = age].cmd = t.cmd
                       /\ [t EXCEPT !.age = age].status = t.status
                       /\ [t EXCEPT !.age = age].live = t.live
           /\ /\ [t EXCEPT !.live = FALSE].run = t.run
              /\ [t EXCEPT !.live = FALSE].key = t.key
              /\ [t EXCEPT !.live = FALSE].cmd = t.cmd
              /\ [t EXCEPT !.live = FALSE].status = t.status
              /\ ~[t EXCEPT !.live = FALSE].live
           /\ \A status : /\ [t EXCEPT !.status = status].run = t.run
                          /\ [t EXCEPT !.status = status].key = t.key
                          /\ [t EXCEPT !.status = status].cmd = t.cmd
                          /\ [t EXCEPT !.status = status].status = status
                          /\ [t EXCEPT !.status = status].live = t.live
  BY DEF Item

\* Outside the searches only verdicts change what a row says.
LEMMA RowMoves ==
    ASSUME TypeInv, OtherKinds
    PROVE  VerifyResolve \/ VerifyExpire \/ RowsStay
<1>0. items \in [ItemId -> Item]
  BY DEF TypeInv, TypeOK
<1>1. CASE UNCHANGED items
  BY <1>1 DEF RowsStay
<1>2. CASE Ages
  <2>1. \A i \in ItemId : \/ items'[i] = items[i]
                          \/ items[i] # NoItem /\ \E age \in {"due", "late"} : items'[i] = [items[i] EXCEPT !.age = age]
    <3>1. CASE VerifyMark
      BY <1>0, <3>1 DEF VerifyMark, NoItem
    <3>2. ASSUME NEW j \in ItemId, ItemAges(j)
          PROVE  \A i \in ItemId : \/ items'[i] = items[i]
                                   \/ items[i] # NoItem /\ \E age \in {"due", "late"} : items'[i] = [items[i] EXCEPT !.age = age]
      BY <1>0, <3>2 DEF ItemAges, OpenItems, LiveItems, NoItem
    <3> QED
      BY <1>2, <3>1, <3>2 DEF Ages
  <2>2. \A i \in ItemId : items[i] \in Item
    BY <1>0
  <2>3. ASSUME NEW i \in ItemId
        PROVE  /\ items'[i].run = items[i].run
               /\ items'[i].key = items[i].key
               /\ items'[i].cmd = items[i].cmd
               /\ items'[i].status = items[i].status
               /\ items'[i].live => items[i].live
               /\ items[i].live => items'[i].live \/ runs'[items[i].run] = "deleted"
               /\ items[i] = NoItem => items'[i] = NoItem
    <3>1. items[i] \in Item
      BY <2>2
    <3>2. CASE items'[i] = items[i]
      BY <3>2
    <3>3. CASE items[i] # NoItem /\ \E age \in {"due", "late"} : items'[i] = [items[i] EXCEPT !.age = age]
      BY <3>1, <3>3, RowFields
    <3> QED
      BY <2>1, <3>2, <3>3
  <2> QED
    BY <2>3 DEF RowsStay
<1>3. CASE Deletes
  <2>1. PICK gone \in SUBSET RunId : DeleteRuns(gone)
    BY <1>3 DEF Deletes
  <2>2. \A i \in ItemId : \/ items'[i] = items[i]
                          \/ /\ items[i] # NoItem /\ items'[i] = [items[i] EXCEPT !.live = FALSE]
                             /\ runs'[items[i].run] = "deleted"
    BY <2>1 DEF DeleteRuns, NoItem
  <2>3. \A i \in ItemId : items[i] \in Item
    BY <1>0
  <2>4. ASSUME NEW i \in ItemId
        PROVE  /\ items'[i].run = items[i].run
               /\ items'[i].key = items[i].key
               /\ items'[i].cmd = items[i].cmd
               /\ items'[i].status = items[i].status
               /\ items'[i].live => items[i].live
               /\ items[i].live => items'[i].live \/ runs'[items[i].run] = "deleted"
               /\ items[i] = NoItem => items'[i] = NoItem
    <3>1. items[i] \in Item
      BY <2>3
    <3>2. CASE items'[i] = items[i]
      BY <3>2
    <3>3. CASE /\ items[i] # NoItem /\ items'[i] = [items[i] EXCEPT !.live = FALSE]
               /\ runs'[items[i].run] = "deleted"
      BY <3>1, <3>3, RowFields
    <3> QED
      BY <2>2, <3>2, <3>3
  <2> QED
    BY <2>4 DEF RowsStay
<1>4. PassMoves \/ EntriesGo \/ ArrMoves \/ (\E r \in RunId : VerifySettle(r)) \/ UNCHANGED vars => UNCHANGED items
  BY DEF PassMoves, VerifyStart, VerifyList, VerifyDone, VerifyStopped, VerifyFails, VerifyAsk, VerifySettle,
         EntriesGo, ClearCache, EntryLapses, PurgeEntry, ArrMoves, ArrSettles, ArrForgets, vars, dbVars
<1> QED
  BY <1>1, <1>2, <1>3, <1>4 DEF OtherKinds

\* A verdict of *arr (VerifyResolve) and the giving up (VerifyExpire), row by row.
LEMMA VerdictMoves ==
    ASSUME TypeInv
    PROVE  /\ VerifyResolve => \A i \in ItemId :
                items'[i] = IF i = verify.item THEN [items[i] EXCEPT !.status = verify.verdict] ELSE items[i]
           /\ VerifyExpire => \A i \in ItemId :
                \/ items'[i] = items[i]
                \/ /\ items[i].live /\ items[i].status = "submitted"
                   /\ items'[i] = [items[i] EXCEPT !.status = "expired"]
<1>0. items \in [ItemId -> Item]
  BY DEF TypeInv, TypeOK
<1>1. ASSUME VerifyResolve
      PROVE  \A i \in ItemId :
               items'[i] = IF i = verify.item THEN [items[i] EXCEPT !.status = verify.verdict] ELSE items[i]
  BY <1>0, <1>1 DEF VerifyResolve
<1>2. ASSUME VerifyExpire
      PROVE  \A i \in ItemId :
                \/ items'[i] = items[i]
                \/ /\ items[i].live /\ items[i].status = "submitted"
                   /\ items'[i] = [items[i] EXCEPT !.status = "expired"]
  BY <1>2 DEF VerifyExpire, OpenItems, LiveItems
<1> QED
  BY <1>1, <1>2

\* The searches either file a result or leave the rows alone.
LEMMA SearchRows ==
    ASSUME TypeInv, ResultsAgree, NEW s \in Skills, SearchKinds(s)
    PROVE  \/ UNCHANGED <<items, nextItem, cache, lapsed>>
           \/ \E r \in RunId \cup {0}, result \in Result : Fileable(result) /\ Record(r, result)
<1>1. CASE FilesKept(s)
  <2>1. Record(FiledUnder(s, Head(unsaved)), Head(unsaved).result)
    BY <1>1 DEF FilesKept
  <2> QED
    BY <1>1, <2>1, FiledResults DEF Fileable
<1>2. CASE FilesHand(s)
  BY <1>2, FiledResults DEF Fileable, dbVars
<1>3. CASE ~FilesKept(s) /\ ~FilesHand(s)
  BY <1>3 DEF SearchKinds, Starts, Quiet, Drops, Tries, KeepsHand, Closes, dbVars
<1> QED
  BY <1>1, <1>2, <1>3

\* The rows stay well formed.
LEMMA RowsStep ==
    ASSUME TypeInv, ResultsAgree, ItemsWritten, PassAsksOpenItems, [Next]_vars PROVE ItemsWritten'
<1>0. items \in [ItemId -> Item] /\ verify \in Verify
  BY DEF TypeInv, TypeOK
<1>1. ASSUME NEW s \in Skills, SearchKinds(s) PROVE ItemsWritten'
  <2>1. CASE UNCHANGED <<items, nextItem>>
    BY <2>1 DEF ItemsWritten
  <2>2. CASE \E r \in RunId \cup {0}, result \in Result : Fileable(result) /\ Record(r, result)
    BY <2>2, Filing
  <2> QED
    BY <1>1, <2>1, <2>2, SearchRows
<1>2. CASE CrashRestart
  BY <1>2 DEF CrashRestart, ItemsWritten
<1>3. CASE OtherKinds
  <2>1. nextItem' = nextItem
    BY <1>3, OthersLeave
  <2>2. CASE RowsStay
    BY <2>1, <2>2 DEF RowsStay, ItemsWritten
  <2>3. CASE VerifyResolve
    <3>1. \A i \in ItemId : i = verify.item => /\ items[i].status = "submitted" /\ items[i] # NoItem
                                             /\ items'[i].cmd = items[i].cmd
                                             /\ items'[i].status \in {"completed", "failed", "expired"}
      BY <1>0, <2>3, VerdictMoves DEF VerifyResolve, PassAsksOpenItems, Item, NoItem
    <3>2. \A i \in ItemId : i # verify.item => items'[i] = items[i]
      BY <2>3, VerdictMoves
    <3> QED
      BY <2>1, <3>1, <3>2 DEF ItemsWritten, ItemStatuses, ItemVerdicts, DoneStatuses, NoItem
  <2>4. CASE VerifyExpire
    <3>1. \A i \in ItemId : \/ items'[i] = items[i]
                            \/ /\ items[i].status = "submitted" /\ items[i] # NoItem
                               /\ items'[i].cmd = items[i].cmd /\ items'[i].status = "expired"
      <4>1. \A i \in ItemId : \/ items'[i] = items[i]
                              \/ /\ items[i].live /\ items[i].status = "submitted"
                                 /\ items'[i] = [items[i] EXCEPT !.status = "expired"]
        BY <2>4, VerdictMoves
      <4>2. \A i \in ItemId : items[i] \in Item
        BY <1>0
      <4>3. NoItem.status # "submitted"
        BY DEF NoItem
      <4>4. ASSUME NEW i \in ItemId, items[i].status = "submitted",
                   items'[i] = [items[i] EXCEPT !.status = "expired"]
            PROVE  items[i] # NoItem /\ items'[i].cmd = items[i].cmd /\ items'[i].status = "expired"
        BY <4>2, <4>3, <4>4, RowFields
      <4> QED
        BY <4>1, <4>4
    <3> QED
      BY <2>1, <3>1 DEF ItemsWritten, ItemStatuses, ItemVerdicts, DoneStatuses, NoItem
  <2> QED
    BY <1>3, <2>2, <2>3, <2>4, RowMoves
<1> QED
  BY <1>1, <1>2, <1>3, StepKinds

\* What the pass asks about stays without a verdict until it resolves it.
LEMMA PassStep ==
    ASSUME TypeInv, ResultsAgree, ItemsWritten, PassAsksOpenItems, [Next]_vars PROVE PassAsksOpenItems'
<1>0. items \in [ItemId -> Item] /\ verify \in Verify
  BY DEF TypeInv, TypeOK
<1>1. ASSUME UNCHANGED verify, \A i \in ItemId : items[i].status = "submitted" => items'[i].status = "submitted"
      PROVE  PassAsksOpenItems'
  BY <1>0, <1>1 DEF PassAsksOpenItems, Verify
<1>2. ASSUME UNCHANGED items, \A i \in verify'.batch : i \in verify.batch \/ items[i].status = "submitted",
             verify'.batch # {} => verify'.pc \in {"asking", "resolving"},
             verify'.pc = "resolving" => /\ verify'.item \in verify'.batch
                                         /\ verify'.verdict \in {"completed", "failed", "expired"}
      PROVE  PassAsksOpenItems'
  BY <1>2 DEF PassAsksOpenItems
<1>3. ASSUME NEW s \in Skills, SearchKinds(s) PROVE PassAsksOpenItems'
  <2>1. UNCHANGED verify
    BY <1>3 DEF SearchKinds, Starts, Quiet, FilesKept, Drops, Tries, FilesHand, KeepsHand, Closes
  <2>2. CASE UNCHANGED items
    BY <1>1, <2>1, <2>2
  <2>3. CASE \E r \in RunId \cup {0}, result \in Result : Fileable(result) /\ Record(r, result)
    <3>1. /\ items[nextItem] = NoItem
          /\ \A i \in ItemId : i # nextItem => items'[i] = items[i]
      BY <2>3, Filing
    <3>2. \A i \in ItemId : items[i].status = "submitted" => items'[i].status = "submitted"
      BY <3>1 DEF NoItem
    <3> QED
      BY <1>1, <2>1, <3>2
  <2> QED
    BY <1>3, <2>2, <2>3, SearchRows
<1>4. CASE CrashRestart
  BY <1>4 DEF CrashRestart, PassAsksOpenItems, IdleVerify
<1>5. CASE PassMoves
  <2>1. CASE VerifyStart
    BY <2>1 DEF VerifyStart, IdleVerify, OpenItems, PassAsksOpenItems, dbVars
  <2>2. CASE VerifyList \/ VerifyStopped
    BY <1>0, <1>2, <2>2 DEF VerifyList, VerifyStopped, PassAsksOpenItems, Verify, dbVars
  <2>3. CASE VerifyDone \/ VerifyFails
    BY <2>3 DEF VerifyDone, VerifyFails, IdleVerify, PassAsksOpenItems
  <2>4. ASSUME NEW i \in ItemId, VerifyAsk(i) PROVE PassAsksOpenItems'
    <3>1. PICK answer : LET verdict == MapCommandStatus(answer)
                        IN verify' = IF verdict = "submitted"
                             THEN [verify EXCEPT !.batch = @ \ {i},
                                                 !.answered = IF CountsAsCheck(answer) THEN @ \cup {i} ELSE @]
                             ELSE [verify EXCEPT !.pc = "resolving", !.item = i, !.verdict = verdict]
      BY <2>4 DEF VerifyAsk
    <3> DEFINE verdict == MapCommandStatus(answer)
               answered == IF CountsAsCheck(answer) THEN verify.answered \cup {i} ELSE verify.answered
    <3>2. \/ verify' = [verify EXCEPT !.batch = @ \ {i}, !.answered = answered]
          \/ /\ verdict \in {"completed", "failed", "expired"}
             /\ verify' = [verify EXCEPT !.pc = "resolving", !.item = i, !.verdict = verdict]
      BY <3>1 DEF MapCommandStatus
    <3> HIDE DEF verdict, answered
    <3>3. i \in verify.batch /\ verify.pc = "asking" /\ UNCHANGED items
      BY <2>4 DEF VerifyAsk, dbVars
    <3> QED
      BY <1>0, <1>2, <3>2, <3>3 DEF Verify
  <2> QED
    BY <1>5, <2>1, <2>2, <2>3, <2>4 DEF PassMoves
<1>6. CASE VerifyResolve
  <2>1. /\ verify'.batch = verify.batch \ {verify.item} /\ verify'.pc = "asking"
        /\ \A i \in ItemId : i # verify.item => items'[i] = items[i]
    BY <1>0, <1>6, VerdictMoves DEF VerifyResolve, Verify
  <2> QED
    BY <1>0, <2>1 DEF PassAsksOpenItems, Verify
<1>7. CASE VerifyMark \/ VerifyExpire
  <2>1. verify'.batch = {} /\ verify'.pc # "resolving"
    BY <1>0, <1>7 DEF VerifyMark, VerifyExpire, PassAsksOpenItems, Verify
  <2> QED
    BY <2>1 DEF PassAsksOpenItems
<1>8. ASSUME NEW i \in ItemId, ItemAges(i) PROVE PassAsksOpenItems'
  <2>1. OtherKinds /\ UNCHANGED verify
    BY <1>8 DEF OtherKinds, Ages, ItemAges
  <2>2. \A j \in ItemId : items'[j].status = items[j].status
    BY <1>0, <1>8, RowFields DEF ItemAges
  <2> QED
    BY <1>1, <2>1, <2>2
<1>9. ASSUME NEW r \in RunId, VerifySettle(r) PROVE PassAsksOpenItems'
  BY <1>0, <1>2, <1>9 DEF VerifySettle, PassAsksOpenItems, Verify
<1>10. CASE Deletes
  <2>1. PICK gone : DeleteRuns(gone)
    BY <1>10 DEF Deletes
  <2>2. \A j \in ItemId : items'[j] = items[j] \/ items'[j] = [items[j] EXCEPT !.live = FALSE]
    BY <2>1 DEF DeleteRuns
  <2>3. \A j \in ItemId : items'[j].status = items[j].status
    BY <1>0, <2>2, RowFields
  <2> QED
    BY <1>1, <2>1, <2>3 DEF DeleteRuns, idleFrame
<1>11. CASE EntriesGo \/ ArrMoves \/ UNCHANGED vars
  <2>1. UNCHANGED <<items, verify>>
    BY <1>11 DEF EntriesGo, ClearCache, EntryLapses, PurgeEntry, ArrMoves, ArrSettles, ArrForgets, vars, dbVars, idleFrame
  <2> QED
    BY <1>1, <2>1
<1> QED
  BY <1>3, <1>4, <1>5, <1>6, <1>7, <1>8, <1>9, <1>10, <1>11, StepKinds DEF OtherKinds, Ages

\* How a step changes the status of a run: a search opens and closes its own,
\* a restart closes what was under way, the pass settles what is pending, and
\* what is closed is deleted.
LEMMA RunMoves ==
    ASSUME TypeInv, OtherKinds, NEW r \in RunId
    PROVE  \/ runs'[r] = runs[r]
           \/ runs[r] = "pending" /\ runs'[r] = AggregateRunStatus(StatusesOf(r)) /\ UNCHANGED items
           \/ Finished(r) /\ runs'[r] = "deleted"
<1>0. runs \in [RunId -> RunStatuses]
  BY DEF TypeInv, TypeOK
<1>1. CASE Deletes
  BY <1>1 DEF Deletes, DeleteRuns, Deletable
<1>2. ASSUME NEW q \in RunId, VerifySettle(q)
      PROVE  runs'[r] = runs[r] \/ /\ runs[r] = "pending" /\ runs'[r] = AggregateRunStatus(StatusesOf(r))
                                   /\ UNCHANGED items
  BY <1>0, <1>2 DEF VerifySettle
<1>3. PassMoves \/ VerifyResolve \/ Ages \/ VerifyExpire \/ EntriesGo \/ ArrMoves \/ UNCHANGED vars => UNCHANGED runs
  BY DEF PassMoves, VerifyStart, VerifyList, VerifyDone, VerifyStopped, VerifyFails, VerifyAsk, VerifyResolve,
         Ages, VerifyMark, ItemAges, VerifyExpire, EntriesGo, ClearCache, EntryLapses, PurgeEntry,
         ArrMoves, ArrSettles, ArrForgets, vars, dbVars
<1> QED
  BY <1>1, <1>2, <1>3 DEF OtherKinds

\* Each search keeps a run of its own that is open.
LEMMA RunsStep ==
    ASSUME TypeInv, RunsHeld, [Next]_vars PROVE RunsHeld'
<1>0. /\ runs \in [RunId -> RunStatuses] /\ nextRun \in Int
      /\ \A s \in Skills : searcher[s].pc # "idle" => searcher[s].run \in RunId /\ searcher[s].run < nextRun
  <2>1. nextRun \in Int /\ runs \in [RunId -> RunStatuses]
    BY DEF TypeInv, TypeOK
  <2> QED
    BY <2>1 DEF TypeInv, RunOfItsOwn, RunsHeld, RunId
<1>1. ASSUME NEW s \in Skills, SearchKinds(s) PROVE RunsHeld'
  <2>1. CASE Starts(s)
    BY <1>0, <2>1 DEF Starts, Others, RunsHeld, RunId
  <2>2. CASE UNCHANGED <<runs, nextRun>> /\ Others(s) /\ searcher'[s].run = searcher[s].run /\ searcher[s].pc # "idle"
    BY <2>2 DEF Others, RunsHeld
  <2>3. Quiet(s) \/ FilesKept(s) \/ Drops(s) \/ Tries(s) \/ FilesHand(s) \/ KeepsHand(s) =>
          UNCHANGED <<runs, nextRun>> /\ Others(s) /\ searcher'[s].run = searcher[s].run /\ searcher[s].pc # "idle"
    BY DEF Quiet, FilesKept, SameButPc, Drops, Tries, FilesHand, KeepsHand, Record, dbVars
  <2>4. CASE Closes(s)
    <3>1. \A r \in RunId : r # searcher[s].run => runs'[r] = runs[r]
      BY <1>0, <2>4 DEF Closes
    <3>2. searcher'[s].pc = "idle" /\ searcher[s].pc # "idle" /\ Others(s) /\ UNCHANGED nextRun
      BY <2>4 DEF Closes, IdleSearcher
    <3> QED
      BY <1>0, <3>1, <3>2 DEF RunsHeld, Others
  <2> QED
    BY <1>1, <2>1, <2>2, <2>3, <2>4 DEF SearchKinds
<1>2. CASE CrashRestart
  <2>1. \A s \in Skills : searcher'[s].pc = "idle"
    BY <1>2 DEF CrashRestart, IdleSearcher
  <2>2. \A r \in RunId : runs[r] = "none" => runs'[r] = "none"
    BY <1>0, <1>2 DEF CrashRestart, Interrupted
  <2> QED
    BY <1>2, <2>1, <2>2 DEF CrashRestart, RunsHeld
<1>3. CASE OtherKinds
  <2>1. UNCHANGED <<searcher, nextRun>>
    BY <1>3, OthersLeave
  <2>2. \A r \in RunId : runs[r] \in {"running", "none"} => runs'[r] = runs[r]
    BY <1>3, RunMoves DEF Finished, SettledStatuses
  <2> QED
    BY <1>0, <2>1, <2>2 DEF RunsHeld
<1> QED
  BY <1>1, <1>2, <1>3, StepKinds

\* A run with a result in memory stays bound for an error.
LEMMA UnsavedRunsStep ==
    ASSUME TypeInv, RunsHeld, UnsavedRunsFail, [Next]_vars PROVE UnsavedRunsFail'
<1>0. /\ unsaved \in Seq(Unsaved) /\ runs \in [RunId -> RunStatuses]
      /\ \A n \in DOMAIN unsaved : unsaved[n].run \in RunId
  <2>1. unsaved \in Seq(Unsaved) /\ runs \in [RunId -> RunStatuses]
    BY DEF TypeInv, TypeOK
  <2>2. \A n \in DOMAIN unsaved : unsaved[n] \in Unsaved
    BY <2>1
  <2> QED
    BY <2>1, <2>2 DEF Unsaved
<1>1. ASSUME NEW s \in Skills, SearchKinds(s) PROVE UnsavedRunsFail'
  <2>1. CASE Starts(s)
    <3>1. \A n \in DOMAIN unsaved : unsaved[n].run # nextRun
      BY <1>0, <2>1 DEF Starts, RunsHeld, UnsavedRunsFail, RunId
    <3> QED
      BY <1>0, <2>1, <3>1 DEF Starts, Others, UnsavedRunsFail
  <2>2. CASE Quiet(s) \/ FilesKept(s) \/ Tries(s) \/ FilesHand(s)
    <3>1. /\ UNCHANGED <<runs, unsaved>> /\ Others(s) /\ searcher[s].pc # "idle"
          /\ searcher'[s].run = searcher[s].run /\ searcher[s].marks \subseteq searcher'[s].marks
      BY <2>2 DEF Quiet, FilesKept, SameButPc, Tries, FilesHand, Record, dbVars
    <3> QED
      BY <3>1 DEF Others, UnsavedRunsFail
  <2>3. CASE Drops(s)
    <3>1. /\ UNCHANGED runs /\ Others(s) /\ searcher[s].pc # "idle"
          /\ searcher'[s].run = searcher[s].run /\ searcher[s].marks = searcher'[s].marks
      BY <2>3 DEF Drops, SameButPc, dbVars
    <3>2. \A n \in DOMAIN unsaved' : n + 1 \in DOMAIN unsaved /\ unsaved'[n] = unsaved[n + 1]
      BY <1>0, <2>3, ListMoves DEF Drops
    <3> QED
      BY <3>1, <3>2 DEF Others, UnsavedRunsFail
  <2>4. CASE KeepsHand(s)
    <3>1. /\ UNCHANGED runs /\ Others(s) /\ searcher[s].pc # "idle"
          /\ searcher'[s].run = searcher[s].run /\ searcher[s].marks \subseteq searcher'[s].marks
      BY <2>4 DEF KeepsHand, dbVars
    <3>2. CASE UNCHANGED unsaved
      BY <3>1, <3>2 DEF Others, UnsavedRunsFail
    <3>3. CASE /\ "unstored" \in searcher'[s].marks
               /\ unsaved' = Append(unsaved, [run |-> searcher[s].run, result |-> searcher[s].result])
      <4>1. \A n \in DOMAIN unsaved' : \/ n \in DOMAIN unsaved /\ unsaved'[n] = unsaved[n]
                                      \/ unsaved'[n].run = searcher[s].run
        BY <1>0, <3>3, ListMoves
      <4>2. runs[searcher[s].run] = "running"
        BY <3>1 DEF RunsHeld
      <4>3. \A t \in Skills : searcher'[t].pc # "idle" /\ searcher'[t].run = searcher[s].run => t = s
        BY <3>1 DEF RunsHeld, Others
      <4> QED
        BY <3>1, <3>3, <4>1, <4>2, <4>3 DEF Others, UnsavedRunsFail
    <3> QED
      BY <2>4, <3>2, <3>3 DEF KeepsHand
  <2>5. CASE Closes(s)
    <3>1. UNCHANGED unsaved /\ Others(s) /\ searcher'[s].pc = "idle" /\ searcher[s].pc # "idle"
      BY <2>5 DEF Closes, IdleSearcher
    <3>2. \A n \in DOMAIN unsaved : runs'[unsaved[n].run] = runs[unsaved[n].run] \/ runs'[unsaved[n].run] = "error"
      BY <1>0, <2>5, <3>1 DEF Closes, ClosingStatus, EndsInError, UnsavedRunsFail
    <3> QED
      BY <3>1, <3>2 DEF Others, UnsavedRunsFail
  <2> QED
    BY <1>1, <2>1, <2>2, <2>3, <2>4, <2>5 DEF SearchKinds
<1>2. CASE CrashRestart
  BY <1>2 DEF CrashRestart, UnsavedRunsFail
<1>3. CASE OtherKinds
  <2>1. UNCHANGED <<searcher, unsaved>>
    BY <1>3, OthersLeave
  <2>2. \A n \in DOMAIN unsaved : runs'[unsaved[n].run] \in {runs[unsaved[n].run], "deleted"}
    BY <1>0, <1>3, RunMoves DEF UnsavedRunsFail
  <2> QED
    BY <2>1, <2>2 DEF UnsavedRunsFail
<1> QED
  BY <1>1, <1>2, <1>3, StepKinds

-----------------------------------------------------------------------------
(* Verdicts *)

\* What the steps about verdicts rest on.
SettlingInv ==
    /\ TypeInv
    /\ ResultsAgree
    /\ ItemsWritten
    /\ PassAsksOpenItems
    /\ RunsHeld
    /\ UnsavedRunsFail

LEMMA SettlingInit == Init => SettlingInv
<1> SUFFICES ASSUME Init PROVE SettlingInv
  OBVIOUS
<1>1. ResultsAgree
  BY DEF Init, ResultsAgree, Agrees, IdleSearcher, NoResult
<1>2. ItemsWritten
  BY DEF Init, ItemsWritten, NoItem, ItemId
<1>3. PassAsksOpenItems
  BY DEF Init, PassAsksOpenItems, IdleVerify
<1>4. RunsHeld /\ UnsavedRunsFail
  BY DEF Init, RunsHeld, UnsavedRunsFail, IdleSearcher
<1> QED
  BY <1>1, <1>2, <1>3, <1>4, TypeInit DEF SettlingInv

LEMMA SettlingStep == SettlingInv /\ [Next]_vars => SettlingInv'
  BY TypeStep, AgreeStep, RowsStep, PassStep, RunsStep, UnsavedRunsStep DEF SettlingInv

\* Every row is in its place: a result of a search under way, or of one whose
\* run failed, is the only thing that is ever filed.
LEMMA FiledRun ==
    ASSUME SettlingInv, NEW s \in Skills, SearchKinds(s)
    PROVE  \/ UNCHANGED <<items, nextItem, cache, lapsed>>
           \/ \E r \in RunId \cup {0}, result \in Result :
                /\ Fileable(result) /\ Record(r, result)
                /\ r \in RunId => runs[r] \in {"running", "error"}
<1>0. unsaved \in Seq(Unsaved)
  BY DEF SettlingInv, TypeInv, TypeOK
<1>1. CASE FilesKept(s)
  <2> DEFINE entry == Head(unsaved)
             r == FiledUnder(s, entry)
  <2>1. Record(r, entry.result) /\ Fileable(entry.result) /\ r \in RunId \cup {0}
    BY <1>1, FiledResults DEF FilesKept, SettlingInv
  <2>2. runs[searcher[s].run] = "running"
    BY <1>1 DEF FilesKept, SettlingInv, RunsHeld
  <2>3. runs[entry.run] \in {"running", "error", "deleted"}
    <3>1. 1 \in DOMAIN unsaved /\ entry = unsaved[1]
      BY <1>0, <1>1 DEF FilesKept
    <3> QED
      BY <3>1 DEF SettlingInv, UnsavedRunsFail
  <2>4. runs[r] \in {"running", "error"}
    BY <2>2, <2>3 DEF FiledUnder
  <2> HIDE DEF r, entry
  <2> QED
    BY <2>1, <2>4 DEF Fileable
<1>2. CASE FilesHand(s)
  <2>1. runs[searcher[s].run] = "running"
    BY <1>2 DEF FilesHand, SettlingInv, RunsHeld
  <2>2. CASE UNCHANGED dbVars
    BY <2>2 DEF dbVars
  <2>3. CASE Fileable(searcher[s].result) /\ Record(searcher[s].run, searcher[s].result)
    <3>1. searcher[s].run \in RunId \cup {0} /\ searcher[s].result \in Result
      BY <2>3, FiledResults DEF SettlingInv, Fileable
    <3> QED
      BY <2>1, <2>3, <3>1
  <2> QED
    BY <1>2, <2>2, <2>3, FiledResults DEF SettlingInv
<1>3. CASE ~FilesKept(s) /\ ~FilesHand(s)
  BY <1>3 DEF SearchKinds, Starts, Quiet, Drops, Tries, KeepsHand, Closes, dbVars
<1> QED
  BY <1>1, <1>2, <1>3

\* How a search changes the status of a run.
LEMMA SearchRuns ==
    ASSUME SettlingInv, NEW s \in Skills, SearchKinds(s), NEW r \in RunId
    PROVE  \/ runs'[r] = runs[r]
           \/ runs[r] = "none" /\ runs'[r] = "running"
           \/ /\ runs[r] = "running" /\ runs'[r] \in {"error", AggregateRunStatus(StatusesOf(r))}
              /\ UNCHANGED items
<1>0. runs \in [RunId -> RunStatuses] /\ nextRun \in Int
  BY DEF SettlingInv, TypeInv, TypeOK
<1>1. CASE Starts(s)
  BY <1>0, <1>1 DEF Starts, SettlingInv, RunsHeld
<1>2. CASE Closes(s)
  <2>1. runs[searcher[s].run] = "running"
    BY <1>2 DEF Closes, SettlingInv, RunsHeld
  <2> QED
    BY <1>0, <1>2, <2>1 DEF Closes, ClosingStatus
<1>3. CASE ~Starts(s) /\ ~Closes(s)
  BY <1>3 DEF SearchKinds, Quiet, FilesKept, Drops, Tries, FilesHand, KeepsHand, Record, dbVars
<1> QED
  BY <1>1, <1>2, <1>3

\* A step never takes back a verdict.
LEMMA FinalStep ==
    ASSUME SettlingInv, [Next]_vars
    PROVE  /\ \A r \in RunId : runs[r] \in SettledStatuses \cup {"error"} => runs'[r] \in {runs[r], "deleted"}
           /\ \A i \in ItemId : items[i].status \in ItemVerdicts => items'[i].status = items[i].status
<1>0. items \in [ItemId -> Item] /\ verify \in Verify /\ runs \in [RunId -> RunStatuses]
  BY DEF SettlingInv, TypeInv, TypeOK
<1>a. {"none", "running", "pending", "submitted"} \cap (SettledStatuses \cup {"error"} \cup ItemVerdicts) = {}
  BY DEF SettledStatuses, ItemVerdicts, DoneStatuses
<1>1. ASSUME NEW r \in RunId, runs[r] \in SettledStatuses \cup {"error"} PROVE runs'[r] \in {runs[r], "deleted"}
  <2>1. ASSUME NEW s \in Skills, SearchKinds(s) PROVE runs'[r] = runs[r]
    BY <1>a, <1>1, <2>1, SearchRuns
  <2>2. CASE CrashRestart
    BY <1>0, <1>a, <1>1, <2>2 DEF CrashRestart, Interrupted
  <2>3. CASE OtherKinds
    BY <1>a, <1>1, <2>3, RunMoves DEF SettlingInv
  <2> QED
    BY <2>1, <2>2, <2>3, StepKinds DEF SettlingInv
<1>2. ASSUME NEW i \in ItemId, items[i].status \in ItemVerdicts PROVE items'[i].status = items[i].status
  <2>1. ASSUME NEW s \in Skills, SearchKinds(s) PROVE items'[i] = items[i]
    <3>1. CASE \E r \in RunId \cup {0}, result \in Result : Fileable(result) /\ Record(r, result)
      <4>1. items[nextItem] = NoItem /\ \A j \in ItemId : j # nextItem => items'[j] = items[j]
        BY <3>1, Filing DEF SettlingInv
      <4>2. i # nextItem
        BY <1>2, <4>1 DEF NoItem, ItemVerdicts, DoneStatuses
      <4> QED
        BY <4>1, <4>2
    <3> QED
      BY <2>1, <3>1, SearchRows DEF SettlingInv
  <2>2. CASE CrashRestart
    BY <2>2 DEF CrashRestart
  <2>3. CASE RowsStay
    BY <2>3 DEF RowsStay
  <2>4. CASE VerifyResolve
    <3>1. i # verify.item
      BY <1>a, <1>2, <2>4 DEF VerifyResolve, SettlingInv, PassAsksOpenItems
    <3> QED
      BY <2>4, <3>1, VerdictMoves DEF SettlingInv
  <2>5. CASE VerifyExpire
    BY <1>a, <1>2, <2>5, VerdictMoves DEF SettlingInv
  <2> QED
    BY <2>1, <2>2, <2>3, <2>4, <2>5, StepKinds, RowMoves DEF SettlingInv
<1> QED
  BY <1>1, <1>2

\* VerdictsAreFinal: whatever passes, restarts and later runs do, a settled or
\* failed run and a settled item keep their verdict until they are deleted.
THEOREM VerdictsFinal == Spec => VerdictsAreFinal
<1>1. SettlingInv /\ [Next]_vars =>
        [/\ \A r \in RunId : runs[r] \in SettledStatuses \cup {"error"} => runs'[r] \in {runs[r], "deleted"}
         /\ \A i \in ItemId : items[i].status \in ItemVerdicts => items'[i].status = items[i].status]_vars
  BY FinalStep
<1> QED
  BY <1>1, SettlingInit, SettlingStep, PTL DEF Spec, VerdictsAreFinal

-----------------------------------------------------------------------------
(* The retry cache *)

\* Filing a result moves at most the entry of its key, to the new row.
LEMMA FilingEntry ==
    ASSUME TypeInv, ItemsWritten, NEW r \in RunId \cup {0}, NEW result, Fileable(result), Record(r, result),
           NEW k \in Keys
    PROVE  \/ cache'[k] = cache[k]
           \/ /\ cache'[k] = nextItem /\ items'[nextItem].key = k
              /\ ~(items'[nextItem].cmd # 0 /\ items'[nextItem].status = "failed")
<1>0. cache \in [Keys -> ItemId \cup {0}]
  BY DEF TypeInv, TypeOK
<1>1. items'[nextItem] = NewItem(r, result)
  BY Filing
<1>2. CASE ~Caches(result)
  BY <1>2 DEF Record
<1>3. CASE Caches(result)
  <2>1. cache' = [cache EXCEPT ![result.key] = nextItem]
    BY <1>3 DEF Record
  <2>2. /\ NewItem(r, result).key = result.key
        /\ ~(NewItem(r, result).cmd # 0 /\ NewItem(r, result).status = "failed")
    BY <1>3 DEF NewItem, ItemStatus, Fileable, Agrees
  <2> QED
    BY <1>0, <1>1, <2>1, <2>2
<1> QED
  BY <1>2, <1>3

\* Outside the searches an entry only goes: the failure of its own command,
\* the end of its window, or the user.
LEMMA EntryMoves ==
    ASSUME TypeInv, OtherKinds, NEW k \in Keys
    PROVE  \/ cache'[k] = cache[k]
           \/ cache'[k] = 0 /\ (k \in lapsed \/ ClearCache)
           \/ /\ VerifyResolve /\ cache'[k] = 0 /\ cache[k] = verify.item
              /\ verify.verdict = "failed"
<1>0. cache \in [Keys -> ItemId \cup {0}]
  BY DEF TypeInv, TypeOK
<1>1. CASE EntriesGo
  BY <1>0, <1>1 DEF EntriesGo, ClearCache, EntryLapses, PurgeEntry
<1>2. CASE VerifyResolve
  BY <1>0, <1>2 DEF VerifyResolve, Releases
<1>3. PassMoves \/ Ages \/ VerifyExpire \/ (\E r \in RunId : VerifySettle(r)) \/ Deletes \/ ArrMoves \/ UNCHANGED vars
        => UNCHANGED cache
  BY DEF PassMoves, VerifyStart, VerifyList, VerifyDone, VerifyStopped, VerifyFails, VerifyAsk, VerifySettle,
         Ages, VerifyMark, ItemAges, VerifyExpire, Deletes, DeleteRuns, ArrMoves, ArrSettles, ArrForgets, vars, dbVars
<1> QED
  BY <1>1, <1>2, <1>3 DEF OtherKinds

\* An entry names a written row.
LEMMA WrittenEntry ==
    ASSUME TypeInv, ItemsWritten, EntryNamesItsWriter, NEW k \in Keys, cache[k] # 0
    PROVE  cache[k] \in ItemId /\ cache[k] < nextItem /\ items[cache[k]] # NoItem /\ items[cache[k]].key = k
<1>1. cache[k] \in ItemId /\ items[cache[k]].key = k
  BY DEF TypeInv, TypeOK, EntryNamesItsWriter
<1>2. items[cache[k]] # NoItem
  BY <1>1, KeysAssumption DEF NoItem
<1>3. nextItem \in Int /\ cache[k] \in Int
  BY <1>1 DEF TypeInv, TypeOK, ItemId
<1> QED
  BY <1>1, <1>2, <1>3 DEF ItemsWritten

LEMMA EntryStep ==
    ASSUME SettlingInv, EntryNamesItsWriter, [Next]_vars PROVE EntryNamesItsWriter'
<1>0. items \in [ItemId -> Item] /\ cache \in [Keys -> ItemId \cup {0}]
  BY DEF SettlingInv, TypeInv, TypeOK
<1> DEFINE Names(k) == items[cache[k]].key = k /\ ~(items[cache[k]].cmd # 0 /\ items[cache[k]].status = "failed")
<1>1. ASSUME NEW k \in Keys, cache'[k] # 0 PROVE Names(k)'
  <2>1. CASE UNCHANGED <<items, cache>>
    BY <1>1, <2>1 DEF EntryNamesItsWriter
  <2>2. ASSUME NEW s \in Skills, SearchKinds(s) PROVE Names(k)'
    <3>1. CASE \E r \in RunId \cup {0}, result \in Result : Fileable(result) /\ Record(r, result)
      <4>1. PICK r \in RunId \cup {0}, result \in Result : Fileable(result) /\ Record(r, result)
        BY <3>1
      <4>2. items[nextItem] = NoItem /\ \A i \in ItemId : i # nextItem => items'[i] = items[i]
        BY <4>1, Filing DEF SettlingInv
      <4>3. CASE cache'[k] = cache[k]
        <5>1. cache[k] \in ItemId /\ items[cache[k]] # NoItem
          BY <1>1, <4>3, WrittenEntry DEF SettlingInv
        <5>2. items'[cache[k]] = items[cache[k]]
          BY <4>2, <5>1
        <5> QED
          BY <1>1, <4>3, <5>2 DEF EntryNamesItsWriter
      <4>4. CASE cache'[k] # cache[k]
        BY <4>1, <4>4, FilingEntry DEF SettlingInv
      <4> QED
        BY <4>3, <4>4
    <3> QED
      BY <2>1, <2>2, <3>1, SearchRows DEF SettlingInv
  <2>3. CASE CrashRestart
    BY <2>1, <2>3 DEF CrashRestart
  <2>4. CASE OtherKinds
    <3>1. cache'[k] = cache[k]
      BY <1>1, <2>4, EntryMoves DEF SettlingInv
    <3>2. PICK i : i = cache[k]
      OBVIOUS
    <3>3. i \in ItemId /\ items[i].key = k /\ ~(items[i].cmd # 0 /\ items[i].status = "failed") /\ k # NoKey
      BY <1>1, <3>1, <3>2, WrittenEntry, KeysAssumption DEF EntryNamesItsWriter, SettlingInv
    <3>4. items'[i].key = k /\ ~(items'[i].cmd # 0 /\ items'[i].status = "failed")
      <4>1. CASE RowsStay
        BY <3>3, <4>1 DEF RowsStay
      <4>2. CASE VerifyResolve
        <5>1. CASE i # verify.item
          BY <3>3, <4>2, <5>1, VerdictMoves DEF SettlingInv
        <5>2. CASE i = verify.item
          <6>1. verify.verdict # "failed"
            BY <1>0, <1>1, <3>1, <3>2, <3>3, <4>2, <5>2 DEF VerifyResolve, Releases
          <6>2. items'[i] = [items[i] EXCEPT !.status = verify.verdict]
            BY <3>3, <4>2, <5>2, VerdictMoves DEF SettlingInv
          <6> QED
            BY <1>0, <3>3, <6>1, <6>2, RowFields
        <5> QED
          BY <5>1, <5>2
      <4>3. CASE VerifyExpire
        <5>1. items'[i] = items[i] \/ items'[i] = [items[i] EXCEPT !.status = "expired"]
          BY <3>3, <4>3, VerdictMoves DEF SettlingInv
        <5>2. items[i] \in Item
          BY <1>0, <3>3
        <5>3. CASE items'[i] = [items[i] EXCEPT !.status = "expired"]
          BY <3>3, <5>2, <5>3, RowFields
        <5> QED
          BY <3>3, <5>1, <5>3
      <4> QED
        BY <2>4, <4>1, <4>2, <4>3, RowMoves DEF SettlingInv
    <3> QED
      BY <3>1, <3>2, <3>4
  <2> QED
    BY <2>2, <2>3, <2>4, StepKinds DEF SettlingInv
<1> QED
  BY <1>1 DEF EntryNamesItsWriter

\* EntryNamesItsWriter: whatever skills, results and verdicts come together, an
\* entry names an item of its own title, and never a failed command.
THEOREM EntriesNameWriters == Spec => []EntryNamesItsWriter
<1>1. Init => EntryNamesItsWriter
  BY DEF Init, EntryNamesItsWriter
<1>2. SettlingInv /\ EntryNamesItsWriter /\ [Next]_vars => EntryNamesItsWriter'
  BY EntryStep
<1> QED
  BY <1>1, <1>2, SettlingInit, SettlingStep, PTL DEF Spec

\* A step takes an entry away only for a newer one, for the failure of its own
\* command, at the end of its window, or for the user.
LEMMA EntryGivesWay ==
    ASSUME SettlingInv, EntryNamesItsWriter, [Next]_vars, NEW k \in Keys, cache'[k] # cache[k]
    PROVE  \/ cache'[k] > cache[k]
           \/ cache'[k] = 0 /\ (k \in lapsed \/ ClearCache \/ ReleasedByFailure(k))
<1>0. items \in [ItemId -> Item] /\ cache[k] \in ItemId \cup {0} /\ nextItem \in Nat /\ nextItem # 0
  BY DEF SettlingInv, TypeInv, TypeOK
<1>1. ASSUME NEW s \in Skills, SearchKinds(s) PROVE cache'[k] > cache[k]
  <2>1. PICK r \in RunId \cup {0}, result \in Result : Fileable(result) /\ Record(r, result)
    BY <1>1, SearchRows DEF SettlingInv
  <2>2. cache'[k] = nextItem
    BY <2>1, FilingEntry DEF SettlingInv
  <2> QED
    BY <1>0, <2>2, WrittenEntry DEF SettlingInv, ItemId
<1>2. CASE CrashRestart
  BY <1>2 DEF CrashRestart
<1>3. CASE OtherKinds
  <2>1. CASE VerifyResolve /\ cache'[k] = 0 /\ cache[k] = verify.item /\ verify.verdict = "failed"
    <3>1. PICK i : i = cache[k]
      OBVIOUS
    <3>2. i \in ItemId
      BY <1>0, <2>1, <3>1
    <3>3. items[i].status = "submitted"
      BY <2>1, <3>1 DEF VerifyResolve, SettlingInv, PassAsksOpenItems
    <3>4. items[i].cmd # 0
      BY <3>2, <3>3 DEF SettlingInv, ItemsWritten
    <3>5. items'[i] = [items[i] EXCEPT !.status = "failed"]
      BY <2>1, <3>1, <3>2, VerdictMoves DEF SettlingInv
    <3>6. items'[i].cmd # 0 /\ items'[i].status = "failed"
      BY <1>0, <3>2, <3>4, <3>5, RowFields
    <3> QED
      BY <2>1, <3>1, <3>6 DEF ReleasedByFailure
  <2> QED
    BY <1>3, <2>1, EntryMoves DEF SettlingInv
<1> QED
  BY <1>1, <1>2, <1>3, StepKinds DEF SettlingInv

\* EntriesStay: the late verdict of an older command never unblocks a title
\* that a newer search holds.
THEOREM EntriesGiveWay == Spec => EntriesStay
<1>1. SettlingInv /\ EntryNamesItsWriter /\ [Next]_vars =>
        [\A k \in Keys : cache'[k] # cache[k] =>
           \/ cache'[k] > cache[k]
           \/ /\ cache'[k] = 0
              /\ k \in lapsed \/ ClearCache \/ ReleasedByFailure(k)]_vars
  BY EntryGivesWay
<1> QED
  BY <1>1, SettlingInit, SettlingStep, EntriesNameWriters, PTL DEF Spec, EntriesStay

-----------------------------------------------------------------------------
(* The verdict of a run *)

\* The decision table of aggregate_run_status settles a run only when no item
\* is open, and then as the items add up.
LEMMA AggregateAgrees ==
    ASSUME NEW statuses, statuses \subseteq ItemStatuses, AggregateRunStatus(statuses) \in SettledStatuses
    PROVE  "submitted" \notin statuses /\ AggregateRunStatus(statuses) = VerdictOf(statuses)
<1>1. "submitted" \notin statuses
  BY DEF AggregateRunStatus, SettledStatuses
<1> DEFINE done == statuses \cap DoneStatuses
           undone == statuses \ DoneStatuses
<1>2. undone \subseteq {"failed", "expired"}
  BY <1>1 DEF ItemStatuses, ItemVerdicts
<1>3. CASE undone = {}
  <2>1. AggregateRunStatus(statuses) = "success"
    BY <1>1, <1>3 DEF AggregateRunStatus
  <2>2. VerdictOf(statuses) = "success"
    BY <1>3 DEF VerdictOf
  <2> QED
    BY <1>1, <2>1, <2>2
<1>4. CASE undone # {} /\ done # {}
  <2>1. AggregateRunStatus(statuses) = "partial"
    BY <1>1, <1>4 DEF AggregateRunStatus
  <2>2. VerdictOf(statuses) = "partial"
    BY <1>4 DEF VerdictOf
  <2> QED
    BY <1>1, <2>1, <2>2
<1>5. CASE undone # {} /\ done = {} /\ "failed" \in undone
  <2>1. AggregateRunStatus(statuses) = "failed"
    BY <1>1, <1>5 DEF AggregateRunStatus
  <2>2. VerdictOf(statuses) = "failed"
    BY <1>5 DEF VerdictOf
  <2> QED
    BY <1>1, <2>1, <2>2
<1>6. CASE undone # {} /\ done = {} /\ "failed" \notin undone
  <2>1. undone = {"expired"} /\ "failed" \notin statuses
    BY <1>2, <1>6 DEF DoneStatuses
  <2>2. AggregateRunStatus(statuses) = "unverified"
    BY <1>1, <1>6, <2>1 DEF AggregateRunStatus
  <2>3. VerdictOf(statuses) = "unverified"
    BY <1>6, <2>1 DEF VerdictOf
  <2> QED
    BY <1>1, <2>2, <2>3
<1> QED
  BY <1>3, <1>4, <1>5, <1>6

\* A run whose items stay, with their statuses, adds up to the same.
LEMMA SameItems ==
    ASSUME NEW r,
           \A i \in ItemId : /\ items'[i].live /\ items'[i].run = r <=> items[i].live /\ items[i].run = r
                             /\ items[i].live /\ items[i].run = r => items'[i].status = items[i].status
    PROVE  /\ StatusesOf(r)' = StatusesOf(r)
           /\ AwaitsVerdict(r)' <=> AwaitsVerdict(r)
  BY DEF StatusesOf, ItemsOf, LiveItems, AwaitsVerdict, OpenItems

\* A settled run stays the sum of its items.
LEMMA VerdictStep ==
    ASSUME SettlingInv, VerdictMatchesItems, [Next]_vars PROVE VerdictMatchesItems'
<1>0. items \in [ItemId -> Item] /\ runs \in [RunId -> RunStatuses]
  BY DEF SettlingInv, TypeInv, TypeOK
<1>a. {"none", "running", "pending", "error", "deleted"} \cap SettledStatuses = {}
  BY DEF SettledStatuses
<1> SUFFICES ASSUME NEW r \in RunId, runs'[r] \in SettledStatuses
             PROVE  ~AwaitsVerdict(r)' /\ runs'[r] = VerdictOf(StatusesOf(r)')
  BY DEF VerdictMatchesItems
<1>1. CASE runs'[r] = AggregateRunStatus(StatusesOf(r)) /\ UNCHANGED items
  <2>1. StatusesOf(r) \subseteq ItemStatuses
    <3>1. \A i \in ItemId : items[i].live => i < nextItem
      BY DEF SettlingInv, TypeInv, TypeOK, ItemsWritten, NoItem, ItemId
    <3> QED
      BY <3>1 DEF StatusesOf, ItemsOf, LiveItems, SettlingInv, ItemsWritten
  <2>2. "submitted" \notin StatusesOf(r) /\ runs'[r] = VerdictOf(StatusesOf(r))
    BY <1>1, <2>1, AggregateAgrees
  <2>3. ~AwaitsVerdict(r)
    BY <2>2 DEF StatusesOf, ItemsOf, LiveItems, AwaitsVerdict, OpenItems
  <2>4. StatusesOf(r)' = StatusesOf(r) /\ (AwaitsVerdict(r)' <=> AwaitsVerdict(r))
    BY <1>1 DEF StatusesOf, ItemsOf, LiveItems, AwaitsVerdict, OpenItems
  <2> QED
    BY <2>2, <2>3, <2>4
<1>2. ASSUME runs'[r] = runs[r],
             \A i \in ItemId : /\ items'[i].live /\ items'[i].run = r <=> items[i].live /\ items[i].run = r
                               /\ items[i].live /\ items[i].run = r => items'[i].status = items[i].status
      PROVE  ~AwaitsVerdict(r)' /\ runs'[r] = VerdictOf(StatusesOf(r)')
  <2>1. StatusesOf(r)' = StatusesOf(r) /\ (AwaitsVerdict(r)' <=> AwaitsVerdict(r))
    BY <1>2, SameItems
  <2> QED
    BY <1>2, <2>1 DEF VerdictMatchesItems
<1>3. ASSUME NEW s \in Skills, SearchKinds(s) PROVE ~AwaitsVerdict(r)' /\ runs'[r] = VerdictOf(StatusesOf(r)')
  <2>1. CASE runs'[r] # runs[r]
    BY <1>a, <1>1, <1>3, <2>1, SearchRuns
  <2>2. CASE runs'[r] = runs[r] /\ UNCHANGED items
    BY <1>2, <2>2
  <2>3. ASSUME runs'[r] = runs[r], NEW q \in RunId \cup {0}, NEW result \in Result,
               Fileable(result), Record(q, result), q \in RunId => runs[q] \in {"running", "error"}
        PROVE  ~AwaitsVerdict(r)' /\ runs'[r] = VerdictOf(StatusesOf(r)')
    <3>1. q # r
      BY <1>a, <2>3
    <3>2. /\ items[nextItem] = NoItem /\ items'[nextItem] = NewItem(q, result)
          /\ \A i \in ItemId : i # nextItem => items'[i] = items[i]
      BY <2>3, Filing DEF SettlingInv
    <3>3. items'[nextItem].run = q /\ ~items[nextItem].live
      BY <3>2 DEF NewItem, NoItem
    <3> QED
      BY <1>2, <2>3, <3>1, <3>2, <3>3
  <2> QED
    BY <1>3, <2>1, <2>2, <2>3, FiledRun
<1>4. CASE CrashRestart
  <2>1. runs'[r] = runs[r] /\ UNCHANGED items
    BY <1>0, <1>a, <1>4 DEF CrashRestart
  <2> QED
    BY <1>2, <2>1
<1>5. CASE OtherKinds
  <2>1. CASE runs'[r] # runs[r]
    BY <1>a, <1>1, <1>5, <2>1, RunMoves DEF SettlingInv
  <2>2. CASE runs'[r] = runs[r]
    <3>1. ~AwaitsVerdict(r)
      BY <2>2 DEF VerdictMatchesItems
    <3>2. CASE RowsStay
      BY <1>2, <1>a, <2>2, <3>2 DEF RowsStay
    <3>3. ASSUME NEW i \in ItemId, items[i].status = "submitted"
          PROVE  ~(items[i].live /\ items[i].run = r)
      BY <3>1, <3>3 DEF AwaitsVerdict, OpenItems, LiveItems
    <3>4. CASE \A i \in ItemId : \/ items'[i] = items[i]
                                \/ /\ items[i].status = "submitted"
                                   /\ \E status : items'[i] = [items[i] EXCEPT !.status = status]
      <4>1. ASSUME NEW i \in ItemId
            PROVE  /\ items'[i].live /\ items'[i].run = r <=> items[i].live /\ items[i].run = r
                   /\ items[i].live /\ items[i].run = r => items'[i].status = items[i].status
        <5>1. CASE items'[i] = items[i]
          BY <5>1
        <5>2. CASE items'[i] # items[i]
          <6>1. PICK status : items'[i] = [items[i] EXCEPT !.status = status]
            BY <3>4, <5>2
          <6>2. items[i] \in Item
            BY <1>0
          <6>3. items'[i].run = items[i].run /\ items'[i].live = items[i].live
            BY <6>1, <6>2, RowFields
          <6> QED
            BY <3>3, <3>4, <5>2, <6>3
        <5> QED
          BY <5>1, <5>2
      <4> QED
        BY <1>2, <2>2, <4>1
    <3>5. CASE VerifyResolve
      <4>1. verify.item \in verify.batch /\ items[verify.item].status = "submitted"
        BY <3>5 DEF VerifyResolve, SettlingInv, PassAsksOpenItems
      <4> QED
        BY <3>4, <3>5, <4>1, VerdictMoves DEF SettlingInv
    <3>6. CASE VerifyExpire
      BY <3>4, <3>6, VerdictMoves DEF SettlingInv
    <3> QED
      BY <1>5, <3>2, <3>5, <3>6, RowMoves DEF SettlingInv
  <2> QED
    BY <2>1, <2>2
<1> QED
  BY <1>3, <1>4, <1>5, StepKinds DEF SettlingInv

\* VerdictMatchesItems: whichever run files a late result, the verdict of a
\* run is the one its items add up to, and none of them is open.
THEOREM VerdictsMatchItems == Spec => []VerdictMatchesItems
<1>1. Init => VerdictMatchesItems
  BY DEF Init, VerdictMatchesItems, SettledStatuses
<1>2. SettlingInv /\ VerdictMatchesItems /\ [Next]_vars => VerdictMatchesItems'
  BY VerdictStep
<1> QED
  BY <1>1, <1>2, SettlingInit, SettlingStep, PTL DEF Spec

-----------------------------------------------------------------------------
(* Where a command is *)

\* Whatever is written down about a command, *arr accepted it, and the
\* attempts so far name every accepted one.
KnownSent ==
    /\ \A c \in CmdId : c \in InHand \cup Buffered \cup lost => c \in Sent
    /\ \A i \in ItemId : items[i].cmd # 0 => items[i].cmd \in Sent
    /\ \A c \in Sent : c <= attempts

\* No two searches hold the same command, no two kept results are of the same
\* one, and what is held is not kept, what is either is not lost.
HandsDistinct ==
    /\ \A s, t \in Skills :
          searcher[s].result.cmd # 0 /\ searcher[s].result.cmd = searcher[t].result.cmd => s = t
    /\ \A m, n \in DOMAIN unsaved :
          unsaved[m].result.cmd # 0 /\ unsaved[m].result.cmd = unsaved[n].result.cmd => m = n
    /\ \A s \in Skills, n \in DOMAIN unsaved :
          searcher[s].result.cmd # 0 => unsaved[n].result.cmd # searcher[s].result.cmd
    /\ lost \cap (InHand \cup Buffered) = {}

\* RecordedOnce, with what makes it inductive.
PlaceInv ==
    /\ SettlingInv
    /\ AccountInv
    /\ KnownSent
    /\ HandsDistinct
    /\ RecordedOnce

Dropping(s) == searcher[s].pc = "dropping"

\* A step that moves no command from its place.
LEMMA PlacesStay ==
    ASSUME KnownSent, HandsDistinct, RecordedOnce,
           \A s \in Skills : searcher'[s].result.cmd = searcher[s].result.cmd /\ (Dropping(s)' <=> Dropping(s)),
           \A i \in ItemId : items'[i].cmd = items[i].cmd,
           Sent' = Sent,
           UNCHANGED <<unsaved, lost, attempts>>
    PROVE  KnownSent' /\ HandsDistinct' /\ RecordedOnce'
<1>1. InHand' = InHand /\ Buffered' = Buffered
  BY DEF InHand, Buffered
<1>2. KnownSent'
  BY <1>1 DEF KnownSent
<1>3. HandsDistinct'
  BY <1>1 DEF HandsDistinct
<1>4. RecordedOnce'
  BY <1>1 DEF RecordedOnce, Dropping
<1> QED
  BY <1>2, <1>3, <1>4

\* Filing a command that has no item yet.
LEMMA FiledOnce ==
    ASSUME TypeInv, ItemsWritten, NEW r \in RunId \cup {0}, NEW result, Fileable(result), Record(r, result)
    PROVE  /\ items'[nextItem].cmd = result.cmd
           /\ nextItem \in ItemId
           /\ \A i \in ItemId : i # nextItem => items'[i] = items[i]
           /\ items[nextItem].cmd = 0
<1>1. /\ nextItem \in ItemId
      /\ items[nextItem] = NoItem /\ items'[nextItem] = NewItem(r, result)
      /\ \A i \in ItemId : i # nextItem => items'[i] = items[i]
  BY Filing
<1>2. NewItem(r, result).cmd = result.cmd /\ NoItem.cmd = 0
  BY DEF NewItem, NoItem
<1> QED
  BY <1>1, <1>2

LEMMA PlaceInit == Init => PlaceInv
<1> SUFFICES ASSUME Init PROVE PlaceInv
  OBVIOUS
<1>1. Sent = {} /\ lost = {}
  BY DEF Init, Sent, NoCommand
<1>2. InHand = {}
  BY DEF Init, InHand, IdleSearcher, NoResult, CmdId
<1>6. Buffered = {}
  <2>1. DOMAIN unsaved = {}
    BY DEF Init
  <2> QED
    BY <2>1 DEF Buffered
<1>3. KnownSent
  BY <1>1, <1>2, <1>6 DEF Init, KnownSent, NoItem
<1>4. HandsDistinct
  BY <1>1 DEF Init, HandsDistinct, IdleSearcher, NoResult
<1>5. RecordedOnce
  BY DEF Init, RecordedOnce, NoItem
<1> QED
  BY <1>3, <1>4, <1>5, SettlingInit, AccountInit DEF PlaceInv

\* Steps of a search that leave every command where it is.
LEMMA IdleHands ==
    ASSUME PlaceInv, NEW s \in Skills, Starts(s) \/ Quiet(s) \/ Closes(s)
    PROVE  KnownSent' /\ HandsDistinct' /\ RecordedOnce'
<1>1. UNCHANGED <<items, unsaved, lost, attempts, arr>> /\ Others(s)
  BY DEF Starts, Quiet, Closes, dbVars, ghostVars
<1>2. searcher[s].pc # "storing" => searcher[s].result.cmd = 0
  BY DEF PlaceInv, AccountInv, HandsAgree
<1>3. searcher'[s].result.cmd = searcher[s].result.cmd /\ (Dropping(s)' <=> Dropping(s))
  BY <1>2 DEF Starts, Quiet, Closes, Dropping, IdleSearcher, NoResult
<1>4. Sent' = Sent
  BY <1>1 DEF Sent
<1> QED
  BY <1>1, <1>3, <1>4, PlacesStay DEF Others, Dropping, PlaceInv

\* The first kept result is filed: only now it has an item.
LEMMA KeptIsFiledOnce ==
    ASSUME PlaceInv, NEW s \in Skills, FilesKept(s)
    PROVE  KnownSent' /\ HandsDistinct' /\ RecordedOnce'
<1>0. unsaved \in Seq(Unsaved) /\ TypeInv /\ ItemsWritten /\ ResultsAgree /\ items \in [ItemId -> Item]
  BY DEF PlaceInv, SettlingInv, TypeInv, TypeOK
<1> DEFINE head == Head(unsaved).result
           r == FiledUnder(s, Head(unsaved))
<1>1. r \in RunId \cup {0} /\ Fileable(head) /\ Record(r, head)
  BY <1>0, FiledResults DEF FilesKept
<1>2. /\ items'[nextItem].cmd = head.cmd /\ nextItem \in ItemId
      /\ \A i \in ItemId : i # nextItem => items'[i] = items[i]
      /\ items[nextItem].cmd = 0
  BY <1>0, <1>1, FiledOnce
<1>3. 1 \in DOMAIN unsaved /\ unsaved[1].result = head
  BY <1>0 DEF FilesKept
<1>4. head.cmd # 0 => head.cmd \in Buffered
  <2>1. head.cmd \in CmdId \cup {0}
    BY <1>0, HeadCommand DEF FilesKept
  <2> QED
    BY <1>3, <2>1 DEF Buffered
<1> HIDE DEF head, r
<1>5. \A t \in Skills : ~Dropping(t)
  BY DEF FilesKept, PlaceInv, AccountInv, OneAtTheList, AtTheList, Dropping
<1>6. \A i \in ItemId : items[i].cmd # 0 => items[i].cmd \notin Buffered
  BY <1>5 DEF PlaceInv, RecordedOnce, Dropping
<1>7. /\ UNCHANGED <<unsaved, lost, attempts, arr>>
      /\ \A t \in Skills : searcher'[t].result = searcher[t].result
      /\ Dropping(s)'
  BY DEF FilesKept, SameButPc, Others, ghostVars, Dropping
<1>8. InHand' = InHand /\ Buffered' = Buffered /\ Sent' = Sent
  BY <1>7 DEF InHand, Buffered, Sent
<1>9. head.cmd # 0 => head.cmd \in CmdId /\ head.cmd \in Sent /\ head.cmd \notin InHand
  BY <1>3, <1>4 DEF PlaceInv, KnownSent, HandsDistinct, InHand, Buffered
<1>10. KnownSent'
  BY <1>2, <1>7, <1>8, <1>9 DEF PlaceInv, KnownSent
<1>11. HandsDistinct'
  BY <1>7, <1>8 DEF PlaceInv, HandsDistinct
<1>12. RecordedOnce'
  <2>1. ASSUME NEW i \in ItemId, items'[i].cmd # 0
        PROVE  /\ items'[i].cmd \notin InHand
               /\ items'[i].cmd \in Buffered => i = nextItem
               /\ \A j \in ItemId : items'[j].cmd = items'[i].cmd => j = i
    BY <1>2, <1>4, <1>6, <1>9, <2>1 DEF PlaceInv, RecordedOnce
  <2>2. Head(unsaved').result.cmd = head.cmd
    BY <1>7 DEF head
  <2> QED
    BY <1>2, <1>7, <1>8, <2>1, <2>2 DEF RecordedOnce, Dropping
<1> QED
  BY <1>10, <1>11, <1>12

\* It leaves the list: no other entry is of the same command.
LEMMA DroppedOnce ==
    ASSUME PlaceInv, NEW s \in Skills, Drops(s)
    PROVE  KnownSent' /\ HandsDistinct' /\ RecordedOnce'
<1>0. unsaved \in Seq(Unsaved)
  BY DEF PlaceInv, SettlingInv, TypeInv, TypeOK
<1>1. /\ UNCHANGED <<items, lost, attempts, arr>>
      /\ \A t \in Skills : searcher'[t].result = searcher[t].result
  BY DEF Drops, SameButPc, Others, dbVars, ghostVars
<1>2. \A n \in DOMAIN unsaved' : n \in Nat /\ n # 0 /\ n + 1 \in DOMAIN unsaved /\ unsaved'[n] = unsaved[n + 1]
  BY <1>0, ListMoves DEF Drops
<1>3. InHand' = InHand /\ Sent' = Sent
  BY <1>1 DEF InHand, Sent
<1>4. \A c \in CmdId : c \in Buffered' => c \in Buffered
  BY <1>2 DEF Buffered
<1>5. KnownSent'
  BY <1>1, <1>3, <1>4 DEF PlaceInv, KnownSent
<1>6. HandsDistinct'
  <2>1. \A m, n \in DOMAIN unsaved' : unsaved'[m].result.cmd # 0 /\ unsaved'[m].result.cmd = unsaved'[n].result.cmd => m = n
    <3> SUFFICES ASSUME NEW m \in DOMAIN unsaved', NEW n \in DOMAIN unsaved',
                        unsaved'[m].result.cmd # 0, unsaved'[m].result.cmd = unsaved'[n].result.cmd
                 PROVE  m = n
      OBVIOUS
    <3>1. m + 1 = n + 1
      BY <1>2 DEF PlaceInv, HandsDistinct
    <3> QED
      BY <1>2, <3>1
  <2>2. Buffered' \subseteq Buffered
    BY <1>4 DEF Buffered
  <2> QED
    BY <1>1, <1>2, <1>3, <2>1, <2>2 DEF PlaceInv, HandsDistinct
<1>7. RecordedOnce'
  <2>1. ASSUME NEW i \in ItemId, items[i].cmd # 0, items[i].cmd \in Buffered' PROVE FALSE
    <3>1. items[i].cmd \in CmdId /\ items[i].cmd \in Buffered
      BY <1>4, <2>1 DEF Buffered
    <3>2. Head(unsaved).result.cmd = items[i].cmd
      BY <2>1, <3>1 DEF PlaceInv, RecordedOnce
    <3>3. PICK n \in DOMAIN unsaved' : unsaved'[n].result.cmd = items[i].cmd
      BY <2>1 DEF Buffered
    <3>4. 1 \in DOMAIN unsaved /\ Head(unsaved) = unsaved[1]
      BY <1>0 DEF Drops
    <3>5. n + 1 = 1
      BY <1>2, <2>1, <3>2, <3>3, <3>4 DEF PlaceInv, HandsDistinct
    <3> QED
      BY <1>2, <3>3, <3>5
  <2> QED
    BY <1>1, <1>3, <2>1 DEF PlaceInv, RecordedOnce
<1> QED
  BY <1>5, <1>6, <1>7

\* A title is tried: the command *arr accepted is a new one.
LEMMA TriedOnce ==
    ASSUME PlaceInv, NEW s \in Skills, Tries(s)
    PROVE  KnownSent' /\ HandsDistinct' /\ RecordedOnce'
<1>0. attempts \in Nat /\ arr \in [CmdId -> Command]
  BY BoundsAssumption DEF PlaceInv, SettlingInv, TypeInv, TypeOK
<1> DEFINE new == attempts + 1
<1>1. /\ UNCHANGED <<items, unsaved>> /\ attempts' = new /\ new \in CmdId
      /\ \A t \in Skills : t # s => searcher'[t] = searcher[t]
      /\ searcher[s].pc = "loop" /\ searcher'[s].pc = "storing"
  BY DEF Tries, Others, dbVars
<1>2. new \notin Sent /\ \A c \in Sent : c < new
  BY <1>0 DEF PlaceInv, KnownSent, Sent, CmdId
<1>3. \/ searcher'[s].result.cmd = new /\ Sent' = Sent \cup {new} /\ lost' = lost
      \/ searcher'[s].result.cmd = 0 /\ Sent' = Sent /\ lost' = lost
      \/ searcher'[s].result.cmd = 0 /\ Sent' = Sent \cup {new} /\ lost' = lost \cup {new}
  <2>1. UNCHANGED arr => Sent' = Sent
    BY DEF Sent
  <2>2. ASSUME NEW k \in Keys, ArrAccepts(k) PROVE Sent' = Sent \cup {new}
    BY <1>0, <1>1, <2>2 DEF ArrAccepts, Sent
  <2> QED
    BY <2>1, <2>2 DEF Tries, Answered
<1>4. searcher[s].result.cmd = 0
  BY <1>1 DEF PlaceInv, AccountInv, HandsAgree
<1>12. new # 0
  BY <1>0
<1> HIDE DEF new
<1>5. Buffered' = Buffered
  BY <1>1 DEF Buffered
<1>6. new \notin InHand \cup Buffered \cup lost /\ \A i \in ItemId : items[i].cmd # new
  BY <1>1, <1>2 DEF PlaceInv, KnownSent, CmdId
<1>7. \A c \in InHand' : c \in InHand \/ (c = new /\ searcher'[s].result.cmd = new)
  BY <1>1, <1>3 DEF InHand, CmdId
<1>8. KnownSent'
  <2>1. \A c \in CmdId : c \in InHand' \cup Buffered' \cup lost' => c \in Sent'
    BY <1>3, <1>12, <1>5, <1>7 DEF PlaceInv, KnownSent
  <2>2. \A c \in Sent' : c <= attempts'
    <3>1. \A c \in Sent' : c \in Sent \/ c = new
      BY <1>3
    <3>2. \A c \in Sent : c \in Int
      BY DEF Sent, CmdId
    <3>3. new \in Int
      BY <1>0 DEF new
    <3> QED
      BY <1>1, <1>2, <3>1, <3>2, <3>3
  <2> QED
    BY <1>1, <1>3, <2>1, <2>2 DEF PlaceInv, KnownSent
<1>9. HandsDistinct'
  <2>1. \A t \in Skills : t # s => searcher[t].result.cmd # new
    BY <1>1, <1>6 DEF InHand
  <2>2. \A n \in DOMAIN unsaved : unsaved[n].result.cmd # new
    BY <1>1, <1>6 DEF Buffered
  <2>3. lost' \cap (InHand' \cup Buffered') = {}
    <3>1. \A c \in InHand' \cup Buffered' : c \notin lost
      BY <1>5, <1>6, <1>7 DEF PlaceInv, HandsDistinct
    <3>2. lost' = lost \/ (lost' = lost \cup {new} /\ searcher'[s].result.cmd = 0)
      BY <1>3
    <3> QED
      BY <3>1, <3>2, <1>12, <1>5, <1>6, <1>7
  <2> QED
    BY <1>1, <1>3, <2>1, <2>2, <2>3 DEF PlaceInv, HandsDistinct
<1>10. RecordedOnce'
  <2>1. \A t \in Skills : Dropping(t)' <=> Dropping(t)
    BY <1>1 DEF Dropping
  <2> QED
    BY <1>1, <1>5, <1>6, <1>7, <2>1 DEF PlaceInv, RecordedOnce, Dropping
<1> QED
  BY <1>8, <1>9, <1>10

\* The result in hand is filed, or forgotten when the title was skipped.
LEMMA HandIsFiledOnce ==
    ASSUME PlaceInv, NEW s \in Skills, FilesHand(s)
    PROVE  KnownSent' /\ HandsDistinct' /\ RecordedOnce'
<1>0. TypeInv /\ ItemsWritten /\ ResultsAgree /\ items \in [ItemId -> Item] /\ searcher[s] \in Searcher
  BY DEF PlaceInv, SettlingInv, TypeInv, TypeOK
<1> DEFINE cmd == searcher[s].result.cmd
<1>1. /\ UNCHANGED <<unsaved, lost, attempts, arr>>
      /\ \A t \in Skills : t # s => searcher'[t] = searcher[t]
      /\ searcher[s].pc = "storing" /\ searcher'[s].pc = "loop" /\ searcher'[s].result.cmd = 0
  BY DEF FilesHand, Others, ghostVars, NoResult
<1>2. cmd # 0 => cmd \in InHand
  BY <1>0 DEF InHand, Searcher, Result
<1>3. Sent' = Sent /\ Buffered' = Buffered
  BY <1>1 DEF Sent, Buffered
<1>4. \A c \in InHand' : c \in InHand /\ c # cmd
  BY <1>1 DEF InHand, CmdId, PlaceInv, HandsDistinct
<1>5. cmd # 0 => cmd \notin Buffered /\ cmd \in Sent
  BY <1>2 DEF PlaceInv, HandsDistinct, KnownSent, Buffered, InHand
<1>6. \A t \in Skills : Dropping(t)' <=> Dropping(t)
  BY <1>1 DEF Dropping
<1>7. HandsDistinct'
  BY <1>1, <1>3, <1>4 DEF PlaceInv, HandsDistinct
<1>8. CASE UNCHANGED dbVars
  <2>1. UNCHANGED items
    BY <1>8 DEF dbVars
  <2>2. KnownSent' /\ RecordedOnce'
    BY <1>1, <1>3, <1>4, <1>6, <2>1 DEF PlaceInv, KnownSent, RecordedOnce, Dropping
  <2> QED
    BY <1>7, <2>2
<1>9. CASE Fileable(searcher[s].result) /\ Record(searcher[s].run, searcher[s].result)
  <2>1. /\ items'[nextItem].cmd = cmd /\ nextItem \in ItemId
        /\ \A i \in ItemId : i # nextItem => items'[i] = items[i]
        /\ items[nextItem].cmd = 0
    BY <1>0, <1>9, FiledOnce, FiledResults
  <2> HIDE DEF cmd
  <2>2. KnownSent'
    BY <1>1, <1>3, <1>4, <1>5, <2>1 DEF PlaceInv, KnownSent
  <2>3. ASSUME NEW i \in ItemId, items'[i].cmd # 0
        PROVE  /\ items'[i].cmd \notin InHand'
               /\ items'[i].cmd \in Buffered => \E t \in Skills : Dropping(t) /\ Head(unsaved).result.cmd = items'[i].cmd
               /\ \A j \in ItemId : items'[j].cmd = items'[i].cmd => j = i
    BY <1>2, <1>4, <1>5, <2>1, <2>3 DEF PlaceInv, RecordedOnce, Dropping
  <2>4. RecordedOnce'
    BY <1>1, <1>3, <1>6, <2>3 DEF RecordedOnce, Dropping
  <2> QED
    BY <1>7, <2>2, <2>4
<1> QED
  BY <1>0, <1>8, <1>9, FiledResults

\* The result in hand is kept in memory, or given up.
LEMMA HandIsKeptOnce ==
    ASSUME PlaceInv, NEW s \in Skills, KeepsHand(s)
    PROVE  KnownSent' /\ HandsDistinct' /\ RecordedOnce'
<1>0. unsaved \in Seq(Unsaved) /\ ResultsAgree /\ searcher[s] \in Searcher
  BY DEF PlaceInv, SettlingInv, TypeInv, TypeOK
<1> DEFINE cmd == searcher[s].result.cmd
<1>1. /\ UNCHANGED <<items, lost, attempts, arr>>
      /\ \A t \in Skills : t # s => searcher'[t] = searcher[t]
      /\ searcher[s].pc = "storing" /\ searcher'[s].pc = "loop" /\ searcher'[s].result.cmd = 0
  BY DEF KeepsHand, Others, dbVars, ghostVars, NoResult
<1>2. cmd # 0 => cmd \in InHand
  BY <1>0 DEF InHand, Searcher, Result
<1>3. Sent' = Sent
  BY <1>1 DEF Sent
<1>4. \A c \in InHand' : c \in InHand /\ c # cmd
  BY <1>1 DEF InHand, CmdId, PlaceInv, HandsDistinct
<1>5. \A t \in Skills : Dropping(t)' <=> Dropping(t)
  BY <1>1 DEF Dropping
<1>6. CASE UNCHANGED unsaved
  <2>1. Buffered' = Buffered
    BY <1>6 DEF Buffered
  <2> QED
    BY <1>1, <1>3, <1>4, <1>5, <1>6, <2>1 DEF PlaceInv, KnownSent, HandsDistinct, RecordedOnce, Dropping
<1>7. CASE UnsavedFree /\ unsaved' = Append(unsaved, [run |-> searcher[s].run, result |-> searcher[s].result])
  <2>1. \A n \in DOMAIN unsaved' :
          \/ n \in DOMAIN unsaved /\ unsaved'[n] = unsaved[n]
          \/ n = Len(unsaved) + 1 /\ unsaved'[n].result.cmd = cmd
    BY <1>0, <1>7, ListMoves
  <2> HIDE DEF cmd
  <2>2. \A c \in Buffered' : c \in Buffered \/ c = cmd
    BY <2>1 DEF Buffered
  <2>3. \A i \in ItemId : items[i].cmd # 0 => items[i].cmd \notin Buffered /\ items[i].cmd \notin InHand
    BY <1>7 DEF UnsavedFree, PlaceInv, RecordedOnce
  <2>4. KnownSent'
    BY <1>1, <1>2, <1>3, <1>4, <2>2 DEF PlaceInv, KnownSent, CmdId
  <2>5. HandsDistinct'
    <3>1. \A n \in DOMAIN unsaved : cmd # 0 => unsaved[n].result.cmd # cmd
      BY DEF PlaceInv, HandsDistinct, cmd
    <3>2. \A m, n \in DOMAIN unsaved' : unsaved'[m].result.cmd # 0 /\ unsaved'[m].result.cmd = unsaved'[n].result.cmd => m = n
      BY <2>1, <3>1 DEF PlaceInv, HandsDistinct
    <3>3. \A t \in Skills, n \in DOMAIN unsaved' :
            searcher'[t].result.cmd # 0 => unsaved'[n].result.cmd # searcher'[t].result.cmd
      BY <1>1, <2>1 DEF PlaceInv, HandsDistinct, cmd
    <3>4. lost' \cap (InHand' \cup Buffered') = {}
      BY <1>1, <1>2, <1>4, <2>2 DEF PlaceInv, HandsDistinct, Buffered, CmdId
    <3> QED
      BY <1>1, <3>2, <3>3, <3>4 DEF PlaceInv, HandsDistinct
  <2>6. RecordedOnce'
    BY <1>1, <1>2, <1>4, <2>2, <2>3 DEF PlaceInv, RecordedOnce
  <2> QED
    BY <2>4, <2>5, <2>6
<1> QED
  BY <1>6, <1>7 DEF KeepsHand

\* The steps of others move no command, and *arr accepts none.
LEMMA OthersKeepPlaces ==
    ASSUME PlaceInv, OtherKinds
    PROVE  Sent' = Sent /\ \A i \in ItemId : items'[i].cmd = items[i].cmd
<1>0. items \in [ItemId -> Item] /\ arr \in [CmdId -> Command] /\ TypeInv
  BY DEF PlaceInv, SettlingInv, TypeInv, TypeOK
<1>1. Sent' = Sent
  <2>1. CASE UNCHANGED arr
    BY <2>1 DEF Sent
  <2>2. ASSUME NEW c \in CmdId, ArrSettles(c) \/ ArrForgets(c) PROVE Sent' = Sent
    BY <1>0, <2>2 DEF ArrSettles, ArrForgets, Sent, Command
  <2>3. ~ArrMoves => UNCHANGED arr
    BY DEF OtherKinds, PassMoves, VerifyStart, VerifyList, VerifyDone, VerifyStopped, VerifyFails, VerifyAsk,
           VerifyResolve, Ages, VerifyMark, ItemAges, VerifyExpire, VerifySettle, Deletes, DeleteRuns,
           EntriesGo, ClearCache, EntryLapses, PurgeEntry, vars, verifyFrame, idleFrame
  <2> QED
    BY <2>1, <2>2, <2>3 DEF ArrMoves
<1>2. ASSUME NEW i \in ItemId PROVE items'[i].cmd = items[i].cmd
  <2>1. items[i] \in Item
    BY <1>0
  <2>2. CASE RowsStay
    BY <2>2 DEF RowsStay
  <2>3. CASE \E status : items'[i] = [items[i] EXCEPT !.status = status]
    BY <2>1, <2>3, RowFields
  <2>4. CASE VerifyResolve \/ VerifyExpire
    <3>1. items'[i] = items[i] \/ \E status : items'[i] = [items[i] EXCEPT !.status = status]
      BY <1>0, <2>4, VerdictMoves
    <3> QED
      BY <2>3, <3>1
  <2> QED
    BY <1>0, <2>2, <2>4, RowMoves
<1> QED
  BY <1>1, <1>2

LEMMA PlaceStep == PlaceInv /\ [Next]_vars => PlaceInv'
<1> SUFFICES ASSUME PlaceInv, [Next]_vars PROVE PlaceInv'
  OBVIOUS
<1>1. SettlingInv' /\ AccountInv'
  BY SettlingStep, AccountStep DEF PlaceInv, SettlingInv
<1>2. KnownSent' /\ HandsDistinct' /\ RecordedOnce'
  <2>1. ASSUME NEW s \in Skills, SearchKinds(s) PROVE KnownSent' /\ HandsDistinct' /\ RecordedOnce'
    BY <2>1, IdleHands, KeptIsFiledOnce, DroppedOnce, TriedOnce, HandIsFiledOnce, HandIsKeptOnce DEF SearchKinds
  <2>2. CASE CrashRestart
    <3>1. /\ UNCHANGED <<items, arr, attempts>>
          /\ lost' = lost \cup InHand \cup Buffered
          /\ unsaved' = <<>>
          /\ \A s \in Skills : searcher'[s].result.cmd = 0
      BY <2>2 DEF CrashRestart, IdleSearcher, NoResult
    <3>2. InHand' = {} /\ Buffered' = {} /\ Sent' = Sent
      <4>1. DOMAIN unsaved' = {}
        BY <3>1
      <4>2. Buffered' = {}
        BY <4>1 DEF Buffered
      <4> QED
        BY <3>1, <4>2 DEF InHand, Sent, CmdId
    <3>3. KnownSent'
      BY <3>1, <3>2 DEF PlaceInv, KnownSent
    <3>4. HandsDistinct'
      BY <3>1, <3>2 DEF HandsDistinct
    <3>5. RecordedOnce'
      BY <3>1, <3>2 DEF PlaceInv, RecordedOnce
    <3> QED
      BY <3>3, <3>4, <3>5
  <2>3. CASE OtherKinds
    BY <2>3, OthersLeave, OthersKeepPlaces, PlacesStay DEF PlaceInv, Dropping
  <2> QED
    BY <2>1, <2>2, <2>3, StepKinds DEF PlaceInv, SettlingInv
<1> QED
  BY <1>1, <1>2 DEF PlaceInv

\* RecordedOnce: however many searches share the list, fail and start anew, no
\* command gets two items, nor an item while it is still in hand or in memory.
THEOREM CommandsRecordedOnce == Spec => []RecordedOnce
<1>1. PlaceInv => RecordedOnce
  BY DEF PlaceInv
<1> QED
  BY <1>1, PlaceInit, PlaceStep, PTL DEF Spec

-----------------------------------------------------------------------------
(* SearchLedger implements CommandTracking *)

\* What *arr did to a command bears the verdict out.
BornOut(c, verdict) ==
    \/ verdict \in {"completed", "failed"} /\ arr[c].state \in {verdict, "forgotten"}
    \/ verdict = "expired" /\ arr[c].state = "forgotten"

\* The answer the pass is about to write down still holds.
AnswerStands == verify.pc = "resolving" => BornOut(items[verify.item].cmd, verify.verdict)

TrackInv == PlaceInv /\ AnswerStands

\* Only a new command enters *arr, under its own name.
LEMMA ArrKinds ==
    ASSUME TypeInv, [Next]_vars
    PROVE  UNCHANGED arr \/ (attempts + 1 \in CmdId /\ \E k \in Keys : ArrAccepts(k)) \/ ArrMoves
<1>1. ASSUME NEW s \in Skills, SearchKinds(s)
      PROVE  UNCHANGED arr \/ (attempts + 1 \in CmdId /\ \E k \in Keys : ArrAccepts(k))
  BY <1>1 DEF SearchKinds, Starts, Quiet, FilesKept, Drops, Tries, Answered, FilesHand, KeepsHand, Closes
<1>2. CrashRestart => UNCHANGED arr
  BY DEF CrashRestart
<1>3. OtherKinds => UNCHANGED arr \/ ArrMoves
  BY DEF OtherKinds, PassMoves, VerifyStart, VerifyList, VerifyDone, VerifyStopped, VerifyFails, VerifyAsk,
         VerifyResolve, Ages, VerifyMark, ItemAges, VerifyExpire, VerifySettle, Deletes, DeleteRuns,
         EntriesGo, ClearCache, EntryLapses, PurgeEntry, vars, verifyFrame, idleFrame
<1> QED
  BY <1>1, <1>2, <1>3, StepKinds

\* A verdict *arr bore out once it always bears out.
LEMMA BornOutStays ==
    ASSUME TypeInv, KnownSent, [Next]_vars, NEW c \in Sent, NEW verdict, BornOut(c, verdict)
    PROVE  BornOut(c, verdict)'
<1>0. arr \in [CmdId -> Command] /\ attempts \in Int /\ c \in CmdId /\ c <= attempts
  BY BoundsAssumption DEF TypeInv, TypeOK, KnownSent, Sent
<1>1. CASE UNCHANGED arr
  BY <1>1 DEF BornOut
<1>2. ASSUME NEW k \in Keys, ArrAccepts(k) PROVE BornOut(c, verdict)'
  <2>1. c # attempts + 1
    BY <1>0 DEF CmdId
  <2>2. arr'[c] = arr[c]
    BY <1>0, <1>2, <2>1 DEF ArrAccepts
  <2> QED
    BY <2>2 DEF BornOut
<1>3. ASSUME NEW d \in CmdId, ArrSettles(d) PROVE BornOut(c, verdict)'
  <2>1. arr[c].state # "open"
    BY DEF BornOut
  <2>2. arr'[c] = arr[c]
    BY <1>0, <1>3, <2>1 DEF ArrSettles
  <2> QED
    BY <2>2 DEF BornOut
<1>4. ASSUME NEW d \in CmdId, ArrForgets(d) PROVE BornOut(c, verdict)'
  <2>1. arr'[c] = arr[c] \/ arr'[c].state = "forgotten"
    BY <1>0, <1>4 DEF ArrForgets, Command
  <2> QED
    BY <2>1 DEF BornOut
<1> QED
  BY <1>1, <1>2, <1>3, <1>4, ArrKinds DEF ArrMoves

\* The pass writes down what it heard.
LEMMA AnswerStep ==
    ASSUME TrackInv, [Next]_vars PROVE AnswerStands'
<1>0. /\ TypeInv /\ ResultsAgree /\ ItemsWritten /\ PassAsksOpenItems /\ KnownSent
      /\ items \in [ItemId -> Item] /\ verify \in Verify
  BY DEF TrackInv, PlaceInv, SettlingInv, TypeInv, TypeOK
<1>1. ASSUME verify.pc = "resolving", verify'.item = verify.item, verify'.verdict = verify.verdict,
             items'[verify.item].cmd = items[verify.item].cmd
      PROVE  AnswerStands'
  <2>1. /\ verify.item \in ItemId
        /\ items[verify.item].cmd \in Sent
        /\ BornOut(items[verify.item].cmd, verify.verdict)
    BY <1>0, <1>1 DEF PassAsksOpenItems, ItemsWritten, KnownSent, TrackInv, AnswerStands, Verify
  <2>2. PICK c \in Sent : c = items[verify.item].cmd
    BY <2>1
  <2>3. PICK verdict : verdict = verify.verdict
    OBVIOUS
  <2>4. BornOut(c, verdict)
    BY <2>1, <2>2, <2>3
  <2>5. BornOut(c, verdict)'
    BY <1>0, <2>4, BornOutStays
  <2> QED
    BY <1>1, <2>2, <2>3, <2>5 DEF AnswerStands, BornOut
<1>2. ASSUME verify'.pc # "resolving" PROVE AnswerStands'
  BY <1>2 DEF AnswerStands
<1>3. ASSUME NEW s \in Skills, SearchKinds(s) PROVE AnswerStands'
  <2>1. UNCHANGED verify
    BY <1>3 DEF SearchKinds, Starts, Quiet, FilesKept, Drops, Tries, FilesHand, KeepsHand, Closes
  <2>2. verify.pc = "resolving" => items'[verify.item].cmd = items[verify.item].cmd
    <3>1. CASE UNCHANGED items
      BY <3>1
    <3>2. CASE \E r \in RunId \cup {0}, result \in Result : Fileable(result) /\ Record(r, result)
      <4>1. items[nextItem] = NoItem /\ \A i \in ItemId : i # nextItem => items'[i] = items[i]
        BY <1>0, <3>2, Filing
      <4> QED
        BY <1>0, <4>1 DEF PassAsksOpenItems, NoItem, Verify
    <3> QED
      BY <1>0, <1>3, <3>1, <3>2, SearchRows
  <2> QED
    BY <1>1, <1>2, <2>1, <2>2
<1>4. CASE CrashRestart
  BY <1>2, <1>4 DEF CrashRestart, IdleVerify
<1>5. CASE OtherKinds
  <2>1. CASE UNCHANGED verify
    <3>1. \A i \in ItemId : items'[i].cmd = items[i].cmd
      BY <1>5, OthersKeepPlaces DEF TrackInv
    <3> QED
      BY <1>0, <1>1, <1>2, <2>1, <3>1 DEF PassAsksOpenItems, Verify
  <2>2. ASSUME NEW i \in ItemId, VerifyAsk(i), verify'.pc = "resolving" PROVE AnswerStands'
    <3>1. PICK answer \in {arr[items[i].cmd].state, "unreachable"} :
            LET verdict == MapCommandStatus(answer)
            IN verify' = IF verdict = "submitted"
                 THEN [verify EXCEPT !.batch = @ \ {i},
                                     !.answered = IF CountsAsCheck(answer) THEN @ \cup {i} ELSE @]
                 ELSE [verify EXCEPT !.pc = "resolving", !.item = i, !.verdict = verdict]
      BY <2>2 DEF VerifyAsk
    <3> DEFINE verdict == MapCommandStatus(answer)
               answered == IF CountsAsCheck(answer) THEN verify.answered \cup {i} ELSE verify.answered
    <3>2. \/ verify' = [verify EXCEPT !.batch = @ \ {i}, !.answered = answered]
          \/ /\ verify' = [verify EXCEPT !.pc = "resolving", !.item = i, !.verdict = verdict]
             /\ \/ verdict \in {"completed", "failed"} /\ answer = verdict
                \/ verdict = "expired" /\ answer = "forgotten"
      BY <3>1 DEF MapCommandStatus
    <3> HIDE DEF verdict, answered
    <3>3. verify.pc = "asking" /\ UNCHANGED <<items, arr>>
      BY <2>2 DEF VerifyAsk, dbVars, verifyFrame
    <3>4. /\ verify'.item = i /\ verify'.verdict = verdict
          /\ \/ verdict \in {"completed", "failed"} /\ answer = verdict
             \/ verdict = "expired" /\ answer = "forgotten"
      BY <1>0, <2>2, <3>2, <3>3 DEF Verify
    <3>5. answer = arr[items[i].cmd].state
      BY <3>4
    <3> QED
      BY <3>3, <3>4, <3>5 DEF AnswerStands, BornOut
  <2>3. CASE UNCHANGED verify \/ (\E i \in ItemId : VerifyAsk(i)) \/ verify'.pc # "resolving"
    BY <1>2, <2>1, <2>2, <2>3
  <2>4. UNCHANGED verify \/ (\E i \in ItemId : VerifyAsk(i)) \/ verify'.pc # "resolving"
    <3>1. PassMoves => (\E i \in ItemId : VerifyAsk(i)) \/ verify'.pc # "resolving"
      <4>1. VerifyStart => verify'.pc # "resolving"
        <5> SUFFICES ASSUME VerifyStart PROVE verify'.pc = "asking"
          OBVIOUS
        <5> QED
          BY DEF VerifyStart, IdleVerify
      <4>3. VerifyDone \/ VerifyFails => verify'.pc # "resolving"
        BY DEF VerifyDone, VerifyFails, IdleVerify
      <4>2. VerifyList \/ VerifyStopped => verify'.pc # "resolving"
        BY <1>0 DEF VerifyList, VerifyStopped, Verify
      <4> QED
        BY <4>1, <4>2, <4>3 DEF PassMoves
    <3>2. VerifyResolve \/ VerifyMark \/ VerifyExpire \/ (\E r \in RunId : VerifySettle(r))
            => verify'.pc # "resolving"
      BY <1>0 DEF VerifyResolve, VerifyMark, VerifyExpire, VerifySettle, Verify
    <3>3. (\E i \in ItemId : ItemAges(i)) \/ Deletes \/ EntriesGo \/ ArrMoves \/ UNCHANGED vars
            => UNCHANGED verify
      BY DEF ItemAges, Deletes, DeleteRuns, EntriesGo, ClearCache, EntryLapses, PurgeEntry,
             ArrMoves, ArrSettles, ArrForgets, vars, idleFrame
    <3> QED
      BY <1>5, <3>1, <3>2, <3>3 DEF OtherKinds, Ages
  <2> QED
    BY <2>3, <2>4
<1> QED
  BY <1>0, <1>3, <1>4, <1>5, StepKinds

LEMMA TrackInit == Init => TrackInv
  BY PlaceInit DEF Init, TrackInv, AnswerStands, IdleVerify

LEMMA TrackStep == TrackInv /\ [Next]_vars => TrackInv'
  BY PlaceStep, AnswerStep DEF TrackInv

\* What is known about a command: its item's word, or where it is without one.
RowPhase(status) == IF status = "submitted" THEN "tracked" ELSE status
UnfiledPhase(c)  == IF c \in lost THEN "lost" ELSE IF c \in Sent THEN "held" ELSE "unsent"
Unfiled(c)       == \A i \in ItemId : items[i].cmd # c

\* PhaseOf without its CHOOSE.
PhasesRead ==
    \A c \in CmdId :
        /\ \A i \in ItemId : items[i].cmd = c => PhaseOf(c) = RowPhase(items[i].status)
        /\ Unfiled(c) => PhaseOf(c) = UnfiledPhase(c)

\* A command has one item, so the CHOOSE of PhaseOf is no choice.
LEMMA PhaseValues == RecordedOnce => PhasesRead
<1> SUFFICES ASSUME RecordedOnce, NEW c \in CmdId
             PROVE  /\ \A i \in ItemId : items[i].cmd = c => PhaseOf(c) = RowPhase(items[i].status)
                    /\ Unfiled(c) => PhaseOf(c) = UnfiledPhase(c)
  BY DEF PhasesRead
<1>1. ASSUME NEW i \in ItemId, items[i].cmd = c PROVE PhaseOf(c) = RowPhase(items[i].status)
  <2>1. c # 0
    BY DEF CmdId
  <2>2. (CHOOSE j \in ItemId : items[j].cmd = c) = i
    BY <1>1, <2>1 DEF RecordedOnce
  <2> QED
    BY <1>1, <2>2 DEF PhaseOf, RowPhase
<1>2. Unfiled(c) => PhaseOf(c) = UnfiledPhase(c)
  BY DEF Unfiled, PhaseOf, UnfiledPhase
<1> QED
  BY <1>1, <1>2

\* A command whose item keeps its status, or that stays without one and is
\* neither sent nor lost meanwhile, keeps its phase.
LEMMA PhaseStays ==
    ASSUME PhasesRead, PhasesRead', NEW c \in CmdId,
           \A i \in ItemId : items'[i].cmd = c <=> items[i].cmd = c,
           \A i \in ItemId : items[i].cmd = c => items'[i].status = items[i].status,
           c \in lost' <=> c \in lost, c \in Sent' <=> c \in Sent
    PROVE  PhaseOf(c)' = PhaseOf(c)
<1>1. CASE Unfiled(c)
  <2>1. Unfiled(c)'
    BY <1>1 DEF Unfiled
  <2>2. PhaseOf(c)' = UnfiledPhase(c)'
    BY <2>1 DEF PhasesRead
  <2>3. PhaseOf(c) = UnfiledPhase(c)
    BY <1>1 DEF PhasesRead
  <2> QED
    BY <2>2, <2>3 DEF UnfiledPhase
<1>2. ASSUME NEW i \in ItemId, items[i].cmd = c PROVE PhaseOf(c)' = PhaseOf(c)
  <2>1. PhaseOf(c) = RowPhase(items[i].status)
    BY <1>2 DEF PhasesRead
  <2>2. items'[i].cmd = c /\ items'[i].status = items[i].status
    BY <1>2
  <2>3. PhaseOf(c)' = RowPhase(items'[i].status)
    BY <2>2 DEF PhasesRead, RowPhase
  <2> QED
    BY <2>1, <2>2, <2>3
<1> QED
  BY <1>1, <1>2 DEF Unfiled

\* What a step does to the commands, seen from CommandTracking.
SamePhases == \A c \in CmdId : PhaseOf(c)' = PhaseOf(c)
SameFates  == \A c \in CmdId : arr'[c].state = arr[c].state

LEMMA Unseen == SamePhases /\ SameFates => UNCHANGED Tracking!vars
  BY DEF SamePhases, SameFates, Tracking!vars

\* Whatever leaves the items, the lost commands and *arr alone.
LEMMA BooksShut ==
    ASSUME PhasesRead, PhasesRead', UNCHANGED <<items, lost, arr>>
    PROVE  UNCHANGED Tracking!vars
<1>1. SamePhases
  BY PhaseStays DEF SamePhases, Sent
<1>2. SameFates
  BY DEF SameFates
<1> QED
  BY <1>1, <1>2, Unseen

\* A title is tried: *arr accepted a command, or nothing is seen.
LEMMA TryTracks ==
    ASSUME TrackInv, PhasesRead, PhasesRead', NEW s \in Skills, Tries(s)
    PROVE  UNCHANGED Tracking!vars \/ \E c \in CmdId : Tracking!Accept(c)
<1>0. attempts \in Nat /\ arr \in [CmdId -> Command] /\ KnownSent /\ UNCHANGED items
  BY BoundsAssumption DEF TrackInv, PlaceInv, SettlingInv, TypeInv, TypeOK, Tries, dbVars
<1>1. CASE UNCHANGED <<arr, lost>>
  BY <1>0, <1>1, BooksShut
<1>2. ASSUME NEW k \in Keys, ArrAccepts(k), attempts + 1 \in CmdId,
             lost' = lost \/ lost' = lost \cup {attempts + 1}
      PROVE  \E c \in CmdId : Tracking!Accept(c)
  <2>1. PICK c \in CmdId : c = attempts + 1
    BY <1>2
  <2>2. c \notin Sent /\ c \notin lost /\ Unfiled(c)
    <3>1. c \notin Sent
      BY <1>0, <2>1 DEF KnownSent
    <3> QED
      BY <1>0, <3>1 DEF KnownSent, Unfiled, CmdId
  <2>3. arr'[c].state = "open" /\ \A d \in CmdId : d # c => arr'[d] = arr[d]
    BY <1>0, <1>2, <2>1 DEF ArrAccepts
  <2>4. PhaseOf(c) = "unsent"
    BY <2>2 DEF PhasesRead, UnfiledPhase
  <2>5. PhaseOf(c)' \in {"held", "lost"}
    <3>1. Unfiled(c)' /\ c \in Sent'
      BY <1>0, <2>2, <2>3 DEF Unfiled, Sent
    <3> QED
      BY <3>1 DEF PhasesRead, UnfiledPhase
  <2>6. \A d \in CmdId : d # c => PhaseOf(d)' = PhaseOf(d)
    <3> SUFFICES ASSUME NEW d \in CmdId, d # c PROVE PhaseOf(d)' = PhaseOf(d)
      OBVIOUS
    <3>1. d \in lost' <=> d \in lost
      BY <1>2, <2>1
    <3>2. d \in Sent' <=> d \in Sent
      BY <2>3 DEF Sent
    <3> QED
      BY <1>0, <3>1, <3>2, PhaseStays
  <2>7. Tracking!Accept(c)
    BY <2>3, <2>4, <2>5, <2>6 DEF Tracking!Accept
  <2> QED
    BY <2>7
<1>3. \/ UNCHANGED <<arr, lost>>
      \/ /\ \E k \in Keys : ArrAccepts(k)
         /\ lost' = lost \/ lost' = lost \cup {attempts + 1}
  BY DEF Tries, Answered
<1>4. attempts + 1 \in CmdId
  BY DEF Tries
<1> QED
  BY <1>1, <1>2, <1>3, <1>4

\* A result is filed: its command, if it has one, is tracked from now on.
LEMMA FilingTracks ==
    ASSUME TrackInv, PhasesRead, PhasesRead', NEW r \in RunId \cup {0}, NEW result,
           Fileable(result), Record(r, result), UNCHANGED <<arr, lost>>,
           result.cmd # 0 => result.cmd \in Sent /\ result.cmd \notin lost /\ Unfiled(result.cmd)
    PROVE  UNCHANGED Tracking!vars \/ \E c \in CmdId : Tracking!Track(c)
<1>1. /\ nextItem \in ItemId
      /\ items[nextItem] = NoItem /\ items'[nextItem] = NewItem(r, result)
      /\ \A i \in ItemId : i # nextItem => items'[i] = items[i]
  BY Filing DEF TrackInv, PlaceInv, SettlingInv
<1>2. Sent' = Sent
  BY DEF Sent
<1>3. NoItem.cmd = 0 /\ NewItem(r, result).cmd = result.cmd
  BY DEF NoItem, NewItem
<1>4. \A d \in CmdId : d # result.cmd => PhaseOf(d)' = PhaseOf(d)
  <2> SUFFICES ASSUME NEW d \in CmdId, d # result.cmd PROVE PhaseOf(d)' = PhaseOf(d)
    OBVIOUS
  <2>1. d # 0
    BY DEF CmdId
  <2>2. items[nextItem].cmd # d /\ items'[nextItem].cmd # d
    BY <1>1, <1>3, <2>1
  <2>3. /\ \A i \in ItemId : items'[i].cmd = d <=> items[i].cmd = d
        /\ \A i \in ItemId : items[i].cmd = d => items'[i].status = items[i].status
    BY <1>1, <2>2
  <2> QED
    BY <1>2, <2>3, PhaseStays
<1>5. SameFates
  BY DEF SameFates
<1>6. CASE result.cmd = 0
  <2>1. SamePhases
    BY <1>4, <1>6 DEF SamePhases, CmdId
  <2> QED
    BY <1>5, <2>1, Unseen
<1>7. CASE result.cmd # 0
  <2>1. PICK c \in CmdId : c = result.cmd
    BY <1>7 DEF Sent
  <2>2. PhaseOf(c) = "held"
    BY <1>7, <2>1 DEF PhasesRead, UnfiledPhase
  <2>3. items'[nextItem].cmd = c /\ items'[nextItem].status = "submitted"
    BY <1>1, <1>3, <1>7, <2>1 DEF Fileable, Agrees, NewItem, ItemStatus
  <2>4. PhaseOf(c)' = "tracked"
    BY <1>1, <2>3 DEF PhasesRead, RowPhase
  <2>5. Tracking!Track(c)
    BY <1>4, <1>5, <2>1, <2>2, <2>4 DEF Tracking!Track, SameFates
  <2> QED
    BY <2>5
<1> QED
  BY <1>6, <1>7

\* A search's step: one command moves on, or nothing is seen.
LEMMA SearchTracks ==
    ASSUME TrackInv, PhasesRead, PhasesRead', NEW s \in Skills, SearchKinds(s)
    PROVE  \/ UNCHANGED Tracking!vars
           \/ \E c \in CmdId : Tracking!Accept(c) \/ Tracking!Track(c)
<1>0. /\ TypeInv /\ ResultsAgree /\ KnownSent /\ HandsDistinct /\ RecordedOnce
      /\ unsaved \in Seq(Unsaved) /\ searcher[s] \in Searcher
  BY DEF TrackInv, PlaceInv, SettlingInv, TypeInv, TypeOK
<1>1. CASE Starts(s) \/ Quiet(s) \/ Drops(s) \/ Closes(s) \/ KeepsHand(s)
  <2>1. UNCHANGED <<items, lost, arr>>
    BY <1>1 DEF Starts, Quiet, Drops, Closes, KeepsHand, dbVars, ghostVars
  <2> QED
    BY <2>1, BooksShut
<1>2. CASE Tries(s)
  BY <1>2, TryTracks
<1>3. CASE FilesKept(s)
  <2> DEFINE head == Head(unsaved).result
             r == FiledUnder(s, Head(unsaved))
  <2>1. r \in RunId \cup {0} /\ Fileable(head) /\ Record(r, head) /\ UNCHANGED <<arr, lost>>
    BY <1>0, <1>3, FiledResults DEF FilesKept, ghostVars
  <2>2. head.cmd # 0 => head.cmd \in Buffered
    <3>1. head.cmd \in CmdId \cup {0}
      BY <1>0, <1>3, HeadCommand DEF FilesKept
    <3>2. 1 \in DOMAIN unsaved /\ unsaved[1].result = head
      BY <1>0, <1>3 DEF FilesKept
    <3> QED
      BY <3>1, <3>2 DEF Buffered
  <2> HIDE DEF head, r
  <2>3. \A t \in Skills : ~Dropping(t)
    BY <1>3 DEF FilesKept, TrackInv, PlaceInv, AccountInv, OneAtTheList, AtTheList, Dropping
  <2>4. head.cmd # 0 => head.cmd \in Sent /\ head.cmd \notin lost /\ Unfiled(head.cmd)
    BY <1>0, <2>2, <2>3 DEF KnownSent, HandsDistinct, RecordedOnce, Unfiled, Dropping, Buffered
  <2> QED
    BY <2>1, <2>4, FilingTracks
<1>4. CASE FilesHand(s)
  <2> DEFINE hand == searcher[s].result
  <2>1. UNCHANGED <<arr, lost>>
    BY <1>4 DEF FilesHand, ghostVars
  <2>2. CASE UNCHANGED dbVars
    BY <2>1, <2>2, BooksShut DEF dbVars
  <2>3. CASE Fileable(hand) /\ Record(searcher[s].run, hand)
    <3>1. searcher[s].run \in RunId \cup {0}
      BY <1>0, FiledResults
    <3>2. hand.cmd # 0 => hand.cmd \in InHand
      BY <1>0 DEF InHand, Searcher, Result
    <3> HIDE DEF hand
    <3>3. hand.cmd # 0 => hand.cmd \in Sent /\ hand.cmd \notin lost /\ Unfiled(hand.cmd)
      BY <1>0, <3>2 DEF KnownSent, HandsDistinct, RecordedOnce, Unfiled, InHand
    <3> QED
      BY <2>1, <2>3, <3>1, <3>3, FilingTracks
  <2> QED
    BY <1>0, <1>4, <2>2, <2>3, FiledResults
<1> QED
  BY <1>1, <1>2, <1>3, <1>4 DEF SearchKinds

\* A restart loses what was only in memory, and nothing else.
LEMMA CrashTracks ==
    ASSUME TrackInv, PhasesRead, PhasesRead', CrashRestart
    PROVE  Tracking!Crash
<1>0. /\ ItemsWritten /\ KnownSent /\ CommandAccounted
      /\ UNCHANGED <<items, arr>> /\ lost' = lost \cup InHand \cup Buffered /\ Sent' = Sent
  BY DEF TrackInv, PlaceInv, SettlingInv, AccountInv, CrashRestart, Sent
<1>1. ASSUME NEW c \in CmdId
      PROVE  PhaseOf(c)' = IF PhaseOf(c) = "held" THEN "lost" ELSE PhaseOf(c)
  <2>1. ASSUME NEW i \in ItemId, items[i].cmd = c PROVE PhaseOf(c)' = PhaseOf(c) /\ PhaseOf(c) # "held"
    <3>1. PhaseOf(c) = RowPhase(items[i].status)
      BY <2>1 DEF PhasesRead
    <3>2. PhaseOf(c)' = RowPhase(items[i].status)
      BY <1>0, <2>1 DEF PhasesRead, RowPhase
    <3>3. items[i].status # "held"
      BY <1>0, <2>1 DEF ItemsWritten, CmdId
    <3> QED
      BY <3>1, <3>2, <3>3 DEF RowPhase
  <2>2. ASSUME Unfiled(c) PROVE PhaseOf(c)' = IF PhaseOf(c) = "held" THEN "lost" ELSE PhaseOf(c)
    <3>1. Unfiled(c)'
      BY <1>0, <2>2 DEF Unfiled
    <3>2. PhaseOf(c) = UnfiledPhase(c) /\ PhaseOf(c)' = UnfiledPhase(c)'
      BY <2>2, <3>1 DEF PhasesRead
    <3>3. c \in Sent => c \in lost'
      BY <1>0, <2>2 DEF CommandAccounted, Filed, Unfiled
    <3>4. c \notin Sent => c \notin lost' /\ c \notin lost
      BY <1>0 DEF KnownSent
    <3> QED
      BY <1>0, <3>2, <3>3, <3>4 DEF UnfiledPhase
  <2> QED
    BY <2>1, <2>2 DEF Unfiled
<1> QED
  BY <1>0, <1>1 DEF Tracking!Crash

\* The pass resolves and gives up, *arr ends and forgets, nothing else is seen.
LEMMA OthersTrack ==
    ASSUME TrackInv, PhasesRead, PhasesRead', OtherKinds
    PROVE  UNCHANGED Tracking!vars \/ Tracking!Next
<1>0. /\ TypeInv /\ ItemsWritten /\ PassAsksOpenItems /\ PlaceInv
      /\ items \in [ItemId -> Item] /\ arr \in [CmdId -> Command] /\ verify \in Verify
      /\ lost' = lost
  BY OthersLeave DEF TrackInv, PlaceInv, SettlingInv, TypeInv, TypeOK
<1>1. Sent' = Sent /\ \A i \in ItemId : items'[i].cmd = items[i].cmd
  BY <1>0, OthersKeepPlaces
<1>2. ASSUME NEW c \in CmdId, \A i \in ItemId : items[i].cmd = c => items'[i].status = items[i].status
      PROVE  PhaseOf(c)' = PhaseOf(c)
  BY <1>0, <1>1, <1>2, PhaseStays
<1>3. CASE RowsStay
  <2>1. SamePhases
    BY <1>2, <1>3 DEF RowsStay, SamePhases
  <2>2. CASE UNCHANGED arr
    BY <2>1, <2>2, Unseen DEF SameFates
  <2>3. ASSUME NEW c \in CmdId, ArrSettles(c) PROVE Tracking!End(c)
    <3>1. PICK state \in {"completed", "failed", "forgotten"} : arr' = [arr EXCEPT ![c] = [arr[c] EXCEPT !.state = state]]
      BY <2>3 DEF ArrSettles
    <3>2. arr[c].state = "open" /\ arr'[c].state = state /\ \A d \in CmdId : d # c => arr'[d] = arr[d]
      BY <1>0, <2>3, <3>1 DEF ArrSettles, Command
    <3> QED
      BY <2>1, <3>2 DEF SamePhases, Tracking!End
  <2>4. ASSUME NEW c \in CmdId, ArrForgets(c) PROVE Tracking!Forget(c)
    <3>1. /\ arr[c].state \in {"completed", "failed"} /\ arr'[c].state = "forgotten"
          /\ \A d \in CmdId : d # c => arr'[d] = arr[d]
      BY <1>0, <2>4 DEF ArrForgets, Command
    <3> QED
      BY <2>1, <3>1 DEF SamePhases, Tracking!Forget
  <2>5. UNCHANGED arr \/ ArrMoves
    BY DEF OtherKinds, PassMoves, VerifyStart, VerifyList, VerifyDone, VerifyStopped, VerifyFails, VerifyAsk,
           VerifyResolve, Ages, VerifyMark, ItemAges, VerifyExpire, VerifySettle, Deletes, DeleteRuns,
           EntriesGo, ClearCache, EntryLapses, PurgeEntry, vars, verifyFrame, idleFrame
  <2> QED
    BY <2>2, <2>3, <2>4, <2>5 DEF ArrMoves, Tracking!Next
<1>4. CASE VerifyResolve
  <2>1. /\ verify.item \in ItemId /\ items[verify.item].status = "submitted"
        /\ verify.verdict \in {"completed", "failed", "expired"}
        /\ BornOut(items[verify.item].cmd, verify.verdict)
        /\ UNCHANGED arr
    BY <1>0, <1>4 DEF VerifyResolve, PassAsksOpenItems, TrackInv, AnswerStands, Verify, verifyFrame
  <2>2. PICK c \in CmdId : c = items[verify.item].cmd
    BY <1>0, <2>1 DEF ItemsWritten, Item
  <2>3. PICK verdict : verdict = verify.verdict
    OBVIOUS
  <2>4. PhaseOf(c) = "tracked"
    BY <2>1, <2>2 DEF PhasesRead, RowPhase
  <2>5. PhaseOf(c)' = verdict
    <3>1. items'[verify.item].status = verdict /\ items'[verify.item].cmd = c
      <4>1. items[verify.item] \in Item
        BY <1>0, <2>1
      <4>2. items'[verify.item] = [items[verify.item] EXCEPT !.status = verdict]
        BY <1>0, <1>4, <2>1, <2>3, VerdictMoves
      <4> QED
        BY <1>1, <2>1, <2>2, <4>1, <4>2, RowFields
    <3> QED
      BY <2>1, <2>3, <3>1 DEF PhasesRead, RowPhase
  <2>6. \A d \in CmdId : d # c => PhaseOf(d)' = PhaseOf(d)
    <3>1. \A i \in ItemId : i # verify.item => items'[i] = items[i]
      BY <1>0, <1>4, VerdictMoves
    <3> QED
      BY <1>2, <2>2, <3>1
  <2>7. Tracking!Resolve(c, verdict)
    BY <2>1, <2>2, <2>3, <2>4, <2>5, <2>6 DEF Tracking!Resolve, BornOut
  <2> QED
    BY <2>1, <2>3, <2>7 DEF Tracking!Next, Tracking!Verdicts
<1>5. CASE VerifyExpire
  <2> DEFINE stale == {c \in CmdId : \E i \in ItemId : items[i].cmd = c /\ items'[i].status # items[i].status}
  <2>1. UNCHANGED arr
    BY <1>5 DEF VerifyExpire, verifyFrame
  <2>2. ASSUME NEW c \in stale PROVE PhaseOf(c) = "tracked" /\ PhaseOf(c)' = "expired"
    <3>1. PICK i \in ItemId : items[i].cmd = c /\ items'[i].status # items[i].status
      BY <2>2
    <3>2. items[i] \in Item
      BY <1>0
    <3>3. items[i].status = "submitted" /\ items'[i] = [items[i] EXCEPT !.status = "expired"]
      BY <1>0, <1>5, <3>1, VerdictMoves
    <3>4. items'[i].status = "expired" /\ items'[i].cmd = c
      BY <1>1, <3>1, <3>2, <3>3, RowFields
    <3>5. PhaseOf(c) = RowPhase(items[i].status)
      BY <2>2, <3>1 DEF PhasesRead
    <3>6. PhaseOf(c)' = RowPhase(items'[i].status)
      BY <2>2, <3>4 DEF PhasesRead, RowPhase
    <3> QED
      BY <3>3, <3>4, <3>5, <3>6 DEF RowPhase
  <2>3. \A c \in CmdId : c \notin stale => PhaseOf(c)' = PhaseOf(c)
    BY <1>2
  <2>4. stale \in SUBSET CmdId
    OBVIOUS
  <2> HIDE DEF stale
  <2>5. \A c \in CmdId : PhaseOf(c)' = IF c \in stale THEN "expired" ELSE PhaseOf(c)
    BY <2>2, <2>3
  <2>6. \A c \in stale : [d \in CmdId |-> PhaseOf(d)][c] = "tracked"
    BY <2>2, <2>4
  <2>7. Tracking!GiveUp(stale)
    BY <2>1, <2>4, <2>5, <2>6 DEF Tracking!GiveUp
  <2> QED
    BY <2>4, <2>7 DEF Tracking!Next
<1> QED
  BY <1>0, <1>3, <1>4, <1>5, RowMoves

\* Every step is a step of CommandTracking or is not seen there.
LEMMA TrackingStep ==
    TrackInv /\ PhasesRead /\ PhasesRead' /\ [Next]_vars => [Tracking!Next]_(Tracking!vars)
<1> SUFFICES ASSUME TrackInv, PhasesRead, PhasesRead', [Next]_vars
             PROVE  UNCHANGED Tracking!vars \/ Tracking!Next
  OBVIOUS
<1>1. ASSUME NEW s \in Skills, SearchKinds(s) PROVE UNCHANGED Tracking!vars \/ Tracking!Next
  BY <1>1, SearchTracks DEF Tracking!Next
<1>2. CASE CrashRestart
  BY <1>2, CrashTracks DEF Tracking!Next
<1>3. CASE OtherKinds
  BY <1>3, OthersTrack
<1> QED
  BY <1>1, <1>2, <1>3, StepKinds DEF TrackInv, PlaceInv, SettlingInv

LEMMA TrackingInit == Init => Tracking!Init
<1> SUFFICES ASSUME Init PROVE Tracking!Init
  OBVIOUS
<1>1. \A c \in CmdId : arr[c].state = "none"
  BY DEF Init, NoCommand
<1>2. ASSUME NEW c \in CmdId PROVE PhaseOf(c) = "unsent"
  <2>1. Unfiled(c)
    BY DEF Init, Unfiled, NoItem, CmdId
  <2> QED
    BY <1>1, <2>1 DEF Init, Unfiled, PhaseOf, Sent
<1> QED
  BY <1>1, <1>2 DEF Tracking!Init

\* ImplementsTracking: whatever searches, passes, users, crashes and *arr do
\* in whatever order, a command moves only from *arr's hand into memory, to
\* its item and to a verdict *arr bore out, or is lost in a crash.
THEOREM LedgerImplementsTracking == Spec => ImplementsTracking
<1>1. TrackInv => PhasesRead
  BY PhaseValues DEF TrackInv, PlaceInv
<1> QED
  BY <1>1, TrackInit, TrackStep, TrackingInit, TrackingStep, PTL DEF Spec, ImplementsTracking, Tracking!Spec

-----------------------------------------------------------------------------
(* No title is searched twice *)

\* Between its read of the cache and its read of the kept results no search
\* finds another one moving results from the list to the cache.
ReadsAlone ==
    \A s, t \in Skills : searcher[s].pc = "hits" => searcher[t].pc \notin {"saving", "dropping"}

\* Commands that must block their title: known, not excused, and at work in
\* *arr or still without an item.
Blocking(c) ==
    /\ c \in Sent /\ c \notin lost /\ arr[c].key \notin excused
    /\ arr[c].state = "open" \/ Unfiled(c)

\* A search that asks the books before it sends a command.
Asks(s) == searcher[s].mode = "command" /\ ~searcher[s].force

\* Only what was lifted on purpose stops blocking in the cache.
LapsedIsExcused == lapsed \subseteq excused

\* A search works on the titles of its skill.
OwnTitles ==
    \A s \in Skills : /\ \A k \in searcher[s].todo : KeyOwner[k] = s
                      /\ searcher[s].result.cmd # 0 => KeyOwner[searcher[s].result.key] = s

\* A result carries the title its command was sent for.
TitlesAgree ==
    /\ \A s \in Skills : searcher[s].result.cmd # 0 =>
          arr[searcher[s].result.cmd].key = searcher[s].result.key
    /\ \A n \in DOMAIN unsaved : unsaved[n].result.cmd # 0 =>
          arr[unsaved[n].result.cmd].key = unsaved[n].result.key

SentForTitles == \A c \in Sent : arr[c].key \in Keys

OneBlocks == \A c, d \in CmdId : Blocking(c) /\ Blocking(d) /\ arr[c].key = arr[d].key => c = d

\* With an item a command blocks through the cache, by its own entry or that
\* of a checked search, which no failure releases.
InCache(c) == cache[arr[c].key] # 0 /\ items[cache[arr[c].key]].cmd \in {0, c}
FiledBlocks == \A c \in CmdId : Blocking(c) /\ ~Unfiled(c) => InCache(c)

\* A search that has read the cache knows what blocks there ...
ReadBlocks ==
    \A s \in Skills, c \in CmdId :
        Asks(s) /\ searcher[s].pc = "hits" /\ Blocking(c) /\ ~Unfiled(c) /\ KeyOwner[arr[c].key] = s
          => arr[c].key \in searcher[s].hits

\* ... and takes on no title that is blocked.
TodoIsFree ==
    \A s \in Skills, c \in CmdId :
        Asks(s) /\ searcher[s].pc \in {"loop", "storing"} /\ Blocking(c) => arr[c].key \notin searcher[s].todo

BlockInv ==
    /\ TrackInv /\ EntryNamesItsWriter
    /\ LapsedIsExcused /\ OwnTitles /\ TitlesAgree /\ SentForTitles
    /\ OneBlocks /\ FiledBlocks /\ ReadBlocks /\ TodoIsFree

\* A search neither reads nor takes titles on: what it works on shrinks.
Goes(s) ==
    /\ searcher'[s].pc = "hits" => searcher'[s] = searcher[s]
    /\ searcher'[s].todo \subseteq searcher[s].todo
    /\ searcher'[s].pc \in {"loop", "storing"} =>
         /\ searcher[s].pc \in {"loop", "storing"}
         /\ searcher'[s].mode = searcher[s].mode /\ searcher'[s].force = searcher[s].force

LEMMA HoldingGoes ==
    ASSUME searcher \in [Skills -> Searcher], NEW s \in Skills, NEW k, NEW status, NEW cmd, NEW mark,
           searcher[s].pc = "loop", Holding(s, k, status, cmd, mark)
    PROVE  /\ Goes(s) /\ searcher'[s].todo = searcher[s].todo \ {k}
           /\ searcher'[s].result = [key |-> k, cmd |-> cmd, status |-> status]
<1> DEFINE t == [searcher[s] EXCEPT !.pc = "storing", !.todo = @ \ {k},
                                    !.result = [key |-> k, cmd |-> cmd, status |-> status],
                                    !.marks = @ \cup {mark}]
<1>1. searcher'[s] = t
  BY DEF Holding
<1>2. /\ t.pc = "storing" /\ t.todo = searcher[s].todo \ {k}
      /\ t.result = [key |-> k, cmd |-> cmd, status |-> status]
      /\ t.mode = searcher[s].mode /\ t.force = searcher[s].force
  BY DEF Searcher
<1> HIDE DEF t
<1> QED
  BY <1>1, <1>2 DEF Goes

LEMMA TryGoes ==
    ASSUME TypeInv, NEW s \in Skills, NEW k \in Keys,
           Send(s, k) \/ SendWithoutId(s, k) \/ SendRefused(s, k) \/ SendAnswerLost(s, k) \/ Check(s, k)
    PROVE  Goes(s)
<1>0. searcher \in [Skills -> Searcher]
  BY DEF TypeInv, TypeOK
<1>1. searcher[s].pc = "loop"
  BY DEF Send, SendWithoutId, SendRefused, SendAnswerLost, Check, Working
<1>2. \E status, cmd, mark : Holding(s, k, status, cmd, mark)
  <2>1. CASE Send(s, k)
    BY <2>1 DEF Send
  <2>2. CASE SendWithoutId(s, k)
    BY <2>2 DEF SendWithoutId
  <2>3. CASE SendRefused(s, k) \/ SendAnswerLost(s, k)
    BY <2>3 DEF SendRefused, SendAnswerLost
  <2>4. CASE Check(s, k)
    BY <2>4 DEF Check
  <2> QED
    BY <2>1, <2>2, <2>3, <2>4
<1> QED
  BY <1>0, <1>1, <1>2, HoldingGoes

LEMMA SearchGoes ==
    ASSUME TypeInv, NEW s \in Skills, SearchStep(s)
    PROVE  ReadCache(s) \/ TakeCandidates(s) \/ Goes(s)
<1>0. searcher \in [Skills -> Searcher] /\ searcher[s] \in Searcher
  BY DEF TypeInv, TypeOK
<1>1. ASSUME NEW pc \in {"saving", "dropping", "collect", "broken"},
             searcher' = [searcher EXCEPT ![s] = [searcher[s] EXCEPT !.pc = pc]]
      PROVE  Goes(s)
  BY <1>0, <1>1 DEF Goes, Searcher
<1>2. CASE StartRun(s)
  <2>1. PICK mode, force :
          searcher' = [searcher EXCEPT ![s] =
             [IdleSearcher EXCEPT !.pc = "waiting", !.run = nextRun, !.mode = mode, !.force = force]]
    BY <1>2 DEF StartRun
  <2>2. searcher'[s].pc = "waiting" /\ searcher'[s].todo = {}
    BY <1>0, <2>1 DEF IdleSearcher
  <2> QED
    BY <2>2 DEF Goes
<1>3. CASE LockUnsaved(s) \/ StoreUnsaved(s) \/ DropStored(s) \/ UnsavedDone(s) \/ CollectFails(s) \/ CloseRunFails(s)
  BY <1>1, <1>3 DEF LockUnsaved, StoreUnsaved, DropStored, UnsavedDone, CollectFails, CloseRunFails
<1>4. ASSUME NEW k \in Keys,
             Send(s, k) \/ SendWithoutId(s, k) \/ SendRefused(s, k) \/ SendAnswerLost(s, k) \/ Check(s, k)
      PROVE  Goes(s)
  BY <1>4, TryGoes
<1>5. CASE StoreResult(s)
  BY <1>0, <1>5 DEF StoreResult, Goes, Searcher
<1>6. CASE StoreResultFails(s)
  <2> DEFINE stops == Kept(searcher[s].result) \/ searcher[s].mode = "checked"
             todo == IF stops THEN {} ELSE searcher[s].todo
             marks == IF stops THEN searcher[s].marks \cup {"unstored"} ELSE searcher[s].marks
  <2>1. searcher' = [searcher EXCEPT ![s] = [searcher[s] EXCEPT
          !.pc = "loop", !.result = NoResult, !.todo = todo, !.marks = marks]]
    BY <1>6 DEF StoreResultFails
  <2>2. todo \subseteq searcher[s].todo /\ searcher[s].pc = "storing"
    BY <1>6 DEF StoreResultFails
  <2> HIDE DEF todo, marks
  <2> QED
    BY <1>0, <2>1, <2>2 DEF Goes, Searcher
<1>7. CASE StopEarly(s) \/ CapReached(s)
  <2>1. searcher[s].pc = "loop"
    BY <1>7 DEF StopEarly, CapReached
  <2>2. /\ searcher'[s].pc = searcher[s].pc /\ searcher'[s].todo = {}
        /\ searcher'[s].mode = searcher[s].mode /\ searcher'[s].force = searcher[s].force
    <3>1. CASE StopEarly(s)
      BY <1>0, <3>1 DEF StopEarly, Searcher
    <3>2. CASE CapReached(s)
      BY <1>0, <3>2 DEF CapReached, Searcher
    <3> QED
      BY <1>7, <3>1, <3>2
  <2> QED
    BY <2>1, <2>2 DEF Goes
<1>8. CASE CloseRun(s) \/ CloseBroken(s)
  BY <1>0, <1>8 DEF CloseRun, CloseBroken, Goes, IdleSearcher
<1> QED
  BY <1>2, <1>3, <1>4, <1>5, <1>6, <1>7, <1>8 DEF SearchStep

\* Only searches and a restart move a search.
LEMMA Searching ==
    ASSUME [Next]_vars
    PROVE  (\E s \in Skills : SearchStep(s)) \/ CrashRestart \/ UNCHANGED searcher
<1>1. VerifyStep \/ VerifyStopped \/ VerifyFails \/ UserStep \/ UNCHANGED vars => UNCHANGED searcher
  BY DEF VerifyStep, VerifyStopped, VerifyFails, VerifyStart, VerifyList, VerifyDone, VerifyAsk, VerifyResolve,
         VerifyMark, VerifyExpire, VerifySettle, UserStep, ClearHistory, PurgeOldRun, DeleteRuns, ClearCache,
         EntryLapses, PurgeEntry, vars, verifyFrame, idleFrame
<1>2. WorldStep => CrashRestart \/ UNCHANGED searcher
  BY DEF WorldStep, ArrSettles, ArrForgets, ItemAges
<1> QED
  BY <1>1, <1>2 DEF Next

\* What any step does to what a search works on.
LEMMA Turns ==
    ASSUME TypeInv, [Next]_vars, NEW s \in Skills
    PROVE  ReadCache(s) \/ TakeCandidates(s) \/ Goes(s)
<1>1. searcher'[s] = searcher[s] => Goes(s)
  BY DEF Goes
<1>2. ASSUME NEW t \in Skills, SearchStep(t) PROVE ReadCache(s) \/ TakeCandidates(s) \/ Goes(s)
  <2>1. CASE t = s
    BY <1>2, <2>1, SearchGoes
  <2>2. CASE t # s
    <3>1. Others(t)
      <4>1. SearchKinds(t)
        BY <1>2, QuietSteps, TrySteps, StoreSteps, CloseSteps DEF SearchStep, SearchKinds
      <4> QED
        BY <4>1 DEF SearchKinds, Starts, Quiet, FilesKept, Drops, Tries, FilesHand, KeepsHand, Closes
    <3> QED
      BY <1>1, <2>2, <3>1 DEF Others
  <2> QED
    BY <2>1, <2>2
<1>3. CASE CrashRestart
  BY <1>3 DEF CrashRestart, Goes, IdleSearcher
<1> QED
  BY <1>1, <1>2, <1>3, Searching

\* Where commands enter *arr.
LEMMA Accepts ==
    ASSUME [Next]_vars
    PROVE  \/ UNCHANGED arr \/ ArrMoves
           \/ \E s \in Skills, k \in Keys : Send(s, k) \/ SendAnswerLost(s, k)
<1>1. ASSUME NEW s \in Skills, SearchStep(s)
      PROVE  UNCHANGED arr \/ \E k \in Keys : Send(s, k) \/ SendAnswerLost(s, k)
  BY <1>1 DEF SearchStep, StartRun, LockUnsaved, StoreUnsaved, DropStored, UnsavedDone, ReadCache, TakeCandidates,
       CollectFails, SendWithoutId, SendRefused, Check, StoreResult, StoreResultFails, StopEarly, CapReached,
       CloseRun, CloseRunFails, CloseBroken
<1>2. VerifyStep \/ VerifyStopped \/ VerifyFails \/ UserStep \/ UNCHANGED vars => UNCHANGED arr
  BY DEF VerifyStep, VerifyStopped, VerifyFails, VerifyStart, VerifyList, VerifyDone, VerifyAsk, VerifyResolve,
         VerifyMark, VerifyExpire, VerifySettle, UserStep, ClearHistory, PurgeOldRun, DeleteRuns, ClearCache,
         EntryLapses, PurgeEntry, vars, verifyFrame, idleFrame
<1>3. WorldStep => UNCHANGED arr \/ ArrMoves
  BY DEF WorldStep, CrashRestart, ItemAges, ArrMoves
<1> QED
  BY <1>1, <1>2, <1>3 DEF Next

\* What was lost or excused stays so.
LEMMA GhostsGrow ==
    ASSUME [Next]_vars
    PROVE  lost \subseteq lost' /\ excused \subseteq excused'
<1>1. ASSUME NEW s \in Skills, SearchStep(s)
      PROVE  lost \subseteq lost' /\ excused \subseteq excused'
  <2>1. ASSUME NEW k \in Keys, Send(s, k) \/ SendWithoutId(s, k) \/ SendRefused(s, k) \/ SendAnswerLost(s, k) \/ Check(s, k)
        PROVE  lost \subseteq lost' /\ excused \subseteq excused'
    BY <2>1 DEF Send, SendWithoutId, SendRefused, SendAnswerLost, Check, ghostVars
  <2>2. (\A k \in Keys : ~(Send(s, k) \/ SendWithoutId(s, k) \/ SendRefused(s, k) \/ SendAnswerLost(s, k) \/ Check(s, k)))
          => UNCHANGED ghostVars
    BY <1>1 DEF SearchStep, StartRun, LockUnsaved, StoreUnsaved, DropStored, UnsavedDone, ReadCache, TakeCandidates,
         CollectFails, StoreResult, StoreResultFails, StopEarly, CapReached, CloseRun, CloseRunFails, CloseBroken
  <2> QED
    BY <2>1, <2>2 DEF ghostVars
<1>2. VerifyStep \/ VerifyStopped \/ VerifyFails \/ UNCHANGED vars => UNCHANGED ghostVars
  BY DEF VerifyStep, VerifyStopped, VerifyFails, VerifyStart, VerifyList, VerifyDone, VerifyAsk, VerifyResolve,
         VerifyMark, VerifyExpire, VerifySettle, vars, verifyFrame
<1>3. UserStep => lost \subseteq lost' /\ excused \subseteq excused'
  BY DEF UserStep, ClearHistory, PurgeOldRun, DeleteRuns, ClearCache, EntryLapses, PurgeEntry, idleFrame
<1>4. WorldStep => lost \subseteq lost' /\ excused \subseteq excused'
  BY DEF WorldStep, CrashRestart, ArrSettles, ArrForgets, ItemAges, ghostVars
<1> QED
  BY <1>1, <1>2, <1>3, <1>4 DEF Next, ghostVars

\* A result that is filed, from the list or from the hand of a search.
FilesOf(s, result) ==
    /\ \/ FilesKept(s) /\ result = Head(unsaved).result
       \/ FilesHand(s) /\ result = searcher[s].result
    /\ Fileable(result)
    /\ \E r \in RunId \cup {0} : Record(r, result)

\* What a step does to the books: it files one result, or it moves no command
\* between rows and lets entries go.
LEMMA BooksKinds ==
    ASSUME PlaceInv, [Next]_vars
    PROVE  \/ \E s \in Skills, result \in Result : FilesOf(s, result)
           \/ /\ \A i \in ItemId : items'[i].cmd = items[i].cmd
              /\ \A k \in Keys : \/ cache'[k] = cache[k]
                                 \/ cache'[k] = 0 /\ (k \in lapsed \/ ClearCache)
                                 \/ /\ VerifyResolve /\ cache'[k] = 0 /\ cache[k] = verify.item
                                    /\ verify.verdict = "failed"
<1>0. TypeInv /\ ResultsAgree
  BY DEF PlaceInv, SettlingInv
<1>1. ASSUME NEW s \in Skills, SearchKinds(s)
      PROVE  UNCHANGED <<items, cache>> \/ \E result \in Result : FilesOf(s, result)
  <2>1. CASE FilesKept(s)
    <3>1. Record(FiledUnder(s, Head(unsaved)), Head(unsaved).result)
      BY <2>1 DEF FilesKept
    <3> QED
      BY <1>0, <2>1, <3>1, FiledResults DEF Fileable, FilesOf
  <2>2. CASE FilesHand(s)
    BY <1>0, <2>2, FiledResults DEF Fileable, FilesOf, dbVars
  <2>3. CASE ~FilesKept(s) /\ ~FilesHand(s)
    BY <1>1, <2>3 DEF SearchKinds, Starts, Quiet, Drops, Tries, KeepsHand, Closes, dbVars
  <2> QED
    BY <2>1, <2>2, <2>3
<1>2. CrashRestart => UNCHANGED <<items, cache>>
  BY DEF CrashRestart
<1>3. CASE OtherKinds
  BY <1>0, <1>3, OthersKeepPlaces, EntryMoves
<1> QED
  BY <1>0, <1>1, <1>2, <1>3, StepKinds

\* What is filed was accepted by *arr, is not lost and had no item; it comes
\* from the search's own hand, or from the list it works through.
LEMMA FiledIsKnown ==
    ASSUME PlaceInv, NEW s \in Skills, NEW result \in Result, FilesOf(s, result), result.cmd # 0
    PROVE  result.cmd \in Sent \ lost /\ Unfiled(result.cmd) /\ result.status = "submitted"
<1> DEFINE c == result.cmd
<1>0. TypeInv /\ KnownSent /\ HandsDistinct /\ RecordedOnce /\ OneAtTheList /\ HandsAgree /\ unsaved \in Seq(Unsaved)
  BY DEF PlaceInv, SettlingInv, AccountInv, TypeInv, TypeOK
<1>1. c \in CmdId /\ result.status = "submitted"
  BY DEF FilesOf, Fileable, Agrees, Result
<1>2. CASE FilesHand(s) /\ result = searcher[s].result
  <2>1. c \in InHand
    BY <1>1, <1>2 DEF InHand
  <2>2. Unfiled(c)
    BY <1>0, <1>1, <2>1 DEF RecordedOnce, Unfiled
  <2> QED
    BY <1>0, <1>1, <2>1, <2>2 DEF KnownSent, HandsDistinct
<1>3. CASE FilesKept(s) /\ result = Head(unsaved).result
  <2>1. unsaved # <<>> /\ searcher[s].pc = "saving"
    BY <1>3 DEF FilesKept
  <2>2. 1 \in DOMAIN unsaved /\ unsaved[1].result = result
    BY <1>0, <1>3, <2>1
  <2>3. c \in Buffered
    BY <1>1, <2>2 DEF Buffered
  <2>4. \A t \in Skills : searcher[t].pc # "dropping"
    BY <1>0, <2>1 DEF OneAtTheList, AtTheList
  <2>5. Unfiled(c)
    BY <1>0, <1>1, <2>3, <2>4 DEF RecordedOnce, Unfiled
  <2> QED
    BY <1>0, <1>1, <2>3, <2>5 DEF KnownSent, HandsDistinct
<1> QED
  BY <1>2, <1>3 DEF FilesOf

\* A filed command keeps its row.
LEMMA FiledStaysFiled ==
    ASSUME PlaceInv, [Next]_vars, NEW c \in CmdId
    PROVE  Unfiled(c)' => Unfiled(c)
<1>1. CASE \A i \in ItemId : items'[i].cmd = items[i].cmd
  BY <1>1 DEF Unfiled
<1>2. ASSUME NEW s \in Skills, NEW result \in Result, FilesOf(s, result)
      PROVE  Unfiled(c)' => Unfiled(c)
  <2>1. PICK r \in RunId \cup {0} : Record(r, result)
    BY <1>2 DEF FilesOf
  <2>2. (\A i \in ItemId : i # nextItem => items'[i] = items[i]) /\ items[nextItem].cmd = 0
    BY <1>2, <2>1, FiledOnce DEF FilesOf, PlaceInv, SettlingInv
  <2> QED
    BY <2>2 DEF Unfiled, CmdId
<1> QED
  BY <1>1, <1>2, BooksKinds

\* A command that blocks did so before, unless it was just sent, by a search
\* that asked.
LEMMA BlockingStays ==
    ASSUME PlaceInv, [Next]_vars, NEW c \in CmdId, Blocking(c)'
    PROVE  \/ Blocking(c) /\ arr'[c].key = arr[c].key
           \/ /\ c = attempts + 1 /\ Unfiled(c)
              /\ \E s \in Skills : Send(s, arr'[c].key) /\ Asks(s) /\ arr'[c].key \in Keys
<1>0. TypeInv /\ KnownSent /\ arr \in [CmdId -> Command] /\ attempts \in Nat
  BY BoundsAssumption DEF PlaceInv, SettlingInv, TypeInv, TypeOK
<1>1. c \notin lost /\ (Unfiled(c)' => Unfiled(c)) /\ excused \subseteq excused'
  BY GhostsGrow, FiledStaysFiled DEF Blocking
<1>2. CASE arr'[c] = arr[c]
  BY <1>1, <1>2 DEF Blocking, Sent
<1>3. CASE ArrMoves
  <2>1. arr'[c].key = arr[c].key /\ (arr'[c].state = "open" => arr[c].state = "open")
        /\ (arr'[c].state # "none" => arr[c].state # "none")
    BY <1>0, <1>3 DEF ArrMoves, ArrSettles, ArrForgets, Command
  <2> QED
    BY <1>1, <2>1 DEF Blocking, Sent
<1>4. ASSUME NEW s \in Skills, NEW k \in Keys, Send(s, k) \/ SendAnswerLost(s, k), arr'[c] # arr[c]
      PROVE  /\ c = attempts + 1 /\ Unfiled(c)
             /\ \E t \in Skills : Send(t, arr'[c].key) /\ Asks(t) /\ arr'[c].key \in Keys
  <2>1. arr' = [arr EXCEPT ![attempts + 1] = [key |-> k, state |-> "open"]]
    BY <1>4 DEF Send, SendAnswerLost, ArrAccepts
  <2>2. c = attempts + 1 /\ arr'[c].key = k
    BY <1>0, <1>4, <2>1
  <2>3. c \notin Sent
    BY <1>0, <2>2 DEF KnownSent
  <2>4. Unfiled(c)
    BY <1>0, <2>3 DEF KnownSent, Unfiled, CmdId
  <2>5. ~SendAnswerLost(s, k)
    BY <2>2 DEF SendAnswerLost, Blocking
  <2>6. Send(s, k) /\ searcher[s].mode = "command" /\ (searcher[s].force => k \in excused')
    BY <1>4, <2>5 DEF Send, Working
  <2>7. ~searcher[s].force
    BY <2>2, <2>6 DEF Blocking
  <2> QED
    BY <2>2, <2>4, <2>6, <2>7 DEF Asks
<1> QED
  BY <1>2, <1>3, <1>4, Accepts

LEMMA LapsedStep ==
    ASSUME TypeInv, LapsedIsExcused, [Next]_vars
    PROVE  LapsedIsExcused'
<1>0. excused \subseteq excused'
  BY GhostsGrow
<1>1. ASSUME NEW s \in Skills, SearchKinds(s) PROVE lapsed' \subseteq lapsed
  <2>1. CASE FilesKept(s) \/ FilesHand(s)
    BY <2>1 DEF FilesKept, FilesHand, Record, dbVars
  <2>2. CASE ~FilesKept(s) /\ ~FilesHand(s)
    BY <1>1, <2>2 DEF SearchKinds, Starts, Quiet, Drops, Tries, KeepsHand, Closes, dbVars
  <2> QED
    BY <2>1, <2>2
<1>2. CASE CrashRestart
  BY <1>0, <1>2 DEF CrashRestart, LapsedIsExcused
<1>3. CASE OtherKinds
  <2>1. CASE EntriesGo
    BY <1>0, <2>1 DEF EntriesGo, ClearCache, EntryLapses, PurgeEntry, LapsedIsExcused
  <2>2. CASE VerifyResolve
    BY <1>0, <2>2 DEF VerifyResolve, LapsedIsExcused
  <2>3. CASE ~EntriesGo /\ ~VerifyResolve
    BY <1>0, <1>3, <2>3
    DEF OtherKinds, PassMoves, VerifyStart, VerifyList, VerifyDone, VerifyStopped, VerifyFails, VerifyAsk, VerifySettle,
        Ages, VerifyMark, ItemAges, VerifyExpire, Deletes, DeleteRuns, ArrMoves, ArrSettles, ArrForgets, vars, dbVars,
        LapsedIsExcused
  <2> QED
    BY <2>1, <2>2, <2>3
<1> QED
  BY <1>0, <1>1, <1>2, <1>3, StepKinds DEF LapsedIsExcused

\* The hand of a search stays, is emptied, or takes the command just sent.
LEMMA HandMoves ==
    ASSUME TypeInv, [Next]_vars, NEW s \in Skills
    PROVE  \/ searcher'[s].result = searcher[s].result
           \/ searcher'[s].result.cmd = 0
           \/ \E k \in Keys : Send(s, k) /\ searcher'[s].result = [key |-> k, cmd |-> attempts + 1, status |-> "submitted"]
<1>0. searcher \in [Skills -> Searcher]
  BY DEF TypeInv, TypeOK
<1>1. ASSUME NEW k \in Keys, NEW status, NEW cmd, NEW mark, Holding(s, k, status, cmd, mark)
      PROVE  searcher'[s].result = [key |-> k, cmd |-> cmd, status |-> status]
  BY <1>0, <1>1, HoldingMoves
<1>2. ASSUME NEW t \in Skills, SearchStep(t)
      PROVE  \/ searcher'[s].result = searcher[s].result
             \/ searcher'[s].result.cmd = 0
             \/ \E k \in Keys : Send(s, k) /\ searcher'[s].result = [key |-> k, cmd |-> attempts + 1, status |-> "submitted"]
  <2>0. SearchKinds(t)
    BY <1>2, QuietSteps, TrySteps, StoreSteps, CloseSteps DEF SearchStep, SearchKinds
  <2>1. CASE t # s
    BY <2>0, <2>1 DEF SearchKinds, Starts, Quiet, FilesKept, Drops, Tries, FilesHand, KeepsHand, Closes, Others
  <2>2. CASE t = s /\ ~Tries(s)
    BY <2>0, <2>2 DEF SearchKinds, Starts, Quiet, FilesKept, Drops, FilesHand, KeepsHand, Closes, Others, SameButPc,
                      NoResult, IdleSearcher
  <2>3. ASSUME NEW k \in Keys, Send(s, k)
        PROVE  Send(s, k) /\ searcher'[s].result = [key |-> k, cmd |-> attempts + 1, status |-> "submitted"]
    BY <1>1, <2>3 DEF Send
  <2>4. ASSUME NEW k \in Keys, SendWithoutId(s, k) \/ SendRefused(s, k) \/ SendAnswerLost(s, k) \/ Check(s, k)
        PROVE  searcher'[s].result.cmd = 0
    <3>1. \E status, mark : Holding(s, k, status, 0, mark)
      <4>1. CASE SendWithoutId(s, k)
        BY <4>1 DEF SendWithoutId
      <4>2. CASE SendRefused(s, k) \/ SendAnswerLost(s, k)
        BY <4>2 DEF SendRefused, SendAnswerLost
      <4>3. CASE Check(s, k)
        BY <4>3 DEF Check
      <4> QED
        BY <2>4, <4>1, <4>2, <4>3
    <3>2. PICK status, mark : Holding(s, k, status, 0, mark)
      BY <3>1
    <3>3. searcher'[s].result = [key |-> k, cmd |-> 0, status |-> status]
      BY <1>1, <3>2
    <3> QED
      BY <3>3
  <2>5. CASE t = s /\ Tries(s) /\ (\A k \in Keys : ~(Send(s, k) \/ SendWithoutId(s, k) \/ SendRefused(s, k) \/ SendAnswerLost(s, k) \/ Check(s, k)))
    <3>1. Starts(s) \/ Quiet(s) \/ FilesKept(s) \/ Drops(s) \/ FilesHand(s) \/ KeepsHand(s) \/ Closes(s)
      BY <1>2, <2>5, QuietSteps, StoreSteps, CloseSteps DEF SearchStep
    <3> QED
      BY <3>1 DEF Starts, Quiet, FilesKept, Drops, FilesHand, KeepsHand, Closes, Others, SameButPc, NoResult, IdleSearcher
  <2> QED
    BY <2>1, <2>2, <2>3, <2>4, <2>5
<1>3. CASE CrashRestart
  BY <1>3 DEF CrashRestart, IdleSearcher, NoResult
<1>4. CASE UNCHANGED searcher
  BY <1>4
<1> QED
  BY <1>2, <1>3, <1>4, Searching

\* The list keeps its results, and takes in what a search has in hand.
LEMMA ListKinds ==
    ASSUME TypeInv, [Next]_vars, NEW n \in DOMAIN unsaved'
    PROVE  \/ \E m \in DOMAIN unsaved : unsaved'[n] = unsaved[m]
           \/ \E s \in Skills : unsaved'[n].result = searcher[s].result
<1>0. unsaved \in Seq(Unsaved)
  BY DEF TypeInv, TypeOK
<1>1. CASE UNCHANGED unsaved
  BY <1>1
<1>2. ASSUME NEW s \in Skills, Drops(s) PROVE \E m \in DOMAIN unsaved : unsaved'[n] = unsaved[m]
  BY <1>0, <1>2, ListMoves DEF Drops
<1>3. ASSUME NEW s \in Skills, KeepsHand(s)
      PROVE  \/ \E m \in DOMAIN unsaved : unsaved'[n] = unsaved[m]
             \/ unsaved'[n].result = searcher[s].result
  <2>1. UNCHANGED unsaved \/ unsaved' = Append(unsaved, [run |-> searcher[s].run, result |-> searcher[s].result])
    BY <1>3 DEF KeepsHand
  <2> QED
    BY <1>0, <1>1, <2>1, ListMoves
<1>4. CrashRestart => n \notin DOMAIN unsaved'
  BY DEF CrashRestart
<1>5. OtherKinds => UNCHANGED unsaved
  BY OthersLeave
<1>6. \A s \in Skills : SearchKinds(s) => UNCHANGED unsaved \/ Drops(s) \/ KeepsHand(s)
  BY DEF SearchKinds, Starts, Quiet, FilesKept, Tries, FilesHand, Closes
<1> QED
  BY <1>1, <1>2, <1>3, <1>4, <1>5, <1>6, StepKinds

\* A command stands for its title for good.
LEMMA TitlesStay ==
    ASSUME PlaceInv, [Next]_vars, NEW c \in Sent
    PROVE  arr'[c].key = arr[c].key
<1>0. TypeInv /\ KnownSent /\ arr \in [CmdId -> Command] /\ attempts \in Nat /\ c \in CmdId
  BY BoundsAssumption DEF PlaceInv, SettlingInv, TypeInv, TypeOK, Sent
<1>1. c # attempts + 1
  BY <1>0 DEF KnownSent, CmdId
<1>2. CASE ArrMoves
  BY <1>0, <1>2 DEF ArrMoves, ArrSettles, ArrForgets, Command
<1>3. ASSUME NEW s \in Skills, NEW k \in Keys, Send(s, k) \/ SendAnswerLost(s, k) PROVE arr'[c] = arr[c]
  BY <1>0, <1>1, <1>3 DEF Send, SendAnswerLost, ArrAccepts
<1> QED
  BY <1>2, <1>3, Accepts

LEMMA OwnTitlesStep ==
    ASSUME TypeInv, OwnTitles, [Next]_vars
    PROVE  OwnTitles'
<1>0. searcher \in [Skills -> Searcher]
  BY DEF TypeInv, TypeOK
<1>1. ASSUME NEW s \in Skills PROVE \A k \in searcher'[s].todo : KeyOwner[k] = s
  <2>1. CASE Goes(s)
    BY <2>1 DEF Goes, OwnTitles
  <2>2. CASE ReadCache(s)
    <3> DEFINE hits == IF searcher[s].force THEN {} ELSE CacheHits
    <3>1. searcher' = [searcher EXCEPT ![s] = [searcher[s] EXCEPT !.pc = "hits", !.hits = hits]]
      BY <2>2 DEF ReadCache
    <3> HIDE DEF hits
    <3>2. searcher'[s].todo = searcher[s].todo
      BY <1>0, <3>1 DEF Searcher
    <3> QED
      BY <3>2 DEF OwnTitles
  <2>3. CASE TakeCandidates(s)
    <3>1. PICK todo :
            /\ \A k \in todo : KeyOwner[k] = s
            /\ searcher' = [searcher EXCEPT ![s] = [searcher[s] EXCEPT !.pc = "loop", !.hits = {}, !.todo = todo]]
      BY <2>3 DEF TakeCandidates
    <3>2. searcher'[s].todo = todo
      BY <1>0, <3>1 DEF Searcher
    <3> QED
      BY <3>1, <3>2
  <2> QED
    BY <2>1, <2>2, <2>3, Turns
<1>2. ASSUME NEW s \in Skills, searcher'[s].result.cmd # 0 PROVE KeyOwner[searcher'[s].result.key] = s
  <2>1. CASE searcher'[s].result = searcher[s].result
    BY <1>2, <2>1 DEF OwnTitles
  <2>2. ASSUME NEW k \in Keys, Send(s, k), searcher'[s].result = [key |-> k, cmd |-> attempts + 1, status |-> "submitted"]
        PROVE  KeyOwner[searcher'[s].result.key] = s
    BY <2>2 DEF Send, Working, OwnTitles
  <2> QED
    BY <1>2, <2>1, <2>2, HandMoves
<1> QED
  BY <1>1, <1>2 DEF OwnTitles

LEMMA TitlesAgreeStep ==
    ASSUME PlaceInv, TitlesAgree, [Next]_vars
    PROVE  TitlesAgree'
<1>0. TypeInv /\ KnownSent /\ arr \in [CmdId -> Command] /\ attempts \in Nat
      /\ searcher \in [Skills -> Searcher] /\ unsaved \in Seq(Unsaved)
  BY BoundsAssumption DEF PlaceInv, SettlingInv, TypeInv, TypeOK
<1>1. ASSUME NEW s \in Skills, searcher[s].result.cmd # 0
      PROVE  arr'[searcher[s].result.cmd].key = searcher[s].result.key
  <2>1. searcher[s].result.cmd \in CmdId
    BY <1>0, <1>1 DEF Searcher, Result
  <2>2. searcher[s].result.cmd \in Sent
    BY <1>0, <2>1 DEF InHand, KnownSent
  <2> QED
    BY <1>1, <2>2, TitlesStay DEF TitlesAgree
<1>2. ASSUME NEW m \in DOMAIN unsaved, unsaved[m].result.cmd # 0
      PROVE  arr'[unsaved[m].result.cmd].key = unsaved[m].result.key
  <2>1. unsaved[m] \in Unsaved
    BY <1>0
  <2>2. unsaved[m].result.cmd \in CmdId
    BY <1>2, <2>1 DEF Unsaved, Result
  <2>3. unsaved[m].result.cmd \in Sent
    BY <1>0, <2>2 DEF Buffered, KnownSent
  <2> QED
    BY <1>2, <2>3, TitlesStay DEF TitlesAgree
<1>3. ASSUME NEW s \in Skills, searcher'[s].result.cmd # 0
      PROVE  arr'[searcher'[s].result.cmd].key = searcher'[s].result.key
  <2>1. CASE searcher'[s].result = searcher[s].result
    BY <1>1, <1>3, <2>1
  <2>2. ASSUME NEW k \in Keys, Send(s, k), searcher'[s].result = [key |-> k, cmd |-> attempts + 1, status |-> "submitted"]
        PROVE  arr'[searcher'[s].result.cmd].key = searcher'[s].result.key
    <3>1. attempts + 1 \in CmdId
      BY <1>0, <2>2, BoundsAssumption DEF Send, Working, CmdId
    <3> QED
      BY <1>0, <2>2, <3>1 DEF Send, ArrAccepts
  <2> QED
    BY <1>0, <1>3, <2>1, <2>2, HandMoves
<1>4. ASSUME NEW n \in DOMAIN unsaved', unsaved'[n].result.cmd # 0
      PROVE  arr'[unsaved'[n].result.cmd].key = unsaved'[n].result.key
  BY <1>0, <1>1, <1>2, <1>4, ListKinds
<1> QED
  BY <1>3, <1>4 DEF TitlesAgree

LEMMA SentForTitlesStep ==
    ASSUME PlaceInv, SentForTitles, [Next]_vars
    PROVE  SentForTitles'
<1>0. arr \in [CmdId -> Command]
  BY DEF PlaceInv, SettlingInv, TypeInv, TypeOK
<1> SUFFICES ASSUME NEW c \in Sent' PROVE arr'[c].key \in Keys
  BY DEF SentForTitles
<1>1. c \in CmdId /\ arr'[c].state # "none"
  BY DEF Sent
<1>2. CASE c \in Sent
  BY <1>2, TitlesStay DEF SentForTitles
<1>3. CASE c \notin Sent
  <2>1. arr'[c] # arr[c] /\ arr[c].state = "none"
    BY <1>1, <1>3 DEF Sent
  <2>2. ~ArrMoves
    BY <1>0, <1>1, <2>1 DEF ArrMoves, ArrSettles, ArrForgets
  <2>3. PICK s \in Skills, k \in Keys : Send(s, k) \/ SendAnswerLost(s, k)
    BY <2>1, <2>2, Accepts
  <2>4. arr' = [arr EXCEPT ![attempts + 1] = [key |-> k, state |-> "open"]]
    BY <2>3 DEF Send, SendAnswerLost, ArrAccepts
  <2> QED
    BY <1>0, <1>1, <2>1, <2>4
<1> QED
  BY <1>2, <1>3

\* At most one command blocks a title: a search that asked sends only for
\* titles that none blocks.
LEMMA OneBlocksStep ==
    ASSUME BlockInv, [Next]_vars
    PROVE  OneBlocks'
<1>0. PlaceInv /\ TypeInv /\ searcher \in [Skills -> Searcher] /\ arr \in [CmdId -> Command] /\ attempts \in Nat
  BY BoundsAssumption DEF BlockInv, TrackInv, PlaceInv, SettlingInv, TypeInv, TypeOK
<1>1. ASSUME NEW c \in CmdId, Blocking(c)', NEW s \in Skills, Send(s, arr'[c].key), Asks(s),
             NEW d \in CmdId, Blocking(d), arr'[d].key = arr[d].key
      PROVE  arr'[d].key # arr'[c].key
  BY <1>1 DEF Send, Working, BlockInv, TodoIsFree
<1>2. ASSUME NEW c \in CmdId, NEW d \in CmdId, Blocking(c)', Blocking(d)', arr'[c].key = arr'[d].key
      PROVE  c = d
  <2>1. /\ \/ Blocking(c) /\ arr'[c].key = arr[c].key
           \/ c = attempts + 1 /\ \E s \in Skills : Send(s, arr'[c].key) /\ Asks(s)
        /\ \/ Blocking(d) /\ arr'[d].key = arr[d].key
           \/ d = attempts + 1 /\ \E s \in Skills : Send(s, arr'[d].key) /\ Asks(s)
    BY <1>0, <1>2, BlockingStays
  <2>2. CASE Blocking(c) /\ arr'[c].key = arr[c].key /\ Blocking(d) /\ arr'[d].key = arr[d].key
    BY <1>2, <2>2 DEF BlockInv, OneBlocks
  <2>3. CASE c = attempts + 1 /\ d = attempts + 1
    BY <2>3
  <2> QED
    BY <1>1, <1>2, <2>1, <2>2, <2>3
<1> QED
  BY <1>2 DEF OneBlocks

\* Filing a result leaves the cache blocking for every command that had its
\* entry, and makes it block for the one it files.
LEMMA FilingBlocks ==
    ASSUME BlockInv, NEW s \in Skills, NEW result \in Result, FilesOf(s, result),
           NEW c \in CmdId, Blocking(c), UNCHANGED arr, c = result.cmd \/ ~Unfiled(c)
    PROVE  InCache(c)'
<1>0. /\ PlaceInv /\ TypeInv /\ ItemsWritten /\ cache \in [Keys -> ItemId \cup {0}] /\ 0 \notin CmdId
      /\ EntryNamesItsWriter /\ 0 \notin ItemId
  BY DEF BlockInv, TrackInv, PlaceInv, SettlingInv, TypeInv, TypeOK, CmdId, ItemId
<1>1. PICK k : k = arr[c].key
  OBVIOUS
<1>2. k \in Keys
  BY <1>1 DEF BlockInv, SentForTitles, Blocking
<1>3. PICK r \in RunId \cup {0} : Record(r, result)
  BY DEF FilesOf
<1>4. /\ items'[nextItem].cmd = result.cmd /\ nextItem \in ItemId
      /\ \A i \in ItemId : i # nextItem => items'[i] = items[i]
  BY <1>0, <1>3, FiledOnce DEF FilesOf
<1>5. result.cmd # 0 => result.cmd \in Sent \ lost /\ Unfiled(result.cmd) /\ Caches(result)
                        /\ arr[result.cmd].key = result.key
  <2>1. result.cmd # 0 => result.cmd \in Sent \ lost /\ Unfiled(result.cmd) /\ result.status = "submitted"
    BY <1>0, FiledIsKnown
  <2>2. ASSUME result.cmd # 0 PROVE arr[result.cmd].key = result.key
    <3>1. CASE result = searcher[s].result
      BY <2>2, <3>1 DEF BlockInv, TitlesAgree
    <3>2. CASE FilesKept(s) /\ result = Head(unsaved).result
      <4>1. unsaved \in Seq(Unsaved) /\ unsaved # <<>>
        BY <1>0, <3>2 DEF FilesKept, TypeInv, TypeOK
      <4>2. 1 \in DOMAIN unsaved /\ result = unsaved[1].result
        BY <3>2, <4>1
      <4> QED
        BY <2>2, <4>2 DEF BlockInv, TitlesAgree
    <3> QED
      BY <3>1, <3>2 DEF FilesOf
  <2> QED
    BY <2>1, <2>2 DEF Caches
<1>6. Caches(result) => cache' = [cache EXCEPT ![result.key] = nextItem]
  BY <1>3 DEF Record
<1>7. ~Caches(result) => UNCHANGED cache
  BY <1>3 DEF Record
<1>8. CASE Caches(result) /\ result.key = k
  <2>1. cache'[k] = nextItem
    BY <1>0, <1>2, <1>6, <1>8
  <2>2. result.cmd \in {0, c}
    <3>1. SUFFICES ASSUME result.cmd # 0 PROVE result.cmd = c
      OBVIOUS
    <3>2. Blocking(result.cmd) /\ arr[result.cmd].key = arr[c].key /\ result.cmd \in CmdId
      BY <1>1, <1>5, <1>8, <3>1 DEF Blocking, Sent
    <3> QED
      BY <3>2 DEF BlockInv, OneBlocks
  <2> QED
    BY <1>0, <1>1, <1>4, <2>1, <2>2 DEF InCache
<1>9. CASE ~(Caches(result) /\ result.key = k)
  <2>1. cache'[k] = cache[k]
    BY <1>0, <1>2, <1>6, <1>7, <1>9
  <2>2. result.cmd # c
    BY <1>0, <1>1, <1>5, <1>9
  <2>3. cache[k] # 0 /\ items[cache[k]].cmd \in {0, c}
    BY <1>1, <2>2 DEF BlockInv, FiledBlocks, InCache
  <2>4. cache[k] \in ItemId /\ cache[k] # nextItem
    BY <1>0, <1>2, <1>3, <2>3, WrittenEntry, Filing DEF FilesOf
  <2> QED
    BY <1>1, <1>4, <2>1, <2>3, <2>4 DEF InCache
<1> QED
  BY <1>8, <1>9

\* Only the command that is filed gets an item.
LEMMA NewlyFiled ==
    ASSUME PlaceInv, NEW s \in Skills, NEW result \in Result, FilesOf(s, result),
           NEW c \in CmdId, Unfiled(c), ~Unfiled(c)'
    PROVE  c = result.cmd
<1>1. PICK r \in RunId \cup {0} : Record(r, result)
  BY DEF FilesOf
<1>2. items'[nextItem].cmd = result.cmd /\ \A i \in ItemId : i # nextItem => items'[i] = items[i]
  BY <1>1, FiledOnce DEF FilesOf, PlaceInv, SettlingInv
<1> QED
  BY <1>2 DEF Unfiled

\* A command with an item blocks through the cache until it has ended.
LEMMA FiledBlocksStep ==
    ASSUME BlockInv, [Next]_vars
    PROVE  FiledBlocks'
<1>0. /\ PlaceInv /\ TypeInv /\ ItemsWritten /\ PassAsksOpenItems /\ AnswerStands
      /\ verify \in Verify /\ excused \subseteq excused'
  BY GhostsGrow DEF BlockInv, TrackInv, PlaceInv, SettlingInv, TypeInv, TypeOK
<1> SUFFICES ASSUME NEW c \in CmdId, Blocking(c)', ~Unfiled(c)' PROVE InCache(c)'
  BY DEF FiledBlocks
<1>1. Blocking(c) /\ arr'[c].key = arr[c].key
  <2>1. ASSUME NEW s \in Skills, NEW k \in Keys, Send(s, k), Unfiled(c) PROVE Unfiled(c)'
    BY <2>1 DEF Send, dbVars, Unfiled
  <2> QED
    BY <1>0, <2>1, BlockingStays
<1>2. PICK k : k = arr[c].key
  OBVIOUS
<1>3. k \in Keys /\ k \notin excused' /\ arr'[c].key = k
  BY <1>1, <1>2 DEF BlockInv, SentForTitles, Blocking
<1>4. ASSUME NEW s \in Skills, NEW result \in Result, FilesOf(s, result) PROVE InCache(c)'
  <2>1. UNCHANGED arr
    BY <1>4 DEF FilesOf, FilesKept, FilesHand
  <2>2. c = result.cmd \/ ~Unfiled(c)
    BY <1>0, <1>4, NewlyFiled
  <2> QED
    BY <1>1, <1>4, <2>1, <2>2, FilingBlocks
<1>5. ASSUME \A i \in ItemId : items'[i].cmd = items[i].cmd,
             \A q \in Keys : \/ cache'[q] = cache[q]
                             \/ cache'[q] = 0 /\ (q \in lapsed \/ ClearCache)
                             \/ /\ VerifyResolve /\ cache'[q] = 0 /\ cache[q] = verify.item
                                /\ verify.verdict = "failed"
      PROVE  InCache(c)'
  <2>1. cache[k] # 0 /\ items[cache[k]].cmd \in {0, c} /\ cache[k] \in ItemId
    <3>1. ~Unfiled(c)
      BY <1>5 DEF Unfiled
    <3> QED
      BY <1>0, <1>1, <1>2, <1>3, <3>1 DEF BlockInv, FiledBlocks, InCache, TypeInv, TypeOK
  <2>2. CASE cache'[k] = cache[k]
    BY <1>3, <1>5, <2>1, <2>2 DEF InCache
  <2>3. k \notin lapsed /\ ~ClearCache
    BY <1>0, <1>3, <2>1 DEF BlockInv, LapsedIsExcused, ClearCache
  <2>4. ~(VerifyResolve /\ cache[k] = verify.item /\ verify.verdict = "failed")
    <3> SUFFICES ASSUME VerifyResolve, cache[k] = verify.item, verify.verdict = "failed" PROVE FALSE
      OBVIOUS
    <3>1. verify.pc = "resolving" /\ UNCHANGED arr
      BY DEF VerifyResolve, verifyFrame
    <3>2. items[cache[k]].status = "submitted"
      BY <1>0, <3>1 DEF PassAsksOpenItems
    <3>3. items[cache[k]].cmd = c
      BY <1>0, <2>1, <3>2 DEF ItemsWritten
    <3>4. arr[c].state # "open"
      BY <1>0, <3>1, <3>3 DEF AnswerStands, BornOut
    <3> QED
      BY <3>1, <3>4 DEF Blocking
  <2> QED
    BY <1>3, <1>5, <2>2, <2>3, <2>4
<1> QED
  BY <1>0, <1>4, <1>5, BooksKinds

\* A search that has read the cache still knows what blocks there when it
\* reads the list: only it files its titles, or one that works through the list.
LEMMA ReadBlocksStep ==
    ASSUME BlockInv, ReadsAlone, [Next]_vars
    PROVE  ReadBlocks'
<1>0. PlaceInv /\ TypeInv /\ searcher \in [Skills -> Searcher] /\ excused \subseteq excused'
  BY GhostsGrow DEF BlockInv, TrackInv, PlaceInv, SettlingInv, TypeInv, TypeOK
<1> SUFFICES ASSUME NEW s \in Skills, NEW c \in CmdId, Asks(s)', searcher'[s].pc = "hits",
                    Blocking(c)', ~Unfiled(c)', KeyOwner[arr'[c].key] = s
             PROVE  arr'[c].key \in searcher'[s].hits
  BY DEF ReadBlocks
<1>1. Blocking(c) /\ arr'[c].key = arr[c].key
  <2>1. ASSUME NEW t \in Skills, NEW k \in Keys, Send(t, k), Unfiled(c) PROVE Unfiled(c)'
    BY <2>1 DEF Send, dbVars, Unfiled
  <2> QED
    BY <1>0, <2>1, BlockingStays
<1>2. CASE ReadCache(s)
  <2> DEFINE hits == IF searcher[s].force THEN {} ELSE CacheHits
  <2>1. searcher' = [searcher EXCEPT ![s] = [searcher[s] EXCEPT !.pc = "hits", !.hits = hits]]
        /\ UNCHANGED items
    BY <1>2 DEF ReadCache, dbVars
  <2>2. hits = IF searcher[s].force THEN {} ELSE CacheHits
    OBVIOUS
  <2> HIDE DEF hits
  <2>3. searcher'[s].hits = hits /\ searcher'[s].force = searcher[s].force
    BY <1>0, <2>1 DEF Searcher
  <2>4. hits = CacheHits
    BY <2>2, <2>3 DEF Asks
  <2>5. cache[arr[c].key] # 0 /\ arr[c].key \in Keys
    BY <1>1, <2>1 DEF BlockInv, FiledBlocks, InCache, Unfiled, SentForTitles, Blocking
  <2>6. arr[c].key \notin lapsed
    BY <1>1 DEF BlockInv, LapsedIsExcused, Blocking
  <2> QED
    BY <1>1, <2>3, <2>4, <2>5, <2>6 DEF CacheHits
<1>3. CASE Goes(s)
  <2>1. searcher'[s] = searcher[s]
    BY <1>3 DEF Goes
  <2>2. CASE ~Unfiled(c)
    BY <1>1, <2>1, <2>2 DEF BlockInv, ReadBlocks, Asks
  <2>3. CASE Unfiled(c)
    <3>1. PICK t \in Skills, result \in Result : FilesOf(t, result)
      BY <1>0, <2>3, BooksKinds DEF Unfiled
    <3>2. c = result.cmd /\ c # 0
      BY <1>0, <2>3, <3>1, NewlyFiled DEF CmdId
    <3>3. CASE FilesKept(t)
      BY <2>1, <3>3 DEF FilesKept, ReadsAlone
    <3>4. CASE FilesHand(t) /\ result = searcher[t].result
      <4>1. KeyOwner[arr[c].key] = t
        BY <3>2, <3>4 DEF BlockInv, OwnTitles, TitlesAgree
      <4> QED
        BY <1>1, <2>1, <3>4, <4>1 DEF FilesHand
    <3> QED
      BY <3>1, <3>3, <3>4 DEF FilesOf
  <2> QED
    BY <2>2, <2>3
<1>4. CASE TakeCandidates(s)
  <2>1. PICK todo : searcher' = [searcher EXCEPT ![s] = [searcher[s] EXCEPT !.pc = "loop", !.hits = {}, !.todo = todo]]
    BY <1>4 DEF TakeCandidates
  <2>2. searcher'[s].pc = "loop"
    BY <1>0, <2>1 DEF Searcher
  <2> QED
    BY <2>2
<1> QED
  BY <1>0, <1>2, <1>3, <1>4, Turns

\* A search that asks takes no title on that is blocked: what has an item it
\* read in the cache, what has none is in the list or in its own hand.
LEMMA TodoIsFreeStep ==
    ASSUME BlockInv, [Next]_vars
    PROVE  TodoIsFree'
<1>0. /\ PlaceInv /\ TypeInv /\ searcher \in [Skills -> Searcher] /\ unsaved \in Seq(Unsaved)
      /\ CommandAccounted /\ HandsAgree /\ ResultsAgree
  BY DEF BlockInv, TrackInv, PlaceInv, SettlingInv, AccountInv, TypeInv, TypeOK
<1> SUFFICES ASSUME NEW s \in Skills, NEW c \in CmdId, Asks(s)', searcher'[s].pc \in {"loop", "storing"},
                    Blocking(c)'
             PROVE  arr'[c].key \notin searcher'[s].todo
  BY DEF TodoIsFree
<1>1. \/ Blocking(c) /\ arr'[c].key = arr[c].key
      \/ c = attempts + 1 /\ \E t \in Skills : Send(t, arr'[c].key) /\ arr'[c].key \in Keys
  BY <1>0, BlockingStays
<1>2. ASSUME NEW t \in Skills, Send(t, arr'[c].key) PROVE arr'[c].key \notin searcher'[s].todo
  <2>1. searcher[t].pc = "loop" /\ arr'[c].key \in searcher[t].todo /\ Holding(t, arr'[c].key, "submitted", attempts + 1, "sent")
    BY <1>2 DEF Send, Working
  <2>2. CASE t = s
    BY <1>0, <2>1, <2>2, HoldingGoes
  <2>3. CASE t # s
    <3>1. searcher'[s] = searcher[s]
      BY <1>0, <2>1, <2>3, HoldingMoves DEF Others
    <3> QED
      BY <2>1, <2>3, <3>1 DEF BlockInv, OwnTitles
  <2> QED
    BY <2>2, <2>3
<1>3. ASSUME Blocking(c), arr'[c].key = arr[c].key PROVE arr'[c].key \notin searcher'[s].todo
  <2>1. CASE Goes(s)
    BY <1>3, <2>1 DEF Goes, Asks, BlockInv, TodoIsFree
  <2>2. CASE ReadCache(s)
    <3> DEFINE hits == IF searcher[s].force THEN {} ELSE CacheHits
    <3>1. searcher' = [searcher EXCEPT ![s] = [searcher[s] EXCEPT !.pc = "hits", !.hits = hits]]
      BY <2>2 DEF ReadCache
    <3> HIDE DEF hits
    <3>2. searcher'[s].pc = "hits"
      BY <1>0, <3>1 DEF Searcher
    <3> QED
      BY <3>2
  <2>3. CASE TakeCandidates(s)
    <3> DEFINE hits == searcher[s].hits \cup (IF searcher[s].force THEN {} ELSE UnsavedHits)
    <3>1. PICK todo :
            /\ todo \subseteq {k \in Keys : KeyOwner[k] = s /\ k \notin hits}
            /\ searcher' = [searcher EXCEPT ![s] = [searcher[s] EXCEPT !.pc = "loop", !.hits = {}, !.todo = todo]]
      BY <2>3 DEF TakeCandidates
    <3>2. hits = searcher[s].hits \cup (IF searcher[s].force THEN {} ELSE UnsavedHits)
      OBVIOUS
    <3> HIDE DEF hits
    <3>3. /\ searcher'[s].todo = todo /\ searcher'[s].mode = searcher[s].mode
          /\ searcher'[s].force = searcher[s].force /\ searcher[s].pc = "hits"
      <4>1. searcher[s].pc = "hits"
        BY <2>3 DEF TakeCandidates
      <4>2. searcher[s] \in Searcher
        BY <1>0
      <4>3. searcher'[s] = [searcher[s] EXCEPT !.pc = "loop", !.hits = {}, !.todo = todo]
        BY <1>0, <3>1
      <4> QED
        BY <4>1, <4>2, <4>3 DEF Searcher
    <3>4. Asks(s) /\ hits = searcher[s].hits \cup UnsavedHits
      BY <3>2, <3>3 DEF Asks
    <3>5. SUFFICES ASSUME arr[c].key \in todo PROVE FALSE
      BY <1>3, <3>3
    <3>6. PICK k : k = arr[c].key
      OBVIOUS
    <3>7. k \in Keys /\ KeyOwner[k] = s /\ k \notin searcher[s].hits /\ k \notin UnsavedHits
      BY <3>1, <3>4, <3>5, <3>6
    <3>8. Unfiled(c)
      BY <1>3, <3>3, <3>4, <3>6, <3>7 DEF BlockInv, ReadBlocks
    <3>9. c \in InHand \cup Buffered
      BY <1>0, <1>3, <3>8 DEF CommandAccounted, Blocking, Filed, Unfiled
    <3>10. ASSUME NEW t \in Skills, searcher[t].result.cmd = c PROVE FALSE
      <4>1. KeyOwner[k] = t
        BY <3>6, <3>10 DEF BlockInv, OwnTitles, TitlesAgree, CmdId
      <4>2. searcher[t].pc = "storing"
        BY <1>0, <3>10 DEF HandsAgree, CmdId
      <4> QED
        BY <3>3, <3>7, <4>1, <4>2
    <3>11. ASSUME NEW n \in DOMAIN unsaved, unsaved[n].result.cmd = c PROVE FALSE
      <4>1. unsaved[n].result.key = k /\ unsaved[n].result.cmd # 0
        BY <3>6, <3>11 DEF BlockInv, TitlesAgree, CmdId
      <4>2. Caches(unsaved[n].result)
        BY <1>0, <4>1 DEF ResultsAgree, Agrees, Caches
      <4> QED
        BY <3>7, <4>1, <4>2 DEF UnsavedHits
    <3> QED
      BY <3>9, <3>10, <3>11 DEF InHand, Buffered
  <2> QED
    BY <1>0, <2>1, <2>2, <2>3, Turns
<1> QED
  BY <1>1, <1>2, <1>3

LEMMA BlockInit == Init => BlockInv
<1> SUFFICES ASSUME Init PROVE BlockInv
  OBVIOUS
<1>1. TrackInv
  BY TrackInit
<1>2. Sent = {}
  BY DEF Init, Sent, NoCommand
<1>3. \A c \in CmdId : ~Blocking(c)
  BY <1>2 DEF Blocking
<1>4. EntryNamesItsWriter /\ LapsedIsExcused
  BY DEF Init, EntryNamesItsWriter, LapsedIsExcused
<1>5. OwnTitles /\ TitlesAgree
  BY DEF Init, OwnTitles, TitlesAgree, IdleSearcher, NoResult
<1> QED
  BY <1>1, <1>2, <1>3, <1>4, <1>5
  DEF BlockInv, SentForTitles, OneBlocks, FiledBlocks, ReadBlocks, TodoIsFree

LEMMA BlockStep == BlockInv /\ ReadsAlone /\ [Next]_vars => BlockInv'
<1> SUFFICES ASSUME BlockInv, ReadsAlone, [Next]_vars PROVE BlockInv'
  OBVIOUS
<1>1. TrackInv /\ PlaceInv /\ SettlingInv /\ TypeInv
  BY DEF BlockInv, TrackInv, PlaceInv, SettlingInv
<1>2. TrackInv' /\ EntryNamesItsWriter'
  BY <1>1, TrackStep, EntryStep DEF BlockInv
<1>3. LapsedIsExcused' /\ OwnTitles' /\ TitlesAgree' /\ SentForTitles'
  BY <1>1, LapsedStep, OwnTitlesStep, TitlesAgreeStep, SentForTitlesStep DEF BlockInv
<1>4. OneBlocks' /\ FiledBlocks' /\ ReadBlocks' /\ TodoIsFree'
  BY OneBlocksStep, FiledBlocksStep, ReadBlocksStep, TodoIsFreeStep
<1> QED
  BY <1>2, <1>3, <1>4 DEF BlockInv

\* NoDoubleSearch: as long as no search moves results from the list to the
\* cache between another's reads of the two, *arr never works on two commands
\* for one title, for any number of skills, titles, crashes and refused writes.
THEOREM SearchesAreSingle == Spec /\ []ReadsAlone => []NoDoubleSearch
<1>1. BlockInv => NoDoubleSearch
  <2> SUFFICES ASSUME BlockInv, NEW c \in CmdId, NEW d \in CmdId, c # d,
                      arr[c].state = "open", arr[d].state = "open", arr[c].key = arr[d].key
               PROVE  arr[c].key \in excused \/ {c, d} \cap lost # {}
    BY DEF NoDoubleSearch
  <2> QED
    BY DEF BlockInv, OneBlocks, Blocking, Sent
<1> QED
  BY <1>1, BlockInit, BlockStep, PTL DEF Spec
=============================================================================
