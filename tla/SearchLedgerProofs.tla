------------------------- MODULE SearchLedgerProofs -------------------------
(***************************************************************************)
(* What holds of the search ledger for any number of skills, titles, runs  *)
(* and attempts: the types, and that no accepted command drops out of the  *)
(* books unless the process died with it or *arr's answer never arrived.   *)
(***************************************************************************)
EXTENDS SearchLedger, TLAPS

-----------------------------------------------------------------------------
(* Records *)

\* What a step does to the record of a search keeps it well typed.
LEMMA SearcherMoves ==
    ASSUME NEW t \in Searcher
    PROVE  /\ \A pc \in SearcherPc : [t EXCEPT !.pc = pc] \in Searcher
           /\ \A hits \in SUBSET Keys : [t EXCEPT !.pc = "hits", !.hits = hits] \in Searcher
           /\ \A todo \in SUBSET Keys : [t EXCEPT !.pc = "loop", !.hits = {}, !.todo = todo] \in Searcher
           /\ [t EXCEPT !.todo = {}] \in Searcher
           /\ [t EXCEPT !.todo = {}, !.marks = @ \cup {"stopped"}] \in Searcher
           /\ [t EXCEPT !.pc = "loop", !.result = NoResult] \in Searcher
  BY DEF Searcher, SearcherPc, Marks, Result, NoResult, ResultStatuses

\* A title in hand (Holding).
LEMMA SearcherHolds ==
    ASSUME NEW t \in Searcher, NEW k \in Keys, NEW cmd \in CmdId \cup {0},
           NEW status \in ResultStatuses, NEW mark \in Marks
    PROVE  [t EXCEPT !.pc = "storing", !.todo = @ \ {k},
                     !.result = [key |-> k, cmd |-> cmd, status |-> status],
                     !.marks = @ \cup {mark}] \in Searcher
<1>1. [key |-> k, cmd |-> cmd, status |-> status] \in Result
  BY DEF Result
<1> QED
  BY <1>1 DEF Searcher, SearcherPc

\* A result the database refused (StoreResultFails).
LEMMA SearcherUnstored ==
    ASSUME NEW t \in Searcher, NEW stops \in BOOLEAN
    PROVE  [t EXCEPT !.pc = "loop", !.result = NoResult,
                     !.todo = IF stops THEN {} ELSE @,
                     !.marks = IF stops THEN @ \cup {"unstored"} ELSE @] \in Searcher
  BY DEF Searcher, SearcherPc, Result, NoResult, ResultStatuses, Marks

\* A run that starts (StartRun).
LEMMA SearcherStarts ==
    ASSUME NEW run \in RunId, NEW mode \in Modes, NEW force \in Forces
    PROVE  [IdleSearcher EXCEPT !.pc = "waiting", !.run = run, !.mode = mode, !.force = force] \in Searcher
  BY ModesAssumption DEF IdleSearcher, Searcher, SearcherPc, Result, NoResult, ResultStatuses

\* The idle records.
LEMMA IdleTypes == IdleSearcher \in Searcher /\ IdleVerify \in Verify
  BY DEF IdleSearcher, Searcher, SearcherPc, Result, NoResult, ResultStatuses, IdleVerify, Verify, VerifyPc

\* A verdict, an age or a deletion keeps an item well typed.
LEMMA ItemMoves ==
    ASSUME NEW t \in Item
    PROVE  /\ \A status \in ItemStatuses \cup {"none"} : [t EXCEPT !.status = status] \in Item
           /\ \A age \in {"due", "late"} : [t EXCEPT !.age = age] \in Item
           /\ [t EXCEPT !.live = FALSE] \in Item
  BY DEF Item

\* Every result but a skipped title makes a well-typed item (Record).
LEMMA NewItemType ==
    ASSUME NEW r \in RunId \cup {0}, NEW result \in Result, result.status # "skipped"
    PROVE  NewItem(r, result) \in Item
  BY DEF NewItem, Item, Result, ResultStatuses, ItemStatus, ItemStatuses, ItemVerdicts, DoneStatuses

\* The steps of a verification pass keep its record well typed.
LEMMA VerifyMoves ==
    ASSUME NEW t \in Verify
    PROVE  /\ \A pc \in VerifyPc : [t EXCEPT !.pc = pc] \in Verify
           /\ [t EXCEPT !.batch = {}] \in Verify
           /\ [t EXCEPT !.pc = "expiring", !.answered = {}] \in Verify
           /\ \A todo \in SUBSET RunId : [t EXCEPT !.pc = "settling", !.todo = todo] \in Verify
           /\ \A r \in RunId : [t EXCEPT !.todo = @ \ {r}] \in Verify
           /\ \A i \in ItemId : [t EXCEPT !.pc = "asking", !.batch = @ \ {i}, !.item = 0, !.verdict = "none"] \in Verify
  BY DEF Verify, VerifyPc

\* ... and so does an answer about a command (VerifyAsk).
LEMMA VerifyAnswers ==
    ASSUME NEW t \in Verify, NEW i \in ItemId, NEW verdict \in ItemStatuses
    PROVE  /\ [t EXCEPT !.batch = @ \ {i}, !.answered = @ \cup {i}] \in Verify
           /\ [t EXCEPT !.batch = @ \ {i}, !.answered = @] \in Verify
           /\ [t EXCEPT !.pc = "resolving", !.item = i, !.verdict = verdict] \in Verify
  BY DEF Verify, VerifyPc

\* A pass that starts (VerifyStart).
LEMMA VerifyStarts ==
    ASSUME NEW batch \in SUBSET ItemId
    PROVE  [IdleVerify EXCEPT !.pc = "asking", !.batch = batch] \in Verify
  BY DEF IdleVerify, Verify, VerifyPc

\* Accepting and ending a command in *arr.
LEMMA CommandMoves ==
    /\ \A k \in Keys : [key |-> k, state |-> "open"] \in Command
    /\ \A c \in Command : \A state \in {"completed", "failed", "forgotten"} : [c EXCEPT !.state = state] \in Command
  BY DEF Command

-----------------------------------------------------------------------------
(* Types *)

\* A search that is under way works for a run of its own.
RunOfItsOwn == \A s \in Skills : searcher[s].pc # "idle" => searcher[s].run \in RunId

TypeInv == TypeOK /\ RunOfItsOwn

\* The books start well typed.
LEMMA TypeInit == Init => TypeInv
  BY BoundsAssumption, SkillsAssumption, KeysAssumption, IdleTypes
  DEF Init, TypeInv, TypeOK, RunOfItsOwn, RunId, ItemId, CmdId, RunStatuses, Item, NoItem,
      Command, NoCommand, IdleSearcher

\* Taking a title in hand keeps the searches well typed.
LEMMA HoldingTypes ==
    ASSUME searcher \in [Skills -> Searcher], NEW s \in Skills, NEW k \in Keys, NEW cmd \in CmdId \cup {0},
           NEW status \in ResultStatuses, NEW mark \in Marks, Holding(s, k, status, cmd, mark)
    PROVE  searcher' \in [Skills -> Searcher]
<1>1. [searcher[s] EXCEPT !.pc = "storing", !.todo = @ \ {k},
                          !.result = [key |-> k, cmd |-> cmd, status |-> status],
                          !.marks = @ \cup {mark}] \in Searcher
  BY SearcherHolds
<1> QED
  BY <1>1 DEF Holding

\* Filing a result (record_submission, record_checked) keeps the books well typed.
LEMMA RecordTypes ==
    ASSUME TypeOK, NEW r \in RunId \cup {0}, NEW result \in Result, result.status # "skipped",
           Record(r, result)
    PROVE  /\ items' \in [ItemId -> Item]
           /\ nextItem' \in 1..(MaxItems + 1)
           /\ cache' \in [Keys -> ItemId \cup {0}]
           /\ lapsed' \in SUBSET Keys
<1>1. NewItem(r, result) \in Item
  BY NewItemType
<1>2. items' \in [ItemId -> Item]
  BY <1>1 DEF TypeOK, Record
<1>3. nextItem' \in 1..(MaxItems + 1)
  BY BoundsAssumption DEF TypeOK, Record, ItemId
<1>4. nextItem \in ItemId
  BY DEF Record
<1>5. cache' \in [Keys -> ItemId \cup {0}] /\ lapsed' \in SUBSET Keys
  BY <1>4 DEF TypeOK, Record
<1> QED
  BY <1>2, <1>3, <1>5

\* Every step keeps the books well typed, and a search its run.
LEMMA TypeStep == TypeInv /\ [Next]_vars => TypeInv'
<1> SUFFICES ASSUME TypeInv, [Next]_vars PROVE TypeInv'
  OBVIOUS
<1>0. /\ searcher \in [Skills -> Searcher]
      /\ items \in [ItemId -> Item]
      /\ unsaved \in Seq(Unsaved)
      /\ verify \in Verify
      /\ arr \in [CmdId -> Command]
      /\ runs \in [RunId -> RunStatuses]
  BY DEF TypeInv, TypeOK
<1>1. ASSUME NEW s \in Skills, StartRun(s) PROVE TypeInv'
  <2>1. PICK mode \in Modes, force \in Forces :
          searcher' = [searcher EXCEPT ![s] =
             [IdleSearcher EXCEPT !.pc = "waiting", !.run = nextRun, !.mode = mode, !.force = force]]
    BY <1>1 DEF StartRun
  <2>2. nextRun \in RunId
    BY <1>1 DEF StartRun
  <2>3. [IdleSearcher EXCEPT !.pc = "waiting", !.run = nextRun, !.mode = mode, !.force = force] \in Searcher
    BY <2>2, SearcherStarts
  <2>4. searcher' \in [Skills -> Searcher] /\ RunOfItsOwn'
    BY <1>0, <2>1, <2>2, <2>3 DEF RunOfItsOwn, TypeInv, IdleSearcher
  <2>5. runs' \in [RunId -> RunStatuses] /\ nextRun' \in 1..(MaxRuns + 1)
    BY <1>1, <2>2, BoundsAssumption DEF StartRun, TypeInv, TypeOK, RunId, RunStatuses
  <2> QED
    BY <1>1, <2>4, <2>5 DEF StartRun, TypeInv, TypeOK, dbVars, budgetVars, ghostVars
<1>2. ASSUME NEW s \in Skills, LockUnsaved(s) PROVE TypeInv'
  <2>1. searcher' \in [Skills -> Searcher]
    BY <1>0, <1>2, SearcherMoves DEF LockUnsaved, SearcherPc
  <2> QED
    BY <1>0, <1>2, <2>1 DEF LockUnsaved, TypeInv, TypeOK, RunOfItsOwn, dbVars, budgetVars, ghostVars
<1>3. ASSUME NEW s \in Skills, StoreUnsaved(s) PROVE TypeInv'
  <2> DEFINE entry == Head(unsaved)
  <2>1. entry \in Unsaved
    BY <1>0, <1>3 DEF StoreUnsaved
  <2>2. /\ entry.result \in Result
        /\ entry.result.status # "skipped"
        /\ FiledUnder(s, entry) \in RunId \cup {0}
    BY <1>0, <2>1 DEF Unsaved, Kept, FiledUnder, Searcher
  <2>3. Record(FiledUnder(s, entry), entry.result)
    BY <1>3 DEF StoreUnsaved
  <2> HIDE DEF entry
  <2>4. /\ items' \in [ItemId -> Item]
        /\ nextItem' \in 1..(MaxItems + 1)
        /\ cache' \in [Keys -> ItemId \cup {0}]
        /\ lapsed' \in SUBSET Keys
    BY <2>2, <2>3, RecordTypes DEF TypeInv
  <2>5. searcher' \in [Skills -> Searcher]
    BY <1>0, <1>3, SearcherMoves DEF StoreUnsaved, SearcherPc
  <2>6. UNCHANGED <<runs, nextRun>>
    BY <2>3 DEF Record
  <2> QED
    BY <1>3, <2>4, <2>5, <2>6 DEF StoreUnsaved, TypeInv, TypeOK, RunOfItsOwn, budgetVars, ghostVars
<1>4. ASSUME NEW s \in Skills, DropStored(s) PROVE TypeInv'
  <2>1. searcher' \in [Skills -> Searcher]
    BY <1>0, <1>4, SearcherMoves DEF DropStored, SearcherPc
  <2>2. unsaved' \in Seq(Unsaved)
    BY <1>0, <1>4 DEF DropStored, Remaining
  <2>3. RunOfItsOwn'
    BY <1>0, <1>4 DEF DropStored, RunOfItsOwn, TypeInv
  <2> QED
    BY <1>4, <2>1, <2>2, <2>3 DEF DropStored, TypeInv, TypeOK, dbVars, budgetVars, ghostVars
<1>5. ASSUME NEW s \in Skills, UnsavedDone(s) PROVE TypeInv'
  <2>1. searcher' \in [Skills -> Searcher]
    BY <1>0, <1>5, SearcherMoves DEF UnsavedDone, SearcherPc
  <2> QED
    BY <1>0, <1>5, <2>1, BoundsAssumption DEF UnsavedDone, TypeInv, TypeOK, RunOfItsOwn, Fault, dbVars, budgetVars, ghostVars
<1>6. ASSUME NEW s \in Skills, ReadCache(s) PROVE TypeInv'
  <2>1. searcher' \in [Skills -> Searcher]
    BY <1>0, <1>6, SearcherMoves DEF ReadCache, CacheHits
  <2> QED
    BY <1>0, <1>6, <2>1 DEF ReadCache, TypeInv, TypeOK, RunOfItsOwn, dbVars, budgetVars, ghostVars
<1>7. ASSUME NEW s \in Skills, TakeCandidates(s) PROVE TypeInv'
  <2>1. PICK todo \in SUBSET Keys :
          searcher' = [searcher EXCEPT ![s] = [searcher[s] EXCEPT !.pc = "loop", !.hits = {}, !.todo = todo]]
    BY <1>7 DEF TakeCandidates
  <2>2. [searcher[s] EXCEPT !.pc = "loop", !.hits = {}, !.todo = todo] \in Searcher
    BY <1>0, SearcherMoves
  <2>3. searcher' \in [Skills -> Searcher] /\ RunOfItsOwn'
    BY <1>0, <1>7, <2>1, <2>2 DEF TakeCandidates, RunOfItsOwn, TypeInv
  <2> QED
    BY <1>7, <2>3 DEF TakeCandidates, TypeInv, TypeOK, dbVars, budgetVars, ghostVars
<1>8. ASSUME NEW s \in Skills, CollectFails(s) PROVE TypeInv'
  <2>1. searcher' \in [Skills -> Searcher]
    BY <1>0, <1>8, SearcherMoves DEF CollectFails, SearcherPc
  <2> QED
    BY <1>0, <1>8, <2>1, BoundsAssumption DEF CollectFails, TypeInv, TypeOK, RunOfItsOwn, Fault, dbVars, budgetVars, ghostVars
<1>9. ASSUME NEW s \in Skills, StoreResult(s) PROVE TypeInv'
  <2>1. searcher' \in [Skills -> Searcher]
    BY <1>0, <1>9, SearcherMoves DEF StoreResult
  <2>2. RunOfItsOwn'
    BY <1>0, <1>9 DEF StoreResult, RunOfItsOwn, TypeInv
  <2>3. CASE searcher[s].result.status = "skipped"
    BY <1>9, <2>1, <2>2, <2>3 DEF StoreResult, TypeInv, TypeOK, dbVars, budgetVars, ghostVars
  <2>4. CASE searcher[s].result.status # "skipped"
    <3>1. Record(searcher[s].run, searcher[s].result)
      BY <1>9, <2>4 DEF StoreResult
    <3>2. searcher[s].run \in RunId \cup {0} /\ searcher[s].result \in Result
      BY <1>0 DEF Searcher
    <3>3. /\ items' \in [ItemId -> Item]
          /\ nextItem' \in 1..(MaxItems + 1)
          /\ cache' \in [Keys -> ItemId \cup {0}]
          /\ lapsed' \in SUBSET Keys
      BY <2>4, <3>1, <3>2, RecordTypes DEF TypeInv
    <3>4. UNCHANGED <<runs, nextRun>>
      BY <3>1 DEF Record
    <3> QED
      BY <1>9, <2>1, <2>2, <3>3, <3>4 DEF StoreResult, TypeInv, TypeOK, budgetVars, ghostVars
  <2> QED
    BY <2>3, <2>4
<1>10. ASSUME NEW s \in Skills, StoreResultFails(s) PROVE TypeInv'
  <2> DEFINE stops == Kept(searcher[s].result) \/ searcher[s].mode = "checked"
  <2>1. searcher' = [searcher EXCEPT ![s] = [searcher[s] EXCEPT
            !.pc = "loop",
            !.result = NoResult,
            !.todo = IF stops THEN {} ELSE @,
            !.marks = IF stops THEN @ \cup {"unstored"} ELSE @]]
    BY <1>10 DEF StoreResultFails
  <2>2. stops \in BOOLEAN
    BY Zenon
  <2> HIDE DEF stops
  <2>3. searcher' \in [Skills -> Searcher] /\ RunOfItsOwn'
    <3>1. [searcher[s] EXCEPT
            !.pc = "loop",
            !.result = NoResult,
            !.todo = IF stops THEN {} ELSE @,
            !.marks = IF stops THEN @ \cup {"unstored"} ELSE @] \in Searcher
      BY <1>0, <2>2, SearcherUnstored
    <3> QED
      BY <1>0, <1>10, <2>1, <3>1 DEF StoreResultFails, RunOfItsOwn, TypeInv
  <2>4. unsaved' \in Seq(Unsaved)
    <3>1. CASE Kept(searcher[s].result)
      <4>1. searcher[s].run \in RunId /\ searcher[s].result \in Result
        BY <1>0, <1>10 DEF StoreResultFails, RunOfItsOwn, TypeInv, Searcher
      <4>2. [run |-> searcher[s].run, result |-> searcher[s].result] \in Unsaved
        BY <3>1, <4>1 DEF Unsaved
      <4> QED
        BY <1>0, <1>10, <3>1, <4>2 DEF StoreResultFails, KeptInMemory
    <3>2. CASE ~Kept(searcher[s].result)
      BY <1>0, <1>10, <3>2 DEF StoreResultFails
    <3> QED
      BY <3>1, <3>2
  <2>5. faults' \in 0..MaxFaults
    BY <1>10, BoundsAssumption DEF StoreResultFails, Fault, TypeInv, TypeOK
  <2> QED
    BY <1>10, <2>3, <2>4, <2>5 DEF StoreResultFails, TypeInv, TypeOK, dbVars, ghostVars
<1>11. ASSUME NEW s \in Skills, StopEarly(s) PROVE TypeInv'
  <2>1. searcher' \in [Skills -> Searcher]
    BY <1>0, <1>11, SearcherMoves DEF StopEarly
  <2> QED
    BY <1>0, <1>11, <2>1 DEF StopEarly, TypeInv, TypeOK, RunOfItsOwn, dbVars, budgetVars, ghostVars
<1>12. ASSUME NEW s \in Skills, CapReached(s) PROVE TypeInv'
  <2>1. searcher' \in [Skills -> Searcher]
    BY <1>0, <1>12, SearcherMoves DEF CapReached
  <2> QED
    BY <1>0, <1>12, <2>1 DEF CapReached, TypeInv, TypeOK, RunOfItsOwn, dbVars, budgetVars, ghostVars
<1>13. ASSUME NEW s \in Skills, CloseRun(s) PROVE TypeInv'
  <2>1. searcher' \in [Skills -> Searcher]
    BY <1>0, <1>13, IdleTypes DEF CloseRun
  <2>2. runs' \in [RunId -> RunStatuses]
    BY <1>0, <1>13 DEF CloseRun, ClosingStatus, AggregateRunStatus, RunStatuses, SettledStatuses
  <2>3. RunOfItsOwn'
    BY <1>0, <1>13 DEF CloseRun, RunOfItsOwn, TypeInv, IdleSearcher
  <2> QED
    BY <1>13, <2>1, <2>2, <2>3 DEF CloseRun, TypeInv, TypeOK, dbVars, budgetVars, ghostVars
<1>14. ASSUME NEW s \in Skills, CloseRunFails(s) PROVE TypeInv'
  <2>1. searcher' \in [Skills -> Searcher]
    BY <1>0, <1>14, SearcherMoves DEF CloseRunFails, SearcherPc
  <2> QED
    BY <1>0, <1>14, <2>1, BoundsAssumption DEF CloseRunFails, TypeInv, TypeOK, RunOfItsOwn, Fault, dbVars, budgetVars, ghostVars
<1>15. ASSUME NEW s \in Skills, CloseBroken(s) PROVE TypeInv'
  <2>1. searcher' \in [Skills -> Searcher]
    BY <1>0, <1>15, IdleTypes DEF CloseBroken
  <2>2. runs' \in [RunId -> RunStatuses]
    BY <1>0, <1>15 DEF CloseBroken, RunStatuses
  <2>3. RunOfItsOwn'
    BY <1>0, <1>15 DEF CloseBroken, RunOfItsOwn, TypeInv, IdleSearcher
  <2>4. faults' \in 0..MaxFaults
    BY <1>15, BoundsAssumption DEF CloseBroken, Fault, TypeInv, TypeOK, budgetVars
  <2> QED
    BY <1>15, <2>1, <2>2, <2>3, <2>4 DEF CloseBroken, TypeInv, TypeOK, dbVars, budgetVars, ghostVars
<1>16. ASSUME NEW s \in Skills, NEW k \in Keys, Send(s, k) PROVE TypeInv'
  <2>1. attempts + 1 \in CmdId
    BY <1>16, BoundsAssumption DEF Send, Working, TypeInv, TypeOK, CmdId
  <2>2. Holding(s, k, "submitted", attempts + 1, "sent")
    BY <1>16 DEF Send
  <2>3. searcher' \in [Skills -> Searcher]
    BY <1>0, <2>1, <2>2, HoldingTypes DEF ResultStatuses, Marks
  <2>4. RunOfItsOwn'
    BY <1>0, <1>16, <2>2 DEF Send, Working, Holding, RunOfItsOwn, TypeInv
  <2>5. arr' \in [CmdId -> Command]
    BY <1>0, <1>16, CommandMoves DEF Send, ArrAccepts
  <2>6. attempts' \in 0..MaxAttempts /\ faults' \in 0..MaxFaults
    BY <1>16, BoundsAssumption DEF Send, Working, Fault, TypeInv, TypeOK, budgetVars
  <2> QED
    BY <1>16, <2>1, <2>3, <2>4, <2>5, <2>6 DEF Send, TypeInv, TypeOK, dbVars, budgetVars
<1>17. ASSUME NEW s \in Skills, NEW k \in Keys, SendWithoutId(s, k) PROVE TypeInv'
  <2>1. Holding(s, k, "expired", 0, "sent")
    BY <1>17 DEF SendWithoutId
  <2>2. searcher' \in [Skills -> Searcher]
    BY <1>0, <2>1, HoldingTypes DEF ResultStatuses, Marks
  <2>3. RunOfItsOwn'
    BY <1>0, <1>17, <2>1 DEF SendWithoutId, Working, Holding, RunOfItsOwn, TypeInv
  <2>4. attempts' \in 0..MaxAttempts
    BY <1>17, BoundsAssumption DEF SendWithoutId, Working, TypeInv, TypeOK
  <2> QED
    BY <1>17, <2>2, <2>3, <2>4 DEF SendWithoutId, TypeInv, TypeOK, dbVars, budgetVars, ghostVars
<1>18. ASSUME NEW s \in Skills, NEW k \in Keys, SendRefused(s, k) PROVE TypeInv'
  <2>1. Holding(s, k, "failed", 0, "failed")
    BY <1>18 DEF SendRefused
  <2>2. searcher' \in [Skills -> Searcher]
    BY <1>0, <2>1, HoldingTypes DEF ResultStatuses, Marks
  <2>3. RunOfItsOwn'
    BY <1>0, <1>18, <2>1 DEF SendRefused, Working, Holding, RunOfItsOwn, TypeInv
  <2>4. attempts' \in 0..MaxAttempts
    BY <1>18, BoundsAssumption DEF SendRefused, Working, TypeInv, TypeOK
  <2> QED
    BY <1>18, <2>2, <2>3, <2>4 DEF SendRefused, TypeInv, TypeOK, dbVars, budgetVars, ghostVars
<1>19. ASSUME NEW s \in Skills, NEW k \in Keys, SendAnswerLost(s, k) PROVE TypeInv'
  <2>1. attempts + 1 \in CmdId
    BY <1>19, BoundsAssumption DEF SendAnswerLost, Working, TypeInv, TypeOK, CmdId
  <2>2. Holding(s, k, "failed", 0, "failed")
    BY <1>19 DEF SendAnswerLost
  <2>3. searcher' \in [Skills -> Searcher]
    BY <1>0, <2>1, <2>2, HoldingTypes DEF ResultStatuses, Marks
  <2>4. RunOfItsOwn'
    BY <1>0, <1>19, <2>2 DEF SendAnswerLost, Working, Holding, RunOfItsOwn, TypeInv
  <2>5. arr' \in [CmdId -> Command]
    BY <1>0, <1>19, CommandMoves DEF SendAnswerLost, ArrAccepts
  <2>6. attempts' \in 0..MaxAttempts /\ faults' \in 0..MaxFaults
    BY <1>19, BoundsAssumption DEF SendAnswerLost, Working, Fault, TypeInv, TypeOK, budgetVars
  <2> QED
    BY <1>19, <2>1, <2>3, <2>4, <2>5, <2>6 DEF SendAnswerLost, TypeInv, TypeOK, dbVars, budgetVars
<1>20. ASSUME NEW s \in Skills, NEW k \in Keys, Check(s, k) PROVE TypeInv'
  <2>1. \E status \in ResultStatuses, mark \in Marks : Holding(s, k, status, 0, mark)
    BY <1>20 DEF Check, ResultStatuses, Marks
  <2>2. searcher' \in [Skills -> Searcher]
    BY <1>0, <2>1, HoldingTypes DEF ResultStatuses, Marks
  <2>3. RunOfItsOwn'
    BY <1>0, <1>20, <2>1 DEF Check, Working, Holding, RunOfItsOwn, TypeInv
  <2>4. attempts' \in 0..MaxAttempts
    BY <1>20, BoundsAssumption DEF Check, Working, TypeInv, TypeOK
  <2> QED
    BY <1>20, <2>2, <2>3, <2>4 DEF Check, TypeInv, TypeOK, dbVars, budgetVars, ghostVars
<1>21. ASSUME VerifyStart PROVE TypeInv'
  <2>1. verify' \in Verify
    BY <1>0, <1>21, VerifyStarts DEF VerifyStart, OpenItems, LiveItems
  <2> QED
    BY <1>0, <1>21, <2>1, BoundsAssumption DEF VerifyStart, TypeInv, TypeOK, RunOfItsOwn, Fault, dbVars, verifyFrame, ghostVars
<1>22. ASSUME VerifyResolve PROVE TypeInv'
  <2>1. verify' \in Verify
    <3>1. PICK i \in ItemId \cup {0} : i = verify.item
      BY <1>0 DEF Verify
    <3>2. [verify EXCEPT !.pc = "asking", !.batch = @ \ {i}, !.item = 0, !.verdict = "none"] \in Verify
      BY <1>0 DEF Verify, VerifyPc
    <3> QED
      BY <1>22, <3>1, <3>2 DEF VerifyResolve
  <2>2. items' \in [ItemId -> Item]
    <3>1. verify.verdict \in ItemStatuses \cup {"none"}
      BY <1>0 DEF Verify
    <3>2. CASE verify.item \in ItemId
      <4>1. [items[verify.item] EXCEPT !.status = verify.verdict] \in Item
        BY <1>0, <3>1, <3>2, ItemMoves
      <4> QED
        BY <1>0, <1>22, <4>1 DEF VerifyResolve
    <3>3. CASE verify.item \notin ItemId
      BY <1>0, <1>22, <3>3 DEF VerifyResolve
    <3> QED
      BY <3>2, <3>3
  <2>3. cache' \in [Keys -> ItemId \cup {0}] /\ lapsed' \in SUBSET Keys
    BY <1>0, <1>22 DEF VerifyResolve, TypeInv, TypeOK
  <2> QED
    BY <1>22, <2>1, <2>2, <2>3 DEF VerifyResolve, TypeInv, TypeOK, RunOfItsOwn, verifyFrame, ghostVars
<1>23. ASSUME VerifyMark PROVE TypeInv'
  <2>1. verify' \in Verify
    BY <1>0, <1>23, VerifyMoves DEF VerifyMark
  <2>2. items' \in [ItemId -> Item]
    BY <1>0, <1>23, ItemMoves DEF VerifyMark
  <2> QED
    BY <1>0, <1>23, <2>1, <2>2, BoundsAssumption DEF VerifyMark, TypeInv, TypeOK, RunOfItsOwn, Fault, dbVars, verifyFrame, ghostVars
<1>24. ASSUME VerifyExpire PROVE TypeInv'
  <2>1. verify' \in Verify
    BY <1>0, <1>24, VerifyMoves DEF VerifyExpire, VerifyPc
  <2>2. items' \in [ItemId -> Item]
    BY <1>0, <1>24, ItemMoves DEF VerifyExpire, ItemStatuses, ItemVerdicts
  <2> QED
    BY <1>0, <1>24, <2>1, <2>2, BoundsAssumption DEF VerifyExpire, TypeInv, TypeOK, RunOfItsOwn, Fault, dbVars, verifyFrame, ghostVars
<1>25. ASSUME VerifyList PROVE TypeInv'
  <2>1. verify' \in Verify
    BY <1>0, <1>25, VerifyMoves DEF VerifyList, Unresolved
  <2> QED
    BY <1>0, <1>25, <2>1, BoundsAssumption DEF VerifyList, TypeInv, TypeOK, RunOfItsOwn, Fault, dbVars, verifyFrame, ghostVars
<1>26. ASSUME VerifyDone PROVE TypeInv'
  <2>1. verify' \in Verify
    BY <1>0, <1>26, IdleTypes DEF VerifyDone
  <2> QED
    BY <1>0, <1>26, <2>1, BoundsAssumption DEF VerifyDone, TypeInv, TypeOK, RunOfItsOwn, Fault, dbVars, verifyFrame, ghostVars
<1>27. ASSUME VerifyStopped PROVE TypeInv'
  <2>1. verify' \in Verify
    BY <1>0, <1>27, VerifyMoves DEF VerifyStopped
  <2> QED
    BY <1>0, <1>27, <2>1, BoundsAssumption DEF VerifyStopped, TypeInv, TypeOK, RunOfItsOwn, Fault, dbVars, verifyFrame, ghostVars
<1>28. ASSUME VerifyFails PROVE TypeInv'
  <2>1. verify' \in Verify
    BY <1>0, <1>28, IdleTypes DEF VerifyFails
  <2> QED
    BY <1>0, <1>28, <2>1, BoundsAssumption DEF VerifyFails, TypeInv, TypeOK, RunOfItsOwn, Fault, dbVars, verifyFrame, ghostVars
<1>29. ASSUME ClearHistory PROVE TypeInv'
  <2>1. items' \in [ItemId -> Item]
    BY <1>0, <1>29, ItemMoves DEF ClearHistory, DeleteRuns
  <2>2. runs' \in [RunId -> RunStatuses]
    BY <1>0, <1>29 DEF ClearHistory, DeleteRuns, RunStatuses
  <2> QED
    BY <1>0, <1>29, <2>1, <2>2 DEF ClearHistory, TypeInv, TypeOK, RunOfItsOwn, DeleteRuns, idleFrame
<1>30. ASSUME ClearCache PROVE TypeInv'
  <2> QED
    BY <1>0, <1>30 DEF ClearCache, TypeInv, TypeOK, RunOfItsOwn, DeleteRuns, idleFrame
<1>31. ASSUME CrashRestart PROVE TypeInv'
  <2>1. searcher' \in [Skills -> Searcher]
    BY <1>0, <1>31, IdleTypes DEF CrashRestart
  <2>2. verify' \in Verify
    BY <1>0, <1>31, IdleTypes DEF CrashRestart
  <2>3. runs' \in [RunId -> RunStatuses]
    BY <1>0, <1>31 DEF CrashRestart, RunStatuses
  <2>4. unsaved' \in Seq(Unsaved)
    BY <1>0, <1>31 DEF CrashRestart
  <2>5. lost' \in SUBSET CmdId
    BY <1>31 DEF CrashRestart, InHand, Buffered, TypeInv, TypeOK
  <2>6. RunOfItsOwn'
    BY <1>31 DEF CrashRestart, RunOfItsOwn, IdleSearcher
  <2>7. crashes' \in 0..MaxCrashes
    BY <1>31, BoundsAssumption DEF CrashRestart, TypeInv, TypeOK
  <2> QED
    BY <1>31, <2>1, <2>2, <2>3, <2>4, <2>5, <2>6, <2>7 DEF CrashRestart, TypeInv, TypeOK
<1>32. ASSUME NEW i \in ItemId, VerifyAsk(i) PROVE TypeInv'
  <2>1. PICK answer : /\ faults' = faults \/ Fault
                      /\ LET verdict == MapCommandStatus(answer)
                         IN verify' = IF verdict = "submitted"
                              THEN [verify EXCEPT !.batch = @ \ {i},
                                                  !.answered = IF CountsAsCheck(answer) THEN @ \cup {i} ELSE @]
                              ELSE [verify EXCEPT !.pc = "resolving", !.item = i, !.verdict = verdict]
    BY <1>32 DEF VerifyAsk
  <2>2. PICK verdict \in ItemStatuses : verdict = MapCommandStatus(answer)
    BY DEF MapCommandStatus, ItemStatuses, ItemVerdicts, DoneStatuses
  <2>3. verify' \in Verify
    <3>1. CASE verdict = "submitted" /\ CountsAsCheck(answer)
      BY <1>0, <2>1, <2>2, <3>1 DEF Verify
    <3>2. CASE verdict = "submitted" /\ ~CountsAsCheck(answer)
      BY <1>0, <2>1, <2>2, <3>2 DEF Verify
    <3>3. CASE verdict # "submitted"
      BY <1>0, <2>1, <2>2, <3>3, VerifyAnswers
    <3> QED
      BY <3>1, <3>2, <3>3
  <2>4. faults' \in 0..MaxFaults
    BY <2>1, BoundsAssumption DEF Fault, TypeInv, TypeOK
  <2> QED
    BY <1>32, <2>3, <2>4 DEF VerifyAsk, TypeInv, TypeOK, RunOfItsOwn, dbVars, verifyFrame, ghostVars
<1>33. ASSUME NEW i \in ItemId, ItemAges(i) PROVE TypeInv'
  <2>1. items' \in [ItemId -> Item]
    BY <1>0, <1>33, ItemMoves DEF ItemAges
  <2> QED
    BY <1>0, <1>33, <2>1 DEF ItemAges, TypeInv, TypeOK, RunOfItsOwn, dbVars, budgetVars, ghostVars
<1>34. ASSUME NEW r \in RunId, VerifySettle(r) PROVE TypeInv'
  <2>1. verify' \in Verify
    BY <1>0, <1>34, VerifyMoves DEF VerifySettle
  <2>2. runs' \in [RunId -> RunStatuses]
    BY <1>0, <1>34 DEF VerifySettle, AggregateRunStatus, RunStatuses, SettledStatuses
  <2> QED
    BY <1>0, <1>34, <2>1, <2>2, BoundsAssumption DEF VerifySettle, TypeInv, TypeOK, RunOfItsOwn, Fault, dbVars, verifyFrame, ghostVars
<1>35. ASSUME NEW r \in RunId, PurgeOldRun(r) PROVE TypeInv'
  <2>1. items' \in [ItemId -> Item]
    BY <1>0, <1>35, ItemMoves DEF PurgeOldRun, DeleteRuns
  <2>2. runs' \in [RunId -> RunStatuses]
    BY <1>0, <1>35 DEF PurgeOldRun, DeleteRuns, RunStatuses
  <2> QED
    BY <1>0, <1>35, <2>1, <2>2 DEF PurgeOldRun, TypeInv, TypeOK, RunOfItsOwn, DeleteRuns, idleFrame
<1>36. ASSUME NEW k \in Keys, EntryLapses(k) PROVE TypeInv'
  <2> QED
    BY <1>0, <1>36 DEF EntryLapses, TypeInv, TypeOK, RunOfItsOwn, idleFrame
<1>37. ASSUME NEW k \in Keys, PurgeEntry(k) PROVE TypeInv'
  <2> QED
    BY <1>0, <1>37 DEF PurgeEntry, TypeInv, TypeOK, RunOfItsOwn, idleFrame
<1>38. ASSUME NEW c \in CmdId, ArrSettles(c) PROVE TypeInv'
  <2>1. PICK state \in {"completed", "failed", "forgotten"} :
          arr' = [arr EXCEPT ![c] = [arr[c] EXCEPT !.state = state]]
    BY <1>38 DEF ArrSettles
  <2>2. arr' \in [CmdId -> Command]
    BY <1>0, <2>1, CommandMoves
  <2> QED
    BY <1>38, <2>2 DEF ArrSettles, TypeInv, TypeOK, RunOfItsOwn, dbVars, budgetVars, ghostVars
<1>39. ASSUME NEW c \in CmdId, ArrForgets(c) PROVE TypeInv'
  <2>1. arr' \in [CmdId -> Command]
    BY <1>0, <1>39, CommandMoves DEF ArrForgets
  <2> QED
    BY <1>0, <1>39, <2>1 DEF ArrForgets, TypeInv, TypeOK, RunOfItsOwn, dbVars, budgetVars, ghostVars
<1>40. CASE UNCHANGED vars
  BY <1>40 DEF TypeInv, TypeOK, RunOfItsOwn, vars, dbVars, budgetVars, ghostVars
<1> QED
  BY <1>1, <1>2, <1>3, <1>4, <1>5, <1>6, <1>7, <1>8, <1>9, <1>10, <1>11, <1>12, <1>13, <1>14, <1>15, <1>16, <1>17, <1>18, <1>19, <1>20, <1>21, <1>22, <1>23, <1>24, <1>25, <1>26, <1>27, <1>28, <1>29, <1>30, <1>31, <1>32, <1>33, <1>34, <1>35, <1>36, <1>37, <1>38, <1>39, <1>40
  DEF Next, SearchStep, VerifyStep, UserStep, WorldStep

\* TypeOK: whatever is configured, every value in the books has its type.
THEOREM TypesHold == Spec => []TypeOK
<1>1. TypeInv => TypeOK
  BY DEF TypeInv
<1> QED
  BY <1>1, TypeInit, TypeStep, PTL DEF Spec

-----------------------------------------------------------------------------
(* Accounting for commands *)

\* Only a title waiting to be stored carries a command, an open one.
HandsAgree ==
    \A s \in Skills :
        /\ searcher[s].pc # "storing" => searcher[s].result.cmd = 0
        /\ searcher[s].result.cmd # 0 => searcher[s].result.status = "submitted"

\* One search at a time works through the unsaved list.
AtTheList(s) == searcher[s].pc \in {"saving", "dropping"}
OneAtTheList == \A s, t \in Skills : AtTheList(s) /\ AtTheList(t) => s = t

\* The entry about to leave the list has its item.
DroppedIsFiled ==
    \A s \in Skills : searcher[s].pc = "dropping" =>
        /\ unsaved # <<>>
        /\ Head(unsaved).result.cmd # 0 => Filed(Head(unsaved).result.cmd)

\* Rows not written yet hold no command.
FreshItems == \A i \in ItemId : i >= nextItem => items[i].cmd = 0

\* A verdict never reopens an item.
VerdictEnds == verify.verdict # "submitted"

\* What makes CommandAccounted inductive: a command moves from hand to list
\* to item, and no step empties one place before the next one is filled.
AccountInv ==
    /\ HandsAgree
    /\ OneAtTheList
    /\ DroppedIsFiled
    /\ FreshItems
    /\ VerdictEnds
    /\ CommandAccounted

Known(c) == c \in lost \cup InHand \cup Buffered \/ Filed(c)

\* An item keeps its command, and is deleted only once it has a verdict.
Keeps(i) ==
    /\ items'[i].cmd = items[i].cmd
    /\ (items[i].status = "submitted" => items[i].live) => (items'[i].status = "submitted" => items'[i].live)

LEMMA AccountInit == Init => AccountInv
  BY DEF Init, AccountInv, HandsAgree, OneAtTheList, AtTheList, DroppedIsFiled, FreshItems, VerdictEnds,
         CommandAccounted, Sent, IdleSearcher, NoResult, NoItem, NoCommand, IdleVerify

\* Items that are kept leave every filed command filed.
LEMMA FiledStays ==
    ASSUME \A i \in ItemId : Keeps(i)
    PROVE  \A c : Filed(c) => Filed(c)'
  BY DEF Keeps, Filed

\* A command stays accounted for when nothing known is forgotten and what
\* *arr newly accepted is known.
LEMMA AccountedStays ==
    ASSUME CommandAccounted,
           \A c \in CmdId : c \in Sent' => c \in Sent \/ Known(c)',
           \A c \in CmdId : Known(c) => Known(c)'
    PROVE  CommandAccounted'
  BY DEF CommandAccounted, Known, Sent

\* A step of the verification pass, the user, time or *arr: the searches
\* and the list stay as they are, no item loses its command.
LEMMA BooksMove ==
    ASSUME AccountInv,
           UNCHANGED <<searcher, unsaved, lost, nextItem>>,
           Sent' \subseteq Sent,
           \A i \in ItemId : Keeps(i),
           verify'.verdict # "submitted"
    PROVE  AccountInv'
<1>1. HandsAgree' /\ OneAtTheList'
  BY DEF AccountInv, HandsAgree, OneAtTheList, AtTheList
<1>2. DroppedIsFiled'
  BY FiledStays DEF AccountInv, DroppedIsFiled
<1>3. FreshItems'
  BY DEF AccountInv, FreshItems, Keeps
<1>4. CommandAccounted'
  <2>1. \A c \in CmdId : Known(c) => Known(c)'
    BY FiledStays DEF Known, InHand, Buffered
  <2> QED
    BY <2>1, AccountedStays DEF AccountInv
<1> QED
  BY <1>1, <1>2, <1>3, <1>4 DEF AccountInv, VerdictEnds

\* A search takes a step away from the list, without a command in hand.
LEMMA SearchMoves ==
    ASSUME AccountInv, searcher \in [Skills -> Searcher],
           NEW s \in Skills, NEW t, searcher' = [searcher EXCEPT ![s] = t],
           t.result.cmd = 0, t.pc \notin {"saving", "dropping"},
           searcher[s].result.cmd = 0,
           UNCHANGED <<items, nextItem, unsaved, lost, arr, verify>>
    PROVE  AccountInv'
<1>1. \A u \in Skills : u # s => searcher'[u] = searcher[u]
  OBVIOUS
<1>2. searcher'[s] = t
  OBVIOUS
<1>3. HandsAgree' /\ OneAtTheList'
  BY <1>1, <1>2 DEF AccountInv, HandsAgree, OneAtTheList, AtTheList
<1>4. \A c : Filed(c)' <=> Filed(c)
  BY DEF Filed
<1>5. DroppedIsFiled'
  BY <1>1, <1>2, <1>4 DEF AccountInv, DroppedIsFiled
<1>6. FreshItems' /\ VerdictEnds'
  BY DEF AccountInv, FreshItems, VerdictEnds
<1>7. CommandAccounted'
  <2>1. \A c \in CmdId : c # 0
    BY DEF CmdId
  <2>2. \A c \in CmdId : Known(c) => Known(c)'
    BY <1>1, <1>2, <1>4, <2>1 DEF Known, InHand, Buffered
  <2>3. Sent' = Sent
    BY DEF Sent
  <2> QED
    BY <2>2, <2>3, AccountedStays DEF AccountInv
<1> QED
  BY <1>3, <1>5, <1>6, <1>7 DEF AccountInv

\* Recording a result files its command, and keeps every other filed.
LEMMA RecordFiles ==
    ASSUME TypeOK, FreshItems, NEW r, NEW result \in Result, Record(r, result)
    PROVE  /\ \A c \in CmdId : Filed(c) \/ c = result.cmd => Filed(c)'
           /\ FreshItems'
<1>1. nextItem \in ItemId /\ nextItem' = nextItem + 1
  BY DEF Record
<1>2. items'[nextItem] = NewItem(r, result)
  BY <1>1 DEF Record, TypeOK
<1>3. items'[nextItem].cmd = result.cmd /\ items'[nextItem].live
  BY <1>2 DEF NewItem
<1>4. \A i \in ItemId : i # nextItem => items'[i] = items[i]
  BY DEF Record, TypeOK
<1>5. items[nextItem].cmd = 0
  BY <1>1 DEF FreshItems, ItemId
<1>6. \A c \in CmdId : Filed(c) => Filed(c)'
  BY <1>4, <1>5 DEF Filed, CmdId
<1>7. \A c \in CmdId : c = result.cmd => Filed(c)'
  BY <1>1, <1>3 DEF Filed
<1>8. FreshItems'
  BY <1>1, <1>4 DEF FreshItems, ItemId, TypeOK
<1> QED
  BY <1>6, <1>7, <1>8

\* The head of the list carries a command or none.
LEMMA HeadCommand ==
    ASSUME unsaved \in Seq(Unsaved), unsaved # <<>>
    PROVE  Head(unsaved).result.cmd \in CmdId \cup {0}
<1>1. Head(unsaved) \in Unsaved
  OBVIOUS
<1> QED
  BY <1>1 DEF Unsaved, Result

\* A search takes a title without a command in hand.
LEMMA EmptyHand ==
    ASSUME AccountInv, searcher \in [Skills -> Searcher],
           NEW s \in Skills, NEW k, NEW status, NEW mark, Holding(s, k, status, 0, mark),
           searcher[s].result.cmd = 0,
           UNCHANGED <<items, nextItem, unsaved, lost, arr, verify>>
    PROVE  AccountInv'
<1> DEFINE t == [searcher[s] EXCEPT !.pc = "storing", !.todo = @ \ {k},
                                    !.result = [key |-> k, cmd |-> 0, status |-> status],
                                    !.marks = @ \cup {mark}]
<1>1. searcher' = [searcher EXCEPT ![s] = t]
  BY DEF Holding
<1>2. t.result.cmd = 0 /\ t.pc \notin {"saving", "dropping"}
  BY DEF Searcher
<1> HIDE DEF t
<1> QED
  BY <1>1, <1>2, SearchMoves

\* Every step keeps every accepted command accounted for.
LEMMA AccountStep == TypeInv /\ AccountInv /\ [Next]_vars => AccountInv'
<1> SUFFICES ASSUME TypeInv, AccountInv, [Next]_vars PROVE AccountInv'
  OBVIOUS
<1>0. /\ searcher \in [Skills -> Searcher]
      /\ items \in [ItemId -> Item]
      /\ unsaved \in Seq(Unsaved)
      /\ verify \in Verify
      /\ arr \in [CmdId -> Command]
  BY DEF TypeInv, TypeOK
<1>1. ASSUME NEW s \in Skills, UnsavedDone(s) PROVE AccountInv'
  <2> DEFINE t == [searcher[s] EXCEPT !.pc = "collect"]
  <2>1. searcher' = [searcher EXCEPT ![s] = t]
    BY <1>1 DEF UnsavedDone
  <2>2. searcher[s] \in Searcher /\ searcher[s].result.cmd = 0
    BY <1>0, <1>1 DEF UnsavedDone, AccountInv, HandsAgree
  <2>3. t.result.cmd = 0 /\ t.pc \notin {"saving", "dropping"}
    BY <1>1, <2>2 DEF UnsavedDone, Searcher
  <2>4. UNCHANGED <<items, nextItem, unsaved, lost, arr, verify>>
    BY <1>1 DEF UnsavedDone, dbVars, ghostVars
  <2> HIDE DEF t
  <2> QED
    BY <1>0, <2>1, <2>2, <2>3, <2>4, SearchMoves
<1>2. ASSUME NEW s \in Skills, ReadCache(s) PROVE AccountInv'
  <2> DEFINE t == [searcher[s] EXCEPT !.pc = "hits", !.hits = IF searcher[s].force THEN {} ELSE CacheHits]
  <2>1. searcher' = [searcher EXCEPT ![s] = t]
    BY <1>2 DEF ReadCache
  <2>2. searcher[s] \in Searcher /\ searcher[s].result.cmd = 0
    BY <1>0, <1>2 DEF ReadCache, AccountInv, HandsAgree
  <2>3. t.result.cmd = 0 /\ t.pc \notin {"saving", "dropping"}
    BY <1>2, <2>2 DEF ReadCache, Searcher
  <2>4. UNCHANGED <<items, nextItem, unsaved, lost, arr, verify>>
    BY <1>2 DEF ReadCache, dbVars, ghostVars
  <2> HIDE DEF t
  <2> QED
    BY <1>0, <2>1, <2>2, <2>3, <2>4, SearchMoves
<1>3. ASSUME NEW s \in Skills, CollectFails(s) PROVE AccountInv'
  <2> DEFINE t == [searcher[s] EXCEPT !.pc = "broken"]
  <2>1. searcher' = [searcher EXCEPT ![s] = t]
    BY <1>3 DEF CollectFails
  <2>2. searcher[s] \in Searcher /\ searcher[s].result.cmd = 0
    BY <1>0, <1>3 DEF CollectFails, AccountInv, HandsAgree
  <2>3. t.result.cmd = 0 /\ t.pc \notin {"saving", "dropping"}
    BY <1>3, <2>2 DEF CollectFails, Searcher
  <2>4. UNCHANGED <<items, nextItem, unsaved, lost, arr, verify>>
    BY <1>3 DEF CollectFails, dbVars, ghostVars
  <2> HIDE DEF t
  <2> QED
    BY <1>0, <2>1, <2>2, <2>3, <2>4, SearchMoves
<1>4. ASSUME NEW s \in Skills, StopEarly(s) PROVE AccountInv'
  <2> DEFINE t == [searcher[s] EXCEPT !.todo = {}, !.marks = @ \cup {"stopped"}]
  <2>1. searcher' = [searcher EXCEPT ![s] = t]
    BY <1>4 DEF StopEarly
  <2>2. searcher[s] \in Searcher /\ searcher[s].result.cmd = 0
    BY <1>0, <1>4 DEF StopEarly, AccountInv, HandsAgree
  <2>3. t.result.cmd = 0 /\ t.pc \notin {"saving", "dropping"}
    BY <1>4, <2>2 DEF StopEarly, Searcher
  <2>4. UNCHANGED <<items, nextItem, unsaved, lost, arr, verify>>
    BY <1>4 DEF StopEarly, dbVars, ghostVars
  <2> HIDE DEF t
  <2> QED
    BY <1>0, <2>1, <2>2, <2>3, <2>4, SearchMoves
<1>5. ASSUME NEW s \in Skills, CapReached(s) PROVE AccountInv'
  <2> DEFINE t == [searcher[s] EXCEPT !.todo = {}]
  <2>1. searcher' = [searcher EXCEPT ![s] = t]
    BY <1>5 DEF CapReached
  <2>2. searcher[s] \in Searcher /\ searcher[s].result.cmd = 0
    BY <1>0, <1>5 DEF CapReached, AccountInv, HandsAgree
  <2>3. t.result.cmd = 0 /\ t.pc \notin {"saving", "dropping"}
    BY <1>5, <2>2 DEF CapReached, Searcher
  <2>4. UNCHANGED <<items, nextItem, unsaved, lost, arr, verify>>
    BY <1>5 DEF CapReached, dbVars, ghostVars
  <2> HIDE DEF t
  <2> QED
    BY <1>0, <2>1, <2>2, <2>3, <2>4, SearchMoves
<1>6. ASSUME NEW s \in Skills, CloseRun(s) PROVE AccountInv'
  <2> DEFINE t == IdleSearcher
  <2>1. searcher' = [searcher EXCEPT ![s] = t]
    BY <1>6 DEF CloseRun
  <2>2. searcher[s] \in Searcher /\ searcher[s].result.cmd = 0
    BY <1>0, <1>6 DEF CloseRun, AccountInv, HandsAgree
  <2>3. t.result.cmd = 0 /\ t.pc \notin {"saving", "dropping"}
    BY <1>6, <2>2 DEF CloseRun, IdleSearcher, NoResult, Searcher
  <2>4. UNCHANGED <<items, nextItem, unsaved, lost, arr, verify>>
    BY <1>6 DEF CloseRun, dbVars, ghostVars
  <2> HIDE DEF t
  <2> QED
    BY <1>0, <2>1, <2>2, <2>3, <2>4, SearchMoves
<1>7. ASSUME NEW s \in Skills, CloseRunFails(s) PROVE AccountInv'
  <2> DEFINE t == [searcher[s] EXCEPT !.pc = "broken"]
  <2>1. searcher' = [searcher EXCEPT ![s] = t]
    BY <1>7 DEF CloseRunFails
  <2>2. searcher[s] \in Searcher /\ searcher[s].result.cmd = 0
    BY <1>0, <1>7 DEF CloseRunFails, AccountInv, HandsAgree
  <2>3. t.result.cmd = 0 /\ t.pc \notin {"saving", "dropping"}
    BY <1>7, <2>2 DEF CloseRunFails, Searcher
  <2>4. UNCHANGED <<items, nextItem, unsaved, lost, arr, verify>>
    BY <1>7 DEF CloseRunFails, dbVars, ghostVars
  <2> HIDE DEF t
  <2> QED
    BY <1>0, <2>1, <2>2, <2>3, <2>4, SearchMoves
<1>8. ASSUME NEW s \in Skills, CloseBroken(s) PROVE AccountInv'
  <2> DEFINE t == IdleSearcher
  <2>1. searcher' = [searcher EXCEPT ![s] = t]
    BY <1>8 DEF CloseBroken
  <2>2. searcher[s] \in Searcher /\ searcher[s].result.cmd = 0
    BY <1>0, <1>8 DEF CloseBroken, AccountInv, HandsAgree
  <2>3. t.result.cmd = 0 /\ t.pc \notin {"saving", "dropping"}
    BY <1>8, <2>2 DEF CloseBroken, IdleSearcher, NoResult, Searcher
  <2>4. UNCHANGED <<items, nextItem, unsaved, lost, arr, verify>>
    BY <1>8 DEF CloseBroken, dbVars, ghostVars
  <2> HIDE DEF t
  <2> QED
    BY <1>0, <2>1, <2>2, <2>3, <2>4, SearchMoves
<1>9. ASSUME NEW s \in Skills, StartRun(s) PROVE AccountInv'
  <2>1. PICK mode \in Modes, force \in Forces :
          searcher' = [searcher EXCEPT ![s] =
             [IdleSearcher EXCEPT !.pc = "waiting", !.run = nextRun, !.mode = mode, !.force = force]]
    BY <1>9 DEF StartRun
  <2> DEFINE t == [IdleSearcher EXCEPT !.pc = "waiting", !.run = nextRun, !.mode = mode, !.force = force]
  <2>2. searcher[s].result.cmd = 0
    BY <1>9 DEF StartRun, AccountInv, HandsAgree
  <2>3. t.result.cmd = 0 /\ t.pc \notin {"saving", "dropping"}
    BY DEF IdleSearcher, NoResult
  <2>4. UNCHANGED <<items, nextItem, unsaved, lost, arr, verify>>
    BY <1>9 DEF StartRun, ghostVars
  <2>5. searcher' = [searcher EXCEPT ![s] = t]
    BY <2>1
  <2> HIDE DEF t
  <2> QED
    BY <1>0, <2>2, <2>3, <2>4, <2>5, SearchMoves
<1>10. ASSUME NEW s \in Skills, TakeCandidates(s) PROVE AccountInv'
  <2>1. PICK todo \in SUBSET Keys :
          searcher' = [searcher EXCEPT ![s] = [searcher[s] EXCEPT !.pc = "loop", !.hits = {}, !.todo = todo]]
    BY <1>10 DEF TakeCandidates
  <2> DEFINE t == [searcher[s] EXCEPT !.pc = "loop", !.hits = {}, !.todo = todo]
  <2>2. searcher[s] \in Searcher /\ searcher[s].result.cmd = 0
    BY <1>0, <1>10 DEF TakeCandidates, AccountInv, HandsAgree
  <2>3. t.result.cmd = 0 /\ t.pc \notin {"saving", "dropping"}
    BY <2>2 DEF Searcher
  <2>4. UNCHANGED <<items, nextItem, unsaved, lost, arr, verify>>
    BY <1>10 DEF TakeCandidates, dbVars, ghostVars
  <2>5. searcher' = [searcher EXCEPT ![s] = t]
    BY <2>1
  <2> HIDE DEF t
  <2> QED
    BY <1>0, <2>2, <2>3, <2>4, <2>5, SearchMoves
<1>11. ASSUME NEW s \in Skills, NEW k \in Keys, SendWithoutId(s, k) PROVE AccountInv'
  <2>1. Holding(s, k, "expired", 0, "sent")
    BY <1>11 DEF SendWithoutId
  <2>2. searcher[s].result.cmd = 0
    BY <1>11 DEF SendWithoutId, Working, AccountInv, HandsAgree
  <2>3. UNCHANGED <<items, nextItem, unsaved, lost, arr, verify>>
    BY <1>11 DEF SendWithoutId, dbVars, ghostVars
  <2> QED
    BY <1>0, <2>1, <2>2, <2>3, EmptyHand
<1>12. ASSUME NEW s \in Skills, NEW k \in Keys, SendRefused(s, k) PROVE AccountInv'
  <2>1. Holding(s, k, "failed", 0, "failed")
    BY <1>12 DEF SendRefused
  <2>2. searcher[s].result.cmd = 0
    BY <1>12 DEF SendRefused, Working, AccountInv, HandsAgree
  <2>3. UNCHANGED <<items, nextItem, unsaved, lost, arr, verify>>
    BY <1>12 DEF SendRefused, dbVars, ghostVars
  <2> QED
    BY <1>0, <2>1, <2>2, <2>3, EmptyHand
<1>13. ASSUME NEW s \in Skills, NEW k \in Keys, Check(s, k) PROVE AccountInv'
  <2>1. \E status, mark : Holding(s, k, status, 0, mark)
    BY <1>13 DEF Check
  <2>2. searcher[s].result.cmd = 0
    BY <1>13 DEF Check, Working, AccountInv, HandsAgree
  <2>3. UNCHANGED <<items, nextItem, unsaved, lost, arr, verify>>
    BY <1>13 DEF Check, dbVars, ghostVars
  <2> QED
    BY <1>0, <2>1, <2>2, <2>3, EmptyHand
<1>14. ASSUME NEW s \in Skills, LockUnsaved(s) PROVE AccountInv'
  <2>1. /\ searcher[s].result.cmd = 0
        /\ \A t \in Skills : ~AtTheList(t)
    BY <1>14 DEF LockUnsaved, UnsavedFree, AtTheList, AccountInv, HandsAgree
  <2>2. /\ searcher'[s].pc = "saving"
        /\ searcher'[s].result = searcher[s].result
        /\ \A t \in Skills : t # s => searcher'[t] = searcher[t]
    BY <1>0, <1>14 DEF LockUnsaved, Searcher
  <2>3. UNCHANGED <<items, nextItem, unsaved, lost, arr, verify>>
    BY <1>14 DEF LockUnsaved, dbVars, ghostVars
  <2>4. HandsAgree' /\ OneAtTheList' /\ DroppedIsFiled'
    BY <2>1, <2>2 DEF AtTheList, HandsAgree, OneAtTheList, DroppedIsFiled, AccountInv
  <2>5. FreshItems' /\ VerdictEnds'
    BY <2>3 DEF FreshItems, VerdictEnds, AccountInv
  <2>6. InHand' = InHand
    BY <2>2 DEF InHand
  <2>7. CommandAccounted'
    BY <2>3, <2>6 DEF AccountInv, CommandAccounted, Sent, Filed, Buffered
  <2> QED
    BY <2>4, <2>5, <2>7 DEF AccountInv
<1>15. ASSUME NEW s \in Skills, StoreUnsaved(s) PROVE AccountInv'
  <2> DEFINE entry == Head(unsaved)
             r == FiledUnder(s, entry)
  <2>1. entry.result \in Result /\ Record(r, entry.result)
    <3>1. entry \in Unsaved
      BY <1>0, <1>15 DEF StoreUnsaved
    <3> QED
      BY <1>15, <3>1 DEF StoreUnsaved, Unsaved
  <2> HIDE DEF r
  <2>2. /\ \A c \in CmdId : Filed(c) \/ c = entry.result.cmd => Filed(c)'
        /\ FreshItems'
    BY <2>1, RecordFiles DEF TypeInv, AccountInv
  <2>3. /\ searcher[s].pc = "saving"
        /\ searcher'[s].pc = "dropping"
        /\ searcher'[s].result = searcher[s].result
        /\ \A t \in Skills : t # s => searcher'[t] = searcher[t]
    BY <1>0, <1>15 DEF StoreUnsaved, Searcher
  <2>4. UNCHANGED <<unsaved, lost, arr, verify>> /\ unsaved # <<>>
    BY <1>15 DEF StoreUnsaved, ghostVars
  <2>5. HandsAgree' /\ OneAtTheList' /\ VerdictEnds'
    BY <2>3, <2>4 DEF HandsAgree, OneAtTheList, AtTheList, VerdictEnds, AccountInv
  <2>6. DroppedIsFiled'
    <3>1. \A t \in Skills : searcher'[t].pc = "dropping" => t = s
      BY <2>3 DEF AccountInv, OneAtTheList, AtTheList
    <3> QED
      BY <1>0, <2>2, <2>4, <3>1, HeadCommand DEF DroppedIsFiled
  <2>7. InHand' = InHand /\ Sent' = Sent /\ Buffered' = Buffered
    BY <2>3, <2>4 DEF InHand, Sent, Buffered
  <2>8. CommandAccounted'
    BY <2>2, <2>4, <2>7, AccountedStays DEF AccountInv, Known
  <2> QED
    BY <2>2, <2>5, <2>6, <2>8 DEF AccountInv
<1>16. ASSUME NEW s \in Skills, DropStored(s) PROVE AccountInv'
  <2>1. /\ searcher[s].pc = "dropping"
        /\ searcher'[s].pc = "saving"
        /\ searcher'[s].result = searcher[s].result
        /\ \A t \in Skills : t # s => searcher'[t] = searcher[t]
    BY <1>0, <1>16 DEF DropStored, Searcher
  <2>2. UNCHANGED <<items, nextItem, lost, arr, verify>>
    BY <1>16 DEF DropStored, dbVars, ghostVars
  <2>3. unsaved # <<>> /\ unsaved' = Tail(unsaved)
    BY <1>16 DEF DropStored, Remaining
  <2>4. HandsAgree' /\ OneAtTheList' /\ FreshItems' /\ VerdictEnds'
    BY <2>1, <2>2 DEF HandsAgree, OneAtTheList, AtTheList, FreshItems, VerdictEnds, AccountInv
  <2>5. DroppedIsFiled'
    BY <2>1 DEF DroppedIsFiled, AccountInv, OneAtTheList, AtTheList
  <2>6. \A c : Filed(c)' <=> Filed(c)
    BY <2>2 DEF Filed
  <2>7. \A c \in CmdId : c \in Buffered => c \in Buffered' \/ Filed(c)
    <3> SUFFICES ASSUME NEW c \in CmdId, c \in Buffered PROVE c \in Buffered' \/ Filed(c)
      OBVIOUS
    <3>1. PICK n \in DOMAIN unsaved : unsaved[n].result.cmd = c
      BY DEF Buffered
    <3>2. CASE n = 1
      BY <2>1, <2>3, <3>1, <3>2, <1>0 DEF AccountInv, DroppedIsFiled, CmdId
    <3>3. CASE n # 1
      <4>1. n - 1 \in DOMAIN unsaved' /\ unsaved'[n - 1] = unsaved[n]
        BY <1>0, <2>3, <3>1, <3>3
      <4> QED
        BY <3>1, <4>1 DEF Buffered
    <3> QED
      BY <3>2, <3>3
  <2>8. InHand' = InHand /\ Sent' = Sent
    BY <2>1, <2>2 DEF InHand, Sent
  <2>9. CommandAccounted'
    BY <2>2, <2>6, <2>7, <2>8, AccountedStays DEF AccountInv, Known
  <2> QED
    BY <2>4, <2>5, <2>9 DEF AccountInv
<1>17. ASSUME NEW s \in Skills, StoreResult(s) PROVE AccountInv'
  <2> DEFINE result == searcher[s].result
  <2>1. result \in Result
    BY <1>0 DEF Searcher
  <2>2. /\ searcher'[s].pc = "loop"
        /\ searcher'[s].result.cmd = 0
        /\ \A t \in Skills : t # s => searcher'[t] = searcher[t]
    BY <1>0, <1>17 DEF StoreResult, Searcher, NoResult
  <2>3. UNCHANGED <<unsaved, lost, arr, verify>>
    BY <1>17 DEF StoreResult, ghostVars
  <2>4. /\ \A c \in CmdId : Filed(c) \/ c = result.cmd => Filed(c)'
        /\ FreshItems'
    <3>1. CASE result.status = "skipped"
      <4>1. UNCHANGED <<items, nextItem>>
        BY <1>17, <3>1 DEF StoreResult, dbVars
      <4>2. result.cmd = 0
        BY <3>1 DEF AccountInv, HandsAgree
      <4> QED
        BY <4>1, <4>2 DEF Filed, FreshItems, AccountInv, CmdId
    <3>2. CASE result.status # "skipped"
      <4>1. Record(searcher[s].run, result)
        BY <1>17, <3>2 DEF StoreResult
      <4> QED
        BY <2>1, <4>1, RecordFiles DEF TypeInv, AccountInv
    <3> QED
      BY <3>1, <3>2
  <2>5. HandsAgree' /\ OneAtTheList' /\ VerdictEnds'
    BY <2>2, <2>3 DEF HandsAgree, OneAtTheList, AtTheList, VerdictEnds, AccountInv
  <2>6. DroppedIsFiled'
    BY <1>0, <2>2, <2>3, <2>4, HeadCommand DEF DroppedIsFiled, AccountInv
  <2>7. \A c \in CmdId : c \in InHand => c \in InHand' \/ Filed(c)'
    BY <2>2, <2>4 DEF InHand, CmdId
  <2>8. Sent' = Sent /\ Buffered' = Buffered
    BY <2>3 DEF Sent, Buffered
  <2>9. CommandAccounted'
    BY <2>3, <2>4, <2>7, <2>8, AccountedStays DEF AccountInv, Known
  <2> QED
    BY <2>4, <2>5, <2>6, <2>9 DEF AccountInv
<1>18. ASSUME NEW s \in Skills, StoreResultFails(s) PROVE AccountInv'
  <2> DEFINE result == searcher[s].result
  <2>1. /\ searcher'[s].pc = "loop"
        /\ searcher'[s].result.cmd = 0
        /\ \A t \in Skills : t # s => searcher'[t] = searcher[t]
    <3> DEFINE stops == Kept(searcher[s].result) \/ searcher[s].mode = "checked"
               todo == IF stops THEN {} ELSE searcher[s].todo
               marks == IF stops THEN searcher[s].marks \cup {"unstored"} ELSE searcher[s].marks
    <3>1. searcher' = [searcher EXCEPT ![s] = [searcher[s] EXCEPT
            !.pc = "loop", !.result = NoResult, !.todo = todo, !.marks = marks]]
      BY <1>18 DEF StoreResultFails
    <3> HIDE DEF todo, marks
    <3> QED
      BY <1>0, <3>1 DEF Searcher, NoResult
  <2>2. UNCHANGED <<items, nextItem, lost, arr, verify>>
    BY <1>18 DEF StoreResultFails, dbVars, ghostVars
  <2>3. HandsAgree' /\ OneAtTheList' /\ FreshItems' /\ VerdictEnds'
    BY <2>1, <2>2 DEF HandsAgree, OneAtTheList, AtTheList, FreshItems, VerdictEnds, AccountInv
  <2>4. \A c : Filed(c)' <=> Filed(c)
    BY <2>2 DEF Filed
  <2>5. CASE ~Kept(result)
    <3>1. result.cmd = 0 /\ UNCHANGED unsaved
      BY <1>18, <2>5 DEF StoreResultFails, AccountInv, HandsAgree, Kept
    <3>2. DroppedIsFiled'
      BY <2>1, <2>4, <3>1 DEF DroppedIsFiled, AccountInv
    <3>3. \A c \in CmdId : c \in InHand => c \in InHand'
      BY <2>1, <3>1 DEF InHand, CmdId
    <3>4. Sent' = Sent /\ Buffered' = Buffered
      BY <2>2, <3>1 DEF Sent, Buffered
    <3>5. CommandAccounted'
      BY <2>2, <2>4, <3>3, <3>4, AccountedStays DEF AccountInv, Known
    <3> QED
      BY <2>3, <3>2, <3>5 DEF AccountInv
  <2>6. CASE Kept(result)
    <3> DEFINE entry == [run |-> searcher[s].run, result |-> result]
    <3>1. UnsavedFree /\ unsaved' = Append(unsaved, entry)
      BY <1>18, <2>6 DEF StoreResultFails, KeptInMemory
    <3>2. DroppedIsFiled'
      BY <2>1, <3>1 DEF DroppedIsFiled, UnsavedFree
    <3>3. \A n \in DOMAIN unsaved : n \in DOMAIN unsaved' /\ unsaved'[n] = unsaved[n]
      BY <1>0, <3>1
    <3>4. Len(unsaved) + 1 \in DOMAIN unsaved' /\ unsaved'[Len(unsaved) + 1].result.cmd = result.cmd
      BY <1>0, <3>1
    <3>5. \A c \in CmdId : c \in InHand \cup Buffered => c \in InHand' \cup Buffered'
      BY <2>1, <3>3, <3>4 DEF InHand, Buffered
    <3>6. Sent' = Sent
      BY <2>2 DEF Sent
    <3>7. CommandAccounted'
      BY <2>2, <2>4, <3>5, <3>6, AccountedStays DEF AccountInv, Known
    <3> QED
      BY <2>3, <3>2, <3>7 DEF AccountInv
  <2> QED
    BY <2>5, <2>6
<1>19. ASSUME NEW s \in Skills, NEW k \in Keys, Send(s, k) PROVE AccountInv'
  <2>1. Holding(s, k, "submitted", attempts + 1, "sent") /\ searcher[s].pc = "loop"
    BY <1>19 DEF Send, Working
  <2>2. /\ searcher'[s].pc = "storing"
        /\ searcher'[s].result.cmd = attempts + 1
        /\ searcher'[s].result.status = "submitted"
        /\ \A t \in Skills : t # s => searcher'[t] = searcher[t]
    BY <1>0, <2>1 DEF Holding, Searcher
  <2>3. UNCHANGED <<items, nextItem, unsaved, verify>>
    BY <1>19 DEF Send, dbVars
  <2>4. HandsAgree' /\ OneAtTheList' /\ FreshItems' /\ VerdictEnds'
    BY <2>2, <2>3 DEF HandsAgree, OneAtTheList, AtTheList, FreshItems, VerdictEnds, AccountInv
  <2>5. \A c : Filed(c)' <=> Filed(c)
    BY <2>3 DEF Filed
  <2>6. DroppedIsFiled'
    BY <2>2, <2>3, <2>5 DEF DroppedIsFiled, AccountInv
  <2>7. \A c \in CmdId : c \in Sent' => c \in Sent \/ c = attempts + 1
    BY <1>0, <1>19 DEF Send, ArrAccepts, Sent
  <2>8. searcher[s].result.cmd = 0
    BY <2>1 DEF AccountInv, HandsAgree
  <2>9. \A c \in CmdId : c \in InHand => c \in InHand'
    BY <2>2, <2>8 DEF InHand, CmdId
  <2>10. \A c \in CmdId : c \in lost \cup Buffered => c \in lost' \cup Buffered'
    BY <1>19, <2>3 DEF Send, Buffered
  <2>11. \A c \in CmdId : c = attempts + 1 => c \in InHand' \cup lost'
    BY <1>19, <2>2 DEF Send, InHand
  <2>12. CommandAccounted'
    <3>1. \A c \in CmdId : c \in Sent' => c \in Sent \/ Known(c)'
      BY <2>7, <2>11 DEF Known
    <3>2. \A c \in CmdId : Known(c) => Known(c)'
      BY <2>5, <2>9, <2>10 DEF Known
    <3> QED
      BY <3>1, <3>2, AccountedStays DEF AccountInv
  <2> QED
    BY <2>4, <2>6, <2>12 DEF AccountInv
<1>20. ASSUME NEW s \in Skills, NEW k \in Keys, SendAnswerLost(s, k) PROVE AccountInv'
  <2>1. Holding(s, k, "failed", 0, "failed") /\ searcher[s].pc = "loop"
    BY <1>20 DEF SendAnswerLost, Working
  <2>2. /\ searcher'[s].pc = "storing"
        /\ searcher'[s].result.cmd = 0
        /\ searcher'[s].result.status = "failed"
        /\ \A t \in Skills : t # s => searcher'[t] = searcher[t]
    BY <1>0, <2>1 DEF Holding, Searcher
  <2>3. UNCHANGED <<items, nextItem, unsaved, verify>>
    BY <1>20 DEF SendAnswerLost, dbVars
  <2>4. HandsAgree' /\ OneAtTheList' /\ FreshItems' /\ VerdictEnds'
    BY <2>2, <2>3 DEF HandsAgree, OneAtTheList, AtTheList, FreshItems, VerdictEnds, AccountInv
  <2>5. \A c : Filed(c)' <=> Filed(c)
    BY <2>3 DEF Filed
  <2>6. DroppedIsFiled'
    BY <2>2, <2>3, <2>5 DEF DroppedIsFiled, AccountInv
  <2>7. \A c \in CmdId : c \in Sent' => c \in Sent \/ c = attempts + 1
    BY <1>0, <1>20 DEF SendAnswerLost, ArrAccepts, Sent
  <2>8. searcher[s].result.cmd = 0
    BY <2>1 DEF AccountInv, HandsAgree
  <2>9. \A c \in CmdId : c \in InHand => c \in InHand'
    BY <2>2, <2>8 DEF InHand, CmdId
  <2>10. \A c \in CmdId : c \in lost \cup Buffered => c \in lost' \cup Buffered'
    BY <1>20, <2>3 DEF SendAnswerLost, Buffered
  <2>11. \A c \in CmdId : c = attempts + 1 => c \in InHand' \cup lost'
    BY <1>20, <2>2 DEF SendAnswerLost, InHand
  <2>12. CommandAccounted'
    <3>1. \A c \in CmdId : c \in Sent' => c \in Sent \/ Known(c)'
      BY <2>7, <2>11 DEF Known
    <3>2. \A c \in CmdId : Known(c) => Known(c)'
      BY <2>5, <2>9, <2>10 DEF Known
    <3> QED
      BY <3>1, <3>2, AccountedStays DEF AccountInv
  <2> QED
    BY <2>4, <2>6, <2>12 DEF AccountInv
<1>21. ASSUME CrashRestart PROVE AccountInv'
  <2>1. \A s \in Skills : searcher'[s] = IdleSearcher
    BY <1>21 DEF CrashRestart
  <2>2. /\ UNCHANGED <<items, nextItem, arr>>
        /\ lost' = lost \cup InHand \cup Buffered
        /\ verify' = IdleVerify
    BY <1>21 DEF CrashRestart
  <2>3. HandsAgree' /\ OneAtTheList' /\ DroppedIsFiled' /\ FreshItems' /\ VerdictEnds'
    BY <2>1, <2>2 DEF HandsAgree, OneAtTheList, AtTheList, DroppedIsFiled, FreshItems, VerdictEnds, AccountInv,
                      IdleSearcher, NoResult, IdleVerify
  <2>4. CommandAccounted'
    BY <2>2, AccountedStays DEF Known, Sent, Filed, AccountInv
  <2> QED
    BY <2>3, <2>4 DEF AccountInv
<1>22. ASSUME VerifyStart PROVE AccountInv'
  <2>1. UNCHANGED <<searcher, unsaved, lost, nextItem>>
    BY <1>22 DEF VerifyStart, dbVars, verifyFrame, ghostVars
  <2>2. Sent' \subseteq Sent
    BY <1>22 DEF VerifyStart, dbVars, verifyFrame, ghostVars, Sent
  <2>3. \A j \in ItemId : Keeps(j)
    BY <1>22 DEF VerifyStart, dbVars, verifyFrame, ghostVars, Keeps
  <2>4. verify'.verdict # "submitted"
    BY <1>22 DEF VerifyStart, IdleVerify
  <2> QED
    BY <2>1, <2>2, <2>3, <2>4, BooksMove
<1>23. ASSUME VerifyResolve PROVE AccountInv'
  <2>1. UNCHANGED <<searcher, unsaved, lost, nextItem>>
    BY <1>23 DEF VerifyResolve, dbVars, verifyFrame, ghostVars
  <2>2. Sent' \subseteq Sent
    BY <1>23 DEF VerifyResolve, dbVars, verifyFrame, ghostVars, Sent
  <2>3. \A j \in ItemId : Keeps(j)
    BY <1>0, <1>23 DEF VerifyResolve, Keeps, Item, AccountInv, VerdictEnds
  <2>4. verify'.verdict # "submitted"
    BY <1>0, <1>23 DEF VerifyResolve, Verify, AccountInv, VerdictEnds
  <2> QED
    BY <2>1, <2>2, <2>3, <2>4, BooksMove
<1>24. ASSUME VerifyMark PROVE AccountInv'
  <2>1. UNCHANGED <<searcher, unsaved, lost, nextItem>>
    BY <1>24 DEF VerifyMark, dbVars, verifyFrame, ghostVars
  <2>2. Sent' \subseteq Sent
    BY <1>24 DEF VerifyMark, dbVars, verifyFrame, ghostVars, Sent
  <2>3. \A j \in ItemId : Keeps(j)
    BY <1>0, <1>24 DEF VerifyMark, Keeps, Item
  <2>4. verify'.verdict # "submitted"
    BY <1>0, <1>24 DEF VerifyMark, Verify, AccountInv, VerdictEnds
  <2> QED
    BY <2>1, <2>2, <2>3, <2>4, BooksMove
<1>25. ASSUME VerifyExpire PROVE AccountInv'
  <2>1. UNCHANGED <<searcher, unsaved, lost, nextItem>>
    BY <1>25 DEF VerifyExpire, dbVars, verifyFrame, ghostVars
  <2>2. Sent' \subseteq Sent
    BY <1>25 DEF VerifyExpire, dbVars, verifyFrame, ghostVars, Sent
  <2>3. \A j \in ItemId : Keeps(j)
    BY <1>0, <1>25 DEF VerifyExpire, Keeps, Item
  <2>4. verify'.verdict # "submitted"
    BY <1>0, <1>25 DEF VerifyExpire, Verify, AccountInv, VerdictEnds
  <2> QED
    BY <2>1, <2>2, <2>3, <2>4, BooksMove
<1>26. ASSUME VerifyList PROVE AccountInv'
  <2>1. UNCHANGED <<searcher, unsaved, lost, nextItem>>
    BY <1>26 DEF VerifyList, dbVars, verifyFrame, ghostVars
  <2>2. Sent' \subseteq Sent
    BY <1>26 DEF VerifyList, dbVars, verifyFrame, ghostVars, Sent
  <2>3. \A j \in ItemId : Keeps(j)
    BY <1>26 DEF VerifyList, dbVars, verifyFrame, ghostVars, Keeps
  <2>4. verify'.verdict # "submitted"
    BY <1>0, <1>26 DEF VerifyList, Verify, AccountInv, VerdictEnds
  <2> QED
    BY <2>1, <2>2, <2>3, <2>4, BooksMove
<1>27. ASSUME VerifyDone PROVE AccountInv'
  <2>1. UNCHANGED <<searcher, unsaved, lost, nextItem>>
    BY <1>27 DEF VerifyDone, dbVars, verifyFrame, ghostVars
  <2>2. Sent' \subseteq Sent
    BY <1>27 DEF VerifyDone, dbVars, verifyFrame, ghostVars, Sent
  <2>3. \A j \in ItemId : Keeps(j)
    BY <1>27 DEF VerifyDone, dbVars, verifyFrame, ghostVars, Keeps
  <2>4. verify'.verdict # "submitted"
    BY <1>27 DEF VerifyDone, IdleVerify
  <2> QED
    BY <2>1, <2>2, <2>3, <2>4, BooksMove
<1>28. ASSUME VerifyStopped PROVE AccountInv'
  <2>1. UNCHANGED <<searcher, unsaved, lost, nextItem>>
    BY <1>28 DEF VerifyStopped, dbVars, verifyFrame, ghostVars
  <2>2. Sent' \subseteq Sent
    BY <1>28 DEF VerifyStopped, dbVars, verifyFrame, ghostVars, Sent
  <2>3. \A j \in ItemId : Keeps(j)
    BY <1>28 DEF VerifyStopped, dbVars, verifyFrame, ghostVars, Keeps
  <2>4. verify'.verdict # "submitted"
    BY <1>0, <1>28 DEF VerifyStopped, Verify, AccountInv, VerdictEnds
  <2> QED
    BY <2>1, <2>2, <2>3, <2>4, BooksMove
<1>29. ASSUME VerifyFails PROVE AccountInv'
  <2>1. UNCHANGED <<searcher, unsaved, lost, nextItem>>
    BY <1>29 DEF VerifyFails, dbVars, verifyFrame, ghostVars
  <2>2. Sent' \subseteq Sent
    BY <1>29 DEF VerifyFails, dbVars, verifyFrame, ghostVars, Sent
  <2>3. \A j \in ItemId : Keeps(j)
    BY <1>29 DEF VerifyFails, dbVars, verifyFrame, ghostVars, Keeps
  <2>4. verify'.verdict # "submitted"
    BY <1>29 DEF VerifyFails, IdleVerify
  <2> QED
    BY <2>1, <2>2, <2>3, <2>4, BooksMove
<1>30. ASSUME NEW i \in ItemId, VerifyAsk(i) PROVE AccountInv'
  <2>1. UNCHANGED <<searcher, unsaved, lost, nextItem>>
    BY <1>30 DEF VerifyAsk, dbVars, verifyFrame, ghostVars
  <2>2. Sent' \subseteq Sent
    BY <1>30 DEF VerifyAsk, dbVars, verifyFrame, ghostVars, Sent
  <2>3. \A j \in ItemId : Keeps(j)
    BY <1>30 DEF VerifyAsk, dbVars, verifyFrame, ghostVars, Keeps
  <2>4. verify'.verdict # "submitted"
    <3>1. PICK answer : LET verdict == MapCommandStatus(answer)
                        IN verify' = IF verdict = "submitted"
                             THEN [verify EXCEPT !.batch = @ \ {i},
                                                 !.answered = IF CountsAsCheck(answer) THEN @ \cup {i} ELSE @]
                             ELSE [verify EXCEPT !.pc = "resolving", !.item = i, !.verdict = verdict]
      BY <1>30 DEF VerifyAsk
    <3> DEFINE verdict == MapCommandStatus(answer)
               answered == IF CountsAsCheck(answer) THEN verify.answered \cup {i} ELSE verify.answered
    <3>2. \/ verify' = [verify EXCEPT !.batch = @ \ {i}, !.answered = answered]
          \/ verdict # "submitted" /\ verify' = [verify EXCEPT !.pc = "resolving", !.item = i, !.verdict = verdict]
      BY <3>1
    <3> HIDE DEF verdict, answered
    <3> QED
      BY <1>0, <3>2 DEF Verify, AccountInv, VerdictEnds
  <2> QED
    BY <2>1, <2>2, <2>3, <2>4, BooksMove
<1>31. ASSUME NEW r \in RunId, VerifySettle(r) PROVE AccountInv'
  <2>1. UNCHANGED <<searcher, unsaved, lost, nextItem>>
    BY <1>31 DEF VerifySettle, dbVars, verifyFrame, ghostVars
  <2>2. Sent' \subseteq Sent
    BY <1>31 DEF VerifySettle, dbVars, verifyFrame, ghostVars, Sent
  <2>3. \A j \in ItemId : Keeps(j)
    BY <1>31 DEF VerifySettle, dbVars, verifyFrame, ghostVars, Keeps
  <2>4. verify'.verdict # "submitted"
    BY <1>0, <1>31 DEF VerifySettle, Verify, AccountInv, VerdictEnds
  <2> QED
    BY <2>1, <2>2, <2>3, <2>4, BooksMove
<1>32. ASSUME ClearHistory PROVE AccountInv'
  <2>1. UNCHANGED <<searcher, unsaved, lost, nextItem>>
    BY <1>32 DEF ClearHistory, DeleteRuns, idleFrame
  <2>2. Sent' \subseteq Sent
    BY <1>32 DEF ClearHistory, DeleteRuns, idleFrame, Sent
  <2>3. \A j \in ItemId : Keeps(j)
    BY <1>0, <1>32 DEF ClearHistory, DeleteRuns, Deletable, AwaitsVerdict, OpenItems, LiveItems, Keeps, Item
  <2>4. verify'.verdict # "submitted"
    BY <1>32 DEF ClearHistory, DeleteRuns, idleFrame, AccountInv, VerdictEnds
  <2> QED
    BY <2>1, <2>2, <2>3, <2>4, BooksMove
<1>33. ASSUME NEW r \in RunId, PurgeOldRun(r) PROVE AccountInv'
  <2>1. UNCHANGED <<searcher, unsaved, lost, nextItem>>
    BY <1>33 DEF PurgeOldRun, DeleteRuns, idleFrame
  <2>2. Sent' \subseteq Sent
    BY <1>33 DEF PurgeOldRun, DeleteRuns, idleFrame, Sent
  <2>3. \A j \in ItemId : Keeps(j)
    BY <1>0, <1>33 DEF PurgeOldRun, DeleteRuns, Deletable, AwaitsVerdict, OpenItems, LiveItems, Keeps, Item
  <2>4. verify'.verdict # "submitted"
    BY <1>33 DEF PurgeOldRun, DeleteRuns, idleFrame, AccountInv, VerdictEnds
  <2> QED
    BY <2>1, <2>2, <2>3, <2>4, BooksMove
<1>34. ASSUME ClearCache PROVE AccountInv'
  <2>1. UNCHANGED <<searcher, unsaved, lost, nextItem>>
    BY <1>34 DEF ClearCache, idleFrame
  <2>2. Sent' \subseteq Sent
    BY <1>34 DEF ClearCache, idleFrame, Sent
  <2>3. \A j \in ItemId : Keeps(j)
    BY <1>34 DEF ClearCache, idleFrame, Keeps
  <2>4. verify'.verdict # "submitted"
    BY <1>34 DEF ClearCache, idleFrame, AccountInv, VerdictEnds
  <2> QED
    BY <2>1, <2>2, <2>3, <2>4, BooksMove
<1>35. ASSUME NEW k \in Keys, EntryLapses(k) PROVE AccountInv'
  <2>1. UNCHANGED <<searcher, unsaved, lost, nextItem>>
    BY <1>35 DEF EntryLapses, idleFrame
  <2>2. Sent' \subseteq Sent
    BY <1>35 DEF EntryLapses, idleFrame, Sent
  <2>3. \A j \in ItemId : Keeps(j)
    BY <1>35 DEF EntryLapses, idleFrame, Keeps
  <2>4. verify'.verdict # "submitted"
    BY <1>35 DEF EntryLapses, idleFrame, AccountInv, VerdictEnds
  <2> QED
    BY <2>1, <2>2, <2>3, <2>4, BooksMove
<1>36. ASSUME NEW k \in Keys, PurgeEntry(k) PROVE AccountInv'
  <2>1. UNCHANGED <<searcher, unsaved, lost, nextItem>>
    BY <1>36 DEF PurgeEntry, idleFrame
  <2>2. Sent' \subseteq Sent
    BY <1>36 DEF PurgeEntry, idleFrame, Sent
  <2>3. \A j \in ItemId : Keeps(j)
    BY <1>36 DEF PurgeEntry, idleFrame, Keeps
  <2>4. verify'.verdict # "submitted"
    BY <1>36 DEF PurgeEntry, idleFrame, AccountInv, VerdictEnds
  <2> QED
    BY <2>1, <2>2, <2>3, <2>4, BooksMove
<1>37. ASSUME NEW c \in CmdId, ArrSettles(c) PROVE AccountInv'
  <2>1. UNCHANGED <<searcher, unsaved, lost, nextItem>>
    BY <1>37 DEF ArrSettles, dbVars, ghostVars
  <2>2. Sent' \subseteq Sent
    BY <1>0, <1>37 DEF ArrSettles, Sent, Command
  <2>3. \A j \in ItemId : Keeps(j)
    BY <1>37 DEF ArrSettles, dbVars, ghostVars, Keeps
  <2>4. verify'.verdict # "submitted"
    BY <1>37 DEF ArrSettles, dbVars, ghostVars, AccountInv, VerdictEnds
  <2> QED
    BY <2>1, <2>2, <2>3, <2>4, BooksMove
<1>38. ASSUME NEW c \in CmdId, ArrForgets(c) PROVE AccountInv'
  <2>1. UNCHANGED <<searcher, unsaved, lost, nextItem>>
    BY <1>38 DEF ArrForgets, dbVars, ghostVars
  <2>2. Sent' \subseteq Sent
    BY <1>0, <1>38 DEF ArrForgets, Sent, Command
  <2>3. \A j \in ItemId : Keeps(j)
    BY <1>38 DEF ArrForgets, dbVars, ghostVars, Keeps
  <2>4. verify'.verdict # "submitted"
    BY <1>38 DEF ArrForgets, dbVars, ghostVars, AccountInv, VerdictEnds
  <2> QED
    BY <2>1, <2>2, <2>3, <2>4, BooksMove
<1>39. ASSUME NEW i \in ItemId, ItemAges(i) PROVE AccountInv'
  <2>1. UNCHANGED <<searcher, unsaved, lost, nextItem>>
    BY <1>39 DEF ItemAges, dbVars, ghostVars
  <2>2. Sent' \subseteq Sent
    BY <1>39 DEF ItemAges, dbVars, ghostVars, Sent
  <2>3. \A j \in ItemId : Keeps(j)
    BY <1>0, <1>39 DEF ItemAges, Keeps, Item
  <2>4. verify'.verdict # "submitted"
    BY <1>39 DEF ItemAges, dbVars, ghostVars, AccountInv, VerdictEnds
  <2> QED
    BY <2>1, <2>2, <2>3, <2>4, BooksMove
<1>40. CASE UNCHANGED vars
  <2>1. UNCHANGED <<searcher, unsaved, lost, nextItem, items, arr, verify>>
    BY <1>40 DEF vars, dbVars, ghostVars
  <2>2. Sent' \subseteq Sent /\ verify'.verdict # "submitted" /\ \A j \in ItemId : Keeps(j)
    BY <2>1 DEF Sent, Keeps, AccountInv, VerdictEnds
  <2> QED
    BY <2>1, <2>2, BooksMove
<1> QED
  BY <1>1, <1>2, <1>3, <1>4, <1>5, <1>6, <1>7, <1>8, <1>9, <1>10, <1>11, <1>12, <1>13, <1>14, <1>15, <1>16, <1>17, <1>18, <1>19, <1>20, <1>21, <1>22, <1>23, <1>24, <1>25, <1>26, <1>27, <1>28, <1>29, <1>30, <1>31, <1>32, <1>33, <1>34, <1>35, <1>36, <1>37, <1>38, <1>39, <1>40
  DEF Next, SearchStep, VerifyStep, UserStep, WorldStep

\* CommandAccounted: whatever the number of skills, titles, runs, faults and
\* crashes, a command *arr accepted is lost with the process or its answer, in
\* hand, in memory, or has an item that stays until it has a verdict.
THEOREM CommandsAccounted == Spec => []CommandAccounted
<1>1. Init => TypeInv /\ AccountInv
  BY TypeInit, AccountInit
<1>2. TypeInv /\ AccountInv /\ [Next]_vars => (TypeInv /\ AccountInv)'
  BY TypeStep, AccountStep
<1>3. TypeInv /\ AccountInv => CommandAccounted
  BY DEF AccountInv
<1> QED
  BY <1>1, <1>2, <1>3, PTL DEF Spec
=============================================================================
