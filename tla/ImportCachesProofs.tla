------------------------- MODULE ImportCachesProofs -------------------------
(***************************************************************************)
(* What holds of the caches of the Imports page for any number of request  *)
(* threads, downloads, slots and changes of the app: no cache keeps what   *)
(* an action overtook, nobody is served it, the menu does not go back      *)
(* behind the page, a later read of a proposal stays, slots and lock are   *)
(* given back.                                                             *)
(***************************************************************************)
EXTENDS ImportCaches, FiniteSetTheorems, TLAPS

----------------------------------------------------------------------------
(* The inductive invariant *)

\* A request names a download, only a card peeks at the snapshot, and only a
\* count goes through the steps of the count.
RequestsFit ==
    \A r \in Readers :
        /\ reader[r].pc # "idle" => reader[r].download \in Downloads
        /\ reader[r].pc = "peek" => reader[r].kind = "card"
        /\ reader[r].pc \in {"lock", "countHit", "status", "keepCount"} => reader[r].kind = "count"

\* What was observed of the app is not newer than the app, nor what a cache or
\* a request holds.
NothingFromTheFuture ==
    /\ queueFloor <= version /\ shown <= version
    /\ \A d \in Downloads : proposalFloor[d] <= version
    /\ queue # None => queue <= version
    /\ count # None => count <= version
    /\ \A r \in Readers : reader[r].answer <= version /\ reader[r].served <= version

\* A thread remembers a generation that was, and asks for what was over.
Remembered ==
    \A r \in Readers :
        /\ reader[r].generation <= generation
        /\ reader[r].countGeneration <= generation
        /\ reader[r].proposalGeneration <= proposalGen
        /\ reader[r].queueNeed <= queueFloor
        /\ reader[r].pc # "idle" => reader[r].proposalNeed <= proposalFloor[reader[r].download]

\* An answer in hand serves its request, and while the generation it began in
\* lasts, it is not older than the last action.
Answers ==
    \A r \in Readers :
        /\ reader[r].pc = "keep" =>
              /\ reader[r].answer >= reader[r].queueNeed
              /\ reader[r].generation = generation => reader[r].answer >= queueFloor
              /\ reader[r].countGeneration = generation =>
                    reader[r].answer >= queueFloor /\ reader[r].answer >= shown
        /\ reader[r].pc = "keepCount" /\ reader[r].countGeneration = generation =>
              reader[r].served >= queueFloor /\ reader[r].served >= shown
        /\ reader[r].pc = "keepProposal" =>
              /\ reader[r].answer >= reader[r].proposalNeed
              /\ reader[r].proposalGeneration = proposalGen =>
                    reader[r].answer >= proposalFloor[reader[r].download]

Fresh ==
    /\ RequestsFit /\ NothingFromTheFuture /\ Remembered /\ Answers
    /\ NothingStaleKept /\ ServedAfterAction /\ CountMatchesList

OneCounter == \A r, s \in countLock : r = s

CacheInv == TypeOK /\ SlotsGivenBack /\ OneCounter /\ Fresh

----------------------------------------------------------------------------
(* The record of a request that begins *)

\* What a request begins with.
LEMMA StartedRequest ==
    ASSUME TypeOK, NEW r \in Readers, StartRequest(r)
    PROVE  /\ reader' \in [Readers -> Reader]
           /\ \A s \in Readers \ {r} : reader'[s] = reader[s]
           /\ reader'[r].pc \in {"peek", "lock", "begin"}
           /\ reader'[r].pc = "peek" => reader'[r].kind = "card"
           /\ reader'[r].pc = "lock" <=> reader'[r].kind = "count"
           /\ reader'[r].download \in Downloads
           /\ reader'[r].generation = 0 /\ reader'[r].countGeneration = 0
           /\ reader'[r].proposalGeneration = 0 /\ reader'[r].answer = 0
           /\ reader'[r].queueNeed = queueFloor /\ reader'[r].served = queueFloor
           /\ reader'[r].proposalNeed = proposalFloor[reader'[r].download]
           /\ reader'[r].servedProposal = proposalFloor[reader'[r].download]
<1>1. PICK kind \in Kinds, d \in Downloads : reader' = [reader EXCEPT ![r] =
            [Idle EXCEPT !.kind = kind, !.download = d,
                         !.queueNeed = queueFloor, !.served = queueFloor,
                         !.proposalNeed = proposalFloor[d],
                         !.servedProposal = proposalFloor[d],
                         !.pc = CASE kind = "card" -> "peek"
                                  [] kind = "count" -> "lock"
                                  [] OTHER -> "begin"]]
  BY DEF StartRequest
<1> DEFINE pc == CASE kind = "card" -> "peek" [] kind = "count" -> "lock" [] OTHER -> "begin"
           new == [Idle EXCEPT !.kind = kind, !.download = d,
                               !.queueNeed = queueFloor, !.served = queueFloor,
                               !.proposalNeed = proposalFloor[d],
                               !.servedProposal = proposalFloor[d], !.pc = pc]
<1>2. /\ pc \in {"peek", "lock", "begin"}
      /\ pc = "peek" <=> kind = "card"
      /\ pc = "lock" <=> kind = "count"
  OBVIOUS
<1>3. reader' = [reader EXCEPT ![r] = new]
  BY <1>1, Zenon
<1> HIDE DEF pc
<1>4. queueFloor \in Versions /\ proposalFloor[d] \in Versions /\ 0 \in Versions
  BY BoundsAssumption DEF TypeOK, Versions
<1>5. Idle \in Reader
  BY <1>4 DEF Idle, Reader
<1>6. /\ new \in Reader
      /\ new.pc = pc /\ new.kind = kind /\ new.download = d
      /\ new.generation = 0 /\ new.countGeneration = 0 /\ new.proposalGeneration = 0 /\ new.answer = 0
      /\ new.queueNeed = queueFloor /\ new.served = queueFloor
      /\ new.proposalNeed = proposalFloor[d] /\ new.servedProposal = proposalFloor[d]
  BY <1>2, <1>4, <1>5, KindsAssumption DEF Idle, Reader
<1> HIDE DEF new
<1>7. reader \in [Readers -> Reader]
  BY DEF TypeOK
<1>8. reader' \in [Readers -> Reader] /\ reader'[r] = new /\ \A s \in Readers \ {r} : reader'[s] = reader[s]
  BY <1>3, <1>6, <1>7
<1> QED
  BY <1>2, <1>6, <1>8

----------------------------------------------------------------------------
(* Slots and the count's lock *)

\* There are finitely many of them.
LEMMA HoldersCounted == IsFiniteSet(Holders) /\ Cardinality(Holders) \in Nat
<1>1. Holders \subseteq Readers
  BY DEF Holders
<1> QED
  BY <1>1, ReadersAssumption, FS_Subset, FS_CardinalityType

\* Nothing is taken or given back.
LEMMA SlotStays ==
    ASSUME CacheInv, Holders' = Holders, slots' = slots
    PROVE  slots' \in 0 .. Slots /\ slots' + Cardinality(Holders') = Slots
  BY DEF CacheInv, TypeOK, SlotsGivenBack

\* A thread gets a slot (AcquireSlot).
LEMMA SlotTaken ==
    ASSUME CacheInv, NEW r \in Readers \ Holders, Holders' = Holders \cup {r},
           slots > 0, slots' = slots - 1
    PROVE  slots' \in 0 .. Slots /\ slots' + Cardinality(Holders') = Slots
<1>1. Cardinality(Holders') = Cardinality(Holders) + 1
  BY HoldersCounted, FS_AddElement
<1> QED
  BY <1>1, HoldersCounted, SlotsAssumption DEF CacheInv, TypeOK, SlotsGivenBack

\* A thread gives its slot back.
LEMMA SlotReturned ==
    ASSUME CacheInv, NEW r \in Holders, Holders' = Holders \ {r}, slots' = slots + 1
    PROVE  slots' \in 0 .. Slots /\ slots' + Cardinality(Holders') = Slots
<1>1. Cardinality(Holders') = Cardinality(Holders) - 1
  BY HoldersCounted, FS_RemoveElement
<1>2. Holders' \in SUBSET Holders
  OBVIOUS
<1>3. Cardinality(Holders') \in Nat
  BY <1>2, HoldersCounted, FS_Subset, FS_CardinalityType
<1> QED
  BY <1>1, <1>3, HoldersCounted, SlotsAssumption DEF CacheInv, TypeOK, SlotsGivenBack

\* Every step of a thread keeps the count of the slots.
LEMMA SlotsCounted ==
    ASSUME CacheInv, NEW r \in Readers, StartRequest(r) \/ ReaderStep(r)
    PROVE  slots' \in 0 .. Slots /\ slots' + Cardinality(Holders') = Slots
<1> USE DEF CacheInv, TypeOK, Reader, Holders, Holding
<1>1. CASE AcquireSlot(r)
  <2>1. r \notin Holders /\ Holders' = Holders \cup {r} /\ slots > 0 /\ slots' = slots - 1
    BY <1>1 DEF AcquireSlot, Goto
  <2> QED
    BY <2>1, SlotTaken, Zenon
<1>2. CASE KeepProposal(r)
  <2>1. r \in Holders /\ Holders' = Holders \ {r} /\ slots' = slots + 1
    BY <1>2 DEF KeepProposal, ServeProposal
  <2> QED
    BY <2>1, SlotReturned, Zenon
<1>3. CASE RecheckProposal(r)
  <2>1. \/ r \in Holders /\ Holders' = Holders \ {r} /\ slots' = slots + 1
        \/ Holders' = Holders /\ slots' = slots
    BY <1>3 DEF RecheckProposal, ServeProposal, Goto
  <2> QED
    BY <2>1, SlotReturned, SlotStays, Zenon
<1>4. CASE ReadFails(r)
  <2>1. \/ r \in Holders /\ Holders' = Holders \ {r} /\ slots' = slots + 1
        \/ Holders' = Holders /\ slots' = slots
    BY <1>4 DEF ReadFails, Serve, Finish, Idle
  <2> QED
    BY <2>1, SlotReturned, SlotStays, Zenon
<1>5. CASE StartRequest(r)
  <2>1. reader[r].pc = "idle" /\ slots' = slots
    BY <1>5 DEF StartRequest
  <2>2. /\ reader'[r].pc \in {"peek", "lock", "begin"}
        /\ \A s \in Readers \ {r} : reader'[s] = reader[s]
    BY <1>5, StartedRequest
  <2>3. Holders' = Holders
    BY <2>1, <2>2
  <2> QED
    BY <2>1, <2>3, SlotStays, Zenon
<1>6. CASE PeekSnapshot(r) \/ TakeGeneration(r) \/ QueueAnswers(r) \/ KeepSnapshot(r)
           \/ DropCount(r) \/ PeekProposal(r) \/ SlotTimesOut(r) \/ TakeTicket(r)
           \/ ProposalAnswers(r) \/ EmptyProposal(r) \/ CardDone(r) \/ Act(r)
  <2>1. Holders' = Holders /\ slots' = slots
    BY <1>6 DEF PeekSnapshot, TakeGeneration, QueueAnswers, KeepSnapshot, DropCount, PeekProposal,
       SlotTimesOut, TakeTicket, ProposalAnswers, EmptyProposal, CardDone, Act, Serve, ServeProposal,
       AfterQueue, Is, Goto, Finish, Idle
  <2> QED
    BY <2>1, SlotStays, Zenon
<1>7. CASE Invalidate(r) \/ NotHeldBack(r) \/ Refused(r) \/ LockCount(r) \/ CountHit(r)
           \/ StatusAnswers(r) \/ KeepCount(r) \/ CountDone(r)
  <2>1. Holders' = Holders /\ slots' = slots
    BY <1>7 DEF Invalidate, NotHeldBack, Refused, LockCount, CountHit, StatusAnswers, KeepCount,
       CountDone, Serve, Is, Goto, Finish, Idle
  <2> QED
    BY <2>1, SlotStays, Zenon
<1> QED
  BY <1>1, <1>2, <1>3, <1>4, <1>5, <1>6, <1>7, Zenon DEF ReaderStep


\* Every step of a thread keeps track of who holds the count's lock.
LEMMA LockKept ==
    ASSUME CacheInv, NEW r \in Readers, StartRequest(r) \/ ReaderStep(r)
    PROVE  countLock' = Counting' /\ OneCounter'
<1> USE DEF CacheInv, TypeOK, Reader, SlotsGivenBack, OneCounter, Counting
<1>1. CASE StartRequest(r)
  <2>1. countLock' = countLock /\ r \notin Counting
    BY <1>1 DEF StartRequest
  <2>2. Counting' = Counting
    BY <1>1, <2>1, StartedRequest
  <2> QED
    BY <2>1, <2>2
<1>2. CASE LockCount(r)
  <2>1. countLock' = {r} /\ Counting = {}
    BY <1>2 DEF LockCount
  <2>2. Counting' = {r}
    BY <1>2, <2>1 DEF LockCount, Goto
  <2> QED
    BY <2>1, <2>2
<1>3. CASE CountHit(r) \/ KeepCount(r)
  <2>1. r \in countLock
    BY <1>3 DEF CountHit, KeepCount
  <2>2. \/ countLock' = {} /\ reader'[r].pc = "act"
        \/ countLock' = countLock /\ reader'[r].pc = "status"
    BY <1>3 DEF CountHit, KeepCount
  <2>3. \A s \in Readers \ {r} : reader'[s] = reader[s]
    BY <1>3 DEF CountHit, KeepCount
  <2> QED
    BY <2>1, <2>2, <2>3
<1>4. CASE StatusAnswers(r)
  <2>1. reader[r].kind = "count"
    BY <1>4 DEF StatusAnswers, Fresh, RequestsFit
  <2>2. countLock' = countLock /\ Counting' = Counting
    BY <1>4, <2>1 DEF StatusAnswers, Serve, Goto
  <2> QED
    BY <2>2
<1>5. CASE PeekSnapshot(r) \/ TakeGeneration(r) \/ QueueAnswers(r) \/ KeepSnapshot(r)
           \/ DropCount(r) \/ ReadFails(r)
  <2>1. reader[r].pc = "peek" => reader[r].kind = "card"
    BY DEF Fresh, RequestsFit
  <2>2. countLock' = countLock /\ Counting' = Counting
    BY <1>5, <2>1 DEF PeekSnapshot, TakeGeneration, QueueAnswers, KeepSnapshot, DropCount, ReadFails,
       Serve, AfterQueue, Goto, Finish, Idle
  <2> QED
    BY <2>2
<1>6. CASE PeekProposal(r) \/ AcquireSlot(r) \/ SlotTimesOut(r) \/ RecheckProposal(r)
           \/ TakeTicket(r) \/ ProposalAnswers(r) \/ KeepProposal(r)
  <2>1. countLock' = countLock /\ Counting' = Counting
    BY <1>6 DEF PeekProposal, AcquireSlot, SlotTimesOut, RecheckProposal, TakeTicket, ProposalAnswers,
       KeepProposal, ServeProposal, Goto, Finish, Idle
  <2> QED
    BY <2>1
<1>7. CASE EmptyProposal(r) \/ CardDone(r) \/ Act(r) \/ Invalidate(r) \/ NotHeldBack(r)
           \/ Refused(r) \/ CountDone(r)
  <2>1. countLock' = countLock /\ Counting' = Counting
    BY <1>7 DEF EmptyProposal, CardDone, Act, Invalidate, NotHeldBack, Refused, CountDone, Is, Goto,
       Finish, Idle
  <2> QED
    BY <2>1
<1> QED
  BY <1>1, <1>2, <1>3, <1>4, <1>5, <1>6, <1>7, Zenon DEF ReaderStep

----------------------------------------------------------------------------
(* Types and freshness *)

\* Every step of a thread keeps the types and what is known of the answers in
\* hand; slots' comes from SlotsCounted.
LEMMA ReaderKeepsFresh ==
    ASSUME TypeOK, Fresh, NEW r \in Readers, ReaderStep(r), slots' \in 0 .. Slots
    PROVE  TypeOK' /\ Fresh'
<1> USE BoundsAssumption
        DEF TypeOK, Fresh, RequestsFit, NothingFromTheFuture, Remembered, Answers,
            NothingStaleKept, ServedAfterAction, CountMatchesList,
            Reader, Cached, NoProposal, None, Versions, caches, observed
<1>1. CASE PeekSnapshot(r)
  <2>1. reader[r].kind = "card" /\ AfterQueue(r) = "proposal"
    BY <1>1 DEF PeekSnapshot, AfterQueue
  <2>2. CASE queue # None
    BY <1>1, <2>1, <2>2 DEF PeekSnapshot, Serve
  <2>3. CASE queue = None
    BY <1>1, <2>3 DEF PeekSnapshot, Goto
  <2> QED
    BY <2>2, <2>3
<1>2. CASE TakeGeneration(r)
  BY <1>2 DEF TakeGeneration
<1>3. CASE QueueAnswers(r)
  BY <1>3 DEF QueueAnswers
<1>4. CASE KeepSnapshot(r)
  <2>1. /\ AfterQueue(r) \in {"drop", "keepCount", "proposal", "act", "slot"}
        /\ AfterQueue(r) = "keepCount" => reader[r].kind = "count"
    BY DEF AfterQueue
  <2>2. /\ reader' = [reader EXCEPT ![r].generation = 0, ![r].answer = 0,
                                    ![r].served = reader[r].answer, ![r].pc = AfterQueue(r)]
        /\ reader[r].pc = "keep"
        /\ \/ queue' = queue
           \/ queue' = reader[r].answer /\ generation = reader[r].generation
        /\ UNCHANGED <<version, count, proposal, generation, proposalGen, ticket, slots,
                       countLock, observed, asked>>
    BY <1>4 DEF KeepSnapshot, Serve
  <2> QED
    BY <2>1, <2>2
<1>5. CASE DropCount(r)
  BY <1>5 DEF DropCount, Finish, Idle
<1>6. CASE PeekProposal(r)
  <2>1. CASE proposal[reader[r].download] # NoProposal
    BY <1>6, <2>1 DEF PeekProposal, ServeProposal
  <2>2. CASE proposal[reader[r].download] = NoProposal
    <3>1. /\ reader' = [reader EXCEPT ![r].pc = "slot"]
          /\ UNCHANGED <<version, caches, ticket, slots, countLock, observed, asked>>
      BY <1>6, <2>2, Zenon DEF PeekProposal, Goto
    <3> QED
      BY <1>6, <3>1 DEF PeekProposal
  <2> QED
    BY <2>1, <2>2
<1>7. CASE AcquireSlot(r)
  BY <1>7 DEF AcquireSlot, Goto
<1>8. CASE SlotTimesOut(r)
  BY <1>8 DEF SlotTimesOut, Finish, Idle
<1>9. CASE TakeTicket(r)
  BY <1>9 DEF TakeTicket
<1>10. CASE ProposalAnswers(r)
  BY <1>10 DEF ProposalAnswers
<1>11. CASE KeepProposal(r)
  BY <1>11 DEF KeepProposal, ServeProposal
<1>12. CASE EmptyProposal(r)
  BY <1>12 DEF EmptyProposal, Is
<1>13. CASE CardDone(r)
  BY <1>13 DEF CardDone, Is, Finish, Idle
<1>14. CASE Act(r)
  BY <1>14 DEF Act, Is, Goto
<1>15. CASE Invalidate(r)
  BY <1>15 DEF Invalidate, Finish, Idle
<1>16. CASE NotHeldBack(r)
  BY <1>16 DEF NotHeldBack, Is, Goto
<1>17. CASE Refused(r)
  BY <1>17 DEF Refused, Is, Finish, Idle
<1>18. CASE LockCount(r)
  BY <1>18 DEF LockCount, Goto
<1>19. CASE CountHit(r)
  BY <1>19 DEF CountHit
<1>20. CASE StatusAnswers(r)
  BY <1>20 DEF StatusAnswers, Serve, Goto
<1>21. CASE KeepCount(r)
  BY <1>21 DEF KeepCount
<1>22. CASE CountDone(r)
  BY <1>22 DEF CountDone, Is, Finish, Idle
<1>23. CASE ReadFails(r)
  BY <1>23 DEF ReadFails, Serve, Finish, Idle
<1>24. CASE RecheckProposal(r)
  <2>1. CASE proposal[reader[r].download] # NoProposal
    BY <1>24, <2>1 DEF RecheckProposal, ServeProposal
  <2>2. CASE proposal[reader[r].download] = NoProposal
    BY <1>24, <2>2 DEF RecheckProposal, Goto
  <2> QED
    BY <2>1, <2>2
<1> QED
  BY <1>1, <1>2, <1>3, <1>4, <1>5, <1>6, <1>7, <1>8, <1>9, <1>10, <1>11, <1>12, <1>13, <1>14,
     <1>15, <1>16, <1>17, <1>18, <1>19, <1>20, <1>21, <1>22, <1>23, <1>24, Zenon DEF ReaderStep

\* A request that begins keeps them as well.
LEMMA StartKeepsFresh ==
    ASSUME TypeOK, Fresh, NEW r \in Readers, StartRequest(r)
    PROVE  TypeOK' /\ Fresh'
<1>1. /\ asked' \in 0 .. MaxRequests
      /\ UNCHANGED <<version, caches, ticket, slots, countLock, observed>>
  BY BoundsAssumption DEF StartRequest, TypeOK
<1>2. TypeOK'
  BY <1>1, StartedRequest DEF TypeOK, caches, observed
<1>3. NothingStaleKept' /\ CountMatchesList'
  BY <1>1 DEF Fresh, NothingStaleKept, CountMatchesList, caches, observed
<1>4. RequestsFit'
  BY StartedRequest DEF Fresh, RequestsFit
<1> USE DEF TypeOK, Versions, Reader
<1>5. NothingFromTheFuture'
  BY <1>1, StartedRequest DEF Fresh, NothingFromTheFuture, caches, observed
<1>6. Remembered'
  BY <1>1, StartedRequest DEF Fresh, Remembered, caches, observed
<1>7. Answers'
  BY <1>1, StartedRequest DEF Fresh, Answers, caches, observed
<1>8. ServedAfterAction'
  BY <1>1, StartedRequest DEF Fresh, ServedAfterAction
<1> QED
  BY <1>2, <1>3, <1>4, <1>5, <1>6, <1>7, <1>8 DEF Fresh

\* What is done without a thread: an edit of the instance, an entry that gets too
\* old, a change of the app, or nothing at all.
LEMMA OthersKeepFresh ==
    ASSUME TypeOK, Fresh, Forget \/ Expire \/ AppChanges \/ UNCHANGED vars
    PROVE  TypeOK' /\ Fresh'
<1> USE BoundsAssumption
        DEF TypeOK, Fresh, RequestsFit, NothingFromTheFuture, Remembered, Answers,
            NothingStaleKept, ServedAfterAction, CountMatchesList,
            Reader, Cached, NoProposal, None, Versions, caches, observed
<1>1. CASE Forget
  BY <1>1 DEF Forget
<1>2. CASE Expire
  BY <1>2 DEF Expire
<1>3. CASE AppChanges
  BY <1>3 DEF AppChanges
<1>4. CASE UNCHANGED vars
  BY <1>4 DEF vars
<1> QED
  BY <1>1, <1>2, <1>3, <1>4

----------------------------------------------------------------------------
(* The invariant is inductive *)

\* The invariant holds at the start ...
LEMMA CacheInit ==
    ASSUME Init
    PROVE  CacheInv
<1>1. 0 \in Versions /\ \A r \in Readers : reader[r] = Idle
  BY BoundsAssumption DEF Init, Versions
<1>2. Idle \in Reader /\ Idle.pc = "idle" /\ Idle.answer = 0 /\ Idle.served = 0
      /\ Idle.generation = 0 /\ Idle.countGeneration = 0 /\ Idle.proposalGeneration = 0
      /\ Idle.queueNeed = 0 /\ Idle.proposalNeed = 0 /\ Idle.servedProposal = 0
  BY <1>1 DEF Idle, Reader
<1>3. TypeOK
  BY <1>1, <1>2, SlotsAssumption, BoundsAssumption
     DEF Init, TypeOK, NoProposal, Versions
<1>4. Holders = {} /\ Counting = {}
  BY <1>1, <1>2 DEF Holders, Holding, Counting
<1>5. SlotsGivenBack /\ OneCounter
  BY <1>4, FS_EmptySet, SlotsAssumption DEF Init, SlotsGivenBack, OneCounter
<1>6. Fresh
  BY <1>1, <1>2 DEF Init, Fresh, RequestsFit, NothingFromTheFuture, Remembered, Answers,
     NothingStaleKept, ServedAfterAction, CountMatchesList
<1> QED
  BY <1>3, <1>5, <1>6 DEF CacheInv

\* ... and every step keeps it.
LEMMA CacheStep ==
    ASSUME CacheInv, [Next]_vars
    PROVE  CacheInv'
<1>1. CASE \E r \in Readers : StartRequest(r) \/ ReaderStep(r)
  <2>1. PICK r \in Readers : StartRequest(r) \/ ReaderStep(r)
    BY <1>1
  <2>2. SlotsGivenBack' /\ OneCounter' /\ slots' \in 0 .. Slots
    BY <2>1, SlotsCounted, LockKept DEF SlotsGivenBack
  <2>3. TypeOK' /\ Fresh'
    BY <2>1, <2>2, StartKeepsFresh, ReaderKeepsFresh DEF CacheInv
  <2> QED
    BY <2>2, <2>3 DEF CacheInv
<1>2. CASE Forget \/ Expire \/ AppChanges \/ UNCHANGED vars
  <2>1. UNCHANGED <<slots, countLock, reader>>
    BY <1>2 DEF Forget, Expire, AppChanges, vars
  <2>2. Holders' = Holders /\ Counting' = Counting
    BY <2>1 DEF Holders, Counting
  <2>3. SlotsGivenBack' /\ OneCounter'
    BY <2>1, <2>2 DEF CacheInv, SlotsGivenBack, OneCounter
  <2> QED
    BY <1>2, <2>3, OthersKeepFresh DEF CacheInv
<1> QED
  BY <1>1, <1>2 DEF Next

\* Every state a run of missingarr reaches satisfies the inductive invariant.
LEMMA CacheAlways == Spec => []CacheInv
  BY CacheInit, CacheStep, PTL DEF Spec

----------------------------------------------------------------------------
(* The theorems *)

\* Every variable of the caches keeps to its type, the free slots among them.
THEOREM CacheTypes == Spec => []TypeOK
<1>1. CacheInv => TypeOK
  BY DEF CacheInv
<1> QED
  BY <1>1, CacheAlways, PTL

\* No read that began before an import, a discard or an edit of the instance was
\* over is in a cache after it: the generations of imports/service.py.
THEOREM NothingStaleIsKept == Spec => []NothingStaleKept
<1>1. CacheInv => NothingStaleKept
  BY DEF CacheInv, Fresh
<1> QED
  BY <1>1, CacheAlways, PTL

\* No request is served what is older than the actions that were over when it
\* began, from a cache or from an answer of the app.
THEOREM NobodyIsServedStale == Spec => []ServedAfterAction
<1>1. CacheInv => ServedAfterAction
  BY DEF CacheInv, Fresh
<1> QED
  BY <1>1, CacheAlways, PTL

\* The count in the menu is not older than the list a page shows (list_open).
THEOREM MenuFollowsPage == Spec => []CountMatchesList
<1>1. CacheInv => CountMatchesList
  BY DEF CacheInv, Fresh
<1> QED
  BY <1>1, CacheAlways, PTL

\* Every way through load_proposal and cached_count gives back what it took.
THEOREM SlotsComeBack == Spec => []SlotsGivenBack
<1>1. CacheInv => SlotsGivenBack
  BY DEF CacheInv
<1> QED
  BY <1>1, CacheAlways, PTL

\* A read of a proposal that began earlier never replaces one that began later.
THEOREM LaterReadStays == Spec => LaterReadWins
<1> DEFINE Later == \A d \in Downloads :
                      proposal[d] # NoProposal /\ proposal'[d] # NoProposal
                      => proposal'[d].ticket >= proposal[d].ticket
<1>1. ASSUME CacheInv, [Next]_vars
      PROVE  [Later]_vars
  <2>1. /\ proposal \in [Downloads -> Cached \cup {NoProposal}]
        /\ \A d \in Downloads : proposal[d].ticket \in Nat
        /\ \A r \in Readers : reader[r].ticket \in Nat
    <3>1. proposal \in [Downloads -> Cached \cup {NoProposal}] /\ reader \in [Readers -> Reader]
      BY <1>1 DEF CacheInv, TypeOK
    <3>2. \A c \in Cached \cup {NoProposal} : c.ticket \in Nat
      BY DEF Cached, NoProposal
    <3>3. \A q \in Reader : q.ticket \in Nat
      BY DEF Reader
    <3> QED
      BY <3>1, <3>2, <3>3
  <2>2. CASE UNCHANGED proposal
    BY <2>1, <2>2
  <2>3. ASSUME NEW r \in Readers, KeepProposal(r)
        PROVE  Later
    BY <2>1, <2>3 DEF KeepProposal
  <2>4. ASSUME NEW r \in Readers, Invalidate(r)
        PROVE  Later
    BY <2>1, <2>4 DEF Invalidate
  <2>5. CASE Forget \/ Expire
    BY <2>1, <2>5 DEF Forget, Expire
  <2>6. ASSUME NEW r \in Readers, StartRequest(r) \/ ReaderStep(r)
        PROVE  UNCHANGED proposal \/ KeepProposal(r) \/ Invalidate(r)
    BY <2>6 DEF ReaderStep, StartRequest, PeekSnapshot, TakeGeneration, QueueAnswers, KeepSnapshot,
       DropCount, PeekProposal, AcquireSlot, SlotTimesOut, RecheckProposal, TakeTicket,
       ProposalAnswers, EmptyProposal, CardDone, Act, NotHeldBack, Refused, LockCount, CountHit,
       StatusAnswers, KeepCount, CountDone, ReadFails, caches
  <2>7. CASE AppChanges \/ UNCHANGED vars
    BY <2>2, <2>7 DEF AppChanges, vars, caches
  <2> HIDE DEF Later
  <2> QED
    BY <1>1, <2>2, <2>3, <2>4, <2>5, <2>6, <2>7 DEF Next
<1> QED
  BY <1>1, CacheAlways, PTL DEF Spec, LaterReadWins
=============================================================================
