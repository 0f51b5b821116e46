---------------------------- MODULE ImportCaches ----------------------------
(***************************************************************************)
(* The caches behind the Imports page of one instance: the queue snapshot, *)
(* the open-imports count and the app's proposals, with the generations    *)
(* that keep an answer read before an action from being stored after it,   *)
(* the read tickets and the proposal slots (imports/service.py).           *)
(*                                                                         *)
(* What an app answers is abstracted to a version: how often its state     *)
(* changed until it answered.  A step is one hold of _lock or one HTTP     *)
(* answer.  An entry may expire at any time.                               *)
(***************************************************************************)
EXTENDS Integers, FiniteSets

CONSTANTS
    Readers,        \* request threads
    Downloads,
    Slots,          \* PROPOSAL_SLOTS
    Kinds,          \* requests: "list", "card", "count", "import"
    MaxVersion,     \* bounds of the model: changes of the app's state,
    MaxRequests     \* requests and edits of the instance

ASSUME ReadersAssumption == IsFiniteSet(Readers)
ASSUME SlotsAssumption == Slots \in Nat \ {0}
ASSUME BoundsAssumption == {MaxVersion, MaxRequests} \subseteq Nat
ASSUME KindsAssumption == Kinds \subseteq {"list", "card", "count", "import"}

VARIABLES
    version,        \* of the app
    queue,          \* _queues: version of the snapshot, None if there is none
    count,          \* _counts: version of the count, None if there is none
    proposal,       \* _proposals: version and ticket per download
    generation,     \* _generation
    proposalGen,    \* _proposal_generation
    ticket,         \* _tickets: the last one given out
    slots,          \* free proposal slots
    countLock,      \* _count_locks: the readers holding it
    reader,         \* the request each thread works on
    queueFloor,     \* version of the app at the last invalidate or forget,
    proposalFloor,  \* the same for each download's proposal,
    shown,          \* and of the newest list a page got
    asked           \* requests and edits so far

caches == <<queue, count, proposal, generation, proposalGen>>
observed == <<queueFloor, proposalFloor, shown>>
vars == <<version, caches, ticket, slots, countLock, reader, observed, asked>>

----------------------------------------------------------------------------
(* Types *)

Versions == 0 .. MaxVersion
None == -1
Cached == [version : Versions, ticket : Nat]
NoProposal == [version |-> None, ticket |-> 0]

\* A reader on its way through a request.  "queue": waits for the queue; "keep":
\* has the answer; "slot": waits for a proposal slot, which Holding have.
Reader == [pc : {"idle", "peek", "begin", "queue", "keep", "drop",
                 "proposal", "slot", "recheck", "ticket", "ask", "keepProposal",
                 "act", "invalidate", "lock", "countHit", "status", "keepCount"},
           kind : {"list", "card", "again", "count", "import"}, download : Downloads \cup {None},
           generation : Nat, countGeneration : Nat, proposalGeneration : Nat,
           ticket : Nat, answer : Versions,
           queueNeed : Versions, proposalNeed : Versions,
           served : Versions, servedProposal : Versions]

Holding == {"recheck", "ticket", "ask", "keepProposal"}
Holders == {r \in Readers : reader[r].pc \in Holding}

\* The readers inside _count_locks: a count and the queue read it makes.
Counting == {r \in Readers :
                \/ reader[r].pc \in {"countHit", "status", "keepCount"}
                \/ reader[r].kind = "count" /\ reader[r].pc \in {"begin", "queue", "keep"}}

TypeOK ==
    /\ version \in Versions
    /\ queue \in Versions \cup {None}
    /\ count \in Versions \cup {None}
    /\ proposal \in [Downloads -> Cached \cup {NoProposal}]
    /\ {generation, proposalGen, ticket} \subseteq Nat
    /\ slots \in 0 .. Slots
    /\ countLock \subseteq Readers
    /\ reader \in [Readers -> Reader]
    /\ {queueFloor, shown} \subseteq Versions
    /\ proposalFloor \in [Downloads -> Versions]
    /\ asked \in 0 .. MaxRequests

Idle == [pc |-> "idle", kind |-> "list", download |-> None, generation |-> 0,
         countGeneration |-> 0, proposalGeneration |-> 0, ticket |-> 0, answer |-> 0,
         queueNeed |-> 0, proposalNeed |-> 0, served |-> 0, servedProposal |-> 0]

Init ==
    /\ version = 0
    /\ queue = None
    /\ count = None
    /\ proposal = [d \in Downloads |-> NoProposal]
    /\ generation = 0
    /\ proposalGen = 0
    /\ ticket = 0
    /\ slots = Slots
    /\ countLock = {}
    /\ reader = [r \in Readers |-> Idle]
    /\ queueFloor = 0
    /\ proposalFloor = [d \in Downloads |-> 0]
    /\ shown = 0
    /\ asked = 0

----------------------------------------------------------------------------
(* Helper state formulae *)

Is(r, kinds, pc) == reader[r].pc = pc /\ reader[r].kind \in kinds
Goto(r, pc) == reader' = [reader EXCEPT ![r].pc = pc]
Finish(r) == reader' = [reader EXCEPT ![r] = Idle]

\* The queue is known: a list is dropped from the count, a count goes on, a card
\* or an import takes the proposal.
AfterQueue(r) ==
    CASE reader[r].kind = "list" -> "drop"
      [] reader[r].kind = "count" -> "keepCount"
      [] reader[r].kind = "card" -> "proposal"
      [] reader[r].kind = "again" -> "act"
      [] reader[r].kind = "import" -> "slot"

Serve(r, v, pc) ==
    reader' = [reader EXCEPT ![r].generation = 0, ![r].answer = 0, ![r].served = v, ![r].pc = pc]

\* The proposal is known, the slot given back.
ServeProposal(r, v) ==
    reader' = [reader EXCEPT ![r].proposalGeneration = 0, ![r].ticket = 0, ![r].answer = 0,
                             ![r].servedProposal = v, ![r].pc = "act"]

----------------------------------------------------------------------------
(* A request begins; what it may not be served is what was read before an   *)
(* action that is over by now.                                              *)

StartRequest(r) ==
    /\ reader[r].pc = "idle"
    /\ asked < MaxRequests
    /\ asked' = asked + 1
    /\ \E kind \in Kinds, d \in Downloads :
          reader' = [reader EXCEPT ![r] =
            [Idle EXCEPT !.kind = kind, !.download = d,
                         !.queueNeed = queueFloor, !.served = queueFloor,
                         !.proposalNeed = proposalFloor[d],
                         !.servedProposal = proposalFloor[d],
                         !.pc = CASE kind = "card" -> "peek"
                                  [] kind = "count" -> "lock"
                                  [] OTHER -> "begin"]]
    /\ UNCHANGED <<version, caches, ticket, slots, countLock, observed>>

----------------------------------------------------------------------------
(* The queue: blocked_downloads, _read_blocked, find_download, list_open *)

\* blocked_downloads(fresh=False): the snapshot, or a read of one's own.
PeekSnapshot(r) ==
    /\ reader[r].pc = "peek"
    /\ IF queue # None THEN Serve(r, queue, AfterQueue(r)) ELSE Goto(r, "begin")
    /\ UNCHANGED <<version, caches, ticket, slots, countLock, observed, asked>>

TakeGeneration(r) ==
    /\ reader[r].pc = "begin"
    /\ reader' = [reader EXCEPT ![r].generation = generation, ![r].pc = "queue"]
    /\ UNCHANGED <<version, caches, ticket, slots, countLock, observed, asked>>

QueueAnswers(r) ==
    /\ reader[r].pc = "queue"
    /\ reader' = [reader EXCEPT ![r].answer = version, ![r].pc = "keep"]
    /\ UNCHANGED <<version, caches, ticket, slots, countLock, observed, asked>>

KeepSnapshotAnyway(r) ==
    /\ reader[r].pc = "keep"
    /\ queue' = reader[r].answer
    /\ Serve(r, reader[r].answer, AfterQueue(r))
    /\ UNCHANGED <<version, count, proposal, generation, proposalGen, ticket, slots,
                   countLock, observed, asked>>

\* Stored unless something was invalidated while it was read; served anyway.
KeepSnapshot(r) ==
    /\ reader[r].pc = "keep"
    /\ queue' = IF generation = reader[r].generation THEN reader[r].answer ELSE queue
    /\ Serve(r, reader[r].answer, AfterQueue(r))
    /\ UNCHANGED <<version, count, proposal, generation, proposalGen, ticket, slots,
                   countLock, observed, asked>>

DropCountOnly(r) ==
    /\ reader[r].pc = "drop"
    /\ count' = None
    /\ shown' = IF shown < reader[r].served THEN reader[r].served ELSE shown
    /\ Finish(r)
    /\ UNCHANGED <<version, queue, proposal, generation, proposalGen, ticket, slots,
                   countLock, queueFloor, proposalFloor, asked>>

\* list_open: the count is dropped and not restored by a read still running.
DropCount(r) ==
    /\ reader[r].pc = "drop"
    /\ count' = None
    /\ generation' = generation + 1
    /\ shown' = IF shown < reader[r].served THEN reader[r].served ELSE shown
    /\ Finish(r)
    /\ UNCHANGED <<version, queue, proposal, proposalGen, ticket, slots, countLock,
                   queueFloor, proposalFloor, asked>>

----------------------------------------------------------------------------
(* Proposals: load_proposal, _read_proposal *)

\* A hit ends the card.
PeekProposal(r) ==
    /\ reader[r].pc = "proposal"
    /\ LET hit == proposal[reader[r].download]
       IN  IF hit # NoProposal
           THEN ServeProposal(r, hit.version)
           ELSE Goto(r, "slot")
    /\ UNCHANGED <<version, caches, ticket, slots, countLock, observed, asked>>

AcquireSlot(r) ==
    /\ reader[r].pc = "slot"
    /\ slots > 0
    /\ slots' = slots - 1
    /\ Goto(r, IF reader[r].kind = "import" THEN "ticket" ELSE "recheck")
    /\ UNCHANGED <<version, caches, ticket, countLock, observed, asked>>

\* ProposalsBusy: no slot became free in time.
SlotTimesOut(r) ==
    /\ reader[r].pc = "slot"
    /\ slots = 0
    /\ Finish(r)
    /\ UNCHANGED <<version, caches, ticket, slots, countLock, observed, asked>>

SlotGivenBackTwice(r) ==
    /\ reader[r].pc = "recheck"
    /\ LET hit == proposal[reader[r].download]
       IN  IF hit # NoProposal
           THEN ServeProposal(r, hit.version) /\ slots' = slots + 2
           ELSE Goto(r, "ticket") /\ UNCHANGED slots
    /\ UNCHANGED <<version, caches, ticket, countLock, observed, asked>>

\* A read of the same download may have finished while this one waited.
RecheckProposal(r) ==
    /\ reader[r].pc = "recheck"
    /\ LET hit == proposal[reader[r].download]
       IN  IF hit # NoProposal
           THEN /\ ServeProposal(r, hit.version)
                /\ slots' = slots + 1
           ELSE Goto(r, "ticket") /\ UNCHANGED slots
    /\ UNCHANGED <<version, caches, ticket, countLock, observed, asked>>

TakeTicket(r) ==
    /\ reader[r].pc = "ticket"
    /\ ticket' = ticket + 1
    /\ reader' = [reader EXCEPT ![r].ticket = ticket',
                                ![r].proposalGeneration = proposalGen, ![r].pc = "ask"]
    /\ UNCHANGED <<version, caches, slots, countLock, observed, asked>>

ProposalAnswers(r) ==
    /\ reader[r].pc = "ask"
    /\ reader' = [reader EXCEPT ![r].answer = version, ![r].pc = "keepProposal"]
    /\ UNCHANGED <<version, caches, ticket, slots, countLock, observed, asked>>

KeepAnyProposal(r) ==
    /\ reader[r].pc = "keepProposal"
    /\ proposal' = IF proposalGen = reader[r].proposalGeneration
                   THEN [proposal EXCEPT ![reader[r].download] =
                            [version |-> reader[r].answer, ticket |-> reader[r].ticket]]
                   ELSE proposal
    /\ ServeProposal(r, reader[r].answer)
    /\ slots' = slots + 1
    /\ UNCHANGED <<version, queue, count, generation, proposalGen, ticket, countLock,
                   observed, asked>>

KeepProposal(r) ==
    /\ reader[r].pc = "keepProposal"
    /\ LET d == reader[r].download
           stored == proposal[d]
       IN  proposal' = IF /\ proposalGen = reader[r].proposalGeneration
                          /\ stored = NoProposal \/ stored.ticket < reader[r].ticket
                       THEN [proposal EXCEPT ![d] = [version |-> reader[r].answer,
                                                     ticket |-> reader[r].ticket]]
                       ELSE proposal
    /\ ServeProposal(r, reader[r].answer)
    /\ slots' = slots + 1
    /\ UNCHANGED <<version, queue, count, generation, proposalGen, ticket, countLock,
                   observed, asked>>

----------------------------------------------------------------------------
(* The end of a card, and of an import *)

\* proposal_view: an empty proposal may be one of a download that just left the
\* queue, so the queue is read once more.
EmptyProposal(r) ==
    /\ Is(r, {"card"}, "act")
    /\ reader' = [reader EXCEPT ![r].kind = "again", ![r].pc = "begin"]
    /\ UNCHANGED <<version, caches, ticket, slots, countLock, observed, asked>>

CardDone(r) ==
    /\ Is(r, {"card", "again"}, "act")
    /\ Finish(r)
    /\ UNCHANGED <<version, caches, ticket, slots, countLock, observed, asked>>

\* The POST or DELETE leaves, a discard's without a proposal; AppChanges is what
\* it does to the app.
Act(r) ==
    /\ Is(r, {"import"}, "act") \/ Is(r, {"import"}, "slot")
    /\ Goto(r, "invalidate")
    /\ UNCHANGED <<version, caches, ticket, slots, countLock, observed, asked>>

InvalidateQueue(r) ==
    LET d == reader[r].download
    IN  /\ reader[r].pc = "invalidate"
        /\ queue' = None
        /\ count' = None
        /\ generation' = generation + 1
        /\ queueFloor' = version
        /\ proposalFloor' = [proposalFloor EXCEPT ![d] = version]
        /\ Finish(r)
        /\ UNCHANGED <<version, proposal, proposalGen, ticket, slots, countLock, shown, asked>>

\* invalidate(instance, download)
Invalidate(r) ==
    LET d == reader[r].download
    IN  /\ reader[r].pc = "invalidate"
        /\ queue' = None
        /\ count' = None
        /\ proposal' = [proposal EXCEPT ![d] = NoProposal]
        /\ generation' = generation + 1
        /\ proposalGen' = proposalGen + 1
        /\ queueFloor' = version
        /\ proposalFloor' = [proposalFloor EXCEPT ![d] = version]
        /\ Finish(r)
        /\ UNCHANGED <<version, ticket, slots, countLock, shown, asked>>

\* find_download: not in the queue any more, which drops its caches too.
NotHeldBack(r) ==
    /\ Is(r, {"card"}, "proposal") \/ Is(r, {"again"}, "act") \/ Is(r, {"import"}, "slot")
    /\ Goto(r, "invalidate")
    /\ UNCHANGED <<version, caches, ticket, slots, countLock, observed, asked>>

\* An action refused before it is sent.
Refused(r) ==
    /\ Is(r, {"import"}, "act") \/ Is(r, {"import"}, "slot")
    /\ Finish(r)
    /\ UNCHANGED <<version, caches, ticket, slots, countLock, observed, asked>>

----------------------------------------------------------------------------
(* The count: cached_count, count_open *)

LockCount(r) ==
    /\ reader[r].pc = "lock"
    /\ countLock = {}
    /\ countLock' = {r}
    /\ Goto(r, "countHit")
    /\ UNCHANGED <<version, caches, ticket, slots, observed, asked>>

CountHit(r) ==
    /\ reader[r].pc = "countHit"
    /\ IF count # None
       THEN /\ reader' = [reader EXCEPT ![r].served = count, ![r].pc = "act"]
            /\ countLock' = {}
       ELSE /\ reader' = [reader EXCEPT ![r].countGeneration = generation, ![r].pc = "status"]
            /\ UNCHANGED countLock
    /\ UNCHANGED <<version, caches, ticket, slots, observed, asked>>

\* The status flags alone may tell that nothing waits; else the queue is read.
\* An error ends in a result as well.
StatusAnswers(r) ==
    /\ reader[r].pc = "status"
    /\ Serve(r, version, "keepCount") \/ Goto(r, "begin")
    /\ UNCHANGED <<version, caches, ticket, slots, countLock, observed, asked>>

KeepCount(r) ==
    /\ reader[r].pc = "keepCount"
    /\ count' = IF generation = reader[r].countGeneration THEN reader[r].served ELSE count
    /\ countLock' = {}
    /\ reader' = [reader EXCEPT ![r].countGeneration = 0, ![r].pc = "act"]
    /\ UNCHANGED <<version, queue, proposal, generation, proposalGen, ticket, slots,
                   observed, asked>>

CountDone(r) ==
    /\ Is(r, {"count"}, "act")
    /\ Finish(r)
    /\ UNCHANGED <<version, caches, ticket, slots, countLock, observed, asked>>

----------------------------------------------------------------------------
(* Errors, edits, time *)

FailedReadKeepsSlot(r) ==
    /\ reader[r].pc \in {"queue", "ask"}
    /\ IF Is(r, {"count"}, "queue") THEN Serve(r, version, "keepCount") ELSE Finish(r)
    /\ UNCHANGED <<version, caches, ticket, slots, countLock, observed, asked>>

\* An answer that is an error: nothing is read, the slot is given back; a count
\* takes the error for its result.
ReadFails(r) ==
    /\ \/ /\ reader[r].pc = "queue"
          /\ IF reader[r].kind = "count" THEN Serve(r, version, "keepCount") ELSE Finish(r)
          /\ UNCHANGED slots
       \/ /\ reader[r].pc = "ask"
          /\ Finish(r)
          /\ slots' = slots + 1
    /\ UNCHANGED <<version, caches, ticket, countLock, observed, asked>>

\* forget_instance: every cache of the instance; slots stay.
Forget ==
    /\ asked < MaxRequests
    /\ asked' = asked + 1
    /\ queue' = None
    /\ count' = None
    /\ proposal' = [d \in Downloads |-> NoProposal]
    /\ generation' = generation + 1
    /\ proposalGen' = proposalGen + 1
    /\ queueFloor' = version
    /\ proposalFloor' = [d \in Downloads |-> version]
    /\ UNCHANGED <<version, ticket, slots, countLock, reader, shown>>

\* _fresh: an entry gets too old and is no longer served.
Expire ==
    /\ \/ queue # None /\ queue' = None /\ UNCHANGED <<count, proposal>>
       \/ count # None /\ count' = None /\ UNCHANGED <<queue, proposal>>
       \/ \E d \in Downloads :
             /\ proposal[d] # NoProposal
             /\ proposal' = [proposal EXCEPT ![d] = NoProposal]
             /\ UNCHANGED <<queue, count>>
    /\ UNCHANGED <<version, generation, proposalGen, ticket, slots, countLock, reader,
                   observed, asked>>

\* Downloads come and go, by an action of missingarr or without it.
AppChanges ==
    /\ version < MaxVersion
    /\ version' = version + 1
    /\ UNCHANGED <<caches, ticket, slots, countLock, reader, observed, asked>>

----------------------------------------------------------------------------

\* Every step a thread takes once its request has begun.
ReaderStep(r) ==
    \/ PeekSnapshot(r) \/ TakeGeneration(r) \/ QueueAnswers(r) \/ KeepSnapshot(r)
    \/ DropCount(r) \/ PeekProposal(r) \/ AcquireSlot(r) \/ SlotTimesOut(r)
    \/ RecheckProposal(r) \/ TakeTicket(r) \/ ProposalAnswers(r) \/ KeepProposal(r)
    \/ EmptyProposal(r) \/ CardDone(r) \/ Act(r) \/ Invalidate(r) \/ NotHeldBack(r) \/ Refused(r)
    \/ LockCount(r) \/ CountHit(r) \/ StatusAnswers(r) \/ KeepCount(r) \/ CountDone(r)
    \/ ReadFails(r)

Next ==
    \/ \E r \in Readers : StartRequest(r) \/ ReaderStep(r)
    \/ Forget \/ Expire \/ AppChanges

Spec == Init /\ [][Next]_vars

----------------------------------------------------------------------------
(* Properties *)

\* No cache holds an answer the app gave before the last action (or edit) on
\* what it is about was over: a read that began earlier cannot bring it back
\* (_generation, _proposal_generation, invalidate, forget_instance).
NothingStaleKept ==
    /\ queue # None => queue >= queueFloor
    /\ count # None => count >= queueFloor
    /\ \A d \in Downloads :
          proposal[d] # NoProposal => proposal[d].version >= proposalFloor[d]

\* Nobody is served, from a cache or from the app, what is older than the
\* actions that were over when the request began.
ServedAfterAction ==
    \A r \in Readers :
        /\ reader[r].served >= reader[r].queueNeed
        /\ reader[r].servedProposal >= reader[r].proposalNeed

\* The count that is kept is never older than a list a page already shows, so
\* the menu does not go back behind the page (list_open).
CountMatchesList == count # None => count >= shown

\* Every way out of a proposal read gives its slot back, and every way out of a
\* count its lock, so nobody waits for a request that is over (load_proposal,
\* cached_count).
SlotsGivenBack ==
    /\ slots + Cardinality(Holders) = Slots
    /\ countLock = Counting

\* Of two reads of one proposal the one that began later stays (_tickets).
LaterReadWins ==
    [][\A d \in Downloads :
          proposal[d] # NoProposal /\ proposal'[d] # NoProposal
          => proposal'[d].ticket >= proposal[d].ticket]_vars
=============================================================================
