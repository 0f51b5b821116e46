----------------------------- MODULE VerifyPass -----------------------------
(***************************************************************************)
(* The verification passes of one instance when more items are open than   *)
(* a pass asks about, and the hourly housekeeping at the end of a pass,    *)
(* which the orchestrator's own loop does as well                          *)
(* (skills/verify_commands.py, db/history.py, agents/orchestrator.py).     *)
(* What a verdict does to cache entries and runs is SearchLedger's part.   *)
(*                                                                         *)
(* A step is one GET or one transaction.                                   *)
(***************************************************************************)
EXTENDS Integers, SequencesExt

CONSTANTS
    LastItem,       \* bound of the model: items ever filed, in the order of their ids
    MaxPerRun,      \* MAX_PER_RUN
    Hour,           \* HOUSEKEEPING_INTERVAL_SECONDS in ticks
    MaxFaults       \* bound: outages of *arr, switches, aborts, errors, restarts,
                    \* refused reads of the instances

ASSUME SizesAssumption == {LastItem, MaxFaults} \subseteq Nat
ASSUME LimitsAssumption == {MaxPerRun, Hour} \subseteq Nat \ {0}

VARIABLES
    status,         \* of each item
    line,           \* checked open items, the one checked longest ago first
    old,            \* items past STALE_HOURS
    late,           \* items with a check past STALE_HOURS
    up,             \* *arr answers
    enabled,        \* the instance has an agent
    pass,           \* local variables of the pass
    since,          \* ticks since _last_housekeeping, up to Hour; Hour if there is none
    sweepers,       \* who does the housekeeping now
    loop,           \* ticks until the orchestrator's next round
    faults,
    heard,          \* observation: items *arr answered about in a pass that
                    \* was still going on when they were past STALE_HOURS
    gap,            \* observation: ticks since housekeeping last began
    missed          \* observation: the orchestrator's rounds given up since then

items == <<status, line, old, late>>
keeping == <<since, sweepers, loop, gap, missed>>
vars == <<items, up, enabled, pass, keeping, faults, heard>>

----------------------------------------------------------------------------
(* Types *)

Items == 1 .. LastItem
Open == {i \in Items : status[i] = "open"}

Pass == [pc : {"idle", "ask", "mark", "expire", "housekeeping", "sweep"},
         todo : Seq(Items), answered : SUBSET Items]
NoPass == [pc |-> "idle", todo |-> <<>>, answered |-> {}]

TypeOK ==
    /\ status \in [Items -> {"unfiled", "open", "settled", "expired"}]
    /\ line \in Seq(Items) /\ IsInjective(line)
    /\ {old, late, heard} \subseteq SUBSET Items
    /\ {up, enabled} \subseteq BOOLEAN
    /\ pass \in Pass
    /\ since \in 0 .. Hour
    /\ sweepers \subseteq {"agent", "app"}
    /\ loop \in 0 .. Hour
    /\ faults \in 0 .. MaxFaults
    /\ gap \in 0 .. (2 + MaxFaults) * Hour
    /\ missed \in 0 .. faults

\* The instance may be created at any time between two of the orchestrator's rounds.
Init ==
    /\ status = [i \in Items |-> "unfiled"]
    /\ line = <<>>
    /\ old = {}
    /\ late = {}
    /\ up = TRUE
    /\ enabled = TRUE
    /\ pass = NoPass
    /\ since = Hour
    /\ sweepers = {}
    /\ loop \in 0 .. Hour
    /\ faults = 0
    /\ heard = {}
    /\ gap = 0
    /\ missed = 0

----------------------------------------------------------------------------
(* Helpers *)

Fault == faults < MaxFaults /\ faults' = faults + 1

\* The numbers of S in their order.
ById(S) ==
    CHOOSE seq \in [1 .. Cardinality(S) -> S] :
        \A m, n \in DOMAIN seq : m < n => seq[m] < seq[n]

Prefix(seq, n) == SubSeq(seq, 1, IF n < Len(seq) THEN n ELSE Len(seq))

OldestFirst == Prefix(ById(Open), MaxPerRun)

\* get_pending_items: never checked first, then the one checked longest ago.
PendingItems == Prefix(ById(Open \ ToSet(line)) \o line, MaxPerRun)

\* The line when the members of S have left it.
Without(S) ==
    LET places == ById({n \in DOMAIN line : line[n] \notin S})
    IN  [m \in DOMAIN places |-> line[places[m]]]

----------------------------------------------------------------------------
(* One pass (VerifyCommandsSkill.execute) *)

StartPass ==
    /\ enabled
    /\ pass.pc = "idle"
    /\ pass' = [NoPass EXCEPT !.pc = "ask", !.todo = PendingItems]
    /\ UNCHANGED <<items, up, enabled, keeping, faults, heard>>

Asked == Head(pass.todo)

\* A command *arr has ended settles its item (resolve_item), one that still runs
\* counts as a check, no answer counts as nothing.
Ask ==
    /\ pass.pc = "ask" /\ pass.todo # <<>> /\ enabled
    /\ \/ /\ up
          /\ status' = [status EXCEPT ![Asked] = "settled"]
          /\ line' = Without({Asked})
          /\ pass' = [pass EXCEPT !.todo = Tail(@)]
          /\ UNCHANGED heard
       \/ /\ up
          /\ pass' = [pass EXCEPT !.todo = Tail(@), !.answered = @ \cup {Asked}]
          /\ heard' = IF Asked \in old THEN heard \cup {Asked} ELSE heard
          /\ UNCHANGED <<status, line>>
       \/ /\ ~up
          /\ pass' = [pass EXCEPT !.todo = Tail(@)]
          /\ UNCHANGED <<status, line, heard>>
    /\ UNCHANGED <<old, late, up, enabled, keeping, faults>>

\* The batch is through, or stop_requested ends the loop; the rest follows.
AskingEnds ==
    /\ pass.pc = "ask"
    /\ IF pass.todo = <<>> \/ ~enabled THEN UNCHANGED faults ELSE Fault
    /\ pass' = [pass EXCEPT !.pc = "mark", !.todo = <<>>]
    /\ UNCHANGED <<items, up, enabled, keeping, heard>>

MarkAsked ==
    /\ pass.pc = "mark"
    /\ LET batch == ToSet(PendingItems)
       IN  line' = Without(batch) \o ById(batch) /\ late' = late \cup (batch \cap old)
    /\ pass' = [pass EXCEPT !.pc = "expire", !.answered = {}]
    /\ UNCHANGED <<status, old, up, enabled, keeping, faults, heard>>

MarkAtEnd ==
    /\ pass.pc = "mark"
    /\ line' = line \o ById(pass.answered)
    /\ late' = late \cup (pass.answered \cap old)
    /\ pass' = [pass EXCEPT !.pc = "expire", !.answered = {}]
    /\ UNCHANGED <<status, old, up, enabled, keeping, faults, heard>>

\* mark_checked: answered items go to the end of the line, all with one time.
MarkChecked ==
    /\ pass.pc = "mark"
    /\ line' = Without(pass.answered) \o ById(pass.answered)
    /\ late' = late \cup (pass.answered \cap old)
    /\ pass' = [pass EXCEPT !.pc = "expire", !.answered = {}]
    /\ UNCHANGED <<status, old, up, enabled, keeping, faults, heard>>

\* expire_stale_items: what was last checked past its time is given up.
ExpireStaleItems ==
    /\ pass.pc = "expire"
    /\ status' = [i \in Items |-> IF i \in Open \cap late THEN "expired" ELSE status[i]]
    /\ line' = Without(late)
    /\ pass' = [pass EXCEPT !.pc = "housekeeping"]
    /\ UNCHANGED <<old, late, up, enabled, keeping, faults, heard>>

\* A refused transaction ends the pass; its answers are not marked.
PassFails ==
    /\ pass.pc \in {"ask", "mark", "expire"}
    /\ Fault
    /\ pass' = NoPass
    /\ UNCHANGED <<items, up, enabled, keeping, heard>>

----------------------------------------------------------------------------
(* Housekeeping: the throttle is checked and claimed under one guard *)

ClaimAlways(who) ==
    /\ sweepers' = IF since < Hour THEN sweepers ELSE sweepers \cup {who}
    /\ since' = 0
    /\ gap' = IF since < Hour THEN gap ELSE 0
    /\ missed' = IF since < Hour THEN missed ELSE 0

Claim(who) ==
    IF since < Hour THEN UNCHANGED <<since, sweepers, gap, missed>>
    ELSE since' = 0 /\ gap' = 0 /\ missed' = 0 /\ sweepers' = sweepers \cup {who}

AgentClaims ==
    /\ pass.pc = "housekeeping"
    /\ Claim("agent")
    /\ pass' = IF since < Hour THEN NoPass ELSE [pass EXCEPT !.pc = "sweep"]
    /\ UNCHANGED <<items, up, enabled, loop, faults, heard>>

\* The purges, or the first that is refused: the hour is used up either way.
AgentSwept ==
    /\ pass.pc = "sweep"
    /\ sweepers' = sweepers \ {"agent"}
    /\ pass' = NoPass
    /\ UNCHANGED <<items, up, enabled, since, loop, gap, missed, faults, heard>>

PassStep == Ask \/ AskingEnds \/ MarkChecked \/ ExpireStaleItems \/ AgentClaims \/ AgentSwept

\* _housekeeping_loop: at start and an interval after each round, for every
\* instance, the disabled ones included.
AppClaims ==
    /\ loop = 0 /\ "app" \notin sweepers
    /\ Claim("app")
    /\ loop' = Hour
    /\ UNCHANGED <<items, up, enabled, pass, faults, heard>>

\* The instances cannot be read: the round is given up without a claim, and the
\* next one comes an interval later all the same.
AppRefused ==
    /\ loop = 0 /\ "app" \notin sweepers
    /\ Fault
    /\ loop' = Hour
    /\ missed' = missed + 1
    /\ UNCHANGED <<items, up, enabled, pass, since, sweepers, gap, heard>>

AppSwept ==
    /\ "app" \in sweepers
    /\ sweepers' = sweepers \ {"app"}
    /\ UNCHANGED <<items, up, enabled, pass, since, loop, gap, missed, faults, heard>>

----------------------------------------------------------------------------
(* Searches, *arr, the user, time *)

\* A search files the next item.
FileItem ==
    /\ \E i \in Items :
          /\ status[i] = "unfiled"
          /\ \A j \in Items : j < i => status[j] # "unfiled"
          /\ status' = [status EXCEPT ![i] = "open"]
    /\ UNCHANGED <<line, old, late, up, enabled, pass, keeping, faults, heard>>

Ages(i) ==
    /\ i \in Open \ old
    /\ old' = old \cup {i}
    /\ heard' = IF i \in pass.answered THEN heard \cup {i} ELSE heard
    /\ UNCHANGED <<status, line, late, up, enabled, pass, keeping, faults>>

ArrGoesDown ==
    /\ up /\ Fault
    /\ up' = FALSE
    /\ UNCHANGED <<items, enabled, pass, keeping, heard>>

ArrComesBack ==
    /\ ~up
    /\ up' = TRUE
    /\ UNCHANGED <<items, enabled, pass, keeping, faults, heard>>

Switch ==
    /\ Fault
    /\ enabled' = ~enabled
    /\ UNCHANGED <<items, up, pass, keeping, heard>>

\* The process ends and starts again: the throttle is forgotten, and the loop
\* begins with a round.
Restart ==
    /\ Fault
    /\ pass' = NoPass
    /\ since' = Hour
    /\ sweepers' = {}
    /\ loop' = 0
    /\ UNCHANGED <<items, up, enabled, gap, missed, heard>>

\* Housekeeping is short against a tick, and the loop keeps its time.
Tick ==
    /\ loop > 0 /\ sweepers = {}
    /\ loop' = loop - 1
    /\ since' = IF since < Hour THEN since + 1 ELSE since
    /\ gap' = IF gap < (2 + MaxFaults) * Hour THEN gap + 1 ELSE gap
    /\ UNCHANGED <<items, up, enabled, pass, sweepers, missed, faults, heard>>

Next ==
    \/ StartPass \/ PassStep \/ PassFails
    \/ AppClaims \/ AppRefused \/ AppSwept
    \/ FileItem \/ (\E i \in Items : Ages(i))
    \/ ArrGoesDown \/ ArrComesBack \/ Switch \/ Restart \/ Tick

\* The scheduler starts a pass every two minutes, each step of a pass ends, and
\* *arr comes back; no command has to end and no item has to age.
Spec ==
    /\ Init /\ [][Next]_vars
    /\ WF_vars(StartPass)
    /\ WF_vars(PassStep)
    /\ WF_vars(ArrComesBack)

----------------------------------------------------------------------------
(* Properties *)

\* However many commands *arr never ends, every open item is asked about and
\* answered again and again while the instance is on (get_pending_items: "fifty
\* commands *arr never settles cannot starve every newer one").
EachHeardAgain ==
    \A i \in Items : []<>(i \notin Open \/ i \in pass.answered \/ ~enabled)

\* An item is given up only when *arr answered about it in a pass that reached
\* past its 24 hours, however long *arr was away or the instance off
\* (expire_stale_items: "must first ask, then give up").
GivenUpWasHeard == \A i \in Items : status[i] = "expired" => i \in heard

\* Housekeeping of the instance begins within two hours, on or off, whichever of
\* agent and orchestrator used up an hour and however their hours lie to each
\* other, and within one hour more for each of the orchestrator's rounds that
\* could not read the instances; never twice at once (Orchestrator.housekeeping).
HousekeepingGoesOn == gap < (2 + missed) * Hour /\ sweepers # {"agent", "app"}

Follows(seq, i, j) == \E m, n \in DOMAIN seq : m < n /\ seq[m] = i /\ seq[n] = j

\* i is asked before j: unasked ones first, by id, then by the line.
Before(i, j) ==
    \/ i \notin ToSet(line) /\ (j \in ToSet(line) \/ i < j)
    \/ Follows(line, i, j)

\* The open items that are asked before i.
Ahead(i) == {j \in Open : Before(j, i)}

\* While *arr has not answered about an open item no other gets in front of it,
\* except that a new one gets in front of those asked before (get_pending_items,
\* mark_checked).
NobodyOvertakes ==
    [][\A i \in Open \cap Open' :
          \/ pass.pc = "mark" /\ i \in pass.answered
          \/ \A j \in Ahead(i)' \ Ahead(i) : status[j] = "unfiled" /\ i \in ToSet(line)]_vars
=============================================================================
