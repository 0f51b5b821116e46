----------------------------- MODULE RateWindow -----------------------------
(***************************************************************************)
(* The rate cap of one instance: at most rate_cap searches within the last *)
(* rate_window_minutes, shared by the search skills that run side by side  *)
(* (reserve_action, release_action and _prune_actions of agents/base.py,   *)
(* called by submit_candidates and run_checked).  The deque of time stamps *)
(* belongs to the InstanceRuntime, so every agent of the instance uses the *)
(* same one; each access holds rate_lock and is one step.                  *)
(***************************************************************************)
EXTENDS Integers, Sequences, FiniteSets

CONSTANTS
    Skills,     \* searches that run at the same time
    Window,     \* rate_window_minutes, in units of the clock
    Caps,       \* the values rate_cap may be set to
    MaxTime,    \* bound: ticks of the clock
    MaxSends,   \* bound: reservations granted
    MaxLost     \* bound: answers that get lost

ASSUME SkillsAssumption == IsFiniteSet(Skills)
ASSUME WindowAssumption == Window \in Nat
ASSUME CapsAssumption == Caps \subseteq Int /\ Caps # {}
ASSUME BoundsAssumption == {MaxTime, MaxSends, MaxLost} \subseteq Nat

VARIABLES
    now,      \* time.monotonic()
    cap,      \* rate_cap as the agent's config has it
    stamps,   \* runtime.action_timestamps
    token,    \* skill -> the reservation it holds, NoToken: none
    granted,  \* reservations granted
    used,     \* observation: searches *arr ran, by reservation number and time
    lost      \* observation: those of them whose answer never arrived

vars == <<now, cap, stamps, token, granted, used, lost>>

NoToken == -1
Times   == 0..MaxTime
Use     == [number : 1..MaxSends, at : Times]

TypeOK ==
    /\ now \in Times
    /\ cap \in Caps
    /\ stamps \in Seq(Times)
    /\ token \in [Skills -> Times \cup {NoToken}]
    /\ granted \in 0..MaxSends
    /\ used \subseteq Use
    /\ lost \subseteq used

Init ==
    /\ now = 0
    /\ cap \in Caps
    /\ stamps = <<>>
    /\ token = [s \in Skills |-> NoToken]
    /\ granted = 0
    /\ used = {}
    /\ lost = {}

-----------------------------------------------------------------------------
(* The deque *)

\* Mutant: a stamp exactly one window old no longer counts.
OutsideOrAt(stamp) == stamp <= now - Window

Outside(stamp) == stamp < now - Window

\* _prune_actions takes old stamps from the left until one still counts.
Pruned ==
    LET n == CHOOSE n \in 0..Len(stamps) :
                /\ \A m \in 1..n : Outside(stamps[m])
                /\ n < Len(stamps) => ~Outside(stamps[n + 1])
    IN SubSeq(stamps, n + 1, Len(stamps))

\* Mutant: the newest stamp goes, whoever holds it.
WithoutNewest(stamp) == IF stamps = <<>> THEN stamps ELSE SubSeq(stamps, 1, Len(stamps) - 1)

\* deque.remove: the first equal stamp goes, a pruned one is no error.
Without(stamp) ==
    IF \A n \in DOMAIN stamps : stamps[n] # stamp THEN stamps
    ELSE LET n == CHOOSE n \in DOMAIN stamps :
                     stamps[n] = stamp /\ \A m \in 1..(n - 1) : stamps[m] # stamp
         IN SubSeq(stamps, 1, n - 1) \o SubSeq(stamps, n + 1, Len(stamps))

-----------------------------------------------------------------------------
(* Steps of a search *)

\* Mutant: one more than the cap.
OneMore(list) == Len(list) <= cap

Free(list) == Len(list) < cap

\* reserve_action claims a slot, or the cap ends the run.
Reserve(s) ==
    /\ token[s] = NoToken
    /\ granted < MaxSends
    /\ IF Free(Pruned)
       THEN /\ stamps' = Append(Pruned, now)
            /\ token' = [token EXCEPT ![s] = now]
            /\ granted' = granted + 1
       ELSE /\ stamps' = Pruned
            /\ UNCHANGED <<token, granted>>
    /\ UNCHANGED <<now, cap, used, lost>>

\* Mutant: the reservation stays with the search that used it.
StaysReserved(s) == UNCHANGED token

\* The search is over and no longer holds its reservation.
Settles(s) == token' = [token EXCEPT ![s] = NoToken]

\* *arr ran the search: the slot stays taken.
Accepted(s) ==
    /\ token[s] # NoToken
    /\ Settles(s)
    /\ used' = used \cup {[number |-> Cardinality(used) + 1, at |-> token[s]]}
    /\ UNCHANGED <<now, cap, stamps, granted, lost>>

\* A checked search aborted half way keeps its slot as well.
Aborted(s) ==
    /\ token[s] # NoToken
    /\ Settles(s)
    /\ UNCHANGED <<now, cap, stamps, granted, used, lost>>

\* release_action: *arr did not accept the command, nothing was searched.
Refused(s) ==
    /\ token[s] # NoToken
    /\ stamps' = Without(token[s])
    /\ Settles(s)
    /\ UNCHANGED <<now, cap, granted, used, lost>>

\* *arr ran the search but its answer never arrived: taken for a refusal.
AnswerLost(s) ==
    LET use == [number |-> Cardinality(used) + 1, at |-> token[s]] IN
    /\ token[s] # NoToken
    /\ Cardinality(lost) < MaxLost
    /\ stamps' = Without(token[s])
    /\ Settles(s)
    /\ used' = used \cup {use}
    /\ lost' = lost \cup {use}
    /\ UNCHANGED <<now, cap, granted>>

-----------------------------------------------------------------------------
(* The clock, the form, the dashboard *)

Tick ==
    /\ now < MaxTime
    /\ now' = now + 1
    /\ UNCHANGED <<cap, stamps, token, granted, used, lost>>

\* The cap is saved anew; the next config refresh brings it to the agent.
CapChanges ==
    /\ cap' \in Caps \ {cap}
    /\ UNCHANGED <<now, stamps, token, granted, used, lost>>

\* get_rate_used prunes as well.
Shown ==
    /\ stamps' = Pruned
    /\ UNCHANGED <<now, cap, token, granted, used, lost>>

Next ==
    \/ \E s \in Skills : Reserve(s) \/ Accepted(s) \/ Aborted(s) \/ Refused(s) \/ AnswerLost(s)
    \/ Tick \/ CapChanges \/ Shown

Spec == Init /\ [][Next]_vars

-----------------------------------------------------------------------------
(* Properties *)

Since(t)  == {use \in used : use.at >= t}
Holding(t) == {s \in Skills : token[s] >= t}

\* Searches that count against the cap now, whatever the deque says.
Counting == Cardinality(Since(now - Window)) + Cardinality(Holding(IF now > Window THEN now - Window ELSE 0))

Grants(s) == Reserve(s) /\ token'[s] # NoToken

\* A slot is granted only while fewer than rate_cap searches began within the
\* window, those under way included: two skills never both pass the last free
\* slot, and no refusal gives back more than was taken (A10).  Lost answers
\* are the exception, one search each.
CapKept == [][\A s \in Skills : Grants(s) => Counting < cap + Cardinality(lost)]_vars

\* Every search that counts holds its slot in the deque, also when two skills
\* reserved at the same instant and one gave its slot back.
SlotsHeld ==
    \A t \in Times : t >= now - Window =>
        Cardinality({n \in DOMAIN stamps : stamps[n] = t}) >=
            Cardinality({use \in used \ lost : use.at = t}) + Cardinality({s \in Skills : token[s] = t})
=============================================================================
