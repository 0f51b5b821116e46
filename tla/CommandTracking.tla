-------------------------- MODULE CommandTracking --------------------------
(***************************************************************************)
(* What missingarr promises about a search command once *arr accepted it:  *)
(* it is held in memory until its history item is written, the item is     *)
(* tracked until it has a verdict, the verdict is *arr's own or a giving   *)
(* up, and it stays.  Only what is still held when the process dies, or    *)
(* what *arr accepted without its answer arriving, is ever lost.           *)
(* SearchLedger implements this specification.                             *)
(***************************************************************************)
CONSTANT Commands

VARIABLES
    phase,   \* what missingarr knows about a command
    fate     \* what became of it in *arr

vars == <<phase, fate>>

Verdicts == {"completed", "failed", "expired"}
Phases   == {"unsent", "held", "tracked", "lost"} \cup Verdicts
Fates    == {"none", "open", "completed", "failed", "forgotten"}

Init ==
    /\ phase = [c \in Commands |-> "unsent"]
    /\ fate = [c \in Commands |-> "none"]

\* *arr accepts a command; its answer arrives or gets lost.
Accept(c) ==
    /\ phase[c] = "unsent"
    /\ \E p \in {"held", "lost"} : phase' = [phase EXCEPT ![c] = p]
    /\ fate' = [fate EXCEPT ![c] = "open"]

\* Its history item is written.
Track(c) ==
    /\ phase[c] = "held"
    /\ phase' = [phase EXCEPT ![c] = "tracked"]
    /\ UNCHANGED fate

\* *arr's word becomes the verdict; *arr may have forgotten it since.
Resolve(c, verdict) ==
    /\ phase[c] = "tracked"
    /\ \/ verdict \in {"completed", "failed"} /\ fate[c] \in {verdict, "forgotten"}
       \/ verdict = "expired" /\ fate[c] = "forgotten"
    /\ phase' = [phase EXCEPT ![c] = verdict]
    /\ UNCHANGED fate

\* Tracked commands without an answer are given up on.
GiveUp(stale) ==
    /\ \A c \in stale : phase[c] = "tracked"
    /\ phase' = [c \in Commands |-> IF c \in stale THEN "expired" ELSE phase[c]]
    /\ UNCHANGED fate

\* The process dies with what it only held in memory.
Crash ==
    /\ phase' = [c \in Commands |-> IF phase[c] = "held" THEN "lost" ELSE phase[c]]
    /\ UNCHANGED fate

End(c) ==
    /\ fate[c] = "open"
    /\ \E end \in {"completed", "failed", "forgotten"} : fate' = [fate EXCEPT ![c] = end]
    /\ UNCHANGED phase

Forget(c) ==
    /\ fate[c] \in {"completed", "failed"}
    /\ fate' = [fate EXCEPT ![c] = "forgotten"]
    /\ UNCHANGED phase

Next ==
    \/ \E c \in Commands : \/ Accept(c) \/ Track(c) \/ End(c) \/ Forget(c)
                           \/ \E verdict \in Verdicts : Resolve(c, verdict)
    \/ \E stale \in SUBSET Commands : GiveUp(stale)
    \/ Crash

Spec == Init /\ [][Next]_vars
=============================================================================
