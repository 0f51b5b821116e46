---------------------------- MODULE Verification ----------------------------
(***************************************************************************)
(* The decision tables of backend/verification.py: what an *arr answer     *)
(* says about a command, and what the statuses of a run's items say about  *)
(* the run.  Both are pure; SearchLedger uses them in its steps.           *)
(***************************************************************************)

\* Item statuses that count as done (DONE_STATUSES).
DoneStatuses == {"completed", "grabbed", "no_hit"}

\* An item is open (ITEM_SUBMITTED) or carries one of the verdicts.
ItemVerdicts == DoneStatuses \cup {"failed", "expired"}
ItemStatuses == {"submitted"} \cup ItemVerdicts

\* The verdicts verify_commands or finish_run give a run that went well.
SettledStatuses == {"success", "partial", "failed", "unverified"}

(***************************************************************************)
(* What GET /command/{id} can come back with: *arr still runs the command  *)
(* ("open"), it ended, *arr no longer knows it (HTTP 404), or there was no *)
(* answer about this command at all (network, proxy, 401, 3xx).            *)
(***************************************************************************)
ArrAnswers == {"open", "completed", "failed", "forgotten", "unreachable"}

\* Mutant: *arr's state is taken over verbatim.
ArrStateVerbatim(answer) == IF answer = "forgotten" THEN "expired" ELSE answer

\* Mutant: any answer about the command counts as its end.
AnyAnswerCompletes(answer) ==
    CASE answer = "forgotten"             -> "expired"
      [] answer \in {"open", "completed"} -> "completed"
      [] answer = "failed"                -> "failed"
      [] OTHER                            -> "submitted"

MapCommandStatus(answer) ==
    CASE answer = "forgotten" -> "expired"
      [] answer = "completed" -> "completed"
      [] answer = "failed"    -> "failed"
      [] OTHER                -> "submitted"

\* Mutant: one item that is done makes the run a success.
OneDoneSuffices(statuses) ==
    IF "submitted" \in statuses THEN "pending"
    ELSE IF statuses = {} \/ statuses \cap DoneStatuses # {} THEN "success"
    ELSE IF "failed" \in statuses THEN "failed"
    ELSE "unverified"

(***************************************************************************)
(* A run's status from the set of its items' statuses.  Order and number   *)
(* of the items do not matter to the code; legacy rows are never written   *)
(* any more and are left out.                                              *)
(***************************************************************************)
AggregateRunStatus(statuses) ==
    IF "submitted" \in statuses THEN "pending"
    ELSE IF statuses \subseteq DoneStatuses THEN "success"
    ELSE IF statuses \cap DoneStatuses # {} THEN "partial"
    ELSE IF "failed" \in statuses THEN "failed"
    ELSE "unverified"
=============================================================================
