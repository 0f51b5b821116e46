------------------------------ MODULE Imports ------------------------------
(***************************************************************************)
(* The actions of the Imports page on one instance: import a held-back     *)
(* download, discard it, follow an import that was sent; next to them the  *)
(* edits of the instance that end such an action (imports/service.py,      *)
(* api/imports.py, api/instances.py).                                      *)
(*                                                                         *)
(* A step is one hold of the service's lock, one access to the instance's  *)
(* row, or one half of an HTTP exchange.  A POST or DELETE is on the wire  *)
(* until the app takes it; its client may give up waiting first, and the   *)
(* request may reach the app all the same.  The caches that only spare     *)
(* reads are the business of ImportCaches: an action never trusts them.    *)
(***************************************************************************)
EXTENDS Integers, Sequences, FiniteSets

CONSTANTS
    Clients,        \* request threads
    Apps,           \* the apps the instance may point to (its scopes)
    Downloads,
    Kinds,          \* what clients ask for: "import", "discard", "status", "edit"
    GuardTime,      \* UNCERTAIN_GUARD_SECONDS
    MaxDelay,       \* a request that left missingarr reaches the app by then, or never
    ConfirmTime,    \* CONFIRM_SECONDS
    Outcomes,       \* how an import command may end: "failed", "nothing", "part", "all"
    MaxTime,        \* bounds of the model: the clock,
    MaxPosts,       \* import commands sent,
    MaxRequests,    \* other requests of the page and edits,
    MaxRestarts     \* restarts of an app

ASSUME TimesAssumption ==
    /\ {GuardTime, MaxDelay, ConfirmTime} \subseteq Nat
    /\ MaxDelay < GuardTime
ASSUME BoundsAssumption ==
    {MaxTime, MaxPosts, MaxRequests, MaxRestarts} \subseteq Nat /\ MaxTime # 0
ASSUME OutcomesAssumption == Outcomes \subseteq {"failed", "nothing", "part", "all"}
ASSUME KindsAssumption == Kinds \subseteq {"import", "discard", "status", "edit"}

VARIABLES
    row,        \* the instance in the database
    revision,   \* _revision
    busy,       \* _busy: downloads with an action running
    guards,     \* _uncertain, per app and download
    sent,       \* _sent: imports this process follows, by command id
    client,     \* the request each thread works on
    wire,       \* POSTs and DELETEs no app has taken yet
    arr,        \* the apps
    now,        \* clock() and utcnow()
    lines,      \* the results written to the activity log
    asked       \* how often each bounded thing happened

vars == <<row, revision, busy, guards, sent, client, wire, arr, now, lines, asked>>

----------------------------------------------------------------------------
(* Types *)

Times == 0 .. MaxTime
Ids == 1 .. MaxPosts
Nothing == [set |-> FALSE]

Row == [app : Apps, enabled : BOOLEAN] \cup {Nothing}
GuardEntry == [at : Times, before : SUBSET Ids]
SentImport == [app : Apps, download : Downloads, at : Times, logged : BOOLEAN]

\* A ManualImport as GET /command shows it; post is the POST that brought it.  A
\* "gone" command is no longer listed.
Command == [download : Downloads, post : 1 .. MaxPosts, at : Times,
            status : {"running", "completed", "failed", "orphaned", "gone"}]

Request == [kind : {"POST", "DELETE"}, app : Apps, download : Downloads,
            post : 0 .. MaxPosts, at : Times, by : SUBSET Clients]

\* by: the client that still waits for the answer.
\* queue: its queue records; visible: it has filled its queue since it started;
\* recorded: downloads with an import record; complete: with every file imported.
App == [cmds : Seq(Command), queue : SUBSET Downloads, visible : BOOLEAN,
        recorded : SUBSET Downloads, complete : SUBSET Downloads, started : Times]

States == {"imported", "unconfirmed", "failed", "unknown"}
Line == [app : Apps, id : Ids, download : Downloads, state : States]

ActionSteps == {"find", "list", "guard", "check", "send", "answer"}
Steps == {"idle", "row", "enter", "forget", "write", "forgotten",
          "lookup", "ask", "start", "queue", "history", "again", "final"} \cup ActionSteps

Client == [pc : Steps, kind : {"import", "discard", "status", "edit"},
           revision : Nat, app : Apps \cup {Nothing}, download : Downloads \cup {Nothing},
           listed : SUBSET Ids, running : BOOLEAN, post : 0 .. MaxPosts,
           id : 0 .. MaxPosts, at : Times, started : Times,
           queued : BOOLEAN, recorded : BOOLEAN, result : States]

TypeOK ==
    /\ row \in Row
    /\ revision \in Nat
    /\ busy \subseteq Downloads
    /\ guards \in [Apps \X Downloads -> GuardEntry \cup {Nothing}]
    /\ sent \in [Ids -> SentImport \cup {Nothing}]
    /\ client \in [Clients -> Client]
    /\ wire \subseteq Request
    /\ arr \in [Apps -> App]
    /\ now \in Times
    /\ lines \in Seq(Line)
    /\ asked \in [posts : 0 .. MaxPosts, requests : 0 .. MaxRequests,
                  restarts : 0 .. MaxRestarts]

Idle == [pc |-> "idle", kind |-> "edit", revision |-> 0,
         app |-> Nothing, download |-> Nothing,
         listed |-> {}, running |-> FALSE, post |-> 0, id |-> 0, at |-> 0,
         started |-> 0, queued |-> FALSE, recorded |-> FALSE, result |-> "unknown"]

Init ==
    /\ row \in [app : Apps, enabled : {TRUE}]
    /\ revision = 0
    /\ busy = {}
    /\ guards = [key \in Apps \X Downloads |-> Nothing]
    /\ sent = [i \in Ids |-> Nothing]
    /\ client = [c \in Clients |-> Idle]
    /\ wire = {}
    /\ arr = [a \in Apps |->
                [cmds |-> <<>>, queue |-> Downloads, visible |-> TRUE,
                 recorded |-> {}, complete |-> {}, started |-> 0]]
    /\ now = 1
    /\ lines = <<>>
    /\ asked = [posts |-> 0, requests |-> 0, restarts |-> 0]

----------------------------------------------------------------------------
(* Helper state formulae *)

At(c, kinds, pc) == client[c].pc = pc /\ client[c].kind \in kinds
Actions == {"import", "discard"}
Goto(c, pc) == client' = [client EXCEPT ![c].pc = pc]

\* The queue an app shows: right after a start its queue is still empty.
Shown(a) == IF arr[a].visible THEN arr[a].queue ELSE {}

\* _manual_imports, _command_ids: the listed commands with a file of the download.
Listed(a, d) == {i \in DOMAIN arr[a].cmds :
                    arr[a].cmds[i].download = d /\ arr[a].cmds[i].status # "gone"}
\* _running
RunningIds(a, d) == {i \in Listed(a, d) : arr[a].cmds[i].status = "running"}

\* _drop of the registry, _revision += 1: the part of forget_instance that is not a cache.
Forget ==
    /\ sent' = [i \in Ids |-> Nothing]
    /\ revision' = revision + 1

\* The action is over, refused or done: the finally of _action.
Leave(c) ==
    /\ busy' = busy \ {client[c].download}
    /\ client' = [client EXCEPT ![c] = Idle]

SetGuardUntil(c, before) ==
    guards' = [guards EXCEPT ![<<client[c].app, client[c].download>>] =
                    [at |-> now + GuardTime, before |-> before]]

SetGuard(c, before) ==
    guards' = [guards EXCEPT ![<<client[c].app, client[c].download>>] =
                    [at |-> now, before |-> before]]

----------------------------------------------------------------------------
(* A request comes in *)

\* start_import, discard, command, update_instance and the others: an action
\* takes the revision before the instance is read.
StartRequest(c) ==
    /\ client[c].pc = "idle"
    /\ asked.requests < MaxRequests
    /\ asked' = [asked EXCEPT !.requests = @ + 1]
    /\ \/ \E kind \in Kinds \cap Actions, d \in Downloads :
             client' = [client EXCEPT ![c] =
                [Idle EXCEPT !.pc = "row", !.kind = kind, !.download = d, !.revision = revision]]
       \/ \E kind \in Kinds \cap {"status"}, i \in Ids :
             client' = [client EXCEPT ![c] = [Idle EXCEPT !.pc = "row", !.kind = kind, !.id = i]]
       \/ "edit" \in Kinds /\ Goto(c, "forget")
    /\ UNCHANGED <<row, revision, busy, guards, sent, wire, arr, now, lines>>

\* _instance of the API, then the agent made from the row it read.
ReadRow(c) ==
    /\ client[c].pc = "row"
    /\ LET known == client[c].kind = "status" => sent[client[c].id] # Nothing
       IN  client' = [client EXCEPT ![c] =
             IF row = Nothing \/ ~known \/ ~row.enabled
             THEN Idle
             ELSE [@ EXCEPT !.app = row.app,
                            !.pc = IF client[c].kind = "status" THEN "lookup" ELSE "enter"]]
    /\ UNCHANGED <<row, revision, busy, guards, sent, wire, arr, now, lines, asked>>

----------------------------------------------------------------------------
(* Import and discard *)

EnterAlways(c) ==
    /\ At(c, Actions, "enter")
    /\ Goto(c, "find")
    /\ busy' = busy \cup {client[c].download}
    /\ UNCHANGED <<row, revision, guards, sent, wire, arr, now, lines, asked>>

\* _action: refused at once while another action for the download runs.
EnterAction(c) ==
    /\ At(c, Actions, "enter")
    /\ IF client[c].download \in busy
       THEN client' = [client EXCEPT ![c] = Idle] /\ UNCHANGED busy
       ELSE Goto(c, "find") /\ busy' = busy \cup {client[c].download}
    /\ UNCHANGED <<row, revision, guards, sent, wire, arr, now, lines, asked>>

\* find_download: the queue in one answer; then, for an import, the proposal.
FindDownload(c) ==
    /\ At(c, Actions, "find")
    /\ client[c].download \in Shown(client[c].app)
    /\ Goto(c, "list")
    /\ UNCHANGED <<row, revision, busy, guards, sent, wire, arr, now, lines, asked>>

\* The download is gone, the proposal changed or is locked, or the app cannot be read.
GiveUpBeforeSending(c) ==
    /\ At(c, Actions, "find") \/ At(c, Actions, "list")
    /\ Leave(c)
    /\ UNCHANGED <<row, revision, guards, sent, wire, arr, now, lines, asked>>

\* _manual_imports: the commands the app lists now.
ListCommands(c) ==
    /\ At(c, Actions, "list")
    /\ LET a == client[c].app
           d == client[c].download
       IN  client' = [client EXCEPT ![c].pc = "guard",
                                    ![c].listed = Listed(a, d),
                                    ![c].running = RunningIds(a, d) # {}]
    /\ UNCHANGED <<row, revision, busy, guards, sent, wire, arr, now, lines, asked>>

\* _check_guard: a guard ends when a new command of the download is listed or
\* when it is old; until then it refuses.
GuardHolds(c) ==
    LET guard == guards[<<client[c].app, client[c].download>>]
    IN  /\ guard # Nothing
        /\ client[c].listed \subseteq guard.before
        /\ now - guard.at < GuardTime

CheckGuard(c) ==
    /\ At(c, Actions, "guard")
    /\ IF GuardHolds(c)
       THEN Leave(c) /\ UNCHANGED guards
       ELSE /\ guards' = [guards EXCEPT ![<<client[c].app, client[c].download>>] = Nothing]
            /\ IF client[c].running
               THEN Leave(c)
               ELSE Goto(c, "check") /\ UNCHANGED busy
    /\ UNCHANGED <<row, revision, sent, wire, arr, now, lines, asked>>

\* _check_revision
CheckRevision(c) ==
    /\ At(c, Actions, "check")
    /\ IF client[c].revision = revision
       THEN Goto(c, "send") /\ UNCHANGED busy
       ELSE Leave(c)
    /\ UNCHANGED <<row, revision, guards, sent, wire, arr, now, lines, asked>>

\* http_post, http_delete: the request leaves.
SendRequest(c) ==
    /\ At(c, Actions, "send")
    /\ client[c].kind = "import" => asked.posts < MaxPosts
    /\ LET post == IF client[c].kind = "import" THEN asked.posts + 1 ELSE 0
       IN  /\ wire' = wire \cup
                {[kind |-> IF client[c].kind = "import" THEN "POST" ELSE "DELETE",
                  app |-> client[c].app, download |-> client[c].download,
                  post |-> post, at |-> now, by |-> {c}]}
           /\ client' = [client EXCEPT ![c].pc = "answer", ![c].post = post]
    /\ asked' = [asked EXCEPT !.posts = IF client[c].kind = "import" THEN @ + 1 ELSE @]
    /\ UNCHANGED <<row, revision, busy, guards, sent, arr, now, lines>>

----------------------------------------------------------------------------
(* The answer, or none *)

Waiting(c) == {w \in wire : w.by = {c}}
Taken(c) == {i \in DOMAIN arr[client[c].app].cmds :
                /\ client[c].post # 0
                /\ arr[client[c].app].cmds[i].post = client[c].post}

\* _not_taken: no connection, or a refusal: nothing reached the app.
NotTaken(c) ==
    /\ At(c, Actions, "answer")
    /\ Waiting(c) # {}
    /\ wire' = wire \ Waiting(c)
    /\ Leave(c)
    /\ UNCHANGED <<row, revision, guards, sent, arr, now, lines, asked>>

ImportRemembered(c) ==
    /\ At(c, {"import"}, "answer")
    /\ \E i \in Taken(c) : sent' = [sent EXCEPT ![i] =
          [app |-> client[c].app, download |-> client[c].download, at |-> now, logged |-> FALSE]]
    /\ Leave(c)
    /\ UNCHANGED <<row, revision, guards, wire, arr, now, lines, asked>>

\* The command id arrives: _remember follows the command, unless the instance
\* changed meanwhile; then the download is guarded until the command is seen.
ImportAnswered(c) ==
    /\ At(c, {"import"}, "answer")
    /\ \E i \in Taken(c) :
          IF client[c].revision = revision
          THEN /\ sent' = [sent EXCEPT ![i] =
                     [app |-> client[c].app, download |-> client[c].download,
                      at |-> now, logged |-> FALSE]]
               /\ UNCHANGED guards
          ELSE SetGuard(c, client[c].listed \ {i}) /\ UNCHANGED sent
    /\ Leave(c)
    /\ UNCHANGED <<row, revision, wire, arr, now, lines, asked>>

ImportLostUnguarded(c) ==
    /\ At(c, {"import"}, "answer")
    /\ wire' = (wire \ Waiting(c)) \cup {[w EXCEPT !.by = {}] : w \in Waiting(c)}
    /\ Leave(c)
    /\ UNCHANGED <<row, revision, guards, sent, arr, now, lines, asked>>

\* A time-out, a lost connection, a 5xx: the command may run all the same, and
\* the POST may reach the app later.
ImportAnswerLost(c) ==
    /\ At(c, {"import"}, "answer")
    /\ wire' = (wire \ Waiting(c)) \cup {[w EXCEPT !.by = {}] : w \in Waiting(c)}
    /\ SetGuard(c, client[c].listed)
    /\ Leave(c)
    /\ UNCHANGED <<row, revision, sent, arr, now, lines, asked>>

DiscardAnswered(c) ==
    /\ At(c, {"discard"}, "answer")
    /\ Waiting(c) = {}
    /\ Leave(c)
    /\ UNCHANGED <<row, revision, guards, sent, wire, arr, now, lines, asked>>

\* Any error of the DELETE ends the action; nothing guards the download, and the
\* DELETE may reach the app later all the same.
DiscardAnswerLost(c) ==
    /\ At(c, {"discard"}, "answer")
    /\ wire' = (wire \ Waiting(c)) \cup {[w EXCEPT !.by = {}] : w \in Waiting(c)}
    /\ Leave(c)
    /\ UNCHANGED <<row, revision, guards, sent, arr, now, lines, asked>>

----------------------------------------------------------------------------
(* Following an import that was sent: command_status *)

Followed(c) == arr[client[c].app].cmds[client[c].id]

Conclude(c, result) ==
    client' = [client EXCEPT ![c].pc = "final", ![c].result = result]

LookupSent(c) ==
    /\ client[c].pc = "lookup"
    /\ LET entry == sent[client[c].id]
       IN  client' = [client EXCEPT ![c] =
             IF entry = Nothing THEN Idle
             ELSE IF entry.app # @.app THEN Idle
             ELSE [@ EXCEPT !.pc = "ask", !.download = entry.download, !.at = entry.at]]
    /\ UNCHANGED <<row, revision, busy, guards, sent, wire, arr, now, lines, asked>>

\* GET /command/<id>: forgotten by the app, running, ended, or completed, which
\* alone proves nothing.
AskCommand(c) ==
    /\ client[c].pc = "ask"
    /\ LET status == IF client[c].id \in DOMAIN arr[client[c].app].cmds
                     THEN Followed(c).status ELSE "gone"
       IN  \/ status \in {"gone", "orphaned"} /\ Conclude(c, "unknown")
           \/ status = "failed" /\ Conclude(c, "failed")
           \/ status = "running" /\ client' = [client EXCEPT ![c] = Idle]
           \/ status = "completed" /\ Goto(c, "start")
    /\ UNCHANGED <<row, revision, busy, guards, sent, wire, arr, now, lines, asked>>

\* _completed: start time, queue, history, start time once more.
ReadStart(c) ==
    /\ client[c].pc = "start"
    /\ IF arr[client[c].app].started >= Followed(c).at
       THEN Conclude(c, "unknown")
       ELSE client' = [client EXCEPT ![c].pc = "queue",
                                     ![c].started = arr[client[c].app].started]
    /\ UNCHANGED <<row, revision, busy, guards, sent, wire, arr, now, lines, asked>>

ReadQueue(c) ==
    /\ client[c].pc = "queue"
    /\ LET queued == client[c].download \in Shown(client[c].app)
       IN  client' = [client EXCEPT ![c].queued = queued,
                                    ![c].pc = IF queued THEN "again" ELSE "history"]
    /\ UNCHANGED <<row, revision, busy, guards, sent, wire, arr, now, lines, asked>>

ReadHistory(c) ==
    /\ client[c].pc = "history"
    /\ client' = [client EXCEPT ![c].pc = "again",
          ![c].recorded = client[c].download \in arr[client[c].app].recorded]
    /\ UNCHANGED <<row, revision, busy, guards, sent, wire, arr, now, lines, asked>>

ReadStartOnce(c) ==
    /\ client[c].pc = "again"
    /\ IF client[c].queued
       THEN IF now - client[c].at < ConfirmTime
            THEN client' = [client EXCEPT ![c] = Idle]
            ELSE Conclude(c, "unconfirmed")
       ELSE Conclude(c, IF client[c].recorded THEN "imported" ELSE "unknown")
    /\ UNCHANGED <<row, revision, busy, guards, sent, wire, arr, now, lines, asked>>

\* A download still queued is "confirming" for a while, which is not final.
ReadStartAgain(c) ==
    /\ client[c].pc = "again"
    /\ \/ /\ arr[client[c].app].started # client[c].started
          /\ Conclude(c, "unknown")
       \/ /\ arr[client[c].app].started = client[c].started
          /\ IF client[c].queued
             THEN IF now - client[c].at < ConfirmTime
                  THEN client' = [client EXCEPT ![c] = Idle]
                  ELSE Conclude(c, "unconfirmed")
             ELSE Conclude(c, IF client[c].recorded THEN "imported" ELSE "unknown")
    /\ UNCHANGED <<row, revision, busy, guards, sent, wire, arr, now, lines, asked>>

FinishEachTime(c) ==
    /\ client[c].pc = "final"
    /\ LET i == client[c].id
       IN  lines' = IF sent[i] = Nothing THEN lines
                    ELSE Append(lines, [app |-> sent[i].app, id |-> i,
                                        download |-> sent[i].download,
                                        state |-> client[c].result])
    /\ client' = [client EXCEPT ![c] = Idle]
    /\ UNCHANGED <<row, revision, busy, guards, sent, wire, arr, now, asked>>

\* _final: one log line per followed import.
Finish(c) ==
    /\ client[c].pc = "final"
    /\ LET i == client[c].id
           first == IF sent[i] = Nothing THEN FALSE ELSE ~sent[i].logged
       IN  IF first
           THEN /\ sent' = [sent EXCEPT ![i].logged = TRUE]
                /\ lines' = Append(lines, [app |-> sent[i].app, id |-> i,
                                           download |-> sent[i].download,
                                           state |-> client[c].result])
           ELSE UNCHANGED <<sent, lines>>
    /\ client' = [client EXCEPT ![c] = Idle]
    /\ UNCHANGED <<row, revision, busy, guards, wire, arr, now, asked>>

\* An error of any request of the status ends it; the page asks again.
StatusFails(c) ==
    /\ client[c].pc \in {"ask", "start", "queue", "history", "again"}
    /\ client' = [client EXCEPT ![c] = Idle]
    /\ UNCHANGED <<row, revision, busy, guards, sent, wire, arr, now, lines, asked>>

----------------------------------------------------------------------------
(* Edits: forget_instance right before and right after the row is written *)

ForgetBefore(c) ==
    /\ client[c].pc = "forget"
    /\ Forget
    /\ Goto(c, "write")
    /\ UNCHANGED <<row, busy, guards, wire, arr, now, lines, asked>>

\* instances.update, toggle_enabled, delete; a deleted row does not come back.
WriteRow(c) ==
    /\ client[c].pc = "write"
    /\ IF row = Nothing THEN UNCHANGED row ELSE row' \in Row
    /\ Goto(c, "forgotten")
    /\ UNCHANGED <<revision, busy, guards, sent, wire, arr, now, lines, asked>>

DropAfter(c) ==
    /\ client[c].pc = "forgotten"
    /\ sent' = [i \in Ids |-> Nothing]
    /\ client' = [client EXCEPT ![c] = Idle]
    /\ UNCHANGED <<row, revision, busy, guards, wire, arr, now, lines, asked>>

ForgetAfter(c) ==
    /\ client[c].pc = "forgotten"
    /\ Forget
    /\ client' = [client EXCEPT ![c] = Idle]
    /\ UNCHANGED <<row, busy, guards, wire, arr, now, lines, asked>>

----------------------------------------------------------------------------
(* The apps, and time *)

\* A request reaches the app while it is young enough.
AppTakes(w) ==
    /\ LET a == w.app
       IN  arr' = IF w.kind = "POST"
                  THEN [arr EXCEPT ![a].cmds = Append(@,
                          [download |-> w.download, post |-> w.post, at |-> now,
                           status |-> "running"])]
                  ELSE [arr EXCEPT ![a].queue = @ \ {w.download}]
    /\ wire' = wire \ {w}
    /\ UNCHANGED <<row, revision, busy, guards, sent, client, now, lines, asked>>

\* A command ends: failed, or completed with none, part or all of the files imported.
CommandEnds(a, i) ==
    LET d == arr[a].cmds[i].download
    IN  /\ arr[a].cmds[i].status = "running"
        /\ \E outcome \in Outcomes :
              /\ outcome \in {"part", "all"} => d \in arr[a].queue
              /\ arr' = [arr EXCEPT
                    ![a].cmds[i].status = IF outcome = "failed" THEN "failed" ELSE "completed",
                    ![a].recorded = IF outcome \in {"part", "all"} THEN @ \cup {d} ELSE @,
                    ![a].complete = IF outcome = "all" THEN @ \cup {d} ELSE @]
        /\ UNCHANGED <<row, revision, busy, guards, sent, client, wire, now, lines, asked>>

\* An ended command leaves the app's list after a while.
AppForgets(a, i) ==
    /\ arr[a].cmds[i].status \in {"completed", "failed", "orphaned"}
    /\ arr' = [arr EXCEPT ![a].cmds[i].status = "gone"]
    /\ UNCHANGED <<row, revision, busy, guards, sent, client, wire, now, lines, asked>>

\* The queue is refreshed: imported downloads leave it.
AppRefreshes(a) ==
    /\ arr' = [arr EXCEPT ![a].queue = @ \ arr[a].complete, ![a].visible = TRUE]
    /\ arr' # arr
    /\ UNCHANGED <<row, revision, busy, guards, sent, client, wire, now, lines, asked>>

\* A restart interrupts what runs and empties the queue until the next refresh.
\* Connections do not survive it, and it takes longer than an action pauses
\* between its last reads and its request: what it cut off has failed before it.
\* One before the first command only hides the queue, as an unread queue does.
AppRestarts(a) ==
    /\ asked.restarts < MaxRestarts
    /\ arr[a].cmds # <<>>
    /\ \A c \in Clients : client[c].app = a => client[c].pc \notin ActionSteps \ {"find"}
    /\ asked' = [asked EXCEPT !.restarts = @ + 1]
    /\ \E status \in {"orphaned", "gone", "running"} :
          arr' = [arr EXCEPT
            ![a].started = now,
            ![a].visible = FALSE,
            ![a].cmds = [i \in DOMAIN @ |->
                IF @[i].status = "running" THEN [@[i] EXCEPT !.status = status] ELSE @[i]]]
    /\ UNCHANGED <<row, revision, busy, guards, sent, client, wire, now, lines>>

\* A tick is longer than an answer is on its way: a list of commands is used in
\* the tick it was read.  What is too old on the wire gets lost.
Tick ==
    /\ now < MaxTime
    /\ \A c \in Clients : client[c].pc # "guard"
    /\ now' = now + 1
    /\ wire' = {w \in wire : now' - w.at <= MaxDelay}
    /\ UNCHANGED <<row, revision, busy, guards, sent, client, arr, lines, asked>>

----------------------------------------------------------------------------

ClientStep(c) ==
    \/ StartRequest(c) \/ ReadRow(c)
    \/ EnterAction(c) \/ FindDownload(c) \/ GiveUpBeforeSending(c)
    \/ ListCommands(c) \/ CheckGuard(c) \/ CheckRevision(c) \/ SendRequest(c)
    \/ NotTaken(c) \/ ImportAnswered(c) \/ ImportAnswerLost(c)
    \/ DiscardAnswered(c) \/ DiscardAnswerLost(c)
    \/ LookupSent(c) \/ AskCommand(c) \/ ReadStart(c) \/ ReadQueue(c)
    \/ ReadHistory(c) \/ ReadStartAgain(c) \/ Finish(c) \/ StatusFails(c)
    \/ ForgetBefore(c) \/ WriteRow(c) \/ ForgetAfter(c)

AppStep(a) ==
    \/ \E i \in DOMAIN arr[a].cmds : CommandEnds(a, i) \/ AppForgets(a, i)
    \/ AppRefreshes(a)
    \/ AppRestarts(a)

Next ==
    \/ \E c \in Clients : ClientStep(c)
    \/ \E w \in wire : AppTakes(w)
    \/ \E a \in Apps : AppStep(a)
    \/ Tick

Spec == Init /\ [][Next]_vars

----------------------------------------------------------------------------
(* Properties *)

InFlight(a, d) == {w \in wire : w.kind = "POST" /\ w.app = a /\ w.download = d}
Importing(a, d) == Cardinality(InFlight(a, d)) + Cardinality(RunningIds(a, d))

\* missingarr never has two import commands for one download under way at an
\* app, on the wire or running there, whatever answers got lost (_action,
\* _running, _guard).
OneImportPerDownload ==
    \A a \in Apps, d \in Downloads : Importing(a, d) <= 1

\* While a discard waits for its answer, no import command of missingarr for
\* that download is on the wire or runs, also none whose own answer got lost:
\* the files are not removed under it (_action, _check_guard, running_import).
AwaitedDiscardIsAlone ==
    \A w \in wire :
        w.kind = "DELETE" /\ w.by # {} => Importing(w.app, w.download) = 0

\* "A discard would delete the files under a queued import" (running_import): no
\* DELETE is on its way while an import is, also none its client gave up on.
NoDiscardUnderImport ==
    \A w \in wire : w.kind = "DELETE" => Importing(w.app, w.download) = 0

MidEdit == \E c \in Clients : client[c].pc = "forgotten"

\* An action about to send, whose revision still counts, goes to the app the
\* instance's row names, and the row is switched on; only between the write of
\* an edit and the forgetting right after it this may differ (forget_instance,
\* _check_revision).
SendsUnderCurrentRow ==
    \A c \in Clients :
        client[c].pc = "send" /\ client[c].revision = revision /\ ~MidEdit
        => row = [app |-> client[c].app, enabled |-> TRUE]

\* Only imports sent to the app the row names are followed: an edit ends
\* following, also for a command whose answer arrives after it (_remember).
FollowedIsCurrent ==
    \A i \in Ids :
        sent[i] # Nothing /\ ~MidEdit => row = [app |-> sent[i].app, enabled |-> TRUE]

\* One result per import in the activity log, however many tabs ask (_final).
LoggedOnce ==
    \A j, k \in DOMAIN lines :
        lines[j].app = lines[k].app /\ lines[j].id = lines[k].id => j = k

\* A status request concludes "imported" only for a download that has left the
\* app's queue for good, also across a restart of the app that hides the queue
\* for a while (_completed: "a restart must be ruled out").
ImportedHasLeft ==
    \A c \in Clients :
        client[c].pc = "final" /\ client[c].result = "imported"
        => client[c].download \notin arr[client[c].app].queue

\* The same of the activity log: an import it calls done has left the queue, or
\* waits there with every file imported (_final).
ImportedIsComplete ==
    \A j \in DOMAIN lines :
        /\ lines[j].state = "imported"
        /\ lines[j].download \in arr[lines[j].app].queue
        => lines[j].download \in arr[lines[j].app].complete
=============================================================================
