--------------------------- MODULE ImportsProofs ---------------------------
(***************************************************************************)
(* What holds of the actions of the Imports page for any number of request *)
(* threads, apps, downloads, lost answers and restarts: one import command *)
(* per download, nothing discarded under one, nothing sent or followed for *)
(* a configuration that is gone, one line per import in the log, and       *)
(* "imported" only for a download that left the queue.                     *)
(***************************************************************************)
EXTENDS Imports, FiniteSetTheorems, TLAPS

----------------------------------------------------------------------------
(* Types *)

StatusSteps == {"lookup", "ask", "start", "queue", "history", "again", "final"}

\* What a request knows at each step.
Fits(r) ==
    /\ r.pc \in {"row", "enter"} \cup ActionSteps /\ r.kind \in Actions => r.download \in Downloads
    /\ r.pc \in {"row"} \cup ActionSteps => r.kind \in {"import", "discard", "status"}
    /\ r.pc = "row" /\ r.kind = "status" => r.id \in Ids
    /\ r.pc \in {"enter"} \cup ActionSteps => r.kind \in Actions /\ r.app \in Apps
    /\ r.pc \in StatusSteps => r.kind = "status" /\ r.app \in Apps /\ r.id \in Ids
    /\ r.pc \in StatusSteps \ {"lookup"} => r.download \in Downloads

RequestsFit == \A c \in Clients : Fits(client[c])

\* An app has no more commands than were sent.
CommandsFit == \A a \in Apps : DOMAIN arr[a].cmds \subseteq Ids

TypeInv == TypeOK /\ RequestsFit

LEMMA IdleFits == Idle \in Client /\ Idle.pc = "idle" /\ Fits(Idle)
<1>1. 0 \in Times /\ 0 \in 0 .. MaxPosts
  BY BoundsAssumption DEF Times
<1> QED
  BY <1>1 DEF Idle, Client, Steps, States, Fits, StatusSteps, ActionSteps

LEMMA TypeInit ==
    ASSUME Init
    PROVE  TypeInv
<1>1. 0 \in Times /\ 1 \in Times /\ 0 \in 0 .. MaxPosts /\ 0 \in 0 .. MaxRequests /\ 0 \in 0 .. MaxRestarts
  BY BoundsAssumption DEF Times
<1>2. row \in Row
  BY DEF Init, Row
<1>3. client \in [Clients -> Client] /\ \A c \in Clients : client[c].pc = "idle"
  BY IdleFits DEF Init
<1>4. arr \in [Apps -> App]
  BY <1>1 DEF Init, App
<1>5. lines \in Seq(Line)
  BY DEF Init
<1>6. TypeOK
  BY <1>1, <1>2, <1>3, <1>4, <1>5 DEF Init, TypeOK
<1> QED
  BY <1>3, <1>6 DEF TypeInv, RequestsFit, Fits, ActionSteps, StatusSteps

\* A step of a request changes this request only.
Moves(c, r) == client' = [client EXCEPT ![c] = r]

Changes(c) ==
    /\ client' \in [Clients -> Client] /\ RequestsFit'
    /\ \A e \in Clients \ {c} : client'[e] = client[e]

LEMMA RequestMoves ==
    ASSUME client \in [Clients -> Client], RequestsFit,
           NEW c \in Clients, NEW r \in Client, Fits(r), Moves(c, r)
    PROVE  Changes(c)
  BY DEF RequestsFit, Moves, Changes

LEMMA ClientKept ==
    ASSUME TypeInv, CommandsFit, NEW c \in Clients, ClientStep(c)
    PROVE  Changes(c)
<1> DEFINE q == client[c]
<1>0. /\ client \in [Clients -> Client] /\ RequestsFit /\ now \in Times
      /\ row \in Row /\ revision \in Nat /\ sent \in [Ids -> SentImport \cup {Nothing}]
      /\ arr \in [Apps -> App] /\ asked.posts \in 0 .. MaxPosts
  BY DEF TypeInv, TypeOK
<1>a. q \in Client /\ Fits(q)
  BY <1>0 DEF RequestsFit
<1>1. CASE StartRequest(c)
  <2>1. CASE Moves(c, [q EXCEPT !.pc = "forget"])
    <3>1. [q EXCEPT !.pc = "forget"] \in Client /\ Fits([q EXCEPT !.pc = "forget"])
      BY <1>a DEF Client, Steps, Fits, StatusSteps, ActionSteps
    <3> QED
      BY <1>0, <2>1, <3>1, RequestMoves
  <2>2. ASSUME NEW kind \in Kinds \cap Actions, NEW d \in Downloads,
               Moves(c, [Idle EXCEPT !.pc = "row", !.kind = kind, !.download = d, !.revision = revision])
        PROVE  Changes(c)
    <3> DEFINE r == [Idle EXCEPT !.pc = "row", !.kind = kind, !.download = d, !.revision = revision]
    <3>1. r \in Client /\ Fits(r)
      BY <1>0, IdleFits DEF Client, Steps, Fits, StatusSteps, ActionSteps, Actions
    <3> QED
      BY <1>0, <2>2, <3>1, RequestMoves
  <2>3. ASSUME NEW i \in Ids, Moves(c, [Idle EXCEPT !.pc = "row", !.kind = "status", !.id = i])
        PROVE  Changes(c)
    <3> DEFINE r == [Idle EXCEPT !.pc = "row", !.kind = "status", !.id = i]
    <3>1. i \in 0 .. MaxPosts
      BY BoundsAssumption DEF Ids
    <3>2. r \in Client
      BY <3>1, IdleFits DEF Client, Steps
    <3>3. r.pc = "row" /\ r.kind = "status" /\ r.id = i
      BY IdleFits DEF Client
    <3>4. Fits(r)
      BY <3>3 DEF Fits, StatusSteps, ActionSteps, Actions
    <3> QED
      BY <1>0, <2>3, <3>2, <3>4, RequestMoves
  <2> QED
    BY <1>1, <2>1, <2>2, <2>3 DEF StartRequest, Goto, Moves
<1>2. CASE ReadRow(c)
  <2>1. q.pc = "row" /\
        \/ Moves(c, Idle)
        \/ /\ row # Nothing
           /\ Moves(c, [q EXCEPT !.app = row.app, !.pc = "lookup"]) /\ q.kind = "status"
        \/ /\ row # Nothing
           /\ Moves(c, [q EXCEPT !.app = row.app, !.pc = "enter"]) /\ q.kind # "status"
    BY <1>2, Zenon DEF ReadRow, Moves
  <2>2. CASE Moves(c, Idle)
    BY <1>0, <2>2, IdleFits, RequestMoves
  <2>3. ASSUME row # Nothing, NEW pc \in {"lookup", "enter"}, pc = "lookup" <=> q.kind = "status",
               Moves(c, [q EXCEPT !.app = row.app, !.pc = pc])
        PROVE  Changes(c)
    <3> DEFINE r == [q EXCEPT !.app = row.app, !.pc = pc]
    <3>1. r \in Client /\ Fits(r)
      BY <1>0, <1>a, <2>1, <2>3 DEF Row, Client, Steps, Fits, StatusSteps, ActionSteps, Actions
    <3> QED
      BY <1>0, <2>3, <3>1, RequestMoves
  <2> QED
    BY <2>1, <2>2, <2>3
<1>3. ASSUME NEW pc \in {"find", "list", "check", "send"}, Moves(c, [q EXCEPT !.pc = pc]),
             q.pc \in {"enter"} \cup ActionSteps
      PROVE  Changes(c)
  <2> DEFINE r == [q EXCEPT !.pc = pc]
  <2>1. r \in Client /\ Fits(r)
    BY <1>a, <1>3 DEF Client, Steps, Fits, StatusSteps, ActionSteps, Actions
  <2> QED
    BY <1>0, <1>3, <2>1, RequestMoves
<1>4. CASE Moves(c, Idle)
  BY <1>0, <1>4, IdleFits, RequestMoves
<1>5. CASE EnterAction(c) \/ FindDownload(c) \/ GiveUpBeforeSending(c) \/ CheckGuard(c) \/ CheckRevision(c)
  <2>1. q.pc \in {"enter"} \cup ActionSteps
    BY <1>5 DEF EnterAction, FindDownload, GiveUpBeforeSending, CheckGuard, CheckRevision, At, ActionSteps
  <2>2. \/ Moves(c, Idle) \/ Moves(c, [q EXCEPT !.pc = "find"]) \/ Moves(c, [q EXCEPT !.pc = "list"])
        \/ Moves(c, [q EXCEPT !.pc = "check"]) \/ Moves(c, [q EXCEPT !.pc = "send"])
    BY <1>5 DEF EnterAction, FindDownload, GiveUpBeforeSending, CheckGuard, CheckRevision,
       Leave, Goto, Moves
  <2> QED
    BY <1>3, <1>4, <2>1, <2>2
<1>6. CASE ListCommands(c)
  <2> DEFINE r == [q EXCEPT !.pc = "guard", !.listed = Listed(q.app, q.download),
                            !.running = RunningIds(q.app, q.download) # {}]
  <2>1. q.app \in Apps /\ q.pc = "list"
    BY <1>a, <1>6 DEF ListCommands, At, Fits, ActionSteps
  <2>2. Listed(q.app, q.download) \subseteq Ids
    BY <2>1 DEF Listed, CommandsFit
  <2>3. r \in Client /\ Fits(r)
    BY <1>a, <2>1, <2>2 DEF Client, Steps, Fits, StatusSteps, ActionSteps, Actions
  <2>4. Moves(c, r)
    BY <1>6 DEF ListCommands, Moves
  <2> QED
    BY <1>0, <2>3, <2>4, RequestMoves
<1>7. CASE SendRequest(c)
  <2>1. PICK post \in 0 .. MaxPosts : Moves(c, [q EXCEPT !.pc = "answer", !.post = post])
    <3>1. CASE q.kind = "import"
      <4>1. asked.posts + 1 \in 0 .. MaxPosts
        BY <1>0, <1>7, <3>1, BoundsAssumption DEF SendRequest
      <4> QED
        BY <1>7, <3>1, <4>1 DEF SendRequest, Moves
    <3>2. CASE q.kind # "import"
      <4>1. 0 \in 0 .. MaxPosts
        BY BoundsAssumption
      <4> QED
        BY <1>7, <3>2, <4>1 DEF SendRequest, Moves
    <3> QED
      BY <3>1, <3>2
  <2> DEFINE r == [q EXCEPT !.pc = "answer", !.post = post]
  <2>2. r \in Client /\ Fits(r)
    BY <1>a, <1>7 DEF SendRequest, At, Client, Steps, Fits, StatusSteps, ActionSteps, Actions
  <2> QED
    BY <1>0, <2>1, <2>2, RequestMoves
<1>8. CASE NotTaken(c) \/ ImportAnswered(c) \/ ImportAnswerLost(c) \/ DiscardAnswered(c)
           \/ DiscardAnswerLost(c) \/ Finish(c) \/ StatusFails(c) \/ ForgetAfter(c)
  <2>1. Moves(c, Idle)
    BY <1>8 DEF NotTaken, ImportAnswered, ImportAnswerLost, DiscardAnswered,
       DiscardAnswerLost, Finish, StatusFails, ForgetAfter, Leave, Moves
  <2> QED
    BY <1>4, <2>1
<1>9. CASE LookupSent(c)
  <2> DEFINE entry == sent[q.id]
             r == [q EXCEPT !.pc = "ask", !.download = entry.download, !.at = entry.at]
  <2>1. q.pc = "lookup" /\ (Moves(c, Idle) \/ (entry # Nothing /\ Moves(c, r)))
    BY <1>9, Zenon DEF LookupSent, Moves
  <2>2. CASE entry # Nothing /\ Moves(c, r)
    <3>1. q.id \in Ids
      BY <1>a, <2>1 DEF Fits, StatusSteps
    <3>2. entry.download \in Downloads /\ entry.at \in Times
      BY <1>0, <2>2, <3>1 DEF SentImport
    <3>3. r \in Client /\ Fits(r)
      BY <1>a, <2>1, <3>2 DEF Client, Steps, Fits, StatusSteps, ActionSteps, Actions
    <3> QED
      BY <1>0, <2>2, <3>3, RequestMoves
  <2> QED
    BY <1>4, <2>1, <2>2
<1>10. ASSUME q.pc \in StatusSteps \ {"lookup"}, NEW r \in Client, Moves(c, r),
              r.kind = q.kind, r.app = q.app, r.id = q.id, r.download = q.download,
              r.pc \in StatusSteps
       PROVE  Changes(c)
  <2>1. Fits(r)
    BY <1>a, <1>10 DEF Fits, StatusSteps, ActionSteps
  <2> QED
    BY <1>0, <1>10, <2>1, RequestMoves
<1>11. CASE AskCommand(c)
  <2>1. q.pc = "ask" /\
        \/ Moves(c, Idle)
        \/ Moves(c, [q EXCEPT !.pc = "start"])
        \/ Moves(c, [q EXCEPT !.pc = "final", !.result = "unknown"])
        \/ Moves(c, [q EXCEPT !.pc = "final", !.result = "failed"])
    BY <1>11 DEF AskCommand, Conclude, Goto, Moves
  <2>2. ASSUME NEW r, \/ r = [q EXCEPT !.pc = "start"]
                      \/ r = [q EXCEPT !.pc = "final", !.result = "unknown"]
                      \/ r = [q EXCEPT !.pc = "final", !.result = "failed"]
        PROVE  /\ r \in Client
               /\ r.kind = q.kind /\ r.app = q.app /\ r.id = q.id /\ r.download = q.download
               /\ r.pc \in StatusSteps
    BY <1>a, <2>2 DEF Client, Steps, States, StatusSteps
  <2> QED
    BY <1>4, <1>10, <2>1, <2>2 DEF StatusSteps
<1>12. CASE ReadStart(c)
  <2> DEFINE started == arr[q.app].started
  <2>1. q.pc = "start" /\
        \/ Moves(c, [q EXCEPT !.pc = "queue", !.started = started])
        \/ Moves(c, [q EXCEPT !.pc = "final", !.result = "unknown"])
    BY <1>12 DEF ReadStart, Conclude, Moves
  <2>2. started \in Times
    BY <1>0, <1>a, <2>1 DEF Fits, StatusSteps, App
  <2>3. ASSUME NEW r, \/ r = [q EXCEPT !.pc = "queue", !.started = started]
                      \/ r = [q EXCEPT !.pc = "final", !.result = "unknown"]
        PROVE  /\ r \in Client
               /\ r.kind = q.kind /\ r.app = q.app /\ r.id = q.id /\ r.download = q.download
               /\ r.pc \in StatusSteps
    BY <1>a, <2>2, <2>3 DEF Client, Steps, States, StatusSteps
  <2> QED
    BY <1>10, <2>1, <2>3 DEF StatusSteps
<1>13. CASE ReadQueue(c) \/ ReadHistory(c)
  <2>1. q.pc \in {"queue", "history"} /\
        \E found \in BOOLEAN :
           \/ Moves(c, [q EXCEPT !.pc = "again", !.queued = found])
           \/ Moves(c, [q EXCEPT !.pc = "history", !.queued = found])
           \/ Moves(c, [q EXCEPT !.pc = "again", !.recorded = found])
    <3>1. CASE ReadQueue(c)
      <4> DEFINE found == q.download \in Shown(q.app)
      <4>1. client' = [client EXCEPT ![c].queued = found, ![c].pc = IF found THEN "again" ELSE "history"]
            /\ q.pc = "queue"
        BY <3>1 DEF ReadQueue
      <4>2. found \in BOOLEAN
        OBVIOUS
      <4> HIDE DEF found
      <4>3. CASE found
        BY <4>1, <4>2, <4>3 DEF Moves
      <4>4. CASE ~found
        BY <4>1, <4>2, <4>4 DEF Moves
      <4> QED
        BY <4>3, <4>4
    <3>2. CASE ReadHistory(c)
      <4> DEFINE found == q.download \in arr[q.app].recorded
      <4>1. client' = [client EXCEPT ![c].pc = "again", ![c].recorded = found] /\ q.pc = "history"
        BY <3>2 DEF ReadHistory
      <4>2. found \in BOOLEAN
        OBVIOUS
      <4> HIDE DEF found
      <4> QED
        BY <4>1, <4>2 DEF Moves
    <3> QED
      BY <1>13, <3>1, <3>2
  <2>2. ASSUME NEW found \in BOOLEAN, NEW r,
               \/ r = [q EXCEPT !.pc = "again", !.queued = found]
               \/ r = [q EXCEPT !.pc = "history", !.queued = found]
               \/ r = [q EXCEPT !.pc = "again", !.recorded = found]
        PROVE  /\ r \in Client
               /\ r.kind = q.kind /\ r.app = q.app /\ r.id = q.id /\ r.download = q.download
               /\ r.pc \in StatusSteps
    <3>1. {"again", "history"} \subseteq Steps \cap StatusSteps
      BY DEF Steps, StatusSteps
    <3>2. CASE r = [q EXCEPT !.pc = "again", !.queued = found]
      BY <1>a, <3>1, <3>2 DEF Client
    <3>3. CASE r = [q EXCEPT !.pc = "history", !.queued = found]
      BY <1>a, <3>1, <3>3 DEF Client
    <3>4. CASE r = [q EXCEPT !.pc = "again", !.recorded = found]
      BY <1>a, <3>1, <3>4 DEF Client
    <3> QED
      BY <2>2, <3>2, <3>3, <3>4
  <2> QED
    BY <1>10, <2>1, <2>2 DEF StatusSteps
<1>14. CASE ReadStartAgain(c)
  <2>1. q.pc = "again" /\
        \/ Moves(c, Idle)
        \/ \E result \in States : Moves(c, [q EXCEPT !.pc = "final", !.result = result])
    BY <1>14 DEF ReadStartAgain, Conclude, Moves, States
  <2>2. ASSUME NEW result \in States, Moves(c, [q EXCEPT !.pc = "final", !.result = result])
        PROVE  Changes(c)
    <3> DEFINE r == [q EXCEPT !.pc = "final", !.result = result]
    <3>1. /\ r \in Client
          /\ r.kind = q.kind /\ r.app = q.app /\ r.id = q.id /\ r.download = q.download
          /\ r.pc \in StatusSteps
      BY <1>a, <2>2 DEF Client, Steps, StatusSteps
    <3>2. q.pc \in StatusSteps \ {"lookup"} /\ Moves(c, r)
      BY <2>1, <2>2 DEF StatusSteps
    <3> HIDE DEF r
    <3> QED
      BY <1>10, <3>1, <3>2
  <2> QED
    BY <1>4, <2>1, <2>2
<1>15. CASE ForgetBefore(c) \/ WriteRow(c)
  <2>1. PICK pc \in {"write", "forgotten"} : Moves(c, [q EXCEPT !.pc = pc])
    BY <1>15 DEF ForgetBefore, WriteRow, Goto, Moves
  <2> DEFINE r == [q EXCEPT !.pc = pc]
  <2>2. r \in Client /\ Fits(r)
    BY <1>a DEF Client, Steps, Fits, StatusSteps, ActionSteps
  <2> QED
    BY <1>0, <2>1, <2>2, RequestMoves
<1> QED
  BY <1>1, <1>2, <1>5, <1>6, <1>7, <1>8, <1>9, <1>11, <1>12, <1>13, <1>14, <1>15 DEF ClientStep

\* What the steps of a request leave alone, and what they bring.
LEMMA StoresKept ==
    ASSUME TypeInv, CommandsFit, NEW c \in Clients, ClientStep(c)
    PROVE  /\ (row \in Row /\ revision \in Nat /\ busy \subseteq Downloads)'
           /\ (guards \in [Apps \X Downloads -> GuardEntry \cup {Nothing}])'
           /\ (sent \in [Ids -> SentImport \cup {Nothing}])'
           /\ (wire \subseteq Request)'
           /\ (lines \in Seq(Line))'
           /\ (asked \in [posts : 0 .. MaxPosts, requests : 0 .. MaxRequests,
                          restarts : 0 .. MaxRestarts])'
           /\ UNCHANGED <<arr, now>>
<1> DEFINE q == client[c]
           Key == <<q.app, q.download>>
<1>0. /\ client \in [Clients -> Client] /\ Fits(q) /\ now \in Times
      /\ row \in Row /\ revision \in Nat /\ busy \subseteq Downloads
      /\ guards \in [Apps \X Downloads -> GuardEntry \cup {Nothing}]
      /\ sent \in [Ids -> SentImport \cup {Nothing}]
      /\ wire \subseteq Request /\ lines \in Seq(Line)
      /\ asked \in [posts : 0 .. MaxPosts, requests : 0 .. MaxRequests, restarts : 0 .. MaxRestarts]
  BY DEF TypeInv, TypeOK, RequestsFit
<1>a. q \in Client
  BY <1>0
<1>1. CASE StartRequest(c)
  <2>a. asked.requests < MaxRequests
    BY <1>1, Zenon DEF StartRequest
  <2>1. asked.requests + 1 \in 0 .. MaxRequests
    BY <1>0, <2>a, BoundsAssumption
  <2>2. asked' = [asked EXCEPT !.requests = asked.requests + 1]
        /\ UNCHANGED <<row, revision, busy, guards, sent, wire, arr, now, lines>>
    BY <1>1 DEF StartRequest
  <2>3. asked' \in [posts : 0 .. MaxPosts, requests : 0 .. MaxRequests, restarts : 0 .. MaxRestarts]
    BY <1>0, <2>1, <2>2
  <2> QED
    BY <1>0, <2>2, <2>3
<1>2. CASE \/ ReadRow(c) \/ FindDownload(c) \/ ListCommands(c) \/ LookupSent(c) \/ AskCommand(c)
           \/ ReadStart(c) \/ ReadQueue(c) \/ ReadHistory(c) \/ ReadStartAgain(c) \/ StatusFails(c)
  BY <1>0, <1>2 DEF ReadRow, FindDownload, ListCommands, LookupSent, AskCommand,
     ReadStart, ReadQueue, ReadHistory, ReadStartAgain, StatusFails
<1>3. CASE EnterAction(c) \/ GiveUpBeforeSending(c) \/ CheckRevision(c) \/ DiscardAnswered(c)
  <2>1. q.pc = "enter" => q.download \in Downloads
    BY <1>0 DEF Fits
  <2> QED
    BY <1>0, <1>3, <2>1 DEF EnterAction, GiveUpBeforeSending, CheckRevision, DiscardAnswered, Leave, At
<1>4. CASE CheckGuard(c)
  BY <1>0, <1>4 DEF CheckGuard, Leave
<1>5. CASE SendRequest(c)
  <2>1. q.app \in Apps /\ q.download \in Downloads /\ q.kind \in {"import", "discard"}
    BY <1>0, <1>5 DEF SendRequest, At, Fits, ActionSteps, Actions
  <2>2. CASE q.kind = "import"
    <3>1. asked.posts + 1 \in 0 .. MaxPosts
      BY <1>0, <1>5, <2>2, BoundsAssumption DEF SendRequest
    <3>2. [kind |-> "POST", app |-> q.app, download |-> q.download, post |-> asked.posts + 1,
           at |-> now, by |-> {c}] \in Request
      BY <1>0, <2>1, <3>1 DEF Request
    <3> QED
      BY <1>0, <1>5, <2>2, <3>1, <3>2 DEF SendRequest
  <2>3. CASE q.kind = "discard"
    <3>1. [kind |-> "DELETE", app |-> q.app, download |-> q.download, post |-> 0,
           at |-> now, by |-> {c}] \in Request
      BY <1>0, <2>1, BoundsAssumption DEF Request
    <3> QED
      BY <1>0, <1>5, <2>3, <3>1 DEF SendRequest
  <2> QED
    BY <2>1, <2>2, <2>3
<1>6. CASE NotTaken(c)
  BY <1>0, <1>6 DEF NotTaken, Leave
<1>7. CASE ImportAnswered(c)
  <2>1. q.app \in Apps /\ q.download \in Downloads
    BY <1>0, <1>7 DEF ImportAnswered, At, Fits, ActionSteps, Actions
  <2>2. PICK i \in Taken(c) :
          IF q.revision = revision
          THEN /\ sent' = [sent EXCEPT ![i] =
                     [app |-> q.app, download |-> q.download, at |-> now, logged |-> FALSE]]
               /\ UNCHANGED guards
          ELSE SetGuard(c, q.listed \ {i}) /\ UNCHANGED sent
    BY <1>7 DEF ImportAnswered
  <2>3. i \in Ids
    BY <2>1, <2>2 DEF Taken, CommandsFit
  <2>4. [app |-> q.app, download |-> q.download, at |-> now, logged |-> FALSE] \in SentImport
    BY <1>0, <2>1 DEF SentImport
  <2>5. [at |-> now, before |-> q.listed \ {i}] \in GuardEntry
    BY <1>0, <1>a DEF GuardEntry, Client
  <2>6. sent' \in [Ids -> SentImport \cup {Nothing}]
        /\ guards' \in [Apps \X Downloads -> GuardEntry \cup {Nothing}]
    BY <1>0, <2>2, <2>3, <2>4, <2>5 DEF SetGuard
  <2> QED
    BY <1>0, <1>7, <2>6 DEF ImportAnswered, Leave
<1>8. CASE ImportAnswerLost(c) \/ DiscardAnswerLost(c)
  <2>1. \A w \in Request : [w EXCEPT !.by = {}] \in Request
    BY DEF Request
  <2>2. wire' \subseteq Request
    BY <1>0, <1>8, <2>1 DEF ImportAnswerLost, DiscardAnswerLost, Waiting
  <2>3. [at |-> now, before |-> q.listed] \in GuardEntry
    BY <1>0, <1>a DEF GuardEntry, Client
  <2>4. guards' \in [Apps \X Downloads -> GuardEntry \cup {Nothing}]
    BY <1>0, <1>8, <2>3 DEF ImportAnswerLost, DiscardAnswerLost, SetGuard
  <2> QED
    BY <1>0, <1>8, <2>2, <2>4 DEF ImportAnswerLost, DiscardAnswerLost, Leave
<1>9. CASE Finish(c)
  <2> DEFINE i == q.id
  <2>1. i \in Ids /\ q.result \in States
    BY <1>0, <1>a, <1>9 DEF Finish, Fits, StatusSteps, Client
  <2>2. CASE UNCHANGED <<sent, lines>>
    BY <1>0, <1>9, <2>2 DEF Finish
  <2>3. CASE /\ sent[i] # Nothing
             /\ sent' = [sent EXCEPT ![i].logged = TRUE]
             /\ lines' = Append(lines, [app |-> sent[i].app, id |-> i,
                                        download |-> sent[i].download, state |-> q.result])
    <3>1. sent[i] \in SentImport
      BY <1>0, <2>1, <2>3
    <3>2. [sent[i] EXCEPT !.logged = TRUE] \in SentImport
      BY <3>1 DEF SentImport
    <3>3. [app |-> sent[i].app, id |-> i, download |-> sent[i].download, state |-> q.result] \in Line
      BY <2>1, <3>1 DEF Line, SentImport
    <3>a. sent' = [sent EXCEPT ![i] = [sent[i] EXCEPT !.logged = TRUE]]
      BY <2>3
    <3>b. sent' \in [Ids -> SentImport \cup {Nothing}]
      BY <1>0, <2>1, <3>a, <3>2
    <3>4. sent' \in [Ids -> SentImport \cup {Nothing}] /\ lines' \in Seq(Line)
      BY <1>0, <2>3, <3>3, <3>b
    <3> QED
      BY <1>0, <1>9, <3>4 DEF Finish
  <2>4. \/ UNCHANGED <<sent, lines>>
        \/ /\ sent[i] # Nothing
           /\ sent' = [sent EXCEPT ![i].logged = TRUE]
           /\ lines' = Append(lines, [app |-> sent[i].app, id |-> i,
                                      download |-> sent[i].download, state |-> q.result])
    BY <1>9 DEF Finish
  <2> QED
    BY <2>2, <2>3, <2>4
<1>10. CASE ForgetBefore(c) \/ WriteRow(c) \/ ForgetAfter(c)
  BY <1>0, <1>10 DEF ForgetBefore, WriteRow, ForgetAfter, Forget
<1> QED
  BY <1>1, <1>2, <1>3, <1>4, <1>5, <1>6, <1>7, <1>8, <1>9, <1>10 DEF ClientStep

----------------------------------------------------------------------------
(* The apps *)

\* A command that was there stays what it was, except that it may end.
EndsAs(old, new) ==
    /\ DOMAIN new = DOMAIN old
    /\ \A i \in DOMAIN old :
          /\ new[i].download = old[i].download /\ new[i].post = old[i].post
          /\ new[i].status = "running" => old[i].status = "running"
          /\ new[i].status # "gone" => old[i].status # "gone"

Ends(a) == EndsAs(arr[a].cmds, arr'[a].cmds)

\* What an app does on its own.
LEMMA AppsKept ==
    ASSUME arr \in [Apps -> App], now \in Times, NEW a \in Apps, AppStep(a)
    PROVE  arr' \in [Apps -> App] /\ (\A b \in Apps : Ends(b))
<1>0. arr[a] \in App /\ arr[a].cmds \in Seq(Command) /\ \A b \in Apps : arr[b].cmds \in Seq(Command)
  BY DEF App
<1>1. ASSUME NEW app \in App, arr' = [arr EXCEPT ![a] = app],
             EndsAs(arr[a].cmds, app.cmds)
      PROVE  arr' \in [Apps -> App] /\ (\A b \in Apps : Ends(b))
  <2>1. arr'[a] = app /\ \A b \in Apps \ {a} : arr'[b] = arr[b]
    BY <1>1
  <2>2. Ends(a)
    BY <1>1, <2>1 DEF Ends
  <2>3. ASSUME NEW b \in Apps \ {a}
        PROVE  Ends(b)
    BY <2>1, <2>3 DEF Ends, EndsAs
  <2> QED
    BY <1>1, <2>2, <2>3
<1>2. ASSUME NEW i \in DOMAIN arr[a].cmds, NEW status \in {"failed", "completed", "gone"},
             NEW cmds, cmds = [arr[a].cmds EXCEPT ![i].status = status],
             status # "gone" => arr[a].cmds[i].status # "gone"
      PROVE  cmds \in Seq(Command) /\ EndsAs(arr[a].cmds, cmds)
  <2> DEFINE old == arr[a].cmds[i]
             new == [old EXCEPT !.status = status]
  <2>1. old \in Command
    BY <1>0
  <2>2. /\ new \in Command /\ new.download = old.download /\ new.post = old.post
        /\ new.status = status /\ new.status # "running"
    BY <2>1, <1>2 DEF Command
  <2>3. cmds = [arr[a].cmds EXCEPT ![i] = new]
    BY <1>2
  <2>4. cmds[i] = new /\ \A j \in DOMAIN arr[a].cmds \ {i} : cmds[j] = arr[a].cmds[j]
    BY <1>0, <2>3
  <2>5. cmds \in Seq(Command) /\ DOMAIN cmds = DOMAIN arr[a].cmds
    BY <1>0, <2>2, <2>3
  <2> HIDE DEF new
  <2> QED
    BY <1>2, <2>2, <2>4, <2>5 DEF EndsAs
<1>3. ASSUME NEW i \in DOMAIN arr[a].cmds, CommandEnds(a, i)
      PROVE  arr' \in [Apps -> App] /\ (\A b \in Apps : Ends(b))
  <2> DEFINE d == arr[a].cmds[i].download
  <2>0. arr[a].cmds[i] \in Command
    BY <1>0
  <2>1. d \in Downloads /\ arr[a].cmds[i].status = "running"
    BY <2>0, <1>3 DEF CommandEnds, Command
  <2>2. PICK outcome \in Outcomes :
           arr' = [arr EXCEPT
                    ![a].cmds[i].status = IF outcome = "failed" THEN "failed" ELSE "completed",
                    ![a].recorded = IF outcome \in {"part", "all"} THEN @ \cup {d} ELSE @,
                    ![a].complete = IF outcome = "all" THEN @ \cup {d} ELSE @]
    BY <1>3 DEF CommandEnds
  <2>a. arr[a].recorded \cup {d} \in SUBSET Downloads /\ arr[a].complete \cup {d} \in SUBSET Downloads
        /\ arr[a].recorded \in SUBSET Downloads /\ arr[a].complete \in SUBSET Downloads
    BY <1>0, <2>1 DEF App
  <2>3. PICK status \in {"failed", "completed"}, recorded \in SUBSET Downloads, complete \in SUBSET Downloads :
           arr' = [arr EXCEPT ![a] = [arr[a] EXCEPT !.cmds = [arr[a].cmds EXCEPT ![i].status = status],
                                                    !.recorded = recorded, !.complete = complete]]
    <3> HIDE DEF d
    <3>1. CASE outcome = "failed"
      BY <2>2, <2>a, <3>1
    <3>2. CASE outcome = "all"
      BY <2>2, <2>a, <3>2
    <3>3. CASE outcome = "part"
      BY <2>2, <2>a, <3>3
    <3>4. CASE outcome = "nothing"
      BY <2>2, <2>a, <3>4
    <3> QED
      BY <3>1, <3>2, <3>3, <3>4, OutcomesAssumption
  <2> DEFINE cmds == [arr[a].cmds EXCEPT ![i].status = status]
             app == [arr[a] EXCEPT !.cmds = cmds, !.recorded = recorded, !.complete = complete]
  <2>b. cmds \in Seq(Command) /\ EndsAs(arr[a].cmds, cmds)
    BY <1>2, <2>1
  <2> HIDE DEF cmds
  <2>4. app \in App /\ app.cmds = cmds
    BY <1>0, <2>b DEF App
  <2>5. arr' = [arr EXCEPT ![a] = app]
    BY <2>3 DEF cmds
  <2> HIDE DEF app
  <2> QED
    BY <1>1, <2>b, <2>4, <2>5
<1>4. ASSUME NEW i \in DOMAIN arr[a].cmds, AppForgets(a, i)
      PROVE  arr' \in [Apps -> App] /\ (\A b \in Apps : Ends(b))
  <2> DEFINE cmds == [arr[a].cmds EXCEPT ![i].status = "gone"]
             app == [arr[a] EXCEPT !.cmds = cmds]
  <2>1. arr' = [arr EXCEPT ![a] = app]
    BY <1>0, <1>4 DEF AppForgets, App
  <2>2. cmds \in Seq(Command) /\ EndsAs(arr[a].cmds, cmds)
    BY <1>2
  <2> HIDE DEF cmds
  <2>3. app \in App /\ app.cmds = cmds
    BY <1>0, <2>2 DEF App
  <2> HIDE DEF app
  <2> QED
    BY <1>1, <2>1, <2>2, <2>3
<1>5. CASE AppRefreshes(a)
  <2> DEFINE app == [arr[a] EXCEPT !.queue = @ \ arr[a].complete, !.visible = TRUE]
  <2>1. arr' = [arr EXCEPT ![a] = app]
    BY <1>0, <1>5 DEF AppRefreshes, App
  <2>2. app \in App /\ app.cmds = arr[a].cmds
    BY <1>0 DEF App
  <2> HIDE DEF app
  <2> QED
    BY <1>1, <2>1, <2>2 DEF EndsAs
<1>6. CASE AppRestarts(a)
  <2>1. PICK status \in {"orphaned", "gone", "running"} :
          arr' = [arr EXCEPT
            ![a].started = now,
            ![a].visible = FALSE,
            ![a].cmds = [i \in DOMAIN @ |->
                IF @[i].status = "running" THEN [@[i] EXCEPT !.status = status] ELSE @[i]]]
    BY <1>6 DEF AppRestarts
  <2> DEFINE cmds == [i \in DOMAIN arr[a].cmds |->
                        IF arr[a].cmds[i].status = "running"
                        THEN [arr[a].cmds[i] EXCEPT !.status = status] ELSE arr[a].cmds[i]]
             app == [arr[a] EXCEPT !.started = now, !.visible = FALSE, !.cmds = cmds]
  <2>2. arr' = [arr EXCEPT ![a] = app]
    BY <1>0, <2>1 DEF App
  <2>a. \A j \in DOMAIN arr[a].cmds : arr[a].cmds[j] \in Command
    BY <1>0
  <2>b. \A j \in DOMAIN arr[a].cmds : cmds[j] \in Command
    BY <2>a DEF Command
  <2>c. DOMAIN arr[a].cmds = 1 .. Len(arr[a].cmds) /\ Len(arr[a].cmds) \in Nat
    BY <1>0
  <2>3. cmds \in Seq(Command) /\ DOMAIN cmds = DOMAIN arr[a].cmds
    <3>1. cmds \in [1 .. Len(arr[a].cmds) -> Command]
      BY <2>b, <2>c
    <3> HIDE DEF cmds
    <3>2. DOMAIN cmds = DOMAIN arr[a].cmds
      BY <2>c, <3>1
    <3>3. cmds \in Seq(Command)
      BY <2>c, <3>1
    <3> QED
      BY <3>2, <3>3
  <2>4. app \in App /\ app.cmds = cmds
    BY <1>0, <2>3 DEF App
  <2>5. EndsAs(arr[a].cmds, cmds)
    BY <2>a, <2>3 DEF Command, EndsAs
  <2> HIDE DEF cmds, app
  <2> QED
    BY <1>1, <2>2, <2>3, <2>4, <2>5
<1> QED
  BY <1>3, <1>4, <1>5, <1>6 DEF AppStep

----------------------------------------------------------------------------
(* Every post is sent, and taken, once *)

Sends(c, w) ==
    /\ client[c].pc = "answer"
    /\ w.app = client[c].app /\ w.download = client[c].download
    /\ w.kind = "POST" <=> client[c].kind = "import"
    /\ w.post = client[c].post

\* A request on the wire belongs to the client that waits for it, or to nobody.
WireInv ==
    /\ \A w \in wire : w.by = {} \/ \E c \in Clients : w.by = {c}
    /\ \A w \in wire, c \in Clients : w.by = {c} => Sends(c, w)
    /\ \A w \in wire : w.at <= now /\ now - w.at <= MaxDelay

\* A post is waited for by one client, on the wire once and at an app once.
PostsOnce ==
    /\ \A c \in Clients : client[c].pc = "answer" /\ client[c].kind = "import" =>
          client[c].post \in 1 .. asked.posts
    /\ \A c, e \in Clients :
          /\ client[c].pc = "answer" /\ client[c].kind = "import"
          /\ client[e].pc = "answer" /\ client[e].kind = "import"
          /\ client[c].post = client[e].post
          => c = e
    /\ \A w \in wire : w.kind = "POST" => w.post \in 1 .. asked.posts
    /\ \A v, w \in wire : v.kind = "POST" /\ w.kind = "POST" /\ v.post = w.post => v = w
    /\ \A a \in Apps : \A i \in DOMAIN arr[a].cmds : arr[a].cmds[i].post \in 1 .. asked.posts
    /\ \A a \in Apps : \A i, j \in DOMAIN arr[a].cmds :
          arr[a].cmds[i].post = arr[a].cmds[j].post => i = j
    /\ \A w \in wire : w.kind = "POST" =>
          \A i \in DOMAIN arr[w.app].cmds : arr[w.app].cmds[i].post # w.post

\* So an app has no more commands than were sent.
LEMMA PostsBound ==
    ASSUME TypeOK, PostsOnce
    PROVE  CommandsFit
<1> SUFFICES ASSUME NEW a \in Apps
             PROVE  DOMAIN arr[a].cmds \subseteq Ids
  BY DEF CommandsFit
<1> DEFINE cmds == arr[a].cmds
           n == Len(cmds)
<1>1. cmds \in Seq(Command) /\ n \in Nat /\ DOMAIN cmds = 1 .. n
  BY DEF TypeOK, App
<1>2. MaxPosts \in Nat /\ asked.posts \in 0 .. MaxPosts
  BY BoundsAssumption DEF TypeOK
<1>3. \A i, j \in DOMAIN cmds : cmds[i].post = cmds[j].post => i = j
  BY DEF PostsOnce
<1>4. \A i \in DOMAIN cmds : cmds[i].post \in 1 .. MaxPosts
  <2>1. \A i \in DOMAIN cmds : cmds[i] \in Command
    BY <1>1
  <2> QED
    BY <2>1 DEF Command
<1>5. SUFFICES ASSUME n > MaxPosts PROVE FALSE
  BY <1>1, <1>2 DEF Ids
<1> DEFINE f == [i \in 1 .. (MaxPosts + 1) |-> cmds[i].post]
<1>6. f \in [1 .. (MaxPosts + 1) -> 1 .. MaxPosts]
  BY <1>1, <1>2, <1>4, <1>5
<1>7. /\ IsFiniteSet(1 .. (MaxPosts + 1)) /\ Cardinality(1 .. (MaxPosts + 1)) = MaxPosts + 1
      /\ IsFiniteSet(1 .. MaxPosts) /\ Cardinality(1 .. MaxPosts) = MaxPosts
  BY <1>2, FS_Interval
<1>8. \E x, y \in 1 .. (MaxPosts + 1) : x # y /\ f[x] = f[y]
  <2>1. Cardinality(1 .. MaxPosts) < Cardinality(1 .. (MaxPosts + 1))
    BY <1>2, <1>7
  <2> HIDE DEF f
  <2> QED
    BY <1>6, <1>7, <2>1, FS_PigeonHole
<1> QED
  BY <1>1, <1>2, <1>3, <1>5, <1>8

SendInv == TypeInv /\ WireInv /\ PostsOnce

\* The steps of a request that is no action on a download, or not yet one.
QuietStep(c) ==
    \/ StartRequest(c) \/ ReadRow(c)
    \/ LookupSent(c) \/ AskCommand(c) \/ ReadStart(c) \/ ReadQueue(c)
    \/ ReadHistory(c) \/ ReadStartAgain(c) \/ Finish(c) \/ StatusFails(c)
    \/ ForgetBefore(c) \/ WriteRow(c) \/ ForgetAfter(c)

\* The steps of an action before its request is out.
EarlyStep(c) ==
    \/ EnterAction(c) \/ FindDownload(c) \/ GiveUpBeforeSending(c)
    \/ ListCommands(c) \/ CheckGuard(c) \/ CheckRevision(c)

Acting(c) == client[c].pc \in ActionSteps

LEMMA QuietSteps ==
    ASSUME TypeInv, CommandsFit, NEW c \in Clients, QuietStep(c)
    PROVE  /\ UNCHANGED <<wire, arr, now, asked.posts, busy, guards>>
           /\ ~Acting(c) /\ ~Acting(c)'
           /\ Changes(c)
           /\ client'[c].revision \in {0, client[c].revision, revision}
           /\ client'[c].pc = "enter" => ReadRow(c)
<1> DEFINE q == client[c]
           Fine(r) == /\ r.pc \notin ActionSteps
                      /\ r.revision \in {0, q.revision, revision}
                      /\ r.pc = "enter" => ReadRow(c)
<1>1. ClientStep(c)
  BY DEF QuietStep, ClientStep
<1>2. Changes(c)
  BY <1>1, ClientKept
<1>0. /\ client \in [Clients -> Client] /\ q \in Client /\ Idle.pc = "idle" /\ Idle.revision = 0
      /\ asked \in [posts : 0 .. MaxPosts, requests : 0 .. MaxRequests, restarts : 0 .. MaxRestarts]
  BY DEF TypeInv, TypeOK, Idle
<1>3. UNCHANGED <<wire, arr, now, asked.posts, busy, guards>>
  <2>1. CASE StartRequest(c)
    <3>1. asked' = [asked EXCEPT !.requests = @ + 1] /\ UNCHANGED <<wire, arr, now, busy, guards>>
      BY <2>1 DEF StartRequest
    <3> QED
      BY <1>0, <3>1
  <2> QED
    BY <2>1 DEF QuietStep, ReadRow, LookupSent, AskCommand, ReadStart, ReadQueue, ReadHistory,
       ReadStartAgain, Finish, StatusFails, ForgetBefore, WriteRow, ForgetAfter
<1>4. ~Acting(c)
  BY DEF QuietStep, Acting, ActionSteps, StartRequest, ReadRow, LookupSent, AskCommand, ReadStart,
     ReadQueue, ReadHistory, ReadStartAgain, Finish, StatusFails, ForgetBefore, WriteRow, ForgetAfter
<1>5. Fine(client'[c])
  <2>2. ASSUME NEW pc, pc \notin ActionSteps \cup {"enter"}, Goto(c, pc)
        PROVE  Fine(client'[c])
    BY <1>0, <2>2 DEF Goto, Client
  <2>3. ASSUME Moves(c, Idle)
        PROVE  Fine(client'[c])
    BY <1>0, <2>3 DEF Moves, ActionSteps
  <2>4. CASE StartRequest(c)
    <3>1. \/ Goto(c, "forget")
          \/ \E kind \in Kinds, d \in Downloads :
               Moves(c, [Idle EXCEPT !.pc = "row", !.kind = kind, !.download = d, !.revision = revision])
          \/ \E kind \in Kinds, i \in Ids : Moves(c, [Idle EXCEPT !.pc = "row", !.kind = kind, !.id = i])
      BY <2>4, Zenon DEF StartRequest, Moves
    <3>2. ASSUME NEW r, r.pc = "row", r.revision \in {0, revision}, Moves(c, r)
          PROVE  Fine(client'[c])
      BY <1>0, <3>2 DEF Moves, ActionSteps
    <3>3. \A kind, d, i :
             /\ [Idle EXCEPT !.pc = "row", !.kind = kind, !.download = d, !.revision = revision].pc = "row"
             /\ [Idle EXCEPT !.pc = "row", !.kind = kind, !.download = d, !.revision = revision].revision = revision
             /\ [Idle EXCEPT !.pc = "row", !.kind = kind, !.id = i].pc = "row"
             /\ [Idle EXCEPT !.pc = "row", !.kind = kind, !.id = i].revision = 0
      BY DEF Idle
    <3> QED
      BY <2>2, <3>1, <3>2, <3>3 DEF ActionSteps
  <2>5. CASE ReadRow(c)
    <3>1. \/ Moves(c, Idle)
          \/ \E a : \E pc \in {"lookup", "enter"} : Moves(c, [q EXCEPT !.app = a, !.pc = pc])
      BY <2>5, Zenon DEF ReadRow, Moves
    <3>2. CASE \E a : \E pc \in {"lookup", "enter"} : Moves(c, [q EXCEPT !.app = a, !.pc = pc])
      BY <1>0, <2>5, <3>2 DEF Moves, Client, ActionSteps
    <3> QED
      BY <2>3, <3>1, <3>2
  <2>6. CASE LookupSent(c)
    <3> DEFINE entry == sent[q.id]
    <3>1. PICK d, t : d = entry.download /\ t = entry.at
      OBVIOUS
    <3>2. Moves(c, Idle) \/ Moves(c, [q EXCEPT !.pc = "ask", !.download = entry.download, !.at = entry.at])
      BY <2>6, Zenon DEF LookupSent, Moves
    <3>3. Moves(c, Idle) \/ Moves(c, [q EXCEPT !.pc = "ask", !.download = d, !.at = t])
      BY <3>1, <3>2
    <3>4. CASE Moves(c, [q EXCEPT !.pc = "ask", !.download = d, !.at = t])
      BY <1>0, <3>4 DEF Moves, Client, ActionSteps
    <3> QED
      BY <2>3, <3>3, <3>4
  <2>7. CASE AskCommand(c) \/ ReadStart(c) \/ ReadStartAgain(c)
    <3>1. ASSUME NEW result, Conclude(c, result)
          PROVE  Fine(client'[c])
      BY <1>0, <3>1 DEF Conclude, Client, ActionSteps
    <3>2. CASE AskCommand(c)
      <4>1. Conclude(c, "unknown") \/ Conclude(c, "failed") \/ Moves(c, Idle) \/ Goto(c, "start")
        BY <3>2, Zenon DEF AskCommand, Moves
      <4> QED
        BY <2>2, <2>3, <3>1, <4>1 DEF ActionSteps
    <3>3. CASE ReadStart(c)
      <4>1. PICK started : started = arr[q.app].started
        OBVIOUS
      <4>2. Conclude(c, "unknown") \/ client' = [client EXCEPT ![c].pc = "queue", ![c].started = started]
        BY <3>3, <4>1 DEF ReadStart
      <4>3. CASE client' = [client EXCEPT ![c].pc = "queue", ![c].started = started]
        BY <1>0, <4>3 DEF Client, ActionSteps
      <4> QED
        BY <3>1, <4>2, <4>3
    <3>4. CASE ReadStartAgain(c)
      <4>1. (\E result : Conclude(c, result)) \/ Moves(c, Idle)
        BY <3>4, Zenon DEF ReadStartAgain, Moves
      <4> QED
        BY <2>3, <3>1, <4>1
    <3> QED
      BY <2>7, <3>2, <3>3, <3>4
  <2>8. CASE ReadQueue(c) \/ ReadHistory(c)
    BY <1>0, <2>8 DEF ReadQueue, ReadHistory, Client, ActionSteps
  <2>9. CASE Finish(c) \/ StatusFails(c) \/ ForgetAfter(c)
    <3>1. Moves(c, Idle)
      BY <2>9 DEF Finish, StatusFails, ForgetAfter, Moves
    <3> QED
      BY <2>3, <3>1
  <2>10. CASE ForgetBefore(c) \/ WriteRow(c)
    <3>1. Goto(c, "write") \/ Goto(c, "forgotten")
      BY <2>10 DEF ForgetBefore, WriteRow
    <3> QED
      BY <2>2, <3>1 DEF ActionSteps
  <2> QED
    BY <2>4, <2>5, <2>6, <2>7, <2>8, <2>9, <2>10 DEF QuietStep
<1> QED
  BY <1>2, <1>3, <1>4, <1>5 DEF Acting

\* An action before its request is out: what becomes of its step and its hold on the download.
LEMMA EarlySteps ==
    ASSUME TypeInv, CommandsFit, NEW c \in Clients, EarlyStep(c)
    PROVE  /\ UNCHANGED <<wire, arr, now, asked.posts>>
           /\ client[c].pc \in {"enter"} \cup (ActionSteps \ {"send", "answer"})
           /\ Changes(c)
           /\ \/ ~Acting(c) /\ ~Acting(c)' /\ client'[c] = Idle /\ UNCHANGED <<busy, guards>>
              \/ /\ Acting(c) /\ ~Acting(c)' /\ client'[c] = Idle
                 /\ busy' = busy \ {client[c].download}
              \/ /\ ~Acting(c) /\ client'[c] = [client[c] EXCEPT !.pc = "find"]
                 /\ client[c].download \notin busy /\ busy' = busy \cup {client[c].download}
              \/ /\ Acting(c) /\ UNCHANGED busy
                 /\ \/ client'[c] = [client[c] EXCEPT !.pc = "list"]
                    \/ ListCommands(c)
                    \/ /\ CheckGuard(c) /\ ~GuardHolds(c) /\ ~client[c].running
                       /\ client'[c] = [client[c] EXCEPT !.pc = "check"]
                    \/ /\ CheckRevision(c) /\ client[c].revision = revision
                       /\ client'[c] = [client[c] EXCEPT !.pc = "send"]
           /\ ~CheckGuard(c) => UNCHANGED guards
<1> DEFINE q == client[c]
<1>1. Changes(c)
  <2>1. ClientStep(c)
    BY DEF EarlyStep, ClientStep
  <2> QED
    BY <2>1, ClientKept
<1>0. /\ client \in [Clients -> Client] /\ q \in Client /\ Idle.pc = "idle"
  BY DEF TypeInv, TypeOK, Idle
<1>2. /\ UNCHANGED <<wire, arr, now, asked.posts>>
      /\ q.pc \in {"enter"} \cup (ActionSteps \ {"send", "answer"})
      /\ ~CheckGuard(c) => UNCHANGED guards
  BY DEF EarlyStep, EnterAction, FindDownload, GiveUpBeforeSending, ListCommands, CheckGuard, CheckRevision,
     At, ActionSteps
<1>3. ASSUME NEW pc, Goto(c, pc)
      PROVE  client'[c] = [q EXCEPT !.pc = pc]
  BY <1>0, <1>3 DEF Goto
<1>4. ASSUME client' = [client EXCEPT ![c] = Idle]
      PROVE  client'[c] = Idle /\ ~Acting(c)'
  BY <1>0, <1>4 DEF Acting, ActionSteps
<1>5. CASE EnterAction(c)
  <2>1. ~Acting(c) /\ UNCHANGED guards
    BY <1>5 DEF EnterAction, At, Acting, ActionSteps
  <2>2. \/ client' = [client EXCEPT ![c] = Idle] /\ UNCHANGED busy
        \/ Goto(c, "find") /\ q.download \notin busy /\ busy' = busy \cup {q.download}
    BY <1>5 DEF EnterAction
  <2> QED
    BY <1>1, <1>2, <1>3, <1>4, <2>1, <2>2
<1>6. CASE FindDownload(c)
  <2>1. Acting(c) /\ Goto(c, "list") /\ UNCHANGED busy
    BY <1>6 DEF FindDownload, At, Acting, ActionSteps
  <2> QED
    BY <1>1, <1>2, <1>3, <2>1
<1>7. CASE GiveUpBeforeSending(c)
  <2>1. Acting(c) /\ Leave(c)
    BY <1>7 DEF GiveUpBeforeSending, At, Acting, ActionSteps
  <2> QED
    BY <1>1, <1>2, <1>4, <2>1 DEF Leave
<1>8. CASE ListCommands(c)
  <2>1. Acting(c) /\ UNCHANGED busy
    BY <1>8 DEF ListCommands, At, Acting, ActionSteps
  <2> QED
    BY <1>1, <1>2, <1>8, <2>1
<1>9. CASE CheckGuard(c)
  <2>1. Acting(c) /\ (Leave(c) \/ (Goto(c, "check") /\ UNCHANGED busy /\ ~GuardHolds(c) /\ ~q.running))
    BY <1>9 DEF CheckGuard, At, Acting, ActionSteps
  <2> QED
    BY <1>1, <1>2, <1>3, <1>4, <1>9, <2>1 DEF Leave
<1>10. CASE CheckRevision(c)
  <2>1. Acting(c) /\ (Leave(c) \/ (Goto(c, "send") /\ UNCHANGED busy /\ q.revision = revision))
    BY <1>10 DEF CheckRevision, At, Acting, ActionSteps
  <2> QED
    BY <1>1, <1>2, <1>3, <1>4, <1>10, <2>1 DEF Leave
<1> QED
  BY <1>5, <1>6, <1>7, <1>8, <1>9, <1>10 DEF EarlyStep

\* The steps of a request before and after its own request is out.
CalmStep(c) == QuietStep(c) \/ EarlyStep(c)

LEMMA CalmSteps ==
    ASSUME TypeInv, CommandsFit, NEW c \in Clients, CalmStep(c)
    PROVE  /\ UNCHANGED <<wire, arr, now, asked.posts>>
           /\ client[c].pc # "answer" /\ client'[c].pc # "answer"
           /\ Changes(c)
<1>1. CASE QuietStep(c)
  BY <1>1, QuietSteps DEF Acting, ActionSteps
<1>2. CASE EarlyStep(c)
  <2>1. ASSUME ListCommands(c)
        PROVE  client'[c].pc # "answer"
    BY <2>1 DEF ListCommands, TypeInv, TypeOK, Client
  <2>2. client[c] \in Client
    BY DEF TypeInv, TypeOK
  <2>3. \A pc : [client[c] EXCEPT !.pc = pc].pc = pc
    BY <2>2 DEF Client
  <2>4. ~Acting(c)' => client'[c].pc # "answer"
    BY DEF Acting, ActionSteps
  <2> QED
    BY <1>2, <2>1, <2>3, <2>4, EarlySteps
<1> QED
  BY <1>1, <1>2 DEF CalmStep

\* The steps that end a request which was sent.
LastStep(c) ==
    NotTaken(c) \/ ImportAnswered(c) \/ ImportAnswerLost(c) \/ DiscardAnswered(c) \/ DiscardAnswerLost(c)

LEMMA LastSteps ==
    ASSUME SendInv, NEW c \in Clients, LastStep(c)
    PROVE  /\ UNCHANGED <<arr, now, asked>>
           /\ client[c].pc = "answer" /\ client' = [client EXCEPT ![c] = Idle]
           /\ Changes(c)
           /\ busy' = busy \ {client[c].download}
           /\ \/ wire' = wire /\ Waiting(c) = {}
              \/ wire' = wire \ Waiting(c)
              \/ wire' = (wire \ Waiting(c)) \cup {[w EXCEPT !.by = {}] : w \in Waiting(c)}
<1>1. Changes(c)
  BY ClientKept, PostsBound DEF LastStep, ClientStep, SendInv, TypeInv
<1>2. /\ UNCHANGED <<arr, now, asked>>
      /\ client[c].pc = "answer" /\ client' = [client EXCEPT ![c] = Idle]
      /\ busy' = busy \ {client[c].download}
  BY DEF LastStep, NotTaken, ImportAnswered, ImportAnswerLost, DiscardAnswered, DiscardAnswerLost, Leave, At
<1>3. CASE ImportAnswered(c)
  <2>1. client[c].app \in Apps
    BY <1>2 DEF SendInv, TypeInv, RequestsFit, Fits, ActionSteps
  <2>2. Waiting(c) = {}
    <3>1. SUFFICES ASSUME NEW w \in wire, w.by = {c} PROVE FALSE
      BY DEF Waiting
    <3>2. w.kind = "POST" /\ w.app = client[c].app /\ w.post = client[c].post
      BY <1>3, <3>1 DEF ImportAnswered, At, SendInv, WireInv, Sends
    <3>3. PICK i \in DOMAIN arr[client[c].app].cmds : arr[client[c].app].cmds[i].post = client[c].post
      BY <1>3 DEF ImportAnswered, Taken
    <3> QED
      BY <3>2, <3>3 DEF SendInv, PostsOnce
  <2> QED
    BY <1>1, <1>2, <1>3, <2>2 DEF ImportAnswered
<1>4. CASE NotTaken(c)
  BY <1>1, <1>2, <1>4 DEF NotTaken
<1>5. CASE ImportAnswerLost(c)
  BY <1>1, <1>2, <1>5 DEF ImportAnswerLost, At
<1>6. CASE DiscardAnswered(c)
  BY <1>1, <1>2, <1>6 DEF DiscardAnswered
<1>7. CASE DiscardAnswerLost(c)
  BY <1>1, <1>2, <1>7 DEF DiscardAnswerLost
<1> QED
  BY <1>3, <1>4, <1>5, <1>6, <1>7 DEF LastStep

LEMMA SendWire ==
    ASSUME SendInv, NEW c \in Clients, SendRequest(c)
    PROVE  /\ Changes(c) /\ UNCHANGED <<arr, now, busy, guards>>
           /\ \E w \in wire' :
                 /\ wire' = wire \cup {w} /\ w.by = {c} /\ w.at = now
                 /\ Sends(c, w)'
                 /\ client[c].app = w.app /\ client[c].download = w.download
                 /\ client'[c].kind = client[c].kind /\ client'[c].app = client[c].app
                 /\ client'[c].download = client[c].download /\ client'[c].listed = client[c].listed
                 /\ client[c].kind = "import" =>
                       asked'.posts = asked.posts + 1 /\ w.post = asked.posts + 1
                 /\ client[c].kind # "import" => asked'.posts = asked.posts
           /\ client[c].pc = "send" /\ client[c].kind \in Actions /\ asked.posts \in Nat
<1> DEFINE q == client[c]
           new == IF q.kind = "import" THEN asked.posts + 1 ELSE 0
<1>a. PICK post : post = new
  OBVIOUS
<1>b. PICK w : w = [kind |-> IF q.kind = "import" THEN "POST" ELSE "DELETE",
                    app |-> q.app, download |-> q.download, post |-> post, at |-> now, by |-> {c}]
  OBVIOUS
<1>0. /\ client \in [Clients -> Client] /\ q \in Client
      /\ asked \in [posts : 0 .. MaxPosts, requests : 0 .. MaxRequests, restarts : 0 .. MaxRestarts]
  BY DEF SendInv, TypeInv, TypeOK
<1>1. Changes(c)
  BY ClientKept, PostsBound DEF ClientStep, SendInv, TypeInv
<1>2. /\ wire' = wire \cup {w}
      /\ client' = [client EXCEPT ![c].pc = "answer", ![c].post = post]
      /\ asked' = [asked EXCEPT !.posts = IF q.kind = "import" THEN @ + 1 ELSE @]
      /\ UNCHANGED <<arr, now, busy, guards>> /\ q.pc = "send" /\ q.kind \in Actions
  BY <1>a, <1>b DEF SendRequest, At
<1>3. client'[c] = [q EXCEPT !.pc = "answer", !.post = post]
  BY <1>0, <1>2
<1>4. /\ client'[c].pc = "answer" /\ client'[c].post = post /\ client'[c].kind = q.kind
      /\ client'[c].app = q.app /\ client'[c].download = q.download /\ client'[c].listed = q.listed
  BY <1>0, <1>3 DEF Client
<1>5. /\ w.by = {c} /\ w.at = now /\ w.post = post /\ w.app = q.app /\ w.download = q.download
      /\ w.kind = "POST" <=> q.kind = "import"
  BY <1>b
<1>6. /\ q.kind = "import" => asked'.posts = asked.posts + 1 /\ post = asked.posts + 1
      /\ q.kind # "import" => asked'.posts = asked.posts
      /\ asked.posts \in Nat
  BY <1>0, <1>2, <1>a, BoundsAssumption
<1>7. Sends(c, w)'
  BY <1>4, <1>5 DEF Sends
<1> QED
  BY <1>1, <1>2, <1>4, <1>5, <1>6, <1>7

\* A request that reaches the app.
LEMMA TakenOnce ==
    ASSUME SendInv, NEW w \in wire, AppTakes(w)
    PROVE  /\ wire' = wire \ {w} /\ UNCHANGED <<client, now, asked, busy, guards>>
           /\ arr' \in [Apps -> App]
           /\ w.app \in Apps /\ w.download \in Downloads
           /\ \A a \in Apps : a # w.app \/ w.kind # "POST" => arr'[a].cmds = arr[a].cmds
           /\ w.kind = "POST" =>
                 arr'[w.app].cmds = Append(arr[w.app].cmds,
                    [download |-> w.download, post |-> w.post, at |-> now, status |-> "running"])
<1>0. /\ arr \in [Apps -> App] /\ w \in Request /\ now \in Times
      /\ w.kind = "POST" => w.post \in 1 .. asked.posts /\ asked.posts \in 0 .. MaxPosts
  BY DEF SendInv, TypeInv, TypeOK, PostsOnce
<1>a. w.app \in Apps /\ w.download \in Downloads /\ w.kind \in {"POST", "DELETE"}
  BY <1>0 DEF Request
<1>1. CASE w.kind = "POST"
  <2> DEFINE command == [download |-> w.download, post |-> w.post, at |-> now, status |-> "running"]
             cmds == Append(arr[w.app].cmds, command)
             app == [arr[w.app] EXCEPT !.cmds = cmds]
  <2>1. command \in Command
    BY <1>0, <1>1, <1>a, BoundsAssumption DEF Command
  <2>2. arr[w.app] \in App /\ arr[w.app].cmds \in Seq(Command)
    BY <1>0, <1>a DEF App
  <2>3. cmds \in Seq(Command)
    BY <2>1, <2>2
  <2>4. arr' = [arr EXCEPT ![w.app] = app]
    BY <1>0, <1>1, <1>a DEF AppTakes, App
  <2> HIDE DEF cmds
  <2>5. app \in App /\ app.cmds = cmds
    BY <2>2, <2>3 DEF App
  <2> HIDE DEF app
  <2>6. arr' \in [Apps -> App] /\ arr'[w.app].cmds = cmds /\ \A a \in Apps \ {w.app} : arr'[a] = arr[a]
    BY <1>0, <1>a, <2>4, <2>5
  <2>7. wire' = wire \ {w} /\ UNCHANGED <<client, now, asked, busy, guards>>
    BY DEF AppTakes
  <2> QED
    BY <1>1, <1>a, <2>6, <2>7 DEF cmds
<1>2. CASE w.kind # "POST"
  <2> DEFINE app == [arr[w.app] EXCEPT !.queue = @ \ {w.download}]
  <2>1. arr' = [arr EXCEPT ![w.app] = app]
    BY <1>0, <1>2, <1>a DEF AppTakes, App
  <2>2. app \in App /\ app.cmds = arr[w.app].cmds
    BY <1>0, <1>a DEF App
  <2> HIDE DEF app
  <2>3. wire' = wire \ {w} /\ UNCHANGED <<client, now, asked, busy, guards>>
    BY DEF AppTakes
  <2> QED
    BY <1>0, <1>2, <1>a, <2>1, <2>2, <2>3
<1> QED
  BY <1>1, <1>2

\* v is what client c leaves of request w when it stops waiting.
Left(c, w, v) ==
    /\ v.kind = w.kind /\ v.app = w.app /\ v.download = w.download
    /\ v.post = w.post /\ v.at = w.at
    /\ \/ w.by # {c} /\ v = w
       \/ w.by = {c} /\ v.by = {} /\ v = [w EXCEPT !.by = {}]

\* What a client leaves on the wire; only a lost answer to an import leaves a post, and a guard.
LEMMA LastLeaves ==
    ASSUME SendInv, NEW c \in Clients, LastStep(c)
    PROVE  /\ \A v \in wire' : \E w \in wire : Left(c, w, v)
           /\ \/ UNCHANGED guards /\ ~ImportAnswerLost(c)
              \/ client[c].kind = "import" /\ \E before :
                   guards' = [guards EXCEPT ![<<client[c].app, client[c].download>>] =
                                 [at |-> now, before |-> before]]
                   /\ (ImportAnswerLost(c) => before = client[c].listed)
<1>1. \/ wire' = wire /\ Waiting(c) = {}
      \/ wire' = wire \ Waiting(c)
      \/ wire' = (wire \ Waiting(c)) \cup {[w EXCEPT !.by = {}] : w \in Waiting(c)}
  BY LastSteps
<1>2. ASSUME NEW v \in wire' PROVE \E w \in wire : Left(c, w, v)
  <2>1. v \in wire \ Waiting(c) \/ \E w \in Waiting(c) : v = [w EXCEPT !.by = {}]
    BY <1>1
  <2>2. CASE v \in wire \ Waiting(c)
    BY <2>2 DEF Waiting, Left
  <2>3. ASSUME NEW w \in Waiting(c), v = [w EXCEPT !.by = {}]
        PROVE  \E u \in wire : Left(c, u, v)
    <3>1. w \in wire /\ w \in Request /\ w.by = {c}
      BY DEF Waiting, SendInv, TypeInv, TypeOK
    <3>2. /\ v.kind = w.kind /\ v.app = w.app /\ v.download = w.download
          /\ v.post = w.post /\ v.at = w.at /\ v.by = {}
      BY <2>3, <3>1 DEF Request
    <3> QED
      BY <2>3, <3>1, <3>2 DEF Left
  <2> QED
    BY <2>1, <2>2, <2>3
<1>3. CASE NotTaken(c) \/ DiscardAnswered(c) \/ DiscardAnswerLost(c)
  <2>1. UNCHANGED guards
    BY <1>3 DEF NotTaken, DiscardAnswered, DiscardAnswerLost
  <2>2. CASE ImportAnswerLost(c)
    BY <1>2, <2>2 DEF ImportAnswerLost, SetGuard, At
  <2> QED
    BY <1>2, <2>1, <2>2
<1>4. CASE ImportAnswerLost(c)
  BY <1>2, <1>4 DEF ImportAnswerLost, SetGuard, At
<1>5. CASE ImportAnswered(c) /\ ~ImportAnswerLost(c)
  <2>1. client[c].kind = "import" /\ (UNCHANGED guards \/ \E i \in Taken(c) : SetGuard(c, client[c].listed \ {i}))
    BY <1>5 DEF ImportAnswered, At
  <2> QED
    BY <1>2, <1>5, <2>1 DEF SetGuard
<1> QED
  BY <1>3, <1>4, <1>5 DEF LastStep

\* Every step keeps requests and posts apart.
LEMMA WireKept ==
    ASSUME SendInv, [Next]_vars
    PROVE  WireInv' /\ PostsOnce'
<1>0. /\ client \in [Clients -> Client] /\ arr \in [Apps -> App] /\ wire \subseteq Request
      /\ now \in Nat /\ asked.posts \in Nat /\ CommandsFit
      /\ \A a \in Apps : arr[a].cmds \in Seq(Command)
      /\ Idle.pc = "idle"
  BY PostsBound, BoundsAssumption DEF SendInv, TypeInv, TypeOK, Times, App, Idle
<1>w. WireInv /\ PostsOnce
  BY DEF SendInv
<1>1. ASSUME NEW c \in Clients, CalmStep(c)
      PROVE  WireInv' /\ PostsOnce'
  <2>1. /\ wire' = wire /\ arr' = arr /\ now' = now /\ asked'.posts = asked.posts
        /\ client[c].pc # "answer" /\ client'[c].pc # "answer"
        /\ \A e \in Clients \ {c} : client'[e] = client[e]
    BY <1>0, <1>1, CalmSteps DEF SendInv, Changes
  <2>2. WireInv'
    BY <1>w, <2>1 DEF WireInv, Sends
  <2>3. PostsOnce'
    BY <1>w, <2>1 DEF PostsOnce
  <2> QED
    BY <2>2, <2>3
<1>2. ASSUME NEW c \in Clients, LastStep(c)
      PROVE  WireInv' /\ PostsOnce'
  <2>1. /\ arr' = arr /\ now' = now /\ asked' = asked /\ client[c].pc = "answer"
        /\ client'[c].pc # "answer"
        /\ \A e \in Clients \ {c} : client'[e] = client[e]
        /\ \/ wire' = wire /\ Waiting(c) = {}
           \/ wire' = wire \ Waiting(c)
           \/ wire' = (wire \ Waiting(c)) \cup {[w EXCEPT !.by = {}] : w \in Waiting(c)}
    BY <1>0, <1>2, LastSteps DEF Changes
  <2>2. \A v \in wire' : \E w \in wire : Left(c, w, v)
    BY <1>2, LastLeaves
  <2>3. \A v \in wire', w \in wire : Left(c, w, v) =>
           v = w \/ (v.by = {} /\ w.by = {c} /\ v = [w EXCEPT !.by = {}])
    BY DEF Left
  <2>4. WireInv'
    <3>1. \A v \in wire' : v.by = {} \/ \E e \in Clients : v.by = {e}
      BY <1>w, <2>2, <2>3 DEF WireInv
    <3>2. \A v \in wire', e \in Clients : v.by = {e} => Sends(e, v)'
      <4>1. SUFFICES ASSUME NEW v \in wire', NEW e \in Clients, v.by = {e} PROVE Sends(e, v)'
        OBVIOUS
      <4>2. PICK w \in wire : Left(c, w, v)
        BY <2>2
      <4>3. e # c /\ v = w
        BY <2>3, <4>1, <4>2 DEF Left
      <4>4. Sends(e, w)
        BY <1>w, <4>1, <4>3 DEF WireInv
      <4> QED
        BY <2>1, <4>3, <4>4 DEF Sends
    <3>3. \A v \in wire' : v.at <= now' /\ now' - v.at <= MaxDelay
      <4>1. SUFFICES ASSUME NEW v \in wire' PROVE v.at <= now' /\ now' - v.at <= MaxDelay
        OBVIOUS
      <4>2. PICK w \in wire : Left(c, w, v)
        BY <2>2
      <4>3. v.at = w.at
        BY <4>2 DEF Left
      <4> QED
        BY <1>w, <2>1, <4>3 DEF WireInv
    <3> QED
      BY <3>1, <3>2, <3>3 DEF WireInv
  <2>5. PostsOnce'
    <3>0. \A v \in wire' : \E w \in wire : Left(c, w, v) /\ v.kind = w.kind /\ v.post = w.post /\ v.app = w.app
      BY <2>2 DEF Left
    <3>1. \A v, w \in wire' : v.kind = "POST" /\ w.kind = "POST" /\ v.post = w.post => v = w
      <4>1. SUFFICES ASSUME NEW v \in wire', NEW w \in wire', v.kind = "POST", w.kind = "POST",
                            v.post = w.post
                     PROVE  v = w
        OBVIOUS
      <4>2. PICK x \in wire : Left(c, x, v) /\ v.kind = x.kind /\ v.post = x.post
        BY <3>0
      <4>3. PICK y \in wire : Left(c, y, w) /\ w.kind = y.kind /\ w.post = y.post
        BY <3>0
      <4>4. x = y
        BY <1>w, <4>1, <4>2, <4>3 DEF PostsOnce
      <4> QED
        BY <4>2, <4>3, <4>4 DEF Left
    <3>2. \A v \in wire' : v.kind = "POST" => v.post \in 1 .. asked.posts
      BY <1>w, <3>0 DEF PostsOnce
    <3>3. \A v \in wire' : v.kind = "POST" =>
            \A i \in DOMAIN arr[v.app].cmds : arr[v.app].cmds[i].post # v.post
      <4>1. SUFFICES ASSUME NEW v \in wire', v.kind = "POST", NEW i \in DOMAIN arr[v.app].cmds
                     PROVE  arr[v.app].cmds[i].post # v.post
        OBVIOUS
      <4>2. PICK w \in wire : v.kind = w.kind /\ v.post = w.post /\ v.app = w.app
        BY <3>0
      <4> QED
        BY <1>w, <4>1, <4>2 DEF PostsOnce
    <3>4. \A e \in Clients : client'[e].pc = "answer" => e # c /\ client'[e] = client[e]
      BY <2>1
    <3> QED
      BY <1>w, <2>1, <3>1, <3>2, <3>3, <3>4 DEF PostsOnce
  <2> QED
    BY <2>4, <2>5
<1>3. ASSUME NEW c \in Clients, SendRequest(c)
      PROVE  WireInv' /\ PostsOnce'
  <2>1. PICK w \in wire' :
           /\ wire' = wire \cup {w} /\ w.by = {c} /\ w.at = now
           /\ Sends(c, w)'
           /\ client[c].app = w.app /\ client[c].download = w.download
           /\ client'[c].kind = client[c].kind /\ client'[c].app = client[c].app
           /\ client'[c].download = client[c].download /\ client'[c].listed = client[c].listed
           /\ client[c].kind = "import" => asked'.posts = asked.posts + 1 /\ w.post = asked.posts + 1
           /\ client[c].kind # "import" => asked'.posts = asked.posts
    BY <1>3, SendWire
  <2>2. /\ arr' = arr /\ now' = now /\ client[c].pc = "send"
        /\ \A e \in Clients \ {c} : client'[e] = client[e]
    BY <1>3, SendWire DEF Changes
  <2>3. WireInv'
    <3>1. \A v \in wire', e \in Clients : v.by = {e} => Sends(e, v)'
      <4>1. \A v \in wire, e \in Clients : v.by = {e} => e # c /\ Sends(e, v)
        BY <1>w, <2>2 DEF WireInv, Sends
      <4>2. \A v \in wire, e \in Clients : v.by = {e} => Sends(e, v)'
        BY <2>2, <4>1 DEF Sends
      <4> QED
        BY <2>1, <4>2
    <3>2. 0 <= MaxDelay
      BY TimesAssumption
    <3>3. \A v \in wire' : v \in wire \/ v = w
      BY <2>1
    <3>4. \A v \in wire' : v.by = {} \/ \E e \in Clients : v.by = {e}
      BY <1>w, <2>1, <3>3 DEF WireInv
    <3>5. \A v \in wire' : v.at <= now' /\ now' - v.at <= MaxDelay
      <4>1. w.at <= now' /\ now' - w.at <= MaxDelay
        BY <1>0, <2>1, <2>2, <3>2, TimesAssumption
      <4>2. \A v \in wire : v.at <= now' /\ now' - v.at <= MaxDelay
        BY <1>w, <2>2 DEF WireInv
      <4> QED
        BY <3>3, <4>1, <4>2
    <3> QED
      BY <3>1, <3>4, <3>5 DEF WireInv
  <2>4. PostsOnce'
    <3> DEFINE n == asked.posts
    <3>1. asked'.posts \in {n, n + 1}
      BY <2>1
    <3>2. \A x \in 1 .. n : x \in 1 .. asked'.posts /\ x # n + 1
      BY <1>0, <3>1
    <3>3. client'[c].post = w.post /\ (w.kind = "POST" <=> client[c].kind = "import")
          /\ client'[c].pc = "answer"
      BY <2>1 DEF Sends
    <3>4. \A e \in Clients : client'[e].pc = "answer" /\ client'[e].kind = "import" =>
             client'[e].post \in 1 .. asked'.posts
      BY <1>0, <1>w, <2>1, <2>2, <3>2, <3>3 DEF PostsOnce
    <3>5. \A d, e \in Clients :
             /\ client'[d].pc = "answer" /\ client'[d].kind = "import"
             /\ client'[e].pc = "answer" /\ client'[e].kind = "import"
             /\ client'[d].post = client'[e].post
             => d = e
      BY <1>0, <1>w, <2>1, <2>2, <3>2, <3>3 DEF PostsOnce
    <3>6. \A v \in wire' : v.kind = "POST" => v.post \in 1 .. asked'.posts
      BY <1>0, <1>w, <2>1, <3>2, <3>3 DEF PostsOnce
    <3>7. \A u, v \in wire' : u.kind = "POST" /\ v.kind = "POST" /\ u.post = v.post => u = v
      BY <1>0, <1>w, <2>1, <3>2, <3>3 DEF PostsOnce
    <3>8. \A a \in Apps : \A i \in DOMAIN arr'[a].cmds : arr'[a].cmds[i].post \in 1 .. asked'.posts
      BY <1>w, <2>2, <3>2 DEF PostsOnce
    <3>9. \A v \in wire' : v.kind = "POST" =>
            \A i \in DOMAIN arr'[v.app].cmds : arr'[v.app].cmds[i].post # v.post
      <4>1. w.app \in Apps
        BY <2>1, <2>2 DEF SendInv, TypeInv, RequestsFit, Fits, ActionSteps
      <4>2. \A v \in wire : v.kind = "POST" =>
              \A i \in DOMAIN arr'[v.app].cmds : arr'[v.app].cmds[i].post # v.post
        BY <1>w, <2>2 DEF PostsOnce
      <4>3. w.kind = "POST" => \A i \in DOMAIN arr'[w.app].cmds : arr'[w.app].cmds[i].post # w.post
        BY <1>w, <2>1, <2>2, <3>2, <3>3, <4>1 DEF PostsOnce
      <4> QED
        BY <2>1, <4>2, <4>3
    <3>10. \A a \in Apps : \A i, j \in DOMAIN arr'[a].cmds :
             arr'[a].cmds[i].post = arr'[a].cmds[j].post => i = j
      BY <1>w, <2>2 DEF PostsOnce
    <3> HIDE DEF n
    <3> QED
      BY <3>4, <3>5, <3>6, <3>7, <3>8, <3>9, <3>10 DEF PostsOnce
  <2> QED
    BY <2>3, <2>4
<1>4. ASSUME NEW w \in wire, AppTakes(w)
      PROVE  WireInv' /\ PostsOnce'
  <2>1. /\ wire' = wire \ {w} /\ UNCHANGED <<client, now, asked>>
        /\ w.app \in Apps
        /\ \A a \in Apps : a # w.app \/ w.kind # "POST" => arr'[a].cmds = arr[a].cmds
        /\ w.kind = "POST" =>
              arr'[w.app].cmds = Append(arr[w.app].cmds,
                 [download |-> w.download, post |-> w.post, at |-> now, status |-> "running"])
    BY <1>4, TakenOnce
  <2>2. WireInv'
    BY <1>w, <2>1 DEF WireInv, Sends
  <2>3. CASE w.kind # "POST"
    <3>1. \A a \in Apps : arr'[a].cmds = arr[a].cmds
      BY <2>1, <2>3
    <3>2. \A v \in wire : v.app \in Apps
      BY <1>0 DEF Request
    <3> QED
      BY <1>w, <2>1, <2>2, <3>1, <3>2 DEF PostsOnce
  <2>4. CASE w.kind = "POST"
    <3> DEFINE a == w.app
               n == Len(arr[a].cmds)
    <3>1. /\ n \in Nat /\ DOMAIN arr[a].cmds = 1 .. n /\ DOMAIN arr'[a].cmds = 1 .. (n + 1)
          /\ arr'[a].cmds[n + 1].post = w.post
          /\ \A i \in 1 .. n : arr'[a].cmds[i] = arr[a].cmds[i]
      BY <1>0, <2>1, <2>4
    <3>2. \A i \in 1 .. (n + 1) : i \in 1 .. n \/ i = n + 1
      BY <3>1
    <3>3. \A i \in 1 .. n : arr[a].cmds[i].post # w.post
      BY <1>w, <2>4, <3>1 DEF PostsOnce
    <3>4. w.post \in 1 .. asked.posts
      BY <1>w, <2>4 DEF PostsOnce
    <3>5. \A i \in DOMAIN arr'[a].cmds : arr'[a].cmds[i].post \in 1 .. asked.posts
      BY <1>w, <2>1, <3>1, <3>2, <3>4 DEF PostsOnce
    <3>6. \A i, j \in DOMAIN arr'[a].cmds : arr'[a].cmds[i].post = arr'[a].cmds[j].post => i = j
      <4>1. \A i, j \in 1 .. n : arr[a].cmds[i].post = arr[a].cmds[j].post => i = j
        BY <1>w, <2>1, <3>1 DEF PostsOnce
      <4> HIDE DEF n
      <4> QED
        BY <3>1, <3>2, <3>3, <4>1
    <3>7. \A v \in wire' : v.kind = "POST" =>
            \A i \in DOMAIN arr'[v.app].cmds : arr'[v.app].cmds[i].post # v.post
      <4>1. SUFFICES ASSUME NEW v \in wire', v.kind = "POST", NEW i \in DOMAIN arr'[v.app].cmds
                     PROVE  arr'[v.app].cmds[i].post # v.post
        OBVIOUS
      <4>2. v \in wire /\ v.post # w.post /\ v.app \in Apps
        BY <1>0, <1>w, <2>1, <2>4, <4>1 DEF PostsOnce, Request
      <4>3. CASE v.app = a
        <5>1. i \in 1 .. n \/ i = n + 1
          BY <3>1, <3>2, <4>1, <4>3
        <5>2. CASE i = n + 1
          BY <3>1, <4>2, <4>3, <5>2
        <5>3. CASE i \in 1 .. n
          <6>1. arr'[v.app].cmds[i] = arr[v.app].cmds[i] /\ i \in DOMAIN arr[v.app].cmds
            BY <3>1, <4>3, <5>3
          <6> QED
            BY <1>w, <4>1, <4>2, <6>1 DEF PostsOnce
        <5> QED
          BY <5>1, <5>2, <5>3
      <4>4. CASE v.app # a
        BY <1>w, <2>1, <4>1, <4>2, <4>4 DEF PostsOnce
      <4> QED
        BY <4>3, <4>4
    <3> QED
      BY <1>w, <2>1, <2>2, <3>5, <3>6, <3>7 DEF PostsOnce
  <2> QED
    BY <2>3, <2>4
<1>5. ASSUME NEW a \in Apps, AppStep(a)
      PROVE  WireInv' /\ PostsOnce'
  <2>1. UNCHANGED <<wire, client, now, asked.posts>>
    <3>1. CASE AppRestarts(a)
      BY <3>1, BoundsAssumption DEF AppRestarts, SendInv, TypeInv, TypeOK
    <3> QED
      BY <1>5, <3>1 DEF AppStep, CommandEnds, AppForgets, AppRefreshes
  <2>2. \A b \in Apps : Ends(b)
    BY <1>0, <1>5, AppsKept DEF SendInv, TypeInv, TypeOK
  <2>3. \A v \in wire : v.app \in Apps
    BY <1>0 DEF Request
  <2>4. WireInv'
    BY <1>w, <2>1 DEF WireInv, Sends
  <2>5. PostsOnce'
    <3>1. \A b \in Apps : DOMAIN arr'[b].cmds = DOMAIN arr[b].cmds
            /\ \A i \in DOMAIN arr[b].cmds : arr'[b].cmds[i].post = arr[b].cmds[i].post
      BY <2>2 DEF Ends, EndsAs
    <3>2. \A b \in Apps : \A i \in DOMAIN arr'[b].cmds : arr'[b].cmds[i].post \in 1 .. asked'.posts
      BY <1>w, <2>1, <3>1 DEF PostsOnce
    <3>3. \A b \in Apps : \A i, j \in DOMAIN arr'[b].cmds :
            arr'[b].cmds[i].post = arr'[b].cmds[j].post => i = j
      BY <1>w, <3>1 DEF PostsOnce
    <3>4. \A v \in wire' : v.kind = "POST" =>
            \A i \in DOMAIN arr'[v.app].cmds : arr'[v.app].cmds[i].post # v.post
      BY <1>w, <2>1, <2>3, <3>1 DEF PostsOnce
    <3> QED
      BY <1>w, <2>1, <3>2, <3>3, <3>4 DEF PostsOnce
  <2> QED
    BY <2>4, <2>5
<1>6. CASE Tick
  <2>1. /\ wire' \subseteq wire /\ UNCHANGED <<client, arr, asked>> /\ now' = now + 1
        /\ \A w \in wire' : now' - w.at <= MaxDelay
    BY <1>6 DEF Tick
  <2>2. WireInv'
    <3>1. \A w \in wire : w.at \in Nat
      BY <1>0, BoundsAssumption DEF Request, Times
    <3> QED
      BY <1>0, <1>w, <2>1, <3>1 DEF WireInv, Sends
  <2>3. PostsOnce'
    BY <1>w, <2>1 DEF PostsOnce
  <2> QED
    BY <2>2, <2>3
<1>7. CASE UNCHANGED vars
  <2>1. UNCHANGED <<wire, client, arr, now, asked>>
    BY <1>7 DEF vars
  <2> QED
    BY <1>w, <2>1 DEF WireInv, Sends, PostsOnce
<1> QED
  BY <1>1, <1>2, <1>3, <1>4, <1>5, <1>6, <1>7 DEF Next, ClientStep, CalmStep, QuietStep, EarlyStep, LastStep

LEMMA TypeKept ==
    ASSUME SendInv, [Next]_vars
    PROVE  TypeInv'
<1>0. /\ TypeInv /\ CommandsFit /\ arr \in [Apps -> App] /\ now \in Times
      /\ asked \in [posts : 0 .. MaxPosts, requests : 0 .. MaxRequests, restarts : 0 .. MaxRestarts]
  BY PostsBound DEF SendInv, TypeInv, TypeOK
<1>1. ASSUME NEW c \in Clients, ClientStep(c)
      PROVE  TypeInv'
  BY <1>0, <1>1, ClientKept, StoresKept DEF Changes, TypeInv, TypeOK
<1>2. ASSUME NEW w \in wire, AppTakes(w)
      PROVE  TypeInv'
  <2>1. arr' \in [Apps -> App] /\ wire' = wire \ {w}
        /\ UNCHANGED <<row, revision, busy, guards, sent, client, now, lines, asked>>
    BY <1>2, TakenOnce DEF AppTakes
  <2> QED
    BY <1>0, <2>1 DEF TypeInv, TypeOK, RequestsFit
<1>3. ASSUME NEW a \in Apps, AppStep(a)
      PROVE  TypeInv'
  <2>1. arr' \in [Apps -> App]
    BY <1>0, <1>3, AppsKept
  <2>2. UNCHANGED <<row, revision, busy, guards, sent, client, wire, now, lines>>
    BY <1>3 DEF AppStep, CommandEnds, AppForgets, AppRefreshes, AppRestarts
  <2>3. asked' \in [posts : 0 .. MaxPosts, requests : 0 .. MaxRequests, restarts : 0 .. MaxRestarts]
    <3>1. CASE AppRestarts(a)
      <4>1. asked.restarts + 1 \in 0 .. MaxRestarts
        BY <1>0, <3>1, BoundsAssumption DEF AppRestarts
      <4>2. asked' = [asked EXCEPT !.restarts = asked.restarts + 1]
        BY <3>1 DEF AppRestarts
      <4> QED
        BY <1>0, <4>1, <4>2
    <3> QED
      BY <1>0, <1>3, <3>1 DEF AppStep, CommandEnds, AppForgets, AppRefreshes
  <2> QED
    BY <1>0, <2>1, <2>2, <2>3 DEF TypeInv, TypeOK, RequestsFit
<1>4. CASE Tick
  <2>1. now' \in Times
    BY <1>0, <1>4, BoundsAssumption DEF Tick, Times
  <2>2. wire' \subseteq wire /\ UNCHANGED <<row, revision, busy, guards, sent, client, arr, lines, asked>>
    BY <1>4 DEF Tick
  <2> QED
    BY <1>0, <2>1, <2>2 DEF TypeInv, TypeOK, RequestsFit
<1>5. CASE UNCHANGED vars
  BY <1>0, <1>5 DEF vars, TypeInv, TypeOK, RequestsFit
<1> QED
  BY <1>1, <1>2, <1>3, <1>4, <1>5 DEF Next

LEMMA SendInit ==
    ASSUME Init
    PROVE  SendInv
<1>1. \A a \in Apps : DOMAIN arr[a].cmds = {}
  BY DEF Init
<1>2. wire = {} /\ \A c \in Clients : client[c].pc = "idle"
  BY IdleFits DEF Init
<1>3. WireInv /\ PostsOnce
  BY <1>1, <1>2 DEF WireInv, PostsOnce
<1> QED
  BY <1>3, TypeInit DEF SendInv

\* Everything a variable holds is of its type.
THEOREM TypesHold == Spec => []TypeOK
<1>1. SendInv /\ [Next]_vars => SendInv'
  BY WireKept, TypeKept DEF SendInv
<1>2. SendInv => TypeOK
  BY DEF SendInv, TypeInv
<1> QED
  BY <1>1, <1>2, SendInit, PTL DEF Spec

----------------------------------------------------------------------------
(* One action per download *)

Exclusive ==
    /\ \A c \in Clients : Acting(c) => client[c].download \in busy
    /\ \A c, e \in Clients :
          Acting(c) /\ Acting(e) /\ client[c].download = client[e].download => c = e

LEMMA ExclusiveKept ==
    ASSUME SendInv, Exclusive, [Next]_vars
    PROVE  Exclusive'
<1>0. TypeInv /\ CommandsFit /\ \A c \in Clients : client[c] \in Client
  BY PostsBound DEF SendInv, TypeInv, TypeOK
<1>1. ASSUME UNCHANGED <<client, busy>>
      PROVE  Exclusive'
  BY <1>1 DEF Exclusive, Acting
<1>2. ASSUME NEW c \in Clients, \A e \in Clients \ {c} : client'[e] = client[e],
             \/ ~Acting(c)' /\ UNCHANGED busy
             \/ Acting(c) /\ ~Acting(c)' /\ busy' = busy \ {client[c].download}
             \/ /\ client'[c].download = client[c].download
                /\ client[c].download \notin busy /\ busy' = busy \cup {client[c].download}
             \/ Acting(c) /\ client'[c].download = client[c].download /\ UNCHANGED busy
      PROVE  Exclusive'
  <2>1. \A e \in Clients \ {c} : (Acting(e)' <=> Acting(e)) /\ client'[e].download = client[e].download
    BY <1>2 DEF Acting
  <2>2. ASSUME NEW e \in Clients, Acting(e)'
        PROVE  client'[e].download \in busy'
    <3>1. CASE e = c
      BY <1>2, <2>2, <3>1 DEF Exclusive
    <3>2. CASE e # c
      BY <1>2, <2>1, <2>2, <3>2 DEF Exclusive
    <3> QED
      BY <3>1, <3>2
  <2>3. ASSUME NEW e \in Clients, NEW f \in Clients, Acting(e)', Acting(f)', e # f,
               client'[e].download = client'[f].download
        PROVE  FALSE
    <3>1. e # c \/ f # c
      BY <2>3
    <3>2. CASE e # c /\ f # c
      BY <2>1, <2>3, <3>2 DEF Exclusive
    <3>3. CASE e = c \/ f = c
      BY <1>2, <2>1, <2>3, <3>3 DEF Exclusive
    <3> QED
      BY <3>2, <3>3
  <2> QED
    BY <2>2, <2>3 DEF Exclusive
<1>3. ASSUME NEW c \in Clients, QuietStep(c)
      PROVE  Exclusive'
  BY <1>0, <1>2, <1>3, QuietSteps DEF Changes
<1>4. ASSUME NEW c \in Clients, EarlyStep(c)
      PROVE  Exclusive'
  <2>1. \A pc : [client[c] EXCEPT !.pc = pc].download = client[c].download
    BY <1>0 DEF Client
  <2>2. ListCommands(c) => client'[c].download = client[c].download
    BY DEF ListCommands, SendInv, TypeInv, TypeOK, Client
  <2>3. \A e \in Clients \ {c} : client'[e] = client[e]
    BY <1>0, <1>4, EarlySteps DEF Changes
  <2>4. \/ ~Acting(c)' /\ UNCHANGED busy
        \/ Acting(c) /\ ~Acting(c)' /\ busy' = busy \ {client[c].download}
        \/ /\ client'[c] = [client[c] EXCEPT !.pc = "find"]
           /\ client[c].download \notin busy /\ busy' = busy \cup {client[c].download}
        \/ /\ Acting(c) /\ UNCHANGED busy
           /\ ListCommands(c) \/ \E pc : client'[c] = [client[c] EXCEPT !.pc = pc]
    BY <1>0, <1>4, EarlySteps
  <2> QED
    BY <1>2, <2>1, <2>2, <2>3, <2>4
<1>5. ASSUME NEW c \in Clients, SendRequest(c)
      PROVE  Exclusive'
  <2>1. Acting(c) /\ client'[c].download = client[c].download /\ UNCHANGED busy
    BY <1>5, SendWire DEF Acting, ActionSteps
  <2> QED
    BY <1>2, <1>5, <2>1, SendWire DEF Changes
<1>6. ASSUME NEW c \in Clients, LastStep(c)
      PROVE  Exclusive'
  <2>1. client'[c].pc = "idle" /\ client[c].pc = "answer"
    BY <1>6, LastSteps, IdleFits DEF SendInv, TypeInv, TypeOK
  <2>2. Acting(c) /\ ~Acting(c)' /\ busy' = busy \ {client[c].download}
    BY <1>6, <2>1, LastSteps DEF Acting, ActionSteps
  <2> QED
    BY <1>2, <1>6, <2>2, LastSteps DEF Changes
<1>7. ASSUME NEW w \in wire, AppTakes(w)
      PROVE  Exclusive'
  BY <1>1, <1>7 DEF AppTakes
<1>8. ASSUME NEW a \in Apps, AppStep(a)
      PROVE  Exclusive'
  BY <1>1, <1>8 DEF AppStep, CommandEnds, AppForgets, AppRefreshes, AppRestarts
<1>9. CASE Tick \/ UNCHANGED vars
  BY <1>1, <1>9 DEF Tick, vars
<1> QED
  BY <1>3, <1>4, <1>5, <1>6, <1>7, <1>8, <1>9 DEF Next, ClientStep, QuietStep, EarlyStep, LastStep

----------------------------------------------------------------------------
(* One import command per download *)

Mine(c) == InFlight(client[c].app, client[c].download)
Started(c) == RunningIds(client[c].app, client[c].download)
Seen(c) == Listed(client[c].app, client[c].download) \subseteq client[c].listed

\* What an action knows of its download: between the list and the guard check
\* either the guard will refuse, or nothing is on its way; from there on nothing
\* is, but the action's own request.
ReadyAt(c) ==
    /\ client[c].pc = "guard" =>
          GuardHolds(c) \/ (Mine(c) = {} /\ (Started(c) # {} => client[c].running) /\ Seen(c))
    /\ \/ client[c].pc \in {"check", "send"}
       \/ client[c].pc = "answer" /\ client[c].kind = "discard"
       => Mine(c) = {} /\ Started(c) = {} /\ Seen(c)
    /\ client[c].pc = "answer" /\ client[c].kind = "import" =>
          \A w \in Mine(c) : w.by = {c} /\ Seen(c)

ReadyInv == \A c \in Clients : ReadyAt(c)

\* An import nobody waits for is guarded for longer than it may be under way.
Guarded(w) ==
    LET guard == guards[<<w.app, w.download>>]
    IN  guard # Nothing /\ guard.at >= w.at /\ Listed(w.app, w.download) \subseteq guard.before

GuardInv == \A w \in wire : w.kind = "POST" /\ w.by = {} => Guarded(w)

OneInv ==
    /\ \A v, w \in wire :
          v.kind = "POST" /\ w.kind = "POST" /\ v.app = w.app /\ v.download = w.download => v = w
    /\ \A w \in wire : w.kind = "POST" => RunningIds(w.app, w.download) = {}
    /\ \A a \in Apps, d \in Downloads : \A i, j \in RunningIds(a, d) : i = j

ImportInv == SendInv /\ Exclusive /\ ReadyInv /\ GuardInv /\ OneInv

LEMMA EndsShrink ==
    ASSUME NEW a, NEW d, EndsAs(arr[a].cmds, arr'[a].cmds)
    PROVE  Listed(a, d)' \subseteq Listed(a, d) /\ RunningIds(a, d)' \subseteq RunningIds(a, d)
  BY DEF EndsAs, Listed, RunningIds

\* Nothing new on the key, and the guard untouched: the action knows what it knew.
LEMMA ReadyFrame ==
    ASSUME NEW e \in Clients, ReadyAt(e), client'[e] = client[e], now' = now,
           Acting(e) => guards'[<<client[e].app, client[e].download>>]
                            = guards[<<client[e].app, client[e].download>>],
           Acting(e) => \A w \in wire' :
               w.kind = "POST" /\ w.app = client[e].app /\ w.download = client[e].download => w \in wire,
           Acting(e) => EndsAs(arr[client[e].app].cmds, arr'[client[e].app].cmds)
    PROVE  ReadyAt(e)'
<1>1. CASE ~Acting(e)
  BY <1>1 DEF ReadyAt, Acting, ActionSteps
<1>2. CASE Acting(e)
  <2>1. PICK a, d : a = client[e].app /\ d = client[e].download
    OBVIOUS
  <2>2. InFlight(a, d)' \subseteq InFlight(a, d)
    BY <1>2, <2>1 DEF InFlight
  <2>3. Listed(a, d)' \subseteq Listed(a, d) /\ RunningIds(a, d)' \subseteq RunningIds(a, d)
    BY <1>2, <2>1, EndsShrink
  <2>4. GuardHolds(e)' <=> GuardHolds(e)
    BY <1>2 DEF GuardHolds
  <2>5. /\ Mine(e) = InFlight(a, d) /\ Started(e) = RunningIds(a, d)
        /\ Seen(e) <=> Listed(a, d) \subseteq client[e].listed
    BY <2>1 DEF Mine, Started, Seen
  <2>6. /\ Mine(e)' = InFlight(a, d)' /\ Started(e)' = RunningIds(a, d)'
        /\ Seen(e)' <=> Listed(a, d)' \subseteq client[e].listed
    BY <2>1 DEF Mine, Started, Seen, InFlight, RunningIds, Listed
  <2>7. Mine(e)' \subseteq Mine(e) /\ Started(e)' \subseteq Started(e) /\ (Seen(e) => Seen(e)')
    BY <2>2, <2>3, <2>5, <2>6
  <2> QED
    BY <2>4, <2>7 DEF ReadyAt
<1> QED
  BY <1>1, <1>2

\* What the three parts need when posts only leave the wire and commands only end.
LEMMA OneFrame ==
    ASSUME SendInv, OneInv, wire' \subseteq wire, \A a \in Apps : Ends(a)
    PROVE  OneInv'
<1>1. \A w \in wire : w.app \in Apps /\ w.download \in Downloads
  BY DEF SendInv, TypeInv, TypeOK, Request
<1>2. \A a \in Apps, d \in Downloads : RunningIds(a, d)' \subseteq RunningIds(a, d)
  BY EndsShrink DEF Ends
<1>3. \A w \in wire' : w.kind = "POST" => RunningIds(w.app, w.download)' = {}
  <2>1. SUFFICES ASSUME NEW w \in wire', w.kind = "POST"
                 PROVE  RunningIds(w.app, w.download)' = {}
    OBVIOUS
  <2>2. PICK a \in Apps, d \in Downloads : a = w.app /\ d = w.download
    BY <1>1
  <2>3. RunningIds(a, d) = {}
    BY <2>1, <2>2 DEF OneInv
  <2>4. RunningIds(a, d)' = {}
    BY <1>2, <2>3
  <2> QED
    BY <2>2, <2>4 DEF RunningIds, Listed
<1>4. \A a \in Apps, d \in Downloads : \A i, j \in RunningIds(a, d)' : i = j
  BY <1>2 DEF OneInv
<1> QED
  BY <1>3, <1>4 DEF OneInv

LEMMA GuardFrame ==
    ASSUME SendInv, GuardInv, guards' = guards, wire' \subseteq wire, \A a \in Apps : Ends(a)
    PROVE  GuardInv'
<1>1. SUFFICES ASSUME NEW w \in wire, w.kind = "POST", w.by = {}
               PROVE  Guarded(w)'
  BY DEF GuardInv
<1>2. PICK a \in Apps, d \in Downloads : a = w.app /\ d = w.download
  BY DEF SendInv, TypeInv, TypeOK, Request
<1>3. Listed(a, d)' \subseteq Listed(a, d)
  BY EndsShrink DEF Ends
<1>4. Guarded(w)
  BY <1>1 DEF GuardInv
<1> QED
  BY <1>2, <1>3, <1>4 DEF Guarded, Listed

\* The key of an action is nobody else's.
LEMMA OtherKeys ==
    ASSUME Exclusive, NEW c \in Clients, NEW e \in Clients \ {c}, Acting(c), Acting(e)
    PROVE  client[e].download # client[c].download
  BY DEF Exclusive

\* Without an action under way for it, a post of the download is nobody's, so
\* its guard will refuse the action that is about to look.
LEMMA OrphanRefuses ==
    ASSUME ImportInv, NEW c \in Clients, client[c].pc = "list",
           NEW w \in Mine(c)
    PROVE  LET guard == guards[<<client[c].app, client[c].download>>]
           IN  /\ guard # Nothing /\ now - guard.at < GuardTime
               /\ Listed(client[c].app, client[c].download) \subseteq guard.before
<1> DEFINE guard == guards[<<client[c].app, client[c].download>>]
<1>1. w \in wire /\ w.kind = "POST" /\ w.app = client[c].app /\ w.download = client[c].download
  BY DEF Mine, InFlight
<1>2. w.by = {}
  <2>1. SUFFICES ASSUME NEW e \in Clients, w.by = {e} PROVE FALSE
    BY <1>1 DEF ImportInv, SendInv, WireInv
  <2>2. client[e].pc = "answer" /\ client[e].download = client[c].download
    BY <1>1, <2>1 DEF ImportInv, SendInv, WireInv, Sends
  <2> QED
    BY <2>2 DEF ImportInv, Exclusive, Acting, ActionSteps
<1>3. Guarded(w)
  BY <1>1, <1>2 DEF ImportInv, GuardInv
<1>4. guard # Nothing /\ guard.at >= w.at /\ Listed(client[c].app, client[c].download) \subseteq guard.before
  BY <1>1, <1>3 DEF Guarded
<1>5. now - w.at <= MaxDelay
  BY <1>1 DEF ImportInv, SendInv, WireInv
<1>6. /\ now \in Nat /\ w.at \in Nat /\ guard.at \in Nat
  <2>1. <<client[c].app, client[c].download>> \in Apps \X Downloads
    BY DEF ImportInv, SendInv, TypeInv, RequestsFit, Fits, ActionSteps
  <2>2. guard \in GuardEntry
    BY <1>4, <2>1 DEF ImportInv, SendInv, TypeInv, TypeOK
  <2>3. w \in Request /\ now \in Times
    BY <1>1 DEF ImportInv, SendInv, TypeInv, TypeOK
  <2> QED
    BY <2>2, <2>3, BoundsAssumption DEF GuardEntry, Request, Times
<1> HIDE DEF guard
<1>7. now - guard.at < GuardTime
  BY <1>4, <1>5, <1>6, TimesAssumption
<1> QED
  BY <1>4, <1>7 DEF guard

LEMMA QuietKeeps ==
    ASSUME ImportInv, NEW c \in Clients, QuietStep(c)
    PROVE  ReadyInv' /\ GuardInv' /\ OneInv'
<1>1. /\ UNCHANGED <<wire, arr, now, busy, guards>> /\ ~Acting(c)'
      /\ \A e \in Clients \ {c} : client'[e] = client[e]
  BY QuietSteps, PostsBound DEF ImportInv, SendInv, TypeInv, Changes
<1>2. \A a \in Apps : Ends(a)
  BY <1>1 DEF Ends, EndsAs
<1>3. ASSUME NEW e \in Clients PROVE ReadyAt(e)'
  <2>1. CASE e = c
    BY <1>1, <2>1 DEF ReadyAt, Acting, ActionSteps
  <2>2. CASE e # c
    <3>1. EndsAs(arr[client[e].app].cmds, arr'[client[e].app].cmds)
      BY <1>1 DEF EndsAs
    <3> QED
      BY <1>1, <2>2, <3>1, ReadyFrame DEF ImportInv, ReadyInv
  <2> QED
    BY <2>1, <2>2
<1> QED
  BY <1>1, <1>2, <1>3, GuardFrame, OneFrame DEF ImportInv, ReadyInv

LEMMA EarlyKeeps ==
    ASSUME ImportInv, NEW c \in Clients, EarlyStep(c)
    PROVE  ReadyInv' /\ GuardInv' /\ OneInv'
<1> DEFINE q == client[c]
           Key == <<q.app, q.download>>
<1>0. /\ client \in [Clients -> Client] /\ q \in Client /\ Idle.pc = "idle" /\ Exclusive
      /\ guards \in [Apps \X Downloads -> GuardEntry \cup {Nothing}] /\ Fits(q) /\ ReadyAt(c)
  BY IdleFits DEF ImportInv, SendInv, TypeInv, TypeOK, ReadyInv, RequestsFit
<1>1. /\ UNCHANGED <<wire, arr, now>>
      /\ ~CheckGuard(c) => UNCHANGED guards
      /\ \A e \in Clients \ {c} : client'[e] = client[e]
      /\ \/ ~Acting(c)'
         \/ client'[c] = [q EXCEPT !.pc = "find"] \/ client'[c] = [q EXCEPT !.pc = "list"]
         \/ ListCommands(c)
         \/ CheckGuard(c) /\ ~GuardHolds(c) /\ ~q.running /\ client'[c] = [q EXCEPT !.pc = "check"]
         \/ CheckRevision(c) /\ client'[c] = [q EXCEPT !.pc = "send"]
  BY EarlySteps, PostsBound DEF ImportInv, SendInv, TypeInv, Changes
<1>2. \A a \in Apps : Ends(a)
  BY <1>1 DEF Ends, EndsAs
<1>3. CheckGuard(c) => /\ q.pc = "guard" /\ Acting(c)
                       /\ \/ UNCHANGED guards
                          \/ ~GuardHolds(c) /\ guards' = [guards EXCEPT ![Key] = Nothing]
  BY DEF CheckGuard, At, Acting, ActionSteps
<1>4. ASSUME NEW e \in Clients \ {c} PROVE ReadyAt(e)'
  <2>1. EndsAs(arr[client[e].app].cmds, arr'[client[e].app].cmds)
    BY <1>1 DEF EndsAs
  <2>2. Acting(e) => guards'[<<client[e].app, client[e].download>>]
                        = guards[<<client[e].app, client[e].download>>]
    <3>1. CASE UNCHANGED guards
      BY <3>1
    <3>2. CASE Acting(c) /\ Acting(e) /\ guards' = [guards EXCEPT ![Key] = Nothing]
      <4>1. <<client[e].app, client[e].download>> # Key
        BY <1>0, <3>2, OtherKeys
      <4>2. <<client[e].app, client[e].download>> \in Apps \X Downloads
        BY <3>2 DEF ImportInv, SendInv, TypeInv, RequestsFit, Fits, Acting, ActionSteps
      <4> QED
        BY <1>0, <3>2, <4>1, <4>2
    <3> QED
      BY <1>1, <1>3, <3>1, <3>2
  <2> QED
    BY <1>1, <2>1, <2>2, ReadyFrame DEF ImportInv, ReadyInv
<1>5. ReadyAt(c)'
  <2>1. ASSUME client'[c].pc \notin {"guard", "check", "send", "answer"}
        PROVE  ReadyAt(c)'
    BY <2>1 DEF ReadyAt
  <2>2. CASE ~Acting(c)'
    BY <2>1, <2>2 DEF Acting, ActionSteps
  <2>3. CASE client'[c] = [q EXCEPT !.pc = "find"] \/ client'[c] = [q EXCEPT !.pc = "list"]
    BY <1>0, <2>1, <2>3 DEF Client
  <2>4. ASSUME NEW pc, client'[c] = [q EXCEPT !.pc = pc]
        PROVE  /\ client'[c].pc = pc /\ client'[c].app = q.app /\ client'[c].download = q.download
               /\ client'[c].listed = q.listed /\ client'[c].running = q.running
               /\ Mine(c)' = Mine(c) /\ Started(c)' = Started(c) /\ (Seen(c)' <=> Seen(c))
    <3>1. /\ client'[c].pc = pc /\ client'[c].app = q.app /\ client'[c].download = q.download
          /\ client'[c].listed = q.listed /\ client'[c].running = q.running
      BY <1>0, <2>4 DEF Client
    <3> QED
      BY <1>1, <3>1 DEF Mine, Started, Seen, InFlight, RunningIds, Listed
  <2>5. CASE CheckGuard(c) /\ ~GuardHolds(c) /\ ~q.running /\ client'[c] = [q EXCEPT !.pc = "check"]
    <3>1. Mine(c) = {} /\ Started(c) = {} /\ Seen(c)
      BY <1>0, <1>3, <2>5 DEF ReadyAt
    <3>2. client'[c].pc = "check" /\ Mine(c)' = {} /\ Started(c)' = {} /\ Seen(c)'
      BY <2>4, <2>5, <3>1
    <3> QED
      BY <3>2 DEF ReadyAt
  <2>6. CASE CheckRevision(c) /\ client'[c] = [q EXCEPT !.pc = "send"]
    <3>1. Mine(c) = {} /\ Started(c) = {} /\ Seen(c)
      BY <1>0, <2>6 DEF ReadyAt, CheckRevision, At
    <3>2. client'[c].pc = "send" /\ Mine(c)' = {} /\ Started(c)' = {} /\ Seen(c)'
      BY <2>4, <2>6, <3>1
    <3> QED
      BY <3>2 DEF ReadyAt
  <2>7. CASE ListCommands(c)
    <3> DEFINE seen == Listed(q.app, q.download)
    <3>1. PICK listed, running : listed = seen /\ running = (RunningIds(q.app, q.download) # {})
      OBVIOUS
    <3>2. client' = [client EXCEPT ![c].pc = "guard", ![c].listed = listed, ![c].running = running]
          /\ q.pc = "list" /\ UNCHANGED guards
      BY <2>7, <3>1 DEF ListCommands, At
    <3>3. /\ client'[c].pc = "guard" /\ client'[c].app = q.app /\ client'[c].download = q.download
          /\ client'[c].listed = listed /\ client'[c].running = running
      BY <1>0, <3>2 DEF Client
    <3>4. /\ Mine(c)' = Mine(c) /\ Started(c)' = RunningIds(q.app, q.download)
          /\ Seen(c)' <=> Listed(q.app, q.download) \subseteq listed
      BY <1>1, <3>3 DEF Mine, Started, Seen, InFlight, RunningIds, Listed
    <3>5. CASE Mine(c) = {}
      BY <3>1, <3>3, <3>4, <3>5 DEF ReadyAt
    <3>6. CASE Mine(c) # {}
      <4>1. LET guard == guards[<<q.app, q.download>>]
            IN  guard # Nothing /\ now - guard.at < GuardTime /\ seen \subseteq guard.before
        BY <3>2, <3>6, OrphanRefuses
      <4>2. GuardHolds(c)'
        BY <1>1, <3>1, <3>2, <3>3, <4>1 DEF GuardHolds
      <4> QED
        BY <3>3, <4>2 DEF ReadyAt
    <3> QED
      BY <3>5, <3>6
  <2> QED
    BY <1>1, <2>2, <2>3, <2>5, <2>6, <2>7
<1>6. GuardInv'
  <2>1. CASE UNCHANGED guards
    BY <1>1, <1>2, <2>1, GuardFrame DEF ImportInv
  <2>2. CASE CheckGuard(c) /\ ~GuardHolds(c) /\ guards' = [guards EXCEPT ![Key] = Nothing]
    <3>1. Mine(c) = {}
      BY <1>0, <1>3, <2>2 DEF ReadyAt
    <3>2. ASSUME NEW w \in wire, w.kind = "POST", w.by = {}
          PROVE  Guarded(w)'
      <4>1. <<w.app, w.download>> # Key /\ Guarded(w)
        BY <3>1, <3>2 DEF Mine, InFlight, ImportInv, GuardInv
      <4>2. <<w.app, w.download>> \in Apps \X Downloads
        BY DEF ImportInv, SendInv, TypeInv, TypeOK, Request
      <4>3. guards'[<<w.app, w.download>>] = guards[<<w.app, w.download>>]
        BY <1>0, <2>2, <4>1, <4>2
      <4> QED
        BY <1>1, <4>1, <4>3 DEF Guarded, Listed
    <3> QED
      BY <1>1, <3>2 DEF GuardInv
  <2> QED
    BY <1>1, <1>3, <2>1, <2>2
<1> QED
  BY <1>1, <1>2, <1>4, <1>5, <1>6, OneFrame DEF ImportInv, ReadyInv

LEMMA SendKeeps ==
    ASSUME ImportInv, NEW c \in Clients, SendRequest(c)
    PROVE  ReadyInv' /\ GuardInv' /\ OneInv'
<1>0. Exclusive /\ ReadyAt(c) /\ Acting(c) /\ SendInv /\ OneInv
  BY DEF ImportInv, ReadyInv, SendRequest, At, Acting, ActionSteps
<1>1. PICK w \in wire' :
         /\ wire' = wire \cup {w} /\ w.by = {c} /\ Sends(c, w)'
         /\ client[c].app = w.app /\ client[c].download = w.download
         /\ client'[c].kind = client[c].kind /\ client'[c].app = client[c].app
         /\ client'[c].download = client[c].download /\ client'[c].listed = client[c].listed
  BY <1>0, SendWire
<1>2. /\ UNCHANGED <<arr, now, guards>> /\ client[c].pc = "send" /\ client[c].kind \in Actions
      /\ \A e \in Clients \ {c} : client'[e] = client[e]
  BY <1>0, SendWire DEF Changes
<1>3. Mine(c) = {} /\ Started(c) = {} /\ Seen(c)
  BY <1>0, <1>2 DEF ReadyAt
<1>4. ASSUME NEW e \in Clients \ {c} PROVE ReadyAt(e)'
  <2>1. EndsAs(arr[client[e].app].cmds, arr'[client[e].app].cmds)
    BY <1>2 DEF EndsAs
  <2>2. Acting(e) => \A v \in wire' :
          v.kind = "POST" /\ v.app = client[e].app /\ v.download = client[e].download => v \in wire
    BY <1>0, <1>1, OtherKeys
  <2> QED
    BY <1>2, <2>1, <2>2, ReadyFrame DEF ImportInv, ReadyInv
<1>5. ReadyAt(c)'
  <2>1. client'[c].pc = "answer" /\ (w.kind = "POST" <=> client[c].kind = "import")
    BY <1>1 DEF Sends
  <2>2. Started(c)' = {} /\ Seen(c)'
    BY <1>1, <1>2, <1>3 DEF Started, Seen, RunningIds, Listed
  <2>3. \A v \in Mine(c)' : v = w /\ w.kind = "POST"
    BY <1>1, <1>3 DEF Mine, InFlight
  <2>4. CASE client[c].kind = "import"
    BY <1>1, <2>1, <2>2, <2>3, <2>4 DEF ReadyAt
  <2>5. CASE client[c].kind = "discard"
    BY <1>1, <2>1, <2>2, <2>3, <2>5 DEF ReadyAt
  <2> QED
    BY <1>2, <2>4, <2>5 DEF Actions
<1>6. GuardInv'
  <2>1. \A v \in wire' : v.by = {} => v \in wire
    BY <1>1
  <2>2. \A v \in wire : Guarded(v)' <=> Guarded(v)
    BY <1>2 DEF Guarded, Listed
  <2> QED
    BY <2>1, <2>2 DEF ImportInv, GuardInv
<1>7. OneInv'
  <2>1. \A v \in wire : ~(v.kind = "POST" /\ v.app = w.app /\ v.download = w.download)
    BY <1>1, <1>3 DEF Mine, InFlight
  <2>2. RunningIds(w.app, w.download) = {}
    BY <1>1, <1>3 DEF Started
  <2>3. \A v \in wire' : RunningIds(v.app, v.download)' = RunningIds(v.app, v.download)
    BY <1>2 DEF RunningIds, Listed
  <2>4. \A a \in Apps, d \in Downloads : RunningIds(a, d)' = RunningIds(a, d)
    BY <1>2 DEF RunningIds, Listed
  <2>5. \A v \in wire' : v \in wire \/ v = w
    BY <1>1
  <2>6. \A v \in wire' : v.kind = "POST" => RunningIds(v.app, v.download)' = {}
    BY <1>0, <2>2, <2>3, <2>5 DEF OneInv
  <2>7. \A u, v \in wire' :
          u.kind = "POST" /\ v.kind = "POST" /\ u.app = v.app /\ u.download = v.download => u = v
    BY <1>0, <2>1, <2>5 DEF OneInv
  <2>8. \A a \in Apps, d \in Downloads : \A i, j \in RunningIds(a, d)' : i = j
    BY <1>0, <2>4 DEF OneInv
  <2> QED
    BY <2>6, <2>7, <2>8 DEF OneInv
<1> QED
  BY <1>4, <1>5, <1>6, <1>7 DEF ReadyInv


LEMMA LastKeeps ==
    ASSUME ImportInv, NEW c \in Clients, LastStep(c)
    PROVE  ReadyInv' /\ GuardInv' /\ OneInv'
<1> DEFINE q == client[c]
           Key == <<q.app, q.download>>
<1>0. /\ Exclusive /\ ReadyAt(c) /\ SendInv /\ OneInv /\ Fits(q)
      /\ guards \in [Apps \X Downloads -> GuardEntry \cup {Nothing}]
  BY DEF ImportInv, ReadyInv, SendInv, TypeInv, TypeOK, RequestsFit
<1>1. /\ UNCHANGED <<arr, now>> /\ q.pc = "answer" /\ client'[c] = Idle
      /\ \A e \in Clients \ {c} : client'[e] = client[e]
  BY <1>0, LastSteps DEF Changes, SendInv, TypeInv, TypeOK
<1>2. Acting(c) /\ client'[c].pc = "idle" /\ q.app \in Apps /\ q.download \in Downloads
  BY <1>0, <1>1, IdleFits DEF Acting, ActionSteps, Fits
<1>3. \A v \in wire' : \E w \in wire : Left(c, w, v)
  BY <1>0, LastLeaves
<1>4. \/ UNCHANGED guards /\ ~ImportAnswerLost(c)
      \/ q.kind = "import" /\ \E before :
           guards' = [guards EXCEPT ![Key] = [at |-> now, before |-> before]]
           /\ (ImportAnswerLost(c) => before = q.listed)
  BY <1>0, LastLeaves
<1>5. ASSUME NEW e \in Clients \ {c} PROVE ReadyAt(e)'
  <2>1. EndsAs(arr[client[e].app].cmds, arr'[client[e].app].cmds)
    BY <1>1 DEF EndsAs
  <2>2. ASSUME Acting(e), NEW v \in wire', v.download = client[e].download
        PROVE  v \in wire
    <3>1. PICK w \in wire : Left(c, w, v)
      BY <1>3
    <3>2. w.by # {c}
      <4>1. w.by = {c} => w.download = q.download
        BY <1>0 DEF SendInv, WireInv, Sends
      <4>2. v.download = w.download
        BY <3>1 DEF Left
      <4>3. client[e].download # q.download
        BY <1>0, <1>2, <2>2, OtherKeys
      <4> QED
        BY <2>2, <4>1, <4>2, <4>3
    <3> QED
      BY <3>1, <3>2 DEF Left
  <2>3. ASSUME Acting(e)
        PROVE  guards'[<<client[e].app, client[e].download>>] = guards[<<client[e].app, client[e].download>>]
    <3>1. <<client[e].app, client[e].download>> # Key
      BY <1>0, <1>2, <2>3, OtherKeys
    <3>2. <<client[e].app, client[e].download>> \in Apps \X Downloads
      BY <2>3 DEF ImportInv, SendInv, TypeInv, RequestsFit, Fits, Acting, ActionSteps
    <3> QED
      BY <1>0, <1>4, <3>1, <3>2
  <2> QED
    BY <1>1, <2>1, <2>2, <2>3, ReadyFrame DEF ImportInv, ReadyInv
<1>6. ReadyAt(c)'
  BY <1>2 DEF ReadyAt
<1>7. GuardInv'
  <2>1. SUFFICES ASSUME NEW v \in wire', v.kind = "POST", v.by = {} PROVE Guarded(v)'
    BY DEF GuardInv
  <2>2. PICK w \in wire : Left(c, w, v)
    BY <1>3
  <2>3. w.kind = "POST" /\ w.app = v.app /\ w.download = v.download /\ w.at = v.at
        /\ <<v.app, v.download>> \in Apps \X Downloads
    BY <2>1, <2>2 DEF Left, ImportInv, SendInv, TypeInv, TypeOK, Request
  <2>4. CASE w.by = {}
    <3>1. Guarded(w) /\ v = w
      BY <2>2, <2>3, <2>4 DEF ImportInv, GuardInv, Left
    <3>2. guards'[<<w.app, w.download>>] = guards[<<w.app, w.download>>]
      <4>1. CASE UNCHANGED guards
        BY <4>1
      <4>2. CASE q.kind = "import"
        <5>1. <<w.app, w.download>> # Key
          BY <1>0, <1>1, <2>3, <2>4, <4>2 DEF ReadyAt, Mine, InFlight
        <5> QED
          BY <1>0, <1>4, <2>3, <5>1
      <4> QED
        BY <1>4, <4>1, <4>2
    <3> QED
      BY <1>1, <3>1, <3>2 DEF Guarded, Listed
  <2>5. CASE w.by = {c}
    <3>1. q.kind = "import" /\ w.app = q.app /\ w.download = q.download /\ w \in Waiting(c)
      BY <1>0, <2>3, <2>5 DEF SendInv, WireInv, Sends, Waiting
    <3>2. Seen(c)
      BY <1>0, <1>1, <2>3, <2>5, <3>1 DEF ReadyAt, Mine, InFlight
    <3>3. ImportAnswerLost(c)
      <4>1. CASE NotTaken(c)
        <5>1. v \in wire /\ v.by # {c}
          BY <2>1, <4>1, <2>5, <2>2 DEF NotTaken, Left
        <5>2. v = w
          BY <1>0, <2>1, <2>2, <2>3, <5>1 DEF SendInv, PostsOnce, Left
        <5> QED
          BY <2>5, <5>1, <5>2
      <4>2. CASE ImportAnswered(c)
        <5>1. wire' = wire
          BY <4>2 DEF ImportAnswered
        <5>2. v = w
          BY <1>0, <2>1, <2>2, <2>3, <5>1 DEF SendInv, PostsOnce, Left
        <5>3. {c} # {}
          OBVIOUS
        <5> QED
          BY <2>1, <2>5, <5>2, <5>3
      <4>3. ~DiscardAnswered(c) /\ ~DiscardAnswerLost(c)
        BY <3>1 DEF DiscardAnswered, DiscardAnswerLost, At
      <4> QED
        BY <4>1, <4>2, <4>3 DEF LastStep
    <3>4. guards'[Key] = [at |-> now, before |-> q.listed]
      BY <1>0, <1>2, <1>4, <3>3
    <3>5. w.at <= now /\ now \in Nat /\ w.at \in Nat
      <4>1. w \in Request /\ now \in Times
        BY <1>0 DEF SendInv, TypeInv, TypeOK
      <4> QED
        BY <1>0, <4>1, BoundsAssumption DEF SendInv, WireInv, Request, Times
    <3>6. [at |-> now, before |-> q.listed] # Nothing
      BY DEF Nothing
    <3>7. Listed(v.app, v.download)' = Listed(q.app, q.download)
      BY <1>1, <2>3, <3>1 DEF Listed
    <3> QED
      BY <2>3, <3>1, <3>2, <3>4, <3>5, <3>6, <3>7 DEF Guarded, Seen
  <2> QED
    BY <2>1, <2>2, <2>4, <2>5 DEF Left
<1>8. OneInv'
  <2>1. \A a \in Apps, d \in Downloads : RunningIds(a, d)' = RunningIds(a, d)
    BY <1>1 DEF RunningIds, Listed
  <2>2. \A v \in wire' : v.kind = "POST" => RunningIds(v.app, v.download)' = {}
    <3>1. SUFFICES ASSUME NEW v \in wire', v.kind = "POST" PROVE RunningIds(v.app, v.download)' = {}
      OBVIOUS
    <3>2. PICK w \in wire : Left(c, w, v)
      BY <1>3
    <3>3. RunningIds(w.app, w.download) = {} /\ w.app = v.app /\ w.download = v.download
      BY <1>0, <3>1, <3>2 DEF OneInv, Left
    <3> QED
      BY <1>1, <3>3 DEF RunningIds, Listed
  <2>3. \A u, v \in wire' :
          u.kind = "POST" /\ v.kind = "POST" /\ u.app = v.app /\ u.download = v.download => u = v
    <3>1. SUFFICES ASSUME NEW u \in wire', NEW v \in wire', u.kind = "POST", v.kind = "POST",
                          u.app = v.app, u.download = v.download
                   PROVE  u = v
      OBVIOUS
    <3>2. PICK x \in wire : Left(c, x, u)
      BY <1>3
    <3>3. PICK y \in wire : Left(c, y, v)
      BY <1>3
    <3>4. x = y
      <4>1. /\ x.kind = "POST" /\ x.app = u.app /\ x.download = u.download
            /\ y.kind = "POST" /\ y.app = v.app /\ y.download = v.download
        BY <3>1, <3>2, <3>3 DEF Left
      <4> QED
        BY <1>0, <3>1, <4>1 DEF OneInv
    <3> QED
      BY <3>2, <3>3, <3>4 DEF Left
  <2>4. \A a \in Apps, d \in Downloads : \A i, j \in RunningIds(a, d)' : i = j
    BY <1>0, <2>1 DEF OneInv
  <2> QED
    BY <2>2, <2>3, <2>4 DEF OneInv
<1> QED
  BY <1>5, <1>6, <1>7, <1>8 DEF ReadyInv

LEMMA TakeKeeps ==
    ASSUME ImportInv, NEW w \in wire, AppTakes(w)
    PROVE  ReadyInv' /\ GuardInv' /\ OneInv'
<1>0. SendInv /\ OneInv /\ \A a \in Apps : arr[a].cmds \in Seq(Command)
  BY DEF ImportInv, SendInv, TypeInv, TypeOK, App
<1>1. /\ wire' = wire \ {w} /\ UNCHANGED <<client, now, guards>>
      /\ w.app \in Apps /\ w.download \in Downloads
      /\ \A a \in Apps : a # w.app \/ w.kind # "POST" => arr'[a].cmds = arr[a].cmds
      /\ w.kind = "POST" =>
            arr'[w.app].cmds = Append(arr[w.app].cmds,
               [download |-> w.download, post |-> w.post, at |-> now, status |-> "running"])
  BY <1>0, TakenOnce
<1>2. CASE w.kind # "POST"
  <2>1. \A a \in Apps : Ends(a)
    BY <1>1, <1>2 DEF Ends, EndsAs
  <2>2. ASSUME NEW e \in Clients PROVE ReadyAt(e)'
    <3>1. Acting(e) => client[e].app \in Apps
      BY DEF ImportInv, SendInv, TypeInv, RequestsFit, Fits, Acting, ActionSteps
    <3>2. Acting(e) => EndsAs(arr[client[e].app].cmds, arr'[client[e].app].cmds)
      BY <2>1, <3>1 DEF Ends
    <3> QED
      BY <1>1, <3>2, ReadyFrame DEF ImportInv, ReadyInv
  <2> QED
    BY <1>0, <1>1, <2>1, <2>2, GuardFrame, OneFrame DEF ImportInv, ReadyInv
<1>3. CASE w.kind = "POST"
  <2> DEFINE a == w.app
             d == w.download
             n == Len(arr[a].cmds)
  <2>1. /\ n \in Nat /\ DOMAIN arr[a].cmds = 1 .. n /\ DOMAIN arr'[a].cmds = 1 .. (n + 1)
        /\ arr'[a].cmds[n + 1].download = d
        /\ \A i \in 1 .. n : arr'[a].cmds[i] = arr[a].cmds[i]
    BY <1>0, <1>1, <1>3
  <2>2. \A i \in 1 .. (n + 1) : i \in 1 .. n \/ i = n + 1
    BY <2>1
  \* Another key shows what it showed.
  <2>3. ASSUME NEW b \in Apps, NEW f, b # a \/ f # d
        PROVE  Listed(b, f)' = Listed(b, f) /\ RunningIds(b, f)' = RunningIds(b, f)
    <3>1. CASE b # a
      BY <1>1, <3>1 DEF Listed, RunningIds
    <3>2. CASE b = a /\ f # d
      <4> HIDE DEF a, d, n
      <4>1. Listed(a, f)' = Listed(a, f)
        <5>1. \A i : i \in DOMAIN arr'[a].cmds /\ arr'[a].cmds[i].download = f
                     <=> i \in DOMAIN arr[a].cmds /\ arr[a].cmds[i].download = f
          BY <2>1, <2>2, <3>2
        <5>2. a' = a
          BY DEF a
        <5> QED
          BY <2>1, <5>1, <5>2 DEF Listed
      <4>2. \A i \in Listed(a, f) : arr'[a].cmds[i] = arr[a].cmds[i]
        BY <2>1 DEF Listed
      <4> QED
        BY <3>2, <4>1, <4>2 DEF RunningIds
    <3> QED
      BY <2>3, <3>1, <3>2
  <2>4. \A v \in wire' : v.kind = "POST" => v.app \in Apps /\ (v.app # a \/ v.download # d)
    BY <1>0, <1>1, <1>3 DEF OneInv, SendInv, TypeInv, TypeOK, Request
  <2>5. RunningIds(a, d) = {}
    BY <1>0, <1>3 DEF OneInv
  <2>6. OneInv'
    <3>1. \A v \in wire' : v.kind = "POST" => RunningIds(v.app, v.download)' = {}
      <4>1. SUFFICES ASSUME NEW v \in wire', v.kind = "POST" PROVE RunningIds(v.app, v.download)' = {}
        OBVIOUS
      <4>2. PICK b, f : b \in Apps /\ b = v.app /\ f = v.download /\ (b # a \/ f # d)
        BY <2>4, <4>1
      <4>3. RunningIds(b, f)' = {}
        BY <1>0, <1>1, <2>3, <4>1, <4>2 DEF OneInv
      <4> QED
        BY <4>2, <4>3 DEF RunningIds, Listed
    <3>2. \A i, j \in RunningIds(a, d)' : i = j
      <4>1. ASSUME NEW i \in 1 .. n, i \in RunningIds(a, d)' PROVE FALSE
        BY <1>1, <2>1, <2>5, <4>1 DEF RunningIds, Listed
      <4>2. RunningIds(a, d)' \subseteq 1 .. (n + 1)
        BY <1>1, <2>1 DEF RunningIds, Listed
      <4> QED
        BY <2>2, <4>1, <4>2
    <3>3. \A b \in Apps, f \in Downloads : \A i, j \in RunningIds(b, f)' : i = j
      <4>1. SUFFICES ASSUME NEW b \in Apps, NEW f \in Downloads PROVE \A i, j \in RunningIds(b, f)' : i = j
        OBVIOUS
      <4>2. CASE b = a /\ f = d
        BY <3>2, <4>2 DEF RunningIds, Listed
      <4>3. CASE b # a \/ f # d
        BY <1>0, <2>3, <4>3 DEF OneInv
      <4> QED
        BY <4>2, <4>3
    <3> QED
      BY <1>0, <1>1, <3>1, <3>3 DEF OneInv
  <2>7. GuardInv'
    <3>1. SUFFICES ASSUME NEW v \in wire', v.kind = "POST", v.by = {} PROVE Guarded(v)'
      BY DEF GuardInv
    <3>2. PICK b, f : b \in Apps /\ b = v.app /\ f = v.download /\ (b # a \/ f # d)
      BY <2>4, <3>1
    <3>3. Guarded(v) /\ Listed(b, f)' = Listed(b, f)
      BY <1>1, <2>3, <3>1, <3>2 DEF ImportInv, GuardInv
    <3> QED
      BY <1>1, <3>2, <3>3 DEF Guarded, Listed
  <2>8. ASSUME NEW e \in Clients PROVE ReadyAt(e)'
    <3>1. ReadyAt(e)
      BY DEF ImportInv, ReadyInv
    <3>2. CASE ~Acting(e)
      BY <1>1, <3>2 DEF ReadyAt, Acting, ActionSteps
    <3>3. CASE Acting(e) /\ (client[e].app # a \/ client[e].download # d)
      <4>1. PICK b, f : b \in Apps /\ b = client[e].app /\ f = client[e].download
        BY <3>3 DEF ImportInv, SendInv, TypeInv, RequestsFit, Fits, Acting, ActionSteps
      <4>2. Listed(b, f)' = Listed(b, f) /\ RunningIds(b, f)' = RunningIds(b, f)
        BY <2>3, <3>3, <4>1
      <4>3. Mine(e)' \subseteq Mine(e) /\ Started(e)' = Started(e) /\ (Seen(e)' <=> Seen(e))
        <5>1. Mine(e)' \subseteq Mine(e)
          BY <1>1 DEF Mine, InFlight
        <5>2. client'[e] = client[e]
          BY <1>1
        <5>3. Started(e)' = Started(e)
          BY <4>1, <4>2, <5>2 DEF Started
        <5>4. Seen(e)' <=> Seen(e)
          BY <4>1, <4>2, <5>2 DEF Seen
        <5> QED
          BY <5>1, <5>3, <5>4
      <4>4. GuardHolds(e)' <=> GuardHolds(e)
        BY <1>1 DEF GuardHolds
      <4> QED
        BY <1>1, <3>1, <4>3, <4>4 DEF ReadyAt
    <3>4. CASE client[e].app = a /\ client[e].download = d
      <4>1. w \in Mine(e)
        BY <1>3, <3>4 DEF Mine, InFlight
      <4>2. \A v \in wire' : ~(v.kind = "POST" /\ v.app = a /\ v.download = d)
        BY <2>4
      <4>3. Mine(e)' = {}
        BY <1>1, <3>4, <4>2 DEF Mine, InFlight
      <4>4. GuardHolds(e)' <=> GuardHolds(e)
        BY <1>1 DEF GuardHolds
      <4> QED
        BY <1>1, <3>1, <4>1, <4>3, <4>4 DEF ReadyAt
    <3> QED
      BY <3>2, <3>3, <3>4
  <2> QED
    BY <2>6, <2>7, <2>8 DEF ReadyInv
<1> QED
  BY <1>2, <1>3

LEMMA AppKeeps ==
    ASSUME ImportInv, NEW a \in Apps, AppStep(a)
    PROVE  ReadyInv' /\ GuardInv' /\ OneInv'
<1>1. UNCHANGED <<client, wire, guards, now>>
  BY DEF AppStep, CommandEnds, AppForgets, AppRefreshes, AppRestarts
<1>2. \A b \in Apps : Ends(b)
  BY AppsKept DEF ImportInv, SendInv, TypeInv, TypeOK
<1>3. ASSUME NEW e \in Clients PROVE ReadyAt(e)'
  <2>1. Acting(e) => client[e].app \in Apps
    BY DEF ImportInv, SendInv, TypeInv, RequestsFit, Fits, Acting, ActionSteps
  <2>2. Acting(e) => EndsAs(arr[client[e].app].cmds, arr'[client[e].app].cmds)
    BY <1>2, <2>1 DEF Ends
  <2> QED
    BY <1>1, <2>2, ReadyFrame DEF ImportInv, ReadyInv
<1> QED
  BY <1>1, <1>2, <1>3, GuardFrame, OneFrame DEF ImportInv, ReadyInv

\* Nobody is between its list and its guard check when time passes.
LEMMA TickKeeps ==
    ASSUME ImportInv, Tick
    PROVE  ReadyInv' /\ GuardInv' /\ OneInv'
<1>1. /\ UNCHANGED <<client, guards, arr>> /\ wire' \subseteq wire
      /\ \A c \in Clients : client[c].pc # "guard"
  BY DEF Tick
<1>2. \A b \in Apps : Ends(b)
  BY <1>1 DEF Ends, EndsAs
<1>3. ASSUME NEW e \in Clients PROVE ReadyAt(e)'
  <2>1. Mine(e)' \subseteq Mine(e) /\ Started(e)' = Started(e) /\ (Seen(e)' <=> Seen(e))
    BY <1>1 DEF Mine, Started, Seen, InFlight, RunningIds, Listed
  <2>2. ReadyAt(e)
    BY DEF ImportInv, ReadyInv
  <2> QED
    BY <1>1, <2>1, <2>2 DEF ReadyAt
<1> QED
  BY <1>1, <1>2, <1>3, GuardFrame, OneFrame DEF ImportInv, ReadyInv

LEMMA ImportKept ==
    ASSUME ImportInv, [Next]_vars
    PROVE  ImportInv'
<1>1. SendInv' /\ Exclusive'
  BY WireKept, TypeKept, ExclusiveKept DEF ImportInv, SendInv
<1>2. CASE UNCHANGED vars
  <2>1. UNCHANGED <<client, wire, guards, now, arr>>
    BY <1>2 DEF vars
  <2>2. \A b \in Apps : Ends(b)
    BY <2>1 DEF Ends, EndsAs
  <2>3. ASSUME NEW e \in Clients PROVE ReadyAt(e)'
    <3>1. EndsAs(arr[client[e].app].cmds, arr'[client[e].app].cmds)
      BY <2>1 DEF EndsAs
    <3> QED
      BY <2>1, <3>1, ReadyFrame DEF ImportInv, ReadyInv
  <2> QED
    BY <1>1, <2>1, <2>2, <2>3, GuardFrame, OneFrame DEF ImportInv, ReadyInv
<1>3. ASSUME NEW c \in Clients, ClientStep(c)
      PROVE  ReadyInv' /\ GuardInv' /\ OneInv'
  <2>1. QuietStep(c) \/ EarlyStep(c) \/ SendRequest(c) \/ LastStep(c)
    BY <1>3 DEF ClientStep, QuietStep, EarlyStep, LastStep
  <2> QED
    BY <2>1, QuietKeeps, EarlyKeeps, SendKeeps, LastKeeps
<1> QED
  BY <1>1, <1>2, <1>3, TakeKeeps, AppKeeps, TickKeeps DEF ImportInv, Next

LEMMA ImportInit ==
    ASSUME Init
    PROVE  ImportInv
<1>1. wire = {} /\ \A c \in Clients : client[c].pc = "idle"
  BY IdleFits DEF Init
<1>2. Exclusive /\ ReadyInv /\ GuardInv
  BY <1>1 DEF Exclusive, Acting, ActionSteps, ReadyInv, ReadyAt, GuardInv
<1>3. \A a \in Apps, d \in Downloads : RunningIds(a, d) = {}
  BY DEF Init, RunningIds, Listed
<1>4. OneInv
  BY <1>1, <1>3 DEF OneInv
<1> QED
  BY <1>2, <1>4, SendInit DEF ImportInv

LEMMA ImportHolds == Spec => []ImportInv
<1>1. Init => ImportInv
  BY ImportInit
<1>2. ImportInv /\ [Next]_vars => ImportInv'
  BY ImportKept
<1> QED
  BY <1>1, <1>2, PTL DEF Spec

\* However many threads ask, answers get lost and apps restart: missingarr never
\* has two import commands for one download on the wire or running (_action, _guard).
THEOREM OneImport == Spec => []OneImportPerDownload
<1>1. ASSUME ImportInv PROVE OneImportPerDownload
  <2>1. SUFFICES ASSUME NEW a \in Apps, NEW d \in Downloads PROVE Importing(a, d) <= 1
    BY DEF OneImportPerDownload
  <2>2. \A v, w \in InFlight(a, d) : v = w
    BY <1>1 DEF ImportInv, OneInv, InFlight
  <2>3. \A i, j \in RunningIds(a, d) : i = j
    BY <1>1 DEF ImportInv, OneInv
  <2>4. InFlight(a, d) # {} => RunningIds(a, d) = {}
    BY <1>1 DEF ImportInv, OneInv, InFlight
  <2>5. ASSUME NEW S, \A x, y \in S : x = y
        PROVE  Cardinality(S) = 0 \/ (Cardinality(S) = 1 /\ S # {})
    <3>1. CASE S = {}
      BY <3>1, FS_EmptySet
    <3>2. CASE S # {}
      <4>1. PICK x : x \in S
        BY <3>2
      <4>2. S = {x}
        BY <2>5, <4>1
      <4> QED
        BY <3>2, <4>2, FS_Singleton
    <3> QED
      BY <3>1, <3>2
  <2>6. \/ Cardinality(InFlight(a, d)) = 0
        \/ Cardinality(InFlight(a, d)) = 1 /\ InFlight(a, d) # {}
    BY <2>2, <2>5
  <2>7. Cardinality(RunningIds(a, d)) = 0 \/ Cardinality(RunningIds(a, d)) = 1
    BY <2>3, <2>5
  <2>8. RunningIds(a, d) = {} => Cardinality(RunningIds(a, d)) = 0
    BY FS_EmptySet
  <2> QED
    BY <2>4, <2>6, <2>7, <2>8 DEF Importing
<1> QED
  BY <1>1, ImportHolds, PTL

\* While a discard waits for its answer, no import of the download is on the wire
\* or runs, also none whose own answer got lost (discard, running_import).
THEOREM NoDiscard == Spec => []AwaitedDiscardIsAlone
<1>1. ASSUME ImportInv PROVE AwaitedDiscardIsAlone
  <2>1. SUFFICES ASSUME NEW w \in wire, w.kind = "DELETE", w.by # {}
                 PROVE  Importing(w.app, w.download) = 0
    BY DEF AwaitedDiscardIsAlone
  <2>2. PICK c \in Clients : w.by = {c}
    BY <1>1, <2>1 DEF ImportInv, SendInv, WireInv
  <2>3. client[c].pc = "answer" /\ client[c].app = w.app /\ client[c].download = w.download
        /\ client[c].kind # "import"
    BY <1>1, <2>1, <2>2 DEF ImportInv, SendInv, WireInv, Sends
  <2>4. client[c].kind = "discard"
    BY <1>1, <2>3 DEF ImportInv, SendInv, TypeInv, RequestsFit, Fits, ActionSteps, Actions
  <2>5. InFlight(w.app, w.download) = {} /\ RunningIds(w.app, w.download) = {}
    BY <1>1, <2>3, <2>4 DEF ImportInv, ReadyInv, ReadyAt, Mine, Started
  <2> QED
    BY <2>5, FS_EmptySet DEF Importing
<1> QED
  BY <1>1, ImportHolds, PTL

----------------------------------------------------------------------------
(* Nothing is sent or followed for a configuration that is gone *)

Names(app) == row = [app |-> app, enabled |-> TRUE]
Committed(c) == client[c].pc \in {"enter"} \cup ActionSteps

\* A request with the current revision was made from the row as it is.
CurrentInv ==
    /\ \A c \in Clients : client[c].revision <= revision
    /\ ~MidEdit => \A c \in Clients :
          Committed(c) /\ client[c].revision = revision => Names(client[c].app)
    /\ ~MidEdit => \A i \in Ids : sent[i] # Nothing => Names(sent[i].app)

\* An edit that forgets makes every revision taken before it an old one.
LEMMA ForgetSettles ==
    ASSUME TypeInv, CurrentInv, NEW c \in Clients, ForgetBefore(c) \/ ForgetAfter(c), Changes(c),
           client'[c].revision \in {0, client[c].revision, revision}
    PROVE  CurrentInv'
<1>1. /\ revision' = revision + 1 /\ revision \in Nat
      /\ \A i \in Ids : sent'[i] = Nothing
  BY DEF ForgetBefore, ForgetAfter, Forget, TypeInv, TypeOK
<1>2. \A e \in Clients : client[e].revision \in Nat /\ client[e].revision <= revision
  BY DEF CurrentInv, TypeInv, TypeOK, Client
<1>3. \A e \in Clients : client'[e].revision < revision'
  BY <1>1, <1>2 DEF Changes
<1>4. \A e \in Clients : client'[e].revision \in Nat
  BY DEF Changes, Client
<1> QED
  BY <1>1, <1>3, <1>4 DEF CurrentInv

\* The other steps of a request leave row and revision alone.
LEMMA CurrentFrame ==
    ASSUME CurrentInv, NEW c \in Clients, UNCHANGED <<row, revision>>,
           \A e \in Clients \ {c} : client'[e] = client[e],
           client'[c].revision <= revision,
           client[c].pc # "forgotten",
           ~MidEdit /\ Committed(c)' /\ client'[c].revision = revision => Names(client'[c].app),
           \A i \in Ids : sent'[i] # Nothing /\ ~MidEdit =>
               (sent[i] # Nothing /\ sent'[i].app = sent[i].app) \/ Names(sent'[i].app)
    PROVE  CurrentInv'
<1>1. MidEdit => MidEdit'
  BY DEF MidEdit
<1>2. \A e \in Clients \ {c} : Committed(e)' <=> Committed(e)
  BY DEF Committed
<1>3. ASSUME ~MidEdit', NEW e \in Clients, Committed(e)', client'[e].revision = revision'
      PROVE  Names(client'[e].app)
  <2>1. CASE e = c
    BY <1>1, <1>3, <2>1
  <2>2. CASE e # c
    BY <1>1, <1>2, <1>3, <2>2 DEF CurrentInv
  <2> QED
    BY <2>1, <2>2
<1>4. ASSUME ~MidEdit', NEW i \in Ids, sent'[i] # Nothing
      PROVE  Names(sent'[i].app)
  <2>1. CASE sent[i] # Nothing /\ sent'[i].app = sent[i].app
    BY <1>1, <1>4, <2>1 DEF CurrentInv
  <2> QED
    BY <1>1, <1>4, <2>1
<1>5. \A e \in Clients : client'[e].revision <= revision'
  BY DEF CurrentInv
<1>6. ~MidEdit' => \A e \in Clients :
          Committed(e)' /\ client'[e].revision = revision' => row' = [app |-> client'[e].app, enabled |-> TRUE]
  BY <1>3 DEF Names
<1>7. ~MidEdit' => \A i \in Ids : sent'[i] # Nothing => row' = [app |-> sent'[i].app, enabled |-> TRUE]
  BY <1>4 DEF Names
<1> QED
  BY <1>5, <1>6, <1>7 DEF CurrentInv, Names

LEMMA CurrentKept ==
    ASSUME SendInv, CurrentInv, [Next]_vars
    PROVE  CurrentInv'
<1>0. /\ TypeInv /\ CommandsFit /\ client \in [Clients -> Client] /\ row \in Row /\ revision \in Nat
      /\ Idle.pc = "idle" /\ Idle.revision = 0
      /\ \A c \in Clients : client[c] \in Client /\ client[c].revision <= revision
  BY PostsBound DEF SendInv, TypeInv, TypeOK, CurrentInv, Idle
<1>1. CASE UNCHANGED <<row, revision, sent, client>>
  BY <1>1 DEF CurrentInv, MidEdit, Names, Committed
<1>2. ASSUME NEW c \in Clients, QuietStep(c)
      PROVE  CurrentInv'
  <2>1. /\ ~Acting(c)' /\ Changes(c) /\ client'[c].revision \in {0, client[c].revision, revision}
        /\ client'[c].pc = "enter" => ReadRow(c)
    BY <1>0, <1>2, QuietSteps
  <2>2. client'[c].revision <= revision /\ 0 <= revision
    BY <1>0, <2>1
  <2>3. CASE ForgetBefore(c) \/ ForgetAfter(c)
    BY <1>0, <2>1, <2>3, ForgetSettles
  <2>4. CASE WriteRow(c)
    <3>1. client'[c].pc = "forgotten" /\ UNCHANGED revision
      BY <1>0, <2>4 DEF WriteRow, Goto, Client
    <3>2. MidEdit'
      BY <3>1 DEF MidEdit
    <3> QED
      BY <1>0, <2>1, <2>2, <3>1, <3>2 DEF CurrentInv, Changes
  <2>5. CASE ReadRow(c)
    <3>1. UNCHANGED <<row, revision, sent>> /\ client[c].pc = "row"
      BY <2>5 DEF ReadRow
    <3>2. Committed(c)' => Names(client'[c].app)
      <4>1. Committed(c)' => client'[c].pc = "enter"
        BY <2>1 DEF Committed, Acting
      <4>2. client'[c].pc = "enter" => client'[c].app = row.app /\ row # Nothing /\ row.enabled
        <5>1. \/ client' = [client EXCEPT ![c] = Idle]
              \/ /\ row # Nothing /\ row.enabled
                 /\ \E pc : client' = [client EXCEPT ![c] = [client[c] EXCEPT !.app = row.app, !.pc = pc]]
          BY <2>5, Zenon DEF ReadRow
        <5>2. CASE client' = [client EXCEPT ![c] = Idle]
          BY <1>0, <5>2
        <5>3. ASSUME NEW pc, client' = [client EXCEPT ![c] = [client[c] EXCEPT !.app = row.app, !.pc = pc]]
              PROVE  client'[c].app = row.app
          BY <1>0, <5>3 DEF Client
        <5> QED
          BY <5>1, <5>2, <5>3
      <4>3. row # Nothing /\ row.enabled => row = [app |-> row.app, enabled |-> TRUE]
        BY <1>0 DEF Row
      <4> QED
        BY <4>1, <4>2, <4>3 DEF Names
    <3> QED
      BY <2>1, <2>2, <3>1, <3>2, CurrentFrame DEF Changes
  <2>6. CASE QuietStep(c) /\ ~ReadRow(c) /\ ~WriteRow(c) /\ ~ForgetBefore(c) /\ ~ForgetAfter(c)
    <3>1. UNCHANGED <<row, revision>> /\ client[c].pc # "forgotten"
      BY <2>6 DEF QuietStep, StartRequest, LookupSent, AskCommand, ReadStart, ReadQueue,
         ReadHistory, ReadStartAgain, Finish, StatusFails
    <3>2. ~Committed(c)'
      BY <2>1, <2>6 DEF Committed, Acting
    <3>3. \A i \in Ids : sent'[i] # Nothing => sent[i] # Nothing /\ sent'[i].app = sent[i].app
      <4>1. CASE Finish(c)
        <5>1. \/ UNCHANGED sent
              \/ sent[client[c].id] # Nothing /\ sent' = [sent EXCEPT ![client[c].id].logged = TRUE]
          BY <4>1 DEF Finish
        <5>2. sent \in [Ids -> SentImport \cup {Nothing}]
          BY DEF SendInv, TypeInv, TypeOK
        <5> QED
          BY <5>1, <5>2 DEF SentImport
      <4>2. CASE ~Finish(c)
        <5>1. UNCHANGED sent
          BY <2>6, <4>2 DEF QuietStep, StartRequest, LookupSent, AskCommand, ReadStart, ReadQueue,
             ReadHistory, ReadStartAgain, StatusFails
        <5> QED
          BY <5>1
      <4> QED
        BY <4>1, <4>2
    <3> QED
      BY <2>1, <2>2, <3>1, <3>2, <3>3, CurrentFrame DEF Changes
  <2> QED
    BY <1>2, <2>3, <2>4, <2>5, <2>6
<1>3. ASSUME NEW c \in Clients, EarlyStep(c) \/ SendRequest(c) \/ LastStep(c)
      PROVE  CurrentInv'
  <2>1. /\ UNCHANGED <<row, revision>> /\ Committed(c) /\ client[c].pc # "forgotten"
    BY <1>3 DEF EarlyStep, EnterAction, FindDownload, GiveUpBeforeSending, ListCommands, CheckGuard,
       CheckRevision, SendRequest, LastStep, NotTaken, ImportAnswered, ImportAnswerLost, DiscardAnswered,
       DiscardAnswerLost, At, Committed, ActionSteps
  <2>2. Changes(c)
    <3>1. ClientStep(c)
      BY <1>3 DEF ClientStep, EarlyStep, LastStep
    <3> QED
      BY <1>0, <3>1, ClientKept
  <2>3. \/ client'[c] = Idle
        \/ client'[c].app = client[c].app /\ client'[c].revision = client[c].revision
    <3>1. CASE EarlyStep(c)
      <4>1. \/ client'[c] = Idle \/ ListCommands(c)
            \/ \E pc : client'[c] = [client[c] EXCEPT !.pc = pc]
        BY <1>0, <3>1, EarlySteps
      <4>2. CASE ListCommands(c)
        BY <1>0, <4>2 DEF ListCommands, Client
      <4>3. \A pc : LET r == [client[c] EXCEPT !.pc = pc]
                    IN  r.app = client[c].app /\ r.revision = client[c].revision
        BY <1>0 DEF Client
      <4> QED
        BY <4>1, <4>2, <4>3
    <3>2. CASE SendRequest(c)
      <4>1. PICK post : client' = [client EXCEPT ![c].pc = "answer", ![c].post = post]
        BY <3>2 DEF SendRequest
      <4> QED
        BY <1>0, <4>1 DEF Client
    <3>3. CASE LastStep(c)
      BY <1>0, <3>3, LastSteps
    <3> QED
      BY <1>3, <3>1, <3>2, <3>3
  <2>4. client'[c].revision <= revision
    BY <1>0, <2>3
  <2>5. ~MidEdit /\ Committed(c)' /\ client'[c].revision = revision => Names(client'[c].app)
    BY <1>0, <2>1, <2>3 DEF CurrentInv, Committed, ActionSteps
  <2>6. \A i \in Ids : sent'[i] # Nothing /\ ~MidEdit =>
           (sent[i] # Nothing /\ sent'[i].app = sent[i].app) \/ Names(sent'[i].app)
    <3>1. CASE UNCHANGED sent
      BY <3>1
    <3>2. CASE ImportAnswered(c) /\ ~UNCHANGED sent
      <4>1. PICK i \in Taken(c) :
              /\ client[c].revision = revision
              /\ sent' = [sent EXCEPT ![i] =
                   [app |-> client[c].app, download |-> client[c].download, at |-> now, logged |-> FALSE]]
        BY <3>2 DEF ImportAnswered
      <4>2. ~MidEdit => Names(client[c].app)
        BY <2>1, <4>1 DEF CurrentInv
      <4>3. sent \in [Ids -> SentImport \cup {Nothing}]
        BY DEF SendInv, TypeInv, TypeOK
      <4> QED
        BY <4>1, <4>2, <4>3
    <3>3. ImportAnswered(c) \/ UNCHANGED sent
      BY <1>3 DEF EarlyStep, EnterAction, FindDownload, GiveUpBeforeSending, ListCommands, CheckGuard,
         CheckRevision, SendRequest, LastStep, NotTaken, ImportAnswerLost, DiscardAnswered, DiscardAnswerLost
    <3> QED
      BY <3>1, <3>2, <3>3
  <2> QED
    BY <2>1, <2>2, <2>4, <2>5, <2>6, CurrentFrame DEF Changes
<1>4. ASSUME NEW w \in wire, AppTakes(w)
      PROVE  CurrentInv'
  BY <1>1, <1>4 DEF AppTakes
<1>5. ASSUME NEW a \in Apps, AppStep(a)
      PROVE  CurrentInv'
  BY <1>1, <1>5 DEF AppStep, CommandEnds, AppForgets, AppRefreshes, AppRestarts
<1>6. CASE Tick \/ UNCHANGED vars
  BY <1>1, <1>6 DEF Tick, vars
<1>7. ASSUME NEW c \in Clients, ClientStep(c)
      PROVE  CurrentInv'
  <2>1. QuietStep(c) \/ EarlyStep(c) \/ SendRequest(c) \/ LastStep(c)
    BY <1>7 DEF ClientStep, QuietStep, EarlyStep, LastStep
  <2> QED
    BY <1>2, <1>3, <2>1
<1> QED
  BY <1>4, <1>5, <1>6, <1>7 DEF Next

LEMMA CurrentHolds == Spec => [](SendInv /\ CurrentInv)
<1>1. Init => SendInv /\ CurrentInv
  <2>1. SUFFICES ASSUME Init PROVE SendInv /\ CurrentInv
    OBVIOUS
  <2>2. revision = 0 /\ \A c \in Clients : client[c] = Idle
    BY <2>1 DEF Init
  <2>3. Idle.revision = 0 /\ Idle.pc = "idle"
    BY DEF Idle
  <2>4. \A i \in Ids : sent[i] = Nothing
    BY <2>1 DEF Init
  <2>5. CurrentInv
    BY <2>2, <2>3, <2>4 DEF CurrentInv, Committed, ActionSteps
  <2> QED
    BY <2>1, <2>5, SendInit
<1>2. SendInv /\ CurrentInv /\ [Next]_vars => SendInv' /\ CurrentInv'
  BY WireKept, TypeKept, CurrentKept DEF SendInv
<1> QED
  BY <1>1, <1>2, PTL DEF Spec

\* An action whose revision still counts sends to the app its row names (_check_revision).
THEOREM SendsCurrent == Spec => []SendsUnderCurrentRow
<1>1. CurrentInv => SendsUnderCurrentRow
  BY DEF CurrentInv, SendsUnderCurrentRow, Committed, Names, ActionSteps
<1> QED
  BY <1>1, CurrentHolds, PTL

\* Only imports of the app the row names are followed (forget_instance, _remember).
THEOREM FollowsCurrent == Spec => []FollowedIsCurrent
<1>1. CurrentInv => FollowedIsCurrent
  BY DEF CurrentInv, FollowedIsCurrent, Names
<1> QED
  BY <1>1, CurrentHolds, PTL

----------------------------------------------------------------------------
(* One result per import *)

AwaitsImport(c) == client[c].pc = "answer" /\ client[c].kind = "import"

\* Command i of the app is there and its id has reached the client that sent it, or never will.
Answered(a, i) ==
    /\ i \in DOMAIN arr[a].cmds
    /\ \A c \in Clients : AwaitsImport(c) /\ client[c].app = a => client[c].post # arr[a].cmds[i].post

\* What is followed or was logged is not answered a second time.
LogInv ==
    /\ \A a \in Apps, i \in Ids : sent[i] # Nothing /\ sent[i].app = a => Answered(a, i)
    /\ \A a \in Apps, i \in Ids : \A j \in DOMAIN lines :
          lines[j].app = a /\ lines[j].id = i
          => Answered(a, i) /\ (sent[i] # Nothing /\ sent[i].app = a => sent[i].logged)
    /\ LoggedOnce

LEMMA AnsweredKept ==
    ASSUME SendInv, [Next]_vars, NEW a \in Apps, NEW i, Answered(a, i)
    PROVE  Answered(a, i)'
<1>0. /\ TypeInv /\ CommandsFit /\ arr[a].cmds \in Seq(Command) /\ PostsOnce /\ asked.posts \in Nat
      /\ client \in [Clients -> Client] /\ Idle.pc = "idle"
  BY PostsBound DEF SendInv, TypeInv, TypeOK, App, Idle
<1>1. ASSUME \A c \in Clients : AwaitsImport(c)' => AwaitsImport(c) /\ client'[c] = client[c],
             i \in DOMAIN arr'[a].cmds, arr'[a].cmds[i].post = arr[a].cmds[i].post
      PROVE  Answered(a, i)'
  BY <1>1 DEF Answered
<1>2. ASSUME NEW c \in Clients, CalmStep(c) \/ LastStep(c)
      PROVE  Answered(a, i)'
  <2>1. UNCHANGED arr /\ client'[c].pc # "answer" /\ \A e \in Clients \ {c} : client'[e] = client[e]
    BY <1>0, <1>2, CalmSteps, LastSteps DEF Changes
  <2> QED
    BY <1>1, <2>1 DEF AwaitsImport, Answered
<1>3. ASSUME NEW c \in Clients, SendRequest(c)
      PROVE  Answered(a, i)'
  <2>1. /\ UNCHANGED arr /\ \A e \in Clients \ {c} : client'[e] = client[e]
        /\ client'[c].kind = client[c].kind
        /\ client[c].kind = "import" => client'[c].post = asked.posts + 1
    BY <1>3, SendWire DEF Changes, Sends
  <2>2. arr[a].cmds[i].post \in 1 .. asked.posts
    BY <1>0 DEF PostsOnce, Answered
  <2>3. arr[a].cmds[i].post # asked.posts + 1
    BY <1>0, <2>2
  <2>4. \A e \in Clients \ {c} : AwaitsImport(e)' <=> AwaitsImport(e)
    BY <2>1 DEF AwaitsImport
  <2>5. AwaitsImport(c)' => client'[c].post = asked.posts + 1
    BY <2>1 DEF AwaitsImport
  <2> QED
    BY <2>1, <2>3, <2>4, <2>5 DEF Answered
<1>4. ASSUME NEW w \in wire, AppTakes(w)
      PROVE  Answered(a, i)'
  <2>1. UNCHANGED client /\ i \in DOMAIN arr[a].cmds
    BY <1>4, TakenOnce DEF Answered
  <2>2. arr'[a].cmds = arr[a].cmds
        \/ \E command : arr'[a].cmds = Append(arr[a].cmds, command)
    BY <1>4, TakenOnce
  <2>3. i \in DOMAIN arr'[a].cmds /\ arr'[a].cmds[i] = arr[a].cmds[i]
    <3>1. ASSUME NEW command, arr'[a].cmds = Append(arr[a].cmds, command)
          PROVE  i \in DOMAIN arr'[a].cmds /\ arr'[a].cmds[i] = arr[a].cmds[i]
      <4>1. i \in 1 .. Len(arr[a].cmds) /\ Len(arr[a].cmds) \in Nat
        BY <1>0, <2>1
      <4>2. DOMAIN arr'[a].cmds = 1 .. Len(arr[a].cmds) + 1
            /\ arr'[a].cmds[i] = arr[a].cmds[i]
        BY <1>0, <3>1, <4>1
      <4> QED
        BY <4>1, <4>2
    <3> QED
      BY <2>1, <2>2, <3>1
  <2> QED
    BY <1>1, <2>1, <2>3 DEF AwaitsImport
<1>5. ASSUME NEW b \in Apps, AppStep(b)
      PROVE  Answered(a, i)'
  <2>1. UNCHANGED client
    BY <1>5 DEF AppStep, CommandEnds, AppForgets, AppRefreshes, AppRestarts
  <2>2. Ends(a)
    BY <1>5, AppsKept DEF SendInv, TypeInv, TypeOK
  <2> QED
    BY <1>1, <2>1, <2>2 DEF AwaitsImport, Answered, Ends, EndsAs
<1>6. CASE Tick \/ UNCHANGED vars
  BY <1>1, <1>6 DEF Tick, vars, AwaitsImport, Answered
<1> QED
  BY <1>2, <1>3, <1>4, <1>5, <1>6 DEF Next, ClientStep, CalmStep, QuietStep, EarlyStep, LastStep

LEMMA LogKept ==
    ASSUME SendInv, LogInv, [Next]_vars
    PROVE  LogInv'
<1>0. /\ TypeInv /\ CommandsFit /\ lines \in Seq(Line) /\ sent \in [Ids -> SentImport \cup {Nothing}]
      /\ client \in [Clients -> Client] /\ RequestsFit /\ arr \in [Apps -> App] /\ Idle.pc = "idle"
  BY PostsBound DEF SendInv, TypeInv, TypeOK, Idle
<1>a. \A a \in Apps, i \in Ids : Answered(a, i) => Answered(a, i)'
  BY AnsweredKept
\* What is still followed was followed and not logged less.
<1>1. ASSUME UNCHANGED lines, \A i \in Ids : sent'[i] = Nothing \/ sent'[i] = sent[i]
      PROVE  LogInv'
  BY <1>1, <1>a DEF LogInv, LoggedOnce
<1>2. ASSUME NEW c \in Clients, ImportAnswered(c), ~UNCHANGED sent
      PROVE  LogInv'
  <2>0. AwaitsImport(c) /\ client[c].app \in Apps
    BY <1>0, <1>2 DEF ImportAnswered, At, AwaitsImport, RequestsFit, Fits, ActionSteps
  <2>1. PICK app, download, post, t :
           app \in Apps /\ app = client[c].app /\ download = client[c].download /\ post = client[c].post /\ t = now
    BY <2>0
  <2>2. PICK i \in Taken(c) : sent' = [sent EXCEPT ![i] =
            [app |-> app, download |-> download, at |-> t, logged |-> FALSE]]
    BY <1>2, <2>1 DEF ImportAnswered
  <2>3. /\ UNCHANGED <<lines, arr>> /\ client'[c].pc = "idle"
        /\ \A e \in Clients \ {c} : client'[e] = client[e]
    BY <1>0, <1>2, LastSteps DEF ImportAnswered, LastStep, Changes
  <2>4. i \in DOMAIN arr[app].cmds /\ arr[app].cmds[i].post = post /\ i \in Ids
    BY <2>1, <2>2, <1>0 DEF Taken, CommandsFit
  <2>5. ~Answered(app, i)
    BY <2>0, <2>1, <2>4 DEF Answered
  <2>6. ASSUME NEW e \in Clients, AwaitsImport(e)', client'[e].app = app, client'[e].post = post
        PROVE  FALSE
    <3>1. e # c /\ client'[e] = client[e] /\ AwaitsImport(e)
      BY <2>3, <2>6 DEF AwaitsImport
    <3> QED
      BY <2>0, <2>1, <2>6, <3>1 DEF SendInv, PostsOnce, AwaitsImport
  <2>7. Answered(app, i)'
    BY <2>3, <2>4, <2>6 DEF Answered
  <2>8. /\ sent'[i].app = app /\ \A k \in Ids \ {i} : sent'[k] = sent[k]
    BY <1>0, <2>2, <2>4
  <2>9. \A a \in Apps, k \in Ids : sent'[k] # Nothing /\ sent'[k].app = a => Answered(a, k)'
    BY <1>a, <2>7, <2>8 DEF LogInv
  <2>10. \A a \in Apps, k \in Ids : \A j \in DOMAIN lines :
            lines[j].app = a /\ lines[j].id = k
            => Answered(a, k)' /\ (sent'[k] # Nothing /\ sent'[k].app = a => sent'[k].logged)
    <3>1. SUFFICES ASSUME NEW a \in Apps, NEW k \in Ids, NEW j \in DOMAIN lines,
                          lines[j].app = a, lines[j].id = k
                   PROVE  Answered(a, k)' /\ (sent'[k] # Nothing /\ sent'[k].app = a => sent'[k].logged)
      OBVIOUS
    <3>2. Answered(a, k) /\ (sent[k] # Nothing /\ sent[k].app = a => sent[k].logged)
      BY <3>1 DEF LogInv
    <3>3. k = i => a # app
      BY <2>5, <3>2
    <3> QED
      BY <1>a, <2>8, <3>2, <3>3
  <2>11. LoggedOnce'
    BY <2>3 DEF LogInv, LoggedOnce
  <2> QED
    BY <2>3, <2>9, <2>10, <2>11 DEF LogInv
<1>3. ASSUME NEW c \in Clients, Finish(c), ~UNCHANGED <<sent, lines>>
      PROVE  LogInv'
  <2>1. PICK i, result : i = client[c].id /\ result = client[c].result
    OBVIOUS
  <2>2. i \in Ids
    BY <1>0, <1>3, <2>1 DEF Finish, RequestsFit, Fits, StatusSteps
  <2>3. /\ sent[i] # Nothing /\ ~sent[i].logged
        /\ sent' = [sent EXCEPT ![i].logged = TRUE]
        /\ lines' = Append(lines, [app |-> sent[i].app, id |-> i,
                                   download |-> sent[i].download, state |-> result])
    BY <1>3, <2>1 DEF Finish
  <2>4. sent[i] \in SentImport
    BY <1>0, <2>2, <2>3
  <2>5. PICK app \in Apps : app = sent[i].app
    BY <2>4 DEF SentImport
  <2>6. /\ sent'[i].app = app /\ sent'[i].logged /\ \A k \in Ids \ {i} : sent'[k] = sent[k]
    BY <1>0, <2>2, <2>3, <2>4, <2>5 DEF SentImport
  <2>7. Answered(app, i)
    BY <2>2, <2>3, <2>5 DEF LogInv
  <2> DEFINE n == Len(lines)
  <2>8. PICK line : line = [app |-> sent[i].app, id |-> i, download |-> sent[i].download, state |-> result]
    OBVIOUS
  <2>9. /\ n \in Nat /\ DOMAIN lines = 1 .. n /\ DOMAIN lines' = 1 .. (n + 1)
        /\ lines'[n + 1] = line /\ \A j \in 1 .. n : lines'[j] = lines[j]
    BY <1>0, <2>3, <2>8
  <2>a. line.app = app /\ line.id = i
    BY <2>5, <2>8
  <2> HIDE DEF n
  <2>10. \A j \in 1 .. (n + 1) : j \in 1 .. n \/ j = n + 1
    BY <2>9
  <2>11. \A j \in 1 .. n : ~(lines[j].app = app /\ lines[j].id = i)
    BY <2>2, <2>3, <2>5, <2>9 DEF LogInv
  <2>12. LoggedOnce'
    <3>1. \A j, k \in 1 .. n : lines[j].app = lines[k].app /\ lines[j].id = lines[k].id => j = k
      BY <2>9 DEF LogInv, LoggedOnce
    <3>2. \A j, k \in 1 .. (n + 1) :
            lines'[j].app = lines'[k].app /\ lines'[j].id = lines'[k].id => j = k
      BY <2>9, <2>a, <2>10, <2>11, <3>1
    <3> QED
      BY <2>9, <3>2 DEF LoggedOnce
  <2>13. \A a \in Apps, k \in Ids : sent'[k] # Nothing /\ sent'[k].app = a => Answered(a, k)'
    BY <1>a, <2>6, <2>7 DEF LogInv
  <2>14. \A a \in Apps, k \in Ids : \A j \in DOMAIN lines' :
            lines'[j].app = a /\ lines'[j].id = k
            => Answered(a, k)' /\ (sent'[k] # Nothing /\ sent'[k].app = a => sent'[k].logged)
    <3>1. SUFFICES ASSUME NEW a \in Apps, NEW k \in Ids, NEW j \in DOMAIN lines',
                          lines'[j].app = a, lines'[j].id = k
                   PROVE  Answered(a, k)' /\ (sent'[k] # Nothing /\ sent'[k].app = a => sent'[k].logged)
      OBVIOUS
    <3>2. CASE j = n + 1
      BY <1>a, <2>6, <2>7, <2>9, <2>a, <3>1, <3>2
    <3>3. CASE j \in 1 .. n
      <4>1. lines[j].app = a /\ lines[j].id = k /\ j \in DOMAIN lines
        BY <2>9, <3>1, <3>3
      <4>2. Answered(a, k) /\ (sent[k] # Nothing /\ sent[k].app = a => sent[k].logged)
        BY <4>1 DEF LogInv
      <4> QED
        BY <1>a, <2>6, <4>2
    <3> QED
      BY <2>9, <2>10, <3>1, <3>2, <3>3
  <2> QED
    BY <2>12, <2>13, <2>14 DEF LogInv
<1>4. ASSUME NEW c \in Clients, ClientStep(c)
      PROVE  LogInv'
  <2>1. CASE UNCHANGED <<sent, lines>>
    BY <1>1, <2>1
  <2>2. CASE ForgetBefore(c) \/ ForgetAfter(c)
    BY <1>1, <2>2 DEF ForgetBefore, ForgetAfter, Forget
  <2>3. \/ UNCHANGED <<sent, lines>> \/ ForgetBefore(c) \/ ForgetAfter(c) \/ Finish(c)
        \/ ImportAnswered(c) /\ UNCHANGED lines
    BY <1>4 DEF ClientStep, StartRequest, ReadRow, LookupSent, AskCommand, ReadStart, ReadQueue,
       ReadHistory, ReadStartAgain, StatusFails, WriteRow, EnterAction, FindDownload,
       GiveUpBeforeSending, ListCommands, CheckGuard, CheckRevision, SendRequest, NotTaken,
       ImportAnswered, ImportAnswerLost, DiscardAnswered, DiscardAnswerLost
  <2> QED
    BY <1>2, <1>3, <2>1, <2>2, <2>3
<1>5. CASE UNCHANGED <<sent, lines>>
  BY <1>1, <1>5
<1>6. ASSUME NEW w \in wire, AppTakes(w)
      PROVE  LogInv'
  BY <1>5, <1>6 DEF AppTakes
<1>7. ASSUME NEW a \in Apps, AppStep(a)
      PROVE  LogInv'
  BY <1>5, <1>7 DEF AppStep, CommandEnds, AppForgets, AppRefreshes, AppRestarts
<1>8. CASE Tick \/ UNCHANGED vars
  BY <1>5, <1>8 DEF Tick, vars
<1> QED
  BY <1>4, <1>6, <1>7, <1>8 DEF Next

\* However many tabs follow an import, its result is in the log once (_final).
THEOREM OneLine == Spec => []LoggedOnce
<1>1. Init => SendInv /\ LogInv
  <2>1. SUFFICES ASSUME Init PROVE SendInv /\ LogInv
    OBVIOUS
  <2>2. lines = <<>> /\ \A i \in Ids : sent[i] = Nothing
    BY <2>1 DEF Init
  <2>3. LogInv
    BY <2>2 DEF LogInv, LoggedOnce
  <2> QED
    BY <2>1, <2>3, SendInit
<1>2. SendInv /\ LogInv /\ [Next]_vars => SendInv' /\ LogInv'
  BY WireKept, TypeKept, LogKept DEF SendInv
<1>3. LogInv => LoggedOnce
  BY DEF LogInv
<1> QED
  BY <1>1, <1>2, <1>3, PTL DEF Spec

----------------------------------------------------------------------------
(* A result is logged for the import it was read for *)

LateSteps == ActionSteps \ {"find"}
Polling == {"ask", "start", "queue", "history", "again", "final"}

\* Command i of app a imports d, and an app that was not started since shows its queue.
Sure(a, i, d) ==
    /\ i \in DOMAIN arr[a].cmds
    /\ arr[a].cmds[i].download = d
    /\ arr[a].started < arr[a].cmds[i].at => arr[a].visible

\* A post somebody waits for, and the command it became, import the client's download.
PostFits ==
    \A c \in Clients : AwaitsImport(c) =>
        /\ \A w \in wire : w.kind = "POST" /\ w.post = client[c].post =>
              w.app = client[c].app /\ w.download = client[c].download
        /\ \A i \in Taken(c) : arr[client[c].app].cmds[i].download = client[c].download

\* What request r may rely on: an action saw the queue and no restart came since; a
\* status that read the start time knows of any restart since, and if there was
\* none, what it found out of the queue has left it for good.
Relies(r) ==
    /\ r.pc \in LateSteps => arr[r.app].visible
    /\ r.pc \in Polling => Sure(r.app, r.id, r.download)
    /\ r.pc \in {"queue", "history", "again"} =>
          /\ r.started < arr[r.app].cmds[r.id].at
          /\ r.started <= arr[r.app].started
    /\ r.pc \in {"history", "again"} /\ ~r.queued /\ r.started = arr[r.app].started
       => r.download \notin arr[r.app].queue
    /\ r.pc = "final" /\ r.result = "imported" => r.download \notin arr[r.app].queue

TimesInv ==
    \A a \in Apps :
        arr[a].started <= now /\ \A i \in DOMAIN arr[a].cmds : arr[a].cmds[i].at <= now
FollowedSure == \A i \in Ids : sent[i] # Nothing => Sure(sent[i].app, i, sent[i].download)
LoggedLeft ==
    \A j \in DOMAIN lines :
        lines[j].state = "imported" => lines[j].download \notin arr[lines[j].app].queue

FollowInv ==
    /\ TimesInv
    /\ PostFits
    /\ \A c \in Clients : Relies(client[c])
    /\ FollowedSure

\* What a step may do to an app: commands keep download and time, new ones are of
\* now, downloads only leave the queue, and the queue is hidden only by a restart.
Ages(a) ==
    /\ arr'[a].queue \subseteq arr[a].queue
    /\ DOMAIN arr[a].cmds \subseteq DOMAIN arr'[a].cmds
    /\ \A i \in DOMAIN arr[a].cmds :
          arr'[a].cmds[i].download = arr[a].cmds[i].download /\ arr'[a].cmds[i].at = arr[a].cmds[i].at
    /\ \A i \in DOMAIN arr'[a].cmds : i \in DOMAIN arr[a].cmds \/ arr'[a].cmds[i].at = now
    /\ \/ arr'[a].started = arr[a].started /\ (arr[a].visible => arr'[a].visible)
       \/ /\ arr'[a].started = now
          /\ \A c \in Clients : client[c].app = a => client[c].pc \notin LateSteps

LEMMA StillAges ==
    ASSUME NEW a, arr'[a] = arr[a]
    PROVE  Ages(a)
  BY DEF Ages

\* An app that changes its own commands only: status, queue, what it shows.
LEMMA AppAges ==
    ASSUME SendInv, NEW a \in Apps, AppStep(a)
    PROVE  \A b \in Apps : Ages(b)
<1>0. /\ arr \in [Apps -> App] /\ now \in Times /\ arr[a] \in App /\ arr[a].cmds \in Seq(Command)
      /\ \A i \in DOMAIN arr[a].cmds : arr[a].cmds[i] \in Command
  BY DEF SendInv, TypeInv, TypeOK, App
<1>1. ASSUME NEW app, arr' = [arr EXCEPT ![a] = app], app.queue \subseteq arr[a].queue,
             DOMAIN app.cmds = DOMAIN arr[a].cmds,
             \A i \in DOMAIN arr[a].cmds :
                app.cmds[i].download = arr[a].cmds[i].download /\ app.cmds[i].at = arr[a].cmds[i].at,
             \/ app.started = arr[a].started /\ (arr[a].visible => app.visible)
             \/ app.started = now /\ \A c \in Clients : client[c].app = a => client[c].pc \notin LateSteps
      PROVE  \A b \in Apps : Ages(b)
  <2>1. arr'[a] = app /\ \A b \in Apps \ {a} : arr'[b] = arr[b]
    BY <1>0, <1>1
  <2>2. Ages(a)
    BY <1>1, <2>1 DEF Ages
  <2> QED
    BY <2>1, <2>2, StillAges
<1>2. ASSUME NEW i \in DOMAIN arr[a].cmds, NEW status,
             NEW cmds, cmds = [arr[a].cmds EXCEPT ![i] = [@ EXCEPT !.status = status]]
      PROVE  /\ DOMAIN cmds = DOMAIN arr[a].cmds
             /\ \A j \in DOMAIN arr[a].cmds :
                   cmds[j].download = arr[a].cmds[j].download /\ cmds[j].at = arr[a].cmds[j].at
  <2>1. arr[a].cmds[i] \in Command
    BY <1>0
  <2>2. PICK new : new = [arr[a].cmds[i] EXCEPT !.status = status]
    OBVIOUS
  <2>3. new.download = arr[a].cmds[i].download /\ new.at = arr[a].cmds[i].at
    BY <2>1, <2>2 DEF Command
  <2>4. cmds = [arr[a].cmds EXCEPT ![i] = new]
    BY <1>2, <2>2
  <2> QED
    BY <1>0, <2>3, <2>4
<1>3. ASSUME NEW i \in DOMAIN arr[a].cmds, CommandEnds(a, i)
      PROVE  \A b \in Apps : Ages(b)
  <2> DEFINE d == arr[a].cmds[i].download
  <2>1. PICK outcome \in Outcomes :
          arr' = [arr EXCEPT
                    ![a].cmds[i].status = IF outcome = "failed" THEN "failed" ELSE "completed",
                    ![a].recorded = IF outcome \in {"part", "all"} THEN @ \cup {d} ELSE @,
                    ![a].complete = IF outcome = "all" THEN @ \cup {d} ELSE @]
    BY <1>3 DEF CommandEnds
  <2>2. PICK status, recorded, complete :
          /\ status = (IF outcome = "failed" THEN "failed" ELSE "completed")
          /\ recorded = (IF outcome \in {"part", "all"} THEN arr[a].recorded \cup {d} ELSE arr[a].recorded)
          /\ complete = (IF outcome = "all" THEN arr[a].complete \cup {d} ELSE arr[a].complete)
    OBVIOUS
  <2>3. PICK cmds : cmds = [arr[a].cmds EXCEPT ![i] = [@ EXCEPT !.status = status]]
    OBVIOUS
  <2>4. PICK app : app = [arr[a] EXCEPT !.cmds = cmds, !.recorded = recorded, !.complete = complete]
    OBVIOUS
  <2>5. arr' = [arr EXCEPT ![a] = app]
    BY <1>0, <2>1, <2>2, <2>3, <2>4 DEF App
  <2>6. /\ app.cmds = cmds /\ app.queue = arr[a].queue /\ app.visible = arr[a].visible
        /\ app.started = arr[a].started
    BY <1>0, <2>4 DEF App
  <2>7. /\ DOMAIN app.cmds = DOMAIN arr[a].cmds
        /\ \A j \in DOMAIN arr[a].cmds :
              app.cmds[j].download = arr[a].cmds[j].download /\ app.cmds[j].at = arr[a].cmds[j].at
    BY <1>2, <2>3, <2>6
  <2> QED
    BY <1>1, <2>5, <2>6, <2>7
<1>4. ASSUME NEW i \in DOMAIN arr[a].cmds, AppForgets(a, i)
      PROVE  \A b \in Apps : Ages(b)
  <2>1. PICK status : status = "gone"
    OBVIOUS
  <2>2. PICK cmds : cmds = [arr[a].cmds EXCEPT ![i] = [@ EXCEPT !.status = status]]
    OBVIOUS
  <2>3. PICK app : app = [arr[a] EXCEPT !.cmds = cmds]
    OBVIOUS
  <2>4. arr' = [arr EXCEPT ![a] = app]
    BY <1>0, <1>4, <2>1, <2>2, <2>3 DEF AppForgets, App
  <2>5. /\ app.cmds = cmds /\ app.queue = arr[a].queue /\ app.visible = arr[a].visible
        /\ app.started = arr[a].started
    BY <1>0, <2>3 DEF App
  <2>6. /\ DOMAIN app.cmds = DOMAIN arr[a].cmds
        /\ \A j \in DOMAIN arr[a].cmds :
              app.cmds[j].download = arr[a].cmds[j].download /\ app.cmds[j].at = arr[a].cmds[j].at
    BY <1>2, <2>2, <2>5
  <2> QED
    BY <1>1, <2>4, <2>5, <2>6
<1>5. CASE AppRefreshes(a)
  <2>1. PICK app : app = [arr[a] EXCEPT !.queue = @ \ arr[a].complete, !.visible = TRUE]
    OBVIOUS
  <2>2. arr' = [arr EXCEPT ![a] = app]
    BY <1>0, <1>5, <2>1 DEF AppRefreshes, App
  <2>3. /\ app.cmds = arr[a].cmds /\ app.queue \subseteq arr[a].queue /\ app.visible
        /\ app.started = arr[a].started
    BY <1>0, <2>1 DEF App
  <2> QED
    BY <1>1, <2>2, <2>3
<1>6. CASE AppRestarts(a)
  <2>1. PICK status :
          arr' = [arr EXCEPT
            ![a].started = now,
            ![a].visible = FALSE,
            ![a].cmds = [i \in DOMAIN @ |->
                IF @[i].status = "running" THEN [@[i] EXCEPT !.status = status] ELSE @[i]]]
    BY <1>6 DEF AppRestarts
  <2>2. PICK cmds : cmds = [i \in DOMAIN arr[a].cmds |->
            IF arr[a].cmds[i].status = "running" THEN [arr[a].cmds[i] EXCEPT !.status = status]
            ELSE arr[a].cmds[i]]
    OBVIOUS
  <2>3. PICK app : app = [arr[a] EXCEPT !.started = now, !.visible = FALSE, !.cmds = cmds]
    OBVIOUS
  <2>4. arr' = [arr EXCEPT ![a] = app]
    BY <1>0, <2>1, <2>2, <2>3 DEF App
  <2>5. app.cmds = cmds /\ app.queue = arr[a].queue /\ app.started = now
    BY <1>0, <2>3 DEF App
  <2>6. DOMAIN cmds = DOMAIN arr[a].cmds
    BY <2>2
  <2>7. \A j \in DOMAIN arr[a].cmds :
           cmds[j].download = arr[a].cmds[j].download /\ cmds[j].at = arr[a].cmds[j].at
    BY <1>0, <2>2 DEF Command
  <2>8. \A c \in Clients : client[c].app = a => client[c].pc \notin LateSteps
    BY <1>6 DEF AppRestarts, LateSteps
  <2> QED
    BY <1>1, <2>4, <2>5, <2>6, <2>7, <2>8
<1> QED
  BY <1>3, <1>4, <1>5, <1>6 DEF AppStep

\* No step of a request touches an app.
LEMMA ClientsLeaveApps ==
    ASSUME SendInv, NEW c \in Clients, ClientStep(c)
    PROVE  UNCHANGED <<arr, now>> /\ Changes(c)
<1>1. TypeInv /\ CommandsFit
  BY PostsBound DEF SendInv, TypeInv
<1>2. CASE CalmStep(c)
  BY <1>1, <1>2, CalmSteps
<1>3. CASE LastStep(c)
  BY <1>3, LastSteps
<1>4. CASE SendRequest(c)
  BY <1>4, SendWire
<1> QED
  BY <1>2, <1>3, <1>4 DEF ClientStep, CalmStep, QuietStep, EarlyStep, LastStep

LEMMA AppsAge ==
    ASSUME SendInv, [Next]_vars
    PROVE  /\ \A a \in Apps : Ages(a)
           /\ now \in Nat /\ now' \in Nat /\ now <= now'
<1>0. /\ now \in Nat /\ MaxTime \in Nat /\ arr \in [Apps -> App]
      /\ \A a \in Apps : arr[a] \in App /\ arr[a].cmds \in Seq(Command)
  BY BoundsAssumption DEF SendInv, TypeInv, TypeOK, Times, App
<1>1. ASSUME NEW c \in Clients, ClientStep(c)
      PROVE  UNCHANGED <<arr, now>>
  BY <1>1, ClientsLeaveApps
<1>2. ASSUME NEW w \in wire, AppTakes(w)
      PROVE  UNCHANGED now /\ \A a \in Apps : Ages(a)
  <2>1. /\ UNCHANGED now /\ w.app \in Apps
        /\ \A a \in Apps : a # w.app \/ w.kind # "POST" => arr'[a].cmds = arr[a].cmds
        /\ w.kind = "POST" =>
                 arr'[w.app].cmds = Append(arr[w.app].cmds,
                    [download |-> w.download, post |-> w.post, at |-> now, status |-> "running"])
    BY <1>2, TakenOnce
  <2>2. \A a \in Apps : /\ arr'[a].queue \subseteq arr[a].queue
                        /\ arr'[a].started = arr[a].started /\ arr'[a].visible = arr[a].visible
    BY <1>0, <1>2, <2>1 DEF AppTakes, App
  <2>3. ASSUME NEW a \in Apps, arr'[a].cmds = arr[a].cmds
        PROVE  Ages(a)
    BY <2>2, <2>3 DEF Ages
  <2>4. ASSUME w.kind = "POST"
        PROVE  Ages(w.app)
    <3>1. PICK command : command = [download |-> w.download, post |-> w.post, at |-> now, status |-> "running"]
      OBVIOUS
    <3>2. arr'[w.app].cmds = Append(arr[w.app].cmds, command) /\ command.at = now
      BY <2>1, <2>4, <3>1
    <3>3. PICK cmds : cmds = arr[w.app].cmds
      OBVIOUS
    <3>4. cmds \in Seq(Command) /\ Len(cmds) \in Nat /\ DOMAIN cmds = 1 .. Len(cmds)
      BY <1>0, <2>1, <3>3
    <3>5. /\ DOMAIN arr'[w.app].cmds = 1 .. (Len(cmds) + 1)
          /\ arr'[w.app].cmds[Len(cmds) + 1] = command
          /\ \A i \in 1 .. Len(cmds) : arr'[w.app].cmds[i] = cmds[i]
      BY <3>2, <3>3, <3>4
    <3>6. \A i \in 1 .. (Len(cmds) + 1) : i \in 1 .. Len(cmds) \/ i = Len(cmds) + 1
      BY <3>4
    <3>7. 1 .. Len(cmds) \subseteq 1 .. (Len(cmds) + 1)
      BY <3>4
    <3> QED
      BY <2>1, <2>2, <3>2, <3>3, <3>4, <3>5, <3>6, <3>7, Zenon DEF Ages
  <2> QED
    BY <2>1, <2>3, <2>4
<1>3. ASSUME NEW a \in Apps, AppStep(a)
      PROVE  UNCHANGED now /\ \A b \in Apps : Ages(b)
  <2>1. UNCHANGED now
    BY <1>3 DEF AppStep, CommandEnds, AppForgets, AppRefreshes, AppRestarts
  <2> QED
    BY <1>3, <2>1, AppAges
<1>4. CASE Tick \/ UNCHANGED vars
  <2>1. UNCHANGED arr /\ (now' = now + 1 \/ now' = now)
    BY <1>4 DEF Tick, vars
  <2> QED
    BY <1>0, <2>1, StillAges
<1>5. CASE UNCHANGED <<arr, now>>
  BY <1>0, <1>5, StillAges
<1> QED
  BY <1>0, <1>1, <1>2, <1>3, <1>4, <1>5 DEF Next

LEMMA AppTimes ==
    ASSUME TypeOK, NEW a \in Apps
    PROVE  /\ now \in Nat /\ arr[a].started \in Nat
           /\ \A i \in DOMAIN arr[a].cmds : arr[a].cmds[i].at \in Nat
<1>1. /\ now \in Times /\ Times \subseteq Nat
      /\ arr[a] \in App
  BY BoundsAssumption DEF TypeOK, Times
<1>2. arr[a].cmds \in Seq(Command) /\ arr[a].started \in Times
  BY <1>1 DEF App
<1>3. \A i \in DOMAIN arr[a].cmds : arr[a].cmds[i] \in Command
  BY <1>2
<1> QED
  BY <1>1, <1>2, <1>3 DEF Command

\* What was sure stays sure, and what left the queue stays out of it.
LEMMA SureAges ==
    ASSUME SendInv, TimesInv, NEW a \in Apps, Ages(a), NEW i, NEW d, Sure(a, i, d)
    PROVE  Sure(a, i, d)'
<1>1. /\ arr[a].cmds[i].at \in Nat /\ now \in Nat /\ arr[a].cmds[i].at <= now
      /\ i \in DOMAIN arr[a].cmds
  <2>1. arr[a].cmds \in Seq(Command) /\ i \in DOMAIN arr[a].cmds
    BY DEF SendInv, TypeInv, TypeOK, App, Sure
  <2>2. arr[a].cmds[i] \in Command
    BY <2>1
  <2> QED
    BY <2>1, <2>2, BoundsAssumption DEF Command, Times, TimesInv, SendInv, TypeInv, TypeOK
<1> QED
  BY <1>1 DEF Ages, Sure

\* A request that rests keeps what it relies on.
LEMMA ReliesAges ==
    ASSUME SendInv, TimesInv, NEW c \in Clients, NEW r, r = client[c], Relies(r),
           \A a \in Apps : Ages(a)
    PROVE  Relies(r)'
<1>1. /\ r \in Client
      /\ r.pc \in LateSteps => r.app \in Apps
      /\ r.pc \in Polling => r.app \in Apps /\ r.id \in Ids
  BY DEF SendInv, TypeInv, TypeOK, RequestsFit, Fits, LateSteps, Polling, StatusSteps, ActionSteps
<1>2. CASE r.pc \in LateSteps
  <2>1. arr'[r.app].visible
    BY <1>1, <1>2 DEF Relies, Ages
  <2>2. r.pc \notin Polling /\ r.pc \notin {"queue", "history", "again", "final"}
    BY <1>2 DEF LateSteps, Polling, ActionSteps
  <2> QED
    BY <2>1, <2>2 DEF Relies
<1>3. CASE r.pc \in Polling
  <2>1. Sure(r.app, r.id, r.download)' /\ Ages(r.app) /\ r.app \in Apps
    BY <1>1, <1>3, SureAges DEF Relies
  <2>2. r.pc \notin LateSteps
    BY <1>3 DEF LateSteps, Polling, ActionSteps
  <2>3. /\ r.id \in DOMAIN arr[r.app].cmds
        /\ arr'[r.app].cmds[r.id].at = arr[r.app].cmds[r.id].at
        /\ arr'[r.app].queue \subseteq arr[r.app].queue
    BY <1>3, <2>1 DEF Relies, Sure, Ages
  <2>4. /\ arr[r.app].cmds[r.id].at \in Nat /\ now \in Nat /\ arr[r.app].started \in Nat
        /\ r.started \in Nat /\ arr[r.app].cmds[r.id].at <= now /\ arr[r.app].started <= now
    <3>1. arr[r.app] \in App /\ arr[r.app].cmds \in Seq(Command)
      BY <2>1 DEF SendInv, TypeInv, TypeOK, App
    <3>2. arr[r.app].cmds[r.id] \in Command
      BY <2>3, <3>1
    <3> QED
      BY <1>1, <2>1, <2>3, <3>1, <3>2, BoundsAssumption
      DEF Command, Client, App, Times, TimesInv, SendInv, TypeInv, TypeOK
  <2>5. arr'[r.app].started = arr[r.app].started \/ arr'[r.app].started = now
    BY <2>1 DEF Ages
  <2>6. r.pc \in {"queue", "history", "again"} =>
            r.started < arr'[r.app].cmds[r.id].at /\ r.started <= arr'[r.app].started
    BY <2>3, <2>4, <2>5 DEF Relies
  <2>7. r.pc \in {"history", "again"} /\ ~r.queued /\ r.started = arr'[r.app].started
        => r.download \notin arr'[r.app].queue
    BY <2>3, <2>4, <2>5 DEF Relies
  <2>8. r.pc = "final" /\ r.result = "imported" => r.download \notin arr'[r.app].queue
    BY <2>3 DEF Relies
  <2> QED
    BY <2>1, <2>2, <2>6, <2>7, <2>8 DEF Relies
<1>4. CASE r.pc \notin LateSteps \cup Polling
  BY <1>4 DEF Relies, Polling
<1> QED
  BY <1>2, <1>3, <1>4

\* What a request relies on after a step of its own.
LEMMA ReliesStep ==
    ASSUME SendInv, FollowInv, NEW c \in Clients, ClientStep(c)
    PROVE  Relies(client'[c])
<1> DEFINE q == client[c]
           r == client'[c]
<1>0. /\ client \in [Clients -> Client] /\ q \in Client /\ Fits(q) /\ Idle.pc = "idle" /\ Relies(q)
      /\ sent \in [Ids -> SentImport \cup {Nothing}] /\ FollowedSure
      /\ TypeInv /\ CommandsFit
  BY PostsBound DEF SendInv, TypeInv, TypeOK, RequestsFit, Idle, FollowInv
<1>1. ASSUME r.pc \notin LateSteps \cup Polling
      PROVE  Relies(r)
  BY <1>1 DEF Relies, Polling
<1>2. ASSUME client' = [client EXCEPT ![c] = Idle]
      PROVE  Relies(r)
  <2>1. r = Idle
    BY <1>0, <1>2
  <2> QED
    BY <1>0, <1>1, <2>1 DEF LateSteps, Polling, ActionSteps
<1>3. ASSUME NEW pc, Goto(c, pc), pc \notin Polling, pc \in LateSteps => arr[q.app].visible
      PROVE  Relies(r)
  <2>1. r = [q EXCEPT !.pc = pc]
    BY <1>0, <1>3 DEF Goto
  <2>2. r.pc = pc /\ r.app = q.app
    BY <1>0, <2>1 DEF Client
  <2>3. r.pc \notin Polling /\ r.pc \notin {"queue", "history", "again", "final"}
    BY <1>3, <2>2 DEF Polling
  <2>4. r.pc \in LateSteps => arr[r.app].visible
    BY <1>3, <2>2, Zenon
  <2> HIDE DEF r
  <2> QED
    BY <2>3, <2>4 DEF Relies
<1>4. CASE StartRequest(c)
  <2>1. CASE Goto(c, "forget")
    BY <1>3, <2>1 DEF LateSteps, Polling, ActionSteps
  <2>2. ASSUME NEW new, client' = [client EXCEPT ![c] = new], new.pc = "row"
        PROVE  Relies(r)
    <3>1. r.pc = "row"
      BY <1>0, <2>2
    <3> QED
      BY <1>1, <3>1 DEF LateSteps, Polling, ActionSteps
  <2>3. ASSUME NEW kind, NEW d, NEW i
        PROVE  /\ [Idle EXCEPT !.pc = "row", !.kind = kind, !.download = d, !.revision = revision].pc = "row"
               /\ [Idle EXCEPT !.pc = "row", !.kind = kind, !.id = i].pc = "row"
    BY IdleFits DEF Client
  <2> QED
    BY <1>4, <2>1, <2>2, <2>3, Zenon DEF StartRequest
<1>5. CASE ReadRow(c)
  <2>1. r.pc \in {"idle", "lookup", "enter"}
    BY <1>0, <1>5 DEF ReadRow, Client
  <2> QED
    BY <1>1, <2>1 DEF LateSteps, Polling, ActionSteps
<1>6. CASE EnterAction(c) \/ FindDownload(c) \/ GiveUpBeforeSending(c) \/ CheckGuard(c) \/ CheckRevision(c)
  <2>1. \/ client' = [client EXCEPT ![c] = Idle]
        \/ Goto(c, "find")
        \/ Goto(c, "list") /\ q.download \in Shown(q.app)
        \/ Goto(c, "check") /\ q.pc = "guard"
        \/ Goto(c, "send") /\ q.pc = "check"
    BY <1>6 DEF EnterAction, FindDownload, GiveUpBeforeSending, CheckGuard, CheckRevision, Leave, At
  <2>2. CASE client' = [client EXCEPT ![c] = Idle]
    BY <1>2, <2>2
  <2>3. CASE Goto(c, "find")
    BY <1>3, <2>3 DEF LateSteps, Polling
  <2>4. CASE Goto(c, "list") /\ q.download \in Shown(q.app)
    BY <1>3, <2>4 DEF Polling, Shown
  <2>5. CASE Goto(c, "check") /\ q.pc = "guard"
    BY <1>0, <1>3, <2>5 DEF Polling, Relies, LateSteps, ActionSteps
  <2>6. CASE Goto(c, "send") /\ q.pc = "check"
    BY <1>0, <1>3, <2>6 DEF Polling, Relies, LateSteps, ActionSteps
  <2> QED
    BY <2>1, <2>2, <2>3, <2>4, <2>5, <2>6
<1>7. CASE ListCommands(c)
  <2>1. r.pc = "guard" /\ r.app = q.app /\ q.pc = "list"
    BY <1>0, <1>7 DEF ListCommands, At, Client
  <2> QED
    BY <1>0, <2>1 DEF Relies, LateSteps, Polling, ActionSteps
<1>8. CASE SendRequest(c)
  <2>1. r.pc = "answer" /\ r.app = q.app /\ q.pc = "send"
    BY <1>8, SendWire DEF Sends
  <2> QED
    BY <1>0, <2>1 DEF Relies, LateSteps, Polling, ActionSteps
<1>9. CASE LastStep(c)
  BY <1>2, <1>9, LastSteps
<1>10. CASE LookupSent(c)
  <2>1. PICK entry : entry = sent[q.id]
    OBVIOUS
  <2>2. \/ client' = [client EXCEPT ![c] = Idle]
        \/ /\ entry # Nothing /\ entry.app = q.app
           /\ r = [q EXCEPT !.pc = "ask", !.download = entry.download, !.at = entry.at]
    BY <1>0, <1>10, <2>1 DEF LookupSent
  <2>3. ASSUME entry # Nothing, entry.app = q.app,
               r = [q EXCEPT !.pc = "ask", !.download = entry.download, !.at = entry.at]
        PROVE  Relies(r)
    <3>1. q.id \in Ids
      BY <1>0, <1>10 DEF LookupSent, Fits, StatusSteps
    <3>2. Sure(q.app, q.id, entry.download)
      BY <1>0, <2>1, <2>3, <3>1 DEF FollowedSure
    <3>3. r.pc = "ask" /\ r.app = q.app /\ r.id = q.id /\ r.download = entry.download
      BY <1>0, <2>3 DEF Client
    <3> QED
      BY <3>2, <3>3 DEF Relies, LateSteps, ActionSteps
  <2> QED
    BY <1>2, <2>2, <2>3
\* The steps of a status from here on keep app, command and download.
<1> DEFINE Same == r.app = q.app /\ r.id = q.id /\ r.download = q.download
<1>11. ASSUME NEW result \in States, Conclude(c, result), q.pc \in Polling,
              result = "imported" => q.download \notin arr[q.app].queue
       PROVE  Relies(r)
  <2>1. r = [q EXCEPT !.pc = "final", !.result = result]
    BY <1>0, <1>11 DEF Conclude
  <2>2. r.pc = "final" /\ r.result = result /\ Same
    BY <1>0, <2>1 DEF Client
  <2> QED
    BY <1>0, <1>11, <2>2 DEF Relies, LateSteps, ActionSteps
<1>12. CASE AskCommand(c)
  <2>1. q.pc = "ask"
    BY <1>12 DEF AskCommand
  <2>2. \/ Conclude(c, "unknown") \/ Conclude(c, "failed")
        \/ client' = [client EXCEPT ![c] = Idle] \/ Goto(c, "start")
    BY <1>12 DEF AskCommand
  <2>3. CASE Goto(c, "start")
    <3>1. r = [q EXCEPT !.pc = "start"]
      BY <1>0, <2>3 DEF Goto
    <3>2. r.pc = "start" /\ Same
      BY <1>0, <3>1 DEF Client
    <3> QED
      BY <1>0, <2>1, <3>2 DEF Relies, LateSteps, ActionSteps, Polling
  <2> QED
    BY <1>2, <1>11, <2>1, <2>2, <2>3 DEF States, Polling
<1>13. CASE ReadStart(c)
  <2>1. q.pc = "start" /\ q.app \in Apps
    BY <1>0, <1>13 DEF ReadStart, Fits, StatusSteps
  <2>2. PICK started : started = arr[q.app].started
    OBVIOUS
  <2>3. \/ Conclude(c, "unknown")
        \/ /\ ~(arr[q.app].started >= arr[q.app].cmds[q.id].at)
           /\ r = [q EXCEPT !.pc = "queue", !.started = started]
    BY <1>0, <1>13, <2>2 DEF ReadStart, Followed
  <2>4. ASSUME ~(arr[q.app].started >= arr[q.app].cmds[q.id].at),
               r = [q EXCEPT !.pc = "queue", !.started = started]
        PROVE  Relies(r)
    <3>1. r.pc = "queue" /\ r.started = started /\ Same
      BY <1>0, <2>4 DEF Client
    <3>2. Sure(q.app, q.id, q.download)
      BY <1>0, <2>1 DEF Relies, Polling
    <3>3. arr[q.app].started \in Nat /\ arr[q.app].cmds[q.id].at \in Nat
      <4>1. arr[q.app] \in App /\ arr[q.app].cmds \in Seq(Command)
        BY <2>1 DEF SendInv, TypeInv, TypeOK, App
      <4>2. arr[q.app].cmds[q.id] \in Command
        BY <3>2, <4>1 DEF Sure
      <4>3. Times \subseteq Nat
        BY BoundsAssumption DEF Times
      <4>4. arr[q.app].started \in Times
        BY <4>1 DEF App
      <4>5. arr[q.app].cmds[q.id].at \in Times
        BY <4>2 DEF Command
      <4> QED
        BY <4>3, <4>4, <4>5
    <3> QED
      BY <2>2, <2>4, <3>1, <3>2, <3>3 DEF Relies, LateSteps, ActionSteps
  <2> QED
    BY <1>11, <2>1, <2>3, <2>4 DEF States, Polling
<1>14. CASE ReadQueue(c)
  <2>1. q.pc = "queue"
    BY <1>14 DEF ReadQueue
  <2>2. PICK queued : queued = (q.download \in Shown(q.app))
    OBVIOUS
  <2>3. PICK pc : pc = IF queued THEN "again" ELSE "history"
    OBVIOUS
  <2>4. r = [q EXCEPT !.queued = queued, !.pc = pc]
    BY <1>0, <1>14, <2>2, <2>3 DEF ReadQueue
  <2>5. r.pc = pc /\ r.queued = queued /\ r.started = q.started /\ Same
    BY <1>0, <2>4 DEF Client
  <2>6. ~queued /\ q.started = arr[q.app].started => q.download \notin arr[q.app].queue
    BY <1>0, <2>1, <2>2 DEF Relies, Sure, Shown, Polling
  <2> QED
    BY <1>0, <2>1, <2>3, <2>5, <2>6 DEF Relies, LateSteps, ActionSteps, Polling
<1>15. CASE ReadHistory(c)
  <2>1. q.pc = "history"
    BY <1>15 DEF ReadHistory
  <2>2. PICK recorded : recorded = (q.download \in arr[q.app].recorded)
    OBVIOUS
  <2>3. r = [q EXCEPT !.pc = "again", !.recorded = recorded]
    BY <1>0, <1>15, <2>2 DEF ReadHistory
  <2>4. r.pc = "again" /\ r.queued = q.queued /\ r.started = q.started /\ Same
    BY <1>0, <2>3 DEF Client
  <2> QED
    BY <1>0, <2>1, <2>4 DEF Relies, LateSteps, ActionSteps, Polling
<1>16. CASE ReadStartAgain(c)
  <2>1. q.pc = "again"
    BY <1>16 DEF ReadStartAgain
  <2>2. \/ client' = [client EXCEPT ![c] = Idle]
        \/ Conclude(c, "unknown") \/ Conclude(c, "unconfirmed")
        \/ Conclude(c, "imported") /\ ~q.queued /\ q.started = arr[q.app].started
    BY <1>16 DEF ReadStartAgain
  <2>3. CASE Conclude(c, "imported") /\ ~q.queued /\ q.started = arr[q.app].started
    BY <1>0, <1>11, <2>1, <2>3 DEF States, Polling, Relies
  <2> QED
    BY <1>2, <1>11, <2>1, <2>2, <2>3 DEF States, Polling
<1>17. CASE Finish(c) \/ StatusFails(c) \/ ForgetAfter(c)
  BY <1>2, <1>17 DEF Finish, StatusFails, ForgetAfter
<1>18. CASE ForgetBefore(c) \/ WriteRow(c)
  <2>1. Goto(c, "write") \/ Goto(c, "forgotten")
    BY <1>18 DEF ForgetBefore, WriteRow
  <2> QED
    BY <1>3, <2>1 DEF LateSteps, Polling, ActionSteps
<1> QED
  BY <1>4, <1>5, <1>6, <1>7, <1>8, <1>9, <1>10, <1>12, <1>13, <1>14, <1>15, <1>16, <1>17, <1>18
  DEF ClientStep, LastStep

\* A post that is waited for goes where its client sent it.
LEMMA PostsFit ==
    ASSUME SendInv, PostFits, [Next]_vars
    PROVE  PostFits'
<1>0. /\ client \in [Clients -> Client] /\ asked.posts \in Nat /\ PostsOnce /\ WireInv
      /\ TypeInv /\ CommandsFit /\ Idle.pc = "idle"
      /\ \A a \in Apps : arr[a].cmds \in Seq(Command)
      /\ \A c \in Clients : AwaitsImport(c) => client[c].app \in Apps
  BY PostsBound, BoundsAssumption
  DEF SendInv, TypeInv, TypeOK, App, Idle, RequestsFit, Fits, AwaitsImport, ActionSteps
<1> DEFINE Fit(c) ==
        /\ \A w \in wire : w.kind = "POST" /\ w.post = client[c].post =>
              w.app = client[c].app /\ w.download = client[c].download
        /\ \A i \in DOMAIN arr[client[c].app].cmds :
              arr[client[c].app].cmds[i].post = client[c].post
              => arr[client[c].app].cmds[i].download = client[c].download
<1>a. \A c \in Clients : AwaitsImport(c) => client[c].post # 0
  BY <1>0 DEF PostsOnce, AwaitsImport
<1>b. \A c \in Clients : AwaitsImport(c) => Fit(c)
  BY <1>a DEF PostFits, Taken
<1>c. ASSUME \A c \in Clients : AwaitsImport(c)' => Fit(c)'
      PROVE  PostFits'
  BY <1>c DEF PostFits, Taken
<1>1. ASSUME UNCHANGED arr,
             \A c \in Clients : AwaitsImport(c)' => AwaitsImport(c) /\ client'[c] = client[c],
             \A v \in wire' : v.kind = "POST" =>
                \E w \in wire : /\ w.kind = "POST" /\ v.post = w.post
                                /\ v.app = w.app /\ v.download = w.download
      PROVE  PostFits'
  <2>1. ASSUME NEW c \in Clients, AwaitsImport(c)'
        PROVE  Fit(c)'
    <3>1. Fit(c) /\ client'[c] = client[c]
      BY <1>1, <1>b, <2>1
    <3> QED
      BY <1>1, <3>1
  <2> QED
    BY <1>c, <2>1
<1>2. ASSUME NEW c \in Clients, CalmStep(c)
      PROVE  PostFits'
  <2>1. /\ UNCHANGED <<arr, wire>> /\ client'[c].pc # "answer"
        /\ \A e \in Clients \ {c} : client'[e] = client[e]
    BY <1>0, <1>2, CalmSteps DEF Changes
  <2> QED
    BY <1>1, <2>1 DEF AwaitsImport
<1>3. ASSUME NEW c \in Clients, LastStep(c)
      PROVE  PostFits'
  <2>1. UNCHANGED arr /\ client' = [client EXCEPT ![c] = Idle]
    BY <1>3, LastSteps
  <2>2. \A e \in Clients : AwaitsImport(e)' => AwaitsImport(e) /\ client'[e] = client[e]
    BY <1>0, <2>1 DEF AwaitsImport
  <2>3. \A v \in wire' : \E w \in wire : Left(c, w, v)
    BY <1>3, LastLeaves
  <2> QED
    BY <1>1, <2>1, <2>2, <2>3 DEF Left
<1>4. ASSUME NEW c \in Clients, SendRequest(c)
      PROVE  PostFits'
  <2>1. PICK w \in wire' :
           /\ wire' = wire \cup {w} /\ Sends(c, w)'
           /\ client[c].kind = "import" => w.post = asked.posts + 1
           /\ client'[c].kind = client[c].kind /\ client'[c].app = client[c].app
    BY <1>4, SendWire
  <2>2. UNCHANGED arr /\ \A e \in Clients \ {c} : client'[e] = client[e]
    BY <1>4, SendWire DEF Changes
  <2>3. /\ w.app = client'[c].app /\ w.download = client'[c].download /\ w.post = client'[c].post
        /\ w.kind = "POST" <=> client[c].kind = "import"
    BY <2>1 DEF Sends
  <2>4. ASSUME NEW e \in Clients, AwaitsImport(e)', e # c
        PROVE  Fit(e)'
    <3>1. client'[e] = client[e] /\ AwaitsImport(e) /\ client[e].post \in 1 .. asked.posts
      BY <1>0, <2>2, <2>4 DEF AwaitsImport, PostsOnce
    <3>2. w.kind = "POST" => w.post # client[e].post
      BY <1>0, <2>1, <2>3, <3>1
    <3> QED
      BY <1>b, <2>1, <2>2, <3>1, <3>2
  <2>5. ASSUME AwaitsImport(c)'
        PROVE  Fit(c)'
    <3>1. client'[c].post = asked.posts + 1 /\ client'[c].app \in Apps
      <4>1. client[c].kind = "import" /\ client[c].pc = "send"
        BY <1>4, <2>1, <2>5, SendWire DEF AwaitsImport
      <4>2. client[c].app \in Apps
        BY <1>0, <4>1 DEF TypeInv, RequestsFit, Fits, ActionSteps, Actions
      <4> QED
        BY <2>1, <2>3, <4>1, <4>2
    <3>2. \A v \in wire : v.kind = "POST" => v.post # client'[c].post
      BY <1>0, <3>1 DEF PostsOnce
    <3>3. \A i \in DOMAIN arr[client'[c].app].cmds : arr[client'[c].app].cmds[i].post # client'[c].post
      BY <1>0, <3>1 DEF PostsOnce
    <3> QED
      BY <2>1, <2>2, <2>3, <3>2, <3>3
  <2> QED
    BY <1>c, <2>4, <2>5
<1>5. ASSUME NEW w \in wire, AppTakes(w)
      PROVE  PostFits'
  <2>1. /\ wire' = wire \ {w} /\ UNCHANGED client
        /\ \A a \in Apps : a # w.app \/ w.kind # "POST" => arr'[a].cmds = arr[a].cmds
    BY <1>5, TakenOnce
  <2>2. SUFFICES ASSUME NEW c \in Clients, AwaitsImport(c)'
                 PROVE  Fit(c)'
    BY <1>c
  <2>3. AwaitsImport(c) /\ client'[c] = client[c] /\ client[c].app \in Apps /\ Fit(c)
    BY <1>0, <1>b, <2>1, <2>2 DEF AwaitsImport
  <2>4. PICK a \in Apps : a = client[c].app
    BY <2>3
  <2>5. CASE a # w.app \/ w.kind # "POST"
    BY <2>1, <2>3, <2>4, <2>5
  <2>6. CASE a = w.app /\ w.kind = "POST"
    <3>1. PICK command : command = [download |-> w.download, post |-> w.post, at |-> now, status |-> "running"]
      OBVIOUS
    <3>2. arr'[a].cmds = Append(arr[a].cmds, command) /\ command.post = w.post /\ command.download = w.download
      BY <1>5, <2>6, <3>1, TakenOnce
    <3>3. PICK cmds : cmds = arr[a].cmds
      OBVIOUS
    <3>4. cmds \in Seq(Command) /\ Len(cmds) \in Nat /\ DOMAIN cmds = 1 .. Len(cmds)
      BY <1>0, <3>3
    <3>5. /\ DOMAIN arr'[a].cmds = 1 .. (Len(cmds) + 1)
          /\ arr'[a].cmds[Len(cmds) + 1] = command
          /\ \A i \in 1 .. Len(cmds) : arr'[a].cmds[i] = cmds[i]
      BY <3>2, <3>3, <3>4
    <3>6. \A i \in 1 .. (Len(cmds) + 1) : i \in 1 .. Len(cmds) \/ i = Len(cmds) + 1
      BY <3>4
    <3>7. command.post = client[c].post => command.download = client[c].download
      BY <2>3, <2>6, <3>2
    <3>8. \A i \in DOMAIN arr'[a].cmds :
             arr'[a].cmds[i].post = client[c].post => arr'[a].cmds[i].download = client[c].download
      <4>1. \A i \in 1 .. Len(cmds) : cmds[i].post = client[c].post => cmds[i].download = client[c].download
        BY <2>3, <2>4, <3>3, <3>4
      <4>2. ASSUME NEW i \in DOMAIN arr'[a].cmds
            PROVE  arr'[a].cmds[i].post = client[c].post => arr'[a].cmds[i].download = client[c].download
        <5>1. CASE i \in 1 .. Len(cmds)
          BY <3>5, <4>1, <5>1
        <5>2. CASE i = Len(cmds) + 1
          BY <3>5, <3>7, <5>2
        <5> QED
          BY <3>5, <3>6, <4>2, <5>1, <5>2
      <4> QED
        BY <4>2
    <3> QED
      BY <2>1, <2>3, <2>4, <3>8
  <2> QED
    BY <2>5, <2>6
<1>6. ASSUME NEW b \in Apps, AppStep(b)
      PROVE  PostFits'
  <2>1. UNCHANGED <<client, wire>>
    BY <1>6 DEF AppStep, CommandEnds, AppForgets, AppRefreshes, AppRestarts
  <2>2. \A a \in Apps : Ends(a)
    BY <1>6, AppsKept DEF SendInv, TypeInv, TypeOK
  <2>3. SUFFICES ASSUME NEW c \in Clients, AwaitsImport(c)'
                 PROVE  Fit(c)'
    BY <1>c
  <2>4. AwaitsImport(c) /\ client'[c] = client[c] /\ client[c].app \in Apps /\ Fit(c)
    BY <1>0, <1>b, <2>1, <2>3 DEF AwaitsImport
  <2>5. Ends(client[c].app)
    BY <2>2, <2>4
  <2> QED
    BY <2>1, <2>4, <2>5 DEF Ends, EndsAs
<1>7. CASE Tick \/ UNCHANGED vars
  <2>1. UNCHANGED <<client, arr>> /\ wire' \subseteq wire
    BY <1>7 DEF Tick, vars
  <2> QED
    BY <1>1, <2>1 DEF AwaitsImport
<1> QED
  BY <1>2, <1>3, <1>4, <1>5, <1>6, <1>7 DEF Next, ClientStep, CalmStep, QuietStep, EarlyStep, LastStep

LEMMA FollowsChange ==
    ASSUME [Next]_vars
    PROVE  \/ UNCHANGED <<sent, lines>>
           \/ UNCHANGED lines /\ \A i \in Ids : sent'[i] = Nothing
           \/ \E c \in Clients : UNCHANGED lines /\ ImportAnswered(c) /\ ~UNCHANGED sent
           \/ \E c \in Clients : Finish(c) /\ ~UNCHANGED <<sent, lines>>
<1>1. ASSUME NEW c \in Clients, ClientStep(c)
      PROVE  \/ UNCHANGED <<sent, lines>> \/ ForgetBefore(c) \/ ForgetAfter(c) \/ Finish(c)
             \/ ImportAnswered(c) /\ UNCHANGED lines
  BY <1>1 DEF ClientStep, StartRequest, ReadRow, LookupSent, AskCommand, ReadStart, ReadQueue,
     ReadHistory, ReadStartAgain, StatusFails, WriteRow, EnterAction, FindDownload,
     GiveUpBeforeSending, ListCommands, CheckGuard, CheckRevision, SendRequest, NotTaken,
     ImportAnswered, ImportAnswerLost, DiscardAnswered, DiscardAnswerLost
<1>2. ASSUME NEW c \in Clients, ForgetBefore(c) \/ ForgetAfter(c)
      PROVE  UNCHANGED lines /\ \A i \in Ids : sent'[i] = Nothing
  BY <1>2 DEF ForgetBefore, ForgetAfter, Forget
<1>3. ASSUME NEW w \in wire, AppTakes(w)
      PROVE  UNCHANGED <<sent, lines>>
  BY <1>3 DEF AppTakes
<1>4. ASSUME NEW a \in Apps, AppStep(a)
      PROVE  UNCHANGED <<sent, lines>>
  BY <1>4 DEF AppStep, CommandEnds, AppForgets, AppRefreshes, AppRestarts
<1>5. ASSUME Tick \/ UNCHANGED vars
      PROVE  UNCHANGED <<sent, lines>>
  BY <1>5 DEF Tick, vars
<1>6. (\E c \in Clients : ClientStep(c)) \/ UNCHANGED <<sent, lines>>
  <2>1. \/ \E c \in Clients : ClientStep(c)
        \/ \E w \in wire : AppTakes(w)
        \/ \E a \in Apps : AppStep(a)
        \/ Tick \/ UNCHANGED vars
    BY Zenon DEF Next
  <2> QED
    BY <1>3, <1>4, <1>5, <2>1
<1> QED
  BY <1>1, <1>2, <1>6

LEMMA FollowKept ==
    ASSUME SendInv, FollowInv, [Next]_vars
    PROVE  FollowInv'
<1>0. /\ client \in [Clients -> Client] /\ arr \in [Apps -> App] /\ lines \in Seq(Line)
      /\ sent \in [Ids -> SentImport \cup {Nothing}] /\ RequestsFit /\ CommandsFit
      /\ \A a \in Apps : Ages(a)
      /\ now \in Nat /\ now' \in Nat /\ now <= now'
      /\ TimesInv /\ PostFits /\ FollowedSure
  BY PostsBound, AppsAge DEF SendInv, TypeInv, TypeOK, FollowInv
<1>1. TimesInv'
  <2>1. SUFFICES ASSUME NEW a \in Apps
                 PROVE  arr'[a].started <= now' /\ \A i \in DOMAIN arr'[a].cmds : arr'[a].cmds[i].at <= now'
    BY DEF TimesInv
  <2>2. /\ arr[a].started \in Nat /\ arr[a].started <= now
        /\ \A i \in DOMAIN arr[a].cmds : arr[a].cmds[i].at \in Nat /\ arr[a].cmds[i].at <= now
    BY <1>0, AppTimes DEF TimesInv, SendInv, TypeInv
  <2> QED
    BY <1>0, <2>2 DEF Ages
<1>2. PostFits'
  BY <1>0, PostsFit
<1>3. \A c \in Clients : Relies(client[c])'
  <2>1. ASSUME NEW c \in Clients, client'[c] = client[c]
        PROVE  Relies(client[c])'
    <3>1. PICK r : r = client[c]
      OBVIOUS
    <3>2. Relies(r)
      BY <3>1 DEF FollowInv
    <3>3. Relies(r)'
      BY <1>0, <3>1, <3>2, ReliesAges
    <3>4. client'[c] = r
      BY <2>1, <3>1
    <3> QED
      BY <3>3, <3>4 DEF Relies, Sure
  <2>2. ASSUME NEW c \in Clients, ClientStep(c)
        PROVE  Relies(client[c])'
    <3>1. Relies(client'[c]) /\ UNCHANGED arr
      BY <2>2, ReliesStep, ClientsLeaveApps
    <3> QED
      BY <3>1 DEF Relies, Sure
  <2>3. ASSUME NEW c \in Clients, ClientStep(c), NEW e \in Clients \ {c}
        PROVE  client'[e] = client[e]
    BY <2>3, ClientsLeaveApps DEF Changes
  <2>4. (\E c \in Clients : ClientStep(c)) \/ UNCHANGED client
    BY DEF Next, vars, AppTakes, AppStep, CommandEnds, AppForgets, AppRefreshes, AppRestarts, Tick
  <2> QED
    BY <2>1, <2>2, <2>3, <2>4
<1>a. \A i \in Ids : sent[i] # Nothing => sent[i].app \in Apps
  BY <1>0 DEF SentImport
\* What stays followed, for the same app and download, is as sure as before.
<1>4. ASSUME \A i \in Ids : sent'[i] # Nothing =>
                sent[i] # Nothing /\ sent'[i].app = sent[i].app /\ sent'[i].download = sent[i].download
      PROVE  FollowedSure'
  <2>1. ASSUME NEW i \in Ids, sent'[i] # Nothing
        PROVE  \E a, d : sent'[i].app = a /\ sent'[i].download = d /\ Sure(a, i, d)'
    <3>1. PICK a, d : a = sent[i].app /\ d = sent[i].download
      OBVIOUS
    <3>2. Sure(a, i, d) /\ a \in Apps /\ sent'[i].app = a /\ sent'[i].download = d
      BY <1>0, <1>4, <1>a, <2>1, <3>1 DEF FollowedSure
    <3>3. Sure(a, i, d)'
      BY <1>0, <3>2, SureAges
    <3> QED
      BY <3>2, <3>3
  <2> QED
    BY <2>1 DEF FollowedSure, Sure
<1>5. ASSUME NEW c \in Clients, ImportAnswered(c), ~UNCHANGED sent
      PROVE  FollowedSure'
  <2>1. AwaitsImport(c) /\ client[c].app \in Apps /\ arr[client[c].app].visible
    BY <1>0, <1>5 DEF ImportAnswered, At, AwaitsImport, RequestsFit, Fits, ActionSteps, FollowInv, Relies, LateSteps
  <2>2. PICK app, download, t : app = client[c].app /\ download = client[c].download /\ t = now
    OBVIOUS
  <2>3. PICK i \in Taken(c) : sent' = [sent EXCEPT ![i] =
            [app |-> app, download |-> download, at |-> t, logged |-> FALSE]]
    BY <1>5, <2>2 DEF ImportAnswered
  <2>4. UNCHANGED arr
    BY <1>5 DEF ImportAnswered
  <2>5. i \in Ids /\ i \in DOMAIN arr[app].cmds /\ arr[app].cmds[i].download = download
    BY <1>0, <2>1, <2>2, <2>3 DEF Taken, CommandsFit, PostFits
  <2>6. Sure(app, i, download)
    BY <2>1, <2>2, <2>5 DEF Sure
  <2>7. sent'[i].app = app /\ sent'[i].download = download /\ \A k \in Ids \ {i} : sent'[k] = sent[k]
    BY <1>0, <2>3, <2>5
  <2> QED
    BY <1>0, <2>4, <2>6, <2>7 DEF FollowedSure, Sure
<1>6. ASSUME NEW c \in Clients, Finish(c), ~UNCHANGED <<sent, lines>>
      PROVE  FollowedSure'
  <2>1. PICK i, result : i = client[c].id /\ result = client[c].result
    OBVIOUS
  <2>2. i \in Ids /\ client[c].pc = "final"
    BY <1>0, <1>6, <2>1 DEF Finish, RequestsFit, Fits, StatusSteps
  <2>3. /\ sent[i] # Nothing /\ UNCHANGED arr
        /\ sent' = [sent EXCEPT ![i].logged = TRUE]
        /\ lines' = Append(lines, [app |-> sent[i].app, id |-> i,
                                   download |-> sent[i].download, state |-> result])
    BY <1>6, <2>1 DEF Finish
  <2>4. sent[i] \in SentImport
    BY <1>0, <2>2, <2>3
  <2>5. \A k \in Ids : sent'[k] # Nothing =>
            sent[k] # Nothing /\ sent'[k].app = sent[k].app /\ sent'[k].download = sent[k].download
    <3>1. sent'[i].app = sent[i].app /\ sent'[i].download = sent[i].download
      BY <1>0, <2>2, <2>3, <2>4 DEF SentImport
    <3>2. \A k \in Ids \ {i} : sent'[k] = sent[k]
      BY <1>0, <2>3
    <3> QED
      BY <2>3, <3>1, <3>2
  <2> QED
    BY <1>4, <2>5
<1>7. FollowedSure'
  <2>1. CASE UNCHANGED <<sent, lines>>
    BY <1>4, <2>1
  <2>2. CASE UNCHANGED lines /\ \A i \in Ids : sent'[i] = Nothing
    BY <1>4, <2>2
  <2> QED
    BY <1>5, <1>6, <2>1, <2>2, FollowsChange
<1> QED
  BY <1>1, <1>2, <1>3, <1>7 DEF FollowInv

LEMMA FollowInit == Init => SendInv /\ FollowInv
<1>1. SUFFICES ASSUME Init PROVE SendInv /\ FollowInv
  OBVIOUS
<1>2. /\ \A i \in Ids : sent[i] = Nothing
      /\ \A c \in Clients : client[c] = Idle
      /\ now = 1 /\ \A a \in Apps : arr[a].started = 0 /\ arr[a].cmds = <<>>
  BY <1>1 DEF Init
<1>3. Idle.pc = "idle"
  BY DEF Idle
<1>4. TimesInv /\ FollowedSure
  BY <1>2 DEF TimesInv, FollowedSure
<1>5. PostFits /\ \A c \in Clients : Relies(client[c])
  BY <1>2, <1>3 DEF PostFits, AwaitsImport, Relies, LateSteps, ActionSteps, Polling
<1> QED
  BY <1>1, <1>4, <1>5, SendInit DEF FollowInv

\* Whatever is lost, late, edited or restarted: what a status request calls imported
\* has left the app's queue (_completed).
THEOREM ImportedLeftQueue == Spec => []ImportedHasLeft
<1>1. SendInv /\ FollowInv /\ [Next]_vars => SendInv' /\ FollowInv'
  BY WireKept, TypeKept, FollowKept DEF SendInv
<1>2. FollowInv => ImportedHasLeft
  BY DEF FollowInv, Relies, ImportedHasLeft
<1> QED
  BY <1>1, <1>2, FollowInit, PTL DEF Spec

\* The entry a result is logged under is one of the app the result was read from.
SameImport ==
    \A c \in Clients :
        client[c].pc = "final" /\ sent[client[c].id] # Nothing
        => sent[client[c].id].app = client[c].app

\* What the log calls imported has left the queue.
LEMMA LoggedKept ==
    ASSUME SendInv, FollowInv, LoggedLeft, SameImport, [Next]_vars
    PROVE  LoggedLeft'
<1>0. /\ arr \in [Apps -> App] /\ lines \in Seq(Line)
      /\ sent \in [Ids -> SentImport \cup {Nothing}] /\ RequestsFit /\ CommandsFit
      /\ \A a \in Apps : Ages(a)
      /\ FollowedSure
  BY PostsBound, AppsAge DEF SendInv, TypeInv, TypeOK, FollowInv
<1>1. ASSUME UNCHANGED lines
      PROVE  LoggedLeft'
  <2>1. \A j \in DOMAIN lines : lines[j] \in Line
    BY <1>0
  <2>2. \A j \in DOMAIN lines : lines[j].app \in Apps
    BY <2>1 DEF Line
  <2> QED
    BY <1>0, <1>1, <2>2 DEF LoggedLeft, Ages
<1>2. ASSUME NEW c \in Clients, Finish(c), ~UNCHANGED <<sent, lines>>
      PROVE  LoggedLeft'
  <2>1. PICK i, result : i = client[c].id /\ result = client[c].result
    OBVIOUS
  <2>2. i \in Ids /\ client[c].pc = "final"
    BY <1>0, <1>2, <2>1 DEF Finish, RequestsFit, Fits, StatusSteps
  <2>3. /\ sent[i] # Nothing /\ UNCHANGED arr
        /\ sent' = [sent EXCEPT ![i].logged = TRUE]
        /\ lines' = Append(lines, [app |-> sent[i].app, id |-> i,
                                   download |-> sent[i].download, state |-> result])
    BY <1>2, <2>1 DEF Finish
  <2>4. sent[i] \in SentImport
    BY <1>0, <2>2, <2>3
  <2>6. PICK app, download : app = sent[i].app /\ download = sent[i].download
    OBVIOUS
  <2>7. client[c].app = app /\ client[c].download = download
    <3>1. client[c].app = app
      BY <2>1, <2>2, <2>3, <2>6 DEF SameImport
    <3>2. Sure(app, i, client[c].download)
      BY <2>1, <2>2, <3>1 DEF FollowInv, Relies, Polling
    <3>3. Sure(app, i, download)
      BY <1>0, <2>2, <2>3, <2>6 DEF FollowedSure
    <3> QED
      BY <3>1, <3>2, <3>3 DEF Sure
  <2>8. result = "imported" => download \notin arr[app].queue
    BY <2>1, <2>2, <2>7 DEF FollowInv, Relies
  <2>9. PICK line : line = [app |-> app, id |-> i, download |-> download, state |-> result]
    OBVIOUS
  <2>10. line.app = app /\ line.download = download /\ line.state = result
    BY <2>9
  <2>11. /\ DOMAIN lines = 1 .. Len(lines) /\ DOMAIN lines' = 1 .. (Len(lines) + 1) /\ Len(lines) \in Nat
         /\ lines'[Len(lines) + 1] = line /\ \A j \in 1 .. Len(lines) : lines'[j] = lines[j]
    BY <1>0, <2>3, <2>6, <2>9
  <2>12. \A j \in 1 .. (Len(lines) + 1) : j \in 1 .. Len(lines) \/ j = Len(lines) + 1
    BY <2>11
  <2> QED
    BY <1>0, <2>3, <2>8, <2>10, <2>11, <2>12 DEF LoggedLeft
<1> QED
  BY <1>1, <1>2, FollowsChange

\* As long as _final never logs what was read from another app than the entry is of
\* (the comparison it does not make), the log is right as well (_completed, _final).
THEOREM LogIsRight == Spec /\ []SameImport => []ImportedIsComplete
<1>1. Init => SendInv /\ FollowInv /\ LoggedLeft
  BY FollowInit DEF Init, LoggedLeft
<1>2. SendInv /\ FollowInv /\ LoggedLeft /\ SameImport /\ [Next]_vars
      => SendInv' /\ FollowInv' /\ LoggedLeft'
  BY WireKept, TypeKept, FollowKept, LoggedKept DEF SendInv
<1>3. LoggedLeft => ImportedIsComplete
  BY DEF LoggedLeft, ImportedIsComplete
<1> QED
  BY <1>1, <1>2, <1>3, PTL DEF Spec
=============================================================================
