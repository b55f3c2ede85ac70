---------------------------- MODULE Federation ----------------------------
(***************************************************************************)
(* Federated Logging's push: consoles (Sites) that push closed sessions and *)
(* whole nets to one upstream QuickLogger.  A push is a thread of the       *)
(* console (PushRunner) that runs scp and then ssh, each for a limited time; *)
(* what they run upstream are processes of their own (jobs here), which     *)
(* nobody stops when the console has given up on them.  All the sites use   *)
(* the same upstream user, so they share its /imports.                      *)
(***************************************************************************)
EXTENDS Integers, FiniteSets, Sequences, Functions

CONSTANTS
    Sites,         \* consoles with this upstream set
    Sessions,      \* sessions logged at the sites (each has all of them)
    Names,         \* net names (NetNamesAreTheSame: equality)
    HomeOf,        \* [Sessions -> Names]: the net a session was logged in
    AdHocNames,    \* the names that are ad hoc nets'
    Alike,         \* pairs of names that NetNamesLookAlike
    FileOf,        \* [Sessions -> file names]: the net's name and the date
    NetFile,       \* [Names -> file names]: the net's name
    InitialNets,   \* the upstream's nets at first: [ids -> Names]
    InitialGrants, \* those the upstream user may log on
    CanCreateNets, \* is the upstream user a Net Admin
    Pushable,      \* bound: what is pushed: subsets of Sessions \cup Names
    MaxPushes,     \* bound: pushes asked for (a confirmed one counts once)
    MaxNets,       \* bound: net ids upstream
    MaxRows,       \* bound: sessions upstream
    MaxJobs,       \* bound: upstream processes at once
    NoName, NoFile \* no net; no upload

VARIABLES
    open,     \* the sessions still being logged
    push,     \* each site's push, as AppState has it
    thread,   \* each site's PushRunner thread, and its discard thread
    posted,   \* each site's results its UI thread has yet to see
    prompt,   \* what each site's operator is being asked
    pushed,   \* the sessions each site shows as pushed (pushed_at)
    nets,     \* upstream: its nets, by id
    grants,   \* upstream: the nets the user may log on
    rows,     \* upstream: the sessions in them
    uploads,  \* upstream: the user's /imports
    jobs,     \* upstream: the processes running a command
    agreed,   \* history: what operators said yes to
    asked     \* how many pushes were asked for

site == <<open, push, thread, posted, prompt, pushed, agreed, asked>>
database == <<nets, grants, rows>>
vars == <<site, database, uploads, jobs>>

Files == Range(FileOf) \cup Range(NetFile)
NetIds == 1..MaxNets
JobIds == 1..MaxJobs
Subjects == Sessions \cup Names

ASSUME FederationAssumption ==
    /\ HomeOf \in [Sessions -> Names] /\ DOMAIN FileOf = Sessions /\ DOMAIN NetFile = Names
    /\ AdHocNames \subseteq Names /\ Alike \subseteq Names \X Names
    /\ DOMAIN InitialNets \subseteq NetIds /\ Range(InitialNets) \subseteq Names
    /\ InitialGrants \subseteq DOMAIN InitialNets /\ Pushable \subseteq Subjects
    /\ CanCreateNets \in BOOLEAN /\ MaxRows \in Nat /\ MaxJobs \in Nat
    /\ Sessions \cap Names = {} /\ NoName \notin Subjects /\ NoFile \notin Files

(* A .qlsession holds one session, a .qlnet a net's.                         *)
Contents == [net : BOOLEAN, name : Names, sessions : SUBSET Sessions]
Statuses == {"imported", "merged", "already-imported", "needs-confirmation", "no-match", "refused",
             "gone", "none"}
Replies == [status : Statuses, name : Names \cup {NoName}]
Results == [kind : {"pushed", "asks", "failed"}, name : Names \cup {NoName}]

IsNet(subject) == subject \in Names
RemoteName(subject) == IF IsNet(subject) THEN NetFile[subject] ELSE FileOf[subject]

Idle == [at |-> "idle"]
NoReply == [status |-> "none", name |-> NoName]
Failed == [kind |-> "failed", name |-> NoName]
NoPush == [running |-> FALSE, of |-> NoName, file |-> NoFile, asked |-> NoName]

Init ==
    /\ open \in SUBSET Sessions
    /\ push = [s \in Sites |-> NoPush]
    /\ thread = [s \in Sites |-> [push |-> Idle, discard |-> Idle]]
    /\ posted = [s \in Sites |-> << >>]
    /\ prompt = [s \in Sites |-> "none"]
    /\ pushed = [s \in Sites |-> {}]
    /\ nets = [id \in DOMAIN InitialNets |-> [name |-> InitialNets[id], adHoc |-> FALSE]]
    /\ grants = InitialGrants
    /\ rows = {} /\ uploads = [f \in Files |-> NoFile] /\ jobs = {} /\ agreed = {} /\ asked = 0

-----------------------------------------------------------------------------
(* RunProgram: the program a thread runs starts a process upstream.          *)

Waiting == {"copying", "importing", "confirming", "discarding"}
FreeJob ==
    LET threads == UNION {{thread[s].push, thread[s].discard} : s \in Sites}
        used == {j.id : j \in jobs} \cup {t.job : t \in {u \in threads : u.at \in Waiting}}
    IN  {id \in JobIds \ used : \A k \in JobIds \ used : id <= k}

RunProgram(t) ==
    [id |-> t.job, at |-> "start", file |-> t.file, net |-> 0, reply |-> NoReply,
     does |-> CASE t.at = "copying" -> "upload" [] t.at = "discarding" -> "discard" [] OTHER -> "import",
     confirm |-> IF t.at \in {"importing", "confirming"} THEN t.confirm ELSE NoName,
     content |-> IF t.at = "copying" THEN t.content ELSE NoFile]

-----------------------------------------------------------------------------
(* The console's UI thread.                                                 *)

ClosesSession(session) ==
    /\ session \in open /\ open' = open \ {session}
    /\ UNCHANGED <<push, thread, posted, prompt, pushed, agreed, asked, database, uploads, jobs>>

AlwaysPossible(s) == TRUE  \* mutant: a running push is not noticed
CheckPushPossible(s) == ~push[s].running

(* GatherSessionSlice; WithoutOpenSessions(GatherNetSlice).                  *)
WithoutOpenSessions(sessions) == sessions \ open
Gathered(subject) ==
    IF IsNet(subject)
    THEN [net |-> TRUE, name |-> subject,
          sessions |-> WithoutOpenSessions({x \in Sessions : HomeOf[x] = subject})]
    ELSE [net |-> FALSE, name |-> HomeOf[subject], sessions |-> {subject}]

(* PushRunner::Start, once the last thread has ended: scp, or ssh straight    *)
(* away on the upload the upstream has kept.                                *)
StartPush(s, subject, confirm) ==
    LET to == IF confirm = NoName THEN "copying" ELSE "confirming" IN
    /\ CheckPushPossible(s) /\ thread[s].push.at = "idle"
    /\ subject \in Sessions \ open \/ IsNet(subject)
    /\ push' = [push EXCEPT ![s] = [running |-> TRUE, of |-> subject,
                                    file |-> RemoteName(subject), asked |-> @.asked]]
    /\ \E id \in FreeJob :
         LET t == [at |-> to, job |-> id, confirm |-> confirm, file |-> RemoteName(subject),
                   content |-> Gathered(subject)]
         IN  /\ thread' = [thread EXCEPT ![s].push = t]
             /\ jobs' = jobs \cup {RunProgram(t)}

Pushes(s) ==
    /\ prompt[s] = "none" /\ asked < MaxPushes /\ asked' = asked + 1
    /\ \E subject \in Pushable : StartPush(s, subject, NoName)
    /\ UNCHANGED <<open, posted, prompt, pushed, agreed, database, uploads>>

(* PushRunner::Discard waits for the last discard to end, on the UI thread.  *)
DiscardKeptUpload(s) ==
    /\ thread[s].discard.at = "idle"
    /\ \E id \in FreeJob :
         LET t == [at |-> "discarding", job |-> id, file |-> push[s].file]
         IN  /\ thread' = [thread EXCEPT ![s].discard = t]
             /\ jobs' = jobs \cup {RunProgram(t)}

FinishPush(s) ==
    LET result == Head(posted[s]) IN
    /\ posted[s] # << >> /\ posted' = [posted EXCEPT ![s] = Tail(@)]
    /\ push' = [push EXCEPT ![s].running = FALSE,
                            ![s].asked = IF result.kind = "asks" /\ prompt[s] = "none"
                                         THEN result.name ELSE @]
    /\ pushed' = IF result.kind = "pushed" /\ ~IsNet(push[s].of)
                 THEN [pushed EXCEPT ![s] = @ \cup {push[s].of}] ELSE pushed
    /\ IF result.kind = "asks" /\ prompt[s] # "none"
       THEN DiscardKeptUpload(s)
       ELSE UNCHANGED <<thread, jobs>>
    /\ prompt' = IF result.kind = "asks" /\ prompt[s] = "none"
                 THEN [prompt EXCEPT ![s] = "push"] ELSE prompt
    /\ UNCHANGED <<open, agreed, asked, database, uploads>>

ConfirmPushToNet(s) ==
    /\ prompt[s] = "push"
    /\ prompt' = [prompt EXCEPT ![s] = "none"]
    /\ agreed' = agreed \cup {<<push[s].of, push[s].asked>>}
    /\ StartPush(s, push[s].of, push[s].asked)
    /\ UNCHANGED <<open, posted, pushed, asked, database, uploads>>

DeclinePushToNet(s) ==
    /\ prompt[s] = "push"
    /\ prompt' = [prompt EXCEPT ![s] = "none"]
    /\ DiscardKeptUpload(s)
    /\ UNCHANGED <<open, push, posted, pushed, agreed, asked, database, uploads>>

(* Another question comes up, or is answered.                               *)
OtherPrompt(s) ==
    /\ prompt[s] # "push"
    /\ prompt' = [prompt EXCEPT ![s] = IF @ = "none" THEN "other" ELSE "none"]
    /\ UNCHANGED <<open, push, thread, posted, pushed, agreed, asked, database, uploads, jobs>>

(* QuickLogger quits (~PushRunner drops both threads) and is started again.  *)
Quits(s) ==
    /\ push' = [push EXCEPT ![s] = NoPush]
    /\ thread' = [thread EXCEPT ![s] = [push |-> Idle, discard |-> Idle]]
    /\ posted' = [posted EXCEPT ![s] = << >>]
    /\ prompt' = [prompt EXCEPT ![s] = "none"]
    /\ UNCHANGED <<open, pushed, agreed, asked, database, uploads, jobs>>

-----------------------------------------------------------------------------
(* PushSessionFile, DiscardUpstreamUpload: the threads.                      *)

DecidePushResult(reply) ==
    CASE reply.status \in {"imported", "merged", "already-imported"} -> [kind |-> "pushed", name |-> reply.name]
      [] reply.status = "needs-confirmation" -> [kind |-> "asks", name |-> reply.name]
      [] OTHER -> Failed

(* PushSessionFile goes on to another program once one has ended; else the    *)
(* thread posts the result and ends.                                        *)
GoesOn(t, reply) == t.at = "copying" \/ (t.at = "confirming" /\ reply.status = "gone")
NextProgram(t) == [t EXCEPT !.at = IF t.at = "copying" THEN "importing" ELSE "copying"]

(* Upstream process j has ended with `reply`, and whoever still waits for it  *)
(* hears of it.                                                             *)
EndsWith(j, reply) ==
    LET waits(t) == t.at \in Waiting /\ t.job = j.id
        push_waits == {s \in Sites : waits(thread[s].push)}
        going == {s \in push_waits : GoesOn(thread[s].push, reply)}
    IN  /\ thread' = [s \in Sites |->
              [push |-> IF s \in going THEN NextProgram(thread[s].push)
                        ELSE IF s \in push_waits THEN Idle ELSE thread[s].push,
               discard |-> IF waits(thread[s].discard) THEN Idle ELSE thread[s].discard]]
        /\ jobs' = (jobs \ {j}) \cup {RunProgram(NextProgram(thread[s].push)) : s \in going}
        /\ posted' = [s \in Sites |->
              IF s \in push_waits \ going THEN Append(posted[s], DecidePushResult(reply)) ELSE posted[s]]

OnlyCopyingTimesOut(s) ==  \* mutant: ssh has no time limit, only scp
    /\ thread[s].push.at = "copying"
    /\ thread' = [thread EXCEPT ![s].push = Idle]
    /\ posted' = [posted EXCEPT ![s] = Append(@, Failed)]
    /\ UNCHANGED <<open, push, prompt, pushed, agreed, asked, database, uploads, jobs>>
(* scp or ssh ran out of time, or lost its connection, or never had one.     *)
PushTimesOut(s) ==
    /\ thread[s].push.at \in Waiting
    /\ thread' = [thread EXCEPT ![s].push = Idle]
    /\ posted' = [posted EXCEPT ![s] = Append(@, Failed)]
    /\ UNCHANGED <<open, push, prompt, pushed, agreed, asked, database, uploads, jobs>>
DiscardTimesOut(s) ==
    /\ thread[s].discard.at \in Waiting
    /\ thread' = [thread EXCEPT ![s].discard = Idle]
    /\ UNCHANGED <<open, push, posted, prompt, pushed, agreed, asked, database, uploads, jobs>>

-----------------------------------------------------------------------------
(* The upstream: one process for each command (RunRemoteCommand, and the     *)
(* SFTP server an upload goes to).                                          *)

Becomes(j, k) == jobs' = (jobs \ {j}) \cup {k}
UpstreamOnly == UNCHANGED <<open, push, prompt, pushed, agreed, asked>>

(* The upload's temporary file takes its name at the end (SFTP CLOSE).       *)
UploadLands(j) ==
    /\ j.does = "upload"
    /\ uploads' = [uploads EXCEPT ![j.file] = j.content]
    /\ EndsWith(j, j.reply)
    /\ UpstreamOnly /\ UNCHANGED database

DiscardUpload(j) ==
    /\ j.does = "discard"
    /\ uploads' = [uploads EXCEPT ![j.file] = NoFile]
    /\ EndsWith(j, j.reply)
    /\ UpstreamOnly /\ UNCHANGED database

(* ImportUpload reads the file.                                             *)
ReadsUpload(j) ==
    /\ j.does = "import" /\ j.at = "start"
    /\ IF uploads[j.file] = NoFile
       THEN EndsWith(j, [status |-> "gone", name |-> NoName])
       ELSE Becomes(j, [j EXCEPT !.at = "run", !.content = uploads[j.file]])
            /\ UNCHANGED <<thread, posted>>
    /\ UpstreamOnly /\ UNCHANGED <<database, uploads>>

Recurring == {id \in DOMAIN nets : ~nets[id].adHoc}
FindNamed(name) == {id \in Recurring : nets[id].name = name}
NetNamesLookAlike(a, b) == <<a, b>> \in Alike
MayLog(id) == id \in grants
CanAsk(name) == {id \in Recurring : MayLog(id) /\ NetNamesLookAlike(name, nets[id].name)}

Answers(j, status, name) ==
    Becomes(j, [j EXCEPT !.at = "clean", !.reply = [status |-> status, name |-> name]])
GoesInto(j, id) ==
    IF MayLog(id) THEN Becomes(j, [j EXCEPT !.at = "apply", !.net = id])
    ELSE Answers(j, "refused", nets[id].name)
WithoutAsking(j, id) == GoesInto(j, id)  \* mutant: looking alike is enough
Asks(j, id) ==
    Answers(j, IF MayLog(id) THEN "needs-confirmation" ELSE "refused", nets[id].name)

IsAdHoc(content) == content.name \in AdHocNames

(* A confirmed name is looked up, and still has to look like the file's.     *)
IntoConfirmed(j) ==
    IF FindNamed(j.confirm) = {} THEN Answers(j, "no-match", NoName)
    ELSE \E id \in FindNamed(j.confirm) :
         IF j.confirm = j.content.name \/ NetNamesLookAlike(j.content.name, j.confirm)
         THEN GoesInto(j, id) ELSE Answers(j, "refused", j.confirm)

SessionImportRun(j) ==
    LET name == j.content.name IN
    CASE IsAdHoc(j.content) /\ j.confirm # NoName -> Answers(j, "refused", NoName)
      [] IsAdHoc(j.content) /\ j.confirm = NoName -> Becomes(j, [j EXCEPT !.at = "apply"])
      [] ~IsAdHoc(j.content) /\ j.confirm # NoName -> IntoConfirmed(j)
      [] OTHER -> \/ \E id \in FindNamed(name) : GoesInto(j, id)
                  \/ FindNamed(name) = {} /\ \E id \in CanAsk(name) : Asks(j, id)
                  \/ FindNamed(name) \cup CanAsk(name) = {} /\ Answers(j, "no-match", NoName)

NetImportRun(j) ==
    LET name == j.content.name IN
    CASE IsAdHoc(j.content) -> Answers(j, "refused", NoName)
      [] ~IsAdHoc(j.content) /\ j.confirm # NoName -> IntoConfirmed(j)
      [] OTHER -> \/ \E id \in FindNamed(name) : Asks(j, id)
                  \/ FindNamed(name) = {} /\ \E id \in CanAsk(name) : Asks(j, id)
                  \/ /\ FindNamed(name) \cup CanAsk(name) = {}
                     /\ IF CanCreateNets THEN Becomes(j, [j EXCEPT !.at = "apply"])
                        ELSE Answers(j, "refused", NoName)

(* The net is looked for outside the transaction.                            *)
LooksForTheNet(j) ==
    /\ j.at = "run"
    /\ IF j.content.net THEN NetImportRun(j) ELSE SessionImportRun(j)
    /\ UpstreamOnly /\ UNCHANGED <<thread, posted, database, uploads>>

(* HasNetInstance, PlanNetMerge's sessions that are new; FindAdHocSession.    *)
Has(id, session) == \E r \in rows : r.net = id /\ r.session = session
Lacks(id, sessions) == {x \in sessions : ~Has(id, x)}
FindAdHocSession(session) ==
    {id \in DOMAIN nets : nets[id].adHoc /\ nets[id].name = HomeOf[session] /\ Has(id, session)}

NewNet(content) ==
    LET id == CHOOSE n \in NetIds : n \notin DOMAIN nets IN
    /\ DOMAIN nets # NetIds
    /\ nets' = [n \in DOMAIN nets \cup {id} |->
                  IF n = id THEN [name |-> content.name, adHoc |-> ~content.net] ELSE nets[n]]
    /\ grants' = IF content.net THEN grants \cup {id} ELSE grants

(* CreateNetInstance, once for each: rows have ids of their own.             *)
AddsRows(id, sessions) ==
    /\ Cardinality(rows) + Cardinality(sessions) <= MaxRows
    /\ rows' = rows \cup
         {[id |-> 1 + Cardinality({r \in rows : r.net = id /\ r.session = x}),
           net |-> id, session |-> x] : x \in sessions}

(* ImportInto: the check and ApplySessionSlice under one write lock.         *)
ImportsInto(j) ==
    /\ j.net # 0 /\ ~j.content.net
    /\ AddsRows(j.net, Lacks(j.net, j.content.sessions)) /\ UNCHANGED <<nets, grants>>
    /\ Answers(j, IF Lacks(j.net, j.content.sessions) = {} THEN "already-imported" ELSE "imported",
               nets[j.net].name)

MergesAllOfIt(j) ==  \* mutant: sessions already there are not left out
    /\ j.net # 0 /\ j.content.net
    /\ AddsRows(j.net, j.content.sessions) /\ UNCHANGED <<nets, grants>>
    /\ Answers(j, "merged", nets[j.net].name)
(* MergeInto: PlanNetMerge and ApplyNetMerge under one write lock.           *)
MergesInto(j) ==
    /\ j.net # 0 /\ j.content.net
    /\ AddsRows(j.net, Lacks(j.net, j.content.sessions)) /\ UNCHANGED <<nets, grants>>
    /\ Answers(j, IF Lacks(j.net, j.content.sessions) = {} THEN "already-imported" ELSE "merged",
               nets[j.net].name)

ImportsAdHoc(j) ==
    /\ j.net = 0 /\ ~j.content.net
    /\ \E session \in j.content.sessions :
         IF FindAdHocSession(session) # {}
         THEN Answers(j, "already-imported", j.content.name) /\ UNCHANGED database
         ELSE /\ NewNet(j.content)
              /\ AddsRows(CHOOSE id \in DOMAIN nets' : id \notin DOMAIN nets, {session})
              /\ Answers(j, "imported", j.content.name)

(* AddAsNewNet: nothing is looked at again.                                 *)
AddsAsNewNet(j) ==
    /\ j.net = 0 /\ j.content.net
    /\ NewNet(j.content)
    /\ AddsRows(CHOOSE id \in DOMAIN nets' : id \notin DOMAIN nets, j.content.sessions)
    /\ Answers(j, "imported", j.content.name)

Applies(j) ==
    /\ j.at = "apply"
    /\ ImportsInto(j) \/ MergesInto(j) \/ ImportsAdHoc(j) \/ AddsAsNewNet(j)
    /\ UpstreamOnly /\ UNCHANGED <<thread, posted, uploads>>

(* The upload goes once the import has had its say, whatever it was, and     *)
(* whatever is there by now; only a question keeps it.                       *)
RemovesUpload(j) ==
    /\ j.at = "clean"
    /\ uploads' = IF j.reply.status = "needs-confirmation" THEN uploads
                  ELSE [uploads EXCEPT ![j.file] = NoFile]
    /\ EndsWith(j, j.reply)
    /\ UpstreamOnly /\ UNCHANGED database

(* The process goes without a word: the server stopped, an upload cut off.   *)
JobDies(j) == jobs' = jobs \ {j} /\ UpstreamOnly /\ UNCHANGED <<thread, posted, database, uploads>>

JobGoesOn(j) == UploadLands(j) \/ DiscardUpload(j) \/ ReadsUpload(j) \/ LooksForTheNet(j)
                \/ Applies(j) \/ RemovesUpload(j)

(* Somebody upstream renames a net.                                         *)
RenamesNet ==
    /\ \E id \in Recurring, name \in Names \ AdHocNames :
         /\ FindNamed(name) = {}
         /\ nets' = [nets EXCEPT ![id].name = name]
    /\ UNCHANGED <<site, grants, rows, uploads, jobs>>

-----------------------------------------------------------------------------
Next ==
    \/ \E session \in Sessions : ClosesSession(session)
    \/ \E s \in Sites : Pushes(s) \/ FinishPush(s) \/ ConfirmPushToNet(s) \/ DeclinePushToNet(s)
    \/ \E s \in Sites : OtherPrompt(s) \/ Quits(s)
    \/ \E s \in Sites : PushTimesOut(s) \/ DiscardTimesOut(s)
    \/ \E j \in jobs : JobGoesOn(j) \/ JobDies(j)
    \/ RenamesNet

(* A timeout comes when nothing else does, and a posted task is run; neither *)
(* the operator nor the upstream has to do anything.                        *)
Fairness ==
    \A s \in Sites : WF_vars(PushTimesOut(s)) /\ WF_vars(DiscardTimesOut(s)) /\ WF_vars(FinishPush(s))

Spec == Init /\ [][Next]_vars /\ Fairness

-----------------------------------------------------------------------------
(* Every part of the state has the type the code gives it, and a console has *)
(* a thread at work only while it shows a push as running.                   *)
Places == {"idle"} \cup Waiting
TypeOK ==
    /\ open \subseteq Sessions /\ pushed \in [Sites -> SUBSET Sessions]
    /\ prompt \in [Sites -> {"none", "push", "other"}]
    /\ \A s \in Sites :
         /\ push[s].running \in BOOLEAN /\ push[s].of \in Subjects \cup {NoName}
         /\ push[s].file \in Files \cup {NoFile} /\ push[s].asked \in Names \cup {NoName}
         /\ thread[s].push.at \in Places /\ thread[s].discard.at \in Places
         /\ posted[s] \in Seq(Results) /\ Len(posted[s]) <= 1
         /\ push[s].running <=> (thread[s].push.at # "idle" \/ posted[s] # << >>)
    /\ DOMAIN nets \subseteq NetIds /\ grants \subseteq DOMAIN nets
    /\ \A r \in rows : r.net \in DOMAIN nets /\ r.session \in Sessions
    /\ uploads \in [Files -> Contents \cup {NoFile}]
    /\ \A j \in jobs : j.id \in JobIds /\ j.reply \in Replies /\ j.net \in DOMAIN nets \cup {0}

(* "pushing again is harmless": however often, from wherever and however      *)
(* late a session is pushed, alone or with its net, no net upstream has it   *)
(* twice, and no two ad hoc nets of the one name have it.                    *)
NotTwice ==
    \A a, b \in rows :
        (a # b /\ a.session = b.session)
            => a.net # b.net /\ ~(nets[a.net].adHoc /\ nets[b.net].adHoc)

(* What History shows as pushed is upstream: pushed_at is only set once the   *)
(* upstream has said it has that session (FinishPush, DecidePushResult).     *)
PushedIsThere == \A s \in Sites : \A x \in pushed[s] : \E r \in rows : r.session = x

(* A session still being logged is never sent (StartPush, WithoutOpenSessions).*)
OnlyFinished == \A r \in rows : r.session \notin open

(* Nothing goes into a net of another name, and no net is merged into one    *)
(* the upstream has, before the sender has confirmed just that               *)
(* (SessionImport::Run, NetImport::Run, ConfirmPushToNet).                   *)
SubjectOf(content) == IF content.net THEN content.name ELSE CHOOSE x \in Sessions : x \in content.sessions
AskedFirst ==
    [][\A j \in jobs' \ jobs : (j.at = "apply" /\ j.net # 0) =>
          \/ ~j.content.net /\ nets[j.net].name = j.content.name
          \/ <<SubjectOf(j.content), nets[j.net].name>> \in agreed]_vars

(* A push and a discard always end, whatever becomes of what they run, so     *)
(* that another can be started (RunProgram's limit, FinishPush).             *)
PushesEnd ==
    /\ \A s \in Sites : push[s].running ~> ~push[s].running
    /\ \A s \in Sites : thread[s].discard.at # "idle" ~> thread[s].discard.at = "idle"

=============================================================================
