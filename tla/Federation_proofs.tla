--------------------------- MODULE Federation_proofs ---------------------------
(***************************************************************************)
(* Proofs about pushing to an upstream, for any number of sites, sessions,  *)
(* nets and pushes, whatever answers are lost and whoever gives up: types;  *)
(* nothing arrives twice, nothing that is still being logged; and as long   *)
(* as no two of what is pushed have one file name, what is shown as pushed  *)
(* is upstream and nothing goes into a net its sender did not agree to.     *)
(***************************************************************************)
EXTENDS Federation, TLAPS

-----------------------------------------------------------------------------
(* The inductive invariant.                                                  *)

Upstream(session, table) == \E r \in table : r.session = session

(* What a file holds, ready to be sent: one session, or a net's; none of it   *)
(* still being logged.                                                       *)
GoodContent(content, live) ==
    /\ content \in Contents
    /\ content.sessions \cap live = {}
    /\ ~content.net => \E x \in Sessions : content.sessions = {x} /\ content.name = HomeOf[x]

(* A file is of what it is named after.                                      *)
NamedAfter(file, content) == file = RemoteName(SubjectOf(content))

(* No two of what is pushed have the same file name.                         *)
NamesApart == \A x, y \in Subjects : RemoteName(x) = RemoteName(y) => x = y

(* The upstream's tables.                                                    *)
Tables ==
    /\ open \subseteq Sessions
    /\ DOMAIN nets \subseteq NetIds /\ grants \subseteq DOMAIN nets
    /\ \A id \in DOMAIN nets : nets[id] \in [name : Names, adHoc : BOOLEAN]
    /\ \A r \in rows :
        /\ r.net \in DOMAIN nets /\ r.session \in Sessions \ open
        /\ nets[r.net].adHoc => nets[r.net].name = HomeOf[r.session]
    /\ NotTwice

GoodUploads ==
    /\ uploads \in [Files -> Contents \cup {NoFile}]
    /\ \A f \in Files :
        uploads[f] # NoFile => GoodContent(uploads[f], open) /\ NamedAfter(f, uploads[f])

Taken == {"imported", "merged", "already-imported"}

(* A process upstream, and what it has read.                                 *)
Job == [id : JobIds, at : {"start", "run", "apply", "clean"}, file : Files, net : NetIds \cup {0},
        reply : Replies, does : {"upload", "discard", "import"}, confirm : Names \cup {NoName},
        content : Contents \cup {NoFile}]

GoodJob(j) ==
    /\ j \in Job
    /\ j.at # "start" => j.does = "import"
    /\ j.at # "start" \/ j.does = "upload"
          => GoodContent(j.content, open) /\ NamedAfter(j.file, j.content)
    /\ j.net # 0 => j.net \in DOMAIN nets /\ ~nets[j.net].adHoc
    /\ j.at \in {"start", "run"} => j.net = 0
    /\ j.at # "clean" => j.reply = NoReply
    /\ j.confirm # NoName => \E subject \in Subjects : /\ j.file = RemoteName(subject)
                                                       /\ <<subject, j.confirm>> \in agreed
    /\ j.reply.status \in Taken /\ ~j.content.net
          => \A x \in j.content.sessions : Upstream(x, rows)

PushWork == [at : {"copying", "importing", "confirming"}, job : JobIds,
             confirm : Names \cup {NoName}, file : Files, content : Contents]
DiscardWork == [at : {"discarding"}, job : JobIds, file : Files]
Threads == [push : {Idle} \cup PushWork, discard : {Idle} \cup DiscardWork]
Push == [running : BOOLEAN, of : Subjects \cup {NoName}, file : Files \cup {NoFile},
         asked : Names \cup {NoName}]

SiteTypes ==
    /\ push \in [Sites -> Push] /\ thread \in [Sites -> Threads]
    /\ posted \in [Sites -> Seq(Results)] /\ prompt \in [Sites -> {"none", "push", "other"}]
    /\ pushed \in [Sites -> SUBSET Sessions]

(* A push under way is of what its site shows.                               *)
GoodThread(s) ==
    LET t == thread[s].push IN
    /\ GoodContent(t.content, open)
    /\ push[s].running /\ posted[s] = << >>
    /\ SubjectOf(t.content) = push[s].of /\ t.file = RemoteName(push[s].of)
    /\ t.confirm # NoName => <<push[s].of, t.confirm>> \in agreed

(* The result a thread has posted is about what its site pushed.             *)
GoodPosted(s) ==
    /\ push[s].running
    /\ \E result \in Results :
        /\ posted[s] = <<result>>
        /\ NamesApart /\ result.kind = "pushed" /\ ~IsNet(push[s].of) => Upstream(push[s].of, rows)

GoodSite(s) ==
    /\ push[s].running \/ prompt[s] = "push"
          => push[s].of \in Subjects /\ push[s].file = RemoteName(push[s].of)
    /\ thread[s].push # Idle => GoodThread(s)
    /\ posted[s] # << >> => GoodPosted(s)
    /\ push[s].running => thread[s].push # Idle \/ posted[s] # << >>
    /\ NamesApart => \A x \in pushed[s] : Upstream(x, rows)

(* Each push has the process it waits for to itself, and that one does what   *)
(* the push is at.                                                           *)
AnswersTo(t, j) ==
    t.job = j.id => /\ j.file = t.file
                    /\ j.does = IF t.at = "copying" THEN "upload" ELSE "import"
Ids ==
    /\ \A j, k \in jobs : j.id = k.id => j = k
    /\ \A s, u \in Sites : thread[s].push # Idle /\ thread[u].push # Idle
                           /\ thread[s].push.job = thread[u].push.job => s = u
    /\ \A s \in Sites : thread[s].push # Idle => \A j \in jobs : AnswersTo(thread[s].push, j)

PushInv ==
    /\ Tables /\ GoodUploads /\ SiteTypes /\ Ids
    /\ \A j \in jobs : GoodJob(j)
    /\ \A s \in Sites : GoodSite(s)

-----------------------------------------------------------------------------
(* Data.                                                                     *)

LEMMA RemoteNameIs == \A subject \in Subjects : RemoteName(subject) \in Files
BY FederationAssumption DEF RemoteName, IsNet, Files, Subjects, Range

LEMMA SubjectIs ==
    ASSUME NEW content, NEW live, GoodContent(content, live)
    PROVE  /\ SubjectOf(content) \in Subjects
           /\ content.net => SubjectOf(content) = content.name /\ content.name \in Names
           /\ ~content.net => /\ SubjectOf(content) \in Sessions
                              /\ content.sessions = {SubjectOf(content)}
                              /\ content.name = HomeOf[SubjectOf(content)]
BY DEF GoodContent, SubjectOf, Subjects, Contents

LEMMA GatheredIs ==
    ASSUME open \subseteq Sessions, NEW subject \in Subjects, subject \in Sessions \ open \/ IsNet(subject)
    PROVE  GoodContent(Gathered(subject), open) /\ SubjectOf(Gathered(subject)) = subject
<1>1. CASE IsNet(subject)
    BY <1>1 DEF Gathered, GoodContent, Contents, SubjectOf, WithoutOpenSessions, IsNet
<1>2. CASE ~IsNet(subject)
    <2>1. subject \in Sessions \ open /\ HomeOf[subject] \in Names
        BY <1>2, FederationAssumption
    <2>2. Gathered(subject) = [net |-> FALSE, name |-> HomeOf[subject], sessions |-> {subject}]
        BY <1>2 DEF Gathered
    <2>3. GoodContent(Gathered(subject), open)
        BY <2>1, <2>2 DEF GoodContent, Contents
    <2>4. SubjectOf(Gathered(subject)) = subject
        BY <2>1, <2>2 DEF SubjectOf
    <2> QED BY <2>3, <2>4
<1> QED BY <1>1, <1>2

LEMMA IdleIs ==
    /\ Idle.at = "idle" /\ Idle \notin PushWork /\ Idle \notin DiscardWork /\ Idle.at \notin Waiting
    /\ \A t \in PushWork : t.at \in Waiting /\ t.at # "idle"
    /\ \A t \in DiscardWork : t.at \in Waiting /\ t.at # "idle"
BY DEF Idle, PushWork, DiscardWork, Waiting

LEMMA NoReplyIs == NoReply \in Replies /\ NoReply.status \notin Taken
BY DEF NoReply, Replies, Statuses, Taken

-----------------------------------------------------------------------------
(* What goes on being so.                                                    *)

(* Sessions end, operators agree, nets and rows are added.                   *)
Onward ==
    /\ open' \subseteq open /\ agreed \subseteq agreed'
    /\ DOMAIN nets \subseteq DOMAIN nets'
    /\ \A id \in DOMAIN nets : nets'[id].adHoc = nets[id].adHoc
    /\ \A x : Upstream(x, rows) => Upstream(x, rows')

LEMMA ContentStays ==
    ASSUME NEW content, NEW live, NEW fewer, fewer \subseteq live, GoodContent(content, live)
    PROVE  GoodContent(content, fewer)
BY DEF GoodContent

LEMMA JobStays ==
    ASSUME NEW j, GoodJob(j), Onward
    PROVE  GoodJob(j)'
<1>1. GoodContent(j.content, open) => GoodContent(j.content, open')
    BY ContentStays DEF Onward
<1> QED BY <1>1 DEF GoodJob, Onward

LEMMA UploadsStay ==
    ASSUME GoodUploads, Onward, UNCHANGED uploads
    PROVE  GoodUploads'
<1>1. \A f \in Files : GoodContent(uploads[f], open) => GoodContent(uploads[f], open')
    BY ContentStays DEF Onward
<1> QED BY <1>1 DEF GoodUploads

(* A site whose push is left alone.                                          *)
LEMMA SiteStays ==
    ASSUME NEW s \in Sites, GoodSite(s), Onward, push'[s] = push[s],
           thread'[s].push = thread[s].push, posted'[s] = posted[s], pushed'[s] = pushed[s],
           prompt'[s] = "push" => prompt[s] = "push"
    PROVE  GoodSite(s)'
<1>1. GoodContent(thread[s].push.content, open) => GoodContent(thread[s].push.content, open')
    BY ContentStays DEF Onward
<1>2. thread[s].push # Idle => GoodThread(s)'
    BY <1>1 DEF GoodSite, GoodThread, Onward
<1>3. posted[s] # << >> => GoodPosted(s)'
    BY DEF GoodSite, GoodPosted, Onward
<1>4. NamesApart => \A x \in pushed'[s] : Upstream(x, rows')
    BY DEF GoodSite, Onward
<1> QED BY <1>2, <1>3, <1>4 DEF GoodSite

LEMMA TablesStay ==
    ASSUME Tables, open' \subseteq open, UNCHANGED database
    PROVE  Tables'
BY DEF Tables, database, NotTwice

LEMMA InitPush == Init => PushInv
<1> SUFFICES ASSUME Init PROVE PushInv
    OBVIOUS
<1>1. Tables
    BY FederationAssumption DEF Init, Tables, NotTwice, Range
<1>2. GoodUploads
    BY DEF Init, GoodUploads
<1>3. SiteTypes
    BY DEF Init, SiteTypes, Push, NoPush, Threads, Idle
<1>4. Ids /\ \A j \in jobs : GoodJob(j)
    BY DEF Init, Ids
<1>5. \A s \in Sites : GoodSite(s)
    BY DEF Init, GoodSite, NoPush
<1> QED BY <1>1, <1>2, <1>3, <1>4, <1>5 DEF PushInv

-----------------------------------------------------------------------------
(* The sites' own steps.                                                     *)

(* A process for which `waiting` waits.                                      *)
LEMMA FreeIs ==
    ASSUME SiteTypes, NEW id \in FreeJob
    PROVE  /\ id \in JobIds /\ \A j \in jobs : j.id # id
           /\ \A s \in Sites : thread[s].push # Idle => thread[s].push.job # id
<1> DEFINE threads == UNION {{thread[s].push, thread[s].discard} : s \in Sites}
           used == {j.id : j \in jobs} \cup {t.job : t \in {u \in threads : u.at \in Waiting}}
<1>1. id \in JobIds \ used
    BY DEF FreeJob
<1>2. ASSUME NEW s \in Sites, thread[s].push # Idle PROVE thread[s].push.job \in used
    <2>1. thread[s].push \in PushWork
        BY <1>2 DEF SiteTypes, Threads
    <2>2. thread[s].push \in threads /\ thread[s].push.at \in Waiting
        BY <2>1, IdleIs
    <2> HIDE DEF threads
    <2> QED BY <2>2
<1> QED BY <1>1, <1>2

(* One site s changes, and nothing that the others look at.                  *)
LEMMA OneSite ==
    ASSUME PushInv, NEW s \in Sites, Onward, Tables', GoodUploads', SiteTypes', Ids',
           \A j \in jobs' : GoodJob(j)', GoodSite(s)',
           \A u \in Sites \ {s} : /\ push'[u] = push[u] /\ posted'[u] = posted[u]
                                  /\ thread'[u] = thread[u] /\ prompt'[u] = prompt[u]
                                  /\ pushed'[u] = pushed[u]
    PROVE  PushInv'
<1>1. ASSUME NEW u \in Sites PROVE GoodSite(u)'
    <2>1. CASE u = s
        BY <2>1
    <2>2. CASE u # s
        <3>1. GoodSite(u) /\ push'[u] = push[u] /\ posted'[u] = posted[u]
              /\ thread'[u].push = thread[u].push /\ prompt'[u] = prompt[u]
              /\ pushed'[u] = pushed[u]
            BY <2>2 DEF PushInv
        <3> QED BY <3>1, SiteStays
    <2> QED BY <2>1, <2>2
<1> QED BY <1>1 DEF PushInv

(* A program is started for thread t.                                        *)
LEMMA ProgramIs ==
    ASSUME NEW t \in PushWork
    PROVE  /\ RunProgram(t) \in Job /\ RunProgram(t).id = t.job /\ AnswersTo(t, RunProgram(t))
           /\ RunProgram(t).at = "start" /\ RunProgram(t).net = 0
           /\ RunProgram(t).reply = NoReply /\ RunProgram(t).file = t.file
           /\ RunProgram(t).does = "upload" => RunProgram(t).content = t.content
           /\ RunProgram(t).confirm # NoName => RunProgram(t).confirm = t.confirm
BY NoReplyIs DEF RunProgram, PushWork, Job, AnswersTo

LEMMA DiscardIs ==
    ASSUME NEW t \in DiscardWork
    PROVE  GoodJob(RunProgram(t)) /\ GoodJob(RunProgram(t))' /\ RunProgram(t).id = t.job
BY NoReplyIs DEF RunProgram, DiscardWork, Job, GoodJob

(* Its process is as a process should be.                                    *)
LEMMA ProgramIsGood ==
    ASSUME NEW t \in PushWork, NEW subject \in Subjects, GoodContent(t.content, open),
           SubjectOf(t.content) = subject, t.file = RemoteName(subject),
           t.confirm # NoName => <<subject, t.confirm>> \in agreed',
           open' \subseteq open
    PROVE  GoodJob(RunProgram(t))'
<1> DEFINE j == RunProgram(t)
<1>1. /\ j \in Job /\ j.at = "start" /\ j.net = 0 /\ j.reply = NoReply /\ j.file = t.file
      /\ j.does = "upload" => j.content = t.content
      /\ j.confirm # NoName => j.confirm = t.confirm
    BY ProgramIs
<1> HIDE DEF j
<1>2. GoodContent(t.content, open')
    BY ContentStays
<1>3. GoodJob(j)'
    BY <1>1, <1>2, NoReplyIs DEF GoodJob, NamedAfter
<1> QED BY <1>3 DEF j

LEMMA IdsWithMore ==
    ASSUME Ids, NEW k, \A j \in jobs : j.id # k.id, jobs' = jobs \cup {k},
           NEW s \in Sites,
           \A u \in Sites : u # s => thread'[u].push = thread[u].push,
           \A u \in Sites : thread[u].push # Idle => thread[u].push.job # k.id,
           \/ thread'[s].push = thread[s].push
           \/ thread'[s].push.job = k.id /\ AnswersTo(thread'[s].push, k)
    PROVE  Ids'
<1>1. \A i, j \in jobs' : i.id = j.id => i = j
    BY DEF Ids
<1>2. \A u \in Sites : thread'[u].push = thread[u].push =>
          /\ thread'[u].push # Idle => \A j \in jobs' : AnswersTo(thread'[u].push, j)
    BY DEF Ids, AnswersTo
<1>3. CASE thread'[s].push = thread[s].push
    BY <1>1, <1>2, <1>3 DEF Ids
<1>4. CASE thread'[s].push.job = k.id /\ AnswersTo(thread'[s].push, k)
    <2>1. \A j \in jobs : AnswersTo(thread'[s].push, j)
        BY <1>4 DEF AnswersTo
    <2>2. \A j \in jobs' : AnswersTo(thread'[s].push, j)
        BY <1>4, <2>1
    <2>3. \A u, v \in Sites : thread'[u].push # Idle /\ thread'[v].push # Idle
                           /\ thread'[u].push.job = thread'[v].push.job => u = v
        BY <1>4 DEF Ids
    <2> QED BY <1>1, <1>2, <2>2, <2>3 DEF Ids
<1> QED BY <1>3, <1>4

LEMMA StartKeeps ==
    ASSUME PushInv, NEW s \in Sites, NEW subject \in Subjects, NEW confirm \in Names \cup {NoName},
           StartPush(s, subject, confirm), open' = open, agreed \subseteq agreed',
           confirm # NoName => <<subject, confirm>> \in agreed',
           prompt' = [prompt EXCEPT ![s] = "none"], UNCHANGED <<posted, pushed, database, uploads>>
    PROVE  PushInv'
<1> DEFINE to == IF confirm = NoName THEN "copying" ELSE "confirming"
<1>1. PICK id \in FreeJob :
        LET t == [at |-> to, job |-> id, confirm |-> confirm, file |-> RemoteName(subject),
                  content |-> Gathered(subject)]
        IN  /\ thread' = [thread EXCEPT ![s].push = t]
            /\ jobs' = jobs \cup {RunProgram(t)}
    BY DEF StartPush
<1>2. SiteTypes /\ Tables /\ GoodUploads /\ Ids
    BY DEF PushInv
<1>3. id \in JobIds /\ (\A j \in jobs : j.id # id)
      /\ \A u \in Sites : thread[u].push # Idle => thread[u].push.job # id
    BY <1>2, FreeIs
<1>4. PICK content \in Contents : /\ content = Gathered(subject) /\ GoodContent(content, open)
                                 /\ SubjectOf(content) = subject
    BY <1>2, GatheredIs DEF StartPush, Tables, GoodContent
<1> DEFINE t == [at |-> to, job |-> id, confirm |-> confirm, file |-> RemoteName(subject),
                 content |-> content]
<1>5. t \in PushWork /\ t.file = RemoteName(subject) /\ t.confirm = confirm /\ t.job = id
      /\ t.content = content /\ t # Idle
    BY <1>3, <1>4, RemoteNameIs, IdleIs DEF PushWork
<1> DEFINE p == [running |-> TRUE, of |-> subject, file |-> RemoteName(subject),
                 asked |-> push[s].asked]
<1>6. /\ thread[s] \in Threads /\ push[s] \in Push /\ thread[s].push = Idle
      /\ ~push[s].running
    BY <1>2, IdleIs DEF StartPush, CheckPushPossible, SiteTypes, Threads
<1>7. /\ posted[s] = << >>
      /\ NamesApart => \A x \in pushed[s] : Upstream(x, rows)
    BY <1>6 DEF PushInv, GoodSite, GoodPosted
<1>8. push' = [push EXCEPT ![s] = p] /\ p \in Push
    BY <1>6, RemoteNameIs DEF StartPush, Push
<1>9. thread' = [thread EXCEPT ![s] = [thread[s] EXCEPT !.push = t]]
      /\ jobs' = jobs \cup {RunProgram(t)}
    BY <1>1, <1>4
<1> HIDE DEF t
<1>10. [thread[s] EXCEPT !.push = t] \in Threads /\ [thread[s] EXCEPT !.push = t].push = t
    BY <1>5, <1>6 DEF Threads
<1>11. SiteTypes'
    BY <1>2, <1>8, <1>9, <1>10 DEF SiteTypes
<1>12. /\ push'[s] = p /\ thread'[s].push = t /\ prompt'[s] = "none"
       /\ \A u \in Sites \ {s} : /\ push'[u] = push[u] /\ thread'[u] = thread[u]
                                 /\ prompt'[u] = prompt[u]
    BY <1>2, <1>8, <1>9, <1>10 DEF SiteTypes
<1>13. p.running /\ p.of = subject /\ p.file = RemoteName(subject)
    OBVIOUS
<1> HIDE DEF p
<1>14. Onward
    BY DEF Onward, database
<1>15. GoodJob(RunProgram(t))'
    BY <1>4, <1>5, ProgramIsGood
<1>16. \A j \in jobs' : GoodJob(j)'
    BY <1>9, <1>14, <1>15, JobStays DEF PushInv
<1>17. RunProgram(t).id = id /\ AnswersTo(t, RunProgram(t))
    BY <1>5, ProgramIs
<1>18. Ids'
    BY <1>2, <1>3, <1>5, <1>9, <1>12, <1>17, IdsWithMore
<1>19. GoodThread(s)'
    BY <1>4, <1>5, <1>7, <1>12, <1>13 DEF GoodThread
<1>20. GoodSite(s)'
    BY <1>5, <1>7, <1>12, <1>13, <1>19 DEF GoodSite, database
<1>21. Tables' /\ GoodUploads'
    BY <1>2, <1>14, TablesStay, UploadsStay
<1> QED BY <1>11, <1>12, <1>14, <1>16, <1>18, <1>20, <1>21, OneSite

LEMMA QuietStep ==
    ASSUME PushInv, NEW s \in Sites, UNCHANGED <<database, uploads>>,
           open' \subseteq open, agreed \subseteq agreed',
           \/ push[s].file \in Files /\ DiscardKeptUpload(s)
           \/ UNCHANGED <<thread, jobs>>
    PROVE  /\ Onward /\ Tables' /\ GoodUploads' /\ Ids' /\ (\A j \in jobs' : GoodJob(j)')
           /\ thread' \in [Sites -> Threads]
           /\ \A u \in Sites : thread'[u].push = thread[u].push /\ (u # s => thread'[u] = thread[u])
<1>1. /\ Tables /\ GoodUploads /\ SiteTypes /\ Ids /\ \A j \in jobs : GoodJob(j)
    BY DEF PushInv
<1>2. Onward
    BY DEF Onward, database
<1>3. Tables' /\ GoodUploads'
    BY <1>1, <1>2, TablesStay, UploadsStay
<1>4. CASE UNCHANGED <<thread, jobs>>
    <2>1. Ids'
        BY <1>1, <1>4 DEF Ids
    <2>2. \A j \in jobs' : GoodJob(j)'
        BY <1>1, <1>2, <1>4, JobStays
    <2> QED BY <1>1, <1>2, <1>3, <1>4, <2>1, <2>2 DEF SiteTypes
<1>5. CASE push[s].file \in Files /\ DiscardKeptUpload(s)
    <2>1. PICK id \in FreeJob :
            LET t == [at |-> "discarding", job |-> id, file |-> push[s].file]
            IN  /\ thread' = [thread EXCEPT ![s].discard = t]
                /\ jobs' = jobs \cup {RunProgram(t)}
        BY <1>5 DEF DiscardKeptUpload
    <2>2. id \in JobIds /\ (\A j \in jobs : j.id # id)
          /\ \A u \in Sites : thread[u].push # Idle => thread[u].push.job # id
        BY <1>1, FreeIs
    <2>3. PICK file \in Files : file = push[s].file
        BY <1>5
    <2> DEFINE t == [at |-> "discarding", job |-> id, file |-> file]
    <2>4. t \in DiscardWork /\ t.job = id
        BY <2>2 DEF DiscardWork
    <2>5. thread' = [thread EXCEPT ![s] = [thread[s] EXCEPT !.discard = t]]
          /\ jobs' = jobs \cup {RunProgram(t)}
        BY <2>1, <2>3
    <2> HIDE DEF t
    <2>6. thread[s] \in Threads
        BY <1>1 DEF SiteTypes
    <2>7. [thread[s] EXCEPT !.discard = t] \in Threads
          /\ [thread[s] EXCEPT !.discard = t].push = thread[s].push
        BY <2>4, <2>6 DEF Threads
    <2>8. /\ thread' \in [Sites -> Threads]
          /\ \A u \in Sites : thread'[u].push = thread[u].push /\ (u # s => thread'[u] = thread[u])
        BY <1>1, <2>5, <2>7 DEF SiteTypes
    <2>9. RunProgram(t).id = id /\ GoodJob(RunProgram(t))'
        BY <2>4, DiscardIs
    <2>10. \A j \in jobs' : GoodJob(j)'
        BY <1>1, <1>2, <2>5, <2>9, JobStays
    <2>11. Ids'
        BY <1>1, <2>2, <2>5, <2>8, <2>9, IdsWithMore
    <2> QED BY <1>2, <1>3, <2>8, <2>10, <2>11
<1> QED BY <1>4, <1>5

(* Sessions end, other prompts come up, and pushes are declined.             *)
LEMMA OperatorKeeps ==
    ASSUME PushInv,
           \/ \E session \in Sessions : ClosesSession(session)
           \/ \E s \in Sites : OtherPrompt(s) \/ DeclinePushToNet(s)
    PROVE  PushInv'
<1>1. CASE \E session \in Sessions : ClosesSession(session)
    <2>1. /\ UNCHANGED <<push, thread, posted, prompt, pushed, agreed, database, uploads, jobs>>
          /\ open' \subseteq open
        BY <1>1 DEF ClosesSession
    <2>2. Onward
        BY <2>1 DEF Onward, database
    <2>3. Tables' /\ GoodUploads' /\ Ids' /\ SiteTypes'
        BY <2>1, <2>2, TablesStay, UploadsStay DEF PushInv, Ids, SiteTypes
    <2>4. \A j \in jobs' : GoodJob(j)'
        BY <2>1, <2>2, JobStays DEF PushInv
    <2>5. \A s \in Sites : GoodSite(s)'
        BY <2>1, <2>2, SiteStays DEF PushInv
    <2> QED BY <2>3, <2>4, <2>5 DEF PushInv
<1>2. ASSUME NEW s \in Sites, OtherPrompt(s) \/ DeclinePushToNet(s)
      PROVE  PushInv'
    <2>1. SiteTypes /\ GoodSite(s) /\ \A u \in Sites : thread[u].push = thread[u].push
        BY DEF PushInv
    <2>2. /\ UNCHANGED <<open, push, posted, pushed, agreed, database, uploads>>
          /\ \E what \in {"none", "other"} : prompt' = [prompt EXCEPT ![s] = what]
          /\ \/ push[s].file \in Files /\ DiscardKeptUpload(s)
             \/ UNCHANGED <<thread, jobs>>
        <3>1. CASE OtherPrompt(s)
            BY <3>1 DEF OtherPrompt
        <3>2. CASE DeclinePushToNet(s)
            <4>1. push[s].file \in Files
                BY <2>1, <3>2, RemoteNameIs DEF DeclinePushToNet, GoodSite
            <4> QED BY <3>2, <4>1 DEF DeclinePushToNet
        <3> QED BY <1>2, <3>1, <3>2
    <2>3. /\ Onward /\ Tables' /\ GoodUploads' /\ Ids' /\ (\A j \in jobs' : GoodJob(j)')
          /\ thread' \in [Sites -> Threads]
          /\ \A u \in Sites : thread'[u].push = thread[u].push /\ (u # s => thread'[u] = thread[u])
        BY <2>2, QuietStep
    <2>4. SiteTypes'
        BY <2>1, <2>2, <2>3 DEF SiteTypes
    <2>5. GoodSite(s)'
        <3>1. prompt'[s] # "push"
            BY <2>1, <2>2 DEF SiteTypes
        <3> QED BY <2>1, <2>2, <2>3, <3>1, SiteStays
    <2>6. \A u \in Sites \ {s} : prompt'[u] = prompt[u]
        BY <2>1, <2>2 DEF SiteTypes
    <2> QED BY <2>2, <2>3, <2>4, <2>5, <2>6, OneSite
<1> QED BY <1>1, <1>2

(* The UI thread takes a result that was posted.                             *)
LEMMA FinishKeeps ==
    ASSUME PushInv, NEW s \in Sites, FinishPush(s)
    PROVE  PushInv'
<1>1. SiteTypes /\ GoodSite(s) /\ push[s] \in Push /\ pushed[s] \subseteq Sessions
    BY DEF PushInv, SiteTypes
<1>2. posted[s] # << >>
    BY DEF FinishPush
<1>3. PICK result \in Results :
        /\ posted[s] = <<result>>
        /\ NamesApart /\ result.kind = "pushed" /\ ~IsNet(push[s].of) => Upstream(push[s].of, rows)
    BY <1>1, <1>2 DEF GoodSite, GoodPosted
<1>4. /\ push[s].running /\ push[s].of \in Subjects /\ push[s].file = RemoteName(push[s].of)
      /\ thread[s].push = Idle /\ push[s].file \in Files
    BY <1>1, <1>2, RemoteNameIs DEF GoodSite, GoodPosted, GoodThread
<1>5. Head(posted[s]) = result /\ Tail(posted[s]) = << >>
    BY <1>3
<1> DEFINE p == [push[s] EXCEPT !.running = FALSE,
                                !.asked = IF result.kind = "asks" /\ prompt[s] = "none"
                                          THEN result.name ELSE @]
<1>6. push' = [push EXCEPT ![s] = p]
    BY <1>1, <1>5 DEF FinishPush, Push
<1>7. p \in Push /\ ~p.running /\ p.of = push[s].of /\ p.file = push[s].file
    BY <1>1 DEF Push, Results
<1> HIDE DEF p
<1>8. /\ posted' = [posted EXCEPT ![s] = << >>]
      /\ prompt' = prompt \/ prompt' = [prompt EXCEPT ![s] = "push"]
      /\ UNCHANGED <<open, agreed, database, uploads>>
    BY <1>5 DEF FinishPush
<1>9. DiscardKeptUpload(s) \/ UNCHANGED <<thread, jobs>>
    BY DEF FinishPush
<1>10. /\ Onward /\ Tables' /\ GoodUploads' /\ Ids' /\ (\A j \in jobs' : GoodJob(j)')
       /\ thread' \in [Sites -> Threads]
       /\ \A u \in Sites : thread'[u].push = thread[u].push /\ (u # s => thread'[u] = thread[u])
    BY <1>4, <1>8, <1>9, QuietStep
<1>11. \/ pushed' = pushed
       \/ /\ pushed' = [pushed EXCEPT ![s] = @ \cup {push[s].of}]
          /\ result.kind = "pushed" /\ ~IsNet(push[s].of) /\ push[s].of \in Sessions
    BY <1>4, <1>5 DEF FinishPush, IsNet, Subjects
<1>12. pushed' \in [Sites -> SUBSET Sessions]
    <2>1. pushed \in [Sites -> SUBSET Sessions]
        BY <1>1 DEF SiteTypes
    <2>2. pushed' # pushed => pushed[s] \cup {push[s].of} \in SUBSET Sessions
        BY <1>1, <1>11
    <2>3. ASSUME NEW set \in SUBSET Sessions PROVE [pushed EXCEPT ![s] = set] \in [Sites -> SUBSET Sessions]
        BY <2>1
    <2>4. pushed' # pushed => pushed' = [pushed EXCEPT ![s] = pushed[s] \cup {push[s].of}]
        BY <1>11
    <2> QED BY <2>1, <2>2, <2>3, <2>4
<1>13. SiteTypes'
    <2>1. push' \in [Sites -> Push]
        BY <1>1, <1>6, <1>7 DEF SiteTypes
    <2>2. posted' \in [Sites -> Seq(Results)]
        BY <1>1, <1>8 DEF SiteTypes
    <2>3. prompt' \in [Sites -> {"none", "push", "other"}]
        BY <1>1, <1>8 DEF SiteTypes
    <2> QED BY <1>10, <1>12, <2>1, <2>2, <2>3 DEF SiteTypes
<1>14. /\ push'[s] = p /\ posted'[s] = << >>
       /\ \A u \in Sites \ {s} : /\ push'[u] = push[u] /\ posted'[u] = posted[u]
                                 /\ prompt'[u] = prompt[u] /\ pushed'[u] = pushed[u]
    BY <1>1, <1>6, <1>8, <1>11 DEF SiteTypes
<1>15. NamesApart => \A x \in pushed'[s] : Upstream(x, rows')
    <2>1. rows' = rows
        BY <1>8 DEF database
    <2>2. NamesApart => \A x \in pushed[s] : Upstream(x, rows)
        BY <1>1 DEF GoodSite
    <2>3. pushed'[s] = pushed[s] \/ (/\ pushed'[s] = pushed[s] \cup {push[s].of}
                                     /\ result.kind = "pushed" /\ ~IsNet(push[s].of))
        BY <1>1, <1>11 DEF SiteTypes
    <2> QED BY <1>3, <2>1, <2>2, <2>3
<1>16. GoodSite(s)'
    BY <1>4, <1>7, <1>10, <1>14, <1>15 DEF GoodSite
<1> QED BY <1>10, <1>13, <1>14, <1>16, OneSite

(* The console gives up on what it waits for, or is started anew.            *)
LEMMA GivesUpKeeps ==
    ASSUME PushInv, NEW s \in Sites, Quits(s) \/ PushTimesOut(s) \/ DiscardTimesOut(s)
    PROVE  PushInv'
<1>1. /\ SiteTypes /\ GoodSite(s) /\ push[s] \in Push /\ thread[s] \in Threads
      /\ posted[s] \in Seq(Results) /\ Ids
    BY DEF PushInv, SiteTypes
<1>2. UNCHANGED <<open, agreed, database, uploads, jobs, pushed>>
    BY DEF Quits, PushTimesOut, DiscardTimesOut
<1>3. Onward
    BY <1>2 DEF Onward, database
<1>4. Tables' /\ GoodUploads'
    BY <1>2, <1>3, TablesStay, UploadsStay DEF PushInv
<1>5. \A j \in jobs' : GoodJob(j)'
    BY <1>2, <1>3, JobStays DEF PushInv
<1>6. Failed \in Results /\ Failed.kind = "failed"
    BY DEF Failed, Results
<1>7. ASSUME NEW th \in Threads, th.push \in {Idle, thread[s].push},
             thread' = [thread EXCEPT ![s] = th]
      PROVE  Ids' /\ thread' \in [Sites -> Threads] /\ thread'[s] = th
             /\ \A u \in Sites \ {s} : thread'[u] = thread[u]
    <2>1. /\ thread' \in [Sites -> Threads] /\ thread'[s] = th
          /\ \A u \in Sites \ {s} : thread'[u] = thread[u]
        BY <1>1, <1>7 DEF SiteTypes
    <2>2. \A u \in Sites : thread'[u].push # Idle => thread'[u].push = thread[u].push
        BY <1>7, <2>1
    <2>3. Ids'
        BY <1>1, <1>2, <2>2 DEF Ids
    <2> QED BY <2>1, <2>3
<1>8. CASE Quits(s)
    <2> DEFINE th == [push |-> Idle, discard |-> Idle]
    <2>1. th \in Threads /\ th.push = Idle /\ thread' = [thread EXCEPT ![s] = th]
        BY <1>8 DEF Quits, Threads
    <2> HIDE DEF th
    <2>2. /\ Ids' /\ thread' \in [Sites -> Threads] /\ thread'[s] = th
          /\ \A u \in Sites \ {s} : thread'[u] = thread[u]
        BY <1>7, <2>1
    <2>3. NoPush \in Push /\ ~NoPush.running
        BY DEF NoPush, Push
    <2>4. SiteTypes'
        BY <1>1, <1>2, <1>8, <2>2, <2>3 DEF Quits, SiteTypes
    <2>5. /\ push'[s] = NoPush /\ posted'[s] = << >> /\ prompt'[s] = "none" /\ pushed'[s] = pushed[s]
          /\ \A u \in Sites \ {s} : /\ push'[u] = push[u] /\ posted'[u] = posted[u]
                                    /\ prompt'[u] = prompt[u] /\ pushed'[u] = pushed[u]
        BY <1>1, <1>2, <1>8 DEF Quits, SiteTypes
    <2>6. GoodSite(s)'
        BY <1>1, <1>3, <2>1, <2>2, <2>3, <2>5 DEF GoodSite, Onward
    <2> QED BY <1>3, <1>4, <1>5, <2>2, <2>4, <2>5, <2>6, OneSite
<1>9. CASE PushTimesOut(s)
    <2> DEFINE th == [thread[s] EXCEPT !.push = Idle]
    <2>1. th \in Threads /\ th.push = Idle /\ thread' = [thread EXCEPT ![s] = th]
        BY <1>1, <1>9 DEF PushTimesOut, Threads
    <2> HIDE DEF th
    <2>2. /\ Ids' /\ thread' \in [Sites -> Threads] /\ thread'[s] = th
          /\ \A u \in Sites \ {s} : thread'[u] = thread[u]
        BY <1>7, <2>1
    <2>3. push[s].running /\ posted[s] = << >>
        BY <1>1, <1>9, IdleIs DEF PushTimesOut, GoodSite, GoodThread
    <2>4. posted' = [posted EXCEPT ![s] = <<Failed>>]
        BY <1>9, <2>3 DEF PushTimesOut
    <2>5. SiteTypes'
        BY <1>1, <1>2, <1>6, <1>9, <2>2, <2>4 DEF PushTimesOut, SiteTypes
    <2>6. /\ push'[s] = push[s] /\ posted'[s] = <<Failed>> /\ prompt'[s] = prompt[s]
          /\ pushed'[s] = pushed[s]
          /\ \A u \in Sites \ {s} : /\ push'[u] = push[u] /\ posted'[u] = posted[u]
                                    /\ prompt'[u] = prompt[u] /\ pushed'[u] = pushed[u]
        BY <1>1, <1>2, <1>9, <2>4 DEF PushTimesOut, SiteTypes
    <2>7. GoodPosted(s)'
        BY <1>6, <2>3, <2>6 DEF GoodPosted
    <2>8. GoodSite(s)'
        BY <1>1, <1>3, <2>1, <2>2, <2>3, <2>6, <2>7 DEF GoodSite, Onward
    <2> QED BY <1>3, <1>4, <1>5, <2>2, <2>5, <2>6, <2>8, OneSite
<1>10. CASE DiscardTimesOut(s)
    <2> DEFINE th == [thread[s] EXCEPT !.discard = Idle]
    <2>1. th \in Threads /\ th.push = thread[s].push /\ thread' = [thread EXCEPT ![s] = th]
        BY <1>1, <1>10 DEF DiscardTimesOut, Threads
    <2> HIDE DEF th
    <2>2. /\ Ids' /\ thread' \in [Sites -> Threads] /\ thread'[s] = th
          /\ \A u \in Sites \ {s} : thread'[u] = thread[u]
        BY <1>7, <2>1
    <2>3. UNCHANGED <<push, posted, prompt, pushed>>
        BY <1>10 DEF DiscardTimesOut
    <2>4. SiteTypes'
        BY <1>1, <2>2, <2>3 DEF SiteTypes
    <2>5. GoodSite(s)'
        BY <1>1, <1>3, <2>1, <2>2, <2>3, SiteStays
    <2> QED BY <1>3, <1>4, <1>5, <2>2, <2>3, <2>4, <2>5, OneSite
<1> QED BY <1>8, <1>9, <1>10

-----------------------------------------------------------------------------
(* The upstream's steps.                                                     *)

LEMMA ThreadOf ==
    ASSUME SiteTypes, NEW s \in Sites
    PROVE  /\ thread[s] \in Threads /\ push[s] \in Push
           /\ thread[s].push = Idle \/ thread[s].push \in PushWork
           /\ thread[s].push.at \in Waiting <=> thread[s].push # Idle
BY IdleIs DEF SiteTypes, Threads

(* A thread's next program is about the same push.                           *)
LEMMA NextIs ==
    ASSUME NEW t \in PushWork
    PROVE  /\ NextProgram(t) \in PushWork /\ NextProgram(t).job = t.job
           /\ NextProgram(t).file = t.file /\ NextProgram(t).content = t.content
           /\ NextProgram(t).confirm = t.confirm /\ NextProgram(t) # Idle
BY IdleIs DEF NextProgram, PushWork

LEMMA DecidedIs ==
    ASSUME NEW reply \in Replies
    PROVE  /\ DecidePushResult(reply) \in Results
           /\ DecidePushResult(reply).kind = "pushed" => reply.status \in Taken
<1>1. reply.name \in Names \cup {NoName}
    BY DEF Replies
<1>2. CASE reply.status \in Taken
    BY <1>1, <1>2 DEF DecidePushResult, Results, Taken
<1>3. CASE reply.status = "needs-confirmation"
    BY <1>1, <1>3 DEF DecidePushResult, Results, Taken
<1>4. CASE reply.status \notin Taken /\ reply.status # "needs-confirmation"
    BY <1>4 DEF DecidePushResult, Results, Taken, Failed
<1> QED BY <1>2, <1>3, <1>4

(* A process ends, and the push that waits for it hears of it.               *)
LEMMA EndsKeeps ==
    ASSUME PushInv, NEW j \in jobs, NEW reply \in Replies, EndsWith(j, reply), UpstreamOnly,
           UNCHANGED database, GoodUploads',
           \A s \in Sites :
               /\ NamesApart /\ thread[s].push # Idle /\ thread[s].push.job = j.id
               /\ ~GoesOn(thread[s].push, reply) /\ reply.status \in Taken /\ ~IsNet(push[s].of)
               => Upstream(push[s].of, rows)
    PROVE  PushInv'
<1> DEFINE Waits(s) == thread[s].push # Idle /\ thread[s].push.job = j.id
           Goes(s) == Waits(s) /\ GoesOn(thread[s].push, reply)
           next(s) == NextProgram(thread[s].push)
<1>1. SiteTypes /\ Tables /\ Ids /\ \A s \in Sites : GoodSite(s)
    BY DEF PushInv
<1>2. \A s \in Sites : Waits(s) <=> thread[s].push.at \in Waiting /\ thread[s].push.job = j.id
    BY <1>1, ThreadOf
<1>3. Onward
    BY DEF Onward, UpstreamOnly, database
<1>4. Tables'
    BY <1>1, TablesStay DEF UpstreamOnly
<1>5. thread' = [s \in Sites |->
              [push |-> IF Goes(s) THEN next(s) ELSE IF Waits(s) THEN Idle ELSE thread[s].push,
               discard |-> IF thread[s].discard.at \in Waiting /\ thread[s].discard.job = j.id
                           THEN Idle ELSE thread[s].discard]]
    BY <1>2 DEF EndsWith
<1>6. jobs' = (jobs \ {j}) \cup {RunProgram(next(s)) : s \in {u \in Sites : Goes(u)}}
    BY <1>2 DEF EndsWith
<1>7. posted' = [s \in Sites |-> IF Waits(s) /\ ~Goes(s)
                                THEN Append(posted[s], DecidePushResult(reply)) ELSE posted[s]]
    BY <1>2 DEF EndsWith
<1>8. ASSUME NEW s \in Sites, Goes(s)
      PROVE  /\ next(s) \in PushWork /\ next(s).job = j.id /\ next(s) # Idle
             /\ GoodContent(next(s).content, open) /\ SubjectOf(next(s).content) = push[s].of
             /\ next(s).file = RemoteName(push[s].of)
             /\ next(s).confirm # NoName => <<push[s].of, next(s).confirm>> \in agreed
             /\ push[s].of \in Subjects /\ push[s].running /\ posted[s] = << >>
    <2>1. thread[s].push \in PushWork /\ thread[s].push # Idle /\ GoodSite(s)
        BY <1>1, <1>8, ThreadOf
    <2>2. GoodThread(s) /\ push[s].of \in Subjects
        BY <2>1 DEF GoodSite, GoodThread
    <2> QED BY <1>8, <2>1, <2>2, NextIs DEF GoodThread
<1>9. ASSUME NEW s \in Sites, Goes(s), NEW k, k = RunProgram(next(s))
      PROVE  GoodJob(k)' /\ k.id = j.id /\ AnswersTo(next(s), k)
    <2>1. PICK t \in PushWork : t = next(s)
        BY <1>8, <1>9
    <2>2. PICK subject \in Subjects : subject = push[s].of
        BY <1>8, <1>9
    <2>3. /\ t.job = j.id /\ GoodContent(t.content, open) /\ SubjectOf(t.content) = subject
          /\ t.file = RemoteName(subject)
          /\ t.confirm # NoName => <<subject, t.confirm>> \in agreed'
          /\ open' \subseteq open
        BY <1>8, <1>9, <2>1, <2>2 DEF UpstreamOnly
    <2>4. GoodJob(RunProgram(t))'
        BY <2>3, ProgramIsGood
    <2>5. k = RunProgram(t)
        BY <1>9, <2>1
    <2>6. GoodJob(k)'
        BY <2>4, <2>5
    <2>7. RunProgram(t).id = t.job /\ AnswersTo(t, RunProgram(t))
        BY ProgramIs
    <2> QED BY <2>1, <2>3, <2>5, <2>6, <2>7
<1>10. \A k \in jobs' : GoodJob(k)'
    <2>1. ASSUME NEW k \in jobs PROVE GoodJob(k)'
        BY <1>3, JobStays DEF PushInv
    <2> QED BY <1>6, <1>9, <2>1
<1>11. \A s, u \in Sites : Goes(s) /\ Goes(u) => s = u
    BY <1>1 DEF Ids
<1> HIDE DEF next, Goes
<1>12. \A s \in Sites :
        /\ thread'[s].push = (IF Goes(s) THEN next(s) ELSE IF Waits(s) THEN Idle ELSE thread[s].push)
        /\ thread'[s].discard \in {Idle, thread[s].discard}
        /\ thread'[s] = [push |-> thread'[s].push, discard |-> thread'[s].discard]
    BY <1>5
<1>13. ASSUME NEW s \in Sites PROVE thread'[s] \in Threads
    <2>1. thread[s] \in Threads
        BY <1>1, ThreadOf
    <2>2. thread'[s].push \in {Idle} \cup PushWork
        BY <1>8, <1>12, <2>1 DEF Threads
    <2>3. thread'[s].discard \in {Idle} \cup DiscardWork
        BY <1>12, <2>1 DEF Threads
    <2>4. \A a \in {Idle} \cup PushWork, b \in {Idle} \cup DiscardWork :
            [push |-> a, discard |-> b] \in Threads
        BY DEF Threads
    <2>5. thread'[s] = [push |-> thread'[s].push, discard |-> thread'[s].discard]
        BY <1>12
    <2> HIDE DEF Waits
    <2> QED BY ONLY <2>2, <2>3, <2>4, <2>5
<1>14. Ids'
    <2>1. ASSUME NEW k \in jobs'
          PROVE  \/ k \in jobs /\ k.id # j.id
                 \/ \E s \in Sites : Goes(s) /\ k = RunProgram(next(s)) /\ k.id = j.id
        BY <1>1, <1>6, <1>9 DEF Ids
    <2>2. \A k, l \in jobs' : k.id = l.id => k = l
        BY <1>1, <1>11, <2>1 DEF Ids
    <2>3. \A s \in Sites : thread'[s].push # Idle =>
            /\ thread[s].push # Idle /\ thread'[s].push.job = thread[s].push.job
            /\ Goes(s) \/ (~Waits(s) /\ thread'[s].push = thread[s].push)
        <3>1. \A s \in Sites : Goes(s) => Waits(s)
            BY DEF Goes
        <3> QED BY <1>8, <1>12, <3>1
    <2>4. ASSUME NEW s \in Sites, thread'[s].push # Idle, NEW k \in jobs'
          PROVE  AnswersTo(thread'[s].push, k)
        <3>1. CASE Goes(s)
            <4>1. thread'[s].push = next(s) /\ next(s).job = j.id
                BY <1>8, <1>12, <3>1
            <4>2. CASE k \in jobs /\ k.id # j.id
                BY <4>1, <4>2 DEF AnswersTo
            <4>3. CASE \E u \in Sites : Goes(u) /\ k = RunProgram(next(u)) /\ k.id = j.id
                <5>1. k = RunProgram(next(s))
                    BY <1>11, <3>1, <4>3
                <5> QED BY <1>9, <3>1, <4>1, <5>1
            <4> QED BY <2>1, <4>2, <4>3
        <3>2. CASE ~Goes(s)
            <4>1. /\ thread'[s].push = thread[s].push /\ thread[s].push # Idle
                  /\ thread[s].push.job # j.id
                BY <2>3, <2>4, <3>2
            <4>2. k \in jobs \/ k.id = j.id
                BY <2>1
            <4> QED BY <1>1, <4>1, <4>2 DEF Ids, AnswersTo
        <3> QED BY <3>1, <3>2
    <2>5. \A s, u \in Sites : thread'[s].push # Idle /\ thread'[u].push # Idle
                             /\ thread'[s].push.job = thread'[u].push.job => s = u
        BY <1>1, <2>3 DEF Ids
    <2> QED BY <2>2, <2>4, <2>5 DEF Ids
<1>15. ASSUME NEW s \in Sites, Waits(s), ~Goes(s)
       PROVE  /\ posted'[s] = <<DecidePushResult(reply)>> /\ DecidePushResult(reply) \in Results
              /\ push[s].running /\ thread'[s].push = Idle
    <2>1. GoodThread(s)
        BY <1>1, <1>15 DEF GoodSite
    <2>2. push[s].running /\ posted[s] = << >>
        BY <2>1 DEF GoodThread
    <2>3. thread'[s].push = Idle
        BY <1>12, <1>15
    <2> DEFINE result == DecidePushResult(reply)
    <2>4. result \in Results
        BY DecidedIs
    <2>5. posted'[s] = Append(posted[s], result)
        BY <1>7, <1>15
    <2> HIDE DEF result
    <2>6. posted'[s] = <<result>>
        BY <2>2, <2>5
    <2> QED BY <2>2, <2>3, <2>4, <2>6 DEF result
<1>16. SiteTypes'
    <2>1. thread' \in [Sites -> Threads]
        BY <1>5, <1>13
    <2>2. \A s \in Sites : posted'[s] \in Seq(Results)
        BY <1>1, <1>7, <1>15 DEF SiteTypes
    <2>3. posted' \in [Sites -> Seq(Results)]
        BY <1>7, <2>2
    <2> QED BY <1>1, <2>1, <2>3 DEF SiteTypes, UpstreamOnly
<1>17. ASSUME NEW s \in Sites PROVE GoodSite(s)'
    <2>1. GoodSite(s) /\ push'[s] = push[s] /\ prompt'[s] = prompt[s] /\ pushed'[s] = pushed[s]
          /\ rows' = rows /\ open' = open /\ agreed' = agreed
        BY <1>1 DEF UpstreamOnly, database
    <2>2. CASE ~Waits(s)
        <3>1. thread'[s].push = thread[s].push /\ posted'[s] = posted[s]
            BY <1>7, <1>12, <2>2 DEF Goes
        <3> QED BY <1>3, <2>1, <3>1, SiteStays
    <2>3. CASE Goes(s)
        <3>1. thread'[s].push = next(s) /\ posted'[s] = posted[s]
            BY <1>7, <1>12, <2>3
        <3>2. GoodThread(s)'
            BY <1>8, <2>1, <2>3, <3>1 DEF GoodThread
        <3> QED BY <1>8, <2>1, <2>3, <3>1, <3>2 DEF GoodSite
    <2>4. CASE Waits(s) /\ ~Goes(s)
        <3>1. /\ posted'[s] = <<DecidePushResult(reply)>> /\ DecidePushResult(reply) \in Results
              /\ push[s].running /\ thread'[s].push = Idle
            BY <1>15, <2>4
        <3>2. /\ NamesApart /\ DecidePushResult(reply).kind = "pushed" /\ ~IsNet(push[s].of)
              => Upstream(push[s].of, rows)
            BY <2>4, DecidedIs DEF Goes
        <3>3. GoodPosted(s)'
            BY <2>1, <3>1, <3>2 DEF GoodPosted
        <3> QED BY <2>1, <3>1, <3>3 DEF GoodSite
    <2> QED BY <2>2, <2>3, <2>4 DEF Goes
<1> QED BY <1>4, <1>10, <1>14, <1>16, <1>17 DEF PushInv

(* A process goes on to k, or dies.                                          *)
LEMMA BecomesKeeps ==
    ASSUME PushInv, NEW j \in jobs, NEW k, Becomes(j, k), k.id = j.id, k.file = j.file,
           k.does = j.does, GoodJob(k)', Tables', Onward, UpstreamOnly,
           UNCHANGED <<thread, posted, uploads>>
    PROVE  PushInv'
<1>1. /\ GoodUploads /\ SiteTypes /\ Ids /\ \A i \in jobs : GoodJob(i)
      /\ jobs' = (jobs \ {j}) \cup {k}
    BY DEF PushInv, Becomes
<1>2. GoodUploads' /\ SiteTypes'
    BY <1>1, UploadsStay DEF SiteTypes, UpstreamOnly
<1>3. \A i \in jobs' : GoodJob(i)'
    BY <1>1, JobStays
<1>4. Ids'
    BY <1>1 DEF Ids, AnswersTo
<1>5. \A s \in Sites : GoodSite(s)'
    BY SiteStays DEF PushInv, UpstreamOnly
<1> QED BY <1>2, <1>3, <1>4, <1>5 DEF PushInv

LEMMA DiesKeeps ==
    ASSUME PushInv, NEW j \in jobs, JobDies(j)
    PROVE  PushInv'
<1>1. /\ Tables /\ GoodUploads /\ SiteTypes /\ Ids /\ jobs' \subseteq jobs
      /\ UNCHANGED <<open, push, prompt, pushed, agreed, thread, posted, database, uploads>>
    BY DEF PushInv, JobDies, UpstreamOnly
<1>2. Onward
    BY <1>1 DEF Onward, database
<1>3. Tables' /\ GoodUploads' /\ SiteTypes' /\ Ids'
    BY <1>1, <1>2, TablesStay, UploadsStay DEF SiteTypes, Ids
<1>4. \A i \in jobs' : GoodJob(i)'
    BY <1>1, <1>2, JobStays DEF PushInv
<1>5. \A s \in Sites : GoodSite(s)'
    BY <1>1, <1>2, SiteStays DEF PushInv
<1> QED BY <1>3, <1>4, <1>5 DEF PushInv

(* An answer, said by a process that has read its upload.                     *)
LEMMA AnswersIs ==
    ASSUME NEW j, GoodJob(j), j.at \in {"run", "apply"}, NEW status \in Statuses,
           NEW name \in Names \cup {NoName}, Answers(j, status, name), Onward,
           status \in Taken /\ ~j.content.net => \A x \in j.content.sessions : Upstream(x, rows')
    PROVE  \E k : /\ Becomes(j, k) /\ k.id = j.id /\ k.file = j.file /\ k.does = j.does
                  /\ GoodJob(k)' /\ k.at = "clean"
<1> DEFINE k == [j EXCEPT !.at = "clean", !.reply = [status |-> status, name |-> name]]
<1>1. j \in Job
    BY DEF GoodJob
<1>2. [status |-> status, name |-> name] \in Replies
    BY DEF Replies
<1>3. /\ k \in Job /\ k.id = j.id /\ k.file = j.file /\ k.does = j.does /\ k.at = "clean"
      /\ k.net = j.net /\ k.content = j.content /\ k.confirm = j.confirm
      /\ k.reply.status = status
    BY <1>1, <1>2 DEF Job
<1>4. Becomes(j, k)
    BY DEF Answers
<1> HIDE DEF k
<1>5. GoodJob(j)'
    BY JobStays
<1>6. GoodJob(k)'
    BY <1>3, <1>5 DEF GoodJob
<1> QED BY <1>3, <1>4, <1>6

(* A process that looks for the net its upload is for.  What it finds it may  *)
(* go into: the upload's own name, or one its sender confirmed.              *)
LEMMA LooksIs ==
    ASSUME Tables, NEW j, GoodJob(j), LooksForTheNet(j)
    PROVE  \/ \E status \in {"needs-confirmation", "refused", "no-match"}, name \in Names \cup {NoName} :
                 Answers(j, status, name)
           \/ Becomes(j, [j EXCEPT !.at = "apply"])
           \/ \E id \in Recurring :
                 /\ Becomes(j, [j EXCEPT !.at = "apply", !.net = id])
                 /\ \/ ~j.content.net /\ nets[id].name = j.content.name
                    \/ j.confirm # NoName /\ nets[id].name = j.confirm
<1> DEFINE Said == \E status \in {"needs-confirmation", "refused", "no-match"},
                      name \in Names \cup {NoName} : Answers(j, status, name)
           Into(id) == Becomes(j, [j EXCEPT !.at = "apply", !.net = id])
<1>1. /\ \A id \in Recurring : nets[id].name \in Names
      /\ j.confirm \in Names \cup {NoName}
    BY DEF Tables, Recurring, GoodJob, Job
<1>2. \A name : FindNamed(name) \subseteq Recurring /\ CanAsk(name) \subseteq Recurring
                /\ \A id \in FindNamed(name) : nets[id].name = name
    BY DEF FindNamed, CanAsk
<1>3. \A id \in Recurring : GoesInto(j, id) => Said \/ Into(id)
    BY <1>1 DEF GoesInto
<1>4. \A id \in Recurring : Asks(j, id) => Said
    BY <1>1 DEF Asks
<1>5. /\ \A name \in Names \cup {NoName} : Answers(j, "refused", name) => Said
      /\ Answers(j, "no-match", NoName) => Said
    OBVIOUS
<1> HIDE DEF Said
<1>6. j.confirm # NoName /\ IntoConfirmed(j)
        => Said \/ \E id \in Recurring : Into(id) /\ nets[id].name = j.confirm
    BY <1>1, <1>2, <1>3, <1>5 DEF IntoConfirmed
<1>7. CASE j.content.net
    <2>1. NetImportRun(j)
        BY <1>7 DEF LooksForTheNet
    <2>2. CASE IsAdHoc(j.content)
        BY <1>5, <2>1, <2>2 DEF NetImportRun, Said
    <2>3. CASE ~IsAdHoc(j.content) /\ j.confirm # NoName
        BY <1>6, <2>1, <2>3 DEF NetImportRun, Said
    <2>4. CASE ~IsAdHoc(j.content) /\ j.confirm = NoName
        BY <1>2, <1>4, <1>5, <2>1, <2>4 DEF NetImportRun, Said
    <2> QED BY <2>2, <2>3, <2>4
<1>8. CASE ~j.content.net
    <2>1. SessionImportRun(j)
        BY <1>8 DEF LooksForTheNet
    <2>2. CASE IsAdHoc(j.content)
        BY <1>5, <2>1, <2>2 DEF SessionImportRun, Said
    <2>3. CASE ~IsAdHoc(j.content) /\ j.confirm # NoName
        BY <1>6, <2>1, <2>3 DEF SessionImportRun, Said
    <2>4. CASE ~IsAdHoc(j.content) /\ j.confirm = NoName
        BY <1>2, <1>3, <1>4, <1>5, <1>8, <2>1, <2>4 DEF SessionImportRun, Said
    <2> QED BY <2>2, <2>3, <2>4
<1> QED BY <1>7, <1>8

(* An upload is read, and the net it is for is looked for.                   *)
LEMMA ReadingKeeps ==
    ASSUME PushInv, NEW j \in jobs, LooksForTheNet(j) \/ (ReadsUpload(j) /\ uploads[j.file] # NoFile)
    PROVE  PushInv'
<1>1. /\ GoodJob(j) /\ j \in Job /\ Tables /\ GoodUploads
      /\ UNCHANGED <<open, push, prompt, pushed, agreed, asked, thread, posted, database, uploads>>
    BY DEF PushInv, GoodJob, LooksForTheNet, ReadsUpload, UpstreamOnly
<1>2. Onward /\ UpstreamOnly
    <2>1. rows' = rows /\ nets' = nets
        BY <1>1 DEF database
    <2>2. open' = open /\ agreed' = agreed
        BY <1>1
    <2>3. Onward
        BY <2>1, <2>2 DEF Onward
    <2>4. UpstreamOnly
        BY <1>1 DEF UpstreamOnly
    <2> QED BY <2>3, <2>4
<1>3. Tables'
    BY <1>1, TablesStay
<1>4. ASSUME NEW k, GoodJob(k)', Becomes(j, k), k.id = j.id, k.file = j.file, k.does = j.does
      PROVE  PushInv'
    BY <1>1, <1>2, <1>3, <1>4, BecomesKeeps
<1>5. GoodJob(j)'
    BY <1>1, <1>2, JobStays
<1>6. CASE ReadsUpload(j) /\ uploads[j.file] # NoFile
    <2>1. PICK content \in Contents : /\ content = uploads[j.file] /\ NamedAfter(j.file, content)
                                     /\ GoodContent(content, open)
        BY <1>1, <1>6 DEF GoodUploads, Job
    <2> DEFINE k == [j EXCEPT !.at = "run", !.content = content]
    <2>2. /\ k \in Job /\ k.id = j.id /\ k.file = j.file /\ k.does = j.does /\ k.at = "run"
          /\ k.net = j.net /\ k.confirm = j.confirm /\ k.reply = j.reply /\ k.content = content
        BY <1>1 DEF Job
    <2>3. Becomes(j, k) /\ j.at = "start" /\ j.does = "import"
        BY <1>6, <2>1 DEF ReadsUpload
    <2> HIDE DEF k
    <2>4. GoodContent(content, open')
        BY <1>1, <2>1
    <2>5. GoodJob(k)'
        BY <1>5, <2>1, <2>2, <2>3, <2>4, NoReplyIs DEF GoodJob
    <2> QED BY <1>4, <2>2, <2>3, <2>5
<1>7. CASE LooksForTheNet(j)
    <2>1. j.at = "run"
        BY <1>7 DEF LooksForTheNet
    <2>2. CASE \E status \in {"needs-confirmation", "refused", "no-match"}, name \in Names \cup {NoName} :
                    Answers(j, status, name)
        <3>1. PICK status \in {"needs-confirmation", "refused", "no-match"},
                   name \in Names \cup {NoName} : Answers(j, status, name)
            BY <2>2
        <3>2. status \in Statuses /\ status \notin Taken
            BY DEF Statuses, Taken
        <3>3. PICK k : /\ Becomes(j, k) /\ k.id = j.id /\ k.file = j.file /\ k.does = j.does
                       /\ GoodJob(k)'
            BY <1>1, <1>2, <2>1, <3>1, <3>2, AnswersIs
        <3> QED BY <1>4, <3>3
    <2>3. CASE Becomes(j, [j EXCEPT !.at = "apply"])
        <3> DEFINE k == [j EXCEPT !.at = "apply"]
        <3>1. /\ k \in Job /\ k.id = j.id /\ k.file = j.file /\ k.does = j.does /\ k.at = "apply"
              /\ k.net = j.net /\ k.confirm = j.confirm /\ k.reply = j.reply
              /\ k.content = j.content
            BY <1>1 DEF Job
        <3>2. Becomes(j, k)
            BY <2>3
        <3> HIDE DEF k
        <3>3. GoodJob(k)'
            BY <1>5, <2>1, <3>1 DEF GoodJob
        <3> QED BY <1>4, <3>1, <3>2, <3>3
    <2>4. CASE \E id \in Recurring : Becomes(j, [j EXCEPT !.at = "apply", !.net = id])
        <3>1. PICK id \in Recurring : Becomes(j, [j EXCEPT !.at = "apply", !.net = id])
            BY <2>4
        <3> DEFINE k == [j EXCEPT !.at = "apply", !.net = id]
        <3>2. id \in NetIds /\ id \in DOMAIN nets' /\ ~nets'[id].adHoc
            BY <1>1 DEF Tables, Recurring, database
        <3>3. /\ k \in Job /\ k.id = j.id /\ k.file = j.file /\ k.does = j.does /\ k.at = "apply"
              /\ k.net = id /\ k.confirm = j.confirm /\ k.reply = j.reply
              /\ k.content = j.content
            BY <1>1, <3>2 DEF Job
        <3>4. Becomes(j, k)
            BY <3>1
        <3> HIDE DEF k
        <3>5. GoodJob(k)'
            BY <1>5, <2>1, <3>2, <3>3 DEF GoodJob
        <3> QED BY <1>4, <3>3, <3>4, <3>5
    <2> QED BY <1>1, <1>7, <2>2, <2>3, <2>4, LooksIs
<1> QED BY <1>6, <1>7

(* A process ends: an upload lands or goes, or an import has had its say.    *)
LEMMA EndingKeeps ==
    ASSUME PushInv, NEW j \in jobs,
           \/ UploadLands(j) \/ DiscardUpload(j) \/ RemovesUpload(j)
           \/ ReadsUpload(j) /\ uploads[j.file] = NoFile
    PROVE  PushInv'
<1>1. /\ GoodJob(j) /\ j \in Job /\ GoodUploads /\ SiteTypes /\ Ids
      /\ j.reply \in Replies /\ j.file \in Files
    BY DEF PushInv, GoodJob, Job
<1>2. UpstreamOnly /\ UNCHANGED database
    BY DEF UploadLands, DiscardUpload, RemovesUpload, ReadsUpload
<1>3. PICK reply \in Replies : /\ EndsWith(j, reply)
                               /\ reply.status \in Taken => RemovesUpload(j) /\ reply = j.reply
    <2>1. [status |-> "gone", name |-> NoName] \in Replies
        BY DEF Replies, Statuses
    <2>2. CASE UploadLands(j) \/ DiscardUpload(j)
        <3>1. j.at = "start" /\ j.reply = NoReply
            BY <1>1, <2>2 DEF UploadLands, DiscardUpload, GoodJob, Job
        <3> QED BY <1>1, <2>2, <3>1, NoReplyIs DEF UploadLands, DiscardUpload
    <2>3. CASE RemovesUpload(j)
        BY <1>1, <2>3 DEF RemovesUpload
    <2>4. CASE ReadsUpload(j) /\ uploads[j.file] = NoFile
        BY <2>1, <2>4 DEF ReadsUpload, Taken
    <2> QED BY <2>2, <2>3, <2>4
<1>4. GoodUploads'
    <2>1. open' = open
        BY <1>2 DEF UpstreamOnly
    <2>2. CASE UploadLands(j)
        <3>1. PICK content \in Contents : /\ content = j.content /\ GoodContent(content, open)
                                         /\ NamedAfter(j.file, content)
            BY <1>1, <2>2 DEF UploadLands, GoodJob, GoodContent
        <3>2. uploads' = [uploads EXCEPT ![j.file] = content]
            BY <2>2, <3>1 DEF UploadLands
        <3> QED BY <1>1, <2>1, <3>1, <3>2 DEF GoodUploads
    <2>3. CASE uploads' \in {uploads, [uploads EXCEPT ![j.file] = NoFile]}
        BY <1>1, <2>1, <2>3 DEF GoodUploads
    <2> QED BY <2>2, <2>3 DEF DiscardUpload, RemovesUpload, ReadsUpload
<1>5. ASSUME NEW s \in Sites, NamesApart, thread[s].push # Idle, thread[s].push.job = j.id,
             reply.status \in Taken, ~IsNet(push[s].of)
      PROVE  Upstream(push[s].of, rows)
    <2>1. j.at = "clean" /\ reply = j.reply
        BY <1>3, <1>5 DEF RemovesUpload
    <2>2. j.file = RemoteName(push[s].of) /\ push[s].of \in Subjects
        <3>1. AnswersTo(thread[s].push, j) /\ GoodSite(s) /\ GoodThread(s)
            BY <1>5 DEF PushInv, Ids, GoodSite
        <3> QED BY <1>5, <3>1 DEF AnswersTo, GoodSite, GoodThread
    <2>3. GoodContent(j.content, open) /\ NamedAfter(j.file, j.content)
        BY <1>1, <2>1 DEF GoodJob
    <2>4. SubjectOf(j.content) = push[s].of
        BY <1>5, <2>2, <2>3, SubjectIs DEF NamesApart, NamedAfter
    <2>5. ~j.content.net /\ j.content.sessions = {push[s].of}
        BY <1>5, <2>3, <2>4, SubjectIs DEF IsNet
    <2> QED BY <1>1, <1>5, <2>1, <2>5 DEF GoodJob
<1> QED BY <1>2, <1>3, <1>4, <1>5, EndsKeeps

-----------------------------------------------------------------------------
(* Importing.                                                                *)

LEMMA AddsIs ==
    ASSUME NEW id, NEW new, AddsRows(id, new)
    PROVE  /\ rows \subseteq rows' /\ \A x \in new : \E r \in rows' : r.net = id /\ r.session = x
           /\ \A r \in rows' : r \in rows \/ (r.net = id /\ r.session \in new)
           /\ \A r, q \in rows' : r \notin rows /\ q \notin rows /\ r.session = q.session => r = q
<1> DEFINE row(x) == [id |-> 1 + Cardinality({r \in rows : r.net = id /\ r.session = x}),
                      net |-> id, session |-> x]
<1>1. rows' = rows \cup {row(x) : x \in new}
    BY DEF AddsRows
<1>2. \A x : row(x).net = id /\ row(x).session = x
    OBVIOUS
<1> HIDE DEF row
<1> QED BY <1>1, <1>2

(* New sessions go into net id, which has none of them; no ad hoc net of that *)
(* name has, if it is one itself.                                            *)
LEMMA RowsKeep ==
    ASSUME Tables, open' = open, NEW id, NEW new \in SUBSET (Sessions \ open), AddsRows(id, new),
           DOMAIN nets \subseteq DOMAIN nets', DOMAIN nets' \subseteq NetIds, id \in DOMAIN nets',
           grants' \subseteq DOMAIN nets',
           \A n \in DOMAIN nets : nets'[n] = nets[n],
           \A n \in DOMAIN nets' : nets'[n] \in [name : Names, adHoc : BOOLEAN],
           \A r \in rows : ~(r.net = id /\ r.session \in new),
           nets'[id].adHoc => \A x \in new : nets'[id].name = HomeOf[x] /\ FindAdHocSession(x) = {}
    PROVE  Tables'
<1>1. /\ \A r \in rows' : r \in rows \/ (r.net = id /\ r.session \in new)
      /\ \A r, q \in rows' : r \notin rows /\ q \notin rows /\ r.session = q.session => r = q
    BY AddsIs
<1>2. \A r \in rows' : /\ r.net \in DOMAIN nets' /\ r.session \in Sessions \ open'
                       /\ nets'[r.net].adHoc => nets'[r.net].name = HomeOf[r.session]
    BY <1>1 DEF Tables
<1>3. ASSUME NEW r \in rows, NEW q \in rows', q \notin rows, r.session = q.session
      PROVE  r.net # q.net /\ ~(nets'[r.net].adHoc /\ nets'[q.net].adHoc)
    <2>1. q.net = id /\ q.session \in new
        BY <1>1, <1>3
    <2>2. r.net # id /\ r.net \in DOMAIN nets /\ nets'[r.net] = nets[r.net]
        BY <1>3, <2>1 DEF Tables
    <2>3. nets[r.net].adHoc => r.net \in FindAdHocSession(r.session)
        BY <1>3, <2>2 DEF Tables, FindAdHocSession, Has
    <2> QED BY <1>3, <2>1, <2>2, <2>3
<1>4. ASSUME NEW r \in rows, NEW q \in rows, r # q, r.session = q.session
      PROVE  r.net # q.net /\ ~(nets'[r.net].adHoc /\ nets'[q.net].adHoc)
    BY <1>4 DEF Tables, NotTwice
<1>5. NotTwice'
    BY <1>1, <1>3, <1>4 DEF NotTwice
<1> QED BY <1>2, <1>5 DEF Tables

LEMMA ApplyingKeeps ==
    ASSUME PushInv, NEW j \in jobs, Applies(j)
    PROVE  PushInv'
<1>1. /\ GoodJob(j) /\ j \in Job /\ Tables /\ j.at = "apply"
      /\ UNCHANGED <<open, push, prompt, pushed, agreed, asked, thread, posted, uploads>>
    BY DEF PushInv, GoodJob, Applies, UpstreamOnly
<1>2. /\ GoodContent(j.content, open) /\ j.content.name \in Names
      /\ j.content.sessions \in SUBSET (Sessions \ open)
      /\ j.net # 0 => j.net \in DOMAIN nets /\ ~nets[j.net].adHoc
    BY <1>1 DEF GoodJob, GoodContent, Contents
<1>3. ASSUME NEW status \in Statuses, NEW name \in Names \cup {NoName}, Answers(j, status, name),
             Tables', DOMAIN nets \subseteq DOMAIN nets', rows \subseteq rows',
             \A id \in DOMAIN nets : nets'[id] = nets[id],
             status \in Taken /\ ~j.content.net
                => \A x \in j.content.sessions : Upstream(x, rows')
      PROVE  PushInv'
    <2>1. Onward /\ UpstreamOnly
        <3>1. UpstreamOnly
            BY <1>1 DEF UpstreamOnly
        <3>2. \A x : Upstream(x, rows) => Upstream(x, rows')
            BY <1>3 DEF Upstream
        <3>3. \A id \in DOMAIN nets : nets'[id].adHoc = nets[id].adHoc
            BY <1>3
        <3>4. open' = open /\ agreed' = agreed
            BY <1>1
        <3> QED BY <1>3, <3>1, <3>2, <3>3, <3>4 DEF Onward
    <2>2. PICK k : /\ Becomes(j, k) /\ k.id = j.id /\ k.file = j.file /\ k.does = j.does
                   /\ GoodJob(k)'
        BY <1>1, <1>3, <2>1, AnswersIs
    <2> QED BY <1>1, <1>3, <2>1, <2>2, BecomesKeeps
<1>4. {"already-imported", "imported", "merged"} \subseteq Statuses
    BY DEF Statuses
<1>5. CASE ImportsInto(j) \/ MergesInto(j)
    <2> DEFINE new == Lacks(j.net, j.content.sessions)
    <2>1. PICK status \in {"already-imported", "imported", "merged"} :
            Answers(j, status, nets[j.net].name)
        BY <1>5 DEF ImportsInto, MergesInto
    <2>2. /\ j.net # 0 /\ AddsRows(j.net, new) /\ UNCHANGED <<nets, grants>>
        BY <1>5 DEF ImportsInto, MergesInto
    <2>3. new \in SUBSET (Sessions \ open) /\ nets[j.net].name \in Names
        BY <1>1, <1>2, <2>2 DEF Lacks, Tables
    <2>4. /\ \A r \in rows : ~(r.net = j.net /\ r.session \in new)
          /\ \A x \in j.content.sessions : x \in new \/ \E r \in rows : r.net = j.net /\ r.session = x
        BY DEF Lacks, Has
    <2> HIDE DEF new
    <2>5. rows \subseteq rows' /\ \A x \in new : \E r \in rows' : r.net = j.net /\ r.session = x
        BY <2>2, AddsIs
    <2>6. Tables'
        BY <1>1, <1>2, <2>2, <2>3, <2>4, RowsKeep DEF Tables
    <2>7. \A x \in j.content.sessions : Upstream(x, rows')
        BY <2>4, <2>5 DEF Upstream
    <2> QED BY <1>3, <1>4, <2>1, <2>2, <2>3, <2>5, <2>6, <2>7
<1>6. ASSUME NEW new \in SUBSET j.content.sessions, NewNet(j.content),
             AddsRows(CHOOSE n \in DOMAIN nets' : n \notin DOMAIN nets, new),
             ~j.content.net => \A x \in new : j.content.name = HomeOf[x] /\ FindAdHocSession(x) = {}
      PROVE  /\ Tables' /\ DOMAIN nets \subseteq DOMAIN nets' /\ rows \subseteq rows'
             /\ \A n \in DOMAIN nets : nets'[n] = nets[n]
             /\ \A x \in new : Upstream(x, rows')
    <2> DEFINE id == CHOOSE n \in NetIds : n \notin DOMAIN nets
               net == [name |-> j.content.name, adHoc |-> ~j.content.net]
    <2>1. id \in NetIds /\ id \notin DOMAIN nets
        <3>1. DOMAIN nets # NetIds /\ DOMAIN nets \subseteq NetIds
            BY <1>1, <1>6 DEF NewNet, Tables
        <3> QED BY <3>1
    <2>2. /\ nets' = [n \in DOMAIN nets \cup {id} |-> IF n = id THEN net ELSE nets[n]]
          /\ grants' = IF j.content.net THEN grants \cup {id} ELSE grants
        BY <1>6 DEF NewNet
    <2>3. net \in [name : Names, adHoc : BOOLEAN] /\ net.adHoc = ~j.content.net
          /\ net.name = j.content.name
        BY <1>2 DEF GoodContent, Contents
    <2> HIDE DEF id, net
    <2>4. /\ DOMAIN nets' = DOMAIN nets \cup {id} /\ nets'[id] = net
          /\ \A n \in DOMAIN nets : nets'[n] = nets[n]
        BY <2>1, <2>2
    <2>5. (CHOOSE n \in DOMAIN nets' : n \notin DOMAIN nets) = id
        BY <2>1, <2>4
    <2>6. AddsRows(id, new)
        BY <1>6, <2>5
    <2>7. /\ rows \subseteq rows' /\ \A x \in new : \E r \in rows' : r.net = id /\ r.session = x
        BY <2>6, AddsIs
    <2>8. /\ DOMAIN nets' \subseteq NetIds /\ grants' \subseteq DOMAIN nets'
          /\ \A n \in DOMAIN nets' : nets'[n] \in [name : Names, adHoc : BOOLEAN]
        BY <1>1, <2>1, <2>2, <2>3, <2>4 DEF Tables
    <2>9. \A r \in rows : r.net # id
        BY <1>1, <2>1 DEF Tables
    <2>10. new \in SUBSET (Sessions \ open)
        BY <1>2
    <2>11. Tables'
        BY <1>1, <1>6, <2>1, <2>3, <2>4, <2>6, <2>8, <2>9, <2>10, RowsKeep
    <2> QED BY <2>4, <2>7, <2>11 DEF Upstream
<1>7. CASE ImportsAdHoc(j)
    <2>1. ~j.content.net
        BY <1>7 DEF ImportsAdHoc
    <2>2. PICK x \in Sessions : j.content.sessions = {x} /\ j.content.name = HomeOf[x]
        BY <1>2, <2>1 DEF GoodContent
    <2>3. IF FindAdHocSession(x) # {}
          THEN Answers(j, "already-imported", j.content.name) /\ UNCHANGED database
          ELSE /\ NewNet(j.content)
               /\ AddsRows(CHOOSE id \in DOMAIN nets' : id \notin DOMAIN nets, {x})
               /\ Answers(j, "imported", j.content.name)
        BY <1>7, <2>2 DEF ImportsAdHoc
    <2>4. CASE FindAdHocSession(x) # {}
        <3>1. Upstream(x, rows)
            BY <2>4 DEF FindAdHocSession, Has, Upstream
        <3>2. Tables' /\ UNCHANGED <<nets, rows>>
            BY <1>1, <2>3, <2>4, TablesStay DEF database
        <3> QED BY <1>2, <1>3, <1>4, <2>2, <2>3, <2>4, <3>1, <3>2
    <2>5. CASE FindAdHocSession(x) = {}
        <3> DEFINE new == {x}
        <3>1. /\ new \in SUBSET j.content.sessions /\ NewNet(j.content)
              /\ AddsRows(CHOOSE n \in DOMAIN nets' : n \notin DOMAIN nets, new)
              /\ \A y \in new : j.content.name = HomeOf[y] /\ FindAdHocSession(y) = {}
            BY <2>2, <2>3, <2>5
        <3> HIDE DEF new
        <3>2. /\ Tables' /\ DOMAIN nets \subseteq DOMAIN nets' /\ rows \subseteq rows'
              /\ \A n \in DOMAIN nets : nets'[n] = nets[n]
              /\ \A y \in new : Upstream(y, rows')
            BY <1>6, <3>1
        <3>3. \A y \in j.content.sessions : Upstream(y, rows')
            BY <2>2, <3>2 DEF new
        <3> QED BY <1>2, <1>3, <1>4, <2>3, <2>5, <3>2, <3>3
    <2> QED BY <2>4, <2>5
<1>8. CASE AddsAsNewNet(j)
    <2>1. /\ j.content.net /\ NewNet(j.content) /\ Answers(j, "imported", j.content.name)
          /\ AddsRows(CHOOSE n \in DOMAIN nets' : n \notin DOMAIN nets, j.content.sessions)
        BY <1>8 DEF AddsAsNewNet
    <2>2. /\ Tables' /\ DOMAIN nets \subseteq DOMAIN nets' /\ rows \subseteq rows'
          /\ \A n \in DOMAIN nets : nets'[n] = nets[n]
        BY <1>6, <2>1
    <2> QED BY <1>2, <1>3, <1>4, <2>1, <2>2
<1> QED BY <1>5, <1>7, <1>8 DEF Applies

-----------------------------------------------------------------------------
(* Every step.                                                               *)

LEMMA RenamesKeeps ==
    ASSUME PushInv, RenamesNet
    PROVE  PushInv'
<1>1. /\ Tables /\ GoodUploads /\ SiteTypes /\ Ids
      /\ UNCHANGED <<open, push, thread, posted, prompt, pushed, agreed, grants, rows, uploads, jobs>>
    BY DEF PushInv, RenamesNet, site
<1>2. PICK id \in Recurring, name \in Names : nets' = [nets EXCEPT ![id].name = name]
    BY DEF RenamesNet
<1>3. id \in DOMAIN nets /\ ~nets[id].adHoc /\ nets[id] \in [name : Names, adHoc : BOOLEAN]
    BY <1>1 DEF Recurring, Tables
<1>4. /\ DOMAIN nets' = DOMAIN nets /\ \A n \in DOMAIN nets : n # id => nets'[n] = nets[n]
      /\ nets'[id] \in [name : Names, adHoc : BOOLEAN] /\ ~nets'[id].adHoc
    BY <1>2, <1>3
<1>5. \A n \in DOMAIN nets : /\ nets'[n] \in [name : Names, adHoc : BOOLEAN]
                             /\ nets'[n].adHoc = nets[n].adHoc
                             /\ nets'[n].adHoc => nets'[n] = nets[n]
    BY <1>1, <1>3, <1>4 DEF Tables
<1>6. Tables'
    <2>1. NotTwice'
        BY <1>1, <1>5 DEF Tables, NotTwice
    <2>2. \A r \in rows' : /\ r.net \in DOMAIN nets' /\ r.session \in Sessions \ open'
                           /\ nets'[r.net].adHoc => nets'[r.net].name = HomeOf[r.session]
        BY <1>1, <1>4, <1>5 DEF Tables
    <2> QED BY <1>1, <1>4, <1>5, <2>1, <2>2 DEF Tables
<1>7. Onward
    BY <1>1, <1>4, <1>5 DEF Onward
<1>8. GoodUploads' /\ SiteTypes' /\ Ids'
    BY <1>1, <1>7, UploadsStay DEF SiteTypes, Ids
<1>9. \A j \in jobs' : GoodJob(j)'
    BY <1>1, <1>7, JobStays DEF PushInv
<1>10. \A s \in Sites : GoodSite(s)'
    BY <1>1, <1>7, SiteStays DEF PushInv
<1> QED BY <1>6, <1>8, <1>9, <1>10 DEF PushInv

LEMMA NextKeeps == PushInv /\ [Next]_vars => PushInv'
<1> SUFFICES ASSUME PushInv, [Next]_vars PROVE PushInv'
    OBVIOUS
<1>1. CASE \/ \E session \in Sessions : ClosesSession(session)
           \/ \E s \in Sites : OtherPrompt(s) \/ DeclinePushToNet(s)
    BY <1>1, OperatorKeeps
<1>2. ASSUME NEW s \in Sites, Pushes(s) PROVE PushInv'
    <2>1. PICK subject \in Pushable : StartPush(s, subject, NoName)
        BY <1>2 DEF Pushes
    <2>2. subject \in Subjects
        BY FederationAssumption
    <2>3. prompt \in [Sites -> {"none", "push", "other"}] /\ prompt[s] = "none"
        BY <1>2 DEF Pushes, PushInv, SiteTypes
    <2>4. prompt' = [prompt EXCEPT ![s] = "none"]
        BY <1>2, <2>3 DEF Pushes
    <2>5. UNCHANGED <<posted, pushed, database, uploads>> /\ open' = open /\ agreed' = agreed
        BY <1>2 DEF Pushes
    <2> QED BY <2>1, <2>2, <2>4, <2>5, StartKeeps
<1>3. ASSUME NEW s \in Sites, ConfirmPushToNet(s) PROVE PushInv'
    <2>1. push[s].of \in Subjects /\ push[s].asked \in Names \cup {NoName}
        BY <1>3 DEF ConfirmPushToNet, PushInv, GoodSite, SiteTypes, Push
    <2>2. /\ StartPush(s, push[s].of, push[s].asked) /\ <<push[s].of, push[s].asked>> \in agreed'
          /\ agreed \subseteq agreed' /\ open' = open /\ prompt' = [prompt EXCEPT ![s] = "none"]
          /\ UNCHANGED <<posted, pushed, database, uploads>>
        BY <1>3 DEF ConfirmPushToNet
    <2> QED BY <2>1, <2>2, StartKeeps
<1>4. ASSUME NEW s \in Sites, FinishPush(s) PROVE PushInv'
    BY <1>4, FinishKeeps
<1>5. ASSUME NEW s \in Sites, Quits(s) \/ PushTimesOut(s) \/ DiscardTimesOut(s) PROVE PushInv'
    BY <1>5, GivesUpKeeps
<1>6. ASSUME NEW j \in jobs, JobGoesOn(j) PROVE PushInv'
    <2>1. CASE \/ UploadLands(j) \/ DiscardUpload(j) \/ RemovesUpload(j)
               \/ ReadsUpload(j) /\ uploads[j.file] = NoFile
        BY <2>1, EndingKeeps
    <2>2. CASE LooksForTheNet(j) \/ (ReadsUpload(j) /\ uploads[j.file] # NoFile)
        BY <2>2, ReadingKeeps
    <2>3. CASE Applies(j)
        BY <2>3, ApplyingKeeps
    <2> QED BY <1>6, <2>1, <2>2, <2>3 DEF JobGoesOn
<1>7. ASSUME NEW j \in jobs, JobDies(j) PROVE PushInv'
    BY <1>7, DiesKeeps
<1>8. CASE RenamesNet
    BY <1>8, RenamesKeeps
<1>9. CASE UNCHANGED vars
    <2>1. /\ Tables /\ GoodUploads /\ SiteTypes /\ Ids
          /\ UNCHANGED <<open, push, thread, posted, prompt, pushed, agreed, database, uploads, jobs>>
        BY <1>9 DEF PushInv, vars, site
    <2>2. Onward
        BY <2>1 DEF Onward, database
    <2>3. Tables' /\ GoodUploads' /\ SiteTypes' /\ Ids'
        BY <2>1, <2>2, TablesStay, UploadsStay DEF SiteTypes, Ids
    <2>4. \A j \in jobs' : GoodJob(j)'
        BY <2>1, <2>2, JobStays DEF PushInv
    <2>5. \A s \in Sites : GoodSite(s)'
        BY <2>1, <2>2, SiteStays DEF PushInv
    <2> QED BY <2>3, <2>4, <2>5 DEF PushInv
<1> QED BY <1>1, <1>2, <1>3, <1>4, <1>5, <1>6, <1>7, <1>8, <1>9 DEF Next

(* The invariant: the upstream's tables, what is in /imports, what each       *)
(* process has read and each site shows, and who waits for whom.             *)
THEOREM PushInvAlways == Spec => []PushInv
BY InitPush, NextKeeps, PTL DEF Spec

-----------------------------------------------------------------------------
(* What it is for.                                                           *)

LEMMA TypesFollow == PushInv => TypeOK
<1> SUFFICES ASSUME PushInv PROVE TypeOK
    OBVIOUS
<1>1. Tables /\ GoodUploads /\ SiteTypes
    BY DEF PushInv
<1>2. ASSUME NEW s \in Sites
      PROVE  /\ push[s].running \in BOOLEAN /\ push[s].of \in Subjects \cup {NoName}
             /\ push[s].file \in Files \cup {NoFile} /\ push[s].asked \in Names \cup {NoName}
             /\ thread[s].push.at \in Places /\ thread[s].discard.at \in Places
             /\ posted[s] \in Seq(Results) /\ Len(posted[s]) <= 1
             /\ push[s].running <=> (thread[s].push.at # "idle" \/ posted[s] # << >>)
    <2>1. push[s] \in Push /\ thread[s] \in Threads /\ posted[s] \in Seq(Results) /\ GoodSite(s)
        BY <1>1 DEF PushInv, SiteTypes
    <2>2. thread[s].push \in {Idle} \cup PushWork /\ thread[s].discard \in {Idle} \cup DiscardWork
        BY <2>1 DEF Threads
    <2>3. /\ thread[s].push.at \in Places /\ thread[s].discard.at \in Places
          /\ thread[s].push.at # "idle" <=> thread[s].push # Idle
        BY <2>2, IdleIs DEF Places
    <2>4. push[s].running <=> (thread[s].push.at # "idle" \/ posted[s] # << >>)
        BY <2>1, <2>3 DEF GoodSite, GoodThread, GoodPosted, Push
    <2>5. posted[s] = << >> \/ \E result \in Results : posted[s] = <<result>>
        BY <2>1 DEF GoodSite, GoodPosted
    <2>6. Len(posted[s]) <= 1
        <3>1. CASE posted[s] = << >>
            <4>1. Len(<< >>) = 0
                OBVIOUS
            <4> QED BY <3>1, <4>1
        <3>2. ASSUME NEW result \in Results, posted[s] = <<result>> PROVE Len(posted[s]) <= 1
            <4>1. Len(<<result>>) = 1
                OBVIOUS
            <4> QED BY <3>2, <4>1
        <3> QED BY <2>5, <3>1, <3>2
    <2> QED BY <2>1, <2>3, <2>4, <2>6 DEF Push
<1>3. \A j \in jobs : j.id \in JobIds /\ j.reply \in Replies /\ j.net \in DOMAIN nets \cup {0}
    BY DEF PushInv, GoodJob, Job
<1>4. /\ open \subseteq Sessions /\ DOMAIN nets \subseteq NetIds /\ grants \subseteq DOMAIN nets
      /\ \A r \in rows : r.net \in DOMAIN nets /\ r.session \in Sessions
    BY <1>1 DEF Tables
<1>5. uploads \in [Files -> Contents \cup {NoFile}]
    BY <1>1 DEF GoodUploads
<1>6. pushed \in [Sites -> SUBSET Sessions] /\ prompt \in [Sites -> {"none", "push", "other"}]
    BY <1>1 DEF SiteTypes
<1> QED BY <1>2, <1>3, <1>4, <1>5, <1>6 DEF TypeOK

(* Every part of the state has its type; a console shows a push as running    *)
(* exactly while a thread is at it or its result is yet to be seen.          *)
THEOREM TypesAlways == Spec => []TypeOK
BY PushInvAlways, TypesFollow, PTL

(* However often, from wherever and however late a session is pushed, alone   *)
(* or with its net, no net upstream has it twice, and no two ad hoc nets of  *)
(* one name have it (ImportInto's and MergeInto's check under the write      *)
(* lock).                                                                   *)
THEOREM NeverTwice == Spec => []NotTwice
<1>1. PushInv => NotTwice
    BY DEF PushInv, Tables
<1> QED BY <1>1, PushInvAlways, PTL

(* A session still being logged is never upstream (StartPush,                 *)
(* WithoutOpenSessions).                                                    *)
THEOREM OnlyFinishedArrive == Spec => []OnlyFinished
<1>1. PushInv => OnlyFinished
    BY DEF PushInv, Tables, OnlyFinished
<1> QED BY <1>1, PushInvAlways, PTL

(* What a console shows as pushed is upstream, as long as no two of what is   *)
(* pushed have one file name: an answer is about the file, and only its name *)
(* says what was in it (FinishPush, DecidePushResult).                       *)
THEOREM PushedIsAlwaysThere ==
    ASSUME NamesApart PROVE Spec => []PushedIsThere
<1>1. PushInv => PushedIsThere
    BY DEF PushInv, GoodSite, PushedIsThere, Upstream
<1> QED BY <1>1, PushInvAlways, PTL

(* Which steps add a process that has found its net.                         *)
LEMMA OnlyLookingFinds ==
    ASSUME PushInv, [Next]_vars, NEW k \in jobs' \ jobs, k.at = "apply", k.net # 0
    PROVE  \E j \in jobs : LooksForTheNet(j) /\ k \in jobs' /\ k \notin jobs
<1>1. \A t : RunProgram(t).at = "start"
    BY DEF RunProgram
<1>2. ASSUME NEW j, NEW reply, EndsWith(j, reply) PROVE FALSE
    <2>1. \E s \in Sites : k = RunProgram(NextProgram(thread[s].push))
        BY <1>2 DEF EndsWith
    <2> QED BY <1>1, <2>1
<1>3. ASSUME NEW s, NEW subject, NEW confirm, StartPush(s, subject, confirm) PROVE FALSE
    <2>1. \E t : k = RunProgram(t)
        BY <1>3 DEF StartPush
    <2> QED BY <1>1, <2>1
<1>4. ASSUME NEW s, DiscardKeptUpload(s) PROVE FALSE
    <2>1. \E t : k = RunProgram(t)
        BY <1>4 DEF DiscardKeptUpload
    <2> QED BY <1>1, <2>1
<1>5. jobs' # jobs
    OBVIOUS
<1>6. ASSUME NEW j \in jobs, Applies(j) PROVE FALSE
    <2>1. PICK status, name : Answers(j, status, name)
        BY <1>6 DEF Applies, ImportsInto, MergesInto, ImportsAdHoc, AddsAsNewNet
    <2>2. k = [j EXCEPT !.at = "clean", !.reply = [status |-> status, name |-> name]]
        BY <2>1 DEF Answers, Becomes
    <2>3. j \in Job
        BY DEF PushInv, GoodJob
    <2> QED BY <2>2, <2>3 DEF Job
<1>7. ASSUME NEW j \in jobs, ReadsUpload(j) PROVE FALSE
    <2>1. CASE uploads[j.file] = NoFile
        BY <1>2, <1>7, <2>1 DEF ReadsUpload
    <2>2. CASE uploads[j.file] # NoFile
        <3>1. k = [j EXCEPT !.at = "run", !.content = uploads[j.file]]
            BY <1>7, <2>2 DEF ReadsUpload, Becomes
        <3>2. j \in Job
            BY DEF PushInv, GoodJob
        <3> QED BY <3>1, <3>2 DEF Job
    <2> QED BY <2>1, <2>2
<1>8. ASSUME NEW j \in jobs, UploadLands(j) \/ DiscardUpload(j) \/ RemovesUpload(j) \/ JobDies(j)
      PROVE  FALSE
    <2>1. ~JobDies(j)
        BY DEF JobDies
    <2>2. EndsWith(j, j.reply)
        BY <1>8, <2>1 DEF UploadLands, DiscardUpload, RemovesUpload
    <2> QED BY <1>2, <2>2
<1>9. ASSUME NEW s \in Sites,
             \/ Pushes(s) \/ FinishPush(s) \/ ConfirmPushToNet(s) \/ DeclinePushToNet(s)
      PROVE  FALSE
    <2>1. CASE Pushes(s) \/ ConfirmPushToNet(s)
        BY <1>3, <2>1 DEF Pushes, ConfirmPushToNet
    <2>2. CASE FinishPush(s) \/ DeclinePushToNet(s)
        BY <1>4, <1>5, <2>2 DEF FinishPush, DeclinePushToNet
    <2> QED BY <1>9, <2>1, <2>2
<1>10. \E j \in jobs : LooksForTheNet(j)
    <2>1. /\ \A session \in Sessions : ~ClosesSession(session)
          /\ \A s \in Sites : ~OtherPrompt(s) /\ ~Quits(s) /\ ~PushTimesOut(s) /\ ~DiscardTimesOut(s)
          /\ ~RenamesNet /\ vars' # vars
        BY <1>5 DEF ClosesSession, OtherPrompt, Quits, PushTimesOut, DiscardTimesOut, RenamesNet, vars
    <2> QED BY <1>6, <1>7, <1>8, <1>9, <2>1 DEF Next, JobGoesOn
<1> QED BY <1>10

(* A process finds a net by the name in its file, or by the name that what    *)
(* was pushed was confirmed for; and the file is of just that.               *)
LEMMA FindsWhatWasAgreed ==
    ASSUME NamesApart, PushInv, NEW j \in jobs, LooksForTheNet(j),
           NEW k \in jobs' \ jobs, k.at = "apply", k.net # 0
    PROVE  \/ ~k.content.net /\ nets[k.net].name = k.content.name
           \/ <<SubjectOf(k.content), nets[k.net].name>> \in agreed
<1>1. GoodJob(j) /\ j \in Job /\ Tables
    BY DEF PushInv, GoodJob
<1>2. j.at = "run"
    BY DEF LooksForTheNet
<1>3. \A i : Becomes(j, i) => k = i
    BY DEF Becomes
<1>4. PICK id \in Recurring :
        /\ Becomes(j, [j EXCEPT !.at = "apply", !.net = id])
        /\ \/ ~j.content.net /\ nets[id].name = j.content.name
           \/ j.confirm # NoName /\ nets[id].name = j.confirm
    <2>1. ASSUME NEW status, NEW name, Answers(j, status, name) PROVE FALSE
        BY <1>1, <1>3, <2>1 DEF Answers, Job
    <2>2. ~Becomes(j, [j EXCEPT !.at = "apply"])
        BY <1>1, <1>2, <1>3 DEF Job, GoodJob
    <2> QED BY <1>1, <2>1, <2>2, LooksIs
<1>5. k.net = id /\ k.content = j.content
    BY <1>1, <1>3, <1>4 DEF Job
<1>6. CASE j.confirm # NoName /\ nets[id].name = j.confirm
    <2>1. PICK subject \in Subjects : j.file = RemoteName(subject) /\ <<subject, j.confirm>> \in agreed
        BY <1>1, <1>6 DEF GoodJob
    <2>2. SubjectOf(j.content) = subject
        BY <1>1, <1>2, <2>1, SubjectIs DEF GoodJob, NamedAfter, NamesApart
    <2> QED BY <1>5, <1>6, <2>1, <2>2
<1> QED BY <1>4, <1>5, <1>6

(* Nothing goes into a net of another name, and no net is merged into one the *)
(* upstream has, before just that has been agreed to, as long as no two of   *)
(* what is pushed have one file name (SessionImport::Run, NetImport::Run,    *)
(* ConfirmPushToNet).                                                       *)
THEOREM AlwaysAskedFirst ==
    ASSUME NamesApart PROVE Spec => AskedFirst
<1>1. PushInv /\ [Next]_vars =>
        [\A j \in jobs' \ jobs : (j.at = "apply" /\ j.net # 0) =>
              \/ ~j.content.net /\ nets[j.net].name = j.content.name
              \/ <<SubjectOf(j.content), nets[j.net].name>> \in agreed]_vars
    BY OnlyLookingFinds, FindsWhatWasAgreed
<1> QED BY <1>1, PushInvAlways, PTL DEF Spec, AskedFirst

=============================================================================
