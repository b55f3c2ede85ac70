----------------------------- MODULE NetFiles -----------------------------
(***************************************************************************)
(* Files that bring nets and sessions in: a net's .qlnet and a session's     *)
(* .qlsession imported on the Import page, the Import or Merge window with   *)
(* its stored plan, and the Pull window, whose thread (PullRunner) fetches   *)
(* them from an upstream.                                                   *)
(*                                                                         *)
(* Sessions are told apart by when they were held, which is what             *)
(* HasNetInstance and SameSession go by; whether the check-ins here and in   *)
(* the file are the same is one bit.  Who may do what is Accounts' matter:   *)
(* everybody here may log every net.                                        *)
(***************************************************************************)
EXTENDS Integers, FiniteSets, Sequences, Functions

CONSTANTS
    Windows,        \* sessions of QuickLogger that share the database
    Console,        \* the one at the local console: it has the Pull window
    Names, Alike,   \* net names; pairs of them that NetNamesLookAlike
    Sessions,
    InitialNets,    \* [ids -> Names]
    InitialRows,    \* the sessions here at first: [net, session, is]
    NetExports,     \* the .qlnet files received: [name, sessions]
    SessionExports, \* the .qlsession files, with one session each
    Upstream,       \* the upstream's nets: [names -> their closed sessions]
    Elsewhere,      \* bound: what else happens here
    Created,        \* bound: names of the nets created elsewhere
    MaxNets, MaxWrites, MaxGenerations, \* bounds: nets; writes; pull steps
    NoFile

VARIABLES
    nets,      \* the database: its nets,
    rows,      \* their sessions,
    writes,    \* and how many transactions added any
    win,       \* each window's AppState
    pull,      \* the console's Pull window
    puller,    \* its thread
    posted,    \* results its UI thread has yet to see
    dir,       \* the sessions' files in imports/.pull
    stray      \* those that an scp which outlived its console may yet put there

database == <<nets, rows, writes>>
pulling == <<pull, puller, posted, dir, stray>>
vars == <<database, win, pulling>>

NetIds == 1..MaxNets
Files == [name : Names, sessions : SUBSET Sessions]

ASSUME NetFilesAssumption ==
    /\ Console \in Windows /\ Alike \subseteq Names \X Names
    /\ DOMAIN InitialNets \subseteq NetIds /\ InitialNets \in [DOMAIN InitialNets -> Names]
    /\ InitialRows \subseteq [net : DOMAIN InitialNets, session : Sessions, is : {"file", "here", "open"}]
    /\ \A r, q \in InitialRows : (r.net = q.net /\ r.session = q.session) => r = q
    /\ NetExports \cup SessionExports \subseteq Files /\ NoFile \notin Files
    /\ \A f \in SessionExports : \E x \in Sessions : f.sessions = {x}
    /\ Created \subseteq Names /\ DOMAIN Upstream \subseteq Names /\ Range(Upstream) \subseteq SUBSET Sessions
    /\ MaxWrites \in Nat /\ MaxGenerations \in Nat

NoPlan == [x \in {} |-> x]
AppState(known) ==
    [page |-> "list", nets |-> known, target |-> 0, name |-> NoFile, asks |-> NoFile,
     merge |-> "none", file |-> NoFile, taken |-> FALSE, to |-> 0, plan |-> NoPlan]
NoThread == [at |-> "none", generation |-> 0, net |-> NoFile]
NoPull == [stage |-> "none", sessions |-> FALSE, generation |-> 0, net |-> NoFile]

Init ==
    /\ nets = InitialNets /\ writes = 0
    /\ rows = {[id |-> <<0, r.net, r.session>>, net |-> r.net, session |-> r.session, is |-> r.is] :
                 r \in InitialRows}
    /\ win = [w \in Windows |-> AppState(InitialNets)]
    /\ pull = NoPull /\ puller = NoThread /\ posted = << >> /\ dir = {} /\ stray = {}

NetNamesLookAlike(a, b) == a = b \/ <<a, b>> \in Alike
FindNamed(known, name) == {id \in DOMAIN known : known[id] = name}
HasNetInstance(id, x) == \E r \in rows : r.net = id /\ r.session = x

-----------------------------------------------------------------------------
(* What a transaction does to the sessions.                                 *)

(* The Pull window is up: `gone` is a console that is not running.            *)
show_pull_modal == pull.stage \notin {"none", "gone"}

(* Room within the bounds for one more write and net, besides what a pull     *)
(* under way may still need.                                                *)
Room(w) ==
    LET kept == IF w # Console /\ show_pull_modal THEN 1 ELSE 0
    IN  writes + kept < MaxWrites /\ Cardinality(DOMAIN nets) + kept < MaxNets

(* CreateNetInstance with the session's check-ins, for each of `sessions`.    *)
Writes(id, sessions, without) ==
    /\ writes' = writes + 1
    /\ rows' = (rows \ without) \cup
         {[id |-> <<writes', id, x>>, net |-> id, session |-> x, is |-> "file"] : x \in sessions}

ApplyNetSlice(file) ==
    \E id \in NetIds \ DOMAIN nets :
       /\ \A other \in NetIds \ DOMAIN nets : id <= other
       /\ nets' = [n \in DOMAIN nets \cup {id} |-> IF n = id THEN file.name ELSE nets[n]]
       /\ Writes(id, file.sessions, {})

(* HasNetInstance is asked within the write transaction; a target that has    *)
(* gone fails it (net_id REFERENCES nets).                                  *)
Importable(id, sessions) ==
    IF id \in DOMAIN nets THEN {x \in sessions : ~HasNetInstance(id, x)} ELSE {}

(* PlanNetMerge: what each of the file's sessions is to net `id`.             *)
PlanNetMerge(file, id) ==
    [x \in file.sessions |->
        IF ~HasNetInstance(id, x) THEN [kind |-> "new", local |-> <<>>, replace |-> FALSE]
        ELSE LET here == CHOOSE r \in rows : r.net = id /\ r.session = x IN
             [kind |-> IF here.is = "here" THEN "differs" ELSE "here",
              local |-> here.id, replace |-> FALSE]]

(* ApplyNetMerge, by the plan and nothing else.                              *)
Replaced(plan) == {x \in DOMAIN plan : plan[x].kind = "differs" /\ plan[x].replace}
ApplyNetMerge(id, plan) ==
    /\ Writes(id, {x \in DOMAIN plan : plan[x].kind = "new"} \cup Replaced(plan),
              {r \in rows : \E x \in Replaced(plan) : r.id = plan[x].local})
    /\ UNCHANGED nets

-----------------------------------------------------------------------------
(* The Import page and its windows.  A window over the page takes every key. *)

Free(w) == win[w].merge = "none" /\ win[w].asks = NoFile /\ (w = Console => pull.stage = "none")
Sets(w, rec) == win' = [win EXCEPT ![w] = rec]

(* F9 on Recurring Nets; the list was read when that page was shown.          *)
ShowImportNetPage(w) ==
    /\ Free(w) /\ win[w].page = "list"
    /\ Sets(w, [win[w] EXCEPT !.page = "nets"])
    /\ UNCHANGED <<database, pulling>>

OpenSessionImport(w) ==
    /\ Free(w) /\ win[w].page = "list"
    /\ \E id \in DOMAIN win[w].nets :
         Sets(w, [win[w] EXCEPT !.page = "sessions", !.target = id, !.name = win[w].nets[id]])
    /\ UNCHANGED <<database, pulling>>

(* Back on Recurring Nets, which reads the list again.                       *)
RefreshNets(rec) == [rec EXCEPT !.page = "list", !.nets = nets', !.target = 0, !.name = NoFile]

LeaveImportPage(w) ==
    /\ Free(w) /\ win[w].page # "list"
    /\ UNCHANGED <<database, pulling>>
    /\ Sets(w, RefreshNets(win[w]))

(* ImportNetSlice: `taken` by the database, the nets to merge into by the     *)
(* list the window has.                                                     *)
ImportNetSlice(w, rec, file, names_checked) ==
    LET taken == FindNamed(nets, file.name) # {}
        alike == {id \in DOMAIN rec.nets : NetNamesLookAlike(file.name, rec.nets[id])}
    IN  \/ /\ (taken \/ ~names_checked) /\ alike # {}
           /\ Sets(w, [rec EXCEPT !.merge = "choose", !.file = file, !.taken = taken])
           /\ UNCHANGED database
        \/ /\ ~((taken \/ ~names_checked) /\ alike # {})
           /\ ApplyNetSlice(file)
           /\ Sets(w, RefreshNets([rec EXCEPT !.merge = "none", !.file = NoFile, !.taken = FALSE]))

ImportSelectedNetSlice(w) ==
    /\ Free(w) /\ win[w].page = "nets" /\ Room(w)
    /\ \E file \in NetExports : ImportNetSlice(w, win[w], file, FALSE)
    /\ UNCHANGED pulling

ImportSelectedNetSliceAnyway(w) ==
    /\ win[w].merge = "choose" /\ ~win[w].taken /\ Room(w)
    /\ ImportNetSlice(w, [win[w] EXCEPT !.merge = "none"], win[w].file, TRUE)
    /\ UNCHANGED pulling

PlansOnce(w, id) ==  \* mutant: a plan made for another net is kept
    IF win[w].plan = NoPlan THEN PlanNetMerge(win[w].file, id) ELSE win[w].plan
Plans(w, id) == PlanNetMerge(win[w].file, id)

ChooseMergeTarget(w) ==
    /\ win[w].merge = "choose"
    /\ \E id \in DOMAIN win[w].nets :
         /\ NetNamesLookAlike(win[w].file.name, win[w].nets[id])
         /\ Sets(w, [win[w] EXCEPT !.merge = "summary", !.to = id, !.plan = Plans(w, id)])
    /\ UNCHANGED <<database, pulling>>

ToggleMergeReplace(w) ==
    /\ win[w].merge = "summary"
    /\ \E x \in DOMAIN win[w].plan :
         /\ win[w].plan[x].kind = "differs"
         /\ win' = [win EXCEPT ![w].plan[x].replace = ~@]
    /\ UNCHANGED <<database, pulling>>

NoMerge(rec) == [rec EXCEPT !.merge = "none", !.file = NoFile, !.taken = FALSE, !.to = 0, !.plan = NoPlan]

(* A net that has gone fails the transaction: nothing is changed.            *)
ConfirmNetMerge(w) ==
    /\ win[w].merge = "summary" /\ Room(w)
    /\ IF win[w].to \in DOMAIN nets
       THEN /\ ApplyNetMerge(win[w].to, win[w].plan)
            /\ Sets(w, RefreshNets(NoMerge(win[w])))
       ELSE Sets(w, NoMerge(win[w])) /\ UNCHANGED database
    /\ UNCHANGED pulling

BackOutOfNetMerge(w) ==
    /\ win[w].merge # "none"
    /\ Sets(w, IF win[w].merge = "summary" THEN [win[w] EXCEPT !.merge = "choose"] ELSE NoMerge(win[w]))
    /\ UNCHANGED <<database, pulling>>

(* ImportSession: the page's own net, or a question when the names differ.    *)
ImportSession(w, file, name_checked) ==
    IF ~name_checked /\ ~NetNamesLookAlike(file.name, win[w].name)
    THEN Sets(w, [win[w] EXCEPT !.asks = file]) /\ UNCHANGED database
    ELSE IF Importable(win[w].target, file.sessions) = {}
    THEN Sets(w, [win[w] EXCEPT !.asks = NoFile]) /\ UNCHANGED database
    ELSE /\ Writes(win[w].target, file.sessions, {}) /\ UNCHANGED nets
         /\ Sets(w, RefreshNets([win[w] EXCEPT !.asks = NoFile]))

ImportSelectedSession(w) ==
    /\ Free(w) /\ win[w].page = "sessions" /\ Room(w)
    /\ \E file \in SessionExports : ImportSession(w, file, FALSE)
    /\ UNCHANGED pulling
ImportSelectedSessionAnyway(w) ==
    /\ win[w].asks # NoFile /\ Room(w) /\ ImportSession(w, win[w].asks, TRUE)
    /\ UNCHANGED pulling
CancelConfirmPrompt(w) ==
    /\ win[w].asks # NoFile /\ Sets(w, [win[w] EXCEPT !.asks = NoFile])
    /\ UNCHANGED <<database, pulling>>

-----------------------------------------------------------------------------
(* The Pull window.  Starting a step and closing the window cancel the        *)
(* thread and wait for it (PullRunner::Prepare, Cancel).                     *)

NextGeneration == pull.generation < MaxGenerations

(* pull_dir names the folder while files are fetched.  An scp of a console     *)
(* killed earlier puts nothing into a folder that is removed.                *)
RemoveAll == dir' = {} /\ stray' = {}
RemovePullDirectory ==
    IF pull.sessions /\ pull.stage = "fetching" THEN RemoveAll ELSE UNCHANGED <<dir, stray>>

OpenPullWindow ==
    /\ Free(Console) /\ win[Console].page # "list" /\ NextGeneration /\ Room(Console)
    /\ pull' = [stage |-> "listing", sessions |-> win[Console].page = "sessions",
                generation |-> pull.generation + 1, net |-> NoFile]
    /\ puller' = [at |-> "listing", generation |-> pull'.generation, net |-> NoFile]
    /\ UNCHANGED <<database, win, posted, dir, stray>>

(* The thread: list-nets; export-sessions or export-net, then scp.           *)
Posts(what, ok, files) ==
    /\ posted' = Append(posted, [what |-> what, generation |-> puller.generation, ok |-> ok,
                                 net |-> puller.net, files |-> files])
    /\ puller' = NoThread
PullerOnly == UNCHANGED <<database, win, pull, stray>>

(* What scp is at, for imports/.pull.                                        *)
Copied == IF puller.at = "copying" /\ pull.sessions THEN Upstream[puller.net] ELSE {}

ListsNets ==
    /\ puller.at = "listing" /\ Posts("nets", TRUE, {})
    /\ PullerOnly /\ UNCHANGED dir
ExportsFiles ==
    /\ puller.at = "exporting"
    /\ IF Upstream[puller.net] = {} THEN Posts("files", TRUE, {})
       ELSE puller' = [puller EXCEPT !.at = "copying"] /\ UNCHANGED posted
    /\ PullerOnly /\ UNCHANGED dir
CopiesFiles ==
    /\ puller.at = "copying" /\ Posts("files", TRUE, Upstream[puller.net])
    /\ dir' = dir \cup Copied
    /\ PullerOnly
NeverDuringScp == puller.at \in {"listing", "exporting"}  \* mutant: scp has no limit
MayFail == puller.at # "none"
(* RunProgram's limit, or the connection's end; some files may be there.      *)
PullerFails ==
    /\ MayFail
    /\ Posts(IF puller.at = "listing" THEN "nets" ELSE "files", FALSE, {})
    /\ \E some \in SUBSET Copied : dir' = dir \cup some
    /\ PullerOnly

AnyResult(result, stage) == TRUE  \* mutant: a result is used whatever has become of the window
Awaited(result, stage) == result.generation = pull.generation /\ pull.stage = stage

CloseTheWindow == [pull EXCEPT !.stage = "none", !.net = NoFile]

FinishPullList ==
    /\ posted # << >> /\ Head(posted).what = "nets" /\ posted' = Tail(posted)
    /\ pull' = IF ~Awaited(Head(posted), "listing") THEN pull
               ELSE IF Head(posted).ok /\ Upstream # NoPlan THEN [pull EXCEPT !.stage = "choosing"]
               ELSE CloseTheWindow
    /\ UNCHANGED <<database, win, puller, dir, stray>>

ChoosePullNet ==
    /\ pull.stage = "choosing" /\ NextGeneration
    /\ \E net \in DOMAIN Upstream :
         /\ ~(pull.sessions /\ Upstream[net] = {})
         /\ pull' = [pull EXCEPT !.stage = "fetching", !.generation = @ + 1, !.net = net]
         /\ puller' = [at |-> "exporting", generation |-> pull'.generation, net |-> net]
    /\ IF pull.sessions THEN RemoveAll ELSE UNCHANGED <<dir, stray>>
    /\ UNCHANGED <<database, win, posted>>

(* ImportPulledSessions: one transaction, each session only if it is missing  *)
(* (and its file is there to be read).                                      *)
ImportPulledSessions(files) ==
    LET target == win[Console].target
        added == Importable(target, files \cap dir) IN
    IF target \notin DOMAIN nets THEN UNCHANGED <<database, win>>
    ELSE /\ IF added = {} THEN UNCHANGED database
            ELSE Writes(target, added, {}) /\ UNCHANGED nets
         /\ Sets(Console, RefreshNets(win[Console]))

FinishPullFiles ==
    LET result == Head(posted) IN
    /\ posted # << >> /\ result.what = "files" /\ posted' = Tail(posted)
    /\ IF ~Awaited(result, "fetching") THEN UNCHANGED <<database, win, pull, dir, stray>>
       ELSE /\ pull' = CloseTheWindow /\ RemovePullDirectory
            /\ IF ~result.ok \/ result.files = {} THEN UNCHANGED <<database, win>>
               ELSE IF pull.sessions THEN ImportPulledSessions(result.files)
               ELSE ImportNetSlice(Console, win[Console],
                                   [name |-> result.net, sessions |-> result.files], FALSE)
    /\ UNCHANGED puller

ClosesOnly ==  \* mutant: the thread is told to stop but not waited for
    /\ show_pull_modal /\ NextGeneration
    /\ pull' = [CloseTheWindow EXCEPT !.generation = @ + 1]
    /\ RemovePullDirectory
    /\ UNCHANGED <<database, win, puller, posted>>
ClosePullWindow ==
    /\ show_pull_modal /\ NextGeneration
    /\ puller' = NoThread
    /\ pull' = [CloseTheWindow EXCEPT !.generation = @ + 1]
    /\ RemovePullDirectory
    /\ UNCHANGED <<database, win, posted>>

-----------------------------------------------------------------------------
(* The console's process.  Generations count on for the bound's sake: no      *)
(* result of the old process is left to compare them with.                   *)

ConsoleEnds ==
    /\ "console ends" \in Elsewhere /\ pull.stage # "gone"
    /\ pull' = [NoPull EXCEPT !.stage = "gone", !.generation = pull.generation]
    /\ puller' = NoThread /\ posted' = << >>
    /\ Sets(Console, AppState(NoPlan))
    /\ UNCHANGED database

(* Quitting, or SIGTERM: ~PullRunner cancels the thread and waits for it, and  *)
(* nothing removes the folder.                                              *)
ConsoleQuits ==
    /\ ConsoleEnds
    /\ \E some \in SUBSET Copied : dir' = dir \cup some
    /\ UNCHANGED stray

(* scp has a process group of its own, and goes on.                          *)
ConsoleKilled ==
    /\ ConsoleEnds
    /\ stray' = stray \cup Copied
    /\ UNCHANGED dir
StrayArrives ==
    /\ stray # {} /\ stray' = {}
    /\ \E some \in SUBSET stray : dir' = dir \cup some
    /\ UNCHANGED <<database, win, pull, puller, posted>>

ConsoleStarts ==
    /\ pull.stage = "gone" /\ pull' = [pull EXCEPT !.stage = "none"]
    /\ Sets(Console, AppState(nets))
    /\ UNCHANGED <<database, puller, posted, dir, stray>>

-----------------------------------------------------------------------------
(* Meanwhile, by other people on the shared server: an edit in History, a     *)
(* net deleted or created.                                                  *)

SessionEdited ==
    /\ "edit" \in Elsewhere
    /\ \E r \in rows : r.is = "file" /\ rows' = (rows \ {r}) \cup {[r EXCEPT !.is = "here"]}
    /\ UNCHANGED <<nets, writes, win, pulling>>
NetDeleted ==
    /\ "delete net" \in Elsewhere
    /\ \E id \in DOMAIN nets :
         /\ nets' = [n \in DOMAIN nets \ {id} |-> nets[n]]
         /\ rows' = {r \in rows : r.net # id}
    /\ UNCHANGED <<writes, win, pulling>>
NetCreated ==
    /\ Room("nobody")
    /\ \E name \in Created, id \in NetIds \ DOMAIN nets :
         /\ FindNamed(nets, name) = {} /\ \A other \in NetIds \ DOMAIN nets : id <= other
         /\ nets' = [n \in DOMAIN nets \cup {id} |-> IF n = id THEN name ELSE nets[n]]
    /\ UNCHANGED <<rows, writes, win, pulling>>

Next ==
    \/ \E w \in Windows : ShowImportNetPage(w) \/ OpenSessionImport(w) \/ LeaveImportPage(w)
    \/ \E w \in Windows : ImportSelectedNetSlice(w) \/ ImportSelectedNetSliceAnyway(w)
    \/ \E w \in Windows : ChooseMergeTarget(w) \/ ToggleMergeReplace(w) \/ ConfirmNetMerge(w)
                          \/ BackOutOfNetMerge(w)
    \/ \E w \in Windows : ImportSelectedSession(w) \/ ImportSelectedSessionAnyway(w)
                          \/ CancelConfirmPrompt(w)
    \/ OpenPullWindow \/ FinishPullList \/ ChoosePullNet \/ FinishPullFiles \/ ClosePullWindow
    \/ ListsNets \/ ExportsFiles \/ CopiesFiles \/ PullerFails
    \/ ConsoleQuits \/ ConsoleKilled \/ StrayArrives \/ ConsoleStarts
    \/ SessionEdited \/ NetDeleted \/ NetCreated

(* A program is stopped when it takes too long; posted tasks are run.         *)
Fairness == WF_vars(PullerFails) /\ WF_vars(FinishPullList) /\ WF_vars(FinishPullFiles)

Spec == Init /\ [][Next]_vars /\ Fairness

-----------------------------------------------------------------------------
(* Every part of the state has its type; a window's plan is of its file, and  *)
(* a thread runs only for a Pull window that waits for it.                   *)
TypeOK ==
    /\ DOMAIN nets \subseteq NetIds /\ Range(nets) \subseteq Names /\ writes \in 0..MaxWrites
    /\ \A r \in rows : r.net \in DOMAIN nets /\ r.session \in Sessions /\ r.is \in {"file", "here", "open"}
    /\ \A w \in Windows :
         /\ win[w].page \in {"list", "nets", "sessions"}
         /\ win[w].merge \in {"none", "choose", "summary"}
         /\ win[w].merge = "summary" => DOMAIN win[w].plan = win[w].file.sessions
    /\ pull.stage \in {"none", "listing", "choosing", "fetching", "gone"}
    /\ dir \cup stray \subseteq Sessions
    /\ puller.at \in {"none", "listing", "exporting", "copying"}
    /\ puller.at # "none" => /\ puller.generation = pull.generation
                             /\ pull.stage = (IF puller.at = "listing" THEN "listing" ELSE "fetching")

(* No net here has one session twice, however it came: pulled, imported, or   *)
(* merged by a plan.  "Merging the same file twice adds nothing the second   *)
(* time."                                                                   *)
NotTwiceHere ==
    \A a, b \in rows : (a.net = b.net /\ a.session = b.session) => a = b

(* What a pull adds is what the operator last asked for, and is still waiting *)
(* for: that net's sessions, in the net whose History the page was opened    *)
(* from (FinishPullFiles).                                                  *)
PulledIsWanted ==
    [][Len(posted') < Len(posted) =>
         \A r \in rows' \ rows :
            /\ pull.stage = "fetching" /\ r.session \in Upstream[pull.net]
            /\ pull.sessions => r.net = win[Console].target]_vars

Fetching == pull.stage = "fetching" /\ pull.sessions

(* However a pull of sessions ends in a console that goes on, it leaves        *)
(* imports/.pull empty (RemovePullDirectory); and no file comes there outside  *)
(* a pull, but by an scp that outlived its console.  A console that ends in    *)
(* the middle of one leaves what is there, until the next pull.              *)
NoPullLeft ==
    [][~Fetching' /\ dir' # {} =>
         IF Fetching THEN pull'.stage = "gone" ELSE dir' \subseteq dir \cup stray]_vars

(* The Pull window never waits for ever (RunProgram's limit).                 *)
PullsEnd == pull.stage \in {"listing", "fetching"} ~> pull.stage \notin {"listing", "fetching"}

=============================================================================
