----------------------------- MODULE SessionLog -----------------------------
(***************************************************************************)
(* Several operators logging one net's sessions at once, each in a process *)
(* of its own (a console or an SSH session) over one SQLite database.      *)
(*                                                                         *)
(* Each operator has a UI thread, which runs one key handler or one posted *)
(* task at a time, and a ScreenTicker thread, which polls the database and *)
(* posts tasks.  A handler is one action up to its first change of the     *)
(* database and one more for each later statement or transaction: between  *)
(* those any other process may run, the connection may drop, and, where    *)
(* StatementsFail, a statement may give up waiting for the lock and throw. *)
(***************************************************************************)
EXTENDS NetLogTables

CONSTANTS
    OperatorCallsign,  \* each operator's own call sign
    Power,             \* each operator's NetPower on this net
    StatementsFail,    \* whether a statement may time out between two others
    MaxSessions,       \* bound: sessions ever started
    MaxCheckIns,       \* bound: no check-in is begun once this many were logged
    MaxTasks,          \* bound: posted tasks waiting for one UI thread
    Keys               \* bound: what the operators of a run do, of all they can

ASSUME OperatorType ==
    /\ OperatorCallsign \in [Users -> Callsigns]
    /\ Power \in [Users -> {"watch", "log", "manage"}]
    /\ StatementsFail \in BOOLEAN
    /\ MaxSessions \in Nat /\ MaxCheckIns \in Nat /\ MaxTasks \in Nat
    /\ Keys \subseteq {"view", "log", "edit", "pick", "delete", "close", "closeNew", "history",
                        "saved", "disconnect"}

VARIABLES
    db,     \* the tables, shared by every process
    ui,     \* each operator's AppState, as far as it matters here
    tasks   \* what each ScreenTicker has posted and the UI thread not yet run

vars == <<db, ui, tasks>>

MayLog(u) == Power[u] \in {"log", "manage"}
MayManage(u) == Power[u] = "manage"

(* A check-in as a form or window holds it, or none.                       *)
NoCopy == [id |-> 0]
Copy(log, c) == [id |-> c, row |-> log[c]]

(* Row pick mode and the windows that hold on to a row: while one is up the *)
(* list is not reloaded under the operator.                                 *)
Frozen == {"rowPick", "editCheckIn", "deleteConfirm"}

Steps == {"idle", "saveOperator", "addOperator", "logCheckIn", "deleteRow", "deleteHistoryRow",
          "renumberThenLeave", "renumberThenStart"}

(* The fields of AppState:                                                  *)
(*   page, prompt     the page showing and the ConfirmPrompt over it        *)
(*   modal            the window or mode over the active net page           *)
(*   active           active_instance.id; watched, watched_instance_id      *)
(*   viewing          viewing_only                                          *)
(*   shown            active_check_ins, or on the History page              *)
(*                    history_check_ins                                     *)
(*   other            resume_instance.id, or the History page's session,    *)
(*   other_open       and the status it had when it was read                *)
(*   index, held      the row of shown a delete was asked for, and the      *)
(*                    check-in its window names or the edit form copied     *)
(*   draft            the call sign and role about to be logged             *)
(*   step             where the running handler is                          *)
NoDraft == [callsign |-> NoCall, role |-> NoRole]
NetListPage ==
    [page |-> "netList", prompt |-> "none", modal |-> "none", active |-> 0, watched |-> 0,
     viewing |-> FALSE, shown |-> << >>, other |-> 0, other_open |-> FALSE, index |-> 0,
     held |-> NoCopy, draft |-> NoDraft, step |-> "idle"]

Init ==
    /\ db = EmptyTables
    /\ ui = [u \in Users |-> NetListPage]
    /\ tasks = [u \in Users |-> {}]

-----------------------------------------------------------------------------
(* What the helpers do to one operator's AppState, s.                       *)

Becomes(u, s) == ui' = [ui EXCEPT ![u] = s]

(* No window or mode over the page (CancelRowPick, CancelRowDelete and the  *)
(* Cancel handlers of the two forms).                                       *)
NoModal(s) == [s EXCEPT !.modal = "none", !.index = 0, !.held = NoCopy]

CancelConfirmPrompt(s) ==
    [s EXCEPT !.prompt = "none", !.other = 0, !.other_open = FALSE]

RefreshActiveCheckIns(s, d) ==
    [s EXCEPT !.shown = GetCheckInsForNetInstance(d, s.active), !.watched = s.active]

LeaveActiveNet(s) ==
    [NoModal(s) EXCEPT !.page = "netList", !.watched = 0, !.shown = << >>]

ShowSessionClosedPrompt(s) ==
    [NoModal(CancelConfirmPrompt(s)) EXCEPT !.prompt = "sessionClosed", !.watched = 0]

EnsureActiveSessionOpen(s) == IF IsOpen(db, s.active) THEN s ELSE ShowSessionClosedPrompt(s)

JoinOpenSession(s, i, viewing) ==
    IF IsOpen(db, i)
    THEN RefreshActiveCheckIns(
            [NoModal(CancelConfirmPrompt(s)) EXCEPT
                !.page = "activeNet", !.active = i, !.viewing = viewing], db)
    ELSE CancelConfirmPrompt(s)

(* The database during ApplyCheckInRoleDesignation, run on check-in c of    *)
(* session i.  The role given is one the operator of the session can give:  *)
(* never operator_role (see RoleChoices).                                   *)
ApplyCheckInRoleDesignation(d, i, c, old_role, new_role, callsign) ==
    LET freed == SetNetInstanceRoleCallsign(d, i, old_role, NoCall)
    IN  IF old_role = new_role THEN d
        ELSE IF new_role = NoRole THEN freed
        ELSE SetNetInstanceRoleCallsign(
                ClearCheckInRoleForInstance(freed, i, new_role, c), i, new_role, callsign)

(* The roles a form offers: none, or one the session's operator hasn't got. *)
RoleChoices(i) ==
    {NoRole} \cup {r \in Roles : i \in DOMAIN db.sessions => r # db.sessions[i].operator_role}

-----------------------------------------------------------------------------
(* The net list: starting, resuming and watching a session.                 *)

OnPage(u, page) == ui[u].page = page /\ ui[u].prompt = "none" /\ ui[u].step = "idle"
AtPrompt(u, prompt) == ui[u].prompt = prompt /\ ui[u].step = "idle"

(* Newest first, so this is the most recent session left open.              *)
NewestOpenSession == Newest(OpenSessions(db))

ViewStartNet(u) ==
    /\ "view" \in Keys
    /\ OpenSessions(db) # {}
    /\ Becomes(u, JoinOpenSession(ui[u], NewestOpenSession, TRUE))
    /\ UNCHANGED <<db, tasks>>

StartSelectedNet(u) ==
    /\ OnPage(u, "netList")
    /\ IF ~MayLog(u) THEN ViewStartNet(u)
       ELSE /\ Becomes(u, IF OpenSessions(db) # {}
                          THEN [ui[u] EXCEPT !.prompt = "resumeNet", !.other = NewestOpenSession,
                                             !.other_open = TRUE]
                          ELSE [ui[u] EXCEPT !.page = "role"])
            /\ UNCHANGED <<db, tasks>>

(* ResumeOpenNet and ViewOpenNet.                                           *)
AnswerResumePrompt(u, viewing) ==
    /\ AtPrompt(u, "resumeNet")
    /\ viewing => "view" \in Keys
    /\ Becomes(u, JoinOpenSession(ui[u], ui[u].other, viewing))
    /\ UNCHANGED <<db, tasks>>

CancelPrompt(u) ==
    /\ \E prompt \in {"resumeNet", "closeNet"} : AtPrompt(u, prompt)
    /\ Becomes(u, CancelConfirmPrompt(ui[u]))
    /\ UNCHANGED <<db, tasks>>

(* Whether or not someone else closed it first, on to the role page.        *)
CloseOpenNetAndStartNew(u) ==
    /\ "closeNew" \in Keys
    /\ AtPrompt(u, "resumeNet")
    /\ MayLog(u)
    /\ LET i == ui[u].other IN
       /\ db' = MarkClosed(db, i, u)
       /\ Becomes(u, IF ClosesHere(db, i)
                     THEN [ui[u] EXCEPT !.prompt = "none", !.other_open = FALSE,
                                        !.step = "renumberThenStart"]
                     ELSE [CancelConfirmPrompt(ui[u]) EXCEPT !.page = "role"])
    /\ UNCHANGED tasks

RenumberThenStart(u) ==
    /\ ui[u].step = "renumberThenStart"
    /\ db' = RenumberCheckIns(db, ui[u].other)
    /\ Becomes(u, [CancelConfirmPrompt(ui[u]) EXCEPT !.page = "role", !.step = "idle"])
    /\ UNCHANGED tasks

RoleBack(u) ==
    /\ OnPage(u, "role")
    /\ Becomes(u, [ui[u] EXCEPT !.page = "netList"])
    /\ UNCHANGED <<db, tasks>>

(* Viewer, on the role page.                                                *)
ChooseViewer(u) == OnPage(u, "role") /\ ViewStartNet(u)

(* The session is there for everyone from here on; the operator's check-in  *)
(* follows in two more statements (LogOperatorCheckIn).                     *)
OperatorCallsignSubmit(u, role) ==
    /\ OnPage(u, "role")
    /\ MayLog(u)
    /\ db.last_session < MaxSessions /\ db.last_check_in < MaxCheckIns
    /\ db' = CreateNetInstance(db, role, OperatorCallsign[u])
    /\ Becomes(u, [ui[u] EXCEPT !.active = db'.last_session, !.viewing = FALSE,
                                !.step = "saveOperator",
                                !.draft = [callsign |-> OperatorCallsign[u], role |-> role]])
    /\ UNCHANGED tasks

SaveOperatorStation(u) ==
    /\ ui[u].step = "saveOperator"
    /\ db' = SaveNetStation(db, ui[u].draft.callsign)
    /\ Becomes(u, [ui[u] EXCEPT !.step = "addOperator"])
    /\ UNCHANGED tasks

(* Numbered 1 whatever has been logged meanwhile.                           *)
AddOperatorCheckIn(u) ==
    /\ ui[u].step = "addOperator"
    /\ LET row == [session |-> ui[u].active, callsign |-> ui[u].draft.callsign, seq |-> 1,
                   role |-> ui[u].draft.role]
           rest == [ui[u] EXCEPT !.step = "idle", !.draft = NoDraft]
       IN  IF ForeignKeysHold(db, row)
           THEN /\ db' = AddCheckIn(db, row)
                /\ Becomes(u, [RefreshActiveCheckIns(rest, db') EXCEPT !.page = "activeNet"])
           ELSE Becomes(u, rest) /\ UNCHANGED db
    /\ UNCHANGED tasks

-----------------------------------------------------------------------------
(* The active net page.  A Viewer gets no further than StopViewing.         *)

LoggingOrViewing(u, modal) == OnPage(u, "activeNet") /\ ui[u].modal = modal  \* mutant
Logging(u, modal) == OnPage(u, "activeNet") /\ ~ui[u].viewing /\ ui[u].modal = modal

OpenNewStationModal(u) ==
    /\ "log" \in Keys
    /\ Logging(u, "none")
    /\ Becomes(u, EnsureActiveSessionOpen([ui[u] EXCEPT !.modal = "newStation"]))
    /\ UNCHANGED <<db, tasks>>

CancelModal(u) ==
    /\ ui[u].modal # "none" /\ ui[u].prompt = "none" /\ ui[u].step = "idle"
    /\ Becomes(u, NoModal(ui[u]))
    /\ UNCHANGED <<db, tasks>>

(* LogStationCheckIn looks whether the session is still open...             *)
LogStationCheckIn(u, callsign, role) ==
    /\ Logging(u, "newStation")
    /\ MayLog(u)
    /\ role \in RoleChoices(ui[u].active)
    /\ db.last_check_in < MaxCheckIns
    /\ LET s == EnsureActiveSessionOpen(ui[u]) IN
       Becomes(u, IF s.prompt = "sessionClosed" THEN s
                  ELSE [s EXCEPT !.step = "logCheckIn",
                                 !.draft = [callsign |-> callsign, role |-> role]])
    /\ UNCHANGED <<db, tasks>>

AlreadyLoggedAsTyped(d, i, callsign) ==  \* mutant: /M is another station
    \E c \in CheckInIds(d, i) : d.check_ins[c].callsign = callsign
AlreadyLogged(d, i, callsign) ==
    \E c \in CheckInIds(d, i) : Base[d.check_ins[c].callsign] = Base[callsign]

(* ... and then logs it, all in one WriteTransaction, and keeps the form up *)
(* for the next station (Log & Continue) or not (Log & Close).              *)
LogStationTransaction(u, continue) ==
    /\ ui[u].step = "logCheckIn"
    /\ LET i == ui[u].active
           row == [session |-> i, callsign |-> ui[u].draft.callsign, seq |-> 0,
                   role |-> ui[u].draft.role]
           saved == SaveNetStation(db, row.callsign)
           added == AddCheckInAtNextSequence(saved, row)
           rest == [ui[u] EXCEPT !.step = "idle", !.draft = NoDraft]
       IN  IF AlreadyLogged(db, i, row.callsign) \/ ~ForeignKeysHold(saved, row)
           THEN Becomes(u, rest) /\ UNCHANGED db
           ELSE /\ db' = ApplyCheckInRoleDesignation(added, i, added.last_check_in, NoRole,
                                                     row.role, row.callsign)
                /\ Becomes(u, RefreshActiveCheckIns(
                        [rest EXCEPT !.modal = IF continue THEN "newStation" ELSE "none"], db'))
    /\ UNCHANGED tasks

OpenEditCheckInForm(s, c) == [s EXCEPT !.modal = "editCheckIn", !.held = Copy(s.shown, c)]
OpenRowDeleteConfirm(s, c) ==
    [s EXCEPT !.modal = "deleteConfirm", !.index = Position(s.shown, c), !.held = Copy(s.shown, c)]

(* Enter on the highlighted row.                                            *)
EditSelectedCheckIn(u, c) ==
    /\ "edit" \in Keys
    /\ Logging(u, "none")
    /\ MayLog(u)
    /\ c \in DOMAIN ui[u].shown
    /\ Becomes(u, OpenEditCheckInForm(ui[u], c))
    /\ UNCHANGED <<db, tasks>>

(* F3 and F5; which of the two it was shows once a number is typed.         *)
StartRowPick(u) ==
    /\ "pick" \in Keys
    /\ Logging(u, "none")
    /\ MayLog(u)
    /\ ui[u].shown # << >>
    /\ Becomes(u, [ui[u] EXCEPT !.modal = "rowPick"])
    /\ UNCHANGED <<db, tasks>>

FinishRowPick(u, c) ==
    /\ Logging(u, "rowPick")
    /\ c \in DOMAIN ui[u].shown
    /\ \/ "edit" \in Keys /\ Becomes(u, OpenEditCheckInForm(ui[u], c))
       \/ "delete" \in Keys /\ Becomes(u, OpenRowDeleteConfirm(ui[u], c))
    /\ UNCHANGED <<db, tasks>>

SaveEditAsOffered(u, choice) ==  \* mutant: the operator's own role is not kept
    /\ Logging(u, "editCheckIn")
    /\ choice \in RoleChoices(ui[u].active)
    /\ LET i == ui[u].active
           held == ui[u].held
           updated == UpdateCheckIn(db, held.id, [held.row EXCEPT !.role = choice])
       IN  /\ db' = ApplyCheckInRoleDesignation(updated, i, held.id, held.row.role, choice,
                                                held.row.callsign)
           /\ Becomes(u, RefreshActiveCheckIns(NoModal(ui[u]), db'))
    /\ UNCHANGED tasks

(* One WriteTransaction: the whole row is written from the form's copy, and *)
(* the role is handed over unless the form leaves the copy's role alone.    *)
SaveEditCheckInForm(u, choice) ==
    /\ Logging(u, "editCheckIn")
    /\ MayLog(u)
    /\ choice \in RoleChoices(ui[u].active)
    /\ LET i == ui[u].active
           held == ui[u].held
           role == IF held.row.role \in RoleChoices(i) THEN choice ELSE held.row.role
           updated == UpdateCheckIn(db, held.id, [held.row EXCEPT !.role = role])
       IN  /\ db' = ApplyCheckInRoleDesignation(updated, i, held.id, held.row.role, role,
                                                held.row.callsign)
           /\ Becomes(u, RefreshActiveCheckIns(NoModal(ui[u]), db'))
    /\ UNCHANGED tasks

(* RemoveSelectedCheckIn, run on the row now at the index confirmed, if     *)
(* there is one: its role column is cleared in a statement of its own       *)
(* before the row goes.                                                     *)
Confirmed(s) == {c \in DOMAIN s.shown : Position(s.shown, c) = s.index}

ConfirmRowDelete(u) ==
    /\ Logging(u, "deleteConfirm")
    /\ MayLog(u)
    /\ LET s == ui[u] IN
       \/ /\ Confirmed(s) = {}
          /\ Becomes(u, NoModal(s))
          /\ UNCHANGED db
       \/ \E c \in Confirmed(s) :
          /\ db' = SetNetInstanceRoleCallsign(db, s.active, s.shown[c].role, NoCall)
          /\ Becomes(u, [NoModal(s) EXCEPT !.step = "deleteRow", !.held = Copy(s.shown, c)])
    /\ UNCHANGED tasks

DeleteRow(u) ==
    /\ ui[u].step = "deleteRow"
    /\ db' = DeleteCheckIn(db, ui[u].held.id)
    /\ Becomes(u, RefreshActiveCheckIns([NoModal(ui[u]) EXCEPT !.step = "idle"], db'))
    /\ UNCHANGED tasks

RequestCloseActiveNet(u) ==
    /\ "close" \in Keys
    /\ Logging(u, "none")
    /\ MayLog(u)
    /\ Becomes(u, [ui[u] EXCEPT !.prompt = "closeNet"])
    /\ UNCHANGED <<db, tasks>>

CloseActiveNet(u) ==
    /\ AtPrompt(u, "closeNet")
    /\ MayLog(u)
    /\ LET i == ui[u].active IN
       /\ db' = MarkClosed(db, i, u)
       /\ Becomes(u, IF ClosesHere(db, i)
                     THEN [ui[u] EXCEPT !.prompt = "none", !.step = "renumberThenLeave"]
                     ELSE ShowSessionClosedPrompt(ui[u]))
    /\ UNCHANGED tasks

RenumberThenLeave(u) ==
    /\ ui[u].step = "renumberThenLeave"
    /\ db' = RenumberCheckIns(db, ui[u].active)
    /\ Becomes(u, [LeaveActiveNet(ui[u]) EXCEPT !.step = "idle"])
    /\ UNCHANGED tasks

(* Enter on the Net Closed window, and Esc for a Viewer.                    *)
LeaveClosedSession(u) ==
    /\ AtPrompt(u, "sessionClosed")
    /\ Becomes(u, [LeaveActiveNet(CancelConfirmPrompt(ui[u])) EXCEPT !.viewing = FALSE])
    /\ UNCHANGED <<db, tasks>>

StopViewing(u) ==
    /\ OnPage(u, "activeNet") /\ ui[u].viewing
    /\ Becomes(u, [LeaveActiveNet(ui[u]) EXCEPT !.viewing = FALSE])
    /\ UNCHANGED <<db, tasks>>

-----------------------------------------------------------------------------
(* History and the net's saved stations.                                    *)

(* The History page at session i, as it is now; moving to another session   *)
(* is leaving and coming back.  Who may not manage the net only reads it.   *)
OpenHistory(u, i) ==
    /\ "history" \in Keys
    /\ OnPage(u, "netList")
    /\ MayManage(u)
    /\ i \in DOMAIN db.sessions
    /\ Becomes(u, [ui[u] EXCEPT !.page = "history", !.other = i, !.other_open = IsOpen(db, i),
                                !.shown = GetCheckInsForNetInstance(db, i)])
    /\ UNCHANGED <<db, tasks>>

LeaveHistory(s) ==
    [NoModal(s) EXCEPT !.page = "netList", !.other = 0, !.other_open = FALSE, !.shown = << >>]

HistoryBack(u) ==
    /\ OnPage(u, "history") /\ ui[u].modal = "none"
    /\ Becomes(u, LeaveHistory(ui[u]))
    /\ UNCHANGED <<db, tasks>>

PickHistoryCheckIn(u, c) ==
    /\ OnPage(u, "history") /\ ui[u].modal = "none"
    /\ MayManage(u)
    /\ c \in DOMAIN ui[u].shown
    /\ Becomes(u, OpenRowDeleteConfirm(ui[u], c))
    /\ UNCHANGED <<db, tasks>>

DeleteSelectedHistoryCheckIn(u) ==
    /\ OnPage(u, "history") /\ ui[u].modal = "deleteConfirm"
    /\ MayManage(u)
    /\ \E c \in Confirmed(ui[u]) :
       /\ db' = SetNetInstanceRoleCallsign(db, ui[u].other, ui[u].shown[c].role, NoCall)
       /\ Becomes(u, [NoModal(ui[u]) EXCEPT !.step = "deleteHistoryRow",
                                            !.held = Copy(ui[u].shown, c)])
    /\ UNCHANGED tasks

RefreshNetHistory(s, d) ==
    IF s.other \in DOMAIN d.sessions
    THEN [s EXCEPT !.other_open = IsOpen(d, s.other),
                   !.shown = GetCheckInsForNetInstance(d, s.other)]
    ELSE LeaveHistory(s)

DeleteHistoryRow(u) ==
    /\ ui[u].step = "deleteHistoryRow"
    /\ db' = DeleteCheckIn(db, ui[u].held.id)
    /\ Becomes(u, RefreshNetHistory([NoModal(ui[u]) EXCEPT !.step = "idle"], db'))
    /\ UNCHANGED tasks

(* Refused while the list says it is open.  The page moves on to another    *)
(* session; here, it is left.                                               *)
DeleteSelectedNetInstance(u) ==
    /\ OnPage(u, "history") /\ ui[u].modal = "none"
    /\ MayManage(u)
    /\ ~ui[u].other_open
    /\ db' = DeleteNetInstance(db, ui[u].other)
    /\ Becomes(u, LeaveHistory(ui[u]))
    /\ UNCHANGED tasks

RemoveSelectedSavedNetStation(u, callsign) ==
    /\ "saved" \in Keys
    /\ OnPage(u, "netList")
    /\ MayManage(u)
    /\ callsign \in db.saved
    /\ db' = RemoveSavedNetStation(db, callsign)
    /\ UNCHANGED <<ui, tasks>>

-----------------------------------------------------------------------------
(* The ScreenTicker and what it posts to the UI thread.                     *)

Task(kind, i) == [kind |-> kind, session |-> i]

CheckWatchedSession(u) ==
    LET i == ui[u].watched
        post(task) == /\ task \notin tasks[u] /\ Cardinality(tasks[u]) < MaxTasks
                      /\ tasks' = [tasks EXCEPT ![u] = @ \cup {task}]
    IN  /\ i # 0
        /\ IF ~IsOpen(db, i) THEN post(Task("sessionClosed", i))
           ELSE /\ GetCheckInSummary(db, i) # SummaryOf(DOMAIN ui[u].shown)
                /\ post(Task("refreshCheckIns", i))
        /\ UNCHANGED <<db, ui>>

(* SessionClosedTask: already gone from it, or told, or here it is.         *)
ClosedTaskAlways(s, i) == EnsureActiveSessionOpen(s)  \* mutant: told after leaving, too
ClosedTaskUnlessFrozen(s, i) ==  \* mutant: waits for windows, as a refresh does
    IF s.watched # i \/ s.modal \in Frozen THEN s ELSE EnsureActiveSessionOpen(s)
SessionClosedTask(s, i) == IF s.watched # i THEN s ELSE EnsureActiveSessionOpen(s)

RefreshUnderWindows(s, i) ==  \* mutant: reloads the list under any window
    IF s.page # "activeNet" \/ s.active # i THEN s ELSE RefreshActiveCheckIns(s, db)

RefreshActiveCheckInsFromOthers(s, i) ==
    IF s.page # "activeNet" \/ s.active # i \/ s.modal \in Frozen
    THEN s ELSE RefreshActiveCheckIns(s, db)

RunTask(u, task) ==
    /\ ui[u].step = "idle"
    /\ task \in tasks[u]
    /\ tasks' = [tasks EXCEPT ![u] = @ \ {task}]
    /\ Becomes(u, IF task.kind = "sessionClosed"
                  THEN SessionClosedTask(ui[u], task.session)
                  ELSE RefreshActiveCheckInsFromOthers(ui[u], task.session))
    /\ UNCHANGED db

-----------------------------------------------------------------------------
(* What goes wrong: a statement waits for the lock longer than five seconds *)
(* and throws, which ends the handler where it is ("Action not completed"); *)
(* a connection drops, which ends the process.                              *)

StatementFails(u) ==
    /\ StatementsFail
    /\ ui[u].step # "idle"
    /\ Becomes(u, [ui[u] EXCEPT !.step = "idle", !.draft = NoDraft, !.held = NoCopy,
                                !.other = IF ui[u].page = "history" THEN @ ELSE 0])
    /\ UNCHANGED <<db, tasks>>

Disconnect(u) ==
    /\ "disconnect" \in Keys
    /\ ui[u] # NetListPage
    /\ Becomes(u, NetListPage)
    /\ tasks' = [tasks EXCEPT ![u] = {}]
    /\ UNCHANGED db

-----------------------------------------------------------------------------

(* The rest of a handler under way, which needs no key.                     *)
Continue(u) ==
    \/ RenumberThenStart(u)
    \/ SaveOperatorStation(u)
    \/ AddOperatorCheckIn(u)
    \/ \E continue \in BOOLEAN : LogStationTransaction(u, continue)
    \/ DeleteRow(u)
    \/ RenumberThenLeave(u)
    \/ DeleteHistoryRow(u)

RunAnyTask(u) == \E task \in tasks[u] : RunTask(u, task)

Key(u) ==
    \/ StartSelectedNet(u)
    \/ \E viewing \in BOOLEAN : AnswerResumePrompt(u, viewing)
    \/ CancelPrompt(u)
    \/ CloseOpenNetAndStartNew(u)
    \/ RoleBack(u)
    \/ ChooseViewer(u)
    \/ \E role \in Roles : OperatorCallsignSubmit(u, role)
    \/ OpenNewStationModal(u)
    \/ CancelModal(u)
    \/ \E callsign \in Callsigns, role \in Roles \cup {NoRole} :
            LogStationCheckIn(u, callsign, role)
    \/ \E c \in DOMAIN ui[u].shown : EditSelectedCheckIn(u, c)
    \/ StartRowPick(u)
    \/ \E c \in DOMAIN ui[u].shown : FinishRowPick(u, c)
    \/ \E choice \in Roles \cup {NoRole} : SaveEditCheckInForm(u, choice)
    \/ ConfirmRowDelete(u)
    \/ RequestCloseActiveNet(u)
    \/ CloseActiveNet(u)
    \/ LeaveClosedSession(u)
    \/ StopViewing(u)
    \/ \E i \in DOMAIN db.sessions : OpenHistory(u, i)
    \/ HistoryBack(u)
    \/ \E c \in DOMAIN ui[u].shown : PickHistoryCheckIn(u, c)
    \/ DeleteSelectedHistoryCheckIn(u)
    \/ DeleteSelectedNetInstance(u)
    \/ \E callsign \in Callsigns : RemoveSelectedSavedNetStation(u, callsign)

Next ==
    \E u \in Users :
        \/ Key(u)
        \/ Continue(u)
        \/ CheckWatchedSession(u)
        \/ RunAnyTask(u)
        \/ StatementFails(u)
        \/ Disconnect(u)

Spec == Init /\ [][Next]_vars

-----------------------------------------------------------------------------
(* Properties.                                                              *)

(* The tables hold only ids given out and rows of their columns' types, and  *)
(* each operator's page, windows and half-done handler are ones the code can *)
(* be in.                                                                    *)
AppStateTypeOK(s, d) ==
    /\ DOMAIN s = DOMAIN NetListPage
    /\ s.page \in {"netList", "role", "activeNet", "history"}
    /\ s.prompt \in {"none", "resumeNet", "closeNet", "sessionClosed"}
    /\ s.modal \in Frozen \cup {"none", "newStation"}
    /\ s.step \in Steps
    /\ s.viewing \in BOOLEAN /\ s.other_open \in BOOLEAN
    /\ s.active \in Nat /\ s.other \in Nat /\ s.index \in Nat
    /\ s.watched \in {0, s.active} /\ (s.watched # 0 => s.page = "activeNet")
    /\ DOMAIN s.shown \subseteq 1..d.last_check_in
    /\ \A c \in DOMAIN s.shown : s.shown[c] \in CheckIn
    /\ s.held = NoCopy \/ s.held \in [id : Nat, row : CheckIn]
    /\ s.modal = "editCheckIn" => s.held # NoCopy
    /\ s.draft \in [callsign : Callsigns \cup {NoCall}, role : Roles \cup {NoRole}]
    /\ s.step \in {"saveOperator", "addOperator", "logCheckIn"} => s.draft.callsign # NoCall
    /\ s.step \in {"saveOperator", "addOperator"} => s.draft.role # NoRole
    /\ s.step # "idle" => s.prompt = "none" /\ s.modal \in {"none", "newStation"}
    /\ s.prompt # "none" \/ s.page \in {"netList", "role"} => s.modal = "none"
    /\ s.prompt = "resumeNet" \/ s.step = "renumberThenStart" => s.page = "netList"
    /\ s.prompt = "closeNet" \/ s.step \in {"logCheckIn", "deleteRow", "renumberThenLeave"}
        => s.page = "activeNet"
    /\ s.step = "deleteHistoryRow" => s.page = "history"

TypeOK ==
    /\ TablesTypeOK(db)
    /\ DOMAIN ui = Users /\ \A u \in Users : AppStateTypeOK(ui[u], db)
    /\ DOMAIN tasks = Users
    /\ \A u \in Users :
        tasks[u] \subseteq [kind : {"sessionClosed", "refreshCheckIns"}, session : Nat]

SameSession(b, c) == db.check_ins[b].session = db.check_ins[c].session
SessionOf(d, c) == d.check_ins[c].session

(* The check-in LogOperatorCheckIn logged: no other one ever holds the role *)
(* the operator started the session in.                                     *)
IsOperators(d, c) == d.check_ins[c].role = d.sessions[SessionOf(d, c)].operator_role

(* The poll's shortcut is sound: as long as the count and the newest id of   *)
(* a watched session's check-ins are those of the list shown, it is the same *)
(* check-ins that are shown, whatever was logged and deleted in between      *)
(* (CheckWatchedSession compares nothing else).                              *)
UnnoticedIsUnchanged ==
    \A u \in Users :
        LET i == ui[u].watched IN
        i # 0 /\ GetCheckInSummary(db, i) = SummaryOf(DOMAIN ui[u].shown)
            => /\ DOMAIN ui[u].shown = CheckInIds(db, i)
               /\ \A c \in CheckInIds(db, i) :
                    ui[u].shown[c].callsign = db.check_ins[c].callsign

(* Every check-in's session is there, and the stations kept are exactly the  *)
(* ones the net's saved stations or a check-in refer to: DeleteUnusedStations *)
(* takes none in use and leaves none over, in any order of operators' logs,   *)
(* deletes and removals.                                                      *)
ReferencesHold ==
    /\ \A c \in DOMAIN db.check_ins : SessionOf(db, c) \in DOMAIN db.sessions
    /\ db.stations = {cs \in Callsigns : InUse(db, cs)}

(* A closed session never opens again, and the end time of whoever closed it *)
(* first stands (CloseNetInstance).                                           *)
ClosedStays ==
    [][\A i \in DOMAIN db.sessions \cap DOMAIN db'.sessions :
        IsClosed(db, i) =>
            IsClosed(db', i) /\ db'.sessions[i].closed_at = db.sessions[i].closed_at]_vars

(* While a session is open no check-in's number changes under anyone logging *)
(* it, not even when an edit writes a whole row back from an older copy.      *)
NumbersStand ==
    [][\A c \in DOMAIN db.check_ins \cap DOMAIN db'.check_ins :
        IsOpen(db, SessionOf(db, c)) /\ IsOpen(db', SessionOf(db, c)) =>
            db'.check_ins[c].seq = db.check_ins[c].seq]_vars

(* Two check-ins of an open session share a number only if one is the        *)
(* operator's own, which takes 1 without looking (LogOperatorCheckIn).        *)
NextNumbersDistinct ==
    \A b, c \in DOMAIN db.check_ins :
        (b # c /\ SameSession(b, c) /\ IsOpen(db, SessionOf(db, b))
               /\ db.check_ins[b].seq = db.check_ins[c].seq)
            => IsOperators(db, b) \/ IsOperators(db, c)

(* A station is in a session's log twice only if one of its check-ins is the *)
(* operator's own: two operators logging it at the same moment can't both.    *)
LoggedOnceButOperator ==
    \A b, c \in DOMAIN db.check_ins :
        (b # c /\ SameSession(b, c)
               /\ Base[db.check_ins[b].callsign] = Base[db.check_ins[c].callsign])
            => IsOperators(db, b) \/ IsOperators(db, c)

(* However the log is edited, the operator's own check-in keeps the role the *)
(* session was started in, and nobody else's ever gets it.                    *)
OperatorKeepsRole ==
    [][\A c \in DOMAIN db.check_ins \cap DOMAIN db'.check_ins :
        SessionOf(db, c) \in DOMAIN db'.sessions =>
            (IsOperators(db, c) <=> IsOperators(db', c))]_vars

(* The check-in deleted is the one the window named when it was confirmed,   *)
(* whatever was logged or deleted while the window was up.                    *)
DeletesWhatWasNamed ==
    [][\A u \in Users :
        ui[u].modal = "deleteConfirm" /\ ui'[u].step \in {"deleteRow", "deleteHistoryRow"} =>
            ui'[u].held.id = ui[u].held.id]_vars

(* Nothing a Viewer does, from joining to leaving, changes the database.     *)
WatchersOnlyWatch ==
    [][\A u \in Users : ui[u].viewing /\ ui'[u] # ui[u] => db' = db]_vars

(* The operator who closed a session never gets the window saying that      *)
(* another user closed it, though the poll may see it closed first.          *)
CloserNeverTold ==
    \A u \in Users : LET i == ui[u].active IN
        ui[u].prompt = "sessionClosed" =>
            i \notin DOMAIN db.sessions \/ db.sessions[i].closed_at # u

(* Everyone on the page of a session someone else closed or deleted is told, *)
(* whatever window they have open, or has left it.                            *)
ToldWhenClosed ==
    \A u \in Users, i \in 1..MaxSessions :
        (ui[u].page = "activeNet" /\ ui[u].active = i /\ ~IsOpen(db, i))
            ~> (ui[u].page # "activeNet" \/ ui[u].active # i \/ ui[u].prompt = "sessionClosed")

(* What anyone logs or deletes comes to show on every screen on the session, *)
(* unless a row is being picked, edited or deleted there or it ends first.    *)
StaysInStep ==
    \A u \in Users, i \in 1..MaxSessions :
        LET on == ui[u].page = "activeNet" /\ ui[u].active = i
                    /\ ui[u].modal \notin Frozen /\ IsOpen(db, i)
        IN  on ~> ~on \/ DOMAIN ui[u].shown = CheckInIds(db, i)

-----------------------------------------------------------------------------
(* Every process' ScreenTicker polls, and its UI thread finishes the handler *)
(* it is in; no one need press a key.  Keys and posted tasks wait in one      *)
(* queue, so a task is run however many keys are pressed before.              *)
Fairness ==
    \A u \in Users :
        /\ WF_vars(CheckWatchedSession(u))
        /\ SF_vars(RunAnyTask(u))
        /\ WF_vars(Continue(u))

FairSpec == Spec /\ Fairness

=============================================================================
