---------------------------- MODULE NetLogTables ----------------------------
(***************************************************************************)
(* The tables of one net that its logging touches -- sessions              *)
(* (net_instances), check_ins, net_saved_stations and stations -- and the  *)
(* Database methods that change them, as operators from one state of the   *)
(* tables, d, to the next.  A table is a function from primary keys to     *)
(* rows.  Each operator is one SQL statement or one WriteTransaction, so   *)
(* it is atomic; SessionLog says which of them a handler runs in a row.    *)
(***************************************************************************)
EXTENDS Integers, FiniteSets, FiniteSetsExt, Functions

CONSTANTS
    Callsigns,   \* the call signs that can be typed
    NoCall,      \* an empty role-callsign column
    Base,        \* BaseCallsign: a call sign without /M and the like
    Roles,       \* Net Control, Alternate Net Control, Logger (a run may use fewer)
    NoRole,      \* kRoleNone
    Users,       \* the operators, one QuickLogger process each
    NoUser       \* closed_at = 0

ASSUME BaseType == Base \in [Callsigns -> Callsigns]
ASSUME NoValuesDistinct ==
    /\ NoCall \notin Callsigns
    /\ NoRole \notin Roles
    /\ NoUser \notin Users

(* A check_ins row but for its id.  Remarks, signal report and time of      *)
(* check-in only ever travel with the row, so they are left out.  On a GMRS *)
(* net a callsign here stands for a call sign and name together.            *)
CheckIn == [session : Nat, callsign : Callsigns, seq : Nat, role : Roles \cup {NoRole}]

(* A net_instances row but for its id.  closed_at holds whose CloseNetInstance *)
(* call the end time came with, which is all the properties tell apart.        *)
NetInstance == [status : {"open", "closed"}, closed_at : Users \cup {NoUser},
                operator_role : Roles, role_callsign : [Roles -> Callsigns \cup {NoCall}]]

(* last_session and last_check_in are sqlite_sequence: ids are AUTOINCREMENT, *)
(* so that of a deleted row is never given out again.                         *)
EmptyTables ==
    [sessions |-> << >>, check_ins |-> << >>, saved |-> {}, stations |-> {},
     last_session |-> 0, last_check_in |-> 0]

(* What the columns can hold, and no id that was not given out.              *)
TablesTypeOK(d) ==
    /\ DOMAIN d = DOMAIN EmptyTables
    /\ d.last_session \in Nat /\ d.last_check_in \in Nat
    /\ DOMAIN d.sessions \subseteq 1..d.last_session
    /\ DOMAIN d.check_ins \subseteq 1..d.last_check_in
    /\ \A i \in DOMAIN d.sessions : d.sessions[i] \in NetInstance
    /\ \A c \in DOMAIN d.check_ins : d.check_ins[c] \in CheckIn
    /\ d.saved \subseteq Callsigns /\ d.stations \subseteq Callsigns

WithRow(table, id, row) ==
    [k \in DOMAIN table \cup {id} |-> IF k = id THEN row ELSE table[k]]

Newest(S) == IF S = {} THEN 0 ELSE Max(S)

-----------------------------------------------------------------------------
(* What the queries return.                                                 *)

IsOpen(d, i) == i \in DOMAIN d.sessions /\ d.sessions[i].status = "open"
IsClosed(d, i) == i \in DOMAIN d.sessions /\ d.sessions[i].status = "closed"

OpenSessions(d) == {i \in DOMAIN d.sessions : IsOpen(d, i)}

CheckInIds(d, i) == {c \in DOMAIN d.check_ins : d.check_ins[c].session = i}

GetCheckInsForNetInstance(d, i) == Restrict(d.check_ins, CheckInIds(d, i))

(* How many rows a list of check-ins has, and the newest one's id.           *)
CountOf(ids) == <<Cardinality(ids)>>  \* mutant: the newest id is not compared
SummaryOf(ids) == <<Cardinality(ids), Newest(ids)>>
GetCheckInSummary(d, i) == SummaryOf(CheckInIds(d, i))

(* ORDER BY sequence_number: the rows of log no later than c, and where that  *)
(* puts c in the list.                                                       *)
UpTo(log, c) == {b \in DOMAIN log : \/ log[b].seq < log[c].seq
                                    \/ log[b].seq = log[c].seq /\ b <= c}
Position(log, c) == Cardinality(UpTo(log, c))

InUseByCheckIn(d, cs) ==  \* mutant: forgets the saved stations
    \E c \in DOMAIN d.check_ins : d.check_ins[c].callsign = cs
InUse(d, cs) == cs \in d.saved \/ \E c \in DOMAIN d.check_ins : d.check_ins[c].callsign = cs

-----------------------------------------------------------------------------
(* Stations and the net's saved stations.                                    *)

DeleteUnusedStations(d) == [d EXCEPT !.stations = {cs \in d.stations : InUse(d, cs)}]

SaveNetStation(d, cs) == [d EXCEPT !.stations = @ \cup {cs}, !.saved = @ \cup {cs}]

RemoveSavedNetStation(d, cs) == DeleteUnusedStations([d EXCEPT !.saved = @ \ {cs}])

-----------------------------------------------------------------------------
(* Check-ins.                                                                *)

(* The foreign keys of a check_ins row; an INSERT that breaks one throws.    *)
ForeignKeysHold(d, row) == row.session \in DOMAIN d.sessions /\ row.callsign \in d.stations

AddCheckInReusingIds(d, row) ==  \* mutant: ids are not AUTOINCREMENT
    [d EXCEPT !.last_check_in = @ + 1,
              !.check_ins = WithRow(@, Newest(DOMAIN @) + 1, row)]

AddCheckIn(d, row) ==
    [d EXCEPT !.last_check_in = @ + 1,
              !.check_ins = WithRow(@, d.last_check_in + 1, row)]

NextSequenceByCount(d, i) == 1 + Cardinality(CheckInIds(d, i))  \* mutant: ignores gaps
NextSequence(d, i) == 1 + Newest({d.check_ins[c].seq : c \in CheckInIds(d, i)})

AddCheckInAtNextSequence(d, row) ==
    AddCheckIn(d, [row EXCEPT !.seq = NextSequence(d, row.session)])

(* UPDATE ... WHERE id = c: the caller's whole copy of the row.              *)
UpdateCheckIn(d, c, row) ==
    IF c \in DOMAIN d.check_ins THEN [d EXCEPT !.check_ins[c] = row] ELSE d

RenumberCheckIns(d, i) ==
    LET log == GetCheckInsForNetInstance(d, i)
    IN  [d EXCEPT !.check_ins =
            [c \in DOMAIN d.check_ins |->
                IF c \in DOMAIN log
                THEN [d.check_ins[c] EXCEPT !.seq = Position(log, c)]
                ELSE d.check_ins[c]]]

RemoveCheckIns(d, ids) ==
    [d EXCEPT !.check_ins = Restrict(d.check_ins, DOMAIN d.check_ins \ ids)]

DeleteAndRenumber(d, c) ==  \* mutant: renumbers an open session too
    LET gone == RemoveCheckIns(d, {c})
    IN  DeleteUnusedStations(IF c \in DOMAIN d.check_ins
                             THEN RenumberCheckIns(gone, d.check_ins[c].session) ELSE gone)

DeleteCheckIn(d, c) ==
    LET gone == RemoveCheckIns(d, {c})
        closed == c \in DOMAIN d.check_ins /\ IsClosed(d, d.check_ins[c].session)
    IN  DeleteUnusedStations(IF closed THEN RenumberCheckIns(gone, d.check_ins[c].session)
                                       ELSE gone)

ClearCheckInRoleForInstance(d, i, role, except) ==
    [d EXCEPT !.check_ins =
        [c \in DOMAIN d.check_ins |->
            IF c \in CheckInIds(d, i) /\ d.check_ins[c].role = role /\ c # except
            THEN [d.check_ins[c] EXCEPT !.role = NoRole]
            ELSE d.check_ins[c]]]

-----------------------------------------------------------------------------
(* Sessions.                                                                 *)

CreateNetInstance(d, role, cs) ==
    [d EXCEPT !.last_session = @ + 1,
              !.sessions = WithRow(@, d.last_session + 1,
                  [status |-> "open", closed_at |-> NoUser, operator_role |-> role,
                   role_callsign |-> [r \in Roles |-> IF r = role THEN cs ELSE NoCall]])]

(* CloseNetInstance's UPDATE changes a row only while it is open, and only   *)
(* then does a second statement, RenumberCheckIns, follow it.                *)
ClosesAnySession(d, i) == i \in DOMAIN d.sessions  \* mutant: no "AND status = open"
ClosesHere(d, i) == IsOpen(d, i)
MarkClosed(d, i, at) ==
    IF ClosesHere(d, i)
    THEN [d EXCEPT !.sessions[i].status = "closed", !.sessions[i].closed_at = at]
    ELSE d

SetNetInstanceRoleCallsign(d, i, role, cs) ==
    IF i \in DOMAIN d.sessions /\ role \in Roles
    THEN [d EXCEPT !.sessions[i].role_callsign[role] = cs]
    ELSE d

DeleteNetInstance(d, i) ==
    LET emptied == RemoveCheckIns(d, CheckInIds(d, i))
    IN  DeleteUnusedStations(
            [emptied EXCEPT !.sessions = Restrict(d.sessions, DOMAIN d.sessions \ {i})])

=============================================================================
