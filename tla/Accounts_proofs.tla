--------------------------- MODULE Accounts_proofs ---------------------------
(***************************************************************************)
(* What holds of users, keys and nets however many sessions change them at *)
(* once: ids stay unique, a user's own removals leave a key that works, a  *)
(* key they add is nobody else's, a net goes only to who can use it, and,  *)
(* unless users are renamed, no Admin locks themself out.                  *)
(***************************************************************************)
EXTENDS Accounts, TLAPS, FiniteSetTheorems

-----------------------------------------------------------------------------
(* Numbers.                                                                  *)

(* A least one: no interval from 0 is properly within that up to it.         *)
LEMMA LeastExists ==
    ASSUME NEW T \in SUBSET Nat, T # {}
    PROVE  \E m \in T : \A x \in T : m <= x
<1> DEFINE F == {0..x : x \in T}
<1>1. F \subseteq FiniteSubsetsOf(Nat) /\ F # {}
    <2>1. \A x \in T : IsFiniteSet(0..x) /\ 0..x \subseteq Nat
        BY FS_Interval
    <2> QED BY <2>1 DEF FiniteSubsetsOf
<1>2. PICK U \in F : \A V \in F : ~(<<V, U>> \in StrictSubsetOrdering(Nat))
    <2> HIDE DEF F
    <2> QED BY <1>1, FS_StrictSubsetOrderingWellFounded, WFMin
<1>3. PICK m \in T : U = 0..m
    OBVIOUS
<1>4. ASSUME NEW x \in T, x < m PROVE FALSE
    <2>1. 0..x \in F
        OBVIOUS
    <2>2. 0..x \in SUBSET Nat /\ 0..m \in SUBSET Nat /\ 0..x \subseteq 0..m /\ 0..x # 0..m
        BY <1>4
    <2>3. <<0..x, U>> \in StrictSubsetOrdering(Nat)
        BY <1>3, <2>2 DEF StrictSubsetOrdering
    <2> QED BY <1>2, <2>1, <2>3
<1> QED BY <1>4

(* A greatest one of numbers up to n.                                        *)
LEMMA GreatestExists ==
    ASSUME NEW n \in Nat, NEW S \in SUBSET (0..n), S # {}
    PROVE  Max(S) \in S /\ \A x \in S : Max(S) >= x
<1> DEFINE T == {n - x : x \in S}
<1>1. T \in SUBSET Nat /\ T # {}
    <2>1. PICK x \in S : TRUE
        OBVIOUS
    <2>2. n - x \in T
        OBVIOUS
    <2>3. T \in SUBSET Nat
        OBVIOUS
    <2> QED BY <2>2, <2>3
<1>2. PICK m \in T : \A x \in T : m <= x
    BY <1>1, LeastExists
<1>3. PICK g \in S : m = n - g
    OBVIOUS
<1>4. \A x \in S : g >= x
    <2> SUFFICES ASSUME NEW x \in S PROVE g >= x
        OBVIOUS
    <2>1. n - x \in T
        OBVIOUS
    <2>2. m <= n - x
        BY <1>2, <2>1
    <2>3. x \in 0..n /\ g \in 0..n
        OBVIOUS
    <2> QED BY <1>3, <2>2, <2>3
<1> QED BY <1>4 DEF Max

-----------------------------------------------------------------------------
(* What the tables answer.                                                   *)

LEMMA LevelIs ==
    ASSUME users \subseteq User, NEW u
    PROVE  /\ GetUserAccessLevel(u) \in Levels
           /\ \A r \in GetUserKeys(u) : r.level <= GetUserAccessLevel(u)
<1> DEFINE Top(l) == /\ l = kAccessUser \/ \E r \in GetUserKeys(u) : r.level = l
                     /\ \A r \in GetUserKeys(u) : r.level <= l
<1>1. \A r \in GetUserKeys(u) : r.level \in {0, 1, 2}
    BY DEF GetUserKeys, User, Levels, kAccessUser, kAccessNetAdmin, kAccessAdmin
<1>2. Levels = {0, 1, 2} /\ kAccessUser = 0
    BY DEF Levels, kAccessUser, kAccessNetAdmin, kAccessAdmin
<1>3. \E l \in Levels : Top(l)
    <2>1. CASE \E r \in GetUserKeys(u) : r.level = 2
        BY <1>1, <1>2, <2>1
    <2>2. CASE (\E r \in GetUserKeys(u) : r.level = 1) /\ ~\E r \in GetUserKeys(u) : r.level = 2
        BY <1>1, <1>2, <2>2
    <2>3. CASE \A r \in GetUserKeys(u) : r.level = 0
        BY <1>1, <1>2, <2>3
    <2> QED BY <1>1, <2>1, <2>2, <2>3
<1>4. GetUserAccessLevel(u) = CHOOSE l \in Levels : Top(l)
    BY DEF GetUserAccessLevel
<1> HIDE DEF Top
<1>5. GetUserAccessLevel(u) \in Levels /\ Top(GetUserAccessLevel(u))
    BY <1>3, <1>4
<1> QED BY <1>5 DEF Top

GivenAccess == [level : Levels, viewOnly : BOOLEAN]

(* The table users.                                                          *)
RowsOK(us, n) ==
    /\ us \subseteq User
    /\ \A r, q \in us : r.id = q.id => r = q
    /\ n \in 0..MaxId /\ \A r \in us : r.id <= n

(* A new row is one of the table's, with the next id.                        *)
LEMMA NewRowIs ==
    ASSUME RowsOK(users, lastId), lastId < MaxId, MaxId \in Nat, NEW u \in Usernames,
           NEW k \in Keys, NEW choice \in GivenAccess, NEW byUser \in BOOLEAN
    PROVE  /\ NewRow(u, k, choice, byUser) \in User
           /\ NewRow(u, k, choice, byUser).id = lastId + 1
           /\ NewRow(u, k, choice, byUser).username = u
           /\ NewRow(u, k, choice, byUser).key = k
           /\ NewRow(u, k, choice, byUser).byUser = byUser
<1> DEFINE theirs == GetUserKeys(u)
           first == CHOOSE r \in theirs : \A q \in theirs : r.id <= q.id
           access == IF theirs = {} THEN choice
                     ELSE [level |-> first.level, viewOnly |-> first.viewOnly]
<1>1. theirs # {} => first \in User
    <2> SUFFICES ASSUME theirs # {} PROVE first \in User
        OBVIOUS
    <2> DEFINE T == {r.id : r \in theirs}
    <2>1. \A r \in theirs : r \in User /\ r.id \in Nat
        BY DEF RowsOK, GetUserKeys, User
    <2>2. T \in SUBSET Nat /\ T # {}
        <3>1. PICK r \in theirs : TRUE
            OBVIOUS
        <3>2. r.id \in T
            OBVIOUS
        <3> QED BY <2>1, <3>2
    <2>3. PICK m \in T : \A x \in T : m <= x
        BY <2>2, LeastExists
    <2>4. PICK r \in theirs : m = r.id
        OBVIOUS
    <2>5. \A q \in theirs : r.id <= q.id
        BY <2>3, <2>4
    <2>6. first \in theirs
        BY <2>5
    <2> HIDE DEF first
    <2> QED BY <2>1, <2>6
<1>2. access \in GivenAccess
    <2> HIDE DEF first
    <2> QED BY <1>1 DEF GivenAccess, User
<1>3. NewRow(u, k, choice, byUser) =
        [id |-> lastId + 1, username |-> u, key |-> k, level |-> access.level,
         viewOnly |-> access.viewOnly, disabled |-> FALSE, byUser |-> byUser]
    <2>1. NewRow(u, k, choice, byUser) =
            LET a == IF theirs = {} THEN choice
                     ELSE LET r == first IN [level |-> r.level, viewOnly |-> r.viewOnly]
            IN  [id |-> lastId + 1, username |-> u, key |-> k, level |-> a.level,
                 viewOnly |-> a.viewOnly, disabled |-> FALSE, byUser |-> byUser]
        BY DEF NewRow
    <2> QED BY <2>1
<1> HIDE DEF access
<1>4. lastId + 1 \in 1..MaxId
    BY DEF RowsOK
<1> QED BY <1>2, <1>3, <1>4 DEF User, GivenAccess

(* Changing the other columns of some rows ...                               *)
LEMMA ChangedRowsOK ==
    ASSUME NEW us, NEW n, RowsOK(us, n), NEW f \in [us -> User], \A r \in us : f[r].id = r.id
    PROVE  RowsOK({f[r] : r \in us}, n)
BY DEF RowsOK

(* ... and deleting some.                                                    *)
LEMMA FewerRowsOK ==
    ASSUME NEW us, NEW n, RowsOK(us, n), NEW vs \in SUBSET us
    PROVE  RowsOK(vs, n)
BY DEF RowsOK

-----------------------------------------------------------------------------
(* What a session may hold.                                                  *)

Access == [console : BOOLEAN, viewOnly : BOOLEAN, level : Levels, restricted : BOOLEAN,
           grants : SUBSET Nets]

Editing == {"rename", "renameUsers", "renameGrants", "access", "viewOnly", "level"}

Steps ==
    [at : {"idle", "refresh", "refreshOwn"}]
    \cup [at : Editing, old : Usernames, user : Usernames, choice : GivenAccess]
    \cup [at : {"create", "insert"}, user : Usernames, key : Keys, choice : GivenAccess]
    \cup [at : {"deleteKey", "removeOwn"}, id : 1..MaxId]
    \cup [at : {"deleteUser", "deleteGrants"}, user : Usernames]
    \cup [at : {"keyOff"}, id : 1..MaxId, off : BOOLEAN]
    \cup [at : {"keysOff"}, user : Usernames, off : BOOLEAN]
    \cup [at : {"option"}, name : Options, on : BOOLEAN]
    \cup [at : {"addOwn"}, key : Keys]
    \cup [at : {"grant"}, user : Usernames, access : Access]
    \cup [at : {"createNet", "giveNet", "deleteNet"}, net : Nets]

SessionOK(rec) ==
    /\ rec \in [who : Usernames \cup {Console, Nobody}, key : 0..MaxId, viewOnly : BOOLEAN,
                admin : BOOLEAN, window : Windows, names : SUBSET Usernames,
                shown : Usernames \cup {Nobody}, list : SUBSET User, offered : SUBSET Nets,
                net : SUBSET Nets, step : Steps]
    /\ rec.window = "keys" => rec.shown \in Usernames
    /\ rec.window = "myKeys" \/ rec.step.at \in {"addOwn", "giveNet"} => rec.who \in Usernames
    /\ rec.window = "people" => \E n \in Nets : rec.net = {n}
    /\ rec.step.at = "grant" => rec.window = "people"
    /\ rec.step.at # "idle" => rec.who # Nobody

(* The inductive invariant of the types.                                     *)
AccountsInv ==
    /\ RowsOK(users, lastId)
    /\ grants \subseteq Usernames \X Nets /\ nets \subseteq Nets /\ options \subseteq Options
    /\ DOMAIN session = Sessions /\ \A s \in Sessions : SessionOK(session[s])

-----------------------------------------------------------------------------
(* A step of session s.                                                      *)

TablesOK == /\ RowsOK(users, lastId)
            /\ grants \subseteq Usernames \X Nets /\ nets \subseteq Nets /\ options \subseteq Options

LEMMA BecomesOK ==
    ASSUME AccountsInv, NEW s \in Sessions, NEW rec, SessionOK(rec), Becomes(s, rec), TablesOK'
    PROVE  AccountsInv'
BY DEF AccountsInv, TablesOK, Becomes

LEMMA TablesStay == ASSUME AccountsInv, UNCHANGED Tables PROVE TablesOK'
BY DEF AccountsInv, TablesOK, Tables

LEMMA GoesOnOK ==
    ASSUME AccountsInv, NEW s \in Sessions, NEW step \in Steps, TablesOK',
           session' = [session EXCEPT ![s].step = step],
           step.at \in {"addOwn", "giveNet"} => Who(s) \in Usernames,
           step.at = "grant" => session[s].window = "people",
           step.at # "idle" => Who(s) # Nobody
    PROVE  AccountsInv'
<1> DEFINE rec == [session[s] EXCEPT !.step = step]
<1>1. SessionOK(session[s]) /\ DOMAIN session = Sessions
    BY DEF AccountsInv
<1>2. SessionOK(rec)
    <2> QED BY <1>1 DEF SessionOK, Who
<1>3. Becomes(s, rec)
    BY DEF Becomes
<1> HIDE DEF rec
<1> QED BY <1>2, <1>3, BecomesOK

(* Which step it is tells what is in it.                                     *)
LEMMA StepIs ==
    ASSUME NEW step \in Steps
    PROVE  /\ step.at \in Editing => step \in [at : Editing, old : Usernames, user : Usernames,
                                                choice : GivenAccess]
           /\ step.at \in {"create", "insert"} =>
                step \in [at : {"create", "insert"}, user : Usernames, key : Keys, choice : GivenAccess]
           /\ step.at \in {"deleteKey", "removeOwn"} => step.id \in 1..MaxId
           /\ step.at \in {"deleteUser", "deleteGrants"} =>
                step \in [at : {"deleteUser", "deleteGrants"}, user : Usernames]
           /\ step.at = "keyOff" => step.id \in 1..MaxId /\ step.off \in BOOLEAN
           /\ step.at = "keysOff" => step.user \in Usernames /\ step.off \in BOOLEAN
           /\ step.at = "option" => step.name \in Options /\ step.on \in BOOLEAN
           /\ step.at = "addOwn" => step.key \in Keys
           /\ step.at = "grant" => step.user \in Usernames /\ step.access \in Access
           /\ step.at \in {"createNet", "giveNet", "deleteNet"} =>
                step \in [at : {"createNet", "giveNet", "deleteNet"}, net : Nets]
BY DEF Steps, Editing

(* The steps with nothing in them.                                           *)
LEMMA PlainSteps ==
    NoStep \in Steps /\ [at |-> "refresh"] \in Steps /\ [at |-> "refreshOwn"] \in Steps
BY DEF Steps, NoStep

(* A session's parts.                                                        *)
LEMMA SessionIs ==
    ASSUME AccountsInv, NEW s \in Sessions
    PROVE  /\ SessionOK(session[s]) /\ session[s].step \in Steps
           /\ Who(s) \in Usernames \cup {Console, Nobody}
           /\ TablesOK /\ RowsOK(users, lastId) /\ users \subseteq User
           /\ MaxId \in Nat
BY AccountsAssumption DEF AccountsInv, SessionOK, Who, TablesOK, RowsOK

LEMMA OffIs == SessionOK(Off) /\ Off.step.at = "idle"
<1>1. kAccessUser \in Levels
    BY DEF Levels
<1>2. 0 \in 0..MaxId
    BY AccountsAssumption
<1> QED BY <1>2, PlainSteps DEF SessionOK, Off, NoStep, NoNet, Windows

(* Logging in and out.                                                       *)
LEMMA LoginsOK ==
    ASSUME AccountsInv, NEW s \in Sessions,
           AuthPubkeyCallback(s) \/ RunInteractiveSession(s) \/ StartAtConsole(s) \/ Ends(s)
    PROVE  AccountsInv'
<1>1. /\ SessionOK(session[s]) /\ TablesOK' /\ users \subseteq User /\ MaxId \in Nat
    BY SessionIs, TablesStay
    DEF AuthPubkeyCallback, RunInteractiveSession, StartAtConsole, Ends
<1>2. CASE AuthPubkeyCallback(s)
    <2>1. PICK r \in users : Becomes(s, [Off EXCEPT !.who = r.username, !.key = r.id,
                                                    !.window = "starting"])
        BY <1>2 DEF AuthPubkeyCallback
    <2> DEFINE rec == [Off EXCEPT !.who = r.username, !.key = r.id, !.window = "starting"]
    <2>2. r.username \in Usernames /\ r.id \in 0..MaxId
        BY <1>1 DEF User
    <2>3. SessionOK(rec)
        BY <2>2, OffIs DEF SessionOK, Windows
    <2> HIDE DEF rec
    <2> QED BY <1>1, <2>1, <2>3, BecomesOK DEF rec
<1>3. CASE RunInteractiveSession(s)
    <2> DEFINE viewOnly == IsUserViewOnly(Who(s))
               admin == GetUserAccessLevel(Who(s)) >= kAccessAdmin
               rec == [session[s] EXCEPT !.window = "main", !.viewOnly = viewOnly, !.admin = admin]
    <2>1. viewOnly \in BOOLEAN /\ admin \in BOOLEAN
        BY DEF IsUserViewOnly
    <2>2. Becomes(s, rec)
        BY <1>3 DEF RunInteractiveSession
    <2> HIDE DEF viewOnly, admin
    <2>3. SessionOK(rec)
        <3>1. session[s].window = "starting"
            BY <1>3 DEF RunInteractiveSession
        <3> QED BY <1>1, <2>1, <3>1 DEF SessionOK, Windows
    <2> HIDE DEF rec
    <2> QED BY <1>1, <2>2, <2>3, BecomesOK
<1>4. CASE StartAtConsole(s)
    <2> DEFINE rec == [Off EXCEPT !.who = Console]
    <2>1. SessionOK(rec) /\ Becomes(s, rec)
        BY <1>4, OffIs DEF StartAtConsole, SessionOK, Off, Windows, NoStep
    <2> HIDE DEF rec
    <2> QED BY <1>1, <2>1, BecomesOK
<1>5. CASE Ends(s)
    BY <1>1, <1>5, OffIs, BecomesOK DEF Ends
<1> QED BY <1>2, <1>3, <1>4, <1>5

(* Closing a window.                                                         *)
LEMMA BackOK ==
    ASSUME AccountsInv, NEW s \in Sessions, Back(s)
    PROVE  AccountsInv'
<1>1. SessionOK(session[s]) /\ TablesOK'
    BY SessionIs, TablesStay DEF Back
<1>2. PICK window \in {"main", "manage"} : Closes(s, window)
    BY DEF Back
<1> DEFINE names == IF window = "manage" THEN session[s].names ELSE {}
           rec == [session[s] EXCEPT !.window = window, !.shown = Nobody, !.list = {},
                       !.net = NoNet, !.step = NoStep, !.names = names, !.offered = {}]
<1>3. Becomes(s, rec)
    <2>1. rec = [session[s] EXCEPT !.window = window, !.shown = Nobody, !.list = {},
                    !.net = NoNet, !.step = NoStep,
                    !.names = IF window = "manage" THEN @ ELSE {}, !.offered = {}]
        BY <1>1 DEF SessionOK
    <2> HIDE DEF rec
    <2> QED BY <1>2, <2>1 DEF Closes
<1>4. names \in SUBSET Usernames
    BY <1>1 DEF SessionOK
<1> HIDE DEF names
<1>5. SessionOK(rec)
    BY <1>1, <1>4, PlainSteps DEF SessionOK, NoStep, NoNet, Windows
<1> HIDE DEF rec
<1> QED BY <1>1, <1>3, <1>5, BecomesOK

-----------------------------------------------------------------------------
(* Manage Users keeps it.                                                    *)

LEMMA SavedUserOK ==
    ASSUME AccountsInv, NEW s \in Sessions, TablesOK', SavedUser(s, "refresh"), Who(s) # Nobody
    PROVE  AccountsInv'
<1> DEFINE rec == [session[s] EXCEPT !.window = "manage", !.shown = Nobody, !.list = {},
                                     !.step = [at |-> "refresh"]]
<1>1. Becomes(s, rec) /\ SessionOK(session[s])
    BY SessionIs DEF SavedUser
<1>2. SessionOK(rec)
    BY <1>1, PlainSteps DEF SessionOK, Windows, Who
<1> HIDE DEF rec
<1> QED BY <1>1, <1>2, BecomesOK

(* Its pages.                                                                *)
LEMMA PagesOK ==
    ASSUME AccountsInv, NEW s \in Sessions,
           ShowManageUsersPage(s) \/ RefuseNonAdmin(s) \/ RefreshUsers(s) \/ OpenUserKeys(s)
    PROVE  AccountsInv'
<1>1. /\ SessionOK(session[s]) /\ TablesOK' /\ users \subseteq User
    BY SessionIs, TablesStay
    DEF ShowManageUsersPage, RefuseNonAdmin, RefreshUsers, OpenUserKeys
<1>2. CASE ShowManageUsersPage(s)
    <2> DEFINE rec == [session[s] EXCEPT !.window = "manage", !.step = [at |-> "refresh"]]
    <2>1. SessionOK(rec) /\ Becomes(s, rec)
        BY <1>1, <1>2, PlainSteps DEF ShowManageUsersPage, Idle, Who, SessionOK, Windows
    <2> HIDE DEF rec
    <2> QED BY <1>1, <2>1, BecomesOK
<1>3. CASE RefuseNonAdmin(s)
    <2> DEFINE rec == [session[s] EXCEPT !.admin = FALSE]
    <2>1. SessionOK(rec) /\ Becomes(s, rec)
        BY <1>1, <1>3 DEF RefuseNonAdmin, SessionOK
    <2> HIDE DEF rec
    <2> QED BY <1>1, <2>1, BecomesOK
<1>4. CASE RefreshUsers(s)
    <2> DEFINE names == {r.username : r \in users}
               list == IF session[s].window = "keys" THEN GetUserKeys(session[s].shown) ELSE {}
               rec == [session[s] EXCEPT !.names = names, !.list = list, !.step = NoStep]
    <2>1. names \in SUBSET Usernames /\ list \in SUBSET User
        BY <1>1 DEF User, GetUserKeys
    <2>2. Becomes(s, rec)
        BY <1>4 DEF RefreshUsers
    <2> HIDE DEF names, list
    <2>3. SessionOK(rec)
        BY <1>1, <2>1, PlainSteps DEF SessionOK, NoStep
    <2> HIDE DEF rec
    <2> QED BY <1>1, <2>2, <2>3, BecomesOK
<1>5. CASE OpenUserKeys(s)
    <2>1. PICK u \in session[s].names :
            Becomes(s, [session[s] EXCEPT !.window = "keys", !.shown = u, !.list = GetUserKeys(u)])
        BY <1>5 DEF OpenUserKeys
    <2> DEFINE list == GetUserKeys(u)
               rec == [session[s] EXCEPT !.window = "keys", !.shown = u, !.list = list]
    <2>2. list \in SUBSET User /\ u \in Usernames
        BY <1>1 DEF GetUserKeys, SessionOK
    <2>3. Becomes(s, rec)
        BY <2>1
    <2> HIDE DEF list
    <2>4. SessionOK(rec)
        BY <1>1, <1>5, <2>2 DEF OpenUserKeys, Idle, At, SessionOK, Windows
    <2> HIDE DEF rec
    <2> QED BY <1>1, <2>3, <2>4, BecomesOK
<1> QED BY <1>2, <1>3, <1>4, <1>5

(* What its windows ask for.                                                 *)
LEMMA AskedOK ==
    ASSUME AccountsInv, NEW s \in Sessions, NEW step \in Steps, Asks(s, step), UNCHANGED Tables,
           step.at \in {"addOwn", "giveNet"} => Who(s) \in Usernames,
           step.at = "grant" => session[s].window = "people",
           Who(s) # Nobody
    PROVE  AccountsInv'
BY TablesStay, GoesOnOK DEF Asks

LEMMA ManageAsksOK ==
    ASSUME AccountsInv, NEW s \in Sessions,
           \/ SaveEditedUser(s) \/ AddUserFromForm(s) \/ AddKeyToShownUser(s)
           \/ RemoveSelectedUserKey(s) \/ RemoveSelectedUser(s)
           \/ ToggleSelectedUserKeyDisabled(s) \/ ToggleAllUserKeysDisabled(s)
           \/ ToggleOption(s)
    PROVE  AccountsInv'
<1>1. /\ SessionOK(session[s]) /\ Who(s) # Nobody /\ UNCHANGED Tables
      /\ session[s].list \subseteq User /\ session[s].names \subseteq Usernames
      /\ session[s].window = "keys" => session[s].shown \in Usernames
    BY SessionIs DEF SaveEditedUser, AddUserFromForm, AddKeyToShownUser, RemoveSelectedUserKey,
                     RemoveSelectedUser, ToggleSelectedUserKeyDisabled, ToggleAllUserKeysDisabled,
                     ToggleOption, Idle, SessionOK
<1>2. AccessChoices \subseteq GivenAccess
    <2> SUFFICES ASSUME NEW c \in AccessChoices PROVE c \in GivenAccess
        OBVIOUS
    <2>1. \/ c = [level |-> kAccessUser, viewOnly |-> TRUE]
          \/ \E l \in Levels : c = [level |-> l, viewOnly |-> FALSE]
        BY DEF AccessChoices
    <2>2. kAccessUser \in Levels
        BY DEF Levels
    <2>3. ASSUME NEW l \in Levels, NEW b \in BOOLEAN
          PROVE  [level |-> l, viewOnly |-> b] \in GivenAccess
        BY <2>3 DEF GivenAccess
    <2>4. TRUE \in BOOLEAN /\ FALSE \in BOOLEAN
        OBVIOUS
    <2>5. CASE c = [level |-> kAccessUser, viewOnly |-> TRUE]
        BY <2>2, <2>3, <2>4, <2>5
    <2>6. CASE \E l \in Levels : c = [level |-> l, viewOnly |-> FALSE]
        BY <2>3, <2>4, <2>6
    <2> QED BY <2>1, <2>5, <2>6
<1>3. ASSUME NEW step \in Steps, Asks(s, step), step.at \notin {"addOwn", "giveNet", "grant"}
      PROVE  AccountsInv'
    BY <1>1, <1>3, AskedOK
<1>4. CASE SaveEditedUser(s)
    <2>1. PICK u \in Usernames, choice \in AccessChoices :
            Asks(s, [at |-> IF u = session[s].shown THEN "access" ELSE "rename",
                     old |-> session[s].shown, user |-> u, choice |-> choice])
        BY <1>4 DEF SaveEditedUser
    <2> DEFINE at == IF u = session[s].shown THEN "access" ELSE "rename"
               step == [at |-> at, old |-> session[s].shown, user |-> u, choice |-> choice]
    <2>2. at \in Editing /\ at \notin {"addOwn", "giveNet", "grant"}
        BY DEF Editing
    <2> HIDE DEF at
    <2>3. step \in Steps /\ step.at \notin {"addOwn", "giveNet", "grant"}
        BY <1>1, <1>2, <1>4, <2>2 DEF Steps, SaveEditedUser, Idle
    <2>4. Asks(s, step)
        BY <2>1 DEF at
    <2> HIDE DEF step
    <2> QED BY <1>3, <2>3, <2>4
<1>5. CASE AddUserFromForm(s) \/ AddKeyToShownUser(s)
    <2>1. PICK u \in Usernames, k \in Keys, choice \in GivenAccess :
            Asks(s, [at |-> "create", user |-> u, key |-> k, choice |-> choice])
        <3>1. [level |-> kAccessUser, viewOnly |-> FALSE] \in GivenAccess
            BY DEF GivenAccess, Levels
        <3>2. AddKeyToShownUser(s) => session[s].shown \in Usernames
            BY <1>1 DEF AddKeyToShownUser, Idle
        <3> QED BY <1>2, <1>5, <3>1, <3>2 DEF AddUserFromForm, AddKeyToShownUser
    <2> DEFINE step == [at |-> "create", user |-> u, key |-> k, choice |-> choice]
    <2>2. step \in Steps
        BY DEF Steps
    <2> QED BY <1>3, <2>1, <2>2
<1>6. CASE RemoveSelectedUserKey(s)
    <2>1. PICK r \in session[s].list : Asks(s, [at |-> "deleteKey", id |-> r.id])
        BY <1>6 DEF RemoveSelectedUserKey
    <2>2. [at |-> "deleteKey", id |-> r.id] \in Steps
        BY <1>1 DEF Steps, User
    <2> QED BY <1>3, <2>1, <2>2
<1>7. CASE RemoveSelectedUser(s)
    <2>1. PICK u \in Usernames : Asks(s, [at |-> "deleteUser", user |-> u])
        BY <1>1, <1>7 DEF RemoveSelectedUser
    <2>2. [at |-> "deleteUser", user |-> u] \in Steps
        BY DEF Steps
    <2> QED BY <1>3, <2>1, <2>2
<1>8. CASE ToggleSelectedUserKeyDisabled(s)
    <2>1. PICK r \in session[s].list : Asks(s, [at |-> "keyOff", id |-> r.id, off |-> ~r.disabled])
        BY <1>8 DEF ToggleSelectedUserKeyDisabled
    <2>2. r.id \in 1..MaxId /\ (~r.disabled) \in BOOLEAN
        BY <1>1 DEF User
    <2> DEFINE off == ~r.disabled
    <2>3. [at |-> "keyOff", id |-> r.id, off |-> off] \in Steps
        <3> HIDE DEF off
        <3> QED BY <2>2 DEF Steps, off
    <2> QED BY <1>3, <2>1, <2>3
<1>9. CASE ToggleAllUserKeysDisabled(s)
    <2> DEFINE any == \E r \in session[s].list : ~r.disabled
    <2>1. Asks(s, [at |-> "keysOff", user |-> session[s].shown, off |-> any])
        BY <1>9 DEF ToggleAllUserKeysDisabled
    <2>2. any \in BOOLEAN /\ session[s].shown \in Usernames
        BY <1>1, <1>9 DEF ToggleAllUserKeysDisabled, Idle
    <2> HIDE DEF any
    <2>3. [at |-> "keysOff", user |-> session[s].shown, off |-> any] \in Steps
        BY <2>2 DEF Steps
    <2> QED BY <1>3, <2>1, <2>3
<1>10. CASE ToggleOption(s)
    <2>1. PICK o \in Options : Asks(s, [at |-> "option", name |-> o, on |-> o \notin options])
        BY <1>10 DEF ToggleOption
    <2> DEFINE on == o \notin options
    <2>2. [at |-> "option", name |-> o, on |-> on] \in Steps
        <3>1. on \in BOOLEAN
            OBVIOUS
        <3> HIDE DEF on
        <3> QED BY <3>1 DEF Steps
    <2> QED BY <1>3, <2>1, <2>2
<1> QED BY <1>4, <1>5, <1>6, <1>7, <1>8, <1>9, <1>10

(* The statements its handlers run.                                          *)
LEMMA EditsOK ==
    ASSUME AccountsInv, NEW s \in Sessions,
           \/ RenameUserLooks(s) \/ RenameUserKeys(s) \/ RenameGrants(s)
           \/ CompareAccess(s) \/ SetUserViewOnly(s) \/ SetUserAccessLevel(s)
    PROVE  AccountsInv'
<1> DEFINE step == session[s].step
<1>1. /\ SessionOK(session[s]) /\ TablesOK /\ Who(s) # Nobody /\ step \in Steps
      /\ step.at \in Editing
    BY SessionIs
    DEF RenameUserLooks, RenameUserKeys, RenameGrants, CompareAccess, SetUserViewOnly,
        SetUserAccessLevel, At, SessionOK, Who, Editing
<1>2. step \in [at : Editing, old : Usernames, user : Usernames, choice : GivenAccess]
    BY <1>1, StepIs
<1>3. ASSUME NEW at \in Editing PROVE [step EXCEPT !.at = at] \in Steps /\ [step EXCEPT !.at = at].at = at
    BY <1>2 DEF Steps
<1>4. ASSUME TablesOK', NEW at \in Editing, GoesOn(s, [step EXCEPT !.at = at])
      PROVE  AccountsInv'
    <2> DEFINE next == [step EXCEPT !.at = at]
    <2>1. next \in Steps /\ next.at \notin {"addOwn", "giveNet", "grant"}
        BY <1>3, <1>4 DEF Editing
    <2>2. session' = [session EXCEPT ![s].step = next]
        BY <1>4 DEF GoesOn
    <2> HIDE DEF next
    <2> QED BY <1>1, <1>4, <2>1, <2>2, GoesOnOK
<1>5. ASSUME TablesOK', GoesOn(s, NoStep)
      PROVE  AccountsInv'
    BY <1>1, <1>5, PlainSteps, GoesOnOK DEF GoesOn, NoStep
<1>6. CASE RenameUserLooks(s)
    BY <1>4, <1>5, <1>6, TablesStay DEF RenameUserLooks, Editing
<1>7. CASE RenameUserKeys(s)
    <2> DEFINE f == [r \in users |-> [r EXCEPT !.username = Renamed(@, step.old, step.user)]]
    <2>1. f \in [users -> User] /\ \A r \in users : f[r].id = r.id
        BY <1>1, <1>2 DEF TablesOK, RowsOK, User, Renamed
    <2>2. users' = {f[r] : r \in users} /\ UNCHANGED <<lastId, grants, nets, options>>
        BY <1>7 DEF RenameUserKeys
    <2> HIDE DEF f
    <2>3. TablesOK'
        BY <1>1, <2>1, <2>2, ChangedRowsOK DEF TablesOK
    <2> QED BY <1>4, <1>7, <2>3 DEF RenameUserKeys, Editing
<1>8. CASE RenameGrants(s)
    <2>1. CASE UNCHANGED grants /\ GoesOn(s, NoStep)
        BY <1>1, <1>5, <1>8, <2>1 DEF RenameGrants, TablesOK
    <2>2. CASE /\ grants' = {<<Renamed(g[1], step.old, step.user), g[2]>> : g \in grants}
               /\ GoesOn(s, [step EXCEPT !.at = "access"])
        <3>1. grants' \subseteq Usernames \X Nets
            BY <1>1, <1>2, <2>2 DEF TablesOK, Renamed
        <3>2. TablesOK'
            BY <1>1, <1>8, <3>1 DEF RenameGrants, TablesOK
        <3> QED BY <1>4, <2>2, <3>2 DEF Editing
    <2> QED BY <1>8, <2>1, <2>2 DEF RenameGrants
<1>9. CASE CompareAccess(s)
    <2>1. TablesOK'
        BY <1>9, TablesStay DEF CompareAccess
    <2> QED BY <1>1, <1>4, <1>9, <2>1, SavedUserOK DEF CompareAccess, Editing
<1>10. CASE SetUserViewOnly(s)
    <2> DEFINE f == [r \in users |-> IF r.username = step.user
                                     THEN [r EXCEPT !.viewOnly = step.choice.viewOnly] ELSE r]
    <2>1. f \in [users -> User] /\ \A r \in users : f[r].id = r.id
        BY <1>1, <1>2 DEF TablesOK, RowsOK, User, GivenAccess
    <2>2. users' = {f[r] : r \in users} /\ UNCHANGED <<lastId, grants, nets, options>>
        BY <1>10 DEF SetUserViewOnly
    <2> HIDE DEF f
    <2>3. TablesOK'
        BY <1>1, <2>1, <2>2, ChangedRowsOK DEF TablesOK
    <2> QED BY <1>4, <1>10, <2>3 DEF SetUserViewOnly, Editing
<1>11. CASE SetUserAccessLevel(s)
    <2> DEFINE f == [r \in users |-> IF r.username = step.user
                                     THEN [r EXCEPT !.level = step.choice.level] ELSE r]
    <2>1. f \in [users -> User] /\ \A r \in users : f[r].id = r.id
        BY <1>1, <1>2 DEF TablesOK, RowsOK, User, GivenAccess
    <2>2. users' = {f[r] : r \in users} /\ UNCHANGED <<lastId, grants, nets, options>>
        BY <1>11 DEF SetUserAccessLevel
    <2> HIDE DEF f
    <2>3. TablesOK'
        BY <1>1, <2>1, <2>2, ChangedRowsOK DEF TablesOK
    <2> QED BY <1>1, <1>11, <2>3, SavedUserOK DEF SetUserAccessLevel
<1> QED BY <1>6, <1>7, <1>8, <1>9, <1>10, <1>11

LEMMA KeysAndUsersOK ==
    ASSUME AccountsInv, NEW s \in Sessions,
           \/ CreateUserLooks(s) \/ CreateUserInserts(s) \/ DeleteUserKey(s)
           \/ DeleteUser(s) \/ DeleteGrants(s)
           \/ SetUserKeyDisabled(s) \/ SetUserKeysDisabled(s) \/ SetServerOption(s)
    PROVE  AccountsInv'
<1> DEFINE step == session[s].step
<1>1. /\ SessionOK(session[s]) /\ TablesOK /\ Who(s) # Nobody /\ step \in Steps
    BY SessionIs
    DEF CreateUserLooks, CreateUserInserts, DeleteUserKey, DeleteUser, DeleteGrants,
        SetUserKeyDisabled, SetUserKeysDisabled, SetServerOption, At, SessionOK, Who
<1>2. ASSUME TablesOK', GoesOn(s, NoStep) \/ GoesOn(s, [at |-> "refresh"])
      PROVE  AccountsInv'
    BY <1>1, <1>2, PlainSteps, GoesOnOK DEF GoesOn, NoStep
<1>4. CASE CreateUserLooks(s)
    <2> DEFINE next == [step EXCEPT !.at = "insert"]
    <2>1. TablesOK' /\ step.at = "create"
        BY <1>4, TablesStay DEF CreateUserLooks, At
    <2>2. step \in [at : {"create", "insert"}, user : Usernames, key : Keys, choice : GivenAccess]
        BY <1>1, <2>1, StepIs
    <2>3. next \in Steps /\ next.at = "insert"
        BY <2>2 DEF Steps
    <2>4. GoesOn(s, next) \/ GoesOn(s, [at |-> "refresh"])
        BY <1>4 DEF CreateUserLooks
    <2> HIDE DEF next
    <2> QED BY <1>1, <1>2, <2>1, <2>3, <2>4, GoesOnOK DEF GoesOn
<1>5. CASE CreateUserInserts(s)
    <2> DEFINE byUser == FALSE
               row == NewRow(step.user, step.key, step.choice, byUser)
    <2>1. step \in [at : {"create", "insert"}, user : Usernames, key : Keys, choice : GivenAccess]
        BY <1>1, <1>5, StepIs DEF CreateUserInserts, At
    <2>2. /\ users' = users \cup {row} /\ lastId' = lastId + 1 /\ lastId < MaxId
          /\ GoesOn(s, [at |-> "refresh"]) /\ UNCHANGED <<grants, nets, options>>
        BY <1>5 DEF CreateUserInserts
    <2>3. row \in User /\ row.id = lastId + 1
        <3>1. /\ step.user \in Usernames /\ step.key \in Keys /\ step.choice \in GivenAccess
              /\ byUser \in BOOLEAN /\ MaxId \in Nat /\ RowsOK(users, lastId)
            BY <2>1, SessionIs
        <3> HIDE DEF step, byUser
        <3> QED BY <2>2, <3>1, NewRowIs
    <2> HIDE DEF row
    <2>4. RowsOK(users', lastId')
        BY <2>2, <2>3, SessionIs DEF RowsOK, User
    <2>5. TablesOK'
        BY <1>1, <2>2, <2>4 DEF TablesOK
    <2> QED BY <1>2, <2>2, <2>5
<1>6. CASE DeleteUserKey(s)
    <2>1. users' \in SUBSET users /\ UNCHANGED <<lastId, grants, nets, options>>
        BY <1>6 DEF DeleteUserKey
    <2>2. TablesOK'
        BY <1>1, <2>1, FewerRowsOK DEF TablesOK
    <2> QED BY <1>1, <1>2, <1>6, <2>2, SavedUserOK DEF DeleteUserKey
<1>7. CASE DeleteUser(s)
    <2> DEFINE next == [step EXCEPT !.at = "deleteGrants"]
    <2>1. users' \in SUBSET users /\ UNCHANGED <<lastId, grants, nets, options>>
        BY <1>7 DEF DeleteUser
    <2>2. TablesOK'
        BY <1>1, <2>1, FewerRowsOK DEF TablesOK
    <2>3. step \in [at : {"deleteUser", "deleteGrants"}, user : Usernames]
        BY <1>1, <1>7, StepIs DEF DeleteUser, At
    <2>4. next \in Steps /\ next.at = "deleteGrants"
        BY <2>3 DEF Steps
    <2>5. session' = [session EXCEPT ![s].step = next]
        BY <1>7 DEF DeleteUser, GoesOn
    <2> HIDE DEF next
    <2> QED BY <1>1, <2>2, <2>4, <2>5, GoesOnOK
<1>8. CASE DeleteGrants(s)
    <2>1. TablesOK'
        BY <1>1, <1>8 DEF DeleteGrants, TablesOK
    <2> QED BY <1>2, <1>8, <2>1 DEF DeleteGrants
<1>9. CASE SetUserKeyDisabled(s)
    <2> DEFINE f == [r \in users |-> IF r.id = step.id THEN [r EXCEPT !.disabled = step.off] ELSE r]
    <2>1. step.off \in BOOLEAN
        BY <1>1, <1>9, StepIs DEF SetUserKeyDisabled, At
    <2>2. f \in [users -> User] /\ \A r \in users : f[r].id = r.id
        BY <1>1, <2>1 DEF TablesOK, RowsOK, User
    <2>3. /\ users' = {f[r] : r \in users} /\ UNCHANGED <<lastId, grants, nets, options>>
          /\ GoesOn(s, [at |-> "refresh"])
        BY <1>9 DEF SetUserKeyDisabled
    <2> HIDE DEF f
    <2>4. TablesOK'
        BY <1>1, <2>2, <2>3, ChangedRowsOK DEF TablesOK
    <2> QED BY <1>2, <2>3, <2>4
<1>10. CASE SetUserKeysDisabled(s)
    <2> DEFINE f == [r \in users |-> IF r.username = step.user THEN [r EXCEPT !.disabled = step.off]
                                     ELSE r]
    <2>1. step.off \in BOOLEAN
        BY <1>1, <1>10, StepIs DEF SetUserKeysDisabled, At
    <2>2. f \in [users -> User] /\ \A r \in users : f[r].id = r.id
        BY <1>1, <2>1 DEF TablesOK, RowsOK, User
    <2>3. /\ users' = {f[r] : r \in users} /\ UNCHANGED <<lastId, grants, nets, options>>
          /\ GoesOn(s, [at |-> "refresh"])
        BY <1>10 DEF SetUserKeysDisabled
    <2> HIDE DEF f
    <2>4. TablesOK'
        BY <1>1, <2>2, <2>3, ChangedRowsOK DEF TablesOK
    <2> QED BY <1>2, <2>3, <2>4
<1>11. CASE SetServerOption(s)
    <2>1. step.name \in Options
        BY <1>1, <1>11, StepIs DEF SetServerOption, At
    <2>2. TablesOK'
        BY <1>1, <1>11, <2>1 DEF SetServerOption, TablesOK
    <2> QED BY <1>2, <1>11, <2>2 DEF SetServerOption
<1> QED BY <1>4, <1>5, <1>6, <1>7, <1>8, <1>9, <1>10, <1>11

(* My Keys.                                                                  *)
LEMMA MyKeysOK ==
    ASSUME AccountsInv, NEW s \in Sessions, MyKeys(s)
    PROVE  AccountsInv'
<1> DEFINE step == session[s].step
<1>1. /\ SessionOK(session[s]) /\ TablesOK /\ step \in Steps /\ RowsOK(users, lastId)
      /\ users \subseteq User /\ MaxId \in Nat /\ session[s].list \subseteq User
    BY SessionIs DEF SessionOK
<1>2. ASSUME TablesOK', Who(s) # Nobody, GoesOn(s, NoStep) \/ GoesOn(s, [at |-> "refreshOwn"])
      PROVE  AccountsInv'
    BY <1>1, <1>2, PlainSteps, GoesOnOK DEF GoesOn, NoStep
<1>3. CASE OpenMyKeys(s)
    <2> DEFINE list == GetUserKeys(Who(s))
               rec == [session[s] EXCEPT !.window = "myKeys", !.list = list]
    <2>1. list \in SUBSET User /\ Becomes(s, rec) /\ TablesOK'
        BY <1>1, <1>3, TablesStay DEF OpenMyKeys, GetUserKeys
    <2> HIDE DEF list
    <2>2. SessionOK(rec)
        BY <1>1, <1>3, <2>1 DEF OpenMyKeys, Idle, At, Who, SessionOK, Windows
    <2> HIDE DEF rec
    <2> QED BY <2>1, <2>2, BecomesOK
<1>4. CASE RefreshMyKeys(s)
    <2> DEFINE list == GetUserKeys(Who(s))
               rec == [session[s] EXCEPT !.list = list, !.step = NoStep]
    <2>1. list \in SUBSET User /\ Becomes(s, rec) /\ TablesOK'
        BY <1>1, <1>4, TablesStay DEF RefreshMyKeys, GetUserKeys
    <2> HIDE DEF list
    <2>2. SessionOK(rec)
        BY <1>1, <2>1, PlainSteps DEF SessionOK, NoStep
    <2> HIDE DEF rec
    <2> QED BY <2>1, <2>2, BecomesOK
<1>5. CASE AddMyKey(s)
    <2>1. PICK k \in Keys : Asks(s, [at |-> "addOwn", key |-> k])
        BY <1>5 DEF AddMyKey
    <2>2. [at |-> "addOwn", key |-> k] \in Steps
        BY DEF Steps
    <2>3. Who(s) \in Usernames /\ Who(s) # Nobody /\ UNCHANGED Tables
        BY <1>1, <1>5 DEF AddMyKey, Idle, SessionOK, Who
    <2> QED BY <2>1, <2>2, <2>3, AskedOK
<1>6. CASE RemoveMyKey(s)
    <2>1. PICK r \in session[s].list : Asks(s, [at |-> "removeOwn", id |-> r.id])
        BY <1>6 DEF RemoveMyKey
    <2>2. [at |-> "removeOwn", id |-> r.id] \in Steps
        BY <1>1 DEF Steps, User
    <2>3. Who(s) # Nobody /\ UNCHANGED Tables
        BY <1>6 DEF RemoveMyKey, Idle
    <2> QED BY <2>1, <2>2, <2>3, AskedOK
<1>7. CASE AddMyKeyTransaction(s)
    <2>1. step.at = "addOwn" /\ step.key \in Keys /\ Who(s) \in Usernames /\ Who(s) # Nobody
        BY <1>1, <1>7, StepIs DEF AddMyKeyTransaction, At, SessionOK, Who
    <2> DEFINE plain == [level |-> kAccessUser, viewOnly |-> FALSE]
               byUser == TRUE
               row == NewRow(Who(s), step.key, plain, byUser)
    <2>2. CASE Addable(s, step.key)
        <3>1. /\ users' = users \cup {row} /\ lastId' = lastId + 1 /\ lastId < MaxId
              /\ GoesOn(s, [at |-> "refreshOwn"]) /\ UNCHANGED <<grants, nets, options>>
            BY <1>7, <2>2 DEF AddMyKeyTransaction
        <3>2. plain \in GivenAccess /\ byUser \in BOOLEAN
            BY DEF GivenAccess, Levels
        <3>3. row \in User /\ row.id = lastId + 1
            <4> HIDE DEF plain, step, byUser
            <4> QED BY <1>1, <2>1, <3>1, <3>2, NewRowIs
        <3> HIDE DEF row
        <3>4. RowsOK(users', lastId')
            BY <1>1, <3>1, <3>3 DEF RowsOK, User
        <3>5. TablesOK'
            BY <1>1, <3>1, <3>4 DEF TablesOK
        <3> QED BY <1>2, <2>1, <3>1, <3>5
    <2>3. CASE ~Addable(s, step.key)
        <3>1. GoesOn(s, NoStep) /\ UNCHANGED <<users, lastId, grants, nets, options>>
            BY <1>7, <2>3 DEF AddMyKeyTransaction
        <3>2. TablesOK'
            BY <1>1, <3>1 DEF TablesOK
        <3> QED BY <1>2, <2>1, <3>1, <3>2
    <2> QED BY <2>2, <2>3
<1>8. CASE RemoveMyKeyTransaction(s)
    <2>1. users' \in SUBSET users /\ UNCHANGED <<lastId, grants, nets, options>>
        BY <1>8 DEF RemoveMyKeyTransaction
    <2>2. TablesOK'
        BY <1>1, <2>1, FewerRowsOK DEF TablesOK
    <2>3. Who(s) # Nobody
        BY <1>1, <1>8 DEF RemoveMyKeyTransaction, At, SessionOK, Who
    <2> QED BY <1>2, <1>8, <2>2, <2>3 DEF RemoveMyKeyTransaction
<1> QED BY <1>3, <1>4, <1>5, <1>6, <1>7, <1>8 DEF MyKeys

(* Nets, and who has them.                                                   *)
LEMMA AccessIs ==
    ASSUME users \subseteq User, NEW u
    PROVE  LoadUserAccess(u) \in Access
<1>1. GetUserAccessLevel(u) \in Levels
    BY LevelIs
<1>2. /\ IsUserViewOnly(u) \in BOOLEAN /\ (kOptionRestrictedNets \in options) \in BOOLEAN
      /\ GetNetGrants(u) \in SUBSET Nets /\ kAccessAdmin \in Levels
    BY DEF IsUserViewOnly, GetNetGrants, Levels
<1>3. CASE u = Console
    BY <1>2, <1>3 DEF LoadUserAccess, Access
<1>4. CASE u # Console
    BY <1>1, <1>2, <1>4 DEF LoadUserAccess, Access
<1> QED BY <1>3, <1>4

LEMMA NetsShownOK ==
    ASSUME AccountsInv, NEW s \in Sessions, NEW a, RefreshNetAccessNets(s, a), TablesOK',
           Who(s) # Nobody
    PROVE  AccountsInv'
<1> DEFINE offered == {n \in nets : IsAdmin(a) \/ IsGranted(a, n)}
           rec == [session[s] EXCEPT !.window = "nets", !.net = NoNet, !.names = {},
                                     !.step = NoStep, !.offered = offered]
<1>1. SessionOK(session[s]) /\ offered \in SUBSET Nets
    BY SessionIs DEF AccountsInv
<1>2. Becomes(s, rec)
    BY DEF RefreshNetAccessNets
<1> HIDE DEF offered
<1>3. SessionOK(rec)
    BY <1>1, PlainSteps DEF SessionOK, Windows, NoNet, NoStep
<1> HIDE DEF rec
<1> QED BY <1>2, <1>3, BecomesOK

LEMMA NetsAndAccessOK ==
    ASSUME AccountsInv, NEW s \in Sessions, NetsAndAccess(s)
    PROVE  AccountsInv'
<1> DEFINE step == session[s].step
<1>1. /\ SessionOK(session[s]) /\ TablesOK /\ step \in Steps /\ users \subseteq User
      /\ session[s].names \subseteq Usernames /\ session[s].offered \subseteq Nets
    BY SessionIs DEF SessionOK
<1>2. \A a, n : Grantable(a, n) \in SUBSET Usernames
    BY <1>1 DEF Grantable, User
<1>3. ASSUME TablesOK', Who(s) # Nobody, GoesOn(s, NoStep)
      PROVE  AccountsInv'
    BY <1>1, <1>3, PlainSteps, GoesOnOK DEF GoesOn, NoStep
<1>4. CASE OpenNetAccess(s)
    <2>1. RefreshNetAccessNets(s, LoadUserAccess(Who(s))) /\ TablesOK' /\ Who(s) # Nobody
        BY <1>4, TablesStay DEF OpenNetAccess, Idle
    <2> QED BY <2>1, NetsShownOK
<1>5. CASE BackOutOfNetAccess(s)
    <2>1. RefreshNetAccessNets(s, LoadUserAccess(Who(s))) /\ TablesOK' /\ Who(s) # Nobody
        BY <1>5, TablesStay DEF BackOutOfNetAccess, Idle
    <2> QED BY <2>1, NetsShownOK
<1>6. CASE ChooseNetAccessNet(s)
    <2> DEFINE a == LoadUserAccess(Who(s))
    <2>1. PICK n \in session[s].offered :
            Becomes(s, [session[s] EXCEPT !.window = "people", !.net = {n},
                                          !.names = Grantable(a, n)])
        BY <1>6 DEF ChooseNetAccessNet
    <2> DEFINE names == Grantable(a, n)
               rec == [session[s] EXCEPT !.window = "people", !.net = {n}, !.names = names]
    <2>2. names \in SUBSET Usernames /\ n \in Nets /\ Becomes(s, rec) /\ TablesOK'
        BY <1>1, <1>2, <1>6, <2>1, TablesStay DEF ChooseNetAccessNet
    <2> HIDE DEF names
    <2>3. SessionOK(rec)
        BY <1>1, <1>6, <2>2 DEF ChooseNetAccessNet, Idle, At, SessionOK, Windows
    <2> HIDE DEF rec
    <2> QED BY <2>2, <2>3, BecomesOK
<1>7. CASE ToggleNetAccessUser(s)
    <2>1. PICK u \in session[s].names :
            Asks(s, [at |-> "grant", user |-> u, access |-> LoadUserAccess(Who(s))])
        BY <1>7 DEF ToggleNetAccessUser
    <2> DEFINE access == LoadUserAccess(Who(s))
               next == [at |-> "grant", user |-> u, access |-> access]
    <2>2. access \in Access /\ u \in Usernames
        BY <1>1, AccessIs
    <2> HIDE DEF access
    <2>3. next \in Steps /\ next.at = "grant"
        BY <2>2 DEF Steps
    <2>4. Asks(s, next)
        BY <2>1 DEF access
    <2>5. session[s].window = "people" /\ Who(s) # Nobody /\ UNCHANGED Tables
        BY <1>7 DEF ToggleNetAccessUser, Idle
    <2> HIDE DEF next
    <2> QED BY <2>3, <2>4, <2>5, AskedOK
<1>8. CASE GrantTransaction(s)
    <2> DEFINE u == step.user
               a == step.access
               n == CHOOSE n \in Nets : session[s].net = {n}
               names == Grantable(a, n)
               rec == [session[s] EXCEPT !.names = names, !.step = NoStep]
    <2>1. /\ u \in Usernames /\ session[s].window = "people" /\ Who(s) # Nobody
          /\ \E m \in Nets : session[s].net = {m}
        BY <1>1, <1>8, StepIs DEF GrantTransaction, At, SessionOK, Who
    <2>2. n \in Nets
        BY <2>1
    <2>3. /\ grants' \subseteq grants \cup {<<u, n>>} /\ UNCHANGED <<users, lastId, nets, options>>
          /\ \/ Becomes(s, rec)
             \/ RefreshNetAccessNets(s, LoadUserAccess(Who(s)))
        BY <1>8 DEF GrantTransaction
    <2>4. TablesOK'
        <3> HIDE DEF n, u
        <3> QED BY <1>1, <2>1, <2>2, <2>3 DEF TablesOK
    <2>5. CASE Becomes(s, rec)
        <3>1. names \in SUBSET Usernames
            BY <1>2
        <3> HIDE DEF names
        <3>2. SessionOK(rec)
            BY <1>1, <3>1, PlainSteps DEF SessionOK, NoStep
        <3> HIDE DEF rec
        <3> QED BY <2>4, <2>5, <3>2, BecomesOK
    <2> QED BY <2>1, <2>3, <2>4, <2>5, NetsShownOK
<1>9. CASE CreateNetSubmit(s)
    <2>1. PICK n \in Nets : Asks(s, [at |-> "createNet", net |-> n])
        BY <1>9 DEF CreateNetSubmit
    <2>2. [at |-> "createNet", net |-> n] \in Steps
        BY DEF Steps
    <2>3. Who(s) # Nobody /\ UNCHANGED Tables
        BY <1>9 DEF CreateNetSubmit, Idle
    <2> QED BY <2>1, <2>2, <2>3, AskedOK
<1>10. CASE ConfirmDeleteNet(s)
    <2>1. PICK n \in nets : Asks(s, [at |-> "deleteNet", net |-> n])
        BY <1>10 DEF ConfirmDeleteNet
    <2>2. [at |-> "deleteNet", net |-> n] \in Steps
        BY <1>1 DEF Steps, TablesOK
    <2>3. Who(s) # Nobody /\ UNCHANGED Tables
        BY <1>10 DEF ConfirmDeleteNet, Idle
    <2> QED BY <2>1, <2>2, <2>3, AskedOK
<1>11. ASSUME step.at \in {"createNet", "giveNet", "deleteNet"}
       PROVE  /\ step \in [at : {"createNet", "giveNet", "deleteNet"}, net : Nets]
              /\ Who(s) # Nobody
    BY <1>1, <1>11, StepIs DEF SessionOK, Who
<1>12. CASE CreateNet(s)
    <2> DEFINE next == [step EXCEPT !.at = "giveNet"]
    <2>1. step \in [at : {"createNet", "giveNet", "deleteNet"}, net : Nets] /\ Who(s) # Nobody
        BY <1>11, <1>12 DEF CreateNet, At
    <2>2. TablesOK'
        BY <1>1, <1>12, <2>1 DEF CreateNet, TablesOK
    <2>3. CASE IsConsole(s)
        BY <1>3, <1>12, <2>1, <2>2, <2>3 DEF CreateNet
    <2>4. CASE ~IsConsole(s)
        <3>1. next \in Steps /\ next.at = "giveNet"
            BY <2>1 DEF Steps
        <3>2. session' = [session EXCEPT ![s].step = next]
            BY <1>12, <2>4 DEF CreateNet, GoesOn
        <3>3. Who(s) \in Usernames
            BY <2>1, <2>4, SessionIs DEF IsConsole
        <3> HIDE DEF next
        <3> QED BY <2>1, <2>2, <3>1, <3>2, <3>3, GoesOnOK
    <2> QED BY <2>3, <2>4
<1>13. CASE GiveNewNetToCreator(s)
    <2>1. step.net \in Nets /\ Who(s) \in Usernames /\ Who(s) # Nobody
        BY <1>1, <1>11, <1>13 DEF GiveNewNetToCreator, At, SessionOK, Who
    <2>2. TablesOK'
        BY <1>1, <1>13, <2>1 DEF GiveNewNetToCreator, TablesOK
    <2> QED BY <1>3, <1>13, <2>1, <2>2 DEF GiveNewNetToCreator
<1>14. CASE DeleteNet(s)
    <2>1. TablesOK' /\ Who(s) # Nobody
        BY <1>1, <1>11, <1>14 DEF DeleteNet, At, TablesOK
    <2> QED BY <1>3, <1>14, <2>1 DEF DeleteNet
<1> QED BY <1>4, <1>5, <1>6, <1>7, <1>8, <1>9, <1>10, <1>12, <1>13, <1>14 DEF NetsAndAccess

-----------------------------------------------------------------------------
(* The invariant.                                                            *)

LEMMA InitOK == Init => AccountsInv
<1> SUFFICES ASSUME Init PROVE AccountsInv
    OBVIOUS
<1> DEFINE ids == {r.id : r \in users} \cup {0}
<1>1. /\ users \subseteq User /\ MaxId \in Nat /\ lastId = Max(ids)
      /\ \A r, q \in users : r.id = q.id => r = q
    BY AccountsAssumption DEF Init
<1>2. ids \in SUBSET (0..MaxId) /\ ids # {}
    BY <1>1 DEF User
<1>3. lastId \in ids /\ \A x \in ids : lastId >= x
    <2> HIDE DEF ids
    <2> QED BY <1>1, <1>2, GreatestExists
<1>4. RowsOK(users, lastId)
    BY <1>1, <1>2, <1>3 DEF RowsOK, User
<1>5. \A s \in Sessions : SessionOK(session[s])
    BY OffIs DEF Init
<1>6. grants \subseteq Usernames \X Nets /\ nets \subseteq Nets /\ options \subseteq Options
    BY AccountsAssumption DEF Init
<1> QED BY <1>4, <1>5, <1>6 DEF AccountsInv, Init

LEMMA ManageUsersOK ==
    ASSUME AccountsInv, NEW s \in Sessions, ManageUsers(s)
    PROVE  AccountsInv'
BY PagesOK, ManageAsksOK, EditsOK, KeysAndUsersOK DEF ManageUsers

LEMMA NextKeepsInv ==
    ASSUME AccountsInv, [Next]_vars
    PROVE  AccountsInv'
<1>1. CASE Next
    BY <1>1, LoginsOK, BackOK, ManageUsersOK, MyKeysOK, NetsAndAccessOK DEF Next
<1>2. CASE UNCHANGED vars
    BY <1>2 DEF AccountsInv, vars
<1> QED BY <1>1, <1>2

(* Every window, question and handler keeps the tables and the sessions what *)
(* they are: each row with an id of its own, each session at a place it can  *)
(* be at, with the step its handler left off at.                             *)
THEOREM AccountsInvAlways == Spec => []AccountsInv
<1>1. AccountsInv /\ [Next]_vars => AccountsInv'
    BY NextKeepsInv
<1> QED BY InitOK, <1>1, PTL DEF Spec

(* The types of every variable, for any sessions, users, keys and nets.      *)
THEOREM TypesAlways == Spec => []TypeOK
<1>1. AccountsInv => TypeOK
    BY DEF AccountsInv, TypeOK, RowsOK, SessionOK
<1> QED BY AccountsInvAlways, <1>1, PTL

-----------------------------------------------------------------------------
(* What a step may never do.                                                 *)

(* However many sessions of theirs remove keys in My Keys at once, a user is *)
(* never left without a key that can log in: each removal looks again, in    *)
(* its transaction, for another key that works.                              *)
THEOREM OwnRemovalAlwaysLeavesAKey == Spec => OwnRemovalLeavesAKey
<1>1. ASSUME NEW s \in Sessions, NEW u \in Usernames, RemoveMyKeyTransaction(s), Who(s) = u,
             HasWorkingKey(u)
      PROVE  HasWorkingKey(u)'
    <2> DEFINE id == session[s].step.id
    <2>1. users' = {r \in users : Removable(s, id) => r.id # id}
        BY <1>1 DEF RemoveMyKeyTransaction
    <2>2. PICK r \in users : r.username = u /\ ~r.disabled /\ (Removable(s, id) => r.id # id)
        BY <1>1 DEF HasWorkingKey, GetUserKeys, Removable
    <2> QED BY <2>1, <2>2 DEF HasWorkingKey, GetUserKeys
<1>2. [Next]_vars => [\A s \in Sessions, u \in Usernames :
        Who(s) = u /\ HasWorkingKey(u) /\ ~HasWorkingKey(u)' => ~RemoveMyKeyTransaction(s)]_vars
    BY <1>1
<1> QED BY <1>2, PTL DEF Spec, OwnRemovalLeavesAKey

(* A net is given only to someone who can use it, whatever they were when    *)
(* they were listed: the transaction asks again what they are.               *)
THEOREM NetsAlwaysGoToThoseWhoLog == Spec => NetsGoToThoseWhoLog
<1>1. ASSUME NEW s \in Sessions, GrantTransaction(s), NEW g \in grants' \ grants
      PROVE  GetUserAccessLevel(g[1]) < kAccessAdmin /\ ~IsUserViewOnly(g[1])
    <2> DEFINE u == session[s].step.user
               a == session[s].step.access
               n == CHOOSE n \in Nets : session[s].net = {n}
    <2>1. Allowed(a, u, n) /\ g = <<u, n>>
        BY <1>1 DEF GrantTransaction
    <2> HIDE DEF u, a, n
    <2>2. CanGrant(a, n, GetUserAccessLevel(u)) /\ ~IsUserViewOnly(u) /\ g[1] = u
        BY <2>1 DEF Allowed
    <2>3. GetUserAccessLevel(u) \in {kAccessUser, kAccessNetAdmin}
        BY <2>2 DEF CanGrant
    <2> QED BY <2>2, <2>3 DEF kAccessUser, kAccessNetAdmin, kAccessAdmin
<1>2. [Next]_vars => [\A s \in Sessions : GrantTransaction(s) =>
        \A g \in grants' \ grants :
            GetUserAccessLevel(g[1]) < kAccessAdmin /\ ~IsUserViewOnly(g[1])]_vars
    BY <1>1
<1> QED BY <1>2, PTL DEF Spec, NetsGoToThoseWhoLog

-----------------------------------------------------------------------------
(* How the table users changes.                                              *)

(* Every row is as it was, but for what an admin may change, or a new one.   *)
RowsStay ==
    /\ lastId' \in Nat /\ lastId' >= lastId
    /\ \A q \in users' : \/ \E r \in users : r.id = q.id /\ r.key = q.key /\ r.byUser = q.byUser
                         \/ q.id = lastId + 1 /\ lastId' = lastId + 1

(* Only renaming changes whose a row is.                                     *)
OwnersStay ==
    \A q \in users' : q.id <= lastId => \E r \in users : r.id = q.id /\ r.username = q.username

LEMMA SameRows ==
    ASSUME AccountsInv, users' \subseteq users, UNCHANGED lastId
    PROVE  RowsStay /\ OwnersStay
<1>1. lastId \in Nat
    BY AccountsAssumption DEF AccountsInv, RowsOK
<1> QED BY <1>1 DEF RowsStay, OwnersStay

(* A new row.                                                                *)
LEMMA NewRows ==
    ASSUME AccountsInv, NEW row, row.id = lastId + 1, users' = users \cup {row},
           lastId' = lastId + 1
    PROVE  RowsStay /\ OwnersStay
<1>1. lastId \in Nat
    BY AccountsAssumption DEF AccountsInv, RowsOK
<1> QED BY <1>1 DEF RowsStay, OwnersStay

LEMMA ChangedRows ==
    ASSUME AccountsInv, NEW f, users' = {f[r] : r \in users}, UNCHANGED lastId,
           \A r \in users : f[r].id = r.id /\ f[r].key = r.key /\ f[r].byUser = r.byUser
    PROVE  /\ RowsStay
           /\ (\A r \in users : f[r].username = r.username) => OwnersStay
<1>1. lastId \in Nat
    BY AccountsAssumption DEF AccountsInv, RowsOK
<1>2. RowsStay
    BY <1>1 DEF RowsStay
<1>3. (\A r \in users : f[r].username = r.username) => OwnersStay
    BY DEF OwnersStay
<1> QED BY <1>2, <1>3

(* The statements that change it.                                            *)
Changing(s) ==
    \/ RenameUserKeys(s) \/ SetUserViewOnly(s) \/ SetUserAccessLevel(s) \/ CreateUserInserts(s)
    \/ DeleteUserKey(s) \/ DeleteUser(s) \/ SetUserKeyDisabled(s) \/ SetUserKeysDisabled(s)
    \/ AddMyKeyTransaction(s) \/ RemoveMyKeyTransaction(s)

LEMMA OnlyTheseChangeUsers ==
    ASSUME NEW s \in Sessions, ~Changing(s),
           \/ AuthPubkeyCallback(s) \/ RunInteractiveSession(s) \/ StartAtConsole(s)
           \/ Ends(s) \/ Back(s)
           \/ ManageUsers(s) \/ MyKeys(s) \/ NetsAndAccess(s)
    PROVE  UNCHANGED <<users, lastId>>
<1>1. CASE AuthPubkeyCallback(s) \/ RunInteractiveSession(s) \/ StartAtConsole(s) \/ Ends(s)
           \/ Back(s)
    BY <1>1 DEF AuthPubkeyCallback, RunInteractiveSession, StartAtConsole, Ends, Back, Tables
<1>2. CASE ManageUsers(s)
    BY <1>2 DEF ManageUsers, Changing, ShowManageUsersPage, RefuseNonAdmin, RefreshUsers,
                OpenUserKeys, SaveEditedUser, RenameUserLooks, RenameGrants, CompareAccess,
                AddUserFromForm, AddKeyToShownUser, CreateUserLooks, RemoveSelectedUserKey,
                RemoveSelectedUser, DeleteGrants, ToggleSelectedUserKeyDisabled,
                ToggleAllUserKeysDisabled, ToggleOption, SetServerOption, Tables
<1>3. CASE MyKeys(s)
    BY <1>3 DEF MyKeys, Changing, OpenMyKeys, RefreshMyKeys, AddMyKey, RemoveMyKey, Tables
<1>4. CASE NetsAndAccess(s)
    BY <1>4 DEF NetsAndAccess, OpenNetAccess, ChooseNetAccessNet, BackOutOfNetAccess,
                ToggleNetAccessUser, GrantTransaction, CreateNetSubmit, CreateNet,
                GiveNewNetToCreator, ConfirmDeleteNet, DeleteNet, Tables
<1> QED BY <1>1, <1>2, <1>3, <1>4

(* The new rows the two ways of adding a key make.                           *)
LEMMA AddedRowIs ==
    ASSUME AccountsInv, NEW s \in Sessions,
           CreateUserInserts(s) \/ (AddMyKeyTransaction(s) /\ Addable(s, session[s].step.key))
    PROVE  \E row : /\ users' = users \cup {row} /\ lastId' = lastId + 1
                    /\ row.id = lastId + 1 /\ row.key = session[s].step.key
                    /\ row.byUser => Addable(s, session[s].step.key)
<1> DEFINE step == session[s].step
<1>1. /\ SessionOK(session[s]) /\ step \in Steps /\ RowsOK(users, lastId) /\ MaxId \in Nat
    BY SessionIs
<1>2. CASE CreateUserInserts(s)
    <2> DEFINE byUser == FALSE
               row == NewRow(step.user, step.key, step.choice, byUser)
    <2>1. users' = users \cup {row} /\ lastId' = lastId + 1 /\ lastId < MaxId
        BY <1>2 DEF CreateUserInserts
    <2>2. step.user \in Usernames /\ step.key \in Keys /\ step.choice \in GivenAccess
        BY <1>1, <1>2, StepIs DEF CreateUserInserts, At
    <2>3. byUser \in BOOLEAN
        OBVIOUS
    <2>4. row.id = lastId + 1 /\ row.key = step.key /\ row.byUser = byUser
        <3> HIDE DEF step, byUser
        <3> QED BY <1>1, <2>1, <2>2, <2>3, NewRowIs
    <2> HIDE DEF row
    <2> QED BY <2>1, <2>4
<1>3. CASE AddMyKeyTransaction(s) /\ Addable(s, step.key)
    <2> DEFINE plain == [level |-> kAccessUser, viewOnly |-> FALSE]
               byUser == TRUE
               row == NewRow(Who(s), step.key, plain, byUser)
    <2>1. users' = users \cup {row} /\ lastId' = lastId + 1 /\ lastId < MaxId
        BY <1>3 DEF AddMyKeyTransaction
    <2>2. step.key \in Keys /\ Who(s) \in Usernames
        BY <1>1, <1>3, StepIs DEF AddMyKeyTransaction, At, SessionOK, Who
    <2>3. byUser \in BOOLEAN /\ plain \in GivenAccess
        BY DEF GivenAccess, Levels
    <2>4. row.id = lastId + 1 /\ row.key = step.key
        <3> HIDE DEF step, byUser, plain
        <3> QED BY <1>1, <2>1, <2>2, <2>3, NewRowIs
    <2> HIDE DEF row
    <2> QED BY <1>3, <2>1, <2>4
<1> QED BY <1>2, <1>3

LEMMA UsersEvolve ==
    ASSUME AccountsInv, NEW s \in Sessions,
           \/ AuthPubkeyCallback(s) \/ RunInteractiveSession(s) \/ StartAtConsole(s)
           \/ Ends(s) \/ Back(s)
           \/ ManageUsers(s) \/ MyKeys(s) \/ NetsAndAccess(s)
    PROVE  RowsStay /\ (~RenameUserKeys(s) => OwnersStay)
<1> DEFINE step == session[s].step
<1>1. users \subseteq User
    BY SessionIs
<1>2. CASE ~Changing(s)
    BY <1>2, OnlyTheseChangeUsers, SameRows
<1>3. CASE RenameUserKeys(s)
    <2> DEFINE f == [r \in users |-> [r EXCEPT !.username = Renamed(@, step.old, step.user)]]
    <2>1. \A r \in users : f[r].id = r.id /\ f[r].key = r.key /\ f[r].byUser = r.byUser
        BY <1>1 DEF User
    <2>2. users' = {f[r] : r \in users} /\ UNCHANGED lastId
        BY <1>3 DEF RenameUserKeys
    <2> HIDE DEF f
    <2> QED BY <1>3, <2>1, <2>2, ChangedRows
<1>4. CASE SetUserViewOnly(s)
    <2> DEFINE f == [r \in users |-> IF r.username = step.user
                                     THEN [r EXCEPT !.viewOnly = step.choice.viewOnly] ELSE r]
    <2>1. \A r \in users : f[r].id = r.id /\ f[r].key = r.key /\ f[r].byUser = r.byUser
                            /\ f[r].username = r.username
        BY <1>1 DEF User
    <2>2. users' = {f[r] : r \in users} /\ UNCHANGED lastId
        BY <1>4 DEF SetUserViewOnly
    <2> HIDE DEF f
    <2> QED BY <2>1, <2>2, ChangedRows
<1>5. CASE SetUserAccessLevel(s)
    <2> DEFINE f == [r \in users |-> IF r.username = step.user
                                     THEN [r EXCEPT !.level = step.choice.level] ELSE r]
    <2>1. \A r \in users : f[r].id = r.id /\ f[r].key = r.key /\ f[r].byUser = r.byUser
                            /\ f[r].username = r.username
        BY <1>1 DEF User
    <2>2. users' = {f[r] : r \in users} /\ UNCHANGED lastId
        BY <1>5 DEF SetUserAccessLevel
    <2> HIDE DEF f
    <2> QED BY <2>1, <2>2, ChangedRows
<1>6. CASE SetUserKeyDisabled(s)
    <2> DEFINE f == [r \in users |-> IF r.id = step.id THEN [r EXCEPT !.disabled = step.off] ELSE r]
    <2>1. \A r \in users : f[r].id = r.id /\ f[r].key = r.key /\ f[r].byUser = r.byUser
                            /\ f[r].username = r.username
        BY <1>1 DEF User
    <2>2. users' = {f[r] : r \in users} /\ UNCHANGED lastId
        BY <1>6 DEF SetUserKeyDisabled
    <2> HIDE DEF f
    <2> QED BY <2>1, <2>2, ChangedRows
<1>7. CASE SetUserKeysDisabled(s)
    <2> DEFINE f == [r \in users |-> IF r.username = step.user THEN [r EXCEPT !.disabled = step.off]
                                     ELSE r]
    <2>1. \A r \in users : f[r].id = r.id /\ f[r].key = r.key /\ f[r].byUser = r.byUser
                            /\ f[r].username = r.username
        BY <1>1 DEF User
    <2>2. users' = {f[r] : r \in users} /\ UNCHANGED lastId
        BY <1>7 DEF SetUserKeysDisabled
    <2> HIDE DEF f
    <2> QED BY <2>1, <2>2, ChangedRows
<1>8. CASE DeleteUserKey(s) \/ DeleteUser(s) \/ RemoveMyKeyTransaction(s)
    BY <1>8, SameRows DEF DeleteUserKey, DeleteUser, RemoveMyKeyTransaction
<1>9. CASE CreateUserInserts(s)
    BY <1>9, AddedRowIs, NewRows
<1>10. CASE AddMyKeyTransaction(s)
    <2>1. CASE Addable(s, step.key)
        BY <1>10, <2>1, AddedRowIs, NewRows
    <2>2. CASE ~Addable(s, step.key)
        BY <1>10, <2>2, SameRows DEF AddMyKeyTransaction
    <2> QED BY <2>1, <2>2
<1> QED BY <1>2, <1>3, <1>4, <1>5, <1>6, <1>7, <1>8, <1>9, <1>10 DEF Changing

(* A key a user adds in My Keys is on file nowhere else at that moment, not  *)
(* even if two users add it at once.                                         *)
THEOREM OwnKeysAlwaysNew == Spec => OwnKeysAreNew
<1>1. ASSUME AccountsInv, Next, NEW r \in users', r.byUser, r.id > lastId
      PROVE  \A q \in users : ~SamePublicKey(q, r.key)
    <2>1. PICK s \in Sessions :
            \/ AuthPubkeyCallback(s) \/ RunInteractiveSession(s) \/ StartAtConsole(s)
            \/ Ends(s) \/ Back(s)
            \/ ManageUsers(s) \/ MyKeys(s) \/ NetsAndAccess(s)
        BY <1>1 DEF Next
    <2> DEFINE adds == \/ CreateUserInserts(s)
                       \/ AddMyKeyTransaction(s) /\ Addable(s, session[s].step.key)
    <2>2. /\ \A q \in users : q.id <= lastId /\ q.id \in Nat
          /\ lastId \in Nat
        BY <1>1, AccountsAssumption DEF AccountsInv, RowsOK, User
    <2>3. CASE adds
        <3>1. PICK row : /\ users' = users \cup {row} /\ row.id = lastId + 1
                         /\ row.key = session[s].step.key
                         /\ row.byUser => Addable(s, session[s].step.key)
            BY <1>1, <2>3, AddedRowIs
        <3>2. r = row
            BY <1>1, <2>2, <3>1
        <3>3. UserOfKey(r.key) = {}
            BY <1>1, <3>1, <3>2 DEF Addable
        <3> QED BY <3>3 DEF UserOfKey
    <2>4. CASE ~adds
        <3>1. UNCHANGED lastId
            BY <2>1, <2>4, OnlyTheseChangeUsers
            DEF Changing, RenameUserKeys, SetUserViewOnly, SetUserAccessLevel, DeleteUserKey,
                DeleteUser, SetUserKeyDisabled, SetUserKeysDisabled, AddMyKeyTransaction,
                RemoveMyKeyTransaction
        <3>2. RowsStay
            BY <1>1, <2>1, UsersEvolve
        <3> QED BY <1>1, <2>2, <3>1, <3>2 DEF RowsStay
    <2> QED BY <2>3, <2>4
<1>2. AccountsInv /\ [Next]_vars => [\A r \in users' \ users :
        r.byUser /\ r.id > lastId => \A q \in users : ~SamePublicKey(q, r.key)]_vars
    BY <1>1
<1> QED BY AccountsInvAlways, <1>2, PTL DEF Spec, OwnKeysAreNew

-----------------------------------------------------------------------------
(* No one locks themself out.  What a session is about to do was asked of    *)
(* the keys it listed, by their ids, and of usernames: it stays true of the  *)
(* key it logged in with as long as no one's name changes under it.          *)

(* Whose a listed key is.                                                    *)
Listed(list) ==
    \A r \in list : /\ r.id \in 0..lastId
                    /\ \A q \in users : q.id = r.id => q.username = r.username

(* Not the key rec logged in with, as long as it is theirs.                  *)
Spares(rec, id) ==
    id \in 0..lastId /\ \A q \in users : q.id = id => ~(q.id = rec.key /\ q.username = rec.who)

Renaming == {"rename", "renameUsers", "renameGrants"}
Saving == {"access", "viewOnly", "level"}

LoginKept(rec) ==
    /\ rec.step.at \notin Renaming
    /\ Listed(rec.list)
    /\ rec.step.at = "deleteKey" => Spares(rec, rec.step.id)
    /\ rec.step.at = "keyOff" /\ rec.step.off => Spares(rec, rec.step.id)
    /\ rec.step.at = "keysOff" /\ rec.step.off => rec.step.user # rec.who
    /\ rec.step.at = "deleteUser" => rec.step.user # rec.who
    /\ rec.step.at \in Saving /\ rec.step.user = rec.who =>
            rec.step.choice.level = kAccessAdmin

LoginsKept == \A s \in Sessions : LoginKept(session[s])

(* Steps that do nothing to a key or its user's access.                      *)
Harmless == {"idle", "refresh", "refreshOwn", "create", "insert", "deleteGrants", "option",
             "addOwn", "removeOwn", "grant", "createNet", "giveNet", "deleteNet"}

LEMMA HarmlessKept ==
    ASSUME NEW rec, rec.step.at \in Harmless, Listed(rec.list)
    PROVE  LoginKept(rec)
BY DEF LoginKept, Harmless, Renaming, Saving

LEMMA SameKept ==
    ASSUME NEW old, NEW rec, LoginKept(old), rec.who = old.who, rec.key = old.key,
           rec.step = old.step, rec.list = old.list
    PROVE  LoginKept(rec)
BY DEF LoginKept, Spares

LEMMA TheirKeysListed ==
    ASSUME AccountsInv, NEW u
    PROVE  Listed(GetUserKeys(u)) /\ Listed({})
BY AccountsAssumption DEF AccountsInv, RowsOK, Listed, GetUserKeys, User

(* The tables change under it.                                               *)
LEMMA KeptAsRowsChange ==
    ASSUME AccountsInv, NEW rec, LoginKept(rec), RowsStay, OwnersStay
    PROVE  LoginKept(rec)'
<1>1. lastId \in Nat /\ lastId' \in Nat /\ lastId' >= lastId
    BY AccountsAssumption DEF AccountsInv, RowsOK, RowsStay
<1>2. \A q \in users' : q.id \in 0..lastId =>
            \E r \in users : r.id = q.id /\ r.username = q.username
    BY <1>1 DEF OwnersStay
<1>3. Listed(rec.list)'
    BY <1>1, <1>2 DEF LoginKept, Listed
<1>4. ASSUME NEW id, Spares(rec, id) PROVE Spares(rec, id)'
    BY <1>1, <1>2, <1>4 DEF Spares
<1> QED BY <1>3, <1>4 DEF LoginKept

(* A step of its own leaves a session so.                                    *)
LEMMA StepKept ==
    ASSUME AccountsInv, NEW s \in Sessions, LoginKept(session[s]), NEW step,
           step.at \in Harmless, session' = [session EXCEPT ![s].step = step]
    PROVE  \E rec : Becomes(s, rec) /\ LoginKept(rec)
<1> DEFINE rec == [session[s] EXCEPT !.step = step]
<1>1. SessionOK(session[s])
    BY SessionIs
<1>2. rec.step = step /\ rec.list = session[s].list
    BY <1>1 DEF SessionOK
<1>3. Becomes(s, rec)
    BY DEF Becomes
<1> HIDE DEF rec
<1>4. LoginKept(rec)
    BY <1>2, HarmlessKept DEF LoginKept
<1> QED BY <1>3, <1>4

LEMMA WindowsKept ==
    ASSUME AccountsInv, NEW s \in Sessions, LoginKept(session[s]),
           \/ AuthPubkeyCallback(s) \/ RunInteractiveSession(s) \/ StartAtConsole(s)
           \/ Ends(s) \/ Back(s)
           \/ ShowManageUsersPage(s) \/ RefuseNonAdmin(s) \/ RefreshUsers(s) \/ OpenUserKeys(s)
    PROVE  \E rec : Becomes(s, rec) /\ LoginKept(rec)
<1>1. SessionOK(session[s])
    BY SessionIs
<1>2. ASSUME NEW rec, Becomes(s, rec), rec.step.at \in Harmless,
             rec.list = {} \/ rec.list = session[s].list \/ \E u : rec.list = GetUserKeys(u)
      PROVE  \E r : Becomes(s, r) /\ LoginKept(r)
    <2>1. Listed(rec.list)
        BY <1>2, TheirKeysListed DEF LoginKept
    <2> QED BY <1>2, <2>1, HarmlessKept
<1>3. CASE AuthPubkeyCallback(s)
    <2>1. PICK r \in users : Becomes(s, [Off EXCEPT !.who = r.username, !.key = r.id,
                                                    !.window = "starting"])
        BY <1>3 DEF AuthPubkeyCallback
    <2> DEFINE rec == [Off EXCEPT !.who = r.username, !.key = r.id, !.window = "starting"]
    <2>2. rec.step.at \in Harmless /\ rec.list = {}
        BY DEF Off, NoStep, Harmless
    <2> HIDE DEF rec
    <2> QED BY <1>2, <2>1, <2>2 DEF rec
<1>4. CASE RunInteractiveSession(s) \/ RefuseNonAdmin(s)
    <2>1. PICK rec : /\ Becomes(s, rec) /\ rec.who = session[s].who /\ rec.key = session[s].key
                     /\ rec.step = session[s].step /\ rec.list = session[s].list
        <3>1. CASE RunInteractiveSession(s)
            <4> DEFINE viewOnly == IsUserViewOnly(Who(s))
                       admin == GetUserAccessLevel(Who(s)) >= kAccessAdmin
                       r == [session[s] EXCEPT !.window = "main", !.viewOnly = viewOnly,
                                               !.admin = admin]
            <4>1. Becomes(s, r)
                BY <3>1 DEF RunInteractiveSession
            <4> HIDE DEF viewOnly, admin
            <4>2. /\ r.who = session[s].who /\ r.key = session[s].key
                  /\ r.step = session[s].step /\ r.list = session[s].list
                BY <1>1 DEF SessionOK
            <4> HIDE DEF r
            <4> QED BY <4>1, <4>2
        <3>2. CASE RefuseNonAdmin(s)
            <4> DEFINE r == [session[s] EXCEPT !.admin = FALSE]
            <4>1. Becomes(s, r)
                BY <3>2 DEF RefuseNonAdmin
            <4>2. /\ r.who = session[s].who /\ r.key = session[s].key
                  /\ r.step = session[s].step /\ r.list = session[s].list
                BY <1>1 DEF SessionOK
            <4> HIDE DEF r
            <4> QED BY <4>1, <4>2
        <3> QED BY <1>4, <3>1, <3>2
    <2>2. LoginKept(rec)
        BY <2>1, SameKept
    <2> QED BY <2>1, <2>2
<1>5. CASE StartAtConsole(s) \/ Ends(s)
    <2>1. PICK rec \in {Off, [Off EXCEPT !.who = Console]} : Becomes(s, rec)
        BY <1>5 DEF StartAtConsole, Ends
    <2>2. rec.step.at \in Harmless /\ rec.list = {}
        BY DEF Off, NoStep, Harmless
    <2> QED BY <1>2, <2>1, <2>2
<1>6. CASE Back(s)
    <2>1. PICK window : Closes(s, window)
        BY <1>6 DEF Back
    <2> DEFINE names == IF window = "manage" THEN session[s].names ELSE {}
               rec == [session[s] EXCEPT !.window = window, !.shown = Nobody, !.list = {},
                           !.net = NoNet, !.step = NoStep, !.names = names, !.offered = {}]
    <2>2. Becomes(s, rec)
        <3>1. rec = [session[s] EXCEPT !.window = window, !.shown = Nobody, !.list = {},
                        !.net = NoNet, !.step = NoStep,
                        !.names = IF window = "manage" THEN @ ELSE {}, !.offered = {}]
            BY <1>1 DEF SessionOK
        <3> HIDE DEF rec
        <3> QED BY <2>1, <3>1 DEF Closes
    <2> HIDE DEF names
    <2>3. rec.step.at \in Harmless /\ rec.list = {}
        BY <1>1 DEF SessionOK, NoStep, Harmless
    <2> HIDE DEF rec
    <2> QED BY <1>2, <2>2, <2>3
<1>7. CASE ShowManageUsersPage(s)
    <2> DEFINE rec == [session[s] EXCEPT !.window = "manage", !.step = [at |-> "refresh"]]
    <2>1. Becomes(s, rec)
        BY <1>7 DEF ShowManageUsersPage
    <2>2. rec.step.at \in Harmless /\ rec.list = session[s].list
        BY <1>1 DEF SessionOK, Harmless
    <2> HIDE DEF rec
    <2> QED BY <1>2, <2>1, <2>2
<1>8. CASE RefreshUsers(s)
    <2> DEFINE names == {r.username : r \in users}
               list == IF session[s].window = "keys" THEN GetUserKeys(session[s].shown) ELSE {}
               rec == [session[s] EXCEPT !.names = names, !.list = list, !.step = NoStep]
    <2>1. Becomes(s, rec)
        BY <1>8 DEF RefreshUsers
    <2>2. list = {} \/ \E u : list = GetUserKeys(u)
        OBVIOUS
    <2> HIDE DEF names, list
    <2>3. rec.step.at \in Harmless /\ rec.list = list
        BY <1>1 DEF SessionOK, NoStep, Harmless
    <2> HIDE DEF rec
    <2> QED BY <1>2, <2>1, <2>2, <2>3
<1>9. CASE OpenUserKeys(s)
    <2>1. PICK u \in session[s].names :
            Becomes(s, [session[s] EXCEPT !.window = "keys", !.shown = u, !.list = GetUserKeys(u)])
        BY <1>9 DEF OpenUserKeys
    <2> DEFINE list == GetUserKeys(u)
               rec == [session[s] EXCEPT !.window = "keys", !.shown = u, !.list = list]
    <2>2. Becomes(s, rec)
        BY <2>1
    <2>3. list = GetUserKeys(u)
        OBVIOUS
    <2> HIDE DEF list
    <2>4. rec.step.at \in Harmless /\ rec.list = list
        BY <1>1, <1>9 DEF OpenUserKeys, Idle, At, SessionOK, Harmless
    <2> HIDE DEF rec
    <2> QED BY <1>2, <2>2, <2>3, <2>4
<1> QED BY <1>3, <1>4, <1>5, <1>6, <1>7, <1>8, <1>9

(* What its windows ask for spares the key it logged in with.                *)
LEMMA AsksKept ==
    ASSUME AccountsInv, "rename" \notin Asked, NEW s \in Sessions, LoginKept(session[s]),
           \/ SaveEditedUser(s) \/ AddUserFromForm(s) \/ AddKeyToShownUser(s)
           \/ RemoveSelectedUserKey(s) \/ RemoveSelectedUser(s)
           \/ ToggleSelectedUserKeyDisabled(s) \/ ToggleAllUserKeysDisabled(s)
           \/ ToggleOption(s)
    PROVE  \E rec : Becomes(s, rec) /\ LoginKept(rec)
<1>1. /\ SessionOK(session[s]) /\ session[s].list \subseteq User
      /\ session[s].window = "keys" => session[s].shown \in Usernames
      /\ Listed(session[s].list)
    BY SessionIs DEF SessionOK, LoginKept
<1>2. ASSUME NEW step, Asks(s, step), step.at \in Harmless
      PROVE  \E rec : Becomes(s, rec) /\ LoginKept(rec)
    BY <1>2, StepKept DEF Asks
<1>3. ASSUME NEW step, Asks(s, step)
      PROVE  \E rec : /\ Becomes(s, rec) /\ rec.step = step /\ rec.list = session[s].list
                      /\ rec.who = Who(s) /\ rec.key = session[s].key /\ Listed(rec.list)
    <2> DEFINE rec == [session[s] EXCEPT !.step = step]
    <2>1. /\ rec.step = step /\ rec.list = session[s].list
          /\ rec.who = Who(s) /\ rec.key = session[s].key
        BY <1>1 DEF SessionOK, Who
    <2>2. Becomes(s, rec)
        BY <1>3 DEF Asks, Becomes
    <2> HIDE DEF rec
    <2> QED BY <1>1, <2>1, <2>2
<1>4. CASE SaveEditedUser(s)
    <2>1. PICK u \in Usernames, choice \in AccessChoices :
            /\ Asks(s, [at |-> IF u = session[s].shown THEN "access" ELSE "rename",
                        old |-> session[s].shown, user |-> u, choice |-> choice])
            /\ Who(s) = session[s].shown => u = session[s].shown /\ choice.level = kAccessAdmin
        BY <1>4 DEF SaveEditedUser, IsSessionUser
    <2> DEFINE step == [at |-> IF u = session[s].shown THEN "access" ELSE "rename",
                        old |-> session[s].shown, user |-> u, choice |-> choice]
    <2>2. Asks(s, step)
        BY <2>1
    <2>3. step.at = "access" /\ u = session[s].shown /\ step.user = u /\ step.choice = choice
        BY <2>2 DEF Asks
    <2> HIDE DEF step
    <2>4. PICK rec : Becomes(s, rec) /\ rec.step = step /\ rec.who = Who(s) /\ Listed(rec.list)
        BY <1>3, <2>2
    <2>5. LoginKept(rec)
        BY <2>1, <2>3, <2>4 DEF LoginKept, Renaming, Saving
    <2> QED BY <2>4, <2>5
<1>5. CASE AddUserFromForm(s) \/ AddKeyToShownUser(s)
    <2>1. PICK u, k, choice :
            Asks(s, [at |-> "create", user |-> u, key |-> k, choice |-> choice])
        BY <1>5 DEF AddUserFromForm, AddKeyToShownUser
    <2> DEFINE step == [at |-> "create", user |-> u, key |-> k, choice |-> choice]
    <2>2. step.at \in Harmless
        BY DEF Harmless
    <2> QED BY <1>2, <2>1, <2>2
<1>6. CASE RemoveSelectedUserKey(s)
    <2>1. PICK r \in session[s].list : MayRemoveKey(s, r) /\ Asks(s, [at |-> "deleteKey", id |-> r.id])
        BY <1>6 DEF RemoveSelectedUserKey
    <2>2. PICK rec : /\ Becomes(s, rec) /\ rec.step = [at |-> "deleteKey", id |-> r.id]
                     /\ rec.who = Who(s) /\ rec.key = session[s].key /\ Listed(rec.list)
        BY <1>3, <2>1
    <2>3. Spares(rec, r.id)
        BY <1>1, <2>1, <2>2 DEF Spares, Listed, MayRemoveKey, IsSessionUser
    <2>4. LoginKept(rec)
        BY <2>2, <2>3 DEF LoginKept, Renaming, Saving
    <2> QED BY <2>2, <2>4
<1>7. CASE RemoveSelectedUser(s)
    <2>1. PICK u : Who(s) # u /\ Asks(s, [at |-> "deleteUser", user |-> u])
        BY <1>7 DEF RemoveSelectedUser, IsSessionUser
    <2>2. PICK rec : /\ Becomes(s, rec) /\ rec.step = [at |-> "deleteUser", user |-> u]
                     /\ rec.who = Who(s) /\ Listed(rec.list)
        BY <1>3, <2>1
    <2>3. LoginKept(rec)
        BY <2>1, <2>2 DEF LoginKept, Renaming, Saving
    <2> QED BY <2>2, <2>3
<1>8. CASE ToggleSelectedUserKeyDisabled(s)
    <2>1. PICK r \in session[s].list :
            /\ ~r.disabled => ~(IsSessionUser(s, r.username) /\ r.id = session[s].key)
            /\ Asks(s, [at |-> "keyOff", id |-> r.id, off |-> ~r.disabled])
        BY <1>8 DEF ToggleSelectedUserKeyDisabled
    <2> DEFINE off == ~r.disabled
               step == [at |-> "keyOff", id |-> r.id, off |-> off]
    <2>2. /\ Asks(s, step) /\ step.at = "keyOff" /\ step.id = r.id
          /\ step.off => ~(IsSessionUser(s, r.username) /\ r.id = session[s].key)
        <3>1. off => ~(IsSessionUser(s, r.username) /\ r.id = session[s].key)
            BY <2>1
        <3>2. Asks(s, step)
            BY <2>1
        <3> HIDE DEF off
        <3> QED BY <3>1, <3>2
    <2> HIDE DEF off, step
    <2>3. PICK rec : /\ Becomes(s, rec) /\ rec.step = step
                     /\ rec.who = Who(s) /\ rec.key = session[s].key /\ Listed(rec.list)
        BY <1>3, <2>2
    <2>4. step.off => Spares(rec, r.id)
        BY <1>1, <2>2, <2>3 DEF Spares, Listed, IsSessionUser
    <2>5. LoginKept(rec)
        BY <2>2, <2>3, <2>4 DEF LoginKept, Renaming, Saving
    <2> QED BY <2>3, <2>5
<1>9. CASE ToggleAllUserKeysDisabled(s)
    <2> DEFINE any == \E r \in session[s].list : ~r.disabled
               step == [at |-> "keysOff", user |-> session[s].shown, off |-> any]
    <2>1. Asks(s, step) /\ ~(any /\ IsSessionUser(s, session[s].shown))
        BY <1>9 DEF ToggleAllUserKeysDisabled
    <2>2. step.at = "keysOff" /\ (step.off => Who(s) # step.user)
        <3> HIDE DEF any
        <3> QED BY <2>1 DEF IsSessionUser
    <2>3. Asks(s, step)
        BY <2>1
    <2> HIDE DEF step
    <2>4. PICK rec : /\ Becomes(s, rec) /\ rec.step = step
                     /\ rec.who = Who(s) /\ Listed(rec.list)
        BY <1>3, <2>3
    <2>5. LoginKept(rec)
        BY <2>2, <2>4 DEF LoginKept, Renaming, Saving
    <2> QED BY <2>4, <2>5
<1>10. CASE ToggleOption(s)
    <2>1. PICK step : Asks(s, step) /\ step.at = "option"
        BY <1>10 DEF ToggleOption
    <2> QED BY <1>2, <2>1 DEF Harmless
<1> QED BY <1>4, <1>5, <1>6, <1>7, <1>8, <1>9, <1>10

(* The statements after the first.                                           *)
LEMMA StatementsKept ==
    ASSUME AccountsInv, NEW s \in Sessions, LoginKept(session[s]),
           \/ RenameUserLooks(s) \/ RenameUserKeys(s) \/ RenameGrants(s)
           \/ CompareAccess(s) \/ SetUserViewOnly(s) \/ SetUserAccessLevel(s)
           \/ CreateUserLooks(s) \/ CreateUserInserts(s) \/ DeleteUserKey(s)
           \/ DeleteUser(s) \/ DeleteGrants(s)
           \/ SetUserKeyDisabled(s) \/ SetUserKeysDisabled(s) \/ SetServerOption(s)
    PROVE  \E rec : Becomes(s, rec) /\ LoginKept(rec)
<1> DEFINE step == session[s].step
<1>1. /\ SessionOK(session[s]) /\ step \in Steps /\ Listed(session[s].list)
      /\ step.at \notin Renaming
    BY SessionIs DEF LoginKept
<1>2. ASSUME NEW next, GoesOn(s, next), next.at \in Harmless
      PROVE  \E rec : Becomes(s, rec) /\ LoginKept(rec)
    BY <1>2, StepKept DEF GoesOn
<1>3. ASSUME GoesOn(s, NoStep) \/ GoesOn(s, [at |-> "refresh"])
      PROVE  \E rec : Becomes(s, rec) /\ LoginKept(rec)
    BY <1>2, <1>3 DEF Harmless, NoStep
<1>4. ASSUME NEW at \in Saving, step.at \in Saving, GoesOn(s, [step EXCEPT !.at = at])
      PROVE  \E rec : Becomes(s, rec) /\ LoginKept(rec)
    <2> DEFINE next == [step EXCEPT !.at = at]
               rec == [session[s] EXCEPT !.step = next]
    <2>1. step \in [at : Editing, old : Usernames, user : Usernames, choice : GivenAccess]
        BY <1>1, <1>4, StepIs DEF Saving, Editing
    <2>2. next.at = at /\ next.user = step.user /\ next.choice = step.choice
        BY <2>1
    <2>3. Becomes(s, rec)
        BY <1>4 DEF GoesOn, Becomes
    <2> HIDE DEF next
    <2>4. rec.step = next /\ rec.list = session[s].list /\ rec.who = session[s].who
        BY <1>1 DEF SessionOK
    <2> HIDE DEF rec
    <2>5. LoginKept(rec)
        BY <1>1, <1>4, <2>2, <2>4 DEF LoginKept, Saving, Renaming
    <2> QED BY <2>3, <2>5
<1>5. ASSUME SavedUser(s, "refresh")
      PROVE  \E rec : Becomes(s, rec) /\ LoginKept(rec)
    <2> DEFINE rec == [session[s] EXCEPT !.window = "manage", !.shown = Nobody, !.list = {},
                                         !.step = [at |-> "refresh"]]
    <2>1. Becomes(s, rec)
        BY <1>5 DEF SavedUser
    <2>2. rec.step.at \in Harmless /\ rec.list = {}
        BY <1>1 DEF SessionOK, Harmless
    <2> HIDE DEF rec
    <2> QED BY <2>1, <2>2, HarmlessKept, TheirKeysListed
<1>6. ~(RenameUserLooks(s) \/ RenameUserKeys(s) \/ RenameGrants(s))
    BY <1>1 DEF RenameUserLooks, RenameUserKeys, RenameGrants, At, Renaming
<1>7. CASE CompareAccess(s)
    BY <1>4, <1>5, <1>7 DEF CompareAccess, At, Saving
<1>8. CASE SetUserViewOnly(s)
    BY <1>4, <1>8 DEF SetUserViewOnly, At, Saving
<1>9. CASE SetUserAccessLevel(s)
    BY <1>5, <1>9 DEF SetUserAccessLevel
<1>10. CASE CreateUserLooks(s)
    <2> DEFINE next == [step EXCEPT !.at = "insert"]
    <2>1. step \in [at : {"create", "insert"}, user : Usernames, key : Keys, choice : GivenAccess]
        BY <1>1, <1>10, StepIs DEF CreateUserLooks, At
    <2>2. next.at \in Harmless
        BY <2>1 DEF Harmless
    <2>3. GoesOn(s, next) \/ GoesOn(s, [at |-> "refresh"])
        BY <1>10 DEF CreateUserLooks
    <2> HIDE DEF next
    <2> QED BY <1>2, <1>3, <2>2, <2>3
<1>11. CASE DeleteUser(s)
    <2> DEFINE next == [step EXCEPT !.at = "deleteGrants"]
    <2>1. step \in [at : {"deleteUser", "deleteGrants"}, user : Usernames]
        BY <1>1, <1>11, StepIs DEF DeleteUser, At
    <2>2. next.at \in Harmless
        BY <2>1 DEF Harmless
    <2>3. GoesOn(s, next)
        BY <1>11 DEF DeleteUser
    <2> HIDE DEF next
    <2> QED BY <1>2, <2>2, <2>3
<1>12. CASE CreateUserInserts(s) \/ DeleteUserKey(s) \/ DeleteGrants(s) \/ SetUserKeyDisabled(s)
            \/ SetUserKeysDisabled(s) \/ SetServerOption(s)
    BY <1>3, <1>5, <1>12 DEF CreateUserInserts, DeleteUserKey, DeleteGrants, SetUserKeyDisabled,
                             SetUserKeysDisabled, SetServerOption
<1> QED BY <1>6, <1>7, <1>8, <1>9, <1>10, <1>11, <1>12

(* My Keys, and nets.                                                        *)
LEMMA OthersKept ==
    ASSUME AccountsInv, NEW s \in Sessions, LoginKept(session[s]), MyKeys(s) \/ NetsAndAccess(s)
    PROVE  \E rec : Becomes(s, rec) /\ LoginKept(rec)
<1> DEFINE step == session[s].step
<1>1. SessionOK(session[s]) /\ step \in Steps /\ Listed(session[s].list)
    BY SessionIs DEF LoginKept
<1>2. ASSUME NEW rec, Becomes(s, rec), rec.step.at \in Harmless,
             rec.list = session[s].list \/ \E u : rec.list = GetUserKeys(u)
      PROVE  \E r : Becomes(s, r) /\ LoginKept(r)
    <2>1. Listed(rec.list)
        BY <1>1, <1>2, TheirKeysListed
    <2> QED BY <1>2, <2>1, HarmlessKept
<1>3. ASSUME NEW next, GoesOn(s, next) \/ Asks(s, next), next.at \in Harmless
      PROVE  \E rec : Becomes(s, rec) /\ LoginKept(rec)
    BY <1>3, StepKept DEF GoesOn, Asks
<1>4. ASSUME GoesOn(s, NoStep) \/ GoesOn(s, [at |-> "refreshOwn"])
      PROVE  \E rec : Becomes(s, rec) /\ LoginKept(rec)
    BY <1>3, <1>4 DEF Harmless, NoStep
<1>5. ASSUME NEW a, RefreshNetAccessNets(s, a)
      PROVE  \E rec : Becomes(s, rec) /\ LoginKept(rec)
    <2> DEFINE offered == {n \in nets : IsAdmin(a) \/ IsGranted(a, n)}
               rec == [session[s] EXCEPT !.window = "nets", !.net = NoNet, !.names = {},
                                         !.step = NoStep, !.offered = offered]
    <2>1. Becomes(s, rec)
        BY <1>5 DEF RefreshNetAccessNets
    <2> HIDE DEF offered
    <2>2. rec.step.at \in Harmless /\ rec.list = session[s].list
        BY <1>1 DEF SessionOK, NoStep, Harmless
    <2> HIDE DEF rec
    <2> QED BY <1>2, <2>1, <2>2
<1>6. CASE OpenMyKeys(s)
    <2> DEFINE list == GetUserKeys(Who(s))
               rec == [session[s] EXCEPT !.window = "myKeys", !.list = list]
    <2>1. Becomes(s, rec) /\ \E u : list = GetUserKeys(u)
        BY <1>6 DEF OpenMyKeys
    <2> HIDE DEF list
    <2>2. rec.step.at \in Harmless /\ rec.list = list
        BY <1>1, <1>6 DEF OpenMyKeys, Idle, At, SessionOK, Harmless
    <2> HIDE DEF rec
    <2> QED BY <1>2, <2>1, <2>2
<1>7. CASE RefreshMyKeys(s)
    <2> DEFINE list == GetUserKeys(Who(s))
               rec == [session[s] EXCEPT !.list = list, !.step = NoStep]
    <2>1. Becomes(s, rec) /\ \E u : list = GetUserKeys(u)
        BY <1>7 DEF RefreshMyKeys
    <2> HIDE DEF list
    <2>2. rec.step.at \in Harmless /\ rec.list = list
        BY <1>1 DEF SessionOK, NoStep, Harmless
    <2> HIDE DEF rec
    <2> QED BY <1>2, <2>1, <2>2
<1>8. CASE AddMyKey(s) \/ RemoveMyKey(s) \/ ToggleNetAccessUser(s) \/ CreateNetSubmit(s)
           \/ ConfirmDeleteNet(s)
    <2>1. CASE AddMyKey(s)
        <3>1. PICK k : Asks(s, [at |-> "addOwn", key |-> k])
            BY <2>1 DEF AddMyKey
        <3>2. [at |-> "addOwn", key |-> k].at \in Harmless
            BY DEF Harmless
        <3> QED BY <1>3, <3>1, <3>2
    <2>2. CASE RemoveMyKey(s)
        <3>1. PICK r : Asks(s, [at |-> "removeOwn", id |-> r.id])
            BY <2>2 DEF RemoveMyKey
        <3>2. [at |-> "removeOwn", id |-> r.id].at \in Harmless
            BY DEF Harmless
        <3> QED BY <1>3, <3>1, <3>2
    <2>3. CASE ToggleNetAccessUser(s)
        <3> DEFINE access == LoadUserAccess(Who(s))
        <3>1. PICK u : Asks(s, [at |-> "grant", user |-> u, access |-> access])
            BY <2>3 DEF ToggleNetAccessUser
        <3> HIDE DEF access
        <3>2. [at |-> "grant", user |-> u, access |-> access].at \in Harmless
            BY DEF Harmless
        <3> QED BY <1>3, <3>1, <3>2
    <2>4. CASE CreateNetSubmit(s)
        <3>1. PICK n : Asks(s, [at |-> "createNet", net |-> n])
            BY <2>4 DEF CreateNetSubmit
        <3>2. [at |-> "createNet", net |-> n].at \in Harmless
            BY DEF Harmless
        <3> QED BY <1>3, <3>1, <3>2
    <2>5. CASE ConfirmDeleteNet(s)
        <3>1. PICK n : Asks(s, [at |-> "deleteNet", net |-> n])
            BY <2>5 DEF ConfirmDeleteNet
        <3>2. [at |-> "deleteNet", net |-> n].at \in Harmless
            BY DEF Harmless
        <3> QED BY <1>3, <3>1, <3>2
    <2> QED BY <1>8, <2>1, <2>2, <2>3, <2>4, <2>5
<1>9. CASE AddMyKeyTransaction(s) \/ RemoveMyKeyTransaction(s) \/ GiveNewNetToCreator(s)
           \/ DeleteNet(s)
    BY <1>4, <1>9 DEF AddMyKeyTransaction, RemoveMyKeyTransaction, GiveNewNetToCreator, DeleteNet
<1>10. CASE OpenNetAccess(s) \/ BackOutOfNetAccess(s)
    BY <1>5, <1>10 DEF OpenNetAccess, BackOutOfNetAccess
<1>11. CASE ChooseNetAccessNet(s)
    <2> DEFINE a == LoadUserAccess(Who(s))
    <2>1. PICK n \in session[s].offered :
            Becomes(s, [session[s] EXCEPT !.window = "people", !.net = {n},
                                          !.names = Grantable(a, n)])
        BY <1>11 DEF ChooseNetAccessNet
    <2> DEFINE names == Grantable(a, n)
               rec == [session[s] EXCEPT !.window = "people", !.net = {n}, !.names = names]
    <2>2. Becomes(s, rec)
        BY <2>1
    <2> HIDE DEF names
    <2>3. rec.step.at \in Harmless /\ rec.list = session[s].list
        BY <1>1, <1>11 DEF ChooseNetAccessNet, Idle, At, SessionOK, Harmless
    <2> HIDE DEF rec
    <2> QED BY <1>2, <2>2, <2>3
<1>12. CASE GrantTransaction(s)
    <2> DEFINE n == CHOOSE n \in Nets : session[s].net = {n}
               names == Grantable(step.access, n)
               rec == [session[s] EXCEPT !.names = names, !.step = NoStep]
    <2>1. \/ Becomes(s, rec)
          \/ RefreshNetAccessNets(s, LoadUserAccess(Who(s)))
        BY <1>12 DEF GrantTransaction
    <2> HIDE DEF names
    <2>2. rec.step.at \in Harmless /\ rec.list = session[s].list
        BY <1>1 DEF SessionOK, NoStep, Harmless
    <2> HIDE DEF rec
    <2> QED BY <1>2, <1>5, <2>1, <2>2
<1>13. CASE CreateNet(s)
    <2> DEFINE next == [step EXCEPT !.at = "giveNet"]
    <2>1. step \in [at : {"createNet", "giveNet", "deleteNet"}, net : Nets]
        BY <1>1, <1>13, StepIs DEF CreateNet, At
    <2>2. next.at \in Harmless
        BY <2>1 DEF Harmless
    <2>3. GoesOn(s, next) \/ GoesOn(s, NoStep)
        BY <1>13 DEF CreateNet
    <2> HIDE DEF next
    <2> QED BY <1>3, <1>4, <2>2, <2>3
<1> QED BY <1>6, <1>7, <1>8, <1>9, <1>10, <1>11, <1>12, <1>13 DEF MyKeys, NetsAndAccess

LEMMA SessionsKept ==
    ASSUME AccountsInv, LoginsKept, "rename" \notin Asked, NEW s \in Sessions,
           \/ AuthPubkeyCallback(s) \/ RunInteractiveSession(s) \/ StartAtConsole(s)
           \/ Ends(s) \/ Back(s)
           \/ ManageUsers(s) \/ MyKeys(s) \/ NetsAndAccess(s)
    PROVE  \E rec : Becomes(s, rec) /\ LoginKept(rec)
<1>1. LoginKept(session[s])
    BY DEF LoginsKept
<1> QED BY <1>1, WindowsKept, AsksKept, StatementsKept, OthersKept DEF ManageUsers

LEMMA LoginsStayKept ==
    ASSUME AccountsInv, LoginsKept, "rename" \notin Asked, [Next]_vars
    PROVE  LoginsKept'
<1>1. CASE UNCHANGED vars
    BY <1>1 DEF LoginsKept, LoginKept, Listed, Spares, vars
<1>2. CASE Next
    <2>1. PICK s \in Sessions :
            \/ AuthPubkeyCallback(s) \/ RunInteractiveSession(s) \/ StartAtConsole(s)
            \/ Ends(s) \/ Back(s)
            \/ ManageUsers(s) \/ MyKeys(s) \/ NetsAndAccess(s)
        BY <1>2 DEF Next
    <2>2. PICK rec : Becomes(s, rec) /\ LoginKept(rec)
        BY <2>1, SessionsKept
    <2>3. RowsStay /\ OwnersStay
        <3>1. ~RenameUserKeys(s)
            BY DEF LoginsKept, LoginKept, Renaming, RenameUserKeys, At
        <3> QED BY <2>1, <3>1, UsersEvolve
    <2>4. DOMAIN session = Sessions
        BY DEF AccountsInv
    <2>5. ASSUME NEW t \in Sessions PROVE LoginKept(session[t])'
        <3>1. PICK new : /\ new = session'[t] /\ LoginKept(new)
            BY <2>2, <2>4 DEF Becomes, LoginsKept
        <3>2. LoginKept(new)'
            BY <2>3, <3>1, KeptAsRowsChange
        <3> QED BY <3>1, <3>2 DEF LoginKept, Listed, Spares
    <2> QED BY <2>5 DEF LoginsKept
<1> QED BY <1>1, <1>2

(* What an Admin's own step in Manage Users leaves of the key they logged in *)
(* with.                                                                     *)
LEMMA OwnStepKeepsLogin ==
    ASSUME AccountsInv, NEW s \in Sessions, LoginKept(session[s]), LoginStands(s), ManageUsers(s)
    PROVE  \E r \in users' : /\ r.id = session[s].key /\ r.username = Who(s)
                             /\ ~r.disabled /\ r.level = kAccessAdmin
<1> DEFINE step == session[s].step
<1>1. PICK r \in users : /\ r.id = session[s].key /\ r.username = Who(s)
                         /\ ~r.disabled /\ r.level = kAccessAdmin
    BY DEF LoginStands
<1>2. users \subseteq User /\ r \in User
    BY SessionIs
<1>3. CASE ~Changing(s)
    BY <1>1, <1>3, OnlyTheseChangeUsers
<1>4. ~RenameUserKeys(s)
    BY DEF RenameUserKeys, LoginKept, Renaming, At
<1>5. CASE SetUserViewOnly(s)
    <2> DEFINE f(q) == IF q.username = step.user THEN [q EXCEPT !.viewOnly = step.choice.viewOnly]
                       ELSE q
    <2>1. users' = {f(q) : q \in users}
        BY <1>5 DEF SetUserViewOnly
    <2>2. f(r) \in users'
        BY <2>1
    <2>3. /\ f(r).id = r.id /\ f(r).username = r.username /\ f(r).disabled = r.disabled
          /\ f(r).level = r.level
        BY <1>2 DEF User
    <2> HIDE DEF f
    <2> QED BY <1>1, <2>2, <2>3
<1>6. CASE SetUserAccessLevel(s)
    <2> DEFINE f(q) == IF q.username = step.user THEN [q EXCEPT !.level = step.choice.level]
                       ELSE q
    <2>1. users' = {f(q) : q \in users}
        BY <1>6 DEF SetUserAccessLevel
    <2>2. f(r) \in users'
        BY <2>1
    <2>3. step.user = Who(s) => step.choice.level = kAccessAdmin
        BY <1>6 DEF SetUserAccessLevel, At, LoginKept, Saving, Who
    <2>4. /\ f(r).id = r.id /\ f(r).username = r.username /\ f(r).disabled = r.disabled
          /\ f(r).level = kAccessAdmin
        BY <1>1, <1>2, <2>3 DEF User
    <2> HIDE DEF f
    <2> QED BY <1>1, <2>2, <2>4
<1>7. CASE SetUserKeyDisabled(s)
    <2> DEFINE f(q) == IF q.id = step.id THEN [q EXCEPT !.disabled = step.off] ELSE q
    <2>1. users' = {f(q) : q \in users}
        BY <1>7 DEF SetUserKeyDisabled
    <2>2. f(r) \in users'
        BY <2>1
    <2>3. step.off => step.id # r.id
        BY <1>1, <1>7 DEF SetUserKeyDisabled, At, LoginKept, Spares, Who
    <2>4. /\ f(r).id = r.id /\ f(r).username = r.username /\ ~f(r).disabled
          /\ f(r).level = r.level
        BY <1>1, <1>2, <2>3 DEF User
    <2> HIDE DEF f
    <2> QED BY <1>1, <2>2, <2>4
<1>8. CASE SetUserKeysDisabled(s)
    <2> DEFINE f(q) == IF q.username = step.user THEN [q EXCEPT !.disabled = step.off] ELSE q
    <2>1. users' = {f(q) : q \in users}
        BY <1>8 DEF SetUserKeysDisabled
    <2>2. f(r) \in users'
        BY <2>1
    <2>3. step.off => step.user # r.username
        BY <1>1, <1>8 DEF SetUserKeysDisabled, At, LoginKept, Who
    <2>4. /\ f(r).id = r.id /\ f(r).username = r.username /\ ~f(r).disabled
          /\ f(r).level = r.level
        BY <1>1, <1>2, <2>3 DEF User
    <2> HIDE DEF f
    <2> QED BY <1>1, <2>2, <2>4
<1>9. CASE DeleteUserKey(s)
    <2>1. step.id # r.id
        BY <1>1, <1>9 DEF DeleteUserKey, At, LoginKept, Spares, Who
    <2> QED BY <1>1, <1>9, <2>1 DEF DeleteUserKey
<1>10. CASE DeleteUser(s)
    <2>1. step.user # r.username
        BY <1>1, <1>10 DEF DeleteUser, At, LoginKept, Who
    <2> QED BY <1>1, <1>10, <2>1 DEF DeleteUser
<1>11. CASE CreateUserInserts(s)
    BY <1>1, <1>11 DEF CreateUserInserts
<1>12. CASE AddMyKeyTransaction(s)
    BY <1>1, <1>12 DEF AddMyKeyTransaction
<1>13. ~RemoveMyKeyTransaction(s)
    BY DEF ManageUsers, ShowManageUsersPage, RefuseNonAdmin, RefreshUsers, OpenUserKeys,
           SaveEditedUser, RenameUserLooks, RenameUserKeys, RenameGrants, CompareAccess,
           SetUserViewOnly, SetUserAccessLevel, AddUserFromForm, AddKeyToShownUser,
           CreateUserLooks, CreateUserInserts, RemoveSelectedUserKey, DeleteUserKey,
           RemoveSelectedUser, DeleteUser, DeleteGrants, ToggleSelectedUserKeyDisabled,
           SetUserKeyDisabled, ToggleAllUserKeysDisabled, SetUserKeysDisabled, ToggleOption,
           SetServerOption, RemoveMyKeyTransaction, Idle, At
<1> QED BY <1>3, <1>4, <1>5, <1>6, <1>7, <1>8, <1>9, <1>10, <1>11, <1>12, <1>13 DEF Changing

(* Who a session is, and the key it logged in with, Manage Users leaves.     *)
LEMMA ManageKeepsWho ==
    ASSUME AccountsInv, NEW s \in Sessions, ManageUsers(s)
    PROVE  session'[s].key = session[s].key /\ session'[s].who = session[s].who
<1>1. SessionOK(session[s]) /\ DOMAIN session = Sessions
    BY SessionIs DEF AccountsInv
<1>2. ASSUME NEW step, session' = [session EXCEPT ![s].step = step]
      PROVE  session'[s].key = session[s].key /\ session'[s].who = session[s].who
    BY <1>1, <1>2 DEF SessionOK
<1>3. CASE ShowManageUsersPage(s) \/ RefuseNonAdmin(s) \/ RefreshUsers(s) \/ OpenUserKeys(s)
    <2>1. CASE ShowManageUsersPage(s) \/ RefuseNonAdmin(s)
        BY <1>1, <2>1 DEF ShowManageUsersPage, RefuseNonAdmin, Becomes, SessionOK
    <2>2. ASSUME NEW rec, Becomes(s, rec), rec.key = session[s].key, rec.who = session[s].who
          PROVE  session'[s].key = session[s].key /\ session'[s].who = session[s].who
        BY <1>1, <2>2 DEF Becomes
    <2>3. CASE RefreshUsers(s)
        <3> DEFINE names == {r.username : r \in users}
                   list == IF session[s].window = "keys" THEN GetUserKeys(session[s].shown) ELSE {}
                   rec == [session[s] EXCEPT !.names = names, !.list = list, !.step = NoStep]
        <3>1. Becomes(s, rec)
            BY <2>3 DEF RefreshUsers
        <3> HIDE DEF names, list
        <3>2. rec.key = session[s].key /\ rec.who = session[s].who
            BY <1>1 DEF SessionOK
        <3> HIDE DEF rec
        <3> QED BY <2>2, <3>1, <3>2
    <2>4. CASE OpenUserKeys(s)
        <3>1. PICK u, list : Becomes(s, [session[s] EXCEPT !.window = "keys", !.shown = u,
                                                           !.list = list])
            BY <2>4 DEF OpenUserKeys
        <3> DEFINE rec == [session[s] EXCEPT !.window = "keys", !.shown = u, !.list = list]
        <3>2. rec.key = session[s].key /\ rec.who = session[s].who
            BY <1>1 DEF SessionOK
        <3> HIDE DEF rec
        <3> QED BY <2>2, <3>1, <3>2 DEF rec
    <2> QED BY <1>3, <2>1, <2>3, <2>4
<1>4. ASSUME SavedUser(s, "refresh")
      PROVE  session'[s].key = session[s].key /\ session'[s].who = session[s].who
    BY <1>1, <1>4 DEF SavedUser, Becomes, SessionOK
<1>5. CASE SaveEditedUser(s) \/ AddUserFromForm(s) \/ AddKeyToShownUser(s)
            \/ RemoveSelectedUserKey(s) \/ RemoveSelectedUser(s)
            \/ ToggleSelectedUserKeyDisabled(s) \/ ToggleAllUserKeysDisabled(s) \/ ToggleOption(s)
    BY <1>2, <1>5
    DEF Asks, SaveEditedUser, AddUserFromForm, AddKeyToShownUser, RemoveSelectedUserKey,
        RemoveSelectedUser, ToggleSelectedUserKeyDisabled, ToggleAllUserKeysDisabled, ToggleOption
<1>6. CASE RenameUserLooks(s) \/ RenameUserKeys(s) \/ RenameGrants(s)
            \/ CompareAccess(s) \/ SetUserViewOnly(s) \/ SetUserAccessLevel(s)
            \/ CreateUserLooks(s) \/ CreateUserInserts(s) \/ DeleteUserKey(s)
            \/ DeleteUser(s) \/ DeleteGrants(s)
            \/ SetUserKeyDisabled(s) \/ SetUserKeysDisabled(s) \/ SetServerOption(s)
    BY <1>2, <1>4, <1>6
    DEF GoesOn, RenameUserLooks, RenameUserKeys, RenameGrants, CompareAccess, SetUserViewOnly,
        SetUserAccessLevel, CreateUserLooks, CreateUserInserts, DeleteUserKey, DeleteUser,
        DeleteGrants, SetUserKeyDisabled, SetUserKeysDisabled, SetServerOption
<1> QED BY <1>3, <1>5, <1>6 DEF ManageUsers

(* An Admin does not lock themself out, nor make themself less, from Manage  *)
(* Users, where users are not renamed: as long as the key they logged in     *)
(* with is theirs, works and is an Admin's, no step of their own session     *)
(* changes that.  A renaming by another Admin can cross a step already asked *)
(* for, so that it reaches the wrong user; that is why it is assumed away.   *)
THEOREM NoAdminLocksThemselfOut ==
    ASSUME "rename" \notin Asked
    PROVE  Spec => NoOneLocksThemselfOut
<1>1. Init => LoginsKept
    <2> SUFFICES ASSUME Init PROVE LoginsKept
        OBVIOUS
    <2>1. Off.step.at \in Harmless /\ Off.list = {}
        BY DEF Off, NoStep, Harmless
    <2>2. LoginKept(Off)
        BY <2>1, InitOK, TheirKeysListed, HarmlessKept
    <2> QED BY <2>2 DEF Init, LoginsKept
<1>2. AccountsInv /\ LoginsKept /\ [Next]_vars => LoginsKept'
    BY LoginsStayKept
<1>3. ASSUME AccountsInv, LoginsKept, NEW s \in Sessions, LoginStands(s), ManageUsers(s)
      PROVE  LoginStands(s)'
    BY <1>3, OwnStepKeepsLogin, ManageKeepsWho DEF LoginsKept, LoginStands, Who
<1>4. AccountsInv /\ LoginsKept /\ [Next]_vars =>
        [\A s \in Sessions : LoginStands(s) /\ ~LoginStands(s)' => ~ManageUsers(s)]_vars
    BY <1>3
<1> QED BY <1>1, <1>2, <1>4, AccountsInvAlways, PTL DEF Spec, NoOneLocksThemselfOut

=============================================================================
