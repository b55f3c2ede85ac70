------------------------------ MODULE Accounts ------------------------------
(***************************************************************************)
(* The users of a shared QuickLogger server, their keys and the nets they   *)
(* have been given, changed by several sessions at once: Manage Users and   *)
(* its Edit User window, My Keys, Net Access, and adding and deleting nets. *)
(*                                                                         *)
(* Every statement outside a WriteTransaction is a step of its own, after   *)
(* which any other session may run; a WriteTransaction is one step.  What a *)
(* window lists is a copy, made when it was last refreshed.                 *)
(***************************************************************************)
EXTENDS Integers, FiniteSets, FiniteSetsExt

CONSTANTS
    Sessions,         \* interactive sessions: the console's and SSH ones
    Usernames,        \* usernames, told apart ignoring case
    Keys,             \* public keys, whatever their comment
    Nets,             \* recurring nets, each with its id
    InitialUsers,     \* what the tables hold to begin with
    InitialGrants,
    InitialNets,
    InitialOptions,
    Asked,            \* bound: what the sessions are asked to do, by its first statement
    Console,          \* who a session at the local console is
    Nobody,           \* who a session that is not logged in is
    Picked,           \* bound: the choices of Access that admins pick
    Added,            \* bound: the keys that are added
    kMaxKeysPerUser,
    MaxId             \* bound: the last id of a row of users

VARIABLES
    users,     \* the table users
    lastId,    \* the last id given to one of its rows
    grants,    \* net_grants: pairs of a username and a net
    nets,      \* which nets exist
    options,   \* server_options that are on
    session    \* each session

vars == <<users, lastId, grants, nets, options, session>>

kAccessUser == 0
kAccessNetAdmin == 1
kAccessAdmin == 2
Levels == {kAccessUser, kAccessNetAdmin, kAccessAdmin}
kOptionSelfServiceKeys == "self_service_keys"
kOptionRestrictedNets == "restricted_nets"
Options == {kOptionSelfServiceKeys, kOptionRestrictedNets}

User == [id : 1..MaxId, username : Usernames, key : Keys, level : Levels,
         viewOnly : BOOLEAN, disabled : BOOLEAN, byUser : BOOLEAN]

ASSUME AccountsAssumption ==
    /\ Console \notin Usernames /\ Nobody \notin Usernames \cup {Console}
    /\ InitialNets \subseteq Nets /\ InitialGrants \subseteq Usernames \X InitialNets
    /\ InitialOptions \subseteq Options
    /\ kMaxKeysPerUser \in Nat /\ MaxId \in Nat
    /\ InitialUsers \subseteq User
    /\ \A r, q \in InitialUsers :
        /\ r.id = q.id => r = q
        /\ r.username = q.username => r.level = q.level /\ r.viewOnly = q.viewOnly
        /\ r.key = q.key => r.username # q.username \/ r = q

(* The choices of Access in Add User and Edit User.                         *)
AccessChoices == {c \in {[level |-> kAccessUser, viewOnly |-> TRUE]}
                        \cup {[level |-> l, viewOnly |-> FALSE] : l \in Levels} :
                      c \in Picked}

(* What a session holds:                                                    *)
(*   who, key    the user and the key's id it logged in with                *)
(*   viewOnly    AppState::view_only_user, as of the login                  *)
(*   admin       AppState::is_admin_user                                    *)
(*   window      where it is                                                *)
(*   names       the usernames Manage Users lists; for Net Access, who can  *)
(*               be given net                                               *)
(*   shown, list whose keys a window shows, and those keys                  *)
(*   offered     the nets Net Access lists                                  *)
(*   net         the net chosen there                                       *)
(*   step        the statement its handler runs next, and on what           *)
Windows == {"starting", "main", "manage", "keys", "myKeys", "nets", "people"}
NoStep == [at |-> "idle"]
NoNet == {}
Off == [who |-> Nobody, key |-> 0, viewOnly |-> FALSE, admin |-> FALSE, window |-> "main",
        names |-> {}, shown |-> Nobody, list |-> {}, offered |-> {}, net |-> NoNet,
        step |-> NoStep]

Init ==
    /\ users = InitialUsers
    /\ lastId = Max({r.id : r \in users} \cup {0})
    /\ grants = InitialGrants
    /\ nets = InitialNets
    /\ options = InitialOptions
    /\ session = [s \in Sessions |-> Off]

-----------------------------------------------------------------------------
(* The tables, as Database reads them.                                      *)

GetUserKeys(u) == {r \in users : r.username = u}

GetUserAccessLevel(u) ==
    CHOOSE l \in Levels : /\ l = kAccessUser \/ \E r \in GetUserKeys(u) : r.level = l
                          /\ \A r \in GetUserKeys(u) : r.level <= l

IsUserViewOnly(u) == \E r \in GetUserKeys(u) : r.viewOnly

SamePublicKey(r, k) == r.key = k

UserOfKey(k) == {r.username : r \in {q \in users : SamePublicKey(q, k)}}

GetNetGrants(u) == {n \in Nets : <<u, n>> \in grants}

(* LoadUserAccess: what a user may do, as of now.                            *)
LoadUserAccess(u) ==
    IF u = Console
    THEN [console |-> TRUE, viewOnly |-> FALSE, level |-> kAccessAdmin,
          restricted |-> kOptionRestrictedNets \in options, grants |-> {}]
    ELSE [console |-> FALSE, viewOnly |-> IsUserViewOnly(u), level |-> GetUserAccessLevel(u),
          restricted |-> kOptionRestrictedNets \in options, grants |-> GetNetGrants(u)]

IsAdmin(a) == a.console \/ a.level >= kAccessAdmin
IsNetAdmin(a) == a.console \/ a.level >= kAccessNetAdmin
IsGranted(a, n) == n \in a.grants

(* PowerOn, for recurring nets: kManage.                                     *)
MayManage(a, n) ==
    ~a.viewOnly /\ (IsAdmin(a) \/ ~a.restricted \/ (IsGranted(a, n) /\ IsNetAdmin(a)))

CanCreateNets(a) == ~a.viewOnly /\ (~a.restricted \/ IsNetAdmin(a))

CanGrant(a, n, level) ==
    /\ ~a.viewOnly
    /\ IF IsAdmin(a) THEN level \in {kAccessUser, kAccessNetAdmin}
       ELSE a.level = kAccessNetAdmin /\ IsGranted(a, n) /\ level = kAccessUser

-----------------------------------------------------------------------------
(* Sessions.                                                                *)

Who(s) == session[s].who
At(s, step) == session[s].step.at = step
Idle(s, window) == session[s].window = window /\ At(s, "idle") /\ Who(s) # Nobody

Becomes(s, rec) == session' = [session EXCEPT ![s] = rec]
Asks(s, step) == step.at \in Asked /\ session' = [session EXCEPT ![s].step = step]
GoesOn(s, step) == session' = [session EXCEPT ![s].step = step]
Tables == <<users, lastId, grants, nets, options>>

IsConsole(s) == Who(s) = Console
IsSessionUser(s, u) == Who(s) = u

(* RefuseNonAdmin, where it does not refuse.                                 *)
IsAdminNow(s) == IsConsole(s) \/ GetUserAccessLevel(Who(s)) >= kAccessAdmin

AuthPubkeyCallback(s) ==
    /\ Who(s) = Nobody
    /\ \E r \in users : /\ ~r.disabled
                        /\ Becomes(s, [Off EXCEPT !.who = r.username, !.key = r.id,
                                                  !.window = "starting"])
    /\ UNCHANGED Tables

RunInteractiveSession(s) ==
    /\ Who(s) \in Usernames /\ session[s].window = "starting"
    /\ Becomes(s, [session[s] EXCEPT !.window = "main",
                       !.viewOnly = IsUserViewOnly(Who(s)),
                       !.admin = GetUserAccessLevel(Who(s)) >= kAccessAdmin])
    /\ UNCHANGED Tables

StartAtConsole(s) ==
    /\ Who(s) = Nobody /\ "console" \in Asked
    /\ \A t \in Sessions : ~IsConsole(t)
    /\ Becomes(s, [Off EXCEPT !.who = Console])
    /\ UNCHANGED Tables

(* Leaving, or a connection lost between any two statements.                 *)
Ends(s) ==
    /\ Who(s) # Nobody /\ "end" \in Asked
    /\ Becomes(s, Off)
    /\ UNCHANGED Tables

Closes(s, window) ==
    Becomes(s, [session[s] EXCEPT !.window = window, !.shown = Nobody, !.list = {},
                    !.net = NoNet, !.step = NoStep,
                    !.names = IF window = "manage" THEN @ ELSE {},
                    !.offered = {}])

Back(s) ==
    /\ \/ Idle(s, "manage") /\ Closes(s, "main")
       \/ Idle(s, "keys") /\ Closes(s, "manage")
       \/ Idle(s, "myKeys") /\ Closes(s, "main")
       \/ Idle(s, "nets") /\ Closes(s, "main")
    /\ UNCHANGED Tables

-----------------------------------------------------------------------------
(* Manage Users.                                                            *)

RefreshUsers(s) ==
    /\ At(s, "refresh")
    /\ Becomes(s, [session[s] EXCEPT
                       !.names = {r.username : r \in users},
                       !.list = IF session[s].window = "keys" THEN GetUserKeys(session[s].shown)
                                ELSE {},
                       !.step = NoStep])
    /\ UNCHANGED Tables

ShowManageUsersPage(s) ==
    /\ Idle(s, "main")
    /\ IsConsole(s) \/ session[s].admin
    /\ IsAdminNow(s)
    /\ Becomes(s, [session[s] EXCEPT !.window = "manage", !.step = [at |-> "refresh"]])
    /\ UNCHANGED Tables

(* Someone who is not an admin any more is refused whatever they ask for.    *)
RefuseNonAdmin(s) ==
    /\ Idle(s, "main") \/ Idle(s, "manage") \/ Idle(s, "keys")
    /\ session[s].admin /\ ~IsAdminNow(s)
    /\ Becomes(s, [session[s] EXCEPT !.admin = FALSE])
    /\ UNCHANGED Tables

OpenUserKeys(s) ==
    /\ Idle(s, "manage")
    /\ \E u \in session[s].names :
        Becomes(s, [session[s] EXCEPT !.window = "keys", !.shown = u, !.list = GetUserKeys(u)])
    /\ UNCHANGED Tables

(* Edit User's F2.                                                           *)
SaveEditedUser(s) ==
    /\ Idle(s, "keys") /\ IsAdminNow(s)
    /\ \E u \in Usernames, choice \in AccessChoices :
        LET old == session[s].shown
        IN  /\ IsSessionUser(s, old) => u = old /\ choice.level = kAccessAdmin
            /\ Asks(s, [at |-> IF u = old THEN "access" ELSE "rename",
                          old |-> old, user |-> u, choice |-> choice])
    /\ UNCHANGED Tables

(* RenameUser: its look for someone else of that name, then two statements.  *)
RenameUserLooks(s) ==
    /\ At(s, "rename")
    /\ IF GetUserKeys(session[s].step.user) = {}
       THEN GoesOn(s, [session[s].step EXCEPT !.at = "renameUsers"])
       ELSE GoesOn(s, NoStep)
    /\ UNCHANGED Tables

Renamed(u, old, new) == IF u = old THEN new ELSE u

RenameUserKeys(s) ==
    /\ At(s, "renameUsers")
    /\ LET step == session[s].step
       IN  users' = {[r EXCEPT !.username = Renamed(@, step.old, step.user)] : r \in users}
    /\ GoesOn(s, [session[s].step EXCEPT !.at = "renameGrants"])
    /\ UNCHANGED <<lastId, grants, nets, options>>

(* The primary key is the pair: the new name may not have the net yet.       *)
RenameGrants(s) ==
    /\ At(s, "renameGrants")
    /\ LET step == session[s].step
       IN  IF \E n \in Nets : {<<step.old, n>>, <<step.user, n>>} \subseteq grants
           THEN GoesOn(s, NoStep) /\ UNCHANGED grants
           ELSE /\ grants' = {<<Renamed(g[1], step.old, step.user), g[2]>> : g \in grants}
                /\ GoesOn(s, [step EXCEPT !.at = "access"])
    /\ UNCHANGED <<users, lastId, nets, options>>

SavedUser(s, after) ==
    Becomes(s, [session[s] EXCEPT !.window = "manage", !.shown = Nobody, !.list = {},
                                  !.step = [at |-> after]])

CompareAccess(s) ==
    /\ At(s, "access")
    /\ LET step == session[s].step
       IN  IF \/ IsUserViewOnly(step.user) # step.choice.viewOnly
              \/ GetUserAccessLevel(step.user) # step.choice.level
           THEN GoesOn(s, [step EXCEPT !.at = "viewOnly"])
           ELSE SavedUser(s, "refresh")
    /\ UNCHANGED Tables

SetUserViewOnly(s) ==
    /\ At(s, "viewOnly")
    /\ LET step == session[s].step
       IN  users' = {IF r.username = step.user THEN [r EXCEPT !.viewOnly = step.choice.viewOnly]
                     ELSE r : r \in users}
    /\ GoesOn(s, [session[s].step EXCEPT !.at = "level"])
    /\ UNCHANGED <<lastId, grants, nets, options>>

SetUserAccessLevel(s) ==
    /\ At(s, "level")
    /\ LET step == session[s].step
       IN  users' = {IF r.username = step.user THEN [r EXCEPT !.level = step.choice.level]
                     ELSE r : r \in users}
    /\ SavedUser(s, "refresh")
    /\ UNCHANGED <<lastId, grants, nets, options>>

(* A new key takes the access its username has, if anyone has it by then.    *)
NewRow(u, k, choice, byUser) ==
    LET theirs == GetUserKeys(u)
        access == IF theirs = {} THEN choice
                  ELSE LET r == CHOOSE r \in theirs : \A q \in theirs : r.id <= q.id
                       IN  [level |-> r.level, viewOnly |-> r.viewOnly]
    IN  [id |-> lastId + 1, username |-> u, key |-> k, level |-> access.level,
         viewOnly |-> access.viewOnly, disabled |-> FALSE, byUser |-> byUser]

HasKey(u, k) == \E r \in GetUserKeys(u) : SamePublicKey(r, k)

(* Add User's F2, and Edit User's F4, which adds a key to whoever it shows.  *)
AddUserFromForm(s) ==
    /\ Idle(s, "manage") /\ IsAdminNow(s) /\ lastId < MaxId
    /\ \E u \in Usernames, k \in Keys \cap Added, choice \in AccessChoices :
        Asks(s, [at |-> "create", user |-> u, key |-> k, choice |-> choice])
    /\ UNCHANGED Tables

AddKeyToShownUser(s) ==
    /\ Idle(s, "keys") /\ IsAdminNow(s) /\ lastId < MaxId
    /\ \E k \in Keys \cap Added :
        Asks(s, [at |-> "create", user |-> session[s].shown, key |-> k,
                   choice |-> [level |-> kAccessUser, viewOnly |-> FALSE]])
    /\ UNCHANGED Tables

CreateUserLooks(s) ==
    /\ At(s, "create")
    /\ LET step == session[s].step
       IN  GoesOn(s, IF HasKey(step.user, step.key) THEN [at |-> "refresh"]
                     ELSE [step EXCEPT !.at = "insert"])
    /\ UNCHANGED Tables

CreateUserInserts(s) ==
    /\ At(s, "insert") /\ lastId < MaxId
    /\ LET step == session[s].step
       IN  users' = users \cup {NewRow(step.user, step.key, step.choice, FALSE)}
    /\ lastId' = lastId + 1
    /\ GoesOn(s, [at |-> "refresh"])
    /\ UNCHANGED <<grants, nets, options>>

RefusesLastKeyOnly(s, r) ==  \* mutant: the key in use is not told apart
    IsSessionUser(s, r.username) => Cardinality(session[s].list) # 1
MayRemoveKey(s, r) ==
    IsSessionUser(s, r.username) => r.id # session[s].key /\ Cardinality(session[s].list) # 1

RemoveSelectedUserKey(s) ==
    /\ Idle(s, "keys") /\ IsAdminNow(s)
    /\ \E r \in session[s].list :
        /\ MayRemoveKey(s, r)
        /\ Asks(s, [at |-> "deleteKey", id |-> r.id])
    /\ UNCHANGED Tables

DeleteUserKey(s) ==
    /\ At(s, "deleteKey")
    /\ users' = {r \in users : r.id # session[s].step.id}
    /\ IF Cardinality(session[s].list) = 1 THEN SavedUser(s, "refresh")
       ELSE GoesOn(s, [at |-> "refresh"])
    /\ UNCHANGED <<lastId, grants, nets, options>>

RemoveSelectedUser(s) ==
    /\ Idle(s, "manage") /\ IsAdminNow(s)
    /\ \E u \in session[s].names : /\ ~IsSessionUser(s, u)
                                   /\ Asks(s, [at |-> "deleteUser", user |-> u])
    /\ UNCHANGED Tables

DeleteUser(s) ==
    /\ At(s, "deleteUser")
    /\ users' = {r \in users : r.username # session[s].step.user}
    /\ GoesOn(s, [session[s].step EXCEPT !.at = "deleteGrants"])
    /\ UNCHANGED <<lastId, grants, nets, options>>

DeleteGrants(s) ==
    /\ At(s, "deleteGrants")
    /\ grants' = {g \in grants : g[1] # session[s].step.user}
    /\ GoesOn(s, [at |-> "refresh"])
    /\ UNCHANGED <<users, lastId, nets, options>>

(* Edit User's F5 and F6: one key, or all of them, off or on, by the list.   *)
ToggleSelectedUserKeyDisabled(s) ==
    /\ Idle(s, "keys") /\ IsAdminNow(s)
    /\ \E r \in session[s].list :
        /\ ~r.disabled => ~(IsSessionUser(s, r.username) /\ r.id = session[s].key)
        /\ Asks(s, [at |-> "keyOff", id |-> r.id, off |-> ~r.disabled])
    /\ UNCHANGED Tables

SetUserKeyDisabled(s) ==
    /\ At(s, "keyOff")
    /\ LET step == session[s].step
       IN  users' = {IF r.id = step.id THEN [r EXCEPT !.disabled = step.off] ELSE r : r \in users}
    /\ GoesOn(s, [at |-> "refresh"])
    /\ UNCHANGED <<lastId, grants, nets, options>>

ToggleAllUserKeysDisabled(s) ==
    /\ Idle(s, "keys") /\ IsAdminNow(s) /\ session[s].list # {}
    /\ LET anyEnabled == \E r \in session[s].list : ~r.disabled
       IN  /\ ~(anyEnabled /\ IsSessionUser(s, session[s].shown))
           /\ Asks(s, [at |-> "keysOff", user |-> session[s].shown, off |-> anyEnabled])
    /\ UNCHANGED Tables

SetUserKeysDisabled(s) ==
    /\ At(s, "keysOff")
    /\ LET step == session[s].step
       IN  users' = {IF r.username = step.user THEN [r EXCEPT !.disabled = step.off] ELSE r :
                     r \in users}
    /\ GoesOn(s, [at |-> "refresh"])
    /\ UNCHANGED <<lastId, grants, nets, options>>

(* Own Keys and Restricted: on or off, by how they were a moment before.     *)
ToggleOption(s) ==
    /\ Idle(s, "manage") /\ IsAdminNow(s)
    /\ \E o \in Options : Asks(s, [at |-> "option", name |-> o, on |-> o \notin options])
    /\ UNCHANGED Tables

SetServerOption(s) ==
    /\ At(s, "option")
    /\ LET step == session[s].step
       IN  options' = IF step.on THEN options \cup {step.name} ELSE options \ {step.name}
    /\ GoesOn(s, NoStep)
    /\ UNCHANGED <<users, lastId, grants, nets>>

-----------------------------------------------------------------------------
(* My Keys.  With Own Keys off nothing can be done there.                    *)

OpenMyKeys(s) ==
    /\ Idle(s, "main") /\ Who(s) \in Usernames
    /\ kOptionSelfServiceKeys \in options
    /\ Becomes(s, [session[s] EXCEPT !.window = "myKeys", !.list = GetUserKeys(Who(s))])
    /\ UNCHANGED Tables

RefreshMyKeys(s) ==
    /\ At(s, "refreshOwn")
    /\ Becomes(s, [session[s] EXCEPT !.list = GetUserKeys(Who(s)), !.step = NoStep])
    /\ UNCHANGED Tables

AddMyKey(s) ==
    /\ Idle(s, "myKeys") /\ lastId < MaxId
    /\ kOptionSelfServiceKeys \in options
    /\ \E k \in Keys \cap Added : Asks(s, [at |-> "addOwn", key |-> k])
    /\ UNCHANGED Tables

AddableByName(s, k) ==  \* mutant: only their own keys are looked through
    /\ GetUserKeys(Who(s)) # {}
    /\ Cardinality(GetUserKeys(Who(s))) < kMaxKeysPerUser
    /\ ~HasKey(Who(s), k)
Addable(s, k) ==
    /\ GetUserKeys(Who(s)) # {}
    /\ Cardinality(GetUserKeys(Who(s))) < kMaxKeysPerUser
    /\ UserOfKey(k) = {}

AddMyKeyTransaction(s) ==
    /\ At(s, "addOwn") /\ lastId < MaxId
    /\ IF Addable(s, session[s].step.key)
       THEN /\ users' = users \cup {NewRow(Who(s), session[s].step.key,
                                           [level |-> kAccessUser, viewOnly |-> FALSE], TRUE)}
            /\ lastId' = lastId + 1
            /\ GoesOn(s, [at |-> "refreshOwn"])
       ELSE GoesOn(s, NoStep) /\ UNCHANGED <<users, lastId>>
    /\ UNCHANGED <<grants, nets, options>>

(* F3 twice.                                                                 *)
RemoveMyKey(s) ==
    /\ Idle(s, "myKeys")
    /\ kOptionSelfServiceKeys \in options
    /\ \E r \in session[s].list : /\ r.id # session[s].key /\ ~r.disabled
                                  /\ Asks(s, [at |-> "removeOwn", id |-> r.id])
    /\ UNCHANGED Tables

RemovableByList(s, id) ==  \* mutant: by the keys the window lists
    \E r \in session[s].list : r.id # id /\ ~r.disabled
Removable(s, id) ==
    /\ \E r \in GetUserKeys(Who(s)) : r.id = id
    /\ \E r \in GetUserKeys(Who(s)) : r.id # id /\ ~r.disabled

RemoveMyKeyTransaction(s) ==
    /\ At(s, "removeOwn")
    /\ users' = {r \in users : Removable(s, session[s].step.id) => r.id # session[s].step.id}
    /\ GoesOn(s, [at |-> "refreshOwn"])
    /\ UNCHANGED <<lastId, grants, nets, options>>

-----------------------------------------------------------------------------
(* Nets, and who has them.                                                   *)

RefreshNetAccessNets(s, a) ==
    Becomes(s, [session[s] EXCEPT !.window = "nets", !.net = NoNet, !.names = {}, !.step = NoStep,
                    !.offered = {n \in nets : IsAdmin(a) \/ IsGranted(a, n)}])

CanOpenNetAccess(s, a) == ~session[s].viewOnly /\ IsNetAdmin(a)

OpenNetAccess(s) ==
    /\ Idle(s, "main") \/ Idle(s, "manage")
    /\ LET a == LoadUserAccess(Who(s))
       IN  CanOpenNetAccess(s, a) /\ RefreshNetAccessNets(s, a)
    /\ session'[s].offered # {}
    /\ UNCHANGED Tables

(* Those Net Access lists for net, by the access the session loaded.         *)
Grantable(a, n) == {r.username : r \in {q \in users :
    ~q.viewOnly /\ q.level < kAccessAdmin /\ CanGrant(a, n, q.level)}}

ChooseNetAccessNet(s) ==
    /\ Idle(s, "nets")
    /\ LET a == LoadUserAccess(Who(s))
       IN  /\ CanOpenNetAccess(s, a)
           /\ \E n \in session[s].offered :
                Becomes(s, [session[s] EXCEPT !.window = "people", !.net = {n},
                                              !.names = Grantable(a, n)])
    /\ UNCHANGED Tables

BackOutOfNetAccess(s) ==
    /\ Idle(s, "people")
    /\ RefreshNetAccessNets(s, LoadUserAccess(Who(s)))
    /\ UNCHANGED Tables

ToggleNetAccessUser(s) ==
    /\ Idle(s, "people") /\ ~session[s].viewOnly
    /\ \E u \in session[s].names :
        Asks(s, [at |-> "grant", user |-> u, access |-> LoadUserAccess(Who(s))])
    /\ UNCHANGED Tables

AllowedAsListed(a, u, n) == n \in nets  \* mutant: as the list had it
Allowed(a, u, n) ==
    /\ n \in nets
    /\ CanGrant(a, n, GetUserAccessLevel(u))
    /\ ~IsUserViewOnly(u)

GrantTransaction(s) ==
    /\ At(s, "grant")
    /\ LET u == session[s].step.user
           a == session[s].step.access
           n == CHOOSE n \in Nets : session[s].net = {n}
           has == <<u, n>> \in grants
       IN  IF Allowed(a, u, n)
           THEN /\ grants' = IF has THEN grants \ {<<u, n>>} ELSE grants \cup {<<u, n>>}
                /\ Becomes(s, [session[s] EXCEPT !.names = Grantable(a, n), !.step = NoStep])
           ELSE UNCHANGED grants /\ RefreshNetAccessNets(s, LoadUserAccess(Who(s)))
    /\ UNCHANGED <<users, lastId, nets, options>>

(* A net is created in one statement and given to a Net Admin in another.    *)
CreateNetSubmit(s) ==
    /\ Idle(s, "main") /\ ~session[s].viewOnly
    /\ CanCreateNets(LoadUserAccess(Who(s)))
    /\ \E n \in Nets \ nets : Asks(s, [at |-> "createNet", net |-> n])
    /\ UNCHANGED Tables

CreateNet(s) ==
    /\ At(s, "createNet")
    /\ nets' = nets \cup {session[s].step.net}
    /\ GoesOn(s, IF IsConsole(s) THEN NoStep ELSE [session[s].step EXCEPT !.at = "giveNet"])
    /\ UNCHANGED <<users, lastId, grants, options>>

GiveNewNetToCreator(s) ==
    /\ At(s, "giveNet")
    /\ IF /\ GetUserAccessLevel(Who(s)) = kAccessNetAdmin
          /\ session[s].step.net \in nets
       THEN grants' = grants \cup {<<Who(s), session[s].step.net>>}
       ELSE UNCHANGED grants
    /\ GoesOn(s, NoStep)
    /\ UNCHANGED <<users, lastId, nets, options>>

ConfirmDeleteNet(s) ==
    /\ Idle(s, "main") /\ ~session[s].viewOnly
    /\ \E n \in nets : /\ MayManage(LoadUserAccess(Who(s)), n)
                       /\ Asks(s, [at |-> "deleteNet", net |-> n])
    /\ UNCHANGED Tables

DeleteNet(s) ==
    /\ At(s, "deleteNet")
    /\ nets' = nets \ {session[s].step.net}
    /\ grants' = {g \in grants : g[2] # session[s].step.net}
    /\ GoesOn(s, NoStep)
    /\ UNCHANGED <<users, lastId, options>>

-----------------------------------------------------------------------------
ManageUsers(s) ==
    \/ ShowManageUsersPage(s) \/ RefuseNonAdmin(s) \/ RefreshUsers(s) \/ OpenUserKeys(s)
    \/ SaveEditedUser(s) \/ RenameUserLooks(s) \/ RenameUserKeys(s) \/ RenameGrants(s)
    \/ CompareAccess(s) \/ SetUserViewOnly(s) \/ SetUserAccessLevel(s)
    \/ AddUserFromForm(s) \/ AddKeyToShownUser(s) \/ CreateUserLooks(s) \/ CreateUserInserts(s)
    \/ RemoveSelectedUserKey(s) \/ DeleteUserKey(s)
    \/ RemoveSelectedUser(s) \/ DeleteUser(s) \/ DeleteGrants(s)
    \/ ToggleSelectedUserKeyDisabled(s) \/ SetUserKeyDisabled(s)
    \/ ToggleAllUserKeysDisabled(s) \/ SetUserKeysDisabled(s)
    \/ ToggleOption(s) \/ SetServerOption(s)

MyKeys(s) ==
    \/ OpenMyKeys(s) \/ RefreshMyKeys(s) \/ AddMyKey(s) \/ AddMyKeyTransaction(s)
    \/ RemoveMyKey(s) \/ RemoveMyKeyTransaction(s)

NetsAndAccess(s) ==
    \/ OpenNetAccess(s) \/ ChooseNetAccessNet(s) \/ BackOutOfNetAccess(s)
    \/ ToggleNetAccessUser(s) \/ GrantTransaction(s)
    \/ CreateNetSubmit(s) \/ CreateNet(s) \/ GiveNewNetToCreator(s)
    \/ ConfirmDeleteNet(s) \/ DeleteNet(s)

Next == \E s \in Sessions :
    \/ AuthPubkeyCallback(s) \/ RunInteractiveSession(s) \/ StartAtConsole(s)
    \/ Ends(s) \/ Back(s)
    \/ ManageUsers(s) \/ MyKeys(s) \/ NetsAndAccess(s)

Spec == Init /\ [][Next]_vars

-----------------------------------------------------------------------------
(* The rows keep their ids and columns' types, and a session its place.      *)
TypeOK ==
    /\ users \subseteq User
    /\ \A r, q \in users : r.id = q.id => r = q
    /\ lastId \in 0..MaxId /\ \A r \in users : r.id <= lastId
    /\ grants \subseteq Usernames \X Nets
    /\ nets \subseteq Nets
    /\ options \subseteq Options
    /\ \A s \in Sessions : session[s].window \in Windows
                           /\ session[s].names \subseteq Usernames
                           /\ session[s].offered \subseteq Nets

HasWorkingKey(u) == \E r \in GetUserKeys(u) : ~r.disabled

(* However many sessions of theirs remove keys in My Keys at once, a user is  *)
(* never left without a key that can log in.                                 *)
OwnRemovalLeavesAKey ==
    [][\A s \in Sessions, u \in Usernames :
        Who(s) = u /\ HasWorkingKey(u) /\ ~HasWorkingKey(u)' => ~RemoveMyKeyTransaction(s)]_vars

(* A key a user adds in My Keys is on file nowhere else at that moment, not   *)
(* even if two users add it at once.                                         *)
OwnKeysAreNew ==
    [][\A r \in users' \ users :
        r.byUser /\ r.id > lastId => \A q \in users : ~SamePublicKey(q, r.key)]_vars

(* An Admin does not lock themself out, nor make themself less, from Manage   *)
(* Users: as long as the key they logged in with is theirs, works and is an   *)
(* Admin's, no step of their own session changes that.                       *)
LoginStands(s) ==
    \E r \in users : /\ r.id = session[s].key /\ r.username = Who(s)
                     /\ ~r.disabled /\ r.level = kAccessAdmin
NoOneLocksThemselfOut ==
    [][\A s \in Sessions : LoginStands(s) /\ ~LoginStands(s)' => ~ManageUsers(s)]_vars

(* Net Access gives a net only to someone who can use it: not to an Admin,    *)
(* who has them all, nor to a view-only user, whatever they were when listed. *)
NetsGoToThoseWhoLog ==
    [][\A s \in Sessions : GrantTransaction(s) =>
        \A g \in grants' \ grants :
            GetUserAccessLevel(g[1]) < kAccessAdmin /\ ~IsUserViewOnly(g[1])]_vars

=============================================================================
