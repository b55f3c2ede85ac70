---------------------------- MODULE SchemaUpgrade ----------------------------
(***************************************************************************)
(* Opening a database that an older QuickLogger made: CreateSchema checks   *)
(* user_version once and then upgrades table after table, each statement or  *)
(* WriteTransaction committing on its own, while other processes open,       *)
(* upgrade and use the same file, and any of them may stop anywhere.        *)
(*                                                                         *)
(* Of the columns the ones that hold what users entered are kept, of the    *)
(* nets one.                                                               *)
(***************************************************************************)
EXTENDS Naturals, FiniteSets

CONSTANTS
    Processes,   \* the console, sessions, the SSH server's processes, the updater
    Stations,    \* stations with a member ID, each saved to the net or a seed
    Seeds,       \* those still in net_seed_stations
    Usernames,   \* who may log in by SSH
    Leftovers,   \* FCC licenses a first import left in the stations table
    Releases     \* which of AllReleases the file may be of

AllReleases == {"earliest", "1.4", "1.9", "2.1", "new"}

ASSUME UpgradeAssumption ==
    /\ IsFiniteSet(Processes)
    /\ Seeds \subseteq Stations
    /\ Releases \subseteq AllReleases

VARIABLES
    db,        \* the file
    process,   \* each process: how far CreateSchema is, and what it last read
    entered,   \* what the users entered, before the upgrade and since
    together   \* whether two upgrades have ever been under way at once

vars == <<db, process, entered, together>>

Fields == {"location", "frequency", "mode"}

SavedColumns == {"default_remarks", "name", "member_id"}
UserColumns == {"id", "view_only", "access_level"}

(* The steps of CreateSchema, in their order; `read` is whether the step has   *)
(* seen that it has something to do, or that what it deletes was copied.     *)
Upgrading == {"columns", "copyUls", "deleteUls", "location", "frequency", "users", "viewOnly",
              "mode", "seeds", "savedStations", "memberIds", "access", "version"}
Step == [at : {"out", "open"} \cup Upgrading, read : BOOLEAN]
At(step) == [at |-> step, read |-> FALSE]
Out == At("out")

(* A net_saved_stations row; a blank is a column's default.                 *)
Blank == [default_remarks |-> "", name |-> "", member_id |-> ""]

(* What a file of release r has: kSchemaSql has created whole tables that    *)
(* were missing from it.                                                     *)
SavedColumnsOf(r) == CASE r = "1.4" -> {}
                       [] r = "1.9" -> {"default_remarks"}
                       [] r = "2.1" -> {"default_remarks", "name"}
                       [] OTHER -> SavedColumns
UserColumnsOf(r) == CASE r = "1.4" -> {}
                      [] r \in {"1.9", "2.1"} -> {"id", "view_only"}
                      [] OTHER -> UserColumns
SavedOf(r) == CASE r = "earliest" -> {} [] r = "new" -> {} [] OTHER -> Stations \ Seeds
SeedsOf(r) == IF r \in {"earliest", "1.4", "1.9"} THEN Seeds ELSE {}
RowOf(r) == [Blank EXCEPT !.default_remarks =
                 IF "default_remarks" \in SavedColumnsOf(r) THEN "given" ELSE ""]

Init ==
    \E r \in Releases :
        /\ db = [current |-> FALSE,
                 users |-> [columns |-> UserColumnsOf(r), level |-> [u \in Usernames |-> "full"]],
                 saved |-> [columns |-> SavedColumnsOf(r),
                            rows |-> [s \in SavedOf(r) |-> RowOf(r)]],
                 seeds |-> [exists |-> SeedsOf(r) # {}, rows |-> SeedsOf(r)],
                 stations |-> [member_id |-> [s \in SavedOf(r) \cup SeedsOf(r) |->
                                    IF "member_id" \in SavedColumnsOf(r) /\ r # "earliest"
                                    THEN "" ELSE "given"],
                               leftovers |-> IF r \in {"earliest", "1.4"} THEN Leftovers ELSE {}],
                 uls |-> {},
                 net |-> [f \in Fields |-> IF r \in {"earliest", "1.4"} THEN "free text" ELSE "valid"]]
        /\ entered = [saved |-> [s \in SavedOf(r) \cup SeedsOf(r) |->
                                    [(IF s \in SavedOf(r) THEN RowOf(r) ELSE Blank)
                                        EXCEPT !.member_id = "given"]],
                      level |-> db.users.level,
                      net |-> {}]
        /\ process = [p \in Processes |-> Out]
        /\ together = FALSE

-----------------------------------------------------------------------------
(* Steps of a process.                                                      *)

Busy(steps) == Cardinality({p \in Processes : steps[p].at \in Upgrading}) > 1

Goes(p, step) ==
    /\ process' = [process EXCEPT ![p] = step]
    /\ together' = (together \/ Busy(process'))

(* p did what step asks for, in one transaction, and goes on to next.       *)
Does(p, step, d, next) ==
    /\ process[p].at = step
    /\ db' = d
    /\ Goes(p, At(next))
    /\ UNCHANGED entered

(* p looks, outside any transaction, whether step has anything to do.       *)
Looks(p, step, needed, next) ==
    /\ process[p] = At(step)
    /\ Goes(p, IF needed THEN [process[p] EXCEPT !.read = TRUE] ELSE At(next))
    /\ UNCHANGED <<db, entered>>

OpenMarking(p) ==  \* mutant: user_version is set first
    /\ process[p].at = "out"
    /\ db' = [db EXCEPT !.current = TRUE]
    /\ Goes(p, At(IF db.current THEN "open" ELSE "columns"))
    /\ UNCHANGED entered

(* Nothing is upgraded when user_version says it has been.                  *)
Open(p) == Does(p, "out", db, IF db.current THEN "open" ELSE "columns")

(* EnsureColumnExists.  Only of a column that is new is the content blank.   *)
WithSaved(column) == [db EXCEPT !.saved.columns = @ \cup {column}]
WithUsers(column) == [db EXCEPT !.users.columns = @ \cup {column}]

AddColumns(p) == Does(p, "columns", WithSaved("default_remarks"), "copyUls")

(* Two statements whose errors are not looked at: the copy may fail (the lock, *)
(* the disk), and the licenses are deleted all the same.                     *)
CopyUls(p) ==
    \E copied \in BOOLEAN :
        /\ process[p].at = "copyUls"
        /\ db' = IF copied THEN [db EXCEPT !.uls = @ \cup db.stations.leftovers] ELSE db
        /\ Goes(p, [at |-> "deleteUls", read |-> copied])
        /\ UNCHANGED entered

(* All or none: a station that is still referred to keeps all of them.        *)
DeleteUls(p) ==
    \E left \in {{}, db.stations.leftovers} :
        Does(p, "deleteUls", [db EXCEPT !.stations.leftovers = left], "location")

(* NormalizeNetZips, NormalizeNetFrequencies and NormalizeNetModes read the  *)
(* nets, and then write what they made of those in one transaction.         *)
Normalize(p, field, next) ==
    \/ Looks(p, field, db.net[field] = "free text", next)
    \/ /\ process[p].read
       /\ Does(p, field, [db EXCEPT !.net[field] = "valid"], next)

NormalizeNetZips(p) == Normalize(p, "location", "frequency")
NormalizeNetFrequencies(p) == Normalize(p, "frequency", "users")
NormalizeNetModes(p) == Normalize(p, "mode", "seeds")

UpgradeUsersTable(p) ==
    \/ Looks(p, "users", "id" \notin db.users.columns, "viewOnly")
    \/ /\ process[p].read
       /\ Does(p, "users",
               [db EXCEPT !.users = [columns |-> {"id"}, level |-> [u \in Usernames |-> "full"]]],
               "viewOnly")

AddViewOnly(p) == Does(p, "viewOnly", WithUsers("view_only"), "mode")

Inserted(d, ids) ==
    [d EXCEPT !.saved.rows = [s \in DOMAIN @ \cup ids |-> IF s \in DOMAIN @ THEN @[s] ELSE Blank]]

Seedless(d) == [d EXCEPT !.seeds = [exists |-> FALSE, rows |-> {}]]

DropSeeds(d) == Seedless(d)  \* mutant: the rows are not copied first
MoveSeeds(d) == Inserted(Seedless(d), d.seeds.rows)

(* It throws, as MoveMemberIdsToNets does, if what it found is gone.        *)
DropOldSeedStations(p) ==
    \/ Looks(p, "seeds", db.seeds.exists, "savedStations")
    \/ /\ process[p].read /\ db.seeds.exists
       /\ Does(p, "seeds", MoveSeeds(db), "savedStations")

(* net_id, callsign and default_remarks are what is copied to the new table. *)
UpgradeSavedStationsTable(p) ==
    \/ Looks(p, "savedStations", "name" \notin db.saved.columns, "memberIds")
    \/ /\ process[p].read
       /\ Does(p, "savedStations",
               [db EXCEPT !.saved =
                    [columns |-> {"default_remarks", "name"},
                     rows |-> [s \in DOMAIN @.rows |->
                                [Blank EXCEPT !.default_remarks = db.saved.rows[s].default_remarks]]]],
               "memberIds")

MoveMemberIdsToNets(p) ==
    \/ Looks(p, "memberIds", "member_id" \notin db.saved.columns, "access")
    \/ /\ process[p].read /\ "member_id" \notin db.saved.columns
       /\ Does(p, "memberIds",
               [WithSaved("member_id") EXCEPT
                    !.saved.rows = [s \in DOMAIN @ |->
                        [@[s] EXCEPT !.member_id = db.stations.member_id[s]]],
                    !.stations.member_id = [s \in DOMAIN @ |-> ""]],
               "access")

AddAccessLevel(p) == Does(p, "access", WithUsers("access_level"), "version")

SetVersion(p) == Does(p, "version", [db EXCEPT !.current = TRUE], "open")

(* It closes the file, a WriteTransaction of its CreateSchema throws (the lock *)
(* is not had within five seconds, a table or column is not as it was), or it  *)
(* is killed.                                                               *)
Stops(p) ==
    /\ process[p].at # "out"
    /\ Goes(p, Out)
    /\ UNCHANGED <<db, entered>>

-----------------------------------------------------------------------------
(* What users enter in a process that has the file open.                    *)

Enters(p, d, e) ==
    /\ process[p].at = "open"
    /\ db' = d /\ entered' = e
    /\ UNCHANGED <<process, together>>

UpdateNet(p, field) ==
    Enters(p, [db EXCEPT !.net[field] = "edited"], [entered EXCEPT !.net = @ \cup {field}])

SetUserAccessLevel(p, username) ==
    /\ UserColumns \subseteq db.users.columns
    /\ Enters(p, [db EXCEPT !.users.level[username] = "viewOnly"],
                 [entered EXCEPT !.level[username] = "viewOnly"])

UpdateSavedNetStation(p, s) ==
    LET row == [default_remarks |-> "new", name |-> "new", member_id |-> "new"]
    IN  /\ SavedColumns \subseteq db.saved.columns
        /\ s \in DOMAIN db.saved.rows
        /\ Enters(p, [db EXCEPT !.saved.rows[s] = row], [entered EXCEPT !.saved[s] = row])

Upgrades(p) ==
    \/ AddColumns(p) \/ CopyUls(p) \/ DeleteUls(p)
    \/ NormalizeNetZips(p) \/ NormalizeNetFrequencies(p) \/ UpgradeUsersTable(p)
    \/ AddViewOnly(p) \/ NormalizeNetModes(p) \/ DropOldSeedStations(p)
    \/ UpgradeSavedStationsTable(p) \/ MoveMemberIdsToNets(p) \/ AddAccessLevel(p)
    \/ SetVersion(p)

Next ==
    \E p \in Processes :
        \/ Open(p) \/ Upgrades(p) \/ Stops(p)
        \/ \E field \in Fields : UpdateNet(p, field)
        \/ \E username \in Usernames : SetUserAccessLevel(p, username)
        \/ \E s \in Stations : UpdateSavedNetStation(p, s)

Spec == Init /\ [][Next]_vars

-----------------------------------------------------------------------------

TypeOK ==
    /\ DOMAIN db = {"current", "users", "saved", "seeds", "stations", "uls", "net"}
    /\ db.users.columns \subseteq UserColumns /\ db.saved.columns \subseteq SavedColumns
    /\ process \in [Processes -> Step]
    /\ together \in BOOLEAN

(* However many processes upgrade a file at once, and wherever they stop, no  *)
(* saved station is lost: a rebuilt table's rows and those of a table that is *)
(* dropped are all in the one that takes its place.  Nor is a license, unless *)
(* by a process that deletes them although its own copy failed (CreateSchema; *)
(* the next refresh of station data brings those back).                      *)
RowsKept ==
    [][LET stationsIn(d) == DOMAIN d.saved.rows \cup d.seeds.rows
           licensesIn(d) == d.uls \cup d.stations.leftovers
       IN  /\ stationsIn(db) \subseteq stationsIn(db')
           /\ \/ licensesIn(db) \subseteq licensesIn(db')
              \/ \E p \in Processes : process[p] = At("deleteUls") /\ process'[p] # process[p]]_vars

MemberId(s) ==
    IF "member_id" \in db.saved.columns /\ s \in DOMAIN db.saved.rows
    THEN db.saved.rows[s].member_id ELSE db.stations.member_id[s]

MemberIdsAsEntered == \A s \in DOMAIN entered.saved : MemberId(s) = entered.saved[s].member_id

RemarksAndNamesAsEntered ==
    \A s \in DOMAIN db.saved.rows : \A c \in {"default_remarks", "name"} :
        db.saved.rows[s][c] = entered.saved[s][c]

NetAsEntered == \A f \in entered.net : db.net[f] = "edited"

(* A file that says it is current has everything a current one has.          *)
CurrentIsWhole ==
    db.current => /\ db.users.columns = UserColumns
                  /\ db.saved.columns = SavedColumns
                  /\ ~db.seeds.exists
                  /\ \A f \in Fields : db.net[f] # "free text"

AsEntered ==
    /\ MemberIdsAsEntered /\ RemarksAndNamesAsEntered
    /\ db.users.level = entered.level /\ NetAsEntered
    /\ CurrentIsWhole

(* Unless two processes upgrade the file at once, an upgrade that stopped      *)
(* half way is finished by the next, and everything anyone entered stays as    *)
(* it was: member IDs, names and remarks, levels of access, a net's details.  *)
UpgradedWhole == ~together => AsEntered

=============================================================================
