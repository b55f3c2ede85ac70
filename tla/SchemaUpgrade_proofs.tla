------------------------ MODULE SchemaUpgrade_proofs ------------------------
(***************************************************************************)
(* Proofs about opening a database that an older QuickLogger made, for any  *)
(* number of processes, stations, users and licenses, wherever they stop.   *)
(***************************************************************************)
EXTENDS SchemaUpgrade, TLAPS, FiniteSetTheorems

-----------------------------------------------------------------------------
(* The inductive invariant.                                                 *)

(* The steps after each of CreateSchema's.                                  *)
AfterAccess == {"version"}
AfterMemberIds == {"access"} \cup AfterAccess
AfterSavedStations == {"memberIds"} \cup AfterMemberIds
AfterSeeds == {"savedStations"} \cup AfterSavedStations
AfterMode == {"seeds"} \cup AfterSeeds
AfterViewOnly == {"mode"} \cup AfterMode
AfterUsers == {"viewOnly"} \cup AfterViewOnly
AfterFrequency == {"users"} \cup AfterUsers
AfterLocation == {"frequency"} \cup AfterFrequency

Levels == {"full", "viewOnly"}
NobodyViewOnly == [u \in Usernames |-> "full"]

Shape ==
    /\ DOMAIN db = {"current", "users", "saved", "seeds", "stations", "uls", "net"}
    /\ DOMAIN db.users = {"columns", "level"} /\ DOMAIN db.saved = {"columns", "rows"}
    /\ DOMAIN db.seeds = {"exists", "rows"} /\ DOMAIN db.stations = {"member_id", "leftovers"}
    /\ DOMAIN db.net = Fields
    /\ db.current \in BOOLEAN /\ db.seeds.exists \in BOOLEAN
    /\ db.users.columns \subseteq UserColumns /\ db.saved.columns \subseteq SavedColumns
    /\ db.users.level \in [Usernames -> Levels] /\ entered.level \in [Usernames -> Levels]
    /\ \A s \in DOMAIN db.saved.rows : DOMAIN db.saved.rows[s] = SavedColumns
    /\ DOMAIN entered = {"saved", "level", "net"}
    /\ \A s \in DOMAIN entered.saved : DOMAIN entered.saved[s] = SavedColumns
    /\ DOMAIN entered.saved \subseteq DOMAIN db.stations.member_id
    /\ entered.net \subseteq Fields
    /\ process \in [Processes -> Step]
    /\ together \in BOOLEAN

StationsKept == DOMAIN entered.saved = DOMAIN db.saved.rows \cup db.seeds.rows

(* Every station is there, no license whose copy went through is only in what  *)
(* is about to be deleted, and only what there is is in a table.             *)
Kept ==
    /\ StationsKept
    /\ \A p \in Processes : process[p].at = "deleteUls" /\ process[p].read
                               => db.stations.leftovers \subseteq db.uls
    /\ ~db.seeds.exists => db.seeds.rows = {}

(* Nobody enters anything before the file is current.                       *)
NothingEntered ==
    /\ \A p \in Processes : process[p].at # "open"
    /\ entered.net = {} /\ entered.level = NobodyViewOnly
    /\ \A s \in DOMAIN entered.saved : entered.saved[s].name = ""

(* What a process has got behind it is not undone by the others.             *)
Behind(at, d) ==
    /\ at \in Upgrading \ {"columns"} => "default_remarks" \in d.saved.columns
    /\ at \in AfterLocation => d.net["location"] # "free text"
    /\ at \in AfterFrequency => d.net["frequency"] # "free text"
    /\ at \in AfterUsers => "id" \in d.users.columns
    /\ at \in AfterMode => d.net["mode"] # "free text"
    /\ at \in AfterSeeds => ~d.seeds.exists
    /\ at \in AfterSavedStations => "name" \in d.saved.columns

(* What a process that upgrades alone may rely on besides.                   *)
BehindAlone(step, d) ==
    /\ step.at \in Upgrading => ~d.current
    /\ step.at = "users" /\ step.read => "id" \notin d.users.columns
    /\ step.at \in AfterViewOnly => "view_only" \in d.users.columns
    /\ step.at = "savedStations" /\ step.read => "name" \notin d.saved.columns
    /\ step.at \in AfterMemberIds => "member_id" \in d.saved.columns
    /\ step.at \in AfterAccess => "access_level" \in d.users.columns

(* A station not yet saved has nothing but its member ID.                    *)
SeedsBlank ==
    \A s \in DOMAIN entered.saved \ DOMAIN db.saved.rows :
        entered.saved[s].default_remarks = "" /\ entered.saved[s].name = ""

(* Member IDs are moved to the nets when every station is there.  (A file of   *)
(* the earliest release has the column before it has the stations.)         *)
MembersMovedLast ==
    "earliest" \notin Releases /\ "member_id" \in db.saved.columns
        => "name" \in db.saved.columns /\ db.seeds.rows = {}

Whole == "earliest" \notin Releases => UpgradedWhole

Alone ==
    /\ \A p, q \in Processes :
           process[p].at \in Upgrading /\ process[q].at \in Upgrading => p = q
    /\ \A p \in Processes : BehindAlone(process[p], db)

UpgradeInv ==
    /\ Shape /\ Kept
    /\ ~db.current => NothingEntered
    /\ \A p \in Processes : Behind(process[p].at, db)
    /\ SeedsBlank /\ MembersMovedLast
    /\ ~together => Alone
    /\ Whole

LEMMA InvTypes == UpgradeInv => TypeOK
BY DEF UpgradeInv, Shape, TypeOK

-----------------------------------------------------------------------------
(* Who upgrades at once.                                                    *)

LEMMA StepsAre ==
    /\ \A at \in {"out", "open"} \cup Upgrading : At(at) \in Step /\ At(at).at = at /\ ~At(at).read
    /\ Out = At("out")
BY DEF At, Step, Out

LEMMA OnlyOne ==
    ASSUME NEW f \in [Processes -> Step], ~Busy(f), NEW p \in Processes, NEW q \in Processes,
           f[p].at \in Upgrading, f[q].at \in Upgrading
    PROVE  p = q
<1> DEFINE S == {r \in Processes : f[r].at \in Upgrading}
<1>1. IsFiniteSet(S)
    BY FS_Subset, UpgradeAssumption
<1>2. Cardinality(S) \in Nat /\ Cardinality(S) <= 1
    BY <1>1, FS_CardinalityType DEF Busy
<1>3. SUFFICES ASSUME p # q PROVE FALSE
    OBVIOUS
<1>4. IsFiniteSet({p}) /\ Cardinality({p}) = 1
    BY FS_Singleton
<1>5. Cardinality({p} \cup {q}) = 2
    <2>1. Cardinality({p} \cup {q}) = IF q \in {p} THEN Cardinality({p}) ELSE Cardinality({p}) + 1
        BY <1>4, FS_AddElement
    <2> QED BY <1>3, <1>4, <2>1
<1>6. {p} \cup {q} \in SUBSET S
    OBVIOUS
<1> QED BY <1>1, <1>2, <1>5, <1>6, FS_Subset

(* What a move of one process does to who upgrades.                         *)
LEMMA MovesAre ==
    ASSUME Shape, NEW p \in Processes, NEW step \in Step, Goes(p, step)
    PROVE  /\ process' \in [Processes -> Step] /\ process'[p] = step
           /\ \A q \in Processes : q # p => process'[q] = process[q]
           /\ together' \in BOOLEAN
           /\ ~together' => /\ ~together
                            /\ \A q, r \in Processes :
                                   process'[q].at \in Upgrading /\ process'[r].at \in Upgrading
                                       => q = r
<1>1. process' \in [Processes -> Step]
    BY DEF Shape, Goes
<1>2. ~together' => ~together /\ ~Busy(process')
    BY DEF Goes, Shape
<1>3. together' \in BOOLEAN
    BY DEF Goes, Shape, Busy
<1> QED BY <1>1, <1>2, <1>3, OnlyOne DEF Goes, Shape

-----------------------------------------------------------------------------
(* The invariant's parts put together again after a step of process p.       *)

Afters == /\ AfterAccess \subseteq Upgrading /\ AfterMemberIds \subseteq Upgrading
          /\ AfterSavedStations \subseteq Upgrading /\ AfterSeeds \subseteq Upgrading
          /\ AfterMode \subseteq Upgrading /\ AfterViewOnly \subseteq Upgrading
          /\ AfterUsers \subseteq Upgrading /\ AfterFrequency \subseteq Upgrading
          /\ AfterLocation \subseteq Upgrading

LEMMA AftersAre == Afters
BY DEF Afters, Upgrading, AfterAccess, AfterMemberIds, AfterSavedStations, AfterSeeds, AfterMode,
       AfterViewOnly, AfterUsers, AfterFrequency, AfterLocation

(* A process that upgrades nothing relies on nothing.                        *)
LEMMA IdleRelyOnNothing ==
    ASSUME NEW step, step.at \notin Upgrading
    PROVE  \A d : BehindAlone(step, d) /\ Behind(step.at, d)
<1>1. {"users", "savedStations"} \subseteq Upgrading
    BY DEF Upgrading
<1> QED BY <1>1, AftersAre DEF BehindAlone, Behind, Afters

(* The file is not written.                                                  *)
LEMMA Unwritten ==
    ASSUME UpgradeInv, NEW p \in Processes, NEW step \in Step, Goes(p, step),
           UNCHANGED <<db, entered>>,
           ~db.current => step.at # "open",
           step.at # "deleteUls",
           Behind(step.at, db),
           ~together => BehindAlone(step, db)
    PROVE  UpgradeInv'
<1>1. /\ process' \in [Processes -> Step] /\ process'[p] = step
      /\ \A q \in Processes : q # p => process'[q] = process[q]
      /\ together' \in BOOLEAN
      /\ ~together' => /\ ~together
                       /\ \A q, r \in Processes :
                              process'[q].at \in Upgrading /\ process'[r].at \in Upgrading
                                  => q = r
    BY MovesAre DEF UpgradeInv
<1>2. Shape'
    BY <1>1 DEF UpgradeInv, Shape
<1>3. Kept'
    BY <1>1 DEF UpgradeInv, Kept, StationsKept
<1>4. ~db'.current => NothingEntered'
    BY <1>1 DEF UpgradeInv, NothingEntered
<1>5. \A q \in Processes : Behind(process'[q].at, db')
    <2>1. \A at : Behind(at, db) => Behind(at, db')
        BY DEF Behind
    <2> QED BY <1>1, <2>1 DEF UpgradeInv
<1>6. SeedsBlank' /\ MembersMovedLast'
    BY DEF UpgradeInv, SeedsBlank, MembersMovedLast
<1>7. ~together' => Alone'
    <2>1. \A s \in Step : BehindAlone(s, db) => BehindAlone(s, db')
        BY DEF BehindAlone
    <2>2. ~together' => \A q \in Processes : BehindAlone(process'[q], db')
        BY <1>1, <2>1 DEF UpgradeInv, Alone, Shape
    <2> QED BY <1>1, <2>2 DEF Alone
<1>8. Whole'
    BY <1>1 DEF UpgradeInv, Whole, UpgradedWhole, AsEntered, MemberId,
           MemberIdsAsEntered, RemarksAndNamesAsEntered, NetAsEntered, CurrentIsWhole
<1> QED BY <1>2, <1>3, <1>4, <1>5, <1>6, <1>7, <1>8 DEF UpgradeInv

(* A step of CreateSchema has written the file, but not its version.         *)
LEMMA Written ==
    ASSUME UpgradeInv, NEW p \in Processes, NEW step \in Step, Goes(p, step), UNCHANGED entered,
           process[p].at \in Upgrading, step.at # "open", db'.current = db.current,
           Shape', Kept', \A at : Behind(at, db) => Behind(at, db'), Behind(step.at, db'),
           SeedsBlank', MembersMovedLast',
           Alone /\ ~db.current => BehindAlone(step, db'),
           "earliest" \notin Releases /\ Alone /\ AsEntered /\ NothingEntered /\ ~db.current
               => AsEntered'
    PROVE  UpgradeInv'
<1>1. /\ process' \in [Processes -> Step] /\ process'[p] = step
      /\ \A q \in Processes : q # p => process'[q] = process[q]
      /\ ~together' => /\ ~together
                       /\ \A q, r \in Processes :
                              process'[q].at \in Upgrading /\ process'[r].at \in Upgrading
                                  => q = r
    BY MovesAre DEF UpgradeInv
<1>2. ~db'.current => NothingEntered'
    BY <1>1 DEF UpgradeInv, NothingEntered
<1>3. \A q \in Processes : Behind(process'[q].at, db')
    BY <1>1 DEF UpgradeInv
<1>4. ~together => Alone /\ NothingEntered /\ ~db.current
    BY DEF UpgradeInv, Alone, BehindAlone
<1>5. ~together' => Alone'
    <2>1. ASSUME ~together', NEW q \in Processes PROVE BehindAlone(process'[q], db')
        <3>1. CASE q = p
            BY <1>1, <1>4, <2>1, <3>1
        <3>2. CASE q # p
            <4>1. process[q].at \notin Upgrading
                BY <1>1, <1>4, <2>1, <3>2 DEF Alone
            <4> QED BY <1>1, <3>2, <4>1, IdleRelyOnNothing
        <3> QED BY <3>1, <3>2
    <2> QED BY <1>1, <2>1 DEF Alone
<1>6. Whole'
    BY <1>1, <1>4 DEF UpgradeInv, Whole, UpgradedWhole
<1> QED BY <1>2, <1>3, <1>5, <1>6 DEF UpgradeInv

-----------------------------------------------------------------------------
(* The steps that do not write the file.                                    *)

(* p goes on to next as it found nothing to do at its step, or has seen that   *)
(* there is something.                                                       *)
LEMMA LooksKeeps ==
    ASSUME UpgradeInv, NEW p \in Processes, NEW step \in Upgrading \ {"copyUls", "deleteUls"},
           NEW next \in Upgrading \ {"deleteUls"}, NEW needed \in BOOLEAN,
           Looks(p, step, needed, next),
           step = "users" /\ needed => "id" \notin db.users.columns,
           step = "savedStations" /\ needed => "name" \notin db.saved.columns,
           ~needed => Behind(next, db),
           ~together /\ ~needed /\ BehindAlone(process[p], db) => BehindAlone(At(next), db)
    PROVE  UpgradeInv'
<1>1. process[p] \in Step /\ process[p] = At(step) /\ UNCHANGED <<db, entered>>
    BY DEF Looks, UpgradeInv, Shape
<1>2. ~together => BehindAlone(process[p], db)
    BY DEF UpgradeInv, Alone
<1>3. CASE needed
    <2> DEFINE r == [process[p] EXCEPT !.read = TRUE]
    <2>0. Goes(p, r)
        BY <1>3 DEF Looks
    <2>1. r \in Step /\ r.at = step /\ r.at = process[p].at /\ Goes(p, r)
        <3>1. r \in Step /\ r.at = process[p].at
            BY <1>1 DEF Step
        <3>2. process[p].at = step
            BY <1>1, StepsAre
        <3> QED BY <2>0, <3>1, <3>2
    <2>2. Behind(r.at, db)
        BY <2>1 DEF UpgradeInv
    <2>3. ~together => BehindAlone(r, db)
        BY <1>2, <1>3, <2>1 DEF BehindAlone
    <2>4. r.at # "open" /\ r.at # "deleteUls"
        BY <2>1 DEF Upgrading
    <2> HIDE DEF r
    <2> QED BY <1>1, <2>1, <2>2, <2>3, <2>4, Unwritten
<1>4. CASE ~needed
    <2>1. /\ At(next) \in Step /\ At(next).at = next /\ Goes(p, At(next))
          /\ At(next).at # "open" /\ At(next).at # "deleteUls"
        BY <1>1, <1>4, StepsAre DEF Looks, Upgrading
    <2> QED BY <1>1, <1>2, <1>4, <2>1, Unwritten
<1> QED BY <1>3, <1>4

LEMMA OpenKeeps ==
    ASSUME UpgradeInv, NEW p \in Processes, Open(p)
    PROVE  UpgradeInv'
<1> DEFINE next == IF db.current THEN "open" ELSE "columns"
<1>1. /\ At(next) \in Step /\ At(next).at = next /\ ~At(next).read
      /\ Goes(p, At(next)) /\ UNCHANGED <<db, entered>>
    BY StepsAre DEF Open, Does, Upgrading
<1>2. Behind(next, db)
    BY DEF Behind, Upgrading, AfterLocation, AfterFrequency, AfterUsers, AfterViewOnly, AfterMode,
           AfterSeeds, AfterSavedStations, AfterMemberIds, AfterAccess
<1>3. BehindAlone(At(next), db)
    BY <1>1 DEF BehindAlone, Upgrading, AfterViewOnly, AfterMode, AfterSeeds, AfterSavedStations,
           AfterMemberIds, AfterAccess
<1>4. At(next).at # "deleteUls" /\ (~db.current => At(next).at # "open")
    BY <1>1
<1> HIDE DEF next
<1> QED BY <1>1, <1>2, <1>3, <1>4, Unwritten

LEMMA StopsKeeps ==
    ASSUME UpgradeInv, NEW p \in Processes, Stops(p)
    PROVE  UpgradeInv'
<1>1. Out \in Step /\ Out.at = "out" /\ Goes(p, Out) /\ UNCHANGED <<db, entered>>
    BY StepsAre DEF Stops
<1>2. Out.at \notin Upgrading
    BY <1>1 DEF Upgrading
<1>3. Behind(Out.at, db) /\ BehindAlone(Out, db)
    BY <1>2, IdleRelyOnNothing
<1> QED BY <1>1, <1>3, Unwritten

-----------------------------------------------------------------------------
(* The steps that write the file.                                           *)

(* What a step that did what it is for says of its process.                  *)
LEMMA DoesIs ==
    ASSUME UpgradeInv, NEW p \in Processes, NEW step \in Upgrading, NEW d,
           NEW next \in Upgrading, Does(p, step, d, next)
    PROVE  /\ process[p] \in Step /\ process[p].at = step /\ process[p].at \in Upgrading
           /\ db' = d /\ UNCHANGED entered
           /\ At(next) \in Step /\ At(next).at = next /\ ~At(next).read
           /\ At(next).at # "open" /\ Goes(p, At(next))
           /\ process' \in [Processes -> Step] /\ process'[p] = At(next)
           /\ \A q \in Processes : q # p => process'[q] = process[q]
           /\ together' \in BOOLEAN
<1>1. At(next) \in Step /\ At(next).at = next /\ ~At(next).read /\ next # "open"
    BY StepsAre DEF Upgrading
<1>2. Goes(p, At(next)) /\ process[p].at = step /\ process[p] \in Step
    BY DEF Does, UpgradeInv, Shape
<1> QED BY <1>1, <1>2, MovesAre DEF Does, UpgradeInv

(* A column is added to net_saved_stations.                                 *)
LEMMA AddColumnsKeeps ==
    ASSUME UpgradeInv, NEW p \in Processes, AddColumns(p)
    PROVE  UpgradeInv'
<1>1. {"columns", "copyUls"} \subseteq Upgrading
    BY DEF Upgrading
<1>2. /\ process[p].at = "columns" /\ process[p].at \in Upgrading /\ UNCHANGED entered
      /\ db' = WithSaved("default_remarks")
      /\ At("copyUls") \in Step /\ At("copyUls").at = "copyUls" /\ At("copyUls").at # "open"
      /\ Goes(p, At("copyUls")) /\ process' \in [Processes -> Step]
      /\ \A q \in Processes : q # p => process'[q] = process[q]
      /\ process'[p] = At("copyUls") /\ together' \in BOOLEAN
    BY <1>1, DoesIs DEF AddColumns
<1>3. /\ DOMAIN db' = DOMAIN db /\ DOMAIN db'.saved = DOMAIN db.saved
      /\ db'.saved.rows = db.saved.rows
      /\ db'.saved.columns = db.saved.columns \cup {"default_remarks"}
      /\ \A f \in DOMAIN db \ {"saved"} : db'[f] = db[f]
    BY <1>2 DEF WithSaved, UpgradeInv, Shape
<1>4. /\ db'.current = db.current /\ db'.users = db.users /\ db'.seeds = db.seeds
      /\ db'.stations = db.stations /\ db'.uls = db.uls /\ db'.net = db.net
    BY <1>3 DEF UpgradeInv, Shape
<1>5. Shape'
    BY <1>2, <1>3, <1>4 DEF UpgradeInv, Shape, SavedColumns
<1>6. Kept'
    BY <1>2, <1>3, <1>4 DEF UpgradeInv, Kept, StationsKept
<1>7. (\A at : Behind(at, db) => Behind(at, db')) /\ Behind("copyUls", db')
    BY <1>3, <1>4 DEF Behind, Upgrading, AfterLocation, AfterFrequency, AfterUsers, AfterViewOnly,
           AfterMode, AfterSeeds, AfterSavedStations, AfterMemberIds, AfterAccess
<1>8. SeedsBlank' /\ MembersMovedLast'
    BY <1>2, <1>3, <1>4 DEF UpgradeInv, SeedsBlank, MembersMovedLast
<1>9. AsEntered /\ ~db.current => AsEntered'
    <2>1. MemberIdsAsEntered => MemberIdsAsEntered'
        BY <1>2, <1>3, <1>4 DEF MemberIdsAsEntered, MemberId
    <2>2. RemarksAndNamesAsEntered /\ NetAsEntered => RemarksAndNamesAsEntered' /\ NetAsEntered'
        BY <1>2, <1>3, <1>4 DEF RemarksAndNamesAsEntered, NetAsEntered
    <2>3. ~db.current => CurrentIsWhole'
        BY <1>4 DEF CurrentIsWhole
    <2> QED BY <1>2, <1>4, <2>1, <2>2, <2>3 DEF AsEntered
<1>10. ~db.current => BehindAlone(At("copyUls"), db')
    BY <1>2, <1>4 DEF BehindAlone, AfterLocation, AfterFrequency, AfterUsers, AfterViewOnly,
           AfterMode, AfterSeeds, AfterSavedStations, AfterMemberIds, AfterAccess
<1> QED BY <1>2, <1>4, <1>5, <1>6, <1>7, <1>8, <1>9, <1>10, Written

LEMMA CopyUlsKeeps ==
    ASSUME UpgradeInv, NEW p \in Processes, CopyUls(p)
    PROVE  UpgradeInv'
<1>0. PICK copied \in BOOLEAN :
          /\ process[p].at = "copyUls" /\ UNCHANGED entered
          /\ db' = IF copied THEN [db EXCEPT !.uls = @ \cup db.stations.leftovers] ELSE db
          /\ Goes(p, [at |-> "deleteUls", read |-> copied])
    BY DEF CopyUls
<1>1. {"copyUls", "deleteUls"} \subseteq Upgrading
    BY DEF Upgrading
<1> DEFINE step == [at |-> "deleteUls", read |-> copied]
<1>2. /\ process[p] \in Step /\ process[p].at = "copyUls" /\ process[p].at \in Upgrading
      /\ UNCHANGED entered
      /\ db' = IF copied THEN [db EXCEPT !.uls = @ \cup db.stations.leftovers] ELSE db
      /\ step \in Step /\ step.at = "deleteUls" /\ step.at # "open" /\ step.read = copied
      /\ Goes(p, step) /\ process' \in [Processes -> Step]
      /\ \A q \in Processes : q # p => process'[q] = process[q]
      /\ process'[p] = step /\ together' \in BOOLEAN
    <2>1. step \in Step /\ step.at = "deleteUls" /\ step.read = copied /\ process[p] \in Step
        BY <1>1 DEF Step, UpgradeInv, Shape
    <2> QED BY <1>0, <1>1, <2>1, MovesAre DEF UpgradeInv
<1> HIDE DEF step
<1>3. /\ DOMAIN db' = DOMAIN db /\ db.uls \subseteq db'.uls
      /\ copied => db.stations.leftovers \subseteq db'.uls
      /\ db'.current = db.current /\ db'.users = db.users /\ db'.seeds = db.seeds
      /\ db'.stations = db.stations /\ db'.saved = db.saved /\ db'.net = db.net
    BY <1>2 DEF UpgradeInv, Shape
<1>4. Shape'
    BY <1>2, <1>3 DEF UpgradeInv, Shape
<1>5. Kept'
    BY <1>2, <1>3 DEF UpgradeInv, Kept, StationsKept
<1>6. (\A at : Behind(at, db) => Behind(at, db')) /\ Behind("deleteUls", db')
    <2>1. \A at : Behind(at, db) => Behind(at, db')
        BY <1>3 DEF Behind
    <2>2. Behind("copyUls", db)
        BY <1>2 DEF UpgradeInv
    <2> QED BY <1>1, <1>3, <2>1, <2>2 DEF Behind, Upgrading, AfterLocation, AfterFrequency, AfterUsers,
           AfterViewOnly, AfterMode, AfterSeeds, AfterSavedStations, AfterMemberIds, AfterAccess
<1>7. SeedsBlank' /\ MembersMovedLast'
    BY <1>2, <1>3 DEF UpgradeInv, SeedsBlank, MembersMovedLast
<1>8. AsEntered /\ ~db.current => AsEntered'
    <2>1. MemberIdsAsEntered => MemberIdsAsEntered'
        BY <1>2, <1>3 DEF MemberIdsAsEntered, MemberId
    <2>2. RemarksAndNamesAsEntered /\ NetAsEntered => RemarksAndNamesAsEntered' /\ NetAsEntered'
        BY <1>2, <1>3 DEF RemarksAndNamesAsEntered, NetAsEntered
    <2>3. ~db.current => CurrentIsWhole'
        BY <1>3 DEF CurrentIsWhole
    <2> QED BY <1>2, <1>3, <2>1, <2>2, <2>3 DEF AsEntered
<1>9. ~db.current => BehindAlone(step, db')
    BY <1>2, <1>3 DEF BehindAlone, Upgrading, AfterLocation, AfterFrequency, AfterUsers,
           AfterViewOnly, AfterMode, AfterSeeds, AfterSavedStations, AfterMemberIds, AfterAccess
<1> QED BY <1>2, <1>3, <1>4, <1>5, <1>6, <1>7, <1>8, <1>9, Written

LEMMA DeleteUlsKeeps ==
    ASSUME UpgradeInv, NEW p \in Processes, DeleteUls(p)
    PROVE  UpgradeInv'
<1>0. PICK left \in {{}, db.stations.leftovers} :
          Does(p, "deleteUls", [db EXCEPT !.stations.leftovers = left], "location")
    BY DEF DeleteUls
<1>1. {"deleteUls", "location"} \subseteq Upgrading
    BY DEF Upgrading
<1>2. /\ process[p] \in Step /\ process[p].at = "deleteUls" /\ process[p].at \in Upgrading
      /\ UNCHANGED entered /\ db' = [db EXCEPT !.stations.leftovers = left]
      /\ At("location") \in Step /\ At("location").at = "location" /\ At("location").at # "open"
      /\ ~At("location").read
      /\ Goes(p, At("location")) /\ process' \in [Processes -> Step]
      /\ \A q \in Processes : q # p => process'[q] = process[q]
      /\ process'[p] = At("location") /\ together' \in BOOLEAN
    BY <1>1, DoesIs, <1>0
<1>3. /\ DOMAIN db' = DOMAIN db /\ DOMAIN db'.stations = DOMAIN db.stations
      /\ db'.stations.member_id = db.stations.member_id /\ db'.stations.leftovers = left
      /\ db'.current = db.current /\ db'.users = db.users /\ db'.seeds = db.seeds
      /\ db'.uls = db.uls /\ db'.saved = db.saved /\ db'.net = db.net
    BY <1>2 DEF UpgradeInv, Shape
<1>4. Shape'
    BY <1>2, <1>3 DEF UpgradeInv, Shape
<1>5. Kept'
    BY <1>2, <1>3 DEF UpgradeInv, Kept, StationsKept
<1>6. (\A at : Behind(at, db) => Behind(at, db')) /\ Behind("location", db')
    <2>1. \A at : Behind(at, db) => Behind(at, db')
        BY <1>3 DEF Behind
    <2>2. Behind("deleteUls", db)
        BY <1>2 DEF UpgradeInv
    <2> QED BY <1>1, <1>3, <2>1, <2>2 DEF Behind, Upgrading, AfterLocation, AfterFrequency, AfterUsers,
           AfterViewOnly, AfterMode, AfterSeeds, AfterSavedStations, AfterMemberIds, AfterAccess
<1>7. SeedsBlank' /\ MembersMovedLast'
    BY <1>2, <1>3 DEF UpgradeInv, SeedsBlank, MembersMovedLast
<1>8. AsEntered /\ ~db.current => AsEntered'
    <2>1. MemberIdsAsEntered => MemberIdsAsEntered'
        BY <1>2, <1>3 DEF MemberIdsAsEntered, MemberId
    <2>2. RemarksAndNamesAsEntered /\ NetAsEntered => RemarksAndNamesAsEntered' /\ NetAsEntered'
        BY <1>2, <1>3 DEF RemarksAndNamesAsEntered, NetAsEntered
    <2>3. ~db.current => CurrentIsWhole'
        BY <1>3 DEF CurrentIsWhole
    <2> QED BY <1>2, <1>3, <2>1, <2>2, <2>3 DEF AsEntered
<1>9. ~db.current => BehindAlone(At("location"), db')
    BY <1>2, <1>3 DEF BehindAlone, Upgrading, AfterLocation, AfterFrequency, AfterUsers,
           AfterViewOnly, AfterMode, AfterSeeds, AfterSavedStations, AfterMemberIds, AfterAccess
<1> QED BY <1>2, <1>3, <1>4, <1>5, <1>6, <1>7, <1>8, <1>9, Written

(* The nets' free text is read, and later what was made of it is written.     *)
LEMMA NormalizeKeeps ==
    ASSUME UpgradeInv, NEW p \in Processes, NEW field \in Fields, NEW next \in Upgrading,
           field \in Upgrading, next # "deleteUls", Normalize(p, field, next),
           \A d : Behind(field, d) /\ d.net[field] # "free text" => Behind(next, d),
           \A d, s : s.at = field /\ BehindAlone(s, d) => BehindAlone(At(next), d)
    PROVE  UpgradeInv'
<1>0. field \in Upgrading \ {"copyUls", "deleteUls"} /\ field # "users" /\ field # "savedStations"
    BY DEF Fields
<1>1. CASE Looks(p, field, db.net[field] = "free text", next)
    <2> DEFINE needed == db.net[field] = "free text"
    <2>1. needed \in BOOLEAN /\ Looks(p, field, needed, next)
        BY <1>1
    <2>2. process[p].at = field
        BY <1>0, <1>1, StepsAre DEF Looks
    <2>3. ~needed => Behind(next, db)
        BY <2>2 DEF UpgradeInv
    <2>4. BehindAlone(process[p], db) => BehindAlone(At(next), db)
        BY <2>2
    <2> HIDE DEF needed
    <2> QED BY <1>0, <2>1, <2>3, <2>4, LooksKeeps
<1>2. CASE Does(p, field, [db EXCEPT !.net[field] = "valid"], next)
    <2>1. /\ process[p] \in Step /\ process[p].at = field /\ process[p].at \in Upgrading
          /\ UNCHANGED entered /\ db' = [db EXCEPT !.net[field] = "valid"]
          /\ At(next) \in Step /\ At(next).at = next /\ At(next).at # "open"
          /\ Goes(p, At(next)) /\ process' \in [Processes -> Step]
          /\ \A q \in Processes : q # p => process'[q] = process[q]
          /\ process'[p] = At(next) /\ together' \in BOOLEAN
        BY <1>2, DoesIs
    <2>2. /\ DOMAIN db' = DOMAIN db /\ DOMAIN db'.net = Fields
          /\ db'.net[field] = "valid" /\ \A f \in Fields : f # field => db'.net[f] = db.net[f]
          /\ db'.current = db.current /\ db'.users = db.users /\ db'.seeds = db.seeds
          /\ db'.uls = db.uls /\ db'.saved = db.saved /\ db'.stations = db.stations
        BY <2>1 DEF UpgradeInv, Shape
    <2>3. Shape'
        BY <2>1, <2>2 DEF UpgradeInv, Shape
    <2>4. Kept'
        <3>1. \A q \in Processes : process'[q].at = "deleteUls" => process'[q] = process[q]
            BY <2>1
        <3>2. StationsKept'
            BY <2>1, <2>2 DEF UpgradeInv, Kept, StationsKept
        <3> QED BY <2>2, <3>1, <3>2 DEF UpgradeInv, Kept
    <2>5. \A at : Behind(at, db) => Behind(at, db')
        <3>1. \A f \in Fields : db.net[f] # "free text" => db'.net[f] # "free text"
            BY <2>2
        <3>2. {"location", "frequency", "mode"} = Fields
            BY DEF Fields
        <3> QED BY <2>2, <3>1, <3>2 DEF Behind
    <2>6. Behind(next, db')
        <3>1. Behind(field, db)
            BY <2>1 DEF UpgradeInv
        <3> QED BY <2>2, <2>5, <3>1
    <2>7. SeedsBlank' /\ MembersMovedLast'
        BY <2>1, <2>2 DEF UpgradeInv, SeedsBlank, MembersMovedLast
    <2>8. AsEntered /\ NothingEntered /\ ~db.current => AsEntered'
        <3>1. MemberIdsAsEntered => MemberIdsAsEntered'
            BY <2>1, <2>2 DEF MemberIdsAsEntered, MemberId
        <3>2. RemarksAndNamesAsEntered => RemarksAndNamesAsEntered'
            BY <2>1, <2>2 DEF RemarksAndNamesAsEntered
        <3>3. NothingEntered => NetAsEntered'
            BY <2>1 DEF NothingEntered, NetAsEntered
        <3>4. ~db.current => CurrentIsWhole'
            BY <2>2 DEF CurrentIsWhole
        <3> QED BY <2>1, <2>2, <3>1, <3>2, <3>3, <3>4 DEF AsEntered
    <2>9. Alone => BehindAlone(At(next), db')
        <3>1. BehindAlone(process[p], db) => BehindAlone(process[p], db')
            BY <2>2 DEF BehindAlone
        <3> QED BY <2>1, <3>1 DEF Alone
    <2> QED BY <2>1, <2>2, <2>3, <2>4, <2>5, <2>6, <2>7, <2>8, <2>9, Written
<1> QED BY <1>1, <1>2 DEF Normalize

LEMMA NormalizesKeep ==
    ASSUME UpgradeInv, NEW p \in Processes,
           NormalizeNetZips(p) \/ NormalizeNetFrequencies(p) \/ NormalizeNetModes(p)
    PROVE  UpgradeInv'
<1>0. Fields = {"location", "frequency", "mode"} /\ {"users", "seeds"} \subseteq Upgrading
      /\ Fields \subseteq Upgrading
    BY DEF Fields, Upgrading
<1>1. /\ At("frequency").at = "frequency" /\ ~At("frequency").read
      /\ At("users").at = "users" /\ ~At("users").read
      /\ At("seeds").at = "seeds" /\ ~At("seeds").read
    BY <1>0, StepsAre
<1>2. CASE NormalizeNetZips(p)
    <2>1. \A d : Behind("location", d) /\ d.net["location"] # "free text" => Behind("frequency", d)
        BY DEF Behind, Upgrading, AfterLocation, AfterFrequency, AfterUsers,
           AfterViewOnly, AfterMode, AfterSeeds, AfterSavedStations, AfterMemberIds, AfterAccess
    <2>2. \A d, s : s.at = "location" /\ BehindAlone(s, d) => BehindAlone(At("frequency"), d)
        BY <1>1 DEF BehindAlone, Upgrading, AfterLocation, AfterFrequency, AfterUsers,
           AfterViewOnly, AfterMode, AfterSeeds, AfterSavedStations, AfterMemberIds, AfterAccess
    <2> QED BY <1>0, <1>2, <2>1, <2>2, NormalizeKeeps DEF NormalizeNetZips
<1>3. CASE NormalizeNetFrequencies(p)
    <2>1. \A d : Behind("frequency", d) /\ d.net["frequency"] # "free text" => Behind("users", d)
        BY DEF Behind, Upgrading, AfterLocation, AfterFrequency, AfterUsers,
           AfterViewOnly, AfterMode, AfterSeeds, AfterSavedStations, AfterMemberIds, AfterAccess
    <2>2. \A d, s : s.at = "frequency" /\ BehindAlone(s, d) => BehindAlone(At("users"), d)
        BY <1>1 DEF BehindAlone, Upgrading, AfterLocation, AfterFrequency, AfterUsers,
           AfterViewOnly, AfterMode, AfterSeeds, AfterSavedStations, AfterMemberIds, AfterAccess
    <2> QED BY <1>0, <1>3, <2>1, <2>2, NormalizeKeeps DEF NormalizeNetFrequencies
<1>4. CASE NormalizeNetModes(p)
    <2>1. \A d : Behind("mode", d) /\ d.net["mode"] # "free text" => Behind("seeds", d)
        BY DEF Behind, Upgrading, AfterLocation, AfterFrequency, AfterUsers,
           AfterViewOnly, AfterMode, AfterSeeds, AfterSavedStations, AfterMemberIds, AfterAccess
    <2>2. \A d, s : s.at = "mode" /\ BehindAlone(s, d) => BehindAlone(At("seeds"), d)
        BY <1>1 DEF BehindAlone, Upgrading, AfterLocation, AfterFrequency, AfterUsers,
           AfterViewOnly, AfterMode, AfterSeeds, AfterSavedStations, AfterMemberIds, AfterAccess
    <2> QED BY <1>0, <1>4, <2>1, <2>2, NormalizeKeeps DEF NormalizeNetModes
<1> QED BY <1>2, <1>3, <1>4

LEMMA AddViewOnlyKeeps ==
    ASSUME UpgradeInv, NEW p \in Processes, AddViewOnly(p)
    PROVE  UpgradeInv'
<1>1. {"viewOnly", "mode"} \subseteq Upgrading
    BY DEF Upgrading
<1>2. /\ process[p] \in Step /\ process[p].at = "viewOnly" /\ process[p].at \in Upgrading
      /\ UNCHANGED entered /\ db' = WithUsers("view_only")
      /\ At("mode") \in Step /\ At("mode").at = "mode" /\ At("mode").at # "open"
      /\ ~At("mode").read
      /\ Goes(p, At("mode")) /\ process' \in [Processes -> Step]
      /\ \A q \in Processes : q # p => process'[q] = process[q]
      /\ process'[p] = At("mode") /\ together' \in BOOLEAN
    BY <1>1, DoesIs DEF AddViewOnly
<1>3. /\ DOMAIN db' = DOMAIN db /\ DOMAIN db'.users = DOMAIN db.users
      /\ db'.users.columns = db.users.columns \cup {"view_only"} /\ db'.users.level = db.users.level
      /\ db'.current = db.current /\ db'.net = db.net /\ db'.seeds = db.seeds
      /\ db'.uls = db.uls /\ db'.saved = db.saved /\ db'.stations = db.stations
    BY <1>2 DEF WithUsers, UpgradeInv, Shape
<1>4. Shape'
    BY <1>2, <1>3 DEF UpgradeInv, Shape, UserColumns
<1>5. Kept'
    BY <1>2, <1>3 DEF UpgradeInv, Kept, StationsKept
<1>6. (\A at : Behind(at, db) => Behind(at, db')) /\ Behind("mode", db')
    <2>1. \A at : Behind(at, db) => Behind(at, db')
        BY <1>3 DEF Behind
    <2>2. Behind("viewOnly", db)
        BY <1>2 DEF UpgradeInv
    <2> QED BY <1>1, <1>3, <2>1, <2>2 DEF Behind, Upgrading, AfterLocation, AfterFrequency, AfterUsers,
           AfterViewOnly, AfterMode, AfterSeeds, AfterSavedStations, AfterMemberIds, AfterAccess
<1>7. SeedsBlank' /\ MembersMovedLast'
    BY <1>2, <1>3 DEF UpgradeInv, SeedsBlank, MembersMovedLast
<1>8. AsEntered /\ ~db.current => AsEntered'
    <2>1. MemberIdsAsEntered => MemberIdsAsEntered'
        BY <1>2, <1>3 DEF MemberIdsAsEntered, MemberId
    <2>2. RemarksAndNamesAsEntered /\ NetAsEntered => RemarksAndNamesAsEntered' /\ NetAsEntered'
        BY <1>2, <1>3 DEF RemarksAndNamesAsEntered, NetAsEntered
    <2>3. ~db.current => CurrentIsWhole'
        BY <1>3 DEF CurrentIsWhole
    <2> QED BY <1>2, <1>3, <2>1, <2>2, <2>3 DEF AsEntered
<1>9. Alone => BehindAlone(At("mode"), db')
    <2>1. Alone => BehindAlone(process[p], db)
        BY DEF Alone
    <2> QED BY <1>1, <1>2, <1>3, <2>1 DEF BehindAlone, Upgrading, AfterLocation, AfterFrequency, AfterUsers,
           AfterViewOnly, AfterMode, AfterSeeds, AfterSavedStations, AfterMemberIds, AfterAccess
<1> QED BY <1>2, <1>3, <1>4, <1>5, <1>6, <1>7, <1>8, <1>9, Written

LEMMA AddAccessLevelKeeps ==
    ASSUME UpgradeInv, NEW p \in Processes, AddAccessLevel(p)
    PROVE  UpgradeInv'
<1>1. {"access", "version"} \subseteq Upgrading
    BY DEF Upgrading
<1>2. /\ process[p] \in Step /\ process[p].at = "access" /\ process[p].at \in Upgrading
      /\ UNCHANGED entered /\ db' = WithUsers("access_level")
      /\ At("version") \in Step /\ At("version").at = "version" /\ At("version").at # "open"
      /\ ~At("version").read
      /\ Goes(p, At("version")) /\ process' \in [Processes -> Step]
      /\ \A q \in Processes : q # p => process'[q] = process[q]
      /\ process'[p] = At("version") /\ together' \in BOOLEAN
    BY <1>1, DoesIs DEF AddAccessLevel
<1>3. /\ DOMAIN db' = DOMAIN db /\ DOMAIN db'.users = DOMAIN db.users
      /\ db'.users.columns = db.users.columns \cup {"access_level"} /\ db'.users.level = db.users.level
      /\ db'.current = db.current /\ db'.net = db.net /\ db'.seeds = db.seeds
      /\ db'.uls = db.uls /\ db'.saved = db.saved /\ db'.stations = db.stations
    BY <1>2 DEF WithUsers, UpgradeInv, Shape
<1>4. Shape'
    BY <1>2, <1>3 DEF UpgradeInv, Shape, UserColumns
<1>5. Kept'
    BY <1>2, <1>3 DEF UpgradeInv, Kept, StationsKept
<1>6. (\A at : Behind(at, db) => Behind(at, db')) /\ Behind("version", db')
    <2>1. \A at : Behind(at, db) => Behind(at, db')
        BY <1>3 DEF Behind
    <2>2. Behind("access", db)
        BY <1>2 DEF UpgradeInv
    <2> QED BY <1>1, <1>3, <2>1, <2>2 DEF Behind, Upgrading, AfterLocation, AfterFrequency, AfterUsers,
           AfterViewOnly, AfterMode, AfterSeeds, AfterSavedStations, AfterMemberIds, AfterAccess
<1>7. SeedsBlank' /\ MembersMovedLast'
    BY <1>2, <1>3 DEF UpgradeInv, SeedsBlank, MembersMovedLast
<1>8. AsEntered /\ ~db.current => AsEntered'
    <2>1. MemberIdsAsEntered => MemberIdsAsEntered'
        BY <1>2, <1>3 DEF MemberIdsAsEntered, MemberId
    <2>2. RemarksAndNamesAsEntered /\ NetAsEntered => RemarksAndNamesAsEntered' /\ NetAsEntered'
        BY <1>2, <1>3 DEF RemarksAndNamesAsEntered, NetAsEntered
    <2>3. ~db.current => CurrentIsWhole'
        BY <1>3 DEF CurrentIsWhole
    <2> QED BY <1>2, <1>3, <2>1, <2>2, <2>3 DEF AsEntered
<1>9. Alone => BehindAlone(At("version"), db')
    <2>1. Alone => BehindAlone(process[p], db)
        BY DEF Alone
    <2> QED BY <1>1, <1>2, <1>3, <2>1 DEF BehindAlone, Upgrading, AfterLocation, AfterFrequency, AfterUsers,
           AfterViewOnly, AfterMode, AfterSeeds, AfterSavedStations, AfterMemberIds, AfterAccess
<1> QED BY <1>2, <1>3, <1>4, <1>5, <1>6, <1>7, <1>8, <1>9, Written
LEMMA UpgradeUsersTableKeeps ==
    ASSUME UpgradeInv, NEW p \in Processes, UpgradeUsersTable(p)
    PROVE  UpgradeInv'
<1>1. CASE Looks(p, "users", "id" \notin db.users.columns, "viewOnly")
    <2>1. /\ "users" \in Upgrading \ {"copyUls", "deleteUls"} /\ "viewOnly" \in Upgrading \ {"deleteUls"}
          /\ process[p].at = "users" /\ At("viewOnly").at = "viewOnly" /\ ~At("viewOnly").read
        BY <1>1, StepsAre DEF Looks, Upgrading
    <2>2. ("id" \notin db.users.columns) \in BOOLEAN
        BY DEF UpgradeInv, Shape
    <2>3. ~("id" \notin db.users.columns) => Behind("viewOnly", db)
        <3>1. Behind("users", db)
            BY <2>1 DEF UpgradeInv
        <3> QED BY <2>1, <3>1 DEF Behind, Upgrading, AfterLocation, AfterFrequency, AfterUsers,
           AfterViewOnly, AfterMode, AfterSeeds, AfterSavedStations, AfterMemberIds, AfterAccess
    <2>4. ~("id" \notin db.users.columns) /\ BehindAlone(process[p], db) => BehindAlone(At("viewOnly"), db)
        BY <2>1 DEF BehindAlone, Upgrading, AfterLocation, AfterFrequency, AfterUsers,
           AfterViewOnly, AfterMode, AfterSeeds, AfterSavedStations, AfterMemberIds, AfterAccess
    <2> QED BY <1>1, <2>1, <2>2, <2>3, <2>4, LooksKeeps
<1>2. CASE process[p].read /\ Does(p, "users", [db EXCEPT !.users = [columns |-> {"id"}, level |-> [u \in Usernames |-> "full"]]], "viewOnly")
    <2>1. {"users", "viewOnly"} \subseteq Upgrading
        BY DEF Upgrading
    <2>2. /\ process[p] \in Step /\ process[p].at = "users" /\ process[p].at \in Upgrading
          /\ UNCHANGED entered /\ db' = [db EXCEPT !.users = [columns |-> {"id"}, level |-> [u \in Usernames |-> "full"]]]
          /\ At("viewOnly") \in Step /\ At("viewOnly").at = "viewOnly" /\ At("viewOnly").at # "open"
          /\ ~At("viewOnly").read
          /\ Goes(p, At("viewOnly")) /\ process' \in [Processes -> Step]
          /\ \A q \in Processes : q # p => process'[q] = process[q]
          /\ process'[p] = At("viewOnly") /\ together' \in BOOLEAN
        BY <2>1, DoesIs, <1>2
    <2>3. /\ DOMAIN db' = DOMAIN db /\ DOMAIN db'.users = DOMAIN db.users
          /\ db'.users.columns = {"id"} /\ db'.users.level = NobodyViewOnly
          /\ db'.current = db.current /\ db'.net = db.net /\ db'.seeds = db.seeds
          /\ db'.uls = db.uls /\ db'.saved = db.saved /\ db'.stations = db.stations
        BY <2>2 DEF NobodyViewOnly, UpgradeInv, Shape
    <2>4. Shape'
        BY <2>2, <2>3 DEF UpgradeInv, Shape, UserColumns, NobodyViewOnly, Levels
    <2>5. Kept'
        BY <2>2, <2>3 DEF UpgradeInv, Kept, StationsKept
    <2>6. (\A at : Behind(at, db) => Behind(at, db')) /\ Behind("viewOnly", db')
        <3>1. \A at : Behind(at, db) => Behind(at, db')
            BY <2>3 DEF Behind
        <3>2. Behind("users", db)
            BY <2>2 DEF UpgradeInv
        <3> QED BY <2>1, <2>3, <3>1, <3>2 DEF Behind, Upgrading, AfterLocation, AfterFrequency, AfterUsers,
               AfterViewOnly, AfterMode, AfterSeeds, AfterSavedStations, AfterMemberIds, AfterAccess
    <2>7. SeedsBlank' /\ MembersMovedLast'
        BY <2>2, <2>3 DEF UpgradeInv, SeedsBlank, MembersMovedLast
    <2>8. "earliest" \notin Releases /\ Alone /\ AsEntered /\ NothingEntered /\ ~db.current
              => AsEntered'
        <3>1. MemberIdsAsEntered => MemberIdsAsEntered'
            BY <2>2, <2>3 DEF MemberIdsAsEntered, MemberId
        <3>2. RemarksAndNamesAsEntered /\ NetAsEntered => RemarksAndNamesAsEntered' /\ NetAsEntered'
            BY <2>2, <2>3 DEF RemarksAndNamesAsEntered, NetAsEntered
        <3>3. ~db.current => CurrentIsWhole'
            BY <2>3 DEF CurrentIsWhole
        <3>4. NothingEntered => db'.users.level = entered'.level
            BY <2>2, <2>3 DEF NothingEntered
        <3> QED BY <3>1, <3>2, <3>3, <3>4 DEF AsEntered
    <2>9. Alone => BehindAlone(At("viewOnly"), db')
        <3>1. Alone => BehindAlone(process[p], db)
            BY DEF Alone
        <3> QED BY <2>1, <2>2, <2>3, <3>1 DEF BehindAlone, Upgrading, AfterLocation, AfterFrequency, AfterUsers,
               AfterViewOnly, AfterMode, AfterSeeds, AfterSavedStations, AfterMemberIds, AfterAccess
    <2> QED BY <2>2, <2>3, <2>4, <2>5, <2>6, <2>7, <2>8, <2>9, Written
<1> QED BY <1>1, <1>2 DEF UpgradeUsersTable

LEMMA DropOldSeedStationsKeeps ==
    ASSUME UpgradeInv, NEW p \in Processes, DropOldSeedStations(p)
    PROVE  UpgradeInv'
<1>1. CASE Looks(p, "seeds", db.seeds.exists, "savedStations")
    <2>1. /\ "seeds" \in Upgrading \ {"copyUls", "deleteUls"} /\ "savedStations" \in Upgrading \ {"deleteUls"}
          /\ process[p].at = "seeds" /\ At("savedStations").at = "savedStations" /\ ~At("savedStations").read
        BY <1>1, StepsAre DEF Looks, Upgrading
    <2>2. (db.seeds.exists) \in BOOLEAN
        BY DEF UpgradeInv, Shape
    <2>3. ~(db.seeds.exists) => Behind("savedStations", db)
        <3>1. Behind("seeds", db)
            BY <2>1 DEF UpgradeInv
        <3> QED BY <2>1, <3>1 DEF Behind, Upgrading, AfterLocation, AfterFrequency, AfterUsers,
           AfterViewOnly, AfterMode, AfterSeeds, AfterSavedStations, AfterMemberIds, AfterAccess
    <2>4. ~(db.seeds.exists) /\ BehindAlone(process[p], db) => BehindAlone(At("savedStations"), db)
        BY <2>1 DEF BehindAlone, Upgrading, AfterLocation, AfterFrequency, AfterUsers,
           AfterViewOnly, AfterMode, AfterSeeds, AfterSavedStations, AfterMemberIds, AfterAccess
    <2> QED BY <1>1, <2>1, <2>2, <2>3, <2>4, LooksKeeps
<1>2. CASE process[p].read /\ db.seeds.exists /\ Does(p, "seeds", MoveSeeds(db), "savedStations")
    <2>1. {"seeds", "savedStations"} \subseteq Upgrading
        BY DEF Upgrading
    <2>2. /\ process[p] \in Step /\ process[p].at = "seeds" /\ process[p].at \in Upgrading
          /\ UNCHANGED entered /\ db' = MoveSeeds(db)
          /\ At("savedStations") \in Step /\ At("savedStations").at = "savedStations" /\ At("savedStations").at # "open"
          /\ ~At("savedStations").read
          /\ Goes(p, At("savedStations")) /\ process' \in [Processes -> Step]
          /\ \A q \in Processes : q # p => process'[q] = process[q]
          /\ process'[p] = At("savedStations") /\ together' \in BOOLEAN
        BY <2>1, DoesIs, <1>2
    <2>3. /\ DOMAIN db' = DOMAIN db /\ DOMAIN db'.saved = DOMAIN db.saved
          /\ DOMAIN db'.seeds = DOMAIN db.seeds
          /\ db'.saved.columns = db.saved.columns
          /\ db'.saved.rows = [s \in DOMAIN db.saved.rows \cup db.seeds.rows |->
                                IF s \in DOMAIN db.saved.rows THEN db.saved.rows[s] ELSE Blank]
          /\ db'.seeds.exists = FALSE /\ db'.seeds.rows = {}
          /\ db'.current = db.current /\ db'.net = db.net /\ db'.users = db.users
          /\ db'.uls = db.uls /\ db'.stations = db.stations
        BY <2>2 DEF MoveSeeds, Inserted, Seedless, UpgradeInv, Shape
    <2>10. /\ DOMAIN Blank = SavedColumns /\ Blank.default_remarks = "" /\ Blank.name = ""
           /\ Blank["default_remarks"] = "" /\ Blank["name"] = ""
        BY DEF Blank, SavedColumns
    <2>11. DOMAIN entered.saved = DOMAIN db'.saved.rows
        BY <2>3 DEF UpgradeInv, Kept, StationsKept
    <2>4. Shape'
        BY <2>2, <2>3, <2>10 DEF UpgradeInv, Shape
    <2>5. Kept'
        BY <2>2, <2>3, <2>11 DEF UpgradeInv, Kept, StationsKept
    <2>6. (\A at : Behind(at, db) => Behind(at, db')) /\ Behind("savedStations", db')
        <3>1. \A at : Behind(at, db) => Behind(at, db')
            BY <2>3 DEF Behind
        <3>2. Behind("seeds", db)
            BY <2>2 DEF UpgradeInv
        <3> QED BY <2>1, <2>3, <3>1, <3>2 DEF Behind, Upgrading, AfterLocation, AfterFrequency, AfterUsers,
               AfterViewOnly, AfterMode, AfterSeeds, AfterSavedStations, AfterMemberIds, AfterAccess
    <2>7. SeedsBlank' /\ MembersMovedLast'
        BY <2>2, <2>3, <2>11 DEF UpgradeInv, SeedsBlank, MembersMovedLast
    <2>8. "earliest" \notin Releases /\ Alone /\ AsEntered /\ NothingEntered /\ ~db.current
              => AsEntered'
        <3>1. "earliest" \notin Releases /\ MemberIdsAsEntered => MemberIdsAsEntered'
            <4>1. "earliest" \notin Releases => \A s : MemberId(s)' = MemberId(s)
                BY <2>3 DEF MemberId, UpgradeInv, MembersMovedLast
            <4> QED BY <2>2, <4>1 DEF MemberIdsAsEntered
        <3>2. RemarksAndNamesAsEntered => RemarksAndNamesAsEntered'
            <4>1. \A s \in DOMAIN db'.saved.rows \ DOMAIN db.saved.rows :
                      entered.saved[s].default_remarks = "" /\ entered.saved[s].name = ""
                BY <2>11 DEF UpgradeInv, SeedsBlank
            <4>2. \A s \in DOMAIN db'.saved.rows \ DOMAIN db.saved.rows : db'.saved.rows[s] = Blank
                BY <2>3
            <4>3. \A s \in DOMAIN db.saved.rows : db'.saved.rows[s] = db.saved.rows[s]
                BY <2>3
            <4>4. \A s \in DOMAIN db'.saved.rows \ DOMAIN db.saved.rows :
                      \A c \in {"default_remarks", "name"} : db'.saved.rows[s][c] = entered.saved[s][c]
                BY <2>10, <4>1, <4>2
            <4> QED BY <2>2, <4>3, <4>4 DEF RemarksAndNamesAsEntered
        <3>3. ~db.current => CurrentIsWhole'
            BY <2>3 DEF CurrentIsWhole
        <3>4. NetAsEntered => NetAsEntered'
            BY <2>2, <2>3 DEF NetAsEntered
        <3> QED BY <2>2, <2>3, <3>1, <3>2, <3>3, <3>4 DEF AsEntered
    <2>9. Alone => BehindAlone(At("savedStations"), db')
        <3>1. Alone => BehindAlone(process[p], db)
            BY DEF Alone
        <3> QED BY <2>1, <2>2, <2>3, <3>1 DEF BehindAlone, Upgrading, AfterLocation, AfterFrequency, AfterUsers,
               AfterViewOnly, AfterMode, AfterSeeds, AfterSavedStations, AfterMemberIds, AfterAccess
    <2> QED BY <2>2, <2>3, <2>4, <2>5, <2>6, <2>7, <2>8, <2>9, Written
<1> QED BY <1>1, <1>2 DEF DropOldSeedStations
LEMMA UpgradeSavedStationsTableKeeps ==
    ASSUME UpgradeInv, NEW p \in Processes, UpgradeSavedStationsTable(p)
    PROVE  UpgradeInv'
<1>1. CASE Looks(p, "savedStations", "name" \notin db.saved.columns, "memberIds")
    <2>1. /\ "savedStations" \in Upgrading \ {"copyUls", "deleteUls"} /\ "memberIds" \in Upgrading \ {"deleteUls"}
          /\ process[p].at = "savedStations" /\ At("memberIds").at = "memberIds" /\ ~At("memberIds").read
        BY <1>1, StepsAre DEF Looks, Upgrading
    <2>2. ("name" \notin db.saved.columns) \in BOOLEAN
        BY DEF UpgradeInv, Shape
    <2>3. ~("name" \notin db.saved.columns) => Behind("memberIds", db)
        <3>1. Behind("savedStations", db)
            BY <2>1 DEF UpgradeInv
        <3> QED BY <2>1, <3>1 DEF Behind, Upgrading, AfterLocation, AfterFrequency, AfterUsers,
           AfterViewOnly, AfterMode, AfterSeeds, AfterSavedStations, AfterMemberIds, AfterAccess
    <2>4. ~("name" \notin db.saved.columns) /\ BehindAlone(process[p], db) => BehindAlone(At("memberIds"), db)
        BY <2>1 DEF BehindAlone, Upgrading, AfterLocation, AfterFrequency, AfterUsers,
           AfterViewOnly, AfterMode, AfterSeeds, AfterSavedStations, AfterMemberIds, AfterAccess
    <2> QED BY <1>1, <2>1, <2>2, <2>3, <2>4, LooksKeeps
<1>2. CASE process[p].read /\ Does(p, "savedStations",
            [db EXCEPT !.saved =
                    [columns |-> {"default_remarks", "name"},
                     rows |-> [s \in DOMAIN @.rows |->
                                [Blank EXCEPT !.default_remarks = db.saved.rows[s].default_remarks]]]],
            "memberIds")
    <2>1. {"savedStations", "memberIds"} \subseteq Upgrading
        BY DEF Upgrading
    <2>2. /\ process[p] \in Step /\ process[p].at = "savedStations" /\ process[p].at \in Upgrading
          /\ UNCHANGED entered /\ db' = [db EXCEPT !.saved =
                        [columns |-> {"default_remarks", "name"},
                         rows |-> [s \in DOMAIN @.rows |->
                                    [Blank EXCEPT !.default_remarks = db.saved.rows[s].default_remarks]]]]
          /\ At("memberIds") \in Step /\ At("memberIds").at = "memberIds" /\ At("memberIds").at # "open"
          /\ ~At("memberIds").read
          /\ Goes(p, At("memberIds")) /\ process' \in [Processes -> Step]
          /\ \A q \in Processes : q # p => process'[q] = process[q]
          /\ process'[p] = At("memberIds") /\ together' \in BOOLEAN
        BY <2>1, DoesIs, <1>2
    <2>3. /\ DOMAIN db' = DOMAIN db /\ DOMAIN db'.saved = DOMAIN db.saved
          /\ db'.saved.columns = {"default_remarks", "name"}
          /\ db'.saved.rows = [s \in DOMAIN db.saved.rows |->
                    [Blank EXCEPT !.default_remarks = db.saved.rows[s].default_remarks]]
          /\ db'.current = db.current /\ db'.net = db.net /\ db'.users = db.users
          /\ db'.uls = db.uls /\ db'.stations = db.stations /\ db'.seeds = db.seeds
        BY <2>2 DEF UpgradeInv, Shape
    <2>10. /\ DOMAIN db'.saved.rows = DOMAIN db.saved.rows
           /\ \A s \in DOMAIN db.saved.rows :
                  /\ DOMAIN db'.saved.rows[s] = SavedColumns
                  /\ db'.saved.rows[s]["default_remarks"] = db.saved.rows[s]["default_remarks"]
                  /\ db'.saved.rows[s]["name"] = ""
        <3>1. \A v : LET row == [Blank EXCEPT !.default_remarks = v]
                     IN  DOMAIN row = SavedColumns /\ row["default_remarks"] = v /\ row["name"] = ""
            BY DEF Blank, SavedColumns
        <3>2. \A s \in DOMAIN db.saved.rows :
                  db'.saved.rows[s] =
                      [Blank EXCEPT !.default_remarks = db.saved.rows[s]["default_remarks"]]
            BY <2>3
        <3>3. ASSUME NEW s \in DOMAIN db.saved.rows
              PROVE  /\ DOMAIN db'.saved.rows[s] = SavedColumns
                     /\ db'.saved.rows[s]["default_remarks"] = db.saved.rows[s]["default_remarks"]
                     /\ db'.saved.rows[s]["name"] = ""
            <4> DEFINE v == db.saved.rows[s]["default_remarks"]
                       row == [Blank EXCEPT !.default_remarks = v]
            <4>1. DOMAIN row = SavedColumns /\ row["default_remarks"] = v /\ row["name"] = ""
                BY <3>1
            <4>2. db'.saved.rows[s] = row
                BY <3>2
            <4> QED BY <4>1, <4>2
        <3> QED BY <2>3, <3>3
    <2>11. "earliest" \notin Releases /\ Alone => /\ "name" \notin db.saved.columns
                                               /\ "member_id" \notin db.saved.columns
        BY <1>2, <2>2 DEF Alone, BehindAlone, UpgradeInv, MembersMovedLast
    <2>4. Shape'
        BY <2>2, <2>3, <2>10 DEF UpgradeInv, Shape, SavedColumns
    <2>5. Kept'
        BY <2>2, <2>3, <2>10 DEF UpgradeInv, Kept, StationsKept
    <2>6. (\A at : Behind(at, db) => Behind(at, db')) /\ Behind("memberIds", db')
        <3>1. \A at : Behind(at, db) => Behind(at, db')
            BY <2>3 DEF Behind
        <3>2. Behind("savedStations", db)
            BY <2>2 DEF UpgradeInv
        <3> QED BY <2>1, <2>3, <3>1, <3>2 DEF Behind, Upgrading, AfterLocation, AfterFrequency, AfterUsers,
               AfterViewOnly, AfterMode, AfterSeeds, AfterSavedStations, AfterMemberIds, AfterAccess
    <2>7. SeedsBlank' /\ MembersMovedLast'
        BY <2>2, <2>3, <2>10 DEF UpgradeInv, SeedsBlank, MembersMovedLast
    <2>8. "earliest" \notin Releases /\ Alone /\ AsEntered /\ NothingEntered /\ ~db.current
              => AsEntered'
        <3>1. "earliest" \notin Releases /\ Alone /\ MemberIdsAsEntered => MemberIdsAsEntered'
            <4>1. "earliest" \notin Releases /\ Alone => \A s : MemberId(s)' = MemberId(s)
                BY <2>3, <2>11 DEF MemberId
            <4> QED BY <2>2, <4>1 DEF MemberIdsAsEntered
        <3>2. RemarksAndNamesAsEntered /\ NothingEntered => RemarksAndNamesAsEntered'
            <4>1. NothingEntered => \A s \in DOMAIN db.saved.rows : entered.saved[s]["name"] = ""
                BY DEF NothingEntered, UpgradeInv, Kept, StationsKept
            <4>2. RemarksAndNamesAsEntered => \A s \in DOMAIN db.saved.rows :
                      db.saved.rows[s]["default_remarks"] = entered.saved[s]["default_remarks"]
                BY DEF RemarksAndNamesAsEntered
            <4>3. ASSUME RemarksAndNamesAsEntered, NothingEntered, NEW s \in DOMAIN db'.saved.rows,
                         NEW c \in {"default_remarks", "name"}
                  PROVE  db'.saved.rows[s][c] = entered.saved[s][c]
                <5>1. CASE c = "name"
                    BY <2>10, <4>1, <4>3, <5>1
                <5>2. CASE c = "default_remarks"
                    BY <2>10, <4>2, <4>3, <5>2
                <5> QED BY <5>1, <5>2
            <4> QED BY <2>2, <4>3 DEF RemarksAndNamesAsEntered
        <3>3. ~db.current => CurrentIsWhole'
            BY <2>3 DEF CurrentIsWhole
        <3>4. NetAsEntered => NetAsEntered'
            BY <2>2, <2>3 DEF NetAsEntered
        <3> QED BY <2>2, <2>3, <3>1, <3>2, <3>3, <3>4 DEF AsEntered
    <2>9. Alone => BehindAlone(At("memberIds"), db')
        <3>1. Alone => BehindAlone(process[p], db)
            BY DEF Alone
        <3> QED BY <2>1, <2>2, <2>3, <3>1 DEF BehindAlone, Upgrading, AfterLocation, AfterFrequency, AfterUsers,
               AfterViewOnly, AfterMode, AfterSeeds, AfterSavedStations, AfterMemberIds, AfterAccess
    <2> QED BY <2>2, <2>3, <2>4, <2>5, <2>6, <2>7, <2>8, <2>9, Written
<1> QED BY <1>1, <1>2 DEF UpgradeSavedStationsTable

LEMMA MoveMemberIdsToNetsKeeps ==
    ASSUME UpgradeInv, NEW p \in Processes, MoveMemberIdsToNets(p)
    PROVE  UpgradeInv'
<1>1. CASE Looks(p, "memberIds", "member_id" \notin db.saved.columns, "access")
    <2>1. /\ "memberIds" \in Upgrading \ {"copyUls", "deleteUls"} /\ "access" \in Upgrading \ {"deleteUls"}
          /\ process[p].at = "memberIds" /\ At("access").at = "access" /\ ~At("access").read
        BY <1>1, StepsAre DEF Looks, Upgrading
    <2>2. ("member_id" \notin db.saved.columns) \in BOOLEAN
        BY DEF UpgradeInv, Shape
    <2>3. ~("member_id" \notin db.saved.columns) => Behind("access", db)
        <3>1. Behind("memberIds", db)
            BY <2>1 DEF UpgradeInv
        <3> QED BY <2>1, <3>1 DEF Behind, Upgrading, AfterLocation, AfterFrequency, AfterUsers,
           AfterViewOnly, AfterMode, AfterSeeds, AfterSavedStations, AfterMemberIds, AfterAccess
    <2>4. ~("member_id" \notin db.saved.columns) /\ BehindAlone(process[p], db) => BehindAlone(At("access"), db)
        BY <2>1 DEF BehindAlone, Upgrading, AfterLocation, AfterFrequency, AfterUsers,
           AfterViewOnly, AfterMode, AfterSeeds, AfterSavedStations, AfterMemberIds, AfterAccess
    <2> QED BY <1>1, <2>1, <2>2, <2>3, <2>4, LooksKeeps
<1>2. CASE process[p].read /\ "member_id" \notin db.saved.columns
           /\ Does(p, "memberIds",
            [WithSaved("member_id") EXCEPT
                    !.saved.rows = [s \in DOMAIN @ |->
                        [@[s] EXCEPT !.member_id = db.stations.member_id[s]]],
                    !.stations.member_id = [s \in DOMAIN @ |-> ""]],
            "access")
    <2>1. {"memberIds", "access"} \subseteq Upgrading
        BY DEF Upgrading
    <2>2. /\ process[p] \in Step /\ process[p].at = "memberIds" /\ process[p].at \in Upgrading
          /\ UNCHANGED entered /\ db' = [WithSaved("member_id") EXCEPT
                        !.saved.rows = [s \in DOMAIN @ |->
                            [@[s] EXCEPT !.member_id = db.stations.member_id[s]]],
                        !.stations.member_id = [s \in DOMAIN @ |-> ""]]
          /\ At("access") \in Step /\ At("access").at = "access" /\ At("access").at # "open"
          /\ ~At("access").read
          /\ Goes(p, At("access")) /\ process' \in [Processes -> Step]
          /\ \A q \in Processes : q # p => process'[q] = process[q]
          /\ process'[p] = At("access") /\ together' \in BOOLEAN
        BY <2>1, DoesIs, <1>2
    <2>3. /\ DOMAIN db' = DOMAIN db /\ DOMAIN db'.saved = DOMAIN db.saved
          /\ DOMAIN db'.stations = DOMAIN db.stations
          /\ db'.saved.columns = db.saved.columns \cup {"member_id"}
          /\ db'.saved.rows = [s \in DOMAIN db.saved.rows |->
                    [db.saved.rows[s] EXCEPT !.member_id = db.stations.member_id[s]]]
          /\ DOMAIN db'.stations.member_id = DOMAIN db.stations.member_id
          /\ db'.stations.leftovers = db.stations.leftovers
          /\ db'.current = db.current /\ db'.net = db.net /\ db'.users = db.users
          /\ db'.uls = db.uls /\ db'.seeds = db.seeds
        BY <2>2 DEF WithSaved, UpgradeInv, Shape
    <2>10. /\ DOMAIN db'.saved.rows = DOMAIN db.saved.rows
           /\ \A s \in DOMAIN db.saved.rows :
                  /\ DOMAIN db'.saved.rows[s] = DOMAIN db.saved.rows[s]
                  /\ \A c \in {"default_remarks", "name"} : db'.saved.rows[s][c] = db.saved.rows[s][c]
                  /\ db'.saved.rows[s].member_id = db.stations.member_id[s]
        <3>1. \A r, v : DOMAIN r = SavedColumns =>
                  LET row == [r EXCEPT !.member_id = v]
                  IN  /\ DOMAIN row = SavedColumns /\ row.member_id = v
                      /\ row["default_remarks"] = r["default_remarks"] /\ row["name"] = r["name"]
            BY DEF SavedColumns
        <3>2. \A s \in DOMAIN db.saved.rows :
                  db'.saved.rows[s] = [db.saved.rows[s] EXCEPT !.member_id = db.stations.member_id[s]]
            BY <2>3
        <3>3. \A s \in DOMAIN db.saved.rows : DOMAIN db.saved.rows[s] = SavedColumns
            BY DEF UpgradeInv, Shape
        <3> QED BY <2>3, <3>1, <3>2, <3>3
    <2>11. "name" \in db.saved.columns /\ db.seeds.rows = {} /\ DOMAIN entered.saved = DOMAIN db.saved.rows
        <3>1. Behind("memberIds", db)
            BY <2>2 DEF UpgradeInv
        <3>2. "name" \in db.saved.columns /\ ~db.seeds.exists
            BY <3>1 DEF Behind, Upgrading, AfterLocation, AfterFrequency, AfterUsers,
               AfterViewOnly, AfterMode, AfterSeeds, AfterSavedStations, AfterMemberIds, AfterAccess
        <3> QED BY <3>2 DEF UpgradeInv, Kept, StationsKept
    <2>4. Shape'
        <3>1. db'.saved.columns \subseteq SavedColumns
            BY <2>3 DEF UpgradeInv, Shape, SavedColumns
        <3>2. \A s \in DOMAIN db'.saved.rows : DOMAIN db'.saved.rows[s] = SavedColumns
            BY <2>10 DEF UpgradeInv, Shape
        <3>3. DOMAIN entered'.saved \subseteq DOMAIN db'.stations.member_id
            BY <2>2, <2>3 DEF UpgradeInv, Shape
        <3>4. /\ DOMAIN db' = {"current", "users", "saved", "seeds", "stations", "uls", "net"}
              /\ DOMAIN db'.saved = {"columns", "rows"}
              /\ DOMAIN db'.stations = {"member_id", "leftovers"}
            BY <2>3 DEF UpgradeInv, Shape
        <3> QED BY <2>2, <2>3, <3>1, <3>2, <3>3, <3>4 DEF UpgradeInv, Shape
    <2>5. Kept'
        BY <2>2, <2>3, <2>10 DEF UpgradeInv, Kept, StationsKept
    <2>6. (\A at : Behind(at, db) => Behind(at, db')) /\ Behind("access", db')
        <3>1. \A at : Behind(at, db) => Behind(at, db')
            BY <2>3 DEF Behind
        <3>2. Behind("memberIds", db)
            BY <2>2 DEF UpgradeInv
        <3> QED BY <2>1, <2>3, <3>1, <3>2 DEF Behind, Upgrading, AfterLocation, AfterFrequency, AfterUsers,
               AfterViewOnly, AfterMode, AfterSeeds, AfterSavedStations, AfterMemberIds, AfterAccess
    <2>7. SeedsBlank' /\ MembersMovedLast'
        BY <2>2, <2>3, <2>10, <2>11 DEF UpgradeInv, SeedsBlank, MembersMovedLast
    <2>8. "earliest" \notin Releases /\ Alone /\ AsEntered /\ NothingEntered /\ ~db.current
              => AsEntered'
        <3>1. MemberIdsAsEntered => MemberIdsAsEntered'
            <4>1. \A s \in DOMAIN entered.saved : MemberId(s)' = db.stations.member_id[s]
                BY <2>3, <2>10, <2>11 DEF MemberId
            <4>2. \A s \in DOMAIN entered.saved : MemberId(s) = db.stations.member_id[s]
                BY <1>2 DEF MemberId
            <4> QED BY <2>2, <4>1, <4>2 DEF MemberIdsAsEntered
        <3>2. RemarksAndNamesAsEntered => RemarksAndNamesAsEntered'
            BY <2>2, <2>10 DEF RemarksAndNamesAsEntered
        <3>3. ~db.current => CurrentIsWhole'
            BY <2>3 DEF CurrentIsWhole
        <3>4. NetAsEntered => NetAsEntered'
            BY <2>2, <2>3 DEF NetAsEntered
        <3> QED BY <2>2, <2>3, <3>1, <3>2, <3>3, <3>4 DEF AsEntered
    <2>9. Alone => BehindAlone(At("access"), db')
        <3>1. Alone => BehindAlone(process[p], db)
            BY DEF Alone
        <3> QED BY <2>1, <2>2, <2>3, <3>1 DEF BehindAlone, Upgrading, AfterLocation, AfterFrequency, AfterUsers,
               AfterViewOnly, AfterMode, AfterSeeds, AfterSavedStations, AfterMemberIds, AfterAccess
    <2> QED BY <2>2, <2>3, <2>4, <2>5, <2>6, <2>7, <2>8, <2>9, Written
<1> QED BY <1>1, <1>2 DEF MoveMemberIdsToNets

(* The version is set when everything else has been upgraded.                *)
LEMMA SetVersionKeeps ==
    ASSUME UpgradeInv, NEW p \in Processes, SetVersion(p)
    PROVE  UpgradeInv'
<1>1. /\ process[p].at = "version" /\ process[p].at \in Upgrading /\ UNCHANGED entered
      /\ db' = [db EXCEPT !.current = TRUE] /\ Goes(p, At("open"))
      /\ At("open") \in Step /\ At("open").at = "open" /\ At("open").at \notin Upgrading
    BY StepsAre DEF SetVersion, Does, Upgrading
<1>2. /\ process' \in [Processes -> Step] /\ process'[p] = At("open")
      /\ \A q \in Processes : q # p => process'[q] = process[q]
      /\ together' \in BOOLEAN
      /\ ~together' => /\ ~together
                       /\ \A q, r \in Processes :
                              process'[q].at \in Upgrading /\ process'[r].at \in Upgrading
                                  => q = r
    BY <1>1, MovesAre DEF UpgradeInv
<1>3. /\ DOMAIN db' = DOMAIN db /\ db'.current = TRUE
      /\ db'.users = db.users /\ db'.seeds = db.seeds /\ db'.uls = db.uls
      /\ db'.stations = db.stations /\ db'.saved = db.saved /\ db'.net = db.net
    BY <1>1 DEF UpgradeInv, Shape
<1>4. Shape'
    BY <1>1, <1>2, <1>3 DEF UpgradeInv, Shape
<1>5. Kept'
    BY <1>1, <1>2, <1>3 DEF UpgradeInv, Kept, StationsKept
<1>6. \A q \in Processes : Behind(process'[q].at, db')
    <2>1. \A at : Behind(at, db) => Behind(at, db')
        BY <1>3 DEF Behind
    <2>2. Behind("open", db')
        BY <1>1, IdleRelyOnNothing
    <2> QED BY <1>1, <1>2, <2>1, <2>2 DEF UpgradeInv
<1>7. SeedsBlank' /\ MembersMovedLast'
    BY <1>1, <1>3 DEF UpgradeInv, SeedsBlank, MembersMovedLast
<1>8. ~together => Alone /\ BehindAlone(process[p], db)
    BY DEF UpgradeInv, Alone
<1>9. ~together' => Alone'
    <2>1. ASSUME ~together', NEW q \in Processes PROVE BehindAlone(process'[q], db')
        <3>1. CASE q = p
            BY <1>1, <1>2, <3>1, IdleRelyOnNothing
        <3>2. CASE q # p
            <4>1. process[q].at \notin Upgrading
                BY <1>1, <1>2, <1>8, <2>1, <3>2 DEF Alone
            <4> QED BY <1>2, <3>2, <4>1, IdleRelyOnNothing
        <3> QED BY <3>1, <3>2
    <2> QED BY <1>2, <2>1 DEF Alone
<1>10. ~together => CurrentIsWhole'
    <2>1. Behind("version", db)
        BY <1>1 DEF UpgradeInv
    <2>2. /\ "default_remarks" \in db.saved.columns /\ "name" \in db.saved.columns
          /\ "id" \in db.users.columns /\ ~db.seeds.exists
          /\ \A f \in Fields : db.net[f] # "free text"
        BY <2>1 DEF Behind, Fields, Upgrading, AfterLocation, AfterFrequency, AfterUsers,
           AfterViewOnly, AfterMode, AfterSeeds, AfterSavedStations, AfterMemberIds, AfterAccess
    <2>3. ~together => /\ "view_only" \in db.users.columns /\ "access_level" \in db.users.columns
                      /\ "member_id" \in db.saved.columns
        BY <1>1, <1>8 DEF BehindAlone, Upgrading, AfterLocation, AfterFrequency, AfterUsers,
           AfterViewOnly, AfterMode, AfterSeeds, AfterSavedStations, AfterMemberIds, AfterAccess
    <2>4. ~together => db.users.columns = UserColumns /\ db.saved.columns = SavedColumns
        <3>1. db.users.columns \subseteq UserColumns /\ db.saved.columns \subseteq SavedColumns
            BY DEF UpgradeInv, Shape
        <3>2. ~together => UserColumns \subseteq db.users.columns
            BY <2>2, <2>3 DEF UserColumns
        <3>3. ~together => SavedColumns \subseteq db.saved.columns
            BY <2>2, <2>3 DEF SavedColumns
        <3> QED BY <3>1, <3>2, <3>3
    <2> QED BY <1>3, <2>2, <2>4 DEF CurrentIsWhole
<1>11. Whole'
    <2>1. MemberIdsAsEntered => MemberIdsAsEntered'
        BY <1>1, <1>3 DEF MemberIdsAsEntered, MemberId
    <2>2. RemarksAndNamesAsEntered /\ NetAsEntered => RemarksAndNamesAsEntered' /\ NetAsEntered'
        BY <1>1, <1>3 DEF RemarksAndNamesAsEntered, NetAsEntered
    <2> QED BY <1>1, <1>2, <1>3, <1>10, <2>1, <2>2
        DEF UpgradeInv, Whole, UpgradedWhole, AsEntered
<1>12. ~db'.current => NothingEntered'
    BY <1>3
<1> QED BY <1>4, <1>5, <1>6, <1>7, <1>9, <1>11, <1>12 DEF UpgradeInv

-----------------------------------------------------------------------------
(* What users enter.                                                        *)

LEMMA EntersKeeps ==
    ASSUME UpgradeInv, NEW p \in Processes, process[p].at = "open", UNCHANGED <<process, together>>,
           db'.current = db.current, Shape', Kept', SeedsBlank', MembersMovedLast',
           \A at : Behind(at, db) => Behind(at, db'),
           \A s : BehindAlone(s, db) => BehindAlone(s, db'),
           db.current /\ AsEntered => AsEntered'
    PROVE  UpgradeInv'
<1>1. db.current /\ db'.current
    BY DEF UpgradeInv, NothingEntered, Shape
<1>2. \A q \in Processes : Behind(process'[q].at, db')
    BY DEF UpgradeInv
<1>3. ~together' => Alone'
    BY DEF UpgradeInv, Alone
<1>4. Whole'
    BY <1>1 DEF UpgradeInv, Whole, UpgradedWhole
<1> QED BY <1>1, <1>2, <1>3, <1>4 DEF UpgradeInv

LEMMA UpdateNetKeeps ==
    ASSUME UpgradeInv, NEW p \in Processes, NEW field \in Fields, UpdateNet(p, field)
    PROVE  UpgradeInv'
<1>1. /\ process[p].at = "open" /\ UNCHANGED <<process, together>>
      /\ db' = [db EXCEPT !.net[field] = "edited"]
      /\ entered' = [entered EXCEPT !.net = @ \cup {field}]
    BY DEF UpdateNet, Enters
<1>2. /\ DOMAIN db' = DOMAIN db /\ DOMAIN db'.net = Fields
      /\ db'.net[field] = "edited" /\ \A f \in Fields : f # field => db'.net[f] = db.net[f]
      /\ db'.current = db.current /\ db'.users = db.users /\ db'.seeds = db.seeds
      /\ db'.uls = db.uls /\ db'.saved = db.saved /\ db'.stations = db.stations
    BY <1>1 DEF UpgradeInv, Shape
<1>3. /\ DOMAIN entered' = DOMAIN entered /\ entered'.net = entered.net \cup {field}
      /\ entered'.saved = entered.saved /\ entered'.level = entered.level
    BY <1>1 DEF UpgradeInv, Shape
<1>4. Shape'
    BY <1>1, <1>2, <1>3 DEF UpgradeInv, Shape
<1>5. Kept'
    BY <1>1, <1>2, <1>3 DEF UpgradeInv, Kept, StationsKept
<1>6. SeedsBlank' /\ MembersMovedLast'
    BY <1>2, <1>3 DEF UpgradeInv, SeedsBlank, MembersMovedLast
<1>7. \A f \in Fields : db.net[f] # "free text" => db'.net[f] # "free text"
    BY <1>2
<1>8. \A at : Behind(at, db) => Behind(at, db')
    <2>1. {"location", "frequency", "mode"} = Fields
        BY DEF Fields
    <2> QED BY <1>2, <1>7, <2>1 DEF Behind
<1>9. \A s : BehindAlone(s, db) => BehindAlone(s, db')
    BY <1>2 DEF BehindAlone
<1>10. db.current /\ AsEntered => AsEntered'
    <2>1. MemberIdsAsEntered => MemberIdsAsEntered'
        BY <1>2, <1>3 DEF MemberIdsAsEntered, MemberId
    <2>2. RemarksAndNamesAsEntered => RemarksAndNamesAsEntered'
        BY <1>2, <1>3 DEF RemarksAndNamesAsEntered
    <2>3. NetAsEntered => NetAsEntered'
        <3>1. ASSUME NetAsEntered, NEW f \in entered'.net PROVE db'.net[f] = "edited"
            <4>1. CASE f = field
                BY <1>2, <4>1
            <4>2. CASE f # field
                <5>1. db.net[f] = "edited"
                    BY <1>3, <3>1, <4>2 DEF NetAsEntered
                <5>2. f \in Fields
                    BY <1>3, <3>1, <4>2 DEF UpgradeInv, Shape
                <5> QED BY <1>2, <4>2, <5>1, <5>2
            <4> QED BY <4>1, <4>2
        <3> QED BY <3>1 DEF NetAsEntered
    <2>4. CurrentIsWhole => CurrentIsWhole'
        BY <1>2, <1>7 DEF CurrentIsWhole
    <2> QED BY <1>2, <1>3, <2>1, <2>2, <2>3, <2>4 DEF AsEntered
<1> QED BY <1>1, <1>2, <1>4, <1>5, <1>6, <1>8, <1>9, <1>10, EntersKeeps

LEMMA SetUserAccessLevelKeeps ==
    ASSUME UpgradeInv, NEW p \in Processes, NEW username \in Usernames,
           SetUserAccessLevel(p, username)
    PROVE  UpgradeInv'
<1>1. /\ process[p].at = "open" /\ UNCHANGED <<process, together>>
      /\ db' = [db EXCEPT !.users.level[username] = "viewOnly"]
      /\ entered' = [entered EXCEPT !.level[username] = "viewOnly"]
    BY DEF SetUserAccessLevel, Enters
<1>2. /\ DOMAIN db' = DOMAIN db /\ DOMAIN db'.users = DOMAIN db.users
      /\ db'.users.level = [db.users.level EXCEPT ![username] = "viewOnly"]
      /\ db'.users.columns = db.users.columns
      /\ db'.current = db.current /\ db'.net = db.net /\ db'.seeds = db.seeds
      /\ db'.uls = db.uls /\ db'.saved = db.saved /\ db'.stations = db.stations
    BY <1>1 DEF UpgradeInv, Shape
<1>3. /\ DOMAIN entered' = DOMAIN entered
      /\ entered'.level = [entered.level EXCEPT ![username] = "viewOnly"]
      /\ entered'.saved = entered.saved /\ entered'.net = entered.net
    BY <1>1 DEF UpgradeInv, Shape
<1>4. Shape'
    <2>1. /\ db'.users.level \in [Usernames -> Levels]
          /\ entered'.level \in [Usernames -> Levels]
        BY <1>2, <1>3 DEF UpgradeInv, Shape, Levels
    <2> QED BY <1>1, <1>2, <1>3, <2>1 DEF UpgradeInv, Shape
<1>5. Kept'
    BY <1>1, <1>2, <1>3 DEF UpgradeInv, Kept, StationsKept
<1>6. SeedsBlank' /\ MembersMovedLast'
    BY <1>2, <1>3 DEF UpgradeInv, SeedsBlank, MembersMovedLast
<1>7. \A at : Behind(at, db) => Behind(at, db')
    BY <1>2 DEF Behind
<1>8. \A s : BehindAlone(s, db) => BehindAlone(s, db')
    BY <1>2 DEF BehindAlone
<1>9. db.current /\ AsEntered => AsEntered'
    <2>1. MemberIdsAsEntered => MemberIdsAsEntered'
        BY <1>2, <1>3 DEF MemberIdsAsEntered, MemberId
    <2>2. RemarksAndNamesAsEntered /\ NetAsEntered => RemarksAndNamesAsEntered' /\ NetAsEntered'
        BY <1>2, <1>3 DEF RemarksAndNamesAsEntered, NetAsEntered
    <2>3. CurrentIsWhole => CurrentIsWhole'
        BY <1>2 DEF CurrentIsWhole
    <2> QED BY <1>2, <1>3, <2>1, <2>2, <2>3 DEF AsEntered
<1> QED BY <1>1, <1>2, <1>4, <1>5, <1>6, <1>7, <1>8, <1>9, EntersKeeps

LEMMA UpdateSavedNetStationKeeps ==
    ASSUME UpgradeInv, NEW p \in Processes, NEW s \in Stations, UpdateSavedNetStation(p, s)
    PROVE  UpgradeInv'
<1> DEFINE row == [default_remarks |-> "new", name |-> "new", member_id |-> "new"]
<1>1. /\ process[p].at = "open" /\ UNCHANGED <<process, together>>
      /\ s \in DOMAIN db.saved.rows /\ SavedColumns \subseteq db.saved.columns
      /\ db' = [db EXCEPT !.saved.rows[s] = row]
      /\ entered' = [entered EXCEPT !.saved[s] = row]
    BY DEF UpdateSavedNetStation, Enters
<1>2. s \in DOMAIN entered.saved
    BY <1>1 DEF UpgradeInv, Kept, StationsKept
<1>3. DOMAIN row = SavedColumns /\ row.member_id = "new"
    BY DEF SavedColumns
<1> HIDE DEF row
<1>4. /\ DOMAIN db' = DOMAIN db /\ DOMAIN db'.saved = DOMAIN db.saved
      /\ db'.saved.rows = [db.saved.rows EXCEPT ![s] = row]
      /\ db'.saved.columns = db.saved.columns
      /\ db'.current = db.current /\ db'.net = db.net /\ db'.seeds = db.seeds
      /\ db'.uls = db.uls /\ db'.users = db.users /\ db'.stations = db.stations
    BY <1>1 DEF UpgradeInv, Shape
<1>5. /\ DOMAIN entered' = DOMAIN entered
      /\ entered'.saved = [entered.saved EXCEPT ![s] = row]
      /\ entered'.level = entered.level /\ entered'.net = entered.net
    BY <1>1 DEF UpgradeInv, Shape
<1>6. /\ DOMAIN db'.saved.rows = DOMAIN db.saved.rows /\ db'.saved.rows[s] = row
      /\ \A q \in DOMAIN db.saved.rows : q # s => db'.saved.rows[q] = db.saved.rows[q]
      /\ DOMAIN entered'.saved = DOMAIN entered.saved /\ entered'.saved[s] = row
      /\ \A q \in DOMAIN entered.saved : q # s => entered'.saved[q] = entered.saved[q]
    BY <1>1, <1>2, <1>4, <1>5
<1>7. Shape'
    <2>1. /\ \A q \in DOMAIN db'.saved.rows : DOMAIN db'.saved.rows[q] = SavedColumns
          /\ \A q \in DOMAIN entered'.saved : DOMAIN entered'.saved[q] = SavedColumns
        BY <1>3, <1>6 DEF UpgradeInv, Shape
    <2> QED BY <1>1, <1>4, <1>5, <1>6, <2>1 DEF UpgradeInv, Shape
<1>8. Kept'
    <2>1. StationsKept'
        BY <1>4, <1>5, <1>6 DEF UpgradeInv, Kept, StationsKept
    <2> QED BY <1>1, <1>4, <2>1 DEF UpgradeInv, Kept
<1>9. SeedsBlank' /\ MembersMovedLast'
    <2>1. \A q \in DOMAIN entered'.saved \ DOMAIN db'.saved.rows :
              q \in DOMAIN entered.saved \ DOMAIN db.saved.rows /\ entered'.saved[q] = entered.saved[q]
        BY <1>1, <1>6
    <2>2. SeedsBlank'
        BY <2>1 DEF UpgradeInv, SeedsBlank
    <2> QED BY <1>4, <2>2 DEF UpgradeInv, MembersMovedLast
<1>10. \A at : Behind(at, db) => Behind(at, db')
    BY <1>4 DEF Behind
<1>11. \A q : BehindAlone(q, db) => BehindAlone(q, db')
    BY <1>4 DEF BehindAlone
<1>12. db.current /\ AsEntered => AsEntered'
    <2>1. MemberIdsAsEntered => MemberIdsAsEntered'
        <3>1. MemberId(s)' = "new" /\ "member_id" \in SavedColumns
            BY <1>1, <1>3, <1>4, <1>6 DEF MemberId, SavedColumns
        <3>2. \A q \in DOMAIN entered.saved : q # s => MemberId(q)' = MemberId(q)
            BY <1>4, <1>6 DEF MemberId
        <3> QED BY <1>3, <1>6, <3>1, <3>2 DEF MemberIdsAsEntered
    <2>2. RemarksAndNamesAsEntered => RemarksAndNamesAsEntered'
        BY <1>6 DEF RemarksAndNamesAsEntered, UpgradeInv, Kept, StationsKept
    <2>3. NetAsEntered => NetAsEntered'
        BY <1>4, <1>5 DEF NetAsEntered
    <2>4. CurrentIsWhole => CurrentIsWhole'
        BY <1>4 DEF CurrentIsWhole
    <2> QED BY <1>4, <1>5, <2>1, <2>2, <2>3, <2>4 DEF AsEntered
<1> QED BY <1>1, <1>4, <1>7, <1>8, <1>9, <1>10, <1>11, <1>12, EntersKeeps

-----------------------------------------------------------------------------
(* Every step keeps the invariant.                                          *)

LEMMA NextKeeps == UpgradeInv /\ [Next]_vars => UpgradeInv'
<1> SUFFICES ASSUME UpgradeInv, [Next]_vars PROVE UpgradeInv'
    OBVIOUS
<1>1. ASSUME NEW p \in Processes, Upgrades(p) PROVE UpgradeInv'
    BY <1>1, AddColumnsKeeps, CopyUlsKeeps, DeleteUlsKeeps, NormalizesKeep, UpgradeUsersTableKeeps,
       AddViewOnlyKeeps, DropOldSeedStationsKeeps, UpgradeSavedStationsTableKeeps,
       MoveMemberIdsToNetsKeeps, AddAccessLevelKeeps, SetVersionKeeps DEF Upgrades
<1>2. CASE Next
    BY <1>1, <1>2, OpenKeeps, StopsKeeps, UpdateNetKeeps, SetUserAccessLevelKeeps,
       UpdateSavedNetStationKeeps DEF Next
<1>3. CASE UNCHANGED vars
    <2>1. UNCHANGED <<db, process, entered, together>>
        BY <1>3 DEF vars
    <2>2. Shape' /\ Kept' /\ SeedsBlank' /\ MembersMovedLast'
        BY <2>1 DEF UpgradeInv, Shape, Kept, StationsKept, SeedsBlank, MembersMovedLast
    <2>4. Whole'
        BY <2>1 DEF UpgradeInv, Whole, UpgradedWhole, AsEntered, MemberIdsAsEntered,
                    RemarksAndNamesAsEntered, NetAsEntered, CurrentIsWhole, MemberId
    <2>3. /\ NothingEntered => NothingEntered'
          /\ \A at : Behind(at, db) => Behind(at, db')
          /\ \A s : BehindAlone(s, db) => BehindAlone(s, db')
        BY <2>1 DEF NothingEntered, Behind, BehindAlone
    <2> QED BY <2>1, <2>2, <2>3, <2>4 DEF UpgradeInv, Alone
<1> QED BY <1>2, <1>3

(* A file of any release is one that upgrades can begin with.                *)
LEMMA InitInv == Init => UpgradeInv
<1> SUFFICES ASSUME Init PROVE UpgradeInv
    OBVIOUS
<1>1. PICK r \in Releases :
        /\ db = [current |-> FALSE,
                 users |-> [columns |-> UserColumnsOf(r), level |-> [u \in Usernames |-> "full"]],
                 saved |-> [columns |-> SavedColumnsOf(r),
                            rows |-> [s \in SavedOf(r) |-> RowOf(r)]],
                 seeds |-> [exists |-> SeedsOf(r) # {}, rows |-> SeedsOf(r)],
                 stations |-> [member_id |-> [s \in SavedOf(r) \cup SeedsOf(r) |->
                                    IF "member_id" \in SavedColumnsOf(r) /\ r # "earliest"
                                    THEN "" ELSE "given"],
                               leftovers |-> IF r \in {"earliest", "1.4"} THEN Leftovers ELSE {}],
                 uls |-> {},
                 net |-> [f \in Fields |-> IF r \in {"earliest", "1.4"} THEN "free text" ELSE "valid"]]
        /\ entered = [saved |-> [s \in SavedOf(r) \cup SeedsOf(r) |->
                                    [(IF s \in SavedOf(r) THEN RowOf(r) ELSE Blank)
                                        EXCEPT !.member_id = "given"]],
                      level |-> db.users.level,
                      net |-> {}]
        /\ process = [p \in Processes |-> Out]
        /\ together = FALSE
    BY DEF Init
<1>2. \A p \in Processes : process[p] = Out /\ process[p].at = "out" /\ process[p] \in Step
    BY <1>1, StepsAre
<1>3. "out" \notin Upgrading /\ "out" # "open" /\ "out" # "deleteUls"
    BY DEF Upgrading
<1>4. /\ \A p \in Processes : Behind(process[p].at, db)
      /\ ~together => Alone
    BY <1>2, <1>3, IdleRelyOnNothing DEF Alone
<1>5. /\ DOMAIN Blank = SavedColumns /\ Blank["default_remarks"] = "" /\ Blank["name"] = ""
      /\ DOMAIN RowOf(r) = SavedColumns /\ RowOf(r)["name"] = ""
    BY DEF Blank, RowOf, SavedColumns
<1>6. \A q : DOMAIN q = SavedColumns =>
          LET row == [q EXCEPT !.member_id = "given"]
          IN  /\ DOMAIN row = SavedColumns /\ row.member_id = "given"
              /\ row["default_remarks"] = q["default_remarks"] /\ row["name"] = q["name"]
    BY DEF SavedColumns
<1>7. \A s \in SavedOf(r) \cup SeedsOf(r) :
          /\ DOMAIN entered.saved[s] = SavedColumns /\ entered.saved[s].member_id = "given"
          /\ entered.saved[s]["name"] = ""
          /\ s \in SavedOf(r) => entered.saved[s]["default_remarks"] = RowOf(r)["default_remarks"]
          /\ s \notin SavedOf(r) => entered.saved[s]["default_remarks"] = ""
    <2> TAKE s \in SavedOf(r) \cup SeedsOf(r)
    <2> DEFINE q == IF s \in SavedOf(r) THEN RowOf(r) ELSE Blank
               row == [q EXCEPT !.member_id = "given"]
    <2>1. entered.saved[s] = row
        BY <1>1
    <2>2. DOMAIN q = SavedColumns
        BY <1>5
    <2>3. /\ DOMAIN row = SavedColumns /\ row.member_id = "given"
          /\ row["default_remarks"] = q["default_remarks"] /\ row["name"] = q["name"]
        BY <1>6, <2>2
    <2>4. q["name"] = ""
        BY <1>5
    <2>5. s \in SavedOf(r) => q = RowOf(r)
        OBVIOUS
    <2>6. s \notin SavedOf(r) => q["default_remarks"] = ""
        BY <1>5
    <2> HIDE DEF row, q
    <2> QED BY <2>1, <2>3, <2>4, <2>5, <2>6
<1>8. /\ DOMAIN entered = {"saved", "level", "net"}
      /\ DOMAIN entered.saved = SavedOf(r) \cup SeedsOf(r)
      /\ entered.level = NobodyViewOnly /\ entered.net = {}
    BY <1>1 DEF NobodyViewOnly
<1>9. /\ DOMAIN db = {"current", "users", "saved", "seeds", "stations", "uls", "net"}
      /\ DOMAIN db.users = {"columns", "level"} /\ DOMAIN db.saved = {"columns", "rows"}
      /\ DOMAIN db.seeds = {"exists", "rows"} /\ DOMAIN db.stations = {"member_id", "leftovers"}
      /\ DOMAIN db.net = Fields /\ db.current = FALSE
      /\ db.users.columns = UserColumnsOf(r) /\ db.users.level = NobodyViewOnly
      /\ db.saved.columns = SavedColumnsOf(r) /\ DOMAIN db.saved.rows = SavedOf(r)
      /\ db.seeds.rows = SeedsOf(r) /\ db.seeds.exists = (SeedsOf(r) # {}) /\ db.uls = {}
      /\ DOMAIN db.stations.member_id = SavedOf(r) \cup SeedsOf(r)
    BY <1>1 DEF NobodyViewOnly
<1>10. /\ \A s \in SavedOf(r) : db.saved.rows[s] = RowOf(r)
       /\ \A s \in SavedOf(r) \cup SeedsOf(r) :
              db.stations.member_id[s] =
                  IF "member_id" \in SavedColumnsOf(r) /\ r # "earliest" THEN "" ELSE "given"
    BY <1>1
<1>11. UserColumnsOf(r) \subseteq UserColumns /\ SavedColumnsOf(r) \subseteq SavedColumns
    BY DEF UserColumnsOf, SavedColumnsOf, UserColumns, SavedColumns
<1>12. Shape
    <2>1. process \in [Processes -> Step]
        BY <1>1, StepsAre
    <2>2. NobodyViewOnly \in [Usernames -> Levels]
        BY DEF NobodyViewOnly, Levels
    <2>3. /\ \A s \in DOMAIN db.saved.rows : DOMAIN db.saved.rows[s] = SavedColumns
          /\ \A s \in DOMAIN entered.saved : DOMAIN entered.saved[s] = SavedColumns
        BY <1>5, <1>7, <1>8, <1>9, <1>10
    <2> QED BY <1>1, <1>8, <1>9, <1>11, <2>1, <2>2, <2>3 DEF Shape
<1>13. Kept
    BY <1>2, <1>3, <1>8, <1>9 DEF Kept, StationsKept
<1>14. NothingEntered
    BY <1>2, <1>3, <1>7, <1>8 DEF NothingEntered
<1>15. SeedsBlank
    BY <1>7, <1>8, <1>9 DEF SeedsBlank
<1>16. "member_id" \in SavedColumnsOf(r) /\ r # "earliest"
          => "name" \in SavedColumnsOf(r) /\ SeedsOf(r) = {} /\ SavedOf(r) = {}
    <2>1. r \in AllReleases
        BY UpgradeAssumption
    <2>2. CASE r \in {"1.4", "1.9", "2.1"}
        BY <2>2 DEF SavedColumnsOf
    <2>3. CASE r = "new"
        BY <2>3 DEF SavedColumnsOf, SavedColumns, SeedsOf, SavedOf
    <2> QED BY <2>1, <2>2, <2>3 DEF AllReleases
<1>17. MembersMovedLast
    BY <1>9, <1>16 DEF MembersMovedLast
<1>18. Whole
    <2> SUFFICES ASSUME "earliest" \notin Releases PROVE AsEntered
        BY DEF Whole, UpgradedWhole
    <2>1. MemberIdsAsEntered
        <3>1. \A s \in SavedOf(r) \cup SeedsOf(r) :
                  "member_id" \notin SavedColumnsOf(r) /\ db.stations.member_id[s] = "given"
            BY <1>10, <1>16
        <3>2. \A s \in DOMAIN entered.saved : MemberId(s) = "given"
            BY <1>8, <1>9, <3>1 DEF MemberId
        <3>3. \A s \in DOMAIN entered.saved : entered.saved[s].member_id = "given"
            BY <1>7, <1>8
        <3> QED BY <3>2, <3>3 DEF MemberIdsAsEntered
    <2>2. RemarksAndNamesAsEntered
        <3>1. ASSUME NEW s \in DOMAIN db.saved.rows, NEW c \in {"default_remarks", "name"}
              PROVE  db.saved.rows[s][c] = entered.saved[s][c]
            <4>1. CASE c = "name"
                BY <1>5, <1>7, <1>9, <1>10, <4>1
            <4>2. CASE c = "default_remarks"
                <5>1. s \in SavedOf(r) /\ db.saved.rows[s] = RowOf(r)
                    BY <1>9, <1>10
                <5>2. entered.saved[s]["default_remarks"] = RowOf(r)["default_remarks"]
                    BY <1>7, <5>1
                <5> QED BY <4>2, <5>1, <5>2
            <4> QED BY <4>1, <4>2
        <3> QED BY <3>1 DEF RemarksAndNamesAsEntered
    <2> QED BY <1>8, <1>9, <2>1, <2>2 DEF AsEntered, NetAsEntered, CurrentIsWhole
<1> QED BY <1>4, <1>12, <1>13, <1>14, <1>15, <1>17, <1>18 DEF UpgradeInv

-----------------------------------------------------------------------------
(* What no step loses.                                                      *)

(* A write of a process to a part of the file without licenses.              *)
LEMMA LicensesElsewhere ==
    ASSUME UpgradeInv, NEW p \in Processes,
           \/ Open(p) \/ AddColumns(p) \/ NormalizeNetZips(p) \/ NormalizeNetFrequencies(p)
           \/ UpgradeUsersTable(p) \/ AddViewOnly(p) \/ NormalizeNetModes(p)
           \/ DropOldSeedStations(p) \/ UpgradeSavedStationsTable(p) \/ MoveMemberIdsToNets(p)
           \/ AddAccessLevel(p) \/ SetVersion(p) \/ Stops(p)
           \/ \E field \in Fields : UpdateNet(p, field)
           \/ \E username \in Usernames : SetUserAccessLevel(p, username)
           \/ \E s \in Stations : UpdateSavedNetStation(p, s)
    PROVE  /\ db'.uls = db.uls /\ db'.stations.leftovers = db.stations.leftovers
           /\ DOMAIN entered'.saved = DOMAIN entered.saved
<1>1. /\ DOMAIN db = {"current", "users", "saved", "seeds", "stations", "uls", "net"}
      /\ DOMAIN db.stations = {"member_id", "leftovers"}
      /\ DOMAIN entered = {"saved", "level", "net"}
    BY DEF UpgradeInv, Shape
<1>2. CASE Open(p) \/ Stops(p)
    BY <1>2 DEF Open, Does, Stops
<1>3. CASE AddColumns(p) \/ AddViewOnly(p) \/ AddAccessLevel(p) \/ SetVersion(p)
    BY <1>1, <1>3 DEF AddColumns, AddViewOnly, AddAccessLevel, SetVersion, Does, WithSaved, WithUsers
<1>4. CASE NormalizeNetZips(p) \/ NormalizeNetFrequencies(p) \/ NormalizeNetModes(p)
    BY <1>1, <1>4 DEF NormalizeNetZips, NormalizeNetFrequencies, NormalizeNetModes, Normalize, Looks,
                      Does
<1>5. CASE UpgradeUsersTable(p)
    BY <1>1, <1>5 DEF UpgradeUsersTable, Looks, Does
<1>6. CASE DropOldSeedStations(p)
    BY <1>1, <1>6 DEF DropOldSeedStations, MoveSeeds, Inserted, Seedless, Looks, Does
<1>7. CASE UpgradeSavedStationsTable(p)
    BY <1>1, <1>7 DEF UpgradeSavedStationsTable, Looks, Does
<1>8. CASE MoveMemberIdsToNets(p)
    <2>1. CASE UNCHANGED <<db, entered>>
        BY <2>1
    <2>2. CASE ~UNCHANGED <<db, entered>>
        <3>1. PICK rows, ids, with :
                  /\ with = WithSaved("member_id") /\ UNCHANGED entered
                  /\ db' = [with EXCEPT !.saved.rows = rows, !.stations.member_id = ids]
            BY <1>8, <2>2 DEF MoveMemberIdsToNets, Looks, Does
        <3>2. /\ DOMAIN with = DOMAIN db /\ with.uls = db.uls /\ with.stations = db.stations
            BY <1>1, <3>1 DEF WithSaved
        <3> QED BY <1>1, <3>1, <3>2
    <2> QED BY <2>1, <2>2
<1>9. CASE \/ \E field \in Fields : UpdateNet(p, field)
           \/ \E username \in Usernames : SetUserAccessLevel(p, username)
           \/ \E s \in Stations : UpdateSavedNetStation(p, s)
    BY <1>1, <1>9 DEF UpdateNet, SetUserAccessLevel, UpdateSavedNetStation, Enters
<1> QED BY <1>2, <1>3, <1>4, <1>5, <1>6, <1>7, <1>8, <1>9

Saved(d) == DOMAIN d.saved.rows \cup d.seeds.rows
Licenses(d) == d.uls \cup d.stations.leftovers

(* Only a process whose copy failed deletes what is nowhere else.            *)
LEMMA LosesNothing ==
    ASSUME UpgradeInv, UpgradeInv', [Next]_vars
    PROVE  /\ Saved(db) \subseteq Saved(db')
           /\ \/ Licenses(db) \subseteq Licenses(db')
              \/ \E p \in Processes : process[p] = At("deleteUls") /\ process'[p] # process[p]
<1>1. Saved(db) = DOMAIN entered.saved /\ Saved(db') = DOMAIN entered'.saved
    BY DEF Saved, UpgradeInv, Kept, StationsKept
<1>2. /\ DOMAIN db = {"current", "users", "saved", "seeds", "stations", "uls", "net"}
      /\ DOMAIN db.stations = {"member_id", "leftovers"} /\ process \in [Processes -> Step]
    BY DEF UpgradeInv, Shape
<1>3. ASSUME NEW p \in Processes, CopyUls(p)
      PROVE  /\ DOMAIN entered'.saved = DOMAIN entered.saved
             /\ Licenses(db) \subseteq Licenses(db')
    <2>1. \E copied \in BOOLEAN :
              /\ db' = IF copied THEN [db EXCEPT !.uls = @ \cup db.stations.leftovers] ELSE db
              /\ UNCHANGED entered
        BY <1>3 DEF CopyUls
    <2> QED BY <1>2, <2>1 DEF Licenses
<1>4. ASSUME NEW p \in Processes, DeleteUls(p)
      PROVE  /\ DOMAIN entered'.saved = DOMAIN entered.saved
             /\ \/ Licenses(db) \subseteq Licenses(db')
                \/ process[p] = At("deleteUls") /\ process'[p] # process[p]
    <2>1. PICK left \in {{}, db.stations.leftovers} :
              Does(p, "deleteUls", [db EXCEPT !.stations.leftovers = left], "location")
        BY <1>4 DEF DeleteUls
    <2>2. /\ process[p].at = "deleteUls" /\ process[p] \in Step /\ UNCHANGED entered
          /\ db'.uls = db.uls /\ process'[p] = At("location")
        BY <1>2, <2>1 DEF Does, Goes
    <2>3. process'[p] # process[p]
        BY <2>2, StepsAre DEF At
    <2>4. CASE process[p].read
        <3>1. db.stations.leftovers \subseteq db.uls
            BY <2>2, <2>4 DEF UpgradeInv, Kept
        <3> QED BY <2>2, <3>1 DEF Licenses
    <2>5. CASE ~process[p].read
        BY <2>2, <2>3, <2>5 DEF Step, At
    <2> QED BY <2>2, <2>4, <2>5
<1>5. ASSUME NEW p \in Processes,
             \/ Open(p) \/ Upgrades(p) \/ Stops(p)
             \/ \E field \in Fields : UpdateNet(p, field)
             \/ \E username \in Usernames : SetUserAccessLevel(p, username)
             \/ \E s \in Stations : UpdateSavedNetStation(p, s)
      PROVE  /\ DOMAIN entered'.saved = DOMAIN entered.saved
             /\ \/ Licenses(db) \subseteq Licenses(db')
                \/ process[p] = At("deleteUls") /\ process'[p] # process[p]
    BY <1>3, <1>4, <1>5, LicensesElsewhere DEF Upgrades, Licenses
<1>6. CASE Next
    BY <1>1, <1>5, <1>6 DEF Next
<1>7. CASE UNCHANGED vars
    BY <1>7 DEF vars, Saved, Licenses
<1> QED BY <1>6, <1>7

-----------------------------------------------------------------------------
(* The theorems.                                                            *)

(* However many processes open, upgrade and use a file of any release, and    *)
(* wherever they stop: what is in the tables, who upgrades and how far each   *)
(* has got, that no row is only in what is about to go, that nothing is      *)
(* entered before the file is current, and that a step behind a process has  *)
(* been done (CreateSchema, database.cpp).                                  *)
THEOREM UpgradeInvAlways == Spec => []UpgradeInv
BY InitInv, NextKeeps, PTL DEF Spec

(* The file and the processes have the types they are declared with.        *)
THEOREM TypesAlways == Spec => []TypeOK
BY UpgradeInvAlways, InvTypes, PTL

(* No saved or seed station is ever lost, even when several processes upgrade  *)
(* the file at once and stop half way: a rebuilt table's rows and a dropped    *)
(* table's are in the one that takes its place.  FCC licenses are lost by      *)
(* nothing but the DELETE of a process whose own copy of them failed.         *)
THEOREM RowsAlwaysKept == Spec => RowsKept
<1>1. UpgradeInv /\ UpgradeInv' /\ [Next]_vars =>
          LET stationsIn(d) == DOMAIN d.saved.rows \cup d.seeds.rows
              licensesIn(d) == d.uls \cup d.stations.leftovers
          IN  /\ stationsIn(db) \subseteq stationsIn(db')
              /\ \/ licensesIn(db) \subseteq licensesIn(db')
                 \/ \E p \in Processes : process[p] = At("deleteUls") /\ process'[p] # process[p]
    BY LosesNothing DEF Saved, Licenses
<1> QED BY <1>1, UpgradeInvAlways, PTL DEF Spec, RowsKept

(* Unless two processes upgrade at once, everything anyone entered stays as   *)
(* it was through an upgrade that is cut short anywhere, any number of times,*)
(* and a file that says it is current is: for files of every release but the *)
(* earliest, whose member IDs MoveMemberIdsToNets does not find.            *)
THEOREM AlwaysUpgradedWhole ==
    ASSUME "earliest" \notin Releases
    PROVE  Spec => []UpgradedWhole
<1>1. UpgradeInv => UpgradedWhole
    BY DEF UpgradeInv, Whole
<1> QED BY <1>1, UpgradeInvAlways, PTL

=============================================================================
