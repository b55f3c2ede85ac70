-------------------------- MODULE SessionLog_proofs --------------------------
(***************************************************************************)
(* What holds of SessionLog for any number of operators, stations, roles,  *)
(* sessions and check-ins, and whatever they do.  First what each operation*)
(* of the tables (NetLogTables) returns and keeps; then what the operators'*)
(* steps leave as it was: numbers and the operator's role, whatever copies *)
(* of check-ins are written back; that no number and no station comes      *)
(* twice; that the row confirmed is the row deleted, that Viewers change   *)
(* nothing and that who closes a session is not told of it.                *)
(***************************************************************************)
EXTENDS SessionLog, TLAPS, FiniteSetTheorems

-----------------------------------------------------------------------------
(* Newest ids, counts and positions in a list.                              *)

(* A non-empty finite set of naturals has a greatest element: else there     *)
(* would be a smallest one without.                                          *)
LEMMA GreatestExists ==
    ASSUME NEW S \in SUBSET Nat, S # {}, IsFiniteSet(S)
    PROVE  \E m \in S : \A x \in S : m >= x
<1> DEFINE Tops(U) == {m \in U : \A x \in U : m >= x}
           Topless == {U \in FiniteSubsetsOf(Nat) : U # {} /\ Tops(U) = {}}
<1>1. SUFFICES ASSUME Topless # {} PROVE FALSE
    BY DEF FiniteSubsetsOf
<1>2. PICK U \in Topless : \A V \in Topless : ~(<<V, U>> \in StrictSubsetOrdering(Nat))
    <2>1. Topless \subseteq FiniteSubsetsOf(Nat)
        OBVIOUS
    <2> HIDE DEF Topless
    <2> QED BY <1>1, <2>1, FS_StrictSubsetOrderingWellFounded, WFMin
<1>3. PICK x \in U : TRUE
    OBVIOUS
<1> DEFINE V == U \ {x}
<1>4. V \in FiniteSubsetsOf(Nat) /\ <<V, U>> \in StrictSubsetOrdering(Nat)
    BY <1>3, FS_RemoveElement DEF FiniteSubsetsOf, StrictSubsetOrdering
<1>5. CASE V = {}
    BY <1>3, <1>5 DEF FiniteSubsetsOf
<1>6. CASE V # {}
    <2>1. PICK m \in V : \A y \in V : m >= y
        BY <1>2, <1>4, <1>6
    <2>2. m \in Tops(U) \/ x \in Tops(U)
        BY <1>3, <2>1 DEF FiniteSubsetsOf
    <2> QED BY <2>2
<1> QED BY <1>5, <1>6

(* Newest returns 0 or the greatest element.                                 *)
LEMMA NewestIs ==
    ASSUME NEW S \in SUBSET Nat, IsFiniteSet(S)
    PROVE  /\ Newest(S) \in Nat
           /\ \A x \in S : x <= Newest(S)
           /\ S # {} => Newest(S) \in S
<1>1. CASE S = {}
    BY <1>1 DEF Newest
<1>2. CASE S # {}
    <2>1. \E m \in S : \A x \in S : m >= x
        BY <1>2, GreatestExists
    <2>2. Max(S) \in S /\ \A x \in S : Max(S) >= x
        BY <2>1 DEF Max
    <2> QED BY <1>2, <2>2 DEF Newest
<1> QED BY <1>1, <1>2

(* Any number of ids given out so far is finite.                             *)
LEMMA IdsFinite ==
    ASSUME NEW n \in Nat, NEW S \in SUBSET (1..n)
    PROVE  IsFiniteSet(S) /\ Cardinality(S) \in Nat
<1>1. IsFiniteSet(1..n)
    BY FS_Interval
<1>2. IsFiniteSet(S)
    BY <1>1, FS_Subset
<1> QED BY <1>2, FS_CardinalityType

(* A place in a list (ORDER BY sequence_number) is a number.                 *)
LEMMA PositionType ==
    ASSUME NEW n \in Nat, NEW log, DOMAIN log \subseteq 1..n, NEW c
    PROVE  Position(log, c) \in Nat
<1>1. UpTo(log, c) \subseteq 1..n
    BY DEF UpTo
<1> QED BY <1>1, IdsFinite DEF Position

(* The next number is a number, and above every number in the session.       *)
LEMMA NextSequenceIs ==
    ASSUME NEW d, TablesTypeOK(d), NEW i
    PROVE  /\ NextSequence(d, i) \in Nat
           /\ \A c \in CheckInIds(d, i) : d.check_ins[c].seq < NextSequence(d, i)
<1> DEFINE S == CheckInIds(d, i)
           T == {d.check_ins[c].seq : c \in S}
           f == [c \in S |-> d.check_ins[c].seq]
<1>1. S \subseteq 1..d.last_check_in /\ d.last_check_in \in Nat
    BY DEF TablesTypeOK, CheckInIds
<1>2. IsFiniteSet(S)
    BY <1>1, IdsFinite
<1>3. f \in Surjection(S, T)
    BY DEF Surjection
<1>4. IsFiniteSet(T)
    BY <1>2, <1>3, FS_Surjection
<1>5. T \in SUBSET Nat
    BY DEF TablesTypeOK, CheckIn, CheckInIds
<1>6. Newest(T) \in Nat /\ \A x \in T : x <= Newest(T)
    BY <1>4, <1>5, NewestIs
<1>7. \A c \in S : d.check_ins[c].seq \in T
    OBVIOUS
<1> HIDE DEF T, f
<1>8. NextSequence(d, i) = 1 + Newest(T)
    BY DEF NextSequence, T
<1>9. ASSUME NEW c \in S PROVE d.check_ins[c].seq < 1 + Newest(T)
    <2> DEFINE x == d.check_ins[c].seq
    <2>1. x \in T /\ x \in Nat /\ x <= Newest(T)
        BY <1>5, <1>6, <1>7
    <2> HIDE DEF x
    <2>2. x < 1 + Newest(T)
        BY <1>6, <2>1
    <2> QED BY <2>2 DEF x
<1> QED BY <1>6, <1>8, <1>9

-----------------------------------------------------------------------------
(* What every operation keeps, and what it leaves of what was there.         *)

(* The tables are of their types, every check-in's session is there and the  *)
(* stations are exactly the ones in use.                                     *)
Sound(d) ==
    /\ TablesTypeOK(d)
    /\ \A c \in DOMAIN d.check_ins : d.check_ins[c].session \in DOMAIN d.sessions
    /\ d.stations = {cs \in Callsigns : InUse(d, cs)}

(* e is a later state of the tables than d: ids are never given out again, a *)
(* check-in stays the same station's in the same session, and a closed        *)
(* session stays closed as it was.                                           *)
Succeeds(d, e) ==
    /\ d.last_session <= e.last_session /\ d.last_check_in <= e.last_check_in
    /\ \A i \in DOMAIN e.sessions \ DOMAIN d.sessions : i > d.last_session
    /\ \A i \in DOMAIN e.sessions \cap DOMAIN d.sessions :
        d.sessions[i].status = "closed" =>
            /\ e.sessions[i].status = "closed"
            /\ e.sessions[i].closed_at = d.sessions[i].closed_at
    /\ \A c \in DOMAIN e.check_ins \ DOMAIN d.check_ins : c > d.last_check_in
    /\ \A c \in DOMAIN e.check_ins \cap DOMAIN d.check_ins :
        /\ e.check_ins[c].session = d.check_ins[c].session
        /\ e.check_ins[c].callsign = d.check_ins[c].callsign

(* An operation that goes from d to e is a sound one.                        *)
Advances(d, e) == Sound(e) /\ Succeeds(d, e)

(* Leaving the tables alone is sound.                                        *)
LEMMA SucceedsItself == ASSUME NEW d, Sound(d) PROVE Advances(d, d)
BY DEF Sound, TablesTypeOK, Advances, Succeeds

(* One sound operation after another is sound.                               *)
LEMMA SucceedsTransitive ==
    ASSUME NEW d, NEW e, NEW f, Sound(d), Advances(d, e), Advances(e, f)
    PROVE  Advances(d, f)
<1>1. d.last_session \in Nat /\ e.last_session \in Nat /\ f.last_session \in Nat
      /\ d.last_check_in \in Nat /\ e.last_check_in \in Nat /\ f.last_check_in \in Nat
    BY DEF Sound, TablesTypeOK, Advances
<1>2. \A i \in DOMAIN f.sessions : i \in Nat
    BY <1>1 DEF Sound, TablesTypeOK, Advances
<1>3. \A c \in DOMAIN f.check_ins : c \in Nat
    BY <1>1 DEF Sound, TablesTypeOK, Advances
<1>4. d.last_session <= f.last_session /\ d.last_check_in <= f.last_check_in
    BY <1>1 DEF Advances, Succeeds
<1>5. \A i \in DOMAIN f.sessions \ DOMAIN d.sessions : i > d.last_session
    BY <1>1, <1>2 DEF Advances, Succeeds
<1>6. \A i \in DOMAIN f.sessions \cap DOMAIN d.sessions :
        /\ i \in DOMAIN e.sessions
        /\ d.sessions[i].status = "closed" =>
            /\ f.sessions[i].status = "closed"
            /\ f.sessions[i].closed_at = d.sessions[i].closed_at
    <2>1. \A i \in DOMAIN d.sessions : i <= d.last_session
        BY <1>1 DEF Sound, TablesTypeOK
    <2>2. \A i \in DOMAIN f.sessions \cap DOMAIN d.sessions : i \in DOMAIN e.sessions
        BY <1>1, <1>2, <2>1 DEF Advances, Succeeds
    <2> QED BY <2>2 DEF Advances, Succeeds
<1>7. \A c \in DOMAIN f.check_ins \ DOMAIN d.check_ins : c > d.last_check_in
    BY <1>1, <1>3 DEF Advances, Succeeds
<1>8. \A c \in DOMAIN f.check_ins \cap DOMAIN d.check_ins :
        /\ f.check_ins[c].session = d.check_ins[c].session
        /\ f.check_ins[c].callsign = d.check_ins[c].callsign
    <2>1. \A c \in DOMAIN d.check_ins : c <= d.last_check_in
        BY <1>1 DEF Sound, TablesTypeOK
    <2>2. \A c \in DOMAIN f.check_ins \cap DOMAIN d.check_ins : c \in DOMAIN e.check_ins
        BY <1>1, <1>3, <2>1 DEF Advances, Succeeds
    <2> QED BY <2>2 DEF Advances, Succeeds
<1> QED BY <1>4, <1>5, <1>6, <1>7, <1>8 DEF Advances, Succeeds

-----------------------------------------------------------------------------
(* Stations and saved stations.                                              *)

(* Stations in use are all there, though others may be too.                  *)
Stocked(d) ==
    /\ TablesTypeOK(d)
    /\ \A c \in DOMAIN d.check_ins : d.check_ins[c].session \in DOMAIN d.sessions
    /\ \A cs \in Callsigns : InUse(d, cs) => cs \in d.stations

(* Sound tables are stocked ones.                                            *)
LEMMA SoundIsStocked == ASSUME NEW d, Sound(d) PROVE Stocked(d)
BY DEF Sound, Stocked

(* Nothing but the stations table changes.                                   *)
LEMMA DeleteUnusedStationsIs ==
    ASSUME NEW d, Stocked(d)
    PROVE  LET e == DeleteUnusedStations(d) IN
           /\ Sound(e)
           /\ e.sessions = d.sessions /\ e.check_ins = d.check_ins
           /\ e.last_session = d.last_session /\ e.last_check_in = d.last_check_in
<1> DEFINE e == DeleteUnusedStations(d)
<1>1. /\ e.sessions = d.sessions /\ e.check_ins = d.check_ins /\ e.saved = d.saved
      /\ e.last_session = d.last_session /\ e.last_check_in = d.last_check_in
      /\ DOMAIN e = DOMAIN d
      /\ e.stations = {cs \in d.stations : InUse(d, cs)}
    BY DEF Stocked, TablesTypeOK, EmptyTables, DeleteUnusedStations
<1> HIDE DEF e
<1>2. \A cs : InUse(e, cs) <=> InUse(d, cs)
    BY <1>1 DEF InUse
<1>3. e.stations = {cs \in Callsigns : InUse(e, cs)}
    BY <1>1, <1>2 DEF Stocked, TablesTypeOK
<1>4. TablesTypeOK(e)
    BY <1>1 DEF Stocked, TablesTypeOK
<1> QED BY <1>1, <1>3, <1>4 DEF Stocked, Sound, e

(* SaveNetStation is sound: the station it inserts is a saved one.           *)
LEMMA SaveNetStationAdvances ==
    ASSUME NEW d, Sound(d), NEW cs \in Callsigns
    PROVE  Advances(d, SaveNetStation(d, cs))
<1> DEFINE e == SaveNetStation(d, cs)
<1>1. /\ e.sessions = d.sessions /\ e.check_ins = d.check_ins /\ e.saved = d.saved \cup {cs}
      /\ e.last_session = d.last_session /\ e.last_check_in = d.last_check_in
      /\ DOMAIN e = DOMAIN d
      /\ e.stations = d.stations \cup {cs}
    BY DEF Sound, TablesTypeOK, EmptyTables, SaveNetStation
<1> HIDE DEF e
<1>2. TablesTypeOK(e) /\ Succeeds(d, e)
    BY <1>1 DEF Sound, TablesTypeOK, Succeeds
<1>3. e.stations = {s \in Callsigns : InUse(e, s)}
    BY <1>1 DEF Sound, InUse
<1> QED BY <1>1, <1>2, <1>3 DEF Sound, Advances, e

(* RemoveSavedNetStation is sound: it cleans up after itself.                *)
LEMMA RemoveSavedNetStationAdvances ==
    ASSUME NEW d, Sound(d), NEW cs
    PROVE  Advances(d, RemoveSavedNetStation(d, cs))
<1> DEFINE b == [d EXCEPT !.saved = @ \ {cs}]
           e == DeleteUnusedStations(b)
<1>1. /\ b.sessions = d.sessions /\ b.check_ins = d.check_ins /\ b.saved = d.saved \ {cs}
      /\ b.last_session = d.last_session /\ b.last_check_in = d.last_check_in
      /\ DOMAIN b = DOMAIN d
      /\ b.stations = d.stations
    BY DEF Sound, TablesTypeOK, EmptyTables
<1> HIDE DEF b
<1>2. Stocked(b)
    BY <1>1 DEF Sound, Stocked, TablesTypeOK, InUse
<1>3. /\ Sound(e)
      /\ e.sessions = d.sessions /\ e.check_ins = d.check_ins
      /\ e.last_session = d.last_session /\ e.last_check_in = d.last_check_in
    BY <1>1, <1>2, DeleteUnusedStationsIs
<1>4. RemoveSavedNetStation(d, cs) = e
    BY DEF RemoveSavedNetStation, b
<1> HIDE DEF e
<1>5. Succeeds(d, e)
    BY <1>3 DEF Sound, TablesTypeOK, Succeeds
<1> QED BY <1>3, <1>4, <1>5 DEF Advances

-----------------------------------------------------------------------------
(* Check-ins.                                                                *)

(* e is d with check-ins changed where they are, but not whose they are or   *)
(* the session they are in.                                                  *)
ChangedInPlace(d, e) ==
    /\ TablesTypeOK(e)
    /\ e.sessions = d.sessions /\ e.saved = d.saved /\ e.stations = d.stations
    /\ e.last_session = d.last_session /\ e.last_check_in = d.last_check_in
    /\ DOMAIN e.check_ins = DOMAIN d.check_ins
    /\ \A c \in DOMAIN e.check_ins :
        /\ e.check_ins[c].session = d.check_ins[c].session
        /\ e.check_ins[c].callsign = d.check_ins[c].callsign

(* Writing rows back by id changes them in place.                            *)
LEMMA UpdatedIsChangedInPlace ==
    ASSUME NEW d, TablesTypeOK(d), NEW log, DOMAIN log = DOMAIN d.check_ins,
           \A c \in DOMAIN log : /\ log[c] \in CheckIn
                                 /\ log[c].session = d.check_ins[c].session
                                 /\ log[c].callsign = d.check_ins[c].callsign
    PROVE  ChangedInPlace(d, [d EXCEPT !.check_ins = log])
<1> DEFINE e == [d EXCEPT !.check_ins = log]
<1>1. /\ e.sessions = d.sessions /\ e.check_ins = log /\ e.saved = d.saved
      /\ e.last_session = d.last_session /\ e.last_check_in = d.last_check_in
      /\ DOMAIN e = DOMAIN d
      /\ e.stations = d.stations
    BY DEF TablesTypeOK, EmptyTables
<1> HIDE DEF e
<1>2. TablesTypeOK(e)
    BY <1>1 DEF TablesTypeOK
<1> QED BY <1>1, <1>2 DEF ChangedInPlace, e

(* Changing check-ins in place, but for session and call sign, is sound.     *)
LEMMA ChangedInPlaceAdvances ==
    ASSUME NEW d, Sound(d), NEW e, ChangedInPlace(d, e)
    PROVE  Advances(d, e)
<1>1. Succeeds(d, e)
    BY DEF ChangedInPlace, Sound, TablesTypeOK, Succeeds
<1>2. \A cs : InUse(e, cs) <=> InUse(d, cs)
    BY DEF ChangedInPlace, InUse
<1> QED BY <1>1, <1>2 DEF ChangedInPlace, Sound, Advances

(* AddCheckIn is sound where its foreign keys hold.                          *)
LEMMA AddCheckInAdvances ==
    ASSUME NEW d, Sound(d), NEW row \in CheckIn, ForeignKeysHold(d, row)
    PROVE  Advances(d, AddCheckIn(d, row))
<1> DEFINE e == AddCheckIn(d, row)
           id == d.last_check_in + 1
<1>1. /\ e.sessions = d.sessions /\ e.check_ins = WithRow(d.check_ins, id, row)
      /\ e.saved = d.saved /\ e.stations = d.stations
      /\ e.last_session = d.last_session /\ e.last_check_in = id
      /\ DOMAIN e = DOMAIN d
    BY DEF Sound, TablesTypeOK, EmptyTables, AddCheckIn
<1> HIDE DEF e
<1>2. /\ id \in Nat /\ id > d.last_check_in
      /\ DOMAIN d.check_ins \subseteq 1..id
      /\ id \notin DOMAIN d.check_ins
    BY DEF Sound, TablesTypeOK
<1>3. /\ DOMAIN e.check_ins = DOMAIN d.check_ins \cup {id}
      /\ e.check_ins[id] = row
      /\ \A c \in DOMAIN d.check_ins : e.check_ins[c] = d.check_ins[c]
    BY <1>1, <1>2 DEF WithRow
<1>4. TablesTypeOK(e)
    BY <1>1, <1>2, <1>3 DEF Sound, TablesTypeOK
<1>5. Succeeds(d, e)
    BY <1>1, <1>2, <1>3 DEF Sound, TablesTypeOK, Succeeds
<1>6. \A cs \in Callsigns : InUse(e, cs) <=> InUse(d, cs)
    BY <1>1, <1>3 DEF Sound, InUse, ForeignKeysHold
<1>7. \A c \in DOMAIN e.check_ins : e.check_ins[c].session \in DOMAIN e.sessions
    BY <1>1, <1>3 DEF Sound, ForeignKeysHold
<1> QED BY <1>1, <1>4, <1>5, <1>6, <1>7 DEF Sound, Advances, e

(* So is AddCheckInAtNextSequence.                                           *)
LEMMA AddCheckInAtNextSequenceAdvances ==
    ASSUME NEW d, Sound(d), NEW row \in CheckIn, ForeignKeysHold(d, row)
    PROVE  Advances(d, AddCheckInAtNextSequence(d, row))
<1> DEFINE numbered == [row EXCEPT !.seq = NextSequence(d, row.session)]
<1>1. numbered \in CheckIn /\ numbered.session = row.session
                           /\ numbered.callsign = row.callsign
    BY NextSequenceIs DEF Sound, CheckIn
<1> HIDE DEF numbered
<1>2. Advances(d, AddCheckIn(d, numbered))
    BY <1>1, AddCheckInAdvances DEF ForeignKeysHold
<1> QED BY <1>2 DEF AddCheckInAtNextSequence, numbered

(* What UPDATE writes comes from a copy of the same row, however old.        *)
LEMMA UpdateCheckInAdvances ==
    ASSUME NEW d, Sound(d), NEW c, NEW row \in CheckIn,
           c \in DOMAIN d.check_ins => /\ row.session = d.check_ins[c].session
                                       /\ row.callsign = d.check_ins[c].callsign
    PROVE  Advances(d, UpdateCheckIn(d, c, row))
<1>1. CASE c \notin DOMAIN d.check_ins
    BY <1>1, SucceedsItself DEF UpdateCheckIn
<1>2. CASE c \in DOMAIN d.check_ins
    <2> DEFINE log == [d.check_ins EXCEPT ![c] = row]
    <2>1. /\ DOMAIN log = DOMAIN d.check_ins
          /\ \A b \in DOMAIN log : /\ log[b] \in CheckIn
                                   /\ log[b].session = d.check_ins[b].session
                                   /\ log[b].callsign = d.check_ins[b].callsign
        BY <1>2 DEF Sound, TablesTypeOK
    <2>2. UpdateCheckIn(d, c, row) = [d EXCEPT !.check_ins = log]
        BY <1>2 DEF UpdateCheckIn, Sound, TablesTypeOK, EmptyTables
    <2> HIDE DEF log
    <2>3. ChangedInPlace(d, UpdateCheckIn(d, c, row))
        BY <2>1, <2>2, UpdatedIsChangedInPlace DEF Sound
    <2> QED BY <2>3, ChangedInPlaceAdvances
<1> QED BY <1>1, <1>2

(* RenumberCheckIns only writes sequence_number.                             *)
LEMMA RenumberCheckInsIs ==
    ASSUME NEW d, TablesTypeOK(d), NEW i
    PROVE  ChangedInPlace(d, RenumberCheckIns(d, i))
<1> DEFINE old == GetCheckInsForNetInstance(d, i)
           log == [c \in DOMAIN d.check_ins |->
                    IF c \in DOMAIN old
                    THEN [d.check_ins[c] EXCEPT !.seq = Position(old, c)]
                    ELSE d.check_ins[c]]
<1>1. DOMAIN old \subseteq 1..d.last_check_in /\ d.last_check_in \in Nat
    BY DEF TablesTypeOK, GetCheckInsForNetInstance, CheckInIds, Restrict
<1> HIDE DEF old
<1>2. \A c : Position(old, c) \in Nat
    BY <1>1, PositionType
<1>3. \A c \in DOMAIN d.check_ins : d.check_ins[c] \in CheckIn
    BY DEF TablesTypeOK
<1>4. /\ DOMAIN log = DOMAIN d.check_ins
      /\ \A c \in DOMAIN log : /\ log[c] \in CheckIn
                               /\ log[c].session = d.check_ins[c].session
                               /\ log[c].callsign = d.check_ins[c].callsign
    BY <1>2, <1>3 DEF CheckIn
<1>5. RenumberCheckIns(d, i) = [d EXCEPT !.check_ins = log]
    BY DEF RenumberCheckIns, old
<1> HIDE DEF log
<1> QED BY <1>4, <1>5, UpdatedIsChangedInPlace

(* So RenumberCheckIns is sound.                                             *)
LEMMA RenumberCheckInsAdvances ==
    ASSUME NEW d, Sound(d), NEW i
    PROVE  Advances(d, RenumberCheckIns(d, i))
BY RenumberCheckInsIs, ChangedInPlaceAdvances DEF Sound

(* So is ClearCheckInRoleForInstance, which only writes roles.               *)
LEMMA ClearCheckInRoleForInstanceAdvances ==
    ASSUME NEW d, Sound(d), NEW i, NEW role, NEW except
    PROVE  Advances(d, ClearCheckInRoleForInstance(d, i, role, except))
<1> DEFINE log == [c \in DOMAIN d.check_ins |->
                    IF c \in CheckInIds(d, i) /\ d.check_ins[c].role = role /\ c # except
                    THEN [d.check_ins[c] EXCEPT !.role = NoRole]
                    ELSE d.check_ins[c]]
<1>1. \A c \in DOMAIN d.check_ins : d.check_ins[c] \in CheckIn
    BY DEF Sound, TablesTypeOK
<1>2. /\ DOMAIN log = DOMAIN d.check_ins
      /\ \A c \in DOMAIN log : /\ log[c] \in CheckIn
                               /\ log[c].session = d.check_ins[c].session
                               /\ log[c].callsign = d.check_ins[c].callsign
    BY <1>1 DEF CheckIn
<1>3. ClearCheckInRoleForInstance(d, i, role, except) = [d EXCEPT !.check_ins = log]
    BY DEF ClearCheckInRoleForInstance
<1> HIDE DEF log
<1>4. ChangedInPlace(d, [d EXCEPT !.check_ins = log])
    BY <1>2, UpdatedIsChangedInPlace DEF Sound
<1> QED BY <1>3, <1>4, ChangedInPlaceAdvances

(* Rows gone, and the sessions of those left still there: after the cleaning *)
(* up that follows, the tables are sound again.                              *)
LEMMA RemovedThenCleanedAdvances ==
    ASSUME NEW d, Sound(d), NEW b, TablesTypeOK(b), NEW e, e = DeleteUnusedStations(b),
           b.last_session = d.last_session, b.last_check_in = d.last_check_in,
           b.saved \subseteq d.saved, b.stations = d.stations,
           DOMAIN b.sessions \subseteq DOMAIN d.sessions,
           \A i \in DOMAIN b.sessions : b.sessions[i] = d.sessions[i],
           DOMAIN b.check_ins \subseteq DOMAIN d.check_ins,
           \A c \in DOMAIN b.check_ins : /\ b.check_ins[c].session = d.check_ins[c].session
                                         /\ b.check_ins[c].callsign = d.check_ins[c].callsign
                                         /\ b.check_ins[c].session \in DOMAIN b.sessions
    PROVE  Advances(d, e)
<1>1. Stocked(b)
    BY DEF Sound, Stocked, InUse
<1>2. /\ Sound(e)
      /\ e.sessions = b.sessions /\ e.check_ins = b.check_ins
      /\ e.last_session = b.last_session /\ e.last_check_in = b.last_check_in
    BY <1>1, DeleteUnusedStationsIs
<1>3. Succeeds(d, e)
    BY <1>2 DEF Sound, TablesTypeOK, Succeeds
<1> QED BY <1>2, <1>3 DEF Advances

(* What the DELETE of some check_ins leaves.                                 *)
LEMMA RemoveCheckInsIs ==
    ASSUME NEW d, TablesTypeOK(d), NEW ids
    PROVE  LET b == RemoveCheckIns(d, ids) IN
           /\ TablesTypeOK(b)
           /\ b.sessions = d.sessions /\ b.saved = d.saved /\ b.stations = d.stations
           /\ b.last_session = d.last_session /\ b.last_check_in = d.last_check_in
           /\ DOMAIN b.check_ins = DOMAIN d.check_ins \ ids
           /\ \A c \in DOMAIN b.check_ins : b.check_ins[c] = d.check_ins[c]
<1> DEFINE b == RemoveCheckIns(d, ids)
<1>1. /\ b.sessions = d.sessions /\ b.saved = d.saved /\ b.stations = d.stations
      /\ b.last_session = d.last_session /\ b.last_check_in = d.last_check_in
      /\ b.check_ins = Restrict(d.check_ins, DOMAIN d.check_ins \ ids)
      /\ DOMAIN b = DOMAIN d
    BY DEF TablesTypeOK, EmptyTables, RemoveCheckIns
<1> HIDE DEF b
<1>2. /\ DOMAIN b.check_ins = DOMAIN d.check_ins \ ids
      /\ \A c \in DOMAIN b.check_ins : b.check_ins[c] = d.check_ins[c]
    BY <1>1 DEF Restrict
<1>3. TablesTypeOK(b)
    BY <1>1, <1>2 DEF TablesTypeOK
<1> QED BY <1>1, <1>2, <1>3 DEF b

(* DeleteCheckIn is sound, of an open session or a closed one.               *)
LEMMA DeleteCheckInAdvances ==
    ASSUME NEW d, Sound(d), NEW c
    PROVE  Advances(d, DeleteCheckIn(d, c))
<1> DEFINE gone == RemoveCheckIns(d, {c})
           closed == c \in DOMAIN d.check_ins /\ IsClosed(d, d.check_ins[c].session)
           b == IF closed THEN RenumberCheckIns(gone, d.check_ins[c].session) ELSE gone
<1>1. /\ TablesTypeOK(gone)
      /\ gone.sessions = d.sessions /\ gone.saved = d.saved /\ gone.stations = d.stations
      /\ gone.last_session = d.last_session /\ gone.last_check_in = d.last_check_in
      /\ DOMAIN gone.check_ins = DOMAIN d.check_ins \ {c}
      /\ \A k \in DOMAIN gone.check_ins : gone.check_ins[k] = d.check_ins[k]
    BY RemoveCheckInsIs DEF Sound
<1> HIDE DEF gone
<1>2. ChangedInPlace(gone, b)
    <2>1. CASE closed
        BY <1>1, <2>1, RenumberCheckInsIs
    <2>2. CASE ~closed
        BY <1>1, <2>2 DEF ChangedInPlace
    <2> QED BY <2>1, <2>2
<1>3. DeleteCheckIn(d, c) = DeleteUnusedStations(b)
    BY DEF DeleteCheckIn, gone
<1> HIDE DEF b
<1>4. /\ TablesTypeOK(b)
      /\ b.sessions = d.sessions /\ b.saved = d.saved /\ b.stations = d.stations
      /\ b.last_session = d.last_session /\ b.last_check_in = d.last_check_in
    BY <1>1, <1>2 DEF ChangedInPlace
<1>5. \A k \in DOMAIN b.check_ins : /\ k \in DOMAIN d.check_ins
                                    /\ b.check_ins[k].session = d.check_ins[k].session
                                    /\ b.check_ins[k].callsign = d.check_ins[k].callsign
                                    /\ b.check_ins[k].session \in DOMAIN b.sessions
    BY <1>1, <1>2, <1>4 DEF Sound, ChangedInPlace
<1> QED BY <1>3, <1>4, <1>5, RemovedThenCleanedAdvances

-----------------------------------------------------------------------------
(* Sessions.                                                                 *)

(* DeleteNetInstance is sound: its check-ins go with the session.            *)
LEMMA DeleteNetInstanceAdvances ==
    ASSUME NEW d, Sound(d), NEW i
    PROVE  Advances(d, DeleteNetInstance(d, i))
<1> DEFINE emptied == RemoveCheckIns(d, CheckInIds(d, i))
           rest == Restrict(d.sessions, DOMAIN d.sessions \ {i})
           b == [emptied EXCEPT !.sessions = rest]
<1>1. /\ TablesTypeOK(emptied)
      /\ emptied.saved = d.saved /\ emptied.stations = d.stations
      /\ emptied.last_session = d.last_session /\ emptied.last_check_in = d.last_check_in
      /\ DOMAIN emptied.check_ins = DOMAIN d.check_ins \ CheckInIds(d, i)
      /\ \A c \in DOMAIN emptied.check_ins : emptied.check_ins[c] = d.check_ins[c]
    BY RemoveCheckInsIs DEF Sound
<1>2. DeleteNetInstance(d, i) = DeleteUnusedStations(b)
    BY DEF DeleteNetInstance
<1> HIDE DEF emptied
<1>3. DOMAIN rest = DOMAIN d.sessions \ {i} /\ \A k \in DOMAIN rest : rest[k] = d.sessions[k]
    BY DEF Restrict
<1> HIDE DEF rest
<1>4. /\ DOMAIN b = DOMAIN emptied
      /\ b.sessions = rest /\ b.saved = d.saved /\ b.stations = d.stations
      /\ b.last_session = d.last_session /\ b.last_check_in = d.last_check_in
      /\ b.check_ins = emptied.check_ins
    BY <1>1 DEF TablesTypeOK, EmptyTables
<1> HIDE DEF b
<1>5. TablesTypeOK(b)
    BY <1>1, <1>3, <1>4 DEF Sound, TablesTypeOK
<1>6. \A c \in DOMAIN b.check_ins : /\ c \in DOMAIN d.check_ins
                                    /\ b.check_ins[c].session = d.check_ins[c].session
                                    /\ b.check_ins[c].callsign = d.check_ins[c].callsign
                                    /\ b.check_ins[c].session \in DOMAIN b.sessions
    BY <1>1, <1>3, <1>4 DEF Sound, CheckInIds
<1> QED BY <1>2, <1>3, <1>4, <1>5, <1>6, RemovedThenCleanedAdvances

(* A statement that changes sessions where they are, never one that is       *)
(* closed but in its role columns.                                           *)
LEMMA ChangedSessionsAdvances ==
    ASSUME NEW d, Sound(d), NEW rows, DOMAIN rows = DOMAIN d.sessions,
           \A i \in DOMAIN rows :
                /\ rows[i] \in NetInstance
                /\ d.sessions[i].status = "closed" =>
                        rows[i].status = "closed" /\ rows[i].closed_at = d.sessions[i].closed_at
    PROVE  Advances(d, [d EXCEPT !.sessions = rows])
<1> DEFINE e == [d EXCEPT !.sessions = rows]
<1>1. /\ e.sessions = rows /\ e.check_ins = d.check_ins /\ e.saved = d.saved
      /\ e.last_session = d.last_session /\ e.last_check_in = d.last_check_in
      /\ DOMAIN e = DOMAIN d
      /\ e.stations = d.stations
    BY DEF Sound, TablesTypeOK, EmptyTables
<1> HIDE DEF e
<1>2. TablesTypeOK(e) /\ Succeeds(d, e)
    BY <1>1 DEF Sound, TablesTypeOK, Succeeds
<1>3. \A cs : InUse(e, cs) <=> InUse(d, cs)
    BY <1>1 DEF InUse
<1>4. \A c \in DOMAIN e.check_ins : e.check_ins[c].session \in DOMAIN e.sessions
    BY <1>1 DEF Sound
<1> QED BY <1>1, <1>2, <1>3, <1>4 DEF Sound, Advances, e

(* CloseNetInstance's UPDATE is sound.                                       *)
LEMMA MarkClosedAdvances ==
    ASSUME NEW d, Sound(d), NEW i, NEW u \in Users
    PROVE  Advances(d, MarkClosed(d, i, u))
<1>1. CASE ~IsOpen(d, i)
    BY <1>1, SucceedsItself DEF MarkClosed, ClosesHere
<1>2. CASE IsOpen(d, i)
    <2> DEFINE row == [d.sessions[i] EXCEPT !.status = "closed", !.closed_at = u]
               rows == [d.sessions EXCEPT ![i] = row]
    <2>1. i \in DOMAIN d.sessions /\ d.sessions[i] \in NetInstance
        BY <1>2 DEF Sound, TablesTypeOK, IsOpen
    <2>2. row \in NetInstance /\ d.sessions[i].status # "closed"
        BY <1>2, <2>1 DEF NetInstance, IsOpen
    <2>3. rows = [d.sessions EXCEPT ![i].status = "closed", ![i].closed_at = u]
        BY <2>1 DEF NetInstance
    <2>4. MarkClosed(d, i, u) = [d EXCEPT !.sessions = rows]
        BY <1>2, <2>1, <2>3 DEF MarkClosed, ClosesHere, Sound, TablesTypeOK, EmptyTables
    <2> HIDE DEF row
    <2>5. /\ DOMAIN rows = DOMAIN d.sessions
          /\ \A k \in DOMAIN rows :
                /\ rows[k] \in NetInstance
                /\ d.sessions[k].status = "closed" =>
                        rows[k].status = "closed" /\ rows[k].closed_at = d.sessions[k].closed_at
        BY <2>2 DEF Sound, TablesTypeOK
    <2> HIDE DEF rows
    <2> QED BY <2>4, <2>5, ChangedSessionsAdvances
<1> QED BY <1>1, <1>2

(* SetNetInstanceRoleCallsign is sound.                                      *)
LEMMA SetNetInstanceRoleCallsignAdvances ==
    ASSUME NEW d, Sound(d), NEW i, NEW role, NEW cs \in Callsigns \cup {NoCall}
    PROVE  Advances(d, SetNetInstanceRoleCallsign(d, i, role, cs))
<1>1. CASE ~(i \in DOMAIN d.sessions /\ role \in Roles)
    BY <1>1, SucceedsItself DEF SetNetInstanceRoleCallsign
<1>2. CASE i \in DOMAIN d.sessions /\ role \in Roles
    <2> DEFINE row == [d.sessions[i] EXCEPT !.role_callsign[role] = cs]
               rows == [d.sessions EXCEPT ![i] = row]
    <2>1. d.sessions[i] \in NetInstance
        BY <1>2 DEF Sound, TablesTypeOK
    <2>2. /\ row \in NetInstance
          /\ row.status = d.sessions[i].status /\ row.closed_at = d.sessions[i].closed_at
        BY <1>2, <2>1 DEF NetInstance
    <2>3. SetNetInstanceRoleCallsign(d, i, role, cs) = [d EXCEPT !.sessions = rows]
        BY <1>2 DEF SetNetInstanceRoleCallsign, Sound, TablesTypeOK, EmptyTables
    <2> HIDE DEF row
    <2>4. /\ DOMAIN rows = DOMAIN d.sessions
          /\ \A k \in DOMAIN rows :
                /\ rows[k] \in NetInstance
                /\ d.sessions[k].status = "closed" =>
                        rows[k].status = "closed" /\ rows[k].closed_at = d.sessions[k].closed_at
        BY <2>2 DEF Sound, TablesTypeOK
    <2> HIDE DEF rows
    <2> QED BY <2>3, <2>4, ChangedSessionsAdvances
<1> QED BY <1>1, <1>2

(* CreateNetInstance is sound.                                               *)
LEMMA CreateNetInstanceAdvances ==
    ASSUME NEW d, Sound(d), NEW role \in Roles, NEW cs \in Callsigns
    PROVE  Advances(d, CreateNetInstance(d, role, cs))
<1> DEFINE e == CreateNetInstance(d, role, cs)
           id == d.last_session + 1
           row == [status |-> "open", closed_at |-> NoUser, operator_role |-> role,
                   role_callsign |-> [r \in Roles |-> IF r = role THEN cs ELSE NoCall]]
<1>1. /\ e.sessions = WithRow(d.sessions, id, row) /\ e.check_ins = d.check_ins
      /\ e.saved = d.saved /\ e.stations = d.stations
      /\ e.last_session = id /\ e.last_check_in = d.last_check_in
      /\ DOMAIN e = DOMAIN d
    BY DEF Sound, TablesTypeOK, EmptyTables, CreateNetInstance
<1>2. row \in NetInstance
    BY DEF NetInstance
<1> HIDE DEF e, row
<1>3. /\ id \in Nat /\ id > d.last_session
      /\ DOMAIN d.sessions \subseteq 1..id
      /\ id \notin DOMAIN d.sessions
    BY DEF Sound, TablesTypeOK
<1>4. /\ DOMAIN e.sessions = DOMAIN d.sessions \cup {id}
      /\ e.sessions[id] = row
      /\ \A i \in DOMAIN d.sessions : e.sessions[i] = d.sessions[i]
    BY <1>1, <1>3 DEF WithRow
<1>5. TablesTypeOK(e)
    BY <1>1, <1>2, <1>3, <1>4 DEF Sound, TablesTypeOK
<1>6. Succeeds(d, e)
    BY <1>1, <1>3, <1>4 DEF Sound, TablesTypeOK, Succeeds
<1>7. \A s : InUse(e, s) <=> InUse(d, s)
    BY <1>1 DEF InUse
<1>8. \A c \in DOMAIN e.check_ins : e.check_ins[c].session \in DOMAIN e.sessions
    BY <1>1, <1>4 DEF Sound
<1> QED BY <1>1, <1>5, <1>6, <1>7, <1>8 DEF Sound, Advances, e

-----------------------------------------------------------------------------

(* What an operator's process knows of the check-ins it has read, however    *)
(* long ago: those still there are the same station's in the same session,   *)
(* and any that a watched session has besides came later than all of them.   *)
Traces(s, d) ==
    /\ \A c \in DOMAIN s.shown \cap DOMAIN d.check_ins :
        /\ s.shown[c].session = d.check_ins[c].session
        /\ s.shown[c].callsign = d.check_ins[c].callsign
    /\ s.held.id <= d.last_check_in
    /\ s.held # NoCopy /\ s.held.id \in DOMAIN d.check_ins =>
        /\ s.held.row.session = d.check_ins[s.held.id].session
        /\ s.held.row.callsign = d.check_ins[s.held.id].callsign
    /\ s.watched # 0 =>
        \A c \in CheckInIds(d, s.watched) :
            c \in DOMAIN s.shown \/ \A b \in DOMAIN s.shown : c > b

AppStateOK(s, d) == AppStateTypeOK(s, d) /\ Traces(s, d)

(* The inductive invariant.                                                  *)
Inv ==
    /\ TypeOK
    /\ Sound(db)
    /\ \A u \in Users : Traces(ui[u], db)

-----------------------------------------------------------------------------

(* Whatever others do to the tables, an operator's own state stays sound.    *)
LEMMA OthersKeep ==
    ASSUME NEW d, Sound(d), NEW e, Advances(d, e), NEW s, AppStateOK(s, d)
    PROVE  AppStateOK(s, e)
<1>1. /\ d.last_check_in \in Nat /\ e.last_check_in \in Nat
      /\ d.last_check_in <= e.last_check_in
      /\ DOMAIN d.check_ins \subseteq 1..d.last_check_in
      /\ DOMAIN e.check_ins \subseteq 1..e.last_check_in
      /\ DOMAIN s.shown \subseteq 1..d.last_check_in
    BY DEF Sound, TablesTypeOK, Advances, Succeeds, AppStateOK, AppStateTypeOK
<1>2. \A c \in DOMAIN e.check_ins : c <= d.last_check_in =>
        /\ c \in DOMAIN d.check_ins
        /\ e.check_ins[c].session = d.check_ins[c].session
        /\ e.check_ins[c].callsign = d.check_ins[c].callsign
    BY <1>1 DEF Advances, Succeeds
<1>3. s.held.id \in Nat
    BY DEF AppStateOK, AppStateTypeOK, NoCopy
<1>4. AppStateTypeOK(s, e)
    BY <1>1 DEF AppStateOK, AppStateTypeOK
<1>5. s.watched # 0 =>
        \A c \in CheckInIds(e, s.watched) :
            c \in DOMAIN s.shown \/ \A b \in DOMAIN s.shown : c > b
    <2> SUFFICES ASSUME s.watched # 0, NEW c \in CheckInIds(e, s.watched)
                 PROVE  c \in DOMAIN s.shown \/ \A b \in DOMAIN s.shown : c > b
        OBVIOUS
    <2>1. c \in DOMAIN e.check_ins /\ c \in Nat /\ e.check_ins[c].session = s.watched
        BY <1>1 DEF CheckInIds
    <2>2. CASE c <= d.last_check_in
        BY <1>2, <2>1, <2>2 DEF AppStateOK, Traces, CheckInIds
    <2>3. CASE c > d.last_check_in
        BY <1>1, <2>1, <2>3
    <2> QED BY <1>1, <2>1, <2>2, <2>3
<1> QED BY <1>1, <1>2, <1>3, <1>4, <1>5 DEF AppStateOK, Traces

(* A list as the query returns it.                                           *)
LEMMA ListIs ==
    ASSUME NEW d, Sound(d), NEW i
    PROVE  LET log == GetCheckInsForNetInstance(d, i) IN
           /\ DOMAIN log = CheckInIds(d, i)
           /\ DOMAIN log \subseteq 1..d.last_check_in
           /\ \A c \in DOMAIN log : /\ c \in DOMAIN d.check_ins
                                    /\ log[c] = d.check_ins[c]
                                    /\ log[c] \in CheckIn
BY DEF GetCheckInsForNetInstance, Restrict, CheckInIds, Sound, TablesTypeOK

(* A list just read from the tables traces back to them.                     *)
LEMMA RefreshActiveCheckInsOK ==
    ASSUME NEW d, Sound(d), NEW s, s.page = "activeNet",
           DOMAIN s = DOMAIN NetListPage, AppStateOK([s EXCEPT !.watched = 0], d)
    PROVE  AppStateOK(RefreshActiveCheckIns(s, d), d)
<1> DEFINE log == GetCheckInsForNetInstance(d, s.active)
           t == RefreshActiveCheckIns(s, d)
<1>1. t = [s EXCEPT !.shown = log, !.watched = s.active]
    BY DEF RefreshActiveCheckIns
<1>2. /\ DOMAIN log = CheckInIds(d, s.active)
      /\ DOMAIN log \subseteq 1..d.last_check_in
      /\ \A c \in DOMAIN log : /\ c \in DOMAIN d.check_ins
                               /\ log[c] = d.check_ins[c]
                               /\ log[c] \in CheckIn
    BY ListIs
<1> HIDE DEF log, t
<1>3. AppStateTypeOK(t, d)
    BY <1>1, <1>2 DEF AppStateOK, AppStateTypeOK, NetListPage
<1>4. Traces(t, d)
    BY <1>1, <1>2 DEF AppStateOK, AppStateTypeOK, Traces, NetListPage
<1> QED BY <1>3, <1>4 DEF AppStateOK, t

(* The Net Closed window replaces any other window and prompt.               *)
LEMMA ShowSessionClosedPromptOK ==
    ASSUME NEW d, Sound(d), NEW s, AppStateOK(s, d), s.step = "idle"
    PROVE  AppStateOK(ShowSessionClosedPrompt(s), d)
BY DEF ShowSessionClosedPrompt, NoModal, CancelConfirmPrompt, AppStateOK, AppStateTypeOK, Traces,
       NetListPage, NoCopy, Sound, TablesTypeOK

(* Leaving the active net page stops the watching.                           *)
LEMMA LeaveActiveNetOK ==
    ASSUME NEW d, Sound(d), NEW s, AppStateOK(s, d), s.step = "idle", s.prompt = "none"
    PROVE  AppStateOK(LeaveActiveNet(s), d)
BY DEF LeaveActiveNet, NoModal, AppStateOK, AppStateTypeOK, Traces,
       NetListPage, NoCopy, Sound, TablesTypeOK

(* Closing a window forgets what it held.                                    *)
LEMMA NoModalOK ==
    ASSUME NEW d, Sound(d), NEW s, AppStateOK(s, d)
    PROVE  AppStateOK(NoModal(s), d)
BY DEF NoModal, AppStateOK, AppStateTypeOK, Traces, NetListPage, NoCopy, Sound, TablesTypeOK

(* A prompt can be cancelled wherever it is up.                              *)
LEMMA CancelConfirmPromptOK ==
    ASSUME NEW d, NEW s, AppStateOK(s, d)
    PROVE  AppStateOK(CancelConfirmPrompt(s), d)
BY DEF CancelConfirmPrompt, AppStateOK, AppStateTypeOK, Traces, NetListPage

(* Joining an open session, or finding it is not open after all.             *)
LEMMA JoinOpenSessionOK ==
    ASSUME Sound(db), NEW s, AppStateOK(s, db), s.step = "idle",
           NEW i \in Nat, NEW viewing \in BOOLEAN
    PROVE  AppStateOK(JoinOpenSession(s, i, viewing), db)
<1> DEFINE base == NoModal(CancelConfirmPrompt(s))
<1>1. CASE IsOpen(db, i)
    <2> DEFINE t == [base EXCEPT !.page = "activeNet", !.active = i, !.viewing = viewing]
    <2>1. AppStateOK(base, db)
        BY CancelConfirmPromptOK, NoModalOK
    <2>5. base.step = "idle" /\ base.prompt = "none"
        BY DEF AppStateOK, AppStateTypeOK, NetListPage, NoModal, CancelConfirmPrompt
    <2> HIDE DEF base
    <2>2. t.page = "activeNet" /\ DOMAIN t = DOMAIN NetListPage
        BY <2>1 DEF AppStateOK, AppStateTypeOK, NetListPage
    <2>3. AppStateOK([t EXCEPT !.watched = 0], db)
        BY <2>1, <2>5 DEF AppStateOK, AppStateTypeOK, Traces, NetListPage
    <2> HIDE DEF t
    <2>4. AppStateOK(RefreshActiveCheckIns(t, db), db)
        BY <2>2, <2>3, RefreshActiveCheckInsOK
    <2> QED BY <1>1, <2>4 DEF JoinOpenSession, t, base
<1>2. CASE ~IsOpen(db, i)
    BY <1>2, CancelConfirmPromptOK DEF JoinOpenSession
<1> QED BY <1>1, <1>2

-----------------------------------------------------------------------------
(* One operator's step: the tables advance, the operator's own state is a    *)
(* sound one of the tables as they then are, and nobody else's changes.      *)

TasksTypeOK ==
    /\ DOMAIN tasks = Users
    /\ \A u \in Users :
        tasks[u] \subseteq [kind : {"sessionClosed", "refreshCheckIns"}, session : Nat]

Does(u, s) ==
    /\ Advances(db, db')
    /\ AppStateOK(s, db')
    /\ DOMAIN ui' = Users /\ ui'[u] = s /\ \A v \in Users \ {u} : ui'[v] = ui[v]
    /\ TasksTypeOK'

(* The invariant, one operator at a time.                                    *)
LEMMA InvParts ==
    Inv <=> /\ Sound(db)
            /\ DOMAIN ui = Users /\ \A u \in Users : AppStateOK(ui[u], db)
            /\ TasksTypeOK
BY DEF Inv, TypeOK, AppStateOK, TasksTypeOK, Sound

(* A step that Does keeps the invariant: everyone else's state survives it.  *)
LEMMA DoesKeepsInv ==
    ASSUME Inv, NEW u \in Users, NEW s, Does(u, s)
    PROVE  Inv'
<1>1. ASSUME NEW v \in Users PROVE AppStateOK(ui'[v], db')
    <2>1. CASE v = u
        BY <2>1 DEF Does
    <2>2. CASE v # u
        BY <2>2, InvParts, OthersKeep DEF Does
    <2> QED BY <2>1, <2>2
<1> QED BY <1>1 DEF Does, Advances, Inv, TypeOK, AppStateOK, TasksTypeOK, Sound

(* A step that leaves the tables and the posted tasks alone, ...             *)
LEMMA StateStep ==
    ASSUME Inv, NEW u \in Users, NEW s, Becomes(u, s), AppStateOK(s, db), UNCHANGED <<db, tasks>>
    PROVE  \E t : Does(u, t)
<1>1. Advances(db, db') /\ AppStateOK(s, db') /\ TasksTypeOK'
    BY InvParts, SucceedsItself DEF TasksTypeOK
<1>2. DOMAIN ui' = Users /\ ui'[u] = s /\ \A v \in Users \ {u} : ui'[v] = ui[v]
    BY InvParts DEF Becomes
<1> QED BY <1>1, <1>2 DEF Does

(* ... and one that changes the tables as well.                              *)
LEMMA TablesStep ==
    ASSUME Inv, NEW u \in Users, NEW s, Becomes(u, s), Advances(db, db'), AppStateOK(s, db'),
           UNCHANGED tasks
    PROVE  \E t : Does(u, t)
<1>1. TasksTypeOK'
    BY InvParts DEF TasksTypeOK
<1>2. DOMAIN ui' = Users /\ ui'[u] = s /\ \A v \in Users \ {u} : ui'[v] = ui[v]
    BY InvParts DEF Becomes
<1> QED BY <1>1, <1>2 DEF Does

-----------------------------------------------------------------------------
(* The net list: starting, resuming and watching a session.                  *)

(* The session F2 offers is an id.                                           *)
LEMMA NewestOpenSessionType == ASSUME Sound(db) PROVE NewestOpenSession \in Nat
<1>1. OpenSessions(db) \subseteq 1..db.last_session /\ db.last_session \in Nat
    BY DEF Sound, TablesTypeOK, OpenSessions
<1>2. IsFiniteSet(OpenSessions(db))
    BY <1>1, IdsFinite
<1>3. OpenSessions(db) \in SUBSET Nat
    BY <1>1
<1> QED BY <1>2, <1>3, NewestIs DEF NewestOpenSession

(* Viewing, from the net list or the role page.                              *)
LEMMA ViewStartNetDoes ==
    ASSUME Inv, NEW u \in Users, ui[u].step = "idle", ViewStartNet(u)
    PROVE  \E s : Does(u, s)
<1> DEFINE s == JoinOpenSession(ui[u], NewestOpenSession, TRUE)
<1>1. AppStateOK(s, db)
    BY InvParts, NewestOpenSessionType, JoinOpenSessionOK
<1> HIDE DEF s
<1>2. Becomes(u, s) /\ UNCHANGED <<db, tasks>>
    BY DEF ViewStartNet, s
<1> QED BY <1>1, <1>2, StateStep

(* F2 on the net list.                                                       *)
LEMMA StartSelectedNetDoes ==
    ASSUME Inv, NEW u \in Users, StartSelectedNet(u)
    PROVE  \E s : Does(u, s)
<1>1. ui[u].page = "netList" /\ ui[u].prompt = "none" /\ ui[u].step = "idle"
    BY DEF StartSelectedNet, OnPage
<1>2. CASE ViewStartNet(u)
    BY <1>1, <1>2, ViewStartNetDoes
<1>3. CASE ~ViewStartNet(u)
    <2> DEFINE resume == [ui[u] EXCEPT !.prompt = "resumeNet", !.other = NewestOpenSession,
                                       !.other_open = TRUE]
               start == [ui[u] EXCEPT !.page = "role"]
    <2>1. NewestOpenSession \in Nat
        BY InvParts, NewestOpenSessionType
    <2>2. AppStateOK(ui[u], db)
        BY InvParts
    <2>3. AppStateOK(resume, db) /\ AppStateOK(start, db)
        BY <1>1, <2>1, <2>2 DEF AppStateOK, AppStateTypeOK, Traces, NetListPage
    <2>4. (Becomes(u, resume) \/ Becomes(u, start)) /\ UNCHANGED <<db, tasks>>
        BY <1>3 DEF StartSelectedNet
    <2> HIDE DEF resume, start
    <2> QED BY <2>3, <2>4, StateStep
<1> QED BY <1>2, <1>3

(* What the Resume Net prompt leads to.                                      *)
LEMMA ResumePromptDoes ==
    ASSUME Inv, NEW u \in Users,
           (\E viewing \in BOOLEAN : AnswerResumePrompt(u, viewing)) \/ CancelPrompt(u)
    PROVE  \E s : Does(u, s)
<1>1. AppStateOK(ui[u], db) /\ ui[u].other \in Nat
    BY InvParts DEF AppStateOK, AppStateTypeOK
<1>2. ASSUME NEW viewing \in BOOLEAN, AnswerResumePrompt(u, viewing)
      PROVE  \E s : Does(u, s)
    <2> DEFINE s == JoinOpenSession(ui[u], ui[u].other, viewing)
    <2>1. AppStateOK(s, db)
        BY <1>1, <1>2, InvParts, JoinOpenSessionOK DEF AnswerResumePrompt, AtPrompt
    <2> HIDE DEF s
    <2>2. Becomes(u, s) /\ UNCHANGED <<db, tasks>>
        BY <1>2 DEF AnswerResumePrompt, s
    <2> QED BY <2>1, <2>2, StateStep
<1>3. CASE CancelPrompt(u)
    BY <1>1, <1>3, CancelConfirmPromptOK, StateStep DEF CancelPrompt
<1> QED BY <1>2, <1>3

(* Closing the open session to start a new one, up to the UPDATE ...         *)
LEMMA CloseOpenNetAndStartNewDoes ==
    ASSUME Inv, NEW u \in Users, CloseOpenNetAndStartNew(u)
    PROVE  \E s : Does(u, s)
<1> DEFINE next == [ui[u] EXCEPT !.prompt = "none", !.other_open = FALSE,
                                 !.step = "renumberThenStart"]
           role == [CancelConfirmPrompt(ui[u]) EXCEPT !.page = "role"]
<1>1. AppStateOK(ui[u], db) /\ Sound(db) /\ ui[u].prompt = "resumeNet" /\ ui[u].step = "idle"
    BY InvParts DEF CloseOpenNetAndStartNew, AtPrompt
<1>2. Advances(db, db')
    BY <1>1, MarkClosedAdvances DEF CloseOpenNetAndStartNew
<1>3. AppStateOK(ui[u], db')
    BY <1>1, <1>2, OthersKeep
<1>4. AppStateOK(next, db') /\ AppStateOK(role, db')
    BY <1>1, <1>3 DEF AppStateOK, AppStateTypeOK, Traces, NetListPage, Steps, CancelConfirmPrompt
<1>5. (Becomes(u, next) \/ Becomes(u, role)) /\ UNCHANGED tasks
    BY DEF CloseOpenNetAndStartNew
<1> HIDE DEF next, role
<1> QED BY <1>2, <1>4, <1>5, TablesStep

(* ... and from there to the role page.                                      *)
LEMMA RenumberThenStartDoes ==
    ASSUME Inv, NEW u \in Users, RenumberThenStart(u)
    PROVE  \E s : Does(u, s)
<1> DEFINE s == [CancelConfirmPrompt(ui[u]) EXCEPT !.page = "role", !.step = "idle"]
<1>1. AppStateOK(ui[u], db) /\ Sound(db) /\ ui[u].step = "renumberThenStart"
    BY InvParts DEF RenumberThenStart
<1>2. Advances(db, db')
    BY <1>1, RenumberCheckInsAdvances DEF RenumberThenStart
<1>3. AppStateOK(ui[u], db')
    BY <1>1, <1>2, OthersKeep
<1>4. AppStateOK(s, db')
    BY <1>1, <1>3 DEF AppStateOK, AppStateTypeOK, Traces, NetListPage, Steps, CancelConfirmPrompt
<1>5. Becomes(u, s) /\ UNCHANGED tasks
    BY DEF RenumberThenStart
<1> HIDE DEF s
<1> QED BY <1>2, <1>4, <1>5, TablesStep

(* Back and Viewer on the role page.                                         *)
LEMMA RolePageDoes ==
    ASSUME Inv, NEW u \in Users, RoleBack(u) \/ ChooseViewer(u)
    PROVE  \E s : Does(u, s)
<1>1. CASE ChooseViewer(u)
    BY <1>1, ViewStartNetDoes DEF ChooseViewer, OnPage
<1>2. CASE RoleBack(u)
    <2> DEFINE s == [ui[u] EXCEPT !.page = "netList"]
    <2>1. AppStateOK(ui[u], db) /\ ui[u].page = "role"
        BY <1>2, InvParts DEF RoleBack, OnPage
    <2>2. AppStateOK(s, db)
        BY <2>1 DEF AppStateOK, AppStateTypeOK, Traces, NetListPage
    <2> HIDE DEF s
    <2>3. Becomes(u, s) /\ UNCHANGED <<db, tasks>>
        BY <1>2 DEF RoleBack, s
    <2> QED BY <2>2, <2>3, StateStep
<1> QED BY <1>1, <1>2

(* The session is created ...                                                *)
LEMMA OperatorCallsignSubmitDoes ==
    ASSUME Inv, NEW u \in Users, NEW role \in Roles, OperatorCallsignSubmit(u, role)
    PROVE  \E s : Does(u, s)
<1> DEFINE s == [ui[u] EXCEPT !.active = db'.last_session, !.viewing = FALSE,
                              !.step = "saveOperator",
                              !.draft = [callsign |-> OperatorCallsign[u], role |-> role]]
<1>1. /\ AppStateOK(ui[u], db) /\ Sound(db)
      /\ ui[u].page = "role" /\ ui[u].prompt = "none" /\ ui[u].step = "idle"
    BY InvParts DEF OperatorCallsignSubmit, OnPage
<1>2. OperatorCallsign[u] \in Callsigns
    BY OperatorType
<1>3. Advances(db, db')
    BY <1>1, <1>2, CreateNetInstanceAdvances DEF OperatorCallsignSubmit
<1>4. AppStateOK(ui[u], db')
    BY <1>1, <1>3, OthersKeep
<1>5. db'.last_session \in Nat
    BY <1>3 DEF Advances, Sound, TablesTypeOK
<1>6. AppStateOK(s, db')
    BY <1>1, <1>2, <1>4, <1>5, NoValuesDistinct
    DEF AppStateOK, AppStateTypeOK, Traces, NetListPage, Steps
<1>7. Becomes(u, s) /\ UNCHANGED tasks
    BY DEF OperatorCallsignSubmit
<1> HIDE DEF s
<1> QED BY <1>3, <1>6, <1>7, TablesStep

(* ... its operator's station saved ...                                      *)
LEMMA SaveOperatorStationDoes ==
    ASSUME Inv, NEW u \in Users, SaveOperatorStation(u)
    PROVE  \E s : Does(u, s)
<1> DEFINE s == [ui[u] EXCEPT !.step = "addOperator"]
<1>1. /\ AppStateOK(ui[u], db) /\ Sound(db) /\ ui[u].step = "saveOperator"
      /\ ui[u].draft.callsign \in Callsigns
    BY InvParts DEF SaveOperatorStation, AppStateOK, AppStateTypeOK
<1>2. Advances(db, db')
    BY <1>1, SaveNetStationAdvances DEF SaveOperatorStation
<1>3. AppStateOK(ui[u], db')
    BY <1>1, <1>2, OthersKeep
<1>4. AppStateOK(s, db')
    BY <1>1, <1>3 DEF AppStateOK, AppStateTypeOK, Traces, NetListPage, Steps
<1>5. Becomes(u, s) /\ UNCHANGED tasks
    BY DEF SaveOperatorStation
<1> HIDE DEF s
<1> QED BY <1>2, <1>4, <1>5, TablesStep

(* ... and its operator checked in.                                          *)
LEMMA AddOperatorCheckInDoes ==
    ASSUME Inv, NEW u \in Users, AddOperatorCheckIn(u)
    PROVE  \E s : Does(u, s)
<1> DEFINE row == [session |-> ui[u].active, callsign |-> ui[u].draft.callsign, seq |-> 1,
                   role |-> ui[u].draft.role]
           rest == [ui[u] EXCEPT !.step = "idle", !.draft = NoDraft]
           there == [rest EXCEPT !.page = "activeNet"]
           s == [RefreshActiveCheckIns(rest, db') EXCEPT !.page = "activeNet"]
<1>1. /\ AppStateOK(ui[u], db) /\ Sound(db) /\ ui[u].step = "addOperator"
      /\ ui[u].draft.callsign \in Callsigns /\ ui[u].draft.role \in Roles \cup {NoRole}
      /\ ui[u].active \in Nat
    BY InvParts DEF AddOperatorCheckIn, AppStateOK, AppStateTypeOK
<1>2. row \in CheckIn
    BY <1>1 DEF CheckIn
<1>3. CASE ForeignKeysHold(db, row)
    <2>1. db' = AddCheckIn(db, row) /\ Becomes(u, s) /\ UNCHANGED tasks
        BY <1>3 DEF AddOperatorCheckIn
    <2> HIDE DEF row
    <2>2. Advances(db, db')
        BY <1>1, <1>2, <1>3, <2>1, AddCheckInAdvances
    <2>3. AppStateOK(ui[u], db') /\ Sound(db')
        BY <1>1, <2>2, OthersKeep DEF Advances
    <2>4. /\ there.page = "activeNet" /\ DOMAIN there = DOMAIN NetListPage
          /\ AppStateOK([there EXCEPT !.watched = 0], db')
        BY <1>1, <2>3 DEF AppStateOK, AppStateTypeOK, Traces, NetListPage, Steps, NoDraft
    <2>5. s = RefreshActiveCheckIns(there, db')
        BY <1>1 DEF RefreshActiveCheckIns, AppStateOK, AppStateTypeOK, NetListPage
    <2> HIDE DEF there, s
    <2>6. AppStateOK(s, db')
        BY <2>3, <2>4, <2>5, RefreshActiveCheckInsOK
    <2> QED BY <2>1, <2>2, <2>6, TablesStep
<1>4. CASE ~ForeignKeysHold(db, row)
    <2>1. AppStateOK(rest, db)
        BY <1>1 DEF AppStateOK, AppStateTypeOK, Traces, NetListPage, Steps, NoDraft
    <2>2. Becomes(u, rest) /\ UNCHANGED <<db, tasks>>
        BY <1>4 DEF AddOperatorCheckIn
    <2> HIDE DEF rest
    <2> QED BY <2>1, <2>2, StateStep
<1> QED BY <1>3, <1>4

-----------------------------------------------------------------------------
(* The active net page.                                                      *)

(* Looking whether the session is still open.                                *)
LEMMA EnsureActiveSessionOpenOK ==
    ASSUME Sound(db), NEW s, AppStateOK(s, db), s.step = "idle"
    PROVE  AppStateOK(EnsureActiveSessionOpen(s), db)
BY ShowSessionClosedPromptOK DEF EnsureActiveSessionOpen

(* Opening the New Station form, and closing whatever window is up.          *)
LEMMA ModalDoes ==
    ASSUME Inv, NEW u \in Users, OpenNewStationModal(u) \/ CancelModal(u)
    PROVE  \E s : Does(u, s)
<1>1. AppStateOK(ui[u], db) /\ Sound(db)
    BY InvParts
<1>2. CASE OpenNewStationModal(u)
    <2> DEFINE t == [ui[u] EXCEPT !.modal = "newStation"]
    <2>1. AppStateOK(t, db) /\ t.step = "idle"
        BY <1>1, <1>2 DEF OpenNewStationModal, Logging, OnPage, AppStateOK, AppStateTypeOK,
                          Traces, NetListPage
    <2>2. Becomes(u, EnsureActiveSessionOpen(t)) /\ UNCHANGED <<db, tasks>>
        BY <1>2 DEF OpenNewStationModal
    <2> HIDE DEF t
    <2> QED BY <1>1, <2>1, <2>2, EnsureActiveSessionOpenOK, StateStep
<1>3. CASE CancelModal(u)
    BY <1>1, <1>3, NoModalOK, StateStep DEF CancelModal
<1> QED BY <1>2, <1>3

(* Logging a station, up to the WriteTransaction ...                         *)
LEMMA LogStationCheckInDoes ==
    ASSUME Inv, NEW u \in Users, NEW callsign \in Callsigns, NEW role \in Roles \cup {NoRole},
           LogStationCheckIn(u, callsign, role)
    PROVE  \E s : Does(u, s)
<1> DEFINE t == EnsureActiveSessionOpen(ui[u])
           s == [t EXCEPT !.step = "logCheckIn", !.draft = [callsign |-> callsign, role |-> role]]
<1>1. /\ AppStateOK(ui[u], db) /\ Sound(db)
      /\ ui[u].page = "activeNet" /\ ui[u].prompt = "none" /\ ui[u].step = "idle"
      /\ ui[u].modal = "newStation"
    BY InvParts DEF LogStationCheckIn, Logging, OnPage
<1>2. AppStateOK(t, db)
    BY <1>1, EnsureActiveSessionOpenOK
<1>3. (t.prompt # "sessionClosed" /\ Becomes(u, s)) \/ Becomes(u, t)
    BY DEF LogStationCheckIn
<1>4. UNCHANGED <<db, tasks>>
    BY DEF LogStationCheckIn
<1>5. t.prompt # "sessionClosed" => t = ui[u]
    BY <1>1 DEF EnsureActiveSessionOpen, ShowSessionClosedPrompt, NoModal, CancelConfirmPrompt,
                AppStateOK, AppStateTypeOK, NetListPage
<1> HIDE DEF t
<1>6. t.prompt # "sessionClosed" => AppStateOK(s, db)
    BY <1>1, <1>5, NoValuesDistinct
    DEF AppStateOK, AppStateTypeOK, Traces, NetListPage, Steps
<1> HIDE DEF s
<1> QED BY <1>2, <1>3, <1>4, <1>6, StateStep

(* Handing a role over is sound.                                             *)
LEMMA ApplyCheckInRoleDesignationAdvances ==
    ASSUME NEW d, Sound(d), NEW i, NEW c, NEW old_role, NEW new_role, NEW callsign \in Callsigns
    PROVE  Advances(d, ApplyCheckInRoleDesignation(d, i, c, old_role, new_role, callsign))
<1> DEFINE freed == SetNetInstanceRoleCallsign(d, i, old_role, NoCall)
           taken == ClearCheckInRoleForInstance(freed, i, new_role, c)
           given == SetNetInstanceRoleCallsign(taken, i, new_role, callsign)
<1>1. Advances(d, d)
    BY SucceedsItself
<1>2. Advances(d, freed)
    BY SetNetInstanceRoleCallsignAdvances
<1> HIDE DEF freed
<1>3. Advances(freed, taken)
    BY <1>2, ClearCheckInRoleForInstanceAdvances DEF Advances
<1> HIDE DEF taken
<1>4. Advances(taken, given)
    BY <1>3, SetNetInstanceRoleCallsignAdvances DEF Advances
<1> HIDE DEF given
<1>5. Advances(d, taken)
    BY <1>2, <1>3, SucceedsTransitive
<1>6. Advances(d, given)
    BY <1>4, <1>5, SucceedsTransitive
<1> QED BY <1>1, <1>2, <1>6 DEF ApplyCheckInRoleDesignation, freed, taken, given

(* ... and the WriteTransaction.                                             *)
LEMMA LogStationTransactionDoes ==
    ASSUME Inv, NEW u \in Users, NEW continue \in BOOLEAN, LogStationTransaction(u, continue)
    PROVE  \E s : Does(u, s)
<1> DEFINE i == ui[u].active
           row == [session |-> i, callsign |-> ui[u].draft.callsign, seq |-> 0,
                   role |-> ui[u].draft.role]
           saved == SaveNetStation(db, row.callsign)
           added == AddCheckInAtNextSequence(saved, row)
           rest == [ui[u] EXCEPT !.step = "idle", !.draft = NoDraft]
           t == [rest EXCEPT !.modal = IF continue THEN "newStation" ELSE "none"]
           refused == AlreadyLogged(db, i, row.callsign) \/ ~ForeignKeysHold(saved, row)
<1>1. /\ AppStateOK(ui[u], db) /\ Sound(db) /\ ui[u].step = "logCheckIn"
      /\ ui[u].draft.callsign \in Callsigns /\ ui[u].draft.role \in Roles \cup {NoRole}
      /\ ui[u].active \in Nat
    BY InvParts DEF LogStationTransaction, AppStateOK, AppStateTypeOK
<1>2. row \in CheckIn /\ row.callsign \in Callsigns
    BY <1>1 DEF CheckIn
<1>3. CASE refused
    <2>1. Becomes(u, rest) /\ UNCHANGED <<db, tasks>>
        BY <1>3 DEF LogStationTransaction
    <2>2. AppStateOK(rest, db)
        BY <1>1 DEF AppStateOK, AppStateTypeOK, Traces, NetListPage, Steps, NoDraft
    <2> HIDE DEF rest
    <2> QED BY <2>1, <2>2, StateStep
<1>4. CASE ~refused
    <2>1. /\ db' = ApplyCheckInRoleDesignation(added, i, added.last_check_in, NoRole,
                                               row.role, row.callsign)
          /\ Becomes(u, RefreshActiveCheckIns(t, db'))
          /\ UNCHANGED tasks
        BY <1>4 DEF LogStationTransaction
    <2>2. Advances(db, saved)
        BY <1>1, <1>2, SaveNetStationAdvances
    <2>3. ForeignKeysHold(saved, row)
        BY <1>4
    <2> HIDE DEF saved, row
    <2>4. Advances(saved, added)
        BY <1>2, <2>2, <2>3, AddCheckInAtNextSequenceAdvances DEF Advances
    <2> HIDE DEF added
    <2>5. Advances(added, db')
        BY <1>2, <2>1, <2>4, ApplyCheckInRoleDesignationAdvances DEF Advances
    <2>6. Advances(db, db')
        BY <1>1, <2>2, <2>4, <2>5, SucceedsTransitive
    <2>7. AppStateOK(ui[u], db') /\ Sound(db')
        BY <1>1, <2>6, OthersKeep DEF Advances
    <2>8. /\ DOMAIN t = DOMAIN NetListPage
          /\ AppStateOK([t EXCEPT !.watched = 0], db')
        BY <1>1, <2>7 DEF AppStateOK, AppStateTypeOK, Traces, NetListPage, Steps, NoDraft, Frozen
    <2>9. t.page = "activeNet"
        BY <1>1 DEF AppStateOK, AppStateTypeOK, NetListPage, NoDraft
    <2> HIDE DEF t
    <2>10. AppStateOK(RefreshActiveCheckIns(t, db'), db')
        BY <2>7, <2>8, <2>9, RefreshActiveCheckInsOK
    <2> QED BY <2>1, <2>6, <2>10, TablesStep
<1> QED BY <1>3, <1>4

(* A window or form holding a copy of a listed row holds it soundly.         *)
LEMMA HoldOK ==
    ASSUME NEW d, Sound(d), NEW s, AppStateOK(s, d), NEW c \in DOMAIN s.shown
    PROVE  AppStateOK([s EXCEPT !.held = Copy(s.shown, c)], d)
<1>1. c \in Nat /\ c <= d.last_check_in /\ s.shown[c] \in CheckIn
    BY DEF Sound, TablesTypeOK, AppStateOK, AppStateTypeOK
<1> DEFINE copy == Copy(s.shown, c)
<1>2. /\ copy \in [id : Nat, row : CheckIn] /\ copy # NoCopy
      /\ copy.id = c /\ copy.row = s.shown[c]
    BY <1>1 DEF Copy, NoCopy
<1> HIDE DEF copy
<1>3. AppStateOK([s EXCEPT !.held = copy], d)
    BY <1>1, <1>2 DEF AppStateOK, AppStateTypeOK, Traces, NetListPage
<1> QED BY <1>3 DEF copy

(* The edit form and the delete window hold a row of the list.               *)
LEMMA OpenWindowOK ==
    ASSUME NEW d, Sound(d), NEW s, AppStateOK(s, d), NEW c \in DOMAIN s.shown,
           s.page \in {"activeNet", "history"}, s.prompt = "none", s.step = "idle"
    PROVE  /\ AppStateOK(OpenEditCheckInForm(s, c), d)
           /\ AppStateOK(OpenRowDeleteConfirm(s, c), d)
<1> DEFINE t == [s EXCEPT !.held = Copy(s.shown, c)]
           n == Position(s.shown, c)
<1>1. AppStateOK(t, d)
    BY HoldOK
<1>2. n \in Nat
    <2>1. DOMAIN s.shown \subseteq 1..d.last_check_in /\ d.last_check_in \in Nat
        BY DEF Sound, TablesTypeOK, AppStateOK, AppStateTypeOK
    <2> QED BY <2>1, PositionType
<1>3. /\ t.page = s.page /\ t.prompt = "none" /\ t.step = "idle" /\ t.held # NoCopy
    BY DEF AppStateOK, AppStateTypeOK, NetListPage, Copy, NoCopy
<1>4. /\ OpenEditCheckInForm(s, c) = [t EXCEPT !.modal = "editCheckIn"]
      /\ OpenRowDeleteConfirm(s, c) = [t EXCEPT !.modal = "deleteConfirm", !.index = n]
    BY DEF OpenEditCheckInForm, OpenRowDeleteConfirm, AppStateOK, AppStateTypeOK, NetListPage
<1> HIDE DEF t, n
<1>5. AppStateOK([t EXCEPT !.modal = "editCheckIn"], d)
    BY <1>1, <1>3 DEF AppStateOK, AppStateTypeOK, Traces, NetListPage, Frozen
<1>6. AppStateOK([t EXCEPT !.modal = "deleteConfirm", !.index = n], d)
    BY <1>1, <1>2, <1>3 DEF AppStateOK, AppStateTypeOK, Traces, NetListPage, Frozen
<1> QED BY <1>4, <1>5, <1>6

(* Choosing the row to edit or delete.                                       *)
LEMMA PickRowDoes ==
    ASSUME Inv, NEW u \in Users,
           \/ \E c \in DOMAIN ui[u].shown :
                EditSelectedCheckIn(u, c) \/ FinishRowPick(u, c) \/ PickHistoryCheckIn(u, c)
           \/ StartRowPick(u)
    PROVE  \E s : Does(u, s)
<1>1. AppStateOK(ui[u], db) /\ Sound(db)
    BY InvParts
<1>2. ASSUME NEW c \in DOMAIN ui[u].shown,
             EditSelectedCheckIn(u, c) \/ FinishRowPick(u, c) \/ PickHistoryCheckIn(u, c)
      PROVE  \E s : Does(u, s)
    <2>1. /\ \/ Becomes(u, OpenEditCheckInForm(ui[u], c))
             \/ Becomes(u, OpenRowDeleteConfirm(ui[u], c))
          /\ UNCHANGED <<db, tasks>>
        BY <1>2 DEF EditSelectedCheckIn, FinishRowPick, PickHistoryCheckIn
    <2>2. /\ ui[u].page \in {"activeNet", "history"}
          /\ ui[u].prompt = "none" /\ ui[u].step = "idle"
        BY <1>2 DEF EditSelectedCheckIn, FinishRowPick, PickHistoryCheckIn, Logging, OnPage
    <2> QED BY <1>1, <2>1, <2>2, OpenWindowOK, StateStep
<1>3. CASE StartRowPick(u)
    <2> DEFINE s == [ui[u] EXCEPT !.modal = "rowPick"]
    <2>3. ui[u].page = "activeNet" /\ ui[u].prompt = "none" /\ ui[u].step = "idle"
        BY <1>3 DEF StartRowPick, Logging, OnPage
    <2>1. AppStateOK(s, db)
        BY <1>1, <2>3 DEF AppStateOK, AppStateTypeOK, Traces, NetListPage, Frozen
    <2>2. Becomes(u, s) /\ UNCHANGED <<db, tasks>>
        BY <1>3 DEF StartRowPick
    <2> HIDE DEF s
    <2> QED BY <2>1, <2>2, StateStep
<1> QED BY <1>2, <1>3

(* Saving an edit: the row written is of the same session and station.       *)
LEMMA SaveEditCheckInFormDoes ==
    ASSUME Inv, NEW u \in Users, NEW choice \in Roles \cup {NoRole}, SaveEditCheckInForm(u, choice)
    PROVE  \E s : Does(u, s)
<1> DEFINE i == ui[u].active
           held == ui[u].held
           role == IF held.row.role \in RoleChoices(i) THEN choice ELSE held.row.role
           row == [held.row EXCEPT !.role = role]
           updated == UpdateCheckIn(db, held.id, row)
           t == NoModal(ui[u])
<1>1. AppStateOK(ui[u], db) /\ Sound(db) /\ ui[u].modal = "editCheckIn" /\ ui[u].page = "activeNet"
    BY InvParts DEF SaveEditCheckInForm, Logging, OnPage
<1>2. held # NoCopy /\ held \in [id : Nat, row : CheckIn]
    BY <1>1 DEF AppStateOK, AppStateTypeOK
<1>3. /\ row \in CheckIn /\ row.session = held.row.session /\ row.callsign = held.row.callsign
      /\ held.row.callsign \in Callsigns
    BY <1>2 DEF CheckIn
<1>4. Advances(db, updated)
    <2>1. held.id \in DOMAIN db.check_ins => /\ row.session = db.check_ins[held.id].session
                                             /\ row.callsign = db.check_ins[held.id].callsign
        BY <1>1, <1>2, <1>3 DEF AppStateOK, Traces
    <2> HIDE DEF row
    <2> QED BY <1>1, <1>3, <2>1, UpdateCheckInAdvances
<1>5. /\ db' = ApplyCheckInRoleDesignation(updated, i, held.id, held.row.role, role,
                                           held.row.callsign)
      /\ Becomes(u, RefreshActiveCheckIns(t, db'))
      /\ UNCHANGED tasks
    BY DEF SaveEditCheckInForm
<1> HIDE DEF updated, role, row
<1>6. Advances(updated, db')
    BY <1>3, <1>4, <1>5, ApplyCheckInRoleDesignationAdvances DEF Advances
<1>7. Advances(db, db')
    BY <1>1, <1>4, <1>6, SucceedsTransitive
<1>8. AppStateOK(ui[u], db') /\ Sound(db')
    BY <1>1, <1>7, OthersKeep DEF Advances
<1>9. AppStateOK(t, db')
    BY <1>8, NoModalOK
<1>10. t.page = "activeNet" /\ DOMAIN t = DOMAIN NetListPage /\ AppStateOK([t EXCEPT !.watched = 0], db')
    <2>1. t.page = "activeNet"
        BY <1>1 DEF NoModal, AppStateOK, AppStateTypeOK, NetListPage
    <2> HIDE DEF t
    <2> QED BY <1>9, <2>1 DEF AppStateOK, AppStateTypeOK, Traces, NetListPage
<1>11. AppStateOK(RefreshActiveCheckIns(t, db'), db')
    BY <1>8, <1>10, RefreshActiveCheckInsOK
<1> QED BY <1>5, <1>7, <1>11, TablesStep

(* Deleting a row, up to the clearing of its role column ...                 *)
LEMMA ConfirmRowDeleteDoes ==
    ASSUME Inv, NEW u \in Users, ConfirmRowDelete(u)
    PROVE  \E s : Does(u, s)
<1>1. /\ AppStateOK(ui[u], db) /\ Sound(db)
      /\ ui[u].page = "activeNet" /\ ui[u].prompt = "none"
    BY InvParts DEF ConfirmRowDelete, Logging, OnPage
<1>2. CASE Becomes(u, NoModal(ui[u])) /\ UNCHANGED db
    BY <1>1, <1>2, NoModalOK, StateStep DEF ConfirmRowDelete
<1>3. ASSUME NEW c \in Confirmed(ui[u]),
             db' = SetNetInstanceRoleCallsign(db, ui[u].active, ui[u].shown[c].role, NoCall),
             Becomes(u, [NoModal(ui[u]) EXCEPT !.step = "deleteRow", !.held = Copy(ui[u].shown, c)])
      PROVE  \E s : Does(u, s)
    <2> DEFINE base == NoModal(ui[u])
               copied == [base EXCEPT !.held = Copy(base.shown, c)]
               s == [base EXCEPT !.step = "deleteRow", !.held = Copy(ui[u].shown, c)]
    <2>1. Advances(db, db')
        BY <1>1, <1>3, SetNetInstanceRoleCallsignAdvances
    <2>2. AppStateOK(base, db') /\ Sound(db')
        BY <1>1, <2>1, OthersKeep, NoModalOK DEF Advances
    <2>3. /\ base.shown = ui[u].shown /\ base.page = "activeNet" /\ base.prompt = "none"
          /\ base.modal = "none"
          /\ c \in DOMAIN base.shown
        BY <1>1 DEF NoModal, Confirmed, AppStateOK, AppStateTypeOK, NetListPage
    <2> HIDE DEF base
    <2>4. AppStateOK(copied, db')
        BY <2>2, <2>3, HoldOK
    <2>5. s = [copied EXCEPT !.step = "deleteRow"]
        BY <2>2, <2>3 DEF AppStateOK, AppStateTypeOK, NetListPage
    <2>6. copied.page = "activeNet" /\ copied.prompt = "none" /\ copied.modal = "none"
        BY <2>2, <2>3 DEF AppStateOK, AppStateTypeOK, NetListPage
    <2> HIDE DEF copied
    <2>7. AppStateOK([copied EXCEPT !.step = "deleteRow"], db')
        BY <2>4, <2>6 DEF AppStateOK, AppStateTypeOK, Traces, NetListPage, Steps
    <2>8. Becomes(u, s) /\ UNCHANGED tasks
        BY <1>3 DEF ConfirmRowDelete, base
    <2> HIDE DEF s
    <2> QED BY <2>1, <2>5, <2>7, <2>8, TablesStep
<1> QED BY <1>2, <1>3 DEF ConfirmRowDelete

(* ... and the DELETE.                                                       *)
LEMMA DeleteRowDoes ==
    ASSUME Inv, NEW u \in Users, DeleteRow(u)
    PROVE  \E s : Does(u, s)
<1> DEFINE base == NoModal(ui[u])
           t == [base EXCEPT !.step = "idle"]
<1>1. AppStateOK(ui[u], db) /\ Sound(db) /\ ui[u].step = "deleteRow" /\ ui[u].page = "activeNet"
    BY InvParts DEF DeleteRow, AppStateOK, AppStateTypeOK
<1>2. Advances(db, db')
    BY <1>1, DeleteCheckInAdvances DEF DeleteRow
<1>3. AppStateOK(base, db') /\ Sound(db')
    BY <1>1, <1>2, OthersKeep, NoModalOK DEF Advances
<1>4. base.page = "activeNet" /\ base.step = "deleteRow"
    BY <1>1 DEF NoModal, AppStateOK, AppStateTypeOK, NetListPage
<1> HIDE DEF base
<1>5. /\ t.page = "activeNet" /\ DOMAIN t = DOMAIN NetListPage
      /\ AppStateOK([t EXCEPT !.watched = 0], db')
    BY <1>3, <1>4 DEF AppStateOK, AppStateTypeOK, Traces, NetListPage, Steps
<1>6. Becomes(u, RefreshActiveCheckIns(t, db')) /\ UNCHANGED tasks
    BY DEF DeleteRow, base
<1> HIDE DEF t
<1>7. AppStateOK(RefreshActiveCheckIns(t, db'), db')
    BY <1>3, <1>5, RefreshActiveCheckInsOK
<1> QED BY <1>2, <1>6, <1>7, TablesStep

(* Closing the session, up to the UPDATE ...                                 *)
LEMMA CloseActiveNetDoes ==
    ASSUME Inv, NEW u \in Users, RequestCloseActiveNet(u) \/ CloseActiveNet(u)
    PROVE  \E s : Does(u, s)
<1>1. AppStateOK(ui[u], db) /\ Sound(db) /\ ui[u].step = "idle"
    BY InvParts DEF RequestCloseActiveNet, CloseActiveNet, Logging, OnPage, AtPrompt
<1>2. CASE RequestCloseActiveNet(u)
    <2> DEFINE s == [ui[u] EXCEPT !.prompt = "closeNet"]
    <2>3. ui[u].page = "activeNet" /\ ui[u].modal = "none"
        BY <1>2 DEF RequestCloseActiveNet, Logging, OnPage
    <2>1. AppStateOK(s, db)
        BY <1>1, <2>3 DEF AppStateOK, AppStateTypeOK, Traces, NetListPage
    <2>2. Becomes(u, s) /\ UNCHANGED <<db, tasks>>
        BY <1>2 DEF RequestCloseActiveNet
    <2> HIDE DEF s
    <2> QED BY <2>1, <2>2, StateStep
<1>3. CASE CloseActiveNet(u)
    <2> DEFINE s == [ui[u] EXCEPT !.prompt = "none", !.step = "renumberThenLeave"]
    <2>1. Advances(db, db')
        BY <1>1, <1>3, MarkClosedAdvances DEF CloseActiveNet
    <2>2. AppStateOK(ui[u], db') /\ Sound(db')
        BY <1>1, <2>1, OthersKeep DEF Advances
    <2>3. ui[u].page = "activeNet" /\ ui[u].modal = "none"
        BY <1>1, <1>3 DEF CloseActiveNet, AtPrompt, AppStateOK, AppStateTypeOK
    <2>4. AppStateOK(s, db')
        BY <2>2, <2>3 DEF AppStateOK, AppStateTypeOK, Traces, NetListPage, Steps
    <2>5. AppStateOK(ShowSessionClosedPrompt(ui[u]), db')
        BY <1>1, <2>2, ShowSessionClosedPromptOK
    <2>6. (Becomes(u, s) \/ Becomes(u, ShowSessionClosedPrompt(ui[u]))) /\ UNCHANGED tasks
        BY <1>3 DEF CloseActiveNet
    <2> HIDE DEF s
    <2> QED BY <2>1, <2>4, <2>5, <2>6, TablesStep
<1> QED BY <1>2, <1>3

(* ... and the numbering of its check-ins.                                   *)
LEMMA RenumberThenLeaveDoes ==
    ASSUME Inv, NEW u \in Users, RenumberThenLeave(u)
    PROVE  \E s : Does(u, s)
<1> DEFINE t == [ui[u] EXCEPT !.step = "idle"]
           s == [LeaveActiveNet(ui[u]) EXCEPT !.step = "idle"]
<1>1. AppStateOK(ui[u], db) /\ Sound(db)
    BY InvParts
<1>2. Advances(db, db')
    BY <1>1, RenumberCheckInsAdvances DEF RenumberThenLeave
<1>3. AppStateOK(ui[u], db') /\ Sound(db')
    BY <1>1, <1>2, OthersKeep DEF Advances
<1>4. AppStateOK(t, db') /\ t.step = "idle" /\ t.prompt = "none"
    <2>1. ui[u].step = "renumberThenLeave"
        BY DEF RenumberThenLeave
    <2> QED BY <1>3, <2>1 DEF AppStateOK, AppStateTypeOK, Traces, NetListPage, Steps
<1>5. s = LeaveActiveNet(t)
    BY <1>3 DEF LeaveActiveNet, NoModal, AppStateOK, AppStateTypeOK, NetListPage
<1>6. Becomes(u, s) /\ UNCHANGED tasks
    BY DEF RenumberThenLeave
<1> HIDE DEF s, t
<1>7. AppStateOK(s, db')
    BY <1>3, <1>4, <1>5, LeaveActiveNetOK
<1> QED BY <1>2, <1>6, <1>7, TablesStep

(* Leaving the active net page without closing the session.                  *)
LEMMA LeaveDoes ==
    ASSUME Inv, NEW u \in Users, LeaveClosedSession(u) \/ StopViewing(u)
    PROVE  \E s : Does(u, s)
<1>1. AppStateOK(ui[u], db) /\ Sound(db) /\ ui[u].step = "idle"
    BY InvParts DEF LeaveClosedSession, StopViewing, OnPage, AtPrompt
<1>2. ASSUME NEW t, AppStateOK(t, db), t.step = "idle", t.prompt = "none",
             Becomes(u, [LeaveActiveNet(t) EXCEPT !.viewing = FALSE])
      PROVE  \E s : Does(u, s)
    <2> DEFINE left == LeaveActiveNet(t)
               s == [left EXCEPT !.viewing = FALSE]
    <2>1. AppStateOK(left, db)
        BY <1>1, <1>2, LeaveActiveNetOK
    <2> HIDE DEF left
    <2>2. AppStateOK(s, db)
        BY <2>1 DEF AppStateOK, AppStateTypeOK, Traces, NetListPage
    <2>3. Becomes(u, s) /\ UNCHANGED <<db, tasks>>
        BY <1>2 DEF LeaveClosedSession, StopViewing, left
    <2> HIDE DEF s
    <2> QED BY <2>2, <2>3, StateStep
<1>3. CancelConfirmPrompt(ui[u]).step = "idle" /\ CancelConfirmPrompt(ui[u]).prompt = "none"
    BY <1>1 DEF CancelConfirmPrompt, AppStateOK, AppStateTypeOK, NetListPage
<1> QED BY <1>1, <1>2, <1>3, CancelConfirmPromptOK DEF LeaveClosedSession, StopViewing, OnPage

-----------------------------------------------------------------------------
(* History and the net's saved stations.                                     *)

(* Leaving History forgets its session and list.                             *)
LEMMA LeaveHistoryOK ==
    ASSUME NEW d, Sound(d), NEW s, AppStateOK(s, d), s.step = "idle", s.page = "history"
    PROVE  AppStateOK(LeaveHistory(s), d)
BY DEF LeaveHistory, NoModal, AppStateOK, AppStateTypeOK, Traces,
       NetListPage, NoCopy, Sound, TablesTypeOK

(* Opening History, choosing a check-in there, and going back.               *)
LEMMA OpenHistoryDoes ==
    ASSUME Inv, NEW u \in Users,
           (\E i \in DOMAIN db.sessions : OpenHistory(u, i)) \/ HistoryBack(u)
    PROVE  \E s : Does(u, s)
<1>1. AppStateOK(ui[u], db) /\ Sound(db)
    BY InvParts
<1>2. ASSUME NEW i \in DOMAIN db.sessions, OpenHistory(u, i)
      PROVE  \E s : Does(u, s)
    <2> DEFINE log == GetCheckInsForNetInstance(db, i)
               s == [ui[u] EXCEPT !.page = "history", !.other = i, !.other_open = IsOpen(db, i),
                                  !.shown = log]
    <2>1. /\ DOMAIN log \subseteq 1..db.last_check_in
          /\ \A c \in DOMAIN log : /\ c \in DOMAIN db.check_ins
                                   /\ log[c] = db.check_ins[c]
                                   /\ log[c] \in CheckIn
        BY <1>1, ListIs
    <2>2. ui[u].page = "netList" /\ ui[u].prompt = "none" /\ ui[u].step = "idle"
        BY <1>2 DEF OpenHistory, OnPage
    <2>3. i \in Nat /\ IsOpen(db, i) \in BOOLEAN
        BY <1>1 DEF Sound, TablesTypeOK, IsOpen
    <2>4. Becomes(u, s) /\ UNCHANGED <<db, tasks>>
        BY <1>2 DEF OpenHistory
    <2> HIDE DEF log
    <2>5. AppStateOK(s, db)
        BY <1>1, <2>1, <2>2, <2>3 DEF AppStateOK, AppStateTypeOK, Traces, NetListPage
    <2> HIDE DEF s
    <2> QED BY <2>4, <2>5, StateStep
<1>3. CASE HistoryBack(u)
    BY <1>1, <1>3, LeaveHistoryOK, StateStep DEF HistoryBack, OnPage
<1> QED BY <1>2, <1>3

(* Deleting a check-in from History, up to its role column ...               *)
LEMMA DeleteSelectedHistoryCheckInDoes ==
    ASSUME Inv, NEW u \in Users, DeleteSelectedHistoryCheckIn(u)
    PROVE  \E s : Does(u, s)
<1>1. /\ AppStateOK(ui[u], db) /\ Sound(db)
      /\ ui[u].page = "history" /\ ui[u].prompt = "none"
    BY InvParts DEF DeleteSelectedHistoryCheckIn, OnPage
<1>2. PICK c \in Confirmed(ui[u]) :
        /\ db' = SetNetInstanceRoleCallsign(db, ui[u].other, ui[u].shown[c].role, NoCall)
        /\ Becomes(u, [NoModal(ui[u]) EXCEPT !.step = "deleteHistoryRow",
                                             !.held = Copy(ui[u].shown, c)])
    BY DEF DeleteSelectedHistoryCheckIn
<1> DEFINE base == NoModal(ui[u])
           copied == [base EXCEPT !.held = Copy(base.shown, c)]
           s == [base EXCEPT !.step = "deleteHistoryRow", !.held = Copy(ui[u].shown, c)]
<1>3. Advances(db, db')
    BY <1>1, <1>2, SetNetInstanceRoleCallsignAdvances
<1>4. AppStateOK(base, db') /\ Sound(db')
    BY <1>1, <1>3, OthersKeep, NoModalOK DEF Advances
<1>5. /\ base.shown = ui[u].shown /\ base.page = "history" /\ base.prompt = "none"
      /\ base.modal = "none"
      /\ c \in DOMAIN base.shown
    BY <1>1 DEF NoModal, Confirmed, AppStateOK, AppStateTypeOK, NetListPage
<1>6. Becomes(u, s) /\ UNCHANGED tasks
    BY <1>2 DEF DeleteSelectedHistoryCheckIn
<1> HIDE DEF base
<1>7. AppStateOK(copied, db')
    BY <1>4, <1>5, HoldOK
<1>8. s = [copied EXCEPT !.step = "deleteHistoryRow"]
    BY <1>4, <1>5 DEF AppStateOK, AppStateTypeOK, NetListPage
<1>9. copied.page = "history" /\ copied.prompt = "none" /\ copied.modal = "none"
    BY <1>4, <1>5 DEF AppStateOK, AppStateTypeOK, NetListPage
<1> HIDE DEF copied
<1>10. AppStateOK([copied EXCEPT !.step = "deleteHistoryRow"], db')
    BY <1>7, <1>9 DEF AppStateOK, AppStateTypeOK, Traces, NetListPage, Steps
<1> HIDE DEF s
<1> QED BY <1>3, <1>6, <1>8, <1>10, TablesStep

(* ... and the DELETE.                                                       *)
LEMMA DeleteHistoryRowDoes ==
    ASSUME Inv, NEW u \in Users, DeleteHistoryRow(u)
    PROVE  \E s : Does(u, s)
<1> DEFINE base == NoModal(ui[u])
           t == [base EXCEPT !.step = "idle"]
           log == GetCheckInsForNetInstance(db', t.other)
           listed == [t EXCEPT !.other_open = IsOpen(db', t.other), !.shown = log]
<1>1. AppStateOK(ui[u], db) /\ Sound(db) /\ ui[u].step = "deleteHistoryRow"
      /\ ui[u].page = "history"
    BY InvParts DEF DeleteHistoryRow, AppStateOK, AppStateTypeOK
<1>2. Advances(db, db')
    BY <1>1, DeleteCheckInAdvances DEF DeleteHistoryRow
<1>3. AppStateOK(base, db') /\ Sound(db')
    BY <1>1, <1>2, OthersKeep, NoModalOK DEF Advances
<1>4. base.page = "history" /\ base.step = "deleteHistoryRow"
    BY <1>1 DEF NoModal, AppStateOK, AppStateTypeOK, NetListPage
<1>5. /\ DOMAIN log \subseteq 1..db'.last_check_in
      /\ \A c \in DOMAIN log : /\ c \in DOMAIN db'.check_ins
                               /\ log[c] = db'.check_ins[c]
                               /\ log[c] \in CheckIn
    BY <1>3, ListIs
<1>6. Becomes(u, RefreshNetHistory(t, db')) /\ UNCHANGED tasks
    BY DEF DeleteHistoryRow
<1>7. RefreshNetHistory(t, db') \in {listed, LeaveHistory(t)}
    BY DEF RefreshNetHistory
<1> HIDE DEF base
<1>8. AppStateOK(t, db') /\ t.page = "history" /\ t.step = "idle"
    BY <1>3, <1>4 DEF AppStateOK, AppStateTypeOK, Traces, NetListPage, Steps
<1>9. AppStateOK(LeaveHistory(t), db')
    BY <1>3, <1>8, LeaveHistoryOK
<1>10. IsOpen(db', t.other) \in BOOLEAN
    BY DEF IsOpen
<1> HIDE DEF log, t
<1>11. AppStateOK(listed, db')
    BY <1>3, <1>5, <1>8, <1>10 DEF AppStateOK, AppStateTypeOK, Traces, NetListPage
<1> HIDE DEF listed
<1> QED BY <1>2, <1>6, <1>7, <1>9, <1>11, TablesStep

(* Deleting a session from History, and a saved station from the net.        *)
LEMMA RemoveSessionOrStationDoes ==
    ASSUME Inv, NEW u \in Users,
           \/ DeleteSelectedNetInstance(u)
           \/ \E callsign \in Callsigns : RemoveSelectedSavedNetStation(u, callsign)
    PROVE  \E s : Does(u, s)
<1>1. AppStateOK(ui[u], db) /\ Sound(db)
    BY InvParts
<1>2. CASE DeleteSelectedNetInstance(u)
    <2>1. Advances(db, db')
        BY <1>1, <1>2, DeleteNetInstanceAdvances DEF DeleteSelectedNetInstance
    <2>2. AppStateOK(LeaveHistory(ui[u]), db')
        BY <1>1, <1>2, <2>1, OthersKeep, LeaveHistoryOK
        DEF DeleteSelectedNetInstance, OnPage, Advances
    <2> QED BY <1>2, <2>1, <2>2, TablesStep DEF DeleteSelectedNetInstance
<1>3. ASSUME NEW callsign \in Callsigns, RemoveSelectedSavedNetStation(u, callsign)
      PROVE  \E s : Does(u, s)
    <2>1. Advances(db, db')
        BY <1>1, <1>3, RemoveSavedNetStationAdvances DEF RemoveSelectedSavedNetStation
    <2>2. AppStateOK(ui[u], db')
        BY <1>1, <2>1, OthersKeep
    <2>3. UNCHANGED <<ui, tasks>>
        BY <1>3 DEF RemoveSelectedSavedNetStation
    <2>4. Does(u, ui[u])
        BY <2>1, <2>2, <2>3, InvParts DEF Does, TasksTypeOK
    <2> QED BY <2>4
<1> QED BY <1>2, <1>3

-----------------------------------------------------------------------------
(* The ScreenTicker, its tasks, and what goes wrong.                         *)

(* The poll only posts.                                                      *)
LEMMA CheckWatchedSessionDoes ==
    ASSUME Inv, NEW u \in Users, CheckWatchedSession(u)
    PROVE  \E s : Does(u, s)
<1>1. AppStateOK(ui[u], db) /\ Sound(db) /\ ui[u].watched \in Nat
    BY InvParts DEF AppStateOK, AppStateTypeOK
<1>2. UNCHANGED <<db, ui>>
    BY DEF CheckWatchedSession
<1>3. \E kind \in {"sessionClosed", "refreshCheckIns"} :
        tasks' = [tasks EXCEPT ![u] = @ \cup {[kind |-> kind, session |-> ui[u].watched]}]
    BY DEF CheckWatchedSession, Task
<1>4. TasksTypeOK'
    BY <1>1, <1>3, InvParts DEF TasksTypeOK
<1>5. Does(u, ui[u])
    BY <1>1, <1>2, <1>4, InvParts, SucceedsItself DEF Does
<1> QED BY <1>5

(* A posted task, run however late, finds a sound state and leaves one.      *)
LEMMA RunAnyTaskDoes ==
    ASSUME Inv, NEW u \in Users, RunAnyTask(u)
    PROVE  \E s : Does(u, s)
<1>1. PICK task \in tasks[u] : RunTask(u, task)
    BY DEF RunAnyTask
<1>2. AppStateOK(ui[u], db) /\ Sound(db) /\ ui[u].step = "idle"
    BY <1>1, InvParts DEF RunTask
<1> DEFINE s == IF task.kind = "sessionClosed"
                THEN SessionClosedTask(ui[u], task.session)
                ELSE RefreshActiveCheckInsFromOthers(ui[u], task.session)
<1>3. UNCHANGED db /\ Becomes(u, s) /\ tasks' = [tasks EXCEPT ![u] = @ \ {task}]
    BY <1>1 DEF RunTask
<1>4. AppStateOK(EnsureActiveSessionOpen(ui[u]), db)
    BY <1>2, EnsureActiveSessionOpenOK
<1>5. ui[u].page = "activeNet" => AppStateOK(RefreshActiveCheckIns(ui[u], db), db)
    <2> SUFFICES ASSUME ui[u].page = "activeNet"
                 PROVE  AppStateOK(RefreshActiveCheckIns(ui[u], db), db)
        OBVIOUS
    <2>1. DOMAIN ui[u] = DOMAIN NetListPage /\ AppStateOK([ui[u] EXCEPT !.watched = 0], db)
        BY <1>2 DEF AppStateOK, AppStateTypeOK, Traces, NetListPage
    <2> QED BY <1>2, <2>1, RefreshActiveCheckInsOK
<1>6. AppStateOK(s, db)
    BY <1>2, <1>4, <1>5 DEF SessionClosedTask, RefreshActiveCheckInsFromOthers
<1> HIDE DEF s
<1>7. TasksTypeOK'
    BY <1>3, InvParts DEF TasksTypeOK
<1>8. DOMAIN ui' = Users /\ ui'[u] = s /\ \A v \in Users \ {u} : ui'[v] = ui[v]
    BY <1>3, InvParts DEF Becomes
<1>9. Does(u, s)
    BY <1>2, <1>3, <1>6, <1>7, <1>8, SucceedsItself DEF Does
<1> QED BY <1>9

(* A handler cut short by an exception, and a connection that drops.         *)
LEMMA GoesWrongDoes ==
    ASSUME Inv, NEW u \in Users, StatementFails(u) \/ Disconnect(u)
    PROVE  \E s : Does(u, s)
<1>1. AppStateOK(ui[u], db) /\ Sound(db)
    BY InvParts
<1>2. CASE StatementFails(u)
    <2> DEFINE rest == IF ui[u].page = "history" THEN ui[u].other ELSE 0
               s == [ui[u] EXCEPT !.step = "idle", !.draft = NoDraft, !.held = NoCopy,
                                  !.other = rest]
    <2>1. rest \in Nat /\ ui[u].step # "idle"
        BY <1>1, <1>2 DEF StatementFails, AppStateOK, AppStateTypeOK
    <2>2. Becomes(u, s) /\ UNCHANGED <<db, tasks>>
        <3>1. s = [ui[u] EXCEPT !.step = "idle", !.draft = NoDraft, !.held = NoCopy,
                                !.other = IF ui[u].page = "history" THEN @ ELSE 0]
            BY <1>1 DEF AppStateOK, AppStateTypeOK, NetListPage
        <3> HIDE DEF s
        <3> QED BY <1>2, <3>1 DEF StatementFails
    <2> HIDE DEF rest
    <2>3. AppStateOK(s, db)
        BY <1>1, <2>1 DEF AppStateOK, AppStateTypeOK, Traces, NetListPage, Steps, NoDraft, NoCopy,
                          Sound, TablesTypeOK
    <2> HIDE DEF s
    <2> QED BY <2>2, <2>3, StateStep
<1>3. CASE Disconnect(u)
    <2>1. AppStateOK(NetListPage, db)
        BY <1>1 DEF AppStateOK, AppStateTypeOK, Traces, NetListPage, Steps, NoDraft, NoCopy,
                    Sound, TablesTypeOK
    <2>2. Becomes(u, NetListPage) /\ UNCHANGED db /\ tasks' = [tasks EXCEPT ![u] = {}]
        BY <1>3 DEF Disconnect
    <2>3. TasksTypeOK'
        BY <2>2, InvParts DEF TasksTypeOK
    <2>4. /\ DOMAIN ui' = Users /\ ui'[u] = NetListPage
          /\ \A v \in Users \ {u} : ui'[v] = ui[v]
        BY <2>2, InvParts DEF Becomes
    <2>5. Does(u, NetListPage)
        BY <1>1, <2>1, <2>2, <2>3, <2>4, SucceedsItself DEF Does
    <2> QED BY <2>5
<1> QED BY <1>2, <1>3

-----------------------------------------------------------------------------
(* The inductive invariant and what follows from it.                         *)

(* So every step is one operator's.                                          *)
LEMMA NextDoes ==
    ASSUME Inv, Next
    PROVE  \E u \in Users : \E s : Does(u, s)
<1>1. PICK u \in Users : \/ Key(u) \/ Continue(u) \/ CheckWatchedSession(u)
                         \/ RunAnyTask(u) \/ StatementFails(u) \/ Disconnect(u)
    BY DEF Next
<1>2. CASE Key(u)
    <2>1. CASE \/ StartSelectedNet(u)
               \/ \E viewing \in BOOLEAN : AnswerResumePrompt(u, viewing)
               \/ CancelPrompt(u)
               \/ CloseOpenNetAndStartNew(u)
               \/ RoleBack(u)
               \/ ChooseViewer(u)
               \/ \E role \in Roles : OperatorCallsignSubmit(u, role)
        BY <2>1, StartSelectedNetDoes, ResumePromptDoes, CloseOpenNetAndStartNewDoes,
           RolePageDoes, OperatorCallsignSubmitDoes
    <2>2. CASE \/ OpenNewStationModal(u)
               \/ CancelModal(u)
               \/ \E callsign \in Callsigns, role \in Roles \cup {NoRole} :
                    LogStationCheckIn(u, callsign, role)
        BY <2>2, ModalDoes, LogStationCheckInDoes
    <2>3. CASE \/ \E c \in DOMAIN ui[u].shown : EditSelectedCheckIn(u, c)
               \/ StartRowPick(u)
               \/ \E c \in DOMAIN ui[u].shown : FinishRowPick(u, c)
               \/ \E c \in DOMAIN ui[u].shown : PickHistoryCheckIn(u, c)
        BY <2>3, PickRowDoes
    <2>4. CASE \/ \E choice \in Roles \cup {NoRole} : SaveEditCheckInForm(u, choice)
               \/ ConfirmRowDelete(u)
        BY <2>4, SaveEditCheckInFormDoes, ConfirmRowDeleteDoes
    <2>5. CASE \/ RequestCloseActiveNet(u) \/ CloseActiveNet(u)
               \/ LeaveClosedSession(u) \/ StopViewing(u)
        BY <2>5, CloseActiveNetDoes, LeaveDoes
    <2>6. CASE \/ \E i \in DOMAIN db.sessions : OpenHistory(u, i)
               \/ HistoryBack(u)
               \/ DeleteSelectedHistoryCheckIn(u)
               \/ DeleteSelectedNetInstance(u)
               \/ \E callsign \in Callsigns : RemoveSelectedSavedNetStation(u, callsign)
        BY <2>6, OpenHistoryDoes, DeleteSelectedHistoryCheckInDoes, RemoveSessionOrStationDoes
    <2> QED BY <1>2, <2>1, <2>2, <2>3, <2>4, <2>5, <2>6 DEF Key
<1>3. CASE Continue(u)
    BY <1>3, RenumberThenStartDoes, SaveOperatorStationDoes, AddOperatorCheckInDoes,
       LogStationTransactionDoes, DeleteRowDoes, RenumberThenLeaveDoes, DeleteHistoryRowDoes
    DEF Continue
<1>4. CASE CheckWatchedSession(u) \/ RunAnyTask(u)
    BY <1>4, CheckWatchedSessionDoes, RunAnyTaskDoes
<1>5. CASE StatementFails(u) \/ Disconnect(u)
    BY <1>5, GoesWrongDoes
<1> QED BY <1>1, <1>2, <1>3, <1>4, <1>5

(* Empty tables and everyone on the net list.                                *)
LEMMA InitInv == Init => Inv
<1> SUFFICES ASSUME Init PROVE Inv
    OBVIOUS
<1>1. Sound(EmptyTables)
    BY DEF Sound, TablesTypeOK, EmptyTables, InUse
<1>2. AppStateOK(NetListPage, EmptyTables)
    BY DEF AppStateOK, AppStateTypeOK, Traces, NetListPage, EmptyTables, Steps, NoDraft, NoCopy,
           Frozen
<1> QED BY <1>1, <1>2, InvParts DEF Init, TasksTypeOK

(* Nothing changes.                                                          *)
LEMMA StutterKeepsInv == ASSUME Inv, UNCHANGED vars PROVE Inv'
BY DEF vars, Inv, TypeOK, AppStateTypeOK, Sound, Traces

(* Inv is inductive, so it always holds.                                     *)
THEOREM InvAlways == Spec => []Inv
<1>1. Inv /\ [Next]_vars => Inv'
    BY NextDoes, DoesKeepsInv, StutterKeepsInv
<1> QED BY <1>1, InitInv, PTL DEF Spec

(* Type correctness: the tables hold only ids given out and rows of their    *)
(* columns' types, and every operator is on a page, in a window and in a     *)
(* handler that the code can be in together.                                 *)
THEOREM TypeCorrect == Spec => []TypeOK
<1>1. Inv => TypeOK
    BY DEF Inv
<1> QED BY <1>1, InvAlways, PTL

(* No check-in is left without its session, no station in use is ever        *)
(* deleted and none is left that nothing refers to.                          *)
THEOREM ReferencesAlwaysHold == Spec => []ReferencesHold
<1>1. Inv => ReferencesHold
    BY DEF Inv, Sound, ReferencesHold, SessionOf
<1> QED BY <1>1, InvAlways, PTL

(* The poll's count and newest id are enough to tell a list that has changed *)
(* from one that has not: nothing a watched session's list can miss leaves    *)
(* both as they were.                                                        *)
THEOREM PollIsSound == Spec => []UnnoticedIsUnchanged
<1>1. Inv => UnnoticedIsUnchanged
    <2> SUFFICES ASSUME Inv, NEW u \in Users, ui[u].watched # 0,
                        GetCheckInSummary(db, ui[u].watched) = SummaryOf(DOMAIN ui[u].shown)
                 PROVE  LET i == ui[u].watched IN
                        /\ DOMAIN ui[u].shown = CheckInIds(db, i)
                        /\ \A c \in CheckInIds(db, i) :
                                ui[u].shown[c].callsign = db.check_ins[c].callsign
        BY DEF UnnoticedIsUnchanged
    <2> DEFINE T == CheckInIds(db, ui[u].watched)
               S == DOMAIN ui[u].shown
    <2>1. AppStateOK(ui[u], db) /\ Sound(db)
        BY InvParts
    <2>2. /\ db.last_check_in \in Nat
          /\ S \subseteq 1..db.last_check_in /\ T \subseteq 1..db.last_check_in
        BY <2>1 DEF AppStateOK, AppStateTypeOK, Sound, TablesTypeOK, CheckInIds
    <2>3. \A c \in T : c \in S \/ \A b \in S : c > b
        BY <2>1 DEF AppStateOK, Traces
    <2>4. Cardinality(T) = Cardinality(S) /\ Newest(T) = Newest(S)
        BY DEF GetCheckInSummary, SummaryOf
    <2>5. \A c \in T : c \in DOMAIN db.check_ins
        BY DEF CheckInIds
    <2> HIDE DEF S, T
    <2>6. IsFiniteSet(S) /\ IsFiniteSet(T) /\ S \in SUBSET Nat /\ T \in SUBSET Nat
        BY <2>2, IdsFinite
    <2>7. /\ \A c \in T : c <= Newest(T)
          /\ S # {} => Newest(S) \in S
          /\ S = {} => Newest(S) = 0
          /\ Newest(S) \in Nat
        BY <2>6, NewestIs DEF Newest
    <2>8. T \subseteq S
        BY <2>2, <2>3, <2>4, <2>6, <2>7
    <2>9. S = T
        BY <2>4, <2>6, <2>8, FS_Subset
    <2>10. \A c \in T : ui[u].shown[c].callsign = db.check_ins[c].callsign
        BY <2>1, <2>5, <2>9 DEF AppStateOK, Traces, S
    <2> QED BY <2>9, <2>10 DEF S, T
<1> QED BY <1>1, InvAlways, PTL

(* A closed session never opens again, and its end time stays that of the    *)
(* first to close it.                                                        *)
THEOREM ClosedSessionsStay == Spec => ClosedStays
<1>1. Inv /\ [Next]_vars =>
        [\A i \in DOMAIN db.sessions \cap DOMAIN db'.sessions :
            IsClosed(db, i) =>
                IsClosed(db', i) /\ db'.sessions[i].closed_at = db.sessions[i].closed_at]_vars
    <2> SUFFICES ASSUME Inv, Next
                 PROVE  \A i \in DOMAIN db.sessions \cap DOMAIN db'.sessions :
                            IsClosed(db, i) =>
                                /\ IsClosed(db', i)
                                /\ db'.sessions[i].closed_at = db.sessions[i].closed_at
        OBVIOUS
    <2>1. Succeeds(db, db')
        BY NextDoes DEF Does, Advances
    <2> QED BY <2>1 DEF Succeeds, IsClosed
<1> QED BY <1>1, InvAlways, PTL DEF Spec, ClosedStays

-----------------------------------------------------------------------------
(* What the operators' steps leave as it was.                               *)

(* From d to e the operator a session was started by keeps the role, no      *)
(* check-in gets or loses that role, and numbers stand while it is open.     *)
Steady(d, e) ==
    /\ \A i \in DOMAIN d.sessions \cap DOMAIN e.sessions :
        e.sessions[i].operator_role = d.sessions[i].operator_role
    /\ \A c \in DOMAIN d.check_ins \cap DOMAIN e.check_ins :
        LET i == SessionOf(d, c) IN
        /\ IsOpen(d, i) /\ IsOpen(e, i) => e.check_ins[c].seq = d.check_ins[c].seq
        /\ i \in DOMAIN e.sessions => (IsOperators(d, c) <=> IsOperators(e, c))

(* What a copy of a check-in, however old, still says of it: its number as   *)
(* long as its session is open, and whether it is the operator's own.        *)
CopyStands(row, c, d) ==
    c \in DOMAIN d.check_ins =>
        LET i == SessionOf(d, c) IN
        /\ IsOpen(d, i) => row.seq = d.check_ins[c].seq
        /\ i \in DOMAIN d.sessions =>
            (row.role = d.sessions[i].operator_role <=> IsOperators(d, c))

(* Nothing changes.                                                          *)
LEMMA SteadyItself == ASSUME NEW d PROVE Steady(d, d)
BY DEF Steady

(* Rows that stay as they are, but for a session's other columns.            *)
LEMMA SameRowsSteady ==
    ASSUME NEW d, NEW e,
           \A i \in DOMAIN d.sessions \cap DOMAIN e.sessions :
                e.sessions[i].operator_role = d.sessions[i].operator_role,
           \A c \in DOMAIN d.check_ins \cap DOMAIN e.check_ins : e.check_ins[c] = d.check_ins[c],
           \A c \in DOMAIN d.check_ins : SessionOf(d, c) \in DOMAIN d.sessions
    PROVE  Steady(d, e)
BY DEF Steady, SessionOf, IsOperators

(* One steady operation after another.                                       *)
LEMMA SteadyTransitive ==
    ASSUME NEW d, NEW e, NEW f, Sound(d), Advances(d, e), Advances(e, f),
           Steady(d, e), Steady(e, f)
    PROVE  Steady(d, f)
<1>1. /\ d.last_session \in Nat /\ e.last_session \in Nat /\ f.last_session \in Nat
      /\ d.last_check_in \in Nat /\ e.last_check_in \in Nat /\ f.last_check_in \in Nat
      /\ DOMAIN d.sessions \subseteq 1..d.last_session
      /\ DOMAIN d.check_ins \subseteq 1..d.last_check_in
    BY DEF Sound, TablesTypeOK, Advances
<1>2. \A i \in DOMAIN d.sessions \cap DOMAIN f.sessions : i \in DOMAIN e.sessions
    <2> SUFFICES ASSUME NEW i \in DOMAIN d.sessions, i \in DOMAIN f.sessions,
                        i \notin DOMAIN e.sessions
                 PROVE  FALSE
        OBVIOUS
    <2>1. i > e.last_session /\ e.last_session >= d.last_session /\ i <= d.last_session
        BY <1>1 DEF Advances, Succeeds
    <2> QED BY <1>1, <2>1
<1>3. \A c \in DOMAIN d.check_ins \cap DOMAIN f.check_ins : c \in DOMAIN e.check_ins
    <2> SUFFICES ASSUME NEW c \in DOMAIN d.check_ins, c \in DOMAIN f.check_ins,
                        c \notin DOMAIN e.check_ins
                 PROVE  FALSE
        OBVIOUS
    <2>1. c > e.last_check_in /\ e.last_check_in >= d.last_check_in /\ c <= d.last_check_in
        BY <1>1 DEF Advances, Succeeds
    <2> QED BY <1>1, <2>1
<1>4. \A i \in DOMAIN d.sessions \cap DOMAIN f.sessions :
        f.sessions[i].operator_role = d.sessions[i].operator_role
    BY <1>2 DEF Steady
<1>5. ASSUME NEW c \in DOMAIN d.check_ins \cap DOMAIN f.check_ins
      PROVE  LET i == SessionOf(d, c) IN
             /\ IsOpen(d, i) /\ IsOpen(f, i) => f.check_ins[c].seq = d.check_ins[c].seq
             /\ i \in DOMAIN f.sessions => (IsOperators(d, c) <=> IsOperators(f, c))
    <2> DEFINE i == SessionOf(d, c)
    <2>1. c \in DOMAIN e.check_ins /\ SessionOf(e, c) = i /\ i \in DOMAIN d.sessions
        BY <1>3 DEF Advances, Succeeds, SessionOf, Sound
    <2>2. ASSUME i \in DOMAIN f.sessions
          PROVE  /\ i \in DOMAIN e.sessions
                 /\ IsOpen(f, i) => IsOpen(e, i)
        <3>1. i \in DOMAIN e.sessions
            BY <1>2, <2>1, <2>2
        <3>2. e.sessions[i].status \in {"open", "closed"}
            BY <3>1 DEF Advances, Sound, TablesTypeOK, NetInstance
        <3> QED BY <2>2, <3>1, <3>2 DEF Advances, Succeeds, IsOpen
    <2>3. ASSUME i \in DOMAIN f.sessions PROVE IsOperators(d, c) <=> IsOperators(f, c)
        BY <2>1, <2>2, <2>3 DEF Steady
    <2>4. ASSUME IsOpen(d, i), IsOpen(f, i) PROVE f.check_ins[c].seq = d.check_ins[c].seq
        <3>1. i \in DOMAIN f.sessions
            BY <2>4 DEF IsOpen
        <3>2. IsOpen(e, i)
            BY <2>2, <2>4, <3>1
        <3>3. e.check_ins[c].seq = d.check_ins[c].seq
            BY <2>1, <2>4, <3>2 DEF Steady
        <3>4. f.check_ins[c].seq = e.check_ins[c].seq
            BY <2>1, <2>4, <3>2 DEF Steady
        <3> QED BY <3>3, <3>4
    <2> QED BY <2>3, <2>4
<1> QED BY <1>4, <1>5 DEF Steady

-----------------------------------------------------------------------------
(* Which operations on the tables are steady.                                *)

LEMMA SaveNetStationSteady ==
    ASSUME NEW d, Sound(d), NEW cs
    PROVE  Steady(d, SaveNetStation(d, cs))
<1> DEFINE e == SaveNetStation(d, cs)
<1>1. e.sessions = d.sessions /\ e.check_ins = d.check_ins
    BY DEF SaveNetStation, Sound, TablesTypeOK, EmptyTables
<1> QED BY <1>1, SameRowsSteady DEF Sound, SessionOf

LEMMA RemoveSavedNetStationSteady ==
    ASSUME NEW d, Sound(d), NEW cs
    PROVE  Steady(d, RemoveSavedNetStation(d, cs))
<1> DEFINE e == RemoveSavedNetStation(d, cs)
<1>1. e.sessions = d.sessions /\ e.check_ins = d.check_ins
    BY DEF RemoveSavedNetStation, DeleteUnusedStations, Sound, TablesTypeOK, EmptyTables
<1> QED BY <1>1, SameRowsSteady DEF Sound, SessionOf

LEMMA AddCheckInSteady ==
    ASSUME NEW d, Sound(d), NEW row
    PROVE  Steady(d, AddCheckIn(d, row))
<1> DEFINE e == AddCheckIn(d, row)
<1>1. d.last_check_in + 1 \notin DOMAIN d.check_ins
    BY DEF Sound, TablesTypeOK
<1>2. /\ e.sessions = d.sessions
      /\ \A c \in DOMAIN d.check_ins : e.check_ins[c] = d.check_ins[c]
    BY <1>1 DEF AddCheckIn, WithRow, Sound, TablesTypeOK, EmptyTables
<1> QED BY <1>2, SameRowsSteady DEF Sound, SessionOf

(* What AddCheckIn adds.                                                     *)
LEMMA AddCheckInIs ==
    ASSUME NEW d, Sound(d), NEW row
    PROVE  LET e == AddCheckIn(d, row)
               id == d.last_check_in + 1
           IN  /\ e.sessions = d.sessions /\ e.last_check_in = id
               /\ DOMAIN e.check_ins = DOMAIN d.check_ins \cup {id}
               /\ e.check_ins[id] = row
               /\ \A c \in DOMAIN d.check_ins : c # id => e.check_ins[c] = d.check_ins[c]
BY DEF AddCheckIn, WithRow, Sound, TablesTypeOK, EmptyTables

LEMMA SetNetInstanceRoleCallsignSteady ==
    ASSUME NEW d, Sound(d), NEW i, NEW role, NEW cs
    PROVE  Steady(d, SetNetInstanceRoleCallsign(d, i, role, cs))
<1> DEFINE e == SetNetInstanceRoleCallsign(d, i, role, cs)
<1>1. \A k \in DOMAIN d.sessions : d.sessions[k] \in NetInstance
    BY DEF Sound, TablesTypeOK
<1>2. /\ e.check_ins = d.check_ins
      /\ \A k \in DOMAIN d.sessions : e.sessions[k].operator_role = d.sessions[k].operator_role
    BY <1>1 DEF SetNetInstanceRoleCallsign, NetInstance, Sound, TablesTypeOK, EmptyTables
<1> QED BY <1>2, SameRowsSteady DEF Sound, SessionOf

LEMMA MarkClosedSteady ==
    ASSUME NEW d, Sound(d), NEW i, NEW at
    PROVE  Steady(d, MarkClosed(d, i, at))
<1> DEFINE e == MarkClosed(d, i, at)
<1>1. \A k \in DOMAIN d.sessions : d.sessions[k] \in NetInstance
    BY DEF Sound, TablesTypeOK
<1>2. /\ e.check_ins = d.check_ins
      /\ \A k \in DOMAIN d.sessions : e.sessions[k].operator_role = d.sessions[k].operator_role
    BY <1>1 DEF MarkClosed, NetInstance, Sound, TablesTypeOK, EmptyTables
<1> QED BY <1>2, SameRowsSteady DEF Sound, SessionOf

LEMMA CreateNetInstanceSteady ==
    ASSUME NEW d, Sound(d), NEW role, NEW cs
    PROVE  Steady(d, CreateNetInstance(d, role, cs))
<1> DEFINE e == CreateNetInstance(d, role, cs)
<1>1. d.last_session + 1 \notin DOMAIN d.sessions
    BY DEF Sound, TablesTypeOK
<1>2. /\ e.check_ins = d.check_ins
      /\ \A k \in DOMAIN d.sessions : e.sessions[k] = d.sessions[k]
    BY <1>1 DEF CreateNetInstance, WithRow, Sound, TablesTypeOK, EmptyTables
<1> QED BY <1>2, SameRowsSteady DEF Sound, SessionOf

LEMMA DeleteNetInstanceSteady ==
    ASSUME NEW d, Sound(d), NEW i
    PROVE  Steady(d, DeleteNetInstance(d, i))
<1> DEFINE e == DeleteNetInstance(d, i)
<1>1. /\ \A c \in DOMAIN e.check_ins : c \in DOMAIN d.check_ins => e.check_ins[c] = d.check_ins[c]
      /\ \A k \in DOMAIN e.sessions : k \in DOMAIN d.sessions => e.sessions[k] = d.sessions[k]
    BY DEF DeleteNetInstance, DeleteUnusedStations, RemoveCheckIns, Restrict,
           Sound, TablesTypeOK, EmptyTables
<1> QED BY <1>1, SameRowsSteady DEF Sound, SessionOf

(* Renumbering: of a session that is not open.                               *)
LEMMA RenumberCheckInsSteady ==
    ASSUME NEW d, Sound(d), NEW i, ~IsOpen(d, i)
    PROVE  Steady(d, RenumberCheckIns(d, i))
<1> DEFINE e == RenumberCheckIns(d, i)
<1>1. \A c \in DOMAIN d.check_ins : d.check_ins[c] \in CheckIn
    BY DEF Sound, TablesTypeOK
<1>2. /\ e.sessions = d.sessions
      /\ \A c \in DOMAIN d.check_ins :
            /\ e.check_ins[c].session = d.check_ins[c].session
            /\ e.check_ins[c].role = d.check_ins[c].role
            /\ d.check_ins[c].session # i => e.check_ins[c] = d.check_ins[c]
    BY <1>1 DEF RenumberCheckIns, GetCheckInsForNetInstance, Restrict, CheckInIds, CheckIn,
                Sound, TablesTypeOK, EmptyTables
<1> QED BY <1>2 DEF Steady, SessionOf, IsOperators

(* Deleting renumbers a closed session only.                                 *)
LEMMA DeleteCheckInSteady ==
    ASSUME NEW d, Sound(d), NEW c
    PROVE  Steady(d, DeleteCheckIn(d, c))
<1> DEFINE gone == RemoveCheckIns(d, {c})
           i == d.check_ins[c].session
           closed == c \in DOMAIN d.check_ins /\ IsClosed(d, i)
           b == IF closed THEN RenumberCheckIns(gone, i) ELSE gone
           e == DeleteCheckIn(d, c)
<1>1. /\ gone.sessions = d.sessions /\ DOMAIN gone = DOMAIN d
      /\ DOMAIN gone.check_ins = DOMAIN d.check_ins \ {c}
      /\ \A k \in DOMAIN gone.check_ins : gone.check_ins[k] = d.check_ins[k]
    BY DEF RemoveCheckIns, Restrict, Sound, TablesTypeOK, EmptyTables
<1>2. \A k \in DOMAIN d.check_ins : d.check_ins[k] \in CheckIn
    BY DEF Sound, TablesTypeOK
<1> HIDE DEF gone
<1>3. /\ b.sessions = d.sessions /\ DOMAIN b = DOMAIN d
      /\ DOMAIN b.check_ins = DOMAIN gone.check_ins
      /\ \A k \in DOMAIN b.check_ins :
            /\ b.check_ins[k].session = d.check_ins[k].session
            /\ b.check_ins[k].role = d.check_ins[k].role
            /\ ~closed \/ d.check_ins[k].session # i => b.check_ins[k] = d.check_ins[k]
    <2>1. CASE ~closed
        BY <1>1, <2>1
    <2>2. CASE closed
        BY <1>1, <1>2, <2>2 DEF RenumberCheckIns, GetCheckInsForNetInstance, Restrict, CheckInIds,
                CheckIn, Sound, TablesTypeOK, EmptyTables
    <2> QED BY <2>1, <2>2
<1>4. e = DeleteUnusedStations(b)
    BY DEF DeleteCheckIn, gone
<1> HIDE DEF b, e
<1>5. e.sessions = b.sessions /\ e.check_ins = b.check_ins
    BY <1>3, <1>4 DEF DeleteUnusedStations, Sound, TablesTypeOK, EmptyTables
<1>6. closed => ~IsOpen(d, i)
    BY DEF IsClosed, IsOpen
<1>7. Steady(d, e)
    BY <1>3, <1>5, <1>6 DEF Steady, SessionOf, IsOperators
<1> QED BY <1>7 DEF e

LEMMA DeleteCheckInIs ==
    ASSUME NEW d, Sound(d), NEW c
    PROVE  DOMAIN DeleteCheckIn(d, c).check_ins \subseteq DOMAIN d.check_ins
BY DEF DeleteCheckIn, DeleteUnusedStations, RenumberCheckIns, RemoveCheckIns, Restrict,
       Sound, TablesTypeOK, EmptyTables

(* Handing a role over: never the one the session was started in.            *)
LEMMA ClearCheckInRoleForInstanceSteady ==
    ASSUME NEW d, Sound(d), NEW i, NEW role, NEW except,
           i \in DOMAIN d.sessions => d.sessions[i].operator_role # role
    PROVE  Steady(d, ClearCheckInRoleForInstance(d, i, role, except))
<1> DEFINE e == ClearCheckInRoleForInstance(d, i, role, except)
<1>1. /\ \A c \in DOMAIN d.check_ins : d.check_ins[c] \in CheckIn
      /\ \A c \in DOMAIN d.check_ins : d.check_ins[c].session \in DOMAIN d.sessions
      /\ \A k \in DOMAIN d.sessions : d.sessions[k].operator_role # NoRole
    BY NoValuesDistinct DEF Sound, TablesTypeOK, NetInstance
<1>2. /\ e.sessions = d.sessions
      /\ \A c \in DOMAIN d.check_ins :
            /\ e.check_ins[c].session = d.check_ins[c].session
            /\ e.check_ins[c].seq = d.check_ins[c].seq
            /\ \/ e.check_ins[c].role = d.check_ins[c].role
               \/ /\ d.check_ins[c].session = i /\ d.check_ins[c].role = role
                  /\ e.check_ins[c].role = NoRole
    BY <1>1 DEF ClearCheckInRoleForInstance, CheckInIds, CheckIn, Sound, TablesTypeOK, EmptyTables
<1> QED BY <1>1, <1>2 DEF Steady, SessionOf, IsOperators

LEMMA ApplyCheckInRoleDesignationSteady ==
    ASSUME NEW d, Sound(d), NEW i, NEW c, NEW old_role, NEW new_role, NEW callsign \in Callsigns,
           \/ old_role = new_role
           \/ i \in DOMAIN d.sessions => d.sessions[i].operator_role # new_role
    PROVE  Steady(d, ApplyCheckInRoleDesignation(d, i, c, old_role, new_role, callsign))
<1> DEFINE freed == SetNetInstanceRoleCallsign(d, i, old_role, NoCall)
           taken == ClearCheckInRoleForInstance(freed, i, new_role, c)
           given == SetNetInstanceRoleCallsign(taken, i, new_role, callsign)
<1>1. CASE old_role = new_role
    BY <1>1, SteadyItself DEF ApplyCheckInRoleDesignation
<1>2. CASE old_role # new_role
    <2>1. Advances(d, freed) /\ Steady(d, freed)
        BY SetNetInstanceRoleCallsignAdvances, SetNetInstanceRoleCallsignSteady
    <2>2. i \in DOMAIN freed.sessions => freed.sessions[i].operator_role # new_role
        <3>1. DOMAIN freed.sessions = DOMAIN d.sessions
            BY DEF SetNetInstanceRoleCallsign, Sound, TablesTypeOK, EmptyTables
        <3> QED BY <1>2, <2>1, <3>1 DEF Steady
    <2> HIDE DEF freed
    <2>3. Sound(freed) /\ Advances(freed, taken) /\ Steady(freed, taken)
        BY <2>1, <2>2, ClearCheckInRoleForInstanceAdvances, ClearCheckInRoleForInstanceSteady
        DEF Advances
    <2> HIDE DEF taken
    <2>4. Sound(taken) /\ Advances(taken, given) /\ Steady(taken, given)
        BY <2>3, SetNetInstanceRoleCallsignAdvances, SetNetInstanceRoleCallsignSteady DEF Advances
    <2> HIDE DEF given
    <2>5. Advances(d, taken) /\ Steady(d, taken)
        BY <2>1, <2>3, SucceedsTransitive, SteadyTransitive
    <2>6. Steady(d, given)
        BY <2>4, <2>5, SteadyTransitive
    <2> QED BY <1>2, <2>1, <2>6 DEF ApplyCheckInRoleDesignation, freed, taken, given
<1> QED BY <1>1, <1>2

(* It neither adds nor removes a row nor closes a session.                   *)
LEMMA ApplyCheckInRoleDesignationIs ==
    ASSUME NEW d, Sound(d), NEW i, NEW c, NEW old_role, NEW new_role, NEW callsign \in Callsigns
    PROVE  LET e == ApplyCheckInRoleDesignation(d, i, c, old_role, new_role, callsign) IN
           /\ DOMAIN e.check_ins = DOMAIN d.check_ins /\ DOMAIN e.sessions = DOMAIN d.sessions
           /\ \A k \in DOMAIN d.sessions : e.sessions[k].status = d.sessions[k].status
<1> DEFINE freed == SetNetInstanceRoleCallsign(d, i, old_role, NoCall)
           taken == ClearCheckInRoleForInstance(freed, i, new_role, c)
           given == SetNetInstanceRoleCallsign(taken, i, new_role, callsign)
           Like(e, f) == /\ DOMAIN f = DOMAIN EmptyTables
                         /\ DOMAIN f.check_ins = DOMAIN e.check_ins
                         /\ DOMAIN f.sessions = DOMAIN e.sessions
                         /\ \A k \in DOMAIN e.sessions : f.sessions[k].status = e.sessions[k].status
<1>1. ASSUME NEW e, Sound(e), NEW role, NEW cs
      PROVE  Like(e, SetNetInstanceRoleCallsign(e, i, role, cs))
    <2>1. \A k \in DOMAIN e.sessions : e.sessions[k] \in NetInstance
        BY <1>1 DEF Sound, TablesTypeOK
    <2> QED BY <1>1, <2>1
            DEF SetNetInstanceRoleCallsign, NetInstance, Sound, TablesTypeOK, EmptyTables
<1>2. Sound(freed) /\ Sound(taken)
    BY SetNetInstanceRoleCallsignAdvances, ClearCheckInRoleForInstanceAdvances DEF Advances
<1>3. Like(d, d)
    BY DEF Sound, TablesTypeOK
<1>4. Like(d, freed)
    BY <1>1
<1>5. Like(freed, taken)
    BY <1>2 DEF ClearCheckInRoleForInstance, Sound, TablesTypeOK, EmptyTables
<1>6. Like(taken, given)
    BY <1>1, <1>2
<1>7. \/ ApplyCheckInRoleDesignation(d, i, c, old_role, new_role, callsign) = d
      \/ ApplyCheckInRoleDesignation(d, i, c, old_role, new_role, callsign) = freed
      \/ ApplyCheckInRoleDesignation(d, i, c, old_role, new_role, callsign) = given
    BY DEF ApplyCheckInRoleDesignation
<1> HIDE DEF freed, taken, given
<1> QED BY <1>3, <1>4, <1>5, <1>6, <1>7

(* Writing back a copy that stands, with another role only where neither the *)
(* copy's nor the new one is the operator's.                                 *)
LEMMA UpdateCheckInSteady ==
    ASSUME NEW d, Sound(d), NEW c, NEW row \in CheckIn, CopyStands(row, c, d),
           c \in DOMAIN d.check_ins => row.session = SessionOf(d, c)
    PROVE  Steady(d, UpdateCheckIn(d, c, row))
<1> DEFINE e == UpdateCheckIn(d, c, row)
<1>1. e.sessions = d.sessions
    BY DEF UpdateCheckIn, Sound, TablesTypeOK, EmptyTables
<1>2. \A b \in DOMAIN d.check_ins :
        e.check_ins[b] = IF b = c THEN row ELSE d.check_ins[b]
    BY DEF UpdateCheckIn, Sound, TablesTypeOK, EmptyTables
<1> QED BY <1>1, <1>2 DEF Steady, SessionOf, IsOperators, CopyStands

-----------------------------------------------------------------------------
(* What an operator's process may rely on.                                   *)

(* Its copies stand.  On the active net page they are of that session.  Who  *)
(* starts a session holds the operator's role for its own check-in and who   *)
(* logs a station does not, and only a session already closed is numbered    *)
(* again.                                                                    *)
Careful(s, d) ==
    /\ s.active <= d.last_session /\ s.other <= d.last_session
    /\ \A c \in DOMAIN s.shown : CopyStands(s.shown[c], c, d)
    /\ s.held # NoCopy => CopyStands(s.held.row, s.held.id, d)
    /\ s.page = "activeNet" =>
        /\ \A c \in DOMAIN s.shown : s.shown[c].session = s.active
        /\ s.held # NoCopy => s.held.row.session = s.active
    /\ s.active \in DOMAIN d.sessions =>
        LET role == d.sessions[s.active].operator_role IN
        /\ s.step \in {"saveOperator", "addOperator"} => s.draft.role = role
        /\ s.step = "logCheckIn" => s.draft.role # role
    /\ s.step = "renumberThenLeave" => ~IsOpen(d, s.active)
    /\ s.step = "renumberThenStart" => ~IsOpen(d, s.other)

(* A Viewer is on the active net page and in no handler; the row a delete    *)
(* was asked for is the one its window names; no copy outlives the pages; a  *)
(* session is started from the role page.                                    *)
Upright(s) ==
    /\ s.viewing => s.page = "activeNet" /\ s.step = "idle" /\ s.prompt # "closeNet"
    /\ s.modal = "deleteConfirm" =>
        /\ s.held # NoCopy /\ s.held.id \in DOMAIN s.shown
        /\ s.index = Position(s.shown, s.held.id)
    /\ s.page \in {"netList", "role"} => s.held = NoCopy
    /\ s.step \in {"saveOperator", "addOperator"} => s.page = "role"

(* No number and no station comes twice in a session, but for the operator's *)
(* own check-in.                                                             *)
Distinct(d) ==
    \A b, c \in DOMAIN d.check_ins :
        /\ b # c
        /\ SessionOf(d, b) = SessionOf(d, c)
        /\ \/ Base[d.check_ins[b].callsign] = Base[d.check_ins[c].callsign]
           \/ IsOpen(d, SessionOf(d, b)) /\ d.check_ins[b].seq = d.check_ins[c].seq
        => IsOperators(d, b) \/ IsOperators(d, c)

(* The check-ins that e has and d has not are the operator's own or like no  *)
(* other.                                                                    *)
Fits(d, e) ==
    \A c \in DOMAIN e.check_ins \ DOMAIN d.check_ins, b \in DOMAIN e.check_ins :
        b # c /\ SessionOf(e, b) = SessionOf(e, c) =>
            \/ IsOperators(e, c)
            \/ /\ Base[e.check_ins[b].callsign] # Base[e.check_ins[c].callsign]
               /\ IsOpen(e, SessionOf(e, b)) => e.check_ins[b].seq # e.check_ins[c].seq

(* A session open now was open before.                                       *)
LEMMA OpenWasOpen ==
    ASSUME NEW d, Sound(d), NEW e, Advances(d, e), NEW i \in Nat, i <= d.last_session, IsOpen(e, i)
    PROVE  IsOpen(d, i)
<1>1. d.last_session \in Nat /\ i \in DOMAIN e.sessions
    BY DEF Sound, TablesTypeOK, IsOpen
<1>2. i \in DOMAIN d.sessions
    BY <1>1 DEF Advances, Succeeds
<1>3. d.sessions[i].status \in {"open", "closed"}
    BY <1>2 DEF Sound, TablesTypeOK, NetInstance
<1> QED BY <1>1, <1>2, <1>3 DEF Advances, Succeeds, IsOpen

(* A copy that stands goes on standing.                                      *)
LEMMA CopyStandsOn ==
    ASSUME NEW d, Sound(d), NEW e, Advances(d, e), Steady(d, e), NEW row, NEW c \in Nat,
           c <= d.last_check_in, CopyStands(row, c, d)
    PROVE  CopyStands(row, c, e)
<1> SUFFICES ASSUME c \in DOMAIN e.check_ins PROVE CopyStands(row, c, e)
    BY DEF CopyStands
<1>1. d.last_check_in \in Nat /\ d.last_session \in Nat /\ DOMAIN d.sessions \subseteq 1..d.last_session
    BY DEF Sound, TablesTypeOK
<1>2. c \in DOMAIN d.check_ins
    BY <1>1 DEF Advances, Succeeds
<1> DEFINE i == SessionOf(d, c)
<1>3. SessionOf(e, c) = i /\ i \in DOMAIN d.sessions /\ i \in DOMAIN e.sessions
    BY <1>2 DEF Advances, Succeeds, Sound, SessionOf
<1>4. i \in Nat /\ i <= d.last_session
    BY <1>1, <1>3
<1>5. IsOpen(e, i) => IsOpen(d, i)
    BY <1>4, OpenWasOpen
<1>6. e.sessions[i].operator_role = d.sessions[i].operator_role
    BY <1>3 DEF Steady
<1>7. /\ IsOpen(e, i) => e.check_ins[c].seq = d.check_ins[c].seq
      /\ IsOperators(d, c) <=> IsOperators(e, c)
    BY <1>2, <1>3, <1>5 DEF Steady
<1> QED BY <1>2, <1>3, <1>5, <1>6, <1>7 DEF CopyStands

(* Whatever others do, an operator's process can go on relying on it.        *)
LEMMA StillCareful ==
    ASSUME NEW d, Sound(d), NEW e, Advances(d, e), Steady(d, e),
           NEW s, AppStateOK(s, d), Careful(s, d)
    PROVE  Careful(s, e)
<1>1. /\ d.last_session \in Nat /\ e.last_session \in Nat /\ d.last_check_in \in Nat
      /\ d.last_session <= e.last_session
      /\ s.active \in Nat /\ s.other \in Nat
      /\ s.active <= d.last_session /\ s.other <= d.last_session
    BY DEF Sound, TablesTypeOK, Advances, Succeeds, AppStateOK, AppStateTypeOK, Careful
<1>2. \A c \in DOMAIN s.shown : CopyStands(s.shown[c], c, e)
    BY <1>1, CopyStandsOn DEF AppStateOK, AppStateTypeOK, Careful
<1>3. s.held # NoCopy => CopyStands(s.held.row, s.held.id, e)
    BY <1>1, CopyStandsOn DEF AppStateOK, AppStateTypeOK, Traces, Careful
<1>4. s.active \in DOMAIN e.sessions =>
        /\ s.active \in DOMAIN d.sessions
        /\ e.sessions[s.active].operator_role = d.sessions[s.active].operator_role
    BY <1>1 DEF Advances, Succeeds, Steady
<1>5. /\ s.step = "renumberThenLeave" => ~IsOpen(e, s.active)
      /\ s.step = "renumberThenStart" => ~IsOpen(e, s.other)
    BY <1>1, OpenWasOpen DEF Careful
<1> QED BY <1>1, <1>2, <1>3, <1>4, <1>5 DEF Careful

(* Numbers and stations stay distinct.                                       *)
LEMMA StillDistinct ==
    ASSUME NEW d, Sound(d), NEW e, Advances(d, e), Steady(d, e), Fits(d, e), Distinct(d)
    PROVE  Distinct(e)
<1> SUFFICES ASSUME NEW b \in DOMAIN e.check_ins, NEW c \in DOMAIN e.check_ins,
                    b # c, SessionOf(e, b) = SessionOf(e, c),
                    \/ Base[e.check_ins[b].callsign] = Base[e.check_ins[c].callsign]
                    \/ /\ IsOpen(e, SessionOf(e, b))
                       /\ e.check_ins[b].seq = e.check_ins[c].seq
             PROVE  IsOperators(e, b) \/ IsOperators(e, c)
    BY DEF Distinct
<1>1. CASE b \notin DOMAIN d.check_ins
    BY <1>1 DEF Fits
<1>2. CASE c \notin DOMAIN d.check_ins
    BY <1>2 DEF Fits
<1>3. CASE b \in DOMAIN d.check_ins /\ c \in DOMAIN d.check_ins
    <2> DEFINE i == SessionOf(d, b)
    <2>1. /\ SessionOf(e, b) = i /\ SessionOf(e, c) = i /\ SessionOf(d, c) = i
          /\ i \in DOMAIN d.sessions /\ i \in DOMAIN e.sessions
          /\ e.check_ins[b].callsign = d.check_ins[b].callsign
          /\ e.check_ins[c].callsign = d.check_ins[c].callsign
        BY <1>3 DEF Advances, Succeeds, Sound, SessionOf
    <2>2. i \in Nat /\ i <= d.last_session
        BY <2>1 DEF Sound, TablesTypeOK
    <2>3. /\ IsOperators(d, b) <=> IsOperators(e, b)
          /\ IsOperators(d, c) <=> IsOperators(e, c)
        BY <1>3, <2>1 DEF Steady
    <2>4. CASE Base[e.check_ins[b].callsign] = Base[e.check_ins[c].callsign]
        BY <1>3, <2>1, <2>3, <2>4 DEF Distinct
    <2>5. CASE IsOpen(e, SessionOf(e, b)) /\ e.check_ins[b].seq = e.check_ins[c].seq
        <3>1. IsOpen(d, i)
            BY <2>1, <2>2, <2>5, OpenWasOpen
        <3>2. /\ e.check_ins[b].seq = d.check_ins[b].seq
              /\ e.check_ins[c].seq = d.check_ins[c].seq
            BY <1>3, <2>1, <2>5, <3>1 DEF Steady
        <3> QED BY <1>3, <2>1, <2>3, <2>5, <3>1, <3>2 DEF Distinct
    <2> QED BY <2>4, <2>5
<1> QED BY <1>1, <1>2, <1>3

(* Two rows of a list are never at the same place of it.                     *)
LEMMA PositionTellsApart ==
    ASSUME NEW n \in Nat, NEW log, DOMAIN log \subseteq 1..n,
           \A c \in DOMAIN log : log[c].seq \in Nat,
           NEW b \in DOMAIN log, NEW c \in DOMAIN log, Position(log, b) = Position(log, c)
    PROVE  b = c
<1>1. ASSUME NEW x \in DOMAIN log, NEW y \in DOMAIN log, x # y,
             log[x].seq < log[y].seq \/ (log[x].seq = log[y].seq /\ x <= y)
      PROVE  Position(log, x) # Position(log, y)
    <2>1. /\ UpTo(log, x) \subseteq UpTo(log, y)
          /\ y \in UpTo(log, y) /\ y \notin UpTo(log, x)
        BY <1>1 DEF UpTo
    <2>2. IsFiniteSet(UpTo(log, y)) /\ UpTo(log, y) \subseteq DOMAIN log
        BY IdsFinite DEF UpTo
    <2>3. Cardinality(UpTo(log, x)) # Cardinality(UpTo(log, y))
        BY <2>1, <2>2, FS_Subset
    <2> QED BY <2>3 DEF Position
<1>2. b \in Nat /\ c \in Nat /\ log[b].seq \in Nat /\ log[c].seq \in Nat
    OBVIOUS
<1> QED BY <1>1, <1>2

-----------------------------------------------------------------------------
(* What the helpers keep of that.                                            *)

Fit(s, d) == Careful(s, d) /\ Upright(s)

(* Closing a window forgets its copy.                                        *)
LEMMA NoModalFit ==
    ASSUME NEW d, NEW s, AppStateOK(s, d), Fit(s, d)
    PROVE  Fit(NoModal(s), d)
BY DEF NoModal, Fit, Careful, Upright, AppStateOK, AppStateTypeOK, NetListPage, NoCopy

(* Cancelling a prompt, outside a handler, forgets the session it was about. *)
LEMMA CancelConfirmPromptFit ==
    ASSUME NEW d, Sound(d), NEW s, AppStateOK(s, d), Fit(s, d), s.step = "idle"
    PROVE  Fit(CancelConfirmPrompt(s), d)
BY DEF CancelConfirmPrompt, Fit, Careful, Upright, AppStateOK, AppStateTypeOK, NetListPage,
       Sound, TablesTypeOK

(* A list just read is of copies that stand, all of the active session.      *)
LEMMA RefreshActiveCheckInsFit ==
    ASSUME NEW d, Sound(d), NEW s, DOMAIN s = DOMAIN NetListPage,
           Fit([s EXCEPT !.shown = << >>], d)
    PROVE  Fit(RefreshActiveCheckIns(s, d), d)
<1> DEFINE log == GetCheckInsForNetInstance(d, s.active)
           t == RefreshActiveCheckIns(s, d)
<1>1. t = [s EXCEPT !.shown = log, !.watched = s.active]
    BY DEF RefreshActiveCheckIns
<1>2. \A c \in DOMAIN log : c \in DOMAIN d.check_ins /\ log[c] = d.check_ins[c]
    BY ListIs
<1>3. \A c \in DOMAIN log : log[c].session = s.active
    BY DEF GetCheckInsForNetInstance, Restrict, CheckInIds
<1>4. \A c \in DOMAIN log : CopyStands(log[c], c, d)
    BY <1>2 DEF CopyStands, IsOperators
<1> HIDE DEF log, t
<1>5. Careful(t, d)
    BY <1>1, <1>3, <1>4 DEF Fit, Careful, NetListPage
<1>6. Upright(t)
    BY <1>1 DEF Fit, Upright, NetListPage
<1> QED BY <1>5, <1>6 DEF Fit, t

(* A list that stands is one a refresh may replace.                          *)
LEMMA EmptiedFit ==
    ASSUME NEW d, NEW s, DOMAIN s = DOMAIN NetListPage, Fit(s, d), s.modal # "deleteConfirm"
    PROVE  Fit([s EXCEPT !.shown = << >>], d)
BY DEF Fit, Careful, Upright, NetListPage

(* The Net Closed window.                                                    *)
LEMMA ShowSessionClosedPromptFit ==
    ASSUME NEW d, Sound(d), NEW s, DOMAIN s = DOMAIN NetListPage, Fit(s, d), s.step = "idle"
    PROVE  Fit(ShowSessionClosedPrompt(s), d)
BY DEF ShowSessionClosedPrompt, NoModal, CancelConfirmPrompt, Fit, Careful, Upright,
       AppStateOK, AppStateTypeOK, NetListPage, NoCopy, Sound, TablesTypeOK

LEMMA EnsureActiveSessionOpenFit ==
    ASSUME Sound(db), NEW s, DOMAIN s = DOMAIN NetListPage, Fit(s, db), s.step = "idle"
    PROVE  Fit(EnsureActiveSessionOpen(s), db)
BY ShowSessionClosedPromptFit DEF EnsureActiveSessionOpen

(* Back to the net list, nothing is held or shown.                           *)
LEMMA LeaveActiveNetFit ==
    ASSUME NEW d, NEW s, AppStateOK(s, d), Fit(s, d), s.step \in {"idle", "renumberThenLeave"}
    PROVE  Fit([LeaveActiveNet(s) EXCEPT !.viewing = FALSE, !.step = "idle"], d)
BY DEF LeaveActiveNet, NoModal, Fit, Careful, Upright, AppStateOK, AppStateTypeOK, NetListPage, NoCopy

(* On to a session's page, or the prompt is gone.                            *)
LEMMA JoinOpenSessionFit ==
    ASSUME Sound(db), NEW s, AppStateOK(s, db), Fit(s, db), s.step = "idle",
           NEW i \in Nat, i <= db.last_session, NEW viewing \in BOOLEAN
    PROVE  Fit(JoinOpenSession(s, i, viewing), db)
<1>1. CASE IsOpen(db, i)
    <2> DEFINE base == NoModal(CancelConfirmPrompt(s))
               t == [base EXCEPT !.page = "activeNet", !.active = i, !.viewing = viewing]
    <2>1. Fit(base, db) /\ AppStateOK(base, db)
        BY CancelConfirmPromptFit, CancelConfirmPromptOK, NoModalFit, NoModalOK
    <2>2. base.step = "idle" /\ base.prompt = "none" /\ base.modal = "none" /\ base.held = NoCopy
        BY DEF AppStateOK, AppStateTypeOK, NetListPage, NoModal, CancelConfirmPrompt
    <2> HIDE DEF base
    <2>3. DOMAIN t = DOMAIN NetListPage /\ Fit([t EXCEPT !.shown = << >>], db)
        BY <2>1, <2>2 DEF Fit, Careful, Upright, AppStateOK, AppStateTypeOK, NetListPage
    <2> HIDE DEF t
    <2> QED BY <1>1, <2>3, RefreshActiveCheckInsFit DEF JoinOpenSession, t, base
<1>2. CASE ~IsOpen(db, i)
    BY <1>2, CancelConfirmPromptFit DEF JoinOpenSession
<1> QED BY <1>1, <1>2

(* Leaving History.                                                          *)
LEMMA LeaveHistoryFit ==
    ASSUME NEW d, Sound(d), NEW s, AppStateOK(s, d), Fit(s, d), s.step = "idle",
           s.page = "history"
    PROVE  Fit(LeaveHistory(s), d)
BY DEF LeaveHistory, NoModal, Fit, Careful, Upright, AppStateOK, AppStateTypeOK, NetListPage,
       NoCopy, Sound, TablesTypeOK

-----------------------------------------------------------------------------
(* One operator's step, as far as the properties go.                         *)

(* The inductive invariant, with Inv's own.                                  *)
LogInv ==
    /\ Inv
    /\ Distinct(db)
    /\ \A u \in Users : Fit(ui[u], db)

Deletes == {"deleteRow", "deleteHistoryRow"}

Keeps(u) ==
    /\ Steady(db, db') /\ Fits(db, db')
    /\ Fit(ui'[u], db')
    /\ \A v \in Users \ {u} : ui'[v] = ui[v]
    /\ ui[u].viewing /\ ui'[u] # ui[u] => db' = db
    /\ ui[u].modal = "deleteConfirm" /\ ui'[u].step \in Deletes => ui'[u].held.id = ui[u].held.id

LEMMA LogInvParts ==
    ASSUME LogInv, NEW u \in Users
    PROVE  /\ Sound(db) /\ AppStateOK(ui[u], db) /\ Fit(ui[u], db)
           /\ DOMAIN ui = Users /\ DOMAIN ui[u] = DOMAIN NetListPage
BY InvParts DEF LogInv, AppStateOK, AppStateTypeOK

(* A step that leaves the tables alone, ...                                  *)
LEMMA QuietKeeps ==
    ASSUME LogInv, NEW u \in Users, NEW s, Becomes(u, s), UNCHANGED db,
           Fit(s, db), s.step \notin Deletes
    PROVE  Keeps(u)
<1>1. ui'[u] = s /\ \A v \in Users \ {u} : ui'[v] = ui[v]
    BY LogInvParts DEF Becomes
<1> QED BY <1>1, SteadyItself DEF Keeps, Fits

(* ... and one that changes them but logs no check-in.                       *)
LEMMA ChangeKeeps ==
    ASSUME LogInv, NEW u \in Users, NEW s, Becomes(u, s), Steady(db, db'),
           DOMAIN db'.check_ins \subseteq DOMAIN db.check_ins,
           Fit(s, db'), ~ui[u].viewing,
           s.step \in Deletes => ui[u].modal = "deleteConfirm" /\ s.held.id = ui[u].held.id
    PROVE  Keeps(u)
<1>1. ui'[u] = s /\ \A v \in Users \ {u} : ui'[v] = ui[v]
    BY LogInvParts DEF Becomes
<1> QED BY <1>1 DEF Keeps, Fits

(* What was fit before others' steps is fit after them.                      *)
LEMMA StillFit ==
    ASSUME LogInv, NEW u \in Users, Advances(db, db'), Steady(db, db')
    PROVE  Fit(ui[u], db') /\ AppStateOK(ui[u], db') /\ Sound(db')
BY LogInvParts, StillCareful, OthersKeep DEF Fit, Advances

-----------------------------------------------------------------------------
(* The net list and the role page.                                           *)

LEMMA NewestOpenSessionIs ==
    ASSUME Sound(db)
    PROVE  NewestOpenSession \in Nat /\ NewestOpenSession <= db.last_session
<1>1. OpenSessions(db) \subseteq 1..db.last_session /\ db.last_session \in Nat
    BY DEF Sound, TablesTypeOK, OpenSessions
<1>2. IsFiniteSet(OpenSessions(db)) /\ OpenSessions(db) \in SUBSET Nat
    <2> DEFINE S == OpenSessions(db)
    <2>1. S \in SUBSET (1..db.last_session)
        BY <1>1
    <2> HIDE DEF S
    <2>2. IsFiniteSet(S)
        BY <1>1, <2>1, IdsFinite
    <2>3. S \in SUBSET Nat
        BY <1>1, <2>1
    <2> QED BY <2>2, <2>3 DEF S
<1>3. OpenSessions(db) = {} => NewestOpenSession = 0
    BY DEF NewestOpenSession, Newest
<1>4. OpenSessions(db) # {} => NewestOpenSession \in OpenSessions(db)
    BY <1>2, NewestIs DEF NewestOpenSession
<1> QED BY <1>1, <1>3, <1>4

(* Joining is not deleting.                                                  *)
LEMMA JoinOpenSessionStep ==
    ASSUME NEW s, DOMAIN s = DOMAIN NetListPage, s.step = "idle", NEW i, NEW viewing
    PROVE  JoinOpenSession(s, i, viewing).step = "idle"
BY DEF JoinOpenSession, RefreshActiveCheckIns, NoModal, CancelConfirmPrompt, NetListPage

LEMMA ViewStartNetKeeps ==
    ASSUME LogInv, NEW u \in Users, ui[u].step = "idle", ViewStartNet(u)
    PROVE  Keeps(u)
<1> DEFINE s == JoinOpenSession(ui[u], NewestOpenSession, TRUE)
<1>1. Fit(s, db)
    BY LogInvParts, NewestOpenSessionIs, JoinOpenSessionFit
<1>2. s.step = "idle"
    BY LogInvParts, JoinOpenSessionStep
<1>3. Becomes(u, s) /\ UNCHANGED db
    BY DEF ViewStartNet
<1> HIDE DEF s
<1> QED BY <1>1, <1>2, <1>3, QuietKeeps DEF Deletes

LEMMA StartSelectedNetKeeps ==
    ASSUME LogInv, NEW u \in Users, StartSelectedNet(u)
    PROVE  Keeps(u)
<1> DEFINE asked == [ui[u] EXCEPT !.prompt = "resumeNet", !.other = NewestOpenSession,
                                  !.other_open = TRUE]
           role == [ui[u] EXCEPT !.page = "role"]
<1>1. ui[u].step = "idle" /\ ui[u].page = "netList" /\ ui[u].prompt = "none"
    BY DEF StartSelectedNet, OnPage
<1>2. Sound(db) /\ DOMAIN ui[u] = DOMAIN NetListPage /\ Fit(ui[u], db)
    BY LogInvParts
<1>3. CASE ViewStartNet(u)
    BY <1>1, <1>3, ViewStartNetKeeps
<1>4. Fit(asked, db) /\ asked.step = "idle"
    BY <1>1, <1>2, NewestOpenSessionIs DEF Fit, Careful, Upright, NetListPage
<1>5. Fit(role, db) /\ role.step = "idle"
    BY <1>1, <1>2 DEF Fit, Careful, Upright, NetListPage
<1>6. ViewStartNet(u) \/ (Becomes(u, asked) /\ UNCHANGED db) \/ (Becomes(u, role) /\ UNCHANGED db)
    BY DEF StartSelectedNet
<1> HIDE DEF asked, role
<1> QED BY <1>3, <1>4, <1>5, <1>6, QuietKeeps DEF Deletes

LEMMA PromptKeeps ==
    ASSUME LogInv, NEW u \in Users,
           (\E viewing \in BOOLEAN : AnswerResumePrompt(u, viewing)) \/ CancelPrompt(u)
    PROVE  Keeps(u)
<1>1. ui[u].step = "idle" /\ UNCHANGED db
    BY DEF AnswerResumePrompt, CancelPrompt, AtPrompt
<1>2. /\ Sound(db) /\ DOMAIN ui[u] = DOMAIN NetListPage /\ Fit(ui[u], db)
      /\ AppStateOK(ui[u], db)
      /\ ui[u].other \in Nat /\ ui[u].other <= db.last_session
    BY LogInvParts DEF Fit, Careful, AppStateOK, AppStateTypeOK
<1>3. ASSUME NEW viewing \in BOOLEAN, AnswerResumePrompt(u, viewing) PROVE Keeps(u)
    <2> DEFINE s == JoinOpenSession(ui[u], ui[u].other, viewing)
    <2>1. Fit(s, db) /\ s.step = "idle" /\ Becomes(u, s)
        BY <1>1, <1>2, <1>3, JoinOpenSessionFit, JoinOpenSessionStep DEF AnswerResumePrompt
    <2> HIDE DEF s
    <2> QED BY <1>1, <2>1, QuietKeeps DEF Deletes
<1>4. CASE CancelPrompt(u)
    <2> DEFINE s == CancelConfirmPrompt(ui[u])
    <2>1. Fit(s, db) /\ s.step = "idle" /\ Becomes(u, s)
        BY <1>1, <1>2, <1>4, CancelConfirmPromptFit
        DEF CancelPrompt, CancelConfirmPrompt, NetListPage
    <2> HIDE DEF s
    <2> QED BY <1>1, <2>1, QuietKeeps DEF Deletes
<1> QED BY <1>3, <1>4

(* The session it closes is closed from then on.                             *)
LEMMA MarkClosedIs ==
    ASSUME NEW d, Sound(d), NEW i, NEW at
    PROVE  ~IsOpen(MarkClosed(d, i, at), i) /\ MarkClosed(d, i, at).check_ins = d.check_ins
<1>1. \A k \in DOMAIN d.sessions : d.sessions[k] \in NetInstance
    BY DEF Sound, TablesTypeOK
<1> QED BY <1>1 DEF MarkClosed, ClosesHere, IsOpen, NetInstance, Sound, TablesTypeOK, EmptyTables

LEMMA CloseOpenNetAndStartNewKeeps ==
    ASSUME LogInv, NEW u \in Users, CloseOpenNetAndStartNew(u)
    PROVE  Keeps(u)
<1> DEFINE closing == [ui[u] EXCEPT !.prompt = "none", !.other_open = FALSE,
                                    !.step = "renumberThenStart"]
           role == [CancelConfirmPrompt(ui[u]) EXCEPT !.page = "role"]
<1>1. /\ Sound(db) /\ DOMAIN ui[u] = DOMAIN NetListPage /\ AppStateOK(ui[u], db)
      /\ ui[u].step = "idle" /\ ui[u].prompt = "resumeNet" /\ ui[u].page = "netList"
      /\ ~ui[u].viewing
      /\ db' = MarkClosed(db, ui[u].other, u)
    BY LogInvParts DEF CloseOpenNetAndStartNew, AtPrompt, AppStateOK, AppStateTypeOK, Fit, Upright
<1>2. Advances(db, db') /\ Steady(db, db')
    BY <1>1, MarkClosedAdvances, MarkClosedSteady
<1>3. ~IsOpen(db', ui[u].other) /\ db'.check_ins = db.check_ins
    BY <1>1, MarkClosedIs
<1>4. Fit(ui[u], db') /\ Sound(db')
    BY <1>2, StillFit
<1>5. Fit(closing, db') /\ closing.step = "renumberThenStart"
    BY <1>1, <1>3, <1>4 DEF Fit, Careful, Upright, NetListPage
<1>6. Fit(role, db') /\ role.step = "idle"
    BY <1>1, <1>4 DEF Fit, Careful, Upright, NetListPage, CancelConfirmPrompt, Sound, TablesTypeOK
<1>7. Becomes(u, closing) \/ Becomes(u, role)
    BY DEF CloseOpenNetAndStartNew
<1> HIDE DEF closing, role
<1> QED BY <1>1, <1>2, <1>3, <1>5, <1>6, <1>7, ChangeKeeps DEF Deletes

LEMMA RenumberThenStartKeeps ==
    ASSUME LogInv, NEW u \in Users, RenumberThenStart(u)
    PROVE  Keeps(u)
<1> DEFINE s == [CancelConfirmPrompt(ui[u]) EXCEPT !.page = "role", !.step = "idle"]
<1>1. /\ Sound(db) /\ DOMAIN ui[u] = DOMAIN NetListPage /\ AppStateOK(ui[u], db)
      /\ ui[u].step = "renumberThenStart" /\ ui[u].page = "netList"
      /\ ~ui[u].viewing /\ ~IsOpen(db, ui[u].other)
      /\ db' = RenumberCheckIns(db, ui[u].other)
    BY LogInvParts DEF RenumberThenStart, AppStateOK, AppStateTypeOK, Fit, Upright, Careful
<1>2. Advances(db, db') /\ Steady(db, db')
    BY <1>1, RenumberCheckInsAdvances, RenumberCheckInsSteady
<1>3. DOMAIN db'.check_ins = DOMAIN db.check_ins
    BY <1>1, RenumberCheckInsIs DEF ChangedInPlace, Sound
<1>4. Fit(ui[u], db') /\ Sound(db')
    BY <1>2, StillFit
<1>5. Fit(s, db') /\ s.step = "idle"
    BY <1>1, <1>4 DEF Fit, Careful, Upright, NetListPage, CancelConfirmPrompt, Sound, TablesTypeOK
<1>6. Becomes(u, s)
    BY DEF RenumberThenStart
<1> HIDE DEF s
<1> QED BY <1>1, <1>2, <1>3, <1>5, <1>6, ChangeKeeps DEF Deletes

LEMMA RolePageKeeps ==
    ASSUME LogInv, NEW u \in Users, RoleBack(u) \/ ChooseViewer(u)
    PROVE  Keeps(u)
<1> DEFINE s == [ui[u] EXCEPT !.page = "netList"]
<1>1. /\ ui[u].step = "idle" /\ ui[u].page = "role"
      /\ DOMAIN ui[u] = DOMAIN NetListPage /\ Fit(ui[u], db)
    BY LogInvParts DEF RoleBack, ChooseViewer, OnPage
<1>2. CASE ChooseViewer(u)
    BY <1>1, <1>2, ViewStartNetKeeps DEF ChooseViewer
<1>3. CASE RoleBack(u)
    <2>1. Fit(s, db) /\ s.step = "idle" /\ Becomes(u, s) /\ UNCHANGED db
        BY <1>1, <1>3 DEF Fit, Careful, Upright, NetListPage, RoleBack
    <2> HIDE DEF s
    <2> QED BY <2>1, QuietKeeps DEF Deletes
<1> QED BY <1>2, <1>3

LEMMA OperatorCallsignSubmitKeeps ==
    ASSUME LogInv, NEW u \in Users, NEW role \in Roles, OperatorCallsignSubmit(u, role)
    PROVE  Keeps(u)
<1> DEFINE s == [ui[u] EXCEPT !.active = db'.last_session, !.viewing = FALSE,
                              !.step = "saveOperator",
                              !.draft = [callsign |-> OperatorCallsign[u], role |-> role]]
<1>1. /\ Sound(db) /\ DOMAIN ui[u] = DOMAIN NetListPage
      /\ ui[u].step = "idle" /\ ui[u].page = "role" /\ ~ui[u].viewing
      /\ db' = CreateNetInstance(db, role, OperatorCallsign[u])
      /\ OperatorCallsign[u] \in Callsigns
    BY LogInvParts, OperatorType DEF OperatorCallsignSubmit, OnPage, Fit, Upright
<1>2. Advances(db, db') /\ Steady(db, db')
    BY <1>1, CreateNetInstanceAdvances, CreateNetInstanceSteady
<1>3. /\ db'.check_ins = db.check_ins
      /\ db'.last_session = db.last_session + 1
      /\ db'.sessions[db.last_session + 1].operator_role = role
    BY <1>1 DEF CreateNetInstance, WithRow, Sound, TablesTypeOK, EmptyTables
<1>4. Fit(ui[u], db') /\ Sound(db')
    BY <1>2, StillFit
<1>5. Fit(s, db') /\ s.step = "saveOperator"
    <2>1. db.last_session \in Nat /\ db'.last_session \in Nat
        BY <1>1, <1>4 DEF Sound, TablesTypeOK
    <2>2. ui[u].modal # "deleteConfirm" /\ ui[u].held = NoCopy
        BY <1>1, LogInvParts DEF AppStateOK, AppStateTypeOK, Fit, Upright
    <2> QED BY <1>1, <1>3, <1>4, <2>1, <2>2 DEF Fit, Careful, Upright, NetListPage
<1>6. Becomes(u, s)
    BY DEF OperatorCallsignSubmit
<1> HIDE DEF s
<1> QED BY <1>1, <1>2, <1>3, <1>5, <1>6, ChangeKeeps DEF Deletes

LEMMA SaveOperatorStationKeeps ==
    ASSUME LogInv, NEW u \in Users, SaveOperatorStation(u)
    PROVE  Keeps(u)
<1> DEFINE s == [ui[u] EXCEPT !.step = "addOperator"]
<1>1. /\ Sound(db) /\ DOMAIN ui[u] = DOMAIN NetListPage /\ AppStateOK(ui[u], db)
      /\ ui[u].step = "saveOperator" /\ ~ui[u].viewing
      /\ ui[u].draft.callsign \in Callsigns
      /\ db' = SaveNetStation(db, ui[u].draft.callsign)
    BY LogInvParts DEF SaveOperatorStation, AppStateOK, AppStateTypeOK, Fit, Upright
<1>2. Advances(db, db') /\ Steady(db, db')
    BY <1>1, SaveNetStationAdvances, SaveNetStationSteady
<1>3. db'.check_ins = db.check_ins
    BY <1>1 DEF SaveNetStation, Sound, TablesTypeOK, EmptyTables
<1>4. Fit(ui[u], db')
    BY <1>2, StillFit
<1>5. Fit(s, db') /\ s.step = "addOperator"
    BY <1>1, <1>4 DEF Fit, Careful, Upright, NetListPage
<1>6. Becomes(u, s)
    BY DEF SaveOperatorStation
<1> HIDE DEF s
<1> QED BY <1>1, <1>2, <1>3, <1>5, <1>6, ChangeKeeps DEF Deletes

(* The operator's own check-in has the operator's role, so it need fit       *)
(* nothing else.                                                             *)
LEMMA AddOperatorCheckInKeeps ==
    ASSUME LogInv, NEW u \in Users, AddOperatorCheckIn(u)
    PROVE  Keeps(u)
<1> DEFINE row == [session |-> ui[u].active, callsign |-> ui[u].draft.callsign, seq |-> 1,
                   role |-> ui[u].draft.role]
           rest == [ui[u] EXCEPT !.step = "idle", !.draft = NoDraft]
           there == [rest EXCEPT !.page = "activeNet"]
           s == [RefreshActiveCheckIns(rest, db') EXCEPT !.page = "activeNet"]
           id == db.last_check_in + 1
<1>1. /\ Sound(db) /\ DOMAIN ui[u] = DOMAIN NetListPage /\ AppStateOK(ui[u], db)
      /\ ui[u].step = "addOperator" /\ ~ui[u].viewing
      /\ ui[u].modal \in {"none", "newStation"}
      /\ ui[u].draft.callsign \in Callsigns /\ ui[u].draft.role \in Roles \cup {NoRole}
      /\ row \in CheckIn
    BY LogInvParts DEF AddOperatorCheckIn, AppStateOK, AppStateTypeOK, Fit, Upright, CheckIn
<1>2. /\ Fit(rest, db) /\ rest.step = "idle" /\ rest.modal = ui[u].modal
      /\ rest.active = ui[u].active /\ rest.page = ui[u].page /\ rest.held = ui[u].held
      /\ DOMAIN rest = DOMAIN NetListPage
    BY <1>1, LogInvParts DEF Fit, Careful, Upright, NetListPage
<1>3. CASE ~ForeignKeysHold(db, row)
    <2>1. Becomes(u, rest) /\ UNCHANGED db
        BY <1>3 DEF AddOperatorCheckIn
    <2> HIDE DEF rest
    <2> QED BY <1>2, <2>1, QuietKeeps DEF Deletes
<1>4. CASE ForeignKeysHold(db, row)
    <2>1. db' = AddCheckIn(db, row) /\ Becomes(u, s)
        BY <1>4 DEF AddOperatorCheckIn
    <2>2. Advances(db, db') /\ Steady(db, db')
        <3> HIDE DEF row
        <3> QED BY <1>1, <1>4, <2>1, AddCheckInAdvances, AddCheckInSteady
    <2>3. /\ db'.sessions = db.sessions
          /\ DOMAIN db'.check_ins = DOMAIN db.check_ins \cup {id}
          /\ db'.check_ins[id] = row
        BY <1>1, <2>1 DEF AddCheckIn, WithRow, Sound, TablesTypeOK, EmptyTables
    <2>4. IsOperators(db', id)
        <3>1. ui[u].active \in DOMAIN db.sessions
            BY <1>4 DEF ForeignKeysHold
        <3>2. db.sessions[ui[u].active].operator_role = ui[u].draft.role
            BY <1>1, <3>1, LogInvParts DEF Fit, Careful
        <3> QED BY <2>3, <3>2 DEF IsOperators, SessionOf
    <2>5. Fits(db, db')
        BY <2>3, <2>4 DEF Fits
    <2>6. Fit(ui[u], db') /\ Sound(db')
        BY <2>2, StillFit
    <2>7. ui[u].page = "role" /\ ui[u].held = NoCopy
        BY <1>1, LogInvParts DEF Fit, Upright
    <2>8. DOMAIN there = DOMAIN NetListPage /\ Fit([there EXCEPT !.shown = << >>], db')
        BY <1>1, <2>6, <2>7 DEF Fit, Careful, Upright, NetListPage
    <2>9. s = RefreshActiveCheckIns(there, db') /\ s.step = "idle"
        BY <1>1 DEF RefreshActiveCheckIns, NetListPage
    <2> HIDE DEF there, s
    <2>10. Fit(s, db')
        BY <2>6, <2>8, <2>9, RefreshActiveCheckInsFit
    <2>11. ui'[u] = s /\ \A v \in Users \ {u} : ui'[v] = ui[v]
        BY <2>1, LogInvParts DEF Becomes
    <2> QED BY <1>1, <2>2, <2>5, <2>9, <2>10, <2>11 DEF Keeps, Deletes
<1> QED BY <1>3, <1>4

-----------------------------------------------------------------------------
(* The active net page.                                                      *)

(* Being told, or not, is not deleting.                                      *)
LEMMA EnsureActiveSessionOpenStep ==
    ASSUME NEW s, DOMAIN s = DOMAIN NetListPage
    PROVE  /\ EnsureActiveSessionOpen(s).step = s.step
           /\ DOMAIN EnsureActiveSessionOpen(s) = DOMAIN NetListPage
           /\ \/ EnsureActiveSessionOpen(s) = s /\ IsOpen(db, s.active)
              \/ EnsureActiveSessionOpen(s).prompt = "sessionClosed"
BY DEF EnsureActiveSessionOpen, ShowSessionClosedPrompt, NoModal, CancelConfirmPrompt, NetListPage

LEMMA ModalKeeps ==
    ASSUME LogInv, NEW u \in Users, OpenNewStationModal(u) \/ CancelModal(u)
    PROVE  Keeps(u)
<1>1. /\ Sound(db) /\ DOMAIN ui[u] = DOMAIN NetListPage /\ AppStateOK(ui[u], db) /\ Fit(ui[u], db)
      /\ ui[u].step = "idle" /\ UNCHANGED db
    BY LogInvParts DEF OpenNewStationModal, CancelModal, Logging, OnPage
<1>2. CASE OpenNewStationModal(u)
    <2> DEFINE t == [ui[u] EXCEPT !.modal = "newStation"]
               s == EnsureActiveSessionOpen(t)
    <2>1. DOMAIN t = DOMAIN NetListPage /\ Fit(t, db) /\ t.step = "idle"
        BY <1>1 DEF Fit, Careful, Upright, NetListPage
    <2>2. Becomes(u, s)
        BY <1>2 DEF OpenNewStationModal
    <2> HIDE DEF t
    <2>3. Fit(s, db) /\ s.step = "idle"
        BY <1>1, <2>1, EnsureActiveSessionOpenFit, EnsureActiveSessionOpenStep
    <2> HIDE DEF s
    <2> QED BY <1>1, <2>2, <2>3, QuietKeeps DEF Deletes
<1>3. CASE CancelModal(u)
    <2> DEFINE s == NoModal(ui[u])
    <2>1. Fit(s, db) /\ s.step = "idle" /\ Becomes(u, s)
        BY <1>1, <1>3, NoModalFit DEF CancelModal, NoModal, NetListPage
    <2> HIDE DEF s
    <2> QED BY <1>1, <2>1, QuietKeeps DEF Deletes
<1> QED BY <1>2, <1>3

LEMMA LogStationCheckInKeeps ==
    ASSUME LogInv, NEW u \in Users, NEW callsign \in Callsigns, NEW role \in Roles \cup {NoRole},
           LogStationCheckIn(u, callsign, role)
    PROVE  Keeps(u)
<1> DEFINE t == EnsureActiveSessionOpen(ui[u])
           s == [t EXCEPT !.step = "logCheckIn", !.draft = [callsign |-> callsign, role |-> role]]
<1>1. /\ Sound(db) /\ DOMAIN ui[u] = DOMAIN NetListPage /\ Fit(ui[u], db)
      /\ ui[u].page = "activeNet" /\ ui[u].prompt = "none" /\ ui[u].step = "idle"
      /\ ui[u].modal = "newStation" /\ ~ui[u].viewing
      /\ role \in RoleChoices(ui[u].active) /\ UNCHANGED db
    BY LogInvParts DEF LogStationCheckIn, Logging, OnPage
<1>2. Fit(t, db) /\ t.step = "idle"
    BY <1>1, EnsureActiveSessionOpenFit, EnsureActiveSessionOpenStep
<1>3. CASE t.prompt = "sessionClosed"
    <2>1. Becomes(u, t)
        BY <1>3 DEF LogStationCheckIn
    <2> HIDE DEF t
    <2> QED BY <1>1, <1>2, <2>1, QuietKeeps DEF Deletes
<1>4. CASE t.prompt # "sessionClosed"
    <2>1. t = ui[u] /\ Becomes(u, s)
        BY <1>1, <1>4, EnsureActiveSessionOpenStep DEF LogStationCheckIn
    <2>2. ui[u].active \in DOMAIN db.sessions => role # db.sessions[ui[u].active].operator_role
        BY <1>1, NoValuesDistinct DEF RoleChoices, Sound, TablesTypeOK, NetInstance
    <2> HIDE DEF t
    <2>3. Fit(s, db) /\ s.step = "logCheckIn"
        BY <1>1, <2>1, <2>2 DEF Fit, Careful, Upright, NetListPage
    <2> HIDE DEF s
    <2> QED BY <1>1, <2>1, <2>3, QuietKeeps DEF Deletes
<1> QED BY <1>3, <1>4

(* A station logged in the transaction that looked for it is nowhere else in *)
(* the session, and its number is above every other.                         *)
LEMMA LogStationTransactionKeeps ==
    ASSUME LogInv, NEW u \in Users, NEW continue \in BOOLEAN, LogStationTransaction(u, continue)
    PROVE  Keeps(u)
<1> DEFINE i == ui[u].active
           row == [session |-> i, callsign |-> ui[u].draft.callsign, seq |-> 0,
                   role |-> ui[u].draft.role]
           saved == SaveNetStation(db, row.callsign)
           numbered == [row EXCEPT !.seq = NextSequence(saved, i)]
           added == AddCheckInAtNextSequence(saved, row)
           id == db.last_check_in + 1
           rest == [ui[u] EXCEPT !.step = "idle", !.draft = NoDraft]
           t == [rest EXCEPT !.modal = IF continue THEN "newStation" ELSE "none"]
           s == RefreshActiveCheckIns(t, db')
<1>1. /\ Sound(db) /\ DOMAIN ui[u] = DOMAIN NetListPage /\ AppStateOK(ui[u], db) /\ Fit(ui[u], db)
      /\ ui[u].step = "logCheckIn" /\ ~ui[u].viewing /\ ui[u].page = "activeNet"
      /\ ui[u].modal \in {"none", "newStation"} /\ i \in Nat
      /\ row.callsign \in Callsigns /\ row \in CheckIn
    BY LogInvParts
    DEF LogStationTransaction, AppStateOK, AppStateTypeOK, Fit, Upright, CheckIn
<1>2. CASE AlreadyLogged(db, i, row.callsign) \/ ~ForeignKeysHold(saved, row)
    <2>1. Fit(rest, db) /\ rest.step = "idle"
        BY <1>1 DEF Fit, Careful, Upright, NetListPage
    <2>2. Becomes(u, rest) /\ UNCHANGED db
        BY <1>2 DEF LogStationTransaction
    <2> HIDE DEF rest
    <2> QED BY <2>1, <2>2, QuietKeeps DEF Deletes
<1>3. CASE ~AlreadyLogged(db, i, row.callsign) /\ ForeignKeysHold(saved, row)
    <2>1. /\ db' = ApplyCheckInRoleDesignation(added, i, added.last_check_in, NoRole, row.role,
                                               row.callsign)
          /\ Becomes(u, s)
        BY <1>3 DEF LogStationTransaction
    <2>2. Advances(db, saved) /\ Steady(db, saved) /\ Sound(saved)
        BY <1>1, SaveNetStationAdvances, SaveNetStationSteady DEF Advances
    <2>3. saved.sessions = db.sessions /\ saved.check_ins = db.check_ins
          /\ saved.last_check_in = db.last_check_in /\ DOMAIN saved = DOMAIN db
        BY <1>1 DEF SaveNetStation, Sound, TablesTypeOK, EmptyTables
    <2>4. i \in DOMAIN db.sessions /\ ui[u].draft.role # db.sessions[i].operator_role
        BY <1>1, <1>3, <2>3 DEF ForeignKeysHold, Fit, Careful
    <2> HIDE DEF saved
    <2>5. Advances(saved, added)
        BY <1>1, <1>3, <2>2, AddCheckInAtNextSequenceAdvances
    <2>6. added = AddCheckIn(saved, numbered)
        BY DEF AddCheckInAtNextSequence
    <2>7. Steady(saved, added)
        BY <2>2, <2>6, AddCheckInSteady
    <2> HIDE DEF numbered
    <2>8. /\ added.sessions = db.sessions /\ added.last_check_in = id
          /\ DOMAIN added.check_ins = DOMAIN db.check_ins \cup {id}
          /\ added.check_ins[id] = numbered
          /\ \A c \in DOMAIN db.check_ins : c # id => added.check_ins[c] = db.check_ins[c]
        BY <2>2, <2>3, <2>6, AddCheckInIs
    <2> HIDE DEF added
    <2>9. Advances(db, added) /\ Steady(db, added) /\ Sound(added)
        BY <1>1, <2>2, <2>5, <2>7, SucceedsTransitive, SteadyTransitive DEF Advances
    <2>10. Advances(added, db') /\ Steady(added, db')
        <3>1. i \in DOMAIN added.sessions => added.sessions[i].operator_role # row.role
            BY <2>4, <2>8
        <3> HIDE DEF row
        <3> QED BY <1>1, <2>1, <2>9, <3>1, ApplyCheckInRoleDesignationAdvances,
                   ApplyCheckInRoleDesignationSteady
    <2>11. Advances(db, db') /\ Steady(db, db')
        BY <1>1, <2>9, <2>10, SucceedsTransitive, SteadyTransitive
    <2>12. /\ DOMAIN db'.check_ins = DOMAIN added.check_ins /\ db'.sessions[i].status = db.sessions[i].status
           /\ DOMAIN db'.sessions = DOMAIN db.sessions
        <3> HIDE DEF row
        <3> QED BY <1>1, <2>1, <2>4, <2>8, <2>9, ApplyCheckInRoleDesignationIs
    <2>13. Fits(db, db')
        <3> SUFFICES ASSUME NEW b \in DOMAIN db'.check_ins, b # id,
                            SessionOf(db', b) = SessionOf(db', id)
                     PROVE  /\ Base[db'.check_ins[b].callsign] # Base[db'.check_ins[id].callsign]
                            /\ IsOpen(db', SessionOf(db', b)) =>
                                    db'.check_ins[b].seq # db'.check_ins[id].seq
            BY <2>8, <2>12 DEF Fits
        <3>1. /\ b \in DOMAIN db.check_ins /\ id \in DOMAIN added.check_ins
              /\ b \in DOMAIN added.check_ins /\ added.check_ins[b] = db.check_ins[b]
            BY <2>8, <2>12
        <3>2. /\ numbered.session = i /\ numbered.callsign = row.callsign
              /\ numbered.seq = NextSequence(saved, i)
            BY DEF numbered
        <3>3. /\ SessionOf(db', id) = i /\ SessionOf(db', b) = i /\ SessionOf(db, b) = i
              /\ db'.check_ins[id].callsign = row.callsign
              /\ db'.check_ins[b].callsign = db.check_ins[b].callsign
            BY <2>8, <2>10, <2>12, <3>1, <3>2 DEF Advances, Succeeds, SessionOf
        <3>4. Base[db.check_ins[b].callsign] # Base[row.callsign]
            BY <1>3, <3>1, <3>3 DEF AlreadyLogged, CheckInIds, SessionOf
        <3>5. ASSUME IsOpen(db', i) PROVE db'.check_ins[b].seq # db'.check_ins[id].seq
            <4>1. IsOpen(added, i)
                BY <2>4, <2>8, <2>12, <3>5 DEF IsOpen
            <4>2. SessionOf(added, b) = i /\ SessionOf(added, id) = i
                BY <2>8, <3>1, <3>2, <3>3 DEF SessionOf
            <4>3. /\ db'.check_ins[b].seq = db.check_ins[b].seq
                  /\ db'.check_ins[id].seq = NextSequence(saved, i)
                BY <2>8, <2>10, <2>12, <3>1, <3>2, <3>5, <4>1, <4>2 DEF Steady
            <4>4. saved.check_ins[b].seq < NextSequence(saved, i) /\ saved.check_ins[b].seq \in Nat
                  /\ NextSequence(saved, i) \in Nat
                BY <2>2, <2>3, <3>1, <3>3, NextSequenceIs
                DEF Sound, CheckInIds, SessionOf, TablesTypeOK, CheckIn
            <4> HIDE DEF row
            <4> QED BY <2>3, <4>3, <4>4
        <3> QED BY <3>3, <3>4, <3>5
    <2>14. Fit(ui[u], db') /\ Sound(db')
        BY <2>11, StillFit
    <2>15. DOMAIN t = DOMAIN NetListPage /\ Fit([t EXCEPT !.shown = << >>], db')
        BY <1>1, <2>14 DEF Fit, Careful, Upright, NetListPage
    <2>16. s.step = "idle"
        BY <1>1 DEF RefreshActiveCheckIns, NetListPage
    <2> HIDE DEF t
    <2>17. Fit(s, db')
        BY <2>14, <2>15, RefreshActiveCheckInsFit
    <2> HIDE DEF s
    <2>18. ui'[u] = s /\ \A v \in Users \ {u} : ui'[v] = ui[v]
        BY <2>1, LogInvParts DEF Becomes
    <2> QED BY <1>1, <2>11, <2>13, <2>16, <2>17, <2>18 DEF Keeps, Deletes
<1> QED BY <1>2, <1>3

(* A window may hold any row of the list.                                    *)
LEMMA WindowFit ==
    ASSUME NEW d, Sound(d), NEW s, AppStateOK(s, d), Fit(s, d), NEW c \in DOMAIN s.shown,
           s.page \in {"activeNet", "history"}, s.prompt = "none", s.step = "idle"
    PROVE  /\ Fit(OpenEditCheckInForm(s, c), d) /\ OpenEditCheckInForm(s, c).step = "idle"
           /\ Fit(OpenRowDeleteConfirm(s, c), d) /\ OpenRowDeleteConfirm(s, c).step = "idle"
<1> DEFINE copy == Copy(s.shown, c)
           n == Position(s.shown, c)
<1>1. copy.id = c /\ copy.row = s.shown[c] /\ c # 0
    BY DEF Copy, Sound, TablesTypeOK, AppStateOK, AppStateTypeOK
<1>2. copy # NoCopy
    BY <1>1 DEF NoCopy
<1>3. /\ OpenEditCheckInForm(s, c) = [s EXCEPT !.modal = "editCheckIn", !.held = copy]
      /\ OpenRowDeleteConfirm(s, c) = [s EXCEPT !.modal = "deleteConfirm", !.index = n, !.held = copy]
    BY DEF OpenEditCheckInForm, OpenRowDeleteConfirm
<1>4. DOMAIN s = DOMAIN NetListPage
    BY DEF AppStateOK, AppStateTypeOK
<1>5. n = Position(s.shown, c)
    OBVIOUS
<1> HIDE DEF copy, n
<1> QED BY <1>1, <1>2, <1>3, <1>4, <1>5 DEF Fit, Careful, Upright, NetListPage

LEMMA PickRowKeeps ==
    ASSUME LogInv, NEW u \in Users,
           \/ \E c \in DOMAIN ui[u].shown :
                EditSelectedCheckIn(u, c) \/ FinishRowPick(u, c) \/ PickHistoryCheckIn(u, c)
           \/ StartRowPick(u)
    PROVE  Keeps(u)
<1>1. /\ Sound(db) /\ DOMAIN ui[u] = DOMAIN NetListPage /\ AppStateOK(ui[u], db) /\ Fit(ui[u], db)
    BY LogInvParts
<1>2. ASSUME NEW c \in DOMAIN ui[u].shown,
             EditSelectedCheckIn(u, c) \/ FinishRowPick(u, c) \/ PickHistoryCheckIn(u, c)
      PROVE  Keeps(u)
    <2> DEFINE edit == OpenEditCheckInForm(ui[u], c)
               ask == OpenRowDeleteConfirm(ui[u], c)
    <2>1. /\ ui[u].page \in {"activeNet", "history"} /\ ui[u].prompt = "none"
          /\ ui[u].step = "idle"
        BY <1>2 DEF EditSelectedCheckIn, FinishRowPick, PickHistoryCheckIn, Logging, OnPage
    <2>2. /\ Fit(edit, db) /\ edit.step = "idle"
          /\ Fit(ask, db) /\ ask.step = "idle"
        BY <1>1, <2>1, WindowFit
    <2>3. (Becomes(u, edit) \/ Becomes(u, ask)) /\ UNCHANGED db
        BY <1>2 DEF EditSelectedCheckIn, FinishRowPick, PickHistoryCheckIn
    <2> HIDE DEF edit, ask
    <2> QED BY <2>2, <2>3, QuietKeeps DEF Deletes
<1>3. CASE StartRowPick(u)
    <2> DEFINE s == [ui[u] EXCEPT !.modal = "rowPick"]
    <2>1. Fit(s, db) /\ s.step = "idle" /\ Becomes(u, s) /\ UNCHANGED db
        BY <1>1, <1>3 DEF StartRowPick, Logging, OnPage, Fit, Careful, Upright, NetListPage
    <2> HIDE DEF s
    <2> QED BY <2>1, QuietKeeps DEF Deletes
<1> QED BY <1>2, <1>3

(* An edit writes back a copy that stands, and gives or takes a role only    *)
(* among those that are not the operator's.                                  *)
LEMMA SaveEditCheckInFormKeeps ==
    ASSUME LogInv, NEW u \in Users, NEW choice \in Roles \cup {NoRole}, SaveEditCheckInForm(u, choice)
    PROVE  Keeps(u)
<1> DEFINE i == ui[u].active
           held == ui[u].held
           role == IF held.row.role \in RoleChoices(i) THEN choice ELSE held.row.role
           row == [held.row EXCEPT !.role = role]
           updated == UpdateCheckIn(db, held.id, row)
           t == NoModal(ui[u])
           s == RefreshActiveCheckIns(t, db')
<1>1. /\ Sound(db) /\ DOMAIN ui[u] = DOMAIN NetListPage /\ AppStateOK(ui[u], db) /\ Fit(ui[u], db)
      /\ ui[u].modal = "editCheckIn" /\ ui[u].page = "activeNet" /\ ~ui[u].viewing
      /\ ui[u].step = "idle" /\ choice \in RoleChoices(i)
    BY LogInvParts DEF SaveEditCheckInForm, Logging, OnPage
<1>2. held # NoCopy /\ held \in [id : Nat, row : CheckIn]
    BY <1>1 DEF AppStateOK, AppStateTypeOK
<1>3. /\ row \in CheckIn /\ row.session = held.row.session /\ row.callsign = held.row.callsign
      /\ row.seq = held.row.seq /\ row.role = role
      /\ held.row.callsign \in Callsigns
    BY <1>2 DEF CheckIn
<1>4. CopyStands(held.row, held.id, db) /\ held.row.session = i
    BY <1>1, <1>2 DEF Fit, Careful
<1>5. held.id \in DOMAIN db.check_ins => /\ row.session = db.check_ins[held.id].session
                                         /\ row.callsign = db.check_ins[held.id].callsign
    BY <1>1, <1>2, <1>3 DEF AppStateOK, Traces
<1>6. \A r \in RoleChoices(i) : i \in DOMAIN db.sessions => r # db.sessions[i].operator_role
    BY <1>1, NoValuesDistinct DEF RoleChoices, Sound, TablesTypeOK, NetInstance
<1>7. \/ role \in RoleChoices(i) /\ held.row.role \in RoleChoices(i)
      \/ role = held.row.role
    BY <1>1
<1>8. CopyStands(row, held.id, db)
    <2>1. held.id \in DOMAIN db.check_ins => SessionOf(db, held.id) = i
        BY <1>3, <1>4, <1>5 DEF SessionOf
    <2> HIDE DEF row, role
    <2> QED BY <1>3, <1>4, <1>6, <1>7, <2>1 DEF CopyStands
<1>9. /\ db' = ApplyCheckInRoleDesignation(updated, i, held.id, held.row.role, role,
                                           held.row.callsign)
      /\ Becomes(u, s)
    BY DEF SaveEditCheckInForm
<1> HIDE DEF row, role
<1>10. Advances(db, updated) /\ Steady(db, updated) /\ Sound(updated)
    BY <1>1, <1>3, <1>5, <1>8, UpdateCheckInAdvances, UpdateCheckInSteady DEF Advances, SessionOf
<1>11. updated.sessions = db.sessions /\ DOMAIN updated.check_ins = DOMAIN db.check_ins
    BY <1>1 DEF UpdateCheckIn, Sound, TablesTypeOK, EmptyTables
<1> HIDE DEF updated
<1>12. held.row.role = role \/ (i \in DOMAIN updated.sessions =>
                                    updated.sessions[i].operator_role # role)
    BY <1>6, <1>7, <1>11
<1>13. /\ Advances(updated, db') /\ Steady(updated, db')
       /\ DOMAIN db'.check_ins = DOMAIN updated.check_ins
    BY <1>3, <1>9, <1>10, <1>12, ApplyCheckInRoleDesignationAdvances,
       ApplyCheckInRoleDesignationSteady, ApplyCheckInRoleDesignationIs
<1>14. Advances(db, db') /\ Steady(db, db') /\ DOMAIN db'.check_ins \subseteq DOMAIN db.check_ins
    BY <1>1, <1>10, <1>11, <1>13, SucceedsTransitive, SteadyTransitive
<1>15. Fit(ui[u], db') /\ AppStateOK(ui[u], db') /\ Sound(db')
    BY <1>14, StillFit
<1>16. /\ Fit(t, db') /\ DOMAIN t = DOMAIN NetListPage /\ t.modal = "none" /\ t.step = "idle"
    BY <1>1, <1>15, NoModalFit DEF NoModal, NetListPage
<1>17. s.step = "idle"
    BY <1>16 DEF RefreshActiveCheckIns
<1> HIDE DEF t
<1>18. Fit(s, db')
    BY <1>15, <1>16, EmptiedFit, RefreshActiveCheckInsFit
<1> HIDE DEF s
<1> QED BY <1>1, <1>9, <1>14, <1>17, <1>18, ChangeKeeps DEF Deletes

(* The row confirmed is the one held.                                        *)
LEMMA ConfirmedIsHeld ==
    ASSUME NEW d, Sound(d), NEW s, AppStateOK(s, d), Upright(s), s.modal = "deleteConfirm",
           NEW c \in Confirmed(s)
    PROVE  c = s.held.id
<1>1. /\ d.last_check_in \in Nat /\ DOMAIN s.shown \subseteq 1..d.last_check_in
      /\ \A b \in DOMAIN s.shown : s.shown[b].seq \in Nat
    BY DEF Sound, TablesTypeOK, AppStateOK, AppStateTypeOK, CheckIn
<1>2. /\ c \in DOMAIN s.shown /\ s.held.id \in DOMAIN s.shown
      /\ Position(s.shown, c) = Position(s.shown, s.held.id)
    BY DEF Confirmed, Upright
<1> DEFINE log == s.shown
<1>3. c \in DOMAIN log /\ s.held.id \in DOMAIN log
    BY <1>2
<1> QED BY <1>1, <1>2, <1>3, PositionTellsApart

(* Up to the clearing of its role column ...                                 *)
LEMMA ConfirmDeleteKeeps ==
    ASSUME LogInv, NEW u \in Users, ConfirmRowDelete(u) \/ DeleteSelectedHistoryCheckIn(u)
    PROVE  Keeps(u)
<1>1. /\ Sound(db) /\ DOMAIN ui[u] = DOMAIN NetListPage /\ AppStateOK(ui[u], db) /\ Fit(ui[u], db)
      /\ ui[u].page \in {"activeNet", "history"} /\ ui[u].prompt = "none" /\ ui[u].step = "idle"
      /\ ui[u].modal = "deleteConfirm" /\ ~ui[u].viewing
    BY LogInvParts
    DEF ConfirmRowDelete, DeleteSelectedHistoryCheckIn, Logging, OnPage, Fit, Upright
<1>2. CASE Becomes(u, NoModal(ui[u])) /\ UNCHANGED db
    <2> DEFINE s == NoModal(ui[u])
    <2>1. Fit(s, db) /\ s.step = "idle" /\ Becomes(u, s)
        BY <1>1, <1>2, NoModalFit DEF NoModal, NetListPage
    <2> HIDE DEF s
    <2> QED BY <1>2, <2>1, QuietKeeps DEF Deletes
<1>3. ASSUME NEW c \in Confirmed(ui[u]), NEW i, NEW step \in Deletes,
             db' = SetNetInstanceRoleCallsign(db, i, ui[u].shown[c].role, NoCall),
             Becomes(u, [NoModal(ui[u]) EXCEPT !.step = step, !.held = Copy(ui[u].shown, c)])
      PROVE  Keeps(u)
    <2> DEFINE copy == Copy(ui[u].shown, c)
               base == NoModal(ui[u])
               s == [base EXCEPT !.step = step, !.held = copy]
    <2>1. Advances(db, db') /\ Steady(db, db')
        BY <1>1, <1>3, SetNetInstanceRoleCallsignAdvances, SetNetInstanceRoleCallsignSteady
    <2>2. db'.check_ins = db.check_ins
        BY <1>1, <1>3 DEF SetNetInstanceRoleCallsign, Sound, TablesTypeOK, EmptyTables
    <2>3. Fit(ui[u], db') /\ AppStateOK(ui[u], db')
        BY <2>1, StillFit
    <2>4. /\ base.shown = ui[u].shown /\ base.page = ui[u].page /\ base.active = ui[u].active
          /\ base.modal = "none" /\ base.viewing = ui[u].viewing
          /\ DOMAIN base = DOMAIN NetListPage
        BY <1>1 DEF NoModal, NetListPage
    <2>5. Fit(base, db')
        BY <2>3, NoModalFit
    <2>6. copy.id = c /\ copy.row = ui[u].shown[c] /\ c \in DOMAIN ui[u].shown
        BY DEF Copy, Confirmed
    <2>7. c = ui[u].held.id
        BY <1>1, ConfirmedIsHeld DEF Fit
    <2>8. Becomes(u, s)
        BY <1>3
    <2> HIDE DEF base, copy
    <2>9. Fit(s, db') /\ s.held.id = ui[u].held.id
        BY <1>1, <2>4, <2>5, <2>6, <2>7 DEF Fit, Careful, Upright, NetListPage, Deletes
    <2> HIDE DEF s
    <2> QED BY <1>1, <2>1, <2>2, <2>8, <2>9, ChangeKeeps
<1> QED BY <1>2, <1>3 DEF ConfirmRowDelete, DeleteSelectedHistoryCheckIn, Deletes

(* ... and the DELETE.                                                       *)
LEMMA DeleteRowKeeps ==
    ASSUME LogInv, NEW u \in Users, DeleteRow(u)
    PROVE  Keeps(u)
<1> DEFINE base == NoModal(ui[u])
           t == [base EXCEPT !.step = "idle"]
           s == RefreshActiveCheckIns(t, db')
<1>1. /\ Sound(db) /\ DOMAIN ui[u] = DOMAIN NetListPage /\ AppStateOK(ui[u], db) /\ Fit(ui[u], db)
      /\ ui[u].step = "deleteRow" /\ ~ui[u].viewing
      /\ db' = DeleteCheckIn(db, ui[u].held.id)
    BY LogInvParts DEF DeleteRow, Fit, Upright
<1>2. Advances(db, db') /\ Steady(db, db')
    BY <1>1, DeleteCheckInAdvances, DeleteCheckInSteady
<1>3. DOMAIN db'.check_ins \subseteq DOMAIN db.check_ins
    BY <1>1, DeleteCheckInIs
<1>4. Fit(ui[u], db') /\ AppStateOK(ui[u], db') /\ Sound(db')
    BY <1>2, StillFit
<1>5. Fit(base, db') /\ DOMAIN base = DOMAIN NetListPage /\ base.modal = "none"
    BY <1>1, <1>4, NoModalFit DEF NoModal, NetListPage
<1> HIDE DEF base
<1>6. DOMAIN t = DOMAIN NetListPage /\ Fit(t, db') /\ t.modal # "deleteConfirm" /\ t.step = "idle"
    BY <1>5 DEF Fit, Careful, Upright, NetListPage
<1>7. s.step = "idle"
    BY <1>6 DEF RefreshActiveCheckIns
<1>8. Becomes(u, s)
    BY DEF DeleteRow, base
<1> HIDE DEF t
<1>9. Fit(s, db')
    BY <1>4, <1>6, EmptiedFit, RefreshActiveCheckInsFit
<1> HIDE DEF s
<1> QED BY <1>1, <1>2, <1>3, <1>7, <1>8, <1>9, ChangeKeeps DEF Deletes

LEMMA CloseActiveNetKeeps ==
    ASSUME LogInv, NEW u \in Users, RequestCloseActiveNet(u) \/ CloseActiveNet(u)
    PROVE  Keeps(u)
<1>1. /\ Sound(db) /\ DOMAIN ui[u] = DOMAIN NetListPage /\ AppStateOK(ui[u], db) /\ Fit(ui[u], db)
      /\ ui[u].step = "idle"
    BY LogInvParts DEF RequestCloseActiveNet, CloseActiveNet, Logging, OnPage, AtPrompt
<1>2. CASE RequestCloseActiveNet(u)
    <2> DEFINE s == [ui[u] EXCEPT !.prompt = "closeNet"]
    <2>1. ~ui[u].viewing /\ ui[u].page = "activeNet" /\ Becomes(u, s) /\ UNCHANGED db
        BY <1>2 DEF RequestCloseActiveNet, Logging, OnPage
    <2>2. Fit(s, db) /\ s.step = "idle"
        BY <1>1, <2>1 DEF Fit, Careful, Upright, NetListPage
    <2> HIDE DEF s
    <2> QED BY <2>1, <2>2, QuietKeeps DEF Deletes
<1>3. CASE CloseActiveNet(u)
    <2> DEFINE closing == [ui[u] EXCEPT !.prompt = "none", !.step = "renumberThenLeave"]
               told == ShowSessionClosedPrompt(ui[u])
    <2>1. /\ ui[u].prompt = "closeNet" /\ ~ui[u].viewing /\ ui[u].page = "activeNet"
          /\ ui[u].modal = "none"
          /\ db' = MarkClosed(db, ui[u].active, u)
          /\ Becomes(u, closing) \/ Becomes(u, told)
        BY <1>1, <1>3 DEF CloseActiveNet, AtPrompt, AppStateOK, AppStateTypeOK, Fit, Upright
    <2>2. Advances(db, db') /\ Steady(db, db')
        BY <1>1, <2>1, MarkClosedAdvances, MarkClosedSteady
    <2>3. ~IsOpen(db', ui[u].active) /\ db'.check_ins = db.check_ins
        BY <1>1, <2>1, MarkClosedIs
    <2>4. Fit(ui[u], db') /\ Sound(db')
        BY <2>2, StillFit
    <2>5. Fit(closing, db') /\ closing.step = "renumberThenLeave"
        BY <1>1, <2>1, <2>3, <2>4 DEF Fit, Careful, Upright, NetListPage
    <2>6. Fit(told, db') /\ told.step = "idle"
        BY <1>1, <2>4, ShowSessionClosedPromptFit
        DEF ShowSessionClosedPrompt, NoModal, CancelConfirmPrompt, NetListPage
    <2> HIDE DEF closing, told
    <2> QED BY <2>1, <2>2, <2>3, <2>5, <2>6, ChangeKeeps DEF Deletes
<1> QED BY <1>2, <1>3

LEMMA RenumberThenLeaveKeeps ==
    ASSUME LogInv, NEW u \in Users, RenumberThenLeave(u)
    PROVE  Keeps(u)
<1> DEFINE s == [LeaveActiveNet(ui[u]) EXCEPT !.step = "idle"]
           left == [LeaveActiveNet(ui[u]) EXCEPT !.viewing = FALSE, !.step = "idle"]
<1>1. /\ Sound(db) /\ DOMAIN ui[u] = DOMAIN NetListPage /\ AppStateOK(ui[u], db) /\ Fit(ui[u], db)
      /\ ui[u].step = "renumberThenLeave" /\ ~ui[u].viewing /\ ~IsOpen(db, ui[u].active)
      /\ ui[u].viewing \in BOOLEAN
      /\ db' = RenumberCheckIns(db, ui[u].active)
    BY LogInvParts DEF RenumberThenLeave, Fit, Upright, Careful, AppStateOK, AppStateTypeOK
<1>2. Advances(db, db') /\ Steady(db, db')
    BY <1>1, RenumberCheckInsAdvances, RenumberCheckInsSteady
<1>3. DOMAIN db'.check_ins = DOMAIN db.check_ins
    BY <1>1, RenumberCheckInsIs DEF ChangedInPlace, Sound
<1>4. Fit(ui[u], db') /\ AppStateOK(ui[u], db')
    BY <1>2, StillFit
<1>5. Fit(left, db')
    BY <1>1, <1>4, LeaveActiveNetFit
<1>6. s = left /\ s.step = "idle"
    BY <1>1 DEF LeaveActiveNet, NoModal, NetListPage
<1>7. Becomes(u, s)
    BY DEF RenumberThenLeave
<1> HIDE DEF s, left
<1> QED BY <1>1, <1>2, <1>3, <1>5, <1>6, <1>7, ChangeKeeps DEF Deletes

LEMMA LeaveKeeps ==
    ASSUME LogInv, NEW u \in Users, LeaveClosedSession(u) \/ StopViewing(u)
    PROVE  Keeps(u)
<1>1. /\ Sound(db) /\ DOMAIN ui[u] = DOMAIN NetListPage /\ AppStateOK(ui[u], db) /\ Fit(ui[u], db)
      /\ ui[u].step = "idle" /\ UNCHANGED db
    BY LogInvParts DEF LeaveClosedSession, StopViewing, OnPage, AtPrompt
<1>2. PICK t \in {ui[u], CancelConfirmPrompt(ui[u])} :
        Becomes(u, [LeaveActiveNet(t) EXCEPT !.viewing = FALSE])
    BY DEF LeaveClosedSession, StopViewing
<1> DEFINE cancelled == CancelConfirmPrompt(ui[u])
<1>3. /\ Fit(cancelled, db) /\ AppStateOK(cancelled, db)
      /\ cancelled.step = "idle" /\ DOMAIN cancelled = DOMAIN NetListPage
    <2>1. cancelled.step = "idle" /\ DOMAIN cancelled = DOMAIN NetListPage
        BY <1>1 DEF CancelConfirmPrompt, NetListPage
    <2>2. Fit(cancelled, db)
        BY <1>1, CancelConfirmPromptFit
    <2>3. AppStateOK(cancelled, db)
        BY <1>1, CancelConfirmPromptOK
    <2> QED BY <2>1, <2>2, <2>3
<1>4. t = ui[u] \/ t = cancelled
    BY <1>2
<1> HIDE DEF cancelled
<1>5. Fit(t, db) /\ AppStateOK(t, db) /\ t.step = "idle" /\ DOMAIN t = DOMAIN NetListPage
    BY <1>1, <1>3, <1>4
<1> DEFINE s == [LeaveActiveNet(t) EXCEPT !.viewing = FALSE]
           left == [LeaveActiveNet(t) EXCEPT !.viewing = FALSE, !.step = "idle"]
<1>6. s = left /\ s.step = "idle"
    BY <1>5 DEF LeaveActiveNet, NoModal, NetListPage
<1>7. Fit(left, db)
    BY <1>5, LeaveActiveNetFit
<1>8. Becomes(u, s)
    BY <1>2
<1> HIDE DEF s, left
<1> QED BY <1>1, <1>6, <1>7, <1>8, QuietKeeps DEF Deletes

-----------------------------------------------------------------------------
(* History and the net's saved stations.                                     *)

LEMMA OpenHistoryKeeps ==
    ASSUME LogInv, NEW u \in Users,
           \/ \E i \in DOMAIN db.sessions : OpenHistory(u, i)
           \/ HistoryBack(u)
    PROVE  Keeps(u)
<1>1. /\ Sound(db) /\ DOMAIN ui[u] = DOMAIN NetListPage /\ AppStateOK(ui[u], db) /\ Fit(ui[u], db)
      /\ ui[u].step = "idle" /\ UNCHANGED db
    BY LogInvParts DEF OpenHistory, HistoryBack, OnPage
<1>2. ASSUME NEW i \in DOMAIN db.sessions, OpenHistory(u, i)
      PROVE  Keeps(u)
    <2> DEFINE log == GetCheckInsForNetInstance(db, i)
               open == IsOpen(db, i)
               s == [ui[u] EXCEPT !.page = "history", !.other = i, !.other_open = open, !.shown = log]
    <2>1. \A c \in DOMAIN log : c \in DOMAIN db.check_ins /\ log[c] = db.check_ins[c]
        BY <1>1, ListIs
    <2>2. \A c \in DOMAIN log : CopyStands(log[c], c, db)
        BY <2>1 DEF CopyStands, IsOperators
    <2>3. i \in Nat /\ i <= db.last_session
        BY <1>1 DEF Sound, TablesTypeOK
    <2>4. ui[u].page = "netList" /\ Becomes(u, s)
        BY <1>2 DEF OpenHistory, OnPage
    <2> HIDE DEF log, open
    <2>5. ui[u].modal = "none" /\ ~ui[u].viewing
        BY <1>1, <2>4 DEF Fit, Upright, AppStateOK, AppStateTypeOK
    <2>6. Fit(s, db) /\ s.step = "idle"
        BY <1>1, <2>2, <2>3, <2>4, <2>5 DEF Fit, Careful, Upright, NetListPage
    <2> HIDE DEF s
    <2> QED BY <1>1, <2>4, <2>6, QuietKeeps DEF Deletes
<1>3. CASE HistoryBack(u)
    <2> DEFINE s == LeaveHistory(ui[u])
    <2>1. Becomes(u, s) /\ ui[u].page = "history"
        BY <1>3 DEF HistoryBack, OnPage
    <2>2. Fit(s, db)
        BY <1>1, <2>1, LeaveHistoryFit
    <2>3. s.step = "idle"
        BY <1>1 DEF LeaveHistory, NoModal, NetListPage
    <2> HIDE DEF s
    <2> QED BY <1>1, <2>1, <2>2, <2>3, QuietKeeps DEF Deletes
<1> QED BY <1>2, <1>3

(* The page reads its session again, or is left if it is gone.               *)
LEMMA RefreshNetHistoryFit ==
    ASSUME NEW d, Sound(d), NEW s, AppStateOK(s, d), Fit(s, d), s.step = "idle",
           s.page = "history", s.modal = "none"
    PROVE  Fit(RefreshNetHistory(s, d), d) /\ RefreshNetHistory(s, d).step = "idle"
<1>1. DOMAIN s = DOMAIN NetListPage
    BY DEF AppStateOK, AppStateTypeOK
<1>2. CASE s.other \in DOMAIN d.sessions
    <2> DEFINE log == GetCheckInsForNetInstance(d, s.other)
               open == IsOpen(d, s.other)
               t == [s EXCEPT !.other_open = open, !.shown = log]
    <2>1. \A c \in DOMAIN log : c \in DOMAIN d.check_ins /\ log[c] = d.check_ins[c]
        BY ListIs
    <2>2. \A c \in DOMAIN log : CopyStands(log[c], c, d)
        BY <2>1 DEF CopyStands, IsOperators
    <2>3. RefreshNetHistory(s, d) = t
        BY <1>2 DEF RefreshNetHistory
    <2> HIDE DEF log, open
    <2>4. Fit(t, d) /\ t.step = "idle"
        BY <1>1, <2>2 DEF Fit, Careful, Upright, NetListPage
    <2> QED BY <2>3, <2>4
<1>3. CASE s.other \notin DOMAIN d.sessions
    <2>1. RefreshNetHistory(s, d) = LeaveHistory(s)
        BY <1>3 DEF RefreshNetHistory
    <2>2. LeaveHistory(s).step = "idle"
        BY <1>1 DEF LeaveHistory, NoModal, NetListPage
    <2> QED BY <2>1, <2>2, LeaveHistoryFit
<1> QED BY <1>2, <1>3

LEMMA DeleteHistoryRowKeeps ==
    ASSUME LogInv, NEW u \in Users, DeleteHistoryRow(u)
    PROVE  Keeps(u)
<1> DEFINE base == NoModal(ui[u])
           t == [base EXCEPT !.step = "idle"]
           s == RefreshNetHistory(t, db')
<1>1. /\ Sound(db) /\ DOMAIN ui[u] = DOMAIN NetListPage /\ AppStateOK(ui[u], db) /\ Fit(ui[u], db)
      /\ ui[u].step = "deleteHistoryRow" /\ ~ui[u].viewing /\ ui[u].page = "history"
      /\ db' = DeleteCheckIn(db, ui[u].held.id)
    BY LogInvParts DEF DeleteHistoryRow, Fit, Upright, AppStateOK, AppStateTypeOK
<1>2. Advances(db, db') /\ Steady(db, db')
    BY <1>1, DeleteCheckInAdvances, DeleteCheckInSteady
<1>3. DOMAIN db'.check_ins \subseteq DOMAIN db.check_ins
    BY <1>1, DeleteCheckInIs
<1>4. Fit(ui[u], db') /\ AppStateOK(ui[u], db') /\ Sound(db')
    BY <1>2, StillFit
<1>5. /\ Fit(base, db') /\ AppStateOK(base, db') /\ DOMAIN base = DOMAIN NetListPage
      /\ base.modal = "none" /\ base.page = "history"
    BY <1>1, <1>4, NoModalFit, NoModalOK DEF NoModal, NetListPage
<1>6. Becomes(u, s)
    BY DEF DeleteHistoryRow
<1> HIDE DEF base
<1>7. Fit(t, db') /\ t.step = "idle" /\ t.page = "history" /\ t.modal = "none"
    BY <1>5 DEF Fit, Careful, Upright, NetListPage
<1>8. AppStateOK(t, db')
    BY <1>5 DEF AppStateOK, AppStateTypeOK, Traces, NetListPage, Steps
<1> HIDE DEF t
<1>9. Fit(s, db') /\ s.step = "idle"
    BY <1>4, <1>7, <1>8, RefreshNetHistoryFit
<1> HIDE DEF s
<1> QED BY <1>1, <1>2, <1>3, <1>6, <1>9, ChangeKeeps DEF Deletes

LEMMA RemoveSessionOrStationKeeps ==
    ASSUME LogInv, NEW u \in Users,
           \/ DeleteSelectedNetInstance(u)
           \/ \E callsign \in Callsigns : RemoveSelectedSavedNetStation(u, callsign)
    PROVE  Keeps(u)
<1>1. /\ Sound(db) /\ DOMAIN ui[u] = DOMAIN NetListPage /\ AppStateOK(ui[u], db) /\ Fit(ui[u], db)
    BY LogInvParts
<1>2. CASE DeleteSelectedNetInstance(u)
    <2> DEFINE s == LeaveHistory(ui[u])
    <2>1. /\ ui[u].page = "history" /\ ui[u].step = "idle" /\ ~ui[u].viewing
          /\ db' = DeleteNetInstance(db, ui[u].other) /\ Becomes(u, s)
        BY <1>1, <1>2 DEF DeleteSelectedNetInstance, OnPage, Fit, Upright
    <2>2. Advances(db, db') /\ Steady(db, db')
        BY <1>1, <2>1, DeleteNetInstanceAdvances, DeleteNetInstanceSteady
    <2>3. DOMAIN db'.check_ins \subseteq DOMAIN db.check_ins
        BY <1>1, <2>1 DEF DeleteNetInstance, DeleteUnusedStations, RemoveCheckIns, Restrict,
                          Sound, TablesTypeOK, EmptyTables
    <2>4. Fit(ui[u], db') /\ AppStateOK(ui[u], db') /\ Sound(db')
        BY <2>2, StillFit
    <2>5. Fit(s, db')
        BY <2>1, <2>4, LeaveHistoryFit
    <2>6. s.step = "idle"
        BY <1>1, <2>1 DEF LeaveHistory, NoModal, NetListPage
    <2> HIDE DEF s
    <2> QED BY <2>1, <2>2, <2>3, <2>5, <2>6, ChangeKeeps DEF Deletes
<1>3. ASSUME NEW callsign \in Callsigns, RemoveSelectedSavedNetStation(u, callsign)
      PROVE  Keeps(u)
    <2>1. /\ ui' = ui /\ db' = RemoveSavedNetStation(db, callsign) /\ ui[u].step = "idle"
        BY <1>3 DEF RemoveSelectedSavedNetStation, OnPage
    <2>2. Advances(db, db') /\ Steady(db, db')
        BY <1>1, <2>1, RemoveSavedNetStationAdvances, RemoveSavedNetStationSteady
    <2>3. db'.check_ins = db.check_ins
        BY <1>1, <2>1 DEF RemoveSavedNetStation, DeleteUnusedStations, Sound, TablesTypeOK, EmptyTables
    <2>4. Fit(ui[u], db')
        BY <2>2, StillFit
    <2> QED BY <2>1, <2>2, <2>3, <2>4 DEF Keeps, Fits, Deletes
<1> QED BY <1>2, <1>3

-----------------------------------------------------------------------------
(* The ScreenTicker, its tasks, and what goes wrong.                         *)

LEMMA CheckWatchedSessionKeeps ==
    ASSUME LogInv, NEW u \in Users, CheckWatchedSession(u)
    PROVE  Keeps(u)
<1>1. UNCHANGED <<db, ui>>
    BY DEF CheckWatchedSession
<1> QED BY <1>1, LogInvParts, SteadyItself DEF Keeps, Fits

(* A refresh posted by the poll leaves alone the list of a window that holds *)
(* a row of it.                                                              *)
LEMMA RunAnyTaskKeeps ==
    ASSUME LogInv, NEW u \in Users, RunAnyTask(u)
    PROVE  Keeps(u)
<1>1. PICK task \in tasks[u] : RunTask(u, task)
    BY DEF RunAnyTask
<1>2. /\ Sound(db) /\ DOMAIN ui[u] = DOMAIN NetListPage /\ AppStateOK(ui[u], db) /\ Fit(ui[u], db)
      /\ ui[u].step = "idle"
    BY <1>1, LogInvParts DEF RunTask
<1> DEFINE closed == EnsureActiveSessionOpen(ui[u])
           fresh == RefreshActiveCheckIns(ui[u], db)
           s == IF task.kind = "sessionClosed"
                THEN SessionClosedTask(ui[u], task.session)
                ELSE RefreshActiveCheckInsFromOthers(ui[u], task.session)
<1>3. UNCHANGED db /\ Becomes(u, s)
    BY <1>1 DEF RunTask
<1>4. Fit(closed, db) /\ closed.step = "idle"
    BY <1>2, EnsureActiveSessionOpenFit
    DEF EnsureActiveSessionOpen, ShowSessionClosedPrompt, NoModal, CancelConfirmPrompt, NetListPage
<1>5. fresh.step = "idle"
    BY <1>2 DEF RefreshActiveCheckIns, NetListPage
<1>6. ui[u].modal \notin Frozen => Fit(fresh, db)
    BY <1>2, EmptiedFit, RefreshActiveCheckInsFit DEF Frozen
<1>7. s = ui[u] \/ s = closed \/ (s = fresh /\ ui[u].modal \notin Frozen)
    BY DEF SessionClosedTask, RefreshActiveCheckInsFromOthers
<1> HIDE DEF closed, fresh, s
<1> QED BY <1>2, <1>3, <1>4, <1>5, <1>6, <1>7, QuietKeeps DEF Deletes

LEMMA GoesWrongKeeps ==
    ASSUME LogInv, NEW u \in Users, StatementFails(u) \/ Disconnect(u)
    PROVE  Keeps(u)
<1>1. /\ Sound(db) /\ DOMAIN ui[u] = DOMAIN NetListPage /\ AppStateOK(ui[u], db) /\ Fit(ui[u], db)
      /\ UNCHANGED db
    BY LogInvParts DEF StatementFails, Disconnect
<1>2. CASE StatementFails(u)
    <2> DEFINE rest == IF ui[u].page = "history" THEN ui[u].other ELSE 0
               s == [ui[u] EXCEPT !.step = "idle", !.draft = NoDraft, !.held = NoCopy,
                                  !.other = rest]
    <2>1. Becomes(u, s)
        <3>1. s = [ui[u] EXCEPT !.step = "idle", !.draft = NoDraft, !.held = NoCopy,
                                !.other = IF ui[u].page = "history" THEN @ ELSE 0]
            BY <1>1
        <3> HIDE DEF s
        <3> QED BY <1>2, <3>1 DEF StatementFails
    <2>2. rest = 0 \/ rest = ui[u].other
        OBVIOUS
    <2>3. ui[u].modal # "deleteConfirm" /\ db.last_session \in Nat
        BY <1>1, <1>2 DEF StatementFails, AppStateOK, AppStateTypeOK, Sound, TablesTypeOK
    <2> HIDE DEF rest
    <2>4. Fit(s, db) /\ s.step = "idle"
        BY <1>1, <2>2, <2>3 DEF Fit, Careful, Upright, NetListPage, NoCopy
    <2> HIDE DEF s
    <2> QED BY <1>1, <2>1, <2>4, QuietKeeps DEF Deletes
<1>3. CASE Disconnect(u)
    <2>1. Becomes(u, NetListPage)
        BY <1>3 DEF Disconnect
    <2>2. Fit(NetListPage, db) /\ NetListPage.step = "idle"
        BY <1>1 DEF Fit, Careful, Upright, NetListPage, NoCopy, Sound, TablesTypeOK
    <2> QED BY <1>1, <2>1, <2>2, QuietKeeps DEF Deletes
<1> QED BY <1>2, <1>3

-----------------------------------------------------------------------------
(* The inductive invariant and what follows from it.                         *)

(* So every step is one operator's, and keeps what it should.                *)
LEMMA NextKeeps ==
    ASSUME LogInv, Next
    PROVE  \E u \in Users : Keeps(u)
<1>1. PICK u \in Users : \/ Key(u) \/ Continue(u) \/ CheckWatchedSession(u)
                         \/ RunAnyTask(u) \/ StatementFails(u) \/ Disconnect(u)
    BY DEF Next
<1>2. CASE Key(u)
    <2>1. CASE \/ StartSelectedNet(u)
               \/ \E viewing \in BOOLEAN : AnswerResumePrompt(u, viewing)
               \/ CancelPrompt(u)
               \/ CloseOpenNetAndStartNew(u)
               \/ RoleBack(u)
               \/ ChooseViewer(u)
               \/ \E role \in Roles : OperatorCallsignSubmit(u, role)
        BY <2>1, StartSelectedNetKeeps, PromptKeeps, CloseOpenNetAndStartNewKeeps,
           RolePageKeeps, OperatorCallsignSubmitKeeps
    <2>2. CASE \/ OpenNewStationModal(u)
               \/ CancelModal(u)
               \/ \E callsign \in Callsigns, role \in Roles \cup {NoRole} :
                    LogStationCheckIn(u, callsign, role)
        BY <2>2, ModalKeeps, LogStationCheckInKeeps
    <2>3. CASE \/ \E c \in DOMAIN ui[u].shown : EditSelectedCheckIn(u, c)
               \/ StartRowPick(u)
               \/ \E c \in DOMAIN ui[u].shown : FinishRowPick(u, c)
               \/ \E c \in DOMAIN ui[u].shown : PickHistoryCheckIn(u, c)
        BY <2>3, PickRowKeeps
    <2>4. CASE \/ \E choice \in Roles \cup {NoRole} : SaveEditCheckInForm(u, choice)
               \/ ConfirmRowDelete(u) \/ DeleteSelectedHistoryCheckIn(u)
        BY <2>4, SaveEditCheckInFormKeeps, ConfirmDeleteKeeps
    <2>5. CASE \/ RequestCloseActiveNet(u) \/ CloseActiveNet(u)
               \/ LeaveClosedSession(u) \/ StopViewing(u)
        BY <2>5, CloseActiveNetKeeps, LeaveKeeps
    <2>6. CASE \/ \E i \in DOMAIN db.sessions : OpenHistory(u, i)
               \/ HistoryBack(u)
               \/ DeleteSelectedNetInstance(u)
               \/ \E callsign \in Callsigns : RemoveSelectedSavedNetStation(u, callsign)
        BY <2>6, OpenHistoryKeeps, RemoveSessionOrStationKeeps
    <2> QED BY <1>2, <2>1, <2>2, <2>3, <2>4, <2>5, <2>6 DEF Key
<1>3. CASE Continue(u)
    BY <1>3, RenumberThenStartKeeps, SaveOperatorStationKeeps, AddOperatorCheckInKeeps,
       LogStationTransactionKeeps, DeleteRowKeeps, RenumberThenLeaveKeeps, DeleteHistoryRowKeeps
    DEF Continue
<1>4. CASE CheckWatchedSession(u) \/ RunAnyTask(u)
    BY <1>4, CheckWatchedSessionKeeps, RunAnyTaskKeeps
<1>5. CASE StatementFails(u) \/ Disconnect(u)
    BY <1>5, GoesWrongKeeps
<1> QED BY <1>1, <1>2, <1>3, <1>4, <1>5

(* The tables only ever advance.                                             *)
LEMMA NextAdvances == ASSUME LogInv, Next PROVE Advances(db, db')
BY NextDoes DEF LogInv, Does

LEMMA NextKeepsLogInv ==
    ASSUME LogInv, Next
    PROVE  LogInv'
<1>1. Inv' /\ Advances(db, db') /\ Sound(db)
    BY NextDoes, DoesKeepsInv DEF LogInv, Does, InvParts, Inv
<1>2. PICK u \in Users : Keeps(u)
    BY NextKeeps
<1>3. Distinct(db')
    BY <1>1, <1>2, StillDistinct DEF LogInv, Keeps
<1>4. ASSUME NEW v \in Users PROVE Fit(ui'[v], db')
    BY <1>1, <1>2, StillFit DEF Keeps
<1> QED BY <1>1, <1>3, <1>4 DEF LogInv, Distinct, Fit, Careful, CopyStands, IsOperators, SessionOf, IsOpen

LEMMA InitLogInv == Init => LogInv
<1> SUFFICES ASSUME Init PROVE LogInv
    OBVIOUS
<1>1. Inv
    BY InitInv
<1>2. Distinct(EmptyTables)
    BY DEF Distinct, EmptyTables
<1>3. Fit(NetListPage, EmptyTables)
    BY DEF Fit, Careful, Upright, NetListPage, EmptyTables, NoCopy
<1> QED BY <1>1, <1>2, <1>3 DEF Init, LogInv

(* Nothing changes.                                                          *)
LEMMA StutterKeepsLogInv == ASSUME LogInv, UNCHANGED vars PROVE LogInv'
BY StutterKeepsInv DEF LogInv, vars

(* LogInv is inductive, so it always holds.                                  *)
THEOREM LogInvAlways == Spec => []LogInv
<1>1. LogInv /\ [Next]_vars => LogInv'
    BY NextKeepsLogInv, StutterKeepsLogInv
<1> QED BY <1>1, InitLogInv, PTL DEF Spec

(* Two check-ins of an open session never share a number, unless one is the  *)
(* operator's own: the number is taken in the transaction that inserts.      *)
THEOREM NumbersAreDistinct == Spec => []NextNumbersDistinct
<1>1. LogInv => NextNumbersDistinct
    BY DEF LogInv, Distinct, NextNumbersDistinct, SameSession, SessionOf
<1> QED BY <1>1, LogInvAlways, PTL

(* No station is in a session's log twice, mobile or not, unless one of its  *)
(* check-ins is the operator's own: the transaction that logs looks first.   *)
THEOREM LoggedOnce == Spec => []LoggedOnceButOperator
<1>1. LogInv => LoggedOnceButOperator
    BY DEF LogInv, Distinct, LoggedOnceButOperator, SameSession, SessionOf
<1> QED BY <1>1, LogInvAlways, PTL

(* While a session is open no check-in's number changes, whatever copies the *)
(* edit forms of other operators write back.                                 *)
THEOREM NumbersAlwaysStand == Spec => NumbersStand
<1>1. LogInv /\ [Next]_vars =>
        [\A c \in DOMAIN db.check_ins \cap DOMAIN db'.check_ins :
            IsOpen(db, SessionOf(db, c)) /\ IsOpen(db', SessionOf(db, c)) =>
                db'.check_ins[c].seq = db.check_ins[c].seq]_vars
    <2> SUFFICES ASSUME LogInv, Next
                 PROVE  \A c \in DOMAIN db.check_ins \cap DOMAIN db'.check_ins :
                            IsOpen(db, SessionOf(db, c)) /\ IsOpen(db', SessionOf(db, c)) =>
                                db'.check_ins[c].seq = db.check_ins[c].seq
        OBVIOUS
    <2> QED BY NextKeeps DEF Keeps, Steady
<1> QED BY <1>1, LogInvAlways, PTL DEF Spec, NumbersStand

(* The operator's own check-in keeps the role the session was started in,    *)
(* and no other check-in ever gets it.                                       *)
THEOREM OperatorAlwaysKeepsRole == Spec => OperatorKeepsRole
<1>1. LogInv /\ [Next]_vars =>
        [\A c \in DOMAIN db.check_ins \cap DOMAIN db'.check_ins :
            SessionOf(db, c) \in DOMAIN db'.sessions =>
                (IsOperators(db, c) <=> IsOperators(db', c))]_vars
    <2> SUFFICES ASSUME LogInv, Next
                 PROVE  \A c \in DOMAIN db.check_ins \cap DOMAIN db'.check_ins :
                            SessionOf(db, c) \in DOMAIN db'.sessions =>
                                (IsOperators(db, c) <=> IsOperators(db', c))
        OBVIOUS
    <2> QED BY NextKeeps DEF Keeps, Steady
<1> QED BY <1>1, LogInvAlways, PTL DEF Spec, OperatorKeepsRole

(* The check-in deleted is the one the window named, whatever was logged or  *)
(* deleted while the window was up.                                          *)
THEOREM DeletesAlwaysWhatWasNamed == Spec => DeletesWhatWasNamed
<1>1. LogInv /\ [Next]_vars =>
        [\A u \in Users :
            ui[u].modal = "deleteConfirm" /\ ui'[u].step \in {"deleteRow", "deleteHistoryRow"} =>
                ui'[u].held.id = ui[u].held.id]_vars
    <2> SUFFICES ASSUME LogInv, Next, NEW u \in Users, ui[u].modal = "deleteConfirm",
                        ui'[u].step \in {"deleteRow", "deleteHistoryRow"}
                 PROVE  ui'[u].held.id = ui[u].held.id
        OBVIOUS
    <2>1. PICK v \in Users : Keeps(v)
        BY NextKeeps
    <2> QED BY <2>1 DEF Keeps, Deletes
<1> QED BY <1>1, LogInvAlways, PTL DEF Spec, DeletesWhatWasNamed

(* Nothing a Viewer does changes the database.                               *)
THEOREM WatchersNeverChange == Spec => WatchersOnlyWatch
<1>1. LogInv /\ [Next]_vars =>
        [\A u \in Users : ui[u].viewing /\ ui'[u] # ui[u] => db' = db]_vars
    <2> SUFFICES ASSUME LogInv, Next, NEW u \in Users, ui[u].viewing, ui'[u] # ui[u]
                 PROVE  db' = db
        OBVIOUS
    <2>1. PICK v \in Users : Keeps(v)
        BY NextKeeps
    <2> QED BY <2>1 DEF Keeps
<1> QED BY <1>1, LogInvAlways, PTL DEF Spec, WatchersOnlyWatch

-----------------------------------------------------------------------------
(* Who closed a session, if no statement gives up waiting for the lock.      *)

(* No session is closed from d to e.                                         *)
Ends(d, e) ==
    \A i \in DOMAIN e.sessions :
        IF i \in DOMAIN d.sessions
        THEN /\ e.sessions[i].status = d.sessions[i].status
             /\ e.sessions[i].closed_at = d.sessions[i].closed_at
        ELSE e.sessions[i].closed_at = NoUser

LEMMA SameSessionsEnds == ASSUME NEW d, NEW e, e.sessions = d.sessions PROVE Ends(d, e)
BY DEF Ends

LEMMA StationsEnds ==
    ASSUME NEW d, Sound(d), NEW cs
    PROVE  Ends(d, SaveNetStation(d, cs)) /\ Ends(d, RemoveSavedNetStation(d, cs))
BY DEF Ends, SaveNetStation, RemoveSavedNetStation, DeleteUnusedStations, Sound, TablesTypeOK,
       EmptyTables

LEMMA RenumberCheckInsEnds ==
    ASSUME NEW d, Sound(d), NEW i
    PROVE  Ends(d, RenumberCheckIns(d, i))
<1>1. RenumberCheckIns(d, i).sessions = d.sessions
    BY DEF RenumberCheckIns, Sound, TablesTypeOK, EmptyTables
<1> QED BY <1>1, SameSessionsEnds

LEMMA DeleteCheckInEnds ==
    ASSUME NEW d, Sound(d), NEW c
    PROVE  Ends(d, DeleteCheckIn(d, c))
<1>1. DeleteCheckIn(d, c).sessions = d.sessions
    BY DEF DeleteCheckIn, DeleteUnusedStations, RenumberCheckIns, RemoveCheckIns,
           Sound, TablesTypeOK, EmptyTables
<1> QED BY <1>1, SameSessionsEnds

LEMMA SetNetInstanceRoleCallsignEnds ==
    ASSUME NEW d, Sound(d), NEW i, NEW role, NEW cs
    PROVE  Ends(d, SetNetInstanceRoleCallsign(d, i, role, cs))
<1>1. \A k \in DOMAIN d.sessions : d.sessions[k] \in NetInstance
    BY DEF Sound, TablesTypeOK
<1> QED BY <1>1 DEF Ends, SetNetInstanceRoleCallsign, NetInstance, Sound, TablesTypeOK, EmptyTables

LEMMA CreateNetInstanceEnds ==
    ASSUME NEW d, Sound(d), NEW role, NEW cs
    PROVE  Ends(d, CreateNetInstance(d, role, cs))
<1>1. d.last_session + 1 \notin DOMAIN d.sessions
    BY DEF Sound, TablesTypeOK
<1> QED BY <1>1 DEF Ends, CreateNetInstance, WithRow, Sound, TablesTypeOK, EmptyTables

LEMMA DeleteNetInstanceEnds ==
    ASSUME NEW d, Sound(d), NEW i
    PROVE  Ends(d, DeleteNetInstance(d, i))
BY DEF Ends, DeleteNetInstance, DeleteUnusedStations, RemoveCheckIns, Restrict,
       Sound, TablesTypeOK, EmptyTables

LEMMA ApplyCheckInRoleDesignationEnds ==
    ASSUME NEW d, Sound(d), NEW i, NEW c, NEW old_role, NEW new_role, NEW callsign \in Callsigns
    PROVE  Ends(d, ApplyCheckInRoleDesignation(d, i, c, old_role, new_role, callsign))
<1> DEFINE freed == SetNetInstanceRoleCallsign(d, i, old_role, NoCall)
           taken == ClearCheckInRoleForInstance(freed, i, new_role, c)
           given == SetNetInstanceRoleCallsign(taken, i, new_role, callsign)
<1>1. Sound(freed) /\ Sound(taken) /\ Ends(d, freed)
    BY SetNetInstanceRoleCallsignAdvances, ClearCheckInRoleForInstanceAdvances,
       SetNetInstanceRoleCallsignEnds DEF Advances
<1>2. DOMAIN freed.sessions = DOMAIN d.sessions
    BY DEF SetNetInstanceRoleCallsign, Sound, TablesTypeOK, EmptyTables
<1> HIDE DEF freed
<1>3. taken.sessions = freed.sessions
    BY <1>1 DEF ClearCheckInRoleForInstance, Sound, TablesTypeOK, EmptyTables
<1> HIDE DEF taken
<1>4. Ends(taken, given) /\ DOMAIN given.sessions = DOMAIN taken.sessions
    BY <1>1, SetNetInstanceRoleCallsignEnds
    DEF SetNetInstanceRoleCallsign, Sound, TablesTypeOK, EmptyTables
<1> HIDE DEF given
<1>5. Ends(d, given)
    BY <1>1, <1>2, <1>3, <1>4 DEF Ends
<1> QED BY <1>1, <1>5, SameSessionsEnds
        DEF ApplyCheckInRoleDesignation, freed, taken, given

(* On a session, or starting one, but not the one closing it.                *)
On(s) ==
    /\ s.page = "activeNet" \/ s.prompt = "sessionClosed" \/ s.step \in {"saveOperator", "addOperator"}
    /\ s.step # "renumberThenLeave"

Untold(s, d, u) ==
    On(s) /\ s.active \in DOMAIN d.sessions => d.sessions[s.active].closed_at # u

OpenNotEnded(d) == \A i \in DOMAIN d.sessions : IsOpen(d, i) => d.sessions[i].closed_at = NoUser

(* The inductive invariant: nobody is on a session they closed themselves,   *)
(* and a task is posted for a session.                                       *)
ClosingInv ==
    /\ LogInv
    /\ OpenNotEnded(db)
    /\ \A u \in Users : Untold(ui[u], db, u)
    /\ \A u \in Users : \A task \in tasks[u] : task.session # 0

(* What a step leaves of it beside LogInv.                                   *)
Leaves ==
    /\ OpenNotEnded(db')
    /\ \A v \in Users : Untold(ui'[v], db', v)

(* A step that closes no session, and goes on to none ...                    *)
LEMMA EndsLeaves ==
    ASSUME ClosingInv, NEW u \in Users, NEW s, Becomes(u, s), Ends(db, db'),
           On(s) => On(ui[u]) /\ s.active = ui[u].active
    PROVE  Leaves
<1>1. OpenNotEnded(db')
    BY DEF ClosingInv, OpenNotEnded, Ends, IsOpen
<1>2. DOMAIN ui = Users /\ ui'[u] = s /\ \A v \in Users \ {u} : ui'[v] = ui[v]
    BY LogInvParts DEF ClosingInv, Becomes
<1>3. ASSUME NEW v \in Users PROVE Untold(ui'[v], db', v)
    <2>1. /\ On(ui'[v]) => On(ui[v]) /\ ui'[v].active = ui[v].active
          /\ Untold(ui[v], db, v) /\ v # NoUser
        BY <1>2, NoValuesDistinct DEF ClosingInv
    <2> QED BY <2>1 DEF Untold, Ends
<1> QED BY <1>1, <1>3 DEF Leaves

(* ... or to an open one.                                                    *)
LEMMA JoinsLeaves ==
    ASSUME ClosingInv, NEW u \in Users, NEW s, Becomes(u, s), Ends(db, db'),
           IsOpen(db', s.active)
    PROVE  Leaves
<1>1. OpenNotEnded(db')
    BY DEF ClosingInv, OpenNotEnded, Ends, IsOpen
<1>2. DOMAIN ui = Users /\ ui'[u] = s /\ \A v \in Users \ {u} : ui'[v] = ui[v]
    BY LogInvParts DEF ClosingInv, Becomes
<1>3. ASSUME NEW v \in Users PROVE Untold(ui'[v], db', v)
    <2>1. CASE v = u
        BY <1>1, <1>2, <2>1, NoValuesDistinct DEF Untold, OpenNotEnded, IsOpen
    <2>2. CASE v # u
        <3>1. Untold(ui[v], db, v) /\ ui'[v] = ui[v] /\ v # NoUser
            BY <1>2, <2>2, NoValuesDistinct DEF ClosingInv
        <3> QED BY <3>1 DEF Untold, Ends
    <2> QED BY <2>1, <2>2
<1> QED BY <1>1, <1>3 DEF Leaves

(* Who closes a session is off it in the same step.                          *)
LEMMA ClosesLeaves ==
    ASSUME ClosingInv, NEW u \in Users, NEW s, Becomes(u, s), NEW i,
           db' = MarkClosed(db, i, u), ~On(s) \/ (~IsOpen(db, i) /\ On(ui[u]) /\ s.active = ui[u].active)
    PROVE  Leaves
<1>1. CASE ~IsOpen(db, i)
    BY <1>1, EndsLeaves DEF MarkClosed, ClosesHere, Ends
<1>2. CASE IsOpen(db, i)
    <2>1. Sound(db) /\ \A k \in DOMAIN db.sessions : db.sessions[k] \in NetInstance
        BY LogInvParts DEF ClosingInv, Sound, TablesTypeOK
    <2>2. /\ DOMAIN db'.sessions = DOMAIN db.sessions
          /\ db'.sessions[i].status = "closed" /\ db'.sessions[i].closed_at = u
          /\ \A k \in DOMAIN db.sessions : k # i => db'.sessions[k] = db.sessions[k]
        BY <1>2, <2>1 DEF MarkClosed, ClosesHere, IsOpen, NetInstance, Sound, TablesTypeOK, EmptyTables
    <2>3. OpenNotEnded(db')
        BY <2>2 DEF ClosingInv, OpenNotEnded, IsOpen
    <2>4. DOMAIN ui = Users /\ ui'[u] = s /\ \A v \in Users \ {u} : ui'[v] = ui[v]
        BY LogInvParts DEF ClosingInv, Becomes
    <2>5. ASSUME NEW v \in Users PROVE Untold(ui'[v], db', v)
        <3>1. CASE v = u
            BY <1>2, <2>4, <3>1 DEF Untold
        <3>2. CASE v # u
            <4>1. Untold(ui[v], db, v) /\ ui'[v] = ui[v]
                BY <2>4, <3>2 DEF ClosingInv
            <4> QED BY <2>2, <3>2, <4>1 DEF Untold
        <3> QED BY <3>1, <3>2
    <2> QED BY <2>3, <2>5 DEF Leaves
<1> QED BY <1>1, <1>2

LEMMA ClosingInvParts ==
    ASSUME ClosingInv, NEW u \in Users
    PROVE  /\ LogInv /\ Sound(db) /\ AppStateOK(ui[u], db) /\ Fit(ui[u], db)
           /\ DOMAIN ui = Users /\ DOMAIN ui[u] = DOMAIN NetListPage
           /\ Ends(db, db)
BY LogInvParts, SameSessionsEnds DEF ClosingInv

LEMMA JoinOpenSessionLeaves ==
    ASSUME ClosingInv, NEW u \in Users, NEW i, NEW viewing, UNCHANGED db,
           Becomes(u, JoinOpenSession(ui[u], i, viewing))
    PROVE  Leaves
<1>1. DOMAIN ui[u] = DOMAIN NetListPage /\ Ends(db, db')
    BY ClosingInvParts
<1> DEFINE s == JoinOpenSession(ui[u], i, viewing)
<1>2. CASE IsOpen(db, i)
    <2>1. s.active = i
        BY <1>1, <1>2 DEF JoinOpenSession, RefreshActiveCheckIns, NoModal, CancelConfirmPrompt,
                          NetListPage
    <2>2. IsOpen(db', s.active)
        BY <1>2, <2>1
    <2> HIDE DEF s
    <2> QED BY <1>1, <2>2, JoinsLeaves DEF s
<1>3. CASE ~IsOpen(db, i)
    <2>1. On(s) => On(ui[u]) /\ s.active = ui[u].active
        BY <1>1, <1>3 DEF JoinOpenSession, CancelConfirmPrompt, On, NetListPage
    <2> HIDE DEF s
    <2> QED BY <1>1, <2>1, EndsLeaves DEF s
<1> QED BY <1>2, <1>3

(* The keys of the net list and the role page.                               *)
LEMMA NetListLeaves ==
    ASSUME ClosingInv, NEW u \in Users,
           \/ StartSelectedNet(u)
           \/ \E viewing \in BOOLEAN : AnswerResumePrompt(u, viewing)
           \/ CancelPrompt(u)
           \/ RoleBack(u)
           \/ ChooseViewer(u)
    PROVE  Leaves
<1>1. DOMAIN ui[u] = DOMAIN NetListPage /\ Ends(db, db) /\ UNCHANGED db
    BY ClosingInvParts DEF StartSelectedNet, ViewStartNet, AnswerResumePrompt, CancelPrompt, RoleBack,
                           ChooseViewer
<1>2. CASE \E i, viewing : Becomes(u, JoinOpenSession(ui[u], i, viewing))
    BY <1>1, <1>2, JoinOpenSessionLeaves
<1>3. CASE OnPage(u, "netList") \/ OnPage(u, "role")
    <2> DEFINE asked == [ui[u] EXCEPT !.prompt = "resumeNet", !.other = NewestOpenSession,
                                      !.other_open = TRUE]
               role == [ui[u] EXCEPT !.page = "role"]
               back == [ui[u] EXCEPT !.page = "netList"]
    <2>1. ~On(asked) /\ ~On(role) /\ ~On(back)
        BY <1>1, <1>3 DEF OnPage, On, NetListPage
    <2>2. \/ \E i, viewing : Becomes(u, JoinOpenSession(ui[u], i, viewing))
          \/ Becomes(u, asked) \/ Becomes(u, role) \/ Becomes(u, back)
        BY <1>3 DEF OnPage, AtPrompt, StartSelectedNet, ViewStartNet, AnswerResumePrompt, CancelPrompt,
                    RoleBack, ChooseViewer
    <2> HIDE DEF asked, role, back
    <2> QED BY <1>1, <1>2, <2>1, <2>2, EndsLeaves
<1>4. CASE CancelPrompt(u)
    <2> DEFINE s == CancelConfirmPrompt(ui[u])
    <2>1. On(s) => On(ui[u]) /\ s.active = ui[u].active
        BY <1>1 DEF CancelConfirmPrompt, On, NetListPage
    <2> HIDE DEF s
    <2> QED BY <1>1, <1>4, <2>1, EndsLeaves DEF CancelPrompt, s
<1> QED BY <1>2, <1>3, <1>4
        DEF StartSelectedNet, AnswerResumePrompt, RoleBack, ChooseViewer

(* Closing a session: from its page or from the prompt to resume it.         *)
LEMMA ClosersLeave ==
    ASSUME ClosingInv, NEW u \in Users, CloseOpenNetAndStartNew(u) \/ CloseActiveNet(u)
    PROVE  Leaves
<1>1. DOMAIN ui[u] = DOMAIN NetListPage /\ AppStateTypeOK(ui[u], db) /\ ui[u].step = "idle"
    BY ClosingInvParts DEF AppStateOK, CloseOpenNetAndStartNew, CloseActiveNet, AtPrompt
<1>2. CASE CloseOpenNetAndStartNew(u)
    <2> DEFINE closing == [ui[u] EXCEPT !.prompt = "none", !.other_open = FALSE,
                                        !.step = "renumberThenStart"]
               role == [CancelConfirmPrompt(ui[u]) EXCEPT !.page = "role"]
    <2>1. ui[u].page = "netList"
        BY <1>1, <1>2 DEF CloseOpenNetAndStartNew, AtPrompt, AppStateTypeOK
    <2>2. ~On(closing) /\ ~On(role)
        BY <1>1, <2>1 DEF On, CancelConfirmPrompt, NetListPage
    <2>3. db' = MarkClosed(db, ui[u].other, u) /\ (Becomes(u, closing) \/ Becomes(u, role))
        BY <1>2 DEF CloseOpenNetAndStartNew
    <2> HIDE DEF closing, role
    <2> QED BY <2>2, <2>3, ClosesLeaves
<1>3. CASE CloseActiveNet(u)
    <2> DEFINE closing == [ui[u] EXCEPT !.prompt = "none", !.step = "renumberThenLeave"]
               told == ShowSessionClosedPrompt(ui[u])
    <2>1. ui[u].page = "activeNet"
        BY <1>1, <1>3 DEF CloseActiveNet, AtPrompt, AppStateTypeOK
    <2>2. ~On(closing) /\ On(ui[u]) /\ told.active = ui[u].active
        BY <1>1, <2>1 DEF On, ShowSessionClosedPrompt, NoModal, CancelConfirmPrompt, NetListPage
    <2>3. /\ db' = MarkClosed(db, ui[u].active, u)
          /\ Becomes(u, closing) \/ (Becomes(u, told) /\ ~IsOpen(db, ui[u].active))
        BY <1>3 DEF CloseActiveNet, ClosesHere
    <2> HIDE DEF closing, told
    <2> QED BY <2>2, <2>3, ClosesLeaves
<1> QED BY <1>2, <1>3

(* Starting one, in three statements.                                        *)
LEMMA StartersLeave ==
    ASSUME ClosingInv, NEW u \in Users,
           \/ \E role \in Roles : OperatorCallsignSubmit(u, role)
           \/ SaveOperatorStation(u)
           \/ AddOperatorCheckIn(u)
    PROVE  Leaves
<1>1. DOMAIN ui[u] = DOMAIN NetListPage /\ AppStateOK(ui[u], db) /\ Sound(db) /\ Ends(db, db)
      /\ Fit(ui[u], db)
    BY ClosingInvParts
<1>2. ASSUME NEW role \in Roles, OperatorCallsignSubmit(u, role)
      PROVE  Leaves
    <2> DEFINE s == [ui[u] EXCEPT !.active = db'.last_session, !.viewing = FALSE,
                                  !.step = "saveOperator",
                                  !.draft = [callsign |-> OperatorCallsign[u], role |-> role]]
    <2>1. db' = CreateNetInstance(db, role, OperatorCallsign[u]) /\ Becomes(u, s)
        BY <1>2 DEF OperatorCallsignSubmit
    <2>2. Ends(db, db')
        BY <1>1, <2>1, CreateNetInstanceEnds
    <2>3. IsOpen(db', db'.last_session)
        BY <1>1, <2>1 DEF CreateNetInstance, WithRow, IsOpen, Sound, TablesTypeOK, EmptyTables
    <2>4. s.active = db'.last_session
        BY <1>1 DEF NetListPage
    <2> HIDE DEF s
    <2> QED BY <2>1, <2>2, <2>3, <2>4, JoinsLeaves
<1>3. CASE SaveOperatorStation(u)
    <2> DEFINE s == [ui[u] EXCEPT !.step = "addOperator"]
    <2>1. On(s) => On(ui[u]) /\ s.active = ui[u].active
        BY <1>1, <1>3 DEF SaveOperatorStation, On, NetListPage
    <2>2. Becomes(u, s) /\ Ends(db, db')
        BY <1>1, <1>3, StationsEnds DEF SaveOperatorStation
    <2> HIDE DEF s
    <2> QED BY <2>1, <2>2, EndsLeaves
<1>4. CASE AddOperatorCheckIn(u)
    <2> DEFINE row == [session |-> ui[u].active, callsign |-> ui[u].draft.callsign, seq |-> 1,
                       role |-> ui[u].draft.role]
               rest == [ui[u] EXCEPT !.step = "idle", !.draft = NoDraft]
               s == [RefreshActiveCheckIns(rest, db') EXCEPT !.page = "activeNet"]
    <2>1. /\ On(s) => On(ui[u]) /\ s.active = ui[u].active
          /\ On(rest) => On(ui[u]) /\ rest.active = ui[u].active
        BY <1>1, <1>4 DEF AddOperatorCheckIn, RefreshActiveCheckIns, On, NetListPage
    <2>2. AddCheckIn(db, row).sessions = db.sessions
        BY <1>1 DEF AddCheckIn, Sound, TablesTypeOK, EmptyTables
    <2>3. \/ db' = AddCheckIn(db, row) /\ Becomes(u, s)
          \/ UNCHANGED db /\ Becomes(u, rest)
        BY <1>4 DEF AddOperatorCheckIn
    <2> HIDE DEF s, rest, row
    <2>4. Ends(db, db')
        BY <2>2, <2>3, SameSessionsEnds
    <2> QED BY <2>1, <2>3, <2>4, EndsLeaves
<1> QED BY <1>2, <1>3, <1>4

(* Windows over a session's page: the Net Closed window stays on it.         *)
LEMMA WindowsLeave ==
    ASSUME ClosingInv, NEW u \in Users,
           \/ OpenNewStationModal(u)
           \/ CancelModal(u)
           \/ \E callsign \in Callsigns, role \in Roles \cup {NoRole} :
                LogStationCheckIn(u, callsign, role)
           \/ \E c \in DOMAIN ui[u].shown :
                EditSelectedCheckIn(u, c) \/ FinishRowPick(u, c) \/ PickHistoryCheckIn(u, c)
           \/ StartRowPick(u)
           \/ RequestCloseActiveNet(u)
    PROVE  Leaves
<1>1. DOMAIN ui[u] = DOMAIN NetListPage /\ Ends(db, db)
    BY ClosingInvParts
<1> DEFINE Stays(s) == On(s) => On(ui[u]) /\ s.active = ui[u].active
<1>2. ASSUME NEW s, DOMAIN s = DOMAIN NetListPage, s.page = "activeNet", s.step = "idle",
             s.active = ui[u].active, ui[u].page = "activeNet", ui[u].step = "idle"
      PROVE  Stays(EnsureActiveSessionOpen(s))
    BY <1>2 DEF EnsureActiveSessionOpen, ShowSessionClosedPrompt, NoModal, CancelConfirmPrompt, On,
                NetListPage
<1>3. CASE OpenNewStationModal(u)
    <2> DEFINE s == [ui[u] EXCEPT !.modal = "newStation"]
    <2>1. /\ s.page = "activeNet" /\ s.step = "idle" /\ s.active = ui[u].active
          /\ ui[u].page = "activeNet" /\ ui[u].step = "idle" /\ DOMAIN s = DOMAIN NetListPage
        BY <1>1, <1>3 DEF OpenNewStationModal, Logging, OnPage, NetListPage
    <2>2. UNCHANGED db /\ Becomes(u, EnsureActiveSessionOpen(s))
        BY <1>3 DEF OpenNewStationModal
    <2> HIDE DEF s
    <2> QED BY <1>1, <1>2, <2>1, <2>2, EndsLeaves
<1>4. ASSUME NEW callsign \in Callsigns, NEW role \in Roles \cup {NoRole},
             LogStationCheckIn(u, callsign, role)
      PROVE  Leaves
    <2> DEFINE t == EnsureActiveSessionOpen(ui[u])
               s == [t EXCEPT !.step = "logCheckIn", !.draft = [callsign |-> callsign, role |-> role]]
    <2>1. UNCHANGED db /\ (Becomes(u, t) \/ Becomes(u, s))
        BY <1>4 DEF LogStationCheckIn
    <2>2. ui[u].page = "activeNet" /\ ui[u].step = "idle"
        BY <1>4 DEF LogStationCheckIn, Logging, OnPage
    <2>3. DOMAIN t = DOMAIN NetListPage /\ t.active = ui[u].active
        BY <1>1 DEF EnsureActiveSessionOpen, ShowSessionClosedPrompt, NoModal, CancelConfirmPrompt,
                    NetListPage
    <2>4. Stays(t) /\ On(ui[u])
        BY <1>1, <1>2, <2>2 DEF On
    <2> HIDE DEF t
    <2>5. Stays(s)
        BY <2>3, <2>4 DEF NetListPage
    <2> HIDE DEF s, Stays
    <2> QED BY <1>1, <2>1, <2>4, <2>5, EndsLeaves DEF Stays
<1>5. CASE CancelModal(u)
    <2> DEFINE s == NoModal(ui[u])
    <2>1. UNCHANGED db /\ Becomes(u, s) /\ Stays(s)
        BY <1>1, <1>5 DEF CancelModal, NoModal, On, NetListPage
    <2> HIDE DEF s
    <2> QED BY <1>1, <2>1, EndsLeaves
<1>6. ASSUME NEW c, EditSelectedCheckIn(u, c) \/ FinishRowPick(u, c) \/ PickHistoryCheckIn(u, c)
      PROVE  Leaves
    <2> DEFINE edit == OpenEditCheckInForm(ui[u], c)
               ask == OpenRowDeleteConfirm(ui[u], c)
    <2>1. UNCHANGED db /\ (Becomes(u, edit) \/ Becomes(u, ask))
        BY <1>6 DEF EditSelectedCheckIn, FinishRowPick, PickHistoryCheckIn
    <2>2. Stays(edit) /\ Stays(ask)
        BY <1>1 DEF OpenEditCheckInForm, OpenRowDeleteConfirm, On, NetListPage
    <2> HIDE DEF edit, ask
    <2> QED BY <1>1, <2>1, <2>2, EndsLeaves
<1>7. CASE StartRowPick(u) \/ RequestCloseActiveNet(u)
    <2> DEFINE pick == [ui[u] EXCEPT !.modal = "rowPick"]
               ask == [ui[u] EXCEPT !.prompt = "closeNet"]
    <2>1. UNCHANGED db /\ (Becomes(u, pick) \/ Becomes(u, ask))
        BY <1>7 DEF StartRowPick, RequestCloseActiveNet
    <2>2. Stays(pick) /\ Stays(ask)
        BY <1>1 DEF On, NetListPage
    <2> HIDE DEF pick, ask
    <2> QED BY <1>1, <2>1, <2>2, EndsLeaves
<1> QED BY <1>3, <1>4, <1>5, <1>6, <1>7

(* Logging, editing and deleting on a session's page.                        *)
LEMMA LoggersLeave ==
    ASSUME ClosingInv, NEW u \in Users,
           \/ \E continue \in BOOLEAN : LogStationTransaction(u, continue)
           \/ \E choice \in Roles \cup {NoRole} : SaveEditCheckInForm(u, choice)
           \/ ConfirmRowDelete(u) \/ DeleteRow(u)
    PROVE  Leaves
<1>1. DOMAIN ui[u] = DOMAIN NetListPage /\ Ends(db, db) /\ Sound(db) /\ AppStateOK(ui[u], db)
    BY ClosingInvParts
<1> DEFINE Stays(s) == On(s) => On(ui[u]) /\ s.active = ui[u].active
<1>2. ui[u].page = "activeNet" /\ ui[u].step # "renumberThenLeave"
    BY <1>1 DEF AppStateOK, AppStateTypeOK, LogStationTransaction, SaveEditCheckInForm,
                ConfirmRowDelete, DeleteRow, Logging, OnPage
<1>3. On(ui[u])
    BY <1>2 DEF On
<1>4. ASSUME NEW continue \in BOOLEAN, LogStationTransaction(u, continue)
      PROVE  Leaves
    <2> DEFINE row == [session |-> ui[u].active, callsign |-> ui[u].draft.callsign, seq |-> 0,
                       role |-> ui[u].draft.role]
               saved == SaveNetStation(db, row.callsign)
               added == AddCheckInAtNextSequence(saved, row)
               rest == [ui[u] EXCEPT !.step = "idle", !.draft = NoDraft]
               t == [rest EXCEPT !.modal = IF continue THEN "newStation" ELSE "none"]
               s == RefreshActiveCheckIns(t, db')
    <2>1. rest.active = ui[u].active /\ s.active = ui[u].active
        BY <1>1 DEF RefreshActiveCheckIns, NetListPage
    <2>2. CASE AlreadyLogged(db, ui[u].active, row.callsign) \/ ~ForeignKeysHold(saved, row)
        <3>1. UNCHANGED db /\ Becomes(u, rest)
            BY <1>4, <2>2 DEF LogStationTransaction
        <3> HIDE DEF rest
        <3> QED BY <1>1, <1>3, <2>1, <3>1, EndsLeaves
    <2>3. CASE ~AlreadyLogged(db, ui[u].active, row.callsign) /\ ForeignKeysHold(saved, row)
        <3>1. /\ db' = ApplyCheckInRoleDesignation(added, ui[u].active, added.last_check_in, NoRole,
                                                   row.role, row.callsign)
              /\ Becomes(u, s)
            BY <1>4, <2>3 DEF LogStationTransaction
        <3>2. row \in CheckIn /\ row.callsign \in Callsigns
            BY <1>1, <1>4 DEF LogStationTransaction, AppStateOK, AppStateTypeOK, CheckIn
        <3>3. Sound(saved)
            BY <1>1, <3>2, SaveNetStationAdvances DEF Advances
        <3>4. saved.sessions = db.sessions
            BY <1>1 DEF SaveNetStation, Sound, TablesTypeOK, EmptyTables
        <3> HIDE DEF saved
        <3>5. Sound(added)
            BY <2>3, <3>2, <3>3, AddCheckInAtNextSequenceAdvances DEF Advances
        <3>6. added.sessions = saved.sessions
            BY <3>3 DEF AddCheckInAtNextSequence, AddCheckIn, Sound, TablesTypeOK, EmptyTables
        <3> HIDE DEF added, row
        <3>7. Ends(added, db')
            BY <3>1, <3>2, <3>5, ApplyCheckInRoleDesignationEnds
        <3>8. Ends(db, db')
            BY <3>4, <3>6, <3>7 DEF Ends
        <3> HIDE DEF s
        <3> QED BY <1>3, <2>1, <3>1, <3>8, EndsLeaves
    <2> QED BY <2>2, <2>3
<1>5. ASSUME NEW choice \in Roles \cup {NoRole}, SaveEditCheckInForm(u, choice)
      PROVE  Leaves
    <2> DEFINE held == ui[u].held
               role == IF held.row.role \in RoleChoices(ui[u].active) THEN choice ELSE held.row.role
               row == [held.row EXCEPT !.role = role]
               updated == UpdateCheckIn(db, held.id, row)
               s == RefreshActiveCheckIns(NoModal(ui[u]), db')
    <2>1. /\ db' = ApplyCheckInRoleDesignation(updated, ui[u].active, held.id, held.row.role, role,
                                               held.row.callsign)
          /\ Becomes(u, s)
        BY <1>5 DEF SaveEditCheckInForm
    <2>2. /\ held \in [id : Nat, row : CheckIn] /\ held # NoCopy
          /\ choice \in RoleChoices(ui[u].active)
        BY <1>1, <1>5 DEF SaveEditCheckInForm, Logging, AppStateOK, AppStateTypeOK
    <2>3. /\ row \in CheckIn /\ held.row.callsign \in Callsigns
          /\ held.id \in DOMAIN db.check_ins => /\ row.session = db.check_ins[held.id].session
                                                /\ row.callsign = db.check_ins[held.id].callsign
        BY <1>1, <2>2 DEF CheckIn, AppStateOK, Traces
    <2>4. s.active = ui[u].active
        BY <1>1 DEF RefreshActiveCheckIns, NoModal, NetListPage
    <2> HIDE DEF row, role
    <2>5. Sound(updated) /\ updated.sessions = db.sessions
        BY <1>1, <2>3, UpdateCheckInAdvances
        DEF Advances, UpdateCheckIn, Sound, TablesTypeOK, EmptyTables
    <2> HIDE DEF updated, s
    <2>6. Ends(updated, db')
        BY <2>1, <2>3, <2>5, ApplyCheckInRoleDesignationEnds
    <2>7. Ends(db, db')
        BY <2>5, <2>6 DEF Ends
    <2> QED BY <1>3, <2>1, <2>4, <2>7, EndsLeaves
<1>6. CASE ConfirmRowDelete(u)
    <2>1. PICK s : /\ Becomes(u, s) /\ s.active = ui[u].active
                   /\ \/ UNCHANGED db
                      \/ \E i, role : db' = SetNetInstanceRoleCallsign(db, i, role, NoCall)
        <3>1. CASE Becomes(u, NoModal(ui[u])) /\ UNCHANGED db
            BY <1>1, <3>1 DEF NoModal, NetListPage
        <3>2. ASSUME NEW c \in Confirmed(ui[u]),
                     db' = SetNetInstanceRoleCallsign(db, ui[u].active, ui[u].shown[c].role, NoCall),
                     Becomes(u, [NoModal(ui[u]) EXCEPT !.step = "deleteRow",
                                                       !.held = Copy(ui[u].shown, c)])
              PROVE  \E s : /\ Becomes(u, s) /\ s.active = ui[u].active
                            /\ \E i, role : db' = SetNetInstanceRoleCallsign(db, i, role, NoCall)
            <4> DEFINE s == [NoModal(ui[u]) EXCEPT !.step = "deleteRow",
                                                   !.held = Copy(ui[u].shown, c)]
            <4>1. s.active = ui[u].active
                BY <1>1 DEF NoModal, NetListPage
            <4> HIDE DEF s
            <4> QED BY <3>2, <4>1 DEF s
        <3> QED BY <1>6, <3>1, <3>2 DEF ConfirmRowDelete
    <2>2. Ends(db, db')
        BY <1>1, <2>1, SetNetInstanceRoleCallsignEnds
    <2> QED BY <1>3, <2>1, <2>2, EndsLeaves
<1>7. CASE DeleteRow(u)
    <2> DEFINE s == RefreshActiveCheckIns([NoModal(ui[u]) EXCEPT !.step = "idle"], db')
    <2>1. s.active = ui[u].active
        BY <1>1 DEF RefreshActiveCheckIns, NoModal, NetListPage
    <2>2. Becomes(u, s) /\ Ends(db, db')
        BY <1>1, <1>7, DeleteCheckInEnds DEF DeleteRow
    <2> HIDE DEF s
    <2> QED BY <1>3, <2>1, <2>2, EndsLeaves
<1> QED BY <1>4, <1>5, <1>6, <1>7

(* Leaving a session, and History.                                           *)
LEMMA LeaversLeave ==
    ASSUME ClosingInv, NEW u \in Users,
           \/ LeaveClosedSession(u) \/ StopViewing(u)
           \/ \E i \in DOMAIN db.sessions : OpenHistory(u, i)
           \/ HistoryBack(u)
           \/ RenumberThenLeave(u) \/ RenumberThenStart(u)
           \/ Disconnect(u)
    PROVE  Leaves
<1>1. DOMAIN ui[u] = DOMAIN NetListPage /\ Ends(db, db) /\ Sound(db) /\ AppStateOK(ui[u], db)
    BY ClosingInvParts
<1>2. ASSUME NEW s, Becomes(u, s), ~On(s), Ends(db, db')
      PROVE  Leaves
    BY <1>2, EndsLeaves
<1>3. CASE LeaveClosedSession(u) \/ StopViewing(u)
    <2> DEFINE closed == [LeaveActiveNet(CancelConfirmPrompt(ui[u])) EXCEPT !.viewing = FALSE]
               left == [LeaveActiveNet(ui[u]) EXCEPT !.viewing = FALSE]
    <2>1. (Becomes(u, closed) \/ (Becomes(u, left) /\ OnPage(u, "activeNet"))) /\ UNCHANGED db
          /\ ui[u].step = "idle"
        BY <1>3 DEF LeaveClosedSession, StopViewing, AtPrompt, OnPage
    <2>2. ~On(closed) /\ (OnPage(u, "activeNet") => ~On(left))
        BY <1>1, <2>1 DEF OnPage, On, LeaveActiveNet, CancelConfirmPrompt, NoModal, NetListPage
    <2> HIDE DEF closed, left
    <2> QED BY <1>1, <1>2, <2>1, <2>2
<1>4. ASSUME NEW i \in DOMAIN db.sessions, OpenHistory(u, i)
      PROVE  Leaves
    <2> DEFINE log == GetCheckInsForNetInstance(db, i)
               open == IsOpen(db, i)
               s == [ui[u] EXCEPT !.page = "history", !.other = i, !.other_open = open, !.shown = log]
    <2>1. Becomes(u, s) /\ UNCHANGED db
        BY <1>4 DEF OpenHistory
    <2> HIDE DEF log, open
    <2>2. ~On(s)
        BY <1>1, <1>4 DEF OpenHistory, OnPage, On, NetListPage
    <2> HIDE DEF s
    <2> QED BY <1>1, <1>2, <2>1, <2>2
<1>5. CASE HistoryBack(u)
    <2> DEFINE s == LeaveHistory(ui[u])
    <2>1. Becomes(u, s) /\ UNCHANGED db /\ ~On(s)
        BY <1>1, <1>5 DEF HistoryBack, OnPage, On, LeaveHistory, NoModal, NetListPage
    <2> HIDE DEF s
    <2> QED BY <1>1, <1>2, <2>1
<1>6. CASE RenumberThenLeave(u)
    <2> DEFINE s == [LeaveActiveNet(ui[u]) EXCEPT !.step = "idle"]
    <2>1. ui[u].prompt = "none"
        BY <1>1, <1>6 DEF RenumberThenLeave, AppStateOK, AppStateTypeOK
    <2>2. ~On(s)
        BY <1>1, <2>1 DEF On, LeaveActiveNet, NoModal, NetListPage
    <2>3. Becomes(u, s) /\ Ends(db, db')
        BY <1>1, <1>6, RenumberCheckInsEnds DEF RenumberThenLeave
    <2> HIDE DEF s
    <2> QED BY <1>2, <2>2, <2>3
<1>7. CASE RenumberThenStart(u)
    <2> DEFINE s == [CancelConfirmPrompt(ui[u]) EXCEPT !.page = "role", !.step = "idle"]
    <2>1. ~On(s)
        BY <1>1 DEF On, CancelConfirmPrompt, NetListPage
    <2>2. Becomes(u, s) /\ Ends(db, db')
        BY <1>1, <1>7, RenumberCheckInsEnds DEF RenumberThenStart
    <2> HIDE DEF s
    <2> QED BY <1>2, <2>1, <2>2
<1>8. CASE Disconnect(u)
    <2>1. ~On(NetListPage) /\ Becomes(u, NetListPage) /\ UNCHANGED db
        BY <1>8 DEF Disconnect, On, NetListPage
    <2> QED BY <1>1, <1>2, <2>1
<1> QED BY <1>3, <1>4, <1>5, <1>6, <1>7, <1>8

(* Deleting on the History page, and the net's saved stations.               *)
LEMMA ManagersLeave ==
    ASSUME ClosingInv, NEW u \in Users,
           \/ DeleteSelectedHistoryCheckIn(u) \/ DeleteHistoryRow(u)
           \/ DeleteSelectedNetInstance(u)
           \/ \E callsign \in Callsigns : RemoveSelectedSavedNetStation(u, callsign)
    PROVE  Leaves
<1>1. DOMAIN ui[u] = DOMAIN NetListPage /\ Ends(db, db) /\ Sound(db) /\ AppStateOK(ui[u], db)
    BY ClosingInvParts
<1>2. ASSUME NEW s, Becomes(u, s), ~On(s), Ends(db, db')
      PROVE  Leaves
    BY <1>2, EndsLeaves
<1>3. ASSUME NEW c \in Confirmed(ui[u]), DeleteSelectedHistoryCheckIn(u),
             db' = SetNetInstanceRoleCallsign(db, ui[u].other, ui[u].shown[c].role, NoCall),
             Becomes(u, [NoModal(ui[u]) EXCEPT !.step = "deleteHistoryRow",
                                               !.held = Copy(ui[u].shown, c)])
      PROVE  Leaves
    <2> DEFINE s == [NoModal(ui[u]) EXCEPT !.step = "deleteHistoryRow",
                                           !.held = Copy(ui[u].shown, c)]
    <2>1. ~On(s)
        BY <1>1, <1>3 DEF DeleteSelectedHistoryCheckIn, OnPage, On, NoModal, NetListPage
    <2>2. Ends(db, db')
        BY <1>1, <1>3, SetNetInstanceRoleCallsignEnds
    <2> HIDE DEF s
    <2> QED BY <1>2, <1>3, <2>1, <2>2 DEF s
<1>4. CASE DeleteHistoryRow(u)
    <2> DEFINE t == [NoModal(ui[u]) EXCEPT !.step = "idle"]
               s == RefreshNetHistory(t, db')
    <2>1. /\ t.page = "history" /\ t.prompt = "none" /\ t.step = "idle"
          /\ DOMAIN t = DOMAIN NetListPage
        BY <1>1, <1>4 DEF DeleteHistoryRow, AppStateOK, AppStateTypeOK, NoModal, NetListPage
    <2>2. Becomes(u, s) /\ Ends(db, db')
        BY <1>1, <1>4, DeleteCheckInEnds DEF DeleteHistoryRow
    <2> HIDE DEF t
    <2>3. ~On(s)
        BY <2>1 DEF RefreshNetHistory, LeaveHistory, NoModal, On, NetListPage
    <2> HIDE DEF s
    <2> QED BY <1>2, <2>2, <2>3
<1>5. CASE DeleteSelectedNetInstance(u)
    <2> DEFINE s == LeaveHistory(ui[u])
    <2>1. ~On(s)
        BY <1>1, <1>5 DEF DeleteSelectedNetInstance, OnPage, LeaveHistory, NoModal, On, NetListPage
    <2>2. Becomes(u, s) /\ Ends(db, db')
        BY <1>1, <1>5, DeleteNetInstanceEnds DEF DeleteSelectedNetInstance
    <2> HIDE DEF s
    <2> QED BY <1>2, <2>1, <2>2
<1>6. ASSUME NEW callsign \in Callsigns, RemoveSelectedSavedNetStation(u, callsign)
      PROVE  Leaves
    <2>1. UNCHANGED ui /\ Ends(db, db')
        BY <1>1, <1>6, StationsEnds DEF RemoveSelectedSavedNetStation
    <2>2. OpenNotEnded(db')
        BY <2>1 DEF ClosingInv, OpenNotEnded, Ends, IsOpen
    <2>3. ASSUME NEW v \in Users PROVE Untold(ui'[v], db', v)
        BY <2>1, NoValuesDistinct DEF ClosingInv, Untold, Ends
    <2> QED BY <2>2, <2>3 DEF Leaves
<1> QED BY <1>3, <1>4, <1>5, <1>6 DEF DeleteSelectedHistoryCheckIn

(* The Net Closed window comes up over the session's own page.               *)
LEMMA RunAnyTaskLeaves ==
    ASSUME ClosingInv, NEW u \in Users, RunAnyTask(u)
    PROVE  Leaves
<1>1. PICK task \in tasks[u] : RunTask(u, task)
    BY DEF RunAnyTask
<1>2. /\ DOMAIN ui[u] = DOMAIN NetListPage /\ Ends(db, db) /\ AppStateOK(ui[u], db)
      /\ task.session # 0 /\ ui[u].step = "idle" /\ UNCHANGED db
    BY <1>1, ClosingInvParts DEF ClosingInv, RunTask
<1> DEFINE closed == EnsureActiveSessionOpen(ui[u])
           fresh == RefreshActiveCheckIns(ui[u], db)
           s == IF task.kind = "sessionClosed"
                THEN SessionClosedTask(ui[u], task.session)
                ELSE RefreshActiveCheckInsFromOthers(ui[u], task.session)
<1>3. Becomes(u, s)
    BY <1>1 DEF RunTask
<1>4. /\ closed.active = ui[u].active /\ fresh.active = ui[u].active
      /\ On(fresh) => On(ui[u])
    BY <1>2 DEF EnsureActiveSessionOpen, ShowSessionClosedPrompt, NoModal, CancelConfirmPrompt,
                RefreshActiveCheckIns, On, NetListPage
<1>5. s = ui[u] \/ s = fresh \/ (s = closed /\ ui[u].watched = task.session)
    BY DEF SessionClosedTask, RefreshActiveCheckInsFromOthers
<1>6. ui[u].watched = task.session => On(ui[u])
    BY <1>2 DEF On, AppStateOK, AppStateTypeOK
<1> HIDE DEF closed, fresh, s
<1> QED BY <1>2, <1>3, <1>4, <1>5, <1>6, EndsLeaves

LEMMA NextLeaves ==
    ASSUME ClosingInv, Next, StatementsFail = FALSE
    PROVE  Leaves
<1>1. PICK u \in Users : \/ Key(u) \/ Continue(u) \/ CheckWatchedSession(u)
                         \/ RunAnyTask(u) \/ StatementFails(u) \/ Disconnect(u)
    BY DEF Next
<1>2. CASE Key(u)
    <2>1. CASE \/ StartSelectedNet(u)
               \/ \E viewing \in BOOLEAN : AnswerResumePrompt(u, viewing)
               \/ CancelPrompt(u)
               \/ CloseOpenNetAndStartNew(u)
               \/ RoleBack(u)
               \/ ChooseViewer(u)
               \/ \E role \in Roles : OperatorCallsignSubmit(u, role)
        BY <2>1, NetListLeaves, ClosersLeave, StartersLeave
    <2>2. CASE \/ OpenNewStationModal(u)
               \/ CancelModal(u)
               \/ \E callsign \in Callsigns, role \in Roles \cup {NoRole} :
                    LogStationCheckIn(u, callsign, role)
        BY <2>2, WindowsLeave
    <2>3. CASE \/ \E c \in DOMAIN ui[u].shown : EditSelectedCheckIn(u, c)
               \/ StartRowPick(u)
               \/ \E c \in DOMAIN ui[u].shown : FinishRowPick(u, c)
               \/ \E c \in DOMAIN ui[u].shown : PickHistoryCheckIn(u, c)
        BY <2>3, WindowsLeave
    <2>4. CASE \/ \E choice \in Roles \cup {NoRole} : SaveEditCheckInForm(u, choice)
               \/ ConfirmRowDelete(u) \/ DeleteSelectedHistoryCheckIn(u)
        BY <2>4, LoggersLeave, ManagersLeave
    <2>5. CASE \/ RequestCloseActiveNet(u) \/ CloseActiveNet(u)
               \/ LeaveClosedSession(u) \/ StopViewing(u)
        BY <2>5, WindowsLeave, ClosersLeave, LeaversLeave
    <2>6. CASE \/ \E i \in DOMAIN db.sessions : OpenHistory(u, i)
               \/ HistoryBack(u)
               \/ DeleteSelectedNetInstance(u)
               \/ \E callsign \in Callsigns : RemoveSelectedSavedNetStation(u, callsign)
        BY <2>6, LeaversLeave, ManagersLeave
    <2> QED BY <1>2, <2>1, <2>2, <2>3, <2>4, <2>5, <2>6 DEF Key
<1>3. CASE Continue(u)
    BY <1>3, LeaversLeave, StartersLeave, LoggersLeave, ManagersLeave DEF Continue
<1>4. CASE CheckWatchedSession(u)
    <2>1. UNCHANGED <<db, ui>>
        BY <1>4 DEF CheckWatchedSession
    <2> QED BY <2>1 DEF ClosingInv, Leaves
<1>5. CASE RunAnyTask(u)
    BY <1>5, RunAnyTaskLeaves
<1>6. CASE StatementFails(u) \/ Disconnect(u)
    BY <1>6, LeaversLeave DEF StatementFails
<1> QED BY <1>1, <1>2, <1>3, <1>4, <1>5, <1>6

(* Only the poll posts, and only for the session it watches.                 *)
LEMMA TasksForSessions ==
    ASSUME ClosingInv, Next
    PROVE  \A u \in Users : \A task \in tasks'[u] : task.session # 0
<1>1. DOMAIN tasks = Users
    BY InvParts DEF ClosingInv, LogInv, TasksTypeOK
<1>2. PICK u \in Users : \/ Key(u) \/ Continue(u) \/ CheckWatchedSession(u)
                         \/ RunAnyTask(u) \/ StatementFails(u) \/ Disconnect(u)
    BY DEF Next
<1>3. CASE CheckWatchedSession(u)
    <2>1. PICK kind : tasks' = [tasks EXCEPT ![u] = @ \cup {[kind |-> kind, session |-> ui[u].watched]}]
        BY <1>3 DEF CheckWatchedSession, Task
    <2>2. ui[u].watched # 0
        BY <1>3 DEF CheckWatchedSession
    <2> QED BY <1>1, <2>1, <2>2 DEF ClosingInv
<1>4. CASE RunAnyTask(u)
    BY <1>1, <1>4 DEF ClosingInv, RunAnyTask, RunTask
<1>5. CASE Disconnect(u)
    BY <1>1, <1>5 DEF ClosingInv, Disconnect
<1>6. CASE StatementFails(u) \/ Continue(u)
    BY <1>6 DEF ClosingInv, StatementFails, Continue, RenumberThenStart, SaveOperatorStation,
                AddOperatorCheckIn, LogStationTransaction, DeleteRow, RenumberThenLeave,
                DeleteHistoryRow
<1>7. CASE Key(u)
    <2>1. UNCHANGED tasks
        BY <1>7 DEF Key, StartSelectedNet, ViewStartNet, AnswerResumePrompt, CancelPrompt,
                    CloseOpenNetAndStartNew, RoleBack, ChooseViewer, OperatorCallsignSubmit,
                    OpenNewStationModal, CancelModal, LogStationCheckIn, EditSelectedCheckIn,
                    StartRowPick, FinishRowPick, SaveEditCheckInForm, ConfirmRowDelete,
                    RequestCloseActiveNet, CloseActiveNet, LeaveClosedSession, StopViewing,
                    OpenHistory, HistoryBack, PickHistoryCheckIn, DeleteSelectedHistoryCheckIn,
                    DeleteSelectedNetInstance, RemoveSelectedSavedNetStation
    <2> QED BY <2>1 DEF ClosingInv
<1> QED BY <1>2, <1>3, <1>4, <1>5, <1>6, <1>7

LEMMA InitClosingInv == Init => ClosingInv
<1>1. \A u : Untold(NetListPage, EmptyTables, u)
    BY DEF Untold, EmptyTables
<1> QED BY <1>1, InitLogInv DEF Init, ClosingInv, OpenNotEnded, EmptyTables

(* The operator who closed a session never gets the window saying that       *)
(* another user closed it: unless a statement of theirs gives up after the   *)
(* UPDATE, they are off its page before the next posted task runs.           *)
THEOREM CloserIsNeverTold ==
    ASSUME StatementsFail = FALSE
    PROVE  Spec => []CloserNeverTold
<1>1. ClosingInv /\ [Next]_vars => ClosingInv'
    <2>1. ASSUME ClosingInv, Next PROVE ClosingInv'
        <3>1. LogInv' /\ Leaves /\ \A u \in Users : \A task \in tasks'[u] : task.session # 0
            BY <2>1, NextKeepsLogInv, NextLeaves, TasksForSessions DEF ClosingInv
        <3> QED BY <3>1 DEF ClosingInv, Leaves, OpenNotEnded, Untold, IsOpen, On
    <2>2. ASSUME ClosingInv, UNCHANGED vars PROVE ClosingInv'
        BY <2>2, StutterKeepsLogInv DEF ClosingInv, vars
    <2> QED BY <2>1, <2>2
<1>2. ClosingInv => CloserNeverTold
    <2> SUFFICES ASSUME ClosingInv, NEW u \in Users, ui[u].prompt = "sessionClosed"
                 PROVE  \/ ui[u].active \notin DOMAIN db.sessions
                        \/ db.sessions[ui[u].active].closed_at # u
        BY DEF CloserNeverTold
    <2>1. ui[u].step # "renumberThenLeave"
        BY ClosingInvParts DEF AppStateOK, AppStateTypeOK
    <2> QED BY <2>1 DEF ClosingInv, Untold, On
<1> QED BY <1>1, <1>2, InitClosingInv, PTL DEF Spec

=============================================================================
