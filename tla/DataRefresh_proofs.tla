------------------------- MODULE DataRefresh_proofs -------------------------
(***************************************************************************)
(* What holds of the refresh of station data however many instances look   *)
(* after one database, and whatever is stopped, killed or throws: types in  *)
(* any case, and that a request stands; and as long as no live refresh goes *)
(* without a heartbeat for too long, one refresh runs at a time, and what is *)
(* recorded as complete is.                                                *)
(***************************************************************************)
EXTENDS DataRefresh, TLAPS, FiniteSetTheorems

-----------------------------------------------------------------------------
(* The dataset a refresh is at is one of its plan.                           *)

IsFirstOf(plan, k) == DatasetOrder[k] \in plan /\ \A j \in 1..(k - 1) : DatasetOrder[j] \notin plan

LEMMA FirstExists ==
    ASSUME NEW plan \in SUBSET Datasets, plan # {}
    PROVE  \E k \in 1..6 : IsFirstOf(plan, k)
<1> DEFINE In(k) == DatasetOrder[k] \in plan
<1>1. \E k \in 1..6 : In(k)
    BY RefreshAssumption
<1>2. 1..6 = {1, 2, 3, 4, 5, 6}
    OBVIOUS
<1> HIDE DEF In
<1>3. \E k \in 1..6 : In(k) /\ \A j \in 1..(k - 1) : ~In(j)
    <2>1. CASE In(1)
        BY <2>1
    <2>2. CASE ~In(1) /\ In(2)
        BY <2>2
    <2>3. CASE ~In(1) /\ ~In(2) /\ In(3)
        BY <2>3
    <2>4. CASE ~In(1) /\ ~In(2) /\ ~In(3) /\ In(4)
        BY <2>4
    <2>5. CASE ~In(1) /\ ~In(2) /\ ~In(3) /\ ~In(4) /\ In(5)
        BY <2>5
    <2>6. CASE ~In(1) /\ ~In(2) /\ ~In(3) /\ ~In(4) /\ ~In(5) /\ In(6)
        BY <2>6
    <2> QED BY <1>1, <1>2, <2>1, <2>2, <2>3, <2>4, <2>5, <2>6
<1> QED BY <1>3 DEF In, IsFirstOf

LEMMA SetOfIs ==
    ASSUME NEW p \in Instances, updater[p].plan \in SUBSET Datasets, updater[p].plan # {}
    PROVE  SetOf(p) \in updater[p].plan /\ SetOf(p) \in Datasets
<1> DEFINE k == CHOOSE k \in 1..6 : IsFirstOf(updater[p].plan, k)
<1>1. IsFirstOf(updater[p].plan, k)
    BY FirstExists
<1>2. SetOf(p) = DatasetOrder[k]
    BY DEF SetOf, IsFirstOf
<1> HIDE DEF k
<1> QED BY <1>1, <1>2 DEF IsFirstOf

-----------------------------------------------------------------------------
(* Ranks.                                                                    *)

Before(stamps, t) == {s \in stamps : s < t}

LEMMA RankIs ==
    ASSUME NEW stamps, IsFiniteSet(stamps), stamps \subseteq Nat, NEW t \in stamps
    PROVE  Cardinality(Before(stamps, t)) \in Nat
           /\ Cardinality(Before(stamps, t)) <= Cardinality(stamps) /\ Cardinality(stamps) \in Nat
<1>1. Before(stamps, t) \subseteq stamps
    BY DEF Before
<1> QED BY <1>1, FS_Subset, FS_CardinalityType

(* Ranks are in the order of what they are the ranks of.                     *)
LEMMA RanksInOrder ==
    ASSUME NEW stamps, IsFiniteSet(stamps), stamps \subseteq Nat, NEW t \in stamps, NEW u \in stamps
    PROVE  Cardinality(Before(stamps, t)) < Cardinality(Before(stamps, u)) <=> t < u
<1>1. IsFiniteSet(Before(stamps, t)) /\ IsFiniteSet(Before(stamps, u))
    BY FS_Subset DEF Before
<1> \A s \in stamps : s \in Nat
    OBVIOUS
<1>2. CASE t < u
    <2>1. ASSUME NEW s \in stamps, s < t PROVE s < u
        <3>1. s \in Nat /\ t \in Nat /\ u \in Nat
            OBVIOUS
        <3> QED BY <1>2, <2>1, <3>1
    <2>3. Before(stamps, t) \subseteq Before(stamps, u)
        BY <2>1 DEF Before
    <2>2. t \in Before(stamps, u) /\ t \notin Before(stamps, t)
        BY <1>2 DEF Before
    <2> QED BY <1>1, <1>2, <2>3, <2>2, FS_Subset, FS_CardinalityType
<1>3. CASE ~(t < u)
    <2>1. ASSUME NEW s \in stamps, s < u PROVE s < t
        <3>1. s \in Nat /\ t \in Nat /\ u \in Nat
            OBVIOUS
        <3> QED BY <1>3, <2>1, <3>1
    <2>2. Before(stamps, u) \subseteq Before(stamps, t)
        BY <2>1 DEF Before
    <2> QED BY <1>1, <1>3, <2>2, FS_Subset, FS_CardinalityType
<1> QED BY <1>2, <1>3

-----------------------------------------------------------------------------
(* Types.                                                                    *)

(* One instance's updater goes on to r.                                      *)
LEMMA GoesIs ==
    ASSUME TypeOK, NEW p \in Instances, NEW r \in Refresh, Goes(p, r)
    PROVE  /\ updater' \in [Instances -> Refresh] /\ updater'[p] = r
           /\ \A q \in Instances : q # p => updater'[q] = updater[q]
BY DEF TypeOK, Goes

(* Steps that leave what they do not touch of the types alone.               *)
LEMMA TypeKept ==
    ASSUME TypeOK, NEW p \in Instances, NEW r \in Refresh, Goes(p, r),
           r.at \in {"planned", "claiming", "claimed", "fetching", "writing", "loaded"}
               => r.plan # {},
           UNCHANGED clock, job' \in JobRow, rows' \in [Datasets -> DatasetRow],
           content' \in [Datasets -> {"empty", "mixed", "whole"}], cuts' \in 0..MaxCuts
    PROVE  TypeOK'
BY GoesIs DEF TypeOK

LEMMA Numbers ==
    /\ StaleAfter \in Nat /\ RetryAfter \in Nat /\ RenewAfter \in Nat /\ MaxCuts \in Nat
    /\ 0 \in 0..(StaleAfter + 1) /\ StaleAfter + 1 \in 0..(StaleAfter + 1)
    /\ 0 \in 0..RetryAfter /\ RetryAfter \in 0..RetryAfter
    /\ 0 \in 0..(RenewAfter + 1) /\ RenewAfter + 1 \in 0..(RenewAfter + 1)
BY RefreshAssumption

LEMMA OffIs == Off \in Refresh /\ Waiting \in Refresh
               /\ \A b \in BOOLEAN : [Waiting EXCEPT !.stop = b] \in Refresh
                                     /\ [Waiting EXCEPT !.stop = b].at = "waiting"
BY Numbers DEF Off, Waiting, Refresh, Steps

LEMMA InitTypes == Init => TypeOK
<1> SUFFICES ASSUME Init PROVE TypeOK
    OBVIOUS
<1>1. job \in JobRow /\ rows \in [Datasets -> DatasetRow] /\ cuts \in 0..MaxCuts
    BY Numbers DEF Init, JobRow, DatasetRow
<1> QED BY <1>1, OffIs DEF Init, TypeOK, Off

LEMMA OlderIs ==
    ASSUME NEW most \in Nat, NEW age \in 0..most
    PROVE  Older(age, most) \in 0..most /\ Older(age, most) >= age
           /\ (age < most => Older(age, most) <= age + 1)
BY DEF Older

LEMMA BeatsIs ==
    ASSUME TypeOK, Beats
    PROVE  /\ job' \in JobRow /\ job'.heartbeat = 0 /\ job'.status = job.status
           /\ job'.started = job.started /\ job'.requested = job.requested
BY Numbers DEF TypeOK, Beats, JobRow

(* Time goes by: how each time changes.                                      *)
Stamps == {job.started, job.requested} \cup {updater[p].started : p \in Instances}
Rank(t) == Cardinality(Before(Stamps, t))

LEMMA StampsAre ==
    ASSUME TypeOK
    PROVE  IsFiniteSet(Stamps) /\ Stamps \subseteq Nat /\ Cardinality(Stamps) \in Nat
<1>1. IsFiniteSet({updater[p].started : p \in Instances})
    <2> DEFINE S == {updater[p].started : p \in Instances}
               f == [p \in Instances |-> updater[p].started]
    <2>1. f \in Surjection(Instances, S)
        BY DEF Surjection
    <2> HIDE DEF f
    <2> QED BY <2>1, FS_Surjection, RefreshAssumption
<1>2. IsFiniteSet({job.started, job.requested})
    <2>1. {job.started, job.requested} = {job.started} \cup {job.requested}
        OBVIOUS
    <2>2. IsFiniteSet({job.started}) /\ IsFiniteSet({job.requested})
        BY FS_Singleton
    <2> QED BY <2>1, <2>2, FS_Union
<1>3. Stamps \subseteq Nat
    BY DEF TypeOK, Stamps, JobRow, Refresh
<1>4. IsFiniteSet(Stamps)
    BY <1>1, <1>2, FS_Union DEF Stamps
<1> QED BY <1>3, <1>4, FS_CardinalityType

LEMMA TickIs ==
    ASSUME TypeOK, Tick
    PROVE  /\ clock' = Cardinality(Stamps)
           /\ job' = [job EXCEPT !.started = Rank(job.started), !.requested = Rank(job.requested),
                                 !.heartbeat = Older(job.heartbeat, StaleAfter + 1)]
           /\ \A p \in Instances : /\ updater'[p].at = updater[p].at
                                   /\ updater'[p].started = Rank(updater[p].started)
                                   /\ updater'[p].ok = updater[p].ok
                                   /\ updater'[p].plan = updater[p].plan
           /\ job' \in JobRow /\ updater' \in [Instances -> Refresh]
           /\ rows' \in [Datasets -> DatasetRow]
           /\ \A ds \in Datasets : rows'[ds].status = rows[ds].status
                                  /\ rows'[ds].completed >= rows[ds].completed
           /\ UNCHANGED <<content, cuts>>
<1>1. \A t \in Stamps : Rank(t) = Cardinality({s \in Stamps : s < t}) /\ Rank(t) \in Nat
    BY StampsAre, RankIs DEF Rank, Before
<1>2. /\ job.started \in Stamps /\ job.requested \in Stamps
      /\ \A p \in Instances : updater[p].started \in Stamps
    BY DEF Stamps
<1>3. clock' = Cardinality(Stamps) /\ UNCHANGED <<content, cuts>>
    BY DEF Tick, Stamps
<1>4. job' = [job EXCEPT !.started = Rank(job.started), !.requested = Rank(job.requested),
                         !.heartbeat = Older(job.heartbeat, StaleAfter + 1)]
    BY DEF Tick, Stamps, Rank, Before
<1>5. rows' = [ds \in Datasets |->
                    [rows[ds] EXCEPT !.started = Older(@, RetryAfter),
                                     !.completed = Older(@, RenewAfter + 1)]]
    BY DEF Tick
<1>6. updater' = [p \in Instances |->
                    [updater[p] EXCEPT !.started = Rank(@),
                        !.age = IF updater[p].at \in {"fetching", "writing", "loaded"}
                                THEN Older(@, RetryAfter) ELSE 0]]
    BY DEF Tick, Stamps, Rank, Before
<1>7. job' \in JobRow
    <2>1. Older(job.heartbeat, StaleAfter + 1) \in 0..(StaleAfter + 1)
        BY Numbers, OlderIs DEF TypeOK, JobRow
    <2> QED BY <1>1, <1>2, <1>4, <2>1 DEF TypeOK, JobRow
<1>8. ASSUME NEW ds \in Datasets
      PROVE  /\ rows'[ds] \in DatasetRow /\ rows'[ds].status = rows[ds].status
             /\ rows'[ds].completed >= rows[ds].completed
    <2>1. rows[ds] \in DatasetRow
        BY DEF TypeOK
    <2>2. /\ rows[ds].started \in 0..RetryAfter /\ rows[ds].completed \in 0..(RenewAfter + 1)
          /\ RenewAfter + 1 \in Nat /\ RetryAfter \in Nat
        BY <2>1, Numbers DEF DatasetRow
    <2>3. Older(rows[ds].started, RetryAfter) \in 0..RetryAfter
        BY <2>2, OlderIs
    <2>4. /\ Older(rows[ds].completed, RenewAfter + 1) \in 0..(RenewAfter + 1)
          /\ Older(rows[ds].completed, RenewAfter + 1) >= rows[ds].completed
        BY <2>2, OlderIs
    <2> QED BY <1>5, <2>1, <2>3, <2>4 DEF DatasetRow
<1>9. ASSUME NEW p \in Instances
      PROVE  /\ updater'[p] \in Refresh /\ updater'[p].at = updater[p].at
             /\ updater'[p].started = Rank(updater[p].started)
             /\ updater'[p].ok = updater[p].ok /\ updater'[p].plan = updater[p].plan
    <2> DEFINE age == IF updater[p].at \in {"fetching", "writing", "loaded"}
                      THEN Older(updater[p].age, RetryAfter) ELSE 0
    <2>1. updater[p] \in Refresh
        BY DEF TypeOK
    <2>2. age \in 0..RetryAfter
        BY <2>1, Numbers, OlderIs DEF Refresh
    <2>3. updater'[p] = [updater[p] EXCEPT !.started = Rank(updater[p].started), !.age = age]
        BY <1>6, <2>1 DEF Refresh
    <2>4. Rank(updater[p].started) \in Nat
        BY <1>1, <1>2
    <2> HIDE DEF age
    <2> QED BY <2>1, <2>2, <2>3, <2>4 DEF Refresh
<1>10. DOMAIN rows' = Datasets /\ DOMAIN updater' = Instances
    BY <1>5, <1>6
<1>11. rows' \in [Datasets -> DatasetRow] /\ updater' \in [Instances -> Refresh]
    BY <1>5, <1>6, <1>8, <1>9
<1> QED BY <1>3, <1>4, <1>7, <1>8, <1>9, <1>11

LEMMA TickTypes ==
    ASSUME TypeOK, Tick
    PROVE  TypeOK'
BY TickIs, StampsAre DEF TypeOK

(* An updater starting, stopping, looking or being killed.                   *)
LEMMA UpdaterTypes ==
    ASSUME TypeOK, NEW p \in Instances,
           \/ StartDataUpdater(p) \/ StopDataUpdater(p) \/ UpdaterEnds(p) \/ FindsWork(p)
           \/ Killed(p)
    PROVE  TypeOK'
<1>1. updater[p] \in Refresh
    BY DEF TypeOK
<1>2. /\ UNCHANGED <<clock, job, rows, content>> /\ cuts' \in 0..MaxCuts
      /\ job' \in JobRow /\ rows' \in [Datasets -> DatasetRow]
      /\ content' \in [Datasets -> {"empty", "mixed", "whole"}]
    BY Numbers DEF TypeOK, StartDataUpdater, StopDataUpdater, UpdaterEnds, FindsWork, Killed, CutShort
<1>3. CASE StopDataUpdater(p)
    <2> DEFINE r == [updater[p] EXCEPT !.stop = TRUE]
    <2>1. r \in Refresh /\ r.at = updater[p].at /\ r.plan = updater[p].plan
        BY <1>1 DEF Refresh
    <2>2. Goes(p, r)
        BY <1>3 DEF StopDataUpdater
    <2> HIDE DEF r
    <2> QED BY <1>2, <2>1, <2>2, TypeKept DEF TypeOK
<1>4. CASE FindsWork(p)
    <2> DEFINE r == [updater[p] EXCEPT !.at = "planned", !.plan = PlanDataRefresh]
    <2>1. PlanDataRefresh \in SUBSET Datasets /\ PlanDataRefresh # {} /\ Goes(p, r)
        BY <1>4 DEF FindsWork, PlanDataRefresh
    <2>2. r \in Refresh /\ r.plan # {}
        BY <1>1, <2>1 DEF Refresh, Steps
    <2> HIDE DEF r
    <2> QED BY <1>2, <2>1, <2>2, TypeKept
<1>5. CASE StartDataUpdater(p) \/ UpdaterEnds(p) \/ Killed(p)
    <2>1. PICK r \in {Off, Waiting, [Waiting EXCEPT !.stop = updater[p].stop]} : Goes(p, r)
        BY <1>5 DEF StartDataUpdater, UpdaterEnds, Killed
    <2>2. r \in Refresh /\ r.at \in {"off", "waiting"}
        <3>1. updater[p].stop \in BOOLEAN
            BY <1>1 DEF Refresh
        <3>2. Off.at = "off" /\ Waiting.at = "waiting"
            BY DEF Off, Waiting
        <3>3. CASE r = [Waiting EXCEPT !.stop = updater[p].stop]
            BY <3>1, <3>3, OffIs
        <3> QED BY <3>2, <3>3, OffIs
    <2> QED BY <1>2, <2>1, <2>2, TypeKept
<1> QED BY <1>3, <1>4, <1>5

(* What a refresh at work does.                                              *)
LEMMA RefreshTypes ==
    ASSUME TypeOK, NEW p \in Instances, Proceeds(p) \/ Report(p)
    PROVE  TypeOK'
<1>1. updater[p] \in Refresh
    BY DEF TypeOK
<1>2. /\ job \in JobRow /\ rows \in [Datasets -> DatasetRow] /\ cuts \in 0..MaxCuts
      /\ content \in [Datasets -> {"empty", "mixed", "whole"}]
    BY DEF TypeOK
<1>3. updater[p].at \in {"planned", "fetching", "writing", "loaded"} => SetOf(p) \in Datasets
    BY <1>1, SetOfIs DEF TypeOK, Refresh
<1>4. CASE TryClaimImportRun(p)
    <2>1. CASE Claimable
        <3> DEFINE r == [updater[p] EXCEPT !.at = "claimed"]
        <3>1. job' = [job EXCEPT !.status = "running", !.started = updater[p].started,
                                 !.heartbeat = 0]
            BY <1>4, <2>1 DEF TryClaimImportRun
        <3>2. job' \in JobRow
            BY <1>1, <1>2, <3>1, Numbers DEF JobRow, Refresh
        <3>3. r \in Refresh /\ r.plan = updater[p].plan /\ Goes(p, r)
            BY <1>1, <1>4, <2>1 DEF TryClaimImportRun, Refresh, Steps
        <3>4. updater[p].plan # {}
            BY <1>4 DEF TryClaimImportRun, TypeOK
        <3> HIDE DEF r
        <3> QED BY <1>2, <1>4, <3>2, <3>3, <3>4, TypeKept DEF TryClaimImportRun
    <2>2. CASE ~Claimable
        <3> DEFINE r == [Waiting EXCEPT !.stop = updater[p].stop]
        <3>1. updater[p].stop \in BOOLEAN
            BY <1>1 DEF Refresh
        <3>2. r \in Refresh /\ r.at = "waiting"
            BY <3>1, OffIs
        <3>3. Goes(p, r) /\ UNCHANGED job
            BY <1>4, <2>2 DEF TryClaimImportRun
        <3> HIDE DEF r
        <3> QED BY <1>2, <1>4, <3>2, <3>3, TypeKept DEF TryClaimImportRun
    <2> QED BY <2>1, <2>2
<1>5. CASE BeginLoad(p)
    <2> DEFINE r == [updater[p] EXCEPT !.at = "fetching", !.age = 0]
    <2>1. r \in Refresh /\ r.plan = updater[p].plan
        BY <1>1, Numbers DEF Refresh, Steps
    <2>2. Goes(p, r) /\ job' \in JobRow /\ r.plan # {}
        BY <1>5, <2>1, BeatsIs DEF BeginLoad
    <2> HIDE DEF r
    <2> QED BY <1>2, <1>5, <2>1, <2>2, TypeKept DEF BeginLoad
<1>6. CASE Report(p)
    <2>1. job' \in JobRow
        BY <1>6, BeatsIs DEF Report
    <2> QED BY <1>6, <2>1 DEF Report, TypeOK
<1>7. ASSUME NEW at \in {"loaded", "writing"}, NEW ok \in BOOLEAN,
             updater[p].at \in {"fetching", "writing"},
             Goes(p, [updater[p] EXCEPT !.at = at, !.ok = ok]),
             job' \in JobRow, content' \in [Datasets -> {"empty", "mixed", "whole"}],
             UNCHANGED <<clock, rows, cuts>>
      PROVE  TypeOK'
    <2> DEFINE r == [updater[p] EXCEPT !.at = at, !.ok = ok]
    <2>1. r \in Refresh /\ r.plan = updater[p].plan
        BY <1>1, <1>7 DEF Refresh, Steps
    <2>2. updater[p].plan # {}
        BY <1>7 DEF TypeOK
    <2>3. Goes(p, r)
        BY <1>7
    <2> HIDE DEF r
    <2> QED BY <1>2, <1>7, <2>1, <2>2, <2>3, TypeKept
<1>8. CASE LoadFails(p) \/ StopsBetweenBatches(p)
    BY <1>2, <1>7, <1>8 DEF LoadFails, StopsBetweenBatches
<1>9. CASE WriteBatch(p)
    <2>1. /\ content' \in [Datasets -> {"empty", "mixed", "whole"}] /\ job' \in JobRow
          /\ [updater[p] EXCEPT !.at = "writing"] =
                [updater[p] EXCEPT !.at = "writing", !.ok = updater[p].ok]
          /\ updater[p].ok \in BOOLEAN
        BY <1>1, <1>2, <1>3, <1>9, BeatsIs DEF WriteBatch, Refresh
    <2> QED BY <1>7, <1>9, <2>1 DEF WriteBatch
<1>10. CASE LoadCompletes(p)
    <2>1. updater[p].at \in {"fetching", "writing"} /\ job' \in JobRow
        BY <1>10, BeatsIs DEF LoadCompletes, AtLastWrite, LoadsAtOnce
    <2>2. PICK kind \in {"whole", "mixed"} : content' = [content EXCEPT ![SetOf(p)] = kind]
        BY <1>10 DEF LoadCompletes
    <2>3. content' \in [Datasets -> {"empty", "mixed", "whole"}]
        BY <1>2, <1>3, <2>1, <2>2
    <2> QED BY <1>7, <1>10, <2>1, <2>3 DEF LoadCompletes
<1>11. CASE RecordDatasetOutcome(p)
    <2>1. CASE updater[p].stop
        <3> DEFINE r == [updater[p] EXCEPT !.at = "ended", !.outcome = "interrupted"]
        <3>1. r \in Refresh /\ r.at = "ended"
            BY <1>1 DEF Refresh, Steps
        <3>2. Goes(p, r) /\ UNCHANGED rows
            BY <1>11, <2>1 DEF RecordDatasetOutcome
        <3> HIDE DEF r
        <3> QED BY <1>2, <1>11, <3>1, <3>2, TypeKept DEF RecordDatasetOutcome
    <2>2. CASE ~updater[p].stop
        <3> DEFINE ds == SetOf(p)
                   new == IF updater[p].ok
                          THEN [status |-> "complete", completed |-> 0, started |-> updater[p].age]
                          ELSE [rows[ds] EXCEPT !.status = "failed", !.started = updater[p].age]
                   r == [updater[p] EXCEPT !.at = "nextSet", !.plan = @ \ {ds},
                                           !.failed = @ \/ ~updater[p].ok, !.ok = FALSE]
        <3>1. ds \in Datasets
            BY <1>3, <1>11 DEF RecordDatasetOutcome
        <3>2. rows' = [rows EXCEPT ![ds] = new]
            BY <1>2, <1>11, <2>2, <3>1 DEF RecordDatasetOutcome
        <3>3. Goes(p, r)
            BY <1>11, <2>2 DEF RecordDatasetOutcome
        <3> HIDE DEF ds
        <3>4. new \in DatasetRow
            <4>1. rows[ds] \in DatasetRow /\ updater[p].age \in 0..RetryAfter
                BY <1>1, <1>2, <3>1 DEF Refresh
            <4>2. CASE updater[p].ok
                BY <4>1, <4>2, Numbers DEF DatasetRow
            <4>3. CASE ~updater[p].ok
                BY <4>1, <4>3 DEF DatasetRow
            <4> QED BY <4>2, <4>3
        <3>5. r \in Refresh /\ r.at = "nextSet"
            BY <1>1 DEF Refresh, Steps
        <3> HIDE DEF new, r
        <3>6. rows' \in [Datasets -> DatasetRow]
            BY <1>2, <3>1, <3>2, <3>4
        <3> QED BY <1>2, <1>11, <3>3, <3>5, <3>6, TypeKept DEF RecordDatasetOutcome
    <2> QED BY <2>1, <2>2
<1>12. CASE AllLoaded(p) \/ LoadThrows(p)
    <2>1. PICK outcome \in {"complete", "failed", "interrupted"} :
            Goes(p, [updater[p] EXCEPT !.at = "ended", !.outcome = outcome])
        BY <1>12 DEF AllLoaded, LoadThrows
    <2> DEFINE r == [updater[p] EXCEPT !.at = "ended", !.outcome = outcome]
    <2>2. r \in Refresh /\ r.at = "ended" /\ Goes(p, r)
        BY <1>1, <2>1 DEF Refresh, Steps
    <2>3. cuts' \in 0..MaxCuts /\ UNCHANGED <<clock, job, rows, content>>
        BY <1>2, <1>12, Numbers DEF AllLoaded, LoadThrows, CutShort
    <2> HIDE DEF r
    <2> QED BY <1>2, <2>2, <2>3, TypeKept
<1>14. CASE StampClaim(p) \/ StampJob(p)
    <2>1. PICK at \in {"claiming", "nextSet"} :
            Goes(p, [updater[p] EXCEPT !.at = at, !.started = clock])
        BY <1>14 DEF StampClaim, StampJob
    <2> DEFINE r == [updater[p] EXCEPT !.at = at, !.started = clock]
    <2>2. r \in Refresh /\ r.plan = updater[p].plan
        BY <1>1 DEF TypeOK, Refresh, Steps
    <2>3. updater[p].plan # {} /\ UNCHANGED <<clock, job, rows, content, cuts>>
        BY <1>14 DEF StampClaim, StampJob, TypeOK
    <2>4. Goes(p, r)
        BY <2>1
    <2> HIDE DEF r
    <2> QED BY <1>2, <2>2, <2>3, <2>4, TypeKept
<1>13. CASE FinishRefresh(p)
    <2> DEFINE r == [Waiting EXCEPT !.stop = updater[p].stop]
    <2>1. updater[p].stop \in BOOLEAN
        BY <1>1 DEF Refresh
    <2>2. r \in Refresh /\ r.at = "waiting"
        BY <2>1, OffIs
    <2>3. Goes(p, r)
        BY <1>13 DEF FinishRefresh
    <2>4. job' \in JobRow
        BY <1>1, <1>2, <1>13, Numbers DEF FinishRefresh, JobRow, Refresh
    <2> HIDE DEF r
    <2> QED BY <1>2, <1>13, <2>2, <2>3, <2>4, TypeKept DEF FinishRefresh
<1> QED BY <1>4, <1>5, <1>6, <1>8, <1>9, <1>10, <1>11, <1>12, <1>13, <1>14 DEF Proceeds

LEMMA NextTypes ==
    ASSUME TypeOK, [Next]_vars
    PROVE  TypeOK'
<1>1. CASE UNCHANGED vars
    BY <1>1 DEF TypeOK, vars
<1>2. CASE RequestImportRun
    BY <1>2 DEF RequestImportRun, TypeOK, JobRow
<1> QED BY <1>1, <1>2, UpdaterTypes, RefreshTypes, TickTypes DEF Next

(* Types, for any number of instances and datasets, and any limits.          *)
THEOREM TypesAlways == Spec => []TypeOK
<1>1. TypeOK /\ [Next]_vars => TypeOK'
    BY NextTypes
<1> QED BY InitTypes, <1>1, PTL DEF Spec

-----------------------------------------------------------------------------
(* One refresh at a time.                                                    *)

(* The refresh that runs is the one the job's row is of, which is fresh; and *)
(* what it has loaded is in the table.                                       *)
RunsAlone(p) ==
    IsRunning(p) => /\ job.status = "running" /\ job.heartbeat <= StaleAfter
                    /\ \A q \in Instances : IsRunning(q) => q = p
                    /\ updater[p].at = "loaded" /\ updater[p].ok => content[SetOf(p)] = "whole"

JobInv ==
    /\ TypeOK
    /\ \A p \in Instances : RunsAlone(p)

LEMMA InitJob == Init => JobInv
BY InitTypes DEF Init, JobInv, RunsAlone, IsRunning, Running, Off

(* A step of p's that leaves the job's row to it.                            *)
LEMMA JobKept ==
    ASSUME JobInv, TypeOK', NEW p \in Instances, NEW r \in Refresh, Goes(p, r), IsRunning(p),
           job'.status = job.status, job'.heartbeat <= StaleAfter,
           r.at = "loaded" /\ r.ok => content'[SetOf(p)] = "whole" /\ r.plan = updater[p].plan
    PROVE  JobInv'
<1>1. /\ updater'[p] = r /\ \A q \in Instances : q # p => ~IsRunning(q) /\ ~IsRunning(q)'
    BY GoesIs DEF JobInv, RunsAlone, IsRunning
<1>2. r.plan = updater[p].plan => SetOf(p)' = SetOf(p)
    BY <1>1 DEF SetOf
<1> QED BY <1>1, <1>2 DEF JobInv, RunsAlone, IsRunning

(* One that leaves the job's row alone, and p not running any more than it   *)
(* was.                                                                      *)
LEMMA JobAlone ==
    ASSUME JobInv, TypeOK', NEW p \in Instances, NEW r \in Refresh, Goes(p, r),
           UNCHANGED <<job, content>>,
           \/ r.at \in {"off", "waiting", "planned", "claiming"}
           \/ r.at = updater[p].at /\ r.ok = updater[p].ok /\ r.plan = updater[p].plan
    PROVE  JobInv'
<1>1. updater'[p] = r /\ \A q \in Instances : q # p => updater'[q] = updater[q]
    BY GoesIs DEF JobInv
<1>2. \A q \in Instances : q # p => IsRunning(q)' = IsRunning(q) /\ SetOf(q)' = SetOf(q)
    BY <1>1 DEF IsRunning, SetOf
<1>3. IsRunning(p)' => /\ IsRunning(p) /\ SetOf(p)' = SetOf(p)
                       /\ updater'[p].at = updater[p].at /\ updater'[p].ok = updater[p].ok
    BY <1>1 DEF IsRunning, Running, SetOf
<1>4. ASSUME NEW q \in Instances PROVE RunsAlone(q)'
    <2>1. CASE q = p
        BY <1>2, <1>3, <2>1 DEF JobInv, RunsAlone
    <2>2. CASE q # p
        BY <1>1, <1>2, <1>3, <2>2 DEF JobInv, RunsAlone
    <2> QED BY <2>1, <2>2
<1> QED BY <1>4 DEF JobInv

LEMMA UpdaterKeepsJob ==
    ASSUME JobInv, NEW p \in Instances,
           \/ StartDataUpdater(p) \/ StopDataUpdater(p) \/ UpdaterEnds(p) \/ FindsWork(p)
           \/ Killed(p)
    PROVE  JobInv'
<1>1. TypeOK' /\ updater[p] \in Refresh /\ UNCHANGED <<clock, job, content>>
    BY UpdaterTypes
    DEF JobInv, TypeOK, StartDataUpdater, StopDataUpdater, UpdaterEnds, FindsWork, Killed
<1>2. CASE StopDataUpdater(p)
    <2> DEFINE r == [updater[p] EXCEPT !.stop = TRUE]
    <2>1. /\ r \in Refresh /\ r.at = updater[p].at /\ r.plan = updater[p].plan
          /\ r.ok = updater[p].ok
        BY <1>1 DEF Refresh
    <2>2. Goes(p, r)
        BY <1>2 DEF StopDataUpdater
    <2> HIDE DEF r
    <2> QED BY <1>1, <2>1, <2>2, JobAlone
<1>3. CASE FindsWork(p)
    <2> DEFINE r == [updater[p] EXCEPT !.at = "planned", !.plan = PlanDataRefresh]
    <2>1. PlanDataRefresh \in SUBSET Datasets /\ Goes(p, r)
        BY <1>3 DEF FindsWork, PlanDataRefresh
    <2>2. r \in Refresh /\ r.at = "planned"
        BY <1>1, <2>1 DEF Refresh, Steps
    <2> HIDE DEF r
    <2> QED BY <1>1, <2>1, <2>2, JobAlone
<1>4. CASE StartDataUpdater(p) \/ UpdaterEnds(p) \/ Killed(p)
    <2>1. PICK r \in {Off, Waiting, [Waiting EXCEPT !.stop = updater[p].stop]} : Goes(p, r)
        BY <1>4 DEF StartDataUpdater, UpdaterEnds, Killed
    <2>2. r \in Refresh /\ r.at \in {"off", "waiting"}
        <3>1. updater[p].stop \in BOOLEAN
            BY <1>1 DEF Refresh
        <3>2. Off.at = "off" /\ Waiting.at = "waiting"
            BY DEF Off, Waiting
        <3>3. CASE r = [Waiting EXCEPT !.stop = updater[p].stop]
            BY <3>1, <3>3, OffIs
        <3> QED BY <3>2, <3>3, OffIs
    <2> QED BY <1>1, <2>1, <2>2, JobAlone
<1> QED BY <1>2, <1>3, <1>4

LEMMA RefreshKeepsJob ==
    ASSUME JobInv, NEW p \in Instances, Proceeds(p) \/ Report(p)
    PROVE  JobInv'
<1>1. /\ TypeOK /\ TypeOK' /\ updater[p] \in Refresh
      /\ job \in JobRow /\ content \in [Datasets -> {"empty", "mixed", "whole"}]
      /\ StaleAfter \in Nat /\ RunsAlone(p)
    BY RefreshTypes, Numbers DEF JobInv, TypeOK
<1>2. updater[p].at \in {"planned", "fetching", "writing", "loaded"} => SetOf(p) \in Datasets
    BY <1>1, SetOfIs DEF TypeOK, Refresh
<1>3. (UNCHANGED job /\ IsRunning(p)) \/ Beats =>
        job'.status = job.status /\ (IsRunning(p) => job'.heartbeat <= StaleAfter)
    BY <1>1, BeatsIs, Numbers DEF RunsAlone
<1>4. CASE TryClaimImportRun(p)
    <2>1. CASE Claimable
        <3> DEFINE r == [updater[p] EXCEPT !.at = "claimed"]
        <3>1. job' = [job EXCEPT !.status = "running", !.started = updater[p].started,
                                 !.heartbeat = 0]
              /\ Goes(p, r)
            BY <1>4, <2>1 DEF TryClaimImportRun
        <3>2. \A q \in Instances : ~IsRunning(q)
            BY <1>1, <2>1 DEF JobInv, RunsAlone, Claimable, JobRow
        <3>3. r \in Refresh /\ r.at = "claimed"
            BY <1>1 DEF Refresh, Steps
        <3> HIDE DEF r
        <3>4. updater'[p] = r /\ \A q \in Instances : q # p => ~IsRunning(q)'
            BY <1>1, <3>1, <3>2, <3>3, GoesIs DEF IsRunning
        <3>5. job'.status = "running" /\ job'.heartbeat = 0
            BY <1>1, <3>1 DEF JobRow
        <3>7. ASSUME NEW q \in Instances PROVE RunsAlone(q)'
            BY <1>1, <3>3, <3>4, <3>5 DEF RunsAlone, Running
        <3> QED BY <1>1, <3>7 DEF JobInv
    <2>2. CASE ~Claimable
        <3> DEFINE r == [Waiting EXCEPT !.stop = updater[p].stop]
        <3>1. updater[p].stop \in BOOLEAN
            BY <1>1 DEF Refresh
        <3>2. r \in Refresh /\ r.at = "waiting"
            BY <3>1, OffIs
        <3>3. Goes(p, r) /\ UNCHANGED <<job, content>>
            BY <1>4, <2>2 DEF TryClaimImportRun
        <3> HIDE DEF r
        <3> QED BY <1>1, <3>2, <3>3, JobAlone
    <2> QED BY <2>1, <2>2
<1>5. CASE BeginLoad(p)
    <2> DEFINE r == [updater[p] EXCEPT !.at = "fetching", !.age = 0]
    <2>1. r \in Refresh /\ r.at = "fetching"
        BY <1>1, Numbers DEF Refresh, Steps
    <2>2. Goes(p, r) /\ Beats /\ IsRunning(p)
        BY <1>5 DEF BeginLoad, IsRunning, Running
    <2> HIDE DEF r
    <2> QED BY <1>1, <1>3, <2>1, <2>2, JobKept
<1>6. CASE Report(p)
    <2>1. Goes(p, updater[p]) /\ Beats /\ IsRunning(p) /\ updater[p].at # "loaded"
        BY <1>1, <1>6 DEF Report, Goes, IsRunning, Running, TypeOK
    <2> QED BY <1>1, <1>3, <2>1, JobKept
<1>7. ASSUME NEW at \in {"loaded", "writing", "ended"}, NEW ok \in BOOLEAN, NEW outcome,
             [updater[p] EXCEPT !.at = at, !.ok = ok, !.outcome = outcome] \in Refresh,
             IsRunning(p), Goes(p, [updater[p] EXCEPT !.at = at, !.ok = ok, !.outcome = outcome]),
             UNCHANGED job \/ Beats,
             at = "loaded" /\ ok => content'[SetOf(p)] = "whole"
      PROVE  JobInv'
    <2> DEFINE r == [updater[p] EXCEPT !.at = at, !.ok = ok, !.outcome = outcome]
    <2>1. r.at = at /\ r.ok = ok /\ r.plan = updater[p].plan
        BY <1>1 DEF Refresh
    <2>2. r \in Refresh /\ Goes(p, r)
        BY <1>7
    <2> HIDE DEF r
    <2> QED BY <1>1, <1>3, <1>7, <2>1, <2>2, JobKept
<1>8. \A at \in {"loaded", "writing", "ended"}, ok \in BOOLEAN,
         outcome \in {"complete", "failed", "interrupted"} :
            [updater[p] EXCEPT !.at = at, !.ok = ok, !.outcome = outcome] \in Refresh
    BY <1>1 DEF Refresh, Steps
<1>9. /\ updater[p].outcome \in {"complete", "failed", "interrupted"}
      /\ updater[p].ok \in BOOLEAN
      /\ \A at, ok : [updater[p] EXCEPT !.at = at, !.ok = ok] =
                [updater[p] EXCEPT !.at = at, !.ok = ok, !.outcome = updater[p].outcome]
      /\ \A at, outcome : [updater[p] EXCEPT !.at = at, !.outcome = outcome] =
                [updater[p] EXCEPT !.at = at, !.ok = updater[p].ok, !.outcome = outcome]
      /\ \A at : [updater[p] EXCEPT !.at = at] =
                [updater[p] EXCEPT !.at = at, !.ok = updater[p].ok,
                                   !.outcome = updater[p].outcome]
    BY <1>1 DEF Refresh
<1>10. CASE LoadFails(p) \/ StopsBetweenBatches(p)
    BY <1>7, <1>8, <1>9, <1>10 DEF LoadFails, StopsBetweenBatches, IsRunning, Running
<1>11. CASE WriteBatch(p)
    BY <1>7, <1>8, <1>9, <1>11 DEF WriteBatch, IsRunning, Running
<1>12. CASE LoadCompletes(p)
    <2>1. IsRunning(p) /\ updater[p].at \in {"fetching", "writing"}
        BY <1>12 DEF LoadCompletes, AtLastWrite, LoadsAtOnce, IsRunning, Running
    <2>2. {q \in Instances \ {p} : updater[q].at = "writing" /\ SetOf(q) = SetOf(p)} = {}
        BY <1>1, <2>1 DEF RunsAlone, IsRunning, Running
    <2>3. content'[SetOf(p)] = "whole"
        BY <1>1, <1>2, <1>12, <2>1, <2>2 DEF LoadCompletes
    <2> QED BY <1>7, <1>8, <1>9, <1>12, <2>1, <2>3 DEF LoadCompletes
<1>13. CASE RecordDatasetOutcome(p)
    <2>1. CASE updater[p].stop
        <3> DEFINE r == [updater[p] EXCEPT !.at = "ended", !.outcome = "interrupted"]
        <3>1. Goes(p, r) /\ IsRunning(p) /\ UNCHANGED job
            BY <1>13, <2>1 DEF RecordDatasetOutcome, IsRunning, Running
        <3>2. r \in Refresh /\ r.at = "ended"
            BY <1>1 DEF Refresh, Steps
        <3> HIDE DEF r
        <3> QED BY <1>1, <1>3, <3>1, <3>2, JobKept
    <2>2. CASE ~updater[p].stop
        <3> DEFINE ds == SetOf(p)
                   r == [updater[p] EXCEPT !.at = "nextSet", !.plan = @ \ {ds},
                                           !.failed = @ \/ ~updater[p].ok, !.ok = FALSE]
        <3>1. Goes(p, r) /\ IsRunning(p) /\ UNCHANGED job
            BY <1>13, <2>2 DEF RecordDatasetOutcome, IsRunning, Running
        <3>2. r \in Refresh /\ r.at = "nextSet"
            <4> HIDE DEF ds
            <4> QED BY <1>1 DEF Refresh, Steps
        <3> HIDE DEF r
        <3> QED BY <1>1, <1>3, <3>1, <3>2, JobKept
    <2> QED BY <2>1, <2>2
<1>14. CASE AllLoaded(p) \/ LoadThrows(p)
    <2>1. PICK outcome \in {"complete", "failed", "interrupted"} :
            Goes(p, [updater[p] EXCEPT !.at = "ended", !.outcome = outcome])
        BY <1>14 DEF AllLoaded, LoadThrows
    <2>2. IsRunning(p) /\ UNCHANGED job
        BY <1>14 DEF AllLoaded, LoadThrows, IsRunning, Running
    <2> DEFINE r == [updater[p] EXCEPT !.at = "ended", !.outcome = outcome]
    <2>3. r \in Refresh /\ r.at = "ended"
        BY <1>1 DEF Refresh, Steps
    <2>4. Goes(p, r)
        BY <2>1
    <2> HIDE DEF r
    <2> QED BY <1>1, <1>3, <2>2, <2>3, <2>4, JobKept
<1>15. CASE FinishRefresh(p)
    <2> DEFINE r == [Waiting EXCEPT !.stop = updater[p].stop]
    <2>1. updater[p].stop \in BOOLEAN
        BY <1>1 DEF Refresh
    <2>2. r \in Refresh /\ r.at = "waiting"
        BY <2>1, OffIs
    <2>3. Goes(p, r) /\ IsRunning(p)
        BY <1>15 DEF FinishRefresh, IsRunning, Running
    <2> HIDE DEF r
    <2>5. \A q \in Instances : ~IsRunning(q)'
        BY <1>1, <2>2, <2>3, GoesIs DEF RunsAlone, IsRunning, Running
    <2> QED BY <1>1, <2>5 DEF JobInv, RunsAlone
<1>16. CASE StampClaim(p)
    <2> DEFINE r == [updater[p] EXCEPT !.at = "claiming", !.started = clock]
    <2>1. r \in Refresh /\ r.at = "claiming"
        BY <1>1 DEF TypeOK, Refresh, Steps
    <2>2. Goes(p, r) /\ UNCHANGED <<job, content>>
        BY <1>16 DEF StampClaim
    <2> HIDE DEF r
    <2> QED BY <1>1, <2>1, <2>2, JobAlone
<1>17. CASE StampJob(p)
    <2> DEFINE r == [updater[p] EXCEPT !.at = "nextSet", !.started = clock]
    <2>1. r \in Refresh /\ r.at = "nextSet"
        BY <1>1 DEF TypeOK, Refresh, Steps
    <2>2. Goes(p, r) /\ UNCHANGED job /\ IsRunning(p)
        BY <1>17 DEF StampJob, IsRunning, Running
    <2> HIDE DEF r
    <2> QED BY <1>1, <1>3, <2>1, <2>2, JobKept
<1> QED BY <1>4, <1>5, <1>6, <1>10, <1>11, <1>12, <1>13, <1>14, <1>15, <1>16, <1>17 DEF Proceeds

(* A second goes by.                                                         *)
LEMMA TickKeepsJob ==
    ASSUME JobInv, Tick, Stalls = FALSE
    PROVE  JobInv'
<1>1. TypeOK' /\ job \in JobRow /\ StaleAfter \in Nat
    BY TickTypes, Numbers DEF JobInv, TypeOK
<1>3. job'.heartbeat = Older(job.heartbeat, StaleAfter + 1) /\ job'.status = job.status
    BY <1>1, TickIs DEF JobInv, JobRow
<1>5. ASSUME NEW p \in Instances PROVE RunsAlone(p)'
    <2>1. \A q \in Instances : IsRunning(q)' = IsRunning(q)
        BY TickIs DEF JobInv, IsRunning
    <2>2. SetOf(p)' = SetOf(p) /\ UNCHANGED content
        BY TickIs DEF JobInv, SetOf
    <2>3. IsRunning(p) => job'.heartbeat <= StaleAfter
        <3>1. job.heartbeat \in 0..(StaleAfter + 1) /\ StaleAfter + 1 \in Nat
            BY <1>1 DEF JobRow
        <3>2. IsRunning(p) => job.heartbeat < StaleAfter
            BY DEF Tick
        <3>3. job.heartbeat < StaleAfter + 1 => job'.heartbeat <= job.heartbeat + 1
            BY <1>3, <3>1, OlderIs
        <3>4. job'.heartbeat \in 0..(StaleAfter + 1)
            BY <1>3, <3>1, OlderIs
        <3> QED BY <1>1, <3>1, <3>2, <3>3, <3>4
    <2>5. updater'[p].at = updater[p].at /\ updater'[p].ok = updater[p].ok
        BY TickIs DEF JobInv
    <2> QED BY <1>3, <2>1, <2>2, <2>3, <2>5 DEF JobInv, RunsAlone
<1> QED BY <1>1, <1>5 DEF JobInv

LEMMA NextKeepsJob ==
    ASSUME JobInv, [Next]_vars, Stalls = FALSE
    PROVE  JobInv'
<1>1. CASE UNCHANGED vars
    BY <1>1 DEF JobInv, TypeOK, RunsAlone, IsRunning, SetOf, vars
<1>2. CASE RequestImportRun
    <2>1. TypeOK'
        BY <1>2, NextTypes DEF JobInv, Next
    <2>2. /\ job'.status = job.status /\ job'.heartbeat = job.heartbeat
          /\ UNCHANGED <<content, updater>>
        BY <1>2 DEF RequestImportRun, JobInv, TypeOK, JobRow
    <2>3. ASSUME NEW p \in Instances PROVE RunsAlone(p)'
        BY <2>2 DEF JobInv, RunsAlone, IsRunning, SetOf
    <2> QED BY <2>1, <2>3 DEF JobInv
<1> QED BY <1>1, <1>2, UpdaterKeepsJob, RefreshKeepsJob, TickKeepsJob DEF Next

(* Without a live refresh whose heartbeat grows stale, for any number of     *)
(* instances: TryClaimImportRun lets one refresh run at a time, whoever is   *)
(* stopped, killed or started again.  With one, this is false (OneRefresh-   *)
(* AtATime is then violated by the second claim).                            *)
THEOREM OneAtATime ==
    ASSUME Stalls = FALSE
    PROVE  Spec => []OneRefreshAtATime
<1>1. JobInv /\ [Next]_vars => JobInv'
    BY NextKeepsJob
<1>2. JobInv => OneRefreshAtATime
    BY DEF JobInv, RunsAlone, OneRefreshAtATime
<1> QED BY InitJob, <1>1, <1>2, PTL DEF Spec

-----------------------------------------------------------------------------
(* What is recorded, and what is asked for.                                  *)

(* Only the record of a load that worked makes a dataset newly complete.     *)
LEMMA CompleteByRecord ==
    ASSUME JobInv, [Next]_vars, NEW ds \in Datasets,
           rows'[ds].status = "complete", rows'[ds].completed < rows[ds].completed
    PROVE  content[ds] = "whole"
<1>1. /\ rows[ds] \in DatasetRow /\ rows[ds].completed \in Int /\ rows \in [Datasets -> DatasetRow]
    BY Numbers DEF JobInv, TypeOK, DatasetRow
<1>2. rows' # rows
    BY <1>1
<1>3. ~Tick
    <2> SUFFICES ASSUME Tick PROVE FALSE
        OBVIOUS
    <2>1. rows' \in [Datasets -> DatasetRow] /\ rows'[ds].completed >= rows[ds].completed
        BY TickIs DEF JobInv
    <2>2. rows'[ds].completed \in Int
        BY <2>1, Numbers DEF DatasetRow
    <2> QED BY <1>1, <2>1, <2>2
<1>4. PICK p \in Instances : RecordDatasetOutcome(p)
    BY <1>2, <1>3 DEF Next, Proceeds, vars, StartDataUpdater, StopDataUpdater, UpdaterEnds,
        FindsWork, StampClaim, TryClaimImportRun, StampJob, BeginLoad, Report, LoadFails, WriteBatch,
        StopsBetweenBatches, LoadCompletes, AllLoaded, LoadThrows, FinishRefresh,
        RequestImportRun, Killed
<1>5. updater[p].at = "loaded" /\ ~updater[p].stop /\ IsRunning(p)
    BY <1>2, <1>4 DEF RecordDatasetOutcome, IsRunning, Running
<1>6. SetOf(p) \in Datasets
    BY <1>5, SetOfIs DEF JobInv, TypeOK, Refresh
<1>7. rows' = [rows EXCEPT ![SetOf(p)] =
                    IF updater[p].ok
                    THEN [status |-> "complete", completed |-> 0, started |-> updater[p].age]
                    ELSE [@ EXCEPT !.status = "failed", !.started = updater[p].age]]
    BY <1>4, <1>5 DEF RecordDatasetOutcome
<1>8. ds = SetOf(p)
    <2> SUFFICES ASSUME ds # SetOf(p) PROVE FALSE
        OBVIOUS
    <2>1. rows'[ds] = rows[ds]
        BY <1>1, <1>7
    <2> QED BY <1>1, <2>1
<1>9. updater[p].ok
    <2> SUFFICES ASSUME ~updater[p].ok PROVE FALSE
        OBVIOUS
    <2>1. rows'[ds] = [rows[ds] EXCEPT !.status = "failed", !.started = updater[p].age]
        BY <1>1, <1>7, <1>8
    <2>2. rows'[ds].status = "failed"
        BY <1>1, <2>1 DEF DatasetRow
    <2> QED BY <2>2
<1> QED BY <1>5, <1>8, <1>9 DEF JobInv, RunsAlone

(* RecordDatasetOutcome is never wrong of the table: a dataset newly         *)
(* recorded as complete holds the whole file and nothing of an earlier one.  *)
THEOREM LastUpdatedAlwaysTrue ==
    ASSUME Stalls = FALSE
    PROVE  Spec => LastUpdatedIsTrue
<1>1. JobInv /\ [Next]_vars => JobInv'
    BY NextKeepsJob
<1>2. JobInv /\ [Next]_vars
        => [\A ds \in Datasets :
                rows'[ds].status = "complete" /\ rows'[ds].completed < rows[ds].completed
                    => content[ds] = "whole"]_vars
    BY CompleteByRecord
<1> QED BY InitJob, <1>1, <1>2, PTL DEF Spec, LastUpdatedIsTrue

(* A request is never later than now.                                        *)
Dated == TypeOK /\ job.requested <= clock

LEMMA InitDated == Init => Dated
BY InitTypes DEF Init, Dated

(* Steps that change neither the clock nor the request, but for a heartbeat.  *)
LEMMA RequestLeft ==
    ASSUME TypeOK, NEW p \in Instances,
           \/ StartDataUpdater(p) \/ StopDataUpdater(p) \/ UpdaterEnds(p) \/ FindsWork(p)
           \/ Report(p) \/ Killed(p) \/ StampClaim(p) \/ StampJob(p) \/ BeginLoad(p)
           \/ LoadFails(p) \/ WriteBatch(p) \/ StopsBetweenBatches(p) \/ LoadCompletes(p)
           \/ RecordDatasetOutcome(p) \/ AllLoaded(p) \/ LoadThrows(p)
    PROVE  clock' = clock /\ job'.requested = job.requested /\ job'.started = job.started
<1>1. clock' = clock /\ (Beats \/ job' = job)
    BY DEF StartDataUpdater, StopDataUpdater, UpdaterEnds, FindsWork, Report, Killed, StampClaim,
        StampJob, BeginLoad, LoadFails, WriteBatch, StopsBetweenBatches, LoadCompletes,
        RecordDatasetOutcome, AllLoaded, LoadThrows
<1> QED BY <1>1, BeatsIs

(* The two that write when the job started.                                   *)
LEMMA JobStarts ==
    ASSUME TypeOK, NEW p \in Instances, TryClaimImportRun(p) \/ FinishRefresh(p)
    PROVE  /\ clock' = clock /\ job'.requested = job.requested
           /\ \/ job'.started = job.started
              \/ TryClaimImportRun(p) /\ Claims(p)
              \/ FinishRefresh(p) /\ Finishes(p) /\ job'.started = updater[p].started
<1>1. job \in JobRow /\ updater[p] \in Refresh /\ updater \in [Instances -> Refresh]
    BY DEF TypeOK
<1>2. CASE TryClaimImportRun(p) /\ Claimable
    <2>1. updater'[p] = [updater[p] EXCEPT !.at = "claimed"]
        BY <1>1, <1>2 DEF TryClaimImportRun, Goes
    <2>2. updater'[p].at = "claimed"
        BY <1>1, <2>1 DEF Refresh
    <2> QED BY <1>1, <1>2, <2>2 DEF TryClaimImportRun, Claims, JobRow
<1>3. CASE TryClaimImportRun(p) /\ ~Claimable
    BY <1>3 DEF TryClaimImportRun
<1>4. CASE FinishRefresh(p)
    <2>1. updater'[p] = [Waiting EXCEPT !.stop = updater[p].stop]
        BY <1>1, <1>4 DEF FinishRefresh, Goes
    <2>2. updater'[p].at = "waiting"
        BY <1>1, <2>1, OffIs DEF Refresh
    <2> QED BY <1>1, <1>4, <2>2 DEF FinishRefresh, Finishes, JobRow
<1> QED BY <1>2, <1>3, <1>4

LEMMA NextDated ==
    ASSUME Dated, [Next]_vars
    PROVE  Dated'
<1>1. TypeOK /\ TypeOK'
    BY NextTypes DEF Dated
<1>2. CASE UNCHANGED vars
    BY <1>1, <1>2 DEF Dated, vars
<1>3. CASE RequestImportRun
    BY <1>1, <1>3 DEF RequestImportRun, Dated, TypeOK, JobRow
<1>4. CASE Tick
    <2>1. job'.requested = Rank(job.requested) /\ clock' = Cardinality(Stamps)
        BY <1>1, <1>4, TickIs DEF TypeOK, JobRow
    <2>2. IsFiniteSet(Stamps) /\ Stamps \subseteq Nat /\ job.requested \in Stamps
        BY <1>1, StampsAre DEF Stamps
    <2>3. Rank(job.requested) <= Cardinality(Stamps)
        BY <2>2, RankIs DEF Rank
    <2> QED BY <1>1, <2>1, <2>3 DEF Dated
<1>5. ASSUME NEW p \in Instances, TryClaimImportRun(p) \/ FinishRefresh(p)
      PROVE  Dated'
    BY <1>1, <1>5, JobStarts DEF Dated
<1> QED BY <1>1, <1>2, <1>3, <1>4, <1>5, RequestLeft DEF Dated, Next, Proceeds

(* A claim is what takes a request away, or the end of a refresh that read    *)
(* the clock for its job no earlier.                                         *)
LEMMA RequestUntilClaim ==
    ASSUME Dated, [Next]_vars, Requested, ~Requested'
    PROVE  \E p \in Instances :
               Claims(p) \/ (Finishes(p) /\ job.requested <= updater[p].started)
<1>1. TypeOK /\ job.requested \in Nat /\ job.started \in Nat /\ clock \in Nat
      /\ job.requested > job.started /\ job.requested <= clock
    BY DEF Dated, TypeOK, JobRow, Requested
<1>2. ~Tick
    <2> SUFFICES ASSUME Tick PROVE FALSE
        OBVIOUS
    <2>1. IsFiniteSet(Stamps) /\ Stamps \subseteq Nat /\ job.started \in Stamps
          /\ job.requested \in Stamps
        BY <1>1, StampsAre DEF Stamps
    <2>2. Rank(job.started) < Rank(job.requested)
        BY <1>1, <2>1, RanksInOrder DEF Rank
    <2>3. job'.started = Rank(job.started) /\ job'.requested = Rank(job.requested)
        BY <1>1, TickIs DEF TypeOK, JobRow
    <2>4. Rank(job.started) \in Nat /\ Rank(job.requested) \in Nat
        BY <2>1, RankIs DEF Rank
    <2> QED BY <2>2, <2>3, <2>4 DEF Requested
<1>3. ~RequestImportRun
    <2> SUFFICES ASSUME RequestImportRun PROVE FALSE
        OBVIOUS
    <2>1. job'.requested = clock /\ job'.started = job.started
        BY <1>1 DEF RequestImportRun, TypeOK, JobRow
    <2> QED BY <1>1, <2>1 DEF Requested
<1>4. job'.requested = job.requested /\ job'.started = job.started => FALSE
    BY <1>1 DEF Requested
<1>5. ~UNCHANGED vars
    BY <1>4 DEF vars
<1>6. PICK p \in Instances : TryClaimImportRun(p) \/ FinishRefresh(p)
    BY <1>1, <1>2, <1>3, <1>4, <1>5, RequestLeft DEF Next, Proceeds
<1>7. Claims(p) \/ (Finishes(p) /\ job'.started = updater[p].started)
    BY <1>1, <1>4, <1>6, JobStarts
<1>8. job'.requested = job.requested
    BY <1>1, <1>6, JobStarts
<1>9. job'.started = updater[p].started => job.requested <= updater[p].started
    <2>1. updater[p].started \in Nat
        BY <1>1 DEF TypeOK, Refresh
    <2> QED BY <1>1, <1>8, <2>1 DEF Requested
<1> QED BY <1>7, <1>9

(* RequestImportRun's request is not lost to a refresh that ends, is stopped   *)
(* or dies, to one whose job was taken over, nor to a second going by: a claim *)
(* answers it, or the end of a refresh that RunRefreshIfDue stamped no earlier *)
(* than it was made.  This holds whatever stalls.                            *)
THEOREM RequestAlwaysStands == Spec => RequestStands
<1>1. Dated /\ [Next]_vars => Dated'
    BY NextDated
<1>2. Dated /\ [Next]_vars
        => [Requested /\ ~Requested' =>
                \E p \in Instances :
                    Claims(p) \/ (Finishes(p) /\ job.requested <= updater[p].started)]_vars
    BY RequestUntilClaim
<1> QED BY InitDated, <1>1, <1>2, PTL DEF Spec, RequestStands

=============================================================================
