---------------------------- MODULE DataRefresh ----------------------------
(***************************************************************************)
(* The station data updaters of several QuickLogger instances on one       *)
(* database.  Each looks every few seconds for datasets that are due, and   *)
(* has a child process claim the refresh job and load them.  The job's row  *)
(* of import_runs is lock, heartbeat and request box at once.               *)
(*                                                                         *)
(* A Tick is a second, the limits scaled down to a few of them.  A time     *)
(* that is compared with a limit is kept as an age, up to just past the     *)
(* limit; times only compared with one another, as ranks (see Tick).  Both  *)
(* keep the state finite although time goes on for ever.                    *)
(***************************************************************************)
EXTENDS Integers, FiniteSets

CONSTANTS
    Instances,     \* QuickLogger instances, each with an updater process
    Datasets,      \* the datasets of a run, of DatasetOrder
    StaleAfter,    \* kJobStaleAfterSeconds
    RetryAfter,    \* kFailedLoadRetrySeconds
    RenewAfter,    \* kUlsStalenessThresholdSeconds
    Stalls,        \* whether a live refresh may go without a heartbeat for longer than that
    MaxCuts        \* bound: how often an updater is stopped or killed or a refresh throws

(* In the order RunDataRefresh loads them.                                  *)
DatasetOrder ==
    <<"uls", "gmrs", "ised", "zip_centroids", "ca_postal_centroids", "zip_county_data">>

ASSUME RefreshAssumption ==
    /\ IsFiniteSet(Instances)
    /\ Datasets \subseteq {DatasetOrder[k] : k \in 1..6}
    /\ StaleAfter \in Nat /\ RetryAfter \in Nat /\ RenewAfter \in Nat
    /\ Stalls \in BOOLEAN
    /\ MaxCuts \in Nat

LicenseSets == Datasets \cap {"uls", "gmrs", "ised"}

(* Written a batch at a time; the others in one transaction at the end.     *)
Batched == {"uls", "gmrs", "zip_centroids"}

VARIABLES
    clock,    \* now, among the times kept as ranks
    job,      \* the "data_refresh" row of import_runs
    rows,     \* each dataset's row of import_runs
    content,  \* what each dataset's table holds
    updater,  \* each instance's updater and the refresh it runs
    cuts      \* how often an updater or a refresh was cut short

vars == <<clock, job, rows, content, updater, cuts>>

(* started and requested are ranks, heartbeat an age.                       *)
JobRow == [status : {"never_run", "running", "complete", "failed", "interrupted"},
           started : Nat, requested : Nat, heartbeat : 0..(StaleAfter + 1)]

(* started and completed are ages: of the last attempt, and of the last that *)
(* worked.                                                                   *)
DatasetRow == [status : {"none", "failed", "complete"},
               started : 0..RetryAfter, completed : 0..(RenewAfter + 1)]

(* A refresh at work, as RunRefreshIfDue and RunDataRefresh go:             *)
(*   at        off or waiting; or the step of the refresh                   *)
(*   stop      g_stop_requested                                             *)
(*   plan      the datasets still to load                                   *)
(*   started   its last reading of Now() for its job (a rank)               *)
(*   failed    ~all_ok                                                      *)
(*   age       of the load of a dataset under way; ok, whether it worked    *)
Steps == {"off", "waiting", "planned", "claiming", "claimed", "nextSet", "fetching", "writing",
          "loaded", "ended"}
Refresh == [at : Steps, stop : BOOLEAN, plan : SUBSET Datasets, started : Nat,
            failed : BOOLEAN, age : 0..RetryAfter, ok : BOOLEAN,
            outcome : {"complete", "failed", "interrupted"}]

Off == [at |-> "off", stop |-> FALSE, plan |-> {}, started |-> 0, failed |-> FALSE,
        age |-> 0, ok |-> FALSE, outcome |-> "complete"]
Waiting == [Off EXCEPT !.at = "waiting"]

Running == {"claimed", "nextSet", "fetching", "writing", "loaded", "ended"}
IsRunning(p) == updater[p].at \in Running

Init ==
    /\ clock = 1
    /\ job = [status |-> "never_run", started |-> 0, requested |-> 0, heartbeat |-> StaleAfter + 1]
    /\ rows = [ds \in Datasets |-> [status |-> "none", started |-> RetryAfter,
                                    completed |-> RenewAfter + 1]]
    /\ content = [ds \in Datasets |-> "empty"]
    /\ updater = [p \in Instances |-> Off]
    /\ cuts = 0

-----------------------------------------------------------------------------
(* What is due.                                                             *)

Requested == job.requested > job.started

IsRetryDue(ds) == Requested \/ rows[ds].started >= RetryAfter

IsLicenseDataDue(ds) ==
    IF rows[ds].status = "complete" THEN Requested \/ rows[ds].completed > RenewAfter
    ELSE rows[ds].status = "failed" => IsRetryDue(ds)

(* ZIP codes' and Canadian postal codes' locations are in one table.        *)
HasAnyZipCentroids ==
    \E ds \in Datasets \cap {"zip_centroids", "ca_postal_centroids"} : content[ds] # "empty"

IsDue(ds) ==
    CASE ds \in LicenseSets -> IsLicenseDataDue(ds)
      [] ds = "zip_centroids" ->
            ~HasAnyZipCentroids /\ (rows[ds].status = "failed" => IsRetryDue(ds))
      [] OTHER ->
            rows[ds].status # "complete" /\ (rows[ds].status = "failed" => IsRetryDue(ds))

PlanDataRefresh == {ds \in Datasets : IsDue(ds)}

-----------------------------------------------------------------------------
(* One instance's updater.                                                  *)

Goes(p, r) == updater' = [updater EXCEPT ![p] = r]

CutShort == cuts < MaxCuts /\ cuts' = cuts + 1

(* UpdateImportProgress.  It does not look whose refresh the row is about.  *)
Beats == job' = [job EXCEPT !.heartbeat = 0]

StartDataUpdater(p) ==
    /\ updater[p].at = "off"
    /\ Goes(p, Waiting)
    /\ UNCHANGED <<clock, job, rows, content, cuts>>

(* Quitting: SIGTERM, or the updater finds the app gone.                     *)
StopDataUpdater(p) ==
    /\ updater[p].at # "off" /\ ~updater[p].stop
    /\ CutShort
    /\ Goes(p, [updater[p] EXCEPT !.stop = TRUE])
    /\ UNCHANGED <<clock, job, rows, content>>

UpdaterEnds(p) ==
    /\ updater[p].at = "waiting" /\ updater[p].stop
    /\ Goes(p, Off)
    /\ UNCHANGED <<clock, job, rows, content, cuts>>

(* RunRefreshIfDue plans before it claims.                                   *)
FindsWork(p) ==
    /\ updater[p].at = "waiting" /\ ~updater[p].stop
    /\ PlanDataRefresh # {}
    /\ Goes(p, [updater[p] EXCEPT !.at = "planned", !.plan = PlanDataRefresh])
    /\ UNCHANGED <<clock, job, rows, content, cuts>>

ClaimableUnlessComplete == job.status # "complete"  \* mutant: a running job can be claimed
ClaimableUnlessRunning == job.status # "running"  \* mutant: a dead process' job is never claimed
Claimable == job.status # "running" \/ job.heartbeat > StaleAfter

(* RunRefreshIfDue reads the clock for its claim; the statement may then     *)
(* wait for the lock.                                                       *)
StampClaim(p) ==
    /\ updater[p].at = "planned"
    /\ Goes(p, [updater[p] EXCEPT !.at = "claiming", !.started = clock])
    /\ UNCHANGED <<clock, job, rows, content, cuts>>

(* A heartbeat counts from its write.  The reading of the clock it is of was *)
(* at most five seconds earlier, of StaleAfter's 120.                        *)
TryClaimImportRun(p) ==
    /\ updater[p].at = "claiming"
    /\ IF Claimable
       THEN /\ job' = [job EXCEPT !.status = "running", !.started = updater[p].started,
                                  !.heartbeat = 0]
            /\ Goes(p, [updater[p] EXCEPT !.at = "claimed"])
       ELSE /\ Goes(p, [Waiting EXCEPT !.stop = updater[p].stop])
            /\ UNCHANGED job
    /\ UNCHANGED <<clock, rows, content, cuts>>

(* It reads the clock again, for the row that its end will write.             *)
StampJob(p) ==
    /\ updater[p].at = "claimed"
    /\ Goes(p, [updater[p] EXCEPT !.at = "nextSet", !.started = clock])
    /\ UNCHANGED <<clock, job, rows, content, cuts>>

(* The dataset a refresh is at.                                              *)
SetOf(p) == DatasetOrder[CHOOSE k \in 1..6 : /\ DatasetOrder[k] \in updater[p].plan
                                             /\ \A j \in 1..(k - 1) :
                                                    DatasetOrder[j] \notin updater[p].plan]

BeginLoad(p) ==
    /\ updater[p].at = "nextSet"
    /\ updater[p].plan # {}
    /\ Goes(p, [updater[p] EXCEPT !.at = "fetching", !.age = 0])
    /\ Beats
    /\ UNCHANGED <<clock, rows, content, cuts>>

(* Report, while downloading or between batches.                            *)
Report(p) ==
    /\ updater[p].at \in {"fetching", "writing"}
    /\ Beats
    /\ UNCHANGED <<clock, rows, content, updater, cuts>>

(* The download failed, was cut off or held nothing of use.                 *)
LoadFails(p) ==
    /\ updater[p].at = "fetching"
    /\ Goes(p, [updater[p] EXCEPT !.at = "loaded", !.ok = FALSE])
    /\ UNCHANGED <<clock, job, rows, content, cuts>>

(* A first batch is in the table: part of the file, beside what was there.  *)
WriteBatch(p) ==
    /\ updater[p].at = "fetching" /\ SetOf(p) \in Batched
    /\ content' = [content EXCEPT ![SetOf(p)] = "mixed"]
    /\ Goes(p, [updater[p] EXCEPT !.at = "writing"])
    /\ Beats
    /\ UNCHANGED <<clock, rows, cuts>>

(* Of the licenses, only what is stopped between batches is left so.        *)
StopsBetweenBatches(p) ==
    /\ updater[p].at = "writing" /\ updater[p].stop /\ SetOf(p) \in LicenseSets
    /\ Goes(p, [updater[p] EXCEPT !.at = "loaded", !.ok = FALSE])
    /\ UNCHANGED <<clock, job, rows, content, cuts>>

LoadsAtOnce(p) == updater[p].at = "fetching" /\ SetOf(p) \notin Batched
AtLastWrite(p) == updater[p].at = "writing" \/ LoadsAtOnce(p)

LoadWithoutDeletes(p) ==  \* mutant: licenses no longer in the file stay
    /\ AtLastWrite(p)
    /\ content' = [content EXCEPT ![SetOf(p)] = IF @ = "empty" THEN "whole" ELSE "mixed"]
    /\ Goes(p, [updater[p] EXCEPT !.at = "loaded", !.ok = TRUE])
    /\ Beats
    /\ UNCHANGED <<clock, rows, cuts>>

(* The last write.  With what is no longer in the file deleted, the table    *)
(* holds that file and nothing else, unless another refresh is writing it.   *)
LoadCompletes(p) ==
    /\ AtLastWrite(p)
    /\ LET others == {q \in Instances \ {p} : updater[q].at = "writing" /\ SetOf(q) = SetOf(p)}
       IN  content' = [content EXCEPT ![SetOf(p)] = IF others = {} THEN "whole" ELSE "mixed"]
    /\ Goes(p, [updater[p] EXCEPT !.at = "loaded", !.ok = TRUE])
    /\ Beats
    /\ UNCHANGED <<clock, rows, cuts>>

(* A load a stop was asked for during is not recorded, whatever came of it. *)
RecordDatasetOutcome(p) ==
    /\ updater[p].at = "loaded"
    /\ IF updater[p].stop
       THEN /\ Goes(p, [updater[p] EXCEPT !.at = "ended", !.outcome = "interrupted"])
            /\ UNCHANGED rows
       ELSE /\ rows' = [rows EXCEPT ![SetOf(p)] =
                    IF updater[p].ok
                    THEN [status |-> "complete", completed |-> 0, started |-> updater[p].age]
                    ELSE [@ EXCEPT !.status = "failed", !.started = updater[p].age]]
            /\ Goes(p, [updater[p] EXCEPT !.at = "nextSet", !.plan = @ \ {SetOf(p)},
                                          !.failed = @ \/ ~updater[p].ok, !.ok = FALSE])
    /\ UNCHANGED <<clock, job, content, cuts>>

AllLoaded(p) ==
    /\ updater[p].at = "nextSet" /\ updater[p].plan = {}
    /\ Goes(p, [updater[p] EXCEPT !.at = "ended",
                                  !.outcome = IF updater[p].failed THEN "failed" ELSE "complete"])
    /\ UNCHANGED <<clock, job, rows, content, cuts>>

(* A statement throws out of RunDataRefresh.                                 *)
LoadThrows(p) ==
    /\ updater[p].at \in {"nextSet", "fetching", "writing", "loaded"}
    /\ CutShort
    /\ Goes(p, [updater[p] EXCEPT !.at = "ended", !.outcome = "failed"])
    /\ UNCHANGED <<clock, job, rows, content>>

FinishStampsNow(p) ==  \* mutant: a request made while the refresh ran is forgotten
    /\ updater[p].at = "ended"
    /\ job' = [job EXCEPT !.status = updater[p].outcome, !.started = clock,
                          !.heartbeat = StaleAfter + 1]
    /\ Goes(p, [Waiting EXCEPT !.stop = updater[p].stop])
    /\ UNCHANGED <<clock, rows, content, cuts>>

(* UpsertImportRunStatus: the start of this refresh, whoever's the row is.   *)
FinishRefresh(p) ==
    /\ updater[p].at = "ended"
    /\ job' = [job EXCEPT !.status = updater[p].outcome, !.started = updater[p].started,
                          !.heartbeat = StaleAfter + 1]
    /\ Goes(p, [Waiting EXCEPT !.stop = updater[p].stop])
    /\ UNCHANGED <<clock, rows, content, cuts>>

-----------------------------------------------------------------------------
(* What happens around it.                                                   *)

(* F7 on the console's Settings page.                                        *)
RequestImportRun ==
    /\ job' = [job EXCEPT !.requested = clock]
    /\ UNCHANGED <<clock, rows, content, updater, cuts>>

(* The refresh alone is killed, or its claim throws; or the updater is killed  *)
(* too (StopDataUpdater's SIGKILL after ten seconds, or the machine's end).   *)
Killed(p) ==
    /\ updater[p].at \notin {"off", "waiting"}
    /\ CutShort
    /\ \/ Goes(p, [Waiting EXCEPT !.stop = updater[p].stop])
       \/ Goes(p, Off)
    /\ UNCHANGED <<clock, job, rows, content>>

Older(age, most) == IF age < most THEN age + 1 ELSE most

(* A second goes by.  The ranks are counted anew, from 0, and now is later   *)
(* than all of them.  Unless Stalls, a refresh at work beats often enough.   *)
Tick ==
    LET stamps == {job.started, job.requested} \cup {updater[p].started : p \in Instances}
        Rank(t) == Cardinality({s \in stamps : s < t})
    IN  /\ ~Stalls => \A p \in Instances : IsRunning(p) => job.heartbeat < StaleAfter
        /\ clock' = Cardinality(stamps)
        /\ job' = [job EXCEPT !.started = Rank(@), !.requested = Rank(@),
                              !.heartbeat = Older(@, StaleAfter + 1)]
        /\ rows' = [ds \in Datasets |->
                        [rows[ds] EXCEPT !.started = Older(@, RetryAfter),
                                         !.completed = Older(@, RenewAfter + 1)]]
        /\ updater' = [p \in Instances |->
                        [updater[p] EXCEPT !.started = Rank(@),
                            !.age = IF updater[p].at \in {"fetching", "writing", "loaded"}
                                    THEN Older(@, RetryAfter) ELSE 0]]
        /\ UNCHANGED <<content, cuts>>

(* What a refresh does without being told to.                                *)
Proceeds(p) ==
    \/ StampClaim(p) \/ TryClaimImportRun(p) \/ StampJob(p)
    \/ BeginLoad(p) \/ LoadFails(p) \/ WriteBatch(p)
    \/ StopsBetweenBatches(p) \/ LoadCompletes(p) \/ RecordDatasetOutcome(p)
    \/ AllLoaded(p) \/ LoadThrows(p) \/ FinishRefresh(p)

Next ==
    \/ \E p \in Instances :
        \/ StartDataUpdater(p) \/ StopDataUpdater(p) \/ UpdaterEnds(p) \/ FindsWork(p)
        \/ Proceeds(p) \/ Report(p) \/ Killed(p)
    \/ RequestImportRun
    \/ Tick

Spec == Init /\ [][Next]_vars

(* The updater looks every few seconds for as long as its instance runs, a   *)
(* refresh goes on, and so does time.                                        *)
Fairness ==
    /\ \A p \in Instances : WF_vars(FindsWork(p)) /\ WF_vars(Proceeds(p))
    /\ WF_vars(Tick)

FairSpec == Spec /\ Fairness

-----------------------------------------------------------------------------
(* The rows have the columns' types, and a step under way the plan it needs. *)
TypeOK ==
    /\ clock \in Nat
    /\ job \in JobRow
    /\ rows \in [Datasets -> DatasetRow]
    /\ content \in [Datasets -> {"empty", "mixed", "whole"}]
    /\ updater \in [Instances -> Refresh]
    /\ cuts \in 0..MaxCuts
    /\ \A p \in Instances :
        updater[p].at \in {"planned", "claiming", "claimed", "fetching", "writing", "loaded"}
            => updater[p].plan # {}

(* However many instances look after one database, one refresh runs at a     *)
(* time, as long as a live one does not go without a heartbeat for too long. *)
OneRefreshAtATime == \A p, q \in Instances : IsRunning(p) /\ IsRunning(q) => p = q

(* What Settings shows as last updated is true: when a dataset is recorded   *)
(* as complete its table holds that file, and nothing of an earlier one.     *)
LastUpdatedIsTrue ==
    [][\A ds \in Datasets :
        rows'[ds].status = "complete" /\ rows'[ds].completed < rows[ds].completed
            => content[ds] = "whole"]_vars

NoUpdater == \A p \in Instances : updater[p].at = "off" \/ updater[p].stop

(* Whatever is due is loaded before long while an updater runs, though the    *)
(* refresh that had the job may have died holding it.                         *)
DueIsTried ==
    \A ds \in Datasets :
        IsDue(ds) ~> ~IsDue(ds) \/ NoUpdater
                     \/ \E p \in Instances : updater[p].at = "fetching" /\ SetOf(p) = ds

Claims(p) == updater[p].at = "claiming" /\ updater'[p].at = "claimed"
Finishes(p) == updater[p].at = "ended" /\ updater'[p].at = "waiting"

(* A request made by hand stands, whatever refresh is under way, stopped or   *)
(* killed meanwhile: until a refresh is claimed, or one ends that had not yet  *)
(* read the clock for its job when the request was made.  The second is the   *)
(* price of RunRefreshIfDue's two readings: one made between them, after the  *)
(* claim, is swallowed by the refresh's last write.                          *)
RequestStands ==
    [][Requested /\ ~Requested' =>
        \E p \in Instances : Claims(p) \/ (Finishes(p) /\ job.requested <= updater[p].started)]_vars

=============================================================================
