------------------------------ MODULE Importer ------------------------------
(***************************************************************************)
(* The manual history import as the user watches it                        *)
(* (internal/marketdata/importer.go): one job at a time, polled and        *)
(* cancelled over HTTP while a detached goroutine works through the        *)
(* requested assets and timeframes.  What a unit downloads is the subject  *)
(* of CandleHistory; here it succeeds or fails.                            *)
(***************************************************************************)
EXTENDS Naturals, FiniteSets

CONSTANTS
  JobIds,    \* job ids, each started at most once
  MaxUnits,  \* bound: assets times timeframes of one job
  NoJob      \* Service.importJob is nil

ASSUME UnitsPositive == MaxUnits \in Nat \ {0}
ASSUME NoJobIsNoJob == NoJob \notin JobIds

VARIABLES
  importJob,  \* the job last started, or NoJob
  progress,   \* the ImportProgress of each job
  worker      \* the goroutine of each job

importVars == <<importJob, progress, worker>>

Statuses == {"running", "completed", "failed", "canceled"}

Progress == [status: Statuses, total: 0..MaxUnits, items: 0..MaxUnits, errors: 0..MaxUnits]

\* units: handled so far; failures: the goroutine's own count; canceled: the
\* context of the job has ended.
Workers == [at: {"none", "loop", "downloading", "recording", "deciding", "finishing", "ended"},
            units: 0..MaxUnits, failures: 0..MaxUnits, lastFailed: BOOLEAN, canceled: BOOLEAN,
            verdict: Statuses]

ImportInit ==
  /\ importJob = NoJob
  /\ progress = [j \in JobIds |-> [status |-> "running", total |-> 0, items |-> 0, errors |-> 0]]
  /\ worker = [j \in JobIds |-> [at |-> "none", units |-> 0, failures |-> 0, lastFailed |-> FALSE,
                                 canceled |-> FALSE, verdict |-> "running"]]

Running == importJob # NoJob /\ progress[importJob].status = "running"

StartImport(j, units) ==
  /\ worker[j].at = "none"
  /\ ~Running
  /\ importJob' = j
  /\ progress' = [progress EXCEPT ![j].total = units]
  /\ worker' = [worker EXCEPT ![j].at = "loop"]

\* CancelImport only ends the context; the goroutine notices.
CancelEagerly(p) == [p EXCEPT !.status = "canceled"]
CancelEffect(p) == p

CancelImport ==
  /\ Running
  /\ worker' = [worker EXCEPT ![importJob].canceled = TRUE]
  /\ progress' = [progress EXCEPT ![importJob] = CancelEffect(@)]
  /\ UNCHANGED importJob

MoveTo(j, at) == worker' = [worker EXCEPT ![j].at = at]
AnnounceNothing(j, status) == worker' = [worker EXCEPT ![j].at = "ended", ![j].verdict = status]
Announce(j, status) == worker' = [worker EXCEPT ![j].at = "finishing", ![j].verdict = status]

\* The head of the loop: the context is checked before every unit, and once
\* more after the last.
MoreOrEqual(j) == worker[j].units <= progress[j].total
More(j) == worker[j].units < progress[j].total

Loop(j) ==
  /\ worker[j].at = "loop"
  /\ IF worker[j].canceled THEN Announce(j, "canceled")
     ELSE IF More(j) THEN MoveTo(j, "downloading")
     ELSE MoveTo(j, "deciding")
  /\ UNCHANGED <<importJob, progress>>

\* ImportCandles; an ended context makes it fail, as does much else.
Download(j, fails) ==
  /\ worker[j].at = "downloading"
  /\ worker' = [worker EXCEPT ![j].at = "recording", ![j].units = @ + 1,
                              ![j].failures = IF fails THEN @ + 1 ELSE @, ![j].lastFailed = fails]
  /\ UNCHANGED <<importJob, progress>>

\* updateImport and finishImport write to whatever job is current.
Record(j) ==
  /\ worker[j].at = "recording"
  /\ progress' = [progress EXCEPT
       ![importJob].items = @ + 1, ![importJob].errors = IF worker[j].lastFailed THEN @ + 1 ELSE @]
  /\ MoveTo(j, "loop")
  /\ UNCHANGED importJob

AnyFailed(j) == worker[j].failures > 0
AllFailed(j) == worker[j].failures = progress[j].total

Decide(j) ==
  /\ worker[j].at = "deciding"
  /\ Announce(j, IF AllFailed(j) THEN "failed" ELSE "completed")
  /\ UNCHANGED <<importJob, progress>>

FinishImport(j) ==
  /\ worker[j].at = "finishing"
  /\ progress' = [progress EXCEPT ![importJob].status = worker[j].verdict]
  /\ MoveTo(j, "ended")
  /\ UNCHANGED importJob

Step(j) ==
  \/ Loop(j) \/ Record(j) \/ Decide(j) \/ FinishImport(j)
  \/ \E fails \in BOOLEAN : Download(j, fails)

ImportNext ==
  \/ \E j \in JobIds, units \in 1..MaxUnits : StartImport(j, units)
  \/ CancelImport
  \/ \E j \in JobIds : Step(j)

ImportSpec == ImportInit /\ [][ImportNext]_importVars

\* The goroutine runs, and each download ends: the HTTP client has a timeout
\* and a bounded number of retries.
FairSpec == ImportSpec /\ \A j \in JobIds : WF_importVars(Step(j))

ImportTypeOK ==
  /\ importJob \in JobIds \cup {NoJob}
  /\ progress \in [JobIds -> Progress]
  /\ worker \in [JobIds -> Workers]

Alive(j) == worker[j].at \notin {"none", "ended"}

\* Only one job works at a time, and it is the one the user sees: no goroutine
\* is left that could still write into the progress of a later job.
OneWorker == \A j \in JobIds : Alive(j) => j = importJob

\* The verdict agrees with the per-unit list the user reads: completed means
\* every unit was tried and one succeeded, failed that each was tried and none
\* did, canceled that somebody asked for it.
VerdictIsTrue ==
  \A j \in JobIds : worker[j].at = "ended" =>
    LET p == progress[j]
    IN  /\ p.status = "completed" => p.items = p.total /\ p.errors < p.total
        /\ p.status = "failed" => p.items = p.total /\ p.errors = p.total
        /\ p.status = "canceled" => worker[j].canceled

\* A job the user no longer sees running stays as it was reported.
FinishedStays ==
  [][\A j \in JobIds : worker[j].at # "none" /\ progress[j].status # "running"
       => progress'[j] = progress[j]]_importVars

\* A job that was started is reported finished, cancelled or not.
ImportEnds == \A j \in JobIds : worker[j].at = "loop" ~> progress[j].status # "running"
=============================================================================
