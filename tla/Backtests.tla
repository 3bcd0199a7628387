----------------------------- MODULE Backtests -----------------------------
(***************************************************************************)
(* The life of a backtest run: the row of internal/repository/backtests.go,*)
(* the goroutine of internal/backtesting/engine.go (Run, Cancel), the      *)
(* handlers of internal/api/handlers_misc.go that create, cancel, hide and *)
(* purge runs, and the clean-up every backend process performs when it     *)
(* starts (cmd/server/main.go, buildApp).  Every SQL statement is one step *)
(* and every UPDATE of a run is unconditional but for its id.  What a run  *)
(* computes, its progress counter and its error text are left out.         *)
(***************************************************************************)
EXTENDS Integers

CONSTANTS
  RunIds,     \* run ids, each created at most once
  Procs,    \* backend processes over one database
  Servers,  \* those started as serve or api, which run backtests
  Faults    \* which of "db", "stop", "timeout", "cancel" may happen

ASSUME ServersAreProcs == Servers \subseteq Procs
ASSUME SomeProc == Procs # {}
ASSUME KnownFaults == Faults \subseteq {"db", "stop", "timeout", "cancel"}

VARIABLES
  row,    \* table backtest_runs, with whether the run has rows in backtest_trades
  job,    \* the goroutine of a run: its process and where it is
  ctx,    \* the context the goroutine runs under
  proc    \* whether a process is down, up, or up after a clean-up that failed

backtestsVars == <<row, job, ctx, proc>>

Active   == {"pending", "running"}
Terminal == {"completed", "failed", "canceled"}

Rows == [status: Active \cup Terminal \cup {"none", "purged"}, hidden: BOOLEAN,
         trades: BOOLEAN, curve: BOOLEAN, metrics: BOOLEAN]

Working == {"registering", "marking", "simulating", "failing", "canceling",
            "trades", "curve", "completing"}

\* made: what the replay has to store; clean: no fault but a dead context has
\* cut the goroutine short.
Jobs == [proc: Procs, at: Working \cup {"none", "ended", "killed"},
         made: SUBSET {"trades", "curve"}, clean: BOOLEAN]

NewJob(p, l) == [proc |-> p, at |-> l, made |-> {}, clean |-> TRUE]
AnyProc == CHOOSE p \in Procs : TRUE

Blank(status) == [status |-> status, hidden |-> FALSE, trades |-> FALSE, curve |-> FALSE,
                  metrics |-> FALSE]

BacktestsInit ==
  /\ row = [r \in RunIds |-> Blank("none")]
  /\ job = [r \in RunIds |-> NewJob(AnyProc, "none")]
  /\ ctx = [r \in RunIds |-> "live"]
  /\ proc = [p \in Procs |-> "down"]

Up == {p \in Procs : proc[p] # "down"}

Exists(r)  == row[r].status \notin {"none", "purged"}
Visible(r) == Exists(r) /\ ~row[r].hidden

\* The entry of the run in Engine.running, which Cancel looks up.
Registered(r) == job[r].at \in Working \ {"registering"}

Doing(r, l) == job[r].at = l /\ job[r].proc \in Up

Goto(r, l) == job' = [job EXCEPT ![r].at = l]

\* The database refuses or loses a statement; a dead context makes it refuse.
GotoFaulty(r, l) == job' = [job EXCEPT ![r].at = l, ![r].clean = @ /\ ctx[r] # "live"]
MayFail(r) == ctx[r] # "live" \/ "db" \in Faults

\* SetStatus: UPDATE ... WHERE id, so a row that is gone is silently missed.
SetStatus(r, status) ==
  row' = IF Exists(r)
           THEN [row EXCEPT ![r].status = status, ![r].metrics = @ \/ status = "completed"]
           ELSE row

\* handleCreateBacktest: insert the row, then start the goroutine.
Create(p, r) ==
  /\ p \in Up \cap Servers
  /\ row[r].status = "none"
  /\ row' = [row EXCEPT ![r] = Blank("pending")]
  /\ job' = [job EXCEPT ![r] = NewJob(p, "registering")]
  /\ UNCHANGED <<ctx, proc>>

Register(r) ==
  /\ Doing(r, "registering")
  /\ Goto(r, "marking")
  /\ UNCHANGED <<row, ctx, proc>>

\* The first write fails: Run returns at once.
MarkFails(r) ==
  /\ Doing(r, "marking") /\ MayFail(r)
  /\ GotoFaulty(r, "ended")
  /\ UNCHANGED <<row, ctx, proc>>

MarkRunning(r) ==
  /\ Doing(r, "marking") /\ ctx[r] = "live"
  /\ SetStatus(r, "running")
  /\ Goto(r, "simulating")
  /\ UNCHANGED <<ctx, proc>>

\* The replay may end before it looks at its context again.
Simulated(r) ==
  /\ Doing(r, "simulating")
  /\ \E made \in SUBSET {"trades", "curve"} :
       job' = [job EXCEPT ![r].at = "trades", ![r].made = made]
  /\ UNCHANGED <<row, ctx, proc>>

SimulateFails(r) ==
  /\ Doing(r, "simulating")
  /\ \/ Goto(r, "failing")
     \/ ctx[r] = "canceled" /\ Goto(r, "canceling")
  /\ UNCHANGED <<row, ctx, proc>>

\* The failure is written under a context of its own and its error ignored.
StoreOnlyCancel(r) ==
  /\ \/ Doing(r, "failing")   /\ UNCHANGED row
     \/ Doing(r, "canceling") /\ SetStatus(r, "canceled")
  /\ Goto(r, "ended")
  /\ UNCHANGED <<ctx, proc>>
StoreFailure(r) ==
  /\ \/ Doing(r, "failing")   /\ SetStatus(r, "failed")
     \/ Doing(r, "canceling") /\ SetStatus(r, "canceled")
  /\ Goto(r, "ended")
  /\ UNCHANGED <<ctx, proc>>

StoreFailureFails(r) ==
  /\ Doing(r, "failing") \/ Doing(r, "canceling")
  /\ "db" \in Faults
  /\ job' = [job EXCEPT ![r].at = "ended", ![r].clean = FALSE]
  /\ UNCHANGED <<row, ctx, proc>>

\* InsertTrades, SaveEquityCurve and the final SetStatus run under the context
\* of the run, and an error of any of them ends Run without another write.
\* A batch with no trades and an empty curve are not sent at all; the curve of
\* a row that is gone updates nothing.
StoreTradesLeniently(r) ==
  /\ Doing(r, "trades")
  /\ \/ Exists(r) /\ row' = [row EXCEPT ![r].trades = "trades" \in job[r].made]
     \/ MayFail(r) /\ UNCHANGED row
  /\ Goto(r, "curve")
  /\ UNCHANGED <<ctx, proc>>
StoreTrades(r) ==
  /\ Doing(r, "trades")
  /\ IF "trades" \in job[r].made
       THEN ctx[r] = "live" /\ Exists(r) /\ row' = [row EXCEPT ![r].trades = TRUE]
       ELSE UNCHANGED row
  /\ Goto(r, "curve")
  /\ UNCHANGED <<ctx, proc>>

StoreCurve(r) ==
  /\ Doing(r, "curve")
  /\ IF "curve" \in job[r].made
       THEN ctx[r] = "live" /\ row' = IF Exists(r) THEN [row EXCEPT ![r].curve = TRUE] ELSE row
       ELSE UNCHANGED row
  /\ Goto(r, "completing")
  /\ UNCHANGED <<ctx, proc>>

Complete(r) ==
  /\ Doing(r, "completing") /\ ctx[r] = "live"
  /\ SetStatus(r, "completed")
  /\ Goto(r, "ended")
  /\ UNCHANGED <<ctx, proc>>

\* Also the foreign key of the trades of a purged run.
StoreFails(r) ==
  /\ \/ Doing(r, "trades") /\ "trades" \in job[r].made
     \/ Doing(r, "curve") /\ "curve" \in job[r].made
     \/ Doing(r, "completing")
  /\ MayFail(r) \/ (Doing(r, "trades") /\ ~Exists(r))
  /\ GotoFaulty(r, "ended")
  /\ UNCHANGED <<row, ctx, proc>>

JobStep(r) ==
  \/ Register(r) \/ MarkFails(r) \/ MarkRunning(r)
  \/ Simulated(r) \/ SimulateFails(r)
  \/ StoreFailure(r) \/ StoreFailureFails(r)
  \/ StoreTrades(r) \/ StoreCurve(r) \/ Complete(r) \/ StoreFails(r)

\* Engine.Cancel: only a registered run, and only in its own process.
Cancel(r) ==
  /\ "cancel" \in Faults
  /\ job[r].proc \in Up /\ Registered(r) /\ ctx[r] = "live"
  /\ ctx' = [ctx EXCEPT ![r] = "canceled"]
  /\ UNCHANGED <<row, job, proc>>

\* BACKTEST_RUN_TIMEOUT.
Expire(r) ==
  /\ "timeout" \in Faults
  /\ job[r].at \in Working /\ job[r].proc \in Up /\ ctx[r] = "live"
  /\ ctx' = [ctx EXCEPT ![r] = "expired"]
  /\ UNCHANGED <<row, job, proc>>

\* SoftDelete of one run and SoftDeleteMatching of a filter: the finished ones
\* among the visible runs asked for.
Hide(S) ==
  /\ \E r \in S : Visible(r) /\ row[r].status \notin Active
  /\ row' = [r \in RunIds |->
       IF r \in S /\ Visible(r) /\ row[r].status \notin Active
         THEN [row[r] EXCEPT !.hidden = TRUE] ELSE row[r]]
  /\ UNCHANGED <<job, ctx, proc>>

\* Purge: DELETE what is hidden; the trades cascade.
Purge ==
  /\ \E r \in RunIds : Exists(r) /\ row[r].hidden
  /\ row' = [r \in RunIds |-> IF Exists(r) /\ row[r].hidden THEN Blank("purged") ELSE row[r]]
  /\ UNCHANGED <<job, ctx, proc>>

\* CleanupInterrupted, run by buildApp in every mode; its failure is a warning.
RetireRunning(rows) ==
  [r \in RunIds |-> IF rows[r].status = "running" /\ ~rows[r].hidden
                    THEN [rows[r] EXCEPT !.status = "canceled", !.hidden = TRUE]
                    ELSE rows[r]]
Retire(rows) ==
  [r \in RunIds |-> IF rows[r].status \in Active /\ ~rows[r].hidden
                    THEN [rows[r] EXCEPT !.status = "canceled", !.hidden = TRUE]
                    ELSE rows[r]]

Start(p) ==
  /\ proc[p] = "down"
  /\ \/ row' = Retire(row) /\ proc' = [proc EXCEPT ![p] = "up"]
     \/ "db" \in Faults /\ UNCHANGED row /\ proc' = [proc EXCEPT ![p] = "unclean"]
  /\ UNCHANGED <<job, ctx>>

\* The process ends, orderly or not; its goroutines end with it.
Stop(p) ==
  /\ "stop" \in Faults
  /\ p \in Up
  /\ proc' = [proc EXCEPT ![p] = "down"]
  /\ job' = [r \in RunIds |-> IF job[r].at \in Working /\ job[r].proc = p
                              THEN [job[r] EXCEPT !.at = "killed", !.clean = FALSE] ELSE job[r]]
  /\ UNCHANGED <<row, ctx>>

BacktestsNext ==
  \/ \E p \in Procs : Start(p) \/ Stop(p)
  \/ \E p \in Procs, r \in RunIds : Create(p, r)
  \/ \E r \in RunIds : JobStep(r) \/ Cancel(r) \/ Expire(r)
  \/ \E S \in SUBSET RunIds : Hide(S)
  \/ Purge

BacktestsSpec == BacktestsInit /\ [][BacktestsNext]_backtestsVars

\* Goroutines are scheduled and a stopped backend is started again.
FairSpec ==
  /\ BacktestsSpec
  /\ \A r \in RunIds : WF_backtestsVars(JobStep(r))
  /\ \A p \in Procs : WF_backtestsVars(Start(p))
-----------------------------------------------------------------------------
BacktestsTypeOK ==
  /\ row \in [RunIds -> Rows]
  /\ job \in [RunIds -> Jobs]
  /\ ctx \in [RunIds -> {"live", "canceled", "expired"}]
  /\ proc \in [Procs -> {"down", "up", "unclean"}]

\* A completed run shows everything its replay made: the row says completed
\* only after the trades and the curve are stored (engine.go 164-172), and no
\* other status carries metrics.
CompletedIsWhole == \A r \in RunIds :
  /\ row[r].metrics <=> row[r].status = "completed"
  /\ row[r].status = "completed" =>
       /\ row[r].trades <=> "trades" \in job[r].made
       /\ row[r].curve <=> "curve" \in job[r].made

\* An active run that no goroutine works on was left by a fault, never by the
\* normal course of Run; only a restart can finish it.
AbandonedOnlyByFault == \A r \in RunIds :
  row[r].status \in Active /\ job[r].at \in {"ended", "killed"} =>
    ~job[r].clean \/ ctx[r] # "live"

\* A run that was started does not stay active for ever, unless its goroutine
\* ended in a living process without being able to say so, or the process died
\* and the next one failed to clean up after it.
Stuck(r) ==
  /\ row[r].status \in Active
  /\ \/ job[r].at = "ended"
     \/ job[r].at = "killed" /\ \E p \in Procs : proc[p] = "unclean"

Settles == \A r \in RunIds :
  (row[r].status \in Active) ~> (row[r].status \notin Active \/ Stuck(r))

=============================================================================
