--------------------------- MODULE AnalysisCycle ---------------------------
(***************************************************************************)
(* The analysis loop of the scheduler, "analyse now" requests, and the     *)
(* analyses both start: scheduler.Scheduler over recommendations.Service.  *)
(* They share the semaphore that limits concurrent analyses and the tables *)
(* of positions and recommendations.  Time is counted in small units;      *)
(* every statement, lock section and wait of an analysis that meets        *)
(* another actor is a step.  What an analysis computes is left out, except *)
(* for the positions its recommendation may name.                          *)
(***************************************************************************)
EXTENDS Naturals, SequencesExt, FiniteSets

CONSTANTS
  Assets,      \* tracked assets; also the goroutines a cycle starts for them
  Callers,     \* "analyse now" requests, one each
  Positions,
  AssetOf,     \* the asset of a position
  Wants,       \* the assets a request may be for
  Slots,       \* analysis.max_concurrent_symbols
  Intervals,   \* values of analysis.interval
  Grace,       \* the grace period before a cycle
  Cooldown,    \* analysis.manual_cooldown
  MaxEvents,   \* bound: what the user does besides asking for analyses
  MaxTime,     \* bound: the clock
  Loop,        \* the analysis loop, as a waiter of the semaphore
  Nothing      \* no position, no recommendation

ASSUME SomeSlots == Slots \in Nat \ {0}         \* scheduler.go:61-64
ASSUME PositiveIntervals == Intervals \subseteq Nat \ {0}
ASSUME Times == Cooldown \in Nat /\ Grace \in Nat /\ MaxTime \in Nat
ASSUME FiniteAssets == IsFiniteSet(Assets)
ASSUME PositionsOfAssets == AssetOf \in [Positions -> Assets]
ASSUME WantsAssets == Wants \in [Callers -> SUBSET Assets]
ASSUME NothingIsNoAnswer == Nothing \notin [asset: Assets, at: Nat, admitted: BOOLEAN]

VARIABLES
  now,
  settings,    \* the analysis section: [enabled, interval]
  tracked,     \* enabled assets
  events,      \* how much of that happened
  stopped,     \* the process context was cancelled
  position,    \* "none", "open" or "closed"
  loop,        \* analysisLoop and RunCycle: [pc, wake, queue]
  sem,         \* the semaphore: [free, waiters]
  task,        \* the locals of each analysis
  lastManual,  \* Scheduler.lastManual
  cycle,       \* history: what the current cycle was to do and did
  answered     \* history: when each request was admitted or refused

clock == <<now, settings, tracked, events, stopped>>
vars == <<now, settings, tracked, events, stopped, position, loop, sem, task,
          lastManual, cycle, answered>>

Tasks == Assets \cup Callers
Never == MaxTime + 1
Open  == {p \in Positions : position[p] = "open"}
OpenOf(a) == {p \in Open : AssetOf[p] = a}

Idle == [pc |-> "idle", asset |-> CHOOSE a \in Assets : TRUE,
         ids |-> {}, alive |-> {}]

NoCycle == [due |-> {}, held |-> {}, started |-> <<>>]

\* Interval and grace period are measured from the clock of now.
Boundary(t, interval) == ((t \div interval) + 1) * interval
Asleep(t) == [pc |-> "asleep", wake |-> Boundary(t, settings.interval) + Grace, queue |-> <<>>]

Init ==
  /\ now = 0
  /\ settings \in [enabled: {TRUE}, interval: Intervals]
  /\ tracked = Assets
  /\ events = 0
  /\ stopped = FALSE
  /\ position \in [Positions -> {"none", "open"}]
  /\ loop = Asleep(0)
  /\ sem = [free |-> Slots, waiters |-> <<>>]
  /\ task = [t \in Tasks |-> Idle]
  /\ lastManual = [a \in Assets |-> Never]
  /\ cycle = NoCycle
  /\ answered = [c \in Callers |-> Nothing]

(***************************************************************************)
(* The surroundings: time, the settings screen, the user's positions, the  *)
(* end of the process.                                                     *)
(***************************************************************************)
Tick ==
  /\ ~stopped
  /\ now < MaxTime
  /\ now' = now + 1
  /\ UNCHANGED <<settings, tracked, events, stopped, position, loop, sem, task, lastManual,
                 cycle, answered>>

Event ==
  /\ ~stopped
  /\ events < MaxEvents
  /\ events' = events + 1

EditSettings ==
  /\ Event
  /\ settings' \in [enabled: BOOLEAN, interval: Intervals]
  /\ UNCHANGED <<now, tracked, stopped, position, loop, sem, task, lastManual, cycle, answered>>

\* An asset is added to the tracked ones or taken out.
Toggle(a) ==
  /\ Event
  /\ tracked' = IF a \in tracked THEN tracked \ {a} ELSE tracked \cup {a}
  /\ UNCHANGED <<now, settings, stopped, position, loop, sem, task, lastManual, cycle, answered>>

\* alive is history: the positions of its asset an analysis could have seen open.
OpenPosition(p) ==
  /\ Event
  /\ position[p] = "none"
  /\ position' = [position EXCEPT ![p] = "open"]
  /\ task' = [t \in Tasks |->
                IF task[t].asset = AssetOf[p] THEN [task[t] EXCEPT !.alive = @ \cup {p}] ELSE task[t]]
  /\ UNCHANGED <<now, settings, tracked, stopped, loop, sem, lastManual, cycle, answered>>

ClosePosition(p) ==
  /\ Event
  /\ position[p] = "open"
  /\ position' = [position EXCEPT ![p] = "closed"]
  /\ UNCHANGED <<now, settings, tracked, stopped, loop, sem, task, lastManual,
                 cycle, answered>>

Stop ==
  /\ Event
  /\ stopped' = TRUE
  /\ UNCHANGED <<now, settings, tracked, position, loop, sem, task, lastManual,
                 cycle, answered>>

(***************************************************************************)
(* The semaphore serves its waiters in order.                              *)
(***************************************************************************)
Queue(who)   == sem' = [sem EXCEPT !.waiters = Append(@, who)]
Served(who)  == sem.waiters # <<>> /\ Head(sem.waiters) = who /\ sem.free > 0
Take         == sem' = [free |-> sem.free - 1, waiters |-> Tail(sem.waiters)]
LeaveQueued(who) == UNCHANGED sem
Leave(who)   == sem' = [sem EXCEPT !.waiters = Remove(@, who)]
Release      == sem' = [sem EXCEPT !.free = @ + 1]

Holding == {"build", "infer"}

(***************************************************************************)
(* analysisLoop: sleep to the next boundary and a little longer for the    *)
(* candle to land, look at the switch, run a cycle.  RunCycle is called    *)
(* from here only, so its check of cycleRunning never finds a cycle.       *)
(***************************************************************************)
LoopStops ==
  /\ stopped
  /\ loop.pc = "asleep"
  /\ loop' = [loop EXCEPT !.pc = "stopped"]
  /\ UNCHANGED <<clock, position, sem, task, lastManual, cycle, answered>>

\* List returns the assets in some order, and the groups keep it.  Which of
\* them had a strong entry signal lately is left open.
Prioritised(held, strong) ==
  {group[1] \o group[2] \o group[3] :
     group \in SetToSeqs(tracked \cap held)
               \X SetToSeqs((tracked \cap strong) \ held)
               \X SetToSeqs(tracked \ (held \cup strong))}

\* A cycle with nothing to do, or whose tables could not be read, is over.
StartCycle ==
  /\ loop.pc = "asleep"
  /\ now >= loop.wake
  /\ \/ /\ settings.enabled
        /\ \E strong \in SUBSET tracked :
             LET held == {AssetOf[p] : p \in Open} IN
             \E order \in Prioritised(held, strong) :
               /\ order # <<>>
               /\ loop' = [loop EXCEPT !.pc = "dispatch", !.queue = order]
               /\ cycle' = [due |-> tracked, held |-> held, started |-> <<>>]
     \/ loop' = Asleep(now) /\ UNCHANGED cycle
  /\ UNCHANGED <<clock, position, sem, task, lastManual, answered>>

\* The next asset of the cycle asks for a slot.
Ask ==
  /\ loop.pc = "dispatch"
  /\ IF loop.queue = <<>> \/ stopped
       THEN loop' = [loop EXCEPT !.pc = "drain", !.queue = <<>>] /\ UNCHANGED sem
       ELSE loop' = [loop EXCEPT !.pc = "waiting"] /\ Queue(Loop)
  /\ UNCHANGED <<clock, position, task, lastManual, cycle, answered>>

Begun(t, a) == [Idle EXCEPT !.pc = "build", !.asset = a, !.alive = OpenOf(a)]

Spawn ==
  /\ loop.pc = "waiting"
  /\ Served(Loop)
  /\ Take
  /\ LET a == Head(loop.queue) IN
       /\ task' = [task EXCEPT ![a] = Begun(a, a)]
       /\ cycle' = [cycle EXCEPT !.started = Append(@, a)]
  /\ loop' = [loop EXCEPT !.pc = "dispatch", !.queue = Tail(@)]
  /\ UNCHANGED <<clock, position, lastManual, answered>>

\* Acquire returns the error of the cancelled context.
StopWaiting ==
  /\ loop.pc = "waiting"
  /\ stopped
  /\ Leave(Loop)
  /\ loop' = [loop EXCEPT !.pc = "drain", !.queue = <<>>]
  /\ UNCHANGED <<clock, position, task, lastManual, cycle, answered>>

DrainedNoWait == TRUE
Drained == \A a \in Assets : task[a].pc = "idle"

EndCycle ==
  /\ loop.pc = "drain"
  /\ Drained
  /\ loop' = Asleep(now)
  /\ cycle' = NoCycle
  /\ UNCHANGED <<clock, position, sem, task, lastManual, answered>>

(***************************************************************************)
(* AnalyzeNow.  The check and the stamp of the cooldown are one lock       *)
(* section; the request then waits for a slot until its deadline.          *)
(***************************************************************************)
CoolingDownOff(a) == lastManual[a] # Never /\ now - lastManual[a] <= Cooldown
CoolingDown(a) == lastManual[a] # Never /\ now - lastManual[a] < Cooldown

Request(c, a) ==
  /\ task[c].pc = "idle"
  /\ answered[c] = Nothing
  /\ ~stopped
  /\ answered' = [answered EXCEPT ![c] = [asset |-> a, at |-> now, admitted |-> ~CoolingDown(a)]]
  /\ IF CoolingDown(a)
       THEN UNCHANGED <<lastManual, sem, task>>
       ELSE /\ lastManual' = [lastManual EXCEPT ![a] = now]
            /\ Queue(c)
            /\ task' = [task EXCEPT ![c].pc = "waiting", ![c].asset = a]
  /\ UNCHANGED <<clock, position, loop, cycle>>

Enter(c) ==
  /\ task[c].pc = "waiting"
  /\ Served(c)
  /\ Take
  /\ task' = [task EXCEPT ![c] = Begun(c, task[c].asset)]
  /\ UNCHANGED <<clock, position, loop, lastManual, cycle, answered>>

GiveUp(c) ==
  /\ task[c].pc = "waiting"
  /\ Leave(c)
  /\ task' = [task EXCEPT ![c] = Idle]
  /\ UNCHANGED <<clock, position, loop, lastManual, cycle, answered>>

(***************************************************************************)
(* Analyze.  Each step may fail; a failure ends the analysis and gives the *)
(* slot back, an error that is only logged leaves a default behind.        *)
(***************************************************************************)
At(t, pc)     == task[t].pc = pc
Become(t, r)  == task' = [task EXCEPT ![t] = r] /\ UNCHANGED sem
Done(t)       == task' = [task EXCEPT ![t] = Idle] /\ Release

\* A step of an analysis fails before its recommendation is stored; an
\* inference that fails or is switched off ends here too.
Fail(t) ==
  /\ task[t].pc \in {"build", "infer"}
  /\ Done(t)
  /\ UNCHANGED <<clock, position, loop, lastManual, cycle, answered>>

OpenIdsAnyAsset(a) == Open
OpenIds(a) == OpenOf(a)

\* The deterministic half is done and its run stored; the ids an answer may
\* name are read now.  If that fails there are none.
ReadPositions(t) ==
  /\ At(t, "build")
  /\ \E ids \in {OpenIds(task[t].asset), {}} :
       Become(t, [task[t] EXCEPT !.pc = "infer", !.ids = ids])
  /\ UNCHANGED <<clock, position, loop, lastManual, cycle, answered>>

\* The model has answered, and the recommendation is stored.
Recommend(t) ==
  /\ At(t, "infer")
  /\ Done(t)
  /\ UNCHANGED <<clock, position, loop, lastManual, cycle, answered>>

AnalysisStep(t) == ReadPositions(t) \/ Recommend(t) \/ Fail(t)

LoopStep ==
  \/ StartCycle \/ Ask \/ Spawn \/ StopWaiting \/ EndCycle \/ LoopStops

Next ==
  \/ Tick \/ EditSettings \/ Stop
  \/ \E a \in Assets : Toggle(a)
  \/ \E p \in Positions : OpenPosition(p) \/ ClosePosition(p)
  \/ LoopStep
  \/ \E c \in Callers : Enter(c) \/ GiveUp(c) \/ \E a \in Wants[c] : Request(c, a)
  \/ \E t \in Tasks : AnalysisStep(t)

Spec == Init /\ [][Next]_vars

\* Goroutines and statements make progress: requests to the database and to
\* the model have timeouts.  Nobody is assumed to give up.
FairSpec ==
  /\ Spec
  /\ WF_vars(LoopStep)
  /\ \A c \in Callers : WF_vars(Enter(c))
  /\ \A t \in Tasks : WF_vars(AnalysisStep(t))

(***************************************************************************)
(* Properties.                                                             *)
(***************************************************************************)
TypeOK ==
  /\ now \in 0..MaxTime
  /\ settings \in [enabled: BOOLEAN, interval: Intervals]
  /\ tracked \subseteq Assets
  /\ position \in [Positions -> {"none", "open", "closed"}]
  /\ loop.pc \in {"asleep", "dispatch", "waiting", "drain", "stopped"}
  /\ loop.queue \in Seq(Assets)
  /\ sem.free \in 0..Slots /\ sem.waiters \in Seq(Callers \cup {Loop})
  /\ \A t \in Tasks : task[t].pc \in Holding \cup {"idle", "waiting"}
  /\ lastManual \in [Assets -> 0..Never]

\* "RunCycle analyses every enabled asset once, in priority order": a cycle
\* that was not cut short has started each asset that was enabled when it
\* began exactly once, those with an open position before the others, and
\* nothing of it is still running when the loop goes back to sleep - whatever
\* requests took slots in between (scheduler.go:343).
CycleIsComplete ==
  [][(loop.pc = "drain" /\ loop'.pc = "asleep") =>
       /\ ~stopped => /\ ToSet(cycle.started) = cycle.due
                      /\ Len(cycle.started) = Cardinality(cycle.due)
       /\ \A i, j \in DOMAIN cycle.started :
            i < j /\ cycle.started[j] \in cycle.held => cycle.started[i] \in cycle.held
       /\ \A a \in Assets : task[a].pc = "idle"]_vars

\* The cooldown counts admitted requests: two of one asset are at least
\* Cooldown apart, and a refusal is owed to a request admitted less than
\* Cooldown before, never to an earlier refusal (scheduler.go:503-511).
CooldownIsFair ==
  \A c \in Callers : answered[c] # Nothing =>
    LET earlier == {d \in Callers \ {c} : /\ answered[d] # Nothing
                                          /\ answered[d].admitted
                                          /\ answered[d].asset = answered[c].asset
                                          /\ answered[d].at <= answered[c].at}
    IN IF answered[c].admitted
         THEN \A d \in earlier : answered[c].at - answered[d].at >= Cooldown
         ELSE \E d \in earlier : answered[c].at - answered[d].at < Cooldown

\* The positions a recommendation may name are of its own asset and were open
\* at some moment since the analysis began, however long the inference takes
\* (recommendations/service.go:156-177, llm/validate.go).
NamesOpenPosition ==
  \A t \in Tasks : task[t].ids \subseteq task[t].alive

\* A cycle and every admitted request come to an end: the semaphore serves
\* its waiters in order, and everyone who has a slot gives it back.
CyclesEnd   == loop.pc \in {"dispatch", "waiting", "drain"} ~> loop.pc \in {"asleep", "stopped"}
RequestsEnd == \A c \in Callers : task[c].pc # "idle" ~> task[c].pc = "idle"
EverythingEnds == CyclesEnd /\ RequestsEnd
=============================================================================
