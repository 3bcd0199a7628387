----------------------------- MODULE Inference -----------------------------
(***************************************************************************)
(* Requests to the language model: llm.Service.Analyze on top of the       *)
(* llm.Client it shares with the Settings screen, and the table            *)
(* llm_inferences that keeps a trace of every request and serves the       *)
(* replay cache.  Each lock section, wait and statement is one step.       *)
(* Of a prompt only the model it is meant for is kept; whether it fits the *)
(* context window and whether an answer validates are free choices.        *)
(***************************************************************************)
EXTENDS Naturals, Sequences, FiniteSets

CONSTANTS
  Callers,     \* goroutines that run Analyze: analyses and replays
  Models,      \* model names the settings may carry
  Slots,       \* values of max_concurrent_requests
  MaxResizes,  \* bound: how often the semaphore is rebuilt
  MaxTraces    \* bound: how many different traces are stored

ASSUME SlotsPositive == Slots \subseteq Nat \ {0}   \* config.go:373, settings/service.go:376

VARIABLES
  cfg,        \* Client.cfg: [model, enabled, max]
  sems,       \* every semaphore so far; the last one is Client.sem
  call,       \* the locals of each Analyze
  traces      \* table llm_inferences

inferenceVars == <<cfg, sems, call, traces>>

Unanswered == "no model"
Answers == Models \cup {Unanswered}

\* "failed" stands for the four statuses of statusFor.
Useful   == {"ok", "repaired", "cached"}
Statuses == Useful \cup {"invalid", "failed"}

\* model_name (which with the prompt makes the cache key), the model that
\* produced llm_raw_output, and the status.
Traces == [model: Models, by: Answers, status: Statuses]

\* pc: prepared and looking before the first Complete, entering and waiting
\* and sending inside Complete, answered after it.
Calls == [pc: {"idle", "prepared", "looking", "entering", "waiting", "sending", "answered"},
          model: Models,      \* cfg.Model as Analyze read it
          cached: BOOLEAN,    \* Request.UseCache
          snap: Models,       \* cfg.Model as Complete read it
          sem: Nat,           \* the semaphore Complete captured
          repair: BOOLEAN,    \* RepairAttempted
          by: Answers]        \* who produced record.RawOutput

Current == Len(sems)
Resting == [pc |-> "idle", model |-> CHOOSE m \in Models : TRUE, cached |-> FALSE,
            snap |-> CHOOSE m \in Models : TRUE, sem |-> 0, repair |-> FALSE, by |-> Unanswered]

\* NewClient.
InferenceInit ==
  /\ cfg \in [model: Models, enabled: BOOLEAN, max: Slots]
  /\ sems = <<[size |-> cfg.max, taken |-> 0]>>
  /\ call = [c \in Callers |-> Resting]
  /\ traces = {}

(***************************************************************************)
(* Client.SetConfig.                                                       *)
(***************************************************************************)
NewSemaphore(n) == Append(sems, [size |-> n, taken |-> 0])

SetConfig(m, on, n) ==
  /\ cfg' = [model |-> m, enabled |-> on, max |-> n]
  /\ IF n # cfg.max
       THEN /\ Current <= MaxResizes
            /\ sems' = NewSemaphore(n)
       ELSE UNCHANGED sems
  /\ UNCHANGED <<call, traces>>

(***************************************************************************)
(* Service.Analyze.  Return stores the trace, which may be lost, and ends  *)
(* the call.                                                               *)
(***************************************************************************)
Trace(c, status) == [model |-> call[c].model, by |-> call[c].by, status |-> status]

Persist(t) ==
  \/ UNCHANGED traces
  \/ Cardinality(traces) < MaxTraces /\ traces' = traces \cup {t}

Return(c, status) ==
  /\ Persist(Trace(c, status))
  /\ call' = [call EXCEPT ![c] = Resting]

MoveTo(c, pc) == call' = [call EXCEPT ![c].pc = pc]

\* The configuration is read once here; a prompt that does not fit leaves no
\* trace, and the caller never gets past "idle".
Prepare(c, useCache) ==
  /\ call[c].pc = "idle"
  /\ call' = [call EXCEPT ![c].pc = "prepared", ![c].model = cfg.model, ![c].cached = useCache]
  /\ UNCHANGED <<cfg, sems, traces>>

CheckEnabled(c) ==
  /\ call[c].pc = "prepared"
  /\ IF cfg.enabled
       THEN MoveTo(c, "looking") /\ UNCHANGED traces
       ELSE Return(c, "failed")
  /\ UNCHANGED <<cfg, sems>>

\* CachedInference: a row of the same key with an answer worth reusing.
ReusableIfAnswered(t) == t.by # Unanswered
Reusable(t) == t.status \in Useful
Hits(m) == {t \in traces : t.model = m /\ Reusable(t)}

\* A hit that does not validate for this request is ignored.
LookUp(c) ==
  /\ call[c].pc = "looking"
  /\ \/ /\ call[c].cached
        /\ \E t \in Hits(call[c].model) :
             Persist([Trace(c, "cached") EXCEPT !.by = t.by])
        /\ call' = [call EXCEPT ![c] = Resting]
     \/ MoveTo(c, "entering") /\ UNCHANGED traces
  /\ UNCHANGED <<cfg, sems>>

(***************************************************************************)
(* Client.Complete: everything it uses is read in one lock section.        *)
(***************************************************************************)
Enter(c) ==
  /\ call[c].pc = "entering"
  /\ IF cfg.enabled
       THEN /\ call' = [call EXCEPT ![c].pc = "waiting", ![c].snap = cfg.model, ![c].sem = Current]
            /\ UNCHANGED traces
       ELSE Return(c, "failed")
  /\ UNCHANGED <<cfg, sems>>

HasSlot(s) == s.taken < s.size

Acquire(c) ==
  /\ call[c].pc = "waiting"
  /\ HasSlot(sems[call[c].sem])
  /\ sems' = [sems EXCEPT ![call[c].sem].taken = @ + 1]
  /\ MoveTo(c, "sending")
  /\ UNCHANGED <<cfg, traces>>

\* The caller's context ends before a slot is free.
GiveUp(c) ==
  /\ call[c].pc = "waiting"
  /\ Return(c, "failed")
  /\ UNCHANGED <<cfg, sems>>

\* The slot goes back to the semaphore it was taken from; receiving from an
\* empty channel would block.
HeldCurrent(c) == Current
Held(c) == call[c].sem

Release(c) ==
  /\ sems[Held(c)].taken > 0
  /\ sems' = [sems EXCEPT ![Held(c)].taken = @ - 1]

Answer(c) ==
  /\ call[c].pc = "sending"
  /\ Release(c)
  /\ call' = [call EXCEPT ![c].pc = "answered", ![c].by = call[c].snap]
  /\ UNCHANGED <<cfg, traces>>

Fail(c) ==
  /\ call[c].pc = "sending"
  /\ Release(c)
  /\ Return(c, "failed")
  /\ UNCHANGED cfg

\* parseAndValidate, and the one repair request.
Accept(c) ==
  /\ call[c].pc = "answered"
  /\ Return(c, IF call[c].repair THEN "repaired" ELSE "ok")
  /\ UNCHANGED <<cfg, sems>>

Reject(c) ==
  /\ call[c].pc = "answered"
  /\ Return(c, "invalid")
  /\ UNCHANGED <<cfg, sems>>

Repair(c) ==
  /\ call[c].pc = "answered"
  /\ ~call[c].repair
  /\ call' = [call EXCEPT ![c].pc = "entering", ![c].repair = TRUE]
  /\ UNCHANGED <<cfg, sems, traces>>

Local(c) == CheckEnabled(c) \/ LookUp(c) \/ Enter(c) \/ Accept(c) \/ Reject(c) \/ Repair(c)

InferenceNext ==
  \/ \E m \in Models, on \in BOOLEAN, n \in Slots : SetConfig(m, on, n)
  \/ \E c \in Callers :
       \/ \E useCache \in BOOLEAN : Prepare(c, useCache)
       \/ Local(c) \/ Acquire(c) \/ GiveUp(c) \/ Answer(c) \/ Fail(c)

InferenceSpec == InferenceInit /\ [][InferenceNext]_inferenceVars

(***************************************************************************)
(* Fairness: a goroutine that can run does; an HTTP request ends because   *)
(* http.Client has a timeout; and a channel serves its blocked senders in  *)
(* order, so a slot that keeps coming free reaches every waiter.  No       *)
(* caller is assumed to give up.                                           *)
(***************************************************************************)
InferenceFairSpec ==
  /\ InferenceSpec
  /\ \A c \in Callers : /\ WF_inferenceVars(Local(c))
                        /\ WF_inferenceVars(Answer(c) \/ Fail(c))
                        /\ SF_inferenceVars(Acquire(c))

InferenceTypeOK ==
  /\ cfg \in [model: Models, enabled: BOOLEAN, max: Slots]
  /\ sems \in Seq([size: Slots, taken: Nat])
  /\ call \in [Callers -> Calls]
  /\ traces \subseteq Traces

InFlight == {c \in Callers : call[c].pc = "sending"}

\* A semaphore that was replaced while requests held it is neither leaked nor
\* overdrawn: its counter is the number of requests that took a slot of it, and
\* a slot is never given back to a semaphore it was not taken from
\* (client.go:112-125 against the deferred release in Complete, 160-165).
SlotsAccounted ==
  \A i \in 1..Current :
    /\ sems[i].taken = Cardinality({c \in InFlight : call[c].sem = i})
    /\ sems[i].taken <= sems[i].size

\* Whatever the cache serves was once validated: behind every cached row is a
\* row of the same key whose answer came from that model and passed
\* (CachedInference, repository/recommendations.go:479-486).
CachedHasOrigin ==
  \A t \in traces : t.status = "cached" =>
    \E o \in traces : o.status \in {"ok", "repaired"} /\ o.model = t.model /\ o.by = t.by

\* Every request that enters Complete leaves it, also when the semaphore it
\* waits on has been replaced meanwhile.
EveryRequestEnds == \A c \in Callers : call[c].pc = "waiting" ~> call[c].pc \in {"idle", "answered"}

=============================================================================
