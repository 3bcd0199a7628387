------------------------------ MODULE Settings ------------------------------
(***************************************************************************)
(* The editable settings: the document in app_settings, the copy every     *)
(* backend process keeps (internal/settings/service.go), and the           *)
(* configuration each running component was last handed                    *)
(* (cmd/server/main.go, liveConfig.ApplySettings).  Statements and lock    *)
(* sections are single steps; nothing serialises two updates.              *)
(***************************************************************************)
EXTENDS Naturals, Sequences

CONSTANTS
  None,     \* no document is stored
  Procs,    \* backend processes over one database
  Apis,     \* those that serve the HTTP API
  Clients,  \* PUT /api/settings requests
  Edits,    \* contents a user may ask for
  Faults    \* what Put may do: "refused", or "lost" (stored, reply lost)

ASSUME SomeProc == Procs # {}
ASSUME ApisAreProcs == Apis \subseteq Procs
ASSUME ActorsDiffer == Clients \cap Procs = {}
ASSUME KnownFaults == Faults \subseteq {"refused", "lost"}

Env  == "environment"

\* A document is plain when normalize leaves it as it is.  validate lets one
\* through that is not: an empty or the old prompt version, no risk per trade.
Docs == [edit: Edits \cup {Env}, plain: BOOLEAN]

ASSUME NoneIsNoDocument == None \notin Docs

VARIABLES
  stored,   \* the row of app_settings, or None
  current,  \* Service.current, per process
  live,     \* the document each component of a process was configured from
  actor     \* the locals of Update, per client, and of Load, per process

vars == <<stored, current, live, actor>>

Normalize(d) == [d EXCEPT !.plain = TRUE]
Defaults == [edit |-> Env, plain |-> TRUE]

Components == {"positions", "risk", "analysis risk", "analysis", "scheduler", "analysis strategy",
               "llm", "backtests", "backtests strategy", "backtests news", "analysis news",
               "scheduler news"}
Sections == {"fees", "risk", "analysis", "strategy", "llm", "news"}

(***************************************************************************)
(* ApplySettings: it projects a section of the settings that are current   *)
(* at that moment (to = "hand") or hands a projection to a component.      *)
(***************************************************************************)
Read(section)    == [section |-> section, to |-> "hand"]
Give(section, c) == [section |-> section, to |-> c]

ScriptWithoutBacktests ==
  <<Read("fees"), Give("fees", "positions"), Read("risk"), Give("risk", "risk"),
    Read("risk"), Give("risk", "analysis risk"),
    Read("analysis"), Give("analysis", "analysis"), Give("analysis", "scheduler"),
    Read("strategy"), Give("strategy", "analysis strategy"), Read("llm"), Give("llm", "llm"),
    Read("news"), Give("news", "analysis news"), Give("news", "scheduler news")>>
Script ==
  <<Read("fees"), Give("fees", "positions"), Read("risk"), Give("risk", "risk"),
    Read("risk"), Give("risk", "analysis risk"),
    Read("analysis"), Give("analysis", "analysis"), Give("analysis", "scheduler"),
    Read("strategy"), Give("strategy", "analysis strategy"), Read("llm"), Give("llm", "llm"),
    Read("news"), Give("analysis", "backtests"), Give("strategy", "backtests strategy"),
    Give("news", "backtests news"), Give("news", "analysis news"), Give("news", "scheduler news")>>

\* A process is down, loading, storing the defaults ("put"), making a document
\* current ("set"), at a step of Script, or ready; a client does the same but
\* for the loading.
Places == {"down", "load", "put", "set", "apply", "ready"}
Locals == [proc: Procs, at: Places, step: 1..Len(Script), doc: Docs, hand: [Sections -> Docs]]
Fresh(p, place, d) ==
  [proc |-> p, at |-> place, step |-> 1, doc |-> d, hand |-> [s \in Sections |-> Defaults]]

Actors == Clients \cup Procs
AnyProc == CHOOSE p \in Procs : TRUE

Init ==
  /\ stored = None
  /\ current = [p \in Procs |-> Defaults]
  /\ live = [p \in Procs |-> [c \in Components |-> Defaults]]
  /\ actor = [a \in Actors |-> IF a \in Procs THEN Fresh(a, "down", Defaults)
                                              ELSE Fresh(AnyProc, "ready", Defaults)]

Goto(a, place) == actor' = [actor EXCEPT ![a].at = place]

\* NewService seeds the copy from the environment and every component is built
\* from the same configuration.
Start(p) ==
  /\ actor[p].at = "down"
  /\ actor' = [actor EXCEPT ![p] = Fresh(p, "load", Defaults)]
  /\ current' = [current EXCEPT ![p] = Defaults]
  /\ live' = [live EXCEPT ![p] = [c \in Components |-> Defaults]]
  /\ UNCHANGED stored

\* Load: SETTINGS_FROM_ENV, or a missing row, stores the defaults.
Load(p, fromEnv) ==
  /\ actor[p].at = "load"
  /\ actor' = [actor EXCEPT ![p] =
       IF stored = None \/ fromEnv THEN Fresh(p, "put", Defaults) ELSE Fresh(p, "set", Normalize(stored))]
  /\ UNCHANGED <<stored, current, live>>

Update(k, p, d) ==
  /\ actor[k].at = "ready" /\ p \in Apis /\ actor[p].at = "ready"
  /\ actor' = [actor EXCEPT ![k] = Fresh(p, "put", d)]
  /\ UNCHANGED <<stored, current, live>>

\* A failed Put ends an Update with an error and a start for good.
FailedIgnored(a) == "set"
Failed(a) == IF a \in Procs THEN "down" ELSE "ready"

Put(a) ==
  /\ actor[a].at = "put"
  /\ \/ stored' = actor[a].doc /\ Goto(a, "set")
     \/ "lost" \in Faults /\ stored' = actor[a].doc /\ Goto(a, Failed(a))
     \/ "refused" \in Faults /\ UNCHANGED stored /\ Goto(a, Failed(a))
  /\ UNCHANGED <<current, live>>

SetCurrent(a) ==
  /\ actor[a].at = "set"
  /\ current' = [current EXCEPT ![actor[a].proc] = actor[a].doc]
  /\ Goto(a, "apply")
  /\ UNCHANGED <<stored, live>>

\* What ApplySettings reads: the service's copy, not the document it is passed.
Projected(a) == current[actor[a].proc]

Apply(a) ==
  /\ actor[a].at = "apply"
  /\ LET step  == Script[actor[a].step]
         moved == IF actor[a].step = Len(Script)
                    THEN [actor EXCEPT ![a] = Fresh(@.proc, "ready", Defaults)]
                    ELSE [actor EXCEPT ![a].step = @ + 1]
     IN  \/ /\ step.to = "hand"
            /\ actor' = [moved EXCEPT ![a].hand[step.section] = Projected(a)]
            /\ UNCHANGED live
         \/ /\ step.to # "hand"
            /\ live' = [live EXCEPT ![actor[a].proc][step.to] = actor[a].hand[step.section]]
            /\ actor' = moved
  /\ UNCHANGED <<stored, current>>

\* The process stops, and its requests with it.
Stop(p) ==
  /\ actor[p].at # "down"
  /\ actor' = [a \in Actors |->
       IF a = p THEN Fresh(p, "down", Defaults)
       ELSE IF a \in Clients /\ actor[a].proc = p THEN Fresh(AnyProc, "ready", Defaults)
       ELSE actor[a]]
  /\ UNCHANGED <<stored, current, live>>

Next ==
  \/ \E p \in Procs : Start(p) \/ Stop(p) \/ \E fromEnv \in BOOLEAN : Load(p, fromEnv)
  \/ \E k \in Clients, p \in Procs, d \in [edit: Edits, plain: BOOLEAN] : Update(k, p, d)
  \/ \E a \in Actors : Put(a) \/ SetCurrent(a) \/ Apply(a)

Spec == Init /\ [][Next]_vars

TypeOK ==
  /\ stored \in Docs \cup {None}
  /\ current \in [Procs -> Docs]
  /\ live \in [Procs -> [Components -> Docs]]
  /\ actor \in [Actors -> Locals]

\* Nothing in the code takes turns; where a property needs it, it says so.
Busy(k) == actor[k].at # "ready"
UpdatesTakeTurns ==   \* those that one process serves
  \A k, l \in Clients : Busy(k) /\ Busy(l) /\ actor[k].proc = actor[l].proc => k = l
Storing(a) == actor[a].at \in {"put", "set"}
WritesTakeTurns ==    \* those of all processes, from the decision to the copy
  \A a, b \in Actors : Storing(a) /\ Storing(b) => a = b

Quiet(p) == actor[p].at = "ready" /\ \A k \in Clients : actor[k].at = "ready"

\* "liveConfig applies edited settings to the running services, so the
\* Settings screen changes behaviour without a restart" (main.go:191-192):
\* once nothing is being applied, every component runs on what the screen shows.
AppliedEverywhere ==
  \A p \in Procs : Quiet(p) => \A c \in Components : live[p][c] = current[p]

\* No component ever runs on a document the database has not accepted: a
\* refused update changes nothing, at any step of a later one
\* (service.go:162-178, Put before set before apply).
NothingUnstoredRuns ==
  [][\A p \in Procs : current'[p] # current[p] =>
       current'[p] \in {Defaults} \cup (IF stored = None THEN {} ELSE {stored, Normalize(stored)})]_vars
=============================================================================
