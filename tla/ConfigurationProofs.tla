------------------------ MODULE ConfigurationProofs -------------------------
(***************************************************************************)
(* Proofs about Settings, for any number of processes, component steps and *)
(* edits: what every component runs on once nothing is being applied, and  *)
(* what may become current.  And about Inference, the component an update  *)
(* reconfigures under its feet, for any callers, models and slot counts;   *)
(* nothing is assumed of how many callers there are, that only finitely    *)
(* many are inside a request at a time is part of the invariant.           *)
(***************************************************************************)
EXTENDS Settings, Inference, FiniteSetTheorems, SequenceTheorems, TLAPS

(***************************************************************************)
(* The script of ApplySettings.                                            *)
(***************************************************************************)
LEMMA ScriptSteps ==
  /\ Len(Script) = 19
  /\ Script[1].section = "fees" /\ Script[1].to = "hand"
  /\ Script[2].section = "fees" /\ Script[2].to = "positions"
  /\ Script[3].section = "risk" /\ Script[3].to = "hand"
  /\ Script[4].section = "risk" /\ Script[4].to = "risk"
  /\ Script[5].section = "risk" /\ Script[5].to = "hand"
  /\ Script[6].section = "risk" /\ Script[6].to = "analysis risk"
  /\ Script[7].section = "analysis" /\ Script[7].to = "hand"
  /\ Script[8].section = "analysis" /\ Script[8].to = "analysis"
  /\ Script[9].section = "analysis" /\ Script[9].to = "scheduler"
  /\ Script[10].section = "strategy" /\ Script[10].to = "hand"
  /\ Script[11].section = "strategy" /\ Script[11].to = "analysis strategy"
  /\ Script[12].section = "llm" /\ Script[12].to = "hand"
  /\ Script[13].section = "llm" /\ Script[13].to = "llm"
  /\ Script[14].section = "news" /\ Script[14].to = "hand"
  /\ Script[15].section = "analysis" /\ Script[15].to = "backtests"
  /\ Script[16].section = "strategy" /\ Script[16].to = "backtests strategy"
  /\ Script[17].section = "news" /\ Script[17].to = "backtests news"
  /\ Script[18].section = "news" /\ Script[18].to = "analysis news"
  /\ Script[19].section = "news" /\ Script[19].to = "scheduler news"
BY DEF Script, Read, Give

LEMMA StepsAreTyped ==
  ASSUME NEW n \in 1..19
  PROVE  Script[n].section \in Sections /\ Script[n].to \in Components \cup {"hand"}
<1>1. CASE n = 1 BY <1>1, ScriptSteps DEF Sections, Components
<1>2. CASE n = 2 BY <1>2, ScriptSteps DEF Sections, Components
<1>3. CASE n = 3 BY <1>3, ScriptSteps DEF Sections, Components
<1>4. CASE n = 4 BY <1>4, ScriptSteps DEF Sections, Components
<1>5. CASE n = 5 BY <1>5, ScriptSteps DEF Sections, Components
<1>6. CASE n = 6 BY <1>6, ScriptSteps DEF Sections, Components
<1>7. CASE n = 7 BY <1>7, ScriptSteps DEF Sections, Components
<1>8. CASE n = 8 BY <1>8, ScriptSteps DEF Sections, Components
<1>9. CASE n = 9 BY <1>9, ScriptSteps DEF Sections, Components
<1>10. CASE n = 10 BY <1>10, ScriptSteps DEF Sections, Components
<1>11. CASE n = 11 BY <1>11, ScriptSteps DEF Sections, Components
<1>12. CASE n = 12 BY <1>12, ScriptSteps DEF Sections, Components
<1>13. CASE n = 13 BY <1>13, ScriptSteps DEF Sections, Components
<1>14. CASE n = 14 BY <1>14, ScriptSteps DEF Sections, Components
<1>15. CASE n = 15 BY <1>15, ScriptSteps DEF Sections, Components
<1>16. CASE n = 16 BY <1>16, ScriptSteps DEF Sections, Components
<1>17. CASE n = 17 BY <1>17, ScriptSteps DEF Sections, Components
<1>18. CASE n = 18 BY <1>18, ScriptSteps DEF Sections, Components
<1>19. CASE n = 19 BY <1>19, ScriptSteps DEF Sections, Components
<1> QED BY <1>1, <1>2, <1>3, <1>4, <1>5, <1>6, <1>7, <1>8, <1>9, <1>10,
           <1>11, <1>12, <1>13, <1>14, <1>15, <1>16, <1>17, <1>18, <1>19

\* A projection that is handed on was made before.
ReadBefore(n) ==
  \E m \in 1..19 : m < n /\ Script[m].to = "hand" /\ Script[m].section = Script[n].section

LEMMA GivesFollowReads ==
  ASSUME NEW n \in 1..19, Script[n].to # "hand"
  PROVE  ReadBefore(n)
<1>1. CASE n = 1 BY <1>1, ScriptSteps
<1>2. CASE n = 2
  <2>1. Script[n].section = "fees" BY <1>2, ScriptSteps
  <2>2. Script[1].to = "hand" /\ Script[1].section = Script[n].section BY <2>1, ScriptSteps
  <2> QED BY <1>2, <2>2 DEF ReadBefore
<1>3. CASE n = 3 BY <1>3, ScriptSteps
<1>4. CASE n = 4
  <2>1. Script[n].section = "risk" BY <1>4, ScriptSteps
  <2>2. Script[3].to = "hand" /\ Script[3].section = Script[n].section BY <2>1, ScriptSteps
  <2> QED BY <1>4, <2>2 DEF ReadBefore
<1>5. CASE n = 5 BY <1>5, ScriptSteps
<1>6. CASE n = 6
  <2>1. Script[n].section = "risk" BY <1>6, ScriptSteps
  <2>2. Script[5].to = "hand" /\ Script[5].section = Script[n].section BY <2>1, ScriptSteps
  <2> QED BY <1>6, <2>2 DEF ReadBefore
<1>7. CASE n = 7 BY <1>7, ScriptSteps
<1>8. CASE n = 8
  <2>1. Script[n].section = "analysis" BY <1>8, ScriptSteps
  <2>2. Script[7].to = "hand" /\ Script[7].section = Script[n].section BY <2>1, ScriptSteps
  <2> QED BY <1>8, <2>2 DEF ReadBefore
<1>9. CASE n = 9
  <2>1. Script[n].section = "analysis" BY <1>9, ScriptSteps
  <2>2. Script[7].to = "hand" /\ Script[7].section = Script[n].section BY <2>1, ScriptSteps
  <2> QED BY <1>9, <2>2 DEF ReadBefore
<1>10. CASE n = 10 BY <1>10, ScriptSteps
<1>11. CASE n = 11
  <2>1. Script[n].section = "strategy" BY <1>11, ScriptSteps
  <2>2. Script[10].to = "hand" /\ Script[10].section = Script[n].section BY <2>1, ScriptSteps
  <2> QED BY <1>11, <2>2 DEF ReadBefore
<1>12. CASE n = 12 BY <1>12, ScriptSteps
<1>13. CASE n = 13
  <2>1. Script[n].section = "llm" BY <1>13, ScriptSteps
  <2>2. Script[12].to = "hand" /\ Script[12].section = Script[n].section BY <2>1, ScriptSteps
  <2> QED BY <1>13, <2>2 DEF ReadBefore
<1>14. CASE n = 14 BY <1>14, ScriptSteps
<1>15. CASE n = 15
  <2>1. Script[n].section = "analysis" BY <1>15, ScriptSteps
  <2>2. Script[7].to = "hand" /\ Script[7].section = Script[n].section BY <2>1, ScriptSteps
  <2> QED BY <1>15, <2>2 DEF ReadBefore
<1>16. CASE n = 16
  <2>1. Script[n].section = "strategy" BY <1>16, ScriptSteps
  <2>2. Script[10].to = "hand" /\ Script[10].section = Script[n].section BY <2>1, ScriptSteps
  <2> QED BY <1>16, <2>2 DEF ReadBefore
<1>17. CASE n = 17
  <2>1. Script[n].section = "news" BY <1>17, ScriptSteps
  <2>2. Script[14].to = "hand" /\ Script[14].section = Script[n].section BY <2>1, ScriptSteps
  <2> QED BY <1>17, <2>2 DEF ReadBefore
<1>18. CASE n = 18
  <2>1. Script[n].section = "news" BY <1>18, ScriptSteps
  <2>2. Script[14].to = "hand" /\ Script[14].section = Script[n].section BY <2>1, ScriptSteps
  <2> QED BY <1>18, <2>2 DEF ReadBefore
<1>19. CASE n = 19
  <2>1. Script[n].section = "news" BY <1>19, ScriptSteps
  <2>2. Script[14].to = "hand" /\ Script[14].section = Script[n].section BY <2>1, ScriptSteps
  <2> QED BY <1>19, <2>2 DEF ReadBefore
<1> QED BY <1>1, <1>2, <1>3, <1>4, <1>5, <1>6, <1>7, <1>8, <1>9, <1>10,
           <1>11, <1>12, <1>13, <1>14, <1>15, <1>16, <1>17, <1>18, <1>19

\* No component is left out.
LEMMA EveryComponentServed ==
  ASSUME NEW c \in Components
  PROVE  \E n \in 1..19 : Script[n].to = c
<1>1. CASE c = "positions"
  <2>1. Script[2].to = c BY <1>1, ScriptSteps
  <2> QED BY <2>1
<1>2. CASE c = "risk"
  <2>1. Script[4].to = c BY <1>2, ScriptSteps
  <2> QED BY <2>1
<1>3. CASE c = "analysis risk"
  <2>1. Script[6].to = c BY <1>3, ScriptSteps
  <2> QED BY <2>1
<1>4. CASE c = "analysis"
  <2>1. Script[8].to = c BY <1>4, ScriptSteps
  <2> QED BY <2>1
<1>5. CASE c = "scheduler"
  <2>1. Script[9].to = c BY <1>5, ScriptSteps
  <2> QED BY <2>1
<1>6. CASE c = "analysis strategy"
  <2>1. Script[11].to = c BY <1>6, ScriptSteps
  <2> QED BY <2>1
<1>7. CASE c = "llm"
  <2>1. Script[13].to = c BY <1>7, ScriptSteps
  <2> QED BY <2>1
<1>8. CASE c = "backtests"
  <2>1. Script[15].to = c BY <1>8, ScriptSteps
  <2> QED BY <2>1
<1>9. CASE c = "backtests strategy"
  <2>1. Script[16].to = c BY <1>9, ScriptSteps
  <2> QED BY <2>1
<1>10. CASE c = "backtests news"
  <2>1. Script[17].to = c BY <1>10, ScriptSteps
  <2> QED BY <2>1
<1>11. CASE c = "analysis news"
  <2>1. Script[18].to = c BY <1>11, ScriptSteps
  <2> QED BY <2>1
<1>12. CASE c = "scheduler news"
  <2>1. Script[19].to = c BY <1>12, ScriptSteps
  <2> QED BY <2>1
<1> QED BY <1>1, <1>2, <1>3, <1>4, <1>5, <1>6, <1>7, <1>8, <1>9, <1>10, <1>11, <1>12 DEF Components

-----------------------------------------------------------------------------
(***************************************************************************)
(* Types.                                                                  *)
(***************************************************************************)
LEMMA DocsClosed ==
  /\ Defaults \in Docs
  /\ \A d \in Docs : Normalize(d) \in Docs
  /\ [edit: Edits, plain: BOOLEAN] \subseteq Docs
BY DEF Docs, Defaults, Normalize

LEMMA LocalsAre == Locals = [proc: Procs, at: Places, step: 1..19, doc: Docs, hand: [Sections -> Docs]]
BY ScriptSteps DEF Locals

LEMMA FreshIsLocal ==
  ASSUME NEW p \in Procs, NEW place \in Places, NEW d \in Docs
  PROVE  Fresh(p, place, d) \in Locals
BY DocsClosed, LocalsAre DEF Fresh

LEMMA AnyProcIsOne == AnyProc \in Procs
BY SomeProc DEF AnyProc

LEMMA TypeInit == Init => TypeOK
<1> SUFFICES ASSUME Init PROVE TypeOK
  OBVIOUS
<1>1. \A p \in Procs : Fresh(p, "down", Defaults) \in Locals /\ Fresh(p, "ready", Defaults) \in Locals
  BY FreshIsLocal, DocsClosed DEF Places
<1>2. actor \in [Actors -> Locals]
  BY <1>1, AnyProcIsOne DEF Init, Actors
<1> QED BY <1>2, DocsClosed DEF Init, TypeOK

LEMMA MoveTyped ==
  ASSUME TypeOK, NEW a \in Actors, NEW place \in Places
  PROVE  [actor EXCEPT ![a].at = place] \in [Actors -> Locals]
BY LocalsAre DEF TypeOK

LEMMA ApplyTyped ==
  ASSUME TypeOK, NEW a \in Actors, Apply(a)
  PROVE  TypeOK'
<1> DEFINE n     == actor[a].step
           step  == Script[n]
           p     == actor[a].proc
           moved == IF n = Len(Script) THEN [actor EXCEPT ![a] = Fresh(@.proc, "ready", Defaults)]
                                       ELSE [actor EXCEPT ![a].step = @ + 1]
<1> HIDE DEF moved
<1>0. Len(Script) = 19 BY ScriptSteps
<1>1. actor[a] \in Locals /\ n \in 1..19 /\ p \in Procs BY LocalsAre DEF TypeOK
<1>2. step.section \in Sections /\ step.to \in Components \cup {"hand"} BY <1>1, StepsAreTyped
<1>3. Fresh(p, "ready", Defaults) \in Locals BY <1>1, FreshIsLocal, DocsClosed DEF Places
<1>4. moved \in [Actors -> Locals]
  <2>1. CASE n = 19 BY <2>1, <1>0, <1>3 DEF TypeOK, moved
  <2>2. CASE n # 19 BY <2>2, <1>0, <1>1, LocalsAre DEF TypeOK, moved
  <2> QED BY <2>1, <2>2
<1>5. current[p] \in Docs /\ actor[a].hand[step.section] \in Docs BY <1>1, <1>2, LocalsAre DEF TypeOK
<1>6. UNCHANGED <<stored, current>> BY DEF Apply
<1>7. CASE step.to = "hand"
  <2>1. actor' = [moved EXCEPT ![a].hand[step.section] = current[p]] /\ live' = live
    BY <1>7 DEF Apply, Projected, moved
  <2>2. actor' \in [Actors -> Locals] BY <2>1, <1>2, <1>4, <1>5, LocalsAre
  <2> QED BY <2>1, <2>2, <1>6 DEF TypeOK
<1>8. CASE step.to # "hand"
  <2>1. actor' = moved /\ live' = [live EXCEPT ![p][step.to] = actor[a].hand[step.section]]
    BY <1>8 DEF Apply, moved
  <2>2. live' \in [Procs -> [Components -> Docs]] BY <2>1, <1>1, <1>2, <1>5, <1>8 DEF TypeOK
  <2> QED BY <2>1, <2>2, <1>4, <1>6 DEF TypeOK
<1> QED BY <1>7, <1>8

LEMMA TypeStep == TypeOK /\ [Next]_vars => TypeOK'
<1> SUFFICES ASSUME TypeOK, [Next]_vars PROVE TypeOK'
  OBVIOUS
<1>1. ASSUME NEW p \in Procs, Start(p) PROVE TypeOK'
  <2>1. Fresh(p, "load", Defaults) \in Locals BY FreshIsLocal, DocsClosed DEF Places
  <2> QED BY <1>1, <2>1, DocsClosed DEF Start, TypeOK
<1>2. ASSUME NEW p \in Procs, Stop(p) PROVE TypeOK'
  <2>1. Fresh(p, "down", Defaults) \in Locals /\ Fresh(AnyProc, "ready", Defaults) \in Locals
    BY FreshIsLocal, DocsClosed, AnyProcIsOne DEF Places
  <2>2. actor' \in [Actors -> Locals] BY <1>2, <2>1 DEF Stop, TypeOK
  <2> QED BY <1>2, <2>2 DEF Stop, TypeOK
<1>3. ASSUME NEW p \in Procs, NEW fromEnv \in BOOLEAN, Load(p, fromEnv) PROVE TypeOK'
  <2>1. Fresh(p, "put", Defaults) \in Locals BY FreshIsLocal, DocsClosed DEF Places
  <2>2. stored # None => Fresh(p, "set", Normalize(stored)) \in Locals
    BY FreshIsLocal, DocsClosed DEF Places, TypeOK
  <2>3. actor' \in [Actors -> Locals] BY <1>3, <2>1, <2>2 DEF Load, TypeOK
  <2> QED BY <1>3, <2>3 DEF Load, TypeOK
<1>4. ASSUME NEW k \in Clients, NEW p \in Procs, NEW d \in [edit: Edits, plain: BOOLEAN],
             Update(k, p, d)
      PROVE  TypeOK'
  <2>1. Fresh(p, "put", d) \in Locals BY FreshIsLocal, DocsClosed DEF Places
  <2> QED BY <1>4, <2>1 DEF Update, TypeOK
<1>5. ASSUME NEW a \in Actors, Put(a) PROVE TypeOK'
  <2>1. actor[a].doc \in Docs BY LocalsAre DEF TypeOK
  <2>2. Failed(a) \in Places /\ "set" \in Places BY DEF Failed, Places
  <2>3. [actor EXCEPT ![a].at = "set"] \in [Actors -> Locals] BY <2>2, MoveTyped
  <2>4. [actor EXCEPT ![a].at = Failed(a)] \in [Actors -> Locals] BY <2>2, MoveTyped
  <2>5. actor' \in [Actors -> Locals] BY <1>5, <2>3, <2>4 DEF Put, Goto
  <2> QED BY <1>5, <2>1, <2>5 DEF Put, TypeOK
<1>6. ASSUME NEW a \in Actors, SetCurrent(a) PROVE TypeOK'
  <2>1. actor[a].doc \in Docs /\ actor[a].proc \in Procs BY LocalsAre DEF TypeOK
  <2>2. actor' \in [Actors -> Locals] BY <1>6, MoveTyped DEF SetCurrent, Goto, Places
  <2> QED BY <1>6, <2>1, <2>2 DEF SetCurrent, TypeOK
<1>7. CASE UNCHANGED vars BY <1>7 DEF vars, TypeOK
<1> QED BY <1>1, <1>2, <1>3, <1>4, <1>5, <1>6, <1>7, ApplyTyped DEF Next

\* Every field has its type, for any number of processes and requests.
THEOREM SettingsTypes == Spec => []TypeOK
BY TypeInit, TypeStep, PTL DEF Spec

-----------------------------------------------------------------------------
(***************************************************************************)
(* What the components run on.                                             *)
(***************************************************************************)
ActorOK(a) ==
  /\ a \in Procs => actor[a].proc = a
  /\ a \in Clients => actor[a].at \notin {"down", "load"}
  /\ a \in Clients /\ Busy(a) => actor[actor[a].proc].at = "ready"
  /\ actor[a].at \in {"load", "put", "set"} => actor[a].step = 1

\* What the steps before this one have done, against what is current now.
Done(a, m) ==
  IF Script[m].to = "hand" THEN actor[a].hand[Script[m].section] = current[actor[a].proc]
  ELSE live[actor[a].proc][Script[m].to] = current[actor[a].proc]
Handed(a) == \A m \in 1..19 : m < actor[a].step => Done(a, m)

Applies(a, p) == actor[a].at = "apply" /\ actor[a].proc = p
Idle(p) == actor[p].at = "ready" /\ \A k \in Clients : ~Applies(k, p)
Served(p) == \A c \in Components : live[p][c] = current[p]

\* The inductive invariant.
AppliedInv ==
  /\ TypeOK
  /\ \A a \in Actors : ActorOK(a) /\ (actor[a].at = "apply" => Handed(a))
  /\ \A p \in Procs : Idle(p) => Served(p)

LEMMA AppliedInit == Init => AppliedInv
<1> SUFFICES ASSUME Init PROVE AppliedInv
  OBVIOUS
<1>1. \A a \in Procs : actor[a].proc = a /\ actor[a].at = "down" BY DEF Init, Fresh, Actors
<1>2. \A a \in Clients : actor[a].at = "ready" BY ActorsDiffer DEF Init, Fresh, Actors
<1>3. \A a \in Actors : ActorOK(a) /\ actor[a].at # "apply"
  BY <1>1, <1>2, ActorsDiffer DEF ActorOK, Busy, Actors
<1> QED BY <1>1, <1>3, TypeInit DEF AppliedInv, Idle, Actors

\* A step that leaves current and live alone, and nobody's hand.
LEMMA QuietStep ==
  ASSUME AppliedInv, TypeOK', UNCHANGED <<current, live>>,
         \A a \in Actors : ActorOK(a)',
         \A a \in Actors : actor'[a].at = "apply" => actor'[a] = actor[a],
         \A p \in Procs : Idle(p)' => Idle(p)
  PROVE  AppliedInv'
<1>1. ASSUME NEW a \in Actors, actor'[a].at = "apply" PROVE Handed(a)'
  <2>1. actor'[a] = actor[a] /\ Handed(a) BY <1>1 DEF AppliedInv
  <2> QED BY <2>1 DEF Handed, Done
<1>2. ASSUME NEW p \in Procs, Idle(p)' PROVE Served(p)' BY <1>2 DEF AppliedInv, Served
<1> QED BY <1>1, <1>2 DEF AppliedInv

LEMMA SetStep ==
  ASSUME AppliedInv, UpdatesTakeTurns, TypeOK', NEW a \in Actors, SetCurrent(a)
  PROVE  AppliedInv'
<1> DEFINE p == actor[a].proc
<1>1. /\ actor[a].at = "set" /\ p \in Procs /\ live' = live
      /\ actor' = [actor EXCEPT ![a].at = "apply"]
      /\ current' = [current EXCEPT ![p] = actor[a].doc]
  BY LocalsAre DEF AppliedInv, TypeOK, SetCurrent, Goto
<1>2. \A b \in Actors : b # a => actor'[b] = actor[b] BY <1>1 DEF AppliedInv, TypeOK
<1>3. actor'[a].at = "apply" /\ actor'[a].proc = p /\ actor'[a].step = 1
  BY <1>1 DEF AppliedInv, TypeOK, Locals, ActorOK
<1>4. \A q \in Procs : q # p => current'[q] = current[q] BY <1>1 DEF AppliedInv, TypeOK
\* Nobody else applies settings in the same process.
<1>5. ASSUME NEW b \in Actors, b # a PROVE ~Applies(b, p)
  <2>1. SUFFICES ASSUME Applies(b, p) PROVE FALSE OBVIOUS
  <2>2. ActorOK(a) /\ ActorOK(b) BY DEF AppliedInv
  <2>3. CASE a \in Procs
    <3>1. p = a BY <2>2, <2>3 DEF ActorOK
    <3>2. b \in Clients BY <1>5, <2>1, <2>2, <3>1 DEF Actors, ActorOK, Applies
    <3> QED BY <1>1, <2>1, <2>2, <3>1, <3>2 DEF ActorOK, Applies, Busy
  <2>4. CASE a \in Clients /\ b \in Procs
    <3>1. p = b BY <2>1, <2>2, <2>4 DEF ActorOK, Applies
    <3> QED BY <1>1, <2>1, <2>2, <2>4, <3>1 DEF ActorOK, Applies, Busy
  <2>5. CASE a \in Clients /\ b \in Clients
    BY <1>1, <1>5, <2>1, <2>5 DEF UpdatesTakeTurns, Busy, Applies
  <2> QED BY <2>3, <2>4, <2>5 DEF Actors
<1>6. ASSUME NEW b \in Actors PROVE ActorOK(b)'
  <2>1. ActorOK(b) BY DEF AppliedInv
  <2>2. CASE b = a
    <3>1. a \in Clients => actor'[p].at = "ready" BY <1>1, <1>2, <2>1, <2>2 DEF ActorOK, Busy
    <3> QED BY <1>1, <1>3, <2>1, <2>2, <3>1 DEF ActorOK, Busy
  <2>3. CASE b # a
    <3>1. actor'[b] = actor[b] BY <1>2, <2>3
    <3>2. b \in Clients /\ Busy(b) => actor'[actor[b].proc].at = "ready"
      BY <1>1, <1>2, <2>1 DEF ActorOK, Busy
    <3> QED BY <2>1, <3>1, <3>2 DEF ActorOK, Busy
  <2> QED BY <2>2, <2>3
<1>7. ASSUME NEW b \in Actors, actor'[b].at = "apply" PROVE Handed(b)'
  <2>1. CASE b = a BY <1>3, <2>1 DEF Handed
  <2>2. CASE b # a
    <3>1. actor'[b] = actor[b] /\ Handed(b) BY <1>2, <1>7, <2>2 DEF AppliedInv
    <3>2. actor[b].proc \in Procs /\ actor[b].proc # p
      BY <1>5, <1>7, <2>2, <3>1, LocalsAre DEF Applies, AppliedInv, TypeOK
    <3> QED BY <1>1, <1>4, <3>1, <3>2 DEF Handed, Done
  <2> QED BY <2>1, <2>2
<1>8. ASSUME NEW q \in Procs, Idle(q)' PROVE Served(q)'
  <2>1. q # p
    <3>1. SUFFICES ASSUME q = p PROVE FALSE OBVIOUS
    <3>2. CASE a \in Procs BY <1>3, <1>8, <3>1, <3>2 DEF Idle, AppliedInv, ActorOK
    <3>3. CASE a \in Clients BY <1>3, <1>8, <3>1, <3>3 DEF Idle, Applies
    <3> QED BY <3>2, <3>3 DEF Actors
  <2>2. Idle(q)
    <3>1. a # q BY <2>1 DEF AppliedInv, ActorOK
    <3>2. actor'[q] = actor[q] BY <1>2, <3>1 DEF Actors
    <3>3. ASSUME NEW k \in Clients PROVE ~Applies(k, q)
      BY <1>1, <1>2, <1>8, <2>1 DEF Idle, Applies, Actors
    <3> QED BY <1>8, <3>2, <3>3 DEF Idle
  <2> QED BY <1>1, <1>4, <2>1, <2>2 DEF AppliedInv, Served
<1> QED BY <1>6, <1>7, <1>8 DEF AppliedInv

LEMMA ApplyStep ==
  ASSUME AppliedInv, TypeOK', NEW a \in Actors, Apply(a)
  PROVE  AppliedInv'
<1> DEFINE n == actor[a].step
           p == actor[a].proc
           step == Script[n]
<1>0. Len(Script) = 19 BY ScriptSteps
<1>1. actor[a].at = "apply" /\ n \in 1..19 /\ p \in Procs /\ current' = current
  BY LocalsAre DEF AppliedInv, TypeOK, Apply
<1>2. step.section \in Sections /\ step.to \in Components \cup {"hand"} BY <1>1, StepsAreTyped
<1>3. \A b \in Actors : b # a => actor'[b] = actor[b] BY DEF AppliedInv, TypeOK, Apply
<1>4. ActorOK(a) /\ Handed(a) BY <1>1 DEF AppliedInv
<1>5. step.to # "hand" => actor[a].hand[step.section] = current[p]
  <2>1. SUFFICES ASSUME step.to # "hand" PROVE actor[a].hand[step.section] = current[p] OBVIOUS
  <2>2. PICK m \in 1..19 : m < n /\ Script[m].to = "hand" /\ Script[m].section = step.section
    BY <1>1, <2>1, GivesFollowReads DEF ReadBefore
  <2> QED BY <1>4, <2>2 DEF Handed, Done
\* What is handed on is what is current, so nobody's work is undone.
<1>6. /\ step.to = "hand" => live' = live
      /\ step.to # "hand" => live' = [live EXCEPT ![p][step.to] = current[p]]
  BY <1>5 DEF Apply
<1>7. \A q \in Procs, c \in Components : live'[q][c] = live[q][c] \/ live'[q][c] = current[q]
  BY <1>1, <1>2, <1>6 DEF AppliedInv, TypeOK
<1>8. step.to # "hand" => live'[p][step.to] = current[p]
  BY <1>1, <1>2, <1>6 DEF AppliedInv, TypeOK
<1>9. ASSUME NEW b \in Actors, b # a, actor[b].at = "apply" PROVE Handed(b)'
  <2>1. Handed(b) /\ actor'[b] = actor[b] /\ actor[b].proc \in Procs
    BY <1>3, <1>9, LocalsAre DEF AppliedInv, TypeOK
  <2>2. ASSUME NEW m \in 1..19, m < actor[b].step PROVE Done(b, m)'
    <3>1. Done(b, m) BY <2>1, <2>2 DEF Handed
    <3>2. Script[m].to \in Components \cup {"hand"} BY StepsAreTyped
    <3> QED BY <1>1, <1>7, <2>1, <3>1, <3>2 DEF Done
  <2> QED BY <2>1, <2>2 DEF Handed
<1>10. CASE n = 19
  <2>1. step.to = "scheduler news" /\ step.section = "news" BY <1>10, ScriptSteps
  <2>2. actor' = [actor EXCEPT ![a] = Fresh(@.proc, "ready", Defaults)]
    BY <1>0, <1>10, <2>1 DEF Apply
  <2>3. actor'[a].at = "ready" /\ actor'[a].proc = p BY <2>2 DEF AppliedInv, TypeOK, Fresh
  <2>4. ASSUME NEW c \in Components PROVE live'[p][c] = current'[p]
    <3>1. PICK m \in 1..19 : Script[m].to = c BY EveryComponentServed
    <3>2. c # "hand" BY DEF Components
    <3>3. m # 19 => live[p][c] = current[p] BY <1>4, <1>10, <3>1, <3>2 DEF Handed, Done
    <3>4. m = 19 => live'[p][c] = current[p] BY <1>8, <1>10, <3>1, <3>2
    <3> QED BY <1>1, <1>7, <3>3, <3>4
  <2>5. ASSUME NEW b \in Actors PROVE ActorOK(b)'
    <3>1. ActorOK(b) BY DEF AppliedInv
    <3>2. ASSUME b \in Clients, actor'[b].at # "ready" PROVE actor'[actor[b].proc].at = "ready"
      <4>1. b # a /\ actor'[b] = actor[b] BY <1>3, <2>3, <3>2
      <4>2. actor[b].proc \in Actors /\ actor[actor[b].proc].at = "ready"
        BY <3>1, <3>2, <4>1, LocalsAre DEF AppliedInv, TypeOK, Actors, ActorOK, Busy
      <4> QED BY <1>1, <1>3, <4>1, <4>2
    <3> QED BY <1>3, <1>4, <2>3, <3>1, <3>2 DEF ActorOK, Busy
  <2>6. ASSUME NEW q \in Procs, Idle(q)' PROVE Served(q)'
    <3>1. CASE q = p BY <2>4, <3>1 DEF Served
    <3>2. CASE q # p
      <4>1. a # q BY <1>4, <3>2 DEF ActorOK
      <4>2. Idle(q) BY <1>3, <2>6, <3>2, <4>1 DEF Idle, Applies, Actors
      <4> QED BY <1>1, <1>7, <4>2 DEF AppliedInv, Served
    <3> QED BY <3>1, <3>2
  <2> QED BY <1>9, <1>3, <2>3, <2>5, <2>6 DEF AppliedInv
<1>11. CASE n # 19
  <2>1. /\ actor'[a].at = "apply" /\ actor'[a].proc = p /\ actor'[a].step = n + 1
        /\ \A s \in Sections : s # step.section => actor'[a].hand[s] = actor[a].hand[s]
        /\ step.to = "hand" => actor'[a].hand[step.section] = current[p]
        /\ step.to # "hand" => actor'[a].hand = actor[a].hand
    <3>1. actor[a] \in Locals BY DEF AppliedInv, TypeOK
    <3>2. CASE step.to = "hand"
      <4>1. actor' = [[actor EXCEPT ![a].step = @ + 1] EXCEPT ![a].hand[step.section] = current[p]]
        BY <1>0, <1>11, <3>2 DEF Apply, Projected
      <4> QED BY <1>1, <1>2, <3>1, <3>2, <4>1, LocalsAre DEF AppliedInv, TypeOK
    <3>3. CASE step.to # "hand"
      <4>1. actor' = [actor EXCEPT ![a].step = @ + 1] BY <1>0, <1>11, <3>3 DEF Apply
      <4> QED BY <1>1, <3>1, <3>3, <4>1, LocalsAre DEF AppliedInv, TypeOK
    <3> QED BY <3>2, <3>3
  <2>2. ASSUME NEW m \in 1..19, m < n + 1 PROVE Done(a, m)'
    <3>1. Script[m].section \in Sections /\ Script[m].to \in Components \cup {"hand"} BY StepsAreTyped
    <3>2. m # n => Done(a, m) BY <1>1, <1>4, <2>2 DEF Handed
    <3>3. CASE Script[m].to = "hand" BY <1>1, <2>1, <3>1, <3>2, <3>3 DEF Done
    <3>4. CASE Script[m].to # "hand" BY <1>1, <1>7, <1>8, <2>1, <3>1, <3>2, <3>4 DEF Done
    <3> QED BY <3>3, <3>4
  <2>3. Handed(a)' BY <2>1, <2>2 DEF Handed
  <2>4. ASSUME NEW b \in Actors PROVE ActorOK(b)'
    <3>1. ActorOK(b) BY DEF AppliedInv
    <3>2. \A c \in Actors : actor'[c].at = actor[c].at /\ actor'[c].proc = actor[c].proc
      BY <1>1, <1>3, <2>1
    <3>3. actor[b].proc \in Actors BY LocalsAre DEF AppliedInv, TypeOK, Actors
    <3> QED BY <1>1, <1>3, <3>1, <3>2, <3>3 DEF ActorOK, Busy
  <2>5. ASSUME NEW q \in Procs, Idle(q)' PROVE Served(q)'
    <3>1. Idle(q) BY <1>1, <1>3, <2>1, <2>5 DEF Idle, Applies, Actors
    <3> QED BY <1>1, <1>7, <3>1 DEF AppliedInv, Served
  <2> QED BY <1>3, <1>9, <2>3, <2>4, <2>5 DEF AppliedInv
<1> QED BY <1>10, <1>11

LEMMA AppliedStep == AppliedInv /\ UpdatesTakeTurns /\ [Next]_vars => AppliedInv'
<1> SUFFICES ASSUME AppliedInv, UpdatesTakeTurns, [Next]_vars PROVE AppliedInv'
  OBVIOUS
<1>1. TypeOK /\ TypeOK' BY TypeStep DEF AppliedInv
<1>2. \A a \in Actors : ActorOK(a) /\ actor[a].proc \in Procs BY <1>1, LocalsAre DEF AppliedInv, TypeOK
<1>3. ASSUME NEW p \in Procs, Start(p) PROVE AppliedInv'
  <2>1. /\ actor[p].at = "down" /\ actor'[p].at = "load" /\ actor'[p].proc = p /\ actor'[p].step = 1
        /\ \A a \in Actors : a # p => actor'[a] = actor[a]
        /\ \A q \in Procs : q # p => current'[q] = current[q] /\ live'[q] = live[q]
    BY <1>1, <1>3 DEF Start, Fresh, TypeOK, Actors
  <2>2. ASSUME NEW b \in Actors PROVE ActorOK(b)'
    BY <1>2, <2>1, ActorsDiffer DEF ActorOK, Busy, Actors
  <2>3. ASSUME NEW b \in Actors, actor'[b].at = "apply" PROVE Handed(b)'
    <3>1. b # p /\ actor'[b] = actor[b] /\ Handed(b) BY <2>1, <2>3 DEF AppliedInv
    <3>2. actor[b].proc # p BY <1>2, <2>1, <2>3, <3>1 DEF ActorOK, Busy, Actors
    <3>3. current'[actor[b].proc] = current[actor[b].proc] /\ live'[actor[b].proc] = live[actor[b].proc]
      BY <1>2, <2>1, <3>2
    <3> QED BY <3>1, <3>3 DEF Handed, Done
  <2>4. ASSUME NEW q \in Procs, Idle(q)' PROVE Served(q)'
    <3>1. q # p BY <2>1, <2>4 DEF Idle
    <3>2. Idle(q) BY <2>1, <2>4, <3>1, ActorsDiffer DEF Idle, Applies, Actors
    <3> QED BY <2>1, <3>1, <3>2 DEF AppliedInv, Served
  <2> QED BY <1>1, <2>2, <2>3, <2>4 DEF AppliedInv
<1>4. ASSUME NEW p \in Procs, Stop(p) PROVE AppliedInv'
  <2>1. /\ UNCHANGED <<current, live>>
        /\ actor'[p].at = "down" /\ actor'[p].proc = p
        /\ \A a \in Clients : actor[a].proc = p => actor'[a].at = "ready"
        /\ \A a \in Actors : a # p /\ ~(a \in Clients /\ actor[a].proc = p) => actor'[a] = actor[a]
    BY <1>4, ActorsDiffer DEF Stop, Fresh, Actors
  <2>2. ASSUME NEW b \in Actors PROVE ActorOK(b)'
    <3>1. CASE b = p BY <2>1, <3>1, ActorsDiffer DEF ActorOK
    <3>2. CASE b \in Clients /\ actor[b].proc = p BY <2>1, <3>2, ActorsDiffer DEF ActorOK, Busy
    <3>3. CASE b # p /\ ~(b \in Clients /\ actor[b].proc = p)
      <4>1. actor'[b] = actor[b] BY <2>1, <3>3
      <4>2. ActorOK(b) /\ actor[b].proc \in Actors BY <1>2 DEF Actors
      <4>3. b \in Clients => actor'[actor[b].proc] = actor[actor[b].proc]
        BY <2>1, <3>3, <4>2, <1>2, ActorsDiffer DEF Actors
      <4> QED BY <4>1, <4>2, <4>3 DEF ActorOK, Busy
    <3> QED BY <3>1, <3>2, <3>3
  <2>3. \A a \in Actors : actor'[a].at = "apply" => actor'[a] = actor[a] BY <2>1
  <2>4. ASSUME NEW q \in Procs, Idle(q)' PROVE Idle(q)
    <3>1. q # p /\ actor'[q] = actor[q] BY <2>1, <2>4, ActorsDiffer DEF Idle, Actors
    <3> QED BY <2>1, <2>4, <3>1, ActorsDiffer DEF Idle, Applies, Actors
  <2> QED BY <1>1, <2>1, <2>2, <2>3, <2>4, QuietStep
<1>5. ASSUME NEW a \in Actors, UNCHANGED <<current, live>>, actor[a].at \notin {"apply", "down"},
             actor'[a].at # "apply", actor'[a].at = "ready" => actor[a].at = "ready" \/ a \in Clients,
             ActorOK(a)', \A b \in Actors : b # a => actor'[b] = actor[b],
             a \in Procs => actor[a].at # "ready"
      PROVE  AppliedInv'
  <2>1. ASSUME NEW b \in Actors, b # a PROVE ActorOK(b)'
    <3>1. ActorOK(b) /\ actor'[b] = actor[b] /\ actor[b].proc \in Procs BY <1>2, <1>5, <2>1
    <3>2. ASSUME b \in Clients, Busy(b) PROVE actor'[actor[b].proc].at = "ready"
      <4>1. actor[actor[b].proc].at = "ready" BY <3>1, <3>2 DEF ActorOK
      <4>2. actor[b].proc # a /\ actor[b].proc \in Actors BY <1>5, <3>1, <4>1 DEF Actors
      <4> QED BY <1>5, <4>1, <4>2
    <3> QED BY <3>1, <3>2 DEF ActorOK, Busy
  <2>2. ASSUME NEW q \in Procs, Idle(q)' PROVE Idle(q)
    BY <1>5, <2>2, ActorsDiffer DEF Idle, Applies, Actors
  <2> QED BY <1>1, <1>5, <2>1, <2>2, QuietStep
<1>6. ASSUME NEW p \in Procs, NEW fromEnv \in BOOLEAN, Load(p, fromEnv) PROVE AppliedInv'
  <2>1. /\ UNCHANGED <<current, live>> /\ actor[p].at = "load"
        /\ actor'[p].at \in {"put", "set"} /\ actor'[p].proc = p /\ actor'[p].step = 1
        /\ \A b \in Actors : b # p => actor'[b] = actor[b]
    BY <1>1, <1>6 DEF Load, Fresh, TypeOK, Actors
  <2>2. ActorOK(p)' BY <2>1, ActorsDiffer DEF ActorOK
  <2> QED BY <1>5, <2>1, <2>2 DEF Actors
<1>7. ASSUME NEW k \in Clients, NEW p \in Procs, NEW d \in [edit: Edits, plain: BOOLEAN],
             Update(k, p, d)
      PROVE  AppliedInv'
  <2>1. /\ UNCHANGED <<current, live>> /\ actor[k].at = "ready" /\ actor[p].at = "ready"
        /\ actor'[k].at = "put" /\ actor'[k].proc = p /\ actor'[k].step = 1
        /\ \A b \in Actors : b # k => actor'[b] = actor[b]
    BY <1>1, <1>7 DEF Update, Fresh, TypeOK, Actors
  <2>2. ActorOK(k)' BY <2>1, ActorsDiffer DEF ActorOK, Actors
  <2> QED BY <1>5, <2>1, <2>2, ActorsDiffer DEF Actors
<1>8. ASSUME NEW a \in Actors, Put(a) PROVE AppliedInv'
  <2>1. /\ UNCHANGED <<current, live>> /\ actor[a].at = "put"
        /\ actor'[a].at \in {"set", Failed(a)} /\ actor'[a].proc = actor[a].proc
        /\ actor'[a].step = actor[a].step
        /\ \A b \in Actors : b # a => actor'[b] = actor[b]
    BY <1>1, <1>8, LocalsAre DEF Put, Goto, TypeOK
  <2>2. Failed(a) = IF a \in Procs THEN "down" ELSE "ready" BY DEF Failed
  <2>3. ActorOK(a)'
    <3>1. a \in Clients => actor'[actor[a].proc].at = "ready"
      BY <1>2, <2>1, ActorsDiffer DEF ActorOK, Busy, Actors
    <3> QED BY <1>2, <2>1, <2>2, <3>1, ActorsDiffer DEF ActorOK, Busy, Actors
  <2> QED BY <1>5, <2>1, <2>2, <2>3 DEF Actors
<1>9. CASE UNCHANGED vars
  BY <1>1, <1>9 DEF vars, AppliedInv, TypeOK, ActorOK, Busy, Handed, Done, Idle, Applies, Served
<1> QED BY <1>1, <1>3, <1>4, <1>6, <1>7, <1>8, <1>9, ApplyStep, SetStep DEF Next

\* However many processes there are and wherever one of them stops, once nothing
\* is being applied in a process all its components run on what is current, as
\* long as the updates it serves take turns: two that do not may leave one of its
\* components on the older document (liveConfig.ApplySettings).
THEOREM AppliedEverywhereHolds == Spec /\ []UpdatesTakeTurns => []AppliedEverywhere
<1>1. AppliedInv => AppliedEverywhere
  <2>1. SUFFICES ASSUME AppliedInv, NEW p \in Procs, Quiet(p) PROVE Served(p)
    BY DEF AppliedEverywhere, Served
  <2> QED BY <2>1 DEF AppliedInv, Idle, Applies, Quiet
<1> QED BY <1>1, AppliedInit, AppliedStep, PTL DEF Spec

-----------------------------------------------------------------------------
(***************************************************************************)
(* What becomes current.                                                   *)
(***************************************************************************)
Accepted == IF stored = None THEN {} ELSE {stored, Normalize(stored)}

\* Between Put, or the read of Load, and the copy nobody else has stored.
WritesInv == TypeOK /\ \A a \in Actors : actor[a].at = "set" => actor[a].doc \in Accepted

LEMMA WritesInit == Init => WritesInv
BY TypeInit DEF Init, Fresh, WritesInv

LEMMA WritesStep == WritesInv /\ WritesTakeTurns /\ [Next]_vars => WritesInv'
<1> SUFFICES ASSUME WritesInv, WritesTakeTurns, [Next]_vars, NEW a \in Actors, actor'[a].at = "set"
             PROVE  actor'[a].doc \in Accepted'
  BY TypeStep DEF WritesInv
<1>1. TypeOK BY DEF WritesInv
<1>2. ASSUME UNCHANGED stored, actor'[a] = actor[a] PROVE actor'[a].doc \in Accepted'
  BY <1>2 DEF WritesInv, Accepted
<1>3. ASSUME NEW p \in Procs, Start(p) PROVE actor'[a].doc \in Accepted'
  BY <1>1, <1>2, <1>3 DEF Start, Fresh, TypeOK
<1>4. ASSUME NEW p \in Procs, Stop(p) PROVE actor'[a].doc \in Accepted'
  BY <1>2, <1>4 DEF Stop, Fresh
<1>5. ASSUME NEW p \in Procs, NEW fromEnv \in BOOLEAN, Load(p, fromEnv) PROVE actor'[a].doc \in Accepted'
  <2>1. CASE a = p BY <1>1, <1>5, <2>1 DEF Load, Fresh, Accepted, TypeOK
  <2>2. CASE a # p BY <1>1, <1>2, <1>5, <2>2 DEF Load, TypeOK
  <2> QED BY <2>1, <2>2
<1>6. ASSUME NEW k \in Clients, NEW p \in Procs, NEW d \in [edit: Edits, plain: BOOLEAN],
             Update(k, p, d)
      PROVE  actor'[a].doc \in Accepted'
  BY <1>1, <1>2, <1>6 DEF Update, Fresh, TypeOK
<1>7. ASSUME NEW b \in Actors, Put(b) PROVE actor'[a].doc \in Accepted'
  <2>1. actor[a] \in Locals /\ actor[b] \in Locals BY <1>1 DEF TypeOK
  <2>2. CASE a = b
    <3>1. Failed(a) # "set" BY DEF Failed
    <3>2. stored' = actor[a].doc /\ actor'[a].doc = actor[a].doc /\ actor[a].doc \in Docs
      BY <1>1, <1>7, <2>1, <2>2, <3>1, LocalsAre DEF Put, Goto, TypeOK
    <3> QED BY <3>2, NoneIsNoDocument DEF Accepted
  <2>3. CASE a # b
    <3>1. actor'[a] = actor[a] BY <1>1, <1>7, <2>3 DEF Put, Goto, TypeOK
    <3>2. Storing(a) /\ Storing(b) BY <1>7, <3>1 DEF Put, Storing
    <3> QED BY <2>3, <3>2 DEF WritesTakeTurns
  <2> QED BY <2>2, <2>3
<1>8. ASSUME NEW b \in Actors, SetCurrent(b) PROVE actor'[a].doc \in Accepted'
  BY <1>1, <1>2, <1>8 DEF SetCurrent, Goto, TypeOK
<1>9. ASSUME NEW b \in Actors, Apply(b) PROVE actor'[a].doc \in Accepted'
  <2>1. a # b => actor'[a] = actor[a] BY <1>1, <1>9 DEF Apply, TypeOK
  <2>2. a = b => actor'[a].at \in {"ready", "apply"}
    <3> DEFINE moved == IF actor[b].step = Len(Script)
                          THEN [actor EXCEPT ![b] = Fresh(@.proc, "ready", Defaults)]
                          ELSE [actor EXCEPT ![b].step = @ + 1]
    <3>1. moved[b].at \in {"ready", "apply"} /\ b \in DOMAIN moved /\ "at" \in DOMAIN moved[b]
      BY <1>1, <1>9, LocalsAre DEF Apply, TypeOK, Fresh
    <3> HIDE DEF moved
    <3>2. actor' = moved \/ \E x \in Sections \cup {Script[actor[b].step].section} :
                              actor' = [moved EXCEPT ![b].hand[x] = Projected(b)]
      BY <1>9 DEF Apply, moved
    <3> QED BY <3>1, <3>2
  <2> QED BY <1>2, <1>9, <2>1, <2>2 DEF Apply
<1>10. CASE UNCHANGED vars BY <1>2, <1>10 DEF vars
<1> QED BY <1>3, <1>4, <1>5, <1>6, <1>7, <1>8, <1>9, <1>10 DEF Next

LEMMA OnlyAcceptedBecomesCurrent ==
  ASSUME WritesInv, [Next]_vars, NEW p \in Procs, current'[p] # current[p]
  PROVE  current'[p] \in {Defaults} \cup Accepted
<1>1. TypeOK BY DEF WritesInv
<1>2. ASSUME NEW q \in Procs, Start(q) PROVE current'[p] = Defaults BY <1>1, <1>2 DEF Start, TypeOK
<1>3. ASSUME NEW a \in Actors, SetCurrent(a) PROVE current'[p] \in Accepted
  <2>1. current'[p] = actor[a].doc BY <1>1, <1>3 DEF SetCurrent, TypeOK
  <2> QED BY <1>3, <2>1 DEF SetCurrent, WritesInv
<1>4. \A q \in Procs : ~Stop(q) /\ \A fromEnv \in BOOLEAN : ~Load(q, fromEnv) BY DEF Stop, Load
<1>5. \A k \in Clients, q \in Procs, d \in [edit: Edits, plain: BOOLEAN] : ~Update(k, q, d) BY DEF Update
<1>6. \A a \in Actors : ~Put(a) /\ ~Apply(a) BY DEF Put, Apply
<1> QED BY <1>2, <1>3, <1>4, <1>5, <1>6 DEF Next, vars

\* Whatever is lost or refused and wherever a process stops, what becomes
\* current is what it was started with or the document the database holds, as
\* long as writes take turns: else another writer may have stored its own
\* before the first one's is copied (Service.Update, Service.Load).
THEOREM NothingUnstoredRunsHolds == Spec /\ []WritesTakeTurns => NothingUnstoredRuns
<1>1. WritesInv /\ [Next]_vars =>
        [\A p \in Procs : current'[p] # current[p] =>
           current'[p] \in {Defaults} \cup (IF stored = None THEN {} ELSE {stored, Normalize(stored)})]_vars
  BY OnlyAcceptedBecomesCurrent DEF Accepted
<1> QED BY <1>1, WritesInit, WritesStep, PTL DEF Spec, NothingUnstoredRuns

-----------------------------------------------------------------------------
(***************************************************************************)
(* The inference service.                                                  *)
(***************************************************************************)

Semaphores == [size: Slots, taken: Nat]

\* A call that starts over.
LEMMA RestingIsCall == ASSUME Models # {} PROVE Resting \in Calls
  BY DEF Resting, Calls, Answers

LEMMA SomeModel == InferenceTypeOK => Models # {}
  BY DEF InferenceTypeOK

LEMMA InferenceTypeInit == InferenceInit => InferenceTypeOK
<1> SUFFICES ASSUME InferenceInit PROVE InferenceTypeOK
  OBVIOUS
<1>1. cfg \in [model: Models, enabled: BOOLEAN, max: Slots]
  BY DEF InferenceInit
<1>2. [size |-> cfg.max, taken |-> 0] \in Semaphores
  BY <1>1 DEF Semaphores
<1>3. sems \in Seq(Semaphores)
  BY <1>2 DEF InferenceInit
<1>4. Resting \in Calls
  BY <1>1, RestingIsCall
<1> QED
  BY <1>1, <1>3, <1>4 DEF InferenceInit, InferenceTypeOK, Semaphores
-----------------------------------------------------------------------------
\* A stored trace keeps the cache honest unless it is a cached row without the
\* row its answer came from.
LEMMA PersistOK ==
  ASSUME InferenceTypeOK, CachedHasOrigin, NEW t \in Traces, Persist(t),
         t.status = "cached" =>
           \E o \in traces : o.status \in {"ok", "repaired"} /\ o.model = t.model /\ o.by = t.by
  PROVE  traces' \in SUBSET Traces /\ CachedHasOrigin'
<1>1. traces' = traces \/ traces' = traces \cup {t}
  BY DEF Persist
<1>2. traces' \in SUBSET Traces
  BY <1>1 DEF InferenceTypeOK
<1>3. ASSUME NEW u \in traces', u.status = "cached"
      PROVE  \E o \in traces : o.status \in {"ok", "repaired"} /\ o.model = u.model /\ o.by = u.by
  BY <1>1, <1>3 DEF CachedHasOrigin
<1>4. traces \subseteq traces'
  BY <1>1
<1> QED
  BY <1>2, <1>3, <1>4 DEF CachedHasOrigin

LEMMA SameTracesOK ==
  ASSUME InferenceTypeOK, CachedHasOrigin, traces' = traces
  PROVE  traces' \in SUBSET Traces /\ CachedHasOrigin'
  BY DEF InferenceTypeOK, CachedHasOrigin

LEMMA TraceIsTrace ==
  ASSUME InferenceTypeOK, NEW c \in Callers, NEW status \in Statuses
  PROVE  Trace(c, status) \in Traces /\ Trace(c, status).status = status
<1>1. call[c] \in Calls
  BY DEF InferenceTypeOK
<1> QED
  BY <1>1 DEF Trace, Traces, Calls

\* The trace of a call that ends with an answer of its own, or with none.
LEMMA ReturnOK ==
  ASSUME InferenceTypeOK, CachedHasOrigin, NEW c \in Callers,
         NEW status \in {"ok", "repaired", "invalid", "failed"}, Return(c, status)
  PROVE  traces' \in SUBSET Traces /\ CachedHasOrigin' /\ call' = [call EXCEPT ![c] = Resting]
<1>1. Trace(c, status) \in Traces /\ Trace(c, status).status # "cached"
  BY TraceIsTrace DEF Statuses, Useful
<1> QED
  BY <1>1, PersistOK DEF Return

\* A row served from the cache has the origin of the row that was found.
LEMMA CacheHitOK ==
  ASSUME InferenceTypeOK, CachedHasOrigin, NEW c \in Callers,
         NEW t \in Hits(call[c].model), Persist([Trace(c, "cached") EXCEPT !.by = t.by])
  PROVE  traces' \in SUBSET Traces /\ CachedHasOrigin'
<1> DEFINE u == [Trace(c, "cached") EXCEPT !.by = t.by]
<1>1. t \in traces /\ t \in Traces /\ t.model = call[c].model /\ t.status \in Useful
  BY DEF Hits, Reusable, InferenceTypeOK
<1>2. u \in Traces /\ u.model = call[c].model /\ u.by = t.by /\ u.status = "cached"
  <2>1. call[c] \in Calls
    BY DEF InferenceTypeOK
  <2> QED
    BY <1>1, <2>1 DEF Trace, Traces, Calls, Statuses, Useful
<1>3. \E o \in traces : o.status \in {"ok", "repaired"} /\ o.model = t.model /\ o.by = t.by
  BY <1>1 DEF CachedHasOrigin, Useful
<1>4. \E o \in traces : o.status \in {"ok", "repaired"} /\ o.model = u.model /\ o.by = u.by
  BY <1>1, <1>2, <1>3
<1> QED
  BY <1>2, <1>4, PersistOK
-----------------------------------------------------------------------------
\* A step of a caller that neither takes nor gives back a slot.
SlotKept(c) ==
  /\ cfg' = cfg /\ sems' = sems
  /\ call[c].pc # "sending"
  /\ \E k \in Calls : /\ call' = [call EXCEPT ![c] = k]
                      /\ k.pc # "sending"
                      /\ k.pc = "waiting" => k.sem = Current

TracesOK == traces \in SUBSET Traces /\ CachedHasOrigin

LEMMA ReturnKeepsSlot ==
  ASSUME InferenceTypeOK, CachedHasOrigin, NEW c \in Callers,
         NEW status \in {"ok", "repaired", "invalid", "failed"}, Return(c, status),
         call[c].pc # "sending", cfg' = cfg, sems' = sems
  PROVE  SlotKept(c) /\ TracesOK'
<1>1. Resting \in Calls /\ Resting.pc = "idle"
  BY RestingIsCall, SomeModel DEF Resting
<1> QED
  BY <1>1, ReturnOK DEF SlotKept, TracesOK

LEMMA MoveKeepsSlot ==
  ASSUME InferenceTypeOK, CachedHasOrigin, NEW c \in Callers,
         NEW l \in {"looking", "entering", "prepared"}, MoveTo(c, l),
         call[c].pc # "sending", cfg' = cfg, sems' = sems, traces' = traces
  PROVE  SlotKept(c) /\ TracesOK'
<1> DEFINE k == [call[c] EXCEPT !.pc = l]
<1>1. call[c] \in Calls
  BY DEF InferenceTypeOK
<1>2. k \in Calls /\ k.pc = l
  BY <1>1 DEF Calls
<1>3. call' = [call EXCEPT ![c] = k]
  BY DEF MoveTo
<1> QED
  BY <1>2, <1>3, SameTracesOK DEF SlotKept, TracesOK

LEMMA PrepareOK ==
  ASSUME InferenceTypeOK, CachedHasOrigin, NEW c \in Callers, NEW useCache \in BOOLEAN, Prepare(c, useCache)
  PROVE  SlotKept(c) /\ TracesOK'
<1> DEFINE k == [call[c] EXCEPT !.pc = "prepared", !.model = cfg.model, !.cached = useCache]
<1>1. call \in [Callers -> Calls] /\ call[c] \in Calls /\ cfg.model \in Models
  BY DEF InferenceTypeOK
<1>2. k \in Calls /\ k.pc = "prepared"
  BY <1>1 DEF Calls
<1>3. call' = [call EXCEPT ![c] = k]
  BY <1>1 DEF Prepare, Calls
<1> QED
  BY <1>2, <1>3, SameTracesOK DEF SlotKept, TracesOK, Prepare

LEMMA EnterOK ==
  ASSUME InferenceTypeOK, CachedHasOrigin, NEW c \in Callers, Enter(c)
  PROVE  SlotKept(c) /\ TracesOK'
<1>1. CASE cfg.enabled
  <2> DEFINE k == [call[c] EXCEPT !.pc = "waiting", !.snap = cfg.model, !.sem = Current]
  <2>1. call \in [Callers -> Calls] /\ call[c] \in Calls /\ cfg.model \in Models /\ Current \in Nat
    BY LenProperties DEF InferenceTypeOK, Current
  <2>2. k \in Calls /\ k.sem = Current /\ k.pc = "waiting"
    BY <2>1 DEF Calls
  <2>3. call' = [call EXCEPT ![c] = k]
    BY <1>1, <2>1 DEF Enter, Calls
  <2> QED
    BY <1>1, <2>2, <2>3, SameTracesOK DEF SlotKept, TracesOK, Enter
<1>2. CASE ~cfg.enabled
  BY <1>2, ReturnKeepsSlot DEF Enter
<1> QED
  BY <1>1, <1>2

LEMMA LookUpOK ==
  ASSUME InferenceTypeOK, CachedHasOrigin, NEW c \in Callers, LookUp(c)
  PROVE  SlotKept(c) /\ TracesOK'
<1>1. CASE MoveTo(c, "entering") /\ UNCHANGED traces
  BY <1>1, MoveKeepsSlot DEF LookUp
<1>2. ASSUME NEW t \in Hits(call[c].model), Persist([Trace(c, "cached") EXCEPT !.by = t.by]),
             call' = [call EXCEPT ![c] = Resting]
      PROVE  SlotKept(c) /\ TracesOK'
  <2>1. Resting \in Calls /\ Resting.pc = "idle"
    BY RestingIsCall, SomeModel DEF Resting
  <2> QED
    BY <1>2, <2>1, CacheHitOK DEF SlotKept, TracesOK, LookUp
<1> QED
  BY <1>1, <1>2 DEF LookUp

LEMMA RepairOK ==
  ASSUME InferenceTypeOK, CachedHasOrigin, NEW c \in Callers, Repair(c)
  PROVE  SlotKept(c) /\ TracesOK'
<1> DEFINE k == [call[c] EXCEPT !.pc = "entering", !.repair = TRUE]
<1>1. call \in [Callers -> Calls] /\ call[c] \in Calls
  BY DEF InferenceTypeOK
<1>2. k \in Calls /\ k.pc = "entering"
  BY <1>1 DEF Calls
<1>3. call' = [call EXCEPT ![c] = k]
  BY <1>1 DEF Repair, Calls
<1> QED
  BY <1>2, <1>3, SameTracesOK DEF SlotKept, TracesOK, Repair

LEMMA StepsKeepSlot ==
  ASSUME InferenceTypeOK, CachedHasOrigin, NEW c \in Callers,
         (\E useCache \in BOOLEAN : Prepare(c, useCache)) \/ Local(c) \/ GiveUp(c)
  PROVE  SlotKept(c) /\ TracesOK'
<1>1. CASE CheckEnabled(c)
  BY <1>1, MoveKeepsSlot, ReturnKeepsSlot DEF CheckEnabled
<1>2. CASE Accept(c) \/ Reject(c) \/ GiveUp(c)
  <2>1. PICK status \in {"ok", "repaired", "invalid", "failed"} :
          Return(c, status) /\ call[c].pc # "sending" /\ cfg' = cfg /\ sems' = sems
    BY <1>2 DEF Accept, Reject, GiveUp
  <2> QED
    BY <2>1, ReturnKeepsSlot
<1> QED
  BY <1>1, <1>2, PrepareOK, EnterOK, LookUpOK, RepairOK DEF Local
-----------------------------------------------------------------------------
\* The requests that hold a slot of semaphore i.
Holders(i) == {c \in InFlight : call[c].sem = i}

\* Whoever waits for a semaphore or holds a slot of it names one that exists.
Pinned ==
  /\ Current > 0
  /\ \A c \in Callers : call[c].pc \in {"waiting", "sending"} => call[c].sem \in 1..Current

IInv ==
  /\ InferenceTypeOK
  /\ TracesOK
  /\ IsFiniteSet(InFlight)
  /\ Pinned
  /\ SlotsAccounted

LEMMA Counted == SlotsAccounted <=>
  \A i \in 1..Current : sems[i].taken = Cardinality(Holders(i)) /\ sems[i].taken <= sems[i].size
  BY DEF SlotsAccounted, Holders

LEMMA SemTypes ==
  ASSUME InferenceTypeOK
  PROVE  /\ Current \in Nat /\ sems \in Seq(Semaphores)
         /\ \A i \in 1..Current : sems[i] \in Semaphores
  BY LenProperties, ElementOfSeq DEF InferenceTypeOK, Current, Semaphores

LEMMA InitOK == InferenceInit => IInv
<1> SUFFICES ASSUME InferenceInit PROVE IInv
  OBVIOUS
<1>1. InferenceTypeOK /\ TracesOK
  BY InferenceTypeInit DEF InferenceInit, TracesOK, CachedHasOrigin
<1>2. InFlight = {}
  BY DEF InferenceInit, InFlight, Resting
<1>3. \A i : Holders(i) = {}
  BY <1>2 DEF Holders
<1>4. Current = 1 /\ sems[1].taken = 0 /\ sems[1].size = cfg.max /\ cfg.max \in Nat
  BY <1>1, SlotsPositive DEF InferenceInit, Current, InferenceTypeOK
<1>5. SlotsAccounted
  BY <1>3, <1>4, FS_EmptySet, Counted
<1>6. Pinned
  BY <1>4 DEF InferenceInit, Pinned, Resting
<1> QED
  BY <1>1, <1>2, <1>5, <1>6, FS_EmptySet DEF IInv

\* Whatever else a caller does, the slots are as they were.
LEMMA SlotKeptInv ==
  ASSUME IInv, NEW c \in Callers, SlotKept(c), TracesOK'
  PROVE  IInv'
<1>1. PICK k \in Calls : /\ call' = [call EXCEPT ![c] = k]
                         /\ k.pc # "sending"
                         /\ k.pc = "waiting" => k.sem = Current
  BY DEF SlotKept
<1>2. /\ InferenceTypeOK /\ cfg' = cfg /\ sems' = sems /\ Current' = Current
      /\ call' \in [Callers -> Calls]
      /\ call'[c] = k /\ \A d \in Callers \ {c} : call'[d] = call[d]
  BY <1>1 DEF IInv, SlotKept, InferenceTypeOK, Current
<1>3. InferenceTypeOK'
  BY <1>2 DEF InferenceTypeOK, TracesOK
<1>4. c \notin InFlight /\ InFlight' = InFlight
  BY <1>1, <1>2 DEF InFlight, SlotKept
<1>5. \A i : Holders(i)' = Holders(i)
  BY <1>2, <1>4 DEF Holders, InFlight
<1>6. Pinned'
  <2>1. Current \in 1..Current
    BY SemTypes DEF IInv, Pinned
  <2> QED
    BY <1>1, <1>2, <2>1 DEF IInv, Pinned
<1>7. SlotsAccounted'
  BY <1>2, <1>5, Counted DEF IInv, SlotsAccounted, Holders
<1> QED
  BY <1>3, <1>4, <1>6, <1>7 DEF IInv
\* A resize starts an empty semaphore beside the ones still held.
LEMMA ConfigOK ==
  ASSUME IInv, NEW m \in Models, NEW on \in BOOLEAN, NEW n \in Slots, SetConfig(m, on, n)
  PROVE  IInv'
<1> DEFINE new == [size |-> n, taken |-> 0]
<1>1. InferenceTypeOK /\ sems \in Seq(Semaphores) /\ new \in Semaphores
  BY SemTypes DEF IInv, Semaphores
<1>2. call' = call /\ traces' = traces /\ cfg' \in [model: Models, enabled: BOOLEAN, max: Slots]
  BY DEF SetConfig
<1>3. InFlight' = InFlight /\ TracesOK' /\ \A i : Holders(i)' = Holders(i)
  BY <1>1, <1>2, SameTracesOK DEF IInv, TracesOK, InFlight, Holders
<1>4. CASE sems' = sems
  BY <1>1, <1>2, <1>3, <1>4 DEF IInv, InferenceTypeOK, TracesOK, Pinned, SlotsAccounted, Current, Holders
<1>5. CASE sems' = Append(sems, new)
  <2>1. /\ sems' \in Seq(Semaphores) /\ Current' = Current + 1 /\ Current \in Nat
        /\ \A i \in 1..Current : sems'[i] = sems[i]
        /\ sems'[Current + 1] = new
    BY <1>1, <1>5, AppendProperties, LenProperties DEF Current
  <2>2. InferenceTypeOK'
    BY <1>1, <1>2, <1>3, <2>1 DEF InferenceTypeOK, TracesOK, Semaphores
  <2>3. Pinned'
    BY <1>2, <2>1 DEF IInv, Pinned
  <2>4. Holders(Current + 1) = {}
    <3>1. \A c \in InFlight : call[c].sem \in 1..Current
      BY DEF IInv, Pinned, InFlight
    <3> QED
      BY <2>1, <3>1 DEF Holders
  <2>5. ASSUME NEW i \in 1..(Current + 1)
        PROVE  sems'[i].taken = Cardinality(Holders(i)) /\ sems'[i].taken <= sems'[i].size
    <3>1. CASE i \in 1..Current
      <4>1. sems[i].taken = Cardinality(Holders(i)) /\ sems[i].taken <= sems[i].size
        BY <3>1, Counted DEF IInv
      <4>2. sems'[i] = sems[i]
        BY <2>1, <3>1
      <4> QED
        BY <4>1, <4>2
    <3>2. CASE i = Current + 1
      <4>1. sems'[i].taken = 0 /\ sems'[i].size = n
        BY <2>1, <3>2
      <4>2. Cardinality(Holders(i)) = 0
        BY <2>4, <3>2, FS_EmptySet
      <4> QED
        BY <4>1, <4>2, SlotsPositive
    <3> QED
      BY <2>1, <3>1, <3>2
  <2>6. SlotsAccounted'
    BY <1>3, <2>1, <2>5 DEF SlotsAccounted, Holders
  <2> QED
    BY <1>3, <2>2, <2>3, <2>6 DEF IInv
<1> QED
  BY <1>4, <1>5 DEF SetConfig, NewSemaphore

\* One slot of semaphore s is taken or given back.
LEMMA CountStep ==
  ASSUME IInv, NEW s \in 1..Current, NEW n \in Nat, sems' = [sems EXCEPT ![s].taken = n]
  PROVE  /\ sems' \in Seq(Semaphores) /\ Current' = Current
         /\ sems'[s].taken = n /\ sems'[s].size = sems[s].size
         /\ \A i \in 1..Current : i # s => sems'[i] = sems[i]
<1> DEFINE new == [sems[s] EXCEPT !.taken = n]
<1>1. sems \in Seq(Semaphores) /\ sems[s] \in Semaphores /\ Current = Len(sems)
  BY SemTypes DEF IInv, Current
<1>2. new \in Semaphores /\ new.taken = n /\ new.size = sems[s].size
  BY <1>1 DEF Semaphores
<1>3. sems' = [sems EXCEPT ![s] = new]
  OBVIOUS
<1>4. /\ sems' \in Seq(Semaphores) /\ Len(sems') = Len(sems)
      /\ \A i \in 1..Len(sems) : sems'[i] = IF i = s THEN new ELSE sems[i]
  BY <1>1, <1>2, <1>3, ExceptSeq
<1> QED
  BY <1>1, <1>2, <1>4 DEF Current
\* A waiting caller takes a free slot and becomes one more holder.
LEMMA AcquireOK ==
  ASSUME IInv, NEW c \in Callers, Acquire(c)
  PROVE  IInv'
<1>1. PICK s \in 1..Current : s = call[c].sem
  BY DEF IInv, Pinned, Acquire
<1>2. /\ InferenceTypeOK /\ call \in [Callers -> Calls] /\ call[c] \in Calls
      /\ sems[s] \in Semaphores /\ IsFiniteSet(InFlight)
  BY SemTypes DEF IInv, InferenceTypeOK
<1>3. sems[s].taken \in Nat /\ sems[s].size \in Nat /\ sems[s].taken < sems[s].size
  BY <1>1, <1>2, SlotsPositive DEF Acquire, HasSlot, Semaphores
<1>4. /\ sems' \in Seq(Semaphores) /\ Current' = Current
      /\ sems'[s].taken = sems[s].taken + 1 /\ sems'[s].size = sems[s].size
      /\ \A i \in 1..Current : i # s => sems'[i] = sems[i]
  <2>1. sems' = [sems EXCEPT ![s].taken = sems[s].taken + 1]
    BY <1>1 DEF Acquire
  <2>2. sems[s].taken + 1 \in Nat
    BY <1>3
  <2> QED
    BY <2>1, <2>2, CountStep
<1>5. /\ call' = [call EXCEPT ![c] = [call[c] EXCEPT !.pc = "sending"]]
      /\ cfg' = cfg /\ traces' = traces
  BY DEF Acquire, MoveTo
<1>6. /\ call' \in [Callers -> Calls] /\ \A d \in Callers \ {c} : call'[d] = call[d]
      /\ call'[c].pc = "sending" /\ call'[c].sem = s
  BY <1>1, <1>2, <1>5 DEF Calls
<1>7. InferenceTypeOK' /\ TracesOK'
  BY <1>2, <1>4, <1>5, <1>6, SameTracesOK DEF IInv, InferenceTypeOK, TracesOK, Semaphores
<1>8. Pinned'
  BY <1>2, <1>4, <1>6 DEF IInv, Pinned
<1>9. c \notin InFlight /\ InFlight' = InFlight \cup {c}
  BY <1>6 DEF InFlight, Acquire
<1>10. IsFiniteSet(InFlight')
  BY <1>2, <1>9, FS_AddElement
<1>11. /\ Holders(s)' = Holders(s) \cup {c} /\ c \notin Holders(s)
      /\ \A i \in 1..Current : i # s => Holders(i)' = Holders(i)
  BY <1>1, <1>2, <1>6, <1>9 DEF Holders, InFlight
<1>12. Cardinality(Holders(s)') = Cardinality(Holders(s)) + 1
  <2>1. IsFiniteSet(Holders(s))
    BY <1>2, FS_Subset DEF Holders
  <2> QED
    BY <1>11, <2>1, FS_AddElement
<1>13. \A i \in 1..Current : sems[i].taken = Cardinality(Holders(i)) /\ sems[i].taken <= sems[i].size
  BY Counted DEF IInv
<1>14. ASSUME NEW i \in 1..Current
       PROVE  sems'[i].taken = Cardinality(Holders(i)') /\ sems'[i].taken <= sems'[i].size
  <2>1. CASE i = s
    BY <1>2, <1>3, <1>4, <1>12, <1>13, <2>1
  <2>2. CASE i # s
    BY <1>4, <1>11, <1>13, <2>2
  <2> QED
    BY <2>1, <2>2
<1>15. SlotsAccounted'
  BY <1>4, <1>14 DEF SlotsAccounted, Holders
<1> QED
  BY <1>7, <1>8, <1>10, <1>15 DEF IInv

\* A caller whose HTTP request ended gives its slot back where it took it.
LEMMA ReleaseOK ==
  ASSUME IInv, NEW c \in Callers, call[c].pc = "sending", Release(c),
         NEW k \in Calls, call' = [call EXCEPT ![c] = k], k.pc \notin {"waiting", "sending"},
         cfg' = cfg, TracesOK'
  PROVE  IInv'
<1>1. PICK s \in 1..Current : s = call[c].sem
  BY DEF IInv, Pinned
<1>2. /\ InferenceTypeOK /\ call \in [Callers -> Calls] /\ call[c] \in Calls
      /\ sems[s] \in Semaphores /\ IsFiniteSet(InFlight)
  BY SemTypes DEF IInv, InferenceTypeOK
<1>3. sems[s].taken \in Nat /\ sems[s].size \in Nat /\ sems[s].taken - 1 \in Nat
  BY <1>1, <1>2, SlotsPositive DEF Release, Held, Semaphores
<1>4. /\ sems' \in Seq(Semaphores) /\ Current' = Current
      /\ sems'[s].taken = sems[s].taken - 1 /\ sems'[s].size = sems[s].size
      /\ \A i \in 1..Current : i # s => sems'[i] = sems[i]
  <2>1. sems' = [sems EXCEPT ![s].taken = sems[s].taken - 1]
    BY <1>1 DEF Release, Held
  <2> QED
    BY <1>3, <2>1, CountStep
<1>5. /\ call' \in [Callers -> Calls] /\ \A d \in Callers \ {c} : call'[d] = call[d]
      /\ call'[c] = k
  BY <1>2
<1>6. InferenceTypeOK'
  BY <1>2, <1>4, <1>5 DEF InferenceTypeOK, TracesOK, Semaphores
<1>7. Pinned'
  BY <1>2, <1>4, <1>5 DEF IInv, Pinned
<1>8. c \in InFlight /\ InFlight' = InFlight \ {c}
  BY <1>5 DEF InFlight
<1>9. IsFiniteSet(InFlight')
  BY <1>2, <1>8, FS_RemoveElement
<1>10. /\ Holders(s)' = Holders(s) \ {c} /\ c \in Holders(s)
      /\ \A i \in 1..Current : i # s => Holders(i)' = Holders(i)
  BY <1>1, <1>2, <1>5, <1>8 DEF Holders, InFlight
<1>11. Cardinality(Holders(s)') = Cardinality(Holders(s)) - 1
  <2>1. IsFiniteSet(Holders(s))
    BY <1>2, FS_Subset DEF Holders
  <2> QED
    BY <1>10, <2>1, FS_RemoveElement
<1>12. \A i \in 1..Current : sems[i].taken = Cardinality(Holders(i)) /\ sems[i].taken <= sems[i].size
  BY Counted DEF IInv
<1>13. ASSUME NEW i \in 1..Current
       PROVE  sems'[i].taken = Cardinality(Holders(i)') /\ sems'[i].taken <= sems'[i].size
  <2>1. CASE i = s
    BY <1>2, <1>3, <1>4, <1>11, <1>12, <2>1
  <2>2. CASE i # s
    BY <1>4, <1>10, <1>12, <2>2
  <2> QED
    BY <2>1, <2>2
<1>14. SlotsAccounted'
  BY <1>4, <1>13 DEF SlotsAccounted, Holders
<1> QED
  BY <1>6, <1>7, <1>9, <1>14 DEF IInv
LEMMA AnswerOrFailOK ==
  ASSUME IInv, NEW c \in Callers, Answer(c) \/ Fail(c)
  PROVE  IInv'
<1>1. InferenceTypeOK /\ TracesOK /\ call \in [Callers -> Calls] /\ call[c] \in Calls
  BY DEF IInv, InferenceTypeOK
<1>2. CASE Answer(c)
  <2> DEFINE k == [call[c] EXCEPT !.pc = "answered", !.by = call[c].snap]
  <2>1. k \in Calls /\ k.pc = "answered"
    BY <1>1 DEF Calls, Answers
  <2>2. call' = [call EXCEPT ![c] = k]
    BY <1>1, <1>2 DEF Answer, Calls
  <2>3. TracesOK'
    BY <1>1, <1>2, SameTracesOK DEF Answer, TracesOK
  <2>4. call[c].pc = "sending" /\ Release(c) /\ cfg' = cfg
    BY <1>2 DEF Answer
  <2> HIDE DEF k
  <2> QED
    BY <2>1, <2>2, <2>3, <2>4, ReleaseOK
<1>3. CASE Fail(c)
  <2>1. Resting \in Calls /\ Resting.pc = "idle"
    BY <1>1, RestingIsCall, SomeModel DEF Resting
  <2>2. call' = [call EXCEPT ![c] = Resting] /\ TracesOK'
    BY <1>1, <1>3, ReturnOK DEF Fail, TracesOK
  <2>3. call[c].pc = "sending" /\ Release(c) /\ cfg' = cfg
    BY <1>3 DEF Fail
  <2> QED
    BY <2>1, <2>2, <2>3, ReleaseOK
<1> QED
  BY <1>2, <1>3

LEMMA StepOK == IInv /\ [InferenceNext]_inferenceVars => IInv'
<1> SUFFICES ASSUME IInv, [InferenceNext]_inferenceVars PROVE IInv'
  OBVIOUS
<1>1. InferenceTypeOK /\ CachedHasOrigin
  BY DEF IInv, TracesOK
<1>2. ASSUME NEW c \in Callers,
             (\E useCache \in BOOLEAN : Prepare(c, useCache)) \/ Local(c) \/ GiveUp(c)
      PROVE  IInv'
  <2>1. SlotKept(c) /\ TracesOK'
    BY <1>1, <1>2, StepsKeepSlot
  <2> QED
    BY <2>1, SlotKeptInv
<1>3. CASE UNCHANGED inferenceVars
  BY <1>3 DEF inferenceVars, IInv, InferenceTypeOK, TracesOK, CachedHasOrigin, InFlight, Pinned, SlotsAccounted, Current
<1> QED
  BY <1>2, <1>3, ConfigOK, AcquireOK, AnswerOrFailOK DEF InferenceNext

\* Types, for any callers and models.
THEOREM TypeCorrect == InferenceSpec => []InferenceTypeOK
  BY InitOK, StepOK, PTL DEF InferenceSpec, IInv

\* However often the limit is changed while requests are under way, each
\* semaphore counts exactly the requests that took a slot of it and is never
\* above its size.
THEOREM SlotsAccountedHolds == InferenceSpec => []SlotsAccounted
  BY InitOK, StepOK, PTL DEF InferenceSpec, IInv

\* Behind every row served from the cache is a row that was validated itself.
THEOREM CachedHasOriginHolds == InferenceSpec => []CachedHasOrigin
<1>1. IInv => CachedHasOrigin
  BY DEF IInv, TracesOK
<1> QED
  BY <1>1, InitOK, StepOK, PTL DEF InferenceSpec
=============================================================================
