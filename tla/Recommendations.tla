---------------------------- MODULE Recommendations ----------------------------
(***************************************************************************)
(* One analysis after the other (recommendations.Service.Analyze): the     *)
(* deterministic half, Signals, decides on the closed candles and builds   *)
(* the snapshot; the model's half, Advice, asks for an opinion on that     *)
(* snapshot, has it checked and sized, stores it and grades it.  Both      *)
(* verdicts are stored side by side, and neither replaces the other.       *)
(***************************************************************************)
EXTENDS Advice, Signals

CONSTANTS
  Discussed(_, _),   \* bound: the analyses the model is asked about
  Offered(_, _)      \* bound: the answers it may give in a situation

Full(situation) ==
  LET seen == decision.snapshot
      OrUnknown(x) == IF Has(x) THEN x ELSE Unknown
  IN [situation EXCEPT !.atr = OrUnknown(seen.atr), !.percentile = OrUnknown(seen.percentile),
                       !.regime = seen.regime, !.highVolTag = seen.highVolTag,
                       !.alignment = seen.alignment, !.levels = seen.levels]

Init == AdviceInit /\ SignalInit

\* Once the snapshot is built the candles are not read again, and they are
\* dropped.
Ask(situation, answer, current) ==
  /\ AskModel(Full(situation), answer, current)
  /\ series' = <<>> /\ outlook' = Missing /\ strategies' = Missing /\ decision' = Missing

Next ==
  \/ stage = "idle" /\ SignalStep /\ UNCHANGED adviceVars
  \/ /\ stage = "idle"
     /\ Discussed(series, strategies)
     /\ series[Len(series)].c = Price
     /\ \E s \in Situations, p \in Policies, a \in Replies :
          Offered(a, Full(s)) /\ Ask(s, a, p)
  \/ AdviceStep /\ UNCHANGED signalVars

Spec == Init /\ [][Next]_<<adviceVars, signalVars>>

\* The anti-repainting rule of the package: as candles close, every swing
\* reported before is reported again, at the same candle and with the same
\* label; a new one is reported exactly when the third candle after it has
\* closed; and while the last swing of a kind stays the last, the break of it
\* stays at the candle and the price where it was found
\* (marketstructure/structure.go:51-217).
NoRepaint == [][stage' = "idle" => KeepsReported]_signalVars

\* What Signals states of every decision holds of each before the model hears
\* of it (strategies.go:63-178 and the analysis under it).
SupportNeverHurtsYet == stage = "idle" => SupportNeverHurts
MirrorFairYet == stage = "idle" => MirrorFair
=============================================================================
