---------------------------- MODULE MCStrategies ----------------------------
(***************************************************************************)
(* The hosted strategies, the indicators that feed them and the monitors   *)
(* in one instance.  A worker hosts one strategy; the indicators and the   *)
(* monitors share no state with the poll loop of StrategyHost, so a        *)
(* behaviour exercises one of the three and the other two stay idle.       *)
(***************************************************************************)
EXTENDS StrategyHost, Monitors

AllHosted == DOMAIN Configs

Bar(high, low, close) == [high |-> high, low |-> low, close |-> close]

BarsChecked == {Bar(2, 1, 1), Bar(2, 1, 2), Bar(3, 1, 3), Bar(4, 3, 3), Bar(2, 2, 2)}

NoneHosted ==
    /\ strat = "none" /\ cfg = None /\ mem = None /\ market = None
    /\ prog = <<>> /\ late = <<>> /\ venue = EmptyVenue
    /\ moves = 0 /\ refused = 0 /\ unsure = 0 /\ crashes = 0

StrategiesInit == (Init \/ NoneHosted) /\ IndicatorInit /\ MonitorInit

StrategiesNext ==
    \/ strat # "none" /\ Next /\ UNCHANGED <<indicatorVars, monitorVars>>
    \/ strat = "none" /\ monitor = Unknown /\ IndicatorNext /\ UNCHANGED <<vars, monitorVars>>
    \/ strat = "none" /\ fed = <<>> /\ MonitorNext /\ UNCHANGED <<vars, indicatorVars>>

StrategiesSpec ==
    /\ StrategiesInit /\ [][StrategiesNext]_<<vars, indicatorVars, monitorVars>>
    /\ strat # "none" => Fairness
=============================================================================
