---------------------------- MODULE StrategyHost ----------------------------
(***************************************************************************)
(* One worker process hosting one strategy: the registry resolves the      *)
(* configured name to a strategy, and the strategy's poll loop runs until  *)
(* the process dies and is started again.  The market moves, resting       *)
(* quotes fill and answers fail in between (TickEngine).                   *)
(***************************************************************************)
EXTENDS SignalStrategies, QuoteStrategies, FlowStrategies, TLC

CONSTANT
    Hosted   \* the names this instance runs

-----------------------------------------------------------------------------
(* The registry: name -> parameters, what a tick reads, how it starts.     *)

SignalConfigs ==
    [adx_trend |-> AdxTrendConfig, bb_keltner_squeeze |-> BbKeltnerConfig,
     cvd_divergence |-> CvdDivergenceConfig, darvas_box |-> DarvasBoxConfig,
     dual_thrust |-> DualThrustConfig, ichimoku |-> IchimokuConfig,
     mean_reversion |-> MeanReversionConfig, momentum_factor |-> MomentumFactorConfig,
     ema_cross |-> EmaCrossConfig, supertrend |-> SupertrendConfig,
     macd_bb |-> MacdBbConfig, bollinger_v2 |-> BollingerV2Config, dman_v3 |-> DmanV3Config,
     xfunding_lite |-> XfundingLiteConfig, irr |-> IrrConfig, stat_arb |-> StatArbConfig,
     spot_perp_arb |-> SpotPerpArbConfig, basis_mm |-> BasisMmConfig, amm_arb |-> AmmArbConfig]

SignalReadings ==
    [adx_trend |-> AdxTrendReading, bb_keltner_squeeze |-> BbKeltnerReading,
     cvd_divergence |-> CvdDivergenceReading, darvas_box |-> DarvasBoxReading,
     dual_thrust |-> DualThrustReading, ichimoku |-> IchimokuReading,
     mean_reversion |-> MeanReversionReading, momentum_factor |-> MomentumFactorReading,
     ema_cross |-> EmaCrossReading, supertrend |-> SupertrendReading,
     macd_bb |-> MacdBbReading, bollinger_v2 |-> BollingerV2Reading, dman_v3 |-> DmanV3Reading,
     xfunding_lite |-> XfundingLiteReading, irr |-> IrrReading, stat_arb |-> StatArbReading,
     spot_perp_arb |-> SpotPerpArbReading, basis_mm |-> BasisMmReading, amm_arb |-> AmmArbReading]

MakerConfigs ==
    [fixed_maker |-> FixedMakerConfig, pmm_dynamic |-> PmmDynamicConfig,
     perpetual_mm |-> PerpetualMmConfig, obi_mm |-> ObiMmConfig, queue_mm |-> QueueMmConfig,
     simplified_glft_mm |-> SimplifiedGlftMmConfig, avellaneda_mm_v2 |-> AvellanedaMmV2Config,
     glft_mm |-> GlftMmConfig, cross_exchange_mm |-> CrossExchangeMmConfig,
     pure_market_making |-> PureMarketMakingConfig, grid_strike |-> GridStrikeConfig,
     boll_grid |-> BollGridConfig, cross_maker |-> CrossMakerConfig,
     cross_fixed_maker |-> CrossFixedMakerConfig, cross_depth_maker |-> CrossDepthMakerConfig]

MakerReadings ==
    [fixed_maker |-> FixedMakerReading, pmm_dynamic |-> PmmDynamicReading,
     perpetual_mm |-> PerpetualMmReading, obi_mm |-> ObiMmReading, queue_mm |-> QueueMmReading,
     simplified_glft_mm |-> SimplifiedGlftMmReading, avellaneda_mm_v2 |-> AvellanedaMmV2Reading,
     glft_mm |-> GlftMmReading, cross_exchange_mm |-> CrossExchangeMmReading,
     pure_market_making |-> PureMarketMakingReading, grid_strike |-> GridStrikeReading,
     boll_grid |-> BollGridReading, cross_maker |-> CrossMakerReading,
     cross_fixed_maker |-> CrossFixedMakerReading, cross_depth_maker |-> CrossDepthMakerReading]

JobConfigs ==
    [twap_executor |-> TwapConfig, vwap_executor |-> VwapConfig, dca_executor |-> DcaExecutorConfig,
     dca_scheduler |-> DcaSchedulerConfig, random_entry |-> RandomEntryConfig,
     convert |-> ConvertConfig, hedge |-> HedgeConfig, hedge_grid |-> HedgeGridConfig,
     rebalance |-> RebalanceConfig, market_cap |-> MarketCapConfig, autoborrow |-> AutoborrowConfig,
     balance_align |-> BalanceAlignConfig, deposit_transfer |-> DepositTransferConfig,
     sentinel |-> SentinelConfig]

JobReadings ==
    [twap_executor |-> TwapReading, vwap_executor |-> VwapReading, dca_executor |-> DcaExecutorReading,
     dca_scheduler |-> ClockReading, random_entry |-> RandomEntryReading,
     convert |-> ClockReading, hedge |-> HedgeReading, hedge_grid |-> HedgeGridReading,
     rebalance |-> RebalanceReading, market_cap |-> RebalanceReading, autoborrow |-> AutoborrowReading,
     balance_align |-> ClockReading, deposit_transfer |-> DepositTransferReading,
     sentinel |-> SentinelReading]

Configs == SignalConfigs @@ MakerConfigs @@ JobConfigs

Readings == SignalReadings @@ MakerReadings @@ JobReadings

\* What a strategy remembers when its process starts.
Start(name, c) ==
    CASE name = "ema_cross" -> "Unknown"
      [] name \in {"stat_arb", "basis_mm", "amm_arb", "hedge"} -> 0
      [] name = "spot_perp_arb" -> FALSE
      [] name = "twap_executor" -> TwapStart
      [] name = "vwap_executor" -> c.total_amount
      [] name = "dca_executor" -> DcaExecutorStart
      [] name = "hedge_grid" -> <<>>
      [] name = "deposit_transfer" -> {}
      [] name = "sentinel" -> Healthy
      [] name \in DOMAIN MakerConfigs \cup {"dca_scheduler", "random_entry", "convert",
              "rebalance", "market_cap", "autoborrow", "balance_align"} -> None
      [] OTHER -> "Flat"

\* What the account holds before the strategy has sent anything.
Opening(name) ==
    CASE name \in {"rebalance", "market_cap", "balance_align"} -> [EmptyVenue EXCEPT !.net["primary"] = 4]
      [] name = "sentinel" -> [EmptyVenue EXCEPT !.book = <<Bid(100)>>]
      [] OTHER -> EmptyVenue

-----------------------------------------------------------------------------
(* One tick of the hosted strategy, as the steps it will take.             *)

SignalTick(name, c, m, r) ==
    CASE name = "adx_trend" -> AdxTrendTick(c, m, r)
      [] name = "bb_keltner_squeeze" -> BbKeltnerTick(c, m, r)
      [] name = "cvd_divergence" -> CvdDivergenceTick(c, m, r)
      [] name = "darvas_box" -> DarvasBoxTick(c, m, r)
      [] name = "dual_thrust" -> DualThrustTick(c, m, r)
      [] name = "ichimoku" -> IchimokuTick(c, m, r)
      [] name = "mean_reversion" -> MeanReversionTick(c, m, r)
      [] name = "momentum_factor" -> MomentumFactorTick(c, m, r)
      [] name = "ema_cross" -> EmaCrossTick(c, m, r)
      [] name = "supertrend" -> SupertrendTick(c, m, r)
      [] name = "macd_bb" -> MacdBbTick(c, m, r)
      [] name = "bollinger_v2" -> BollingerV2Tick(c, m, r)
      [] name = "dman_v3" -> DmanV3Tick(c, m, r)
      [] name = "xfunding_lite" -> XfundingLiteTick(c, m, r)
      [] name = "irr" -> IrrTick(c, m, r)
      [] name = "stat_arb" -> StatArbTick(c, m, r)
      [] name = "spot_perp_arb" -> SpotPerpArbTick(c, m, r)
      [] name = "basis_mm" -> BasisMmTick(c, m, r)
      [] name = "amm_arb" -> AmmArbTick(c, m, r)

MakerTick(name, c, m, r, v) ==
    CASE name = "fixed_maker" -> FixedMakerTick(c, m, r)
      [] name = "pmm_dynamic" -> PmmDynamicTick(c, m, r)
      [] name = "perpetual_mm" -> PerpetualMmTick(c, m, r)
      [] name = "obi_mm" -> ObiMmTick(c, m, r)
      [] name = "queue_mm" -> QueueMmTick(c, m, r)
      [] name = "simplified_glft_mm" -> SimplifiedGlftMmTick(c, m, r)
      [] name = "avellaneda_mm_v2" -> AvellanedaMmV2Tick(c, m, r)
      [] name = "glft_mm" -> GlftMmTick(c, m, r)
      [] name = "cross_exchange_mm" -> CrossExchangeMmTick(c, m, r)
      [] name = "pure_market_making" -> PureMarketMakingTick(c, m, r)
      [] name = "grid_strike" -> GridStrikeTick(c, m, r)
      [] name = "boll_grid" -> BollGridTick(c, m, r)
      [] name = "cross_maker" -> CrossMakerTick(c, m, r)
      [] name = "cross_fixed_maker" -> CrossFixedMakerTick(c, m, r, v)
      [] name = "cross_depth_maker" -> CrossDepthMakerTick(c, m, r)

JobTick(name, c, m, r, v) ==
    CASE name = "twap_executor" -> TwapTick(c, m, r)
      [] name = "vwap_executor" -> VwapTick(c, m, r)
      [] name = "dca_executor" -> DcaExecutorTick(c, m, r)
      [] name = "dca_scheduler" -> DcaSchedulerTick(c, m, r)
      [] name = "random_entry" -> RandomEntryTick(c, m, r)
      [] name = "convert" -> ConvertTick(c, m, r)
      [] name = "hedge" -> HedgeTick(c, m, r)
      [] name \in {"rebalance", "market_cap"} -> RebalanceTick(c, m, r, v)
      [] name = "autoborrow" -> AutoborrowTick(c, m, r, v)
      [] name = "balance_align" -> BalanceAlignTick(c, m, r, v)
      [] name = "deposit_transfer" -> DepositTransferTick(c, m, r)
      [] name = "sentinel" -> SentinelTick(c, m, r)

\* A reading that is absent ends the tick before anything is sent.
Ticks ==
    CASE market = None -> {<<>>}
      [] strat = "hedge_grid" -> HedgeGridTicks(cfg, mem, market, venue)
      [] strat \in DOMAIN SignalConfigs -> {SignalTick(strat, cfg, mem, market)}
      [] strat \in DOMAIN MakerConfigs -> {MakerTick(strat, cfg, mem, market, venue)}
      [] OTHER -> {JobTick(strat, cfg, mem, market, venue)}

-----------------------------------------------------------------------------
Init ==
    /\ strat \in Hosted
    /\ cfg \in Configs[strat]
    /\ mem = Start(strat, cfg)
    /\ prog = <<>>
    /\ market \in Readings[strat]
    /\ venue = Opening(strat)
    /\ late = <<>>
    /\ moves = 0
    /\ refused = 0
    /\ unsure = 0
    /\ crashes = 0

Tick == \E steps \in Ticks : Begin(steps)

Next ==
    \/ Tick
    \/ Accepted
    \/ Refused
    \/ AnswerLost
    \/ TimedOut
    \/ Arrives
    \/ Restart(Start(strat, cfg))
    \/ Fills
    \/ Moves(Readings[strat])

(* The poll loop always ticks again, the venue answers or the call times   *)
(* out, and a request under way gets there.  Faults, crashes and market    *)
(* moves are finitely many and not forced to happen.                       *)
Fairness == WF_vars(Tick) /\ WF_vars(Accepted) /\ WF_vars(Arrives)

-----------------------------------------------------------------------------
(* What each strategy believes, and the families the properties are about. *)

Faults == refused + unsure + crashes

Phased == {"adx_trend", "bb_keltner_squeeze", "cvd_divergence", "darvas_box", "dual_thrust",
           "ichimoku", "mean_reversion", "momentum_factor", "supertrend", "macd_bb",
           "bollinger_v2", "dman_v3", "xfunding_lite", "irr"}

\* The makers that cancel what rests before they quote.
Replacing == {"fixed_maker", "pmm_dynamic", "perpetual_mm", "obi_mm", "queue_mm",
              "simplified_glft_mm", "avellaneda_mm_v2", "glft_mm", "cross_exchange_mm",
              "pure_market_making", "grid_strike", "boll_grid"}

\* The most quotes one ladder has.
Ladder == CASE strat \in {"cross_exchange_mm", "pure_market_making", "boll_grid"} -> 4
            [] OTHER -> 2

-----------------------------------------------------------------------------
(* Properties.                                                             *)

(* Every strategy keeps its own idea of its position and never asks the    *)
(* venue.  Between ticks that idea is off by at most one lot for every     *)
(* answer that was an error although the order executed and one for every  *)
(* restart; refusals do no harm, a reversal cut short included.  stat_arb, *)
(* which logs a refused leg and books the position all the same, is also   *)
(* off by its refusals, hedge restarts from a whole position, and          *)
(* ema_cross, which alternates its trades, is never more than one lot      *)
(* away from nothing beyond that.                                          *)
BelievedPosition ==
    Sleeping =>
      CASE strat \in Phased -> Abs(venue.net["primary"] - Direction[mem]) <= unsure + crashes
        [] strat = "stat_arb" -> Abs(venue.net["primary"] - mem) <= Faults
        [] strat = "hedge" -> Abs(venue.net["hedge"] - mem) <= unsure + SpotPosition * crashes
        [] strat = "ema_cross" -> Abs(venue.net["primary"]) <= 1 + unsure + crashes
        [] OTHER -> TRUE

(* The two legs of an arbitrage offset each other between ticks, up to one *)
(* lot (max_qty) per failed answer or restart, and a rebalance moves value *)
(* between the two assets without changing the total, up to one leg.       *)
OffsettingLegs ==
    LET both == venue.net["primary"] + venue.net["hedge"]
    IN  Sleeping =>
          /\ strat \in {"stat_arb", "spot_perp_arb", "amm_arb"} => Abs(both) <= Faults
          /\ strat \in {"rebalance", "market_cap"} /\ cfg.targets = [primary |-> 1, hedge |-> 1]
               => Abs(both - 4) <= 2 * Faults

(* Without faults the hedged grid loses no fill: between ticks the two     *)
(* legs differ by exactly the fills its next look at the book will show.   *)
HedgeGridNeutral ==
    strat = "hedge_grid" /\ Sleeping /\ Faults = 0 =>
      LET unseen == {px \in DOMAIN mem : ~\E i \in DOMAIN venue.book : venue.book[i].px = px}
      IN  venue.net["primary"] + venue.net["hedge"]
            = Cardinality({px \in unseen : mem[px] = "bid"}) - Cardinality({px \in unseen : mem[px] = "ask"})

(* Strategies with two legs stay balanced, up to what failed answers and    *)
(* restarts explain: arbitrage and rebalancing (stat_arb, spot_perp_arb,   *)
(* amm_arb, rebalance, market_cap), and the hedge of a grid's fills.       *)
LegsBalanced == OffsettingLegs /\ HedgeGridNeutral

(* A maker that cancels before it quotes never has more on the book than   *)
(* one ladder and the quotes that reached the venue after their calls had  *)
(* timed out; nor does the hedged grid, which never cancels and seeds only *)
(* the levels its last look at the book showed missing.                    *)
LadderBounded ==
    strat \in Replacing \cup {"hedge_grid"} => Len(venue.book) <= Ladder + unsure

(* Without late answers no bid of such a maker rests above one of its own  *)
(* asks, in the middle of a re-quote, after a refused cancel and after a   *)
(* restart included.                                                       *)
NoSelfCross ==
    strat \in Replacing /\ unsure = 0 =>
      \A i, j \in DOMAIN venue.book :
        venue.book[i].side = "bid" /\ venue.book[j].side = "ask" =>
          venue.book[i].px <= venue.book[j].px

(* What a maker has on the book is one ladder that does not trade with     *)
(* itself, wherever its cancel and quote cycle was cut short.              *)
OneLadder == LadderBounded /\ NoSelfCross

(* What an executor counts as sent is what the venue has executed, except  *)
(* for the children it refused and those still under way: the executor     *)
(* neither retries a child nor sends one twice, and it never exceeds its   *)
(* total unless it is restarted, when it begins again from nothing.        *)
ExecutorAccounts ==
    LET Lot == CASE strat = "twap_executor" -> cfg.total_amount \div cfg.num_orders
                 [] strat = "vwap_executor" -> cfg.total_amount
                 [] OTHER -> 1
        Sent == CASE strat = "twap_executor" -> mem.next_index * Lot
                  [] strat = "vwap_executor" -> cfg.total_amount - mem
                  [] OTHER -> Cardinality(mem.placed)
        Total == CASE strat = "dca_executor" -> Len(cfg.prices)
                   [] OTHER -> cfg.total_amount
    IN  strat \in {"twap_executor", "vwap_executor", "dca_executor"} =>
          /\ venue.net["primary"] <= Total * (1 + crashes)
          /\ Sleeping /\ crashes = 0 =>
               /\ venue.net["primary"] <= Sent
               /\ venue.net["primary"] >= Sent - Lot * (refused + Len(late))

(* A deposit is swept at most once, whatever was lost, repeated or         *)
(* restarted: what has been moved never exceeds the completed deposits,    *)
(* and a deposit remembered as swept has been moved.                       *)
SweptOnce ==
    strat = "deposit_transfer" => venue.moved <= 5 /\ mem \subseteq venue.keys

(* Work is done once: a child of an executor and the sweep of a deposit    *)
(* are counted as the venue executed them, whatever was lost or repeated.  *)
WorkAccounted == ExecutorAccounts /\ SweptOnce

-----------------------------------------------------------------------------
(* Where each strategy must end up once the market stands still and the    *)
(* faults are over.                                                        *)

Quiet == Ticks = {<<>>}

\* The quotes of a tick that starts with a cancel.
Planned(steps) ==
    [i \in 1 .. Len(SelectSeq(steps, LAMBDA s : s.req.op = "quote")) |->
       SelectSeq(steps, LAMBDA s : s.req.op = "quote")[i].req.quote]

Reached ==
    CASE strat \in Replacing -> \A steps \in Ticks : steps # <<>> => venue.book = Planned(steps)
      [] strat = "sentinel" -> market = "down" => venue.book = <<>>
      [] strat = "deposit_transfer" ->
           \A i \in DOMAIN market : Sweepable(cfg, market[i]) => market[i].id \in venue.keys
      [] strat = "hedge_grid" -> market.mid > 0 => ToSet(HedgeGridLevels(cfg)) \subseteq DOMAIN LiveLevels(venue)
      [] OTHER -> Quiet

(* The strategies that converge: all but the ones that trade again on      *)
(* every poll by design (dca_scheduler, random_entry, convert), those that *)
(* repeat their trade while the spread lasts or stack quotes on quotes     *)
(* (amm_arb and the cross-venue makers), those whose thresholds are        *)
(* configured so that the position just taken is at once taken off again   *)
(* (exit above entry), and pure_market_making, which does not replace a    *)
(* ladder while the mid stays in the band.                                 *)
Convergent ==
    /\ strat \notin {"dca_scheduler", "random_entry", "convert", "amm_arb", "cross_maker",
                     "cross_fixed_maker", "cross_depth_maker", "pure_market_making"}
    /\ strat = "mean_reversion" => cfg.exit_band <= cfg.entry_threshold
    /\ strat = "stat_arb" => cfg.exit_threshold <= cfg.entry_threshold
    /\ strat = "xfunding_lite" => cfg.exit_threshold <= cfg.enter_threshold
    /\ strat \in {"rebalance", "market_cap"} => cfg.targets = [primary |-> 1, hedge |-> 1]

(* Once market and venue have calmed down a convergent strategy reaches    *)
(* its goal and stays there between ticks, whatever was refused, lost,     *)
(* late or forgotten in a restart: a signal strategy stops trading, a      *)
(* maker's book is exactly the ladder it plans, every completed deposit    *)
(* has been swept, balances are aligned, an executor is through, and an    *)
(* outage the sentinel sees has emptied the book.                          *)
Converges == Convergent => <>[](Sleeping => Reached)
=============================================================================
