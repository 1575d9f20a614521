---------------------------- MODULE MCEvaluation ----------------------------
(* Inputs of Evaluation for TLC: every gate is met from both sides.          *)
EXTENDS Evaluation

MCConfig == [sample_min_for_normal_tier |-> 30, sample_min_for_max_tier |-> 100,
             expected_r_for_max_tier |-> 30, liquidity_max_spread_bps |-> 100,
             liquidity_min_rvol_percentile |-> 10, spread_bps_red_flag |-> 50,
             rvol_percentile_red_flag |-> 20, stop_atr_clamp_choppy |-> 200,
             min_reward_to_risk |-> 150]

Session(g, low, high, volume, wide) ==
    [dailyBars |-> 15, premarket |-> TRUE, opened |-> TRUE, gap |-> g, overLow |-> low,
     overHigh |-> high, volume |-> volume, baseline |-> 10, wideGap |-> wide, threshold |-> 5]
NoSession == [Session(0, 0, 0, 0, FALSE) EXCEPT !.dailyBars = 14]
NotTraded == [Session(4, 0, 0, 0, TRUE) EXCEPT !.premarket = FALSE]

History(n, over, adx) == [bars |-> n, overSma200 |-> over, adx |-> adx]

Base == [minute |-> 40, rthBars |-> 50, history |-> History(200, 20, 25),
         overSma20 |-> 5, rsi |-> 30, hist |-> <<-1, 1>>, adx |-> 25, di |-> 1, overVwap |-> 0,
         volumeSpike |-> TRUE, session |-> NoSession, sentiment |-> 5, walls |-> NONE,
         wallsRequired |-> FALSE, earningsToday |-> FALSE]

Histories == {History(199, 20, 25), History(200, 20, 25), History(200, -20, 25),
              History(200, 5, 25), History(200, 20, 20)}

GapFrames == {[Base EXCEPT !.minute = m, !.history = d, !.sentiment = score, !.earningsToday = e,
                           !.session = Session(g, low, high, volume, FALSE)] :
    m \in {0, 5, 30, 35}, d \in Histories, g \in {-20, -10, -9, 9, 10}, low \in {-3, -2, 1},
    high \in {-5, 1, 2}, volume \in {49, 50, 100}, score \in {NONE, -3, 3}, e \in BOOLEAN}

PullbackFrames == {[Base EXCEPT !.rthBars = w, !.history = d, !.overSma20 = s, !.rsi = r,
                                !.hist = h, !.overVwap = v, !.di = i, !.session = p] :
    w \in {49, 50}, d \in Histories, s \in {-5, 0, 5}, r \in {30, 35, 70},
    h \in {<<-1, 1>>, <<1, -1>>}, v \in {-3, 0, 2, 3}, i \in {-1, 1},
    p \in {NoSession, Session(-4, -1, -2, 10, TRUE), Session(4, 1, -1, 10, FALSE), NotTraded}}

WallFrames == {[Base EXCEPT !.sentiment = score, !.walls = <<below, above>>, !.wallsRequired = q] :
    score \in {NONE, -5, 4, 5}, below \in SUBSET {-11, -3, 0}, above \in SUBSET {0, 3, 4},
    q \in BOOLEAN}

MCFrames == GapFrames \cup PullbackFrames \cup WallFrames

Market(spy, vix, breadth) == [spy |-> spy, vix |-> vix, breadth |-> breadth]
Quiet == [market |-> Market(40, 100, 30), cap |-> "large", minutes |-> 0, position |-> 0,
          flags |-> {"M&A"}, pm_rvol |-> 4, ratio |-> 100, spread |-> 10, capacity |-> TRUE]

MCSituations ==
    {[Quiet EXCEPT !.market = m] :
        m \in {Market(-80, 180, -30), Market(-80, NONE, -30), Market(40, 140, 30), Market(0, 100, 0)}}
    \cup {[Quiet EXCEPT !.position = q] : q \in {-5, 5}}
    \cup {[Quiet EXCEPT !.flags = {"rumour"}], [Quiet EXCEPT !.pm_rvol = 3],
          [Quiet EXCEPT !.capacity = FALSE], Quiet}
    \cup {[Quiet EXCEPT !.ratio = r, !.spread = s] : r \in {50, 60, 300}, s \in {10, 60, 101}}

Raw(action, confidence, stop, tp) ==
    [action |-> action, confidence |-> confidence, stop |-> stop, tp |-> 100 * tp]
MCAnswers == {Raw("Buy", 60, 150, 200), Raw("Buy", 120, 100, 600), Raw("Sell", 60, 300, 100),
              Raw("Sell", 40, 50, 300), Raw("Hold", 60, 150, 200), Raw("Short", 60, 150, 200)}

Analysis(readiness, anomaly, action) ==
    [catalyst_quality |-> "NONE", trade_readiness |-> readiness, clamp_anomaly |-> anomaly,
     position_action |-> action]
MCAnalyses == {Analysis("READY", FALSE, pa) : pa \in {"NO_OPINION", "TRIM", "EXIT", "SCALE_UP"}}
              \cup {Analysis("AVOID", FALSE, "NO_OPINION"), Analysis("READY", TRUE, "NO_OPINION")}

Stats(n, ci) == [sample_count |-> n, expected_r_lower_ci |-> ci]
KeyOf(time, cap, side) == <<"trending_up", cap, "NONE", time, side>>
MCTables == {<<>>} \cup
    {[k \in {KeyOf("open_drive", "large", "long"), KeyOf("morning", "large_cap", "long")} |->
        IF k[4] = "open_drive" THEN Stats(fine, 10) ELSE Stats(coarse, ci)] :
        fine \in {29, 30}, coarse \in {29, 101}, ci \in {-10, 10, 40}}

MCHorizons == <<1, 2>>
MCBars == {[minute |-> m, low |-> s[1], high |-> s[2], close |-> s[3]] :
             m \in {-1} \cup 1 .. 4, s \in {<<100, 100, 100>>, <<80, 102, 95>>, <<98, 130, 125>>, <<60, 140, 100>>}}
=============================================================================
