-------------------------- MODULE PeerlessBetting --------------------------
(***************************************************************************)
(* Peerless events and bets: the check, the processing and the undo of     *)
(* their outputs (CheckBettingTx, ProcessBettingTx and UndoBettingTx in    *)
(* betting/bet.cpp), and the settling of bets in the block after a result  *)
(* (GetPLBetPayoutsV3 and UndoPLBetPayouts in betting/bet_v3.cpp).         *)
(*                                                                         *)
(* An event is [info, bets, liability]: `info` is CPeerlessBaseEventDB,    *)
(* the part a bet locks, the other two are its counters.                   *)
(***************************************************************************)
EXTENDS BetSettlement

Counters == Outcomes \cup {"spreadPush", "totalPush"}
Zero     == [c \in Counters |-> 0]

\* A bet on a spread or a total also counts for that market's push.
Counted(outcome) ==
    {outcome} \cup (IF outcome \in Spreads THEN {"spreadPush"} ELSE {})
              \cup (IF outcome \in Totals  THEN {"totalPush"}  ELSE {})

CountBet(event, outcome) ==
    [event EXCEPT !.bets = [c \in Counters |->
        IF c \in Counted(outcome) THEN @[c] + 1 ELSE @[c]]]

AddLiability(event, outcome, amount, payout) ==
    [event EXCEPT !.liability = [c \in Counters |->
        CASE c = outcome -> @[c] + payout \div COIN
          [] c # outcome /\ c \in Counted(outcome) -> @[c] + amount \div COIN
          [] OTHER -> @[c]]]

PeerlessUndo(e, event) == [kind |-> "peerless", id |-> e, event |-> event]

-----------------------------------------------------------------------------
\* CheckBettingTx.  The databases are those of the block before.

LegOpen(leg) ==
    /\ leg.event \in DOMAIN view.events
    /\ leg.event \notin DOMAIN view.results
    /\ TipHeight >= V4Start =>
         GetBetPotentialOdds(leg.outcome, view.events[leg.event].info) # 0

CheckPlBet(out) == InRange(out.amount, MaxBet) /\ LegOpen(out.legs[1])

CheckPlParlayBet(out) ==
    /\ Len(out.legs) <= MaxParlayLegs
    /\ InRange(out.amount, MaxParlayBet)
    /\ \A i, j \in DOMAIN out.legs : i # j => out.legs[i].event # out.legs[j].event
    /\ \A i \in DOMAIN out.legs :
         /\ LegOpen(out.legs[i])
         /\ TipHeight >= V4Start => view.events[out.legs[i].event].info.nStage = 0

V4Mappings == {"individualSport", "contender"}

CheckMapping(out) ==
    /\ TipHeight < V4Start => out.key[1] \notin V4Mappings
    /\ out.key \notin view.mappings

\* The mappings an event names: its sport, tournament, round and two teams.
CheckPlEvent(out) ==
    /\ out.event \notin DOMAIN view.events
    /\ out.needs \subseteq view.mappings

CheckPlResult(out) ==
    /\ out.event \in DOMAIN view.events
    /\ out.event \notin DOMAIN view.results

CheckPlUpdate(out) == out.event \in DOMAIN view.events

CheckPlZeroing(out) ==
    /\ TipHeight >= V4Start
    /\ \A i \in DOMAIN out.events : out.events[i] \in DOMAIN view.events

-----------------------------------------------------------------------------
\* ProcessBettingTx.

\* Fault: the odds are those of the block itself.
LockedFromCache(e) == cache.events[e].info

\* The odds of a bet are those at the end of the block before, which
\* bettingsView still has.
LockedEvent(e) == view.events[e].info

\* The counters go to the event as this block has left it.
ProcessPlBet ==
    /\ Processing("plBet")
    /\ LET leg == Out.legs[1]
           e   == leg.event
       IN  IF e \notin DOMAIN view.events \cap DOMAIN cache.events
           THEN Advance(cache)
           ELSE LET info   == LockedEvent(e)
                    payout == PotentialPayout(Out.amount, info.odds[leg.outcome])
                    event  == CountBet(AddLiability(cache.events[e], leg.outcome,
                                                    Out.amount, payout), leg.outcome)
                IN  AdvanceWithUndo(
                      [cache EXCEPT !.events = DbUpdate(@, e, event),
                                    !.bets   = DbWrite(@, BetKey,
                                                  NewBet(Out.amount, Out.legs, <<info>>))],
                      <<PeerlessUndo(e, cache.events[e])>>)

\* The event e once the first n of these legs are counted.
WithLegs(e, legs, n) ==
    IF \A i \in 1 .. n : legs[i].event # e
    THEN cache.events[e]
    ELSE [cache.events[e] EXCEPT !.bets = [c \in Counters |->
            @[c] + Cardinality({i \in 1 .. n : legs[i].event = e /\ c \in Counted(legs[i].outcome)})]]

\* A parlay counts its legs one by one, saving the event before each, and
\* adds no liability.  Legs on unknown events are passed over.
CountLegs(legs) ==
    LET known == At(legs, {i \in DOMAIN legs :
                             legs[i].event \in DOMAIN view.events \cap DOMAIN cache.events})
    IN  [events |-> [e \in DOMAIN cache.events |-> WithLegs(e, known, Len(known))],
         undos  |-> [i \in DOMAIN known |->
                       PeerlessUndo(known[i].event, WithLegs(known[i].event, known, i - 1))],
         locked |-> [i \in DOMAIN known |-> LockedEvent(known[i].event)]]

ProcessPlParlayBet ==
    /\ Processing("plParlayBet")
    /\ LET done == CountLegs(Out.legs)
       IN  IF Out.legs = <<>>
           THEN Advance(cache)
           ELSE AdvanceWithUndo(
                  [cache EXCEPT !.events = done.events,
                                !.bets   = DbWrite(@, BetKey,
                                              NewBet(Out.amount, Out.legs, done.locked))],
                  done.undos)

ProcessMapping ==
    /\ Processing("mapping")
    /\ IF TipHeight < V4Start /\ Out.key[1] \in V4Mappings
       THEN Advance(cache)
       ELSE Advance([cache EXCEPT !.mappings = @ \cup {Out.key}])

ProcessPlEvent ==
    /\ Processing("plEvent")
    /\ Advance([cache EXCEPT !.events = DbWrite(@, Out.event,
                    [info |-> Out.info, bets |-> Zero, liability |-> Zero])])

\* A result joins vResultIDs only if it is the first for its event.
ProcessPlResult ==
    /\ Processing("plResult")
    /\ IF Out.event \in DOMAIN cache.events /\ Out.event \notin DOMAIN cache.results
       THEN AdvanceWithResult(
              [cache EXCEPT !.results = DbWrite(@, Out.event, Out.result)], Out.event)
       ELSE Advance(cache)

\* ExtractDataFromTx of the four kinds of event update.
ExtractDataFromTx(info, out) ==
    CASE out.type = "plUpdateOdds" ->
           [info EXCEPT !.odds = [o \in Outcomes |-> IF o \in MoneyLine THEN out.odds[o] ELSE @[o]]]
      [] out.type = "plSpreads" ->
           [info EXCEPT !.nSpreadPoints = out.points,
                        !.odds = [o \in Outcomes |-> IF o \in Spreads THEN out.odds[o] ELSE @[o]]]
      [] out.type = "plTotals" ->
           [info EXCEPT !.nTotalPoints = out.points,
                        !.odds = [o \in Outcomes |-> IF o \in Totals THEN out.odds[o] ELSE @[o]]]
      [] out.type = "plPatch" ->
           [info EXCEPT !.nStartTime = out.nStartTime]

PlUpdates == {"plUpdateOdds", "plSpreads", "plTotals", "plPatch"}

ProcessPlUpdate(type) ==
    /\ Processing(type)
    /\ IF Out.event \in DOMAIN cache.events
       THEN AdvanceWithUndo(
              [cache EXCEPT !.events[Out.event].info = ExtractDataFromTx(@, Out)],
              <<PeerlessUndo(Out.event, cache.events[Out.event])>>)
       ELSE Advance(cache)

Zeroed(info) == [info EXCEPT !.odds = [o \in Outcomes |-> 0]]

\* The event e once the first n of the list are zeroed.
WithZeroes(e, ids, n) ==
    IF \E i \in 1 .. n : ids[i] = e
    THEN [cache.events[e] EXCEPT !.info = Zeroed(@)] ELSE cache.events[e]

\* One record per listed event, in the order of the list.
ZeroEvents(ids) ==
    LET known == At(ids, {i \in DOMAIN ids : ids[i] \in DOMAIN cache.events})
    IN  [events |-> [e \in DOMAIN cache.events |-> WithZeroes(e, known, Len(known))],
         undos  |-> [i \in DOMAIN known |-> PeerlessUndo(known[i], WithZeroes(known[i], known, i - 1))]]

ProcessPlZeroing ==
    /\ Processing("plZeroing")
    /\ LET done == ZeroEvents(Out.events)
       IN  IF TipHeight < V4Start \/ \A i \in DOMAIN Out.events : Out.events[i] \notin DOMAIN cache.events
           THEN Advance(cache)
           ELSE AdvanceWithUndo([cache EXCEPT !.events = done.events], done.undos)

-----------------------------------------------------------------------------
\* UndoBettingTx.

\* A bet on events that are all there gives them their state back and goes.
UndoPeerlessBet(type) ==
    /\ Undoing(type)
    /\ IF Out.legs # <<>> /\ \A i \in DOMAIN Out.legs : Out.legs[i].event \in DOMAIN cache.events
       THEN RevertOr([UndoEventChanges(cache, UndoKey) EXCEPT !.bets = DbErase(@, BetKey)])
       ELSE Advance(cache)

UndoMapping ==
    /\ Undoing("mapping")
    /\ IF Out.key[1] \in V4Mappings /\ BlkHeight < V4Start
       THEN Abort
       ELSE Advance([cache EXCEPT !.mappings = @ \ {Out.key}])

UndoPlEvent ==
    /\ Undoing("plEvent")
    /\ Advance([cache EXCEPT !.events = DbErase(@, Out.event)])

UndoPlResult ==
    /\ Undoing("plResult")
    /\ Advance([cache EXCEPT !.results = DbErase(@, Out.event)])

UndoPlUpdate(type) ==
    /\ Undoing(type)
    /\ IF Out.event \in DOMAIN cache.events
       THEN RevertOr(UndoEventChanges(cache, UndoKey))
       ELSE Advance(cache)

UndoPlZeroing ==
    /\ Undoing("plZeroing")
    /\ IF /\ BlkHeight >= V4Start
          /\ \A i \in DOMAIN Out.events : Out.events[i] \in DOMAIN cache.events
       THEN RevertOr(UndoEventChanges(cache, UndoKey))
       ELSE Advance(cache)

-----------------------------------------------------------------------------
\* Payouts.  `ids` are the result ids of the block before, `height` is the
\* height of the block that pays.

\* The odds of a bet's legs as they came out, and as they were offered.
LegOdds(bet, c) ==
    [i \in DOMAIN bet.legs |->
        IF Late(bet, bet.locked[i])
        THEN Refund
        ELSE GetBetOdds(bet.legs[i].outcome, bet.locked[i], c.results[bet.legs[i].event])]

Quotes(bet) ==
    [i \in DOMAIN bet.legs |-> GetBetPotentialOdds(bet.legs[i].outcome, bet.locked[i])]

\* Fault: rewards of nothing are expected too.
RewardsOfNothing(fee, height) ==
    <<Reward("dev", height, fee \div 10, "bettingReward"),
      Reward("omno", height, (fee * 4) \div 10, "bettingReward")>>

\* GetPLRewardPayoutsV3: 10% of the fee for development, 40% for the OMNO.
Rewards(fee, height) ==
    LET Positive(r) == IF r.amount > 0 THEN <<r>> ELSE <<>>
    IN  Positive(Reward("dev", height, fee \div 10, "bettingReward"))
          \o Positive(Reward("omno", height, (fee * 4) \div 10, "bettingReward"))

WithRewards(settled, height) ==
    [bets |-> settled.bets, payouts |-> settled.payouts \o Rewards(settled.fee, height)]

GetPLBetPayouts(c, ids, height) ==
    WithRewards(SettleResults(c.bets, c.results, ids, height,
                              [k \in DOMAIN c.bets |-> LegOdds(c.bets[k], c)],
                              [k \in DOMAIN c.bets |-> Quotes(c.bets[k])]), height)

\* Completed bets on the events of the results are open again; a parlay only
\* if all its results are still there.
UndoPLBetPayouts(c, ids, height) ==
    LET results   == {e \in ToSet(ids) : Posted(c.results, e)}
        Marked(k) == /\ k[1] >= SearchStart(height)
                     /\ c.bets[k].completed
                     /\ \E e \in results : Names(c.bets[k], e)
                     /\ AllResulted(c.bets[k], c.results)
    IN  [c EXCEPT !.bets = [k \in DOMAIN @ |-> IF Marked(k) THEN SetUncompleted(@[k]) ELSE @[k]]]
=============================================================================
