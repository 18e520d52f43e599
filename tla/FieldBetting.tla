---------------------------- MODULE FieldBetting ----------------------------
(***************************************************************************)
(* Field events, races with many contenders, from protocol version 4 on:   *)
(* the check, the processing and the undo of their outputs (betting/       *)
(* bet.cpp) and the settling of field bets (betting/bet_v4.cpp).           *)
(*                                                                         *)
(* An event is [nStartTime, nStage, nMarketType, nMarginPercent,           *)
(* contenders]; a contender has its input odds, its modifier, and for each *)
(* market the odds, the number of bets and the potential liability.        *)
(* CalcOdds computes in floating point; which odds it gives an open market *)
(* is the parameter MarketOdds.                                            *)
(*                                                                         *)
(* Checking and processing ask for the version at the height of the tip,   *)
(* undoing for the version at the height of the block.                     *)
(***************************************************************************)
EXTENDS BetSettlement

CONSTANTS
    MarketOdds(_, _, _),  \* (event, contender, market), the floating point of CalcOdds
    PlaceMarketSize,      \* contenders that open the place market (5)
    ShowMarketSize        \* contenders that open the show market (8)

NoCounts == [o \in FieldOutcomes |-> 0]
DefaultContender ==
    [nInputOdds |-> 0, nModifier |-> 0, odds |-> NoCounts, bets |-> NoCounts, liability |-> NoCounts]

\* contenders[id] in C++, which creates the contender it does not find.
Contender(event, id) ==
    IF id \in DOMAIN event.contenders THEN event.contenders[id] ELSE DefaultContender

WithContenders(event, f) ==
    [event EXCEPT !.contenders = [id \in DOMAIN @ \cup DOMAIN f |-> IF id \in DOMAIN f THEN f[id] ELSE @[id]]]

WithContender(event, id, contender) == WithContenders(event, [x \in {id} |-> contender])

NoneZeroOddsContendersCount(event) ==
    Cardinality({id \in DOMAIN event.contenders : event.contenders[id].nInputOdds # 0})

IsMarketOpen(event, outcome) ==
    LET count == NoneZeroOddsContendersCount(event)
    IN  CASE outcome = "outright" -> TRUE
          [] outcome = "place" -> event.nMarketType # "outrightOnly" /\ count >= PlaceMarketSize
          [] outcome = "show"  -> event.nMarketType # "outrightOnly" /\ count >= ShowMarketSize

CalcOdds(event) ==
    [event EXCEPT !.contenders = [id \in DOMAIN @ |-> [@[id] EXCEPT !.odds =
        [o \in FieldOutcomes |-> IF IsMarketOpen(event, o) THEN MarketOdds(event, id, o) ELSE 0]]]]

FieldUndo(e, event) == [kind |-> "field", id |-> e, event |-> event]

FieldUpdates == {"fUpdateOdds", "fUpdateModifiers", "fUpdateMargin", "fZeroing"}

-----------------------------------------------------------------------------
\* CheckBettingTx.

FieldLegOpen(leg) ==
    /\ leg.event \in DOMAIN view.fieldEvents
    /\ leg.event \notin DOMAIN view.fieldResults
    /\ IsMarketOpen(view.fieldEvents[leg.event], leg.outcome)
    /\ leg.contender \in DOMAIN view.fieldEvents[leg.event].contenders
    /\ GetFieldBetPotentialOdds(leg, view.fieldEvents[leg.event]) # 0

CheckFBet(out) ==
    /\ TipHeight >= V4Start
    /\ InRange(out.amount, MaxBet)
    /\ FieldLegOpen(out.legs[1])

CheckFParlayBet(out) ==
    /\ TipHeight >= V4Start
    /\ InRange(out.amount, MaxBet)
    /\ Len(out.legs) <= MaxParlayLegs
    /\ \A i, j \in DOMAIN out.legs : i # j => out.legs[i].event # out.legs[j].event
    /\ \A i \in DOMAIN out.legs :
         /\ FieldLegOpen(out.legs[i])
         /\ view.fieldEvents[out.legs[i].event].nStage = 0

KnownContenders(ids) == {<<"contender", id>> : id \in ids} \subseteq view.mappings

CheckFEvent(out) ==
    /\ TipHeight >= V4Start
    /\ out.event \notin DOMAIN view.fieldEvents
    /\ out.needs \subseteq view.mappings
    /\ KnownContenders(DOMAIN out.inputs)

\* inputs are the contenders' input odds or modifiers, empty for the margin
\* and for zeroing.
CheckFUpdate(out) ==
    /\ TipHeight >= V4Start
    /\ out.event \in DOMAIN view.fieldEvents
    /\ KnownContenders(DOMAIN out.inputs)

FieldResultTypes == {"standardResult", "eventRefund", "eventClosed"}

CheckFResult(out) ==
    /\ TipHeight >= V4Start
    /\ out.result.nResultType \in FieldResultTypes
    /\ out.event \in DOMAIN view.fieldEvents
    /\ out.event \notin DOMAIN view.fieldResults
    /\ KnownContenders(DOMAIN out.result.places)
    /\ DOMAIN out.result.places \subseteq DOMAIN view.fieldEvents[out.event].contenders

-----------------------------------------------------------------------------
\* ProcessBettingTx.

\* Fault: every bet counts for the outright market.
CountAsOutright(event, leg) ==
    WithContender(event, leg.contender, [Contender(event, leg.contender) EXCEPT !.bets["outright"] = @ + 1])

CountFieldBet(event, leg) ==
    WithContender(event, leg.contender, [Contender(event, leg.contender) EXCEPT !.bets[leg.outcome] = @ + 1])

AddFieldLiability(event, leg, payout) ==
    WithContender(event, leg.contender,
        [Contender(event, leg.contender) EXCEPT !.liability[leg.outcome] = @ + payout \div COIN])

\* As for a peerless bet, the odds are those of the block before.
ProcessFBet ==
    /\ Processing("fBet")
    /\ LET leg == Out.legs[1]
           e   == leg.event
       IN  IF TipHeight < V4Start \/ e \notin DOMAIN view.fieldEvents \cap DOMAIN cache.fieldEvents
           THEN Advance(cache)
           ELSE LET odds   == CalculateEffectiveOdds(GetFieldBetPotentialOdds(leg, view.fieldEvents[e]))
                    \* looking the contender up leaves it in the locked event
                    locked == WithContender(view.fieldEvents[e], leg.contender,
                                            Contender(view.fieldEvents[e], leg.contender))
                    event  == CountFieldBet(AddFieldLiability(cache.fieldEvents[e], leg,
                                                              Worth(Out.amount, odds)), leg)
                IN  AdvanceWithUndo(
                      [cache EXCEPT !.fieldEvents = DbUpdate(@, e, event),
                                    !.fieldBets   = DbWrite(@, BetKey,
                                                       NewBet(Out.amount, Out.legs, <<locked>>))],
                      <<FieldUndo(e, cache.fieldEvents[e])>>)

\* The event e once the first n of these legs are counted.
WithFieldLegs(e, legs, n) ==
    LET event == cache.fieldEvents[e]
        on    == {i \in 1 .. n : legs[i].event = e}
        Count(id, o) == Cardinality({i \in on : legs[i].contender = id /\ legs[i].outcome = o})
    IN  IF on = {}
        THEN event
        ELSE WithContenders(event, [id \in {legs[i].contender : i \in on} |->
                 [Contender(event, id) EXCEPT !.bets = [o \in FieldOutcomes |-> @[o] + Count(id, o)]]])

CountFieldLegs(legs) ==
    LET known == At(legs, {i \in DOMAIN legs :
                             legs[i].event \in DOMAIN view.fieldEvents \cap DOMAIN cache.fieldEvents})
    IN  [fieldEvents |-> [e \in DOMAIN cache.fieldEvents |-> WithFieldLegs(e, known, Len(known))],
         undos       |-> [i \in DOMAIN known |->
                            FieldUndo(known[i].event, WithFieldLegs(known[i].event, known, i - 1))],
         locked      |-> [i \in DOMAIN known |-> view.fieldEvents[known[i].event]]]

ProcessFParlayBet ==
    /\ Processing("fParlayBet")
    /\ LET done == CountFieldLegs(Out.legs)
       IN  IF TipHeight < V4Start \/ Out.legs = <<>>
           THEN Advance(cache)
           ELSE AdvanceWithUndo(
                  [cache EXCEPT !.fieldEvents = done.fieldEvents,
                                !.fieldBets   = DbWrite(@, BetKey,
                                                   NewBet(Out.amount, Out.legs, done.locked))],
                  done.undos)

ProcessFEvent ==
    /\ Processing("fEvent")
    /\ IF TipHeight < V4Start
       THEN Advance(cache)
       ELSE Advance([cache EXCEPT !.fieldEvents = DbWrite(@, Out.event, CalcOdds(
                [nStartTime |-> Out.nStartTime, nStage |-> Out.nStage,
                 nMarketType |-> Out.nMarketType, nMarginPercent |-> Out.nMarginPercent,
                 contenders |-> [id \in DOMAIN Out.inputs |->
                                   [DefaultContender EXCEPT !.nInputOdds = Out.inputs[id]]]]))])

\* Fault: a new margin is stored and the odds are left as they are.
UpdatedWithoutOdds(event, out) ==
    LET ids == DOMAIN out.inputs
    IN  CASE out.type = "fUpdateOdds" ->
               CalcOdds(WithContenders(event, [id \in ids |->
                   [Contender(event, id) EXCEPT !.nInputOdds = out.inputs[id], !.odds = NoCounts]]))
          [] out.type = "fUpdateModifiers" ->
               CalcOdds(WithContenders(event, [id \in ids |->
                   [Contender(event, id) EXCEPT !.nModifier = out.inputs[id]]]))
          [] out.type = "fUpdateMargin" ->
               [event EXCEPT !.nMarginPercent = out.nMarginPercent]
          [] out.type = "fZeroing" ->
               [event EXCEPT !.contenders = [id \in DOMAIN @ |->
                   [@[id] EXCEPT !.nInputOdds = 0, !.odds = NoCounts]]]

\* The event after an update; zeroing does not calculate the odds again.
UpdatedField(event, out) ==
    LET ids == DOMAIN out.inputs
    IN  CASE out.type = "fUpdateOdds" ->
               CalcOdds(WithContenders(event, [id \in ids |->
                   [Contender(event, id) EXCEPT !.nInputOdds = out.inputs[id], !.odds = NoCounts]]))
          [] out.type = "fUpdateModifiers" ->
               CalcOdds(WithContenders(event, [id \in ids |->
                   [Contender(event, id) EXCEPT !.nModifier = out.inputs[id]]]))
          [] out.type = "fUpdateMargin" ->
               CalcOdds([event EXCEPT !.nMarginPercent = out.nMarginPercent])
          [] out.type = "fZeroing" ->
               [event EXCEPT !.contenders = [id \in DOMAIN @ |->
                   [@[id] EXCEPT !.nInputOdds = 0, !.odds = NoCounts]]]

ProcessFUpdate(type) ==
    /\ Processing(type)
    /\ IF TipHeight >= V4Start /\ Out.event \in DOMAIN cache.fieldEvents
       THEN AdvanceWithUndo(
              [cache EXCEPT !.fieldEvents[Out.event] = UpdatedField(@, Out)],
              <<FieldUndo(Out.event, cache.fieldEvents[Out.event])>>)
       ELSE Advance(cache)

\* A contender the result does not list did not finish.
ProcessFResult ==
    /\ Processing("fResult")
    /\ IF /\ TipHeight >= V4Start
          /\ Out.event \in DOMAIN cache.fieldEvents
          /\ Out.event \notin DOMAIN cache.fieldResults
       THEN LET places == [id \in DOMAIN cache.fieldEvents[Out.event].contenders |->
                             IF id \in DOMAIN Out.result.places THEN Out.result.places[id] ELSE "DNF"]
            IN  AdvanceWithResult(
                  [cache EXCEPT !.fieldResults = DbWrite(@, Out.event,
                     [nResultType |-> Out.result.nResultType, places |-> places])], Out.event)
       ELSE Advance(cache)

-----------------------------------------------------------------------------
\* UndoBettingTx.

UndoFieldBet(type) ==
    /\ Undoing(type)
    /\ IF /\ BlkHeight >= V4Start
          /\ Out.legs # <<>>
          /\ \A i \in DOMAIN Out.legs : Out.legs[i].event \in DOMAIN cache.fieldEvents
       THEN RevertOr([UndoEventChanges(cache, UndoKey) EXCEPT !.fieldBets = DbErase(@, BetKey)])
       ELSE Advance(cache)

UndoFEvent ==
    /\ Undoing("fEvent")
    /\ IF BlkHeight >= V4Start
       THEN Advance([cache EXCEPT !.fieldEvents = DbErase(@, Out.event)])
       ELSE Advance(cache)

\* Fault: the event keeps the update and the record goes.
UndoFUpdateForgets(type) ==
    /\ Undoing(type)
    /\ Advance([cache EXCEPT !.undos = DbErase(@, UndoKey)])

UndoFUpdate(type) ==
    /\ Undoing(type)
    /\ IF BlkHeight >= V4Start /\ Out.event \in DOMAIN cache.fieldEvents
       THEN RevertOr(UndoEventChanges(cache, UndoKey))
       ELSE Advance(cache)

UndoFResult ==
    /\ Undoing("fResult")
    /\ IF /\ BlkHeight >= V4Start
          /\ Out.result.nResultType \in FieldResultTypes
          /\ Out.event \in DOMAIN cache.fieldEvents
       THEN Advance([cache EXCEPT !.fieldResults = DbErase(@, Out.event)])
       ELSE Advance(cache)

-----------------------------------------------------------------------------
\* Payouts.

FieldLegOdds(bet, c) ==
    [i \in DOMAIN bet.legs |->
        IF Late(bet, bet.locked[i])
        THEN Refund
        ELSE GetFieldBetOdds(bet.legs[i], bet.locked[i], c.fieldResults[bet.legs[i].event])]

FieldQuotes(bet) ==
    [i \in DOMAIN bet.legs |-> GetFieldBetPotentialOdds(bet.legs[i], bet.locked[i])]

\* No reward is paid out of the fees of field bets.
GetFieldBetPayouts(c, ids, height) ==
    SettleResults(c.fieldBets, c.fieldResults, IF height - 1 >= V4Start THEN ids ELSE <<>>, height,
                  [k \in DOMAIN c.fieldBets |-> FieldLegOdds(c.fieldBets[k], c)],
                  [k \in DOMAIN c.fieldBets |-> FieldQuotes(c.fieldBets[k])])

\* UndoFieldBetPayouts iterates over the peerless bets and decodes each as a
\* field bet, which its length does not allow (assert in BytesToDbType).
\* Without peerless bets in the window it changes nothing.
FieldUndoDecodes(c, ids, height) ==
    \/ \A i \in DOMAIN ids : ~Posted(c.fieldResults, ids[i])
    \/ \A k \in DOMAIN c.bets : k[1] < SearchStart(height)
=============================================================================
