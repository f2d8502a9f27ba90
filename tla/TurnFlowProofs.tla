--------------------------- MODULE TurnFlowProofs ---------------------------
(***************************************************************************)
(* Proofs about TurnFlow for every number of players and with or without   *)
(* an expansion: the control state stays legal (TypeOK), the phase         *)
(* invariant holds (PhaseInv), special states make progress                *)
(* (SpecialProgress), and the machinery implements TurnProtocol.           *)
(* The inductive invariant is Legal(flow), which says both.                *)
(***************************************************************************)
EXTENDS TurnFlow, TLAPS

\* The index arithmetic of Game.cpp stays within players_.
LEMMA NextSeatInSeats == \A i \in Seats : NextSeat(i) \in Seats
  BY NumPlayersAssumption DEF Seats, NextSeat

Legal(f) == f \in FlowType /\ LegalPhase(f)

\* advanceState on a control state in the playing part of a turn, with no
\* special state in force, leaves a legal control state.
LEMMA AdvanceTurnLegal ==
  ASSUME NEW f, Legal(f), f.turn \in PlayPhases, f.special = "None"
  PROVE  Legal(AdvanceTurn(f)) /\ AdvanceTurn(f).special = "None"
<1> USE DEF Legal
<1>1. CASE f.extra > 1
  <2>1. AdvanceTurn(f) = [f EXCEPT !.extra = f.extra - 1]
    BY <1>1 DEF AdvanceTurn
  <2>2. f.extra - 1 \in 0 .. PlaysGranted
    BY <1>1 DEF FlowType, PlaysGranted
  <2>3. AdvanceTurn(f) \in FlowType
    BY <2>1, <2>2 DEF FlowType
  <2> QED BY <2>1, <2>3 DEF FlowType, LegalPhase
<1>2. CASE ~(f.extra > 1)
  <2>1. AdvanceTurn(f) = [f EXCEPT !.extra = 0, !.turn = NextTurn(f.turn)]
    BY <1>2 DEF AdvanceTurn
  <2>2. NextTurn(f.turn) \in {"Playing", "Done"}
    BY DEF NextTurn, PlayPhases
  <2>3. NextTurn(f.turn) \in TurnStates /\ 0 \in 0 .. PlaysGranted
    BY <2>2 DEF TurnStates, PlaysGranted
  <2>4. AdvanceTurn(f) \in FlowType
    BY <2>1, <2>3 DEF FlowType
  <2>5. /\ AdvanceTurn(f).special = f.special
        /\ AdvanceTurn(f).extra = 0
        /\ AdvanceTurn(f).turn = NextTurn(f.turn)
    BY <2>1 DEF FlowType
  <2> QED BY <2>2, <2>4, <2>5 DEF LegalPhase
<1> QED BY <1>1, <1>2

\* Closing a special state is a play.
LEMMA CloseSpecialLegal ==
  ASSUME NEW f \in FlowType, f.turn \in PlayPhases,
         f.turn = "DrawPlaying" => Expansion
  PROVE  Legal(CloseSpecial(f)) /\ CloseSpecial(f).special = "None"
<1> DEFINE g == [f EXCEPT !.special = "None"]
<1>1. g \in FlowType /\ g.special = "None" /\ g.turn = f.turn
  BY DEF FlowType, SpecialStates
<1>2. Legal(g)
  BY <1>1 DEF Legal, LegalPhase
<1> QED BY <1>1, <1>2, AdvanceTurnLegal DEF CloseSpecial

\* A move made during a special state leaves a legal control state, in which
\* the special state has either ended or waits for exactly one answer less.
LEMMA AdvanceSpecialLegal ==
  ASSUME NEW f, Legal(f), f.special # "None"
  PROVE  /\ Legal(AdvanceSpecial(f))
         /\ AdvanceSpecial(f).special \in {f.special, "None"}
         /\ Pending(AdvanceSpecial(f)) = Pending(f) - 1
<1> DEFINE n == NextSeat(f.idx)
           h == AdvanceSpecial(f)
<1>1. /\ f \in FlowType /\ f.turn \in PlayPhases
      /\ f.turn = "DrawPlaying" => Expansion
      /\ f.idx \in Seats /\ f.active \in Seats /\ f.remains \in 0 .. DrawsGranted
  BY DEF Legal, LegalPhase, FlowType
<1>2. n \in Seats
  BY <1>1, NextSeatInSeats
<1>3. /\ f.idx # f.active => Distance(n, f.active) = Distance(f.idx, f.active) - 1
      /\ f.idx = f.active => Distance(n, f.active) = NumPlayers - 1
  BY <1>1, NumPlayersAssumption DEF NextSeat, Distance, Seats
<1>4. CASE f.special = "Giving"
  <2>1. h = [f EXCEPT !.special = IF f.idx = f.active THEN "None" ELSE "Giving",
                      !.idx = n]
    BY <1>4 DEF AdvanceSpecial
  <2>2. CASE f.idx = f.active
    <3>1. h = [f EXCEPT !.special = "None", !.idx = n]
      BY <2>1, <2>2
    <3>2. /\ h \in FlowType /\ h.special = "None"
          /\ h.turn = f.turn /\ h.extra = f.extra
      BY <3>1, <1>1, <1>2 DEF FlowType, SpecialStates
    <3>3. Legal(h)
      BY <3>2, <1>1 DEF Legal, LegalPhase
    <3>4. Pending(h) = 0 /\ Pending(f) = 1
      BY <3>2, <1>1, <1>4, <2>2, NumPlayersAssumption DEF Pending, Distance, Seats
    <3> QED BY <3>2, <3>3, <3>4
  <2>3. CASE f.idx # f.active
    <3>1. h = [f EXCEPT !.special = "Giving", !.idx = n]
      BY <2>1, <2>3
    <3>2. /\ h \in FlowType /\ h.special = "Giving" /\ h.idx = n
          /\ h.turn = f.turn /\ h.extra = f.extra /\ h.active = f.active
      BY <3>1, <1>1, <1>2 DEF FlowType, SpecialStates
    <3>3. Legal(h)
      BY <3>2, <1>1 DEF Legal, LegalPhase
    <3>4. Pending(h) = Distance(n, f.active) + 1
          /\ Pending(f) = Distance(f.idx, f.active) + 1
      BY <3>2, <1>4 DEF Pending
    <3>5. Distance(f.idx, f.active) \in Int
      BY <1>1, NumPlayersAssumption DEF Distance, Seats
    <3> QED BY <3>2, <3>3, <3>4, <3>5, <1>3, <1>4, <2>3
  <2> QED BY <2>2, <2>3
<1>5. CASE f.special = "Disassembling"
  <2> DEFINE g == [f EXCEPT !.idx = n]
  <2>1. /\ g \in FlowType /\ g.special = f.special /\ g.idx = n
        /\ g.turn = f.turn /\ g.extra = f.extra /\ g.active = f.active
    BY <1>2 , <1>1 DEF FlowType
  <2>2. h = IF n = f.active THEN CloseSpecial(g) ELSE g
    BY <1>5 DEF AdvanceSpecial
  <2>3. CASE n = f.active
    <3>1. Legal(h) /\ h.special = "None"
      BY <2>1, <2>2, <2>3, <1>1, CloseSpecialLegal
    <3>2. f.idx # f.active /\ Distance(n, f.active) = 0
      BY <2>3, <1>1, NumPlayersAssumption DEF NextSeat, Distance, Seats
    <3>3. Pending(h) = 0 /\ Pending(f) = Distance(f.idx, f.active)
      BY <3>1, <3>2, <1>5 DEF Pending
    <3>4. Distance(f.idx, f.active) \in Int
      BY <1>1, NumPlayersAssumption DEF Distance, Seats
    <3> QED BY <3>1, <3>2, <3>3, <3>4, <1>3
  <2>4. CASE n # f.active
    <3>1. Legal(h)
      BY <2>1, <2>2, <2>4, <1>1, <1>5 DEF Legal, LegalPhase
    <3>2. Pending(h) = Distance(n, f.active)
      BY <2>1, <2>2, <2>4, <1>5 DEF Pending
    <3>3. Pending(f) = IF f.idx = f.active THEN NumPlayers
                       ELSE Distance(f.idx, f.active)
      BY <1>5 DEF Pending
    <3> QED BY <3>1, <3>2, <3>3, <2>1, <2>2, <2>4, <1>3
  <2> QED BY <2>3, <2>4
<1>6. CASE f.special = "Transfiguring"
  <2>1. Legal(h) /\ h.special = "None"
    BY <1>6, <1>1, CloseSpecialLegal DEF AdvanceSpecial
  <2>2. Pending(h) = 0 /\ Pending(f) = 1
    BY <1>6, <2>1 DEF Pending
  <2> QED BY <2>1, <2>2
<1>7. CASE f.special = "DrawExtra"
  <2> DEFINE g == [f EXCEPT !.remains = f.remains - 1]
  <2>1. f.remains \in 1 .. DrawsGranted /\ f.idx = f.active
    BY <1>7, <1>1 DEF Legal, LegalPhase, DrawsGranted
  <2>2. /\ g \in FlowType /\ g.special = f.special /\ g.remains = f.remains - 1
        /\ g.turn = f.turn /\ g.extra = f.extra
        /\ g.idx = f.idx /\ g.active = f.active
    BY <2>1, <1>1 DEF FlowType, DrawsGranted
  <2>3. h = IF f.remains = 1 THEN CloseSpecial(g) ELSE g
    BY <1>7 DEF AdvanceSpecial
  <2>4. CASE f.remains = 1
    <3>1. Legal(h) /\ h.special = "None"
      BY <2>2, <2>3, <2>4, <1>1, CloseSpecialLegal
    <3>2. Pending(h) = 0 /\ Pending(f) = 1
      BY <3>1, <2>4, <1>7 DEF Pending
    <3> QED BY <3>1, <3>2
  <2>5. CASE f.remains # 1
    <3>1. Legal(h)
      BY <2>1, <2>2, <2>3, <2>5, <1>1, <1>7 DEF Legal, LegalPhase, DrawsGranted
    <3>2. Pending(h) = f.remains - 1 /\ Pending(f) = f.remains
      BY <2>2, <2>3, <2>5, <1>7 DEF Pending
    <3> QED BY <3>1, <3>2, <2>2, <2>3, <2>5
  <2> QED BY <2>4, <2>5
<1> QED BY <1>1, <1>4, <1>5, <1>6, <1>7 DEF FlowType, SpecialStates
-----------------------------------------------------------------------------
\* Every move keeps the control state legal: one step per move.
LEMMA NextLegal ==
  ASSUME Legal(flow), Next
  PROVE  Legal(flow)'
<1> USE DEF Legal
<1>1. CASE Start
  <2>1. flow.special = "None" /\ flow.extra = 0
    BY <1>1 DEF Start, LegalPhase, FlowType, PlayPhases, PlaysGranted
  <2> QED BY <1>1, <2>1 DEF Start, FlowType, LegalPhase, TurnStates
<1>2. CASE Draw \/ Skip
  <2>1. flow.special = "None" /\ flow' = AdvanceTurn(flow)
    BY <1>2 DEF Draw, Skip, Ordinary, Advance
  <2>2. CASE flow.turn \in PlayPhases
    BY <2>1, <2>2, AdvanceTurnLegal
  <2>3. CASE flow.turn \notin PlayPhases
    <3>1. flow.turn = "Drawing" /\ flow.extra = 0
      BY <1>2, <2>3 DEF Draw, Skip, PlayPhases, LegalPhase, FlowType, PlaysGranted
    <3>2. flow' = [flow EXCEPT !.extra = 0, !.turn = NextTurn("Drawing")]
      BY <2>1, <3>1 DEF AdvanceTurn
    <3>3. NextTurn("Drawing") = IF Expansion THEN "DrawPlaying" ELSE "Playing"
      BY DEF NextTurn
    <3>4. NextTurn("Drawing") \in TurnStates /\ 0 \in 0 .. PlaysGranted
      BY <3>3 DEF TurnStates, PlaysGranted
    <3>5. flow' \in FlowType
      BY <3>2, <3>4 DEF FlowType
    <3>6. /\ flow'.special = "None" /\ flow'.extra = 0
          /\ flow'.turn = NextTurn("Drawing")
      BY <2>1, <3>2 DEF FlowType
    <3> QED BY <3>3, <3>5, <3>6 DEF LegalPhase
  <2> QED BY <2>2, <2>3
<1>3. CASE Play
  BY <1>3, AdvanceTurnLegal DEF Play, MayPlay, Ordinary, Advance
<1>4. CASE EndTurn
  <2> DEFINE g == [flow EXCEPT !.active = NextSeat(flow.active)]
  <2>1. flow.special = "None" /\ flow.turn = "Done" /\ flow.extra = 0
    BY <1>4 DEF EndTurn, Ordinary, LegalPhase, FlowType, PlayPhases, PlaysGranted
  <2>2. NextSeat(flow.active) \in Seats
    BY NextSeatInSeats DEF FlowType
  <2>3. /\ g \in FlowType /\ g.special = "None" /\ g.extra = 0 /\ g.turn = "Done"
    BY <2>1, <2>2 DEF FlowType
  <2>4. flow' = [g EXCEPT !.extra = 0, !.turn = "Drawing"]
    <3>1. flow' = AdvanceTurn(g)
      BY <1>4, <2>3 DEF EndTurn, PassTurn, Advance
    <3>2. NextTurn(g.turn) = "Drawing"
      BY <2>3 DEF NextTurn
    <3>3. AdvanceTurn(g) = [g EXCEPT !.extra = 0, !.turn = NextTurn(g.turn)]
      <4> HIDE DEF g
      <4> QED BY <2>3 DEF AdvanceTurn
    <3> QED BY <3>1, <3>2, <3>3
  <2>5. /\ flow' \in FlowType /\ flow'.special = "None"
        /\ flow'.extra = 0 /\ flow'.turn = "Drawing"
    BY <2>3, <2>4 DEF FlowType, TurnStates, PlaysGranted
  <2> QED BY <2>5 DEF LegalPhase
<1>5. CASE CastWhirpool \/ CastTransfigure \/ CastDiversity
  <2>1. flow.special = "None" /\ flow.turn \in PlayPhases
    BY <1>5 DEF CastWhirpool, CastTransfigure, CastDiversity, MayPlay, Ordinary
  <2>2. CASE CastWhirpool
    BY <2>1, <2>2 DEF CastWhirpool, OpenWhirpool, FlowType, SpecialStates, LegalPhase
  <2>3. CASE CastTransfigure
    BY <2>1, <2>3 DEF CastTransfigure, OpenTransfigure, FlowType, SpecialStates,
                      LegalPhase
  <2>4. CASE CastDiversity
    <3>1. flow' = [flow EXCEPT !.special = "DrawExtra", !.idx = flow.active,
                               !.remains = DrawsGranted]
      BY <2>4 DEF CastDiversity, OpenDiversity
    <3>2. DrawsGranted \in 0 .. DrawsGranted /\ DrawsGranted > 0
      BY DEF DrawsGranted
    <3>3. flow' \in FlowType
      BY <3>1, <3>2 DEF FlowType, SpecialStates
    <3>4. /\ flow'.idx = flow.active /\ flow'.active = flow.active
          /\ flow'.turn = flow.turn /\ flow'.remains > 0
      BY <3>1, <3>2 DEF FlowType
    <3> QED BY <2>1, <3>3, <3>4 DEF LegalPhase
  <2> QED BY <1>5, <2>2, <2>3, <2>4
<1>6. CASE CastNecessity
  <2>1. PICK i \in Requestable : flow' = OpenNecessity(flow, i)
    BY <1>6 DEF CastNecessity
  <2>2. NextSeat(flow.active) \in Seats /\ flow.turn \in PlayPhases
    BY <1>6, NextSeatInSeats DEF FlowType, CastNecessity, MayPlay
  <2>3. flow' = [flow EXCEPT !.special = "Giving", !.ingredient = i,
                             !.idx = NextSeat(flow.active)]
    BY <2>1 DEF OpenNecessity
  <2>4. /\ flow' \in FlowType /\ flow'.special = "Giving"
        /\ flow'.turn = flow.turn
    BY <2>2, <2>3 DEF FlowType, SpecialStates
  <2> QED BY <2>2, <2>4 DEF LegalPhase
<1>7. CASE CastSpeedup
  <2>1. flow' = [flow EXCEPT !.extra = PlaysGranted]
        /\ flow.special = "None" /\ flow.turn \in PlayPhases
    BY <1>7 DEF CastSpeedup, GrantPlays, MayPlay, Ordinary
  <2>2. PlaysGranted \in 0 .. PlaysGranted
    BY DEF PlaysGranted
  <2>3. /\ flow' \in FlowType /\ flow'.special = "None"
        /\ flow'.turn = flow.turn
    BY <2>1, <2>2 DEF FlowType
  <2> QED BY <2>1, <2>3 DEF LegalPhase
<1>8. CASE SpecialSkip \/ SpecialAssemble \/ SpecialDraw
  <2>1. flow.special # "None" /\ flow' = AdvanceSpecial(flow)
    BY <1>8 DEF SpecialSkip, SpecialAssemble, SpecialDraw, Advance
  <2> QED BY <2>1, AdvanceSpecialLegal
<1>9. CASE Give
  BY <1>9 DEF Give, FlowType, SpecialStates, LegalPhase
<1> QED BY <1>1, <1>2, <1>3, <1>4, <1>5, <1>6, <1>7, <1>8, <1>9 DEF Next

\* The inductive invariant: in every reachable state the control state of the
\* game is a legal value in a legal phase.
LEMMA AlwaysLegal == Spec => []Legal(flow)
<1>1. Init => Legal(flow)
  BY NumPlayersAssumption DEF Init, InitFlow, Legal, FlowType, LegalPhase, TurnStates,
     SpecialStates, Seats, DrawsGranted, PlaysGranted, PlayPhases
<1>2. Legal(flow) /\ [Next]_flow => Legal(flow)'
  BY NextLegal DEF Legal, LegalPhase, FlowType
<1> QED BY <1>1, <1>2, PTL DEF Spec

\* The control state of a game is always a legal value: no move reaches the
\* assert(0) of advanceState, no index leaves players_.
THEOREM TypeCorrect == Spec => []TypeOK
<1>1. Legal(flow) => TypeOK
  BY DEF Legal, TypeOK
<1> QED BY <1>1, AlwaysLegal, PTL

\* Special states and extra plays stay inside the playing part of a turn.
THEOREM PhaseCorrect == Spec => []PhaseInv
<1>1. Legal(flow) => PhaseInv
  BY DEF Legal, PhaseInv
<1> QED BY <1>1, AlwaysLegal, PTL

\* A move that leaves no special state where there was none.
LEMMA OrdinaryMoves ==
  ASSUME Legal(flow), flow.special = "None",
         Start \/ Draw \/ Skip \/ Play \/ EndTurn \/ CastSpeedup
  PROVE  flow'.special = "None"
<1>1. flow \in FlowType
  BY DEF Legal
<1>2. \A f \in FlowType : f.special = "None" => Advance(f).special = "None"
  BY DEF Advance, AdvanceTurn, FlowType
<1>3. [flow EXCEPT !.active = NextSeat(flow.active)] \in FlowType
  BY <1>1, NextSeatInSeats DEF FlowType
<1>4. [flow EXCEPT !.active = NextSeat(flow.active)].special = "None"
  BY <1>1 DEF FlowType
<1>5. CASE Draw \/ Skip \/ Play \/ EndTurn
  BY <1>1, <1>2, <1>3, <1>4, <1>5 DEF Draw, Skip, Play, EndTurn, PassTurn
<1>6. CASE Start \/ CastSpeedup
  BY <1>1, <1>6 DEF Start, CastSpeedup, GrantPlays, FlowType
<1> QED BY <1>5, <1>6

\* The four spells open their states with everybody still to answer.
LEMMA SpellsOpenInFull ==
  ASSUME Legal(flow), Next, flow.special = "None", flow'.special # "None"
  PROVE  OpensInFull
<1>1. flow \in FlowType /\ flow.active \in Seats
  BY DEF Legal, FlowType
<1>2. CastWhirpool \/ CastNecessity \/ CastTransfigure \/ CastDiversity
  BY OrdinaryMoves DEF Next, SpecialSkip, Give, SpecialAssemble, SpecialDraw
<1>3. CASE CastWhirpool
  <2>1. /\ flow'.special = "Disassembling"
        /\ flow'.idx = flow.active /\ flow'.active = flow.active
    BY <1>1, <1>3 DEF CastWhirpool, OpenWhirpool, FlowType
  <2> QED BY <2>1 DEF OpensInFull, Pending, RoundSize
<1>4. CASE CastNecessity
  <2>1. /\ flow'.special = "Giving"
        /\ flow'.idx = NextSeat(flow.active) /\ flow'.active = flow.active
    BY <1>1, <1>4 DEF CastNecessity, OpenNecessity, FlowType
  <2>2. Distance(NextSeat(flow.active), flow.active) + 1 = NumPlayers
    BY <1>1, NumPlayersAssumption DEF NextSeat, Distance, Seats
  <2>3. Pending(flow') = Distance(NextSeat(flow.active), flow.active) + 1
    BY <2>1 DEF Pending
  <2> QED BY <2>1, <2>2, <2>3 DEF OpensInFull, RoundSize
<1>5. CASE CastTransfigure
  <2>1. flow'.special = "Transfiguring"
    BY <1>1, <1>5 DEF CastTransfigure, OpenTransfigure, FlowType
  <2> QED BY <2>1 DEF OpensInFull, Pending, RoundSize
<1>6. CASE CastDiversity
  <2>1. flow'.special = "DrawExtra" /\ flow'.remains = DrawsGranted
    BY <1>1, <1>6 DEF CastDiversity, OpenDiversity, FlowType
  <2> QED BY <2>1 DEF OpensInFull, Pending, RoundSize
<1> QED BY <1>2, <1>3, <1>4, <1>5, <1>6

\* A special state asks everybody it concerns once, however many players there
\* are: it opens with all answers to come, every move made in it uses up one, and it
\* closes with the last one, or with the card that is given.
THEOREM RoundsAskAll == Spec => RoundsAskEverybody
<1>1. ASSUME Legal(flow), Next, flow.special # "None"
      PROVE  AnswersOne
  <2>1. flow.turn \in PlayPhases
    BY <1>1 DEF Legal, LegalPhase
  <2>2. SpecialSkip \/ Give \/ SpecialAssemble \/ SpecialDraw
    BY <1>1, <2>1 DEF Next, Start, Draw, Skip, Play, EndTurn, CastWhirpool, CastNecessity,
       CastTransfigure, CastDiversity, CastSpeedup, Ordinary, MayPlay, PlayPhases
  <2>3. CASE Give
    BY <2>3, <1>1 DEF Give, Legal, FlowType, AnswersOne
  <2>4. CASE SpecialSkip \/ SpecialAssemble \/ SpecialDraw
    <3>1. flow' = AdvanceSpecial(flow)
      BY <1>1, <2>4 DEF SpecialSkip, SpecialAssemble, SpecialDraw, Advance
    <3> QED BY <1>1, <3>1, AdvanceSpecialLegal DEF AnswersOne
  <2> QED BY <2>2, <2>3, <2>4
<1>2. Legal(flow) /\ [Next]_flow => [OpensInFull /\ AnswersOne]_flow
  BY <1>1, SpellsOpenInFull DEF AnswersOne, OpensInFull
<1> QED BY <1>2, AlwaysLegal, PTL DEF Spec, RoundsAskEverybody
-----------------------------------------------------------------------------
\* One play: what advanceState means to the owner of the turn.
LEMMA AdvanceTurnSpends ==
  ASSUME NEW f, Legal(f), f.turn \in PlayPhases, f.special = "None"
  PROVE  /\ Stage(f) = "play" /\ Stage(AdvanceTurn(f)) = "play"
         /\ AdvanceTurn(f).active = f.active
         /\ PlaysLeft(f) > 0
         /\ PlaysLeft(AdvanceTurn(f)) = PlaysLeft(f) - 1
<1>1. f \in FlowType /\ f.extra \in 0 .. 2
  BY DEF Legal, FlowType, PlaysGranted
<1>2. CASE f.extra > 1
  <2>1. AdvanceTurn(f) = [f EXCEPT !.extra = f.extra - 1]
    BY <1>2 DEF AdvanceTurn
  <2>2. /\ AdvanceTurn(f).turn = f.turn /\ AdvanceTurn(f).active = f.active
        /\ AdvanceTurn(f).extra = f.extra - 1
    BY <1>1, <2>1 DEF FlowType
  <2> QED BY <1>1, <1>2, <2>2 DEF Stage, PlaysLeft, PlayPhases
<1>3. CASE ~(f.extra > 1)
  <2>1. AdvanceTurn(f) = [f EXCEPT !.extra = 0, !.turn = NextTurn(f.turn)]
    BY <1>3 DEF AdvanceTurn
  <2>2. /\ AdvanceTurn(f).turn = NextTurn(f.turn) /\ AdvanceTurn(f).active = f.active
        /\ AdvanceTurn(f).extra = 0
    BY <1>1, <2>1 DEF FlowType
  <2> QED BY <1>1, <1>3, <2>2 DEF Stage, PlaysLeft, PlayPhases, NextTurn
<1> QED BY <1>2, <1>3

\* Closing a special state is one play as well.
LEMMA CloseSpecialSpends ==
  ASSUME NEW f \in FlowType, f.turn \in PlayPhases,
         f.turn = "DrawPlaying" => Expansion
  PROVE  /\ Stage(f) = "play" /\ Stage(CloseSpecial(f)) = "play"
         /\ CloseSpecial(f).active = f.active
         /\ PlaysLeft(f) > 0
         /\ PlaysLeft(CloseSpecial(f)) = PlaysLeft(f) - 1
<1> DEFINE g == [f EXCEPT !.special = "None"]
<1>1. /\ g \in FlowType /\ g.special = "None" /\ g.turn = f.turn
      /\ g.extra = f.extra /\ g.active = f.active
  BY DEF FlowType, SpecialStates
<1>2. Legal(g)
  BY <1>1 DEF Legal, LegalPhase
<1>3. Stage(g) = Stage(f) /\ PlaysLeft(g) = PlaysLeft(f)
  BY <1>1 DEF Stage, PlaysLeft
<1> HIDE DEF g
<1>4. CloseSpecial(f) = AdvanceTurn(g)
  BY DEF g, CloseSpecial
<1> QED BY <1>1, <1>2, <1>3, <1>4, AdvanceTurnSpends

\* Two control states the players cannot tell apart in TurnProtocol.
Alike(f, g) == Stage(g) = Stage(f) /\ g.active = f.active /\ PlaysLeft(g) = PlaysLeft(f)

Spends(f, g) ==
    /\ Stage(f) = "play" /\ Stage(g) = "play" /\ g.active = f.active
    /\ PlaysLeft(f) > 0 /\ PlaysLeft(g) = PlaysLeft(f) - 1

\* A move made during a special state is at most one play.
LEMMA AdvanceSpecialSpends ==
  ASSUME NEW f, Legal(f), f.special # "None"
  PROVE  Alike(f, AdvanceSpecial(f)) \/ Spends(f, AdvanceSpecial(f))
<1> DEFINE n == NextSeat(f.idx)
           h == AdvanceSpecial(f)
<1>1. /\ f \in FlowType /\ f.turn \in PlayPhases
      /\ f.turn = "DrawPlaying" => Expansion
  BY DEF Legal, LegalPhase
<1>2. n \in Seats
  BY <1>1, NextSeatInSeats DEF FlowType
<1>3. CASE f.special = "Giving"
  <2>1. h = [f EXCEPT !.special = IF f.idx = f.active THEN "None" ELSE "Giving",
                      !.idx = n]
    BY <1>3 DEF AdvanceSpecial
  <2>2. h.turn = f.turn /\ h.active = f.active /\ h.extra = f.extra
    BY <2>1, <1>1 DEF FlowType
  <2> QED BY <2>2 DEF Alike, Stage, PlaysLeft
<1>4. CASE f.special = "Disassembling"
  <2> DEFINE g == [f EXCEPT !.idx = n]
  <2>1. /\ g \in FlowType /\ g.turn = f.turn
        /\ g.extra = f.extra /\ g.active = f.active
    BY <1>1, <1>2 DEF FlowType
  <2>2. h = IF n = f.active THEN CloseSpecial(g) ELSE g
    BY <1>4 DEF AdvanceSpecial
  <2>3. Alike(f, g)
    BY <2>1 DEF Alike, Stage, PlaysLeft
  <2> HIDE DEF g, n
  <2>4. Spends(f, CloseSpecial(g))
    BY <2>1, <2>3, <1>1, CloseSpecialSpends DEF Spends, Alike
  <2> QED BY <2>2, <2>3, <2>4
<1>5. CASE f.special = "Transfiguring"
  BY <1>5, <1>1, CloseSpecialSpends DEF AdvanceSpecial, Spends
<1>6. CASE f.special = "DrawExtra"
  <2> DEFINE g == [f EXCEPT !.remains = f.remains - 1]
  <2>1. f.remains \in 1 .. DrawsGranted
    BY <1>6, <1>1 DEF Legal, LegalPhase, FlowType, DrawsGranted
  <2>2. /\ g \in FlowType /\ g.turn = f.turn
        /\ g.extra = f.extra /\ g.active = f.active
    BY <2>1, <1>1 DEF FlowType, DrawsGranted
  <2>3. h = IF f.remains = 1 THEN CloseSpecial(g) ELSE g
    BY <1>6 DEF AdvanceSpecial
  <2>4. Alike(f, g)
    BY <2>2 DEF Alike, Stage, PlaysLeft
  <2> HIDE DEF g
  <2>5. Spends(f, CloseSpecial(g))
    BY <2>2, <2>4, <1>1, CloseSpecialSpends DEF Spends, Alike
  <2> QED BY <2>3, <2>4, <2>5
<1> QED BY <1>1, <1>3, <1>4, <1>5, <1>6 DEF FlowType, SpecialStates

\* Every move is a step of TurnProtocol or invisible in it.
LEMMA StepImplements ==
  ASSUME Legal(flow), Next
  PROVE  [TP!PNext]_(TP!pvars)
<1> USE DEF Legal
<1>1. ASSUME Alike(flow, flow') PROVE [TP!PNext]_(TP!pvars)
  BY <1>1 DEF Alike, TP!pvars
<1>2. ASSUME Spends(flow, flow') PROVE [TP!PNext]_(TP!pvars)
  BY <1>2 DEF Spends, TP!PNext, TP!Spend
<1>3. CASE Start
  <2>1. /\ flow'.turn = "Drawing" /\ flow.turn = "Preparing"
        /\ flow'.active = flow.active
    BY <1>3 DEF Start, FlowType
  <2> QED BY <2>1 DEF TP!PNext, TP!Open, Stage, PlaysLeft
<1>4. CASE Draw \/ Skip \/ Play
  <2>1. flow.special = "None" /\ flow' = AdvanceTurn(flow)
    BY <1>4 DEF Draw, Skip, Play, MayPlay, Ordinary, Advance
  <2>2. CASE flow.turn \in PlayPhases
    BY <1>2, <2>1, <2>2, AdvanceTurnSpends DEF Spends
  <2>3. CASE flow.turn \notin PlayPhases
    <3>1. flow.turn = "Drawing" /\ flow.extra = 0
      BY <1>4, <2>3 DEF Draw, Skip, Play, MayPlay, PlayPhases, LegalPhase, FlowType,
                        PlaysGranted
    <3>2. flow' = [flow EXCEPT !.extra = 0, !.turn = NextTurn("Drawing")]
      BY <2>1, <3>1 DEF AdvanceTurn
    <3>3. /\ flow'.turn = NextTurn("Drawing") /\ flow'.extra = 0
          /\ flow'.active = flow.active
      BY <3>2 DEF FlowType
    <3> QED BY <3>1, <3>3, ExpansionAssumption
            DEF TP!PNext, TP!BeginPlays, Stage, PlaysLeft, NextTurn
  <2> QED BY <2>2, <2>3
<1>5. CASE EndTurn
  <2> DEFINE g == [flow EXCEPT !.active = NextSeat(flow.active)]
  <2>1. flow.special = "None" /\ flow.turn = "Done" /\ flow.extra = 0
    BY <1>5 DEF EndTurn, Ordinary, LegalPhase, FlowType, PlayPhases, PlaysGranted
  <2>2. /\ g.special = "None" /\ g.extra = 0 /\ g.turn = "Done"
        /\ g.active = NextSeat(flow.active) /\ g \in FlowType
    BY <2>1, NextSeatInSeats DEF FlowType
  <2>3. flow' = AdvanceTurn(g)
    BY <1>5, <2>2 DEF EndTurn, PassTurn, Advance
  <2>4. AdvanceTurn(g) = [g EXCEPT !.extra = 0, !.turn = NextTurn(g.turn)]
    <3> HIDE DEF g
    <3> QED BY <2>2 DEF AdvanceTurn
  <2>5. NextTurn(g.turn) = "Drawing"
    BY <2>2 DEF NextTurn
  <2>6. /\ flow'.turn = "Drawing" /\ flow'.extra = 0
        /\ flow'.active = NextSeat(flow.active)
    <3> HIDE DEF g
    <3> QED BY <2>2, <2>3, <2>4, <2>5 DEF FlowType
  <2> QED BY <2>1, <2>6 DEF TP!PNext, TP!Pass, Stage, PlaysLeft, NextSeat
<1>6. CASE CastWhirpool \/ CastNecessity \/ CastTransfigure \/ CastDiversity
  <2>1. /\ flow'.turn = flow.turn /\ flow'.active = flow.active
        /\ flow'.extra = flow.extra
    BY <1>6 DEF CastWhirpool, CastNecessity, CastTransfigure, CastDiversity, OpenWhirpool,
       OpenNecessity, OpenTransfigure, OpenDiversity, FlowType
  <2> QED BY <1>1, <2>1 DEF Alike, Stage, PlaysLeft
<1>7. CASE CastSpeedup
  <2>1. /\ flow.turn \in PlayPhases
        /\ flow' = [flow EXCEPT !.extra = PlaysGranted]
    BY <1>7 DEF CastSpeedup, GrantPlays, MayPlay
  <2>2. /\ flow'.turn = flow.turn /\ flow'.active = flow.active /\ flow'.extra = 2
    BY <2>1 DEF FlowType, PlaysGranted
  <2>3. flow.extra \in 0 .. 2
    BY DEF FlowType, PlaysGranted
  <2>4. CASE flow.extra = 2
    BY <1>1, <2>2, <2>4 DEF Alike, Stage, PlaysLeft
  <2>5. CASE flow.extra # 2
    <3>1. PlaysLeft(flow) = IF flow.turn = "DrawPlaying" THEN 2 ELSE 1
      BY <2>1, <2>3, <2>5 DEF PlaysLeft, PlayPhases
    <3>2. PlaysLeft(flow') = PlaysLeft(flow) + 1
      BY <2>1, <2>2, <3>1 DEF PlaysLeft, PlayPhases
    <3>3. Stage(flow) = "play" /\ Stage(flow') = "play"
      BY <2>1, <2>2 DEF Stage, PlayPhases
    <3>4. flow.turn = "DrawPlaying" => Expansion
      BY DEF LegalPhase
    <3> QED BY <2>2, <3>1, <3>2, <3>3, <3>4 DEF TP!PNext, TP!Bonus
  <2> QED BY <2>4, <2>5
<1>8. CASE SpecialSkip \/ SpecialAssemble \/ SpecialDraw
  <2>1. flow.special # "None" /\ flow' = AdvanceSpecial(flow)
    BY <1>8 DEF SpecialSkip, SpecialAssemble, SpecialDraw, Advance
  <2> QED BY <1>1, <1>2, <2>1, AdvanceSpecialSpends
<1>9. CASE Give
  <2>1. /\ flow'.turn = flow.turn /\ flow'.active = flow.active
        /\ flow'.extra = flow.extra
    BY <1>9 DEF Give, FlowType
  <2> QED BY <1>1, <2>1 DEF Alike, Stage, PlaysLeft
<1> QED BY <1>3, <1>4, <1>5, <1>6, <1>7, <1>8, <1>9 DEF Next

\* For any number of players, with or without an expansion, the turn machinery
\* of Game.cpp gives every player the plays TurnProtocol promises.
THEOREM Refinement == Spec => ImplementsTurnProtocol
<1>1. Init => TP!PInit
  BY DEF Init, InitFlow, TP!PInit, Stage, PlaysLeft
<1>2. Legal(flow) /\ [Next]_flow => [TP!PNext]_(TP!pvars)
  BY StepImplements DEF TP!pvars, Stage, PlaysLeft
<1> QED BY <1>1, <1>2, AlwaysLegal, PTL DEF Spec, ImplementsTurnProtocol, TP!PSpec
=============================================================================
