------------------------------ MODULE TurnFlow ------------------------------
(***************************************************************************)
(* The turn and special-state machinery of Engine::Game on its own.  Every *)
(* action is a move as PerformMove applies it; the conditions ValidateMove *)
(* puts on the control state are guards, the ones it puts on cards (who    *)
(* holds what, which deck is empty) are left out, so a step is allowed     *)
(* whenever some position of the cards allows it.  Game, which has the     *)
(* cards, implements this specification.  Moves that leave the control     *)
(* state as it was (the free casts, performDisassemble, OrganizeHand) are  *)
(* stuttering steps.                                                       *)
(***************************************************************************)
EXTENDS Turn

VARIABLE flow

Init == flow = InitFlow

\* Game::Start
Start ==
    /\ flow.turn = "Preparing"
    /\ flow' = [flow EXCEPT !.turn = "Drawing"]

Ordinary == flow.special = "None"
MayPlay == Ordinary /\ flow.turn \in PlayPhases

\* A draw moves the turn on once the hand is large enough.
Draw ==
    /\ Ordinary
    /\ flow.turn \in {"Drawing", "DrawPlaying"}
    /\ flow.extra = 0
    /\ flow' = Advance(flow)

Skip ==
    /\ Ordinary
    /\ flow.turn \in {"Drawing", "DrawPlaying", "Playing"}
    /\ flow' = Advance(flow)

\* Discard, Assemble and the spells that are a play of their own.
Play == MayPlay /\ flow' = Advance(flow)

CastWhirpool == MayPlay /\ flow' = OpenWhirpool(flow)
CastNecessity == MayPlay /\ \E i \in Requestable : flow' = OpenNecessity(flow, i)
CastTransfigure == MayPlay /\ flow' = OpenTransfigure(flow)
CastDiversity == MayPlay /\ flow' = OpenDiversity(flow)
CastSpeedup == MayPlay /\ flow' = GrantPlays(flow)

EndTurn ==
    /\ Ordinary
    /\ flow.turn = "Done"
    /\ flow' = PassTurn(flow)

\* validateSpecialEndTurn: "I have nothing (more) to give, take apart or draw".
SpecialSkip ==
    /\ flow.special \in {"DrawExtra", "Disassembling", "Giving"}
    /\ flow' = Advance(flow)

\* performSpecialDiscard: one card given satisfies the request.
Give ==
    /\ flow.special = "Giving"
    /\ flow' = [flow EXCEPT !.special = "None"]

\* validateSpecialAssembly does not ask which special state is in force.
SpecialAssemble == flow.special # "None" /\ flow' = Advance(flow)

SpecialDraw ==
    /\ flow.special = "DrawExtra"
    /\ flow.remains > 0
    /\ flow' = Advance(flow)

Next ==
    \/ Start \/ Draw \/ Skip \/ Play \/ EndTurn
    \/ CastWhirpool \/ CastNecessity \/ CastTransfigure
    \/ CastDiversity \/ CastSpeedup
    \/ SpecialSkip \/ Give \/ SpecialAssemble \/ SpecialDraw

Spec == Init /\ [][Next]_flow
-----------------------------------------------------------------------------
(* Properties. *)

\* The control state is made of legal values: in particular no move reaches
\* the assert(0) of advanceState, and no index leaves the table.
TypeOK == flow \in FlowType

LegalPhase(f) ==
    /\ f.special # "None" => f.turn \in PlayPhases
    /\ f.extra > 0 => f.turn \in PlayPhases
    /\ f.special = "DrawExtra" => f.remains > 0
    /\ f.special \in {"DrawExtra", "Transfiguring"} => f.idx = f.active
    /\ f.turn = "DrawPlaying" => Expansion

\* Special states and extra plays live only inside the playing part of a turn,
\* so Draw, EndTurn and the next player never meet a left-over of the previous
\* turn; DrawExtra still has draws to make, and the two states that concern
\* the active player alone point at him.
PhaseInv == LegalPhase(flow)

\* How many answers the special state still waits for.
Distance(from, to) == IF from <= to THEN to - from ELSE to - from + NumPlayers

Pending(f) ==
    CASE f.special = "None"          -> 0
      [] f.special = "Transfiguring" -> 1
      [] f.special = "DrawExtra"     -> f.remains
      [] f.special = "Giving"        -> Distance(f.idx, f.active) + 1
      [] f.special = "Disassembling" ->
            IF f.idx = f.active THEN NumPlayers ELSE Distance(f.idx, f.active)

\* A round asks everybody, a Diversity spell grants three draws.
RoundSize(state) ==
    CASE state \in {"Giving", "Disassembling"} -> NumPlayers
      [] state = "DrawExtra"                   -> DrawsGranted
      [] OTHER                                 -> 1

OpensInFull ==
    flow.special = "None" /\ flow'.special # "None" => Pending(flow') = RoundSize(flow'.special)

AnswersOne ==
    flow.special # "None" =>
        \/ /\ flow'.special \in {flow.special, "None"}
           /\ Pending(flow') = Pending(flow) - 1
        \/ flow.special = "Giving" /\ flow' = [flow EXCEPT !.special = "None"]

\* A special state waits for one answer of every player it concerns, in the order
\* of the table; every move made while it is open uses up exactly one of them, and
\* it closes with the last: nobody is asked twice, and no round ends before it has
\* been round the table.  The one exception is the card that is given, which ends
\* a Necessity at once.  Who answers is not seen here: a recipe the active player
\* assembles in the round uses up the answer of whoever was asked.
RoundsAskEverybody == [][OpensInFull /\ AnswersOne]_flow

\* The plays the owner of the turn has left, from turn state and extra plays.
PlaysLeft(f) ==
    LET bonus == IF f.extra > 1 THEN f.extra - 1 ELSE 0
    IN  CASE f.turn = "DrawPlaying" -> 2 + bonus
          [] f.turn = "Playing"     -> 1 + bonus
          [] OTHER                  -> 0

Stage(f) == CASE f.turn = "Preparing" -> "lobby"
              [] f.turn = "Drawing"   -> "draw"
              [] OTHER                -> "play"

TP == INSTANCE TurnProtocol WITH
        PlaysPerTurn <- IF Expansion THEN 2 ELSE 1,
        stage <- Stage(flow), owner <- flow.active, left <- PlaysLeft(flow)

\* The machinery implements the promise of TurnProtocol: no spell, special
\* state or skip costs a player a play or hands the turn on early.
ImplementsTurnProtocol == TP!PSpec
=============================================================================
