-------------------------------- MODULE Turn --------------------------------
(***************************************************************************)
(* The control state of one game of potions (Engine::Game) and the pure    *)
(* transitions advanceState() and endTurn() make on it.  A flow record     *)
(* gathers the members of Game and of Game::SpecialState that decide who   *)
(* may move next:                                                          *)
(*                                                                         *)
(*   turn        turnState_                                                *)
(*   extra       extraPlayMoves_       plays a Speedup spell still grants  *)
(*   active      activePlayerIdx_                                          *)
(*   special     specialState_.State                                       *)
(*   idx         specialState_.PlayerIdx       whose answer is awaited     *)
(*   remains     specialState_.DrawRemains                                 *)
(*   ingredient  specialState_.IngredientRequested                         *)
(*                                                                         *)
(* Players are their index in players_.  The operators have no state of    *)
(* their own: TurnFlow (control alone) and Game (control and cards) are    *)
(* both built from them.                                                   *)
(***************************************************************************)
EXTENDS Integers

CONSTANTS
    NumPlayers,   \* players_.size(), fixed once the game has started
    Expansion     \* expansions_ > 0

ASSUME NumPlayersAssumption == NumPlayers \in Nat /\ NumPlayers >= 2
ASSUME ExpansionAssumption == Expansion \in BOOLEAN

Seats == 0 .. (NumPlayers - 1)

TurnStates == {"Preparing", "Drawing", "DrawPlaying", "Playing", "Done"}
SpecialStates == {"None", "DrawExtra", "Disassembling", "Giving", "Transfiguring"}

\* The states in which the active player may discard, assemble and cast.
PlayPhases == {"DrawPlaying", "Playing"}

\* Spells can request the sixteen plain ingredients; -1 until one does.
Requestable == 0 .. 15
DrawsGranted == 3     \* DrawRemains after a Diversity spell
PlaysGranted == 2     \* extraPlayMoves_ after a Speedup spell

FlowType ==
    [turn : TurnStates, special : SpecialStates, idx : Seats,
     remains : 0 .. DrawsGranted, ingredient : Requestable \cup {-1},
     active : Seats, extra : 0 .. PlaysGranted]

InitFlow ==
    [turn |-> "Preparing", special |-> "None", idx |-> 0, remains |-> 0,
     ingredient |-> -1, active |-> 0, extra |-> 0]

\* Definitions named Faulty... are slips the code could have made; they take the
\* place of the definition that follows to show that a property notices them.
\* The wrap is missing.
FaultyNextSeat(i) == i + 1

\* "++idx; if (idx >= players_.size()) idx = 0"
NextSeat(i) == IF i + 1 >= NumPlayers THEN 0 ELSE i + 1

\* The switch of advanceState.  "Aborted" stands for its default branch,
\* assert(0), which ends the process.
NextTurn(t) ==
    CASE t = "Drawing"     -> IF Expansion THEN "DrawPlaying" ELSE "Playing"
      [] t = "DrawPlaying" -> "Playing"
      [] t = "Playing"     -> "Done"
      [] t = "Done"        -> "Drawing"
      [] OTHER             -> "Aborted"

\* The last extra play is not used up.
FaultyAdvanceTurn(f) ==
    IF f.extra > 1
    THEN [f EXCEPT !.extra = f.extra - 1]
    ELSE [f EXCEPT !.turn = NextTurn(f.turn)]

\* advanceState when no special state is in force: an extra play is used up
\* first, and the turn state moves on only when none is left.
AdvanceTurn(f) ==
    IF f.extra > 1
    THEN [f EXCEPT !.extra = f.extra - 1]
    ELSE [f EXCEPT !.extra = 0, !.turn = NextTurn(f.turn)]

\* The special state ends and takes the pending play with it.
CloseSpecial(f) == AdvanceTurn([f EXCEPT !.special = "None"])

\* A Whirpool round ends one player early.
FaultyAdvanceSpecial(f) ==
    LET asked == NextSeat(f.idx)
        g == [f EXCEPT !.idx = asked]
    IN  CASE f.special = "Giving" ->
               [g EXCEPT !.special = IF f.idx = f.active THEN "None" ELSE "Giving"]
          [] f.special = "Disassembling" ->
               IF NextSeat(asked) = f.active THEN CloseSpecial(g) ELSE g
          [] f.special = "Transfiguring" -> CloseSpecial(f)
          [] f.special = "DrawExtra" ->
               IF f.remains = 1 THEN CloseSpecial([f EXCEPT !.remains = 0])
               ELSE [f EXCEPT !.remains = f.remains - 1]

\* advanceSpecialState.  Giving costs no play; the others end in a play.
AdvanceSpecial(f) ==
    LET asked == NextSeat(f.idx)
    IN  CASE f.special = "Giving" ->
               [f EXCEPT !.special = IF f.idx = f.active THEN "None" ELSE "Giving",
                         !.idx = asked]
          [] f.special = "Disassembling" ->
               LET g == [f EXCEPT !.idx = asked]
               IN  IF asked = f.active THEN CloseSpecial(g) ELSE g
          [] f.special = "Transfiguring" -> CloseSpecial(f)
          [] f.special = "DrawExtra" ->
               LET g == [f EXCEPT !.remains = f.remains - 1]
               IN  IF f.remains = 1 THEN CloseSpecial(g) ELSE g

Advance(f) == IF f.special # "None" THEN AdvanceSpecial(f) ELSE AdvanceTurn(f)

\* The same player goes on; the index is not wrapped.
FaultyPassTurn(f) == Advance(f)
UnwrappedPassTurn(f) == Advance([f EXCEPT !.active = @ + 1])

\* endTurn, without the talisman bonuses: the next player starts drawing.
PassTurn(f) == Advance([f EXCEPT !.active = NextSeat(f.active)])

\* What the four spells that open a special state, and Speedup, leave behind.
OpenWhirpool(f) == [f EXCEPT !.special = "Disassembling", !.idx = f.active]
OpenNecessity(f, i) ==
    [f EXCEPT !.special = "Giving", !.ingredient = i, !.idx = NextSeat(f.active)]
OpenTransfigure(f) == [f EXCEPT !.special = "Transfiguring", !.idx = f.active]
OpenDiversity(f) ==
    [f EXCEPT !.special = "DrawExtra", !.idx = f.active, !.remains = DrawsGranted]
GrantPlays(f) == [f EXCEPT !.extra = PlaysGranted]
=============================================================================
