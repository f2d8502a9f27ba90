----------------------------- MODULE GameRecord -----------------------------
(***************************************************************************)
(* One game as the server handles it: what Game::ToJson writes into the    *)
(* "state" of a document, and what AddPlayer, Start, PerformMove and       *)
(* OrganizeHand do to it.  The cards are abstracted to the sequence of     *)
(* moves that have been applied to them (board); of the turn machinery     *)
(* only who may move next is kept.  PhaseInv and ImplementsTurnProtocol    *)
(* show of TurnFlow what Outcomes uses of it.                              *)
(*                                                                         *)
(*   name, players   name_, users of players_                              *)
(*   started         turnState_ # Preparing                                *)
(*   turn            user of the active player                             *)
(*   asked           who must answer the special state: a player, Anyone   *)
(*                   (draws of a Diversity spell), or None without one     *)
(*   board           the moves whose effects the cards show                *)
(*   tidy            players whose hand has been rearranged                *)
(***************************************************************************)
EXTENDS Integers, FiniteSets, Sequences, SequencesExt

CONSTANTS
    Users,
    Names,          \* names users give to games
    Kinds,          \* moves told apart by the model
    None, Anyone,   \* not users, not games
    MinPlayers, MaxPlayers

ASSUME PlayersAssumption == MinPlayers \in Nat /\ MaxPlayers \in Nat /\ MinPlayers >= 1

Move == [user : Users, kind : Kinds]

GameState ==
    [name : Names, players : Seq(Users), started : BOOLEAN, turn : Users,
     asked : Users \cup {None, Anyone}, board : Seq(Move), tidy : SUBSET Users]

Document == [state : GameState, moves : Seq(Move), history : Seq(GameState)]
CachedGame == [state : GameState, moves : Seq(Move)]

ASSUME NoneAssumption ==
    /\ None \notin Users /\ Anyone \notin Users /\ None # Anyone
    /\ None \notin Document /\ None \notin CachedGame

\* The creator is not added: ToJson writes "" for the active player.
FaultyNewState(n, u) ==
    [name |-> n, players |-> <<>>, started |-> FALSE, turn |-> None,
     asked |-> None, board |-> <<>>, tidy |-> {}]

\* createGame: a game with its creator as the first, and active, player.
NewState(n, u) ==
    [name |-> n, players |-> <<u>>, started |-> FALSE, turn |-> u,
     asked |-> None, board |-> <<>>, tidy |-> {}]

CanJoin(st, u) ==
    /\ Len(st.players) < MaxPlayers
    /\ ~st.started
    /\ \A i \in DOMAIN st.players : st.players[i] # u

AddPlayer(st, u) == [st EXCEPT !.players = Append(@, u)]

\* Game::Start does nothing for too few players or a second time.
Start(st) ==
    IF Len(st.players) >= MinPlayers THEN [st EXCEPT !.started = TRUE] ELSE st

\* Any move but OrganizeHand.  In a special state the active player may
\* assemble, the asked player answer, and anybody make a granted draw.
MayMove(st, u) ==
    /\ st.started
    /\ IF st.asked = None THEN u = st.turn ELSE u = st.turn \/ st.asked \in {u, Anyone}

NextPlayer(st) ==
    LET i == CHOOSE j \in DOMAIN st.players : st.players[j] = st.turn
    IN  st.players[IF i = Len(st.players) THEN 1 ELSE i + 1]

Seated(st) == {st.players[i] : i \in DOMAIN st.players}

\* Who has the turn and who is asked after a move: the turn passes only when no
\* special state is in force, a spell opens one, each answer moves or ends it.
NextControl(st) ==
    ({st.turn} \X (Seated(st) \cup {None, Anyone}))
    \cup (IF st.asked = None THEN {<<NextPlayer(st), None>>} ELSE {})

Outcomes(st, m) ==
    {[st EXCEPT !.board = Append(@, m), !.turn = c[1], !.asked = c[2]] :
        c \in NextControl(st)}

\* organizeHand: no special state, and the hand of the user alone; of a user
\* who does not play the move is accepted and does nothing.
MayOrganize(st) == st.asked = None
Organized(st, u) ==
    IF u \in Seated(st)
    THEN {[st EXCEPT !.tidy = @ \cup {u}], [st EXCEPT !.tidy = @ \ {u}]}
    ELSE {st}
=============================================================================
