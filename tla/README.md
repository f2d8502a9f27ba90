# A verification project for *potions*

*potions* is a server for a card game with a browser client: players brew recipes
from the cards in a common closet, score for them, take each other's potions as
parts, and cast spells. This directory holds TLA+ models of the rules engine,
of the server with its cache and database, of the saved form of moves and of a page
that polls; the TLC runs that check them on small instances; and TLAPS proofs.
Paths below are relative to the repository.

## 1. Inventory

| Component | State | Operations | Models |
|---|---|---|---|
| Turn machinery, `src/Engine/Game.cpp` | `turnState_`, `activePlayerIdx_`, `extraPlayMoves_`, `specialState_` | `advanceState`, `advanceSpecialState`, `endTurn`, the four spells that open a special state, Speedup | `Turn`, `TurnFlow`, `TurnProtocol`, `TurnFlowProofs` |
| Game rules, `src/Engine/Game.cpp` | decks, players, closet | `Start`, `ValidateMove` and `PerformMove` for draw, skip, discard, assemble, cast, endturn, disassemble | `Game`, `GameProperties`, `MCGame`, `GameProofs`, `CardProofs`, `GameSafetyProofs` |
| Cards and decks, `src/Engine/{Card,World}.cpp`, `Rules.h` | per card: `assembled_`, `assembledParts_`, `assembledUsingUniversal_` | `CanAssemble`, `Matches`, `Assemble`, `Disassemble`, `PrepareDeck` | `Cards` |
| Closet, `src/Engine/Closet.cpp` | a pile of cards per ingredient, `spellsOnTop_` | `AddCard`, `CanRemoveCard`, `RemoveCard`, `FromJson` | `Closet`, `ClosetProofs` |
| Player, `src/Engine/Player.cpp` | hand, assembled cards, talismans, score | add and discard cards, assembled cards | part of `Game` |
| Moves, `src/Engine/Move.cpp` | none | `FromJson`, `ToJson` | `Moves`, `GameServerProofs` |
| Saving and loading, `ToJson`/`FromJson` | the document of a game | dump after each move, load on demand | `Reload` in `Game`, `GameRecord`, `GameServer` |
| Server, `src/Server/Server.cpp` | sessions, cache of games | login, create, join, start, delete, query, turn, undo, organize a hand, expiry | `GameServer`, `GameStore`, `GameServerProperties`, `GameServerProofs`, `ServerFaultProofs` |
| Database, `src/DB/DB.cpp` | collections `games`, `users` | get, insert, update, delete | part of `GameServer` |
| Browser client, `UI/client.js` | game shown, time of the last update, timer, notification | poll, load, log in, choose a game, make a move | `Polling`, `PollingProofs`; `DistinctParts` in `Game` |
| Utilities, logging, `main.cpp` | none | files, time, start-up | not modelled |
| rapidjson, spdlog, simple-web-server, catch | | | third party |

How they interact. The web server has one worker thread
(`simple-web-server/server_http.hpp`, `thread_pool_size = 1`), so a request
handler runs alone. A handler finds the session, finds the game (in the cache, or by
loading its document), asks `ValidateMove`, and if the answer is yes calls
`PerformMove` and saves the game. A page learns of the moves of others by asking
every five seconds when its game last changed. What interleaves is:

- requests of different players, in any order and from pages that may be out of date;
- the steps of one handler with a database that may refuse a write;
- restarts, expired sessions and deletions between two requests;
- on a page, answers to several requests under way, and clicks.

What is hard in it:

- *The control state.* Four special states suspend the turn in the middle of a
  play. Each one walks round the table, or counts, in its own way, and ends the
  play it interrupted; Speedup adds plays in the middle of a turn. Whether
  every player gets his plays is decided by code spread over a dozen functions.
- *Cards in five places.* A card is in a deck, a hand, a pile, on a table, or a
  part of a potion. The fourteen spells each move cards with code of their own.
- *Validation and effect.* `ValidateMove` looks at the state before the move;
  `PerformMove` changes it piece by piece and asserts what it takes for granted.
- *Positions without a move.* The server refuses what is not valid; if nothing
  is valid for anybody the game can never be finished.
- *Payments* to the owners of potions taken as parts, and talismans at the end
  of a turn.
- *Three copies of a game.* The cached game, the saved state, and the history the
  undo reads. Moves change the first and then the others; undo changes the
  document and drops the first.
- *Lists of games* in sessions, in documents of users and in documents of games.
- *Answers out of order.* A page keeps one time and one board for whatever answer
  came last.

## 2. The modules

    TurnProtocol <--implements-- TurnFlow <--implements-- Game      GameProperties
                                    |                    /  |  \        MCGame
                                    +------ Turn -------+ Cards Closet

    GameStore <--implements-- GameServer --- GameServerProperties --- MCGameServer
            \                  /                 /
             +-- GameRecord --+           Moves          Polling

`Turn` has the control state as a record (`flow`) and, as operators without
state, what `advanceState`, `advanceSpecialState`, `endTurn` and the spells do
to it. `TurnFlow` makes a specification of it with cards left out: every move is
an action, its guard is the part of `ValidateMove` that concerns the control
state. `TurnProtocol` is the abstract specification: a table, an owner of the
turn, a number of plays left. `Game` is the whole game. It uses the same
operators of `Turn` and adds `Cards` (immutable data and `CanAssemble`) and
`Closet`. `GameServer` has many games and leaves their rules out: a game there
is the list of moves its cards show, and who may move. `GameStore` is what the server
promises: games that change by the requests that name them, and nothing else.
`Moves` has what is read and written for a move. `Polling` is one page, the server
it asks and the other players.

The proofs stand apart: `TurnFlowProofs`, `GameServerProofs` and `PollingProofs` extend the
specification they are about; `ServerFaultProofs` extends `GameServerProofs` with what the server
keeps when the database fails. For games `ClosetProofs` is about the operators of `Closet`,
`GameProofs` about the control state of a game, `CardProofs` about where each move puts the
cards, and `GameSafetyProofs` has the theorems that follow.

### The game

| Variable | Code |
|---|---|
| `flow` | `turnState_`, `activePlayerIdx_`, `extraPlayMoves_`, `specialState_` |
| `decks` | `decks_`; a set, since the order is random and unknown: a draw takes any card |
| `hands` | `hand_`; a set, since its order is never read |
| `table` | `assembledCards_` |
| `parts`, `assembled`, `universal` | `assembledParts_`, `assembled_`, `assembledUsingUniversal_` of each card |
| `closet`, `spellsOnTop` | `Closet::cont_`, `Closet::spellsOnTop_` |
| `score` | `score_` |
| `fault` | which assertion failed or null pointer was used; the process is gone until `Reload` |

Each action carries the name of the move or spell. Its guard is what
`ValidateMove` asks, its effect is what `PerformMove` does, to the end of the
call. `CastReveal`, `CastGlobalReveal` and `CastMagicReveal` share `Exchange`;
the spells that open a special state share `OpenWith`. `std::set<Card*>` is
walked in the order of addresses, so wherever the code puts the parts of a
potion on piles the model takes any order (`Orders`; `PartOrders` for several potions). `Reload` is a restart
followed by a load, or a game dropped from the cache and loaded again: the
closet is rebuilt before `spellsOnTop_` is set, as `Game::FromJson` does it.

*Requests.* A page that shows the game as it is composes less than the server accepts: a
recipe of the hand, parts that lie on the tables and the piles, each card once
(`addPart`, `client.js:227`), a deck it has a button for. With `AnyRequest` FALSE only such
requests arrive. With TRUE so do the others that pass validation, from pages that
are out of date or from anything else that posts a turn: a recipe that is not in the hand
(`Nameable`), parts named more than once (`PartLists`; the second time a card of the closet
is gone, and a potion is no longer assembled: `TakePart`), one critter twice for Forest
(`CastForest`), a card `GetCard` does not know, which validation uses as a null card
(`UnknownCard`), and a deck that `DeckFromString` does not know or the game does not have
(`UnknownDeck`). A deck the game does not have is harmless in an ordinary draw: `decks_.at`
throws before anything has changed.

Left out: refused requests, which change nothing, and those that are no turns at all
(parsing errors); the order of a hand, which no rule reads; the
Guild deck, which has no cards; joining before the start (the number of players is a
constant). The list of moves and the time of the last move are in `GameRecord`
and `Polling`.

### The server

| Variable | Code |
|---|---|
| `sessions` | `sessions_`: user and set of games of each session |
| `cache` | `games_`: state and moves of the games in memory |
| `docs` | collection `games`: `state`, its `moves`, and `history` |
| `listed` | collection `users`: `games` of each user |
| `used` | ids the database has given (an ObjectId is never given twice) |

A game's state (`GameRecord`) is its name, its players, whether it is started, whose
turn it is, who is asked to answer a special state, the moves whose effects the
cards show (`board`), and whose hand was rearranged. `NextControl` takes from
`Turn` what the server depends on: the turn passes only while no special state is in
force and the turn is over (the guard of `EndTurn` in `TurnFlow`; that a turn does not end sooner is
`PhaseInv` and `ImplementsTurnProtocol`, checked and proved of the real machinery).

An action is a request. `Reached(steps, writes)` cuts it short at a write to the
database: a write that throws leaves the handler with what was done so far, and the
web server catches the exception. `"refused"` is a write that was not made,
`"unanswered"` one that was made all the same. `Dump` selects documents by the
name in the state, as `dumpGame` does, so it may write none, one or several.
`Load` stands for every request that does no more than bring a game into the cache:
query, lastupdate, and refused moves. `Retire` may drop any session at any time.

### The page

| Variable | Code |
|---|---|
| `board`, `stamp` | a number for the position of each game, new after a move or an undo; `lastMove_` of a cached game |
| `hand` | the order of the user's own cards in each game: how often it was rearranged |
| `clock`, `known` | the clock of the server; `sessions_` |
| `view` | which part of the page is not hidden |
| `session`, `gameID`, `lastUpdated` | the variables of the same names |
| `shown` | game, board and hand that `redrawBoard` drew last |
| `timer` | `gameTimerID` |
| `notified`, `handle`, `strays` | the notification in the page, `blinkHandle`, and intervals no variable holds |
| `requests` | requests and answers under way |

`Serve` is the server's handler for one of the page's requests, `Receive` the
callback that gets its answer. `Others`, `Deleted`, `Retire` and `Break` are what
happens around the page: moves, undos and loads by others, deletion, expired
sessions or a restart, a request that fails before or after it took effect.

A turn is of two sorts. A move of the game (`Changed`) gives it a new time. A card put at
another place of the hand (`Organized`) does not: `PerformMove` returns from `OrganizeHand`
before it sets `lastMove_` (`Game.cpp:542`). The model keeps the order of the hand apart from
the rest of the board for that reason: it is the part of what a page shows that may change
under an unchanged time.

### Slips

Definitions named `Faulty...`, `Greedy...`, `Unpaid...`, `Forgetful...`, `Strict...`
and `Unwrapped...` are deliberate slips, of a kind that could be made in the code they
stand next to. None is used by a specification; each can be put in the place of the
definition it precedes to see that a property notices.

## 3. The runs

| Run | Instance | Question |
|---|---|---|
| `turn_flow` | 3 players, expansion | Is the control state legal, is everybody asked in a special round, is `TurnProtocol` implemented? |
| `game_base` | 2 players, 8 base cards, any request, restarts | A whole base game with Transform, Reveal and Destroy: are cards conserved, do flags agree with tables, is there always a move, do only tops leave the closet, does the playing part begin with enough cards? |
| `game_rounds` | 3 players, two boxes, requests of up-to-date pages, restarts | Whirpool, Necessity and Diversity with assembling inside their rounds, and magemas: conservation, a move for somebody, what ends the process, which lists of parts are accepted, what a load keeps, `TurnFlow` implemented |
| `game_spells` | 2 players, five boxes, any request, restarts | Magic Reveal with Speedup, Transfigure and Create; critters with Create, Global Reveal and Forest; critters made from potions, with and without universal cards, with Transfigure and Overthrow; Income and Growth talismans with Create and Concience: conservation, flags, payments, bonuses, `TurnFlow` implemented |
| `server` | 2 users, 2 games, 1 session, 2 moves, no failures | Are cache, document, history and lists the same game, can every accepted move be read back, is `GameStore` implemented? |
| `server_faults` | 2 users, 1 game, 3 moves, refused writes, rearranged hands | What survives when any write of any request may be refused |
| `polling` | 1 page, 2 games, 2 requests under way, 2 events, 4 clicks | Does the page watch, does no news mean that no move was missed, can a click stop the blinking, does the page catch up? |
| `assembled_from_hand`, `removes_only_tops`, `whirpool_takes_all_apart`, `undo_only_mine`, `one_entry_updated` | small instances | Assertions, a test and two messages that the code does not live up to (section 6) |

A *box* is the set of cards a game is played with; the program has one. Several
boxes in one run are several games side by side: the first step chooses one.

The properties.

*Turns* (`TurnFlow`):

- `PhaseInv`: special states and extra plays exist only in the playing part of a
  turn, so no turn starts with a left-over of the one before.
- `RoundsAskEverybody`: a special state opens with as many answers pending as it has
  to get, one of every player in a round (`OpensInFull`); every move made in it uses up exactly
  one (`Pending`), and it closes with the last one. The only state that may close sooner is
  a Necessity, by the card that is given. It counts answers: who gives one is not seen
  without the cards, and an assembly by the active player is taken for the answer of
  whoever was asked, which is the subject of `WhirpoolTakesAllApart`.
- `ImplementsTurnProtocol`, `ImplementsTurnFlow`: refinements.

*Cards* (`GameProperties`):

- `CardsConserved`: every card is in exactly one place, except Speedup spells
  already cast, which the code puts nowhere.
- `TablesAgree`: the three redundant fields of a card agree with the tables.
- `StuckOnlyWhenKnown`: somebody can move, except after a Transfigure with
  nothing to assemble, and with extra plays, an empty hand and a deck that is
  not empty in the first half of a turn.
- `PagesEndItInTwoWays`: as long as requests come from pages that are up to date, the process
  ends only through a Diversity draw from an empty deck, or a potion one of whose parts falls
  on a pile another part is to be taken from. (Other requests can end it through a recipe that is
  not in the hand, a part named twice, an unknown card or deck.)
- `AcceptsWhatFits`: `CanAssemble` looks, for each requirement, for some part; of the lists that
  name no card twice it accepts exactly those that can be laid out one part on each requirement
  (`LaidOut`, with Necessity's one misfit and the universal stand-ins), provided no part
  fits two requirements. Without the proviso it does not (section 6).
- `ReloadKeeps`: a load keeps potions, their parts, and the order of the recipes in
  every pile (`RecipeOrder`: which recipe lies under which).
- `OnlyTopsLeave`, `ReadyToPlay`, `OwnersPaid`, `NothingForNothing`: what a step
  may never do to the closet, the phase, and the scores.

*Server* (`GameServerProperties`):

- `Coherent`: cached game and document agree after every request, so a restart
  loses nothing that was answered, and undo takes back what players saw last.
- `HistoryComplete`: one saved state per move, each the one that followed it.
- `PlayersListTheirGames`, `ListedExist`, `CachedHaveDocuments`: the three lists of
  games agree, and after a refused write nothing is offered or played that has no
  document.
- `SavedIsPast`, `HistoryGoesForward`, `MovesTellTheBoard`: after refused writes the
  saved state is an earlier position of the cached game, the history goes forward,
  and the list of moves covers the board.
- `ImplementsGameStore`: sessions, cache, loads and restarts are invisible.
- `EveryMoveLoads`: a request accepted as a move is written to something `FromJson`
  accepts as the same move. One move it refused would make the saved game unreadable.
  `Posted` is the set of documents that are posted, `MCPosted` in the runs: every
  field absent, of the right type, of another type, and at its special values.

*Page* (`Polling`): `Watching` (a page on a present game has a timer, or a request
whose answer sets one), `NoMoveUnseen` (a page that would be told nothing new shows every
move and undo there has been), `BlinksWhileNotified`, and `CatchesUp`, a liveness property.
`NoMoveUnseen` and `CatchesUp` say nothing of the order of the user's own hand, for which they
would be false (section 6).

### Bounds and why they are enough

*Game.* `Cards` is a handful of real cards (`MCGame` has their entries of
`res/cards.json` with real ids, since ids decide spells, decks and universal
potions). A box has the cards of one family of spells, with recipes that can be made
from the rest, so that each spell meets potions with and without parts, cards in hand
and in the closet, and both players as owners. The sizes of `Rules.h` are reduced in
proportion, with 1 or 2 cards to reach before playing and 2 or 3 as the most that may be
held. `LastBaseCard` (76) is that of `cards.json`; a box needs as many base cards as the first deal
puts into the closet. With the decks that small they run empty, which is when skips are needed.
`ScoreBound` keeps the state finite: moves beyond it are not explored, and the bound is
above what the cards of the run can score except where talismans pay every turn. A game
goes on for ever in the model: nothing in the code ends one. Deadlock is not
checked in the `Game` runs, because a position without a move is possible and is the
subject of `StuckOnlyWhenKnown`.

`AnyRequest` is TRUE in `assembled_from_hand`, `game_base` and `game_spells`, where the safety of the cards must not depend on
what pages compose, and FALSE in `game_rounds`, whose `PagesEndItInTwoWays` is about what
pages that are up to date can do, and in the other violations, which such pages reach.

*Server.* Two users are needed for a turn to pass and for an answer in a special state;
two games for a write to reach the wrong one; two moves for an undo (the code wants
two saved states), three for an undo after a refused write. One session suffices: the
handlers read no session but their own, and logging in again gives the next user the
same session; sessions of two users at once would differ only in `games`,
which guards nothing but `createGame`'s limit. Ids of games and of sessions are
interchangeable (`Symmetric`); the runs with symmetry check no liveness.

*Page.* Two requests at once are the least that can overtake each other; a timer's
request, a click's and a refusal are all pairs of two. `MaxChanges` counts events around the
page, `MaxClicks` what its user does (log in, choose, and two more). `SameInstant`
is FALSE: see section 6.

### Fairness

`Polling` assumes weak fairness of `TimerFires` (the browser runs a due timer), of
`Serve` for each request (the server's event loop takes every request, and handlers
end) and of `Receive` for each answer (the browser runs callbacks). Nothing is assumed
of people: clicks and moves of others need not happen, and `CatchesUp` speaks of a
page on which they have stopped, which the bounds make them do. Requests that fail are
answered as failures (`Break`); none is silently lost, as in the code, where a
broken connection calls the error callback.

The other specifications assume no fairness. Moves are made by people, and nothing in
the code makes them move, so "a round ends" is not a property of the code; what the
code does guarantee is `RoundsAskEverybody`, that each move brings the end of a round nearer, and
`StuckOnlyWhenKnown`, that there is one to make.

## 4. What is proved

All for every value of the constants, from the named assumptions of the modules.

**`TurnFlowProofs`**, for every number of players from two and with or without
an expansion:

- `TypeCorrect` and `PhaseCorrect`, from the inductive invariant
  `Legal(flow) == flow \in FlowType /\ LegalPhase(flow)`. Neither half is inductive
  alone: that `NextTurn` never meets a state it has no case for needs the phase
  (a special state is closed only in a playing phase), and that the draw counter
  stays a natural number needs that a Diversity spell in force has draws left.
  `NextLegal` has one step per move and rests on `AdvanceTurnLegal`,
  `CloseSpecialLegal` and `AdvanceSpecialLegal`, one per function of the code.
- `RoundsAskAll`: `RoundsAskEverybody`. `SpellsOpenInFull` says that each spell leaves every
  player still to answer; that a move in a round uses up exactly one answer and only the last
  closes it is the index arithmetic round the table of `AdvanceSpecialLegal`.
- `Refinement`: the machinery implements `TurnProtocol`. `AdvanceTurnSpends`,
  `CloseSpecialSpends` and `AdvanceSpecialSpends` say that each of the three is one
  play, or no visible step; `StepImplements` puts the moves together.

**`GameProofs`**, for every set of cards, boxes and sizes of the rules:

- `GameImplementsTurnFlow`: every move, spell, fault and reload is a step of `TurnFlow` or
  leaves `flow` alone (`MovesAreTurnFlow`, one step per action). So what is proved of
  `TurnFlow` holds of whole games; `FlowAlwaysLegal` uses it.
- `NobodyIsStuck`: the theorem version of `StuckOnlyWhenKnown`. `SomebodyCanMove` goes through the
  turn states and special states that `Legal` allows and names for each a player with a
  move; that hands are finite (`HandsAlwaysFinite`) makes their size a number, so that
  a hand is either below `MaxHandToDraw` or not. `RulesAssumption` is all it needs of `Rules.h`.

**`ClosetProofs`, `CardProofs`, `GameSafetyProofs`**, for every set of cards, boxes,
number of players and sizes of the rules, faults and reloads included:

- `ClosetProofs` has no theorem of a specification. `Tidy` says that each pile holds
  each of its cards once and only cards of its own ingredient; `RemoveCardRemoves`,
  `ReloadedKeeps` and, in `CardProofs`, `ListAdds` say what `AddCards`, `RemoveCard` and a load then do to
  the set of cards of the closet (`InCloset`). `AddCards` is a loop over a list, written as a
  recursive function; that it has a value (`AddingExists`) and keeps its invariant is
  shown by the induction of the naturals in its set form.
- `NoCardIsLost`, `TablesAlwaysAgree`, `TopsLeave`. `CardsConserved` counts the
  places of a card and is not inductive. The invariant is `Placed`: there are functions `k` and
  `w` that give every card one kind of place and, in it, one player or potion, and the
  decks, hands, tables, parts and closet hold exactly the cards that `k` and `w` put there
  (`Laid`). It carries `TablesAgree`, since a potion that is off the table but keeps parts
  would lose them in the next assembly, and `Tidy`. Each move has a lemma that names the
  placement after it (`TransformCarries`, `DestroyCarries`, ...); `StartDeals` is the
  deal. Assembling is a loop over the parts, with the invariant `Taken`: the parts taken so
  far have left the tables and the closet, and what they were made of is in the closet; a loop
  that comes to its end was given no part twice (`TakePartsTakes`).
- `GameTypeCorrect`, from `Placed` and `Counted` (scores and flags).
- `UpToDatePagesAreSafe`: `OnlyTheseFault` shows which moves can meet a fault, those of any request
  included; for assembling, `PartsStayAvailable` shows that a validated part that is no longer
  on top was covered by a part of a potion taken before, as long as no part is named twice. The
  premise is `~AnyRequest`: all other theorems on games hold with any request.
- `PlayersAreReady`: `OnlyDrawsWhileDrawing`.
- `OwnersArePaid`: `AssemblePays`, from the loop invariant `Shared`: after the parts in `S`
  the share of a player who lost one that was not universal, or who has Generality, is at least 1.
- `ReloadIsFaithful`: a load adds the cards of a pile one by one to an empty closet, a
  recipe on top and a spell below. The invariant of that loop is that the recipes added
  so far lie under each other as in the old pile (`Under`): `OneMoreOnTop` for a recipe,
  `SpellBelow` for a spell, `ReloadedOrders` for the whole pile.
- `PartsAreJudged`: `CanAssemble` counts, `LaidOut` lays parts on requirements. What is
  lacking of a type is the least that is left when at most one stand-in helps
  (`LackingIsLeft`, `LackingOfTwo`). A layout leaves no less than that (`LayoutLeaves`). The other
  way round (`LeftIsLaidOut`) the parts that fit and the stand-ins are on different
  requirements, and such a partial layout can be completed, because as many parts as
  requirements remain (`LayoutExtends`). It needs that a stand-in fits nothing itself:
  `StandInsAssumption`, which says that no recipe of `cards.json` asks for ingredient 16 or
  for a universal potion. With a recipe that did, one magema would pass for two parts.
- `NothingComesForNothing`: `OnlyThreePay` shows which moves raise the score of another player, and
  `EndTurnScores` that the one point of Growth goes to somebody who was behind after
  the income was paid.

`DataAssumption` (the shape of a card's entry), `CardsAssumption` (finitely many cards,
numbered), `StandInsAssumption` (for `PartsAreJudged` alone), `GameAssumption` and `RulesAssumption` (no hand has to be larger than it
may be) are all they use of the constants.


**`GameServerProofs`**, for every set of users, names, ids and moves:

- `ServerTypeCorrect`, for any failures. The invariant `Typed` is stronger than the
  types: in each state that is kept anywhere the active player is seated, since
  otherwise `NextPlayer` gives nobody.
- `CachedGamesHaveDocuments`, unless writes may be made and not answered
  (`"unanswered" \notin Failures`).
- `CacheIsCoherent` and `HistoryFollowsMoves` under `Reliable` (no failures, and
  `UniqueNames`). `Coherent` is not inductive: `Dump` selects by name, and writes the
  right document only if each document has its own name and the cached game the name of its
  document (`OwnNames`). The history needs besides that every saved state shows
  the moves up to it (`Recorded`), which is what makes `Previous` the state before the last move.
- `ServerImplementsStore`, under `Reliable`: `NextImplements` maps each request to one
  step of `GameStore`, and logins, loads and restarts to none; the cache drops out by
  `Coherent` (`StoreIsDocs`).
- `EveryDocumentLoads`, for any failures and any set of documents posted as moves
  (`PostedAssumption` only says that a field is absent or has one of the types of BSON):
  `WrittenFields` and `ValuesOfFields` say what `ToJson` writes and what is read from it, and
  `MoveReadAsWritten` puts the fields and the parts together.

**`ServerFaultProofs`**, for every set of users, names, ids and moves, and for every set of
failures of the database where nothing else is said:

- `SavedStateIsPast` and `HistoryIsForward`, under `UniqueNames`. A request that fails half
  way leaves the cached game and its document apart, so the invariant of
  `CacheIsCoherent` is of no use. What is left is an order, `InOrder`: the states of the
  history, the saved state and the cached state are ever later positions of one game.
  It is kept only if a save writes the document of its own game, cached games whose
  write was refused included (`EachItsName`). `RequestsAre` sorts what any request, cut short at
  any write, does to the games into six cases; `NextNames` and `NextInOrder` go through
  them, with `ForwardSaved` and `ForwardUndone` for the two that matter.
- `BoardIsTold`, under `UniqueNames`: `MovesTellTheBoard` is inductive together with
  `InOrder`. An undo takes one move off the list but may take several off the board; the
  list still tells it, since the board it goes back to is shorter (`SubsequencePopped`).
- `ListsNameExisting`, when no write is made without being answered: `ListedExist` is
  inductive with the types, by the order of the three writes of `deleteGame` (`NextListed`).
- `ListsAreRight`, under `Reliable`. An undo brings back an older state with its players, so
  it needs that nobody joins a game that has a history: `AllSettled` (a game with a history is
  started, and its saved states have the players it has now).

**`PollingProofs`**, for any number of games, requests and clicks:

- `PageTypeCorrect`, from `TypeOK` and `Telling` (an answer that is used carries a board
  and a time). `BlinkingStops`.
- `PageKeepsWatching`: `Watched` follows the one timer or request through every
  callback; `RefusedIsDeleted` (a query answered 400 is about a deleted game, and a
  deleted game stays so) is what makes the lost timer of a refused poll harmless.
- `NoNewsIsGoodNews`, with `~SameInstant`: `Timely` says that times never lie ahead of the
  clock, and that what an answer under way tells of a board was so at its time and is so still
  unless the game has a later one. A rearranged hand keeps the time and the board alike, so it
  keeps `Timely`.

`Reliable`, `UniqueNames` and the two conditions on `Failures` are hypotheses of the theorems and
not assumptions of a module: the runs `server` (names unique, no failures), `server_faults`
(refused writes) and `one_entry_updated` (a name twice) give the constants values on both sides of
them. Writes that are made and not answered are in no run, only in these theorems.

Every invariant and every action property that a run checks is a theorem. Only
model-checked is `CatchesUp`, liveness under fairness, which is out of the prover's reach, as are
the violations of section 6, which are counterexamples.

## 5. What is not modelled, and what remains

- *Vendored libraries* (rapidjson, spdlog, simple-web-server, catch): of some
  40,600 lines of source in the repository, 37,000 are theirs. The repository's own
  are some 3,600 of C++ and 1,060 of JavaScript, and the models cover those that have
  state. Of the web server the single worker thread matters, which makes a
  handler one step.
- *Files, logging, start-up*: no state of their own.
- *Text forms*: documents are records, moves are records of typed fields. Names of
  ingredients and the reader of `cards.json` are not modelled.
- *Drawing* in `client.js`, and the composition of a move by dragging cards: of it only
  that the parts of a recipe are distinct cards.
- *Requests that change nothing*: ping, listGames, about, files.
- *Session ids* come from `rand()` without a seed (`Server.cpp:615`), and so repeat after
  a restart; the models have them opaque.

What could come next: a page for each player and the game's rules behind `GameServer`
in one specification; the composition of moves in the client against
`ValidateMove`; refused writes seen from the page.

## 6. Findings

- `validateAssemble` (`Game.cpp:848`) does not look for the card in the hand;
  `assert(p->HasCard(card))` in `assemble` (`Game.cpp:258`) ends the process when a
  page that is out of date sends the move.
- `assemble` (`Game.cpp:286`) returns the parts of a potion to the closet before it
  removes a later ingredient. If one of them lands on that pile,
  `assert(CanRemoveCard(card))` (`Closet.cpp:67`) fails although the move was
  validated.
- `validateSpecialAssembly` (`Game.cpp:391`) allows an assembly in every special
  state. In a Whirpool round the active player can assemble and thereby use up the answer of
  another player, whose potions, on his table since before the round, stay whole, while
  `tests/test_spells.cpp:57` expects none to. (The run shows a game of two: the caster
  skips, then assembles, and the round is over with the potion of the other untouched.)
- `undo` (`Server.cpp:337`) compares the user with the *active* player of the last two saved
  states and otherwise answers "Can only undo my turns". In a special state others
  answer while the active player stays: he can take back their answers.
- `dumpGame` (`Server.cpp:571`) selects documents by the name in the state and logs "Wrong
  number of entries updated" when it did not write exactly one. `createGame` does not
  ask whether a name is taken: with two games of one name, a save of either is
  written over both.

Observations, without a statement in the repository to compare with.

*Rules.* A Transfigure spell with nothing to assemble, or Speedup with an empty hand,
stops the game for good. A Diversity draw from an empty deck ends the process, and any
player may make the draws. A cast Speedup spell leaves the game. In a game created with
an expansion spells go under the piles until the first restart, and a restart sinks the
spells that lay on piles, which may change the top of a pile of spells. A part that fits
two requirements of a recipe passes for both: with one talisman and two other cards
one can make any of 137 to 139.

*Requests.* Validation trusts a request to come from a page that is up to date. A card of the
closet named twice among the parts passes `validateAssemble` (`Game.cpp:841`) and fails
`assert(CanRemoveCard(card))` when it is taken the second time; a card that does not exist is a null pointer in
`validateAssemble` and in the casts with parts; a deck that does not exist is the `assert(0)` of
`DeckFromString` (`World.cpp:131`).

*Server.* `deleteGame` leaves the game in `session->games` (`Server.cpp:205`), so a
session that created and deleted many games is refused new ones. A write refused in
`makeTurn` leaves the move in memory: the next save skips a state in the history, and an
undo then takes two moves off the board and one off the list. The first move of a game can
never be undone (`l < 2`). A save that changes nothing is logged as an error, since the
number of *modified* documents is compared. A `deleteGame` whose write is made but
not answered leaves the game in the cache, played on without a document.
Neither joining nor starting a game changes the time of its last move, so pages of the
players who wait are not told.

*Page.* A rearranged hand gives the game no new time (`Game.cpp:542`). Where a load was begun
before it and is drawn after it, the page shows the old order, and since the time it keeps is
the present one no poll tells it otherwise (`client.js:613`); the next load does. Two changes in one millisecond, or a change and a load, have the same time, and a page that saw
the first is never told of the second: with `SameInstant = TRUE` TLC finds
`CatchesUp` violated. A page that leaves one game for another may draw a late answer for
the first. A poll that is answered 400 sets no timer, so a page on a deleted game stops
polling; that is harmless, and the reason why `Watching` speaks of games that are present.
