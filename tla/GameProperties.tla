--------------------------- MODULE GameProperties ---------------------------
(***************************************************************************)
(* What must be true of every game, whatever the players do.               *)
(***************************************************************************)
EXTENDS Game

TypeOK ==
    /\ flow \in FlowType
    /\ decks \in [DeckTypes -> SUBSET Cards]
    /\ hands \in [Seats -> SUBSET Cards] /\ table \in [Seats -> SUBSET Cards]
    /\ parts \in [Cards -> SUBSET Cards]
    /\ assembled \subseteq Cards /\ universal \subseteq Cards
    /\ DOMAIN closet = Piles /\ \A i \in Piles : closet[i] \in Seq(Cards)
    /\ spellsOnTop \in BOOLEAN
    /\ score \in [Seats -> -ScoreBound .. ScoreBound]
    /\ fault \in {"none", "HasCard", "CanRemoveCard", "NullCard", "UnknownDeck"}

\* In how many places a card is: decks, hands, closet, tables, parts of potions.
Copies(c) ==
    LET pile == closet[GetIngredient(c)]
    IN    Cardinality({d \in DeckTypes : c \in decks[d]})
        + Cardinality({s \in Seats : c \in hands[s]})
        + Cardinality({i \in DOMAIN pile : pile[i] = c})
        + Cardinality({s \in Seats : c \in table[s]})
        + Cardinality({x \in Cards : c \in parts[x]})

\* What Start deals from: without the expansion, the base deck only.
InPlay(box) == {c \in box : Expansion \/ DeckOf(c) = "base"}

\* No move, spell, crash or reload duplicates or loses a card; the only cards
\* that ever leave the game are Speedup spells once cast.
CardsConserved ==
    flow.turn # "Preparing" =>
        \E box \in Boxes : \A c \in Cards :
            \/ Copies(c) = IF c \in InPlay(box) THEN 1 ELSE 0
            \/ Copies(c) = 0 /\ SpellOf(c) = "speedup"

\* assembled_, assembledParts_ and assembledUsingUniversal_ of a card say the same
\* as the tables: the asserts of Card::Assemble and Player::RemoveAssembled hold.
TablesAgree ==
    /\ assembled = UNION {table[s] : s \in Seats}
    /\ \A c \in Cards : parts[c] # {} => c \in assembled
    /\ universal \subseteq assembled

\* A move the server would accept from u.  A card in the hand can at least be
\* discarded, so assembling and casting open no further situation.
CanMove(u) ==
    \/ Ordinary(u) /\ (ValidateSkip \/ flow.turn = "Done" \/ \E d \in DeckTypes : ValidateDraw(d))
    \/ MayPlay(u) /\ Hand # {}
    \/ MaySpecialSkip(u)
    \/ MaySpecialDraw(u)
    \/ \E c \in table[u] \cup hands[u] : MayDisassemble(u, c) \/ MayGive(u, c)
    \/ \E c \in Hand : \E ps \in DistinctParts(Len(Requirements(c))) : MaySpecialAssemble(u, c, ps)

TransfigureStuck == flow.special = "Transfiguring"
SpeedupStuck ==
    flow.turn = "DrawPlaying" /\ flow.extra > 0 /\ Hand = {} /\ ~DecksEmpty

\* Somebody can always move, save in two situations the rules cannot leave: a
\* Transfigure spell with nothing to assemble, and extra plays in the first half
\* of a turn with an empty hand while a deck has cards.
StuckOnlyWhenKnown ==
    \/ flow.turn = "Preparing" \/ fault # "none"
    \/ \E u \in Seats : CanMove(u)
    \/ TransfigureStuck \/ SpeedupStuck

\* Requests composed by pages that are up to date end the process in two ways only:
\* a Diversity draw from an empty deck, and a recipe one of whose parts is a
\* potion that has, among its own parts, a card of the pile another one is to be
\* taken from.  Whatever else is validated can be performed.  (Any other request
\* can end it in three more: a recipe that is not in the hand, a part named twice,
\* a card or deck that is unknown.)
PagesEndItInTwoWays ==
    ~AnyRequest =>
        /\ fault \in {"none", "NullCard", "CanRemoveCard"}
        /\ fault = "NullCard" =>
              flow.special = "DrawExtra" /\ \E d \in DeckTypes : decks[d] = {}
        /\ fault = "CanRemoveCard" =>
              \E p \in assembled : \E q \in parts[p], t \in Tops(closet) :
                  GetIngredient(q) = GetIngredient(t)

\* A part a requirement accepts in place of what it asks for.
StandsIn(r, p) ==
    IF r.type = "ingredient" THEN p \notin assembled /\ GetIngredient(p) = Magema
                             ELSE p \in assembled /\ p \in UniversalPotions

\* The parts can be laid out, one on each requirement: at most "skips" of them on
\* one they do not fit, and a stand-in for one ingredient and one recipe.
LaidOut(c, ps, skips) ==
    LET rs == Requirements(c)
    IN  \E lay \in {f \in [DOMAIN rs -> DOMAIN ps] : IsInjective(f)},
           amiss \in {S \in SUBSET DOMAIN rs : Cardinality(S) <= skips} :
          LET placed(i) == ps[lay[i]]
              odd == {i \in DOMAIN rs \ amiss : ~Matches(rs[i], placed(i), assembled)}
          IN  /\ \A i \in odd : StandsIn(rs[i], placed(i))
              /\ \A i, j \in odd : rs[i].type = rs[j].type => i = j

\* CanAssemble only asks that every requirement finds some part, yet of the lists
\* that name no card twice it accepts exactly those that can be laid out, as long
\* as no part fits two requirements of the recipe (then one part passes for two).
AcceptsWhatFits ==
    \A c \in {x \in Hand : IsRecipe(x)} : \A ps \in DistinctParts(Len(Requirements(c))) :
        LET rs == Requirements(c)
        IN  (\A p \in Range(ps), i, j \in DOMAIN rs :
                Matches(rs[i], p, assembled) /\ Matches(rs[j], p, assembled) => i = j)
              => \A skips \in 0 .. 1 :
                    CanAssemble(c, ps, skips, assembled) <=> LaidOut(c, ps, skips)

\* A card that leaves the closet was on top of its pile.
OnlyTopsLeave ==
    [][\A c \in InCloset(closet) \ InCloset(closet') : c \in Tops(closet)]_vars

\* A game that is loaded again keeps its potions and their parts, and the recipes
\* of every pile in their order: a recipe that could be taken still can.  (Spells
\* sink below the recipes, in reverse order, when the game has an expansion.)
ReloadKeeps ==
    [][Reload => /\ UNCHANGED <<parts, assembled, universal>>
                 /\ \A i \in Piles : RecipeOrder(closet'[i]) = RecipeOrder(closet[i])]_vars

\* The playing part of a turn begins with enough cards, unless none are left.
ReadyToPlay ==
    [][flow.turn = "Drawing" /\ flow'.turn # "Drawing" =>
          Cardinality(hands'[Active]) >= MinCardsInHand \/ DecksEmpty]_vars

\* Whoever loses a potion to another player's recipe earns at least half the
\* recipe's worth, unless every potion lost was made with a universal card and
\* the owner has no Generality talisman.
OwnersPaid ==
    [][\A s \in Seats \ {Active} : \A new \in table'[Active] \ table[Active] :
          LET lost == (table[s] \ table'[s]) \cap parts'[new]
          IN  lost # {} /\ (~(lost \subseteq universal) \/ HasTalisman(table[s], "generality"))
                => score'[s] >= score[s] + Worth(new) \div 2]_vars

\* A player who is not to move only earns points for potions taken from his
\* table, or one point for a Growth talisman when his turn comes: and that one
\* never makes him the sole leader.
NothingForNothing ==
    [][\A s \in Seats \ {Active} : score'[s] > score[s] =>
          \/ table[s] \ table'[s] # {}
          \/ /\ flow'.active = s /\ score'[s] = score[s] + 1
             /\ HasTalisman(table[s], "growth")
             /\ \E t \in Seats \ {s} : score'[t] >= score'[s]]_vars

\* Seen without the cards, a game is a behaviour of TurnFlow, for which the turn
\* and special-state properties are proved.
TF == INSTANCE TurnFlow
ImplementsTurnFlow == TF!Spec
-----------------------------------------------------------------------------
(* What asserts, comments and tests of the repository say, which the code   *)
(* does not do.                                                             *)

\* assert(p->HasCard(card)) in Game::assemble holds.
AssembledFromHand == fault # "HasCard"

\* assert(CanRemoveCard(card)) in Closet::RemoveCard holds.
RemovesOnlyTops == fault # "CanRemoveCard"

\* After a Whirpool round no potion has parts that stood on a table before it.  Only
\* the active player assembles during the round, so the potions of the others are
\* older than it.
WhirpoolTakesAllApart ==
    [][flow.special = "Disassembling" /\ flow'.special = "None" =>
          \A s \in Seats \ {Active} : \A c \in table[s] : parts[c] = {}]_vars
=============================================================================
