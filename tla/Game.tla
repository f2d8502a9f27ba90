-------------------------------- MODULE Game --------------------------------
(***************************************************************************)
(* Engine::Game: a whole game of potions, from Start on.  A move is one    *)
(* action: its guard is what ValidateMove asks, its effect what            *)
(* PerformMove does (the server runs the two in one handler, one handler   *)
(* at a time).  A move that is not valid is refused and changes nothing.   *)
(*                                                                         *)
(* The decks are shuffled once and drawn from the top; here they are sets, *)
(* and a draw takes any card of the set.  Hands are sets: their order is   *)
(* only changed by OrganizeHand and never read.                            *)
(*                                                                         *)
(* The debug build is modelled: an assert that fails, and a card pointer   *)
(* that is null when it is used, end the process; "fault" then names what  *)
(* ended it, and nothing happens until the game is loaded again.           *)
(***************************************************************************)
EXTENDS Turn, Cards, Closet

CONSTANTS
    Boxes,           \* the sets of cards a game may be played with; the program
                     \* has one, the cards of cards.json
    MinCardsInHand, MaxHandToDraw,      \* Rules.h, smaller in small instances
    InitialClosetSize, InitialHandSize,
    InitialExpansionClosetSize, InitialExpansionHandSize,
    Requests,        \* the ingredients players ask for with Necessity
    AnyRequest,      \* whether a request may be one that no page composes that
                     \* shows the game as it is: see PartLists and Nameable
    Restarts,        \* whether the server may restart
    ScoreBound       \* bound on the scores: moves beyond it are not explored

ASSUME GameAssumption ==
    /\ Boxes \subseteq SUBSET Cards
    /\ Requests \subseteq Requestable
    /\ AnyRequest \in BOOLEAN /\ Restarts \in BOOLEAN
    /\ ScoreBound \in Nat
ASSUME RulesAssumption ==
    /\ MinCardsInHand \in Nat /\ MaxHandToDraw \in Nat \ {0} /\ MinCardsInHand <= MaxHandToDraw
    /\ InitialClosetSize \in Nat /\ InitialHandSize \in Nat
    /\ InitialExpansionClosetSize \in Nat /\ InitialExpansionHandSize \in Nat

VARIABLES
    flow,          \* see Turn
    decks,         \* deck type -> set of cards
    hands,         \* player -> set of cards
    table,         \* player -> set of cards: assembledCards_
    parts,         \* card -> set of cards: assembledParts_
    assembled,     \* the cards whose assembled_ is set
    universal,     \* the cards whose assembledUsingUniversal_ is set
    closet,
    spellsOnTop,   \* Closet::spellsOnTop_
    score,         \* player -> score_
    fault          \* "none", or what ended the process

cardVars == <<decks, hands, table, parts, assembled, universal, closet>>
vars == <<flow, cardVars, spellsOnTop, score, fault>>

Active == flow.active
Hand == hands[Active]
DecksEmpty == \A d \in DeckTypes : decks[d] = {}

\* Any order of a set: the code walks std::set<Card*> in address order.
Orders(S) == SetToSeqs(S)

\* An order for the parts of each of several potions.
PartOrders(S) ==
    {f \in [S -> UNION {Orders(parts[p]) : p \in S}] : \A p \in S : f[p] \in Orders(parts[p])}

\* What passes the loop over the parts in validateAssemble.
Offered == assembled \cup Tops(closet)
DistinctParts(n) == {ps \in [1 .. n -> Offered] : Cardinality(Range(ps)) = n}

\* addPart does not look for the card among those chosen already.
FaultyPartLists(n) == [1 .. n -> Offered]

\* Lists of n parts.  A page that is up to date offers what lies on the tables and
\* on the piles, each card once (addPart in client.js); the server takes any list.
PartLists(n) == IF AnyRequest THEN [1 .. n -> Offered] ELSE DistinctParts(n)

\* The cards a request names as the one to assemble: on a page that is up to date,
\* one of the hand.
Nameable == IF AnyRequest THEN Cards ELSE Hand

Fault(why) == fault' = why /\ UNCHANGED <<flow, cardVars, spellsOnTop, score>>
NoFault == UNCHANGED <<spellsOnTop, fault>>

\* Moves that would take a score beyond the bound are not explored.
ScoresBecome(f) == score' = f /\ \A s \in Seats : f[s] \in -ScoreBound .. ScoreBound

Init ==
    /\ flow = InitFlow
    /\ decks = [d \in DeckTypes |-> {}]
    /\ hands = [s \in Seats |-> {}]
    /\ table = [s \in Seats |-> {}]
    /\ parts = [c \in Cards |-> {}]
    /\ assembled = {} /\ universal = {}
    /\ closet = EmptyCloset
    /\ spellsOnTop = FALSE     \* Init runs before createGame adds the expansion
    /\ score = [s \in Seats |-> 0]
    /\ fault = "none"
-----------------------------------------------------------------------------
(* Start: every deck is shuffled, then fills the closet and deals a hand.  *)

Deals(deck, k, h) ==
    {[shelf |-> s, dealt |-> d] :
        s \in {t \in [1 .. k -> deck] : Cardinality(Range(t)) = k},
        d \in [Seats -> kSubset(h, deck)]}

FairDeals(deck, k, h) ==
    {x \in Deals(deck, k, h) :
        /\ \A s \in Seats : x.dealt[s] \cap Range(x.shelf) = {}
        /\ \A s, t \in Seats : s # t => x.dealt[s] \cap x.dealt[t] = {}}

StartWith(box) ==
    LET base == {c \in box : DeckOf(c) = "base"}
        uni == IF Expansion THEN box \ base ELSE {}
    IN  /\ flow.turn = "Preparing" /\ fault = "none"
        /\ \E x \in FairDeals(base, InitialClosetSize, InitialHandSize),
              y \in FairDeals(uni, IF Expansion THEN InitialExpansionClosetSize ELSE 0,
                                   IF Expansion THEN InitialExpansionHandSize ELSE 0) :
             /\ closet' = AddCards(closet, x.shelf \o y.shelf, spellsOnTop)
             /\ hands' = [s \in Seats |-> x.dealt[s] \cup y.dealt[s]]
             /\ decks' = [d \in DeckTypes |->
                            (IF d = "base" THEN base ELSE uni)
                                \ (InCloset(closet') \cup UNION {hands'[s] : s \in Seats})]
        /\ flow' = [flow EXCEPT !.turn = "Drawing"]
        /\ UNCHANGED <<table, parts, assembled, universal, score>> /\ NoFault

Start == \E box \in Boxes : StartWith(box)
-----------------------------------------------------------------------------
(* Moves outside special states. *)

Ordinary(u) == fault = "none" /\ flow.special = "None" /\ u = Active
MayPlay(u) == Ordinary(u) /\ flow.turn \in PlayPhases

\* Every draw ends the drawing phase.
FaultyDrawCard(d) ==
    \E c \in decks[d] :
        /\ decks' = [decks EXCEPT ![d] = @ \ {c}]
        /\ hands' = [hands EXCEPT ![Active] = @ \cup {c}]
        /\ flow' = Advance(flow)
        /\ UNCHANGED <<table, parts, assembled, universal, closet, score>> /\ NoFault

\* drawCard: the card goes to the active player, whoever asked.
DrawCard(d) ==
    \E c \in decks[d] :
        /\ decks' = [decks EXCEPT ![d] = @ \ {c}]
        /\ hands' = [hands EXCEPT ![Active] = @ \cup {c}]
        /\ flow' = IF flow.special = "DrawExtra" \/ Cardinality(Hand) + 1 >= MinCardsInHand
                   THEN Advance(flow) ELSE flow
        /\ UNCHANGED <<table, parts, assembled, universal, closet, score>> /\ NoFault

MayDraw ==
    /\ flow.turn \in {"Drawing", "DrawPlaying"}
    /\ flow.extra = 0
    /\ Cardinality(Hand) < MaxHandToDraw

\* The deck of an expansion that is not played is missing, here empty: decks_.at
\* throws, and the request changes nothing.
ValidateDraw(d) == MayDraw /\ decks[d] # {}

Draw(u, d) == Ordinary(u) /\ ValidateDraw(d) /\ DrawCard(d)

\* Skipping a draw does not ask for empty decks; it is not allowed in DrawPlaying.
FaultyValidateSkip ==
    \/ flow.turn = "Drawing" /\ Cardinality(Hand) >= MaxHandToDraw
    \/ flow.turn = "DrawPlaying" /\ Hand = {} /\ DecksEmpty
    \/ flow.turn = "Playing" /\ Hand = {}
StrictValidateSkip ==
    \/ flow.turn = "Drawing" /\ (Cardinality(Hand) >= MaxHandToDraw \/ DecksEmpty)
    \/ flow.turn = "Playing" /\ Hand = {}

ValidateSkip ==
    \/ flow.turn = "Drawing" /\ (Cardinality(Hand) >= MaxHandToDraw \/ DecksEmpty)
    \/ flow.turn = "DrawPlaying" /\ Hand = {} /\ DecksEmpty
    \/ flow.turn = "Playing" /\ Hand = {}

Skip(u) ==
    /\ Ordinary(u) /\ ValidateSkip
    /\ flow' = Advance(flow)
    /\ UNCHANGED <<cardVars, score>> /\ NoFault

\* discardCard: a point for the first card of a pile, or for the talisman.
DiscardScores(c) ==
    \/ ~HasIngredient(closet, GetIngredient(c)) /\ c \notin UniversalIngredients
    \/ HasTalisman(table[Active], "usefulness")

Discard(u, c) ==
    /\ MayPlay(u) /\ c \in Hand
    /\ ScoresBecome(IF DiscardScores(c) THEN [score EXCEPT ![Active] = @ + 1] ELSE score)
    /\ hands' = [hands EXCEPT ![Active] = @ \ {c}]
    /\ closet' = AddCard(closet, c, spellsOnTop)
    /\ flow' = Advance(flow)
    /\ UNCHANGED <<decks, table, parts, assembled, universal>> /\ NoFault
-----------------------------------------------------------------------------
(* Assembling. *)

\* A potion used as a part stays on its owner's table; an owner is only paid for
\* potions made with universal cards.
GreedyTakePart(w, p, order) ==
    IF p \in w.assembled
    THEN [w EXCEPT !.closet = AddCards(w.closet, order[p], spellsOnTop),
                   !.assembled = w.assembled \ {p},
                   !.share = [s \in Seats |-> IF p \in w.table[s] THEN 1 ELSE w.share[s]]]
    ELSE [w EXCEPT !.ok = w.ok /\ CanRemoveCard(w.closet, p),
                   !.closet = IF CanRemoveCard(w.closet, p) THEN RemoveCard(w.closet, p) ELSE @]
UnpaidTakePart(w, p, order) ==
    IF p \in w.assembled
    THEN [w EXCEPT !.closet = AddCards(w.closet, order[p], spellsOnTop),
                   !.table = [s \in Seats |-> w.table[s] \ {p}],
                   !.assembled = w.assembled \ {p},
                   !.share = [s \in Seats |->
                       IF p \in w.table[s] /\ p \in universal THEN 1 ELSE w.share[s]]]
    ELSE [w EXCEPT !.ok = w.ok /\ CanRemoveCard(w.closet, p),
                   !.closet = IF CanRemoveCard(w.closet, p) THEN RemoveCard(w.closet, p) ELSE @]

\* The loop of assemble over the parts.  A potion leaves its owner, who earns a
\* share, and its own parts return to the closet at once; an ingredient is then
\* taken from the closet as it is at that moment.  What is named twice is gone the
\* second time: a potion then counts as an ingredient, and no pile has it on top.
TakePart(w, p, order) ==
    IF p \in w.assembled
    THEN [w EXCEPT
            !.closet = AddCards(w.closet, order[p], spellsOnTop),
            !.table = [s \in Seats |-> w.table[s] \ {p}],
            !.assembled = w.assembled \ {p},
            !.share = [s \in Seats |->
                IF p \notin w.table[s] THEN w.share[s]
                ELSE IF HasTalisman(w.table[s], "generality") THEN w.share[s] + 1
                ELSE IF p \notin universal THEN 1 ELSE w.share[s]]]
    ELSE [w EXCEPT
            !.ok = w.ok /\ CanRemoveCard(w.closet, p),
            !.closet = IF CanRemoveCard(w.closet, p) THEN RemoveCard(w.closet, p) ELSE @]

TakeParts(ps, order) ==
    LET taken[n \in 0 .. Len(ps)] ==
            IF n = 0
            THEN [closet |-> closet, table |-> table, assembled |-> assembled,
                  share |-> [s \in Seats |-> 0], ok |-> TRUE]
            ELSE TakePart(taken[n - 1], ps[n], order)
    IN  taken[Len(ps)]

UsesUniversal(ps) ==
    \E p \in Range(ps) : IF p \in assembled THEN p \in UniversalRecipes
                                            ELSE p \in UniversalIngredients

\* assemble: the active player earns the worth of the card, the others half of
\* it per share.
PerformAssemble(c, ps) ==
    IF c \notin Hand THEN Fault("HasCard") ELSE
    \E order \in PartOrders(Range(ps)) :
        LET w == TakeParts(ps, order)
        IN  IF ~w.ok THEN Fault("CanRemoveCard") ELSE
            /\ closet' = w.closet
            /\ table' = [w.table EXCEPT ![Active] = @ \cup {c}]
            /\ ScoresBecome([s \in Seats |->
                    score[s] + (IF s = Active THEN Worth(c) ELSE (w.share[s] * Worth(c)) \div 2)])
            /\ hands' = [hands EXCEPT ![Active] = @ \ {c}]
            /\ parts' = [x \in Cards |->
                    IF x = c THEN Range(ps) ELSE IF x \in Range(ps) THEN {} ELSE parts[x]]
            /\ assembled' = w.assembled \cup {c}
            /\ universal' = (universal \ Range(ps)) \cup (IF UsesUniversal(ps) THEN {c} ELSE {})
            /\ flow' = Advance(flow)
            /\ UNCHANGED decks /\ NoFault

PartsAvailable(ps) == \A p \in Range(ps) : p \in assembled \/ CanRemoveCard(closet, p)

\* validateAssemble does not look for the card in the hand.
Assemble(u, c, ps) ==
    /\ MayPlay(u)
    /\ PartsAvailable(ps)
    /\ CanAssemble(c, ps, 0, assembled)
    /\ PerformAssemble(c, ps)
-----------------------------------------------------------------------------
(* The end of a turn. *)

\* The bonus does not depend on who is ahead.
FaultyTalismanBonus(who, t, behind) == IF HasTalisman(table[who], t) THEN 1 ELSE 0

\* checkIncomeTalisman for the player whose turn ends, then
\* checkGrowthTalisman for the next, who sees the score the first has now.
TalismanBonus(who, t, behind) == IF HasTalisman(table[who], t) /\ behind THEN 1 ELSE 0

EndTurn(u) ==
    LET next == NextSeat(Active)
        income == TalismanBonus(Active, "income",
                    \E s \in Seats : Cardinality(table[s]) > Cardinality(table[Active]))
        paid == [score EXCEPT ![Active] = @ + income]
        growth == TalismanBonus(next, "growth", \E s \in Seats : paid[s] > paid[next])
    IN  /\ Ordinary(u) /\ flow.turn = "Done"
        /\ ScoresBecome([paid EXCEPT ![next] = @ + growth])
        /\ flow' = PassTurn(flow)
        /\ UNCHANGED cardVars /\ NoFault
-----------------------------------------------------------------------------
(* Spells.  Casting sends the spell to the closet, except where noted. *)

MayCast(u, c, spell) == MayPlay(u) /\ c \in Hand /\ IsSpell(c) /\ SpellOf(c) = spell

Spent(c) == hands' = [hands EXCEPT ![Active] = @ \ {c}]
Shelve(cs) == closet' = AddCards(closet, cs, spellsOnTop)
TableUnchanged == UNCHANGED <<table, parts, assembled, universal>>

\* The potion taken apart keeps its assembled flag.
FaultyCastTransform(u, c, new, old) ==
    /\ MayCast(u, c, "transform")
    /\ CanRemoveCard(closet, new) /\ IsRecipe(new) /\ old \in table[Active]
    /\ \E order \in Orders(parts[old]) :
         closet' = AddCards(RemoveCard(closet, new), <<c>> \o order \o <<old>>, spellsOnTop)
    /\ table' = [table EXCEPT ![Active] = (@ \cup {new}) \ {old}]
    /\ parts' = [parts EXCEPT ![old] = {}]
    /\ assembled' = assembled \cup {new}
    /\ universal' = universal \ {old, new}
    /\ Spent(c)
    /\ UNCHANGED <<flow, decks, score>> /\ NoFault

\* A recipe of the closet takes the place of one of the caster's, which is
\* taken apart.
CastTransform(u, c, new, old) ==
    /\ MayCast(u, c, "transform")
    /\ CanRemoveCard(closet, new) /\ IsRecipe(new) /\ old \in table[Active]
    /\ \E order \in Orders(parts[old]) :
         closet' = AddCards(RemoveCard(closet, new), <<c>> \o order \o <<old>>, spellsOnTop)
    /\ table' = [table EXCEPT ![Active] = (@ \cup {new}) \ {old}]
    /\ parts' = [parts EXCEPT ![old] = {}]
    /\ assembled' = (assembled \cup {new}) \ {old}
    /\ universal' = universal \ {old, new}
    /\ Spent(c)
    /\ UNCHANGED <<flow, decks, score>> /\ NoFault

\* A card of the closet comes to the hand in exchange for the spell.
Exchange(c, card) ==
    /\ CanRemoveCard(closet, card)
    /\ closet' = AddCard(RemoveCard(closet, card), c, spellsOnTop)
    /\ hands' = [hands EXCEPT ![Active] = (@ \ {c}) \cup {card}]
    /\ TableUnchanged /\ UNCHANGED <<decks, score>> /\ NoFault

CastReveal(u, c, card) ==
    /\ MayCast(u, c, "reveal") /\ IsRecipe(card)
    /\ Exchange(c, card) /\ UNCHANGED flow

CastGlobalReveal(u, c, card) ==
    /\ MayCast(u, c, "globalreveal")
    /\ Exchange(c, card) /\ flow' = Advance(flow)

CastMagicReveal(u, c, card) ==
    /\ MayCast(u, c, "magicreveal") /\ IsSpell(card)
    /\ Exchange(c, card) /\ UNCHANGED flow

\* One of the caster's potions is taken apart; the recipe "keep" among its
\* parts stays on the table as a potion without parts.
CastDestroy(u, c, keep, whole) ==
    /\ MayCast(u, c, "destroy")
    /\ IsRecipe(keep) /\ whole \in table[Active] /\ keep \in parts[whole]
    /\ \E order \in Orders(parts[whole] \ {keep}) : Shelve(<<c>> \o order \o <<whole>>)
    /\ table' = [table EXCEPT ![Active] = (@ \cup {keep}) \ {whole}]
    /\ parts' = [parts EXCEPT ![whole] = {}]
    /\ assembled' = (assembled \cup {keep}) \ {whole}
    /\ universal' = universal \ {whole, keep}
    /\ Spent(c)
    /\ UNCHANGED <<flow, decks, score>> /\ NoFault

\* A recipe from the hand or the closet is put on the table without parts.
CastCreate(u, c, new) ==
    /\ MayCast(u, c, "create") /\ IsRecipe(new)
    /\ \/ /\ new \in Hand
          /\ closet' = AddCard(closet, c, spellsOnTop)
          /\ hands' = [hands EXCEPT ![Active] = @ \ {c, new}]
       \/ /\ new \notin Hand /\ CanRemoveCard(closet, new)
          /\ closet' = AddCard(RemoveCard(closet, new), c, spellsOnTop)
          /\ Spent(c)
    /\ table' = [table EXCEPT ![Active] = @ \cup {new}]
    /\ assembled' = assembled \cup {new}
    /\ universal' = universal \ {new}
    /\ flow' = Advance(flow)
    /\ UNCHANGED <<parts, decks, score>> /\ NoFault

\* A critter or great recipe, whoever owns it, is taken apart; the caster gets
\* the part "loot".
CastOverthrow(u, c, loot, owner, whole) ==
    /\ MayCast(u, c, "overthrow")
    /\ whole \in table[owner] /\ loot \in parts[whole] /\ Overthrowable(whole)
    /\ \E order \in Orders(parts[whole] \ {loot}) : Shelve(<<c>> \o order \o <<whole>>)
    /\ table' = [table EXCEPT ![owner] = @ \ {whole}]
    /\ parts' = [parts EXCEPT ![whole] = {}]
    /\ assembled' = assembled \ {whole}
    /\ universal' = universal \ {whole}
    /\ hands' = [hands EXCEPT ![Active] = (@ \ {c}) \cup {loot}]
    /\ flow' = Advance(flow)
    /\ UNCHANGED <<decks, score>> /\ NoFault

\* The second critter is not put back.
FaultyForestReturns(a, b, order) == order[a] \o <<a>> \o order[b]

\* A critter named twice is on no table the second time.
ForestReturns(a, b, order) ==
    order[a] \o <<a>> \o (IF b = a THEN <<>> ELSE order[b] \o <<b>>)
ForestScores(a, b) ==
    [s \in Seats |-> score[s] + 2 * Cardinality({a, b} \cap table[s])
                             + (IF s = Active THEN 10 ELSE 0)]

\* Two critters are taken apart; their owners earn 2 each, the caster 10.  Only
\* the page sees to it that they are two.
CastForest(u, c, a, b) ==
    /\ MayCast(u, c, "forest")
    /\ a = b => AnyRequest
    /\ {a, b} \subseteq Critters
    /\ \A x \in {a, b} : \E s \in Seats : x \in table[s]
    /\ \E order \in PartOrders({a, b}) : Shelve(<<c>> \o ForestReturns(a, b, order))
    /\ table' = [s \in Seats |-> table[s] \ {a, b}]
    /\ parts' = [parts EXCEPT ![a] = {}, ![b] = {}]
    /\ assembled' = assembled \ {a, b}
    /\ universal' = universal \ {a, b}
    /\ ScoresBecome(ForestScores(a, b))
    /\ Spent(c)
    /\ flow' = Advance(flow)
    /\ UNCHANGED decks /\ NoFault

\* A player who is ahead loses 5 points and gets the spell.
CastConcience(u, c, target) ==
    /\ MayCast(u, c, "concience")
    /\ score[target] > score[Active]
    /\ ScoresBecome([score EXCEPT ![target] = @ - 5])
    /\ hands' = [hands EXCEPT ![Active] = @ \ {c}, ![target] = @ \cup {c}]
    /\ flow' = Advance(flow)
    /\ TableUnchanged /\ UNCHANGED <<decks, closet>> /\ NoFault

\* Casting Speedup is a play itself.
FaultyCastSpeedup(u, c) ==
    /\ MayCast(u, c, "speedup")
    /\ Spent(c)
    /\ flow' = Advance(GrantPlays(flow))
    /\ TableUnchanged /\ UNCHANGED <<decks, closet, score>> /\ NoFault

\* Speedup is the one spell that goes nowhere.
CastSpeedup(u, c) ==
    /\ MayCast(u, c, "speedup")
    /\ Spent(c)
    /\ flow' = GrantPlays(flow)
    /\ TableUnchanged /\ UNCHANGED <<decks, closet, score>> /\ NoFault

\* The four spells that open a special state.
OpenWith(u, c, spell, f) ==
    /\ MayCast(u, c, spell)
    /\ Spent(c) /\ Shelve(<<c>>)
    /\ flow' = f
    /\ TableUnchanged /\ UNCHANGED <<decks, score>> /\ NoFault

\* The caster is asked first.
FaultyCastNecessity(u, c, i) ==
    OpenWith(u, c, "necessity", [OpenNecessity(flow, i) EXCEPT !.idx = Active])

CastWhirpool(u, c) == OpenWith(u, c, "whirpool", OpenWhirpool(flow))
CastNecessity(u, c, i) == OpenWith(u, c, "necessity", OpenNecessity(flow, i))
CastTransfigure(u, c) == OpenWith(u, c, "transfigure", OpenTransfigure(flow))
CastDiversity(u, c) == OpenWith(u, c, "diversity", OpenDiversity(flow))
-----------------------------------------------------------------------------
(* Moves during a special state. *)

Asked(u, state) == fault = "none" /\ flow.special = state /\ u = flow.idx

\* performDisassemble: the card stays assembled, without parts.
MayDisassemble(u, c) == Asked(u, "Disassembling") /\ c \in table[u] /\ parts[c] # {}

\* The parts are put back and kept.
FaultyDisassemble(u, c) ==
    /\ MayDisassemble(u, c)
    /\ \E order \in Orders(parts[c]) : Shelve(order)
    /\ UNCHANGED <<flow, decks, hands, table, parts, assembled, universal, score>> /\ NoFault

Disassemble(u, c) ==
    /\ MayDisassemble(u, c)
    /\ \E order \in Orders(parts[c]) : Shelve(order)
    /\ parts' = [parts EXCEPT ![c] = {}]
    /\ UNCHANGED <<flow, decks, hands, table, assembled, universal, score>> /\ NoFault

\* Nobody may decline to give.
FaultyMaySpecialSkip(u) ==
    \/ Asked(u, "DrawExtra")
    \/ Asked(u, "Disassembling") /\ \A c \in table[u] : parts[c] = {}

\* validateSpecialEndTurn
MaySpecialSkip(u) ==
    \/ Asked(u, "DrawExtra")
    \/ Asked(u, "Disassembling") /\ \A c \in table[u] : parts[c] = {}
    \/ Asked(u, "Giving") /\ \A c \in hands[u] : GetIngredient(c) # flow.ingredient

SpecialSkip(u) ==
    /\ MaySpecialSkip(u)
    /\ flow' = Advance(flow)
    /\ UNCHANGED <<cardVars, score>> /\ NoFault

\* performSpecialDiscard
MayGive(u, c) == Asked(u, "Giving") /\ c \in hands[u] /\ GetIngredient(c) = flow.ingredient

Give(u, c) ==
    /\ MayGive(u, c)
    /\ hands' = [hands EXCEPT ![u] = @ \ {c}]
    /\ Shelve(<<c>>)
    /\ flow' = [flow EXCEPT !.special = "None"]
    /\ TableUnchanged /\ UNCHANGED <<decks, score>> /\ NoFault

\* validateSpecialAssembly asks for the card, not for the special state.
MaySpecialAssemble(u, c, ps) ==
    /\ fault = "none" /\ flow.special # "None" /\ u = Active
    /\ c \in Hand
    /\ PartsAvailable(ps)
    /\ CanAssemble(c, ps, 1, assembled)

SpecialAssemble(u, c, ps) == MaySpecialAssemble(u, c, ps) /\ PerformAssemble(c, ps)

\* validateSpecialMove asks neither who draws nor whether the deck has a card;
\* getTopCard then yields a null card, which ends the process when the hand is
\* written to the database.
MaySpecialDraw(u) == fault = "none" /\ flow.special = "DrawExtra" /\ flow.remains > 0

SpecialDraw(u, d) ==
    /\ MaySpecialDraw(u)
    /\ IF decks[d] = {} THEN Fault("NullCard") ELSE DrawCard(d)
-----------------------------------------------------------------------------
(* Requests that name a card or a deck the server does not know.  Where a    *)
(* hand or a table is searched for such a card they are refused.             *)

\* GetCard yields a null card.  validateAssemble uses it, as a part or as the
\* recipe, and so do the validateCast functions of the spells with parts, save
\* Overthrow; validateSpecialAssembly looks for the recipe in the hand first.
UnknownCard(u) ==
    /\ AnyRequest
    /\ \/ MayPlay(u)
       \/ fault = "none" /\ flow.special # "None" /\ u = Active /\ Hand # {}
    /\ Fault("NullCard")

\* DeckFromString ends in assert(0): in validateDraw, which asks first whether a
\* card may be drawn, and for Diversity when the move is performed.  A deck of an
\* expansion that is not played has no card for Diversity to draw.
UnknownDeck(u) ==
    /\ AnyRequest
    /\ \/ Ordinary(u) /\ MayDraw /\ Fault("UnknownDeck")
       \/ MaySpecialDraw(u) /\ (Fault("UnknownDeck") \/ Fault("NullCard"))
-----------------------------------------------------------------------------
(* The server ends, or drops the game from memory, and loads it again: the *)
(* assembled flags are the tables', the closet is rebuilt card by card.    *)
Reload ==
    LET tables == UNION {table[s] : s \in Seats}
    IN  /\ Restarts
        /\ closet' = Reloaded(closet)
        /\ spellsOnTop' = Expansion
        /\ assembled' = tables
        /\ universal' = universal \cap tables
        /\ parts' = [c \in Cards |-> IF c \in tables THEN parts[c] ELSE {}]
        /\ fault' = "none"
        /\ UNCHANGED <<flow, decks, hands, table, score>>
-----------------------------------------------------------------------------
(* The next move.  A request names a user, a card of that user and the      *)
(* cards it concerns; enumerating more of them only adds refused moves, and  *)
(* with AnyRequest those a page does not send.                               *)

Next ==
    \/ Start
    \/ \E u \in Seats, d \in DeckTypes : Draw(u, d)
    \/ \E u \in Seats : Skip(u)
    \/ \E u \in Seats, c \in Cards : Discard(u, c)
    \/ \E u \in Seats, c \in Nameable : \E ps \in PartLists(Len(Requirements(c))) :
          Assemble(u, c, ps)
    \/ \E u \in Seats : EndTurn(u)
    \/ \E u \in Seats, c \in Hand, new \in Tops(closet), old \in table[Active] :
          CastTransform(u, c, new, old)
    \/ \E u \in Seats, c \in Hand, x \in Tops(closet) : CastReveal(u, c, x)
    \/ \E u \in Seats, c \in Hand, x \in Tops(closet) : CastGlobalReveal(u, c, x)
    \/ \E u \in Seats, c \in Hand, x \in Tops(closet) : CastMagicReveal(u, c, x)
    \/ \E u \in Seats, c \in Hand, whole \in assembled : \E keep \in parts[whole] :
          CastDestroy(u, c, keep, whole)
    \/ \E u \in Seats, c \in Hand, new \in Hand \cup Tops(closet) : CastCreate(u, c, new)
    \/ \E u, s \in Seats, c \in Hand, whole \in assembled : \E loot \in parts[whole] :
          CastOverthrow(u, c, loot, s, whole)
    \/ \E u \in Seats, c \in Hand, a, b \in assembled : CastForest(u, c, a, b)
    \/ \E u, t \in Seats, c \in Hand : CastConcience(u, c, t)
    \/ \E u \in Seats, c \in Hand : CastSpeedup(u, c)
    \/ \E u \in Seats, c \in Hand : CastWhirpool(u, c)
    \/ \E u \in Seats, c \in Hand, i \in Requests : CastNecessity(u, c, i)
    \/ \E u \in Seats, c \in Hand : CastTransfigure(u, c)
    \/ \E u \in Seats, c \in Hand : CastDiversity(u, c)
    \/ \E u \in Seats, c \in assembled : Disassemble(u, c)
    \/ \E u \in Seats : SpecialSkip(u)
    \/ \E u \in Seats, c \in Cards : Give(u, c)
    \/ \E u \in Seats, c \in Hand : \E ps \in PartLists(Len(Requirements(c))) :
          SpecialAssemble(u, c, ps)
    \/ \E u \in Seats, d \in DeckTypes : SpecialDraw(u, d)
    \/ \E u \in Seats : UnknownCard(u)
    \/ \E u \in Seats : UnknownDeck(u)
    \/ Reload

Spec == Init /\ [][Next]_vars
=============================================================================
