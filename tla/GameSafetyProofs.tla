-------------------------- MODULE GameSafetyProofs --------------------------
(***************************************************************************)
(* The safety of a whole game, for every set of cards, number of players   *)
(* and size of the rules: types, conservation of the cards, agreement of   *)
(* the tables, what leaves the closet, what a load keeps, what is paid and *)
(* what CanAssemble accepts.  The inductive invariant is Placed:           *)
(* a placement of the cards exists (CardProofs), in which nothing is dealt *)
(* before Start and afterwards only Speedup spells are gone.               *)
(***************************************************************************)
EXTENDS CardProofs

\* A position of the cards that a game can reach.
Placed ==
    \E k, w : /\ Laid(k, w)
              /\ IF flow.turn = "Preparing" THEN \A c \in Cards : k[c] = "gone"
                                            ELSE \E box \in Boxes : Accounted(k, box)

\* Every move but Start carries the cards from one placement to another.
LEMMA MovesCarry ==
  ASSUME NEW k, NEW w, Laid(k, w), TFP!Legal(flow), Next, ~ Start
  PROVE  Carried(k)
<1>1. Active \in Seats
  BY DEF Active, TFP!Legal, TFP!FlowType, TFP!Seats, Seats
<1>2. /\ Hand \subseteq Cards /\ Nameable \subseteq Cards /\ Tops(closet) \subseteq Cards
      /\ \A s \in Seats : hands[s] \subseteq Cards
  BY <1>1, TopsInCloset DEF Hand, Nameable, Laid, CardsTyped
<1>3. CASE UNCHANGED cardVars
  BY <1>3, CardsUnchanged
<1>4. CASE \E u \in Seats, d \in DeckTypes : Draw(u, d) \/ SpecialDraw(u, d)
  <2>1. PICK d \in DeckTypes : DrawCard(d) \/ UNCHANGED cardVars
    BY <1>4 DEF Draw, SpecialDraw, Fault
  <2> QED BY <1>1, <1>3, <2>1, DrawCarries
<1>5. CASE \E u \in Seats :
             Skip(u) \/ EndTurn(u) \/ SpecialSkip(u) \/ UnknownCard(u) \/ UnknownDeck(u)
  BY <1>3, <1>5 DEF Skip, EndTurn, SpecialSkip, UnknownCard, UnknownDeck, Fault
<1>6. CASE \E u \in Seats, c \in Cards : Discard(u, c)
  BY <1>1, <1>6, DiscardCarries
<1>7. CASE \E u \in Seats, c \in Nameable : \E ps \in PartLists(Len(Requirements(c))) :
             Assemble(u, c, ps)
  <2>1. PICK c \in Cards : \E ps \in PartLists(Len(Requirements(c))) : PerformAssemble(c, ps)
    BY <1>2, <1>7 DEF Assemble
  <2>2. PICK ps \in PartLists(Len(Requirements(c))) : PerformAssemble(c, ps)
    BY <2>1
  <2> QED BY <1>1, <2>2, AssembleCarries
<1>8. CASE \E u \in Seats, c \in Hand : \E ps \in PartLists(Len(Requirements(c))) :
             SpecialAssemble(u, c, ps)
  <2>1. PICK c \in Cards : \E ps \in PartLists(Len(Requirements(c))) : PerformAssemble(c, ps)
    BY <1>2, <1>8 DEF SpecialAssemble
  <2>2. PICK ps \in PartLists(Len(Requirements(c))) : PerformAssemble(c, ps)
    BY <2>1
  <2> QED BY <1>1, <2>2, AssembleCarries
<1>9. CASE \E u \in Seats, c \in Hand, new \in Tops(closet), old \in table[Active] :
             CastTransform(u, c, new, old)
  BY <1>1, <1>2, <1>9, TransformCarries
<1>10. CASE \E u \in Seats, c \in Hand, x \in Tops(closet) :
              CastReveal(u, c, x) \/ CastGlobalReveal(u, c, x) \/ CastMagicReveal(u, c, x)
  <2>1. PICK c \in Hand, x \in Cards : Exchange(c, x)
    BY <1>2, <1>10 DEF CastReveal, CastGlobalReveal, CastMagicReveal
  <2> QED BY <1>1, <2>1, ExchangeCarries
<1>11. CASE \E u \in Seats, c \in Hand, whole \in assembled : \E keep \in parts[whole] :
              CastDestroy(u, c, keep, whole)
  BY <1>1, <1>11, DestroyCarries
<1>12. CASE \E u \in Seats, c \in Hand, new \in Hand \cup Tops(closet) : CastCreate(u, c, new)
  BY <1>1, <1>2, <1>12, CreateCarries
<1>13. CASE \E u, s \in Seats, c \in Hand, whole \in assembled : \E loot \in parts[whole] :
              CastOverthrow(u, c, loot, s, whole)
  BY <1>1, <1>13, OverthrowCarries
<1>14. CASE \E u \in Seats, c \in Hand, a, b \in assembled : CastForest(u, c, a, b)
  BY <1>1, <1>14, ForestCarries
<1>15. CASE \E u, t \in Seats, c \in Hand : CastConcience(u, c, t)
  BY <1>1, <1>15, ConcienceCarries
<1>16. CASE \E u \in Seats, c \in Hand : CastSpeedup(u, c)
  BY <1>1, <1>16, SpeedupCarries
<1>17. ASSUME NEW s \in Seats, NEW c \in hands[s], hands' = [hands EXCEPT ![s] = @ \ {c}],
              Shelve(<<c>>), TableUnchanged, UNCHANGED decks
       PROVE  Carried(k)
  BY <1>17, ShelveOneCarries DEF TableUnchanged
<1>18. CASE \E u \in Seats, c \in Hand :
              \/ CastWhirpool(u, c) \/ CastTransfigure(u, c) \/ CastDiversity(u, c)
              \/ \E i \in Requests : CastNecessity(u, c, i)
  <2>1. PICK c \in hands[Active] :
          /\ hands' = [hands EXCEPT ![Active] = @ \ {c}]
          /\ Shelve(<<c>>) /\ TableUnchanged /\ UNCHANGED decks
    BY <1>18 DEF CastWhirpool, CastNecessity, CastTransfigure, CastDiversity, OpenWith, Spent, Hand
  <2> QED BY <1>1, <1>17, <2>1
<1>19. CASE \E u \in Seats, c \in Cards : Give(u, c)
  <2>1. PICK u \in Seats, c \in Cards : Give(u, c)
    BY <1>19
  <2>2. /\ c \in hands[u] /\ hands' = [hands EXCEPT ![u] = @ \ {c}]
        /\ Shelve(<<c>>) /\ TableUnchanged /\ UNCHANGED decks
    BY <2>1 DEF Give, MayGive
  <2> QED BY <1>17, <2>2
<1>20. CASE \E u \in Seats, c \in assembled : Disassemble(u, c)
  BY <1>20, DisassembleCarries
<1>21. CASE Reload
  BY <1>21, ReloadCarries
<1> QED BY <1>4, <1>5, <1>6, <1>7, <1>8, <1>9, <1>10, <1>11, <1>12, <1>13, <1>14, <1>15, <1>16,
   <1>18, <1>19, <1>20, <1>21 DEF Next

\* A game begins with Start alone.
LEMMA OnlyStartBegins ==
  ASSUME TFP!Legal(flow), Next, ~ Start, flow.turn = "Preparing"
  PROVE  flow' = flow
<1>1. flow.special = "None"
  BY DEF TFP!Legal, TFP!LegalPhase, TFP!PlayPhases
<1>2. \A u : ~ MayPlay(u)
  BY DEF MayPlay, PlayPhases
<1>3. /\ \A d : ~ ValidateDraw(d)
      /\ ~ ValidateSkip
  BY DEF ValidateDraw, MayDraw, ValidateSkip
<1>4. \A u : ~ MaySpecialSkip(u)
  BY <1>1 DEF MaySpecialSkip, Asked
<1>5. \A u, d, c, ps :
        ~ Draw(u, d) /\ ~ Skip(u) /\ ~ SpecialSkip(u) /\ ~ SpecialDraw(u, d) /\ ~ EndTurn(u)
           /\ ~ Discard(u, c) /\ ~ Assemble(u, c, ps) /\ ~ SpecialAssemble(u, c, ps) /\ ~ Give(u, c)
  BY <1>1, <1>2, <1>3, <1>4 DEF Draw, Skip, SpecialSkip, SpecialDraw, MaySpecialDraw, EndTurn,
     Discard, Assemble, SpecialAssemble, MaySpecialAssemble, Give, MayGive, Asked
<1>6. \A u, c, x, y, z :
        ~ CastTransform(u, c, x, y) /\ ~ CastReveal(u, c, x) /\ ~ CastGlobalReveal(u, c, x)
           /\ ~ CastMagicReveal(u, c, x) /\ ~ CastDestroy(u, c, x, y) /\ ~ CastCreate(u, c, x)
           /\ ~ CastOverthrow(u, c, x, y, z) /\ ~ CastForest(u, c, x, y)
           /\ ~ CastConcience(u, c, x) /\ ~ CastSpeedup(u, c)
  BY <1>2 DEF CastTransform, CastReveal, CastGlobalReveal, CastMagicReveal, CastDestroy, CastCreate,
     CastOverthrow, CastForest, CastConcience, CastSpeedup, MayCast
<1>7. \A u, c, i :
        ~ CastWhirpool(u, c) /\ ~ CastNecessity(u, c, i) /\ ~ CastTransfigure(u, c)
           /\ ~ CastDiversity(u, c)
  BY <1>2 DEF CastWhirpool, CastNecessity, CastTransfigure, CastDiversity, OpenWith, MayCast
<1>8. \/ Reload
      \/ \E u \in Seats, c \in assembled : Disassemble(u, c)
      \/ \E u \in Seats : UnknownCard(u) \/ UnknownDeck(u)
  BY <1>5, <1>6, <1>7 DEF Next
<1> QED BY <1>8 DEF Reload, Disassemble, UnknownCard, UnknownDeck, Fault

\* A game that has begun does not begin again.
LEMMA StaysBegun ==
  ASSUME TFP!Legal(flow), Next, flow.turn # "Preparing"
  PROVE  flow'.turn # "Preparing"
<1> DEFINE Loose == [turn : TurnStates, special : SpecialStates, idx : Int, remains : Int,
                     ingredient : Int, active : Int, extra : Int]
           Begun(f) == f.turn # "Preparing"
<1>1. flow \in Loose
  BY DEF TFP!Legal, TFP!FlowType, TFP!TurnStates, TFP!SpecialStates, TFP!Seats, TFP!DrawsGranted,
     TFP!PlaysGranted, TFP!Requestable, TurnStates, SpecialStates
<1>2. \A f \in Loose : Begun(f) => Begun(AdvanceTurn(f))
  BY DEF AdvanceTurn, NextTurn, TurnStates
<1>3. \A f \in Loose : Begun(f) => Begun(CloseSpecial(f))
  <2>1. \A f \in Loose : [f EXCEPT !.special = "None"] \in Loose
    BY DEF SpecialStates
  <2>2. \A f \in Loose : [f EXCEPT !.special = "None"].turn = f.turn
    OBVIOUS
  <2> HIDE DEF Loose
  <2> QED BY <1>2, <2>1, <2>2 DEF CloseSpecial
<1>4. \A f \in Loose : Begun(f) => Begun(Advance(f))
  <2> SUFFICES ASSUME NEW f \in Loose, Begun(f) PROVE Begun(Advance(f))
    OBVIOUS
  <2> DEFINE asked == [f EXCEPT !.idx = NextSeat(f.idx)]
             drawn == [f EXCEPT !.remains = f.remains - 1]
  <2>1. asked \in Loose /\ Begun(asked) /\ drawn \in Loose /\ Begun(drawn)
    BY NumPlayersAssumption DEF NextSeat
  <2>2. CASE f.special = "None"
    BY <1>2, <2>2 DEF Advance
  <2>3. CASE f.special = "Giving"
    BY <2>3 DEF Advance, AdvanceSpecial
  <2>4. CASE f.special = "Disassembling"
    <3>1. Advance(f) \in {asked, CloseSpecial(asked)}
      BY <2>4 DEF Advance, AdvanceSpecial
    <3> QED BY <1>3, <2>1, <3>1
  <2>5. CASE f.special = "Transfiguring"
    BY <1>3, <2>5 DEF Advance, AdvanceSpecial
  <2>6. CASE f.special = "DrawExtra"
    <3>1. Advance(f) \in {drawn, CloseSpecial(drawn)}
      BY <2>6 DEF Advance, AdvanceSpecial
    <3> QED BY <1>3, <2>1, <3>1
  <2> QED BY <2>2, <2>3, <2>4, <2>5, <2>6 DEF SpecialStates
<1>5. Begun(PassTurn(flow))
  <2>1. /\ [flow EXCEPT !.active = NextSeat(flow.active)] \in Loose
        /\ Begun([flow EXCEPT !.active = NextSeat(flow.active)])
    BY <1>1, NumPlayersAssumption DEF NextSeat
  <2> HIDE DEF Loose, Begun
  <2> QED BY <1>4, <2>1 DEF PassTurn
<1>6. /\ Begun(OpenWhirpool(flow)) /\ Begun(OpenTransfigure(flow)) /\ Begun(OpenDiversity(flow))
      /\ Begun(GrantPlays(flow)) /\ \A i : Begun(OpenNecessity(flow, i))
      /\ Begun([flow EXCEPT !.special = "None"])
  BY <1>1 DEF OpenWhirpool, OpenTransfigure, OpenDiversity, GrantPlays, OpenNecessity
<1>7. TF!Next \/ UNCHANGED flow
  BY MovesAreTurnFlow
<1>8. Begun(Advance(flow))
  <2> HIDE DEF Loose
  <2> QED BY <1>1, <1>4
<1>9. ~ TF!Start
  BY DEF TF!Start
<1> HIDE DEF Loose
<1> QED BY <1>5, <1>6, <1>7, <1>8, <1>9, SameTurns DEF TF!Next, TF!Draw, TF!Skip, TF!Play,
   TF!EndTurn, TF!CastWhirpool, TF!CastNecessity, TF!CastTransfigure, TF!CastDiversity,
   TF!CastSpeedup, TF!SpecialSkip, TF!Give, TF!SpecialAssemble, TF!SpecialDraw

\* The placement survives every move.
LEMMA MovesPlace ==
  ASSUME Placed, TFP!Legal(flow), Next
  PROVE  Placed'
<1>1. PICK k, w : /\ Laid(k, w)
                  /\ IF flow.turn = "Preparing" THEN \A c \in Cards : k[c] = "gone"
                                                ELSE \E box \in Boxes : Accounted(k, box)
  BY DEF Placed
<1>2. CASE Start
  <2>1. PICK box \in Boxes : StartWith(box)
    BY <1>2 DEF Start
  <2>2. flow.turn = "Preparing" /\ flow' = [flow EXCEPT !.turn = "Drawing"]
    BY <2>1 DEF StartWith
  <2>3. flow'.turn # "Preparing"
    BY <2>2 DEF TFP!Legal, TFP!FlowType
  <2>4. PICK new, v : Laid(new, v)' /\ Accounted(new, box)
    BY <1>1, <2>1, <2>2, StartDeals
  <2> QED BY <2>3, <2>4 DEF Placed, Accounted
<1>3. CASE ~ Start
  <2>1. PICK new, v : Laid(new, v)' /\ Kept(k, new)
    BY <1>1, <1>3, MovesCarry DEF Carried
  <2>2. CASE flow.turn = "Preparing"
    <3>1. flow' = flow
      BY <1>3, <2>2, OnlyStartBegins
    <3>2. \A c \in Cards : new[c] = "gone"
      BY <1>1, <2>1, <2>2 DEF Kept
    <3> QED BY <2>1, <2>2, <3>1, <3>2 DEF Placed
  <2>3. CASE flow.turn # "Preparing"
    <3>1. flow'.turn # "Preparing"
      BY <2>3, StaysBegun
    <3>2. PICK box \in Boxes : Accounted(k, box)
      BY <1>1, <2>3
    <3>3. Accounted(new, box)
      BY <2>1, <3>2 DEF Kept, Accounted
    <3> QED BY <2>1, <3>1, <3>3 DEF Placed, Accounted
  <2> QED BY <2>2, <2>3
<1> QED BY <1>2, <1>3

\* In every position of every game the cards are in their places.
LEMMA AlwaysPlaced == Spec => []Placed
<1>1. Init => Placed
  <2> SUFFICES ASSUME Init PROVE Placed
    OBVIOUS
  <2> DEFINE k == [c \in Cards |-> "gone"]
             w == [c \in Cards |-> 0]
  <2>1. flow.turn = "Preparing"
    BY DEF Init, InitFlow
  <2>2. CardsTyped /\ TablesAgree
    BY EmptyClosetTidy DEF Init, CardsTyped, TablesAgree
  <2>3. Lies(k, w)
    BY EmptyClosetTidy DEF Init, Lies, Places, DeckTypes
  <2>4. \A c \in Cards : k[c] = "gone"
    OBVIOUS
  <2> HIDE DEF k, w
  <2> QED BY <2>1, <2>2, <2>3, <2>4 DEF Placed, Laid
<1>2. Placed /\ TFP!Legal(flow) /\ [Next]_vars => Placed'
  <2> SUFFICES ASSUME Placed, UNCHANGED vars PROVE Placed'
    BY MovesPlace
  <2> QED BY DEF Placed, Laid, CardsTyped, TablesAgree, Lies, Accounted, vars, cardVars
<1> QED BY <1>1, <1>2, FlowAlwaysLegal, PTL DEF Spec

\* A card lies in one place, or is gone.
LEMMA CopiesCounted ==
  ASSUME NEW k, NEW w, Laid(k, w), NEW c \in Cards
  PROVE  Copies(c) = IF k[c] = "gone" THEN 0 ELSE 1
<1> DEFINE pile == closet[GetIngredient(c)]
           inDecks == {d \in DeckTypes : c \in decks[d]}
           inHands == {s \in Seats : c \in hands[s]}
           inPile == {i \in DOMAIN pile : pile[i] = c}
           onTables == {s \in Seats : c \in table[s]}
           inParts == {x \in Cards : c \in parts[x]}
<1>1. \A S, x : (S = {} => Cardinality(S) = 0) /\ (S = {x} => Cardinality(S) = 1)
  BY FS_EmptySet, FS_Singleton
<1>2. k[c] \in Places
  BY DEF Laid, Lies
<1>3. IF k[c] \in DeckTypes THEN inDecks = {k[c]} ELSE inDecks = {}
  BY DEF Laid, Lies
<1>4. IF k[c] = "hand" THEN inHands = {w[c]} ELSE inHands = {}
  BY DEF Laid, Lies
<1>5. IF k[c] = "table" THEN onTables = {w[c]} ELSE onTables = {}
  BY DEF Laid, Lies
<1>6. IF k[c] = "part" THEN inParts = {w[c]} ELSE inParts = {}
  BY DEF Laid, Lies
<1>7. IF k[c] = "closet" THEN \E i : inPile = {i} ELSE inPile = {}
  <2>1. c \in InCloset(closet) <=> c \in Range(pile)
    BY InTidyCloset DEF Laid, CardsTyped, Range
  <2>2. IsInjective(pile)
    BY DEF Laid, CardsTyped, Tidy, Piles
  <2>3. c \in InCloset(closet) <=> k[c] = "closet"
    BY DEF Laid, Lies
  <2> QED BY <2>1, <2>2, <2>3 DEF Range, IsInjective
<1>8. Copies(c) = Cardinality(inDecks) + Cardinality(inHands) + Cardinality(inPile)
                    + Cardinality(onTables) + Cardinality(inParts)
  BY DEF Copies
<1> HIDE DEF inDecks, inHands, inPile, onTables, inParts
<1>9. /\ Cardinality(inDecks) = IF k[c] \in DeckTypes THEN 1 ELSE 0
      /\ Cardinality(inHands) = IF k[c] = "hand" THEN 1 ELSE 0
      /\ Cardinality(inPile) = IF k[c] = "closet" THEN 1 ELSE 0
      /\ Cardinality(onTables) = IF k[c] = "table" THEN 1 ELSE 0
      /\ Cardinality(inParts) = IF k[c] = "part" THEN 1 ELSE 0
  BY <1>1, <1>3, <1>4, <1>5, <1>6, <1>7
<1> QED BY <1>2, <1>8, <1>9 DEF Places, DeckTypes

\* No move, spell, crash or load duplicates or loses a card; only Speedup spells
\* leave the game, whatever cards, players and rules it is played with.
THEOREM NoCardIsLost == Spec => []CardsConserved
<1>1. Placed => CardsConserved
  <2> SUFFICES ASSUME Placed, flow.turn # "Preparing"
               PROVE  \E box \in Boxes : \A c \in Cards :
                         \/ Copies(c) = IF c \in InPlay(box) THEN 1 ELSE 0
                         \/ Copies(c) = 0 /\ SpellOf(c) = "speedup"
    BY DEF CardsConserved
  <2>1. PICK k, w : Laid(k, w) /\ \E box \in Boxes : Accounted(k, box)
    BY DEF Placed
  <2>2. PICK box \in Boxes : Accounted(k, box)
    BY <2>1
  <2>3. \A c \in Cards : Copies(c) = IF k[c] = "gone" THEN 0 ELSE 1
    BY <2>1, CopiesCounted
  <2> QED BY <2>2, <2>3 DEF Accounted
<1> QED BY <1>1, AlwaysPlaced, PTL

\* The flags and parts of Card agree with the tables of the players: the asserts of
\* Card::Assemble and Player::RemoveAssembled hold in every game.
THEOREM TablesAlwaysAgree == Spec => []TablesAgree
<1>1. Placed => TablesAgree
  BY DEF Placed, Laid
<1> QED BY <1>1, AlwaysPlaced, PTL

\* Only the last card of a pile is ever taken from the closet.
THEOREM TopsLeave == Spec => OnlyTopsLeave
<1>1. Placed /\ TFP!Legal(flow) /\ [Next]_vars =>
         [\A c \in InCloset(closet) \ InCloset(closet') : c \in Tops(closet)]_vars
  <2> SUFFICES ASSUME Placed, TFP!Legal(flow), Next,
                      NEW c \in InCloset(closet) \ InCloset(closet')
               PROVE  c \in Tops(closet)
    OBVIOUS
  <2>1. PICK k, w : /\ Laid(k, w)
                    /\ flow.turn = "Preparing" => \A x \in Cards : k[x] = "gone"
    BY DEF Placed
  <2>2. c \in Cards /\ k[c] = "closet"
    BY <2>1, InClosetIsCards DEF Laid, CardsTyped, Lies
  <2>3. ~ Start
    BY <2>1, <2>2 DEF Start, StartWith
  <2>4. PICK new, v : Laid(new, v)' /\ Kept(k, new)
    BY <2>1, <2>3, MovesCarry DEF Carried
  <2>5. new[c] # "closet"
    BY <2>2, <2>4 DEF Laid, Lies
  <2> QED BY <2>2, <2>4, <2>5 DEF Kept
<1> QED BY <1>1, AlwaysPlaced, FlowAlwaysLegal, PTL DEF Spec, OnlyTopsLeave

\* A game that is loaded again keeps its potions, their parts, and the recipes of
\* every pile in their order, whatever spells the closet holds.
THEOREM ReloadIsFaithful == Spec => ReloadKeeps
<1>1. Placed /\ [Next]_vars =>
         [Reload => /\ UNCHANGED <<parts, assembled, universal>>
                    /\ \A i \in Piles : RecipeOrder(closet'[i]) = RecipeOrder(closet[i])]_vars
  <2> SUFFICES ASSUME Placed, Reload
               PROVE  /\ UNCHANGED <<parts, assembled, universal>>
                      /\ \A i \in Piles : RecipeOrder(closet'[i]) = RecipeOrder(closet[i])
    OBVIOUS
  <2>1. PICK k, w : Laid(k, w)
    BY DEF Placed
  <2>2. Tidy(closet) /\ closet' = Reloaded(closet)
    BY <2>1 DEF Laid, CardsTyped, Reload
  <2>3. UNCHANGED <<parts, assembled, universal>>
    BY <2>1 DEF Reload, Laid, CardsTyped, TablesAgree
  <2> QED BY <2>2, <2>3, ReloadedOrders
<1> QED BY <1>1, AlwaysPlaced, PTL DEF Spec, ReloadKeeps

\* The rest of the state.
Counted ==
    /\ spellsOnTop \in BOOLEAN
    /\ score \in [Seats -> -ScoreBound .. ScoreBound]
    /\ fault \in {"none", "HasCard", "CanRemoveCard", "NullCard", "UnknownDeck"}

\* Every move keeps the scores numbers and the flags flags.
LEMMA MovesCount ==
  ASSUME Counted, Next
  PROVE  Counted'
<1>1. ASSUME NEW f, f = [s \in Seats |-> f[s]], ScoresBecome(f)
      PROVE  score' \in [Seats -> -ScoreBound .. ScoreBound]
  BY <1>1 DEF ScoresBecome
<1>2. ASSUME UNCHANGED score \/ score' \in [Seats -> -ScoreBound .. ScoreBound], NoFault
      PROVE  Counted'
  BY <1>2 DEF NoFault, Counted
<1>3. ASSUME NEW why \in {"HasCard", "CanRemoveCard", "NullCard", "UnknownDeck"}, Fault(why)
      PROVE  Counted'
  BY <1>3 DEF Fault, Counted
<1>4. score = [s \in Seats |-> score[s]]
  BY DEF Counted
<1>5. ASSUME NEW d, DrawCard(d)
      PROVE  Counted'
  BY <1>2, <1>5 DEF DrawCard
<1>6. CASE \/ \E u \in Seats, d \in DeckTypes : Draw(u, d) \/ SpecialDraw(u, d)
           \/ \E u \in Seats : UnknownCard(u) \/ UnknownDeck(u)
  BY <1>3, <1>5, <1>6 DEF Draw, SpecialDraw, UnknownCard, UnknownDeck
<1>7. CASE Start
  BY <1>2, <1>7 DEF Start, StartWith
<1>8. CASE \E u \in Seats : Skip(u) \/ SpecialSkip(u)
  BY <1>2, <1>8 DEF Skip, SpecialSkip
<1>9. CASE \E u \in Seats, c \in Cards : Discard(u, c)
  <2>1. PICK c : /\ NoFault
                 /\ ScoresBecome(IF DiscardScores(c) THEN [score EXCEPT ![Active] = @ + 1]
                                                     ELSE score)
    BY <1>9 DEF Discard
  <2> DEFINE f == IF DiscardScores(c) THEN [score EXCEPT ![Active] = @ + 1] ELSE score
  <2>2. f = [s \in Seats |-> f[s]]
    BY <1>4
  <2> HIDE DEF f
  <2>3. ScoresBecome(f)
    BY <2>1 DEF f
  <2> QED BY <1>1, <1>2, <2>1, <2>2, <2>3
<1>10. ASSUME NEW c, NEW ps, PerformAssemble(c, ps)
       PROVE  Counted'
  <2>1. CASE \E why \in {"HasCard", "CanRemoveCard"} : Fault(why)
    BY <1>3, <2>1
  <2>2. CASE ~ \E why \in {"HasCard", "CanRemoveCard"} : Fault(why)
    <3>1. PICK share : /\ NoFault
                       /\ ScoresBecome([s \in Seats |-> score[s] +
                            (IF s = Active THEN Worth(c) ELSE (share[s] * Worth(c)) \div 2)])
      BY <1>10, <2>2 DEF PerformAssemble
    <3> DEFINE f == [s \in Seats |-> score[s] +
                       (IF s = Active THEN Worth(c) ELSE (share[s] * Worth(c)) \div 2)]
    <3>2. f = [s \in Seats |-> f[s]] /\ ScoresBecome(f)
      BY <3>1
    <3> HIDE DEF f
    <3> QED BY <1>1, <1>2, <3>1, <3>2
  <2> QED BY <2>1, <2>2
<1>11. CASE \/ \E u \in Seats, c \in Nameable : \E ps \in PartLists(Len(Requirements(c))) :
                   Assemble(u, c, ps)
            \/ \E u \in Seats, c \in Hand : \E ps \in PartLists(Len(Requirements(c))) :
                   SpecialAssemble(u, c, ps)
  BY <1>10, <1>11 DEF Assemble, SpecialAssemble
<1>12. CASE \E u \in Seats : EndTurn(u)
  <2>1. PICK paid, growth : /\ NoFault /\ paid = [s \in Seats |-> paid[s]]
                            /\ ScoresBecome([paid EXCEPT ![NextSeat(Active)] = @ + growth])
    <3>1. \A income : LET paid == [score EXCEPT ![Active] = @ + income]
                      IN  paid = [s \in Seats |-> paid[s]]
      BY <1>4
    <3> QED BY <1>12, <3>1 DEF EndTurn
  <2> DEFINE f == [paid EXCEPT ![NextSeat(Active)] = @ + growth]
  <2>2. f = [s \in Seats |-> f[s]] /\ ScoresBecome(f)
    BY <2>1
  <2> HIDE DEF f
  <2> QED BY <1>1, <1>2, <2>1, <2>2
<1>13. CASE \E u \in Seats, c \in Hand, a, b \in assembled : CastForest(u, c, a, b)
  <2>1. PICK a, b : NoFault /\ ScoresBecome(ForestScores(a, b))
    BY <1>13 DEF CastForest
  <2>2. ForestScores(a, b) = [s \in Seats |-> ForestScores(a, b)[s]]
    BY DEF ForestScores
  <2> QED BY <1>1, <1>2, <2>1, <2>2
<1>14. CASE \E u, t \in Seats, c \in Hand : CastConcience(u, c, t)
  <2>1. PICK t \in Seats : NoFault /\ ScoresBecome([score EXCEPT ![t] = @ - 5])
    BY <1>14 DEF CastConcience
  <2> DEFINE f == [score EXCEPT ![t] = @ - 5]
  <2>2. f = [s \in Seats |-> f[s]] /\ ScoresBecome(f)
    BY <1>4, <2>1
  <2> HIDE DEF f
  <2> QED BY <1>1, <1>2, <2>1, <2>2
<1>15. CASE Reload
  BY <1>15, ExpansionAssumption DEF Reload, Counted
<1>16. CASE \/ \E u \in Seats, c \in Hand, new \in Tops(closet), old \in table[Active] :
                   CastTransform(u, c, new, old)
            \/ \E u \in Seats, c \in Hand, x \in Tops(closet) :
                   CastReveal(u, c, x) \/ CastGlobalReveal(u, c, x) \/ CastMagicReveal(u, c, x)
            \/ \E u \in Seats, c \in Hand, whole \in assembled : \E keep \in parts[whole] :
                   CastDestroy(u, c, keep, whole)
            \/ \E u \in Seats, c \in Hand, new \in Hand \cup Tops(closet) : CastCreate(u, c, new)
            \/ \E u, s \in Seats, c \in Hand, whole \in assembled : \E loot \in parts[whole] :
                   CastOverthrow(u, c, loot, s, whole)
            \/ \E u \in Seats, c \in Hand : CastSpeedup(u, c)
  <2>1. UNCHANGED score /\ NoFault
    BY <1>16 DEF CastTransform, CastReveal, CastGlobalReveal, CastMagicReveal, Exchange,
       CastDestroy, CastCreate, CastOverthrow, CastSpeedup
  <2> QED BY <1>2, <2>1
<1>17. CASE \/ \E u \in Seats, c \in Hand :
                   CastWhirpool(u, c) \/ CastTransfigure(u, c) \/ CastDiversity(u, c)
            \/ \E u \in Seats, c \in Hand, i \in Requests : CastNecessity(u, c, i)
            \/ \E u \in Seats, c \in assembled : Disassemble(u, c)
            \/ \E u \in Seats, c \in Cards : Give(u, c)
  <2>1. UNCHANGED score /\ NoFault
    BY <1>17 DEF CastWhirpool, CastTransfigure, CastDiversity, CastNecessity, OpenWith,
       Disassemble, Give
  <2> QED BY <1>2, <2>1
<1> QED BY <1>6, <1>7, <1>8, <1>9, <1>11, <1>12, <1>13, <1>14, <1>15, <1>16, <1>17 DEF Next

\* Scores and flags have their types in every state.
LEMMA AlwaysCounted == Spec => []Counted
<1>1. Init => Counted
  <2>1. 0 \in -ScoreBound .. ScoreBound
    BY GameAssumption
  <2> QED BY <2>1 DEF Init, Counted
<1>2. Counted /\ [Next]_vars => Counted'
  BY MovesCount DEF Counted, vars
<1> QED BY <1>1, <1>2, PTL DEF Spec

\* The state of a game is of its types in every position: every card is in a hand,
\* deck, table or pile of the right kind, and no turn state is illegal.
THEOREM GameTypeCorrect == Spec => []TypeOK
<1>1. Placed /\ Counted /\ TFP!Legal(flow) => TypeOK
  <2>1. TFP!FlowType = FlowType
    BY DEF TFP!FlowType, FlowType, TFP!TurnStates, TurnStates, TFP!SpecialStates, SpecialStates,
       TFP!Seats, Seats, TFP!DrawsGranted, DrawsGranted, TFP!PlaysGranted, PlaysGranted,
       TFP!Requestable, Requestable
  <2> QED BY <2>1 DEF Placed, Counted, TFP!Legal, Laid, CardsTyped, Tidy, TypeOK
<1> QED BY <1>1, AlwaysPlaced, AlwaysCounted, FlowAlwaysLegal, PTL

\* While no part of a potion belongs on a pile that a part is taken from, the loop
\* over the parts, none of them named twice, meets every pile as it was when the move
\* was validated.
LEMMA PartsStayAvailable ==
  ASSUME NEW k, NEW w, Laid(k, w), NEW n \in Nat, NEW ps \in DistinctParts(n), PartsAvailable(ps),
         NEW order \in PartOrders(Range(ps)),
         \A p \in assembled : \A q \in parts[p], t \in Tops(closet) :
            GetIngredient(q) # GetIngredient(t)
  PROVE  TakeParts(ps, order).ok
<1>1. /\ ps \in [1 .. n -> assembled \cup Tops(closet)] /\ IsInjective(ps)
      /\ Len(ps) = n /\ DOMAIN ps = 1 .. n
      /\ \A i, j \in 1 .. n : i # j => ps[i] # ps[j]
  <2>1. ps \in [1 .. n -> assembled \cup Tops(closet)] /\ Cardinality(Range(ps)) = n
    BY DEF DistinctParts, Offered
  <2>2. Len(ps) = n /\ DOMAIN ps = 1 .. n
    BY <2>1
  <2>3. IsInjective(ps)
    BY <2>1, AllDifferent
  <2>4. \A i, j \in 1 .. n : i # j => ps[i] # ps[j]
    BY <2>2, <2>3 DEF IsInjective
  <2> QED BY <2>1, <2>2, <2>3, <2>4
<1>2. PICK g : Taking(g, ps, order) /\ TakeParts(ps, order) = g[n]
  BY <1>1, TakingExists
<1>3. \A m \in 1 .. n : ps[m] \notin assembled =>
         /\ CanRemoveCard(closet, ps[m]) /\ ps[m] \in Tops(closet)
         /\ ps[m] \in Cards /\ GetIngredient(ps[m]) \in Piles
  <2>1. \A m \in 1 .. n : ps[m] \in Range(ps)
    BY <1>1 DEF Range
  <2> QED BY <1>1, <2>1, TopsInCloset DEF PartsAvailable, Laid, CardsTyped, Piles
<1> DEFINE Ready(m) ==
             /\ DOMAIN g[m] = {"closet", "table", "assembled", "share", "ok"}
             /\ DOMAIN g[m].closet = Piles
             /\ g[m].ok
             /\ \A j \in m + 1 .. n : ps[j] \in g[m].assembled <=> ps[j] \in assembled
             /\ \A j \in m + 1 .. n : ps[j] \notin assembled =>
                   g[m].closet[GetIngredient(ps[j])] = closet[GetIngredient(ps[j])]
           A == {m \in Nat : m <= n => Ready(m)}
<1>4. Ready(0)
  <2>1. g[0] = Untaken
    BY <1>1, <1>2 DEF Taking
  <2> QED BY <2>1 DEF Untaken, Laid, CardsTyped, Tidy
<1>5. ASSUME NEW m \in Nat, m \in A PROVE m + 1 \in A
  <2> SUFFICES ASSUME m + 1 <= n PROVE Ready(m + 1)
    OBVIOUS
  <2> DEFINE v == g[m]
             u == g[m + 1]
             p == ps[m + 1]
  <2>1. Ready(m)
    BY <1>5
  <2>2. u = TakePart(v, p, order)
    <3>1. m + 1 \in 0 .. Len(ps) /\ m + 1 # 0 /\ (m + 1) - 1 = m
      BY <1>1
    <3> QED BY <1>2, <3>1 DEF Taking
  <2>3. /\ m + 1 \in 1 .. n /\ m + 1 \in m + 1 .. n
        /\ \A j \in m + 2 .. n : j \in 1 .. n /\ j \in m + 1 .. n /\ j # m + 1
        /\ (m + 1) + 1 = m + 2
    OBVIOUS
  <2>4. /\ p \in v.assembled <=> p \in assembled
        /\ \A j \in m + 2 .. n :
              ps[j] # p /\ (ps[j] \in v.assembled <=> ps[j] \in assembled)
    BY <1>1, <2>1, <2>3
  <2>5. CASE p \in assembled
    <3>1. /\ DOMAIN u = {"closet", "table", "assembled", "share", "ok"} /\ u.ok = v.ok
          /\ u.closet = AddCards(v.closet, order[p], spellsOnTop)
          /\ u.assembled = v.assembled \ {p}
      BY <2>1, <2>2, <2>4, <2>5 DEF TakePart
    <3>2. Lists(order[p], parts[p])
      <4>1. order[p] \in Orders(parts[p])
        BY <1>1, <2>3 DEF PartOrders, Range
      <4>2. parts[p] \in SUBSET Cards
        BY <2>5 DEF Laid, CardsTyped
      <4> QED BY <4>1, <4>2, ListOrder
    <3>3. order[p] \in Seq(Cards) /\ \A x \in DOMAIN order[p] : order[p][x] \in parts[p]
      BY <3>2 DEF Lists, Range
    <3>4. ASSUME NEW j \in m + 2 .. n, ps[j] \notin assembled
          PROVE  /\ DOMAIN u.closet = Piles
                 /\ u.closet[GetIngredient(ps[j])] = closet[GetIngredient(ps[j])]
      <4>1. /\ GetIngredient(ps[j]) \in Piles
            /\ \A x \in DOMAIN order[p] : GetIngredient(order[p][x]) # GetIngredient(ps[j])
        BY <1>3, <2>3, <2>5, <3>3, <3>4
      <4>2. v.closet[GetIngredient(ps[j])] = closet[GetIngredient(ps[j])]
        BY <2>1, <2>3, <3>4
      <4> HIDE DEF v, u, p
      <4>3. /\ DOMAIN u.closet = Piles
            /\ u.closet[GetIngredient(ps[j])] = v.closet[GetIngredient(ps[j])]
        <5>1. DOMAIN v.closet = Piles
          BY <2>1 DEF v
        <5> QED BY <3>1, <3>3, <4>1, <5>1, AddCardsElsewhere
      <4> QED BY <4>2, <4>3
    <3>5. DOMAIN u.closet = Piles
      BY <2>1, <3>1, <3>3, AddCardsElsewhere
    <3> QED BY <2>1, <2>3, <2>4, <3>1, <3>4, <3>5
  <2>6. CASE p \notin assembled
    <3>1. CanRemoveCard(closet, p) /\ p \in Cards /\ GetIngredient(p) \in Piles
      BY <1>3, <2>3, <2>6
    <3>2. v.closet[GetIngredient(p)] = closet[GetIngredient(p)]
      BY <2>1, <2>3, <2>6
    <3>3. CanRemoveCard(v.closet, p)
      BY <3>1, <3>2 DEF CanRemoveCard
    <3>4. /\ DOMAIN u = {"closet", "table", "assembled", "share", "ok"} /\ u.ok
          /\ u.closet = RemoveCard(v.closet, p) /\ u.assembled = v.assembled
      BY <2>1, <2>2, <2>4, <2>6, <3>3 DEF TakePart
    <3>5. /\ DOMAIN u.closet = Piles
          /\ \A i \in Piles : i # GetIngredient(p) => u.closet[i] = v.closet[i]
      BY <2>1, <3>4 DEF RemoveCard
    <3>6. ASSUME NEW j \in m + 2 .. n, ps[j] \notin assembled
          PROVE  u.closet[GetIngredient(ps[j])] = closet[GetIngredient(ps[j])]
      <4>1. ps[j] # p
        BY <1>1, <2>3 DEF IsInjective
      <4>2. CanRemoveCard(closet, ps[j]) /\ GetIngredient(ps[j]) \in Piles
        BY <1>3, <2>3, <3>6
      <4>3. GetIngredient(ps[j]) # GetIngredient(p)
        BY <3>1, <4>1, <4>2 DEF CanRemoveCard
      <4> QED BY <2>1, <2>3, <3>5, <3>6, <4>2, <4>3
    <3> QED BY <2>3, <2>4, <3>4, <3>5, <3>6
  <2> QED BY <2>5, <2>6
<1>6. n \in A
  <2>1. 0 \in A
    BY <1>4
  <2> HIDE DEF A
  <2> QED BY <1>5, <2>1, NumbersFollow
<1> QED BY <1>2, <1>6

\* The moves that can end the process.
LEMMA OnlyTheseFault ==
  ASSUME Next, fault' # "none"
  PROVE  \/ \E u \in Seats, c \in Nameable : \E ps \in PartLists(Len(Requirements(c))) :
               Assemble(u, c, ps)
         \/ \E u \in Seats, c \in Hand : \E ps \in PartLists(Len(Requirements(c))) :
               SpecialAssemble(u, c, ps)
         \/ \E u \in Seats, d \in DeckTypes : SpecialDraw(u, d)
         \/ \E u \in Seats : UnknownCard(u) \/ UnknownDeck(u)
<1>1. \A u : MayPlay(u) => fault = "none"
  BY DEF MayPlay, Ordinary
<1>2. ~ Start /\ ~ Reload
  BY DEF Start, StartWith, NoFault, Reload
<1>3. \A u, d, c :
        ~ Draw(u, d) /\ ~ Skip(u) /\ ~ SpecialSkip(u) /\ ~ EndTurn(u) /\ ~ Discard(u, c)
           /\ ~ Give(u, c) /\ ~ Disassemble(u, c)
  BY <1>1 DEF Draw, DrawCard, Skip, SpecialSkip, MaySpecialSkip, EndTurn, Discard, Give, MayGive,
     Disassemble,
     MayDisassemble, Asked, Ordinary, NoFault
<1>4. \A u, c, x, y, z :
        ~ CastTransform(u, c, x, y) /\ ~ CastReveal(u, c, x) /\ ~ CastGlobalReveal(u, c, x)
           /\ ~ CastMagicReveal(u, c, x) /\ ~ CastDestroy(u, c, x, y) /\ ~ CastCreate(u, c, x)
           /\ ~ CastOverthrow(u, c, x, y, z) /\ ~ CastForest(u, c, x, y)
           /\ ~ CastConcience(u, c, x) /\ ~ CastSpeedup(u, c)
  BY <1>1 DEF CastTransform, CastReveal, CastGlobalReveal, CastMagicReveal, Exchange, CastDestroy,
     CastCreate, CastOverthrow, CastForest, CastConcience, CastSpeedup, MayCast, NoFault
<1>5. \A u, c, i :
        ~ CastWhirpool(u, c) /\ ~ CastNecessity(u, c, i) /\ ~ CastTransfigure(u, c)
           /\ ~ CastDiversity(u, c)
  BY <1>1 DEF CastWhirpool, CastNecessity, CastTransfigure, CastDiversity, OpenWith,
     MayCast, NoFault
<1> QED BY <1>2, <1>3, <1>4, <1>5 DEF Next

\* A move composed by a page that is up to date that meets a fault meets one of the
\* two that have a cause.
LEMMA MovesExplain ==
  ASSUME Placed, TFP!Legal(flow), Next, ~AnyRequest
  PROVE  PagesEndItInTwoWays'
<1> DEFINE Explained ==
             /\ fault' \in {"none", "NullCard", "CanRemoveCard"}
             /\ fault' = "NullCard" =>
                   flow.special = "DrawExtra" /\ \E d \in DeckTypes : decks[d] = {}
             /\ fault' = "CanRemoveCard" =>
                   \E p \in assembled : \E q \in parts[p], t \in Tops(closet) :
                      GetIngredient(q) = GetIngredient(t)
<1>1. CASE fault' = "none"
  BY <1>1 DEF PagesEndItInTwoWays
<1>2. ASSUME NEW c \in Hand, c \in Cards, NEW ps \in PartLists(Len(Requirements(c))),
             PartsAvailable(ps), PerformAssemble(c, ps), fault = "none", fault' # "none"
      PROVE  Explained /\ UNCHANGED <<flow, cardVars>>
  <2>1. PICK order \in PartOrders(Range(ps)) : ~ TakeParts(ps, order).ok /\ Fault("CanRemoveCard")
    BY <1>2 DEF PerformAssemble, NoFault
  <2>2. PICK k, w : Laid(k, w)
    BY DEF Placed
  <2>3. Len(Requirements(c)) \in Nat /\ ps \in DistinctParts(Len(Requirements(c)))
    BY <1>2, DataAssumption DEF Requirements, PartLists
  <2>4. \E p \in assembled : \E q \in parts[p], t \in Tops(closet) :
           GetIngredient(q) = GetIngredient(t)
    BY <1>2, <2>1, <2>2, <2>3, PartsStayAvailable
  <2> QED BY <2>1, <2>4 DEF Fault
<1>3. Hand \subseteq Cards
  BY DEF Hand, Active, TFP!Legal, TFP!FlowType, TFP!Seats, Seats, Placed, Laid, CardsTyped
<1>4. ASSUME NEW u \in Seats, NEW c \in Nameable, NEW ps \in PartLists(Len(Requirements(c))),
             Assemble(u, c, ps), fault' # "none"
      PROVE  Explained /\ UNCHANGED <<flow, cardVars>>
  <2>1. c \in Cards /\ c \in Hand
    BY <1>3 DEF Nameable
  <2>2. PartsAvailable(ps) /\ PerformAssemble(c, ps) /\ fault = "none"
    BY <1>4 DEF Assemble, MayPlay, Ordinary
  <2> HIDE DEF Explained
  <2> QED BY <1>2, <1>4, <2>1, <2>2
<1>5. ASSUME NEW u \in Seats, NEW c \in Hand, NEW ps \in PartLists(Len(Requirements(c))),
             SpecialAssemble(u, c, ps), fault' # "none"
      PROVE  Explained /\ UNCHANGED <<flow, cardVars>>
  <2>1. PartsAvailable(ps) /\ PerformAssemble(c, ps) /\ fault = "none" /\ c \in Cards
    BY <1>3, <1>5 DEF SpecialAssemble, MaySpecialAssemble
  <2> HIDE DEF Explained
  <2> QED BY <1>2, <1>5, <2>1
<1>6. ASSUME NEW u \in Seats, NEW d \in DeckTypes, SpecialDraw(u, d), fault' # "none"
      PROVE  Explained /\ UNCHANGED <<flow, cardVars>>
  BY <1>6 DEF SpecialDraw, MaySpecialDraw, DrawCard, NoFault, Fault
<1>7. Explained /\ UNCHANGED <<flow, cardVars>> => PagesEndItInTwoWays'
  BY DEF PagesEndItInTwoWays, cardVars
<1>8. ~ \E u \in Seats : UnknownCard(u) \/ UnknownDeck(u)
  BY DEF UnknownCard, UnknownDeck
<1> HIDE DEF Explained
<1> QED BY <1>1, <1>4, <1>5, <1>6, <1>7, <1>8, OnlyTheseFault

\* For requests composed by pages that are up to date: the process ends only for a
\* Diversity draw from an empty deck, or for a part that falls on a pile another part
\* is taken from.  No other move that passes validation fails an assert later on, with
\* any cards, players and rules.
THEOREM UpToDatePagesAreSafe == Spec => []PagesEndItInTwoWays
<1>1. Init => PagesEndItInTwoWays
  BY DEF Init, PagesEndItInTwoWays
<1>2. Placed /\ TFP!Legal(flow) /\ PagesEndItInTwoWays /\ [Next]_vars => PagesEndItInTwoWays'
  BY MovesExplain DEF PagesEndItInTwoWays, vars, cardVars
<1> QED BY <1>1, <1>2, AlwaysPlaced, FlowAlwaysLegal, PTL DEF Spec

\* While the active player draws, the turn moves on by a draw or a skip.
LEMMA OnlyDrawsWhileDrawing ==
  ASSUME TFP!Legal(flow), Next, flow.turn = "Drawing", flow' # flow
  PROVE  \E u \in Seats : Skip(u) \/ \E d \in DeckTypes : Draw(u, d)
<1>1. flow.special = "None"
  BY DEF TFP!Legal, TFP!LegalPhase, TFP!PlayPhases
<1>2. \A u : ~ MayPlay(u)
  BY DEF MayPlay, PlayPhases
<1>3. ~ Start /\ ~ Reload
  BY DEF Start, StartWith, Reload
<1>4. \A u, d, c, ps :
        ~ SpecialSkip(u) /\ ~ SpecialDraw(u, d) /\ ~ EndTurn(u) /\ ~ Discard(u, c)
           /\ ~ Assemble(u, c, ps) /\ ~ SpecialAssemble(u, c, ps) /\ ~ Give(u, c)
           /\ ~ Disassemble(u, c)
  BY <1>1, <1>2 DEF SpecialSkip, MaySpecialSkip, SpecialDraw, MaySpecialDraw, EndTurn, Discard,
     Assemble, SpecialAssemble, MaySpecialAssemble, Give, MayGive, Disassemble,
     MayDisassemble, Asked
<1>5. \A u, c, x, y, z :
        ~ CastTransform(u, c, x, y) /\ ~ CastReveal(u, c, x) /\ ~ CastGlobalReveal(u, c, x)
           /\ ~ CastMagicReveal(u, c, x) /\ ~ CastDestroy(u, c, x, y) /\ ~ CastCreate(u, c, x)
           /\ ~ CastOverthrow(u, c, x, y, z) /\ ~ CastForest(u, c, x, y)
           /\ ~ CastConcience(u, c, x) /\ ~ CastSpeedup(u, c)
  BY <1>2 DEF CastTransform, CastReveal, CastGlobalReveal, CastMagicReveal, CastDestroy, CastCreate,
     CastOverthrow, CastForest, CastConcience, CastSpeedup, MayCast
<1>6. \A u, c, j :
        ~ CastWhirpool(u, c) /\ ~ CastNecessity(u, c, j) /\ ~ CastTransfigure(u, c)
           /\ ~ CastDiversity(u, c)
  BY <1>2 DEF CastWhirpool, CastNecessity, CastTransfigure, CastDiversity, OpenWith, MayCast
<1>7. ~ \E u \in Seats : UnknownCard(u) \/ UnknownDeck(u)
  BY DEF UnknownCard, UnknownDeck, Fault
<1> QED BY <1>3, <1>4, <1>5, <1>6, <1>7 DEF Next

\* The playing part of a turn begins with enough cards, unless none are left: the
\* limits of validateDraw, validateSkip and drawCard agree.
THEOREM PlayersAreReady == Spec => ReadyToPlay
<1>1. Placed /\ HandsFinite /\ TFP!Legal(flow) /\ [Next]_vars =>
        [flow.turn = "Drawing" /\ flow'.turn # "Drawing" =>
           Cardinality(hands'[Active]) >= MinCardsInHand \/ DecksEmpty]_vars
  <2> SUFFICES ASSUME Placed, HandsFinite, TFP!Legal(flow), Next,
                      flow.turn = "Drawing", flow'.turn # "Drawing", ~ DecksEmpty
               PROVE  Cardinality(hands'[Active]) >= MinCardsInHand
    OBVIOUS
  <2>1. Active \in Seats /\ flow.special = "None"
    BY DEF Active, TFP!Legal, TFP!FlowType, TFP!Seats, Seats, TFP!LegalPhase, TFP!PlayPhases
  <2>2. IsFiniteSet(Hand) /\ Cardinality(Hand) \in Nat
    BY <2>1, FS_CardinalityType DEF HandsFinite, Hand
  <2>3. PICK u \in Seats : Skip(u) \/ \E d \in DeckTypes : Draw(u, d)
    BY OnlyDrawsWhileDrawing
  <2>4. CASE Skip(u)
    <3>1. Cardinality(Hand) >= MaxHandToDraw /\ hands' = hands
      BY <2>4 DEF Skip, ValidateSkip, cardVars
    <3> QED BY <2>2, <3>1, RulesAssumption DEF Hand
  <2>5. CASE \E d \in DeckTypes : Draw(u, d)
    <3>1. PICK d \in DeckTypes : DrawCard(d)
      BY <2>5 DEF Draw
    <3>2. PICK c \in decks[d] : hands' = [hands EXCEPT ![Active] = @ \cup {c}]
      BY <3>1 DEF DrawCard
    <3>3. Cardinality(Hand) + 1 >= MinCardsInHand
      BY <2>1, <3>1 DEF DrawCard
    <3>4. c \notin Hand /\ hands'[Active] = Hand \cup {c}
      <4>1. PICK k, w : Laid(k, w)
        BY DEF Placed
      <4>2. c \in Cards /\ c \notin Hand
        BY <2>1, <4>1 DEF Laid, Lies, CardsTyped, Hand, DeckTypes
      <4> QED BY <2>1, <3>2, <4>2 DEF HandsFinite, Hand
    <3>5. Cardinality(Hand \cup {c}) = Cardinality(Hand) + 1
      BY <2>2, <3>4, FS_AddElement
    <3> QED BY <3>3, <3>4, <3>5
  <2> QED BY <2>3, <2>4, <2>5
<1> QED BY <1>1, AlwaysPlaced, HandsAlwaysFinite, FlowAlwaysLegal, PTL DEF Spec, ReadyToPlay

\* The shares of the owners when the cards of S have been taken.
Shared(v, S) ==
    /\ v = [closet |-> v.closet, table |-> v.table, assembled |-> v.assembled,
            share |-> v.share, ok |-> v.ok]
    /\ v.table = [s \in Seats |-> table[s] \ S]
    /\ v.assembled = assembled \ S
    /\ v.share \in [Seats -> Nat]
    /\ \A s \in Seats :
          /\ S \cap table[s] = {} => v.share[s] = 0
          /\ S \cap table[s] # {} /\ (~ (S \cap table[s] \subseteq universal)
                                         \/ HasTalisman(table[s], "generality"))
                => v.share[s] >= 1

\* One more part keeps count of whom the parts were taken from.
LEMMA TakePartShares ==
  ASSUME TablesAgree, table \in [Seats -> SUBSET Cards], NEW order, NEW S, NEW p, p \notin S,
         NEW v, Shared(v, S)
  PROVE  Shared(TakePart(v, p, order), S \cup {p})
<1> DEFINE u == TakePart(v, p, order)
           Premise(s, T) == /\ T \cap table[s] # {}
                            /\ \/ ~ (T \cap table[s] \subseteq universal)
                               \/ HasTalisman(table[s], "generality")
<1>0. p \in v.assembled <=> p \in assembled
  BY DEF Shared
<1>1. /\ u = [closet |-> u.closet, table |-> u.table, assembled |-> u.assembled,
              share |-> u.share, ok |-> u.ok]
      /\ u.table = [s \in Seats |-> table[s] \ (S \cup {p})]
      /\ u.assembled = assembled \ (S \cup {p})
  <2>1. CASE p \in assembled
    <3>1. /\ u = [closet |-> u.closet, table |-> u.table, assembled |-> u.assembled,
                  share |-> u.share, ok |-> u.ok]
          /\ u.table = [s \in Seats |-> v.table[s] \ {p}]
          /\ u.assembled = v.assembled \ {p}
      BY <1>0, <2>1 DEF TakePart, Shared
    <3> HIDE DEF u
    <3> QED BY <3>1 DEF Shared
  <2>2. CASE p \notin assembled
    <3>1. \A s \in Seats : p \notin table[s]
      BY <2>2 DEF TablesAgree
    <3>2. /\ u = [closet |-> u.closet, table |-> u.table, assembled |-> u.assembled,
                  share |-> u.share, ok |-> u.ok]
          /\ u.table = v.table /\ u.assembled = v.assembled
      BY <1>0, <2>2 DEF TakePart, Shared
    <3> HIDE DEF u
    <3> QED BY <2>2, <3>1, <3>2 DEF Shared
  <2> QED BY <2>1, <2>2
<1>2. CASE p \in assembled
  <2> DEFINE paid(s) == IF p \notin v.table[s] THEN v.share[s]
                        ELSE IF HasTalisman(v.table[s], "generality") THEN v.share[s] + 1
                        ELSE IF p \notin universal THEN 1 ELSE v.share[s]
  <2>1. u.share = [s \in Seats |-> paid(s)]
    BY <1>0, <1>2 DEF TakePart, Shared
  <2>2. ASSUME NEW s \in Seats
        PROVE  /\ paid(s) \in Nat /\ (v.share[s] >= 1 => paid(s) >= 1)
               /\ p \notin v.table[s] => paid(s) = v.share[s]
               /\ p \in v.table[s] /\ (p \notin universal \/ HasTalisman(v.table[s], "generality"))
                     => paid(s) >= 1
    BY <2>2 DEF Shared
  <2>3. ASSUME NEW s \in Seats
        PROVE  /\ u.share[s] = paid(s)
               /\ (S \cup {p}) \cap table[s] = {} => u.share[s] = 0
               /\ Premise(s, S \cup {p}) => u.share[s] >= 1
    <3>1. u.share[s] = paid(s) /\ v.share[s] \in Nat
      BY <2>1 DEF Shared
    <3>2. v.table[s] = table[s] \ S /\ (p \in v.table[s] <=> p \in table[s])
      BY DEF Shared
    <3>3. (S \cap table[s] = {} => v.share[s] = 0) /\ (Premise(s, S) => v.share[s] >= 1)
      BY DEF Shared
    <3> HIDE DEF u, paid
    <3>4. CASE p \notin table[s]
      BY <2>2, <3>1, <3>2, <3>3, <3>4
    <3>5. CASE p \in table[s] /\ S \cap table[s] = {}
      <4>1. v.table[s] = table[s]
        BY <3>2, <3>5
      <4> QED BY <2>2, <3>1, <3>5, <4>1
    <3>6. CASE p \in table[s] /\ S \cap table[s] # {}
      <4>1. CASE Premise(s, S)
        BY <2>2, <3>1, <3>3, <3>6, <4>1
      <4>2. CASE ~ Premise(s, S)
        BY <2>2, <3>1, <3>2, <3>6, <4>2
      <4> QED BY <4>1, <4>2
    <3> QED BY <3>1, <3>4, <3>5, <3>6
  <2>4. u.share \in [Seats -> Nat]
    BY <2>1, <2>2
  <2> HIDE DEF u, paid
  <2> QED BY <1>1, <2>3, <2>4 DEF Shared, u
<1>3. CASE p \notin assembled
  <2>1. \A s \in Seats : p \notin table[s]
    BY <1>3 DEF TablesAgree
  <2>2. u.share = v.share
    BY <1>0, <1>3 DEF TakePart, Shared
  <2>3. \A s \in Seats : (S \cup {p}) \cap table[s] = S \cap table[s]
    BY <2>1
  <2> HIDE DEF u
  <2>4. Shared(u, S \cup {p})
    BY <1>1, <2>2, <2>3 DEF Shared
  <2> QED BY <2>4 DEF u
<1> QED BY <1>2, <1>3

\* The shares at the end of the loop over the parts.
LEMMA TakePartsShare ==
  ASSUME TablesAgree, table \in [Seats -> SUBSET Cards], NEW n \in Nat, NEW ps \in PartLists(n),
         NEW order, IsInjective(ps)
  PROVE  Shared(TakeParts(ps, order), Range(ps))
<1>1. IsInjective(ps) /\ Len(ps) = n /\ DOMAIN ps = 1 .. n
  BY PartListsOffered
<1>2. PICK g : Taking(g, ps, order) /\ TakeParts(ps, order) = g[n]
  BY <1>1, TakingExists
<1> DEFINE S(m) == {ps[j] : j \in 1 .. m}
           A == {m \in Nat : m <= n => Shared(g[m], S(m))}
<1>3. Shared(g[0], S(0))
  <2>1. g[0] = Untaken /\ S(0) = {}
    BY <1>1, <1>2 DEF Taking
  <2>2. Shared(Untaken, {})
    BY DEF Untaken, Shared
  <2> QED BY <2>1, <2>2
<1>4. ASSUME NEW m \in Nat, m \in A PROVE m + 1 \in A
  <2> SUFFICES ASSUME m + 1 <= n PROVE Shared(g[m + 1], S(m + 1))
    OBVIOUS
  <2>1. Shared(g[m], S(m))
    BY <1>4
  <2>2. g[m + 1] = TakePart(g[m], ps[m + 1], order)
    <3>1. m + 1 \in 0 .. Len(ps) /\ m + 1 # 0 /\ (m + 1) - 1 = m
      BY <1>1
    <3> QED BY <1>2, <3>1 DEF Taking
  <2>3. m + 1 \in 1 .. n /\ \A j \in 1 .. m : j \in 1 .. n /\ j # m + 1
    OBVIOUS
  <2>4. ps[m + 1] \notin S(m)
    BY <1>1, <2>3 DEF IsInjective
  <2>5. S(m + 1) = S(m) \cup {ps[m + 1]}
    <3>1. 1 .. m + 1 = 1 .. m \cup {m + 1}
      OBVIOUS
    <3> QED BY <3>1
  <2> HIDE DEF A, S
  <2> QED BY <2>1, <2>2, <2>4, <2>5, TakePartShares
<1>5. n \in A
  <2>1. 0 \in A
    BY <1>3
  <2> HIDE DEF A
  <2> QED BY <1>4, <2>1, NumbersFollow
<1>6. S(n) = Range(ps)
  BY <1>1 DEF Range
<1> HIDE DEF S
<1> QED BY <1>2, <1>5, <1>6

\* What assembling a card does to a player who is not to move.
LEMMA AssemblePays ==
  ASSUME NEW k, NEW w, Laid(k, w), Counted, Active \in Seats, NEW c \in Cards,
         NEW ps \in PartLists(Len(Requirements(c))), PerformAssemble(c, ps),
         NEW s \in Seats \ {Active}
  PROVE  \/ UNCHANGED <<table, score>>
         \/ /\ table'[s] = table[s] \ Range(ps)
            /\ table'[Active] \ table[Active] \subseteq {c} /\ parts'[c] = Range(ps)
            /\ Range(ps) \cap table[s] = {} => score'[s] = score[s]
            /\ Range(ps) \cap table[s] # {} /\ (~ (Range(ps) \cap table[s] \subseteq universal)
                                                \/ HasTalisman(table[s], "generality"))
                  => score'[s] >= score[s] + Worth(c) \div 2
<1>1. CASE UNCHANGED <<table, score>>
  BY <1>1
<1>2. CASE ~ UNCHANGED <<table, score>>
  <2>1. PICK order \in PartOrders(Range(ps)) :
          /\ TakeParts(ps, order).ok
          /\ table' = [TakeParts(ps, order).table EXCEPT ![Active] = @ \cup {c}]
          /\ score' = [x \in Seats |-> score[x] +
                 (IF x = Active THEN Worth(c)
                                ELSE (TakeParts(ps, order).share[x] * Worth(c)) \div 2)]
          /\ parts' = [x \in Cards |->
                IF x = c THEN Range(ps) ELSE IF x \in Range(ps) THEN {} ELSE parts[x]]
    BY <1>2 DEF PerformAssemble, Fault, cardVars, ScoresBecome
  <2>2. Len(Requirements(c)) \in Nat /\ Worth(c) \in Nat
    BY DataAssumption DEF Requirements, Worth
  <2> DEFINE v == TakeParts(ps, order)
  <2>3. Shared(v, Range(ps))
    <3>1. IsInjective(ps)
      BY <2>1, <2>2, TakePartsTakes
    <3> QED BY <2>2, <3>1, TakePartsShare DEF Laid, CardsTyped
  <2> HIDE DEF v
  <2>4. /\ table'[s] = table[s] \ Range(ps) /\ table'[Active] \ table[Active] \subseteq {c}
        /\ parts'[c] = Range(ps)
    BY <2>1, <2>3 DEF Shared, v
  <2>5. score'[s] = score[s] + (v.share[s] * Worth(c)) \div 2
    BY <2>1 DEF v
  <2>6. v.share[s] \in Nat /\ score[s] \in Int
    BY <2>3, GameAssumption DEF Shared, Counted
  <2>7. CASE Range(ps) \cap table[s] = {}
    <3>1. v.share[s] = 0
      BY <2>3, <2>7 DEF Shared
    <3>2. score'[s] = score[s]
      BY <2>2, <2>5, <2>6, <3>1
    <3> QED BY <2>4, <2>7, <3>2
  <2>8. CASE /\ Range(ps) \cap table[s] # {}
             /\ \/ ~ (Range(ps) \cap table[s] \subseteq universal)
                \/ HasTalisman(table[s], "generality")
    <3>1. v.share[s] >= 1
      BY <2>3, <2>8 DEF Shared
    <3>2. (v.share[s] * Worth(c)) \div 2 >= Worth(c) \div 2
      <4>1. \A m, n \in Nat : m >= 1 => m * n \in Nat /\ m * n >= n
        OBVIOUS
      <4>2. \A m, n \in Nat : m >= n => m \div 2 >= n \div 2
        OBVIOUS
      <4> QED BY <2>2, <2>6, <3>1, <4>1, <4>2
    <3>3. score'[s] >= score[s] + Worth(c) \div 2
      <4>1. (v.share[s] * Worth(c)) \div 2 \in Int /\ Worth(c) \div 2 \in Int
        <5>1. \A m, n \in Nat : m * n \in Nat
          OBVIOUS
        <5>2. \A m \in Nat : m \div 2 \in Int
          OBVIOUS
        <5> QED BY <2>2, <2>6, <5>1, <5>2
      <4>2. \A a, b, d \in Int : b >= d => a + b >= a + d
        OBVIOUS
      <4> QED BY <2>5, <2>6, <3>2, <4>1, <4>2
    <3> QED BY <2>4, <2>8, <3>3
  <2> QED BY <2>4, <2>7, <2>8
<1> QED BY <1>1, <1>2

\* Only assembling a card gives it parts.
LEMMA OnlyAssembleBuilds ==
  ASSUME CardsTyped, TFP!Legal(flow), Next
  PROVE  \/ \E c \in Cards : \E ps \in PartLists(Len(Requirements(c))) : PerformAssemble(c, ps)
         \/ \A x \in Cards : parts'[x] \subseteq parts[x]
<1>1. Hand \subseteq Cards /\ Nameable \subseteq Cards
  BY DEF Hand, Active, TFP!Legal, TFP!FlowType, TFP!Seats, Seats, CardsTyped, Nameable
<1>2. UNCHANGED parts => \A x \in Cards : parts'[x] \subseteq parts[x]
  OBVIOUS
<1>3. \A c : parts' = [parts EXCEPT ![c] = {}] => \A x \in Cards : parts'[x] \subseteq parts[x]
  BY DEF CardsTyped
<1>4. CASE \/ Start
           \/ \E u \in Seats : Skip(u) \/ EndTurn(u) \/ SpecialSkip(u)
           \/ \E u \in Seats : UnknownCard(u) \/ UnknownDeck(u)
           \/ \E u \in Seats, c \in Cards : Discard(u, c) \/ Give(u, c)
           \/ \E u \in Seats, d \in DeckTypes : Draw(u, d) \/ SpecialDraw(u, d)
  <2>1. UNCHANGED parts
    BY <1>4 DEF Start, StartWith, Skip, EndTurn, SpecialSkip, Discard, Give, TableUnchanged, Draw,
       SpecialDraw, DrawCard, UnknownCard, UnknownDeck, Fault, cardVars
  <2> QED BY <1>2, <2>1
<1>5. CASE \/ \E u \in Seats, c \in Hand, x \in Tops(closet) :
                  CastReveal(u, c, x) \/ CastGlobalReveal(u, c, x) \/ CastMagicReveal(u, c, x)
           \/ \E u \in Seats, c \in Hand, x \in Hand \cup Tops(closet) : CastCreate(u, c, x)
           \/ \E u, t \in Seats, c \in Hand : CastConcience(u, c, t)
           \/ \E u \in Seats, c \in Hand : CastSpeedup(u, c) \/ CastWhirpool(u, c)
                                              \/ CastTransfigure(u, c) \/ CastDiversity(u, c)
           \/ \E u \in Seats, c \in Hand, j \in Requests : CastNecessity(u, c, j)
  <2>1. UNCHANGED parts
    BY <1>5 DEF CastReveal, CastGlobalReveal, CastMagicReveal, Exchange, CastCreate, CastConcience,
       CastSpeedup, CastWhirpool, CastTransfigure, CastDiversity, CastNecessity, OpenWith,
       TableUnchanged
  <2> QED BY <1>2, <2>1
<1>6. CASE \/ \E u \in Seats, c \in Hand, x \in Tops(closet), old \in table[Active] :
                  CastTransform(u, c, x, old)
           \/ \E u \in Seats, c \in Hand, whole \in assembled : \E keep \in parts[whole] :
                  CastDestroy(u, c, keep, whole)
           \/ \E u, s \in Seats, c \in Hand, whole \in assembled : \E loot \in parts[whole] :
                  CastOverthrow(u, c, loot, s, whole)
           \/ \E u \in Seats, c \in assembled : Disassemble(u, c)
  <2>1. \E c : parts' = [parts EXCEPT ![c] = {}]
    BY <1>6 DEF CastTransform, CastDestroy, CastOverthrow, Disassemble
  <2> QED BY <1>3, <2>1
<1>7. CASE \E u \in Seats, c \in Hand, a, b \in assembled : CastForest(u, c, a, b)
  <2>1. PICK a, b : parts' = [parts EXCEPT ![a] = {}, ![b] = {}]
    BY <1>7 DEF CastForest
  <2> QED BY <2>1 DEF CardsTyped
<1>8. CASE Reload
  BY <1>8 DEF Reload
<1>9. CASE \/ \E u \in Seats, c \in Nameable : \E ps \in PartLists(Len(Requirements(c))) :
                   Assemble(u, c, ps)
           \/ \E u \in Seats, c \in Hand : \E ps \in PartLists(Len(Requirements(c))) :
                   SpecialAssemble(u, c, ps)
  BY <1>1, <1>9 DEF Assemble, SpecialAssemble
<1> QED BY <1>4, <1>5, <1>6, <1>7, <1>8, <1>9 DEF Next

\* Whoever loses a potion to another player's recipe is paid for it: the shares of
\* assemble survive the rest of the loop, in whatever order the parts are given.
THEOREM OwnersArePaid == Spec => OwnersPaid
<1> DEFINE Paid == \A s \in Seats \ {Active} : \A new \in table'[Active] \ table[Active] :
                     LET lost == (table[s] \ table'[s]) \cap parts'[new]
                     IN  lost # {} /\ (~(lost \subseteq universal)
                                         \/ HasTalisman(table[s], "generality"))
                           => score'[s] >= score[s] + Worth(new) \div 2
<1>1. Placed /\ Counted /\ TFP!Legal(flow) /\ [Next]_vars => [Paid]_vars
  <2> SUFFICES ASSUME Placed, Counted, TFP!Legal(flow), Next,
                      NEW s \in Seats \ {Active}, NEW new \in table'[Active] \ table[Active],
                      (table[s] \ table'[s]) \cap parts'[new] # {},
                      \/ ~ ((table[s] \ table'[s]) \cap parts'[new] \subseteq universal)
                      \/ HasTalisman(table[s], "generality")
               PROVE  score'[s] >= score[s] + Worth(new) \div 2
    OBVIOUS
  <2>1. Active \in Seats
    BY DEF Active, TFP!Legal, TFP!FlowType, TFP!Seats, Seats
  <2>2. PICK k, w : Laid(k, w)
    BY DEF Placed
  <2>3. PICK x \in Cards : x \in table[s] /\ x \in parts'[new]
    BY <2>2 DEF Laid, CardsTyped
  <2>4. new \in Cards
    <3>1. Placed'
      BY MovesPlace
    <3>2. Active \in Seats /\ CardsTyped'
      BY <2>1, <3>1 DEF Placed, Laid
    <3> QED BY <3>2 DEF CardsTyped
  <2>5. x \notin parts[new]
    BY <2>2, <2>3, <2>4 DEF Laid, Lies
  <2>6. PICK c \in Cards : \E ps \in PartLists(Len(Requirements(c))) : PerformAssemble(c, ps)
    BY <2>2, <2>3, <2>4, <2>5, OnlyAssembleBuilds DEF Laid
  <2>7. PICK ps \in PartLists(Len(Requirements(c))) : PerformAssemble(c, ps)
    BY <2>6
  <2>8. new = c /\ (table[s] \ table'[s]) \cap parts'[new] = Range(ps) \cap table[s]
    BY <2>1, <2>2, <2>7, AssemblePays
  <2> QED BY <2>1, <2>2, <2>7, <2>8, AssemblePays
<1> QED BY <1>1, AlwaysPlaced, AlwaysCounted, FlowAlwaysLegal, PTL DEF Spec, OwnersPaid

\* The turn goes to the next player, whose Growth talisman may be worth a point.
LEMMA EndTurnScores ==
  ASSUME Counted, TFP!Legal(flow), NEW u, EndTurn(u),
         NEW s \in Seats \ {Active}, score'[s] > score[s]
  PROVE  /\ flow'.active = s /\ score'[s] = score[s] + 1
         /\ HasTalisman(table[s], "growth")
         /\ \E t \in Seats \ {s} : score'[t] >= score'[s]
<1>1. PICK paid, growth, earned :
        /\ paid = [score EXCEPT ![Active] = @ + earned] /\ earned \in {0, 1}
        /\ growth = IF /\ HasTalisman(table[NextSeat(Active)], "growth")
                       /\ \E t \in Seats : paid[t] > paid[NextSeat(Active)]
                    THEN 1 ELSE 0
        /\ score' = [paid EXCEPT ![NextSeat(Active)] = @ + growth]
  BY DEF EndTurn, ScoresBecome, TalismanBonus
<1>2. flow'.active = NextSeat(Active) /\ Active \in Seats /\ NextSeat(Active) \in Seats
  <2>1. flow.special = "None" /\ flow' = PassTurn(flow)
    BY DEF EndTurn, Ordinary
  <2>2. DOMAIN flow = {"turn", "special", "idx", "remains", "ingredient", "active", "extra"}
    BY DEF TFP!Legal, TFP!FlowType
  <2>3. flow'.active = NextSeat(Active)
    BY <2>1, <2>2 DEF PassTurn, Advance, AdvanceTurn, Active
  <2>4. Active \in Seats
    BY DEF Active, TFP!Legal, TFP!FlowType, TFP!Seats, Seats
  <2>5. NextSeat(Active) \in Seats
    BY <2>4, NumPlayersAssumption DEF NextSeat, Seats
  <2> QED BY <2>3, <2>4, <2>5
<1>3. \A t \in Seats : score[t] \in Int
  BY GameAssumption DEF Counted
<1>4. DOMAIN score = Seats /\ paid \in [Seats -> Int]
  BY <1>1, <1>2, <1>3 DEF Counted
<1>5. s = NextSeat(Active) /\ growth = 1
  BY <1>1, <1>2, <1>3, <1>4
<1>6. score'[s] = score[s] + 1
  BY <1>1, <1>2, <1>3, <1>4, <1>5
<1>8. HasTalisman(table[s], "growth") /\ \E t \in Seats : paid[t] > paid[s]
  <2>1. growth # 0
    BY <1>5
  <2>2. CASE ~ HasTalisman(table[s], "growth")
    BY <1>1, <1>5, <2>1, <2>2 DEF HasTalisman
  <2>3. CASE ~ \E t \in Seats : paid[t] > paid[s]
    BY <1>1, <1>5, <2>1, <2>3 DEF HasTalisman
  <2> QED BY <2>2, <2>3
<1>7. \E t \in Seats \ {s} : score'[t] >= score'[s]
  <2>1. PICK t \in Seats : paid[t] > paid[s]
    BY <1>8
  <2>2. t # s /\ score'[t] = paid[t] /\ score'[s] = paid[s] + 1
    BY <1>1, <1>4, <1>5, <2>1
  <2>3. paid[t] >= paid[s] + 1
    BY <1>4, <2>1
  <2> QED BY <2>2, <2>3
<1> QED BY <1>2, <1>5, <1>6, <1>7, <1>8

\* Besides assembling, ending a turn and Forest, no move adds to another's score.
LEMMA OnlyThreePay ==
  ASSUME Counted, Next, NEW s \in Seats \ {Active}, score'[s] > score[s]
  PROVE  \/ \E u \in Seats, c \in Nameable : \E ps \in PartLists(Len(Requirements(c))) :
               Assemble(u, c, ps)
         \/ \E u \in Seats, c \in Hand : \E ps \in PartLists(Len(Requirements(c))) :
               SpecialAssemble(u, c, ps)
         \/ \E u \in Seats : EndTurn(u)
         \/ \E u \in Seats, c \in Hand, a, b \in assembled : CastForest(u, c, a, b)
<1>1. /\ score[s] \in Int /\ DOMAIN score = Seats /\ ~ UNCHANGED score
      /\ \A t \in Seats : score[t] \in Int
  BY GameAssumption DEF Counted
<1>2. ~ Start /\ ~ Reload
  BY <1>1 DEF Start, StartWith, Reload
<1>3. \A u, d, c :
        ~ Draw(u, d) /\ ~ Skip(u) /\ ~ SpecialSkip(u) /\ ~ SpecialDraw(u, d)
           /\ ~ Give(u, c) /\ ~ Disassemble(u, c) /\ ~ UnknownCard(u) /\ ~ UnknownDeck(u)
  BY <1>1 DEF Draw, DrawCard, Skip, SpecialSkip, SpecialDraw, UnknownCard, UnknownDeck, Fault, Give,
     Disassemble
<1>4. \A u, c, x, y, z :
        ~ CastTransform(u, c, x, y) /\ ~ CastReveal(u, c, x) /\ ~ CastGlobalReveal(u, c, x)
           /\ ~ CastMagicReveal(u, c, x) /\ ~ CastDestroy(u, c, x, y) /\ ~ CastCreate(u, c, x)
           /\ ~ CastOverthrow(u, c, x, y, z) /\ ~ CastSpeedup(u, c)
  BY <1>1 DEF CastTransform, CastReveal, CastGlobalReveal, CastMagicReveal, Exchange, CastDestroy,
     CastCreate, CastOverthrow, CastSpeedup
<1>5. \A u, c, j :
        ~ CastWhirpool(u, c) /\ ~ CastNecessity(u, c, j) /\ ~ CastTransfigure(u, c)
           /\ ~ CastDiversity(u, c)
  BY <1>1 DEF CastWhirpool, CastNecessity, CastTransfigure, CastDiversity, OpenWith
<1>6. \A u, c : ~ Discard(u, c)
  BY <1>1 DEF Discard, ScoresBecome
<1>7. \A u, c : \A t \in Seats : ~ CastConcience(u, c, t)
  BY <1>1 DEF CastConcience, ScoresBecome
<1> QED BY <1>2, <1>3, <1>4, <1>5, <1>6, <1>7 DEF Next

\* Nobody earns in another's turn but for potions taken from his table, or the one
\* point of Growth that leaves somebody level or ahead: checkGrowthTalisman compares
\* after checkIncomeTalisman has paid.
THEOREM NothingComesForNothing == Spec => NothingForNothing
<1> DEFINE Earned == \A s \in Seats \ {Active} : score'[s] > score[s] =>
                       \/ table[s] \ table'[s] # {}
                       \/ /\ flow'.active = s /\ score'[s] = score[s] + 1
                          /\ HasTalisman(table[s], "growth")
                          /\ \E t \in Seats \ {s} : score'[t] >= score'[s]
<1>1. Placed /\ Counted /\ TFP!Legal(flow) /\ [Next]_vars => [Earned]_vars
  <2> SUFFICES ASSUME Placed, Counted, TFP!Legal(flow), Next,
                      NEW s \in Seats \ {Active}, score'[s] > score[s], table[s] \ table'[s] = {}
               PROVE  /\ flow'.active = s /\ score'[s] = score[s] + 1
                      /\ HasTalisman(table[s], "growth")
                      /\ \E t \in Seats \ {s} : score'[t] >= score'[s]
    OBVIOUS
  <2>1. Active \in Seats /\ \A t \in Seats : score[t] \in Int
    BY GameAssumption DEF Active, TFP!Legal, TFP!FlowType, TFP!Seats, Seats, Counted
  <2>2. PICK k, w : Laid(k, w)
    BY DEF Placed
  <2>3. Hand \subseteq Cards /\ Nameable \subseteq Cards
    BY <2>1, <2>2 DEF Hand, Laid, CardsTyped, Nameable
  <2>4. ASSUME NEW c \in Cards, NEW ps \in PartLists(Len(Requirements(c))), PerformAssemble(c, ps)
        PROVE  FALSE
    <3>1. \/ UNCHANGED <<table, score>>
          \/ /\ table'[s] = table[s] \ Range(ps)
             /\ Range(ps) \cap table[s] = {} => score'[s] = score[s]
      BY <2>1, <2>2, <2>4, AssemblePays
    <3> QED BY <2>1, <3>1
  <2>5. ASSUME NEW u \in Seats, NEW c \in Nameable, NEW ps \in PartLists(Len(Requirements(c))),
               Assemble(u, c, ps)
        PROVE  FALSE
    BY <2>3, <2>4, <2>5 DEF Assemble
  <2>8. ASSUME NEW u \in Seats, NEW c \in Hand, NEW ps \in PartLists(Len(Requirements(c))),
               SpecialAssemble(u, c, ps)
        PROVE  FALSE
    BY <2>3, <2>4, <2>8 DEF SpecialAssemble
  <2>6. CASE \E u \in Seats, c \in Hand, a, b \in assembled : CastForest(u, c, a, b)
    <3>1. PICK a, b : /\ score'[s] = score[s] + 2 * Cardinality({a, b} \cap table[s]) + 0
                      /\ table'[s] = table[s] \ {a, b}
      BY <2>6 DEF CastForest, ScoresBecome, ForestScores
    <3>2. {a, b} \cap table[s] = {}
      BY <3>1
    <3>3. score'[s] = score[s]
      <4>1. score'[s] = score[s] + 2 * Cardinality({}) + 0
        BY ONLY <3>1, <3>2
      <4>2. Cardinality({}) = 0
        BY FS_EmptySet
      <4>3. score'[s] = score[s] + 2 * 0 + 0
        BY <4>1, <4>2
      <4> QED BY <2>1, <4>3
    <3> QED BY <2>1, <3>3
  <2>7. CASE \E u \in Seats : EndTurn(u)
    BY <2>7, EndTurnScores
  <2> QED BY <2>5, <2>6, <2>7, <2>8, OnlyThreePay
<1> QED BY <1>1, AlwaysPlaced, AlwaysCounted, FlowAlwaysLegal, PTL DEF Spec, NothingForNothing

\* The rest is about CanAssemble: counting what is lacking, against layouts of the
\* parts on the requirements.

\* A partial layout of parts on as many requirements can be completed.
LEMMA LayoutExtends ==
  ASSUME NEW n \in Nat, NEW S \in SUBSET (1 .. n), NEW f \in Injection(S, 1 .. n)
  PROVE  \E g \in Injection(1 .. n, 1 .. n) : \A i \in S : g[i] = f[i]
<1> DEFINE all == 1 .. n
           image == {f[i] : i \in S}
<1>1. IsFiniteSet(all)
  BY FS_Interval
<1>2. f \in Bijection(S, image) /\ image \subseteq all
  BY DEF Injection, Bijection, Surjection
<1>3. IsFiniteSet(S) /\ IsFiniteSet(image) /\ Cardinality(image) = Cardinality(S)
  <2>1. IsFiniteSet(S)
    BY <1>1, FS_Subset
  <2>2. ExistsBijection(S, image)
    BY <1>2 DEF ExistsBijection
  <2> QED BY <2>1, <2>2, FS_Bijection
<1>4. /\ IsFiniteSet(all \ S) /\ IsFiniteSet(all \ image)
      /\ Cardinality(all \ S) = Cardinality(all \ image)
  <2>1. all \cap S = S /\ all \cap image = image
    BY <1>2
  <2> HIDE DEF all, image
  <2>2. /\ IsFiniteSet(all \ S)
        /\ Cardinality(all \ S) = Cardinality(all) - Cardinality(all \cap S)
    BY <1>1, FS_Difference
  <2>3. /\ IsFiniteSet(all \ image)
        /\ Cardinality(all \ image) = Cardinality(all) - Cardinality(all \cap image)
    BY <1>1, FS_Difference
  <2> QED BY <1>3, <2>1, <2>2, <2>3
<1>5. PICK h : h \in Bijection(all \ S, all \ image)
  <2> HIDE DEF all, image
  <2> QED BY <1>4, FS_SameCardinalityBij DEF ExistsBijection
<1> DEFINE g == [i \in all |-> IF i \in S THEN f[i] ELSE h[i]]
<1>6. \A i \in all : IF i \in S THEN g[i] = f[i] /\ g[i] \in image
                                ELSE g[i] = h[i] /\ g[i] \in all /\ g[i] \notin image
  <2> HIDE DEF all
  <2> QED BY <1>5 DEF Bijection, Injection
<1>7. \A i, j \in all : g[i] = g[j] => i = j
  <2> TAKE i, j \in all
  <2> HAVE g[i] = g[j]
  <2> HIDE DEF g, all, image
  <2>1. CASE i \in S /\ j \in S
    BY <1>6, <2>1 DEF Injection, IsInjective
  <2>2. CASE i \notin S /\ j \notin S
    BY <1>5, <1>6, <2>2 DEF Bijection, Injection, IsInjective
  <2>3. (i \in S) <=> (j \in S)
    BY <1>6
  <2> QED BY <2>1, <2>2, <2>3
<1>8. g \in [all -> all]
  <2>1. \A i \in all : g[i] \in all
    <3> HIDE DEF g
    <3> QED BY <1>2, <1>6
  <2> QED BY <2>1
<1>9. g \in Injection(all, all)
  <2> HIDE DEF g, all
  <2> QED BY <1>7, <1>8 DEF Injection, IsInjective
<1> QED BY <1>6, <1>9

\* What is left to skip of the requirements U when the cards of P may stand in.
Lacking(U, P) ==
    LET n == Cardinality(U) IN IF P # {} /\ n > 0 THEN n - 1 ELSE n

\* The requirements of U that stand-ins of P can take: none or one.
Helped(U, P) ==
    {A \in SUBSET U : (A # {} => P # {}) /\ \A i, j \in A : i = j}

\* As few requirements are skipped as are lacking.
LEMMA LackingIsLeft ==
  ASSUME NEW U, IsFiniteSet(U), NEW P
  PROVE  /\ Lacking(U, P) \in Nat
         /\ \A A \in Helped(U, P) :
               Cardinality(U \ A) \in Nat /\ Cardinality(U \ A) >= Lacking(U, P)
         /\ \E A \in Helped(U, P) : Cardinality(U \ A) = Lacking(U, P)
<1>1. Cardinality(U) \in Nat /\ (Cardinality(U) = 0 <=> U = {})
  BY FS_CardinalityType, FS_EmptySet
<1>2. Lacking(U, P) \in Nat
  BY <1>1 DEF Lacking
<1>3. \A i : /\ IsFiniteSet(U \ {i})
             /\ Cardinality(U \ {i}) = IF i \in U THEN Cardinality(U) - 1 ELSE Cardinality(U)
  BY FS_RemoveElement
<1>4. ASSUME NEW A \in Helped(U, P)
      PROVE  Cardinality(U \ A) \in Nat /\ Cardinality(U \ A) >= Lacking(U, P)
  <2>1. CASE A = {}
    <3>1. U \ A = U
      BY <2>1
    <3> QED BY <1>1, <3>1 DEF Lacking
  <2>2. CASE A # {}
    <3>1. PICK i \in U : A = {i}
      BY <2>2 DEF Helped
    <3>2. P # {} /\ U # {} /\ Cardinality(U \ A) = Cardinality(U) - 1
      BY <1>3, <2>2, <3>1 DEF Helped
    <3> QED BY <1>1, <3>2 DEF Lacking
  <2> QED BY <2>1, <2>2
<1>5. \E A \in Helped(U, P) : Cardinality(U \ A) = Lacking(U, P)
  <2>1. CASE P # {} /\ U # {}
    <3>1. PICK i \in U : TRUE
      BY <2>1
    <3>2. {i} \in Helped(U, P)
      BY <2>1 DEF Helped
    <3>3. Cardinality(U \ {i}) = Lacking(U, P)
      BY <1>1, <1>3, <2>1 DEF Lacking
    <3> QED BY <3>2, <3>3
  <2>2. CASE ~ (P # {} /\ U # {})
    <3>1. {} \in Helped(U, P) /\ U \ {} = U
      BY DEF Helped
    <3>2. Cardinality(U) = Lacking(U, P)
      BY <1>1, <2>2 DEF Lacking
    <3> QED BY <3>1, <3>2
  <2> QED BY <2>1, <2>2
<1> QED BY <1>2, <1>4, <1>5

\* The same for requirements of two types, of which k may be skipped.
LEMMA LackingOfTwo ==
  ASSUME NEW U, IsFiniteSet(U), NEW V, IsFiniteSet(V), U \cap V = {},
         NEW P, NEW Q, NEW k \in Nat
  PROVE  Lacking(U, P) + Lacking(V, Q) <= k
           <=> \E A \in Helped(U, P), B \in Helped(V, Q) :
                  Cardinality((U \cup V) \ (A \cup B)) <= k
<1>1. ASSUME NEW A \in Helped(U, P), NEW B \in Helped(V, Q)
      PROVE  Cardinality((U \cup V) \ (A \cup B)) = Cardinality(U \ A) + Cardinality(V \ B)
  <2>1. IsFiniteSet(U \ A) /\ IsFiniteSet(V \ B)
    BY FS_Difference
  <2>2. (U \cup V) \ (A \cup B) = (U \ A) \cup (V \ B) /\ (U \ A) \cap (V \ B) = {}
    BY DEF Helped
  <2>3. Cardinality((U \ A) \cap (V \ B)) = 0
    BY <2>2, FS_EmptySet
  <2>4. Cardinality(U \ A) \in Nat /\ Cardinality(V \ B) \in Nat
    BY <2>1, FS_CardinalityType
  <2>5. Cardinality((U \ A) \cup (V \ B))
          = Cardinality(U \ A) + Cardinality(V \ B) - Cardinality((U \ A) \cap (V \ B))
    BY <2>1, FS_Union
  <2>6. Cardinality((U \ A) \cup (V \ B)) = Cardinality(U \ A) + Cardinality(V \ B)
    BY <2>3, <2>4, <2>5
  <2> QED BY <2>2, <2>6
<1>2. ASSUME Lacking(U, P) + Lacking(V, Q) <= k
      PROVE  \E A \in Helped(U, P), B \in Helped(V, Q) : Cardinality((U \cup V) \ (A \cup B)) <= k
  <2>1. PICK A \in Helped(U, P) : Cardinality(U \ A) = Lacking(U, P)
    BY LackingIsLeft
  <2>2. PICK B \in Helped(V, Q) : Cardinality(V \ B) = Lacking(V, Q)
    BY LackingIsLeft
  <2> QED BY <1>1, <1>2, <2>1, <2>2
<1>3. ASSUME NEW A \in Helped(U, P), NEW B \in Helped(V, Q),
             Cardinality((U \cup V) \ (A \cup B)) <= k
      PROVE  Lacking(U, P) + Lacking(V, Q) <= k
  <2>1. /\ Lacking(U, P) \in Nat /\ Lacking(V, Q) \in Nat
        /\ Cardinality(U \ A) \in Nat /\ Cardinality(U \ A) >= Lacking(U, P)
        /\ Cardinality(V \ B) \in Nat /\ Cardinality(V \ B) >= Lacking(V, Q)
    BY LackingIsLeft
  <2>2. Cardinality(U \ A) + Cardinality(V \ B) <= k
    BY <1>1, <1>3
  <2> QED BY <2>1, <2>2
<1> QED BY <1>2, <1>3

\* The requirements of type t that no part fits.
Unfit(c, ps, t) ==
    {i \in DOMAIN Requirements(c) :
        /\ Requirements(c)[i].type = t
        /\ \A p \in Range(ps) : ~Matches(Requirements(c)[i], p, assembled)}

\* The parts that may stand in for what a requirement of type t asks for.
GivenStandIns(ps, t) ==
    {p \in Range(ps) : IF t = "ingredient" THEN p \notin assembled /\ GetIngredient(p) = Magema
                                           ELSE p \in assembled /\ p \in UniversalPotions}

\* A requirement asks for an ingredient or for a potion.
LEMMA RequirementTypes ==
  ASSUME NEW c \in Cards
  PROVE  /\ Len(Requirements(c)) \in Nat
         /\ DOMAIN Requirements(c) = 1 .. Len(Requirements(c))
         /\ \A i \in DOMAIN Requirements(c) :
               Requirements(c)[i].type \in {"ingredient", "recipe"}
<1> DEFINE rs == Requirements(c)
           Requirement == [type : {"ingredient", "recipe"}, ids : SUBSET Nat]
<1>1. rs \in Seq(Requirement)
  BY DataAssumption DEF Requirements
<1>2. /\ Len(rs) \in Nat /\ DOMAIN rs = 1 .. Len(rs)
      /\ \A i \in DOMAIN rs : rs[i] \in Requirement
  <2> HIDE DEF rs, Requirement
  <2> QED BY <1>1
<1>3. \A i \in DOMAIN rs : rs[i].type \in {"ingredient", "recipe"}
  <2> HIDE DEF rs
  <2> QED BY <1>2
<1> QED BY <1>2, <1>3

\* CanAssemble counts what is lacking of each type.
LEMMA CanAssembleCounts ==
  ASSUME NEW c \in Cards, IsRecipe(c), NEW ps, Len(ps) = Len(Requirements(c)), NEW k
  PROVE  CanAssemble(c, ps, k, assembled)
           <=> Lacking(Unfit(c, ps, "ingredient"), GivenStandIns(ps, "ingredient"))
                 + Lacking(Unfit(c, ps, "recipe"), GivenStandIns(ps, "recipe")) <= k
<1>1. (\E p \in Range(ps) : p \notin assembled /\ GetIngredient(p) = Magema)
         <=> GivenStandIns(ps, "ingredient") # {}
  BY DEF GivenStandIns
<1>2. (\E p \in Range(ps) : p \in assembled /\ p \in UniversalPotions)
         <=> GivenStandIns(ps, "recipe") # {}
  BY DEF GivenStandIns
<1>3. CanAssemble(c, ps, k, assembled)
        <=> (IF /\ \E p \in Range(ps) : p \notin assembled /\ GetIngredient(p) = Magema
                /\ Cardinality(Unfit(c, ps, "ingredient")) > 0
             THEN Cardinality(Unfit(c, ps, "ingredient")) - 1
             ELSE Cardinality(Unfit(c, ps, "ingredient")))
            + (IF /\ \E p \in Range(ps) : p \in assembled /\ p \in UniversalPotions
                  /\ Cardinality(Unfit(c, ps, "recipe")) > 0
               THEN Cardinality(Unfit(c, ps, "recipe")) - 1
               ELSE Cardinality(Unfit(c, ps, "recipe"))) <= k
  BY Zenon DEF CanAssemble, Unfit
<1> QED BY <1>1, <1>2, <1>3 DEF Lacking

\* A layout skips at least what is lacking.
LEMMA LayoutLeaves ==
  ASSUME NEW c \in Cards, NEW ps, NEW k \in Nat, LaidOut(c, ps, k)
  PROVE  \E A \in Helped(Unfit(c, ps, "ingredient"), GivenStandIns(ps, "ingredient")),
            B \in Helped(Unfit(c, ps, "recipe"), GivenStandIns(ps, "recipe")) :
           Cardinality((Unfit(c, ps, "ingredient") \cup Unfit(c, ps, "recipe")) \ (A \cup B)) <= k
<1> DEFINE rs == Requirements(c)
           U == Unfit(c, ps, "ingredient")
           V == Unfit(c, ps, "recipe")
<1>1. PICK lay \in [DOMAIN rs -> DOMAIN ps], amiss \in SUBSET DOMAIN rs :
        /\ Cardinality(amiss) <= k
        /\ LET odd == {i \in DOMAIN rs \ amiss : ~Matches(rs[i], ps[lay[i]], assembled)}
           IN  /\ \A i \in odd : StandsIn(rs[i], ps[lay[i]])
               /\ \A i, j \in odd : rs[i].type = rs[j].type => i = j
  BY DEF LaidOut
<1> DEFINE odd == {i \in DOMAIN rs \ amiss : ~Matches(rs[i], ps[lay[i]], assembled)}
           A == U \cap odd
           B == V \cap odd
<1>2. \A i \in DOMAIN rs : ps[lay[i]] \in Range(ps)
  BY DEF Range
<1>3. U \subseteq DOMAIN rs /\ V \subseteq DOMAIN rs
  BY DEF Unfit
<1>4. (U \cup V) \ (A \cup B) \subseteq amiss
  <2>1. \A i \in U \cup V : ~Matches(rs[i], ps[lay[i]], assembled)
    BY <1>2 DEF Unfit
  <2> HIDE DEF U, V, rs
  <2> QED BY <1>3, <2>1
<1>5. A \in Helped(U, GivenStandIns(ps, "ingredient"))
  <2>1. \A i \in A : rs[i].type = "ingredient"
    BY DEF Unfit
  <2>2. \A i \in A : ps[lay[i]] \in GivenStandIns(ps, "ingredient")
    BY <1>1, <1>2, <2>1 DEF StandsIn, GivenStandIns
  <2>3. \A i, j \in A : i = j
    BY <1>1, <2>1
  <2> HIDE DEF U, odd
  <2> QED BY <2>2, <2>3 DEF Helped
<1>6. B \in Helped(V, GivenStandIns(ps, "recipe"))
  <2>1. \A i \in B : rs[i].type = "recipe"
    BY DEF Unfit
  <2>2. \A i \in B : ps[lay[i]] \in GivenStandIns(ps, "recipe")
    BY <1>1, <1>2, <2>1 DEF StandsIn, GivenStandIns
  <2>3. \A i, j \in B : i = j
    BY <1>1, <2>1
  <2> HIDE DEF V, odd
  <2> QED BY <2>2, <2>3 DEF Helped
<1>7. Cardinality((U \cup V) \ (A \cup B)) <= k
  <2>1. IsFiniteSet(DOMAIN rs)
    BY RequirementTypes, FS_Interval
  <2>2. IsFiniteSet(amiss)
    BY <2>1, FS_Subset
  <2> DEFINE left == (U \cup V) \ (A \cup B)
  <2>3. left \in SUBSET amiss
    BY <1>4
  <2> HIDE DEF left
  <2>4. IsFiniteSet(left) /\ Cardinality(left) <= Cardinality(amiss)
    BY <2>2, <2>3, FS_Subset
  <2>5. Cardinality(left) \in Nat /\ Cardinality(amiss) \in Nat
    BY <2>2, <2>4, FS_CardinalityType
  <2>6. Cardinality(left) <= k
    BY <1>1, <2>4, <2>5
  <2> QED BY <2>6 DEF left
<1> QED BY <1>5, <1>6, <1>7

\* What is not lacking can be laid out, if no part fits twice: the stand-ins fit
\* nothing themselves, so they are free.
LEMMA LeftIsLaidOut ==
  ASSUME NEW c \in Cards, IsRecipe(c), NEW ps, DOMAIN ps = DOMAIN Requirements(c),
         Range(ps) \subseteq Cards,
         \A p \in Range(ps), i, j \in DOMAIN Requirements(c) :
            /\ Matches(Requirements(c)[i], p, assembled)
            /\ Matches(Requirements(c)[j], p, assembled)
            => i = j,
         NEW k \in Nat,
         NEW A \in Helped(Unfit(c, ps, "ingredient"), GivenStandIns(ps, "ingredient")),
         NEW B \in Helped(Unfit(c, ps, "recipe"), GivenStandIns(ps, "recipe")),
         Cardinality((Unfit(c, ps, "ingredient") \cup Unfit(c, ps, "recipe")) \ (A \cup B)) <= k
  PROVE  LaidOut(c, ps, k)
<1> DEFINE rs == Requirements(c)
           U == Unfit(c, ps, "ingredient")
           V == Unfit(c, ps, "recipe")
           amiss == (U \cup V) \ (A \cup B)
           S == DOMAIN rs \ amiss
           fits(i, j) == Matches(rs[i], ps[j], assembled)
           good(i, j) == /\ j \in DOMAIN ps
                         /\ IF i \in A \cup B THEN StandsIn(rs[i], ps[j]) ELSE fits(i, j)
<1>1. /\ U \subseteq DOMAIN rs /\ V \subseteq DOMAIN rs
      /\ \A i \in U : rs[i].type = "ingredient"
      /\ \A i \in V : rs[i].type = "recipe"
  BY DEF Unfit
<1>2. /\ A \subseteq U /\ B \subseteq V
      /\ \A i, j \in A : i = j
      /\ \A i, j \in B : i = j
  BY DEF Helped
<1>3. \A i \in S : \E j : good(i, j)
  <2> TAKE i \in S
  <2>1. CASE i \in A
    <3>1. PICK p \in GivenStandIns(ps, "ingredient") : TRUE
      BY <2>1 DEF Helped
    <3>2. PICK j \in DOMAIN ps : ps[j] = p
      BY DEF GivenStandIns, Range
    <3>3. StandsIn(rs[i], ps[j])
      BY <1>1, <1>2, <2>1, <3>2 DEF StandsIn, GivenStandIns
    <3> QED BY <2>1, <3>3
  <2>2. CASE i \in B
    <3>1. PICK p \in GivenStandIns(ps, "recipe") : TRUE
      BY <2>2 DEF Helped
    <3>2. PICK j \in DOMAIN ps : ps[j] = p
      BY DEF GivenStandIns, Range
    <3>3. StandsIn(rs[i], ps[j])
      BY <1>1, <1>2, <2>2, <3>2 DEF StandsIn, GivenStandIns
    <3> QED BY <2>2, <3>3
  <2>3. CASE i \notin A \cup B
    <3>1. i \in DOMAIN rs /\ i \notin U /\ i \notin V
      BY <2>3
    <3>2. PICK p \in Range(ps) : Matches(rs[i], p, assembled)
      BY <3>1, RequirementTypes DEF Unfit
    <3>3. PICK j \in DOMAIN ps : ps[j] = p
      BY DEF Range
    <3> QED BY <2>3, <3>2, <3>3
  <2> QED BY <2>1, <2>2, <2>3
<1> DEFINE f == [i \in S |-> CHOOSE j : good(i, j)]
<1>4. \A i \in S : good(i, f[i])
  <2> HIDE DEF good, S
  <2> QED BY <1>3
<1>5. \A i \in S, j \in S : f[i] = f[j] => i = j
  <2> SUFFICES ASSUME NEW i \in S, NEW j \in S, f[i] = f[j] PROVE i = j
    OBVIOUS
  <2> DEFINE p == ps[f[i]]
  <2>1. /\ IF i \in A \cup B THEN StandsIn(rs[i], p) ELSE Matches(rs[i], p, assembled)
        /\ IF j \in A \cup B THEN StandsIn(rs[j], p) ELSE Matches(rs[j], p, assembled)
        /\ i \in DOMAIN rs /\ j \in DOMAIN rs
        /\ f[i] \in DOMAIN ps
    <3> HIDE DEF f
    <3> QED BY <1>4
  <2>2. p \in Range(ps) /\ p \in Cards
    <3> HIDE DEF f
    <3> QED BY <2>1 DEF Range
  <2> HIDE DEF p, f
  <2>3. ASSUME NEW x \in A \cup B, NEW y \in DOMAIN rs, StandsIn(rs[x], p)
        PROVE  ~ Matches(rs[y], p, assembled)
    <3>1. /\ rs[y].type = "ingredient" =>
                (GetIngredient(p) = Magema => Ingredients(p) \cap rs[y].ids = {})
          /\ rs[y].type # "ingredient" => rs[y].ids \cap UniversalPotions = {}
      BY <2>2, StandInsAssumption
    <3>2. IF rs[x].type = "ingredient" THEN p \notin assembled /\ GetIngredient(p) = Magema
                                       ELSE p \in assembled /\ p \in UniversalPotions
      BY <2>3 DEF StandsIn
    <3> HIDE DEF rs
    <3> QED BY <3>1, <3>2 DEF Matches
  <2>4. CASE i \in A \cup B /\ j \in A \cup B
    <3>1. StandsIn(rs[i], p) /\ StandsIn(rs[j], p)
      BY <2>1, <2>4
    <3>2. (i \in A <=> p \notin assembled) /\ (j \in A <=> p \notin assembled)
      BY <1>1, <1>2, <2>4, <3>1 DEF StandsIn
    <3> QED BY <1>2, <2>4, <3>2
  <2>5. CASE i \notin A \cup B /\ j \notin A \cup B
    BY <2>1, <2>2, <2>5
  <2> QED BY <2>1, <2>3, <2>4, <2>5
<1> DEFINE n == Len(rs)
<1>6. n \in Nat /\ DOMAIN rs = 1 .. n /\ DOMAIN ps = 1 .. n /\ S \subseteq 1 .. n
  BY RequirementTypes
<1>7. f \in Injection(S, 1 .. n)
  <2>1. \A i \in S : f[i] \in 1 .. n
    <3> HIDE DEF f, S, n
    <3> QED BY <1>4, <1>6
  <2>2. f \in [S -> 1 .. n]
    <3> HIDE DEF S, n, good
    <3> QED BY <2>1
  <2> HIDE DEF f, S, n
  <2> QED BY <1>5, <2>2 DEF Injection, IsInjective
<1>8. PICK lay \in Injection(1 .. n, 1 .. n) : \A i \in S : lay[i] = f[i]
  <2> HIDE DEF f, S, n
  <2> QED BY <1>6, <1>7, LayoutExtends
<1>9. lay \in [DOMAIN rs -> DOMAIN ps] /\ IsInjective(lay)
  BY <1>6, <1>8 DEF Injection
<1>10. amiss \in SUBSET DOMAIN rs /\ Cardinality(amiss) <= k
  BY <1>1
<1> DEFINE odd == {i \in DOMAIN rs \ amiss : ~Matches(rs[i], ps[lay[i]], assembled)}
<1>11. \A i \in odd : i \in A \cup B /\ StandsIn(rs[i], ps[lay[i]])
  <2> TAKE i \in odd
  <2>1. i \in S /\ ~ fits(i, lay[i]) /\ lay[i] = f[i]
    BY <1>8
  <2>2. good(i, lay[i])
    BY <1>4, <2>1
  <2> QED BY <2>1, <2>2
<1>12. \A i, j \in odd : rs[i].type = rs[j].type => i = j
  <2> HIDE DEF odd
  <2> QED BY <1>1, <1>2, <1>11
<1> HIDE DEF amiss
<1> QED BY <1>9, <1>10, <1>11, <1>12 DEF LaidOut

\* CanAssemble accepts exactly the parts that can be laid out on the requirements,
\* in every position of every game and whatever the recipes ask for, as long as
\* none asks for a card that may stand in for another.
THEOREM PartsAreJudged == Spec => []AcceptsWhatFits
<1>1. Placed /\ TFP!Legal(flow) => AcceptsWhatFits
  <2> SUFFICES ASSUME Placed, TFP!Legal(flow),
                      NEW c \in Hand, IsRecipe(c), NEW ps \in DistinctParts(Len(Requirements(c))),
                      \A p \in Range(ps), i, j \in DOMAIN Requirements(c) :
                         /\ Matches(Requirements(c)[i], p, assembled)
                         /\ Matches(Requirements(c)[j], p, assembled)
                         => i = j,
                      NEW k \in 0 .. 1
               PROVE  CanAssemble(c, ps, k, assembled) <=> LaidOut(c, ps, k)
    BY DEF AcceptsWhatFits
  <2>1. c \in Cards /\ k \in Nat /\ Offered \subseteq Cards
    <3>1. Active \in Seats
      BY DEF Active, TFP!Legal, TFP!FlowType, TFP!Seats, Seats
    <3> QED BY <3>1, TopsInCloset DEF Hand, Placed, Laid, CardsTyped, Offered
  <2>2. /\ Len(Requirements(c)) \in Nat
        /\ DOMAIN Requirements(c) = 1 .. Len(Requirements(c))
    BY <2>1, RequirementTypes
  <2>3. /\ ps \in [1 .. Len(Requirements(c)) -> Cards]
        /\ Len(ps) = Len(Requirements(c)) /\ DOMAIN ps = DOMAIN Requirements(c)
    BY <2>1, <2>2 DEF DistinctParts, Offered
  <2>4. Range(ps) \subseteq Cards
    BY <2>3 DEF Range
  <2> DEFINE U == Unfit(c, ps, "ingredient")
             V == Unfit(c, ps, "recipe")
             P == GivenStandIns(ps, "ingredient")
             Q == GivenStandIns(ps, "recipe")
  <2>5. IsFiniteSet(U) /\ IsFiniteSet(V) /\ U \cap V = {}
    <3>1. IsFiniteSet(DOMAIN Requirements(c))
      BY <2>2, FS_Interval
    <3>2. U \subseteq DOMAIN Requirements(c) /\ V \subseteq DOMAIN Requirements(c)
      BY DEF Unfit
    <3>3. U \cap V = {}
      BY DEF Unfit
    <3> HIDE DEF U, V
    <3> QED BY <3>1, <3>2, <3>3, FS_Subset
  <2>6. CanAssemble(c, ps, k, assembled) <=> Lacking(U, P) + Lacking(V, Q) <= k
    BY <2>1, <2>3, CanAssembleCounts
  <2> HIDE DEF U, V, P, Q
  <2>7. Lacking(U, P) + Lacking(V, Q) <= k
          <=> \E A \in Helped(U, P), B \in Helped(V, Q) :
                 Cardinality((U \cup V) \ (A \cup B)) <= k
    BY <2>1, <2>5, LackingOfTwo
  <2> USE DEF U, V, P, Q
  <2>8. LaidOut(c, ps, k) => \E A \in Helped(U, P), B \in Helped(V, Q) :
                                Cardinality((U \cup V) \ (A \cup B)) <= k
    BY <2>1, LayoutLeaves
  <2>9. ASSUME NEW A \in Helped(U, P), NEW B \in Helped(V, Q),
               Cardinality((U \cup V) \ (A \cup B)) <= k
        PROVE  LaidOut(c, ps, k)
    BY <2>1, <2>3, <2>4, <2>9, LeftIsLaidOut
  <2> HIDE DEF U, V, P, Q
  <2> QED BY <2>6, <2>7, <2>8, <2>9
<1> QED BY <1>1, AlwaysPlaced, FlowAlwaysLegal, PTL
=============================================================================
