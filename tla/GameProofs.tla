----------------------------- MODULE GameProofs -----------------------------
(***************************************************************************)
(* Proofs about Game for every set of cards, every number of players and   *)
(* all sizes of the rules: a game implements TurnFlow, whose theorems then *)
(* hold of games, and nobody is stuck but in the two known situations.     *)
(* The second rests on the legal phases of TurnFlow and on hands being     *)
(* finite (HandsFinite): a hand has a size to compare with the limits.     *)
(***************************************************************************)
EXTENDS GameProperties, FiniteSetTheorems, TLAPS

\* Game and TurnFlow are built from the same operators of Turn.
LEMMA SameTurns ==
  /\ \A f : TF!Advance(f) = Advance(f) /\ TF!PassTurn(f) = PassTurn(f)
  /\ \A f : /\ TF!OpenWhirpool(f) = OpenWhirpool(f)
            /\ TF!OpenTransfigure(f) = OpenTransfigure(f)
            /\ TF!OpenDiversity(f) = OpenDiversity(f)
            /\ TF!GrantPlays(f) = GrantPlays(f)
  /\ \A f, i : TF!OpenNecessity(f, i) = OpenNecessity(f, i)
  /\ TF!InitFlow = InitFlow
  /\ TF!PlayPhases = PlayPhases /\ TF!Requestable = Requestable
  /\ TF!Seats = Seats
<1>1. \A f : TF!Advance(f) = Advance(f)
  BY DEF TF!Advance, TF!AdvanceSpecial, TF!AdvanceTurn, TF!CloseSpecial, TF!NextTurn, TF!NextSeat,
         Advance, AdvanceSpecial, AdvanceTurn, CloseSpecial, NextTurn, NextSeat
<1>2. \A f : TF!PassTurn(f) = PassTurn(f)
  BY <1>1 DEF TF!PassTurn, PassTurn, TF!NextSeat, NextSeat
<1>3. \A f : /\ TF!OpenWhirpool(f) = OpenWhirpool(f)
            /\ TF!OpenTransfigure(f) = OpenTransfigure(f)
            /\ TF!OpenDiversity(f) = OpenDiversity(f)
            /\ TF!GrantPlays(f) = GrantPlays(f)
  BY DEF TF!OpenWhirpool, TF!OpenTransfigure, TF!OpenDiversity, TF!GrantPlays, TF!DrawsGranted,
     TF!PlaysGranted, OpenWhirpool, OpenTransfigure, OpenDiversity, GrantPlays, DrawsGranted,
     PlaysGranted
<1>4. \A f, i : TF!OpenNecessity(f, i) = OpenNecessity(f, i)
  BY DEF TF!OpenNecessity, OpenNecessity, TF!NextSeat, NextSeat
<1>5. /\ TF!InitFlow = InitFlow /\ TF!PlayPhases = PlayPhases
       /\ TF!Requestable = Requestable /\ TF!Seats = Seats
  BY DEF TF!InitFlow, InitFlow, TF!PlayPhases, PlayPhases, TF!Requestable, Requestable,
     TF!Seats, Seats
<1> QED BY <1>1, <1>2, <1>3, <1>4, <1>5


\* Every move is one of TurnFlow, or leaves the control state alone.
LEMMA MovesAreTurnFlow ==
  ASSUME Next
  PROVE  TF!Next \/ UNCHANGED flow
<1> USE SameTurns
<1>1. CASE Start
  <2>1. flow.turn = "Preparing" /\ flow' = [flow EXCEPT !.turn = "Drawing"]
    BY <1>1 DEF Start, StartWith
  <2> QED BY <2>1 DEF TF!Next, TF!Start
<1>2. CASE \E u \in Seats, d \in DeckTypes : Draw(u, d)
  <2>1. PICK u \in Seats, d \in DeckTypes : Draw(u, d)
    BY <1>2
  <2>2. Ordinary(u) /\ ValidateDraw(d)
    BY <2>1 DEF Draw
  <2>3. flow' = Advance(flow) \/ flow' = flow
    BY <2>1 DEF Draw, DrawCard
  <2> QED BY <2>2, <2>3 DEF Ordinary, ValidateDraw, MayDraw, TF!Next, TF!Draw, TF!Ordinary
<1>3. CASE \E u \in Seats : Skip(u)
  <2>1. PICK u \in Seats : Skip(u)
    BY <1>3
  <2>2. Ordinary(u) /\ ValidateSkip /\ flow' = Advance(flow)
    BY <2>1 DEF Skip
  <2> QED BY <2>2 DEF Ordinary, ValidateSkip, TF!Next, TF!Skip, TF!Ordinary
<1>4. ASSUME NEW u \in Seats, MayPlay(u)
      PROVE  /\ flow' = Advance(flow) => TF!Next
             /\ flow' = OpenWhirpool(flow) => TF!Next
             /\ \A i \in Requestable : flow' = OpenNecessity(flow, i) => TF!Next
             /\ flow' = OpenTransfigure(flow) => TF!Next
             /\ flow' = OpenDiversity(flow) => TF!Next
             /\ flow' = GrantPlays(flow) => TF!Next
  <2>1. TF!MayPlay
    BY <1>4 DEF MayPlay, Ordinary, TF!MayPlay, TF!Ordinary
  <2> QED BY <2>1 DEF TF!Next, TF!Play, TF!CastWhirpool, TF!CastNecessity, TF!CastTransfigure,
                      TF!CastDiversity, TF!CastSpeedup
<1>5. \A c, ps : PerformAssemble(c, ps) => flow' = Advance(flow) \/ flow' = flow
  BY DEF PerformAssemble, Fault
<1>6. CASE \E u \in Seats, c \in Cards : Discard(u, c)
  <2>1. PICK u \in Seats, c \in Cards : Discard(u, c)
    BY <1>6
  <2> QED BY <2>1, <1>4 DEF Discard
<1>7. CASE \E u \in Seats, c \in Nameable : \E ps \in PartLists(Len(Requirements(c))) :
             Assemble(u, c, ps)
  <2>1. PICK u \in Seats, c \in Nameable :
             \E ps \in PartLists(Len(Requirements(c))) : Assemble(u, c, ps)
    BY <1>7
  <2>2. PICK ps \in PartLists(Len(Requirements(c))) : Assemble(u, c, ps)
    BY <2>1
  <2> QED BY <2>2, <1>4, <1>5 DEF Assemble
<1>8. CASE \E u \in Seats : EndTurn(u)
  <2>1. PICK u \in Seats : EndTurn(u)
    BY <1>8
  <2>2. Ordinary(u) /\ flow.turn = "Done" /\ flow' = PassTurn(flow)
    BY <2>1 DEF EndTurn
  <2> QED BY <2>2 DEF Ordinary, TF!Next, TF!EndTurn, TF!Ordinary
<1>9. CASE \E u \in Seats, c \in Hand, new \in Tops(closet), old \in table[Active] :
             CastTransform(u, c, new, old)
  BY <1>9 DEF CastTransform
<1>10. CASE \E u \in Seats, c \in Hand, x \in Tops(closet) :
              CastReveal(u, c, x) \/ CastMagicReveal(u, c, x)
  BY <1>10 DEF CastReveal, CastMagicReveal
<1>11. CASE \E u \in Seats, c \in Hand, x \in Tops(closet) : CastGlobalReveal(u, c, x)
  <2>1. PICK u \in Seats, c \in Hand, x \in Tops(closet) : CastGlobalReveal(u, c, x)
    BY <1>11
  <2> QED BY <2>1, <1>4 DEF CastGlobalReveal, MayCast
<1>12. CASE \E u \in Seats, c \in Hand, whole \in assembled : \E keep \in parts[whole] :
              CastDestroy(u, c, keep, whole)
  BY <1>12 DEF CastDestroy
<1>13. CASE \E u \in Seats, c \in Hand, new \in Hand \cup Tops(closet) : CastCreate(u, c, new)
  <2>1. PICK u \in Seats, c \in Hand, new \in Hand \cup Tops(closet) : CastCreate(u, c, new)
    BY <1>13
  <2>2. MayPlay(u) /\ flow' = Advance(flow)
    BY <2>1 DEF CastCreate, MayCast
  <2> QED BY <2>2, <1>4
<1>14. CASE \E u, s \in Seats, c \in Hand, whole \in assembled : \E loot \in parts[whole] :
              CastOverthrow(u, c, loot, s, whole)
  <2>1. PICK u \in Seats : MayPlay(u) /\ flow' = Advance(flow)
    BY <1>14 DEF CastOverthrow, MayCast
  <2> QED BY <2>1, <1>4
<1>15. CASE \E u \in Seats, c \in Hand, a, b \in assembled : CastForest(u, c, a, b)
  <2>1. PICK u \in Seats : MayPlay(u) /\ flow' = Advance(flow)
    BY <1>15 DEF CastForest, MayCast
  <2> QED BY <2>1, <1>4
<1>16. CASE \E u, t \in Seats, c \in Hand : CastConcience(u, c, t)
  <2>1. PICK u \in Seats : MayPlay(u) /\ flow' = Advance(flow)
    BY <1>16 DEF CastConcience, MayCast
  <2> QED BY <2>1, <1>4
<1>17. CASE \E u \in Seats, c \in Hand :
              CastSpeedup(u, c) \/ CastWhirpool(u, c) \/ CastTransfigure(u, c)
                \/ CastDiversity(u, c)
  <2>1. PICK u \in Seats : /\ MayPlay(u)
                           /\ flow' \in {GrantPlays(flow), OpenWhirpool(flow),
                                         OpenTransfigure(flow), OpenDiversity(flow)}
    BY <1>17 DEF CastSpeedup, CastWhirpool, CastTransfigure, CastDiversity, OpenWith, MayCast
  <2> QED BY <2>1, <1>4
<1>18. CASE \E u \in Seats, c \in Hand, i \in Requests : CastNecessity(u, c, i)
  <2>1. PICK u \in Seats, i \in Requests : MayPlay(u) /\ flow' = OpenNecessity(flow, i)
    BY <1>18 DEF CastNecessity, OpenWith, MayCast
  <2> QED BY <2>1, <1>4, GameAssumption
<1>19. CASE \E u \in Seats, c \in assembled : Disassemble(u, c)
  BY <1>19 DEF Disassemble
<1>20. CASE \E u \in Seats : SpecialSkip(u)
  <2>1. flow.special \in {"DrawExtra", "Disassembling", "Giving"} /\ flow' = Advance(flow)
    BY <1>20 DEF SpecialSkip, MaySpecialSkip, Asked
  <2> QED BY <2>1 DEF TF!Next, TF!SpecialSkip
<1>21. CASE \E u \in Seats, c \in Cards : Give(u, c)
  <2>1. flow.special = "Giving" /\ flow' = [flow EXCEPT !.special = "None"]
    BY <1>21 DEF Give, MayGive, Asked
  <2> QED BY <2>1 DEF TF!Next, TF!Give
<1>22. CASE \E u \in Seats, c \in Hand : \E ps \in PartLists(Len(Requirements(c))) :
              SpecialAssemble(u, c, ps)
  <2>1. /\ flow.special # "None"
        /\ flow' = Advance(flow) \/ flow' = flow
    BY <1>22, <1>5 DEF SpecialAssemble, MaySpecialAssemble
  <2> QED BY <2>1 DEF TF!Next, TF!SpecialAssemble
<1>23. CASE \E u \in Seats, d \in DeckTypes : SpecialDraw(u, d)
  <2>1. flow.special = "DrawExtra" /\ flow.remains > 0
    BY <1>23 DEF SpecialDraw, MaySpecialDraw
  <2>2. flow' = Advance(flow) \/ flow' = flow
    BY <1>23, <2>1 DEF SpecialDraw, Fault, DrawCard
  <2> QED BY <2>1, <2>2 DEF TF!Next, TF!SpecialDraw
<1>24. CASE \E u \in Seats : UnknownCard(u) \/ UnknownDeck(u)
  BY <1>24 DEF UnknownCard, UnknownDeck, Fault
<1>25. CASE Reload
  BY <1>25 DEF Reload
<1> QED BY <1>1, <1>2, <1>3, <1>6, <1>7, <1>8, <1>9, <1>10, <1>11, <1>12, <1>13, <1>14, <1>15,
   <1>16, <1>17, <1>18, <1>19, <1>20, <1>21, <1>22, <1>23, <1>24, <1>25 DEF Next

\* Seen without its cards, a game is a behaviour of TurnFlow.
THEOREM GameImplementsTurnFlow == Spec => ImplementsTurnFlow
<1>1. Init => TF!Init
  BY SameTurns DEF Init, TF!Init
<1>2. [Next]_vars => [TF!Next]_flow
  BY MovesAreTurnFlow DEF vars
<1> QED BY <1>1, <1>2, PTL DEF Spec, ImplementsTurnFlow, TF!Spec

\* The theorems about the turns.
TFP == INSTANCE TurnFlowProofs

\* The control state of a game is legal in every position.
LEMMA FlowAlwaysLegal == Spec => []TFP!Legal(flow)
<1>1. TF!Next <=> TFP!Next
  BY DEF TFP!Next, TFP!Start, TFP!Ordinary, TFP!MayPlay, TFP!Draw, TFP!Skip, TFP!Play,
     TFP!CastWhirpool, TFP!CastNecessity, TFP!CastTransfigure, TFP!CastDiversity,
     TFP!CastSpeedup, TFP!EndTurn, TFP!SpecialSkip, TFP!Give, TFP!SpecialAssemble,
     TFP!SpecialDraw, TF!Next, TF!Start, TF!Ordinary, TF!MayPlay, TF!Draw, TF!Skip, TF!Play,
     TF!CastWhirpool, TF!CastNecessity, TF!CastTransfigure, TF!CastDiversity, TF!CastSpeedup,
     TF!EndTurn, TF!SpecialSkip, TF!Give, TF!SpecialAssemble, TF!SpecialDraw, TF!PlayPhases,
     TFP!PlayPhases, TF!Requestable, TFP!Requestable, TF!Advance, TF!AdvanceSpecial,
     TF!AdvanceTurn, TF!CloseSpecial, TF!NextTurn, TF!NextSeat, TFP!Advance, TFP!AdvanceSpecial,
     TFP!AdvanceTurn, TFP!CloseSpecial, TFP!NextTurn, TFP!NextSeat, TF!OpenWhirpool,
     TF!OpenTransfigure, TF!OpenDiversity, TF!GrantPlays, TF!DrawsGranted, TF!PlaysGranted,
     TFP!OpenWhirpool, TFP!OpenTransfigure, TFP!OpenDiversity, TFP!GrantPlays, TFP!DrawsGranted,
     TFP!PlaysGranted, TFP!OpenNecessity, TF!OpenNecessity, TF!PassTurn, TFP!PassTurn
<1>2. TF!Init <=> TFP!Init
  BY DEF TF!Init, TFP!Init, TF!InitFlow, TFP!InitFlow
<1>3. TF!Spec => TFP!Spec
  BY <1>1, <1>2, PTL DEF TF!Spec, TFP!Spec
<1> QED BY <1>3, GameImplementsTurnFlow, TFP!AlwaysLegal, NumPlayersAssumption,
   ExpansionAssumption, PTL DEF ImplementsTurnFlow

\* A hand has a size.
HandsFinite ==
  /\ hands = [s \in Seats |-> hands[s]]
  /\ \A s \in Seats : IsFiniteSet(hands[s])

\* A hand of cards is dealt from a set of cards.
LEMMA StartDealsHands ==
  ASSUME Start
  PROVE  HandsFinite'
<1>1. PICK box \in Boxes : StartWith(box)
  BY DEF Start
<1> DEFINE base == {c \in box : DeckOf(c) = "base"}
           uni == IF Expansion THEN box \ base ELSE {}
<1>2. PICK x \in FairDeals(base, InitialClosetSize, InitialHandSize),
           y \in FairDeals(uni, IF Expansion THEN InitialExpansionClosetSize ELSE 0,
                                IF Expansion THEN InitialExpansionHandSize ELSE 0) :
        hands' = [s \in Seats |-> x.dealt[s] \cup y.dealt[s]]
  BY <1>1 DEF StartWith
<1>3. \A deck, k, h : \A z \in FairDeals(deck, k, h) : \A s \in Seats : z.dealt[s] \subseteq deck
  BY DEF FairDeals, Deals, kSubset
<1>4. IsFiniteSet(base) /\ IsFiniteSet(uni)
  <2>1. base \subseteq Cards /\ uni \subseteq Cards
    BY GameAssumption
  <2> QED BY <2>1, CardsAssumption, FS_Subset
<1>5. \A s \in Seats : IsFiniteSet(x.dealt[s]) /\ IsFiniteSet(y.dealt[s])
  BY <1>3, <1>4, FS_Subset
<1>6. \A s \in Seats : IsFiniteSet(x.dealt[s] \cup y.dealt[s])
  BY <1>5, FS_Union
<1> QED BY <1>2, <1>6 DEF HandsFinite

\* What a move may do to the hands: take cards from one, and give one to another.
HandsChange ==
  \/ UNCHANGED hands
  \/ \E s \in Seats : \E lost : hands' = [hands EXCEPT ![s] = @ \ lost]
  \/ \E s \in Seats : \E lost, card : hands' = [hands EXCEPT ![s] = (@ \ lost) \cup {card}]
  \/ \E s, t \in Seats : \E lost, card :
           hands' = [hands EXCEPT ![s] = @ \ lost, ![t] = @ \cup {card}]

\* None of these makes a hand infinite.
LEMMA ChangeKeepsFinite ==
  ASSUME HandsFinite, HandsChange
  PROVE  HandsFinite'
<1>1. \A S, lost, card : IsFiniteSet(S) => /\ IsFiniteSet(S \ lost)
                                            /\ IsFiniteSet((S \ lost) \cup {card})
                                            /\ IsFiniteSet(S \cup {card})
  BY FS_Difference, FS_AddElement
<1>2. CASE UNCHANGED hands
  BY <1>2 DEF HandsFinite
<1>3. ASSUME NEW s \in Seats, NEW lost, hands' = [hands EXCEPT ![s] = @ \ lost]
      PROVE  HandsFinite'
  BY <1>1, <1>3 DEF HandsFinite
<1>4. ASSUME NEW s \in Seats, NEW lost, NEW card,
             hands' = [hands EXCEPT ![s] = (@ \ lost) \cup {card}]
      PROVE  HandsFinite'
  BY <1>1, <1>4 DEF HandsFinite
<1>5. ASSUME NEW s \in Seats, NEW t \in Seats, NEW lost, NEW card,
             hands' = [hands EXCEPT ![s] = @ \ lost, ![t] = @ \cup {card}]
      PROVE  HandsFinite'
  BY <1>1, <1>5 DEF HandsFinite
<1> QED BY <1>2, <1>3, <1>4, <1>5 DEF HandsChange

\* Every move but Start changes hands in one of these ways.
LEMMA MovesChangeHands ==
  ASSUME HandsFinite, TFP!Legal(flow), Next
  PROVE  HandsFinite'
<1> USE DEF Hand
<1>1. Active \in Seats
  BY DEF Active, TFP!Legal, TFP!FlowType, TFP!Seats, Seats
<1>2. CASE Start
  BY <1>2, StartDealsHands
<1>3. CASE UNCHANGED hands
  BY <1>3, ChangeKeepsFinite DEF HandsChange
<1>4. \A d : DrawCard(d) => HandsChange
  <2> TAKE d
  <2> HAVE DrawCard(d)
  <2>1. PICK c \in decks[d] : hands' = [hands EXCEPT ![Active] = @ \cup {c}]
    BY DEF DrawCard
  <2>2. hands' = [hands EXCEPT ![Active] = (@ \ {}) \cup {c}]
    BY <2>1
  <2> QED BY <1>1, <2>2 DEF HandsChange
<1>5. \A c, ps : PerformAssemble(c, ps) => HandsChange
  BY <1>1 DEF PerformAssemble, Fault, cardVars, HandsChange
<1>6. \A c : Spent(c) => HandsChange
  BY <1>1 DEF Spent, HandsChange
<1>7. \A c, x : Exchange(c, x) => HandsChange
  BY <1>1 DEF Exchange, HandsChange
<1>8. CASE \E u \in Seats, c \in Hand, new \in Hand \cup Tops(closet) : CastCreate(u, c, new)
  <2>1. PICK u \in Seats, c \in Hand, new \in Hand \cup Tops(closet) : CastCreate(u, c, new)
    BY <1>8
  <2>2. CASE hands' = [hands EXCEPT ![Active] = @ \ {c, new}]
    BY <1>1, <2>2, ChangeKeepsFinite DEF HandsChange
  <2>3. CASE Spent(c)
    BY <1>6, <2>3, ChangeKeepsFinite
  <2> QED BY <2>1, <2>2, <2>3 DEF CastCreate
<1>9. CASE \E u, s \in Seats, c \in Hand, whole \in assembled : \E loot \in parts[whole] :
              CastOverthrow(u, c, loot, s, whole)
  <2>1. PICK c, loot : hands' = [hands EXCEPT ![Active] = (@ \ {c}) \cup {loot}]
    BY <1>9 DEF CastOverthrow
  <2> QED BY <1>1, <2>1, ChangeKeepsFinite DEF HandsChange
<1>10. CASE \E u, t \in Seats, c \in Hand : CastConcience(u, c, t)
  <2>1. PICK t \in Seats, c \in Hand :
           hands' = [hands EXCEPT ![Active] = @ \ {c}, ![t] = @ \cup {c}]
    BY <1>10 DEF CastConcience
  <2> QED BY <1>1, <2>1, ChangeKeepsFinite DEF HandsChange
<1>11. CASE \E u \in Seats, c \in Cards : Discard(u, c) \/ Give(u, c)
  <2>1. PICK s \in Seats, c \in Cards : hands' = [hands EXCEPT ![s] = @ \ {c}]
    BY <1>1, <1>11 DEF Discard, Give
  <2> QED BY <2>1, ChangeKeepsFinite DEF HandsChange
<1>12. CASE \E u \in Seats, d \in DeckTypes : Draw(u, d)
  BY <1>4, <1>12, ChangeKeepsFinite DEF Draw
<1>13. CASE \E u \in Seats, d \in DeckTypes : SpecialDraw(u, d)
  <2>1. PICK d : DrawCard(d) \/ UNCHANGED hands
    BY <1>13 DEF SpecialDraw, Fault, cardVars
  <2> QED BY <1>3, <1>4, <2>1, ChangeKeepsFinite
<1>14. CASE \E u \in Seats, c \in Nameable : \E ps \in PartLists(Len(Requirements(c))) :
              Assemble(u, c, ps)
  BY <1>5, <1>14, ChangeKeepsFinite DEF Assemble
<1>15. CASE \E u \in Seats, c \in Hand : \E ps \in PartLists(Len(Requirements(c))) :
              SpecialAssemble(u, c, ps)
  BY <1>5, <1>15, ChangeKeepsFinite DEF SpecialAssemble
<1>16. CASE \E u \in Seats, c \in Hand, x \in Tops(closet) :
              CastReveal(u, c, x) \/ CastGlobalReveal(u, c, x) \/ CastMagicReveal(u, c, x)
  BY <1>7, <1>16, ChangeKeepsFinite DEF CastReveal, CastGlobalReveal, CastMagicReveal
<1>17. CASE \/ \E u \in Seats, c \in Hand, new \in Tops(closet), old \in table[Active] :
                  CastTransform(u, c, new, old)
            \/ \E u \in Seats, c \in Hand, whole \in assembled : \E keep \in parts[whole] :
                  CastDestroy(u, c, keep, whole)
            \/ \E u \in Seats, c \in Hand, a, b \in assembled : CastForest(u, c, a, b)
            \/ \E u \in Seats, c \in Hand : CastSpeedup(u, c)
            \/ \E u \in Seats, c \in Hand : CastWhirpool(u, c)
            \/ \E u \in Seats, c \in Hand, i \in Requests : CastNecessity(u, c, i)
            \/ \E u \in Seats, c \in Hand : CastTransfigure(u, c)
            \/ \E u \in Seats, c \in Hand : CastDiversity(u, c)
  <2>1. PICK c : Spent(c)
    BY <1>17 DEF CastTransform, CastDestroy, CastForest, CastSpeedup, CastWhirpool, CastNecessity,
       CastTransfigure, CastDiversity, OpenWith
  <2> QED BY <1>6, <2>1, ChangeKeepsFinite
<1>18. CASE \/ \E u \in Seats : Skip(u) \/ EndTurn(u) \/ SpecialSkip(u)
            \/ \E u \in Seats, c \in assembled : Disassemble(u, c)
            \/ \E u \in Seats : UnknownCard(u) \/ UnknownDeck(u)
            \/ Reload
  BY <1>3, <1>18 DEF Skip, EndTurn, SpecialSkip, Disassemble, UnknownCard, UnknownDeck, Fault,
     Reload, cardVars
<1> QED BY <1>2, <1>8, <1>9, <1>10, <1>11, <1>12, <1>13, <1>14, <1>15, <1>16, <1>17, <1>18 DEF Next

\* Hands are finite in every position.
LEMMA HandsAlwaysFinite == Spec => []HandsFinite
<1>1. Init => HandsFinite
  BY FS_EmptySet DEF Init, HandsFinite
<1>2. HandsFinite /\ TFP!Legal(flow) /\ [Next]_vars => HandsFinite'
  BY MovesChangeHands DEF vars, cardVars, HandsFinite
<1> QED BY <1>1, <1>2, FlowAlwaysLegal, PTL DEF Spec

\* One case per situation in which the code asks somebody to move.
LEMMA SomebodyCanMove ==
  ASSUME HandsFinite, TFP!Legal(flow)
  PROVE  StuckOnlyWhenKnown
<1> SUFFICES ASSUME flow.turn # "Preparing", fault = "none"
             PROVE  (\E u \in Seats : CanMove(u)) \/ TransfigureStuck \/ SpeedupStuck
  BY DEF StuckOnlyWhenKnown
<1> USE DEF Active, Hand
<1>1. /\ flow.active \in Seats /\ flow.idx \in Seats
      /\ flow.turn \in {"Drawing", "DrawPlaying", "Playing", "Done"}
      /\ flow.special \in {"None", "DrawExtra", "Disassembling", "Giving", "Transfiguring"}
      /\ flow.extra \in Nat
      /\ flow.extra > 0 => flow.turn \in PlayPhases
  BY DEF TFP!Legal, TFP!LegalPhase, TFP!FlowType, TFP!Seats, Seats, TFP!TurnStates,
     TFP!SpecialStates, TFP!PlaysGranted, TFP!PlayPhases, PlayPhases
<1>2. Cardinality(Hand) \in Nat /\ (Hand = {} => Cardinality(Hand) = 0)
  BY <1>1, FS_CardinalityType, FS_EmptySet DEF HandsFinite
<1>3. CASE flow.special = "None" /\ flow.turn = "Drawing"
  <2>1. flow.extra = 0
    BY <1>1, <1>3 DEF PlayPhases
  <2>2. CASE Cardinality(Hand) >= MaxHandToDraw \/ DecksEmpty
    BY <1>1, <1>3, <2>2 DEF CanMove, Ordinary, ValidateSkip
  <2>3. CASE ~(Cardinality(Hand) >= MaxHandToDraw) /\ ~DecksEmpty
    <3>1. PICK d \in DeckTypes : decks[d] # {}
      BY <2>3 DEF DecksEmpty
    <3>2. ValidateDraw(d)
      BY <1>2, <1>3, <2>1, <2>3, <3>1, RulesAssumption DEF ValidateDraw, MayDraw
    <3> QED BY <1>1, <1>3, <3>2 DEF CanMove, Ordinary
  <2> QED BY <2>2, <2>3
<1>4. CASE flow.special = "None" /\ flow.turn = "DrawPlaying"
  <2>1. CASE Hand # {}
    BY <1>1, <1>4, <2>1 DEF CanMove, MayPlay, Ordinary, PlayPhases
  <2>2. CASE Hand = {} /\ DecksEmpty
    BY <1>1, <1>4, <2>2 DEF CanMove, Ordinary, ValidateSkip
  <2>3. CASE Hand = {} /\ ~DecksEmpty /\ flow.extra > 0
    BY <1>4, <2>3 DEF SpeedupStuck
  <2>4. CASE Hand = {} /\ ~DecksEmpty /\ ~(flow.extra > 0)
    <3>1. PICK d \in DeckTypes : decks[d] # {}
      BY <2>4 DEF DecksEmpty
    <3>2. ValidateDraw(d)
      BY <1>1, <1>2, <1>4, <2>4, <3>1, RulesAssumption DEF ValidateDraw, MayDraw
    <3> QED BY <1>1, <1>4, <3>2 DEF CanMove, Ordinary
  <2> QED BY <2>1, <2>2, <2>3, <2>4
<1>5. CASE flow.special = "None" /\ flow.turn = "Playing"
  BY <1>1, <1>5 DEF CanMove, MayPlay, Ordinary, PlayPhases, ValidateSkip
<1>6. CASE flow.special = "None" /\ flow.turn = "Done"
  BY <1>1, <1>6 DEF CanMove, Ordinary
<1>7. CASE flow.special \in {"DrawExtra", "Disassembling", "Giving"}
  <2>1. CASE MaySpecialSkip(flow.idx)
    BY <1>1, <2>1 DEF CanMove
  <2>2. CASE ~MaySpecialSkip(flow.idx)
    <3>1. \E c \in table[flow.idx] \cup hands[flow.idx] :
             MayDisassemble(flow.idx, c) \/ MayGive(flow.idx, c)
      BY <1>7, <2>2 DEF MaySpecialSkip, MayDisassemble, MayGive, Asked
    <3> QED BY <1>1, <3>1 DEF CanMove
  <2> QED BY <2>1, <2>2
<1>8. CASE flow.special = "Transfiguring"
  BY <1>8 DEF TransfigureStuck
<1> QED BY <1>1, <1>3, <1>4, <1>5, <1>6, <1>7, <1>8

\* In every position of every game somebody has a valid move: validateDraw,
\* validateSkip, MayPlay and the special validations cover all hands and decks,
\* but for the two situations the rules cannot leave.
THEOREM NobodyIsStuck == Spec => []StuckOnlyWhenKnown
  BY HandsAlwaysFinite, FlowAlwaysLegal, SomebodyCanMove, PTL
=============================================================================
