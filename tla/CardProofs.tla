----------------------------- MODULE CardProofs -----------------------------
(***************************************************************************)
(* Where the cards are.  A placement gives every card exactly one place (a *)
(* deck, a hand, a table, under a potion, the closet, out of the game) and *)
(* agrees with all the containers of the game; every move carries a        *)
(* placement to a placement, so that no card is lost or held twice.  The   *)
(* move with a loop, assembling, has a loop invariant of its own (Taken).  *)
(***************************************************************************)
EXTENDS GameProofs, ClosetProofs

\* The kinds of place a card can be in; "gone" is out of the game.
Places == DeckTypes \cup {"hand", "table", "part", "closet", "gone"}

\* Where every card is: k[c] is the kind of place, w[c] the player or the potion.
Lies(k, w) ==
    /\ \A c \in Cards :
          /\ k[c] \in Places
          /\ k[c] \in {"hand", "table"} => w[c] \in Seats
          /\ k[c] = "part" => w[c] \in Cards
          /\ c \in InCloset(closet) <=> k[c] = "closet"
    /\ \A c \in Cards, d \in DeckTypes : c \in decks[d] <=> k[c] = d
    /\ \A c \in Cards, s \in Seats : c \in hands[s] <=> k[c] = "hand" /\ w[c] = s
    /\ \A c \in Cards, s \in Seats : c \in table[s] <=> k[c] = "table" /\ w[c] = s
    /\ \A c \in Cards, x \in Cards : c \in parts[x] <=> k[c] = "part" /\ w[c] = x

\* What holds cards is made of cards.
CardsTyped ==
    /\ decks \in [DeckTypes -> SUBSET Cards]
    /\ hands \in [Seats -> SUBSET Cards] /\ table \in [Seats -> SUBSET Cards]
    /\ parts \in [Cards -> SUBSET Cards]
    /\ assembled \subseteq Cards /\ universal \subseteq Cards
    /\ Tidy(closet)

\* A placement of the cards that agrees with all that the game keeps of them.
Laid(k, w) == CardsTyped /\ TablesAgree /\ Lies(k, w)

\* Between two placements no card is lost, but for Speedup spells, and only the
\* tops of piles leave the closet.
Kept(k, new) ==
    \A c \in Cards :
        /\ \/ new[c] = "gone" <=> k[c] = "gone"
           \/ new[c] = "gone" /\ SpellOf(c) = "speedup"
        /\ k[c] = "closet" => new[c] = "closet" \/ c \in Tops(closet)

\* The next state has a placement too, that follows from this one.
Carried(k) == \E new, w : Laid(new, w)' /\ Kept(k, new)

\* A step that moves no card.
LEMMA CardsUnchanged ==
  ASSUME NEW k, NEW w, Laid(k, w), UNCHANGED cardVars
  PROVE  Carried(k)
<1>1. Laid(k, w)'
  BY DEF Laid, CardsTyped, TablesAgree, Lies, cardVars
<1> QED BY <1>1 DEF Carried, Kept

\* A drawn card goes from its deck to the hand.
LEMMA DrawCarries ==
  ASSUME NEW k, NEW w, Laid(k, w), Active \in Seats, NEW d \in DeckTypes, DrawCard(d)
  PROVE  Carried(k)
<1>1. PICK c \in decks[d] :
        /\ decks' = [decks EXCEPT ![d] = @ \ {c}]
        /\ hands' = [hands EXCEPT ![Active] = @ \cup {c}]
        /\ UNCHANGED <<table, parts, assembled, universal, closet>>
  BY DEF DrawCard
<1>2. PICK new : new = [x \in Cards |-> IF x = c THEN "hand" ELSE k[x]]
  OBVIOUS
<1>3. PICK v : v = [x \in Cards |-> IF x = c THEN Active ELSE w[x]]
  OBVIOUS
<1>4. c \in Cards /\ k[c] = d
  BY DEF Laid, CardsTyped, Lies
<1>5. CardsTyped' /\ TablesAgree'
  BY <1>1, <1>4 DEF Laid, CardsTyped, TablesAgree
<1>6. Lies(new, v)'
  BY <1>1, <1>2, <1>3, <1>4 DEF Laid, Lies, CardsTyped, Places, DeckTypes
<1>7. Kept(k, new)
  BY <1>2, <1>4 DEF Kept, DeckTypes
<1> QED BY <1>5, <1>6, <1>7 DEF Carried, Laid

\* A card goes from a hand to the closet.
LEMMA HandToCloset ==
  ASSUME NEW k, NEW w, Laid(k, w), NEW s \in Seats, NEW c \in hands[s],
         hands' = [hands EXCEPT ![s] = @ \ {c}],
         Tidy(closet'), InCloset(closet') = InCloset(closet) \cup {c},
         UNCHANGED <<decks, table, parts, assembled, universal>>
  PROVE  Carried(k)
<1>1. PICK new : new = [x \in Cards |-> IF x = c THEN "closet" ELSE k[x]]
  OBVIOUS
<1>2. c \in Cards /\ k[c] = "hand"
  BY DEF Laid, CardsTyped, Lies
<1>3. CardsTyped' /\ TablesAgree'
  BY <1>2 DEF Laid, CardsTyped, TablesAgree
<1>4. Lies(new, w)'
  BY <1>1, <1>2 DEF Laid, Lies, CardsTyped, Places, DeckTypes
<1>5. Kept(k, new)
  BY <1>1, <1>2 DEF Kept
<1> QED BY <1>3, <1>4, <1>5 DEF Carried, Laid

\* A discarded card goes from the hand to the closet.
LEMMA DiscardCarries ==
  ASSUME NEW k, NEW w, Laid(k, w), Active \in Seats, NEW u, NEW c \in Cards, Discard(u, c)
  PROVE  Carried(k)
<1>1. c \in hands[Active] /\ c \notin InCloset(closet)
  BY DEF Discard, Hand, Laid, Lies
<1>2. Tidy(closet') /\ InCloset(closet') = InCloset(closet) \cup {c}
  BY <1>1, AddCardAdds DEF Discard, Laid, CardsTyped
<1> QED BY <1>1, <1>2, HandToCloset DEF Discard

\* A list of the cards of a set.
Lists(cs, S) == cs \in Seq(Cards) /\ IsInjective(cs) /\ Range(cs) = S

\* One card.
LEMMA ListOne ==
  ASSUME NEW c \in Cards
  PROVE  Lists(<<c>>, {c})
BY Single DEF Lists

\* A set of cards in some order.
LEMMA ListOrder ==
  ASSUME NEW S \in SUBSET Cards, NEW order \in Orders(S)
  PROVE  Lists(order, S)
<1>1. IsFiniteSet(S)
  BY CardsAssumption, FS_Subset
<1>2. order \in Seq(S) /\ IsInjective(order) /\ Range(order) = S
  BY <1>1, Ordered DEF Orders
<1> QED BY <1>2 DEF Lists

\* Two lists without a common card, one after the other.
LEMMA ListJoin ==
  ASSUME NEW s, NEW S, NEW t, NEW T, Lists(s, S), Lists(t, T), S \cap T = {}
  PROVE  Lists(s \o t, S \cup T)
BY Joined DEF Lists

\* Cards that are added to the closet as a list.
LEMMA ListAdds ==
  ASSUME NEW cl, Tidy(cl), NEW cs, NEW S, Lists(cs, S), NEW onTop, S \cap InCloset(cl) = {}
  PROVE  /\ Tidy(AddCards(cl, cs, onTop))
         /\ InCloset(AddCards(cl, cs, onTop)) = InCloset(cl) \cup S
<1>1. \A n \in DOMAIN cs : cs[n] \notin InCloset(cl)
  BY DEF Lists, Range
<1> QED BY <1>1, AddCardsAdds DEF Lists

\* A spell, the parts of a potion in any order, and the potion.
Stack(a, order, b) == <<a>> \o order \o <<b>>

\* The stack of a spell and a potion lists their cards once.
LEMMA StackLists ==
  ASSUME NEW S \in SUBSET Cards, NEW order \in Orders(S), NEW a \in Cards, NEW b \in Cards,
         a \notin S, b \notin S, a # b
  PROVE  Lists(Stack(a, order, b), S \cup {a, b})
<1>1. Lists(<<a>>, {a}) /\ Lists(order, S) /\ Lists(<<b>>, {b})
  BY ListOne, ListOrder
<1>2. Lists(<<a>> \o order, {a} \cup S)
  BY <1>1, ListJoin
<1>3. Lists(Stack(a, order, b), ({a} \cup S) \cup {b})
  BY <1>1, <1>2, ListJoin DEF Stack
<1> QED BY <1>3

\* A stack of cards from outside the closet is added whole.
LEMMA StackAdds ==
  ASSUME NEW cl, Tidy(cl), NEW S \in SUBSET Cards, NEW order \in Orders(S), NEW onTop,
         NEW a \in Cards, NEW b \in Cards, a \notin S, b \notin S, a # b,
         (S \cup {a, b}) \cap InCloset(cl) = {}
  PROVE  /\ Tidy(AddCards(cl, Stack(a, order, b), onTop))
         /\ InCloset(AddCards(cl, Stack(a, order, b), onTop)) = InCloset(cl) \cup S \cup {a, b}
<1>1. Lists(Stack(a, order, b), S \cup {a, b})
  BY StackLists
<1> QED BY <1>1, ListAdds

\* The Reveal spells: the spell goes to the closet, a top comes to the hand.
LEMMA ExchangeCarries ==
  ASSUME NEW k, NEW w, Laid(k, w), Active \in Seats, NEW c \in Hand, NEW card \in Cards,
         Exchange(c, card)
  PROVE  Carried(k)
<1>1. PICK new : new = [x \in Cards |-> IF x = c THEN "closet"
                                        ELSE IF x = card THEN "hand" ELSE k[x]]
  OBVIOUS
<1>2. PICK v : v = [x \in Cards |-> IF x = card THEN Active ELSE w[x]]
  OBVIOUS
<1>3. c \in Cards /\ k[c] = "hand" /\ w[c] = Active /\ c \notin InCloset(closet)
  BY DEF Hand, Laid, CardsTyped, Lies
<1>4. /\ Tidy(RemoveCard(closet, card)) /\ card \in InCloset(closet) /\ card \in Tops(closet)
      /\ InCloset(RemoveCard(closet, card)) = InCloset(closet) \ {card}
  BY RemoveCardRemoves DEF Exchange, Laid, CardsTyped
<1>5. Tidy(closet') /\ InCloset(closet') = (InCloset(closet) \ {card}) \cup {c}
  BY <1>3, <1>4, AddCardAdds DEF Exchange
<1>6. /\ hands' = [hands EXCEPT ![Active] = (@ \ {c}) \cup {card}]
      /\ UNCHANGED <<decks, table, parts, assembled, universal>>
  BY DEF Exchange, TableUnchanged
<1>7. CardsTyped' /\ TablesAgree'
  BY <1>5, <1>6 DEF Laid, CardsTyped, TablesAgree
<1>8. Lies(new, v)'
  BY <1>1, <1>2, <1>3, <1>4, <1>5, <1>6 DEF Laid, Lies, CardsTyped, Places, DeckTypes
<1>9. Kept(k, new)
  BY <1>1, <1>3, <1>4 DEF Kept, Laid, Lies
<1> QED BY <1>7, <1>8, <1>9 DEF Carried, Laid

\* Transform: a top comes to the table, what lay there goes to the closet.
LEMMA TransformCarries ==
  ASSUME NEW k, NEW w, Laid(k, w), Active \in Seats, NEW u, NEW c \in Hand, NEW card \in Cards,
         NEW old \in table[Active], CastTransform(u, c, card, old)
  PROVE  Carried(k)
<1>1. PICK new : new = [x \in Cards |-> IF x = card THEN "table"
                                        ELSE IF x \in {c, old} \cup parts[old] THEN "closet"
                                        ELSE k[x]]
  OBVIOUS
<1>2. PICK v : v = [x \in Cards |-> IF x = card THEN Active ELSE w[x]]
  OBVIOUS
<1>3. c \in Cards /\ k[c] = "hand" /\ w[c] = Active
  BY DEF Hand, Laid, CardsTyped, Lies
<1>4. /\ Tidy(RemoveCard(closet, card)) /\ card \in InCloset(closet) /\ k[card] = "closet"
      /\ card \in Tops(closet)
      /\ InCloset(RemoveCard(closet, card)) = InCloset(closet) \ {card}
  BY RemoveCardRemoves DEF CastTransform, Laid, CardsTyped, Lies
<1>5. old \in Cards /\ k[old] = "table" /\ w[old] = Active /\ parts[old] \subseteq Cards
      /\ \A x \in parts[old] : k[x] = "part" /\ w[x] = old
  BY DEF Laid, CardsTyped, Lies
<1>6. PICK order \in Orders(parts[old]) :
         closet' = AddCards(RemoveCard(closet, card), Stack(c, order, old), spellsOnTop)
  BY DEF CastTransform, Stack
<1>7. /\ parts[old] \in SUBSET Cards /\ c \notin parts[old] /\ old \notin parts[old] /\ c # old
      /\ (parts[old] \cup {c, old}) \cap InCloset(RemoveCard(closet, card)) = {}
  BY <1>3, <1>4, <1>5 DEF Laid, Lies
<1>8. order \in Orders(parts[old])
  OBVIOUS
<1>9. /\ Tidy(closet')
      /\ InCloset(closet') = (InCloset(closet) \ {card}) \cup parts[old] \cup {c, old}
  BY <1>3, <1>4, <1>5, <1>6, <1>7, <1>8, StackAdds
<1>10. /\ hands' = [hands EXCEPT ![Active] = @ \ {c}]
       /\ table' = [table EXCEPT ![Active] = (@ \cup {card}) \ {old}]
       /\ parts' = [parts EXCEPT ![old] = {}]
       /\ assembled' = (assembled \cup {card}) \ {old}
       /\ universal' = universal \ {old, card}
       /\ UNCHANGED decks
  BY DEF CastTransform, Spent
<1>11. CardsTyped'
  BY <1>5, <1>9, <1>10 DEF Laid, CardsTyped
<1>12. Lies(new, v)'
  BY <1>1, <1>2, <1>3, <1>4, <1>5, <1>9, <1>10 DEF Laid, Lies, CardsTyped, Places, DeckTypes
<1>13. TablesAgree'
  BY <1>4, <1>5, <1>10 DEF Laid, Lies, CardsTyped, TablesAgree
<1>14. Kept(k, new)
  BY <1>1, <1>3, <1>4, <1>5 DEF Kept, Laid, Lies
<1> QED BY <1>11, <1>12, <1>13, <1>14 DEF Carried, Laid

\* Destroy: one part comes to the hand, the rest of the potion goes to the closet.
LEMMA DestroyCarries ==
  ASSUME NEW k, NEW w, Laid(k, w), Active \in Seats, NEW u, NEW c \in Hand,
         NEW whole \in assembled, NEW keep \in parts[whole], CastDestroy(u, c, keep, whole)
  PROVE  Carried(k)
<1> DEFINE S == parts[whole] \ {keep}
<1>1. PICK new : new = [x \in Cards |-> IF x = keep THEN "table"
                                        ELSE IF x \in {c, whole} \cup S THEN "closet" ELSE k[x]]
  OBVIOUS
<1>2. PICK v : v = [x \in Cards |-> IF x = keep THEN Active ELSE w[x]]
  OBVIOUS
<1>3. c \in Cards /\ k[c] = "hand" /\ w[c] = Active
  BY DEF Hand, Laid, CardsTyped, Lies
<1>4. whole \in table[Active]
  BY DEF CastDestroy
<1>5. /\ whole \in Cards /\ k[whole] = "table" /\ w[whole] = Active /\ parts[whole] \subseteq Cards
      /\ \A x \in parts[whole] : k[x] = "part" /\ w[x] = whole
  BY <1>4 DEF Laid, CardsTyped, Lies
<1>6. PICK order \in Orders(S) : closet' = AddCards(closet, Stack(c, order, whole), spellsOnTop)
  BY DEF CastDestroy, Stack, Shelve
<1>7. /\ S \in SUBSET Cards /\ c \notin S /\ whole \notin S /\ c # whole
      /\ (S \cup {c, whole}) \cap InCloset(closet) = {}
  BY <1>3, <1>5 DEF Laid, Lies
<1>8. order \in Orders(S) /\ Tidy(closet)
  BY DEF Laid, CardsTyped
<1>9. Tidy(closet') /\ InCloset(closet') = InCloset(closet) \cup S \cup {c, whole}
  <2> HIDE DEF S
  <2> QED BY <1>3, <1>5, <1>6, <1>7, <1>8, StackAdds
<1>10. /\ hands' = [hands EXCEPT ![Active] = @ \ {c}]
       /\ table' = [table EXCEPT ![Active] = (@ \cup {keep}) \ {whole}]
       /\ parts' = [parts EXCEPT ![whole] = {}]
       /\ assembled' = (assembled \cup {keep}) \ {whole}
       /\ universal' = universal \ {whole, keep}
       /\ UNCHANGED decks
  BY DEF CastDestroy, Spent
<1>11. CardsTyped'
  BY <1>5, <1>9, <1>10 DEF Laid, CardsTyped
<1>12. Lies(new, v)'
  BY <1>1, <1>2, <1>3, <1>5, <1>9, <1>10 DEF Laid, Lies, CardsTyped, Places, DeckTypes
<1>13. TablesAgree'
  BY <1>5, <1>10 DEF Laid, Lies, CardsTyped, TablesAgree
<1>14. Kept(k, new)
  BY <1>1, <1>3, <1>5 DEF Kept, Laid, Lies
<1> QED BY <1>11, <1>12, <1>13, <1>14 DEF Carried, Laid

\* Overthrow: one part of a player's potion comes to the hand, the rest goes.
LEMMA OverthrowCarries ==
  ASSUME NEW k, NEW w, Laid(k, w), Active \in Seats, NEW u, NEW c \in Hand, NEW s \in Seats,
         NEW whole \in assembled, NEW loot \in parts[whole], CastOverthrow(u, c, loot, s, whole)
  PROVE  Carried(k)
<1> DEFINE S == parts[whole] \ {loot}
<1>1. PICK new : new = [x \in Cards |-> IF x = loot THEN "hand"
                                        ELSE IF x \in {c, whole} \cup S THEN "closet" ELSE k[x]]
  OBVIOUS
<1>2. PICK v : v = [x \in Cards |-> IF x = loot THEN Active ELSE w[x]]
  OBVIOUS
<1>3. c \in Cards /\ k[c] = "hand" /\ w[c] = Active
  BY DEF Hand, Laid, CardsTyped, Lies
<1>4. whole \in table[s]
  BY DEF CastOverthrow
<1>5. /\ whole \in Cards /\ k[whole] = "table" /\ w[whole] = s /\ parts[whole] \subseteq Cards
      /\ \A x \in parts[whole] : k[x] = "part" /\ w[x] = whole
  BY <1>4 DEF Laid, CardsTyped, Lies
<1>6. PICK order \in Orders(S) : closet' = AddCards(closet, Stack(c, order, whole), spellsOnTop)
  BY DEF CastOverthrow, Stack, Shelve
<1>7. /\ S \in SUBSET Cards /\ c \notin S /\ whole \notin S /\ c # whole
      /\ (S \cup {c, whole}) \cap InCloset(closet) = {}
  BY <1>3, <1>5 DEF Laid, Lies
<1>8. order \in Orders(S) /\ Tidy(closet)
  BY DEF Laid, CardsTyped
<1>9. Tidy(closet') /\ InCloset(closet') = InCloset(closet) \cup S \cup {c, whole}
  <2> HIDE DEF S
  <2> QED BY <1>3, <1>5, <1>6, <1>7, <1>8, StackAdds
<1>10. /\ hands' = [hands EXCEPT ![Active] = (@ \ {c}) \cup {loot}]
       /\ table' = [table EXCEPT ![s] = @ \ {whole}]
       /\ parts' = [parts EXCEPT ![whole] = {}]
       /\ assembled' = assembled \ {whole}
       /\ universal' = universal \ {whole}
       /\ UNCHANGED decks
  BY DEF CastOverthrow
<1>11. CardsTyped'
  BY <1>5, <1>9, <1>10 DEF Laid, CardsTyped
<1>12. Lies(new, v)'
  BY <1>1, <1>2, <1>3, <1>5, <1>9, <1>10 DEF Laid, Lies, CardsTyped, Places, DeckTypes
<1>13. TablesAgree'
  BY <1>5, <1>10 DEF Laid, Lies, CardsTyped, TablesAgree
<1>14. Kept(k, new)
  BY <1>1, <1>3, <1>5 DEF Kept, Laid, Lies
<1> QED BY <1>11, <1>12, <1>13, <1>14 DEF Carried, Laid

\* Create: the spell goes to the closet, a top or a card of the hand to the table.
LEMMA CreateCarries ==
  ASSUME NEW k, NEW w, Laid(k, w), Active \in Seats, NEW u, NEW c \in Hand, NEW made \in Cards,
         CastCreate(u, c, made)
  PROVE  Carried(k)
<1>1. PICK new : new = [x \in Cards |-> IF x = made THEN "table"
                                        ELSE IF x = c THEN "closet" ELSE k[x]]
  OBVIOUS
<1>2. PICK v : v = [x \in Cards |-> IF x = made THEN Active ELSE w[x]]
  OBVIOUS
<1>3. c \in Cards /\ k[c] = "hand" /\ w[c] = Active /\ c \notin InCloset(closet) /\ IsSpell(c)
  BY DEF Hand, Laid, CardsTyped, Lies, CastCreate, MayCast
<1>4. made # c
  BY <1>3 DEF CastCreate, IsRecipe, IsSpell
<1>5. /\ table' = [table EXCEPT ![Active] = @ \cup {made}]
      /\ assembled' = assembled \cup {made}
      /\ universal' = universal \ {made}
      /\ UNCHANGED <<parts, decks>>
  BY DEF CastCreate
<1>6. \/ /\ k[made] = "hand" /\ w[made] = Active
         /\ InCloset(closet') = InCloset(closet) \cup {c} /\ Tidy(closet')
         /\ hands' = [hands EXCEPT ![Active] = @ \ {c, made}]
      \/ /\ k[made] = "closet" /\ made \in Tops(closet)
         /\ InCloset(closet') = (InCloset(closet) \ {made}) \cup {c} /\ Tidy(closet')
         /\ hands' = [hands EXCEPT ![Active] = @ \ {c}]
  <2>1. CASE /\ made \in Hand
             /\ closet' = AddCard(closet, c, spellsOnTop)
             /\ hands' = [hands EXCEPT ![Active] = @ \ {c, made}]
    BY <1>3, <2>1, AddCardAdds DEF Hand, Laid, Lies, CardsTyped
  <2>2. CASE /\ CanRemoveCard(closet, made)
             /\ closet' = AddCard(RemoveCard(closet, made), c, spellsOnTop)
             /\ Spent(c)
    <3>1. /\ Tidy(RemoveCard(closet, made)) /\ made \in InCloset(closet) /\ made \in Tops(closet)
          /\ InCloset(RemoveCard(closet, made)) = InCloset(closet) \ {made}
      BY <2>2, RemoveCardRemoves DEF Laid, CardsTyped
    <3>2. Tidy(closet') /\ InCloset(closet') = (InCloset(closet) \ {made}) \cup {c}
      BY <1>3, <2>2, <3>1, AddCardAdds
    <3> QED BY <2>2, <3>1, <3>2 DEF Spent, Laid, Lies
  <2> QED BY <2>1, <2>2 DEF CastCreate
<1>7. CardsTyped'
  BY <1>5, <1>6 DEF Laid, CardsTyped
<1>8. Lies(new, v)'
  <2>1. CASE k[made] = "hand"
    BY <1>1, <1>2, <1>3, <1>4, <1>5, <1>6, <2>1 DEF Laid, Lies, CardsTyped, Places, DeckTypes
  <2>2. CASE k[made] = "closet"
    BY <1>1, <1>2, <1>3, <1>4, <1>5, <1>6, <2>2 DEF Laid, Lies, CardsTyped, Places, DeckTypes
  <2> QED BY <1>6, <2>1, <2>2
<1>9. TablesAgree'
  BY <1>5 DEF Laid, CardsTyped, TablesAgree
<1>10. Kept(k, new)
  BY <1>1, <1>3, <1>6 DEF Kept
<1> QED BY <1>7, <1>8, <1>9, <1>10 DEF Carried, Laid

\* Concience: the spell goes to the hand of the player it hit.
LEMMA ConcienceCarries ==
  ASSUME NEW k, NEW w, Laid(k, w), Active \in Seats, NEW u, NEW c \in Hand, NEW t \in Seats,
         CastConcience(u, c, t)
  PROVE  Carried(k)
<1>1. PICK v : v = [x \in Cards |-> IF x = c THEN t ELSE w[x]]
  OBVIOUS
<1>2. c \in Cards /\ k[c] = "hand" /\ w[c] = Active
  BY DEF Hand, Laid, CardsTyped, Lies
<1>3. /\ hands' = [hands EXCEPT ![Active] = @ \ {c}, ![t] = @ \cup {c}]
      /\ UNCHANGED <<decks, table, parts, assembled, universal, closet>>
  BY DEF CastConcience, TableUnchanged
<1>4. CardsTyped' /\ TablesAgree'
  BY <1>2, <1>3 DEF Laid, CardsTyped, TablesAgree
<1>5. Lies(k, v)'
  BY <1>1, <1>2, <1>3 DEF Laid, Lies, CardsTyped
<1> QED BY <1>4, <1>5 DEF Carried, Laid, Kept

\* Speedup: the spell leaves the game; the only card that can.
LEMMA SpeedupCarries ==
  ASSUME NEW k, NEW w, Laid(k, w), Active \in Seats, NEW u, NEW c \in Hand, CastSpeedup(u, c)
  PROVE  Carried(k)
<1>1. PICK new : new = [x \in Cards |-> IF x = c THEN "gone" ELSE k[x]]
  OBVIOUS
<1>2. c \in Cards /\ k[c] = "hand" /\ w[c] = Active /\ SpellOf(c) = "speedup"
  BY DEF Hand, Laid, CardsTyped, Lies, CastSpeedup, MayCast
<1>3. /\ hands' = [hands EXCEPT ![Active] = @ \ {c}]
      /\ UNCHANGED <<decks, table, parts, assembled, universal, closet>>
  BY DEF CastSpeedup, TableUnchanged, Spent
<1>4. CardsTyped' /\ TablesAgree'
  BY <1>2, <1>3 DEF Laid, CardsTyped, TablesAgree
<1>5. Lies(new, w)'
  BY <1>1, <1>2, <1>3 DEF Laid, Lies, CardsTyped, Places, DeckTypes
<1>6. Kept(k, new)
  BY <1>1, <1>2 DEF Kept
<1> QED BY <1>4, <1>5, <1>6 DEF Carried, Laid

\* Forest: two potions and their parts go back to the closet with the spell.
LEMMA ForestCarries ==
  ASSUME NEW k, NEW w, Laid(k, w), Active \in Seats, NEW u, NEW c \in Hand,
         NEW a \in assembled, NEW b \in assembled, CastForest(u, c, a, b)
  PROVE  Carried(k)
<1> DEFINE S == parts[a] \cup {a}
           T == parts[b] \cup {b}
<1>1. PICK new : new = [x \in Cards |-> IF x \in {c} \cup S \cup T THEN "closet" ELSE k[x]]
  OBVIOUS
<1>2. c \in Cards /\ k[c] = "hand" /\ w[c] = Active
  BY DEF Hand, Laid, CardsTyped, Lies
<1>3. \A y \in {a, b} : /\ y \in Cards /\ k[y] = "table" /\ parts[y] \in SUBSET Cards
                        /\ \A x \in parts[y] : k[x] = "part" /\ w[x] = y
  <2>1. \A y \in {a, b} : \E s \in Seats : y \in table[s]
    BY DEF CastForest
  <2> QED BY <2>1 DEF Laid, CardsTyped, Lies
<1>4. PICK order \in PartOrders({a, b}) :
        closet' = AddCards(closet, <<c>> \o ForestReturns(a, b, order), spellsOnTop)
  BY DEF CastForest, Shelve
<1>5. order[a] \in Orders(parts[a]) /\ order[b] \in Orders(parts[b])
  BY DEF PartOrders
<1>6. Lists(<<c>> \o ForestReturns(a, b, order), {c} \cup S \cup T)
  <2>1. /\ Lists(order[a], parts[a]) /\ Lists(<<a>>, {a})
        /\ Lists(order[b], parts[b]) /\ Lists(<<b>>, {b}) /\ Lists(<<c>>, {c})
    BY <1>2, <1>3, <1>5, ListOne, ListOrder
  <2>2. Lists(order[a] \o <<a>>, S)
    <3>1. parts[a] \cap {a} = {}
      BY <1>3
    <3> QED BY <2>1, <3>1, ListJoin
  <2>3. Lists(order[b] \o <<b>>, T)
    <3>1. parts[b] \cap {b} = {}
      BY <1>3
    <3> QED BY <2>1, <3>1, ListJoin
  <2>4. Lists(ForestReturns(a, b, order), S \cup T)
    <3>1. CASE a = b
      <4>1. order[a] \in Seq(Cards)
        BY <2>1 DEF Lists
      <4>2. ForestReturns(a, b, order) = order[a] \o <<a>>
        <5>1. order[a] \o <<a>> \in Seq(Cards)
          BY <2>2 DEF Lists
        <5> QED BY <3>1, <5>1 DEF ForestReturns
      <4> QED BY <2>2, <3>1, <4>2
    <3>2. CASE a # b
      <4>1. S \cap T = {}
        BY <1>3, <3>2
      <4> HIDE DEF S, T
      <4> QED BY <2>2, <2>3, <3>2, <4>1, ListJoin DEF ForestReturns
    <3> QED BY <3>1, <3>2
  <2>5. {c} \cap (S \cup T) = {}
    BY <1>2, <1>3
  <2>6. Lists(<<c>> \o ForestReturns(a, b, order), {c} \cup (S \cup T))
    <3> HIDE DEF S, T
    <3> QED BY <2>1, <2>4, <2>5, ListJoin
  <2> QED BY <2>6
<1>7. Tidy(closet') /\ InCloset(closet') = InCloset(closet) \cup {c} \cup S \cup T
  <2>1. ({c} \cup S \cup T) \cap InCloset(closet) = {} /\ Tidy(closet)
    BY <1>2, <1>3 DEF Laid, Lies, CardsTyped
  <2> HIDE DEF S, T
  <2> QED BY <1>4, <1>6, <2>1, ListAdds
<1>8. /\ hands' = [hands EXCEPT ![Active] = @ \ {c}]
      /\ table' = [s \in Seats |-> table[s] \ {a, b}]
      /\ parts' = [parts EXCEPT ![a] = {}, ![b] = {}]
      /\ assembled' = assembled \ {a, b}
      /\ universal' = universal \ {a, b}
      /\ UNCHANGED decks
  BY DEF CastForest, Spent
<1>9. CardsTyped'
  BY <1>3, <1>7, <1>8 DEF Laid, CardsTyped
<1>10. Lies(new, w)'
  BY <1>1, <1>2, <1>3, <1>7, <1>8 DEF Laid, Lies, CardsTyped, Places, DeckTypes
<1>11. TablesAgree'
  BY <1>3, <1>8 DEF Laid, Lies, CardsTyped, TablesAgree
<1>12. Kept(k, new)
  BY <1>1, <1>2, <1>3 DEF Kept, Laid, Lies
<1> QED BY <1>9, <1>10, <1>11, <1>12 DEF Carried, Laid

\* A disassembled potion keeps its recipe on the table, its parts go.
LEMMA DisassembleCarries ==
  ASSUME NEW k, NEW w, Laid(k, w), NEW u, NEW c \in assembled, Disassemble(u, c)
  PROVE  Carried(k)
<1>1. PICK new : new = [x \in Cards |-> IF x \in parts[c] THEN "closet" ELSE k[x]]
  OBVIOUS
<1>2. /\ c \in Cards /\ parts[c] \in SUBSET Cards
      /\ \A x \in parts[c] : k[x] = "part" /\ w[x] = c
  BY DEF Laid, CardsTyped, Lies
<1>3. PICK order \in Orders(parts[c]) : closet' = AddCards(closet, order, spellsOnTop)
  BY DEF Disassemble, Shelve
<1>4. Tidy(closet') /\ InCloset(closet') = InCloset(closet) \cup parts[c]
  <2>1. Lists(order, parts[c]) /\ parts[c] \cap InCloset(closet) = {} /\ Tidy(closet)
    BY <1>2, ListOrder DEF Laid, Lies, CardsTyped
  <2> QED BY <1>3, <2>1, ListAdds
<1>5. /\ parts' = [parts EXCEPT ![c] = {}]
      /\ UNCHANGED <<decks, hands, table, assembled, universal>>
  BY DEF Disassemble
<1>6. CardsTyped' /\ TablesAgree'
  BY <1>4, <1>5 DEF Laid, CardsTyped, TablesAgree
<1>7. Lies(new, w)'
  BY <1>1, <1>2, <1>4, <1>5 DEF Laid, Lies, CardsTyped, Places, DeckTypes
<1>8. Kept(k, new)
  BY <1>1, <1>2 DEF Kept
<1> QED BY <1>6, <1>7, <1>8 DEF Carried, Laid

\* Loading a saved game puts every card back where it was.
LEMMA ReloadCarries ==
  ASSUME NEW k, NEW w, Laid(k, w), Reload
  PROVE  Carried(k)
<1>1. Tidy(closet') /\ InCloset(closet') = InCloset(closet)
  BY ReloadedKeeps DEF Reload, Laid, CardsTyped
<1>2. UNCHANGED <<decks, hands, table, parts, assembled, universal>>
  BY DEF Reload, Laid, CardsTyped, TablesAgree
<1>3. Laid(k, w)'
  BY <1>1, <1>2 DEF Laid, CardsTyped, TablesAgree, Lies
<1> QED BY <1>3 DEF Carried, Kept

\* A card from a hand put on the closet.
LEMMA ShelveOneCarries ==
  ASSUME NEW k, NEW w, Laid(k, w), NEW s \in Seats, NEW c \in hands[s],
         hands' = [hands EXCEPT ![s] = @ \ {c}], Shelve(<<c>>),
         UNCHANGED <<decks, table, parts, assembled, universal>>
  PROVE  Carried(k)
<1>1. c \in Cards /\ c \notin InCloset(closet) /\ Tidy(closet)
  BY DEF Laid, Lies, CardsTyped
<1>2. Lists(<<c>>, {c}) /\ {c} \cap InCloset(closet) = {}
  BY <1>1, ListOne
<1>3. Tidy(closet') /\ InCloset(closet') = InCloset(closet) \cup {c}
  BY <1>1, <1>2, ListAdds DEF Shelve
<1> QED BY <1>3, HandToCloset

\* The cards of a game that is dealt.
Accounted(k, box) ==
    \A c \in Cards : IF c \in InPlay(box) THEN k[c] # "gone" \/ SpellOf(c) = "speedup"
                     ELSE k[c] = "gone"

\* A list of n cards in which n cards occur has none twice.
LEMMA AllDifferent ==
  ASSUME NEW n \in Nat, NEW S, NEW f \in [1 .. n -> S], Cardinality(Range(f)) = n
  PROVE  IsInjective(f)
<1>1. IsFiniteSet(1 .. n) /\ Cardinality(1 .. n) = n
  <2>1. \A m \in Nat : IF 1 > m THEN m = 0 ELSE m - 1 + 1 = m
    OBVIOUS
  <2> QED BY <2>1, FS_Interval
<1>2. f \in Surjection(1 .. n, Range(f))
  BY DEF Surjection, Range
<1> QED BY <1>1, <1>2, FS_Surjection DEF Injection

\* The states the loop over the parts goes through.
Untaken ==
    [closet |-> closet, table |-> table, assembled |-> assembled,
     share |-> [s \in Seats |-> 0], ok |-> TRUE]
\* g[n] is the state after n parts.
Taking(g, ps, order) ==
    g = [n \in 0 .. Len(ps) |-> IF n = 0 THEN Untaken ELSE TakePart(g[n - 1], ps[n], order)]

\* TakeParts is the last state of the loop.
LEMMA TakingExists ==
  ASSUME NEW ps, Len(ps) \in Nat, NEW order
  PROVE  \E g : Taking(g, ps, order) /\ TakeParts(ps, order) = g[Len(ps)]
<1> DEFINE Upto(g, m) ==
              g = [n \in 0 .. m |-> IF n = 0 THEN Untaken ELSE TakePart(g[n - 1], ps[n], order)]
           A == {m \in Nat : \E g : Upto(g, m)}
<1>1. 0 \in A
  <2>1. Upto([n \in 0 .. 0 |-> Untaken], 0)
    OBVIOUS
  <2> QED BY <2>1
<1>2. ASSUME NEW m \in Nat, m \in A PROVE m + 1 \in A
  <2>1. PICK g : Upto(g, m)
    BY <1>2
  <2>2. PICK h : h = [n \in 0 .. m + 1 |->
                        IF n = m + 1 THEN TakePart(g[m], ps[n], order) ELSE g[n]]
    OBVIOUS
  <2>3. \A n \in 0 .. m : h[n] = g[n]
    BY <2>2
  <2>4. \A n \in 0 .. m + 1 : h[n] = IF n = 0 THEN Untaken ELSE TakePart(h[n - 1], ps[n], order)
    <3> TAKE n \in 0 .. m + 1
    <3>1. CASE n = m + 1
      BY <2>2, <2>3, <3>1
    <3>2. CASE n # m + 1
      <4>1. n \in 0 .. m /\ (n # 0 => n - 1 \in 0 .. m)
        BY <3>2
      <4>2. g[n] = IF n = 0 THEN Untaken ELSE TakePart(g[n - 1], ps[n], order)
        BY <2>1, <4>1
      <4> QED BY <2>3, <4>1, <4>2
    <3> QED BY <3>1, <3>2
  <2>5. Upto(h, m + 1)
    BY <2>2, <2>4
  <2> QED BY <2>5
<1>3. Len(ps) \in A
  <2> HIDE DEF A
  <2> QED BY <1>1, <1>2, NumbersFollow
<1> DEFINE g == CHOOSE f :
      f = [n \in 0 .. Len(ps) |-> IF n = 0
            THEN [closet |-> closet, table |-> table, assembled |-> assembled,
                  share |-> [s \in Seats |-> 0], ok |-> TRUE]
            ELSE TakePart(f[n - 1], ps[n], order)]
<1>4. Taking(g, ps, order)
  BY <1>3, Zenon DEF Taking, Untaken
<1>5. TakeParts(ps, order) = g[Len(ps)]
  BY DEF TakeParts
<1> QED BY <1>4, <1>5

\* The loop when the cards of S have been taken.  After a part that cannot be
\* taken the closet does not matter.
Taken(v, S) ==
    /\ v = [closet |-> v.closet, table |-> v.table, assembled |-> v.assembled,
            share |-> v.share, ok |-> v.ok]
    /\ v.table = [s \in Seats |-> table[s] \ S]
    /\ v.assembled = assembled \ S
    /\ v.ok => /\ Tidy(v.closet)
               /\ \A c \in Cards :
                     c \in InCloset(v.closet) <=>
                        \/ c \in InCloset(closet) /\ c \notin S
                        \/ \E p \in S : c \in parts[p]

\* One more part keeps the invariant of the loop: the parts taken so far have left.
\* A card named a second time is on no pile.
LEMMA TakePartTakes ==
  ASSUME NEW k, NEW w, Laid(k, w), NEW order, NEW S \in SUBSET Offered,
         NEW p \in Offered, order[p] \in Orders(parts[p]), NEW v, Taken(v, S)
  PROVE  /\ Taken(TakePart(v, p, order), S \cup {p})
         /\ TakePart(v, p, order).ok => v.ok /\ p \notin S
<1> DEFINE u == TakePart(v, p, order)
<1>1. /\ \A q \in assembled : q \in Cards /\ k[q] = "table"
      /\ \A q \in Cards : q \notin assembled => parts[q] = {}
      /\ \A q \in Tops(closet) : q \in Cards /\ k[q] = "closet"
      /\ S \subseteq Cards
  <2>1. \A q \in Tops(closet) : q \in InCloset(closet) /\ q \in Cards
    BY TopsInCloset DEF Laid, CardsTyped
  <2> QED BY <2>1 DEF Laid, CardsTyped, TablesAgree, Lies, Offered
<1>2. CASE p \in assembled \ S
  <2>1. /\ u = [closet |-> u.closet, table |-> u.table, assembled |-> u.assembled,
                share |-> u.share, ok |-> u.ok]
        /\ u.closet = AddCards(v.closet, order[p], spellsOnTop) /\ u.ok = v.ok
        /\ u.table = [s \in Seats |-> v.table[s] \ {p}] /\ u.assembled = v.assembled \ {p}
    BY <1>2 DEF TakePart, Taken
  <2>2. /\ u.table = [s \in Seats |-> table[s] \ (S \cup {p})]
        /\ u.assembled = assembled \ (S \cup {p})
    BY <2>1 DEF Taken
  <2>3. ASSUME v.ok
        PROVE  /\ Tidy(u.closet)
               /\ \A c \in Cards :
                     c \in InCloset(u.closet) <=>
                        \/ c \in InCloset(closet) /\ c \notin S \cup {p}
                        \/ \E q \in S \cup {p} : c \in parts[q]
    <3>1. parts[p] \in SUBSET Cards /\ \A c \in parts[p] : k[c] = "part" /\ w[c] = p
      BY <1>1, <1>2 DEF Laid, CardsTyped, Lies
    <3>2. parts[p] \cap InCloset(v.closet) = {}
      BY <1>1, <1>2, <2>3, <3>1 DEF Taken, Laid, Lies
    <3>3. Lists(order[p], parts[p])
      BY <3>1, ListOrder
    <3>4. Tidy(u.closet) /\ InCloset(u.closet) = InCloset(v.closet) \cup parts[p]
      BY <2>1, <2>3, <3>2, <3>3, ListAdds DEF Taken
    <3>5. p \notin InCloset(closet)
      BY <1>1, <1>2 DEF Laid, Lies
    <3> HIDE DEF u
    <3> QED BY <2>3, <3>4, <3>5 DEF Taken
  <2> HIDE DEF u
  <2>4. Taken(u, S \cup {p})
    BY <2>1, <2>2, <2>3 DEF Taken
  <2> QED BY <1>2, <2>1, <2>4 DEF u
<1>3. CASE p \notin assembled /\ p \notin S
  <2>1. p \in Cards /\ k[p] = "closet" /\ parts[p] = {} /\ \A s \in Seats : p \notin table[s]
    BY <1>1, <1>3 DEF Laid, Lies, Offered
  <2>2. /\ u = [closet |-> u.closet, table |-> u.table, assembled |-> u.assembled,
                share |-> u.share, ok |-> u.ok]
        /\ u.ok = (v.ok /\ CanRemoveCard(v.closet, p))
        /\ u.table = v.table /\ u.assembled = v.assembled
        /\ u.closet = IF CanRemoveCard(v.closet, p) THEN RemoveCard(v.closet, p) ELSE v.closet
    BY <1>3 DEF TakePart, Taken
  <2>3. /\ u.table = [s \in Seats |-> table[s] \ (S \cup {p})]
        /\ u.assembled = assembled \ (S \cup {p})
    BY <1>3, <2>1, <2>2 DEF Taken
  <2>4. ASSUME u.ok
        PROVE  /\ Tidy(u.closet)
               /\ \A c \in Cards :
                     c \in InCloset(u.closet) <=>
                        \/ c \in InCloset(closet) /\ c \notin S \cup {p}
                        \/ \E q \in S \cup {p} : c \in parts[q]
    <3>1. v.ok /\ CanRemoveCard(v.closet, p) /\ u.closet = RemoveCard(v.closet, p)
      BY <2>2, <2>4
    <3> HIDE DEF u
    <3>2. Tidy(u.closet) /\ InCloset(u.closet) = InCloset(v.closet) \ {p}
      BY <2>1, <3>1, RemoveCardRemoves DEF Taken
    <3>3. \A q \in S : p \notin parts[q]
      BY <1>1, <2>1 DEF Laid, Lies
    <3> QED BY <2>1, <3>1, <3>2, <3>3 DEF Taken
  <2> HIDE DEF u
  <2>5. Taken(u, S \cup {p})
    BY <2>2, <2>3, <2>4 DEF Taken
  <2> QED BY <1>3, <2>2, <2>5 DEF u
<1>4. CASE p \in S
  <2>1. /\ p \in Cards /\ p \notin InCloset(closet) \ S
        /\ \A q \in S : p \notin parts[q]
    <3>1. p \in Cards /\ k[p] \in {"table", "closet"} /\ S \subseteq Cards
      BY <1>1 DEF Offered
    <3> QED BY <1>4, <3>1 DEF Laid, Lies
  <2>2. /\ u = [closet |-> u.closet, table |-> u.table, assembled |-> u.assembled,
                share |-> u.share, ok |-> u.ok]
        /\ u.ok = (v.ok /\ CanRemoveCard(v.closet, p))
        /\ u.table = v.table /\ u.assembled = v.assembled
    BY <1>4 DEF TakePart, Taken
  <2>3. ~u.ok
    <3>1. SUFFICES ASSUME v.ok, CanRemoveCard(v.closet, p)
                   PROVE  FALSE
      BY <2>2
    <3>2. p \in InCloset(v.closet)
      BY <2>1, <3>1, RemoveCardRemoves DEF Taken
    <3> QED BY <1>4, <2>1, <3>1, <3>2 DEF Taken
  <2>4. S \cup {p} = S
    BY <1>4
  <2> HIDE DEF u
  <2>5. Taken(u, S)
    BY <2>2, <2>3 DEF Taken
  <2> QED BY <2>3, <2>4, <2>5 DEF u
<1> QED BY <1>2, <1>3, <1>4

\* A list of parts names cards of the tables and tops of piles.
LEMMA PartListsOffered ==
  ASSUME NEW n \in Nat, NEW ps \in PartLists(n)
  PROVE  ps \in [1 .. n -> Offered] /\ Len(ps) = n /\ DOMAIN ps = 1 .. n /\ Range(ps) \subseteq Offered
<1>1. ps \in [1 .. n -> Offered]
  BY DEF PartLists, DistinctParts
<1> QED BY <1>1 DEF Range

\* The loop takes every part of the list, if none is named twice.
LEMMA TakePartsTakes ==
  ASSUME NEW k, NEW w, Laid(k, w), NEW n \in Nat, NEW ps \in PartLists(n),
         NEW order \in PartOrders(Range(ps))
  PROVE  /\ Taken(TakeParts(ps, order), Range(ps))
         /\ TakeParts(ps, order).ok => IsInjective(ps)
<1>1. ps \in [1 .. n -> Offered] /\ Len(ps) = n /\ DOMAIN ps = 1 .. n
  BY PartListsOffered
<1>2. PICK g : Taking(g, ps, order) /\ TakeParts(ps, order) = g[n]
  BY <1>1, TakingExists
<1> DEFINE S(m) == {ps[i] : i \in 1 .. m}
           Fresh(m) == \A i, j \in 1 .. m : ps[i] = ps[j] => i = j
           A == {m \in Nat : m <= n => Taken(g[m], S(m)) /\ (g[m].ok => Fresh(m))}
<1>3. Taken(g[0], S(0)) /\ Fresh(0)
  <2>1. g[0] = Untaken /\ S(0) = {}
    BY <1>1, <1>2 DEF Taking
  <2>2. Taken(Untaken, {})
    BY DEF Untaken, Taken, Laid, CardsTyped
  <2> QED BY <2>1, <2>2
<1>4. ASSUME NEW m \in Nat, m \in A PROVE m + 1 \in A
  <2> SUFFICES ASSUME m + 1 <= n
               PROVE  Taken(g[m + 1], S(m + 1)) /\ (g[m + 1].ok => Fresh(m + 1))
    OBVIOUS
  <2>1. Taken(g[m], S(m)) /\ (g[m].ok => Fresh(m))
    BY <1>4
  <2>2. g[m + 1] = TakePart(g[m], ps[m + 1], order)
    <3>1. m + 1 \in 0 .. Len(ps) /\ m + 1 # 0 /\ (m + 1) - 1 = m
      BY <1>1
    <3> QED BY <1>2, <3>1 DEF Taking
  <2>3. m + 1 \in 1 .. n /\ \A i \in 1 .. m : i \in 1 .. n /\ i # m + 1
    OBVIOUS
  <2>4. ps[m + 1] \in Offered /\ S(m) \in SUBSET Offered
    BY <1>1, <2>3
  <2>5. order[ps[m + 1]] \in Orders(parts[ps[m + 1]])
    BY <1>1, <2>3 DEF PartOrders, Range
  <2>6. S(m + 1) = S(m) \cup {ps[m + 1]}
    <3>1. 1 .. m + 1 = 1 .. m \cup {m + 1}
      OBVIOUS
    <3> QED BY <3>1
  <2>7. /\ Taken(g[m + 1], S(m + 1))
        /\ g[m + 1].ok => g[m].ok /\ ps[m + 1] \notin S(m)
    <3> HIDE DEF A, S, Fresh
    <3> QED BY <2>1, <2>2, <2>4, <2>5, <2>6, TakePartTakes
  <2>8. Fresh(m) /\ ps[m + 1] \notin S(m) => Fresh(m + 1)
    <3>1. 1 .. m + 1 = 1 .. m \cup {m + 1}
      OBVIOUS
    <3> QED BY <3>1
  <2> HIDE DEF A, S, Fresh
  <2> QED BY <2>1, <2>7, <2>8
<1>5. n \in A
  <2>1. 0 \in A
    BY <1>3
  <2> HIDE DEF A
  <2> QED BY <1>4, <2>1, NumbersFollow
<1>6. S(n) = Range(ps)
  BY <1>1 DEF Range
<1>7. Fresh(n) => IsInjective(ps)
  BY <1>1 DEF IsInjective, Injection
<1> HIDE DEF S, Fresh
<1> QED BY <1>2, <1>5, <1>6, <1>7

\* Assembling: the parts go under the potion, what they were made of to the closet.
LEMMA AssembleCarries ==
  ASSUME NEW k, NEW w, Laid(k, w), Active \in Seats, NEW c \in Cards,
         NEW ps \in PartLists(Len(Requirements(c))), PerformAssemble(c, ps)
  PROVE  Carried(k)
<1>1. CASE UNCHANGED cardVars
  BY <1>1, CardsUnchanged
<1>2. CASE ~ UNCHANGED cardVars
  <2>1. c \in Hand
    BY <1>2 DEF PerformAssemble, Fault
  <2>2. PICK order \in PartOrders(Range(ps)) :
          /\ TakeParts(ps, order).ok
          /\ closet' = TakeParts(ps, order).closet
          /\ table' = [TakeParts(ps, order).table EXCEPT ![Active] = @ \cup {c}]
          /\ hands' = [hands EXCEPT ![Active] = @ \ {c}]
          /\ parts' = [x \in Cards |->
                IF x = c THEN Range(ps) ELSE IF x \in Range(ps) THEN {} ELSE parts[x]]
          /\ assembled' = TakeParts(ps, order).assembled \cup {c}
          /\ universal' = (universal \ Range(ps)) \cup (IF UsesUniversal(ps) THEN {c} ELSE {})
          /\ UNCHANGED decks
    BY <1>2, <2>1 DEF PerformAssemble, Fault
  <2>3. Len(Requirements(c)) \in Nat
    BY DataAssumption DEF Requirements
  <2> DEFINE R == Range(ps)
  <2>4. Taken(TakeParts(ps, order), R)
    BY <2>2, <2>3, TakePartsTakes
  <2>5. R \subseteq assembled \cup Tops(closet)
    BY <2>3, PartListsOffered DEF Offered
  <2>6. c \in Cards /\ k[c] = "hand" /\ w[c] = Active
    BY <2>1 DEF Hand, Laid, CardsTyped, Lies
  <2>7. \A p \in R :
          /\ p \in Cards /\ k[p] \in {"table", "closet"}
          /\ k[p] = "closet" => p \in Tops(closet)
    <3>1. \A q \in Tops(closet) : q \in InCloset(closet) /\ q \in Cards
      BY TopsInCloset DEF Laid, CardsTyped
    <3> QED BY <2>5, <3>1 DEF Laid, CardsTyped, TablesAgree, Lies
  <2>8. /\ table' = [s \in Seats |-> IF s = Active THEN (table[s] \ R) \cup {c} ELSE table[s] \ R]
        /\ Tidy(closet')
        /\ \A x \in Cards : x \in InCloset(closet') <=> \/ k[x] = "closet" /\ x \notin R
                                                        \/ k[x] = "part" /\ w[x] \in R
    <3>1. \A x \in Cards : (\E p \in R : x \in parts[p]) <=> k[x] = "part" /\ w[x] \in R
      BY <2>7 DEF Laid, Lies
    <3>2. table' = [s \in Seats |-> IF s = Active THEN (table[s] \ R) \cup {c} ELSE table[s] \ R]
      BY <2>2, <2>4 DEF Taken
    <3>3. /\ Tidy(closet')
          /\ \A x \in Cards : x \in InCloset(closet') <=> \/ x \in InCloset(closet) /\ x \notin R
                                                          \/ \E p \in R : x \in parts[p]
      <4> HIDE DEF R
      <4> QED BY <2>2, <2>4 DEF Taken
    <3>4. \A x \in Cards : x \in InCloset(closet) <=> k[x] = "closet"
      BY DEF Laid, Lies
    <3> HIDE DEF R
    <3> QED BY <3>1, <3>2, <3>3, <3>4
  <2>9. PICK new : new = [x \in Cards |->
                      IF x = c THEN "table" ELSE IF x \in R THEN "part"
                      ELSE IF k[x] = "part" /\ w[x] \in R THEN "closet" ELSE k[x]]
    OBVIOUS
  <2>10. PICK v : v = [x \in Cards |-> IF x = c THEN Active ELSE IF x \in R THEN c ELSE w[x]]
    OBVIOUS
  <2> HIDE DEF R
  <2>11. /\ hands' = [hands EXCEPT ![Active] = @ \ {c}]
         /\ parts' = [x \in Cards |-> IF x = c THEN R ELSE IF x \in R THEN {} ELSE parts[x]]
         /\ assembled' = (assembled \ R) \cup {c}
         /\ universal' \subseteq (universal \ R) \cup {c}
         /\ UNCHANGED decks
    <3>1. assembled' = (assembled \ R) \cup {c}
      BY <2>2, <2>4 DEF Taken
    <3> QED BY <2>2, <3>1 DEF R
  <2>12. CardsTyped'
    BY <2>6, <2>7, <2>8, <2>11 DEF Laid, CardsTyped
  <2>13. TablesAgree'
    <3>1. assembled' = UNION {table'[s] : s \in Seats}
      BY <2>8, <2>11 DEF Laid, TablesAgree
    <3> QED BY <2>11, <3>1 DEF Laid, TablesAgree
  <2>14. Lies(new, v)'
    <3>1. \A x \in Cards :
            /\ new[x] \in Places
            /\ new[x] \in {"hand", "table"} => v[x] \in Seats
            /\ new[x] = "part" => v[x] \in Cards
            /\ x \in InCloset(closet') <=> new[x] = "closet"
      <4> SUFFICES ASSUME NEW x \in Cards
                   PROVE  /\ new[x] \in Places
                          /\ new[x] \in {"hand", "table"} => v[x] \in Seats
                          /\ new[x] = "part" => v[x] \in Cards
                          /\ x \in InCloset(closet') <=> new[x] = "closet"
        OBVIOUS
      <4>1. /\ k[x] \in Places
            /\ k[x] \in {"hand", "table"} => w[x] \in Seats
            /\ k[x] = "part" => w[x] \in Cards
        BY DEF Laid, Lies
      <4>2. new[x] \in Places
        BY <2>9, <4>1 DEF Places
      <4>3. new[x] \in {"hand", "table"} => v[x] \in Seats
        BY <2>9, <2>10, <4>1
      <4>4. new[x] = "part" => v[x] \in Cards
        BY <2>6, <2>9, <2>10, <4>1
      <4>5. x \in InCloset(closet') <=> new[x] = "closet"
        BY <2>6, <2>7, <2>8, <2>9
      <4> QED BY <4>2, <4>3, <4>4, <4>5
    <3>2. \A x \in Cards, d \in DeckTypes : x \in decks'[d] <=> new[x] = d
      BY <2>6, <2>7, <2>9, <2>11 DEF Laid, Lies, DeckTypes
    <3>3. \A x \in Cards, s \in Seats : x \in hands'[s] <=> new[x] = "hand" /\ v[x] = s
      BY <2>6, <2>7, <2>9, <2>10, <2>11 DEF Laid, Lies, CardsTyped
    <3>4. \A x \in Cards, s \in Seats : x \in table'[s] <=> new[x] = "table" /\ v[x] = s
      BY <2>6, <2>7, <2>8, <2>9, <2>10 DEF Laid, Lies, CardsTyped
    <3>5. \A x \in Cards, y \in Cards : x \in parts'[y] <=> new[x] = "part" /\ v[x] = y
      <4> SUFFICES ASSUME NEW x \in Cards, NEW y \in Cards
                   PROVE  x \in parts'[y] <=> new[x] = "part" /\ v[x] = y
        OBVIOUS
      <4>1. c \notin R /\ parts[c] = {}
        BY <2>6, <2>7 DEF Laid, Lies, CardsTyped, TablesAgree
      <4>2. x \in parts[y] <=> k[x] = "part" /\ w[x] = y
        BY DEF Laid, Lies
      <4>3. x \in R => k[x] # "part"
        BY <2>7
      <4>4. parts'[y] = IF y = c THEN R ELSE IF y \in R THEN {} ELSE parts[y]
        BY <2>11
      <4>5. k[x] = "part" => w[x] # c
        BY <4>1 DEF Laid, Lies
      <4> QED BY <2>6, <2>9, <2>10, <4>1, <4>2, <4>3, <4>4, <4>5
    <3> QED BY ONLY <3>1, <3>2, <3>3, <3>4, <3>5 DEF Lies
  <2>15. Kept(k, new)
    BY <2>6, <2>7, <2>9 DEF Kept
  <2> QED BY <2>12, <2>13, <2>14, <2>15 DEF Carried, Laid
<1> QED BY <1>1, <1>2

\* As many different cards as there are places.
LEMMA ShelfLists ==
  ASSUME NEW deck \in SUBSET Cards, NEW n \in Nat, NEW h, NEW x \in FairDeals(deck, n, h)
  PROVE  /\ Lists(x.shelf, Range(x.shelf)) /\ Range(x.shelf) \subseteq deck
         /\ \A s \in Seats : x.dealt[s] \subseteq deck /\ x.dealt[s] \cap Range(x.shelf) = {}
         /\ \A s, t \in Seats : s # t => x.dealt[s] \cap x.dealt[t] = {}
<1>1. /\ x.shelf \in [1 .. n -> deck] /\ Cardinality(Range(x.shelf)) = n
      /\ \A s \in Seats : x.dealt[s] \subseteq deck
  BY DEF FairDeals, Deals, kSubset
<1>2. /\ \A s \in Seats : x.dealt[s] \cap Range(x.shelf) = {}
      /\ \A s, t \in Seats : s # t => x.dealt[s] \cap x.dealt[t] = {}
  BY DEF FairDeals
<1> DEFINE shelf == x.shelf
<1> HIDE DEF shelf
<1>3. shelf \in [1 .. n -> deck] /\ Cardinality(Range(shelf)) = n
  BY <1>1 DEF shelf
<1>4. shelf \in Seq(Cards) /\ Range(shelf) \subseteq deck
  BY <1>3 DEF Range
<1>7. IsInjective(shelf)
  BY <1>3, AllDifferent
<1>8. Lists(shelf, Range(shelf))
  BY <1>4, <1>7 DEF Lists
<1> QED BY <1>1, <1>2, <1>4, <1>8 DEF shelf

\* The deal: each card of the box goes to one hand, the closet or a deck.
LEMMA StartDeals ==
  ASSUME NEW k, NEW w, Laid(k, w), \A c \in Cards : k[c] = "gone", NEW box \in Boxes, StartWith(box)
  PROVE  \E new, v : Laid(new, v)' /\ Accounted(new, box)
<1> DEFINE base == {c \in box : DeckOf(c) = "base"}
           uni == IF Expansion THEN box \ base ELSE {}
           n == IF Expansion THEN InitialExpansionClosetSize ELSE 0
           h == IF Expansion THEN InitialExpansionHandSize ELSE 0
<1>1. box \subseteq Cards /\ base \in SUBSET Cards /\ uni \in SUBSET Cards /\ base \cap uni = {}
  BY GameAssumption
<1>2. PICK x \in FairDeals(base, InitialClosetSize, InitialHandSize), y \in FairDeals(uni, n, h) :
        /\ closet' = AddCards(closet, x.shelf \o y.shelf, spellsOnTop)
        /\ hands' = [s \in Seats |-> x.dealt[s] \cup y.dealt[s]]
        /\ decks' = [d \in DeckTypes |->
                       (IF d = "base" THEN base ELSE uni)
                           \ (InCloset(closet') \cup UNION {hands'[s] : s \in Seats})]
  BY DEF StartWith
<1>3. UNCHANGED <<table, parts, assembled, universal>>
  BY DEF StartWith
<1> HIDE DEF base, uni, n, h
<1>4. InitialClosetSize \in Nat /\ n \in Nat
  BY RulesAssumption DEF n
<1>5. /\ Lists(x.shelf, Range(x.shelf)) /\ Range(x.shelf) \subseteq base
      /\ \A s \in Seats : x.dealt[s] \subseteq base /\ x.dealt[s] \cap Range(x.shelf) = {}
      /\ \A s, t \in Seats : s # t => x.dealt[s] \cap x.dealt[t] = {}
  BY <1>1, <1>4, ShelfLists
<1>6. /\ Lists(y.shelf, Range(y.shelf)) /\ Range(y.shelf) \subseteq uni
      /\ \A s \in Seats : y.dealt[s] \subseteq uni /\ y.dealt[s] \cap Range(y.shelf) = {}
      /\ \A s, t \in Seats : s # t => y.dealt[s] \cap y.dealt[t] = {}
  BY <1>1, <1>4, ShelfLists
<1> DEFINE shelved == Range(x.shelf) \cup Range(y.shelf)
<1>7. Tidy(closet') /\ InCloset(closet') = shelved
  <2>1. Tidy(closet) /\ InCloset(closet) = {}
    BY InClosetIsCards DEF Laid, Lies, CardsTyped
  <2>2. Range(x.shelf) \cap Range(y.shelf) = {} /\ shelved \cap InCloset(closet) = {}
    BY <1>1, <1>5, <1>6, <2>1
  <2>3. Lists(x.shelf \o y.shelf, shelved)
    BY <1>5, <1>6, <2>2, ListJoin
  <2>4. Tidy(closet') /\ InCloset(closet') = InCloset(closet) \cup shelved
    <3> HIDE DEF shelved
    <3> QED BY <1>2, <2>1, <2>2, <2>3, ListAdds
  <2> QED BY <2>1, <2>4
<1> DEFINE dealt == UNION {hands'[s] : s \in Seats}
<1>8. /\ \A s \in Seats : hands'[s] \subseteq base \cup uni /\ hands'[s] \cap shelved = {}
      /\ \A s, t \in Seats : s # t => hands'[s] \cap hands'[t] = {}
      /\ shelved \subseteq base \cup uni
  BY <1>1, <1>2, <1>5, <1>6
<1>9. \A d \in DeckTypes : decks'[d] = (IF d = "base" THEN base ELSE uni) \ (shelved \cup dealt)
  BY <1>2, <1>7
<1>10. PICK new : new = [c \in Cards |-> IF c \in shelved THEN "closet"
                                         ELSE IF c \in dealt THEN "hand"
                                         ELSE IF c \in base THEN "base"
                                         ELSE IF c \in uni THEN "university" ELSE "gone"]
  OBVIOUS
<1>11. PICK v : v = [c \in Cards |-> CHOOSE s \in Seats : c \in hands'[s]]
  OBVIOUS
<1>12. /\ decks' = [d \in DeckTypes |-> decks'[d]] /\ hands' = [s \in Seats |-> hands'[s]]
       /\ dealt \subseteq base \cup uni /\ dealt \cap shelved = {}
  BY <1>2, <1>8
<1>13. \A c \in Cards, s \in Seats : c \in hands'[s] <=> c \in dealt /\ v[c] = s
  BY <1>8, <1>11
<1>14. (\A s \in Seats : table[s] = {}) /\ (\A c \in Cards : parts[c] = {})
  BY DEF Laid, Lies, CardsTyped
<1>15. CardsTyped'
  <2>1. \A d \in DeckTypes : decks'[d] \subseteq Cards
    BY <1>1, <1>9
  <2>2. \A s \in Seats : hands'[s] \subseteq Cards
    BY <1>1, <1>8
  <2> HIDE DEF dealt, shelved
  <2> QED BY <1>3, <1>7, <1>12, <2>1, <2>2 DEF Laid, CardsTyped
<1>16. TablesAgree'
  BY <1>3 DEF Laid, TablesAgree
<1>17. Lies(new, v)'
  <2>1. \A c \in Cards : new[c] = "hand" => v[c] \in Seats
    BY <1>1, <1>10, <1>11
  <2>2. \A c \in Cards, d \in DeckTypes : c \in decks'[d] <=> new[c] = d
    <3> HIDE DEF dealt, shelved
    <3> QED BY <1>1, <1>9, <1>10 DEF DeckTypes
  <2>3. \A c \in Cards, s \in Seats : c \in hands'[s] <=> new[c] = "hand" /\ v[c] = s
    <3> HIDE DEF dealt, shelved
    <3> QED BY <1>10, <1>12, <1>13
  <2>4. \A c \in Cards : /\ new[c] \in Places /\ new[c] \notin {"table", "part"}
                         /\ c \in InCloset(closet') <=> new[c] = "closet"
    <3> HIDE DEF dealt, shelved
    <3> QED BY <1>7, <1>10 DEF Places, DeckTypes
  <2>5. \A c \in Cards, s \in Seats : c \in table'[s] <=> new[c] = "table" /\ v[c] = s
    BY <1>3, <1>14, <2>4
  <2>6. \A c \in Cards, z \in Cards : c \in parts'[z] <=> new[c] = "part" /\ v[c] = z
    BY <1>3, <1>14, <2>4
  <2>7. \A c \in Cards : /\ new[c] \in {"hand", "table"} => v[c] \in Seats
                         /\ new[c] = "part" => v[c] \in Cards
    BY <2>1, <2>4
  <2>8. \A c \in Cards :
          /\ new[c] \in Places
          /\ new[c] \in {"hand", "table"} => v[c] \in Seats
          /\ new[c] = "part" => v[c] \in Cards
          /\ c \in InCloset(closet') <=> new[c] = "closet"
    BY <2>4, <2>7
  <2> QED BY ONLY <2>2, <2>3, <2>5, <2>6, <2>8 DEF Lies
<1>18. Accounted(new, box)
  <2>1. \A c \in Cards : c \in InPlay(box) <=> c \in base \cup uni
    BY DEF InPlay, base, uni
  <2>2. shelved \subseteq base \cup uni /\ dealt \subseteq base \cup uni
    BY <1>8, <1>12
  <2> HIDE DEF dealt, shelved
  <2> QED BY <1>10, <2>1, <2>2 DEF Accounted
<1> QED BY <1>15, <1>16, <1>17, <1>18 DEF Laid
=============================================================================
