---------------------------- MODULE ClosetProofs ----------------------------
(***************************************************************************)
(* What adding, removing and rebuilding do to the cards of a closet.  The  *)
(* piles of a tidy closet hold each card at most once, in its own pile;    *)
(* then a closet is as good as the set of its cards.                       *)
(***************************************************************************)
EXTENDS Closet, TLAPS, WellFoundedInduction, NaturalsInduction, FiniteSetTheorems

\* Every pile holds each of its cards once, and only cards of its own ingredient.
Tidy(cl) ==
    /\ cl \in [Piles -> Seq(Cards)]
    /\ \A i \in Piles : IsInjective(cl[i]) /\ \A k \in DOMAIN cl[i] : GetIngredient(cl[i][k]) = i

\* A set with 0 and all successors has every number.
LEMMA NumbersFollow ==
  ASSUME NEW A, 0 \in A, \A n \in Nat : n \in A => n + 1 \in A
  PROVE  Nat \subseteq A
<1> DEFINE T == Nat \ A
<1> SUFFICES ASSUME T # {} PROVE FALSE
  OBVIOUS
<1>1. T \subseteq Nat
  OBVIOUS
<1>2. PICK x \in T : \A y \in T : ~ (<<y, x>> \in OpToRel(<, Nat))
  <2> HIDE DEF T
  <2> QED BY WFMin, NatLessThanWellFounded, <1>1
<1>3. \A y \in Nat : y < x => <<y, x>> \in OpToRel(<, Nat)
  BY <1>2 DEF OpToRel
<1>4. \A y \in Nat : y < x => y \in A
  BY <1>2, <1>3
<1>5. x \in Nat /\ x \notin A
  OBVIOUS
<1>6. x - 1 \in Nat /\ x - 1 < x /\ x = (x - 1) + 1
  BY <1>5
<1> QED BY <1>4, <1>5, <1>6

\* In a closet a card is in the pile of its ingredient.
LEMMA InTidyCloset ==
  ASSUME NEW cl, Tidy(cl), NEW c \in Cards
  PROVE  c \in InCloset(cl) <=> \E k \in DOMAIN cl[GetIngredient(c)] : cl[GetIngredient(c)][k] = c
<1>1. GetIngredient(c) \in Piles
  BY DEF Piles
<1> QED BY <1>1 DEF InCloset, Tidy, Range

\* A tidy closet holds cards.
LEMMA InClosetIsCards ==
  ASSUME NEW cl, Tidy(cl)
  PROVE  InCloset(cl) \subseteq Cards
BY DEF InCloset, Tidy, Range

\* The top of a pile is in the closet.
LEMMA TopsInCloset ==
  ASSUME NEW cl, Tidy(cl), NEW c \in Tops(cl)
  PROVE  c \in InCloset(cl) /\ c \in Cards
<1>1. PICK i \in Piles : cl[i] # <<>> /\ c = Last(cl[i])
  BY DEF Tops
<1>2. cl[i] \in Seq(Cards) /\ Len(cl[i]) \in DOMAIN cl[i] /\ c = cl[i][Len(cl[i])]
  BY <1>1 DEF Tidy, Last
<1> QED BY <1>2 DEF InCloset, Range

\* The closet a game is made with.
LEMMA EmptyClosetTidy == Tidy(EmptyCloset) /\ InCloset(EmptyCloset) = {}
BY DEF EmptyCloset, Tidy, InCloset, Range, IsInjective

\* A card comes to the top, or to the bottom, of a pile that does not have it.
LEMMA PileGrows ==
  ASSUME NEW pile \in Seq(Cards), IsInjective(pile), NEW c \in Cards, NEW onTop,
         c \notin Range(pile)
  PROVE  /\ AddToPile(pile, c, onTop) \in Seq(Cards)
         /\ IsInjective(AddToPile(pile, c, onTop))
         /\ Range(AddToPile(pile, c, onTop)) = Range(pile) \cup {c}
<1> DEFINE up == Append(pile, c)
           down == <<c>> \o pile
<1>1. up \in Seq(Cards) /\ IsInjective(up) /\ Range(up) = Range(pile) \cup {c}
  <2>1. /\ up \in Seq(Cards) /\ Len(up) = Len(pile) + 1 /\ Len(pile) \in Nat
        /\ \A k \in 1 .. Len(pile) : up[k] = pile[k]
        /\ up[Len(pile) + 1] = c
    OBVIOUS
  <2>2. \A k \in 1 .. Len(up) : k \in 1 .. Len(pile) \/ k = Len(pile) + 1
    BY <2>1
  <2>3. DOMAIN up = 1 .. Len(up) /\ DOMAIN pile = 1 .. Len(pile)
    BY <2>1
  <2>4. Range(up) = Range(pile) \cup {c}
    <3> HIDE DEF up
    <3> QED BY <2>1, <2>2, <2>3 DEF Range
  <2>5. IsInjective(up)
    <3> HIDE DEF up
    <3> QED BY <2>1, <2>2, <2>3 DEF Range, IsInjective
  <2> QED BY <2>1, <2>4, <2>5
<1>2. down \in Seq(Cards) /\ IsInjective(down) /\ Range(down) = Range(pile) \cup {c}
  <2>1. /\ down \in Seq(Cards) /\ Len(down) = Len(pile) + 1 /\ Len(pile) \in Nat
        /\ \A k \in 1 .. Len(pile) : down[k + 1] = pile[k]
        /\ down[1] = c
    OBVIOUS
  <2>2. /\ \A k \in 1 .. Len(down) : k = 1 \/ (k - 1 \in 1 .. Len(pile) /\ down[k] = pile[k - 1])
        /\ 1 \in 1 .. Len(down) /\ \A k \in 1 .. Len(pile) : k + 1 \in 1 .. Len(down)
    <3> HIDE DEF down
    <3> QED BY <2>1
  <2>3. DOMAIN down = 1 .. Len(down) /\ DOMAIN pile = 1 .. Len(pile)
    BY <2>1
  <2>4. Range(down) = Range(pile) \cup {c}
    <3> HIDE DEF down, up
    <3>1. \A k \in DOMAIN down : down[k] \in Range(pile) \cup {c}
      BY <2>1, <2>2, <2>3 DEF Range
    <3>2. c \in Range(down) /\ \A k \in DOMAIN pile : pile[k] \in Range(down)
      <4>1. \A k \in DOMAIN pile : \E m \in DOMAIN down : down[m] = pile[k]
        BY <2>1, <2>2, <2>3
      <4>2. \E m \in DOMAIN down : down[m] = c
        BY <2>1, <2>2, <2>3
      <4> QED BY <4>1, <4>2 DEF Range
    <3> QED BY <3>1, <3>2 DEF Range
  <2>5. IsInjective(down)
    <3> HIDE DEF down, up
    <3> SUFFICES ASSUME NEW j \in 1 .. Len(down), NEW k \in 1 .. Len(down), down[j] = down[k]
                 PROVE  j = k
      BY <2>3 DEF IsInjective
    <3>1. CASE j = 1 \/ k = 1
      BY <2>1, <2>2, <2>3, <3>1 DEF Range
    <3>2. CASE j # 1 /\ k # 1
      <4>1. /\ j - 1 \in DOMAIN pile /\ k - 1 \in DOMAIN pile
            /\ pile[j - 1] = pile[k - 1]
        BY <2>2, <2>3, <3>2
      <4>2. j - 1 = k - 1
        BY <4>1 DEF IsInjective
      <4>3. j \in Int /\ k \in Int
        BY <2>1
      <4> QED BY <4>2, <4>3
    <3> QED BY <3>1, <3>2
  <2> QED BY <2>1, <2>4, <2>5
<1> QED BY <1>1, <1>2 DEF AddToPile

\* A card that is not in the closet is added to it.
LEMMA AddCardAdds ==
  ASSUME NEW cl, Tidy(cl), NEW c \in Cards, c \notin InCloset(cl), NEW onTop
  PROVE  /\ Tidy(AddCard(cl, c, onTop))
         /\ InCloset(AddCard(cl, c, onTop)) = InCloset(cl) \cup {c}
<1> DEFINE i == GetIngredient(c)
           new == AddCard(cl, c, onTop)
<1>1. i \in Piles
  BY DEF Piles
<1>2. cl[i] \in Seq(Cards) /\ IsInjective(cl[i]) /\ c \notin Range(cl[i])
  BY <1>1 DEF Tidy, InCloset
<1>3. /\ new[i] \in Seq(Cards) /\ IsInjective(new[i]) /\ Range(new[i]) = Range(cl[i]) \cup {c}
      /\ new \in [Piles -> Seq(Cards)]
      /\ \A j \in Piles : j # i => new[j] = cl[j]
  BY <1>1, <1>2, PileGrows DEF AddCard, Tidy
<1>4. \A j \in Piles : \A k \in DOMAIN new[j] : GetIngredient(new[j][k]) = j
  <2> SUFFICES ASSUME NEW k \in DOMAIN new[i] PROVE GetIngredient(new[i][k]) = i
    BY <1>3 DEF Tidy
  <2>1. new[i][k] \in Range(cl[i]) \cup {c}
    BY <1>3 DEF Range
  <2> QED BY <1>1, <2>1 DEF Tidy, Range
<1>5. InCloset(new) = InCloset(cl) \cup {c}
  <2> HIDE DEF new
  <2> QED BY <1>1, <1>3 DEF InCloset
<1> QED
  <2> HIDE DEF new
  <2>1. Tidy(new)
    BY <1>3, <1>4 DEF Tidy
  <2> QED BY <2>1, <1>5 DEF new

\* The card that is taken is the only one that leaves.
LEMMA RemoveCardRemoves ==
  ASSUME NEW cl, Tidy(cl), NEW c \in Cards, CanRemoveCard(cl, c)
  PROVE  /\ Tidy(RemoveCard(cl, c))
         /\ c \in InCloset(cl) /\ c \in Tops(cl)
         /\ InCloset(RemoveCard(cl, c)) = InCloset(cl) \ {c}
<1> DEFINE i == GetIngredient(c)
           pile == cl[i]
           new == RemoveCard(cl, c)
           n == Len(pile)
<1>1. i \in Piles
  BY DEF Piles
<1>2. pile \in Seq(Cards) /\ IsInjective(pile) /\ pile # <<>> /\ pile[n] = c
  BY <1>1 DEF Tidy, CanRemoveCard, Last
<1>3. n \in Nat /\ n >= 1 /\ DOMAIN pile = 1 .. n
  <2> HIDE DEF pile
  <2> QED BY <1>2
<1>4. /\ new[i] \in Seq(Cards) /\ DOMAIN new[i] = 1 .. n - 1
      /\ \A k \in 1 .. n - 1 : new[i][k] = pile[k]
  <2>1. new[i] = SubSeq(pile, 1, n - 1)
    BY <1>1 DEF RemoveCard, Front, Tidy
  <2>2. /\ SubSeq(pile, 1, n - 1) \in Seq(Cards) /\ Len(SubSeq(pile, 1, n - 1)) = n - 1
        /\ \A k \in 1 .. n - 1 : SubSeq(pile, 1, n - 1)[k] = pile[k]
    <3> HIDE DEF pile
    <3> QED BY <1>2, <1>3
  <2> QED BY <2>1, <2>2
<1>5. new \in [Piles -> Seq(Cards)] /\ \A j \in Piles : j # i => new[j] = cl[j]
  <2>1. new = [cl EXCEPT ![i] = new[i]]
    BY <1>1 DEF RemoveCard, Tidy
  <2> HIDE DEF new
  <2> QED BY <1>1, <1>4, <2>1 DEF Tidy
<1>6. Range(new[i]) = Range(pile) \ {c} /\ IsInjective(new[i])
  <2>1. \A m \in Nat : /\ \A k \in 1 .. m : k \in 1 .. m - 1 \/ k = m
                       /\ \A k \in 1 .. m - 1 : k \in 1 .. m /\ k # m
    OBVIOUS
  <2>2. /\ \A k \in 1 .. n : k \in 1 .. n - 1 \/ k = n
        /\ \A k \in 1 .. n - 1 : k \in 1 .. n /\ k # n
    BY <1>3, <2>1
  <2>3. n \in 1 .. n
    BY <1>3
  <2> HIDE DEF new, pile, n
  <2>4. IsInjective(new[i])
    BY <1>2, <1>3, <1>4, <2>2 DEF IsInjective
  <2>5. \A k \in DOMAIN new[i] : new[i][k] \in Range(pile) \ {c}
    BY <1>2, <1>3, <1>4, <2>2, <2>3 DEF Range, IsInjective
  <2>6. \A k \in DOMAIN pile : pile[k] # c => \E m \in DOMAIN new[i] : new[i][m] = pile[k]
    BY <1>2, <1>3, <1>4, <2>2
  <2> QED BY <2>4, <2>5, <2>6 DEF Range
<1>7. \A j \in Piles : j # i => c \notin Range(cl[j])
  BY DEF Tidy, Range
<1>8. c \in Range(pile)
  BY <1>2, <1>3 DEF Range
<1>9. Tidy(new)
  <2> HIDE DEF new
  <2> SUFFICES ASSUME NEW k \in DOMAIN new[i] PROVE GetIngredient(new[i][k]) = i
    BY <1>5, <1>6 DEF Tidy
  <2>1. k \in DOMAIN pile /\ new[i][k] = pile[k]
    BY <1>3, <1>4
  <2> QED BY <1>1, <2>1 DEF Tidy
<1>10. InCloset(new) = InCloset(cl) \ {c}
  <2> HIDE DEF new
  <2> QED BY <1>1, <1>5, <1>6, <1>7 DEF InCloset
<1>11. c \in Tops(cl)
  BY <1>1 DEF CanRemoveCard, Tops
<1> QED BY <1>1, <1>8, <1>9, <1>10, <1>11 DEF InCloset

\* The closets a list of cards goes through when it is added.
Adding(g, cl, cs, onTop) ==
    g = [n \in 0 .. Len(cs) |-> IF n = 0 THEN cl ELSE AddCard(g[n - 1], cs[n], onTop)]

\* AddCards is the last state of the loop that adds the cards one by one.
LEMMA AddingExists ==
  ASSUME NEW cl, NEW cs, Len(cs) \in Nat, NEW onTop
  PROVE  \E g : Adding(g, cl, cs, onTop) /\ AddCards(cl, cs, onTop) = g[Len(cs)]
<1> DEFINE Upto(g, m) ==
              g = [n \in 0 .. m |-> IF n = 0 THEN cl ELSE AddCard(g[n - 1], cs[n], onTop)]
           A == {m \in Nat : \E g : Upto(g, m)}
<1>1. 0 \in A
  <2>1. Upto([n \in 0 .. 0 |-> cl], 0)
    OBVIOUS
  <2> QED BY <2>1
<1>2. ASSUME NEW m \in Nat, m \in A PROVE m + 1 \in A
  <2>1. PICK g : Upto(g, m)
    BY <1>2
  <2>2. PICK h : h = [n \in 0 .. m + 1 |-> IF n = m + 1 THEN AddCard(g[m], cs[n], onTop) ELSE g[n]]
    OBVIOUS
  <2>3. \A n \in 0 .. m : h[n] = g[n]
    BY <2>2
  <2>4. \A n \in 0 .. m + 1 : h[n] = IF n = 0 THEN cl ELSE AddCard(h[n - 1], cs[n], onTop)
    <3> TAKE n \in 0 .. m + 1
    <3>1. CASE n = m + 1
      BY <2>2, <2>3, <3>1
    <3>2. CASE n # m + 1
      <4>1. n \in 0 .. m /\ (n # 0 => n - 1 \in 0 .. m)
        BY <3>2
      <4>2. g[n] = IF n = 0 THEN cl ELSE AddCard(g[n - 1], cs[n], onTop)
        BY <2>1, <4>1
      <4> QED BY <2>3, <4>1, <4>2
    <3> QED BY <3>1, <3>2
  <2>5. Upto(h, m + 1)
    BY <2>2, <2>4
  <2> QED BY <2>5
<1>3. Len(cs) \in A
  <2> HIDE DEF A
  <2> QED BY <1>1, <1>2, NumbersFollow
<1> DEFINE g == CHOOSE f :
      f = [n \in 0 .. Len(cs) |-> IF n = 0 THEN cl ELSE AddCard(f[n - 1], cs[n], onTop)]
<1>4. Adding(g, cl, cs, onTop)
  BY <1>3, Zenon DEF Adding
<1>5. AddCards(cl, cs, onTop) = g[Len(cs)]
  BY DEF AddCards
<1> QED BY <1>4, <1>5

\* Cards that are not in the closet are added to it, each once.
LEMMA AddCardsAdds ==
  ASSUME NEW cl, Tidy(cl), NEW cs \in Seq(Cards), IsInjective(cs), NEW onTop,
         \A k \in DOMAIN cs : cs[k] \notin InCloset(cl)
  PROVE  /\ Tidy(AddCards(cl, cs, onTop))
         /\ InCloset(AddCards(cl, cs, onTop)) = InCloset(cl) \cup Range(cs)
<1>1. Len(cs) \in Nat /\ DOMAIN cs = 1 .. Len(cs)
  OBVIOUS
<1>2. PICK g : Adding(g, cl, cs, onTop) /\ AddCards(cl, cs, onTop) = g[Len(cs)]
  BY <1>1, AddingExists
<1> DEFINE Good(n) == Tidy(g[n]) /\ InCloset(g[n]) = InCloset(cl) \cup {cs[k] : k \in 1 .. n}
           A == {n \in Nat : n <= Len(cs) => Good(n)}
<1>3. Good(0)
  <2>1. g[0] = cl
    BY <1>1, <1>2 DEF Adding
  <2> QED BY <2>1
<1>4. ASSUME NEW n \in Nat, n \in A PROVE n + 1 \in A
  <2> SUFFICES ASSUME n + 1 <= Len(cs) PROVE Good(n + 1)
    OBVIOUS
  <2>1. Good(n)
    BY <1>1, <1>4
  <2>2. g[n + 1] = AddCard(g[n], cs[n + 1], onTop)
    <3>1. n + 1 \in 0 .. Len(cs) /\ n + 1 # 0 /\ (n + 1) - 1 = n
      BY <1>1
    <3> QED BY <1>2, <3>1 DEF Adding
  <2>3. n + 1 \in DOMAIN cs /\ \A k \in 1 .. n : k \in DOMAIN cs /\ k # n + 1
    BY <1>1
  <2>4. cs[n + 1] \in Cards /\ cs[n + 1] \notin InCloset(g[n])
    BY <2>1, <2>3 DEF IsInjective
  <2>5. {cs[k] : k \in 1 .. n + 1} = {cs[k] : k \in 1 .. n} \cup {cs[n + 1]}
    <3>1. 1 .. n + 1 = 1 .. n \cup {n + 1}
      OBVIOUS
    <3> QED BY <3>1
  <2> HIDE DEF A
  <2> QED BY <2>1, <2>2, <2>4, <2>5, AddCardAdds
<1>5. Len(cs) \in A
  <2>1. 0 \in A
    BY <1>3
  <2> HIDE DEF A
  <2> QED BY <1>1, <1>4, <2>1, NumbersFollow
<1>6. {cs[k] : k \in 1 .. Len(cs)} = Range(cs)
  BY <1>1 DEF Range
<1> QED BY <1>1, <1>2, <1>5, <1>6

\* The pile of an ingredient that none of the cards has stays as it is.
LEMMA AddCardsElsewhere ==
  ASSUME NEW cl, DOMAIN cl = Piles, NEW cs \in Seq(Cards), NEW onTop
  PROVE  /\ DOMAIN AddCards(cl, cs, onTop) = Piles
         /\ \A i \in Piles : (\A n \in DOMAIN cs : GetIngredient(cs[n]) # i)
                             => AddCards(cl, cs, onTop)[i] = cl[i]
<1>1. Len(cs) \in Nat /\ DOMAIN cs = 1 .. Len(cs)
  OBVIOUS
<1>2. PICK g : Adding(g, cl, cs, onTop) /\ AddCards(cl, cs, onTop) = g[Len(cs)]
  BY <1>1, AddingExists
<1> DEFINE Spared(i) == \A n \in DOMAIN cs : GetIngredient(cs[n]) # i
           Good(n) == DOMAIN g[n] = Piles /\ \A i \in Piles : Spared(i) => g[n][i] = cl[i]
           A == {n \in Nat : n <= Len(cs) => Good(n)}
<1>3. Good(0)
  <2>1. g[0] = cl
    BY <1>1, <1>2 DEF Adding
  <2> QED BY <2>1
<1>4. ASSUME NEW n \in Nat, n \in A PROVE n + 1 \in A
  <2> SUFFICES ASSUME n + 1 <= Len(cs) PROVE Good(n + 1)
    OBVIOUS
  <2>1. Good(n)
    BY <1>1, <1>4
  <2>2. g[n + 1] = AddCard(g[n], cs[n + 1], onTop)
    <3>1. n + 1 \in 0 .. Len(cs) /\ n + 1 # 0 /\ (n + 1) - 1 = n
      BY <1>1
    <3> QED BY <1>2, <3>1 DEF Adding
  <2>3. \A i \in Piles : Spared(i) => GetIngredient(cs[n + 1]) # i
    BY <1>1
  <2> QED BY <2>1, <2>2, <2>3 DEF AddCard
<1>5. Len(cs) \in A
  <2>1. 0 \in A
    BY <1>3
  <2> HIDE DEF A
  <2> QED BY <1>1, <1>4, <2>1, NumbersFollow
<1> QED BY <1>1, <1>2, <1>5

\* Loading keeps the cards of every pile.
LEMMA ReloadedKeeps ==
  ASSUME NEW cl, Tidy(cl)
  PROVE  Tidy(Reloaded(cl)) /\ InCloset(Reloaded(cl)) = InCloset(cl)
<1> DEFINE new == Reloaded(cl)
<1>1. ASSUME NEW i \in Piles
      PROVE  /\ new[i] \in Seq(Cards) /\ IsInjective(new[i]) /\ Range(new[i]) = Range(cl[i])
             /\ \A k \in DOMAIN new[i] : GetIngredient(new[i][k]) = i
  <2> DEFINE added == AddCards(EmptyCloset, cl[i], FALSE)
  <2>1. Tidy(added) /\ InCloset(added) = Range(cl[i])
    <3>1. cl[i] \in Seq(Cards) /\ IsInjective(cl[i])
      BY DEF Tidy
    <3>2. \A k \in DOMAIN cl[i] : cl[i][k] \notin InCloset(EmptyCloset)
      BY EmptyClosetTidy
    <3>3. Tidy(added) /\ InCloset(added) = InCloset(EmptyCloset) \cup Range(cl[i])
      <4> HIDE DEF added
      <4> QED BY <3>1, <3>2, EmptyClosetTidy, AddCardsAdds DEF added
    <3> QED BY <3>3, EmptyClosetTidy
  <2>2. new[i] = added[i]
    BY DEF Reloaded
  <2>3. \A j \in Piles : j # i => Range(added[j]) = {}
    <3> SUFFICES ASSUME NEW j \in Piles, NEW c \in Range(added[j]) PROVE j = i
      OBVIOUS
    <3>1. GetIngredient(c) = j
      <4> HIDE DEF added
      <4> QED BY <2>1 DEF Tidy, Range
    <3>2. c \in Range(cl[i])
      <4> HIDE DEF added
      <4> QED BY <2>1 DEF InCloset
    <3> QED BY <3>1, <3>2 DEF Tidy, Range
  <2>4. Range(added[i]) = Range(cl[i])
    <3> HIDE DEF added
    <3> QED BY <2>1, <2>3 DEF InCloset
  <2> QED BY <2>1, <2>2, <2>4 DEF Tidy
<1>2. new = [i \in Piles |-> new[i]]
  BY DEF Reloaded
<1> HIDE DEF new
<1>3. new \in [Piles -> Seq(Cards)]
  BY <1>1, <1>2
<1>4. Tidy(new)
  BY <1>1, <1>3 DEF Tidy
<1>5. InCloset(new) = InCloset(cl)
  BY <1>1 DEF InCloset
<1> QED BY <1>4, <1>5 DEF new

\* x and y are recipes among the first n of a list, y not before x.
Under(s, n, x, y) ==
    /\ IsRecipe(x) /\ IsRecipe(y)
    /\ \E i, j \in 1 .. n : i <= j /\ s[i] = x /\ s[j] = y

\* The order of the recipes, pair by pair.
LEMMA OrderByPairs ==
  ASSUME NEW S, NEW s \in Seq(S), NEW t \in Seq(S),
         \A x, y : Under(s, Len(s), x, y) <=> Under(t, Len(t), x, y)
  PROVE  RecipeOrder(s) = RecipeOrder(t)
<1>1. ASSUME NEW r \in Seq(S), NEW e \in RecipeOrder(r)
      PROVE  \E x, y : e = <<x, y>> /\ Under(r, Len(r), x, y)
  <2> DEFINE recipes == {k \in DOMAIN r : IsRecipe(r[k])}
  <2>1. PICK p \in recipes \X recipes : p[1] <= p[2] /\ e = <<r[p[1]], r[p[2]]>>
    BY DEF RecipeOrder
  <2>2. p[1] \in recipes /\ p[2] \in recipes
    BY <2>1
  <2>3. /\ p[1] \in 1 .. Len(r) /\ IsRecipe(r[p[1]])
        /\ p[2] \in 1 .. Len(r) /\ IsRecipe(r[p[2]])
    BY <2>2
  <2> QED BY <2>1, <2>3 DEF Under
<1>2. ASSUME NEW r \in Seq(S), NEW x, NEW y, Under(r, Len(r), x, y)
      PROVE  <<x, y>> \in RecipeOrder(r)
  <2>1. PICK i \in 1 .. Len(r), j \in 1 .. Len(r) : i <= j /\ r[i] = x /\ r[j] = y
    BY <1>2 DEF Under
  <2> DEFINE recipes == {k \in DOMAIN r : IsRecipe(r[k])}
  <2>2. <<i, j>> \in {q \in recipes \X recipes : q[1] <= q[2]}
    BY <1>2, <2>1 DEF Under
  <2>3. <<x, y>> = <<r[<<i, j>>[1]], r[<<i, j>>[2]]>>
    BY <2>1
  <2> HIDE DEF recipes
  <2> QED BY <2>2, <2>3 DEF RecipeOrder, recipes
<1>3. RecipeOrder(s) \subseteq RecipeOrder(t)
  BY <1>1, <1>2
<1>4. RecipeOrder(t) \subseteq RecipeOrder(s)
  BY <1>1, <1>2
<1> QED BY <1>3, <1>4

\* One more card on top: a recipe is above the others, a spell counts for nothing.
LEMMA OneMoreOnTop ==
  ASSUME NEW s, NEW n \in Nat, NEW x, NEW y
  PROVE  Under(s, n + 1, x, y) <=>
            \/ Under(s, n, x, y)
            \/ /\ IsRecipe(s[n + 1]) /\ y = s[n + 1]
               /\ x = s[n + 1] \/ Under(s, n, x, x)
<1>1. ASSUME Under(s, n + 1, x, y), ~ Under(s, n, x, y)
      PROVE  /\ IsRecipe(s[n + 1]) /\ y = s[n + 1]
             /\ x = s[n + 1] \/ Under(s, n, x, x)
  <2>1. PICK i, j \in 1 .. n + 1 : i <= j /\ s[i] = x /\ s[j] = y
    BY <1>1 DEF Under
  <2>2. j = n + 1
    BY <1>1, <2>1 DEF Under
  <2>3. i = n + 1 \/ i \in 1 .. n
    BY <2>1
  <2> QED BY <1>1, <2>1, <2>2, <2>3 DEF Under
<1>2. ASSUME Under(s, n, x, y)
      PROVE  Under(s, n + 1, x, y)
  BY <1>2 DEF Under
<1>3. ASSUME IsRecipe(s[n + 1]), y = s[n + 1], x = s[n + 1] \/ Under(s, n, x, x)
      PROVE  Under(s, n + 1, x, y)
  <2>1. CASE x = s[n + 1]
    BY <1>3, <2>1 DEF Under
  <2>2. CASE Under(s, n, x, x)
    <3>1. PICK i \in 1 .. n : s[i] = x
      BY <2>2 DEF Under
    <3>2. i \in 1 .. n + 1 /\ n + 1 \in 1 .. n + 1 /\ i <= n + 1
      OBVIOUS
    <3> QED BY <1>3, <2>2, <3>1, <3>2 DEF Under
  <2> QED BY <1>3, <2>1, <2>2
<1> QED BY <1>1, <1>2, <1>3

\* A spell below the pile changes nothing either.
LEMMA SpellBelow ==
  ASSUME NEW pile \in Seq(Cards), NEW c \in Cards, ~ IsRecipe(c), NEW x, NEW y
  PROVE  Under(<<c>> \o pile, Len(<<c>> \o pile), x, y) <=> Under(pile, Len(pile), x, y)
<1> DEFINE low == <<c>> \o pile
           n == Len(pile)
<1>1. /\ n \in Nat /\ Len(low) = n + 1 /\ low[1] = c
      /\ \A k \in 1 .. n : low[k + 1] = pile[k]
  OBVIOUS
<1> HIDE DEF low, n
<1>2. ASSUME Under(low, n + 1, x, y)
      PROVE  Under(pile, n, x, y)
  <2>1. PICK i, j \in 1 .. n + 1 : i <= j /\ low[i] = x /\ low[j] = y
    BY <1>2 DEF Under
  <2>2. i # 1 /\ j # 1
    BY <1>1, <1>2, <2>1 DEF Under
  <2>3. i - 1 \in 1 .. n /\ j - 1 \in 1 .. n /\ i - 1 <= j - 1
    BY <1>1, <2>1, <2>2
  <2>4. low[(i - 1) + 1] = pile[i - 1] /\ low[(j - 1) + 1] = pile[j - 1]
    BY <1>1, <2>3
  <2>5. (i - 1) + 1 = i /\ (j - 1) + 1 = j
    BY <2>1
  <2> QED BY <1>2, <2>1, <2>3, <2>4, <2>5 DEF Under
<1>3. ASSUME Under(pile, n, x, y)
      PROVE  Under(low, n + 1, x, y)
  <2>1. PICK i, j \in 1 .. n : i <= j /\ pile[i] = x /\ pile[j] = y
    BY <1>3 DEF Under
  <2>2. i + 1 \in 1 .. n + 1 /\ j + 1 \in 1 .. n + 1 /\ i + 1 <= j + 1
    BY <1>1, <2>1
  <2> QED BY <1>1, <1>3, <2>1, <2>2 DEF Under
<1> QED BY <1>1, <1>2, <1>3 DEF low, n

\* Loading keeps the recipes of every pile in their order: a recipe is put on top
\* of those read before it, and the spells that go below do not come between.
LEMMA ReloadedOrders ==
  ASSUME NEW cl, Tidy(cl), NEW i \in Piles
  PROVE  RecipeOrder(Reloaded(cl)[i]) = RecipeOrder(cl[i])
<1> DEFINE cs == cl[i]
<1>1. /\ cs \in Seq(Cards) /\ Len(cs) \in Nat /\ DOMAIN cs = 1 .. Len(cs)
      /\ \A n \in DOMAIN cs : cs[n] \in Cards /\ GetIngredient(cs[n]) = i
  BY DEF Tidy
<1>2. Reloaded(cl)[i] = AddCards(EmptyCloset, cs, FALSE)[i]
  BY DEF Reloaded
<1> HIDE DEF cs
<1>3. PICK g : Adding(g, EmptyCloset, cs, FALSE) /\ AddCards(EmptyCloset, cs, FALSE) = g[Len(cs)]
  BY <1>1, AddingExists
<1> DEFINE Good(n) == /\ i \in DOMAIN g[n] /\ g[n][i] \in Seq(Cards)
                      /\ \A x, y : Under(g[n][i], Len(g[n][i]), x, y) <=> Under(cs, n, x, y)
           A == {n \in Nat : n <= Len(cs) => Good(n)}
<1>4. Good(0)
  <2>1. g[0] = EmptyCloset
    BY <1>1, <1>3 DEF Adding
  <2>2. g[0][i] = <<>> /\ i \in DOMAIN g[0]
    BY <2>1 DEF EmptyCloset
  <2>3. \A x, y : ~ Under(<<>>, 0, x, y) /\ ~ Under(cs, 0, x, y)
    BY DEF Under
  <2> QED BY <2>2, <2>3
<1>5. ASSUME NEW n \in Nat, n \in A PROVE n + 1 \in A
  <2> SUFFICES ASSUME n + 1 <= Len(cs) PROVE Good(n + 1)
    OBVIOUS
  <2> DEFINE c == cs[n + 1]
             pile == g[n][i]
  <2>1. Good(n)
    BY <1>1, <1>5
  <2>2. g[n + 1] = AddCard(g[n], c, FALSE)
    <3>1. n + 1 \in 0 .. Len(cs) /\ n + 1 # 0 /\ (n + 1) - 1 = n
      BY <1>1
    <3> QED BY <1>3, <3>1 DEF Adding
  <2>3. c \in Cards /\ GetIngredient(c) = i
    BY <1>1
  <2>4. pile \in Seq(Cards) /\ i \in DOMAIN g[n]
    BY <2>1
  <2>5. \A x, y : Under(pile, Len(pile), x, y) <=> Under(cs, n, x, y)
    BY <2>1
  <2> HIDE DEF A, pile, c
  <2>6. i \in DOMAIN g[n + 1] /\ g[n + 1][i] = AddToPile(pile, c, FALSE)
    BY <2>2, <2>3, <2>4 DEF AddCard, pile
  <2>7. CASE IsSpell(c)
    <3>1. ~ IsRecipe(c)
      BY <2>7 DEF IsSpell, IsRecipe
    <3>2. g[n + 1][i] = <<c>> \o pile
      BY <2>6, <2>7 DEF AddToPile
    <3>3. \A x, y : Under(cs, n + 1, x, y) <=> Under(cs, n, x, y)
      BY <3>1, OneMoreOnTop DEF c
    <3>4. \A x, y : Under(<<c>> \o pile, Len(<<c>> \o pile), x, y)
                       <=> Under(cs, n + 1, x, y)
      BY <2>3, <2>4, <2>5, <3>1, <3>3, SpellBelow
    <3>5. <<c>> \o pile \in Seq(Cards)
      BY <2>3, <2>4
    <3> QED BY <2>6, <3>2, <3>4, <3>5
  <2>8. CASE ~ IsSpell(c)
    <3> DEFINE high == Append(pile, c)
    <3>1. g[n + 1][i] = high
      BY <2>6, <2>8 DEF AddToPile
    <3>2. /\ high \in Seq(Cards) /\ Len(pile) \in Nat /\ Len(high) = Len(pile) + 1
          /\ high[Len(pile) + 1] = c /\ \A k \in 1 .. Len(pile) : high[k] = pile[k]
      BY <2>3, <2>4
    <3> HIDE DEF high
    <3>3. \A x, y : Under(high, Len(pile), x, y) <=> Under(pile, Len(pile), x, y)
      BY <3>2 DEF Under
    <3>4. ASSUME NEW x, NEW y
          PROVE  Under(high, Len(high), x, y) <=> Under(cs, n + 1, x, y)
      <4>1. Under(high, Len(pile) + 1, x, y) <=>
              Under(high, Len(pile), x, y)
              \/ (IsRecipe(c) /\ y = c /\ (x = c \/ Under(high, Len(pile), x, x)))
        BY <3>2, OneMoreOnTop
      <4>2. Under(cs, n + 1, x, y) <=>
              Under(cs, n, x, y) \/ (IsRecipe(c) /\ y = c /\ (x = c \/ Under(cs, n, x, x)))
        BY OneMoreOnTop DEF c
      <4> QED BY <2>5, <3>2, <3>3, <4>1, <4>2
    <3> QED BY <2>6, <3>1, <3>2, <3>4
  <2> QED BY <2>7, <2>8
<1>6. Len(cs) \in A
  <2>1. 0 \in A
    BY <1>4
  <2> HIDE DEF A
  <2> QED BY <1>1, <1>5, <2>1, NumbersFollow
<1>7. Good(Len(cs))
  BY <1>1, <1>6
<1> QED BY <1>1, <1>2, <1>3, <1>7, OrderByPairs DEF cs

\* One list of cards after another.
LEMMA Joined ==
  ASSUME NEW S, NEW s \in Seq(S), NEW t \in Seq(S), IsInjective(s), IsInjective(t),
         Range(s) \cap Range(t) = {}
  PROVE  /\ s \o t \in Seq(S) /\ IsInjective(s \o t)
         /\ Range(s \o t) = Range(s) \cup Range(t)
<1> DEFINE u == s \o t
           m == Len(s)
           n == Len(t)
<1>1. /\ u \in Seq(S) /\ m \in Nat /\ n \in Nat /\ DOMAIN u = 1 .. m + n
      /\ DOMAIN s = 1 .. m /\ DOMAIN t = 1 .. n
      /\ \A k \in 1 .. m + n : u[k] = IF k <= m THEN s[k] ELSE t[k - m]
  OBVIOUS
<1> HIDE DEF u, m, n
<1>2. ASSUME NEW k \in DOMAIN u
      PROVE  \/ k \in DOMAIN s /\ u[k] = s[k]
             \/ k - m \in DOMAIN t /\ u[k] = t[k - m]
  BY <1>1
<1>3. \A k \in DOMAIN s : k \in DOMAIN u /\ u[k] = s[k]
  BY <1>1
<1>4. \A k \in DOMAIN t : k + m \in DOMAIN u /\ u[k + m] = t[k]
  BY <1>1
<1>5. Range(u) = Range(s) \cup Range(t)
  <2>1. \A k \in DOMAIN u : u[k] \in Range(s) \cup Range(t)
    BY <1>2 DEF Range
  <2>2. \A k \in DOMAIN s : s[k] \in Range(u)
    BY <1>3 DEF Range
  <2>3. \A k \in DOMAIN t : t[k] \in Range(u)
    <3>1. \A k \in DOMAIN t : \E j \in DOMAIN u : u[j] = t[k]
      BY <1>4
    <3> QED BY <3>1 DEF Range
  <2> QED BY <2>1, <2>2, <2>3 DEF Range
<1>6. ASSUME NEW j \in DOMAIN u, NEW k \in DOMAIN u, u[j] = u[k] PROVE j = k
  <2>1. CASE j \in DOMAIN s /\ u[j] = s[j]
    <3>1. u[j] \in Range(s) /\ u[j] \notin Range(t)
      BY <2>1 DEF Range
    <3>2. k \in DOMAIN s /\ u[k] = s[k]
      BY <1>2, <1>6, <3>1 DEF Range
    <3> QED BY <1>6, <2>1, <3>2 DEF IsInjective
  <2>2. CASE j - m \in DOMAIN t /\ u[j] = t[j - m]
    <3>1. u[j] \in Range(t) /\ u[j] \notin Range(s)
      BY <2>2 DEF Range
    <3>2. k - m \in DOMAIN t /\ u[k] = t[k - m]
      BY <1>2, <1>6, <3>1 DEF Range
    <3>3. j - m = k - m
      BY <1>6, <2>2, <3>2 DEF IsInjective
    <3>4. j \in Int /\ k \in Int /\ m \in Int
      BY <1>1
    <3> QED BY <3>3, <3>4
  <2> QED BY <1>2, <2>1, <2>2
<1>7. IsInjective(u)
  BY <1>6 DEF IsInjective
<1> QED BY <1>1, <1>5, <1>7 DEF u

\* A list of one card, and any order of a set of cards.
LEMMA Single ==
  ASSUME NEW S, NEW c \in S
  PROVE  <<c>> \in Seq(S) /\ IsInjective(<<c>>) /\ Range(<<c>>) = {c}
BY DEF IsInjective, Range

\* An order of a finite set has each of its elements once.
LEMMA Ordered ==
  ASSUME NEW S, IsFiniteSet(S), NEW order \in SetToSeqs(S)
  PROVE  order \in Seq(S) /\ IsInjective(order) /\ Range(order) = S
<1> DEFINE n == Cardinality(S)
<1>1. n \in Nat
  BY FS_CardinalityType
<1>2. order \in [1 .. n -> S] /\ IsInjective(order)
  BY DEF SetToSeqs, IsInjective
<1>3. order \in Seq(S)
  BY <1>1, <1>2
<1>4. order \in Injection(1 .. n, S)
  BY <1>2 DEF Injection
<1>5. Cardinality(1 .. n) = n
  <2>1. n >= 1 => n - 1 + 1 = n
    BY <1>1
  <2>2. 1 > n => n = 0
    BY <1>1
  <2> HIDE DEF n
  <2> QED BY <1>1, <2>1, <2>2, FS_Interval
<1>6. order \in Surjection(1 .. n, S)
  BY <1>4, <1>5, FS_Injection
<1>7. \A x \in S : \E k \in 1 .. n : order[k] = x
  BY <1>6 DEF Surjection
<1> QED BY <1>2, <1>3, <1>7 DEF Range
=============================================================================
