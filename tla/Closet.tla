------------------------------- MODULE Closet -------------------------------
(***************************************************************************)
(* The closet (Engine::Closet): for every ingredient a pile of cards, of   *)
(* which only the last can be taken.  A closet is a function from piles to *)
(* sequences; a pile cont_ has no entry for is the empty sequence.         *)
(* onTop is spellsOnTop_.                                                  *)
(***************************************************************************)
EXTENDS Cards

Piles == {GetIngredient(c) : c \in Cards}

EmptyCloset == [i \in Piles |-> <<>>]

\* Without an expansion, spells go under the pile and recipes on top of it.
AddToPile(pile, c, onTop) ==
    IF IsSpell(c) /\ ~onTop THEN <<c>> \o pile ELSE Append(pile, c)

AddCard(cl, c, onTop) ==
    LET i == GetIngredient(c) IN [cl EXCEPT ![i] = AddToPile(cl[i], c, onTop)]

\* One card after the other.
AddCards(cl, cs, onTop) ==
    LET added[n \in 0 .. Len(cs)] ==
            IF n = 0 THEN cl ELSE AddCard(added[n - 1], cs[n], onTop)
    IN  added[Len(cs)]

CanRemoveCard(cl, c) ==
    LET pile == cl[GetIngredient(c)] IN pile # <<>> /\ Last(pile) = c

\* The first card of the pile is taken; no card is taken.
FaultyRemoveCard(cl, c) ==
    LET i == GetIngredient(c) IN [cl EXCEPT ![i] = Tail(cl[i])]
ForgetfulRemoveCard(cl, c) == cl

RemoveCard(cl, c) ==
    LET i == GetIngredient(c) IN [cl EXCEPT ![i] = Front(cl[i])]

HasIngredient(cl, i) == i \in Piles /\ cl[i] # <<>>

Tops(cl) == {Last(cl[i]) : i \in {j \in Piles : cl[j] # <<>>}}

InCloset(cl) == UNION {Range(cl[i]) : i \in Piles}

\* The recipes of a pile, each with itself and with those above it.
RecipeOrder(pile) ==
    LET recipes == {k \in DOMAIN pile : IsRecipe(pile[k])}
    IN  {<<pile[p[1]], pile[p[2]]>> : p \in {q \in recipes \X recipes : q[1] <= q[2]}}

\* Every card is put under the pile.
FaultyReloaded(cl) == [i \in Piles |-> Reverse(cl[i])]

\* ToJson writes every pile in order and FromJson adds its cards one by one to
\* a new closet, in which spellsOnTop_ is not set yet.
Reloaded(cl) == [i \in Piles |-> AddCards(EmptyCloset, cl[i], FALSE)[i]]
=============================================================================
