------------------------------- MODULE MCGame -------------------------------
(***************************************************************************)
(* Game on small decks: the entries of res/cards.json the runs use, with   *)
(* their real ids, ingredients, scores and requirements.                   *)
(***************************************************************************)
EXTENDS GameProperties

Ing(ids) == [type |-> "ingredient", ids |-> ids]
Rec(ids) == [type |-> "recipe", ids |-> ids]

Recipe(ings, worth, rs) ==
    [type |-> "recipe", ingredients |-> ings, score |-> worth,
     requirements |-> rs, talisman |-> "none"]
Talisman(ing, t, rs) ==
    [type |-> "recipe", ingredients |-> {ing}, score |-> 4,
     requirements |-> rs, talisman |-> t]
Spell(ing) ==
    [type |-> "spell", ingredients |-> {ing}, score |-> 0,
     requirements |-> <<>>, talisman |-> "none"]

AnyTalisman == Rec(107 .. 118)

MCData ==
    [c \in Cards |->
      CASE c \in {0, 1}   -> Recipe({0}, 2, <<Ing({10}), Ing({1})>>)
        [] c \in {6, 7}   -> Recipe({3}, 2, <<Ing({4}), Ing({5})>>)
        [] c \in {8, 9}   -> Recipe({4}, 2, <<Ing({3}), Ing({7})>>)
        [] c \in {10, 11} -> Recipe({5}, 2, <<Ing({7}), Ing({6})>>)
        [] c \in {14, 15} -> Recipe({7}, 2, <<Ing({5}), Ing({8})>>)
        [] c \in {20, 21} -> Recipe({10}, 2, <<Ing({0}), Ing({9})>>)
        [] c = 47         -> Recipe({1}, 4, <<Rec({8, 9}), Ing({6})>>)
        [] c = 49         -> Recipe({0}, 6, <<Rec({6, 7}), Rec({14, 15})>>)
        [] c = 54         -> Recipe({10}, 6, <<Rec({10, 11}), Rec({8, 9})>>)
        [] c \in 71 .. 72 -> Spell(IF c = 71 THEN 14 ELSE 5)
        [] c \in 73 .. 74 -> Spell(IF c = 73 THEN 7 ELSE 1)
        [] c \in 75 .. 76 -> Spell(IF c = 75 THEN 9 ELSE 2)
        [] c \in 77 .. 79 -> Spell(1)
        [] c \in 80 .. 82 -> Spell(4)
        [] c \in 83 .. 85 -> Spell(3)
        [] c \in 86 .. 88 -> Spell(14)
        [] c \in 89 .. 91 -> Spell(0)
        [] c \in 92 .. 94 -> Spell(13)
        [] c \in 95 .. 97 -> Spell(10)
        [] c \in 98 .. 100  -> Spell(8)
        [] c \in 101 .. 103 -> Spell(7)
        [] c \in 104 .. 106 -> Spell(6)
        [] c \in 107 .. 109 -> Talisman(9, "income", <<Rec(125 .. 127), Ing({13})>>)
        [] c \in 110 .. 112 -> Talisman(11, "generality", <<Ing({5}), Ing({1}), Ing({9})>>)
        [] c \in 113 .. 115 -> Talisman(12, "growth", <<Rec(122 .. 124), Ing({15})>>)
        [] c \in 116 .. 118 -> Talisman(15, "usefulness", <<Ing({12}), Ing({7}), Ing({11})>>)
        [] c \in 119 .. 121 -> Recipe({16}, 0, <<Ing(1 .. 15), Ing(1 .. 15)>>)
        [] c \in 122 .. 124 -> Recipe({16}, 2, <<Ing({4}), Ing({3})>>)
        [] c \in 125 .. 127 -> Recipe({16}, 2, <<Ing({10}), Ing({0})>>)
        [] c \in 131 .. 133 -> Recipe({2}, 8, <<Rec(122 .. 124), Rec(125 .. 127)>>)
        [] c \in 134 .. 136 -> Spell(16)
        [] c \in 137 .. 139 -> Recipe({16}, 8, <<AnyTalisman, AnyTalisman, AnyTalisman>>)]

MCCritters == (60 .. 67 \cup 131 .. 133) \cap Cards
MCUniversalRecipes == (119 .. 121) \cap Cards
MCUniversalIngredients == (119 .. 127 \cup 134 .. 139) \cap Cards
=============================================================================
