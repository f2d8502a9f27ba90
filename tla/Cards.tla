------------------------------- MODULE Cards --------------------------------
(***************************************************************************)
(* The immutable part of the cards (Engine::Card, Engine::World): what     *)
(* cards.json says of each, the lists of special cards, the spell a card   *)
(* is, and the test CanAssemble.  Cards are their id, as in the code.      *)
(***************************************************************************)
EXTENDS Integers, Sequences, FiniteSets, SequencesExt

CONSTANTS
    Cards,                 \* the ids in play
    Data,                  \* id -> [ingredients, score, type, requirements, talisman]
    Critters,              \* the lists of cards.json
    UniversalRecipes,
    UniversalIngredients,
    LastBaseCard           \* deckBounds_[Base]: greater ids are University cards

ASSUME CardsAssumption == Cards \subseteq Nat /\ IsFiniteSet(Cards)
ASSUME DataAssumption ==
    \A c \in Cards :
        /\ Data[c].type \in {"recipe", "spell"}
        /\ Data[c].score \in Nat
        /\ Data[c].ingredients \subseteq 0 .. 16 /\ Data[c].ingredients # {}
        /\ Data[c].requirements \in
              Seq([type : {"ingredient", "recipe"}, ids : SUBSET Nat])
        /\ Data[c].talisman \in {"none", "income", "generality", "growth", "usefulness"}

Ingredients(c) == Data[c].ingredients
Worth(c) == Data[c].score
Requirements(c) == Data[c].requirements
IsRecipe(c) == Data[c].type = "recipe"
IsSpell(c) == Data[c].type = "spell"

DeckTypes == {"base", "university"}
DeckOf(c) == IF c <= LastBaseCard THEN "base" ELSE "university"

\* GetIngredient: the ingredient of a plain card; a card that counts as several
\* gets a number of its own, hence a pile of its own in the closet.
PileOf ==
    [c \in Cards |->
        FoldLeft(LAMBDA acc, i : acc * 100 + i, 0, SetToSortSeq(Ingredients(c), <))]
GetIngredient(c) == PileOf[c]

\* The elementary magema: stands for any ingredient.
Magema == 16
UniversalPotions == 119 .. 121    \* the ids CanAssemble spells out

\* No recipe of cards.json asks for a card that may stand for another: none names
\* ingredient 16, and none a universal potion.
ASSUME StandInsAssumption ==
    \A c, p \in Cards : IsRecipe(c) => \A i \in DOMAIN Requirements(c) :
        LET r == Requirements(c)[i]
        IN  IF r.type = "ingredient"
            THEN GetIngredient(p) = Magema => Ingredients(p) \cap r.ids = {}
            ELSE r.ids \cap UniversalPotions = {}

\* The switch of performCast.
SpellOf(c) ==
    CASE c \in 71 .. 72   -> "transform"
      [] c \in 73 .. 74   -> "reveal"
      [] c \in 75 .. 76   -> "destroy"
      [] c \in 77 .. 79   -> "whirpool"
      [] c \in 80 .. 82   -> "necessity"
      [] c \in 83 .. 85   -> "globalreveal"
      [] c \in 86 .. 88   -> "create"
      [] c \in 89 .. 91   -> "magicreveal"
      [] c \in 92 .. 94   -> "transfigure"
      [] c \in 95 .. 97   -> "overthrow"
      [] c \in 98 .. 100  -> "diversity"
      [] c \in 101 .. 103 -> "speedup"
      [] c \in 104 .. 106 -> "forest"
      [] c \in 134 .. 136 -> "concience"
      [] OTHER            -> "unknown"

\* The recipes an Overthrow spell can take apart besides the critters.
Overthrowable(c) == c \in Critters \/ c \in {69, 70, 137, 138, 139}

HasTalisman(cards, t) == \E c \in cards : Data[c].talisman = t

\* Requirement::Matches, when the cards of "assembled" are assembled.
Matches(r, p, assembled) ==
    IF r.type = "ingredient"
    THEN p \notin assembled /\ Ingredients(p) \cap r.ids # {}
    ELSE p \in assembled /\ p \in r.ids

\* A magema replaces every ingredient that is missing.
FaultyCanAssemble(c, ps, skips, assembled) ==
    LET rs == Requirements(c)
        given == Range(ps)
        unmatched(t) == {i \in DOMAIN rs : /\ rs[i].type = t
                                           /\ \A p \in given : ~Matches(rs[i], p, assembled)}
        magema == \E p \in given : p \notin assembled /\ GetIngredient(p) = Magema
        missing == IF magema THEN 0 ELSE Cardinality(unmatched("ingredient"))
    IN  /\ IsRecipe(c)
        /\ Len(ps) = Len(rs)
        /\ missing + Cardinality(unmatched("recipe")) <= skips

\* Card::CanAssemble.  Every requirement looks for a part among all parts, also
\* the ones that satisfy other requirements; one unmatched ingredient may be
\* replaced by a magema and one unmatched recipe by a universal potion.
CanAssemble(c, ps, skips, assembled) ==
    LET rs == Requirements(c)
        given == Range(ps)
        unmatched(t) == {i \in DOMAIN rs : /\ rs[i].type = t
                                           /\ \A p \in given : ~Matches(rs[i], p, assembled)}
        magema == \E p \in given : p \notin assembled /\ GetIngredient(p) = Magema
        potion == \E p \in given : p \in assembled /\ p \in UniversalPotions
        lacking(t, universal) ==
            LET n == Cardinality(unmatched(t)) IN IF universal /\ n > 0 THEN n - 1 ELSE n
    IN  /\ IsRecipe(c)
        /\ Len(ps) = Len(rs)
        /\ lacking("ingredient", magema) + lacking("recipe", potion) <= skips
=============================================================================
