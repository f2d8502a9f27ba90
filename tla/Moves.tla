-------------------------------- MODULE Moves --------------------------------
(***************************************************************************)
(* Engine::Move between its documents.  A request becomes a move by        *)
(* FromJson, the move is kept in moves_ and written with the game by       *)
(* ToJson, and whoever loads the game reads what was written by the same   *)
(* FromJson: one move that it refuses makes the whole game unreadable.     *)
(*                                                                         *)
(* A field of a document is Absent, or a pair of its BSON type and value.  *)
(***************************************************************************)
EXTENDS Integers, Sequences

Absent == <<>>
Text(s) == <<"utf8", s>>
Num(n) == <<"int32", n>>
List(l) == <<"array", l>>
Strange == <<"other">>

\* A field as a request may carry it, and the requests for a turn that arrive.
Scalar == {Absent, Strange} \cup ({"utf8"} \X STRING) \cup ({"int32"} \X Int)
PartDoc == [type : Scalar, id : Scalar, player : Scalar]
Field == Scalar \cup ({"array"} \X Seq(PartDoc))
MoveDoc == [action : Field, card : Field, ingredient : Field, player : Field, deck : Field,
            parts : Field]

CONSTANT Posted
ASSUME PostedAssumption == Posted \subseteq MoveDoc

Holds(field, type) == field # Absent /\ field[1] = type
AbsentOr(field, type) == field = Absent \/ Holds(field, type)
ValueOr(field, default) == IF field = Absent THEN default ELSE field[2]

\* actionNames_
ActionNames ==
    {"draw", "skip", "disassemble", "assemble", "discard", "cast", "organizehand", "endturn"}
WithParts == {"assemble", "cast", "organizehand"}
AboutACard == {"assemble", "discard", "cast"}

AcceptsPart(p) ==
    /\ Holds(p.type, "utf8") /\ p.type[2] \in {"ingredient", "recipe"}
    /\ Holds(p.id, "int32")
    /\ AbsentOr(p.player, "utf8")

\* FromJson returns true.
Accepts(d) ==
    /\ Holds(d.action, "utf8") /\ d.action[2] \in ActionNames
    /\ AbsentOr(d.card, "int32")
    /\ AbsentOr(d.ingredient, "int32")
    /\ AbsentOr(d.player, "utf8")
    /\ d.action[2] \in AboutACard => ValueOr(d.card, -1) # -1
    /\ d.action[2] \in WithParts =>
          /\ AbsentOr(d.parts, "array")
          /\ \A i \in DOMAIN ValueOr(d.parts, <<>>) : AcceptsPart(d.parts[2][i])

\* The move FromJson makes.  A deck is only read for a draw, and one of another
\* type is passed over.
TakenFrom(d) ==
    LET action == d.action[2]
        given == IF action \in WithParts THEN ValueOr(d.parts, <<>>) ELSE <<>>
    IN  [action |-> action,
         card |-> ValueOr(d.card, -1),
         ingredient |-> ValueOr(d.ingredient, -1),
         player |-> ValueOr(d.player, ""),
         deck |-> IF action = "draw" /\ Holds(d.deck, "utf8") THEN d.deck[2] ELSE "",
         parts |-> [i \in DOMAIN given |->
             [type |-> given[i].type[2], id |-> given[i].id[2],
              player |-> ValueOr(given[i].player, "")]]]

\* A recipe among the parts falls through to "unknown".
FaultyPartName(type) == IF type = "ingredient" THEN type ELSE "unknown"
PartName(type) == IF type \in {"ingredient", "recipe"} THEN type ELSE "none"

\* ToJson
Written(m) ==
    [action |-> Text(m.action),
     card |-> Num(m.card),
     ingredient |-> IF m.ingredient >= 0 THEN Num(m.ingredient) ELSE Absent,
     player |-> IF m.player # "" THEN Text(m.player) ELSE Absent,
     deck |-> Text(m.deck),
     parts |-> List([i \in DOMAIN m.parts |->
         [type |-> Text(PartName(m.parts[i].type)), id |-> Num(m.parts[i].id),
          player |-> Text(m.parts[i].player)]])]

\* A move is read as it was written: the game can be loaded, and the page is
\* shown the same move as before.
ReadAsWritten(m) == Accepts(Written(m)) /\ Written(TakenFrom(Written(m))) = Written(m)

Unreadable == {d \in Posted : Accepts(d) /\ ~ReadAsWritten(TakenFrom(d))}
=============================================================================
