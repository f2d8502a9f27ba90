---------------------------- MODULE TurnProtocol ----------------------------
(***************************************************************************)
(* What the turn machinery promises to the players, without turn states,   *)
(* special states or counters: turns go round the table; a turn has a      *)
(* drawing part and then a fixed number of plays; the turn passes only     *)
(* when all of them are spent; a bonus adds at most one play above the     *)
(* quota at any moment.  TurnFlow implements this specification.           *)
(***************************************************************************)
EXTENDS Integers

CONSTANTS
    NumPlayers,
    PlaysPerTurn    \* 1, or 2 when an expansion is in play

VARIABLES
    stage,          \* "lobby", "draw" or "play"
    owner,          \* the player whose turn it is
    left            \* plays the owner must still spend

pvars == <<stage, owner, left>>

PInit == stage = "lobby" /\ owner = 0 /\ left = 0

Open ==
    /\ stage = "lobby"
    /\ stage' = "draw"
    /\ UNCHANGED <<owner, left>>

BeginPlays ==
    /\ stage = "draw"
    /\ stage' = "play"
    /\ left' = PlaysPerTurn
    /\ UNCHANGED owner

Spend ==
    /\ stage = "play" /\ left > 0
    /\ left' = left - 1
    /\ UNCHANGED <<stage, owner>>

Bonus ==
    /\ stage = "play" /\ left > 0 /\ left <= PlaysPerTurn
    /\ left' = left + 1
    /\ UNCHANGED <<stage, owner>>

Pass ==
    /\ stage = "play" /\ left = 0
    /\ stage' = "draw"
    /\ owner' = IF owner + 1 >= NumPlayers THEN 0 ELSE owner + 1
    /\ UNCHANGED left

PNext == Open \/ BeginPlays \/ Spend \/ Bonus \/ Pass

PSpec == PInit /\ [][PNext]_pvars
=============================================================================
