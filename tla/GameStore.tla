------------------------------ MODULE GameStore ------------------------------
(***************************************************************************)
(* What the server promises about games, without sessions, cache, loads,   *)
(* restarts or documents: a set of games, each changed only by requests    *)
(* that name it, and an undo that takes back exactly the last move and     *)
(* returns to the game as it was just after the one before.  GameServer    *)
(* implements this specification while the database answers.               *)
(***************************************************************************)
EXTENDS GameRecord

CONSTANT GameIds

VARIABLES
    store,      \* the game of each id: a Document
    spent       \* ids given to a game, present or deleted

svars == <<store, spent>>

SInit ==
    /\ store = [g \in GameIds |-> None]
    /\ spent = {}

SCreate(g, n, u) ==
    /\ g \notin spent
    /\ store' = [store EXCEPT ![g] =
                    [state |-> NewState(n, u), moves |-> <<>>, history |-> <<>>]]
    /\ spent' = spent \cup {g}

SChange(g, st) == store' = [store EXCEPT ![g].state = st] /\ UNCHANGED spent

SJoin(g, u) ==
    /\ store[g] # None
    /\ CanJoin(store[g].state, u)
    /\ SChange(g, AddPlayer(store[g].state, u))

SStart(g) == store[g] # None /\ SChange(g, Start(store[g].state))

SOrganize(g, u) ==
    /\ store[g] # None
    /\ MayOrganize(store[g].state)
    /\ \E st \in Organized(store[g].state, u) : SChange(g, st)

SMove(g, m) ==
    /\ store[g] # None
    /\ MayMove(store[g].state, m.user)
    /\ \E st \in Outcomes(store[g].state, m) :
          store' = [store EXCEPT ![g] =
                       [state |-> st, moves |-> Append(store[g].moves, m),
                        history |-> Append(store[g].history, st)]]
    /\ UNCHANGED spent

STakeBack(g, u) ==
    LET l == Len(store[g].history)
    IN  /\ store[g] # None
        /\ l >= 2
        /\ store[g].state.turn = u /\ store[g].history[l - 1].turn = u
        /\ store' = [store EXCEPT ![g] =
                        [state |-> store[g].history[l - 1], moves |-> Front(store[g].moves),
                         history |-> Front(store[g].history)]]
        /\ UNCHANGED spent

SDelete(g) ==
    /\ store' = [store EXCEPT ![g] = None]
    /\ UNCHANGED spent

SNext ==
    \E g \in GameIds :
        \/ SStart(g) \/ SDelete(g)
        \/ \E u \in Users : SJoin(g, u) \/ SOrganize(g, u) \/ STakeBack(g, u)
        \/ \E u \in Users, n \in Names : SCreate(g, n, u)
        \/ \E m \in Move : SMove(g, m)

SSpec == SInit /\ [][SNext]_svars
=============================================================================
