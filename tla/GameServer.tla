----------------------------- MODULE GameServer -----------------------------
(***************************************************************************)
(* The server between its pages and the database.  One worker thread runs  *)
(* a handler at a time, so a request is one step; its writes to the        *)
(* database are made in the order of the code, and a database call that    *)
(* throws leaves the handler where it is, with what was done so far done   *)
(* (the web server catches the exception).  Requests that are refused      *)
(* change nothing but the cache (Load).                                    *)
(***************************************************************************)
EXTENDS GameRecord

CONSTANTS
    GameIds,        \* document ids
    SessionIds,
    GameLimit,      \* createGame refuses a session with more games
    Failures,       \* "refused": a write may throw without having been made,
                    \* "unanswered": it may throw after it was made
    UniqueNames,    \* users never give the name of another game
    MaxMoves,       \* bound on the moves of a game
    Organizers      \* bound: the users who rearrange their hands

ASSUME FailuresAssumption == Failures \subseteq {"refused", "unanswered"}
Session == [user : Users, games : SUBSET GameIds]
ASSUME SessionAssumption == None \notin Session
ASSUME LimitAssumption ==
    GameLimit \in Nat /\ UniqueNames \in BOOLEAN /\ Organizers \subseteq Users

VARIABLES
    sessions,       \* sessions_: user and games of a session, or None
    cache,          \* games_: state and moves of a loaded game, or None
    docs,           \* collection "games": state, moves and history, or None
    listed,         \* collection "users": the games of each user
    used            \* ids ever given by the database

vars == <<sessions, cache, docs, listed, used>>

Init ==
    /\ sessions = [s \in SessionIds |-> None]
    /\ cache = [g \in GameIds |-> None]
    /\ docs = [g \in GameIds |-> None]
    /\ listed = [u \in Users |-> {}]
    /\ used = {}

Present(s) == sessions[s] # None

\* findGame: the cached game, or the document read into the cache.  (Definitions
\* named Faulty... are slips that show what a property notices.)
Found(g) == cache[g] # None \/ docs[g] # None
\* The moves are not read.
FaultyHeld(g) ==
    IF cache[g] # None THEN cache[g] ELSE [state |-> docs[g].state, moves |-> <<>>]

Held(g) ==
    IF cache[g] # None THEN cache[g]
    ELSE [state |-> docs[g].state, moves |-> docs[g].moves]

\* The number of its steps a handler gets through, given which of them are
\* writes to the database.
Reached(steps, writes) ==
    {steps}
    \cup (IF "refused" \in Failures THEN {w - 1 : w \in writes} ELSE {})
    \cup (IF "unanswered" \in Failures THEN writes ELSE {})

\* Every save is taken for a move.
FaultyDump(game, push) ==
    [h \in GameIds |->
        IF docs[h] # None /\ docs[h].state.name = game.state.name
        THEN [state |-> game.state, moves |-> game.moves,
              history |-> Append(docs[h].history, game.state)]
        ELSE docs[h]]

\* dumpGame writes over every document with the name of the game.
Dump(game, push) ==
    [h \in GameIds |->
        IF docs[h] # None /\ docs[h].state.name = game.state.name
        THEN [state |-> game.state, moves |-> game.moves,
              history |-> IF push THEN Append(docs[h].history, game.state)
                          ELSE docs[h].history]
        ELSE docs[h]]

\* "games_.erase" is missing.
FaultyEvict(g) == cache

Evict(g) == [cache EXCEPT ![g] = None]
-----------------------------------------------------------------------------
Login(s, u) ==
    /\ sessions[s] = None
    /\ sessions' = [sessions EXCEPT ![s] = [user |-> u, games |-> listed[u]]]
    /\ UNCHANGED <<cache, docs, listed, used>>

\* retireSessions, run by the next request of anybody, drops a session idle
\* for ten minutes.
Retire(s) ==
    /\ Present(s)
    /\ sessions' = [sessions EXCEPT ![s] = None]
    /\ UNCHANGED <<cache, docs, listed, used>>

NameTaken(n) ==
    \E g \in GameIds : \/ docs[g] # None /\ docs[g].state.name = n
                       \/ cache[g] # None /\ cache[g].state.name = n

\* Insert the document; keep the game in the cache and the session; add it to
\* the user's list.
CreateGame(s, n) ==
    /\ Present(s)
    /\ Cardinality(sessions[s].games) <= GameLimit
    /\ UniqueNames => ~NameTaken(n)
    /\ \E g \in GameIds \ used, done \in Reached(3, {1, 3}) :
          LET u == sessions[s].user
              st == NewState(n, u)
          IN  /\ done >= 1
              /\ docs' = [docs EXCEPT ![g] = [state |-> st, moves |-> <<>>, history |-> <<>>]]
              /\ used' = used \cup {g}
              /\ cache' = IF done >= 2 THEN [cache EXCEPT ![g] = [state |-> st, moves |-> <<>>]]
                          ELSE cache
              /\ sessions' = IF done >= 2 THEN [sessions EXCEPT ![s].games = @ \cup {g}]
                             ELSE sessions
              /\ listed' = IF done >= 3 THEN [listed EXCEPT ![u] = @ \cup {g}] ELSE listed

\* Join the cached game; add it to the user's list; save it.
JoinGame(s, g) ==
    /\ Present(s) /\ Found(g)
    /\ CanJoin(Held(g).state, sessions[s].user)
    /\ \E done \in Reached(3, {2, 3}) :
          LET u == sessions[s].user
              game == [Held(g) EXCEPT !.state = AddPlayer(@, u)]
          IN  /\ cache' = [cache EXCEPT ![g] = game]
              /\ sessions' = [sessions EXCEPT ![s].games = @ \cup {g}]
              /\ listed' = IF done >= 2 THEN [listed EXCEPT ![u] = @ \cup {g}] ELSE listed
              /\ docs' = IF done >= 3 THEN Dump(game, FALSE) ELSE docs
    /\ UNCHANGED used

\* The game changes in the cache; it is saved.
Save(g, game, push) ==
    /\ cache' = [cache EXCEPT ![g] = game]
    /\ \E done \in Reached(2, {2}) : docs' = IF done = 2 THEN Dump(game, push) ELSE docs
    /\ UNCHANGED <<sessions, listed, used>>

\* Anybody may start a game; one that cannot start is saved all the same.
StartGame(s, g) ==
    /\ Present(s) /\ Found(g)
    /\ Save(g, [Held(g) EXCEPT !.state = Start(@)], FALSE)

MakeTurn(s, g) ==
    /\ Present(s) /\ Found(g)
    /\ Len(Held(g).moves) < MaxMoves
    /\ MayMove(Held(g).state, sessions[s].user)
    /\ \E kind \in Kinds :
          LET m == [user |-> sessions[s].user, kind |-> kind]
          IN  \E st \in Outcomes(Held(g).state, m) :
                 Save(g, [state |-> st, moves |-> Append(Held(g).moves, m)], TRUE)

\* A service move is saved, but is no move of the game.
OrganizeHand(s, g) ==
    /\ Present(s) /\ Found(g)
    /\ MayOrganize(Held(g).state)
    /\ sessions[s].user \in Organizers
    /\ \E st \in Organized(Held(g).state, sessions[s].user) :
          Save(g, [Held(g) EXCEPT !.state = st], FALSE)

\* The history is not popped, nor the moves.
FaultyPop(seq) == seq

\* "$pop" of an array that may be empty.
Pop(seq) == IF seq = <<>> THEN seq ELSE Front(seq)

\* Off by one: the state the game is in.
FaultyPrevious(doc) == Last(doc.history)

\* histArr[l - 2], counted from 0.
Previous(doc) == doc.history[Len(doc.history) - 1]

\* The cached game is set back before the document.
FaultyUndo(s, g) ==
    /\ Present(s) /\ docs[g] # None
    /\ LET doc == docs[g]
           u == sessions[s].user
           back == [state |-> Previous(doc), moves |-> Pop(doc.moves)]
       IN  /\ doc.state.turn = u
           /\ Len(doc.history) >= 2
           /\ Previous(doc).turn = u
           /\ cache' = [cache EXCEPT ![g] = back]
           /\ \E done \in Reached(2, {2}) :
                 docs' = IF done = 2
                         THEN [docs EXCEPT ![g] = [state |-> back.state, moves |-> back.moves,
                                                   history |-> Pop(doc.history)]]
                         ELSE docs
    /\ UNCHANGED <<sessions, listed, used>>

\* The document, not the cached game, is set back; the cached game is dropped.
Undo(s, g) ==
    /\ Present(s) /\ docs[g] # None
    /\ LET doc == docs[g]
           u == sessions[s].user
       IN  /\ doc.state.turn = u
           /\ Len(doc.history) >= 2
           /\ Previous(doc).turn = u
           /\ \E done \in Reached(2, {1}) :
                 /\ done >= 1
                 /\ docs' = [docs EXCEPT ![g] =
                                [state |-> Previous(doc), moves |-> Pop(doc.moves),
                                 history |-> Pop(doc.history)]]
                 /\ cache' = IF done = 2 THEN Evict(g) ELSE cache
    /\ UNCHANGED <<sessions, listed, used>>

\* "$pull" of the game from every user's list, and the slip of leaving it there.
FaultyUnlisted(g) == listed
Unlisted(g) == [u \in Users |-> listed[u] \ {g}]

\* The document goes first.
FaultyDeleteGame(s, g) ==
    /\ Present(s)
    /\ \E done \in Reached(3, {1, 2}) :
          /\ done >= 1
          /\ docs' = [docs EXCEPT ![g] = None]
          /\ listed' = IF done >= 2 THEN Unlisted(g) ELSE listed
          /\ cache' = IF done = 3 THEN Evict(g) ELSE cache
    /\ UNCHANGED <<sessions, used>>

\* Take the game off every user's list; delete the document; drop the game.
DeleteGame(s, g) ==
    /\ Present(s)
    /\ \E done \in Reached(3, {1, 2}) :
          /\ done >= 1
          /\ listed' = Unlisted(g)
          /\ docs' = IF done >= 2 THEN [docs EXCEPT ![g] = None] ELSE docs
          /\ cache' = IF done = 3 THEN Evict(g) ELSE cache
    /\ UNCHANGED <<sessions, used>>

\* query, lastupdate, and any refused request for a game.
Load(s, g) ==
    /\ Present(s) /\ Found(g)
    /\ cache' = [cache EXCEPT ![g] = Held(g)]
    /\ UNCHANGED <<sessions, docs, listed, used>>

\* The process ends and is started again: memory is lost.
Restart ==
    /\ sessions' = [s \in SessionIds |-> None]
    /\ cache' = [g \in GameIds |-> None]
    /\ UNCHANGED <<docs, listed, used>>

Next ==
    \/ Restart
    \/ \E s \in SessionIds :
          \/ Retire(s)
          \/ \E u \in Users : Login(s, u)
          \/ \E n \in Names : CreateGame(s, n)
          \/ \E g \in GameIds :
                \/ JoinGame(s, g) \/ StartGame(s, g) \/ MakeTurn(s, g)
                \/ OrganizeHand(s, g) \/ Undo(s, g) \/ DeleteGame(s, g) \/ Load(s, g)

Spec == Init /\ [][Next]_vars
=============================================================================
