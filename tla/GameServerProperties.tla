------------------------ MODULE GameServerProperties ------------------------
(***************************************************************************)
(* What should be true of the server's games, with and without failures of *)
(* the database.  Coherent and the properties built on it hold while the   *)
(* database answers and no two games have one name; the rest survives      *)
(* failures too.                                                           *)
(***************************************************************************)
EXTENDS GameServer, Moves

TypeOK ==
    /\ sessions \in [SessionIds -> Session \cup {None}]
    /\ cache \in [GameIds -> CachedGame \cup {None}]
    /\ docs \in [GameIds -> Document \cup {None}]
    /\ listed \in [Users -> SUBSET GameIds]
    /\ used \in SUBSET GameIds

Existing == {g \in GameIds : docs[g] # None}

\* A cached game that has no document is played on, and lost with the process.
\* deleteGame and createGame order their steps so that none is left behind,
\* whatever write is refused.
CachedHaveDocuments == \A g \in GameIds : cache[g] # None => docs[g] # None

\* The cached game and the document agree after every request: a restart at
\* any moment loses nothing that was answered, and undo, which reads the
\* document, takes back what the players saw last.
Coherent ==
    \A g \in GameIds :
        cache[g] # None => docs[g] # None /\ Held(g) = [state |-> docs[g].state,
                                                        moves |-> docs[g].moves]

\* The history has one state per move, each the state that followed it: the
\* state an undo brings back is the one before the last move.
HistoryComplete ==
    \A g \in Existing :
        LET doc == docs[g]
        IN  /\ doc.state.board = doc.moves
            /\ Len(doc.history) = Len(doc.moves)
            /\ \A k \in DOMAIN doc.history :
                  doc.history[k].board = SubSeq(doc.moves, 1, k)

\* A user's list names the games he plays in, and no other.
PlayersListTheirGames ==
    \A u \in Users : listed[u] = {g \in Existing : u \in Seated(docs[g].state)}

\* Nobody's list names a deleted game: listGames never asks for one, and the
\* page never offers it, even after a refused write.
ListedExist == \A u \in Users : listed[u] \subseteq Existing

\* Whatever writes fail, the saved state is one the cached game has been
\* through: what a restart brings back is an earlier position, never another.
SavedIsPast ==
    \A g \in Existing :
        cache[g] # None => IsPrefix(docs[g].state.board, cache[g].state.board)

\* Whatever writes fail, each state of the history is a later position than the
\* one before, and none is later than the saved one: an undo goes back.
HistoryGoesForward ==
    \A g \in Existing :
        LET h == docs[g].history
        IN  \A k \in DOMAIN h :
               /\ IsStrictPrefix(h[k].board,
                     IF k < Len(h) THEN h[k + 1].board ELSE Append(docs[g].state.board, {}))

IsSubsequence(s, t) ==
    \E place \in [DOMAIN s -> DOMAIN t] :
        /\ \A i \in DOMAIN s : s[i] = t[place[i]]
        /\ \A i, j \in DOMAIN s : i < j => place[i] < place[j]

\* Whatever writes fail, the list of moves the page shows has every move whose
\* effect is on the board, in their order; it may show others.
MovesTellTheBoard ==
    \A g \in GameIds :
        /\ docs[g] # None => IsSubsequence(docs[g].state.board, docs[g].moves)
        /\ cache[g] # None => IsSubsequence(cache[g].state.board, cache[g].moves)

\* A document that holds moves can be loaded again: whatever request was
\* accepted as a move, the move that was written for it is accepted when the
\* game is read, and is the same move.
EveryMoveLoads == \A g \in Existing : docs[g].moves # <<>> => Unreadable = {}

\* The games as requests show them.
Store ==
    [g \in GameIds |->
        IF ~Found(g) THEN None
        ELSE [state |-> Held(g).state, moves |-> Held(g).moves,
              history |-> IF docs[g] = None THEN <<>> ELSE docs[g].history]]

GS == INSTANCE GameStore WITH store <- Store, spent <- used

\* What players see is a store of games: restarts, expired sessions, loads and
\* the cache are invisible, a request changes the game it names and no other,
\* and an undo takes back exactly one move.
ImplementsGameStore == GS!SSpec
-----------------------------------------------------------------------------
(* What the texts of the code say, and the code does not do. *)

\* undo refuses with "Can only undo my turns": the move taken back was made by
\* the user who asks.
UndoOnlyMine ==
    [][\A s \in SessionIds, g \in GameIds :
          Undo(s, g) => Last(docs[g].moves).user = sessions[s].user]_vars

\* dumpGame logs "Wrong number of entries updated" unless it wrote one document.
OneEntryUpdated ==
    \A g \in GameIds :
        cache[g] # None =>
            Cardinality({h \in Existing : docs[h].state.name = cache[g].state.name}) = 1

=============================================================================
