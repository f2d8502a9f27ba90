-------------------------- MODULE GameServerProofs --------------------------
(***************************************************************************)
(* Proofs about GameServer for any users, games, sessions and bounds.      *)
(* Typed, the inductive type invariant, says of every stored game that its *)
(* active player sits at the table: the index FromJson looks up exists.    *)
(* CachedHaveDocuments needs that a write that throws was not made;        *)
(* Coherent and the refinement need that no write throws and that games    *)
(* have names of their own.                                                *)
(***************************************************************************)
EXTENDS GameServerProperties, SequenceTheorems, TLAPS

SoundState == {st \in GameState : st.turn \in Seated(st)}
SoundDoc == [state : SoundState, moves : Seq(Move), history : Seq(SoundState)]
SoundGame == [state : SoundState, moves : Seq(Move)]

Typed ==
    /\ sessions \in [SessionIds -> Session \cup {None}]
    /\ cache \in [GameIds -> SoundGame \cup {None}]
    /\ docs \in [GameIds -> SoundDoc \cup {None}]
    /\ listed \in [Users -> SUBSET GameIds]
    /\ used \in SUBSET GameIds

\* The sound documents and games are among the typed ones; None is none of them.
LEMMA SoundIsTyped ==
  /\ SoundState \subseteq GameState
  /\ SoundDoc \subseteq Document /\ SoundGame \subseteq CachedGame
  /\ None \notin SoundDoc /\ None \notin SoundGame /\ None \notin Session
<1>1. SoundState \subseteq GameState
  BY DEF SoundState
<1>2. Seq(SoundState) \subseteq Seq(GameState)
  BY <1>1
<1>3. SoundDoc \subseteq Document /\ SoundGame \subseteq CachedGame
  BY <1>1, <1>2 DEF SoundDoc, SoundGame, Document, CachedGame
<1> QED BY <1>1, <1>3, NoneAssumption, SessionAssumption

\* What each operation does to a sound state: it stays sound, keeps the name,
\* and only moves touch the board.
LEMMA NewStateSound ==
  ASSUME NEW n \in Names, NEW u \in Users
  PROVE  /\ NewState(n, u) \in SoundState /\ NewState(n, u).name = n
         /\ NewState(n, u).board = <<>>
<1>1. NewState(n, u) \in GameState
  BY DEF NewState, GameState
<1>2. u \in Seated(NewState(n, u))
  BY DEF NewState, Seated
<1> QED BY <1>1, <1>2 DEF SoundState, NewState

LEMMA AddPlayerSound ==
  ASSUME NEW st \in SoundState, NEW u \in Users
  PROVE  /\ AddPlayer(st, u) \in SoundState
         /\ AddPlayer(st, u).name = st.name /\ AddPlayer(st, u).board = st.board
<1>1. st \in GameState /\ st.players \in Seq(Users)
  BY DEF SoundState, GameState
<1>2. AddPlayer(st, u) = [st EXCEPT !.players = Append(st.players, u)]
  BY DEF AddPlayer
<1>3. Append(st.players, u) \in Seq(Users)
  BY <1>1
<1>4. /\ AddPlayer(st, u) \in GameState /\ AddPlayer(st, u).turn = st.turn
      /\ AddPlayer(st, u).players = Append(st.players, u)
      /\ AddPlayer(st, u).name = st.name /\ AddPlayer(st, u).board = st.board
  BY <1>1, <1>2, <1>3 DEF GameState
<1>5. PICK i \in DOMAIN st.players : st.players[i] = st.turn
  BY DEF SoundState, Seated
<1>6. i \in DOMAIN Append(st.players, u) /\ Append(st.players, u)[i] = st.turn
  BY <1>1, <1>5
<1>7. st.turn \in Seated(AddPlayer(st, u))
  BY <1>4, <1>6 DEF Seated
<1> QED BY <1>4, <1>7 DEF SoundState

LEMMA StartSound ==
  ASSUME NEW st \in SoundState
  PROVE  /\ Start(st) \in SoundState
         /\ Start(st).name = st.name /\ Start(st).board = st.board
  BY DEF Start, SoundState, GameState, Seated

LEMMA OrganizedSound ==
  ASSUME NEW st \in SoundState, NEW u \in Users, NEW r \in Organized(st, u)
  PROVE  r \in SoundState /\ r.name = st.name /\ r.board = st.board
<1>1. CASE r = st
  BY <1>1
<1>2. CASE r = [st EXCEPT !.tidy = st.tidy \cup {u}] \/ r = [st EXCEPT !.tidy = st.tidy \ {u}]
  <2>1. /\ r \in GameState /\ r.turn = st.turn /\ r.players = st.players
        /\ r.name = st.name /\ r.board = st.board
    BY <1>2 DEF SoundState, GameState
  <2> QED BY <2>1 DEF SoundState, Seated
<1> QED BY <1>1, <1>2 DEF Organized

LEMMA OutcomeSound ==
  ASSUME NEW st \in SoundState, NEW m \in Move, NEW r \in Outcomes(st, m)
  PROVE  r \in SoundState /\ r.name = st.name /\ r.board = Append(st.board, m)
<1>1. /\ st \in GameState /\ st.players \in Seq(Users)
      /\ st.turn \in Seated(st) /\ Seated(st) \subseteq Users
  BY DEF SoundState, GameState, Seated
<1>2. NextPlayer(st) \in Seated(st)
  <2> DEFINE i == CHOOSE j \in DOMAIN st.players : st.players[j] = st.turn
  <2>1. i \in DOMAIN st.players
    BY <1>1 DEF Seated
  <2>2. i \in 1 .. Len(st.players)
    BY <1>1, <2>1
  <2>3. (IF i = Len(st.players) THEN 1 ELSE i + 1) \in DOMAIN st.players
    <3> HIDE DEF i
    <3> QED BY <1>1, <2>2
  <2>4. NextPlayer(st) = st.players[IF i = Len(st.players) THEN 1 ELSE i + 1]
    BY DEF NextPlayer
  <2> QED BY <2>3, <2>4 DEF Seated
<1>3. PICK c \in NextControl(st) :
         r = [st EXCEPT !.board = Append(st.board, m), !.turn = c[1], !.asked = c[2]]
  BY DEF Outcomes
<1>4. c[1] \in Seated(st) /\ c[2] \in Users \cup {None, Anyone}
  BY <1>1, <1>2 DEF NextControl
<1>5. Append(st.board, m) \in Seq(Move)
  BY <1>1 DEF GameState
<1>6. /\ r \in GameState /\ r.turn = c[1] /\ r.players = st.players
      /\ r.name = st.name /\ r.board = Append(st.board, m)
  BY <1>1, <1>3, <1>4, <1>5 DEF GameState
<1> QED BY <1>4, <1>6 DEF SoundState, Seated

LEMMA HeldSound ==
  ASSUME Typed, NEW g \in GameIds, Found(g)
  PROVE  Held(g) \in SoundGame
  BY SoundIsTyped DEF Typed, Found, Held, SoundDoc, SoundGame

\* dumpGame keeps documents documents, and makes none and removes none.
LEMMA DumpSound ==
  ASSUME Typed, NEW game \in SoundGame, NEW push \in BOOLEAN
  PROVE  /\ Dump(game, push) \in [GameIds -> SoundDoc \cup {None}]
         /\ \A h \in GameIds : Dump(game, push)[h] = None <=> docs[h] = None
<1>1. ASSUME NEW h \in GameIds, docs[h] # None
      PROVE  [state |-> game.state, moves |-> game.moves,
              history |-> IF push THEN Append(docs[h].history, game.state)
                          ELSE docs[h].history] \in SoundDoc
  <2>1. docs[h] \in SoundDoc
    BY <1>1 DEF Typed
  <2>2. Append(docs[h].history, game.state) \in Seq(SoundState)
    BY <2>1 DEF SoundDoc, SoundGame
  <2> QED BY <2>1, <2>2 DEF SoundDoc, SoundGame
<1> QED BY <1>1, SoundIsTyped DEF Dump, Typed

\* A save leaves the stored games sound.
LEMMA SaveTyped ==
  ASSUME Typed, NEW g \in GameIds, NEW game \in SoundGame, NEW push \in BOOLEAN,
         Save(g, game, push)
  PROVE  Typed'
<1>1. cache' \in [GameIds -> SoundGame \cup {None}]
  BY DEF Typed, Save
<1>2. docs' \in [GameIds -> SoundDoc \cup {None}]
  BY DumpSound DEF Typed, Save
<1> QED BY <1>1, <1>2 DEF Typed, Save

\* The game an answered request holds afterwards, for the requests that save.
LEMMA ChangedSound ==
  ASSUME Typed, NEW g \in GameIds, Found(g), NEW st \in SoundState, NEW m \in Move
  PROVE  /\ [Held(g) EXCEPT !.state = st] \in SoundGame
         /\ [Held(g) EXCEPT !.state = st] = [state |-> st, moves |-> Held(g).moves]
         /\ [state |-> st, moves |-> Append(Held(g).moves, m)] \in SoundGame
  BY HeldSound DEF SoundGame
-----------------------------------------------------------------------------
\* The three saving requests and joining, each as a change of one held game:
\* the game saved is sound and has the name and, but for a move, the board and
\* the moves of the game held before.
LEMMA StartSaves ==
  ASSUME Typed, NEW s \in SessionIds, NEW g \in GameIds, StartGame(s, g)
  PROVE  \E game \in SoundGame :
            /\ game = [state |-> Start(Held(g).state), moves |-> Held(g).moves]
            /\ game.state.name = Held(g).state.name /\ Save(g, game, FALSE)
<1>1. Held(g) \in SoundGame /\ Held(g).state \in SoundState
  BY HeldSound DEF StartGame, SoundGame
<1>2. Found(g) /\ Save(g, [Held(g) EXCEPT !.state = Start(Held(g).state)], FALSE)
  BY DEF StartGame
<1> DEFINE game == [state |-> Start(Held(g).state), moves |-> Held(g).moves]
<1>3. [Held(g) EXCEPT !.state = Start(Held(g).state)] = game
  BY <1>1 DEF SoundGame
<1>4. game \in SoundGame /\ game.state.name = Held(g).state.name
  BY <1>1, StartSound DEF SoundGame
<1> QED BY <1>2, <1>3, <1>4

LEMMA OrganizeSaves ==
  ASSUME Typed, NEW s \in SessionIds, NEW g \in GameIds, OrganizeHand(s, g)
  PROVE  \E st \in Organized(Held(g).state, sessions[s].user) : \E game \in SoundGame :
            /\ game = [state |-> st, moves |-> Held(g).moves]
            /\ game.state.name = Held(g).state.name /\ Save(g, game, FALSE)
<1>1. Held(g) \in SoundGame /\ Held(g).state \in SoundState
  BY HeldSound DEF OrganizeHand, SoundGame
<1>2. sessions[s].user \in Users
  BY DEF OrganizeHand, Present, Typed, Session
<1>3. PICK st \in Organized(Held(g).state, sessions[s].user) :
         Save(g, [Held(g) EXCEPT !.state = st], FALSE)
  BY DEF OrganizeHand
<1>4. st \in SoundState /\ st.name = Held(g).state.name
  BY <1>1, <1>2, OrganizedSound
<1>5. [Held(g) EXCEPT !.state = st] = [state |-> st, moves |-> Held(g).moves]
  BY <1>1 DEF SoundGame
<1>6. [state |-> st, moves |-> Held(g).moves] \in SoundGame
  BY <1>1, <1>4 DEF SoundGame
<1> QED BY <1>3, <1>4, <1>5, <1>6

LEMMA MoveSaves ==
  ASSUME Typed, NEW s \in SessionIds, NEW g \in GameIds, MakeTurn(s, g)
  PROVE  \E m \in Move : \E st \in Outcomes(Held(g).state, m) : \E game \in SoundGame :
            /\ m.user = sessions[s].user
            /\ game = [state |-> st, moves |-> Append(Held(g).moves, m)]
            /\ game.state.name = Held(g).state.name /\ Save(g, game, TRUE)
<1>1. Held(g) \in SoundGame /\ Held(g).state \in SoundState /\ Found(g)
  BY HeldSound DEF MakeTurn, SoundGame
<1>2. sessions[s].user \in Users
  BY DEF MakeTurn, Present, Typed, Session
<1>3. PICK kind \in Kinds :
        \E st \in Outcomes(Held(g).state, [user |-> sessions[s].user, kind |-> kind]) :
          Save(g, [state |-> st, moves |-> Append(Held(g).moves,
                     [user |-> sessions[s].user, kind |-> kind])], TRUE)
  BY DEF MakeTurn
<1> DEFINE m == [user |-> sessions[s].user, kind |-> kind]
<1>4. m \in Move /\ m.user = sessions[s].user
  BY <1>2 DEF Move
<1> HIDE DEF m
<1>5. PICK st \in Outcomes(Held(g).state, m) :
         Save(g, [state |-> st, moves |-> Append(Held(g).moves, m)], TRUE)
  BY <1>3 DEF m
<1>6. st \in SoundState /\ st.name = Held(g).state.name
  BY <1>1, <1>4, OutcomeSound
<1>7. [state |-> st, moves |-> Append(Held(g).moves, m)] \in SoundGame
  BY <1>1, <1>4, <1>6, ChangedSound
<1> QED BY <1>4, <1>5, <1>6, <1>7

LEMMA JoinChanges ==
  ASSUME Typed, NEW s \in SessionIds, NEW g \in GameIds, JoinGame(s, g)
  PROVE  \E game \in SoundGame :
            /\ game = [state |-> AddPlayer(Held(g).state, sessions[s].user),
                       moves |-> Held(g).moves]
            /\ game.state.name = Held(g).state.name
            /\ cache' = [cache EXCEPT ![g] = game]
            /\ \E done \in Reached(3, {2, 3}) :
                 /\ listed' = IF done >= 2
                              THEN [listed EXCEPT ![sessions[s].user] = @ \cup {g}]
                              ELSE listed
                 /\ docs' = IF done >= 3 THEN Dump(game, FALSE) ELSE docs
<1>1. Held(g) \in SoundGame /\ Held(g).state \in SoundState
  BY HeldSound DEF JoinGame, SoundGame
<1>2. sessions[s].user \in Users
  BY DEF JoinGame, Present, Typed, Session
<1> DEFINE st == AddPlayer(Held(g).state, sessions[s].user)
           game == [state |-> st, moves |-> Held(g).moves]
<1>3. st \in SoundState /\ st.name = Held(g).state.name
  BY <1>1, <1>2, AddPlayerSound
<1>4. [Held(g) EXCEPT !.state = st] = game
  BY <1>1 DEF SoundGame
<1>5. game \in SoundGame
  BY <1>1, <1>3 DEF SoundGame
<1> HIDE DEF st
<1>6. game.state.name = Held(g).state.name
  BY <1>3
<1>7. /\ cache' = [cache EXCEPT ![g] = game]
      /\ \E done \in Reached(3, {2, 3}) :
           /\ listed' = IF done >= 2
                        THEN [listed EXCEPT ![sessions[s].user] = @ \cup {g}]
                        ELSE listed
           /\ docs' = IF done >= 3 THEN Dump(game, FALSE) ELSE docs
  BY <1>4 DEF JoinGame, st
<1> QED BY <1>5, <1>6, <1>7 DEF st

\* Pop takes the last element off and leaves the others in place.
LEMMA PopKeeps ==
  ASSUME NEW S, NEW seq \in Seq(S), seq # <<>>
  PROVE  /\ Pop(seq) = Front(seq) /\ Pop(seq) \in Seq(S) /\ Len(Pop(seq)) = Len(seq) - 1
         /\ \A k \in DOMAIN Pop(seq) : k \in DOMAIN seq /\ Pop(seq)[k] = seq[k]
<1>1. Pop(seq) = SubSeq(seq, 1, Len(seq) - 1)
  BY DEF Pop, Front
<1>2. Len(seq) \in Nat /\ Len(seq) >= 1
  OBVIOUS
<1> QED BY <1>1, <1>2 DEF Pop

\* What undo brings back is a document again.
LEMMA UndoneSound ==
  ASSUME NEW doc \in SoundDoc, Len(doc.history) >= 2
  PROVE  /\ Previous(doc) = doc.history[Len(doc.history) - 1]
         /\ Previous(doc) \in SoundState
         /\ Front(doc.history) \in Seq(SoundState) /\ Pop(doc.history) = Front(doc.history)
         /\ Pop(doc.moves) \in Seq(Move)
         /\ [state |-> Previous(doc), moves |-> Pop(doc.moves),
             history |-> Pop(doc.history)] \in SoundDoc
<1>1. doc.history \in Seq(SoundState) /\ doc.moves \in Seq(Move)
  BY DEF SoundDoc
<1>2. Previous(doc) \in SoundState
  BY <1>1 DEF Previous
<1>3. \A S : \A seq \in Seq(S) : seq # <<>> => Front(seq) \in Seq(S)
  BY SubSeqProperties DEF Front
<1>4. Front(doc.history) \in Seq(SoundState) /\ Pop(doc.history) = Front(doc.history)
  BY <1>1, <1>3 DEF Pop
<1>5. Pop(doc.moves) \in Seq(Move)
  BY <1>1, <1>3 DEF Pop
<1> QED BY <1>1, <1>2, <1>4, <1>5 DEF SoundDoc, Previous

\* Every request keeps the stored games sound: one step per action.
LEMMA NextTyped ==
  ASSUME Typed, Next
  PROVE  Typed'
<1>1. ASSUME NEW s \in SessionIds, Retire(s) \/ \E u \in Users : Login(s, u)
      PROVE  Typed'
  BY <1>1 DEF Retire, Login, Typed, Session
<1>2. ASSUME NEW s \in SessionIds, NEW n \in Names, CreateGame(s, n)
      PROVE  Typed'
  <2> DEFINE u == sessions[s].user
             st == NewState(n, u)
  <2>1. u \in Users /\ sessions[s] \in Session
    BY <1>2 DEF CreateGame, Present, Typed, Session
  <2>2. st \in SoundState
    BY <2>1, NewStateSound
  <2> HIDE DEF st
  <2>3. /\ [state |-> st, moves |-> <<>>, history |-> <<>>] \in SoundDoc
        /\ [state |-> st, moves |-> <<>>] \in SoundGame
    BY <2>2 DEF SoundDoc, SoundGame
  <2>4. PICK g \in GameIds \ used, done \in Reached(3, {1, 3}) :
            /\ docs' = [docs EXCEPT ![g] = [state |-> st, moves |-> <<>>, history |-> <<>>]]
            /\ used' = used \cup {g}
            /\ cache' = IF done >= 2 THEN [cache EXCEPT ![g] = [state |-> st, moves |-> <<>>]]
                        ELSE cache
            /\ sessions' = IF done >= 2 THEN [sessions EXCEPT ![s].games = @ \cup {g}]
                           ELSE sessions
            /\ listed' = IF done >= 3 THEN [listed EXCEPT ![u] = @ \cup {g}] ELSE listed
    BY <1>2 DEF CreateGame, st
  <2>5. sessions' \in [SessionIds -> Session \cup {None}]
    BY <2>1, <2>4 DEF Typed, Session
  <2>6. listed' \in [Users -> SUBSET GameIds]
    BY <2>1, <2>4 DEF Typed
  <2>7. docs' \in [GameIds -> SoundDoc \cup {None}] /\ used' \in SUBSET GameIds
    BY <2>3, <2>4 DEF Typed
  <2>8. cache' \in [GameIds -> SoundGame \cup {None}]
    BY <2>3, <2>4 DEF Typed
  <2> QED BY <2>5, <2>6, <2>7, <2>8 DEF Typed
<1>3. ASSUME NEW s \in SessionIds, NEW g \in GameIds, JoinGame(s, g)
      PROVE  Typed'
  <2>1. sessions[s] \in Session
    BY <1>3 DEF JoinGame, Present, Typed
  <2>2. sessions' \in [SessionIds -> Session \cup {None}] /\ used' = used
    BY <1>3, <2>1 DEF JoinGame, Typed, Session
  <2>3. PICK game \in SoundGame :
            /\ cache' = [cache EXCEPT ![g] = game]
            /\ \E done \in Reached(3, {2, 3}) :
                 /\ listed' = IF done >= 2
                              THEN [listed EXCEPT ![sessions[s].user] = @ \cup {g}]
                              ELSE listed
                 /\ docs' = IF done >= 3 THEN Dump(game, FALSE) ELSE docs
    BY <1>3, JoinChanges
  <2>4. docs' \in [GameIds -> SoundDoc \cup {None}]
    BY <2>3, DumpSound DEF Typed
  <2>5. listed' \in [Users -> SUBSET GameIds]
    <3>1. \/ listed' = listed
          \/ listed' = [listed EXCEPT ![sessions[s].user] = listed[sessions[s].user] \cup {g}]
      BY <2>3
    <3> QED BY <2>1, <3>1 DEF Typed, Session
  <2> QED BY <2>2, <2>3, <2>4, <2>5 DEF Typed
<1>4. ASSUME NEW s \in SessionIds, NEW g \in GameIds,
             StartGame(s, g) \/ MakeTurn(s, g) \/ OrganizeHand(s, g)
      PROVE  Typed'
  <2>1. \E game \in SoundGame, push \in BOOLEAN : Save(g, game, push)
    BY <1>4, StartSaves, MoveSaves, OrganizeSaves
  <2> QED BY <2>1, SaveTyped
<1>5. ASSUME NEW s \in SessionIds, NEW g \in GameIds, Undo(s, g)
      PROVE  Typed'
  <2>1. docs[g] \in SoundDoc /\ Len(docs[g].history) >= 2
    BY <1>5 DEF Undo, Typed
  <2>2. docs' = [docs EXCEPT ![g] = [state |-> Previous(docs[g]), moves |-> Pop(docs[g].moves),
                                     history |-> Pop(docs[g].history)]]
        /\ (cache' = Evict(g) \/ cache' = cache)
    BY <1>5 DEF Undo
  <2>3. docs' \in [GameIds -> SoundDoc \cup {None}]
    BY <2>1, <2>2, UndoneSound DEF Typed
  <2> QED BY <1>5, <2>2, <2>3 DEF Undo, Typed, Evict
<1>6. ASSUME NEW s \in SessionIds, NEW g \in GameIds, DeleteGame(s, g)
      PROVE  Typed'
  <2>1. /\ docs' = [docs EXCEPT ![g] = None] \/ docs' = docs
        /\ cache' = Evict(g) \/ cache' = cache
        /\ listed' = Unlisted(g) /\ UNCHANGED <<sessions, used>>
    BY <1>6 DEF DeleteGame
  <2> QED BY <2>1 DEF Typed, Evict, Unlisted
<1>7. ASSUME NEW s \in SessionIds, NEW g \in GameIds, Load(s, g)
      PROVE  Typed'
  BY <1>7, HeldSound DEF Load, Typed
<1>8. CASE Restart
  BY <1>8 DEF Restart, Typed
<1> QED BY <1>1, <1>2, <1>3, <1>4, <1>5, <1>6, <1>7, <1>8 DEF Next

LEMMA AlwaysTyped == Spec => []Typed
<1>1. Init => Typed
  BY DEF Init, Typed
<1>2. Typed /\ [Next]_vars => Typed'
  BY NextTyped DEF Typed, vars
<1> QED BY <1>1, <1>2, PTL DEF Spec

\* Whatever writes fail, the server's memory and the database hold games,
\* sessions and lists of the right form, and the active player of a stored
\* game sits at its table.
THEOREM ServerTypeCorrect == Spec => []TypeOK
<1>1. Typed => TypeOK
  BY SoundIsTyped DEF Typed, TypeOK
<1> QED BY <1>1, AlwaysTyped, PTL

\* If a write that throws was not made, every cached game has its document: no
\* game is played on that the next restart would lose altogether.
THEOREM CachedGamesHaveDocuments ==
  ASSUME "unanswered" \notin Failures
  PROVE  Spec => []CachedHaveDocuments
<1>1. Init => CachedHaveDocuments
  BY DEF Init, CachedHaveDocuments
<1>2. ASSUME Typed, CachedHaveDocuments, Next
      PROVE  CachedHaveDocuments'
  <2>1. ASSUME NEW s \in SessionIds, Retire(s) \/ \E u \in Users : Login(s, u)
        PROVE  CachedHaveDocuments'
    BY <1>2, <2>1 DEF Retire, Login, CachedHaveDocuments
  <2>2. ASSUME NEW s \in SessionIds, NEW n \in Names, CreateGame(s, n)
        PROVE  CachedHaveDocuments'
    <3>1. PICK g \in GameIds, st \in SoundState :
            /\ docs' = [docs EXCEPT ![g] = [state |-> st, moves |-> <<>>, history |-> <<>>]]
            /\ cache' = cache \/ \E game : cache' = [cache EXCEPT ![g] = game]
      <4>1. sessions[s].user \in Users
        BY <1>2, <2>2 DEF CreateGame, Present, Typed, Session
      <4>2. NewState(n, sessions[s].user) \in SoundState
        BY <4>1, NewStateSound
      <4> QED BY <2>2, <4>2 DEF CreateGame
    <3>2. [state |-> st, moves |-> <<>>, history |-> <<>>] \in SoundDoc
      BY DEF SoundDoc
    <3>3. docs'[g] # None
      BY <1>2, <3>1, <3>2, SoundIsTyped DEF Typed
    <3> QED BY <1>2, <3>1, <3>3 DEF CachedHaveDocuments, Typed
  <2>3. ASSUME NEW s \in SessionIds, NEW g \in GameIds,
               JoinGame(s, g) \/ StartGame(s, g) \/ MakeTurn(s, g) \/ OrganizeHand(s, g)
        PROVE  CachedHaveDocuments'
    <3>1. PICK game \in SoundGame, push \in BOOLEAN :
            /\ cache' = [cache EXCEPT ![g] = game]
            /\ docs' = docs \/ docs' = Dump(game, push)
      <4>1. CASE JoinGame(s, g)
        BY <1>2, <4>1, JoinChanges
      <4>2. CASE StartGame(s, g) \/ MakeTurn(s, g) \/ OrganizeHand(s, g)
        <5>1. PICK game \in SoundGame, push \in BOOLEAN : Save(g, game, push)
          BY <1>2, <4>2, StartSaves, MoveSaves, OrganizeSaves
        <5> QED BY <5>1 DEF Save
      <4> QED BY <2>3, <4>1, <4>2
    <3>2. docs[g] # None
      BY <1>2, <2>3 DEF JoinGame, StartGame, MakeTurn, OrganizeHand, Found,
                        CachedHaveDocuments
    <3> QED BY <1>2, <3>1, <3>2, DumpSound DEF CachedHaveDocuments, Typed
  <2>4. ASSUME NEW s \in SessionIds, NEW g \in GameIds, Undo(s, g)
        PROVE  CachedHaveDocuments'
    <3>1. docs[g] \in SoundDoc /\ Len(docs[g].history) >= 2
      BY <1>2, <2>4 DEF Undo, Typed
    <3>2. /\ docs' = [docs EXCEPT ![g] = [state |-> Previous(docs[g]),
                          moves |-> Pop(docs[g].moves), history |-> Pop(docs[g].history)]]
          /\ cache' = Evict(g) \/ cache' = cache
      BY <2>4 DEF Undo
    <3>3. docs'[g] # None
      BY <1>2, <3>1, <3>2, UndoneSound, SoundIsTyped DEF Typed
    <3> QED BY <1>2, <3>2, <3>3 DEF CachedHaveDocuments, Evict, Typed
  <2>5. ASSUME NEW s \in SessionIds, NEW g \in GameIds, DeleteGame(s, g)
        PROVE  CachedHaveDocuments'
    <3>1. Reached(3, {1, 2}) \subseteq {0, 1, 3}
      BY DEF Reached
    <3>2. PICK done \in {0, 1, 3} :
            /\ docs' = IF done >= 2 THEN [docs EXCEPT ![g] = None] ELSE docs
            /\ cache' = IF done = 3 THEN Evict(g) ELSE cache
      BY <2>5, <3>1 DEF DeleteGame
    <3> QED BY <1>2, <3>2 DEF CachedHaveDocuments, Evict, Typed
  <2>6. ASSUME NEW s \in SessionIds, NEW g \in GameIds, Load(s, g)
        PROVE  CachedHaveDocuments'
    BY <1>2, <2>6 DEF Load, Found, CachedHaveDocuments, Typed
  <2>7. CASE Restart
    BY <2>7 DEF Restart, CachedHaveDocuments
  <2> QED BY <1>2, <2>1, <2>2, <2>3, <2>4, <2>5, <2>6, <2>7 DEF Next
<1>3. Typed /\ CachedHaveDocuments /\ [Next]_vars => CachedHaveDocuments'
  BY <1>2 DEF CachedHaveDocuments, vars
<1> QED BY <1>1, <1>3, AlwaysTyped, PTL DEF Spec
-----------------------------------------------------------------------------
(* Moves and their documents. *)

\* What FromJson can tell of the fields ToJson writes, and of those it does not.
LEMMA WrittenFields ==
  ASSUME NEW x
  PROVE  /\ Holds(Text(x), "utf8") /\ Text(x)[2] = x
         /\ Holds(Num(x), "int32") /\ Num(x)[2] = x
         /\ Holds(List(x), "array") /\ List(x)[2] = x
BY DEF Text, Num, List, Absent, Holds

LEMMA ValuesOfFields ==
  ASSUME NEW x, NEW default
  PROVE  /\ ValueOr(Text(x), default) = x /\ ValueOr(Num(x), default) = x
         /\ ValueOr(List(x), default) = x /\ ValueOr(Absent, default) = default
BY DEF Text, Num, List, Absent, ValueOr

\* An accepted request holds numbers where FromJson takes numbers.
LEMMA NumbersTaken ==
  ASSUME NEW d \in MoveDoc, Accepts(d)
  PROVE  ValueOr(d.card, -1) \in Int /\ ValueOr(d.ingredient, -1) \in Int
<1>1. ASSUME NEW f \in Field, AbsentOr(f, "int32")
      PROVE  ValueOr(f, -1) \in Int
  <2>1. CASE f = Absent
    BY <2>1 DEF ValueOr
  <2>2. CASE f # Absent
    <3>1. f[1] = "int32"
      BY <1>1, <2>2 DEF AbsentOr, Holds
    <3>2. f # Strange
      BY <3>1 DEF Strange
    <3>3. f \in {"int32"} \X Int
      BY <2>2, <3>1, <3>2 DEF Field, Scalar
    <3> QED BY <2>2, <3>3 DEF ValueOr
  <2> QED BY <2>1, <2>2
<1> QED BY <1>1 DEF MoveDoc, Accepts

\* Whatever document is accepted as a move, what is written for it is accepted
\* and read as the same move: a recipe stays a recipe, a missing field missing.
LEMMA MoveReadAsWritten ==
  ASSUME NEW d \in MoveDoc, Accepts(d)
  PROVE  ReadAsWritten(TakenFrom(d))
<1> DEFINE m == TakenFrom(d)
           w == Written(m)
           r == TakenFrom(w)
<1>1. /\ m.action = d.action[2] /\ m.action \in ActionNames
      /\ m.action \in AboutACard => m.card # -1
      /\ m.card \in Int /\ m.ingredient \in Int
      /\ m.action # "draw" => m.deck = ""
      /\ m.action \notin WithParts => DOMAIN m.parts = {}
  <2> DEFINE given == IF d.action[2] \in WithParts THEN ValueOr(d.parts, <<>>) ELSE <<>>
  <2>1. /\ m.action = d.action[2] /\ m.card = ValueOr(d.card, -1)
        /\ m.ingredient = ValueOr(d.ingredient, -1)
        /\ m.action # "draw" => m.deck = ""
        /\ DOMAIN m.parts = DOMAIN given
    BY DEF TakenFrom
  <2>2. ASSUME m.action \notin WithParts
        PROVE  DOMAIN given = {}
    <3>1. given = <<>>
      BY <2>1, <2>2
    <3> HIDE DEF given
    <3> QED BY <3>1
  <2>3. m.action \in ActionNames /\ (m.action \in AboutACard => m.card # -1)
    BY <2>1 DEF Accepts
  <2> HIDE DEF m, given
  <2> QED BY <2>1, <2>2, <2>3, NumbersTaken
<1>2. ASSUME NEW i \in DOMAIN m.parts
      PROVE  m.parts[i].type \in {"ingredient", "recipe"}
  <2> DEFINE given == ValueOr(d.parts, <<>>)
  <2>1. m.action \in WithParts
    BY <1>1, <1>2
  <2>2. i \in DOMAIN given /\ m.parts[i].type = given[i].type[2]
    BY <1>2, <2>1 DEF TakenFrom
  <2>3. given = d.parts[2]
    BY <2>2 DEF ValueOr
  <2>4. AcceptsPart(given[i])
    BY <2>1, <2>2, <2>3 DEF Accepts, TakenFrom
  <2> QED BY <2>2, <2>4 DEF AcceptsPart
<1> HIDE DEF m
<1>3. /\ w.action = Text(m.action) /\ w.card = Num(m.card) /\ w.deck = Text(m.deck)
      /\ w.ingredient = IF m.ingredient >= 0 THEN Num(m.ingredient) ELSE Absent
      /\ w.player = IF m.player # "" THEN Text(m.player) ELSE Absent
  BY DEF Written
<1> DEFINE parts == [i \in DOMAIN m.parts |->
              [type |-> Text(PartName(m.parts[i].type)), id |-> Num(m.parts[i].id),
               player |-> Text(m.parts[i].player)]]
<1>4. w.parts = List(parts) /\ DOMAIN parts = DOMAIN m.parts
  BY DEF Written
<1>5. \A i \in DOMAIN m.parts : /\ parts[i].type = Text(m.parts[i].type)
                                /\ parts[i].id = Num(m.parts[i].id)
                                /\ parts[i].player = Text(m.parts[i].player)
  BY <1>2 DEF PartName
<1> HIDE DEF w, parts
<1>6. Accepts(w)
  <2>1. ASSUME NEW i \in DOMAIN parts
        PROVE  AcceptsPart(parts[i])
    <3>1. /\ parts[i].type = Text(m.parts[i].type) /\ parts[i].id = Num(m.parts[i].id)
          /\ parts[i].player = Text(m.parts[i].player)
          /\ m.parts[i].type \in {"ingredient", "recipe"}
      BY <1>2, <1>4, <1>5
    <3>2. parts[i].type[2] = m.parts[i].type
      BY <3>1, WrittenFields
    <3> QED BY <3>1, <3>2, WrittenFields DEF AcceptsPart, AbsentOr
  <2>2. AbsentOr(w.parts, "array") /\ ValueOr(w.parts, <<>>) = parts /\ w.parts[2] = parts
    BY <1>4, WrittenFields, ValuesOfFields DEF AbsentOr
  <2>3. Holds(w.action, "utf8") /\ w.action[2] \in ActionNames /\ w.action[2] = m.action
    BY <1>1, <1>3, WrittenFields
  <2>4. AbsentOr(w.card, "int32") /\ ValueOr(w.card, -1) = m.card
    <3>1. w.card = Num(m.card)
      BY <1>3
    <3>2. AbsentOr(w.card, "int32")
      BY <3>1, WrittenFields DEF AbsentOr
    <3>3. ValueOr(w.card, -1) = m.card
      BY <3>1, ValuesOfFields
    <3> QED BY <3>2, <3>3
  <2>5. w.ingredient = Absent \/ w.ingredient = Num(m.ingredient)
    BY <1>3
  <2>6. w.player = Absent \/ w.player = Text(m.player)
    BY <1>3
  <2>7. AbsentOr(w.ingredient, "int32") /\ AbsentOr(w.player, "utf8")
    BY <2>5, <2>6, WrittenFields DEF AbsentOr
  <2> QED BY <1>1, <2>1, <2>2, <2>3, <2>4, <2>7 DEF Accepts
<1>7. /\ r.action = m.action /\ r.card = m.card /\ r.deck = m.deck /\ r.player = m.player
      /\ r.ingredient = IF m.ingredient >= 0 THEN m.ingredient ELSE -1
  <2>1. /\ w.action[2] = m.action
        /\ Holds(w.deck, "utf8") /\ w.deck[2] = m.deck
    BY <1>3, WrittenFields
  <2>0. ValueOr(w.card, -1) = m.card
    <3>1. w.card = Num(m.card)
      BY <1>3
    <3> QED BY <3>1, ValuesOfFields
  <2>2. ValueOr(w.player, "") = m.player
    BY <1>3, ValuesOfFields
  <2>3. ValueOr(w.ingredient, -1) = IF m.ingredient >= 0 THEN m.ingredient ELSE -1
    <3>1. CASE m.ingredient >= 0
      BY <1>3, <3>1, ValuesOfFields
    <3>2. CASE ~(m.ingredient >= 0)
      BY <1>3, <3>2, ValuesOfFields
    <3> QED BY <3>1, <3>2
  <2> QED BY <1>1, <2>0, <2>1, <2>2, <2>3 DEF TakenFrom
<1>8. /\ DOMAIN r.parts = DOMAIN m.parts
      /\ \A i \in DOMAIN m.parts : /\ r.parts[i].type = m.parts[i].type
                                   /\ r.parts[i].id = m.parts[i].id
                                   /\ r.parts[i].player = m.parts[i].player
  <2> DEFINE given == IF m.action \in WithParts THEN parts ELSE <<>>
  <2>1. /\ ValueOr(w.parts, <<>>) = parts /\ w.action[2] = m.action
    BY <1>3, <1>4, WrittenFields, ValuesOfFields
  <2>2. r.parts = [i \in DOMAIN given |->
                     [type |-> given[i].type[2], id |-> given[i].id[2],
                      player |-> ValueOr(given[i].player, "")]]
    BY <2>1 DEF TakenFrom
  <2>3. CASE m.action \in WithParts
    <3>1. given = parts /\ DOMAIN r.parts = DOMAIN m.parts
      BY <1>4, <2>2, <2>3
    <3>2. ASSUME NEW i \in DOMAIN m.parts
          PROVE  /\ r.parts[i].type = m.parts[i].type /\ r.parts[i].id = m.parts[i].id
                 /\ r.parts[i].player = m.parts[i].player
      <4> HIDE DEF r, given
      <4>1. r.parts[i] = [type |-> parts[i].type[2], id |-> parts[i].id[2],
                          player |-> ValueOr(parts[i].player, "")]
        BY <1>4, <2>2, <3>1
      <4>2. /\ parts[i].type[2] = m.parts[i].type /\ parts[i].id[2] = m.parts[i].id
            /\ ValueOr(parts[i].player, "") = m.parts[i].player
        <5>1. /\ parts[i].type = Text(m.parts[i].type) /\ parts[i].id = Num(m.parts[i].id)
              /\ parts[i].player = Text(m.parts[i].player)
          BY <1>5
        <5>2. parts[i].type[2] = m.parts[i].type /\ parts[i].id[2] = m.parts[i].id
          BY <5>1, WrittenFields
        <5>3. ValueOr(parts[i].player, "") = m.parts[i].player
          BY <5>1, ValuesOfFields
        <5> QED BY <5>2, <5>3
      <4> DEFINE part == r.parts[i]
                 was == m.parts[i]
      <4>3. part = [type |-> was.type, id |-> was.id, player |-> was.player]
        BY <4>1, <4>2
      <4> HIDE DEF part, was
      <4>4. part.type = was.type /\ part.id = was.id /\ part.player = was.player
        BY <4>3
      <4> QED BY <4>4 DEF part, was
    <3> QED BY <3>1, <3>2
  <2>4. CASE m.action \notin WithParts
    <3>1. given = <<>>
      BY <2>4
    <3>2. DOMAIN r.parts = {}
      <4> HIDE DEF r, given
      <4> QED BY <2>2, <3>1
    <3> QED BY <1>1, <2>4, <3>2
  <2> QED BY <2>3, <2>4
<1> HIDE DEF r
<1>9. Written(r) = w
  <2>1. [i \in DOMAIN r.parts |->
           [type |-> Text(PartName(r.parts[i].type)), id |-> Num(r.parts[i].id),
            player |-> Text(r.parts[i].player)]] = parts
    BY <1>8 DEF parts
  <2>2. (IF r.ingredient >= 0 THEN Num(r.ingredient) ELSE Absent)
           = IF m.ingredient >= 0 THEN Num(m.ingredient) ELSE Absent
    <3>1. CASE m.ingredient >= 0
      BY <1>7, <3>1
    <3>2. CASE ~(m.ingredient >= 0)
      <4>1. r.ingredient = -1 /\ ~(-1 >= 0)
        BY <1>7, <3>2
      <4> QED BY <3>2, <4>1
    <3> QED BY <3>1, <3>2
  <2> HIDE DEF parts
  <2>3. Written(r) = [action |-> Text(m.action), card |-> Num(m.card),
                      ingredient |-> IF m.ingredient >= 0 THEN Num(m.ingredient) ELSE Absent,
                      player |-> IF m.player # "" THEN Text(m.player) ELSE Absent,
                      deck |-> Text(m.deck), parts |-> List(parts)]
    BY <1>7, <2>1, <2>2 DEF Written
  <2> QED BY <2>3 DEF w, parts, Written
<1> QED BY <1>6, <1>9 DEF ReadAsWritten, m, w, r

\* Whatever requests arrive and whatever writes fail, every document can be
\* loaded: no move is written that FromJson then refuses or takes for another.
THEOREM EveryDocumentLoads == Spec => []EveryMoveLoads
<1>1. Unreadable = {}
  BY MoveReadAsWritten, PostedAssumption DEF Unreadable
<1>2. EveryMoveLoads
  BY <1>1 DEF EveryMoveLoads
<1> QED BY <1>2, PTL
-----------------------------------------------------------------------------
(* From here on the database answers and every game has a name of its own. *)
Reliable == Failures = {} /\ UniqueNames

\* No two games have one name, and a game keeps its name: an undo brings no
\* other one back.
OwnNames ==
    /\ \A g, h \in GameIds :
          docs[g] # None /\ docs[h] # None /\ docs[g].state.name = docs[h].state.name
              => g = h
    /\ \A g \in GameIds : docs[g] # None =>
          \A k \in DOMAIN docs[g].history :
             docs[g].history[k].name = docs[g].state.name

Saved(g, game, push) ==
    [docs EXCEPT ![g] = [state |-> game.state, moves |-> game.moves,
                         history |-> IF push THEN Append(docs[g].history, game.state)
                                     ELSE docs[g].history]]

LEMMA AllReached ==
  ASSUME Reliable, NEW n, NEW W
  PROVE  Reached(n, W) = {n}
  BY DEF Reliable, Reached

\* What a request works on is what is saved.
LEMMA HeldIsSaved ==
  ASSUME Typed, Coherent, NEW g \in GameIds, Found(g)
  PROVE  /\ docs[g] # None /\ docs[g] \in SoundDoc
         /\ Held(g).state = docs[g].state /\ Held(g).moves = docs[g].moves
<1>1. docs[g] # None
  BY DEF Coherent, Found
<1>2. Held(g) = [state |-> docs[g].state, moves |-> docs[g].moves]
  BY DEF Coherent, Held
<1> QED BY <1>1, <1>2 DEF Typed

\* dumpGame writes the document of the game and no other.
LEMMA DumpOwn ==
  ASSUME Typed, OwnNames, NEW g \in GameIds, docs[g] # None,
         NEW game \in SoundGame, game.state.name = docs[g].state.name,
         NEW push \in BOOLEAN
  PROVE  Dump(game, push) = Saved(g, game, push)
<1>1. ASSUME NEW h \in GameIds
      PROVE  Dump(game, push)[h] = Saved(g, game, push)[h]
  BY <1>1 DEF Dump, Saved, OwnNames, Typed
<1>2. /\ Dump(game, push) = [h \in GameIds |-> Dump(game, push)[h]]
      /\ Saved(g, game, push) = [h \in GameIds |-> Saved(g, game, push)[h]]
  BY DEF Dump, Saved, Typed
<1> QED BY <1>1, <1>2

\* A save of a game under the name it has, in the cache and in its document.
Saves(g, game, push) ==
    /\ docs[g] # None
    /\ game.state.name = docs[g].state.name
    /\ cache' = [cache EXCEPT ![g] = game]
    /\ docs' = Saved(g, game, push)

LEMMA SaveIsOwn ==
  ASSUME Reliable, Typed, Coherent, OwnNames, NEW g \in GameIds, Found(g),
         NEW game \in SoundGame, game.state.name = Held(g).state.name,
         NEW push \in BOOLEAN, Save(g, game, push)
  PROVE  Saves(g, game, push)
<1>1. docs' = Dump(game, push) /\ cache' = [cache EXCEPT ![g] = game]
  BY AllReached DEF Save
<1> QED BY <1>1, HeldIsSaved, DumpOwn DEF Saves

\* The four requests that change a held game and save it.
LEMMA StartSaved ==
  ASSUME Reliable, Typed, Coherent, OwnNames, NEW s \in SessionIds, NEW g \in GameIds,
         StartGame(s, g)
  PROVE  \E game \in SoundGame :
            /\ game = [state |-> Start(docs[g].state), moves |-> docs[g].moves]
            /\ Saves(g, game, FALSE) /\ used' = used
<1>1. Found(g) /\ used' = used
  BY DEF StartGame, Save
<1>2. PICK game \in SoundGame :
            /\ game = [state |-> Start(Held(g).state), moves |-> Held(g).moves]
            /\ game.state.name = Held(g).state.name /\ Save(g, game, FALSE)
  BY StartSaves
<1>3. Saves(g, game, FALSE)
  BY <1>1, <1>2, SaveIsOwn
<1> QED BY <1>1, <1>2, <1>3, HeldIsSaved

LEMMA OrganizeSaved ==
  ASSUME Reliable, Typed, Coherent, OwnNames, NEW s \in SessionIds, NEW g \in GameIds,
         OrganizeHand(s, g)
  PROVE  \E st \in Organized(docs[g].state, sessions[s].user) : \E game \in SoundGame :
            /\ MayOrganize(docs[g].state)
            /\ game = [state |-> st, moves |-> docs[g].moves]
            /\ Saves(g, game, FALSE) /\ used' = used
<1>1. Found(g) /\ MayOrganize(Held(g).state) /\ used' = used
  BY DEF OrganizeHand, Save
<1>2. PICK st \in Organized(Held(g).state, sessions[s].user), game \in SoundGame :
            /\ game = [state |-> st, moves |-> Held(g).moves]
            /\ game.state.name = Held(g).state.name /\ Save(g, game, FALSE)
  BY OrganizeSaves
<1>3. Saves(g, game, FALSE)
  BY <1>1, <1>2, SaveIsOwn
<1> QED BY <1>1, <1>2, <1>3, HeldIsSaved

LEMMA MoveSaved ==
  ASSUME Reliable, Typed, Coherent, OwnNames, NEW s \in SessionIds, NEW g \in GameIds,
         MakeTurn(s, g)
  PROVE  \E m \in Move : \E st \in Outcomes(docs[g].state, m) : \E game \in SoundGame :
            /\ MayMove(docs[g].state, m.user)
            /\ game = [state |-> st, moves |-> Append(docs[g].moves, m)]
            /\ Saves(g, game, TRUE) /\ used' = used
<1>1. Found(g) /\ MayMove(Held(g).state, sessions[s].user) /\ used' = used
  BY DEF MakeTurn, Save
<1>2. PICK m \in Move : \E st \in Outcomes(Held(g).state, m) : \E game \in SoundGame :
            /\ m.user = sessions[s].user
            /\ game = [state |-> st, moves |-> Append(Held(g).moves, m)]
            /\ game.state.name = Held(g).state.name /\ Save(g, game, TRUE)
  BY MoveSaves
<1>3. PICK st \in Outcomes(Held(g).state, m), game \in SoundGame :
            /\ game = [state |-> st, moves |-> Append(Held(g).moves, m)]
            /\ game.state.name = Held(g).state.name /\ Save(g, game, TRUE)
  BY <1>2
<1>4. Saves(g, game, TRUE)
  BY <1>1, <1>3, SaveIsOwn
<1> QED BY <1>1, <1>2, <1>3, <1>4, HeldIsSaved

LEMMA JoinSaved ==
  ASSUME Reliable, Typed, Coherent, OwnNames, NEW s \in SessionIds, NEW g \in GameIds,
         JoinGame(s, g)
  PROVE  \E game \in SoundGame :
            /\ CanJoin(docs[g].state, sessions[s].user)
            /\ game = [state |-> AddPlayer(docs[g].state, sessions[s].user),
                       moves |-> docs[g].moves]
            /\ Saves(g, game, FALSE) /\ used' = used
<1>1. Found(g) /\ CanJoin(Held(g).state, sessions[s].user) /\ used' = used
  BY DEF JoinGame
<1>2. PICK game \in SoundGame :
            /\ game = [state |-> AddPlayer(Held(g).state, sessions[s].user),
                       moves |-> Held(g).moves]
            /\ game.state.name = Held(g).state.name
            /\ cache' = [cache EXCEPT ![g] = game]
            /\ \E done \in Reached(3, {2, 3}) :
                 docs' = IF done >= 3 THEN Dump(game, FALSE) ELSE docs
  BY JoinChanges
<1>3. docs' = Dump(game, FALSE)
  <2>1. PICK done \in Reached(3, {2, 3}) :
           docs' = IF done >= 3 THEN Dump(game, FALSE) ELSE docs
    BY <1>2
  <2>2. done = 3
    BY <2>1, AllReached
  <2> QED BY <2>1, <2>2
<1>4. Saves(g, game, FALSE)
  BY <1>1, <1>2, <1>3, HeldIsSaved, DumpOwn DEF Saves
<1> QED BY <1>1, <1>2, <1>4, HeldIsSaved

\* A save keeps cache and document in step, and the names apart.
LEMMA SavesCoherent ==
  ASSUME Typed, Coherent, OwnNames, NEW g \in GameIds, NEW game \in SoundGame,
         NEW push \in BOOLEAN, Saves(g, game, push)
  PROVE  Coherent' /\ OwnNames'
<1>1. docs[g] \in SoundDoc /\ docs'[g].state = game.state /\ docs'[g].moves = game.moves
  BY DEF Saves, Saved, Typed
<1>2. docs'[g] \in SoundDoc
  <2>1. Append(docs[g].history, game.state) \in Seq(SoundState)
    BY <1>1 DEF SoundDoc, SoundGame
  <2> QED BY <1>1, <2>1 DEF Saves, Saved, Typed, SoundDoc, SoundGame
<1>3. \A h \in GameIds : h # g => docs'[h] = docs[h] /\ cache'[h] = cache[h]
  BY DEF Saves, Saved, Typed
<1>4. cache'[g] = game /\ game = [state |-> game.state, moves |-> game.moves]
  BY DEF Saves, Typed, SoundGame
<1>5. Coherent'
  BY <1>1, <1>2, <1>3, <1>4, SoundIsTyped DEF Coherent, Held
<1>6. docs'[g].history \in {docs[g].history, Append(docs[g].history, game.state)}
  BY DEF Saves, Saved, Typed
<1>7. \A k \in DOMAIN docs'[g].history : docs'[g].history[k].name = game.state.name
  <2>1. docs[g].history \in Seq(SoundState)
    BY <1>1 DEF SoundDoc
  <2>2. \A k \in DOMAIN docs[g].history : docs[g].history[k].name = game.state.name
    BY DEF OwnNames, Saves
  <2>3. game.state \in SoundState
    BY DEF SoundGame
  <2>4. \A k \in DOMAIN Append(docs[g].history, game.state) :
           Append(docs[g].history, game.state)[k].name = game.state.name
    BY <2>1, <2>2, <2>3
  <2> QED BY <1>6, <2>2, <2>4
<1>8. OwnNames'
  BY <1>1, <1>2, <1>3, <1>7, SoundIsTyped DEF OwnNames, Saves
<1> QED BY <1>5, <1>8

\* Creating, taking back and deleting, with nothing failing.
LEMMA Created ==
  ASSUME Reliable, Typed, NEW s \in SessionIds, NEW n \in Names, CreateGame(s, n)
  PROVE  \E g \in GameIds \ used, u \in Users :
            /\ ~NameTaken(n) /\ NewState(n, u) \in SoundState /\ NewState(n, u).name = n
            /\ docs' = [docs EXCEPT ![g] = [state |-> NewState(n, u), moves |-> <<>>,
                                            history |-> <<>>]]
            /\ cache' = [cache EXCEPT ![g] = [state |-> NewState(n, u), moves |-> <<>>]]
            /\ used' = used \cup {g}
<1>1. sessions[s].user \in Users /\ ~NameTaken(n)
  BY DEF CreateGame, Present, Typed, Session, Reliable
<1> DEFINE u == sessions[s].user
           st == NewState(n, u)
<1>2. st \in SoundState /\ st.name = n
  BY <1>1, NewStateSound
<1> HIDE DEF st
<1>3. PICK g \in GameIds \ used, done \in Reached(3, {1, 3}) :
         /\ docs' = [docs EXCEPT ![g] = [state |-> st, moves |-> <<>>, history |-> <<>>]]
         /\ used' = used \cup {g}
         /\ cache' = IF done >= 2 THEN [cache EXCEPT ![g] = [state |-> st, moves |-> <<>>]]
                     ELSE cache
  BY DEF CreateGame, st
<1>4. done = 3
  BY <1>3, AllReached
<1>5. cache' = [cache EXCEPT ![g] = [state |-> st, moves |-> <<>>]]
  BY <1>3, <1>4
<1> QED BY <1>1, <1>2, <1>3, <1>5 DEF st

LEMMA Undone ==
  ASSUME Reliable, Typed, NEW s \in SessionIds, NEW g \in GameIds, Undo(s, g)
  PROVE  /\ docs[g] # None /\ docs[g] \in SoundDoc /\ Len(docs[g].history) >= 2
         /\ docs[g].state.turn = sessions[s].user /\ sessions[s].user \in Users
         /\ Previous(docs[g]).turn = sessions[s].user
         /\ docs' = [docs EXCEPT ![g] = [state |-> Previous(docs[g]),
                        moves |-> Pop(docs[g].moves), history |-> Pop(docs[g].history)]]
         /\ cache' = [cache EXCEPT ![g] = None] /\ used' = used
<1>1. Reached(2, {1}) = {2}
  BY AllReached
<1>2. docs[g] \in SoundDoc /\ sessions[s].user \in Users
  BY DEF Undo, Present, Typed, Session
<1> QED BY <1>1, <1>2 DEF Undo, Evict

LEMMA Deleted ==
  ASSUME Reliable, NEW s \in SessionIds, NEW g \in GameIds, DeleteGame(s, g)
  PROVE  /\ docs' = [docs EXCEPT ![g] = None] /\ cache' = [cache EXCEPT ![g] = None]
         /\ used' = used
<1>1. Reached(3, {1, 2}) = {3}
  BY AllReached
<1> QED BY <1>1 DEF DeleteGame, Evict

\* The requests that leave the documents alone may only drop games from the
\* cache, or load them.
LEMMA Kept ==
  ASSUME Typed, Coherent,
         \/ Restart
         \/ \E s \in SessionIds : Retire(s) \/ \E u \in Users : Login(s, u)
         \/ \E s \in SessionIds, g \in GameIds : Load(s, g)
  PROVE  /\ docs' = docs /\ used' = used
         /\ \A h \in GameIds : cache'[h] # None =>
               docs[h] # None /\ cache'[h] = [state |-> docs[h].state,
                                              moves |-> docs[h].moves]
<1>1. CASE Restart
  BY <1>1 DEF Restart
<1>2. CASE \E s \in SessionIds : Retire(s) \/ \E u \in Users : Login(s, u)
  BY <1>2 DEF Retire, Login, Coherent, Held
<1>3. ASSUME NEW s \in SessionIds, NEW g \in GameIds, Load(s, g)
      PROVE  /\ docs' = docs /\ used' = used
             /\ \A h \in GameIds : cache'[h] # None =>
                   docs[h] # None /\ cache'[h] = [state |-> docs[h].state,
                                                  moves |-> docs[h].moves]
  BY <1>3 DEF Load, Found, Coherent, Held, Typed
<1> QED BY <1>1, <1>2, <1>3

LEMMA NextCoherent ==
  ASSUME Reliable, Typed, Coherent, OwnNames, Next
  PROVE  Coherent' /\ OwnNames'
<1>1. ASSUME \/ Restart
             \/ \E s \in SessionIds : Retire(s) \/ \E u \in Users : Login(s, u)
             \/ \E s \in SessionIds, g \in GameIds : Load(s, g)
      PROVE  Coherent' /\ OwnNames'
  BY <1>1, Kept DEF Coherent, Held, OwnNames
<1>2. ASSUME NEW s \in SessionIds, NEW n \in Names, CreateGame(s, n)
      PROVE  Coherent' /\ OwnNames'
  <2>1. PICK g \in GameIds \ used, u \in Users :
            /\ ~NameTaken(n) /\ NewState(n, u) \in SoundState /\ NewState(n, u).name = n
            /\ docs' = [docs EXCEPT ![g] = [state |-> NewState(n, u), moves |-> <<>>,
                                            history |-> <<>>]]
            /\ cache' = [cache EXCEPT ![g] = [state |-> NewState(n, u), moves |-> <<>>]]
    BY <1>2, Created
  <2>2. [state |-> NewState(n, u), moves |-> <<>>, history |-> <<>>] \in SoundDoc
    BY <2>1 DEF SoundDoc
  <2>3. /\ docs'[g] # None /\ docs'[g].state = NewState(n, u) /\ docs'[g].moves = <<>>
        /\ cache'[g] = [state |-> NewState(n, u), moves |-> <<>>]
        /\ docs'[g].history = <<>>
    BY <2>1, <2>2, SoundIsTyped DEF Typed
  <2>4. \A h \in GameIds : h # g => docs'[h] = docs[h] /\ cache'[h] = cache[h]
    BY <2>1 DEF Typed
  <2>5. Coherent'
    BY <2>3, <2>4 DEF Coherent, Held
  <2>6. \A h \in GameIds : docs[h] # None => docs[h].state.name # n
    BY <2>1 DEF NameTaken
  <2>7. OwnNames'
    BY <2>1, <2>3, <2>4, <2>6 DEF OwnNames
  <2> QED BY <2>5, <2>7
<1>3. ASSUME NEW s \in SessionIds, NEW g \in GameIds,
             JoinGame(s, g) \/ StartGame(s, g) \/ MakeTurn(s, g) \/ OrganizeHand(s, g)
      PROVE  Coherent' /\ OwnNames'
  <2>1. \E game \in SoundGame, push \in BOOLEAN : Saves(g, game, push)
    BY <1>3, JoinSaved, StartSaved, MoveSaved, OrganizeSaved
  <2> QED BY <2>1, SavesCoherent
<1>4. ASSUME NEW s \in SessionIds, NEW g \in GameIds, Undo(s, g)
      PROVE  Coherent' /\ OwnNames'
  <2> DEFINE doc == [state |-> Previous(docs[g]), moves |-> Pop(docs[g].moves),
                     history |-> Pop(docs[g].history)]
  <2>1. /\ docs' = [docs EXCEPT ![g] = doc] /\ cache' = [cache EXCEPT ![g] = None]
        /\ docs[g] # None
    BY <1>4, Undone
  <2>2. \A h \in GameIds : h # g => docs'[h] = docs[h] /\ cache'[h] = cache[h]
    BY <2>1 DEF Typed
  <2>3. cache'[g] = None
    BY <2>1 DEF Typed
  <2>4. Coherent'
    BY <2>2, <2>3 DEF Coherent, Held
  <2>5. docs[g] \in SoundDoc /\ docs'[g] = doc /\ docs[g].history \in Seq(SoundState)
    BY <1>4, <2>1, Undone DEF Typed, SoundDoc
  <2>6. Len(docs[g].history) >= 2
    BY <1>4, Undone
  <2>7. Previous(docs[g]).name = docs[g].state.name
    BY <2>1, <2>5, <2>6 DEF OwnNames, Previous
  <2>8. \A k \in DOMAIN Pop(docs[g].history) :
           /\ k \in DOMAIN docs[g].history
           /\ Pop(docs[g].history)[k] = docs[g].history[k]
    BY <2>5, <2>6, PopKeeps
  <2>9. OwnNames'
    BY <2>1, <2>2, <2>5, <2>7, <2>8 DEF OwnNames
  <2> QED BY <2>4, <2>9
<1>5. ASSUME NEW s \in SessionIds, NEW g \in GameIds, DeleteGame(s, g)
      PROVE  Coherent' /\ OwnNames'
  BY <1>5, Deleted DEF Coherent, Held, OwnNames, Typed
<1> QED BY <1>1, <1>2, <1>3, <1>4, <1>5 DEF Next
\* While the database answers and every game has its own name, the cached game
\* and its document agree after every request: a restart loses nothing.
THEOREM CacheIsCoherent ==
  ASSUME Reliable
  PROVE  Spec => []Coherent
<1>1. Init => Coherent /\ OwnNames
  BY DEF Init, Coherent, OwnNames
<1>2. Typed /\ Coherent /\ OwnNames /\ [Next]_vars => Coherent' /\ OwnNames'
  <2>1. CASE UNCHANGED vars
    BY <2>1 DEF vars, Coherent, Held, OwnNames
  <2> QED BY <2>1, NextCoherent
<1> QED BY <1>1, <1>2, AlwaysTyped, PTL DEF Spec
-----------------------------------------------------------------------------
(* The server implements the abstract store. *)

LEMMA StoreIsDocs ==
  ASSUME Typed, Coherent
  PROVE  Store = docs
<1>1. ASSUME NEW g \in GameIds
      PROVE  (IF ~Found(g) THEN None
              ELSE [state |-> Held(g).state, moves |-> Held(g).moves,
                    history |-> IF docs[g] = None THEN <<>> ELSE docs[g].history])
             = docs[g]
  <2>1. CASE ~Found(g)
    BY <2>1 DEF Found
  <2>2. CASE Found(g)
    <3>1. /\ docs[g] # None /\ docs[g] \in SoundDoc
          /\ Held(g).state = docs[g].state /\ Held(g).moves = docs[g].moves
      BY <2>2, HeldIsSaved
    <3> QED BY <2>2, <3>1 DEF SoundDoc
  <2> QED BY <2>1, <2>2
<1>2. docs = [g \in GameIds |-> docs[g]]
  BY DEF Typed
<1> QED BY <1>1, <1>2 DEF Store

LEMMA SameOperators ==
  /\ \A n, u : GS!NewState(n, u) = NewState(n, u)
  /\ \A st, u : GS!CanJoin(st, u) = CanJoin(st, u) /\ GS!AddPlayer(st, u) = AddPlayer(st, u)
  /\ \A st : GS!Start(st) = Start(st) /\ GS!MayOrganize(st) = MayOrganize(st)
  /\ \A st, u : GS!MayMove(st, u) = MayMove(st, u) /\ GS!Organized(st, u) = Organized(st, u)
  /\ \A st, m : GS!Outcomes(st, m) = Outcomes(st, m)
  /\ GS!Move = Move /\ \A seq : GS!Front(seq) = Front(seq)
  BY DEF GS!NewState, NewState, GS!CanJoin, CanJoin, GS!AddPlayer, AddPlayer, GS!Start,
         Start, GS!MayOrganize, MayOrganize, GS!MayMove, MayMove, GS!Organized, Organized,
         GS!Seated, Seated, GS!Outcomes, Outcomes, GS!NextControl, NextControl,
         GS!NextPlayer, NextPlayer, GS!Move, Move, GS!Front, Front

\* A save that changes the state alone is a change of the store.
LEMMA SaveIsChange ==
  ASSUME Typed, NEW g \in GameIds, NEW st, NEW game \in SoundGame,
         game = [state |-> st, moves |-> docs[g].moves], Saves(g, game, FALSE),
         Store = docs, Store' = docs', used' = used
  PROVE  GS!SChange(g, st)
<1>1. docs[g] \in SoundDoc
  BY DEF Saves, Typed
<1>2. docs' = [docs EXCEPT ![g] = [state |-> st, moves |-> docs[g].moves,
                                   history |-> docs[g].history]]
  BY DEF Saves, Saved
<1>3. [docs[g] EXCEPT !.state = st] = [state |-> st, moves |-> docs[g].moves,
                                       history |-> docs[g].history]
  BY <1>1 DEF SoundDoc
<1> QED BY <1>2, <1>3 DEF GS!SChange

LEMMA NextImplements ==
  ASSUME Reliable, Typed, Coherent, OwnNames, Next, Store = docs, Store' = docs'
  PROVE  GS!SNext \/ UNCHANGED GS!svars
<1>1. ASSUME \/ Restart
             \/ \E s \in SessionIds : Retire(s) \/ \E u \in Users : Login(s, u)
             \/ \E s \in SessionIds, g \in GameIds : Load(s, g)
      PROVE  UNCHANGED GS!svars
  BY <1>1, Kept DEF GS!svars
<1>2. ASSUME NEW s \in SessionIds, NEW n \in Names, CreateGame(s, n)
      PROVE  GS!SNext
  <2>1. PICK g \in GameIds \ used, u \in Users : GS!SCreate(g, n, u)
    BY <1>2, Created, SameOperators DEF GS!SCreate
  <2> QED BY <2>1 DEF GS!SNext
<1>3. ASSUME NEW s \in SessionIds, NEW g \in GameIds, JoinGame(s, g)
      PROVE  GS!SNext
  <2>1. sessions[s].user \in Users
    BY <1>3 DEF JoinGame, Present, Typed, Session
  <2>2. GS!SJoin(g, sessions[s].user)
    BY <1>3, JoinSaved, SaveIsChange, SameOperators DEF GS!SJoin, Saves
  <2> QED BY <2>1, <2>2 DEF GS!SNext
<1>4. ASSUME NEW s \in SessionIds, NEW g \in GameIds, StartGame(s, g)
      PROVE  GS!SNext
  <2>1. GS!SStart(g)
    BY <1>4, StartSaved, SaveIsChange, SameOperators DEF GS!SStart, Saves
  <2> QED BY <2>1 DEF GS!SNext
<1>5. ASSUME NEW s \in SessionIds, NEW g \in GameIds, OrganizeHand(s, g)
      PROVE  GS!SNext
  <2>1. sessions[s].user \in Users
    BY <1>5 DEF OrganizeHand, Present, Typed, Session
  <2>2. GS!SOrganize(g, sessions[s].user)
    BY <1>5, OrganizeSaved, SaveIsChange, SameOperators DEF GS!SOrganize, Saves
  <2> QED BY <2>1, <2>2 DEF GS!SNext
<1>6. ASSUME NEW s \in SessionIds, NEW g \in GameIds, MakeTurn(s, g)
      PROVE  GS!SNext
  <2>1. PICK m \in Move : \E st \in Outcomes(docs[g].state, m) : \E game \in SoundGame :
            /\ MayMove(docs[g].state, m.user)
            /\ game = [state |-> st, moves |-> Append(docs[g].moves, m)]
            /\ Saves(g, game, TRUE) /\ used' = used
    BY <1>6, MoveSaved
  <2>2. PICK st \in Outcomes(docs[g].state, m), game \in SoundGame :
            /\ MayMove(docs[g].state, m.user)
            /\ game = [state |-> st, moves |-> Append(docs[g].moves, m)]
            /\ Saves(g, game, TRUE) /\ used' = used
    BY <2>1
  <2>3. game.state = st /\ game.moves = Append(docs[g].moves, m)
    BY <2>2
  <2>4. /\ docs[g] # None
        /\ docs' = [docs EXCEPT ![g] = [state |-> st, moves |-> Append(docs[g].moves, m),
                                        history |-> Append(docs[g].history, st)]]
    BY <2>2, <2>3 DEF Saves, Saved
  <2>5. GS!SMove(g, m)
    BY <2>2, <2>4, SameOperators DEF GS!SMove
  <2> QED BY <2>5, SameOperators DEF GS!SNext
<1>7. ASSUME NEW s \in SessionIds, NEW g \in GameIds, Undo(s, g)
      PROVE  GS!SNext
  <2> DEFINE doc == docs[g]
             u == sessions[s].user
  <2>1. /\ doc # None /\ doc \in SoundDoc /\ Len(doc.history) >= 2
        /\ doc.state.turn = u /\ u \in Users /\ Previous(doc).turn = u
        /\ docs' = [docs EXCEPT ![g] = [state |-> Previous(doc), moves |-> Pop(doc.moves),
                                         history |-> Pop(doc.history)]]
        /\ used' = used
    BY <1>7, Undone
  <2>2. doc.history \in Seq(SoundState) /\ doc.moves \in Seq(Move) /\ doc.history # <<>>
    BY <2>1 DEF SoundDoc
  <2>3. Pop(doc.history) = Front(doc.history)
    BY <2>2 DEF Pop
  <2>4. Pop(doc.moves) = Front(doc.moves)
    BY <2>2 DEF Pop, Front
  <2>5. GS!STakeBack(g, u)
    BY <2>1, <2>3, <2>4, SameOperators DEF GS!STakeBack, Previous
  <2> QED BY <2>1, <2>5 DEF GS!SNext
<1>8. ASSUME NEW s \in SessionIds, NEW g \in GameIds, DeleteGame(s, g)
      PROVE  GS!SNext
  <2>1. GS!SDelete(g)
    BY <1>8, Deleted DEF GS!SDelete
  <2> QED BY <2>1 DEF GS!SNext
<1> QED BY <1>1, <1>2, <1>3, <1>4, <1>5, <1>6, <1>7, <1>8 DEF Next

\* While the database answers and every game has its own name, the games that
\* requests show are those of the abstract store: sessions, cache and restarts
\* cannot be told, and an undo takes back one move.
THEOREM ServerImplementsStore ==
  ASSUME Reliable
  PROVE  Spec => ImplementsGameStore
<1>1. Init => Typed /\ Coherent /\ OwnNames
  BY DEF Init, Typed, Coherent, OwnNames
<1>2. Typed /\ Coherent /\ OwnNames /\ [Next]_vars => (Typed /\ Coherent /\ OwnNames)'
  <2>1. CASE UNCHANGED vars
    BY <2>1 DEF vars, Typed, Coherent, Held, OwnNames
  <2> QED BY <2>1, NextTyped, NextCoherent
<1>3. Init => GS!SInit
  <2>1. ASSUME Init
        PROVE  Store = docs
    BY <1>1, <2>1, StoreIsDocs
  <2> QED BY <2>1 DEF Init, GS!SInit
<1>4. Typed /\ Coherent /\ OwnNames /\ (Typed /\ Coherent /\ OwnNames)' /\ [Next]_vars
        => [GS!SNext]_GS!svars
  <2>0. Typed /\ Coherent => Store = docs
    BY StoreIsDocs
  <2>1. (Typed /\ Coherent)' => (Store = docs)'
    BY <2>0, PTL
  <2> SUFFICES ASSUME Typed, Coherent, OwnNames, Typed', Coherent', [Next]_vars
               PROVE  [GS!SNext]_GS!svars
    OBVIOUS
  <2>2. Store = docs /\ Store' = docs'
    BY <2>0, <2>1
  <2>3. CASE UNCHANGED vars
    BY <2>2, <2>3 DEF vars, GS!svars
  <2>4. CASE Next
    BY <2>2, <2>4, NextImplements
  <2> QED BY <2>3, <2>4
<1> QED BY <1>1, <1>2, <1>3, <1>4, PTL DEF Spec, ImplementsGameStore, GS!SSpec
-----------------------------------------------------------------------------
(* The history of a document follows its moves. *)

Recorded(doc) ==
    /\ doc.state.board = doc.moves
    /\ Len(doc.history) = Len(doc.moves)
    /\ \A k \in DOMAIN doc.history : doc.history[k].board = SubSeq(doc.moves, 1, k)

LEMMA PrefixOfLonger ==
  ASSUME NEW S, NEW seq \in Seq(S), NEW e \in S
  PROVE  /\ \A k \in 1 .. Len(seq) : SubSeq(Append(seq, e), 1, k) = SubSeq(seq, 1, k)
         /\ SubSeq(Append(seq, e), 1, Len(seq) + 1) = Append(seq, e)
  OBVIOUS

LEMMA RecordedMove ==
  ASSUME NEW doc \in SoundDoc, Recorded(doc), NEW m \in Move, NEW st \in SoundState,
         st.board = Append(doc.state.board, m)
  PROVE  Recorded([state |-> st, moves |-> Append(doc.moves, m),
                   history |-> Append(doc.history, st)])
<1>1. doc.moves \in Seq(Move) /\ doc.history \in Seq(SoundState)
  BY DEF SoundDoc
<1>2. /\ Len(Append(doc.history, st)) = Len(Append(doc.moves, m))
      /\ DOMAIN Append(doc.history, st) = 1 .. Len(doc.moves) + 1
  BY <1>1 DEF Recorded
<1>3. ASSUME NEW k \in 1 .. Len(doc.moves) + 1
      PROVE  Append(doc.history, st)[k].board = SubSeq(Append(doc.moves, m), 1, k)
  <2>1. CASE k = Len(doc.moves) + 1
    <3>1. Len(doc.history) = Len(doc.moves) /\ st.board = Append(doc.moves, m)
      BY DEF Recorded
    <3>2. Append(doc.history, st)[k] = st
      BY <1>1, <2>1, <3>1
    <3>3. SubSeq(Append(doc.moves, m), 1, k) = Append(doc.moves, m)
      BY <1>1, <2>1, PrefixOfLonger
    <3> QED BY <3>1, <3>2, <3>3
  <2>2. CASE k \in 1 .. Len(doc.moves)
    <3>0. Len(doc.history) = Len(doc.moves)
      BY DEF Recorded
    <3>1. Append(doc.history, st)[k] = doc.history[k] /\ k \in DOMAIN doc.history
      BY <1>1, <2>2, <3>0
    <3>2. doc.history[k].board = SubSeq(doc.moves, 1, k)
      BY <3>1 DEF Recorded
    <3>3. SubSeq(Append(doc.moves, m), 1, k) = SubSeq(doc.moves, 1, k)
      BY <1>1, <2>2, PrefixOfLonger
    <3> QED BY <3>1, <3>2, <3>3
  <2>3. k = Len(doc.moves) + 1 \/ k \in 1 .. Len(doc.moves)
    <3>1. Len(doc.moves) \in Nat
      BY <1>1
    <3> QED BY <3>1
  <2> QED BY <2>1, <2>2, <2>3
<1>4. st.board = Append(doc.moves, m)
  BY DEF Recorded
<1> QED BY <1>2, <1>3, <1>4 DEF Recorded

LEMMA RecordedUndo ==
  ASSUME NEW doc \in SoundDoc, Recorded(doc), Len(doc.history) >= 2
  PROVE  Recorded([state |-> Previous(doc), moves |-> Pop(doc.moves),
                   history |-> Pop(doc.history)])
<1>1. doc.moves \in Seq(Move) /\ doc.history \in Seq(SoundState)
  BY DEF SoundDoc
<1>2. doc.moves # <<>> /\ doc.history # <<>>
  BY <1>1 DEF Recorded
<1>3. /\ Len(Pop(doc.moves)) = Len(doc.moves) - 1
      /\ Len(Pop(doc.history)) = Len(doc.history) - 1
      /\ Pop(doc.moves) = SubSeq(doc.moves, 1, Len(doc.moves) - 1)
      /\ \A k \in DOMAIN Pop(doc.history) :
            k \in DOMAIN doc.history /\ Pop(doc.history)[k] = doc.history[k]
  BY <1>1, <1>2, PopKeeps DEF Front
<1>4. Previous(doc).board = Pop(doc.moves)
  <2>1. /\ Len(doc.history) = Len(doc.moves) /\ Len(doc.history) - 1 \in DOMAIN doc.history
        /\ \A k \in DOMAIN doc.history : doc.history[k].board = SubSeq(doc.moves, 1, k)
    BY <1>1 DEF Recorded
  <2> QED BY <1>3, <2>1 DEF Previous
<1>5. ASSUME NEW k \in DOMAIN Pop(doc.history)
      PROVE  Pop(doc.history)[k].board = SubSeq(Pop(doc.moves), 1, k)
  <2>1. Pop(doc.history)[k].board = SubSeq(doc.moves, 1, k)
    BY <1>3, <1>5 DEF Recorded
  <2>2. k \in 1 .. Len(doc.moves) - 1
    <3>1. Pop(doc.history) \in Seq(SoundState)
      BY <1>1, <1>2, PopKeeps
    <3> QED BY <1>1, <1>3, <1>5, <3>1 DEF Recorded
  <2>3. SubSeq(SubSeq(doc.moves, 1, Len(doc.moves) - 1), 1, k) = SubSeq(doc.moves, 1, k)
    BY <1>1, <2>2
  <2> QED BY <1>3, <2>1, <2>3
<1> QED BY <1>3, <1>4, <1>5 DEF Recorded

\* While the database answers and every game has its own name, the history has
\* the state that followed each move, and the saved state is the one after the
\* last: what undo reads is the game as it was before the move it takes back.
THEOREM HistoryFollowsMoves ==
  ASSUME Reliable
  PROVE  Spec => []HistoryComplete
<1> DEFINE Inv == \A g \in GameIds : docs[g] # None => Recorded(docs[g])
<1>1. Init => Inv
  BY DEF Init
<1>2. ASSUME Typed, Coherent, OwnNames, Inv, Next
      PROVE  Inv'
  <2>1. ASSUME \/ Restart
               \/ \E s \in SessionIds : Retire(s) \/ \E u \in Users : Login(s, u)
               \/ \E s \in SessionIds, g \in GameIds : Load(s, g)
        PROVE  Inv'
    BY <1>2, <2>1, Kept
  <2>2. ASSUME NEW s \in SessionIds, NEW n \in Names, CreateGame(s, n)
        PROVE  Inv'
    <3>1. PICK g \in GameIds, u \in Users :
             docs' = [docs EXCEPT ![g] = [state |-> NewState(n, u), moves |-> <<>>,
                                          history |-> <<>>]]
      BY <1>2, <2>2, Created
    <3>2. Recorded([state |-> NewState(n, u), moves |-> <<>>, history |-> <<>>])
      BY NewStateSound DEF Recorded
    <3> QED BY <1>2, <3>1, <3>2 DEF Typed
  <2>3. ASSUME NEW s \in SessionIds, NEW g \in GameIds,
               JoinGame(s, g) \/ StartGame(s, g) \/ OrganizeHand(s, g)
        PROVE  Inv'
    <3>1. sessions[s].user \in Users
      BY <1>2, <2>3 DEF JoinGame, StartGame, OrganizeHand, Present, Typed, Session
    <3>2. ASSUME docs[g] # None
          PROVE  docs[g].state \in SoundState
      BY <1>2, <3>2 DEF Typed, SoundDoc
    <3>3. PICK game \in SoundGame :
            /\ Saves(g, game, FALSE) /\ game.moves = docs[g].moves
            /\ game.state.board = docs[g].state.board
      <4>1. CASE JoinGame(s, g)
        <5>1. PICK game \in SoundGame :
                /\ game = [state |-> AddPlayer(docs[g].state, sessions[s].user),
                           moves |-> docs[g].moves]
                /\ Saves(g, game, FALSE)
          BY <1>2, <4>1, JoinSaved
        <5>2. docs[g] # None
          BY <5>1 DEF Saves
        <5>3. game.state.board = docs[g].state.board /\ game.moves = docs[g].moves
          BY <3>1, <3>2, <5>1, <5>2, AddPlayerSound
        <5> QED BY <5>1, <5>3
      <4>2. CASE StartGame(s, g)
        <5>1. PICK game \in SoundGame :
                /\ game = [state |-> Start(docs[g].state), moves |-> docs[g].moves]
                /\ Saves(g, game, FALSE)
          BY <1>2, <4>2, StartSaved
        <5>2. docs[g] # None
          BY <5>1 DEF Saves
        <5>3. game.state.board = docs[g].state.board /\ game.moves = docs[g].moves
          BY <3>2, <5>1, <5>2, StartSound
        <5> QED BY <5>1, <5>3
      <4>3. CASE OrganizeHand(s, g)
        <5>1. PICK st \in Organized(docs[g].state, sessions[s].user), game \in SoundGame :
                game = [state |-> st, moves |-> docs[g].moves] /\ Saves(g, game, FALSE)
          BY <1>2, <4>3, OrganizeSaved
        <5>2. docs[g] # None
          BY <5>1 DEF Saves
        <5>3. st.board = docs[g].state.board
          BY <3>1, <3>2, <5>1, <5>2, OrganizedSound
        <5> QED BY <5>1, <5>3
      <4> QED BY <2>3, <4>1, <4>2, <4>3
    <3>4. /\ docs[g] # None
          /\ docs' = [docs EXCEPT ![g] = [state |-> game.state, moves |-> docs[g].moves,
                                          history |-> docs[g].history]]
      BY <3>3 DEF Saves, Saved
    <3>5. Recorded([state |-> game.state, moves |-> docs[g].moves, history |-> docs[g].history])
      BY <1>2, <3>3, <3>4 DEF Recorded
    <3> QED BY <1>2, <3>4, <3>5 DEF Typed
  <2>4. ASSUME NEW s \in SessionIds, NEW g \in GameIds, MakeTurn(s, g)
        PROVE  Inv'
    <3>1. PICK m \in Move : \E st \in Outcomes(docs[g].state, m) : \E game \in SoundGame :
            /\ game = [state |-> st, moves |-> Append(docs[g].moves, m)]
            /\ Saves(g, game, TRUE)
      BY <1>2, <2>4, MoveSaved
    <3>2. PICK st \in Outcomes(docs[g].state, m), game \in SoundGame :
            /\ game = [state |-> st, moves |-> Append(docs[g].moves, m)]
            /\ Saves(g, game, TRUE)
      BY <3>1
    <3>3. docs[g] # None /\ docs[g] \in SoundDoc /\ docs[g].state \in SoundState
      BY <1>2, <3>2 DEF Saves, Typed, SoundDoc
    <3>4. st \in SoundState /\ st.board = Append(docs[g].state.board, m)
      BY <3>3, OutcomeSound
    <3>5. docs' = [docs EXCEPT ![g] = [state |-> st, moves |-> Append(docs[g].moves, m),
                                       history |-> Append(docs[g].history, st)]]
      BY <3>2 DEF Saves, Saved
    <3>6. Recorded([state |-> st, moves |-> Append(docs[g].moves, m),
                    history |-> Append(docs[g].history, st)])
      BY <1>2, <3>3, <3>4, RecordedMove
    <3> QED BY <1>2, <3>5, <3>6 DEF Typed
  <2>5. ASSUME NEW s \in SessionIds, NEW g \in GameIds, Undo(s, g)
        PROVE  Inv'
    BY <1>2, <2>5, Undone, RecordedUndo DEF Typed
  <2>6. ASSUME NEW s \in SessionIds, NEW g \in GameIds, DeleteGame(s, g)
        PROVE  Inv'
    BY <1>2, <2>6, Deleted DEF Typed
  <2> QED BY <1>2, <2>1, <2>2, <2>3, <2>4, <2>5, <2>6 DEF Next
<1>3. Inv => HistoryComplete
  BY DEF HistoryComplete, Existing, Recorded
<1>4. Typed /\ Coherent /\ OwnNames /\ Inv /\ [Next]_vars => (Coherent /\ OwnNames /\ Inv)'
  <2>1. CASE UNCHANGED vars
    BY <2>1 DEF vars, Coherent, Held, OwnNames
  <2> QED BY <1>2, <2>1, NextCoherent
<1>5. Init => Coherent /\ OwnNames
  BY DEF Init, Coherent, OwnNames
<1> QED BY <1>1, <1>3, <1>4, <1>5, AlwaysTyped, PTL DEF Spec
=============================================================================
