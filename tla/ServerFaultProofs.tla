------------------------- MODULE ServerFaultProofs -------------------------
(***************************************************************************)
(* What the server keeps whatever writes fail.  A request that fails half  *)
(* way leaves the cached game and its document apart, so Coherent is of no *)
(* use here; what is left is an order: the states of the history, the      *)
(* saved state and the cached state of a game are ever later positions of  *)
(* it (Forward).  The order needs that a save writes the document of its   *)
(* own game, hence names of their own, cached games included               *)
(* (EachItsName).  The lists of games of the users come last: that they    *)
(* name no deleted game needs only that no write is made without being     *)
(* answered, that they are right needs a database that does not fail.      *)
(***************************************************************************)
EXTENDS GameServerProofs

\* The names by which a request or a save can find a game.
GivenNames(g) ==
    {n \in Names : \/ docs[g] # None /\ docs[g].state.name = n
                   \/ cache[g] # None /\ cache[g].state.name = n}

\* No two games share a name, a game has one name in memory, in its document and
\* in its history, and an id is new until it is given.
EachItsName ==
    /\ \A g, h \in GameIds : g # h => GivenNames(g) \cap GivenNames(h) = {}
    /\ \A g \in GameIds : cache[g] # None /\ docs[g] # None =>
          cache[g].state.name = docs[g].state.name
    /\ \A g \in GameIds : docs[g] # None =>
          \A k \in DOMAIN docs[g].history : docs[g].history[k].name = docs[g].state.name
    /\ \A g \in GameIds \ used : docs[g] = None /\ cache[g] = None
-----------------------------------------------------------------------------
(* What one request can do to the games, whatever step of it fails. *)

Elsewhere(g) == \A h \in GameIds \ {g} : docs'[h] = docs[h] /\ cache'[h] = cache[h]

\* Games leave the cache.
Forgets ==
    /\ docs' = docs /\ used' = used
    /\ \A h \in GameIds : cache'[h] \in {cache[h], None}

Creates(g) ==
    /\ Elsewhere(g) /\ g \notin used /\ used' = used \cup {g}
    /\ \E n \in Names, u \in Users :
          /\ ~NameTaken(n)
          /\ docs'[g] = [state |-> NewState(n, u), moves |-> <<>>, history |-> <<>>]
          /\ cache'[g] \in {cache[g], [state |-> NewState(n, u), moves |-> <<>>]}

Loads(g) ==
    /\ Elsewhere(g) /\ used' = used /\ Found(g)
    /\ docs'[g] = docs[g] /\ cache'[g] = Held(g)

\* What is written when the game is saved; nothing if its document is gone.
Rewritten(g, game, push) ==
    IF docs[g] = None THEN None
    ELSE [state |-> game.state, moves |-> game.moves,
          history |-> IF push THEN Append(docs[g].history, game.state) ELSE docs[g].history]

\* The held game becomes "game"; only a move is pushed to the history.
Changes(g, game) ==
    /\ Elsewhere(g) /\ used' = used /\ Found(g)
    /\ game \in SoundGame /\ game.state.name = Held(g).state.name
    /\ cache'[g] = game
    /\ \/ /\ game.state.board = Held(g).state.board /\ game.moves = Held(g).moves
          /\ docs'[g] \in {docs[g], Rewritten(g, game, FALSE)}
       \/ /\ \E m \in Move : /\ game.state.board = Append(Held(g).state.board, m)
                             /\ game.moves = Append(Held(g).moves, m)
          /\ docs'[g] \in {docs[g], Rewritten(g, game, TRUE)}

TakesBack(g) ==
    /\ Elsewhere(g) /\ used' = used
    /\ docs[g] # None /\ Len(docs[g].history) >= 2
    /\ docs'[g] = [state |-> Previous(docs[g]), moves |-> Pop(docs[g].moves),
                   history |-> Pop(docs[g].history)]
    /\ cache'[g] \in {cache[g], None}

Deletes(g) ==
    /\ Elsewhere(g) /\ used' = used
    /\ docs'[g] \in {docs[g], None} /\ cache'[g] \in {cache[g], None}

\* The name of a held game is one of its given names, and no other document
\* has it.
LEMMA HeldName ==
  ASSUME Typed, EachItsName, NEW g \in GameIds, Found(g)
  PROVE  /\ Held(g) \in SoundGame /\ Held(g).state.name \in Names
         /\ docs[g] # None => docs[g].state.name = Held(g).state.name
         /\ \A h \in GameIds \ {g} : docs[h] # None => docs[h].state.name # Held(g).state.name
<1>1. Held(g) \in SoundGame /\ Held(g).state.name \in Names
  BY HeldSound DEF SoundGame, SoundState, GameState
<1>2. docs[g] # None => docs[g].state.name = Held(g).state.name
  BY DEF EachItsName, Held
<1>3. Held(g).state.name \in GivenNames(g)
  BY <1>1 DEF GivenNames, Held, Found
<1>4. ASSUME NEW h \in GameIds \ {g}, docs[h] # None, docs[h].state.name = Held(g).state.name
      PROVE  FALSE
  <2>1. Held(g).state.name \in GivenNames(h)
    BY <1>1, <1>4 DEF GivenNames
  <2> QED BY <1>3, <1>4, <2>1 DEF EachItsName
<1> QED BY <1>1, <1>2, <1>4

\* dumpGame writes the document of the held game, if it is there, and no other.
LEMMA DumpOne ==
  ASSUME Typed, EachItsName, NEW g \in GameIds, Found(g), NEW game,
         game.state.name = Held(g).state.name, NEW push \in BOOLEAN
  PROVE  /\ Dump(game, push)[g] = Rewritten(g, game, push)
         /\ \A h \in GameIds \ {g} : Dump(game, push)[h] = docs[h]
  BY HeldName DEF Dump, Rewritten

\* A request that saves changes the held game, whether the save is made or not.
LEMMA SaveChanges ==
  ASSUME Typed, EachItsName, NEW g \in GameIds, Found(g), NEW game \in SoundGame,
         game.state.name = Held(g).state.name, NEW push \in BOOLEAN,
         cache' = [cache EXCEPT ![g] = game], docs' = docs \/ docs' = Dump(game, push),
         used' = used
  PROVE  /\ Elsewhere(g) /\ used' = used /\ cache'[g] = game
         /\ docs'[g] \in {docs[g], Rewritten(g, game, push)}
<1>1. cache'[g] = game /\ \A h \in GameIds \ {g} : cache'[h] = cache[h]
  BY DEF Typed
<1> QED BY <1>1, DumpOne DEF Elsewhere

\* Every request is one of these, whatever fails: one step per action.
LEMMA RequestsAre ==
  ASSUME Typed, EachItsName, UniqueNames, Next
  PROVE  \/ Forgets
         \/ \E g \in GameIds : \/ Creates(g) \/ Loads(g) \/ TakesBack(g) \/ Deletes(g)
                               \/ \E game \in SoundGame : Changes(g, game)
<1>1. CASE Restart
  BY <1>1 DEF Restart, Forgets
<1>2. CASE \E s \in SessionIds : Retire(s) \/ \E u \in Users : Login(s, u)
  BY <1>2 DEF Retire, Login, Forgets
<1>3. ASSUME NEW s \in SessionIds, NEW n \in Names, CreateGame(s, n)
      PROVE  \E g \in GameIds : Creates(g)
  <2> DEFINE u == sessions[s].user
             st == NewState(n, u)
  <2>1. u \in Users /\ ~NameTaken(n)
    BY <1>3 DEF CreateGame, Present, Typed, Session
  <2> HIDE DEF st
  <2>2. PICK g \in GameIds \ used :
          /\ docs' = [docs EXCEPT ![g] = [state |-> st, moves |-> <<>>, history |-> <<>>]]
          /\ used' = used \cup {g}
          /\ cache' \in {cache, [cache EXCEPT ![g] = [state |-> st, moves |-> <<>>]]}
    BY <1>3 DEF CreateGame, st
  <2>3. /\ docs'[g] = [state |-> st, moves |-> <<>>, history |-> <<>>]
        /\ cache'[g] \in {cache[g], [state |-> st, moves |-> <<>>]}
        /\ Elsewhere(g)
    BY <2>2 DEF Typed, Elsewhere
  <2> QED BY <2>1, <2>2, <2>3 DEF Creates, st
<1>4. ASSUME NEW s \in SessionIds, NEW g \in GameIds, JoinGame(s, g)
      PROVE  \E game \in SoundGame : Changes(g, game)
  <2>1. Found(g) /\ used' = used /\ sessions[s].user \in Users
    BY <1>4 DEF JoinGame, Present, Typed, Session
  <2>2. PICK game \in SoundGame :
            /\ game = [state |-> AddPlayer(Held(g).state, sessions[s].user),
                       moves |-> Held(g).moves]
            /\ game.state.name = Held(g).state.name
            /\ cache' = [cache EXCEPT ![g] = game]
            /\ \E done \in Reached(3, {2, 3}) :
                 docs' = IF done >= 3 THEN Dump(game, FALSE) ELSE docs
    BY <1>4, JoinChanges
  <2>4. docs' = docs \/ docs' = Dump(game, FALSE)
    BY <2>2
  <2>3. game.state.board = Held(g).state.board /\ game.moves = Held(g).moves
    BY <2>1, <2>2, HeldSound, AddPlayerSound DEF SoundGame
  <2> QED BY <2>1, <2>2, <2>3, <2>4, SaveChanges DEF Changes
<1>5. ASSUME NEW s \in SessionIds, NEW g \in GameIds, StartGame(s, g)
      PROVE  \E game \in SoundGame : Changes(g, game)
  <2>1. Found(g) /\ used' = used
    BY <1>5 DEF StartGame, Save
  <2>2. PICK game \in SoundGame :
            /\ game = [state |-> Start(Held(g).state), moves |-> Held(g).moves]
            /\ game.state.name = Held(g).state.name /\ Save(g, game, FALSE)
    BY <1>5, StartSaves
  <2>3. game.state.board = Held(g).state.board /\ game.moves = Held(g).moves
    BY <2>1, <2>2, HeldSound, StartSound DEF SoundGame
  <2>4. cache' = [cache EXCEPT ![g] = game] /\ (docs' = docs \/ docs' = Dump(game, FALSE))
    BY <2>2 DEF Save
  <2> QED BY <2>1, <2>2, <2>3, <2>4, SaveChanges DEF Changes
<1>6. ASSUME NEW s \in SessionIds, NEW g \in GameIds, OrganizeHand(s, g)
      PROVE  \E game \in SoundGame : Changes(g, game)
  <2>1. Found(g) /\ used' = used /\ sessions[s].user \in Users
    BY <1>6 DEF OrganizeHand, Save, Present, Typed, Session
  <2>2. PICK st \in Organized(Held(g).state, sessions[s].user), game \in SoundGame :
            /\ game = [state |-> st, moves |-> Held(g).moves]
            /\ game.state.name = Held(g).state.name /\ Save(g, game, FALSE)
    BY <1>6, OrganizeSaves
  <2>3. game.state.board = Held(g).state.board /\ game.moves = Held(g).moves
    BY <2>1, <2>2, HeldSound, OrganizedSound DEF SoundGame
  <2>4. cache' = [cache EXCEPT ![g] = game] /\ (docs' = docs \/ docs' = Dump(game, FALSE))
    BY <2>2 DEF Save
  <2> QED BY <2>1, <2>2, <2>3, <2>4, SaveChanges DEF Changes
<1>7. ASSUME NEW s \in SessionIds, NEW g \in GameIds, MakeTurn(s, g)
      PROVE  \E game \in SoundGame : Changes(g, game)
  <2>1. Found(g) /\ used' = used
    BY <1>7 DEF MakeTurn, Save
  <2>2. PICK m \in Move : \E st \in Outcomes(Held(g).state, m) : \E game \in SoundGame :
            /\ game = [state |-> st, moves |-> Append(Held(g).moves, m)]
            /\ game.state.name = Held(g).state.name /\ Save(g, game, TRUE)
    BY <1>7, MoveSaves
  <2>3. PICK st \in Outcomes(Held(g).state, m), game \in SoundGame :
            /\ game = [state |-> st, moves |-> Append(Held(g).moves, m)]
            /\ game.state.name = Held(g).state.name /\ Save(g, game, TRUE)
    BY <2>2
  <2>4. /\ game.state.board = Append(Held(g).state.board, m)
        /\ game.moves = Append(Held(g).moves, m)
    BY <2>1, <2>3, HeldSound, OutcomeSound DEF SoundGame
  <2>5. cache' = [cache EXCEPT ![g] = game] /\ (docs' = docs \/ docs' = Dump(game, TRUE))
    BY <2>3 DEF Save
  <2> QED BY <2>1, <2>3, <2>4, <2>5, SaveChanges DEF Changes
<1>8. ASSUME NEW s \in SessionIds, NEW g \in GameIds, Undo(s, g)
      PROVE  TakesBack(g)
  BY <1>8 DEF Undo, TakesBack, Elsewhere, Evict, Typed
<1>9. ASSUME NEW s \in SessionIds, NEW g \in GameIds, DeleteGame(s, g)
      PROVE  Deletes(g)
  BY <1>9 DEF DeleteGame, Deletes, Elsewhere, Evict, Typed
<1>10. ASSUME NEW s \in SessionIds, NEW g \in GameIds, Load(s, g)
       PROVE  Loads(g)
  BY <1>10 DEF Load, Loads, Elsewhere, Typed
<1> QED BY <1>1, <1>2, <1>3, <1>4, <1>5, <1>6, <1>7, <1>8, <1>9, <1>10 DEF Next

\* Names stay apart: createGame asks for a free one, a save and an undo write the
\* one the document has.
LEMMA NextNames ==
  ASSUME Typed, EachItsName, UniqueNames, Next
  PROVE  EachItsName'
<1>1. CASE Forgets
  BY <1>1 DEF Forgets, EachItsName, GivenNames
<1>2. ASSUME NEW g \in GameIds, Creates(g)
      PROVE  EachItsName'
  <2>1. PICK n \in Names, u \in Users :
          /\ ~NameTaken(n)
          /\ docs'[g] = [state |-> NewState(n, u), moves |-> <<>>, history |-> <<>>]
          /\ cache'[g] \in {cache[g], [state |-> NewState(n, u), moves |-> <<>>]}
    BY <1>2 DEF Creates
  <2>2. cache[g] = None /\ docs[g] = None
    BY <1>2 DEF Creates, EachItsName
  <2>3. NewState(n, u).name = n
    BY NewStateSound
  <2>4. GivenNames(g)' \subseteq {n}
    BY <2>1, <2>2, <2>3 DEF GivenNames
  <2>5. \A h \in GameIds \ {g} : GivenNames(h)' = GivenNames(h) /\ n \notin GivenNames(h)
    BY <1>2, <2>1 DEF Creates, Elsewhere, GivenNames, NameTaken
  <2>6. \A h \in GameIds \ {g} : docs'[h] = docs[h] /\ cache'[h] = cache[h]
    BY <1>2 DEF Creates, Elsewhere
  <2>7. used' = used \cup {g} /\ docs'[g].history = <<>>
    BY <1>2, <2>1 DEF Creates
  <2>8. cache'[g] # None => cache'[g].state.name = docs'[g].state.name
    BY <2>1, <2>2, <2>3
  <2> QED BY <2>4, <2>5, <2>6, <2>7, <2>8 DEF EachItsName
<1>3. ASSUME NEW g \in GameIds, Elsewhere(g), used' = used,
             docs[g] = None /\ cache[g] = None => docs'[g] = None /\ cache'[g] = None,
             GivenNames(g)' \subseteq GivenNames(g),
             cache'[g] # None /\ docs'[g] # None => cache'[g].state.name = docs'[g].state.name,
             docs'[g] # None =>
                \A k \in DOMAIN docs'[g].history : docs'[g].history[k].name = docs'[g].state.name
      PROVE  EachItsName'
  <2>1. \A h \in GameIds \ {g} : docs'[h] = docs[h] /\ cache'[h] = cache[h]
    BY <1>3 DEF Elsewhere
  <2>2. \A h \in GameIds \ {g} : GivenNames(h)' = GivenNames(h)
    BY <2>1 DEF GivenNames
  <2> QED BY <1>3, <2>1, <2>2 DEF EachItsName
<1>4. ASSUME NEW g \in GameIds, Loads(g)
      PROVE  EachItsName'
  <2>1. Elsewhere(g) /\ used' = used /\ Found(g) /\ docs'[g] = docs[g] /\ cache'[g] = Held(g)
    BY <1>4 DEF Loads
  <2>2. GivenNames(g)' \subseteq GivenNames(g)
    BY <2>1 DEF GivenNames, Held, Found
  <2>3. docs[g] # None => Held(g).state.name = docs[g].state.name
    BY <2>1, HeldName
  <2> QED BY <1>3, <2>1, <2>2, <2>3 DEF Found, EachItsName
<1>5. ASSUME NEW g \in GameIds, NEW game \in SoundGame, Changes(g, game)
      PROVE  EachItsName'
  <2>1. /\ Elsewhere(g) /\ used' = used /\ Found(g) /\ cache'[g] = game
        /\ game.state.name = Held(g).state.name
        /\ \E push \in BOOLEAN : docs'[g] \in {docs[g], Rewritten(g, game, push)}
    BY <1>5 DEF Changes
  <2>2. docs[g] = None => docs'[g] = None
    BY <2>1 DEF Rewritten
  <2>3. docs'[g] # None => docs'[g].state.name = Held(g).state.name
    BY <2>1, <2>2, HeldName DEF Rewritten
  <2>4. Held(g).state.name \in GivenNames(g)
    BY <2>1, HeldName DEF GivenNames, Held, Found
  <2>5. GivenNames(g)' \subseteq GivenNames(g)
    BY <2>1, <2>3, <2>4 DEF GivenNames
  <2>6. ASSUME docs[g] # None
        PROVE  \A k \in DOMAIN docs'[g].history :
                  docs'[g].history[k].name = Held(g).state.name
    <3>1. docs[g].history \in Seq(SoundState)
      BY <2>6 DEF Typed, SoundDoc
    <3>2. \A k \in DOMAIN docs[g].history : docs[g].history[k].name = Held(g).state.name
      BY <2>1, <2>6, HeldName DEF EachItsName
    <3>3. game.state \in SoundState
      BY DEF SoundGame
    <3>4. \A k \in DOMAIN Append(docs[g].history, game.state) :
             Append(docs[g].history, game.state)[k].name = Held(g).state.name
      BY <2>1, <3>1, <3>2, <3>3
    <3>5. docs'[g].history \in {docs[g].history, Append(docs[g].history, game.state)}
      BY <2>1, <2>6 DEF Rewritten
    <3> QED BY <3>2, <3>4, <3>5
  <2>7. \/ docs[g] # None \/ cache[g] # None
    BY <2>1 DEF Found
  <2> QED BY <1>3, <2>1, <2>2, <2>3, <2>5, <2>6, <2>7
<1>6. ASSUME NEW g \in GameIds, TakesBack(g)
      PROVE  EachItsName'
  <2>1. /\ Elsewhere(g) /\ used' = used /\ docs[g] # None /\ Len(docs[g].history) >= 2
        /\ docs'[g] = [state |-> Previous(docs[g]), moves |-> Pop(docs[g].moves),
                       history |-> Pop(docs[g].history)]
        /\ cache'[g] \in {cache[g], None}
    BY <1>6 DEF TakesBack
  <2>2. docs[g] \in SoundDoc /\ docs[g].history \in Seq(SoundState)
    BY <2>1 DEF Typed, SoundDoc
  <2>3. \A k \in DOMAIN docs[g].history : docs[g].history[k].name = docs[g].state.name
    BY <2>1 DEF EachItsName
  <2>4. Previous(docs[g]).name = docs[g].state.name
    BY <2>1, <2>2, <2>3 DEF Previous
  <2>5. \A k \in DOMAIN Pop(docs[g].history) :
           Pop(docs[g].history)[k].name = docs[g].state.name
    BY <2>1, <2>2, <2>3, PopKeeps
  <2>6. docs'[g].state.name = docs[g].state.name /\ docs'[g].history = Pop(docs[g].history)
    BY <2>1, <2>4
  <2>7. GivenNames(g)' \subseteq GivenNames(g)
    BY <2>1, <2>6 DEF GivenNames
  <2>8. cache'[g] # None => cache'[g].state.name = docs[g].state.name
    BY <2>1 DEF EachItsName
  <2> QED BY <1>3, <2>1, <2>5, <2>6, <2>7, <2>8
<1>7. ASSUME NEW g \in GameIds, Deletes(g)
      PROVE  EachItsName'
  <2>1. /\ Elsewhere(g) /\ used' = used
        /\ docs'[g] \in {docs[g], None} /\ cache'[g] \in {cache[g], None}
    BY <1>7 DEF Deletes
  <2>2. GivenNames(g)' \subseteq GivenNames(g)
    BY <2>1 DEF GivenNames
  <2> QED BY <1>3, <2>1, <2>2 DEF EachItsName
<1> QED BY <1>1, <1>2, <1>4, <1>5, <1>6, <1>7, RequestsAre
-----------------------------------------------------------------------------
(* Earlier and later positions. *)

\* s is a prefix of t, element by element.
Before(s, t) == Len(s) <= Len(t) /\ \A i \in DOMAIN s : s[i] = t[i]

\* It is the library's IsPrefix.
LEMMA BeforeIsPrefix ==
  ASSUME NEW S, NEW s \in Seq(S), NEW t \in Seq(S)
  PROVE  IsPrefix(s, t) <=> Before(s, t)
<1>1. SubSeq(s, 1, Len(s)) = s
  OBVIOUS
<1>2. ASSUME Len(s) <= Len(t)
      PROVE  /\ SubSeq(t, 1, Len(s)) \in Seq(S) /\ Len(SubSeq(t, 1, Len(s))) = Len(s)
             /\ \A i \in 1 .. Len(s) : SubSeq(t, 1, Len(s))[i] = t[i]
  BY <1>2
<1>3. ASSUME Before(s, t)
      PROVE  IsPrefix(s, t)
  <2>1. s = SubSeq(t, 1, Len(s))
    <3>1. Len(s) <= Len(t) /\ \A i \in 1 .. Len(s) : s[i] = t[i]
      BY <1>3 DEF Before
    <3> QED BY <1>2, <3>1, SeqEqual
  <2> QED BY <1>1, <1>3, <2>1 DEF IsPrefix, Before
<1>4. ASSUME IsPrefix(s, t)
      PROVE  Before(s, t)
  BY <1>1, <1>2, <1>4 DEF IsPrefix, Before
<1> QED BY <1>3, <1>4

\* What comes before an earlier board comes before the later one.
LEMMA BeforeFollows ==
  ASSUME NEW S, NEW s \in Seq(S), NEW t \in Seq(S), NEW r \in Seq(S),
         Before(s, t), Before(t, r)
  PROVE  Before(s, r)
BY DEF Before

\* A board comes before itself, and before itself with one more move.
LEMMA BeforeAppended ==
  ASSUME NEW S, NEW s \in Seq(S), NEW e
  PROVE  Before(s, Append(s, e)) /\ Before(s, s) /\ Before(<<>>, s)
BY DEF Before

\* The saved positions of a game, each a later one: the states of the history, one
\* move or more apart, and the saved state.
Forward(doc) ==
    LET h == doc.history
    IN  /\ \A k \in 1 .. Len(h) - 1 :
              Before(h[k].board, h[k + 1].board) /\ Len(h[k].board) < Len(h[k + 1].board)
        /\ h # <<>> => Before(h[Len(h)].board, doc.state.board)

\* And the cached state is later still.
InOrder ==
    \A g \in GameIds : docs[g] # None =>
        /\ Forward(docs[g])
        /\ cache[g] # None => Before(docs[g].state.board, cache[g].state.board)

\* The boards that are compared are sequences of moves.
LEMMA BoardsTyped ==
  ASSUME NEW st \in SoundState
  PROVE  st.board \in Seq(Move) /\ Len(st.board) \in Nat
BY DEF SoundState, GameState

\* What a request works on is no earlier than what is saved.
LEMMA HeldIsLater ==
  ASSUME Typed, InOrder, NEW g \in GameIds, docs[g] # None
  PROVE  Before(docs[g].state.board, Held(g).state.board)
BY BeforeAppended, BoardsTyped DEF InOrder, Held, Typed, SoundDoc

\* A later state is saved, without or with an entry in the history.
LEMMA ForwardSaved ==
  ASSUME NEW doc \in SoundDoc, Forward(doc), NEW st \in SoundState, NEW moves,
         Before(doc.state.board, st.board)
  PROVE  /\ Forward([state |-> st, moves |-> moves, history |-> doc.history])
         /\ Len(doc.state.board) < Len(st.board) =>
               Forward([state |-> st, moves |-> moves, history |-> Append(doc.history, st)])
<1> DEFINE h == doc.history
<1>1. h \in Seq(SoundState) /\ doc.state \in SoundState
  BY DEF SoundDoc
<1>2. h # <<>> => /\ h[Len(h)] \in SoundState /\ Before(h[Len(h)].board, st.board)
  <2>1. h # <<>> => h[Len(h)] \in SoundState
    BY <1>1
  <2> QED BY <1>1, <2>1, BoardsTyped, BeforeFollows DEF Forward
<1>3. Forward([state |-> st, moves |-> moves, history |-> h])
  BY <1>2 DEF Forward
<1>4. ASSUME Len(doc.state.board) < Len(st.board)
      PROVE  Forward([state |-> st, moves |-> moves, history |-> Append(h, st)])
  <2>1. /\ Len(Append(h, st)) = Len(h) + 1 /\ Append(h, st)[Len(h) + 1] = st
        /\ \A k \in 1 .. Len(h) : Append(h, st)[k] = h[k]
        /\ Len(h) \in Nat /\ Append(h, st) # <<>>
    BY <1>1
  <2>2. ASSUME NEW k \in 1 .. Len(h)
        PROVE  /\ Before(Append(h, st)[k].board, Append(h, st)[k + 1].board)
               /\ Len(Append(h, st)[k].board) < Len(Append(h, st)[k + 1].board)
    <3>1. CASE k = Len(h)
      <4>1. h # <<>> /\ Append(h, st)[k] = h[Len(h)] /\ Append(h, st)[k + 1] = st
        BY <1>1, <2>1, <3>1
      <4>2. Before(h[Len(h)].board, doc.state.board)
        BY <4>1 DEF Forward
      <4>3. Len(h[Len(h)].board) < Len(st.board)
        BY <1>1, <1>2, <1>4, <4>1, <4>2, BoardsTyped DEF Before
      <4> QED BY <1>2, <4>1, <4>3
    <3>2. CASE k # Len(h)
      <4>1. k \in 1 .. Len(h) - 1 /\ Append(h, st)[k] = h[k] /\ Append(h, st)[k + 1] = h[k + 1]
        BY <2>1, <3>2
      <4> QED BY <4>1 DEF Forward
    <3> QED BY <3>1, <3>2
  <2>3. Before(st.board, st.board)
    BY BoardsTyped, BeforeAppended
  <2>4. Len(Append(h, st)) - 1 = Len(h)
    BY <2>1
  <2> HIDE DEF h
  <2> QED BY <2>1, <2>2, <2>3, <2>4 DEF Forward
<1> QED BY <1>3, <1>4

\* The state an undo brings back is earlier than the saved one, by a move at least,
\* and the history still leads up to it.
LEMMA ForwardUndone ==
  ASSUME NEW doc \in SoundDoc, Forward(doc), Len(doc.history) >= 2, NEW moves
  PROVE  /\ Previous(doc) \in SoundState
         /\ Before(Previous(doc).board, doc.state.board)
         /\ Len(Previous(doc).board) < Len(doc.state.board)
         /\ Forward([state |-> Previous(doc), moves |-> moves, history |-> Pop(doc.history)])
<1> DEFINE h == doc.history
           n == Len(doc.history)
<1>1. h \in Seq(SoundState) /\ doc.state \in SoundState /\ n \in Nat /\ h # <<>>
  BY DEF SoundDoc
<1>2. Previous(doc) = h[n - 1] /\ h[n - 1] \in SoundState /\ h[n] \in SoundState
  BY <1>1 DEF Previous
<1>3. /\ Before(h[n - 1].board, h[n].board) /\ Len(h[n - 1].board) < Len(h[n].board)
      /\ Before(h[n].board, doc.state.board)
  <2>1. n - 1 \in 1 .. n - 1 /\ (n - 1) + 1 = n
    BY <1>1
  <2>2. \A k \in 1 .. n - 1 :
           Before(h[k].board, h[k + 1].board) /\ Len(h[k].board) < Len(h[k + 1].board)
    BY DEF Forward
  <2> QED BY <1>1, <2>1, <2>2 DEF Forward
<1>4. Before(h[n - 1].board, doc.state.board) /\ Len(h[n - 1].board) < Len(doc.state.board)
  <2>1. /\ h[n - 1].board \in Seq(Move) /\ h[n].board \in Seq(Move)
        /\ doc.state.board \in Seq(Move)
    BY <1>1, <1>2, BoardsTyped
  <2>2. Len(h[n].board) <= Len(doc.state.board)
    BY <1>3 DEF Before
  <2> HIDE DEF h, n
  <2>3. Before(h[n - 1].board, doc.state.board)
    BY <1>3, <2>1, BeforeFollows
  <2> QED BY <1>3, <2>1, <2>2, <2>3
<1>5. Forward([state |-> Previous(doc), moves |-> moves, history |-> Pop(h)])
  <2>1. /\ Len(Pop(h)) = n - 1
        /\ \A k \in 1 .. n - 1 : Pop(h)[k] = h[k]
    BY <1>1, PopKeeps
  <2>2. \A k \in 1 .. n - 2 : /\ Before(Pop(h)[k].board, Pop(h)[k + 1].board)
                              /\ Len(Pop(h)[k].board) < Len(Pop(h)[k + 1].board)
    <3> SUFFICES ASSUME NEW k \in 1 .. n - 2
                 PROVE  /\ Before(Pop(h)[k].board, Pop(h)[k + 1].board)
                        /\ Len(Pop(h)[k].board) < Len(Pop(h)[k + 1].board)
      OBVIOUS
    <3>1. k \in 1 .. n - 1 /\ k + 1 \in 1 .. n - 1
      BY <1>1
    <3> QED BY <2>1, <3>1 DEF Forward
  <2>3. Pop(h)[Len(Pop(h))] = Previous(doc)
    BY <1>1, <1>2, <2>1
  <2>4. Before(Previous(doc).board, Previous(doc).board)
    BY <1>2, BoardsTyped, BeforeAppended
  <2>5. Len(Pop(h)) - 1 = n - 2
    BY <1>1, <2>1
  <2> HIDE DEF h, n
  <2> QED BY <2>2, <2>3, <2>4, <2>5 DEF Forward
<1> QED BY <1>2, <1>4, <1>5

\* Whatever write of a request fails, the positions stay in order.
LEMMA NextInOrder ==
  ASSUME Typed, EachItsName, UniqueNames, InOrder, Next
  PROVE  InOrder'
<1>1. CASE Forgets
  BY <1>1 DEF Forgets, InOrder
<1>2. ASSUME NEW g \in GameIds, Elsewhere(g),
             docs'[g] # None => Forward(docs'[g]),
             docs'[g] # None /\ cache'[g] # None =>
                Before(docs'[g].state.board, cache'[g].state.board)
      PROVE  InOrder'
  BY <1>2 DEF Elsewhere, InOrder
<1>3. ASSUME NEW g \in GameIds, Creates(g)
      PROVE  InOrder'
  <2>1. PICK n \in Names, u \in Users :
          /\ docs'[g] = [state |-> NewState(n, u), moves |-> <<>>, history |-> <<>>]
          /\ cache'[g] \in {cache[g], [state |-> NewState(n, u), moves |-> <<>>]}
    BY <1>3 DEF Creates
  <2>2. cache[g] = None
    BY <1>3 DEF Creates, EachItsName
  <2>3. NewState(n, u).board = <<>>
    BY NewStateSound
  <2>4. Before(<<>>, <<>>)
    BY DEF Before
  <2>5. Forward(docs'[g])
    BY <2>1 DEF Forward
  <2> QED BY <1>2, <1>3, <2>1, <2>2, <2>3, <2>4, <2>5 DEF Creates
<1>4. ASSUME NEW g \in GameIds, Loads(g)
      PROVE  InOrder'
  BY <1>2, <1>4, HeldIsLater DEF Loads, InOrder
<1>5. ASSUME NEW g \in GameIds, NEW game \in SoundGame, Changes(g, game)
      PROVE  InOrder'
  <2>1. Elsewhere(g) /\ Found(g) /\ cache'[g] = game /\ Held(g) \in SoundGame
    BY <1>5, HeldSound DEF Changes
  <2>2. CASE docs[g] = None
    BY <1>2, <1>5, <2>1, <2>2 DEF Changes, Rewritten
  <2>3. CASE docs[g] # None
    <3> DEFINE doc == docs[g]
    <3>1. doc \in SoundDoc /\ Forward(doc)
      BY <2>3 DEF Typed, InOrder
    <3>2. /\ doc.state \in SoundState /\ Held(g).state \in SoundState
          /\ game.state \in SoundState
      BY <2>1, <3>1 DEF SoundDoc, SoundGame
    <3>3. /\ doc.state.board \in Seq(Move) /\ Held(g).state.board \in Seq(Move)
          /\ game.state.board \in Seq(Move)
      BY <3>2, BoardsTyped
    <3>4. Before(doc.state.board, Held(g).state.board)
      BY <2>3, HeldIsLater
    <3>5. /\ Before(Held(g).state.board, game.state.board)
          /\ \/ docs'[g] \in {doc, Rewritten(g, game, FALSE)}
             \/ /\ docs'[g] \in {doc, Rewritten(g, game, TRUE)}
                /\ Len(Held(g).state.board) < Len(game.state.board)
      <4>1. CASE /\ game.state.board = Held(g).state.board
                 /\ docs'[g] \in {doc, Rewritten(g, game, FALSE)}
        BY <3>3, <4>1, BeforeAppended
      <4>2. ASSUME NEW m \in Move, game.state.board = Append(Held(g).state.board, m),
                   docs'[g] \in {doc, Rewritten(g, game, TRUE)}
            PROVE  /\ Before(Held(g).state.board, game.state.board)
                   /\ Len(Held(g).state.board) < Len(game.state.board)
        <5>1. Len(Held(g).state.board) < Len(game.state.board)
          BY <3>3, <4>2
        <5> QED BY <3>3, <4>2, <5>1, BeforeAppended
      <4> QED BY <1>5, <4>1, <4>2 DEF Changes
    <3>6. Before(doc.state.board, game.state.board)
      BY <3>3, <3>4, <3>5, BeforeFollows
    <3>7. Len(doc.state.board) <= Len(Held(g).state.board)
      BY <3>4 DEF Before
    <3>8. Before(game.state.board, game.state.board)
      BY <3>3, BeforeAppended
    <3>9. CASE docs'[g] = doc
      BY <1>2, <2>1, <3>1, <3>6, <3>9
    <3>10. CASE docs'[g] = Rewritten(g, game, FALSE)
      <4>1. docs'[g] = [state |-> game.state, moves |-> game.moves, history |-> doc.history]
        BY <2>3, <3>10 DEF Rewritten
      <4>2. Forward([state |-> game.state, moves |-> game.moves, history |-> doc.history])
        <5> HIDE DEF doc
        <5> QED BY <3>1, <3>2, <3>6, ForwardSaved
      <4>3. Forward(docs'[g]) /\ docs'[g].state = game.state
        BY <4>1, <4>2
      <4> QED BY <1>2, <2>1, <3>8, <4>3
    <3>11. CASE /\ docs'[g] = Rewritten(g, game, TRUE)
                /\ Len(Held(g).state.board) < Len(game.state.board)
      <4>1. docs'[g] = [state |-> game.state, moves |-> game.moves,
                        history |-> Append(doc.history, game.state)]
        BY <2>3, <3>11 DEF Rewritten
      <4>2. Len(doc.state.board) < Len(game.state.board)
        BY <3>3, <3>7, <3>11
      <4>3. Forward([state |-> game.state, moves |-> game.moves,
                     history |-> Append(doc.history, game.state)])
        <5> HIDE DEF doc
        <5> QED BY <3>1, <3>2, <3>6, <4>2, ForwardSaved
      <4>4. Forward(docs'[g]) /\ docs'[g].state = game.state
        BY <4>1, <4>3
      <4> QED BY <1>2, <2>1, <3>8, <4>4
    <3> QED BY <3>5, <3>9, <3>10, <3>11
  <2> QED BY <2>2, <2>3
<1>6. ASSUME NEW g \in GameIds, TakesBack(g)
      PROVE  InOrder'
  <2> DEFINE doc == docs[g]
  <2>1. /\ Elsewhere(g) /\ doc # None /\ Len(doc.history) >= 2
        /\ docs'[g] = [state |-> Previous(doc), moves |-> Pop(doc.moves),
                       history |-> Pop(doc.history)]
        /\ cache'[g] \in {cache[g], None}
    BY <1>6 DEF TakesBack
  <2>2. doc \in SoundDoc /\ Forward(doc) /\ doc.state \in SoundState
    BY <2>1 DEF Typed, InOrder, SoundDoc
  <2>3. /\ Previous(doc) \in SoundState /\ Before(Previous(doc).board, doc.state.board)
        /\ Forward(docs'[g]) /\ docs'[g].state = Previous(doc)
    BY <2>1, <2>2, ForwardUndone
  <2>4. ASSUME cache[g] # None
        PROVE  Before(Previous(doc).board, cache[g].state.board)
    <3>1. cache[g].state \in SoundState /\ Before(doc.state.board, cache[g].state.board)
      BY <2>1, <2>4 DEF Typed, SoundGame, InOrder
    <3> QED BY <2>2, <2>3, <3>1, BoardsTyped, BeforeFollows
  <2> QED BY <1>2, <2>1, <2>3, <2>4
<1>7. ASSUME NEW g \in GameIds, Deletes(g)
      PROVE  InOrder'
  BY <1>2, <1>7 DEF Deletes, InOrder
<1> QED BY <1>1, <1>3, <1>4, <1>5, <1>6, <1>7, RequestsAre

\* The names and the order hold in every state that can be reached.
LEMMA AlwaysInOrder ==
  ASSUME UniqueNames
  PROVE  Spec => [](Typed /\ EachItsName /\ InOrder)
<1>1. Init => EachItsName /\ InOrder
  BY DEF Init, EachItsName, GivenNames, InOrder
<1>2. Typed /\ EachItsName /\ InOrder /\ [Next]_vars => (EachItsName /\ InOrder)'
  <2>1. CASE UNCHANGED vars
    BY <2>1 DEF vars, EachItsName, GivenNames, InOrder
  <2> QED BY <2>1, NextNames, NextInOrder
<1> QED BY <1>1, <1>2, AlwaysTyped, PTL DEF Spec

\* Whatever writes fail, refused or made and not answered: what a restart brings
\* back is an earlier position of the cached game.
THEOREM SavedStateIsPast ==
  ASSUME UniqueNames
  PROVE  Spec => []SavedIsPast
<1>1. Typed /\ InOrder => SavedIsPast
  <2> SUFFICES ASSUME Typed, InOrder, NEW g \in Existing, cache[g] # None
               PROVE  IsPrefix(docs[g].state.board, cache[g].state.board)
    BY DEF SavedIsPast
  <2>1. /\ docs[g].state \in SoundState /\ cache[g].state \in SoundState
        /\ Before(docs[g].state.board, cache[g].state.board)
    BY DEF Existing, Typed, InOrder, SoundDoc, SoundGame
  <2> QED BY <2>1, BoardsTyped, BeforeIsPrefix
<1> QED BY <1>1, AlwaysInOrder, PTL

\* Whatever writes fail, an undo goes back: the states of the history are ever
\* later positions, and none is later than the saved one.
THEOREM HistoryIsForward ==
  ASSUME UniqueNames
  PROVE  Spec => []HistoryGoesForward
<1>1. Typed /\ InOrder => HistoryGoesForward
  <2> SUFFICES ASSUME Typed, InOrder, NEW g \in Existing, NEW k \in DOMAIN docs[g].history
               PROVE  IsStrictPrefix(docs[g].history[k].board,
                         IF k < Len(docs[g].history) THEN docs[g].history[k + 1].board
                         ELSE Append(docs[g].state.board, {}))
    BY DEF HistoryGoesForward
  <2> DEFINE h == docs[g].history
             b == docs[g].state.board
  <2>1. docs[g] \in SoundDoc /\ Forward(docs[g])
    BY DEF Existing, Typed, InOrder
  <2>2. h \in Seq(SoundState) /\ docs[g].state \in SoundState /\ k \in 1 .. Len(h)
    BY <2>1 DEF SoundDoc
  <2>3. b \in Seq(Move) /\ h[k].board \in Seq(Move)
    BY <2>2, BoardsTyped
  <2>4. CASE k < Len(h)
    <3>1. /\ Before(h[k].board, h[k + 1].board) /\ Len(h[k].board) < Len(h[k + 1].board)
          /\ h[k + 1] \in SoundState
      BY <2>1, <2>2, <2>4 DEF Forward
    <3>2. h[k + 1].board \in Seq(Move)
      BY <3>1, BoardsTyped
    <3>3. IsPrefix(h[k].board, h[k + 1].board) /\ h[k].board # h[k + 1].board
      BY <2>3, <3>1, <3>2, BeforeIsPrefix
    <3> QED BY <2>4, <3>3 DEF IsStrictPrefix
  <2>5. CASE ~(k < Len(h))
    <3>1. k = Len(h) /\ h # <<>>
      BY <2>2, <2>5
    <3>2. Before(h[k].board, b)
      BY <2>1, <3>1 DEF Forward
    <3>3. /\ h[k].board \in Seq(Move \cup {{}}) /\ b \in Seq(Move \cup {{}})
          /\ Append(b, {}) \in Seq(Move \cup {{}}) /\ Len(Append(b, {})) = Len(b) + 1
      BY <2>3
    <3>4. Before(h[k].board, Append(b, {}))
      <4>1. Before(b, Append(b, {}))
        BY <3>3, BeforeAppended
      <4> QED BY <3>2, <3>3, <4>1, BeforeFollows
    <3>5. Len(h[k].board) <= Len(b)
      BY <3>2 DEF Before
    <3>6. IsPrefix(h[k].board, Append(b, {}))
      BY <3>3, <3>4, BeforeIsPrefix
    <3>7. h[k].board # Append(b, {})
      BY <2>3, <3>3, <3>5
    <3> QED BY <2>5, <3>6, <3>7 DEF IsStrictPrefix
  <2> QED BY <2>4, <2>5
<1> QED BY <1>1, AlwaysInOrder, PTL
-----------------------------------------------------------------------------
(* The list of moves. *)

\* A list that tells a board still tells it after one move is added to both.
LEMMA SubsequenceAppended ==
  ASSUME NEW S, NEW s \in Seq(S), NEW t \in Seq(S), NEW e, IsSubsequence(s, t)
  PROVE  IsSubsequence(Append(s, e), Append(t, e))
<1>1. PICK place \in [DOMAIN s -> DOMAIN t] :
         /\ \A i \in DOMAIN s : s[i] = t[place[i]]
         /\ \A i, j \in DOMAIN s : i < j => place[i] < place[j]
  BY DEF IsSubsequence
<1> DEFINE n == Len(s)
           k == Len(t)
           longer == [i \in 1 .. n + 1 |-> IF i = n + 1 THEN k + 1 ELSE place[i]]
<1>2. /\ n \in Nat /\ k \in Nat /\ DOMAIN s = 1 .. n /\ DOMAIN t = 1 .. k
      /\ DOMAIN Append(s, e) = 1 .. n + 1 /\ DOMAIN Append(t, e) = 1 .. k + 1
  OBVIOUS
<1>3. /\ \A i \in 1 .. n : Append(s, e)[i] = s[i]
      /\ \A i \in 1 .. k : Append(t, e)[i] = t[i]
      /\ Append(s, e)[n + 1] = e /\ Append(t, e)[k + 1] = e
  OBVIOUS
<1> HIDE DEF n, k
<1>4. \A i \in 1 .. n : place[i] \in 1 .. k /\ s[i] = t[place[i]]
  BY <1>1, <1>2
<1>5. /\ \A i \in 1 .. n : longer[i] = place[i]
      /\ longer[n + 1] = k + 1 /\ DOMAIN longer = 1 .. n + 1
  BY <1>2
<1>6. longer \in [1 .. n + 1 -> 1 .. k + 1]
  BY <1>2, <1>4
<1> HIDE DEF longer
<1>7. ASSUME NEW i \in 1 .. n + 1
      PROVE  Append(s, e)[i] = Append(t, e)[longer[i]]
  <2>1. CASE i = n + 1
    BY <1>3, <1>5, <2>1
  <2>2. CASE i # n + 1
    <3>1. i \in 1 .. n
      BY <1>2, <2>2
    <3> QED BY <1>3, <1>4, <1>5, <3>1
  <2> QED BY <2>1, <2>2
<1>8. ASSUME NEW i \in 1 .. n + 1, NEW j \in 1 .. n + 1, i < j
      PROVE  longer[i] < longer[j]
  <2>1. i \in 1 .. n
    BY <1>2, <1>8
  <2>2. CASE j = n + 1
    BY <1>2, <1>4, <1>5, <2>1, <2>2
  <2>3. CASE j # n + 1
    <3>1. j \in 1 .. n
      BY <1>2, <2>3
    <3> QED BY <1>1, <1>2, <1>5, <1>8, <2>1, <3>1
  <2> QED BY <2>2, <2>3
<1> QED BY <1>2, <1>6, <1>7, <1>8 DEF IsSubsequence

\* The last move of the list is not needed by a shorter board.
LEMMA SubsequencePopped ==
  ASSUME NEW S, NEW s \in Seq(S), NEW t \in Seq(S), NEW r \in Seq(S),
         IsSubsequence(s, t), Before(r, s), Len(r) < Len(s)
  PROVE  IsSubsequence(r, Pop(t))
<1>1. PICK place \in [DOMAIN s -> DOMAIN t] :
         /\ \A i \in DOMAIN s : s[i] = t[place[i]]
         /\ \A i, j \in DOMAIN s : i < j => place[i] < place[j]
  BY DEF IsSubsequence
<1> DEFINE shorter == [i \in DOMAIN r |-> place[i]]
<1>2. /\ DOMAIN s = 1 .. Len(s) /\ DOMAIN t = 1 .. Len(t) /\ DOMAIN r = 1 .. Len(r)
      /\ Len(s) \in Nat /\ Len(t) \in Nat /\ Len(r) \in Nat
  OBVIOUS
<1>3. Len(s) \in DOMAIN s /\ place[Len(s)] \in 1 .. Len(t)
  BY <1>1, <1>2
<1>4. t # <<>>
  BY <1>2, <1>3
<1>5. /\ DOMAIN Pop(t) = 1 .. Len(t) - 1
      /\ \A k \in 1 .. Len(t) - 1 : Pop(t)[k] = t[k]
  BY <1>4, PopKeeps
<1>6. ASSUME NEW i \in DOMAIN r
      PROVE  /\ i \in DOMAIN s /\ r[i] = s[i] /\ place[i] \in 1 .. Len(t) - 1
             /\ r[i] = Pop(t)[place[i]]
  <2>1. i \in DOMAIN s /\ i < Len(s) /\ r[i] = s[i]
    BY <1>2 DEF Before
  <2>2. place[i] \in 1 .. Len(t) /\ place[i] < place[Len(s)]
    BY <1>1, <1>2, <1>3, <2>1
  <2>3. place[i] \in 1 .. Len(t) - 1
    BY <1>2, <1>3, <2>2
  <2> QED BY <1>1, <1>5, <2>1, <2>3
<1>7. shorter \in [DOMAIN r -> DOMAIN Pop(t)]
  BY <1>5, <1>6
<1>8. \A i \in DOMAIN r : r[i] = Pop(t)[shorter[i]]
  BY <1>6
<1>9. \A i, j \in DOMAIN r : i < j => shorter[i] < shorter[j]
  BY <1>1, <1>6
<1> QED BY <1>7, <1>8, <1>9 DEF IsSubsequence

\* A board without moves is told by every list.
LEMMA SubsequenceEmpty ==
  ASSUME NEW t
  PROVE  IsSubsequence(<<>>, t)
<1> DEFINE nowhere == [i \in {} |-> i]
<1>1. nowhere \in [DOMAIN <<>> -> DOMAIN t] /\ DOMAIN <<>> = {}
  OBVIOUS
<1> QED BY <1>1 DEF IsSubsequence

\* Whatever write of a request fails, the list of moves still tells the board.
LEMMA NextTells ==
  ASSUME Typed, EachItsName, UniqueNames, InOrder, MovesTellTheBoard, Next
  PROVE  MovesTellTheBoard'
<1> DEFINE Tells(game) == IsSubsequence(game.state.board, game.moves)
<1>1. CASE Forgets
  BY <1>1 DEF Forgets, MovesTellTheBoard
<1>2. ASSUME NEW g \in GameIds, Elsewhere(g),
             docs'[g] # None => Tells(docs'[g]), cache'[g] # None => Tells(cache'[g])
      PROVE  MovesTellTheBoard'
  BY <1>2 DEF Elsewhere, MovesTellTheBoard
<1>3. ASSUME NEW g \in GameIds, Found(g)
      PROVE  Tells(Held(g))
  BY <1>3 DEF Found, Held, MovesTellTheBoard
<1>4. ASSUME NEW g \in GameIds, Creates(g)
      PROVE  MovesTellTheBoard'
  <2>1. PICK n \in Names, u \in Users :
          /\ docs'[g] = [state |-> NewState(n, u), moves |-> <<>>, history |-> <<>>]
          /\ cache'[g] \in {cache[g], [state |-> NewState(n, u), moves |-> <<>>]}
    BY <1>4 DEF Creates
  <2>2. Elsewhere(g) /\ cache[g] # None => Tells(cache[g])
    BY DEF MovesTellTheBoard
  <2>3. IsSubsequence(NewState(n, u).board, <<>>)
    BY NewStateSound, SubsequenceEmpty
  <2> QED BY <1>2, <1>4, <2>1, <2>2, <2>3 DEF Creates, MovesTellTheBoard
<1>5. ASSUME NEW g \in GameIds, Loads(g)
      PROVE  MovesTellTheBoard'
  BY <1>2, <1>3, <1>5 DEF Loads, MovesTellTheBoard
<1>6. ASSUME NEW g \in GameIds, NEW game \in SoundGame, Changes(g, game)
      PROVE  MovesTellTheBoard'
  <2>1. Elsewhere(g) /\ Found(g) /\ cache'[g] = game /\ Held(g) \in SoundGame
    BY <1>6, HeldSound DEF Changes
  <2>2. Held(g).state.board \in Seq(Move) /\ Held(g).moves \in Seq(Move)
    BY <2>1, BoardsTyped DEF SoundGame
  <2>3. Tells(game)
    <3>1. CASE game.state.board = Held(g).state.board /\ game.moves = Held(g).moves
      BY <1>3, <2>1, <3>1
    <3>2. ASSUME NEW m \in Move, game.state.board = Append(Held(g).state.board, m),
                 game.moves = Append(Held(g).moves, m)
          PROVE  Tells(game)
      BY <1>3, <2>1, <2>2, <3>2, SubsequenceAppended
    <3> QED BY <1>6, <3>1, <3>2 DEF Changes
  <2>4. \/ docs'[g] = docs[g] \/ docs'[g] = None
        \/ docs'[g].state = game.state /\ docs'[g].moves = game.moves
    BY <1>6 DEF Changes, Rewritten
  <2> HIDE DEF Tells
  <2>5. docs'[g] # None => Tells(docs'[g])
    BY <2>3, <2>4 DEF Tells, MovesTellTheBoard
  <2> QED BY <1>2, <2>1, <2>3, <2>5
<1>7. ASSUME NEW g \in GameIds, TakesBack(g)
      PROVE  MovesTellTheBoard'
  <2> DEFINE doc == docs[g]
  <2>1. /\ Elsewhere(g) /\ doc # None /\ Len(doc.history) >= 2
        /\ docs'[g] = [state |-> Previous(doc), moves |-> Pop(doc.moves),
                       history |-> Pop(doc.history)]
        /\ cache'[g] \in {cache[g], None}
    BY <1>7 DEF TakesBack
  <2>2. /\ doc \in SoundDoc /\ Forward(doc) /\ doc.state \in SoundState
        /\ doc.moves \in Seq(Move) /\ Tells(doc)
    BY <2>1 DEF Typed, InOrder, SoundDoc, MovesTellTheBoard
  <2>3. /\ Previous(doc) \in SoundState /\ Before(Previous(doc).board, doc.state.board)
        /\ Len(Previous(doc).board) < Len(doc.state.board)
    BY <2>1, <2>2, ForwardUndone
  <2>4. IsSubsequence(Previous(doc).board, Pop(doc.moves))
    BY <2>2, <2>3, BoardsTyped, SubsequencePopped
  <2>5. cache[g] # None => Tells(cache[g])
    BY DEF MovesTellTheBoard
  <2> QED BY <1>2, <2>1, <2>4, <2>5
<1>8. ASSUME NEW g \in GameIds, Deletes(g)
      PROVE  MovesTellTheBoard'
  BY <1>2, <1>8 DEF Deletes, MovesTellTheBoard
<1> QED BY <1>1, <1>4, <1>5, <1>6, <1>7, <1>8, RequestsAre

\* Whatever writes fail, the list of moves that is saved, and the one the page
\* shows, has every move whose effect is on the board, in their order.
THEOREM BoardIsTold ==
  ASSUME UniqueNames
  PROVE  Spec => []MovesTellTheBoard
<1>1. Init => MovesTellTheBoard
  BY DEF Init, MovesTellTheBoard
<1>2. Typed /\ EachItsName /\ InOrder /\ MovesTellTheBoard /\ [Next]_vars
        => MovesTellTheBoard'
  <2>1. CASE UNCHANGED vars
    BY <2>1 DEF vars, MovesTellTheBoard
  <2> QED BY <2>1, NextTells
<1> QED BY <1>1, <1>2, AlwaysInOrder, PTL DEF Spec
-----------------------------------------------------------------------------
(* The lists of the users. *)

\* While a write that throws was not made, a list names no deleted game:
\* deleteGame takes the game off the lists before it deletes it, and a game that
\* is joined has a document.
LEMMA NextListed ==
  ASSUME "unanswered" \notin Failures, Typed, CachedHaveDocuments, ListedExist, Next
  PROVE  ListedExist'
<1>1. ASSUME listed' = listed, \A h \in GameIds : docs[h] # None => docs'[h] # None
      PROVE  ListedExist'
  BY <1>1 DEF ListedExist, Existing
<1>2. ASSUME NEW g \in GameIds, NEW u \in Users, docs'[g] # None,
             listed' \in {listed, [listed EXCEPT ![u] = @ \cup {g}]},
             \A h \in GameIds : docs[h] # None => docs'[h] # None
      PROVE  ListedExist'
  BY <1>2 DEF ListedExist, Existing, Typed
<1>3. CASE Restart \/ \E s \in SessionIds : Retire(s) \/ \E u \in Users : Login(s, u)
  BY <1>1, <1>3 DEF Restart, Retire, Login
<1>4. ASSUME NEW s \in SessionIds, NEW n \in Names, CreateGame(s, n)
      PROVE  ListedExist'
  <2> DEFINE u == sessions[s].user
             doc == [state |-> NewState(n, u), moves |-> <<>>, history |-> <<>>]
  <2>1. u \in Users
    BY <1>4 DEF CreateGame, Present, Typed, Session
  <2>2. doc # None
    <3>1. doc \in SoundDoc
      BY <2>1, NewStateSound DEF SoundDoc
    <3> QED BY <3>1, SoundIsTyped
  <2> HIDE DEF doc
  <2>3. PICK g \in GameIds \ used :
          /\ docs' = [docs EXCEPT ![g] = doc]
          /\ listed' \in {listed, [listed EXCEPT ![u] = @ \cup {g}]}
    BY <1>4 DEF CreateGame, doc
  <2>4. docs'[g] # None /\ \A h \in GameIds : docs[h] # None => docs'[h] # None
    BY <2>2, <2>3 DEF Typed
  <2> QED BY <1>2, <2>1, <2>3, <2>4
<1>5. ASSUME NEW s \in SessionIds, NEW g \in GameIds, JoinGame(s, g)
      PROVE  ListedExist'
  <2>1. sessions[s].user \in Users /\ docs[g] # None
    BY <1>5 DEF JoinGame, Found, Present, Typed, Session, CachedHaveDocuments
  <2>2. PICK game \in SoundGame :
          /\ listed' \in {listed, [listed EXCEPT ![sessions[s].user] = @ \cup {g}]}
          /\ docs' = docs \/ docs' = Dump(game, FALSE)
    BY <1>5, JoinChanges
  <2>3. \A h \in GameIds : docs[h] # None => docs'[h] # None
    BY <2>2, DumpSound
  <2> QED BY <1>2, <2>1, <2>2, <2>3
<1>6. ASSUME NEW s \in SessionIds, NEW g \in GameIds,
             StartGame(s, g) \/ MakeTurn(s, g) \/ OrganizeHand(s, g)
      PROVE  ListedExist'
  <2>1. PICK game \in SoundGame, push \in BOOLEAN : Save(g, game, push)
    BY <1>6, StartSaves, MoveSaves, OrganizeSaves
  <2>2. listed' = listed /\ (docs' = docs \/ docs' = Dump(game, push))
    BY <2>1 DEF Save
  <2> QED BY <1>1, <2>2, DumpSound
<1>7. ASSUME NEW s \in SessionIds, NEW g \in GameIds, Undo(s, g)
      PROVE  ListedExist'
  <2> DEFINE doc == [state |-> Previous(docs[g]), moves |-> Pop(docs[g].moves),
                     history |-> Pop(docs[g].history)]
  <2>1. /\ docs[g] # None /\ Len(docs[g].history) >= 2
        /\ docs' = [docs EXCEPT ![g] = doc] /\ listed' = listed
    BY <1>7 DEF Undo
  <2>2. doc # None
    BY <2>1, UndoneSound, SoundIsTyped DEF Typed
  <2> HIDE DEF doc
  <2> QED BY <1>1, <2>1, <2>2 DEF Typed
<1>8. ASSUME NEW s \in SessionIds, NEW g \in GameIds, DeleteGame(s, g)
      PROVE  ListedExist'
  <2>1. listed' = Unlisted(g) /\ docs' \in {docs, [docs EXCEPT ![g] = None]}
    BY <1>8 DEF DeleteGame
  <2> QED BY <2>1 DEF ListedExist, Existing, Unlisted, Typed
<1>9. ASSUME NEW s \in SessionIds, NEW g \in GameIds, Load(s, g)
      PROVE  ListedExist'
  BY <1>1, <1>9 DEF Load
<1> QED BY <1>3, <1>4, <1>5, <1>6, <1>7, <1>8, <1>9 DEF Next

\* A write that throws without having been made, a restart or an expired
\* session: none leaves a user's list with a game that does not exist.
THEOREM ListsNameExisting ==
  ASSUME "unanswered" \notin Failures
  PROVE  Spec => []ListedExist
<1>1. Init => ListedExist
  BY DEF Init, ListedExist
<1>2. Typed /\ CachedHaveDocuments /\ ListedExist /\ [Next]_vars => ListedExist'
  <2>1. CASE UNCHANGED vars
    BY <2>1 DEF vars, ListedExist, Existing
  <2> QED BY <2>1, NextListed
<1> QED BY <1>1, <1>2, AlwaysTyped, CachedGamesHaveDocuments, PTL DEF Spec

\* The players of a game do not change once it has started, and it has started
\* when it has a history: an undo brings no earlier table back.
Settled(doc) ==
    /\ doc.history # <<>> => doc.state.started
    /\ \A k \in DOMAIN doc.history : /\ doc.history[k].started
                                     /\ doc.history[k].players = doc.state.players

AllSettled == \A g \in GameIds : docs[g] # None => Settled(docs[g])

\* The lists stay right when nobody sits down and no game comes or goes.
LEMMA ListsKept ==
  ASSUME PlayersListTheirGames, listed' = listed,
         \A h \in GameIds : docs'[h] = None <=> docs[h] = None,
         \A h \in GameIds : docs[h] # None => docs'[h].state.players = docs[h].state.players
  PROVE  PlayersListTheirGames'
<1>1. \A h \in GameIds : docs[h] # None => Seated(docs'[h].state) = Seated(docs[h].state)
  BY DEF Seated
<1> QED BY <1>1 DEF PlayersListTheirGames, Existing

\* A request that saves a game with the same players, started if it was, and
\* started for sure if it is a move.
LEMMA SavesListed ==
  ASSUME Typed, PlayersListTheirGames, AllSettled, NEW g \in GameIds, NEW game \in SoundGame,
         NEW push \in BOOLEAN, Saves(g, game, push), listed' = listed,
         game.state.players = docs[g].state.players,
         docs[g].state.started \/ push => game.state.started
  PROVE  PlayersListTheirGames' /\ AllSettled'
<1> DEFINE hist == IF push THEN Append(docs[g].history, game.state) ELSE docs[g].history
           doc == [state |-> game.state, moves |-> game.moves, history |-> hist]
<1>1. docs[g] # None /\ docs[g].history \in Seq(SoundState) /\ game.state \in SoundState
  BY DEF Saves, Typed, SoundDoc, SoundGame
<1>2. docs' = [docs EXCEPT ![g] = doc]
  BY DEF Saves, Saved
<1>3. Settled(docs[g])
  BY <1>1 DEF AllSettled
<1>4. Settled(doc)
  <2>1. CASE push
    <3>1. \A k \in DOMAIN Append(docs[g].history, game.state) :
             Append(docs[g].history, game.state)[k]
                \in {docs[g].history[j] : j \in DOMAIN docs[g].history} \cup {game.state}
      BY <1>1
    <3> QED BY <1>3, <2>1, <3>1 DEF Settled
  <2>2. CASE ~push
    BY <1>3, <2>2 DEF Settled
  <2> QED BY <2>1, <2>2
<1>5. doc # None
  <2>1. Append(docs[g].history, game.state) \in Seq(SoundState)
    BY <1>1
  <2>2. doc \in SoundDoc
    BY <1>1, <2>1 DEF SoundDoc, SoundGame
  <2> QED BY <2>2, SoundIsTyped
<1>6. doc.state = game.state
  OBVIOUS
<1> HIDE DEF doc
<1>7. docs'[g] = doc /\ \A h \in GameIds \ {g} : docs'[h] = docs[h]
  BY <1>2 DEF Typed
<1>8. AllSettled'
  BY <1>4, <1>7 DEF AllSettled
<1>9. PlayersListTheirGames'
  BY <1>1, <1>5, <1>6, <1>7, ListsKept
<1> QED BY <1>8, <1>9

\* Creating and joining list the game, deleting takes it off the lists, and
\* nothing else changes who plays: one step per action.
LEMMA NextListsTheirs ==
  ASSUME Reliable, Typed, Coherent, OwnNames, EachItsName, PlayersListTheirGames, AllSettled,
         Next
  PROVE  PlayersListTheirGames' /\ AllSettled'
<1>1. ASSUME \/ Restart
             \/ \E s \in SessionIds : Retire(s) \/ \E u \in Users : Login(s, u)
             \/ \E s \in SessionIds, g \in GameIds : Load(s, g)
      PROVE  PlayersListTheirGames' /\ AllSettled'
  <2>1. docs' = docs /\ listed' = listed
    BY <1>1 DEF Restart, Retire, Login, Load
  <2> QED BY <2>1 DEF PlayersListTheirGames, Existing, AllSettled
<1>2. ASSUME NEW s \in SessionIds, NEW n \in Names, CreateGame(s, n)
      PROVE  PlayersListTheirGames' /\ AllSettled'
  <2> DEFINE u == sessions[s].user
             doc == [state |-> NewState(n, u), moves |-> <<>>, history |-> <<>>]
  <2>1. u \in Users
    BY <1>2 DEF CreateGame, Present, Typed, Session
  <2>2. doc # None /\ Settled(doc) /\ Seated(doc.state) = {u}
    <3>1. doc \in SoundDoc
      BY <2>1, NewStateSound DEF SoundDoc
    <3>2. Seated(doc.state) = {u}
      BY DEF Seated, NewState
    <3> QED BY <3>1, <3>2, SoundIsTyped DEF Settled
  <2> HIDE DEF doc
  <2>3. PICK g \in GameIds \ used, done \in Reached(3, {1, 3}) :
          /\ docs' = [docs EXCEPT ![g] = doc]
          /\ listed' = IF done >= 3 THEN [listed EXCEPT ![u] = @ \cup {g}] ELSE listed
    BY <1>2 DEF CreateGame, doc
  <2>4. done = 3
    BY <2>3, AllReached
  <2>5. /\ docs'[g] = doc /\ \A h \in GameIds \ {g} : docs'[h] = docs[h]
        /\ listed' = [listed EXCEPT ![u] = @ \cup {g}] /\ docs[g] = None
    BY <2>3, <2>4 DEF Typed, EachItsName
  <2>6. AllSettled'
    BY <2>2, <2>5 DEF AllSettled
  <2>7. /\ listed'[u] = listed[u] \cup {g}
        /\ \A v \in Users \ {u} : listed'[v] = listed[v]
    BY <2>1, <2>5 DEF Typed
  <2>8. PlayersListTheirGames'
    BY <2>1, <2>2, <2>5, <2>7 DEF PlayersListTheirGames, Existing
  <2> QED BY <2>6, <2>8
<1>3. ASSUME NEW s \in SessionIds, NEW g \in GameIds, JoinGame(s, g)
      PROVE  PlayersListTheirGames' /\ AllSettled'
  <2> DEFINE u == sessions[s].user
  <2>1. u \in Users /\ Found(g)
    BY <1>3 DEF JoinGame, Present, Typed, Session
  <2>2. PICK game \in SoundGame :
          /\ CanJoin(docs[g].state, u)
          /\ game = [state |-> AddPlayer(docs[g].state, u), moves |-> docs[g].moves]
          /\ Saves(g, game, FALSE)
    BY <1>3, JoinSaved
  <2>3. /\ docs[g] # None /\ docs[g].state \in SoundState
        /\ docs[g].history = <<>>
    BY <2>2 DEF Saves, Typed, SoundDoc, CanJoin, AllSettled, Settled
  <2>4. listed' = [listed EXCEPT ![u] = @ \cup {g}]
    <3>1. PICK done \in Reached(3, {2, 3}) :
             listed' = IF done >= 2 THEN [listed EXCEPT ![u] = @ \cup {g}] ELSE listed
      BY <1>3, JoinChanges
    <3>2. done = 3
      BY <3>1, AllReached
    <3> QED BY <3>1, <3>2
  <2>5. Seated(game.state) = Seated(docs[g].state) \cup {u}
    <3>1. docs[g].state.players \in Seq(Users)
      BY <2>3 DEF SoundState, GameState
    <3>2. game.state.players = Append(docs[g].state.players, u)
      BY <2>2, <2>3 DEF AddPlayer, SoundState, GameState
    <3> QED BY <3>1, <3>2 DEF Seated
  <2> DEFINE doc == [state |-> game.state, moves |-> game.moves, history |-> <<>>]
  <2>6. doc # None /\ Settled(doc) /\ Seated(doc.state) = Seated(docs[g].state) \cup {u}
    <3>1. doc \in SoundDoc
      BY DEF SoundDoc, SoundGame
    <3> QED BY <2>5, <3>1, SoundIsTyped DEF Settled
  <2>7. docs' = [docs EXCEPT ![g] = doc]
    BY <2>2, <2>3 DEF Saves, Saved
  <2> HIDE DEF doc
  <2>8. docs'[g] = doc /\ \A h \in GameIds \ {g} : docs'[h] = docs[h]
    BY <2>7 DEF Typed
  <2>9. AllSettled'
    BY <2>6, <2>8 DEF AllSettled
  <2>10. /\ listed'[u] = listed[u] \cup {g}
         /\ \A v \in Users \ {u} : listed'[v] = listed[v]
    BY <2>1, <2>4 DEF Typed
  <2>11. PlayersListTheirGames'
    BY <2>1, <2>3, <2>6, <2>8, <2>10 DEF PlayersListTheirGames, Existing
  <2> QED BY <2>9, <2>11
<1>4. ASSUME NEW s \in SessionIds, NEW g \in GameIds, StartGame(s, g)
      PROVE  PlayersListTheirGames' /\ AllSettled'
  <2>1. PICK game \in SoundGame :
          /\ game = [state |-> Start(docs[g].state), moves |-> docs[g].moves]
          /\ Saves(g, game, FALSE)
    BY <1>4, StartSaved
  <2>2. docs[g].state \in SoundState /\ listed' = listed
    BY <1>4, <2>1 DEF Saves, Typed, SoundDoc, StartGame, Save
  <2>3. /\ game.state.players = docs[g].state.players
        /\ docs[g].state.started => game.state.started
    BY <2>1, <2>2 DEF Start, SoundState, GameState
  <2> QED BY <2>1, <2>2, <2>3, SavesListed
<1>5. ASSUME NEW s \in SessionIds, NEW g \in GameIds, OrganizeHand(s, g)
      PROVE  PlayersListTheirGames' /\ AllSettled'
  <2>1. PICK st \in Organized(docs[g].state, sessions[s].user), game \in SoundGame :
          /\ game = [state |-> st, moves |-> docs[g].moves]
          /\ Saves(g, game, FALSE)
    BY <1>5, OrganizeSaved
  <2>2. docs[g].state \in SoundState /\ listed' = listed
    BY <1>5, <2>1 DEF Saves, Typed, SoundDoc, OrganizeHand, Save
  <2>3. st.players = docs[g].state.players /\ st.started = docs[g].state.started
    BY <2>1, <2>2 DEF Organized, SoundState, GameState
  <2> QED BY <2>1, <2>2, <2>3, SavesListed
<1>6. ASSUME NEW s \in SessionIds, NEW g \in GameIds, MakeTurn(s, g)
      PROVE  PlayersListTheirGames' /\ AllSettled'
  <2>1. PICK m \in Move : \E st \in Outcomes(docs[g].state, m) : \E game \in SoundGame :
          /\ MayMove(docs[g].state, m.user)
          /\ game = [state |-> st, moves |-> Append(docs[g].moves, m)]
          /\ Saves(g, game, TRUE)
    BY <1>6, MoveSaved
  <2>2. PICK st \in Outcomes(docs[g].state, m), game \in SoundGame :
          /\ MayMove(docs[g].state, m.user)
          /\ game = [state |-> st, moves |-> Append(docs[g].moves, m)]
          /\ Saves(g, game, TRUE)
    BY <2>1
  <2>3. docs[g].state \in SoundState /\ listed' = listed
    BY <1>6, <2>2 DEF Saves, Typed, SoundDoc, MakeTurn, Save
  <2>4. /\ st.players = docs[g].state.players /\ st.started = docs[g].state.started
        /\ docs[g].state.started
    BY <2>2, <2>3 DEF Outcomes, MayMove, SoundState, GameState
  <2> QED BY <2>2, <2>3, <2>4, SavesListed
<1>7. ASSUME NEW s \in SessionIds, NEW g \in GameIds, Undo(s, g)
      PROVE  PlayersListTheirGames' /\ AllSettled'
  <2> DEFINE old == docs[g]
             doc == [state |-> Previous(old), moves |-> Pop(old.moves),
                     history |-> Pop(old.history)]
  <2>1. /\ old # None /\ old \in SoundDoc /\ Len(old.history) >= 2
        /\ docs' = [docs EXCEPT ![g] = doc] /\ listed' = listed
    BY <1>7, Undone DEF Undo
  <2>2. /\ old.history \in Seq(SoundState) /\ old.history # <<>> /\ Settled(old)
    BY <2>1 DEF SoundDoc, AllSettled
  <2>3. Previous(old).started /\ Previous(old).players = old.state.players
    BY <2>1, <2>2 DEF Previous, Settled
  <2>4. Settled(doc)
    BY <2>2, <2>3, PopKeeps DEF Settled
  <2>5. doc # None /\ doc.state = Previous(old)
    BY <2>1, UndoneSound, SoundIsTyped
  <2> HIDE DEF doc
  <2>6. docs'[g] = doc /\ \A h \in GameIds \ {g} : docs'[h] = docs[h]
    BY <2>1 DEF Typed
  <2>7. AllSettled'
    BY <2>4, <2>6 DEF AllSettled
  <2>8. PlayersListTheirGames'
    BY <2>1, <2>3, <2>5, <2>6, ListsKept
  <2> QED BY <2>7, <2>8
<1>8. ASSUME NEW s \in SessionIds, NEW g \in GameIds, DeleteGame(s, g)
      PROVE  PlayersListTheirGames' /\ AllSettled'
  <2>1. docs' = [docs EXCEPT ![g] = None] /\ listed' = Unlisted(g)
    BY <1>8, Deleted DEF DeleteGame
  <2>2. docs'[g] = None /\ \A h \in GameIds \ {g} : docs'[h] = docs[h]
    BY <2>1 DEF Typed
  <2>3. \A u \in Users : listed'[u] = listed[u] \ {g}
    BY <2>1 DEF Unlisted
  <2>4. AllSettled'
    BY <2>2 DEF AllSettled
  <2>5. PlayersListTheirGames'
    BY <2>2, <2>3 DEF PlayersListTheirGames, Existing
  <2> QED BY <2>4, <2>5
<1> QED BY <1>1, <1>2, <1>3, <1>4, <1>5, <1>6, <1>7, <1>8 DEF Next

\* While the database answers and every game has its own name, a user's list
\* names the games he plays in and no other: no undo changes who plays.
THEOREM ListsAreRight ==
  ASSUME Reliable
  PROVE  Spec => []PlayersListTheirGames
<1>1. Init => Coherent /\ OwnNames /\ PlayersListTheirGames /\ AllSettled
  BY DEF Init, Coherent, OwnNames, PlayersListTheirGames, Existing, AllSettled
<1>2. /\ Typed /\ EachItsName
      /\ Coherent /\ OwnNames /\ PlayersListTheirGames /\ AllSettled
      /\ [Next]_vars
      => (Coherent /\ OwnNames /\ PlayersListTheirGames /\ AllSettled)'
  <2> SUFFICES ASSUME Typed, EachItsName, Coherent, OwnNames, PlayersListTheirGames,
                      AllSettled, [Next]_vars
               PROVE  (Coherent /\ OwnNames /\ PlayersListTheirGames /\ AllSettled)'
    OBVIOUS
  <2>1. CASE UNCHANGED vars
    BY <2>1 DEF vars, Coherent, Held, OwnNames, PlayersListTheirGames, Existing, AllSettled
  <2>2. CASE Next
    BY <2>2, NextCoherent, NextListsTheirs
  <2> QED BY <2>1, <2>2
<1>3. UniqueNames
  BY DEF Reliable
<1> QED BY <1>1, <1>2, <1>3, AlwaysInOrder, PTL DEF Spec
=============================================================================
