--------------------------- MODULE PollingProofs ---------------------------
(***************************************************************************)
(* Proofs about Polling for any games, requests under way and bounds.  The *)
(* inductive invariant of NoMoveUnseen says of every answer under way   *)
(* what the property says of the board shown, and that no time is later    *)
(* than the clock: a change stamped later than the clock is news to all.   *)
(***************************************************************************)
EXTENDS Polling, TLAPS

\* What a request does to a game.
Acted(g) == Changed(g) \/ TakenBack(g) \/ Reached(g) \/ Organized(g)

News(i) ==
    /\ requests[i] \in Answered
    /\ requests[i].status = "ok" /\ requests[i].kind \in {"lastupdate", "query"}

Told(a) == a.board \in Nat /\ a.hand \in Nat /\ a.updated \in Nat

Telling == \A i \in Slots : News(i) => Told(requests[i])

\* What an answer under way tells was so when the clock showed no more than now,
\* and is still so unless the game has a later time.
AnswerTimely(i) ==
    /\ requests[i].updated <= clock
    /\ \/ stamp[requests[i].game] = None
       \/ stamp[requests[i].game] > requests[i].updated
       \/ requests[i].board = board[requests[i].game]

Timely ==
    /\ \A g \in Games : stamp[g] # None => stamp[g] <= clock /\ board[g] # None
    /\ lastUpdated <= clock
    /\ \A i \in Slots : News(i) => AnswerTimely(i)

LEMMA SentIsNotAnswered ==
  /\ \A r \in Sent : r \notin Answered /\ r # None
  /\ \A r \in Answered : r \notin Sent /\ r # None
<1>1. \A r \in Sent : DOMAIN r = {"kind", "game", "session"}
  BY DEF Sent
<1>2. \A r \in Answered : DOMAIN r = {"kind", "game", "status", "board", "hand", "updated"}
  BY DEF Answered
<1>3. "status" \notin {"kind", "game", "session"}
  OBVIOUS
<1> QED BY <1>1, <1>2, <1>3, NoneAssumption

\* The clock never goes back, and a change or a load is stamped with it.
LEMMA ServerTyped ==
  ASSUME TypeOK, NEW g \in Games, board[g] # None, Acted(g)
  PROVE  /\ board' \in [Games -> Nat \cup {None}] /\ stamp' \in [Games -> Nat \cup {None}]
         /\ clock' \in Nat /\ clock' >= clock /\ board'[g] # None
         /\ hand' \in [Games -> Nat]
         /\ \A h \in Games : h # g => board'[h] = board[h] /\ stamp'[h] = stamp[h]
<1>1. \A t \in Stamps : t \in Nat /\ t >= clock
  BY DEF Stamps, TypeOK
<1>2. CASE Changed(g)
  BY <1>1, <1>2, BoundsAssumption DEF Changed, TypeOK
<1>3. CASE TakenBack(g)
  BY <1>3, BoundsAssumption DEF TakenBack, TypeOK
<1>4. CASE Reached(g)
  BY <1>1, <1>4 DEF Reached, Found, TypeOK
<1>5. CASE Organized(g)
  BY <1>1, <1>5 DEF Organized, Found, TypeOK
<1> QED BY <1>2, <1>3, <1>4, <1>5 DEF Acted

LEMMA AnswerTyped ==
  ASSUME TypeOK, NEW i \in Slots, requests[i] \in Sent, NEW status \in Statuses,
         board' \in [Games -> Nat \cup {None}], stamp' \in [Games -> Nat \cup {None}],
         hand' \in [Games -> Nat], Answer(i, status)
  PROVE  /\ requests' \in [Slots -> Sent \cup Answered \cup {None}]
         /\ requests'[i] \in Answered
         /\ requests'[i].kind = requests[i].kind /\ requests'[i].game = requests[i].game
         /\ requests'[i].status = status
         /\ status = "ok" /\ requests[i].kind \in {"lastupdate", "query"} =>
               /\ requests'[i].board = board'[requests[i].game]
               /\ requests'[i].hand = hand'[requests[i].game]
               /\ requests'[i].updated = stamp'[requests[i].game]
         /\ \A j \in Slots : j # i => requests'[j] = requests[j]
<1> DEFINE r == requests[i]
           full == status = "ok" /\ r.kind \in {"lastupdate", "query"}
           a == [kind |-> r.kind, game |-> r.game, status |-> status,
                 board |-> IF full THEN board'[r.game] ELSE None,
                 hand |-> IF full THEN hand'[r.game] ELSE None,
                 updated |-> IF full THEN stamp'[r.game] ELSE None]
<1>1. r.kind \in Kinds /\ r.game \in Games
  BY DEF Sent
<1>2. a \in Answered
  BY <1>1 DEF Answered
<1>3. requests' = [requests EXCEPT ![i] = a]
  BY DEF Answer
<1>4. requests'[i] = a /\ \A j \in Slots : j # i => requests'[j] = requests[j]
  BY <1>3 DEF TypeOK
<1>5. requests' \in [Slots -> Sent \cup Answered \cup {None}]
  BY <1>2, <1>3 DEF TypeOK
<1> QED BY <1>2, <1>4, <1>5

\* One of the page's requests is sent, or one is finished with: no news arrives.
Forwarded ==
    /\ requests' \in [Slots -> Sent \cup Answered \cup {None}]
    /\ \A i \in Slots : requests'[i] = requests[i] \/ requests'[i] \in Sent \cup {None}

LEMMA RequestSent ==
  ASSUME TypeOK, gameID' \in Games, NEW kind \in Kinds
  PROVE  Request(kind) \in Sent
  BY DEF Request, Sent, TypeOK

LEMMA SendForwards ==
  ASSUME TypeOK, gameID' \in Games, NEW kind \in Kinds, Send(kind)
  PROVE  Forwarded
  BY RequestSent DEF Send, Forwarded, TypeOK

LEMMA ReceiveForwards ==
  ASSUME TypeOK, NEW i \in Slots, Receive(i)
  PROVE  /\ Forwarded /\ gameID' = gameID /\ session' = session
         /\ UNCHANGED server /\ UNCHANGED <<changes, clicks>>
<1>1. gameID' = gameID /\ session' = session /\ UNCHANGED server /\ UNCHANGED <<changes, clicks>>
  BY DEF Receive, Polled, Drawn, page
<1>2. Request("query") \in Sent
  BY <1>1, RequestSent DEF TypeOK, Kinds
<1>3. \/ requests' = [requests EXCEPT ![i] = Request("query")]
      \/ requests' = [requests EXCEPT ![i] = None]
  BY DEF Receive, Polled, Drawn, Done
<1> QED BY <1>1, <1>2, <1>3 DEF Forwarded, TypeOK

\* A request reaches its handler, or breaks on the way.
Handled(i) ==
    LET g == requests[i].game
    IN  /\ requests[i] \in Sent
        /\ \/ UNCHANGED games
           \/ board[g] # None /\ Acted(g)
        /\ \E status \in Statuses :
              /\ Answer(i, status)
              /\ status = "ok" /\ requests[i].kind \in {"lastupdate", "query"} =>
                    board[g] # None /\ Reached(g)

LEMMA ServeHandles ==
  ASSUME NEW i \in Slots, Serve(i) \/ Break(i)
  PROVE  Handled(i) /\ UNCHANGED <<known, page, notice, clicks>>
         /\ (changes' = changes \/ changes' = changes + 1)
<1>1. CASE Serve(i)
  BY <1>1 DEF Serve, Handled, Acted, Statuses
<1>2. CASE Break(i)
  BY <1>2 DEF Break, Handled, Acted, Statuses
<1> QED BY <1>1, <1>2

LEMMA HandledTyped ==
  ASSUME TypeOK, NEW i \in Slots, Handled(i)
  PROVE  /\ board' \in [Games -> Nat \cup {None}] /\ stamp' \in [Games -> Nat \cup {None}]
         /\ clock' \in Nat /\ clock' >= clock /\ hand' \in [Games -> Nat]
         /\ requests' \in [Slots -> Sent \cup Answered \cup {None}]
<1>1. requests[i].game \in Games
  BY DEF Handled, Sent
<1>2. /\ board' \in [Games -> Nat \cup {None}] /\ stamp' \in [Games -> Nat \cup {None}]
      /\ clock' \in Nat /\ clock' >= clock /\ hand' \in [Games -> Nat]
  <2>1. CASE UNCHANGED games
    BY <2>1 DEF games, TypeOK
  <2>2. CASE ~UNCHANGED games
    BY <1>1, <2>2, ServerTyped DEF Handled
  <2> QED BY <2>1, <2>2
<1>3. requests' \in [Slots -> Sent \cup Answered \cup {None}]
  BY <1>2, AnswerTyped DEF Handled
<1> QED BY <1>2, <1>3

\* The three notification steps keep the notice what it is.
LEMMA NoticeTyped ==
  ASSUME TypeOK, RemoveNotification \/ AddNotification \/ UNCHANGED notice
  PROVE  notified' \in BOOLEAN /\ handle' \in BOOLEAN /\ strays' \in Nat
<1>1. notified' \in BOOLEAN /\ handle' \in BOOLEAN
  BY Zenon DEF RemoveNotification, AddNotification, notice, TypeOK
<1>2. strays' \in {strays, strays + 1}
  BY DEF RemoveNotification, AddNotification, notice
<1>3. strays' \in Nat
  BY <1>2 DEF TypeOK
<1> QED BY <1>1, <1>3

\* Whatever is done to the requests, an answer that brings news tells a board
\* and a time.
LEMMA ForwardedTelling ==
  ASSUME Telling, Forwarded
  PROVE  Telling'
  BY SentIsNotAnswered, NoneAssumption DEF Telling, News, Forwarded

LEMMA HandledTelling ==
  ASSUME TypeOK, Telling, NEW i \in Slots, Handled(i)
  PROVE  Telling'
<1> DEFINE g == requests[i].game
<1>1. g \in Games
  BY DEF Handled, Sent
<1>2. /\ board' \in [Games -> Nat \cup {None}] /\ stamp' \in [Games -> Nat \cup {None}]
      /\ hand' \in [Games -> Nat]
  BY HandledTyped
<1>3. PICK status \in Statuses :
         /\ Answer(i, status)
         /\ status = "ok" /\ requests[i].kind \in {"lastupdate", "query"} =>
               board[g] # None /\ Reached(g)
  BY DEF Handled
<1>4. ASSUME News(i)'
      PROVE  Told(requests'[i])
  <2>1. status = "ok" /\ requests[i].kind \in {"lastupdate", "query"}
    BY <1>2, <1>3, <1>4, AnswerTyped DEF Handled, News
  <2>2. board'[g] # None /\ stamp'[g] # None
    <3>1. \A t \in Stamps : t \in Nat
      BY DEF Stamps, TypeOK
    <3> QED BY <1>1, <1>3, <2>1, <3>1, BoundsAssumption DEF Reached, Found, TypeOK
  <2>3. /\ requests'[i].board = board'[g] /\ requests'[i].updated = stamp'[g]
        /\ requests'[i].hand = hand'[g]
    BY <1>2, <1>3, <2>1, AnswerTyped DEF Handled
  <2> QED BY <1>1, <1>2, <2>2, <2>3 DEF Told
<1>5. \A j \in Slots : j # i => requests'[j] = requests[j]
  BY <1>2, <1>3, AnswerTyped DEF Handled
<1> QED BY <1>4, <1>5 DEF Telling, News

\* What an answer does to the page and the notice.
LEMMA ReceiveShows ==
  ASSUME TypeOK, Telling, NEW i \in Slots, Receive(i)
  PROVE  /\ RemoveNotification \/ AddNotification \/ UNCHANGED notice
         /\ timer' \in BOOLEAN /\ view' \in {"login", view}
         /\ \/ lastUpdated' = lastUpdated /\ shown' = shown
            \/ /\ News(i)
               /\ Told(requests[i])
               /\ shown' = [game |-> requests[i].game, board |-> requests[i].board,
                            hand |-> requests[i].hand]
               /\ lastUpdated' = requests[i].updated
<1>1. CASE UNCHANGED page /\ UNCHANGED notice
  BY <1>1 DEF page, TypeOK
<1>2. CASE News(i) /\ Polled(i)
  BY <1>2 DEF Polled, page, notice, TypeOK
<1>3. CASE News(i) /\ Drawn(i)
  BY <1>3 DEF Drawn, Telling
<1>4. CASE /\ view' = "login" /\ UNCHANGED <<lastUpdated, shown, timer, notice>>
  BY <1>4 DEF TypeOK
<1> QED BY <1>1, <1>2, <1>3, <1>4 DEF Receive, News

LEMMA NextTyped ==
  ASSUME TypeOK, Telling, Next
  PROVE  TypeOK' /\ Telling'
<1> USE NoneAssumption
<1>1. CASE Retire
  <2>1. stamp' \in [Games -> Nat \cup {None}]
    BY <1>1 DEF Retire, TypeOK
  <2> QED BY <1>1, <2>1 DEF Retire, TypeOK, page, notice, Telling, News
<1>2. CASE TimerFires
  <2>1. Forwarded
    BY <1>2, SendForwards DEF TimerFires, TypeOK, Kinds
  <2>2. Telling'
    BY <2>1, ForwardedTelling
  <2> QED BY <1>2, <2>1, <2>2 DEF TimerFires, Forwarded, TypeOK, server, games, notice
<1>3. CASE Login
  BY <1>3, NoticeTyped DEF Login, Click, games, TypeOK, Telling, News
<1>4. CASE Play
  <2>1. Forwarded
    <3>1. PICK kind \in {"query", "turn", "undo"} : Send(kind)
      BY <1>4 DEF Play
    <3>2. gameID' \in Games /\ kind \in Kinds
      BY <1>4 DEF Play, TypeOK, page, Kinds
    <3> QED BY <3>1, <3>2, SendForwards
  <2>2. Telling'
    BY <2>1, ForwardedTelling
  <2> QED BY <1>4, <2>1, <2>2, NoticeTyped DEF Play, Click, Forwarded, TypeOK, server, games, page
<1>5. ASSUME NEW g \in Games, Others(g)
      PROVE  TypeOK' /\ Telling'
  BY <1>5, ServerTyped DEF Others, Acted, TypeOK, page, notice, Telling, News
<1>6. ASSUME NEW g \in Games, Deleted(g)
      PROVE  TypeOK' /\ Telling'
  BY <1>6 DEF Deleted, TypeOK, page, notice, Telling, News
<1>7. ASSUME NEW g \in Games, LaunchGame(g)
      PROVE  TypeOK' /\ Telling'
  <2>1. Forwarded
    BY <1>7, SendForwards DEF LaunchGame, Kinds
  <2>2. Telling'
    BY <2>1, ForwardedTelling
  <2> QED BY <1>7, <2>1, <2>2, NoticeTyped DEF LaunchGame, Click, Forwarded, TypeOK, server, games
<1>8. ASSUME NEW i \in Slots, Serve(i) \/ Break(i)
      PROVE  TypeOK' /\ Telling'
  <2>1. Handled(i) /\ UNCHANGED <<known, page, notice, clicks>> /\ changes' \in Nat
    BY <1>8, ServeHandles DEF TypeOK
  <2>2. Telling'
    BY <2>1, HandledTelling
  <2> QED BY <2>1, <2>2, HandledTyped DEF TypeOK, page, notice
<1>9. ASSUME NEW i \in Slots, Receive(i)
      PROVE  TypeOK' /\ Telling'
  <2>1. Forwarded /\ UNCHANGED <<gameID, session, changes, clicks>> /\ UNCHANGED server
    BY <1>9, ReceiveForwards
  <2>2. shown' \in [game : Games, board : Nat, hand : Nat] \cup {None} /\ lastUpdated' \in Nat
    BY <1>9, ReceiveShows DEF TypeOK, News, Answered, Told
  <2>3. /\ notified' \in BOOLEAN /\ handle' \in BOOLEAN /\ strays' \in Nat
        /\ timer' \in BOOLEAN /\ view' \in {"login", "games", "game"}
    BY <1>9, ReceiveShows, NoticeTyped DEF TypeOK
  <2>4. Telling'
    BY <2>1, ForwardedTelling
  <2> QED BY <2>1, <2>2, <2>3, <2>4 DEF TypeOK, Forwarded, server, games
<1> QED BY <1>1, <1>2, <1>3, <1>4, <1>5, <1>6, <1>7, <1>8, <1>9 DEF Next

LEMMA AlwaysTyped == Spec => [](TypeOK /\ Telling)
<1>1. Init => TypeOK /\ Telling
  <2> SUFFICES ASSUME Init
               PROVE  TypeOK /\ Telling
    OBVIOUS
  <2>1. /\ board \in [Games -> Nat \cup {None}] /\ stamp \in [Games -> Nat \cup {None}]
        /\ requests \in [Slots -> Sent \cup Answered \cup {None}]
        /\ \A i \in Slots : requests[i] = None
    BY DEF Init
  <2>2. /\ hand \in [Games -> Nat] /\ clock \in Nat /\ known \in SUBSET Nat /\ session \in Nat /\ gameID \in Games
        /\ lastUpdated \in Nat /\ strays \in Nat /\ changes \in Nat /\ clicks \in Nat
    BY DEF Init
  <2>3. /\ view \in {"login", "games", "game"}
        /\ shown \in [game : Games, board : Nat, hand : Nat] \cup {None}
        /\ timer \in BOOLEAN /\ notified \in BOOLEAN /\ handle \in BOOLEAN
    BY DEF Init
  <2> QED BY <2>1, <2>2, <2>3, NoneAssumption DEF TypeOK, Telling, News
<1>2. TypeOK /\ Telling /\ [Next]_vars => (TypeOK /\ Telling)'
  BY NextTyped DEF vars, server, games, page, notice, TypeOK, Telling, News
<1> QED BY <1>1, <1>2, PTL DEF Spec

\* The page and its requests stay well formed, whatever is answered, in
\* whatever order: a board drawn is always one the server told.
THEOREM PageTypeCorrect == Spec => []TypeOK
  BY AlwaysTyped, PTL
-----------------------------------------------------------------------------
\* The title blinks exactly while there is a notification, whatever answers and
\* clicks come in whatever order: no interval is lost that no click could stop.
THEOREM BlinkingStops == Spec => []BlinksWhileNotified
<1>1. Init => BlinksWhileNotified
  BY DEF Init, BlinksWhileNotified
<1>2. ASSUME TypeOK, Telling, BlinksWhileNotified, Next
      PROVE  BlinksWhileNotified'
  <2>1. RemoveNotification \/ AddNotification \/ UNCHANGED notice
    <3>1. ASSUME NEW i \in Slots, Serve(i) \/ Break(i)
          PROVE  UNCHANGED notice
      BY <3>1, ServeHandles
    <3>2. ASSUME NEW g \in Games, Others(g) \/ Deleted(g) \/ LaunchGame(g)
          PROVE  RemoveNotification \/ UNCHANGED notice
      BY <3>2 DEF Others, Deleted, LaunchGame, Click
    <3>3. ASSUME NEW i \in Slots, Receive(i)
          PROVE  RemoveNotification \/ AddNotification \/ UNCHANGED notice
      BY <1>2, <3>3, ReceiveShows
    <3> QED BY <1>2, <3>1, <3>2, <3>3 DEF Next, Retire, TimerFires, Login, Play, Click
  <2>2. CASE RemoveNotification
    BY <1>2, <2>2 DEF RemoveNotification, BlinksWhileNotified
  <2>3. CASE AddNotification
    BY <1>2, <2>3 DEF AddNotification, BlinksWhileNotified
  <2>4. CASE UNCHANGED notice
    BY <1>2, <2>4 DEF notice, BlinksWhileNotified
  <2> QED BY <2>1, <2>2, <2>3, <2>4
<1>3. TypeOK /\ Telling /\ BlinksWhileNotified /\ [Next]_vars => BlinksWhileNotified'
  BY <1>2 DEF vars, notice, BlinksWhileNotified
<1> QED BY <1>1, <1>3, AlwaysTyped, PTL DEF Spec
-----------------------------------------------------------------------------
(* A page that shows a game is watching it. *)

WatchedBy(i) ==
    /\ requests[i] # None
    /\ requests[i].kind \in {"lastupdate", "query"} /\ requests[i].game = gameID

\* Only a deleted game is refused to those who ask about it.
RefusedIsDeleted ==
    \A i \in Slots :
        /\ requests[i] \in Answered
        /\ requests[i].status = "bad" /\ requests[i].kind \in {"lastupdate", "query"}
        => board[requests[i].game] = None

Watched ==
    view = "game" /\ board[gameID] # None => timer \/ \E i \in Slots : WatchedBy(i)

WInv == RefusedIsDeleted /\ Watched

LEMMA HandledWatched ==
  ASSUME TypeOK, WInv, NEW i \in Slots, Handled(i), UNCHANGED page,
         \A status \in Statuses :
            Answer(i, status) /\ status = "bad" /\ requests[i].kind \in {"lastupdate", "query"}
               => board[requests[i].game] = None /\ UNCHANGED board
  PROVE  WInv'
<1> DEFINE g == requests[i].game
<1>1. g \in Games /\ requests[i] # None
  BY SentIsNotAnswered DEF Handled, Sent
<1>2. /\ board' \in [Games -> Nat \cup {None}] /\ stamp' \in [Games -> Nat \cup {None}]
      /\ hand' \in [Games -> Nat]
  BY HandledTyped
<1>3. PICK status \in Statuses : Answer(i, status)
  BY DEF Handled
<1>4. /\ requests'[i] \in Answered /\ requests'[i] # None
      /\ requests'[i].kind = requests[i].kind /\ requests'[i].game = g
      /\ requests'[i].status = status
      /\ \A j \in Slots : j # i => requests'[j] = requests[j]
  BY <1>2, <1>3, AnswerTyped, NoneAssumption DEF Handled
<1>5. \A h \in Games : board[h] = None <=> board'[h] = None
  <2>1. CASE UNCHANGED board
    BY <2>1
  <2>2. CASE ~UNCHANGED board
    BY <1>1, <2>2, ServerTyped DEF Handled, games
  <2> QED BY <2>1, <2>2
<1>6. RefusedIsDeleted'
  <2>1. \A j \in Slots : requests[j] \in Answered => requests[j].game \in Games
    BY DEF Answered
  <2> QED BY <1>1, <1>3, <1>4, <1>5, <2>1 DEF WInv, RefusedIsDeleted
<1>7. \A j \in Slots : WatchedBy(j) => WatchedBy(j)'
  BY <1>1, <1>4 DEF WatchedBy, page
<1>8. Watched'
  BY <1>5, <1>7 DEF WInv, Watched, page, TypeOK
<1> QED BY <1>6, <1>8 DEF WInv

LEMMA ServeWatched ==
  ASSUME TypeOK, WInv, NEW i \in Slots, Serve(i) \/ Break(i)
  PROVE  WInv'
<1>1. Handled(i) /\ UNCHANGED page
  BY ServeHandles
<1>2. \A s, t \in Statuses : Answer(i, s) /\ Answer(i, t) => s = t
  <2> SUFFICES ASSUME NEW s \in Statuses, NEW t \in Statuses, Answer(i, s), Answer(i, t)
               PROVE  s = t
    OBVIOUS
  <2>1. requests'[i].status = s
    BY <1>1, HandledTyped, AnswerTyped DEF Handled
  <2>2. requests'[i].status = t
    BY <1>1, HandledTyped, AnswerTyped DEF Handled
  <2> QED BY <2>1, <2>2
<1>3. ASSUME NEW status \in Statuses, Answer(i, status), status = "bad",
             requests[i].kind \in {"lastupdate", "query"}
      PROVE  board[requests[i].game] = None /\ UNCHANGED board
  <2>1. CASE Serve(i)
    <3>1. {"ok", "unauthorized"} \subseteq Statuses
      BY DEF Statuses
    <3> QED BY <1>2, <1>3, <2>1, <3>1 DEF Serve, games
  <2>2. CASE Break(i)
    BY <1>2, <1>3, <2>2 DEF Break, Statuses
  <2> QED BY <2>1, <2>2
<1> QED BY <1>1, <1>3, HandledWatched

\* A request sent while the game does not change.
LEMMA SendWatched ==
  ASSUME TypeOK, RefusedIsDeleted, NEW kind \in Kinds, Send(kind), gameID' \in Games,
         UNCHANGED board
  PROVE  /\ RefusedIsDeleted'
         /\ gameID' = gameID => \A j \in Slots : WatchedBy(j) => WatchedBy(j)'
         /\ kind \in {"lastupdate", "query"} => \E j \in Slots : WatchedBy(j)'
<1>1. PICK i \in Slots : requests[i] = None /\ requests' = [requests EXCEPT ![i] = Request(kind)]
  BY DEF Send
<1>2. Request(kind) \in Sent /\ Request(kind).kind = kind /\ Request(kind).game = gameID'
  BY RequestSent DEF Request
<1>3. requests'[i] = Request(kind) /\ \A j \in Slots : j # i => requests'[j] = requests[j]
  BY <1>1 DEF TypeOK
<1>4. RefusedIsDeleted'
  BY <1>2, <1>3, SentIsNotAnswered DEF RefusedIsDeleted
<1>5. kind \in {"lastupdate", "query"} => WatchedBy(i)'
  BY <1>2, <1>3, SentIsNotAnswered DEF WatchedBy
<1>6. ASSUME gameID' = gameID, NEW j \in Slots, WatchedBy(j)
      PROVE  WatchedBy(j)'
  BY <1>1, <1>3, <1>6 DEF WatchedBy
<1> QED BY <1>4, <1>5, <1>6

LEMMA ReceiveWatched ==
  ASSUME TypeOK, WInv, NEW i \in Slots, Receive(i)
  PROVE  WInv'
<1>1. /\ Forwarded /\ gameID' = gameID /\ board' = board
  BY ReceiveForwards DEF server, games
<1>2. RefusedIsDeleted'
  BY <1>1, SentIsNotAnswered, NoneAssumption DEF WInv, RefusedIsDeleted, Forwarded
<1>3. /\ requests[i] \in Answered
      /\ \A j \in Slots : j # i => requests'[j] = requests[j]
  BY DEF Receive, Polled, Drawn, Done, TypeOK
<1>4. CASE requests' = [requests EXCEPT ![i] = Request("query")]
  <2>1. requests'[i] = Request("query") /\ Request("query") \in Sent
    BY <1>1, <1>4, RequestSent DEF TypeOK, Kinds
  <2>2. WatchedBy(i)'
    BY <2>1, SentIsNotAnswered DEF WatchedBy, Request
  <2> QED BY <1>2, <2>2 DEF WInv, Watched
<1>5. CASE timer' = TRUE
  BY <1>2, <1>5 DEF WInv, Watched
<1>6. CASE view' = "login"
  BY <1>2, <1>6 DEF WInv, Watched
<1>7. CASE requests[i].status = "bad" /\ UNCHANGED page
  <2>1. requests[i].kind \in {"lastupdate", "query"} => board[requests[i].game] = None
    BY <1>3, <1>7 DEF WInv, RefusedIsDeleted
  <2>2. ASSUME NEW j \in Slots, WatchedBy(j), board[gameID] # None
        PROVE  WatchedBy(j)'
    BY <1>1, <1>3, <2>1, <2>2 DEF WatchedBy
  <2> QED BY <1>1, <1>2, <1>7, <2>2 DEF WInv, Watched, page
<1> QED BY <1>4, <1>5, <1>6, <1>7 DEF Receive, Polled, Drawn, Statuses

\* A page that shows a game has its timer running or has asked about it: no
\* order of answers, refusals and failures leaves it waiting for nothing.
THEOREM PageKeepsWatching == Spec => []Watching
<1>1. Init => WInv
  BY NoneAssumption DEF Init, WInv, RefusedIsDeleted, Watched
<1>2. ASSUME TypeOK, WInv, Next
      PROVE  WInv'
  <2>1. CASE Retire
    BY <1>2, <2>1 DEF Retire, page, WInv, RefusedIsDeleted, Watched, WatchedBy
  <2>2. CASE TimerFires
    BY <1>2, <2>2, SendWatched DEF TimerFires, server, games, TypeOK, Kinds, WInv, Watched
  <2>3. CASE Login
    BY <1>2, <2>3 DEF Login, games, WInv, RefusedIsDeleted, Watched
  <2>4. CASE Play
    <3>1. PICK kind \in {"query", "turn", "undo"} : Send(kind)
      BY <2>4 DEF Play
    <3>2. kind \in Kinds /\ UNCHANGED board /\ UNCHANGED page /\ gameID' \in Games
      BY <1>2, <2>4 DEF Play, Kinds, server, games, page, TypeOK
    <3> QED BY <1>2, <3>1, <3>2, SendWatched DEF page, WInv, Watched
  <2>5. ASSUME NEW g \in Games, Others(g)
        PROVE  WInv'
    <3>1. \A h \in Games : board[h] = None <=> board'[h] = None
      BY <1>2, <2>5, ServerTyped DEF Others, Acted
    <3>2. \A j \in Slots : requests[j] \in Answered => requests[j].game \in Games
      BY DEF Answered
    <3> QED BY <1>2, <2>5, <3>1, <3>2
            DEF Others, page, WInv, RefusedIsDeleted, Watched, WatchedBy, TypeOK
  <2>6. ASSUME NEW g \in Games, Deleted(g)
        PROVE  WInv'
    <3>1. \A j \in Slots : requests[j] \in Answered => requests[j].game \in Games
      BY DEF Answered
    <3> QED BY <1>2, <2>6, <3>1
            DEF Deleted, page, WInv, RefusedIsDeleted, Watched, WatchedBy, TypeOK
  <2>7. ASSUME NEW g \in Games, LaunchGame(g)
        PROVE  WInv'
    BY <1>2, <2>7, SendWatched DEF LaunchGame, server, games, Kinds, WInv, Watched
  <2>8. ASSUME NEW i \in Slots, Serve(i) \/ Break(i) \/ Receive(i)
        PROVE  WInv'
    BY <1>2, <2>8, ServeWatched, ReceiveWatched
  <2> QED BY <1>2, <2>1, <2>2, <2>3, <2>4, <2>5, <2>6, <2>7, <2>8 DEF Next
<1>3. TypeOK /\ WInv /\ [Next]_vars => WInv'
  BY <1>2 DEF vars, server, games, page, WInv, RefusedIsDeleted, Watched, WatchedBy
<1>4. WInv => Watching
  BY DEF WInv, Watched, WatchedBy, Watching
<1> QED BY <1>1, <1>3, <1>4, AlwaysTyped, PTL DEF Spec
-----------------------------------------------------------------------------
(* A time that is not later tells of the board that is shown. *)

TInv == Timely /\ NoMoveUnseen

\* What a step of the server does to a game: its board and time stay, its time
\* is dropped, or it gets a time later than any there was.
Stamped ==
    /\ clock' \in Nat /\ clock' >= clock
    /\ \A g \in Games :
          \/ board'[g] = board[g] /\ stamp'[g] = stamp[g]
          \/ stamp'[g] = None
          \/ stamp'[g] \in Nat /\ stamp'[g] > clock /\ stamp'[g] <= clock' /\ board'[g] # None

LEMMA GameStamped ==
  ASSUME TypeOK, ~SameInstant, NEW g \in Games, board[g] # None,
         Acted(g)
  PROVE  Stamped
<1>1. Stamps = {clock + 1} /\ clock + 1 \in Nat /\ clock + 1 > clock /\ clock \in Nat
  BY DEF Stamps, TypeOK
<1>2. CASE Changed(g)
  BY <1>1, <1>2, BoundsAssumption DEF Changed, Stamped, TypeOK
<1>3. CASE TakenBack(g)
  BY <1>1, <1>3 DEF TakenBack, Stamped, TypeOK
<1>4. CASE Reached(g) \/ Organized(g)
  BY <1>1, <1>4 DEF Reached, Organized, Found, Stamped, TypeOK
<1> QED BY <1>2, <1>3, <1>4 DEF Acted

\* Stamping makes no time and no board that is told wrong.
LEMMA StampedKeeps ==
  ASSUME TypeOK, Telling, TInv, Stamped, UNCHANGED <<shown, lastUpdated>>
  PROVE  /\ \A g \in Games : stamp'[g] # None => stamp'[g] <= clock' /\ board'[g] # None
         /\ lastUpdated' <= clock' /\ NoMoveUnseen'
         /\ \A i \in Slots : News(i) /\ requests'[i] = requests[i] => AnswerTimely(i)'
<1>1. \A g \in Games : stamp'[g] # None => stamp'[g] <= clock' /\ board'[g] # None
  BY DEF TInv, Timely, Stamped, TypeOK
<1>2. lastUpdated' <= clock'
  BY DEF TInv, Timely, Stamped, TypeOK
<1>3. NoMoveUnseen'
  BY DEF TInv, Timely, Stamped, TypeOK, NoMoveUnseen
<1>4. ASSUME NEW i \in Slots, News(i), requests'[i] = requests[i]
      PROVE  AnswerTimely(i)'
  <2>1. requests[i].game \in Games /\ requests[i].updated \in Nat
    BY <1>4 DEF News, Answered, Telling, Told
  <2>2. AnswerTimely(i)
    BY <1>4 DEF TInv, Timely
  <2> QED BY <1>4, <2>1, <2>2 DEF AnswerTimely, Stamped, TypeOK
<1> QED BY <1>1, <1>2, <1>3, <1>4

LEMMA ForwardedTimely ==
  ASSUME TypeOK, Telling, TInv, Stamped, UNCHANGED <<shown, lastUpdated>>, Forwarded
  PROVE  TInv'
<1>1. \A i \in Slots : News(i)' => News(i) /\ requests'[i] = requests[i]
  BY SentIsNotAnswered, NoneAssumption DEF News, Forwarded
<1> QED BY <1>1, StampedKeeps DEF TInv, Timely

LEMMA HandledTimely ==
  ASSUME TypeOK, Telling, ~SameInstant, TInv, NEW i \in Slots, Handled(i), UNCHANGED page
  PROVE  TInv'
<1> DEFINE g == requests[i].game
<1>1. g \in Games
  BY DEF Handled, Sent
<1>2. Stamped
  <2>1. CASE UNCHANGED games
    BY <2>1 DEF games, Stamped, TypeOK
  <2>2. CASE ~UNCHANGED games
    BY <1>1, <2>2, GameStamped DEF Handled
  <2> QED BY <2>1, <2>2
<1>3. PICK status \in Statuses :
         /\ Answer(i, status)
         /\ status = "ok" /\ requests[i].kind \in {"lastupdate", "query"} =>
               board[g] # None /\ Reached(g)
  BY DEF Handled
<1>4. /\ board' \in [Games -> Nat \cup {None}] /\ stamp' \in [Games -> Nat \cup {None}]
      /\ hand' \in [Games -> Nat]
  BY HandledTyped
<1>5. /\ requests'[i].kind = requests[i].kind /\ requests'[i].game = g
      /\ requests'[i].status = status
      /\ status = "ok" /\ requests[i].kind \in {"lastupdate", "query"} =>
            requests'[i].board = board'[g] /\ requests'[i].updated = stamp'[g]
      /\ \A j \in Slots : j # i => requests'[j] = requests[j]
  BY <1>3, <1>4, AnswerTyped DEF Handled
<1>6. \A h \in Games : stamp'[h] # None => stamp'[h] <= clock' /\ board'[h] # None
  BY <1>2, StampedKeeps DEF page
<1>7. News(i)' => AnswerTimely(i)'
  <2> SUFFICES ASSUME News(i)'
               PROVE  AnswerTimely(i)'
    OBVIOUS
  <2>1. requests'[i].board = board'[g] /\ requests'[i].updated = stamp'[g]
    BY <1>5 DEF News
  <2>2. requests'[i].updated \in Nat
    BY HandledTelling DEF Telling, Told
  <2>3. stamp'[g] <= clock'
    BY <1>1, <1>6, <2>1, <2>2, BoundsAssumption
  <2> QED BY <1>5, <2>1, <2>2, <2>3 DEF AnswerTimely
<1>8. \A j \in Slots : j # i /\ News(j)' => AnswerTimely(j)'
  BY <1>2, <1>5, StampedKeeps DEF page, News
<1>9. \A j \in Slots : News(j)' => AnswerTimely(j)'
  BY <1>7, <1>8
<1> QED BY <1>2, <1>6, <1>9, StampedKeeps DEF page, TInv, Timely

LEMMA ReceiveTimely ==
  ASSUME TypeOK, Telling, TInv, NEW i \in Slots, Receive(i)
  PROVE  TInv'
<1>1. Forwarded /\ UNCHANGED games /\ UNCHANGED <<board, stamp, clock>>
  BY ReceiveForwards DEF server, games
<1>2. CASE UNCHANGED <<shown, lastUpdated>>
  <2>1. Stamped
    BY <1>1 DEF games, Stamped, TypeOK
  <2> QED BY <1>1, <1>2, <2>1, ForwardedTimely
<1>3. CASE ~UNCHANGED <<shown, lastUpdated>>
  <2>1. /\ News(i)
        /\ shown' = [game |-> requests[i].game, board |-> requests[i].board,
                     hand |-> requests[i].hand]
        /\ lastUpdated' = requests[i].updated
    BY <1>3, ReceiveShows
  <2>2. AnswerTimely(i) /\ requests[i].game \in Games /\ requests[i].updated \in Nat
    BY <2>1 DEF TInv, Timely, News, Answered, Telling, Told
  <2>3. NoMoveUnseen'
    <3>1. \/ stamp[requests[i].game] = None
          \/ /\ stamp[requests[i].game] \in Nat
             /\ stamp[requests[i].game] > requests[i].updated
          \/ requests[i].board = board[requests[i].game]
      BY <2>2 DEF AnswerTimely, TypeOK
    <3> QED BY <1>1, <2>1, <2>2, <3>1 DEF NoMoveUnseen
  <2>4. \A j \in Slots : News(j)' => News(j) /\ requests'[j] = requests[j]
    BY <1>1, SentIsNotAnswered, NoneAssumption DEF News, Forwarded
  <2>5. \A j \in Slots : News(j)' => AnswerTimely(j)'
    BY <1>1, <2>4 DEF TInv, Timely, AnswerTimely
  <2>6. lastUpdated' <= clock'
    BY <1>1, <2>1, <2>2 DEF AnswerTimely
  <2> QED BY <1>1, <2>3, <2>5, <2>6 DEF TInv, Timely
<1> QED BY <1>2, <1>3

\* If no two stamps are of one millisecond, a page that is told a time not later
\* than its own shows the board as it is: asking for the time alone is enough to
\* see every move and undo, through restarts and answers in any order, and though
\* turns that rearrange the user's hand change the game under the same time.
THEOREM NoNewsIsGoodNews ==
  ASSUME ~SameInstant
  PROVE  Spec => []NoMoveUnseen
<1>1. Init => TInv
  BY NoneAssumption, BoundsAssumption
     DEF Init, TInv, Timely, News, NoMoveUnseen
<1>2. ASSUME TypeOK, Telling, TInv, Next
      PROVE  TInv'
  <2>1. CASE Retire
    <3>1. Stamped
      BY <1>2, <2>1 DEF Retire, Stamped, TypeOK
    <3>2. Forwarded /\ UNCHANGED <<shown, lastUpdated>>
      BY <1>2, <2>1 DEF Retire, page, Forwarded, TypeOK
    <3> QED BY <1>2, <3>1, <3>2, ForwardedTimely
  <2>2. CASE TimerFires \/ Login \/ Play \/ \E g \in Games : LaunchGame(g)
    <3>1. UNCHANGED <<games, shown, lastUpdated>>
      BY <2>2 DEF TimerFires, Login, Play, LaunchGame, server, games, page
    <3>2. Stamped
      BY <1>2, <3>1 DEF games, Stamped, TypeOK
    <3>3. Forwarded
      <4>1. gameID' \in Games
        BY <1>2, <2>2 DEF TimerFires, Login, Play, LaunchGame, page, TypeOK
      <4>2. (\E kind \in Kinds : Send(kind)) \/ requests' = requests
        BY <2>2 DEF TimerFires, Login, Play, LaunchGame, Kinds
      <4> QED BY <1>2, <4>1, <4>2, SendForwards DEF Forwarded, TypeOK
    <3> QED BY <1>2, <3>1, <3>2, <3>3, ForwardedTimely
  <2>3. ASSUME NEW g \in Games, Others(g) \/ Deleted(g)
        PROVE  TInv'
    <3>1. Stamped
      <4>1. CASE Others(g)
        BY <1>2, <4>1, GameStamped DEF Others, Acted
      <4>2. CASE Deleted(g)
        BY <1>2, <4>2 DEF Deleted, Stamped, TypeOK
      <4> QED BY <2>3, <4>1, <4>2
    <3>2. Forwarded /\ UNCHANGED <<shown, lastUpdated>>
      BY <1>2, <2>3 DEF Others, Deleted, page, Forwarded, TypeOK
    <3> QED BY <1>2, <3>1, <3>2, ForwardedTimely
  <2>4. ASSUME NEW i \in Slots, Serve(i) \/ Break(i)
        PROVE  TInv'
    BY <1>2, <2>4, ServeHandles, HandledTimely
  <2>5. ASSUME NEW i \in Slots, Receive(i)
        PROVE  TInv'
    BY <1>2, <2>5, ReceiveTimely
  <2> QED BY <1>2, <2>1, <2>2, <2>3, <2>4, <2>5 DEF Next
<1>3. ASSUME TypeOK, Telling, TInv, UNCHANGED vars
      PROVE  TInv'
  <2>1. Stamped /\ Forwarded /\ UNCHANGED <<shown, lastUpdated>>
    BY <1>3 DEF vars, server, games, page, Stamped, Forwarded, TypeOK
  <2> QED BY <1>3, <2>1, ForwardedTimely
<1>4. TypeOK /\ Telling /\ TInv /\ [Next]_vars => TInv'
  BY <1>2, <1>3
<1>5. TInv => NoMoveUnseen
  BY DEF TInv
<1> QED BY <1>1, <1>4, <1>5, AlwaysTyped, PTL DEF Spec
=============================================================================
