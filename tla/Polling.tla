------------------------------ MODULE Polling ------------------------------
(***************************************************************************)
(* A page of client.js and the server it watches.  The page asks every     *)
(* five seconds when its game last changed, and loads the game when that   *)
(* is later than the time of the board it shows.  Its requests are         *)
(* answered one at a time, but the answers come back in any order: a load  *)
(* begun by the timer, one begun by a click and a refusal may overtake     *)
(* each other.                                                             *)
(*                                                                         *)
(* A board is a number, a new one for every move of the game and for every *)
(* undo.  The order of the cards in the user's own hand is kept apart: the *)
(* user may rearrange it at any time, with a turn that gives the game no   *)
(* new time.  The time of a move is read from the clock; a game that is    *)
(* loaded gets the time of the load.                                       *)
(***************************************************************************)
EXTENDS Integers

CONSTANTS
    Games,
    None,           \* not a board, a time or a request
    SameInstant,    \* two stamps may be given in one millisecond
    Slots,          \* bound: requests of the page under way at once
    MaxChanges,     \* bound on what others do to the server, and failures
    MaxClicks       \* bound on what the user of the page does

ASSUME BoundsAssumption ==
    /\ None \notin Nat /\ SameInstant \in BOOLEAN
    /\ MaxChanges \in Nat /\ MaxClicks \in Nat

Kinds == {"lastupdate", "query", "turn", "undo"}
Sent == [kind : Kinds, game : Games, session : Nat]
Statuses == {"ok", "bad", "unauthorized", "error"}
Answered == [kind : Kinds, game : Games, status : Statuses,
             board : Nat \cup {None}, hand : Nat \cup {None}, updated : Nat \cup {None}]
ASSUME NoneAssumption == None \notin Sent /\ None \notin Answered

VARIABLES
    board,          \* the board of each game, None when it is deleted
    hand,           \* how often the hand the page's user has in each game was
                    \* rearranged: its order
    stamp,          \* lastMove_ of a game in the server's cache, or None
    clock,          \* the last time read by the server
    known,          \* sessions_: session ids
    view,           \* which of the page's parts is not hidden
    session, gameID, lastUpdated,
    shown,          \* the game, board and hand last drawn
    timer,          \* gameTimerID # null
    notified,       \* there is a notification
    handle,         \* blinkHandle is a running interval
    strays,         \* running intervals that no variable holds
    requests,       \* requests and answers under way
    changes, clicks

games == <<board, hand, stamp, clock>>
server == <<games, known>>
page == <<view, session, gameID, lastUpdated, shown, timer>>
notice == <<notified, handle, strays>>
vars == <<server, page, notice, requests, changes, clicks>>

Init ==
    /\ board = [g \in Games |-> 0] /\ hand = [g \in Games |-> 0]
    /\ stamp = [g \in Games |-> None]
    /\ clock = 0 /\ known = {}
    /\ view = "login" /\ session = 0 /\ gameID \in Games /\ lastUpdated = 0
    /\ shown = None /\ timer = FALSE
    /\ notified = FALSE /\ handle = FALSE /\ strays = 0
    /\ requests = [i \in Slots |-> None]
    /\ changes = 0 /\ clicks = 0
-----------------------------------------------------------------------------
(* The server. *)

\* Utils::GetTime, in milliseconds.
Stamps == IF SameInstant THEN {clock, clock + 1} ELSE {clock + 1}

\* PerformMove of a move of the game.
Changed(g) ==
    /\ UNCHANGED hand
    /\ \E t \in Stamps :
        /\ board' = [board EXCEPT ![g] = board[g] + 1]
        /\ stamp' = [stamp EXCEPT ![g] = t]
        /\ clock' = t

\* The cached game stays.
FaultyTakenBack(g) ==
    /\ board' = [board EXCEPT ![g] = board[g] + 1]
    /\ UNCHANGED <<hand, stamp, clock>>

\* undo changes the document and drops the game from the cache.
TakenBack(g) ==
    /\ board' = [board EXCEPT ![g] = board[g] + 1]
    /\ stamp' = [stamp EXCEPT ![g] = None]
    /\ UNCHANGED <<hand, clock>>

\* A game that is read keeps no time.
FaultyReached(g) == UNCHANGED games

\* findGame: a game that is not in the cache is read, and stamped.
Found(g) ==
    /\ UNCHANGED board
    /\ IF stamp[g] # None THEN UNCHANGED <<stamp, clock>>
       ELSE \E t \in Stamps : stamp' = [stamp EXCEPT ![g] = t] /\ clock' = t

\* A request that reads the game, or whose move is refused.
Reached(g) == Found(g) /\ UNCHANGED hand

\* PerformMove of OrganizeHand returns before the time is read: a game that was in
\* the cache keeps the time it had.
Organized(g) == Found(g) /\ hand' = [hand EXCEPT ![g] = hand[g] + 1]

\* The other players, and other pages of the same user.
Others(g) ==
    /\ changes < MaxChanges /\ changes' = changes + 1
    /\ board[g] # None
    /\ Changed(g) \/ TakenBack(g) \/ Reached(g) \/ Organized(g)
    /\ UNCHANGED <<known, page, notice, requests, clicks>>

Deleted(g) ==
    /\ changes < MaxChanges /\ changes' = changes + 1
    /\ board' = [board EXCEPT ![g] = None]
    /\ stamp' = [stamp EXCEPT ![g] = None]
    /\ UNCHANGED <<hand, clock, known, page, notice, requests, clicks>>

\* The sessions expire, or are lost with the process.
Retire ==
    /\ changes < MaxChanges /\ changes' = changes + 1
    /\ known' = {}
    /\ stamp' \in {stamp, [g \in Games |-> None]}
    /\ UNCHANGED <<board, hand, clock, page, notice, requests, clicks>>

\* The game's state and time, as the handler leaves them.
Answer(i, status) ==
    LET r == requests[i]
        full == status = "ok" /\ r.kind \in {"lastupdate", "query"}
    IN  requests' = [requests EXCEPT ![i] =
            [kind |-> r.kind, game |-> r.game, status |-> status,
             board |-> IF full THEN board'[r.game] ELSE None,
             hand |-> IF full THEN hand'[r.game] ELSE None,
             updated |-> IF full THEN stamp'[r.game] ELSE None]]

Serve(i) ==
    LET r == requests[i]
        g == r.game
    IN  /\ r \in Sent
        /\ \/ /\ r.session \notin known
              /\ Answer(i, "unauthorized")
              /\ UNCHANGED games
           \/ /\ r.session \in known /\ board[g] = None
              /\ Answer(i, "bad")
              /\ UNCHANGED games
           \/ /\ r.session \in known /\ board[g] # None
              /\ \/ r.kind \in {"lastupdate", "query"} /\ Reached(g) /\ Answer(i, "ok")
                 \/ r.kind = "turn" /\ (Changed(g) \/ Organized(g)) /\ Answer(i, "ok")
                 \/ r.kind = "undo" /\ TakenBack(g) /\ Answer(i, "ok")
                 \/ r.kind = "turn" /\ Reached(g) /\ Answer(i, "bad")
                 \/ r.kind = "undo" /\ UNCHANGED games /\ Answer(i, "bad")
        /\ UNCHANGED <<known, page, notice, changes, clicks>>

\* The handler throws, before it has changed the game or after; or the
\* connection breaks.
Break(i) ==
    LET r == requests[i]
    IN  /\ changes < MaxChanges /\ changes' = changes + 1
        /\ r \in Sent
        /\ \/ UNCHANGED games
           \/ /\ r.session \in known /\ board[r.game] # None
              /\ \/ r.kind = "turn" /\ (Changed(r.game) \/ Organized(r.game))
                 \/ r.kind = "undo" /\ TakenBack(r.game)
        /\ Answer(i, "error")
        /\ UNCHANGED <<known, page, notice, clicks>>
-----------------------------------------------------------------------------
(* The page. *)

Request(kind) == [kind |-> kind, game |-> gameID', session |-> session]

Send(kind) ==
    \E i \in Slots : requests[i] = None /\ requests' = [requests EXCEPT ![i] = Request(kind)]

\* removeNotification.
RemoveNotification ==
    /\ notified' = FALSE
    /\ handle' = (handle /\ ~notified)
    /\ UNCHANGED strays

\* The notification that is there is left behind.
FaultyAddNotification ==
    /\ notified' = TRUE
    /\ handle' = TRUE
    /\ strays' = IF handle THEN strays + 1 ELSE strays

\* addNotification removes the one before; setInterval.
AddNotification ==
    /\ notified' = TRUE
    /\ handle' = TRUE
    /\ strays' = IF handle /\ ~notified THEN strays + 1 ELSE strays

\* gameTimer.
TimerFires ==
    /\ timer
    /\ timer' = FALSE
    /\ UNCHANGED <<view, session, gameID, lastUpdated, shown>>
    /\ Send("lastupdate")
    /\ UNCHANGED <<server, notice, changes, clicks>>

Done(i) == requests' = [requests EXCEPT ![i] = None]

\* The timer is not set again when there is nothing new.
FaultyPolled(i) ==
    LET a == requests[i]
    IN  /\ UNCHANGED page
        /\ IF a.updated > lastUpdated
           THEN requests' = [requests EXCEPT ![i] = Request("query")] /\ AddNotification
           ELSE Done(i) /\ UNCHANGED notice

\* The callback of gameTimer.
Polled(i) ==
    LET a == requests[i]
    IN  IF a.updated > lastUpdated
        THEN /\ UNCHANGED page
             /\ requests' = [requests EXCEPT ![i] = Request("query")]
             /\ AddNotification
        ELSE /\ Done(i)
             /\ timer' = TRUE
             /\ UNCHANGED <<view, session, gameID, lastUpdated, shown, notice>>

\* An older time does not replace a newer one, the board does.
FaultyDrawn(i) ==
    LET a == requests[i]
    IN  /\ shown' = [game |-> a.game, board |-> a.board, hand |-> a.hand]
        /\ lastUpdated' = IF a.updated > lastUpdated THEN a.updated ELSE lastUpdated
        /\ timer' = TRUE
        /\ Done(i)
        /\ UNCHANGED <<view, session, gameID, notice>>

\* The callback of redrawBoard: whichever game and board come back are drawn.
Drawn(i) ==
    LET a == requests[i]
    IN  /\ shown' = [game |-> a.game, board |-> a.board, hand |-> a.hand]
        /\ lastUpdated' = a.updated
        /\ timer' = TRUE
        /\ Done(i)
        /\ UNCHANGED <<view, session, gameID, notice>>

\* The callbacks of request: redrawBoard after a turn or an undo, a bubble for
\* a refusal, the login form for a lost session and for a failure.
Receive(i) ==
    LET a == requests[i]
    IN  /\ a \in Answered
        /\ \/ a.status = "ok" /\ a.kind = "lastupdate" /\ Polled(i)
           \/ a.status = "ok" /\ a.kind = "query" /\ Drawn(i)
           \/ /\ a.status = "ok" /\ a.kind \in {"turn", "undo"}
              /\ UNCHANGED <<page, notice>>
              /\ requests' = [requests EXCEPT ![i] = Request("query")]
           \/ a.status = "bad" /\ Done(i) /\ UNCHANGED <<page, notice>>
           \/ /\ a.status \in {"unauthorized", "error"}
              /\ Done(i)
              /\ view' = "login"
              /\ UNCHANGED <<session, gameID, lastUpdated, shown, timer, notice>>
        /\ UNCHANGED <<server, changes, clicks>>

\* Any click removes the notification.
Click ==
    /\ clicks < MaxClicks /\ clicks' = clicks + 1
    /\ RemoveNotification
    /\ UNCHANGED changes

\* login, and the list of games it opens.
Login ==
    /\ Click
    /\ view = "login"
    /\ session' = session + 1 /\ known' = known \cup {session + 1}
    /\ view' = "games"
    /\ UNCHANGED <<games, gameID, lastUpdated, shown, timer, requests>>

LaunchGame(g) ==
    /\ Click
    /\ view = "games"
    /\ gameID' = g /\ view' = "game"
    /\ UNCHANGED <<session, lastUpdated, shown, timer>>
    /\ Send("query")
    /\ UNCHANGED server

\* "Refresh", a turn (its button, or a card dropped at another place of the hand),
\* "Undo".
Play ==
    /\ Click
    /\ view = "game"
    /\ UNCHANGED page
    /\ \E kind \in {"query", "turn", "undo"} : Send(kind)
    /\ UNCHANGED server

Next ==
    \/ Retire \/ TimerFires \/ Login \/ Play
    \/ \E g \in Games : Others(g) \/ Deleted(g) \/ LaunchGame(g)
    \/ \E i \in Slots : Serve(i) \/ Break(i) \/ Receive(i)

Fairness ==
    /\ WF_vars(TimerFires)
    /\ \A i \in Slots : WF_vars(Serve(i)) /\ WF_vars(Receive(i))

Spec == Init /\ [][Next]_vars /\ Fairness
-----------------------------------------------------------------------------
TypeOK ==
    /\ board \in [Games -> Nat \cup {None}] /\ stamp \in [Games -> Nat \cup {None}]
    /\ hand \in [Games -> Nat] /\ clock \in Nat /\ known \in SUBSET Nat
    /\ view \in {"login", "games", "game"} /\ session \in Nat /\ gameID \in Games
    /\ lastUpdated \in Nat
    /\ shown \in [game : Games, board : Nat, hand : Nat] \cup {None}
    /\ timer \in BOOLEAN /\ notified \in BOOLEAN /\ handle \in BOOLEAN /\ strays \in Nat
    /\ requests \in [Slots -> Sent \cup Answered \cup {None}]
    /\ changes \in Nat /\ clicks \in Nat

\* A page that shows a game never stops watching: it has a timer, or a request
\* whose answer sets one.
Watching ==
    view = "game" /\ board[gameID] # None =>
        \/ timer
        \/ \E i \in Slots : requests[i] # None /\ requests[i].kind \in {"lastupdate", "query"}

\* No move and no undo goes unseen: a page that would be told a time not later than
\* the one it has shows the board as it is, whatever answers overtook others.  (It
\* may show the user's own hand in an order it had before: a rearranged hand gives
\* the game no time, and a load begun before it may be drawn after it.)
NoMoveUnseen ==
    shown # None /\ stamp[shown.game] # None /\ stamp[shown.game] <= lastUpdated
        => shown.board = board[shown.game]

\* The title blinks exactly while the notification is there: a click stops it.
BlinksWhileNotified == handle = notified /\ strays = 0

\* Once others and the user of the page rest, the page comes to show the board of
\* its game as it is, if it shows its game at all; for the order of the user's own
\* hand nothing of the kind is true.
CatchesUp ==
    <>[](view = "game" /\ board[gameID] # None =>
            shown # None /\ (shown.game = gameID => shown.board = board[gameID]))
=============================================================================
