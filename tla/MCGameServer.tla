---------------------------- MODULE MCGameServer ----------------------------
(* Small instances of GameServer for TLC, and the documents of moves. *)
EXTENDS GameServerProperties, TLC

\* Users choose players by name and moves by seat order, ids are opaque: ids of
\* games and sessions are interchangeable.
Symmetric == Permutations(GameIds) \cup Permutations(SessionIds)

MCParts ==
    [type : {Absent, Text("ingredient"), Text("recipe"), Text("none"), Num(1)},
     id : {Absent, Num(3), Text("3")},
     player : {Absent, Text("p"), Num(1)}]

\* What a page, or anything else that posts a turn, may send.
MCPosted ==
    [action : {Text(a) : a \in ActionNames \cup {"unknown"}} \cup {Absent, Num(1)},
     card : {Absent, Num(-1), Num(7), Strange},
     ingredient : {Absent, Num(-1), Num(4), Strange},
     player : {Absent, Text(""), Text("p"), Strange},
     deck : {Absent, Text("base"), Num(1)},
     parts : {Absent, Strange, List(<<>>)}
             \cup {List(<<p>>) : p \in MCParts}
             \cup {List(<<p, p>>) : p \in {q \in MCParts : AcceptsPart(q)}}]
=============================================================================
