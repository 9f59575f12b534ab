---------------------------- MODULE ProtocolProofs ----------------------------
(***************************************************************************)
(* The two sides of each connection keep in step, for every set of names   *)
(* and moves and every bound, as long as the clients have different names. *)
(*                                                                         *)
(* The invariant follows a client through the messages that are still on   *)
(* their way to it: taking them one by one, it comes to the place where    *)
(* the server, by its own place, believes it to be.  Each send prolongs    *)
(* that path, each receive of the client shortens it, and an answer is     *)
(* sent at its end only.                                                   *)
(*                                                                         *)
(* The second half proves that both users are shown one game.  There is    *)
(* one line of moves and winners: what a user has been shown, what is on   *)
(* its way to the client, and what the thread still owes it by its place   *)
(* and the shared resources, make up that line for each of the two.  Only  *)
(* a published move and a losing verdict make the line longer.             *)
(***************************************************************************)
EXTENDS MCProtocol, ServiceThreadsProofs, SequenceTheorems

DifferentNames == \A t, u \in Threads : t # u => UserName[t] # UserName[u]

Values == Names \cup Moves \cup {NULL, "END", "CONT"}

Types ==
  {"CLIENT_REQUEST", "CLIENT_VERSUS", "CLIENT_DISCONNECT", "CLIENT_PLAYER_MOVE",
   "SERVER_APPROVED", "SERVER_MAIN_MENU", "SERVER_NO_OPPONENTS", "GAME_STARTED",
   "TURN_SWITCH", "SERVER_MOVE_REQUEST", "GAME_VIEW", "GAME_ENDED"}

Messages == [type : Types, parameters : Seq(Values)]

(* A client at place p that receives m goes on to q. *)
Takes(t, p, m, q) ==
  \/ p = "reply" /\ m.type = "SERVER_APPROVED" /\ q = "menu"
  \/ p = "menu" /\ m.type = "SERVER_MAIN_MENU" /\ q = "choose"
  \/ p = "answer" /\ m.type = "SERVER_NO_OPPONENTS" /\ q = "menu"
  \/ p = "answer" /\ m.type = "GAME_STARTED" /\ q = "turn"
  \/ /\ p = "turn" /\ m.type = "TURN_SWITCH"
     /\ q = IF m.parameters[1] = UserName[t] THEN "move_request" ELSE "other_view"
  \/ p = "move_request" /\ m.type = "SERVER_MOVE_REQUEST" /\ q = "enter_move"
  \/ /\ p \in {"own_view", "other_view"} /\ m.type = "GAME_VIEW"
     /\ q = IF m.parameters[3] = "CONT" THEN "turn" ELSE "ended"
  \/ p = "ended" /\ m.type = "GAME_ENDED" /\ q = "menu"

(* The messages of q lead it from p to a. *)
Path(t, p, q, a) ==
  \E f \in [0..Len(q) -> C!Places] :
    /\ f[0] = p
    /\ f[Len(q)] = a
    /\ \A i \in 1..Len(q) : Takes(t, f[i - 1], q[i], f[i])

(* Where the client will be when it has read all that has been sent. *)
GameAim(t) ==
  CASE game_pc[t] \in {"game_loop", "turn"} -> "turn"
    [] game_pc[t] = "recv_move" -> "enter_move"
    [] game_pc[t] \in MoverPlaces \ {"recv_move"} -> "own_view"
    [] game_pc[t] \in WaiterPlaces -> "other_view"
    [] OTHER -> "ended"

Aim(t) ==
  CASE pc[t] = "request" -> "none"
    [] pc[t] \in {"menu", "decrease", "reset_first", "reinit"} -> "menu"
    [] pc[t] = "choose" -> "choose"
    [] pc[t] = "game_loop" -> GameAim(t)
    [] OTHER -> "answer"

AimsAt(t, a) ==
  IF pc[t] = "down"
    THEN a # "move_request" /\ (a = "enter_move" => game_pc[t] = "recv_move")
    ELSE a = Aim(t)

(* How many messages the server has sent at most since it last received one. *)
Ahead(t) ==
  CASE pc[t] \in {"decrease", "reset_first"} -> 1
    [] pc[t] \in {"menu", "reinit"} -> 4
    [] pc[t] \in {"choose", "down"} -> 5
    [] pc[t] = "game_loop" /\ game_pc[t] = "game_loop" -> 1
    [] pc[t] = "game_loop" /\ game_pc[t] = "turn" -> IF my_client_turn[t] THEN 3 ELSE 1
    [] pc[t] = "game_loop" /\ game_pc[t] = "recv_move" -> 5
    [] pc[t] = "game_loop" /\ game_pc[t] \in WaiterPlaces -> 2
    [] pc[t] = "game_loop" /\ game_pc[t] = "send_ended" -> 3
    [] OTHER -> 0

(* Who has sent a message of some type, and who is to receive it. *)
Answers(t, type) ==
  \/ type = "CLIENT_REQUEST" /\ place[t] = "reply" /\ pc[t] \in {"request", "down"}
  \/ type = "CLIENT_VERSUS" /\ place[t] = "answer" /\ pc[t] \in {"choose", "down"}
  \/ type = "CLIENT_DISCONNECT" /\ place[t] = "gone" /\ pc[t] \in {"choose", "down"}
  \/ /\ type = "CLIENT_PLAYER_MOVE" /\ place[t] = "own_view"
     /\ pc[t] = "down" \/ (pc[t] = "game_loop" /\ game_pc[t] = "recv_move")

UpLink(t) ==
  to_server[t] # <<>> =>
    /\ Len(to_server[t]) = 1
    /\ to_client[t] = <<>>
    /\ Answers(t, Received(t).type)
    /\ Received(t).type = "CLIENT_REQUEST" => Received(t).parameters = <<UserName[t]>>

DownLink(t) ==
  to_server[t] = <<>> /\ place[t] # "gone" =>
    \E a \in C!Places : AimsAt(t, a) /\ Path(t, place[t], to_client[t], a)

GoneLink(t) ==
  /\ connected[t] <=> ~(place[t] = "gone" /\ to_server[t] = <<>>)
  /\ place[t] = "gone" => to_client[t] = <<>>

Link(t) == UpLink(t) /\ DownLink(t) /\ GoneLink(t) /\ Len(to_client[t]) <= Ahead(t)

WireInv ==
  /\ place \in [Threads -> C!Places]
  /\ to_client \in [Threads -> Seq(Messages)]
  /\ to_server \in [Threads -> Seq(Messages)]
  /\ client_name = UserName
  /\ \A t \in Threads : Link(t)

(* In a game that has started as GameLoop says, each thread names its rival ... *)
RivalInv ==
  "start" \notin departed => \A t, u \in Threads : t # u =>
    /\ Playing(t) /\ ~InLoop(t) => player_name[OtherPlayer(t)] = UserName[u]
    /\ InLoop(t) => other_client_name[t] = UserName[u]

Together == \A t \in Threads : pc[t] \in {"game_started", "game_loop", "reinit"}

(* ... the turn is one token, and nobody moves after the end. *)
TokenInv == "start" \notin departed /\ Together => TurnInv /\ BoardInv /\ EndInv

(* Only one thread waits for a move, also when the process has ended. *)
MoverInv ==
  /\ \A t \in Threads : game_pc[t] = "recv_move" => pc[t] \in {"game_loop", "down"}
  /\ \A t, u \in Threads : game_pc[t] = "recv_move" /\ game_pc[u] = "recv_move" => t = u

-----------------------------------------------------------------------------
(* Messages and paths.                                                     *)

LEMMA ClientPlaces ==
  C!Places = {"reply", "menu", "answer", "turn", "move_request", "own_view",
              "other_view", "ended", "choose", "enter_move", "gone"}
BY DEF C!Places, C!Awaits, C!UserPlaces

LEMMA MessageIsTyped ==
  /\ \A type \in Types : C!Message(type, <<>>) \in Messages
  /\ \A type \in Types, v \in Values : C!Message(type, <<v>>) \in Messages
  /\ \A type \in Types, v1, v2, v3 \in Values :
       C!Message(type, <<v1, v2, v3>>) \in Messages
BY DEF C!Message, Messages

LEMMA OneIsAll ==
  ASSUME NEW q \in Seq(Messages), Len(q) = 1 PROVE Tail(q) = <<>>
<1>1. q # <<>>
  BY EmptySeq
<1>2. Tail(q) \in Seq(Messages) /\ Len(Tail(q)) = 0
  BY <1>1, HeadTailProperties
<1> QED
  BY <1>2, EmptySeq

LEMMA TakesIsFunctional ==
  ASSUME NEW t, NEW p, NEW m, NEW q, NEW r, Takes(t, p, m, q), Takes(t, p, m, r)
  PROVE  q = r
BY DEF Takes

LEMMA PathOfNothing ==
  ASSUME NEW t, NEW p \in C!Places, NEW a
  PROVE  Path(t, p, <<>>, a) <=> a = p
<1>1. ASSUME Path(t, p, <<>>, a) PROVE a = p
  BY <1>1 DEF Path
<1>2. ASSUME a = p PROVE Path(t, p, <<>>, a)
  <2> DEFINE f == [i \in 0..0 |-> p]
  <2>1. /\ f \in [0..Len(<<>>) -> C!Places] /\ f[0] = p /\ f[Len(<<>>)] = p
        /\ \A i \in 1..Len(<<>>) : FALSE
    OBVIOUS
  <2> HIDE DEF f
  <2> QED
    BY <1>2, <2>1 DEF Path
<1> QED
  BY <1>1, <1>2

LEMMA PathGrows ==
  ASSUME NEW t, NEW p, NEW q \in Seq(Messages), NEW a, Path(t, p, q, a),
         NEW m \in Messages, NEW b \in C!Places, Takes(t, a, m, b)
  PROVE  Path(t, p, q \o <<m>>, b)
<1>1. PICK f \in [0..Len(q) -> C!Places] :
        /\ f[0] = p
        /\ f[Len(q)] = a
        /\ \A i \in 1..Len(q) : Takes(t, f[i - 1], q[i], f[i])
  BY DEF Path
<1> DEFINE s == q \o <<m>>
           n == Len(q)
           g == [i \in 0..(n + 1) |-> IF i <= n THEN f[i] ELSE b]
<1>2. n \in Nat /\ Len(s) = n + 1 /\ s[n + 1] = m /\ \A i \in 1..n : s[i] = q[i]
  OBVIOUS
<1>3. g \in [0..Len(s) -> C!Places] /\ g[0] = p /\ g[Len(s)] = b
  BY <1>1, <1>2
<1>4. ASSUME NEW i \in 1..Len(s) PROVE Takes(t, g[i - 1], s[i], g[i])
  <2>1. CASE i <= n
    <3>1. g[i - 1] = f[i - 1] /\ g[i] = f[i] /\ s[i] = q[i] /\ i \in 1..n
      BY <1>2, <2>1
    <3> QED
      BY <1>1, <3>1
  <2>2. CASE i = n + 1
    <3>1. g[i - 1] = a /\ g[i] = b /\ s[i] = m
      BY <1>1, <1>2, <2>2
    <3> QED
      BY <3>1
  <2> QED
    BY <1>2, <2>1, <2>2
<1> HIDE DEF s, g
<1> QED
  BY <1>3, <1>4 DEF Path, s

LEMMA PathShrinks ==
  ASSUME NEW t, NEW p, NEW q \in Seq(Messages), q # <<>>, NEW a, Path(t, p, q, a)
  PROVE  \E r \in C!Places : Takes(t, p, Head(q), r) /\ Path(t, r, Tail(q), a)
<1>1. PICK f \in [0..Len(q) -> C!Places] :
        /\ f[0] = p
        /\ f[Len(q)] = a
        /\ \A i \in 1..Len(q) : Takes(t, f[i - 1], q[i], f[i])
  BY DEF Path
<1> DEFINE s == Tail(q)
           n == Len(q)
           g == [i \in 0..(n - 1) |-> f[i + 1]]
<1>2. /\ n \in Nat /\ n >= 1 /\ Len(s) = n - 1 /\ Head(q) = q[1]
      /\ \A i \in 1..Len(s) : s[i] = q[i + 1]
  OBVIOUS
<1>3. f[1] \in C!Places /\ Takes(t, p, Head(q), f[1])
  BY <1>1, <1>2
<1>4. g \in [0..Len(s) -> C!Places] /\ g[0] = f[1] /\ g[Len(s)] = a
  BY <1>1, <1>2
<1>5. ASSUME NEW i \in 1..Len(s) PROVE Takes(t, g[i - 1], s[i], g[i])
  <2>1. g[i - 1] = f[i] /\ g[i] = f[i + 1] /\ s[i] = q[i + 1] /\ i + 1 \in 1..n
    BY <1>2
  <2>2. Takes(t, f[(i + 1) - 1], q[i + 1], f[i + 1])
    BY <1>1, <2>1
  <2> QED
    BY <2>1, <2>2
<1> HIDE DEF g
<1>6. Path(t, f[1], Tail(q), a)
  BY <1>4, <1>5 DEF Path
<1> QED
  BY <1>3, <1>6

-----------------------------------------------------------------------------
(* What a step of one thread does to its connection and to the other ones. *)

Connection(t) == <<place[t], to_client[t], to_server[t], connected[t]>>

(* A connection that nothing is sent on, of a thread that goes on to a place
   where it believes the same of its client. *)
LEMMA LinkStays ==
  ASSUME WireInv, NEW t \in Threads, UNCHANGED Connection(t),
         Ahead(t) <= Ahead(t)',
         \/ place[t] = "gone" /\ to_server[t] = <<>>
         \/ (to_server[t] # <<>> => Answers(t, Received(t).type)')
              /\ (\A a \in C!Places : AimsAt(t, a) => AimsAt(t, a)')
  PROVE  Link(t)'
<1> USE DEF Connection, WireInv, Link
<1>1. to_client[t] \in Seq(Messages) /\ Ahead(t) \in Nat /\ Ahead(t)' \in Nat
  BY DEF Ahead
<1>2. Len(to_client[t])' <= Ahead(t)'
  BY <1>1
<1>3. UpLink(t)'
  BY DEF UpLink, Received
<1>4. DownLink(t)'
  BY DEF DownLink
<1>5. GoneLink(t)'
  BY DEF GoneLink
<1> QED
  BY <1>2, <1>3, <1>4, <1>5

(* The other thread of a step of this one. *)
LEMMA OtherLinkStays ==
  ASSUME WireInv, NEW t \in Threads, UNCHANGED Connection(t),
         pc'[t] = pc[t], my_client_turn'[t] = my_client_turn[t],
         \/ game_pc'[t] = game_pc[t]
         \/ game_pc[t] = "blocked" /\ game_pc'[t] = "read_move"
  PROVE  Link(t)'
<1>1. Ahead(t) = Ahead(t)' /\ Ahead(t) \in Nat
  BY DEF Ahead, WaiterPlaces
<1>2. \A type \in Types : Answers(t, type) => Answers(t, type)'
  BY DEF Answers, Connection
<1>3. \A a : AimsAt(t, a) => AimsAt(t, a)'
  BY DEF AimsAt, Aim, GameAim, MoverPlaces, WaiterPlaces
<1>4. to_server[t] # <<>> => Received(t) \in Messages
  BY DEF WireInv, Received
<1>5. to_server[t] # <<>> => Answers(t, Received(t).type)
  BY DEF WireInv, Link, UpLink
<1>6. to_server[t] # <<>> => Answers(t, Received(t).type)'
  BY <1>2, <1>4, <1>5 DEF Messages, Answers, Connection, Received
<1> QED
  BY <1>1, <1>3, <1>6, LinkStays

(* The server sends what takes the client on to where it believes it to be. *)
LEMMA LinkGrows ==
  ASSUME WireInv, NEW t \in Threads, NEW messages \in Seq(Messages),
         Sends(t, messages), UNCHANGED <<place, connected>>,
         to_server[t] = <<>>, pc[t] # "down",
         Ahead(t) + Len(messages) <= Ahead(t)',
         \A p \in C!Places, q \in Seq(Messages) :
           Path(t, p, q, Aim(t)) => Path(t, p, q \o messages, Aim(t)'),
         Aim(t)' \in C!Places, pc'[t] # "down"
  PROVE  Link(t)'
<1> USE DEF WireInv, Link, Sends
<1>1. /\ to_client[t] \in Seq(Messages) /\ to_server'[t] = <<>>
      /\ place[t] \in C!Places
  OBVIOUS
<1>2. Ahead(t) \in Nat /\ Ahead(t)' \in Nat
  BY DEF Ahead
<1>3. CASE place[t] = "gone"
  <2>1. to_client'[t] = <<>>
    BY <1>3 DEF GoneLink
  <2> QED
    BY <1>1, <1>2, <1>3, <2>1 DEF UpLink, DownLink, GoneLink
<1>4. CASE place[t] # "gone"
  <2>1. to_client'[t] = to_client[t] \o messages
    BY <1>4
  <2>2. Len(to_client'[t]) <= Ahead(t)'
    BY <1>1, <1>2, <2>1
  <2>3. Path(t, place[t], to_client[t], Aim(t))
    BY <1>4 DEF DownLink, AimsAt
  <2>4. Path(t, place[t], to_client'[t], Aim(t)')
    BY <1>1, <2>1, <2>3
  <2>5. DownLink(t)'
    BY <1>4, <2>4 DEF DownLink, AimsAt
  <2> QED
    BY <1>1, <1>4, <2>2, <2>5 DEF UpLink, GoneLink
<1> QED
  BY <1>3, <1>4

-----------------------------------------------------------------------------
(* Steps of one thread or client.                                          *)

WireTypes ==
  /\ place \in [Threads -> C!Places]
  /\ to_client \in [Threads -> Seq(Messages)]
  /\ to_server \in [Threads -> Seq(Messages)]

OthersPlay(t) ==
  \A u \in Threads \ {t} :
    /\ pc'[u] = pc[u]
    /\ my_client_turn'[u] = my_client_turn[u]
    /\ \/ game_pc'[u] = game_pc[u]
       \/ game_pc[u] = "blocked" /\ game_pc'[u] = "read_move"

OthersStay(t) ==
  /\ OthersPlay(t)
  /\ \A u \in Threads \ {t} : UNCHANGED Connection(u)

LEMMA WireKept ==
  ASSUME WireInv, NEW t \in Threads, WireTypes', client_name' = client_name,
         OthersStay(t), Link(t)'
  PROVE  WireInv'
<1>1. ASSUME NEW u \in Threads \ {t} PROVE Link(u)'
  BY <1>1, OtherLinkStays DEF OthersStay, OthersPlay
<1> QED
  BY <1>1 DEF WireInv, WireTypes

LEMMA SendsTypes ==
  ASSUME WireInv, NEW t \in Threads, NEW messages \in Seq(Messages),
         Sends(t, messages), UNCHANGED place
  PROVE  WireTypes' /\ \A u \in Threads \ {t} :
           to_client'[u] = to_client[u] /\ to_server'[u] = to_server[u]
BY DEF WireInv, WireTypes, Sends

LEMMA ReceivesTypes ==
  ASSUME WireInv, NEW t \in Threads, Receives(t), UNCHANGED place
  PROVE  /\ WireTypes'
         /\ \A u \in Threads \ {t} :
              to_client'[u] = to_client[u] /\ to_server'[u] = to_server[u]
         /\ to_server'[t] = <<>> /\ to_client'[t] = <<>>
         /\ Answers(t, Received(t).type)
<1> USE DEF WireInv, WireTypes, Receives, Link, UpLink
<1>1. to_server[t] \in Seq(Messages) /\ Len(to_server[t]) = 1 /\ to_client[t] = <<>>
  OBVIOUS
<1>2. Tail(to_server[t]) = <<>>
  BY <1>1
<1> QED
  BY <1>1, <1>2

LEMMA NothingSent ==
  ASSUME WireInv, NEW t \in Threads,
         pc[t] \notin {"request", "choose", "down"},
         pc[t] = "game_loop" => game_pc[t] # "recv_move"
  PROVE  to_server[t] = <<>>
BY DEF WireInv, Link, UpLink, Answers

LEMMA Disconnected ==
  ASSUME WireInv, NEW t \in Threads, ~connected[t]
  PROVE  place[t] = "gone" /\ to_server[t] = <<>> /\ to_client[t] = <<>>
BY DEF WireInv, Link, GoneLink

(* A thread that ends because its client has gone, or goes on without it. *)
LEMMA LinkEnds ==
  ASSUME WireInv, NEW t \in Threads, place'[t] = "gone",
         to_client'[t] = <<>>, to_server'[t] = <<>>, ~connected'[t]
  PROVE  Link(t)'
<1>1. Len(to_client'[t]) <= Ahead(t)'
  BY DEF Ahead
<1> QED
  BY <1>1 DEF Link, UpLink, DownLink, GoneLink

(* One message takes the client from where it is to where it should be. *)
LEMMA OneMessage ==
  ASSUME NEW t, NEW a, NEW b \in C!Places, NEW m \in Messages, Takes(t, a, m, b)
  PROVE  /\ <<m>> \in Seq(Messages) /\ Len(<<m>>) = 1
         /\ \A p \in C!Places, q \in Seq(Messages) :
              Path(t, p, q, a) => Path(t, p, q \o <<m>>, b)
BY PathGrows

(* A step of a thread that sends nothing. *)
LEMMA QuietStep ==
  ASSUME WireInv, NEW t \in Threads, Quiet, OthersPlay(t),
         UNCHANGED <<place, connected, client_name>>,
         Ahead(t) <= Ahead(t)',
         \/ place[t] = "gone" /\ to_server[t] = <<>>
         \/ (to_server[t] # <<>> => Answers(t, Received(t).type)')
              /\ (\A a \in C!Places : AimsAt(t, a) => AimsAt(t, a)')
  PROVE  WireInv'
<1>1. OthersStay(t) /\ UNCHANGED Connection(t) /\ WireTypes'
  BY DEF WireInv, WireTypes, OthersStay, Connection, Quiet, wire
<1>2. Link(t)'
  BY <1>1, LinkStays
<1> QED
  BY <1>1, <1>2, WireKept

(* A step of a thread that sends some messages. *)
LEMMA SendStep ==
  ASSUME WireInv, NEW t \in Threads, NEW messages \in Seq(Messages),
         Sends(t, messages), OthersPlay(t),
         UNCHANGED <<place, connected, client_name>>,
         to_server[t] = <<>>, pc[t] # "down", pc'[t] # "down",
         Ahead(t) + Len(messages) <= Ahead(t)',
         NEW a, NEW b \in C!Places, Aim(t) = a, Aim(t)' = b,
         \A p \in C!Places, q \in Seq(Messages) :
           Path(t, p, q, a) => Path(t, p, q \o messages, b)
  PROVE  WireInv'
<1>1. WireTypes' /\ OthersStay(t)
  BY SendsTypes DEF OthersStay, Connection
<1>2. Link(t)'
  BY LinkGrows
<1> QED
  BY <1>1, <1>2, WireKept

(* ... one message. *)
LEMMA MessageStep ==
  ASSUME WireInv, NEW t \in Threads, NEW m \in Messages,
         Sends(t, <<m>>), OthersPlay(t),
         UNCHANGED <<place, connected, client_name>>,
         to_server[t] = <<>>, pc[t] # "down", pc'[t] # "down",
         Ahead(t) + 1 <= Ahead(t)',
         NEW a, NEW b \in C!Places, Aim(t) = a, Aim(t)' = b, Takes(t, a, m, b)
  PROVE  WireInv'
<1>1. /\ <<m>> \in Seq(Messages) /\ Len(<<m>>) = 1
      /\ \A p \in C!Places, q \in Seq(Messages) :
           Path(t, p, q, a) => Path(t, p, q \o <<m>>, b)
  BY OneMessage
<1> DEFINE messages == <<m>>
<1>2. Ahead(t) + Len(messages) <= Ahead(t)' /\ messages \in Seq(Messages)
  BY <1>1
<1> HIDE DEF messages
<1> QED
  BY <1>1, <1>2, SendStep DEF messages

LEMMA PlainTypes ==
  ASSUME NEW type \in Types
  PROVE  /\ C!Message(type, <<>>) \in Messages
         /\ Plain(type) = <<C!Message(type, <<>>)>>
         /\ C!Message(type, <<>>).type = type
BY MessageIsTyped DEF Plain, C!Message

-----------------------------------------------------------------------------
(* Up to GAME_STARTED.                                                     *)

LEMMA MenuStepMatches == ASSUME NEW t \in Threads, MenuStep(t) PROVE MatchStep(t)
BY DEF MenuStep, MatchStep, ServerStep, ClientStep, Approves, ReceivesChoice

LEMMA MenuStepMoves ==
  ASSUME ServerTypeOK, NEW t \in Threads, MenuStep(t)
  PROVE  /\ OthersPlay(t)
         /\ UNCHANGED <<place, my_client_turn>>
         /\ pc[t] # "exited" => UNCHANGED game_pc
<1>1. \A u \in Threads \ {t} : pc'[u] = pc[u]
  BY MenuStepMatches, MatchStepMoves
<1>2. /\ \A u \in Threads \ {t} : game_pc'[u] = game_pc[u]
      /\ pc[t] # "exited" => UNCHANGED game_pc
      /\ UNCHANGED <<place, my_client_turn>>
  BY DEF MenuStep, GamePlaceOf, game, locals, ServerTypeOK
<1> QED
  BY <1>1, <1>2 DEF OthersPlay

LEMMA ApproveWires ==
  ASSUME ServerTypeOK, WireInv, NEW t \in Threads, MenuStep(t), Approves(t)
  PROVE  WireInv'
<1> DEFINE m == C!Message("SERVER_APPROVED", <<>>)
<1>1. m \in Messages /\ Plain("SERVER_APPROVED") = <<m>> /\ m.type = "SERVER_APPROVED"
  BY PlainTypes DEF Types
<1>2. Takes(t, "reply", m, "menu")
  BY <1>1 DEF Takes
<1> HIDE DEF m
<1>3. /\ pc[t] = "request" /\ pc'[t] = "menu"
      /\ UNCHANGED connected
      /\ to_server[t] # <<>>
      /\ to_server' = [to_server EXCEPT ![t] = Tail(@)]
      /\ to_client' = [to_client EXCEPT ![t] = @ \o <<m>>]
  BY <1>1 DEF Approves, Approve, Goto, ServerTypeOK, TypeOK
<1>4. /\ to_server[t] \in Seq(Messages) /\ Len(to_server[t]) = 1
      /\ to_client[t] = <<>> /\ place[t] = "reply"
      /\ Received(t).parameters = <<UserName[t]>>
  BY <1>3 DEF WireInv, Link, UpLink, Answers
<1>5. client_name' = client_name
  <2>1. PICK name \in Names : client_name' = [client_name EXCEPT ![t] = name]
    BY DEF Approves, Approve
  <2>2. client_name'[t] = client_name[t]
    BY <1>4 DEF Approves, WireInv
  <2>3. client_name \in [Threads -> Names]
    BY DEF ServerTypeOK, TypeOK
  <2> QED
    BY <2>1, <2>2, <2>3
<1>6. to_client'[t] = <<>> \o <<m>> /\ to_server'[t] = <<>> /\ Len(<<>> \o <<m>>) = 1
  <2>1. Tail(to_server[t]) = <<>>
    BY <1>4, OneIsAll
  <2>2. Len(<<>> \o <<m>>) = 1
    BY <1>1
  <2> QED
    BY <1>3, <1>4, <2>1, <2>2 DEF WireInv
<1>7. Path(t, "reply", <<>> \o <<m>>, "menu")
  <2>1. Path(t, "reply", <<>>, "reply")
    BY PathOfNothing, ClientPlaces
  <2>2. "menu" \in C!Places /\ <<>> \in Seq(Messages)
    BY ClientPlaces
  <2> QED
    BY <1>1, <1>2, <2>1, <2>2, PathGrows
<1>8. WireTypes'
  BY <1>1, <1>3, <1>6, MenuStepMoves DEF WireInv, WireTypes
<1>9. OthersStay(t)
  BY <1>3, MenuStepMoves DEF OthersStay, Connection, WireInv
<1>10. Aim(t)' = "menu" /\ Ahead(t)' = 4
  BY <1>3 DEF Aim, Ahead
<1>11. place'[t] = "reply" /\ connected[t]
  BY <1>4, MenuStepMoves DEF Approves, Approve
<1>12. DownLink(t)'
  <2>1. Path(t, place'[t], to_client'[t], "menu") /\ "menu" \in C!Places
    BY <1>6, <1>7, <1>11, ClientPlaces
  <2> QED
    BY <1>3, <1>10, <2>1 DEF DownLink, AimsAt
<1>13. Link(t)'
  <2>1. Len(to_client'[t]) <= Ahead(t)'
    BY <1>6, <1>10
  <2>2. UpLink(t)'
    BY <1>6 DEF UpLink
  <2>3. GoneLink(t)'
    BY <1>3, <1>11 DEF GoneLink
  <2> QED
    BY <1>12, <2>1, <2>2, <2>3 DEF Link
<1> QED
  BY <1>5, <1>8, <1>9, <1>13, WireKept

LEMMA RequestFailsWires ==
  ASSUME ServerTypeOK, WireInv, NEW t \in Threads, MenuStep(t),
         RequestFails(t), to_server[t] = <<>>, Quiet
  PROVE  WireInv'
<1>1. /\ pc[t] = "request" /\ pc'[t] = "exited"
      /\ UNCHANGED <<connected, client_name>>
  BY DEF RequestFails, Goto, session, ServerTypeOK, TypeOK
<1>2. place[t] = "gone"
  <2>1. "none" \notin C!Places
    BY ClientPlaces
  <2> QED
    BY <1>1, <2>1 DEF WireInv, Link, DownLink, AimsAt, Aim
<1>3. Ahead(t) = 0 /\ Ahead(t)' = 0
  BY <1>1 DEF Ahead
<1> QED
  BY <1>1, <1>2, <1>3, MenuStepMoves, QuietStep

LEMMA MenuSendsWire ==
  ASSUME ServerTypeOK, CallInv, WireInv, NEW t \in Threads, MenuStep(t),
         \/ SendMenu(t) /\ Sends(t, Plain("SERVER_MAIN_MENU"))
         \/ SendNoOpponents(t) /\ Sends(t, Plain("SERVER_NO_OPPONENTS"))
         \/ StartGame(t) /\ Sends(t, Plain("GAME_STARTED"))
  PROVE  WireInv'
<1>a. OthersPlay(t) /\ UNCHANGED place /\ (pc[t] # "exited" => UNCHANGED game_pc)
  BY MenuStepMoves
<1>1. ASSUME NEW type \in Types, Sends(t, Plain(type)), UNCHANGED session,
             pc[t] \notin {"request", "choose", "down", "game_loop"},
             pc'[t] # "down", Ahead(t) + 1 <= Ahead(t)',
             NEW a, NEW b \in C!Places, Aim(t) = a, Aim(t)' = b,
             Takes(t, a, C!Message(type, <<>>), b)
      PROVE  WireInv'
  <2>1. to_server[t] = <<>>
    BY <1>1, NothingSent
  <2>2. C!Message(type, <<>>) \in Messages /\ Sends(t, <<C!Message(type, <<>>)>>)
    BY <1>1, PlainTypes
  <2> QED
    BY <1>a, <1>1, <2>1, <2>2, MessageStep DEF session
<1>2. CASE SendMenu(t) /\ Sends(t, Plain("SERVER_MAIN_MENU"))
  <2>1. pc[t] = "menu" /\ pc'[t] = "choose" /\ UNCHANGED session
    BY <1>2 DEF SendMenu, Goto, ServerTypeOK, TypeOK
  <2>2. Aim(t) = "menu" /\ Aim(t)' = "choose" /\ Ahead(t) = 4 /\ Ahead(t)' = 5
    BY <2>1 DEF Aim, Ahead
  <2>3. Takes(t, "menu", C!Message("SERVER_MAIN_MENU", <<>>), "choose")
    BY DEF Takes, C!Message
  <2>4. "SERVER_MAIN_MENU" \in Types /\ "choose" \in C!Places
    BY ClientPlaces DEF Types
  <2> QED
    BY <1>1, <1>2, <2>1, <2>2, <2>3, <2>4
<1>3. CASE SendNoOpponents(t) /\ Sends(t, Plain("SERVER_NO_OPPONENTS"))
  <2>1. pc[t] = "no_opponents" /\ pc'[t] = "decrease" /\ UNCHANGED session
    BY <1>3 DEF SendNoOpponents, Goto, ServerTypeOK, TypeOK
  <2>2. Aim(t) = "answer" /\ Aim(t)' = "menu" /\ Ahead(t) = 0 /\ Ahead(t)' = 1
    BY <2>1 DEF Aim, Ahead
  <2>3. Takes(t, "answer", C!Message("SERVER_NO_OPPONENTS", <<>>), "menu")
    BY DEF Takes, C!Message
  <2>4. "SERVER_NO_OPPONENTS" \in Types /\ "menu" \in C!Places
    BY ClientPlaces DEF Types
  <2> QED
    BY <1>1, <1>3, <2>1, <2>2, <2>3, <2>4
<1>4. CASE StartGame(t) /\ Sends(t, Plain("GAME_STARTED"))
  <2>1. pc[t] = "game_started" /\ pc'[t] = "game_loop" /\ UNCHANGED session
    BY <1>4 DEF StartGame, Goto, ServerTypeOK, TypeOK
  <2>2. game_pc'[t] = "game_loop"
    BY <1>a, <2>1 DEF CallInv
  <2>3. Aim(t) = "answer" /\ Aim(t)' = "turn" /\ Ahead(t) = 0 /\ Ahead(t)' = 1
    BY <2>1, <2>2 DEF Aim, GameAim, Ahead, MoverPlaces, WaiterPlaces
  <2>4. Takes(t, "answer", C!Message("GAME_STARTED", <<>>), "turn")
    BY DEF Takes, C!Message
  <2>5. "GAME_STARTED" \in Types /\ "turn" \in C!Places
    BY ClientPlaces DEF Types
  <2> QED
    BY <1>1, <1>4, <2>1, <2>3, <2>4, <2>5
<1> QED
  BY <1>2, <1>3, <1>4

(* A message that a thread takes is answered by what it believes from now on. *)
LEMMA LinkReceives ==
  ASSUME WireInv, NEW t \in Threads, place'[t] = place[t], place[t] # "gone",
         to_client'[t] = <<>>, to_server'[t] = <<>>, connected'[t],
         pc'[t] # "down", Aim(t)' = place[t]
  PROVE  Link(t)'
<1>1. place[t] \in C!Places
  BY DEF WireInv
<1>2. Path(t, place'[t], to_client'[t], place[t])
  BY <1>1, PathOfNothing
<1>3. DownLink(t)'
  BY <1>1, <1>2 DEF DownLink, AimsAt
<1>4. Ahead(t)' >= 0 /\ Len(to_client'[t]) = 0
  BY EmptySeq DEF Ahead
<1>5. UpLink(t)' /\ GoneLink(t)'
  BY DEF UpLink, GoneLink
<1> QED
  BY <1>3, <1>4, <1>5 DEF Link

LEMMA ReceivesChoiceWires ==
  ASSUME ServerTypeOK, WireInv, NEW t \in Threads, MenuStep(t), ReceivesChoice(t)
  PROVE  WireInv'
<1>1. /\ Receives(t) /\ pc[t] = "choose" /\ connected[t] /\ client_name' = client_name
      /\ UNCHANGED place /\ OthersPlay(t)
      /\ \A u \in Threads \ {t} : connected'[u] = connected[u]
      /\ \/ /\ Received(t).type = "CLIENT_DISCONNECT"
            /\ ~connected'[t]
         \/ /\ Received(t).type # "CLIENT_DISCONNECT"
            /\ connected' = connected /\ pc'[t] = "arrive"
  BY MenuStepMoves
     DEF ReceivesChoice, RecvDisconnect, RecvVersus, Goto, session, ServerTypeOK, TypeOK
<1>2. /\ WireTypes'
      /\ \A u \in Threads \ {t} :
           to_client'[u] = to_client[u] /\ to_server'[u] = to_server[u]
      /\ to_server'[t] = <<>> /\ to_client'[t] = <<>>
      /\ Answers(t, Received(t).type)
  BY <1>1, ReceivesTypes
<1>3. OthersStay(t)
  BY <1>1, <1>2 DEF OthersStay, Connection
<1>4. CASE Received(t).type = "CLIENT_DISCONNECT"
  <2>1. place'[t] = "gone" /\ ~connected'[t]
    BY <1>1, <1>2, <1>4 DEF Answers
  <2>2. Link(t)'
    BY <1>2, <2>1, LinkEnds
  <2> QED
    BY <1>1, <1>2, <1>3, <2>2, WireKept
<1>5. CASE Received(t).type # "CLIENT_DISCONNECT"
  <2>1. place[t] = "answer"
    BY <1>1, <1>2, <1>5 DEF Answers
  <2>2. Aim(t)' = "answer"
    BY <1>1, <1>5 DEF Aim
  <2>3. Link(t)'
    BY <1>1, <1>2, <1>5, <2>1, <2>2, LinkReceives
  <2> QED
    BY <1>1, <1>2, <1>3, <2>3, WireKept
<1> QED
  BY <1>4, <1>5

(* A thread that keeps what it believes, and is not where a message may come. *)
LEMMA SilentStep ==
  ASSUME WireInv, NEW t \in Threads, Quiet, OthersPlay(t),
         UNCHANGED <<place, connected, client_name>>,
         pc[t] \notin {"request", "choose", "down"},
         pc[t] = "game_loop" => game_pc[t] # "recv_move",
         pc'[t] # "down", Ahead(t) <= Ahead(t)', Aim(t)' = Aim(t)
  PROVE  WireInv'
<1>1. to_server[t] = <<>> /\ to_server'[t] = <<>>
  BY NothingSent DEF Quiet, wire
<1>2. \A a : AimsAt(t, a) => AimsAt(t, a)'
  BY DEF AimsAt
<1> QED
  BY <1>1, <1>2, QuietStep

LEMMA MenuQuietWires ==
  ASSUME ServerTypeOK, CallInv, WireInv, NEW t \in Threads, MenuStep(t), Quiet,
         \/ Arrive(t) \/ ReadReady(t) \/ WakeUp(t) \/ CheckReady(t)
         \/ FailAbandoned(t) \/ NoOpponentsFails(t) \/ DecreaseReady(t)
         \/ ResetFirstArrived(t) \/ SocketFails(t)
  PROVE  WireInv'
<1>1. UNCHANGED <<place, connected, client_name>> /\ OthersPlay(t)
  BY MenuStepMoves
     DEF Arrive, ReadReady, WakeUp, CheckReady, FailAbandoned, NoOpponentsFails,
         DecreaseReady, ResetFirstArrived, SocketFails, ConnectionError, session
<1>2. CASE \/ Arrive(t) \/ ReadReady(t) \/ WakeUp(t) \/ CheckReady(t)
           \/ FailAbandoned(t) \/ NoOpponentsFails(t) 
  <2>1. /\ pc[t] \in {"arrive", "read_ready", "sleep", "check", "no_opponents"}
        /\ pc'[t] \in {"read_ready", "sleep", "check", "barrier", "no_opponents", "exited"}
    BY <1>2 DEF Arrive, ReadReady, WakeUp, CheckReady, FailAbandoned, NoOpponentsFails,
                Goto, ServerTypeOK, TypeOK
  <2>2. Aim(t) = "answer" /\ Aim(t)' = "answer" /\ Ahead(t) = 0 /\ Ahead(t)' = 0
    BY <2>1 DEF Aim, Ahead
  <2> QED
    BY <1>1, <2>1, <2>2, SilentStep
<1>3. CASE DecreaseReady(t) \/ ResetFirstArrived(t)
  <2>1. /\ pc[t] \in {"decrease", "reset_first"}
        /\ pc'[t] \in {"reset_first", "menu"}
    BY <1>3 DEF DecreaseReady, ResetFirstArrived, Goto, ServerTypeOK, TypeOK
  <2>2. Aim(t) = "menu" /\ Aim(t)' = "menu" /\ Ahead(t) = 1 /\ Ahead(t)' \in {1, 4}
    BY <2>1 DEF Aim, Ahead
  <2> QED
    BY <1>1, <2>1, <2>2, SilentStep
<1>4. CASE SocketFails(t)
  <2>1. ~connected'[t] /\ UNCHANGED <<to_server, to_client>>
    BY <1>1, <1>4 DEF SocketFails, ConnectionError, Quiet, wire
  <2>2. place[t] = "gone" /\ to_server[t] = <<>> /\ to_client[t] = <<>>
    BY <1>1, <2>1, Disconnected
  <2>3. Link(t)'
    BY <1>1, <2>1, <2>2, LinkEnds
  <2> QED
    BY <1>1, <2>1, <2>3, WireKept DEF WireInv, WireTypes, OthersStay, Connection
<1> QED
  BY <1>2, <1>3, <1>4

LEMMA MenuStepWires ==
  ASSUME ServerTypeOK, CallInv, WireInv, NEW t \in Threads, MenuStep(t)
  PROVE  WireInv'
BY ApproveWires, RequestFailsWires, MenuSendsWire, ReceivesChoiceWires,
   MenuQuietWires DEF MenuStep

-----------------------------------------------------------------------------
(* server_game_loop().                                                     *)

LEMMA PlayStepLoops == ASSUME NEW t \in Threads, PlayStep(t) PROVE LoopStep(t)
BY DEF PlayStep, LoopStep, GameStep, MoverStep, WaiterStep

LEMMA PlayStepMoves ==
  ASSUME ServerTypeOK, NEW t \in Threads, PlayStep(t)
  PROVE  /\ OthersPlay(t)
         /\ UNCHANGED <<place, connected, client_name>>
         /\ pc[t] = "game_loop"
         /\ pc'[t] = IF game_pc'[t] \in {"reinit", "exited"} THEN game_pc'[t]
                                                            ELSE "game_loop"
<1>1. LoopStep(t)
  BY PlayStepLoops
<1>2. /\ pc[t] = "game_loop"
      /\ pc'[t] = IF game_pc'[t] \in {"reinit", "exited"} THEN game_pc'[t]
                                                         ELSE "game_loop"
      /\ \A u \in Threads \ {t} : pc'[u] = pc[u]
  BY <1>1 DEF LoopStep, InCall, Goto, ServerTypeOK, TypeOK
<1>3. UNCHANGED session /\ OthersPlay(t)
  BY <1>1, <1>2, GameStepMoves DEF LoopStep, OthersPlay
<1> QED
  BY <1>2, <1>3 DEF PlayStep, session

LEMMA AskForMoveWires ==
  ASSUME ServerTypeOK, WireInv, NEW t \in Threads, PlayStep(t),
         AskForMove(t), Sends(t, TurnMessages(t))
  PROVE  WireInv'
<1> DEFINE m1 == C!Message("TURN_SWITCH", <<UserName[t]>>)
           m2 == C!Message("SERVER_MOVE_REQUEST", <<>>)
<1>1. m1 \in Messages /\ m2 \in Messages /\ TurnMessages(t) = <<m1>> \o <<m2>>
  <2>1. client_name[t] = UserName[t] /\ UserName[t] \in Values
    BY DEF WireInv, ServerTypeOK, TypeOK, Values
  <2>2. m1 \in Messages
    BY <2>1, MessageIsTyped DEF Types
  <2>3. m2 \in Messages /\ Plain("SERVER_MOVE_REQUEST") = <<m2>>
    BY PlainTypes DEF Types
  <2> QED
    BY <2>1, <2>2, <2>3 DEF TurnMessages
<1>2. Takes(t, "turn", m1, "move_request") /\ Takes(t, "move_request", m2, "enter_move")
  BY DEF Takes, C!Message
<1> HIDE DEF m1, m2
<1> DEFINE messages == <<m1>> \o <<m2>>
<1>3. messages \in Seq(Messages) /\ Len(messages) = 2
  BY <1>1
<1>4. ASSUME NEW p \in C!Places, NEW q \in Seq(Messages), Path(t, p, q, "turn")
      PROVE  Path(t, p, q \o messages, "enter_move")
  <2>a. "move_request" \in C!Places /\ "enter_move" \in C!Places
    BY ClientPlaces
  <2>1. Path(t, p, q \o <<m1>>, "move_request")
    BY <1>1, <1>2, <1>4, <2>a, PathGrows
  <2>b. q \o <<m1>> \in Seq(Messages)
    BY <1>1
  <2>2. Path(t, p, (q \o <<m1>>) \o <<m2>>, "enter_move")
    BY <1>1, <1>2, <2>a, <2>b, <2>1, PathGrows
  <2>3. (q \o <<m1>>) \o <<m2>> = q \o messages
    BY <1>1
  <2> QED
    BY <2>2, <2>3
<1>5. game_pc[t] = "turn" /\ game_pc'[t] = "recv_move" /\ my_client_turn[t]
  BY DEF AskForMove, GameGoto, ServerTypeOK
<1>6. pc[t] = "game_loop" /\ pc'[t] = "game_loop"
  BY <1>5, PlayStepMoves
<1>7. Aim(t) = "turn" /\ Aim(t)' = "enter_move" /\ Ahead(t) = 3 /\ Ahead(t)' = 5
  BY <1>5, <1>6 DEF Aim, GameAim, Ahead, MoverPlaces, WaiterPlaces
<1>8. to_server[t] = <<>>
  BY <1>5, <1>6, NothingSent
<1>9. "enter_move" \in C!Places /\ Sends(t, messages)
  BY <1>1, ClientPlaces
<1> HIDE DEF messages
<1>10. OthersPlay(t) /\ UNCHANGED <<place, connected, client_name>>
  BY PlayStepMoves
<1>11. Ahead(t) + Len(messages) <= Ahead(t)' /\ pc[t] # "down" /\ pc'[t] # "down"
  BY <1>3, <1>6, <1>7
<1> QED
  BY <1>3, <1>4, <1>7, <1>8, <1>9, <1>10, <1>11, SendStep

LEMMA RecvMoveWires ==
  ASSUME ServerTypeOK, WireInv, NEW t \in Threads, PlayStep(t),
         RecvMove(t), Receives(t)
  PROVE  WireInv'
<1>1. game_pc[t] = "recv_move" /\ game_pc'[t] = "next_number" /\ connected[t]
  BY DEF RecvMove, GameGoto, ServerTypeOK
<1>2. /\ pc[t] = "game_loop" /\ pc'[t] = "game_loop" /\ OthersPlay(t)
      /\ UNCHANGED <<place, connected, client_name>>
  BY <1>1, PlayStepMoves
<1>3. /\ WireTypes'
      /\ \A u \in Threads \ {t} :
           to_client'[u] = to_client[u] /\ to_server'[u] = to_server[u]
      /\ to_server'[t] = <<>> /\ to_client'[t] = <<>>
      /\ Answers(t, Received(t).type)
  BY <1>2, ReceivesTypes
<1>4. place[t] = "own_view"
  BY <1>2, <1>3 DEF Answers
<1>5. Aim(t)' = "own_view"
  BY <1>1, <1>2 DEF Aim, GameAim, MoverPlaces, WaiterPlaces
<1>6. Link(t)'
  BY <1>1, <1>2, <1>3, <1>4, <1>5, LinkReceives
<1> QED
  BY <1>2, <1>3, <1>6, WireKept DEF OthersStay, Connection

(* A step of a thread in a game that sends one message. *)
LEMMA PlayMessageStep ==
  ASSUME ServerTypeOK, WireInv, NEW t \in Threads, PlayStep(t),
         NEW m \in Messages, Sends(t, <<m>>),
         game_pc[t] # "recv_move", game_pc'[t] # "exited",
         Ahead(t) + 1 <= Ahead(t)',
         NEW a, NEW b \in C!Places, Aim(t) = a, Aim(t)' = b, Takes(t, a, m, b)
  PROVE  WireInv'
<1>1. /\ OthersPlay(t) /\ UNCHANGED <<place, connected, client_name>>
      /\ pc[t] = "game_loop" /\ pc'[t] # "down"
  BY PlayStepMoves
<1>2. to_server[t] = <<>>
  BY <1>1, NothingSent
<1> QED
  BY <1>1, <1>2, MessageStep

LEMMA ViewWires ==
  ASSUME ServerTypeOK, NextTurnInv, WireInv, NEW t \in Threads, PlayStep(t),
         \/ SendView(t) /\ Sends(t, GameView(t, client_name[t]))
         \/ SendOtherView(t) /\ Sends(t, GameView(t, other_client_name[t]))
  PROVE  WireInv'
<1>1. PICK mover \in Names \cup {NULL} :
        Sends(t, <<C!Message("GAME_VIEW", <<mover, move[t], Verdict(t)>>)>>)
  BY DEF GameView, ServerTypeOK, TypeOK
<1>2. PICK m \in Messages :
        m = C!Message("GAME_VIEW", <<mover, move[t], Verdict(t)>>)
  <2>1. mover \in Values /\ move[t] \in Values /\ Verdict(t) \in Values
    BY DEF ServerTypeOK, Values, Verdict
  <2>2. "GAME_VIEW" \in Types
    BY DEF Types
  <2> QED
    BY <2>1, <2>2, MessageIsTyped
<1>3. m.type = "GAME_VIEW" /\ m.parameters[3] = Verdict(t)
  BY <1>2 DEF C!Message
<1>4. /\ game_pc[t] \in {"send_view", "send_other_view"}
      /\ game_pc'[t] = IF game_has_finished[t] THEN "send_ended" ELSE "turn"
      /\ my_client_turn'[t] = my_client_turn[t]
      /\ my_client_turn[t] <=> game_pc[t] = "send_other_view"
  BY DEF SendView, SendOtherView, GameGoto, ServerTypeOK, NextTurnInv, WaiterPlaces
<1>5. pc[t] = "game_loop" /\ pc'[t] = "game_loop"
  BY <1>4, PlayStepMoves
<1> DEFINE a == IF game_pc[t] = "send_view" THEN "own_view" ELSE "other_view"
           b == IF game_has_finished[t] THEN "ended" ELSE "turn"
<1>6. Aim(t) = a /\ Aim(t)' = b /\ Ahead(t) + 1 <= Ahead(t)'
  <2>1. Aim(t) = a
    BY <1>4, <1>5 DEF Aim, GameAim, MoverPlaces, WaiterPlaces
  <2>2. Aim(t)' = b
    BY <1>4, <1>5 DEF Aim, GameAim, MoverPlaces, WaiterPlaces
  <2>3. Ahead(t) = IF game_pc[t] = "send_view" THEN 0 ELSE 2
    BY <1>4, <1>5 DEF Ahead, WaiterPlaces
  <2>4. Ahead(t)' = IF game_has_finished[t] THEN 3 ELSE IF my_client_turn[t] THEN 3 ELSE 1
    BY <1>4, <1>5 DEF Ahead, WaiterPlaces
  <2> QED
    BY <1>4, <2>1, <2>2, <2>3, <2>4
<1>7. Takes(t, a, m, b) /\ b \in C!Places
  BY <1>3, ClientPlaces DEF Takes, Verdict
<1>8. PICK a1, b1 : a1 = a /\ b1 = b
  OBVIOUS
<1>9. Sends(t, <<m>>) /\ game_pc[t] # "recv_move" /\ game_pc'[t] # "exited"
  BY <1>1, <1>2, <1>4
<1> HIDE DEF a, b
<1> QED
  BY <1>6, <1>7, <1>8, <1>9, PlayMessageStep

LEMMA AnnounceOtherWires ==
  ASSUME ServerTypeOK, DifferentNames, RivalInv, "start" \notin departed, WireInv,
         NEW t \in Threads, PlayStep(t), AnnounceOther(t),
         Sends(t, <<C!Message("TURN_SWITCH", <<other_client_name[t]>>)>>)
  PROVE  WireInv'
<1>1. /\ game_pc[t] = "turn" /\ game_pc'[t] = "wait"
      /\ ~my_client_turn[t] /\ my_client_turn'[t]
  BY DEF AnnounceOther, GameGoto, ServerTypeOK
<1>2. pc[t] = "game_loop" /\ pc'[t] = "game_loop"
  BY <1>1, PlayStepMoves
<1>3. PICK name \in Values : name = other_client_name[t]
  BY DEF ServerTypeOK, Values
<1>4. name # UserName[t]
  <2>1. PICK u \in Threads : u # t
    BY ThreadsAssumption
  <2>2. other_client_name[t] = UserName[u]
    BY <1>1, <1>2, <2>1 DEF RivalInv, InLoop
  <2> QED
    BY <1>3, <2>1, <2>2 DEF DifferentNames
<1> DEFINE m == C!Message("TURN_SWITCH", <<name>>)
<1>5. m \in Messages /\ Sends(t, <<m>>)
  BY <1>3, MessageIsTyped DEF Types
<1>6. Takes(t, "turn", m, "other_view") /\ "other_view" \in C!Places
  BY <1>4, ClientPlaces DEF Takes, C!Message
<1>7. Aim(t) = "turn" /\ Aim(t)' = "other_view" /\ Ahead(t) = 1 /\ Ahead(t)' = 2
  BY <1>1, <1>2 DEF Aim, GameAim, Ahead, MoverPlaces, WaiterPlaces
<1> HIDE DEF m
<1> QED
  BY <1>1, <1>5, <1>6, <1>7, PlayMessageStep

LEMMA SendGameEndedWires ==
  ASSUME ServerTypeOK, WireInv, NEW t \in Threads, PlayStep(t), SendGameEnded(t),
         Sends(t, <<C!Message("GAME_ENDED", <<winner_name[t]>>)>>)
  PROVE  WireInv'
<1>1. game_pc[t] = "send_ended" /\ game_pc'[t] = "reinit"
  BY DEF SendGameEnded, GameGoto, ServerTypeOK
<1>2. pc[t] = "game_loop" /\ pc'[t] = "reinit"
  BY <1>1, PlayStepMoves
<1>3. PICK name \in Values : name = winner_name[t]
  BY DEF ServerTypeOK, Values
<1> DEFINE m == C!Message("GAME_ENDED", <<name>>)
<1>4. m \in Messages /\ Sends(t, <<m>>)
  BY <1>3, MessageIsTyped DEF Types
<1>5. Takes(t, "ended", m, "menu") /\ "menu" \in C!Places
  BY ClientPlaces DEF Takes, C!Message
<1>6. Aim(t) = "ended" /\ Aim(t)' = "menu" /\ Ahead(t) = 3 /\ Ahead(t)' = 4
  BY <1>1, <1>2 DEF Aim, GameAim, Ahead, MoverPlaces, WaiterPlaces
<1> HIDE DEF m
<1> QED
  BY <1>1, <1>4, <1>5, <1>6, PlayMessageStep

LEMMA PlayQuietWires ==
  ASSUME ServerTypeOK, WireInv, NEW t \in Threads, PlayStep(t), Quiet,
         \/ EnterLoop(t) \/ ReadNumber(t) \/ PublishMove(t) \/ JudgeMove(t)
         \/ RecordVerdict(t) \/ AdvanceNumber(t) \/ SignalTurn(t)
         \/ WaitForEvent(t) \/ ReadMove(t) \/ ReadEnded(t) \/ GameSocketFails(t)
  PROVE  WireInv'
<1>1. UNCHANGED <<place, connected, client_name>> /\ OthersPlay(t) /\ pc[t] = "game_loop"
  BY PlayStepMoves
<1>2. CASE EnterLoop(t)
  <2>1. /\ game_pc[t] = "game_loop" /\ game_pc'[t] = "turn"
        /\ my_client_turn'[t] \in BOOLEAN
    BY <1>2 DEF EnterLoop, MovesFirst, GameGoto, ServerTypeOK
  <2>2. pc'[t] = "game_loop"
    BY <2>1, PlayStepMoves
  <2>3. Aim(t) = "turn" /\ Aim(t)' = "turn" /\ Ahead(t) = 1 /\ Ahead(t)' \in {1, 3}
    BY <1>1, <2>1, <2>2 DEF Aim, GameAim, Ahead, MoverPlaces, WaiterPlaces
  <2> QED
    BY <1>1, <2>1, <2>2, <2>3, SilentStep
<1>3. CASE \/ ReadNumber(t) \/ PublishMove(t) \/ JudgeMove(t)
           \/ RecordVerdict(t) \/ AdvanceNumber(t) \/ SignalTurn(t)
  <2>1. /\ game_pc[t] \in MoverPlaces \ {"recv_move"}
        /\ game_pc'[t] \in MoverPlaces \ {"recv_move"}
    BY <1>3 DEF ReadNumber, PublishMove, JudgeMove, RecordVerdict, AfterVerdict,
                AdvanceNumber, SignalTurn, Waiters, GameGoto, MoverPlaces, ServerTypeOK
  <2>2. pc'[t] = "game_loop"
    BY <2>1, PlayStepMoves DEF MoverPlaces
  <2>3. Aim(t) = "own_view" /\ Aim(t)' = "own_view" /\ Ahead(t) = 0 /\ Ahead(t)' = 0
    BY <1>1, <2>1, <2>2 DEF Aim, GameAim, Ahead, MoverPlaces, WaiterPlaces
  <2> QED
    BY <1>1, <2>1, <2>2, <2>3, SilentStep
<1>4. CASE WaitForEvent(t) \/ ReadMove(t) \/ ReadEnded(t)
  <2>1. game_pc[t] \in WaiterPlaces /\ game_pc'[t] \in WaiterPlaces
    BY <1>4 DEF WaitForEvent, ReadMove, ReadEnded, GameGoto, WaiterPlaces, ServerTypeOK
  <2>2. pc'[t] = "game_loop"
    BY <2>1, PlayStepMoves DEF WaiterPlaces
  <2>3. Aim(t) = "other_view" /\ Aim(t)' = "other_view" /\ Ahead(t) = 2 /\ Ahead(t)' = 2
    BY <1>1, <2>1, <2>2 DEF Aim, GameAim, Ahead, MoverPlaces, WaiterPlaces
  <2>4. game_pc[t] # "recv_move"
    BY <2>1 DEF WaiterPlaces
  <2> QED
    BY <1>1, <2>2, <2>3, <2>4, SilentStep
<1>5. CASE GameSocketFails(t)
  <2>1. ~connected'[t] /\ UNCHANGED <<to_server, to_client>>
    BY <1>1, <1>5 DEF GameSocketFails, ConnectionError, Quiet, wire
  <2>2. place[t] = "gone" /\ to_server[t] = <<>> /\ to_client[t] = <<>>
    BY <1>1, <2>1, Disconnected
  <2>3. Link(t)'
    BY <1>1, <2>1, <2>2, LinkEnds
  <2> QED
    BY <1>1, <2>1, <2>3, WireKept DEF WireInv, WireTypes, OthersStay, Connection
<1> QED
  BY <1>2, <1>3, <1>4, <1>5

LEMMA PlayStepWires ==
  ASSUME ServerTypeOK, NextTurnInv, DifferentNames, RivalInv, "start" \notin departed,
         WireInv, NEW t \in Threads, PlayStep(t)
  PROVE  WireInv'
BY AskForMoveWires, RecvMoveWires, ViewWires, AnnounceOtherWires, SendGameEndedWires,
   PlayQuietWires DEF PlayStep

-----------------------------------------------------------------------------
(* Between the games, and the end of the process.                          *)

LEMMA QuietForAll ==
  ASSUME WireInv, Quiet, UNCHANGED <<place, connected, client_name>>,
         \A t \in Threads : Link(t)'
  PROVE  WireInv'
BY DEF WireInv, Quiet, wire

LEMMA ReadNullMoveWires ==
  ASSUME WireInv, NEW t \in Threads, ReadNullMove(t), Quiet, UNCHANGED place
  PROVE  WireInv'
<1>1. /\ UNCHANGED <<place, connected, client_name, game_pc>>
      /\ \A u \in Threads : pc'[u] = "down"
  BY DEF ReadNullMove, session
<1>2. ASSUME NEW u \in Threads PROVE Link(u)'
  <2>1. UNCHANGED Connection(u)
    BY <1>1 DEF Connection, Quiet, wire
  <2>2. Ahead(u) <= 5 /\ Ahead(u)' = 5
    BY <1>1 DEF Ahead
  <2>3. to_server[u] # <<>> => Answers(u, Received(u).type)'
    <3>1. to_server[u] # <<>> => Answers(u, Received(u).type)
      BY DEF WireInv, Link, UpLink
    <3>2. Received(u)' = Received(u)
      BY DEF Received, Quiet, wire
    <3> QED
      BY <1>1, <3>1, <3>2 DEF Answers
  <2>4. /\ Aim(u) # "move_request"
        /\ Aim(u) = "enter_move" => pc[u] = "game_loop" /\ game_pc[u] = "recv_move"
    BY DEF Aim, GameAim
  <2>5. \A a : AimsAt(u, a) => AimsAt(u, a)'
    BY <1>1, <2>4 DEF AimsAt
  <2> QED
    BY <2>1, <2>2, <2>3, <2>5, LinkStays DEF Quiet, wire
<1> QED
  BY <1>1, <1>2, QuietForAll

LEMMA MeetsAtBarrierWires ==
  ASSUME ServerTypeOK, WireInv, MeetsAtBarrier
  PROVE  WireInv'
<1>1. /\ UNCHANGED <<place, connected, client_name>> /\ Quiet
      /\ \A u \in Threads : pc[u] = "barrier" /\ pc'[u] = "game_started"
  BY DEF MeetsAtBarrier, MeetAtBarrier, LeaveBarrier, session
<1>2. ASSUME NEW u \in Threads PROVE Link(u)'
  <2>1. UNCHANGED Connection(u)
    BY <1>1 DEF Connection, Quiet, wire
  <2>2. Ahead(u) = 0 /\ Ahead(u)' = 0 /\ Aim(u) = "answer" /\ Aim(u)' = "answer"
    BY <1>1 DEF Ahead, Aim
  <2>3. to_server[u] = <<>> /\ to_server'[u] = <<>>
    BY <1>1, NothingSent DEF Quiet, wire
  <2>4. \A a : AimsAt(u, a) => AimsAt(u, a)'
    BY <1>1, <2>2 DEF AimsAt
  <2> QED
    BY <2>1, <2>2, <2>3, <2>4, LinkStays
<1> QED
  BY <1>1, <1>2, QuietForAll

LEMMA ReturnToMenuWires ==
  ASSUME ServerTypeOK, WireInv, NEW t \in Threads, ReturnToMenu(t), Quiet,
         UNCHANGED place
  PROVE  WireInv'
<1>1. pc[t] = "reinit" /\ pc'[t] = "menu" /\ UNCHANGED <<place, connected, client_name>>
  BY DEF ReturnToMenu, Reinit, Goto, session, ServerTypeOK, TypeOK
<1>2. OthersPlay(t)
  BY DEF ReturnToMenu, Reinit, Goto, LeaveCall, ForgetLocals, OthersPlay,
         ServerTypeOK, TypeOK
<1>3. Aim(t) = "menu" /\ Aim(t)' = "menu" /\ Ahead(t) = 4 /\ Ahead(t)' = 4
  BY <1>1 DEF Aim, Ahead
<1> QED
  BY <1>1, <1>2, <1>3, SilentStep

-----------------------------------------------------------------------------
(* The clients.                                                            *)

LEMMA ConnectsWires ==
  ASSUME ServerTypeOK, WireInv, NEW t \in Threads, Connects(t)
  PROVE  WireInv'
<1> DEFINE m == C!Message("CLIENT_REQUEST", <<UserName[t]>>)
<1>1. /\ m.type = "CLIENT_REQUEST" /\ m.parameters = <<UserName[t]>>
      /\ m \in Messages
  <2>1. UserName[t] \in Values
    BY DEF WireInv, ServerTypeOK, TypeOK, Values
  <2> QED
    BY <2>1, MessageIsTyped DEF Types, C!Message
<1>2. /\ pc[t] = "exited" /\ pc'[t] = "request" /\ connected'[t]
      /\ client_name' = client_name /\ OthersPlay(t)
      /\ \A u \in Threads \ {t} : connected'[u] = connected[u]
  BY DEF Connects, NewClient, Goto, GamePlaceOf, game, locals, OthersPlay,
         ServerTypeOK, TypeOK
<1>3. /\ place[t] = "gone" /\ place' = [place EXCEPT ![t] = "reply"]
      /\ to_server' = [to_server EXCEPT ![t] = Append(@, m)]
      /\ to_client' = to_client
  BY DEF Connects, C!Connect, C!Send, C!Move
<1> HIDE DEF m
<1>4. to_server[t] = <<>> /\ to_client[t] = <<>>
  BY <1>2, <1>3, NothingSent DEF WireInv, Link, GoneLink
<1>5. /\ to_server'[t] = <<m>> /\ <<m>> \in Seq(Messages) /\ Len(<<m>>) = 1
      /\ <<m>> # <<>> /\ Head(<<m>>) = m
  <2>1. Append(<<>>, m) = <<m>>
    OBVIOUS
  <2> QED
    BY <1>1, <1>3, <1>4, <2>1 DEF WireInv
<1>6. place'[t] = "reply" /\ to_client'[t] = <<>> /\ Received(t)' = m
  BY <1>3, <1>4, <1>5 DEF WireInv, Received
<1>7. WireTypes' /\ OthersStay(t)
  BY <1>1, <1>2, <1>3, <1>5, ClientPlaces
     DEF WireInv, WireTypes, OthersStay, Connection
<1>8. UpLink(t)'
  BY <1>1, <1>2, <1>5, <1>6 DEF UpLink, Answers
<1>9. DownLink(t)' /\ GoneLink(t)'
  BY <1>2, <1>5, <1>6 DEF DownLink, GoneLink
<1>10. Len(to_client'[t]) <= Ahead(t)'
  BY <1>6, EmptySeq DEF Ahead
<1> QED
  BY <1>2, <1>7, <1>8, <1>9, <1>10, WireKept DEF Link

(* A step of a client alone. *)
LEMMA ServerRests ==
  ASSUME UNCHANGED server_vars, NEW t \in Threads
  PROVE  /\ OthersPlay(t) /\ UNCHANGED <<connected, client_name, pc, game_pc>>
         /\ Ahead(t)' = Ahead(t) /\ Aim(t)' = Aim(t)
BY DEF server_vars, session, game, locals, OthersPlay, Ahead, Aim, GameAim

(* What a client goes on to with the next message. *)
LEMMA ClientTakesIt ==
  ASSUME NEW t \in Threads, ClientTakes(t), place \in [Threads -> C!Places],
         NEW r, Takes(t, place[t], Head(to_client[t]), r)
  PROVE  place' = [place EXCEPT ![t] = r]
<1> USE DEF ClientTakes, Takes, C!Move, C!Received
<1>1. CASE C!RecvApproved(t)
  BY <1>1 DEF C!RecvApproved
<1>2. CASE C!RecvMainMenu(t)
  BY <1>2 DEF C!RecvMainMenu
<1>3. CASE C!RecvAnswer(t)
  BY <1>3 DEF C!RecvAnswer, C!AfterAnswer
<1>4. CASE C!RecvTurnSwitch(t)
  BY <1>4 DEF C!RecvTurnSwitch, C!IsMyTurn, C!Parameter
<1>5. CASE C!RecvMoveRequest(t)
  BY <1>5 DEF C!RecvMoveRequest
<1>6. CASE C!RecvGameView(t)
  BY <1>6 DEF C!RecvGameView, C!AfterView, C!Parameter
<1>7. CASE C!RecvGameEnded(t)
  BY <1>7 DEF C!RecvGameEnded
<1> QED
  BY <1>1, <1>2, <1>3, <1>4, <1>5, <1>6, <1>7

LEMMA ClientTakesWires ==
  ASSUME WireInv, NEW t \in Threads, ClientTakes(t)
  PROVE  WireInv'
<1>1. /\ UNCHANGED <<server_vars, to_server>>
      /\ to_client[t] # <<>> /\ to_client' = [to_client EXCEPT ![t] = Tail(@)]
  BY DEF ClientTakes, C!RecvApproved, C!RecvMainMenu, C!RecvAnswer, C!RecvTurnSwitch,
         C!RecvMoveRequest, C!RecvGameView, C!RecvGameEnded, C!Receive
<1>2. to_server[t] = <<>> /\ place[t] # "gone" /\ place[t] \in C!Places
  BY <1>1 DEF WireInv, Link, UpLink, GoneLink
<1>3. PICK a \in C!Places : AimsAt(t, a) /\ Path(t, place[t], to_client[t], a)
  BY <1>2 DEF WireInv, Link, DownLink
<1>4. to_client[t] \in Seq(Messages)
  BY DEF WireInv
<1>5. PICK r \in C!Places :
        Takes(t, place[t], Head(to_client[t]), r) /\ Path(t, r, Tail(to_client[t]), a)
  BY <1>1, <1>3, <1>4, PathShrinks
<1>6. place' = [place EXCEPT ![t] = r]
  BY <1>5, ClientTakesIt DEF WireInv
<1>7. /\ place'[t] = r /\ to_client'[t] = Tail(to_client[t])
      /\ to_server'[t] = <<>> /\ connected'[t] = connected[t]
  BY <1>1, <1>2, <1>6, ServerRests DEF WireInv
<1>8. Tail(to_client[t]) \in Seq(Messages) /\ Len(to_client'[t]) <= Len(to_client[t])
  BY <1>1, <1>4, <1>7, HeadTailProperties, EmptySeq
<1>9. WireTypes' /\ OthersStay(t)
  BY <1>1, <1>6, <1>8, ServerRests DEF WireInv, WireTypes, OthersStay, Connection
<1>10. r # "gone"
  BY <1>5 DEF Takes
<1>11. AimsAt(t, a)'
  BY <1>1, <1>3, ServerRests DEF AimsAt
<1>12. DownLink(t)'
  <2>1. Path(t, place'[t], to_client'[t], a)
    BY <1>5, <1>7
  <2> QED
    BY <1>11, <2>1 DEF DownLink
<1>13. UpLink(t)' /\ GoneLink(t)'
  BY <1>2, <1>7, <1>10 DEF UpLink, GoneLink, WireInv, Link
<1>14. Len(to_client'[t]) <= Ahead(t)'
  <2>1. Len(to_client[t]) <= Ahead(t) /\ Ahead(t) \in Nat
    BY DEF WireInv, Link, Ahead
  <2>2. Len(to_client[t]) \in Nat /\ Len(to_client'[t]) \in Nat
    BY <1>4, <1>7, <1>8, LenProperties
  <2> QED
    BY <1>1, <1>8, <2>1, <2>2, ServerRests
<1> QED
  BY <1>1, <1>9, <1>12, <1>13, <1>14, ServerRests, WireKept DEF Link

(* A client that waits for its user has read all that has been sent. *)
LEMMA UserIsAsked ==
  ASSUME WireInv, NEW t \in Threads, place[t] \in {"choose", "enter_move"}
  PROVE  /\ to_server[t] = <<>> /\ to_client[t] = <<>>
         /\ connected[t]
         /\ AimsAt(t, place[t])
<1>1. to_server[t] = <<>>
  BY DEF WireInv, Link, UpLink, Answers
<1>2. PICK a \in C!Places : AimsAt(t, a) /\ Path(t, place[t], to_client[t], a)
  BY <1>1 DEF WireInv, Link, DownLink
<1>3. to_client[t] = <<>>
  <2> SUFFICES ASSUME to_client[t] # <<>> PROVE FALSE
    OBVIOUS
  <2>1. to_client[t] \in Seq(Messages)
    BY DEF WireInv
  <2>2. PICK r \in C!Places : Takes(t, place[t], Head(to_client[t]), r)
    BY <1>2, <2>1, PathShrinks
  <2> QED
    BY <2>2 DEF Takes
<1>4. a = place[t]
  <2>1. place[t] \in C!Places
    BY DEF WireInv
  <2> QED
    BY <1>2, <1>3, <2>1, PathOfNothing
<1> QED
  BY <1>1, <1>2, <1>3, <1>4 DEF WireInv, Link, GoneLink

LEMMA UserStepWires ==
  ASSUME WireInv, NEW t \in Threads, UserStep(t)
  PROVE  WireInv'
<1>1. /\ place[t] \in {"choose", "enter_move"}
      /\ UNCHANGED server_vars
  BY DEF UserStep, C!ChooseVersus, C!ChooseQuit, C!EnterMove
<1>2. to_server[t] = <<>> /\ to_client[t] = <<>> /\ connected[t] /\ AimsAt(t, place[t])
  BY <1>1, UserIsAsked
<1>3. PICK m \in Messages :
        /\ to_server' = [to_server EXCEPT ![t] = Append(@, m)]
        /\ to_client' = to_client
        /\ \/ /\ place[t] = "choose" /\ m.type = "CLIENT_VERSUS"
              /\ place' = [place EXCEPT ![t] = "answer"]
           \/ /\ place[t] = "choose" /\ m.type = "CLIENT_DISCONNECT"
              /\ place' = [place EXCEPT ![t] = "gone"]
           \/ /\ place[t] = "enter_move" /\ m.type = "CLIENT_PLAYER_MOVE"
              /\ place' = [place EXCEPT ![t] = "own_view"]
  <2>1. CASE C!ChooseVersus(t)
    <3>1. C!Message("CLIENT_VERSUS", <<>>) \in Messages
      BY MessageIsTyped DEF Types
    <3> QED
      BY <2>1, <3>1 DEF C!ChooseVersus, C!Send, C!Move, C!Message
  <2>2. CASE C!ChooseQuit(t)
    <3>1. C!Message("CLIENT_DISCONNECT", <<>>) \in Messages
      BY MessageIsTyped DEF Types
    <3> QED
      BY <2>2, <3>1 DEF C!ChooseQuit, C!Send, C!Move, C!Message
  <2>3. CASE C!EnterMove(t)
    <3>1. \A n \in Moves : C!Message("CLIENT_PLAYER_MOVE", <<n>>) \in Messages
      BY MessageIsTyped DEF Types, Values
    <3> QED
      BY <2>3, <3>1 DEF C!EnterMove, C!Send, C!Move, C!Message
  <2> QED
    BY <2>1, <2>2, <2>3 DEF UserStep
<1>4. pc[t] # "down" =>
        /\ place[t] = "choose" => pc[t] = "choose"
        /\ place[t] = "enter_move" => pc[t] = "game_loop" /\ game_pc[t] = "recv_move"
  BY <1>2 DEF AimsAt, Aim, GameAim
<1>5. /\ to_server'[t] = <<m>> /\ <<m>> \in Seq(Messages) /\ Len(<<m>>) = 1
      /\ <<m>> # <<>> /\ Head(<<m>>) = m
  <2>1. Append(<<>>, m) = <<m>>
    OBVIOUS
  <2> QED
    BY <1>2, <1>3, <2>1 DEF WireInv
<1>6. WireTypes' /\ OthersStay(t)
  BY <1>1, <1>3, <1>5, ServerRests, ClientPlaces
     DEF WireInv, WireTypes, OthersStay, Connection
<1>7. /\ to_client'[t] = <<>> /\ Received(t)' = m /\ connected'[t]
      /\ \/ place'[t] = "answer" /\ m.type = "CLIENT_VERSUS" /\ place[t] = "choose"
         \/ place'[t] = "gone" /\ m.type = "CLIENT_DISCONNECT" /\ place[t] = "choose"
         \/ place'[t] = "own_view" /\ m.type = "CLIENT_PLAYER_MOVE"
              /\ place[t] = "enter_move"
      /\ UNCHANGED <<pc, game_pc>>
  BY <1>1, <1>2, <1>3, <1>5, ServerRests DEF WireInv, Received
<1>8. Answers(t, m.type)'
  BY <1>4, <1>7 DEF Answers
<1>9. UpLink(t)'
  BY <1>5, <1>7, <1>8 DEF UpLink
<1>10. DownLink(t)' /\ GoneLink(t)'
  BY <1>5, <1>7 DEF DownLink, GoneLink
<1>11. Len(to_client'[t]) <= Ahead(t)'
  BY <1>7, EmptySeq DEF Ahead
<1> QED
  BY <1>1, <1>6, <1>9, <1>10, <1>11, ServerRests, WireKept DEF Link

LEMMA LeavesWires ==
  ASSUME ServerTypeOK, WireInv, NEW t \in Threads, Leaves(t)
  PROVE  WireInv'
<1>1. /\ ~connected'[t] /\ client_name' = client_name /\ OthersPlay(t)
      /\ \A u \in Threads \ {t} : connected'[u] = connected[u]
  BY DEF Leaves, ClientLeaves, game, locals, OthersPlay, ServerTypeOK, TypeOK
<1>2. /\ place' = [place EXCEPT ![t] = "gone"]
      /\ to_client' = [to_client EXCEPT ![t] = <<>>]
      /\ to_server' = [to_server EXCEPT ![t] = <<>>]
  BY DEF Leaves, C!Leave, C!Move
<1>3. WireTypes' /\ OthersStay(t)
  BY <1>1, <1>2, ClientPlaces, EmptySeq DEF WireInv, WireTypes, OthersStay, Connection
<1>4. Link(t)'
  BY <1>1, <1>2, LinkEnds DEF WireInv
<1> QED
  BY <1>1, <1>3, <1>4, WireKept

-----------------------------------------------------------------------------
(* The server's part of each step is one of ServiceThreads.                *)

mcvars == <<allvars, departed, shown>>

(* A step with its history left out. *)
Step ==
  \/ \E t \in Threads :
       ThreadStep(t) \/ Connects(t) \/ ClientTakes(t) \/ UserStep(t) \/ Leaves(t)
  \/ MeetsAtBarrier /\ ("start" \notin departed' => StartsAsGameLoop)

LEMMA StepOfRun ==
  ASSUME [MCNext]_mcvars, InContract
  PROVE  \/ "start" \notin departed /\ Step
         \/ UNCHANGED <<allvars, departed>>
<1>1. CASE UNCHANGED mcvars
  BY <1>1 DEF mcvars
<1>2. CASE MeetsAtBarrier /\ departed' = Departures
  BY <1>2 DEF Step, MeetsAtBarrier, Departures, InContract
<1>3. CASE \E t \in Threads :
             ThreadStep(t) \/ Connects(t) \/ ClientTakes(t) \/ UserStep(t) \/ Leaves(t)
  BY <1>3 DEF Step, InContract
<1> QED
  BY <1>1, <1>2, <1>3 DEF MCNext

(* Who is out of contract stays out of it. *)
LEMMA ContractIsKept == [MCNext]_mcvars /\ InContract' => InContract
<1>1. CASE UNCHANGED mcvars
  BY <1>1 DEF mcvars, InContract
<1>2. CASE InContract
  BY <1>2
<1>3. CASE departed' = departed \cup Departures
  BY <1>3 DEF InContract
<1> QED
  BY <1>1, <1>2, <1>3 DEF MCNext

LEMMA ConnectsMatches == ASSUME NEW t \in Threads, Connects(t) PROVE MatchStep(t)
BY DEF Connects, MatchStep, ClientStep

LEMMA LeavesKeep ==
  ASSUME ServerInv, NEW t \in Threads, Leaves(t) PROVE ServerInv'
<1>1. ClientLeaves(t) /\ UNCHANGED <<pc, game_pc, match, game>>
  BY DEF Leaves
<1>2. [Next]_vars
  BY <1>1 DEF Next, ClientStep, match
<1>3. IInv'
  BY <1>2, TypeStep, MutexStep, DownStep, CountStep, BarrierStep, FirstStep,
     NamesStep, FirstMoverStep DEF ServerInv, IInv
<1>4. UNCHANGED <<pc, game_pc, num_of_player, player_name, client_name,
                  other_client_name>>
  BY <1>1 DEF ClientLeaves, game, locals
<1>5. ServerTypeOK'
  BY <1>1, <1>3 DEF ServerInv, IInv, ServerTypeOK, game, shared, locals
<1>6. CallInv' /\ OpponentInv'
  BY <1>4 DEF ServerInv, CallInv, OpponentInv, Playing, InLoop
<1> QED
  BY <1>3, <1>5, <1>6 DEF ServerInv

LEMMA ServerKept == ServerInv /\ InContract /\ [MCNext]_mcvars => ServerInv'
<1> SUFFICES ASSUME ServerInv, InContract, [MCNext]_mcvars PROVE ServerInv'
  OBVIOUS
<1>1. CASE \E t \in Threads : Leaves(t)
  BY <1>1, LeavesKeep
<1>2. CASE [ServerNext]_server_vars
  BY <1>2, ServerStepHolds
<1>3. ASSUME NEW t \in Threads, ThreadStep(t) PROVE ServerNext
  BY <1>3, MenuStepMatches, PlayStepLoops DEF ThreadStep, ServerNext
<1>4. ASSUME NEW t \in Threads, Connects(t) PROVE ServerNext
  BY <1>4, ConnectsMatches DEF ServerNext
<1>5. ASSUME NEW t \in Threads, ClientTakes(t) \/ UserStep(t)
      PROVE  UNCHANGED server_vars
  BY <1>5 DEF ClientTakes, UserStep
<1>6. ASSUME MeetsAtBarrier PROVE ServerNext
  BY <1>6 DEF MeetsAtBarrier, ServerNext
<1>7. ASSUME UNCHANGED allvars PROVE UNCHANGED server_vars
  BY <1>7 DEF allvars
<1> QED
  BY <1>1, <1>2, <1>3, <1>4, <1>5, <1>6, <1>7, StepOfRun DEF Step

-----------------------------------------------------------------------------
(* The names and the turn of a game.                                       *)

(* What a thread that is not in the game does to one that is. *)
LEMMA MatchStepKeeps ==
  ASSUME ServerTypeOK, NEW v \in Threads, MatchStep(v)
  PROVE  /\ pc[v] \notin {"arrive", "exited"} => UNCHANGED num_of_player
         /\ UNCHANGED player_name \/
              \E n \in 1..2 : player_name' = [player_name EXCEPT ![n] = client_name[v]]
         /\ UNCHANGED game
         /\ game_pc' = IF pc[v] = "exited" THEN [game_pc EXCEPT ![v] = "game_loop"]
                                           ELSE game_pc
<1> USE DEF session
<1>1. CASE ServerStep(v)
  BY <1>1 DEF MatchStep, GamePlaceOf, ServerStep, SendMenu, Arrive, PlayerFor, PostName,
         ReadReady, WakeUp, FailAbandoned, SendNoOpponents, NoOpponentsFails,
         DecreaseReady, ResetFirstArrived, StartGame, SocketFails, ConnectionError
<1>2. CASE CheckReady(v)
  BY <1>2 DEF MatchStep, GamePlaceOf, CheckReady
<1>3. CASE ClientStep(v)
  BY <1>3 DEF MatchStep, GamePlaceOf, ClientStep, NewClient, Approve, RequestFails,
         RecvVersus, RecvDisconnect, ClientLeaves
<1> QED
  BY <1>1, <1>2, <1>3 DEF MatchStep

(* The steps of the whole, as far as the server's part goes. *)
LEMMA StepOfServer ==
  ASSUME Step
  PROVE  \/ \E v \in Threads : MatchStep(v)
         \/ \E v \in Threads : LoopStep(v)
         \/ \E v \in Threads : ReadNullMove(v)
         \/ \E v \in Threads : ReturnToMenu(v)
         \/ MeetAtBarrier /\ ("start" \notin departed' => StartsAsGameLoop)
         \/ UNCHANGED <<pc, game_pc, client_name, num_of_player, player_name, game>>
<1>1. ASSUME NEW t \in Threads, Leaves(t)
      PROVE  UNCHANGED <<pc, game_pc, client_name, num_of_player, player_name, game>>
  BY <1>1 DEF Leaves, ClientLeaves
<1>2. ASSUME NEW t \in Threads, ClientTakes(t) \/ UserStep(t)
      PROVE  UNCHANGED <<pc, game_pc, client_name, num_of_player, player_name, game>>
  BY <1>2 DEF ClientTakes, UserStep, server_vars, session
<1> QED
  BY <1>1, <1>2, MenuStepMatches, PlayStepLoops, ConnectsMatches
     DEF Step, ThreadStep, MeetsAtBarrier

LEMMA RivalStep ==
  ASSUME ServerInv, ServerInv', WireInv, WireInv', RivalInv, "start" \notin departed, Step
  PROVE  RivalInv'
<1> SUFFICES ASSUME "start" \notin departed',
                    NEW t \in Threads, NEW u \in Threads, t # u
             PROVE  /\ Playing(t)' /\ ~InLoop(t)' =>
                         player_name'[OtherPlayer(t)'] = UserName[u]
                    /\ InLoop(t)' => other_client_name'[t] = UserName[u]
  BY DEF RivalInv
<1>a. Threads = {t, u}
  BY ThreadsAssumption
<1>b. /\ Playing(t) /\ ~InLoop(t) => player_name[OtherPlayer(t)] = UserName[u]
      /\ InLoop(t) => other_client_name[t] = UserName[u]
      /\ client_name = UserName /\ client_name' = UserName
  BY DEF RivalInv, WireInv
<1>c. ServerTypeOK /\ CallInv
  BY DEF ServerInv
<1> USE DEF ServerTypeOK, TypeOK
<1>1. CASE \E v \in Threads : MatchStep(v)
  <2>1. PICK v \in Threads : MatchStep(v)
    BY <1>1
  <2> SUFFICES ASSUME Playing(t)'
               PROVE  /\ ~InLoop(t)' => player_name'[OtherPlayer(t)'] = UserName[u]
                      /\ InLoop(t)' => other_client_name'[t] = UserName[u]
    BY DEF InLoop, Playing
  <2>2. Playing(t)
    BY <1>c, <2>1, MatchStepMoves DEF Playing
  <2>3. num_of_player'[t] = num_of_player[t]
    BY <1>c, <2>1, <2>2, MatchStepMoves, MatchStepKeeps DEF Playing
  <2>4. other_client_name' = other_client_name /\ game_pc'[t] = game_pc[t]
    BY <1>c, <2>1, <2>2, MatchStepKeeps DEF Playing, game, locals
  <2>5. InLoop(t)' <=> InLoop(t)
    BY <1>c, <2>1, <2>2, <2>4, MatchStepMoves DEF Playing, InLoop, CallInv
  <2>6. OtherPlayer(t)' = OtherPlayer(t) /\ OtherPlayer(t) \in 1..2
    BY <2>3 DEF OtherPlayer
  <2>7. player_name'[OtherPlayer(t)] \in {player_name[OtherPlayer(t)], UserName[u]}
    <3>1. CASE v = t
      BY <1>c, <2>1, <2>2, <3>1, MatchStepMoves
    <3>2. CASE v = u
      BY <1>b, <1>c, <2>1, <2>6, <3>2, MatchStepKeeps
    <3> QED
      BY <1>a, <3>1, <3>2
  <2> QED
    BY <1>b, <2>2, <2>4, <2>5, <2>6, <2>7
<1>2. CASE \E v \in Threads : LoopStep(v)
  <2>1. PICK v \in Threads : LoopStep(v)
    BY <1>2
  <2>2. GameStep(v) /\ pc[v] = "game_loop" /\ InCall(v)
    BY <2>1 DEF LoopStep
  <2>3. UNCHANGED <<num_of_player, player_name>>
    BY <1>c, <2>2, GameStepMoves DEF session
  <2>4. CASE v = t
    <3>1. game_pc'[t] # "game_loop"
      BY <1>c, <2>2, <2>4, GameStepMoves
    <3>2. InLoop(t)' => game_pc'[t] # "exited"
      BY <1>c, <2>2, <2>4 DEF InLoop, InCall, Goto
    <3>3. InLoop(t)' => other_client_name'[t] = UserName[u]
      BY <1>b, <1>c, <2>2, <2>4, <3>2, GameStepMoves DEF Playing, InLoop
    <3>4. Playing(t)' => InLoop(t)'
      BY <2>2, <2>4, <3>1 DEF InLoop, InCall, Goto, Playing
    <3> QED
      BY <3>3, <3>4
  <2>5. CASE v # t
    <3>1. /\ pc'[t] = pc[t] /\ other_client_name'[t] = other_client_name[t]
          /\ game_pc'[t] = "game_loop" <=> game_pc[t] = "game_loop"
      BY <1>c, <2>2, <2>5, GameStepMoves DEF InCall, Goto
    <3> QED
      BY <1>b, <2>3, <3>1 DEF Playing, InLoop, OtherPlayer
  <2> QED
    BY <2>4, <2>5
<1>3. CASE \E v \in Threads : ReadNullMove(v)
  BY <1>3 DEF ReadNullMove, Playing, InLoop
<1>4. CASE \E v \in Threads : ReturnToMenu(v)
  BY <1>4, <1>a, <1>b, <1>c
     DEF ReturnToMenu, Reinit, Goto, LeaveCall, ForgetLocals, session, Playing, InLoop,
         OtherPlayer
<1>5. CASE MeetAtBarrier /\ ("start" \notin departed' => StartsAsGameLoop)
  <2>1. /\ Playing(t)' /\ Playing(u)' /\ num_of_player'[t] # num_of_player'[u]
        /\ pc'[t] = "game_started"
    BY <1>5 DEF MeetAtBarrier, LeaveBarrier, StartsAsGameLoop, session, Playing
  <2>2. /\ num_of_player'[t] \in 1..2 /\ num_of_player'[u] \in 1..2
        /\ player_name'[num_of_player'[u]] = UserName[u]
    BY <1>b, <2>1 DEF ServerInv, OpponentInv
  <2>3. OtherPlayer(t)' = num_of_player'[u]
    BY <2>1, <2>2 DEF OtherPlayer
  <2> QED
    BY <2>1, <2>2, <2>3 DEF InLoop
<1>6. CASE UNCHANGED <<pc, game_pc, client_name, num_of_player, player_name, game>>
  BY <1>6, <1>b DEF Playing, InLoop, OtherPlayer, game, locals
<1> QED
  BY <1>1, <1>2, <1>3, <1>4, <1>5, <1>6, StepOfServer

LEMMA LoopStepIsGameStep ==
  ASSUME NEW v \in Threads, LoopStep(v)
  PROVE  pc[v] = "game_loop" /\ GameStep(v) /\ [GameNext]_game_vars
BY DEF LoopStep, GameNext

LEMMA LoopStepReturns ==
  ASSUME ServerTypeOK, NEW v \in Threads, LoopStep(v)
  PROVE  /\ pc'[v] = IF game_pc'[v] \in {"reinit", "exited"} THEN game_pc'[v]
                                                           ELSE "game_loop"
         /\ \A u \in Threads \ {v} : pc'[u] = pc[u]
BY DEF LoopStep, InCall, Goto, ServerTypeOK, TypeOK

LEMMA ServerTypesOfCall == ServerTypeOK => CallTypeOK
BY DEF ServerTypeOK, TypeOK, CallTypeOK

LEMMA NextTurnKept ==
  ASSUME ServerInv, NextTurnInv, Step PROVE NextTurnInv'
<1>a. ServerTypeOK
  BY DEF ServerInv
<1>1. CASE \E v \in Threads : MatchStep(v)
  BY <1>a, <1>1, MatchStepKeeps DEF NextTurnInv, WaiterPlaces, ServerTypeOK, game, locals
<1>2. CASE \E v \in Threads : LoopStep(v)
  BY <1>a, <1>2, ServerTypesOfCall, LoopStepIsGameStep, NextTurnStep
<1>3. CASE \E v \in Threads : ReadNullMove(v)
  BY <1>3 DEF ReadNullMove, NextTurnInv, game, locals
<1>4. CASE \E v \in Threads : ReturnToMenu(v)
  BY <1>a, <1>4
     DEF ReturnToMenu, LeaveCall, ForgetLocals, NextTurnInv, WaiterPlaces, ServerTypeOK
<1>5. CASE MeetAtBarrier
  BY <1>5 DEF MeetAtBarrier, NextTurnInv, game, locals
<1>6. CASE UNCHANGED <<pc, game_pc, client_name, num_of_player, player_name, game>>
  BY <1>6 DEF NextTurnInv, game, locals
<1> QED
  BY <1>1, <1>2, <1>3, <1>4, <1>5, <1>6, StepOfServer

LEMMA TokenStep ==
  ASSUME ServerInv, ServerInv', WireInv, WireInv', NextTurnInv, TokenInv,
         "start" \notin departed, Step
  PROVE  TokenInv'
<1> SUFFICES ASSUME "start" \notin departed', Together'
             PROVE  (TurnInv /\ BoardInv /\ EndInv)'
  BY DEF TokenInv
<1>a. ServerTypeOK /\ (Together => TurnInv /\ BoardInv /\ EndInv)
  BY DEF ServerInv, TokenInv
<1>b. client_name' = client_name
  BY DEF WireInv
<1>c. ASSUME Together, UNCHANGED <<num_of_player, game_pc, game>>
      PROVE  (TurnInv /\ BoardInv /\ EndInv)'
  <2> USE <1>a, <1>b, <1>c DEF game, shared, locals
  <2>1. TurnInv'
    BY DEF TurnInv, HasTurn
  <2>2. BoardInv'
    BY DEF BoardInv, Knows, VerdictOf
  <2>3. EndInv'
    BY DEF EndInv, NoMoreMoves, Lost, Won, Returned, HasTurn
  <2> QED
    BY <2>1, <2>2, <2>3
<1>1. CASE \E v \in Threads : MatchStep(v)
  <2>1. PICK v \in Threads : MatchStep(v)
    BY <1>1
  <2>2. pc[v] \in {"game_started", "game_loop", "reinit"}
    BY <1>a, <2>1, MatchStepMoves DEF Together, Playing
  <2>3. Together
    BY <1>a, <2>1, <2>2, MatchStepMoves DEF Together
  <2>4. UNCHANGED <<num_of_player, game_pc, game>>
    BY <1>a, <2>1, <2>2, MatchStepKeeps
  <2> QED
    BY <1>c, <2>3, <2>4
<1>2. CASE \E v \in Threads : LoopStep(v)
  <2>1. PICK v \in Threads : LoopStep(v)
    BY <1>2
  <2>2. Together
    BY <1>a, <2>1, LoopStepReturns, LoopStepIsGameStep DEF Together
  <2>3. CallTypeOK /\ [GameNext]_game_vars
    BY <1>a, <2>1, LoopStepIsGameStep, ServerTypesOfCall
  <2> QED
    BY <1>a, <2>2, <2>3, TurnStep, BoardStep, EndStep
<1>3. CASE \E v \in Threads : ReadNullMove(v)
  BY <1>3 DEF ReadNullMove, Together
<1>4. CASE \E v \in Threads : ReturnToMenu(v)
  BY <1>a, <1>4 DEF ReturnToMenu, Reinit, Goto, Together, ServerTypeOK, TypeOK
<1>5. CASE MeetAtBarrier /\ ("start" \notin departed' => StartsAsGameLoop)
  <2>1. /\ event' = NULL /\ ~game_has_ended'
        /\ \A t, u \in Threads : t # u => num_of_player'[t] # num_of_player'[u]
        /\ \A t \in Threads : pc'[t] = "game_started"
    BY <1>5 DEF MeetAtBarrier, LeaveBarrier, StartsAsGameLoop, session, game, shared
  <2>2. \A t \in Threads : game_pc'[t] = "game_loop"
    BY <2>1 DEF ServerInv, CallInv
  <2>3. TurnInv'
    BY <2>1, <2>2 DEF ServerInv, TurnInv, HasTurn
  <2>4. BoardInv' /\ EndInv'
    BY <2>1, <2>2
       DEF BoardInv, Knows, EndInv, NoMoreMoves, Lost, Won, Returned, HasTurn
  <2> QED
    BY <2>3, <2>4
<1>6. CASE UNCHANGED <<pc, game_pc, client_name, num_of_player, player_name, game>>
  BY <1>6, <1>c DEF Together
<1> QED
  BY <1>1, <1>2, <1>3, <1>4, <1>5, <1>6, StepOfServer

(* The receive of a move is only reached from a turn of one's own. *)
LEMMA OnlyAskForMove ==
  ASSUME ServerTypeOK, NEW v \in Threads, GameStep(v)
  PROVE  /\ game_pc'[v] = "recv_move" => HasTurn(v)
         /\ \A u \in Threads \ {v} :
              game_pc'[u] = "recv_move" => game_pc[u] = "recv_move"
<1>1. game_pc'[v] = "recv_move" => AskForMove(v)
  BY DEF GameStep, MoverStep, WaiterStep, EnterLoop, RecvMove, ReadNumber, PublishMove,
         JudgeMove, RecordVerdict, AfterVerdict, AdvanceNumber, SignalTurn, Waiters,
         SendView, AnnounceOther, WaitForEvent, ReadMove, ReadEnded, SendOtherView,
         SendGameEnded, GameSocketFails, GameGoto, ServerTypeOK
<1>2. AskForMove(v) => HasTurn(v)
  BY DEF AskForMove, HasTurn
<1> QED
  BY <1>1, <1>2, GameStepMoves

LEMMA MoverStepKeeps ==
  ASSUME ServerInv, ServerInv', TokenInv, MoverInv, "start" \notin departed, Step
  PROVE  MoverInv'
<1>a. ServerTypeOK
  BY DEF ServerInv
<1> USE DEF MoverInv
<1>1. CASE \E v \in Threads : MatchStep(v)
  <2>1. PICK v \in Threads : MatchStep(v)
    BY <1>1
  <2>2. \A u \in Threads : game_pc'[u] = "recv_move" => game_pc[u] = "recv_move"
    BY <1>a, <2>1, MatchStepKeeps DEF ServerTypeOK
  <2>3. \A u \in Threads : pc[u] \in {"game_loop", "down"} => pc'[u] = pc[u]
    BY <1>a, <2>1, MatchStepMoves
  <2> QED
    BY <2>2, <2>3
<1>2. CASE \E v \in Threads : LoopStep(v)
  <2>1. PICK v \in Threads : LoopStep(v)
    BY <1>2
  <2>2. pc[v] = "game_loop" /\ GameStep(v)
    BY <2>1, LoopStepIsGameStep
  <2>3. \A u \in Threads :
          game_pc'[u] = "recv_move" => pc'[u] \in {"game_loop", "down"}
    BY <1>a, <2>1, <2>2, LoopStepReturns, OnlyAskForMove
  <2>4. ASSUME NEW u \in Threads \ {v}, game_pc'[v] = "recv_move",
               game_pc'[u] = "recv_move"
        PROVE  FALSE
    <3>1. HasTurn(v) /\ HasTurn(u)
      BY <1>a, <2>2, <2>4, OnlyAskForMove DEF HasTurn
    <3>2. pc[u] = "game_loop"
      <4>1. game_pc[u] = "recv_move"
        BY <1>a, <2>2, <2>4, OnlyAskForMove
      <4>2. pc[u] # "down"
        BY <2>2 DEF ServerInv, IInv, DownInv
      <4> QED
        BY <4>1, <4>2
    <3>3. Together
      BY <2>2, <3>2, ThreadsAssumption DEF Together
    <3> QED
      BY <3>1, <3>3 DEF TokenInv, TurnInv
  <2>5. \A u \in Threads \ {v} :
          game_pc'[u] = "recv_move" => game_pc[u] = "recv_move"
    BY <1>a, <2>2, OnlyAskForMove
  <2> QED
    BY <2>3, <2>4, <2>5
<1>3. CASE \E v \in Threads : ReadNullMove(v)
  BY <1>3 DEF ReadNullMove
<1>4. CASE \E v \in Threads : ReturnToMenu(v)
  BY <1>a, <1>4 DEF ReturnToMenu, Reinit, Goto, LeaveCall, ServerTypeOK, TypeOK
<1>5. CASE MeetAtBarrier
  BY <1>5 DEF MeetAtBarrier, LeaveBarrier
<1>6. CASE UNCHANGED <<pc, game_pc, client_name, num_of_player, player_name, game>>
  BY <1>6
<1> QED
  BY <1>1, <1>2, <1>3, <1>4, <1>5, <1>6, StepOfServer

-----------------------------------------------------------------------------
(* The inductive invariant, and what follows from it.                      *)

ProtocolInv ==
  ServerInv /\ WireInv /\ RivalInv /\ NextTurnInv /\ TokenInv /\ MoverInv

LEMMA ProtocolInit == MCInit => ProtocolInv
<1> SUFFICES ASSUME MCInit PROVE ProtocolInv
  OBVIOUS
<1>1. ServerInit /\ ServerInv
  BY ServerInitHolds DEF MCInit, PInit
<1>2. \A t \in Threads : pc[t] = "exited" /\ game_pc[t] = "game_loop" /\ ~connected[t]
  BY <1>1 DEF ServerInit, Init
<1>3. WireInv
  <2>1. /\ client_name = UserName
        /\ place = [t \in Threads |-> "gone"]
        /\ to_client = [t \in Threads |-> <<>>]
        /\ to_server = [t \in Threads |-> <<>>]
    BY DEF MCInit, PInit
  <2>2. \A t \in Threads : Ahead(t) >= 0 /\ Len(to_client[t]) = 0
    BY <2>1, EmptySeq DEF Ahead
  <2>3. \A t \in Threads : Link(t)
    BY <1>2, <2>1, <2>2 DEF Link, UpLink, DownLink, GoneLink
  <2> QED
    BY <2>1, <2>3, ClientPlaces, EmptySeq DEF WireInv
<1>4. RivalInv /\ MoverInv /\ NextTurnInv
  BY <1>2 DEF RivalInv, Playing, InLoop, MoverInv, NextTurnInv, WaiterPlaces
<1>5. TokenInv
  BY <1>2, ThreadsAssumption DEF TokenInv, Together
<1> QED
  BY <1>1, <1>3, <1>4, <1>5 DEF ProtocolInv

LEMMA WireStep ==
  ASSUME DifferentNames, ProtocolInv, "start" \notin departed, Step
  PROVE  WireInv'
<1>1. ServerTypeOK /\ CallInv
  BY DEF ProtocolInv, ServerInv
<1>2. ASSUME NEW t \in Threads, ThreadStep(t) PROVE WireInv'
  BY <1>1, <1>2, MenuStepWires, PlayStepWires, ReadNullMoveWires, ReturnToMenuWires
     DEF ThreadStep, ProtocolInv
<1>3. ASSUME NEW t \in Threads,
             Connects(t) \/ ClientTakes(t) \/ UserStep(t) \/ Leaves(t)
      PROVE  WireInv'
  BY <1>1, <1>3, ConnectsWires, ClientTakesWires, UserStepWires, LeavesWires
     DEF ProtocolInv
<1>4. ASSUME MeetsAtBarrier PROVE WireInv'
  BY <1>1, <1>4, MeetsAtBarrierWires DEF ProtocolInv
<1> QED
  BY <1>2, <1>3, <1>4 DEF Step

LEMMA RestKeeps ==
  ASSUME ProtocolInv, ServerInv', UNCHANGED <<allvars, departed>> PROVE ProtocolInv'
<1> USE DEF ProtocolInv, allvars, server_vars, session, game, shared, locals, wire
<1>1. WireInv'
  <2>1. ASSUME NEW t \in Threads PROVE Link(t)'
    BY DEF WireInv, Link, UpLink, DownLink, GoneLink, Answers, Received, AimsAt, Aim,
           GameAim, Ahead
  <2> QED
    BY <2>1 DEF WireInv
<1>2. RivalInv' /\ NextTurnInv' /\ TokenInv' /\ MoverInv'
  BY DEF RivalInv, Playing, InLoop, OtherPlayer, NextTurnInv, TokenInv, Together,
         TurnInv, HasTurn, BoardInv, Knows, VerdictOf, EndInv, NoMoreMoves, Lost, Won,
         Returned, MoverInv
<1> QED
  BY <1>1, <1>2

LEMMA ProtocolStep ==
  DifferentNames /\ ProtocolInv /\ InContract /\ [MCNext]_mcvars => ProtocolInv'
<1> SUFFICES ASSUME DifferentNames, ProtocolInv, InContract, [MCNext]_mcvars
             PROVE  ProtocolInv'
  OBVIOUS
<1>1. ServerInv'
  BY ServerKept DEF ProtocolInv
<1>2. CASE "start" \notin departed /\ Step
  <2>1. WireInv'
    BY <1>2, WireStep
  <2>2. RivalInv' /\ NextTurnInv' /\ TokenInv' /\ MoverInv'
    BY <1>1, <1>2, <2>1, RivalStep, NextTurnKept, TokenStep, MoverStepKeeps
       DEF ProtocolInv
  <2> QED
    BY <1>1, <2>1, <2>2 DEF ProtocolInv
<1>3. CASE UNCHANGED <<allvars, departed>>
  BY <1>1, <1>3, RestKeeps
<1> QED
  BY <1>2, <1>3, StepOfRun

(* Which clients there are, and where, needs no contract. *)
LEMMA PlacesStep ==
  ASSUME place \in [Threads -> C!Places], [MCNext]_mcvars
  PROVE  place' \in [Threads -> C!Places]
<1>1. CASE place' = place
  BY <1>1
<1>2. ASSUME NEW t \in Threads, NEW p \in C!Places, C!Move(t, p)
      PROVE  place' \in [Threads -> C!Places]
  BY <1>2 DEF C!Move
<1>3. ASSUME NEW t \in Threads, ThreadStep(t) PROVE place' = place
  BY <1>3 DEF ThreadStep, MenuStep, PlayStep
<1>4. ASSUME NEW t \in Threads, Connects(t) \/ ClientTakes(t) \/ UserStep(t) \/ Leaves(t)
      PROVE  \E p \in C!Places : C!Move(t, p)
  BY <1>4, ClientPlaces
     DEF Connects, ClientTakes, UserStep, Leaves, C!Connect, C!RecvApproved,
         C!RecvMainMenu, C!RecvAnswer, C!AfterAnswer, C!RecvTurnSwitch, C!RecvMoveRequest,
         C!RecvGameView, C!AfterView, C!RecvGameEnded, C!ChooseVersus, C!ChooseQuit,
         C!EnterMove, C!Leave
<1>5. ASSUME MeetsAtBarrier PROVE place' = place
  BY <1>5 DEF MeetsAtBarrier
<1>6. UNCHANGED mcvars => place' = place
  BY DEF mcvars, allvars
<1> QED
  BY <1>1, <1>2, <1>3, <1>4, <1>5, <1>6 DEF MCNext

ContractInv == place \in [Threads -> C!Places] /\ (InContract => ProtocolInv)

LEMMA ProtocolInductive ==
  ASSUME DifferentNames PROVE MCSpec => []ContractInv
<1>1. MCInit => ContractInv
  BY ProtocolInit DEF ContractInv, ProtocolInv, WireInv
<1>2. ContractInv /\ [MCNext]_<<allvars, departed, shown>> => ContractInv'
  BY ProtocolStep, ContractIsKept, PlacesStep DEF mcvars, ContractInv
<1> QED
  BY <1>1, <1>2, PTL DEF MCSpec

(* WireTypeOK of MCProtocol: in contract, the server is never more than five messages ahead
   of a client, and a client never has more than one on its way. *)
THEOREM ServerIsFewMessagesAhead ==
  ASSUME DifferentNames PROVE MCSpec => []WireTypeOK
<1>1. ASSUME ProtocolInv PROVE WireTypeOK
  <2>1. ASSUME NEW t \in Threads PROVE Len(to_client[t]) <= 5 /\ Len(to_server[t]) <= 1
    <3>1. Len(to_client[t]) <= Ahead(t) /\ Len(to_client[t]) \in Nat
      BY <1>1, LenProperties DEF ProtocolInv, WireInv, Link
    <3>2. Ahead(t) <= 5 /\ Ahead(t) \in Nat
      BY DEF Ahead
    <3>3. Len(to_server[t]) <= 1
      <4>1. Len(<<>>) = 0
        BY EmptySeq
      <4>2. to_server[t] # <<>> => Len(to_server[t]) = 1
        BY <1>1 DEF ProtocolInv, WireInv, Link, UpLink
      <4>3. CASE to_server[t] = <<>>
        <5>1. Len(to_server[t]) = 0
          BY <4>1, <4>3
        <5> QED
          BY <5>1
      <4>4. CASE to_server[t] # <<>>
        <5>1. Len(to_server[t]) = 1
          BY <4>2, <4>4
        <5> QED
          BY <5>1
      <4> QED
        BY <4>3, <4>4
    <3> QED
      BY <3>1, <3>2, <3>3
  <2> QED
    BY <1>1, <2>1 DEF ProtocolInv, WireInv, WireTypeOK
<1>2. ContractInv => WireTypeOK
  BY <1>1 DEF ContractInv, WireTypeOK
<1> QED
  BY <1>2, ProtocolInductive, PTL

(* InStep of MCProtocol: in contract, each side is sent what it waits for. *)
THEOREM BothSidesKeepInStep ==
  ASSUME DifferentNames PROVE MCSpec => []InStep
<1>1. ASSUME ProtocolInv, NEW t \in Threads,
             place[t] \in DOMAIN C!Awaits, to_client[t] # <<>>
      PROVE  C!Received(t).type \in C!Awaits[place[t]]
  <2>1. to_server[t] = <<>> /\ place[t] # "gone" /\ to_client[t] \in Seq(Messages)
    BY <1>1 DEF ProtocolInv, WireInv, Link, UpLink, GoneLink
  <2>2. PICK a \in C!Places : Path(t, place[t], to_client[t], a)
    BY <1>1, <2>1 DEF ProtocolInv, WireInv, Link, DownLink
  <2>3. PICK r \in C!Places : Takes(t, place[t], Head(to_client[t]), r)
    BY <1>1, <2>1, <2>2, PathShrinks
  <2> QED
    BY <2>3 DEF Takes, C!Awaits, C!Received
<1>2. ASSUME ProtocolInv, NEW t \in Threads, pc[t] # "down", to_server[t] # <<>>
      PROVE  /\ ServerPlace(t) \in DOMAIN ServerAwaits
             /\ Received(t).type \in ServerAwaits[ServerPlace(t)]
  <2>1. Answers(t, Received(t).type)
    BY <1>2 DEF ProtocolInv, WireInv, Link, UpLink
  <2> QED
    BY <1>2, <2>1 DEF Answers, ServerPlace, ServerAwaits
<1>3. ContractInv => InStep
  BY <1>1, <1>2 DEF ContractInv, InStep
<1> QED
  BY <1>3, ProtocolInductive, PTL

(* NeverBothWaiting of MCProtocol: in contract, a client and its thread never
   wait for each other. *)
THEOREM SidesNeverWaitForEachOther ==
  ASSUME DifferentNames PROVE MCSpec => []NeverBothWaiting
<1>1. ASSUME ProtocolInv, NEW t \in Threads, connected[t],
             ServerPlace(t) \in DOMAIN ServerAwaits,
             to_server[t] = <<>>, to_client[t] = <<>>
      PROVE  place[t] \in C!UserPlaces
  <2>1. place[t] # "gone" /\ place[t] \in C!Places
    BY <1>1 DEF ProtocolInv, WireInv, Link, GoneLink
  <2>2. PICK a \in C!Places : AimsAt(t, a) /\ Path(t, place[t], to_client[t], a)
    BY <1>1, <2>1 DEF ProtocolInv, WireInv, Link, DownLink
  <2>3. a = place[t]
    BY <1>1, <2>1, <2>2, PathOfNothing
  <2>4. \/ pc[t] \in {"request", "choose"}
        \/ pc[t] = "game_loop" /\ game_pc[t] = "recv_move"
    <3>1. pc[t] \in Places /\ game_pc[t] \in GamePlaces
      BY <1>1 DEF ProtocolInv, ServerInv, ServerTypeOK, TypeOK
    <3>2. ServerPlace(t) \in {"request", "choose", "recv_move"}
      BY <1>1 DEF ServerAwaits
    <3> QED
      BY <3>1, <3>2 DEF ServerPlace, Places, GamePlaces, MoverPlaces, WaiterPlaces
  <2>5. place[t] \in {"none", "choose", "enter_move"}
    BY <2>2, <2>3, <2>4
       DEF AimsAt, Aim, GameAim, MoverPlaces, WaiterPlaces
  <2> QED
    BY <2>1, <2>5, ClientPlaces DEF C!UserPlaces
<1>2. ContractInv => NeverBothWaiting
  BY <1>1 DEF ContractInv, NeverBothWaiting
<1> QED
  BY <1>2, ProtocolInductive, PTL

(* From either place at which a client takes it for its turn, no message leads
   it further than to its user. *)
LEMMA OwnTurnEnds ==
  ASSUME NEW t, NEW q \in Seq(Messages), NEW p \in OwnTurn, NEW a, Path(t, p, q, a)
  PROVE  a \in OwnTurn
<1>1. PICK f \in [0..Len(q) -> C!Places] :
        /\ f[0] = p
        /\ f[Len(q)] = a
        /\ \A i \in 1..Len(q) : Takes(t, f[i - 1], q[i], f[i])
  BY DEF Path
<1>2. Len(q) \in Nat
  BY LenProperties
<1>3. ASSUME NEW x, NEW m, NEW y, Takes(t, x, m, y), x \in OwnTurn
      PROVE  x = "move_request" /\ y = "enter_move"
  BY <1>3 DEF Takes, OwnTurn
<1>4. CASE Len(q) = 0
  BY <1>1, <1>4
<1>5. CASE Len(q) = 1
  BY <1>1, <1>3, <1>5 DEF OwnTurn
<1>6. CASE Len(q) > 1
  <2>1. 1 \in 1..Len(q) /\ 2 \in 1..Len(q)
    BY <1>2, <1>6
  <2>2. Takes(t, f[0], q[1], f[1]) /\ Takes(t, f[1], q[2], f[2])
    BY <1>1, <2>1
  <2>3. f[1] = "enter_move"
    BY <1>1, <1>3, <2>2
  <2> QED
    BY <1>3, <2>2, <2>3 DEF OwnTurn
<1> QED
  BY <1>2, <1>4, <1>5, <1>6

(* OneUserMoves of MCProtocol: in contract, the two clients never both take it
   for their own turn. *)
THEOREM OnlyOneUserMoves ==
  ASSUME DifferentNames PROVE MCSpec => []OneUserMoves
<1>1. ASSUME ProtocolInv, NEW t \in Threads, place[t] \in OwnTurn
      PROVE  game_pc[t] = "recv_move"
  <2>1. CASE place[t] = "enter_move"
    <3>1. AimsAt(t, "enter_move")
      BY <1>1, <2>1, UserIsAsked DEF ProtocolInv
    <3> QED
      BY <3>1 DEF AimsAt, Aim, GameAim
  <2>2. CASE place[t] = "move_request"
    <3>1. Link(t) /\ to_client[t] \in Seq(Messages)
      BY <1>1 DEF ProtocolInv, WireInv
    <3>2. to_server[t] = <<>>
      BY <2>2, <3>1 DEF Link, UpLink, Answers
    <3>3. PICK a \in C!Places : AimsAt(t, a) /\ Path(t, place[t], to_client[t], a)
      BY <2>2, <3>1, <3>2 DEF Link, DownLink
    <3>4. a \in OwnTurn
      BY <1>1, <3>1, <3>3, OwnTurnEnds
    <3> QED
      BY <3>3, <3>4 DEF AimsAt, Aim, GameAim, OwnTurn
  <2> QED
    BY <1>1, <2>1, <2>2 DEF OwnTurn
<1>2. ContractInv => OneUserMoves
  BY <1>1 DEF ContractInv, ProtocolInv, MoverInv, OneUserMoves
<1> QED
  BY <1>2, ProtocolInductive, PTL

-----------------------------------------------------------------------------
(* What messages show a user.                                              *)

(* What one GAME_VIEW or GAME_ENDED shows, and what a message does. *)
Entries == Seq(Values)

ShownBy(m) ==
  CASE m.type = "GAME_VIEW" -> <<Front(m.parameters)>>
    [] m.type = "GAME_ENDED" -> <<m.parameters>>
    [] OTHER -> <<>>

(* Reading the messages of q shows the user P. *)
Pending(q, P) ==
  \E f \in [0..Len(q) -> Seq(Entries)] :
    /\ f[0] = P
    /\ f[Len(q)] = <<>>
    /\ \A i \in 1..Len(q) : f[i - 1] = ShownBy(q[i]) \o f[i]

(* GAME_VIEW is shown without the word that says whether the game goes on. *)
LEMMA FrontOfThree ==
  ASSUME NEW a, NEW b, NEW c PROVE Front(<<a, b, c>>) = <<a, b>>
<1> DEFINE S == {a, b, c}
           s == <<a, b, c>>
<1>1. s \in Seq(S) /\ Len(s) = 3 /\ s[1] = a /\ s[2] = b
  OBVIOUS
<1>2. \A i \in 1..2 : s[i] \in S
  BY <1>1
<1> HIDE DEF s, S
<1>3. /\ SubSeq(s, 1, 2) \in Seq(S) /\ Len(SubSeq(s, 1, 2)) = 2
      /\ \A i \in 1..2 : SubSeq(s, 1, 2)[i] = s[i]
  BY <1>2, SubSeqProperties
<1>4. <<a, b>> \in Seq(S) /\ Len(<<a, b>>) = 2 /\ <<a, b>>[1] = a /\ <<a, b>>[2] = b
  BY DEF S
<1>5. SubSeq(s, 1, 2) = <<a, b>>
  <2> DEFINE u == SubSeq(s, 1, 2)
             v == <<a, b>>
  <2>1. u \in Seq(S) /\ v \in Seq(S) /\ Len(u) = Len(v)
    BY <1>3, <1>4
  <2>2. \A i \in 1..Len(u) : u[i] = v[i]
    <3>1. \A i \in 1..2 : i = 1 \/ i = 2
      OBVIOUS
    <3> QED
      BY <1>1, <1>3, <1>4, <3>1
  <2> HIDE DEF u, v
  <2>3. u = v
    BY <2>1, <2>2, SeqEqual
  <2> QED
    BY <2>3 DEF u, v
<1>6. Front(s) = SubSeq(s, 1, 2)
  BY <1>1 DEF Front
<1> QED
  BY <1>5, <1>6 DEF s

LEMMA ShownIsTyped == ASSUME NEW m \in Messages PROVE ShownBy(m) \in Seq(Entries)
<1>1. m.parameters \in Seq(Values)
  BY DEF Messages
<1>2. Front(m.parameters) \in Seq(Values)
  <2> DEFINE s == m.parameters
             n == Len(s) - 1
  <2>1. s \in Seq(Values) /\ n \in Int /\ 1 \in Int
    BY <1>1, LenProperties
  <2>2. \A i \in 1..n : s[i] \in Values
    BY <2>1, ElementOfSeq
  <2> HIDE DEF s
  <2>3. SubSeq(s, 1, n) \in Seq(Values)
    BY <2>1, <2>2, SubSeqProperties
  <2> QED
    BY <2>3 DEF Front, s
<1>3. \A e \in Entries : <<e>> \in Seq(Entries)
  OBVIOUS
<1> QED
  BY <1>1, <1>2, <1>3, EmptySeq DEF ShownBy, Entries

(* Entries one after the other. *)
LEMMA EntriesConcat ==
  /\ <<>> \in Seq(Entries)
  /\ \A r \in Seq(Entries) : r \o <<>> = r /\ <<>> \o r = r
  /\ \A r, s \in Seq(Entries) : r \o s \in Seq(Entries)
  /\ \A r, s, u \in Seq(Entries) : (r \o s) \o u = r \o (s \o u)
<1>1. \A r \in Seq(Entries) : r \o <<>> = r /\ <<>> \o r = r
  BY ConcatEmptySeq
<1>2. \A r, s \in Seq(Entries) : r \o s \in Seq(Entries)
  BY ConcatProperties
<1>3. \A r, s, u \in Seq(Entries) : (r \o s) \o u = r \o (s \o u)
  BY ConcatAssociative
<1> QED
  BY <1>1, <1>2, <1>3, EmptySeq

LEMMA PendingOfNothing == ASSUME NEW P PROVE Pending(<<>>, P) <=> P = <<>>
<1>1. ASSUME Pending(<<>>, P) PROVE P = <<>>
  BY <1>1 DEF Pending
<1>2. ASSUME P = <<>> PROVE Pending(<<>>, P)
  <2> DEFINE f == [i \in 0..0 |-> P]
  <2>0. <<>> \in Seq(Entries)
    BY EmptySeq
  <2>1. /\ f \in [0..Len(<<>>) -> Seq(Entries)] /\ f[0] = P /\ f[Len(<<>>)] = P
        /\ \A i \in 1..Len(<<>>) : FALSE
    BY <1>2, <2>0
  <2> HIDE DEF f
  <2> QED
    BY <1>2, <2>1 DEF Pending
<1> QED
  BY <1>1, <1>2

LEMMA PendingGrows ==
  ASSUME NEW q \in Seq(Messages), NEW P, Pending(q, P), NEW m \in Messages
  PROVE  Pending(q \o <<m>>, P \o ShownBy(m)) /\ P \o ShownBy(m) \in Seq(Entries)
<1>1. PICK f \in [0..Len(q) -> Seq(Entries)] :
        /\ f[0] = P
        /\ f[Len(q)] = <<>>
        /\ \A i \in 1..Len(q) : f[i - 1] = ShownBy(q[i]) \o f[i]
  BY DEF Pending
<1> DEFINE s == q \o <<m>>
           n == Len(q)
           e == ShownBy(m)
           g == [i \in 0..(n + 1) |-> IF i <= n THEN f[i] \o e ELSE <<>>]
<1>2. n \in Nat /\ Len(s) = n + 1 /\ s[n + 1] = m /\ \A i \in 1..n : s[i] = q[i]
  OBVIOUS
<1>3. e \in Seq(Entries) /\ <<>> \in Seq(Entries)
  BY ShownIsTyped, EmptySeq
<1>4. \A i \in 0..n : f[i] \o e \in Seq(Entries)
  BY <1>1, <1>3, ConcatProperties
<1> HIDE DEF e, s
<1>5. g \in [0..Len(s) -> Seq(Entries)] /\ g[0] = P \o e /\ g[Len(s)] = <<>>
  BY <1>1, <1>2, <1>3, <1>4
<1>a. (\A j \in 0..n : g[j] = f[j] \o e) /\ g[n + 1] = <<>>
  BY <1>2
<1> HIDE DEF g
<1>6. ASSUME NEW i \in 1..Len(s) PROVE g[i - 1] = ShownBy(s[i]) \o g[i]
  <2>1. CASE i <= n
    <3>0. i \in 1..n /\ i \in 0..n /\ i - 1 \in 0..n /\ i - 1 <= n
      BY <1>2, <2>1
    <3>1. g[i - 1] = f[i - 1] \o e /\ g[i] = f[i] \o e /\ s[i] = q[i]
      BY <1>2, <1>a, <3>0, Zenon
    <3>2. f[i - 1] = ShownBy(q[i]) \o f[i] /\ f[i] \in Seq(Entries)
      BY <1>1, <3>0
    <3>3. ShownBy(q[i]) \in Seq(Entries)
      BY <3>0, ShownIsTyped, ElementOfSeq
    <3>4. (ShownBy(q[i]) \o f[i]) \o e = ShownBy(q[i]) \o (f[i] \o e)
      BY <1>3, <3>2, <3>3, EntriesConcat
    <3>5. g[i - 1] = (ShownBy(q[i]) \o f[i]) \o e
      BY <3>1, <3>2, Zenon
    <3>6. ShownBy(s[i]) \o g[i] = ShownBy(q[i]) \o (f[i] \o e)
      BY <3>1, Zenon
    <3> QED
      BY <3>4, <3>5, <3>6, Zenon
  <2>2. CASE i = n + 1
    <3>0. i - 1 = n /\ n \in 0..n
      BY <1>2, <2>2
    <3>1. g[i - 1] = f[n] \o e /\ g[i] = <<>> /\ s[i] = m
      BY <1>2, <1>a, <2>2, <3>0
    <3>2. <<>> \o e = e /\ e \o <<>> = e
      BY <1>3, ConcatEmptySeq
    <3>3. g[i - 1] = e /\ ShownBy(s[i]) \o g[i] = e \o <<>>
      BY <1>1, <3>1, <3>2 DEF e
    <3> QED
      BY <3>2, <3>3
  <2>3. i <= n \/ i = n + 1
    BY <1>2
  <2> QED
    BY <2>1, <2>2, <2>3, Zenon
<1>7. P \o e \in Seq(Entries)
  BY <1>1, <1>2, <1>4
<1> QED
  BY <1>5, <1>6, <1>7 DEF Pending, s, e

LEMMA PendingShrinks ==
  ASSUME NEW q \in Seq(Messages), q # <<>>, NEW P, Pending(q, P)
  PROVE  \E Q \in Seq(Entries) : P = ShownBy(Head(q)) \o Q /\ Pending(Tail(q), Q)
<1>1. PICK f \in [0..Len(q) -> Seq(Entries)] :
        /\ f[0] = P
        /\ f[Len(q)] = <<>>
        /\ \A i \in 1..Len(q) : f[i - 1] = ShownBy(q[i]) \o f[i]
  BY DEF Pending
<1> DEFINE s == Tail(q)
           n == Len(q)
           g == [i \in 0..(n - 1) |-> f[i + 1]]
<1>2. /\ n \in Nat /\ n >= 1 /\ Len(s) = n - 1 /\ Head(q) = q[1]
      /\ \A i \in 1..Len(s) : s[i] = q[i + 1]
  OBVIOUS
<1>3. f[1] \in Seq(Entries) /\ P = ShownBy(Head(q)) \o f[1]
  BY <1>1, <1>2
<1>4. g \in [0..Len(s) -> Seq(Entries)] /\ g[0] = f[1] /\ g[Len(s)] = <<>>
  BY <1>1, <1>2
<1>5. ASSUME NEW i \in 1..Len(s) PROVE g[i - 1] = ShownBy(s[i]) \o g[i]
  <2>1. g[i - 1] = f[i] /\ g[i] = f[i + 1] /\ s[i] = q[i + 1] /\ i + 1 \in 1..n
    BY <1>2
  <2>2. f[(i + 1) - 1] = ShownBy(q[i + 1]) \o f[i + 1]
    BY <1>1, <2>1
  <2>3. (i + 1) - 1 = i
    OBVIOUS
  <2> HIDE DEF g, s
  <2> QED
    BY <2>1, <2>2, <2>3
<1> HIDE DEF g
<1>6. Pending(Tail(q), f[1])
  BY <1>4, <1>5 DEF Pending
<1> QED
  BY <1>3, <1>6

-----------------------------------------------------------------------------
(* A thread in a game, also when the other one has left it.                *)

InPlay(t) == pc[t] \in {"game_started", "game_loop", "reinit"}

(* A thread that has returned from a call, and one that has ended. *)
PlaceInv ==
  \A t \in Threads :
    /\ pc[t] = "reinit" => game_pc[t] = "reinit"
    /\ pc[t] = "exited" => game_pc[t] \in {"game_loop", "exited"}

(* The event and the turn are one token for a thread whose rival has gone, too. *)
AloneInv ==
  "start" \notin departed =>
    \A t \in Threads : InPlay(t) /\ HasTurn(t) => event = NULL

(* Where the signal of its rival may find a thread. *)
SignalInv ==
  "start" \notin departed =>
    \A t, u \in Threads : t # u /\ InPlay(t) /\ event = u =>
      /\ game_pc[t] \in {"game_loop", "turn", "wait", "send_view"}
      /\ ~game_has_finished[t]

TurnsInv == PlaceInv /\ FinishedInv /\ AloneInv /\ SignalInv

LEMMA BothPlay ==
  ASSUME NEW t \in Threads, NEW u \in Threads, t # u, InPlay(t), InPlay(u)
  PROVE  Together
BY ThreadsAssumption DEF InPlay, Together

LEMMA TurnsInit == MCInit => TurnsInv
BY DEF MCInit, PInit, ServerInit, Init, TurnsInv, PlaceInv, FinishedInv, AloneInv,
       SignalInv, InPlay

LEMMA PlaceStep ==
  ASSUME ServerInv, PlaceInv, Step PROVE PlaceInv'
<1>a. ServerTypeOK /\ CallInv
  BY DEF ServerInv
<1> USE DEF PlaceInv
<1>1. CASE \E v \in Threads : MatchStep(v)
  <2>1. PICK v \in Threads : MatchStep(v)
    BY <1>1
  <2>2. /\ \A u \in Threads \ {v} : pc'[u] = pc[u] /\ game_pc'[u] = game_pc[u]
        /\ pc[v] \in {"game_loop", "reinit", "down"} => pc'[v] = pc[v]
        /\ pc'[v] = "reinit" => pc[v] = "reinit"
        /\ game_pc'[v] = IF pc[v] = "exited" THEN "game_loop" ELSE game_pc[v]
    BY <1>a, <2>1, MatchStepMoves, MatchStepKeeps DEF ServerTypeOK
  <2>3. pc[v] \notin {"game_loop", "reinit", "exited", "down"} => game_pc[v] = "game_loop"
    BY <1>a DEF CallInv
  <2> QED
    BY <2>2, <2>3
<1>2. CASE \E v \in Threads : LoopStep(v)
  <2>1. PICK v \in Threads : LoopStep(v)
    BY <1>2
  <2>2. /\ pc'[v] = IF game_pc'[v] \in {"reinit", "exited"} THEN game_pc'[v]
                                                           ELSE "game_loop"
        /\ \A u \in Threads \ {v} : pc'[u] = pc[u]
        /\ \A u \in Threads \ {v} :
             game_pc[u] \in {"reinit", "game_loop", "exited"} => game_pc'[u] = game_pc[u]
    BY <1>a, <2>1, LoopStepReturns, LoopStepIsGameStep, GameStepMoves
  <2> QED
    BY <2>2
<1>3. CASE \E v \in Threads : ReadNullMove(v)
  BY <1>3 DEF ReadNullMove
<1>4. CASE \E v \in Threads : ReturnToMenu(v)
  BY <1>a, <1>4 DEF ReturnToMenu, Reinit, Goto, LeaveCall, ServerTypeOK, TypeOK
<1>5. CASE MeetAtBarrier
  BY <1>5 DEF MeetAtBarrier, LeaveBarrier
<1>6. CASE UNCHANGED <<pc, game_pc, client_name, num_of_player, player_name, game>>
  BY <1>6
<1> QED
  BY <1>1, <1>2, <1>3, <1>4, <1>5, <1>6, StepOfServer

LEMMA FinishedStep ==
  ASSUME ServerInv, PlaceInv, FinishedInv, Step PROVE FinishedInv'
<1>a. ServerTypeOK
  BY DEF ServerInv
<1>1. CASE \E v \in Threads : MatchStep(v)
  <2>1. PICK v \in Threads : MatchStep(v)
    BY <1>1
  <2>2. /\ game_has_finished' = game_has_finished
        /\ game_pc' = IF pc[v] = "exited" THEN [game_pc EXCEPT ![v] = "game_loop"]
                                          ELSE game_pc
    BY <1>a, <2>1, MatchStepKeeps DEF game, locals
  <2>3. pc[v] = "exited" => ~game_has_finished[v]
    BY DEF PlaceInv, FinishedInv
  <2> QED
    BY <1>a, <2>2, <2>3 DEF FinishedInv, ServerTypeOK
<1>2. CASE \E v \in Threads : LoopStep(v)
  BY <1>a, <1>2, ServerTypesOfCall, LoopStepIsGameStep, FinishedGameStep
<1>3. CASE \E v \in Threads : ReadNullMove(v)
  BY <1>3 DEF ReadNullMove, game, locals, FinishedInv
<1>4. CASE \E v \in Threads : ReturnToMenu(v)
  BY <1>a, <1>4 DEF ReturnToMenu, LeaveCall, ForgetLocals, ServerTypeOK, FinishedInv
<1>5. CASE MeetAtBarrier
  BY <1>5 DEF MeetAtBarrier, game, locals, FinishedInv
<1>6. CASE UNCHANGED <<pc, game_pc, client_name, num_of_player, player_name, game>>
  BY <1>6 DEF game, locals, FinishedInv
<1> QED
  BY <1>1, <1>2, <1>3, <1>4, <1>5, <1>6, StepOfServer

(* The turn of a thread, in a step of its own. *)
LEMMA OwnTurnStep ==
  ASSUME CallTypeOK, NextTurnInv, NEW t \in Threads, GameStep(t),
         HasTurn(t) => event = NULL, HasTurn(t)'
  PROVE  event' = NULL
<1> USE DEF CallTypeOK, HasTurn, GameGoto, session, shared, locals
<1>1. CASE EnterLoop(t)
  BY <1>1 DEF EnterLoop, MovesFirst
<1>2. CASE AskForMove(t) \/ RecvMove(t) \/ ReadNumber(t) \/ PublishMove(t) \/ JudgeMove(t)
  BY <1>2 DEF AskForMove, RecvMove, ReadNumber, PublishMove, JudgeMove
<1>3. CASE RecordVerdict(t) \/ AdvanceNumber(t)
  BY <1>3 DEF RecordVerdict, AfterVerdict, AdvanceNumber
<1>4. CASE SignalTurn(t)
  BY <1>4 DEF SignalTurn, Waiters
<1>5. CASE SendView(t)
  BY <1>5 DEF SendView, NextTurnInv
<1>6. CASE AnnounceOther(t) \/ WaitForEvent(t)
  BY <1>6 DEF AnnounceOther, WaitForEvent, EventAfterWait
<1>7. CASE ReadMove(t) \/ ReadEnded(t) \/ SendOtherView(t)
  BY <1>7 DEF ReadMove, ReadEnded, SendOtherView
<1>8. CASE SendGameEnded(t) \/ GameSocketFails(t)
  BY <1>8 DEF SendGameEnded, GameSocketFails
<1> QED
  BY <1>1, <1>2, <1>3, <1>4, <1>5, <1>6, <1>7, <1>8 DEF GameStep, MoverStep, WaiterStep

(* What the match leaves to a thread in a game. *)
LEMMA MatchLeavesGame ==
  ASSUME ServerTypeOK, NEW v \in Threads, MatchStep(v), NEW t \in Threads, InPlay(t)'
  PROVE  /\ InPlay(t)
         /\ game_pc'[t] = game_pc[t] /\ num_of_player'[t] = num_of_player[t]
         /\ UNCHANGED game
<1>1. InPlay(t)
  BY MatchStepMoves DEF InPlay, Playing
<1>2. UNCHANGED game /\ game_pc'[t] = game_pc[t]
  BY <1>1, MatchStepKeeps DEF InPlay, ServerTypeOK
<1>3. num_of_player'[t] = num_of_player[t]
  BY <1>1, MatchStepMoves, MatchStepKeeps DEF InPlay
<1> QED
  BY <1>1, <1>2, <1>3

LEMMA AloneStep ==
  ASSUME ServerInv, NextTurnInv, TokenInv', AloneInv, "start" \notin departed, Step
  PROVE  AloneInv'
<1> SUFFICES ASSUME "start" \notin departed', NEW t \in Threads, InPlay(t)', HasTurn(t)'
             PROVE  event' = NULL
  BY DEF AloneInv
<1>a. ServerTypeOK
  BY DEF ServerInv
<1>b. CASE Together'
  BY <1>b DEF TokenInv, TurnInv
<1>c. InPlay(t) /\ HasTurn(t) => event = NULL
  BY DEF AloneInv
<1>1. CASE \E v \in Threads : MatchStep(v)
  BY <1>a, <1>c, <1>1, MatchLeavesGame DEF HasTurn, game, locals
<1>2. CASE ~Together' /\ \E v \in Threads : LoopStep(v)
  <2>1. PICK v \in Threads : LoopStep(v)
    BY <1>2
  <2>2. GameStep(v) /\ pc[v] = "game_loop"
    BY <2>1, LoopStepIsGameStep
  <2>3. CASE v = t
    BY <1>a, <1>c, <2>2, <2>3, OwnTurnStep, ServerTypesOfCall DEF InPlay
  <2>4. CASE v # t
    <3>1. ~InPlay(v)'
      BY <1>2, <2>4, ThreadsAssumption DEF Together, InPlay
    <3>2. game_pc'[v] = "exited"
      BY <1>a, <2>1, <3>1, LoopStepReturns DEF InPlay
    <3>3. GameSocketFails(v)
      BY <1>a, <2>2, <3>2, GameStepMoves
    <3>4. /\ game_pc'[t] = game_pc[t] /\ event' = event /\ num_of_player' = num_of_player
          /\ my_client_turn'[t] = my_client_turn[t] /\ pc'[t] = pc[t]
      BY <1>a, <2>1, <2>4, <3>3, LoopStepReturns
         DEF GameSocketFails, GameGoto, ForgetLocals, ConnectionError, session, ServerTypeOK
    <3> QED
      BY <1>c, <3>4 DEF HasTurn, InPlay
  <2> QED
    BY <2>3, <2>4
<1>3. CASE \E v \in Threads : ReadNullMove(v)
  BY <1>3 DEF ReadNullMove, InPlay
<1>4. CASE \E v \in Threads : ReturnToMenu(v)
  <2>1. PICK v \in Threads : ReturnToMenu(v)
    BY <1>4
  <2>2. /\ v # t /\ pc'[t] = pc[t] /\ game_pc'[t] = game_pc[t] /\ event' = event
        /\ my_client_turn'[t] = my_client_turn[t] /\ num_of_player' = num_of_player
    BY <1>a, <2>1
       DEF ReturnToMenu, Reinit, Goto, LeaveCall, ForgetLocals, session, InPlay,
           ServerTypeOK, TypeOK
  <2> QED
    BY <1>c, <2>2 DEF HasTurn, InPlay
<1>5. CASE MeetAtBarrier
  BY <1>5, <1>b DEF MeetAtBarrier, LeaveBarrier, Together
<1>6. CASE UNCHANGED <<pc, game_pc, client_name, num_of_player, player_name, game>>
  BY <1>c, <1>6 DEF InPlay, HasTurn, game, locals
<1> QED
  BY <1>b, <1>1, <1>2, <1>3, <1>4, <1>5, <1>6, StepOfServer

(* The signal of the rival finds a thread at one of a few places ... *)
LEMMA OwnSignalStep ==
  ASSUME CallTypeOK, NEW t \in Threads, NEW u \in Threads, t # u, GameStep(t),
         HasTurn(t) => event = NULL,
         event = u => /\ game_pc[t] \in {"game_loop", "turn", "wait", "send_view"}
                      /\ ~game_has_finished[t],
         event' = u, game_pc'[t] # "exited"
  PROVE  /\ game_pc'[t] \in {"game_loop", "turn", "wait", "send_view"}
         /\ ~game_has_finished'[t]
<1> USE NullAssumption DEF CallTypeOK, HasTurn, GameGoto, session, shared, locals
<1>1. CASE EnterLoop(t)
  BY <1>1 DEF EnterLoop
<1>2. CASE AskForMove(t) \/ RecvMove(t) \/ ReadNumber(t) \/ PublishMove(t) \/ JudgeMove(t)
  BY <1>2 DEF AskForMove, RecvMove, ReadNumber, PublishMove, JudgeMove
<1>3. CASE RecordVerdict(t) \/ AdvanceNumber(t)
  BY <1>3 DEF RecordVerdict, AfterVerdict, AdvanceNumber
<1>4. CASE SignalTurn(t)
  BY <1>4 DEF SignalTurn, Waiters
<1>5. CASE SendView(t)
  BY <1>5 DEF SendView
<1>6. CASE AnnounceOther(t) \/ WaitForEvent(t)
  BY <1>6 DEF AnnounceOther, WaitForEvent, EventAfterWait
<1>7. CASE ReadMove(t) \/ ReadEnded(t) \/ SendOtherView(t)
  BY <1>7 DEF ReadMove, ReadEnded, SendOtherView
<1>8. CASE SendGameEnded(t) \/ GameSocketFails(t)
  BY <1>8 DEF SendGameEnded, GameSocketFails
<1> QED
  BY <1>1, <1>2, <1>3, <1>4, <1>5, <1>6, <1>7, <1>8 DEF GameStep, MoverStep, WaiterStep

(* ... also when the rival has just given it: whoever gives it does not leave
   the game to a thread that knows of its end. *)
LEMMA OtherSignalStep ==
  ASSUME CallTypeOK, TurnInv, EndInv, FinishedInv,
         NEW t \in Threads, NEW u \in Threads, t # u, game_pc[t] # "exited",
         game_pc[u] = "signal", game_pc[t] # "blocked"
  PROVE  /\ game_pc[t] \in {"game_loop", "turn", "wait", "send_view"}
         /\ ~game_has_finished[t]
<1>1. HasTurn(u) /\ ~HasTurn(t)
  BY DEF HasTurn, TurnInv
<1>2. game_pc[t] \in GamePlaces /\ game_has_finished[t] \in BOOLEAN
  BY DEF CallTypeOK
<1>3. ~Won(t)
  BY <1>1 DEF EndInv
<1>4. ~Lost(t)
  <2> SUFFICES ASSUME Lost(t) PROVE FALSE
    OBVIOUS
  <2>1. NoMoreMoves
    BY DEF EndInv
  <2>2. Lost(u)
    BY <2>1 DEF NoMoreMoves, Lost
  <2> QED
    BY <2>2 DEF EndInv
<1>5. ~Returned(t)
  BY <1>3, <1>4 DEF Lost, Won
<1> QED
  BY <1>1, <1>2, <1>4, <1>5
     DEF HasTurn, Returned, Lost, FinishedInv, GamePlaces, MoverPlaces, WaiterPlaces

(* The steps of a thread that leave a signal of its own. *)
LEMMA SignalIsGiven ==
  ASSUME CallTypeOK, NEW u \in Threads, GameStep(u), event' = u,
         HasTurn(u) => event = NULL
  PROVE  /\ event = u \/ (game_pc[u] = "signal" /\ Waiters = {})
         /\ \A t \in Threads \ {u} : game_pc'[t] = game_pc[t]
<1> USE NullAssumption DEF CallTypeOK, GameGoto, session, shared, locals
<1>1. CASE EnterLoop(u)
  BY <1>1 DEF EnterLoop
<1>2. CASE AskForMove(u) \/ RecvMove(u) \/ ReadNumber(u) \/ PublishMove(u) \/ JudgeMove(u)
  BY <1>2 DEF AskForMove, RecvMove, ReadNumber, PublishMove, JudgeMove
<1>3. CASE RecordVerdict(u) \/ AdvanceNumber(u)
  BY <1>3 DEF RecordVerdict, AdvanceNumber
<1>4. CASE SignalTurn(u)
  BY <1>4 DEF SignalTurn, HasTurn
<1>5. CASE SendView(u) \/ AnnounceOther(u) \/ ReadMove(u) \/ ReadEnded(u) \/ SendOtherView(u)
  BY <1>5 DEF SendView, AnnounceOther, ReadMove, ReadEnded, SendOtherView
<1>6. CASE WaitForEvent(u)
  BY <1>6 DEF WaitForEvent, EventAfterWait
<1>7. CASE SendGameEnded(u) \/ GameSocketFails(u)
  BY <1>7 DEF SendGameEnded, GameSocketFails
<1> QED
  BY <1>1, <1>2, <1>3, <1>4, <1>5, <1>6, <1>7 DEF GameStep, MoverStep, WaiterStep

LEMMA OtherFinishedStays ==
  ASSUME CallTypeOK, NEW v \in Threads, GameStep(v), NEW t \in Threads, t # v
  PROVE  game_has_finished'[t] = game_has_finished[t]
BY DEF CallTypeOK, locals, GameStep, MoverStep, WaiterStep, EnterLoop, AskForMove, RecvMove,
       ReadNumber, PublishMove, JudgeMove, RecordVerdict, AdvanceNumber, SignalTurn, SendView,
       AnnounceOther, WaitForEvent, ReadMove, ReadEnded, SendOtherView, SendGameEnded,
       GameSocketFails, ForgetLocals

LEMMA SignalStep ==
  ASSUME ServerInv, TokenInv, TurnsInv, "start" \notin departed, Step
  PROVE  SignalInv'
<1> SUFFICES ASSUME "start" \notin departed', NEW t \in Threads, NEW u \in Threads, t # u,
                    InPlay(t)', event' = u
             PROVE  /\ game_pc'[t] \in {"game_loop", "turn", "wait", "send_view"}
                    /\ ~game_has_finished'[t]
  BY DEF SignalInv
<1>a. ServerTypeOK /\ CallInv /\ PlaceInv /\ FinishedInv
  BY DEF ServerInv, TurnsInv
<1>b. InPlay(t) /\ event = u =>
        /\ game_pc[t] \in {"game_loop", "turn", "wait", "send_view"}
        /\ ~game_has_finished[t]
  BY DEF TurnsInv, SignalInv
<1>1. CASE \E v \in Threads : MatchStep(v)
  BY <1>a, <1>b, <1>1, MatchLeavesGame DEF game, locals
<1>2. CASE \E v \in Threads : LoopStep(v)
  <2>1. PICK v \in Threads : LoopStep(v)
    BY <1>2
  <2>2. GameStep(v) /\ pc[v] = "game_loop" /\ CallTypeOK
    BY <1>a, <2>1, LoopStepIsGameStep, ServerTypesOfCall
  <2>3. \A w \in Threads : InPlay(w) /\ HasTurn(w) => event = NULL
    BY DEF TurnsInv, AloneInv
  <2>4. CASE v = t
    <3>1. game_pc'[t] # "exited"
      BY <1>a, <2>1, <2>4, LoopStepReturns DEF InPlay
    <3> QED
      BY <1>b, <2>2, <2>3, <2>4, <3>1, OwnSignalStep DEF InPlay
  <2>5. CASE v = u
    <3>1. /\ pc'[t] = pc[t] /\ InPlay(t) /\ InPlay(u) /\ Together
          /\ game_has_finished'[t] = game_has_finished[t]
      BY <1>a, <2>1, <2>2, <2>5, LoopStepReturns, OtherFinishedStays, BothPlay DEF InPlay
    <3>2. \/ /\ game_pc[u] = "signal" /\ Waiters = {} /\ game_pc'[t] = game_pc[t]
          \/ event = u /\ game_pc'[t] = game_pc[t]
      BY <2>2, <2>3, <2>5, <3>1, SignalIsGiven
    <3>3. CASE game_pc[u] = "signal" /\ Waiters = {} /\ game_pc'[t] = game_pc[t]
      <4>1. game_pc[t] # "exited"
        BY <1>a, <3>1 DEF InPlay, PlaceInv, CallInv
      <4>2. game_pc[t] # "blocked"
        BY <3>3 DEF Waiters
      <4>3. TurnInv /\ EndInv
        BY <3>1 DEF TokenInv
      <4> QED
        BY <1>a, <2>2, <3>1, <3>3, <4>1, <4>2, <4>3, OtherSignalStep
    <3> QED
      BY <1>b, <3>1, <3>2, <3>3
  <2> QED
    BY <2>4, <2>5, ThreadsAssumption
<1>3. CASE \E v \in Threads : ReadNullMove(v)
  BY <1>3 DEF ReadNullMove, InPlay
<1>4. CASE \E v \in Threads : ReturnToMenu(v)
  <2>1. PICK v \in Threads : ReturnToMenu(v)
    BY <1>4
  <2>2. /\ v # t /\ pc'[t] = pc[t] /\ game_pc'[t] = game_pc[t] /\ event' = event
        /\ game_has_finished'[t] = game_has_finished[t]
    BY <1>a, <2>1
       DEF ReturnToMenu, Reinit, Goto, LeaveCall, ForgetLocals, InPlay,
           ServerTypeOK, TypeOK
  <2> QED
    BY <1>b, <2>2 DEF InPlay
<1>5. CASE MeetAtBarrier /\ ("start" \notin departed' => StartsAsGameLoop)
  BY <1>5, NullAssumption DEF MeetAtBarrier, StartsAsGameLoop, game
<1>6. CASE UNCHANGED <<pc, game_pc, client_name, num_of_player, player_name, game>>
  BY <1>b, <1>6 DEF InPlay, game, locals
<1> QED
  BY <1>1, <1>2, <1>3, <1>4, <1>5, <1>6, StepOfServer

-----------------------------------------------------------------------------
(* One line of moves for both users.                                       *)

HasPublished(t) ==
  pc[t] = "game_loop" /\ game_pc[t] \in {"judge", "record", "advance", "signal"}

(* A move that the rival of t has made, and t has still to read: the rival
   has published it, or has signalled, or t is woken. *)
Due(t, u) ==
  \/ HasPublished(u)
  \/ event = u
  \/ game_pc[t] = "read_move"

(* What t has still to send its client: its own move, the rival's and the
   winner. *)
OwnMove(t) ==
  IF game_pc[t] \in {"judge", "record", "advance", "signal", "send_view"}
    THEN <<<<UserName[t], move[t]>>>> ELSE <<>>

RivalMove(t, u) ==
  IF game_pc[t] \in {"read_ended", "send_other_view"} THEN <<<<UserName[u], move[t]>>>>
  ELSE IF Due(t, u) THEN <<<<UserName[u], current_player_move>>>> ELSE <<>>

Winner(t, u) ==
  IF game_pc[t] \in {"signal", "send_view"} /\ game_has_finished[t]
    THEN <<<<UserName[u]>>>>
  ELSE IF game_pc[t] = "send_other_view" /\ game_has_finished[t]
    THEN <<<<UserName[t]>>>>
  ELSE IF game_pc[t] = "send_ended" THEN <<<<winner_name[t]>>>>
  ELSE IF (Due(t, u) \/ game_pc[t] = "read_ended") /\ game_has_ended
    THEN <<<<UserName[t]>>>>
  ELSE <<>>

Owed(t, u) == (OwnMove(t) \o RivalMove(t, u)) \o Winner(t, u)

(* A thread that will find the move set to NULL does not get to its client
   again (ReadNullMove). *)
Doomed(t, u) ==
  /\ game_pc[t] \in {"game_loop", "turn", "wait", "blocked", "read_move"}
  /\ Due(t, u)
  /\ current_player_move = NULL

Follows(t, u) == InPlay(t) /\ place[t] # "gone" /\ ~Doomed(t, u)

(* What the user of t will have been shown when its client has read all that
   has been sent. *)
Told(t, A) == \E P \in Seq(Entries) : Pending(to_client[t], P) /\ A = shown[t] \o P

Tells(t, u, H) ==
  \E A, R \in Seq(Entries) :
    /\ Told(t, A)
    /\ A \o R = H
    /\ Follows(t, u) => R = Owed(t, u)

(* There is one line of moves, of which each user is told a beginning, and,
   if its thread follows the game, all that the thread does not owe it. *)
ShownInv ==
  /\ shown \in [Threads -> Seq(Entries)]
  /\ departed = {} =>
       \E H \in Seq(Entries) : \A t, u \in Threads : t # u => Tells(t, u, H)

LEMMA EntriesAssociate ==
  ASSUME NEW r \in Seq(Entries), NEW s \in Seq(Entries), NEW u \in Seq(Entries)
  PROVE  (r \o s) \o u = r \o (s \o u)
BY EntriesConcat

LEMMA EntryIsTyped ==
  /\ \A v \in Values : <<<<v>>>> \in Seq(Entries)
  /\ \A v, w \in Values : <<<<v, w>>>> \in Seq(Entries)
<1>1. \A v \in Values : <<v>> \in Entries
  BY DEF Entries
<1>2. \A v, w \in Values : <<v, w>> \in Entries
  BY DEF Entries
<1>3. \A e \in Entries : <<e>> \in Seq(Entries)
  OBVIOUS
<1> QED
  BY <1>1, <1>2, <1>3

LEMMA OwedIsTyped ==
  ASSUME ServerTypeOK, client_name = UserName, NEW t \in Threads, NEW u \in Threads
  PROVE  /\ OwnMove(t) \in Seq(Entries) /\ RivalMove(t, u) \in Seq(Entries)
         /\ Winner(t, u) \in Seq(Entries) /\ Owed(t, u) \in Seq(Entries)
<1>1. /\ UserName[t] \in Values /\ UserName[u] \in Values /\ move[t] \in Values
      /\ current_player_move \in Values /\ winner_name[t] \in Values
  BY DEF ServerTypeOK, TypeOK, Values
<1>2. /\ <<<<UserName[t], move[t]>>>> \in Seq(Entries)
      /\ <<<<UserName[u], move[t]>>>> \in Seq(Entries)
      /\ <<<<UserName[u], current_player_move>>>> \in Seq(Entries)
      /\ <<<<UserName[u]>>>> \in Seq(Entries)
      /\ <<<<UserName[t]>>>> \in Seq(Entries)
      /\ <<<<winner_name[t]>>>> \in Seq(Entries)
      /\ <<>> \in Seq(Entries)
  BY <1>1, EntryIsTyped, EntriesConcat, Zenon
<1>3. OwnMove(t) \in Seq(Entries) /\ RivalMove(t, u) \in Seq(Entries)
  BY <1>2, Zenon DEF OwnMove, RivalMove
<1>4. Winner(t, u) \in Seq(Entries)
  BY <1>2, Zenon DEF Winner
<1> QED
  BY <1>3, <1>4, EntriesConcat, Zenon DEF Owed

(* A step after which t is told as much as before. *)
LEMMA TellsStays ==
  ASSUME NEW t \in Threads, NEW u \in Threads,
         NEW H \in Seq(Entries), Tells(t, u, H), NEW X \in Seq(Entries),
         \A A \in Seq(Entries) : Told(t, A) => Told(t, A)',
         Follows(t, u)' => Follows(t, u) /\ Owed(t, u)' = Owed(t, u) \o X
  PROVE  Tells(t, u, H \o X)'
<1>1. PICK A \in Seq(Entries), R \in Seq(Entries) :
        /\ Told(t, A) /\ A \o R = H /\ (Follows(t, u) => R = Owed(t, u))
  BY DEF Tells
<1>2. R \o X \in Seq(Entries) /\ A \o (R \o X) = H \o X
  BY <1>1, EntriesConcat, Zenon
<1>3. Follows(t, u)' => R \o X = Owed(t, u)'
  BY <1>1
<1>4. Told(t, A)'
  BY <1>1
<1> QED
  BY <1>2, <1>3, <1>4, Zenon DEF Tells

LEMMA ToldStays ==
  ASSUME NEW t, to_client'[t] = to_client[t], shown'[t] = shown[t], NEW A, Told(t, A)
  PROVE  Told(t, A)'
BY DEF Told

(* A step that sends t's client what shows it S. *)
LEMMA TellsSends ==
  ASSUME WireInv, NEW t \in Threads, NEW u \in Threads, shown'[t] = shown[t],
         shown[t] \in Seq(Entries),
         NEW H \in Seq(Entries), Tells(t, u, H), NEW S \in Seq(Entries),
         NEW messages, Sends(t, messages), UNCHANGED place,
         \A P \in Seq(Entries) : Pending(to_client[t], P) =>
           Pending(to_client[t] \o messages, P \o S),
         place[t] # "gone" /\ S # <<>> => Follows(t, u),
         Follows(t, u) => Owed(t, u) = S \o Owed(t, u)' /\ Owed(t, u)' \in Seq(Entries),
         Follows(t, u)' => Follows(t, u)
  PROVE  Tells(t, u, H)'
<1>1. PICK A \in Seq(Entries), R \in Seq(Entries) :
        /\ Told(t, A) /\ A \o R = H /\ (Follows(t, u) => R = Owed(t, u))
  BY DEF Tells
<1>2. CASE place[t] = "gone"
  <2>1. to_client'[t] = to_client[t] /\ ~Follows(t, u)'
    BY <1>2 DEF Sends, Follows
  <2>2. Told(t, A)'
    BY <1>1, <2>1, ToldStays
  <2> QED
    BY <1>1, <2>1, <2>2, Zenon DEF Tells
<1>3. CASE place[t] # "gone"
  <2>1. to_client'[t] = to_client[t] \o messages
    BY <1>3 DEF Sends, WireInv
  <2>2. PICK P \in Seq(Entries) : Pending(to_client[t], P) /\ A = shown[t] \o P
    BY <1>1 DEF Told
  <2>3. /\ P \o S \in Seq(Entries) /\ A \o S = shown[t] \o (P \o S)
        /\ A \o S \in Seq(Entries)
    BY <2>2, EntriesConcat, Zenon
  <2>4. Pending(to_client'[t], P \o S)
    BY <2>1, <2>2
  <2>5. Pending(to_client[t], P \o S)'
    BY <2>4 DEF Pending
  <2>6. Told(t, A \o S)'
    BY <2>3, <2>5 DEF Told
  <2>7. CASE Follows(t, u)
    <3>1. PICK Q : Q = Owed(t, u)'
      OBVIOUS
    <3>2. Q \in Seq(Entries) /\ R = S \o Q
      BY <1>1, <2>7, <3>1
    <3>3. (A \o S) \o Q = A \o (S \o Q)
      <4>1. A \in Seq(Entries) /\ S \in Seq(Entries) /\ Q \in Seq(Entries)
        BY <1>1, <3>2
      <4> QED
        BY <4>1, EntriesAssociate
    <3>4. (A \o S) \o Q = H
      BY <1>1, <3>2, <3>3, Zenon
    <3> QED
      BY <2>3, <2>6, <3>1, <3>2, <3>4, Zenon DEF Tells
  <2>8. CASE ~Follows(t, u)
    <3>1. A \o S = A
      BY <1>3, <2>8, EntriesConcat, Zenon
    <3> QED
      BY <1>1, <2>6, <2>8, <3>1, Zenon DEF Tells
  <2> QED
    BY <2>7, <2>8
<1> QED
  BY <1>2, <1>3

(* ... one message. *)
LEMMA TellsMessage ==
  ASSUME WireInv, NEW t \in Threads, NEW u \in Threads, shown'[t] = shown[t],
         shown[t] \in Seq(Entries),
         NEW H \in Seq(Entries), Tells(t, u, H),
         NEW m \in Messages, Sends(t, <<m>>), UNCHANGED place,
         place[t] # "gone" /\ ShownBy(m) # <<>> => Follows(t, u),
         Follows(t, u) =>
           Owed(t, u) = ShownBy(m) \o Owed(t, u)' /\ Owed(t, u)' \in Seq(Entries),
         Follows(t, u)' => Follows(t, u)
  PROVE  Tells(t, u, H)'
<1>1. ShownBy(m) \in Seq(Entries)
  BY ShownIsTyped
<1>2. \A P \in Seq(Entries) : Pending(to_client[t], P) =>
        Pending(to_client[t] \o <<m>>, P \o ShownBy(m))
  BY PendingGrows DEF WireInv
<1> DEFINE S == ShownBy(m)
           messages == <<m>>
<1>3. /\ S \in Seq(Entries) /\ Sends(t, messages)
      /\ place[t] # "gone" /\ S # <<>> => Follows(t, u)
      /\ Follows(t, u) => Owed(t, u) = S \o Owed(t, u)' /\ Owed(t, u)' \in Seq(Entries)
      /\ \A P \in Seq(Entries) : Pending(to_client[t], P) =>
           Pending(to_client[t] \o messages, P \o S)
  BY <1>1, <1>2
<1> HIDE DEF S, messages
<1> QED
  BY <1>3, TellsSends

(* ... a message without anything to show. *)
LEMMA ShowsNothing ==
  ASSUME NEW m, m.type \notin {"GAME_VIEW", "GAME_ENDED"} PROVE ShownBy(m) = <<>>
BY DEF ShownBy

(* The client takes the next message. *)
LEMMA ShownNowIsNext ==
  ASSUME WireInv, NEW t \in Threads, ClientTakes(t)
  PROVE  /\ to_client[t] \in Seq(Messages) /\ to_client[t] # <<>>
         /\ to_client'[t] = Tail(to_client[t])
         /\ ShownNow(t) = ShownBy(Head(to_client[t])) /\ ShownNow(t) \in Seq(Entries)
<1>1. to_client[t] # <<>> /\ to_client' = [to_client EXCEPT ![t] = Tail(@)]
  BY DEF ClientTakes, C!RecvApproved, C!RecvMainMenu, C!RecvAnswer, C!RecvTurnSwitch,
         C!RecvMoveRequest, C!RecvGameView, C!RecvGameEnded, C!Receive
<1>2. to_server[t] = <<>> /\ place[t] # "gone" /\ to_client[t] \in Seq(Messages)
  BY <1>1 DEF WireInv, Link, UpLink, GoneLink
<1>3. PICK a \in C!Places : Path(t, place[t], to_client[t], a)
  BY <1>2 DEF WireInv, Link, DownLink
<1>4. PICK r \in C!Places : Takes(t, place[t], Head(to_client[t]), r)
  BY <1>1, <1>2, <1>3, PathShrinks
<1>5. ShownNow(t) = ShownBy(Head(to_client[t]))
  BY <1>4 DEF Takes, ShownNow, ShownBy, C!Received
<1>6. Head(to_client[t]) \in Messages
  BY <1>1, <1>2, HeadTailProperties
<1>7. to_client'[t] = Tail(to_client[t])
  BY <1>1 DEF WireInv
<1> QED
  BY <1>1, <1>2, <1>5, <1>6, <1>7, ShownIsTyped

LEMMA ToldTaken ==
  ASSUME WireInv, NEW t \in Threads, ClientTakes(t), shown \in [Threads -> Seq(Entries)],
         shown' = [shown EXCEPT ![t] = @ \o ShownNow(t)],
         NEW A \in Seq(Entries), Told(t, A)
  PROVE  Told(t, A)'
<1>1. /\ to_client[t] \in Seq(Messages) /\ to_client[t] # <<>>
      /\ to_client'[t] = Tail(to_client[t])
      /\ ShownNow(t) = ShownBy(Head(to_client[t])) /\ ShownNow(t) \in Seq(Entries)
  BY ShownNowIsNext
<1>2. PICK P \in Seq(Entries) : Pending(to_client[t], P) /\ A = shown[t] \o P
  BY DEF Told
<1>3. PICK Q \in Seq(Entries) :
        P = ShownBy(Head(to_client[t])) \o Q /\ Pending(Tail(to_client[t]), Q)
  BY <1>1, <1>2, PendingShrinks
<1>4. PICK e \in Seq(Entries) : e = ShownNow(t)
  BY <1>1
<1>5. shown[t] \in Seq(Entries) /\ shown'[t] = shown[t] \o e
  BY <1>4
<1>6. A = (shown[t] \o e) \o Q
  <2>1. (shown[t] \o e) \o Q = shown[t] \o (e \o Q)
    BY <1>5, EntriesConcat, Zenon
  <2> QED
    BY <1>1, <1>2, <1>3, <1>4, <2>1
<1>7. Pending(to_client[t], Q)'
  BY <1>1, <1>3 DEF Pending
<1> QED
  BY <1>5, <1>6, <1>7 DEF Told

-----------------------------------------------------------------------------
(* How a step of t changes what t owes its client ...                      *)

(* What the steps below start from. *)
Known == ProtocolInv /\ TurnsInv /\ "start" \notin departed

(* Whoever has the turn, or has left the game, has no move to read. *)
LEMMA NothingDue ==
  ASSUME Known, NEW t \in Threads, NEW u \in Threads, t # u, InPlay(t),
         \/ HasTurn(t) /\ game_pc[t] # "read_move"
         \/ Returned(t)
         \/ game_pc[t] = "send_view" /\ game_has_finished[t]
  PROVE  ~Due(t, u)
<1>1. HasPublished(u) => Together /\ HasTurn(u)
  BY BothPlay DEF HasPublished, InPlay, HasTurn
<1>2. Together => TurnInv /\ EndInv
  BY DEF Known, ProtocolInv, TokenInv
<1>3. event = u => ~HasTurn(t) /\ ~Returned(t) /\ ~game_has_finished[t]
  BY NullAssumption DEF Known, TurnsInv, AloneInv, SignalInv, Returned
<1>4. CASE HasTurn(t) /\ game_pc[t] # "read_move"
  BY <1>1, <1>2, <1>3, <1>4 DEF TurnInv, Due
<1>5. CASE Returned(t) \/ (game_pc[t] = "send_view" /\ game_has_finished[t])
  <2>1. ~HasPublished(u)
    <3> SUFFICES ASSUME HasPublished(u) PROVE FALSE
      OBVIOUS
    <3>1. Lost(t) \/ Won(t)
      BY <1>5 DEF Returned, Lost, Won
    <3>2. ~Won(t)
      BY <1>1, <1>2 DEF EndInv
    <3>3. NoMoreMoves
      BY <1>1, <1>2, <3>1 DEF EndInv
    <3>4. Lost(u)
      BY <3>3 DEF HasPublished, NoMoreMoves, Lost
    <3> QED
      BY <1>1, <1>2, <3>1, <3>2, <3>4 DEF EndInv
  <2>2. game_pc[t] # "read_move"
    BY <1>5 DEF Returned
  <2> QED
    BY <1>3, <1>5, <2>1, <2>2 DEF Due
<1> QED
  BY <1>4, <1>5

(* The game is still on when a move is published or judged. *)
LEMMA StillOn ==
  ASSUME Known, NEW t \in Threads, NEW u \in Threads, t # u, InPlay(t), InPlay(u),
         game_pc[t] \in {"publish", "record"}
  PROVE  /\ ~game_has_ended /\ ~Lost(u) /\ ~Won(u)
         /\ ~HasTurn(u)
<1>1. TurnInv /\ EndInv
  BY BothPlay DEF Known, ProtocolInv, TokenInv
<1>2. ~game_has_ended
  BY <1>1 DEF EndInv, NoMoreMoves
<1>3. HasTurn(t)
  BY DEF HasTurn
<1> QED
  BY <1>1, <1>2, <1>3 DEF EndInv, TurnInv

(* What a step of t leaves to what is due. *)
LEMMA PublishedStays ==
  ASSUME ServerTypeOK, NEW t \in Threads, LoopStep(t), NEW u \in Threads, t # u
  PROVE  /\ HasPublished(u)' <=> HasPublished(u)
         /\ InPlay(u)' <=> InPlay(u)
BY LoopStepReturns, LoopStepIsGameStep, GameStepMoves DEF HasPublished, InPlay

(* What a thread owes its client stays the same in most of its own steps. *)
LEMMA MoverOwes ==
  ASSUME Known, NEW t \in Threads, NEW u \in Threads, t # u, LoopStep(t), UNCHANGED place,
         \/ EnterLoop(t) \/ AskForMove(t) \/ RecvMove(t) \/ ReadNumber(t) \/ JudgeMove(t)
         \/ RecordVerdict(t) /\ ~game_has_finished[t]
         \/ AdvanceNumber(t) \/ SignalTurn(t)
  PROVE  /\ Owed(t, u)' = Owed(t, u)
         /\ Follows(t, u)' => Follows(t, u)
<1>a. ServerTypeOK /\ InPlay(t)
  BY LoopStepIsGameStep DEF Known, ProtocolInv, ServerInv, InPlay
<1>b. HasPublished(u)' <=> HasPublished(u)
  BY <1>a, PublishedStays
<1> SUFFICES /\ OwnMove(t)' = OwnMove(t) /\ RivalMove(t, u)' = RivalMove(t, u)
             /\ Winner(t, u)' = Winner(t, u)
             /\ Doomed(t, u) => Doomed(t, u)'
  BY <1>a, Zenon DEF Owed, Follows
<1> USE DEF GameGoto, shared, locals
<1>1. CASE EnterLoop(t)
  <2>1. /\ game_pc[t] = "game_loop" /\ game_pc'[t] = "turn"
        /\ UNCHANGED <<current_player_move, game_has_ended, event>>
    BY <1>a, <1>1 DEF EnterLoop, ServerTypeOK
  <2>2. Due(t, u)' <=> Due(t, u)
    BY <1>b, <2>1 DEF Due
  <2> QED
    BY <2>1, <2>2 DEF OwnMove, RivalMove, Winner, Doomed
<1>2. CASE AskForMove(t)
  <2>1. /\ game_pc[t] = "turn" /\ game_pc'[t] = "recv_move" /\ HasTurn(t)
        /\ UNCHANGED <<current_player_move, game_has_ended, event>>
    BY <1>a, <1>2 DEF AskForMove, ServerTypeOK, HasTurn
  <2>2. ~Due(t, u) /\ ~Due(t, u)'
    BY <1>a, <1>b, <2>1, NothingDue DEF Due
  <2> QED
    BY <2>1, <2>2 DEF OwnMove, RivalMove, Winner, Doomed
<1>3. CASE RecvMove(t) \/ ReadNumber(t)
  <2>1. /\ game_pc[t] \in {"recv_move", "next_number"}
        /\ game_pc'[t] \in {"next_number", "publish"} /\ HasTurn(t)
        /\ UNCHANGED <<current_player_move, game_has_ended, event>>
    BY <1>a, <1>3 DEF RecvMove, ReadNumber, ServerTypeOK, HasTurn
  <2>2. ~Due(t, u) /\ ~Due(t, u)'
    BY <1>a, <1>b, <2>1, NothingDue DEF Due
  <2> QED
    BY <2>1, <2>2 DEF OwnMove, RivalMove, Winner, Doomed
<1>4. CASE \/ JudgeMove(t) \/ AdvanceNumber(t)
           \/ RecordVerdict(t) /\ ~game_has_finished[t]
  <2>1. /\ game_pc[t] \in {"judge", "record", "advance"}
        /\ game_pc'[t] \in {"record", "advance", "signal"} /\ HasTurn(t)
        /\ game_pc'[t] = "signal" => ~game_has_finished'[t]
        /\ UNCHANGED <<current_player_move, event, move>>
    BY <1>a, <1>4 DEF JudgeMove, RecordVerdict, AfterVerdict, AdvanceNumber, ServerTypeOK,
                      HasTurn, Known, TurnsInv, FinishedInv
  <2>2. ~Due(t, u) /\ ~Due(t, u)'
    BY <1>a, <1>b, <2>1, NothingDue DEF Due
  <2> QED
    BY <2>1, <2>2 DEF OwnMove, RivalMove, Winner, Doomed
<1>5. CASE SignalTurn(t)
  <2>1. /\ game_pc[t] = "signal" /\ game_pc'[t] = "send_view" /\ HasTurn(t)
        /\ event' \in {event, t}
        /\ UNCHANGED <<current_player_move, move, game_has_finished>>
    BY <1>a, <1>5 DEF SignalTurn, Waiters, ServerTypeOK, HasTurn
  <2>2. ~Due(t, u) /\ ~Due(t, u)'
    BY <1>a, <1>b, <2>1, NothingDue DEF Due
  <2> QED
    BY <2>1, <2>2 DEF OwnMove, RivalMove, Winner, Doomed
<1> QED
  BY <1>1, <1>2, <1>3, <1>4, <1>5

LEMMA WaiterOwes ==
  ASSUME Known, NEW t \in Threads, NEW u \in Threads, t # u, LoopStep(t), UNCHANGED place,
         \/ AnnounceOther(t)
         \/ WaitForEvent(t) /\ event # t
         \/ ReadMove(t) \/ ReadEnded(t)
  PROVE  /\ Owed(t, u)' = Owed(t, u)
         /\ Follows(t, u)' => Follows(t, u)
<1>a. ServerTypeOK /\ InPlay(t)
  BY LoopStepIsGameStep DEF Known, ProtocolInv, ServerInv, InPlay
<1>b. HasPublished(u)' <=> HasPublished(u)
  BY <1>a, PublishedStays
<1> SUFFICES /\ OwnMove(t)' = OwnMove(t) /\ RivalMove(t, u)' = RivalMove(t, u)
             /\ Winner(t, u)' = Winner(t, u)
             /\ Doomed(t, u) => Doomed(t, u)'
  BY <1>a, Zenon DEF Owed, Follows
<1> USE DEF GameGoto, shared, locals
<1>1. CASE AnnounceOther(t)
  <2>1. /\ game_pc[t] = "turn" /\ game_pc'[t] = "wait"
        /\ UNCHANGED <<current_player_move, game_has_ended, event>>
    BY <1>a, <1>1 DEF AnnounceOther, ServerTypeOK
  <2>2. Due(t, u)' <=> Due(t, u)
    BY <1>b, <2>1 DEF Due
  <2> QED
    BY <2>1, <2>2 DEF OwnMove, RivalMove, Winner, Doomed
<1>2. CASE WaitForEvent(t) /\ event # t
  <2>1. /\ game_pc[t] = "wait" /\ event' = NULL
        /\ game_pc'[t] = IF event = u THEN "read_move" ELSE "blocked"
        /\ UNCHANGED <<current_player_move, game_has_ended>>
    BY <1>a, <1>2, ThreadsAssumption, NullAssumption
       DEF WaitForEvent, EventAfterWait, EventIsSet, ServerTypeOK
  <2>2. Due(t, u)' <=> Due(t, u)
    BY <1>b, <2>1, NullAssumption DEF Due
  <2>3. game_pc'[t] \in {"read_move", "blocked"}
    BY <2>1
  <2> QED
    BY <2>1, <2>2, <2>3 DEF OwnMove, RivalMove, Winner, Doomed
<1>3. CASE ReadMove(t)
  <2>1. /\ game_pc[t] = "read_move" /\ game_pc'[t] = "read_ended"
        /\ move'[t] = current_player_move /\ current_player_move # NULL
        /\ UNCHANGED <<current_player_move, game_has_ended, event>>
    BY <1>a, <1>3 DEF ReadMove, ServerTypeOK
  <2>2. Due(t, u)
    BY <2>1 DEF Due
  <2> QED
    BY <2>1, <2>2 DEF OwnMove, RivalMove, Winner, Doomed
<1>4. CASE ReadEnded(t)
  <2>1. /\ game_pc[t] = "read_ended" /\ game_pc'[t] = "send_other_view"
        /\ game_has_finished'[t] = game_has_ended /\ HasTurn(t)
        /\ UNCHANGED <<current_player_move, game_has_ended, event, move>>
    BY <1>a, <1>4 DEF ReadEnded, ServerTypeOK, HasTurn
  <2>2. ~Due(t, u) /\ ~Due(t, u)'
    BY <1>a, <1>b, <2>1, NothingDue DEF Due
  <2> QED
    BY <2>1, <2>2 DEF OwnMove, RivalMove, Winner, Doomed
<1> QED
  BY <1>1, <1>2, <1>3, <1>4

(* A move is owed to both clients from its publication ... *)
LEMMA PublisherOwes ==
  ASSUME Known, NEW t \in Threads, NEW u \in Threads, t # u, LoopStep(t), UNCHANGED place,
         PublishMove(t)
  PROVE  /\ Owed(t, u)' = Owed(t, u) \o <<<<UserName[t], move[t]>>>>
         /\ Follows(t, u)' => Follows(t, u)
<1>a. ServerTypeOK /\ InPlay(t) /\ WireInv
  BY LoopStepIsGameStep DEF Known, ProtocolInv, ServerInv, InPlay
<1>b. HasPublished(u)' <=> HasPublished(u)
  BY <1>a, PublishedStays
<1>1. /\ game_pc[t] = "publish" /\ game_pc'[t] = "judge" /\ HasTurn(t)
      /\ UNCHANGED <<event, move>>
  BY <1>a DEF PublishMove, GameGoto, locals, ServerTypeOK, HasTurn
<1>2. ~Due(t, u) /\ ~Due(t, u)'
  BY <1>a, <1>b, <1>1, NothingDue DEF Due
<1>3. OwnMove(t) = <<>> /\ RivalMove(t, u) = <<>> /\ Winner(t, u) = <<>>
  BY <1>1, <1>2 DEF OwnMove, RivalMove, Winner
<1>4. /\ OwnMove(t)' = <<<<UserName[t], move[t]>>>>
      /\ RivalMove(t, u)' = <<>> /\ Winner(t, u)' = <<>>
  BY <1>1, <1>2 DEF OwnMove, RivalMove, Winner
<1>5. PICK e \in Seq(Entries) : e = <<<<UserName[t], move[t]>>>>
  <2>1. UserName[t] \in Values /\ move[t] \in Values
    BY <1>a DEF WireInv, ServerTypeOK, TypeOK, Values
  <2> QED
    BY <2>1, EntryIsTyped
<1>6. (e \o <<>>) \o <<>> = ((<<>> \o <<>>) \o <<>>) \o e
  BY <1>5, EntriesConcat
<1>7. ~Doomed(t, u)
  BY <1>2 DEF Doomed
<1> QED
  BY <1>a, <1>3, <1>4, <1>5, <1>6, <1>7, Zenon DEF Owed, Follows

(* ... and the winner from the moment a wrong move is recorded. *)
LEMMA LoserOwes ==
  ASSUME Known, NEW t \in Threads, NEW u \in Threads, t # u, LoopStep(t), UNCHANGED place,
         RecordVerdict(t), game_has_finished[t]
  PROVE  /\ Owed(t, u)' = Owed(t, u) \o <<<<UserName[u]>>>>
         /\ Follows(t, u)' => Follows(t, u)
<1>a. ServerTypeOK /\ InPlay(t) /\ WireInv
  BY LoopStepIsGameStep DEF Known, ProtocolInv, ServerInv, InPlay
<1>b. HasPublished(u)' <=> HasPublished(u)
  BY <1>a, PublishedStays
<1>1. /\ game_pc[t] = "record" /\ game_pc'[t] = "signal" /\ HasTurn(t)
      /\ UNCHANGED <<event, move, game_has_finished>>
  BY <1>a DEF RecordVerdict, AfterVerdict, GameGoto, locals, ServerTypeOK, HasTurn
<1>2. ~Due(t, u) /\ ~Due(t, u)'
  BY <1>a, <1>b, <1>1, NothingDue DEF Due
<1>3. RivalMove(t, u) = <<>> /\ Winner(t, u) = <<>>
  BY <1>1, <1>2 DEF RivalMove, Winner
<1>4. /\ OwnMove(t)' = OwnMove(t)
      /\ RivalMove(t, u)' = <<>> /\ Winner(t, u)' = <<<<UserName[u]>>>>
  BY <1>1, <1>2 DEF OwnMove, RivalMove, Winner
<1>5. PICK e \in Seq(Entries) : e = <<<<UserName[u]>>>>
  <2>1. UserName[u] \in Values
    BY <1>a DEF WireInv, ServerTypeOK, TypeOK, Values
  <2> QED
    BY <2>1, EntryIsTyped
<1>6. OwnMove(t) \in Seq(Entries)
  BY <1>a, OwedIsTyped DEF WireInv
<1>7. (OwnMove(t) \o <<>>) \o e = ((OwnMove(t) \o <<>>) \o <<>>) \o e
  BY <1>5, <1>6, EntriesConcat
<1>8. ~Doomed(t, u)
  BY <1>2 DEF Doomed
<1> QED
  BY <1>a, <1>3, <1>4, <1>5, <1>7, <1>8, Zenon DEF Owed, Follows

(* What is sent is what is owed first. *)
LEMMA ViewIsOwed ==
  ASSUME Known, NEW t \in Threads, NEW u \in Threads, t # u, LoopStep(t), UNCHANGED place,
         SendView(t)
  PROVE  /\ Owed(t, u) = <<<<client_name[t], move[t]>>>> \o Owed(t, u)'
         /\ Owed(t, u)' \in Seq(Entries)
         /\ Follows(t, u)' => Follows(t, u)
<1>a. /\ ServerTypeOK /\ pc[t] = "game_loop" /\ client_name = UserName
  BY LoopStepIsGameStep DEF Known, ProtocolInv, ServerInv, WireInv
<1>b. HasPublished(u)' <=> HasPublished(u)
  BY <1>a, PublishedStays
<1>1. /\ game_pc[t] = "send_view"
      /\ game_pc'[t] = IF game_has_finished[t] THEN "send_ended" ELSE "turn"
      /\ game_has_finished[t] => winner_name'[t] = other_client_name[t]
      /\ UNCHANGED <<current_player_move, game_has_ended, event, game_has_finished>>
  BY <1>a DEF SendView, GameGoto, shared, ServerTypeOK
<1>2. Due(t, u)' <=> Due(t, u)
  BY <1>1, <1>b DEF Due
<1>3. other_client_name[t] = UserName[u]
  BY <1>a, <1>1 DEF Known, ProtocolInv, RivalInv, InLoop
<1>4. /\ OwnMove(t) = <<<<client_name[t], move[t]>>>>
      /\ OwnMove(t)' = <<>>
  BY <1>a, <1>1 DEF OwnMove
<1>5. RivalMove(t, u)' = RivalMove(t, u)
  BY <1>1, <1>2 DEF RivalMove
<1>6. Winner(t, u)' = Winner(t, u)
  BY <1>1, <1>2, <1>3 DEF Winner
<1>7. PICK a \in Seq(Entries), b \in Seq(Entries), c \in Seq(Entries) :
        a = OwnMove(t) /\ b = RivalMove(t, u) /\ c = Winner(t, u)
  BY <1>a, OwedIsTyped
<1>8. (a \o b) \o c = a \o ((<<>> \o b) \o c)
  BY <1>7, EntriesConcat
<1>c. (<<>> \o b) \o c \in Seq(Entries)
  BY <1>7, EntriesConcat
<1>9. Owed(t, u) = (a \o b) \o c /\ Owed(t, u)' = (<<>> \o b) \o c
  BY <1>4, <1>5, <1>6, <1>7 DEF Owed
<1>10. InPlay(t) /\ ~Doomed(t, u)
  BY <1>a, <1>1 DEF InPlay, Doomed
<1> QED
  BY <1>4, <1>7, <1>8, <1>c, <1>9, <1>10 DEF Follows

LEMMA OtherViewIsOwed ==
  ASSUME Known, NEW t \in Threads, NEW u \in Threads, t # u, LoopStep(t), UNCHANGED place,
         SendOtherView(t)
  PROVE  /\ Owed(t, u) = <<<<other_client_name[t], move[t]>>>> \o Owed(t, u)'
         /\ Owed(t, u)' \in Seq(Entries)
         /\ Follows(t, u)' => Follows(t, u)
<1>a. /\ ServerTypeOK /\ pc[t] = "game_loop" /\ client_name = UserName
  BY LoopStepIsGameStep DEF Known, ProtocolInv, ServerInv, WireInv
<1>b. HasPublished(u)' <=> HasPublished(u)
  BY <1>a, PublishedStays
<1>1. /\ game_pc[t] = "send_other_view" /\ HasTurn(t)
      /\ game_pc'[t] = IF game_has_finished[t] THEN "send_ended" ELSE "turn"
      /\ game_has_finished[t] => winner_name'[t] = UserName[t]
      /\ UNCHANGED <<event, game_has_finished>>
  BY <1>a DEF SendOtherView, WinnerIsMine, GameGoto, ServerTypeOK, HasTurn
<1>2. ~Due(t, u) /\ ~Due(t, u)'
  <2>1. ~Due(t, u)
    BY <1>a, <1>1, NothingDue DEF InPlay
  <2> QED
    BY <1>1, <1>b, <2>1 DEF Due
<1>3. other_client_name[t] = UserName[u]
  BY <1>a, <1>1 DEF Known, ProtocolInv, RivalInv, InLoop
<1>4. OwnMove(t) = <<>> /\ OwnMove(t)' = <<>>
  BY <1>1 DEF OwnMove
<1>5. /\ RivalMove(t, u) = <<<<other_client_name[t], move[t]>>>>
      /\ RivalMove(t, u)' = <<>>
  BY <1>1, <1>2, <1>3 DEF RivalMove
<1>6. Winner(t, u)' = Winner(t, u)
  BY <1>1, <1>2 DEF Winner
<1>7. PICK b \in Seq(Entries), c \in Seq(Entries) :
        b = RivalMove(t, u) /\ c = Winner(t, u)
  BY <1>a, OwedIsTyped
<1>8. (<<>> \o b) \o c = b \o ((<<>> \o <<>>) \o c)
  BY <1>7, EntriesConcat
<1>c. (<<>> \o <<>>) \o c \in Seq(Entries)
  BY <1>7, EntriesConcat
<1>9. Owed(t, u) = (<<>> \o b) \o c /\ Owed(t, u)' = (<<>> \o <<>>) \o c
  BY <1>4, <1>5, <1>6, <1>7 DEF Owed
<1>10. InPlay(t) /\ ~Doomed(t, u)
  BY <1>a, <1>1 DEF InPlay, Doomed
<1> QED
  BY <1>5, <1>7, <1>8, <1>c, <1>9, <1>10 DEF Follows

LEMMA EndIsOwed ==
  ASSUME Known, NEW t \in Threads, NEW u \in Threads, t # u, LoopStep(t), UNCHANGED place,
         SendGameEnded(t)
  PROVE  /\ Owed(t, u) = <<<<winner_name[t]>>>> \o Owed(t, u)'
         /\ Owed(t, u)' \in Seq(Entries)
         /\ Follows(t, u)' => Follows(t, u)
<1>a. /\ ServerTypeOK /\ pc[t] = "game_loop" /\ client_name = UserName
  BY LoopStepIsGameStep DEF Known, ProtocolInv, ServerInv, WireInv
<1>b. HasPublished(u)' <=> HasPublished(u)
  BY <1>a, PublishedStays
<1>1. game_pc[t] = "send_ended" /\ game_pc'[t] = "reinit" /\ UNCHANGED event
  BY <1>a DEF SendGameEnded, GameGoto, ServerTypeOK
<1>2. ~Due(t, u) /\ ~Due(t, u)'
  <2>1. ~Due(t, u)
    BY <1>a, <1>1, NothingDue DEF InPlay, Returned
  <2> QED
    BY <1>1, <1>b, <2>1 DEF Due
<1>3. /\ OwnMove(t) = <<>> /\ RivalMove(t, u) = <<>>
      /\ Winner(t, u) = <<<<winner_name[t]>>>>
  BY <1>1, <1>2 DEF OwnMove, RivalMove, Winner
<1>4. OwnMove(t)' = <<>> /\ RivalMove(t, u)' = <<>> /\ Winner(t, u)' = <<>>
  BY <1>1, <1>2 DEF OwnMove, RivalMove, Winner
<1>5. PICK c \in Seq(Entries) : c = Winner(t, u)
  BY <1>a, OwedIsTyped
<1>6. (<<>> \o <<>>) \o c = c \o ((<<>> \o <<>>) \o <<>>)
  BY <1>5, EntriesConcat
<1>c. (<<>> \o <<>>) \o <<>> \in Seq(Entries)
  BY EntriesConcat
<1>7. Owed(t, u) = (<<>> \o <<>>) \o c /\ Owed(t, u)' = (<<>> \o <<>>) \o <<>>
  BY <1>3, <1>4, <1>5 DEF Owed
<1>8. InPlay(t) /\ ~Doomed(t, u)
  BY <1>a, <1>1 DEF InPlay, Doomed
<1> QED
  BY <1>3, <1>5, <1>6, <1>c, <1>7, <1>8 DEF Follows

(* What the rival of the acting thread owes its client. *)
-----------------------------------------------------------------------------
(* ... and what the other thread owes its own.                             *)

LEMMA RivalLocals ==
  ASSUME ServerTypeOK, NEW t \in Threads, GameStep(t), NEW u \in Threads, t # u
  PROVE  /\ move'[u] = move[u] /\ winner_name'[u] = winner_name[u]
         /\ game_has_finished'[u] = game_has_finished[u]
BY DEF ServerTypeOK, locals, GameStep, MoverStep, WaiterStep, EnterLoop, AskForMove,
       RecvMove, ReadNumber, PublishMove, JudgeMove, RecordVerdict, AdvanceNumber,
       SignalTurn, SendView, AnnounceOther, WaitForEvent, ReadMove, ReadEnded,
       SendOtherView, SendGameEnded, GameSocketFails, ForgetLocals

LEMMA RivalKeeps ==
  ASSUME ServerTypeOK, NEW t \in Threads, NEW u \in Threads, t # u, LoopStep(t),
         UNCHANGED place,
         InPlay(u) => UNCHANGED <<current_player_move, game_has_ended>>,
         Due(u, t)' <=> Due(u, t)
  PROVE  Follows(u, t)' => Follows(u, t) /\ Owed(u, t)' = Owed(u, t)
<1> SUFFICES ASSUME Follows(u, t)' PROVE Follows(u, t) /\ Owed(u, t)' = Owed(u, t)
  OBVIOUS
<1>1. GameStep(t) /\ InPlay(u)
  BY LoopStepIsGameStep, PublishedStays DEF Follows
<1>2. /\ move'[u] = move[u] /\ winner_name'[u] = winner_name[u]
      /\ game_has_finished'[u] = game_has_finished[u]
      /\ UNCHANGED <<current_player_move, game_has_ended>>
  BY <1>1, RivalLocals
<1>3. \/ game_pc'[u] = game_pc[u]
      \/ game_pc[u] = "blocked" /\ game_pc'[u] = "read_move"
  BY <1>1, GameStepMoves
<1>4. /\ OwnMove(u)' = OwnMove(u) /\ RivalMove(u, t)' = RivalMove(u, t)
      /\ Winner(u, t)' = Winner(u, t)
      /\ Doomed(u, t)' <=> Doomed(u, t)
  BY <1>2, <1>3 DEF OwnMove, RivalMove, Winner, Doomed
<1> QED
  BY <1>1, <1>4, Zenon DEF Owed, Follows

LEMMA DueStays ==
  ASSUME ServerTypeOK, NEW t \in Threads, NEW u \in Threads, t # u, LoopStep(t),
         ~PublishMove(t), WaitForEvent(t) => event # t
  PROVE  Due(u, t)' <=> Due(u, t)
<1>1. /\ GameStep(t) /\ pc[t] = "game_loop"
      /\ pc'[t] = IF game_pc'[t] \in {"reinit", "exited"} THEN game_pc'[t]
                                                         ELSE "game_loop"
  BY LoopStepIsGameStep, LoopStepReturns
<1> USE <1>1 DEF ServerTypeOK, GameGoto, HasPublished, shared, locals
<1>2. ASSUME UNCHANGED event, game_pc'[u] = game_pc[u], HasPublished(t)' <=> HasPublished(t)
      PROVE  Due(u, t)' <=> Due(u, t)
  BY <1>2 DEF Due
<1>3. CASE EnterLoop(t)
  BY <1>2, <1>3 DEF EnterLoop
<1>4. CASE AskForMove(t) \/ RecvMove(t) \/ ReadNumber(t)
  BY <1>2, <1>4 DEF AskForMove, RecvMove, ReadNumber
<1>5. CASE JudgeMove(t) \/ RecordVerdict(t) \/ AdvanceNumber(t)
  BY <1>2, <1>5 DEF JudgeMove, RecordVerdict, AfterVerdict, AdvanceNumber
<1>6. CASE SignalTurn(t)
  <2>1. HasPublished(t)
    BY <1>6 DEF SignalTurn
  <2>2. event' = t \/ game_pc'[u] = "read_move"
    BY <1>6, ThreadsAssumption DEF SignalTurn, Waiters
  <2> QED
    BY <2>1, <2>2 DEF Due
<1>7. CASE SendView(t) \/ AnnounceOther(t)
  BY <1>2, <1>7 DEF SendView, AnnounceOther
<1>8. CASE WaitForEvent(t)
  <2>1. /\ ~HasPublished(t) /\ ~HasPublished(t)' /\ event # t /\ event' # t
        /\ game_pc'[u] = game_pc[u]
    BY <1>8, NullAssumption DEF WaitForEvent, EventAfterWait
  <2> QED
    BY <2>1 DEF Due
<1>9. CASE ReadMove(t) \/ ReadEnded(t) \/ SendOtherView(t)
  BY <1>2, <1>9 DEF ReadMove, ReadEnded, SendOtherView
<1>10. CASE SendGameEnded(t) \/ GameSocketFails(t)
  BY <1>2, <1>10 DEF SendGameEnded, GameSocketFails, GameSocketPlaces
<1> QED
  BY <1>3, <1>4, <1>5, <1>6, <1>7, <1>8, <1>9, <1>10 DEF GameStep, MoverStep, WaiterStep

LEMMA RivalStays ==
  ASSUME Known, NEW t \in Threads, NEW u \in Threads, t # u, LoopStep(t),
         UNCHANGED place, ~PublishMove(t), WaitForEvent(t) => event # t,
         RecordVerdict(t) => ~game_has_finished[t]
  PROVE  Follows(u, t)' => Follows(u, t) /\ Owed(u, t)' = Owed(u, t)
<1>a. ServerTypeOK /\ GameStep(t) /\ InPlay(t)
  BY LoopStepIsGameStep DEF Known, ProtocolInv, ServerInv, InPlay
<1>1. Due(u, t)' <=> Due(u, t)
  BY <1>a, DueStays
<1>2. CASE RecordVerdict(t)
  <2>1. InPlay(u) => ~game_has_ended
    BY <1>a, <1>2, StillOn DEF RecordVerdict
  <2>2. InPlay(u) => UNCHANGED <<current_player_move, game_has_ended>>
    BY <1>a, <1>2, <2>1 DEF RecordVerdict, ServerTypeOK
  <2> QED
    BY <1>a, <1>1, <2>2, RivalKeeps
<1>3. CASE ~RecordVerdict(t)
  <2>1. UNCHANGED <<current_player_move, game_has_ended>>
    BY <1>a, <1>3
       DEF shared, GameStep, MoverStep, WaiterStep, EnterLoop, AskForMove, RecvMove,
           ReadNumber, JudgeMove, AdvanceNumber, SignalTurn, SendView, AnnounceOther,
           WaitForEvent, ReadMove, ReadEnded, SendOtherView, SendGameEnded, GameSocketFails
  <2> QED
    BY <1>a, <1>1, <2>1, RivalKeeps
<1> QED
  BY <1>2, <1>3

LEMMA RivalOfPublisher ==
  ASSUME Known, NEW t \in Threads, NEW u \in Threads, t # u, LoopStep(t), UNCHANGED place,
         PublishMove(t), Follows(u, t)'
  PROVE  /\ Follows(u, t)
         /\ Owed(u, t)' = Owed(u, t) \o <<<<UserName[t], move[t]>>>>
<1>a. ServerTypeOK /\ GameStep(t) /\ InPlay(t) /\ pc[t] = "game_loop" /\ WireInv
  BY LoopStepIsGameStep DEF Known, ProtocolInv, ServerInv, InPlay
<1>b. InPlay(u)
  BY <1>a, PublishedStays DEF Follows
<1>1. /\ game_pc[t] = "publish" /\ game_pc' = [game_pc EXCEPT ![t] = "judge"]
      /\ HasTurn(t) /\ current_player_move' = move[t]
      /\ UNCHANGED <<event, game_has_ended, locals>>
  BY <1>a DEF PublishMove, GameGoto, ServerTypeOK, HasTurn
<1>2. ~game_has_ended /\ ~Lost(u) /\ ~Won(u) /\ ~HasTurn(u)
  BY <1>a, <1>b, <1>1, StillOn
<1>3. ~Due(u, t)
  BY <1>a, <1>1, <1>2, NullAssumption
     DEF Due, HasPublished, HasTurn, Known, TurnsInv, AloneInv
<1>4. Due(u, t)'
  BY <1>a, <1>1, LoopStepReturns DEF Due, HasPublished, ServerTypeOK
<1>c. game_pc'[u] = game_pc[u] /\ game_pc[u] \notin {"read_ended", "send_other_view", "send_ended"}
  BY <1>1, <1>2 DEF HasTurn, Lost, Won, Returned, ServerTypeOK
<1>d. game_pc[u] \in {"signal", "send_view"} => ~game_has_finished[u]
  BY <1>2 DEF Lost
<1>5. RivalMove(u, t) = <<>> /\ Winner(u, t) = <<>>
  BY <1>3, <1>c, <1>d DEF RivalMove, Winner
<1>6. /\ OwnMove(u)' = OwnMove(u) /\ RivalMove(u, t)' = <<<<UserName[t], move[t]>>>>
      /\ Winner(u, t)' = <<>>
  BY <1>1, <1>2, <1>4, <1>c, <1>d DEF OwnMove, RivalMove, Winner, locals
<1>7. PICK e \in Seq(Entries) : e = <<<<UserName[t], move[t]>>>>
  <2>1. UserName[t] \in Values /\ move[t] \in Values
    BY <1>a DEF WireInv, ServerTypeOK, TypeOK, Values
  <2> QED
    BY <2>1, EntryIsTyped
<1>8. OwnMove(u) \in Seq(Entries)
  BY <1>a, OwedIsTyped DEF WireInv
<1>9. (OwnMove(u) \o e) \o <<>> = ((OwnMove(u) \o <<>>) \o <<>>) \o e
  BY <1>7, <1>8, EntriesConcat
<1>10. ~Doomed(u, t)
  BY <1>3 DEF Doomed
<1> QED
  BY <1>b, <1>5, <1>6, <1>7, <1>9, <1>10, Zenon DEF Owed, Follows

LEMMA RivalOfLoser ==
  ASSUME Known, NEW t \in Threads, NEW u \in Threads, t # u, LoopStep(t), UNCHANGED place,
         RecordVerdict(t), game_has_finished[t], Follows(u, t)'
  PROVE  /\ Follows(u, t)
         /\ Owed(u, t)' = Owed(u, t) \o <<<<UserName[u]>>>>
<1>a. ServerTypeOK /\ GameStep(t) /\ InPlay(t) /\ pc[t] = "game_loop" /\ WireInv
  BY LoopStepIsGameStep DEF Known, ProtocolInv, ServerInv, InPlay
<1>b. InPlay(u)
  BY <1>a, PublishedStays DEF Follows
<1>1. /\ game_pc[t] = "record" /\ game_pc' = [game_pc EXCEPT ![t] = "signal"]
      /\ HasTurn(t) /\ game_has_ended' = TRUE
      /\ UNCHANGED <<event, current_player_move, locals>>
  BY <1>a DEF RecordVerdict, AfterVerdict, GameGoto, ServerTypeOK, HasTurn
<1>2. ~game_has_ended /\ ~Lost(u) /\ ~Won(u) /\ ~HasTurn(u)
  BY <1>a, <1>b, <1>1, StillOn
<1>3. Due(u, t) /\ Due(u, t)'
  BY <1>a, <1>1, LoopStepReturns DEF Due, HasPublished, ServerTypeOK
<1>c. game_pc'[u] = game_pc[u] /\ game_pc[u] \notin {"read_ended", "send_other_view", "send_ended"}
  BY <1>1, <1>2 DEF HasTurn, Lost, Won, Returned, ServerTypeOK
<1>d. game_pc[u] \in {"signal", "send_view"} => ~game_has_finished[u]
  BY <1>2 DEF Lost
<1>4. Winner(u, t) = <<>>
  BY <1>2, <1>c, <1>d DEF Winner
<1>5. /\ OwnMove(u)' = OwnMove(u) /\ RivalMove(u, t)' = RivalMove(u, t)
      /\ Winner(u, t)' = <<<<UserName[u]>>>>
  BY <1>1, <1>3, <1>c, <1>d DEF OwnMove, RivalMove, Winner, locals
<1>6. PICK e \in Seq(Entries) : e = <<<<UserName[u]>>>>
  <2>1. UserName[u] \in Values
    BY <1>a DEF WireInv, ServerTypeOK, TypeOK, Values
  <2> QED
    BY <2>1, EntryIsTyped
<1>7. PICK r \in Seq(Entries) : r = OwnMove(u) \o RivalMove(u, t)
  <2>1. OwnMove(u) \in Seq(Entries) /\ RivalMove(u, t) \in Seq(Entries)
    BY <1>a, OwedIsTyped DEF WireInv
  <2> QED
    BY <2>1, EntriesConcat
<1>8. r \o e = (r \o <<>>) \o e
  BY <1>6, <1>7, EntriesConcat
<1>9. Doomed(u, t)' <=> Doomed(u, t)
  BY <1>1, <1>3, <1>c DEF Doomed
<1> QED
  BY <1>b, <1>4, <1>5, <1>6, <1>7, <1>8, <1>9, Zenon DEF Owed, Follows

-----------------------------------------------------------------------------
(* What a client has been told.                                            *)

(* A step after which t is told what it was told before. *)
LEMMA TellsSame ==
  ASSUME ServerTypeOK, client_name = UserName, NEW t \in Threads, NEW u \in Threads,
         NEW H \in Seq(Entries), Tells(t, u, H),
         \A A \in Seq(Entries) : Told(t, A) => Told(t, A)',
         Follows(t, u)' => Follows(t, u) /\ Owed(t, u)' = Owed(t, u)
  PROVE  Tells(t, u, H)'
<1> DEFINE X == <<>>
<1>1. X \in Seq(Entries) /\ H \o X = H
  BY EntriesConcat
<1>2. Owed(t, u) \in Seq(Entries)
  BY OwedIsTyped
<1>3. Follows(t, u)' => Follows(t, u) /\ Owed(t, u)' = Owed(t, u) \o X
  BY <1>2, EntriesConcat
<1> HIDE DEF X
<1>4. Tells(t, u, H \o X)'
  BY <1>1, <1>3, TellsStays
<1> QED
  BY <1>1, <1>4

LEMMA TellsRests ==
  ASSUME ServerTypeOK, client_name = UserName, NEW t \in Threads, NEW u \in Threads,
         NEW H \in Seq(Entries), Tells(t, u, H),
         to_client'[t] = to_client[t], shown'[t] = shown[t],
         Follows(t, u)' => Follows(t, u) /\ Owed(t, u)' = Owed(t, u)
  PROVE  Tells(t, u, H)'
<1>1. \A A \in Seq(Entries) : Told(t, A) => Told(t, A)'
  BY ToldStays
<1> QED
  BY <1>1, TellsSame

(* A message without anything to show. *)
LEMMA ToldNothing ==
  ASSUME WireInv, NEW t \in Threads, NEW m \in Messages,
         m.type \notin {"GAME_VIEW", "GAME_ENDED"},
         to_client'[t] = to_client[t] \o <<m>>, shown'[t] = shown[t],
         NEW A, Told(t, A)
  PROVE  Told(t, A)'
<1>1. PICK P \in Seq(Entries) : Pending(to_client[t], P) /\ A = shown[t] \o P
  BY DEF Told
<1>2. ShownBy(m) = <<>>
  BY ShowsNothing
<1>3. to_client[t] \in Seq(Messages)
  BY DEF WireInv
<1>4. Pending(to_client[t] \o <<m>>, P \o ShownBy(m))
  BY <1>1, <1>3, PendingGrows
<1>5. P \o ShownBy(m) = P
  BY <1>1, <1>2, EntriesConcat
<1>6. Pending(to_client'[t], P)
  BY <1>4, <1>5
<1>7. Pending(to_client[t], P)'
  BY <1>6 DEF Pending
<1> QED
  BY <1>1, <1>7 DEF Told

(* ... sent to a client that may have gone. *)
LEMMA ToldPlain ==
  ASSUME WireInv, NEW t \in Threads, NEW m \in Messages,
         m.type \notin {"GAME_VIEW", "GAME_ENDED"},
         Sends(t, <<m>>), shown'[t] = shown[t], NEW A, Told(t, A)
  PROVE  Told(t, A)'
<1>1. CASE place[t] = "gone"
  BY <1>1, ToldStays DEF Sends
<1>2. CASE place[t] # "gone"
  <2>1. to_client'[t] = to_client[t] \o <<m>>
    BY <1>2 DEF Sends, WireInv
  <2> QED
    BY <2>1, ToldNothing
<1> QED
  BY <1>1, <1>2

-----------------------------------------------------------------------------
(* The steps of a game.                                                    *)

LEMMA ToldRequest ==
  ASSUME WireInv, ServerTypeOK, NEW t \in Threads, Sends(t, TurnMessages(t)),
         shown'[t] = shown[t], NEW A, Told(t, A)
  PROVE  Told(t, A)'
<1> DEFINE m1 == C!Message("TURN_SWITCH", <<UserName[t]>>)
           m2 == C!Message("SERVER_MOVE_REQUEST", <<>>)
<1>1. m1 \in Messages /\ m2 \in Messages /\ TurnMessages(t) = <<m1>> \o <<m2>>
  <2>1. client_name[t] = UserName[t] /\ UserName[t] \in Values
    BY DEF WireInv, ServerTypeOK, TypeOK, Values
  <2>2. m1 \in Messages
    BY <2>1, MessageIsTyped DEF Types
  <2>3. m2 \in Messages /\ Plain("SERVER_MOVE_REQUEST") = <<m2>>
    BY PlainTypes DEF Types
  <2> QED
    BY <2>1, <2>2, <2>3 DEF TurnMessages
<1>2. ShownBy(m1) = <<>> /\ ShownBy(m2) = <<>>
  BY ShowsNothing DEF C!Message
<1>3. to_client[t] \in Seq(Messages)
  BY DEF WireInv
<1> HIDE DEF m1, m2
<1>4. CASE place[t] = "gone"
  BY <1>4, ToldStays DEF Sends
<1>5. CASE place[t] # "gone"
  <2>1. PICK P \in Seq(Entries) : Pending(to_client[t], P) /\ A = shown[t] \o P
    BY DEF Told
  <2>2. P \o <<>> = P
    BY <2>1, EntriesConcat
  <2>3. Pending(to_client[t] \o <<m1>>, P)
    <3>1. Pending(to_client[t] \o <<m1>>, P \o ShownBy(m1))
      BY <1>1, <1>3, <2>1, PendingGrows
    <3> QED
      BY <1>2, <2>2, <3>1
  <2>4. to_client[t] \o <<m1>> \in Seq(Messages)
    BY <1>1, <1>3
  <2>5. Pending((to_client[t] \o <<m1>>) \o <<m2>>, P)
    <3>1. Pending((to_client[t] \o <<m1>>) \o <<m2>>, P \o ShownBy(m2))
      BY <1>1, <2>3, <2>4, PendingGrows
    <3> QED
      BY <1>2, <2>2, <3>1
  <2>6. to_client'[t] = (to_client[t] \o <<m1>>) \o <<m2>>
    <3>1. to_client'[t] = to_client[t] \o (<<m1>> \o <<m2>>)
      BY <1>1, <1>5 DEF Sends, WireInv
    <3> QED
      BY <1>1, <1>3, <3>1
  <2>7. Pending(to_client[t], P)'
    BY <2>5, <2>6 DEF Pending
  <2> QED
    BY <2>1, <2>7 DEF Told
<1> QED
  BY <1>4, <1>5

(* A client whose thread is about to send it something follows the game. *)
LEMMA SenderFollows ==
  ASSUME NEW t \in Threads, NEW u \in Threads, pc[t] = "game_loop",
         game_pc[t] \in {"send_view", "send_other_view", "send_ended"}, place[t] # "gone"
  PROVE  Follows(t, u)
BY DEF Follows, InPlay, Doomed

(* GAME_VIEW and GAME_ENDED. *)
LEMMA ShownMessages ==
  ASSUME NEW t \in Threads, ServerTypeOK, client_name = UserName
  PROVE  /\ \A mover \in Names \cup {NULL} :
              \E m \in Messages : GameView(t, mover) = <<m>> /\ ShownBy(m) = <<<<mover, move[t]>>>>
         /\ \E m \in Messages : <<C!Message("GAME_ENDED", <<winner_name[t]>>)>> = <<m>>
                                  /\ ShownBy(m) = <<<<winner_name[t]>>>>
<1>1. move[t] \in Values /\ Verdict(t) \in Values /\ winner_name[t] \in Values
  BY DEF ServerTypeOK, TypeOK, Values, Verdict
<1>2. ASSUME NEW mover \in Names \cup {NULL}
      PROVE  \E m \in Messages : GameView(t, mover) = <<m>> /\ ShownBy(m) = <<<<mover, move[t]>>>>
  <2> DEFINE m == C!Message("GAME_VIEW", <<mover, move[t], Verdict(t)>>)
  <2>1. mover \in Values
    BY DEF Values
  <2>2. m \in Messages
    BY <1>1, <2>1, MessageIsTyped DEF Types
  <2>3. ShownBy(m) = <<<<mover, move[t]>>>>
    BY FrontOfThree DEF ShownBy, C!Message
  <2>4. GameView(t, mover) = <<m>>
    BY DEF GameView
  <2> HIDE DEF m
  <2> QED
    BY <2>2, <2>3, <2>4
<1>3. \E m \in Messages : <<C!Message("GAME_ENDED", <<winner_name[t]>>)>> = <<m>>
                            /\ ShownBy(m) = <<<<winner_name[t]>>>>
  <2> DEFINE m == C!Message("GAME_ENDED", <<winner_name[t]>>)
  <2>1. m \in Messages
    BY <1>1, MessageIsTyped DEF Types
  <2>2. ShownBy(m) = <<<<winner_name[t]>>>>
    BY DEF ShownBy, C!Message
  <2> HIDE DEF m
  <2>3. <<m>> = <<m>>
    OBVIOUS
  <2> QED
    BY <2>1, <2>2 DEF m
<1> QED
  BY <1>2, <1>3

(* What the client of a moving thread has been told ... *)
LEMMA ViewTells ==
  ASSUME Known, NEW t \in Threads, NEW u \in Threads, t # u, PlayStep(t),
         shown' = shown, shown \in [Threads -> Seq(Entries)],
         NEW H \in Seq(Entries), Tells(t, u, H),
         \/ SendView(t) /\ Sends(t, GameView(t, client_name[t]))
         \/ SendOtherView(t) /\ Sends(t, GameView(t, other_client_name[t]))
         \/ SendGameEnded(t) /\ Sends(t, <<C!Message("GAME_ENDED", <<winner_name[t]>>)>>)
  PROVE  Tells(t, u, H)'
<1>a. ServerTypeOK /\ client_name = UserName /\ WireInv
  BY DEF Known, ProtocolInv, ServerInv, WireInv
<1>b. /\ LoopStep(t) /\ UNCHANGED place /\ pc[t] = "game_loop"
      /\ shown'[t] = shown[t] /\ shown[t] \in Seq(Entries)
  BY PlayStepLoops, LoopStepIsGameStep DEF PlayStep
<1>c. game_pc[t] \in {"send_view", "send_other_view", "send_ended"}
  BY DEF SendView, SendOtherView, SendGameEnded
<1>d. place[t] # "gone" => Follows(t, u)
  BY <1>b, <1>c, SenderFollows
<1>1. PICK m \in Messages :
        /\ Sends(t, <<m>>)
        /\ Owed(t, u) = ShownBy(m) \o Owed(t, u)' /\ Owed(t, u)' \in Seq(Entries)
        /\ Follows(t, u)' => Follows(t, u)
  <2>1. CASE SendView(t) /\ Sends(t, GameView(t, client_name[t]))
    <3>1. PICK m \in Messages : GameView(t, client_name[t]) = <<m>>
                                  /\ ShownBy(m) = <<<<client_name[t], move[t]>>>>
      <4>1. client_name[t] \in Names \cup {NULL}
        BY <1>a DEF ServerTypeOK, TypeOK
      <4> QED
        BY <1>a, <4>1, ShownMessages
    <3>2. /\ Owed(t, u) = <<<<client_name[t], move[t]>>>> \o Owed(t, u)'
          /\ Owed(t, u)' \in Seq(Entries)
          /\ Follows(t, u)' => Follows(t, u)
      BY <1>b, <2>1, ViewIsOwed
    <3> QED
      BY <2>1, <3>1, <3>2
  <2>2. CASE SendOtherView(t) /\ Sends(t, GameView(t, other_client_name[t]))
    <3>1. PICK m \in Messages : GameView(t, other_client_name[t]) = <<m>>
                                  /\ ShownBy(m) = <<<<other_client_name[t], move[t]>>>>
      <4>1. other_client_name[t] \in Names \cup {NULL}
        BY <1>a DEF ServerTypeOK
      <4> QED
        BY <1>a, <4>1, ShownMessages
    <3>2. /\ Owed(t, u) = <<<<other_client_name[t], move[t]>>>> \o Owed(t, u)'
          /\ Owed(t, u)' \in Seq(Entries)
          /\ Follows(t, u)' => Follows(t, u)
      BY <1>b, <2>2, OtherViewIsOwed
    <3> QED
      BY <2>2, <3>1, <3>2
  <2>3. CASE SendGameEnded(t) /\ Sends(t, <<C!Message("GAME_ENDED", <<winner_name[t]>>)>>)
    <3>1. PICK m \in Messages : <<C!Message("GAME_ENDED", <<winner_name[t]>>)>> = <<m>>
                                  /\ ShownBy(m) = <<<<winner_name[t]>>>>
      BY <1>a, ShownMessages
    <3>2. /\ Owed(t, u) = <<<<winner_name[t]>>>> \o Owed(t, u)'
          /\ Owed(t, u)' \in Seq(Entries)
          /\ Follows(t, u)' => Follows(t, u)
      BY <1>b, <2>3, EndIsOwed
    <3>3. Sends(t, <<m>>)
      BY <2>3, <3>1
    <3> QED
      BY <3>1, <3>2, <3>3
  <2> QED
    BY <2>1, <2>2, <2>3
<1> QED
  BY <1>a, <1>b, <1>d, <1>1, TellsMessage

LEMMA TurnTells ==
  ASSUME Known, NEW t \in Threads, NEW u \in Threads, t # u, PlayStep(t),
         shown' = shown, NEW H \in Seq(Entries), Tells(t, u, H),
         \/ AskForMove(t) /\ Sends(t, TurnMessages(t))
         \/ AnnounceOther(t) /\ Sends(t, <<C!Message("TURN_SWITCH", <<other_client_name[t]>>)>>)
  PROVE  Tells(t, u, H)'
<1>a. ServerTypeOK /\ client_name = UserName /\ WireInv
  BY DEF Known, ProtocolInv, ServerInv, WireInv
<1>b. LoopStep(t) /\ UNCHANGED place
  BY PlayStepLoops DEF PlayStep
<1>1. Follows(t, u)' => Follows(t, u) /\ Owed(t, u)' = Owed(t, u)
  BY <1>b, MoverOwes, WaiterOwes
<1>2. ASSUME NEW A \in Seq(Entries), Told(t, A) PROVE Told(t, A)'
  <2>1. CASE AskForMove(t) /\ Sends(t, TurnMessages(t))
    BY <1>a, <1>2, <2>1, ToldRequest
  <2>2. CASE AnnounceOther(t) /\ Sends(t, <<C!Message("TURN_SWITCH", <<other_client_name[t]>>)>>)
    <3> DEFINE m == C!Message("TURN_SWITCH", <<other_client_name[t]>>)
    <3>1. other_client_name[t] \in Values
      BY <1>a DEF ServerTypeOK, Values
    <3>2. m \in Messages /\ m.type = "TURN_SWITCH" /\ Sends(t, <<m>>)
      BY <2>2, <3>1, MessageIsTyped DEF Types, C!Message
    <3> HIDE DEF m
    <3>3. m.type \notin {"GAME_VIEW", "GAME_ENDED"} /\ shown'[t] = shown[t]
      BY <3>2
    <3> QED
      BY <1>a, <1>2, <3>2, <3>3, ToldPlain
  <2> QED
    BY <2>1, <2>2
<1> QED
  BY <1>a, <1>1, <1>2, TellsSame

(* ... and of a thread that goes on quietly. *)
LEMMA QuietTells ==
  ASSUME Known, NEW t \in Threads, NEW u \in Threads, t # u, PlayStep(t),
         shown' = shown, NEW H \in Seq(Entries), Tells(t, u, H),
         to_client' = to_client,
         \/ EnterLoop(t) \/ RecvMove(t) \/ ReadNumber(t) \/ JudgeMove(t)
         \/ RecordVerdict(t) /\ ~game_has_finished[t]
         \/ AdvanceNumber(t) \/ SignalTurn(t)
         \/ WaitForEvent(t) /\ event # t
         \/ ReadMove(t) \/ ReadEnded(t) \/ GameSocketFails(t)
  PROVE  Tells(t, u, H)'
<1>a. ServerTypeOK /\ client_name = UserName
  BY DEF Known, ProtocolInv, ServerInv, WireInv
<1>b. LoopStep(t) /\ UNCHANGED place
  BY PlayStepLoops DEF PlayStep
<1>1. Follows(t, u)' => Follows(t, u) /\ Owed(t, u)' = Owed(t, u)
  <2>1. CASE GameSocketFails(t)
    <3>1. game_pc'[t] = "exited"
      BY <1>a, <2>1 DEF GameSocketFails, GameGoto, ServerTypeOK
    <3>2. pc'[t] = "exited"
      BY <1>a, <1>b, <3>1, LoopStepReturns
    <3> QED
      BY <3>2 DEF Follows, InPlay
  <2> QED
    BY <1>b, <2>1, MoverOwes, WaiterOwes
<1> QED
  BY <1>a, <1>1, TellsRests

(* A move goes to the end of the line for both, and so does the winner. *)
LEMMA LineGrows ==
  ASSUME Known, NEW t \in Threads, NEW u \in Threads, t # u, PlayStep(t),
         shown' = shown, Quiet, NEW H \in Seq(Entries), Tells(t, u, H), Tells(u, t, H),
         PublishMove(t) \/ (RecordVerdict(t) /\ game_has_finished[t])
  PROVE  \E K \in Seq(Entries) : Tells(t, u, K)' /\ Tells(u, t, K)'
<1>a. ServerTypeOK
  BY DEF Known, ProtocolInv, ServerInv
<1>b. LoopStep(t) /\ UNCHANGED place
  BY PlayStepLoops DEF PlayStep
<1>1. PICK X \in Seq(Entries) :
        /\ Follows(t, u)' => Follows(t, u) /\ Owed(t, u)' = Owed(t, u) \o X
        /\ Follows(u, t)' => Follows(u, t) /\ Owed(u, t)' = Owed(u, t) \o X
  <2>1. CASE PublishMove(t)
    <3>1. <<<<UserName[t], move[t]>>>> \in Seq(Entries)
      <4>1. UserName[t] \in Values /\ move[t] \in Values
        BY <1>a DEF Known, ProtocolInv, WireInv, ServerTypeOK, TypeOK, Values
      <4> QED
        BY <4>1, EntryIsTyped
    <3> QED
      BY <1>b, <2>1, <3>1, PublisherOwes, RivalOfPublisher
  <2>2. CASE RecordVerdict(t) /\ game_has_finished[t]
    <3>1. <<<<UserName[u]>>>> \in Seq(Entries)
      <4>1. UserName[u] \in Values
        BY <1>a DEF Known, ProtocolInv, WireInv, ServerTypeOK, TypeOK, Values
      <4> QED
        BY <4>1, EntryIsTyped
    <3> QED
      BY <1>b, <2>2, <3>1, LoserOwes, RivalOfLoser
  <2> QED
    BY <2>1, <2>2
<1>2. \A v \in Threads : \A A \in Seq(Entries) : Told(v, A) => Told(v, A)'
  BY ToldStays DEF Quiet, wire
<1>3. Tells(t, u, H \o X)' /\ Tells(u, t, H \o X)'
  BY <1>1, <1>2, TellsStays
<1>4. H \o X \in Seq(Entries)
  BY EntriesConcat
<1> QED
  BY <1>3, <1>4

LEMMA PlayTells ==
  ASSUME Known, NEW t \in Threads, NEW u \in Threads, t # u, PlayStep(t),
         WaitForEvent(t) => event # t,
         shown' = shown, shown \in [Threads -> Seq(Entries)],
         NEW H \in Seq(Entries), Tells(t, u, H), Tells(u, t, H)
  PROVE  \E K \in Seq(Entries) : Tells(t, u, K)' /\ Tells(u, t, K)'
<1>a. ServerTypeOK /\ client_name = UserName /\ WireInv
  BY DEF Known, ProtocolInv, ServerInv, WireInv
<1>b. LoopStep(t) /\ UNCHANGED place
  BY PlayStepLoops DEF PlayStep
<1>1. CASE PublishMove(t) \/ (RecordVerdict(t) /\ game_has_finished[t])
  <2>1. Quiet
    BY <1>1 DEF PlayStep, PublishMove, RecordVerdict, AskForMove, RecvMove, SendView,
                AnnounceOther, SendOtherView, SendGameEnded
  <2> QED
    BY <1>1, <2>1, LineGrows
<1>2. CASE ~PublishMove(t) /\ ~(RecordVerdict(t) /\ game_has_finished[t])
  <2>1. to_client'[u] = to_client[u]
    BY <1>a DEF PlayStep, Sends, Receives, Quiet, wire, WireInv
  <2>2. Tells(u, t, H)'
    BY <1>a, <1>b, <1>2, <2>1, RivalStays, TellsRests
  <2>3. Tells(t, u, H)'
    BY <1>2, ViewTells, TurnTells, QuietTells DEF PlayStep, Receives, Quiet, wire
  <2> QED
    BY <2>2, <2>3
<1> QED
  BY <1>1, <1>2

-----------------------------------------------------------------------------
(* The steps outside of a game.                                            *)

(* A thread in a game owes its client as much as before. *)
LEMMA MatchOwes ==
  ASSUME ServerTypeOK, CallInv, NEW v \in Threads, MatchStep(v),
         NEW t \in Threads, NEW u \in Threads, t # u,
         place'[t] # "gone" => place[t] # "gone"
  PROVE  Follows(t, u)' => Follows(t, u) /\ Owed(t, u)' = Owed(t, u)
<1> SUFFICES ASSUME InPlay(t)'
             PROVE  Follows(t, u)' => Follows(t, u) /\ Owed(t, u)' = Owed(t, u)
  BY DEF Follows
<1>1. InPlay(t) /\ game_pc'[t] = game_pc[t] /\ UNCHANGED game
  BY MatchLeavesGame
<1>2. HasPublished(u)' <=> HasPublished(u)
  <2>1. CASE u # v
    BY <2>1, MatchStepMoves, MatchStepKeeps DEF HasPublished, ServerTypeOK
  <2>2. CASE u = v
    <3>1. /\ pc[v] = "game_loop" => pc'[v] = pc[v]
          /\ pc'[v] = "game_loop" => pc[v] \in {"game_loop", "game_started"}
          /\ pc[v] # "exited" => game_pc' = game_pc
      BY MatchStepMoves, MatchStepKeeps DEF Playing
    <3>2. pc[v] = "game_started" => game_pc[v] = "game_loop"
      BY DEF CallInv
    <3> QED
      BY <2>2, <3>1, <3>2 DEF HasPublished
  <2> QED
    BY <2>1, <2>2
<1>3. Due(t, u)' <=> Due(t, u)
  BY <1>1, <1>2 DEF Due, game
<1>4. Owed(t, u)' = Owed(t, u)
  BY <1>1, <1>3 DEF Owed, OwnMove, RivalMove, Winner, game, shared, locals
<1>5. Doomed(t, u)' <=> Doomed(t, u)
  BY <1>1, <1>3 DEF Doomed, game, shared
<1> QED
  BY <1>1, <1>4, <1>5 DEF Follows

(* What the menu tells a client shows it nothing. *)
LEMMA MenuTold ==
  ASSUME ServerTypeOK, WireInv, NEW v \in Threads, MenuStep(v), shown' = shown,
         NEW t \in Threads, NEW A, Told(t, A)
  PROVE  Told(t, A)'
<1>1. ASSUME NEW type \in {"SERVER_MAIN_MENU", "SERVER_NO_OPPONENTS", "GAME_STARTED"},
             Sends(v, Plain(type))
      PROVE  Told(t, A)'
  <2>1. CASE t = v
    <3>1. PICK m \in Messages : Plain(type) = <<m>> /\ m.type = type
      BY PlainTypes DEF Types
    <3>2. m.type \notin {"GAME_VIEW", "GAME_ENDED"} /\ Sends(t, <<m>>)
      BY <1>1, <2>1, <3>1
    <3> QED
      BY <3>2, ToldPlain
  <2>2. CASE t # v
    <3>1. to_client'[t] = to_client[t]
      BY <1>1, <2>2 DEF Sends, WireInv
    <3> QED
      BY <3>1, ToldStays
  <2> QED
    BY <2>1, <2>2
<1>2. CASE Approves(v)
  <2>1. CASE t = v
    <3>1. PICK m \in Messages : Plain("SERVER_APPROVED") = <<m>> /\ m.type = "SERVER_APPROVED"
      BY PlainTypes DEF Types
    <3>2. to_client' = [to_client EXCEPT ![t] = @ \o <<m>>]
      BY <1>2, <2>1, <3>1 DEF Approves
    <3>3. to_client'[t] = to_client[t] \o <<m>>
      BY <3>2 DEF WireInv
    <3>4. m.type \notin {"GAME_VIEW", "GAME_ENDED"}
      BY <3>1
    <3> QED
      BY <3>3, <3>4, ToldNothing
  <2>2. CASE t # v
    <3>1. to_client'[t] = to_client[t]
      BY <1>2, <2>2 DEF Approves, WireInv
    <3> QED
      BY <3>1, ToldStays
  <2> QED
    BY <2>1, <2>2
<1>3. CASE to_client' = to_client
  BY <1>3, ToldStays
<1> QED
  BY <1>1, <1>2, <1>3 DEF MenuStep, ReceivesChoice, Receives, Quiet, wire

LEMMA MenuTells ==
  ASSUME Known, NEW v \in Threads, MenuStep(v), shown' = shown,
         NEW t \in Threads, NEW u \in Threads, t # u,
         NEW H \in Seq(Entries), Tells(t, u, H)
  PROVE  Tells(t, u, H)'
<1>a. ServerTypeOK /\ CallInv /\ client_name = UserName /\ WireInv
  BY DEF Known, ProtocolInv, ServerInv, WireInv
<1>1. Follows(t, u)' => Follows(t, u) /\ Owed(t, u)' = Owed(t, u)
  BY <1>a, MenuStepMatches, MatchOwes DEF MenuStep
<1>2. \A A \in Seq(Entries) : Told(t, A) => Told(t, A)'
  BY <1>a, MenuTold
<1> QED
  BY <1>a, <1>1, <1>2, TellsSame

(* A client of which nothing is known any more. *)
LEMMA TellsLost ==
  ASSUME NEW t \in Threads, NEW u \in Threads, NEW H \in Seq(Entries), Tells(t, u, H),
         shown \in [Threads -> Seq(Entries)],
         to_client'[t] = <<>>, shown'[t] \in {<<>>, shown[t]}, ~Follows(t, u)'
  PROVE  Tells(t, u, H)'
<1>1. PICK A \in Seq(Entries), R \in Seq(Entries) : Told(t, A) /\ A \o R = H
  BY DEF Tells
<1>2. PICK P \in Seq(Entries) : A = shown[t] \o P
  BY <1>1 DEF Told
<1>3. Pending(<<>>, <<>>)
  BY PendingOfNothing
<1>4. Pending(to_client[t], <<>>)'
  BY <1>3 DEF Pending
<1>5. CASE shown'[t] = <<>>
  <2>1. <<>> = shown'[t] \o <<>> /\ <<>> \o H = H /\ <<>> \in Seq(Entries)
    BY <1>5, EntriesConcat
  <2>2. Told(t, <<>>)'
    BY <1>4, <2>1 DEF Told
  <2> QED
    BY <2>1, <2>2 DEF Tells
<1>6. CASE shown'[t] = shown[t]
  <2>1. PICK B \in Seq(Entries) : B = shown[t]
    OBVIOUS
  <2>2. B = B \o <<>> /\ <<>> \in Seq(Entries)
    BY <2>1, EntriesConcat
  <2>3. Told(t, B)'
    BY <1>4, <1>6, <2>1, <2>2 DEF Told
  <2>4. P \o R \in Seq(Entries) /\ B \o (P \o R) = H
    <3>1. (B \o P) \o R = B \o (P \o R)
      BY <1>1, <1>2, <2>1, EntriesAssociate
    <3> QED
      BY <1>1, <1>2, <2>1, <3>1, EntriesConcat
  <2> QED
    BY <2>3, <2>4 DEF Tells
<1> QED
  BY <1>5, <1>6

LEMMA ConnectsTells ==
  ASSUME Known, NEW v \in Threads, Connects(v),
         shown' = [shown EXCEPT ![v] = <<>>], shown \in [Threads -> Seq(Entries)],
         NEW t \in Threads, NEW u \in Threads, t # u,
         NEW H \in Seq(Entries), Tells(t, u, H)
  PROVE  Tells(t, u, H)'
<1>a. ServerTypeOK /\ CallInv /\ client_name = UserName /\ WireInv
  BY DEF Known, ProtocolInv, ServerInv, WireInv
<1>1. /\ to_client' = to_client /\ place[v] = "gone"
      /\ place' = [place EXCEPT ![v] = "reply"] /\ pc'[v] = "request"
  BY <1>a DEF Connects, C!Connect, C!Send, C!Move, NewClient, Goto, ServerTypeOK, TypeOK
<1>2. CASE t = v
  <2>1. to_client'[t] = <<>> /\ shown'[t] = <<>> /\ ~Follows(t, u)'
    BY <1>a, <1>1, <1>2 DEF WireInv, Link, GoneLink, Follows, InPlay
  <2> QED
    BY <2>1, TellsLost
<1>3. CASE t # v
  <2>1. to_client'[t] = to_client[t] /\ shown'[t] = shown[t] /\ place'[t] = place[t]
    BY <1>a, <1>1, <1>3 DEF WireInv
  <2>2. Follows(t, u)' => Follows(t, u) /\ Owed(t, u)' = Owed(t, u)
    BY <1>a, <2>1, ConnectsMatches, MatchOwes
  <2> QED
    BY <1>a, <2>1, <2>2, TellsRests
<1> QED
  BY <1>2, <1>3

(* The steps of the clients. *)
LEMMA RestOwes ==
  ASSUME UNCHANGED <<pc, game_pc, game>>, NEW t \in Threads, NEW u \in Threads,
         place'[t] # "gone" => place[t] # "gone"
  PROVE  Follows(t, u)' => Follows(t, u) /\ Owed(t, u)' = Owed(t, u)
BY DEF game, shared, locals, Follows, InPlay, Doomed, Due, HasPublished, Owed, OwnMove,
       RivalMove, Winner

LEMMA ClientTells ==
  ASSUME Known, NEW v \in Threads, ClientTakes(v),
         shown' = [shown EXCEPT ![v] = @ \o ShownNow(v)], shown \in [Threads -> Seq(Entries)],
         NEW t \in Threads, NEW u \in Threads, t # u,
         NEW H \in Seq(Entries), Tells(t, u, H)
  PROVE  Tells(t, u, H)'
<1>a. ServerTypeOK /\ client_name = UserName /\ WireInv
  BY DEF Known, ProtocolInv, ServerInv, WireInv
<1>1. /\ UNCHANGED server_vars /\ place[v] # "gone"
      /\ \A w \in Threads \ {v} : place'[w] = place[w] /\ to_client'[w] = to_client[w]
  BY <1>a DEF ClientTakes, C!RecvApproved, C!RecvMainMenu, C!RecvAnswer, C!RecvTurnSwitch,
         C!RecvMoveRequest, C!RecvGameView, C!RecvGameEnded, C!Receive, C!Move, WireInv
<1>2. Follows(t, u)' => Follows(t, u) /\ Owed(t, u)' = Owed(t, u)
  BY <1>1, RestOwes DEF server_vars
<1>3. CASE t = v
  <2>1. \A A \in Seq(Entries) : Told(t, A) => Told(t, A)'
    BY <1>a, <1>3, ToldTaken
  <2> QED
    BY <1>a, <1>2, <2>1, TellsSame
<1>4. CASE t # v
  BY <1>a, <1>1, <1>2, <1>4, TellsRests
<1> QED
  BY <1>3, <1>4

LEMMA UserTells ==
  ASSUME Known, NEW v \in Threads, UserStep(v), shown' = shown,
         NEW t \in Threads, NEW u \in Threads, t # u,
         NEW H \in Seq(Entries), Tells(t, u, H)
  PROVE  Tells(t, u, H)'
<1>a. ServerTypeOK /\ client_name = UserName /\ WireInv
  BY DEF Known, ProtocolInv, ServerInv, WireInv
<1>1. /\ UNCHANGED server_vars /\ place[v] # "gone" /\ to_client' = to_client
      /\ \A w \in Threads \ {v} : place'[w] = place[w]
  BY <1>a DEF UserStep, C!ChooseVersus, C!ChooseQuit, C!EnterMove, C!Send, C!Move, WireInv
<1>2. Follows(t, u)' => Follows(t, u) /\ Owed(t, u)' = Owed(t, u)
  BY <1>1, RestOwes DEF server_vars
<1> QED
  BY <1>a, <1>1, <1>2, TellsRests

LEMMA LeavesTells ==
  ASSUME Known, NEW v \in Threads, Leaves(v), shown' = shown,
         shown \in [Threads -> Seq(Entries)],
         NEW t \in Threads, NEW u \in Threads, t # u,
         NEW H \in Seq(Entries), Tells(t, u, H)
  PROVE  Tells(t, u, H)'
<1>a. ServerTypeOK /\ client_name = UserName /\ WireInv
  BY DEF Known, ProtocolInv, ServerInv, WireInv
<1>1. /\ UNCHANGED <<pc, game_pc, game>> /\ place' = [place EXCEPT ![v] = "gone"]
      /\ to_client' = [to_client EXCEPT ![v] = <<>>]
  BY DEF Leaves, C!Leave, C!Move
<1>2. CASE t = v
  BY <1>a, <1>1, <1>2, TellsLost DEF WireInv, Follows
<1>3. CASE t # v
  <2>1. to_client'[t] = to_client[t] /\ place'[t] = place[t]
    BY <1>a, <1>1, <1>3 DEF WireInv
  <2>2. Follows(t, u)' => Follows(t, u) /\ Owed(t, u)' = Owed(t, u)
    BY <1>1, <2>1, RestOwes
  <2> QED
    BY <1>a, <2>1, <2>2, TellsRests
<1> QED
  BY <1>2, <1>3

(* A fault ends every thread. *)
LEMMA FaultTells ==
  ASSUME Known, NEW v \in Threads, ReadNullMove(v), Quiet, shown' = shown,
         NEW t \in Threads, NEW u \in Threads,
         NEW H \in Seq(Entries), Tells(t, u, H)
  PROVE  Tells(t, u, H)'
<1>a. ServerTypeOK /\ client_name = UserName
  BY DEF Known, ProtocolInv, ServerInv, WireInv
<1>1. ~Follows(t, u)' /\ to_client' = to_client
  BY DEF ReadNullMove, Quiet, wire, Follows, InPlay
<1> QED
  BY <1>a, <1>1, TellsRests

(* A thread returns to the menu when the other one knows of the end, or has
   not begun to look. *)
LEMMA ReturnTells ==
  ASSUME Known, NEW v \in Threads, ReturnToMenu(v), Quiet, UNCHANGED place,
         shown' = shown,
         ~\E w \in Threads : InLoop(w) /\ ~game_has_finished[w],
         NEW t \in Threads, NEW u \in Threads, t # u,
         NEW H \in Seq(Entries), Tells(t, u, H)
  PROVE  Tells(t, u, H)'
<1>a. ServerTypeOK /\ CallInv /\ client_name = UserName
  BY DEF Known, ProtocolInv, ServerInv, WireInv
<1>b. PlaceInv /\ FinishedInv /\ SignalInv /\ "start" \notin departed
  BY DEF Known, TurnsInv
<1>1. /\ pc[v] = "reinit" /\ pc'[v] = "menu" /\ UNCHANGED event
      /\ current_player_move' = NULL
      /\ \A w \in Threads \ {v} :
           /\ pc'[w] = pc[w] /\ game_pc'[w] = game_pc[w] /\ move'[w] = move[w]
           /\ game_has_finished'[w] = game_has_finished[w]
           /\ winner_name'[w] = winner_name[w]
  BY <1>a DEF ReturnToMenu, Reinit, Goto, LeaveCall, ForgetLocals, ServerTypeOK, TypeOK
<1>2. Follows(t, u)' => Follows(t, u) /\ Owed(t, u)' = Owed(t, u)
  <2> SUFFICES ASSUME Follows(t, u)' PROVE Follows(t, u) /\ Owed(t, u)' = Owed(t, u)
    OBVIOUS
  <2>1. t # v /\ u = v /\ InPlay(t)
    BY <1>1, ThreadsAssumption DEF Follows, InPlay
  <2>2. ~HasPublished(u) /\ ~HasPublished(u)'
    BY <1>1, <2>1 DEF HasPublished
  <2>3. Due(t, u)' <=> Due(t, u)
    BY <1>1, <2>1, <2>2 DEF Due
  <2>4. ~Due(t, u) /\ game_pc[t] # "read_ended"
    <3>1. CASE game_pc[t] = "game_loop"
      BY <1>1, <2>1, <2>3, <3>1 DEF Follows, Doomed
    <3>2. CASE game_pc[t] # "game_loop"
      <4>1. event # u
        <5>1. CASE pc[t] = "game_loop"
          BY <1>b, <2>1, <3>2, <5>1 DEF InLoop, SignalInv
        <5>2. CASE pc[t] = "reinit"
          BY <1>b, <2>1, <5>2 DEF PlaceInv, SignalInv
        <5>3. CASE pc[t] = "game_started"
          BY <1>a, <3>2, <5>3 DEF CallInv
        <5> QED
          BY <2>1, <5>1, <5>2, <5>3 DEF InPlay
      <4>2. game_pc[t] \notin {"read_move", "read_ended"}
        <5>1. CASE pc[t] = "game_loop"
          <6>1. game_has_finished[t]
            BY <3>2, <5>1 DEF InLoop
          <6> QED
            BY <1>b, <6>1 DEF FinishedInv
        <5>2. CASE pc[t] = "reinit"
          BY <1>b, <5>2 DEF PlaceInv
        <5>3. CASE pc[t] = "game_started"
          BY <1>a, <3>2, <5>3 DEF CallInv
        <5> QED
          BY <2>1, <5>1, <5>2, <5>3 DEF InPlay
      <4> QED
        BY <2>2, <4>1, <4>2 DEF Due
    <3> QED
      BY <3>1, <3>2
  <2>5. Owed(t, u)' = Owed(t, u)
    BY <1>1, <2>1, <2>3, <2>4 DEF Owed, OwnMove, RivalMove, Winner
  <2> QED
    BY <2>1, <2>4, <2>5 DEF Follows, Doomed
<1> QED
  BY <1>a, <1>2, TellsRests DEF Quiet, wire

(* A game begins with nothing on its way to either client. *)
LEMMA BarrierTells ==
  ASSUME Known, MeetsAtBarrier, StartsAsGameLoop, shown' = [t \in Threads |-> <<>>]
  PROVE  \E K \in Seq(Entries) : \A t, u \in Threads : t # u => Tells(t, u, K)'
<1> SUFFICES ASSUME NEW t \in Threads, NEW u \in Threads PROVE Tells(t, u, <<>>)'
  BY EntriesConcat
<1>1. /\ \A w \in Threads : pc[w] = "barrier" /\ pc'[w] = "game_started"
      /\ UNCHANGED <<game_pc, event>> /\ event = NULL /\ to_client' = to_client
  BY DEF MeetsAtBarrier, MeetAtBarrier, LeaveBarrier, StartsAsGameLoop, game, Quiet, wire
<1>2. game_pc'[t] = "game_loop"
  BY <1>1 DEF Known, ProtocolInv, ServerInv, CallInv
<1>3. ~Due(t, u)'
  BY <1>1, <1>2, NullAssumption DEF Due, HasPublished
<1>4. Owed(t, u)' = <<>>
  <2>1. OwnMove(t)' = <<>> /\ RivalMove(t, u)' = <<>> /\ Winner(t, u)' = <<>>
    BY <1>2, <1>3 DEF OwnMove, RivalMove, Winner
  <2>2. (<<>> \o <<>>) \o <<>> = <<>>
    BY EntriesConcat
  <2> QED
    BY <2>1, <2>2 DEF Owed
<1>5. to_client'[t] = <<>>
  <2>1. to_client[t] \in Seq(Messages) /\ Len(to_client[t]) <= 0
    BY <1>1 DEF Known, ProtocolInv, WireInv, Link, Ahead
  <2>2. to_client[t] = <<>>
    BY <2>1, EmptySeq
  <2> QED
    BY <1>1, <2>2
<1>6. Told(t, <<>>)'
  <2>1. Pending(<<>>, <<>>)
    BY PendingOfNothing
  <2>2. Pending(to_client[t], <<>>)'
    BY <1>5, <2>1 DEF Pending
  <2>3. shown'[t] = <<>> /\ <<>> = <<>> \o <<>> /\ <<>> \in Seq(Entries)
    BY EntriesConcat
  <2> QED
    BY <2>2, <2>3 DEF Told
<1>7. <<>> \in Seq(Entries) /\ <<>> \o <<>> = <<>>
  BY EntriesConcat
<1> QED
  BY <1>4, <1>6, <1>7 DEF Tells

-----------------------------------------------------------------------------
(* The line of moves in every step.                                        *)

LEMMA ShownTypes ==
  ASSUME WireInv, shown \in [Threads -> Seq(Entries)], MCNext
  PROVE  shown' \in [Threads -> Seq(Entries)]
<1>1. CASE shown' = shown
  BY <1>1
<1>2. ASSUME NEW t \in Threads, ClientTakes(t), shown' = [shown EXCEPT ![t] = @ \o ShownNow(t)]
      PROVE  shown' \in [Threads -> Seq(Entries)]
  <2>1. PICK P \in Seq(Entries) : P = ShownNow(t)
    BY <1>2, ShownNowIsNext
  <2>2. shown[t] \o P \in Seq(Entries)
    BY EntriesConcat
  <2>3. shown' = [shown EXCEPT ![t] = shown[t] \o P]
    BY <1>2, <2>1
  <2> QED
    BY <2>2, <2>3
<1>3. <<>> \in Seq(Entries)
  BY EntriesConcat
<1>4. ASSUME NEW t \in Threads, shown' = [shown EXCEPT ![t] = <<>>]
      PROVE  shown' \in [Threads -> Seq(Entries)]
  BY <1>3, <1>4
<1>5. CASE shown' = [t \in Threads |-> <<>>]
  BY <1>3, <1>5
<1> QED
  BY <1>1, <1>2, <1>4, <1>5 DEF MCNext

(* One line for two threads. *)
LEMMA LineOfBoth ==
  ASSUME NEW t \in Threads, NEW u \in Threads, t # u, NEW K, Tells(t, u, K)', Tells(u, t, K)'
  PROVE  \A v, w \in Threads : v # w => Tells(v, w, K)'
BY ThreadsAssumption

LEMMA LineStep ==
  ASSUME Known, MCNext, departed' = {}, shown \in [Threads -> Seq(Entries)],
         NEW H \in Seq(Entries),
         departed = {} => \A t, u \in Threads : t # u => Tells(t, u, H)
  PROVE  \E K \in Seq(Entries) : \A t, u \in Threads : t # u => Tells(t, u, K)'
<1>1. CASE MeetsAtBarrier /\ shown' = [t \in Threads |-> <<>>] /\ departed' = Departures
  <2>1. StartsAsGameLoop
    BY <1>1 DEF MeetsAtBarrier, Departures
  <2> QED
    BY <1>1, <2>1, BarrierTells
<1>2. ASSUME NEW v \in Threads,
             \/ (ThreadStep(v) \/ UserStep(v) \/ Leaves(v)) /\ UNCHANGED shown
             \/ ClientTakes(v) /\ shown' = [shown EXCEPT ![v] = @ \o ShownNow(v)]
             \/ Connects(v) /\ shown' = [shown EXCEPT ![v] = <<>>],
             departed' = departed \cup Departures
      PROVE  \E K \in Seq(Entries) : \A t, u \in Threads : t # u => Tells(t, u, K)'
  <2>1. Departures = {} /\ \A t, u \in Threads : t # u => Tells(t, u, H)
    BY <1>2
  <2>2. CASE PlayStep(v) /\ shown' = shown
    <3>1. PICK u \in Threads : v # u
      BY ThreadsAssumption
    <3>2. WaitForEvent(v) => event # v
      <4> SUFFICES ASSUME WaitForEvent(v), event = v PROVE FALSE
        OBVIOUS
      <4>1. game_pc[v] = "wait" /\ game_pc'[v] = "read_move" /\ pc[v] = "game_loop"
        BY <2>2, NullAssumption
           DEF WaitForEvent, EventIsSet, GameGoto, PlayStep, Known, ProtocolInv, ServerInv,
               ServerTypeOK
      <4>2. "signal" \in Departures
        BY <4>1 DEF Departures, InLoop
      <4> QED
        BY <2>1, <4>2
    <3>3. PICK K \in Seq(Entries) : Tells(v, u, K)' /\ Tells(u, v, K)'
      BY <2>1, <2>2, <3>1, <3>2, PlayTells
    <3> QED
      BY <3>1, <3>3, LineOfBoth
  <2>3. CASE ReturnToMenu(v) /\ Quiet /\ UNCHANGED place /\ shown' = shown
    <3>1. ~\E w \in Threads : InLoop(w) /\ ~game_has_finished[w]
      <4>1. pc[v] = "reinit" /\ pc'[v] = "menu"
        BY <2>3 DEF ReturnToMenu, Reinit, Goto, Known, ProtocolInv, ServerInv, ServerTypeOK,
                    TypeOK
      <4> QED
        BY <2>1, <4>1 DEF Departures
    <3> QED
      BY <2>1, <2>3, <3>1, ReturnTells
  <2>4. CASE MenuStep(v) /\ shown' = shown
    BY <2>1, <2>4, MenuTells
  <2>5. CASE ReadNullMove(v) /\ Quiet /\ shown' = shown
    BY <2>1, <2>5, FaultTells
  <2>6. CASE (UserStep(v) \/ Leaves(v)) /\ shown' = shown
    BY <2>1, <2>6, UserTells, LeavesTells
  <2>7. CASE ClientTakes(v) /\ shown' = [shown EXCEPT ![v] = @ \o ShownNow(v)]
    BY <2>1, <2>7, ClientTells
  <2>8. CASE Connects(v) /\ shown' = [shown EXCEPT ![v] = <<>>]
    BY <2>1, <2>8, ConnectsTells
  <2> QED
    BY <1>2, <2>2, <2>3, <2>4, <2>5, <2>6, <2>7, <2>8 DEF ThreadStep
<1> QED
  BY <1>1, <1>2 DEF MCNext

SameGameInv == ProtocolInv /\ TurnsInv /\ ShownInv

LEMMA SameGameInit == MCInit => SameGameInv
<1> SUFFICES ASSUME MCInit PROVE SameGameInv
  OBVIOUS
<1>1. /\ \A t \in Threads : pc[t] = "exited" /\ to_client[t] = <<>>
      /\ shown = [t \in Threads |-> <<>>]
  BY DEF MCInit, PInit, ServerInit, Init
<1>2. <<>> \in Seq(Entries) /\ <<>> \o <<>> = <<>>
  BY EntriesConcat
<1>3. ASSUME NEW t \in Threads, NEW u \in Threads PROVE Tells(t, u, <<>>)
  <2>1. Told(t, <<>>)
    BY <1>1, <1>2, PendingOfNothing DEF Told
  <2> QED
    BY <1>1, <1>2, <2>1 DEF Tells, Follows, InPlay
<1>4. ShownInv
  BY <1>1, <1>2, <1>3 DEF ShownInv
<1> QED
  BY <1>4, ProtocolInit, TurnsInit DEF SameGameInv

LEMMA TurnsStep ==
  ASSUME ProtocolInv, ProtocolInv', TurnsInv, InContract, [MCNext]_mcvars PROVE TurnsInv'
<1>1. CASE "start" \notin departed /\ Step
  BY <1>1, PlaceStep, FinishedStep, AloneStep, SignalStep DEF ProtocolInv, TurnsInv
<1>2. CASE UNCHANGED <<allvars, departed>>
  BY <1>2 DEF allvars, server_vars, session, game, shared, locals, TurnsInv, PlaceInv,
              FinishedInv, AloneInv, SignalInv, InPlay, HasTurn
<1> QED
  BY <1>1, <1>2, StepOfRun

LEMMA ShownStep ==
  ASSUME ProtocolInv, TurnsInv, ShownInv, InContract, [MCNext]_mcvars PROVE ShownInv'
<1>1. CASE MCNext
  <2>1. Known /\ WireInv /\ shown \in [Threads -> Seq(Entries)]
    BY DEF InContract, Known, ProtocolInv, ShownInv
  <2>2. PICK H \in Seq(Entries) :
          departed = {} => \A t, u \in Threads : t # u => Tells(t, u, H)
    BY EntriesConcat DEF ShownInv
  <2>3. shown' \in [Threads -> Seq(Entries)]
    BY <1>1, <2>1, ShownTypes
  <2>4. departed' = {} =>
          \E K \in Seq(Entries) : \A t, u \in Threads : t # u => Tells(t, u, K)'
    BY <1>1, <2>1, <2>2, LineStep
  <2> QED
    BY <2>3, <2>4 DEF ShownInv
<1>2. CASE UNCHANGED mcvars
  <2>1. ServerTypeOK /\ client_name = UserName
    BY DEF ProtocolInv, ServerInv, WireInv
  <2>2. UNCHANGED <<pc, game_pc, game, place, to_client, shown, departed>>
    BY <1>2 DEF mcvars, allvars, server_vars, wire
  <2>3. ASSUME NEW t \in Threads, NEW u \in Threads, NEW H \in Seq(Entries), Tells(t, u, H)
        PROVE  Tells(t, u, H)'
    BY <2>1, <2>2, <2>3, RestOwes, TellsRests
  <2> QED
    BY <2>2, <2>3 DEF ShownInv
<1> QED
  BY <1>1, <1>2

LEMMA SameGameInductive ==
  ASSUME DifferentNames PROVE MCSpec => [](InContract => SameGameInv)
<1>1. ASSUME SameGameInv, InContract, [MCNext]_<<allvars, departed, shown>> PROVE SameGameInv'
  <2>1. ProtocolInv /\ TurnsInv /\ ShownInv /\ [MCNext]_mcvars
    BY <1>1 DEF SameGameInv, mcvars
  <2> QED
    BY <1>1, <2>1, ProtocolStep, TurnsStep, ShownStep DEF SameGameInv
<1>2. [MCNext]_<<allvars, departed, shown>> /\ InContract' => InContract
  BY ContractIsKept DEF mcvars
<1> QED
  BY <1>1, <1>2, SameGameInit, PTL DEF MCSpec

(* Two beginnings of one line. *)
LEMMA ShorterIsPrefix ==
  ASSUME NEW s \in Seq(Entries), NEW r \in Seq(Entries),
         NEW x \in Seq(Entries), NEW y \in Seq(Entries),
         s \o x = r \o y, Len(s) <= Len(r)
  PROVE  IsPrefix(s, r)
<1>1. Len(s) \in Nat /\ Len(r) \in Nat
  BY LenProperties
<1>2. CASE Len(s) = 0
  BY <1>1, <1>2, SubSeqEmpty DEF IsPrefix
<1>3. CASE Len(s) # 0
  <2>1. 1 \in 1..Len(s) /\ Len(s) \in 1..Len(s) /\ 1 \in 1..Len(r) /\ Len(s) \in 1..Len(r)
    BY <1>1, <1>3
  <2>2. SubSeq(s \o x, 1, Len(s)) = SubSeq(s, 1, Len(s))
    BY <2>1, SubSeqOfConcat1
  <2>3. SubSeq(r \o y, 1, Len(s)) = SubSeq(r, 1, Len(s))
    BY <2>1, SubSeqOfConcat1
  <2> QED
    BY <2>2, <2>3 DEF IsPrefix
<1> QED
  BY <1>2, <1>3

(* SameGameShown of MCProtocol: what one user has been shown is the beginning
   of what the other one has been shown, as long as the threads are together
   in what they read (Departures). *)
THEOREM BothUsersSeeOneGame ==
  ASSUME DifferentNames PROVE MCSpec => []SameGameShown
<1>1. ASSUME SameGameInv, departed = {}, NEW t \in Threads, NEW u \in Threads
      PROVE  IsPrefix(shown[t], shown[u]) \/ IsPrefix(shown[u], shown[t])
  <2>1. shown[t] \in Seq(Entries) /\ shown[u] \in Seq(Entries)
    BY <1>1 DEF SameGameInv, ShownInv
  <2>2. Len(shown[t]) \in Nat /\ Len(shown[u]) \in Nat
    BY <2>1, LenProperties
  <2>3. CASE t = u
    BY <2>2, <2>3 DEF IsPrefix
  <2>4. CASE t # u
    <3>1. PICK H \in Seq(Entries) : Tells(t, u, H) /\ Tells(u, t, H)
      BY <1>1, <2>4 DEF SameGameInv, ShownInv
    <3>2. ASSUME NEW v \in {t, u}, NEW w \in {t, u}, Tells(v, w, H)
          PROVE  \E x \in Seq(Entries) : shown[v] \o x = H
      <4>1. PICK A \in Seq(Entries), R \in Seq(Entries) : Told(v, A) /\ A \o R = H
        BY <3>2 DEF Tells
      <4>2. PICK P \in Seq(Entries) : A = shown[v] \o P
        BY <4>1 DEF Told
      <4>3. P \o R \in Seq(Entries) /\ (shown[v] \o P) \o R = shown[v] \o (P \o R)
        <5>1. shown[v] \in Seq(Entries) /\ P \in Seq(Entries) /\ R \in Seq(Entries)
          BY <2>1, <4>1, <4>2
        <5>2. P \o R \in Seq(Entries)
          BY <5>1, EntriesConcat
        <5> QED
          BY <5>1, <5>2, EntriesAssociate
      <4> QED
        BY <4>1, <4>2, <4>3
    <3>3. PICK x \in Seq(Entries), y \in Seq(Entries) :
            shown[t] \o x = H /\ shown[u] \o y = H
      BY <3>1, <3>2
    <3>4. shown[t] \o x = shown[u] \o y
      BY <3>3
    <3>5. CASE Len(shown[t]) <= Len(shown[u])
      BY <2>1, <3>3, <3>4, <3>5, ShorterIsPrefix
    <3>6. CASE Len(shown[u]) <= Len(shown[t])
      BY <2>1, <3>3, <3>4, <3>6, ShorterIsPrefix
    <3> QED
      BY <2>2, <3>5, <3>6
  <2> QED
    BY <2>3, <2>4
<1>2. (InContract => SameGameInv) => SameGameShown
  BY <1>1 DEF SameGameShown, InContract
<1> QED
  BY <1>2, SameGameInductive, PTL
=============================================================================
