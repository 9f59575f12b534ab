# 7-boom over Winsock: a TLA+ model

7-boom is a game for two clients over a server. The players count in turns;
a number that is a multiple of 7 or shows the digit 7 must be replaced by the
word *boom*; whoever says something else than what is due loses. The server
has a main thread that accepts connections, a thread that reads the console
for `exit`, and one *service thread* for each of two slots. The two service
threads share one struct and four synchronisation objects.

This directory holds TLA+ modules that model the server, its clients and what
is between them, TLC configurations that check them, and proofs that TLAPS
checks.

## The system

| part | code | state | operations | talks to |
|---|---|---|---|---|
| rules of the game | `server_game_loop.c`: `containsDigit`, `check_if_move_has_finished_the_game` | none | judge a move | game loop |
| game loop | `server_game_loop.c`: `server_game_loop`, `while_game_is_Stil_on` | `game_number`, `game_has_ended`, `current_player_move`; the event; the locals of each thread | ask for a move, judge, record, signal; wait, read, show | its client (TURN_SWITCH, SERVER_MOVE_REQUEST, GAME_VIEW, GAME_ENDED), the other thread (event, shared struct) |
| matchmaking | `service_thread.c` | `first_arrived`, `num_of_players_ready_to_play`, `player_1_name`, `player_2_name`; two mutexes, a barrier | approve, menu, arrive, sleep, look at the count, give up, meet, reset | its client, the other thread |
| acceptor | `server/main.c`, `find_index_of_unused_thread` | `ThreadHandles`, `ThreadInputs`, the listening socket | accept, find a slot, create a thread, deny, exit, clean up | service threads (a pointer to the slot), the console thread (the listening socket) |
| messages | `Share/socket_send_recv.c` | the message being sent or received | format, send in parts, receive byte by byte, parse | every socket, the log |
| client | `client/main.c` | its socket, its name, where it is in the protocol | connect, reconnect, menu, play | the server |
| log files | `Share/file_IO.c` | one file per program and client name, an offset per session | open, write at the offset, close | whoever logs to the same file |

What makes this hard to test:

* **Single-field critical sections.** `read_write_common_resources_protected`
  holds `ghMutex` for one field only. A turn is seven critical sections, and
  only the event orders the two threads.
* **One event for both directions.** The thread that sets the auto-reset event
  may be the next to wait for it.
* **A count that is kept by hand**: up with each VERSUS, down with each
  give-up, to zero with each return from a game. Threads that end in between,
  and resets that come late, make it wrong.
* **A barrier** that can be left only in pairs, entered after a look at that
  count.
* **Ending in the middle**: any send or receive may fail and end the thread,
  also while it owns a mutex.
* **Slots that are reused** while threads end, and a console thread that
  closes the socket under `accept()`.
* **A protocol in which neither side looks at the message types**: what comes
  next is taken for what was expected.
* **Offsets and files that sessions share by name**, opened for every write.

PROJECT.json lists each of them, at its line, under "hazards".

## The modules

    BoomRules          the rules, as operators
      BoomGame         one game, without threads       (abstract)
    WorkerThread       what every service thread has
      GameLoop         one game in two threads         MCGameLoop, GameLoopProofs
      Matchmaking      how two threads find each other MCMatchmaking, MatchmakingProofs
        TimedMatchmaking   and how long it takes       TimedMatchmakingProofs
        ServiceThreads   both, over one struct         MCServiceThreads, RegularGameProofs,
                                                       ServiceThreadsProofs
          Protocol     and the clients: with Client    MCProtocol, ProtocolProofs
    Client             a client in the menu and the game
    Acceptor           the main thread, its slots,     AcceptorProofs
                       clients that connect
    MessageChannel     what a connection promises      (abstract)
    MessageTransfer    how messages are made of bytes  MCMessageTransfer
    LogFile            the log files                   MCLogFile, LogFileProofs

**BoomRules** has `containsDigit`, `ShouldGuessBoom` and `MoveLoses`, the
decision of `check_if_move_has_finished_the_game`. A move is `Boom` or the
value that `strtol` gives the string. The loop of `containsDigit` is a
recursive function, so that proofs can use the module.

**BoomGame** is what a game promises its players: right moves count up, the
first wrong one ends the game, each player still there is told one winner.
That turns alternate is no part of it, since the code does not promise it.

**WorkerThread** declares the connection and the values
a thread keeps for its session. `ClientLeaves` is the client going away;
`ConnectionError` is a send or receive that fails, which ends the thread. A
receive from a client that is gone always fails. A send may still succeed,
because TCP buffers it.

**GameLoop** is `server_game_loop()` in both threads. There is one action for
each message and each access to the shared struct; the names of the program
places (`game_pc`) say what comes next. The mover goes through `AskForMove`, `RecvMove`,
`ReadNumber`, `PublishMove`, `JudgeMove`, `RecordVerdict`, `AdvanceNumber`,
`SignalTurn` and `SendView`, the waiter through `AnnounceOther`,
`WaitForEvent`, `ReadMove`, `ReadEnded` and `SendOtherView`. `event` is NULL or
the thread that signalled it; the code sees only whether it is NULL. Its
`GameInit` is the state in which the threads leave the barrier with different
numbers: the contract of `server_game_loop()`. Either client may be gone by
then. What happens when that contract is broken is in ServiceThreads.

**Matchmaking** is the rest of `service_thread.c`, with the place `pc` of each
thread in it: `Approve`, `SendMenu`,
`RecvVersus`, `RecvDisconnect`, `Arrive`, `ReadReady`, `WakeUp`, `CheckReady`,
`SendNoOpponents`, `DecreaseReady`, `ResetFirstArrived`, `LeaveBarrier`,
`StartGame` and `Reinit`, with the failures `RequestFails`, `SocketFails`,
`NoOpponentsFails`, `GameFails` and `FailAbandoned`. A game is one step. This
is also the abstract specification of the whole server: it promises how
threads meet, wait, give up and come back, whatever happens in games.

`sync_owner` and `sync_abandoned` are the mutex
`mutex_to_sync_threads_when_waiting_for_players`. A thread that ends as its
owner abandons it; the next wait returns WAIT_ABANDONED, which the code takes
for a failure. `ghMutex` has no variable: it is held only inside a step.

**ServiceThreads** extends the two, which share the variables of WorkerThread
only. Each action is a step of one of them that leaves the variables of the
other one unchanged; `ReturnToMenu` is the whole of
`initialize_share_resources_to_zero()`. While a thread is in
`server_game_loop()` (`LoopStep`), its `game_pc` goes from step to step and its
`pc` stays at "game_loop"; a call that returns moves `pc` on. Threads leave
games one by one, so one of them may be in the queue again while the other one
is still reading the last move. `ImplementsMatchmaking` is the `Spec` of
Matchmaking, and the mapping the identity: a step inside of a call is a stutter
of Matchmaking, and a return is `PlayGame` or `GameFails`.

**TimedMatchmaking** adds how long each client has waited for the answer to
CLIENT_VERSUS. Time passes only while all threads wait (for a client, in the
sleep, for the mutex, at the barrier).

**Client** is `client/main.c` from its connection on: a place for each message
it waits for and for each question to its user. Its variables do not outlive a
message. **Protocol** joins it to ServiceThreads: each step of a service thread
that sends or receives does so on the two queues of its connection, with the
parameters that the threads take from messages (the name, the move) and the
clients look at (whose turn, END or CONT). A send to a client that has gone is
lost. Its properties are in **MCProtocol**, with the histories that they are
stated over (`departed`, `shown`).

**MessageTransfer** is `socket_send_recv.c`: one direction of a connection as
a sequence of symbols, of which a send or a receive moves any part.
`format_communication_message` and `extract_parameters` are the conversions of
the code. **MessageChannel** is what Protocol's queues take for granted, and
MessageTransfer implements it.

**LogFile** is `WinWriteToFile()` and its callers: a log entry is two pieces,
each an open without sharing, a write at the session's offset and a close.

**Acceptor** is `server/main.c`: startup, the accept loop, the polling of the
handles slot by slot, the denial, the exit thread and the cleanup.
Arrays that have not been written hold UNINIT, and the cleanup may take
either branch on it. A service thread is three places (created, serving,
ended), the socket it copied through its pointer, and its approval. Clients
connect, send CLIENT_REQUEST, wait for the answer and may try again
(`establish_a_connection_with_server`, `reconnect_or_exit`).

## What is checked

Every property below has at least one mutant of the code (operators marked
"mutant" beside the definition they change) under which TLC finds it violated.

| run | what it shows |
|---|---|
| game_loop | `BoardExclusive`: the two threads never work on the game state at once. `NumberNotStale`: the read-modify-write of `game_number` loses nothing. `ViewTruthful`, `WinnerAgreement`: move, verdict and winner shown to both clients fit together. `HandsBackClean`: no signal is left over. `NumberFollowsMoves`: the number advances for right moves only. `ImplementsBoomGame`: all of it amounts to one BoomGame. `JudgeAgrees`: exactly one move survives each number from 1 to 800, the one the rules name. `GameEndsForBoth`: with clients that stay, both threads come out of the game. |
| matchmaking | `BarrierNeverStranded`: a thread at the barrier is always followed by the other one. `SomeoneMovesFirst`: two players are never both number 2, which would deadlock the game. `NamesPosted`: the names in the struct are those of the players. `ReadyAreSeen`: of two threads that are both ready, the one that looks at the count reads two, unless a game has left the count wrong in one of two ways (`miscounted`). `VersusAnswered`: no VERSUS is left as it is: its thread starts a game, is back in the menu, or ends. |
| matchmaking_timed | `AnsweredInTime`: within one sleep of 15 seconds after a VERSUS its answer comes or its thread ends (at an abandoned mutex, without an answer), whatever the other client does; clients wait for 30. |
| service_threads | `ImplementsMatchmaking`: the server with its games in full implements Matchmaking. `OpponentNamed`: the opponent shown is the one played against. `GameStartsClean`: as long as nobody leaves in the middle of a game, the next one starts from clean resources, however late a thread came out of the former one. `EventStartsClear`: so does the event, which is never reset, if former games were between different numbers and seen to their end. |
| protocol | Of clients with different names, in games that start in the contract of `server_game_loop()` (`InContract`): `InStep`: each side is sent what it takes the next message for. `NeverBothWaiting`: a client and its thread never wait for each other. `OneUserMoves`: the two clients never both take it for their turn. `SameGameShown`: moves and winner shown to one user are the beginning of those shown to the other, unless their game has departed from its promise in one of three ways (`departed`). |
| acceptor | `SocketsAreOwned`, `HandlesAreKept`: no thread's socket is given away and no thread is lost, while threads end between polls. `DeniedOnlyWhenFull`. `MenuMeansApproved`: trying again never leads a client past the approval. `RequestAnswered`, `ExitEndsServer`: progress of the main thread. |
| messages | `ImplementsChannel`: whatever parts bytes travel in, messages arrive whole, in order and as they were sent. `MessagesArrive`, `CloseIsNoticed`: and they do arrive, or the receiver fails. |
| log_file | `LogIsKept`: a session that had its file to itself finds all it has logged there, without a gap. `EndedBySharingOnly`: logging ends a process only when two threads, or two clients, have one file at one time. |

Four runs show that the code does something else than a comment or a
declaration says; PROJECT.json quotes each line.

| run | what TLC finds |
|---|---|
| game_loop_survivor | SERVER_OPPONENT_QUIT is never sent: when one thread ends, the other one waits for ever. |
| matchmaking_roles | Two players can both be number 1: giving up resets `first_arrived` although the other one has arrived. |
| service_threads_ends | "game ended for both clients!": the mover may set the resources to zero before the waiter has read them, which then reads a NULL move. |
| acceptor_serves | The server ends without `exit` when a client that is to be denied says nothing. |

### Known departures

The models contain these behaviours; the properties above say what holds in
spite of them.

* A mover may reach its own wait before the other thread does, and consumes
  its own signal ("signal to the other thread that is waiting",
  `server_game_loop.c:152`). It shows its client its own move as the
  opponent's and takes another turn. BoomGame still holds;
  `SameGameShown` does not in such a game (`departed` in MCProtocol).
* Threads that end in a game stay in the count of ready players
  (`service_thread.c:500`), and a thread that is late out of a game sets to
  zero a count in which the other one has registered again, which then goes
  to -1. `ReadyAreSeen` names these two ways as its exception, and there is no
  other one. Once they have happened and nobody is in a game any more, no game
  starts until the server is started again: the count is off by 2 or by -1
  (`CountInv` below) and a thread that looks is counted itself, so it reads
  three or more, or one at most.
* Two players number 1 (matchmaking_roles) are both asked for the first move,
  and both look for their opponent in `player_2_name`, which may be their own
  name. The properties of Protocol name such a game as their exception
  (`InContract`).
* A SERVER_NO_OPPONENTS that cannot be sent abandons the mutex. From then on
  clients that want to play are dropped as "disconnected"
  (`service_thread.c:91`). `VersusAnswered` and `AnsweredInTime` allow for
  that: they are about threads that wait, and count such an end as an end of
  the waiting.
* A thread that arrives while the other one is giving up reads a count of two,
  does not sleep, and is refused at once.
* A client that was denied and tries again calls `connect()` on a socket that
  has been connected, which fails every time. If it did not, the client would
  go to the menu without a CLIENT_REQUEST (`client/main.c:194-204`):
  `MenuMeansApproved` rests on that failure.
* A connection that closes in the middle of a message makes the receiver loop
  for ever on `recv()` returning 0. Between two messages it ends by
  `realloc()` to size 0 returning NULL, as in Microsoft's library.
  `CloseIsNoticed` says exactly this much.
* A `;` in a parameter splits it in two on the way; `MessagesAssumption`
  excludes it. The empty line counts as a number for the client, and an empty
  parameter arrives as it was sent.
* In the menu, anything else than 1 or 2 makes the client free pointers it
  has not written (`client/main.c:294`). In Client that is `Leave`, or nothing.
* Two clients of one name: each takes TURN_SWITCH for its own turn, and waits
  for a SERVER_MOVE_REQUEST that does not come. `InStep` and `OneUserMoves`
  fail for them, and the protocol run gives them different names. Their threads write to one log
  file, overwrite each other, and end the server by `exit(1)` when both open it
  at once; `LogIsKept` and `EndedBySharingOnly` name this exception.
* A log is not truncated: behind a session's log the end of an older, longer
  one stays.

### Bounds

* Two threads, two names (which may coincide): the server has two slots.
* GameLoop (game_loop): the moves are boom and 0 to 9, BOOM_NUMBER is 7 and `Limit` = 8.
  So a game passes its first boom and the number after it, each move may be
  right, wrong, a boom too early or a boom missed, and both players get every
  role. At `Limit` only losing moves are made, which keeps the number finite.
* ServiceThreads: BOOM_NUMBER = 2 and `Limit` = 1, so that each player gets
  to move and the second number is a boom already. `Threads` and `Names` are
  symmetric. `MCServiceThreads` adds the history `spoilt` for
  `GameStartsClean` and `EventStartsClear`: "left" when a thread has ended in
  the middle of a game, "apart" when it has ended instead of starting one, when
  two players of one number have met, or when a thread has set the resources
  to zero before the other one knew that the game was over.
* Matchmaking: new clients come while the count is at most `MaxReady` (4 in
  its own runs, 3 with time, 2 in the composed ones). Nothing else bounds the
  number of sessions; above 2 every count behaves alike.
* TimedMatchmaking: WAIT_FOR_RESPONSE is 3 units, so that arrivals fall on the
  beginning, the middle and the end of a sleep. One name: names make no
  difference to time.
* Protocol: as ServiceThreads, with the names alice and bob. The first
  game that starts outside of the contract of `server_game_loop()` (two
  players of one number, or resources that are not clean) is played to its
  end, and after it no thread goes back to the menu and no new client comes
  (`ServerGoesOn`). The properties name these games as their exception
  (`InContract`). Each connection can be replaced by a new client any number
  of times.
* Acceptor: three connections over two slots, so that a slot is reused, and
  a client is denied; `acceptor_serves` has four. The number of slots is a
  parameter.
* MessageTransfer: three messages of four shapes (no parameter, one, an empty
  one, three), cut anywhere. A receiver that were given more than one byte would
  fail at the second.
* LogFile: two threads and a client, two names, three sessions, so that files
  are shared, used again, and used by both programs; a session logs until its
  offset is `MaxOffset` (2), pieces being 1 or 2 long. Threads, clients and
  names are symmetric.

Deadlock is checked for Acceptor and TimedMatchmaking. Elsewhere it is off,
since the code really
stops: after a survivor's infinite wait, when the process has ended, and, in
the models, at their bounds. `GameEndsForBoth` and `VersusAnswered` say
where a stop would be wrong.

### Fairness

* GameLoop: weak fairness of each thread's steps. The scheduler runs every
  thread that can run. A client that is asked for a move answers, or goes
  away, in which case the receive fails; `RecvMove` waits for it without a
  timeout.
* Matchmaking: weak fairness of what a thread does by itself, and of leaving
  the barrier. Strong fairness of taking the mutex, since Windows queues the
  waiters of a mutex. Choosing in the menu, leaving, and the end of a game are
  under no obligation: users may take any time.
* Acceptor: weak fairness of the main thread, whose receives time out. Threads
  that have been created start and approve clients that ask; what has been sent
  arrives, and a client notices that its connection is closed. Connecting,
  asking, leaving, and the console are under no obligation.
* MessageTransfer: weak fairness of sending what has been begun, of receiving
  what has arrived, and of noticing the end of a connection. Timeouts may
  strike or not.
* LogFile, Protocol and TimedMatchmaking have safety properties only.

### Assumptions about the environment

Waits, mutex and event operations and `malloc` succeed, and in all modules but
LogFile log writes do, with two
exceptions that the models have: the wait for an abandoned mutex, and the
reading of a NULL move, which is a fault that ends the process
(`ReadNullMove` of ServiceThreads). The end of the process for any other reason is
`ServerStops`. `SetEvent` hands the signal to a thread that already waits.
TCP keeps the order of bytes. A message arrives whole or not at all, as
MessageTransfer shows.

## What is proved

TLAPS checks the proofs for every set of names and moves, every digit of the
rules, every bound, and any choice of the clients that leave. That there are
two threads is an assumption of the game and the matchmaking
(`ThreadsAssumption`), whose struct has two names; the acceptor is proved for
any number of slots (`SlotsAssumption`) and any set of clients, the log files
for any number of writers. A proof module extends the module it is about and
the proofs it builds on, so an invariant proved of a component is cited
by name where components are composed.

**GameLoopProofs** proves `GameTypeOK`, `BoardExclusive`, `NumberNotStale`,
`ViewTruthful`, `WinnerAgreement`, `HandsBackClean` and `NumberFollowsMoves`.
None of them is inductive. The invariant is `LoopInv`:

* `TurnInv`: the turn is one token. It is in the hands of one thread, or in
  the signalled event, and never in two places. It does not say whose turn is
  next, so it also covers a thread that consumes its own signal.
* `NextTurnInv`: `my_client_turn` already says who is next from the moment
  a waiter waits or a mover has signalled.
* `BoardInv`: what a thread with the turn has read so far is what the shared
  resources hold, and a signalled event carries a verdict that fits the move.
* `PlayersInv`: the players have different numbers and each other's names.
* `EndInv`: after a losing move nobody takes the turn again; one thread
  leaves as the loser and one as the winner, and the last signal is consumed
  before the winner leaves.

Each part is proved by one step per action.

From the same invariant it proves that GameLoop implements BoomGame
(`ImplementsBoomGame`). The mapping reads the shared struct: the last
move is `current_player_move`, the winner a player was told is its
`winner_name`. Publishing a move is `Move`, recording a verdict `WrongMove`,
advancing the number `RightMove`; the return from the last GAME_VIEW is
`Announce`, and a failing socket `Leave`. Every other step is a stutter.
`BoardInv` gives that the verdict a thread is about to record, or the number it
is about to write, is that of the move that is published; `EndInv` that nobody
is told another winner.

`JudgementIsRight` is about the rules alone: at every number that an int can
hold, and for every digit of the rules, `MoveLoses` lets exactly one move
survive, the one that `RightMoveFor` names by place value. An int has at most
ten digits, so the loop of `containsDigit` is unrolled ten times and no
induction is needed. `JudgeAgrees`, which the run evaluates at the first 800
numbers, is an instance of it (`JudgeAlwaysAgrees`).

**MatchmakingProofs** proves `TypeOK`, `BarrierNeverStranded`,
`SomeoneMovesFirst` and `NamesPosted`. The count is not the number of waiting players, and a
proof that it were would fail. `CountInv` instead bounds the difference
(`Surplus`): outside of games it is -1, 0 or 2 and never 1. So a thread that
reads two is either one of two threads that are counted, or both are in a
game and nobody reads. `MutexInv` keeps a thread that gives up from leaving
the count while the other one looks. `FirstInv` follows the owner of
`first_arrived` while the count is exact: of two counted threads, one is
number 1. `NamesInv` says where a counted player's name is: in the struct
under its number, or written over by the other thread, which came first as
well. In that case that thread still owns `first_arrived` as number 1, or
nobody does and the next arrival is number 1 again; so two players with
different numbers never meet with a name overwritten.

**AcceptorProofs** proves `TypeOK`, `SocketsAreOwned`, `HandlesAreKept`,
`DeniedOnlyWhenFull` and `MenuMeansApproved`. `main()` acts on a slot or a
socket that it looked at some steps before, while threads go on. `MainInv` has
what it still may rely on: the socket it has accepted, the slot it found empty,
and that every slot it has passed was taken. `OwnerInv` says that the socket
of a running thread has been accepted, so it is none of those still to come,
and `UsedInv` that a client past `connect()` is none of those either.
`StartInv` has that no thread runs before the accept loop, and that the
handles are initialised in it.

**ServiceThreadsProofs** proves that ServiceThreads implements Matchmaking
(`ImplementsMatchmaking`), `ServerTypeOK`, `OpponentNamed`, and, of the whole
server, `BarrierNeverStranded`. It extends MatchmakingProofs and GameLoopProofs:
once a step of the server is known to be one of Matchmaking, the invariants
proved there carry over. The refinement needs `CallInv`: a thread is in
`server_game_loop()` exactly while `pc` says so, and a call begins at its
beginning. Then only `GameSocketFails` ends it with an error, which is `GameFails`.
`OpponentInv` has that two players in a game with different numbers find their
own names in the struct (`NamesPosted` at the barrier, and nobody posts a name
while both are in a game), so who has read the other's name has read the right
one, even if the other one ends right after.

**RegularGameProofs** proves `GameStartsClean` and `EventStartsClear` of
MCServiceThreads, and that `BoardExclusive`, `NumberNotStale` and
`ViewTruthful` hold of every game up to the first irregular one (`spoilt` =
"no"), one after the other over one struct and one event that nobody resets.
It extends GameLoopProofs, and takes from there that a thread that knows that
its game is over does not go back to the turn (`FinishedInv`). `CleanInv`: the
resources are those of a new game unless somebody is in a game or about to set
them to zero. `TogetherInv`: while both are in one regular game, the `TurnInv`,
`NextTurnInv`, `BoardInv` and `EndInv` of GameLoopProofs hold of it. `ApartInv`: once one of them has left it, the event is clear, and the other one
has nothing left but to tell its client. The event is clear because `EndInv`
has the last signal consumed before the winner leaves, and with both out of the
turn (`FinishedInv`) one of the two is the winner.

**TimedMatchmakingProofs** proves `AnsweredInTime` for every
`WAIT_FOR_RESPONSE`. Its `TimeInv` bounds the wait of every place by one sleep.
Three things keep a second wait from coming on top of the first: the owner of
the mutex never waits (`OwnerInv`); a thread at the barrier waits for one that
went to sleep before it (`BarrierNeverStranded` of Matchmaking); and two
threads that have both slept never read a count of two.

**LogFileProofs** proves `TypeOK`, `LogIsKept` and `EndedBySharingOnly` for any
number of threads, clients, names and sessions. `OpenInv`: a file is open only
to the one writer that is between `CreateFile` and `CloseHandle` on it, so a
failing open means that another writer is there. `AloneInv`: who has not shared
its file shares it with no running session. `KeptInv`: what such a session
has logged is the beginning of its file, and its offset is the length of it,
or short of it by the one piece that has been written and not yet counted.

**ProtocolProofs** proves `WireTypeOK`, `InStep`, `NeverBothWaiting`,
`OneUserMoves` and `SameGameShown` of the two clients on the whole server, for
any moves, any number of games and sessions, and clients that leave at any
moment. It extends ServiceThreadsProofs, and so has the invariants of the
server to build on.
None of them is inductive: the server sends up to five messages that its
client has not read, and whether the next one is the right one depends on all
of them. `WireInv` therefore follows the client through what is on its way to
it (`Path`): taking these messages one by one, it comes to the place where the
server, by its own place, believes it to be (`Aim`). A send of the server
prolongs the path at its end (`PathGrows`), a message that the client takes
shortens it at its beginning (`PathShrinks`), and an answer of the client is
sent at its end only, when nothing is left on the way. How the path goes on
depends on what is sent, since a client takes its turn from a name and the end
of a game from a parameter:

* `RivalInv`: each thread names the other client as its opponent, so a
  TURN_SWITCH sends exactly the right client to its own move.
* `NextTurnInv` of GameLoopProofs: the name in TURN_SWITCH is that of the
  thread that goes on to receive the move.
* `TokenInv`, `MoverInv`: while both threads are in a game its turn is one token
  (`TokenInv` is the `TurnInv`, `BoardInv` and `EndInv` of GameLoopProofs), so
  only one of them waits for a move, and only the client of that one can be
  asked for it.

`SameGameShown` compares what two users have read, and the two may be several
messages apart from each other and from their threads; one may have left, with
the other still being told. Its invariant (`SameGameInv`) says where the
rest of the game is. There is one line of moves, with the winner at its end
(`ShownInv`), and for each user it is put together of three parts:

* what the user has been shown (`shown`);
* what the messages on their way will show (`Pending`; with the first part,
  `Told`);
* what the thread still owes the client, which follows from its place and the
  shared resources alone (`Owed`): its own move between publishing and
  GAME_VIEW, the rival's move from the moment it is published (`Due`), and the
  winner from the moment the verdict is recorded.

Only a step that publishes a move or records a losing verdict makes the line
longer, and it does so for both users at once; every other step moves an
entry from one part to the next. So each user has been shown a beginning of one
line, and of two beginnings of one line the shorter is the beginning of the
longer. A thread that has ended, or whose client has gone, owes nothing any
more: its part of the line stays where it is. The same holds for a thread that
will find the move set to NULL (`Doomed`), since reading it ends the process.

`TurnsInv` has what is needed of the places of the threads, also while only one
of them is still in the game, where `TokenInv` says nothing: the signal of the
rival finds a thread before its own wait or in it (`SignalInv`), the event is
clear while a thread whose rival has ended has the turn (`AloneInv`), and a
thread that knows of the end does not go back to the turn (`FinishedInv`). A
rival that returns to the menu sets the resources to zero; that this changes
nothing of what a thread owes is where `departed` = {} is needed: without
"reset" that thread has read the verdict before, without "signal" its last
move was not its own.

The exceptions are in the properties: each says what holds `InContract`,
before any game has started outside of the contract of `server_game_loop()`.
What is inductive is therefore `ContractInv`, the invariant under that
condition, with `ContractIsKept` (who is out of contract stays out) and
`PlacesStep` for what holds without it. `OneUserMoves` is about clients that
wait for SERVER_MOVE_REQUEST as well as those that ask their users: from both
places the rest of the path ends with the thread at its own turn
(`OwnTurnEnds`), which `MoverInv` gives to one thread only. The theorems assume
`DifferentNames`: that the two clients have different names. The server does
not see to that, and with equal names `InStep` and `OneUserMoves` do not hold
(see Known departures).

### Only model-checked

* The liveness properties (`GameEndsForBoth`, `VersusAnswered`,
  `RequestAnswered`, `ExitEndsServer`, `MessagesArrive`, `CloseIsNoticed`): the
  prover does no ENABLED.
* `ImplementsChannel`: it needs to know what parsing makes of every formatted
  message, of any number of parameters. Formatting and parsing are folds over
  sequences, so this is induction over data.
* `TypeOK` of MessageTransfer: that what has been parsed is a message is the
  result of such a fold, too.
* `ReadyAreSeen`, whose history is in MCMatchmaking; the proof of the barrier
  has its arithmetic (`CountInv`).

## Not modelled, or not checked

* In Protocol, what clients see in a game of two clients of one name, which runs
  and proofs exclude (`DifferentNames`), or in one that starts outside of the
  contract, which the run has and no property is about.
* Reading a line from the console (`getline()`), and the wording of what is
  printed.
* Time outside of matchmaking. Timeouts of receives are failures that may come
  at any moment.
* Lengths of names, paths and messages.
* The log in the other modules: the `exit(1)` of LogFile is `ServerStops` of
  Matchmaking.
* The depth of the calls between
  `send_main_menu_to_client_and_try_to_connect_with_another_player` and
  `check_if_two_players_are_ready_to_play_protected`, which grows with
  every SERVER_NO_OPPONENTS. The models have the loop they amount to.
* The helpers of `create_and_handle_processes.c` and `file_IO.c` that no
  program calls, and the build files.

A remark on `read_write_common_resources_protected`: its comment
(`service_thread.c:217`) says that 1 increases a count and 0 decreases it; the
code (lines 294 to 303) does the opposite, and all callers follow the code.
So does `ReadyCountAfter`.

## What is left

All modules of the plan are written and checked, and all safety properties but
`ReadyAreSeen` and those of MessageTransfer are proved. What could follow:

1. `TypeOK` of MessageTransfer, and what of `ImplementsChannel` does not need
   parsing: bytes arrive in the order in which they were sent.
2. What still holds in Protocol of two clients of one name.
