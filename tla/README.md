# Verification of dsf4g

dsf4g is a framework of cooperating server processes for games. This directory
models its core in TLA+, checks the models with TLC on small instances and proves
the results that matter most with TLAPS. Paths below are relative to the
repository.

## The system

```
client --tcp--> tcpsvr ==cs/sc shared memory pipes==> logic server (auth, hall, game)
                                                          |
                                                         tcp
                                                          |
                                                      proxysvr (the center) --tcp--> dbproxy --> MySQL
```

Every process is single-threaded; concurrency is between processes.

| Part | State it keeps | Operations | Hard because | Correct when |
|---|---|---|---|---|
| Shared memory pipe, `core/shm_pipe.cpp` | byte ring, two indices | `AppendOneData`, `GetOneData`, attach after a restart | writer and reader run at once, no lock; either may restart in a call | it is a FIFO of whole messages |
| Session handlers, `src/common/msg_handler_basic.cpp`, `msg_basic.cpp` | a session's step, the data it read and the versions | get, process, save, redo on conflict, answer | two servers change one player; answers lost, late or for somebody else; timeouts; restarts | no acknowledged change is lost |
| dbproxy, `src/dbproxy/handles.cpp` | version cache, MySQL rows | select, compare versions, replace, commit | a statement fails half way; the process dies; the cache is stale | a save replaces exactly what its session read |
| Object pool and segments, `include/object_mng.hpp`, `share_mem.hpp` | positions, free list, used set, segment | `Init`, `Malloc`, `Free`, `Release` | crash while the segment is written | objects survive an orderly restart, positions never leak |
| Session manager, `src/common/session_mng.cpp` | sessions by number, counter | create, get, release, time out | numbers wrap and collide | numbers are unique, idle sessions go |
| Center, `src/proxysvr/proxysvr.cpp` | socket pool, index by server, backlogs | accept and register, route, disconnect, release | events arrive in batches; servers come back; sockets fill up and are reset | a message reaches the server it names, in order |
| Center client, `core/center_mng.cpp` | descriptor, send and receive buffer | connect, register, send, receive | the connection ends at any point | every server is registered in the end |
| Receive loops (tcpsvr, proxysvr, CenterMng) | receive buffer, offset | `recv`, cut, move up | TCP portions are arbitrary | frames come out whole and in order |
| Auth server, `src/authsvr/db_mng.cpp` | its copy of the largest uid | find or make an account | two statements without a transaction, several servers | uids are unique and stay |
| tcpsvr, `src/tcpsvr/tcpsvr.cpp` | client sockets, logic index | accept, receive, send, notify a disconnect | slots are reused while answers are on the way | answers and disconnects concern the right client |
| Server loop, `core/server.cpp` | message queue | receive, post, dispatch | queue full; disconnects overtake the queue | no message is lost or overtaken |
| Hall login, `src/hallsvr/msg.cpp`, `src/common/player_mng.cpp` | players by uid | log in, kick, log out | a disconnect of the old connection meets the new login | one player object per uid, with the right connection |

The parts interact by shared memory (tcpsvr and the logic server), by messages over
the center (logic servers and dbproxy) and by calls (handlers, session manager,
pool). The hazards that follow from this, each at its line and with the properties
that would show it, are in `PROJECT.json`.

## Modules

| Module | Models | Runs |
|---|---|---|
| `Fifo` | what a pipe promises: a queue of messages, some of which a reader must refuse | as the abstraction of `ShmPipe` |
| `ShmPipe` | `core/shm_pipe.cpp`, each load, byte copy and store a step | `shm_pipe` |
| `ShmPipeProofs` | its proofs | |
| `BasicFacts` | facts on numbers, finite sets and sequences that the proofs share | |
| `Hall`, `HallProofs` | tcpsvr's connections, the message queue, and the hall's login and players, and its proofs | `hall` |
| `SaveProtocol`, `SaveProtocolProofs` | session handler, database messages and dbproxy, and its proofs | `save*` |
| `ObjectMng` | `include/object_mng.hpp` and the segment it leaves | through `SessionMng` |
| `SessionMng`, `SessionMngProofs` | `src/common/session_mng.cpp` over `ObjectMng`, with the server's routine check, exit and start, and its proofs | `session` |
| `Center`, `CenterProofs` | `src/proxysvr/proxysvr.cpp` and `core/center_mng.cpp`, and the proofs | `center*` |
| `FrameRecv`, `FrameRecvProofs` | the three receive loops, one of them per behaviour, and the proofs | `frame`, `frame_again` |
| `Auth`, `AuthProofs` | `src/authsvr/db_mng.cpp` and its proofs | `auth` |

The `MC` modules give constants that a configuration file cannot write (functions,
records). A definition `X_Slip` that stands before a definition `X` is `X` with a
slip such code invites; no specification uses it. It serves to show that a property
has teeth: with `X` replaced by it, TLC finds the property violated.

### How state and actions correspond to the code

* **ShmPipe.** `begin` and `end` are the shared indices; each process has its local
  copies. One action per load, copied byte and store, so the two calls interleave
  in every way. The history variable `q` lists the frames in the ring. x86 and the
  `-O0` of the build keep stores in order. A restart drops the process's locals and
  leaves the ring.
* **SaveProtocol.** A session is the record the handler keeps; requests and answers are
  per server and player in order, because both the center and dbproxy are chosen by the
  hash of the uid. One action per message handled. dbproxy's save is one action per
  outcome: it runs without interruption, but a statement may fail or the process may
  die, between the two `replace`s too, and then loses its cache. A blob is the set of
  sessions whose change it contains, which makes a lost update visible. MySQL is
  external: a row per key, `Connection(false)` so that errors are return values.
* **ObjectMng, SessionMng.** The free list is a sequence (taken from and put back to
  the front), the used set is walked in any order as an `unordered_set` is. An
  orderly exit writes the segment; a kill may leave one that is empty, one whose last
  objects are fresh ones, or one that ends inside an object, which `Init` does not take:
  such a server never starts again. `Tick` is a second;
  a loop that runs has made every check that was due.
* **Center.** One server type. Events that one `epoll_wait` returned stay in `batch`
  until they are dealt with, so they can outlive their socket. `RecvServerData` and
  the broadcast loop go one message at a time (`cur`, `cnt`). Descriptors are
  modelled as far as they matter: a cleared position holds descriptor 0, which stands
  for the standard input until somebody closes it and `accept` hands it out. TCP is
  external: an end that is closed with unread data, or that gets data, answers with a
  reset. `send` takes all or nothing. A failing `accept` releases a cleared position and
  with it descriptor 0 (`AcceptFails`); a registration that fails after the connection
  leaves a descriptor open until its end is read (`RegisterFails`). A `connect` that fails
  changes nothing but the number of open descriptors: `center_mng.cpp:28` forgets to close
  it. The two spots where the code writes through a
  null pointer are steps in which the proxy ends and starts again.
* **FrameRecv.** A byte is a number below 256, a length field two of them, the low one
  first; offsets are modulo a word, and a byte over which tcpsvr has written its head
  (`Junk`) may be any; `recv` returns any portion of what is on the way. The peer sends
  well-formed frames only and stays connected. For CenterMng the cutting loop is
  `GetCenterMessage`, which may break a round off (`CutBrokenOff`) and looks at what is
  left when any center has input (`WakeOther`).
* **Hall.** tcpsvr and the hall server, each action a handler (or, in a login, the part
  of it up to the next message it puts into the sc pipe, since tcpsvr may take that one
  meanwhile). `sock`, `freeL` are `_pool`, `_free_list`; `players` the player table;
  `sess` the sessions, the oldest first;
  `queue` the part of `pmsg_pipe` that holds clients' messages. The pipes are queues of
  messages that refuse what does not fit, which is what `ShmPipe` is proved to be. A
  client's dialling, sending and leaving are merged with the read that notices them:
  tcpsvr and the hall server cannot tell when they happened. Each message names its
  player, as in the code, so one connection may log in several. What is read at once is
  one message at most. A connection is named by
  position and millisecond, as in `stTcpHead`; the field `to` of a head and the field
  `conn` of a socket are histories. Descriptors are as in `Center`; the sockets of
  `new stSocket[]` are uninitialised, so that a failed accept on a position never used
  closes descriptor 0 or nothing that is open. At this commit reading ends as
  `frame_again` shows, with every message the end of the connection (`RecvAgain`); the
  run has this and the loop as proxysvr has it (`RecvReturns`), so that logging in twice
  or after a kick is reached and the results outlive a repair of that line. An orderly
  exit of the hall server saves players and sessions and finds them again
  (`SessionMng`): in this model it changes nothing and is no action.
* **Auth.** One action per SQL statement, and the end of the process before or after
  any of them; `_conn` throws on errors and nobody catches.

## Runs

| Run | Checks | Shows |
|---|---|---|
| `shm_pipe` | `PipeInv`, `NoOverwrite`, `NoUnpublishedRead`, `RefinesFifo`, `Delivered` | on a 13-byte ring with wrapped frames, an oversize message and one restart of each side, the pipe implements `Fifo`, and a ring that is not empty keeps being read unless an oversize message is at its head |
| `save` | `TypeOK`, `RegisteredHasMoney`, `NoLostUpdate`, `OwnIdAckedIsSaved`, `CacheLag`, `MoneyStays`, `ReliableStoreMatchesRow`, `EverySessionSaves` | three sessions on two servers race for one player; any three of a loss, a timeout, a restart, a crash of dbproxy, a failing statement, or one of them thrice: no acknowledged change is undone before a statement fails, a registered player has money, which is never given anew, success is told only for a stored save, the cache lags by one version at most; when nothing goes wrong all sessions save within three attempts each |
| `hall` | `TypeOK`, `SlotsAccounted`, `OnlyOwnAnswers`, `PlayersIndexed`, `IndexedHasPlayer`, `GoneLeaves`, `ToldToGoEnds` | two connections, each of which may log in both players, one position and room for two players or two and room for one, two messages, pipes and queue that fill up, a client that does not read, any two of: a failing accept, an expired token, a restart of tcpsvr, a crash of the hall server |
| `session` | `TypeOK`, `PoolInv`, `IdleBound`, `LeaksOnlyInACrowd`, `RestartKeepsSessions` | three positions, two numbers tried, numbers wrapping at 3, two restarts that are orderly or killed at any point of `Release` |
| `center` | `TypeOK`, `RouteRightUnlessStale`, `InOrder`, `SlotsAccounted` | two servers and two messages, a restart, a reset, a full buffer, two accepts or registrations that fail, batches of events, broadcasts, with and without a position to spare |
| `center_live` | `Reconnects`, `BacklogLeaves` | a message, a restart of a server and one of the proxy, a refused send, and an accept or registration that fails or comes late |
| `frame` | `TypeOK`, `FramesInOrder`, `NothingWaits` | four frames in every portioning, for proxysvr and CenterMng, whose rounds are broken off at times; tcpsvr with its pipe full at times |
| `auth` | `IndexIsMax`, `SameUid`, `OwnUidsUnique` | two servers, three guests, two crashes |

Some properties are stated up to the point where a known deviation (below) takes hold,
because from there on they do not hold: `NoLostUpdate` and `ReliableStoreMatchesRow`
until a MySQL statement fails, `RegisteredHasMoney` until a save stops between two keys,
`OwnIdAckedIsSaved` until a session gets an id whose former bearer still has messages
under way, `RouteRightUnlessStale`, `InOrder` and `SlotsAccounted` of `Center` until the
proxy releases a socket that `_svrs` names, closes descriptor 0 after a failing `accept`
while that is a connection, or deals with an event of a socket it has released.
`Reconnects` is checked without resets, after which it may fail, and `BacklogLeaves`
leaves one backlog for each refused send. `NothingWaits` speaks of rounds that
`GetCenterMessage` does not break off. In `hall`, `IndexedHasPlayer` is excused by a
message that did not fit, a crash of the hall server or a notice that came after the
player's next login; `GoneLeaves` by a login that was still queued when the connection
had ended; `ToldToGoEnds` by a client that does not read and so holds tcpsvr for ever;
and `OnlyOwnAnswers`, `PlayersIndexed` and `IndexedHasPlayer` by two connections that
had the same position within a millisecond, `OnlyOwnAnswers` also by a connection that
tcpsvr closed by mistake. Of the players that one connection has logged in,
`PlayersIndexed` speaks of the last one announced to tcpsvr and `GoneLeaves` of the one
the notice names: the code does not do better.

The other runs end in a violation; each shows a place where the code does something
else than its comments say (`findings` in `PROJECT.json`):

| Run | Property | What happens |
|---|---|---|
| `save_broken_off` | `StoreMatchesRow` | a save whose second `replace` failed leaves the cache stale, and a session stores over a version it never read |
| `save_reused_id` | `AckedIsSaved` | after a restart a late answer acknowledges another player's session |
| `center_reset` | `RouteRight` | a reset connection stays in the index; its position goes to two servers |
| `frame_again` | `ValidStaysOpen` | `EAGAIN` is added to the offset as -1; the frame is handed on twice and the client thrown out |

### Deviations the models contain without a run of their own

They were met while modelling and are steps of the models, so every passing run takes
them into account:

* A registration that is cut off between its two `replace`s (`DbCrash`,
  `SaveBroken`; `dbproxy/handles.cpp:245`) leaves `is_init` set without the initial
  money, although `pb_db_data.proto:10` sets it after the initialisation.
* Keys that were only read are saved, too (`CopyFrom`, `msg_basic.cpp:250`): copying
  an answer goes through `mutable_x()`, which marks every key as changed.
* `route_broadcast` sends to `des_id` once per registered server and to no other
  (`DoTransfer`, `DoTransferDies`, `proxysvr.cpp:412-422`).
* A message kept on `EAGAIN` waits for the next message to that server or for its
  reconnection: `EPOLLOUT` is never asked for (`Sends`, `proxysvr.cpp:482`).
* When `accept` fails the proxy, too, closes descriptor 0 (`AcceptFails`,
  `proxysvr.cpp:275`). From the second failure on that may be the connection of a server;
  `_svrs` then sends over the next connection that gets the descriptor.
* `GetCenterMessage` returns when the message queue is full or 512 messages have come
  (`CutBrokenOff`, `server.cpp:274-286`); complete frames then lie in `recv_buf` until
  some center has input, because it returns at once when `select` reports none.
* An event of a batch whose socket an earlier event released makes the proxy read and
  close descriptor 0, which `accept` then hands out and cleared positions share
  (`EpollIn`, `proxysvr.cpp:262`).
* After a reset order can be lost, too, among three servers (`EpollErr`,
  `proxysvr.cpp:250`): a message for one is kept in its backlog; the connection of a
  second, which has got a later message of the same sender, is reset; the first comes
  back at the position so freed, which `_svrs` still names for the second; the second
  comes back and inherits the earlier message from there.
* A client that ends before tcpsvr has read the `LOGIC_INDEX` of its login, or while its
  login waits in the message queue, leaves a player that nobody logs out
  (`SocketRelease`, `NewPlayer`; `tcpsvr.cpp:125`, `server.cpp:229`).
* A connection that logs in a second player (`LogIn`, `msg.cpp:7-44`) overwrites the index
  of its first one in tcpsvr (`tcpsvr.cpp:404`): nobody logs the first one out when the
  connection ends, and a kick of either closes the connection without a notice.
* A client that does not read keeps tcpsvr in the loop that repeats the send
  (`SendSpins`, `tcpsvr.cpp:408-415`), and with it all other clients waiting.
* A server killed while it writes an object to the segment does not start again until
  somebody removes the segment (`TornSegment`, `object_mng.hpp:68`).
* The notice of an old connection's end can log out the player's new login, because it
  names the uid only (`GetClientNotice`, `tcpsvr.cpp:436`); so can the end of an old
  connection whose kick did not fit into the sc pipe (`LoginKick`, `msg.cpp:68`).
* A second login that is refused closes a connection that has a player, without a notice
  (`LoginExpired`, `msg_handler_common.cpp:11`).
* When `accept` fails tcpsvr closes descriptor 0 (`AcceptFails`, `tcpsvr.cpp:308`), which
  may be a client by then: its position is never freed, and its answers go to the next
  client on that descriptor.
* A request without a handler keeps its session until it times out
  (`OnClientMessageOther`, `msg_handler_mng.cpp:19`).
* Two auth servers give the same uid to two accounts, because an `update` that finds
  no row goes unnoticed (`UpdateIndex`, `db_mng.cpp:78`); `start.sh` starts one.

### Bounds

Every bound is a constant. They are chosen so that the case a property is about occurs:
the size of the ring is no multiple of the frames' lengths, so that length fields and
payloads wrap at every offset; three sessions need all of `MaxRedo = 3` in `save`;
session numbers wrap after three; a backlog overflows; the pool has as many positions as
servers (a server that comes back finds none) or one more, which is what reconnecting
needs; two servers and the listening socket fill a batch of three events; with one
position both connections of `hall` share it and each may log in both players, with two
they meet in a kick, its sc pipe and queue hold one message and its cs pipe two (a login
and the notice after it), its clock lets them be accepted in the same millisecond or
not, and room for one player refuses the second (`Players` in `MCHall`); the budget of
`center_live` has one message, which must leave its backlog unless the one refused send
is spent (with two messages it holds in all of 1,055,038 states, which takes too long
for a regular run); only the first message of `center` may be a broadcast. The receive
buffer holds two bytes more than the longest frame. `CHECK_DEADLOCK FALSE` stands where
the bounded number of messages, sessions or faults lets the system come to rest; the
pipe runs on for ever and is checked.

### Fairness

Only loops that the code runs unconditionally are fair: `Run` of a logic server,
`DealNetwork` of the proxy, `CheckCenterConn` once a second, dbproxy's loop. Faults,
restarts, messages, `EAGAIN` and late registrations are never fair. In `hall`
`SendDataToClient` is fair only while tcpsvr is not in the loop that repeats a send
(`spins`, `tcpsvr.cpp:408-415`), which only the client ends; `ToldToGoEnds` therefore
speaks of behaviours in which that loop ends again and again. Nothing fair sends a backlog
that was kept on `EAGAIN`, so `BacklogLeaves` allows one for each refused send.

## Proofs

`ShmPipeProofs` proves, for every ring size, header length, set of messages and
number of restarts:

* `PipeInvariant`: `PipeInv` always holds. It says that the bytes between the two
  indices are the frames of `q` one after the other, that the writer's unfinished
  frame lies in the free part and that the reader's copies agree with the ring. It is
  the inductive invariant: neither safety property is inductive without it, since
  each process works on copies of indices that the other one moves.
* `WriterStaysClear`, `ReaderStaysBehind`: the two safety properties, from it.
* `PipeRefinesFifo`: every step of the pipe is a step of `Fifo` or a stutter.

It rests on lemmas about positions modulo the size and about subsequences, and on
the assumptions named in `ShmPipe`.

`AuthProofs` proves, for any number of servers, accounts and crashes:

* `IndexStaysMax` and `UidStays`; with the type they are inductive together: the
  number a server holds is not above the table's, and what a client was told is what
  the primary key protects.
* `OwnUidsStayUnique`: no server gives a uid twice. Its strengthening says that an
  account has a uid exactly when some server stored it (`Owned`), and that a server's
  number is not behind the uids it gave, and ahead of them before an insert (`Ahead`).
* `OneServerUidsUnique`: with a single server, the deployment of `start.sh`, no two
  accounts share a uid.

`SessionMngProofs` proves, for every size of the pool, mask of the numbers, timeout,
interval of the check and number of restarts (`SizeAssumption`, `IdAssumption`,
`TimeAssumption`, `DownAssumption`: the sizes are positive; `ObjectAssumption`: a
cleared position is not an object):

* `SessionTypes`, `PoolStaysSound`, `IdleStaysBounded`: the
  run's invariants; `RestartsKeepSessions` and `LeaksNeedACrowd`: its two action
  properties.
* The invariant has two halves, one for the process that runs and one for what a
  process that ended leaves. Running: the two lists share the positions
  (`ListsAgree`), the index and the used objects know each other in both directions
  (`IndexAgrees`; one direction alone does not survive a release, which goes from the
  number to the position), and there is a largest number (`SidsBounded`), without which
  `_cur_max_id` could not be rebuilt at start. Down: the segment fits the pool and has
  no number twice (`SegmentFits`), and holds what the process had (`SegmentKept`).

`SaveProtocolProofs` proves, for any number of servers, players, sessions, faults and
attempts (`RedoAssumption`: at least one attempt; `BoundsAssumption`):

* `SaveTypes`, `NoUpdateIsLost`, `RegistrationIsWhole`, `CacheStaysClose`,
  `AckMeansSaved`: the run's invariants; `MoneyIsKept` and `VersionsAreSteps`: its action
  properties.
* The properties speak of rows, but a row is written from a message that may have been
  under way for long. The invariant therefore says what every message claims: an
  answer's data is of the row's version or an older one, and of the row's content if of
  its version (`AnswerOk`); a save is one version on from data so read, and everything
  in the row it would replace is in it (`SaveOk`). The compare in dbproxy is right because
  the cache is the row until a statement fails (`CacheIsRow`), an acknowledgement
  because a message finds no other session than its own until an id is reused
  (`OwnMessages`).

`FrameRecvProofs` proves, for every size of buffer, set of lengths, number of frames and
portioning (`FrameAssumption`: the buffer is longer than the longest frame, a length fits
its two bytes, twice the buffer fits a word; all are so in the code):

* `FrameTypes`, `FramesStayInOrder`, `NothingIsLeftWaiting`: the run's invariants;
  `ValidPeersStayConnected`: proxysvr and CenterMng never take a length for an invalid
  one, the property which tcpsvr violates (`frame_again`).
* The invariant (`Chain`) lays the frames sent end to end and compares: what is left in
  `recv_buf` followed by what is on the wire is, byte for byte, the part of that stream
  behind the last frame handed on. It needs the places where frames start, which are
  an existential witness: a recursive sum would need induction.

`HallProofs` proves, for any number of players, connections, positions, faults and
restarts and for pipes, queue and tables of any size (`HallAssumption`: the sizes are
positive, and 0 is no uid):

* `HallTypes`, `PositionsAccounted`, `OwnAnswers`, `PlayersAreIndexed`, `NoticesRemove`,
  `SidesAgree`: the run's invariants, all from `HallInvariant`.
* `Slots`: a position is free and cleared or has a connection that knows it, and every
  open connection has its position and its descriptor, descriptor 0 included. `Says`:
  heads in the pipes, the queue, the sessions, the players and the sockets are
  true of the connections they name; without it nothing follows when a message is taken
  from a pipe. `NoticesTrue`: a notice under way is of a connection that has ended.
  `AllLast`: what tcpsvr has, or is about to be told, as a connection's player is the last
  one announced for it (`named`), which is needed since a connection may have several.
  `Agreed`: a connection that has an index, or to which one is under way, has its player,
  or the order to close it is under way, or its login is just being refused; it speaks of
  the last player announced.
  `IndexedHasPlayer` itself speaks of quiet states only and is far from inductive.

`CenterProofs` proves, for any number of servers, positions, connections, messages,
restarts and faults, failing accepts among them, and for backlogs of any size
(`CenterAssumption`: there is a server, a backlog holds a message, a batch has an
event):

* `CenterTypeOK`, `CenterRouteRight`, `CenterInOrder`, `CenterSlots`: the run's
  invariants, all from `CenterInvariant`. They cover broadcasts and hashed routes.
* What holds whatever happens: a connection has one descriptor at most and keeps it while
  the proxy's end is open, even when cleared positions share descriptor 0 (`FdsOpen`); the
  connections that wait for `accept` are exactly those in its queue (`Waiting`); each
  server holds the one connection that it has not left (`Held`); a broadcast that is half
  done is still at the head of what is read, or its connection is gone (`Casting`), which
  bounds the loop's counter.
* What holds until sockets are mixed up: a position is free and cleared or named once by
  `_svrs`, an open connection is at the position `_svrs` names for its server, and a
  backlog holds only messages for that server (`Steady`). `Downstream`: what a server has
  taken comes before what is on its connection, and that before its backlog at the proxy.
  `Upstream`: a server that came back may have several connections unread; the one that is
  open comes before those queued, these in the order of the queue, and the sender's backlog
  after all of them. `Between`: everything the proxy has passed on comes before everything
  it has not read. `Numbered`: a new message is after all of them. `InOrder` speaks of
  received messages alone and needs all five: a message can wait in any of these places
  while its receiver or its sender reconnects.

`BasicFacts` has the facts on numbers, finite sets and lists without repetition that
these proofs share. TLC checks `PipeInv` in its run and found the invariants of
`HallProofs` and `CenterProofs` to hold on the instances of `hall` and `center`.

Every invariant and every safety property of a step that a passing run checks is proved.
Only model-checked is what the prover cannot do: liveness under fairness
(`Delivered`, `EverySessionSaves`, `ToldToGoEnds`, `Reconnects`, `BacklogLeaves`),
`ENABLED`, and induction over data. The four runs that end in a violation have no
theorem, of course.

## Not modelled

* The token of the auth server, ciphers, logging, configuration: no state, or
  libraries.
* The timer manager: `Init`, `Tick` and `Release` are commented out in every server and
  nobody creates a timer, so nothing of it but its pool type is reachable. Internal
  messages and the logout handler, which only timers would post.
* The game server, a skeleton without handlers; the test client.
* The creation of the shared segments at start (`server.cpp:89`): the result depends on
  which process the operating system runs first, before either loop starts.
* `src/centersvr`, `src/logicsvr`, `src/test` and `tmp`: not built. Vendored protobuf,
  MySQL and OpenSSL. These libraries are 96 of 100 lines of the repository; what the
  code needs of them (statements, messages, versions) is external in the models. The
  state machines of the repository's own processes are modelled up to what is listed here
  and under the correspondence above.
* Partial sends (`proxysvr.cpp:449`): listed as a hazard.
* In `Hall` a read brings one frame. With several in one portion and the cs pipe full,
  tcpsvr's second pass (`frame_again`) would hand on from the first of them again, or move
  nearly 4 GB and end; the model has the end of the process as `TcpRestart`. The loop end
  of `RecvReturns` is not tcpsvr's at this commit (see above) and only adds behaviours.
* In `Center`, when a send to the very connection that is being read fails, the messages
  already in `recv_buf` are still transferred by the code (`proxysvr.cpp:345-359`); the
  model drops them with the connection, as it may drop any message under way.

## Plan

Done: the pipe, the save protocol, pool and sessions, the receive loops, the auth server,
login over tcpsvr and the hall server, and the center, all with proofs. Next:
`SessionMng` and `SaveProtocol` composed, so that a reused number comes from the counter
itself.
