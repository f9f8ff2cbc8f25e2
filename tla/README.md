# Verification of libuvServer

libuvServer is a game server in C++ and Lua on top of libuv: one process per
role (gateway, auth, game), one event loop per process, Lua scripts for the
services, and libuv's thread pool for the databases. This directory holds TLA+
modules of its parts, the TLC configurations that check them on small
instances, and TLAPS proofs about them for every value of the constants.

All paths below are relative to the repository. `package/` is third-party code
and `main/protocol/protocol.pb.*` is generated; both appear only through the
way the rest of the code uses them.

## 1. The system

| Component | Code | State it keeps | Operations |
|---|---|---|---|
| Block allocator | `utils/Cache.cc` | a free list threaded through the idle blocks | cacheCreator, cacheAllocer, cacheFree, smallCache* |
| TCP receive path | `netbus/netbus.cc`, `tcpprotocol.cc` | recvBuf or longPkg, received, longPkgSize of a session | uv_tcpBuffmem, uv_readData, tcpDataParser |
| Session life cycle | `netbus/session_uv.cc`, `netbus.cc` | isShotdown, the handles, the session pool, the listeners' data | create, accept, connect, close, destroy |
| Service dispatch | `netbus/servicemanager.cc`, `service.cc` | the array of services | recvCmdMsg, sessionDisconnect |
| Send path | `session_uv.cc`, `tcpprotocol.cc`, `webprotocol.cc` | write requests, package buffers | sendData, uv_sendTcpBuf |
| Web framing | `netbus/webprotocol.cc`, `netbus.cc` | the same buffers, wsShake | handshake, readWebHeader, webDataParser |
| UDP server | `netbus.cc` | one receive buffer | uv_startUdpEvent |
| Protocol manager | `protocolmanager.cc` | the command map | encode, decode |
| Timers | `utils/time.cc`, `mylua/utils/lua_schedule.cc` | struct timer, scheduleInfo, the Lua function | schedule, fire, cancel |
| Database managers | `database/*.cc`, `mylua/database/*.cc` | contexts with a lock, queued requests | connect, query, close |
| Gateway service | `serviceServer/gateway/gateway.lua` | sType2Session, do_connecting, client_temp, client_uid, client_gid, gKey | gw_init, checkConnected, relay both ways, disconnect |
| Auth service | `serviceServer/auth/`, `database/auth_*.lua` | the two connections | guestLogin, guestUpgrade, connect |
| Game server, logger, start-up | `gameServer/`, `logger.cc`, `main.cc` | none that matters | |

How they interact. libuv calls `netbus.cc`; a complete frame goes to
`ServiceManager::recvCmdMsg`, which calls the service of the frame's type; a Lua
service is reached through `mylua/service`, and calls back into sessions
(`Session.sendMessage`, `Session.close`) in the middle of the same callback. The
gateway is a client of the auth and game servers and relays frames in both
directions. Timers, sessions and requests come out of the pools of
`utils/Cache.cc`. Only the database managers use other threads.

What is hard here:

- A session is an address. Lua tables, timers and database callbacks keep it
  while the block it names is destroyed and handed to another connection.
- A close is announced in the middle of the handler that closes, and finished
  callbacks later; frames that have already arrived are still dispatched.
- The network cuts the stream of frames anywhere, and frames may be longer than
  the buffer.
- The pool threads finish requests in an order of their own.
- Everything that fails (a connect, a query, a server) is tried again by a
  timer, and nothing but a flag keeps the attempt from running twice, or never.

What makes each part correct is stated with the modules in section 3.
`PROJECT.json` lists the hazards line by line.

## 2. Modules

| Module | Role |
|---|---|
| `Pool` | what users of `utils/Cache.cc` rely on: idle blocks and lent ones |
| `Cache`, `MCCache`, `Cache_proofs` | the allocator with its list in the blocks; implements `Pool` |
| `FrameStream` | what the services rely on: each frame of a stream delivered once, in order, complete |
| `SmallCache` | `smallCache` for the loop and the pool threads, statement by statement, on top of `Cache` |
| `Framing`, `MCFraming`, `Framing_proofs` | the receive buffers of a session, TCP or web socket with its handshake; implements `FrameStream` |
| `Lives` | what users of sessions rely on: a block's session begins, ends, is closed and given back, in that order |
| `SessionState`, `SessionState_proofs` | one session object and the free list of sessions: operators, and lemmas, shared by `Session` and `Gateway` |
| `Session`, `Session_proofs` | the sessions of one process, from accept or connect to destroy; implements `Lives` |
| `SendPath`, `MCSendPath`, `SendPath_proofs` | what sessions send, on top of `Session`: write requests, packages, headers; implements `Session` |
| `Gateway`, `MCGateway`, `Gateway_proofs` | the gateway's Lua tables on top of the sessions and their blocks; implements `Lives` |
| `RepeatTimers` | what scripts rely on of a timer: one count, calls only when one is due, none after a cancel |
| `Scheduler`, `MCScheduler`, `Scheduler_proofs` | Lua timers: two blocks and two counts per timer; implements `RepeatTimers` |
| `Database` | both database managers: the queue, the pool threads, the lock, the connection |
| `Auth`, `MCAuth`, `Auth_proofs` | the auth service and its two connections, on top of `Database` |

The MC modules only give constants their values. Operators whose comment starts
with "Mutant" are deliberate wrong variants of the operator after them: putting
one in its place makes the property named in `PROJECT.json` fail, which shows
that the property says something about the code.

How state and actions correspond to the code:

- **Cache.** `listCache` and `next` are the head and the first words of the
  blocks, `heap` is what malloc gave; an action is one call. Clients write what
  they like into the blocks they hold, links included. Callers are on one thread.
- **SmallCache.** The same variables; `pc`, `now` and `after` are a thread's place
  in cacheAllocer or cacheFree and what it has read. Only the loop thread frees.
  `Serial` says that the threads take turns there, and `ImplementsCache` that the
  statements are then the atomic actions of `Cache`: a free counts from the moment
  its block is linked (`headLinked`).
- **Framing.** A byte is its position in the peer's stream, and the stream says
  what a header read at that position decodes to (`need` bytes tell it), so that a
  parser out of step sees something wrong. `buf` is what the buffer in use holds,
  `received` its length. Actions: libuv asks for memory (`uv_tcpBuffmem`), hands in
  bytes (`uv_readData`), and one turn of the loop of `tcpDataParser` or
  `webDataParser`, or the handshake: the two branches of uv_readData, by
  `socketType`. Whether the service accepts a frame is a free choice (`accepted`);
  refusing it closes the session, and the loop goes on, as in the code. A web frame
  that is neither text, binary nor close is `other`: it is refused and stays.
- **SessionState, Session.** A session's `stage` runs from connecting or open
  through shutdown and closing to free; `orphan` is a session libuv will never
  call back for, since a failed accept or connect is ignored; `cancelled` one that
  was closed while it was connecting: libuv still calls after_connect, with an
  error, before it reports the close. An action is one libuv callback with
  everything `close` does inside it. A script may close any session in use: the
  address it kept may name a later one.
- **SendPath.** `writes` holds what uv_write took and has not reported, `idle` the
  free requests, `lost` those whose write libuv refused. A handler sends on any
  session in use, since the address it kept may name one that is not connected, or
  that a close came to first. All packages that fit a
  block are built in one, since each is given back before the next is asked for:
  `memory` says whose bytes it holds. `peer` is what the other end of a connection
  expects. It extends `Session`, whose actions are steps of it; a shutdown or a
  close ends after the writes before it, as in libuv.
- **Gateway.** One Lua state: an action is a whole callback, with the notices
  that a close inside it sends to the tables. Peers go on sending until uv_close,
  as in netbus. `verified` and `sent` are what the
  servers confirmed and what the last step sent; `late` are the tags that a closed
  session asked for a login under, `displaced` the guests whose entry of `client_gid`
  a request that is no login gave to another session. `pending` are the logins a server
  holds, as [server, ctype, tag]: a request repeated under the same tag is one of
  them, the answer may come on a later connection to that server, or never
  (`unanswered`). Using a freed session ends the behaviour, and `stale` says which
  entry of which table led to it.
- **Scheduler.** A Lua function runs in the middle of a firing and may schedule
  and cancel, so a firing is two actions, before it and after it. A script may
  cancel any timer it was given, at any time: nothing tells it that the timer is over
  or cancelled, and then the cancel uses freed blocks. `broken` says whose use of a
  freed block ended the behaviour, and of which timer.
- **Database, Auth.** A request goes from `work` to a thread, which takes the
  lock and sends, then reads the oldest reply on the `wire`, unlocks and
  finishes; the loop takes callbacks from `done` in that order. A mysql exception
  with the error code 0 (`noErrorCode`) does not leave `query_work`: the query goes
  on with a result that was never set, which may be NULL or the rows of any query, or
  end the process. `unset` are the logins this happened to.

## 3. Runs

| Run | Configuration | Result |
|---|---|---|
| `cache` | `MCCache.cfg` | holds |
| `small_cache` | `SmallCache_NoSharing.cfg` | violated |
| `framing` | `MCFraming.cfg` | holds |
| `parser_returns` | `Framing_ParserReturns.cfg` | violated |
| `session` | `MCSendPath.cfg` | holds |
| `send_package` | `SendPath_PackageKept.cfg` | violated |
| `gateway_servers` | `MCGatewayServers.cfg` | holds |
| `gateway_login` | `MCGatewayLogin.cfg` | holds |
| `gateway_stale_call` | `Gateway_NoStaleCall.cfg` | violated |
| `scheduler` | `MCScheduler.cfg` | holds |
| `auth` | `MCAuth.cfg` | holds |
| `auth_redis_index` | `Auth_StoredAtIndex.cfg` | violated |

### What each one asks, and its bounds

**cache.** Two clients allocate, overwrite and free. `FreeListIntact`: the links
form one list of exactly the idle blocks; `NoSharing`: nothing is lent twice;
`RequestFits`: what is lent is large enough; `HeapAccounted`: heap memory is
given back to the heap; `ImplementsPool`. Three blocks are enough for a list
with a head, a middle and an end; the heap has the addresses next to both ends
of the pool, where the range test of cacheFree could be off by one; requests are
of exactly the block size and one more.

**framing.** A TCP or a web session, and a stream cut into reads in every way.
`InBounds` is about both buffers and the bytes the handshake reads, `RoomOffered`
about the memory libuv is given, `LongPkgForOneFrame` about when longPkg exists.
`ImplementsStream` says that both kinds of session deliver the frames of the stream
once, in order and complete, the request of a web client counting as a frame
without a command; `AllParsed` that nothing stays in the buffer. recvBuf has 5
bytes instead of 4096. TCP frames have 3, 4, 5, 6 and 8 bytes: one too short for
a command, one that fills recvBuf exactly, two that need longPkg. There are up to
three in a stream, so that one can end in recvBuf while the next needs longPkg and
a third follows; a bad size field (0 to 2) stands before or after them. Web
streams begin with a request of 2 or of 5 bytes, or one without a key; up to two
frames follow, with 2 or 3 bytes before a mask of 1, so that either header can be
cut by a read; then nothing, a close or a control frame.

**session.** Two blocks, a TCP and a web listener, outgoing connections, and two
write requests. `BlocksAccounted` ties the free list to the stages; `EndedOnce`
says that a life has one notice and one uv_close; `RequestsReturned` that every
request is idle, in one pending write, or lost to a refused one, and that none is
pending when its session is destroyed; `HeaderTells` that a receiver reads the
size that was sent; `FramedForPeer` that a peer is sent the format it expects,
which excepts the later connections of a web listener (see below);
`ClosedIsDestroyed` is the liveness of a close and of a connect. Two blocks
let two lives overlap while a block is reused; two requests let a write be
pending while another is made or refused. Messages (`Bodies` with their head) are
at the three limits of `sendData`: 125 bytes, 65535 with a TCP header, and 65536.
Below these limits `HeaderTells` is proved for all lengths. 352 thousand states, in under two minutes.

**gateway_servers.** Two servers, four blocks, no clients: `RouteIsOpen`,
`OneConnection` and `Reconnects` under connects that fail at once, fail later,
or break. A server has at most a lost session that is not destroyed yet and its
successor, hence four blocks for two servers. 28 thousand states.

**gateway_login.** One server, clients, all kinds of commands, peers that go on
sending after the gateway closed them: `TagsUnique`; `TempForgotten`, that
`client_temp` holds only open clients that wait; `AnswerReachesAsker`; `SingleLogin`,
that a guest is online in one session; `NeverTwo`, that the server is never connected
twice, which clients could break through `client_gid` (see below); `StaleWays`, which
tables can lead to a destroyed session. The code breaks these formulas in two cases,
which they name and except, so that they say that there is no third: a tag under
which a session that was closed already asked for a login (`late`), and a guest whose
session another one displaced from `client_gid` with a request that is no login
(`displaced`). Three blocks (the server and two clients, or one client and the next
user of its block), two tags (`MaxTag`), two logins a server holds (`MaxPending`), so
that two answers can come in either order, on the connection of the request or on a
later one. The one guest has the number 1, which is a tag, too. Blocks are symmetric
in this run, which has safety properties only. `VIEW Future` leaves out what no step
and no invariant reads again: fields of a session that uv_close has, `client_uid`,
which is filled and never looked anyone up in, and `sent`, which only
the action property reads, on the step itself. 2.3 million states, in two minutes.

**scheduler.** Three timers that run once, twice or for ever. `Paired`: the two
blocks, the two counts and the Lua function live and die together; `ExactCalls`;
`ImplementsTimers`: to a script the two blocks and counts are one timer with one
count, which calls its function once for every call that is due and not after a
cancel; `RunsOn`; `OnlyCancelsBreak`: freed memory is used only by a firing whose own
function cancelled its timer, or by the cancel of a timer that was cancelled before or
has made all its calls. Calls are counted up to
`MaxCalls`, above the largest finite count.

**auth.** Two logins and three pool threads. `OneAtATime`: the lock keeps a
connection to one command at a time; `OwnInfo`: a login gets the reply to its own
query, unless mysql failed that very query with the error code 0; `ConnectOnce`: a
database has one connection, one attempt or one timer; `QueriesEnd`: no query stays in
the databases, failed ones included, no thread stays busy, and both databases are
connected in the end, unless the process crashed. It says that every login's query is
decided, not that the client hears of it, which the code does not ensure (see
`guestLogin.lua` below). Three threads are enough for two to wait for the lock while a
third holds it, and for the redis command of one login to overtake that of the other.

### Disagreements the runs show

- `parser_returns`: a frame with size 0 keeps `tcpDataParser` in its loop for
  ever, although the comment at `netbus.cc:50` says such a session is dealt with
  lest it hang the program. It takes that: any other turn that goes on removes
  bytes (`LoopShrinks`).
- `send_package`: the memory of a package is given back when uv_write has
  returned, not when the data is sent, although the comments at `session_uv.cc:26`
  and `58` say what it is for and when it goes back. Two sends before libuv writes
  the first put both messages into one block. libuv often writes at once, which
  hides it; a socket whose buffer is full does not.
- `small_cache`: the loop thread and a thread of libuv's pool read the same head
  of `smallCache` and are given the same block, although the comment at
  `Cache.cc:65-68` says that idle blocks are handed out. The database managers
  allocate on pool threads (`redismanager.cc:44`, `140`, `mysqlmanager.cc:63`, `172`).
  Threads that take turns in the two functions are the allocator of module `Cache`
  (`TurnsImplement`); nothing in the code makes them.
- `gateway_stale_call`: `client_gid` keeps destroyed sessions; the next login of
  that guest sends to one and closes it. The only other way to a destroyed session
  is `client_temp`, under the tag of a login that came after the close (`StaleByTwo`);
  the routes never lead to one.
- `auth_redis_index`: the redis connection is used before, or although, its
  `select` has not set the configured database. Once it has, the connection stays
  there and so does every guest stored later (`SelectedForGood`).

Met while modelling, without a run:

- The listener's data field, which says which kind it is, is overwritten by the
  first accepted session (`netbus.cc:246-247`): every later connection of the web
  listener has a pointer as its kind, gets no handshake, and its bytes are read as
  TCP frames. `Session` and `SendPath` have it so (`server_data`, `socketType`);
  `FramedForPeer` excepts these connections, which it knows as `"late web"`.
- A connect that libuv refuses at once leaves its session, request and Lua callback
  for ever (`netbus.cc:347`), and `do_connecting` TRUE: that server is never tried
  again. `Reconnects` and `OneConnection` name this case.
- A `client_gid` that outlived its session may name any later one, a server
  connection, too: the next login of the guest then tells that session it is online
  elsewhere and closes it. When it is the orphan of a refused connect,
  `do_connecting` stays TRUE and `OneConnection` fails, which is why that property
  is checked without client traffic. Closing one that is still connecting does no
  such harm: the callback comes with an error and clears the flag. `NeverTwo`, the
  other half, holds all the same: a server is lost, never connected twice.
- The gateway and its servers keep tags apart by the gateway's counter alone: after
  a restart of the gateway tags start again at 1, and an answer to a request of its
  former life would be taken for one of this.
- The 8-byte length of a web frame is decoded from the wrong four bytes
  (`webprotocol.cc:125-127`): of eight it reads the upper half, so that a frame of
  more than 65535 bytes has a wrong size.
- Frames that follow a close are still dispatched (`netbus.cc:53`). A login among
  them enters the closed session into `client_temp`, and nothing takes it out again:
  its answer may go to a destroyed session, or to the next user of the block.
  `TempForgotten`, `AnswerReachesAsker` and `StaleWays` name these tags (`late`);
  without the exception TLC refutes `TempForgotten` in six states.
- Tags and guest ids are small integers that share `client_gid` and the `gid` field
  (`gateway.lua:79`, `104`, `158`). A request that is no login, from a session whose
  first tag is the number of a guest, or from one that was kicked, takes the guest's
  entry of `client_gid` from its session; the guest's next login does not find that
  session and the guest is online twice. `SingleLogin` names these guests
  (`displaced`); without the exception TLC refutes it in ten states, also when no
  frame follows a close.
- A mysql exception with the error code 0 does not leave `query_work`
  (`mysqlmanager.cc:165-183`): the query goes on with a statement and a result that
  may never have been set. At best its callback gets no row, or reads rows of another
  query; at worst the process ends. `Database` has it (`noErrorCode`), and `OwnInfo`
  excepts the login whose own query it was.
- `recvCmdMsg` indexes `gServiceSet` with the service a frame names and no bound
  (`servicemanager.cc:30`). The modules take that index to be below the length of the
  array.
- A web frame that is neither text, binary nor close is never consumed, and what
  comes behind it fills recvBuf; `netbus.cc:154-160` then makes a longPkg of size 0
  and offers a negative room. A request longer than recvBuf is read into a longPkg,
  of the size a TCP header would give, that the handshake never looks at.
- A write that libuv refuses, on a session that is not connected or is closing, loses
  its request (`session_uv.cc:171`), and a
  message of 65534 bytes or more has a wrong size in its TCP header
  (`tcpprotocol.cc:24`), or is replaced by an empty write on a web socket.
- A timer cancelled by its own function is a use of freed memory
  (`lua_schedule.cc:64`, `18`), and so is a cancel of one that was cancelled before
  or has made all its calls: `lua_cancelTimer` (`57-68`) cannot tell.
  `OnlyCancelsBreak` says that nothing else is. No script of the repository cancels a
  timer.
- A repeat count below -1 means for ever to `time.cc` and "used up" to
  `lua_schedule.cc`; no script asks for one.
- `guestLogin.lua:6` reads `randkey`, the message has `RandKey`: every login
  queries for the guest with key `nil`. New guests are never registered
  (`auth_mysql.lua:103`, five conversions, four arguments), and
  `guestUpgrade.lua:10` tests a variable that nothing sets. A failed query is not
  reported to the client, although the comment at `guestLogin.lua:8` says so: such
  logins end as `silent` in `Auth`, and the gateway's side of them is `unanswered`.
- The gateway looks up the answers to other commands under an undefined name
  (`gateway.lua:198-216`), and its broadcast on disconnect (`266-270`) sends
  nothing.
- A session destroyed in the middle of a long frame leaks `longPkg`.

## 4. Assumptions

- *Web peers* send their first frame when they have the answer to the request,
  which is part of RFC 6455; their request fits recvBuf; they send text, binary and
  close frames, or another control frame and then nothing. What the code does with
  others is listed above. A frame is not longer than an int.
- *Write callbacks.* libuv reports every write it took, before it reports the
  shutdown that follows or the close, and refuses writes on handles that are not
  connected, shut down or closing.
- *Fairness.* Weak fairness stands for a loop thread that comes back to every
  callback that is due, and for pool threads that run: it is assumed of the
  parser, write, shutdown and close callbacks, Lua functions that return, the loop's
  work queue and the timers of the scripts. Strong fairness is assumed where
  something outside succeeds in the end although it may fail any number of times:
  a read with at least one byte while a peer's bytes are in flight
  (`framing`), a connect to a server or database that is tried for ever
  (`gateway_servers`, `auth`), and for timers, which libuv keeps in the order of
  their time, so that none is overtaken for ever (`scheduler`). A database
  answers a command or breaks the connection.
- *Deadlock* is not checked where the system may stop: a stream ends, all
  requests of a run are used up, a process has crashed.
- *After undefined behaviour* (`alive`, `intact` FALSE) nothing more is modelled. The
  one exception is a mysql result that was never set, whose outcomes are enumerated.
- *Rows and keys.* What mysql holds is a free choice in `Auth`, and keys play no
  part. A database script never closes its connection.

## 5. Proofs

TLAPS proves these for every value of the constants that satisfies the ASSUME of
the module; the runs above check the same formulas on small instances.

**Cache_proofs** (any number of blocks and clients, any heap and sizes):
`TypeCorrect`, `Exclusive` (NoSharing), `ListIntact` (FreeListIntact),
`HeapReturned` (HeapAccounted), `RoomEnough` (RequestFits), `RefinesPool`
(ImplementsPool). The invariant `IInv` adds to the type that no address has two
holders, that heap memory in use is what clients hold, and that a chain of
distinct blocks, exactly those nobody holds, is linked from the head (`Linked`).
FreeListIntact alone hides the chain behind a quantifier; the steps take it apart
and give the new one: an allocation shortens it by its last element, a free
appends, a client's write changes a block that is on no chain. RequestFits is
kept on top of `IInv`. The lemmas on lists (`ListPop`, `ListPush`, `ListFrame`) are
about any head, links and set of lent blocks, so that they serve `SmallCache`, too:
under `Serial`, that its threads take turns, it implements `Cache`
(`TurnsImplement`). Nothing in the code ensures that of `smallCache`, as the run
`small_cache` shows; the theorem is about what `LoopAlone` needs. Its invariant `SmallInv` says what a
thread inside has read and that it still is so: nobody else moves the list, and a
client's write is to a block that is held, so on no list. A pool of one thread
satisfies Serial (`LoopAlone`), which is why `Cache` may be atomic for the pools of
sessions, requests and buffers.

**Framing_proofs** (any streams, recvBuf of any size, any smallest command of at
least a byte): `TypeCorrect`, `WindowHolds`, `BuffersInBounds`, `AlwaysRoom`, `LongPkgUse`,
`RefinesStream` (ImplementsStream, a safety property here), for TCP and web
sessions alike, `LoopShrinks` (TurnsShrink), and `FramesInStep`. `Window`, that the buffer holds exactly the last bytes read, is
stated for the proofs and not checked by a run of its own. `BufferInv` is what
makes them inductive: between two callbacks the buffer holds no complete frame,
and longPkg holds the beginning of one frame longer than recvBuf. Without it
nothing says that the room offered is never 0, or that the rest moved to the
front fits. For LoopShrinks each branch of the two loops is shown to drop at least
one byte; only the TCP branch for a bad size does not when that size is 0.
`FramesInStep` is about `FrameStream` itself and reaches the code through
RefinesStream: `InStep` says that the bytes handed on so far are cut, from the first
one on, into frames that meet without gap or overlap, and that the commands
dispatched are those that begin such a frame; `InOrder` that they are dispatched in
the order of the stream, each once and after its last byte was taken. This is what
"once, in order and complete" means, derived from the actions and not assumed of
them.

**SessionState_proofs** holds what the modules on sessions share: what create and
destroy do to a free list without repetitions, for lists of any length.

**Session_proofs** (any blocks and listeners): `TypeCorrect`, `DestroyedOnce`
(BlocksAccounted), `AnnouncedOnce` (EndedOnce). The invariant `IInv` says of each
block how its stage goes with the two counts of its life (`Ended`): a session that
is being shut down was announced and not closed yet, a cancelled or closing one
was both. `RefinesLives` (ImplementsLives): every callback begins lives in blocks that
were free, ends one, closes one handle or gives one block back, and never two of
these. So a handler that closes a session may go on using it until it returns.
`Lives` is stated for the proofs; no run of its own checks it.

**SendPath_proofs** (any sessions, requests, bodies and block size):
`SendsAreSessions`, that sending is an implementation of `Session`'s
specification, by which `IInv` of Session_proofs holds here, too; `HeadersTell`
(HeaderTells), where `TcpRoundTrip` and `WebRoundTrip` are the arithmetic of the two
headers, `PackageTells` carries it to the packages, and `QueueInv`, that every write
queued is one of a package sendData makes, to the state; `RequestsKept`
(RequestsReturned), which is inductive together with the two invariants before;
`SentAsExpected` (FramedForPeer), by an invariant on what each session's kind and
handshake say about its peer; `SendTypeCorrect`.

**Gateway_proofs** (any blocks, servers, guests and tags, with clients or without):
`TypeCorrect`, `RoutesOpen` (RouteIsOpen), `TagsApart` (TagsUnique), `WaitingAreOpen`
(TempForgotten), `AskersAnswered` (AnswerReachesAsker), `GuestsOnce` (SingleLogin),
`StaleByTwo` (StaleWays), `ConnectedOnce` (NeverTwo), `RefinesLives`
(ImplementsLives). None has a hypothesis beside the ASSUME of the module: guests may
have the numbers of tags, and peers send after a close; the formulas themselves name
the tags (`late`) and guests (`displaced`) that this breaks. The invariant `IInv` has
these parts. `RestTyped` is the type. `Sound(World)` is said of the part of the state
that a close changes, so that it can be carried through the several changes inside one
callback: the free list, server connections and their targets, routes that lead to
open connections, tags below the counter that no two blocks carry, and `client_temp`.
`GuestsKnown` adds that `client_gid` leads to the open session of a confirmed guest
that was not displaced. `StaleWays` is inductive with these: only a call through a
table makes `stale` known, routes lead to open sessions, and an entry of `client_temp`
under no late tag does, too. `NeverTwo` is inductive with `Sound`: the timer starts a
connection only when the flag is clear, and then no live one is there; whatever a
guest's login closes, a block that leaves its server takes the flag and the route with
it, or leaves both to nobody. `RefinesLives` says of whole handlers, with the notices
and the close of a kicked session inside them, what Session_proofs says of single
callbacks: a login ends one session at most and gives back no block, so the session a
handler has just closed is still there for the lines after it.

**Scheduler_proofs** (any timers, counts and bound on the calls): `TypeCorrect`,
`HalvesAgree` (Paired), `CallsExact` (ExactCalls), `CancelsOnly`
(OnlyCancelsBreak), `RefinesTimers` (ImplementsTimers), and `CancelSilences`
(SilentAfterCancel, which no run of its own checks). The invariant `Life`
says, for a timer that rests and for the one whose function runs, how its two
blocks, its two counts and the number of calls made agree; between the two halves
of a firing the counts differ by the call in progress. In
RefinesTimers the one count of `RepeatTimers` is that of `struct timer` while the
timer is live and not cancelled. The second half of a firing, which frees the blocks
of a timer that is used up, changes nothing of it.

**Auth_proofs** (any number of threads and logins, any index): `TypeCorrect`,
`LockProtects` (OneAtATime), `AnswersOwn` (OwnInfo), `ConnectsOnce` (ConnectOnce).
OneAtATime is inductive with the type; it gives `OwnReplies`, that a finished query
carries the reply to its own command, unless mysql failed it with the error code 0,
which is what the callback of a login needs. For ConnectOnce the requests to connect, queued, running, finished or
waiting for their timer, and the connection itself are one set per database, and
every step moves its one member. `SelectedForGood` (OnceSelected) needs both halves:
nothing is asked of redis before the script has the connection (`OpenedFirst`), so
that an index other than 0 means there is one, and then, by ConnectOnce, no second
attempt that would take the connection back to 0.

Layout: one lemma per action, the induction in `NextIInv` or the like, and the
temporal step by PTL at the end.

Only model-checked: the liveness properties `AllParsed`, `ClosedIsDestroyed`,
`Reconnects`, `RunsOn` and `QueriesEnd` (liveness under fairness and ENABLED are beyond
this prover); `OneConnection`, which holds only where no client can log in as a guest,
as in its run; and the violated properties, for which a counterexample is enough.
Every other property of the runs that hold is proved.

## 6. Not modelled

- *UDP*: a datagram is one command and leaves no state; no script starts the UDP
  server, and main.cc is built with `MAIN_LUA`.
- *Logger, game server, start-up*: no state that another step depends on.
- *The JSON protocol*: no script chooses it. encodeCmdMsg writes one byte behind
  the memory it allocates for it (`protocolmanager.cc:146`).
- *Protobuf and Lua conversion* (`lua_session.cc`, `lua_service.cc`,
  `protocolmanager.cc`): data; only its verdict on a frame is in the modules.
- *Errors libuv reports to a listener* are in `Session` as an accepted session
  without a connection; what the listener does afterwards is libuv's.
- *uv_timer_t freed without uv_close* (`time.cc:17`): what libuv does with
  a stopped timer's memory is not part of the model.
- *Memory of requests* and its release, in the database managers.
- *A restart of the gateway*: what the other processes keep of its former life. A restart of the auth server is in `Gateway` as
  connections that break and logins that are never answered.
- *close of a database connection*: no script calls it. It would need a query
  that waits for the lock to notice that the connection is gone.

- *Size*: nearly all lines of the repository are `package/` and generated code,
  which the modules know only through its callers; the share of all lines that they
  model is small for that reason.

## 7. Plan

What is left, in this order:

1. **close of the database managers** in `Database`, with the discipline its callers
   would need (`redismanager.cc:90`, hazard of the list).
2. **A restart of the gateway**, with tags of its former life still held by the
   auth server, over `Gateway`.
3. **UDP**: the receive buffer and the session on the stack, with `SendPath`, once
   a script starts the UDP server.
4. **SmallCache with Database**: which of the requests that share `smallCache` can be
   given one block at the same time.
