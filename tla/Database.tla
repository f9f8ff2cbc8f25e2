------------------------------ MODULE Database ------------------------------
(* The database managers of a process, database/redismanager.cc and            *)
(* database/mysqlmanager.cc: the loop queues requests for libuv's thread pool, *)
(* a thread works on the connection under the lock of its context, and the     *)
(* loop runs the callbacks in the order in which the requests were finished.   *)
(* The part of the loop is in the module of the scripts that ask (Auth).       *)
EXTENDS Integers, Sequences

CONSTANTS
  Workers,     \* the threads of libuv's pool (four, unless a user asks for more)
  Askers,      \* what commands are asked for: here, login requests
  dbIndex,     \* the redis database of the configuration (ServerConfig.lua:39)
  none

Mysql == "mysql"
Redis == "redis"
Dbs == {Mysql, Redis}

(* A command: what it does, and who asks.                                      *)
MysqlAsks == [q : {"get"}, of : Askers]
RedisAsks == [q : {"hmset"}, of : Askers] \cup [q : {"select"}, of : {none}]
Asks == MysqlAsks \cup RedisAsks

ASSUME DatabaseAssumption ==
  /\ none \notin Workers /\ none \notin Askers /\ none \notin Asks
  /\ dbIndex \in Nat

Requests == [op : {"connect"}, db : Dbs, ask : {none}]
       \cup [op : {"query"}, db : {Mysql}, ask : MysqlAsks]
       \cup [op : {"query"}, db : {Redis}, ask : RedisAsks]

VARIABLES
  work,        \* the requests no thread has begun
  thread,      \* thread[w]: how far its request is: "idle", "begun" or "sent"
  done,        \* the finished requests whose callback has not run
  lock,        \* lock[d]: the thread that holds the lock of d's context
  wire,        \* wire[d]: the commands sent to d whose reply nobody has read
  index,       \* the redis database the connection is set to
  stored,      \* what hmset wrote: <<database, asker>>
  unset,       \* the askers whose query went on with a result that was never set
  alive        \* FALSE once the process crashed

dbVars == <<work, thread, done, lock, wire, index, stored, unset, alive>>

Idle == [at |-> "idle", req |-> none]

DbInit == /\ thread = [w \in Workers |-> Idle]
          /\ done = <<>>
          /\ lock = [d \in Dbs |-> none]
          /\ wire = [d \in Dbs |-> <<>>]
          /\ index = 0
          /\ stored = {}
          /\ unset = {}
          /\ alive = TRUE

------------------------------------------------------------------------------
(* The loop hands a request to the pool.                                       *)
uv_queue_work(req) == work' = Append(work, req)

redis_connect == [op |-> "connect", db |-> Redis, ask |-> none]
mysql_connect == [op |-> "connect", db |-> Mysql, ask |-> none]
redis_query(ask) == [op |-> "query", db |-> Redis, ask |-> ask]
mysql_query(ask) == [op |-> "query", db |-> Mysql, ask |-> ask]

------------------------------------------------------------------------------
(* A thread takes the request that waits longest.                              *)
takeWork(w) == /\ alive /\ thread[w] = Idle /\ work # <<>>
               /\ thread' = [thread EXCEPT ![w] = [at |-> "begun", req |-> Head(work)]]
               /\ work' = Tail(work)
               /\ UNCHANGED <<done, lock, wire, index, stored, unset, alive>>

(* Its work function returns: the loop will run the callback.                  *)
finish(w, err, reply) ==
  /\ thread' = [thread EXCEPT ![w] = Idle]
  /\ done' = Append(done, [req |-> thread[w].req, err |-> err, reply |-> reply])

Working(w, op, d, at) == /\ alive /\ thread[w].at = at
                         /\ thread[w].req.op = op /\ thread[w].req.db = d

(* The server cannot be reached, within the time limit or at all; or a context *)
(* with its own lock and a new connection is made.                             *)
redis_connect_work(w) ==
  /\ Working(w, "connect", Redis, "begun")
  /\ \/ finish(w, TRUE, none) /\ UNCHANGED index
     \/ finish(w, FALSE, none) /\ index' = 0
  /\ UNCHANGED <<work, lock, wire, stored, unset, alive>>

mysql_connect_work(w) ==
  /\ Working(w, "connect", Mysql, "begun")
  /\ \E err \in BOOLEAN : finish(w, err, none)
  /\ UNCHANGED <<work, lock, wire, index, stored, unset, alive>>

(* Mutant: the command is sent without waiting for the lock. *)
sendCommandUnlocked(w, d) ==
  /\ Working(w, "query", d, "begun")
  /\ wire' = [wire EXCEPT ![d] = Append(@, thread[w].req.ask)]
  /\ thread' = [thread EXCEPT ![w].at = "sent"]
  /\ UNCHANGED <<work, done, lock, index, stored, unset, alive>>

(* The first half of query_work: take the lock, send the command.              *)
sendCommand(w, d) ==
  /\ Working(w, "query", d, "begun")
  /\ lock[d] = none
  /\ lock' = [lock EXCEPT ![d] = w]
  /\ wire' = [wire EXCEPT ![d] = Append(@, thread[w].req.ask)]
  /\ thread' = [thread EXCEPT ![w].at = "sent"]
  /\ UNCHANGED <<work, done, index, stored, unset, alive>>

(* The second half reads one reply, the oldest on the wire, and unlocks.       *)
readReply(d) == wire' = [wire EXCEPT ![d] = Tail(@)]
unlock(d) == lock' = [lock EXCEPT ![d] = none]

(* What a redis server does for a command it accepts.                          *)
execute(ask) ==
  /\ index' = IF ask.q = "select" THEN dbIndex ELSE index
  /\ stored' = IF ask.q = "hmset" THEN stored \cup {<<index, ask.of>>} ELSE stored

(* When the connection broke redisCommand returns NULL, and line 138 reads its *)
(* type: the process is gone.                                                  *)
replyIsNull == /\ alive' = FALSE
               /\ UNCHANGED <<work, thread, done, lock, wire, index, stored, unset>>

(* Mutant: the error is not handed to the callback. *)
redis_query_workNoError(w) ==
  /\ Working(w, "query", Redis, "sent") /\ wire[Redis] # <<>>
  /\ \/ /\ readReply(Redis) /\ unlock(Redis)
        /\ \/ finish(w, FALSE, none) /\ UNCHANGED <<index, stored>>
           \/ finish(w, FALSE, Head(wire[Redis])) /\ execute(Head(wire[Redis]))
        /\ UNCHANGED <<work, unset, alive>>
     \/ replyIsNull

(* redis answers with an error, with a value, or not at all.                   *)
redis_query_work(w) ==
  /\ Working(w, "query", Redis, "sent") /\ wire[Redis] # <<>>
  /\ \/ /\ readReply(Redis) /\ unlock(Redis)
        /\ \/ finish(w, TRUE, none) /\ UNCHANGED <<index, stored>>
           \/ finish(w, FALSE, Head(wire[Redis])) /\ execute(Head(wire[Redis]))
        /\ UNCHANGED <<work, unset, alive>>
     \/ replyIsNull

(* The exception of mysql has the error code 0: the catch block ends, and      *)
(* query_work goes on with a result, and perhaps a statement, that was never   *)
(* set.  Closing such a statement may end the process; if it does not, the     *)
(* query counts as successful and its result is whatever pointer the stack     *)
(* held: NULL, or the rows of some other query.                                *)
noErrorCode(w) ==
  \/ /\ readReply(Mysql) /\ unlock(Mysql)
     /\ \E reply \in MysqlAsks \cup {none} : finish(w, FALSE, reply)
     /\ unset' = unset \cup {thread[w].req.ask.of}
     /\ UNCHANGED alive
  \/ /\ alive' = FALSE
     /\ UNCHANGED <<thread, done, lock, wire, unset>>

(* Mutant: the error path returns without unlocking. *)
mysql_query_workKeepsLock(w) ==
  /\ Working(w, "query", Mysql, "sent") /\ wire[Mysql] # <<>>
  /\ \/ /\ readReply(Mysql)
        /\ \/ finish(w, TRUE, none) /\ UNCHANGED lock
           \/ finish(w, FALSE, Head(wire[Mysql])) /\ unlock(Mysql)
        /\ UNCHANGED <<unset, alive>>
     \/ noErrorCode(w)
  /\ UNCHANGED <<work, index, stored>>

(* mysql gives a result or throws, for a broken connection, too.               *)
mysql_query_work(w) ==
  /\ Working(w, "query", Mysql, "sent") /\ wire[Mysql] # <<>>
  /\ \/ /\ readReply(Mysql) /\ unlock(Mysql)
        /\ \/ finish(w, TRUE, none)
           \/ finish(w, FALSE, Head(wire[Mysql]))
        /\ UNCHANGED <<unset, alive>>
     \/ noErrorCode(w)
  /\ UNCHANGED <<work, index, stored>>

threadStep(w) == \/ takeWork(w)
                 \/ redis_connect_work(w)
                 \/ mysql_connect_work(w)
                 \/ \E d \in Dbs : sendCommand(w, d)
                 \/ redis_query_work(w)
                 \/ mysql_query_work(w)

------------------------------------------------------------------------------
DbTypeOK ==
  /\ work \in Seq(Requests)
  /\ thread \in [Workers -> {Idle} \cup [at : {"begun", "sent"}, req : Requests]]
  /\ done \in Seq([req : Requests, err : BOOLEAN, reply : Asks \cup {none}])
  /\ \A i \in 1..Len(done) : done[i].req.op = "query" =>
       /\ done[i].err => done[i].reply = none
       /\ done[i].reply = none => done[i].err \/ done[i].req.ask.of \in unset
  /\ lock \in [Dbs -> Workers \cup {none}]
  /\ wire \in [Dbs -> Seq(Asks)]
  /\ index \in {0, dbIndex}
  /\ stored \subseteq {0, dbIndex} \X Askers
  /\ unset \subseteq Askers
  /\ alive \in BOOLEAN

(* One command at a time on a connection: while a thread waits for the reply   *)
(* to a command it holds the lock and its command is alone on the wire; an     *)
(* unlocked connection has no unread reply for the next command to pick up     *)
(* (the lock of query_work in both managers).                                  *)
OneAtATime ==
  /\ \A w \in Workers : thread[w].at = "sent" =>
       /\ lock[thread[w].req.db] = w
       /\ wire[thread[w].req.db] = <<thread[w].req.ask>>
  /\ \A d \in Dbs : IF lock[d] = none THEN wire[d] = <<>>
                    ELSE thread[lock[d]].at = "sent" /\ thread[lock[d]].req.db = d
=============================================================================
