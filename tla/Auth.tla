-------------------------------- MODULE Auth --------------------------------
(* The auth service (serviceServer/auth) with its two databases: the scripts   *)
(* database/auth_mysql.lua and database/auth_redis.lua connect, and connect    *)
(* again when that fails; a guest's login asks mysql for the guest, stores the *)
(* answer in redis and answers the gateway.  All of it runs on the loop; the   *)
(* threads of module Database do the waiting.                                  *)
EXTENDS Database

VARIABLES
  conn,        \* the databases whose connection the scripts have
  retry,       \* the databases whose scheduleOnce(..., 5000) is running
  login,       \* login[l]: "new", "asked", "answered" or "silent"
  answer       \* answer[l]: what was sent to the gateway

authVars == <<conn, retry, login, answer>>
vars == <<dbVars, authVars>>

(* The scripts are loaded: mysqlToAuth and redisToAuth have been called.       *)
Init == /\ DbInit
        /\ work = <<mysql_connect, redis_connect>>
        /\ conn = {}
        /\ retry = {}
        /\ login = [l \in Askers |-> "new"]
        /\ answer = [l \in Askers |-> none]

get(l) == [q |-> "get", of |-> l]
hmset(l) == [q |-> "hmset", of |-> l]
select == [q |-> "select", of |-> none]

------------------------------------------------------------------------------
(* at_recv_cmd, guestLogin and getGuestInfo: without a connection the login    *)
(* fails at once, and a failed login is not answered (guestLogin.lua:9-13).    *)
(* The key in the query plays no part here: it is the text "nil" for every     *)
(* login, since line 6 reads randkey and the field is RandKey.                 *)
guestLogin(l) ==
  /\ alive /\ login[l] = "new"
  /\ IF Mysql \in conn
     THEN /\ uv_queue_work(mysql_query(get(l)))
          /\ login' = [login EXCEPT ![l] = "asked"]
     ELSE /\ login' = [login EXCEPT ![l] = "silent"]
          /\ UNCHANGED work
  /\ UNCHANGED <<thread, done, lock, wire, index, stored, unset, alive, conn, retry, answer>>

(* The loop runs the callback of the request that was finished first.          *)
complete(op, d) == /\ alive /\ done # <<>>
                   /\ Head(done).req.op = op /\ Head(done).req.db = d
                   /\ done' = Tail(done)
                   /\ UNCHANGED <<thread, lock, wire, index, stored, unset>>

(* Mutant: the return after scheduling is missing. *)
connectFailedGoesOn(d) == /\ Head(done).err
                          /\ retry' = retry \cup {d}
                          /\ conn' = conn \cup {d}
                          /\ UNCHANGED work

connectFailed(d) == /\ Head(done).err
                    /\ retry' = retry \cup {d}
                    /\ UNCHANGED <<work, conn>>

mysqlConnected == /\ complete("connect", Mysql) /\ UNCHANGED alive
                  /\ \/ connectFailed(Mysql)
                     \/ /\ ~Head(done).err
                        /\ conn' = conn \cup {Mysql}
                        /\ UNCHANGED <<work, retry>>
                  /\ UNCHANGED <<login, answer>>

(* The redis script has its connection from here on, while the select that     *)
(* sets the connection to the database of the configuration is only queued.    *)
redisConnected == /\ complete("connect", Redis) /\ UNCHANGED alive
                  /\ \/ connectFailed(Redis)
                     \/ /\ ~Head(done).err
                        /\ conn' = conn \cup {Redis}
                        /\ uv_queue_work(redis_query(select))
                        /\ UNCHANGED retry
                  /\ UNCHANGED <<login, answer>>

(* The timer of a failed attempt fires: mysqlToAuth or redisToAuth again.      *)
mysqlToAuth == /\ alive /\ Mysql \in retry
               /\ retry' = retry \ {Mysql}
               /\ uv_queue_work(mysql_connect)
               /\ UNCHANGED <<thread, done, lock, wire, index, stored, unset, alive, conn, login, answer>>

redisToAuth == /\ alive /\ Redis \in retry
               /\ retry' = retry \ {Redis}
               /\ uv_queue_work(redis_connect)
               /\ UNCHANGED <<thread, done, lock, wire, index, stored, unset, alive, conn, login, answer>>

(* The callbacks of select and hmset only log.                                 *)
redis_query_complete == /\ complete("query", Redis)
                        /\ UNCHANGED <<work, alive, authVars>>

------------------------------------------------------------------------------
(* The statement failed: logged, and nothing else.                             *)
queryFailed(l) == /\ Head(done).err
                  /\ login' = [login EXCEPT ![l] = "silent"]
                  /\ UNCHANGED <<work, answer>>

(* No result and no error: the binding gives the script a text, and taking the *)
(* second of its rows for a table is an error of Lua (auth_mysql.lua:67-75).   *)
noResult(l) == /\ ~Head(done).err /\ Head(done).reply = none
               /\ login' = [login EXCEPT ![l] = "silent"]
               /\ UNCHANGED <<work, answer>>

(* There is no such guest: the format string of registGuest has five           *)
(* conversions and four arguments, so that it raises an error before it asks   *)
(* mysql for anything, and the login is not answered.                          *)
registGuest(l) == /\ Head(done).reply # none
                  /\ login' = [login EXCEPT ![l] = "silent"]
                  /\ UNCHANGED <<work, answer>>

sendAnswer(l, error) ==
  /\ login' = [login EXCEPT ![l] = "answered"]
  /\ answer' = [answer EXCEPT ![l] = [guestError |-> error, info |-> Head(done).reply.of]]

frozenGuest(l) == /\ Head(done).reply # none
                  /\ sendAnswer(l, -3)
                  /\ UNCHANGED work

(* setGuestInfo: without a connection the binding drops the command.           *)
set_guestInfo(l) == IF Redis \in conn THEN uv_queue_work(redis_query(hmset(l)))
                                      ELSE UNCHANGED work

knownGuest(l) == /\ Head(done).reply # none
                 /\ set_guestInfo(Head(done).reply.of)
                 /\ sendAnswer(l, 1)

(* mysql answers a login's query: what the row says is mysql's business.  A    *)
(* result that was never set may end the process when its rows are read, or    *)
(* when it is deleted after the callback.                                      *)
mysql_query_complete ==
  LET l == Head(done).req.ask.of
      neverSet == l \in unset /\ Head(done).reply # none
  IN /\ complete("query", Mysql)
     /\ \/ /\ \/ queryFailed(l)
              \/ noResult(l)
              \/ registGuest(l)
              \/ frozenGuest(l)
              \/ knownGuest(l)
           /\ alive' \in {TRUE, ~neverSet}
        \/ neverSet /\ alive' = FALSE /\ UNCHANGED <<work, login, answer>>
     /\ UNCHANGED <<conn, retry>>

loopStep == \/ mysqlConnected
            \/ redisConnected
            \/ redis_query_complete
            \/ mysql_query_complete

Next == \/ \E l \in Askers : guestLogin(l)
        \/ loopStep
        \/ mysqlToAuth
        \/ redisToAuth
        \/ \E w \in Workers : threadStep(w) /\ UNCHANGED authVars

Spec == Init /\ [][Next]_vars

(* The loop and the threads go on, timers fire, a database answers or breaks   *)
(* the connection, and one that is asked again and again accepts in the end.   *)
connectAccepted(w, d) ==
  /\ thread[w].req = [op |-> "connect", db |-> d, ask |-> none]
  /\ redis_connect_work(w) \/ mysql_connect_work(w)
  /\ ~done'[Len(done')].err
  /\ UNCHANGED authVars

Fairness == /\ WF_vars(loopStep)
            /\ WF_vars(mysqlToAuth) /\ WF_vars(redisToAuth)
            /\ \A w \in Workers : WF_vars(threadStep(w) /\ UNCHANGED authVars)
            /\ \A d \in Dbs : SF_vars(\E w \in Workers : connectAccepted(w, d))

FairSpec == Spec /\ Fairness

------------------------------------------------------------------------------
(* Type invariant of the managers' requests and the scripts' tables.           *)
TypeOK == /\ DbTypeOK
          /\ conn \subseteq Dbs
          /\ retry \subseteq Dbs
          /\ login \in [Askers -> {"new", "asked", "answered", "silent"}]
          /\ answer \in [Askers -> {none} \cup [guestError : {1, -3}, info : Askers]]

(* A login is answered with what mysql said to its own query, however the      *)
(* threads that query for several logins interleave (query_work of both        *)
(* managers, guestLogin.lua:43): unless mysql failed that very query with the  *)
(* error code 0, a failure of another one does it no harm.                     *)
OwnInfo == \A l \in Askers \ unset : answer[l] # none => answer[l].info = l

(* Where an attempt to connect to d can be: a request in the queue, with a     *)
(* thread or in front of its callback, a timer for the next one, a connection. *)
isConnect(r, d) == r.op = "connect" /\ r.db = d
queuedConnects(d) == {i \in 1..Len(work) : isConnect(work[i], d)}
begunConnects(d) == {w \in Workers : thread[w] # Idle /\ isConnect(thread[w].req, d)}
doneConnects(d) == {i \in 1..Len(done) : isConnect(done[i].req, d)}
attempts(d) == ({"queued"} \X queuedConnects(d)) \cup ({"begun"} \X begunConnects(d))
               \cup ({"done"} \X doneConnects(d))
               \cup ({"retry"} \X ({d} \cap retry)) \cup ({"conn"} \X ({d} \cap conn))

(* At any time a database has one connection, or one attempt to connect, or    *)
(* one timer for the next attempt: never none of them, never two (the callback *)
(* of mysqlToAuth and redisToAuth).                                            *)
ConnectOnce == \A d \in Dbs : \E a \in attempts(d) : attempts(d) = {a}

(* No query stays in the databases: a failed one, too, releases its connection *)
(* and ends in its callback, which is where a login is decided; and both       *)
(* connections are made in the end, whatever failed before: unless the process *)
(* crashed (redismanager.cc:138, mysqlmanager.cc:182).                         *)
QueriesEnd == /\ \A l \in Askers : login[l] = "asked" ~> (login[l] # "asked" \/ ~alive)
              /\ \A w \in Workers : thread[w] # Idle ~> (thread[w] = Idle \/ ~alive)
              /\ \A d \in Dbs : <>(d \in conn \/ ~alive)

(* Guests are stored in the redis database the configuration names             *)
(* (auth_redis.lua:18 selects it on the connection before it is used).         *)
StoredAtIndex == \A s \in stored : s[1] = dbIndex

(* Once the connection is set to the configured database it stays there, and   *)
(* no guest is stored in another one any more: the script connects no second   *)
(* time (auth_redis.lua:13), which would take the connection back to 0.        *)
OnceSelected ==
  [][index = dbIndex => /\ index' = dbIndex
                        /\ \A s \in stored' \ stored : s[1] = dbIndex]_vars
=============================================================================
