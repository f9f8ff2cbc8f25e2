----------------------------- MODULE Auth_proofs -----------------------------
(* Proofs about module Auth, for every number of pool threads and of logins:   *)
(* the lock of a context keeps its connection to one command at a time, and    *)
(* therefore every login is answered with the reply to its own query; the      *)
(* attempts to connect to a database are one at a time, and never none.        *)
EXTENDS Auth, TLAPS, SequenceTheorems

(* A finished query has either an error or the reply to its own command; if    *)
(* its result was never set, it has any reply to a query, or neither.          *)
Carries(x, never) ==
  /\ x.req.op = "query" => /\ x.err => x.reply = none
                           /\ x.reply = none => x.err \/ x.req.ask.of \in never
  /\ x.reply # none => x.reply = x.req.ask \/ x.req.ask.of \in never
  /\ x.req.op = "query" /\ x.req.db = Mysql /\ x.reply # none => x.reply \in MysqlAsks

OwnReplies == \A i \in 1..Len(done) : Carries(done[i], unset)

IInv == TypeOK /\ OneAtATime /\ OwnReplies /\ OwnInfo

Finished == [req : Requests, err : BOOLEAN, reply : Asks \cup {none}]

------------------------------------------------------------------------------
(* What the sequences of the model do: a queue that gets an element or loses   *)
(* its head keeps its elements.                                                *)
LEMMA AppendElements ==
  ASSUME NEW S, NEW s \in Seq(S), NEW e \in S
  PROVE  /\ Append(s, e) \in Seq(S)
         /\ Len(Append(s, e)) = Len(s) + 1 /\ Len(s) \in Nat
         /\ \A i \in 1..Len(s) + 1 :
              Append(s, e)[i] = IF i <= Len(s) THEN s[i] ELSE e
BY AppendProperties, LenProperties

LEMMA TailElements ==
  ASSUME NEW S, NEW s \in Seq(S), s # <<>>
  PROVE  /\ Tail(s) \in Seq(S) /\ Head(s) \in S /\ Head(s) = s[1]
         /\ Len(s) \in Nat /\ Len(s) >= 1 /\ Len(Tail(s)) = Len(s) - 1
         /\ \A i \in 1..Len(s) - 1 : Tail(s)[i] = s[i + 1]
BY HeadTailProperties, LenProperties, EmptySeq

LEMMA SingletonTail ==
  ASSUME NEW a
  PROVE  <<a>> # <<>> /\ Head(<<a>>) = a /\ Tail(<<a>>) = <<>>
OBVIOUS

LEMMA SingletonAppend ==
  ASSUME NEW a
  PROVE  Append(<<>>, a) = <<a>>
OBVIOUS

LEMMA CarriesMore ==
  ASSUME NEW x, NEW S, NEW T, Carries(x, S), S \subseteq T
  PROVE  Carries(x, T)
BY DEF Carries

------------------------------------------------------------------------------
(* Threads.                                                                    *)
LEMMA WorkingThread ==
  ASSUME TypeOK, NEW w \in Workers, thread[w].at \in {"begun", "sent"}
  PROVE  /\ thread[w] # Idle /\ thread[w].req \in Requests
         /\ thread[w] = [at |-> thread[w].at, req |-> thread[w].req]
BY DEF TypeOK, DbTypeOK, Idle

LEMMA TakeWork ==
  ASSUME IInv, NEW w \in Workers, takeWork(w), UNCHANGED authVars
  PROVE  IInv'
<1>1. work \in Seq(Requests) /\ work # <<>>
  BY DEF IInv, TypeOK, DbTypeOK, takeWork
<1>2. Tail(work) \in Seq(Requests) /\ Head(work) \in Requests
  BY <1>1, TailElements
<1>3. TypeOK'
  <2>1. thread' \in [Workers -> {Idle} \cup [at : {"begun", "sent"}, req : Requests]]
    BY <1>2 DEF IInv, TypeOK, DbTypeOK, takeWork
  <2> QED
    BY <1>2, <2>1 DEF IInv, TypeOK, DbTypeOK, takeWork, authVars
<1>4. OneAtATime'
  <2>1. thread[w].at = "idle" /\ thread'[w].at = "begun"
    BY DEF IInv, TypeOK, DbTypeOK, takeWork, Idle
  <2>2. \A v \in Workers : v # w => thread'[v] = thread[v]
    BY DEF IInv, TypeOK, DbTypeOK, takeWork
  <2>3. UNCHANGED <<lock, wire>>
    BY DEF takeWork
  <2>4. \A c \in Dbs : lock[c] # none => lock[c] \in Workers /\ lock[c] # w
    BY <2>1 DEF IInv, TypeOK, DbTypeOK, OneAtATime
  <2>5. ASSUME NEW v \in Workers, thread'[v].at = "sent"
        PROVE  v # w /\ thread'[v] = thread[v]
    BY <2>1, <2>2, <2>5
  <2>6. \A v \in Workers : thread'[v].at = "sent" =>
           lock'[thread'[v].req.db] = v /\ wire'[thread'[v].req.db] = <<thread'[v].req.ask>>
    BY <2>3, <2>5 DEF IInv, OneAtATime
  <2>7. \A c \in Dbs : IF lock'[c] = none THEN wire'[c] = <<>>
                      ELSE thread'[lock'[c]].at = "sent" /\ thread'[lock'[c]].req.db = c
    BY <2>2, <2>3, <2>4 DEF IInv, OneAtATime
  <2> QED
    BY <2>6, <2>7 DEF OneAtATime
<1>5. UNCHANGED <<done, unset, answer>>
  BY DEF takeWork, authVars
<1> QED
  BY <1>3, <1>4, <1>5 DEF IInv, OwnReplies, OwnInfo

(* A work function returns: what the loop finds about it in done.              *)
LEMMA Finish ==
  ASSUME IInv, NEW w \in Workers, NEW err \in BOOLEAN, NEW reply \in Asks \cup {none},
         thread[w].at \in {"begun", "sent"}, unset \subseteq unset',
         Carries([req |-> thread[w].req, err |-> err, reply |-> reply], unset'),
         finish(w, err, reply)
  PROVE  /\ done' \in Seq(Finished)
         /\ OwnReplies'
         /\ thread' \in [Workers -> {Idle} \cup [at : {"begun", "sent"}, req : Requests]]
         /\ thread'[w] = Idle
         /\ \A v \in Workers : v # w => thread'[v] = thread[v]
<1> DEFINE e == [req |-> thread[w].req, err |-> err, reply |-> reply]
<1>1. e \in Finished
  BY WorkingThread DEF IInv, Finished
<1>2. done \in Seq(Finished) /\ done' = Append(done, e)
  BY DEF IInv, TypeOK, DbTypeOK, Finished, finish
<1>3. Carries(e, unset')
  OBVIOUS
<1>4. thread' = [thread EXCEPT ![w] = Idle]
  BY DEF finish
<1> HIDE DEF e
<1>5. /\ done' \in Seq(Finished) /\ Len(done') = Len(done) + 1 /\ Len(done) \in Nat
      /\ \A i \in 1..Len(done) + 1 : done'[i] = IF i <= Len(done) THEN done[i] ELSE e
  BY <1>1, <1>2, AppendElements
<1>6. ASSUME NEW i \in 1..Len(done')
      PROVE  Carries(done'[i], unset')
  <2>1. CASE i <= Len(done)
    <3>1. i \in 1..Len(done) /\ done'[i] = done[i]
      BY <1>5, <2>1
    <3>2. Carries(done[i], unset)
      BY <3>1 DEF IInv, OwnReplies
    <3> QED
      BY <3>1, <3>2, CarriesMore
  <2>2. CASE ~(i <= Len(done))
    BY <1>3, <1>5, <2>2
  <2> QED
    BY <2>1, <2>2
<1>7. OwnReplies'
  BY <1>6 DEF OwnReplies
<1> QED
  BY <1>4, <1>5, <1>7 DEF IInv, TypeOK, DbTypeOK

LEMMA ConnectWork ==
  ASSUME IInv, NEW w \in Workers, redis_connect_work(w) \/ mysql_connect_work(w),
         UNCHANGED authVars
  PROVE  IInv'
<1>1. PICK err \in BOOLEAN : finish(w, err, none)
  BY DEF redis_connect_work, mysql_connect_work
<1>2. /\ thread[w].at = "begun" /\ thread[w].req.op = "connect"
      /\ UNCHANGED <<work, lock, wire, stored, unset, alive>>
      /\ index' \in {0, index}
  BY DEF redis_connect_work, mysql_connect_work, Working
<1>3. /\ done' \in Seq(Finished)
      /\ OwnReplies'
      /\ thread' \in [Workers -> {Idle} \cup [at : {"begun", "sent"}, req : Requests]]
      /\ thread'[w] = Idle
      /\ \A v \in Workers : v # w => thread'[v] = thread[v]
  <2>1. Carries([req |-> thread[w].req, err |-> err, reply |-> none], unset')
    BY <1>2 DEF Carries
  <2>2. unset \subseteq unset'
    BY <1>2
  <2> QED
    BY <1>1, <1>2, <2>1, <2>2, Finish
<1>4. TypeOK'
  BY <1>2, <1>3 DEF IInv, TypeOK, DbTypeOK, Finished, OwnReplies, Carries, authVars
<1>5. OneAtATime'
  <2>1. \A v \in Workers : thread'[v].at = "sent" => v # w /\ thread[v].at = "sent"
    BY <1>3 DEF Idle
  <2>2. \A c \in Dbs : lock[c] # none => lock[c] \in Workers /\ lock[c] # w
    BY <1>2 DEF IInv, TypeOK, DbTypeOK, OneAtATime
  <2>3. lock' = lock /\ wire' = wire
    BY <1>2
  <2>4. ASSUME NEW v \in Workers, thread'[v].at = "sent"
        PROVE  lock'[thread'[v].req.db] = v
               /\ wire'[thread'[v].req.db] = <<thread'[v].req.ask>>
    BY <1>3, <2>1, <2>3, <2>4 DEF IInv, OneAtATime
  <2>5. ASSUME NEW c \in Dbs
        PROVE  IF lock'[c] = none THEN wire'[c] = <<>>
               ELSE thread'[lock'[c]].at = "sent" /\ thread'[lock'[c]].req.db = c
    BY <1>3, <2>2, <2>3 DEF IInv, OneAtATime
  <2> QED
    BY <2>4, <2>5 DEF OneAtATime
<1> QED
  BY <1>2, <1>3, <1>4, <1>5 DEF IInv, OwnInfo, authVars

LEMMA SendCommand ==
  ASSUME IInv, NEW w \in Workers, NEW d \in Dbs, sendCommand(w, d), UNCHANGED authVars
  PROVE  IInv'
<1>1. /\ thread[w].at = "begun" /\ thread[w].req.op = "query" /\ thread[w].req.db = d
      /\ lock[d] = none
      /\ UNCHANGED <<work, done, index, stored, unset, alive>>
  BY DEF sendCommand, Working
<1>2. thread[w].req \in Requests /\ thread[w].req.ask \in Asks
      /\ thread[w] = [at |-> "begun", req |-> thread[w].req]
  BY <1>1, WorkingThread DEF IInv, Requests, Asks
<1>3. wire[d] = <<>>
  BY <1>1 DEF IInv, OneAtATime
<1>4. wire' = [wire EXCEPT ![d] = <<thread[w].req.ask>>]
  BY <1>3, SingletonAppend DEF IInv, TypeOK, DbTypeOK, sendCommand
<1>5. lock' = [lock EXCEPT ![d] = w]
  BY DEF sendCommand
<1>6. thread' = [thread EXCEPT ![w] = [at |-> "sent", req |-> thread[w].req]]
  <2>1. [thread[w] EXCEPT !.at = "sent"] = [at |-> "sent", req |-> thread[w].req]
    BY <1>2
  <2>2. thread' = [thread EXCEPT ![w] = [thread[w] EXCEPT !.at = "sent"]]
    BY DEF IInv, TypeOK, DbTypeOK, sendCommand
  <2> QED
    BY <2>1, <2>2
<1>7. <<thread[w].req.ask>> \in Seq(Asks)
  BY <1>2
<1>8. TypeOK'
  BY <1>1, <1>2, <1>4, <1>5, <1>6, <1>7 DEF IInv, TypeOK, DbTypeOK, authVars
<1>9. OneAtATime'
  <2>1. ASSUME NEW v \in Workers, thread'[v].at = "sent"
        PROVE  lock'[thread'[v].req.db] = v
               /\ wire'[thread'[v].req.db] = <<thread'[v].req.ask>>
    <3>1. CASE v = w
      BY <3>1, <1>1, <1>4, <1>5, <1>6 DEF IInv, TypeOK, DbTypeOK
    <3>2. CASE v # w
      <4>1. thread'[v] = thread[v]
        BY <3>2, <1>6 DEF IInv, TypeOK, DbTypeOK
      <4>2. lock[thread[v].req.db] = v /\ wire[thread[v].req.db] = <<thread[v].req.ask>>
        BY <4>1, <2>1 DEF IInv, OneAtATime
      <4>3. thread[v].req.db # d
        BY <4>2, <1>1, DatabaseAssumption
      <4> QED
        BY <4>1, <4>2, <4>3, <1>4, <1>5 DEF IInv, TypeOK, DbTypeOK
    <3> QED
      BY <3>1, <3>2
  <2>2. ASSUME NEW c \in Dbs
        PROVE  IF lock'[c] = none THEN wire'[c] = <<>>
               ELSE thread'[lock'[c]].at = "sent" /\ thread'[lock'[c]].req.db = c
    <3>1. CASE c = d
      BY <3>1, <1>1, <1>5, <1>6, DatabaseAssumption DEF IInv, TypeOK, DbTypeOK
    <3>2. CASE c # d
      <4>1. lock'[c] = lock[c] /\ wire'[c] = wire[c]
        BY <3>2, <1>4, <1>5 DEF IInv, TypeOK, DbTypeOK
      <4>2. lock[c] # none => lock[c] \in Workers /\ lock[c] # w
        BY <1>1 DEF IInv, TypeOK, DbTypeOK, OneAtATime
      <4>3. \A v \in Workers : v # w => thread'[v] = thread[v]
        BY <1>6 DEF IInv, TypeOK, DbTypeOK
      <4> QED
        BY <4>1, <4>2, <4>3 DEF IInv, OneAtATime
    <3> QED
      BY <3>1, <3>2
  <2> QED
    BY <2>1, <2>2 DEF OneAtATime
<1> QED
  BY <1>1, <1>8, <1>9 DEF IInv, OwnReplies, OwnInfo, authVars

(* A query is over: its reply was its own, unless its result was never set,    *)
(* and the connection is free again.                                           *)
LEMMA QueryWork ==
  ASSUME IInv, NEW w \in Workers, NEW d \in Dbs, NEW err \in BOOLEAN,
         NEW reply \in Asks \cup {none},
         Working(w, "query", d, "sent"), readReply(d), unlock(d), finish(w, err, reply),
         \/ reply = (IF err THEN none ELSE Head(wire[d])) /\ unset' = unset
         \/ /\ d = Mysql /\ ~err /\ reply \in MysqlAsks \cup {none}
            /\ unset' = unset \cup {thread[w].req.ask.of},
         UNCHANGED <<work, alive, authVars>>,
         index' \in {0, dbIndex}, stored' \subseteq {0, dbIndex} \X Askers
  PROVE  IInv'
<1>1. /\ thread[w].at = "sent" /\ thread[w].req.op = "query" /\ thread[w].req.db = d
      /\ thread[w].req \in Requests
  BY WorkingThread DEF IInv, Working
<1>2. lock[d] = w /\ wire[d] = <<thread[w].req.ask>>
  BY <1>1 DEF IInv, OneAtATime
<1>3. Head(wire[d]) = thread[w].req.ask /\ wire' = [wire EXCEPT ![d] = <<>>]
  BY <1>2, SingletonTail DEF IInv, TypeOK, DbTypeOK, readReply
<1>4. thread[w].req.ask \in Asks /\ thread[w].req.ask # none
  BY <1>1, DatabaseAssumption DEF Requests, Asks
<1>5. d = Mysql => thread[w].req.ask \in MysqlAsks /\ thread[w].req.ask.of \in Askers
  BY <1>1 DEF Requests, MysqlAsks, Mysql, Redis
<1>6. unset \subseteq unset' /\ unset' \subseteq Askers
  BY <1>5 DEF IInv, TypeOK, DbTypeOK
<1>7. Carries([req |-> thread[w].req, err |-> err, reply |-> reply], unset')
  <2>1. CASE reply = (IF err THEN none ELSE Head(wire[d]))
    BY <2>1, <1>1, <1>3, <1>4, <1>5 DEF Carries
  <2>2. CASE /\ d = Mysql /\ ~err /\ reply \in MysqlAsks \cup {none}
             /\ unset' = unset \cup {thread[w].req.ask.of}
    BY <2>2 DEF Carries
  <2> QED
    BY <2>1, <2>2
<1>8. /\ done' \in Seq(Finished)
      /\ OwnReplies'
      /\ thread' \in [Workers -> {Idle} \cup [at : {"begun", "sent"}, req : Requests]]
      /\ thread'[w] = Idle
      /\ \A v \in Workers : v # w => thread'[v] = thread[v]
  BY <1>1, <1>6, <1>7, Finish
<1>9. lock' = [lock EXCEPT ![d] = none]
  BY DEF unlock
<1>10. TypeOK'
  <2>1. wire' \in [Dbs -> Seq(Asks)] /\ lock' \in [Dbs -> Workers \cup {none}]
    BY <1>3, <1>9 DEF IInv, TypeOK, DbTypeOK
  <2> QED
    BY <1>6, <1>8, <2>1 DEF IInv, TypeOK, DbTypeOK, Finished, OwnReplies, Carries, authVars
<1>11. OneAtATime'
  <2>1. \A v \in Workers : v # w /\ thread[v].at = "sent" => thread[v].req.db # d
    BY <1>2 DEF IInv, OneAtATime
  <2>6. \A v \in Workers : thread[v].at = "sent" => thread[v].req.db \in Dbs
    BY WorkingThread DEF IInv, Requests, Dbs
  <2>2. \A c \in Dbs : c # d => lock'[c] = lock[c] /\ wire'[c] = wire[c]
    BY <1>3, <1>9 DEF IInv, TypeOK, DbTypeOK
  <2>3. \A v \in Workers : thread'[v].at = "sent" => v # w
    BY <1>8 DEF Idle
  <2>4. lock'[d] = none /\ wire'[d] = <<>>
    BY <1>3, <1>9 DEF IInv, TypeOK, DbTypeOK
  <2>5. \A c \in Dbs : c # d /\ lock[c] # none => lock[c] \in Workers /\ lock[c] # w
    BY <1>1 DEF IInv, TypeOK, DbTypeOK, OneAtATime
  <2>7. ASSUME NEW v \in Workers, thread'[v].at = "sent"
        PROVE  lock'[thread'[v].req.db] = v
               /\ wire'[thread'[v].req.db] = <<thread'[v].req.ask>>
    <3>1. v # w /\ thread'[v] = thread[v] /\ thread[v].at = "sent"
      BY <1>8, <2>3, <2>7
    <3>2. thread[v].req.db \in Dbs /\ thread[v].req.db # d
      BY <3>1, <2>1, <2>6
    <3>3. lock[thread[v].req.db] = v /\ wire[thread[v].req.db] = <<thread[v].req.ask>>
      BY <3>1 DEF IInv, OneAtATime
    <3> QED
      BY <3>1, <3>2, <3>3, <2>2
  <2>8. ASSUME NEW c \in Dbs
        PROVE  IF lock'[c] = none THEN wire'[c] = <<>>
               ELSE thread'[lock'[c]].at = "sent" /\ thread'[lock'[c]].req.db = c
    <3>1. CASE c = d
      BY <3>1, <2>4
    <3>2. CASE c # d
      BY <3>2, <1>8, <2>2, <2>5 DEF IInv, OneAtATime
    <3> QED
      BY <3>1, <3>2
  <2> QED
    BY <2>7, <2>8 DEF OneAtATime
<1> QED
  BY <1>6, <1>8, <1>10, <1>11 DEF IInv, OwnInfo, authVars

(* The process dies in the middle of a query.                                  *)
LEMMA Died ==
  ASSUME IInv, alive' = FALSE,
         UNCHANGED <<work, thread, done, lock, wire, index, stored, unset, authVars>>
  PROVE  IInv'
<1>1. TypeOK'
  BY DEF IInv, TypeOK, DbTypeOK, authVars
<1> QED
  BY <1>1 DEF IInv, OneAtATime, OwnReplies, OwnInfo, authVars

LEMMA RedisQueryWork ==
  ASSUME IInv, NEW w \in Workers, redis_query_work(w), UNCHANGED authVars
  PROVE  IInv'
<1>1. CASE replyIsNull
  BY <1>1, Died DEF replyIsNull, authVars
<1>2. CASE /\ readReply(Redis) /\ unlock(Redis)
           /\ \/ finish(w, TRUE, none) /\ UNCHANGED <<index, stored>>
              \/ finish(w, FALSE, Head(wire[Redis])) /\ execute(Head(wire[Redis]))
           /\ UNCHANGED <<work, unset, alive>>
  <2>1. Working(w, "query", Redis, "sent") /\ Redis \in Dbs
    BY DEF redis_query_work, Dbs
  <2>2. Head(wire[Redis]) \in Asks
    <3>1. wire[Redis] \in Seq(Asks) /\ wire[Redis] # <<>>
      BY <2>1 DEF IInv, TypeOK, DbTypeOK, redis_query_work
    <3> QED
      BY <3>1, TailElements
  <2>3. index' \in {0, dbIndex} /\ stored' \subseteq {0, dbIndex} \X Askers
    <3>1. Head(wire[Redis]).q = "hmset" => Head(wire[Redis]).of \in Askers
      BY <2>2 DEF Asks, MysqlAsks, RedisAsks
    <3>2. index \in {0, dbIndex} /\ stored \subseteq {0, dbIndex} \X Askers
      BY DEF IInv, TypeOK, DbTypeOK
    <3>3. CASE UNCHANGED <<index, stored>>
      BY <3>2, <3>3
    <3>4. CASE execute(Head(wire[Redis]))
      BY <3>1, <3>2, <3>4 DEF execute
    <3> QED
      BY <1>2, <3>3, <3>4
  <2>4. CASE finish(w, TRUE, none)
    BY <1>2, <2>1, <2>3, <2>4, QueryWork
  <2>5. CASE finish(w, FALSE, Head(wire[Redis]))
    BY <1>2, <2>1, <2>2, <2>3, <2>5, QueryWork
  <2> QED
    BY <1>2, <2>4, <2>5
<1> QED
  BY <1>1, <1>2 DEF redis_query_work

LEMMA MysqlQueryWork ==
  ASSUME IInv, NEW w \in Workers, mysql_query_work(w), UNCHANGED authVars
  PROVE  IInv'
<1>1. /\ Working(w, "query", Mysql, "sent") /\ wire[Mysql] # <<>>
      /\ UNCHANGED <<work, index, stored>> /\ Mysql \in Dbs
  BY DEF mysql_query_work, Dbs
<1>2. index' \in {0, dbIndex} /\ stored' \subseteq {0, dbIndex} \X Askers
  BY <1>1 DEF IInv, TypeOK, DbTypeOK
<1>3. Head(wire[Mysql]) \in Asks
  <2>1. wire[Mysql] \in Seq(Asks)
    BY <1>1 DEF IInv, TypeOK, DbTypeOK
  <2> QED
    BY <1>1, <2>1, TailElements
<1>4. CASE readReply(Mysql) /\ unlock(Mysql) /\ finish(w, TRUE, none)
           /\ UNCHANGED <<unset, alive>>
  BY <1>1, <1>2, <1>4, QueryWork
<1>5. CASE readReply(Mysql) /\ unlock(Mysql) /\ finish(w, FALSE, Head(wire[Mysql]))
           /\ UNCHANGED <<unset, alive>>
  BY <1>1, <1>2, <1>3, <1>5, QueryWork
<1>6. CASE noErrorCode(w) /\ alive' = FALSE /\ UNCHANGED <<thread, done, lock, wire, unset>>
  BY <1>1, <1>6, Died DEF authVars
<1>7. CASE /\ readReply(Mysql) /\ unlock(Mysql)
           /\ \E reply \in MysqlAsks \cup {none} : finish(w, FALSE, reply)
           /\ unset' = unset \cup {thread[w].req.ask.of}
           /\ UNCHANGED alive
  <2>1. PICK reply \in MysqlAsks \cup {none} : finish(w, FALSE, reply)
    BY <1>7
  <2>2. reply \in Asks \cup {none}
    BY DEF Asks
  <2> QED
    BY <1>1, <1>2, <1>7, <2>1, <2>2, QueryWork
<1> QED
  BY <1>4, <1>5, <1>6, <1>7 DEF mysql_query_work, noErrorCode

------------------------------------------------------------------------------
(* The loop.  What a callback does to the scripts' own tables.                 *)
LEMMA Queued ==
  ASSUME IInv, NEW req \in Requests, uv_queue_work(req)
  PROVE  work' \in Seq(Requests)
BY AppendElements DEF IInv, TypeOK, DbTypeOK, uv_queue_work

LEMMA Complete ==
  ASSUME IInv, NEW op, NEW d, complete(op, d)
  PROVE  /\ Head(done) \in Finished
         /\ Head(done).req.op = op /\ Head(done).req.db = d
         /\ Carries(Head(done), unset)
         /\ done' \in Seq(Finished)
         /\ OwnReplies' /\ OneAtATime'
         /\ UNCHANGED <<thread, lock, wire, index, stored, unset>>
<1>1. /\ done \in Seq(Finished) /\ done # <<>> /\ done' = Tail(done)
      /\ Head(done).req.op = op /\ Head(done).req.db = d
      /\ UNCHANGED <<thread, lock, wire, index, stored, unset>>
  BY DEF IInv, TypeOK, DbTypeOK, Finished, complete
<1>2. /\ done' \in Seq(Finished) /\ Head(done) \in Finished /\ Head(done) = done[1]
      /\ Len(done) \in Nat /\ Len(done) >= 1 /\ Len(done') = Len(done) - 1
      /\ \A i \in 1..Len(done) - 1 : done'[i] = done[i + 1]
  BY <1>1, TailElements
<1>3. OneAtATime'
  BY <1>1 DEF IInv, OneAtATime
<1>4. Carries(Head(done), unset)
  BY <1>2 DEF IInv, OwnReplies
<1>5. OwnReplies'
  <2>1. \A i \in 1..Len(done') : i + 1 \in 1..Len(done) /\ done'[i] = done[i + 1]
    BY <1>2
  <2> QED
    BY <1>1, <2>1 DEF IInv, OwnReplies
<1> QED
  BY <1>1, <1>2, <1>3, <1>4, <1>5

LEMMA Connected ==
  ASSUME IInv, mysqlConnected \/ redisConnected
  PROVE  IInv'
<1>1. PICK d \in Dbs : complete("connect", d)
  BY DEF mysqlConnected, redisConnected, Dbs
<1>2. /\ done' \in Seq(Finished) /\ OwnReplies' /\ OneAtATime'
      /\ UNCHANGED <<thread, lock, wire, index, stored, unset>>
  BY <1>1, Complete
<1>3. redis_query(select) \in Requests
  BY DEF redis_query, select, Requests, RedisAsks
<1>4. work' \in Seq(Requests)
  BY <1>3, Queued
     DEF IInv, TypeOK, DbTypeOK, mysqlConnected, redisConnected, connectFailed
<1>5. conn' \subseteq Dbs /\ retry' \subseteq Dbs /\ UNCHANGED <<alive, login, answer>>
  BY DEF IInv, TypeOK, mysqlConnected, redisConnected, connectFailed, Dbs
<1>6. TypeOK'
  BY <1>2, <1>4, <1>5 DEF IInv, TypeOK, DbTypeOK, Finished, OwnReplies, Carries
<1> QED
  BY <1>2, <1>5, <1>6 DEF IInv, OwnInfo

LEMMA RedisQueryComplete ==
  ASSUME IInv, redis_query_complete
  PROVE  IInv'
<1>1. complete("query", Redis) /\ UNCHANGED <<work, alive, authVars>>
  BY DEF redis_query_complete
<1>2. /\ done' \in Seq(Finished) /\ OwnReplies' /\ OneAtATime'
      /\ UNCHANGED <<thread, lock, wire, index, stored, unset>>
  BY <1>1, Complete
<1>3. TypeOK'
  BY <1>1, <1>2 DEF IInv, TypeOK, DbTypeOK, Finished, OwnReplies, Carries, authVars
<1> QED
  BY <1>1, <1>2, <1>3 DEF IInv, OwnInfo, authVars

(* The callback of a login's query: a reply, if there is one, is to a query of *)
(* a login, and to this one's unless its result was never set.                 *)
LEMMA MysqlReply ==
  ASSUME IInv, complete("query", Mysql)
  PROVE  /\ Head(done).req.ask.of \in Askers
         /\ Head(done).reply # none => Head(done).reply.of \in Askers
         /\ Head(done).reply # none /\ Head(done).req.ask.of \notin unset
              => Head(done).reply.of = Head(done).req.ask.of
<1>1. /\ Head(done) \in Finished /\ Carries(Head(done), unset)
      /\ Head(done).req.op = "query" /\ Head(done).req.db = Mysql
  BY Complete
<1>2. Head(done).req \in Requests
  BY <1>1 DEF Finished
<1>3. Head(done).req.ask \in MysqlAsks
  BY <1>1, <1>2 DEF Requests, Mysql, Redis
<1>4. Head(done).reply # none => Head(done).reply \in MysqlAsks
  BY <1>1 DEF Carries
<1> QED
  BY <1>1, <1>3, <1>4 DEF Carries, MysqlAsks

LEMMA MysqlQueryComplete ==
  ASSUME IInv, mysql_query_complete
  PROVE  IInv'
<1> DEFINE l == Head(done).req.ask.of
           i == Head(done).reply.of
<1>1. complete("query", Mysql)
  BY DEF mysql_query_complete
<1>2. /\ done' \in Seq(Finished) /\ OwnReplies' /\ OneAtATime'
      /\ UNCHANGED <<thread, lock, wire, index, stored, unset>>
  BY <1>1, Complete
<1>3. /\ l \in Askers /\ (Head(done).reply # none => i \in Askers)
      /\ Head(done).reply # none /\ l \notin unset => i = l
  BY <1>1, MysqlReply
<1>4. \/ queryFailed(l) \/ noResult(l) \/ registGuest(l) \/ frozenGuest(l) \/ knownGuest(l)
      \/ UNCHANGED <<work, login, answer>>
  BY DEF mysql_query_complete
<1>5. UNCHANGED <<conn, retry>> /\ alive' \in BOOLEAN
  BY DEF mysql_query_complete
<1> HIDE DEF l
<1>6. /\ work' \in Seq(Requests)
      /\ login' \in [Askers -> {"new", "asked", "answered", "silent"}]
      /\ \/ answer' = answer
         \/ /\ Head(done).reply # none
            /\ \E error \in {1, -3} :
                 answer' = [answer EXCEPT ![l] = [guestError |-> error, info |-> i]]
  <2>1. CASE queryFailed(l) \/ noResult(l) \/ registGuest(l)
    BY <2>1 DEF IInv, TypeOK, DbTypeOK, queryFailed, noResult, registGuest
  <2>2. CASE frozenGuest(l)
    BY <2>2 DEF IInv, TypeOK, DbTypeOK, frozenGuest, sendAnswer
  <2>3. CASE knownGuest(l)
    <3>1. set_guestInfo(i) /\ sendAnswer(l, 1) /\ Head(done).reply # none
      BY <2>3 DEF knownGuest
    <3>2. redis_query(hmset(i)) \in Requests
      BY <1>3, <3>1 DEF redis_query, hmset, Requests, RedisAsks
    <3>3. work' \in Seq(Requests)
      BY <3>1, <3>2, Queued DEF IInv, TypeOK, DbTypeOK, set_guestInfo
    <3> QED
      BY <3>1, <3>3 DEF IInv, TypeOK, sendAnswer
  <2>4. CASE UNCHANGED <<work, login, answer>>
    BY <2>4 DEF IInv, TypeOK, DbTypeOK
  <2> QED
    BY <1>4, <2>1, <2>2, <2>3, <2>4
<1> HIDE DEF i
<1>7. answer' \in [Askers -> {none} \cup [guestError : {1, -3}, info : Askers]]
  BY <1>3, <1>6 DEF IInv, TypeOK
<1>8. OwnInfo'
  BY <1>2, <1>3, <1>6 DEF IInv, TypeOK, OwnInfo
<1>9. TypeOK'
  BY <1>2, <1>5, <1>6, <1>7 DEF IInv, TypeOK, DbTypeOK, Finished, OwnReplies, Carries
<1> QED
  BY <1>2, <1>8, <1>9 DEF IInv

(* A login arrives, or a timer fires: at most one more request in the queue.   *)
LEMMA Asked ==
  ASSUME IInv, (\E l \in Askers : guestLogin(l)) \/ mysqlToAuth \/ redisToAuth
  PROVE  IInv'
<1>1. \A l \in Askers : mysql_query(get(l)) \in Requests
  BY DEF mysql_query, get, Requests, MysqlAsks
<1>2. mysql_connect \in Requests /\ redis_connect \in Requests
  BY DEF mysql_connect, redis_connect, Requests, Dbs
<1>3. work' \in Seq(Requests)
  BY <1>1, <1>2, Queued
     DEF IInv, TypeOK, DbTypeOK, guestLogin, mysqlToAuth, redisToAuth
<1>4. /\ UNCHANGED <<thread, done, lock, wire, index, stored, unset, alive, conn, answer>>
      /\ retry' \subseteq retry
      /\ login' \in [Askers -> {"new", "asked", "answered", "silent"}]
  BY DEF IInv, TypeOK, guestLogin, mysqlToAuth, redisToAuth
<1>5. TypeOK'
  BY <1>3, <1>4 DEF IInv, TypeOK, DbTypeOK
<1> QED
  BY <1>4, <1>5 DEF IInv, OneAtATime, OwnReplies, OwnInfo

------------------------------------------------------------------------------
LEMMA InitIInv == Init => IInv
<1> SUFFICES ASSUME Init PROVE IInv
  OBVIOUS
<1>1. work \in Seq(Requests)
  <2>1. mysql_connect \in Requests /\ redis_connect \in Requests
    BY DEF mysql_connect, redis_connect, Requests, Dbs
  <2> QED
    BY <2>1 DEF Init
<1>2. TypeOK
  BY <1>1 DEF Init, DbInit, TypeOK, DbTypeOK
<1>3. OneAtATime
  BY DEF Init, DbInit, OneAtATime, Idle
<1> QED
  BY <1>2, <1>3 DEF Init, DbInit, IInv, OwnReplies, OwnInfo

LEMMA NextIInv == IInv /\ [Next]_vars => IInv'
<1> SUFFICES ASSUME IInv, [Next]_vars PROVE IInv'
  OBVIOUS
<1>1. CASE \E w \in Workers : threadStep(w) /\ UNCHANGED authVars
  BY <1>1, TakeWork, ConnectWork, SendCommand, RedisQueryWork, MysqlQueryWork
     DEF threadStep
<1>2. CASE loopStep
  BY <1>2, Connected, RedisQueryComplete, MysqlQueryComplete DEF loopStep
<1>3. CASE (\E l \in Askers : guestLogin(l)) \/ mysqlToAuth \/ redisToAuth
  BY <1>3, Asked
<1>4. CASE UNCHANGED vars
  BY <1>4 DEF vars, dbVars, authVars, IInv, TypeOK, DbTypeOK, OneAtATime, OwnReplies, OwnInfo
<1> QED
  BY <1>1, <1>2, <1>3, <1>4 DEF Next

THEOREM Inductive == Spec => []IInv
BY InitIInv, NextIInv, PTL DEF Spec

------------------------------------------------------------------------------
(* Attempts to connect: exactly one of the five places holds one.              *)
Only(Q, B, F, R, C) ==
  \/ (\E x : Q = {x}) /\ B = {} /\ F = {} /\ R = {} /\ C = {}
  \/ Q = {} /\ (\E x : B = {x}) /\ F = {} /\ R = {} /\ C = {}
  \/ Q = {} /\ B = {} /\ (\E x : F = {x}) /\ R = {} /\ C = {}
  \/ Q = {} /\ B = {} /\ F = {} /\ (\E x : R = {x}) /\ C = {}
  \/ Q = {} /\ B = {} /\ F = {} /\ R = {} /\ (\E x : C = {x})

Places(Q, B, F, R, C) ==
  ({"queued"} \X Q) \cup ({"begun"} \X B) \cup ({"done"} \X F)
  \cup ({"retry"} \X R) \cup ({"conn"} \X C)

OneAttempt(d) == Only(queuedConnects(d), begunConnects(d), doneConnects(d),
                      {d} \cap retry, {d} \cap conn)

LEMMA OnlyIsOne ==
  ASSUME NEW Q, NEW B, NEW F, NEW R, NEW C, Only(Q, B, F, R, C)
  PROVE  \E a \in Places(Q, B, F, R, C) : Places(Q, B, F, R, C) = {a}
<1>1. CASE (\E x : Q = {x}) /\ B = {} /\ F = {} /\ R = {} /\ C = {}
  <2>1. PICK x : Q = {x}
    BY <1>1
  <2>2. Places(Q, B, F, R, C) = {<<"queued", x>>}
    BY <1>1, <2>1 DEF Places
  <2> QED
    BY <2>2
<1>2. CASE Q = {} /\ (\E x : B = {x}) /\ F = {} /\ R = {} /\ C = {}
  <2>1. PICK x : B = {x}
    BY <1>2
  <2>2. Places(Q, B, F, R, C) = {<<"begun", x>>}
    BY <1>2, <2>1 DEF Places
  <2> QED
    BY <2>2
<1>3. CASE Q = {} /\ B = {} /\ (\E x : F = {x}) /\ R = {} /\ C = {}
  <2>1. PICK x : F = {x}
    BY <1>3
  <2>2. Places(Q, B, F, R, C) = {<<"done", x>>}
    BY <1>3, <2>1 DEF Places
  <2> QED
    BY <2>2
<1>4. CASE Q = {} /\ B = {} /\ F = {} /\ (\E x : R = {x}) /\ C = {}
  <2>1. PICK x : R = {x}
    BY <1>4
  <2>2. Places(Q, B, F, R, C) = {<<"retry", x>>}
    BY <1>4, <2>1 DEF Places
  <2> QED
    BY <2>2
<1>5. CASE Q = {} /\ B = {} /\ F = {} /\ R = {} /\ (\E x : C = {x})
  <2>1. PICK x : C = {x}
    BY <1>5
  <2>2. Places(Q, B, F, R, C) = {<<"conn", x>>}
    BY <1>5, <2>1 DEF Places
  <2> QED
    BY <2>2
<1> QED
  BY <1>1, <1>2, <1>3, <1>4, <1>5 DEF Only

(* Taking the first element of a queue moves every other one up.               *)
MovesUp(n, S) == {i \in 1..n - 1 : i + 1 \in S}

LEMMA MovedUp ==
  ASSUME NEW n \in Nat, NEW S, S \subseteq 1..n
  PROVE  /\ S = {} => MovesUp(n, S) = {}
         /\ S = {1} => MovesUp(n, S) = {}
         /\ \A x : S = {x} /\ x # 1 => MovesUp(n, S) = {x - 1}
<1>1. S = {} => MovesUp(n, S) = {}
  BY DEF MovesUp
<1>2. S = {1} => MovesUp(n, S) = {}
  BY DEF MovesUp
<1>3. ASSUME NEW x, S = {x}, x # 1
      PROVE  MovesUp(n, S) = {x - 1}
  <2>1. x \in 2..n
    BY <1>3
  <2> QED
    BY <1>3, <2>1 DEF MovesUp
<1> QED
  BY <1>1, <1>2, <1>3

(* A request that is queued, one that a thread takes, a result, and a callback *)
(* that runs: what each does to the attempts.                                  *)
LEMMA ConnectQueued ==
  ASSUME IInv, NEW req \in Requests, uv_queue_work(req), NEW d
  PROVE  /\ isConnect(req, d) => queuedConnects(d)' = queuedConnects(d) \cup {Len(work) + 1}
         /\ ~isConnect(req, d) => queuedConnects(d)' = queuedConnects(d)
<1>1. work \in Seq(Requests) /\ work' = Append(work, req)
  BY DEF IInv, TypeOK, DbTypeOK, uv_queue_work
<1>2. /\ Len(work') = Len(work) + 1 /\ Len(work) \in Nat
      /\ \A i \in 1..Len(work) + 1 : work'[i] = IF i <= Len(work) THEN work[i] ELSE req
  BY <1>1, AppendElements
<1>3. queuedConnects(d)' = {i \in 1..Len(work) + 1 : isConnect(work'[i], d)}
  BY <1>2 DEF queuedConnects, isConnect
<1> QED
  BY <1>2, <1>3 DEF queuedConnects

LEMMA ConnectTaken ==
  ASSUME IInv, NEW w \in Workers, takeWork(w), NEW d
  PROVE  /\ queuedConnects(d)' = MovesUp(Len(work), queuedConnects(d))
         /\ queuedConnects(d) \subseteq 1..Len(work) /\ Len(work) \in Nat /\ Len(work) >= 1
         /\ 1 \in queuedConnects(d) <=> isConnect(Head(work), d)
         /\ w \notin begunConnects(d)
         /\ isConnect(Head(work), d) => begunConnects(d)' = begunConnects(d) \cup {w}
         /\ ~isConnect(Head(work), d) => begunConnects(d)' = begunConnects(d)
<1>1. work \in Seq(Requests) /\ work # <<>> /\ work' = Tail(work)
  BY DEF IInv, TypeOK, DbTypeOK, takeWork
<1>2. /\ Head(work) \in Requests /\ Head(work) = work[1]
      /\ Len(work) \in Nat /\ Len(work) >= 1 /\ Len(work') = Len(work) - 1
      /\ \A i \in 1..Len(work) - 1 : work'[i] = work[i + 1]
  BY <1>1, TailElements
<1>3. queuedConnects(d)' = {i \in 1..Len(work) - 1 : isConnect(work'[i], d)}
  BY <1>2 DEF queuedConnects, isConnect
<1>4. queuedConnects(d)' = MovesUp(Len(work), queuedConnects(d))
  BY <1>2, <1>3 DEF queuedConnects, MovesUp
<1>5. 1 \in queuedConnects(d) <=> isConnect(Head(work), d)
  BY <1>2 DEF queuedConnects
<1>6. /\ thread[w] = Idle
      /\ thread'[w] = [at |-> "begun", req |-> Head(work)] /\ thread'[w] # Idle
      /\ \A v \in Workers : v # w => thread'[v] = thread[v]
  BY DEF IInv, TypeOK, DbTypeOK, takeWork, Idle
<1>7. /\ w \notin begunConnects(d)
      /\ \A v \in Workers : v # w => (v \in begunConnects(d)' <=> v \in begunConnects(d))
      /\ w \in begunConnects(d)' <=> isConnect(Head(work), d)
  BY <1>6 DEF begunConnects, isConnect
<1>8. begunConnects(d) \subseteq Workers /\ begunConnects(d)' \subseteq Workers
  BY DEF begunConnects
<1>9. queuedConnects(d) \subseteq 1..Len(work)
  BY DEF queuedConnects
<1>10. isConnect(Head(work), d) => begunConnects(d)' = begunConnects(d) \cup {w}
  BY <1>7, <1>8
<1>11. ~isConnect(Head(work), d) => begunConnects(d)' = begunConnects(d)
  BY <1>7, <1>8
<1> QED
  BY <1>2, <1>4, <1>5, <1>7, <1>9, <1>10, <1>11

LEMMA ConnectReturned ==
  ASSUME IInv, NEW w \in Workers, NEW err, NEW reply, finish(w, err, reply),
         thread[w] # Idle, thread'[w] = Idle,
         \A v \in Workers : v # w => thread'[v] = thread[v],
         NEW e, e = [req |-> thread[w].req, err |-> err, reply |-> reply], e \in Finished,
         NEW d
  PROVE  /\ begunConnects(d)' = begunConnects(d) \ {w}
         /\ w \in begunConnects(d) <=> isConnect(thread[w].req, d)
         /\ isConnect(thread[w].req, d) => doneConnects(d)' = doneConnects(d) \cup {Len(done) + 1}
         /\ ~isConnect(thread[w].req, d) => doneConnects(d)' = doneConnects(d)
<1>1. done \in Seq(Finished) /\ done' = Append(done, e) /\ e.req = thread[w].req
  BY DEF IInv, TypeOK, DbTypeOK, Finished, finish
<1>2. /\ Len(done') = Len(done) + 1 /\ Len(done) \in Nat
      /\ \A i \in 1..Len(done) + 1 : done'[i] = IF i <= Len(done) THEN done[i] ELSE e
  BY <1>1, AppendElements
<1>3. doneConnects(d)' = {i \in 1..Len(done) + 1 : isConnect(done'[i].req, d)}
  BY <1>2 DEF doneConnects, isConnect
<1>4. /\ isConnect(e.req, d) => doneConnects(d)' = doneConnects(d) \cup {Len(done) + 1}
      /\ ~isConnect(e.req, d) => doneConnects(d)' = doneConnects(d)
  BY <1>2, <1>3 DEF doneConnects
<1>5. /\ begunConnects(d)' = begunConnects(d) \ {w}
      /\ w \in begunConnects(d) <=> isConnect(thread[w].req, d)
  BY DEF begunConnects, isConnect
<1> QED
  BY <1>1, <1>4, <1>5

LEMMA ConnectCompleted ==
  ASSUME IInv, NEW op, NEW c, complete(op, c), NEW d
  PROVE  /\ doneConnects(d)' = MovesUp(Len(done), doneConnects(d))
         /\ doneConnects(d) \subseteq 1..Len(done) /\ Len(done) \in Nat /\ Len(done) >= 1
         /\ 1 \in doneConnects(d) <=> op = "connect" /\ c = d
         /\ begunConnects(d)' = begunConnects(d)
<1>1. /\ done \in Seq(Finished) /\ done # <<>> /\ done' = Tail(done)
      /\ Head(done).req.op = op /\ Head(done).req.db = c /\ thread' = thread
  BY DEF IInv, TypeOK, DbTypeOK, Finished, complete
<1>2. /\ Head(done) = done[1]
      /\ Len(done) \in Nat /\ Len(done) >= 1 /\ Len(done') = Len(done) - 1
      /\ \A i \in 1..Len(done) - 1 : done'[i] = done[i + 1]
  BY <1>1, TailElements
<1>3. doneConnects(d)' = {i \in 1..Len(done) - 1 : isConnect(done'[i].req, d)}
  BY <1>2 DEF doneConnects, isConnect
<1>4. doneConnects(d)' = MovesUp(Len(done), doneConnects(d))
  BY <1>2, <1>3 DEF doneConnects, MovesUp
<1>5. 1 \in doneConnects(d) <=> op = "connect" /\ c = d
  BY <1>1, <1>2 DEF doneConnects, isConnect
<1>6. begunConnects(d)' = begunConnects(d)
  BY <1>1 DEF begunConnects, isConnect
<1>7. doneConnects(d) \subseteq 1..Len(done)
  BY DEF doneConnects
<1> QED
  BY <1>2, <1>4, <1>5, <1>6, <1>7

LEMMA TakeKeepsOne ==
  ASSUME IInv, NEW d \in Dbs, OneAttempt(d), NEW w \in Workers, takeWork(w), UNCHANGED authVars
  PROVE  OneAttempt(d)'
<1> DEFINE Q == queuedConnects(d)   B == begunConnects(d)
<1>1. /\ queuedConnects(d)' = MovesUp(Len(work), Q)
      /\ Q \subseteq 1..Len(work) /\ Len(work) \in Nat
      /\ 1 \in Q <=> isConnect(Head(work), d)
      /\ isConnect(Head(work), d) => begunConnects(d)' = B \cup {w}
      /\ ~isConnect(Head(work), d) => begunConnects(d)' = B
  BY ConnectTaken
<1>2. /\ Q = {} => queuedConnects(d)' = {}
      /\ Q = {1} => queuedConnects(d)' = {}
      /\ \A x : Q = {x} /\ x # 1 => queuedConnects(d)' = {x - 1}
  <2> HIDE DEF Q
  <2> QED
    BY <1>1, MovedUp
<1>3. /\ doneConnects(d)' = doneConnects(d)
      /\ ({d} \cap retry)' = {d} \cap retry /\ ({d} \cap conn)' = {d} \cap conn
  BY DEF takeWork, authVars, doneConnects, isConnect
<1>4. CASE isConnect(Head(work), d)
  <2>1. Q = {1} /\ B = {} /\ doneConnects(d) = {} /\ {d} \cap retry = {} /\ {d} \cap conn = {}
    BY <1>1, <1>4 DEF OneAttempt, Only
  <2>2. queuedConnects(d)' = {} /\ begunConnects(d)' = {w}
    BY <1>1, <1>2, <1>4, <2>1
  <2> QED
    BY <1>3, <2>1, <2>2 DEF OneAttempt, Only
<1>5. CASE ~isConnect(Head(work), d)
  <2>1. begunConnects(d)' = B /\ 1 \notin Q
    BY <1>1, <1>5
  <2> QED
    BY <1>2, <1>3, <2>1 DEF OneAttempt, Only
<1> QED
  BY <1>4, <1>5

LEMMA ReturnKeepsOne ==
  ASSUME IInv, NEW d \in Dbs, OneAttempt(d), NEW w \in Workers,
         thread[w].at \in {"begun", "sent"}, NEW err \in BOOLEAN, NEW reply \in Asks \cup {none},
         finish(w, err, reply), UNCHANGED <<work, authVars>>
  PROVE  OneAttempt(d)'
<1> DEFINE e == [req |-> thread[w].req, err |-> err, reply |-> reply]
<1>1. thread[w] # Idle /\ e \in Finished
  BY WorkingThread DEF IInv, Finished
<1>2. thread'[w] = Idle /\ \A v \in Workers : v # w => thread'[v] = thread[v]
  BY DEF IInv, TypeOK, DbTypeOK, finish
<1>3. /\ begunConnects(d)' = begunConnects(d) \ {w}
      /\ w \in begunConnects(d) <=> isConnect(thread[w].req, d)
      /\ isConnect(thread[w].req, d) => doneConnects(d)' = doneConnects(d) \cup {Len(done) + 1}
      /\ ~isConnect(thread[w].req, d) => doneConnects(d)' = doneConnects(d)
  BY <1>1, <1>2, ConnectReturned
<1>4. /\ queuedConnects(d)' = queuedConnects(d)
      /\ ({d} \cap retry)' = {d} \cap retry /\ ({d} \cap conn)' = {d} \cap conn
  BY DEF authVars, queuedConnects, isConnect
<1> HIDE DEF e
<1>5. CASE isConnect(thread[w].req, d)
  <2>1. /\ begunConnects(d) = {w} /\ queuedConnects(d) = {} /\ doneConnects(d) = {}
        /\ {d} \cap retry = {} /\ {d} \cap conn = {}
    BY <1>3, <1>5 DEF OneAttempt, Only
  <2>2. begunConnects(d)' = {} /\ doneConnects(d)' = {Len(done) + 1}
    BY <1>3, <1>5, <2>1
  <2> QED
    BY <1>4, <2>1, <2>2 DEF OneAttempt, Only
<1>6. CASE ~isConnect(thread[w].req, d)
  <2>1. begunConnects(d)' = begunConnects(d) /\ doneConnects(d)' = doneConnects(d)
    BY <1>3, <1>6
  <2> QED
    BY <1>4, <2>1 DEF OneAttempt
<1> QED
  BY <1>5, <1>6

LEMMA ThreadKeepsOne ==
  ASSUME IInv, NEW d \in Dbs, OneAttempt(d), NEW w \in Workers, threadStep(w),
         UNCHANGED authVars
  PROVE  OneAttempt(d)'
<1>1. CASE takeWork(w)
  BY <1>1, TakeKeepsOne
<1>2. CASE redis_connect_work(w) \/ mysql_connect_work(w)
  <2>1. PICK err \in BOOLEAN : finish(w, err, none)
    BY <1>2 DEF redis_connect_work, mysql_connect_work
  <2>2. thread[w].at = "begun" /\ UNCHANGED <<work, authVars>>
    BY <1>2 DEF redis_connect_work, mysql_connect_work, Working
  <2> QED
    BY <2>1, <2>2, ReturnKeepsOne
<1>3. CASE \E c \in Dbs : sendCommand(w, c)
  <2>1. PICK c \in Dbs : sendCommand(w, c)
    BY <1>3
  <2>2. /\ thread[w] = [at |-> "begun", req |-> thread[w].req]
        /\ thread' = [thread EXCEPT ![w] = [thread[w] EXCEPT !.at = "sent"]]
        /\ UNCHANGED <<work, done>>
    BY <2>1, WorkingThread DEF IInv, TypeOK, DbTypeOK, sendCommand, Working
  <2>3. /\ thread[w] # Idle /\ thread'[w] # Idle /\ thread'[w].req = thread[w].req
        /\ \A v \in Workers : v # w => thread'[v] = thread[v]
    BY <2>2 DEF IInv, TypeOK, DbTypeOK, Idle
  <2>4. begunConnects(d)' = begunConnects(d)
    BY <2>3 DEF begunConnects, isConnect
  <2>5. /\ queuedConnects(d)' = queuedConnects(d) /\ doneConnects(d)' = doneConnects(d)
        /\ ({d} \cap retry)' = {d} \cap retry /\ ({d} \cap conn)' = {d} \cap conn
    BY <2>2 DEF authVars, queuedConnects, doneConnects, isConnect
  <2> QED
    BY <2>4, <2>5 DEF OneAttempt
<1>4. CASE UNCHANGED <<work, thread, done>>
  BY <1>4 DEF authVars, OneAttempt, queuedConnects, begunConnects, doneConnects, isConnect
<1>5. ASSUME NEW c \in Dbs, Working(w, "query", c, "sent"), wire[c] # <<>>,
             finish(w, TRUE, none) \/ finish(w, FALSE, Head(wire[c])), work' = work
      PROVE  OneAttempt(d)'
  <2>1. Head(wire[c]) \in Asks
    <3>1. wire[c] \in Seq(Asks)
      BY DEF IInv, TypeOK, DbTypeOK
    <3> QED
      BY <1>5, <3>1, TailElements
  <2>2. thread[w].at = "sent" /\ UNCHANGED <<work, authVars>>
    BY <1>5 DEF Working
  <2> QED
    BY <1>5, <2>1, <2>2, ReturnKeepsOne
<1>6. CASE redis_query_work(w)
  BY <1>4, <1>5, <1>6 DEF redis_query_work, replyIsNull, Dbs
<1>7. CASE mysql_query_work(w)
  <2>1. /\ Working(w, "query", Mysql, "sent") /\ wire[Mysql] # <<>> /\ Mysql \in Dbs
        /\ work' = work
    BY <1>7 DEF mysql_query_work, Dbs
  <2>2. CASE UNCHANGED <<thread, done>>
    BY <1>4, <2>1, <2>2
  <2>3. CASE \E reply \in MysqlAsks \cup {none} : finish(w, FALSE, reply)
    <3>1. PICK reply \in Asks \cup {none} : finish(w, FALSE, reply)
      BY <2>3 DEF Asks
    <3>2. thread[w].at = "sent" /\ UNCHANGED <<work, authVars>>
      BY <2>1 DEF Working
    <3> QED
      BY <3>1, <3>2, ReturnKeepsOne
  <2>4. CASE finish(w, TRUE, none) \/ finish(w, FALSE, Head(wire[Mysql]))
    BY <1>5, <2>1, <2>4
  <2> QED
    BY <1>7, <2>2, <2>3, <2>4 DEF mysql_query_work, noErrorCode
<1> QED
  BY <1>1, <1>2, <1>3, <1>6, <1>7 DEF threadStep

(* The callback of a connect: a timer, or the connection and, for redis, the   *)
(* select, which is no attempt.                                                *)
LEMMA ConnectedKeepsOne ==
  ASSUME IInv, NEW d \in Dbs, OneAttempt(d), mysqlConnected \/ redisConnected
  PROVE  OneAttempt(d)'
<1>1. PICK c \in Dbs :
        /\ complete("connect", c)
        /\ \/ retry' = retry \cup {c} /\ UNCHANGED <<work, conn>>
           \/ conn' = conn \cup {c} /\ UNCHANGED <<work, retry>>
           \/ conn' = conn \cup {c} /\ uv_queue_work(redis_query(select)) /\ UNCHANGED retry
  BY DEF mysqlConnected, redisConnected, connectFailed, Dbs
<1>2. /\ doneConnects(d)' = MovesUp(Len(done), doneConnects(d))
      /\ doneConnects(d) \subseteq 1..Len(done) /\ Len(done) \in Nat
      /\ 1 \in doneConnects(d) <=> c = d
      /\ begunConnects(d)' = begunConnects(d)
  BY <1>1, ConnectCompleted
<1>3. /\ doneConnects(d) = {} => doneConnects(d)' = {}
      /\ doneConnects(d) = {1} => doneConnects(d)' = {}
      /\ \A x : doneConnects(d) = {x} /\ x # 1 => doneConnects(d)' = {x - 1}
  BY <1>2, MovedUp
<1>4. queuedConnects(d)' = queuedConnects(d)
  <2>1. CASE UNCHANGED work
    BY <2>1 DEF queuedConnects, isConnect
  <2>2. CASE uv_queue_work(redis_query(select))
    <3>1. redis_query(select) \in Requests /\ ~isConnect(redis_query(select), d)
      BY DEF redis_query, select, Requests, RedisAsks, isConnect
    <3> QED
      BY <2>2, <3>1, ConnectQueued
  <2> QED
    BY <1>1, <2>1, <2>2
<1>5. CASE c = d
  <2>1. /\ doneConnects(d) = {1} /\ queuedConnects(d) = {} /\ begunConnects(d) = {}
        /\ {d} \cap retry = {} /\ {d} \cap conn = {}
    BY <1>2, <1>5 DEF OneAttempt, Only
  <2>2. \/ {d} \cap retry' = {d} /\ {d} \cap conn' = {}
        \/ {d} \cap retry' = {} /\ {d} \cap conn' = {d}
    BY <1>1, <1>5, <2>1
  <2> QED
    BY <1>2, <1>3, <1>4, <2>1, <2>2 DEF OneAttempt, Only
<1>6. CASE c # d
  <2>1. {d} \cap retry' = {d} \cap retry /\ {d} \cap conn' = {d} \cap conn
    BY <1>1, <1>6
  <2>2. 1 \notin doneConnects(d)
    BY <1>2, <1>6
  <2> QED
    BY <1>2, <1>3, <1>4, <2>1, <2>2 DEF OneAttempt, Only
<1> QED
  BY <1>5, <1>6

LEMMA CompleteKeepsOne ==
  ASSUME IInv, NEW d \in Dbs, OneAttempt(d), redis_query_complete \/ mysql_query_complete
  PROVE  OneAttempt(d)'
<1>1. PICK c \in Dbs : complete("query", c)
  BY DEF redis_query_complete, mysql_query_complete, Dbs
<1>2. /\ doneConnects(d)' = MovesUp(Len(done), doneConnects(d))
      /\ doneConnects(d) \subseteq 1..Len(done) /\ Len(done) \in Nat
      /\ 1 \notin doneConnects(d)
      /\ begunConnects(d)' = begunConnects(d)
  BY <1>1, ConnectCompleted
<1>3. /\ doneConnects(d) = {} => doneConnects(d)' = {}
      /\ \A x : doneConnects(d) = {x} => doneConnects(d)' = {x - 1}
  BY <1>2, MovedUp
<1>4. UNCHANGED <<conn, retry>>
  BY DEF redis_query_complete, mysql_query_complete, authVars
<1>5. work' = work \/ \E l \in Askers : uv_queue_work(redis_query(hmset(l)))
  <2>1. CASE redis_query_complete
    BY <2>1 DEF redis_query_complete
  <2>2. CASE mysql_query_complete
    <3>1. CASE work' # work
      <4>1. set_guestInfo(Head(done).reply.of) /\ Head(done).reply # none
        BY <2>2, <3>1 DEF mysql_query_complete, queryFailed, noResult, registGuest,
                          frozenGuest, knownGuest
      <4>2. complete("query", Mysql)
        BY <2>2 DEF mysql_query_complete
      <4>3. Head(done).reply.of \in Askers
        BY <4>1, <4>2, MysqlReply
      <4> QED
        BY <3>1, <4>1, <4>3 DEF set_guestInfo
    <3> QED
      BY <3>1
  <2> QED
    BY <2>1, <2>2
<1>6. queuedConnects(d)' = queuedConnects(d)
  <2>1. CASE work' = work
    BY <2>1 DEF queuedConnects, isConnect
  <2>2. ASSUME NEW l \in Askers, uv_queue_work(redis_query(hmset(l)))
        PROVE  queuedConnects(d)' = queuedConnects(d)
    <3>1. redis_query(hmset(l)) \in Requests /\ ~isConnect(redis_query(hmset(l)), d)
      BY DEF redis_query, hmset, Requests, RedisAsks, isConnect
    <3> QED
      BY <2>2, <3>1, ConnectQueued
  <2> QED
    BY <1>5, <2>1, <2>2
<1> QED
  BY <1>2, <1>3, <1>4, <1>6 DEF OneAttempt, Only

(* A login queues a query; a timer that fires, the next attempt.               *)
LEMMA AskedKeepsOne ==
  ASSUME IInv, NEW d \in Dbs, OneAttempt(d),
         (\E l \in Askers : guestLogin(l)) \/ mysqlToAuth \/ redisToAuth
  PROVE  OneAttempt(d)'
<1>1. /\ doneConnects(d)' = doneConnects(d) /\ begunConnects(d)' = begunConnects(d)
      /\ conn' = conn
  BY DEF guestLogin, mysqlToAuth, redisToAuth, doneConnects, begunConnects, isConnect
<1>2. CASE \E l \in Askers : guestLogin(l)
  <2>1. PICK l \in Askers : guestLogin(l)
    BY <1>2
  <2>2. mysql_query(get(l)) \in Requests /\ ~isConnect(mysql_query(get(l)), d)
    BY DEF mysql_query, get, Requests, MysqlAsks, isConnect
  <2>3. queuedConnects(d)' = queuedConnects(d)
    <3>1. CASE work' = work
      BY <3>1 DEF queuedConnects, isConnect
    <3>2. CASE uv_queue_work(mysql_query(get(l)))
      BY <2>2, <3>2, ConnectQueued
    <3> QED
      BY <2>1, <3>1, <3>2 DEF guestLogin
  <2>4. retry' = retry
    BY <2>1 DEF guestLogin
  <2> QED
    BY <1>1, <2>3, <2>4 DEF OneAttempt
<1>3. ASSUME NEW c \in Dbs, NEW req \in Requests, c \in retry, retry' = retry \ {c},
             uv_queue_work(req), req = [op |-> "connect", db |-> c, ask |-> none]
      PROVE  OneAttempt(d)'
  <2>1. isConnect(req, d) <=> c = d
    BY <1>3 DEF isConnect
  <2>2. CASE c = d
    <3>1. /\ {d} \cap retry = {d} /\ {d} \cap retry' = {}
          /\ queuedConnects(d)' = queuedConnects(d) \cup {Len(work) + 1}
      BY <1>3, <2>1, <2>2, ConnectQueued
    <3> QED
      BY <1>1, <3>1 DEF OneAttempt, Only
  <2>3. CASE c # d
    <3>1. {d} \cap retry' = {d} \cap retry /\ queuedConnects(d)' = queuedConnects(d)
      BY <1>3, <2>1, <2>3, ConnectQueued
    <3> QED
      BY <1>1, <3>1 DEF OneAttempt
  <2> QED
    BY <2>2, <2>3
<1>4. mysql_connect \in Requests /\ redis_connect \in Requests
  BY DEF mysql_connect, redis_connect, Requests, Dbs
<1>5. CASE mysqlToAuth
  BY <1>3, <1>4, <1>5 DEF mysqlToAuth, mysql_connect, Dbs
<1>6. CASE redisToAuth
  BY <1>3, <1>4, <1>6 DEF redisToAuth, redis_connect, Dbs
<1> QED
  BY <1>2, <1>5, <1>6

LEMMA InitOneAttempt ==
  ASSUME Init, NEW d \in Dbs
  PROVE  OneAttempt(d)
<1>1. /\ Len(work) = 2 /\ work[1] = mysql_connect /\ work[2] = redis_connect
      /\ conn = {} /\ retry = {}
  BY DEF Init
<1>4. begunConnects(d) = {}
  BY DEF Init, DbInit, begunConnects
<1>2. doneConnects(d) = {}
  BY DEF Init, DbInit, doneConnects
<1>3. queuedConnects(d) = {1} \/ queuedConnects(d) = {2}
  BY <1>1 DEF queuedConnects, isConnect, mysql_connect, redis_connect, Dbs, Mysql, Redis
<1> QED
  BY <1>1, <1>2, <1>3, <1>4 DEF OneAttempt, Only

LEMMA NextOneAttempt ==
  ASSUME IInv, NEW d \in Dbs, OneAttempt(d), [Next]_vars
  PROVE  OneAttempt(d)'
<1>1. CASE \E w \in Workers : threadStep(w) /\ UNCHANGED authVars
  BY <1>1, ThreadKeepsOne
<1>2. CASE loopStep
  BY <1>2, ConnectedKeepsOne, CompleteKeepsOne DEF loopStep
<1>3. CASE (\E l \in Askers : guestLogin(l)) \/ mysqlToAuth \/ redisToAuth
  BY <1>3, AskedKeepsOne
<1>4. CASE UNCHANGED vars
  BY <1>4 DEF vars, dbVars, authVars, OneAttempt, queuedConnects, begunConnects,
              doneConnects, isConnect
<1> QED
  BY <1>1, <1>2, <1>3, <1>4 DEF Next

------------------------------------------------------------------------------
(* No request for a redis command is made, and none reaches a thread, before   *)
(* the script has its connection; the index is 0 until then.                   *)
asksRedis(req) == req.op = "query" /\ req.db = Redis

Unopened == /\ \A i \in 1..Len(work) : ~asksRedis(work[i])
            /\ \A w \in Workers : thread[w] # Idle => ~asksRedis(thread[w].req)
            /\ index = 0

OpenedFirst == Redis \notin conn => Unopened

LEMMA ConnectionKept ==
  ASSUME [Next]_vars
  PROVE  conn \subseteq conn'
<1>1. CASE loopStep
  BY <1>1 DEF loopStep, mysqlConnected, redisConnected, connectFailed,
              redis_query_complete, mysql_query_complete, authVars
<1>2. CASE (\E l \in Askers : guestLogin(l)) \/ mysqlToAuth \/ redisToAuth
  BY <1>2 DEF guestLogin, mysqlToAuth, redisToAuth
<1>3. CASE UNCHANGED conn
  BY <1>3
<1> QED
  BY <1>1, <1>2, <1>3 DEF Next, vars, authVars

(* The queue gets a request that is not redis's, or loses its first one.       *)
LEMMA QueuedUnopened ==
  ASSUME IInv, Unopened, NEW req \in Requests, uv_queue_work(req), ~asksRedis(req)
  PROVE  \A i \in 1..Len(work') : ~asksRedis(work'[i])
<1>1. work \in Seq(Requests) /\ work' = Append(work, req)
  BY DEF IInv, TypeOK, DbTypeOK, uv_queue_work
<1>2. /\ Len(work') = Len(work) + 1 /\ Len(work) \in Nat
      /\ \A i \in 1..Len(work) + 1 : work'[i] = IF i <= Len(work) THEN work[i] ELSE req
  BY <1>1, AppendElements
<1> QED
  BY <1>2 DEF Unopened

LEMMA TakeUnopened ==
  ASSUME IInv, Unopened, NEW w \in Workers, takeWork(w)
  PROVE  Unopened'
<1>1. work \in Seq(Requests) /\ work # <<>> /\ work' = Tail(work)
  BY DEF IInv, TypeOK, DbTypeOK, takeWork
<1>2. /\ Head(work) = work[1] /\ Len(work) \in Nat /\ Len(work) >= 1
      /\ Len(work') = Len(work) - 1
      /\ \A i \in 1..Len(work) - 1 : work'[i] = work[i + 1]
  BY <1>1, TailElements
<1>3. ~asksRedis(Head(work)) /\ \A i \in 1..Len(work') : ~asksRedis(work'[i])
  <2>1. 1 \in 1..Len(work) /\ \A i \in 1..Len(work') : i + 1 \in 1..Len(work)
    BY <1>2
  <2>2. \A i \in 1..Len(work) : ~asksRedis(work[i])
    BY DEF Unopened
  <2> QED
    BY <1>2, <2>1, <2>2
<1>4. /\ thread'[w].req = Head(work)
      /\ \A v \in Workers : v # w => thread'[v] = thread[v]
      /\ index' = index
  BY DEF IInv, TypeOK, DbTypeOK, takeWork
<1> QED
  BY <1>3, <1>4 DEF Unopened

LEMMA ThreadUnopened ==
  ASSUME IInv, Unopened, NEW w \in Workers, threadStep(w)
  PROVE  Unopened'
<1>1. CASE takeWork(w)
  BY <1>1, TakeUnopened
<1>2. ASSUME NEW err \in BOOLEAN, NEW reply, finish(w, err, reply), work' = work, index' = 0
      PROVE  Unopened'
  <2>1. thread'[w] = Idle /\ \A v \in Workers : v # w => thread'[v] = thread[v]
    BY <1>2 DEF IInv, TypeOK, DbTypeOK, finish
  <2> QED
    BY <1>2, <2>1 DEF Unopened
<1>3. CASE redis_connect_work(w)
  BY <1>2, <1>3 DEF redis_connect_work, Unopened
<1>4. CASE mysql_connect_work(w)
  BY <1>2, <1>4 DEF mysql_connect_work, Unopened
<1>5. CASE \E d \in Dbs : sendCommand(w, d)
  <2>1. /\ thread[w].at = "begun" /\ UNCHANGED <<work, index>>
        /\ thread' = [thread EXCEPT ![w].at = "sent"]
    BY <1>5 DEF sendCommand, Working
  <2>2. /\ thread[w] # Idle /\ thread'[w].req = thread[w].req
        /\ \A v \in Workers : v # w => thread'[v] = thread[v]
    BY <2>1, WorkingThread DEF IInv, TypeOK, DbTypeOK
  <2> QED
    BY <2>1, <2>2 DEF Unopened
<1>6. CASE redis_query_work(w)
  <2>1. thread[w].at = "sent" /\ asksRedis(thread[w].req)
    BY <1>6 DEF redis_query_work, Working, asksRedis
  <2>2. thread[w] # Idle
    BY <2>1, WorkingThread DEF IInv
  <2> QED
    BY <2>1, <2>2 DEF Unopened
<1>7. CASE mysql_query_work(w)
  <2>1. UNCHANGED <<work, index>>
    BY <1>7 DEF mysql_query_work
  <2>2. (\E err \in BOOLEAN : \E reply : finish(w, err, reply)) \/ thread' = thread
    BY <1>7 DEF mysql_query_work, noErrorCode
  <2>3. CASE \E err \in BOOLEAN : \E reply : finish(w, err, reply)
    BY <1>2, <2>1, <2>3 DEF Unopened
  <2>4. CASE thread' = thread
    BY <2>1, <2>4 DEF Unopened
  <2> QED
    BY <2>2, <2>3, <2>4
<1> QED
  BY <1>1, <1>3, <1>4, <1>5, <1>6, <1>7 DEF threadStep

(* The loop asks redis for something only once the script has the connection.  *)
LEMMA LoopUnopened ==
  ASSUME IInv, Unopened, Redis \notin conn', [Next]_vars, thread' = thread, index' = index
  PROVE  Unopened'
<1>1. Redis \notin conn
  BY ConnectionKept
<1>2. \/ work' = work
      \/ uv_queue_work(mysql_connect) \/ uv_queue_work(redis_connect)
      \/ \E l \in Askers : uv_queue_work(mysql_query(get(l)))
      \/ \E w \in Workers : threadStep(w)
  <2>1. CASE loopStep
    <3>1. ~redisConnected \/ work' = work
      BY DEF redisConnected, connectFailed
    <3>2. mysqlConnected => work' = work
      BY DEF mysqlConnected, connectFailed
    <3>3. redis_query_complete => work' = work
      BY DEF redis_query_complete
    <3>4. mysql_query_complete => work' = work
      BY <1>1 DEF mysql_query_complete, queryFailed, noResult, registGuest,
                  frozenGuest, knownGuest, set_guestInfo
    <3> QED
      BY <2>1, <3>1, <3>2, <3>3, <3>4 DEF loopStep
  <2>2. CASE \E l \in Askers : guestLogin(l)
    BY <2>2 DEF guestLogin
  <2>3. CASE mysqlToAuth \/ redisToAuth
    BY <2>3 DEF mysqlToAuth, redisToAuth
  <2>4. CASE UNCHANGED vars
    BY <2>4 DEF vars, dbVars
  <2> QED
    BY <2>1, <2>2, <2>3, <2>4 DEF Next
<1>3. \A req : req \in {mysql_connect, redis_connect} => req \in Requests /\ ~asksRedis(req)
  BY DEF mysql_connect, redis_connect, Requests, Dbs, asksRedis
<1>4. \A l \in Askers : mysql_query(get(l)) \in Requests /\ ~asksRedis(mysql_query(get(l)))
  BY DEF mysql_query, get, Requests, MysqlAsks, asksRedis, Mysql, Redis
<1>5. CASE work' = work
  BY <1>5 DEF Unopened
<1>6. CASE \E w \in Workers : threadStep(w)
  BY <1>6, ThreadUnopened
<1>7. ASSUME NEW req \in Requests, uv_queue_work(req), ~asksRedis(req)
      PROVE  Unopened'
  BY <1>7, QueuedUnopened DEF Unopened
<1> QED
  BY <1>2, <1>3, <1>4, <1>5, <1>6, <1>7

LEMMA NextOpenedFirst ==
  ASSUME IInv, OpenedFirst, [Next]_vars
  PROVE  OpenedFirst'
<1>1. CASE Redis \in conn'
  BY <1>1 DEF OpenedFirst
<1>2. CASE Redis \notin conn'
  <2>1. Unopened
    BY <1>2, ConnectionKept DEF OpenedFirst
  <2>2. CASE \E w \in Workers : threadStep(w)
    BY <2>1, <2>2, ThreadUnopened DEF OpenedFirst
  <2>3. CASE UNCHANGED <<thread, index>>
    BY <1>2, <2>1, <2>3, LoopUnopened DEF OpenedFirst
  <2>4. (\E w \in Workers : threadStep(w)) \/ UNCHANGED <<thread, index>>
    BY DEF Next, loopStep, mysqlConnected, redisConnected, redis_query_complete,
           mysql_query_complete, complete, guestLogin, mysqlToAuth, redisToAuth,
           vars, dbVars
  <2> QED
    BY <2>2, <2>3, <2>4
<1> QED
  BY <1>1, <1>2

------------------------------------------------------------------------------
(* Every variable of the managers and of the scripts keeps its type, and a     *)
(* finished query has either an error or a reply (query_work, both managers),  *)
(* except a login's whose result was never set (mysqlmanager.cc:165-183).      *)
THEOREM TypeCorrect == Spec => []TypeOK
<1>1. IInv => TypeOK
  BY DEF IInv
<1> QED
  BY <1>1, Inductive, PTL

(* However many threads the pool has, a connection carries one command at a    *)
(* time, and a connection nobody holds carries none (the lock of query_work).  *)
THEOREM LockProtects == Spec => []OneAtATime
<1>1. IInv => OneAtATime
  BY DEF IInv
<1> QED
  BY <1>1, Inductive, PTL

(* However many logins are in progress, and whichever of their queries mysql   *)
(* fails with an error code or without one, every login whose own result was   *)
(* set is answered with the reply to its own query (guestLogin.lua:43), never  *)
(* with another login's: a result that was never set misleads only its own.    *)
THEOREM AnswersOwn == Spec => []OwnInfo
<1>1. IInv => OwnInfo
  BY DEF IInv
<1> QED
  BY <1>1, Inductive, PTL

(* However many threads and logins there are, a database has one connection,   *)
(* or one attempt to connect, or one timer for the next attempt, at any time:  *)
(* the attempts are not given up and never run twice (auth_mysql.lua:10).      *)
THEOREM ConnectsOnce == Spec => []ConnectOnce
<1> DEFINE J == \A d \in Dbs : OneAttempt(d)
<1>1. Init => J
  BY InitOneAttempt
<1>2. IInv /\ J /\ [Next]_vars => J'
  BY NextOneAttempt
<1>3. J => ConnectOnce
  <2>1. ASSUME NEW d \in Dbs, OneAttempt(d)
        PROVE  \E a \in attempts(d) : attempts(d) = {a}
    <3>1. attempts(d) = Places(queuedConnects(d), begunConnects(d), doneConnects(d),
                               {d} \cap retry, {d} \cap conn)
      BY DEF attempts, Places
    <3> QED
      BY <2>1, <3>1, OnlyIsOne DEF OneAttempt
  <2> QED
    BY <2>1 DEF ConnectOnce
<1> HIDE DEF J
<1> QED
  BY <1>1, <1>2, <1>3, Inductive, PTL DEF Spec

(* Once the select has been executed, the connection stays at the configured   *)
(* database and every guest stored from then on is stored there, however many  *)
(* threads and logins there are (auth_redis.lua:18): what StoredAtIndex lacks  *)
(* is only that the logins wait for the select.                                *)
THEOREM SelectedForGood == Spec => OnceSelected
<1> DEFINE J == \A d \in Dbs : OneAttempt(d)
<1>1. Init => J /\ OpenedFirst
  <2>1. ASSUME Init PROVE OpenedFirst
    <3>1. \A i \in 1..Len(work) : ~asksRedis(work[i])
      BY <2>1 DEF Init, asksRedis, mysql_connect, redis_connect
    <3> QED
      BY <2>1, <3>1 DEF Init, DbInit, OpenedFirst, Unopened
  <2> QED
    BY <2>1, InitOneAttempt
<1>2. IInv /\ J /\ OpenedFirst /\ [Next]_vars => J' /\ OpenedFirst'
  BY NextOneAttempt, NextOpenedFirst
<1>3. IInv /\ J /\ OpenedFirst /\ [Next]_vars
        => [index = dbIndex => /\ index' = dbIndex
                               /\ \A s \in stored' \ stored : s[1] = dbIndex]_vars
  <2> SUFFICES ASSUME IInv, J, OpenedFirst, [Next]_vars, index = dbIndex
               PROVE  index' = dbIndex /\ \A s \in stored' \ stored : s[1] = dbIndex
    OBVIOUS
  <2>1. ASSUME NEW w \in Workers, redis_connect_work(w)
        PROVE  index' = dbIndex /\ stored' = stored
    <3>1. index' \in {index, 0} /\ stored' = stored
      BY <2>1 DEF redis_connect_work
    <3>2. w \in begunConnects(Redis)
      <4>1. thread[w] # Idle /\ isConnect(thread[w].req, Redis)
        BY <2>1, WorkingThread DEF IInv, redis_connect_work, Working, isConnect
      <4> QED
        BY <4>1 DEF begunConnects
    <3>3. Redis \notin conn
      BY <3>2 DEF OneAttempt, Only, Dbs
    <3> QED
      BY <3>1, <3>3 DEF OpenedFirst, Unopened
  <2>2. ASSUME NEW w \in Workers, redis_query_work(w)
        PROVE  index' = dbIndex /\ \A s \in stored' \ stored : s[1] = dbIndex
    <3>1. UNCHANGED <<index, stored>> \/ execute(Head(wire[Redis]))
      BY <2>2 DEF redis_query_work, replyIsNull
    <3>2. CASE execute(Head(wire[Redis]))
      <4>1. index' = dbIndex
        BY <3>2 DEF execute
      <4>2. stored' \ stored \subseteq {<<dbIndex, Head(wire[Redis]).of>>}
        BY <3>2 DEF execute
      <4> QED
        BY <4>1, <4>2
    <3> QED
      BY <3>1, <3>2
  <2>3. ASSUME UNCHANGED <<index, stored>>
        PROVE  index' = dbIndex /\ \A s \in stored' \ stored : s[1] = dbIndex
    BY <2>3
  <2>4. \/ \E w \in Workers : redis_connect_work(w) \/ redis_query_work(w)
        \/ UNCHANGED <<index, stored>>
    <3>1. ASSUME NEW w \in Workers, threadStep(w)
          PROVE  redis_connect_work(w) \/ redis_query_work(w) \/ UNCHANGED <<index, stored>>
      BY <3>1 DEF threadStep, takeWork, mysql_connect_work, sendCommand, mysql_query_work
    <3>2. (\E w \in Workers : threadStep(w)) \/ UNCHANGED <<index, stored>>
      BY DEF Next, loopStep, mysqlConnected, redisConnected, redis_query_complete,
             mysql_query_complete, complete, guestLogin, mysqlToAuth, redisToAuth,
             vars, dbVars
    <3> QED
      BY <3>1, <3>2
  <2> QED
    BY <2>1, <2>2, <2>3, <2>4
<1> HIDE DEF J
<1> QED
  BY <1>1, <1>2, <1>3, Inductive, PTL DEF Spec, OnceSelected
=============================================================================
