------------------------ MODULE ConnectionPoolProofs ------------------------
(***************************************************************************)
(* Theorems about ConnectionPool, for any number of requests and any       *)
(* number of connections, and their proofs.                                *)
(***************************************************************************)
EXTENDS ConnectionPool, SequenceTheorems, TLAPS

Working == TxSteps \cup {"query", "rollback"}

-----------------------------------------------------------------------------
(* The inductive invariant. *)

\* Only requests that wait are in the queue.
QueueWaits == \A i \in DOMAIN queue : At(queue[i], "waiting")

\* Who holds a connection works with it, and nobody else does.
HolderWorks ==
    /\ \A c \in Conns : conns[c].holder # None =>
          /\ req[conns[c].holder].pc \in Working
          /\ req[conns[c].holder].conn = c
    /\ \A r \in Requests : req[r].pc \in Working => conns[req[r].conn].holder = r

\* The writes that a request at some step has made, and the database does not
\* have yet.
Made(r) ==
    IF req[r].pc \in {"nested", "second"} THEN {<<r, 1>>}
    ELSE IF req[r].pc = "commit" THEN {<<r, 1>>, <<r, 2>>}
    ELSE {}

\* A request does what it came for, the open transaction of its connection is its
\* own, and until it is over the database has nothing of it, then all or nothing.
RequestFits(r) ==
    /\ req[r].pc \in Working => req[r].conn \in Conns
    /\ req[r].pc \in TxSteps \cup {"rollback"} => req[r].op = "transaction"
    /\ At(r, "query") => req[r].op = "query" /\ ~conns[req[r].conn].tx
    /\ req[r].pc \in TxSteps \cup {"query"} => conns[req[r].conn].pending = Made(r)
    /\ req[r].pc \in TxSteps \cup {"waiting", "query"} => saved[r] = {}
    /\ req[r].op = "transaction" => saved[r] \in {{}, Writes}
    /\ At(r, "ok") => saved[r] = IF req[r].op = "query" THEN {1} ELSE Writes

Inv ==
    /\ TypeOK
    /\ QueueWaits
    /\ HolderWorks
    /\ IdleIsClean
    /\ \A r \in Requests : RequestFits(r)

-----------------------------------------------------------------------------
(* The queue. *)

LEMMA RemoveAtType ==
    ASSUME NEW S, NEW q \in Seq(S), NEW i \in DOMAIN q
    PROVE  /\ RemoveAt(q, i) \in Seq(S)
           /\ Len(RemoveAt(q, i)) = Len(q) - 1
           /\ \A j \in 1 .. Len(q) - 1 : RemoveAt(q, i)[j] = q[IF j < i THEN j ELSE j + 1]
  <1> DEFINE a == SubSeq(q, 1, i - 1)
             b == SubSeq(q, i + 1, Len(q))
  <1>1. Len(q) \in Nat /\ i \in 1 .. Len(q) /\ \A j \in 1 .. Len(q) : q[j] \in S
    BY LenProperties, ElementOfSeq
  <1>2. /\ a \in Seq(S) /\ Len(a) = i - 1
        /\ \A j \in 1 .. i - 1 : a[j] = q[j]
    <2>1. 1 \in Int /\ i - 1 \in Int /\ \A j \in 1 .. i - 1 : q[j] \in S
      BY <1>1
    <2>2. /\ a \in Seq(S)
          /\ Len(a) = IF 1 <= i - 1 THEN i - 1 - 1 + 1 ELSE 0
          /\ \A j \in 1 .. i - 1 - 1 + 1 : a[j] = q[1 + j - 1]
      BY <2>1, SubSeqProperties
    <2> HIDE DEF a
    <2>3. \A j \in 1 .. i - 1 : j \in 1 .. i - 1 - 1 + 1 /\ 1 + j - 1 = j
      BY <1>1
    <2> QED
      BY <1>1, <2>2, <2>3
  <1>3. /\ b \in Seq(S) /\ Len(b) = Len(q) - i
        /\ \A j \in 1 .. Len(q) - i : b[j] = q[i + j]
    <2>1. i + 1 \in Int /\ Len(q) \in Int /\ \A j \in i + 1 .. Len(q) : q[j] \in S
      BY <1>1
    <2>2. /\ b \in Seq(S)
          /\ Len(b) = IF i + 1 <= Len(q) THEN Len(q) - (i + 1) + 1 ELSE 0
          /\ \A j \in 1 .. Len(q) - (i + 1) + 1 : b[j] = q[i + 1 + j - 1]
      BY <2>1, SubSeqProperties
    <2> HIDE DEF b
    <2>3. \A j \in 1 .. Len(q) - i : j \in 1 .. Len(q) - (i + 1) + 1 /\ i + 1 + j - 1 = i + j
      BY <1>1
    <2> QED
      BY <1>1, <2>2, <2>3
  <1>4. RemoveAt(q, i) = a \o b
    BY DEF RemoveAt
  <1> HIDE DEF a, b
  <1>5. /\ a \o b \in Seq(S)
        /\ Len(a \o b) = Len(a) + Len(b)
        /\ \A j \in 1 .. Len(a) + Len(b) :
              (a \o b)[j] = IF j <= Len(a) THEN a[j] ELSE b[j - Len(a)]
    BY <1>2, <1>3, ConcatProperties
  <1>6. ASSUME NEW j \in 1 .. Len(q) - 1
        PROVE  (a \o b)[j] = q[IF j < i THEN j ELSE j + 1]
    <2>1. CASE j < i
      <3>1. j \in 1 .. Len(a) + Len(b) /\ j <= Len(a) /\ j \in 1 .. i - 1
        BY <1>1, <1>2, <1>3, <2>1
      <3>2. (a \o b)[j] = a[j] /\ a[j] = q[j]
        BY <1>2, <1>5, <3>1
      <3> QED
        BY <2>1, <3>2
    <2>2. CASE ~(j < i)
      <3>1. j - (i - 1) \in 1 .. Len(q) - i /\ i + (j - (i - 1)) = j + 1
        BY <1>1, <2>2
      <3>2. (a \o b)[j] = b[j - (i - 1)]
        <4>1. j \in 1 .. Len(a) + Len(b) /\ ~(j <= Len(a)) /\ j - Len(a) = j - (i - 1)
          BY <1>1, <1>2, <1>3, <2>2
        <4> QED
          BY <1>5, <4>1
      <3>3. b[j - (i - 1)] = q[i + (j - (i - 1))]
        BY <1>3, <3>1
      <3> QED
        BY <2>2, <3>1, <3>2, <3>3
    <2> QED
      BY <2>1, <2>2
  <1>7. Len(a) + Len(b) = Len(q) - 1
    BY <1>1, <1>2, <1>3
  <1> QED
    BY <1>4, <1>5, <1>6, <1>7

\* What holds of the requests in a queue, and that they are all different, holds
\* when one more comes ...
LEMMA QueueGrows ==
    ASSUME TypeOK, QueueWaits, NEW r \in Requests, ~At(r, "waiting")
    PROVE  /\ Append(queue, r) \in Seq(Requests) /\ IsInjective(Append(queue, r))
           /\ \A i \in DOMAIN Append(queue, r) :
                 Append(queue, r)[i] = r \/ At(Append(queue, r)[i], "waiting")
  BY DEF TypeOK, QueueWaits, IsInjective

\* ... and of the rest when one has left, who is not among them.
LEMMA QueueShrinks ==
    ASSUME TypeOK, QueueWaits, NEW i \in DOMAIN queue
    PROVE  /\ RemoveAt(queue, i) \in Seq(Requests) /\ IsInjective(RemoveAt(queue, i))
           /\ \A j \in DOMAIN RemoveAt(queue, i) :
                 /\ RemoveAt(queue, i)[j] # queue[i]
                 /\ At(RemoveAt(queue, i)[j], "waiting")
  <1> DEFINE rest == RemoveAt(queue, i)
             At1(j) == IF j < i THEN j ELSE j + 1
  <1>1. /\ rest \in Seq(Requests)
        /\ DOMAIN rest = 1 .. Len(queue) - 1
        /\ \A j \in 1 .. Len(queue) - 1 : rest[j] = queue[At1(j)]
    BY RemoveAtType DEF TypeOK
  <1>2. /\ Len(queue) \in Nat /\ DOMAIN queue = 1 .. Len(queue)
        /\ \A j, k \in 1 .. Len(queue) : queue[j] = queue[k] => j = k
    BY DEF TypeOK, IsInjective
  <1>3. \A j \in 1 .. Len(queue) - 1 : At1(j) \in 1 .. Len(queue) /\ At1(j) # i
    BY <1>2
  <1>4. \A j, k \in 1 .. Len(queue) - 1 : At1(j) = At1(k) => j = k
    BY <1>2
  <1> HIDE DEF At1, rest
  <1>5. IsInjective(rest)
    BY <1>1, <1>2, <1>3, <1>4 DEF IsInjective
  <1>6. \A j \in DOMAIN rest : rest[j] # queue[i] /\ At(rest[j], "waiting")
    BY <1>1, <1>2, <1>3 DEF QueueWaits
  <1> QED
    BY <1>1, <1>5, <1>6 DEF rest

\* The first in the queue is removed at 1.
LEMMA TailIsRemoval ==
    ASSUME NEW S, NEW q \in Seq(S), q # <<>>
    PROVE  1 \in DOMAIN q /\ Head(q) = q[1] /\ Tail(q) = RemoveAt(q, 1)
  <1>1. 1 \in DOMAIN q /\ Head(q) = q[1]
    OBVIOUS
  <1>2. Tail(q) \in Seq(S) /\ RemoveAt(q, 1) \in Seq(S)
        /\ Len(Tail(q)) = Len(q) - 1 /\ Len(RemoveAt(q, 1)) = Len(q) - 1
    BY <1>1, RemoveAtType, HeadTailProperties
  <1>3. \A j \in 1 .. Len(q) - 1 : Tail(q)[j] = RemoveAt(q, 1)[j]
    BY <1>1, RemoveAtType, HeadTailProperties
  <1> QED
    BY <1>1, <1>2, <1>3, SeqEqual

-----------------------------------------------------------------------------
(* Requests and their connections. *)

LEMMA ConnTypes ==
    ASSUME NEW c, c = Closed \/ c = Released
    PROVE  c \in Conn /\ c.holder = None /\ ~c.tx /\ c.pending = {}
  <1>1. Closed \in Conn /\ Closed.holder = None /\ ~Closed.tx /\ Closed.pending = {}
    BY DEF Closed, Conn
  <1>2. Released \in Conn /\ Released.holder = None /\ ~Released.tx /\ Released.pending = {}
    BY DEF Released, Closed, Conn
  <1> QED
    BY <1>1, <1>2

LEMMA InitInv == Init => Inv
  BY PoolAssumption, ConnTypes
     DEF Init, Inv, TypeOK, QueueWaits, HolderWorks, IdleIsClean, RequestFits, NoRequest,
         Request, Ops, Steps, TxSteps, Working, Closed, At, IsInjective

LEMMA GotoShape ==
    ASSUME TypeOK, NEW r \in Requests, NEW step \in Steps, Goto(r, step)
    PROVE  /\ req' \in [Requests -> Request]
           /\ \A x \in Requests \ {r} : req'[x] = req[x]
           /\ req'[r].pc = step /\ req'[r].conn = req[r].conn /\ req'[r].op = req[r].op
  BY DEF TypeOK, Goto, Request

LEMMA AnswerShape ==
    ASSUME TypeOK, NEW r \in Requests, NEW answer \in {"ok", "error"}, Answer(r, answer)
    PROVE  /\ req' \in [Requests -> Request]
           /\ \A x \in Requests \ {r} : req'[x] = req[x]
           /\ req'[r].pc = answer /\ req'[r].op = req[r].op
  <1> DEFINE answered == [req[r] EXCEPT !.pc = answer, !.conn = None, !.broken = FALSE]
  <1>1. /\ answered \in Request
        /\ answered.pc = answer /\ answered.op = req[r].op
    BY DEF TypeOK, Request, Steps
  <1>2. req' = [req EXCEPT ![r] = answered]
    BY DEF Answer
  <1> HIDE DEF answered
  <1> QED
    BY <1>1, <1>2 DEF TypeOK

\* A request that holds a connection and changes nothing but itself, that
\* connection and its own writes, keeps the invariant if it keeps its own part of
\* it and the connection, or gives it back clean.
LEMMA StepOfHolder ==
    ASSUME Inv, TypeOK', queue' = queue,
           NEW r \in Requests, NEW c \in Conns,
           req[r].pc \in Working, c = req[r].conn,
           \A x \in Conns \ {c} : conns'[x] = conns[x],
           \A x \in Requests \ {r} : req'[x] = req[x] /\ saved'[x] = saved[x],
           RequestFits(r)',
           \/ req'[r].pc \in Working /\ req'[r].conn = c /\ conns'[c].holder = r
           \/ /\ req'[r].pc \in {"ok", "error"}
              /\ conns'[c].holder = None /\ ~conns'[c].tx /\ conns'[c].pending = {}
    PROVE  Inv'
  <1> USE PoolAssumption DEF Working, TxSteps
  <1>1. conns[c].holder = r
    BY DEF Inv, HolderWorks
  <1>2. \A x \in Requests \ {r} : req[x].pc \in Working => req[x].conn \in Conns \ {c}
    BY <1>1 DEF Inv, HolderWorks, RequestFits
  <1>3. QueueWaits'
    BY DEF Inv, QueueWaits, TypeOK, At
  <1>4. HolderWorks'
    <2>1. ASSUME NEW x \in Conns, conns'[x].holder # None
          PROVE  req'[conns'[x].holder].pc \in Working /\ req'[conns'[x].holder].conn = x
      <3>1. CASE x = c
        BY <2>1, <3>1
      <3>2. CASE x # c
        <4>1. conns'[x] = conns[x] /\ conns[x].holder \in Requests \ {r}
          BY <2>1, <3>2 DEF Inv, TypeOK, Conn, HolderWorks
        <4> QED
          BY <2>1, <4>1 DEF Inv, HolderWorks
      <3> QED
        BY <3>1, <3>2
    <2>2. ASSUME NEW x \in Requests, req'[x].pc \in Working
          PROVE  conns'[req'[x].conn].holder = x
      <3>1. CASE x = r
        BY <2>2, <3>1
      <3>2. CASE x # r
        BY <1>2, <2>2, <3>2 DEF Inv, HolderWorks
      <3> QED
        BY <3>1, <3>2
    <2> QED
      BY <2>1, <2>2 DEF HolderWorks
  <1>5. IdleIsClean'
    BY DEF Inv, IdleIsClean
  <1>6. ASSUME NEW x \in Requests, x # r PROVE RequestFits(x)'
    <2>1. req'[x] = req[x] /\ saved'[x] = saved[x] /\ RequestFits(x)
      BY <1>6 DEF Inv
    <2>2. req[x].pc \in Working => conns'[req[x].conn] = conns[req[x].conn]
      BY <1>2, <1>6
    <2> QED
      BY <2>1, <2>2 DEF RequestFits, Made, At
  <1> QED
    BY <1>3, <1>4, <1>5, <1>6 DEF Inv

-----------------------------------------------------------------------------
(* Every action keeps the invariant. *)

LEMMA ArriveKeeps ==
    ASSUME Inv, NEW r \in Requests, NEW op \in Ops, Arrive(r, op)
    PROVE  Inv'
  <1> USE PoolAssumption DEF Working, TxSteps
  <1> DEFINE arrived == [NoRequest EXCEPT !.op = op, !.pc = "waiting"]
  <1>1. /\ arrived \in Request
        /\ arrived.pc = "waiting" /\ arrived.op = op
    BY DEF NoRequest, Request, Steps, Ops
  <1>2. /\ req' = [req EXCEPT ![r] = arrived] /\ saved' = [saved EXCEPT ![r] = {}]
        /\ queue' = Append(queue, r) /\ conns' = conns
        /\ req[r].pc \in {"idle", "ok", "error"}
    BY DEF Arrive, Answered
  <1> HIDE DEF arrived
  <1>3. /\ queue' \in Seq(Requests) /\ IsInjective(queue')
        /\ \A i \in DOMAIN queue' : queue'[i] = r \/ At(queue'[i], "waiting")
    BY <1>2, QueueGrows DEF Inv, At
  <1>4. TypeOK'
    BY <1>1, <1>2, <1>3 DEF Inv, TypeOK, Writes
  <1>5. QueueWaits'
    BY <1>1, <1>2, <1>3, <1>4 DEF Inv, TypeOK, QueueWaits, At
  <1>6. HolderWorks'
    <2>1. \A c \in Conns : conns[c].holder # r
      BY <1>2 DEF Inv, HolderWorks
    <2> QED
      BY <1>1, <1>2, <2>1 DEF Inv, TypeOK, Conn, HolderWorks
  <1>7. IdleIsClean'
    BY <1>2 DEF Inv, IdleIsClean
  <1>8. ASSUME NEW x \in Requests PROVE RequestFits(x)'
    BY <1>1, <1>2 DEF Inv, TypeOK, RequestFits, Made, At, Ops
  <1> QED
    BY <1>4, <1>5, <1>6, <1>7, <1>8 DEF Inv

\* Whoever the first in the queue is, the connection was nobody's.
LEMMA ConnectKeeps ==
    ASSUME Inv, NEW r \in Requests, Connect(r)
    PROVE  Inv'
  <1> USE PoolAssumption DEF Working, TxSteps
  <1>1. PICK c \in Conns :
          /\ conns[c].holder = None
          /\ conns' = [conns EXCEPT ![c].open = TRUE, ![c].holder = r]
          /\ req' = [req EXCEPT ![r].conn = c,
                ![r].pc = IF req[r].op = "query" THEN "query" ELSE "begin"]
    BY DEF Connect
  <1>2. /\ queue # <<>> /\ r = Head(queue) /\ queue' = Tail(queue) /\ saved' = saved
    BY DEF Connect
  <1>3. 1 \in DOMAIN queue /\ r = queue[1] /\ queue' = RemoveAt(queue, 1)
    BY <1>2, TailIsRemoval DEF Inv, TypeOK
  <1>4. /\ At(r, "waiting")
        /\ queue' \in Seq(Requests) /\ IsInjective(queue')
        /\ \A i \in DOMAIN queue' : queue'[i] # r /\ At(queue'[i], "waiting")
    BY <1>3, QueueShrinks DEF Inv, QueueWaits
  <1>5. /\ req' \in [Requests -> Request]
        /\ \A x \in Requests \ {r} : req'[x] = req[x]
        /\ req'[r].conn = c /\ req'[r].op = req[r].op
        /\ req'[r].pc = IF req[r].op = "query" THEN "query" ELSE "begin"
    <2> DEFINE step == IF req[r].op = "query" THEN "query" ELSE "begin"
    <2>1. step \in Steps
      BY DEF Steps
    <2> HIDE DEF step
    <2>2. req' = [req EXCEPT ![r].conn = c, ![r].pc = step]
      BY <1>1 DEF step
    <2>3. req \in [Requests -> Request]
      BY DEF Inv, TypeOK
    <2>4. /\ req' \in [Requests -> Request]
          /\ \A x \in Requests \ {r} : req'[x] = req[x]
          /\ req'[r].conn = c /\ req'[r].op = req[r].op /\ req'[r].pc = step
      BY <2>1, <2>2, <2>3 DEF Request
    <2> QED
      BY <2>4 DEF step
  <1>6. /\ conns' \in [Conns -> Conn]
        /\ \A x \in Conns \ {c} : conns'[x] = conns[x]
        /\ conns'[c].holder = r /\ conns'[c].tx = conns[c].tx
        /\ conns'[c].pending = conns[c].pending
    BY <1>1 DEF Inv, TypeOK, Conn
  <1>7. TypeOK'
    BY <1>2, <1>4, <1>5, <1>6 DEF Inv, TypeOK
  <1>8. QueueWaits'
    BY <1>4, <1>5 DEF Inv, TypeOK, QueueWaits, At
  <1>9. /\ \A x \in Requests : req[x].pc \in Working => req[x].conn \in Conns \ {c}
        /\ \A x \in Conns : conns[x].holder # r /\ conns[x].holder \in Requests \cup {None}
    BY <1>1, <1>4 DEF Inv, TypeOK, Conn, HolderWorks, RequestFits, At
  <1>10. HolderWorks'
    BY <1>4, <1>5, <1>6, <1>9 DEF Inv, HolderWorks, At
  <1>11. IdleIsClean'
    BY <1>6 DEF Inv, IdleIsClean
  <1>12. RequestFits(r)'
    <2>1. conns'[c].pending = {} /\ ~conns'[c].tx
      BY <1>1, <1>6 DEF Inv, IdleIsClean
    <2>2. saved'[r] = {} /\ req[r].op \in Ops
      BY <1>2, <1>4 DEF Inv, TypeOK, Request, RequestFits, At
    <2> QED
      BY <1>5, <2>1, <2>2 DEF RequestFits, Made, At, Ops
  <1>13. ASSUME NEW x \in Requests, x # r PROVE RequestFits(x)'
    <2>1. req'[x] = req[x] /\ saved'[x] = saved[x] /\ RequestFits(x)
      BY <1>2, <1>5, <1>13 DEF Inv
    <2>2. req[x].pc \in Working => conns'[req[x].conn] = conns[req[x].conn]
      BY <1>6, <1>9
    <2> QED
      BY <2>1, <2>2 DEF RequestFits, Made, At
  <1> QED
    BY <1>7, <1>8, <1>10, <1>11, <1>12, <1>13 DEF Inv

LEMMA TimeOutKeeps ==
    ASSUME Inv, NEW r \in Requests, TimeOut(r)
    PROVE  Inv'
  <1> USE PoolAssumption DEF Working, TxSteps
  <1>1. conns' = conns /\ saved' = saved
    BY DEF TimeOut
  <1>2. /\ At(r, "waiting")
        /\ queue' \in Seq(Requests) /\ IsInjective(queue')
        /\ \A i \in DOMAIN queue' : queue'[i] # r /\ At(queue'[i], "waiting")
    BY QueueShrinks DEF Inv, QueueWaits, TimeOut
  <1>3. /\ req' \in [Requests -> Request]
        /\ \A x \in Requests \ {r} : req'[x] = req[x]
        /\ req'[r].pc = "error" /\ req'[r].op = req[r].op
    BY AnswerShape DEF Inv, TimeOut
  <1>4. TypeOK'
    BY <1>1, <1>2, <1>3 DEF Inv, TypeOK
  <1>5. QueueWaits'
    BY <1>2, <1>3 DEF Inv, TypeOK, QueueWaits, At
  <1>6. HolderWorks'
    <2>1. \A c \in Conns : conns[c].holder # r
      BY <1>2 DEF Inv, HolderWorks, At
    <2>2. \A c \in Conns : conns[c].holder \in Requests \cup {None}
      BY DEF Inv, TypeOK, Conn
    <2> QED
      BY <1>1, <1>2, <1>3, <2>1, <2>2 DEF Inv, HolderWorks, At
  <1>7. IdleIsClean'
    BY <1>1 DEF Inv, IdleIsClean
  <1>8. ASSUME NEW x \in Requests PROVE RequestFits(x)'
    BY ZenonT(40), <1>1, <1>2, <1>3 DEF Inv, RequestFits, Made, At
  <1> QED
    BY <1>4, <1>5, <1>6, <1>7, <1>8 DEF Inv

\* What a request that works with a connection can rely on.
LEMMA Holding ==
    ASSUME Inv, NEW r \in Requests, req[r].pc \in Working, NEW c, c = req[r].conn
    PROVE  /\ c \in Conns /\ conns[c] \in Conn /\ conns[c].holder = r
           /\ req[r] \in Request /\ RequestFits(r)
  BY DEF Inv, TypeOK, HolderWorks, RequestFits

LEMMA RunQueryKeeps ==
    ASSUME Inv, NEW r \in Requests, RunQuery(r)
    PROVE  Inv'
  <1> USE DEF Working, TxSteps
  <1> SUFFICES ASSUME NEW c, c = req[r].conn PROVE Inv'
    OBVIOUS
  <1>1. req[r].pc = "query"
    BY DEF RunQuery, At
  <1>2. /\ c \in Conns /\ conns[c] \in Conn /\ conns[c].holder = r
        /\ req[r] \in Request /\ RequestFits(r)
    BY <1>1, Holding
  <1>3. /\ conns' \in [Conns -> Conn]
        /\ \A x \in Conns \ {c} : conns'[x] = conns[x]
        /\ conns'[c].holder = None /\ ~conns'[c].tx /\ conns'[c].pending = {}
    <2>1. ~conns[c].tx /\ conns[c].pending = {}
      BY <1>1, <1>2 DEF RequestFits, Made, At
    <2> QED
      BY <1>2, <2>1 DEF Inv, TypeOK, RunQuery, Conn
  <1>4. /\ req' \in [Requests -> Request]
        /\ \A x \in Requests \ {r} : req'[x] = req[x]
        /\ req'[r].pc = "ok" /\ req'[r].op = req[r].op
    BY AnswerShape DEF Inv, RunQuery
  <1>5. /\ queue' = queue /\ saved' \in [Requests -> SUBSET Writes]
        /\ saved'[r] = {1} /\ \A x \in Requests \ {r} : saved'[x] = saved[x]
    BY DEF Inv, TypeOK, RunQuery, Writes
  <1>6. TypeOK'
    BY <1>3, <1>4, <1>5 DEF Inv, TypeOK
  <1>7. RequestFits(r)'
    BY <1>1, <1>2, <1>3, <1>4, <1>5 DEF RequestFits, Made, At, Writes
  <1> QED
    BY <1>1, <1>2, <1>3, <1>4, <1>5, <1>6, <1>7, StepOfHolder

LEMMA QueryFailsKeeps ==
    ASSUME Inv, NEW r \in Requests, QueryFails(r)
    PROVE  Inv'
  <1> USE DEF Working, TxSteps
  <1> SUFFICES ASSUME NEW c, c = req[r].conn PROVE Inv'
    OBVIOUS
  <1>1. req[r].pc = "query"
    BY DEF QueryFails, At
  <1>2. /\ c \in Conns /\ conns[c] \in Conn /\ conns[c].holder = r
        /\ req[r] \in Request /\ RequestFits(r)
    BY <1>1, Holding
  <1>3. /\ conns' \in [Conns -> Conn]
        /\ \A x \in Conns \ {c} : conns'[x] = conns[x]
        /\ conns'[c].holder = None /\ ~conns'[c].tx /\ conns'[c].pending = {}
    BY <1>2, ConnTypes DEF Inv, TypeOK, QueryFails
  <1>4. /\ req' \in [Requests -> Request]
        /\ \A x \in Requests \ {r} : req'[x] = req[x]
        /\ req'[r].pc = "error" /\ req'[r].op = req[r].op
    BY AnswerShape DEF Inv, QueryFails
  <1>5. /\ queue' = queue /\ saved' \in [Requests -> SUBSET Writes]
        /\ \A x \in Requests \ {r} : saved'[x] = saved[x]
    BY DEF Inv, TypeOK, QueryFails, Writes
  <1>6. TypeOK'
    BY <1>3, <1>4, <1>5 DEF Inv, TypeOK
  <1>7. RequestFits(r)'
    BY <1>1, <1>2, <1>3, <1>4, <1>5 DEF RequestFits, Made, At, Writes
  <1> QED
    BY <1>1, <1>2, <1>3, <1>4, <1>5, <1>6, <1>7, StepOfHolder

LEMMA BeginKeeps ==
    ASSUME Inv, NEW r \in Requests, Begin(r)
    PROVE  Inv'
  <1> USE DEF Working, TxSteps
  <1> SUFFICES ASSUME NEW c, c = req[r].conn PROVE Inv'
    OBVIOUS
  <1>1. req[r].pc = "begin"
    BY DEF Begin, At
  <1>2. /\ c \in Conns /\ conns[c] \in Conn /\ conns[c].holder = r
        /\ req[r] \in Request /\ RequestFits(r)
    BY <1>1, Holding
  <1>3. /\ conns' \in [Conns -> Conn]
        /\ \A x \in Conns \ {c} : conns'[x] = conns[x]
        /\ conns'[c].holder = r /\ conns'[c].pending = conns[c].pending
    BY <1>2 DEF Inv, TypeOK, Begin, Conn, Writes
  <1>4. /\ req' \in [Requests -> Request]
        /\ \A x \in Requests \ {r} : req'[x] = req[x]
        /\ req'[r].pc = "first" /\ req'[r].conn = c /\ req'[r].op = req[r].op
    BY GotoShape DEF Inv, Begin, Steps
  <1>5. queue' = queue /\ saved' = saved
    BY DEF Begin
  <1>6. TypeOK'
    BY <1>3, <1>4, <1>5 DEF Inv, TypeOK
  <1>7. RequestFits(r)'
    BY <1>1, <1>2, <1>3, <1>4, <1>5 DEF RequestFits, Made, At, Writes
  <1> QED
    BY <1>1, <1>2, <1>3, <1>4, <1>5, <1>6, <1>7, StepOfHolder

LEMMA WriteFirstKeeps ==
    ASSUME Inv, NEW r \in Requests, WriteFirst(r)
    PROVE  Inv'
  <1> USE DEF Working, TxSteps
  <1> SUFFICES ASSUME NEW c, c = req[r].conn PROVE Inv'
    OBVIOUS
  <1>1. req[r].pc = "first"
    BY DEF WriteFirst, At, Write
  <1>2. /\ c \in Conns /\ conns[c] \in Conn /\ conns[c].holder = r
        /\ req[r] \in Request /\ RequestFits(r)
    BY <1>1, Holding
  <1>3. /\ conns' \in [Conns -> Conn]
        /\ \A x \in Conns \ {c} : conns'[x] = conns[x]
        /\ conns'[c].holder = r /\ conns'[c].pending = conns[c].pending \cup {<<r, 1>>}
    BY <1>2 DEF Inv, TypeOK, WriteFirst, Write, Conn, Writes
  <1>4. /\ req' \in [Requests -> Request]
        /\ \A x \in Requests \ {r} : req'[x] = req[x]
        /\ req'[r].pc = "nested" /\ req'[r].conn = c /\ req'[r].op = req[r].op
    BY GotoShape DEF Inv, WriteFirst, Write, Steps
  <1>5. queue' = queue /\ saved' = saved
    BY DEF WriteFirst, Write
  <1>6. TypeOK'
    BY <1>3, <1>4, <1>5 DEF Inv, TypeOK
  <1>7. RequestFits(r)'
    BY <1>1, <1>2, <1>3, <1>4, <1>5 DEF RequestFits, Made, At, Writes
  <1> QED
    BY <1>1, <1>2, <1>3, <1>4, <1>5, <1>6, <1>7, StepOfHolder

LEMMA JoinNestedKeeps ==
    ASSUME Inv, NEW r \in Requests, JoinNested(r)
    PROVE  Inv'
  <1> USE DEF Working, TxSteps
  <1> SUFFICES ASSUME NEW c, c = req[r].conn PROVE Inv'
    OBVIOUS
  <1>1. req[r].pc = "nested"
    BY DEF JoinNested, At
  <1>2. /\ c \in Conns /\ conns[c] \in Conn /\ conns[c].holder = r
        /\ req[r] \in Request /\ RequestFits(r)
    BY <1>1, Holding
  <1>3. conns' = conns
    BY DEF JoinNested
  <1>4. /\ req' \in [Requests -> Request]
        /\ \A x \in Requests \ {r} : req'[x] = req[x]
        /\ req'[r].pc = "second" /\ req'[r].conn = c /\ req'[r].op = req[r].op
    BY GotoShape DEF Inv, JoinNested, Steps
  <1>5. queue' = queue /\ saved' = saved
    BY DEF JoinNested
  <1>6. TypeOK'
    BY <1>3, <1>4, <1>5 DEF Inv, TypeOK
  <1>7. RequestFits(r)'
    BY <1>1, <1>2, <1>3, <1>4, <1>5 DEF RequestFits, Made, At, Writes
  <1> QED
    BY <1>1, <1>2, <1>3, <1>4, <1>5, <1>6, <1>7, StepOfHolder

LEMMA WriteSecondKeeps ==
    ASSUME Inv, NEW r \in Requests, WriteSecond(r)
    PROVE  Inv'
  <1> USE DEF Working, TxSteps
  <1> SUFFICES ASSUME NEW c, c = req[r].conn PROVE Inv'
    OBVIOUS
  <1>1. req[r].pc = "second"
    BY DEF WriteSecond, At, Write
  <1>2. /\ c \in Conns /\ conns[c] \in Conn /\ conns[c].holder = r
        /\ req[r] \in Request /\ RequestFits(r)
    BY <1>1, Holding
  <1>3. /\ conns' \in [Conns -> Conn]
        /\ \A x \in Conns \ {c} : conns'[x] = conns[x]
        /\ conns'[c].holder = r /\ conns'[c].pending = conns[c].pending \cup {<<r, 2>>}
    BY <1>2 DEF Inv, TypeOK, WriteSecond, Write, Conn, Writes
  <1>4. /\ req' \in [Requests -> Request]
        /\ \A x \in Requests \ {r} : req'[x] = req[x]
        /\ req'[r].pc = "commit" /\ req'[r].conn = c /\ req'[r].op = req[r].op
    BY GotoShape DEF Inv, WriteSecond, Write, Steps
  <1>5. queue' = queue /\ saved' = saved
    BY DEF WriteSecond, Write
  <1>6. TypeOK'
    BY <1>3, <1>4, <1>5 DEF Inv, TypeOK
  <1>7. RequestFits(r)'
    BY <1>1, <1>2, <1>3, <1>4, <1>5 DEF RequestFits, Made, At, Writes
  <1> QED
    BY <1>1, <1>2, <1>3, <1>4, <1>5, <1>6, <1>7, StepOfHolder

\* A COMMIT saves both writes of the request that made them, and nothing else.
LEMMA SavedByCommit ==
    ASSUME Inv, NEW r \in Requests, At(r, "commit"), NEW c, c = req[r].conn
    PROVE  /\ Saved(c) \in [Requests -> SUBSET Writes] /\ Saved(c)[r] = Writes
           /\ \A x \in Requests \ {r} : Saved(c)[x] = saved[x]
  <1>1. conns[c].pending = {<<r, 1>>, <<r, 2>>} /\ saved[r] = {}
    BY DEF Inv, RequestFits, Made, At, TxSteps
  <1>2. saved \in [Requests -> SUBSET Writes]
    BY DEF Inv, TypeOK
  <1> QED
    BY <1>1, <1>2 DEF Saved, Writes

LEMMA CommitKeeps ==
    ASSUME Inv, NEW r \in Requests, Commit(r)
    PROVE  Inv'
  <1> USE DEF Working, TxSteps
  <1> SUFFICES ASSUME NEW c, c = req[r].conn PROVE Inv'
    OBVIOUS
  <1>1. req[r].pc = "commit"
    BY DEF Commit, At
  <1>2. /\ c \in Conns /\ conns[c] \in Conn /\ conns[c].holder = r
        /\ req[r] \in Request /\ RequestFits(r)
    BY <1>1, Holding
  <1>3. /\ conns' \in [Conns -> Conn]
        /\ \A x \in Conns \ {c} : conns'[x] = conns[x]
        /\ conns'[c].holder = None /\ ~conns'[c].tx /\ conns'[c].pending = {}
    BY <1>2, ConnTypes DEF Inv, TypeOK, Commit
  <1>4. /\ req' \in [Requests -> Request]
        /\ \A x \in Requests \ {r} : req'[x] = req[x]
        /\ req'[r].pc = "ok" /\ req'[r].op = req[r].op
    BY AnswerShape DEF Inv, Commit
  <1>5. /\ queue' = queue /\ saved' \in [Requests -> SUBSET Writes]
        /\ saved'[r] = Writes /\ \A x \in Requests \ {r} : saved'[x] = saved[x]
    BY SavedByCommit DEF Commit
  <1>6. TypeOK'
    BY <1>3, <1>4, <1>5 DEF Inv, TypeOK
  <1>7. RequestFits(r)'
    BY <1>1, <1>2, <1>3, <1>4, <1>5 DEF RequestFits, Made, At, Writes
  <1> QED
    BY <1>1, <1>2, <1>3, <1>4, <1>5, <1>6, <1>7, StepOfHolder

LEMMA StatementFailsKeeps ==
    ASSUME Inv, NEW r \in Requests, StatementFails(r)
    PROVE  Inv'
  <1> USE DEF Working, TxSteps
  <1> SUFFICES ASSUME NEW c, c = req[r].conn PROVE Inv'
    OBVIOUS
  <1>1. req[r].pc \in TxSteps
    BY DEF StatementFails, At
  <1>2. /\ c \in Conns /\ conns[c] \in Conn /\ conns[c].holder = r
        /\ req[r] \in Request /\ RequestFits(r)
    BY <1>1, Holding
  <1>3. conns' = conns
    BY DEF StatementFails
  <1>4. /\ req' \in [Requests -> Request]
        /\ \A x \in Requests \ {r} : req'[x] = req[x]
        /\ req'[r].pc = "rollback" /\ req'[r].conn = c /\ req'[r].op = req[r].op
    BY GotoShape DEF Inv, StatementFails, Steps
  <1>5. queue' = queue /\ saved' = saved
    BY DEF StatementFails
  <1>6. TypeOK'
    BY <1>3, <1>4, <1>5 DEF Inv, TypeOK
  <1>7. RequestFits(r)'
    BY <1>1, <1>2, <1>3, <1>4, <1>5 DEF RequestFits, Made, At, Writes
  <1> QED
    BY <1>1, <1>2, <1>3, <1>4, <1>5, <1>6, <1>7, StepOfHolder

\* The connection's writes are gone, or all saved if a COMMIT was on its way.
LEMMA ConnectionBreaksKeeps ==
    ASSUME Inv, NEW r \in Requests, ConnectionBreaks(r)
    PROVE  Inv'
  <1> USE DEF Working, TxSteps
  <1> SUFFICES ASSUME NEW c, c = req[r].conn PROVE Inv'
    OBVIOUS
  <1>1. req[r].pc \in TxSteps \cup {"rollback"}
    BY DEF ConnectionBreaks, At
  <1>2. /\ c \in Conns /\ conns[c] \in Conn /\ conns[c].holder = r
        /\ req[r] \in Request /\ RequestFits(r)
    BY <1>1, Holding
  <1>3. /\ conns' \in [Conns -> Conn]
        /\ \A x \in Conns \ {c} : conns'[x] = conns[x]
        /\ conns'[c].holder = r
    BY <1>2 DEF Inv, TypeOK, ConnectionBreaks, Conn, Writes
  <1>4. /\ req' \in [Requests -> Request]
        /\ \A x \in Requests \ {r} : req'[x] = req[x]
        /\ req'[r].pc = "rollback" /\ req'[r].conn = c /\ req'[r].op = req[r].op
    BY DEF Inv, TypeOK, ConnectionBreaks, Request, Steps
  <1>5. /\ queue' = queue /\ saved' \in [Requests -> SUBSET Writes]
        /\ saved'[r] \in {saved[r], Writes}
        /\ \A x \in Requests \ {r} : saved'[x] = saved[x]
    BY SavedByCommit DEF Inv, TypeOK, ConnectionBreaks
  <1>6. TypeOK'
    BY <1>3, <1>4, <1>5 DEF Inv, TypeOK
  <1>7. RequestFits(r)'
    BY <1>1, <1>2, <1>3, <1>4, <1>5 DEF RequestFits, Made, At, Writes
  <1> QED
    BY <1>1, <1>2, <1>3, <1>4, <1>5, <1>6, <1>7, StepOfHolder

LEMMA RollbackKeeps ==
    ASSUME Inv, NEW r \in Requests, Rollback(r)
    PROVE  Inv'
  <1> USE DEF Working, TxSteps
  <1> SUFFICES ASSUME NEW c, c = req[r].conn PROVE Inv'
    OBVIOUS
  <1>1. req[r].pc = "rollback"
    BY DEF Rollback, At
  <1>2. /\ c \in Conns /\ conns[c] \in Conn /\ conns[c].holder = r
        /\ req[r] \in Request /\ RequestFits(r)
    BY <1>1, Holding
  <1>3. /\ conns' \in [Conns -> Conn]
        /\ \A x \in Conns \ {c} : conns'[x] = conns[x]
        /\ conns'[c].holder = None /\ ~conns'[c].tx /\ conns'[c].pending = {}
    BY <1>2, ConnTypes DEF Inv, TypeOK, Rollback
  <1>4. /\ req' \in [Requests -> Request]
        /\ \A x \in Requests \ {r} : req'[x] = req[x]
        /\ req'[r].pc = "error" /\ req'[r].op = req[r].op
    BY AnswerShape DEF Inv, Rollback
  <1>5. queue' = queue /\ saved' = saved
    BY DEF Rollback
  <1>6. TypeOK'
    BY <1>3, <1>4, <1>5 DEF Inv, TypeOK
  <1>7. RequestFits(r)'
    BY <1>1, <1>2, <1>3, <1>4, <1>5 DEF RequestFits, Made, At, Writes
  <1> QED
    BY <1>1, <1>2, <1>3, <1>4, <1>5, <1>6, <1>7, StepOfHolder

LEMMA RollbackFailsKeeps ==
    ASSUME Inv, NEW r \in Requests, RollbackFails(r)
    PROVE  Inv'
  <1> USE DEF Working, TxSteps
  <1> SUFFICES ASSUME NEW c, c = req[r].conn PROVE Inv'
    OBVIOUS
  <1>1. req[r].pc = "rollback"
    BY DEF RollbackFails, At
  <1>2. /\ c \in Conns /\ conns[c] \in Conn /\ conns[c].holder = r
        /\ req[r] \in Request /\ RequestFits(r)
    BY <1>1, Holding
  <1>3. /\ conns' \in [Conns -> Conn]
        /\ \A x \in Conns \ {c} : conns'[x] = conns[x]
        /\ conns'[c].holder = None /\ ~conns'[c].tx /\ conns'[c].pending = {}
    BY <1>2, ConnTypes DEF Inv, TypeOK, RollbackFails
  <1>4. /\ req' \in [Requests -> Request]
        /\ \A x \in Requests \ {r} : req'[x] = req[x]
        /\ req'[r].pc = "error" /\ req'[r].op = req[r].op
    BY AnswerShape DEF Inv, RollbackFails
  <1>5. queue' = queue /\ saved' = saved
    BY DEF RollbackFails
  <1>6. TypeOK'
    BY <1>3, <1>4, <1>5 DEF Inv, TypeOK
  <1>7. RequestFits(r)'
    BY <1>1, <1>2, <1>3, <1>4, <1>5 DEF RequestFits, Made, At, Writes
  <1> QED
    BY <1>1, <1>2, <1>3, <1>4, <1>5, <1>6, <1>7, StepOfHolder

LEMMA IdleConnectionDropsKeeps ==
    ASSUME Inv, NEW c \in Conns, IdleConnectionDrops(c)
    PROVE  Inv'
  <1>1. /\ conns' \in [Conns -> Conn]
        /\ \A x \in Conns \ {c} : conns'[x] = conns[x]
        /\ conns'[c].holder = None /\ ~conns'[c].tx /\ conns'[c].pending = {}
    BY ConnTypes DEF Inv, TypeOK, IdleConnectionDrops
  <1>2. queue' = queue /\ req' = req /\ saved' = saved
    BY DEF IdleConnectionDrops
  <1>3. conns[c].holder = None
    BY DEF IdleConnectionDrops
  <1>4. \A r \in Requests : req[r].pc \in Working => req[r].conn \in Conns \ {c}
    BY <1>3, PoolAssumption DEF Inv, HolderWorks, RequestFits
  <1>5. TypeOK' /\ QueueWaits'
    BY <1>1, <1>2 DEF Inv, TypeOK, QueueWaits, At
  <1>6. HolderWorks'
    BY <1>1, <1>2, <1>4 DEF Inv, HolderWorks
  <1>7. IdleIsClean'
    BY <1>1 DEF Inv, IdleIsClean
  <1>8. ASSUME NEW r \in Requests PROVE RequestFits(r)'
    BY <1>1, <1>2, <1>4 DEF Inv, RequestFits, Made, At, Working, TxSteps
  <1> QED
    BY <1>5, <1>6, <1>7, <1>8 DEF Inv

LEMMA InvStep == Inv /\ [Next]_vars => Inv'
  <1> SUFFICES ASSUME Inv, [Next]_vars PROVE Inv'
    OBVIOUS
  <1>1. ASSUME NEW r \in Requests, NEW op \in Ops, Arrive(r, op) PROVE Inv'
    BY <1>1, ArriveKeeps
  <1>2. ASSUME NEW r \in Requests, Connect(r) \/ TimeOut(r) PROVE Inv'
    BY <1>2, ConnectKeeps, TimeOutKeeps
  <1>3. ASSUME NEW r \in Requests, Work(r) PROVE Inv'
    BY <1>3, RunQueryKeeps, BeginKeeps, WriteFirstKeeps, JoinNestedKeeps, WriteSecondKeeps,
       CommitKeeps DEF Work
  <1>4. ASSUME NEW r \in Requests, Failure(r) PROVE Inv'
    BY <1>4, QueryFailsKeeps, StatementFailsKeeps, ConnectionBreaksKeeps DEF Failure
  <1>5. ASSUME NEW r \in Requests, End(r) PROVE Inv'
    BY <1>5, RollbackKeeps, RollbackFailsKeeps DEF End
  <1>6. ASSUME NEW c \in Conns, IdleConnectionDrops(c) PROVE Inv'
    BY <1>6, IdleConnectionDropsKeeps
  <1>7. ASSUME UNCHANGED vars PROVE Inv'
    BY <1>7 DEF vars, Inv, TypeOK, QueueWaits, HolderWorks, IdleIsClean, RequestFits, Made, At
  <1> QED
    BY <1>1, <1>2, <1>3, <1>4, <1>5, <1>6, <1>7 DEF Next

-----------------------------------------------------------------------------
(* The theorems. *)

\* The inductive invariant holds of every state of withTransaction and the pool.
THEOREM Invariance == Spec => []Inv
  BY InitInv, InvStep, PTL DEF Spec

\* What the invariant says of each request: it holds one connection while it works,
\* and none before or after.
LEMMA InvImplies == Inv => ConnectionsAreAccountedFor /\ AllOrNothing
  <1> SUFFICES ASSUME Inv PROVE ConnectionsAreAccountedFor /\ AllOrNothing
    OBVIOUS
  <1>1. OneConnectionEach
    <2> SUFFICES ASSUME NEW r \in Requests
                 PROVE  {c \in Conns : conns[c].holder = r} =
                           IF req[r].pc \in Working THEN {req[r].conn} ELSE {}
      BY DEF OneConnectionEach, Working
    <2>1. CASE req[r].pc \in Working
      BY <2>1, PoolAssumption DEF Inv, HolderWorks, RequestFits
    <2>2. CASE req[r].pc \notin Working
      BY <2>2, PoolAssumption DEF Inv, HolderWorks
    <2> QED
      BY <2>1, <2>2
  <1>2. AllOrNothing
    BY DEF Inv, RequestFits, AllOrNothing
  <1> QED
    BY <1>1, <1>2 DEF Inv, ConnectionsAreAccountedFor

\* The pool's bookkeeping adds up after every query, catch block and broken
\* connection (getTransactionClient, withTransaction): types, one connection for each
\* request that works, and nothing of a transaction on one that goes back.
THEOREM AccountedFor == Spec => []ConnectionsAreAccountedFor
  BY Invariance, InvImplies, PTL

\* A transaction's writes, the nested ones with them, are saved all or not at
\* all, however many transactions run and whatever breaks.
THEOREM Atomicity == Spec => []AllOrNothing
  BY Invariance, InvImplies, PTL
=============================================================================
