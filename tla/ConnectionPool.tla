--------------------------- MODULE ConnectionPool ---------------------------
(***************************************************************************)
(* The database pool and withTransaction: requests that queue for a        *)
(* connection, each to run one query on the pool or one transaction, and   *)
(* connections that may break at any moment.                               *)
(*                                                                         *)
(* A transaction makes two writes, the second one in a nested call of      *)
(* withTransaction.  `pending` are the writes a connection's open          *)
(* transaction has made, `saved` the ones that are committed.  The pool    *)
(* itself (package pg) is modelled from how the code uses it: a freed      *)
(* connection goes to the first in the queue.                              *)
(***************************************************************************)
EXTENDS Naturals, SequencesExt

CONSTANTS
    Requests,    \* how many requests there may be at once: their slots
    Conns,       \* how many connections the pool may open (10)
    None         \* nobody, no connection

ASSUME PoolAssumption == None \notin Requests \cup Conns

VARIABLES
    conns,       \* the connections
    queue,       \* the requests that wait for one, first come first served
    req,         \* what each request is doing
    saved        \* the writes each request has in the database

vars == <<conns, queue, req, saved>>

Writes == {1, 2}
Conn == [open : BOOLEAN, holder : Requests \cup {None}, tx : BOOLEAN,
         pending : SUBSET (Requests \X Writes)]
Closed == [open |-> FALSE, holder |-> None, tx |-> FALSE, pending |-> {}]
Released == [Closed EXCEPT !.open = TRUE]

Ops == {"query", "transaction"}
TxSteps == {"begin", "first", "nested", "second", "commit"}
Steps == {"idle", "waiting", "query", "rollback", "ok", "error"} \cup TxSteps
Request == [op : Ops, pc : Steps, conn : Conns \cup {None}, broken : BOOLEAN]
NoRequest == [op |-> "query", pc |-> "idle", conn |-> None, broken |-> FALSE]

At(r, step) == req[r].pc = step
Goto(r, step) == req' = [req EXCEPT ![r].pc = step]
Answered(r) == req[r].pc \in {"idle", "ok", "error"}
Answer(r, answer) ==
    req' = [req EXCEPT ![r] = [@ EXCEPT !.pc = answer, !.conn = None, !.broken = FALSE]]

\* The types, and a request queues once.
TypeOK ==
    /\ conns \in [Conns -> Conn]
    /\ queue \in Seq(Requests) /\ IsInjective(queue)
    /\ req \in [Requests -> Request]
    /\ saved \in [Requests -> SUBSET Writes]

Init ==
    /\ conns = [c \in Conns |-> Closed]
    /\ queue = <<>>
    /\ req = [r \in Requests |-> NoRequest]
    /\ saved = [r \in Requests |-> {}]

-----------------------------------------------------------------------------
(* Getting a connection: pool.connect, or pool.query's first half. *)

Arrive(r, op) ==
    /\ Answered(r)
    /\ queue' = Append(queue, r)
    /\ req' = [req EXCEPT ![r] = [NoRequest EXCEPT !.op = op, !.pc = "waiting"]]
    /\ saved' = [saved EXCEPT ![r] = {}]
    /\ UNCHANGED conns

\* An idle connection, or a new one while there are fewer than the most.
Connect(r) ==
    /\ queue # <<>> /\ r = Head(queue)
    /\ \E c \in Conns :
          /\ conns[c].holder = None
          /\ conns' = [conns EXCEPT ![c].open = TRUE, ![c].holder = r]
          /\ req' = [req EXCEPT ![r].conn = c,
                ![r].pc = IF req[r].op = "query" THEN "query" ELSE "begin"]
    /\ queue' = Tail(queue)
    /\ UNCHANGED saved

\* connectionTimeoutMillis, or a new connection that PostgreSQL refuses.
TimeOut(r) ==
    /\ \E i \in DOMAIN queue :
          /\ queue[i] = r
          /\ queue' = RemoveAt(queue, i)
    /\ Answer(r, "error")
    /\ UNCHANGED <<conns, saved>>

-----------------------------------------------------------------------------
(* One query on the pool. *)

RunQuery(r) ==
    /\ At(r, "query")
    /\ conns' = [conns EXCEPT ![req[r].conn].holder = None]
    /\ saved' = [saved EXCEPT ![r] = {1}]
    /\ Answer(r, "ok")
    /\ UNCHANGED queue

\* pool.query destroys a connection whose query failed; the write may have
\* been made before the answer was lost.
QueryFails(r) ==
    /\ At(r, "query")
    /\ conns' = [conns EXCEPT ![req[r].conn] = Closed]
    /\ saved' \in {saved, [saved EXCEPT ![r] = {1}]}
    /\ Answer(r, "error")
    /\ UNCHANGED queue

-----------------------------------------------------------------------------
(* withTransaction. *)

Begin(r) ==
    /\ At(r, "begin")
    /\ conns' = [conns EXCEPT ![req[r].conn].tx = TRUE]
    /\ Goto(r, "first")
    /\ UNCHANGED <<queue, saved>>

\* db(): the transaction's own connection, carried along by AsyncLocalStorage.
Write(r, n, step, next) ==
    /\ At(r, step)
    /\ conns' = [conns EXCEPT ![req[r].conn].pending = @ \cup {<<r, n>>}]
    /\ Goto(r, next)
    /\ UNCHANGED <<queue, saved>>

WriteFirst(r) == Write(r, 1, "first", "nested")

\* The database's side of a COMMIT on connection c.
Saved(c) == [x \in Requests |-> saved[x] \cup {n \in Writes : <<x, n>> \in conns[c].pending}]

\* A slip: the nested call ends the transaction it did not begin.
CommitNested(r) ==
    /\ At(r, "nested")
    /\ saved' = Saved(req[r].conn)
    /\ conns' = [conns EXCEPT ![req[r].conn].pending = {}]
    /\ Goto(r, "second")
    /\ UNCHANGED queue

\* A nested call joins the transaction that runs.
JoinNested(r) ==
    /\ At(r, "nested")
    /\ Goto(r, "second")
    /\ UNCHANGED <<conns, queue, saved>>

\* A slip: a repository that queries `pool` needs a second connection.
WriteSecondOnThePool(r) ==
    /\ At(r, "second")
    /\ queue = <<>>
    /\ \E c \in Conns : conns[c].holder = None
    /\ saved' = [saved EXCEPT ![r] = @ \cup {2}]
    /\ Goto(r, "commit")
    /\ UNCHANGED <<conns, queue>>

WriteSecond(r) == Write(r, 2, "second", "commit")

Commit(r) ==
    /\ At(r, "commit")
    /\ saved' = Saved(req[r].conn)
    /\ conns' = [conns EXCEPT ![req[r].conn] = Released]
    /\ Answer(r, "ok")
    /\ UNCHANGED queue

\* A statement is refused, or the request's own code throws.
StatementFails(r) ==
    /\ req[r].pc \in TxSteps
    /\ Goto(r, "rollback")
    /\ UNCHANGED <<conns, queue, saved>>

\* The connection goes, and the transaction with it: a COMMIT that was on its
\* way may have been carried out.
ConnectionBreaks(r) ==
    /\ req[r].pc \in TxSteps \cup {"rollback"}
    /\ ~req[r].broken
    /\ saved' \in {saved} \cup (IF At(r, "commit") THEN {Saved(req[r].conn)} ELSE {})
    /\ conns' = [conns EXCEPT ![req[r].conn].tx = FALSE, ![req[r].conn].pending = {}]
    /\ req' = [req EXCEPT ![r].pc = "rollback", ![r].broken = TRUE]
    /\ UNCHANGED queue

Rollback(r) ==
    /\ At(r, "rollback")
    /\ ~req[r].broken
    /\ conns' = [conns EXCEPT ![req[r].conn] = Released]
    /\ Answer(r, "error")
    /\ UNCHANGED <<queue, saved>>

\* A slip: release() without the error hands the connection back as it is.
RollbackFailsUnnoticed(r) ==
    /\ At(r, "rollback")
    /\ conns' = [conns EXCEPT ![req[r].conn].holder = None]
    /\ Answer(r, "error")
    /\ UNCHANGED <<queue, saved>>

\* release(rollbackErr): the connection is destroyed.
RollbackFails(r) ==
    /\ At(r, "rollback")
    /\ conns' = [conns EXCEPT ![req[r].conn] = Closed]
    /\ Answer(r, "error")
    /\ UNCHANGED <<queue, saved>>

\* pool.on("error"): an idle connection is dropped, and discarded.
IdleConnectionDrops(c) ==
    /\ conns[c].open
    /\ conns[c].holder = None
    /\ conns' = [conns EXCEPT ![c] = Closed]
    /\ UNCHANGED <<queue, req, saved>>

-----------------------------------------------------------------------------
Work(r) ==
    \/ RunQuery(r)
    \/ Begin(r) \/ WriteFirst(r) \/ JoinNested(r) \/ WriteSecond(r) \/ Commit(r)

Failure(r) ==
    \/ QueryFails(r) \/ StatementFails(r) \/ ConnectionBreaks(r)

End(r) == Rollback(r) \/ RollbackFails(r)

Next ==
    \/ \E r \in Requests :
          \/ \E op \in Ops : Arrive(r, op)
          \/ Connect(r) \/ TimeOut(r)
          \/ Work(r) \/ Failure(r) \/ End(r)
    \/ \E c \in Conns : IdleConnectionDrops(c)

Spec == Init /\ [][Next]_vars

\* The pool serves its queue, the event loop runs what is ready.  No fairness
\* of TimeOut: the five seconds must not be what ends a wait.
FairSpec ==
    Spec /\ \A r \in Requests : WF_vars(Connect(r)) /\ WF_vars(Work(r)) /\ WF_vars(End(r))

-----------------------------------------------------------------------------
(* What the pool and withTransaction guarantee. *)

\* A request holds one connection while it works and none before or after: none
\* is leaked, shared, or released while still in use.
OneConnectionEach ==
    \A r \in Requests :
        {c \in Conns : conns[c].holder = r} =
            IF req[r].pc \in TxSteps \cup {"query", "rollback"} THEN {req[r].conn} ELSE {}

\* A connection that goes back to the pool carries nothing of the transaction it
\* ran ("destroy it rather than hand it back to the pool for someone else").
IdleIsClean ==
    \A c \in Conns : conns[c].holder = None => ~conns[c].tx /\ conns[c].pending = {}

\* Every connection is a request's that works with it, or idle and clean: what is
\* left when connections break, requests time out and a ROLLBACK fails.
ConnectionsAreAccountedFor == TypeOK /\ OneConnectionEach /\ IdleIsClean

\* A transaction's writes are saved together or not at all, the nested ones with
\* them, and a request answered with success has them all.
AllOrNothing ==
    \A r \in Requests :
        /\ req[r].op = "transaction" => saved[r] \in {{}, Writes}
        /\ At(r, "ok") => saved[r] = IF req[r].op = "query" THEN {1} ELSE Writes

\* Every request is answered without the help of a timeout: transactions that
\* hold every connection never wait for one more.
EveryRequestAnswered == \A r \in Requests : ~Answered(r) ~> Answered(r)
=============================================================================
