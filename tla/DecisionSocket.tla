--------------------------- MODULE DecisionSocket ---------------------------
(***************************************************************************)
(* The Unix-socket protocol between nginx and the decision engine: one     *)
(* line of JSON each way per request, on connections nginx keeps in a pool *)
(* (nginx/lua/fingerprint.lua, query_engine and evaluate;                  *)
(* decision-engine/cmd/server/main.go, runUnixSocket and handleConn).      *)
(*                                                                         *)
(* The lines carry no request identifier, so a verdict reaches the right   *)
(* request only if a connection is never reused with an answer still due.  *)
(* The two ends have clocks of their own: nginx waits 50 ms per operation  *)
(* and keeps idle connections for 60 s, the engine gives each connection   *)
(* 200 ms from accept to its last byte.  Time-outs are events that may     *)
(* come at any moment, but for one thing the numbers decide: the first use *)
(* of a connection (send and receive, 50 ms each) ends before its 200 ms.  *)
(***************************************************************************)
EXTENDS Integers, Sequences, FiniteSets

CONSTANTS Requests,       \* HTTP requests of one nginx worker
          Conns,          \* connection slots
          PoolSize,       \* setkeepalive's second argument
          EngineMayDie,   \* TRUE if the engine process may stop and restart
          NoConn, NoRequest

ASSUME SocketAssumption == /\ PoolSize \in Nat \ {0}
                           /\ EngineMayDie \in BOOLEAN
                           /\ IsFiniteSet(Conns) /\ NoConn \notin Conns
                           /\ NoRequest \notin Requests

VARIABLES stage,     \* stage[r]: where query_engine is
          sock,      \* sock[r]: the connection r uses
          outcome,   \* outcome[r]: what the client of r gets
          cause,     \* cause[r]: why r failed open; "closed" if an engine
                     \* that runs had closed the connection
          client,    \* client[c]: nginx's end
          server,    \* server[c]: handleConn's end
          expired,   \* expired[c]: the deadline of c has passed
          fresh,     \* fresh[c]: c has not been in the pool yet
          up,        \* up[c]: lines sent to the engine
          down,      \* down[c]: lines sent to nginx
          job,       \* job[c]: the request Evaluate works on
          running,   \* the engine process runs
          verdict    \* history: verdict[r], what Evaluate said of r

request == <<stage, sock, outcome, cause>>
conn == <<client, server, expired, fresh, up, down, job>>
vars == <<request, conn, running, verdict>>

Verdicts == {"allow", "throttle", "block"}
StatusRaw == [v \in Verdicts |-> v]    \* Mutant: the action is taken for the outcome
Status == [allow |-> "pass", throttle |-> "429", block |-> "403"]

TypeOK ==
  /\ stage \in [Requests -> {"new", "connected", "waiting", "done"}]
  /\ sock \in [Requests -> Conns \cup {NoConn}]
  /\ outcome \in [Requests -> {"none", "pass", "429", "403", "failopen"}]
  /\ cause \in [Requests -> {"none", "closed", "other"}]
  /\ client \in [Conns -> {"busy", "pooled", "closed"}]
  /\ server \in [Conns -> {"reading", "evaluating", "closed"}]
  /\ expired \in [Conns -> BOOLEAN]
  /\ fresh \in [Conns -> BOOLEAN]
  /\ up \in [Conns -> Seq(Requests)]
  /\ down \in [Conns -> Seq(Verdicts)]
  /\ job \in [Conns -> Requests \cup {NoRequest}]
  /\ running \in BOOLEAN
  /\ verdict \in [Requests -> Verdicts \cup {"none"}]

Init == /\ stage = [r \in Requests |-> "new"]
        /\ sock = [r \in Requests |-> NoConn]
        /\ outcome = [r \in Requests |-> "none"]
        /\ cause = [r \in Requests |-> "none"]
        /\ client = [c \in Conns |-> "closed"]
        /\ server = [c \in Conns |-> "closed"]
        /\ expired = [c \in Conns |-> FALSE]
        /\ fresh = [c \in Conns |-> TRUE]
        /\ up = [c \in Conns |-> <<>>]
        /\ down = [c \in Conns |-> <<>>]
        /\ job = [c \in Conns |-> NoRequest]
        /\ running = TRUE
        /\ verdict = [r \in Requests |-> "none"]

Pool == {c \in Conns : client[c] = "pooled"}

-----------------------------------------------------------------------------
(* nginx: query_engine and evaluate                                        *)

(* connect takes an idle connection of the pool if there is one.           *)
ConnectPooled(r, c) == /\ stage[r] = "new" /\ c \in Pool
                       /\ stage' = [stage EXCEPT ![r] = "connected"]
                       /\ sock' = [sock EXCEPT ![r] = c]
                       /\ client' = [client EXCEPT ![c] = "busy"]
                       /\ UNCHANGED <<outcome, cause, server, expired, fresh, up, down,
                                      job, running, verdict>>

(* Otherwise it opens a new one, which the engine accepts: handleConn sets *)
(* the connection's only deadline here.                                    *)
ConnectNew(r, c) == /\ stage[r] = "new" /\ Pool = {} /\ running
                    /\ client[c] = "closed" /\ server[c] = "closed"
                    /\ stage' = [stage EXCEPT ![r] = "connected"]
                    /\ sock' = [sock EXCEPT ![r] = c]
                    /\ client' = [client EXCEPT ![c] = "busy"]
                    /\ server' = [server EXCEPT ![c] = "reading"]
                    /\ expired' = [expired EXCEPT ![c] = FALSE]
                    /\ fresh' = [fresh EXCEPT ![c] = TRUE]
                    /\ up' = [up EXCEPT ![c] = <<>>]
                    /\ down' = [down EXCEPT ![c] = <<>>]
                    /\ UNCHANGED <<outcome, cause, job, running, verdict>>

(* evaluate lets the request through without a verdict.                    *)
FailOpen(r, why) == /\ stage' = [stage EXCEPT ![r] = "done"]
                    /\ outcome' = [outcome EXCEPT ![r] = "failopen"]
                    /\ cause' = [cause EXCEPT ![r] = why]
                    /\ sock' = [sock EXCEPT ![r] = NoConn]

(* The feature vector cannot be encoded; the engine is not asked.          *)
EncodeFails(r) == /\ stage[r] = "new"
                  /\ FailOpen(r, "other")
                  /\ UNCHANGED <<conn, running, verdict>>

(* Mutant: a refused connection is waited for.                             *)
ConnectWaits(r) == /\ stage[r] = "new" /\ Pool = {} /\ running
                   /\ FailOpen(r, "other")
                   /\ UNCHANGED <<conn, running, verdict>>

(* The connection is refused, or not accepted within 50 ms.                *)
ConnectFails(r) == /\ stage[r] = "new" /\ Pool = {}
                   /\ FailOpen(r, "other")
                   /\ UNCHANGED <<conn, running, verdict>>

Send(r) == /\ stage[r] = "connected"
           /\ stage' = [stage EXCEPT ![r] = "waiting"]
           /\ up' = IF server[sock[r]] = "closed" THEN up
                    ELSE [up EXCEPT ![sock[r]] = Append(@, r)]
           /\ UNCHANGED <<sock, outcome, cause, client, server, expired, fresh, down,
                          job, running, verdict>>

(* Mutant: a full pool grows.                                              *)
SetKeepaliveUnbounded(c) == client' = [client EXCEPT ![c] = "pooled"]

(* setkeepalive: the connection joins the pool; a full pool closes one of  *)
(* its idle connections.  A close by the engine that nginx has already     *)
(* noticed keeps the connection out of the pool.                           *)
SetKeepalive(c) ==
  \/ /\ Cardinality(Pool) < PoolSize
     /\ client' = [client EXCEPT ![c] = "pooled"]
  \/ /\ Cardinality(Pool) >= PoolSize
     /\ \E d \in Pool : client' = [client EXCEPT ![c] = "pooled", ![d] = "closed"]
  \/ /\ server[c] = "closed"
     /\ client' = [client EXCEPT ![c] = "closed"]

(* Mutant: an error puts the connection back into the pool.                *)
KeepSock(c) == SetKeepalive(c)

CloseSock(c) == client' = [client EXCEPT ![c] = "closed"]

(* sock:close() and fail open.                                             *)
CloseAndFail(r, why) ==
  /\ CloseSock(sock[r])
  /\ FailOpen(r, why)
  /\ UNCHANGED <<server, expired, fresh, up, down, job, running, verdict>>

SendFails(r) == /\ stage[r] = "connected" /\ server[sock[r]] = "closed"
                /\ CloseAndFail(r, IF running THEN "closed" ELSE "other")

(* receive finds the connection closed and nothing to read.                *)
ReceiveClosed(r) == /\ stage[r] = "waiting"
                    /\ server[sock[r]] = "closed" /\ down[sock[r]] = <<>>
                    /\ CloseAndFail(r, IF running THEN "closed" ELSE "other")

(* 50 ms pass in send or receive.                                          *)
TimesOut(r) == /\ stage[r] \in {"connected", "waiting"}
               /\ CloseAndFail(r, "other")

(* receive returns a line and the connection goes back to the pool; then   *)
(* evaluate decodes the line and acts on its action, or cannot decode it.  *)
Receive(r) == LET c == sock[r] IN
              /\ stage[r] = "waiting" /\ down[c] # <<>>
              /\ stage' = [stage EXCEPT ![r] = "done"]
              /\ \/ /\ outcome' = [outcome EXCEPT ![r] = Status[Head(down[c])]]
                    /\ UNCHANGED cause
                 \/ /\ outcome' = [outcome EXCEPT ![r] = "failopen"]
                    /\ cause' = [cause EXCEPT ![r] = "other"]
              /\ down' = [down EXCEPT ![c] = Tail(@)]
              /\ sock' = [sock EXCEPT ![r] = NoConn]
              /\ SetKeepalive(c)
              /\ fresh' = [fresh EXCEPT ![c] = FALSE]
              /\ UNCHANGED <<server, expired, up, job, running, verdict>>

(* An idle connection leaves the pool: 60 s passed, or its close by the    *)
(* engine was noticed.                                                     *)
LeavePool(c) == /\ c \in Pool
                /\ client' = [client EXCEPT ![c] = "closed"]
                /\ UNCHANGED <<request, server, expired, fresh, up, down, job, running,
                               verdict>>

-----------------------------------------------------------------------------
(* The engine: handleConn                                                  *)

(* scanner.Scan returns a line and Evaluate starts.                        *)
ReadLine(c) == /\ server[c] = "reading" /\ ~expired[c] /\ up[c] # <<>>
               /\ server' = [server EXCEPT ![c] = "evaluating"]
               /\ job' = [job EXCEPT ![c] = Head(up[c])]
               /\ up' = [up EXCEPT ![c] = Tail(@)]
               /\ UNCHANGED <<request, client, expired, fresh, down, running, verdict>>

(* writeResponse: an error (deadline, peer gone) is ignored.               *)
WriteResponse(c, v) ==
  down' = IF expired[c] \/ client[c] = "closed" THEN down
          ELSE [down EXCEPT ![c] = Append(@, v)]

(* Evaluate returns v; a line that is not a feature vector is allowed.     *)
Answer(c, v) == /\ server[c] = "evaluating"
                /\ WriteResponse(c, v)
                /\ verdict' = [verdict EXCEPT ![job[c]] = v]
                /\ job' = [job EXCEPT ![c] = NoRequest]
                /\ server' = [server EXCEPT ![c] = "reading"]
                /\ UNCHANGED <<request, client, expired, fresh, up, running>>

(* Mutant: handleConn sets no deadline.                                    *)
NoDeadline(c) == FALSE

(* 200 ms after accept; nginx is through with its first request by then.   *)
Deadline(c) == /\ server[c] # "closed" /\ ~expired[c]
               /\ ~(fresh[c] /\ client[c] = "busy")
               /\ expired' = [expired EXCEPT ![c] = TRUE]
               /\ UNCHANGED <<request, client, server, fresh, up, down, job, running,
                              verdict>>

(* Scan returns false: the deadline has passed or nginx closed its end.    *)
(* The deferred conn.Close runs.                                           *)
EndOfInput(c) == /\ server[c] = "reading"
                 /\ expired[c] \/ (client[c] = "closed" /\ up[c] = <<>>)
                 /\ server' = [server EXCEPT ![c] = "closed"]
                 /\ up' = [up EXCEPT ![c] = <<>>]
                 /\ UNCHANGED <<request, client, expired, fresh, down, job, running,
                                verdict>>

EngineDies == /\ running /\ EngineMayDie
              /\ running' = FALSE
              /\ server' = [c \in Conns |-> "closed"]
              /\ up' = [c \in Conns |-> <<>>]
              /\ job' = [c \in Conns |-> NoRequest]
              /\ UNCHANGED <<request, client, expired, fresh, down, verdict>>

EngineStarts == /\ ~running
                /\ running' = TRUE
                /\ UNCHANGED <<request, conn, verdict>>

Finished == /\ \A r \in Requests : stage[r] = "done"
            /\ UNCHANGED vars

Next == \/ \E r \in Requests, c \in Conns : ConnectPooled(r, c) \/ ConnectNew(r, c)
        \/ \E r \in Requests : \/ EncodeFails(r) \/ ConnectFails(r)
                               \/ Send(r) \/ SendFails(r)
                               \/ Receive(r) \/ ReceiveClosed(r) \/ TimesOut(r)
        \/ \E c \in Conns : LeavePool(c) \/ ReadLine(c) \/ Deadline(c) \/ EndOfInput(c)
        \/ \E c \in Conns, v \in Verdicts : Answer(c, v)
        \/ EngineDies \/ EngineStarts \/ Finished

Spec == Init /\ [][Next]_vars

(* nginx's timers fire, the engine's deadline fires, and Evaluate returns  *)
(* (Engine!EvaluateReturns).  Whether the engine answers in time, or runs  *)
(* at all, is not assumed.                                                 *)
Fairness ==
  /\ \A r \in Requests :
       /\ WF_vars(ConnectFails(r) \/ \E c \in Conns : ConnectPooled(r, c) \/ ConnectNew(r, c))
       /\ WF_vars(Send(r) \/ SendFails(r) \/ Receive(r) \/ ReceiveClosed(r) \/ TimesOut(r))
  /\ \A c \in Conns :
       /\ WF_vars(Deadline(c))
       /\ WF_vars(ReadLine(c) \/ EndOfInput(c) \/ \E v \in Verdicts : Answer(c, v))

FairSpec == Spec /\ Fairness

-----------------------------------------------------------------------------
(* A request is treated as the engine decided for that very request: no    *)
(* verdict of another request, late or reused, ever reaches it.            *)
OwnVerdict ==
  \A r \in Requests : outcome[r] \in {"pass", "429", "403"} =>
     verdict[r] # "none" /\ outcome[r] = Status[verdict[r]]

(* A connection in the pool owes nobody an answer: nothing is unread in    *)
(* either direction and no evaluation is running on it.  The pool never    *)
(* exceeds its size.                                                       *)
PoolIsClean ==
  /\ Cardinality(Pool) <= PoolSize
  /\ \A c \in Pool : up[c] = <<>> /\ down[c] = <<>> /\ server[c] # "evaluating"

(* Every request is answered or let through, whatever the engine does.     *)
RequestFinishes == \A r \in Requests : <>(stage[r] = "done")

(* No connection goroutine lives on: each handleConn ends, also when nginx *)
(* keeps the connection in its pool.                                       *)
HandlerEnds == \A c \in Conns : server[c] # "closed" ~> server[c] = "closed"

(* "FAIL-OPEN: if the engine is unreachable or times out": while it runs,  *)
(* no request is let through unexamined because the engine had closed the  *)
(* connection under it.                                                    *)
FailsOpenOnlyOnTimeout == \A r \in Requests : cause[r] # "closed"
=============================================================================
