------------------------ MODULE DecisionSocketProofs ------------------------
(***************************************************************************)
(* Proofs about DecisionSocket, for every set of requests, every finite    *)
(* set of connections and every pool size.                                 *)
(***************************************************************************)
EXTENDS DecisionSocket, FiniteSetTheorems, TLAPS

(* A request has a connection of its own from connect to its end, and no   *)
(* outcome before.                                                         *)
InUse ==
  \A r \in Requests :
    /\ IF stage[r] \in {"connected", "waiting"}
         THEN sock[r] \in Conns /\ client[sock[r]] = "busy"
         ELSE sock[r] = NoConn
    /\ stage[r] # "done" => outcome[r] = "none"

(* Two requests never use the same connection at the same time.            *)
OneUser ==
  \A r, q \in Requests : sock[r] = sock[q] /\ sock[r] # NoConn => r = q

(* The engine has at most one line of a connection to deal with: one that  *)
(* it has not read, or one that Evaluate works on.                         *)
OneLine ==
  \A c \in Conns : /\ job[c] # NoRequest <=> server[c] = "evaluating"
                   /\ \/ up[c] = <<>>
                      \/ job[c] = NoRequest /\ \E r \in Requests : up[c] = <<r>>

(* The engine still has to decide on r, for connection c.                  *)
Owes(c, r) == job[c] = r \/ up[c] = <<r>>

(* A request has been sent once, and while its line is on the way it has   *)
(* no verdict's outcome: it waits at that connection or was given up.      *)
Pending ==
  \A c \in Conns, r \in Requests : Owes(c, r) =>
    /\ stage[r] \in {"waiting", "done"} /\ outcome[r] \in {"none", "failopen"}
    /\ stage[r] = "waiting" => sock[r] = c
    /\ \A d \in Conns : Owes(d, r) => d = c

(* Nothing on connection c is left for the engine to do.                   *)
Quiet(c) == up[c] = <<>> /\ job[c] = NoRequest

(* Until r sends, its connection is as the pool or accept left it; then    *)
(* the engine owes the answer, or the answer is there to be read, or it    *)
(* got lost.                                                               *)
OwnConnection ==
  \A r \in Requests :
    /\ stage[r] = "connected" => Quiet(sock[r]) /\ down[sock[r]] = <<>>
    /\ stage[r] = "waiting" =>
         \/ Owes(sock[r], r) /\ down[sock[r]] = <<>>
         \/ Quiet(sock[r]) /\ down[sock[r]] = <<>>
         \/ Quiet(sock[r]) /\ verdict[r] # "none" /\ down[sock[r]] = <<verdict[r]>>

(* A pooled connection owes nothing.                                       *)
PoolQuiet == \A c \in Pool : Quiet(c) /\ down[c] = <<>>

(* The pool is within setkeepalive's size.                                 *)
PoolBounded == Cardinality(Pool) <= PoolSize

(* The inductive invariant.                                                *)
Inv == /\ TypeOK /\ InUse /\ OneUser /\ OneLine /\ Pending /\ OwnConnection
       /\ PoolQuiet /\ PoolBounded /\ OwnVerdict

-----------------------------------------------------------------------------
(* Lines and the pool                                                      *)

(* A connection carries one line at a time: what sending and reading it    *)
(* does to the sequence of lines.                                          *)
LEMMA SingleLine ==
  ASSUME NEW S, NEW x \in S
  PROVE  /\ Append(<<>>, x) = <<x>> /\ Head(<<x>>) = x /\ Tail(<<x>>) = <<>>
         /\ <<x>> # <<>> /\ <<x>> \in Seq(S)
         /\ \A y \in S : <<x>> = <<y>> => x = y
  OBVIOUS

(* The pool is a finite set.                                               *)
LEMMA PoolFinite == IsFiniteSet(Pool) /\ Cardinality(Pool) \in Nat
  <1>1. Pool \subseteq Conns /\ IsFiniteSet(Conns)
    BY SocketAssumption DEF Pool
  <1>2. IsFiniteSet(Pool)
    BY <1>1, FS_Subset
  <1>3. QED
    BY <1>2, FS_CardinalityType

(* A step that adds nothing to the pool keeps its bound.                   *)
LEMMA PoolShrinks ==
  ASSUME PoolBounded, Pool' \subseteq Pool
  PROVE  PoolBounded'
  <1>1. IsFiniteSet(Pool) /\ Cardinality(Pool) \in Nat
    BY PoolFinite
  <1>2. IsFiniteSet(Pool') /\ Cardinality(Pool') <= Cardinality(Pool)
    BY <1>1, FS_Subset
  <1>3. Cardinality(Pool') \in Nat
    BY <1>2, FS_CardinalityType
  <1>4. QED
    BY <1>1, <1>2, <1>3, SocketAssumption DEF PoolBounded

(* What setkeepalive may do to the pool: the connection joins it, joins it *)
(* in the place of an idle one, or is closed.                              *)
LEMMA SetKeepaliveCases ==
  ASSUME TypeOK, NEW c \in Conns, client[c] = "busy", SetKeepalive(c)
  PROVE  /\ client' \in [Conns -> {"busy", "pooled", "closed"}]
         /\ \A d \in Conns : client[d] = "busy" /\ d # c => client'[d] = "busy"
         /\ \A d \in Conns : client'[d] = "busy" => client[d] = "busy" /\ d # c
         /\ \/ Cardinality(Pool) < PoolSize /\ Pool' = Pool \cup {c}
            \/ \E d \in Pool : Pool' = (Pool \ {d}) \cup {c}
            \/ Pool' = Pool
  <1>t. client \in [Conns -> {"busy", "pooled", "closed"}]
    BY DEF TypeOK
  <1>1. CASE Cardinality(Pool) < PoolSize /\ client' = [client EXCEPT ![c] = "pooled"]
    <2>1. Pool' = Pool \cup {c}
      BY <1>t, <1>1 DEF Pool
    <2>2. QED
      BY <1>t, <1>1, <2>1
  <1>2. CASE \E d \in Pool : client' = [client EXCEPT ![c] = "pooled", ![d] = "closed"]
    <2>1. PICK d \in Pool : client' = [client EXCEPT ![c] = "pooled", ![d] = "closed"]
      BY <1>2
    <2>2. d \in Conns /\ d # c /\ client[d] = "pooled"
      BY DEF Pool
    <2>3. Pool' = (Pool \ {d}) \cup {c}
      BY <1>t, <2>1, <2>2 DEF Pool
    <2>4. QED
      BY <1>t, <2>1, <2>2, <2>3
  <1>3. CASE client' = [client EXCEPT ![c] = "closed"]
    <2>1. Pool' = Pool
      BY <1>t, <1>3 DEF Pool
    <2>2. QED
      BY <1>t, <1>3, <2>1
  <1>4. QED
    BY <1>1, <1>2, <1>3 DEF SetKeepalive

(* setkeepalive keeps the bound of the pool.                               *)
LEMMA KeepaliveBounded ==
  ASSUME TypeOK, PoolBounded, NEW c \in Conns, client[c] = "busy", SetKeepalive(c)
  PROVE  PoolBounded'
  <1>1. IsFiniteSet(Pool) /\ Cardinality(Pool) \in Nat /\ PoolSize \in Nat
    BY PoolFinite, SocketAssumption
  <1>2. c \notin Pool
    BY DEF Pool
  <1>3. CASE Cardinality(Pool) < PoolSize /\ Pool' = Pool \cup {c}
    <2>1. Cardinality(Pool') = Cardinality(Pool) + 1
      BY <1>1, <1>2, <1>3, FS_AddElement
    <2>2. QED
      BY <1>1, <1>3, <2>1 DEF PoolBounded
  <1>4. CASE \E d \in Pool : Pool' = (Pool \ {d}) \cup {c}
    <2>1. PICK d \in Pool : Pool' = (Pool \ {d}) \cup {c}
      BY <1>4
    <2>2. /\ IsFiniteSet(Pool \ {d})
          /\ Cardinality(Pool \ {d}) = Cardinality(Pool) - 1
      BY <1>1, FS_RemoveElement
    <2>3. Cardinality(Pool') = Cardinality(Pool \ {d}) + 1
      BY <1>2, <2>1, <2>2, FS_AddElement
    <2>4. QED
      BY <1>1, <2>2, <2>3 DEF PoolBounded
  <1>5. CASE Pool' = Pool
    BY <1>5 DEF PoolBounded
  <1>6. QED
    BY <1>3, <1>4, <1>5, SetKeepaliveCases

-----------------------------------------------------------------------------
(* The invariant                                                           *)

(* The initial states satisfy the invariant.                               *)
LEMMA InitInv == Init => Inv
  <1> SUFFICES ASSUME Init PROVE Inv
    OBVIOUS
  <1>1. TypeOK
    BY DEF Init, TypeOK
  <1>2. Pool = {}
    BY DEF Init, Pool
  <1>3. PoolBounded
    BY <1>2, FS_EmptySet, SocketAssumption DEF PoolBounded
  <1>4. InUse /\ OneUser /\ OneLine /\ OwnConnection /\ PoolQuiet /\ OwnVerdict
    BY <1>2 DEF Init, InUse, OneUser, OneLine, OwnConnection, PoolQuiet, OwnVerdict
  <1>5. Pending
    BY SocketAssumption, SingleLine DEF Init, Pending, Owes
  <1>6. QED
    BY <1>1, <1>3, <1>4, <1>5 DEF Inv

(* connect on a pooled connection or a new one.                            *)
LEMMA ConnectInv ==
  ASSUME Inv, NEW r \in Requests, NEW c \in Conns, ConnectPooled(r, c) \/ ConnectNew(r, c)
  PROVE  Inv'
  <1>t. TypeOK
    BY DEF Inv
  <1>1. stage[r] = "new" /\ client[c] # "busy" /\ sock[r] = NoConn
    BY DEF ConnectPooled, ConnectNew, Pool, Inv, InUse
  <1>2. /\ stage' = [stage EXCEPT ![r] = "connected"] /\ sock' = [sock EXCEPT ![r] = c]
        /\ client' = [client EXCEPT ![c] = "busy"]
        /\ UNCHANGED <<outcome, cause, job, running, verdict>>
    BY DEF ConnectPooled, ConnectNew
  <1>3. TypeOK'
    <2>1. <<>> \in Seq(Requests) /\ <<>> \in Seq(Verdicts)
      OBVIOUS
    <2>2. CASE ConnectPooled(r, c)
      BY <1>t, <2>2 DEF ConnectPooled, TypeOK
    <2>3. CASE ConnectNew(r, c)
      BY <1>t, <2>1, <2>3 DEF ConnectNew, TypeOK
    <2>4. QED
      BY <2>2, <2>3
  <1>4. /\ up'[c] = <<>> /\ down'[c] = <<>> /\ job'[c] = NoRequest
        /\ \A d \in Conns \ {c} : up'[d] = up[d] /\ down'[d] = down[d] /\ server'[d] = server[d]
        /\ server'[c] # "evaluating"
    <2>1. CASE ConnectPooled(r, c)
      BY <1>t, <2>1 DEF ConnectPooled, Inv, PoolQuiet, Quiet, OneLine, TypeOK
    <2>2. CASE ConnectNew(r, c)
      BY <1>t, <2>2 DEF ConnectNew, Inv, OneLine, TypeOK
    <2>3. QED
      BY <2>1, <2>2
  <1>5. InUse' /\ OneUser'
    BY <1>t, <1>1, <1>2, SocketAssumption DEF Inv, InUse, OneUser, TypeOK
  <1>6. OneLine'
    BY <1>2, <1>4 DEF Inv, OneLine
  <1>7. Pending'
    <2>1. \A d \in Conns, q \in Requests : Owes(d, q)' => Owes(d, q) /\ q # r
      BY <1>1, <1>2, <1>4, SocketAssumption, SingleLine DEF Owes, Inv, Pending
    <2>2. \A q \in Requests : q # r => stage'[q] = stage[q] /\ sock'[q] = sock[q]
      BY <1>t, <1>2 DEF TypeOK
    <2>3. QED
      BY <1>2, <2>1, <2>2 DEF Inv, Pending
  <1>8. OwnConnection'
    <2>1. \A q \in Requests : q # r => /\ stage'[q] = stage[q] /\ sock'[q] = sock[q]
                                       /\ stage[q] \in {"connected", "waiting"} =>
                                            sock[q] \in Conns /\ sock[q] # c
      BY <1>t, <1>1, <1>2 DEF TypeOK, Inv, InUse
    <2>2. stage'[r] = "connected" /\ sock'[r] = c
      BY <1>t, <1>2 DEF TypeOK
    <2>3. ASSUME NEW q \in Requests, q # r, stage[q] \in {"connected", "waiting"}
          PROVE  /\ up'[sock[q]] = up[sock[q]] /\ down'[sock[q]] = down[sock[q]]
                 /\ job' = job /\ verdict' = verdict
      BY <1>2, <1>4, <2>1, <2>3
    <2>4. \A q \in Requests : stage'[q] = "connected" =>
            up'[sock'[q]] = <<>> /\ job'[sock'[q]] = NoRequest /\ down'[sock'[q]] = <<>>
      BY <1>4, <2>1, <2>2, <2>3 DEF Inv, OwnConnection, Quiet
    <2>5. \A q \in Requests : stage'[q] = "waiting" =>
            /\ q # r /\ stage[q] = "waiting" /\ sock'[q] = sock[q]
            /\ up'[sock[q]] = up[sock[q]] /\ down'[sock[q]] = down[sock[q]]
      BY <2>1, <2>2, <2>3
    <2>6. job' = job /\ verdict' = verdict
      BY <1>2
    <2>7. ASSUME NEW q \in Requests, stage'[q] = "waiting"
          PROVE  \/ Owes(sock[q], q)' /\ down'[sock'[q]] = <<>>
                 \/ Quiet(sock[q])' /\ down'[sock'[q]] = <<>>
                 \/ Quiet(sock[q])' /\ verdict'[q] # "none" /\ down'[sock'[q]] = <<verdict'[q]>>
      <3>1. \/ Owes(sock[q], q) /\ down[sock[q]] = <<>>
            \/ Quiet(sock[q]) /\ down[sock[q]] = <<>>
            \/ Quiet(sock[q]) /\ verdict[q] # "none" /\ down[sock[q]] = <<verdict[q]>>
        BY <2>5, <2>7 DEF Inv, OwnConnection
      <3>2. /\ Owes(sock[q], q)' <=> Owes(sock[q], q)
            /\ Quiet(sock[q])' <=> Quiet(sock[q])
            /\ down'[sock'[q]] = down[sock[q]] /\ verdict'[q] = verdict[q]
        BY <2>5, <2>6, <2>7 DEF Owes, Quiet
      <3>3. QED
        BY <3>1, <3>2
    <2>8. QED
      BY <2>4, <2>7 DEF OwnConnection, Quiet
  <1>9. Pool' \subseteq Pool
    BY <1>t, <1>2 DEF Pool, TypeOK
  <1>10. PoolQuiet' /\ PoolBounded'
    <2>1. c \notin Pool'
      BY <1>t, <1>2 DEF Pool, TypeOK
    <2>2. PoolQuiet'
      BY <1>2, <1>4, <1>9, <2>1 DEF Inv, PoolQuiet, Quiet, Pool
    <2>3. QED
      BY <1>9, <2>2, PoolShrinks DEF Inv
  <1>11. OwnVerdict'
    BY <1>2 DEF Inv, OwnVerdict
  <1>12. QED
    BY <1>3, <1>5, <1>6, <1>7, <1>8, <1>10, <1>11 DEF Inv

(* Every way to fail open: the request is through, and if it had a         *)
(* connection, that one is closed and the pool is untouched.               *)
LEMMA FailOpenInv ==
  ASSUME Inv, NEW r \in Requests, stage[r] # "done",
         NEW why \in {"closed", "other"}, FailOpen(r, why),
         client' \in [Conns -> {"busy", "pooled", "closed"}],
         \A d \in Conns : d # sock[r] => client'[d] = client[d],
         sock[r] \in Conns => client'[sock[r]] = "closed",
         UNCHANGED <<server, expired, fresh, up, down, job, running, verdict>>
  PROVE  Inv'
  <1>t. TypeOK
    BY DEF Inv
  <1>1. /\ stage' = [stage EXCEPT ![r] = "done"] /\ sock' = [sock EXCEPT ![r] = NoConn]
        /\ outcome' = [outcome EXCEPT ![r] = "failopen"]
        /\ cause' = [cause EXCEPT ![r] = why]
    BY DEF FailOpen
  <1>2. TypeOK'
    BY <1>t, <1>1 DEF TypeOK
  <1>3. \A q \in Requests : q # r => /\ stage'[q] = stage[q] /\ sock'[q] = sock[q]
                                     /\ outcome'[q] = outcome[q]
    BY <1>t, <1>1 DEF TypeOK
  <1>4. stage'[r] = "done" /\ sock'[r] = NoConn /\ outcome'[r] = "failopen"
    BY <1>t, <1>1 DEF TypeOK
  <1>5. InUse' /\ OneUser'
    BY <1>3, <1>4, SocketAssumption DEF Inv, InUse, OneUser
  <1>6. OneLine'
    BY DEF Inv, OneLine
  <1>7. Pending'
    <2>1. \A d \in Conns, q \in Requests : Owes(d, q)' <=> Owes(d, q)
      BY DEF Owes
    <2>2. QED
      BY <1>3, <1>4, <2>1 DEF Inv, Pending
  <1>8. OwnConnection'
    BY <1>3, <1>4 DEF Inv, OwnConnection, Owes, Quiet
  <1>9. Pool' \subseteq Pool
    BY DEF Pool
  <1>10. PoolQuiet' /\ PoolBounded'
    BY <1>9, PoolShrinks DEF Inv, PoolQuiet, Quiet
  <1>11. OwnVerdict'
    BY <1>3, <1>4 DEF Inv, OwnVerdict
  <1>12. QED
    BY <1>2, <1>5, <1>6, <1>7, <1>8, <1>10, <1>11 DEF Inv

(* sock:close() on an error.                                               *)
LEMMA CloseAndFailInv ==
  ASSUME Inv, NEW r \in Requests, stage[r] \in {"connected", "waiting"},
         NEW why \in {"closed", "other"}, CloseAndFail(r, why)
  PROVE  Inv'
  <1>1. sock[r] \in Conns /\ client \in [Conns -> {"busy", "pooled", "closed"}]
    BY DEF Inv, InUse, TypeOK
  <1>2. client' = [client EXCEPT ![sock[r]] = "closed"]
    BY DEF CloseAndFail, CloseSock
  <1>3. QED
    BY <1>1, <1>2, FailOpenInv DEF CloseAndFail

(* send: the line reaches an engine that has not closed its end.           *)
LEMMA SendInv ==
  ASSUME Inv, NEW r \in Requests, Send(r)
  PROVE  Inv'
  <1>t. TypeOK
    BY DEF Inv
  <1> DEFINE c == sock[r]
  <1>1. stage[r] = "connected" /\ c \in Conns /\ client[c] = "busy"
    BY DEF Send, Inv, InUse
  <1>2. Quiet(c) /\ down[c] = <<>>
    BY <1>1 DEF Inv, OwnConnection
  <1>3. /\ stage' = [stage EXCEPT ![r] = "waiting"]
        /\ UNCHANGED <<sock, outcome, cause, client, server, expired, fresh, down, job,
                       running, verdict>>
    BY DEF Send
  <1>4. /\ up'[c] = <<>> \/ up'[c] = <<r>>
        /\ \A d \in Conns \ {c} : up'[d] = up[d]
        /\ up' \in [Conns -> Seq(Requests)]
    <2>1. up[c] = <<>> /\ up \in [Conns -> Seq(Requests)] /\ <<r>> \in Seq(Requests)
      BY <1>t, <1>2, SingleLine DEF Quiet, TypeOK
    <2>2. CASE up' = up
      BY <2>1, <2>2
    <2>3. CASE up' = [up EXCEPT ![c] = Append(@, r)]
      <3>1. up' = [up EXCEPT ![c] = <<r>>]
        BY <2>1, <2>3, SingleLine
      <3>2. QED
        BY <1>1, <2>1, <3>1
    <2>4. QED
      BY <2>2, <2>3 DEF Send
  <1> HIDE DEF c
  <1>5. TypeOK'
    BY <1>t, <1>3, <1>4 DEF TypeOK
  <1>6. stage'[r] = "waiting" /\ \A q \in Requests : q # r => stage'[q] = stage[q]
    BY <1>t, <1>3 DEF TypeOK
  <1>7. InUse' /\ OneUser'
    BY <1>1, <1>3, <1>6 DEF Inv, InUse, OneUser
  <1>8. OneLine'
    BY <1>2, <1>3, <1>4 DEF Inv, OneLine, Quiet
  <1>9. Pending'
    <2>1. \A d \in Conns : ~Owes(d, r)
      BY <1>1 DEF Inv, Pending
    <2>2. \A d \in Conns : Owes(d, r)' => d = c
      BY <1>3, <1>4, <2>1 DEF Owes
    <2>3. \A d \in Conns, q \in Requests : q # r /\ Owes(d, q)' => Owes(d, q)
      BY <1>2, <1>3, <1>4, SingleLine DEF Owes, Quiet
    <2>4. outcome[r] = "none"
      BY <1>1 DEF Inv, InUse
    <2>5. QED
      BY <1>3, <1>6, <2>2, <2>3, <2>4 DEF Inv, Pending, c
  <1>10. OwnConnection'
    <2>1. Owes(c, r)' \/ Quiet(c)'
      BY <1>2, <1>3, <1>4 DEF Owes, Quiet, c
    <2>2. \A q \in Requests : q # r /\ stage[q] \in {"connected", "waiting"} =>
                                sock[q] \in Conns \ {c}
      BY <1>1, SocketAssumption DEF Inv, InUse, OneUser, c
    <2>3. sock' = sock /\ down' = down /\ job' = job /\ verdict' = verdict
      BY <1>3
    <2>4. ASSUME NEW q \in Requests, q # r, stage'[q] \in {"connected", "waiting"}
          PROVE  /\ stage[q] = stage'[q] /\ (Owes(sock[q], q)' <=> Owes(sock[q], q))
                 /\ Quiet(sock[q])' <=> Quiet(sock[q])
      BY <1>4, <1>6, <2>2, <2>3, <2>4 DEF Owes, Quiet
    <2>5. ASSUME NEW q \in Requests, q # r
          PROVE  /\ stage'[q] = "connected" => Quiet(sock[q])' /\ down'[sock'[q]] = <<>>
                 /\ stage'[q] = "waiting" =>
                      \/ Owes(sock[q], q)' /\ down'[sock'[q]] = <<>>
                      \/ Quiet(sock[q])' /\ down'[sock'[q]] = <<>>
                      \/ /\ Quiet(sock[q])' /\ verdict'[q] # "none"
                         /\ down'[sock'[q]] = <<verdict'[q]>>
      BY <2>3, <2>4, <2>5 DEF Inv, OwnConnection
    <2>6. /\ Owes(sock[r], r)' \/ Quiet(sock[r])'
          /\ stage'[r] = "waiting" /\ down'[sock'[r]] = <<>>
      BY <1>2, <1>6, <2>1, <2>3 DEF c
    <2>7. ASSUME NEW q \in Requests
          PROVE  /\ stage'[q] = "connected" => Quiet(sock[q])' /\ down'[sock'[q]] = <<>>
                 /\ stage'[q] = "waiting" =>
                      \/ Owes(sock[q], q)' /\ down'[sock'[q]] = <<>>
                      \/ Quiet(sock[q])' /\ down'[sock'[q]] = <<>>
                      \/ /\ Quiet(sock[q])' /\ verdict'[q] # "none"
                         /\ down'[sock'[q]] = <<verdict'[q]>>
      <3>1. CASE q = r
        BY <2>6, <3>1
      <3>2. CASE q # r
        BY <2>5, <3>2
      <3>3. QED
        BY <3>1, <3>2
    <2>8. QED
      BY <2>7 DEF OwnConnection
  <1>11. PoolQuiet' /\ PoolBounded'
    BY <1>1, <1>3, <1>4 DEF Inv, PoolQuiet, PoolBounded, Pool, Quiet
  <1>12. OwnVerdict'
    BY <1>3 DEF Inv, OwnVerdict
  <1>13. QED
    BY <1>5, <1>7, <1>8, <1>9, <1>10, <1>11, <1>12 DEF Inv

(* receive returns the answer to the request's own line.                   *)
LEMMA ReceiveInv ==
  ASSUME Inv, NEW r \in Requests, Receive(r)
  PROVE  Inv'
  <1>t. TypeOK
    BY DEF Inv
  <1>c. PICK c \in Conns : c = sock[r] /\ client[c] = "busy" /\ stage[r] = "waiting"
    BY DEF Receive, Inv, InUse
  <1>1. Quiet(c) /\ verdict[r] \in Verdicts /\ down[c] = <<verdict[r]>>
    <2>1. down[c] # <<>>
      BY <1>c DEF Receive
    <2>2. QED
      BY <1>t, <1>c, <2>1 DEF Inv, OwnConnection, TypeOK
  <1>2. /\ stage' = [stage EXCEPT ![r] = "done"] /\ sock' = [sock EXCEPT ![r] = NoConn]
        /\ down' = [down EXCEPT ![c] = <<>>]
        /\ fresh' = [fresh EXCEPT ![c] = FALSE]
        /\ UNCHANGED <<server, expired, up, job, running, verdict>>
    BY <1>c, <1>1, SingleLine DEF Receive
  <1>o. PICK o \in {Status[verdict[r]], "failopen"} : outcome' = [outcome EXCEPT ![r] = o]
    BY <1>c, <1>1, SingleLine DEF Receive
  <1>z. cause' \in [Requests -> {"none", "closed", "other"}]
    BY <1>t DEF Receive, TypeOK
  <1>3. SetKeepalive(c)
    BY <1>c DEF Receive
  <1>k. /\ client' \in [Conns -> {"busy", "pooled", "closed"}]
        /\ \A d \in Conns : client[d] = "busy" /\ d # c => client'[d] = "busy"
        /\ Pool' \subseteq Pool \cup {c}
    BY <1>t, <1>c, <1>3, SetKeepaliveCases
  <1>4. Status[verdict[r]] \in {"pass", "429", "403"} /\ o \in {"pass", "429", "403", "failopen"}
    BY <1>1 DEF Status, Verdicts
  <1>5. TypeOK'
    <2>1. <<>> \in Seq(Verdicts)
      OBVIOUS
    <2>2. QED
      BY <1>t, <1>2, <1>o, <1>z, <1>k, <1>4, <2>1 DEF TypeOK
  <1>6. /\ stage'[r] = "done" /\ sock'[r] = NoConn /\ outcome'[r] = o
        /\ \A q \in Requests : q # r => /\ stage'[q] = stage[q] /\ sock'[q] = sock[q]
                                        /\ outcome'[q] = outcome[q]
    BY <1>t, <1>2, <1>o DEF TypeOK
  <1>7. \A q \in Requests : q # r /\ stage[q] \in {"connected", "waiting"} =>
                              sock[q] \in Conns \ {c}
    BY <1>c, SocketAssumption DEF Inv, InUse, OneUser
  <1>8. InUse' /\ OneUser'
    BY <1>k, <1>6, <1>7, SocketAssumption DEF Inv, InUse, OneUser
  <1>9. OneLine'
    BY <1>2 DEF Inv, OneLine
  <1>10. Pending'
    <2>1. \A d \in Conns : ~Owes(d, r)
      BY <1>c, <1>1, SingleLine, SocketAssumption DEF Inv, Pending, Owes, Quiet
    <2>2. \A d \in Conns, q \in Requests : Owes(d, q)' <=> Owes(d, q)
      BY <1>2 DEF Owes
    <2>3. QED
      BY <1>6, <2>1, <2>2 DEF Inv, Pending
  <1>11. \A d \in Conns \ {c} : down'[d] = down[d]
    BY <1>t, <1>2 DEF TypeOK
  <1>12. OwnConnection'
    <2>1. \A q \in Requests : stage'[q] \in {"connected", "waiting"} =>
            /\ stage'[q] = stage[q] /\ sock'[q] = sock[q]
            /\ down'[sock[q]] = down[sock[q]]
      BY <1>6, <1>7, <1>11
    <2>2. ASSUME NEW q \in Requests, stage'[q] = "connected"
          PROVE  (Quiet(sock[q]) /\ down[sock[q]] = <<>>)'
      BY <1>2, <2>1, <2>2 DEF Inv, OwnConnection, Quiet
    <2>3. ASSUME NEW q \in Requests, stage'[q] = "waiting"
          PROVE  (\/ Owes(sock[q], q) /\ down[sock[q]] = <<>>
                  \/ Quiet(sock[q]) /\ down[sock[q]] = <<>>
                  \/ /\ Quiet(sock[q]) /\ verdict[q] # "none"
                     /\ down[sock[q]] = <<verdict[q]>>)'
      <3>1. \/ Owes(sock[q], q) /\ down[sock[q]] = <<>>
            \/ Quiet(sock[q]) /\ down[sock[q]] = <<>>
            \/ Quiet(sock[q]) /\ verdict[q] # "none" /\ down[sock[q]] = <<verdict[q]>>
        BY <2>1, <2>3 DEF Inv, OwnConnection
      <3>2. sock'[q] = sock[q] /\ down'[sock[q]] = down[sock[q]]
        BY <2>1, <2>3
      <3>3. QED
        BY <1>2, <3>1, <3>2 DEF Owes, Quiet
    <2>4. QED
      BY <2>2, <2>3 DEF OwnConnection
  <1>13. PoolQuiet'
    <2>1. down'[c] = <<>>
      BY <1>t, <1>2 DEF TypeOK
    <2>2. \A d \in Pool : d \in Conns \ {c}
      BY <1>c DEF Pool
    <2>3. QED
      BY <1>1, <1>2, <1>k, <1>11, <2>1, <2>2 DEF Inv, PoolQuiet, Quiet
  <1>14. PoolBounded'
    BY <1>t, <1>c, <1>3, KeepaliveBounded DEF Inv
  <1>15. OwnVerdict'
    BY <1>1, <1>2, <1>6 DEF Inv, OwnVerdict, Verdicts
  <1>16. QED
    BY <1>5, <1>8, <1>9, <1>10, <1>12, <1>13, <1>14, <1>15 DEF Inv

(* scanner.Scan hands the only line of the connection to Evaluate.         *)
LEMMA ReadLineInv ==
  ASSUME Inv, NEW c \in Conns, ReadLine(c)
  PROVE  Inv'
  <1>t. TypeOK
    BY DEF Inv
  <1>1. PICK r \in Requests : up[c] = <<r>> /\ job[c] = NoRequest
    BY DEF ReadLine, Inv, OneLine
  <1>2. /\ server' = [server EXCEPT ![c] = "evaluating"] /\ job' = [job EXCEPT ![c] = r]
        /\ up' = [up EXCEPT ![c] = <<>>]
        /\ UNCHANGED <<request, client, expired, fresh, down, running, verdict>>
    BY <1>1, SingleLine DEF ReadLine
  <1>3. TypeOK'
    <2>1. <<>> \in Seq(Requests)
      OBVIOUS
    <2>2. QED
      BY <1>t, <1>2, <2>1 DEF TypeOK, request
  <1>4. /\ server'[c] = "evaluating" /\ job'[c] = r /\ up'[c] = <<>>
        /\ \A d \in Conns \ {c} : server'[d] = server[d] /\ job'[d] = job[d] /\ up'[d] = up[d]
    BY <1>t, <1>2 DEF TypeOK
  <1>5. \A d \in Conns, q \in Requests : Owes(d, q)' <=> Owes(d, q)
    BY <1>1, <1>4, SingleLine, SocketAssumption DEF Owes
  <1>6. InUse' /\ OneUser' /\ OwnVerdict'
    BY <1>2 DEF Inv, InUse, OneUser, OwnVerdict, request
  <1>7. OneLine'
    BY <1>4, SocketAssumption DEF Inv, OneLine
  <1>8. Pending'
    BY <1>2, <1>5 DEF Inv, Pending, request
  <1>9. \A d \in Conns : Quiet(d) => d # c /\ Quiet(d)'
    BY <1>1, <1>4, SingleLine DEF Quiet
  <1>10. OwnConnection'
    <2>1. \A q \in Requests : stage[q] \in {"connected", "waiting"} => sock[q] \in Conns
      BY DEF Inv, InUse
    <2>2. QED
      BY <1>2, <1>5, <1>9, <2>1 DEF Inv, OwnConnection, request
  <1>11. PoolQuiet' /\ PoolBounded'
    BY <1>2, <1>9 DEF Inv, PoolQuiet, PoolBounded, Pool
  <1>12. QED
    BY <1>3, <1>6, <1>7, <1>8, <1>10, <1>11 DEF Inv

(* Evaluate returns and the response is written, or lost with its          *)
(* connection.                                                             *)
LEMMA AnswerInv ==
  ASSUME Inv, NEW c \in Conns, NEW v \in Verdicts, Answer(c, v)
  PROVE  Inv'
  <1>t. TypeOK
    BY DEF Inv
  <1>1. PICK r \in Requests : job[c] = r /\ up[c] = <<>> /\ Owes(c, r)
    BY <1>t DEF Answer, Inv, OneLine, TypeOK, Owes
  <1>2. /\ verdict' = [verdict EXCEPT ![r] = v] /\ job' = [job EXCEPT ![c] = NoRequest]
        /\ server' = [server EXCEPT ![c] = "reading"]
        /\ UNCHANGED <<request, client, expired, fresh, up, running>>
    BY <1>1 DEF Answer
  <1>3. down' = down \/ down' = [down EXCEPT ![c] = Append(@, v)]
    BY DEF Answer, WriteResponse
  <1>4. TypeOK'
    <2>1. \A s \in Seq(Verdicts) : Append(s, v) \in Seq(Verdicts)
      OBVIOUS
    <2>2. down' \in [Conns -> Seq(Verdicts)]
      <3>1. down \in [Conns -> Seq(Verdicts)]
        BY <1>t DEF TypeOK
      <3>2. Append(down[c], v) \in Seq(Verdicts)
        BY <2>1, <3>1
      <3>3. QED
        BY <1>3, <3>1, <3>2
    <2>3. QED
      BY <1>t, <1>2, <2>2 DEF TypeOK, request
  <1>5. /\ verdict'[r] = v /\ \A q \in Requests : q # r => verdict'[q] = verdict[q]
        /\ job'[c] = NoRequest /\ \A d \in Conns \ {c} : job'[d] = job[d]
        /\ \A d \in Conns \ {c} : down'[d] = down[d]
        /\ down[c] = <<>> => down'[c] \in {<<>>, <<v>>}
    <2>1. down \in [Conns -> Seq(Verdicts)]
      BY <1>t DEF TypeOK
    <2>2. down' = down \/ down' = [down EXCEPT ![c] = Append(down[c], v)]
      BY <1>3
    <2>3. Append(<<>>, v) = <<v>>
      BY SingleLine
    <2>4. /\ \A d \in Conns \ {c} : down'[d] = down[d]
          /\ down[c] = <<>> => down'[c] \in {<<>>, <<v>>}
      <3>1. CASE down' = down
        BY <3>1
      <3>2. CASE down' = [down EXCEPT ![c] = Append(down[c], v)]
        BY <2>1, <2>3, <3>2
      <3>3. QED
        BY <2>2, <3>1, <3>2
    <2>5. QED
      BY <1>t, <1>2, <2>4 DEF TypeOK
  <1>6. \A d \in Conns, q \in Requests : Owes(d, q)' <=> Owes(d, q) /\ d # c
    BY <1>1, <1>2, <1>5, SingleLine, SocketAssumption DEF Owes
  <1>7. InUse' /\ OneUser'
    BY <1>2 DEF Inv, InUse, OneUser, request
  <1>8. OneLine'
    BY <1>t, <1>1, <1>2 DEF Inv, OneLine, TypeOK
  <1>9. Pending'
    BY <1>2, <1>6 DEF Inv, Pending, request
  <1>10. ~Quiet(c) /\ Quiet(c)' /\ \A d \in Conns \ {c} : Quiet(d)' <=> Quiet(d)
    BY <1>1, <1>2, <1>5, SocketAssumption DEF Quiet
  <1>11. OwnConnection'
    <2>1. \A q \in Requests : stage[q] \in {"connected", "waiting"} => sock[q] \in Conns
      BY DEF Inv, InUse
    <2>2. ASSUME NEW q \in Requests, stage[q] = "connected"
          PROVE  Quiet(sock[q])' /\ down'[sock[q]] = <<>>
      BY <1>2, <1>5, <1>10, <2>1, <2>2 DEF Inv, OwnConnection, request
    <2>3. ASSUME NEW q \in Requests, stage[q] = "waiting", sock[q] = c
          PROVE  /\ Quiet(c)' /\ verdict'[q] # "none"
                 /\ down'[c] = <<>> \/ down'[c] = <<verdict'[q]>>
      <3>1. Owes(c, q) /\ down[c] = <<>>
        BY <1>10, <2>3 DEF Inv, OwnConnection
      <3>2. q = r
        BY <1>1, <3>1, SingleLine DEF Owes
      <3>3. v # "none"
        BY DEF Verdicts
      <3>4. QED
        BY <1>5, <1>10, <3>1, <3>2, <3>3
    <2>4. ASSUME NEW q \in Requests, stage[q] = "waiting", sock[q] # c
          PROVE  /\ q # r /\ Owes(sock[q], q)' <=> Owes(sock[q], q)
                 /\ Quiet(sock[q])' <=> Quiet(sock[q])
                 /\ down'[sock[q]] = down[sock[q]] /\ verdict'[q] = verdict[q]
      <3>1. q # r
        BY <1>1, <2>4 DEF Inv, Pending
      <3>2. QED
        BY <1>2, <1>5, <1>6, <1>10, <2>1, <2>4, <3>1 DEF request
    <2>5. stage' = stage /\ sock' = sock
      BY <1>2 DEF request
    <2>6. QED
      BY <2>2, <2>3, <2>4, <2>5 DEF Inv, OwnConnection
  <1>12. PoolQuiet' /\ PoolBounded'
    BY <1>2, <1>5, <1>10 DEF Inv, PoolQuiet, PoolBounded, Pool
  <1>13. OwnVerdict'
    BY <1>1, <1>2, <1>5 DEF Inv, OwnVerdict, Pending, request
  <1>14. QED
    BY <1>4, <1>7, <1>8, <1>9, <1>11, <1>12, <1>13 DEF Inv

(* The engine drops unread lines and evaluations: at the end of one        *)
(* connection, or of all of them when the process dies.                    *)
LEMMA EngineClosesInv ==
  ASSUME Inv, TypeOK', UNCHANGED <<request, client, down, verdict>>,
         \A d \in Conns : /\ job'[d] # NoRequest <=> server'[d] = "evaluating"
                          /\ \/ up'[d] = <<>> /\ job'[d] = NoRequest
                             \/ up'[d] = up[d] /\ job'[d] = job[d]
  PROVE  Inv'
  <1>1. \A d \in Conns, q \in Requests : Owes(d, q)' => Owes(d, q)
    BY SingleLine, SocketAssumption DEF Owes
  <1>2. \A d \in Conns, q \in Requests : Owes(d, q) => Owes(d, q)' \/ Quiet(d)'
    BY DEF Owes, Quiet
  <1>3. \A d \in Conns : Quiet(d) => Quiet(d)'
    BY DEF Quiet
  <1>4. InUse' /\ OneUser' /\ OwnVerdict'
    BY DEF Inv, InUse, OneUser, OwnVerdict, request
  <1>5. OneLine'
    BY DEF Inv, OneLine
  <1>6. Pending'
    BY <1>1 DEF Inv, Pending, request
  <1>7. OwnConnection'
    <2>1. \A q \in Requests : stage[q] \in {"connected", "waiting"} => sock[q] \in Conns
      BY DEF Inv, InUse
    <2>2. stage' = stage /\ sock' = sock /\ down' = down /\ verdict' = verdict
      BY DEF request
    <2>3. QED
      BY <1>2, <1>3, <2>1, <2>2 DEF Inv, OwnConnection
  <1>8. PoolQuiet' /\ PoolBounded'
    BY <1>3 DEF Inv, PoolQuiet, PoolBounded, Pool
  <1>9. QED
    BY <1>4, <1>5, <1>6, <1>7, <1>8 DEF Inv

(* Every step keeps the invariant.                                         *)
LEMMA NextInv == Inv /\ [Next]_vars => Inv'
  <1> SUFFICES ASSUME Inv, [Next]_vars PROVE Inv'
    OBVIOUS
  <1>t. TypeOK
    BY DEF Inv
  <1>e. <<>> \in Seq(Requests)
    OBVIOUS
  <1>1. ASSUME NEW r \in Requests, NEW c \in Conns, ConnectPooled(r, c) \/ ConnectNew(r, c)
        PROVE  Inv'
    BY <1>1, ConnectInv
  <1>2. ASSUME NEW r \in Requests, ConnectFails(r) PROVE Inv'
    <2>1. stage[r] = "new" /\ sock[r] = NoConn /\ client' = client
      BY <1>2 DEF ConnectFails, Inv, InUse, conn
    <2>2. QED
      BY <1>2, <1>t, <2>1, FailOpenInv, SocketAssumption DEF ConnectFails, TypeOK, conn
  <1>j. ASSUME NEW r \in Requests, EncodeFails(r) PROVE Inv'
    <2>1. stage[r] = "new" /\ sock[r] = NoConn /\ client' = client
      BY <1>j DEF EncodeFails, Inv, InUse, conn
    <2>2. QED
      BY <1>j, <1>t, <2>1, FailOpenInv, SocketAssumption DEF EncodeFails, TypeOK, conn
  <1>3. ASSUME NEW r \in Requests, Send(r) PROVE Inv'
    BY <1>3, SendInv
  <1>4. ASSUME NEW r \in Requests, SendFails(r) \/ ReceiveClosed(r) \/ TimesOut(r)
        PROVE  Inv'
    <2>1. /\ stage[r] \in {"connected", "waiting"}
          /\ \E why \in {"closed", "other"} : CloseAndFail(r, why)
      BY <1>4 DEF SendFails, ReceiveClosed, TimesOut
    <2>2. QED
      BY <2>1, CloseAndFailInv
  <1>5. ASSUME NEW r \in Requests, Receive(r) PROVE Inv'
    BY <1>5, ReceiveInv
  <1>6. ASSUME NEW c \in Conns, LeavePool(c) PROVE Inv'
    <2>1. /\ client' = [client EXCEPT ![c] = "closed"] /\ client[c] = "pooled"
          /\ UNCHANGED <<request, server, expired, fresh, up, down, job, running, verdict>>
      BY <1>6 DEF LeavePool, Pool
    <2>2. TypeOK'
      BY <1>t, <2>1 DEF TypeOK, request
    <2>3. InUse' /\ OneUser' /\ OneLine' /\ OwnVerdict'
      BY <1>t, <2>1 DEF Inv, InUse, OneUser, OneLine, OwnVerdict, request, TypeOK
    <2>4. Pending' /\ OwnConnection'
      BY <2>1 DEF Inv, Pending, OwnConnection, Owes, Quiet, request
    <2>5. Pool' \subseteq Pool
      BY <1>t, <2>1 DEF Pool, TypeOK
    <2>6. PoolQuiet' /\ PoolBounded'
      BY <2>1, <2>5, PoolShrinks DEF Inv, PoolQuiet, Quiet
    <2>7. QED
      BY <2>2, <2>3, <2>4, <2>6 DEF Inv
  <1>7. ASSUME NEW c \in Conns, ReadLine(c) PROVE Inv'
    BY <1>7, ReadLineInv
  <1>8. ASSUME NEW c \in Conns, Deadline(c) PROVE Inv'
    <2>1. UNCHANGED <<request, client, server, up, down, job, verdict>>
      BY <1>8 DEF Deadline
    <2>2. TypeOK'
      BY <1>8, <1>t DEF Deadline, TypeOK, request
    <2>3. QED
      BY <2>1, <2>2, EngineClosesInv DEF Inv, OneLine
  <1>9. ASSUME NEW c \in Conns, EndOfInput(c) PROVE Inv'
    <2>1. /\ server[c] = "reading" /\ server' = [server EXCEPT ![c] = "closed"]
          /\ up' = [up EXCEPT ![c] = <<>>]
          /\ UNCHANGED <<request, client, expired, fresh, down, job, running, verdict>>
      BY <1>9 DEF EndOfInput
    <2>2. job[c] = NoRequest
      BY <2>1 DEF Inv, OneLine
    <2>3. TypeOK'
      BY <1>t, <1>e, <2>1 DEF TypeOK, request
    <2>4. /\ server'[c] = "closed" /\ up'[c] = <<>>
          /\ \A d \in Conns : d # c => server'[d] = server[d] /\ up'[d] = up[d]
      BY <1>t, <2>1 DEF TypeOK
    <2>5. QED
      BY <2>1, <2>2, <2>3, <2>4, EngineClosesInv DEF Inv, OneLine
  <1>10. ASSUME NEW c \in Conns, NEW v \in Verdicts, Answer(c, v) PROVE Inv'
    BY <1>10, AnswerInv
  <1>11. CASE EngineDies
    <2>1. TypeOK'
      BY <1>11, <1>t, <1>e DEF EngineDies, TypeOK, request
    <2>2. QED
      BY <1>11, <2>1, EngineClosesInv DEF EngineDies
  <1>12. CASE EngineStarts \/ Finished \/ UNCHANGED vars
    <2>1. UNCHANGED <<request, client, server, up, down, job, verdict>>
      BY <1>12 DEF EngineStarts, Finished, vars, conn
    <2>2. TypeOK'
      <3>1. expired' = expired /\ fresh' = fresh /\ running' \in BOOLEAN
        BY <1>12, <1>t DEF EngineStarts, Finished, vars, conn, TypeOK
      <3>2. QED
        BY <1>t, <2>1, <3>1 DEF TypeOK, request
    <2>3. QED
      BY <2>1, <2>2, EngineClosesInv DEF Inv, OneLine
  <1>13. QED
    BY <1>1, <1>2, <1>j, <1>3, <1>4, <1>5, <1>6, <1>7, <1>8, <1>9, <1>10, <1>11, <1>12 DEF Next

(* The invariant holds throughout.                                         *)
LEMMA Invariant == Spec => []Inv
  BY InitInv, NextInv, PTL DEF Spec

(* The variables keep their types.                                         *)
THEOREM TypeCorrect == Spec => []TypeOK
  <1>1. Inv => TypeOK
    BY DEF Inv
  <1>2. QED
    BY <1>1, Invariant, PTL

(* query_engine never hands a request the verdict of another one, although *)
(* the lines carry no identifier and connections are reused.               *)
THEOREM VerdictIsOwn == Spec => []OwnVerdict
  <1>1. Inv => OwnVerdict
    BY DEF Inv
  <1>2. QED
    BY <1>1, Invariant, PTL

(* setkeepalive and sock:close() keep the pool within its size and free of *)
(* connections on which an answer is due.                                  *)
THEOREM PoolStaysClean == Spec => []PoolIsClean
  <1>1. Inv => PoolIsClean
    BY DEF Inv, PoolIsClean, PoolBounded, PoolQuiet, Quiet, OneLine, Pool
  <1>2. QED
    BY <1>1, Invariant, PTL
=============================================================================
