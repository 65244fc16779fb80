---------------------------- MODULE TokenBucket ----------------------------
(***************************************************************************)
(* The per-IP token bucket of the decision engine                          *)
(* (decision-engine/internal/redis/client.go): the Lua script that runs    *)
(* atomically inside Redis, and Client.Decrement, the call that sends it   *)
(* over the cluster client and turns the outcome into Go's pair            *)
(* (remaining, err).                                                       *)
(*                                                                         *)
(* A call is not atomic: the request travels, the script runs, the reply   *)
(* travels.  The cluster client times out after ReadTimeout and sends the  *)
(* script again, so one call may run it several times, and a request whose *)
(* caller stopped waiting may still run later (an orphan).  Keys disappear *)
(* when their TTL runs out or when Redis evicts them, and go back to an    *)
(* older state when a replica that lags behind takes over.                 *)
(***************************************************************************)
EXTENDS Integers, FiniteSets

CONSTANTS IPs,          \* client addresses
          Callers,      \* goroutines that call Decrement
          BucketSize,   \* ARGV[1], config.BucketSize
          BucketTTL,    \* ARGV[2], config.BucketTTL in seconds
          MaxAttempts,  \* sends per call before the cluster client gives up
          MaxOrphans,   \* bound: requests per IP still in flight for nobody
          NoIP          \* target of an idle caller

ASSUME BucketAssumption == /\ BucketSize \in Int
                           /\ BucketTTL \in Int
                           /\ MaxAttempts \in Nat \ {0}
                           /\ MaxOrphans \in Nat
                           /\ NoIP \notin IPs

VARIABLES tokens,    \* tokens[ip]: the integer stored under bucket:{ip}
          ttl,       \* ttl[ip]: seconds to live, as the TTL command reports it
          orphans,   \* orphans[ip]: abandoned requests that may still run
          status,    \* status[c]: where the call of c is
          target,    \* target[c]: the IP c calls Decrement for
          attempts,  \* attempts[c]: sends so far
          reply,     \* reply[c]: the outcome of the last run of the script
          granted,   \* history: tokens handed out since the key was created
          holds      \* history: c's reply is a token of the current bucket

store == <<tokens, ttl, granted>>
calls == <<status, target, attempts, reply>>
vars == <<tokens, ttl, orphans, status, target, attempts, reply, granted, holds>>

Missing  == -2     \* TTL of a key that does not exist
NoExpiry == -1     \* TTL of a key without expiry

NoReply  == [err |-> FALSE, remaining |-> 0]
DenyReply == [err |-> FALSE, remaining |-> -1]    \* Mutant: an error reads as an empty bucket
ErrReply == [err |-> TRUE, remaining |-> 0]       \* return 0, fmt.Errorf(...)

Waiting(c) == status[c] \in {"sent", "executed"}
Exists(ip) == ttl[ip] # Missing
IsToken(r) == ~r.err /\ r.remaining >= 0

TypeOK == /\ tokens \in [IPs -> Int]
          /\ ttl \in [IPs -> {Missing, NoExpiry} \cup 1 .. BucketTTL]
          /\ orphans \in [IPs -> 0 .. MaxOrphans]
          /\ status \in [Callers -> {"idle", "sent", "executed", "returned"}]
          /\ target \in [Callers -> IPs \cup {NoIP}]
          /\ attempts \in [Callers -> 0 .. MaxAttempts]
          /\ reply \in [Callers -> [err : BOOLEAN, remaining : Int]]
          /\ granted \in [IPs -> Nat]
          /\ holds \in [Callers -> BOOLEAN]
          /\ \A c \in Callers : status[c] # "idle" => target[c] \in IPs

Init == /\ tokens = [ip \in IPs |-> 0]
        /\ ttl = [ip \in IPs |-> Missing]
        /\ orphans = [ip \in IPs |-> 0]
        /\ status = [c \in Callers |-> "idle"]
        /\ target = [c \in Callers |-> NoIP]
        /\ attempts = [c \in Callers |-> 0]
        /\ reply = [c \in Callers |-> NoReply]
        /\ granted = [ip \in IPs |-> 0]
        /\ holds = [c \in Callers |-> FALSE]

-----------------------------------------------------------------------------
(* The script.  t and l are the value and the TTL of the key it is given;  *)
(* the result is the key's new value and TTL and the script's reply.       *)

ScriptResult(t, l, r) == [tokens |-> t, ttl |-> l, err |-> FALSE, remaining |-> r]

(* Mutant: the key is created without an expiry.                           *)
CreateBucketNoEX == ScriptResult(BucketSize - 1, NoExpiry, BucketSize - 1)

(* SET key capacity-1 EX ttl: Redis refuses an expire time that is not     *)
(* positive, which aborts the script before anything is written.           *)
CreateBucket ==
  IF BucketTTL > 0
    THEN ScriptResult(BucketSize - 1, BucketTTL, BucketSize - 1)
    ELSE [tokens |-> 0, ttl |-> Missing, err |-> TRUE, remaining |-> 0]

(* remaining <= 0: EXPIRE, return -1.                                      *)
RefuseToken(t) == ScriptResult(t, BucketTTL, -1)

(* Mutant: returns the tokens left before the decrement.                   *)
TakeTokenOldValue(t) == ScriptResult(t - 1, BucketTTL, t)

(* DECRBY key 1, EXPIRE, return remaining - 1.                             *)
TakeToken(t) == ScriptResult(t - 1, BucketTTL, t - 1)

(* Mutant: the bucket counts as empty only below zero.                     *)
ScriptOffByOne(t, l) == CASE l = Missing           -> CreateBucket
                          [] l # Missing /\ t < 0  -> RefuseToken(t)
                          [] l # Missing /\ t >= 0 -> TakeToken(t)

(* Mutant: taking a token does not restart the key's TTL.                  *)
ScriptFixedTTL(t, l) == CASE l = Missing           -> CreateBucket
                          [] l # Missing /\ t <= 0 -> RefuseToken(t)
                          [] l # Missing /\ t > 0  -> ScriptResult(t - 1, l, t - 1)

Script(t, l) == CASE l = Missing            -> CreateBucket
                  [] l # Missing /\ t <= 0  -> RefuseToken(t)
                  [] l # Missing /\ t > 0   -> TakeToken(t)

RunScript(ip) == Script(tokens[ip], ttl[ip])

(* One run of the script against the key of ip.                            *)
Apply(ip) ==
  LET r == RunScript(ip) IN
  /\ tokens' = [tokens EXCEPT ![ip] = r.tokens]
  /\ ttl' = [ttl EXCEPT ![ip] = r.ttl]
  /\ granted' = [granted EXCEPT ![ip] = IF IsToken(r) THEN @ + 1 ELSE @]

-----------------------------------------------------------------------------
(* Client.Decrement                                                        *)

Decrement(c, ip) == /\ status[c] = "idle"
                    /\ status' = [status EXCEPT ![c] = "sent"]
                    /\ target' = [target EXCEPT ![c] = ip]
                    /\ attempts' = [attempts EXCEPT ![c] = 1]
                    /\ UNCHANGED <<store, orphans, reply, holds>>

(* The request reaches the node that owns the slot and the script runs.    *)
Execute(c) ==
  LET r == RunScript(target[c]) IN
  /\ status[c] = "sent"
  /\ Apply(target[c])
  /\ status' = [status EXCEPT ![c] = "executed"]
  /\ reply' = [reply EXCEPT ![c] = [err |-> r.err, remaining |-> r.remaining]]
  /\ holds' = [holds EXCEPT ![c] = IsToken(r)]
  /\ UNCHANGED <<orphans, target, attempts>>

(* A request nobody waits for any more runs after all.                     *)
ExecuteOrphan(ip) == /\ orphans[ip] > 0
                     /\ Apply(ip)
                     /\ orphans' = [orphans EXCEPT ![ip] = @ - 1]
                     /\ UNCHANGED <<calls, holds>>

(* The reply arrives in time: Decrement returns (result, err).             *)
Receive(c) == /\ status[c] = "executed"
              /\ status' = [status EXCEPT ![c] = "returned"]
              /\ UNCHANGED <<store, orphans, target, attempts, reply, holds>>

(* The caller stops waiting for the attempt under way.  A request that has *)
(* not run is lost, or is still on its way and becomes an orphan.          *)
Abandon(c) ==
  \/ UNCHANGED orphans
  \/ /\ status[c] = "sent"
     /\ orphans[target[c]] < MaxOrphans
     /\ orphans' = [orphans EXCEPT ![target[c]] = @ + 1]

(* Mutant: attempts are not limited.                                       *)
AlwaysRetry(c) == TRUE

(* MaxRedirects bounds the sends of one call.                              *)
MayRetry(c) == attempts[c] < MaxAttempts

(* Mutant: a send is not counted.                                          *)
SameAttempt(n) == n

NextAttempt(n) == n + 1

(* Time-out or network error with attempts left: the script is sent again. *)
Retry(c) == /\ Waiting(c)
            /\ MayRetry(c)
            /\ Abandon(c)
            /\ status' = [status EXCEPT ![c] = "sent"]
            /\ attempts' = [attempts EXCEPT ![c] = NextAttempt(@)]
            /\ reply' = [reply EXCEPT ![c] = NoReply]
            /\ holds' = [holds EXCEPT ![c] = FALSE]
            /\ UNCHANGED <<store, target>>

(* The last error is final, or it is not one to retry: return (0, err).    *)
GiveUp(c) == /\ Waiting(c)
             /\ Abandon(c)
             /\ status' = [status EXCEPT ![c] = "returned"]
             /\ reply' = [reply EXCEPT ![c] = ErrReply]
             /\ holds' = [holds EXCEPT ![c] = FALSE]
             /\ UNCHANGED <<store, target, attempts>>

(* The caller has used the result and is ready for its next request.       *)
Finish(c) == /\ status[c] = "returned"
             /\ status' = [status EXCEPT ![c] = "idle"]
             /\ target' = [target EXCEPT ![c] = NoIP]
             /\ attempts' = [attempts EXCEPT ![c] = 0]
             /\ reply' = [reply EXCEPT ![c] = NoReply]
             /\ holds' = [holds EXCEPT ![c] = FALSE]
             /\ UNCHANGED <<store, orphans>>

(* The engine process dies with every call it had under way; requests that *)
(* were sent may still run.                                                *)
Crash ==
  /\ orphans' \in [IPs -> 0 .. MaxOrphans]
  /\ \A ip \in IPs : LET sent == {c \in Callers : status[c] = "sent" /\ target[c] = ip}
                     IN  orphans'[ip] \in orphans[ip] .. (orphans[ip] + Cardinality(sent))
  /\ status' = [c \in Callers |-> "idle"]
  /\ target' = [c \in Callers |-> NoIP]
  /\ attempts' = [c \in Callers |-> 0]
  /\ reply' = [c \in Callers |-> NoReply]
  /\ holds' = [c \in Callers |-> FALSE]
  /\ UNCHANGED store

-----------------------------------------------------------------------------
(* Redis: keys expire and are evicted                                      *)

Forget(gone) ==
  /\ tokens' = [ip \in IPs |-> IF ip \in gone THEN 0 ELSE tokens[ip]]
  /\ granted' = [ip \in IPs |-> IF ip \in gone THEN 0 ELSE granted[ip]]
  /\ holds' = [c \in Callers |-> holds[c] /\ target[c] \notin gone]

(* One second passes.                                                      *)
Tick == /\ ttl' = [ip \in IPs |-> IF ttl[ip] = 1 THEN Missing
                                  ELSE IF ttl[ip] > 1 THEN ttl[ip] - 1
                                  ELSE ttl[ip]]
        /\ Forget({ip \in IPs : ttl[ip] = 1})
        /\ UNCHANGED <<orphans, calls>>

(* maxmemory is reached, or the node restarts without persistence.         *)
Evict(ip) == /\ Exists(ip)
             /\ ttl' = [ttl EXCEPT ![ip] = Missing]
             /\ Forget({ip})
             /\ UNCHANGED <<orphans, calls>>

(* A failover promotes a replica that has not seen the last runs of the    *)
(* script: n tokens that were handed out are back in the bucket, and the   *)
(* key has the TTL an earlier run gave it.                                 *)
Failover(ip) ==
  /\ Exists(ip)
  /\ \E n \in 0 .. granted[ip], l \in 1 .. ttl[ip] :
       /\ n = 0 \/ n < granted[ip]
       /\ tokens' = [tokens EXCEPT ![ip] = @ + n]
       /\ granted' = [granted EXCEPT ![ip] = @ - n]
       /\ ttl' = [ttl EXCEPT ![ip] = l]
       /\ holds' = [c \in Callers |-> /\ holds[c]
                                      /\ target[c] = ip => reply[c].remaining >= tokens[ip] + n]
  /\ UNCHANGED <<orphans, calls>>

Next == \/ \E c \in Callers, ip \in IPs : Decrement(c, ip)
        \/ \E c \in Callers : \/ Execute(c) \/ Receive(c) \/ Retry(c)
                              \/ GiveUp(c) \/ Finish(c)
        \/ \E ip \in IPs : ExecuteOrphan(ip) \/ Evict(ip) \/ Failover(ip)
        \/ Crash
        \/ Tick

Spec == Init /\ [][Next]_vars

(* Time passes, and a call under way makes progress: each of its steps is  *)
(* bounded by ReadTimeout.                                                 *)
Fairness == /\ WF_vars(Tick)
            /\ \A c \in Callers :
                 WF_vars(Execute(c) \/ Receive(c) \/ Retry(c) \/ GiveUp(c))

FairSpec == Spec /\ Fairness

-----------------------------------------------------------------------------
(* A bucket is never in debt and never over-full: while the key exists the *)
(* tokens handed out and the tokens left add up to BucketSize, however     *)
(* often calls are retried, abandoned or run late.  (A bucket configured   *)
(* without tokens grants nothing.)                                         *)
BucketConserved ==
  \A ip \in IPs :
    IF Exists(ip) /\ BucketSize > 0
      THEN tokens[ip] >= 0 /\ granted[ip] + tokens[ip] = BucketSize
      ELSE granted[ip] = 0

(* No token is handed out twice: two callers that hold tokens of the same  *)
(* bucket hold different ones, and no held token is still in the bucket.   *)
TokensHandedOutOnce ==
  \A c \in Callers : holds[c] =>
    /\ reply[c].remaining >= tokens[target[c]]
    /\ \A d \in Callers \ {c} :
         holds[d] /\ target[d] = target[c] => reply[d].remaining # reply[c].remaining

(* A bucket nobody asks for runs out and is full again at the next touch:  *)
(* every path of the script leaves an expiry on the key.                   *)
Quiet(ip) == orphans[ip] = 0 /\ \A c \in Callers : target[c] # ip \/ status[c] = "returned"
IdleBucketExpires == \A ip \in IPs : <>[]Quiet(ip) => <>[]~Exists(ip)

(* Decrement always returns, whatever Redis does: attempts are bounded.    *)
DecrementReturns == \A c \in Callers : Waiting(c) ~> ~Waiting(c)

(* The bucket implements the abstract quota.                               *)
AnswerOf(st, r) == CASE st = "idle" -> "none"
                     [] st = "sent" -> "pending"
                     [] st \in {"executed", "returned"} ->
                          IF r.err THEN "failed"
                          ELSE IF r.remaining >= 0 THEN "granted" ELSE "denied"

LimitBar  == IF BucketSize > 0 THEN BucketSize ELSE 0
answerBar == [c \in Callers |-> AnswerOf(status[c], reply[c])]

Abstract == INSTANCE Quota WITH Limit <- LimitBar, used <- granted,
                                asks <- target, answer <- answerBar

ImplementsQuota == Abstract!Spec
=============================================================================
