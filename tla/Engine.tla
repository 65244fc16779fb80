------------------------------- MODULE Engine -------------------------------
(***************************************************************************)
(* The decision engine (decision-engine/internal/engine/engine.go):        *)
(* Evaluate orchestrates the token bucket, the ML sidecar, the kernel      *)
(* block map and Kafka for each feature vector, many requests at a time.   *)
(*                                                                         *)
(* Evaluate is split where it waits for somebody else: the Decrement call  *)
(* (module TokenBucket, one caller per handler), the Score call, the map   *)
(* update and the start of the Kafka goroutines.  Handlers, the operator's *)
(* POST /block and DELETE /block/:ip, the publishing goroutines, Redis,    *)
(* the clock and process failures interleave freely.  (Failovers of Redis  *)
(* are left to WindowedBucket; here a key is kept or lost.)                *)
(*                                                                         *)
(* Scores are percentages: 85 stands for 0.85.                             *)
(***************************************************************************)
EXTENDS Integers, FiniteSets

CONSTANTS IPs, Handlers, BucketSize, BucketTTL, MaxAttempts, MaxOrphans, NoIP,
          Scores,             \* anomaly scores the sidecar may answer
          BlockThreshold,     \* config.ScoreBlockThreshold
          ThrottleThreshold,  \* config.ScoreThrottleThreshold
          MaxPending          \* bound: publishing goroutines per topic and IP

ASSUME EngineAssumption == /\ IsFiniteSet(Handlers) /\ NoIP \notin IPs
                           /\ BucketSize \in Int /\ BucketTTL \in Int
                           /\ MaxAttempts \in Nat \ {0} /\ MaxOrphans \in Nat
                           /\ Scores \subseteq 0 .. 100
                           /\ BlockThreshold \in Nat
                           /\ ThrottleThreshold \in Nat
                           /\ MaxPending \in Nat \ {0}

VARIABLES tokens, ttl, orphans, status, target, attempts, reply, granted, holds

Bucket == INSTANCE TokenBucket WITH Callers <- Handlers

VARIABLES stage,      \* stage[h]: where Evaluate of handler h is
          decision,   \* decision[h]: the Decision being enforced
          exit,       \* why the process is not running, or "no"
          dialed,     \* grpc.Dial succeeded: the ML client is not nil
          mapOpen,    \* the pinned map was opened: the blocklist is no no-op
          blocked,    \* the kernel block map
          pending,    \* pending[t][ip]: goroutines about to write ip to topic t
          announced,  \* IPs written to the blocked-ips topic
          evidence,   \* history: IPs refused, scored high or named by an operator
          pardoned,   \* history: IPs unblocked, with nothing held against them since
          current,    \* history: h's reply is about the bucket of now
          passes      \* history: requests let through on the bucket of now

redis == <<tokens, ttl, orphans, status, target, attempts, reply, granted, holds>>
process == <<exit, dialed, mapOpen>>
kafka == <<pending, announced>>
history == <<evidence, pardoned, current, passes>>
vars == <<redis, stage, decision, process, blocked, kafka, history>>

Decisions == "rate-limit-decisions"
BlockedIPs == "blocked-ips"

NoDecision == [action |-> "none", retryAfter |-> 0]
Actions == {"none", "allow", "throttle", "block"}

Up == exit = "no"

TypeOK == /\ Bucket!TypeOK
          /\ stage \in [Handlers -> {"idle", "redis", "ml", "enforce", "publish"}]
          /\ decision \in [Handlers -> [action : Actions, retryAfter : 0 .. 120]]
          /\ exit \in {"no", "killed", "panic"}
          /\ dialed \in BOOLEAN /\ mapOpen \in BOOLEAN
          /\ blocked \subseteq IPs
          /\ pending \in [{Decisions, BlockedIPs} -> [IPs -> 0 .. MaxPending]]
          /\ announced \subseteq IPs
          /\ evidence \subseteq IPs /\ pardoned \subseteq IPs
          /\ current \in [Handlers -> BOOLEAN]
          /\ passes \in [IPs -> Nat]
          /\ \A h \in Handlers : stage[h] = "idle" <=> status[h] = "idle"

Init == /\ Bucket!Init
        /\ stage = [h \in Handlers |-> "idle"]
        /\ decision = [h \in Handlers |-> NoDecision]
        /\ exit = "no"
        /\ dialed \in BOOLEAN
        /\ mapOpen \in BOOLEAN
        /\ blocked = {}
        /\ pending = [t \in {Decisions, BlockedIPs} |-> [ip \in IPs |-> 0]]
        /\ announced = {}
        /\ evidence = {}
        /\ pardoned = {}
        /\ current = [h \in Handlers |-> FALSE]
        /\ passes = [ip \in IPs |-> 0]

-----------------------------------------------------------------------------
(* The decision logic of Evaluate                                          *)

(* Mutant: bucketExhausted is not reset on a Redis error.                  *)
ExhaustedOnError(r) == r.err \/ r.remaining < 0

(* Mutant: the script's -1 counts as a token.                              *)
ExhaustedOffByOne(r) == ~r.err /\ r.remaining < -1

(* A Redis error leaves bucketExhausted false: fail-open.                  *)
Exhausted(r) == ~r.err /\ r.remaining < 0

(* Mutant: the percentage is not scaled to a fraction.                     *)
RetryAfterUnscaled(s) == s * 120

(* int(score * 2 * 60), at least 1.                                        *)
RetryAfter(s) == IF (s * 120) \div 100 < 1 THEN 1 ELSE (s * 120) \div 100

(* Mutant: the thresholds themselves block and throttle.                   *)
DecideAtLeast(s, exhausted) ==
  CASE s >= BlockThreshold \/ exhausted -> [action |-> "block", retryAfter |-> 0]
    [] ~(s >= BlockThreshold \/ exhausted) /\ s >= ThrottleThreshold ->
         [action |-> "throttle", retryAfter |-> RetryAfter(s)]
    [] OTHER -> [action |-> "allow", retryAfter |-> 0]

(* The switch of Evaluate, on a score and bucketExhausted.                 *)
Decide(s, exhausted) ==
  CASE s > BlockThreshold \/ exhausted ->
         [action |-> "block", retryAfter |-> 0]
    [] ~(s > BlockThreshold \/ exhausted) /\ s > ThrottleThreshold ->
         [action |-> "throttle", retryAfter |-> RetryAfter(s)]
    [] OTHER ->
         [action |-> "allow", retryAfter |-> 0]

(* Mutant: throttled clients go to the block map as well.                  *)
EnforcedUnlessAllowed(d) == d.action # "allow"

(* The branch of the switch that calls blocklist.Add and PublishBlocked.   *)
Enforced(d) == d.action = "block"

(* testEngine.Evaluate, the double the unit tests run instead of Evaluate, *)
(* on its stub values.                                                     *)
DoubleEvaluate(remaining, s) ==
  LET block == s > BlockThreshold \/ remaining < 0
      throttle == ~block /\ s > ThrottleThreshold
      seconds == (s * 2 * 60) \div 100
  IN  [action |-> IF block THEN "block" ELSE IF throttle THEN "throttle" ELSE "allow",
       retryAfter |-> IF ~throttle THEN 0 ELSE IF seconds < 1 THEN 1 ELSE seconds]

-----------------------------------------------------------------------------
(* Evaluate                                                                *)

Busy(ip) == Cardinality({h \in Handlers : target[h] = ip})

Evaluate(h, ip) ==
  /\ Up /\ stage[h] = "idle"
  /\ \A t \in DOMAIN pending : pending[t][ip] + Busy(ip) < MaxPending
  /\ Bucket!Decrement(h, ip)
  /\ stage' = [stage EXCEPT ![h] = "redis"]
  /\ UNCHANGED <<decision, process, blocked, kafka, history>>

(* History: when something is held against an IP, it is evidence and ends  *)
(* a pardon.                                                               *)
Accuse(ip, held) == /\ evidence' = IF held THEN evidence \cup {ip} ELSE evidence
                    /\ pardoned' = IF held THEN pardoned \ {ip} ELSE pardoned

(* The script runs for h; a refusal is evidence against the IP.            *)
RunScript(h) ==
  /\ Bucket!Execute(h)
  /\ Accuse(target[h], Exhausted(reply'[h]))
  /\ current' = [current EXCEPT ![h] = ~reply'[h].err]
  /\ UNCHANGED <<stage, decision, process, blocked, kafka, passes>>

(* Decrement waits, retries or gives up; other requests' scripts run late. *)
RedisCall ==
  /\ \/ \E h \in Handlers : /\ Bucket!Retry(h) \/ Bucket!GiveUp(h)
                            /\ current' = [current EXCEPT ![h] = FALSE]
     \/ /\ \/ \E h \in Handlers : Bucket!Receive(h)
           \/ \E ip \in IPs : Bucket!ExecuteOrphan(ip)
        /\ UNCHANGED current
  /\ UNCHANGED <<stage, decision, process, blocked, kafka, evidence, pardoned, passes>>

(* Decrement has returned; Evaluate calls ml.Score.                        *)
CallScore(h) == /\ stage[h] = "redis" /\ status[h] = "returned"
                /\ stage' = [stage EXCEPT ![h] = "ml"]
                /\ UNCHANGED <<redis, decision, process, blocked, kafka, history>>

(* Score returns s; the switch picks the decision.                         *)
Conclude(h, s) ==
  LET d == Decide(s, Exhausted(reply[h])) IN
  /\ stage[h] = "ml" /\ dialed
  /\ decision' = [decision EXCEPT ![h] = d]
  /\ stage' = [stage EXCEPT ![h] = IF Enforced(d) THEN "enforce" ELSE "publish"]
  /\ passes' = IF d.action # "block" /\ current[h]
                 THEN [passes EXCEPT ![target[h]] = @ + 1] ELSE passes
  /\ UNCHANGED <<redis, process, blocked, kafka, current>>

(* The sidecar answers within the deadline.                                *)
ScoreReturns(h, s) ==
  /\ Conclude(h, s)
  /\ Accuse(target[h], s > BlockThreshold)

(* Mutant: the call has no deadline, so it waits for the answer.           *)
ScoreWaits(h) == FALSE

(* Deadline, refused connection, sidecar error: the score is 0.0.          *)
ScoreFails(h) == Conclude(h, 0) /\ UNCHANGED <<evidence, pardoned>>

Reset == /\ stage' = [h \in Handlers |-> "idle"]
         /\ decision' = [h \in Handlers |-> NoDecision]
         /\ pending' = [t \in DOMAIN pending |-> [ip \in IPs |-> 0]]
         /\ current' = [h \in Handlers |-> FALSE]

(* The ML client is nil: Score dereferences it and the panic of the        *)
(* connection's goroutine ends the process.                                *)
ScorePanics(h) == /\ stage[h] = "ml" /\ ~dialed
                  /\ exit' = "panic"
                  /\ Bucket!Crash
                  /\ Reset
                  /\ UNCHANGED <<dialed, mapOpen, blocked, announced, evidence, pardoned, passes>>

(* Blocklist.Add: the entry is put, or an error is returned (no IPv4       *)
(* address, Put failed); nothing happens when the map was not opened.      *)
Add(ip) == \/ mapOpen /\ blocked' = blocked \cup {ip}
           \/ UNCHANGED blocked

(* Block: Add, whose error is only logged, then the goroutine of           *)
(* PublishBlocked.                                                         *)
Enforce(h) ==
  LET ip == target[h] IN
  /\ stage[h] = "enforce"
  /\ Add(ip)
  /\ pending' = [pending EXCEPT ![BlockedIPs][ip] = @ + 1]
  /\ stage' = [stage EXCEPT ![h] = "publish"]
  /\ UNCHANGED <<redis, decision, process, announced, history>>

(* The decision event gets its goroutine and Evaluate returns.             *)
Return(h) ==
  /\ stage[h] = "publish"
  /\ pending' = [pending EXCEPT ![Decisions][target[h]] = @ + 1]
  /\ Bucket!Finish(h)
  /\ stage' = [stage EXCEPT ![h] = "idle"]
  /\ decision' = [decision EXCEPT ![h] = NoDecision]
  /\ current' = [current EXCEPT ![h] = FALSE]
  /\ UNCHANGED <<process, blocked, announced, evidence, pardoned, passes>>

(* A goroutine's WriteMessages ends: the broker has taken the event, or    *)
(* the error (no such topic, no broker, WriteTimeout) is logged and the    *)
(* event is gone.                                                          *)
Publish(t, ip) ==
  /\ pending[t][ip] > 0
  /\ pending' = [pending EXCEPT ![t][ip] = @ - 1]
  /\ \/ t = BlockedIPs /\ announced' = announced \cup {ip}
     \/ UNCHANGED announced
  /\ UNCHANGED <<redis, stage, decision, process, blocked, history>>

-----------------------------------------------------------------------------
(* The operator's HTTP handlers                                            *)

HandleBlock(ip) ==
  /\ Up /\ mapOpen
  /\ blocked' = blocked \cup {ip}
  /\ Accuse(ip, TRUE)
  /\ UNCHANGED <<redis, stage, decision, process, kafka, current, passes>>

(* An evaluation under way that will block its IP, or that has the         *)
(* script's refusal in hand.                                               *)
Holds(h) == \/ stage[h] = "enforce"
            \/ /\ stage[h] \in {"redis", "ml"}
               /\ status[h] \in {"executed", "returned"} /\ Exhausted(reply[h])

(* Deleting an IP that is not there is an error and changes nothing.  An   *)
(* evaluation under way is not told.                                       *)
HandleUnblock(ip) ==
  /\ Up /\ mapOpen /\ ip \in blocked
  /\ blocked' = blocked \ {ip}
  /\ pardoned' = IF \E h \in Handlers : target[h] = ip /\ Holds(h)
                   THEN pardoned ELSE pardoned \cup {ip}
  /\ UNCHANGED <<redis, stage, decision, process, kafka, evidence, current, passes>>

-----------------------------------------------------------------------------
(* Redis loses keys; the process dies and starts again.                    *)

KeysVanish ==
  /\ Bucket!Tick \/ \E ip \in IPs : Bucket!Evict(ip)
  /\ current' = [h \in Handlers |-> current[h] /\ ttl'[target[h]] # Bucket!Missing]
  /\ passes' = [ip \in IPs |-> IF ttl'[ip] = Bucket!Missing THEN 0 ELSE passes[ip]]
  /\ UNCHANGED <<stage, decision, process, blocked, kafka, evidence, pardoned>>

Killed == /\ Up
          /\ exit' = "killed"
          /\ Bucket!Crash
          /\ Reset
          /\ UNCHANGED <<dialed, mapOpen, blocked, announced, evidence, pardoned, passes>>

(* main: redis.New must reach Redis; the ML client and the map may fail.   *)
Start == /\ ~Up
         /\ exit' = "no"
         /\ dialed' \in BOOLEAN
         /\ mapOpen' \in BOOLEAN
         /\ UNCHANGED <<redis, stage, decision, blocked, kafka, history>>

Next == \/ \E h \in Handlers, ip \in IPs : Evaluate(h, ip)
        \/ \E h \in Handlers, s \in Scores : ScoreReturns(h, s)
        \/ \E h \in Handlers : \/ RunScript(h) \/ CallScore(h) \/ ScoreFails(h)
                               \/ ScorePanics(h) \/ Enforce(h) \/ Return(h)
        \/ \E t \in DOMAIN pending, ip \in IPs : Publish(t, ip)
        \/ \E ip \in IPs : HandleBlock(ip) \/ HandleUnblock(ip)
        \/ RedisCall
        \/ KeysVanish
        \/ Killed
        \/ Start

Spec == Init /\ [][Next]_vars

(* Each wait of Evaluate is bounded: Redis by its time-outs, the sidecar   *)
(* by callDeadline (whether it ever answers is not assumed).  The rest     *)
(* runs on.                                                                *)
Fairness ==
  \A h \in Handlers :
    /\ WF_vars(\/ RunScript(h)
               \/ /\ Bucket!Receive(h) \/ Bucket!Retry(h) \/ Bucket!GiveUp(h)
                  /\ RedisCall)
    /\ WF_vars(CallScore(h) \/ ScoreFails(h) \/ ScorePanics(h) \/ Enforce(h) \/ Return(h))

FairSpec == Spec /\ Fairness

-----------------------------------------------------------------------------
(* Failures never block: an IP reaches the kernel map or the blocked-ips   *)
(* topic only after the script refused it, the sidecar scored it above the *)
(* block threshold, or an operator named it.  Redis errors, ML errors,     *)
(* retries and restarts alone never do it.                                 *)
OnlyEvidenceBlocks == blocked \cup announced \subseteq evidence

(* The bucket limits what gets through: on the strength of one bucket      *)
(* (that is, without a Redis error) Evaluate lets at most BucketSize       *)
(* requests pass, whoever evaluates them and however late.                 *)
PassesWithinBucket == \A ip \in IPs : passes[ip] <= Bucket!LimitBar

(* Evaluate ends although the sidecar may never answer and Redis may be    *)
(* unreachable.                                                            *)
EvaluateReturns == \A h \in Handlers : stage[h] # "idle" ~> stage[h] = "idle"

(* "Evaluate mirrors Engine.Evaluate using stub values": on every score    *)
(* and every reply Decrement can return, the thresholds themselves and the *)
(* last token included, the unit tests' double decides as the engine does. *)
DoubleMirrors ==
  \A h \in Handlers, s \in 0 .. 100 :
    status[h] = "returned" /\ ~reply[h].err =>
      DoubleEvaluate(reply[h].remaining, s) = Decide(s, Exhausted(reply[h]))

(* DELETE /block/:ip holds: an address it took out of the map comes back   *)
(* only because of a refusal, a high score or an order that is later than  *)
(* the DELETE, or through an evaluation that had its reason to block in    *)
(* hand at the DELETE.  No other evaluation under way, retry, late run of  *)
(* the script or restart brings it back.                                   *)
PardonHolds == blocked \cap pardoned = {}
=============================================================================
