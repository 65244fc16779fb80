---------------------------- MODULE EngineProofs ----------------------------
(***************************************************************************)
(* Proofs about Engine, for every set of IPs, every finite set of          *)
(* handlers, every bucket size, TTL and pair of thresholds, and every set  *)
(* of scores.                                                              *)
(***************************************************************************)
EXTENDS Engine, FiniteSetTheorems, TLAPS

(* What the engine relies on in Redis.                                     *)
KeysExpire == \A ip \in IPs : Bucket!Exists(ip) => ttl[ip] \in 1 .. BucketTTL
EmptyStaysEmpty ==
  \A ip \in IPs : Bucket!Exists(ip) /\ BucketSize <= 0 => tokens[ip] <= 0
BucketInv == Bucket!TypeOK /\ KeysExpire /\ Bucket!BucketConserved /\ EmptyStaysEmpty

(* Evaluate goes on only when Decrement has returned.                      *)
StagesInOrder ==
  \A h \in Handlers :
    /\ stage[h] = "idle" <=> status[h] = "idle"
    /\ stage[h] \in {"ml", "enforce", "publish"} => status[h] = "returned"

(* A reply counts for the bucket of now only if the script ran, without an *)
(* error, and the bucket is still there.                                   *)
CurrentIsLive ==
  \A h \in Handlers : current[h] =>
    /\ status[h] \in {"executed", "returned"}
    /\ ~reply[h].err
    /\ Bucket!Exists(target[h])

(* Handlers that hold a token of the bucket of now and have not used it.   *)
Unused(ip) == {h \in Handlers : /\ target[h] = ip /\ current[h]
                                /\ reply[h].remaining >= 0
                                /\ stage[h] \in {"redis", "ml"}}

(* Requests let through and tokens not used yet are tokens the bucket gave *)
(* out.                                                                    *)
PassesHaveTokens == \A ip \in IPs : passes[ip] + Cardinality(Unused(ip)) <= granted[ip]

(* Whatever is on its way into the map or the topic has its evidence.      *)
EvidenceFirst ==
  /\ OnlyEvidenceBlocks
  /\ \A h \in Handlers :
       /\ stage[h] = "enforce" => target[h] \in evidence
       /\ status[h] \in {"executed", "returned"} /\ Exhausted(reply[h])
            => target[h] \in evidence
  /\ \A ip \in IPs : pending[BlockedIPs][ip] > 0 => ip \in evidence

(* Handlers that may still start a goroutine for topic t and ip.           *)
ToPublish(t, ip) == {h \in Handlers : target[h] = ip /\ (t = BlockedIPs => stage[h] # "publish")}

(* The guard of Evaluate leaves room for every goroutine still to come.    *)
RoomLeft ==
  \A t \in {Decisions, BlockedIPs}, ip \in IPs :
    pending[t][ip] + Cardinality(ToPublish(t, ip)) <= MaxPending

(* The engine's own variables keep their types.                            *)
EngineTypes ==
  /\ stage \in [Handlers -> {"idle", "redis", "ml", "enforce", "publish"}]
  /\ decision \in [Handlers -> [action : Actions, retryAfter : 0 .. 120]]
  /\ exit \in {"no", "killed", "panic"}
  /\ dialed \in BOOLEAN /\ mapOpen \in BOOLEAN
  /\ blocked \subseteq IPs
  /\ pending \in [{Decisions, BlockedIPs} -> [IPs -> Nat]]
  /\ announced \subseteq IPs /\ evidence \subseteq IPs
  /\ current \in [Handlers -> BOOLEAN]
  /\ passes \in [IPs -> Nat]

(* What an evaluation holds against an address ends its pardon.            *)
Pardons == /\ pardoned \subseteq IPs /\ PardonHolds
           /\ \A h \in Handlers : Holds(h) => target[h] \notin pardoned

(* The inductive invariant; Pardons is added to it once it is proved.      *)
Inv == /\ BucketInv /\ EngineTypes /\ StagesInOrder /\ CurrentIsLive
       /\ PassesHaveTokens /\ EvidenceFirst /\ RoomLeft

-----------------------------------------------------------------------------
(* Redis, as the engine uses it                                            *)

(* The four things a run of the script can do to a key it is given.        *)
LEMMA ScriptCases ==
  ASSUME BucketInv, NEW ip \in IPs
  PROVE  LET r == Bucket!RunScript(ip) IN
         \/ /\ ttl[ip] = -2 /\ BucketTTL <= 0
            /\ r.err = TRUE /\ r.remaining = 0 /\ r.tokens = 0 /\ r.ttl = -2
         \/ /\ ttl[ip] = -2 /\ BucketTTL > 0
            /\ r.err = FALSE /\ r.remaining = BucketSize - 1
            /\ r.tokens = BucketSize - 1 /\ r.ttl = BucketTTL
         \/ /\ ttl[ip] # -2 /\ tokens[ip] <= 0 /\ BucketTTL > 0
            /\ r.err = FALSE /\ r.remaining = -1
            /\ r.tokens = tokens[ip] /\ r.ttl = BucketTTL
         \/ /\ ttl[ip] # -2 /\ tokens[ip] > 0 /\ BucketTTL > 0
            /\ r.err = FALSE /\ r.remaining = tokens[ip] - 1
            /\ r.tokens = tokens[ip] - 1 /\ r.ttl = BucketTTL
  <1> USE DEF Bucket!Missing
  <1>1. tokens[ip] \in Int /\ (ttl[ip] # -2 => ttl[ip] \in 1 .. BucketTTL)
    BY DEF BucketInv, Bucket!TypeOK, KeysExpire, Bucket!Exists
  <1>2. CASE ttl[ip] = -2
    <2>1. Bucket!RunScript(ip) = Bucket!CreateBucket
      BY <1>2 DEF Bucket!RunScript, Bucket!Script
    <2>2. QED
      BY <1>2, <2>1, EngineAssumption DEF Bucket!CreateBucket, Bucket!ScriptResult
  <1>3. CASE ttl[ip] # -2 /\ tokens[ip] <= 0
    <2>1. Bucket!RunScript(ip) = Bucket!RefuseToken(tokens[ip])
      BY <1>1, <1>3 DEF Bucket!RunScript, Bucket!Script
    <2>2. QED
      BY <1>1, <1>3, <2>1, EngineAssumption DEF Bucket!RefuseToken, Bucket!ScriptResult
  <1>4. CASE ttl[ip] # -2 /\ tokens[ip] > 0
    <2>1. Bucket!RunScript(ip) = Bucket!TakeToken(tokens[ip])
      BY <1>1, <1>4 DEF Bucket!RunScript, Bucket!Script
    <2>2. QED
      BY <1>1, <1>4, <2>1, EngineAssumption DEF Bucket!TakeToken, Bucket!ScriptResult
  <1>5. ttl[ip] # -2 => tokens[ip] <= 0 \/ tokens[ip] > 0
    BY <1>1
  <1>6. QED
    BY <1>2, <1>3, <1>4, <1>5

(* The types of the three variables a run of the script changes.           *)
StoreTypes == /\ tokens \in [IPs -> Int] /\ granted \in [IPs -> Nat]
              /\ ttl \in [IPs -> {-2, -1} \cup 1 .. BucketTTL]

(* A run of the script keeps what the engine relies on, never takes a key  *)
(* or a grant back, and counts the token it hands out.                     *)
LEMMA ApplyKeeps ==
  ASSUME BucketInv, NEW ip \in IPs, Bucket!Apply(ip)
  PROVE  LET r == Bucket!RunScript(ip) IN
         /\ StoreTypes' /\ KeysExpire' /\ Bucket!BucketConserved' /\ EmptyStaysEmpty'
         /\ r.err \in BOOLEAN /\ r.remaining \in Int
         /\ ~r.err => ttl'[ip] # -2
         /\ granted'[ip] = granted[ip] + (IF ~r.err /\ r.remaining >= 0 THEN 1 ELSE 0)
         /\ \A jp \in IPs : /\ ttl[jp] # -2 => ttl'[jp] # -2
                            /\ granted'[jp] >= granted[jp]
                            /\ jp # ip => granted'[jp] = granted[jp]
  <1> DEFINE r == Bucket!RunScript(ip)
  <1> USE DEF Bucket!Missing, Bucket!NoExpiry
  <1>t. StoreTypes
    BY DEF BucketInv, Bucket!TypeOK, StoreTypes
  <1>r. \/ /\ ttl[ip] = -2 /\ BucketTTL <= 0
           /\ r.err = TRUE /\ r.remaining = 0 /\ r.tokens = 0 /\ r.ttl = -2
        \/ /\ ttl[ip] = -2 /\ BucketTTL > 0
           /\ r.err = FALSE /\ r.remaining = BucketSize - 1
           /\ r.tokens = BucketSize - 1 /\ r.ttl = BucketTTL
        \/ /\ ttl[ip] # -2 /\ tokens[ip] <= 0 /\ BucketTTL > 0
           /\ r.err = FALSE /\ r.remaining = -1
           /\ r.tokens = tokens[ip] /\ r.ttl = BucketTTL
        \/ /\ ttl[ip] # -2 /\ tokens[ip] > 0 /\ BucketTTL > 0
           /\ r.err = FALSE /\ r.remaining = tokens[ip] - 1
           /\ r.tokens = tokens[ip] - 1 /\ r.ttl = BucketTTL
    BY ScriptCases
  <1>a. /\ tokens' = [tokens EXCEPT ![ip] = r.tokens]
        /\ ttl' = [ttl EXCEPT ![ip] = r.ttl]
        /\ granted' = [granted EXCEPT ![ip] = IF Bucket!IsToken(r) THEN @ + 1 ELSE @]
    BY DEF Bucket!Apply
  <1> HIDE DEF r
  <1>1. r.err \in BOOLEAN
    <2>1. r.err = TRUE \/ r.err = FALSE
      BY <1>r, Zenon
    <2>2. QED
      BY <2>1, Zenon
  <1>2. /\ r.remaining \in Int /\ r.tokens \in Int
        /\ r.ttl \in {-2} \cup 1 .. BucketTTL
    BY <1>t, <1>r, EngineAssumption DEF StoreTypes
  <1>g. granted' = [granted EXCEPT ![ip] =
                      granted[ip] + (IF ~r.err /\ r.remaining >= 0 THEN 1 ELSE 0)]
    <2>1. CASE ~r.err /\ r.remaining >= 0
      BY <1>t, <1>a, <2>1 DEF StoreTypes, Bucket!IsToken
    <2>2. CASE ~(~r.err /\ r.remaining >= 0)
      <3>1. granted[ip] \in Nat
        BY <1>t DEF StoreTypes
      <3>2. granted' = [granted EXCEPT ![ip] = granted[ip]]
        BY <1>a, <2>2 DEF Bucket!IsToken
      <3>3. granted[ip] + (IF ~r.err /\ r.remaining >= 0 THEN 1 ELSE 0) = granted[ip]
        BY <2>2, <3>1
      <3>4. QED
        BY <3>2, <3>3, Zenon
    <2>3. QED
      BY <2>1, <2>2
  <1>3. StoreTypes'
    <2>1. tokens' \in [IPs -> Int] /\ ttl' \in [IPs -> {-2, -1} \cup 1 .. BucketTTL]
      BY <1>t, <1>a, <1>2 DEF StoreTypes
    <2>2. granted' \in [IPs -> Nat]
      BY <1>t, <1>g DEF StoreTypes
    <2>3. QED
      BY <2>1, <2>2 DEF StoreTypes
  <1>v. /\ tokens'[ip] = r.tokens /\ ttl'[ip] = r.ttl
        /\ granted'[ip] = granted[ip] + (IF ~r.err /\ r.remaining >= 0 THEN 1 ELSE 0)
        /\ \A jp \in IPs \ {ip} : /\ tokens'[jp] = tokens[jp] /\ ttl'[jp] = ttl[jp]
                                  /\ granted'[jp] = granted[jp]
    BY <1>t, <1>a, <1>g DEF StoreTypes
  <1>k. /\ granted[ip] \in Nat /\ tokens[ip] \in Int
        /\ IF ttl[ip] # -2 /\ BucketSize > 0
             THEN tokens[ip] >= 0 /\ granted[ip] + tokens[ip] = BucketSize
             ELSE granted[ip] = 0
        /\ ttl[ip] # -2 /\ BucketSize <= 0 => tokens[ip] <= 0
    BY <1>t DEF BucketInv, StoreTypes, Bucket!BucketConserved, EmptyStaysEmpty, Bucket!Exists
  <1>4. KeysExpire'
    BY <1>v, <1>2 DEF BucketInv, KeysExpire, Bucket!Exists
  <1>5. Bucket!BucketConserved'
    <2>1. IF ttl'[ip] # -2 /\ BucketSize > 0
            THEN tokens'[ip] >= 0 /\ granted'[ip] + tokens'[ip] = BucketSize
            ELSE granted'[ip] = 0
      BY <1>k, <1>r, <1>v, EngineAssumption
    <2>2. QED
      BY <1>v, <2>1 DEF BucketInv, Bucket!BucketConserved, Bucket!Exists
  <1>6. EmptyStaysEmpty'
    <2>1. ttl'[ip] # -2 /\ BucketSize <= 0 => tokens'[ip] <= 0
      BY <1>k, <1>r, <1>v, EngineAssumption
    <2>2. QED
      BY <1>v, <2>1 DEF BucketInv, EmptyStaysEmpty, Bucket!Exists
  <1>7. ~r.err => ttl'[ip] # -2
    BY <1>r, <1>v, EngineAssumption
  <1>8. \A jp \in IPs : /\ ttl[jp] # -2 => ttl'[jp] # -2
                        /\ granted'[jp] >= granted[jp]
                        /\ jp # ip => granted'[jp] = granted[jp]
    <2>1. ttl[ip] # -2 => ttl'[ip] # -2
      BY <1>r, <1>v, EngineAssumption
    <2>2. \A jp \in IPs : granted[jp] \in Nat
      BY <1>t DEF StoreTypes
    <2>3. QED
      BY <1>v, <2>1, <2>2
  <1>9. QED
    BY <1>1, <1>2, <1>3, <1>4, <1>5, <1>6, <1>7, <1>8, <1>v DEF r

(* Every step of the bucket keeps what the engine relies on.               *)
LEMMA BucketNextInv ==
  ASSUME BucketInv, Bucket!Next \/ UNCHANGED redis
  PROVE  BucketInv'
  <1> USE DEF Bucket!Missing, Bucket!NoExpiry
  <1>t. Bucket!TypeOK
    BY DEF BucketInv
  <1>u. ASSUME UNCHANGED <<tokens, ttl, granted>>, Bucket!TypeOK' PROVE BucketInv'
    BY <1>u DEF BucketInv, KeysExpire, Bucket!BucketConserved, EmptyStaysEmpty, Bucket!Exists
  <1>1. ASSUME NEW h \in Handlers, NEW ip \in IPs, Bucket!Decrement(h, ip) PROVE BucketInv'
    BY <1>1, <1>t, <1>u, EngineAssumption DEF Bucket!Decrement, Bucket!TypeOK, Bucket!store
  <1>2. ASSUME NEW h \in Handlers, Bucket!Execute(h) PROVE BucketInv'
    <2>0. PICK ip \in IPs : ip = target[h]
      BY <1>2, <1>t DEF Bucket!TypeOK, Bucket!Execute
    <2> DEFINE r == Bucket!RunScript(ip)
    <2>1. /\ StoreTypes' /\ KeysExpire' /\ Bucket!BucketConserved' /\ EmptyStaysEmpty'
          /\ r.err \in BOOLEAN /\ r.remaining \in Int
      BY <1>2, <2>0, ApplyKeeps DEF Bucket!Execute
    <2>2. /\ status' = [status EXCEPT ![h] = "executed"]
          /\ reply' = [reply EXCEPT ![h] = [err |-> r.err, remaining |-> r.remaining]]
          /\ holds' = [holds EXCEPT ![h] = Bucket!IsToken(r)]
          /\ UNCHANGED <<orphans, target, attempts>>
      BY <1>2, <2>0 DEF Bucket!Execute
    <2> HIDE DEF r
    <2>3. holds' \in [Handlers -> BOOLEAN]
      BY <1>t, <2>1, <2>2 DEF Bucket!TypeOK, Bucket!IsToken
    <2>4. reply' \in [Handlers -> [err : BOOLEAN, remaining : Int]]
      BY <1>t, <2>1, <2>2 DEF Bucket!TypeOK
    <2>5. Bucket!TypeOK'
      BY <1>t, <2>0, <2>1, <2>2, <2>3, <2>4 DEF Bucket!TypeOK, StoreTypes
    <2>6. QED
      BY <2>1, <2>5 DEF BucketInv
  <1>3. ASSUME NEW h \in Handlers, Bucket!Receive(h) PROVE BucketInv'
    BY <1>3, <1>t, <1>u DEF Bucket!Receive, Bucket!TypeOK, Bucket!store
  <1>4. ASSUME NEW h \in Handlers, Bucket!Retry(h) \/ Bucket!GiveUp(h) PROVE BucketInv'
    <2>1. orphans' \in [IPs -> 0 .. MaxOrphans] /\ target[h] \in IPs
      BY <1>4, <1>t, EngineAssumption
         DEF Bucket!Retry, Bucket!GiveUp, Bucket!Abandon, Bucket!Waiting, Bucket!TypeOK
    <2>2. attempts' \in [Handlers -> 0 .. MaxAttempts]
      BY <1>4, <1>t, EngineAssumption
         DEF Bucket!Retry, Bucket!GiveUp, Bucket!MayRetry, Bucket!NextAttempt, Bucket!TypeOK
    <2>3. /\ status' \in [Handlers -> {"idle", "sent", "executed", "returned"}]
          /\ UNCHANGED <<target, tokens, ttl, granted>>
          /\ \A g \in Handlers : g # h => status'[g] = status[g]
      BY <1>4, <1>t DEF Bucket!Retry, Bucket!GiveUp, Bucket!TypeOK, Bucket!store
    <2>4. /\ reply' \in [Handlers -> [err : BOOLEAN, remaining : Int]]
          /\ holds' \in [Handlers -> BOOLEAN]
      <3>1. /\ Bucket!NoReply \in [err : BOOLEAN, remaining : Int]
            /\ Bucket!ErrReply \in [err : BOOLEAN, remaining : Int]
        BY DEF Bucket!NoReply, Bucket!ErrReply
      <3>2. CASE Bucket!Retry(h)
        BY <1>t, <3>1, <3>2 DEF Bucket!Retry, Bucket!TypeOK
      <3>3. CASE Bucket!GiveUp(h)
        BY <1>t, <3>1, <3>3 DEF Bucket!GiveUp, Bucket!TypeOK
      <3>4. QED
        BY <1>4, <3>2, <3>3
    <2>5. Bucket!TypeOK'
      BY <1>t, <2>1, <2>2, <2>3, <2>4 DEF Bucket!TypeOK
    <2>6. QED
      BY <1>u, <2>3, <2>5
  <1>5. ASSUME NEW h \in Handlers, Bucket!Finish(h) PROVE BucketInv'
    <2>1. Bucket!TypeOK'
      BY <1>5, <1>t, EngineAssumption
         DEF Bucket!Finish, Bucket!TypeOK, Bucket!NoReply, Bucket!store
    <2>2. QED
      BY <1>5, <1>u, <2>1 DEF Bucket!Finish, Bucket!store
  <1>6. ASSUME NEW ip \in IPs, Bucket!ExecuteOrphan(ip) PROVE BucketInv'
    <2>1. StoreTypes' /\ KeysExpire' /\ Bucket!BucketConserved' /\ EmptyStaysEmpty'
      BY <1>6, ApplyKeeps DEF Bucket!ExecuteOrphan
    <2>2. orphans' \in [IPs -> 0 .. MaxOrphans]
      BY <1>6, <1>t, EngineAssumption DEF Bucket!ExecuteOrphan, Bucket!TypeOK
    <2>3. Bucket!TypeOK'
      BY <1>6, <1>t, <2>1, <2>2
         DEF Bucket!ExecuteOrphan, Bucket!TypeOK, StoreTypes, Bucket!calls
    <2>4. QED
      BY <2>1, <2>3 DEF BucketInv
  <1>f. ASSUME NEW gone \in SUBSET IPs, Bucket!Forget(gone),
               UNCHANGED <<orphans, Bucket!calls>>,
               ttl' \in [IPs -> {-2, -1} \cup 1 .. BucketTTL],
               \A ip \in IPs : IF ip \in gone THEN ttl'[ip] = -2
                               ELSE /\ ttl'[ip] = -2 <=> ttl[ip] = -2
                                    /\ ttl'[ip] # -2 => ttl'[ip] \in 1 .. BucketTTL
        PROVE  BucketInv'
    <2>1. Bucket!TypeOK'
      BY <1>f, <1>t DEF Bucket!Forget, Bucket!TypeOK, Bucket!calls
    <2>2. KeysExpire'
      BY <1>f DEF KeysExpire, Bucket!Exists
    <2>3. Bucket!BucketConserved' /\ EmptyStaysEmpty'
      BY <1>f DEF BucketInv, Bucket!Forget, Bucket!BucketConserved, EmptyStaysEmpty,
                  Bucket!Exists
    <2>4. QED
      BY <2>1, <2>2, <2>3 DEF BucketInv
  <1>7. ASSUME NEW ip \in IPs, Bucket!Evict(ip) PROVE BucketInv'
    <2>1. ttl' \in [IPs -> {-2, -1} \cup 1 .. BucketTTL]
      BY <1>7, <1>t DEF Bucket!Evict, Bucket!TypeOK
    <2>2. \A jp \in IPs : IF jp \in {ip} THEN ttl'[jp] = -2
                          ELSE /\ ttl'[jp] = -2 <=> ttl[jp] = -2
                               /\ ttl'[jp] # -2 => ttl'[jp] \in 1 .. BucketTTL
      BY <1>7, <1>t DEF Bucket!Evict, Bucket!TypeOK, BucketInv, KeysExpire, Bucket!Exists
    <2>3. QED
      BY <1>7, <1>f, <2>1, <2>2 DEF Bucket!Evict
  <1>8. CASE Bucket!Tick
    <2> DEFINE gone == {ip \in IPs : ttl[ip] = 1}
    <2>0. \A ip \in IPs : ttl[ip] = -2 \/ ttl[ip] \in 1 .. BucketTTL
      BY DEF BucketInv, KeysExpire, Bucket!Exists
    <2>1. ttl' \in [IPs -> {-2, -1} \cup 1 .. BucketTTL]
      BY <1>8, <2>0, EngineAssumption DEF Bucket!Tick
    <2>2. \A jp \in IPs : IF jp \in gone THEN ttl'[jp] = -2
                          ELSE /\ ttl'[jp] = -2 <=> ttl[jp] = -2
                               /\ ttl'[jp] # -2 => ttl'[jp] \in 1 .. BucketTTL
      BY <1>8, <2>0, EngineAssumption DEF Bucket!Tick
    <2>3. Bucket!Forget(gone) /\ UNCHANGED <<orphans, Bucket!calls>> /\ gone \in SUBSET IPs
      BY <1>8 DEF Bucket!Tick
    <2> HIDE DEF gone
    <2>4. QED
      BY <1>f, <2>1, <2>2, <2>3
  <1>9. ASSUME NEW ip \in IPs, Bucket!Failover(ip) PROVE BucketInv'
    <2>1. PICK n \in 0 .. granted[ip], l \in 1 .. ttl[ip] :
             /\ n = 0 \/ n < granted[ip]
             /\ tokens' = [tokens EXCEPT ![ip] = @ + n]
             /\ granted' = [granted EXCEPT ![ip] = @ - n]
             /\ ttl' = [ttl EXCEPT ![ip] = l]
      BY <1>9 DEF Bucket!Failover
    <2>2. /\ ttl[ip] # -2 /\ ttl[ip] \in 1 .. BucketTTL /\ l \in 1 .. BucketTTL
          /\ tokens[ip] \in Int /\ granted[ip] \in Nat
          /\ IF BucketSize > 0 THEN tokens[ip] >= 0 /\ granted[ip] + tokens[ip] = BucketSize
             ELSE granted[ip] = 0 /\ n = 0
      BY <1>9, <1>t, EngineAssumption
         DEF Bucket!Failover, Bucket!Exists, BucketInv, KeysExpire, Bucket!BucketConserved,
             Bucket!TypeOK
    <2>3. /\ tokens'[ip] = tokens[ip] + n /\ granted'[ip] = granted[ip] - n /\ ttl'[ip] = l
          /\ \A jp \in IPs \ {ip} : /\ tokens'[jp] = tokens[jp] /\ ttl'[jp] = ttl[jp]
                                    /\ granted'[jp] = granted[jp]
      BY <1>t, <2>1 DEF Bucket!TypeOK
    <2>4. /\ tokens' \in [IPs -> Int] /\ granted' \in [IPs -> Nat]
          /\ ttl' \in [IPs -> {-2, -1} \cup 1 .. BucketTTL]
      BY <1>t, <2>1, <2>2 DEF Bucket!TypeOK
    <2>5. holds' \in [Handlers -> BOOLEAN]
      BY <1>9, <1>t DEF Bucket!Failover, Bucket!TypeOK
    <2>6. Bucket!TypeOK'
      BY <1>9, <1>t, <2>4, <2>5 DEF Bucket!Failover, Bucket!TypeOK, Bucket!calls
    <2>7. KeysExpire'
      BY <2>2, <2>3 DEF BucketInv, KeysExpire, Bucket!Exists
    <2>8. Bucket!BucketConserved'
      BY <2>2, <2>3, EngineAssumption DEF BucketInv, Bucket!BucketConserved, Bucket!Exists
    <2>9. EmptyStaysEmpty'
      BY <2>2, <2>3, EngineAssumption DEF BucketInv, EmptyStaysEmpty, Bucket!Exists
    <2>10. QED
      BY <2>6, <2>7, <2>8, <2>9 DEF BucketInv
  <1>10. CASE Bucket!Crash
    <2>1. Bucket!TypeOK'
      BY <1>10, <1>t, EngineAssumption
         DEF Bucket!Crash, Bucket!TypeOK, Bucket!NoReply, Bucket!store
    <2>2. QED
      BY <1>10, <1>u, <2>1 DEF Bucket!Crash, Bucket!store
  <1>11. CASE UNCHANGED redis
    BY <1>11, <1>t, <1>u DEF redis, Bucket!TypeOK
  <1>12. QED
    BY <1>1, <1>2, <1>3, <1>4, <1>5, <1>6, <1>7, <1>8, <1>9, <1>10, <1>11 DEF Bucket!Next

-----------------------------------------------------------------------------
(* Counting handlers                                                       *)

(* How the size of a set of handlers follows the set.                      *)
LEMMA HandlerSets ==
  ASSUME NEW T \in SUBSET Handlers
  PROVE  /\ Cardinality(T) \in Nat
         /\ \A S \in SUBSET T : Cardinality(S) \in Nat /\ Cardinality(S) <= Cardinality(T)
         /\ \A h \in T : \A S : S \subseteq T \ {h} => Cardinality(S) + 1 <= Cardinality(T)
         /\ \A h \in Handlers : \A S : S \subseteq T \cup {h} =>
              Cardinality(S) <= Cardinality(T) + 1
  <1>1. IsFiniteSet(T)
    BY EngineAssumption, FS_Subset
  <1>2. Cardinality(T) \in Nat
    BY <1>1, FS_CardinalityType
  <1>3. ASSUME NEW S \in SUBSET T
        PROVE  Cardinality(S) \in Nat /\ Cardinality(S) <= Cardinality(T)
    BY <1>1, FS_Subset, FS_CardinalityType
  <1>4. ASSUME NEW h \in T, NEW S, S \subseteq T \ {h}
        PROVE  Cardinality(S) + 1 <= Cardinality(T)
    <2>1. IsFiniteSet(T \ {h}) /\ Cardinality(T \ {h}) = Cardinality(T) - 1
      BY <1>1, FS_RemoveElement
    <2>2. IsFiniteSet(S) /\ Cardinality(S) <= Cardinality(T \ {h})
      BY <1>4, <2>1, FS_Subset
    <2>3. Cardinality(S) \in Nat
      BY <2>2, FS_CardinalityType
    <2>4. QED
      BY <1>2, <2>1, <2>2, <2>3
  <1>5. ASSUME NEW h \in Handlers, NEW S, S \subseteq T \cup {h}
        PROVE  Cardinality(S) <= Cardinality(T) + 1
    <2>1. /\ IsFiniteSet(T \cup {h})
          /\ Cardinality(T \cup {h}) = IF h \in T THEN Cardinality(T) ELSE Cardinality(T) + 1
      BY <1>1, FS_AddElement
    <2>2. IsFiniteSet(S) /\ Cardinality(S) <= Cardinality(T \cup {h})
      BY <1>5, <2>1, FS_Subset
    <2>3. Cardinality(S) \in Nat
      BY <2>2, FS_CardinalityType
    <2>4. QED
      BY <1>2, <2>1, <2>2, <2>3
  <1>6. QED
    BY <1>2, <1>3, <1>4, <1>5

(* Room for the goroutines: a step that starts none and adds no handler.   *)
LEMMA RoomKept ==
  ASSUME EngineTypes, RoomLeft, EngineTypes',
         \A t \in {Decisions, BlockedIPs}, ip \in IPs :
           pending'[t][ip] <= pending[t][ip] /\ ToPublish(t, ip)' \subseteq ToPublish(t, ip)
  PROVE  RoomLeft'
  <1> SUFFICES ASSUME NEW t \in {Decisions, BlockedIPs}, NEW ip \in IPs
               PROVE  pending'[t][ip] + Cardinality(ToPublish(t, ip)') <= MaxPending
    BY DEF RoomLeft, Decisions, BlockedIPs
  <1>1. pending[t][ip] \in Nat /\ pending'[t][ip] \in Nat
    BY DEF EngineTypes, Decisions, BlockedIPs
  <1>2. ToPublish(t, ip) \in SUBSET Handlers
    BY DEF ToPublish
  <1>3. /\ Cardinality(ToPublish(t, ip)') \in Nat /\ Cardinality(ToPublish(t, ip)) \in Nat
        /\ Cardinality(ToPublish(t, ip)') <= Cardinality(ToPublish(t, ip))
    BY <1>2, HandlerSets
  <1>4. pending[t][ip] + Cardinality(ToPublish(t, ip)) <= MaxPending
    BY DEF RoomLeft
  <1>5. QED
    BY <1>1, <1>3, <1>4, EngineAssumption

(* Tokens: a step that lets nobody pass and hands no token to a handler.   *)
LEMMA TokensKept ==
  ASSUME EngineTypes, PassesHaveTokens, BucketInv, BucketInv',
         \A ip \in IPs : /\ passes'[ip] = passes[ip] /\ granted'[ip] >= granted[ip]
                         /\ Unused(ip)' \subseteq Unused(ip)
  PROVE  PassesHaveTokens'
  <1> SUFFICES ASSUME NEW ip \in IPs
               PROVE  passes'[ip] + Cardinality(Unused(ip)') <= granted'[ip]
    BY DEF PassesHaveTokens
  <1>1. passes[ip] \in Nat /\ granted[ip] \in Nat /\ granted'[ip] \in Nat
    BY DEF EngineTypes, BucketInv, Bucket!TypeOK
  <1>2. Unused(ip) \in SUBSET Handlers
    BY DEF Unused
  <1>3. /\ Cardinality(Unused(ip)') \in Nat /\ Cardinality(Unused(ip)) \in Nat
        /\ Cardinality(Unused(ip)') <= Cardinality(Unused(ip))
    BY <1>2, HandlerSets
  <1>4. passes[ip] + Cardinality(Unused(ip)) <= granted[ip]
    BY DEF PassesHaveTokens
  <1>5. QED
    BY <1>1, <1>3, <1>4

-----------------------------------------------------------------------------
(* The invariant                                                           *)

(* The initial states satisfy the invariant.                               *)
LEMMA InitInv == Init => Inv
  <1> SUFFICES ASSUME Init PROVE Inv
    OBVIOUS
  <1> USE DEF Bucket!Missing
  <1>1. BucketInv
    <2>1. Bucket!TypeOK
      BY EngineAssumption DEF Init, Bucket!Init, Bucket!TypeOK, Bucket!NoReply
    <2>2. KeysExpire /\ Bucket!BucketConserved /\ EmptyStaysEmpty
      BY DEF Init, Bucket!Init, KeysExpire, Bucket!BucketConserved, EmptyStaysEmpty,
             Bucket!Exists
    <2>3. QED
      BY <2>1, <2>2 DEF BucketInv
  <1>2. EngineTypes
    <2>1. NoDecision \in [action : Actions, retryAfter : 0 .. 120]
      BY DEF NoDecision, Actions
    <2>2. QED
      BY <2>1 DEF Init, EngineTypes
  <1>3. StagesInOrder /\ CurrentIsLive
    BY DEF Init, Bucket!Init, StagesInOrder, CurrentIsLive
  <1>4. EvidenceFirst
    BY DEF Init, Bucket!Init, EvidenceFirst, OnlyEvidenceBlocks, Decisions, BlockedIPs
  <1>5. PassesHaveTokens
    <2>1. \A ip \in IPs : Unused(ip) = {}
      BY DEF Init, Unused
    <2>2. \A ip \in IPs : passes[ip] = 0 /\ granted[ip] = 0
      BY DEF Init, Bucket!Init
    <2>3. QED
      BY <2>1, <2>2, FS_EmptySet DEF PassesHaveTokens
  <1>6. RoomLeft
    <2>1. \A t \in {Decisions, BlockedIPs}, ip \in IPs : ToPublish(t, ip) = {}
      BY EngineAssumption DEF Init, Bucket!Init, ToPublish
    <2>2. \A t \in {Decisions, BlockedIPs}, ip \in IPs : pending[t][ip] = 0
      BY DEF Init
    <2>3. QED
      BY <2>1, <2>2, FS_EmptySet, EngineAssumption DEF RoomLeft
  <1>7. QED
    BY <1>1, <1>2, <1>3, <1>4, <1>5, <1>6 DEF Inv

(* Evaluate starts: the guard leaves room for the handler's goroutines.    *)
LEMMA EvaluateInv ==
  ASSUME Inv, BucketInv', NEW h \in Handlers, NEW ip \in IPs, Evaluate(h, ip)
  PROVE  Inv'
  <1>t. EngineTypes /\ Bucket!TypeOK
    BY DEF Inv, BucketInv
  <1>1. /\ stage[h] = "idle" /\ status[h] = "idle"
        /\ stage' = [stage EXCEPT ![h] = "redis"]
        /\ status' = [status EXCEPT ![h] = "sent"]
        /\ target' = [target EXCEPT ![h] = ip]
        /\ UNCHANGED <<tokens, ttl, granted, reply, decision, process, blocked, kafka, history>>
    BY DEF Evaluate, Bucket!Decrement, Bucket!store
  <1>2. EngineTypes'
    BY <1>t, <1>1 DEF EngineTypes, process, kafka, history
  <1>3. ~current[h]
    BY <1>1 DEF Inv, CurrentIsLive
  <1>4. \A g \in Handlers : g # h => /\ stage'[g] = stage[g] /\ status'[g] = status[g]
                                     /\ target'[g] = target[g]
    BY <1>t, <1>1 DEF EngineTypes, Bucket!TypeOK
  <1>5. stage'[h] = "redis" /\ status'[h] = "sent" /\ target'[h] = ip
    BY <1>t, <1>1 DEF EngineTypes, Bucket!TypeOK
  <1>6. StagesInOrder' /\ CurrentIsLive'
    BY <1>1, <1>3, <1>4, <1>5
       DEF Inv, StagesInOrder, CurrentIsLive, history, Bucket!Exists, Bucket!Missing
  <1>7. PassesHaveTokens'
    <2>1. \A jp \in IPs : Unused(jp)' \subseteq Unused(jp)
      BY <1>1, <1>3, <1>4 DEF Unused, history
    <2>2. \A jp \in IPs : passes'[jp] = passes[jp] /\ granted'[jp] >= granted[jp]
      BY <1>t, <1>1 DEF history, Bucket!TypeOK
    <2>3. QED
      BY <1>t, <2>1, <2>2, TokensKept DEF Inv
  <1>8. EvidenceFirst'
    BY <1>1, <1>4, <1>5
       DEF Inv, EvidenceFirst, OnlyEvidenceBlocks, Exhausted, kafka, history
  <1>9. RoomLeft'
    <2> SUFFICES ASSUME NEW t \in {Decisions, BlockedIPs}, NEW jp \in IPs
                 PROVE  pending'[t][jp] + Cardinality(ToPublish(t, jp)') <= MaxPending
      BY DEF RoomLeft, Decisions, BlockedIPs
    <2>0. pending' = pending /\ pending[t][jp] \in Nat
      BY <1>t, <1>1 DEF EngineTypes, kafka
    <2>1. CASE jp = ip
      <3> DEFINE T == {g \in Handlers : target[g] = ip}
      <3>1. pending[t][ip] + Cardinality(T) < MaxPending
        BY <1>t DEF Evaluate, Busy, EngineTypes
      <3>2. ToPublish(t, ip)' \subseteq T \cup {h}
        BY <1>4 DEF ToPublish
      <3>3. T \in SUBSET Handlers /\ ToPublish(t, ip)' \in SUBSET Handlers
        BY DEF ToPublish
      <3> HIDE DEF T
      <3>4. /\ Cardinality(T) \in Nat /\ Cardinality(ToPublish(t, ip)') \in Nat
            /\ Cardinality(ToPublish(t, ip)') <= Cardinality(T) + 1
        BY <3>2, <3>3, HandlerSets
      <3>5. QED
        BY <2>0, <2>1, <3>1, <3>4, EngineAssumption
    <2>2. CASE jp # ip
      <3>1. ToPublish(t, jp)' \subseteq ToPublish(t, jp)
        BY <1>4, <1>5, <2>2 DEF ToPublish
      <3>2. ToPublish(t, jp) \in SUBSET Handlers
        BY DEF ToPublish
      <3>3. /\ Cardinality(ToPublish(t, jp)) \in Nat /\ Cardinality(ToPublish(t, jp)') \in Nat
            /\ Cardinality(ToPublish(t, jp)') <= Cardinality(ToPublish(t, jp))
        BY <3>1, <3>2, HandlerSets
      <3>4. QED
        BY <2>0, <3>3, EngineAssumption DEF Inv, RoomLeft
    <2>3. QED
      BY <2>1, <2>2
  <1>10. QED
    BY <1>2, <1>6, <1>7, <1>8, <1>9 DEF Inv

(* The script runs for a handler: a token is one more grant, a refusal is  *)
(* evidence.                                                               *)
LEMMA RunScriptInv ==
  ASSUME Inv, BucketInv', NEW h \in Handlers, RunScript(h)
  PROVE  Inv'
  <1>t. EngineTypes /\ Bucket!TypeOK /\ Bucket!TypeOK'
    BY DEF Inv, BucketInv
  <1>0. PICK ip \in IPs : ip = target[h]
    BY <1>t DEF RunScript, Bucket!Execute, Bucket!TypeOK
  <1> DEFINE r == Bucket!RunScript(ip)
  <1>1. /\ status[h] = "sent" /\ status' = [status EXCEPT ![h] = "executed"]
        /\ reply' = [reply EXCEPT ![h] = [err |-> r.err, remaining |-> r.remaining]]
        /\ evidence' = IF Exhausted(reply'[h]) THEN evidence \cup {ip} ELSE evidence
        /\ current' = [current EXCEPT ![h] = ~reply'[h].err]
        /\ UNCHANGED <<target, stage, decision, process, blocked, kafka, passes>>
    BY <1>0 DEF RunScript, Bucket!Execute, Accuse
  <1>2. /\ r.err \in BOOLEAN /\ r.remaining \in Int
        /\ ~r.err => ttl'[ip] # -2
        /\ granted'[ip] = granted[ip] + (IF ~r.err /\ r.remaining >= 0 THEN 1 ELSE 0)
        /\ \A jp \in IPs : /\ ttl[jp] # -2 => ttl'[jp] # -2
                           /\ granted'[jp] >= granted[jp]
                           /\ jp # ip => granted'[jp] = granted[jp]
    BY <1>0, ApplyKeeps DEF RunScript, Bucket!Execute, Inv
  <1> HIDE DEF r
  <1>3. /\ status'[h] = "executed" /\ reply'[h].err = r.err
        /\ reply'[h].remaining = r.remaining /\ current'[h] = ~r.err
        /\ \A g \in Handlers : g # h => /\ status'[g] = status[g] /\ reply'[g] = reply[g]
                                        /\ current'[g] = current[g]
    BY <1>t, <1>1 DEF EngineTypes, Bucket!TypeOK
  <1>4. current' \in [Handlers -> BOOLEAN]
    BY <1>t, <1>1, <1>2, <1>3 DEF EngineTypes
  <1>5. EngineTypes'
    BY <1>t, <1>1, <1>4 DEF EngineTypes, process, kafka
  <1>6. StagesInOrder'
    BY <1>1, <1>3 DEF Inv, StagesInOrder
  <1>7. CurrentIsLive'
    <2>1. \A g \in Handlers : g # h /\ current'[g] =>
             /\ status'[g] \in {"executed", "returned"} /\ ~reply'[g].err
             /\ ttl'[target'[g]] # -2
      <3>1. \A g \in Handlers : current[g] => target[g] \in IPs /\ ttl[target[g]] # -2
        BY <1>t DEF Inv, CurrentIsLive, Bucket!TypeOK, Bucket!Exists, Bucket!Missing
      <3>2. QED
        BY <1>1, <1>2, <1>3, <3>1 DEF Inv, CurrentIsLive
    <2>2. current'[h] => ~reply'[h].err /\ ttl'[target'[h]] # -2
      BY <1>0, <1>1, <1>2, <1>3
    <2>3. QED
      BY <1>3, <2>1, <2>2 DEF CurrentIsLive, Bucket!Exists, Bucket!Missing
  <1>8. PassesHaveTokens'
    <2> SUFFICES ASSUME NEW jp \in IPs
                 PROVE  passes'[jp] + Cardinality(Unused(jp)') <= granted'[jp]
      BY DEF PassesHaveTokens
    <2>1. passes'[jp] = passes[jp] /\ passes[jp] \in Nat /\ granted[jp] \in Nat
      BY <1>t, <1>1 DEF EngineTypes, Bucket!TypeOK
    <2>2. Unused(jp) \in SUBSET Handlers /\ passes[jp] + Cardinality(Unused(jp)) <= granted[jp]
      BY DEF Unused, Inv, PassesHaveTokens
    <2>3. CASE jp = ip /\ ~r.err /\ r.remaining >= 0
      <3>1. Unused(jp)' \subseteq Unused(jp) \cup {h}
        BY <1>1, <1>3 DEF Unused
      <3>2. Unused(jp)' \in SUBSET Handlers
        BY DEF Unused
      <3>3. /\ Cardinality(Unused(jp)') <= Cardinality(Unused(jp)) + 1
            /\ Cardinality(Unused(jp)) \in Nat /\ Cardinality(Unused(jp)') \in Nat
        BY <2>2, <3>1, <3>2, HandlerSets
      <3>4. granted'[jp] = granted[jp] + 1
        BY <1>2, <2>3
      <3>5. QED
        BY <2>1, <2>2, <3>3, <3>4
    <2>4. CASE ~(jp = ip /\ ~r.err /\ r.remaining >= 0)
      <3>1. Unused(jp)' \subseteq Unused(jp)
        BY <1>0, <1>1, <1>3, <2>4 DEF Unused
      <3>2. /\ Cardinality(Unused(jp)') <= Cardinality(Unused(jp))
            /\ Cardinality(Unused(jp)) \in Nat /\ Cardinality(Unused(jp)') \in Nat
        BY <2>2, <3>1, HandlerSets
      <3>3. granted'[jp] >= granted[jp] /\ granted'[jp] \in Nat
        BY <1>t, <1>2 DEF Bucket!TypeOK
      <3>4. QED
        BY <2>1, <2>2, <3>2, <3>3
    <2>5. QED
      BY <2>3, <2>4
  <1>9. EvidenceFirst'
    <2>1. evidence \subseteq evidence'
      BY <1>1
    <2>2. \A g \in Handlers : status'[g] \in {"executed", "returned"} /\ Exhausted(reply'[g])
                                => target'[g] \in evidence'
      <3>1. Exhausted(reply'[h]) => target'[h] \in evidence'
        BY <1>0, <1>1
      <3>2. \A g \in Handlers : g # h /\ status'[g] \in {"executed", "returned"}
               /\ Exhausted(reply'[g]) => target'[g] \in evidence'
        BY <1>1, <1>3, <2>1 DEF Inv, EvidenceFirst
      <3>3. QED
        BY <3>1, <3>2
    <2>3. OnlyEvidenceBlocks'
      BY <1>1, <2>1 DEF Inv, EvidenceFirst, OnlyEvidenceBlocks, kafka
    <2>4. QED
      BY <1>1, <2>1, <2>2, <2>3 DEF Inv, EvidenceFirst, kafka, BlockedIPs, Exhausted
  <1>10. RoomLeft'
    <2>1. \A t \in {Decisions, BlockedIPs}, jp \in IPs :
            pending'[t][jp] <= pending[t][jp] /\ ToPublish(t, jp)' \subseteq ToPublish(t, jp)
      BY <1>t, <1>1 DEF EngineTypes, ToPublish, kafka
    <2>2. QED
      BY <1>t, <1>5, <2>1, RoomKept DEF Inv
  <1>11. QED
    BY <1>5, <1>6, <1>7, <1>8, <1>9, <1>10 DEF Inv

(* Decrement waits, retries or gives up, or a late script runs.            *)
LEMMA RedisCallInv ==
  ASSUME Inv, BucketInv', RedisCall
  PROVE  Inv'
  <1>t. EngineTypes /\ Bucket!TypeOK /\ Bucket!TypeOK'
    BY DEF Inv, BucketInv
  <1>1. UNCHANGED <<stage, decision, process, blocked, kafka, evidence, passes>>
    BY DEF RedisCall
  (* What all of these have in common.                                     *)
  <1>c. ASSUME current' \in [Handlers -> BOOLEAN], target' = target,
               \A jp \in IPs : /\ ttl[jp] # -2 => ttl'[jp] # -2
                               /\ granted'[jp] >= granted[jp],
               \A g \in Handlers : /\ status[g] = "idle" <=> status'[g] = "idle"
                                   /\ status[g] = "returned" => status'[g] = "returned"
                                   /\ current'[g] => /\ current[g] /\ reply'[g] = reply[g]
                                                     /\ status'[g] \in {"executed", "returned"}
                                   /\ \/ reply'[g] = reply[g] /\
                                         (status'[g] \in {"executed", "returned"} =>
                                            status[g] \in {"executed", "returned"})
                                      \/ ~Exhausted(reply'[g])
        PROVE  Inv'
    <2>1. EngineTypes'
      BY <1>t, <1>1, <1>c DEF EngineTypes, process, kafka
    <2>2. StagesInOrder'
      BY <1>1, <1>c DEF Inv, StagesInOrder
    <2>3. CurrentIsLive'
      <3>1. \A g \in Handlers : current[g] => target[g] \in IPs /\ ttl[target[g]] # -2
        BY <1>t DEF Inv, CurrentIsLive, Bucket!TypeOK, Bucket!Exists, Bucket!Missing
      <3>2. QED
        BY <1>c, <3>1 DEF Inv, CurrentIsLive, Bucket!Exists, Bucket!Missing
    <2>4. PassesHaveTokens'
      <3>1. \A jp \in IPs : Unused(jp)' \subseteq Unused(jp)
        BY <1>1, <1>c DEF Unused
      <3>2. QED
        BY <1>t, <1>1, <1>c, <3>1, TokensKept DEF Inv
    <2>5. EvidenceFirst'
      BY <1>1, <1>c DEF Inv, EvidenceFirst, OnlyEvidenceBlocks, kafka, BlockedIPs, Exhausted
    <2>6. RoomLeft'
      <3>1. \A t \in {Decisions, BlockedIPs}, jp \in IPs :
              pending'[t][jp] <= pending[t][jp] /\ ToPublish(t, jp)' \subseteq ToPublish(t, jp)
        BY <1>t, <1>1, <1>c DEF EngineTypes, ToPublish, kafka
      <3>2. QED
        BY <1>t, <2>1, <3>1, RoomKept DEF Inv
    <2>7. QED
      BY <2>1, <2>2, <2>3, <2>4, <2>5, <2>6 DEF Inv
  <1>g. \A jp \in IPs : granted[jp] \in Nat
    BY <1>t DEF Bucket!TypeOK
  <1>2. ASSUME NEW h \in Handlers, Bucket!Retry(h) \/ Bucket!GiveUp(h),
               current' = [current EXCEPT ![h] = FALSE]
        PROVE  Inv'
    <2>1. /\ status[h] \in {"sent", "executed"} /\ status'[h] \in {"sent", "returned"}
          /\ ~Exhausted(reply'[h]) /\ ~current'[h]
          /\ \A g \in Handlers : g # h => /\ status'[g] = status[g] /\ reply'[g] = reply[g]
                                          /\ current'[g] = current[g]
          /\ current' \in [Handlers -> BOOLEAN]
          /\ UNCHANGED <<target, tokens, ttl, granted>>
      BY <1>2, <1>t
         DEF Bucket!Retry, Bucket!GiveUp, Bucket!Waiting, Bucket!TypeOK, EngineTypes,
             Bucket!NoReply, Bucket!ErrReply, Exhausted, Bucket!store
    <2>2. QED
      BY <1>c, <1>g, <2>1 DEF Inv, CurrentIsLive
  <1>3. ASSUME NEW h \in Handlers, Bucket!Receive(h), current' = current PROVE Inv'
    <2>1. /\ status[h] = "executed" /\ status'[h] = "returned"
          /\ \A g \in Handlers : g # h => status'[g] = status[g]
          /\ UNCHANGED <<target, tokens, ttl, granted, reply>>
      BY <1>3, <1>t DEF Bucket!Receive, Bucket!TypeOK, Bucket!store
    <2>2. QED
      BY <1>3, <1>c, <1>g, <1>t, <2>1 DEF EngineTypes, Inv, CurrentIsLive
  <1>4. ASSUME NEW ip \in IPs, Bucket!ExecuteOrphan(ip), current' = current PROVE Inv'
    <2>1. \A jp \in IPs : /\ ttl[jp] # -2 => ttl'[jp] # -2
                          /\ granted'[jp] >= granted[jp]
      BY <1>4, ApplyKeeps DEF Bucket!ExecuteOrphan, Inv
    <2>2. UNCHANGED <<status, target, reply>>
      BY <1>4 DEF Bucket!ExecuteOrphan, Bucket!calls
    <2>3. QED
      BY <1>4, <1>c, <1>t, <2>1, <2>2 DEF EngineTypes, Inv, CurrentIsLive
  <1>5. QED
    BY <1>2, <1>3, <1>4 DEF RedisCall

(* Evaluate goes on to the sidecar with what Decrement returned.           *)
LEMMA CallScoreInv ==
  ASSUME Inv, BucketInv', NEW h \in Handlers, CallScore(h)
  PROVE  Inv'
  <1>t. EngineTypes /\ Bucket!TypeOK
    BY DEF Inv, BucketInv
  <1>1. /\ stage[h] = "redis" /\ status[h] = "returned"
        /\ stage'[h] = "ml" /\ \A g \in Handlers : g # h => stage'[g] = stage[g]
        /\ UNCHANGED <<redis, decision, process, blocked, kafka, history>>
    BY <1>t DEF CallScore, EngineTypes
  <1>2. EngineTypes'
    BY <1>t, <1>1 DEF CallScore, EngineTypes, process, kafka, history
  <1>3. StagesInOrder' /\ CurrentIsLive'
    BY <1>1 DEF Inv, StagesInOrder, CurrentIsLive, redis, history, Bucket!Exists, Bucket!Missing
  <1>4. PassesHaveTokens'
    <2>1. \A ip \in IPs : Unused(ip)' \subseteq Unused(ip)
      BY <1>1 DEF Unused, redis, history
    <2>2. \A ip \in IPs : passes'[ip] = passes[ip] /\ granted'[ip] >= granted[ip]
      BY <1>t, <1>1 DEF redis, history, Bucket!TypeOK
    <2>3. QED
      BY <2>1, <2>2, TokensKept DEF Inv
  <1>5. EvidenceFirst'
    BY <1>1 DEF Inv, EvidenceFirst, OnlyEvidenceBlocks, Exhausted, redis, kafka, history
  <1>6. RoomLeft'
    <2>1. \A t \in {Decisions, BlockedIPs}, ip \in IPs :
            pending'[t][ip] <= pending[t][ip] /\ ToPublish(t, ip)' \subseteq ToPublish(t, ip)
      BY <1>t, <1>1 DEF EngineTypes, ToPublish, redis, kafka
    <2>2. QED
      BY <1>2, <2>1, RoomKept DEF Inv
  <1>7. QED
    BY <1>2, <1>3, <1>4, <1>5, <1>6 DEF Inv

(* The decision has its type, and a block has a reason.                    *)
LEMMA DecideFacts ==
  ASSUME NEW s \in 0 .. 100, NEW x \in BOOLEAN
  PROVE  /\ Decide(s, x) \in [action : Actions, retryAfter : 0 .. 120]
         /\ Decide(s, x).action = "block" <=> s > BlockThreshold \/ x
  <1>1. RetryAfter(s) \in 0 .. 120
    BY DEF RetryAfter
  <1>2. CASE s > BlockThreshold \/ x
    <2>1. Decide(s, x) = [action |-> "block", retryAfter |-> 0]
      BY <1>2 DEF Decide
    <2>2. QED
      BY <1>2, <2>1 DEF Actions
  <1>3. CASE ~(s > BlockThreshold \/ x) /\ s > ThrottleThreshold
    <2>1. Decide(s, x) = [action |-> "throttle", retryAfter |-> RetryAfter(s)]
      BY <1>3 DEF Decide
    <2>2. QED
      BY <1>1, <1>3, <2>1 DEF Actions
  <1>4. CASE ~(s > BlockThreshold \/ x) /\ ~(s > ThrottleThreshold)
    <2>1. Decide(s, x) = [action |-> "allow", retryAfter |-> 0]
      BY <1>4 DEF Decide
    <2>2. QED
      BY <1>4, <2>1 DEF Actions
  <1>5. QED
    BY <1>2, <1>3, <1>4

(* The switch concludes: whoever passes uses the token it holds, whoever   *)
(* is blocked was refused or scored high.                                  *)
LEMMA ConcludeInv ==
  ASSUME Inv, BucketInv', NEW h \in Handlers, NEW s \in 0 .. 100, Conclude(h, s),
         evidence' = IF s > BlockThreshold THEN evidence \cup {target[h]} ELSE evidence
  PROVE  Inv'
  <1> DEFINE d == Decide(s, Exhausted(reply[h]))
  <1>t. EngineTypes /\ Bucket!TypeOK
    BY DEF Inv, BucketInv
  <1>x. Exhausted(reply[h]) \in BOOLEAN
    BY DEF Exhausted
  <1>d. /\ d \in [action : Actions, retryAfter : 0 .. 120]
        /\ d.action = "block" <=> s > BlockThreshold \/ Exhausted(reply[h])
    BY <1>x, DecideFacts
  <1>1. /\ stage[h] = "ml"
        /\ decision' = [decision EXCEPT ![h] = d]
        /\ stage' = [stage EXCEPT ![h] = IF d.action = "block" THEN "enforce" ELSE "publish"]
        /\ passes' = IF d.action # "block" /\ current[h]
                       THEN [passes EXCEPT ![target[h]] = @ + 1] ELSE passes
        /\ UNCHANGED <<redis, process, blocked, kafka, current>>
    BY DEF Conclude, Enforced
  <1> HIDE DEF d
  <1>0. PICK ip \in IPs : ip = target[h] /\ status[h] = "returned"
    BY <1>t, <1>1 DEF Inv, StagesInOrder, Bucket!TypeOK
  <1>2. /\ stage'[h] = IF d.action = "block" THEN "enforce" ELSE "publish"
        /\ \A g \in Handlers : g # h => stage'[g] = stage[g]
        /\ stage' \in [Handlers -> {"idle", "redis", "ml", "enforce", "publish"}]
    BY <1>t, <1>1 DEF EngineTypes
  <1>3. EngineTypes'
    <2>1. decision' \in [Handlers -> [action : Actions, retryAfter : 0 .. 120]]
      BY <1>t, <1>d, <1>1 DEF EngineTypes
    <2>2. passes' \in [IPs -> Nat]
      BY <1>t, <1>0, <1>1 DEF EngineTypes
    <2>3. evidence' \subseteq IPs
      BY <1>t, <1>0 DEF EngineTypes
    <2>4. QED
      BY <1>t, <1>1, <1>2, <2>1, <2>2, <2>3 DEF EngineTypes, process, kafka
  <1>4. StagesInOrder' /\ CurrentIsLive'
    BY <1>0, <1>1, <1>2
       DEF Inv, StagesInOrder, CurrentIsLive, redis, Bucket!Exists, Bucket!Missing
  <1>5. PassesHaveTokens'
    <2> SUFFICES ASSUME NEW jp \in IPs
                 PROVE  passes'[jp] + Cardinality(Unused(jp)') <= granted'[jp]
      BY DEF PassesHaveTokens
    <2>1. granted'[jp] = granted[jp] /\ passes[jp] \in Nat /\ granted[jp] \in Nat
      BY <1>t, <1>1 DEF EngineTypes, Bucket!TypeOK, redis
    <2>2. Unused(jp) \in SUBSET Handlers /\ passes[jp] + Cardinality(Unused(jp)) <= granted[jp]
      BY DEF Unused, Inv, PassesHaveTokens
    <2>3. Unused(jp)' \subseteq Unused(jp) \ {h}
      BY <1>1, <1>2 DEF Unused, redis
    <2>4. CASE jp = ip /\ d.action # "block" /\ current[h]
      <3>1. ~reply[h].err /\ reply[h].remaining \in Int
        BY <1>t, <2>4 DEF Inv, CurrentIsLive, Bucket!TypeOK
      <3>2. reply[h].remaining >= 0
        BY <1>d, <2>4, <3>1 DEF Exhausted
      <3>3. h \in Unused(jp)
        BY <1>0, <1>1, <2>4, <3>2 DEF Unused
      <3>4. passes'[jp] = passes[jp] + 1
        BY <1>t, <1>0, <1>1, <2>4 DEF EngineTypes
      <3>5. Cardinality(Unused(jp)') + 1 <= Cardinality(Unused(jp))
        BY <2>2, <2>3, <3>3, HandlerSets
      <3>6. Cardinality(Unused(jp)') \in Nat /\ Cardinality(Unused(jp)) \in Nat
        BY <2>2, <2>3, HandlerSets
      <3>7. QED
        BY <2>1, <2>2, <3>4, <3>5, <3>6
    <2>5. CASE ~(jp = ip /\ d.action # "block" /\ current[h])
      <3>1. passes'[jp] = passes[jp]
        BY <1>t, <1>0, <1>1, <2>5 DEF EngineTypes
      <3>2. /\ Cardinality(Unused(jp)') \in Nat /\ Cardinality(Unused(jp)) \in Nat
            /\ Cardinality(Unused(jp)') <= Cardinality(Unused(jp))
        BY <2>2, <2>3, HandlerSets
      <3>3. QED
        BY <2>1, <2>2, <3>1, <3>2
    <2>6. QED
      BY <2>4, <2>5
  <1>6. EvidenceFirst'
    <2>1. evidence \subseteq evidence'
      OBVIOUS
    <2>2. d.action = "block" => ip \in evidence'
      BY <1>0, <1>d, <2>1 DEF Inv, EvidenceFirst
    <2>3. \A g \in Handlers : stage'[g] = "enforce" => target'[g] \in evidence'
      BY <1>0, <1>1, <1>2, <2>1, <2>2 DEF Inv, EvidenceFirst, redis
    <2>4. QED
      BY <1>1, <2>1, <2>3
         DEF Inv, EvidenceFirst, OnlyEvidenceBlocks, Exhausted, redis, kafka, BlockedIPs
  <1>7. RoomLeft'
    <2>1. \A t \in {Decisions, BlockedIPs}, jp \in IPs :
            pending'[t][jp] <= pending[t][jp] /\ ToPublish(t, jp)' \subseteq ToPublish(t, jp)
      BY <1>t, <1>1, <1>2 DEF EngineTypes, ToPublish, redis, kafka
    <2>2. QED
      BY <1>3, <2>1, RoomKept DEF Inv
  <1>8. QED
    BY <1>3, <1>4, <1>5, <1>6, <1>7 DEF Inv

(* The process dies: no handler and no goroutine is left, while the map,   *)
(* the topic and Redis stay as they are.                                   *)
LEMMA DeathInv ==
  ASSUME Inv, BucketInv', Bucket!Crash, Reset, exit' \in {"killed", "panic"},
         UNCHANGED <<dialed, mapOpen, blocked, announced, evidence, passes>>
  PROVE  Inv'
  <1>t. EngineTypes /\ Bucket!TypeOK
    BY DEF Inv, BucketInv
  <1>1. /\ \A h \in Handlers : /\ stage'[h] = "idle" /\ status'[h] = "idle"
                               /\ ~current'[h] /\ target'[h] = NoIP
        /\ UNCHANGED <<tokens, ttl, granted>>
    BY DEF Bucket!Crash, Reset, Bucket!store
  <1>2. \A t \in {Decisions, BlockedIPs}, ip \in IPs : pending'[t][ip] = 0
    BY <1>t DEF Reset, EngineTypes
  <1>3. EngineTypes'
    <2>1. NoDecision \in [action : Actions, retryAfter : 0 .. 120]
      BY DEF NoDecision, Actions
    <2>2. pending' \in [{Decisions, BlockedIPs} -> [IPs -> Nat]]
      BY <1>t DEF Reset, EngineTypes
    <2>3. QED
      BY <1>t, <2>1, <2>2 DEF Reset, EngineTypes
  <1>4. StagesInOrder' /\ CurrentIsLive'
    BY <1>1 DEF StagesInOrder, CurrentIsLive
  <1>5. PassesHaveTokens'
    <2>1. \A ip \in IPs : Unused(ip)' \subseteq Unused(ip)
      BY <1>1 DEF Unused
    <2>2. \A ip \in IPs : passes'[ip] = passes[ip] /\ granted'[ip] >= granted[ip]
      BY <1>t, <1>1 DEF Bucket!TypeOK
    <2>3. QED
      BY <2>1, <2>2, TokensKept DEF Inv
  <1>6. EvidenceFirst'
    BY <1>1, <1>2 DEF Inv, EvidenceFirst, OnlyEvidenceBlocks
  <1>7. RoomLeft'
    <2>1. \A t \in {Decisions, BlockedIPs}, ip \in IPs :
            pending'[t][ip] <= pending[t][ip] /\ ToPublish(t, ip)' \subseteq ToPublish(t, ip)
      BY <1>t, <1>1, <1>2, EngineAssumption DEF EngineTypes, ToPublish
    <2>2. QED
      BY <1>3, <2>1, RoomKept DEF Inv
  <1>8. QED
    BY <1>3, <1>4, <1>5, <1>6, <1>7 DEF Inv

(* The block is enforced: the goroutine it starts had its place.           *)
LEMMA EnforceInv ==
  ASSUME Inv, BucketInv', NEW h \in Handlers, Enforce(h)
  PROVE  Inv'
  <1>t. EngineTypes /\ Bucket!TypeOK
    BY DEF Inv, BucketInv
  <1>0. PICK ip \in IPs : ip = target[h]
    BY <1>t DEF Enforce, Inv, StagesInOrder, Bucket!TypeOK
  <1>1. /\ stage[h] = "enforce" /\ status[h] = "returned" /\ ip \in evidence
        /\ pending' = [pending EXCEPT ![BlockedIPs][ip] = @ + 1]
        /\ stage' = [stage EXCEPT ![h] = "publish"]
        /\ UNCHANGED <<redis, decision, process, announced, history>>
    BY <1>0 DEF Enforce, Inv, StagesInOrder, EvidenceFirst
  <1>2. blocked' \subseteq blocked \cup {ip}
    BY <1>0 DEF Enforce, Add
  <1>3. /\ stage'[h] = "publish" /\ \A g \in Handlers : g # h => stage'[g] = stage[g]
        /\ stage' \in [Handlers -> {"idle", "redis", "ml", "enforce", "publish"}]
    BY <1>t, <1>1 DEF EngineTypes
  <1>4. /\ pending' \in [{Decisions, BlockedIPs} -> [IPs -> Nat]]
        /\ pending'[BlockedIPs][ip] = pending[BlockedIPs][ip] + 1
        /\ \A jp \in IPs : /\ pending'[Decisions][jp] = pending[Decisions][jp]
                           /\ jp # ip => pending'[BlockedIPs][jp] = pending[BlockedIPs][jp]
    BY <1>t, <1>1 DEF EngineTypes, Decisions, BlockedIPs
  <1>5. EngineTypes'
    BY <1>t, <1>1, <1>2, <1>3, <1>4 DEF EngineTypes, process, history
  <1>6. StagesInOrder' /\ CurrentIsLive'
    BY <1>1, <1>3
       DEF Inv, StagesInOrder, CurrentIsLive, redis, history, Bucket!Exists, Bucket!Missing
  <1>7. PassesHaveTokens'
    <2>1. \A jp \in IPs : Unused(jp)' \subseteq Unused(jp)
      BY <1>1, <1>3 DEF Unused, redis, history
    <2>2. \A jp \in IPs : passes'[jp] = passes[jp] /\ granted'[jp] >= granted[jp]
      BY <1>t, <1>1 DEF redis, history, Bucket!TypeOK
    <2>3. QED
      BY <2>1, <2>2, TokensKept DEF Inv
  <1>8. EvidenceFirst'
    <2>1. OnlyEvidenceBlocks'
      BY <1>1, <1>2 DEF Inv, EvidenceFirst, OnlyEvidenceBlocks, history
    <2>2. \A jp \in IPs : pending'[BlockedIPs][jp] > 0 => jp \in evidence'
      BY <1>1, <1>4 DEF Inv, EvidenceFirst, history
    <2>3. QED
      BY <1>1, <1>3, <2>1, <2>2 DEF Inv, EvidenceFirst, Exhausted, redis, history
  <1>9. RoomLeft'
    <2> SUFFICES ASSUME NEW t \in {Decisions, BlockedIPs}, NEW jp \in IPs
                 PROVE  pending'[t][jp] + Cardinality(ToPublish(t, jp)') <= MaxPending
      BY DEF RoomLeft, Decisions, BlockedIPs
    <2>1. /\ pending[t][jp] \in Nat
          /\ ToPublish(t, jp) \in SUBSET Handlers
          /\ pending[t][jp] + Cardinality(ToPublish(t, jp)) <= MaxPending
      BY <1>t DEF EngineTypes, ToPublish, Inv, RoomLeft
    <2>2. CASE t = BlockedIPs /\ jp = ip
      <3>1. h \in ToPublish(t, jp) /\ ToPublish(t, jp)' \subseteq ToPublish(t, jp) \ {h}
        BY <1>0, <1>1, <1>3, <2>2 DEF ToPublish, redis
      <3>2. /\ Cardinality(ToPublish(t, jp)') + 1 <= Cardinality(ToPublish(t, jp))
            /\ Cardinality(ToPublish(t, jp)') \in Nat /\ Cardinality(ToPublish(t, jp)) \in Nat
        BY <2>1, <3>1, HandlerSets
      <3>3. pending'[t][jp] = pending[t][jp] + 1
        BY <1>4, <2>2
      <3>4. QED
        BY <2>1, <3>2, <3>3, EngineAssumption
    <2>3. CASE ~(t = BlockedIPs /\ jp = ip)
      <3>1. ToPublish(t, jp)' \subseteq ToPublish(t, jp)
        BY <1>1, <1>3 DEF ToPublish, redis
      <3>2. /\ Cardinality(ToPublish(t, jp)') <= Cardinality(ToPublish(t, jp))
            /\ Cardinality(ToPublish(t, jp)') \in Nat /\ Cardinality(ToPublish(t, jp)) \in Nat
        BY <2>1, <3>1, HandlerSets
      <3>3. pending'[t][jp] = pending[t][jp]
        BY <1>4, <2>3
      <3>4. QED
        BY <2>1, <3>2, <3>3, EngineAssumption
    <2>4. QED
      BY <2>2, <2>3
  <1>10. QED
    BY <1>5, <1>6, <1>7, <1>8, <1>9 DEF Inv

(* Evaluate returns: the decision's goroutine takes the handler's place.   *)
LEMMA ReturnInv ==
  ASSUME Inv, BucketInv', NEW h \in Handlers, Return(h)
  PROVE  Inv'
  <1>t. EngineTypes /\ Bucket!TypeOK
    BY DEF Inv, BucketInv
  <1>0. PICK ip \in IPs : ip = target[h]
    BY <1>t DEF Return, Inv, StagesInOrder, Bucket!TypeOK
  <1>1. /\ stage[h] = "publish"
        /\ pending' = [pending EXCEPT ![Decisions][ip] = @ + 1]
        /\ stage' = [stage EXCEPT ![h] = "idle"]
        /\ decision' = [decision EXCEPT ![h] = NoDecision]
        /\ current' = [current EXCEPT ![h] = FALSE]
        /\ UNCHANGED <<process, blocked, announced, evidence, passes, tokens, ttl, granted>>
    BY <1>0 DEF Return, Bucket!Finish, Bucket!store
  <1>3. /\ stage'[h] = "idle" /\ status'[h] = "idle" /\ ~current'[h] /\ target'[h] = NoIP
        /\ ~Exhausted(reply'[h])
        /\ \A g \in Handlers : g # h => /\ stage'[g] = stage[g] /\ status'[g] = status[g]
                                        /\ current'[g] = current[g] /\ target'[g] = target[g]
                                        /\ reply'[g] = reply[g]
    BY <1>t, <1>1
       DEF Return, Bucket!Finish, EngineTypes, Bucket!TypeOK, Exhausted, Bucket!NoReply
  <1>4. /\ pending' \in [{Decisions, BlockedIPs} -> [IPs -> Nat]]
        /\ pending'[Decisions][ip] = pending[Decisions][ip] + 1
        /\ \A jp \in IPs : /\ pending'[BlockedIPs][jp] = pending[BlockedIPs][jp]
                           /\ jp # ip => pending'[Decisions][jp] = pending[Decisions][jp]
    BY <1>t, <1>1 DEF EngineTypes, Decisions, BlockedIPs
  <1>5. EngineTypes'
    <2>1. NoDecision \in [action : Actions, retryAfter : 0 .. 120]
      BY DEF NoDecision, Actions
    <2>2. decision' \in [Handlers -> [action : Actions, retryAfter : 0 .. 120]]
      BY <1>t, <1>1, <2>1 DEF EngineTypes
    <2>3. QED
      BY <1>t, <1>1, <1>4, <2>2 DEF EngineTypes, process
  <1>6. StagesInOrder' /\ CurrentIsLive'
    BY <1>1, <1>3 DEF Inv, StagesInOrder, CurrentIsLive, Bucket!Exists, Bucket!Missing
  <1>7. PassesHaveTokens'
    <2>1. \A jp \in IPs : Unused(jp)' \subseteq Unused(jp)
      BY <1>1, <1>3 DEF Unused
    <2>2. \A jp \in IPs : passes'[jp] = passes[jp] /\ granted'[jp] >= granted[jp]
      BY <1>t, <1>1 DEF Bucket!TypeOK
    <2>3. QED
      BY <2>1, <2>2, TokensKept DEF Inv
  <1>8. EvidenceFirst'
    BY <1>1, <1>3, <1>4 DEF Inv, EvidenceFirst, OnlyEvidenceBlocks
  <1>9. RoomLeft'
    <2> SUFFICES ASSUME NEW t \in {Decisions, BlockedIPs}, NEW jp \in IPs
                 PROVE  pending'[t][jp] + Cardinality(ToPublish(t, jp)') <= MaxPending
      BY DEF RoomLeft, Decisions, BlockedIPs
    <2>1. /\ pending[t][jp] \in Nat
          /\ ToPublish(t, jp) \in SUBSET Handlers
          /\ pending[t][jp] + Cardinality(ToPublish(t, jp)) <= MaxPending
      BY <1>t DEF EngineTypes, ToPublish, Inv, RoomLeft
    <2>n. jp # NoIP
      BY EngineAssumption
    <2>2. CASE t = Decisions /\ jp = ip
      <3>1. h \in ToPublish(t, jp) /\ ToPublish(t, jp)' \subseteq ToPublish(t, jp) \ {h}
        BY <1>0, <1>3, <2>2, <2>n DEF ToPublish, Decisions, BlockedIPs
      <3>2. /\ Cardinality(ToPublish(t, jp)') + 1 <= Cardinality(ToPublish(t, jp))
            /\ Cardinality(ToPublish(t, jp)') \in Nat /\ Cardinality(ToPublish(t, jp)) \in Nat
        BY <2>1, <3>1, HandlerSets
      <3>3. pending'[t][jp] = pending[t][jp] + 1
        BY <1>4, <2>2
      <3>4. QED
        BY <2>1, <3>2, <3>3, EngineAssumption
    <2>3. CASE ~(t = Decisions /\ jp = ip)
      <3>1. ToPublish(t, jp)' \subseteq ToPublish(t, jp)
        BY <1>1, <1>3, <2>n DEF ToPublish
      <3>2. /\ Cardinality(ToPublish(t, jp)') <= Cardinality(ToPublish(t, jp))
            /\ Cardinality(ToPublish(t, jp)') \in Nat /\ Cardinality(ToPublish(t, jp)) \in Nat
        BY <2>1, <3>1, HandlerSets
      <3>3. pending'[t][jp] = pending[t][jp]
        BY <1>4, <2>3
      <3>4. QED
        BY <2>1, <3>2, <3>3, EngineAssumption
    <2>4. QED
      BY <2>2, <2>3
  <1>10. QED
    BY <1>5, <1>6, <1>7, <1>8, <1>9 DEF Inv

(* Steps that leave Redis and Evaluate alone: a goroutine that publishes,  *)
(* the operator's handlers, a start, a stutter.                            *)
LEMMA AsideInv ==
  ASSUME Inv, BucketInv', EngineTypes', UNCHANGED <<redis, stage, current, passes>>,
         OnlyEvidenceBlocks', evidence \subseteq evidence',
         \A t \in {Decisions, BlockedIPs}, ip \in IPs : pending'[t][ip] <= pending[t][ip]
  PROVE  Inv'
  <1>t. EngineTypes /\ Bucket!TypeOK
    BY DEF Inv, BucketInv
  <1>1. StagesInOrder' /\ CurrentIsLive'
    BY DEF Inv, StagesInOrder, CurrentIsLive, redis, Bucket!Exists, Bucket!Missing
  <1>2. PassesHaveTokens'
    <2>1. \A ip \in IPs : Unused(ip)' \subseteq Unused(ip)
      BY DEF Unused, redis
    <2>2. \A ip \in IPs : passes'[ip] = passes[ip] /\ granted'[ip] >= granted[ip]
      BY <1>t DEF redis, Bucket!TypeOK
    <2>3. QED
      BY <2>1, <2>2, TokensKept DEF Inv
  <1>3. EvidenceFirst'
    <2>1. \A h \in Handlers :
            /\ stage'[h] = "enforce" => target'[h] \in evidence'
            /\ status'[h] \in {"executed", "returned"} /\ Exhausted(reply[h])'
                 => target'[h] \in evidence'
      BY DEF Inv, EvidenceFirst, Exhausted, redis
    <2>2. \A ip \in IPs : pending'[BlockedIPs][ip] > 0 => ip \in evidence'
      <3>1. \A ip \in IPs : /\ pending[BlockedIPs][ip] \in Nat
                            /\ pending'[BlockedIPs][ip] \in Nat
        BY <1>t DEF EngineTypes
      <3>2. QED
        BY <3>1 DEF Inv, EvidenceFirst
    <2>3. QED
      BY <2>1, <2>2 DEF EvidenceFirst, BlockedIPs
  <1>4. RoomLeft'
    <2>1. \A t \in {Decisions, BlockedIPs}, ip \in IPs :
            ToPublish(t, ip)' \subseteq ToPublish(t, ip)
      BY DEF ToPublish, redis
    <2>2. QED
      BY <2>1, RoomKept DEF Inv
  <1>5. QED
    BY <1>1, <1>2, <1>3, <1>4 DEF Inv

(* A goroutine ends; what it writes has its evidence.                      *)
LEMMA PublishInv ==
  ASSUME Inv, BucketInv', NEW t \in DOMAIN pending, NEW ip \in IPs, Publish(t, ip)
  PROVE  Inv'
  <1>t. EngineTypes
    BY DEF Inv
  <1>0. t \in {Decisions, BlockedIPs}
    BY <1>t DEF EngineTypes
  <1>1. /\ pending[t][ip] > 0 /\ pending' = [pending EXCEPT ![t][ip] = @ - 1]
        /\ announced' = announced \/ (t = BlockedIPs /\ announced' = announced \cup {ip})
        /\ UNCHANGED <<redis, stage, decision, process, blocked, history>>
    BY DEF Publish
  <1>2. /\ pending' \in [{Decisions, BlockedIPs} -> [IPs -> Nat]]
        /\ \A u \in {Decisions, BlockedIPs}, jp \in IPs : pending'[u][jp] <= pending[u][jp]
    BY <1>t, <1>0, <1>1 DEF EngineTypes
  <1>3. EngineTypes'
    BY <1>t, <1>1, <1>2 DEF EngineTypes, process, history
  <1>4. OnlyEvidenceBlocks' /\ evidence \subseteq evidence'
    BY <1>1 DEF Inv, EvidenceFirst, OnlyEvidenceBlocks, history
  <1>5. QED
    BY <1>1, <1>2, <1>3, <1>4, AsideInv DEF history

(* The operator blocks or unblocks an address, or the process starts.      *)
LEMMA OperatorInv ==
  ASSUME Inv, BucketInv',
         (\E ip \in IPs : HandleBlock(ip) \/ HandleUnblock(ip)) \/ Start \/ UNCHANGED vars
  PROVE  Inv'
  <1>t. EngineTypes
    BY DEF Inv
  <1>p. \A t \in {Decisions, BlockedIPs}, ip \in IPs : pending[t][ip] \in Nat
    BY <1>t DEF EngineTypes
  <1>e. blocked \cup announced \subseteq evidence
    BY DEF Inv, EvidenceFirst, OnlyEvidenceBlocks
  <1>1. ASSUME NEW ip \in IPs, HandleBlock(ip) PROVE Inv'
    <2>1. EngineTypes' /\ OnlyEvidenceBlocks' /\ evidence \subseteq evidence'
      BY <1>1, <1>t, <1>e
         DEF HandleBlock, Accuse, EngineTypes, OnlyEvidenceBlocks, process, kafka
    <2>2. QED
      BY <1>1, <1>p, <2>1, AsideInv DEF HandleBlock, kafka
  <1>2. ASSUME NEW ip \in IPs, HandleUnblock(ip) PROVE Inv'
    <2>1. EngineTypes' /\ OnlyEvidenceBlocks' /\ evidence \subseteq evidence'
      BY <1>2, <1>t, <1>e
         DEF HandleUnblock, EngineTypes, OnlyEvidenceBlocks, process, kafka
    <2>2. QED
      BY <1>2, <1>p, <2>1, AsideInv DEF HandleUnblock, kafka
  <1>3. CASE Start
    <2>1. EngineTypes' /\ OnlyEvidenceBlocks' /\ evidence \subseteq evidence'
      BY <1>3, <1>t, <1>e DEF Start, EngineTypes, OnlyEvidenceBlocks, kafka, history
    <2>2. QED
      BY <1>3, <1>p, <2>1, AsideInv DEF Start, kafka, history
  <1>4. CASE UNCHANGED vars
    <2>1. EngineTypes' /\ OnlyEvidenceBlocks' /\ evidence \subseteq evidence'
      BY <1>4, <1>t, <1>e DEF vars, EngineTypes, OnlyEvidenceBlocks, process, kafka, history
    <2>2. QED
      BY <1>4, <1>p, <2>1, AsideInv DEF vars, kafka, history
  <1>5. QED
    BY <1>1, <1>2, <1>3, <1>4

(* Redis loses keys: nobody holds a token of the bucket of now any more.   *)
LEMMA KeysVanishInv ==
  ASSUME Inv, BucketInv', KeysVanish
  PROVE  Inv'
  <1> USE DEF Bucket!Missing
  <1>t. EngineTypes /\ Bucket!TypeOK /\ Bucket!TypeOK' /\ Bucket!BucketConserved'
    BY DEF Inv, BucketInv
  <1>1. /\ current' = [h \in Handlers |-> current[h] /\ ttl'[target[h]] # -2]
        /\ passes' = [ip \in IPs |-> IF ttl'[ip] = -2 THEN 0 ELSE passes[ip]]
        /\ UNCHANGED <<stage, decision, process, blocked, kafka, evidence>>
    BY DEF KeysVanish
  <1>2. UNCHANGED <<status, target, reply>>
    BY DEF KeysVanish, Bucket!Tick, Bucket!Evict, Bucket!calls
  <1>3. \A ip \in IPs : ttl'[ip] # -2 => granted'[ip] = granted[ip]
    <2>1. ASSUME NEW jp \in IPs, Bucket!Evict(jp), NEW ip \in IPs, ttl'[ip] # -2
          PROVE  granted'[ip] = granted[ip]
      BY <2>1, <1>t DEF Bucket!Evict, Bucket!Forget, Bucket!TypeOK
    <2>2. ASSUME Bucket!Tick, NEW ip \in IPs, ttl'[ip] # -2
          PROVE  granted'[ip] = granted[ip]
      BY <2>2 DEF Bucket!Tick, Bucket!Forget
    <2>3. QED
      BY <2>1, <2>2 DEF KeysVanish
  <1>4. \A ip \in IPs : ttl'[ip] = -2 => granted'[ip] = 0
    BY <1>t DEF Bucket!BucketConserved, Bucket!Exists
  <1>5. EngineTypes'
    <2>1. current' \in [Handlers -> BOOLEAN] /\ passes' \in [IPs -> Nat]
      BY <1>t, <1>1 DEF EngineTypes
    <2>2. QED
      BY <1>t, <1>1, <2>1 DEF EngineTypes, process, kafka
  <1>6. \A h \in Handlers : current'[h] => current[h] /\ ttl'[target[h]] # -2
    BY <1>1
  <1>7. StagesInOrder' /\ CurrentIsLive'
    BY <1>1, <1>2, <1>6 DEF Inv, StagesInOrder, CurrentIsLive, Bucket!Exists
  <1>8. PassesHaveTokens'
    <2> SUFFICES ASSUME NEW ip \in IPs
                 PROVE  passes'[ip] + Cardinality(Unused(ip)') <= granted'[ip]
      BY DEF PassesHaveTokens
    <2>1. CASE ttl'[ip] = -2
      <3>1. Unused(ip)' = {}
        BY <1>2, <1>6, <2>1 DEF Unused
      <3>2. QED
        BY <1>1, <1>4, <2>1, <3>1, FS_EmptySet
    <2>2. CASE ttl'[ip] # -2
      <3>1. Unused(ip)' \subseteq Unused(ip) /\ Unused(ip) \in SUBSET Handlers
        BY <1>1, <1>2, <1>6 DEF Unused
      <3>2. /\ Cardinality(Unused(ip)') \in Nat /\ Cardinality(Unused(ip)) \in Nat
            /\ Cardinality(Unused(ip)') <= Cardinality(Unused(ip))
        BY <3>1, HandlerSets
      <3>3. /\ passes'[ip] = passes[ip] /\ granted'[ip] = granted[ip]
            /\ passes[ip] \in Nat /\ granted[ip] \in Nat
        BY <1>t, <1>1, <1>3, <2>2 DEF EngineTypes, Bucket!TypeOK
      <3>4. QED
        BY <3>2, <3>3 DEF Inv, PassesHaveTokens
    <2>3. QED
      BY <2>1, <2>2
  <1>9. EvidenceFirst'
    BY <1>1, <1>2 DEF Inv, EvidenceFirst, OnlyEvidenceBlocks, Exhausted, kafka
  <1>10. RoomLeft'
    <2>1. \A t \in {Decisions, BlockedIPs}, ip \in IPs :
            pending'[t][ip] <= pending[t][ip] /\ ToPublish(t, ip)' \subseteq ToPublish(t, ip)
      BY <1>t, <1>1, <1>2 DEF EngineTypes, ToPublish, kafka
    <2>2. QED
      BY <1>5, <2>1, RoomKept DEF Inv
  <1>11. QED
    BY <1>5, <1>7, <1>8, <1>9, <1>10 DEF Inv

-----------------------------------------------------------------------------
(* The results                                                             *)

(* Every step of the engine is a step of the bucket, or leaves it alone.   *)
LEMMA BucketStep ==
  ASSUME Next \/ UNCHANGED vars
  PROVE  Bucket!Next \/ UNCHANGED redis
  <1>1. ASSUME NEW h \in Handlers, NEW ip \in IPs, Evaluate(h, ip) PROVE Bucket!Next
    BY <1>1 DEF Evaluate, Bucket!Next
  <1>2. ASSUME NEW h \in Handlers, RunScript(h) PROVE Bucket!Next
    BY <1>2 DEF RunScript, Bucket!Next
  <1>3. ASSUME NEW h \in Handlers, NEW s, Conclude(h, s) PROVE UNCHANGED redis
    BY <1>3 DEF Conclude
  <1>4. ASSUME NEW h \in Handlers, CallScore(h) \/ Enforce(h) PROVE UNCHANGED redis
    BY <1>4 DEF CallScore, Enforce
  <1>5. ASSUME NEW h \in Handlers, ScorePanics(h) PROVE Bucket!Next
    BY <1>5 DEF ScorePanics, Bucket!Next
  <1>6. ASSUME NEW h \in Handlers, Return(h) PROVE Bucket!Next
    BY <1>6 DEF Return, Bucket!Next
  <1>7. ASSUME NEW t, NEW ip \in IPs, Publish(t, ip) PROVE UNCHANGED redis
    BY <1>7 DEF Publish
  <1>8. ASSUME NEW ip \in IPs, HandleBlock(ip) \/ HandleUnblock(ip) PROVE UNCHANGED redis
    BY <1>8 DEF HandleBlock, HandleUnblock
  <1>9. CASE RedisCall
    BY <1>9 DEF RedisCall, Bucket!Next
  <1>10. CASE KeysVanish
    BY <1>10 DEF KeysVanish, Bucket!Next
  <1>11. CASE Killed
    BY <1>11 DEF Killed, Bucket!Next
  <1>12. CASE Start
    BY <1>12 DEF Start
  <1>13. CASE UNCHANGED vars
    BY <1>13 DEF vars
  <1>14. QED
    BY <1>1, <1>2, <1>3, <1>4, <1>5, <1>6, <1>7, <1>8, <1>9, <1>10, <1>11, <1>12, <1>13
       DEF Next, ScoreReturns, ScoreFails

(* Every step keeps the invariant.                                         *)
LEMMA NextInv ==
  ASSUME Inv, Next \/ UNCHANGED vars
  PROVE  Inv'
  <1>b. BucketInv'
    BY BucketStep, BucketNextInv DEF Inv
  <1>1. ASSUME NEW h \in Handlers, NEW ip \in IPs, Evaluate(h, ip) PROVE Inv'
    BY <1>b, <1>1, EvaluateInv
  <1>2. ASSUME NEW h \in Handlers, NEW s \in Scores, ScoreReturns(h, s) PROVE Inv'
    BY <1>b, <1>2, ConcludeInv, EngineAssumption DEF ScoreReturns, Accuse
  <1>3. ASSUME NEW h \in Handlers, ScoreFails(h) PROVE Inv'
    <2>1. ~(0 > BlockThreshold) /\ 0 \in 0 .. 100
      BY EngineAssumption
    <2>2. evidence' = IF 0 > BlockThreshold THEN evidence \cup {target[h]} ELSE evidence
      BY <1>3, <2>1 DEF ScoreFails
    <2>3. QED
      BY <1>b, <1>3, <2>1, <2>2, ConcludeInv DEF ScoreFails
  <1>4. ASSUME NEW h \in Handlers, ScorePanics(h) PROVE Inv'
    BY <1>b, <1>4, DeathInv DEF ScorePanics
  <1>5. CASE Killed
    BY <1>b, <1>5, DeathInv DEF Killed
  <1>6. QED
    BY <1>b, <1>1, <1>2, <1>3, <1>4, <1>5, RunScriptInv, CallScoreInv, EnforceInv, ReturnInv,
       PublishInv, OperatorInv, RedisCallInv, KeysVanishInv DEF Next

(* Every reachable state satisfies the invariant.                          *)
LEMMA Invariant == Spec => []Inv
  <1>1. Inv /\ [Next]_vars => Inv'
    BY NextInv
  <1>2. QED
    BY <1>1, InitInv, PTL DEF Spec

(* Steps that pardon nobody and give no evaluation anything new in hand    *)
(* against an address that is still pardoned.                              *)
LEMMA PardonsKept ==
  ASSUME Pardons, pardoned' \subseteq pardoned,
         \A ip \in blocked' : ip \in blocked \/ ip \notin pardoned',
         \A h \in Handlers : Holds(h)' => \/ Holds(h) /\ target'[h] = target[h]
                                         \/ target'[h] \notin pardoned'
  PROVE  Pardons'
  BY DEF Pardons, PardonHolds

(* Every step keeps the pardons: an evaluation gets something in hand only *)
(* by a refusal or a score, which end the pardon, and only what it has in  *)
(* hand reaches the map.                                                   *)
LEMMA PardonsNext ==
  ASSUME Inv, Pardons, Next \/ UNCHANGED vars
  PROVE  Pardons'
  <1>t. EngineTypes /\ Bucket!TypeOK /\ StagesInOrder
    BY DEF Inv, BucketInv
  <1>1. ASSUME NEW h \in Handlers, NEW ip \in IPs, Evaluate(h, ip) PROVE Pardons'
    <2>1. /\ stage'[h] = "redis" /\ status'[h] = "sent"
          /\ \A g \in Handlers : g # h => /\ stage'[g] = stage[g] /\ status'[g] = status[g]
                                          /\ target'[g] = target[g]
          /\ UNCHANGED <<reply, blocked, pardoned>>
      BY <1>1, <1>t DEF Evaluate, Bucket!Decrement, EngineTypes, Bucket!TypeOK, history
    <2>2. QED
      BY <2>1, PardonsKept DEF Holds, Exhausted
  <1>2. ASSUME NEW h \in Handlers, RunScript(h) PROVE Pardons'
    <2>1. /\ pardoned' = IF Exhausted(reply'[h]) THEN pardoned \ {target[h]} ELSE pardoned
          /\ \A g \in Handlers : g # h => status'[g] = status[g] /\ reply'[g] = reply[g]
          /\ stage[h] \notin {"ml", "enforce", "publish"}
          /\ UNCHANGED <<stage, target, blocked>>
      BY <1>2, <1>t DEF RunScript, Accuse, Bucket!Execute, Bucket!TypeOK, StagesInOrder
    <2>2. Holds(h)' => target'[h] \notin pardoned'
      BY <2>1 DEF Holds, Exhausted
    <2>3. QED
      BY <2>1, <2>2, PardonsKept DEF Holds, Exhausted
  <1>3. ASSUME NEW h \in Handlers, NEW s \in 0 .. 100, Conclude(h, s),
               pardoned' = IF s > BlockThreshold THEN pardoned \ {target[h]} ELSE pardoned
        PROVE  Pardons'
    <2>1. /\ stage[h] = "ml" /\ status[h] = "returned"
          /\ stage'[h] = "enforce" => s > BlockThreshold \/ Exhausted(reply[h])
          /\ stage'[h] \in {"enforce", "publish"}
          /\ \A g \in Handlers : g # h => stage'[g] = stage[g]
          /\ UNCHANGED <<status, reply, target, blocked>>
      <3>1. Exhausted(reply[h]) \in BOOLEAN
        BY DEF Exhausted
      <3>2. QED
        BY <1>3, <1>t, <3>1, DecideFacts
           DEF Conclude, Enforced, EngineTypes, StagesInOrder, redis
    <2>2. Holds(h)' => Holds(h) \/ target'[h] \notin pardoned'
      BY <1>3, <2>1 DEF Holds, Exhausted
    <2>3. QED
      BY <1>3, <2>1, <2>2, PardonsKept DEF Holds, Exhausted
  <1>4. ASSUME NEW h \in Handlers, CallScore(h) PROVE Pardons'
    <2>1. /\ stage[h] = "redis" /\ stage'[h] = "ml"
          /\ \A g \in Handlers : g # h => stage'[g] = stage[g]
          /\ UNCHANGED <<status, reply, target, blocked, pardoned>>
      BY <1>4, <1>t DEF CallScore, EngineTypes, redis, history
    <2>2. QED
      BY <2>1, PardonsKept DEF Holds, Exhausted
  <1>5. ASSUME NEW h \in Handlers, Enforce(h) PROVE Pardons'
    <2>1. /\ Holds(h) /\ stage'[h] = "publish" /\ blocked' \subseteq blocked \cup {target[h]}
          /\ \A g \in Handlers : g # h => stage'[g] = stage[g]
          /\ UNCHANGED <<status, reply, target, pardoned>>
      BY <1>5, <1>t DEF Enforce, Add, Holds, EngineTypes, redis, history
    <2>2. target[h] \notin pardoned
      BY <2>1 DEF Pardons
    <2>3. QED
      BY <2>1, <2>2, PardonsKept DEF Holds, Exhausted
  <1>6. ASSUME NEW h \in Handlers, Return(h) PROVE Pardons'
    <2>1. /\ stage'[h] = "idle"
          /\ \A g \in Handlers : g # h => /\ stage'[g] = stage[g] /\ status'[g] = status[g]
                                          /\ target'[g] = target[g] /\ reply'[g] = reply[g]
          /\ UNCHANGED <<blocked, pardoned>>
      BY <1>6, <1>t DEF Return, Bucket!Finish, EngineTypes, Bucket!TypeOK
    <2>2. QED
      BY <2>1, PardonsKept DEF Holds, Exhausted
  <1>7. ASSUME Reset, UNCHANGED <<blocked, pardoned>> PROVE Pardons'
    <2>1. \A h \in Handlers : stage'[h] = "idle"
      BY <1>7 DEF Reset
    <2>2. QED
      BY <1>7, <2>1, PardonsKept DEF Holds
  <1>8. ASSUME NEW ip \in IPs, HandleBlock(ip) PROVE Pardons'
    <2>1. /\ blocked' = blocked \cup {ip} /\ pardoned' = pardoned \ {ip}
          /\ UNCHANGED <<stage, status, reply, target>>
      BY <1>8 DEF HandleBlock, Accuse, redis
    <2>2. QED
      BY <2>1, PardonsKept DEF Holds, Exhausted
  <1>9. ASSUME NEW ip \in IPs, HandleUnblock(ip) PROVE Pardons'
    <2>1. /\ blocked' = blocked \ {ip}
          /\ pardoned' = IF \E h \in Handlers : target[h] = ip /\ Holds(h)
                           THEN pardoned ELSE pardoned \cup {ip}
          /\ UNCHANGED <<stage, status, reply, target>>
      BY <1>9 DEF HandleUnblock, redis
    <2>2. \A h \in Handlers : Holds(h)' <=> Holds(h)
      BY <2>1 DEF Holds, Exhausted
    <2>3. QED
      BY <2>1, <2>2 DEF Pardons, PardonHolds
  <1>10. CASE RedisCall
    <2>1. UNCHANGED <<stage, blocked, pardoned>>
      BY <1>10 DEF RedisCall
    <2>2. ASSUME NEW h \in Handlers, Bucket!Retry(h) \/ Bucket!GiveUp(h) PROVE Pardons'
      <3>1. /\ ~Exhausted(reply'[h]) /\ target' = target
            /\ status[h] \in {"sent", "executed"} /\ stage[h] # "enforce"
            /\ \A g \in Handlers : g # h => status'[g] = status[g] /\ reply'[g] = reply[g]
        BY <2>2, <1>t
           DEF Bucket!Retry, Bucket!GiveUp, Bucket!Waiting, Bucket!TypeOK, StagesInOrder,
               Bucket!NoReply, Bucket!ErrReply, Exhausted
      <3>2. QED
        BY <2>1, <3>1, PardonsKept DEF Holds, Exhausted
    <2>3. ASSUME NEW h \in Handlers, Bucket!Receive(h) PROVE Pardons'
      <3>1. /\ status[h] = "executed" /\ reply' = reply /\ target' = target
            /\ \A g \in Handlers : g # h => status'[g] = status[g]
        BY <2>3, <1>t DEF Bucket!Receive, Bucket!TypeOK
      <3>2. QED
        BY <2>1, <3>1, PardonsKept DEF Holds, Exhausted
    <2>4. ASSUME NEW ip \in IPs, Bucket!ExecuteOrphan(ip) PROVE Pardons'
      <3>1. UNCHANGED <<status, target, reply>>
        BY <2>4 DEF Bucket!ExecuteOrphan, Bucket!calls
      <3>2. QED
        BY <2>1, <3>1, PardonsKept DEF Holds, Exhausted
    <2>5. QED
      BY <1>10, <2>2, <2>3, <2>4 DEF RedisCall
  <1>11. ASSUME UNCHANGED <<stage, status, target, reply, blocked, pardoned>> PROVE Pardons'
    BY <1>11, PardonsKept DEF Holds, Exhausted
  <1>12. CASE KeysVanish
    <2>1. UNCHANGED <<status, target, reply>>
      BY <1>12 DEF KeysVanish, Bucket!Tick, Bucket!Evict, Bucket!calls
    <2>2. QED
      BY <1>11, <1>12, <2>1 DEF KeysVanish
  <1>13. ASSUME NEW h \in Handlers, NEW s \in Scores, ScoreReturns(h, s) PROVE Pardons'
    BY <1>3, <1>13, EngineAssumption DEF ScoreReturns, Accuse
  <1>14. ASSUME NEW h \in Handlers, ScoreFails(h) PROVE Pardons'
    <2>1. ~(0 > BlockThreshold) /\ 0 \in 0 .. 100
      BY EngineAssumption
    <2>2. pardoned' = IF 0 > BlockThreshold THEN pardoned \ {target[h]} ELSE pardoned
      BY <1>14, <2>1 DEF ScoreFails
    <2>3. QED
      BY <1>3, <1>14, <2>1, <2>2 DEF ScoreFails
  <1>15. ASSUME NEW t, NEW ip \in IPs, Publish(t, ip) PROVE Pardons'
    BY <1>11, <1>15 DEF Publish, redis, history
  <1>16. CASE Start \/ UNCHANGED vars
    BY <1>11, <1>16 DEF Start, vars, redis, history
  <1>17. CASE Killed \/ \E h \in Handlers : ScorePanics(h)
    BY <1>7, <1>17 DEF Killed, ScorePanics
  <1>18. QED
    BY <1>1, <1>2, <1>4, <1>5, <1>6, <1>8, <1>9, <1>10, <1>12, <1>13, <1>14, <1>15, <1>16,
       <1>17 DEF Next

(* In every reachable state the pardons hold.                              *)
LEMMA PardonInvariant == Spec => []Pardons
  <1>1. Init => Pardons
    BY DEF Init, Pardons, PardonHolds, Holds
  <1>2. Inv /\ Pardons /\ [Next]_vars => Pardons'
    BY PardonsNext
  <1>3. QED
    BY <1>1, <1>2, Invariant, PTL DEF Spec

(* Every variable of the engine keeps its type; in particular, at most     *)
(* MaxPending goroutines per topic and address are ever under way, and a   *)
(* handler is idle exactly when its Decrement is.                          *)
THEOREM TypeCorrect == Spec => []TypeOK
  <1>1. Inv /\ Pardons => TypeOK
    <2> SUFFICES ASSUME Inv, Pardons PROVE TypeOK
      OBVIOUS
    <2>1. EngineTypes /\ Bucket!TypeOK /\ StagesInOrder /\ pardoned \subseteq IPs
      BY DEF Inv, BucketInv, Pardons
    <2>2. ASSUME NEW t \in {Decisions, BlockedIPs}, NEW ip \in IPs
          PROVE  pending[t][ip] \in 0 .. MaxPending
      <3>1. ToPublish(t, ip) \in SUBSET Handlers
        BY DEF ToPublish
      <3>2. Cardinality(ToPublish(t, ip)) \in Nat
        BY <3>1, HandlerSets
      <3>3. pending[t][ip] \in Nat /\ pending[t][ip] + Cardinality(ToPublish(t, ip)) <= MaxPending
        BY <2>1 DEF EngineTypes, Inv, RoomLeft
      <3>4. QED
        BY <3>2, <3>3, EngineAssumption
    <2>3. pending \in [{Decisions, BlockedIPs} -> [IPs -> 0 .. MaxPending]]
      BY <2>1, <2>2 DEF EngineTypes
    <2>4. QED
      BY <2>1, <2>3 DEF EngineTypes, StagesInOrder, TypeOK
  <1>2. QED
    BY <1>1, Invariant, PardonInvariant, PTL

(* Failures never block: whatever Redis, the sidecar, retries and restarts *)
(* do, only an address with evidence against it reaches the kernel map or  *)
(* the blocked-ips topic.                                                  *)
THEOREM FailuresNeverBlock == Spec => []OnlyEvidenceBlocks
  <1>1. Inv => OnlyEvidenceBlocks
    BY DEF Inv, EvidenceFirst
  <1>2. QED
    BY <1>1, Invariant, PTL

(* An address that an operator took out of the map comes back only for a   *)
(* reason later than that, or through an evaluation that had its reason    *)
(* in hand.                                                                *)
THEOREM PardonsHold == Spec => []PardonHolds
  <1>1. Pardons => PardonHolds
    BY DEF Pardons
  <1>2. QED
    BY <1>1, PardonInvariant, PTL

(* One bucket lets at most BucketSize requests through Evaluate.           *)
THEOREM PassesAreLimited == Spec => []PassesWithinBucket
  <1>1. Inv => PassesWithinBucket
    <2> SUFFICES ASSUME Inv, NEW ip \in IPs PROVE passes[ip] <= Bucket!LimitBar
      BY DEF PassesWithinBucket
    <2>1. /\ passes[ip] \in Nat /\ granted[ip] \in Nat /\ tokens[ip] \in Int
          /\ passes[ip] + Cardinality(Unused(ip)) <= granted[ip]
      BY DEF Inv, BucketInv, EngineTypes, Bucket!TypeOK, PassesHaveTokens
    <2>2. Unused(ip) \in SUBSET Handlers
      BY DEF Unused
    <2>3. Cardinality(Unused(ip)) \in Nat
      BY <2>2, HandlerSets
    <2>4. granted[ip] <= Bucket!LimitBar
      BY <2>1, EngineAssumption DEF Inv, BucketInv, Bucket!BucketConserved, Bucket!LimitBar
    <2>5. Bucket!LimitBar \in Int
      BY EngineAssumption DEF Bucket!LimitBar
    <2>6. QED
      BY <2>1, <2>3, <2>4, <2>5
  <1>2. QED
    BY <1>1, Invariant, PTL

(* The unit tests' double decides as Evaluate does, for every pair of      *)
(* thresholds and every reply the bucket can give.                         *)
THEOREM DoubleIsFaithful == Spec => []DoubleMirrors
  <1>1. Inv => DoubleMirrors
    <2> SUFFICES ASSUME Inv, NEW h \in Handlers, NEW s \in 0 .. 100, ~reply[h].err
                 PROVE  DoubleEvaluate(reply[h].remaining, s) = Decide(s, Exhausted(reply[h]))
      BY DEF DoubleMirrors
    <2> DEFINE n == reply[h].remaining
    <2>1. Exhausted(reply[h]) <=> n < 0
      BY DEF Exhausted
    <2>2. (s * 2 * 60) \div 100 = (s * 120) \div 100
      BY EngineAssumption
    <2> HIDE DEF n
    <2>3. CASE s > BlockThreshold \/ n < 0
      <3>1. Decide(s, Exhausted(reply[h])) = [action |-> "block", retryAfter |-> 0]
        BY <2>1, <2>3 DEF Decide
      <3>2. DoubleEvaluate(n, s) = [action |-> "block", retryAfter |-> 0]
        BY <2>3 DEF DoubleEvaluate
      <3>3. QED
        BY <3>1, <3>2 DEF n
    <2>4. CASE ~(s > BlockThreshold \/ n < 0) /\ s > ThrottleThreshold
      <3>1. Decide(s, Exhausted(reply[h])) = [action |-> "throttle", retryAfter |-> RetryAfter(s)]
        BY <2>1, <2>4 DEF Decide
      <3>2. DoubleEvaluate(n, s) = [action |-> "throttle", retryAfter |-> RetryAfter(s)]
        BY <2>2, <2>4 DEF DoubleEvaluate, RetryAfter
      <3>3. QED
        BY <3>1, <3>2 DEF n
    <2>5. CASE ~(s > BlockThreshold \/ n < 0) /\ ~(s > ThrottleThreshold)
      <3>1. Decide(s, Exhausted(reply[h])) = [action |-> "allow", retryAfter |-> 0]
        BY <2>1, <2>5 DEF Decide
      <3>2. DoubleEvaluate(n, s) = [action |-> "allow", retryAfter |-> 0]
        BY <2>5 DEF DoubleEvaluate
      <3>3. QED
        BY <3>1, <3>2 DEF n
    <2>6. QED
      BY <2>3, <2>4, <2>5
  <1>2. QED
    BY <1>1, Invariant, PTL

(* The engine uses the bucket as module TokenBucket says it is used: every *)
(* behaviour of the engine is one of the bucket with the handlers as its   *)
(* callers, so what is proved of the bucket holds inside the engine.       *)
THEOREM EngineUsesBucket == Spec => Bucket!Spec
  <1>1. Init => Bucket!Init
    BY DEF Init
  <1>2. [Next]_vars => [Bucket!Next]_(Bucket!vars)
    <2>1. UNCHANGED redis => UNCHANGED Bucket!vars
      BY DEF redis, Bucket!vars
    <2>2. QED
      BY <2>1, BucketStep
  <1>3. QED
    BY <1>1, <1>2, PTL DEF Spec, Bucket!Spec

=============================================================================
