------------------------- MODULE TokenBucketProofs -------------------------
(***************************************************************************)
(* Proofs about TokenBucket, for every set of IPs and callers, every       *)
(* bucket size and TTL (zero and negative ones included) and every bound.  *)
(***************************************************************************)
EXTENDS TokenBucket, TLAPS

(* Every key that exists carries a live expiry.                            *)
KeysExpire == \A ip \in IPs : Exists(ip) => ttl[ip] \in 1 .. BucketTTL

(* A bucket configured without tokens never shows one.                     *)
EmptyStaysEmpty == \A ip \in IPs : Exists(ip) /\ BucketSize <= 0 => tokens[ip] <= 0

(* Whoever holds a token of the current bucket got it from a script run,   *)
(* and the bucket it came from is still there.                             *)
HoldersServed ==
  \A c \in Callers : holds[c] =>
    /\ status[c] \in {"executed", "returned"}
    /\ IsToken(reply[c])
    /\ Exists(target[c])

(* The inductive invariant.                                                *)
Inv == /\ TypeOK
       /\ KeysExpire
       /\ BucketConserved
       /\ EmptyStaysEmpty
       /\ HoldersServed
       /\ TokensHandedOutOnce

(* The four things a run of the script can do to a key it is given.        *)
LEMMA ScriptCases ==
  ASSUME NEW ip \in IPs, Inv
  PROVE  LET r == RunScript(ip) IN
         \/ /\ ~Exists(ip) /\ BucketTTL <= 0
            /\ r.err = TRUE /\ r.remaining = 0 /\ r.tokens = 0 /\ r.ttl = Missing
         \/ /\ ~Exists(ip) /\ BucketTTL > 0
            /\ r.err = FALSE /\ r.remaining = BucketSize - 1
            /\ r.tokens = BucketSize - 1 /\ r.ttl = BucketTTL
         \/ /\ Exists(ip) /\ tokens[ip] <= 0 /\ BucketTTL > 0
            /\ r.err = FALSE /\ r.remaining = -1
            /\ r.tokens = tokens[ip] /\ r.ttl = BucketTTL
         \/ /\ Exists(ip) /\ tokens[ip] > 0 /\ BucketTTL > 0
            /\ r.err = FALSE /\ r.remaining = tokens[ip] - 1
            /\ r.tokens = tokens[ip] - 1 /\ r.ttl = BucketTTL
  <1>1. /\ tokens[ip] \in Int
        /\ ttl[ip] \in {Missing, NoExpiry} \cup 1 .. BucketTTL
        /\ Exists(ip) => ttl[ip] \in 1 .. BucketTTL
    BY DEF Inv, TypeOK, KeysExpire
  <1>2. CASE ~Exists(ip)
    <2>1. RunScript(ip) = CreateBucket
      BY <1>2 DEF RunScript, Script, Exists
    <2>2. QED
      BY <1>2, <2>1, BucketAssumption DEF CreateBucket, ScriptResult
  <1>3. CASE Exists(ip) /\ tokens[ip] <= 0
    <2>1. RunScript(ip) = RefuseToken(tokens[ip])
      BY <1>1, <1>3 DEF RunScript, Script, Exists
    <2>2. QED
      BY <1>1, <1>3, <2>1, BucketAssumption DEF RefuseToken, ScriptResult
  <1>4. CASE Exists(ip) /\ tokens[ip] > 0
    <2>1. RunScript(ip) = TakeToken(tokens[ip])
      BY <1>1, <1>4 DEF RunScript, Script, Exists
    <2>2. QED
      BY <1>1, <1>4, <2>1, BucketAssumption DEF TakeToken, ScriptResult
  <1>5. Exists(ip) => tokens[ip] <= 0 \/ tokens[ip] > 0
    BY <1>1
  <1>6. QED
    BY <1>2, <1>3, <1>4, <1>5

(* What any run of the script does to the invariant's part about keys.     *)
LEMMA ApplyKeeps ==
  ASSUME NEW ip \in IPs, Inv, Apply(ip)
  PROVE  /\ tokens' \in [IPs -> Int]
         /\ ttl' \in [IPs -> {Missing, NoExpiry} \cup 1 .. BucketTTL]
         /\ granted' \in [IPs -> Nat]
         /\ KeysExpire' /\ BucketConserved' /\ EmptyStaysEmpty'
         /\ Exists(ip) => Exists(ip)' /\ tokens'[ip] <= tokens[ip]
         /\ IsToken(RunScript(ip)) => /\ Exists(ip)'
                                      /\ RunScript(ip).remaining = tokens'[ip]
                                      /\ Exists(ip) => tokens'[ip] < tokens[ip]
         /\ \A jp \in IPs \ {ip} : tokens'[jp] = tokens[jp] /\ ttl'[jp] = ttl[jp]
  <1> DEFINE r == RunScript(ip)
  <1>t. /\ tokens \in [IPs -> Int]
        /\ ttl \in [IPs -> {Missing, NoExpiry} \cup 1 .. BucketTTL]
        /\ granted \in [IPs -> Nat]
    BY DEF Inv, TypeOK
  <1>a. /\ tokens' = [tokens EXCEPT ![ip] = r.tokens]
        /\ ttl' = [ttl EXCEPT ![ip] = r.ttl]
        /\ granted' = [granted EXCEPT ![ip] = IF IsToken(r) THEN @ + 1 ELSE @]
    BY DEF Apply
  <1>v. /\ tokens'[ip] = r.tokens /\ ttl'[ip] = r.ttl
        /\ granted'[ip] = IF IsToken(r) THEN granted[ip] + 1 ELSE granted[ip]
        /\ \A jp \in IPs \ {ip} : /\ tokens'[jp] = tokens[jp] /\ ttl'[jp] = ttl[jp]
                                  /\ granted'[jp] = granted[jp]
    BY <1>t, <1>a
  <1>r. \/ /\ ~Exists(ip) /\ BucketTTL <= 0
           /\ r.err = TRUE /\ r.remaining = 0 /\ r.tokens = 0 /\ r.ttl = Missing
        \/ /\ ~Exists(ip) /\ BucketTTL > 0
           /\ r.err = FALSE /\ r.remaining = BucketSize - 1
           /\ r.tokens = BucketSize - 1 /\ r.ttl = BucketTTL
        \/ /\ Exists(ip) /\ tokens[ip] <= 0 /\ BucketTTL > 0
           /\ r.err = FALSE /\ r.remaining = -1
           /\ r.tokens = tokens[ip] /\ r.ttl = BucketTTL
        \/ /\ Exists(ip) /\ tokens[ip] > 0 /\ BucketTTL > 0
           /\ r.err = FALSE /\ r.remaining = tokens[ip] - 1
           /\ r.tokens = tokens[ip] - 1 /\ r.ttl = BucketTTL
    BY ScriptCases
  <1> HIDE DEF r
  <1>1. r.tokens \in Int /\ r.ttl \in {Missing} \cup 1 .. BucketTTL
    BY <1>t, <1>r, BucketAssumption
  <1>2. /\ tokens' \in [IPs -> Int]
        /\ ttl' \in [IPs -> {Missing, NoExpiry} \cup 1 .. BucketTTL]
        /\ granted' \in [IPs -> Nat]
    BY <1>t, <1>a, <1>1
  <1>3. KeysExpire'
    BY <1>v, <1>1 DEF KeysExpire, Exists, Inv
  <1>k. /\ granted[ip] \in Nat /\ tokens[ip] \in Int
        /\ IF Exists(ip) /\ BucketSize > 0
             THEN tokens[ip] >= 0 /\ granted[ip] + tokens[ip] = BucketSize
             ELSE granted[ip] = 0
        /\ Exists(ip) /\ BucketSize <= 0 => tokens[ip] <= 0
    BY <1>t DEF Inv, BucketConserved, EmptyStaysEmpty
  <1>4. BucketConserved'
    <2>1. IF Exists(ip)' /\ BucketSize > 0
            THEN tokens'[ip] >= 0 /\ granted'[ip] + tokens'[ip] = BucketSize
            ELSE granted'[ip] = 0
      BY <1>k, <1>r, <1>v, BucketAssumption DEF Exists, IsToken, Missing
    <2>2. QED
      BY <1>v, <2>1 DEF BucketConserved, Inv, Exists
  <1>5. EmptyStaysEmpty'
    <2>1. Exists(ip)' /\ BucketSize <= 0 => tokens'[ip] <= 0
      BY <1>k, <1>r, <1>v, BucketAssumption DEF Exists, Missing
    <2>2. QED
      BY <1>v, <2>1 DEF EmptyStaysEmpty, Inv, Exists
  <1>6. Exists(ip) => Exists(ip)' /\ tokens'[ip] <= tokens[ip]
    BY <1>k, <1>r, <1>v, BucketAssumption DEF Exists, Missing
  <1>7. IsToken(r) => /\ Exists(ip)'
                      /\ r.remaining = tokens'[ip]
                      /\ Exists(ip) => tokens'[ip] < tokens[ip]
    BY <1>k, <1>r, <1>v, BucketAssumption DEF Exists, Missing, IsToken
  <1>8. QED
    BY <1>2, <1>3, <1>4, <1>5, <1>6, <1>7, <1>v DEF r

-----------------------------------------------------------------------------
LEMMA InitInv == Init => Inv
  <1> SUFFICES ASSUME Init PROVE Inv
    OBVIOUS
  <1>1. TypeOK
    BY BucketAssumption DEF Init, TypeOK, NoReply, Missing
  <1>2. KeysExpire /\ BucketConserved /\ EmptyStaysEmpty
    BY DEF Init, KeysExpire, BucketConserved, EmptyStaysEmpty, Exists
  <1>3. HoldersServed /\ TokensHandedOutOnce
    BY DEF Init, HoldersServed, TokensHandedOutOnce
  <1>4. QED
    BY <1>1, <1>2, <1>3 DEF Inv

(* The facts about keys survive every step that leaves the store alone.    *)
LEMMA StoreUnchanged ==
  ASSUME Inv, UNCHANGED store
  PROVE  KeysExpire' /\ BucketConserved' /\ EmptyStaysEmpty'
  BY DEF Inv, store, KeysExpire, BucketConserved, EmptyStaysEmpty, Exists

(* The facts about holders survive every step that leaves the store alone, *)
(* gives nobody a token and changes the calls only of non-holders.         *)
LEMMA HoldersUnchanged ==
  ASSUME Inv, UNCHANGED store,
         \A c \in Callers : holds'[c] =>
            /\ holds[c]
            /\ status'[c] \in {"executed", "returned"}
            /\ reply'[c] = reply[c] /\ target'[c] = target[c]
  PROVE  HoldersServed' /\ TokensHandedOutOnce'
  <1>1. HoldersServed'
    BY DEF Inv, store, HoldersServed, Exists, IsToken
  <1>2. TokensHandedOutOnce'
    BY DEF Inv, store, TokensHandedOutOnce
  <1>3. QED
    BY <1>1, <1>2

(* One run of the script on behalf of caller c.                            *)
LEMMA ExecuteInv == ASSUME NEW c \in Callers, Inv, Execute(c) PROVE Inv'
  <1>ip. PICK ip \in IPs : ip = target[c]
    BY DEF Inv, TypeOK, Execute
  <1> DEFINE r == RunScript(ip)
  <1>a. Apply(ip)
    BY <1>ip DEF Execute
  <1>s. /\ tokens' \in [IPs -> Int]
        /\ ttl' \in [IPs -> {Missing, NoExpiry} \cup 1 .. BucketTTL]
        /\ granted' \in [IPs -> Nat]
        /\ KeysExpire' /\ BucketConserved' /\ EmptyStaysEmpty'
        /\ Exists(ip) => Exists(ip)' /\ tokens'[ip] <= tokens[ip]
        /\ IsToken(r) => /\ Exists(ip)'
                         /\ r.remaining = tokens'[ip]
                         /\ Exists(ip) => tokens'[ip] < tokens[ip]
        /\ \A jp \in IPs \ {ip} : tokens'[jp] = tokens[jp] /\ ttl'[jp] = ttl[jp]
    BY <1>a, ApplyKeeps
  <1>r. r.err \in BOOLEAN /\ r.remaining \in Int
    <2>1. r.err = TRUE \/ r.err = FALSE
      BY ScriptCases, Zenon
    <2>2. r.remaining \in {0, BucketSize - 1, -1, tokens[ip] - 1}
      BY ScriptCases
    <2>3. r.remaining \in Int
      BY <2>2, BucketAssumption DEF Inv, TypeOK
    <2>4. QED
      BY <2>1, <2>3, Zenon
  <1>e. /\ status' = [status EXCEPT ![c] = "executed"]
        /\ reply' = [reply EXCEPT ![c] = [err |-> r.err, remaining |-> r.remaining]]
        /\ holds' = [holds EXCEPT ![c] = IsToken(r)]
        /\ UNCHANGED <<orphans, target, attempts>>
    BY <1>ip DEF Execute
  <1> HIDE DEF r
  <1>t. /\ status \in [Callers -> {"idle", "sent", "executed", "returned"}]
        /\ reply \in [Callers -> [err : BOOLEAN, remaining : Int]]
        /\ holds \in [Callers -> BOOLEAN]
        /\ target \in [Callers -> IPs \cup {NoIP}]
        /\ tokens \in [IPs -> Int]
        /\ \A d \in Callers : status[d] # "idle" => target[d] \in IPs
    BY DEF Inv, TypeOK
  <1>1. TypeOK'
    <2>1. /\ status' \in [Callers -> {"idle", "sent", "executed", "returned"}]
          /\ reply' \in [Callers -> [err : BOOLEAN, remaining : Int]]
          /\ holds' \in [Callers -> BOOLEAN]
      BY <1>t, <1>e, <1>r DEF IsToken
    <2>2. /\ orphans' \in [IPs -> 0 .. MaxOrphans]
          /\ target' \in [Callers -> IPs \cup {NoIP}]
          /\ attempts' \in [Callers -> 0 .. MaxAttempts]
      BY <1>e DEF Inv, TypeOK
    <2>3. \A d \in Callers : status'[d] # "idle" => target'[d] \in IPs
      BY <1>t, <1>e, <1>ip
    <2>4. QED
      BY <1>s, <2>1, <2>2, <2>3 DEF TypeOK
  <1>c. /\ holds'[c] = IsToken(r) /\ status'[c] = "executed" /\ target'[c] = ip
        /\ reply'[c].err = r.err /\ reply'[c].remaining = r.remaining
    BY <1>t, <1>e, <1>ip
  <1>o. \A d \in Callers \ {c} :
           /\ holds'[d] = holds[d] /\ status'[d] = status[d]
           /\ target'[d] = target[d] /\ reply'[d] = reply[d]
    BY <1>t, <1>e
  <1>h. \A d \in Callers : holds[d] =>
           /\ status[d] \in {"executed", "returned"} /\ IsToken(reply[d])
           /\ Exists(target[d]) /\ target[d] \in IPs
           /\ reply[d].remaining \in Int
           /\ reply[d].remaining >= tokens[target[d]]
    BY <1>t DEF Inv, HoldersServed, TokensHandedOutOnce
  <1>2. HoldersServed'
    <2>1. holds'[c] => /\ status'[c] \in {"executed", "returned"}
                       /\ IsToken(reply'[c]) /\ ttl'[target'[c]] # Missing
      BY <1>c, <1>s DEF IsToken, Exists
    <2>2. \A d \in Callers \ {c} : holds'[d] =>
             /\ status'[d] \in {"executed", "returned"}
             /\ IsToken(reply'[d]) /\ ttl'[target'[d]] # Missing
      BY <1>o, <1>h, <1>s DEF Exists
    <2>3. QED
      BY <2>1, <2>2 DEF HoldersServed, IsToken, Exists
  <1>3. \A d \in Callers : holds'[d] => reply'[d].remaining >= tokens'[target'[d]]
    <2>1. tokens'[ip] \in Int /\ tokens[ip] \in Int
      BY <1>s, <1>t
    <2>2. holds'[c] => reply'[c].remaining >= tokens'[target'[c]]
      BY <1>c, <1>s, <2>1
    <2>3. ASSUME NEW d \in Callers \ {c}, holds'[d]
          PROVE  reply'[d].remaining >= tokens'[target'[d]]
      <3>1. CASE target[d] = ip
        BY <1>o, <1>h, <1>s, <2>1, <2>3, <3>1
      <3>2. CASE target[d] # ip
        BY <1>o, <1>h, <1>s, <2>3, <3>2
      <3>3. QED
        BY <3>1, <3>2
    <2>4. QED
      BY <2>2, <2>3
  <1>4. \A d \in Callers \ {c} : holds'[c] /\ holds'[d] /\ target'[d] = ip
            => reply'[d].remaining > reply'[c].remaining
    <2>1. tokens'[ip] \in Int /\ tokens[ip] \in Int
      BY <1>s, <1>t
    <2>2. QED
      BY <1>c, <1>o, <1>h, <1>s, <2>1
  <1>5. TokensHandedOutOnce'
    <2>1. ASSUME NEW x \in Callers, holds'[x], NEW y \in Callers \ {x},
                 holds'[y], target'[y] = target'[x]
          PROVE  reply'[y].remaining # reply'[x].remaining
      <3>0. reply'[x].remaining \in Int /\ reply'[y].remaining \in Int
        BY <1>1 DEF TypeOK
      <3>1. CASE x = c
        BY <1>4, <1>c, <2>1, <3>0, <3>1
      <3>2. CASE y = c
        BY <1>4, <1>c, <2>1, <3>0, <3>2
      <3>3. CASE x # c /\ y # c
        BY <1>o, <2>1, <3>3 DEF Inv, TokensHandedOutOnce
      <3>4. QED
        BY <3>1, <3>2, <3>3
    <2>2. QED
      BY <1>3, <2>1 DEF TokensHandedOutOnce
  <1>6. QED
    BY <1>s, <1>1, <1>2, <1>5 DEF Inv

LEMMA ExecuteOrphanInv == ASSUME NEW ip \in IPs, Inv, ExecuteOrphan(ip) PROVE Inv'
  <1>a. Apply(ip)
    BY DEF ExecuteOrphan
  <1>s. /\ tokens' \in [IPs -> Int]
        /\ ttl' \in [IPs -> {Missing, NoExpiry} \cup 1 .. BucketTTL]
        /\ granted' \in [IPs -> Nat]
        /\ KeysExpire' /\ BucketConserved' /\ EmptyStaysEmpty'
        /\ Exists(ip) => Exists(ip)' /\ tokens'[ip] <= tokens[ip]
        /\ \A jp \in IPs \ {ip} : tokens'[jp] = tokens[jp] /\ ttl'[jp] = ttl[jp]
    BY <1>a, ApplyKeeps
  <1>u. UNCHANGED <<status, target, attempts, reply, holds>>
    BY DEF ExecuteOrphan, calls
  <1>1. TypeOK'
    <2>1. orphans' \in [IPs -> 0 .. MaxOrphans]
      BY BucketAssumption DEF Inv, TypeOK, ExecuteOrphan
    <2>2. QED
      BY <1>s, <1>u, <2>1 DEF Inv, TypeOK
  <1>h. \A d \in Callers : holds[d] =>
           /\ Exists(target[d]) /\ target[d] \in IPs
           /\ reply[d].remaining \in Int /\ tokens[target[d]] \in Int
           /\ reply[d].remaining >= tokens[target[d]]
    BY DEF Inv, TypeOK, HoldersServed, TokensHandedOutOnce
  <1>2. HoldersServed'
    <2>1. \A d \in Callers : holds[d] => ttl'[target[d]] # Missing
      BY <1>s, <1>h DEF Exists
    <2>2. QED
      BY <1>u, <2>1 DEF Inv, HoldersServed, Exists, IsToken
  <1>3. TokensHandedOutOnce'
    <2>1. ASSUME NEW d \in Callers, holds[d]
          PROVE  reply[d].remaining >= tokens'[target[d]]
      <3>1. tokens'[target[d]] <= tokens[target[d]] /\ tokens'[target[d]] \in Int
        BY <1>s, <1>h, <2>1
      <3>2. QED
        BY <1>h, <2>1, <3>1
    <2>2. QED
      BY <1>u, <2>1 DEF Inv, TokensHandedOutOnce
  <1>4. QED
    BY <1>s, <1>1, <1>2, <1>3 DEF Inv

(* Keys that disappear take the tokens of their bucket with them.          *)
LEMMA ForgetInv ==
  ASSUME NEW gone \in SUBSET IPs, Inv, Forget(gone),
         UNCHANGED <<orphans, calls>>,
         ttl' \in [IPs -> {Missing, NoExpiry} \cup 1 .. BucketTTL],
         \A ip \in gone : ttl'[ip] = Missing,
         \A ip \in IPs \ gone : /\ Exists(ip) <=> Exists(ip)'
                                /\ Exists(ip) => ttl'[ip] \in 1 .. BucketTTL
  PROVE  Inv'
  <1>f. /\ tokens' = [ip \in IPs |-> IF ip \in gone THEN 0 ELSE tokens[ip]]
        /\ granted' = [ip \in IPs |-> IF ip \in gone THEN 0 ELSE granted[ip]]
        /\ holds' = [c \in Callers |-> holds[c] /\ target[c] \notin gone]
        /\ UNCHANGED <<orphans, status, target, attempts, reply>>
    BY DEF Forget, calls
  <1>1. TypeOK'
    BY <1>f DEF Inv, TypeOK
  <1>2. KeysExpire' /\ EmptyStaysEmpty'
    BY <1>f DEF Inv, KeysExpire, EmptyStaysEmpty, Exists
  <1>3. BucketConserved'
    BY <1>f DEF Inv, BucketConserved, Exists
  <1>h. \A c \in Callers : holds'[c] => holds[c] /\ target[c] \in IPs \ gone
    BY <1>f DEF Inv, TypeOK, HoldersServed
  <1>4. HoldersServed'
    <2>1. \A c \in Callers : holds'[c] => ttl'[target[c]] # Missing
      BY <1>h DEF Inv, HoldersServed, Exists
    <2>2. QED
      BY <1>f, <1>h, <2>1 DEF Inv, HoldersServed, IsToken, Exists
  <1>5. TokensHandedOutOnce'
    <2>1. \A c \in Callers : holds'[c] => tokens'[target[c]] = tokens[target[c]]
      BY <1>f, <1>h
    <2>2. QED
      BY <1>f, <1>h, <2>1 DEF Inv, TokensHandedOutOnce
  <1>6. QED
    BY <1>1, <1>2, <1>3, <1>4, <1>5 DEF Inv

LEMMA TickInv == ASSUME Inv, Tick PROVE Inv'
  <1> DEFINE gone == {ip \in IPs : ttl[ip] = 1}
  <1>t. ttl' = [ip \in IPs |-> IF ttl[ip] = 1 THEN Missing
                               ELSE IF ttl[ip] > 1 THEN ttl[ip] - 1
                               ELSE ttl[ip]]
    BY DEF Tick
  <1>k. \A ip \in IPs : ttl[ip] = Missing \/ ttl[ip] \in 1 .. BucketTTL
    BY DEF Inv, KeysExpire, Exists
  <1>1. ttl' \in [IPs -> {Missing, NoExpiry} \cup 1 .. BucketTTL]
    BY <1>t, <1>k, BucketAssumption DEF Missing
  <1>2. \A ip \in gone : ttl'[ip] = Missing
    BY <1>t
  <1>3. \A ip \in IPs \ gone : /\ Exists(ip) <=> Exists(ip)'
                               /\ Exists(ip) => ttl'[ip] \in 1 .. BucketTTL
    BY <1>t, <1>k, BucketAssumption DEF Exists, Missing
  <1>4. Forget(gone) /\ UNCHANGED <<orphans, calls>>
    BY DEF Tick
  <1>g. PICK lost \in SUBSET IPs : lost = gone
    OBVIOUS
  <1>5. QED
    BY <1>1, <1>2, <1>3, <1>4, <1>g, ForgetInv

LEMMA EvictInv == ASSUME NEW ip \in IPs, Inv, Evict(ip) PROVE Inv'
  <1>t. ttl \in [IPs -> {Missing, NoExpiry} \cup 1 .. BucketTTL]
    BY DEF Inv, TypeOK
  <1>1. ttl' \in [IPs -> {Missing, NoExpiry} \cup 1 .. BucketTTL]
    BY <1>t DEF Evict
  <1>2. \A jp \in {ip} : ttl'[jp] = Missing
    BY <1>t DEF Evict
  <1>3. \A jp \in IPs \ {ip} : /\ Exists(jp) <=> Exists(jp)'
                               /\ Exists(jp) => ttl'[jp] \in 1 .. BucketTTL
    BY <1>t DEF Evict, Exists, Inv, KeysExpire
  <1>4. Forget({ip}) /\ UNCHANGED <<orphans, calls>>
    BY DEF Evict
  <1>5. QED
    BY <1>1, <1>2, <1>3, <1>4, ForgetInv

(* A failover puts tokens back: the bucket still adds up, and nobody holds *)
(* a token that is in it again.                                            *)
LEMMA FailoverInv == ASSUME NEW ip \in IPs, Inv, Failover(ip) PROVE Inv'
  <1>t. /\ tokens \in [IPs -> Int]
        /\ ttl \in [IPs -> {Missing, NoExpiry} \cup 1 .. BucketTTL]
        /\ granted \in [IPs -> Nat]
        /\ holds \in [Callers -> BOOLEAN]
        /\ reply \in [Callers -> [err : BOOLEAN, remaining : Int]]
        /\ target \in [Callers -> IPs \cup {NoIP}]
        /\ ttl[ip] \in 1 .. BucketTTL
    BY DEF Inv, TypeOK, KeysExpire, Failover
  <1>p. PICK n \in 0 .. granted[ip], l \in 1 .. ttl[ip] :
          /\ n = 0 \/ n < granted[ip]
          /\ tokens' = [tokens EXCEPT ![ip] = @ + n]
          /\ granted' = [granted EXCEPT ![ip] = @ - n]
          /\ ttl' = [ttl EXCEPT ![ip] = l]
          /\ holds' = [c \in Callers |-> /\ holds[c]
                                         /\ target[c] = ip => reply[c].remaining >= tokens[ip] + n]
    BY DEF Failover
  <1>u. Exists(ip) /\ UNCHANGED <<orphans, status, target, attempts, reply>>
    BY DEF Failover, calls
  <1>n. n \in Nat /\ n <= granted[ip] /\ l \in 1 .. BucketTTL
    BY <1>t, <1>p, BucketAssumption
  <1>v. /\ tokens'[ip] = tokens[ip] + n /\ granted'[ip] = granted[ip] - n /\ ttl'[ip] = l
        /\ \A jp \in IPs \ {ip} : /\ tokens'[jp] = tokens[jp] /\ ttl'[jp] = ttl[jp]
                                  /\ granted'[jp] = granted[jp]
    BY <1>t, <1>p
  <1>e. l # Missing
    BY <1>n DEF Missing
  <1>1. TypeOK'
    <2>1. /\ tokens' \in [IPs -> Int]
          /\ ttl' \in [IPs -> {Missing, NoExpiry} \cup 1 .. BucketTTL]
          /\ granted' \in [IPs -> Nat]
      BY <1>t, <1>p, <1>n
    <2>2. holds' \in [Callers -> BOOLEAN]
      BY <1>p
    <2>3. QED
      BY <1>u, <2>1, <2>2 DEF Inv, TypeOK
  <1>2. KeysExpire'
    BY <1>v, <1>n DEF Inv, KeysExpire, Exists
  <1>k. /\ granted[ip] \in Nat /\ tokens[ip] \in Int
        /\ IF BucketSize > 0
             THEN tokens[ip] >= 0 /\ granted[ip] + tokens[ip] = BucketSize
             ELSE granted[ip] = 0
        /\ BucketSize <= 0 => tokens[ip] <= 0
    BY <1>t, <1>u DEF Inv, BucketConserved, EmptyStaysEmpty
  <1>3. BucketConserved'
    <2>1. IF BucketSize > 0
            THEN tokens'[ip] >= 0 /\ granted'[ip] + tokens'[ip] = BucketSize
            ELSE granted'[ip] = 0
      BY <1>k, <1>n, <1>v, BucketAssumption
    <2>2. QED
      BY <1>u, <1>v, <1>e, <2>1 DEF Inv, BucketConserved, Exists
  <1>4. EmptyStaysEmpty'
    <2>1. BucketSize <= 0 => tokens'[ip] <= 0
      BY <1>k, <1>n, <1>v, BucketAssumption
    <2>2. QED
      BY <1>v, <2>1 DEF Inv, EmptyStaysEmpty, Exists
  <1>h. \A c \in Callers : holds'[c] => holds[c] /\ target[c] \in IPs
    BY <1>p, <1>t DEF Inv, TypeOK, HoldersServed
  <1>5. HoldersServed'
    <2>1. \A c \in Callers : holds'[c] => ttl'[target[c]] # Missing
      BY <1>h, <1>v, <1>e DEF Inv, HoldersServed, Exists
    <2>2. QED
      BY <1>u, <1>h, <2>1 DEF Inv, HoldersServed, IsToken, Exists
  <1>6. TokensHandedOutOnce'
    <2>1. \A c \in Callers : holds'[c] => reply[c].remaining >= tokens'[target[c]]
      BY <1>p, <1>h, <1>v DEF Inv, TokensHandedOutOnce
    <2>2. QED
      BY <1>u, <1>h, <2>1 DEF Inv, TokensHandedOutOnce
  <1>7. QED
    BY <1>1, <1>2, <1>3, <1>4, <1>5, <1>6 DEF Inv

LEMMA NextInv == Inv /\ [Next]_vars => Inv'
  <1> SUFFICES ASSUME Inv, [Next]_vars PROVE Inv'
    OBVIOUS
  <1> USE DEF Waiting
  <1>t. TypeOK /\ HoldersServed
    BY DEF Inv
  <1>1. ASSUME NEW c \in Callers, NEW ip \in IPs, Decrement(c, ip) PROVE Inv'
    <2>1. TypeOK'
      BY <1>1, <1>t, BucketAssumption DEF Decrement, TypeOK, store
    <2>2. UNCHANGED store
      BY <1>1 DEF Decrement
    <2>3. \A d \in Callers : holds'[d] =>
             /\ holds[d] /\ status'[d] \in {"executed", "returned"}
             /\ reply'[d] = reply[d] /\ target'[d] = target[d]
      BY <1>1, <1>t DEF Decrement, TypeOK, HoldersServed
    <2>4. QED
      BY <2>1, <2>2, <2>3, StoreUnchanged, HoldersUnchanged DEF Inv
  <1>2. ASSUME NEW c \in Callers, Execute(c) PROVE Inv'
    BY <1>2, ExecuteInv
  <1>3. ASSUME NEW c \in Callers, Receive(c) PROVE Inv'
    <2>1. TypeOK'
      BY <1>3, <1>t DEF Receive, TypeOK, store
    <2>2. UNCHANGED store
      BY <1>3 DEF Receive
    <2>3. \A d \in Callers : holds'[d] =>
             /\ holds[d] /\ status'[d] \in {"executed", "returned"}
             /\ reply'[d] = reply[d] /\ target'[d] = target[d]
      BY <1>3, <1>t DEF Receive, TypeOK, HoldersServed
    <2>4. QED
      BY <2>1, <2>2, <2>3, StoreUnchanged, HoldersUnchanged DEF Inv
  <1>a. ASSUME NEW c \in Callers, Waiting(c), Abandon(c)
        PROVE  orphans' \in [IPs -> 0 .. MaxOrphans]
    BY <1>a, <1>t, BucketAssumption DEF Abandon, TypeOK
  <1>4. ASSUME NEW c \in Callers, Retry(c) PROVE Inv'
    <2>1. TypeOK'
      <3>1. orphans' \in [IPs -> 0 .. MaxOrphans]
        BY <1>4, <1>a DEF Retry
      <3>2. QED
        BY <1>4, <1>t, <3>1, BucketAssumption DEF Retry, MayRetry, NextAttempt, TypeOK, store, NoReply
    <2>2. UNCHANGED store
      BY <1>4 DEF Retry
    <2>3. \A d \in Callers : holds'[d] =>
             /\ holds[d] /\ status'[d] \in {"executed", "returned"}
             /\ reply'[d] = reply[d] /\ target'[d] = target[d]
      BY <1>4, <1>t DEF Retry, TypeOK, HoldersServed
    <2>4. QED
      BY <2>1, <2>2, <2>3, StoreUnchanged, HoldersUnchanged DEF Inv
  <1>5. ASSUME NEW c \in Callers, GiveUp(c) PROVE Inv'
    <2>1. TypeOK'
      <3>1. orphans' \in [IPs -> 0 .. MaxOrphans]
        BY <1>5, <1>a DEF GiveUp
      <3>2. QED
        BY <1>5, <1>t, <3>1 DEF GiveUp, TypeOK, store, ErrReply
    <2>2. UNCHANGED store
      BY <1>5 DEF GiveUp
    <2>3. \A d \in Callers : holds'[d] =>
             /\ holds[d] /\ status'[d] \in {"executed", "returned"}
             /\ reply'[d] = reply[d] /\ target'[d] = target[d]
      BY <1>5, <1>t DEF GiveUp, TypeOK, HoldersServed
    <2>4. QED
      BY <2>1, <2>2, <2>3, StoreUnchanged, HoldersUnchanged DEF Inv
  <1>6. ASSUME NEW c \in Callers, Finish(c) PROVE Inv'
    <2>1. TypeOK'
      BY <1>6, <1>t, BucketAssumption DEF Finish, TypeOK, store, NoReply
    <2>2. UNCHANGED store
      BY <1>6 DEF Finish
    <2>3. \A d \in Callers : holds'[d] =>
             /\ holds[d] /\ status'[d] \in {"executed", "returned"}
             /\ reply'[d] = reply[d] /\ target'[d] = target[d]
      BY <1>6, <1>t DEF Finish, TypeOK, HoldersServed
    <2>4. QED
      BY <2>1, <2>2, <2>3, StoreUnchanged, HoldersUnchanged DEF Inv
  <1>7. ASSUME NEW ip \in IPs, ExecuteOrphan(ip) PROVE Inv'
    BY <1>7, ExecuteOrphanInv
  <1>8. ASSUME NEW ip \in IPs, Evict(ip) PROVE Inv'
    BY <1>8, EvictInv
  <1>r. ASSUME NEW ip \in IPs, Failover(ip) PROVE Inv'
    BY <1>r, FailoverInv
  <1>9. CASE Crash
    <2>1. TypeOK'
      BY <1>9, <1>t, BucketAssumption DEF Crash, TypeOK, store, NoReply
    <2>2. UNCHANGED store
      BY <1>9 DEF Crash
    <2>3. \A d \in Callers : ~holds'[d]
      BY <1>9 DEF Crash
    <2>4. QED
      BY <2>1, <2>2, <2>3, StoreUnchanged, HoldersUnchanged DEF Inv
  <1>10. CASE Tick
    BY <1>10, TickInv
  <1>11. CASE UNCHANGED vars
    <2>1. TypeOK'
      BY <1>11, <1>t DEF vars, TypeOK
    <2>2. UNCHANGED store
      BY <1>11 DEF vars, store
    <2>3. \A d \in Callers : holds'[d] =>
             /\ holds[d] /\ status'[d] \in {"executed", "returned"}
             /\ reply'[d] = reply[d] /\ target'[d] = target[d]
      BY <1>11, <1>t DEF vars, HoldersServed
    <2>4. QED
      BY <2>1, <2>2, <2>3, StoreUnchanged, HoldersUnchanged DEF Inv
  <1>12. QED
    BY <1>1, <1>2, <1>3, <1>4, <1>5, <1>6, <1>7, <1>8, <1>r, <1>9, <1>10, <1>11 DEF Next

-----------------------------------------------------------------------------
(* The values of the model's variables keep their types.                   *)
THEOREM TypeCorrect == Spec => []TypeOK
  <1>1. Inv => TypeOK
    BY DEF Inv
  <1>2. QED
    BY InitInv, NextInv, <1>1, PTL DEF Spec

(* However calls are retried, abandoned or run late, a bucket hands out    *)
(* exactly the tokens it has lost, and never more than BucketSize of them. *)
THEOREM Conservation == Spec => []BucketConserved
  <1>1. Inv => BucketConserved
    BY DEF Inv
  <1>2. QED
    BY InitInv, NextInv, <1>1, PTL DEF Spec

(* Decrement never returns the same token of one bucket to two callers.    *)
THEOREM HandedOutOnce == Spec => []TokensHandedOutOnce
  <1>1. Inv => TokensHandedOutOnce
    BY DEF Inv
  <1>2. QED
    BY InitInv, NextInv, <1>1, PTL DEF Spec

-----------------------------------------------------------------------------
(* The bucket implements Quota: first, the values of the refinement        *)
(* mapping.                                                                *)
LEMMA AnswerValues ==
  ASSUME NEW r
  PROVE  /\ AnswerOf("idle", r) = "none"
         /\ AnswerOf("sent", r) = "pending"
         /\ \A st \in {"executed", "returned"} :
              AnswerOf(st, r) = IF r.err THEN "failed"
                                ELSE IF r.remaining >= 0 THEN "granted"
                                ELSE "denied"
  <1>1. AnswerOf("idle", r) = "none" /\ AnswerOf("sent", r) = "pending"
    BY Zenon DEF AnswerOf
  <1>2. ASSUME NEW st \in {"executed", "returned"}
        PROVE  AnswerOf(st, r) = IF r.err THEN "failed"
                                 ELSE IF r.remaining >= 0 THEN "granted"
                                 ELSE "denied"
    <2>1. st # "idle" /\ st # "sent"
      OBVIOUS
    <2>2. QED
      BY <2>1, Zenon DEF AnswerOf
  <1>3. QED
    BY <1>1, <1>2

LEMMA AnswerUnchanged ==
  ASSUME UNCHANGED <<status, reply>>
  PROVE  UNCHANGED answerBar
  BY DEF answerBar

(* The answer of c changes, and of nobody else.                            *)
LEMMA AnswerChanges ==
  ASSUME NEW c \in Callers, TypeOK, NEW st, NEW r,
         status' = [status EXCEPT ![c] = st],
         reply' = [reply EXCEPT ![c] = r]
  PROVE  answerBar' = [answerBar EXCEPT ![c] = AnswerOf(st, r)]
  BY DEF answerBar, TypeOK

LEMMA RefinesInit == Init => Abstract!Init
  <1> SUFFICES ASSUME Init PROVE Abstract!Init
    OBVIOUS
  <1>1. \A c \in Callers : AnswerOf("idle", NoReply) = "none"
    BY AnswerValues
  <1>2. answerBar = [c \in Callers |-> "none"]
    BY <1>1 DEF answerBar, Init
  <1>3. QED
    BY <1>2 DEF Init, Abstract!Init

(* A run of the script for a waiting caller is Grant, Deny or Fail.        *)
LEMMA RefinesExecute ==
  ASSUME NEW c \in Callers, Inv, Execute(c)
  PROVE  Abstract!Grant(c) \/ Abstract!Deny(c) \/ Abstract!Fail(c)
  <1>ip. PICK ip \in IPs : ip = target[c]
    BY DEF Inv, TypeOK, Execute
  <1> DEFINE r == RunScript(ip)
             o == [err |-> r.err, remaining |-> r.remaining]
  <1>e. /\ status[c] = "sent"
        /\ granted' = [granted EXCEPT ![ip] = IF IsToken(r) THEN @ + 1 ELSE @]
        /\ status' = [status EXCEPT ![c] = "executed"]
        /\ reply' = [reply EXCEPT ![c] = o]
        /\ target' = target
    BY <1>ip DEF Execute, Apply
  <1>k. /\ granted \in [IPs -> Nat] /\ tokens[ip] \in Int
        /\ IF Exists(ip) /\ BucketSize > 0
             THEN tokens[ip] >= 0 /\ granted[ip] + tokens[ip] = BucketSize
             ELSE granted[ip] = 0
        /\ Exists(ip) /\ BucketSize <= 0 => tokens[ip] <= 0
    BY DEF Inv, TypeOK, BucketConserved, EmptyStaysEmpty
  <1>r. \/ /\ ~Exists(ip)
           /\ r.err = TRUE /\ r.remaining = 0
        \/ /\ ~Exists(ip)
           /\ r.err = FALSE /\ r.remaining = BucketSize - 1
        \/ /\ Exists(ip) /\ tokens[ip] <= 0
           /\ r.err = FALSE /\ r.remaining = -1
        \/ /\ Exists(ip) /\ tokens[ip] > 0
           /\ r.err = FALSE /\ r.remaining = tokens[ip] - 1
    BY ScriptCases, Zenon
  <1> HIDE DEF r
  <1>p. answerBar[c] = "pending"
    BY <1>e, AnswerValues DEF answerBar
  <1>a. answerBar' = [answerBar EXCEPT ![c] = AnswerOf("executed", o)]
    BY <1>e, AnswerChanges DEF Inv
  <1>v. AnswerOf("executed", o) = IF r.err THEN "failed"
                                  ELSE IF r.remaining >= 0 THEN "granted"
                                  ELSE "denied"
    BY AnswerValues
  <1>1. CASE IsToken(r)
    <2>1. granted[ip] < LimitBar
      BY <1>1, <1>k, <1>r, BucketAssumption DEF IsToken, LimitBar
    <2>2. granted' = [granted EXCEPT ![target[c]] = @ + 1]
      BY <1>1, <1>e, <1>ip
    <2>3. AnswerOf("executed", o) = "granted"
      BY <1>1, <1>v DEF IsToken
    <2>4. QED
      BY <1>a, <1>e, <1>ip, <1>p, <2>1, <2>2, <2>3 DEF Abstract!Grant
  <1>2. CASE r.err = FALSE /\ ~(r.remaining >= 0)
    <2>1. granted[ip] = LimitBar
      BY <1>2, <1>k, <1>r, BucketAssumption DEF LimitBar
    <2>2. granted' = granted
      BY <1>2, <1>e, <1>k DEF IsToken
    <2>3. AnswerOf("executed", o) = "denied"
      BY <1>2, <1>v
    <2>4. QED
      BY <1>a, <1>e, <1>ip, <1>p, <2>1, <2>2, <2>3 DEF Abstract!Deny
  <1>3. CASE r.err = TRUE
    <2>2. granted' = granted
      BY <1>3, <1>e, <1>k DEF IsToken
    <2>3. AnswerOf("executed", o) = "failed"
      BY <1>3, <1>v
    <2>4. QED
      BY <1>a, <1>e, <1>ip, <1>p, <2>2, <2>3 DEF Abstract!Fail
  <1>4. QED
    BY <1>1, <1>2, <1>3, <1>r, Zenon DEF IsToken

(* A run of the script that nobody waits for wastes at most one unit.      *)
LEMMA RefinesOrphan ==
  ASSUME NEW ip \in IPs, Inv, ExecuteOrphan(ip)
  PROVE  Abstract!Waste(ip) \/ UNCHANGED Abstract!vars
  <1> DEFINE r == RunScript(ip)
  <1>e. /\ granted' = [granted EXCEPT ![ip] = IF IsToken(r) THEN @ + 1 ELSE @]
        /\ UNCHANGED <<status, reply, target>>
    BY DEF ExecuteOrphan, Apply, calls
  <1>k. /\ granted \in [IPs -> Nat] /\ tokens[ip] \in Int
        /\ IF Exists(ip) /\ BucketSize > 0
             THEN tokens[ip] >= 0 /\ granted[ip] + tokens[ip] = BucketSize
             ELSE granted[ip] = 0
        /\ Exists(ip) /\ BucketSize <= 0 => tokens[ip] <= 0
    BY DEF Inv, TypeOK, BucketConserved, EmptyStaysEmpty
  <1>r. \/ ~Exists(ip) /\ r.err = TRUE
        \/ ~Exists(ip) /\ r.remaining = BucketSize - 1
        \/ Exists(ip) /\ r.remaining = -1
        \/ Exists(ip) /\ tokens[ip] > 0 /\ r.remaining = tokens[ip] - 1
    BY ScriptCases, Zenon
  <1> HIDE DEF r
  <1>a. UNCHANGED answerBar
    BY <1>e, AnswerUnchanged
  <1>1. CASE IsToken(r)
    <2>1. granted[ip] < LimitBar
      BY <1>1, <1>k, <1>r, BucketAssumption DEF IsToken, LimitBar
    <2>2. QED
      BY <1>1, <1>a, <1>e, <2>1 DEF Abstract!Waste
  <1>2. CASE ~IsToken(r)
    <2>1. granted' = granted
      BY <1>2, <1>e, <1>k
    <2>2. QED
      BY <1>a, <1>e, <2>1 DEF Abstract!vars
  <1>3. QED
    BY <1>1, <1>2

LEMMA RefinesNext == Inv /\ [Next]_vars => [Abstract!Next]_(Abstract!vars)
  <1> SUFFICES ASSUME Inv, [Next]_vars
               PROVE  Abstract!Next \/ UNCHANGED Abstract!vars
    OBVIOUS
  <1>t. TypeOK
    BY DEF Inv
  <1>1. ASSUME NEW c \in Callers, NEW ip \in IPs, Decrement(c, ip)
        PROVE  Abstract!Next
    <2>1. answerBar[c] = "none"
      BY <1>1, AnswerValues DEF Decrement, answerBar
    <2>2. reply' = [reply EXCEPT ![c] = reply[c]]
      BY <1>1, <1>t DEF Decrement, TypeOK
    <2>3. answerBar' = [answerBar EXCEPT ![c] = "pending"]
      <3>1. /\ status' = [status EXCEPT ![c] = "sent"]
            /\ reply' = [reply EXCEPT ![c] = reply[c]]
        BY <1>1, <2>2 DEF Decrement
      <3>2. answerBar' = [answerBar EXCEPT ![c] = AnswerOf("sent", reply[c])]
        BY <1>t, <3>1, AnswerChanges
      <3>3. QED
        BY <3>2, AnswerValues
    <2>4. Abstract!Ask(c, ip)
      BY <1>1, <2>1, <2>3 DEF Abstract!Ask, Decrement, store
    <2>5. QED
      BY <2>4 DEF Abstract!Next
  <1>2. ASSUME NEW c \in Callers, Execute(c) PROVE Abstract!Next
    BY <1>2, RefinesExecute DEF Abstract!Next
  <1>3. ASSUME NEW c \in Callers, Receive(c) PROVE UNCHANGED Abstract!vars
    <2>1. reply' = [reply EXCEPT ![c] = reply[c]]
      BY <1>3, <1>t DEF Receive, TypeOK
    <2>2. answerBar' = [answerBar EXCEPT ![c] = AnswerOf("returned", reply[c])]
      <3>1. /\ status' = [status EXCEPT ![c] = "returned"]
            /\ reply' = [reply EXCEPT ![c] = reply[c]]
        BY <1>3, <2>1 DEF Receive
      <3>2. answerBar' = [answerBar EXCEPT ![c] = AnswerOf("returned", reply[c])]
        BY <1>t, <3>1, AnswerChanges
      <3>3. QED
        BY <3>2, AnswerValues
    <2>3. answerBar[c] = AnswerOf("returned", reply[c])
      BY <1>3, AnswerValues DEF Receive, answerBar
    <2>4. UNCHANGED answerBar
      BY <2>2, <2>3 DEF answerBar
    <2>5. QED
      BY <1>3, <2>4 DEF Receive, store, Abstract!vars
  <1>w. ASSUME NEW c \in Callers, Waiting(c)
        PROVE  \/ status[c] = "sent" /\ answerBar[c] = "pending"
               \/ status[c] = "executed" /\ answerBar[c] \in {"granted", "denied", "failed"}
    BY <1>w, AnswerValues DEF Waiting, answerBar
  <1>4. ASSUME NEW c \in Callers, Retry(c) PROVE Abstract!Next \/ UNCHANGED Abstract!vars
    <2>1. answerBar' = [answerBar EXCEPT ![c] = "pending"]
      <3>1. /\ status' = [status EXCEPT ![c] = "sent"]
            /\ reply' = [reply EXCEPT ![c] = NoReply]
        BY <1>4 DEF Retry
      <3>2. answerBar' = [answerBar EXCEPT ![c] = AnswerOf("sent", NoReply)]
        BY <1>t, <3>1, AnswerChanges
      <3>3. QED
        BY <3>2, AnswerValues
    <2>2. UNCHANGED <<granted, target>>
      BY <1>4 DEF Retry, store
    <2>3. CASE answerBar[c] = "pending"
      BY <2>1, <2>2, <2>3 DEF Abstract!vars, answerBar
    <2>4. CASE answerBar[c] \in {"granted", "denied", "failed"}
      BY <2>1, <2>2, <2>4 DEF Abstract!Again, Abstract!Next
    <2>5. QED
      BY <1>4, <1>w, <2>3, <2>4 DEF Retry
  <1>5. ASSUME NEW c \in Callers, GiveUp(c) PROVE Abstract!Next \/ UNCHANGED Abstract!vars
    <2>0. AnswerOf("returned", ErrReply) = "failed"
      BY AnswerValues DEF ErrReply
    <2>1. answerBar' = [answerBar EXCEPT ![c] = "failed"]
      <3>1. /\ status' = [status EXCEPT ![c] = "returned"]
            /\ reply' = [reply EXCEPT ![c] = ErrReply]
        BY <1>5 DEF GiveUp
      <3>2. answerBar' = [answerBar EXCEPT ![c] = AnswerOf("returned", ErrReply)]
        BY <1>t, <3>1, AnswerChanges
      <3>3. QED
        BY <3>2, AnswerValues, <2>0
    <2>2. UNCHANGED <<granted, target>>
      BY <1>5 DEF GiveUp, store
    <2>3. CASE answerBar[c] = "failed"
      BY <2>1, <2>2, <2>3 DEF Abstract!vars, answerBar
    <2>4. CASE answerBar[c] \in {"pending", "granted", "denied"}
      BY <2>1, <2>2, <2>4 DEF Abstract!Fail, Abstract!Next
    <2>5. QED
      BY <1>5, <1>w, <2>3, <2>4 DEF GiveUp
  <1>6. ASSUME NEW c \in Callers, Finish(c) PROVE Abstract!Next
    <2>1. answerBar' = [answerBar EXCEPT ![c] = "none"]
      <3>1. /\ status' = [status EXCEPT ![c] = "idle"]
            /\ reply' = [reply EXCEPT ![c] = NoReply]
        BY <1>6 DEF Finish
      <3>2. answerBar' = [answerBar EXCEPT ![c] = AnswerOf("idle", NoReply)]
        BY <1>t, <3>1, AnswerChanges
      <3>3. QED
        BY <3>2, AnswerValues
    <2>2. Abstract!Close({c})
      BY <1>6, <1>t, <2>1 DEF Abstract!Close, Finish, store, answerBar, TypeOK
    <2>3. QED
      BY <2>2 DEF Abstract!Next
  <1>7. ASSUME NEW ip \in IPs, ExecuteOrphan(ip) PROVE Abstract!Next \/ UNCHANGED Abstract!vars
    BY <1>7, RefinesOrphan DEF Abstract!Next
  <1>f. ASSUME NEW gone \in SUBSET IPs, Forget(gone), UNCHANGED calls PROVE Abstract!Next
    <2>1. Abstract!Renew(gone)
      BY <1>f, AnswerUnchanged DEF Forget, calls, Abstract!Renew
    <2>2. QED
      BY <2>1 DEF Abstract!Next
  <1>8. ASSUME NEW ip \in IPs, Evict(ip) PROVE Abstract!Next
    BY <1>8, <1>f DEF Evict
  <1>r. ASSUME NEW ip \in IPs, Failover(ip) PROVE Abstract!Next
    <2>1. PICK n \in 0 .. granted[ip] : granted' = [granted EXCEPT ![ip] = @ - n]
      BY <1>r DEF Failover
    <2>2. UNCHANGED <<target, answerBar>>
      BY <1>r, AnswerUnchanged DEF Failover, calls
    <2>3. Abstract!Restore(ip, n)
      BY <2>1, <2>2 DEF Abstract!Restore
    <2>4. QED
      BY <2>3 DEF Abstract!Next
  <1>9. CASE Crash
    <2>1. answerBar' = [c \in Callers |-> "none"]
      BY <1>9, AnswerValues DEF Crash, answerBar
    <2>2. Abstract!Close(Callers)
      BY <1>9, <2>1 DEF Abstract!Close, Crash, store
    <2>3. QED
      BY <2>2 DEF Abstract!Next
  <1>10. CASE Tick
    <2>1. {ip \in IPs : ttl[ip] = 1} \in SUBSET IPs
      OBVIOUS
    <2>2. PICK lost \in SUBSET IPs : lost = {ip \in IPs : ttl[ip] = 1}
      BY <2>1
    <2>3. QED
      BY <1>10, <1>f, <2>2 DEF Tick
  <1>11. CASE UNCHANGED vars
    BY <1>11, AnswerUnchanged DEF vars, Abstract!vars
  <1>12. QED
    BY <1>1, <1>2, <1>3, <1>4, <1>5, <1>6, <1>7, <1>8, <1>r, <1>9, <1>10, <1>11 DEF Next

(* Whatever Redis and the network do, a caller is granted a token only     *)
(* while the quota lasts, and is told the bucket is empty only when the    *)
(* whole quota is used: Decrement implements Quota.                        *)
THEOREM BucketImplementsQuota == Spec => ImplementsQuota
  <1>1. Spec => []Inv
    BY InitInv, NextInv, PTL DEF Spec
  <1>2. QED
    BY <1>1, RefinesInit, RefinesNext, PTL DEF Spec, ImplementsQuota, Abstract!Spec
=============================================================================
