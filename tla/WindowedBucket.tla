--------------------------- MODULE WindowedBucket ---------------------------
(***************************************************************************)
(* What the bucket means as a rate limit: TokenBucket with a record of the *)
(* grants of the last BucketTTL seconds.  The configuration calls          *)
(* BucketSize "max tokens per window" and BucketTTL "key expiry / window   *)
(* size", but no step of the program looks at a window: the bound holds    *)
(* because every run of the script restarts the key's TTL, so a bucket     *)
(* dies only when its last grant has left the window.  The same restart    *)
(* makes the converse false.                                               *)
(***************************************************************************)
EXTENDS TokenBucket

CONSTANT MaxLosses   \* bound: evictions and failovers per key

ASSUME WindowAssumption == BucketTTL > 0 /\ MaxLosses \in Nat

VARIABLES recent,       \* recent[ip][a]: grants to ip a seconds ago
          losses        \* losses[ip]: times Redis lost the key of ip or its latest state

wvars == <<vars, recent, losses>>

Ages == 0 .. BucketTTL - 1

WInit == /\ Init
         /\ recent = [ip \in IPs |-> [a \in Ages |-> 0]]
         /\ losses = [ip \in IPs |-> 0]

(* A run of the script that grants is recorded at age 0.                   *)
Record(ip) ==
  recent' = IF IsToken(RunScript(ip)) THEN [recent EXCEPT ![ip][0] = @ + 1] ELSE recent

WExecute(c) == Execute(c) /\ Record(target[c]) /\ UNCHANGED losses

WExecuteOrphan(ip) == ExecuteOrphan(ip) /\ Record(ip) /\ UNCHANGED losses

WLose(ip) == /\ losses[ip] < MaxLosses
             /\ Evict(ip) \/ Failover(ip)
             /\ losses' = [losses EXCEPT ![ip] = @ + 1]
             /\ UNCHANGED recent

WTick == /\ Tick
         /\ recent' = [ip \in IPs |-> [a \in Ages |-> IF a = 0 THEN 0 ELSE recent[ip][a - 1]]]
         /\ UNCHANGED losses

WCall == /\ \/ \E c \in Callers, ip \in IPs : Decrement(c, ip)
            \/ \E c \in Callers : Receive(c) \/ Retry(c) \/ GiveUp(c) \/ Finish(c)
            \/ Crash
         /\ UNCHANGED <<recent, losses>>

WNext == \/ \E c \in Callers : WExecute(c)
         \/ \E ip \in IPs : WExecuteOrphan(ip) \/ WLose(ip)
         \/ WTick
         \/ WCall

WSpec == WInit /\ [][WNext]_wvars

WFairSpec == WSpec /\ Fairness

(* The grants of the window, the m-th one of every age a as <<a, m>>.      *)
Grants(ip) == UNION {{a} \X (1 .. recent[ip][a]) : a \in Ages}

InWindow(ip) == Cardinality(Grants(ip))

-----------------------------------------------------------------------------
(* The rate limit: in any BucketTTL consecutive seconds an IP is granted   *)
(* at most BucketSize tokens, plus a full bucket for every time Redis lost *)
(* the key early or fell back to an older state of it.  (A bucket          *)
(* configured without tokens grants none: LimitBar.)                       *)
RateLimited ==
  \A ip \in IPs : InWindow(ip) <= LimitBar * (1 + losses[ip])

(* The converse a reader of "max tokens per window" expects: a client is   *)
(* refused only when BucketSize tokens were granted in the last BucketTTL  *)
(* seconds.  The script restarts the TTL on every run, refusals included,  *)
(* so the tokens of a client that keeps asking never come back.            *)
RefusedOnlyAtLimit ==
  [][\A c \in Callers : WExecute(c) /\ reply'[c].remaining < 0
        => InWindow(target[c]) >= BucketSize]_wvars
=============================================================================
