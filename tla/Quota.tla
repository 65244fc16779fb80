------------------------------- MODULE Quota -------------------------------
(***************************************************************************)
(* What the token bucket promises its callers, without Redis, scripts,     *)
(* retries or clocks: every IP has a quota of Limit grants; a caller that  *)
(* asks is granted one unit while the quota lasts, is denied only once     *)
(* the quota is used up, or gets an error.  A unit may be wasted (the      *)
(* grant is computed but nobody receives it), the whole quota of an IP may *)
(* be renewed, and used units may be restored when the store loses its     *)
(* latest updates.                                                         *)
(***************************************************************************)
EXTENDS Integers

CONSTANTS IPs,      \* client addresses
          Callers,  \* concurrent callers of Decrement
          Limit,    \* grants per renewal
          NoIP      \* "asks for nobody"

VARIABLES used,     \* used[ip]: grants since the last renewal
          asks,     \* asks[c]: the IP c asks for, or NoIP
          answer    \* answer[c]: what c has been told

vars == <<used, asks, answer>>

Answers == {"none", "pending", "granted", "denied", "failed"}

Init == /\ used = [ip \in IPs |-> 0]
        /\ asks = [c \in Callers |-> NoIP]
        /\ answer = [c \in Callers |-> "none"]

Ask(c, ip) == /\ answer[c] = "none"
              /\ asks' = [asks EXCEPT ![c] = ip]
              /\ answer' = [answer EXCEPT ![c] = "pending"]
              /\ UNCHANGED used

Grant(c) == /\ answer[c] = "pending"
            /\ used[asks[c]] < Limit
            /\ used' = [used EXCEPT ![asks[c]] = @ + 1]
            /\ answer' = [answer EXCEPT ![c] = "granted"]
            /\ UNCHANGED asks

Deny(c) == /\ answer[c] = "pending"
           /\ used[asks[c]] = Limit
           /\ answer' = [answer EXCEPT ![c] = "denied"]
           /\ UNCHANGED <<used, asks>>

(* The caller asks again for the same IP; what it was granted stays used.  *)
Again(c) == /\ answer[c] \in {"granted", "denied", "failed"}
            /\ answer' = [answer EXCEPT ![c] = "pending"]
            /\ UNCHANGED <<used, asks>>

Fail(c) == /\ answer[c] \in {"pending", "granted", "denied"}
           /\ answer' = [answer EXCEPT ![c] = "failed"]
           /\ UNCHANGED <<used, asks>>

Close(cs) == /\ asks' = [c \in Callers |-> IF c \in cs THEN NoIP ELSE asks[c]]
             /\ answer' = [c \in Callers |-> IF c \in cs THEN "none" ELSE answer[c]]
             /\ UNCHANGED used

Waste(ip) == /\ used[ip] < Limit
             /\ used' = [used EXCEPT ![ip] = @ + 1]
             /\ UNCHANGED <<asks, answer>>

Renew(ips) == /\ used' = [ip \in IPs |-> IF ip \in ips THEN 0 ELSE used[ip]]
              /\ UNCHANGED <<asks, answer>>

Restore(ip, n) == /\ used' = [used EXCEPT ![ip] = @ - n]
                  /\ UNCHANGED <<asks, answer>>

Next == \/ \E c \in Callers, ip \in IPs : Ask(c, ip)
        \/ \E c \in Callers : Grant(c) \/ Deny(c) \/ Again(c) \/ Fail(c)
        \/ \E cs \in SUBSET Callers : Close(cs)
        \/ \E ip \in IPs : Waste(ip)
        \/ \E ips \in SUBSET IPs : Renew(ips)
        \/ \E ip \in IPs : \E n \in 0 .. used[ip] : Restore(ip, n)

Spec == Init /\ [][Next]_vars
=============================================================================
