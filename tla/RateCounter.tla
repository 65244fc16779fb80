----------------------------- MODULE RateCounter -----------------------------
(***************************************************************************)
(* The request rates of one client in nginx (nginx/lua/counter.lua, as     *)
(* access.lua and build_vector call it): a counter per window in a         *)
(* dictionary that all workers share, created with the window's TTL and    *)
(* gone when that is over, against the requests that were really counted.  *)
(*                                                                         *)
(* incr is atomic, but increment makes one call per window and get_rates   *)
(* reads afterwards, one window at a time: workers interleave between the  *)
(* calls, and keys expire between them.  Time is relative: what is past is *)
(* known by its age, and forgotten when it is older than the window.       *)
(***************************************************************************)
EXTENDS Naturals, Sequences, FiniteSets, FiniteSetsExt

CONSTANTS Workers,       \* nginx workers
          Windows,       \* the TTLs of WINDOWS, in order
          MaxRequests,   \* bound: requests of the client in a window
          MaxEvictions   \* bound: evictions of a key in a window

ASSUME CounterAssumption == /\ Windows \in Seq(Nat \ {0}) /\ Windows # <<>>
                            /\ MaxRequests \in Nat /\ MaxEvictions \in Nat

VARIABLES key,       \* key[i]: the counter of window i and its time to live
          calls,     \* calls[w]: calls to the dictionary w has made for its request
          own,       \* own[w][i]: what incr returned to w, and how long ago
          hits,      \* history: hits[i][a], requests counted in window i a ago
          unseen,    \* history: those of them not reported yet, or reported too low
          peak,      \* history: peak[i][a], highest rate reported a ago
          evicted    \* history: evicted[i][a], evictions of key i a ago

history == <<hits, unseen, peak, evicted>>
vars == <<key, calls, own, history>>

L == Len(Windows)
I == 1 .. L
Ages(i) == 0 .. Windows[i] - 1

NoKey == [n |-> 0, ttl |-> 0]
None  == [n |-> 0, age |-> 0]

(* What f counts in window i, the m-th event of every age a as <<a, m>>.   *)
Events(f, i) == UNION {{a} \X (1 .. f[i][a]) : a \in Ages(i)}

Lately(f, i) == Cardinality(Events(f, i))

TypeOK ==
  /\ calls \in [Workers -> 0 .. 2 * L - 1]
  /\ \A i \in I : /\ key[i] = NoKey \/ (key[i].n > 0 /\ key[i].ttl \in 1 .. Windows[i])
                  /\ \A w \in Workers : own[w][i] \in [n : Nat, age : Ages(i)]
                  /\ \A f \in {hits, unseen, peak, evicted} : f[i] \in [Ages(i) -> Nat]

Init == /\ key = [i \in I |-> NoKey]
        /\ calls = [w \in Workers |-> 0]
        /\ own = [w \in Workers |-> [i \in I |-> None]]
        /\ hits = [i \in I |-> [a \in Ages(i) |-> 0]]
        /\ unseen = hits /\ peak = hits /\ evicted = hits

-----------------------------------------------------------------------------
(* Mutant: the TTL starts anew with every request.                         *)
IncrRefreshing(k, ttl) == [n |-> k.n + 1, ttl |-> ttl]

(* Mutant: the counter starts at init, and 1 is not added.                 *)
IncrFromZero(k, ttl) == IF k = NoKey THEN [n |-> 0, ttl |-> ttl] ELSE [k EXCEPT !.n = @ + 1]

(* Mutant: every window gets the TTL of the first.                         *)
IncrFirstTTL(k, ttl) ==
  IF k = NoKey THEN [n |-> 1, ttl |-> Windows[1]] ELSE [k EXCEPT !.n = @ + 1]

(* incr(key, 1, 0, ttl): only a key that is created gets a TTL.            *)
Incr(k, ttl) == IF k = NoKey THEN [n |-> 1, ttl |-> ttl] ELSE [k EXCEPT !.n = @ + 1]

(* Worker w, free for a request or in increment, comes to window i.        *)
Comes(w, i) == /\ calls[w] = i - 1 /\ Lately(hits, i) < MaxRequests
               /\ calls' = [calls EXCEPT ![w] = i]

Increment(w, i) ==
  /\ Comes(w, i)
  /\ key' = [key EXCEPT ![i] = Incr(@, Windows[i])]
  /\ own' = [own EXCEPT ![w][i] = [n |-> key'[i].n, age |-> 0]]
  /\ hits' = [hits EXCEPT ![i][0] = @ + 1]
  /\ unseen' = [unseen EXCEPT ![i][0] = @ + 1]
  /\ UNCHANGED <<peak, evicted>>

(* incr returns nil: logged, and the loop goes on.  The request is lost to *)
(* this window: it is in no counter and in no history.                     *)
IncrementFails(w, i) == Comes(w, i) /\ UNCHANGED <<key, own, history>>

(* get(key) or 0                                                           *)
Rate(i) == key[i].n

(* get_rates, one window at a time.                                        *)
GetRate(w, i) ==
  /\ calls[w] = L + i - 1
  /\ calls' = [calls EXCEPT ![w] = (@ + 1) % (2 * L)]
  /\ peak' = [peak EXCEPT ![i][0] = Max({Rate(i), @})]
  /\ unseen' = IF own[w][i].n > 0 /\ Rate(i) >= own[w][i].n
               THEN [unseen EXCEPT ![i][own[w][i].age] = @ - 1] ELSE unseen
  /\ own' = [own EXCEPT ![w][i] = None]
  /\ UNCHANGED <<key, hits, evicted>>

(* The dictionary is full and drops its least recently used key.           *)
Evict(i) == /\ key[i] # NoKey /\ Lately(evicted, i) < MaxEvictions
            /\ key' = [key EXCEPT ![i] = NoKey]
            /\ evicted' = [evicted EXCEPT ![i][0] = @ + 1]
            /\ UNCHANGED <<calls, own, hits, unseen, peak>>

Older(f) == [i \in I |-> [a \in Ages(i) |-> IF a = 0 THEN 0 ELSE f[i][a - 1]]]

Tick == /\ key' = [i \in I |-> IF key[i].ttl <= 1 THEN NoKey ELSE [key[i] EXCEPT !.ttl = @ - 1]]
        /\ own' = [w \in Workers |-> [i \in I |->
                     IF own[w][i].n = 0 \/ own[w][i].age + 1 = Windows[i] THEN None
                     ELSE [own[w][i] EXCEPT !.age = @ + 1]]]
        /\ hits' = Older(hits) /\ unseen' = Older(unseen)
        /\ peak' = Older(peak) /\ evicted' = Older(evicted)
        /\ UNCHANGED calls

Next == \/ \E w \in Workers, i \in I : \/ Increment(w, i) \/ IncrementFails(w, i)
                                       \/ GetRate(w, i)
        \/ \E i \in I : Evict(i)
        \/ Tick

Spec == Init /\ [][Next]_vars

-----------------------------------------------------------------------------
(* A rate is never too high: the counter of a window holds no request that *)
(* is older than the window, although a key is never rewound.              *)
NeverOvercounts == \A i \in I : Rate(i) <= Lately(hits, i)

(* A burst is seen at half its size or more (of what incr could count; a   *)
(* failed incr is a request no rate can show): it falls into two lives of  *)
(* the key (one more for each eviction), and the highest rate reported to  *)
(* the engine within the window reaches the share of the larger, but for   *)
(* the requests whose own rate is still to be read or was read after the   *)
(* key had gone.                                                           *)
BurstIsSeen ==
  \A i \in I :
    Lately(hits, i) <= (2 + Lately(evicted, i)) * Max({peak[i][a] : a \in Ages(i)})
                       + Lately(unseen, i)
==============================================================================
