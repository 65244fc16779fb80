-------------------------- MODULE LifecycleProofs --------------------------
(***************************************************************************)
(* Proofs about Lifecycle, for every set of connections, every set of      *)
(* environments, every integer width and every deadline shorter than the   *)
(* grace period.                                                           *)
(***************************************************************************)
EXTENDS Lifecycle, TLAPS

(* A process that has ended serves nothing and has nothing on its way.     *)
DownIsIdle ==
  main = "down" =>
    /\ sock = "off" /\ http = "off" /\ open = {} /\ since = 0
    /\ \A r \in Requests : conn[r] # "open"
    /\ \A t \in Topics, r \in Requests : event[t][r] \notin {"spawned", "sending"}

(* main's own progress: the clock of the grace period starts with the      *)
(* signal, the deferred calls run when it is over, and only they close     *)
(* the writers.                                                            *)
MainInOrder ==
  /\ main # "down" => exit = "none"
  /\ main = "up" => since = 0
  /\ main \in {"up", "draining"} => open = Topics
  /\ main = "closing" => since = Grace

(* The listener is closed before the first tick of the grace period, so    *)
(* every connection is at least as old as the grace period, up to the end  *)
(* of its deadline.                                                        *)
OldConnections ==
  main \in {"draining", "closing"} /\ since > 0 =>
    /\ sock \notin {"starting", "listening"}
    /\ \A r \in Requests : conn[r] = "open" => age[r] >= since \/ age[r] > ConnDeadline

(* Only the end of the process cuts a connection.                          *)
NoneCutYet == main # "down" => \A r \in Requests : conn[r] # "cut"

(* A request without an answer has no events.                              *)
NoEventBeforeAnswer ==
  \A t \in Topics, r \in Requests :
    conn[r] \in {"new", "open", "cut"} => event[t][r] = "none"

(* As long as the process runs, no event of an answered request has been   *)
(* dropped or lost; and once no connection can be answered any more, all   *)
(* of them have reached a writer.                                          *)
EventsReachWriter ==
  main # "down" => \A t \in Topics, r \in Requests : conn[r] = "answered" =>
    /\ event[t][r] \notin {"dropped", "lost"}
    /\ since > ConnDeadline => event[t][r] # "spawned"

(* The configuration is the one the last start read.                       *)
Configured == cfg = Load(env)

(* The inductive invariant.                                                *)
Inv == /\ TypeOK /\ Configured
       /\ DownIsIdle /\ MainInOrder
       /\ OldConnections /\ NoneCutYet /\ NoEventBeforeAnswer /\ EventsReachWriter
       /\ GraceKept /\ AnsweredIsPublished

-----------------------------------------------------------------------------
(* Configuration                                                           *)

(* strconv.ParseInt with its fallback gives an int64, and the default or   *)
(* the number that was set.                                                *)
LEMMA ParsedIsInt64 ==
  ASSUME NEW v
  PROVE  /\ GetEnvInt64(v, DefaultTTL) \in -MaxInt - 1 .. MaxInt
         /\ \/ GetEnvInt64(v, DefaultTTL) = DefaultTTL
            \/ v \notin {Unset, Junk} /\ v \in Int /\ GetEnvInt64(v, DefaultTTL) = v
  <1>1. MaxInt \in Nat
    BY PowersOfTwo DEF MaxInt
  <1>2. DefaultTTL <= DefaultTTL * Second
    BY LifecycleAssumption
  <1>3. DefaultTTL \in -MaxInt - 1 .. MaxInt
    BY <1>1, <1>2, LifecycleAssumption, PowersOfTwo DEF MaxInt
  <1>4. CASE v \in {Unset, Junk} \/ v \notin -MaxInt - 1 .. MaxInt
    BY <1>3, <1>4 DEF GetEnvInt64
  <1>5. CASE v \notin {Unset, Junk} /\ v \in -MaxInt - 1 .. MaxInt
    <2>1. GetEnvInt64(v, DefaultTTL) = v
      BY <1>5 DEF GetEnvInt64
    <2>2. v \in Int
      BY <1>1, <1>5
    <2>3. QED
      BY <1>5, <2>1, <2>2
  <1>6. QED
    BY <1>4, <1>5

(* The whole seconds of a Duration fit into int64, whatever wraps.         *)
LEMMA TTLIsInt64 ==
  ASSUME NEW n \in Int
  PROVE  TTLSeconds(n) \in -MaxInt - 1 .. MaxInt
  <1> DEFINE h == 2 ^ (Width - 1)
             u == (n * Second) % 2 ^ Width
             d == IF u <= MaxInt THEN u ELSE u - 2 ^ Width
  <1>1. /\ h \in Nat \ {0} /\ 2 ^ Width = 2 * h /\ MaxInt = h - 1
        /\ Second \in Nat \ {0}
    BY PowersOfTwo, LifecycleAssumption, Zenon DEF MaxInt
  <1>2. n * Second \in Int
    BY <1>1
  <1>3. u \in 0 .. 2 * h - 1
    <2> HIDE DEF h
    <2>1. \A k \in Int : k % (2 * h) \in 0 .. 2 * h - 1
      BY <1>1
    <2>2. QED
      BY <1>1, <1>2, <2>1, Zenon
  <1>4. d \in -h .. h - 1
    BY <1>1, <1>3
  <1>5. TTLSeconds(n) = IF d >= 0 THEN d \div Second ELSE -((-d) \div Second)
    BY DEF TTLSeconds
  <1> HIDE DEF u, d, h
  <1>6. \A k \in Nat : k \div Second \in 0 .. k
    BY <1>1
  <1>7. CASE d >= 0
    BY <1>1, <1>4, <1>5, <1>6, <1>7
  <1>8. CASE d < 0
    <2>1. -d \in Nat
      BY <1>1, <1>4, <1>8
    <2>2. (-d) \div Second \in 0 .. -d
      BY <1>6, <2>1
    <2>3. QED
      BY <1>1, <1>4, <1>5, <1>8, <2>1, <2>2
  <1>9. QED
    BY <1>1, <1>4, <1>7, <1>8

(* A positive number of seconds that a Duration can hold stays positive.   *)
LEMMA TTLStaysPositive ==
  ASSUME NEW n \in Int, n > 0, n * Second <= MaxInt
  PROVE  TTLSeconds(n) > 0
  <1> DEFINE h == 2 ^ (Width - 1)
             p == n * Second
  <1>1. /\ h \in Nat \ {0} /\ 2 ^ Width = 2 * h /\ MaxInt = h - 1
        /\ Second \in Nat \ {0}
    BY PowersOfTwo, LifecycleAssumption, Zenon DEF MaxInt
  <1>2. p \in Nat /\ p >= Second
    BY <1>1
  <1> HIDE DEF h, p
  <1>3. p % 2 ^ Width = p
    BY <1>1, <1>2 DEF p
  <1>4. TTLSeconds(n) = p \div Second
    BY <1>1, <1>2, <1>3 DEF TTLSeconds, p
  <1>5. QED
    BY <1>1, <1>2, <1>4

(* What Load makes of BUCKET_TTL_SECONDS: an int64 always, and a positive  *)
(* one unless the number that was set is to blame.                         *)
LEMMA LoadedTTL ==
  ASSUME NEW e
  PROVE  /\ Load(e).ttl \in -MaxInt - 1 .. MaxInt
         /\ Load(e).ttl <= 0 => /\ e.ttl \notin {Unset, Junk}
                                /\ e.ttl <= 0 \/ e.ttl * Second > MaxInt
  <1> DEFINE n == GetEnvInt64(e.ttl, DefaultTTL)
  <1>1. Load(e).ttl = TTLSeconds(n)
    BY DEF Load
  <1>2. n \in Int /\ MaxInt \in Int
    BY ParsedIsInt64, PowersOfTwo DEF MaxInt
  <1>3. n = DefaultTTL => n > 0 /\ n * Second <= MaxInt
    BY LifecycleAssumption, PowersOfTwo DEF MaxInt
  <1>4. n = DefaultTTL \/ (e.ttl \notin {Unset, Junk} /\ e.ttl \in Int /\ n = e.ttl)
    BY ParsedIsInt64
  <1> HIDE DEF n
  <1>5. TTLSeconds(n) \in -MaxInt - 1 .. MaxInt
    BY <1>2, TTLIsInt64
  <1>6. n > 0 /\ n * Second <= MaxInt => TTLSeconds(n) > 0
    BY <1>2, TTLStaysPositive
  <1>7. TTLSeconds(n) \in Int /\ n * Second \in Int
    BY <1>2, <1>5, LifecycleAssumption
  <1>8. TTLSeconds(n) <= 0 => ~(n > 0) \/ ~(n * Second <= MaxInt)
    BY <1>6, <1>7
  <1>9. QED
    BY <1>1, <1>2, <1>3, <1>4, <1>5, <1>7, <1>8

-----------------------------------------------------------------------------
(* The invariant                                                           *)

(* The initial states satisfy the invariant.                               *)
LEMMA InitInv == Init => Inv
  <1> SUFFICES ASSUME Init PROVE Inv
    OBVIOUS
  <1>1. cfg = Load(env) /\ cfg.ttl \in -MaxInt - 1 .. MaxInt
    BY LoadedTTL DEF Init
  <1>2. TypeOK
    BY <1>1, LifecycleAssumption DEF Init, TypeOK, Fresh, Topics
  <1>3. Configured /\ DownIsIdle /\ MainInOrder /\ OldConnections /\ NoneCutYet
    BY <1>1 DEF Init, Configured, DownIsIdle, MainInOrder, OldConnections, NoneCutYet, Fresh
  <1>4. NoEventBeforeAnswer /\ EventsReachWriter /\ GraceKept /\ AnsweredIsPublished
    BY DEF Init, NoEventBeforeAnswer, EventsReachWriter, GraceKept,
           AnsweredIsPublished, Fresh
  <1>5. QED
    BY <1>2, <1>3, <1>4 DEF Inv

(* Whatever ends the process, the invariant survives; a clean end needs    *)
(* what main has made sure of before it returns.                           *)
LEMMA EndProcessInv ==
  ASSUME Inv, NEW how \in {"clean", "died"}, EndProcess(how), stops' \in 0 .. MaxStops,
         how = "clean" => main = "closing" /\ \A t \in Topics : Flushed(t)
  PROVE  Inv'
  <1>t. TypeOK
    BY DEF Inv
  <1>1. TypeOK'
    <2>1. conn' \in [Requests -> {"new", "open", "answered", "late", "cut"}]
      BY <1>t DEF EndProcess, TypeOK
    <2>2. event' \in [Topics -> [Requests -> {"none", "spawned", "sending", "written",
                                               "refused", "dropped", "lost"}]]
      BY <1>t DEF EndProcess, TypeOK
    <2>3. QED
      BY <1>t, <2>1, <2>2, LifecycleAssumption DEF EndProcess, TypeOK, config
  <1>2. Configured'
    BY DEF Inv, EndProcess, Configured, config
  <1>3. DownIsIdle' /\ MainInOrder'
    BY <1>t DEF EndProcess, DownIsIdle, MainInOrder, TypeOK
  <1>4. OldConnections' /\ NoneCutYet' /\ EventsReachWriter'
    BY DEF EndProcess, OldConnections, NoneCutYet, EventsReachWriter
  <1>5. NoEventBeforeAnswer'
    BY <1>t DEF Inv, EndProcess, NoEventBeforeAnswer, TypeOK
  <1>6. GraceKept'
    <2> SUFFICES ASSUME exit' = "clean", NEW r \in Requests, conn'[r] = "cut"
                 PROVE  age'[r] > ConnDeadline
      BY DEF GraceKept
    <2>1. how = "clean" /\ main = "closing" /\ since = Grace /\ exit = "none" /\ age' = age
      BY DEF EndProcess, Inv, MainInOrder
    <2>2. conn[r] \in {"open", "cut"}
      BY <1>t DEF EndProcess, TypeOK
    <2>3. CASE conn[r] = "open"
      BY <1>t, <2>1, <2>3, LifecycleAssumption DEF Inv, OldConnections, TypeOK
    <2>4. CASE conn[r] = "cut"
      BY <2>1, <2>4 DEF Inv, NoneCutYet
    <2>5. QED
      BY <2>2, <2>3, <2>4
  <1>7. AnsweredIsPublished'
    <2> SUFFICES ASSUME exit' = "clean", NEW t \in Topics, NEW r \in Requests,
                        conn'[r] = "answered"
                 PROVE  event'[t][r] \in {"none", "written", "refused"}
      BY DEF AnsweredIsPublished
    <2>1. how = "clean" /\ main = "closing" /\ since = Grace
      BY DEF EndProcess, Inv, MainInOrder
    <2>2. conn[r] = "answered"
      BY <1>t DEF EndProcess, TypeOK
    <2>3. event[t][r] \notin {"dropped", "lost", "spawned"}
      BY <1>t, <2>1, <2>2, LifecycleAssumption DEF Inv, EventsReachWriter, TypeOK
    <2>4. event[t][r] # "sending"
      BY <2>1 DEF Flushed, Sending
    <2>5. event[t][r] \in {"none", "spawned", "sending", "written", "refused", "dropped",
                           "lost"}
      BY <1>t DEF TypeOK
    <2>6. QED
      BY <2>3, <2>4, <2>5 DEF EndProcess
  <1>8. QED
    BY <1>1, <1>2, <1>3, <1>4, <1>5, <1>6, <1>7 DEF Inv

(* Every step keeps the invariant.                                         *)
LEMMA NextInv == Inv /\ [Next]_vars => Inv'
  <1> SUFFICES ASSUME Inv, [Next]_vars PROVE Inv'
    OBVIOUS
  <1>t. TypeOK
    BY DEF Inv
  <1> DEFINE Parts == /\ Configured /\ DownIsIdle /\ MainInOrder
                      /\ OldConnections /\ NoneCutYet /\ NoEventBeforeAnswer
                      /\ EventsReachWriter /\ GraceKept /\ AnsweredIsPublished
  <1>p. Parts
    BY DEF Inv
  <1>q. TypeOK' /\ Parts' => Inv'
    BY DEF Inv
  <1> USE DEF config, servers, requests
  <1>1. ASSUME NEW e \in Envs, Start(e) PROVE Inv'
    <2>1. cfg'.ttl \in -MaxInt - 1 .. MaxInt
      BY <1>1, LoadedTTL DEF Start
    <2>2. TypeOK'
      BY <1>1, <1>t, <1>p, <2>1, LifecycleAssumption
         DEF Start, TypeOK, DownIsIdle, Fresh, Topics
    <2>3. Parts'
      BY <1>1, <1>t, <1>p, LifecycleAssumption
         DEF Start, TypeOK, Configured, DownIsIdle, MainInOrder, OldConnections,
             NoneCutYet, NoEventBeforeAnswer, EventsReachWriter, GraceKept,
             AnsweredIsPublished, Fresh
    <2>4. QED
      BY <2>2, <2>3, <1>q
  <1>2. ASSUME NEW e \in Envs, StartFails(e) PROVE Inv'
    <2>1. cfg'.ttl \in -MaxInt - 1 .. MaxInt
      BY <1>2, LoadedTTL DEF StartFails
    <2>2. TypeOK'
      BY <1>2, <1>t, <2>1, LifecycleAssumption DEF StartFails, Fault, TypeOK
    <2>3. Parts'
      BY <1>2, <1>t, <1>p
         DEF StartFails, Configured, DownIsIdle, MainInOrder, OldConnections,
             NoneCutYet, NoEventBeforeAnswer, EventsReachWriter, GraceKept,
             AnsweredIsPublished
    <2>4. QED
      BY <2>2, <2>3, <1>q
  <1>3. CASE ListenSocket
    <2>1. main # "down"
      BY <1>3, <1>p DEF ListenSocket, DownIsIdle
    <2>2. TypeOK'
      BY <1>3, <1>t DEF ListenSocket, TypeOK
    <2>3. Parts'
      BY <1>3, <1>p, <2>1
         DEF ListenSocket, Configured, DownIsIdle, MainInOrder, OldConnections,
             NoneCutYet, NoEventBeforeAnswer, EventsReachWriter, GraceKept,
             AnsweredIsPublished
    <2>4. QED
      BY <2>2, <2>3, <1>q
  <1>4. CASE ListenSocketFails \/ ListenHTTPFails \/ Killed
    <2>1. EndProcess("died") /\ stops' \in 0 .. MaxStops
      BY <1>4, <1>t, LifecycleAssumption
         DEF ListenSocketFails, ListenHTTPFails, Killed, Fault, FileRemoved, TypeOK
    <2>2. QED
      BY <2>1, EndProcessInv
  <1>5. CASE ListenHTTP \/ ShutdownHTTP
    <2>1. main # "down"
      BY <1>5, <1>p DEF ListenHTTP, ShutdownHTTP, DownIsIdle
    <2>2. TypeOK'
      BY <1>5, <1>t DEF ListenHTTP, ShutdownHTTP, TypeOK
    <2>3. Parts'
      BY <1>5, <1>p, <2>1
         DEF ListenHTTP, ShutdownHTTP, Configured, DownIsIdle, MainInOrder,
             OldConnections, NoneCutYet, NoEventBeforeAnswer, EventsReachWriter,
             GraceKept, AnsweredIsPublished
    <2>4. QED
      BY <2>2, <2>3, <1>q
  <1>6. ASSUME NEW r \in Requests, Accept(r) PROVE Inv'
    <2>1. main # "down" /\ ~(main \in {"draining", "closing"} /\ since > 0)
      BY <1>6, <1>p DEF Accept, DownIsIdle, OldConnections
    <2>2. TypeOK'
      BY <1>6, <1>t DEF Accept, TypeOK
    <2>3. Parts'
      BY <1>6, <1>t, <1>p, <2>1
         DEF Accept, TypeOK, Configured, DownIsIdle, MainInOrder, OldConnections,
             NoneCutYet, NoEventBeforeAnswer, EventsReachWriter, GraceKept,
             AnsweredIsPublished
    <2>4. QED
      BY <2>2, <2>3, <1>q
  <1>7. ASSUME NEW r \in Requests, NEW blocks \in BOOLEAN, Answer(r, blocks) PROVE Inv'
    <2>1. main # "down" /\ exit = "none"
      BY <1>7, <1>p DEF Answer, DownIsIdle, MainInOrder
    <2>2. /\ conn' = [conn EXCEPT ![r] = IF age[r] <= ConnDeadline THEN "answered" ELSE "late"]
          /\ event'["decisions"] = [event["decisions"] EXCEPT ![r] = "spawned"]
          /\ event'["blocked"] = [event["blocked"] EXCEPT ![r] = IF blocks THEN "spawned" ELSE @]
          /\ event' \in [Topics -> [Requests -> {"none", "spawned", "sending", "written",
                                                 "refused", "dropped", "lost"}]]
      BY <1>7, <1>t DEF Answer, TypeOK, Topics
    <2>3. TypeOK'
      BY <1>7, <1>t, <2>2 DEF Answer, TypeOK
    <2>4. Configured' /\ DownIsIdle' /\ MainInOrder' /\ GraceKept' /\ AnsweredIsPublished'
      BY <1>7, <1>p, <2>1
         DEF Answer, Configured, DownIsIdle, MainInOrder, GraceKept, AnsweredIsPublished
    <2>5. OldConnections' /\ NoneCutYet'
      BY <1>7, <1>t, <1>p DEF Answer, TypeOK, OldConnections, NoneCutYet
    <2>6. NoEventBeforeAnswer'
      BY <1>7, <1>t, <1>p, <2>2 DEF TypeOK, Topics, NoEventBeforeAnswer
    <2>7. EventsReachWriter'
      <3>1. \A t \in Topics : event[t][r] = "none"
        BY <1>7, <1>p DEF Answer, NoEventBeforeAnswer
      <3>2. conn'[r] = "answered" => ~(since > ConnDeadline)
        <4>1. since > ConnDeadline => main \in {"draining", "closing"} /\ since > 0
          BY <1>t, <1>p, <2>1, LifecycleAssumption DEF TypeOK, MainInOrder
        <4>2. since > ConnDeadline => age[r] > ConnDeadline
          BY <1>7, <1>t, <1>p, <4>1, LifecycleAssumption DEF Answer, OldConnections, TypeOK
        <4>3. QED
          BY <1>t, <4>2, <2>2, LifecycleAssumption DEF TypeOK
      <3>3. \A t \in Topics, q \in Requests \ {r} : conn'[q] = conn[q] /\ event'[t][q] = event[t][q]
        BY <1>t, <2>2 DEF TypeOK, Topics
      <3>4. \A t \in Topics : event'[t][r] \in {"none", "spawned"}
        BY <1>t, <2>2, <3>1 DEF TypeOK, Topics
      <3>5. since' = since /\ main' = main
        BY <1>7 DEF Answer
      <3>6. QED
        BY <1>p, <3>2, <3>3, <3>4, <3>5 DEF EventsReachWriter
    <2>8. QED
      BY <2>3, <2>4, <2>5, <2>6, <2>7, <1>q
  <1>8. ASSUME NEW t \in Topics, NEW r \in Requests, WriteMessages(t, r) PROVE Inv'
    <2>1. main # "down" /\ exit = "none"
      BY <1>8, <1>p DEF WriteMessages, DownIsIdle, MainInOrder
    <2>2. TypeOK'
      BY <1>8, <1>t DEF WriteMessages, TypeOK
    <2>3. \A u \in Topics, q \in Requests :
            IF u = t /\ q = r THEN event'[u][q] = IF t \in open THEN "sending" ELSE "dropped"
                              ELSE event'[u][q] = event[u][q]
      BY <1>8, <1>t DEF WriteMessages, TypeOK
    <2>4. conn[r] = "answered" => t \in open
      BY <1>8, <1>t, <1>p, <2>1, LifecycleAssumption
         DEF WriteMessages, TypeOK, EventsReachWriter, MainInOrder
    <2>5. /\ Configured' /\ DownIsIdle' /\ MainInOrder' /\ OldConnections' /\ NoneCutYet'
          /\ GraceKept' /\ AnsweredIsPublished'
      BY <1>8, <1>p, <2>1
         DEF WriteMessages, Configured, DownIsIdle, MainInOrder, OldConnections, NoneCutYet,
             GraceKept, AnsweredIsPublished
    <2>6. NoEventBeforeAnswer' /\ EventsReachWriter'
      BY <1>8, <1>p, <2>3, <2>4 DEF WriteMessages, NoEventBeforeAnswer, EventsReachWriter
    <2>7. QED
      BY <2>2, <2>5, <2>6, <1>q
  <1>9. ASSUME NEW t \in Topics, NEW r \in Requests, NEW result \in Results,
               Deliver(t, r, result)
        PROVE  Inv'
    <2>1. main # "down" /\ exit = "none"
      BY <1>9, <1>p DEF Deliver, DownIsIdle, MainInOrder
    <2>2. TypeOK'
      BY <1>9, <1>t DEF Deliver, Results, TypeOK
    <2>3. \A u \in Topics, q \in Requests :
            IF u = t /\ q = r THEN event'[u][q] = result ELSE event'[u][q] = event[u][q]
      BY <1>9, <1>t DEF Deliver, TypeOK
    <2>4. /\ Configured' /\ DownIsIdle' /\ MainInOrder' /\ OldConnections' /\ NoneCutYet'
          /\ GraceKept' /\ AnsweredIsPublished'
      BY <1>9, <1>p, <2>1
         DEF Deliver, Configured, DownIsIdle, MainInOrder, OldConnections, NoneCutYet,
             GraceKept, AnsweredIsPublished
    <2>5. NoEventBeforeAnswer' /\ EventsReachWriter'
      BY <1>9, <1>p, <2>3 DEF Deliver, Results, NoEventBeforeAnswer, EventsReachWriter
    <2>6. QED
      BY <2>2, <2>4, <2>5, <1>q
  <1>10. CASE Signal \/ CloseListener \/ Wake \/ \E t \in Topics : CloseWriter(t)
    <2>1. TypeOK'
      BY <1>10, <1>t, LifecycleAssumption
         DEF Signal, Fault, CloseListener, Wake, CloseWriter, TypeOK
    <2>2. /\ Configured' /\ DownIsIdle' /\ MainInOrder' /\ OldConnections' /\ NoneCutYet'
      BY <1>10, <1>t, <1>p
         DEF Signal, CloseListener, Wake, Awake, CloseWriter, TypeOK, Configured,
             DownIsIdle, MainInOrder, OldConnections, NoneCutYet
    <2>3. NoEventBeforeAnswer' /\ EventsReachWriter' /\ GraceKept' /\ AnsweredIsPublished'
      BY <1>10, <1>p
         DEF Signal, CloseListener, Wake, Awake, CloseWriter, NoEventBeforeAnswer,
             EventsReachWriter, GraceKept, AnsweredIsPublished
    <2>4. QED
      BY <2>1, <2>2, <2>3, <1>q
  <1>11. CASE Exit
    BY <1>11, <1>t, EndProcessInv DEF Exit, TypeOK
  <1>12. CASE Tick
    <2>1. main # "down" /\ exit = "none"
      BY <1>12, <1>p DEF Tick, MainInOrder
    <2>2. TypeOK'
      <3>1. age' \in [Requests -> 0 .. ConnDeadline + 1]
        BY <1>12, <1>t, LifecycleAssumption DEF Tick, TypeOK
      <3>2. since' \in 0 .. Grace
        BY <1>12, <1>t, LifecycleAssumption DEF Tick, Runnable, Awake, TypeOK
      <3>3. QED
        BY <1>12, <1>t, <3>1, <3>2 DEF Tick, TypeOK
    <2>3. Configured' /\ DownIsIdle' /\ MainInOrder' /\ NoneCutYet' /\ NoEventBeforeAnswer'
      BY <1>12, <1>p, <2>1
         DEF Tick, Configured, DownIsIdle, MainInOrder, NoneCutYet, NoEventBeforeAnswer
    <2>4. GraceKept' /\ AnsweredIsPublished'
      BY <1>12, <2>1 DEF Tick, GraceKept, AnsweredIsPublished
    <2>5. OldConnections'
      <3> SUFFICES ASSUME main' \in {"draining", "closing"}, since' > 0
                   PROVE  /\ sock' \notin {"starting", "listening"}
                          /\ \A r \in Requests : conn'[r] = "open" =>
                               age'[r] >= since' \/ age'[r] > ConnDeadline
        BY DEF OldConnections
      <3>1. main' = main /\ conn' = conn /\ sock' = sock
        BY <1>12 DEF Tick
      <3>2. CASE main = "closing"
        <4>1. since' = since
          BY <1>12, <3>2 DEF Tick
        <4>2. QED
          BY <1>12, <1>t, <1>p, <3>1, <3>2, <4>1, LifecycleAssumption
             DEF Tick, TypeOK, OldConnections
      <3>3. CASE main = "draining"
        <4>1. since' = since + 1 /\ sock \notin {"starting", "listening"}
          BY <1>12, <3>3 DEF Tick, Runnable
        <4>2. ASSUME NEW r \in Requests, conn[r] = "open"
              PROVE  age'[r] >= since' \/ age'[r] > ConnDeadline
          <5>1. age[r] \in 0 .. ConnDeadline + 1 /\ since \in 0 .. Grace
            BY <1>t DEF TypeOK
          <5>2. age'[r] = IF age[r] <= ConnDeadline THEN age[r] + 1 ELSE age[r]
            BY <1>12, <4>2 DEF Tick
          <5>3. since > 0 => age[r] >= since \/ age[r] > ConnDeadline
            BY <1>p, <3>3, <4>2 DEF OldConnections
          <5>4. QED
            BY <4>1, <5>1, <5>2, <5>3, LifecycleAssumption
        <4>3. QED
          BY <3>1, <4>1, <4>2
      <3>4. QED
        BY <3>1, <3>2, <3>3
    <2>6. EventsReachWriter'
      BY <1>12, <1>p DEF Tick, Runnable, EventsReachWriter
    <2>7. QED
      BY <2>2, <2>3, <2>4, <2>5, <2>6, <1>q
  <1>13. CASE UNCHANGED vars
    BY <1>13, <1>t, <1>p, <1>q
       DEF vars, TypeOK, Configured, DownIsIdle, MainInOrder, OldConnections, NoneCutYet,
           NoEventBeforeAnswer, EventsReachWriter, GraceKept, AnsweredIsPublished
  <1>14. QED
    BY <1>1, <1>2, <1>3, <1>4, <1>5, <1>6, <1>7, <1>8, <1>9, <1>10, <1>11, <1>12, <1>13
       DEF Next, Listening

(* The invariant holds throughout.  The fairness of Spec is not used.      *)
LEMMA Invariant == Spec => []Inv
  BY InitInv, NextInv, PTL DEF Spec

(* The variables keep their types: the grace period's clock never passes   *)
(* its end, the socket file is live exactly while the listener is open,    *)
(* and the TTL the process runs with is an int64, whatever the environment *)
(* says and whatever wraps in Load.                                        *)
THEOREM TypeCorrect == Spec => []TypeOK
  <1>1. Inv => TypeOK
    BY DEF Inv
  <1>2. QED
    BY <1>1, Invariant, PTL

(* The shutdown in main.go cuts no connection off that handleConn could    *)
(* still answer in time, for any deadline shorter than the sleep.          *)
THEOREM GraceIsKept == Spec => []GraceKept
  <1>1. Inv => GraceKept
    BY DEF Inv
  <1>2. QED
    BY <1>1, Invariant, PTL

(* After a shutdown by signal, the events of every answer that reached     *)
(* nginx were written or refused by the broker: Producer.Close neither     *)
(* drops nor loses one.                                                    *)
THEOREM AnsweredStaysOnRecord == Spec => []AnsweredIsPublished
  <1>1. Inv => AnsweredIsPublished
    BY DEF Inv
  <1>2. QED
    BY <1>1, Invariant, PTL

(* config.Load and Decrement give the script a window that is not positive *)
(* only when the number in the environment is not positive itself or its   *)
(* Duration overflows.                                                     *)
THEOREM WindowStaysPositive == Spec => []WindowIsPositive
  <1>1. Inv => WindowIsPositive
    BY LoadedTTL DEF Inv, Configured, WindowIsPositive
  <1>2. QED
    BY <1>1, Invariant, PTL
=============================================================================
