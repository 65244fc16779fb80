------------------------ MODULE WindowedBucketProofs ------------------------
(***************************************************************************)
(* Proof of the rate limit: for every bucket size, every positive TTL and  *)
(* any number of clients, callers, retries, late runs, crashes, evictions  *)
(* and failovers.                                                          *)
(***************************************************************************)
EXTENDS WindowedBucket, TokenBucketProofs, FiniteSetTheorems

(* The types of the record.                                                *)
RecordTypes == /\ recent \in [IPs -> [Ages -> Nat]]
               /\ losses \in [IPs -> Nat]

(* Some of the grants in the window are charged to losses, and the others  *)
(* are the bucket's own: it has counted them, and none is younger than the *)
(* last run of the script, the run that restarted the TTL.                 *)
Charged(ip, old) ==
  /\ old \subseteq Grants(ip)
  /\ Cardinality(old) <= LimitBar * losses[ip]
  /\ Cardinality(Grants(ip) \ old) <= granted[ip]
  /\ ~Exists(ip) => old = Grants(ip)
  /\ \A g \in Grants(ip) \ old : g[1] >= BucketTTL - ttl[ip]

Accounted(ip) == IsFiniteSet(Grants(ip)) /\ \E old : Charged(ip, old)

WindowAccounted == \A ip \in IPs : Accounted(ip)

(* The inductive invariant.                                                *)
WInv == Inv /\ RecordTypes /\ WindowAccounted

-----------------------------------------------------------------------------
(* Counting grants                                                         *)

(* A grant is its age and its number among the grants of that age.         *)
LEMMA GrantsAre ==
  ASSUME NEW ip \in IPs, RecordTypes
  PROVE  /\ \A a \in Ages, m \in Nat : <<a, m>> \in Grants(ip) <=> m \in 1 .. recent[ip][a]
         /\ \A g \in Grants(ip) : /\ g = <<g[1], g[2]>> /\ g[1] \in Ages /\ g[2] \in Nat
                                  /\ g[2] \in 1 .. recent[ip][g[1]]
  <1>1. \A g : g \in Grants(ip) <=> \E a \in Ages : \E m \in 1 .. recent[ip][a] : g = <<a, m>>
    BY DEF Grants
  <1>2. \A a \in Ages : recent[ip][a] \in Nat
    BY DEF RecordTypes
  <1>3. QED
    BY <1>1, <1>2

(* The ages of a window are numbers, and 0 is one of them.                 *)
LEMMA AgesAre == /\ BucketTTL \in Nat \ {0} /\ 0 \in Ages
                 /\ \A a : a \in Ages <=> a \in Nat /\ a < BucketTTL
  BY BucketAssumption, WindowAssumption DEF Ages

(* A bucket's worth more for one loss more.                                *)
LEMMA OneLossMore ==
  ASSUME NEW n \in Nat
  PROVE  /\ LimitBar \in Nat /\ LimitBar * n \in Nat
         /\ LimitBar * (n + 1) = LimitBar * n + LimitBar
         /\ LimitBar * (1 + n) = LimitBar * n + LimitBar
  <1>1. LimitBar \in Nat
    BY BucketAssumption DEF LimitBar
  <1>2. QED
    BY <1>1

(* A bucket grants at most LimitBar tokens.                                *)
LEMMA GrantedBound ==
  ASSUME NEW ip \in IPs, Inv
  PROVE  granted[ip] \in Nat /\ granted[ip] <= LimitBar
  <1>1. granted[ip] \in Nat /\ tokens[ip] \in Int
    BY DEF Inv, TypeOK
  <1>2. QED
    BY <1>1, BucketAssumption DEF Inv, BucketConserved, LimitBar

(* All grants of the window, charged or not.                               *)
LEMMA WindowTotal ==
  ASSUME NEW ip \in IPs, Inv, RecordTypes, Accounted(ip)
  PROVE  /\ Cardinality(Grants(ip)) \in Nat
         /\ Cardinality(Grants(ip)) <= LimitBar * (1 + losses[ip])
  <1> DEFINE G == Grants(ip)
  <1>1. IsFiniteSet(G)
    BY DEF Accounted
  <1>2. PICK old : Charged(ip, old)
    BY DEF Accounted
  <1>3. /\ old \in SUBSET G /\ Cardinality(old) <= LimitBar * losses[ip]
        /\ Cardinality(G \ old) <= granted[ip]
    BY <1>2 DEF Charged
  <1> HIDE DEF G
  <1>4. IsFiniteSet(old) /\ IsFiniteSet(G \ old)
    BY <1>1, <1>3, FS_Subset
  <1>5. old \cup (G \ old) = G /\ old \cap (G \ old) = {}
    BY <1>3
  <1>6. Cardinality(old \cup (G \ old)) =
          Cardinality(old) + Cardinality(G \ old) - Cardinality(old \cap (G \ old))
    BY <1>4, FS_Union
  <1>7. Cardinality(old) \in Nat /\ Cardinality(G \ old) \in Nat /\ Cardinality(G) \in Nat
    BY <1>1, <1>4, FS_CardinalityType
  <1>8. Cardinality(G) = Cardinality(old) + Cardinality(G \ old)
    <2>1. Cardinality(old \cup (G \ old)) = Cardinality(G)
      BY <1>5, Zenon
    <2>2. Cardinality(old \cap (G \ old)) = 0
      BY <1>5, FS_EmptySet, Zenon
    <2>3. QED
      BY <1>6, <1>7, <2>1, <2>2
  <1>9. losses[ip] \in Nat
    BY DEF RecordTypes
  <1>10. /\ LimitBar * losses[ip] \in Nat /\ LimitBar \in Nat
         /\ LimitBar * (1 + losses[ip]) = LimitBar * losses[ip] + LimitBar
    BY <1>9, OneLossMore
  <1>11. granted[ip] \in Nat /\ granted[ip] <= LimitBar
    BY GrantedBound
  <1>12. Cardinality(G) <= LimitBar * (1 + losses[ip])
    BY <1>3, <1>7, <1>8, <1>10, <1>11
  <1>13. QED
    BY <1>7, <1>12 DEF G

-----------------------------------------------------------------------------
(* The record through a step                                               *)

(* Nothing happens to the key of ip, or its TTL starts again.              *)
LEMMA AccountKept ==
  ASSUME NEW ip \in IPs, RecordTypes, Accounted(ip),
         recent'[ip] = recent[ip], losses'[ip] = losses[ip], granted'[ip] = granted[ip],
         ttl'[ip] = ttl[ip] \/ ttl'[ip] = BucketTTL
  PROVE  Accounted(ip)'
  <1>1. Grants(ip)' = Grants(ip)
    BY DEF Grants
  <1>2. PICK old : Charged(ip, old)
    BY DEF Accounted
  <1>3. \A g \in Grants(ip) : g[1] \in Nat
    BY GrantsAre, AgesAre
  <1>4. BucketTTL \in Nat \ {0}
    BY AgesAre
  <1>5. Charged(ip, old)'
    BY <1>1, <1>2, <1>3, <1>4 DEF Charged, Exists, Missing
  <1>6. QED
    BY <1>1, <1>5 DEF Accounted

(* A grant: one more of age 0, counted by the bucket.                      *)
LEMMA AccountGrant ==
  ASSUME NEW ip \in IPs, RecordTypes, RecordTypes', Accounted(ip), granted[ip] \in Nat,
         recent'[ip] = [recent[ip] EXCEPT ![0] = @ + 1], losses'[ip] = losses[ip],
         granted'[ip] = granted[ip] + 1, ttl'[ip] = BucketTTL
  PROVE  Accounted(ip)'
  <1> DEFINE G == Grants(ip)
             H == Grants(ip)'
             x == <<0, recent[ip][0] + 1>>
  <1>a. BucketTTL \in Nat \ {0} /\ 0 \in Ages /\ \A a \in Ages : a \in Nat
    BY AgesAre
  <1>0. recent[ip] \in [Ages -> Nat] /\ recent[ip][0] \in Nat
    BY <1>a DEF RecordTypes
  <1>1. /\ recent'[ip][0] = recent[ip][0] + 1
        /\ \A a \in Ages : a # 0 => recent'[ip][a] = recent[ip][a]
    BY <1>a, <1>0
  <1>2. /\ \A a \in Ages, m \in Nat : <<a, m>> \in G <=> m \in 1 .. recent[ip][a]
        /\ \A g \in G : /\ g = <<g[1], g[2]>> /\ g[1] \in Ages /\ g[2] \in Nat
                        /\ g[2] \in 1 .. recent[ip][g[1]]
    BY GrantsAre
  <1>3. \A g : g \in H <=> \E a \in Ages : \E m \in 1 .. recent'[ip][a] : g = <<a, m>>
    BY DEF Grants
  <1>4. \A g : g \in G <=> \E a \in Ages : \E m \in 1 .. recent[ip][a] : g = <<a, m>>
    BY DEF Grants
  <1> HIDE DEF G, H
  <1>5. x \notin G
    BY <1>0, <1>4
  <1>6. H = G \cup {x}
    <2>1. ASSUME NEW a \in Ages, NEW m \in 1 .. recent'[ip][a] PROVE <<a, m>> \in G \cup {x}
      <3>1. CASE a = 0 /\ m = recent[ip][0] + 1
        BY <3>1
      <3>2. CASE ~(a = 0 /\ m = recent[ip][0] + 1)
        <4>1. m \in 1 .. recent[ip][a]
          BY <1>0, <1>1, <3>2
        <4>2. QED
          BY <1>4, <4>1
      <3>3. QED
        BY <3>1, <3>2
    <2>2. ASSUME NEW a \in Ages, NEW m \in 1 .. recent[ip][a] PROVE <<a, m>> \in H
      <3>1. m \in 1 .. recent'[ip][a]
        BY <1>0, <1>1
      <3>2. QED
        BY <1>3, <3>1
    <2>3. x \in H
      <3>1. recent[ip][0] + 1 \in 1 .. recent'[ip][0]
        BY <1>0, <1>1
      <3>2. QED
        BY <1>a, <1>3, <3>1
    <2>4. H \subseteq G \cup {x}
      BY <1>3, <2>1
    <2>5. G \subseteq H
      BY <1>4, <2>2
    <2>6. QED
      BY <2>3, <2>4, <2>5
  <1>7. IsFiniteSet(G) /\ IsFiniteSet(H)
    <2>1. IsFiniteSet(G)
      BY DEF Accounted, G
    <2>2. QED
      BY <1>6, <2>1, FS_AddElement
  <1>8. PICK old : Charged(ip, old)
    BY DEF Accounted
  <1>9. /\ old \subseteq G /\ Cardinality(old) <= LimitBar * losses[ip]
        /\ Cardinality(G \ old) <= granted[ip]
    BY <1>8 DEF Charged, G
  <1>10. H \ old = (G \ old) \cup {x} /\ x \notin G \ old
    BY <1>5, <1>6, <1>9
  <1>11. IsFiniteSet(G \ old)
    BY <1>7, FS_Subset
  <1>12. Cardinality(H \ old) = Cardinality(G \ old) + 1 /\ Cardinality(G \ old) \in Nat
    <2>1. Cardinality((G \ old) \cup {x}) = Cardinality(G \ old) + 1
      BY <1>10, <1>11, FS_AddElement, Zenon
    <2>2. Cardinality(G \ old) \in Nat
      BY <1>11, FS_CardinalityType
    <2>3. QED
      BY <1>10, <2>1, <2>2, Zenon
  <1>13. Cardinality(H \ old) <= granted'[ip]
    BY <1>9, <1>12
  <1>14. \A g \in H \ old : g[1] >= BucketTTL - ttl'[ip]
    <2>1. \A g \in H : g[1] \in Nat
      BY <1>a, <1>3
    <2>2. QED
      BY <1>a, <2>1
  <1>15. Charged(ip, old)'
    BY <1>a, <1>6, <1>9, <1>13, <1>14 DEF Charged, Exists, Missing, H
  <1>16. QED
    BY <1>7, <1>15 DEF Accounted, H

(* A loss: everything in the window is charged to it.                      *)
LEMMA AccountLoss ==
  ASSUME NEW ip \in IPs, Inv, RecordTypes, Accounted(ip), granted'[ip] \in Nat,
         recent'[ip] = recent[ip], losses'[ip] = losses[ip] + 1
  PROVE  Accounted(ip)'
  <1>1. Grants(ip)' = Grants(ip)
    BY DEF Grants
  <1>2. Cardinality(Grants(ip)) <= LimitBar * losses'[ip]
    <2>1. losses[ip] \in Nat
      BY DEF RecordTypes
    <2>2. LimitBar * (1 + losses[ip]) = LimitBar * (losses[ip] + 1)
      BY <2>1, OneLossMore
    <2>3. QED
      BY <2>2, WindowTotal
  <1>3. Grants(ip) \ Grants(ip) = {}
    OBVIOUS
  <1>4. Cardinality(Grants(ip) \ Grants(ip)) <= granted'[ip]
    BY <1>3, FS_EmptySet
  <1>5. IsFiniteSet(Grants(ip))
    BY DEF Accounted
  <1> DEFINE old == Grants(ip)
  <1>6. /\ old \subseteq Grants(ip)' /\ Cardinality(old) <= LimitBar * losses'[ip]
        /\ Cardinality(Grants(ip)' \ old) <= granted'[ip]
        /\ old = Grants(ip)' /\ Grants(ip)' \ old = {}
    BY <1>1, <1>2, <1>4
  <1> HIDE DEF old
  <1>7. \E o : Charged(ip, o)'
    BY <1>6 DEF Charged
  <1>8. QED
    BY <1>1, <1>5, <1>7 DEF Accounted

(* A second passes: what is left of the window is what it was, one second  *)
(* older; and when the TTL runs out, the bucket's own grants have left.    *)
LEMMA AccountTick ==
  ASSUME NEW ip \in IPs, Inv, RecordTypes, RecordTypes', Accounted(ip),
         recent'[ip] = [a \in Ages |-> IF a = 0 THEN 0 ELSE recent[ip][a - 1]],
         losses'[ip] = losses[ip],
         \/ ttl[ip] = -2 /\ ttl'[ip] = -2 /\ granted'[ip] = granted[ip]
         \/ ttl[ip] = 1 /\ ttl'[ip] = -2 /\ granted'[ip] = 0
         \/ ttl[ip] \in Nat /\ ttl'[ip] = ttl[ip] - 1 /\ ttl[ip] > 1 /\ granted'[ip] = granted[ip]
  PROVE  Accounted(ip)'
  <1> DEFINE G == Grants(ip)
             H == Grants(ip)'
             f == [h \in H |-> <<h[1] - 1, h[2]>>]
  <1>a. BucketTTL \in Nat \ {0} /\ \A a : a \in Ages <=> a \in Nat /\ a < BucketTTL
    BY AgesAre
  <1>1. \A a \in Ages, m \in Nat : <<a, m>> \in G <=> m \in 1 .. recent[ip][a]
    BY GrantsAre
  <1>2. \A g \in G : g[1] \in Nat
    BY <1>a, GrantsAre
  <1>3. \A h \in H : /\ h = <<h[1], h[2]>> /\ h[1] \in Ages /\ h[2] \in Nat
                     /\ h[2] \in 1 .. recent'[ip][h[1]]
    <2>1. \A h : h \in H <=> \E a \in Ages : \E m \in 1 .. recent'[ip][a] : h = <<a, m>>
      BY DEF Grants
    <2>2. \A a \in Ages : recent'[ip][a] \in Nat
      BY DEF RecordTypes
    <2> HIDE DEF H
    <2>3. QED
      BY <2>1, <2>2
  <1> HIDE DEF G, H
  <1>4. ASSUME NEW h \in H PROVE h[1] > 0 /\ <<h[1] - 1, h[2]>> \in G
    <2>1. h[1] # 0
      BY <1>3
    <2>2. h[1] \in Nat /\ h[1] - 1 \in Ages /\ h[2] \in 1 .. recent[ip][h[1] - 1] /\ h[2] \in Nat
      BY <1>a, <1>3, <2>1
    <2>3. QED
      BY <1>1, <2>1, <2>2
  <1>5. /\ \A h \in H : f[h] \in G /\ f[h][1] = h[1] - 1
        /\ \A h, i \in H : f[h] = f[i] => h = i
    <2>1. \A h \in H : f[h] = <<h[1] - 1, h[2]>>
      OBVIOUS
    <2> HIDE DEF f
    <2>2. ASSUME NEW h \in H, NEW i \in H, f[h] = f[i] PROVE h = i
      <3>1. h[1] - 1 = i[1] - 1 /\ h[2] = i[2]
        BY <2>1, <2>2
      <3>2. h[1] \in Int /\ i[1] \in Int
        BY <1>a, <1>3
      <3>3. h[1] = i[1]
        BY <3>1, <3>2
      <3>4. QED
        BY <1>3, <3>1, <3>3
    <2>3. \A h \in H : f[h] \in G
      BY <1>4, <2>1
    <2>4. \A h \in H : f[h][1] = h[1] - 1
      BY <2>1
    <2>5. QED
      BY <2>2, <2>3, <2>4
  <1> HIDE DEF f
  (* Grants of now that were in S are no more than S.                      *)
  <1>6. ASSUME NEW S \in SUBSET G, IsFiniteSet(S), NEW T \in SUBSET H, \A h \in T : f[h] \in S
        PROVE  IsFiniteSet(T) /\ Cardinality(T) <= Cardinality(S)
    <2> DEFINE ft == [h \in T |-> f[h]]
    <2>1. ft \in [T -> S] /\ \A h, i \in T : ft[h] = ft[i] => h = i
      BY <1>5, <1>6
    <2> HIDE DEF ft
    <2>2. ft \in Injection(T, S)
      BY <2>1 DEF Injection, IsInjective
    <2>3. QED
      BY <1>6, <2>2, FS_Injection
  <1>7. IsFiniteSet(G)
    BY DEF Accounted, G
  <1>8. PICK old : Charged(ip, old)
    BY DEF Accounted
  <1>9. /\ old \subseteq G /\ Cardinality(old) <= LimitBar * losses[ip]
        /\ Cardinality(G \ old) <= granted[ip]
        /\ ttl[ip] = -2 => old = G
        /\ \A g \in G \ old : g[1] >= BucketTTL - ttl[ip]
    BY <1>8 DEF Charged, G, Exists, Missing
  <1> DEFINE new == {h \in H : f[h] \in old}
  <1>10. IsFiniteSet(old) /\ IsFiniteSet(G \ old)
    BY <1>7, <1>9, FS_Subset
  <1>11. IsFiniteSet(H)
    BY <1>5, <1>6, <1>7
  <1>12. Cardinality(new) <= Cardinality(old) /\ IsFiniteSet(new)
    BY <1>6, <1>9, <1>10
  <1>13. Cardinality(H \ new) <= Cardinality(G \ old) /\ IsFiniteSet(H \ new)
    BY <1>5, <1>6, <1>10
  <1>14. \A h \in H \ new : f[h] \in G \ old /\ h[1] < BucketTTL /\ h[1] \in Nat
                            /\ h[1] - 1 >= BucketTTL - ttl[ip] /\ ttl[ip] # -2
    <2> SUFFICES ASSUME NEW h \in H \ new
                 PROVE  f[h] \in G \ old /\ h[1] < BucketTTL /\ h[1] \in Nat
                        /\ h[1] - 1 >= BucketTTL - ttl[ip] /\ ttl[ip] # -2
      OBVIOUS
    <2>1. f[h] \in G \ old /\ f[h][1] = h[1] - 1
      BY <1>5
    <2>2. h[1] < BucketTTL /\ h[1] \in Nat
      BY <1>a, <1>3
    <2>3. QED
      BY <1>9, <2>1, <2>2
  <1>n. new \subseteq H
    OBVIOUS
  <1>c. /\ Cardinality(new) \in Nat /\ Cardinality(old) \in Nat /\ Cardinality(H \ new) \in Nat
        /\ Cardinality(G \ old) \in Nat
    BY <1>10, <1>12, <1>13, FS_CardinalityType
  <1> HIDE DEF new
  <1>15. Cardinality(new) <= LimitBar * losses'[ip]
    <2>1. losses[ip] \in Nat
      BY DEF RecordTypes
    <2>2. LimitBar * losses[ip] \in Nat
      BY <2>1, OneLossMore
    <2>3. QED
      BY <1>9, <1>12, <1>c, <2>2
  <1>16. granted[ip] \in Nat
    BY GrantedBound
  <1>17. CASE ttl[ip] = -2 \/ ttl[ip] = 1
    <2>1. H \ new = {}
      BY <1>a, <1>14, <1>17
    <2>2. Cardinality(H \ new) = 0 /\ new = H
      BY <1>n, <2>1, FS_EmptySet
    <2>3. Cardinality(H \ new) <= granted'[ip]
      BY <1>16, <1>17, <2>2
    <2>4. \E o : Charged(ip, o)'
      BY <1>n, <1>15, <2>1, <2>2, <2>3 DEF Charged, H
    <2>5. QED
      BY <1>11, <2>4 DEF Accounted, H
  <1>18. CASE /\ ttl[ip] \in Nat /\ ttl'[ip] = ttl[ip] - 1 /\ ttl[ip] > 1
              /\ granted'[ip] = granted[ip]
    <2>1. Cardinality(H \ new) <= granted'[ip]
      BY <1>9, <1>13, <1>c, <1>16, <1>18
    <2>2. \A h \in H \ new : h[1] >= BucketTTL - ttl'[ip]
      BY <1>a, <1>14, <1>18
    <2>3. ttl'[ip] # -2
      BY <1>18
    <2>4. \E o : Charged(ip, o)'
      BY <1>n, <1>15, <2>1, <2>2, <2>3 DEF Charged, H, Exists, Missing
    <2>5. QED
      BY <1>11, <2>4 DEF Accounted, H
  <1>19. QED
    BY <1>17, <1>18

(* A run of the script, with its record.                                   *)
LEMMA RunAccounted ==
  ASSUME NEW ip \in IPs, WInv, Apply(ip), Record(ip), UNCHANGED losses
  PROVE  RecordTypes' /\ WindowAccounted'
  <1> DEFINE r == RunScript(ip)
  <1>t. RecordTypes /\ TypeOK /\ granted[ip] \in Nat /\ Accounted(ip)
    BY DEF WInv, Inv, TypeOK, WindowAccounted
  <1>a. BucketTTL \in Nat \ {0} /\ 0 \in Ages
    BY AgesAre
  <1>1. r.ttl = BucketTTL
    <2>1. Inv
      BY DEF WInv
    <2>2. BucketTTL <= 0 \/ r.ttl = BucketTTL
      BY <2>1, ScriptCases, Zenon
    <2>3. QED
      BY <1>a, <2>2
  <1>2. /\ ttl' = [ttl EXCEPT ![ip] = r.ttl]
        /\ granted' = [granted EXCEPT ![ip] = IF IsToken(r) THEN @ + 1 ELSE @]
        /\ recent' = IF IsToken(r) THEN [recent EXCEPT ![ip][0] = @ + 1] ELSE recent
    BY DEF Apply, Record
  <1> HIDE DEF r
  <1>3. RecordTypes'
    BY <1>t, <1>a, <1>2 DEF RecordTypes
  <1>4. /\ ttl'[ip] = BucketTTL
        /\ \A jp \in IPs : jp # ip => /\ ttl'[jp] = ttl[jp] /\ granted'[jp] = granted[jp]
                                      /\ recent'[jp] = recent[jp]
    BY <1>t, <1>1, <1>2 DEF TypeOK, RecordTypes
  <1>5. Accounted(ip)'
    <2>1. CASE IsToken(r)
      <3>1. granted'[ip] = granted[ip] + 1
        BY <1>t, <1>2, <2>1 DEF TypeOK
      <3>2. recent'[ip] = [recent[ip] EXCEPT ![0] = @ + 1]
        BY <1>t, <1>2, <2>1 DEF RecordTypes
      <3>3. QED
        BY <1>t, <1>3, <1>4, <3>1, <3>2, AccountGrant
    <2>2. CASE ~IsToken(r)
      <3>1. granted'[ip] = granted[ip] /\ recent'[ip] = recent[ip]
        BY <1>t, <1>2, <2>2 DEF TypeOK
      <3>2. QED
        BY <1>t, <1>4, <3>1, AccountKept
    <2>3. QED
      BY <2>1, <2>2
  <1>6. ASSUME NEW jp \in IPs, jp # ip PROVE Accounted(jp)'
    <2>1. Accounted(jp)
      BY DEF WInv, WindowAccounted
    <2>2. QED
      BY <1>t, <1>4, <1>6, <2>1, AccountKept
  <1>7. QED
    BY <1>3, <1>5, <1>6 DEF WindowAccounted

(* An eviction or a failover, charged as a loss.                           *)
LEMMA LossAccounted ==
  ASSUME NEW ip \in IPs, WInv, Inv', WLose(ip)
  PROVE  RecordTypes' /\ WindowAccounted'
  <1>t. RecordTypes /\ TypeOK /\ Inv /\ WindowAccounted
    BY DEF WInv, Inv
  <1>1. losses' = [losses EXCEPT ![ip] = @ + 1] /\ recent' = recent
    BY DEF WLose
  <1>2. RecordTypes'
    BY <1>t, <1>1 DEF RecordTypes
  <1>3. \A jp \in IPs : jp # ip => ttl'[jp] = ttl[jp] /\ granted'[jp] = granted[jp]
    <2>1. CASE Evict(ip)
      BY <1>t, <2>1 DEF Evict, Forget, TypeOK
    <2>2. CASE Failover(ip)
      BY <1>t, <2>2 DEF Failover, TypeOK
    <2>3. QED
      BY <2>1, <2>2 DEF WLose
  <1>4. /\ losses'[ip] = losses[ip] + 1
        /\ \A jp \in IPs : jp # ip => losses'[jp] = losses[jp]
    BY <1>t, <1>1 DEF RecordTypes
  <1>5. Accounted(ip)'
    <2>1. granted'[ip] \in Nat
      BY DEF Inv, TypeOK
    <2>2. QED
      BY <1>t, <1>1, <1>4, <2>1, AccountLoss DEF WindowAccounted
  <1>6. ASSUME NEW jp \in IPs, jp # ip PROVE Accounted(jp)'
    BY <1>t, <1>1, <1>3, <1>4, <1>6, AccountKept DEF WindowAccounted
  <1>7. QED
    BY <1>2, <1>5, <1>6 DEF WindowAccounted

(* A second passes for every key and every record.                         *)
LEMMA TickAccounted ==
  ASSUME WInv, WTick
  PROVE  RecordTypes' /\ WindowAccounted'
  <1>t. RecordTypes /\ TypeOK /\ Inv /\ WindowAccounted
    BY DEF WInv, Inv
  <1>a. \A a : a \in Ages <=> a \in Nat /\ a < BucketTTL
    BY AgesAre
  <1>1. /\ recent' = [ip \in IPs |-> [a \in Ages |-> IF a = 0 THEN 0 ELSE recent[ip][a - 1]]]
        /\ losses' = losses
    BY DEF WTick
  <1>2. RecordTypes'
    <2>1. \A ip \in IPs : \A a \in Ages : a # 0 => recent[ip][a - 1] \in Nat
      <3>1. \A a \in Ages : a # 0 => a - 1 \in Ages
        BY <1>a, BucketAssumption
      <3>2. QED
        BY <1>t, <3>1 DEF RecordTypes
    <2>2. QED
      BY <1>t, <1>1, <2>1 DEF RecordTypes
  <1>3. ASSUME NEW ip \in IPs PROVE Accounted(ip)'
    <2>1. ttl[ip] = -2 \/ ttl[ip] \in 1 .. BucketTTL
      BY <1>t DEF Inv, KeysExpire, Exists, Missing
    <2>2. /\ ttl'[ip] = IF ttl[ip] = 1 THEN -2 ELSE IF ttl[ip] > 1 THEN ttl[ip] - 1 ELSE ttl[ip]
          /\ granted'[ip] = IF ttl[ip] = 1 THEN 0 ELSE granted[ip]
      BY DEF WTick, Tick, Forget, Missing
    <2>3. \/ ttl[ip] = -2 /\ ttl'[ip] = -2 /\ granted'[ip] = granted[ip]
          \/ ttl[ip] = 1 /\ ttl'[ip] = -2 /\ granted'[ip] = 0
          \/ ttl[ip] \in Nat /\ ttl'[ip] = ttl[ip] - 1 /\ ttl[ip] > 1 /\ granted'[ip] = granted[ip]
      BY <2>1, <2>2, BucketAssumption
    <2>4. recent'[ip] = [a \in Ages |-> IF a = 0 THEN 0 ELSE recent[ip][a - 1]]
      BY <1>1
    <2>5. QED
      BY <1>t, <1>1, <1>2, <2>3, <2>4, AccountTick DEF WindowAccounted
  <1>4. QED
    BY <1>2, <1>3 DEF WindowAccounted

-----------------------------------------------------------------------------
(* The results                                                             *)

(* With its record the bucket takes the steps it takes without.            *)
LEMMA BucketStep == [WNext]_wvars => [Next]_vars
  BY DEF WNext, wvars, WExecute, WExecuteOrphan, WLose, WTick, WCall, Next

(* The initial states satisfy the invariant.                               *)
LEMMA WInitInv == WInit => WInv
  <1> SUFFICES ASSUME WInit PROVE WInv
    OBVIOUS
  <1>1. Inv
    BY InitInv DEF WInit
  <1>2. RecordTypes
    BY DEF WInit, RecordTypes
  <1>3. ASSUME NEW ip \in IPs PROVE Accounted(ip)
    <2>1. Grants(ip) = {}
      BY DEF WInit, Grants
    <2>2. granted[ip] \in Nat /\ losses[ip] = 0
      BY <1>1, <1>3 DEF Inv, TypeOK, WInit
    <2>3. LimitBar * losses[ip] \in Nat
      BY <2>2, OneLossMore
    <2>4. Charged(ip, {})
      BY <2>1, <2>2, <2>3, FS_EmptySet DEF Charged
    <2>5. QED
      BY <2>1, <2>4, FS_EmptySet DEF Accounted
  <1>4. QED
    BY <1>1, <1>2, <1>3 DEF WInv, WindowAccounted

(* Every step keeps the invariant.                                         *)
LEMMA WNextInv == WInv /\ [WNext]_wvars => WInv'
  <1> SUFFICES ASSUME WInv, [WNext]_wvars PROVE WInv'
    OBVIOUS
  <1>b. Inv /\ Inv' /\ RecordTypes /\ WindowAccounted /\ TypeOK
    BY BucketStep, NextInv DEF WInv, Inv
  <1>1. ASSUME NEW c \in Callers, WExecute(c) PROVE RecordTypes' /\ WindowAccounted'
    <2>1. target[c] \in IPs
      BY <1>1, <1>b DEF WExecute, Execute, TypeOK
    <2>2. QED
      BY <1>1, <2>1, RunAccounted DEF WExecute, Execute
  <1>2. ASSUME NEW ip \in IPs, WExecuteOrphan(ip) PROVE RecordTypes' /\ WindowAccounted'
    BY <1>2, RunAccounted DEF WExecuteOrphan, ExecuteOrphan
  <1>3. ASSUME NEW ip \in IPs, WLose(ip) PROVE RecordTypes' /\ WindowAccounted'
    BY <1>3, <1>b, LossAccounted
  <1>4. ASSUME WTick PROVE RecordTypes' /\ WindowAccounted'
    BY <1>4, TickAccounted
  <1>5. ASSUME UNCHANGED <<store, recent, losses>> PROVE RecordTypes' /\ WindowAccounted'
    <2>1. RecordTypes'
      BY <1>5, <1>b DEF RecordTypes
    <2>2. ASSUME NEW ip \in IPs PROVE Accounted(ip)'
      BY <1>5, <1>b, AccountKept DEF store, WindowAccounted
    <2>3. QED
      BY <2>1, <2>2 DEF WindowAccounted
  <1>6. ASSUME WCall PROVE RecordTypes' /\ WindowAccounted'
    <2>1. UNCHANGED <<store, recent, losses>>
      BY <1>6 DEF WCall, Decrement, Receive, Retry, GiveUp, Finish, Crash
    <2>2. QED
      BY <1>5, <2>1
  <1>7. ASSUME UNCHANGED wvars PROVE RecordTypes' /\ WindowAccounted'
    BY <1>5, <1>7 DEF wvars, vars, store
  <1>8. RecordTypes' /\ WindowAccounted'
    BY <1>1, <1>2, <1>3, <1>4, <1>6, <1>7 DEF WNext
  <1>9. QED
    BY <1>b, <1>8 DEF WInv

(* The rate limit: in any BucketTTL consecutive seconds an address is      *)
(* granted at most BucketSize tokens, plus a full bucket for every time    *)
(* Redis lost its key or fell back to an older state of it.                *)
THEOREM RateIsLimited == WSpec => []RateLimited
  <1>1. WInv => RateLimited
    BY WindowTotal DEF WInv, WindowAccounted, RateLimited, InWindow
  <1>2. QED
    BY <1>1, WInitInv, WNextInv, PTL DEF WSpec

(* The record adds nothing to the bucket and takes nothing away, so the    *)
(* theorems about TokenBucket hold of WSpec too.                           *)
THEOREM RecordedBucketIsBucket == WSpec => Spec
  <1>1. WInit => Init
    BY DEF WInit
  <1>2. QED
    BY <1>1, BucketStep, PTL DEF WSpec, Spec

=============================================================================
