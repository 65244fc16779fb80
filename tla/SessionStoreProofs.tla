------------------------- MODULE SessionStoreProofs -------------------------
(***************************************************************************)
(* Proofs about SessionStore, for every set of requests and addresses,     *)
(* every window length and every set of model outputs.                     *)
(***************************************************************************)
EXTENDS SessionStore, SequenceTheorems, TLAPS

(* Where Scorer.score is once the vector may be in the store.              *)
Written == {"pushed", "scored", "done", "failed"}

(* q is a window of vectors of subnet k that were written, none twice, and *)
(* in the order of the pushes that did not overlap.                        *)
InOrder(q, k, st, a, e) ==
  /\ q \in Seq(Requests) /\ Len(q) <= MaxSeqLen
  /\ \A i \in 1 .. Len(q) : st[q[i]] \in Written /\ IpToSubnet(a[q[i]]) = k
  /\ \A i, j \in 1 .. Len(q) : i < j => q[i] # q[j] /\ q[j] \notin e[q[i]]

(* q has the vector of r and after it only later ones, or a whole window   *)
(* of later ones.                                                          *)
Covers(q, r, e) ==
  \E i \in 0 .. Len(q) :
    /\ i = 0 => Len(q) = MaxSeqLen
    /\ i > 0 => q[i] = r
    /\ \A j \in 1 .. Len(q) : j > i => r \in e[q[j]]

(* Types, and what a call has set by the time it is somewhere.             *)
Types ==
  /\ stage \in [Requests -> Stages]
  /\ ip \in [Requests -> IPs \cup {NoIP}]
  /\ copy \in [Requests -> Seq(Requests)]
  /\ iso \in [Requests -> 0 .. 100]
  /\ score \in [Requests -> 0 .. 100 \cup {NoScore}]
  /\ sequences \in [Subnets -> Seq(Requests)]
  /\ baseline \in BOOLEAN /\ session \in BOOLEAN
  /\ earlier \in [Requests -> SUBSET Requests]
  /\ disturbed \in [Requests -> BOOLEAN]
  /\ used \in [Requests -> SUBSET {"iso", "lstm"}]
  /\ \A r \in Requests : /\ stage[r] # "new" => ip[r] \in IPs
                         /\ stage[r] \in {"pushed", "scored"} => copy[r] = <<>>

StoreInOrder == \A k \in Subnets : InOrder(sequences[k], k, stage, ip, earlier)
CopiesInOrder ==
  \A r \in Requests : stage[r] # "new" => InOrder(copy[r], Key(r), stage, ip, earlier)

(* A push that had ended has been written.                                 *)
EarlierWritten == \A r, x \in Requests : x \in earlier[r] => stage[x] \in Written

(* A push that met no other is kept by the store, and by whoever has read  *)
(* the store since.                                                        *)
PushKept ==
  \A r \in Requests : stage[r] \in {"pushed", "scored"} /\ ~disturbed[r] =>
    /\ Covers(sequences[Key(r)], r, earlier)
    /\ \A s \in Requests : stage[s] \in {"read", "late"} /\ Key(s) = Key(r) =>
         r \in earlier[s] /\ Covers(copy[s], r, earlier)

(* What the network was given.                                             *)
GivenKept ==
  \A r \in Requests : stage[r] = "done" /\ ~disturbed[r] /\ copy[r] # <<>> =>
    Covers(copy[r], r, earlier)

(* A score comes last, and an isolation score without a model is neutral.  *)
ScoredInOrder ==
  \A r \in Requests : /\ stage[r] # "done" => score[r] = NoScore
                      /\ stage[r] = "scored" => "iso" \in used[r] \/ iso[r] = Neutral

(* The inductive invariant; BlockNeedsBothModels is added to it where the  *)
(* threshold allows.                                                       *)
Inv == /\ Types /\ StoreInOrder /\ CopiesInOrder /\ EarlierWritten
       /\ PushKept /\ GivenKept /\ ScoredInOrder

-----------------------------------------------------------------------------
(* Windows                                                                 *)

(* The trimmed window: the new vector is last, and the first is dropped    *)
(* only when the window was full.                                          *)
LEMMA ExtendedShape ==
  ASSUME NEW q \in Seq(Requests), Len(q) <= MaxSeqLen, NEW r \in Requests
  PROVE  /\ Extended(q, r) \in Seq(Requests)
         /\ \E d \in {0, 1} :
              /\ d = 1 <=> Len(q) = MaxSeqLen
              /\ Len(Extended(q, r)) = Len(q) + 1 - d
              /\ \A i \in 1 .. Len(q) + 1 - d :
                   Extended(q, r)[i] = IF i + d <= Len(q) THEN q[i + d] ELSE r
  <1> DEFINE s == Append(q, r)
             lo == IF Len(s) > MaxSeqLen THEN Len(s) - MaxSeqLen + 1 ELSE 1
             d == lo - 1
  <1>1. /\ s \in Seq(Requests) /\ Len(s) = Len(q) + 1 /\ Len(q) \in Nat
        /\ \A i \in 1 .. Len(q) + 1 : s[i] = IF i <= Len(q) THEN q[i] ELSE r
    OBVIOUS
  <1>2. Extended(q, r) = SubSeq(s, lo, Len(s))
    BY DEF Extended
  <1> HIDE DEF s
  <1>3. lo \in {1, 2} /\ (lo = 2 <=> Len(q) = MaxSeqLen)
    BY <1>1, SessionAssumption
  <1> HIDE DEF lo
  <1>4. /\ SubSeq(s, lo, Len(s)) \in Seq(Requests)
        /\ Len(SubSeq(s, lo, Len(s))) = Len(s) - lo + 1
        /\ \A i \in 1 .. Len(s) - lo + 1 : SubSeq(s, lo, Len(s))[i] = s[lo + i - 1]
    BY <1>1, <1>3
  <1>5. d \in {0, 1} /\ (d = 1 <=> Len(q) = MaxSeqLen)
    BY <1>3
  <1>6. Len(Extended(q, r)) = Len(q) + 1 - d
    BY <1>1, <1>2, <1>3, <1>4
  <1>7. \A i \in 1 .. Len(q) + 1 - d :
           Extended(q, r)[i] = IF i + d <= Len(q) THEN q[i + d] ELSE r
    <2> SUFFICES ASSUME NEW i \in 1 .. Len(q) + 1 - d
                 PROVE  Extended(q, r)[i] = IF i + d <= Len(q) THEN q[i + d] ELSE r
      OBVIOUS
    <2>1. i \in 1 .. Len(s) - lo + 1 /\ lo + i - 1 = i + d /\ i + d \in 1 .. Len(q) + 1
      BY <1>1, <1>3
    <2>2. Extended(q, r)[i] = s[i + d]
      BY <1>2, <1>4, <2>1
    <2>3. QED
      BY <1>1, <2>1, <2>2
  <1>8. Extended(q, r) \in Seq(Requests)
    BY <1>2, <1>4
  <1> HIDE DEF d
  <1>9. QED
    BY <1>5, <1>6, <1>7, <1>8

(* An empty window is in order.                                            *)
LEMMA EmptyInOrder == \A k, st, a, e : InOrder(<<>>, k, st, a, e)
  BY SessionAssumption DEF InOrder

(* Extending a window keeps it in order.                                   *)
LEMMA ExtendedInOrder ==
  ASSUME NEW q, NEW k, NEW st, NEW a, NEW e, NEW st2, NEW r \in Requests,
         InOrder(q, k, st, a, e), st[r] \notin Written, IpToSubnet(a[r]) = k,
         \A x \in Requests : r \notin e[x],
         \A x \in Requests : x = r \/ st[x] \in Written => st2[x] \in Written
  PROVE  InOrder(Extended(q, r), k, st2, a, e)
  <1> DEFINE z == Extended(q, r)
  <1>1. q \in Seq(Requests) /\ Len(q) <= MaxSeqLen /\ Len(q) \in Nat
    BY DEF InOrder
  <1>2. PICK d \in {0, 1} :
          /\ d = 1 <=> Len(q) = MaxSeqLen
          /\ Len(z) = Len(q) + 1 - d
          /\ \A i \in 1 .. Len(q) + 1 - d : z[i] = IF i + d <= Len(q) THEN q[i + d] ELSE r
    BY <1>1, ExtendedShape
  <1>3. z \in Seq(Requests)
    BY <1>1, ExtendedShape
  <1> HIDE DEF z
  <1>4. Len(z) <= MaxSeqLen
    BY <1>1, <1>2, SessionAssumption
  <1>5. \A i \in 1 .. Len(q) : /\ q[i] \in Requests /\ q[i] # r
                               /\ st[q[i]] \in Written /\ IpToSubnet(a[q[i]]) = k
    BY <1>1 DEF InOrder
  <1>6. \A i \in 1 .. Len(z) : st2[z[i]] \in Written /\ IpToSubnet(a[z[i]]) = k
    <2> SUFFICES ASSUME NEW i \in 1 .. Len(z)
                 PROVE  st2[z[i]] \in Written /\ IpToSubnet(a[z[i]]) = k
      OBVIOUS
    <2>1. CASE i + d <= Len(q)
      BY <1>1, <1>2, <1>5, <2>1
    <2>2. CASE ~(i + d <= Len(q))
      BY <1>1, <1>2, <2>2
    <2>3. QED
      BY <2>1, <2>2
  <1>7. \A i, j \in 1 .. Len(z) : i < j => z[i] # z[j] /\ z[j] \notin e[z[i]]
    <2> SUFFICES ASSUME NEW i \in 1 .. Len(z), NEW j \in 1 .. Len(z), i < j
                 PROVE  z[i] # z[j] /\ z[j] \notin e[z[i]]
      OBVIOUS
    <2>1. i + d \in 1 .. Len(q) /\ z[i] = q[i + d]
      BY <1>1, <1>2
    <2>2. CASE j + d <= Len(q)
      <3>1. j + d \in 1 .. Len(q) /\ z[j] = q[j + d] /\ i + d < j + d
        BY <1>1, <1>2, <2>2
      <3>2. QED
        BY <2>1, <3>1 DEF InOrder
    <2>3. CASE ~(j + d <= Len(q))
      <3>1. z[j] = r
        BY <1>1, <1>2, <2>3
      <3>2. QED
        BY <1>5, <2>1, <3>1
    <2>4. QED
      BY <2>2, <2>3
  <1>8. InOrder(z, k, st2, a, e)
    BY <1>3, <1>4, <1>6, <1>7 DEF InOrder
  <1>9. QED
    BY <1>8 DEF z

(* Extending a window covers the new vector, and what it covered before    *)
(* provided the new one came later.                                        *)
LEMMA ExtendedCovers ==
  ASSUME NEW q \in Seq(Requests), Len(q) <= MaxSeqLen, NEW s \in Requests, NEW e
  PROVE  /\ Covers(Extended(q, s), s, e)
         /\ \A r \in Requests : Covers(q, r, e) /\ r \in e[s] => Covers(Extended(q, s), r, e)
  <1> DEFINE z == Extended(q, s)
  <1>1. Len(q) \in Nat
    OBVIOUS
  <1>2. PICK d \in {0, 1} :
          /\ d = 1 <=> Len(q) = MaxSeqLen
          /\ Len(z) = Len(q) + 1 - d
          /\ \A i \in 1 .. Len(q) + 1 - d : z[i] = IF i + d <= Len(q) THEN q[i + d] ELSE s
    BY ExtendedShape
  <1> HIDE DEF z
  <1>3. Len(z) \in Nat /\ Len(z) > 0
    BY <1>1, <1>2, SessionAssumption
  <1>4. Covers(z, s, e)
    <2>1. Len(z) \in 0 .. Len(z) /\ z[Len(z)] = s
      BY <1>1, <1>2, <1>3
    <2>2. QED
      BY <1>3, <2>1 DEF Covers
  <1>5. ASSUME NEW r \in Requests, Covers(q, r, e), r \in e[s] PROVE Covers(z, r, e)
    <2>1. PICK i \in 0 .. Len(q) :
            /\ i = 0 => Len(q) = MaxSeqLen
            /\ i > 0 => q[i] = r
            /\ \A j \in 1 .. Len(q) : j > i => r \in e[q[j]]
      BY <1>5 DEF Covers
    <2>2. ASSUME NEW n \in 0 .. Len(z), i <= n + d PROVE \A j \in 1 .. Len(z) : j > n => r \in e[z[j]]
      <3> SUFFICES ASSUME NEW j \in 1 .. Len(z), j > n PROVE r \in e[z[j]]
        OBVIOUS
      <3>1. CASE j + d <= Len(q)
        <4>1. j + d \in 1 .. Len(q) /\ j + d > i /\ z[j] = q[j + d]
          BY <1>1, <1>2, <2>1, <2>2, <3>1
        <4>2. QED
          BY <2>1, <4>1
      <3>2. CASE ~(j + d <= Len(q))
        <4>1. z[j] = s
          BY <1>1, <1>2, <3>2
        <4>2. QED
          BY <1>5, <4>1
      <3>3. QED
        BY <3>1, <3>2
    <2>3. CASE i - d <= 0
      <3>1. Len(z) = MaxSeqLen /\ i <= 0 + d /\ 0 \in 0 .. Len(z)
        BY <1>1, <1>2, <1>3, <2>1, <2>3
      <3>2. QED
        BY <2>2, <3>1 DEF Covers
    <2>4. CASE i - d > 0
      <3>1. /\ i - d \in 0 .. Len(z) /\ i - d \in 1 .. Len(q) + 1 - d
            /\ (i - d) + d = i /\ i <= (i - d) + d /\ i <= Len(q) /\ i > 0
        BY <1>1, <1>2, <2>1, <2>4
      <3>2. z[i - d] = r
        BY <1>2, <2>1, <3>1
      <3>3. \A j \in 1 .. Len(z) : j > i - d => r \in e[z[j]]
        BY <2>2, <3>1
      <3>4. QED
        BY <2>4, <3>1, <3>2, <3>3 DEF Covers
    <2>5. QED
      BY <1>1, <1>2, <2>1, <2>3, <2>4
  <1>6. QED
    BY <1>4, <1>5 DEF z

-----------------------------------------------------------------------------
(* The invariant                                                           *)

(* What no step takes back: a written vector keeps its client and the      *)
(* pushes that came before it, so every window stays in order.             *)
Settled == \A x \in Requests : stage[x] \in Written =>
             stage'[x] \in Written /\ ip'[x] = ip[x] /\ earlier'[x] = earlier[x]

(* Windows through a step.                                                 *)
LEMMA WindowsStay ==
  ASSUME Settled
  PROVE  /\ \A q, k : InOrder(q, k, stage, ip, earlier) => InOrder(q, k, stage', ip', earlier')
         /\ \A q, k, r : InOrder(q, k, stage, ip, earlier) /\ Covers(q, r, earlier)
                           => Covers(q, r, earlier')
  <1>1. ASSUME NEW q, NEW k, InOrder(q, k, stage, ip, earlier)
        PROVE  /\ InOrder(q, k, stage', ip', earlier')
               /\ \A r : Covers(q, r, earlier) => Covers(q, r, earlier')
    <2>1. q \in Seq(Requests) /\ \A i \in 1 .. Len(q) : q[i] \in Requests
      BY <1>1 DEF InOrder
    <2>2. \A i \in 1 .. Len(q) : /\ stage'[q[i]] \in Written /\ ip'[q[i]] = ip[q[i]]
                                 /\ earlier'[q[i]] = earlier[q[i]]
      BY <1>1, <2>1 DEF InOrder, Settled
    <2>3. QED
      BY <1>1, <2>2 DEF InOrder, Covers
  <1>2. QED
    BY <1>1

(* The initial states satisfy the invariant.                               *)
LEMMA InitInv == Init => Inv
  <1> SUFFICES ASSUME Init PROVE Inv
    OBVIOUS
  <1>1. Types
    BY DEF Init, Types, Stages, NoScore
  <1>2. StoreInOrder
    BY EmptyInOrder DEF Init, StoreInOrder
  <1>3. CopiesInOrder /\ EarlierWritten /\ PushKept /\ GivenKept /\ ScoredInOrder
    BY DEF Init, CopiesInOrder, EarlierWritten, PushKept, GivenKept, ScoredInOrder
  <1>4. QED
    BY <1>1, <1>2, <1>3 DEF Inv

(* GET: the copy is what the store holds, and every push that has ended is *)
(* earlier.                                                                *)
LEMMA PushReadInv ==
  ASSUME Inv, NEW r \in Requests, NEW a \in IPs, PushRead(r, a)
  PROVE  Inv'
  <1> DEFINE k == IpToSubnet(a)
  <1>t. Types /\ k \in Subnets
    BY DEF Inv, Subnets
  <1>1. /\ stage[r] = "new" /\ stage'[r] = "read" /\ ip'[r] = a /\ copy'[r] = sequences[k]
        /\ earlier'[r] = {s \in Requests : Pushed(s)}
        /\ \A x \in Requests : x # r => /\ stage'[x] = stage[x] /\ ip'[x] = ip[x]
                                        /\ copy'[x] = copy[x] /\ earlier'[x] = earlier[x]
        /\ UNCHANGED <<iso, score, sequences, loaded, disturbed, used>>
    BY <1>t DEF PushRead, Types
  <1>2. Types'
    <2>1. sequences[k] \in Seq(Requests)
      BY <1>t DEF Types
    <2>2. QED
      BY <1>t, <1>1, <2>1 DEF PushRead, Types, Stages, loaded
  <1>3. Settled
    BY <1>1 DEF Settled, Written
  <1>4. StoreInOrder'
    BY <1>1, <1>3, WindowsStay DEF Inv, StoreInOrder
  <1>5. CopiesInOrder'
    <2> SUFFICES ASSUME NEW x \in Requests, stage'[x] # "new"
                 PROVE  InOrder(copy'[x], IpToSubnet(ip'[x]), stage', ip', earlier')
      BY DEF CopiesInOrder, Key
    <2>1. CASE x = r
      BY <1>t, <1>1, <1>4, <2>1 DEF StoreInOrder
    <2>2. CASE x # r
      BY <1>1, <1>3, <2>2, WindowsStay DEF Inv, CopiesInOrder, Key
    <2>3. QED
      BY <2>1, <2>2
  <1>6. EarlierWritten'
    BY <1>1 DEF Inv, EarlierWritten, Pushed, Written
  <1>7. PushKept'
    <2> SUFFICES ASSUME NEW x \in Requests, stage'[x] \in {"pushed", "scored"}, ~disturbed'[x]
                 PROVE  /\ Covers(sequences'[IpToSubnet(ip'[x])], x, earlier')
                        /\ \A s \in Requests :
                             stage'[s] \in {"read", "late"} /\ IpToSubnet(ip'[s]) = IpToSubnet(ip'[x]) =>
                               x \in earlier'[s] /\ Covers(copy'[s], x, earlier')
      BY DEF PushKept, Key
    <2>1. /\ x # r /\ stage[x] \in {"pushed", "scored"} /\ ~disturbed[x] /\ ip'[x] = ip[x]
          /\ IpToSubnet(ip[x]) \in Subnets
      BY <1>t, <1>1 DEF Types, Subnets
    <2>2. Covers(sequences[IpToSubnet(ip[x])], x, earlier)
      BY <2>1 DEF Inv, PushKept, Key
    <2>3. Covers(sequences[IpToSubnet(ip[x])], x, earlier')
      BY <1>3, <2>1, <2>2, WindowsStay DEF Inv, StoreInOrder
    <2>4. ASSUME NEW s \in Requests, stage'[s] \in {"read", "late"}, IpToSubnet(ip'[s]) = IpToSubnet(ip[x])
          PROVE  x \in earlier'[s] /\ Covers(copy'[s], x, earlier')
      <3>1. CASE s = r
        <4>1. x \in earlier'[s]
          BY <1>1, <2>1, <3>1 DEF Pushed
        <4>2. copy'[s] = sequences[IpToSubnet(ip[x])]
          BY <1>1, <2>4, <3>1
        <4>3. QED
          BY <2>3, <4>1, <4>2
      <3>2. CASE s # r
        <4>1. x \in earlier[s] /\ Covers(copy[s], x, earlier)
          BY <1>1, <2>1, <2>4, <3>2 DEF Inv, PushKept, Key
        <4>2. InOrder(copy[s], Key(s), stage, ip, earlier)
          BY <1>1, <2>4, <3>2 DEF Inv, CopiesInOrder
        <4>3. QED
          BY <1>1, <1>3, <3>2, <4>1, <4>2, WindowsStay
      <3>3. QED
        BY <3>1, <3>2
    <2>5. QED
      BY <1>1, <2>1, <2>3, <2>4
  <1>8. GivenKept'
    <2> SUFFICES ASSUME NEW x \in Requests, stage'[x] = "done", ~disturbed'[x], copy'[x] # <<>>
                 PROVE  Covers(copy'[x], x, earlier')
      BY DEF GivenKept
    <2>1. Covers(copy[x], x, earlier) /\ InOrder(copy[x], Key(x), stage, ip, earlier)
      BY <1>1 DEF Inv, GivenKept, CopiesInOrder
    <2>2. QED
      BY <1>1, <1>3, <2>1, WindowsStay
  <1>9. ScoredInOrder'
    BY <1>1 DEF Inv, ScoredInOrder
  <1>10. QED
    BY <1>2, <1>4, <1>5, <1>6, <1>7, <1>8, <1>9 DEF Inv

(* The window r has read, extended by its own vector, goes to the store,   *)
(* by a SETEX that succeeds or by one nobody waits for any longer.         *)
LEMMA WriteInv ==
  ASSUME Inv, Types', NEW r \in Requests, stage[r] \in {"read", "late"},
         stage'[r] \in {"pushed", "failed"},
         \A x \in Requests : x # r => /\ stage'[x] = stage[x] /\ copy'[x] = copy[x]
                                      /\ disturbed'[x] = disturbed[x] /\ iso'[x] = iso[x],
         copy'[r] = <<>>,
         stage'[r] = "pushed" /\ ~disturbed'[r] =>
            \A s \in Requests : s # r => ~(stage[s] \in {"read", "late"} /\ Key(s) = Key(r)),
         sequences' = [sequences EXCEPT ![Key(r)] = Extended(copy[r], r)],
         UNCHANGED <<ip, score, earlier, used>>
  PROVE  Inv'
  <1> DEFINE k == IpToSubnet(ip[r])
             z == Extended(copy[r], r)
  <1>t. Types /\ k \in Subnets /\ Key(r) = k
    BY DEF Inv, Types, Subnets, Key
  <1>c. /\ InOrder(copy[r], k, stage, ip, earlier)
        /\ copy[r] \in Seq(Requests) /\ Len(copy[r]) <= MaxSeqLen
    BY <1>t DEF Inv, CopiesInOrder, InOrder
  <1>1. sequences'[k] = z /\ \A j \in Subnets : j # k => sequences'[j] = sequences[j]
    BY <1>t DEF Types
  <1>2. Settled
    BY DEF Settled, Written
  <1>3. InOrder(z, k, stage', ip', earlier')
    <2>1. \A x \in Requests : r \notin earlier[x]
      BY DEF Inv, EarlierWritten, Written
    <2>2. \A x \in Requests : x = r \/ stage[x] \in Written => stage'[x] \in Written
      BY DEF Written
    <2>3. stage[r] \notin Written
      BY DEF Written
    <2>4. InOrder(z, k, stage', ip, earlier)
      BY <1>c, <2>1, <2>2, <2>3, ExtendedInOrder
    <2>5. QED
      BY <2>4
  <1> HIDE DEF z
  <1>4. StoreInOrder'
    <2> SUFFICES ASSUME NEW j \in Subnets PROVE InOrder(sequences'[j], j, stage', ip', earlier')
      BY DEF StoreInOrder
    <2>1. CASE j = k
      BY <1>1, <1>3, <2>1
    <2>2. CASE j # k
      BY <1>1, <1>2, <2>2, WindowsStay DEF Inv, StoreInOrder
    <2>3. QED
      BY <2>1, <2>2
  <1>5. CopiesInOrder'
    <2> SUFFICES ASSUME NEW x \in Requests, stage'[x] # "new"
                 PROVE  InOrder(copy'[x], IpToSubnet(ip'[x]), stage', ip', earlier')
      BY DEF CopiesInOrder, Key
    <2>1. CASE x = r
      BY <2>1, EmptyInOrder
    <2>2. CASE x # r
      BY <1>2, <2>2, WindowsStay DEF Inv, CopiesInOrder, Key
    <2>3. QED
      BY <2>1, <2>2
  <1>6. EarlierWritten'
    BY DEF Inv, EarlierWritten, Written
  <1>7. PushKept'
    <2> SUFFICES ASSUME NEW x \in Requests, stage'[x] \in {"pushed", "scored"}, ~disturbed'[x]
                 PROVE  /\ Covers(sequences'[IpToSubnet(ip[x])], x, earlier)
                        /\ \A s \in Requests :
                             stage'[s] \in {"read", "late"} /\ IpToSubnet(ip[s]) = IpToSubnet(ip[x]) =>
                               x \in earlier[s] /\ Covers(copy'[s], x, earlier)
      BY DEF PushKept, Key
    <2>1. CASE x = r
      <3>1. Covers(z, r, earlier)
        BY <1>c, ExtendedCovers DEF z
      <3>2. \A s \in Requests : ~(stage'[s] \in {"read", "late"} /\ IpToSubnet(ip[s]) = k)
        BY <2>1 DEF Key
      <3>3. QED
        BY <1>1, <2>1, <3>1, <3>2
    <2>2. CASE x # r
      <3>1. /\ stage[x] \in {"pushed", "scored"} /\ ~disturbed[x]
            /\ IpToSubnet(ip[x]) \in Subnets
        BY <1>t, <2>2 DEF Types, Subnets
      <3>2. /\ Covers(sequences[IpToSubnet(ip[x])], x, earlier)
            /\ \A s \in Requests :
                 stage[s] \in {"read", "late"} /\ IpToSubnet(ip[s]) = IpToSubnet(ip[x]) =>
                   x \in earlier[s] /\ Covers(copy[s], x, earlier)
        BY <3>1 DEF Inv, PushKept, Key
      <3>3. Covers(sequences'[IpToSubnet(ip[x])], x, earlier)
        <4>1. CASE IpToSubnet(ip[x]) = k
          <5>1. x \in earlier[r] /\ Covers(copy[r], x, earlier)
            BY <3>2, <4>1
          <5>2. Covers(z, x, earlier)
            BY <1>c, <5>1, ExtendedCovers DEF z
          <5>3. QED
            BY <1>1, <4>1, <5>2
        <4>2. CASE IpToSubnet(ip[x]) # k
          BY <1>1, <3>1, <3>2, <4>2
        <4>3. QED
          BY <4>1, <4>2
      <3>4. QED
        BY <3>2, <3>3
    <2>3. QED
      BY <2>1, <2>2
  <1>8. GivenKept'
    BY DEF Inv, GivenKept
  <1>9. ScoredInOrder'
    BY DEF Inv, ScoredInOrder
  <1>10. QED
    BY <1>4, <1>5, <1>6, <1>7, <1>8, <1>9 DEF Inv

(* Steps that add no vector: a call goes on or ends, or a subnet's window  *)
(* is lost, which disturbs the calls that rely on it.                      *)
LEMMA NoPushInv ==
  ASSUME Inv, Types', ScoredInOrder', UNCHANGED <<ip, earlier>>,
         \A k \in Subnets :
           \/ sequences'[k] = sequences[k]
           \/ /\ sequences'[k] = <<>>
              /\ \A x \in Requests : InFlight(x) /\ Key(x) = k => disturbed'[x],
         \A x \in Requests :
           /\ disturbed[x] => disturbed'[x]
           /\ stage[x] = "new" <=> stage'[x] = "new"
           /\ stage[x] \in Written => stage'[x] \in Written
           /\ stage'[x] \in {"read", "late"} => stage[x] \in {"read", "late"}
           /\ stage'[x] \in {"pushed", "scored"} => stage[x] \in {"pushed", "scored"}
           /\ \/ copy'[x] = copy[x] /\ (stage'[x] = "done" => stage[x] \in {"done", "scored"})
              \/ copy'[x] = <<>> /\ stage'[x] \notin {"read", "late"}
              \/ copy'[x] = sequences[Key(x)] /\ stage[x] = "scored" /\ stage'[x] = "done"
  PROVE  Inv'
  <1>t. Types
    BY DEF Inv
  <1>1. Settled
    BY DEF Settled
  <1>k. \A x \in Requests : stage[x] # "new" => IpToSubnet(ip[x]) \in Subnets
    BY <1>t DEF Types, Subnets
  <1>2. StoreInOrder'
    <2> SUFFICES ASSUME NEW k \in Subnets PROVE InOrder(sequences'[k], k, stage', ip', earlier')
      BY DEF StoreInOrder
    <2>1. CASE sequences'[k] = <<>>
      BY <2>1, EmptyInOrder
    <2>2. CASE sequences'[k] = sequences[k]
      BY <1>1, <2>2, WindowsStay DEF Inv, StoreInOrder
    <2>3. QED
      BY <2>1, <2>2
  <1>3. CopiesInOrder'
    <2> SUFFICES ASSUME NEW x \in Requests, stage'[x] # "new"
                 PROVE  InOrder(copy'[x], IpToSubnet(ip'[x]), stage', ip', earlier')
      BY DEF CopiesInOrder, Key
    <2>1. CASE copy'[x] = copy[x]
      BY <1>1, <2>1, WindowsStay DEF Inv, CopiesInOrder, Key
    <2>2. CASE copy'[x] = <<>>
      BY <2>2, EmptyInOrder
    <2>3. CASE copy'[x] = sequences[Key(x)]
      BY <1>1, <1>k, <2>3, WindowsStay DEF Inv, StoreInOrder, Key
    <2>4. QED
      BY <2>1, <2>2, <2>3
  <1>4. EarlierWritten'
    BY DEF Inv, EarlierWritten
  <1>5. PushKept'
    <2> SUFFICES ASSUME NEW x \in Requests, stage'[x] \in {"pushed", "scored"}, ~disturbed'[x]
                 PROVE  /\ Covers(sequences'[IpToSubnet(ip[x])], x, earlier)
                        /\ \A s \in Requests :
                             stage'[s] \in {"read", "late"} /\ IpToSubnet(ip[s]) = IpToSubnet(ip[x]) =>
                               x \in earlier[s] /\ Covers(copy'[s], x, earlier)
      BY DEF PushKept, Key
    <2>1. /\ stage[x] \in {"pushed", "scored"} /\ ~disturbed[x]
          /\ IpToSubnet(ip[x]) \in Subnets /\ InFlight(x)
      BY <1>k DEF InFlight
    <2>2. sequences'[IpToSubnet(ip[x])] = sequences[IpToSubnet(ip[x])]
      BY <2>1 DEF Key
    <2>3. \A s \in Requests : stage'[s] \in {"read", "late"} => stage[s] \in {"read", "late"} /\ copy'[s] = copy[s]
      OBVIOUS
    <2>4. QED
      BY <2>1, <2>2, <2>3 DEF Inv, PushKept, Key
  <1>6. GivenKept'
    <2> SUFFICES ASSUME NEW x \in Requests, stage'[x] = "done", ~disturbed'[x], copy'[x] # <<>>
                 PROVE  Covers(copy'[x], x, earlier)
      BY DEF GivenKept
    <2>1. ~disturbed[x]
      OBVIOUS
    <2>2. CASE stage[x] = "done" /\ copy'[x] = copy[x]
      BY <2>1, <2>2 DEF Inv, GivenKept
    <2>3. CASE stage[x] = "scored" /\ copy'[x] = sequences[Key(x)]
      BY <2>1, <2>3 DEF Inv, PushKept
    <2>4. stage[x] = "scored" => copy[x] = <<>>
      BY <1>t DEF Types
    <2>5. QED
      BY <2>2, <2>3, <2>4
  <1>7. QED
    BY <1>2, <1>3, <1>4, <1>5, <1>6 DEF Inv

(* The weighted score is a score; it reaches 0.81 only if both models say  *)
(* more than the neutral 0.5.                                              *)
LEMMA CombinedBounds ==
  ASSUME NEW i \in 0 .. 100, NEW l \in 0 .. 100
  PROVE  /\ Combined(i, l) \in 0 .. 100
         /\ i = 50 \/ l = 50 => Combined(i, l) <= 80
  BY DEF Combined

(* Every step of a call, a loss and a restart keep the types.              *)
LEMMA TypesNext ==
  ASSUME Inv, Next \/ UNCHANGED vars
  PROVE  Types'
  <1>t. Types
    BY DEF Inv
  <1>k. \A r \in Requests : stage[r] # "new" => Key(r) \in Subnets
    BY <1>t DEF Types, Subnets, Key
  <1>e. \A r \in Requests : stage[r] # "new" =>
          Extended(copy[r], r) \in Seq(Requests)
    BY ExtendedShape DEF Inv, CopiesInOrder, InOrder
  <1>1. ASSUME NEW r \in Requests, NEW a \in IPs, PushRead(r, a) PROVE Types'
    BY <1>1, PushReadInv DEF Inv
  <1>2. ASSUME NEW r \in Requests, PushWrite(r) PROVE Types'
    <2>1. disturbed' \in [Requests -> BOOLEAN]
      <3>1. (\E s \in Requests \ {r} : stage[s] \in {"read", "late"} /\ Key(s) = Key(r)) \in BOOLEAN
        OBVIOUS
      <3>2. QED
        BY <1>2, <1>t, <3>1, Zenon DEF PushWrite, Types
    <2>2. sequences' \in [Subnets -> Seq(Requests)]
      BY <1>2, <1>t, <1>e DEF PushWrite, Types
    <2>3. QED
      <3>1. stage' \in [Requests -> Stages] /\ copy' \in [Requests -> Seq(Requests)]
        BY <1>2, <1>t DEF PushWrite, Types, Stages
      <3>2. \A x \in Requests : /\ stage'[x] # "new" => ip[x] \in IPs
                                /\ stage'[x] \in {"pushed", "scored"} => copy'[x] = <<>>
        BY <1>2, <1>t DEF PushWrite, Types
      <3>3. UNCHANGED <<ip, iso, score, baseline, session, earlier, used>>
        BY <1>2 DEF PushWrite, loaded
      <3>4. QED
        BY <1>t, <2>1, <2>2, <3>1, <3>2, <3>3 DEF Types
  <1>3. ASSUME NEW r \in Requests, IsoScore(r) PROVE Types'
    <2>1. iso' \in [Requests -> 0 .. 100]
      <3>1. CASE iso' = [iso EXCEPT ![r] = Neutral]
        BY <1>t, <3>1 DEF Types, Neutral
      <3>2. ASSUME NEW out \in Outputs, iso' = [iso EXCEPT ![r] = out]
            PROVE  iso' \in [Requests -> 0 .. 100]
        BY <1>t, <3>2, SessionAssumption DEF Types
      <3>3. QED
        BY <1>3, <3>1, <3>2 DEF IsoScore
    <2>2. used' \in [Requests -> SUBSET {"iso", "lstm"}]
      <3>1. used[r] \cup {"iso"} \in SUBSET {"iso", "lstm"}
        BY <1>t DEF Types
      <3>2. CASE used' = [used EXCEPT ![r] = @ \cup {"iso"}]
        BY <1>t, <3>1, <3>2 DEF Types
      <3>3. CASE used' = used
        BY <1>t, <3>3 DEF Types
      <3>4. QED
        BY <1>3, <3>2, <3>3 DEF IsoScore
    <2>3. QED
      <3>1. stage' \in [Requests -> Stages]
        BY <1>3, <1>t DEF IsoScore, Types, Stages
      <3>2. \A x \in Requests : /\ stage'[x] # "new" => ip[x] \in IPs
                                /\ stage'[x] \in {"pushed", "scored"} => copy[x] = <<>>
        BY <1>3, <1>t DEF IsoScore, Types
      <3>3. UNCHANGED <<ip, copy, score, sequences, baseline, session, earlier, disturbed>>
        BY <1>3 DEF IsoScore, loaded
      <3>4. QED
        BY <1>t, <2>1, <2>2, <3>1, <3>2, <3>3 DEF Types
  <1>4. ASSUME NEW r \in Requests, LstmScore(r) PROVE Types'
    <2>1. \A out \in 0 .. 100 : Combined(iso[r], out) \in 0 .. 100
      <3>1. iso[r] \in 0 .. 100
        BY <1>t DEF Types
      <3>2. QED
        BY <3>1, CombinedBounds
    <2>2. score' \in [Requests -> 0 .. 100 \cup {NoScore}]
      <3>1. ASSUME NEW out \in 0 .. 100, score' = [score EXCEPT ![r] = Combined(iso[r], out)]
            PROVE  score' \in [Requests -> 0 .. 100 \cup {NoScore}]
        BY <1>t, <2>1, <3>1 DEF Types
      <3>2. CASE score' = [score EXCEPT ![r] = Combined(iso[r], Neutral)]
        <4>0. Neutral \in 0 .. 100
          BY DEF Neutral
        <4>1. Combined(iso[r], Neutral) \in 0 .. 100
          BY <2>1, <4>0, Zenon
        <4> DEFINE x == Combined(iso[r], Neutral)
        <4>2. score' = [score EXCEPT ![r] = x] /\ x \in 0 .. 100 \cup {NoScore}
          BY <3>2, <4>1
        <4> HIDE DEF x
        <4>3. score \in [Requests -> 0 .. 100 \cup {NoScore}]
          BY <1>t DEF Types
        <4>4. QED
          BY <4>2, <4>3
      <3>3. CASE \E out \in Outputs : score' = [score EXCEPT ![r] = Combined(iso[r], out)]
        BY <3>1, <3>3, SessionAssumption
      <3>4. QED
        BY <1>4, <3>2, <3>3 DEF LstmScore
    <2>3. copy' \in [Requests -> Seq(Requests)]
      <3>1. sequences[Key(r)] \in Seq(Requests)
        BY <1>4, <1>t, <1>k DEF LstmScore, Types
      <3>2. QED
        BY <1>4, <1>t, <3>1 DEF LstmScore, Types
    <2>4. used' \in [Requests -> SUBSET {"iso", "lstm"}]
      <3>1. used[r] \cup {"lstm"} \in SUBSET {"iso", "lstm"}
        BY <1>t DEF Types
      <3>2. CASE used' = [used EXCEPT ![r] = @ \cup {"lstm"}]
        BY <1>t, <3>1, <3>2 DEF Types
      <3>3. CASE used' = used
        BY <1>t, <3>3 DEF Types
      <3>4. QED
        BY <1>4, <3>2, <3>3 DEF LstmScore
    <2>i. iso' \in [Requests -> 0 .. 100]
      <3>1. iso' = [iso EXCEPT ![r] = 0]
        BY <1>4 DEF LstmScore
      <3>2. QED
        BY <1>t, <3>1 DEF Types
    <2>5. \A x \in Requests : stage'[x] \in {"pushed", "scored"} =>
             stage[x] = stage'[x] /\ copy'[x] = copy[x]
      BY <1>4, <1>t DEF LstmScore, Types
    <2>6. QED
      BY <1>4, <1>t, <2>2, <2>3, <2>4, <2>i, <2>5 DEF LstmScore, Types, Stages, loaded
  <1>5. ASSUME NEW r \in Requests, CallFails(r) PROVE Types'
    <2>1. stage' \in [Requests -> Stages]
      BY <1>5, <1>t DEF CallFails, Types, Stages
    <2>c. copy' \in [Requests -> Seq(Requests)]
      <3>1. CASE copy' = copy
        BY <1>t, <3>1 DEF Types
      <3>2. CASE copy' = [copy EXCEPT ![r] = <<>>]
        BY <1>t, <3>2 DEF Types
      <3>3. QED
        BY <1>5, <3>1, <3>2 DEF CallFails
    <2>i. iso' \in [Requests -> 0 .. 100]
      BY <1>5, <1>t DEF CallFails, Types
    <2>2. \A x \in Requests : /\ stage'[x] # "new" => ip[x] \in IPs
                              /\ stage'[x] \in {"pushed", "scored"} => copy'[x] = <<>>
      BY <1>5, <1>t DEF CallFails, Types, InFlight
    <2>3. UNCHANGED <<ip, score, sequences, baseline, session, earlier, disturbed, used>>
      BY <1>5 DEF CallFails, loaded, history
    <2>4. QED
      BY <1>t, <2>1, <2>c, <2>i, <2>2, <2>3 DEF Types
  <1>l. ASSUME NEW r \in Requests, LateWrite(r) PROVE Types'
    <2>1. sequences' \in [Subnets -> Seq(Requests)]
      BY <1>l, <1>t, <1>e DEF LateWrite, Types
    <2>2. copy' \in [Requests -> Seq(Requests)] /\ stage' \in [Requests -> Stages]
      BY <1>l, <1>t DEF LateWrite, Types, Stages
    <2>3. \A x \in Requests : /\ stage'[x] # "new" => ip[x] \in IPs
                              /\ stage'[x] \in {"pushed", "scored"} => copy'[x] = <<>>
      BY <1>l, <1>t DEF LateWrite, Types
    <2>4. UNCHANGED <<ip, iso, score, baseline, session, earlier, disturbed, used>>
      BY <1>l DEF LateWrite, loaded, history
    <2>5. QED
      BY <1>t, <2>1, <2>2, <2>3, <2>4 DEF Types
  <1>6. ASSUME NEW k \in Subnets, Lose(k) PROVE Types'
    <2>1. disturbed' \in [Requests -> BOOLEAN]
      BY <1>6, <1>t DEF Lose, Types, InFlight
    <2>2. QED
      BY <1>6, <1>t, <2>1 DEF Lose, Types, call, loaded
  <1>7. CASE Restart
    BY <1>7, <1>t DEF Restart, Types, Stages, InFlight, history
  <1>8. CASE UNCHANGED vars
    BY <1>8, <1>t DEF vars, Types, call, loaded, history
  <1>9. QED
    BY <1>1, <1>2, <1>3, <1>4, <1>5, <1>l, <1>6, <1>7, <1>8 DEF Next

(* Every step keeps the invariant.                                         *)
LEMMA NextInv ==
  ASSUME Inv, Next \/ UNCHANGED vars
  PROVE  Inv'
  <1>t. Types /\ Types'
    BY TypesNext DEF Inv
  <1>s. ScoredInOrder
    BY DEF Inv
  <1>1. ASSUME NEW r \in Requests, NEW a \in IPs, PushRead(r, a) PROVE Inv'
    BY <1>1, PushReadInv
  <1>2. ASSUME NEW r \in Requests, PushWrite(r) PROVE Inv'
    <2>1. /\ stage[r] = "read" /\ stage'[r] = "pushed" /\ copy'[r] = <<>>
          /\ \A x \in Requests : x # r => /\ stage'[x] = stage[x] /\ copy'[x] = copy[x]
                                          /\ disturbed'[x] = disturbed[x] /\ iso'[x] = iso[x]
          /\ sequences' = [sequences EXCEPT ![Key(r)] = Extended(copy[r], r)]
          /\ UNCHANGED <<ip, score, earlier, used>>
      BY <1>2, <1>t DEF PushWrite, Types
    <2>2. disturbed'[r] = (\E s \in Requests \ {r} : stage[s] \in {"read", "late"} /\ Key(s) = Key(r))
      BY <1>2, <1>t DEF PushWrite, Types
    <2>3. ~disturbed'[r] => \A s \in Requests : s # r => ~(stage[s] \in {"read", "late"} /\ Key(s) = Key(r))
      BY <2>2
    <2>4. QED
      BY <1>t, <2>1, <2>3, WriteInv
  <1>3. ASSUME NEW r \in Requests, IsoScore(r) PROVE Inv'
    <2>1. /\ stage[r] = "pushed" /\ stage'[r] = "scored"
          /\ \A x \in Requests : x # r => /\ stage'[x] = stage[x] /\ iso'[x] = iso[x]
                                          /\ used'[x] = used[x]
          /\ UNCHANGED <<ip, copy, score, sequences, earlier, disturbed>>
      BY <1>3, <1>t DEF IsoScore, Types
    <2>2. "iso" \in used'[r] \/ iso'[r] = Neutral
      BY <1>3, <1>t DEF IsoScore, Types
    <2>3. ScoredInOrder'
      BY <1>s, <2>1, <2>2 DEF ScoredInOrder, Neutral, NoScore
    <2>4. QED
      BY <1>t, <2>1, <2>3, NoPushInv DEF Written
  <1>4. ASSUME NEW r \in Requests, LstmScore(r) PROVE Inv'
    <2>1. /\ stage[r] = "scored" /\ stage'[r] = "done"
          /\ \A x \in Requests : x # r => /\ stage'[x] = stage[x] /\ iso'[x] = iso[x]
                                          /\ used'[x] = used[x] /\ copy'[x] = copy[x]
                                          /\ score'[x] = score[x]
          /\ copy'[r] = copy[r] \/ copy'[r] = sequences[Key(r)]
          /\ UNCHANGED <<ip, sequences, earlier, disturbed>>
      BY <1>4, <1>t DEF LstmScore, Types
    <2>2. ScoredInOrder'
      BY <1>s, <2>1 DEF ScoredInOrder, Neutral, NoScore
    <2>3. QED
      BY <1>t, <2>1, <2>2, NoPushInv DEF Written
  <1>5. ASSUME NEW r \in Requests, CallFails(r) PROVE Inv'
    <2>1. /\ InFlight(r)
          /\ \/ stage[r] = "read" /\ stage'[r] = "late" /\ copy'[r] = copy[r]
             \/ stage'[r] = "failed" /\ copy'[r] = <<>>
          /\ \A x \in Requests : x # r => /\ stage'[x] = stage[x] /\ iso'[x] = iso[x]
                                          /\ copy'[x] = copy[x]
          /\ UNCHANGED <<ip, score, sequences, earlier, disturbed, used>>
      BY <1>5, <1>t DEF CallFails, Types, history
    <2>2. ScoredInOrder'
      BY <1>s, <2>1 DEF ScoredInOrder, Neutral, NoScore, InFlight
    <2>3. QED
      BY <1>t, <2>1, <2>2, NoPushInv DEF Written, InFlight
  <1>l. ASSUME NEW r \in Requests, LateWrite(r) PROVE Inv'
    <2>1. /\ stage[r] = "late" /\ stage'[r] = "failed" /\ copy'[r] = <<>>
          /\ \A x \in Requests : x # r => stage'[x] = stage[x] /\ copy'[x] = copy[x]
          /\ sequences' = [sequences EXCEPT ![Key(r)] = Extended(copy[r], r)]
          /\ UNCHANGED <<ip, iso, score, earlier, disturbed, used>>
      BY <1>l, <1>t DEF LateWrite, Types, history
    <2>2. QED
      BY <1>t, <2>1, WriteInv
  <1>6. ASSUME NEW k \in Subnets, Lose(k) PROVE Inv'
    <2>1. /\ \A j \in Subnets : IF j = k THEN sequences'[j] = <<>>
                                ELSE sequences'[j] = sequences[j]
          /\ \A x \in Requests : /\ disturbed[x] => disturbed'[x]
                                 /\ InFlight(x) /\ Key(x) = k => disturbed'[x]
          /\ UNCHANGED <<stage, ip, copy, iso, score, earlier, used>>
      BY <1>6, <1>t DEF Lose, Types, call
    <2>2. ScoredInOrder'
      BY <1>s, <2>1 DEF ScoredInOrder, Neutral, NoScore
    <2>3. QED
      BY <1>t, <2>1, <2>2, NoPushInv DEF Written
  <1>7. CASE Restart
    <2>1. /\ \A x \in Requests : /\ stage'[x] = IF InFlight(x) THEN "failed" ELSE stage[x]
                                 /\ copy'[x] = IF InFlight(x) THEN <<>> ELSE copy[x]
          /\ UNCHANGED <<ip, score, sequences, earlier, disturbed, used>>
      BY <1>7 DEF Restart, history
    <2>2. ScoredInOrder'
      BY <1>s, <2>1 DEF ScoredInOrder, Neutral, NoScore, InFlight
    <2>3. QED
      BY <1>t, <2>1, <2>2, NoPushInv DEF Written, InFlight
  <1>8. CASE UNCHANGED vars
    <2>1. UNCHANGED <<stage, ip, copy, iso, score, sequences, earlier, disturbed, used>>
      BY <1>8 DEF vars, call, history
    <2>2. ScoredInOrder'
      BY <1>s, <2>1 DEF ScoredInOrder, Neutral, NoScore
    <2>3. QED
      BY <1>t, <2>1, <2>2, NoPushInv
  <1>9. QED
    BY <1>1, <1>2, <1>3, <1>4, <1>5, <1>l, <1>6, <1>7, <1>8 DEF Next

(* Every reachable state satisfies the invariant.                          *)
LEMMA Invariant == Spec => []Inv
  <1>1. Inv /\ [Next]_vars => Inv'
    BY NextInv
  <1>2. QED
    BY <1>1, InitInv, PTL DEF Spec

-----------------------------------------------------------------------------
(* The results                                                             *)

(* Every variable keeps its type; in particular no stored sequence is ever *)
(* longer than MaxSeqLen.                                                  *)
THEOREM TypeCorrect == Spec => []TypeOK
  <1>1. Inv => TypeOK
    BY DEF Inv, Types, StoreInOrder, InOrder, TypeOK
  <1>2. QED
    BY <1>1, Invariant, PTL

(* However calls of one subnet overlap, fail or are cut off, the stored    *)
(* window holds vectors of that subnet only, none twice, in push order.    *)
THEOREM WindowStaysInOrder == Spec => []SequenceInOrder
  <1>1. Inv => SequenceInOrder
    <2> SUFFICES ASSUME Inv, NEW k \in Subnets
                 PROVE  LET seq == sequences[k] IN
                        /\ \A i \in DOMAIN seq : Key(seq[i]) = k
                        /\ \A i, j \in DOMAIN seq : i < j =>
                             seq[i] # seq[j] /\ seq[j] \notin earlier[seq[i]]
      BY DEF SequenceInOrder
    <2>1. InOrder(sequences[k], k, stage, ip, earlier)
      BY DEF Inv, StoreInOrder
    <2>2. sequences[k] \in Seq(Requests) /\ DOMAIN sequences[k] = 1 .. Len(sequences[k])
      BY <2>1 DEF InOrder
    <2>3. QED
      BY <2>1, <2>2 DEF InOrder, Key
  <1>2. QED
    BY <1>1, Invariant, PTL

(* The LSTM is given the call's own vector, or a whole window of later     *)
(* ones, unless another push of the subnet overlapped the call's or the    *)
(* key was lost.                                                           *)
THEOREM OwnVectorIsScored == Spec => []ScoreIncludesOwn
  <1>1. Inv => ScoreIncludesOwn
    <2> SUFFICES ASSUME Inv, NEW r \in Requests,
                        stage[r] = "done", copy[r] # <<>>, ~disturbed[r]
                 PROVE  \/ r \in ToSet(copy[r])
                        \/ /\ Len(copy[r]) = MaxSeqLen
                           /\ \A s \in ToSet(copy[r]) : r \in earlier[s]
      BY DEF ScoreIncludesOwn
    <2>1. Covers(copy[r], r, earlier)
      BY DEF Inv, GivenKept
    <2>2. copy[r] \in Seq(Requests) /\ DOMAIN copy[r] = 1 .. Len(copy[r])
      BY DEF Inv, Types
    <2>3. PICK i \in 0 .. Len(copy[r]) :
            /\ i = 0 => Len(copy[r]) = MaxSeqLen
            /\ i > 0 => copy[r][i] = r
            /\ \A j \in 1 .. Len(copy[r]) : j > i => r \in earlier[copy[r][j]]
      BY <2>1 DEF Covers
    <2>4. CASE i = 0
      <3>1. \A s \in ToSet(copy[r]) : \E j \in 1 .. Len(copy[r]) : s = copy[r][j]
        BY <2>2 DEF ToSet
      <3>2. QED
        BY <2>3, <2>4, <3>1
    <2>5. CASE i > 0
      <3>1. i \in DOMAIN copy[r] /\ copy[r][i] = r
        BY <2>2, <2>3, <2>5
      <3>2. QED
        BY <3>1 DEF ToSet
    <2>6. QED
      BY <2>4, <2>5
  <1>2. QED
    BY <1>1, Invariant, PTL

(* With a block threshold of 0.80 or more (the default is 0.85) no score   *)
(* blocks unless both models took part in it, whatever they answer.        *)
THEOREM NoModelBlocksAlone ==
  ASSUME BlockThreshold >= 80
  PROVE  Spec => []BlockNeedsBothModels
  <1> USE DEF BlockNeedsBothModels
  <1>1. Init => BlockNeedsBothModels
    BY SessionAssumption DEF Init, NoScore
  <1>2. Inv /\ BlockNeedsBothModels /\ [Next]_vars => BlockNeedsBothModels'
    <2> SUFFICES ASSUME Inv, BlockNeedsBothModels, Next \/ UNCHANGED vars
                 PROVE  BlockNeedsBothModels'
      OBVIOUS
    <2>t. Types /\ ScoredInOrder
      BY DEF Inv
    <2>1. ASSUME NEW r \in Requests, IsoScore(r) PROVE BlockNeedsBothModels'
      <3>1. score[r] = NoScore /\ score' = score /\ ~(NoScore > BlockThreshold)
        BY <2>1, <2>t, SessionAssumption DEF IsoScore, ScoredInOrder, NoScore
      <3>2. \A x \in Requests : x # r => used'[x] = used[x]
        BY <2>1, <2>t DEF IsoScore, Types
      <3>3. QED
        BY <3>1, <3>2
    <2>2. ASSUME NEW r \in Requests, LstmScore(r) PROVE BlockNeedsBothModels'
      <3>1. \A x \in Requests : x # r => used'[x] = used[x] /\ score'[x] = score[x]
        BY <2>2, <2>t DEF LstmScore, Types
      <3>2. iso[r] \in 0 .. 100 /\ used[r] \in SUBSET {"iso", "lstm"}
        BY <2>t DEF Types
      <3>3. "iso" \in used[r] \/ iso[r] = 50
        BY <2>2, <2>t DEF LstmScore, ScoredInOrder, Neutral
      <3>4. score'[r] > BlockThreshold => used'[r] = {"iso", "lstm"}
        <4>1. ASSUME NEW out \in Outputs, score' = [score EXCEPT ![r] = Combined(iso[r], out)],
                     used' = [used EXCEPT ![r] = @ \cup {"lstm"}],
                     score'[r] > BlockThreshold
              PROVE  used'[r] = {"iso", "lstm"}
          <5>1. score'[r] = Combined(iso[r], out) /\ used'[r] = used[r] \cup {"lstm"}
            BY <2>t, <4>1 DEF Types
          <5>2. iso[r] # 50
            <6>1. out \in 0 .. 100
              BY SessionAssumption
            <6>2. /\ Combined(iso[r], out) \in Int
                  /\ iso[r] = 50 => Combined(iso[r], out) <= 80
              <7>1. Combined(iso[r], out) \in 0 .. 100
                BY <3>2, <6>1, CombinedBounds, Zenon
              <7>2. iso[r] = 50 => Combined(iso[r], out) <= 80
                BY <3>2, <6>1, CombinedBounds, Zenon
              <7>3. QED
                BY <7>1, <7>2
            <6>3. QED
              BY <4>1, <5>1, <6>2, SessionAssumption
          <5>3. QED
            BY <3>2, <3>3, <5>1, <5>2
        <4>2. ASSUME score' = [score EXCEPT ![r] = Combined(iso[r], Neutral)]
              PROVE  ~(score'[r] > BlockThreshold)
          <5>1. score'[r] = Combined(iso[r], 50)
            BY <2>t, <4>2 DEF Types, Neutral
          <5>2. Combined(iso[r], 50) \in Int /\ Combined(iso[r], 50) <= 80
            <6>1. 50 \in 0 .. 100
              OBVIOUS
            <6>2. Combined(iso[r], 50) \in 0 .. 100
              BY <3>2, <6>1, CombinedBounds, Zenon
            <6>3. Combined(iso[r], 50) <= 80
              BY <3>2, <6>1, CombinedBounds, Zenon
            <6>4. QED
              BY <6>2, <6>3
          <5>3. QED
            BY <5>1, <5>2, SessionAssumption
        <4>3. QED
          BY <2>2, <4>1, <4>2 DEF LstmScore
      <3>5. QED
        BY <3>1, <3>4
    <2>3. CASE UNCHANGED <<score, used>>
      BY <2>3
    <2>4. ASSUME ~(\E r \in Requests : IsoScore(r) \/ LstmScore(r))
          PROVE  UNCHANGED <<score, used>>
      BY <2>4 DEF Next, vars, call, history, PushRead, PushWrite, CallFails,
         LateWrite, Lose, Restart
    <2>5. QED
      BY <2>1, <2>2, <2>3, <2>4
  <1>3. QED
    BY <1>1, <1>2, Invariant, PTL DEF Spec

=============================================================================
