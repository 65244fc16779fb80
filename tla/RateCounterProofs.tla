------------------------- MODULE RateCounterProofs -------------------------
(***************************************************************************)
(* Proofs about RateCounter, for every set of workers, every list of       *)
(* windows and every bound on requests and evictions.                      *)
(*                                                                         *)
(* The windows do not depend on each other, so the argument is about one   *)
(* of them: a window of W seconds with its counter k, what incr returned   *)
(* to the workers o, and its history h (hits), u (unseen), p (peak) and e  *)
(* (evicted).                                                              *)
(***************************************************************************)
EXTENDS RateCounter, Integers, FiniteSetTheorems, TLAPS

(* The events a history counts, as in Events.                              *)
Cells(f, W) == UNION {{a} \X (1 .. f[a]) : a \in 0 .. W - 1}

(* Types of one window.                                                    *)
WindowTypes(W, k, o, h, u, p, e) ==
  /\ W \in Nat \ {0}
  /\ k \in [n : Nat, ttl : Nat] /\ (k = NoKey \/ (k.n > 0 /\ k.ttl \in 1 .. W))
  /\ o \in [Workers -> [n : Nat, age : 0 .. W - 1]]
  /\ h \in [0 .. W - 1 -> Nat] /\ u \in [0 .. W - 1 -> Nat]
  /\ p \in [0 .. W - 1 -> Nat] /\ e \in [0 .. W - 1 -> Nat]

(* Of the rates reported up to any age, one is the highest.                *)
PeaksHaveMax(p, W) ==
  \A b \in 0 .. W - 1 : \E a \in 0 .. b : \A c \in 0 .. b : p[c] <= p[a]

(* The lives of the key a hit may belong to: the current one, the one that *)
(* expired, or one of the E that an eviction ended, named by the eviction. *)
Cur == <<0, 0>>
Exp == <<1, 0>>

(* Workers that have not read the rate of their request yet.               *)
Pending(o) == {w \in Workers : o[w].n > 0}

(* Every hit c in H has a life of the key and the number incr returned in  *)
(* it; the current life has all its hits in the window, and the hits of    *)
(* the life that expired are older than the key.                           *)
Numbered(W, k, H, E, life, num) ==
  /\ life \in [H -> {Cur, Exp} \cup E] /\ num \in [H -> Nat \ {0}]
  /\ \A c, d \in H : life[c] = life[d] /\ num[c] = num[d] => c = d
  /\ \A c \in H : /\ life[c] = Cur => num[c] <= k.n /\ c[1] + k.ttl <= W
                  /\ life[c] = Exp => c[1] >= 1 /\ (k # NoKey => c[1] + k.ttl > W)
                  /\ life[c] \in E => life[c][1] <= c[1]
  /\ \A n \in 1 .. k.n : \E c \in H : life[c] = Cur /\ num[c] = n

(* S are the hits that were seen: a rate as high as their number was       *)
(* reported later.                                                         *)
Seen(W, H, p, num, S) ==
  /\ S \subseteq H
  /\ \A c \in S : \E a \in 0 .. W - 1 : a <= c[1] /\ num[c] <= p[a]

(* Each of the others has a place us[c] among the unseen of its age.       *)
Placed(H, u, S, us) ==
  /\ us \in [H \ S -> Nat \ {0}]
  /\ \A c \in H \ S : us[c] <= u[c[1]]
  /\ \A c, d \in H \ S : c[1] = d[1] /\ us[c] = us[d] => c = d

(* jw tells which of the others a pending worker has made.                 *)
Awaited(o, H, num, S, jw) ==
  /\ jw \in [Pending(o) -> H \ S]
  /\ \A v, w \in Pending(o) : jw[v] = jw[w] => v = w
  /\ \A w \in Pending(o) : jw[w][1] = o[w].age /\ num[jw[w]] = o[w].n

Explained(W, k, o, H, u, p, E, life, num, S, us, jw) ==
  /\ Numbered(W, k, H, E, life, num) /\ Seen(W, H, p, num, S)
  /\ Placed(H, u, S, us) /\ Awaited(o, H, num, S, jw)

(* The inductive invariant of one window.                                  *)
Good(W, k, o, h, u, p, e) ==
  /\ WindowTypes(W, k, o, h, u, p, e)
  /\ IsFiniteSet(Cells(h, W)) /\ IsFiniteSet(Cells(u, W)) /\ IsFiniteSet(Cells(e, W))
  /\ PeaksHaveMax(p, W)
  /\ \E life, num, S, us, jw :
       Explained(W, k, o, Cells(h, W), u, p, Cells(e, W), life, num, S, us, jw)

-----------------------------------------------------------------------------
(* Events of a window                                                      *)

(* An event is its age and its number among the events of that age.        *)
LEMMA CellsAre ==
  ASSUME NEW W \in Nat \ {0}, NEW f \in [0 .. W - 1 -> Nat]
  PROVE  /\ \A c : c \in Cells(f, W) <=> \E a \in 0 .. W - 1 : \E m \in 1 .. f[a] : c = <<a, m>>
         /\ \A c \in Cells(f, W) : /\ c = <<c[1], c[2]>> /\ c[1] \in 0 .. W - 1 /\ c[1] \in Nat
                                   /\ c[2] \in 1 .. f[c[1]] /\ c[2] \in Nat
         /\ Cur \notin Cells(f, W) /\ Exp \notin Cells(f, W)
  <1>1. \A c : c \in Cells(f, W) <=> \E a \in 0 .. W - 1 : \E m \in 1 .. f[a] : c = <<a, m>>
    BY DEF Cells
  <1>2. \A a \in 0 .. W - 1 : f[a] \in Nat
    OBVIOUS
  <1>3. \A c \in Cells(f, W) : /\ c = <<c[1], c[2]>> /\ c[1] \in 0 .. W - 1 /\ c[1] \in Nat
                               /\ c[2] \in 1 .. f[c[1]] /\ c[2] \in Nat
    BY <1>1, <1>2
  <1>4. Cur \notin Cells(f, W) /\ Exp \notin Cells(f, W)
    <2>1. ASSUME NEW a, NEW m \in Int, m > 0 PROVE Cur # <<a, m>> /\ Exp # <<a, m>>
      BY <2>1 DEF Cur, Exp
    <2>2. \A a \in 0 .. W - 1 : \A m \in 1 .. f[a] : m \in Int /\ m > 0
      BY <1>2
    <2>3. \A a \in 0 .. W - 1 : \A m \in 1 .. f[a] : Cur # <<a, m>> /\ Exp # <<a, m>>
      BY <2>1, <2>2
    <2> HIDE DEF Cur, Exp
    <2>4. QED
      BY <1>1, <2>3, Zenon
  <1>5. QED
    BY <1>1, <1>3, <1>4

(* One event more of age 0.                                                *)
LEMMA AddCell ==
  ASSUME NEW W \in Nat \ {0}, NEW f \in [0 .. W - 1 -> Nat], NEW g,
         g = [f EXCEPT ![0] = @ + 1]
  PROVE  /\ g \in [0 .. W - 1 -> Nat] /\ f[0] \in Nat /\ g[0] = f[0] + 1
         /\ \A a \in 0 .. W - 1 : a # 0 => g[a] = f[a]
         /\ <<0, f[0] + 1>> \notin Cells(f, W)
         /\ Cells(g, W) = Cells(f, W) \cup {<<0, f[0] + 1>>}
         /\ IsFiniteSet(Cells(f, W)) => IsFiniteSet(Cells(g, W))
  <1> DEFINE x == <<0, f[0] + 1>>
             F == Cells(f, W)
             G == Cells(g, W)
  <1>1. 0 \in 0 .. W - 1 /\ f[0] \in Nat
    OBVIOUS
  <1>2. g \in [0 .. W - 1 -> Nat] /\ g[0] = f[0] + 1 /\ \A a \in 0 .. W - 1 : a # 0 => g[a] = f[a]
    BY <1>1
  <1>3. \A c : c \in F <=> \E a \in 0 .. W - 1 : \E m \in 1 .. f[a] : c = <<a, m>>
    BY CellsAre
  <1>4. \A c : c \in G <=> \E a \in 0 .. W - 1 : \E m \in 1 .. g[a] : c = <<a, m>>
    BY <1>2, CellsAre
  <1> HIDE DEF F, G
  <1>5. x \notin F
    BY <1>1, <1>3
  <1>6. G = F \cup {x}
    <2>1. ASSUME NEW a \in 0 .. W - 1, NEW m \in 1 .. g[a] PROVE <<a, m>> \in F \cup {x}
      <3>1. CASE a = 0 /\ m = f[0] + 1
        BY <3>1
      <3>2. CASE ~(a = 0 /\ m = f[0] + 1)
        <4>1. m \in 1 .. f[a]
          BY <1>1, <1>2, <3>2
        <4>2. QED
          BY <1>3, <4>1
      <3>3. QED
        BY <3>1, <3>2
    <2>2. ASSUME NEW a \in 0 .. W - 1, NEW m \in 1 .. f[a] PROVE <<a, m>> \in G
      <3>1. m \in 1 .. g[a]
        BY <1>1, <1>2
      <3>2. QED
        BY <1>4, <3>1
    <2>3. x \in G
      <3>1. f[0] + 1 \in 1 .. g[0]
        BY <1>1, <1>2
      <3>2. QED
        BY <1>1, <1>4, <3>1
    <2>4. G \subseteq F \cup {x}
      BY <1>4, <2>1
    <2>5. F \subseteq G
      BY <1>3, <2>2
    <2>6. QED
      BY <2>3, <2>4, <2>5
  <1>7. IsFiniteSet(F) => IsFiniteSet(G)
    BY <1>6, FS_AddElement
  <1>8. QED
    BY <1>1, <1>2, <1>5, <1>6, <1>7 DEF F, G

(* One event less.                                                         *)
LEMMA DropCell ==
  ASSUME NEW W \in Nat \ {0}, NEW f \in [0 .. W - 1 -> Nat], NEW a \in 0 .. W - 1, f[a] > 0,
         NEW g, g = [f EXCEPT ![a] = @ - 1], IsFiniteSet(Cells(f, W))
  PROVE  g \in [0 .. W - 1 -> Nat] /\ IsFiniteSet(Cells(g, W))
  <1>1. f[a] \in Nat /\ f[a] - 1 \in Nat
    OBVIOUS
  <1>2. g \in [0 .. W - 1 -> Nat] /\ \A b \in 0 .. W - 1 : g[b] <= f[b] /\ g[b] \in Nat /\ f[b] \in Nat
    BY <1>1
  <1>3. Cells(g, W) \in SUBSET Cells(f, W)
    <2>1. \A c : c \in Cells(f, W) <=> \E b \in 0 .. W - 1 : \E m \in 1 .. f[b] : c = <<b, m>>
      BY CellsAre
    <2>2. \A c : c \in Cells(g, W) <=> \E b \in 0 .. W - 1 : \E m \in 1 .. g[b] : c = <<b, m>>
      BY <1>2, CellsAre
    <2>3. \A b \in 0 .. W - 1 : \A m \in 1 .. g[b] : m \in 1 .. f[b]
      BY <1>2
    <2>4. ASSUME NEW c \in Cells(g, W) PROVE c \in Cells(f, W)
      <3>1. PICK b \in 0 .. W - 1 : \E m \in 1 .. g[b] : c = <<b, m>>
        BY <2>2
      <3>2. QED
        BY <2>1, <2>3, <3>1
    <2>5. QED
      BY <2>4
  <1>4. QED
    BY <1>2, <1>3, FS_Subset

(* The same event a second later and a second earlier.                     *)
Fwd(c)  == <<c[1] + 1, c[2]>>
Back(c) == <<c[1] - 1, c[2]>>

(* A history, a second later.                                              *)
Aged(f, W) == [a \in 0 .. W - 1 |-> IF a = 0 THEN 0 ELSE f[a - 1]]

(* A second passes: an event is what it was, one second older.             *)
LEMMA OlderCells ==
  ASSUME NEW W \in Nat \ {0}, NEW f \in [0 .. W - 1 -> Nat], NEW g,
         g = Aged(f, W)
  PROVE  /\ g \in [0 .. W - 1 -> Nat]
         /\ \A a \in 0 .. W - 1 : a + 1 < W => g[a + 1] = f[a]
         /\ \A c \in Cells(g, W) : c[1] >= 1 /\ Back(c) \in Cells(f, W) /\ Back(c)[1] = c[1] - 1
         /\ \A c, d \in Cells(g, W) : Back(c) = Back(d) => c = d
         /\ \A c \in Cells(f, W) : c[1] + 1 < W => Fwd(c) \in Cells(g, W) /\ Back(Fwd(c)) = c
         /\ IsFiniteSet(Cells(f, W)) => IsFiniteSet(Cells(g, W))
  <1> DEFINE F == Cells(f, W)
             G == Cells(g, W)
  <1>1. \A a \in 0 .. W - 1 : a # 0 => a - 1 \in 0 .. W - 1 /\ f[a - 1] \in Nat
    OBVIOUS
  <1>2. g \in [0 .. W - 1 -> Nat] /\ g[0] = 0 /\ \A a \in 0 .. W - 1 : a # 0 => g[a] = f[a - 1]
    BY <1>1 DEF Aged
  <1>3. \A a \in 0 .. W - 1 : a + 1 < W => g[a + 1] = f[a]
    BY <1>2
  <1>4. /\ \A c : c \in F <=> \E a \in 0 .. W - 1 : \E m \in 1 .. f[a] : c = <<a, m>>
        /\ \A c \in F : /\ c = <<c[1], c[2]>> /\ c[1] \in 0 .. W - 1 /\ c[1] \in Nat
                        /\ c[2] \in 1 .. f[c[1]] /\ c[2] \in Nat
    BY CellsAre
  <1>5. /\ \A c : c \in G <=> \E a \in 0 .. W - 1 : \E m \in 1 .. g[a] : c = <<a, m>>
        /\ \A c \in G : /\ c = <<c[1], c[2]>> /\ c[1] \in 0 .. W - 1 /\ c[1] \in Nat
                        /\ c[2] \in 1 .. g[c[1]] /\ c[2] \in Nat
    BY <1>2, CellsAre
  <1> HIDE DEF F, G
  <1>6. ASSUME NEW c \in G PROVE c[1] >= 1 /\ Back(c) \in F /\ Back(c)[1] = c[1] - 1
    <2>1. c[1] # 0
      BY <1>2, <1>5
    <2>2. c[1] - 1 \in 0 .. W - 1 /\ c[2] \in 1 .. f[c[1] - 1]
      BY <1>2, <1>5, <2>1
    <2>3. QED
      BY <1>4, <1>5, <2>1, <2>2 DEF Back
  <1>7. ASSUME NEW c \in G, NEW d \in G, Back(c) = Back(d) PROVE c = d
    <2>1. c[1] - 1 = d[1] - 1 /\ c[2] = d[2]
      BY <1>7 DEF Back
    <2>2. c[1] = d[1]
      BY <1>5, <2>1
    <2>3. QED
      BY <1>5, <2>1, <2>2
  <1>8. ASSUME NEW c \in F, c[1] + 1 < W PROVE Fwd(c) \in G /\ Back(Fwd(c)) = c
    <2>1. c[1] + 1 \in 0 .. W - 1 /\ c[2] \in 1 .. g[c[1] + 1]
      BY <1>3, <1>4, <1>8
    <2>2. Fwd(c) \in G
      BY <1>5, <2>1 DEF Fwd
    <2>3. Back(Fwd(c)) = <<(c[1] + 1) - 1, c[2]>>
      BY DEF Fwd, Back
    <2>4. (c[1] + 1) - 1 = c[1]
      BY <1>4
    <2>5. QED
      BY <1>4, <2>2, <2>3, <2>4
  <1>9. ASSUME IsFiniteSet(F) PROVE IsFiniteSet(G)
    <2> DEFINE b == [c \in G |-> Back(c)]
    <2>1. b \in [G -> F] /\ \A c, d \in G : b[c] = b[d] => c = d
      BY <1>6, <1>7
    <2> HIDE DEF b
    <2>2. b \in Injection(G, F)
      BY <2>1 DEF Injection, IsInjective
    <2>3. QED
      BY <1>9, <2>2, FS_Injection
  <1>10. QED
    BY <1>2, <1>3, <1>6, <1>7, <1>8, <1>9 DEF F, G

-----------------------------------------------------------------------------
(* One window through a step                                               *)

(* What the invariant of a window gives, for a choice of its witnesses.    *)
LEMMA GoodIs ==
  ASSUME NEW W, NEW k, NEW o, NEW h, NEW u, NEW p, NEW e, Good(W, k, o, h, u, p, e)
  PROVE  /\ W \in Nat \ {0} /\ 0 \in 0 .. W - 1
         /\ k \in [n : Nat, ttl : Nat] /\ (k = NoKey \/ (k.n > 0 /\ k.ttl \in 1 .. W))
         /\ k.n \in Nat /\ k.ttl \in Nat
         /\ \A c \in Cells(h, W) : /\ c = <<c[1], c[2]>> /\ c[1] \in 0 .. W - 1 /\ c[1] \in Nat
                                   /\ c[2] \in 1 .. h[c[1]] /\ c[2] \in Nat
         /\ Cur \notin Cells(e, W) /\ Exp \notin Cells(e, W) /\ Cur # Exp
         /\ \A c \in Cells(e, W) : c[1] \in Nat /\ c[1] < W
  <1>1. /\ W \in Nat \ {0} /\ h \in [0 .. W - 1 -> Nat] /\ e \in [0 .. W - 1 -> Nat]
        /\ k \in [n : Nat, ttl : Nat] /\ (k = NoKey \/ (k.n > 0 /\ k.ttl \in 1 .. W))
    BY DEF Good, WindowTypes
  <1>2. 0 \in 0 .. W - 1 /\ k.n \in Nat /\ k.ttl \in Nat
    BY <1>1
  <1>3. Cur # Exp
    BY DEF Cur, Exp
  <1>4. \A c \in Cells(h, W) : /\ c = <<c[1], c[2]>> /\ c[1] \in 0 .. W - 1 /\ c[1] \in Nat
                               /\ c[2] \in 1 .. h[c[1]] /\ c[2] \in Nat
    BY <1>1, CellsAre
  <1>5. Cur \notin Cells(e, W) /\ Exp \notin Cells(e, W)
    BY <1>1, CellsAre
  <1>6. \A c \in Cells(e, W) : c[1] \in 0 .. W - 1
    BY <1>1, CellsAre
  <1>7. \A c \in Cells(e, W) : c[1] \in Nat /\ c[1] < W
    BY <1>1, <1>6
  <1>8. QED
    BY <1>1, <1>2, <1>3, <1>4, <1>5, <1>7

(* A request is counted: a hit of the current life, number k.n + 1.        *)
LEMMA IncrGood ==
  ASSUME NEW W, NEW k, NEW o, NEW h, NEW u, NEW p, NEW e, Good(W, k, o, h, u, p, e),
         NEW w \in Workers, NEW k2, k2 = Incr(k, W),
         NEW o2, o2 = [o EXCEPT ![w] = [n |-> k2.n, age |-> 0]],
         NEW h2, h2 = [h EXCEPT ![0] = @ + 1], NEW u2, u2 = [u EXCEPT ![0] = @ + 1]
  PROVE  Good(W, k2, o2, h2, u2, p, e)
  <1> DEFINE H == Cells(h, W)
             E == Cells(e, W)
             H2 == Cells(h2, W)
             x == <<0, h[0] + 1>>
  <1>1. PICK life, num, S, us, jw : Explained(W, k, o, H, u, p, E, life, num, S, us, jw)
    BY DEF Good
  <1>2. WindowTypes(W, k, o, h, u, p, e) /\ PeaksHaveMax(p, W)
        /\ IsFiniteSet(H) /\ IsFiniteSet(Cells(u, W)) /\ IsFiniteSet(E)
    BY DEF Good
  <1>3. /\ W \in Nat \ {0} /\ 0 \in 0 .. W - 1
        /\ k \in [n : Nat, ttl : Nat] /\ (k = NoKey \/ (k.n > 0 /\ k.ttl \in 1 .. W))
        /\ k.n \in Nat /\ k.ttl \in Nat
        /\ \A c \in H : /\ c = <<c[1], c[2]>> /\ c[1] \in 0 .. W - 1 /\ c[1] \in Nat
                        /\ c[2] \in 1 .. h[c[1]] /\ c[2] \in Nat
        /\ Cur \notin E /\ Exp \notin E /\ Cur # Exp
    BY GoodIs
  <1>4. /\ h2 \in [0 .. W - 1 -> Nat] /\ h[0] \in Nat
        /\ x \notin H /\ H2 = H \cup {x} /\ IsFiniteSet(H2)
    BY <1>2, <1>3, AddCell DEF WindowTypes
  <1>5. /\ u2 \in [0 .. W - 1 -> Nat] /\ u[0] \in Nat /\ IsFiniteSet(Cells(u2, W))
        /\ u2[0] = u[0] + 1 /\ \A a \in 0 .. W - 1 : a # 0 => u2[a] = u[a]
    BY <1>2, <1>3, AddCell DEF WindowTypes
  <1>6. /\ k2 \in [n : Nat, ttl : Nat] /\ k2.n = k.n + 1 /\ k2 # NoKey /\ k2.ttl \in 1 .. W
        /\ k = NoKey => k2.ttl = W /\ k.n = 0
        /\ k # NoKey => k2.ttl = k.ttl
    <2>1. CASE k = NoKey
      BY <1>3, <2>1 DEF Incr, NoKey
    <2>2. CASE k # NoKey
      BY <1>3, <2>2 DEF Incr, NoKey
    <2>3. QED
      BY <2>1, <2>2
  <1>7. /\ o2 \in [Workers -> [n : Nat, age : 0 .. W - 1]]
        /\ o2[w].n = k.n + 1 /\ o2[w].age = 0
        /\ \A v \in Workers : v # w => o2[v] = o[v]
    BY <1>2, <1>3, <1>6 DEF WindowTypes
  <1>8. WindowTypes(W, k2, o2, h2, u2, p, e)
    <2>1. k2.n > 0
      BY <1>3, <1>6
    <2>2. p \in [0 .. W - 1 -> Nat] /\ e \in [0 .. W - 1 -> Nat]
      BY <1>2 DEF WindowTypes
    <2>3. QED
      BY <1>3, <1>4, <1>5, <1>6, <1>7, <2>1, <2>2 DEF WindowTypes
  <1>9. x[1] = 0
    OBVIOUS
  <1> DEFINE life2 == [c \in H2 |-> IF c = x THEN Cur ELSE life[c]]
             num2 == [c \in H2 |-> IF c = x THEN k.n + 1 ELSE num[c]]
             us2 == [c \in H2 \ S |-> IF c = x THEN u[0] + 1 ELSE us[c]]
             jw2 == [v \in Pending(o2) |-> IF v = w THEN x ELSE jw[v]]
  <1> HIDE DEF H, E, H2, x, Cur, Exp, NoKey
  <1>10. /\ life2[x] = Cur /\ num2[x] = k.n + 1
         /\ \A c \in H : life2[c] = life[c] /\ num2[c] = num[c]
    BY <1>4
  <1>11. Numbered(W, k2, H2, E, life2, num2)
    <2>0. Numbered(W, k, H, E, life, num)
      BY <1>1 DEF Explained
    <2>1. /\ life \in [H -> {Cur, Exp} \cup E] /\ num \in [H -> Nat \ {0}]
          /\ \A c \in H : life[c] \in {Cur, Exp} \cup E /\ num[c] \in Nat \ {0}
      BY <2>0 DEF Numbered
    <2>2. life2 \in [H2 -> {Cur, Exp} \cup E] /\ num2 \in [H2 -> Nat \ {0}]
      BY <1>3, <1>4, <2>1
    <2> HIDE DEF life2, num2
    <2>3. \A c \in H : /\ life[c] = Cur => num[c] <= k.n /\ c[1] + k.ttl <= W
                       /\ life[c] = Exp => c[1] >= 1 /\ (k # NoKey => c[1] + k.ttl > W)
                       /\ life[c] \in E => life[c][1] <= c[1]
      BY <2>0 DEF Numbered
    <2>4. ASSUME NEW c \in H2, NEW d \in H2, life2[c] = life2[d], num2[c] = num2[d] PROVE c = d
      <3>1. ASSUME NEW b \in H, life[b] = Cur PROVE num[b] # k.n + 1
        BY <1>3, <2>1, <2>3, <3>1
      <3>2. CASE c \in H /\ d \in H
        BY <1>10, <2>0, <2>4, <3>2 DEF Numbered
      <3>3. CASE c = x /\ d \in H
        BY <1>10, <2>4, <3>1, <3>3
      <3>4. CASE c \in H /\ d = x
        BY <1>10, <2>4, <3>1, <3>4
      <3>5. CASE c = x /\ d = x
        BY <3>5
      <3>6. QED
        BY <1>4, <3>2, <3>3, <3>4, <3>5
    <2>5. ASSUME NEW c \in H
          PROVE  /\ life2[c] = Cur => num2[c] <= k2.n /\ c[1] + k2.ttl <= W
                 /\ life2[c] = Exp => c[1] >= 1 /\ (k2 # NoKey => c[1] + k2.ttl > W)
                 /\ life2[c] \in E => life2[c][1] <= c[1]
      <3>1. c[1] \in Nat /\ num[c] \in Nat /\ num[c] > 0 /\ life2[c] = life[c] /\ num2[c] = num[c]
        BY <1>3, <1>10, <2>1
      <3>2. ASSUME life[c] = Cur PROVE num[c] <= k2.n /\ c[1] + k2.ttl <= W
        BY <1>3, <1>6, <2>3, <3>1, <3>2
      <3>3. ASSUME life[c] = Exp PROVE c[1] >= 1 /\ c[1] + k2.ttl > W
        BY <1>3, <1>6, <2>3, <3>1, <3>3
      <3>4. QED
        BY <2>3, <3>1, <3>2, <3>3
    <2>6. /\ life2[x] = Cur => num2[x] <= k2.n /\ x[1] + k2.ttl <= W
          /\ life2[x] = Exp => x[1] >= 1 /\ (k2 # NoKey => x[1] + k2.ttl > W)
          /\ life2[x] \in E => life2[x][1] <= x[1]
      BY <1>3, <1>6, <1>9, <1>10
    <2>7. ASSUME NEW n \in 1 .. k2.n PROVE \E c \in H2 : life2[c] = Cur /\ num2[c] = n
      <3>1. CASE n = k.n + 1
        BY <1>4, <1>10, <3>1
      <3>2. CASE n # k.n + 1
        <4>1. n \in 1 .. k.n
          BY <1>3, <1>6, <3>2
        <4>2. PICK c \in H : life[c] = Cur /\ num[c] = n
          BY <2>0, <4>1 DEF Numbered
        <4>3. QED
          BY <1>4, <1>10, <4>2
      <3>3. QED
        BY <3>1, <3>2
    <2>8. \A c \in H2 : c \in H \/ c = x
      BY <1>4
    <2>9. QED
      BY <2>2, <2>4, <2>5, <2>6, <2>7, <2>8 DEF Numbered
  <1>12. S \subseteq H /\ x \notin S /\ Seen(W, H2, p, num2, S)
    <2>1. Seen(W, H, p, num, S)
      BY <1>1 DEF Explained
    <2>2. S \subseteq H
      BY <2>1 DEF Seen
    <2> HIDE DEF num2
    <2>3. QED
      BY <1>4, <1>10, <2>1, <2>2 DEF Seen
  <1>13. Placed(H2, u2, S, us2)
    <2>1. Placed(H, u, S, us)
      BY <1>1 DEF Explained
    <2>2. us \in [H \ S -> Nat \ {0}]
      BY <2>1 DEF Placed
    <2>3. us2 \in [H2 \ S -> Nat \ {0}] /\ us2[x] = u[0] + 1 /\ \A c \in H \ S : us2[c] = us[c]
      BY <1>4, <1>5, <1>12, <2>2
    <2> HIDE DEF us2
    <2>4. ASSUME NEW c \in H \ S PROVE us2[c] <= u2[c[1]] /\ (c[1] = 0 => us2[c] # u[0] + 1)
      <3>1. us[c] <= u[c[1]] /\ us[c] \in Nat /\ c[1] \in 0 .. W - 1
        BY <1>3, <2>1, <2>2 DEF Placed
      <3>2. QED
        BY <1>5, <2>3, <3>1
    <2>5. us2[x] <= u2[x[1]]
      BY <1>5, <1>9, <2>3
    <2>6. ASSUME NEW c \in H2 \ S, NEW d \in H2 \ S, c[1] = d[1], us2[c] = us2[d] PROVE c = d
      <3>1. CASE c \in H /\ d \in H
        BY <2>1, <2>3, <2>6, <3>1 DEF Placed
      <3>2. CASE c = x /\ d \in H
        BY <1>9, <2>3, <2>4, <2>6, <3>2
      <3>3. CASE c \in H /\ d = x
        BY <1>9, <2>3, <2>4, <2>6, <3>3
      <3>4. QED
        BY <1>4, <3>1, <3>2, <3>3
    <2>7. \A c \in H2 \ S : c \in H \ S \/ c = x
      BY <1>4
    <2>8. QED
      BY <2>3, <2>4, <2>5, <2>6, <2>7 DEF Placed
  <1>14. Awaited(o2, H2, num2, S, jw2)
    <2>1. Awaited(o, H, num, S, jw)
      BY <1>1 DEF Explained
    <2>2. jw \in [Pending(o) -> H \ S]
      BY <2>1 DEF Awaited
    <2>3. w \in Pending(o2) /\ \A v \in Pending(o2) : v # w => v \in Pending(o) /\ o2[v] = o[v]
      BY <1>3, <1>7 DEF Pending
    <2>4. jw2[w] = x /\ \A v \in Pending(o2) : v # w => jw2[v] = jw[v] /\ jw[v] \in H \ S
      BY <2>2, <2>3
    <2>5. jw2 \in [Pending(o2) -> H2 \ S]
      BY <1>4, <1>12, <2>2, <2>3
    <2> HIDE DEF jw2, num2
    <2>6. ASSUME NEW v \in Pending(o2), NEW z \in Pending(o2), jw2[v] = jw2[z] PROVE v = z
      <3>1. CASE v # w /\ z # w
        BY <2>1, <2>3, <2>4, <2>6, <3>1 DEF Awaited
      <3>2. CASE v = w \/ z = w
        BY <1>4, <2>4, <2>6, <3>2
      <3>3. QED
        BY <3>1, <3>2
    <2>7. ASSUME NEW v \in Pending(o2) PROVE jw2[v][1] = o2[v].age /\ num2[jw2[v]] = o2[v].n
      <3>1. CASE v = w
        BY <1>7, <1>9, <1>10, <2>4, <3>1
      <3>2. CASE v # w
        <4>1. v \in Pending(o) /\ o2[v] = o[v] /\ jw2[v] = jw[v] /\ jw[v] \in H
          BY <2>3, <2>4, <3>2
        <4>2. jw[v][1] = o[v].age /\ num[jw[v]] = o[v].n
          BY <2>1, <4>1 DEF Awaited
        <4>3. num2[jw[v]] = num[jw[v]]
          BY <1>10, <4>1
        <4>4. QED
          BY <4>1, <4>2, <4>3
      <3>3. QED
        BY <3>1, <3>2
    <2>8. QED
      BY <2>5, <2>6, <2>7 DEF Awaited
  <1> HIDE DEF life2, num2, us2, jw2
  <1>15. Explained(W, k2, o2, H2, u2, p, E, life2, num2, S, us2, jw2)
    BY <1>11, <1>12, <1>13, <1>14 DEF Explained
  <1>16. QED
    BY <1>2, <1>4, <1>5, <1>8, <1>15 DEF Good, H2, E

(* The larger of two numbers.                                              *)
LEMMA MaxOfTwo ==
  ASSUME NEW m \in Nat, NEW n \in Nat
  PROVE  Max({m, n}) \in Nat /\ Max({m, n}) >= m /\ Max({m, n}) >= n
         /\ (Max({m, n}) = m \/ Max({m, n}) = n)
  <1>1. \E x \in {m, n} : \A y \in {m, n} : x >= y
    <2>1. CASE m >= n
      BY <2>1
    <2>2. CASE n >= m
      BY <2>2
    <2>3. QED
      BY <2>1, <2>2
  <1>2. Max({m, n}) \in {m, n} /\ \A y \in {m, n} : Max({m, n}) >= y
    BY <1>1 DEF Max
  <1>3. QED
    BY <1>2

(* A rate is reported: it joins the peaks of age 0.                        *)
LEMMA PeakReported ==
  ASSUME NEW W \in Nat \ {0}, NEW p \in [0 .. W - 1 -> Nat], PeaksHaveMax(p, W), NEW r \in Nat,
         NEW q, q = [p EXCEPT ![0] = Max({r, @})]
  PROVE  /\ q \in [0 .. W - 1 -> Nat] /\ q[0] >= r /\ PeaksHaveMax(q, W)
         /\ \A a \in 0 .. W - 1 : q[a] >= p[a]
  <1>1. 0 \in 0 .. W - 1 /\ p[0] \in Nat
    OBVIOUS
  <1>2. /\ Max({r, p[0]}) \in Nat /\ Max({r, p[0]}) >= r /\ Max({r, p[0]}) >= p[0]
    BY <1>1, MaxOfTwo
  <1> DEFINE x == Max({r, p[0]})
  <1>3. q = [p EXCEPT ![0] = x]
    OBVIOUS
  <1> HIDE DEF x
  <1>4. /\ q \in [0 .. W - 1 -> Nat] /\ q[0] = x /\ \A a \in 0 .. W - 1 : a # 0 => q[a] = p[a]
        /\ x \in Nat /\ x >= r /\ x >= p[0]
    BY <1>1, <1>2, <1>3 DEF x
  <1>5. \A a \in 0 .. W - 1 : q[a] >= p[a] /\ q[a] \in Nat /\ p[a] \in Nat
    BY <1>4
  <1>6. ASSUME NEW b \in 0 .. W - 1 PROVE \E a \in 0 .. b : \A c \in 0 .. b : q[c] <= q[a]
    <2>1. PICK a \in 0 .. b : \A c \in 0 .. b : p[c] <= p[a]
      BY DEF PeaksHaveMax
    <2>2. 0 \in 0 .. b /\ 0 .. b \subseteq 0 .. W - 1
      OBVIOUS
    <2>3. CASE x >= p[a]
      <3>1. \A c \in 0 .. b : q[c] <= q[0]
        BY <1>4, <1>5, <2>1, <2>2, <2>3
      <3>2. QED
        BY <2>2, <3>1
    <2>4. CASE x < p[a]
      <3>1. a # 0
        BY <1>1, <1>4, <2>4
      <3>2. q[a] = p[a]
        BY <1>4, <2>2, <3>1
      <3>3. \A c \in 0 .. b : q[c] <= q[a]
        BY <1>4, <1>5, <2>1, <2>2, <2>4, <3>2
      <3>4. QED
        BY <3>3
    <2>5. p[a] \in Nat
      BY <1>5, <2>2
    <2>6. x >= p[a] \/ x < p[a]
      BY <1>4, <2>5
    <2>7. QED
      BY <2>3, <2>4, <2>6
  <1>7. QED
    BY <1>4, <1>5, <1>6 DEF PeaksHaveMax

(* A rate is read: when it covers the request of its reader, that request  *)
(* is seen, and its place among the unseen goes to the last of its age.    *)
LEMMA GetGood ==
  ASSUME NEW W, NEW k, NEW o, NEW h, NEW u, NEW p, NEW e, Good(W, k, o, h, u, p, e),
         NEW w \in Workers, NEW o2, o2 = [o EXCEPT ![w] = None],
         NEW p2, p2 = [p EXCEPT ![0] = Max({k.n, @})],
         NEW u2, u2 = IF o[w].n > 0 /\ k.n >= o[w].n THEN [u EXCEPT ![o[w].age] = @ - 1] ELSE u
  PROVE  Good(W, k, o2, h, u2, p2, e)
  <1> DEFINE H == Cells(h, W)
             E == Cells(e, W)
             t == o[w].age
             y == u[t]
  <1>1. PICK life, num, S, us, jw : Explained(W, k, o, H, u, p, E, life, num, S, us, jw)
    BY DEF Good
  <1>2. WindowTypes(W, k, o, h, u, p, e) /\ PeaksHaveMax(p, W)
        /\ IsFiniteSet(H) /\ IsFiniteSet(Cells(u, W)) /\ IsFiniteSet(E)
    BY DEF Good
  <1>3. /\ W \in Nat \ {0} /\ 0 \in 0 .. W - 1 /\ k.n \in Nat
        /\ \A c \in H : c[1] \in 0 .. W - 1 /\ c[1] \in Nat
    BY GoodIs
  <1>4. /\ p2 \in [0 .. W - 1 -> Nat] /\ p2[0] >= k.n /\ PeaksHaveMax(p2, W)
        /\ \A a \in 0 .. W - 1 : p2[a] >= p[a] /\ p2[a] \in Nat /\ p[a] \in Nat
    <2>1. p \in [0 .. W - 1 -> Nat]
      BY <1>2 DEF WindowTypes
    <2>2. /\ p2 \in [0 .. W - 1 -> Nat] /\ p2[0] >= k.n /\ PeaksHaveMax(p2, W)
          /\ \A a \in 0 .. W - 1 : p2[a] >= p[a]
      BY <1>2, <1>3, <2>1, PeakReported
    <2>3. QED
      BY <2>1, <2>2
  <1>5. /\ o2 \in [Workers -> [n : Nat, age : 0 .. W - 1]] /\ o2[w].n = 0
        /\ \A v \in Workers : v # w => o2[v] = o[v]
    BY <1>2, <1>3 DEF WindowTypes, None
  <1>6. u \in [0 .. W - 1 -> Nat] /\ t \in 0 .. W - 1 /\ y \in Nat /\ o[w].n \in Nat
    BY <1>2 DEF WindowTypes
  <1>7. Numbered(W, k, H, E, life, num) /\ Seen(W, H, p, num, S)
        /\ Placed(H, u, S, us) /\ Awaited(o, H, num, S, jw)
    BY <1>1 DEF Explained
  <1>8. /\ S \subseteq H /\ num \in [H -> Nat \ {0}]
        /\ us \in [H \ S -> Nat \ {0}] /\ \A c \in H \ S : us[c] <= u[c[1]] /\ us[c] \in Nat \ {0}
        /\ jw \in [Pending(o) -> H \ S]
    BY <1>7 DEF Numbered, Seen, Placed, Awaited
  <1>9. \A v \in Pending(o2) : v # w /\ v \in Pending(o) /\ o2[v] = o[v]
    BY <1>5 DEF Pending
  <1> DEFINE jw2 == [v \in Pending(o2) |-> jw[v]]
  <1>10. ASSUME NEW T \in SUBSET H, S \subseteq T, \A v \in Pending(o2) : jw[v] \notin T
         PROVE  Awaited(o2, H, num, T, jw2)
    <2>1. jw2 \in [Pending(o2) -> H \ T] /\ \A v \in Pending(o2) : jw2[v] = jw[v]
      BY <1>8, <1>9, <1>10
    <2> HIDE DEF jw2, H
    <2>2. ASSUME NEW v \in Pending(o2), NEW z \in Pending(o2), jw2[v] = jw2[z] PROVE v = z
      BY <1>7, <1>9, <2>1, <2>2 DEF Awaited
    <2>3. ASSUME NEW v \in Pending(o2) PROVE jw2[v][1] = o2[v].age /\ num[jw2[v]] = o2[v].n
      BY <1>7, <1>9, <2>1 DEF Awaited
    <2>4. QED
      BY <2>1, <2>2, <2>3 DEF Awaited
  <1>11. ASSUME NEW c \in S PROVE \E a \in 0 .. W - 1 : a <= c[1] /\ num[c] <= p2[a]
    <2>1. PICK a \in 0 .. W - 1 : a <= c[1] /\ num[c] <= p[a]
      BY <1>7 DEF Seen
    <2>2. num[c] \in Nat
      BY <1>8
    <2>3. p2[a] >= p[a] /\ p2[a] \in Nat /\ p[a] \in Nat
      BY <1>4
    <2>4. num[c] <= p2[a]
      BY <2>1, <2>2, <2>3
    <2>5. QED
      BY <2>1, <2>4
  <1> HIDE DEF H, E, t, y, jw2
  <1>12. ASSUME NEW T, NEW vs, u2 \in [0 .. W - 1 -> Nat], IsFiniteSet(Cells(u2, W)),
                Seen(W, H, p2, num, T), Placed(H, u2, T, vs), Awaited(o2, H, num, T, jw2)
         PROVE  Good(W, k, o2, h, u2, p2, e)
    <2>1. WindowTypes(W, k, o2, h, u2, p2, e)
      BY <1>2, <1>4, <1>5, <1>12 DEF WindowTypes
    <2>2. Explained(W, k, o2, H, u2, p2, E, life, num, T, vs, jw2)
      BY <1>7, <1>12 DEF Explained
    <2>3. QED
      BY <1>2, <1>4, <1>12, <2>1, <2>2 DEF Good, H, E
  <1>13. CASE ~(o[w].n > 0 /\ k.n >= o[w].n)
    <2>1. u2 = u
      BY <1>13
    <2>2. Awaited(o2, H, num, S, jw2)
      BY <1>8, <1>9, <1>10
    <2>3. Seen(W, H, p2, num, S)
      BY <1>8, <1>11 DEF Seen
    <2>4. QED
      BY <1>2, <1>6, <1>7, <1>12, <2>1, <2>2, <2>3
  <1>14. CASE o[w].n > 0 /\ k.n >= o[w].n
    <2> DEFINE x == jw[w]
               T == S \cup {x}
               us2 == [c \in H \ T |-> IF c[1] = t /\ us[c] = y THEN us[x] ELSE us[c]]
    <2>1. w \in Pending(o)
      BY <1>14 DEF Pending
    <2>2. x \in H \ S /\ x[1] = t /\ num[x] = o[w].n
      BY <1>7, <1>8, <2>1 DEF Awaited, t
    <2>3. us[x] \in Nat \ {0} /\ us[x] <= y
      BY <1>8, <2>2 DEF y
    <2>4. u2 = [u EXCEPT ![t] = @ - 1] /\ u[t] > 0
      BY <1>6, <1>14, <2>3 DEF t, y
    <2>5. u2 \in [0 .. W - 1 -> Nat] /\ IsFiniteSet(Cells(u2, W))
      BY <1>2, <1>3, <1>6, <2>4, DropCell
    <2>6. u2[t] = y - 1 /\ \A a \in 0 .. W - 1 : a # t => u2[a] = u[a]
      BY <1>6, <2>4 DEF y
    <2> HIDE DEF x
    <2>7. Seen(W, H, p2, num, T)
      <3>1. num[x] <= p2[0] /\ 0 <= x[1]
        BY <1>3, <1>4, <1>6, <1>14, <2>2
      <3>2. \E a \in 0 .. W - 1 : a <= x[1] /\ num[x] <= p2[a]
        BY <1>3, <3>1
      <3>3. T \subseteq H
        BY <1>8, <2>2
      <3>4. \A c \in T : c \in S \/ c = x
        OBVIOUS
      <3> HIDE DEF T
      <3>5. QED
        BY <1>11, <3>2, <3>3, <3>4 DEF Seen
    <2>8. Awaited(o2, H, num, T, jw2)
      <3>1. ASSUME NEW v \in Pending(o2) PROVE jw[v] \notin T
        <4>1. v # w /\ v \in Pending(o) /\ jw[v] \in H \ S
          BY <1>8, <1>9
        <4>2. jw[v] # jw[w]
          BY <1>7, <2>1, <4>1 DEF Awaited
        <4>3. QED
          BY <4>1, <4>2 DEF x
      <3>2. T \in SUBSET H /\ S \subseteq T
        BY <1>8, <2>2
      <3>3. QED
        BY <1>10, <3>1, <3>2
    <2>9. Placed(H, u2, T, us2)
      <3>1. \A c \in H \ T : c \in H \ S /\ c # x
        OBVIOUS
      <3>2. /\ us2 \in [H \ T -> Nat \ {0}]
            /\ \A c \in H \ T : us2[c] = IF c[1] = t /\ us[c] = y THEN us[x] ELSE us[c]
        BY <1>8, <2>3, <3>1
      <3> HIDE DEF us2, T
      <3>3. \A c, d \in H \ S : c[1] = d[1] /\ us[c] = us[d] => c = d
        BY <1>7 DEF Placed
      <3>4. ASSUME NEW c \in H \ T PROVE us2[c] <= u2[c[1]]
        <4>1. c \in H \ S /\ c # x /\ c[1] \in 0 .. W - 1 /\ us[c] <= u[c[1]] /\ us[c] \in Nat
          BY <1>3, <1>8, <3>1
        <4>2. CASE c[1] # t
          BY <2>6, <3>2, <4>1, <4>2
        <4>3. CASE c[1] = t /\ us[c] # y
          BY <1>6, <2>6, <3>2, <4>1, <4>3 DEF y
        <4>4. CASE c[1] = t /\ us[c] = y
          <5>1. us[x] # y
            BY <2>2, <3>3, <4>1, <4>4
          <5>2. QED
            BY <1>6, <2>3, <2>6, <3>2, <4>4, <5>1
        <4>5. QED
          BY <4>2, <4>3, <4>4
      <3>5. ASSUME NEW c \in H \ T, NEW d \in H \ T, c[1] = d[1], us2[c] = us2[d] PROVE c = d
        <4>1. c \in H \ S /\ c # x /\ d \in H \ S /\ d # x
          BY <3>1
        <4>2. c[1] = t => us[c] # us[x] /\ us[d] # us[x]
          BY <2>2, <3>3, <3>5, <4>1
        <4>3. us[c] = us[d]
          BY <3>2, <3>5, <4>2
        <4>4. QED
          BY <3>3, <3>5, <4>1, <4>3
      <3>6. QED
        BY <3>2, <3>4, <3>5 DEF Placed
    <2> HIDE DEF T, us2
    <2>10. QED
      BY <1>12, <2>5, <2>7, <2>8, <2>9
  <1>15. QED
    BY <1>13, <1>14

(* The key is evicted: the current life becomes one that ended now.        *)
LEMMA EvictGood ==
  ASSUME NEW W, NEW k, NEW o, NEW h, NEW u, NEW p, NEW e, Good(W, k, o, h, u, p, e),
         NEW e2, e2 = [e EXCEPT ![0] = @ + 1]
  PROVE  Good(W, NoKey, o, h, u, p, e2)
  <1> DEFINE H == Cells(h, W)
             E == Cells(e, W)
             E2 == Cells(e2, W)
             y == <<0, e[0] + 1>>
  <1>1. PICK life, num, S, us, jw : Explained(W, k, o, H, u, p, E, life, num, S, us, jw)
    BY DEF Good
  <1>2. WindowTypes(W, k, o, h, u, p, e) /\ PeaksHaveMax(p, W)
        /\ IsFiniteSet(H) /\ IsFiniteSet(Cells(u, W)) /\ IsFiniteSet(E)
    BY DEF Good
  <1>3. /\ W \in Nat \ {0} /\ \A c \in H : c[1] \in Nat
        /\ Cur \notin E /\ Exp \notin E /\ Cur # Exp
    BY GoodIs
  <1>4. /\ e2 \in [0 .. W - 1 -> Nat] /\ y \notin E /\ E2 = E \cup {y} /\ IsFiniteSet(E2)
    BY <1>2, <1>3, AddCell DEF WindowTypes
  <1>5. Cur \notin E2 /\ Exp \notin E2
    BY <1>3, <1>4, CellsAre
  <1>6. y[1] = 0
    OBVIOUS
  <1>7. WindowTypes(W, NoKey, o, h, u, p, e2) /\ NoKey.n = 0
    BY <1>2, <1>4 DEF WindowTypes, NoKey
  <1> DEFINE life2 == [c \in H |-> IF life[c] = Cur THEN y ELSE life[c]]
  <1> HIDE DEF H, E, E2, y, Cur, Exp, NoKey
  <1>8. Numbered(W, NoKey, H, E2, life2, num)
    <2>0. Numbered(W, k, H, E, life, num)
      BY <1>1 DEF Explained
    <2>1. /\ \A c \in H : life[c] \in {Cur, Exp} \cup E /\ num[c] \in Nat \ {0}
          /\ num \in [H -> Nat \ {0}]
      BY <2>0 DEF Numbered
    <2>2. /\ life2 \in [H -> {Cur, Exp} \cup E2]
          /\ \A c \in H : life2[c] = IF life[c] = Cur THEN y ELSE life[c]
      BY <1>4, <2>1
    <2> HIDE DEF life2
    <2>3. \A c \in H : life2[c] = y <=> life[c] = Cur
      BY <1>3, <1>4, <1>5, <2>1, <2>2
    <2>4. ASSUME NEW c \in H, NEW d \in H, life2[c] = life2[d], num[c] = num[d] PROVE c = d
      <3>1. life[c] = life[d]
        BY <2>2, <2>3, <2>4
      <3>2. QED
        BY <2>0, <2>4, <3>1 DEF Numbered
    <2>5. ASSUME NEW c \in H
          PROVE  /\ life2[c] # Cur
                 /\ life2[c] = Exp => c[1] >= 1
                 /\ life2[c] \in E2 => life2[c][1] <= c[1]
      <3>1. CASE life[c] = Cur
        BY <1>3, <1>4, <1>5, <1>6, <2>2, <3>1
      <3>2. CASE life[c] # Cur
        <4>1. life2[c] = life[c] /\ life2[c] # y
          BY <2>2, <2>3, <3>2
        <4>2. life[c] = Exp => c[1] >= 1
          BY <2>0 DEF Numbered
        <4>3. life[c] \in E => life[c][1] <= c[1]
          BY <2>0 DEF Numbered
        <4>4. QED
          BY <1>4, <3>2, <4>1, <4>2, <4>3
      <3>3. QED
        BY <3>1, <3>2
    <2>6. 1 .. NoKey.n = {}
      BY <1>7
    <2>7. QED
      BY <2>1, <2>2, <2>4, <2>5, <2>6 DEF Numbered
  <1> HIDE DEF life2
  <1>9. Explained(W, NoKey, o, H, u, p, E2, life2, num, S, us, jw)
    BY <1>1, <1>8 DEF Explained
  <1>10. QED
    BY <1>2, <1>4, <1>7, <1>9 DEF Good, H, E, E2

(* The peaks, a second later.                                              *)
LEMMA PeaksAged ==
  ASSUME NEW W \in Nat \ {0}, NEW p \in [0 .. W - 1 -> Nat], PeaksHaveMax(p, W),
         NEW q, q = Aged(p, W)
  PROVE  PeaksHaveMax(q, W)
  <1>1. /\ q \in [0 .. W - 1 -> Nat] /\ q[0] = 0
        /\ \A a \in 0 .. W - 1 : a # 0 => q[a] = p[a - 1] /\ a - 1 \in 0 .. W - 1
    BY DEF Aged
  <1>2. ASSUME NEW b \in 0 .. W - 1 PROVE \E a \in 0 .. b : \A c \in 0 .. b : q[c] <= q[a]
    <2>1. CASE b = 0
      <3>1. \A c \in 0 .. b : q[c] <= q[0]
        BY <1>1, <2>1
      <3>2. QED
        BY <2>1, <3>1
    <2>2. CASE b # 0
      <3>1. b - 1 \in 0 .. W - 1
        BY <2>2
      <3>2. PICK a \in 0 .. b - 1 : \A c \in 0 .. b - 1 : p[c] <= p[a]
        BY <3>1 DEF PeaksHaveMax
      <3>3. a + 1 \in 0 .. b /\ a + 1 \in 0 .. W - 1 /\ a + 1 # 0 /\ (a + 1) - 1 = a
            /\ a \in 0 .. W - 1
        BY <2>2
      <3>4. q[a + 1] = p[a] /\ p[a] \in Nat
        BY <1>1, <3>3
      <3>5. ASSUME NEW c \in 0 .. b PROVE q[c] <= q[a + 1]
        <4>1. CASE c = 0
          BY <1>1, <3>4, <4>1
        <4>2. CASE c # 0
          <5>1. c \in 0 .. W - 1 /\ c - 1 \in 0 .. b - 1
            BY <4>2
          <5>2. QED
            BY <1>1, <3>2, <3>4, <4>2, <5>1
        <4>3. QED
          BY <4>1, <4>2
      <3>6. QED
        BY <3>3, <3>5
    <2>3. QED
      BY <2>1, <2>2
  <1>3. QED
    BY <1>2 DEF PeaksHaveMax

(* A second passes: hits and evictions are one second older, and the       *)
(* current life has expired when its TTL is over; the hits of the one that *)
(* expired before have left the window by then.                            *)
LEMMA TickGood ==
  ASSUME NEW W, NEW k, NEW o, NEW h, NEW u, NEW p, NEW e, Good(W, k, o, h, u, p, e),
         NEW k2, k2 = IF k.ttl <= 1 THEN NoKey ELSE [k EXCEPT !.ttl = @ - 1],
         NEW o2, o2 = [w \in Workers |-> IF o[w].n = 0 \/ o[w].age + 1 = W THEN None
                                         ELSE [o[w] EXCEPT !.age = @ + 1]],
         NEW h2, h2 = Aged(h, W), NEW u2, u2 = Aged(u, W),
         NEW p2, p2 = Aged(p, W), NEW e2, e2 = Aged(e, W)
  PROVE  Good(W, k2, o2, h2, u2, p2, e2)
  <1> DEFINE H == Cells(h, W)
             E == Cells(e, W)
             H2 == Cells(h2, W)
             E2 == Cells(e2, W)
  <1>1. PICK life, num, S, us, jw : Explained(W, k, o, H, u, p, E, life, num, S, us, jw)
    BY DEF Good
  <1>2. WindowTypes(W, k, o, h, u, p, e) /\ PeaksHaveMax(p, W)
        /\ IsFiniteSet(H) /\ IsFiniteSet(Cells(u, W)) /\ IsFiniteSet(E)
    BY DEF Good
  <1>3. /\ W \in Nat \ {0} /\ k.n \in Nat /\ k.ttl \in Nat /\ k \in [n : Nat, ttl : Nat]
        /\ (k = NoKey \/ (k.n > 0 /\ k.ttl \in 1 .. W))
        /\ \A c \in H : c[1] \in Nat /\ c[1] < W
        /\ \A c \in E : c[1] \in Nat /\ c[1] < W
        /\ Cur \notin E /\ Exp \notin E /\ Cur # Exp
    <2>1. \A c \in H : c[1] \in 0 .. W - 1 /\ c[1] \in Nat
      BY GoodIs
    <2>2. W \in Nat
      BY GoodIs
    <2>3. \A c \in H : c[1] \in Nat /\ c[1] < W
      BY <2>1, <2>2
    <2> HIDE DEF H, E
    <2>4. QED
      BY <2>3, GoodIs DEF E
  <1>t. /\ h \in [0 .. W - 1 -> Nat] /\ u \in [0 .. W - 1 -> Nat]
        /\ p \in [0 .. W - 1 -> Nat] /\ e \in [0 .. W - 1 -> Nat]
    BY <1>2 DEF WindowTypes
  <1>4. /\ h2 \in [0 .. W - 1 -> Nat] /\ IsFiniteSet(H2)
        /\ \A c \in H2 : c[1] >= 1 /\ Back(c) \in H /\ Back(c)[1] = c[1] - 1
        /\ \A c, d \in H2 : Back(c) = Back(d) => c = d
        /\ \A c \in H : c[1] + 1 < W => Fwd(c) \in H2 /\ Back(Fwd(c)) = c
    BY <1>t, <1>2, <1>3, OlderCells
  <1>5. /\ e2 \in [0 .. W - 1 -> Nat] /\ IsFiniteSet(E2)
        /\ \A c \in E : c[1] + 1 < W => Fwd(c) \in E2 /\ Back(Fwd(c)) = c
    BY <1>t, <1>2, <1>3, OlderCells
  <1>6. /\ u2 \in [0 .. W - 1 -> Nat] /\ IsFiniteSet(Cells(u2, W))
        /\ \A a \in 0 .. W - 1 : a + 1 < W => u2[a + 1] = u[a]
    BY <1>t, <1>2, <1>3, OlderCells
  <1>7. /\ p2 \in [0 .. W - 1 -> Nat] /\ PeaksHaveMax(p2, W)
        /\ \A a \in 0 .. W - 1 : a + 1 < W => p2[a + 1] = p[a]
    <2>1. /\ p2 \in [0 .. W - 1 -> Nat]
          /\ \A a \in 0 .. W - 1 : a + 1 < W => p2[a + 1] = p[a]
      BY <1>t, <1>3, OlderCells
    <2>2. PeaksHaveMax(p2, W)
      BY <1>t, <1>2, <1>3, PeaksAged
    <2>3. QED
      BY <2>1, <2>2
  <1>8. Cur \notin E2 /\ Exp \notin E2
    BY <1>3, <1>5, CellsAre
  <1>9. \A c \in H2 : c[1] \in Nat /\ c[1] < W
    <2>1. \A c \in H2 : c[1] \in 0 .. W - 1
      BY <1>3, <1>4, CellsAre
    <2> HIDE DEF H2
    <2>2. QED
      BY <1>3, <2>1
  <1>10. /\ k2 \in [n : Nat, ttl : Nat] /\ k2.n \in Nat /\ k2.ttl \in Nat
         /\ k2 = NoKey \/ (k2.n > 0 /\ k2.ttl \in 1 .. W)
         /\ k.ttl <= 1 => k2 = NoKey /\ k2.n = 0
         /\ k.ttl > 1 => k # NoKey /\ k2.n = k.n /\ k2.ttl = k.ttl - 1
    <2>1. CASE k.ttl <= 1
      BY <1>3, <2>1 DEF NoKey
    <2>2. CASE k.ttl > 1
      BY <1>3, <2>2 DEF NoKey
    <2>3. QED
      BY <1>3, <2>1, <2>2
  <1>11. /\ o2 \in [Workers -> [n : Nat, age : 0 .. W - 1]]
         /\ \A w \in Pending(o2) : /\ w \in Pending(o) /\ o[w].age + 1 < W
                                   /\ o2[w].n = o[w].n /\ o2[w].age = o[w].age + 1
    <2>1. \A w \in Workers : o[w] \in [n : Nat, age : 0 .. W - 1]
      BY <1>2 DEF WindowTypes
    <2>2. ASSUME NEW w \in Workers
          PROVE  /\ o2[w] \in [n : Nat, age : 0 .. W - 1]
                 /\ o2[w].n > 0 => /\ o[w].n > 0 /\ o[w].age + 1 < W
                                   /\ o2[w].n = o[w].n /\ o2[w].age = o[w].age + 1
      <3>1. CASE o[w].n = 0 \/ o[w].age + 1 = W
        BY <1>3, <3>1 DEF None
      <3>2. CASE ~(o[w].n = 0 \/ o[w].age + 1 = W)
        <4>1. o2[w] = [o[w] EXCEPT !.age = @ + 1] /\ o[w] \in [n : Nat, age : 0 .. W - 1]
          BY <2>1, <3>2
        <4>2. o2[w].n = o[w].n /\ o2[w].age = o[w].age + 1 /\ o2[w] = [n |-> o[w].n, age |-> o[w].age + 1]
          BY <4>1
        <4>3. o[w].n \in Nat /\ o[w].age \in 0 .. W - 1
          BY <4>1
        <4>4. o[w].n > 0 /\ o[w].age + 1 < W /\ o[w].age + 1 \in 0 .. W - 1
          BY <1>3, <3>2, <4>3
        <4>5. QED
          BY <4>2, <4>3, <4>4
      <3>3. QED
        BY <3>1, <3>2
    <2>3. o2 \in [Workers -> [n : Nat, age : 0 .. W - 1]]
      BY <2>2
    <2>4. QED
      BY <2>2, <2>3 DEF Pending
  <1>12. WindowTypes(W, k2, o2, h2, u2, p2, e2)
    BY <1>3, <1>4, <1>5, <1>6, <1>7, <1>10, <1>11 DEF WindowTypes
  <1>13. Numbered(W, k, H, E, life, num) /\ Seen(W, H, p, num, S)
         /\ Placed(H, u, S, us) /\ Awaited(o, H, num, S, jw)
    BY <1>1 DEF Explained
  <1> DEFINE Later(l) == IF l = Cur THEN (IF k.ttl <= 1 THEN Exp ELSE Cur)
                         ELSE IF l = Exp THEN Exp ELSE Fwd(l)
             life2 == [c \in H2 |-> Later(life[Back(c)])]
             num2 == [c \in H2 |-> num[Back(c)]]
             S2 == {c \in H2 : Back(c) \in S}
             us2 == [c \in H2 \ S2 |-> us[Back(c)]]
             jw2 == [w \in Pending(o2) |-> Fwd(jw[w])]
  <1>14. /\ \A c \in H2 : life2[c] = Later(life[Back(c)]) /\ num2[c] = num[Back(c)]
         /\ S2 \subseteq H2 /\ \A c \in H2 : c \in S2 <=> Back(c) \in S
    OBVIOUS
  <1> HIDE DEF H, E, H2, E2, Cur, Exp, NoKey, Later
  <1>15. Numbered(W, k2, H2, E2, life2, num2)
    <2>1. \A c \in H : life[c] \in {Cur, Exp} \cup E /\ num[c] \in Nat \ {0}
      BY <1>13 DEF Numbered
    <2>2. \A c \in H : /\ life[c] = Cur => num[c] <= k.n /\ c[1] + k.ttl <= W
                       /\ life[c] = Exp => c[1] >= 1 /\ (k # NoKey => c[1] + k.ttl > W)
                       /\ life[c] \in E => life[c][1] <= c[1]
      BY <1>13 DEF Numbered
    <2>3. num2 \in [H2 -> Nat \ {0}]
      BY <1>4, <2>1
    <2>4. ASSUME NEW c \in H2, life[Back(c)] = Cur
          PROVE  /\ k # NoKey /\ Back(c)[1] + k.ttl <= W
                 /\ \/ k.ttl = 1 /\ Later(Cur) = Exp
                    \/ k.ttl > 1 /\ Later(Cur) = Cur
                 /\ num[Back(c)] <= k.n
      <3>1. num[Back(c)] <= k.n /\ Back(c)[1] + k.ttl <= W /\ num[Back(c)] \in Nat \ {0}
        BY <1>4, <2>1, <2>2, <2>4
      <3>2. k # NoKey
        <4>1. k.n > 0
          BY <1>3, <3>1
        <4>2. QED
          BY <4>1 DEF NoKey
      <3>3. k.ttl = 1 \/ k.ttl > 1
        BY <1>3, <3>2
      <3>4. QED
        BY <1>3, <3>1, <3>2, <3>3 DEF Later
    <2>5. ASSUME NEW c \in H2, life[Back(c)] = Exp
          PROVE  Later(Exp) = Exp /\ (k # NoKey => Back(c)[1] + k.ttl > W)
      BY <1>3, <1>4, <2>2, <2>5 DEF Later
    <2>6. ASSUME NEW c \in H2, life[Back(c)] \in E
          PROVE  /\ Later(life[Back(c)]) = Fwd(life[Back(c)]) /\ Fwd(life[Back(c)]) \in E2
                 /\ Fwd(life[Back(c)])[1] <= c[1] /\ Back(Fwd(life[Back(c)])) = life[Back(c)]
      <3> DEFINE l == life[Back(c)]
      <3>1. l \in E /\ l[1] <= Back(c)[1] /\ Back(c)[1] = c[1] - 1 /\ l[1] \in Nat
        BY <1>3, <1>4, <2>2, <2>6
      <3>2. l # Cur /\ l # Exp
        BY <1>3, <2>6
      <3> HIDE DEF l
      <3>3. l[1] + 1 < W /\ l[1] + 1 <= c[1]
        BY <1>3, <1>9, <3>1
      <3>4. Fwd(l)[1] = l[1] + 1
        BY DEF Fwd
      <3>5. Later(l) = Fwd(l)
        BY <3>2 DEF Later
      <3>6. QED
        BY <1>5, <3>1, <3>3, <3>4, <3>5 DEF l
    <2>7. \A c \in H2 : Back(c) \in H /\ life[Back(c)] \in {Cur, Exp} \cup E
      BY <1>4, <2>1
    <2>8. life2 \in [H2 -> {Cur, Exp} \cup E2]
      <3>1. ASSUME NEW c \in H2 PROVE Later(life[Back(c)]) \in {Cur, Exp} \cup E2
        BY <2>4, <2>5, <2>6, <2>7
      <3>2. QED
        BY <3>1
    <2> HIDE DEF life2, num2
    <2>9. ASSUME NEW c \in H2, NEW d \in H2, life[Back(c)] = Cur, life[Back(d)] = Exp
          PROVE  life2[c] # life2[d]
      <3>1. k # NoKey /\ Back(d)[1] + k.ttl > W /\ life2[d] = Exp
        BY <1>14, <2>4, <2>5, <2>9
      <3>2. k.ttl # 1
        <4>1. Back(d)[1] = d[1] - 1 /\ d[1] \in Nat /\ d[1] < W
          BY <1>4, <1>9
        <4>2. QED
          BY <1>3, <3>1, <4>1
      <3>3. life2[c] = Cur
        BY <1>14, <2>4, <2>9, <3>2
      <3>4. QED
        BY <1>3, <3>1, <3>3
    <2>10. ASSUME NEW c \in H2, NEW d \in H2, life[Back(c)] \in E, life[Back(d)] \in {Cur, Exp}
           PROVE  life2[c] # life2[d]
      <3>1. life2[c] \in E2
        BY <1>14, <2>6, <2>10
      <3>2. life2[d] \in {Cur, Exp}
        BY <1>14, <2>4, <2>5, <2>10
      <3>3. QED
        BY <1>8, <3>1, <3>2
    <2>11. ASSUME NEW c \in H2, NEW d \in H2, life2[c] = life2[d], num2[c] = num2[d] PROVE c = d
      <3>1. life[Back(c)] = life[Back(d)]
        <4>1. CASE life[Back(c)] \in E /\ life[Back(d)] \in E
          <5>1. Fwd(life[Back(c)]) = Fwd(life[Back(d)])
            BY <1>14, <2>6, <2>11, <4>1
          <5>2. Back(Fwd(life[Back(c)])) = Back(Fwd(life[Back(d)]))
            BY <5>1
          <5>3. QED
            BY <2>6, <4>1, <5>2
        <4>2. CASE ~(life[Back(c)] \in E /\ life[Back(d)] \in E)
          BY <2>7, <2>9, <2>10, <2>11, <4>2
        <4>3. QED
          BY <4>1, <4>2
      <3>2. Back(c) = Back(d)
        BY <1>13, <1>14, <2>7, <2>11, <3>1 DEF Numbered
      <3>3. QED
        BY <1>4, <3>2
    <2>12. ASSUME NEW c \in H2
           PROVE  /\ life2[c] = Cur => num2[c] <= k2.n /\ c[1] + k2.ttl <= W
                  /\ life2[c] = Exp => c[1] >= 1 /\ (k2 # NoKey => c[1] + k2.ttl > W)
                  /\ life2[c] \in E2 => life2[c][1] <= c[1]
      <3>0. c[1] >= 1 /\ c[1] \in Nat /\ Back(c)[1] = c[1] - 1 /\ life2[c] = Later(life[Back(c)])
            /\ num2[c] = num[Back(c)]
        BY <1>4, <1>9, <1>14
      <3>1. CASE life[Back(c)] = Cur
        <4>1. CASE k.ttl = 1
          BY <1>3, <1>8, <1>10, <2>4, <3>0, <3>1, <4>1
        <4>2. CASE k.ttl > 1
          <5>1. life2[c] = Cur /\ num[Back(c)] <= k.n /\ Back(c)[1] + k.ttl <= W
            BY <2>4, <3>0, <3>1, <4>2
          <5>2. num2[c] <= k2.n /\ c[1] + k2.ttl <= W
            BY <1>3, <1>10, <3>0, <4>2, <5>1
          <5>3. QED
            BY <1>3, <1>8, <5>1, <5>2
        <4>3. QED
          BY <2>4, <3>1, <4>1, <4>2
      <3>2. CASE life[Back(c)] = Exp
        <4>1. life2[c] = Exp /\ (k # NoKey => Back(c)[1] + k.ttl > W)
          BY <2>5, <3>0, <3>2
        <4>2. k2 # NoKey => c[1] + k2.ttl > W
          BY <1>3, <1>10, <3>0, <4>1
        <4>3. QED
          BY <1>3, <1>8, <3>0, <4>1, <4>2
      <3>3. CASE life[Back(c)] \in E
        BY <1>8, <2>6, <3>0, <3>3
      <3>4. QED
        BY <2>7, <3>1, <3>2, <3>3
    <2>13. ASSUME NEW n \in 1 .. k2.n PROVE \E c \in H2 : life2[c] = Cur /\ num2[c] = n
      <3>1. k.ttl > 1 /\ n \in 1 .. k.n
        BY <1>3, <1>10
      <3>2. PICK b \in H : life[b] = Cur /\ num[b] = n
        BY <1>13, <3>1 DEF Numbered
      <3>3. b[1] + 1 < W
        <4>1. b[1] \in Nat /\ b[1] + k.ttl <= W
          BY <1>3, <2>2, <3>2
        <4>2. QED
          BY <1>3, <3>1, <4>1
      <3>4. Fwd(b) \in H2 /\ Back(Fwd(b)) = b
        BY <1>4, <3>3
      <3>5. life2[Fwd(b)] = Later(Cur) /\ num2[Fwd(b)] = n
        BY <1>14, <3>2, <3>4
      <3>6. Later(Cur) = Cur
        BY <1>3, <3>1 DEF Later
      <3>7. QED
        BY <3>4, <3>5, <3>6
    <2>14. QED
      BY <2>3, <2>8, <2>11, <2>12, <2>13 DEF Numbered
  <1>16. Seen(W, H2, p2, num2, S2)
    <2> HIDE DEF num2, S2
    <2>1. ASSUME NEW c \in S2 PROVE \E a \in 0 .. W - 1 : a <= c[1] /\ num2[c] <= p2[a]
      <3>1. c \in H2 /\ Back(c) \in S /\ Back(c)[1] = c[1] - 1 /\ c[1] \in Nat /\ c[1] < W
            /\ num2[c] = num[Back(c)]
        BY <1>4, <1>9, <1>14
      <3>2. PICK a \in 0 .. W - 1 : a <= Back(c)[1] /\ num[Back(c)] <= p[a]
        BY <1>13, <3>1 DEF Seen
      <3>3. a + 1 \in 0 .. W - 1 /\ a + 1 < W /\ a + 1 <= c[1]
        BY <1>3, <3>1, <3>2
      <3>4. p2[a + 1] = p[a]
        BY <1>7, <3>3
      <3>5. num2[c] <= p2[a + 1]
        BY <3>1, <3>2, <3>4
      <3>6. QED
        BY <3>3, <3>5
    <2>2. QED
      BY <1>14, <2>1 DEF Seen
  <1>17. Placed(H2, u2, S2, us2)
    <2>1. \A c \in H2 \ S2 : Back(c) \in H \ S /\ us2[c] = us[Back(c)]
      BY <1>4
    <2>2. us \in [H \ S -> Nat \ {0}]
      BY <1>13 DEF Placed
    <2>3. us2 \in [H2 \ S2 -> Nat \ {0}]
      BY <2>1, <2>2
    <2> HIDE DEF us2, S2
    <2>4. ASSUME NEW c \in H2 \ S2 PROVE us2[c] <= u2[c[1]]
      <3>1. Back(c)[1] = c[1] - 1 /\ c[1] \in Nat /\ c[1] < W /\ c[1] >= 1
        BY <1>4, <1>9
      <3>2. u2[(c[1] - 1) + 1] = u[c[1] - 1] /\ (c[1] - 1) + 1 = c[1]
        <4>1. c[1] - 1 \in 0 .. W - 1 /\ (c[1] - 1) + 1 = c[1]
          BY <1>3, <3>1
        <4>2. QED
          BY <1>6, <3>1, <4>1
      <3>3. us[Back(c)] <= u[Back(c)[1]]
        BY <1>13, <2>1 DEF Placed
      <3>4. QED
        BY <2>1, <3>1, <3>2, <3>3
    <2>5. ASSUME NEW c \in H2 \ S2, NEW d \in H2 \ S2, c[1] = d[1], us2[c] = us2[d] PROVE c = d
      <3>1. Back(c)[1] = Back(d)[1]
        BY <1>4, <2>5
      <3>2. Back(c) = Back(d)
        BY <1>13, <2>1, <2>5, <3>1 DEF Placed
      <3>3. QED
        BY <1>4, <3>2
    <2>6. QED
      BY <2>3, <2>4, <2>5 DEF Placed
  <1>18. Awaited(o2, H2, num2, S2, jw2)
    <2>1. ASSUME NEW w \in Pending(o2)
          PROVE  /\ Fwd(jw[w]) \in H2 \ S2 /\ Back(Fwd(jw[w])) = jw[w] /\ jw[w] \in H \ S
                 /\ Fwd(jw[w])[1] = o2[w].age /\ num[jw[w]] = o2[w].n
      <3>1. /\ jw[w] \in H \ S /\ jw[w][1] = o[w].age /\ num[jw[w]] = o[w].n
            /\ o[w].age + 1 < W /\ o2[w].n = o[w].n /\ o2[w].age = o[w].age + 1
        BY <1>11, <1>13 DEF Awaited
      <3>2. Fwd(jw[w]) \in H2 /\ Back(Fwd(jw[w])) = jw[w]
        BY <1>4, <3>1
      <3>3. Fwd(jw[w])[1] = jw[w][1] + 1
        BY DEF Fwd
      <3> HIDE DEF S2
      <3>4. Fwd(jw[w]) \notin S2
        BY <1>14, <3>1, <3>2
      <3>5. QED
        BY <3>1, <3>2, <3>3, <3>4
    <2>2. jw2 \in [Pending(o2) -> H2 \ S2] /\ \A w \in Pending(o2) : jw2[w] = Fwd(jw[w])
      BY <2>1
    <2> HIDE DEF jw2, num2, S2
    <2>3. ASSUME NEW v \in Pending(o2), NEW w \in Pending(o2), jw2[v] = jw2[w] PROVE v = w
      <3>1. Back(Fwd(jw[v])) = Back(Fwd(jw[w]))
        BY <2>2, <2>3
      <3>2. jw[v] = jw[w]
        BY <2>1, <3>1
      <3>3. QED
        BY <1>11, <1>13, <3>2 DEF Awaited
    <2>4. ASSUME NEW w \in Pending(o2) PROVE jw2[w][1] = o2[w].age /\ num2[jw2[w]] = o2[w].n
      <3>1. num2[Fwd(jw[w])] = num[jw[w]]
        BY <1>14, <2>1
      <3>2. QED
        BY <2>1, <2>2, <3>1
    <2>5. QED
      BY <2>2, <2>3, <2>4 DEF Awaited
  <1> HIDE DEF life2, num2, S2, us2, jw2
  <1>19. Explained(W, k2, o2, H2, u2, p2, E2, life2, num2, S2, us2, jw2)
    BY <1>15, <1>16, <1>17, <1>18 DEF Explained
  <1>20. QED
    BY <1>4, <1>5, <1>6, <1>7, <1>12, <1>19 DEF Good, H2, E2

(* Before the first request.                                               *)
LEMMA InitGood ==
  ASSUME NEW W \in Nat \ {0}, NEW z, z = [a \in 0 .. W - 1 |-> 0],
         NEW o, o = [w \in Workers |-> None]
  PROVE  Good(W, NoKey, o, z, z, z, z)
  <1>1. z \in [0 .. W - 1 -> Nat] /\ \A a \in 0 .. W - 1 : z[a] = 0
    OBVIOUS
  <1>2. Cells(z, W) = {}
    <2>1. \A a \in 0 .. W - 1 : 1 .. z[a] = {}
      BY <1>1
    <2>2. \A c : c \in Cells(z, W) <=> \E a \in 0 .. W - 1 : \E m \in 1 .. z[a] : c = <<a, m>>
      BY <1>1, CellsAre
    <2>3. QED
      BY <2>1, <2>2
  <1>3. WindowTypes(W, NoKey, o, z, z, z, z)
    BY <1>1 DEF WindowTypes, NoKey, None
  <1>4. PeaksHaveMax(z, W)
    <2>1. ASSUME NEW b \in 0 .. W - 1 PROVE \E a \in 0 .. b : \A c \in 0 .. b : z[c] <= z[a]
      <3>1. 0 \in 0 .. b /\ \A c \in 0 .. b : z[c] <= z[0]
        BY <1>1
      <3>2. QED
        BY <3>1
    <2>2. QED
      BY <2>1 DEF PeaksHaveMax
  <1>5. Pending(o) = {}
    BY DEF Pending, None
  <1> DEFINE f == [c \in {} |-> 1]
  <1>6. \A T : f \in [{} -> T]
    OBVIOUS
  <1> HIDE DEF f
  <1>7. Explained(W, NoKey, o, {}, z, z, {}, f, f, {}, f, f)
    <2>1. Numbered(W, NoKey, {}, {}, f, f)
      <3>1. 1 .. NoKey.n = {}
        BY DEF NoKey
      <3>2. QED
        BY <1>6, <3>1 DEF Numbered
    <2>2. Seen(W, {}, z, f, {})
      BY DEF Seen
    <2>3. {} \ {} = {}
      OBVIOUS
    <2>4. Placed({}, z, {}, f)
      BY <1>6, <2>3 DEF Placed
    <2>5. Awaited(o, {}, f, {}, f)
      BY <1>5, <1>6, <2>3 DEF Awaited
    <2>6. QED
      BY <2>1, <2>2, <2>4, <2>5 DEF Explained
  <1>8. QED
    BY <1>2, <1>3, <1>4, <1>7, FS_EmptySet DEF Good

-----------------------------------------------------------------------------
(* What the invariant of a window means                                    *)

(* The requests that the counter counted are all in the window.            *)
LEMMA GoodCount ==
  ASSUME NEW W, NEW k, NEW o, NEW h, NEW u, NEW p, NEW e, Good(W, k, o, h, u, p, e)
  PROVE  k.n <= Cardinality(Cells(h, W))
  <1> DEFINE H == Cells(h, W)
             E == Cells(e, W)
  <1>1. PICK life, num, S, us, jw : Explained(W, k, o, H, u, p, E, life, num, S, us, jw)
    BY DEF Good
  <1>2. k.n \in Nat /\ IsFiniteSet(H)
    BY GoodIs DEF Good
  <1>3. \A n \in 1 .. k.n : \E c \in H : num[c] = n
    BY <1>1 DEF Explained, Numbered
  <1> DEFINE g == [n \in 1 .. k.n |-> CHOOSE c \in H : num[c] = n]
  <1> HIDE DEF H
  <1>4. \A n \in 1 .. k.n : g[n] \in H /\ num[g[n]] = n
    BY <1>3
  <1>5. g \in [1 .. k.n -> H]
    BY <1>4
  <1> HIDE DEF g
  <1>6. \A m, n \in 1 .. k.n : g[m] = g[n] => m = n
    BY <1>4
  <1>7. g \in Injection(1 .. k.n, H)
    BY <1>5, <1>6 DEF Injection, IsInjective
  <1>8. Cardinality(1 .. k.n) <= Cardinality(H)
    BY <1>2, <1>7, FS_Injection
  <1>9. Cardinality(1 .. k.n) = k.n
    BY <1>2, FS_Interval
  <1>10. QED
    BY <1>8, <1>9 DEF H

(* The highest of the reported rates.                                      *)
LEMMA PeakIs ==
  ASSUME NEW W \in Nat \ {0}, NEW p \in [0 .. W - 1 -> Nat], PeaksHaveMax(p, W),
         NEW P, P = Max({p[a] : a \in 0 .. W - 1})
  PROVE  P \in Nat /\ \A a \in 0 .. W - 1 : p[a] <= P
  <1>1. W - 1 \in 0 .. W - 1
    OBVIOUS
  <1>2. \E a \in 0 .. W - 1 : \A c \in 0 .. W - 1 : p[c] <= p[a]
    BY <1>1 DEF PeaksHaveMax
  <1> DEFINE R == {p[a] : a \in 0 .. W - 1}
  <1>3. \E x \in R : \A y \in R : x >= y
    BY <1>2
  <1>4. P \in R /\ \A y \in R : P >= y
    BY <1>3 DEF Max
  <1>5. QED
    BY <1>4

(* The seen hits are numbered within their lives, so there are at most as  *)
(* many of them as lives times the highest rate; the others have places    *)
(* among the unseen.                                                       *)
LEMMA GoodBurst ==
  ASSUME NEW W, NEW k, NEW o, NEW h, NEW u, NEW p, NEW e, Good(W, k, o, h, u, p, e),
         NEW P, P = Max({p[a] : a \in 0 .. W - 1})
  PROVE  Cardinality(Cells(h, W)) <=
           (2 + Cardinality(Cells(e, W))) * P + Cardinality(Cells(u, W))
  <1> DEFINE H == Cells(h, W)
             E == Cells(e, W)
             U == Cells(u, W)
             V == {Cur, Exp} \cup E
             N == 1 .. P
  <1>1. PICK life, num, S, us, jw : Explained(W, k, o, H, u, p, E, life, num, S, us, jw)
    BY DEF Good
  <1>2. IsFiniteSet(H) /\ IsFiniteSet(E) /\ IsFiniteSet(U)
    BY DEF Good
  <1>3. /\ W \in Nat \ {0} /\ Cur \notin E /\ Exp \notin E /\ Cur # Exp
        /\ \A c \in H : c = <<c[1], c[2]>> /\ c[1] \in 0 .. W - 1
    BY GoodIs
  <1>4. P \in Nat /\ \A a \in 0 .. W - 1 : p[a] <= P /\ p[a] \in Nat
    <2>1. p \in [0 .. W - 1 -> Nat] /\ PeaksHaveMax(p, W)
      BY DEF Good, WindowTypes
    <2>2. P \in Nat /\ \A a \in 0 .. W - 1 : p[a] <= P
      BY <1>3, <2>1, PeakIs
    <2>3. QED
      BY <2>1, <2>2
  <1>5. u \in [0 .. W - 1 -> Nat]
    BY DEF Good, WindowTypes
  <1>6. \A a \in 0 .. W - 1 : \A m \in 1 .. u[a] : <<a, m>> \in U
    <2>1. \A c : c \in U <=> \E a \in 0 .. W - 1 : \E m \in 1 .. u[a] : c = <<a, m>>
      BY <1>3, <1>5, CellsAre
    <2> HIDE DEF U
    <2>2. QED
      BY <2>1
  <1> HIDE DEF H, E, U, Cur, Exp
  <1>7. /\ life \in [H -> V] /\ num \in [H -> Nat \ {0}]
        /\ \A c, d \in H : life[c] = life[d] /\ num[c] = num[d] => c = d
        /\ S \subseteq H /\ \A c \in S : \E a \in 0 .. W - 1 : a <= c[1] /\ num[c] <= p[a]
        /\ \A c \in H \ S : us[c] \in Nat \ {0} /\ us[c] <= u[c[1]]
        /\ \A c, d \in H \ S : c[1] = d[1] /\ us[c] = us[d] => c = d
    BY <1>1 DEF Explained, Numbered, Seen, Placed
  <1>8. IsFiniteSet(S) /\ IsFiniteSet(H \ S)
    BY <1>2, <1>7, FS_Subset
  <1>9. Cardinality(V) = 2 + Cardinality(E) /\ IsFiniteSet(V)
    <2>1. IsFiniteSet(E \cup {Cur}) /\ Cardinality(E \cup {Cur}) = Cardinality(E) + 1
      BY <1>2, <1>3, FS_AddElement
    <2>2. Exp \notin E \cup {Cur}
      BY <1>3
    <2>3. /\ IsFiniteSet((E \cup {Cur}) \cup {Exp})
          /\ Cardinality((E \cup {Cur}) \cup {Exp}) = Cardinality(E \cup {Cur}) + 1
      BY <2>1, <2>2, FS_AddElement
    <2>4. (E \cup {Cur}) \cup {Exp} = V
      OBVIOUS
    <2>5. Cardinality(E) \in Nat
      BY <1>2, FS_CardinalityType
    <2> HIDE DEF V
    <2>6. IsFiniteSet(V) /\ Cardinality(V) = Cardinality(E \cup {Cur}) + 1
      BY <2>3, <2>4, Zenon
    <2>7. QED
      BY <2>1, <2>5, <2>6
  <1>10. IsFiniteSet(N) /\ Cardinality(N) = P
    BY <1>4, FS_Interval
  <1> HIDE DEF V
  <1>11. Cardinality(S) <= Cardinality(V) * Cardinality(N)
    <2> DEFINE f == [c \in S |-> <<life[c], num[c]>>]
    <2>1. ASSUME NEW c \in S PROVE num[c] \in N
      <3>1. num[c] \in Nat \ {0} /\ \E a \in 0 .. W - 1 : num[c] <= p[a]
        BY <1>7
      <3>2. QED
        BY <1>4, <3>1
    <2> HIDE DEF N
    <2>2. f \in [S -> V \X N]
      BY <1>7, <2>1
    <2>3. \A c, d \in S : f[c] = f[d] => c = d
      BY <1>7
    <2> HIDE DEF f
    <2>4. f \in Injection(S, V \X N)
      BY <2>2, <2>3 DEF Injection, IsInjective
    <2>5. IsFiniteSet(V \X N) /\ Cardinality(V \X N) = Cardinality(V) * Cardinality(N)
      BY <1>9, <1>10, FS_Product
    <2>6. Cardinality(S) <= Cardinality(V \X N)
      BY <2>4, <2>5, FS_Injection
    <2>7. QED
      BY <2>5, <2>6
  <1>12. Cardinality(H \ S) <= Cardinality(U)
    <2> DEFINE f == [c \in H \ S |-> <<c[1], us[c]>>]
    <2>1. ASSUME NEW c \in H \ S PROVE <<c[1], us[c]>> \in U
      <3>1. c[1] \in 0 .. W - 1 /\ us[c] \in Nat \ {0} /\ us[c] <= u[c[1]] /\ u[c[1]] \in Nat
        BY <1>3, <1>5, <1>7
      <3>2. us[c] \in 1 .. u[c[1]]
        BY <3>1
      <3>3. QED
        BY <1>6, <3>1, <3>2
    <2>2. f \in [H \ S -> U]
      BY <2>1
    <2>3. ASSUME NEW c \in H \ S, NEW d \in H \ S, f[c] = f[d] PROVE c = d
      <3>1. c[1] = d[1] /\ us[c] = us[d]
        BY <2>3
      <3>2. QED
        BY <1>7, <3>1
    <2> HIDE DEF f
    <2>4. f \in Injection(H \ S, U)
      BY <2>2, <2>3 DEF Injection, IsInjective
    <2>5. QED
      BY <1>2, <2>4, FS_Injection
  <1>13. Cardinality(H) = Cardinality(S) + Cardinality(H \ S)
    <2>1. S \cup (H \ S) = H /\ S \cap (H \ S) = {}
      BY <1>7
    <2>2. Cardinality(S \cup (H \ S)) =
            Cardinality(S) + Cardinality(H \ S) - Cardinality(S \cap (H \ S))
      BY <1>8, FS_Union
    <2>3. Cardinality(S \cup (H \ S)) = Cardinality(H)
      BY <2>1, Zenon
    <2>4. Cardinality(S \cap (H \ S)) = 0
      BY <2>1, FS_EmptySet, Zenon
    <2>5. Cardinality(S) \in Nat /\ Cardinality(H \ S) \in Nat
      BY <1>8, FS_CardinalityType
    <2>6. QED
      BY <2>2, <2>3, <2>4, <2>5
  <1>14. /\ Cardinality(S) \in Nat /\ Cardinality(H \ S) \in Nat /\ Cardinality(U) \in Nat
         /\ Cardinality(V) \in Nat
    BY <1>2, <1>8, <1>9, FS_CardinalityType
  <1>15. Cardinality(V) * Cardinality(N) = (2 + Cardinality(E)) * P
    BY <1>9, <1>10, Zenon
  <1>16. (2 + Cardinality(E)) * P \in Nat
    BY <1>4, <1>9, <1>14
  <1> DEFINE B == (2 + Cardinality(E)) * P
  <1>17. Cardinality(S) <= B /\ B \in Nat
    BY <1>11, <1>15, <1>16
  <1> HIDE DEF B
  <1>18. Cardinality(H) <= B + Cardinality(U)
    BY <1>12, <1>13, <1>14, <1>17
  <1>19. QED
    BY <1>18 DEF B, H, E, U

-----------------------------------------------------------------------------
(* All windows                                                             *)

(* What incr returned to the workers for window i.                         *)
OwnOf(i) == [w \in Workers |-> own[w][i]]

WindowGood(i) == Good(Windows[i], key[i], OwnOf(i), hits[i], unseen[i], peak[i], evicted[i])

(* What is kept per window is a function on the windows.                   *)
PerWindow(f) == f = [i \in I |-> f[i]]

Shapes == /\ calls \in [Workers -> 0 .. 2 * L - 1]
          /\ PerWindow(key) /\ PerWindow(hits) /\ PerWindow(unseen)
          /\ PerWindow(peak) /\ PerWindow(evicted)
          /\ own = [w \in Workers |-> [i \in I |-> own[w][i]]]

(* The inductive invariant.                                                *)
Inv == Shapes /\ \A i \in I : WindowGood(i)

(* The windows are positive numbers of seconds.                            *)
LEMMA WindowsAre == L \in Nat \ {0} /\ \A i \in I : Windows[i] \in Nat \ {0} /\ i \in Nat /\ i <= L
  BY CounterAssumption DEF L, I

(* Remainders.                                                             *)
LEMMA ModIs == ASSUME NEW m \in Nat, NEW n \in Nat \ {0} PROVE m % n \in 0 .. n - 1
  OBVIOUS

(* A window that a step leaves alone.                                      *)
LEMMA WindowKept ==
  ASSUME NEW i \in I, WindowGood(i), key'[i] = key[i], \A w \in Workers : own'[w][i] = own[w][i],
         hits'[i] = hits[i], unseen'[i] = unseen[i], peak'[i] = peak[i], evicted'[i] = evicted[i]
  PROVE  WindowGood(i)'
  <1>1. OwnOf(i)' = OwnOf(i)
    BY DEF OwnOf
  <1>2. QED
    BY <1>1 DEF WindowGood

(* The initial states satisfy the invariant.                               *)
LEMMA InitInv == Init => Inv
  <1> SUFFICES ASSUME Init PROVE Inv
    OBVIOUS
  <1>1. Shapes
    BY WindowsAre DEF Init, Shapes, PerWindow
  <1>2. ASSUME NEW i \in I PROVE WindowGood(i)
    <2> DEFINE z == [a \in 0 .. Windows[i] - 1 |-> 0]
    <2>1. key[i] = NoKey /\ OwnOf(i) = [w \in Workers |-> None]
      BY DEF Init, OwnOf
    <2>2. hits[i] = z /\ unseen[i] = z /\ peak[i] = z /\ evicted[i] = z
      BY DEF Init, Ages
    <2>3. Windows[i] \in Nat \ {0}
      BY WindowsAre
    <2> HIDE DEF z
    <2>4. Good(Windows[i], NoKey, OwnOf(i), z, z, z, z)
      BY <2>1, <2>3, InitGood DEF z
    <2>5. QED
      BY <2>1, <2>2, <2>4 DEF WindowGood
  <1>3. QED
    BY <1>1, <1>2 DEF Inv

(* A worker comes to a window of its loop.                                 *)
LEMMA ComesShape ==
  ASSUME NEW w \in Workers, NEW i \in I, calls \in [Workers -> 0 .. 2 * L - 1], Comes(w, i)
  PROVE  calls' \in [Workers -> 0 .. 2 * L - 1]
  <1>1. i \in 0 .. 2 * L - 1
    BY WindowsAre
  <1>2. QED
    BY <1>1 DEF Comes

(* A request is counted in window i.                                       *)
LEMMA IncrementInv ==
  ASSUME Inv, NEW w \in Workers, NEW i \in I, Increment(w, i)
  PROVE  Inv'
  <1>1. Shapes /\ WindowGood(i)
    BY DEF Inv
  <1>2. /\ key' = [key EXCEPT ![i] = Incr(@, Windows[i])]
        /\ own' = [own EXCEPT ![w][i] = [n |-> key'[i].n, age |-> 0]]
        /\ hits' = [hits EXCEPT ![i][0] = @ + 1] /\ unseen' = [unseen EXCEPT ![i][0] = @ + 1]
        /\ peak' = peak /\ evicted' = evicted
    BY DEF Increment
  <1>3. /\ key'[i] = Incr(key[i], Windows[i]) /\ \A j \in I : j # i => key'[j] = key[j]
        /\ PerWindow(key)'
    BY <1>1, <1>2 DEF Shapes, PerWindow
  <1>4. /\ hits'[i] = [hits[i] EXCEPT ![0] = @ + 1] /\ \A j \in I : j # i => hits'[j] = hits[j]
        /\ PerWindow(hits)'
    BY <1>1, <1>2 DEF Shapes, PerWindow
  <1>5. /\ unseen'[i] = [unseen[i] EXCEPT ![0] = @ + 1]
        /\ \A j \in I : j # i => unseen'[j] = unseen[j]
        /\ PerWindow(unseen)'
    BY <1>1, <1>2 DEF Shapes, PerWindow
  <1>6. /\ own'[w][i] = [n |-> key'[i].n, age |-> 0]
        /\ \A v \in Workers, j \in I : ~(v = w /\ j = i) => own'[v][j] = own[v][j]
        /\ (own = [v \in Workers |-> [j \in I |-> own[v][j]]])'
    BY <1>1, <1>2 DEF Shapes
  <1>7. calls' \in [Workers -> 0 .. 2 * L - 1]
    BY <1>1, ComesShape DEF Shapes, Increment
  <1>8. Shapes'
    BY <1>1, <1>2, <1>3, <1>4, <1>5, <1>6, <1>7 DEF Shapes, PerWindow
  <1>9. WindowGood(i)'
    <2>1. OwnOf(i)' = [OwnOf(i) EXCEPT ![w] = [n |-> key'[i].n, age |-> 0]]
      BY <1>6 DEF OwnOf
    <2>2. Good(Windows[i], key[i], OwnOf(i), hits[i], unseen[i], peak[i], evicted[i])
      BY <1>1 DEF WindowGood
    <2> DEFINE k2 == key'[i]
               o2 == OwnOf(i)'
               h2 == hits'[i]
               u2 == unseen'[i]
    <2>3. /\ k2 = Incr(key[i], Windows[i])
          /\ o2 = [OwnOf(i) EXCEPT ![w] = [n |-> k2.n, age |-> 0]]
          /\ h2 = [hits[i] EXCEPT ![0] = @ + 1] /\ u2 = [unseen[i] EXCEPT ![0] = @ + 1]
      BY <1>3, <1>4, <1>5, <2>1
    <2> HIDE DEF k2, o2, h2, u2
    <2>4. Good(Windows[i], k2, o2, h2, u2, peak[i], evicted[i])
      BY <2>2, <2>3, IncrGood
    <2>5. QED
      BY <1>2, <2>4 DEF WindowGood, k2, o2, h2, u2
  <1>10. ASSUME NEW j \in I, j # i PROVE WindowGood(j)'
    <2>1. WindowGood(j)
      BY DEF Inv
    <2>2. QED
      BY <1>2, <1>3, <1>4, <1>5, <1>6, <1>10, <2>1, WindowKept
  <1>11. QED
    BY <1>8, <1>9, <1>10 DEF Inv

(* The rate of window i is read.                                           *)
LEMMA GetRateInv ==
  ASSUME Inv, NEW w \in Workers, NEW i \in I, GetRate(w, i)
  PROVE  Inv'
  <1>1. Shapes /\ WindowGood(i)
    BY DEF Inv
  <1>2. /\ peak' = [peak EXCEPT ![i][0] = Max({key[i].n, @})]
        /\ unseen' = IF own[w][i].n > 0 /\ key[i].n >= own[w][i].n
                     THEN [unseen EXCEPT ![i][own[w][i].age] = @ - 1] ELSE unseen
        /\ own' = [own EXCEPT ![w][i] = None]
        /\ key' = key /\ hits' = hits /\ evicted' = evicted
    BY DEF GetRate, Rate
  <1>3. /\ peak'[i] = [peak[i] EXCEPT ![0] = Max({key[i].n, @})]
        /\ \A j \in I : j # i => peak'[j] = peak[j]
        /\ PerWindow(peak)'
    BY <1>1, <1>2 DEF Shapes, PerWindow
  <1>4. /\ unseen'[i] = IF own[w][i].n > 0 /\ key[i].n >= own[w][i].n
                        THEN [unseen[i] EXCEPT ![own[w][i].age] = @ - 1] ELSE unseen[i]
        /\ \A j \in I : j # i => unseen'[j] = unseen[j]
        /\ PerWindow(unseen)'
    <2>1. CASE own[w][i].n > 0 /\ key[i].n >= own[w][i].n
      BY <1>1, <1>2, <2>1 DEF Shapes, PerWindow
    <2>2. CASE ~(own[w][i].n > 0 /\ key[i].n >= own[w][i].n)
      BY <1>1, <1>2, <2>2 DEF Shapes, PerWindow
    <2>3. QED
      BY <2>1, <2>2
  <1>5. /\ own'[w][i] = None
        /\ \A v \in Workers, j \in I : ~(v = w /\ j = i) => own'[v][j] = own[v][j]
        /\ (own = [v \in Workers |-> [j \in I |-> own[v][j]]])'
    BY <1>1, <1>2 DEF Shapes
  <1>6. calls' \in [Workers -> 0 .. 2 * L - 1]
    <2>1. calls' = [calls EXCEPT ![w] = (@ + 1) % (2 * L)] /\ calls \in [Workers -> 0 .. 2 * L - 1]
      BY <1>1 DEF GetRate, Shapes
    <2>2. calls[w] + 1 \in Nat /\ 2 * L \in Nat \ {0}
      BY <2>1, WindowsAre
    <2>3. (calls[w] + 1) % (2 * L) \in 0 .. 2 * L - 1
      BY <2>2, ModIs
    <2>4. QED
      BY <2>1, <2>3
  <1>7. Shapes'
    BY <1>1, <1>2, <1>3, <1>4, <1>5, <1>6 DEF Shapes, PerWindow
  <1>8. WindowGood(i)'
    <2>1. OwnOf(i)' = [OwnOf(i) EXCEPT ![w] = None] /\ OwnOf(i)[w] = own[w][i]
      BY <1>5 DEF OwnOf
    <2>2. Good(Windows[i], key[i], OwnOf(i), hits[i], unseen[i], peak[i], evicted[i])
      BY <1>1 DEF WindowGood
    <2> DEFINE o1 == OwnOf(i)
               o2 == OwnOf(i)'
               u2 == unseen'[i]
               p2 == peak'[i]
    <2>3. /\ o2 = [o1 EXCEPT ![w] = None] /\ p2 = [peak[i] EXCEPT ![0] = Max({key[i].n, @})]
          /\ u2 = IF o1[w].n > 0 /\ key[i].n >= o1[w].n
                  THEN [unseen[i] EXCEPT ![o1[w].age] = @ - 1] ELSE unseen[i]
      BY <1>3, <1>4, <2>1
    <2>4. Good(Windows[i], key[i], o1, hits[i], unseen[i], peak[i], evicted[i])
      BY <2>2
    <2> HIDE DEF o1, o2, u2, p2
    <2>5. Good(Windows[i], key[i], o2, hits[i], u2, p2, evicted[i])
      BY <2>3, <2>4, GetGood
    <2>6. QED
      BY <1>2, <2>5 DEF WindowGood, o2, u2, p2
  <1>9. ASSUME NEW j \in I, j # i PROVE WindowGood(j)'
    <2>1. WindowGood(j)
      BY DEF Inv
    <2>2. QED
      BY <1>2, <1>3, <1>4, <1>5, <1>9, <2>1, WindowKept
  <1>10. QED
    BY <1>7, <1>8, <1>9 DEF Inv

(* The key of window i is evicted.                                         *)
LEMMA EvictInv ==
  ASSUME Inv, NEW i \in I, Evict(i)
  PROVE  Inv'
  <1>1. Shapes /\ WindowGood(i)
    BY DEF Inv
  <1>2. /\ key' = [key EXCEPT ![i] = NoKey] /\ evicted' = [evicted EXCEPT ![i][0] = @ + 1]
        /\ calls' = calls /\ own' = own /\ hits' = hits /\ unseen' = unseen /\ peak' = peak
    BY DEF Evict
  <1>3. /\ key'[i] = NoKey /\ \A j \in I : j # i => key'[j] = key[j]
        /\ PerWindow(key)'
    BY <1>1, <1>2 DEF Shapes, PerWindow
  <1>4. /\ evicted'[i] = [evicted[i] EXCEPT ![0] = @ + 1]
        /\ \A j \in I : j # i => evicted'[j] = evicted[j]
        /\ PerWindow(evicted)'
    BY <1>1, <1>2 DEF Shapes, PerWindow
  <1>5. Shapes'
    BY <1>1, <1>2, <1>3, <1>4 DEF Shapes, PerWindow
  <1>6. WindowGood(i)'
    <2>1. OwnOf(i)' = OwnOf(i)
      BY <1>2 DEF OwnOf
    <2>2. Good(Windows[i], key'[i], OwnOf(i), hits[i], unseen[i], peak[i], evicted'[i])
      BY <1>1, <1>3, <1>4, EvictGood DEF WindowGood
    <2>3. QED
      BY <1>2, <2>1, <2>2 DEF WindowGood
  <1>7. ASSUME NEW j \in I, j # i PROVE WindowGood(j)'
    <2>1. WindowGood(j)
      BY DEF Inv
    <2>2. QED
      BY <1>2, <1>3, <1>4, <1>7, <2>1, WindowKept
  <1>8. QED
    BY <1>5, <1>6, <1>7 DEF Inv

(* A second passes in every window.                                        *)
LEMMA TickInv ==
  ASSUME Inv, Tick
  PROVE  Inv'
  <1>1. Shapes
    BY DEF Inv
  <1>2. ASSUME NEW i \in I
        PROVE  /\ key'[i] = IF key[i].ttl <= 1 THEN NoKey ELSE [key[i] EXCEPT !.ttl = @ - 1]
               /\ hits'[i] = Aged(hits[i], Windows[i]) /\ unseen'[i] = Aged(unseen[i], Windows[i])
               /\ peak'[i] = Aged(peak[i], Windows[i])
               /\ evicted'[i] = Aged(evicted[i], Windows[i])
               /\ \A w \in Workers : own'[w][i] =
                    IF own[w][i].n = 0 \/ own[w][i].age + 1 = Windows[i] THEN None
                    ELSE [own[w][i] EXCEPT !.age = @ + 1]
    BY DEF Tick, Older, Ages, Aged
  <1>3. PerWindow(key)' /\ PerWindow(hits)' /\ PerWindow(unseen)' /\ PerWindow(peak)'
        /\ PerWindow(evicted)'
    BY DEF Tick, Older, PerWindow
  <1>4. (own = [w \in Workers |-> [i \in I |-> own[w][i]]])' /\ calls' = calls
    BY DEF Tick
  <1>5. Shapes'
    BY <1>1, <1>3, <1>4 DEF Shapes
  <1>6. ASSUME NEW i \in I PROVE WindowGood(i)'
    <2>1. OwnOf(i)' = [w \in Workers |->
                         IF OwnOf(i)[w].n = 0 \/ OwnOf(i)[w].age + 1 = Windows[i] THEN None
                         ELSE [OwnOf(i)[w] EXCEPT !.age = @ + 1]]
      BY <1>2 DEF OwnOf
    <2>2. Good(Windows[i], key[i], OwnOf(i), hits[i], unseen[i], peak[i], evicted[i])
      BY DEF Inv, WindowGood
    <2> DEFINE W == Windows[i]
               o1 == OwnOf(i)
               k2 == key'[i]
               o2 == OwnOf(i)'
               h2 == hits'[i]
               u2 == unseen'[i]
               p2 == peak'[i]
               e2 == evicted'[i]
    <2>3. /\ k2 = IF key[i].ttl <= 1 THEN NoKey ELSE [key[i] EXCEPT !.ttl = @ - 1]
          /\ o2 = [w \in Workers |-> IF o1[w].n = 0 \/ o1[w].age + 1 = W THEN None
                                     ELSE [o1[w] EXCEPT !.age = @ + 1]]
          /\ h2 = Aged(hits[i], W) /\ u2 = Aged(unseen[i], W)
          /\ p2 = Aged(peak[i], W) /\ e2 = Aged(evicted[i], W)
      BY <1>2, <2>1
    <2>4. Good(W, key[i], o1, hits[i], unseen[i], peak[i], evicted[i])
      BY <2>2
    <2> HIDE DEF W, o1, k2, o2, h2, u2, p2, e2
    <2>5. Good(W, k2, o2, h2, u2, p2, e2)
      BY <2>3, <2>4, TickGood
    <2>6. QED
      BY <2>5 DEF WindowGood, W, k2, o2, h2, u2, p2, e2
  <1>7. QED
    BY <1>5, <1>6 DEF Inv

(* Every step keeps the invariant.                                         *)
LEMMA NextInv == Inv /\ [Next]_vars => Inv'
  <1> SUFFICES ASSUME Inv, [Next]_vars PROVE Inv'
    OBVIOUS
  <1>1. ASSUME UNCHANGED <<key, own, history>>, calls' \in [Workers -> 0 .. 2 * L - 1] PROVE Inv'
    <2>1. key' = key /\ own' = own /\ hits' = hits /\ unseen' = unseen /\ peak' = peak
          /\ evicted' = evicted
      BY <1>1 DEF history
    <2>2. Shapes'
      BY <1>1, <2>1 DEF Inv, Shapes, PerWindow
    <2>3. ASSUME NEW i \in I PROVE WindowGood(i)'
      BY <2>1, WindowKept DEF Inv
    <2>4. QED
      BY <2>2, <2>3 DEF Inv
  <1>2. ASSUME NEW w \in Workers, NEW i \in I, Increment(w, i) PROVE Inv'
    BY <1>2, IncrementInv
  <1>3. ASSUME NEW w \in Workers, NEW i \in I, IncrementFails(w, i) PROVE Inv'
    BY <1>1, <1>3, ComesShape DEF IncrementFails, Inv, Shapes
  <1>4. ASSUME NEW w \in Workers, NEW i \in I, GetRate(w, i) PROVE Inv'
    BY <1>4, GetRateInv
  <1>5. ASSUME NEW i \in I, Evict(i) PROVE Inv'
    BY <1>5, EvictInv
  <1>6. CASE Tick
    BY <1>6, TickInv
  <1>7. CASE UNCHANGED vars
    BY <1>1, <1>7 DEF vars, Inv, Shapes
  <1>8. QED
    BY <1>2, <1>3, <1>4, <1>5, <1>6, <1>7 DEF Next

(* The invariant holds in every reachable state.                           *)
LEMMA Invariant == Spec => []Inv
  BY InitInv, NextInv, PTL DEF Spec

-----------------------------------------------------------------------------
(* The results                                                             *)

(* What Lately counts are the cells of a window.                           *)
LEMMA LatelyIs == ASSUME NEW f, NEW i \in I PROVE Lately(f, i) = Cardinality(Cells(f[i], Windows[i]))
  BY DEF Lately, Events, Cells, Ages

(* The counters, the workers and the histories keep their types: no place  *)
(* among the unseen is given back twice, and no counter outlives its TTL.  *)
THEOREM TypeCorrect == Spec => []TypeOK
  <1>1. Inv => TypeOK
    <2> SUFFICES ASSUME Inv PROVE TypeOK
      OBVIOUS
    <2>1. ASSUME NEW i \in I
          PROVE  /\ key[i] = NoKey \/ (key[i].n > 0 /\ key[i].ttl \in 1 .. Windows[i])
                 /\ \A w \in Workers : own[w][i] \in [n : Nat, age : Ages(i)]
                 /\ \A f \in {hits, unseen, peak, evicted} : f[i] \in [Ages(i) -> Nat]
      <3>1. WindowTypes(Windows[i], key[i], OwnOf(i), hits[i], unseen[i], peak[i], evicted[i])
        BY DEF Inv, WindowGood, Good
      <3>2. key[i] = NoKey \/ (key[i].n > 0 /\ key[i].ttl \in 1 .. Windows[i])
        BY <3>1 DEF WindowTypes
      <3>3. /\ hits[i] \in [Ages(i) -> Nat] /\ unseen[i] \in [Ages(i) -> Nat]
            /\ peak[i] \in [Ages(i) -> Nat] /\ evicted[i] \in [Ages(i) -> Nat]
        BY <3>1 DEF WindowTypes, Ages
      <3>4. \A w \in Workers : own[w][i] \in [n : Nat, age : Ages(i)]
        BY <3>1 DEF WindowTypes, Ages, OwnOf
      <3>5. QED
        BY <3>2, <3>3, <3>4
    <2>2. QED
      BY <2>1 DEF TypeOK, Inv, Shapes
  <1>2. QED
    BY <1>1, Invariant, PTL

(* A rate that nginx reports is never too high: every request the counter  *)
(* of a window holds came within the window, whatever order the workers    *)
(* call incr and get in and whenever the key expires or is evicted.        *)
THEOREM RatesNeverTooHigh == Spec => []NeverOvercounts
  <1>1. Inv => NeverOvercounts
    BY GoodCount, LatelyIs DEF Inv, WindowGood, NeverOvercounts, Rate
  <1>2. QED
    BY <1>1, Invariant, PTL

(* A burst of counted requests is seen at half its size or more, but for   *)
(* evictions and for the requests whose own rate was not read in time.     *)
THEOREM BurstsAreSeen == Spec => []BurstIsSeen
  <1>1. Inv => BurstIsSeen
    <2> SUFFICES ASSUME Inv, NEW i \in I
                 PROVE  Lately(hits, i) <=
                          (2 + Lately(evicted, i)) * Max({peak[i][a] : a \in Ages(i)})
                          + Lately(unseen, i)
      BY DEF BurstIsSeen
    <2>1. Good(Windows[i], key[i], OwnOf(i), hits[i], unseen[i], peak[i], evicted[i])
      BY DEF Inv, WindowGood
    <2> DEFINE P == Max({peak[i][a] : a \in Ages(i)})
    <2>2. P = Max({peak[i][a] : a \in 0 .. Windows[i] - 1})
      BY DEF Ages
    <2> HIDE DEF P
    <2>3. Cardinality(Cells(hits[i], Windows[i])) <=
            (2 + Cardinality(Cells(evicted[i], Windows[i]))) * P
            + Cardinality(Cells(unseen[i], Windows[i]))
      BY <2>1, <2>2, GoodBurst
    <2>4. QED
      BY <2>3, LatelyIs DEF P
  <1>2. QED
    BY <1>1, Invariant, PTL

============================================================================
