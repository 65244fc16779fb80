--------------------------- MODULE BlockMapProofs ---------------------------
(***************************************************************************)
(* Proofs about BlockMap, for every set of IPv4 addresses that is closed   *)
(* under reversal, both byte orders, every width of the integers, every    *)
(* ttl_seconds of that width and every size of the LRU map.                *)
(***************************************************************************)
EXTENDS BlockMap, SequenceTheorems, TLAPS

(* Half of the unsigned range: the first number int64 cannot hold.         *)
H == 2 ^ (Width - 1)

(* No request reaches further ahead of the clock than ttl_seconds can say. *)
RequestsFit == \A a \in Addrs : requested[a] <= wall + H - 1

(* The pinned map holds, under the loader's key of an address, the expiry  *)
(* last asked for, and nothing for an address that was not asked for, was  *)
(* removed or was evicted.                                                 *)
MapHoldsRequests ==
  \A a \in Addrs : pinned[NativeBytes(a)] = IF a \in evicted THEN Absent ELSE requested[a]

(* Only addresses that were asked for can have been evicted.               *)
EvictedWereAsked == \A a \in evicted : requested[a] # Absent

(* The inductive invariant.                                                *)
Inv == TypeOK /\ RequestsFit /\ MapHoldsRequests /\ EvictedWereAsked

-----------------------------------------------------------------------------
(* Conversions                                                             *)

(* What the conversions need to know of the integers' width and the clock. *)
LEMMA Ranges ==
  ASSUME TypeOK
  PROVE  /\ H \in Nat \ {0} /\ 2 ^ Width = 2 * H /\ 2 ^ (Width - 1) = H
         /\ wall \in 0 .. H - 1 /\ mono \in Nat /\ mono <= wall
         /\ \A ttl \in TTLs : ttl \in -H .. H - 1
  <1>1. H \in Nat \ {0} /\ 2 ^ Width = 2 * H /\ 2 ^ (Width - 1) = H
    BY PowersOfTwo, Zenon DEF H
  <1>2. /\ BootEpoch \in Nat /\ MaxTime \in Nat /\ BootEpoch + MaxTime < H
        /\ TTLs \subseteq -H .. H - 1
    BY BlockMapAssumption, Zenon DEF H
  <1>3. mono \in 0 .. MaxTime
    BY DEF TypeOK
  <1>4. QED
    BY <1>1, <1>2, <1>3 DEF wall

(* A number in memory is itself again after two conversions, and the bytes *)
(* of an address are those of an address.                                  *)
LEMMA NativeBytesInverse ==
  ASSUME NEW a \in Addrs
  PROVE  NativeBytes(a) \in Addrs /\ NativeBytes(NativeBytes(a)) = a
  <1>1. Reverse(a) \in Addrs /\ a \in [1 .. 4 -> 0 .. 255]
    BY BlockMapAssumption
  <1>2. ASSUME NEW b \in [1 .. 4 -> 0 .. 255]
        PROVE  Reverse(b) = [i \in 1 .. 4 |-> b[5 - i]]
    <2>1. b \in Seq(0 .. 255) /\ Len(b) = 4
      <3>1. b \in Seq(0 .. 255)
        <4>1. \E n \in Nat : b \in [1 .. n -> 0 .. 255]
          BY <1>2
        <4> DEFINE B == 0 .. 255
        <4>2. \E n \in Nat : b \in [1 .. n -> B]
          BY <4>1
        <4> HIDE DEF B
        <4>3. Seq(B) = UNION {[1 .. n -> B] : n \in Nat}
          BY SeqDef, Zenon
        <4>4. b \in UNION {[1 .. n -> B] : n \in Nat}
          BY <4>2
        <4>5. QED
          BY <4>3, <4>4 DEF B
      <3>2. Len(b) \in Nat /\ 1 .. 4 = 1 .. Len(b)
        BY <1>2, <3>1, LenProperties
      <3>3. QED
        BY <3>1, <3>2
    <2>2. \A i \in 1 .. 4 : Len(b) - i + 1 = 5 - i
      BY <2>1
    <2>3. QED
      BY <2>1, <2>2 DEF Reverse
  <1>3. Reverse(Reverse(a)) = a
    <2>1. Reverse(a) \in [1 .. 4 -> 0 .. 255]
      BY <1>1, <1>2
    <2>2. Reverse(Reverse(a)) = [i \in 1 .. 4 |-> Reverse(a)[5 - i]]
      BY <1>2, <2>1
    <2>3. \A i \in 1 .. 4 : 5 - i \in 1 .. 4 /\ 5 - (5 - i) = i
      OBVIOUS
    <2>4. QED
      BY <1>1, <1>2, <2>2, <2>3
  <1>4. QED
    BY <1>1, <1>3 DEF NativeBytes

(* One modulus more or less does not change a remainder.                   *)
LEMMA ModShift ==
  ASSUME NEW m \in Nat \ {0}, NEW x \in 0 .. m - 1
  PROVE  x % m = x /\ (x - m) % m = x /\ (x + m) % m = x /\ (x - 2 * m) % m = x
  OBVIOUS

(* The conversion to int64 takes one modulus off, or nothing.              *)
LEMMA SignedCases ==
  ASSUME TypeOK, NEW x \in 0 .. 2 * H - 1
  PROVE  Signed(x) = IF x < H THEN x ELSE x - 2 * H
  <1>1. H \in Nat \ {0} /\ 2 ^ Width = 2 * H /\ 2 ^ (Width - 1) = H
    BY Ranges
  <1>2. Unsigned(x) = x
    <2>1. 2 * H \in Nat \ {0}
      BY <1>1
    <2>2. x % (2 * H) = x
      BY <2>1, ModShift
    <2>3. QED
      BY <1>1, <2>2, Zenon DEF Unsigned
  <1>3. Signed(x) = IF Unsigned(x) < 2 ^ (Width - 1) THEN Unsigned(x)
                    ELSE Unsigned(x) - 2 ^ Width
    BY Zenon DEF Signed
  <1>4. QED
    BY <1>1, <1>2, <1>3, Zenon

(* Both conversions: the number stored for a ttl_seconds is the expiry the *)
(* operator meant, whether or not the int64 sum wraps.                     *)
LEMMA ExpiryIsAskedUntil ==
  ASSUME TypeOK, NEW ttl \in TTLs
  PROVE  /\ Expiry(ttl) = AskedUntil(ttl)
         /\ AskedUntil(ttl) \in 0 .. 2 * H - 1
         /\ AskedUntil(ttl) <= wall + H - 1
  <1>1. /\ H \in Nat \ {0} /\ 2 ^ Width = 2 * H /\ 2 * H \in Nat \ {0}
        /\ wall \in 0 .. H - 1 /\ ttl \in -H .. H - 1
    BY Ranges
  <1>2. CASE ttl > 0
    <2> DEFINE x == wall + ttl
    <2>1. x \in 0 .. 2 * H - 1 /\ x <= wall + H - 1
      BY <1>1, <1>2
    <2> HIDE DEF x
    <2>2. Signed(x) = IF x < H THEN x ELSE x - 2 * H
      BY <2>1, SignedCases
    <2>3. x % (2 * H) = x /\ (x - 2 * H) % (2 * H) = x
      BY <1>1, <2>1, ModShift
    <2>4. Signed(x) % (2 * H) = x
      BY <2>2, <2>3
    <2>5. Unsigned(Signed(x)) = x
      BY <1>1, <2>4, Zenon DEF Unsigned
    <2>6. Expiry(ttl) = Unsigned(Signed(x)) /\ AskedUntil(ttl) = x
      BY <1>2 DEF Expiry, AskedUntil, x
    <2>7. QED
      BY <2>1, <2>5, <2>6
  <1>3. CASE ~(ttl > 0)
    BY <1>1, <1>3 DEF Expiry, AskedUntil, Forever
  <1>4. QED
    BY <1>2, <1>3

(* The difference wraps back: GET /block shows the seconds that are left   *)
(* of an expiry no further ahead than ttl_seconds can say.                 *)
LEMMA RemainingIsSecondsLeft ==
  ASSUME TypeOK, NEW e \in 0 .. 2 * H - 1, e <= wall + H - 1
  PROVE  Remaining(e) = SecondsLeft(e)
  <1>1. /\ H \in Nat \ {0} /\ 2 ^ Width = 2 * H /\ 2 * H \in Nat \ {0}
        /\ 2 ^ (Width - 1) = H /\ wall \in 0 .. H - 1
    BY Ranges
  <1> DEFINE d == e - wall
             x == Signed(e) - wall
  <1>2. d \in -H .. H - 1
    BY <1>1
  <1>3. Signed(e) = IF e < H THEN e ELSE e - 2 * H
    BY SignedCases
  <1>4. x = d \/ x = d - 2 * H
    BY <1>1, <1>3
  <1>5. Unsigned(x) = IF d >= 0 THEN d ELSE d + 2 * H
    <2>1. CASE d >= 0
      <3>1. d \in 0 .. 2 * H - 1
        BY <1>1, <1>2, <2>1
      <3> HIDE DEF d, x
      <3>2. d % (2 * H) = d /\ (d - 2 * H) % (2 * H) = d
        BY <1>1, <3>1, ModShift
      <3>3. x % (2 * H) = d
        BY <1>4, <3>2
      <3>4. QED
        BY <1>1, <2>1, <3>3, Zenon DEF Unsigned
    <2>2. CASE ~(d >= 0)
      <3> DEFINE y == d + 2 * H
      <3>1. y \in 0 .. 2 * H - 1 /\ y - 2 * H = d /\ y - 2 * (2 * H) = d - 2 * H
        BY <1>1, <1>2, <2>2
      <3> HIDE DEF d, x, y
      <3>2. (y - 2 * H) % (2 * H) = y /\ (y - 2 * (2 * H)) % (2 * H) = y
        BY <1>1, <3>1, ModShift
      <3>3. x % (2 * H) = y
        BY <1>4, <3>1, <3>2, Zenon
      <3>4. QED
        BY <1>1, <2>2, <3>3, Zenon DEF Unsigned, y
    <2>3. QED
      BY <2>1, <2>2
  <1>6. Signed(x) = d
    <2>1. Signed(x) = IF Unsigned(x) < H THEN Unsigned(x) ELSE Unsigned(x) - 2 * H
      BY <1>1, Zenon DEF Signed
    <2> HIDE DEF d, x
    <2>2. QED
      BY <1>1, <1>2, <1>5, <2>1
  <1>7. QED
    BY <1>1, <1>6 DEF Remaining, SecondsLeft, Forever

-----------------------------------------------------------------------------
(* The invariant                                                           *)

(* The initial states satisfy the invariant.                               *)
LEMMA InitInv == Init => Inv
  <1> SUFFICES ASSUME Init PROVE Inv
    OBVIOUS
  <1>1. TypeOK
    <2>1. MaxStarts \in Nat /\ MaxTime \in Nat
      BY BlockMapAssumption
    <2>2. \A S : [k \in Addrs |-> Absent] \in [Addrs -> {Absent} \cup S]
      OBVIOUS
    <2>3. pinned \in [Addrs -> {Absent} \cup 0 .. 2 ^ Width - 1]
      BY <2>2, Zenon DEF Init
    <2>4. requested \in [Addrs -> {Absent} \cup Nat]
      BY <2>2, Zenon DEF Init
    <2>5. 0 \in 0 .. MaxStarts /\ 0 \in 0 .. MaxTime
      BY <2>1
    <2>6. QED
      BY <2>3, <2>4, <2>5, Zenon DEF Init, TypeOK
  <1>2. RequestsFit
    BY <1>1, Ranges DEF Init, RequestsFit, Absent
  <1>3. MapHoldsRequests /\ EvictedWereAsked
    BY NativeBytesInverse DEF Init, MapHoldsRequests, EvictedWereAsked
  <1>4. QED
    BY <1>1, <1>2, <1>3 DEF Inv

(* Different addresses have different keys.                                *)
LEMMA KeysDiffer ==
  ASSUME NEW a \in Addrs, NEW b \in Addrs, NativeBytes(a) = NativeBytes(b)
  PROVE  a = b
  BY NativeBytesInverse

(* What the pinned map can hold.                                           *)
LEMMA ValuesTyped ==
  ASSUME TypeOK
  PROVE  /\ H \in Nat \ {0}
         /\ pinned \in [Addrs -> {Absent} \cup 0 .. 2 * H - 1]
         /\ requested \in [Addrs -> {Absent} \cup Nat] /\ evicted \subseteq Addrs
  <1>1. 2 ^ Width = 2 * H /\ H \in Nat \ {0}
    BY Ranges
  <1>2. QED
    BY <1>1, Zenon DEF TypeOK

(* POST /block, with room in the map or at the cost of another entry.      *)
LEMMA AddBlockInv ==
  ASSUME Inv, NEW a \in Addrs, NEW ttl \in TTLs, HandleAddBlock(a, ttl)
  PROVE  Inv'
  <1> DEFINE k == NativeBytes(a)
             e == Expiry(ttl)
  <1>t. TypeOK
    BY DEF Inv
  <1>h. /\ H \in Nat \ {0} /\ pinned \in [Addrs -> {Absent} \cup 0 .. 2 * H - 1]
        /\ requested \in [Addrs -> {Absent} \cup Nat] /\ evicted \subseteq Addrs
    BY <1>t, ValuesTyped
  <1>1. k \in Addrs
    BY NativeBytesInverse
  <1>2. e = AskedUntil(ttl) /\ e \in 0 .. 2 * H - 1 /\ e <= wall + H - 1
    BY <1>t, ExpiryIsAskedUntil
  <1>3. requested' = [requested EXCEPT ![a] = e] /\ UNCHANGED <<loader, mono>>
    BY <1>2 DEF HandleAddBlock
  <1>4. \/ pinned' = [pinned EXCEPT ![k] = e] /\ evicted' = evicted \ {a}
        \/ \E v \in Addrs : /\ v # k /\ pinned[v] # Absent
                            /\ pinned' = [pinned EXCEPT ![k] = e, ![v] = Absent]
                            /\ evicted' = (evicted \ {a}) \cup {NativeBytes(v)}
    BY DEF HandleAddBlock, LoaderKey, ListedIP, Present
  <1> HIDE DEF k, e
  <1>5. /\ pinned' \in [Addrs -> {Absent} \cup 0 .. 2 * H - 1] /\ evicted' \subseteq Addrs
        /\ requested' \in [Addrs -> {Absent} \cup Nat]
    <2>1. requested' \in [Addrs -> {Absent} \cup Nat]
      BY <1>h, <1>2, <1>3
    <2>2. pinned' \in [Addrs -> {Absent} \cup 0 .. 2 * H - 1] /\ evicted' \subseteq Addrs
      BY <1>h, <1>1, <1>2, <1>4, NativeBytesInverse
    <2>3. QED
      BY <2>1, <2>2
  <1>6. TypeOK'
    <2>1. 2 ^ Width = 2 * H
      BY <1>t, Ranges
    <2>2. pinned' \in [Addrs -> {Absent} \cup 0 .. 2 ^ Width - 1]
      BY <1>5, <2>1, Zenon
    <2>3. QED
      BY <1>t, <1>3, <1>5, <2>2 DEF TypeOK, loader
  <1>7. RequestsFit'
    <2>1. wall' = wall
      BY <1>3 DEF wall
    <2>2. \A b \in Addrs : requested'[b] <= wall + H - 1
      BY <1>h, <1>2, <1>3 DEF Inv, RequestsFit
    <2>3. QED
      BY <2>1, <2>2 DEF RequestsFit, H
  <1>8. MapHoldsRequests'
    <2> SUFFICES ASSUME NEW b \in Addrs
                 PROVE  pinned'[NativeBytes(b)] = IF b \in evicted' THEN Absent
                                                  ELSE requested'[b]
      BY DEF MapHoldsRequests, NativeBytes
    <2>1. NativeBytes(b) \in Addrs /\ NativeBytes(NativeBytes(b)) = b
          /\ pinned[NativeBytes(b)] = IF b \in evicted THEN Absent ELSE requested[b]
      BY NativeBytesInverse DEF Inv, MapHoldsRequests
    <2>2. b # a => NativeBytes(b) # k
      BY KeysDiffer DEF k
    <2>3. CASE pinned' = [pinned EXCEPT ![k] = e] /\ evicted' = evicted \ {a}
      <3>1. CASE b = a
        BY <1>h, <1>1, <1>3, <2>3, <3>1 DEF k
      <3>2. CASE b # a
        BY <1>h, <1>3, <2>1, <2>2, <2>3, <3>2
      <3>3. QED
        BY <3>1, <3>2
    <2>4. CASE \E v \in Addrs : /\ v # k /\ pinned[v] # Absent
                                /\ pinned' = [pinned EXCEPT ![k] = e, ![v] = Absent]
                                /\ evicted' = (evicted \ {a}) \cup {NativeBytes(v)}
      <3>1. PICK v \in Addrs : /\ v # k /\ pinned[v] # Absent
                               /\ pinned' = [pinned EXCEPT ![k] = e, ![v] = Absent]
                               /\ evicted' = (evicted \ {a}) \cup {NativeBytes(v)}
        BY <2>4
      <3>2. NativeBytes(v) \in Addrs /\ NativeBytes(NativeBytes(v)) = v
        BY NativeBytesInverse
      <3>3. NativeBytes(v) # a
        BY <3>1, <3>2 DEF k
      <3>4. CASE b = a
        BY <1>h, <1>1, <1>3, <3>1, <3>3, <3>4 DEF k
      <3>5. CASE b = NativeBytes(v)
        BY <1>h, <3>1, <3>2, <3>5
      <3>6. CASE b # a /\ b # NativeBytes(v)
        BY <1>h, <1>3, <2>1, <2>2, <3>1, <3>6
      <3>7. QED
        BY <3>4, <3>5, <3>6
    <2>5. QED
      BY <1>4, <2>3, <2>4
  <1>9. EvictedWereAsked'
    <2>1. \A v \in Addrs : pinned[v] # Absent => requested[NativeBytes(v)] # Absent
      BY NativeBytesInverse DEF Inv, MapHoldsRequests
    <2>2. e # Absent
      BY <1>h, <1>2 DEF Absent
    <2>3. \A b \in evicted' : b \in Addrs /\ (b = a \/ requested[b] # Absent)
      BY <1>4, <1>5, <2>1 DEF Inv, EvictedWereAsked
    <2>4. QED
      BY <1>h, <1>3, <2>2, <2>3 DEF EvictedWereAsked, Absent
  <1>10. QED
    BY <1>6, <1>7, <1>8, <1>9 DEF Inv

(* Every step keeps the invariant.                                         *)
LEMMA NextInv == Inv /\ [Next]_vars => Inv'
  <1> SUFFICES ASSUME Inv, [Next]_vars PROVE Inv'
    OBVIOUS
  <1>t. TypeOK
    BY DEF Inv
  <1>h. /\ H \in Nat \ {0} /\ pinned \in [Addrs -> {Absent} \cup 0 .. 2 * H - 1]
        /\ requested \in [Addrs -> {Absent} \cup Nat] /\ evicted \subseteq Addrs
    BY <1>t, ValuesTyped
  <1>1. ASSUME NEW a \in Addrs, NEW ttl \in TTLs, HandleAddBlock(a, ttl) PROVE Inv'
    BY <1>1, AddBlockInv
  <1>2. ASSUME NEW a \in Addrs, HandleRemoveBlock(a) PROVE Inv'
    <2> DEFINE k == NativeBytes(a)
    <2>1. /\ k \in Addrs /\ pinned[k] # Absent
          /\ pinned' = [pinned EXCEPT ![k] = Absent]
          /\ requested' = [requested EXCEPT ![a] = Absent]
          /\ UNCHANGED <<loader, mono, evicted>>
      BY <1>2, NativeBytesInverse DEF HandleRemoveBlock, LoaderKey, Present
    <2> HIDE DEF k
    <2>2. TypeOK'
      BY <1>t, <2>1 DEF TypeOK, loader
    <2>3. RequestsFit'
      <3>1. wall \in 0 .. H - 1 /\ wall' = wall
        BY <1>t, <2>1, Ranges DEF wall
      <3>2. \A b \in Addrs : requested'[b] <= wall + H - 1
        BY <1>h, <2>1, <3>1 DEF Inv, RequestsFit, Absent
      <3>3. QED
        BY <3>1, <3>2 DEF RequestsFit, H
    <2>4. a \notin evicted
      BY <2>1 DEF Inv, MapHoldsRequests, k
    <2>5. MapHoldsRequests'
      <3>1. \A b \in Addrs : NativeBytes(b) \in Addrs /\ (b # a => NativeBytes(b) # k)
        BY NativeBytesInverse, KeysDiffer DEF k
      <3>2. \A b \in Addrs : pinned'[NativeBytes(b)] = IF b \in evicted' THEN Absent
                                                       ELSE requested'[b]
        BY <1>h, <2>1, <2>4, <3>1 DEF Inv, MapHoldsRequests, k
      <3>3. QED
        BY <3>2 DEF MapHoldsRequests, NativeBytes
    <2>6. EvictedWereAsked'
      BY <1>h, <2>1, <2>4 DEF Inv, EvictedWereAsked
    <2>7. QED
      BY <2>2, <2>3, <2>5, <2>6 DEF Inv
  <1>3. CASE \/ LoadFails \/ Stop \/ UNCHANGED vars
             \/ \E serves \in BOOLEAN : LoadAndAttach(serves)
    <2>1. UNCHANGED <<pinned, mono, requested, evicted>>
      BY <1>3 DEF LoadFails, LoadAndAttach, Stop, vars, history
    <2>2. TypeOK'
      <3>1. MaxStarts \in Nat
        BY BlockMapAssumption
      <3>2. CASE LoadFails
        <4>1. starts' \in 0 .. MaxStarts
          BY <1>t, <3>1, <3>2 DEF LoadFails, Starting, TypeOK
        <4>2. /\ pin' \in BOOLEAN /\ api' \in BOOLEAN /\ attached' = attached
              /\ attached' # "none" => pin'
              /\ api' => attached' # "none"
          <5>1. (pin' = pin \/ pin' = TRUE) /\ attached' = attached /\ api' = api
            BY <3>2, Zenon DEF LoadFails
          <5>2. /\ pin \in BOOLEAN /\ api \in BOOLEAN
                /\ attached # "none" => pin
                /\ api => attached # "none"
            BY <1>t, Zenon DEF TypeOK
          <5>3. QED
            BY <5>1, <5>2, Zenon
        <4>3. QED
          BY <1>t, <2>1, <4>1, <4>2, Zenon DEF TypeOK
      <3>3. ASSUME NEW serves \in BOOLEAN, LoadAndAttach(serves) PROVE TypeOK'
        BY <1>t, <2>1, <3>1, <3>3 DEF LoadAndAttach, Starting, ProgramMap, TypeOK
      <3>4. CASE Stop
        BY <1>t, <2>1, <3>4, Zenon DEF Stop, TypeOK
      <3>5. CASE UNCHANGED vars
        BY <1>t, <2>1, <3>5, Zenon DEF TypeOK, vars, loader
      <3>6. QED
        BY <1>3, <3>2, <3>3, <3>4, <3>5
    <2>3. RequestsFit' /\ MapHoldsRequests' /\ EvictedWereAsked'
      BY <2>1 DEF Inv, RequestsFit, MapHoldsRequests, EvictedWereAsked, wall, H, NativeBytes
    <2>4. QED
      BY <2>2, <2>3 DEF Inv
  <1>4. CASE Tick
    <2>1. /\ mono' = mono + 1 /\ mono < MaxTime
          /\ UNCHANGED <<pinned, loader, requested, evicted>>
      BY <1>4 DEF Tick, history
    <2>2. TypeOK'
      BY <1>t, <2>1, BlockMapAssumption DEF TypeOK, loader
    <2>3. RequestsFit'
      <3>1. wall' = wall + 1 /\ wall \in Nat
        BY <1>t, <2>1, Ranges, BlockMapAssumption DEF wall
      <3>2. \A b \in Addrs : requested[b] <= wall + 1 + H - 1
        BY <1>h, <3>1 DEF Inv, RequestsFit, Absent
      <3>3. QED
        BY <2>1, <3>1, <3>2 DEF RequestsFit, H
    <2>4. MapHoldsRequests' /\ EvictedWereAsked'
      BY <2>1 DEF Inv, MapHoldsRequests, EvictedWereAsked, NativeBytes
    <2>5. QED
      BY <2>2, <2>3, <2>4 DEF Inv
  <1>5. QED
    BY <1>1, <1>2, <1>3, <1>4 DEF Next

(* The invariant holds throughout.                                         *)
LEMMA Invariant == Spec => []Inv
  BY InitInv, NextInv, PTL DEF Spec

(* The variables keep their types: every value the loader stores is one a  *)
(* uint64 can hold, and the API is served only with a program attached.    *)
THEOREM TypeCorrect == Spec => []TypeOK
  <1>1. Inv => TypeOK
    BY DEF Inv
  <1>2. QED
    BY <1>1, Invariant, PTL

(* GET /block lists exactly the blocks in force with their remaining       *)
(* seconds, on hosts of either byte order, for every ttl_seconds, after    *)
(* any number of restarts and evictions.                                   *)
THEOREM ListIsTrue == Spec => []ListMatchesRequests
  <1>1. ASSUME Inv PROVE ListMatchesRequests
    <2>t. TypeOK
      BY <1>1 DEF Inv
    <2>h. /\ H \in Nat \ {0} /\ pinned \in [Addrs -> {Absent} \cup 0 .. 2 * H - 1]
          /\ requested \in [Addrs -> {Absent} \cup Nat] /\ evicted \subseteq Addrs
      BY <2>t, ValuesTyped
    <2> DEFINE Due == {b \in Addrs : requested[b] # Absent} \ evicted
    <2>1. ASSUME NEW a \in Due
          PROVE  /\ NativeBytes(a) \in Present /\ ListedIP(NativeBytes(a)) = a
                 /\ Remaining(pinned[NativeBytes(a)]) = SecondsLeft(requested[a])
      <3>1. a \in Addrs /\ NativeBytes(a) \in Addrs /\ NativeBytes(NativeBytes(a)) = a
        BY <2>1, NativeBytesInverse
      <3>2. pinned[NativeBytes(a)] = requested[a] /\ requested[a] # Absent
        BY <1>1, <2>1 DEF Inv, MapHoldsRequests
      <3>3. requested[a] \in 0 .. 2 * H - 1 /\ requested[a] <= wall + H - 1
        BY <1>1, <2>h, <3>1, <3>2 DEF Inv, RequestsFit
      <3>4. Remaining(requested[a]) = SecondsLeft(requested[a])
        BY <2>t, <3>3, RemainingIsSecondsLeft
      <3>5. QED
        BY <3>1, <3>2, <3>4 DEF Present, ListedIP
    <2>2. ASSUME NEW k \in Present
          PROVE  NativeBytes(k) \in Due /\ NativeBytes(NativeBytes(k)) = k
      <3>1. k \in Addrs /\ pinned[k] # Absent
        BY <2>2 DEF Present
      <3>2. NativeBytes(k) \in Addrs /\ NativeBytes(NativeBytes(k)) = k
        BY <3>1, NativeBytesInverse
      <3>3. QED
        BY <1>1, <3>1, <3>2 DEF Inv, MapHoldsRequests
    <2> HIDE DEF Due
    <2>3. Listed = {<<a, SecondsLeft(requested[a])>> : a \in Due}
      <3>1. Listed \subseteq {<<a, SecondsLeft(requested[a])>> : a \in Due}
        <4> SUFFICES ASSUME NEW k \in Present
                     PROVE  \E a \in Due : <<ListedIP(k), Remaining(pinned[k])>>
                                           = <<a, SecondsLeft(requested[a])>>
          BY DEF Listed
        <4>1. NativeBytes(k) \in Due /\ NativeBytes(NativeBytes(k)) = k
          BY <2>2
        <4>2. /\ ListedIP(k) = NativeBytes(k)
              /\ Remaining(pinned[k]) = SecondsLeft(requested[NativeBytes(k)])
          BY <2>1, <4>1 DEF ListedIP
        <4>3. QED
          BY <4>1, <4>2
      <3>2. {<<a, SecondsLeft(requested[a])>> : a \in Due} \subseteq Listed
        BY <2>1 DEF Listed
      <3>3. QED
        BY <3>1, <3>2
    <2>4. QED
      BY <2>3 DEF ListMatchesRequests, Due
  <1>2. QED
    BY <1>1, Invariant, PTL

(* The kernel drops what the pinned map blocks: no block ends early while  *)
(* the program reads that map, and none outlives its removal.              *)
THEOREM StoredStaysEnforced == Spec => []StoredIsEnforced
  <1>1. ASSUME Inv PROVE StoredIsEnforced
    <2> SUFFICES ASSUME NEW a \in Addrs
                 PROVE  /\ attached = "pinned" /\ Active(a) => Ingress(NativeBytes(a)) = "SHOT"
                        /\ Ingress(NativeBytes(a)) = "SHOT" =>
                             requested[a] # Absent /\ a \notin evicted
      BY DEF StoredIsEnforced
    <2>t. TypeOK
      BY <1>1 DEF Inv
    <2>1. requested[a] \in {Absent} \cup Nat /\ wall \in Nat /\ mono \in Nat /\ mono <= wall
      BY <2>t, Ranges, ValuesTyped
    <2>2. pinned[NativeBytes(a)] = IF a \in evicted THEN Absent ELSE requested[a]
      BY <1>1 DEF Inv, MapHoldsRequests
    <2>3. QED
      BY <2>1, <2>2 DEF Active, Ingress, Lookup, Absent, Forever
  <1>2. QED
    BY <1>1, Invariant, PTL
=============================================================================
