------------------------------ MODULE BlockMap ------------------------------
(***************************************************************************)
(* The kernel block list: the loader, which starts, fails and stops, its   *)
(* HTTP API (ebpf/loader/main.go), and the TC ingress program              *)
(* (ebpf/tc_blocker.c), which goes on without it.                          *)
(*                                                                         *)
(* The parts agree only through bytes: a map key is four bytes in memory,  *)
(* a value is a number of seconds of some clock, and a map is whatever is  *)
(* pinned at a path.  Addresses are tuples of octets as they stand in the  *)
(* packet; the byte order of the host decides what a uint32 becomes in     *)
(* memory.  Integers of the loader have Width bits and wrap.               *)
(***************************************************************************)
EXTENDS Integers, FiniteSets, SequencesExt

CONSTANTS Addrs,         \* IPv4 addresses as octet tuples, closed under reversal
          TTLs,          \* ttl_seconds of POST /block
          LittleEndian,  \* byte order of the host
          BootEpoch,     \* wall-clock seconds at boot
          MaxEntries,    \* max_entries of blocked_ips
          Width,         \* bits of int64 and uint64
          MaxStarts,     \* bound: starts of the loader
          MaxTime        \* bound: seconds since boot

ASSUME BlockMapAssumption ==
  /\ Addrs \subseteq [1 .. 4 -> 0 .. 255]
  /\ \A a \in Addrs : Reverse(a) \in Addrs
  /\ Width \in Nat \ {0}
  /\ TTLs \subseteq -(2 ^ (Width - 1)) .. 2 ^ (Width - 1) - 1
  /\ LittleEndian \in BOOLEAN
  /\ BootEpoch \in Nat
  /\ MaxEntries \in Nat \ {0}
  /\ MaxStarts \in Nat
  /\ MaxTime \in Nat /\ BootEpoch + MaxTime < 2 ^ (Width - 1)

(* What the proofs need to know of the two powers of two.                  *)
ASSUME PowersOfTwo == /\ 2 ^ (Width - 1) \in Nat \ {0}
                      /\ 2 ^ Width = 2 * 2 ^ (Width - 1)

VARIABLES pin,        \* the map is pinned in the BPF file system
          pinned,     \* pinned[k]: value under key k in the pinned map, or Absent
          attached,   \* the map the attached program reads
          api,        \* the loader runs and serves its API
          starts,     \* starts so far
          mono,       \* CLOCK_MONOTONIC, in seconds
          requested,  \* history: requested[a], expiry last asked for, or Absent
          evicted     \* history: addresses the LRU dropped since they were asked

loader == <<pin, attached, api, starts>>
history == <<requested, evicted>>
vars == <<pinned, loader, mono, history>>

Absent  == -1
Forever == 0

wall == BootEpoch + mono

TypeOK == /\ pinned \in [Addrs -> {Absent} \cup 0 .. 2 ^ Width - 1]
          /\ attached \in {"none", "pinned", "fresh"}
          /\ pin \in BOOLEAN /\ api \in BOOLEAN
          /\ attached # "none" => pin
          /\ api => attached # "none"
          /\ starts \in 0 .. MaxStarts
          /\ mono \in 0 .. MaxTime
          /\ requested \in [Addrs -> {Absent} \cup Nat]
          /\ evicted \subseteq Addrs

Init == /\ pin = FALSE
        /\ pinned = [k \in Addrs |-> Absent]
        /\ attached = "none"
        /\ api = FALSE
        /\ starts = 0
        /\ mono = 0
        /\ requested = [a \in Addrs |-> Absent]
        /\ evicted = {}

-----------------------------------------------------------------------------
(* Conversions.  ipToUint32 reads the octets as a big-endian number; Put   *)
(* and Delete store a uint32 in the host's byte order.                     *)

NativeBytes(octets) == IF LittleEndian THEN Reverse(octets) ELSE octets

LoaderKey(a) == NativeBytes(a)

(* Iterate reads the key as a native uint32, uint32ToIP prints it big-     *)
(* endian.                                                                 *)
ListedIP(k) == NativeBytes(k)

Unsigned(x) == x % 2 ^ Width
Signed(x) == LET u == Unsigned(x) IN IF u < 2 ^ (Width - 1) THEN u ELSE u - 2 ^ Width

(* Mutant: the TTL itself is stored.                                       *)
ExpiryRelative(ttl) == ttl

(* expiry = uint64(now + ttl_seconds), or 0 when ttl_seconds is not        *)
(* positive.  The int64 sum may wrap; the uint64 made of it does not.      *)
Expiry(ttl) == IF ttl > 0 THEN Unsigned(Signed(wall + ttl)) ELSE Forever

(* Mutant: the difference is taken in a wider type.                        *)
RemainingWide(expiry) ==
  IF expiry = Forever THEN -1 ELSE IF Signed(expiry) < wall THEN 0 ELSE Signed(expiry) - wall

(* ttl_remaining_seconds: int64(expiry) - now, or 0 if that is negative.   *)
Remaining(expiry) ==
  LET left == Signed(Signed(expiry) - wall)
  IN  IF expiry = Forever THEN -1 ELSE IF left < 0 THEN 0 ELSE left

(* What the operator means by ttl_seconds, for the history.                *)
AskedUntil(ttl) == IF ttl > 0 THEN wall + ttl ELSE Forever

Present == {k \in Addrs : pinned[k] # Absent}

-----------------------------------------------------------------------------
(* The loader's life                                                       *)

(* The map NewCollection gives the new program.  Without a pin it creates  *)
(* the map and pins it.  With one, the MapSpec that loadAndAttach puts in  *)
(* place of the object's has no Pinning, and the program gets a new map of *)
(* its own; the API opens the pinned one.                                  *)
ProgramMap == IF pin THEN "fresh" ELSE "pinned"

Starting == ~api /\ starts < MaxStarts /\ starts' = starts + 1

(* loadAndAttach returns an error before Filter.Replace (object, pinned    *)
(* map, collection, interface, clsact, netlink) and main ends.  From       *)
(* NewCollection on, the pin exists.                                       *)
LoadFails == /\ Starting
             /\ pin' \in {pin, TRUE}
             /\ UNCHANGED <<pinned, attached, api, mono, history>>

(* The filter is replaced.  After that the pinned map may not open, or the *)
(* port be taken: the loader ends with the new program in place.           *)
LoadAndAttach(serves) ==
  /\ Starting
  /\ pin' = TRUE
  /\ attached' = ProgramMap
  /\ api' = serves
  /\ UNCHANGED <<pinned, mono, history>>

(* A signal, or death: program, filter and pin stay.                       *)
Stop == /\ api
        /\ api' = FALSE
        /\ UNCHANGED <<pinned, pin, attached, starts, mono, history>>

-----------------------------------------------------------------------------
(* The loader's HTTP API                                                   *)

(* POST /block.  Put into a full LRU map evicts some other entry.          *)
HandleAddBlock(a, ttl) ==
  LET k == LoaderKey(a) IN
  /\ api
  /\ \/ /\ k \in Present \/ Cardinality(Present) < MaxEntries
        /\ pinned' = [pinned EXCEPT ![k] = Expiry(ttl)]
        /\ evicted' = evicted \ {a}
     \/ /\ k \notin Present /\ Cardinality(Present) >= MaxEntries
        /\ \E v \in Present :
             /\ pinned' = [pinned EXCEPT ![k] = Expiry(ttl), ![v] = Absent]
             /\ evicted' = (evicted \ {a}) \cup {ListedIP(v)}
  /\ requested' = [requested EXCEPT ![a] = AskedUntil(ttl)]
  /\ UNCHANGED <<loader, mono>>

(* DELETE /block/:ip; a key that is not there is a 404.                    *)
HandleRemoveBlock(a) ==
  LET k == LoaderKey(a) IN
  /\ api /\ k \in Present
  /\ pinned' = [pinned EXCEPT ![k] = Absent]
  /\ requested' = [requested EXCEPT ![a] = Absent]
  /\ UNCHANGED <<loader, mono, evicted>>

(* GET /block: the addresses with their remaining seconds.                 *)
Listed == {<<ListedIP(k), Remaining(pinned[k])>> : k \in Present}

-----------------------------------------------------------------------------
(* The kernel                                                              *)

Lookup(saddr) == IF attached = "pinned" THEN pinned[saddr] ELSE Absent

(* Mutant: the special case 0 = forever is forgotten.                      *)
IngressNoForever(saddr) ==
  LET expiry == Lookup(saddr) IN
  IF expiry = Absent \/ mono >= expiry THEN "OK" ELSE "SHOT"

(* tc_ingress_blocker on an IPv4 packet from saddr.                        *)
Ingress(saddr) ==
  LET expiry == Lookup(saddr) IN
  IF expiry = Absent \/ (expiry # Forever /\ mono >= expiry) THEN "OK" ELSE "SHOT"

Tick == /\ mono < MaxTime
        /\ mono' = mono + 1
        /\ UNCHANGED <<pinned, loader, history>>

Next == \/ \E a \in Addrs, ttl \in TTLs : HandleAddBlock(a, ttl)
        \/ \E a \in Addrs : HandleRemoveBlock(a)
        \/ LoadFails
        \/ \E serves \in BOOLEAN : LoadAndAttach(serves)
        \/ Stop
        \/ Tick

Spec == Init /\ [][Next]_vars

-----------------------------------------------------------------------------
(* Active blocks, as the operator asked for them: not expired by the wall  *)
(* clock and not lost to the LRU.                                          *)
Active(a) == /\ requested[a] # Absent
             /\ requested[a] = Forever \/ wall < requested[a]
             /\ a \notin evicted

(* The API tells the truth about itself: GET /block lists exactly the      *)
(* addresses that were POSTed and not DELETEd since, each with the seconds *)
(* left of its last POST, except the ones the LRU evicted.  It does so     *)
(* after restarts, and for a ttl_seconds so large that the sum with the    *)
(* clock wraps (the difference wraps back).                                *)
SecondsLeft(until) == IF until = Forever THEN -1 ELSE IF until < wall THEN 0 ELSE until - wall
ListMatchesRequests ==
  Listed = {<<a, SecondsLeft(requested[a])>> :
              a \in {b \in Addrs : requested[b] # Absent} \ evicted}

(* "If the packet's source IPv4 address is found in the map AND the block  *)
(* has not yet expired, the packet is silently dropped".                   *)
BlockedIsDropped == \A a \in Addrs : Active(a) => Ingress(a) = "SHOT"

(* What the program does enforce, on a host of either byte order: while it *)
(* reads the pinned map, that is until a second program is attached, a     *)
(* packet whose source has the bytes stored for the address a is dropped   *)
(* as long as the block of a is active: no block ends early, although the  *)
(* two clocks differ, and none ends because the loader stops or fails to   *)
(* start.  A packet is never dropped when a was not asked for, was removed *)
(* or fell to the LRU.                                                     *)
StoredIsEnforced ==
  \A a \in Addrs :
    LET dropped == Ingress(NativeBytes(a)) = "SHOT" IN
    /\ attached = "pinned" /\ Active(a) => dropped
    /\ dropped => requested[a] # Absent /\ a \notin evicted

(* "AND the block has not yet expired ... Otherwise the packet is passed": *)
(* a block with a TTL ends when its TTL is over.                           *)
ExpiredPasses ==
  \A a \in Addrs : requested[a] > 0 /\ wall >= requested[a] => Ingress(a) = "OK"
=============================================================================
