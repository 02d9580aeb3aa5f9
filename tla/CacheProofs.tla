----------------------------- MODULE CacheProofs -----------------------------
(***************************************************************************)
(* The data structure of the cache stays in order under every sequence of  *)
(* accesses, for every number and size of sets and blocks and under both   *)
(* replacement policies.                                                   *)
(***************************************************************************)
EXTENDS CacheAccess, CacheLemmas, WellFoundedInduction, FiniteSetTheorems

(***************************************************************************)
(* Addresses.                                                              *)
(***************************************************************************)
LEMMA DivProduct ==
  ASSUME NEW b \in Nat \ {0}, NEW q \in Nat
  PROVE  (q * b) \div b = q /\ (q * b) % b = 0
<1>1. q * b \in Int /\ b > 0
  OBVIOUS
<1> DEFINE d == (q * b) \div b
           r == (q * b) % b
<1>2. d \in Int /\ r \in 0 .. (b - 1) /\ q * b = b * d + r
  BY <1>1
<1> HIDE DEF d, r
<1>3. b * (q - d) = r
  BY <1>2
<1>4. q - d <= 0
  <2> SUFFICES ASSUME q - d >= 1 PROVE FALSE
    BY <1>2
  <2>1. b * (q - d) >= b
    BY <1>2
  <2> QED BY <1>2, <1>3, <2>1
<1>5. q - d >= 0
  <2> SUFFICES ASSUME q - d <= -1 PROVE FALSE
    BY <1>2
  <2>1. b * (q - d) <= -b
    BY <1>2
  <2> QED BY <1>2, <1>3, <2>1
<1>6. q = d
  BY <1>2, <1>4, <1>5
<1>7. r = 0
  BY <1>2, <1>3, <1>6
<1> QED BY <1>6, <1>7 DEF d, r

(* The block of an address has the set and the tag of the address, and set *)
(* and tag together tell blocks apart.                                     *)
LEMMA BlockOf ==
  ASSUME NEW address \in Nat
  PROVE  /\ cache_set(address_to_block(address)) = cache_set(address)
         /\ cache_tag(address_to_block(address)) = cache_tag(address)
         /\ address_to_block(address) % BlockSize = 0
<1>1. address \div BlockSize \in Nat
  BY CacheSizeAssumption
<1> QED BY <1>1, DivProduct, CacheSizeAssumption
     DEF cache_set, cache_tag, address_to_block

(***************************************************************************)
(* One set.                                                                *)
(***************************************************************************)
SetOK(s, set) ==
  /\ set \in CacheSet
  /\ \A i, j \in Resident(set) : set.lines[i].tag = set.lines[j].tag => i = j
  /\ \A i \in Way : set.lines[i].lru_clock <= set.lru_clock
  /\ \A i, j \in Resident(set) :
       set.lines[i].lru_clock = set.lines[j].lru_clock => i = j
  /\ \A i \in Resident(set) :
       /\ cache_set(set.lines[i].block_addr) = s
       /\ cache_tag(set.lines[i].block_addr) = set.lines[i].tag
       /\ set.lines[i].block_addr % BlockSize = 0

LEMMA TouchOK ==
  ASSUME NEW s, NEW set, SetOK(s, set)
  PROVE  SetOK(s, [set EXCEPT !.lru_clock = @ + 1])
<1> DEFINE t == [set EXCEPT !.lru_clock = @ + 1]
<1>1. /\ t.lines = set.lines /\ t.lru_clock = set.lru_clock + 1
      /\ t \in CacheSet /\ set.lru_clock \in Nat
      /\ \A i \in Way : set.lines[i].lru_clock \in Nat
  BY DEF SetOK, CacheSet, Line
<1> HIDE DEF t
<1>2. Resident(t) = Resident(set)
  BY <1>1 DEF Resident
<1>3. \A i \in Way : t.lines[i].lru_clock <= t.lru_clock
  BY <1>1 DEF SetOK
<1>4. SetOK(s, t)
  BY <1>1, <1>2, <1>3 DEF SetOK
<1> QED BY <1>4 DEF t

LEMMA HitOK ==
  ASSUME NEW s, NEW set, NEW address, SetOK(s, set)
  PROVE  SetOK(s, hit_cacheline(set, address))
<1> DEFINE i == First(Holding(set, address))
           t == hit_cacheline(set, address)
<1>1. t \in CacheSet
  BY HitType DEF SetOK
<1>2. /\ set \in CacheSet /\ set.lru_clock \in Nat
      /\ \A k \in Way : set.lines[k] \in Line /\ set.lines[k].lru_clock \in Nat
  BY DEF SetOK, CacheSet, Line
<1>3. CASE CACHE_LFU = 0
  <2>1. t = [set EXCEPT !.lru_clock = set.lru_clock + 1,
                        !.lines[i].lru_clock = set.lru_clock + 1]
    BY <1>3 DEF hit_cacheline
  <2> HIDE DEF i, t
  <2>2. /\ t.lru_clock = set.lru_clock + 1
        /\ \A k \in Way : /\ t.lines[k].valid = set.lines[k].valid
                          /\ t.lines[k].tag = set.lines[k].tag
                          /\ t.lines[k].block_addr = set.lines[k].block_addr
                          /\ t.lines[k].lru_clock = IF k = i THEN set.lru_clock + 1
                                                    ELSE set.lines[k].lru_clock
    BY <1>2, <2>1 DEF CacheSet, Line
  <2>3. Resident(t) = Resident(set) /\ Resident(set) \subseteq Way
    BY <2>2 DEF Resident
  <2>4. \A k \in Way : t.lines[k].lru_clock <= t.lru_clock
    BY <1>2, <2>2 DEF SetOK
  <2>5. \A k, m \in Resident(t) : t.lines[k].lru_clock = t.lines[m].lru_clock => k = m
    BY <1>2, <2>2, <2>3 DEF SetOK
  <2> QED BY <1>1, <2>2, <2>3, <2>4, <2>5 DEF SetOK, t
<1>4. CASE CACHE_LFU # 0
  <2>1. t = [set EXCEPT !.lines[i].access_counter = @ + 1]
    BY <1>4 DEF hit_cacheline
  <2> HIDE DEF i, t
  <2>2. /\ t.lru_clock = set.lru_clock
        /\ \A k \in Way : /\ t.lines[k].valid = set.lines[k].valid
                          /\ t.lines[k].tag = set.lines[k].tag
                          /\ t.lines[k].block_addr = set.lines[k].block_addr
                          /\ t.lines[k].lru_clock = set.lines[k].lru_clock
    BY <1>2, <2>1 DEF CacheSet, Line
  <2>3. Resident(t) = Resident(set) /\ Resident(set) \subseteq Way
    BY <2>2 DEF Resident
  <2> QED BY <1>1, <2>2, <2>3 DEF SetOK, t
<1> QED BY <1>3, <1>4

(* A line may be taken over for a block that no valid line holds.          *)
LEMMA FillOK ==
  ASSUME NEW s, NEW set, NEW address \in Nat, NEW i, NEW valid,
         SetOK(s, set), cache_set(address) = s, ~probe_cache(set, address),
         i \in Way => valid \in BOOLEAN
  PROVE  SetOK(s, Fill(set, i, address, valid))
<1> DEFINE t == Fill(set, i, address, valid)
           now == set.lru_clock + 1
<1>1. t \in CacheSet
  BY FillType DEF SetOK
<1>2. /\ set \in CacheSet /\ set.lru_clock \in Nat
      /\ \A k \in Way : set.lines[k] \in Line /\ set.lines[k].lru_clock \in Nat
  BY DEF SetOK, CacheSet, Line
<1>3. /\ t.lru_clock = now
      /\ \A k \in Way : k # i => t.lines[k] = set.lines[k]
      /\ i \in Way => t.lines[i] = Filled(address, valid, now)
  BY <1>2 DEF Fill, CacheSet
<1> HIDE DEF t
<1>4. /\ i \in Way => /\ t.lines[i].tag = cache_tag(address)
                      /\ t.lines[i].block_addr = address_to_block(address)
                      /\ t.lines[i].lru_clock = now
  BY <1>3 DEF Filled
<1>5. \A k \in Resident(t) : k \in Way /\ (k # i => k \in Resident(set))
  BY <1>3 DEF Resident
<1>6. \A k \in Resident(set) : set.lines[k].tag # cache_tag(address)
  BY DEF probe_cache, Holding, Resident
<1>7. \A k, m \in Resident(t) : t.lines[k].tag = t.lines[m].tag => k = m
  BY <1>3, <1>4, <1>5, <1>6 DEF SetOK
<1>8. \A k \in Way : t.lines[k].lru_clock <= t.lru_clock
  BY <1>2, <1>3, <1>4 DEF SetOK
<1>9. \A k, m \in Resident(t) : t.lines[k].lru_clock = t.lines[m].lru_clock => k = m
  <2>1. \A k \in Resident(t) : k # i => t.lines[k].lru_clock < now
    BY <1>2, <1>3, <1>5 DEF SetOK
  <2>2. \A k \in Resident(t) : k = i => t.lines[k].lru_clock = now
    BY <1>4, <1>5
  <2>3. \A k, m \in Resident(t) :
          k # i /\ m # i /\ t.lines[k].lru_clock = t.lines[m].lru_clock => k = m
    BY <1>3, <1>5 DEF SetOK
  <2> QED BY <1>2, <2>1, <2>2, <2>3
<1>10. \A k \in Resident(t) :
         /\ cache_set(t.lines[k].block_addr) = s
         /\ cache_tag(t.lines[k].block_addr) = t.lines[k].tag
         /\ t.lines[k].block_addr % BlockSize = 0
  BY <1>3, <1>4, <1>5, BlockOf DEF SetOK
<1>11. SetOK(s, t)
  BY <1>1, <1>7, <1>8, <1>9, <1>10 DEF SetOK
<1> QED BY <1>11 DEF t

(***************************************************************************)
(* Replacement.  The loops of cache.c look for a first or a least line:    *)
(* there is one, because numbers have no infinite descent.                 *)
(***************************************************************************)
LEMMA Least ==
  ASSUME NEW S, S \subseteq Nat, S # {}
  PROVE  \E x \in S : \A y \in S : x <= y
<1>1. PICK x \in S : \A y \in S : <<y, x>> \notin OpToRel(<, Nat)
  BY NatLessThanWellFounded, WFMin, Zenon
<1>2. \A y \in S : ~(y < x)
  BY <1>1, Zenon DEF OpToRel
<1> QED BY <1>2

LEMMA WaysAreNumbers == Way \subseteq Nat /\ Way # {}
<1>1. 0 \in Way
  BY CacheSizeAssumption DEF Way
<1>2. Way \subseteq Nat
  BY CacheSizeAssumption DEF Way
<1> QED BY <1>1, <1>2

LEMMA FirstIn ==
  ASSUME NEW ways, ways \subseteq Way, ways # {} PROVE First(ways) \in ways
<1>1. \E i \in ways : \A j \in ways : i <= j
  BY WaysAreNumbers, Least
<1> QED BY <1>1 DEF First

(* Set and tag tell blocks apart.                                          *)
LEMMA Quotient ==
  ASSUME NEW n \in Nat \ {0}, NEW x \in Nat, NEW y \in Nat,
         x \div n = y \div n, x % n = y % n
  PROVE  x = y
OBVIOUS

LEMMA SameBlock ==
  ASSUME NEW a \in Nat, NEW b \in Nat, cache_set(a) = cache_set(b),
         cache_tag(a) = cache_tag(b), b % BlockSize = 0
  PROVE  b = address_to_block(a)
<1> DEFINE x == a \div BlockSize
           y == b \div BlockSize
<1>1. x \in Nat /\ y \in Nat
  BY CacheSizeAssumption
<1>2. x \div NumSets = y \div NumSets /\ x % NumSets = y % NumSets
  BY DEF cache_set, cache_tag
<1>3. b = y * BlockSize
  BY CacheSizeAssumption
<1>4. address_to_block(a) = x * BlockSize
  BY DEF address_to_block
<1> HIDE DEF x, y
<1>5. x = y
  BY <1>1, <1>2, Quotient, CacheSizeAssumption
<1> QED BY <1>3, <1>4, <1>5

(* A tag is found exactly when its block is in the set.                    *)
LEMMA HoldsBlock ==
  ASSUME NEW s, NEW set, SetOK(s, set), NEW address \in Nat, cache_set(address) = s
  PROVE  \A i \in Resident(set) :
           set.lines[i].tag = cache_tag(address)
             <=> set.lines[i].block_addr = address_to_block(address)
<1> SUFFICES ASSUME NEW i \in Resident(set)
             PROVE  set.lines[i].tag = cache_tag(address)
                      <=> set.lines[i].block_addr = address_to_block(address)
  OBVIOUS
<1>1. /\ set.lines[i].block_addr \in Nat
      /\ cache_set(set.lines[i].block_addr) = s
      /\ cache_tag(set.lines[i].block_addr) = set.lines[i].tag
      /\ set.lines[i].block_addr % BlockSize = 0
  BY DEF SetOK, Resident, CacheSet, Line
<1> QED BY <1>1, SameBlock, BlockOf

(* In a full set one line comes before all others, and the block address   *)
(* that victim_cacheline returns leads back to it.                         *)
LEMMA VictimIsLeast ==
  ASSUME NEW s, NEW set, SetOK(s, set), Free(set) = {}
  PROVE  \E v \in Way :
           /\ \A j \in Way \ {v} : Before(set.lines[v], set.lines[j])
           /\ {i \in Way : set.lines[i].block_addr = victim_cacheline(set)} = {v}
<1> DEFINE count(i) == set.lines[i].access_counter
           stamp(i) == set.lines[i].lru_clock
           least    == {i \in Way : \A j \in Way : ~Before(set.lines[j], set.lines[i])}
<1>1. /\ \A i \in Way : count(i) \in Nat /\ stamp(i) \in Nat
      /\ Resident(set) = Way
  BY DEF SetOK, CacheSet, Line, Free, Resident
<1>2. \A i, j \in Way : stamp(i) = stamp(j) => i = j
  BY <1>1 DEF SetOK
<1>3. \A i, j \in Way :
        Before(set.lines[i], set.lines[j])
          <=> IF CACHE_LFU = 1
              THEN count(i) < count(j) \/ (count(i) = count(j) /\ stamp(i) < stamp(j))
              ELSE stamp(i) < stamp(j)
  BY DEF Before
<1> HIDE DEF count, stamp
<1>4. least # {}
  <2>1. PICK c \in {count(i) : i \in Way} : \A i \in Way : c <= count(i)
    <3> DEFINE counts == {count(i) : i \in Way}
    <3>1. counts \subseteq Nat /\ counts # {}
      BY <1>1, WaysAreNumbers
    <3>2. \A i \in Way : count(i) \in counts
      OBVIOUS
    <3> HIDE DEF counts
    <3>3. PICK c \in counts : \A y \in counts : c <= y
      BY <3>1, Least
    <3> QED BY <3>2, <3>3 DEF counts
  <2> DEFINE ways == IF CACHE_LFU = 1 THEN {i \in Way : count(i) = c} ELSE Way
  <2>2. ways \subseteq Way /\ ways # {}
    BY <2>1, WaysAreNumbers
  <2>3. PICK t \in {stamp(i) : i \in ways} : \A i \in ways : t <= stamp(i)
    <3> DEFINE stamps == {stamp(i) : i \in ways}
    <3>1. stamps \subseteq Nat /\ stamps # {}
      BY <1>1, <2>2
    <3>2. \A i \in ways : stamp(i) \in stamps
      OBVIOUS
    <3> HIDE DEF stamps
    <3>3. PICK t \in stamps : \A y \in stamps : t <= y
      BY <3>1, Least
    <3> QED BY <3>2, <3>3 DEF stamps
  <2>4. PICK i \in ways : stamp(i) = t
    BY <2>3
  <2>5. ASSUME NEW j \in Way PROVE ~Before(set.lines[j], set.lines[i])
    <3>1. i \in Way /\ stamp(i) \in Nat /\ stamp(j) \in Nat
          /\ count(i) \in Nat /\ count(j) \in Nat
      BY <1>1, <2>2
    <3>2. CASE CACHE_LFU = 1
      <4>1. count(i) = c /\ c <= count(j) /\ (count(j) = c => stamp(i) <= stamp(j))
        BY <2>1, <2>3, <2>4, <3>2
      <4> QED BY <1>3, <3>1, <3>2, <4>1
    <3>3. CASE CACHE_LFU # 1
      <4>1. stamp(i) <= stamp(j)
        BY <2>3, <2>4, <3>3
      <4> QED BY <1>3, <3>1, <3>3, <4>1
    <3> QED BY <3>2, <3>3
  <2> QED BY <2>2, <2>5
<1> DEFINE v == First(least)
<1>5. v \in least /\ v \in Way
  BY <1>4, FirstIn
<1>6. victim_cacheline(set) = set.lines[v].block_addr
  BY DEF victim_cacheline
<1> HIDE DEF v
<1>7. ASSUME NEW j \in Way \ {v} PROVE Before(set.lines[v], set.lines[j])
  <2>1. ~Before(set.lines[j], set.lines[v]) /\ stamp(v) # stamp(j)
    BY <1>2, <1>5
  <2> QED BY <1>1, <1>3, <1>5, <2>1
<1>8. \A i \in Way : set.lines[i].block_addr = set.lines[v].block_addr => i = v
  BY <1>1, <1>5 DEF SetOK
<1> QED BY <1>5, <1>6, <1>7, <1>8

(* The line that a block is filled into.                                   *)
Taken(set, i, address) == Fill(set, i, address, TRUE)

LEMMA FillAt ==
  ASSUME NEW s, NEW set, SetOK(s, set), NEW address, NEW i \in Way,
         NEW t, t = Taken(set, i, address)
  PROVE  /\ \A j \in Way \ {i} : /\ t.lines[j] = set.lines[j]
                                 /\ t.lines[j].lru_clock < t.lines[i].lru_clock
         /\ t.lines[i].valid /\ t.lines[i].block_addr = address_to_block(address)
         /\ t.lines[i].access_counter = 1
<1> DEFINE u == Taken(set, i, address)
<1>1. /\ set \in CacheSet /\ set.lru_clock \in Nat
      /\ \A j \in Way : set.lines[j].lru_clock \in Nat
                         /\ set.lines[j].lru_clock <= set.lru_clock
  BY DEF SetOK, CacheSet, Line
<1>2. /\ u.lines[i] = Filled(address, TRUE, set.lru_clock + 1)
      /\ \A j \in Way \ {i} : u.lines[j] = set.lines[j]
  BY <1>1 DEF Taken, Fill, CacheSet
<1> HIDE DEF u
<1>3. /\ u.lines[i].valid /\ u.lines[i].block_addr = address_to_block(address)
      /\ u.lines[i].lru_clock = set.lru_clock + 1
      /\ u.lines[i].access_counter = 1
  BY <1>2 DEF Filled
<1>4. ASSUME NEW j \in Way \ {i} PROVE u.lines[j].lru_clock < u.lines[i].lru_clock
  <2>1. u.lines[j].lru_clock = set.lines[j].lru_clock
    BY <1>2
  <2> QED BY <1>1, <1>3, <2>1
<1>5. t = u
  BY DEF u
<1> QED BY <1>2, <1>3, <1>4, <1>5

(* The line that a hit finds.                                              *)
LEMMA HitAt ==
  ASSUME NEW s, NEW set, SetOK(s, set), NEW address, NEW i \in Way,
         i = First(Holding(set, address)), NEW t, t = hit_cacheline(set, address)
  PROVE  /\ \A j \in Way \ {i} : t.lines[j] = set.lines[j]
         /\ t.lines[i].valid = set.lines[i].valid
         /\ t.lines[i].block_addr = set.lines[i].block_addr
         /\ CACHE_LFU = 0 =>
              \A j \in Way \ {i} : t.lines[j].lru_clock < t.lines[i].lru_clock
         /\ CACHE_LFU = 1 => t.lines[i].lru_clock = set.lines[i].lru_clock
         /\ t.lines[i].access_counter = set.lines[i].access_counter + CACHE_LFU
<1>1. /\ set \in CacheSet /\ set.lru_clock \in Nat
      /\ \A j \in Way : set.lines[j].lru_clock \in Nat
                         /\ set.lines[j].lru_clock <= set.lru_clock
                         /\ set.lines[j].access_counter \in Nat
  BY DEF SetOK, CacheSet, Line
<1>2. CASE CACHE_LFU = 0
  <2>1. t = [set EXCEPT !.lru_clock = set.lru_clock + 1,
                        !.lines[i].lru_clock = set.lru_clock + 1]
    BY <1>2 DEF hit_cacheline
  <2>2. /\ \A j \in Way \ {i} : t.lines[j] = set.lines[j]
        /\ t.lines[i].valid = set.lines[i].valid
        /\ t.lines[i].block_addr = set.lines[i].block_addr
        /\ t.lines[i].access_counter = set.lines[i].access_counter
        /\ t.lines[i].lru_clock = set.lru_clock + 1
    BY <1>1, <2>1 DEF CacheSet, Line
  <2>3. \A j \in Way \ {i} : t.lines[j].lru_clock < t.lines[i].lru_clock
    BY <1>1, <2>2
  <2>4. t.lines[i].access_counter = set.lines[i].access_counter + CACHE_LFU
    BY <1>1, <1>2, <2>2
  <2> QED BY <1>2, <2>2, <2>3, <2>4
<1>3. CASE CACHE_LFU = 1
  <2>1. t = [set EXCEPT !.lines[i].access_counter = @ + 1]
    BY <1>3 DEF hit_cacheline
  <2>2. /\ \A j \in Way \ {i} : t.lines[j] = set.lines[j]
        /\ t.lines[i].valid = set.lines[i].valid
        /\ t.lines[i].block_addr = set.lines[i].block_addr
        /\ t.lines[i].lru_clock = set.lines[i].lru_clock
        /\ t.lines[i].access_counter = set.lines[i].access_counter + 1
    BY <1>1, <2>1 DEF CacheSet, Line
  <2> QED BY <1>3, <2>2
<1> QED BY <1>2, <1>3, PolicyAssumption

(***************************************************************************)
(* The cache.                                                              *)
(***************************************************************************)
CacheInv == cache \in CacheType /\ \A s \in SetIndex : SetOK(s, cache.sets[s])

LEMMA InitCache == CInit => CacheInv
<1> SUFFICES ASSUME CInit, NEW s \in SetIndex PROVE SetOK(s, cache.sets[s])
  BY SetUpType DEF CInit, CacheInv
<1>1. cache.sets[s] \in CacheSet
  BY SetUpType DEF CInit, CacheType
<1>2. Resident(cache.sets[s]) = {}
  BY DEF CInit, cacheSetUp, Resident
<1>3. \A i \in Way : cache.sets[s].lines[i].lru_clock <= cache.sets[s].lru_clock
  BY DEF CInit, cacheSetUp
<1> QED BY <1>1, <1>2, <1>3 DEF SetOK

(* The access leaves its set in order, whatever it finds there.            *)
LEMMA OperateOK ==
  ASSUME CacheInv, NEW address \in Nat, NEW s \in SetIndex
  PROVE  SetOK(s, operateCache(cache, address).sets[s])
<1> DEFINE home   == cache_set(address)
           set    == Touched(cache, address)
           victim == victim_cacheline(set)
           state  == operateStatus(cache, address)
           after  == CASE state = "CACHE_HIT"   -> hit_cacheline(set, address)
                       [] state = "CACHE_MISS"  -> insert_cacheline(set, address)
                       [] state = "CACHE_EVICT" ->
                            replace_cacheline(set, victim, address)
<1>1. home \in SetIndex /\ SetOK(home, cache.sets[home])
  BY AddressParts DEF CacheInv
<1>2. SetOK(home, set)
  BY <1>1, TouchOK DEF Touched
<1>3. /\ state \in {"CACHE_HIT", "CACHE_MISS", "CACHE_EVICT"}
      /\ state # "CACHE_HIT" => ~probe_cache(set, address)
  BY DEF operateStatus
<1>4. operateCache(cache, address).sets = [cache.sets EXCEPT ![home] = after]
  BY DEF operateCache, CacheInv, CacheType
<1> HIDE DEF set, victim, state
<1>5. SetOK(home, hit_cacheline(set, address))
  BY <1>2, HitOK
<1>6. state # "CACHE_HIT" => SetOK(home, insert_cacheline(set, address))
  BY <1>2, <1>3, FillOK DEF insert_cacheline
<1>7. state # "CACHE_HIT" => SetOK(home, replace_cacheline(set, victim, address))
  <2> DEFINE ways == {i \in Way : set.lines[i].block_addr = victim}
             w    == First(ways)
  <2>1. w \in Way => set.lines[w].valid \in BOOLEAN
    BY <1>2 DEF SetOK, CacheSet, Line
  <2> HIDE DEF w
  <2>2. state # "CACHE_HIT" => SetOK(home, Fill(set, w, address, set.lines[w].valid))
    BY <1>2, <1>3, <2>1, FillOK
  <2> QED BY <1>2, <2>2 DEF replace_cacheline, w
<1>8. SetOK(home, after)
  BY <1>3, <1>5, <1>6, <1>7
<1> HIDE DEF after
<1> QED BY <1>1, <1>4, <1>8 DEF CacheInv, CacheType

LEMMA NextCache == CacheInv /\ [CNext]_cvars => CacheInv'
<1> SUFFICES ASSUME CacheInv, [CNext]_cvars PROVE CacheInv'
  OBVIOUS
<1>1. ASSUME NEW address \in Address, access(address) PROVE CacheInv'
  <2>1. cache' = operateCache(cache, address) /\ address \in Nat
    BY <1>1, AddressAssumption DEF access
  <2>2. cache' \in CacheType
    BY <2>1, OperateType DEF CacheInv
  <2>3. \A s \in SetIndex : SetOK(s, cache'.sets[s])
    BY <2>1, OperateOK
  <2> QED BY <2>2, <2>3 DEF CacheInv
<1>2. CASE UNCHANGED cvars
  BY <1>2 DEF CacheInv, cvars
<1> QED BY <1>1, <1>2 DEF CNext

LEMMA CacheCorrect == CSpec => []CacheInv
<1> QED BY InitCache, NextCache, PTL DEF CSpec

(* No block is in two lines, so that the victim that is looked up by its   *)
(* address is the victim that was chosen.                                  *)
THEOREM BlocksUnique == CSpec => []NoDuplicateBlocks
<1>1. CacheInv => NoDuplicateBlocks
  BY DEF CacheInv, SetOK, NoDuplicateBlocks
<1> QED BY <1>1, CacheCorrect, PTL

(* The stamps of a set order its valid lines: there is one oldest line.    *)
THEOREM StampsStrict == CSpec => []StampsOrdered
<1>1. CacheInv => StampsOrdered
  BY DEF CacheInv, SetOK, StampsOrdered
<1> QED BY <1>1, CacheCorrect, PTL

(* Every valid line is in the set that its address is looked up in.        *)
THEOREM LinesAtHome == CSpec => []LinesInPlace
<1>1. CacheInv => LinesInPlace
  BY DEF CacheInv, SetOK, LinesInPlace
<1> QED BY <1>1, CacheCorrect, PTL

(***************************************************************************)
(* Every access obeys the replacement policy.                              *)
(***************************************************************************)
LEMMA AccessReplaces ==
  ASSUME CacheInv, NEW address \in Nat, access(address)
  PROVE  \E i \in Way : Replaced(cache_set(latest'), address_to_block(latest'), i)
<1> DEFINE s      == cache_set(address)
           block  == address_to_block(address)
           before == cache.sets[s]
           set    == Touched(cache, address)
           after  == cache'.sets[s]
           victim == victim_cacheline(set)
<1>1. s \in SetIndex /\ SetOK(s, before)
  BY AddressParts DEF CacheInv
<1>2. SetOK(s, set) /\ set.lines = before.lines
  <2>1. set = [before EXCEPT !.lru_clock = @ + 1]
    BY DEF Touched
  <2>2. before \in CacheSet
    BY <1>1 DEF SetOK
  <2> HIDE DEF set, before
  <2> QED BY <1>1, <2>1, <2>2, TouchOK DEF CacheSet
<1>3. Resident(set) = Resident(before) /\ Free(set) = Free(before)
  BY <1>2 DEF Resident, Free
<1>4. /\ latest' = address
      /\ status' = IF probe_cache(set, address) THEN "CACHE_HIT"
                   ELSE IF Free(set) # {} THEN "CACHE_MISS" ELSE "CACHE_EVICT"
  BY DEF access, operateStatus
<1>5. /\ \A t \in SetIndex \ {s} : cache'.sets[t] = cache.sets[t]
      /\ status' = "CACHE_HIT" => after = hit_cacheline(set, address)
      /\ status' = "CACHE_MISS" => after = insert_cacheline(set, address)
      /\ status' = "CACHE_EVICT" => after = replace_cacheline(set, victim, address)
  <2> DEFINE chosen == CASE status' = "CACHE_HIT" -> hit_cacheline(set, address)
                         [] status' = "CACHE_MISS" -> insert_cacheline(set, address)
                         [] status' = "CACHE_EVICT" ->
                              replace_cacheline(set, victim, address)
  <2>1. cache' = operateCache(cache, address) /\ status' = operateStatus(cache, address)
    BY DEF access
  <2>2. cache'.sets = [cache.sets EXCEPT ![s] = chosen]
    BY <2>1 DEF operateCache, CacheInv, CacheType
  <2> HIDE DEF set, victim
  <2>3. /\ status' = "CACHE_HIT" => chosen = hit_cacheline(set, address)
        /\ status' = "CACHE_MISS" => chosen = insert_cacheline(set, address)
        /\ status' = "CACHE_EVICT" => chosen = replace_cacheline(set, victim, address)
    OBVIOUS
  <2> HIDE DEF chosen
  <2>4. after = chosen /\ \A t \in SetIndex \ {s} : cache'.sets[t] = cache.sets[t]
    BY <1>1, <2>2 DEF CacheInv, CacheType
  <2> QED BY <2>3, <2>4
<1> HIDE DEF set, victim, s, block
<1>6. \A j \in Resident(set) :
        set.lines[j].tag = cache_tag(address) <=> set.lines[j].block_addr = block
  BY <1>2, HoldsBlock DEF s, block
<1>7. probe_cache(set, address)
        <=> \E j \in Resident(before) : before.lines[j].block_addr = block
  BY <1>2, <1>3, <1>6 DEF probe_cache, Holding, Resident
<1>8. SUFFICES
        \E i \in Way :
          /\ \A j \in Way \ {i} : after.lines[j] = set.lines[j]
          /\ after.lines[i].valid /\ after.lines[i].block_addr = block
          /\ status' = "CACHE_HIT" =>
               i \in Resident(set) /\ set.lines[i].block_addr = block
          /\ status' = "CACHE_MISS" => i \in Free(set)
          /\ status' = "CACHE_EVICT" =>
               /\ Free(set) = {}
               /\ \A j \in Way \ {i} : Before(set.lines[i], set.lines[j])
          /\ status' # "CACHE_HIT" \/ CACHE_LFU = 0 =>
               \A j \in Way \ {i} : after.lines[j].lru_clock < after.lines[i].lru_clock
          /\ status' = "CACHE_HIT" /\ CACHE_LFU = 1 =>
               after.lines[i].lru_clock = set.lines[i].lru_clock
          /\ after.lines[i].access_counter =
               IF status' # "CACHE_HIT" THEN 1
               ELSE set.lines[i].access_counter + CACHE_LFU
  <2> SUFFICES ASSUME NEW i \in Way,
                 /\ \A j \in Way \ {i} : after.lines[j] = set.lines[j]
                 /\ after.lines[i].valid /\ after.lines[i].block_addr = block
                 /\ status' = "CACHE_HIT" =>
                      i \in Resident(set) /\ set.lines[i].block_addr = block
                 /\ status' = "CACHE_MISS" => i \in Free(set)
                 /\ status' = "CACHE_EVICT" =>
                      /\ Free(set) = {}
                      /\ \A j \in Way \ {i} : Before(set.lines[i], set.lines[j])
                 /\ status' # "CACHE_HIT" \/ CACHE_LFU = 0 =>
                      \A j \in Way \ {i} :
                        after.lines[j].lru_clock < after.lines[i].lru_clock
                 /\ status' = "CACHE_HIT" /\ CACHE_LFU = 1 =>
                      after.lines[i].lru_clock = set.lines[i].lru_clock
                 /\ after.lines[i].access_counter =
                      IF status' # "CACHE_HIT" THEN 1
                      ELSE set.lines[i].access_counter + CACHE_LFU
               PROVE  Replaced(s, block, i)
    BY <1>4 DEF s, block
  <2>1. i \in Resident(after) /\ Resident(before) \subseteq Way
    BY DEF Resident
  <2>2. status' = "CACHE_HIT"
          <=> \E j \in Resident(before) : before.lines[j].block_addr = block
    BY <1>4, <1>7
  <2> QED BY <1>2, <1>3, <1>5, <2>1, <2>2 DEF Replaced
<1>9. CASE status' = "CACHE_HIT"
  <2> DEFINE i == First(Holding(set, address))
  <2>1. i \in Holding(set, address) /\ i \in Way
    BY <1>4, <1>9, FirstIn DEF probe_cache, Holding
  <2> HIDE DEF i
  <2>2. i \in Resident(set) /\ set.lines[i].valid /\ set.lines[i].block_addr = block
    BY <1>6, <2>1 DEF Holding, Resident
  <2>3. i = First(Holding(set, address))
    BY DEF i
  <2> HIDE DEF after
  <2>4. /\ \A j \in Way \ {i} : after.lines[j] = set.lines[j]
        /\ after.lines[i].valid /\ after.lines[i].block_addr = block
        /\ CACHE_LFU = 0 =>
             \A j \in Way \ {i} : after.lines[j].lru_clock < after.lines[i].lru_clock
        /\ CACHE_LFU = 1 => after.lines[i].lru_clock = set.lines[i].lru_clock
        /\ after.lines[i].access_counter = set.lines[i].access_counter + CACHE_LFU
    <3>1. after = hit_cacheline(set, address)
      BY <1>5, <1>9
    <3> QED BY <1>2, <2>1, <2>2, <2>3, <3>1, HitAt
  <2> QED BY <1>9, <2>1, <2>2, <2>4
<1>10. CASE status' = "CACHE_MISS"
  <2> DEFINE i == First(Free(set))
  <2>1. i \in Free(set) /\ i \in Way
    BY <1>4, <1>10, FirstIn DEF Free
  <2>2. after = Taken(set, i, address)
    BY <1>5, <1>10 DEF insert_cacheline, Taken
  <2> HIDE DEF i, after
  <2>3. /\ \A j \in Way \ {i} : /\ after.lines[j] = set.lines[j]
                                /\ after.lines[j].lru_clock < after.lines[i].lru_clock
        /\ after.lines[i].valid /\ after.lines[i].block_addr = block
        /\ after.lines[i].access_counter = 1
    BY <1>2, <2>1, <2>2, FillAt DEF block
  <2> QED BY <1>10, <2>1, <2>3
<1>11. CASE status' = "CACHE_EVICT"
  <2>1. Free(set) = {}
    BY <1>4, <1>11
  <2>2. PICK i \in Way :
          /\ \A j \in Way \ {i} : Before(set.lines[i], set.lines[j])
          /\ {k \in Way : set.lines[k].block_addr = victim} = {i}
    BY <1>2, <2>1, VictimIsLeast DEF victim
  <2>3. First({i}) = i
    BY FirstIn
  <2>4. set.lines[i].valid = TRUE
    BY <1>2, <2>1 DEF Free, SetOK, CacheSet, Line
  <2>5. after = Taken(set, i, address)
    BY <1>5, <1>11, <2>2, <2>3, <2>4 DEF replace_cacheline, Taken
  <2> HIDE DEF after
  <2>6. /\ \A j \in Way \ {i} : /\ after.lines[j] = set.lines[j]
                                /\ after.lines[j].lru_clock < after.lines[i].lru_clock
        /\ after.lines[i].valid /\ after.lines[i].block_addr = block
        /\ after.lines[i].access_counter = 1
    BY <1>2, <2>1, <2>2, <2>5, FillAt DEF block
  <2> QED BY <1>11, <2>1, <2>2, <2>6
<1> QED BY <1>4, <1>9, <1>10, <1>11

(* Under both policies and for every geometry, an access touches the line  *)
(* that the policy names and no other: the loops and the lookup of the     *)
(* victim by its address implement the order of uses and stamps.           *)
THEOREM PolicyObeyed == CSpec => ReplacesByPolicy
<1>1. /\ CacheInv /\ [CNext]_cvars
      => [\E i \in Way :
            Replaced(cache_set(latest'), address_to_block(latest'), i)]_cvars
  BY AccessReplaces, AddressAssumption DEF CNext
<1> QED BY <1>1, CacheCorrect, PTL DEF CSpec, ReplacesByPolicy

(***************************************************************************)
(* The replacement policy.  A block that is held is in one line, so that   *)
(* an access, which changes one line, changes the place of the block that  *)
(* comes in and of the block that was in its line, and of no other.        *)
(***************************************************************************)
KnownBlocks ==
  \A s \in SetIndex : \A i \in Resident(cache.sets[s]) :
    cache.sets[s].lines[i].block_addr \in Blocks

PolicyInv == CacheInv /\ KnownBlocks

LEMMA BlockNames ==
  \A b \in Blocks : b \in Nat /\ cache_set(b) \in SetIndex
BY AddressParts, AddressAssumption DEF Blocks

LEMMA FirstBlock == address_to_block(0) = 0
<1>1. 0 \div BlockSize = 0
  BY CacheSizeAssumption
<1> QED BY <1>1, CacheSizeAssumption DEF address_to_block

(* A block is in one line. *)
Located ==
  \A b \in Blocks : \A k \in Where(b) :
    /\ k \in Way
    /\ Where(b) = {k}
    /\ LineOf(b) = cache.sets[cache_set(b)].lines[k]

LEMMA BlocksLocated == CacheInv => Located
<1> SUFFICES ASSUME CacheInv, NEW b \in Blocks, NEW k \in Where(b)
             PROVE  /\ k \in Way
                    /\ Where(b) = {k}
                    /\ LineOf(b) = cache.sets[cache_set(b)].lines[k]
  BY DEF Located
<1> DEFINE set == cache.sets[cache_set(b)]
<1>1. SetOK(cache_set(b), set)
  BY BlockNames DEF CacheInv
<1>2. ASSUME NEW j \in Where(b) PROVE j = k
  <2>1. /\ j \in Resident(set) /\ k \in Resident(set)
        /\ set.lines[j].block_addr = set.lines[k].block_addr
    BY DEF Where
  <2>2. set.lines[j].tag = set.lines[k].tag
    BY <1>1, <2>1 DEF SetOK
  <2> QED BY <1>1, <2>1, <2>2 DEF SetOK
<1>3. Where(b) = {k}
  BY <1>2
<1> QED BY <1>3 DEF LineOf, Where, Resident

LEMMA InitPolicy == CInit => PolicyInv /\ Replacement!Init
<1> SUFFICES ASSUME CInit PROVE KnownBlocks /\ Replacement!Init
  BY InitCache DEF PolicyInv
<1>1. \A s \in SetIndex : Resident(cache.sets[s]) = {}
  BY DEF CInit, cacheSetUp, Resident
<1>2. absHeld = {}
  BY <1>1, BlockNames DEF absHeld, Where
<1>3. absUses = [b \in Blocks |-> 0] /\ absOlder = {}
  BY <1>2 DEF absUses, absOlder
<1>4. address_to_block(latest) = 0 /\ status = "none"
  BY FirstBlock DEF CInit
<1> QED BY <1>1, <1>2, <1>3, <1>4 DEF KnownBlocks, Replacement!Init

LEMMA SameCardinality == \A S : Replacement!Cardinality(S) = Cardinality(S)
BY DEF Cardinality, Replacement!Cardinality

(* The lines of a set that are in use are as many as the blocks it holds.  *)
LEMMA PeersCount ==
  ASSUME PolicyInv, NEW b \in Blocks, NEW set, set = cache.sets[cache_set(b)]
  PROVE  /\ Free(set) # {} => Cardinality(Replacement!Peers(b)) < CACHE_LINES_PER_SET
         /\ Free(set) = {} => Cardinality(Replacement!Peers(b)) = CACHE_LINES_PER_SET
<1> DEFINE s     == cache_set(b)
           peers == Replacement!Peers(b)
           f     == [k \in Resident(set) |-> set.lines[k].block_addr]
<1>1. s \in SetIndex /\ SetOK(s, set)
  BY BlockNames DEF PolicyInv, CacheInv
<1>2. peers = {c \in absHeld : cache_set(c) = s}
  BY DEF Replacement!Peers
<1>3. \A k \in Resident(set) : f[k] \in peers
  <2> SUFFICES ASSUME NEW k \in Resident(set) PROVE f[k] \in peers
    OBVIOUS
  <2>1. f[k] \in Blocks /\ cache_set(f[k]) = s
    BY <1>1 DEF PolicyInv, KnownBlocks, SetOK
  <2>2. k \in Where(f[k])
    BY <2>1 DEF Where
  <2> QED BY <1>2, <2>1, <2>2 DEF absHeld
<1>4. \A c \in peers : \E k \in Resident(set) : f[k] = c
  BY <1>2 DEF absHeld, Where
<1>5. \A k, m \in Resident(set) : f[k] = f[m] => k = m
  BY <1>1 DEF SetOK
<1> HIDE DEF peers
<1>6. f \in Bijection(Resident(set), peers)
  BY <1>3, <1>4, <1>5 DEF Bijection, Injection, Surjection, IsInjective
<1>7. IsFiniteSet(Way) /\ Cardinality(Way) = CACHE_LINES_PER_SET
  BY FS_Interval, CacheSizeAssumption DEF Way
<1>8. Resident(set) \subseteq Way /\ (Resident(set) = Way <=> Free(set) = {})
  BY DEF Resident, Free
<1>9. /\ IsFiniteSet(Resident(set))
      /\ Cardinality(Resident(set)) <= Cardinality(Way)
      /\ Cardinality(Resident(set)) = Cardinality(Way) => Resident(set) = Way
      /\ Cardinality(Resident(set)) \in Nat
  BY <1>7, <1>8, FS_Subset, FS_CardinalityType
<1>10. Cardinality(peers) = Cardinality(Resident(set))
  BY <1>6, <1>9, FS_Bijection DEF ExistsBijection
<1> QED BY <1>7, <1>8, <1>9, <1>10, CacheSizeAssumption DEF peers

(* The places of the blocks after an access to a block, that left it in    *)
(* line i of its set.                                                      *)
LEMMA AccessMoves ==
  ASSUME PolicyInv, CacheInv', NEW block \in Blocks, NEW i \in Way,
         Replaced(cache_set(block), block, i)
  PROVE  /\ PolicyInv'
         /\ absHeld' = {block} \union {b \in absHeld : i \notin Where(b) \/ cache_set(b) # cache_set(block)}
         /\ LineOf(block)' = cache'.sets[cache_set(block)].lines[i]
         /\ \A b \in absHeld' \ {block} : LineOf(b)' = LineOf(b)
<1> DEFINE s      == cache_set(block)
           before == cache.sets[s]
           after  == cache'.sets[s]
<1>1. /\ \A t \in SetIndex \ {s} : cache'.sets[t] = cache.sets[t]
      /\ \A j \in Way \ {i} : after.lines[j] = before.lines[j]
      /\ i \in Resident(after) /\ after.lines[i].block_addr = block
  BY DEF Replaced
<1>2. Located /\ Located'
  BY BlocksLocated, PTL DEF PolicyInv
<1>3. \A b \in Blocks : cache_set(b) \in SetIndex
  BY BlockNames
<1>4. \A j \in Way \ {i} : j \in Resident(after) <=> j \in Resident(before)
  BY <1>1 DEF Resident
<1>5. KnownBlocks'
  <2> SUFFICES ASSUME NEW t \in SetIndex, NEW j \in Resident(cache'.sets[t])
               PROVE  cache'.sets[t].lines[j].block_addr \in Blocks
    BY DEF KnownBlocks
  <2>1. CASE t # s
    BY <1>1, <2>1 DEF PolicyInv, KnownBlocks
  <2>2. CASE t = s /\ j = i
    BY <1>1, <2>2
  <2>3. CASE t = s /\ j # i
    <3>1. j \in Resident(before) /\ after.lines[j] = before.lines[j]
      BY <1>1, <1>4, <2>3 DEF Resident
    <3> QED BY <2>3, <3>1 DEF PolicyInv, KnownBlocks
  <2> QED BY <2>1, <2>2, <2>3
<1>6. i \in Where(block)'
  BY <1>1 DEF Where
<1>7. LineOf(block)' = after.lines[i]
  BY <1>2, <1>6 DEF Located
<1>8. ASSUME NEW b \in Blocks \ {block}
      PROVE  Where(b)' = IF cache_set(b) = s THEN Where(b) \ {i} ELSE Where(b)
  <2>1. CASE cache_set(b) # s
    BY <1>1, <1>3, <2>1 DEF Where
  <2>2. CASE cache_set(b) = s
    <3>1. Where(b)' = {j \in Resident(after) : after.lines[j].block_addr = b}
      BY <2>2 DEF Where
    <3>2. Where(b) = {j \in Resident(before) : before.lines[j].block_addr = b}
      BY <2>2 DEF Where
    <3>3. Resident(after) \subseteq Way /\ Resident(before) \subseteq Way
      BY DEF Resident
    <3> HIDE DEF before, after
    <3> QED BY <1>1, <1>4, <2>2, <3>1, <3>2, <3>3
  <2> QED BY <2>1, <2>2
<1>9. ASSUME NEW b \in Blocks \ {block}, Where(b)' # {}
      PROVE  LineOf(b)' = LineOf(b)
  <2>1. PICK k \in Where(b)' : TRUE
    BY <1>9
  <2>2. k \in Where(b) /\ (cache_set(b) = s => k # i)
    BY <1>8, <2>1
  <2>3. k \in Way /\ LineOf(b) = cache.sets[cache_set(b)].lines[k]
        /\ LineOf(b)' = cache'.sets[cache_set(b)].lines[k]
    BY <1>2, <2>1, <2>2 DEF Located
  <2> QED BY <1>1, <1>3, <2>2, <2>3
<1>10. \A b \in Blocks \ {block} :
         Where(b)' # {} <=> Where(b) # {} /\ (i \notin Where(b) \/ cache_set(b) # s)
  BY <1>2, <1>8 DEF Located
<1>11. absHeld' = {b \in Blocks : Where(b)' # {}}
  BY DEF absHeld
<1>12. absHeld' = {block} \union {b \in absHeld : i \notin Where(b) \/ cache_set(b) # s}
  BY <1>6, <1>10, <1>11 DEF absHeld
<1> QED BY <1>5, <1>7, <1>9, <1>11, <1>12 DEF PolicyInv

(* The block that was accessed has become the youngest of its set.         *)
LEMMA Renewed ==
  ASSUME NEW block \in Blocks, NEW leaving, block \notin leaving,
         absHeld' = (absHeld \ leaving) \union {block},
         LineOf(block)'.lru_clock \in Nat,
         \A b \in absHeld' \ {block} :
           /\ LineOf(b).lru_clock \in Nat
           /\ LineOf(b)' = LineOf(b)
           /\ cache_set(b) = cache_set(block) =>
                LineOf(b).lru_clock < LineOf(block)'.lru_clock
  PROVE  Replacement!Renew(block, leaving)
<1> DEFINE gone    == leaving \union {block}
           kept    == {p \in absOlder : {p[1], p[2]} \intersect gone = {}}
           younger == {<<c, block>> : c \in Replacement!Peers(block) \ gone}
<1>1. absOlder' \subseteq kept \union younger
  <2> SUFFICES ASSUME NEW c \in absHeld', NEW d \in absHeld', <<c, d>> \in absOlder'
               PROVE  <<c, d>> \in kept \/ <<c, d>> \in younger
    BY DEF absOlder
  <2>1. cache_set(c) = cache_set(d) /\ LineOf(c)'.lru_clock < LineOf(d)'.lru_clock
    BY DEF absOlder
  <2>2. c # block
    BY <2>1
  <2>3. CASE d = block
    BY <2>1, <2>2, <2>3 DEF Replacement!Peers
  <2>4. CASE d # block
    <3>1. c \in absHeld /\ d \in absHeld /\ c \notin gone /\ d \notin gone
      BY <2>2, <2>4
    <3>2. LineOf(c).lru_clock < LineOf(d).lru_clock
      BY <2>1, <2>2, <2>4
    <3> QED BY <2>1, <3>1, <3>2 DEF absOlder
  <2> QED BY <2>3, <2>4
<1>2. kept \subseteq absOlder'
  <2> SUFFICES ASSUME NEW c \in absHeld, NEW d \in absHeld, <<c, d>> \in absOlder,
                      c \notin gone, d \notin gone
               PROVE  <<c, d>> \in absOlder'
    BY DEF absOlder
  <2>1. c \in absHeld' \ {block} /\ d \in absHeld' \ {block}
    OBVIOUS
  <2> QED BY <2>1 DEF absOlder
<1>3. younger \subseteq absOlder'
  <2> SUFFICES ASSUME NEW c \in Replacement!Peers(block) \ gone
               PROVE  <<c, block>> \in absOlder'
    OBVIOUS
  <2>1. c \in absHeld' \ {block} /\ cache_set(c) = cache_set(block)
    BY DEF Replacement!Peers
  <2> QED BY <2>1 DEF absOlder
<1> QED BY <1>1, <1>2, <1>3 DEF Replacement!Renew

LEMMA AccessFollowsPolicy ==
  ASSUME PolicyInv, CacheInv', NEW address \in Address, access(address)
  PROVE  PolicyInv' /\ Replacement!Next
<1> DEFINE block  == address_to_block(address)
           s      == cache_set(block)
           before == cache.sets[s]
           after  == cache'.sets[s]
<1>1. block \in Blocks /\ s = cache_set(address) /\ latest' = address
  BY AddressAssumption, BlockOf DEF Blocks, access
<1>2. PICK i \in Way : Replaced(s, block, i)
  BY <1>1, AccessReplaces, AddressAssumption DEF PolicyInv
<1> HIDE DEF block
<1>3. /\ PolicyInv'
      /\ absHeld' = {block} \union {b \in absHeld : i \notin Where(b) \/ cache_set(b) # s}
      /\ LineOf(block)' = after.lines[i]
      /\ \A b \in absHeld' \ {block} : LineOf(b)' = LineOf(b)
  BY <1>1, <1>2, AccessMoves
<1>4. Located /\ SetOK(s, before) /\ SetOK(s, after)
  BY <1>1, BlocksLocated, BlockNames DEF PolicyInv, CacheInv
<1>5. \A b \in absHeld : /\ LineOf(b) \in Line
                         /\ b \in Blocks
                         /\ \E k \in Where(b) : LineOf(b) = cache.sets[cache_set(b)].lines[k]
  <2> SUFFICES ASSUME NEW b \in absHeld
               PROVE  /\ LineOf(b) \in Line
                      /\ b \in Blocks
                      /\ \E k \in Where(b) : LineOf(b) = cache.sets[cache_set(b)].lines[k]
    OBVIOUS
  <2>1. PICK k \in Where(b) : b \in Blocks
    BY DEF absHeld
  <2>2. k \in Way /\ LineOf(b) = cache.sets[cache_set(b)].lines[k]
    BY <1>4, <2>1 DEF Located
  <2>3. SetOK(cache_set(b), cache.sets[cache_set(b)])
    BY <2>1, BlockNames DEF PolicyInv, CacheInv
  <2> QED BY <2>1, <2>2, <2>3 DEF SetOK, CacheSet
<1>6. after.lines[i] \in Line /\ before.lines[i] \in Line
  BY <1>4 DEF SetOK, CacheSet
<1>7. block \in absHeld <=> status' = "CACHE_HIT"
  BY <1>1, <1>2 DEF Replaced, absHeld, Where
<1>8. \A b \in Blocks : i \in Where(b) /\ cache_set(b) = s
                        => i \in Resident(before) /\ before.lines[i].block_addr = b
  BY DEF Where
<1>9. absUses' = [b \in Blocks |-> IF b \in absHeld' THEN LineOf(b)'.access_counter ELSE 0]
  BY DEF absUses
<1>10. /\ after.lines[i].access_counter \in Nat
       /\ after.lines[i].lru_clock \in Nat
       /\ \A b \in absHeld : LineOf(b).lru_clock \in Nat /\ LineOf(b).access_counter \in Nat
  BY <1>5, <1>6 DEF Line
(* A block that comes in or is stamped is younger than its peers.          *)
<1>11. ASSUME status' # "CACHE_HIT" \/ CACHE_LFU = 0, NEW b \in absHeld' \ {block},
              cache_set(b) = s
       PROVE  LineOf(b).lru_clock < LineOf(block)'.lru_clock
  <2>1. b \in absHeld /\ i \notin Where(b)
    BY <1>3, <1>11
  <2>2. PICK k \in Where(b) : LineOf(b) = before.lines[k]
    BY <1>5, <1>11, <2>1
  <2>3. k \in Resident(before) \ {i}
    BY <1>11, <2>1, <2>2 DEF Where
  <2>4. after.lines[k].lru_clock < after.lines[i].lru_clock
    BY <1>2, <1>11, <2>3 DEF Replaced
  <2>5. after.lines[k] = before.lines[k]
    BY <1>2, <2>3 DEF Replaced, Resident
  <2> QED BY <1>3, <2>2, <2>4, <2>5
<1>12. CASE status' = "CACHE_HIT"
  <2>1. i \in Resident(before) /\ before.lines[i].block_addr = block
    BY <1>2, <1>12 DEF Replaced
  <2>2. absHeld' = absHeld /\ block \in absHeld
    BY <1>3, <1>5, <1>7, <1>8, <1>12, <2>1
  <2>3. LineOf(block) = before.lines[i]
    BY <1>1, <1>4, <2>1 DEF Located, Where
  <2>4. LineOf(block)'.access_counter = LineOf(block).access_counter + CACHE_LFU
    BY <1>2, <1>3, <1>12, <2>3 DEF Replaced
  <2>5. CASE CACHE_LFU = 1
    <3>1. LineOf(block)'.lru_clock = LineOf(block).lru_clock
      BY <1>2, <1>3, <1>12, <2>3, <2>5 DEF Replaced
    <3>2. \A b \in absHeld : LineOf(b)'.lru_clock = LineOf(b).lru_clock
      BY <1>3, <2>2, <3>1
    <3>3. absOlder' = {p \in absHeld' \X absHeld' :
                         /\ cache_set(p[1]) = cache_set(p[2])
                         /\ LineOf(p[1])'.lru_clock < LineOf(p[2])'.lru_clock}
      BY DEF absOlder
    <3>4. absOlder' = absOlder
      BY <2>2, <3>2, <3>3 DEF absOlder
    <3>5. absUses' = [absUses EXCEPT ![block] = @ + 1]
      BY <1>1, <1>3, <1>9, <2>2, <2>4, <2>5 DEF absUses
    <3>6. Replacement!Hit(block)
      BY <1>12, <2>2, <2>5, <3>4, <3>5 DEF Replacement!Hit
    <3> QED BY <1>1, <1>3, <3>6 DEF Replacement!Next, block
  <2>6. CASE CACHE_LFU = 0
    <3>1. Replacement!Renew(block, {})
      BY <1>1, <1>3, <1>10, <1>11, <2>2, <2>6, Renewed
    <3>2. LineOf(block)'.access_counter = LineOf(block).access_counter
      BY <1>10, <2>2, <2>4, <2>6
    <3>3. absUses' = absUses
      BY <1>3, <1>9, <2>2, <3>2 DEF absUses
    <3>4. Replacement!Hit(block)
      BY <1>12, <2>2, <2>6, <3>1, <3>3 DEF Replacement!Hit
    <3> QED BY <1>1, <1>3, <3>4 DEF Replacement!Next, block
  <2> QED BY <2>5, <2>6, PolicyAssumption
<1>13. CASE status' = "CACHE_MISS"
  <2>1. i \in Free(before)
    BY <1>2, <1>13 DEF Replaced
  <2>2. absHeld' = absHeld \union {block} /\ block \notin absHeld
    BY <1>3, <1>5, <1>7, <1>8, <1>13, <2>1 DEF Free, Resident
  <2>3. Replacement!Renew(block, {})
    BY <1>1, <1>3, <1>10, <1>11, <1>13, <2>2, Renewed
  <2>4. LineOf(block)'.access_counter = 1
    BY <1>2, <1>3, <1>13 DEF Replaced
  <2>5. absUses' = [absUses EXCEPT ![block] = 1]
    BY <1>1, <1>3, <1>9, <2>2, <2>4 DEF absUses
  <2>6. Cardinality(Replacement!Peers(block)) < CACHE_LINES_PER_SET
    BY <1>1, <2>1, PeersCount
  <2>7. Replacement!Miss(block)
    BY <1>13, <2>2, <2>3, <2>5, <2>6, SameCardinality DEF Replacement!Miss
  <2> QED BY <1>1, <1>3, <2>7 DEF Replacement!Next, block
<1>14. CASE status' = "CACHE_EVICT"
  <2> DEFINE victim == before.lines[i].block_addr
  <2>1. /\ Free(before) = {}
        /\ \A j \in Way \ {i} : Before(before.lines[i], before.lines[j])
    BY <1>2, <1>14 DEF Replaced
  <2>2. /\ i \in Resident(before) /\ victim \in Blocks /\ cache_set(victim) = s
        /\ i \in Where(victim)
    <3>1. i \in Resident(before)
      BY <2>1 DEF Free, Resident
    <3>2. victim \in Blocks /\ cache_set(victim) = s
      BY <1>1, <1>4, <3>1, BlockNames DEF PolicyInv, KnownBlocks, SetOK
    <3> QED BY <3>1, <3>2 DEF Where
  <2>3. victim \in absHeld /\ LineOf(victim) = before.lines[i]
    BY <1>4, <2>2 DEF Located, absHeld
  <2>4. block \notin absHeld /\ victim # block
    BY <1>7, <1>14, <2>3
  <2>5. absHeld' = (absHeld \ {victim}) \union {block}
    BY <1>3, <1>5, <1>8, <2>2, <2>4
  <2> HIDE DEF victim
  <2>6. Replacement!Renew(block, {victim})
    BY <1>1, <1>3, <1>10, <1>11, <1>14, <2>4, <2>5, Renewed
  <2>7. LineOf(block)'.access_counter = 1
    BY <1>2, <1>3, <1>14 DEF Replaced
  <2>8. absUses' = [absUses EXCEPT ![victim] = 0, ![block] = 1]
    BY <1>1, <1>3, <1>9, <2>2, <2>4, <2>5, <2>7 DEF absUses
  <2>9. Cardinality(Replacement!Peers(block)) = CACHE_LINES_PER_SET
    BY <1>1, <2>1, PeersCount
  <2>10. victim \in Replacement!Peers(block)
    BY <2>2, <2>3 DEF Replacement!Peers
  <2>11. ASSUME NEW c \in Replacement!Peers(block) \ {victim}
         PROVE  Replacement!GoesFirst(victim, c)
    <3>1. c \in absHeld /\ cache_set(c) = s
      BY DEF Replacement!Peers
    <3>2. PICK k \in Where(c) : LineOf(c) = before.lines[k]
      BY <1>5, <3>1
    <3>3. k \in Way /\ k # i
      BY <1>5, <3>1, <3>2 DEF Where, Resident, victim
    <3>4. Before(LineOf(victim), LineOf(c))
      BY <2>1, <2>3, <3>2, <3>3
    <3>5. LineOf(victim).lru_clock < LineOf(c).lru_clock => <<victim, c>> \in absOlder
      BY <2>2, <2>3, <3>1 DEF absOlder
    <3>6. absUses[victim] = LineOf(victim).access_counter
          /\ absUses[c] = LineOf(c).access_counter
      BY <1>5, <2>3, <3>1 DEF absUses
    <3> QED BY <3>4, <3>5, <3>6, PolicyAssumption DEF Before, Replacement!GoesFirst
  <2>12. Replacement!Evict(block)
    BY <1>14, <2>4, <2>5, <2>6, <2>8, <2>9, <2>10, <2>11, SameCardinality
        DEF Replacement!Evict
  <2> QED BY <1>1, <1>3, <2>12 DEF Replacement!Next, block
<1>15. status' \in Status
  BY DEF access, operateStatus, Status
<1> QED BY <1>3, <1>12, <1>13, <1>14, <1>15 DEF Status

LEMMA StepFollowsPolicy ==
  PolicyInv /\ CacheInv' /\ [CNext]_cvars => PolicyInv' /\ [Replacement!Next]_(Replacement!vars)
<1> SUFFICES ASSUME PolicyInv, CacheInv', [CNext]_cvars
             PROVE  PolicyInv' /\ [Replacement!Next]_(Replacement!vars)
  OBVIOUS
<1>1. CASE CNext
  BY <1>1, AccessFollowsPolicy DEF CNext
<1>2. CASE UNCHANGED cvars
  BY <1>2 DEF cvars, PolicyInv, KnownBlocks, Blocks, Replacement!vars, absHeld, absUses,
     absOlder, Where, LineOf, CacheInv
<1> QED BY <1>1, <1>2

(* The cache, with its lines, tags, valid bits and clocks, implements the  *)
(* replacement policy: for every geometry and both policies, every         *)
(* sequence of accesses hits, misses and evicts the blocks that the policy *)
(* says.                                                                   *)
THEOREM PolicyImplemented == CSpec => ImplementsPolicy
<1>1. CInit => PolicyInv /\ CacheInv /\ Replacement!Init
  BY InitPolicy DEF PolicyInv
<1>2. CacheInv /\ [CNext]_cvars => CacheInv'
  BY NextCache
<1> QED BY <1>1, <1>2, StepFollowsPolicy, PTL DEF CSpec, ImplementsPolicy, Replacement!Spec
=============================================================================
