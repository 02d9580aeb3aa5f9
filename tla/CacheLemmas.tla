----------------------------- MODULE CacheLemmas -----------------------------
(***************************************************************************)
(* Lemmas about the operators of the cache: every operation on a cache     *)
(* yields a cache, for every geometry and both replacement policies.       *)
(***************************************************************************)
EXTENDS Cache, TLAPS

LEMMA AddressParts ==
  ASSUME NEW address \in Nat
  PROVE  /\ address_to_block(address) \in Nat
         /\ cache_tag(address) \in Nat
         /\ cache_set(address) \in SetIndex
<1> USE CacheSizeAssumption
<1>1. address \div BlockSize \in Nat
  OBVIOUS
<1>2. ASSUME NEW q \in Nat
      PROVE  q * BlockSize \in Nat /\ q \div NumSets \in Nat /\ q % NumSets \in SetIndex
  BY DEF SetIndex
<1> QED BY <1>1, <1>2 DEF address_to_block, cache_tag, cache_set

LEMMA FillType ==
  ASSUME NEW set \in CacheSet, NEW i, NEW address \in Nat, NEW valid,
         i \in Way => valid \in BOOLEAN
  PROVE  Fill(set, i, address, valid) \in CacheSet
<1> DEFINE now == set.lru_clock + 1
           line == Filled(address, valid, now)
<1>1. now \in Nat
  BY DEF CacheSet
<1>2. i \in Way => line \in Line
  BY <1>1, AddressParts DEF Filled, Line
<1> HIDE DEF line, now
<1>3. [set EXCEPT !.lru_clock = now, !.lines[i] = line] \in CacheSet
  BY <1>1, <1>2 DEF CacheSet
<1> QED BY <1>3 DEF Fill, line, now

LEMMA HitType ==
  ASSUME NEW set \in CacheSet, NEW address
  PROVE  hit_cacheline(set, address) \in CacheSet
<1> DEFINE i == First(Holding(set, address))
           now == set.lru_clock + 1
<1> HIDE DEF i
<1>1. now \in Nat
  BY DEF CacheSet
<1>2. [set EXCEPT !.lru_clock = now, !.lines[i].lru_clock = now] \in CacheSet
  BY <1>1 DEF CacheSet, Line
<1>3. [set EXCEPT !.lines[i].access_counter = @ + 1] \in CacheSet
  BY DEF CacheSet, Line
<1> QED BY <1>2, <1>3 DEF hit_cacheline, i

LEMMA SetUpType == cacheSetUp \in CacheType
BY DEF cacheSetUp, CacheType, CacheSet, Line

LEMMA TouchedType ==
  ASSUME NEW c \in CacheType, NEW address \in Nat
  PROVE  Touched(c, address) \in CacheSet
<1>1. c.sets[cache_set(address)] \in CacheSet
  BY AddressParts DEF CacheType
<1> QED BY <1>1 DEF Touched, CacheSet

(* The set an access leaves behind, by its status.                         *)
LEMMA OperateType ==
  ASSUME NEW c \in CacheType, NEW address \in Nat
  PROVE  operateCache(c, address) \in CacheType
<1> DEFINE set == Touched(c, address)
           victim == victim_cacheline(set)
<1>1. set \in CacheSet
  BY TouchedType
<1> HIDE DEF set, victim
<1>2. hit_cacheline(set, address) \in CacheSet
  BY <1>1, HitType
<1>3. insert_cacheline(set, address) \in CacheSet
  BY <1>1, FillType DEF insert_cacheline
<1>4. replace_cacheline(set, victim, address) \in CacheSet
  <2> DEFINE ways == {i \in Way : set.lines[i].block_addr = victim}
             w == First(ways)
  <2>1. w \in Way => set.lines[w].valid \in BOOLEAN
    BY <1>1 DEF CacheSet, Line
  <2> HIDE DEF w
  <2>2. Fill(set, w, address, set.lines[w].valid) \in CacheSet
    BY <1>1, <2>1, FillType
  <2> QED BY <1>1, <2>2 DEF replace_cacheline, w
<1>5. operateStatus(c, address) \in Status
  BY DEF operateStatus, Status
<1> DEFINE status == operateStatus(c, address)
           after == CASE status = "CACHE_HIT"   -> hit_cacheline(set, address)
                      [] status = "CACHE_MISS"  -> insert_cacheline(set, address)
                      [] status = "CACHE_EVICT" ->
                           replace_cacheline(set, victim, address)
<1>6. after \in CacheSet
  BY <1>2, <1>3, <1>4, <1>5 DEF Status
<1> DEFINE hits      == IF status = "CACHE_HIT" THEN c.hit_count + 1 ELSE c.hit_count
           misses    == IF status = "CACHE_HIT" THEN c.miss_count ELSE c.miss_count + 1
           evictions == IF status = "CACHE_EVICT" THEN c.eviction_count + 1
                                                  ELSE c.eviction_count
           sets      == [c.sets EXCEPT ![cache_set(address)] = after]
<1>7. hits \in Nat /\ misses \in Nat /\ evictions \in Nat
  BY DEF CacheType
<1>8. sets \in [SetIndex -> CacheSet]
  BY <1>6 DEF CacheType
<1>9. operateCache(c, address) = [c EXCEPT !.sets           = sets,
                                           !.hit_count      = hits,
                                           !.miss_count     = misses,
                                           !.eviction_count = evictions]
  BY DEF operateCache, set, victim, CacheType
<1> HIDE DEF hits, misses, evictions, sets
<1> QED BY <1>7, <1>8, <1>9 DEF CacheType

(* A latency is a number of cycles.                                        *)
LEMMA LatencyType ==
  ASSUME NEW c, NEW address PROVE processCacheOperation(c, address) \in Nat
<1>1. operateStatus(c, address) \in Status
  BY DEF operateStatus, Status
<1> QED BY <1>1, LatencyAssumption
     DEF processCacheOperation, Status, CACHE_HIT_LATENCY, CACHE_MISS_LATENCY,
         CACHE_OTHER_LATENCY
=============================================================================
