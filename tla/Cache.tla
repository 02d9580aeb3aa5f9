-------------------------------- MODULE Cache --------------------------------
(***************************************************************************)
(* The cache of cache.c as functions on its data structure: a cache is an  *)
(* array of sets, each with an array of lines and a clock.  The cache      *)
(* holds no data; it decides the latency of an access (processCacheOp).    *)
(*                                                                         *)
(* The sizes are powers of two in the code, given as bit counts; only the  *)
(* powers matter here.                                                     *)
(***************************************************************************)
EXTENDS Integers

CONSTANTS
  NumSets,              (* 2^CACHE_SET_BITS: 16 in the code.                *)
  CACHE_LINES_PER_SET,  (* 4 in the code.                                   *)
  BlockSize,            (* 2^CACHE_BLOCK_BITS: 64 in the code.              *)
  CACHE_LFU,            (* The replacement policy: 1 in the code.           *)
  MEM_LATENCY           (* 0 or 100 in config.h.                            *)

ASSUME CacheSizeAssumption == /\ NumSets \in Nat \ {0}
                              /\ CACHE_LINES_PER_SET \in Nat \ {0}
                              /\ BlockSize \in Nat \ {0}
ASSUME PolicyAssumption == CACHE_LFU \in {0, 1}
ASSUME LatencyAssumption == MEM_LATENCY \in Nat

SetIndex == 0 .. (NumSets - 1)
Way      == 0 .. (CACHE_LINES_PER_SET - 1)

Line == [valid : BOOLEAN, tag : Nat, block_addr : Nat, lru_clock : Nat,
         access_counter : Nat]
CacheSet == [lines : [Way -> Line], lru_clock : Nat]
CacheType == [sets : [SetIndex -> CacheSet], hit_count : Nat, miss_count : Nat,
              eviction_count : Nat]

(***************************************************************************)
(* Addresses.                                                              *)
(***************************************************************************)
address_to_block_Unmasked(address) == address

address_to_block(address) == (address \div BlockSize) * BlockSize
cache_tag(address) == (address \div BlockSize) \div NumSets
cache_set(address) == (address \div BlockSize) % NumSets

(***************************************************************************)
(* One set.  The loops over the lines of a set stop at the first line      *)
(* that satisfies their condition.                                         *)
(***************************************************************************)
First(ways) == CHOOSE i \in ways : \A j \in ways : i <= j

Holding(set, address) ==
  {i \in Way : set.lines[i].valid /\ set.lines[i].tag = cache_tag(address)}
Free(set) == {i \in Way : ~set.lines[i].valid}

probe_cache_FirstLine(set, address) ==
  set.lines[0].valid /\ set.lines[0].tag = cache_tag(address)

probe_cache(set, address) == Holding(set, address) # {}

(* A hit counts as a use: LFU counts uses, LRU stamps the line.            *)
hit_cacheline_NoStamp(set, address) == set

hit_cacheline(set, address) ==
  LET i == First(Holding(set, address))
      now == set.lru_clock + 1
  IN IF CACHE_LFU = 0
     THEN [set EXCEPT !.lru_clock = now, !.lines[i].lru_clock = now]
     ELSE [set EXCEPT !.lines[i].access_counter = @ + 1]

(* Line i taken over for a block; inserting also makes it valid.           *)
Filled(address, valid, now) ==
  [valid |-> valid, tag |-> cache_tag(address),
   block_addr |-> address_to_block(address), lru_clock |-> now,
   access_counter |-> 1]

Fill_NoTick(set, i, address, valid) ==
  [set EXCEPT !.lines[i] = Filled(address, valid, set.lru_clock + 1)]

Fill(set, i, address, valid) ==
  [set EXCEPT !.lru_clock = @ + 1,
              !.lines[i] = Filled(address, valid, set.lru_clock + 1)]

insert_cacheline_NotValid(set, address) ==
  Fill(set, First(Free(set)), address, FALSE)

insert_cacheline(set, address) == Fill(set, First(Free(set)), address, TRUE)

(* LFU breaks ties by the older stamp, both policies then by the index.    *)
Before_NoTieBreak(m, n) == m.access_counter < n.access_counter

Before(m, n) ==
  IF CACHE_LFU = 1
  THEN \/ m.access_counter < n.access_counter
       \/ m.access_counter = n.access_counter /\ m.lru_clock < n.lru_clock
  ELSE m.lru_clock < n.lru_clock

victim_cacheline(set) ==
  set.lines[First({i \in Way : \A j \in Way :
                                 ~Before(set.lines[j], set.lines[i])})].block_addr

(* The victim is looked up again by its block address.                     *)
replace_cacheline(set, victim_block_addr, address) ==
  LET ways == {i \in Way : set.lines[i].block_addr = victim_block_addr}
      i    == First(ways)
  IN IF ways = {} THEN set ELSE Fill(set, i, address, set.lines[i].valid)

(***************************************************************************)
(* The cache.                                                              *)
(***************************************************************************)

(* tag and block_addr are left uninitialised by malloc; no line is read    *)
(* before it is valid, so that any value does.                             *)
cacheSetUp ==
  [sets |-> [s \in SetIndex |->
               [lines |-> [i \in Way |->
                             [valid |-> FALSE, tag |-> 0, block_addr |-> 0,
                              lru_clock |-> 0, access_counter |-> 1]],
                lru_clock |-> 0]],
   hit_count |-> 0, miss_count |-> 0, eviction_count |-> 0]

Status == {"CACHE_MISS", "CACHE_HIT", "CACHE_EVICT"}

(* The set of an address, its clock advanced for the access.               *)
Touched(cache, address) ==
  LET set == cache.sets[cache_set(address)]
  IN [set EXCEPT !.lru_clock = @ + 1]

(* The status of an access, and the cache after it. *)
operateStatus(cache, address) ==
  LET set == Touched(cache, address)
  IN IF probe_cache(set, address) THEN "CACHE_HIT"
     ELSE IF Free(set) # {} THEN "CACHE_MISS" ELSE "CACHE_EVICT"

operateCache(cache, address) ==
  LET set    == Touched(cache, address)
      status == operateStatus(cache, address)
      after  == CASE status = "CACHE_HIT"   -> hit_cacheline(set, address)
                  [] status = "CACHE_MISS"  -> insert_cacheline(set, address)
                  [] status = "CACHE_EVICT" ->
                       replace_cacheline(set, victim_cacheline(set), address)
  IN [cache EXCEPT
        !.sets[cache_set(address)] = after,
        !.hit_count      = IF status = "CACHE_HIT" THEN @ + 1 ELSE @,
        !.miss_count     = IF status = "CACHE_HIT" THEN @ ELSE @ + 1,
        !.eviction_count = IF status = "CACHE_EVICT" THEN @ + 1 ELSE @]

CACHE_HIT_LATENCY   == 2
CACHE_MISS_LATENCY  == MEM_LATENCY + CACHE_HIT_LATENCY
CACHE_OTHER_LATENCY == MEM_LATENCY + CACHE_HIT_LATENCY

processCacheOperation(cache, address) ==
  CASE operateStatus(cache, address) = "CACHE_HIT"   -> CACHE_HIT_LATENCY
    [] operateStatus(cache, address) = "CACHE_MISS"  -> CACHE_MISS_LATENCY
    [] operateStatus(cache, address) = "CACHE_EVICT" -> CACHE_OTHER_LATENCY
=============================================================================
