------------------------------- MODULE MCCache -------------------------------
(***************************************************************************)
(* Small instances of the cache: two caches, one for each value of         *)
(* CACHE_LFU, process the same accesses side by side.                      *)
(***************************************************************************)
EXTENDS CacheAccess

CONSTANT MaxAccesses   (* Bound on the number of accesses.                  *)

VARIABLES lru_cache, lru_status   (* The cache and status with CACHE_LFU 0. *)

LRU == INSTANCE CacheAccess
         WITH CACHE_LFU <- 0, cache <- lru_cache, status <- lru_status

MCInit == CInit /\ LRU!CInit

MCNext == /\ accesses < MaxAccesses
          /\ \E address \in Address : access(address) /\ LRU!access(address)

MCSpec == MCInit /\ [][MCNext]_<<cvars, lru_cache, lru_status>>

(* The cache with CACHE_LFU 0 implements LRU.                              *)
ImplementsLRU == LRU!ImplementsPolicy
=============================================================================
