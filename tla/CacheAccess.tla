----------------------------- MODULE CacheAccess -----------------------------
(***************************************************************************)
(* The cache on its own: any sequence of accesses through                  *)
(* processCacheOperation.                                                  *)
(***************************************************************************)
EXTENDS Cache

CONSTANT Address   (* The addresses that are accessed.                      *)
ASSUME AddressAssumption == Address \subseteq Nat

VARIABLES
  cache,    (* The cache.                                                   *)
  latest,   (* The address of the last access: a history variable.          *)
  status,   (* The status of the last access, "none" before the first.      *)
  accesses  (* Number of accesses: a history variable.                      *)

cvars == <<cache, latest, status, accesses>>

CInit == /\ cache = cacheSetUp
         /\ latest = 0
         /\ status = "none"
         /\ accesses = 0

access(address) == /\ cache' = operateCache(cache, address)
                   /\ latest' = address
                   /\ status' = operateStatus(cache, address)
                   /\ accesses' = accesses + 1

CNext == \E address \in Address : access(address)

CSpec == CInit /\ [][CNext]_cvars

CTypeOK == /\ cache \in CacheType
           /\ latest \in Nat
           /\ status \in Status \union {"none"}
           /\ accesses \in Nat

(***************************************************************************)
(* Properties.                                                             *)
(***************************************************************************)
Resident(set) == {i \in Way : set.lines[i].valid}

(* probe_cache, insert_cacheline and replace_cacheline keep a block in one *)
(* line at most: neither its tag nor its address is in two valid lines of  *)
(* a set, so that the first match of a loop is the only one, and the       *)
(* victim that is looked up by address is the victim that was chosen.      *)
NoDuplicateBlocks ==
  \A s \in SetIndex :
    LET set == cache.sets[s]
    IN \A i, j \in Resident(set) :
         \/ set.lines[i].tag = set.lines[j].tag
         \/ set.lines[i].block_addr = set.lines[j].block_addr
         => i = j

(* The stamps of the valid lines of a set order them strictly, none ahead  *)
(* of the set's clock: the replacement policy has one victim to choose.    *)
StampsOrdered ==
  \A s \in SetIndex :
    LET set == cache.sets[s]
    IN /\ \A i \in Way : set.lines[i].lru_clock <= set.lru_clock
       /\ \A i, j \in Resident(set) :
            set.lines[i].lru_clock = set.lines[j].lru_clock => i = j

(* A valid line belongs where it is: its address is that of a block and    *)
(* maps to its set and tag.                                                *)
LinesInPlace ==
  \A s \in SetIndex : \A i \in Resident(cache.sets[s]) :
    LET line == cache.sets[s].lines[i]
    IN /\ cache_set(line.block_addr) = s
       /\ cache_tag(line.block_addr) = line.tag
       /\ line.block_addr % BlockSize = 0

(* An access changes one line of one set, and that line holds the block    *)
(* afterwards: a hit finds the block there, a miss takes a free line, and  *)
(* when there is none the line with the least use, by the policy, gives    *)
(* way.  The stamp of a block that comes in, or is used under LRU, is the  *)
(* youngest of its set; under LFU its uses are counted from 1.             *)
Replaced(s, block, i) ==
  LET before == cache.sets[s]
      after  == cache'.sets[s]
  IN /\ \A t \in SetIndex \ {s} : cache'.sets[t] = cache.sets[t]
     /\ \A j \in Way \ {i} : after.lines[j] = before.lines[j]
     /\ i \in Resident(after) /\ after.lines[i].block_addr = block
     /\ status' = "CACHE_HIT" <=>
          \E j \in Resident(before) : before.lines[j].block_addr = block
     /\ status' = "CACHE_HIT" =>
          i \in Resident(before) /\ before.lines[i].block_addr = block
     /\ status' = "CACHE_MISS" => i \in Free(before)
     /\ status' = "CACHE_EVICT" =>
          /\ Free(before) = {}
          /\ \A j \in Way \ {i} : Before(before.lines[i], before.lines[j])
     /\ status' # "CACHE_HIT" \/ CACHE_LFU = 0 =>
          \A j \in Resident(before) \ {i} :
            after.lines[j].lru_clock < after.lines[i].lru_clock
     /\ status' = "CACHE_HIT" /\ CACHE_LFU = 1 =>
          after.lines[i].lru_clock = before.lines[i].lru_clock
     /\ after.lines[i].access_counter =
          IF status' # "CACHE_HIT" THEN 1
          ELSE before.lines[i].access_counter + CACHE_LFU

ReplacesByPolicy ==
  [][\E i \in Way : Replaced(cache_set(latest'), address_to_block(latest'), i)]_cvars

(***************************************************************************)
(* The abstraction: a block is in the cache when a valid line of its set   *)
(* has its address; the counter of the line counts its uses, and stamps    *)
(* tell its age.                                                           *)
(***************************************************************************)
Blocks == {address_to_block(a) : a \in Address}

Where(b) == LET set == cache.sets[cache_set(b)]
            IN {i \in Resident(set) : set.lines[i].block_addr = b}

LineOf(b) == cache.sets[cache_set(b)].lines[CHOOSE i \in Where(b) : TRUE]

absHeld == {b \in Blocks : Where(b) # {}}

absUses == [b \in Blocks |-> IF b \in absHeld THEN LineOf(b).access_counter ELSE 0]

absOlder == {p \in absHeld \X absHeld :
               /\ cache_set(p[1]) = cache_set(p[2])
               /\ LineOf(p[1]).lru_clock < LineOf(p[2]).lru_clock}

Replacement == INSTANCE CachePolicy
                 WITH Block    <- Blocks,
                      IndexOf  <- cache_set,
                      Capacity <- CACHE_LINES_PER_SET,
                      Policy   <- IF CACHE_LFU = 1 THEN "LFU" ELSE "LRU",
                      held     <- absHeld,
                      uses     <- absUses,
                      older    <- absOlder,
                      last     <- address_to_block(latest),
                      outcome  <- status

(* The lines, tags, valid bits and clocks of cache.c implement the         *)
(* replacement policy, hit for hit and victim for victim: with CACHE_LFU 1 *)
(* the oldest of the least used blocks of a full set goes, with 0 the one  *)
(* that was not used for the longest time.                                 *)
ImplementsPolicy == Replacement!Spec
=============================================================================
