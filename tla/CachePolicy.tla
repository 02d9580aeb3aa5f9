----------------------------- MODULE CachePolicy -----------------------------
(***************************************************************************)
(* What a set-associative cache with replacement promises, without lines,  *)
(* tags, valid bits or clocks: a set holds at most Capacity blocks, in the *)
(* order of their age.  Under LRU a hit makes its block the youngest, and  *)
(* the oldest block of a full set is evicted.  Under LFU a hit counts a    *)
(* use, and the oldest of the least used blocks is evicted.                *)
(***************************************************************************)
EXTENDS Naturals, FiniteSets

CONSTANTS
  Block,     (* The blocks of memory that are accessed.                     *)
  IndexOf(_),(* The set of a block.                                         *)
  Capacity,  (* Number of blocks a set holds.                               *)
  Policy     (* "LRU" or "LFU".                                             *)

VARIABLES
  held,      (* The blocks in the cache.                                    *)
  uses,      (* The uses of each block since it came in.                    *)
  older,     (* The pairs of blocks of a set, the first older than the      *)
             (* second.                                                     *)
  last,      (* The last block that was accessed.                           *)
  outcome    (* What that access found.                                     *)

vars == <<held, uses, older, last, outcome>>

Peers(b) == {c \in held : IndexOf(c) = IndexOf(b)}

(* The order in which blocks are given up. *)
GoesFirst(b, c) ==
  IF Policy = "LRU" THEN <<b, c>> \in older
  ELSE uses[b] < uses[c] \/ (uses[b] = uses[c] /\ <<b, c>> \in older)

(* Block b becomes the youngest of its set, which the blocks leaving leave.*)
Renew(b, leaving) ==
  older' = {p \in older : {p[1], p[2]} \intersect (leaving \union {b}) = {}}
             \union {<<c, b>> : c \in Peers(b) \ (leaving \union {b})}

Init == /\ held = {}
        /\ uses = [b \in Block |-> 0]
        /\ older = {}
        /\ last = 0
        /\ outcome = "none"

Hit(b) ==
  /\ b \in held
  /\ outcome' = "CACHE_HIT"
  /\ IF Policy = "LRU" THEN Renew(b, {}) /\ UNCHANGED uses
     ELSE uses' = [uses EXCEPT ![b] = @ + 1] /\ UNCHANGED older
  /\ UNCHANGED held

Miss(b) ==
  /\ b \notin held
  /\ Cardinality(Peers(b)) < Capacity
  /\ outcome' = "CACHE_MISS"
  /\ held' = held \union {b}
  /\ uses' = [uses EXCEPT ![b] = 1]
  /\ Renew(b, {})

Evict(b) ==
  /\ b \notin held
  /\ Cardinality(Peers(b)) = Capacity
  /\ outcome' = "CACHE_EVICT"
  /\ \E victim \in Peers(b) :
       /\ \A c \in Peers(b) \ {victim} : GoesFirst(victim, c)
       /\ held' = (held \ {victim}) \union {b}
       /\ uses' = [uses EXCEPT ![victim] = 0, ![b] = 1]
       /\ Renew(b, {victim})

Next == \E b \in Block : last' = b /\ (Hit(b) \/ Miss(b) \/ Evict(b))

Spec == Init /\ [][Next]_vars
=============================================================================
