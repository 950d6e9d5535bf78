------------------------------ MODULE FswCache ------------------------------
(***************************************************************************)
(* The block cache of the file system drivers (filesystems/fsw_core.c): a  *)
(* table of entries, each with its own buffer. fsw_block_get() finds or    *)
(* reads a block and returns the buffer; it stays the caller's until       *)
(* fsw_block_release(). Callers hold blocks while they get others, so      *)
(* every order of gets and releases occurs.                                *)
(***************************************************************************)
EXTENDS Integers, Sequences, FiniteSets

CONSTANTS BlockUsers,  \* places in the code that can hold a block
          Forgetful,   \* those that may not release it (fsw_iso9660_volume_mount)
          Blocks,      \* physical block numbers
          BlockSizes,  \* physical block sizes; one is a volume's first (512)
          FirstSize,
          MinCache,    \* entries of the smallest cache (16)
          MAX_CACHE_LEVEL,
          INVALID_BNO,
          NoHold

ASSUME CacheAssumption ==
  /\ MinCache \in Nat \ {0} /\ MAX_CACHE_LEVEL \in Nat
  /\ IsFiniteSet(BlockUsers) /\ Forgetful \subseteq BlockUsers
  /\ INVALID_BNO \notin Blocks
  /\ FirstSize \in BlockSizes
  /\ NoHold \notin [bno : Blocks, entry : Nat \ {0}]

VARIABLES
  bcache,          \* sequence of [phys_bno, refcount, cache_level, data]
  phys_blocksize,
  held,            \* per user NoHold, or the block it holds and the entry it is in
  is_mounted       \* FALSE while the file system driver mounts the volume

cacheVars == <<bcache, phys_blocksize, held, is_mounted>>

Levels == 0 .. MAX_CACHE_LEVEL

\* The data of an entry is "nothing" until its buffer is allocated, then what was
\* last read into it: block and size, or bytes of a read that failed.
Data == {[read |-> "nothing"], [read |-> "garbage"]}
          \cup [read : {"block"}, bno : Blocks, size : BlockSizes]
Entry == [phys_bno : Blocks \cup {INVALID_BNO}, refcount : Nat, cache_level : Levels,
          data : Data]
Empty == [phys_bno |-> INVALID_BNO, refcount |-> 0, cache_level |-> 0,
          data |-> [read |-> "nothing"]]
Hold == [bno : Blocks, entry : Nat \ {0}]

CacheInit ==
  /\ bcache = <<>>
  /\ phys_blocksize = FirstSize
  /\ held = [c \in BlockUsers |-> NoHold]
  /\ is_mounted = FALSE

NothingHeld == \A c \in BlockUsers : held[c] = NoHold

First(S) == CHOOSE i \in S : \A j \in S : i <= j

\* fsw_block_get() with the block in the cache.
Promoted(e, level) ==
  [e EXCEPT !.cache_level = IF @ < level THEN level ELSE @, !.refcount = @ + 1]

Hits(bno) == { i \in DOMAIN bcache : bcache[i].phys_bno = bno }

Hit(c, bno, level) ==
  /\ Hits(bno) # {}
  /\ LET i == First(Hits(bno))
     IN  /\ bcache' = [bcache EXCEPT ![i] = Promoted(@, level)]
         /\ held' = [held EXCEPT ![c] = [bno |-> bno, entry |-> i]]
  /\ UNCHANGED <<phys_blocksize, is_mounted>>

\* The entry for a new block: a free one, one that nobody holds, of the lowest
\* level, or the first of a larger cache.
Free == { i \in DOMAIN bcache : bcache[i].phys_bno = INVALID_BNO }
Unheld == { i \in DOMAIN bcache : bcache[i].refcount = 0 }
Discard(level) == { i \in Unheld : bcache[i].cache_level <= level }

\* (faulty variant: the references are not looked at)
VictimAny ==
  IF Free # {} THEN First(Free)
  ELSE IF bcache # <<>> THEN 1 ELSE Len(bcache) + 1

Victim ==
  IF Free # {} THEN First(Free)
  ELSE IF Unheld # {}
       THEN First(Discard(First({ l \in Levels : Discard(l) # {} })))
       ELSE Len(bcache) + 1

NewSize == IF Len(bcache) < MinCache THEN MinCache ELSE 2 * Len(bcache)
Grown == [i \in 1 .. NewSize |-> IF i <= Len(bcache) THEN bcache[i] ELSE Empty]
Room(i) == IF i <= Len(bcache) THEN bcache ELSE Grown

\* (faulty variant: the old number stays while the new block is read)
FailedKept(e) == { [e EXCEPT !.data = [read |-> "garbage"]] }

\* The entry is marked invalid before its buffer is allocated and read into.
Failed(e) ==
  { [e EXCEPT !.phys_bno = INVALID_BNO, !.data = d] :
      d \in IF e.data.read = "nothing" THEN {e.data, [read |-> "garbage"]}
                                       ELSE {[read |-> "garbage"]} }

Read(bno, level) ==
  [phys_bno |-> bno, refcount |-> 1, cache_level |-> level,
   data |-> [read |-> "block", bno |-> bno, size |-> phys_blocksize]]

\* fsw_block_get() with the block not in the cache. When the larger cache
\* cannot be allocated nothing changes.
Miss(c, bno, level) ==
  /\ Hits(bno) = {}
  /\ LET i == Victim
     IN  \/ /\ bcache' = [Room(i) EXCEPT ![i] = Read(bno, level)]
            /\ held' = [held EXCEPT ![c] = [bno |-> bno, entry |-> i]]
         \/ /\ \E e \in Failed(Room(i)[i]) : bcache' = [Room(i) EXCEPT ![i] = e]
            /\ UNCHANGED held
  /\ UNCHANGED <<phys_blocksize, is_mounted>>

CappedLevel(level) == IF level > MAX_CACHE_LEVEL THEN MAX_CACHE_LEVEL ELSE level

fsw_block_get(c, bno, level) ==
  /\ held[c] = NoHold
  /\ Hit(c, bno, CappedLevel(level)) \/ Miss(c, bno, CappedLevel(level))

Released(e, bno) ==
  IF e.phys_bno = bno /\ e.refcount > 0 THEN [e EXCEPT !.refcount = @ - 1] ELSE e

fsw_block_release(c) ==
  /\ held[c] # NoHold
  /\ bcache' = [i \in DOMAIN bcache |-> Released(bcache[i], held[c].bno)]
  /\ held' = [held EXCEPT ![c] = NoHold]
  /\ UNCHANGED <<phys_blocksize, is_mounted>>

fsw_blockcache_free == bcache' = <<>>

\* Only while mounting, and the drivers that call it hold no block then.
fsw_set_blocksize(size) ==
  /\ ~is_mounted /\ NothingHeld
  /\ fsw_blockcache_free
  /\ phys_blocksize' = size
  /\ UNCHANGED <<held, is_mounted>>

\* The file system driver returns from mounting, with a block unreleased if it
\* forgets one.
fsw_mount ==
  /\ ~is_mounted
  /\ \A c \in BlockUsers \ Forgetful : held[c] = NoHold
  /\ is_mounted' = TRUE
  /\ held' = [c \in BlockUsers |-> NoHold]
  /\ UNCHANGED <<bcache, phys_blocksize>>

\* The volume, or one that could not be mounted, goes; the next starts anew.
fsw_unmount ==
  /\ NothingHeld
  /\ fsw_blockcache_free
  /\ phys_blocksize' = FirstSize
  /\ is_mounted' = FALSE
  /\ UNCHANGED held

CacheNext ==
  \/ \E c \in BlockUsers, bno \in Blocks, level \in 0 .. MAX_CACHE_LEVEL + 1 : fsw_block_get(c, bno, level)
  \/ \E c \in BlockUsers : fsw_block_release(c)
  \/ \E size \in BlockSizes : fsw_set_blocksize(size)
  \/ fsw_mount \/ fsw_unmount

CacheSpec == CacheInit /\ [][CacheNext]_cacheVars

-----------------------------------------------------------------------------
(* The properties.                                                         *)

CacheTypeOK ==
  /\ bcache \in Seq(Entry)
  /\ phys_blocksize \in BlockSizes
  /\ held \in [BlockUsers -> Hold \cup {NoHold}]
  /\ is_mounted \in BOOLEAN

Holders(i) == { c \in BlockUsers : held[c] # NoHold /\ held[c].entry = i }

\* A block is in the cache once: a second copy would be released twice.
NoBlockTwice ==
  \A i, j \in DOMAIN bcache :
    bcache[i].phys_bno = bcache[j].phys_bno /\ bcache[i].phys_bno # INVALID_BNO => i = j

\* What a valid entry holds was read for its number, in the block size of the
\* volume, whatever reads failed before.
CacheFresh ==
  \A i \in DOMAIN bcache :
    bcache[i].phys_bno # INVALID_BNO =>
      bcache[i].data = [read |-> "block", bno |-> bcache[i].phys_bno, size |-> phys_blocksize]

\* A buffer returned by fsw_block_get() has the block in it until it is released.
HeldStable ==
  \A c \in BlockUsers :
    held[c] # NoHold =>
      /\ held[c].entry \in DOMAIN bcache
      /\ bcache[held[c].entry].phys_bno = held[c].bno

\* The references of an entry are the callers that hold its block, so it can be
\* discarded as soon as nobody does.
RefcountExact ==
  \A i \in DOMAIN bcache : bcache[i].refcount = Cardinality(Holders(i))

\* An entry with holders is never taken for unused, even if some callers forget
\* to release theirs.
RefcountCovers ==
  \A i \in DOMAIN bcache : bcache[i].refcount >= Cardinality(Holders(i))

\* The cache grows only when every entry is held. "Blocks with a low level are
\* purged first": a block leaves the cache for another only if nobody holds it
\* and every other unheld one has its level or a higher one.
GrowsWhenHeld == Len(bcache') > Len(bcache) => \A i \in DOMAIN bcache : bcache[i].refcount > 0
LowLevelsPurgedFirst ==
  bcache' # <<>> =>
    \A i \in DOMAIN bcache :
      bcache[i].phys_bno # INVALID_BNO /\ bcache'[i].phys_bno # bcache[i].phys_bno =>
        i \in Unheld /\ \A j \in Unheld : bcache[i].cache_level <= bcache[j].cache_level
DiscardsLowestUnheld == [][GrowsWhenHeld /\ LowLevelsPurgedFirst]_cacheVars
=============================================================================
