------------------------------ MODULE Fsw_proofs -----------------------------
(***************************************************************************)
(* Proofs about the core of the file system drivers (filesystems/fsw_core  *)
(* and fsw_efi): the block cache FswCache, for every number of users,      *)
(* blocks, levels and entries; the directory nodes FswDnode, for every     *)
(* directory tree, cyclic links included, and every number of handles and  *)
(* references; and how the drivers hold disks in Connect, for every        *)
(* machine, set of drivers and number of devices that come and go.         *)
(*                                                                         *)
(* The invariants of FswCache are inductive only together: a buffer stays  *)
(* its holder's because its entry is counted, the count is right because a *)
(* block is in one entry only, and that is so because entries are valid    *)
(* only for what was read into them.                                       *)
(*                                                                         *)
(* A reference count of FswDnode never falls below the number of pointers  *)
(* because each step changes the two by the same amount; the two error     *)
(* paths that leak only raise the count. What is opened is what the path   *)
(* names because each call in progress leads to what the call below it on  *)
(* the stack waits for.                                                    *)
(*                                                                         *)
(* A disk is held only while it is served because starting and stopping a  *)
(* driver on one handle keeps that (StartKeeps, DisconnectedKeeps), and so *)
(* do the loops over the drivers and the handles (TurnsKeep).              *)
(***************************************************************************)
EXTENDS FswCache, FswDnode, Connect, FiniteSetTheorems, SequenceTheorems, WellFoundedInduction, TLAPS

-----------------------------------------------------------------------------
(* FswCache.                                                               *)

CacheInv == CacheTypeOK /\ NoBlockTwice /\ CacheFresh /\ HeldStable /\ RefcountCovers

-----------------------------------------------------------------------------
(* The entry chosen for a block.                                           *)

\* First(S) is the least element of a set of numbers.
LEMMA FirstLeast ==
  ASSUME NEW S \in SUBSET Nat, S # {}
  PROVE  First(S) \in S /\ \A j \in S : First(S) <= j
<1>. DEFINE below(x) == 0 .. x
            T == { below(x) : x \in S }
<1>1. T \subseteq FiniteSubsetsOf(Nat)
  <2>1. \A x \in S : below(x) \in SUBSET Nat /\ IsFiniteSet(below(x))
    BY FS_Interval
  <2>. QED BY <2>1 DEF FiniteSubsetsOf
<1>. HIDE DEF below
<1>2. \E u \in T : \A v \in T : ~(<<v, u>> \in StrictSubsetOrdering(Nat))
  <2>1. IsWellFoundedOn(StrictSubsetOrdering(Nat), FiniteSubsetsOf(Nat))
    BY FS_StrictSubsetOrderingWellFounded
  <2>2. T # {}
    OBVIOUS
  <2>. HIDE DEF T
  <2>. QED BY <1>1, <2>1, <2>2, WFMin
<1>3. PICK x \in S : \A y \in S : ~(<<below(y), below(x)>> \in StrictSubsetOrdering(Nat))
  BY <1>2
<1>4. ASSUME NEW y \in S, y < x PROVE FALSE
  <2>1. below(y) \subseteq below(x) /\ x \in below(x) /\ x \notin below(y)
    BY <1>4 DEF below
  <2>2. below(x) \subseteq Nat
    BY DEF below
  <2>. QED BY <1>3, <2>1, <2>2 DEF StrictSubsetOrdering
<1>5. \A j \in S : x <= j
  BY <1>4
<1>. QED BY <1>5 DEF First

\* The cache in which Victim is an entry: the old one, or one with empty entries
\* behind the old ones.
LEMMA RoomExtends ==
  ASSUME CacheTypeOK, NEW i \in Nat, i <= Len(bcache) + 1, i > 0
  PROVE  /\ Room(i) \in Seq(Entry)
         /\ i \in DOMAIN Room(i)
         /\ DOMAIN bcache \subseteq DOMAIN Room(i)
         /\ \A j \in DOMAIN Room(i) :
              Room(i)[j] = IF j \in DOMAIN bcache THEN bcache[j] ELSE Empty
<1>1. bcache \in Seq(Entry) /\ Len(bcache) \in Nat /\ DOMAIN bcache = 1 .. Len(bcache)
  BY DEF CacheTypeOK
<1>2. Empty \in Entry
  BY CacheAssumption DEF Empty, Entry, Levels, Data
<1>3. NewSize \in Nat /\ NewSize > Len(bcache)
  BY <1>1, CacheAssumption DEF NewSize
<1>4. Grown \in Seq(Entry) /\ DOMAIN Grown = 1 .. NewSize
  BY <1>1, <1>2, <1>3 DEF Grown
<1>5. CASE i <= Len(bcache)
  BY <1>1, <1>5 DEF Room
<1>6. CASE i > Len(bcache)
  <2>1. Room(i) = Grown
    BY <1>1, <1>6 DEF Room
  <2>2. \A j \in DOMAIN Grown : Grown[j] = IF j \in DOMAIN bcache THEN bcache[j] ELSE Empty
    BY <1>1, <1>3 DEF Grown
  <2>. QED BY <1>1, <1>3, <1>4, <1>6, <2>1, <2>2
<1>. QED BY <1>1, <1>5, <1>6

\* The victim is invalid, or unheld and of the lowest level of those unheld; it
\* is a new entry only if every old one is held.
LEMMA VictimFacts ==
  ASSUME CacheTypeOK
  PROVE  /\ Victim \in Nat /\ Victim > 0 /\ Victim <= Len(bcache) + 1
         /\ Victim \in DOMAIN bcache =>
              \/ bcache[Victim].phys_bno = INVALID_BNO
              \/ /\ Victim \in Unheld
                 /\ \A j \in Unheld : bcache[Victim].cache_level <= bcache[j].cache_level
         /\ Victim \notin DOMAIN bcache => Unheld = {}
<1>1. Len(bcache) \in Nat /\ DOMAIN bcache = 1 .. Len(bcache)
  BY DEF CacheTypeOK
<1>2. Free \in SUBSET Nat /\ Unheld \in SUBSET Nat
  BY <1>1 DEF Free, Unheld
<1>3. CASE Free # {}
  <2>1. Victim = First(Free)
    BY <1>3 DEF Victim
  <2>2. First(Free) \in Free
    BY <1>2, <1>3, FirstLeast
  <2>. QED BY <1>1, <2>1, <2>2 DEF Free
<1>4. CASE Free = {} /\ Unheld # {}
  <2>. DEFINE levels == { l \in Levels : Discard(l) # {} }
              low == First(levels)
  <2>1. \A j \in Unheld : bcache[j].cache_level \in Levels /\ j \in Discard(bcache[j].cache_level)
    <3>1. TAKE j \in Unheld
    <3>2. j \in DOMAIN bcache /\ bcache[j] \in Entry
      BY <1>1 DEF Unheld, CacheTypeOK
    <3>3. bcache[j].cache_level \in Levels
      BY <3>2 DEF Entry
    <3>4. bcache[j].cache_level <= bcache[j].cache_level
      BY <3>3, CacheAssumption DEF Levels
    <3>. QED BY <3>3, <3>4 DEF Discard
  <2>2. levels \in SUBSET Nat /\ levels # {}
    BY <1>4, <2>1, CacheAssumption DEF Levels
  <2>3. low \in levels /\ \A l \in levels : low <= l
    <3>. HIDE DEF levels
    <3>. QED BY <2>2, FirstLeast
  <2>4. Discard(low) \in SUBSET Nat /\ Discard(low) # {}
    BY <1>2, <2>3 DEF Discard
  <2>5. Victim = First(Discard(low))
    BY <1>4 DEF Victim
  <2>. HIDE DEF low
  <2>6. First(Discard(low)) \in Discard(low)
    BY <2>4, FirstLeast
  <2>7. Victim \in Unheld /\ bcache[Victim].cache_level <= low
    BY <2>5, <2>6 DEF Discard
  <2>8. \A j \in Unheld : low <= bcache[j].cache_level
    BY <2>1, <2>3
  <2>9. low \in Nat /\ \A j \in Unheld : bcache[j].cache_level \in Nat
    BY <2>1, <2>2, <2>3, CacheAssumption DEF Levels
  <2>10. \A j \in Unheld : bcache[Victim].cache_level <= bcache[j].cache_level
    BY <2>7, <2>8, <2>9
  <2>. QED BY <1>1, <2>7, <2>10 DEF Unheld
<1>5. CASE Free = {} /\ Unheld = {}
  BY <1>1, <1>5 DEF Victim
<1>. QED BY <1>3, <1>4, <1>5

-----------------------------------------------------------------------------
(* The callers that hold an entry.                                         *)

LEMMA HoldersFinite ==
  ASSUME NEW j
  PROVE  IsFiniteSet(Holders(j)) /\ Cardinality(Holders(j)) \in Nat
<1>1. Holders(j) \subseteq BlockUsers
  BY DEF Holders
<1>2. IsFiniteSet(Holders(j))
  BY <1>1, CacheAssumption, FS_Subset
<1>. QED BY <1>2, FS_CardinalityType

\* A hold is not the value that stands for none.
LEMMA HoldNotNull ==
  ASSUME NEW b \in Blocks, NEW k \in Nat \ {0}
  PROVE  [bno |-> b, entry |-> k] \in Hold /\ [bno |-> b, entry |-> k] # NoHold
BY CacheAssumption DEF Hold

LEMMA HolderAdded ==
  ASSUME CacheTypeOK, NEW c \in BlockUsers, held[c] = NoHold, NEW b \in Blocks, NEW k \in Nat \ {0},
         held' = [held EXCEPT ![c] = [bno |-> b, entry |-> k]]
  PROVE  /\ Cardinality(Holders(k)') = Cardinality(Holders(k)) + 1
         /\ \A j : j # k => Holders(j)' = Holders(j)
<1>1. held \in [BlockUsers -> Hold \cup {NoHold}]
  BY DEF CacheTypeOK
<1>2. held'[c] = [bno |-> b, entry |-> k] /\ \A d \in BlockUsers : d # c => held'[d] = held[d]
  BY <1>1
<1>3. held'[c] # NoHold /\ held'[c].entry = k
  BY <1>2, HoldNotNull
<1>4. Holders(k)' = Holders(k) \cup {c} /\ c \notin Holders(k)
  BY <1>2, <1>3 DEF Holders
<1>5. \A j : j # k => Holders(j)' = Holders(j)
  BY <1>2, <1>3 DEF Holders
<1>. QED BY <1>4, <1>5, HoldersFinite, FS_AddElement

LEMMA HolderRemoved ==
  ASSUME CacheTypeOK, NEW c \in BlockUsers, held[c] # NoHold, held' = [held EXCEPT ![c] = NoHold],
         NEW k \in Nat \ {0}, held[c].entry = k
  PROVE  /\ Cardinality(Holders(k)') = Cardinality(Holders(k)) - 1
         /\ \A j : j # k => Holders(j)' = Holders(j)
<1>1. held'[c] = NoHold /\ \A d \in BlockUsers : d # c => held'[d] = held[d]
  BY DEF CacheTypeOK
<1>2. Holders(k)' = Holders(k) \ {c} /\ c \in Holders(k)
  BY <1>1 DEF Holders
<1>3. \A j : j # k => Holders(j)' = Holders(j)
  BY <1>1 DEF Holders
<1>4. IsFiniteSet(Holders(k)) /\ Cardinality(Holders(k) \ {c}) = Cardinality(Holders(k)) - 1
  <2>1. IsFiniteSet(Holders(k))
    BY HoldersFinite
  <2>. QED BY <2>1, <1>2, FS_RemoveElement
<1>5. Cardinality(Holders(k)') = Cardinality(Holders(k) \ {c})
  BY <1>2
<1>. QED BY <1>3, <1>4, <1>5

\* Nobody holds an invalid entry, one with no references, or none at all.
LEMMA NoHolders ==
  ASSUME CacheTypeOK, HeldStable, RefcountCovers, NEW j,
         j \in DOMAIN bcache => bcache[j].phys_bno = INVALID_BNO \/ j \in Unheld
  PROVE  Holders(j) = {} /\ Cardinality(Holders(j)) = 0
<1>1. ASSUME NEW d \in Holders(j) PROVE FALSE
  <2>1. d \in BlockUsers /\ held[d] \in Hold /\ held[d].entry = j
    BY <1>1 DEF Holders, CacheTypeOK
  <2>2. j \in DOMAIN bcache /\ bcache[j].phys_bno \in Blocks
    BY <1>1, <2>1 DEF HeldStable, Holders, Hold
  <2>3. bcache[j].refcount = 0
    BY <2>2, CacheAssumption DEF Unheld
  <2>4. Cardinality(Holders(j)) = 0
    BY <2>2, <2>3, HoldersFinite DEF RefcountCovers
  <2>. QED BY <1>1, <2>4, HoldersFinite, FS_EmptySet
<1>. QED BY <1>1, FS_EmptySet

-----------------------------------------------------------------------------
(* One step of each operation.                                             *)

LEMMA PromotedFacts ==
  ASSUME NEW x \in Entry, NEW level \in Levels
  PROVE  /\ Promoted(x, level) \in Entry
         /\ Promoted(x, level).phys_bno = x.phys_bno /\ Promoted(x, level).data = x.data
         /\ Promoted(x, level).refcount = x.refcount + 1
<1>. DEFINE l == IF x.cache_level < level THEN level ELSE x.cache_level
            n == x.refcount + 1
<1>1. l \in Levels /\ n \in Nat
  BY DEF Entry
<1>2. Promoted(x, level) = [x EXCEPT !.cache_level = l, !.refcount = n]
  BY DEF Promoted
<1>3. n = x.refcount + 1
  OBVIOUS
<1>. HIDE DEF l, n
<1>4. /\ Promoted(x, level) \in Entry /\ Promoted(x, level).phys_bno = x.phys_bno
      /\ Promoted(x, level).data = x.data /\ Promoted(x, level).refcount = n
  BY <1>1, <1>2 DEF Entry
<1>. QED BY <1>3, <1>4

\* A read that fails leaves an invalid entry with the references of before.
LEMMA FailedFacts ==
  ASSUME NEW x \in Entry, NEW e \in Failed(x)
  PROVE  e \in Entry /\ e.phys_bno = INVALID_BNO /\ e.refcount = x.refcount
<1>1. PICK d \in Data : e = [x EXCEPT !.phys_bno = INVALID_BNO, !.data = d]
  BY DEF Failed, Entry, Data
<1>. QED BY <1>1 DEF Entry

LEMMA ReleasedFacts ==
  ASSUME NEW x \in Entry, x.refcount > 0
  PROVE  LET e == Released(x, x.phys_bno)
         IN  /\ e \in Entry /\ e.phys_bno = x.phys_bno /\ e.data = x.data
             /\ e.refcount = x.refcount - 1
<1>. DEFINE n == x.refcount - 1
<1>1. n \in Nat
  BY DEF Entry
<1>2. Released(x, x.phys_bno) = [x EXCEPT !.refcount = n]
  BY DEF Released
<1>. QED BY <1>1, <1>2 DEF Entry

LEMMA HitStep ==
  ASSUME CacheInv, NEW c \in BlockUsers, NEW bno \in Blocks, NEW level \in Levels,
         held[c] = NoHold, Hit(c, bno, level)
  PROVE  CacheInv' /\ (RefcountExact => RefcountExact')
<1>1. /\ bcache \in Seq(Entry) /\ Len(bcache) \in Nat /\ DOMAIN bcache = 1 .. Len(bcache)
      /\ held \in [BlockUsers -> Hold \cup {NoHold}]
  BY DEF CacheInv, CacheTypeOK
<1>2. PICK i \in DOMAIN bcache : i = First(Hits(bno)) /\ bcache[i].phys_bno = bno
  <2>1. Hits(bno) \in SUBSET Nat /\ Hits(bno) # {}
    BY <1>1 DEF Hits, Hit
  <2>2. First(Hits(bno)) \in Hits(bno)
    BY <2>1, FirstLeast
  <2>. QED BY <2>2 DEF Hits
<1>3. /\ bcache' = [bcache EXCEPT ![i] = Promoted(bcache[i], level)]
      /\ held' = [held EXCEPT ![c] = [bno |-> bno, entry |-> i]]
      /\ UNCHANGED <<phys_blocksize, is_mounted>>
  BY <1>2 DEF Hit
<1>. DEFINE e == Promoted(bcache[i], level)
<1>4. /\ e \in Entry /\ e.phys_bno = bcache[i].phys_bno /\ e.data = bcache[i].data
      /\ e.refcount = bcache[i].refcount + 1
  <2>1. bcache[i] \in Entry
    BY <1>1, <1>2
  <2>. QED BY <2>1, PromotedFacts
<1>. HIDE DEF e
<1>5. /\ bcache' \in Seq(Entry) /\ DOMAIN bcache' = DOMAIN bcache
      /\ bcache'[i] = e /\ \A j \in DOMAIN bcache : j # i => bcache'[j] = bcache[j]
  BY <1>1, <1>2, <1>3, <1>4 DEF e
<1>6. \A j \in DOMAIN bcache : /\ bcache'[j].phys_bno = bcache[j].phys_bno
                               /\ bcache'[j].data = bcache[j].data
  BY <1>2, <1>4, <1>5
<1>7. i \in Nat \ {0}
  BY <1>1, <1>2
<1>8. CacheTypeOK'
  BY <1>3, <1>5, <1>7, HoldNotNull DEF CacheInv, CacheTypeOK
<1>9. NoBlockTwice'
  BY <1>5, <1>6 DEF CacheInv, NoBlockTwice
<1>10. CacheFresh'
  BY <1>3, <1>5, <1>6 DEF CacheInv, CacheFresh
<1>11. HeldStable'
  <2>1. SUFFICES ASSUME NEW d \in BlockUsers, held'[d] # NoHold
                 PROVE  /\ held'[d].entry \in DOMAIN bcache'
                        /\ bcache'[held'[d].entry].phys_bno = held'[d].bno
    BY DEF HeldStable
  <2>2. CASE d = c
    BY <1>1, <1>2, <1>3, <1>5, <1>6, <2>2
  <2>3. CASE d # c
    BY <1>1, <1>3, <1>5, <1>6, <2>1, <2>3 DEF CacheInv, HeldStable
  <2>. QED BY <2>2, <2>3
<1>12. /\ Cardinality(Holders(i)') = Cardinality(Holders(i)) + 1
       /\ \A j : j # i => Holders(j)' = Holders(j)
  BY <1>3, <1>7, HolderAdded DEF CacheInv
<1>13. \A j \in DOMAIN bcache : bcache[j].refcount \in Nat /\ Cardinality(Holders(j)) \in Nat
  <2>1. \A j \in DOMAIN bcache : bcache[j] \in Entry
    BY <1>1
  <2>. QED BY <2>1, HoldersFinite DEF Entry
<1>14. RefcountCovers'
  BY <1>2, <1>4, <1>5, <1>12, <1>13 DEF CacheInv, RefcountCovers
<1>15. RefcountExact => RefcountExact'
  BY <1>2, <1>4, <1>5, <1>12, <1>13 DEF RefcountExact
<1>. QED BY <1>8, <1>9, <1>10, <1>11, <1>14, <1>15 DEF CacheInv

\* A block is read, or fails to be read, into the entry of the victim.
LEMMA MissStep ==
  ASSUME CacheInv, NEW c \in BlockUsers, NEW bno \in Blocks, NEW level \in Levels,
         held[c] = NoHold, Miss(c, bno, level)
  PROVE  CacheInv' /\ (RefcountExact => RefcountExact')
<1>1. /\ bcache \in Seq(Entry) /\ Len(bcache) \in Nat /\ DOMAIN bcache = 1 .. Len(bcache)
      /\ held \in [BlockUsers -> Hold \cup {NoHold}]
  BY DEF CacheInv, CacheTypeOK
<1>2. PICK i \in Nat : i = Victim
  BY VictimFacts DEF CacheInv
<1>3. PICK cache : cache = Room(i)
  OBVIOUS
<1>4. i > 0 /\ cache \in Seq(Entry) /\ i \in DOMAIN cache /\ DOMAIN bcache \subseteq DOMAIN cache
  BY <1>2, <1>3, VictimFacts, RoomExtends DEF CacheInv
<1>5. \A j \in DOMAIN cache : cache[j] = IF j \in DOMAIN bcache THEN bcache[j] ELSE Empty
  BY <1>2, <1>3, VictimFacts, RoomExtends DEF CacheInv
<1>6. i \in DOMAIN bcache => bcache[i].phys_bno = INVALID_BNO \/ i \in Unheld
  BY <1>2, VictimFacts DEF CacheInv
<1>7. Cardinality(Holders(i)) = 0 /\ Holders(i) = {}
  BY <1>6, NoHolders DEF CacheInv
<1>8. \A j : j \notin DOMAIN bcache => Cardinality(Holders(j)) = 0
  BY NoHolders DEF CacheInv
<1>9. \A j \in DOMAIN bcache : bcache[j].phys_bno # bno
  BY DEF Miss, Hits
<1>10. /\ Empty.phys_bno = INVALID_BNO /\ Empty.refcount = 0 /\ bno # INVALID_BNO
  BY CacheAssumption DEF Empty
<1>11. \A d \in BlockUsers : held[d] # NoHold =>
         /\ held[d].entry \in DOMAIN bcache /\ held[d].entry # i
         /\ bcache[held[d].entry].phys_bno = held[d].bno
  BY <1>7 DEF CacheInv, HeldStable, Holders
<1>12. UNCHANGED <<phys_blocksize, is_mounted>>
  BY DEF Miss
<1>13. \A j \in DOMAIN cache : cache[j] \in Entry /\ cache[j].refcount \in Nat
  <2>1. \A j \in DOMAIN cache : cache[j] \in Entry
    BY <1>4
  <2>. QED BY <2>1 DEF Entry
<1>14. ASSUME NEW e \in Entry, bcache' = [cache EXCEPT ![i] = e],
              e.phys_bno # INVALID_BNO =>
                /\ e.phys_bno = bno
                /\ e.data = [read |-> "block", bno |-> bno, size |-> phys_blocksize]
       PROVE  /\ bcache' \in Seq(Entry) /\ DOMAIN bcache' = DOMAIN cache /\ bcache'[i] = e
              /\ \A j \in DOMAIN cache :
                   j # i => bcache'[j] = IF j \in DOMAIN bcache THEN bcache[j] ELSE Empty
              /\ NoBlockTwice' /\ CacheFresh'
  <2>1. bcache' \in Seq(Entry) /\ DOMAIN bcache' = DOMAIN cache /\ bcache'[i] = e
    BY <1>4, <1>14
  <2>2. \A j \in DOMAIN cache :
          j # i => bcache'[j] = IF j \in DOMAIN bcache THEN bcache[j] ELSE Empty
    BY <1>4, <1>5, <1>14
  <2>3. NoBlockTwice'
    BY <1>9, <1>10, <1>14, <2>1, <2>2 DEF CacheInv, NoBlockTwice
  <2>4. CacheFresh'
    BY <1>10, <1>12, <1>14, <2>1, <2>2 DEF CacheInv, CacheFresh
  <2>. QED BY <2>1, <2>2, <2>3, <2>4
<1>15. CASE /\ bcache' = [cache EXCEPT ![i] = Read(bno, level)]
            /\ held' = [held EXCEPT ![c] = [bno |-> bno, entry |-> i]]
  <2>. DEFINE e == Read(bno, level)
  <2>1. /\ e \in Entry /\ e.phys_bno = bno /\ e.refcount = 1
        /\ e.data = [read |-> "block", bno |-> bno, size |-> phys_blocksize]
    BY DEF CacheInv, CacheTypeOK, Read, Entry, Data
  <2>. HIDE DEF e
  <2>2. /\ bcache' \in Seq(Entry) /\ DOMAIN bcache' = DOMAIN cache /\ bcache'[i] = e
        /\ \A j \in DOMAIN cache :
             j # i => bcache'[j] = IF j \in DOMAIN bcache THEN bcache[j] ELSE Empty
        /\ NoBlockTwice' /\ CacheFresh'
    BY <1>14, <1>15, <2>1 DEF e
  <2>3. CacheTypeOK'
    BY <1>1, <1>4, <1>12, <1>15, <2>2, HoldNotNull DEF CacheInv, CacheTypeOK
  <2>4. HeldStable'
    <3>1. SUFFICES ASSUME NEW d \in BlockUsers, held'[d] # NoHold
                   PROVE  /\ held'[d].entry \in DOMAIN bcache'
                          /\ bcache'[held'[d].entry].phys_bno = held'[d].bno
      BY DEF HeldStable
    <3>2. CASE d = c
      BY <1>1, <1>4, <1>15, <2>1, <2>2, <3>2
    <3>3. CASE d # c
      BY <1>1, <1>4, <1>11, <1>15, <2>2, <3>1, <3>3
    <3>. QED BY <3>2, <3>3
  <2>5. /\ Cardinality(Holders(i)') = 1
        /\ \A j : j # i => Holders(j)' = Holders(j)
    <3>1. i \in Nat \ {0}
      BY <1>4
    <3>2. /\ Cardinality(Holders(i)') = Cardinality(Holders(i)) + 1
          /\ \A j : j # i => Holders(j)' = Holders(j)
      BY <1>15, <3>1, HolderAdded DEF CacheInv
    <3>. QED BY <1>7, <3>2
  <2>6. RefcountCovers'
    BY <1>4, <1>8, <1>10, <2>1, <2>2, <2>5 DEF CacheInv, RefcountCovers
  <2>7. RefcountExact => RefcountExact'
    BY <1>4, <1>8, <1>10, <2>1, <2>2, <2>5 DEF RefcountExact
  <2>. QED BY <2>2, <2>3, <2>4, <2>6, <2>7 DEF CacheInv
<1>16. CASE /\ \E e \in Failed(cache[i]) : bcache' = [cache EXCEPT ![i] = e]
            /\ UNCHANGED held
  <2>1. PICK e \in Failed(cache[i]) : bcache' = [cache EXCEPT ![i] = e]
    BY <1>16
  <2>2. e \in Entry /\ e.phys_bno = INVALID_BNO /\ e.refcount = cache[i].refcount
    BY <1>4, <1>13, FailedFacts
  <2>3. /\ bcache' \in Seq(Entry) /\ DOMAIN bcache' = DOMAIN cache /\ bcache'[i] = e
        /\ \A j \in DOMAIN cache :
             j # i => bcache'[j] = IF j \in DOMAIN bcache THEN bcache[j] ELSE Empty
        /\ NoBlockTwice' /\ CacheFresh'
    BY <1>14, <2>1, <2>2
  <2>4. CacheTypeOK'
    BY <1>12, <1>16, <2>3 DEF CacheInv, CacheTypeOK
  <2>5. HeldStable'
    <3>1. ASSUME NEW d \in BlockUsers, held[d] # NoHold
          PROVE  /\ held[d].entry \in DOMAIN bcache'
                 /\ bcache'[held[d].entry].phys_bno = held[d].bno
      BY <1>4, <1>11, <2>3, <3>1
    <3>. QED BY <1>16, <3>1 DEF HeldStable
  <2>6. \A j : Holders(j)' = Holders(j)
    BY <1>16 DEF Holders
  <2>7. RefcountCovers'
    BY <1>4, <1>5, <1>7, <1>8, <1>10, <1>13, <2>2, <2>3, <2>6 DEF CacheInv, RefcountCovers
  <2>8. RefcountExact => RefcountExact'
    BY <1>4, <1>5, <1>7, <1>8, <1>10, <2>2, <2>3, <2>6 DEF RefcountExact
  <2>. QED BY <2>3, <2>4, <2>5, <2>7, <2>8 DEF CacheInv
<1>. QED BY <1>2, <1>3, <1>15, <1>16 DEF Miss

\* One reference less for the block that c held.
LEMMA ReleaseBlockStep ==
  ASSUME CacheInv, NEW c \in BlockUsers, fsw_block_release(c)
  PROVE  CacheInv' /\ (RefcountExact => RefcountExact')
<1>1. /\ bcache \in Seq(Entry) /\ Len(bcache) \in Nat /\ DOMAIN bcache = 1 .. Len(bcache)
      /\ held \in [BlockUsers -> Hold \cup {NoHold}]
  BY DEF CacheInv, CacheTypeOK
<1>2. PICK b \in Blocks, k \in Nat \ {0} : held[c] # NoHold /\ held[c].bno = b /\ held[c].entry = k
  BY <1>1 DEF fsw_block_release, Hold
<1>3. k \in DOMAIN bcache /\ bcache[k].phys_bno = b /\ b # INVALID_BNO
  BY <1>2, CacheAssumption DEF CacheInv, HeldStable
<1>4. /\ bcache' = [j \in DOMAIN bcache |-> Released(bcache[j], b)]
      /\ held' = [held EXCEPT ![c] = NoHold]
      /\ UNCHANGED <<phys_blocksize, is_mounted>>
  BY <1>2 DEF fsw_block_release
<1>5. /\ Cardinality(Holders(k)') = Cardinality(Holders(k)) - 1
      /\ \A j : j # k => Holders(j)' = Holders(j)
  BY <1>2, <1>4, HolderRemoved DEF CacheInv
<1>6. \A j \in DOMAIN bcache : /\ bcache[j] \in Entry /\ bcache[j].refcount \in Nat
                               /\ Cardinality(Holders(j)) \in Nat
                               /\ bcache[j].refcount >= Cardinality(Holders(j))
  <2>1. \A j \in DOMAIN bcache : bcache[j] \in Entry
    BY <1>1
  <2>. QED BY <2>1, HoldersFinite DEF Entry, CacheInv, RefcountCovers
<1>7. Cardinality(Holders(k)) > 0 /\ bcache[k].refcount > 0
  <2>1. c \in Holders(k)
    BY <1>2 DEF Holders
  <2>2. Cardinality(Holders(k)) # 0
    BY <2>1, HoldersFinite, FS_EmptySet
  <2>. QED BY <1>3, <1>6, <2>2
<1>8. ASSUME NEW j \in DOMAIN bcache
      PROVE  /\ bcache'[j] \in Entry
             /\ bcache'[j].phys_bno = bcache[j].phys_bno /\ bcache'[j].data = bcache[j].data
             /\ bcache'[j].refcount = IF j = k THEN bcache[j].refcount - 1 ELSE bcache[j].refcount
  <2>1. bcache'[j] = Released(bcache[j], b)
    BY <1>4
  <2>2. CASE j = k
    BY <1>3, <1>6, <1>7, <2>1, <2>2, ReleasedFacts
  <2>3. CASE j # k
    <3>1. bcache[j].phys_bno # b
      BY <1>3, <2>3 DEF CacheInv, NoBlockTwice
    <3>. QED BY <1>6, <2>1, <2>3, <3>1 DEF Released
  <2>. QED BY <2>2, <2>3
<1>9. bcache' \in Seq(Entry) /\ DOMAIN bcache' = DOMAIN bcache
  BY <1>1, <1>4, <1>8
<1>10. CacheTypeOK'
  BY <1>1, <1>4, <1>9 DEF CacheInv, CacheTypeOK
<1>11. NoBlockTwice'
  BY <1>8, <1>9 DEF CacheInv, NoBlockTwice
<1>12. CacheFresh'
  BY <1>4, <1>8, <1>9 DEF CacheInv, CacheFresh
<1>13. HeldStable'
  <2>1. ASSUME NEW d \in BlockUsers, held'[d] # NoHold
        PROVE  /\ held'[d].entry \in DOMAIN bcache'
               /\ bcache'[held'[d].entry].phys_bno = held'[d].bno
    <3>1. held'[d] = held[d] /\ held[d] # NoHold
      BY <1>1, <1>4, <2>1
    <3>. QED BY <1>8, <1>9, <3>1 DEF CacheInv, HeldStable
  <2>. QED BY <2>1 DEF HeldStable
<1>14. RefcountCovers'
  BY <1>3, <1>5, <1>6, <1>8, <1>9 DEF RefcountCovers
<1>15. RefcountExact => RefcountExact'
  BY <1>3, <1>5, <1>6, <1>8, <1>9 DEF RefcountExact
<1>. QED BY <1>10, <1>11, <1>12, <1>13, <1>14, <1>15 DEF CacheInv

\* The cache is dropped while nobody holds a block of it.
LEMMA DropStep ==
  ASSUME CacheInv, NothingHeld, fsw_blockcache_free, UNCHANGED held,
         phys_blocksize' \in BlockSizes, is_mounted' \in BOOLEAN
  PROVE  CacheInv' /\ RefcountExact'
<1>1. bcache' = <<>> /\ DOMAIN bcache' = {}
  BY DEF fsw_blockcache_free
<1>2. CacheTypeOK'
  BY <1>1 DEF CacheInv, CacheTypeOK
<1>3. NoBlockTwice' /\ CacheFresh' /\ RefcountCovers' /\ RefcountExact'
  BY <1>1 DEF NoBlockTwice, CacheFresh, RefcountCovers, RefcountExact
<1>4. HeldStable'
  BY DEF NothingHeld, HeldStable
<1>. QED BY <1>2, <1>3, <1>4 DEF CacheInv

\* Mounting ends; what forgetful callers held stays counted.
LEMMA MountStep ==
  ASSUME CacheInv, fsw_mount
  PROVE  CacheInv' /\ (Forgetful = {} /\ RefcountExact => RefcountExact')
<1>1. held' = [c \in BlockUsers |-> NoHold] /\ UNCHANGED <<bcache, phys_blocksize>> /\ is_mounted' \in BOOLEAN
  BY DEF fsw_mount
<1>2. CacheTypeOK'
  BY <1>1 DEF CacheInv, CacheTypeOK
<1>3. NoBlockTwice' /\ CacheFresh'
  BY <1>1 DEF CacheInv, NoBlockTwice, CacheFresh
<1>4. HeldStable'
  BY <1>1 DEF HeldStable
<1>5. \A j : Holders(j)' = {}
  BY <1>1 DEF Holders
<1>6. RefcountCovers'
  <2>1. \A j \in DOMAIN bcache : bcache[j] \in Entry
    BY DEF CacheInv, CacheTypeOK
  <2>2. \A j \in DOMAIN bcache : bcache[j].refcount >= 0
    BY <2>1 DEF Entry
  <2>. QED BY <1>1, <1>5, <2>2, FS_EmptySet DEF RefcountCovers
<1>7. ASSUME Forgetful = {}, RefcountExact PROVE RefcountExact'
  <2>1. \A j : Holders(j) = {}
    BY <1>7 DEF fsw_mount, Holders
  <2>. QED BY <1>1, <1>5, <1>7, <2>1 DEF RefcountExact
<1>. QED BY <1>2, <1>3, <1>4, <1>6, <1>7 DEF CacheInv

LEMMA CappedInLevels ==
  ASSUME NEW level \in 0 .. MAX_CACHE_LEVEL + 1
  PROVE  CappedLevel(level) \in Levels
BY CacheAssumption DEF CappedLevel, Levels

\* Every step keeps the invariant, and the exact counts if no caller forgets.
LEMMA CacheInvStep ==
  ASSUME CacheInv, [CacheNext]_cacheVars
  PROVE  CacheInv' /\ (Forgetful = {} /\ RefcountExact => RefcountExact')
<1>1. ASSUME NEW c \in BlockUsers, NEW bno \in Blocks, NEW level \in 0 .. MAX_CACHE_LEVEL + 1,
             fsw_block_get(c, bno, level)
      PROVE  CacheInv' /\ (RefcountExact => RefcountExact')
  BY <1>1, CappedInLevels, HitStep, MissStep DEF fsw_block_get
<1>2. ASSUME NEW c \in BlockUsers, fsw_block_release(c)
      PROVE  CacheInv' /\ (RefcountExact => RefcountExact')
  BY <1>2, ReleaseBlockStep
<1>3. ASSUME NEW size \in BlockSizes, fsw_set_blocksize(size)
      PROVE  CacheInv' /\ RefcountExact'
  BY <1>3, DropStep DEF fsw_set_blocksize, CacheInv, CacheTypeOK
<1>4. CASE fsw_unmount
  BY <1>4, DropStep, CacheAssumption DEF fsw_unmount
<1>5. CASE UNCHANGED cacheVars
  BY <1>5 DEF cacheVars, CacheInv, CacheTypeOK, NoBlockTwice, CacheFresh, HeldStable, RefcountCovers,
             RefcountExact, Holders
<1>. QED BY <1>1, <1>2, <1>3, <1>4, <1>5, MountStep DEF CacheNext

-----------------------------------------------------------------------------
(* The theorems.                                                           *)

LEMMA CacheInvInit == CacheInit => CacheInv /\ RefcountExact
<1>. SUFFICES ASSUME CacheInit PROVE CacheInv /\ RefcountExact
  OBVIOUS
<1>1. bcache = <<>> /\ DOMAIN bcache = {}
  BY DEF CacheInit
<1>2. CacheTypeOK
  <2>1. FirstSize \in BlockSizes
    BY CacheAssumption
  <2>2. bcache \in Seq(Entry)
    BY <1>1
  <2>3. held \in [BlockUsers -> Hold \cup {NoHold}]
    BY DEF CacheInit
  <2>. QED BY <2>1, <2>2, <2>3 DEF CacheInit, CacheTypeOK
<1>3. NoBlockTwice /\ CacheFresh /\ RefcountCovers /\ RefcountExact
  BY <1>1 DEF NoBlockTwice, CacheFresh, RefcountCovers, RefcountExact
<1>4. HeldStable
  BY DEF CacheInit, HeldStable
<1>. QED BY <1>2, <1>3, <1>4 DEF CacheInv

\* The state of the block cache (fsw_core.c:181-301) keeps its types, levels
\* above the highest included.
THEOREM CacheTypeCorrect == CacheSpec => []CacheTypeOK
<1>1. CacheInit => CacheInv
  BY CacheInvInit
<1>2. CacheInv /\ [CacheNext]_cacheVars => CacheInv'
  BY CacheInvStep
<1>3. CacheInv => CacheTypeOK
  BY DEF CacheInv
<1>. QED BY <1>1, <1>2, <1>3, PTL DEF CacheSpec

\* A buffer that fsw_block_get() returned has its block until it is released,
\* whatever other callers get, and however reads fail; also when some callers
\* never release theirs.
THEOREM BufferStable == CacheSpec => [](HeldStable /\ RefcountCovers)
<1>1. CacheInit => CacheInv
  BY CacheInvInit
<1>2. CacheInv /\ [CacheNext]_cacheVars => CacheInv'
  BY CacheInvStep
<1>3. CacheInv => HeldStable /\ RefcountCovers
  BY DEF CacheInv
<1>. QED BY <1>1, <1>2, <1>3, PTL DEF CacheSpec

\* A block is in the cache once, with what was read for it.
THEOREM CacheCoherent == CacheSpec => [](NoBlockTwice /\ CacheFresh)
<1>1. CacheInit => CacheInv
  BY CacheInvInit
<1>2. CacheInv /\ [CacheNext]_cacheVars => CacheInv'
  BY CacheInvStep
<1>3. CacheInv => NoBlockTwice /\ CacheFresh
  BY DEF CacheInv
<1>. QED BY <1>1, <1>2, <1>3, PTL DEF CacheSpec

\* If every caller releases what it gets, the references count the holders.
THEOREM CountsExact ==
  ASSUME Forgetful = {}
  PROVE  CacheSpec => []RefcountExact
<1>1. CacheInit => CacheInv /\ RefcountExact
  BY CacheInvInit
<1>2. (CacheInv /\ RefcountExact) /\ [CacheNext]_cacheVars => (CacheInv /\ RefcountExact)'
  BY CacheInvStep
<1>. QED BY <1>1, <1>2, PTL DEF CacheSpec

\* What happens to an entry in one step: it keeps its block, or it is the
\* victim of a miss. The cache grows only in a miss.
LEMMA EntryStep ==
  ASSUME CacheInv, [CacheNext]_cacheVars, bcache' # <<>>
  PROVE  /\ \A i \in DOMAIN bcache : i # Victim => bcache'[i].phys_bno = bcache[i].phys_bno
         /\ Victim \in DOMAIN bcache => Len(bcache') = Len(bcache)
<1>1. bcache \in Seq(Entry) /\ Len(bcache) \in Nat /\ DOMAIN bcache = 1 .. Len(bcache)
  BY DEF CacheInv, CacheTypeOK
<1>2. ASSUME NEW c \in BlockUsers, NEW bno \in Blocks, NEW level \in Levels, Hit(c, bno, level)
      PROVE  /\ \A i \in DOMAIN bcache : bcache'[i].phys_bno = bcache[i].phys_bno
             /\ Len(bcache') = Len(bcache)
  <2>1. PICK i \in DOMAIN bcache : i = First(Hits(bno))
    <3>1. Hits(bno) \in SUBSET Nat /\ Hits(bno) # {}
      BY <1>1, <1>2 DEF Hits, Hit
    <3>2. First(Hits(bno)) \in Hits(bno)
      BY <3>1, FirstLeast
    <3>. QED BY <3>2 DEF Hits
  <2>2. bcache' = [bcache EXCEPT ![i] = Promoted(bcache[i], level)]
    BY <1>2, <2>1 DEF Hit
  <2>3. Promoted(bcache[i], level) \in Entry /\ Promoted(bcache[i], level).phys_bno = bcache[i].phys_bno
    <3>1. bcache[i] \in Entry
      BY <1>1, <2>1
    <3>. QED BY <3>1, PromotedFacts
  <2>. QED BY <1>1, <2>1, <2>2, <2>3
<1>3. ASSUME NEW c \in BlockUsers, NEW bno \in Blocks, NEW level \in Levels, Miss(c, bno, level)
      PROVE  /\ \A i \in DOMAIN bcache : i # Victim => bcache'[i].phys_bno = bcache[i].phys_bno
             /\ Victim \in DOMAIN bcache => Len(bcache') = Len(bcache)
  <2>1. PICK k \in Nat : k = Victim /\ k > 0 /\ k <= Len(bcache) + 1
    BY VictimFacts DEF CacheInv
  <2>2. PICK cache : cache = Room(k)
    OBVIOUS
  <2>3. PICK e : bcache' = [cache EXCEPT ![k] = e]
    BY <1>3, <2>1, <2>2 DEF Miss
  <2>4. /\ cache \in Seq(Entry) /\ DOMAIN bcache \subseteq DOMAIN cache
        /\ \A j \in DOMAIN bcache : cache[j] = bcache[j]
    BY <2>1, <2>2, RoomExtends DEF CacheInv
  <2>5. \A i \in DOMAIN bcache : i # k => bcache'[i] = bcache[i]
    BY <2>3, <2>4
  <2>6. ASSUME k \in DOMAIN bcache PROVE Len(bcache') = Len(bcache)
    <3>1. cache = bcache
      BY <1>1, <2>2, <2>6 DEF Room
    <3>. QED BY <1>1, <2>3, <3>1
  <2>. QED BY <2>1, <2>5, <2>6
<1>4. ASSUME NEW c \in BlockUsers, fsw_block_release(c)
      PROVE  /\ \A i \in DOMAIN bcache : bcache'[i].phys_bno = bcache[i].phys_bno
             /\ Len(bcache') = Len(bcache)
  <2>1. bcache' = [i \in DOMAIN bcache |-> Released(bcache[i], held[c].bno)]
    BY <1>4 DEF fsw_block_release
  <2>2. \A i \in DOMAIN bcache : bcache'[i].phys_bno = bcache[i].phys_bno
    BY <2>1 DEF Released
  <2>3. Len(bcache') = Len(bcache)
    BY <1>1, <2>1
  <2>. QED BY <2>2, <2>3
<1>5. CASE fsw_mount \/ UNCHANGED cacheVars
  BY <1>5 DEF fsw_mount, cacheVars
<1>6. ASSUME NEW c \in BlockUsers, NEW bno \in Blocks, NEW level \in 0 .. MAX_CACHE_LEVEL + 1,
             fsw_block_get(c, bno, level)
      PROVE  /\ \A i \in DOMAIN bcache : i # Victim => bcache'[i].phys_bno = bcache[i].phys_bno
             /\ Victim \in DOMAIN bcache => Len(bcache') = Len(bcache)
  BY <1>2, <1>3, <1>6, CappedInLevels DEF fsw_block_get
<1>. QED BY <1>4, <1>5, <1>6 DEF CacheNext, fsw_set_blocksize, fsw_unmount, fsw_blockcache_free

\* The cache grows only when every entry is held, and a block is discarded for
\* another only if it is unheld and of the lowest level of those unheld.
THEOREM DiscardsRight == CacheSpec => DiscardsLowestUnheld
<1>1. CacheInit => CacheInv
  BY CacheInvInit
<1>2. CacheInv /\ [CacheNext]_cacheVars => CacheInv'
  BY CacheInvStep
<1>3. ASSUME CacheInv, [CacheNext]_cacheVars
      PROVE  Len(bcache') > Len(bcache) => \A i \in DOMAIN bcache : bcache[i].refcount > 0
  <2>1. SUFFICES ASSUME Len(bcache') > Len(bcache) PROVE \A i \in DOMAIN bcache : bcache[i].refcount > 0
    OBVIOUS
  <2>2. Len(bcache) \in Nat /\ bcache' # <<>>
    BY <1>3, <2>1 DEF CacheInv, CacheTypeOK
  <2>3. Unheld = {}
    BY <1>3, <2>1, <2>2, EntryStep, VictimFacts DEF CacheInv
  <2>4. \A i \in DOMAIN bcache : bcache[i] \in Entry
    BY <1>3 DEF CacheInv, CacheTypeOK
  <2>. QED BY <2>3, <2>4 DEF Unheld, Entry
<1>4. ASSUME CacheInv, [CacheNext]_cacheVars, bcache' # <<>>, NEW i \in DOMAIN bcache,
             bcache[i].phys_bno # INVALID_BNO, bcache'[i].phys_bno # bcache[i].phys_bno
      PROVE  i \in Unheld /\ \A j \in Unheld : bcache[i].cache_level <= bcache[j].cache_level
  BY <1>4, EntryStep, VictimFacts DEF CacheInv
<1>5. CacheInv /\ [CacheNext]_cacheVars => [GrowsWhenHeld /\ LowLevelsPurgedFirst]_cacheVars
  <2>1. SUFFICES ASSUME CacheInv, [CacheNext]_cacheVars PROVE GrowsWhenHeld /\ LowLevelsPurgedFirst
    OBVIOUS
  <2>2. GrowsWhenHeld
    BY <2>1, <1>3 DEF GrowsWhenHeld
  <2>3. LowLevelsPurgedFirst
    BY <2>1, <1>4 DEF LowLevelsPurgedFirst
  <2>. QED BY <2>2, <2>3
<1>. QED BY <1>1, <1>2, <1>5, PTL DEF CacheSpec, DiscardsLowestUnheld

-----------------------------------------------------------------------------
(* FswDnode.                                                               *)

\* The stack begins with fsw_efi_dir_open(); the other calls are about a dnode.
FramesSound(s) ==
  \A i \in DOMAIN s : /\ s[i].fn = "dir_open" <=> i = 1
                      /\ s[i].fn # "dir_open" => s[i].dno # NULL

\* What is known of the calls in progress and of the result on its way.
CallsSound ==
  /\ FramesSound(frames)
  /\ status = "success" <=> out # NULL
  /\ frames = <<>> => status = "running"

\* A dnode that does not exist has no parent.
FreedHasNoParent == \A o \in Objects : refcount[o] = 0 => parent[o] = NULL

IInv == TypeOK /\ CallsSound /\ FreedHasNoParent /\ NotFreedInUse

\* What a step does to the counts: nothing is lost, or something may leak.
Balanced == \A d \in Objects : Surplus(d)' = Surplus(d)
Covered  == \A d \in Objects : Surplus(d)' >= Surplus(d)

HandleRefs(d)   == Cardinality({h \in Handles : handles[h] = d})
ParentRefs(d)   == Cardinality({c \in Objects : parent[c] = d})
FrameRefs(s, d) == Cardinality({i \in DOMAIN s : s[i].dno = d})

-----------------------------------------------------------------------------
(* Counting.                                                               *)

Places(X, f, d) == {x \in X : f[x] = d}

\* A changed value of a function is one place less for the old value and one
\* more for the new one.
LEMMA CountUpdated ==
  ASSUME NEW X, IsFiniteSet(X), NEW f, NEW x \in X, NEW d,
         NEW g, \A y \in X : y # x => g[y] = f[y]
  PROVE  Cardinality(Places(X, g, d))
           = Cardinality(Places(X, f, d)) - One(f[x] = d) + One(g[x] = d)
<1>. DEFINE rest == {y \in X \ {x} : f[y] = d}
            old  == Places(X, f, d)
            new  == Places(X, g, d)
<1>1. IsFiniteSet(rest) /\ IsFiniteSet(old) /\ Cardinality(rest) \in Nat
  <2>1. rest \subseteq X /\ old \subseteq X
    BY DEF Places
  <2>2. IsFiniteSet(rest) /\ IsFiniteSet(old)
    BY <2>1, FS_Subset
  <2>. QED BY <2>2, FS_CardinalityType
<1>2. Cardinality(rest \cup {x}) = Cardinality(rest) + 1
  <2>1. x \notin rest
    OBVIOUS
  <2>. HIDE DEF rest
  <2>. QED BY <1>1, <2>1, FS_AddElement
<1>3. old = IF f[x] = d THEN rest \cup {x} ELSE rest
  BY DEF Places
<1>4. new = IF g[x] = d THEN rest \cup {x} ELSE rest
  BY DEF Places
<1>. HIDE DEF rest, old, new
<1>5. Cardinality(old) = Cardinality(rest) + One(f[x] = d)
  BY <1>1, <1>2, <1>3 DEF One
<1>6. Cardinality(new) = Cardinality(rest) + One(g[x] = d)
  BY <1>1, <1>2, <1>4 DEF One
<1>7. One(f[x] = d) \in Nat /\ One(g[x] = d) \in Nat
  BY DEF One
<1>. QED BY <1>1, <1>5, <1>6, <1>7 DEF old, new

LEMMA FramesCounted ==
  ASSUME NEW s \in Seq(Frame), NEW d
  PROVE  FrameRefs(s, d) \in Nat
<1>1. {i \in DOMAIN s : s[i].dno = d} \subseteq 1 .. Len(s)
  OBVIOUS
<1>2. IsFiniteSet({i \in DOMAIN s : s[i].dno = d})
  BY <1>1, FS_Interval, FS_Subset
<1>. QED BY <1>2, FS_CardinalityType DEF FrameRefs

\* A call pushed on the stack adds a place.
LEMMA FramePushed ==
  ASSUME NEW s \in Seq(Frame), NEW f \in Frame, NEW d
  PROVE  /\ Append(s, f) \in Seq(Frame)
         /\ FrameRefs(Append(s, f), d) = FrameRefs(s, d) + One(f.dno = d)
<1>. DEFINE old == {i \in DOMAIN s : s[i].dno = d}
            n == Len(s) + 1
            new == {i \in DOMAIN Append(s, f) : Append(s, f)[i].dno = d}
<1>1. Append(s, f) \in Seq(Frame)
  OBVIOUS
<1>2. n \notin old
  OBVIOUS
<1>3. IsFiniteSet(old) /\ Cardinality(old) \in Nat
  <2>1. old \subseteq 1 .. Len(s)
    OBVIOUS
  <2>2. IsFiniteSet(old)
    BY <2>1, FS_Interval, FS_Subset
  <2>. QED BY <2>2, FS_CardinalityType
<1>4. new = IF f.dno = d THEN old \cup {n} ELSE old
  <2>1. /\ DOMAIN Append(s, f) = DOMAIN s \cup {n}
        /\ \A i \in DOMAIN s : Append(s, f)[i] = s[i]
        /\ Append(s, f)[n] = f
    OBVIOUS
  <2>2. n \notin DOMAIN s
    OBVIOUS
  <2>. HIDE DEF n
  <2>. QED BY <2>1, <2>2
<1>. HIDE DEF old, new, n
<1>5. Cardinality(old \cup {n}) = Cardinality(old) + 1
  BY <1>2, <1>3, FS_AddElement
<1>6. Cardinality(new) = Cardinality(old) + One(f.dno = d)
  BY <1>3, <1>4, <1>5 DEF One
<1>. QED BY <1>1, <1>6 DEF FrameRefs, old, new

\* The callers are the stack without its top.
LEMMA CallersFacts ==
  ASSUME TypeOK, frames # <<>>
  PROVE  /\ Callers \in Seq(Frame) /\ Top \in Frame
         /\ Len(frames) \in Nat \ {0} /\ Len(Callers) = Len(frames) - 1
         /\ \A i \in DOMAIN Callers : i \in DOMAIN frames /\ Callers[i] = frames[i]
         /\ frames = Append(Callers, Top)
<1>1. frames \in Seq(Frame) /\ frames # <<>> /\ Len(frames) \in Nat \ {0}
  BY DEF TypeOK
<1>2. Top \in Frame
  BY <1>1 DEF Top
<1>3. /\ Callers \in Seq(Frame) /\ Len(Callers) = Len(frames) - 1
      /\ \A i \in 1 .. Len(Callers) : Callers[i] = frames[i]
  <2>. DEFINE n == Len(frames) - 1
  <2>1. n \in Nat /\ \A i \in 1 .. n : frames[i] \in Frame
    BY <1>1
  <2>2. /\ SubSeq(frames, 1, n) \in Seq(Frame)
        /\ Len(SubSeq(frames, 1, n)) = IF 1 <= n THEN n - 1 + 1 ELSE 0
        /\ \A i \in 1 .. n - 1 + 1 : SubSeq(frames, 1, n)[i] = frames[1 + i - 1]
    <3>. HIDE DEF n
    <3>. QED BY <2>1, SubSeqProperties
  <2>3. Callers = SubSeq(frames, 1, n)
    BY DEF Callers
  <2>. HIDE DEF n
  <2>4. Len(Callers) = n
    BY <2>1, <2>2, <2>3
  <2>5. \A i \in 1 .. n : Callers[i] = frames[i]
    BY <2>1, <2>2, <2>3
  <2>. QED BY <2>2, <2>3, <2>4, <2>5 DEF n
<1>4. Append(Callers, Top) = frames
  <2>1. /\ Append(Callers, Top) \in Seq(Frame) /\ Len(Append(Callers, Top)) = Len(frames)
        /\ \A i \in 1 .. Len(frames) : Append(Callers, Top)[i] = frames[i]
    BY <1>1, <1>2, <1>3 DEF Top
  <2>. QED BY <1>1, <2>1, SeqEqual
<1>. QED BY <1>1, <1>2, <1>3, <1>4

LEMMA TopCounted ==
  ASSUME TypeOK, frames # <<>>, NEW d
  PROVE  /\ FrameRefs(Callers, d) \in Nat
         /\ FrameRefs(frames, d) = FrameRefs(Callers, d) + One(Top.dno = d)
<1>1. Callers \in Seq(Frame) /\ Top \in Frame /\ frames = Append(Callers, Top)
  BY CallersFacts
<1>. HIDE DEF Callers, Top
<1>2. FrameRefs(Append(Callers, Top), d) = FrameRefs(Callers, d) + One(Top.dno = d)
  BY <1>1, FramePushed
<1>. QED BY <1>1, <1>2, FramesCounted

-----------------------------------------------------------------------------
(* The stack of calls.                                                     *)

LEMMA FramesPushedSound ==
  ASSUME NEW s \in Seq(Frame), FramesSound(s), NEW f \in Frame,
         f.fn = "dir_open" <=> s = <<>>, f.fn # "dir_open" => f.dno # NULL
  PROVE  FramesSound(Append(s, f))
<1>1. /\ DOMAIN Append(s, f) = DOMAIN s \cup {Len(s) + 1}
      /\ \A i \in DOMAIN s : Append(s, f)[i] = s[i]
      /\ Append(s, f)[Len(s) + 1] = f
  OBVIOUS
<1>2. s = <<>> <=> Len(s) + 1 = 1
  OBVIOUS
<1>. QED BY <1>1, <1>2 DEF FramesSound

LEMMA CallersSound ==
  ASSUME TypeOK, CallsSound, frames # <<>>
  PROVE  /\ FramesSound(Callers)
         /\ Top.fn = "dir_open" <=> Callers = <<>>
         /\ Top.fn # "dir_open" => Top.dno # NULL
<1>1. Len(frames) \in DOMAIN frames /\ (Callers = <<>> <=> Len(frames) = 1)
  <2>1. Callers \in Seq(Frame) /\ Len(Callers) = Len(frames) - 1 /\ Len(frames) \in Nat \ {0}
    BY CallersFacts
  <2>2. Len(frames) \in DOMAIN frames
    BY <2>1 DEF TypeOK
  <2>. HIDE DEF Callers
  <2>. QED BY <2>1, <2>2
<1>2. FramesSound(Callers)
  BY CallersFacts DEF CallsSound, FramesSound
<1>3. FramesSound(frames)
  BY DEF CallsSound
<1>. QED BY <1>1, <1>2, <1>3 DEF FramesSound, Top

\* The running call goes on with another dnode.
LEMMA Continued ==
  ASSUME TypeOK, CallsSound, frames # <<>>, NEW f \in Frame,
         f.fn = Top.fn, f.dno # NULL, Continue(f)
  PROVE  /\ frames' \in Seq(Frame) /\ CallsSound'
         /\ \A d : FrameRefs(frames', d)
                     = FrameRefs(frames, d) - One(Top.dno = d) + One(f.dno = d)
<1>1. frames' = Append(Callers, f) /\ status' = "running" /\ out' = NULL
  BY DEF Continue
<1>2. Callers \in Seq(Frame) /\ FramesSound(Callers) /\ (f.fn = "dir_open" <=> Callers = <<>>)
  BY CallersFacts, CallersSound
<1>. HIDE DEF Callers, Top
<1>3. FramesSound(frames')
  BY <1>1, <1>2, FramesPushedSound
<1>4. CallsSound'
  BY <1>1, <1>2, <1>3 DEF CallsSound
<1>5. ASSUME NEW d
      PROVE  FrameRefs(frames', d) = FrameRefs(frames, d) - One(Top.dno = d) + One(f.dno = d)
  <2>1. FrameRefs(frames', d) = FrameRefs(Callers, d) + One(f.dno = d)
    BY <1>1, <1>2, FramePushed
  <2>. QED BY <2>1, TopCounted DEF One
<1>. QED BY <1>1, <1>2, <1>4, <1>5, FramePushed

\* The running call calls another function.
LEMMA Called ==
  ASSUME TypeOK, CallsSound, frames # <<>>, NEW f \in Frame, NEW g \in Frame,
         f.fn = Top.fn, f.dno # NULL, g.fn # "dir_open", g.dno # NULL, Call(f, g)
  PROVE  /\ frames' \in Seq(Frame) /\ CallsSound'
         /\ \A d : FrameRefs(frames', d) = FrameRefs(frames, d) - One(Top.dno = d)
                                             + One(f.dno = d) + One(g.dno = d)
<1>. DEFINE s == Append(Callers, f)
<1>1. frames' = Append(s, g) /\ status' = "running" /\ out' = NULL
  BY DEF Call
<1>2. Callers \in Seq(Frame) /\ FramesSound(Callers) /\ (f.fn = "dir_open" <=> Callers = <<>>)
  BY CallersFacts, CallersSound
<1>. HIDE DEF Callers, Top
<1>3. s \in Seq(Frame) /\ FramesSound(s) /\ s # <<>>
  BY <1>2, FramesPushedSound
<1>4. \A d : FrameRefs(s, d) = FrameRefs(Callers, d) + One(f.dno = d)
  BY <1>2, FramePushed
<1>. HIDE DEF s
<1>5. FramesSound(frames')
  BY <1>1, <1>3, FramesPushedSound
<1>6. CallsSound'
  BY <1>1, <1>3, <1>5 DEF CallsSound
<1>7. ASSUME NEW d
      PROVE  FrameRefs(frames', d) = FrameRefs(frames, d) - One(Top.dno = d)
                                       + One(f.dno = d) + One(g.dno = d)
  <2>1. FrameRefs(frames', d) = FrameRefs(s, d) + One(g.dno = d)
    BY <1>1, <1>3, FramePushed
  <2>2. FrameRefs(s, d) = FrameRefs(Callers, d) + One(f.dno = d)
    BY <1>4
  <2>. QED BY <2>1, <2>2, TopCounted DEF One
<1>. QED BY <1>1, <1>3, <1>6, <1>7, FramePushed

\* The running call returns to the one that called it.
LEMMA Returned ==
  ASSUME TypeOK, CallsSound, frames # <<>>, Top.fn # "dir_open",
         \/ Succeed(Top.dno)
         \/ Fail
  PROVE  /\ frames' \in Seq(Frame) /\ CallsSound'
         /\ \A d : FrameRefs(frames', d) = FrameRefs(frames, d) - One(Top.dno = d)
<1>1. frames' = Callers /\ status' \in {"success", "error"}
  BY DEF Succeed, Fail
<1>2. Callers \in Seq(Frame) /\ FramesSound(Callers) /\ Callers # <<>> /\ Top.dno # NULL
  BY CallersFacts, CallersSound
<1>3. status' = "success" <=> out' # NULL
  BY <1>2 DEF Succeed, Fail
<1>. HIDE DEF Callers, Top
<1>4. CallsSound'
  BY <1>1, <1>2, <1>3 DEF CallsSound
<1>. QED BY <1>1, <1>2, <1>4, TopCounted DEF One

\* fsw_efi_dir_open() returns.
LEMMA Left ==
  ASSUME TypeOK, CallsSound, frames # <<>>, Top.fn = "dir_open", Leave
  PROVE  /\ frames' \in Seq(Frame) /\ CallsSound'
         /\ \A d : FrameRefs(frames', d) = FrameRefs(frames, d) - One(Top.dno = d)
<1>1. frames' = <<>> /\ status' = "running" /\ out' = NULL
  BY DEF Leave
<1>2. Callers = <<>>
  BY CallersSound
<1>3. CallsSound' /\ frames' \in Seq(Frame)
  BY <1>1 DEF CallsSound, FramesSound
<1>. HIDE DEF Callers, Top
<1>. QED BY <1>1, <1>2, <1>3, TopCounted DEF One

-----------------------------------------------------------------------------
(* Counts of references and pointers.                                      *)

LEMMA TopFacts ==
  ASSUME TypeOK, CallsSound, frames # <<>>
  PROVE  /\ Top \in Frame /\ Top.fn \in {"dir_open", "lookup_path", "resolve"}
         /\ Top.dno \in Objects \cup {NULL} /\ Top.rest \in Seq(STRING) /\ Top.first \in BOOLEAN
         /\ Top.fn # "dir_open" => Top.dno \in Objects
<1>1. Top \in Frame
  BY CallersFacts
<1>2. Top.fn # "dir_open" => Top.dno # NULL
  BY CallersSound
<1>. HIDE DEF Top
<1>. QED BY <1>1, <1>2 DEF Frame

LEMMA SubsetCounted ==
  ASSUME NEW X, IsFiniteSet(X), NEW S \in SUBSET X
  PROVE  Cardinality(S) \in Nat /\ (Cardinality(S) = 0 => S = {})
<1>1. IsFiniteSet(S)
  BY FS_Subset
<1>. QED BY <1>1, FS_EmptySet, FS_CardinalityType

LEMMA RefsFinite ==
  ASSUME TypeOK, NEW d
  PROVE  /\ HandleRefs(d) \in Nat /\ ParentRefs(d) \in Nat /\ FrameRefs(frames, d) \in Nat
         /\ HandleRefs(d) = 0 => \A h \in Handles : handles[h] # d
         /\ ParentRefs(d) = 0 => \A c \in Objects : parent[c] # d
<1>. DEFINE opened   == {h \in Handles : handles[h] = d}
            children == {c \in Objects : parent[c] = d}
<1>1. opened \in SUBSET Handles /\ children \in SUBSET Objects
  OBVIOUS
<1>2. /\ opened = {} => \A h \in Handles : handles[h] # d
      /\ children = {} => \A c \in Objects : parent[c] # d
  OBVIOUS
<1>3. HandleRefs(d) = Cardinality(opened) /\ ParentRefs(d) = Cardinality(children)
  BY DEF HandleRefs, ParentRefs
<1>4. FrameRefs(frames, d) \in Nat
  BY FramesCounted DEF TypeOK
<1>. HIDE DEF opened, children
<1>5. /\ Cardinality(opened) \in Nat /\ (Cardinality(opened) = 0 => opened = {})
      /\ Cardinality(children) \in Nat /\ (Cardinality(children) = 0 => children = {})
  BY <1>1, TreeAssumption, SubsetCounted
<1>. QED BY <1>2, <1>3, <1>4, <1>5

LEMMA RefsFiniteNext ==
  ASSUME TypeOK', NEW d
  PROVE  HandleRefs(d)' \in Nat /\ ParentRefs(d)' \in Nat /\ FrameRefs(frames', d) \in Nat
<1>. DEFINE opened   == {h \in Handles : handles'[h] = d}
            children == {c \in Objects : parent'[c] = d}
<1>1. opened \in SUBSET Handles /\ children \in SUBSET Objects
  OBVIOUS
<1>2. HandleRefs(d)' = Cardinality(opened) /\ ParentRefs(d)' = Cardinality(children)
  BY DEF HandleRefs, ParentRefs
<1>3. FrameRefs(frames', d) \in Nat
  BY FramesCounted DEF TypeOK
<1>. HIDE DEF opened, children
<1>4. Cardinality(opened) \in Nat /\ Cardinality(children) \in Nat
  BY <1>1, TreeAssumption, SubsetCounted
<1>. QED BY <1>2, <1>3, <1>4

LEMMA SurplusIs ==
  ASSUME TypeOK, NEW d \in Objects
  PROVE  /\ refcount[d] \in Nat
         /\ References(d) \in Nat
         /\ Surplus(d) = refcount[d] - References(d)
         /\ References(d) = (One(mounted /\ d = Root) + HandleRefs(d) + ParentRefs(d))
                              + (One(out = d) + One(releasing = d) + FrameRefs(frames, d))
<1>1. References(d) = (One(mounted /\ d = Root) + HandleRefs(d) + ParentRefs(d))
                        + (One(out = d) + One(releasing = d) + FrameRefs(frames, d))
  BY DEF References, HandleRefs, ParentRefs, FrameRefs
<1>2. One(mounted /\ d = Root) + HandleRefs(d) + ParentRefs(d) \in Nat
  BY RefsFinite DEF One
<1>3. One(out = d) + One(releasing = d) + FrameRefs(frames, d) \in Nat
  BY RefsFinite DEF One
<1>4. References(d) \in Nat
  BY <1>1, <1>2, <1>3
<1>. QED BY <1>1, <1>4 DEF TypeOK, Surplus

LEMMA SurplusIsNext ==
  ASSUME TypeOK', NEW d \in Objects
  PROVE  /\ refcount'[d] \in Nat
         /\ References(d)' \in Nat
         /\ Surplus(d)' = refcount'[d] - References(d)'
         /\ References(d)' = (One(mounted' /\ d = Root) + HandleRefs(d)' + ParentRefs(d)')
                               + (One(out' = d) + One(releasing' = d) + FrameRefs(frames', d))
<1>1. References(d)' = (One(mounted' /\ d = Root) + HandleRefs(d)' + ParentRefs(d)')
                         + (One(out' = d) + One(releasing' = d) + FrameRefs(frames', d))
  BY DEF References, HandleRefs, ParentRefs, FrameRefs
<1>2. One(mounted' /\ d = Root) + HandleRefs(d)' + ParentRefs(d)' \in Nat
  BY RefsFiniteNext DEF One
<1>3. One(out' = d) + One(releasing' = d) + FrameRefs(frames', d) \in Nat
  BY RefsFiniteNext DEF One
<1>4. References(d)' \in Nat
  BY <1>1, <1>2, <1>3
<1>. QED BY <1>1, <1>4 DEF TypeOK, Surplus

\* A dnode that something points to exists.
LEMMA PointedToExists ==
  ASSUME TypeOK, NotFreedInUse, NEW d \in Objects,
         \/ mounted /\ d = Root
         \/ out = d
         \/ releasing = d
         \/ \E h \in Handles : handles[h] = d
         \/ \E c \in Objects : parent[c] = d
         \/ frames # <<>> /\ Top.dno = d
  PROVE  refcount[d] \in Nat \ {0}
<1>1. /\ HandleRefs(d) \in Nat /\ ParentRefs(d) \in Nat /\ FrameRefs(frames, d) \in Nat
      /\ HandleRefs(d) = 0 => \A h \in Handles : handles[h] # d
      /\ ParentRefs(d) = 0 => \A c \in Objects : parent[c] # d
      /\ frames # <<>> /\ Top.dno = d => FrameRefs(frames, d) > 0
  BY RefsFinite, TopCounted DEF One
<1>. DEFINE kept  == One(mounted /\ d = Root) + HandleRefs(d) + ParentRefs(d)
            calls == One(out = d) + One(releasing = d) + FrameRefs(frames, d)
<1>2. kept \in Nat /\ calls \in Nat
  BY <1>1 DEF One
<1>3. CASE (mounted /\ d = Root) \/ (\E h \in Handles : handles[h] = d)
             \/ (\E c \in Objects : parent[c] = d)
  <2>1. kept # 0
    BY <1>1, <1>3 DEF One
  <2>2. References(d) = kept + calls
    BY SurplusIs
  <2>. HIDE DEF kept, calls
  <2>. QED BY <1>2, <2>1, <2>2, SurplusIs DEF NotFreedInUse
<1>4. CASE out = d \/ releasing = d \/ (frames # <<>> /\ Top.dno = d)
  <2>1. calls # 0
    BY <1>1, <1>4 DEF One
  <2>2. References(d) = kept + calls
    BY SurplusIs
  <2>. HIDE DEF kept, calls
  <2>. QED BY <1>2, <2>1, <2>2, SurplusIs DEF NotFreedInUse
<1>. QED BY <1>3, <1>4

\* A step that loses no reference keeps the invariant.
LEMMA Kept ==
  ASSUME IInv, TypeOK', CallsSound', FreedHasNoParent', Covered
  PROVE  IInv'
<1>1. ASSUME NEW d \in Objects PROVE refcount'[d] >= References(d)'
  <2>1. refcount[d] >= References(d) /\ Surplus(d)' >= Surplus(d)
    BY DEF IInv, NotFreedInUse, Covered
  <2>2. refcount[d] \in Nat /\ References(d) \in Nat /\ Surplus(d) = refcount[d] - References(d)
    BY SurplusIs DEF IInv
  <2>3. refcount'[d] \in Nat /\ References(d)' \in Nat
        /\ Surplus(d)' = refcount'[d] - References(d)'
    BY SurplusIsNext
  <2>. QED BY <2>1, <2>2, <2>3
<1>. QED BY <1>1 DEF IInv, NotFreedInUse

LEMMA BalancedCovers ==
  ASSUME TypeOK, Balanced
  PROVE  Covered
BY SurplusIs DEF Balanced, Covered

-----------------------------------------------------------------------------
(* Steps that several actions have in common.                              *)

\* fsw_dnode_retain().
LEMMA RetainedFacts ==
  ASSUME TypeOK, NEW x \in Objects
  PROVE  /\ Retained(x) \in [Objects -> Nat]
         /\ \A d \in Objects : Retained(x)[d] = refcount[d] + One(x = d)
         /\ \A d \in Objects : Retained(x)[d] = 0 => refcount[d] = 0
         /\ \A d \in Objects : Retained(x)[d] >= refcount[d]
         /\ \A d \in Objects : refcount[d] >= refcount[d]
BY DEF TypeOK, Retained, One

LEMMA OneType ==
  ASSUME NEW b
  PROVE  One(b) \in {0, 1}
BY DEF One

\* A step on the stack of calls alone.
LEMMA StackBalance ==
  ASSUME TypeOK, TypeOK', NEW d \in Objects, UNCHANGED <<parent, handles, mounted>>,
         refcount'[d] + (One(out = d) + One(releasing = d) + FrameRefs(frames, d))
           = refcount[d] + (One(out' = d) + One(releasing' = d) + FrameRefs(frames', d))
  PROVE  Surplus(d)' = Surplus(d)
<1>. DEFINE kept == One(mounted /\ d = Root) + HandleRefs(d) + ParentRefs(d)
            old  == One(out = d) + One(releasing = d) + FrameRefs(frames, d)
            new  == One(out' = d) + One(releasing' = d) + FrameRefs(frames', d)
<1>1. One(mounted' /\ d = Root) + HandleRefs(d)' + ParentRefs(d)' = kept
  BY DEF HandleRefs, ParentRefs
<1>2. References(d) = kept + old /\ References(d)' = kept + new
  BY <1>1, SurplusIs, SurplusIsNext
<1>3. kept \in Nat /\ old \in Nat /\ new \in Nat
  BY RefsFinite, RefsFiniteNext DEF One
<1>4. refcount'[d] + old = refcount[d] + new
  OBVIOUS
<1>. HIDE DEF kept, old, new
<1>. QED BY <1>2, <1>3, <1>4, SurplusIs, SurplusIsNext

LEMMA StackCovers ==
  ASSUME TypeOK, TypeOK', NEW d \in Objects, UNCHANGED <<parent, handles, mounted>>,
         refcount'[d] + (One(out = d) + One(releasing = d) + FrameRefs(frames, d))
           >= refcount[d] + (One(out' = d) + One(releasing' = d) + FrameRefs(frames', d))
  PROVE  Surplus(d)' >= Surplus(d)
<1>. DEFINE kept == One(mounted /\ d = Root) + HandleRefs(d) + ParentRefs(d)
            old  == One(out = d) + One(releasing = d) + FrameRefs(frames, d)
            new  == One(out' = d) + One(releasing' = d) + FrameRefs(frames', d)
<1>1. One(mounted' /\ d = Root) + HandleRefs(d)' + ParentRefs(d)' = kept
  BY DEF HandleRefs, ParentRefs
<1>2. References(d) = kept + old /\ References(d)' = kept + new
  BY <1>1, SurplusIs, SurplusIsNext
<1>3. kept \in Nat /\ old \in Nat /\ new \in Nat
  BY RefsFinite, RefsFiniteNext DEF One
<1>4. refcount'[d] + old >= refcount[d] + new
  OBVIOUS
<1>. HIDE DEF kept, old, new
<1>. QED BY <1>2, <1>3, <1>4, SurplusIs, SurplusIsNext

\* Any other step.
LEMMA FullBalance ==
  ASSUME TypeOK, TypeOK', NEW d \in Objects,
         refcount'[d] + (One(mounted /\ d = Root) + HandleRefs(d) + ParentRefs(d))
             + (One(out = d) + One(releasing = d) + FrameRefs(frames, d))
           = refcount[d] + (One(mounted' /\ d = Root) + HandleRefs(d)' + ParentRefs(d)')
               + (One(out' = d) + One(releasing' = d) + FrameRefs(frames', d))
  PROVE  Surplus(d)' = Surplus(d)
<1>. DEFINE kept  == One(mounted /\ d = Root) + HandleRefs(d) + ParentRefs(d)
            calls == One(out = d) + One(releasing = d) + FrameRefs(frames, d)
            keptNext  == One(mounted' /\ d = Root) + HandleRefs(d)' + ParentRefs(d)'
            callsNext == One(out' = d) + One(releasing' = d) + FrameRefs(frames', d)
<1>1. References(d) = kept + calls /\ References(d)' = keptNext + callsNext
  BY SurplusIs, SurplusIsNext
<1>2. kept \in Nat /\ calls \in Nat /\ keptNext \in Nat /\ callsNext \in Nat
  BY RefsFinite, RefsFiniteNext DEF One
<1>3. refcount'[d] + kept + calls = refcount[d] + keptNext + callsNext
  OBVIOUS
<1>. HIDE DEF kept, calls, keptNext, callsNext
<1>4. /\ refcount[d] \in Nat /\ Surplus(d) = refcount[d] - References(d)
      /\ refcount'[d] \in Nat /\ Surplus(d)' = refcount'[d] - References(d)'
  BY SurplusIs, SurplusIsNext
<1>5. refcount'[d] - (keptNext + callsNext) = refcount[d] - (kept + calls)
  BY <1>2, <1>3, <1>4
<1>. QED BY <1>1, <1>4, <1>5

\* A pointer of a file handle, or to a parent, changes.
LEMMA HandleChanged ==
  ASSUME NEW h \in Handles, \A y \in Handles : y # h => handles'[y] = handles[y], NEW d
  PROVE  HandleRefs(d)' = HandleRefs(d) - One(handles[h] = d) + One(handles'[h] = d)
<1>1. Cardinality(Places(Handles, handles', d))
        = Cardinality(Places(Handles, handles, d)) - One(handles[h] = d) + One(handles'[h] = d)
  BY TreeAssumption, CountUpdated
<1>2. /\ HandleRefs(d) = Cardinality(Places(Handles, handles, d))
      /\ HandleRefs(d)' = Cardinality(Places(Handles, handles', d))
  BY DEF HandleRefs, Places
<1>. QED BY <1>1, <1>2

LEMMA ParentChanged ==
  ASSUME NEW o \in Objects, \A y \in Objects : y # o => parent'[y] = parent[y], NEW d
  PROVE  ParentRefs(d)' = ParentRefs(d) - One(parent[o] = d) + One(parent'[o] = d)
<1>1. Cardinality(Places(Objects, parent', d))
        = Cardinality(Places(Objects, parent, d)) - One(parent[o] = d) + One(parent'[o] = d)
  BY TreeAssumption, CountUpdated
<1>2. /\ ParentRefs(d) = Cardinality(Places(Objects, parent, d))
      /\ ParentRefs(d)' = Cardinality(Places(Objects, parent', d))
  BY DEF ParentRefs, Places
<1>. QED BY <1>1, <1>2

\* A call without counting: the new dnode is already counted as the result.
LEMMA ReplaceStep ==
  ASSUME IInv, frames # <<>>, releasing = NULL, out # NULL,
         NEW f \in Frame, f.fn = Top.fn, f.dno = out,
         Continue(f), releasing' = Top.dno,
         UNCHANGED <<refcount, parent, handles, mounted>>
  PROVE  IInv' /\ Balanced
<1>1. /\ frames' \in Seq(Frame) /\ CallsSound'
      /\ \A d : FrameRefs(frames', d) = FrameRefs(frames, d) - One(Top.dno = d) + One(f.dno = d)
  BY Continued DEF IInv
<1>2. out' = NULL /\ status' = "running"
  BY DEF Continue
<1>3. TypeOK'
  BY <1>1, <1>2, TopFacts DEF IInv, TypeOK
<1>4. FreedHasNoParent'
  BY DEF IInv, FreedHasNoParent
<1>5. ASSUME NEW d \in Objects PROVE Surplus(d)' = Surplus(d)
  <2>1. FrameRefs(frames, d) \in Nat /\ d # NULL
    BY RefsFinite, TreeAssumption DEF IInv
  <2>2. FrameRefs(frames', d) = FrameRefs(frames, d) - One(Top.dno = d) + One(out = d)
    BY <1>1
  <2>3. refcount'[d] = refcount[d] /\ refcount[d] \in Nat
    BY SurplusIs DEF IInv
  <2>4. refcount'[d] + (One(out = d) + One(releasing = d) + FrameRefs(frames, d))
          = refcount[d] + (One(out' = d) + One(releasing' = d) + FrameRefs(frames', d))
    BY <1>2, <2>1, <2>2, <2>3 DEF One
  <2>. QED BY <1>3, <2>4, StackBalance DEF IInv
<1>. QED BY <1>1, <1>3, <1>4, <1>5, Kept, BalancedCovers DEF Balanced, IInv

\* The next dnode is retained and becomes the one of the running call.
LEMMA AdvanceStep ==
  ASSUME IInv, frames # <<>>, releasing = NULL, out = NULL,
         NEW f \in Frame, f.fn = Top.fn, f.dno \in Objects,
         Continue(f), releasing' = Top.dno, refcount' = Retained(f.dno),
         UNCHANGED <<parent, handles, mounted>>
  PROVE  IInv' /\ Balanced
<1>1. /\ frames' \in Seq(Frame) /\ CallsSound'
      /\ \A d : FrameRefs(frames', d) = FrameRefs(frames, d) - One(Top.dno = d) + One(f.dno = d)
  BY Continued, TreeAssumption DEF IInv
<1>2. out' = NULL /\ status' = "running"
  BY DEF Continue
<1>3. /\ refcount' \in [Objects -> Nat]
      /\ \A d \in Objects : refcount'[d] = refcount[d] + One(f.dno = d)
      /\ \A d \in Objects : refcount'[d] = 0 => refcount[d] = 0
  BY RetainedFacts DEF IInv
<1>4. TypeOK'
  BY <1>1, <1>2, <1>3, TopFacts DEF IInv, TypeOK
<1>5. FreedHasNoParent'
  BY <1>3 DEF IInv, FreedHasNoParent
<1>6. ASSUME NEW d \in Objects PROVE Surplus(d)' = Surplus(d)
  <2>1. FrameRefs(frames, d) \in Nat /\ d # NULL
    BY RefsFinite, TreeAssumption DEF IInv
  <2>2. FrameRefs(frames', d) = FrameRefs(frames, d) - One(Top.dno = d) + One(f.dno = d)
    BY <1>1
  <2>3. refcount'[d] = refcount[d] + One(f.dno = d) /\ refcount[d] \in Nat
    BY <1>3, SurplusIs DEF IInv
  <2>4. refcount'[d] + (One(out = d) + One(releasing = d) + FrameRefs(frames, d))
          = refcount[d] + (One(out' = d) + One(releasing' = d) + FrameRefs(frames', d))
    BY <1>2, <2>1, <2>2, <2>3 DEF One
  <2>. QED BY <1>4, <2>4, StackBalance DEF IInv
<1>. QED BY <1>1, <1>4, <1>5, <1>6, Kept, BalancedCovers DEF Balanced, IInv

\* The running call returns; a result it hands on is the dnode it held, without
\* one the dnode is released.
LEMMA ReturnStep ==
  ASSUME IInv, frames # <<>>, releasing = NULL, out = NULL, Top.fn # "dir_open",
         \/ Succeed(Top.dno) /\ releasing' = NULL
         \/ Fail /\ releasing' = Top.dno,
         UNCHANGED <<refcount, parent, handles, mounted>>
  PROVE  IInv' /\ Balanced
<1>1. /\ frames' \in Seq(Frame) /\ CallsSound'
      /\ \A d : FrameRefs(frames', d) = FrameRefs(frames, d) - One(Top.dno = d)
  BY Returned DEF IInv
<1>2. /\ status' \in {"success", "error"}
      /\ \/ out' = Top.dno /\ releasing' = NULL
         \/ out' = NULL /\ releasing' = Top.dno
  BY DEF Succeed, Fail
<1>3. TypeOK'
  BY <1>1, <1>2, TopFacts DEF IInv, TypeOK
<1>4. FreedHasNoParent'
  BY DEF IInv, FreedHasNoParent
<1>5. ASSUME NEW d \in Objects PROVE Surplus(d)' = Surplus(d)
  <2>1. FrameRefs(frames, d) \in Nat /\ d # NULL
    BY RefsFinite, TreeAssumption DEF IInv
  <2>2. FrameRefs(frames', d) = FrameRefs(frames, d) - One(Top.dno = d)
    BY <1>1
  <2>3. refcount'[d] = refcount[d] /\ refcount[d] \in Nat
    BY SurplusIs DEF IInv
  <2>4. refcount'[d] + (One(out = d) + One(releasing = d) + FrameRefs(frames, d))
          = refcount[d] + (One(out' = d) + One(releasing' = d) + FrameRefs(frames', d))
    BY <1>2, <2>1, <2>2, <2>3 DEF One
  <2>. QED BY <1>3, <2>4, StackBalance DEF IInv
<1>. QED BY <1>1, <1>3, <1>4, <1>5, Kept, BalancedCovers DEF Balanced, IInv

\* A dnode is retained for a call; the caller keeps its own, or, in
\* fsw_efi_dir_open(), takes the result of the call before.
LEMMA CallStep ==
  ASSUME IInv, frames # <<>>, releasing = NULL, releasing' = NULL,
         NEW f \in Frame, f.fn = Top.fn, f.dno # NULL,
         \/ Top.dno = f.dno /\ out = NULL
         \/ Top.dno = NULL /\ out = f.dno,
         NEW g \in Frame, g.fn # "dir_open", g.dno \in Objects,
         Call(f, g), refcount' = Retained(g.dno),
         UNCHANGED <<parent, handles, mounted>>
  PROVE  IInv' /\ Balanced
<1>1. /\ frames' \in Seq(Frame) /\ CallsSound'
      /\ \A d : FrameRefs(frames', d) = FrameRefs(frames, d) - One(Top.dno = d)
                                          + One(f.dno = d) + One(g.dno = d)
  BY Called, TreeAssumption DEF IInv
<1>2. out' = NULL /\ status' = "running"
  BY DEF Call
<1>3. /\ refcount' \in [Objects -> Nat]
      /\ \A d \in Objects : refcount'[d] = refcount[d] + One(g.dno = d)
      /\ \A d \in Objects : refcount'[d] = 0 => refcount[d] = 0
  BY RetainedFacts DEF IInv
<1>4. TypeOK'
  BY <1>1, <1>2, <1>3 DEF IInv, TypeOK
<1>5. FreedHasNoParent'
  BY <1>3 DEF IInv, FreedHasNoParent
<1>6. ASSUME NEW d \in Objects PROVE Surplus(d)' = Surplus(d)
  <2>1. FrameRefs(frames, d) \in Nat /\ d # NULL
    BY RefsFinite, TreeAssumption DEF IInv
  <2>2. FrameRefs(frames', d) = FrameRefs(frames, d) - One(Top.dno = d)
                                  + One(f.dno = d) + One(g.dno = d)
    BY <1>1
  <2>3. refcount'[d] = refcount[d] + One(g.dno = d) /\ refcount[d] \in Nat
    BY <1>3, SurplusIs DEF IInv
  <2>4. refcount'[d] + (One(out = d) + One(releasing = d) + FrameRefs(frames, d))
          = refcount[d] + (One(out' = d) + One(releasing' = d) + FrameRefs(frames', d))
    BY <1>2, <2>1, <2>2, <2>3, SMTT(40) DEF One
  <2>. QED BY <1>4, <2>4, StackBalance DEF IInv
<1>. QED BY <1>1, <1>4, <1>5, <1>6, Kept, BalancedCovers DEF Balanced, IInv

-----------------------------------------------------------------------------
(* The actions.                                                            *)

LEMMA DescendStep ==
  ASSUME IInv, InLookup, NEW child \in Objects, refcount' = Retained(child), Descend(child),
         UNCHANGED <<parent, handles, mounted>>
  PROVE  IInv' /\ Balanced
<1>. DEFINE f == [Top EXCEPT !.dno = child, !.rest = Tail(@), !.first = FALSE]
<1>1. frames # <<>> /\ releasing = NULL /\ out = NULL /\ Top.rest # <<>>
  BY DEF InLookup, Running, IInv, CallsSound
<1>2. f \in Frame /\ f.fn = Top.fn /\ f.dno = child
  <2>1. Top \in Frame /\ Top.rest \in Seq(STRING)
    BY <1>1, TopFacts DEF IInv
  <2>2. Tail(Top.rest) \in Seq(STRING)
    <3>. HIDE DEF Top
    <3>. QED BY <1>1, <2>1, HeadTailProperties
  <2>. HIDE DEF Top
  <2>. QED BY <2>1, <2>2 DEF Frame
<1>3. Continue(f) /\ releasing' = Top.dno
  BY DEF Descend
<1>. HIDE DEF f
<1>. QED BY <1>1, <1>2, <1>3, AdvanceStep

LEMMA LookupSteps ==
  ASSUME IInv,
         LookupDone \/ LookupEmpty \/ LookupLink \/ LookupResolved
           \/ LookupDot \/ LookupDotDot \/ LookupFails
  PROVE  IInv' /\ Balanced
<1>0. CallsSound /\ TypeOK
  BY DEF IInv
<1>1. CASE LookupDone
  <2>1. frames # <<>> /\ releasing = NULL /\ out = NULL /\ Top.fn # "dir_open"
    BY <1>0, <1>1 DEF LookupDone, Running, CallsSound
  <2>. QED BY <1>1, <2>1, ReturnStep DEF LookupDone
<1>2. CASE LookupEmpty
  <2>1. Top.dno \in Objects
    BY <1>0, <1>2, TopFacts DEF LookupEmpty, InLookup, Running
  <2>2. PICK child \in Objects : refcount' = Retained(child) /\ Descend(child)
    BY <1>2, <2>1, TreeAssumption DEF LookupEmpty, Directories
  <2>. QED BY <1>2, <2>2, DescendStep DEF LookupEmpty
<1>3. CASE LookupLink
  <2>1. frames # <<>> /\ releasing = NULL /\ out = NULL /\ Top.fn # "dir_open"
    BY <1>0, <1>3 DEF LookupLink, OnName, InLookup, Running, CallsSound
  <2>2. Top \in Frame /\ Top.dno \in Objects
    BY <1>0, <2>1, TopFacts
  <2>3. Resolve(Top.dno) \in Frame /\ Resolve(Top.dno).fn # "dir_open"
        /\ Resolve(Top.dno).dno = Top.dno
    BY <2>2 DEF Resolve, Frame
  <2>4. Call(Top, Resolve(Top.dno)) /\ refcount' = Retained(Top.dno) /\ releasing' = NULL
    BY <1>3, <2>1 DEF LookupLink
  <2>5. UNCHANGED <<parent, handles, mounted>>
    BY <1>3 DEF LookupLink
  <2>. HIDE DEF Top
  <2>. QED BY <2>1, <2>2, <2>3, <2>4, <2>5, TreeAssumption, CallStep
<1>4. CASE LookupResolved
  <2>1. frames # <<>> /\ releasing = NULL /\ out # NULL /\ out \in Objects
    BY <1>0, <1>4 DEF LookupResolved, Answered, CallsSound, TypeOK
  <2>2. [Top EXCEPT !.dno = out] \in Frame /\ [Top EXCEPT !.dno = out].fn = Top.fn
        /\ [Top EXCEPT !.dno = out].dno = out
    <3>1. Top \in Frame
      BY <1>0, <2>1, TopFacts
    <3>. HIDE DEF Top
    <3>. QED BY <2>1, <3>1 DEF Frame
  <2>3. Continue([Top EXCEPT !.dno = out]) /\ releasing' = Top.dno
        /\ UNCHANGED <<refcount, parent, handles, mounted>>
    BY <1>4 DEF LookupResolved
  <2>. QED BY <2>1, <2>2, <2>3, ReplaceStep
<1>5. CASE LookupDot
  <2>1. InLookup /\ Top.dno \in Objects
    BY <1>0, <1>5, TopFacts DEF LookupDot, OnName, InLookup, Running
  <2>. QED BY <1>5, <2>1, DescendStep DEF LookupDot
<1>6. CASE LookupDotDot
  <2>1. InLookup /\ Top.dno \in Objects
    BY <1>0, <1>6, TopFacts DEF LookupDotDot, OnName, InLookup, Running
  <2>2. parent[Top.dno] \in Objects
    BY <1>0, <1>6, <2>1 DEF LookupDotDot, TypeOK
  <2>. QED BY <1>6, <2>1, <2>2, DescendStep DEF LookupDotDot
<1>7. CASE LookupFails
  <2>1. frames # <<>> /\ releasing = NULL /\ out = NULL /\ Top.fn # "dir_open"
    BY <1>0, <1>7 DEF LookupFails, OnName, InLookup, Running, Answered, CallsSound
  <2>. QED BY <1>7, <2>1, ReturnStep DEF LookupFails
<1>. QED BY <1>1, <1>2, <1>3, <1>4, <1>5, <1>6, <1>7

LEMMA ResolveSteps ==
  ASSUME IInv, ResolveDone \/ ResolveLink \/ ResolveFollow \/ ResolveFails
  PROVE  IInv' /\ Balanced
<1>0. CallsSound /\ TypeOK
  BY DEF IInv
<1>1. CASE ResolveDone
  <2>1. frames # <<>> /\ releasing = NULL /\ out = NULL /\ Top.fn # "dir_open"
    BY <1>0, <1>1 DEF ResolveDone, Running, CallsSound
  <2>. QED BY <1>1, <2>1, ReturnStep DEF ResolveDone
<1>2. CASE ResolveLink
  <2>1. frames # <<>> /\ releasing = NULL /\ out = NULL /\ Top.fn # "dir_open"
    BY <1>0, <1>2 DEF ResolveLink, Running, CallsSound
  <2>2. Top \in Frame /\ Top.dno \in Objects
    BY <1>0, <2>1, TopFacts
  <2>3. parent[Top.dno] \in Objects /\ Target[Top.dno] \in Seq(STRING)
    BY <1>0, <1>2, <2>2, TreeAssumption DEF ResolveLink, TypeOK, Links
  <2>. DEFINE g == Lookup(parent[Top.dno], Target[Top.dno])
  <2>4. g \in Frame /\ g.fn # "dir_open" /\ g.dno = parent[Top.dno]
    BY <2>3 DEF Lookup, Frame
  <2>5. /\ Call(Top, g) /\ refcount' = Retained(parent[Top.dno]) /\ releasing' = NULL
        /\ UNCHANGED <<parent, handles, mounted>>
    BY <1>2, <2>1 DEF ResolveLink
  <2>. HIDE DEF g, Top
  <2>. QED BY <2>1, <2>2, <2>3, <2>4, <2>5, TreeAssumption, CallStep
<1>3. CASE ResolveFollow
  <2>1. frames # <<>> /\ releasing = NULL /\ out # NULL /\ out \in Objects
    BY <1>0, <1>3 DEF ResolveFollow, Answered, CallsSound, TypeOK
  <2>2. [Top EXCEPT !.dno = out] \in Frame /\ [Top EXCEPT !.dno = out].fn = Top.fn
        /\ [Top EXCEPT !.dno = out].dno = out
    <3>1. Top \in Frame
      BY <1>0, <2>1, TopFacts
    <3>. HIDE DEF Top
    <3>. QED BY <2>1, <3>1 DEF Frame
  <2>3. Continue([Top EXCEPT !.dno = out]) /\ releasing' = Top.dno
        /\ UNCHANGED <<refcount, parent, handles, mounted>>
    BY <1>3 DEF ResolveFollow
  <2>. QED BY <2>1, <2>2, <2>3, ReplaceStep
<1>4. CASE ResolveFails
  <2>1. frames # <<>> /\ releasing = NULL /\ out = NULL /\ Top.fn # "dir_open"
    BY <1>0, <1>4 DEF ResolveFails, Running, Answered, CallsSound
  <2>. QED BY <1>4, <2>1, ReturnStep DEF ResolveFails
<1>. QED BY <1>1, <1>2, <1>3, <1>4

\* The three error paths that may leave a reference behind.
LEMMA LeakingSteps ==
  ASSUME IInv,
         \/ LookupNotADirectory
         \/ LookupNoMemory
         \/ \E h \in Handles : DirRead(h) /\ releasing' = NULL
  PROVE  IInv' /\ Covered
<1>0. CallsSound /\ TypeOK
  BY DEF IInv
<1>1. CASE LookupNotADirectory \/ LookupNoMemory
  <2>1. frames # <<>> /\ releasing = NULL /\ out = NULL /\ Top.fn # "dir_open"
    BY <1>0, <1>1 DEF LookupNotADirectory, LookupNoMemory, OnName, InLookup, Running, CallsSound
  <2>2. Top.dno \in Objects
    BY <1>0, <2>1, TopFacts
  <2>3. /\ Fail /\ releasing' \in {NULL, Top.dno}
        /\ refcount' = refcount \/ refcount' = Retained(Top.dno)
        /\ UNCHANGED <<parent, handles, mounted>>
    BY <1>1, <2>1 DEF LookupNotADirectory, LookupNoMemory, DnodeCreateFails
  <2>4. /\ frames' \in Seq(Frame) /\ CallsSound'
        /\ \A d : FrameRefs(frames', d) = FrameRefs(frames, d) - One(Top.dno = d)
    BY <1>0, <2>1, <2>3, Returned
  <2>5. out' = NULL /\ status' = "error"
    BY <2>3 DEF Fail
  <2>6. /\ refcount' \in [Objects -> Nat]
        /\ \A d \in Objects : refcount'[d] >= refcount[d]
        /\ \A d \in Objects : refcount'[d] = 0 => refcount[d] = 0
    BY <1>0, <2>2, <2>3, RetainedFacts, SMTT(40) DEF TypeOK
  <2>7. TypeOK'
    BY <1>0, <2>2, <2>3, <2>4, <2>5, <2>6 DEF TypeOK
  <2>8. FreedHasNoParent'
    BY <2>3, <2>6 DEF IInv, FreedHasNoParent
  <2>9. ASSUME NEW d \in Objects PROVE Surplus(d)' >= Surplus(d)
    <3>1. FrameRefs(frames, d) \in Nat /\ d # NULL
      BY <1>0, RefsFinite, TreeAssumption
    <3>2. FrameRefs(frames', d) = FrameRefs(frames, d) - One(Top.dno = d)
      BY <2>4
    <3>3. refcount'[d] >= refcount[d] /\ refcount[d] \in Nat /\ refcount'[d] \in Nat
      BY <1>0, <2>6, SurplusIs
    <3>4. One(out' = d) = 0 /\ One(out = d) = 0 /\ One(releasing = d) = 0
          /\ One(releasing' = d) \in 0 .. One(Top.dno = d) /\ One(Top.dno = d) \in Nat
      BY <2>1, <2>3, <2>5, <3>1 DEF One
    <3>5. refcount'[d] + (One(out = d) + One(releasing = d) + FrameRefs(frames, d))
            >= refcount[d] + (One(out' = d) + One(releasing' = d) + FrameRefs(frames', d))
      BY <3>1, <3>2, <3>3, <3>4
    <3>. QED BY <1>0, <2>3, <2>7, <3>5, StackCovers
  <2>. QED BY <2>4, <2>7, <2>8, <2>9, Kept DEF Covered
<1>2. CASE \E h \in Handles : DirRead(h) /\ releasing' = NULL
  <2>. PICK h \in Handles : DirRead(h) /\ releasing' = NULL
    BY <1>2
  <2>0. PICK e \in Entries : /\ e[1] = handles[h]
                            /\ \/ DnodeCreate(handles[h], e[3]) /\ releasing' = e[3]
                               \/ DnodeCreateFails(handles[h], e[3]) /\ releasing' = NULL
    BY DEF DirRead
  <2>1. handles[h] \in Objects /\ refcount' = Retained(handles[h]) /\ parent' = parent
    <3>1. handles[h] \in Objects /\ e[3] # NULL
      BY <2>0, TreeAssumption DEF Directories
    <3>. QED BY <2>0, <3>1 DEF DnodeCreateFails
  <2>2. /\ releasing' = NULL /\ releasing = NULL
        /\ UNCHANGED <<parent, handles, frames, status, out, mounted>>
    BY <2>1 DEF DirRead, Idle
  <2>3. /\ refcount' \in [Objects -> Nat]
        /\ \A d \in Objects : refcount'[d] >= refcount[d]
        /\ \A d \in Objects : refcount'[d] = 0 => refcount[d] = 0
    BY <1>0, <2>1, RetainedFacts
  <2>4. TypeOK' /\ CallsSound' /\ FreedHasNoParent'
    BY <1>0, <2>2, <2>3 DEF IInv, TypeOK, CallsSound, FreedHasNoParent
  <2>5. ASSUME NEW d \in Objects PROVE Surplus(d)' >= Surplus(d)
    <3>1. FrameRefs(frames, d) \in Nat /\ refcount'[d] >= refcount[d]
          /\ refcount[d] \in Nat /\ refcount'[d] \in Nat
      BY <1>0, <2>3, RefsFinite, SurplusIs
    <3>2. refcount'[d] + (One(out = d) + One(releasing = d) + FrameRefs(frames, d))
            >= refcount[d] + (One(out' = d) + One(releasing' = d) + FrameRefs(frames', d))
      BY <2>2, <3>1 DEF One
    <3>. QED BY <1>0, <2>2, <2>4, <3>2, StackCovers
  <2>. QED BY <2>4, <2>5, Kept DEF Covered
<1>. QED BY <1>1, <1>2

\* fsw_dnode_create().
LEMMA CreateFacts ==
  ASSUME IInv, NEW dir \in Objects, refcount[dir] # 0, NEW o \in Objects, DnodeCreate(dir, o)
  PROVE  /\ refcount' \in [Objects -> Nat] /\ parent' \in [Objects -> Objects \cup {NULL}]
         /\ FreedHasNoParent'
         /\ \A d \in Objects : refcount'[d] + ParentRefs(d)
                                 = refcount[d] + ParentRefs(d)' + One(o = d)
<1>0. TypeOK /\ FreedHasNoParent
  BY DEF IInv
<1>1. CASE refcount[o] > 0
  <2>1. refcount' = Retained(o) /\ parent' = parent
    BY <1>1 DEF DnodeCreate
  <2>2. \A d \in Objects : ParentRefs(d)' = ParentRefs(d) /\ ParentRefs(d) \in Nat
    BY <1>0, <2>1, RefsFinite DEF ParentRefs
  <2>3. refcount' \in [Objects -> Nat] /\ parent' \in [Objects -> Objects \cup {NULL}]
    BY <1>0, <2>1, RetainedFacts DEF TypeOK
  <2>4. FreedHasNoParent'
    BY <1>0, <2>1, RetainedFacts DEF FreedHasNoParent
  <2>5. ASSUME NEW d \in Objects
        PROVE  refcount'[d] + ParentRefs(d) = refcount[d] + ParentRefs(d)' + One(o = d)
    <3>1. refcount'[d] = refcount[d] + One(o = d)
      BY <1>0, <2>1, RetainedFacts
    <3>2. refcount[d] \in Nat /\ One(o = d) \in Nat
      BY <1>0 DEF TypeOK, One
    <3>. QED BY <2>2, <3>1, <3>2
  <2>. QED BY <2>3, <2>4, <2>5
<1>2. CASE ~(refcount[o] > 0)
  <2>1. refcount' = [Retained(dir) EXCEPT ![o] = 1] /\ parent' = [parent EXCEPT ![o] = dir]
    BY <1>2 DEF DnodeCreate
  <2>2. refcount[o] = 0 /\ parent[o] = NULL /\ dir # o
    BY <1>0, <1>2 DEF TypeOK, FreedHasNoParent
  <2>3. /\ refcount' \in [Objects -> Nat]
        /\ \A d \in Objects : refcount'[d] = refcount[d] + One(dir = d) + One(o = d)
    <3>1. /\ Retained(dir) \in [Objects -> Nat]
          /\ \A d \in Objects : Retained(dir)[d] = refcount[d] + One(dir = d)
      BY <1>0, RetainedFacts
    <3>2. ASSUME NEW d \in Objects
          PROVE  refcount'[d] = refcount[d] + One(dir = d) + One(o = d)
      <4>1. refcount'[d] = IF d = o THEN 1 ELSE refcount[d] + One(dir = d)
        BY <2>1, <3>1
      <4>2. refcount[d] \in Nat
        BY <1>0 DEF TypeOK
      <4>. QED BY <2>2, <4>1, <4>2 DEF One
    <3>. QED BY <2>1, <3>1, <3>2
  <2>4. parent' \in [Objects -> Objects \cup {NULL}]
    BY <1>0, <2>1 DEF TypeOK
  <2>5. FreedHasNoParent'
    <3>1. SUFFICES ASSUME NEW d \in Objects, refcount'[d] = 0 PROVE parent'[d] = NULL
      BY DEF FreedHasNoParent
    <3>2. refcount[d] \in Nat /\ One(dir = d) \in Nat /\ One(o = d) \in Nat
          /\ (d = o => One(o = d) = 1)
      BY <1>0 DEF TypeOK, One
    <3>3. refcount'[d] = refcount[d] + One(dir = d) + One(o = d)
      BY <2>3
    <3>4. refcount[d] = 0 /\ d # o
      BY <3>1, <3>2, <3>3
    <3>. QED BY <1>0, <2>1, <3>4 DEF TypeOK, FreedHasNoParent
  <2>6. ASSUME NEW d \in Objects
        PROVE  ParentRefs(d)' = ParentRefs(d) - One(NULL = d) + One(dir = d)
    <3>1. (\A y \in Objects : y # o => parent'[y] = parent[y]) /\ parent'[o] = dir
      BY <1>0, <2>1 DEF TypeOK
    <3>2. ParentRefs(d)' = ParentRefs(d) - One(parent[o] = d) + One(parent'[o] = d)
      BY ONLY <3>1, ParentChanged
    <3>. QED BY <2>2, <3>1, <3>2
  <2>7. ASSUME NEW d \in Objects
        PROVE  refcount'[d] + ParentRefs(d) = refcount[d] + ParentRefs(d)' + One(o = d)
    <3>1. ParentRefs(d)' = ParentRefs(d) + One(dir = d)
      <4>1. One(NULL = d) = 0
        BY TreeAssumption DEF One
      <4>2. ParentRefs(d) \in Nat /\ One(dir = d) \in Nat
        BY <1>0, RefsFinite DEF One
      <4>3. ParentRefs(d)' = ParentRefs(d) - One(NULL = d) + One(dir = d)
        BY <2>6
      <4>. QED BY <4>1, <4>2, <4>3
    <3>2. ParentRefs(d) \in Nat /\ refcount[d] \in Nat
      BY <1>0, RefsFinite DEF TypeOK
    <3>3. refcount'[d] = refcount[d] + One(dir = d) + One(o = d)
      BY <2>3
    <3>4. One(dir = d) \in Nat /\ One(o = d) \in Nat
      BY DEF One
    <3>. QED BY <3>1, <3>2, <3>3, <3>4
  <2>. QED BY <2>3, <2>4, <2>5, <2>7
<1>. QED BY <1>1, <1>2

LEMMA LookupNameStep ==
  ASSUME IInv, LookupName
  PROVE  IInv' /\ Balanced
<1>0. CallsSound /\ TypeOK /\ NotFreedInUse
  BY DEF IInv
<1>1. /\ frames # <<>> /\ releasing = NULL /\ out = NULL /\ Top.fn # "dir_open"
      /\ Top.rest # <<>>
  BY <1>0 DEF LookupName, OnName, InLookup, Running, CallsSound
<1>2. Top \in Frame /\ Top.dno \in Objects /\ Top.rest \in Seq(STRING)
  BY <1>0, <1>1, TopFacts
<1>3. PICK o \in Objects : DnodeCreate(Top.dno, o) /\ Descend(o)
  BY TreeAssumption DEF LookupName, Named
<1>4. UNCHANGED <<handles, mounted>>
  BY DEF LookupName
<1>5. refcount[Top.dno] # 0
  BY <1>0, <1>1, <1>2, PointedToExists
<1>6. /\ refcount' \in [Objects -> Nat] /\ parent' \in [Objects -> Objects \cup {NULL}]
      /\ FreedHasNoParent'
      /\ \A d \in Objects : refcount'[d] + ParentRefs(d)
                              = refcount[d] + ParentRefs(d)' + One(o = d)
  BY <1>2, <1>3, <1>5, CreateFacts
<1>. DEFINE f == [Top EXCEPT !.dno = o, !.rest = Tail(@), !.first = FALSE]
<1>7. f \in Frame /\ f.fn = Top.fn /\ f.dno = o
  <2>1. Tail(Top.rest) \in Seq(STRING)
    <3>. HIDE DEF Top
    <3>. QED BY <1>1, <1>2, HeadTailProperties
  <2>. HIDE DEF Top
  <2>. QED BY <1>2, <2>1 DEF Frame
<1>8. Continue(f) /\ releasing' = Top.dno
  BY <1>3 DEF Descend
<1>. HIDE DEF f
<1>9. /\ frames' \in Seq(Frame) /\ CallsSound'
      /\ \A d : FrameRefs(frames', d) = FrameRefs(frames, d) - One(Top.dno = d) + One(o = d)
  BY <1>0, <1>1, <1>7, <1>8, TreeAssumption, Continued
<1>10. out' = NULL /\ status' = "running"
  BY <1>8 DEF Continue
<1>11. TypeOK'
  BY <1>0, <1>2, <1>4, <1>6, <1>8, <1>9, <1>10 DEF TypeOK
<1>12. ASSUME NEW d \in Objects PROVE Surplus(d)' = Surplus(d)
  <2>. DEFINE root == One(mounted /\ d = Root)
              top  == One(Top.dno = d)
              new  == One(o = d)
  <2>1. /\ HandleRefs(d) \in Nat /\ ParentRefs(d) \in Nat /\ FrameRefs(frames, d) \in Nat
        /\ ParentRefs(d)' \in Nat /\ refcount[d] \in Nat /\ refcount'[d] \in Nat
    BY <1>0, <1>11, RefsFinite, RefsFiniteNext, SurplusIs, SurplusIsNext
  <2>2. HandleRefs(d)' = HandleRefs(d) /\ One(mounted' /\ d = Root) = root
    BY <1>4 DEF HandleRefs
  <2>3. One(out = d) = 0 /\ One(releasing = d) = 0 /\ One(out' = d) = 0 /\ One(releasing' = d) = top
    BY <1>1, <1>8, <1>10, TreeAssumption DEF One
  <2>4. /\ FrameRefs(frames', d) = FrameRefs(frames, d) - top + new
        /\ refcount'[d] + ParentRefs(d) = refcount[d] + ParentRefs(d)' + new
    BY <1>6, <1>9
  <2>5. root \in Nat /\ top \in Nat /\ new \in Nat
    BY DEF One
  <2>. HIDE DEF root, top, new
  <2>6. refcount'[d] + (root + HandleRefs(d) + ParentRefs(d)) + FrameRefs(frames, d)
          = refcount[d] + (root + HandleRefs(d) + ParentRefs(d)') + (top + FrameRefs(frames', d))
    BY <2>1, <2>4, <2>5
  <2>7. refcount'[d] + (root + HandleRefs(d) + ParentRefs(d))
            + (One(out = d) + One(releasing = d) + FrameRefs(frames, d))
          = refcount[d] + (One(mounted' /\ d = Root) + HandleRefs(d)' + ParentRefs(d)')
              + (One(out' = d) + One(releasing' = d) + FrameRefs(frames', d))
    BY <2>1, <2>2, <2>3, <2>4, <2>5, <2>6
  <2>. QED BY <1>0, <1>11, <2>7, FullBalance DEF root
<1>. QED BY <1>0, <1>6, <1>9, <1>11, <1>12, Kept, BalancedCovers DEF Balanced

\* fsw_dnode_release() moves the reference of a freed dnode to its parent.
LEMMA ReleaseStep ==
  ASSUME IInv, Release
  PROVE  IInv' /\ Balanced
<1>0. CallsSound /\ TypeOK /\ NotFreedInUse /\ FreedHasNoParent
  BY DEF IInv
<1>. DEFINE r == releasing
<1>1. r \in Objects /\ refcount[r] \in Nat \ {0}
  BY <1>0, PointedToExists DEF Release, TypeOK
<1>2. /\ refcount' \in [Objects -> Nat] /\ refcount' = [refcount EXCEPT ![r] = @ - 1]
      /\ UNCHANGED <<handles, frames, status, out, mounted>>
  BY <1>0, <1>1 DEF Release, TypeOK
<1>3. \A d \in Objects : refcount'[d] = refcount[d] - One(r = d)
  BY <1>0, <1>1, <1>2 DEF TypeOK, One
<1>4. \/ /\ refcount'[r] = 0 /\ releasing' = parent[r]
         /\ parent' = [parent EXCEPT ![r] = NULL]
      \/ /\ refcount'[r] # 0 /\ releasing' = NULL
         /\ parent' = parent
  BY DEF Release
<1>. HIDE DEF r
<1>5. parent' \in [Objects -> Objects \cup {NULL}] /\ releasing' \in Objects \cup {NULL}
  BY <1>0, <1>1, <1>4 DEF TypeOK
<1>6. TypeOK'
  BY <1>0, <1>2, <1>5 DEF TypeOK
<1>7. FreedHasNoParent'
  <2>1. SUFFICES ASSUME NEW d \in Objects, refcount'[d] = 0 PROVE parent'[d] = NULL
    BY DEF FreedHasNoParent
  <2>2. CASE d = r
    BY <1>0, <1>1, <1>4, <2>1, <2>2 DEF TypeOK
  <2>3. CASE d # r
    <3>1. refcount[d] = 0
      BY <1>1, <1>2, <2>1, <2>3
    <3>2. parent'[d] = parent[d]
      BY <1>0, <1>4, <2>3 DEF TypeOK
    <3>. QED BY <1>0, <3>1, <3>2 DEF FreedHasNoParent
  <2>. QED BY <2>2, <2>3
<1>8. CallsSound'
  BY <1>0, <1>2 DEF CallsSound
<1>9. ASSUME NEW d \in Objects
      PROVE  ParentRefs(d)' + One(releasing' = d) = ParentRefs(d)
  <2>1. ParentRefs(d) \in Nat /\ d # NULL
    BY <1>0, RefsFinite, TreeAssumption
  <2>2. CASE parent' = parent /\ releasing' = NULL
    BY <2>1, <2>2 DEF ParentRefs, One
  <2>3. CASE releasing' = parent[r] /\ parent' = [parent EXCEPT ![r] = NULL]
    <3>1. (\A y \in Objects : y # r => parent'[y] = parent[y]) /\ parent'[r] = NULL
      BY <1>0, <1>1, <2>3 DEF TypeOK
    <3>2. ParentRefs(d)' = ParentRefs(d) - One(parent[r] = d) + One(parent'[r] = d)
      BY ONLY <1>1, <3>1, ParentChanged
    <3>3. One(parent'[r] = d) = 0 /\ One(parent[r] = d) = One(releasing' = d)
          /\ One(releasing' = d) \in Nat
      BY <2>1, <2>3, <3>1 DEF One
    <3>. QED BY <2>1, <3>2, <3>3
  <2>. QED BY <1>4, <2>2, <2>3
<1>10. ASSUME NEW d \in Objects PROVE Surplus(d)' = Surplus(d)
  <2>. DEFINE root == One(mounted /\ d = Root)
              last == One(r = d)
  <2>1. /\ HandleRefs(d) \in Nat /\ ParentRefs(d) \in Nat /\ FrameRefs(frames, d) \in Nat
        /\ ParentRefs(d)' \in Nat /\ refcount[d] \in Nat /\ refcount'[d] \in Nat
    BY <1>0, <1>6, RefsFinite, RefsFiniteNext, SurplusIs, SurplusIsNext
  <2>2. /\ HandleRefs(d)' = HandleRefs(d) /\ One(mounted' /\ d = Root) = root
        /\ One(out' = d) = One(out = d) /\ FrameRefs(frames', d) = FrameRefs(frames, d)
    BY <1>2 DEF HandleRefs
  <2>3. /\ refcount'[d] = refcount[d] - last
        /\ ParentRefs(d)' + One(releasing' = d) = ParentRefs(d)
        /\ One(releasing = d) = last
    BY <1>3, <1>9 DEF r
  <2>4. root \in Nat /\ last \in Nat /\ One(out = d) \in Nat /\ One(releasing' = d) \in Nat
    BY DEF One
  <2>. HIDE DEF root, last
  <2>5. refcount'[d] + (root + HandleRefs(d) + ParentRefs(d))
            + (One(out = d) + One(releasing = d) + FrameRefs(frames, d))
          = refcount[d] + (One(mounted' /\ d = Root) + HandleRefs(d)' + ParentRefs(d)')
              + (One(out' = d) + One(releasing' = d) + FrameRefs(frames', d))
    BY <2>1, <2>2, <2>3, <2>4
  <2>. QED BY <1>0, <1>6, <2>5, FullBalance DEF root
<1>. QED BY <1>0, <1>6, <1>7, <1>8, <1>10, Kept, BalancedCovers DEF Balanced

\* Opening: the first lookup, its result, and the link it may be.
LEMMA OpenSteps ==
  ASSUME IInv,
         \/ \E h \in Handles, path \in Paths : Open(h, path)
         \/ OpenFound \/ OpenResolved \/ OpenFails
  PROVE  IInv' /\ Balanced
<1>0. CallsSound /\ TypeOK /\ FreedHasNoParent
  BY DEF IInv
<1>1. CASE \E h \in Handles, path \in Paths : Open(h, path)
  <2>1. PICK h \in Handles, path \in Paths : Open(h, path)
    BY <1>1
  <2>2. PICK x \in Objects : x = handles[h]
    BY <2>1 DEF Open, Directories
  <2>. DEFINE a == DirOpen(NULL)
              b == Lookup(x, path)
  <2>3. /\ frames = <<>> /\ releasing = NULL /\ out = NULL /\ status = "running"
        /\ frames' = Append(Append(frames, a), b) /\ refcount' = Retained(x)
        /\ UNCHANGED <<parent, handles, status, out, releasing, mounted>>
    BY <1>0, <2>1, <2>2 DEF Open, Idle, CallsSound
  <2>4. /\ a \in Frame /\ a.fn = "dir_open" /\ a.dno = NULL
        /\ b \in Frame /\ b.fn # "dir_open" /\ b.dno = x
    BY TreeAssumption DEF DirOpen, Lookup, Frame
  <2>. HIDE DEF a, b
  <2>. DEFINE s == Append(frames, a)
  <2>5. frames \in Seq(Frame) /\ FramesSound(frames) /\ s \in Seq(Frame) /\ s # <<>> /\ FramesSound(s)
    <3>1. frames \in Seq(Frame) /\ FramesSound(frames)
      BY <1>0 DEF TypeOK, CallsSound
    <3>2. a.fn = "dir_open" <=> frames = <<>>
      BY <2>3, <2>4
    <3>3. s \in Seq(Frame) /\ s # <<>>
      BY <2>4, <3>1, AppendProperties
    <3>4. FramesSound(s)
      BY ONLY <2>4, <3>1, <3>2, FramesPushedSound
    <3>. QED BY <3>1, <3>3, <3>4
  <2>6. frames' \in Seq(Frame) /\ frames' # <<>> /\ FramesSound(frames')
    <3>. HIDE DEF s
    <3>1. frames' = Append(s, b)
      BY <2>3 DEF s
    <3>2. b.dno # NULL
      BY <2>4, TreeAssumption
    <3>3. FramesSound(Append(s, b))
      BY <2>4, <2>5, <3>2, FramesPushedSound
    <3>. QED BY <2>4, <2>5, <3>1, <3>3
  <2>7. \A d \in Objects : FrameRefs(frames', d) = FrameRefs(frames, d) + One(x = d)
    <3>1. TAKE d \in Objects
    <3>2. FrameRefs(s, d) = FrameRefs(frames, d) + One(a.dno = d)
      BY <2>4, <2>5, FramePushed
    <3>. HIDE DEF s
    <3>3. frames' = Append(s, b)
      BY <2>3 DEF s
    <3>4. FrameRefs(frames', d) = FrameRefs(s, d) + One(x = d)
      BY <2>4, <2>5, <3>3, FramePushed
    <3>5. One(a.dno = d) = 0 /\ FrameRefs(frames, d) \in Nat
      BY <2>4, <2>5, TreeAssumption, FramesCounted DEF One
    <3>. QED BY <3>2, <3>4, <3>5
  <2>8. /\ refcount' \in [Objects -> Nat]
        /\ \A d \in Objects : refcount'[d] = refcount[d] + One(x = d)
        /\ \A d \in Objects : refcount'[d] = 0 => refcount[d] = 0
    BY <1>0, <2>3, RetainedFacts
  <2>9. TypeOK' /\ CallsSound' /\ FreedHasNoParent'
    <3>1. TypeOK'
      BY <1>0, <2>3, <2>6, <2>8 DEF TypeOK
    <3>2. CallsSound'
      BY <1>0, <2>3, <2>6 DEF CallsSound
    <3>. QED BY <1>0, <2>3, <2>8, <3>1, <3>2 DEF FreedHasNoParent
  <2>10. ASSUME NEW d \in Objects PROVE Surplus(d)' = Surplus(d)
    <3>1. FrameRefs(frames, d) \in Nat /\ refcount[d] \in Nat
      BY <1>0, RefsFinite, SurplusIs
    <3>2. /\ FrameRefs(frames', d) = FrameRefs(frames, d) + One(x = d)
          /\ refcount'[d] = refcount[d] + One(x = d)
      BY <2>7, <2>8
    <3>3. refcount'[d] + (One(out = d) + One(releasing = d) + FrameRefs(frames, d))
            = refcount[d] + (One(out' = d) + One(releasing' = d) + FrameRefs(frames', d))
      BY <2>3, <3>1, <3>2, SMTT(40) DEF One
    <3>. QED BY <1>0, <2>3, <2>9, <3>3, StackBalance
  <2>. QED BY <1>0, <2>9, <2>10, Kept, BalancedCovers DEF Balanced
<1>2. CASE OpenFound
  <2>1. frames # <<>> /\ releasing = NULL /\ out \in Objects /\ Top.fn = "dir_open" /\ Top.dno = NULL
    BY <1>0, <1>2 DEF OpenFound, Answered, CallsSound, TypeOK
  <2>2. /\ DirOpen(out) \in Frame /\ DirOpen(out).fn = Top.fn /\ DirOpen(out).dno = out
        /\ Resolve(out) \in Frame /\ Resolve(out).fn # "dir_open" /\ Resolve(out).dno = out
    BY <2>1 DEF DirOpen, Resolve, Frame
  <2>3. /\ Call(DirOpen(out), Resolve(out)) /\ refcount' = Retained(out) /\ releasing' = NULL
        /\ UNCHANGED <<parent, handles, mounted>>
    BY <1>2, <2>1 DEF OpenFound
  <2>. QED BY <2>1, <2>2, <2>3, TreeAssumption, CallStep
<1>3. CASE OpenResolved
  <2>1. frames # <<>> /\ releasing = NULL /\ out # NULL /\ out \in Objects /\ Top.fn = "dir_open"
    BY <1>0, <1>3 DEF OpenResolved, Answered, CallsSound, TypeOK
  <2>2. DirOpen(out) \in Frame /\ DirOpen(out).fn = Top.fn /\ DirOpen(out).dno = out
    BY <2>1 DEF DirOpen, Frame
  <2>3. Continue(DirOpen(out)) /\ releasing' = Top.dno
        /\ UNCHANGED <<refcount, parent, handles, mounted>>
    BY <1>3 DEF OpenResolved
  <2>. QED BY <2>1, <2>2, <2>3, ReplaceStep
<1>4. CASE OpenFails
  <2>1. frames # <<>> /\ releasing = NULL /\ out = NULL /\ Top.fn = "dir_open"
    BY <1>0, <1>4 DEF OpenFails, Answered, Running, CallsSound
  <2>2. Leave /\ releasing' = Top.dno /\ UNCHANGED <<refcount, parent, handles, mounted>>
    BY <1>4 DEF OpenFails
  <2>3. /\ frames' \in Seq(Frame) /\ CallsSound'
        /\ \A d : FrameRefs(frames', d) = FrameRefs(frames, d) - One(Top.dno = d)
    BY <1>0, <2>1, <2>2, Left
  <2>4. out' = NULL /\ status' = "running"
    BY <2>2 DEF Leave
  <2>5. TypeOK'
    BY <1>0, <2>1, <2>2, <2>3, <2>4, TopFacts DEF TypeOK
  <2>6. FreedHasNoParent'
    BY <1>0, <2>2 DEF FreedHasNoParent
  <2>7. ASSUME NEW d \in Objects PROVE Surplus(d)' = Surplus(d)
    <3>1. FrameRefs(frames, d) \in Nat /\ refcount[d] \in Nat
      BY <1>0, RefsFinite, SurplusIs
    <3>2. FrameRefs(frames', d) = FrameRefs(frames, d) - One(Top.dno = d)
      BY <2>3
    <3>3. refcount'[d] + (One(out = d) + One(releasing = d) + FrameRefs(frames, d))
            = refcount[d] + (One(out' = d) + One(releasing' = d) + FrameRefs(frames', d))
      BY <2>1, <2>2, <2>4, <3>1, <3>2, TreeAssumption DEF One
    <3>. QED BY <1>0, <2>2, <2>5, <3>3, StackBalance
  <2>. QED BY <1>0, <2>3, <2>5, <2>6, <2>7, Kept, BalancedCovers DEF Balanced
<1>. QED BY <1>1, <1>2, <1>3, <1>4

\* A handle on a dnode is opened, or closed.
LEMMA HandleSteps ==
  ASSUME IInv, OpenHandle \/ \E h \in Handles : OpenVolume(h) \/ Close(h)
  PROVE  IInv' /\ Balanced
<1>0. CallsSound /\ TypeOK /\ FreedHasNoParent
  BY DEF IInv
<1>1. PICK h \in Handles, v \in Objects \cup {NULL} :
        /\ handles' = [handles EXCEPT ![h] = v]
        /\ \/ /\ OpenHandle /\ handles[h] = NULL /\ v = Top.dno
           \/ OpenVolume(h) /\ handles[h] = NULL /\ v = Root
           \/ Close(h) /\ v = NULL
  <2>1. CASE OpenHandle
    <3>1. Top.dno \in Objects
      BY <1>0, <2>1, TopFacts DEF OpenHandle, Running
    <3>. QED BY <2>1, <3>1 DEF OpenHandle
  <2>2. CASE \E h \in Handles : OpenVolume(h) \/ Close(h)
    BY <2>2, TreeAssumption DEF OpenVolume, Close, Directories
  <2>. QED BY <2>1, <2>2
<1>2. handles[h] \in Objects \cup {NULL}
  BY <1>0 DEF TypeOK
<1>3. releasing = NULL /\ out = NULL /\ UNCHANGED <<parent, mounted>>
  BY <1>0, <1>1 DEF OpenHandle, Running, OpenVolume, Close, Idle, CallsSound
<1>4. \A d \in Objects : HandleRefs(d)' = HandleRefs(d) - One(handles[h] = d) + One(v = d)
  <2>1. TAKE d \in Objects
  <2>2. (\A y \in Handles : y # h => handles'[y] = handles[y]) /\ handles'[h] = v
    BY <1>0, <1>1 DEF TypeOK
  <2>3. HandleRefs(d)' = HandleRefs(d) - One(handles[h] = d) + One(handles'[h] = d)
    BY ONLY <2>2, HandleChanged
  <2>. QED BY <2>2, <2>3
<1>5. \/ OpenHandle /\ handles[h] = NULL /\ v = Top.dno
      \/ frames' = frames /\ status' = status /\ out' = out
  BY <1>1 DEF OpenVolume, Close
<1>6. /\ frames' \in Seq(Frame) /\ CallsSound' /\ out' = NULL
      /\ \/ OpenHandle /\ v = Top.dno /\ handles[h] = NULL /\ releasing' = Top.dno
              /\ \A d \in Objects : FrameRefs(frames', d) = FrameRefs(frames, d) - One(Top.dno = d)
         \/ /\ OpenVolume(h) /\ v = Root /\ handles[h] = NULL /\ releasing' = NULL
            /\ \A d \in Objects : FrameRefs(frames', d) = FrameRefs(frames, d)
         \/ /\ Close(h) /\ v = NULL /\ releasing' = handles[h]
            /\ \A d \in Objects : FrameRefs(frames', d) = FrameRefs(frames, d)
  <2>1. CASE OpenHandle /\ handles[h] = NULL /\ v = Top.dno
    <3>1. frames # <<>> /\ Top.fn = "dir_open" /\ Leave /\ releasing' = Top.dno
      BY <2>1 DEF OpenHandle, Running
    <3>2. /\ frames' \in Seq(Frame) /\ CallsSound'
          /\ \A d : FrameRefs(frames', d) = FrameRefs(frames, d) - One(Top.dno = d)
      BY <1>0, <3>1, Left
    <3>. QED BY <2>1, <3>1, <3>2 DEF Leave
  <2>2. CASE OpenVolume(h) /\ handles[h] = NULL /\ v = Root
    BY <1>0, <1>3, <2>2 DEF OpenVolume, TypeOK, CallsSound
  <2>3. CASE Close(h) /\ v = NULL
    BY <1>0, <1>3, <2>3 DEF Close, TypeOK, CallsSound
  <2>. QED BY <1>1, <2>1, <2>2, <2>3
<1>7. /\ refcount' \in [Objects -> Nat]
      /\ \A d \in Objects : refcount'[d] = refcount[d] + One(v = d)
      /\ \A d \in Objects : refcount'[d] = 0 => refcount[d] = 0
  <2>1. CASE v \in Objects
    <3>1. refcount' = Retained(v)
      BY <1>1, <2>1, TreeAssumption DEF OpenHandle, OpenVolume
    <3>. QED BY <1>0, <2>1, <3>1, RetainedFacts
  <2>2. CASE v = NULL
    <3>1. refcount' = refcount
      BY <1>0, <1>1, <2>2, TopFacts, TreeAssumption DEF OpenHandle, Running, Close, Directories
    <3>2. \A d \in Objects : One(v = d) = 0
      BY <2>2, TreeAssumption DEF One
    <3>. QED BY <1>0, <3>1, <3>2 DEF TypeOK
  <2>. QED BY <1>1, <2>1, <2>2
<1>8. releasing' \in Objects \cup {NULL} /\ status' \in {"running", "success", "error"}
      /\ handles' \in [Handles -> Objects \cup {NULL}]
  <2>1. releasing' \in Objects \cup {NULL}
    BY <1>1, <1>2, <1>6
  <2>2. status' \in {"running", "success", "error"}
    BY <1>0, <1>5 DEF OpenHandle, Leave, TypeOK
  <2>. QED BY <1>0, <1>1, <2>1, <2>2 DEF TypeOK
<1>9. TypeOK' /\ FreedHasNoParent'
  BY <1>0, <1>3, <1>6, <1>7, <1>8 DEF TypeOK, FreedHasNoParent
<1>10. ASSUME NEW d \in Objects PROVE Surplus(d)' = Surplus(d)
  <2>. DEFINE root == One(mounted /\ d = Root)
              was  == One(handles[h] = d)
              new  == One(v = d)
  <2>1. /\ HandleRefs(d) \in Nat /\ ParentRefs(d) \in Nat /\ FrameRefs(frames, d) \in Nat
        /\ refcount[d] \in Nat /\ refcount'[d] \in Nat /\ d # NULL
    BY <1>0, <1>9, RefsFinite, SurplusIs, SurplusIsNext, TreeAssumption
  <2>2. /\ HandleRefs(d)' = HandleRefs(d) - was + new
        /\ ParentRefs(d)' = ParentRefs(d) /\ One(mounted' /\ d = Root) = root
        /\ refcount'[d] = refcount[d] + new
    BY <1>3, <1>4, <1>7 DEF ParentRefs
  <2>3. One(out = d) = 0 /\ One(releasing = d) = 0 /\ One(out' = d) = 0
    BY <1>3, <1>6, <2>1 DEF One
  <2>4. One(releasing' = d) + FrameRefs(frames', d) = was + FrameRefs(frames, d)
    <3>1. CASE OpenHandle /\ v = Top.dno /\ handles[h] = NULL /\ releasing' = Top.dno
                 /\ \A e \in Objects : FrameRefs(frames', e) = FrameRefs(frames, e) - One(Top.dno = e)
      <4>1. was = 0 /\ One(releasing' = d) = One(Top.dno = d) /\ One(Top.dno = d) \in Nat
        BY <2>1, <3>1 DEF One
      <4>. HIDE DEF was
      <4>. QED BY <2>1, <3>1, <4>1
    <3>2. CASE handles[h] = NULL /\ releasing' = NULL /\ FrameRefs(frames', d) = FrameRefs(frames, d)
      BY <2>1, <3>2 DEF One
    <3>3. CASE releasing' = handles[h] /\ FrameRefs(frames', d) = FrameRefs(frames, d)
      BY <3>3
    <3>. QED BY <1>6, <3>1, <3>2, <3>3
  <2>5. /\ root \in Nat /\ was \in Nat /\ new \in Nat /\ One(releasing' = d) \in Nat
        /\ FrameRefs(frames', d) \in Nat
    BY <1>9, RefsFiniteNext DEF One
  <2>. HIDE DEF root, was, new
  <2>6. refcount'[d] + (root + HandleRefs(d) + ParentRefs(d))
            + (One(out = d) + One(releasing = d) + FrameRefs(frames, d))
          = refcount[d] + (One(mounted' /\ d = Root) + HandleRefs(d)' + ParentRefs(d)')
              + (One(out' = d) + One(releasing' = d) + FrameRefs(frames', d))
    BY <2>1, <2>2, <2>3, <2>4, <2>5
  <2>. QED BY <1>0, <1>9, <2>6, FullBalance DEF root
<1>. QED BY <1>0, <1>6, <1>9, <1>10, Kept, BalancedCovers DEF Balanced

\* The dnode of a directory entry, released after its use.
LEMMA DirReadStep ==
  ASSUME IInv, NEW h \in Handles, DirRead(h), releasing' # NULL
  PROVE  IInv' /\ Balanced
<1>0. CallsSound /\ TypeOK /\ NotFreedInUse
  BY DEF IInv
<1>1. PICK e \in Entries :
        e[1] = handles[h] /\ DnodeCreate(handles[h], e[3]) /\ releasing' = e[3]
  BY DEF DirRead
<1>2. PICK o \in Objects : DnodeCreate(handles[h], o) /\ releasing' = o
  BY <1>1, TreeAssumption
<1>3. handles[h] \in Objects
  BY <1>1, TreeAssumption DEF Directories
<1>4. releasing = NULL /\ UNCHANGED <<handles, frames, status, out, mounted>>
  BY DEF DirRead, Idle
<1>5. refcount[handles[h]] # 0
  BY <1>0, <1>3, PointedToExists
<1>6. /\ refcount' \in [Objects -> Nat] /\ parent' \in [Objects -> Objects \cup {NULL}]
      /\ FreedHasNoParent'
      /\ \A d \in Objects : refcount'[d] + ParentRefs(d)
                              = refcount[d] + ParentRefs(d)' + One(o = d)
  BY <1>2, <1>3, <1>5, CreateFacts
<1>7. TypeOK' /\ CallsSound'
  BY <1>0, <1>2, <1>4, <1>6 DEF TypeOK, CallsSound
<1>8. ASSUME NEW d \in Objects PROVE Surplus(d)' = Surplus(d)
  <2>. DEFINE root == One(mounted /\ d = Root)
              new  == One(o = d)
  <2>1. /\ HandleRefs(d) \in Nat /\ ParentRefs(d) \in Nat /\ FrameRefs(frames, d) \in Nat
        /\ ParentRefs(d)' \in Nat /\ refcount[d] \in Nat /\ refcount'[d] \in Nat
    BY <1>0, <1>7, RefsFinite, RefsFiniteNext, SurplusIs, SurplusIsNext
  <2>2. /\ HandleRefs(d)' = HandleRefs(d) /\ One(mounted' /\ d = Root) = root
        /\ One(out' = d) = One(out = d) /\ FrameRefs(frames', d) = FrameRefs(frames, d)
    BY <1>4 DEF HandleRefs
  <2>3. One(releasing = d) = 0 /\ One(releasing' = d) = new
        /\ refcount'[d] + ParentRefs(d) = refcount[d] + ParentRefs(d)' + new
    BY <1>2, <1>4, <1>6, TreeAssumption DEF One
  <2>4. root \in Nat /\ new \in Nat /\ One(out = d) \in Nat
    BY DEF One
  <2>. HIDE DEF root, new
  <2>5. refcount'[d] + (root + HandleRefs(d) + ParentRefs(d))
            + (One(out = d) + One(releasing = d) + FrameRefs(frames, d))
          = refcount[d] + (One(mounted' /\ d = Root) + HandleRefs(d)' + ParentRefs(d)')
              + (One(out' = d) + One(releasing' = d) + FrameRefs(frames', d))
    BY <2>1, <2>2, <2>3, <2>4
  <2>. QED BY <1>0, <1>7, <2>5, FullBalance DEF root
<1>. QED BY <1>0, <1>6, <1>7, <1>8, Kept, BalancedCovers DEF Balanced

LEMMA UnmountStep ==
  ASSUME IInv, Unmount
  PROVE  IInv' /\ Balanced
<1>0. CallsSound /\ TypeOK
  BY DEF IInv
<1>1. /\ mounted /\ ~mounted' /\ releasing = NULL /\ releasing' = Root
      /\ UNCHANGED <<refcount, parent, handles, frames, status, out>>
  BY DEF Unmount, Idle
<1>2. TypeOK' /\ CallsSound' /\ FreedHasNoParent'
  BY <1>1, TreeAssumption DEF Unmount, IInv, TypeOK, CallsSound, FreedHasNoParent, Directories
<1>3. ASSUME NEW d \in Objects PROVE Surplus(d)' = Surplus(d)
  <2>1. /\ HandleRefs(d) \in Nat /\ ParentRefs(d) \in Nat /\ FrameRefs(frames, d) \in Nat
        /\ refcount[d] \in Nat
    BY <1>0, RefsFinite, SurplusIs
  <2>2. /\ HandleRefs(d)' = HandleRefs(d) /\ ParentRefs(d)' = ParentRefs(d)
        /\ One(out' = d) = One(out = d) /\ FrameRefs(frames', d) = FrameRefs(frames, d)
        /\ refcount'[d] = refcount[d]
    BY <1>1 DEF HandleRefs, ParentRefs
  <2>3. /\ One(mounted /\ d = Root) = One(releasing' = d) /\ One(mounted' /\ d = Root) = 0
        /\ One(releasing = d) = 0
        /\ One(releasing' = d) \in Nat /\ One(out = d) \in Nat
    BY <1>1, TreeAssumption DEF One
  <2>4. refcount'[d] + (One(mounted /\ d = Root) + HandleRefs(d) + ParentRefs(d))
            + (One(out = d) + One(releasing = d) + FrameRefs(frames, d))
          = refcount[d] + (One(mounted' /\ d = Root) + HandleRefs(d)' + ParentRefs(d)')
              + (One(out' = d) + One(releasing' = d) + FrameRefs(frames', d))
    BY <2>1, <2>2, <2>3
  <2>. QED BY <1>0, <1>2, <2>4, FullBalance
<1>. QED BY <1>0, <1>2, <1>3, Kept, BalancedCovers DEF Balanced

-----------------------------------------------------------------------------
(* The theorems.                                                           *)

LEMMA InitIInv == Init => IInv
<1>. SUFFICES ASSUME Init PROVE IInv
  OBVIOUS
<1>1. TypeOK
  BY TreeAssumption DEF Init, TypeOK, Directories
<1>2. CallsSound /\ FreedHasNoParent
  BY DEF Init, CallsSound, FramesSound, FreedHasNoParent
<1>3. ASSUME NEW d \in Objects PROVE refcount[d] >= References(d)
  <2>1. d # NULL
    BY TreeAssumption
  <2>2. HandleRefs(d) = 0 /\ ParentRefs(d) = 0 /\ FrameRefs(frames, d) = 0
    <3>1. /\ {h \in Handles : handles[h] = d} = {} /\ {c \in Objects : parent[c] = d} = {}
          /\ {i \in DOMAIN frames : frames[i].dno = d} = {}
      BY <2>1 DEF Init
    <3>. QED BY <3>1, FS_EmptySet DEF HandleRefs, ParentRefs, FrameRefs
  <2>3. One(out = d) = 0 /\ One(releasing = d) = 0
        /\ One(mounted /\ d = Root) = refcount[d] /\ refcount[d] \in Nat
    BY <2>1 DEF Init, One
  <2>. QED BY <1>1, <2>2, <2>3, SurplusIs
<1>. QED BY <1>1, <1>2, <1>3 DEF IInv, NotFreedInUse

\* What every step does to the invariant and to the counts.
LEMMA NextStep ==
  ASSUME IInv, [Next]_vars
  PROVE  /\ IInv'
         /\ \/ Balanced
            \/ LookupNotADirectory
            \/ LookupNoMemory
            \/ \E h \in Handles : DirRead(h) /\ releasing' = NULL
<1>1. CASE Program
  BY <1>1, ReleaseStep, LookupSteps, LookupNameStep, LeakingSteps, ResolveSteps, OpenSteps,
     HandleSteps DEF Program
<1>2. CASE \E h \in Handles, path \in Paths : Open(h, path)
  BY <1>2, OpenSteps
<1>3. CASE \E h \in Handles : OpenVolume(h) \/ Close(h)
  BY <1>3, HandleSteps
<1>4. CASE \E h \in Handles : DirRead(h)
  BY <1>4, DirReadStep, LeakingSteps
<1>5. CASE Unmount
  BY <1>5, UnmountStep
<1>6. CASE UNCHANGED vars
  <2>1. IInv'
    BY <1>6 DEF IInv, vars, TypeOK, CallsSound, FreedHasNoParent, NotFreedInUse, References
  <2>2. Balanced
    BY <1>6 DEF vars, Balanced, Surplus, References
  <2>. QED BY <2>1, <2>2
<1>. QED BY <1>1, <1>2, <1>3, <1>4, <1>5, <1>6 DEF Next

LEMMA Invariant == Spec => []IInv
<1>1. IInv /\ [Next]_vars => IInv'
  BY NextStep
<1>. QED BY InitIInv, <1>1, PTL DEF Spec

(* The stack of calls, the counts and the pointers to dnodes are what the  *)
(* functions of fsw_core.c declare.                                        *)
THEOREM TypeCorrect == Spec => []TypeOK
<1>1. IInv => TypeOK
  BY DEF IInv
<1>. QED BY <1>1, Invariant, PTL

(* No dnode is freed while anything points to it: for every tree, cyclic   *)
(* links included, and whatever fails.                                     *)
THEOREM NeverFreedInUse == Spec => []NotFreedInUse
<1>1. IInv => NotFreedInUse
  BY DEF IInv
<1>. QED BY <1>1, Invariant, PTL

(* Every reference is given back, but for a path that goes on after a file *)
(* and for a name that cannot be copied.                                   *)
THEOREM NoOtherLeak == Spec => OnlyFailuresLeak
<1>1. IInv /\ [Next]_vars =>
        [ (\E d \in Objects : Surplus(d)' # Surplus(d)) =>
            \/ LookupNotADirectory \/ LookupNoMemory
            \/ \E h \in Handles : DirRead(h) /\ releasing' = NULL ]_vars
  BY NextStep DEF Balanced
<1>. QED BY <1>1, Invariant, PTL DEF Spec, OnlyFailuresLeak
-----------------------------------------------------------------------------
(* What is opened. A lookup or resolution in progress leads to what the    *)
(* call was made for, and so does what it returns; a call that waits does  *)
(* so for the call above it. What is left of a path therefore leads to what*)
(* the whole path names.                                                   *)

\* What a lookup, or a resolution, leads to.
Meaning(f) ==
  IF f.fn = "lookup_path" THEN Goal[<<f.dno, f.rest, f.first>>] ELSE Goal[<<f.dno, <<>>, FALSE>>]

\* What the call at place k of the stack is made for.
Wanted(s, req, k) ==
  IF k = 2 THEN Goal[<<req.from, req.path, TRUE>>] ELSE Goal[<<s[k - 1].dno, <<>>, FALSE>>]

\* A call that may wait for fn.
Waits(f, fn) ==
  \/ f.fn = "dir_open" /\ (f.dno # NULL => fn = "resolve")
  \/ /\ f.fn = "lookup_path" /\ fn = "resolve" /\ Type[f.dno] = "SYMLINK"
     /\ f.rest # <<>> /\ Head(f.rest) # NoName
  \/ f.fn = "resolve" /\ fn = "lookup_path" /\ Type[f.dno] = "SYMLINK"

Leads(s, req, i) ==
  /\ Meaning(s[i]) = Wanted(s, req, i)
  /\ s[i].fn = "lookup_path" => s[i].rest \in Tree!Rests
  /\ Waits(s[i - 1], s[i].fn)

Chained(s, req) == \A i \in 2 .. Len(s) : Leads(s, req, i)

AnswerRight ==
  status = "success" =>
    /\ frames # <<>>
    /\ Goal[<<out, <<>>, FALSE>>] = Wanted(frames, request, Len(frames) + 1)
    /\ \E fn \in {"lookup_path", "resolve"} :
         Waits(Top, fn) /\ (fn = "resolve" => Type[out] # "SYMLINK")

\* The dnode that a handle is about to get.
FoundRight ==
  Len(frames) = 1 /\ status = "running" /\ Top.dno # NULL =>
    Top.dno = Goal[<<request.from, request.path, TRUE>>]

ParentsTrue == \A o \in Objects : parent[o] # NULL => \E e \in Entries : e[1] = parent[o] /\ e[3] = o

RequestTrue ==
  IF frames = <<>> THEN request = NULL ELSE request \in [from : Objects, path : Paths]

OInv ==
  /\ Chained(frames, request) /\ AnswerRight /\ FoundRight /\ ParentsTrue /\ RequestTrue


-----------------------------------------------------------------------------
\* What paths name.

LEMMA SameLinks == Tree!Links = Links
BY DEF Tree!Links, Links

LEMMA SameNoName == Tree!NoName = NoName
BY Zenon DEF Tree!NoName, NoName

\* The end of an end of a path is one.
LEMMA RestsFacts ==
  /\ <<>> \in Tree!Rests /\ Tree!Rests \subseteq Seq(STRING)
  /\ Paths \subseteq Tree!Rests
  /\ \A l \in Links : Target[l] \in Tree!Rests
  /\ \A s \in Tree!Rests : s # <<>> => Tail(s) \in Tree!Rests
<1>. DEFINE All == Paths \cup { Target[l] : l \in Links } \cup {<<>>}
<1>1. All \subseteq Seq(STRING)
  <2>1. \A l \in Links : Target[l] \in Seq(STRING)
    BY TreeAssumption
  <2>2. <<>> \in Seq(STRING)
    OBVIOUS
  <2>. QED BY <2>1, <2>2, TreeAssumption
<1>2. /\ \A path \in All : \A i \in 1 .. Len(path) + 1 :
           SubSeq(path, i, Len(path)) \in Tree!Rests
      /\ \A s \in Tree!Rests : \E path \in All : \E i \in 1 .. Len(path) + 1 :
           s = SubSeq(path, i, Len(path))
  BY SameLinks DEF Tree!Rests
<1>3. <<>> \in All /\ Paths \subseteq All /\ \A l \in Links : Target[l] \in All
  OBVIOUS
<1>. HIDE DEF All
<1>4. ASSUME NEW path \in All PROVE path \in Tree!Rests
  <2>1. path \in Seq(STRING) /\ Len(path) \in Nat
    BY <1>1
  <2>2. 1 \in 1 .. Len(path) + 1 /\ SubSeq(path, 1, Len(path)) = path
    BY <2>1, SubSeqFull
  <2>. QED BY <1>2, <2>2
<1>5. ASSUME NEW s \in Tree!Rests
      PROVE  s \in Seq(STRING) /\ (s # <<>> => Tail(s) \in Tree!Rests)
  <2>1. PICK path \in All : \E i \in 1 .. Len(path) + 1 : s = SubSeq(path, i, Len(path))
    BY <1>2
  <2>2. PICK i \in 1 .. Len(path) + 1 : s = SubSeq(path, i, Len(path))
    BY <2>1
  <2>3. path \in Seq(STRING) /\ Len(path) \in Nat
    BY <1>1
  <2>4. CASE i = Len(path) + 1
    <3>1. s = <<>>
      BY <2>2, <2>3, <2>4, SubSeqEmpty
    <3>. QED BY <3>1
  <2>5. CASE i # Len(path) + 1
    <3>1. i \in 1 .. Len(path) /\ Len(path) \in i .. Len(path) /\ i + 1 \in 1 .. Len(path) + 1
      BY <2>3, <2>5
    <3>2. Tail(s) = SubSeq(path, i + 1, Len(path))
      BY <2>2, <2>3, <3>1, HeadTailOfSubSeq
    <3>3. s \in Seq(STRING)
      <4>1. \A j \in i .. Len(path) : path[j] \in STRING
        BY <2>3, <3>1
      <4>. QED BY <2>2, <2>3, <3>1, <4>1, SubSeqProperties
    <3>. QED BY <1>2, <3>1, <3>2, <3>3
  <2>. QED BY <2>4, <2>5
<1>. QED BY <1>3, <1>4, <1>5

\* The equations of Goal, one way of going on after the other.
LEMMA GoalEmpty ==
  ASSUME NEW o \in Objects, NEW whole \in BOOLEAN
  PROVE  /\ Goal[<<o, <<>>, whole>>] = Goal[<<o, <<>>, FALSE>>]
         /\ Type[o] # "SYMLINK" => Goal[<<o, <<>>, whole>>] = o
BY GoalAssumption, SameNoName, ZenonT(60) DEF Tree!GoalRight

LEMMA GoalLink ==
  ASSUME NEW o \in Objects, Type[o] = "SYMLINK", Tree!Parent(o) \in Objects
  PROVE  Goal[<<o, <<>>, FALSE>>] = Goal[<<Tree!Parent(o), Target[o], TRUE>>]
<1>1. Tree!Parent(o) # NULL
  BY TreeAssumption
<1>2. Goal[<<o, <<>>, FALSE>>] = Tree!From(Tree!Parent(o), Target[o], TRUE)
  BY GoalAssumption, SameNoName DEF Tree!GoalRight
<1>. QED BY <1>1, <1>2 DEF Tree!From

LEMMA GoalNothing ==
  ASSUME NEW o \in Objects, NEW path \in Tree!Rests, path # <<>>, Head(path) = NoName,
         NEW whole \in BOOLEAN
  PROVE  Goal[<<o, path, whole>>] = Goal[<<IF whole THEN Root ELSE o, Tail(path), FALSE>>]
<1>1. Root # NULL /\ o # NULL
  BY TreeAssumption DEF Directories
<1>2. Goal[<<o, path, whole>>] = Tree!From(IF whole THEN Root ELSE o, Tail(path), FALSE)
  BY GoalAssumption, SameNoName DEF Tree!GoalRight
<1>. QED BY <1>1, <1>2 DEF Tree!From

LEMMA GoalOverLink ==
  ASSUME NEW o \in Objects, Type[o] = "SYMLINK",
         NEW path \in Tree!Rests, path # <<>>, Head(path) # NoName, NEW whole \in BOOLEAN,
         NEW p \in Objects, Goal[<<o, <<>>, FALSE>>] = p
  PROVE  Goal[<<o, path, whole>>] = Goal[<<p, path, whole>>]
<1>1. p # NULL
  BY TreeAssumption
<1>2. Goal[<<o, path, whole>>] = Tree!From(Goal[<<o, <<>>, FALSE>>], path, whole)
  BY GoalAssumption, SameNoName DEF Tree!GoalRight
<1>. QED BY <1>1, <1>2 DEF Tree!From

LEMMA GoalStep ==
  ASSUME NEW o \in Objects, Type[o] = "DIR",
         NEW path \in Tree!Rests, path # <<>>, Head(path) # NoName, NEW whole \in BOOLEAN,
         NEW p \in Objects, Tree!Step(o, Head(path)) = p
  PROVE  Goal[<<o, path, whole>>] = Goal[<<p, Tail(path), FALSE>>]
<1>1. p # NULL
  BY TreeAssumption
<1>2. Goal[<<o, path, whole>>] = Tree!From(Tree!Step(o, Head(path)), Tail(path), FALSE)
  BY GoalAssumption, SameNoName DEF Tree!GoalRight
<1>. QED BY <1>1, <1>2 DEF Tree!From

\* The parent of a directory or link, and the entry of a name, are unique.
LEMMA ParentIs ==
  ASSUME NEW e \in Entries, Type[e[3]] # "FILE" PROVE Tree!Parent(e[3]) = e[1]
<1>. DEFINE f == CHOOSE f \in Entries : f[3] = e[3]
<1>1. f \in Entries /\ f[3] = e[3]
  OBVIOUS
<1>2. f = e
  BY <1>1, NamesAssumption
<1>. QED BY <1>2 DEF Tree!Parent

LEMMA ChildIs ==
  ASSUME NEW e \in Entries PROVE Tree!Child(e[1], e[2]) = e[3]
<1>. DEFINE f == CHOOSE f \in Entries : f[1] = e[1] /\ f[2] = e[2]
<1>1. f \in Entries /\ f[1] = e[1] /\ f[2] = e[2]
  OBVIOUS
<1>2. f = e
  BY <1>1, NamesAssumption
<1>. QED BY <1>2 DEF Tree!Child


-----------------------------------------------------------------------------
\* The stack.

LEMMA OneCallChained ==
  ASSUME NEW s \in Seq(Frame), Len(s) \in {0, 1}, NEW req PROVE Chained(s, req)
<1>1. PICK n \in {0, 1} : n = Len(s)
  OBVIOUS
<1>2. 2 .. n = {}
  OBVIOUS
<1>. QED BY <1>1, <1>2 DEF Chained

LEMMA Stacked ==
  ASSUME NEW x, NEW y
  PROVE  /\ Append(<<>>, x) = <<x>> /\ Append(<<x>>, y) = <<x, y>>
         /\ Len(<<x>>) = 1 /\ <<x>>[1] = x
<1>1. Append(<<>>, x) = <<x>>
  OBVIOUS
<1>2. Append(<<x>>, y) = <<x, y>>
  <2>1. <<x>> \in Seq({x, y}) /\ Len(<<x>>) = 1 /\ <<x>>[1] = x
    OBVIOUS
  <2>2. /\ Append(<<x>>, y) \in Seq({x, y}) /\ Len(Append(<<x>>, y)) = 2
        /\ Append(<<x>>, y)[1] = x /\ Append(<<x>>, y)[2] = y
    BY <2>1
  <2>3. <<x, y>> \in Seq({x, y}) /\ Len(<<x, y>>) = 2 /\ <<x, y>>[1] = x /\ <<x, y>>[2] = y
    OBVIOUS
  <2>4. PICK s \in Seq({x, y}), t \in Seq({x, y}) : s = Append(<<x>>, y) /\ t = <<x, y>>
    BY <2>2, <2>3
  <2>5. Len(s) = Len(t) /\ \A i \in 1 .. Len(s) : s[i] = t[i]
    BY <2>2, <2>3, <2>4
  <2>6. s = t
    BY <2>5, SeqEqual
  <2>. QED BY <2>4, <2>6
<1>3. Len(<<x>>) = 1 /\ <<x>>[1] = x
  OBVIOUS
<1>. QED BY <1>1, <1>2, <1>3

LEMMA DirOpenFrame ==
  ASSUME NEW d \in Objects \cup {NULL}
  PROVE  /\ DirOpen(d) \in Frame /\ <<DirOpen(d)>> \in Seq(Frame)
         /\ DirOpen(d).fn = "dir_open" /\ DirOpen(d).dno = d
<1>1. <<>> \in Seq(STRING)
  OBVIOUS
<1>2. DirOpen(d) \in Frame /\ DirOpen(d).fn = "dir_open" /\ DirOpen(d).dno = d
  BY <1>1 DEF DirOpen, Frame
<1>. QED BY <1>2

LEMMA PushedChained ==
  ASSUME NEW s \in Seq(Frame), s # <<>>, NEW f \in Frame, NEW req, Chained(s, req),
         Meaning(f) = Wanted(s, req, Len(s) + 1),
         f.fn = "lookup_path" => f.rest \in Tree!Rests,
         Waits(s[Len(s)], f.fn)
  PROVE  Chained(Append(s, f), req)
<1>. DEFINE t == Append(s, f)
            n == Len(s) + 1
<1>1. /\ Len(s) \in Nat \ {0} /\ Len(t) = n /\ t[n] = f
      /\ \A i \in 1 .. Len(s) : t[i] = s[i]
  OBVIOUS
<1>. HIDE DEF t
<1>2. ASSUME NEW i \in 2 .. Len(s) PROVE Leads(t, req, i)
  <2>1. t[i] = s[i] /\ t[i - 1] = s[i - 1]
    BY <1>1
  <2>2. Leads(s, req, i)
    BY DEF Chained
  <2>. QED BY <2>1, <2>2 DEF Leads, Wanted
<1>3. Leads(t, req, n)
  <2>1. t[n] = f /\ n - 1 = Len(s) /\ t[n - 1] = s[n - 1]
    BY <1>1
  <2>. QED BY <2>1 DEF Leads, Wanted
<1>4. \A i \in 2 .. n : i \in 2 .. Len(s) \/ i = n
  BY <1>1
<1>. QED BY <1>1, <1>2, <1>3, <1>4 DEF Chained, t

\* What is known of the call at the top, whoever its caller is.
LEMMA CalledFor ==
  ASSUME TypeOK, CallsSound, frames # <<>>, Chained(frames, request)
  PROVE  /\ Callers \in Seq(Frame) /\ Top \in Frame /\ frames = Append(Callers, Top)
         /\ Chained(Callers, request)
         /\ Top = frames[Len(frames)]
         /\ Top.fn = "dir_open" <=> Callers = <<>>
         /\ Top.fn = "dir_open" <=> Len(frames) = 1
         /\ Top.fn # "dir_open" =>
              /\ Top.dno \in Objects /\ Callers # <<>>
              /\ Meaning(Top) = Wanted(Callers, request, Len(Callers) + 1)
              /\ Wanted(frames, request, Len(frames) + 1) = Goal[<<Top.dno, <<>>, FALSE>>]
              /\ Top.fn = "lookup_path" => Top.rest \in Tree!Rests
              /\ Waits(Callers[Len(Callers)], Top.fn)
<1>. DEFINE n == Len(frames)
<1>1. /\ Callers \in Seq(Frame) /\ Top \in Frame /\ frames = Append(Callers, Top)
      /\ n \in Nat \ {0} /\ Len(Callers) = n - 1
      /\ \A i \in 1 .. n - 1 : Callers[i] = frames[i]
  BY CallersFacts
<1>2. Top = frames[n]
  BY DEF Top
<1>3. /\ Top.fn = "dir_open" <=> Callers = <<>>
      /\ Top.fn # "dir_open" => Top.dno \in Objects
  BY CallersSound, TopFacts
<1>. HIDE DEF Callers, Top
<1>4. Callers = <<>> <=> n = 1
  BY <1>1
<1>5. Chained(Callers, request)
  <2>1. ASSUME NEW i \in 2 .. Len(Callers) PROVE Leads(Callers, request, i)
    <3>1. i \in 2 .. n /\ Callers[i] = frames[i] /\ Callers[i - 1] = frames[i - 1]
      BY <1>1
    <3>2. Leads(frames, request, i)
      BY <3>1 DEF Chained
    <3>. QED BY <3>1, <3>2 DEF Leads, Wanted
  <2>. QED BY <2>1 DEF Chained
<1>6. ASSUME Top.fn # "dir_open"
      PROVE  /\ Meaning(Top) = Wanted(Callers, request, Len(Callers) + 1)
             /\ Wanted(frames, request, n + 1) = Goal[<<Top.dno, <<>>, FALSE>>]
             /\ Top.fn = "lookup_path" => Top.rest \in Tree!Rests
             /\ Waits(Callers[Len(Callers)], Top.fn)
  <2>1. n \in 2 .. n /\ n # 1 /\ Len(Callers) + 1 = n /\ Callers[n - 1] = frames[n - 1]
        /\ Len(Callers) = n - 1
    BY <1>1, <1>3, <1>4, <1>6
  <2>2. Leads(frames, request, n)
    BY <2>1 DEF Chained
  <2>3. Wanted(frames, request, n) = Wanted(Callers, request, n)
    BY <2>1 DEF Wanted
  <2>4. n + 1 # 2 /\ n + 1 - 1 = n
    BY <2>1
  <2>5. Wanted(frames, request, n + 1) = Goal[<<Top.dno, <<>>, FALSE>>]
    BY <1>2, <2>4 DEF Wanted
  <2>. HIDE DEF n
  <2>. QED BY <1>2, <2>1, <2>2, <2>3, <2>5 DEF Leads
<1>. QED BY <1>1, <1>2, <1>3, <1>4, <1>5, <1>6

\* What the answer to a waiting call leads to.
LEMMA Answer ==
  ASSUME TypeOK, CallsSound, frames # <<>>, status = "success", AnswerRight
  PROVE  /\ out \in Objects
         /\ Goal[<<out, <<>>, FALSE>>] = Wanted(frames, request, Len(frames) + 1)
         /\ \/ Top.fn = "resolve" /\ Type[Top.dno] = "SYMLINK"
            \/ Top.fn = "dir_open" /\ Top.dno = NULL
            \/ /\ Top.fn = "dir_open" \/ /\ Top.fn = "lookup_path" /\ Type[Top.dno] = "SYMLINK"
                                         /\ Top.rest # <<>> /\ Head(Top.rest) # NoName
               /\ Goal[<<out, <<>>, FALSE>>] = out
<1>1. out \in Objects
  BY DEF TypeOK, CallsSound
<1>2. PICK fn \in {"lookup_path", "resolve"} :
        Waits(Top, fn) /\ (fn = "resolve" => Type[out] # "SYMLINK")
  BY DEF AnswerRight
<1>3. Type[out] # "SYMLINK" => Goal[<<out, <<>>, FALSE>>] = out
  BY <1>1, GoalEmpty
<1>4. Goal[<<out, <<>>, FALSE>>] = Wanted(frames, request, Len(frames) + 1)
  BY DEF AnswerRight
<1>. HIDE DEF Top
<1>. QED BY <1>1, <1>2, <1>3, <1>4 DEF Waits

-----------------------------------------------------------------------------
\* What each kind of step does to it.

\* Steps that leave the calls alone.
LEMMA CallsKept ==
  ASSUME OInv, ParentsTrue', UNCHANGED <<frames, status, out, request>>
  PROVE  OInv'
BY DEF OInv, Chained, Leads, Wanted, AnswerRight, FoundRight, ParentsTrue, RequestTrue, Top

LEMMA ContinuedRight ==
  ASSUME TypeOK, CallsSound, OInv, frames # <<>>, Top.fn # "dir_open",
         NEW f \in Frame, f.fn = Top.fn, Meaning(f) = Meaning(Top),
         f.fn = "lookup_path" => f.rest \in Tree!Rests,
         Continue(f), request' = request, ParentsTrue'
  PROVE  OInv'
<1>1. frames' = Append(Callers, f) /\ status' = "running"
  BY DEF Continue
<1>2. /\ Callers \in Seq(Frame) /\ Callers # <<>> /\ Chained(Callers, request)
      /\ Meaning(f) = Wanted(Callers, request, Len(Callers) + 1)
      /\ Waits(Callers[Len(Callers)], f.fn)
  BY CalledFor DEF OInv
<1>. HIDE DEF Callers, Top
<1>3. Chained(frames', request')
  BY <1>1, <1>2, PushedChained
<1>4. frames' # <<>> /\ Len(frames') # 1
  BY <1>1, <1>2
<1>5. RequestTrue'
  BY <1>4 DEF OInv, RequestTrue
<1>. QED BY <1>1, <1>3, <1>4, <1>5 DEF OInv, AnswerRight, FoundRight

LEMMA CalledRight ==
  ASSUME TypeOK, CallsSound, OInv, frames # <<>>, Top.fn # "dir_open",
         NEW g \in Frame, Meaning(g) = Goal[<<Top.dno, <<>>, FALSE>>],
         g.fn = "lookup_path" => g.rest \in Tree!Rests, Waits(Top, g.fn),
         Call(Top, g), request' = request, ParentsTrue'
  PROVE  OInv'
<1>1. frames' = Append(frames, g) /\ status' = "running"
  BY CalledFor DEF Call, OInv
<1>2. /\ frames \in Seq(Frame) /\ Chained(frames, request)
      /\ Meaning(g) = Wanted(frames, request, Len(frames) + 1)
      /\ Waits(frames[Len(frames)], g.fn)
  BY CalledFor DEF OInv, TypeOK
<1>. HIDE DEF Callers, Top
<1>3. Chained(frames', request')
  BY <1>1, <1>2, PushedChained
<1>4. frames' # <<>> /\ Len(frames') # 1
  BY <1>1, <1>2
<1>5. RequestTrue'
  BY <1>4 DEF OInv, RequestTrue
<1>. QED BY <1>1, <1>3, <1>4, <1>5 DEF OInv, AnswerRight, FoundRight

LEMMA SucceededRight ==
  ASSUME TypeOK, CallsSound, OInv, frames # <<>>, Top.fn # "dir_open",
         Goal[<<Top.dno, <<>>, FALSE>>] = Meaning(Top),
         Top.fn = "resolve" => Type[Top.dno] # "SYMLINK",
         Succeed(Top.dno), request' = request, ParentsTrue'
  PROVE  OInv'
<1>1. frames' = Callers /\ status' = "success" /\ out' = Top.dno
  BY DEF Succeed
<1>2. /\ Callers \in Seq(Frame) /\ Callers # <<>> /\ Chained(Callers, request)
      /\ Meaning(Top) = Wanted(Callers, request, Len(Callers) + 1)
      /\ Waits(Callers[Len(Callers)], Top.fn) /\ Top.fn \in {"lookup_path", "resolve"}
  BY CalledFor, TopFacts DEF OInv
<1>3. Top' = Callers[Len(Callers)]
  BY <1>1 DEF Top
<1>4. PICK c : c = Top
  OBVIOUS
<1>. HIDE DEF Callers
<1>5. AnswerRight'
  <2>1. /\ frames' # <<>> /\ Goal[<<out', <<>>, FALSE>>] = Wanted(frames', request', Len(frames') + 1)
    BY <1>1, <1>2
  <2>2. Waits(Top', c.fn) /\ (c.fn = "resolve" => Type[out'] # "SYMLINK")
        /\ c.fn \in {"lookup_path", "resolve"}
    BY <1>1, <1>2, <1>3, <1>4
  <2>. QED BY <2>1, <2>2 DEF AnswerRight
<1>6. RequestTrue'
  BY <1>1, <1>2 DEF OInv, RequestTrue
<1>. QED BY <1>1, <1>2, <1>5, <1>6 DEF OInv, FoundRight

LEMMA FailedRight ==
  ASSUME TypeOK, CallsSound, OInv, frames # <<>>, Top.fn # "dir_open",
         Fail, request' = request, ParentsTrue'
  PROVE  OInv'
<1>1. frames' = Callers /\ status' = "error"
  BY DEF Fail
<1>2. Callers # <<>> /\ Chained(Callers, request)
  BY CalledFor DEF OInv
<1>3. RequestTrue'
  BY <1>1, <1>2 DEF OInv, RequestTrue
<1>. QED BY <1>1, <1>2, <1>3 DEF OInv, AnswerRight, FoundRight


-----------------------------------------------------------------------------
\* The steps.

\* A parent is set for a dnode made from an entry, and reset.
LEMMA ParentSet ==
  ASSUME TypeOK, ParentsTrue, NEW e \in Entries,
         DnodeCreate(e[1], e[3]) \/ DnodeCreateFails(e[1], e[3])
  PROVE  ParentsTrue'
<1>1. e[1] \in Objects /\ e[3] \in Objects
  BY TreeAssumption DEF Directories
<1>2. parent' = parent \/ parent' = [parent EXCEPT ![e[3]] = e[1]]
  BY DEF DnodeCreate, DnodeCreateFails
<1>. QED BY <1>1, <1>2, ZenonT(60) DEF ParentsTrue, TypeOK

LEMMA StackKeepingSteps ==
  ASSUME IInv, OInv,
         \/ Release
         \/ \E h \in Handles : OpenVolume(h) \/ DirRead(h) \/ Close(h)
         \/ Unmount
         \/ UNCHANGED vars
  PROVE  OInv'
<1>0. TypeOK /\ ParentsTrue
  BY DEF IInv, OInv
<1>1. UNCHANGED <<frames, status, out, request>>
  BY DEF Release, OpenVolume, DirRead, Close, Unmount, vars
<1>2. CASE parent' = parent
  BY <1>0, <1>1, <1>2, CallsKept DEF ParentsTrue
<1>3. CASE Release /\ parent' # parent
  <2>1. parent' = [parent EXCEPT ![releasing] = NULL] /\ releasing \in Objects
    BY <1>0, <1>3 DEF Release, TypeOK
  <2>2. ParentsTrue'
    BY <1>0, <2>1 DEF ParentsTrue, TypeOK
  <2>. QED BY <1>1, <2>2, CallsKept
<1>4. CASE \E h \in Handles : DirRead(h)
  <2>1. PICK h \in Handles : DirRead(h)
    BY <1>4
  <2>2. PICK e \in Entries :
          e[1] = handles[h] /\ (DnodeCreate(e[1], e[3]) \/ DnodeCreateFails(e[1], e[3]))
    BY <2>1 DEF DirRead
  <2>3. ParentsTrue'
    BY <1>0, <2>2, ParentSet
  <2>. QED BY <1>1, <2>3, CallsKept
<1>. QED BY <1>2, <1>3, <1>4 DEF OpenVolume, Close, Unmount, vars

\* The next component: what is left of the path leads from where it leads to.
LEMMA DescendRight ==
  ASSUME TypeOK, CallsSound, OInv, frames # <<>>, Top.fn = "lookup_path", Top.rest # <<>>,
         NEW o \in Objects, Meaning(Top) = Goal[<<o, Tail(Top.rest), FALSE>>],
         Descend(o), request' = request, ParentsTrue'
  PROVE  OInv'
<1>. DEFINE f == [Top EXCEPT !.dno = o, !.rest = Tail(@), !.first = FALSE]
<1>1. Top \in Frame /\ Top.rest \in Tree!Rests /\ Top.rest \in Seq(STRING)
  BY CalledFor, TopFacts DEF OInv
<1>2. Tail(Top.rest) \in Tree!Rests /\ Tail(Top.rest) \in Seq(STRING)
  BY <1>1, RestsFacts
<1>3. Continue(f)
  BY DEF Descend
<1>. HIDE DEF Top
<1>4. f \in Frame /\ f.fn = "lookup_path" /\ f.dno = o /\ f.rest = Tail(Top.rest) /\ ~f.first
  BY <1>1, <1>2 DEF Frame
<1>. HIDE DEF f
<1>5. Meaning(f) = Meaning(Top)
  BY <1>4 DEF Meaning, Frame
<1>. QED BY <1>2, <1>3, <1>4, <1>5, ContinuedRight

\* The components of a path, one after the other.
LEMMA DescendingSteps ==
  ASSUME IInv, OInv, LookupEmpty \/ LookupDot \/ LookupDotDot \/ LookupName
  PROVE  OInv'
<1>0. TypeOK /\ CallsSound /\ ParentsTrue /\ Chained(frames, request)
  BY DEF IInv, OInv
<1>1. /\ frames # <<>> /\ Top.fn = "lookup_path" /\ Top.rest # <<>> /\ request' = request
  BY DEF LookupEmpty, LookupDot, LookupDotDot, LookupName, OnName, InLookup, Running
<1>2. /\ Top.dno \in Objects /\ Top.rest \in Tree!Rests /\ Top.first \in BOOLEAN
      /\ Meaning(Top) = Goal[<<Top.dno, Top.rest, Top.first>>]
      /\ Root \in Objects
  BY <1>0, <1>1, CalledFor, TopFacts, TreeAssumption DEF Meaning, Directories
<1>3. CASE LookupEmpty
  <2>. DEFINE o == IF Top.first THEN Root ELSE Top.dno
  <2>1. Head(Top.rest) = NoName /\ Descend(o) /\ parent' = parent
    BY <1>3 DEF LookupEmpty
  <2>2. Meaning(Top) = Goal[<<o, Tail(Top.rest), FALSE>>]
    BY <1>1, <1>2, <2>1, GoalNothing
  <2>3. o \in Objects /\ ParentsTrue'
    BY <1>0, <1>2, <2>1 DEF ParentsTrue
  <2>. HIDE DEF o
  <2>. QED BY <1>0, <1>1, <2>1, <2>2, <2>3, DescendRight
<1>4. ASSUME NEW o \in Objects, Head(Top.rest) # NoName, Type[Top.dno] = "DIR",
             Tree!Step(Top.dno, Head(Top.rest)) = o, Descend(o), ParentsTrue'
      PROVE  OInv'
  <2>1. Meaning(Top) = Goal[<<o, Tail(Top.rest), FALSE>>]
    BY <1>1, <1>2, <1>4, GoalStep, ZenonT(60)
  <2>. QED BY <1>0, <1>1, <1>4, <2>1, DescendRight
<1>5. CASE LookupDot
  <2>1. /\ Head(Top.rest) # NoName /\ Head(Top.rest) = "." /\ Type[Top.dno] = "DIR"
        /\ Descend(Top.dno) /\ parent' = parent
    BY <1>5 DEF LookupDot, OnName
  <2>2. Tree!Step(Top.dno, Head(Top.rest)) = Top.dno
    BY <2>1 DEF Tree!Step
  <2>3. ParentsTrue'
    BY <1>0, <2>1 DEF ParentsTrue
  <2>. QED BY <1>2, <1>4, <2>1, <2>2, <2>3
<1>6. CASE LookupDotDot
  <2>. DEFINE o == parent[Top.dno]
  <2>1. /\ Head(Top.rest) # NoName /\ Head(Top.rest) = ".." /\ Type[Top.dno] = "DIR"
        /\ Descend(o) /\ parent' = parent /\ o # NULL
    BY <1>6 DEF LookupDotDot, OnName
  <2>2. PICK e \in Entries : e[1] = o /\ e[3] = Top.dno
    BY <1>0, <1>2, <2>1 DEF ParentsTrue
  <2>3. Tree!Parent(Top.dno) = o /\ o \in Objects
    BY <2>1, <2>2, ParentIs, TreeAssumption DEF Directories
  <2>. HIDE DEF o
  <2>4. Tree!Step(Top.dno, Head(Top.rest)) = o
    BY <2>1, <2>3 DEF Tree!Step
  <2>5. ParentsTrue'
    BY <1>0, <2>1 DEF ParentsTrue
  <2>. QED BY <1>4, <2>1, <2>3, <2>4, <2>5
<1>7. CASE LookupName
  <2>1. PICK e \in Named(Top.dno, Head(Top.rest)) : DnodeCreate(Top.dno, e[3]) /\ Descend(e[3])
    BY <1>7 DEF LookupName
  <2>2. /\ Head(Top.rest) # NoName /\ Type[Top.dno] = "DIR" /\ Head(Top.rest) \notin {".", ".."}
        /\ e \in Entries /\ e[1] = Top.dno /\ e[2] = Head(Top.rest)
    BY <1>7 DEF LookupName, OnName, Named
  <2>3. Tree!Child(Top.dno, Head(Top.rest)) = e[3] /\ e[3] \in Objects
    BY <2>2, ChildIs, TreeAssumption
  <2>4. Tree!Step(Top.dno, Head(Top.rest)) = e[3]
    BY <2>2, <2>3 DEF Tree!Step
  <2>5. ParentsTrue'
    BY <1>0, <2>1, <2>2, ParentSet
  <2>. QED BY <1>4, <2>1, <2>2, <2>3, <2>4, <2>5
<1>. QED BY <1>3, <1>5, <1>6, <1>7

\* A symbolic link on the way, and one at the end.
LEMMA LinkSteps ==
  ASSUME IInv, OInv, LookupLink \/ LookupResolved \/ ResolveLink \/ ResolveFollow
  PROVE  OInv'
<1>0. TypeOK /\ CallsSound /\ ParentsTrue /\ ParentsTrue' /\ Chained(frames, request)
      /\ request' = request /\ AnswerRight
  BY DEF IInv, OInv, ParentsTrue, LookupLink, LookupResolved, ResolveLink, ResolveFollow
<1>1. /\ frames # <<>> /\ Top.fn \in {"lookup_path", "resolve"}
  BY DEF LookupLink, LookupResolved, ResolveLink, ResolveFollow, OnName, InLookup, Running,
         Answered
<1>2. /\ Top \in Frame /\ Top.dno \in Objects /\ Top.first \in BOOLEAN
      /\ Top.fn = "lookup_path" => Top.rest \in Tree!Rests
      /\ Wanted(frames, request, Len(frames) + 1) = Goal[<<Top.dno, <<>>, FALSE>>]
  BY <1>0, <1>1, CalledFor, TopFacts
<1>3. CASE LookupLink
  <2>. DEFINE g == Resolve(Top.dno)
  <2>1. Top.fn = "lookup_path" /\ Waits(Top, "resolve") /\ Call(Top, g)
    BY <1>3 DEF LookupLink, OnName, InLookup, Running, Waits
  <2>2. /\ g.fn = "resolve" /\ g \in Frame /\ Meaning(g) = Goal[<<Top.dno, <<>>, FALSE>>]
    <3>1. PICK d \in Objects : d = Top.dno
      BY <1>2
    <3>. QED BY <3>1 DEF Resolve, Meaning, Frame
  <2>. HIDE DEF g
  <2>. QED BY <1>0, <1>1, <2>1, <2>2, CalledRight
<1>4. CASE ResolveLink
  <2>. DEFINE p == parent[Top.dno]
              g == Lookup(p, Target[Top.dno])
  <2>1. /\ Top.fn = "resolve" /\ Type[Top.dno] = "SYMLINK" /\ p # NULL /\ Call(Top, g)
        /\ Waits(Top, "lookup_path")
    BY <1>4 DEF ResolveLink, Running, Waits
  <2>2. PICK e \in Entries : e[1] = p /\ e[3] = Top.dno
    BY <1>0, <1>2, <2>1 DEF ParentsTrue
  <2>3. Tree!Parent(Top.dno) = p /\ p \in Objects
    BY <2>1, <2>2, ParentIs, TreeAssumption DEF Directories
  <2>4. Goal[<<Top.dno, <<>>, FALSE>>] = Goal[<<p, Target[Top.dno], TRUE>>]
    BY <1>2, <2>1, <2>3, GoalLink
  <2>5. Top.dno \in Links
    BY <1>2, <2>1 DEF Links
  <2>6. Target[Top.dno] \in Tree!Rests /\ Target[Top.dno] \in Seq(STRING)
    BY <2>5, RestsFacts, TreeAssumption
  <2>. HIDE DEF p
  <2>7. /\ g.fn = "lookup_path" /\ g.rest = Target[Top.dno] /\ g \in Frame
        /\ Meaning(g) = Goal[<<Top.dno, <<>>, FALSE>>]
    BY <2>3, <2>4, <2>6 DEF Lookup, Meaning, Frame
  <2>. HIDE DEF g
  <2>. QED BY <1>0, <1>1, <2>1, <2>6, <2>7, CalledRight
<1>5. ASSUME LookupResolved \/ ResolveFollow, NEW f, f = [Top EXCEPT !.dno = out]
      PROVE  OInv'
  <2>1. status = "success" /\ Continue(f)
    BY <1>5 DEF LookupResolved, ResolveFollow, Answered
  <2>2. /\ out \in Objects /\ Goal[<<out, <<>>, FALSE>>] = Goal[<<Top.dno, <<>>, FALSE>>]
        /\ Top.fn = "lookup_path" =>
             /\ Type[Top.dno] = "SYMLINK" /\ Top.rest # <<>> /\ Head(Top.rest) # NoName
             /\ Goal[<<out, <<>>, FALSE>>] = out
    <3>. HIDE DEF Top
    <3>. QED BY <1>0, <1>1, <1>2, <2>1, Answer
  <2>3. /\ f \in Frame /\ f.fn = Top.fn /\ f.dno = out /\ f.rest = Top.rest
        /\ f.first = Top.first
    BY <1>2, <1>5, <2>2 DEF Frame
  <2>. HIDE DEF Top
  <2>4. Meaning(f) = Meaning(Top)
    <3>1. CASE Top.fn = "resolve"
      BY <2>2, <2>3, <3>1 DEF Meaning
    <3>2. CASE Top.fn = "lookup_path"
      <4>1. PICK o \in Objects, path \in Tree!Rests, whole \in BOOLEAN :
              o = Top.dno /\ path = Top.rest /\ whole = Top.first
        BY <1>2, <3>2
      <4>2. /\ Type[o] = "SYMLINK" /\ path # <<>> /\ Head(path) # NoName
            /\ Goal[<<o, <<>>, FALSE>>] = out
        BY <2>2, <3>2, <4>1
      <4>3. Goal[<<o, path, whole>>] = Goal[<<out, path, whole>>]
        BY <2>2, <4>2, GoalOverLink
      <4>. QED BY <2>3, <3>2, <4>1, <4>3 DEF Meaning
    <3>. QED BY <1>1, <3>1, <3>2
  <2>. QED BY <1>0, <1>1, <1>2, <2>1, <2>3, <2>4, ContinuedRight
<1>. QED BY <1>3, <1>4, <1>5

\* Returns.
LEMMA ReturningSteps ==
  ASSUME IInv, OInv,
         \/ LookupDone \/ LookupNotADirectory \/ LookupNoMemory \/ LookupFails
         \/ ResolveDone \/ ResolveFails
  PROVE  OInv'
<1>0. TypeOK /\ CallsSound /\ ParentsTrue
  BY DEF IInv, OInv
<1>1. /\ frames # <<>> /\ Top.fn # "dir_open" /\ request' = request
  BY DEF LookupDone, LookupNotADirectory, LookupNoMemory, LookupFails, ResolveDone,
         ResolveFails, OnName, InLookup, Running, Answered
<1>2. parent' = parent
  BY DEF LookupDone, LookupNotADirectory, LookupNoMemory, LookupFails, ResolveDone,
         ResolveFails, DnodeCreateFails
<1>3. ParentsTrue'
  BY <1>0, <1>2 DEF ParentsTrue
<1>4. CASE LookupDone
  <2>1. Top.fn = "lookup_path" /\ Top.rest = <<>> /\ Succeed(Top.dno)
    BY <1>4 DEF LookupDone, Running
  <2>2. Goal[<<Top.dno, <<>>, FALSE>>] = Meaning(Top)
    <3>1. PICK o \in Objects, whole \in BOOLEAN : o = Top.dno /\ whole = Top.first
      BY <1>0, <1>1, TopFacts
    <3>2. Meaning(Top) = Goal[<<o, <<>>, whole>>]
      BY <2>1, <3>1 DEF Meaning
    <3>. QED BY <3>1, <3>2, GoalEmpty
  <2>. QED BY <1>0, <1>1, <1>3, <2>1, <2>2, SucceededRight
<1>5. CASE ResolveDone
  <2>1. Top.fn = "resolve" /\ Type[Top.dno] # "SYMLINK" /\ Succeed(Top.dno)
    BY <1>5 DEF ResolveDone, Running
  <2>2. Goal[<<Top.dno, <<>>, FALSE>>] = Meaning(Top)
    BY <2>1 DEF Meaning
  <2>. QED BY <1>0, <1>1, <1>3, <2>1, <2>2, SucceededRight
<1>6. CASE Fail
  BY <1>0, <1>1, <1>3, <1>6, FailedRight
<1>. QED BY <1>4, <1>5, <1>6
  DEF LookupNotADirectory, LookupNoMemory, LookupFails, ResolveFails

\* fsw_efi_dir_open() itself.
LEMMA OpeningSteps ==
  ASSUME IInv, OInv,
         \/ \E h \in Handles, path \in Paths : Open(h, path)
         \/ OpenFound \/ OpenResolved \/ OpenHandle \/ OpenFails
  PROVE  OInv'
<1>0. TypeOK /\ CallsSound /\ ParentsTrue /\ Chained(frames, request) /\ AnswerRight
  BY DEF IInv, OInv
<1>1. ParentsTrue'
  <2>1. parent' = parent
    BY DEF Open, OpenFound, OpenResolved, OpenHandle, OpenFails
  <2>. QED BY <1>0, <2>1 DEF ParentsTrue
<1>2. CASE \E h \in Handles, path \in Paths : Open(h, path)
  <2>1. PICK h \in Handles, path \in Paths : Open(h, path)
    BY <1>2
  <2>. DEFINE o == handles[h]
              s == <<DirOpen(NULL)>>
              g == Lookup(o, path)
              r == [from |-> o, path |-> path]
  <2>2. /\ frames = <<>> /\ o \in Directories /\ request' = r
        /\ frames' = <<DirOpen(NULL), g>> /\ status' = status
    BY <2>1 DEF Open, Idle
  <2>3. o \in Objects /\ path \in Tree!Rests /\ path \in Seq(STRING) /\ status' = "running"
    BY <1>0, <2>2, RestsFacts, TreeAssumption DEF Directories, CallsSound
  <2>. HIDE DEF o
  <2>4. s \in Seq(Frame) /\ Len(s) = 1 /\ s[Len(s)] = DirOpen(NULL) /\ frames' = Append(s, g)
    BY <2>2, DirOpenFrame, Stacked
  <2>5. g \in Frame /\ g.fn = "lookup_path" /\ g.rest = path
    BY <2>3 DEF Lookup, Frame
  <2>6. Meaning(g) = Goal[<<o, path, TRUE>>]
    BY DEF Meaning, Lookup
  <2>7. Wanted(s, r, 2) = Goal[<<o, path, TRUE>>]
    BY DEF Wanted
  <2>8. Waits(DirOpen(NULL), "lookup_path")
    BY DEF Waits, DirOpen
  <2>9. r \in [from : Objects, path : Paths]
    BY <2>3
  <2>. HIDE DEF s, g, r
  <2>10. Chained(frames', request')
    <3>1. Chained(s, r) /\ s # <<>> /\ Len(s) + 1 = 2
      BY <2>4, OneCallChained
    <3>. QED BY <2>2, <2>3, <2>4, <2>5, <2>6, <2>7, <2>8, <3>1, PushedChained
  <2>11. Len(frames') # 1 /\ frames' # <<>>
    BY <2>2
  <2>. QED BY <1>1, <2>2, <2>3, <2>9, <2>10, <2>11
    DEF OInv, AnswerRight, FoundRight, RequestTrue
<1>3. ASSUME OpenFound \/ OpenResolved
      PROVE  /\ frames # <<>> /\ Top.fn = "dir_open" /\ status = "success" /\ request' = request
             /\ Callers = <<>> /\ Len(frames) = 1 /\ out \in Objects
             /\ Goal[<<out, <<>>, FALSE>>] = Goal[<<request.from, request.path, TRUE>>]
             /\ Top.dno # NULL => Goal[<<out, <<>>, FALSE>>] = out
             /\ request \in [from : Objects, path : Paths]
  <2>1. frames # <<>> /\ Top.fn = "dir_open" /\ status = "success" /\ request' = request
    BY <1>3 DEF OpenFound, OpenResolved, Answered
  <2>2. Callers = <<>> /\ Len(frames) = 1
    BY <1>0, <2>1, CalledFor
  <2>3. Wanted(frames, request, Len(frames) + 1) = Goal[<<request.from, request.path, TRUE>>]
    BY <2>2 DEF Wanted
  <2>4. request \in [from : Objects, path : Paths]
    BY <2>1 DEF OInv, RequestTrue
  <2>. HIDE DEF Top, Callers
  <2>. QED BY <1>0, <2>1, <2>2, <2>3, <2>4, Answer
<1>4. DirOpen(out).dno = out /\ DirOpen(out).fn = "dir_open"
  BY DEF DirOpen
<1>5. CASE OpenFound
  <2>. DEFINE s == <<DirOpen(out)>>
              g == Resolve(out)
  <2>1. frames' = <<DirOpen(out), g>> /\ status' = "running"
    <3>1. frames' = Append(Append(Callers, DirOpen(out)), g) /\ status' = "running"
      BY <1>5 DEF OpenFound, Call
    <3>. HIDE DEF g
    <3>. QED BY <1>3, <1>5, <3>1, Stacked
  <2>2. s \in Seq(Frame) /\ Len(s) = 1 /\ s[Len(s)] = DirOpen(out) /\ frames' = Append(s, g)
    BY <1>3, <1>5, <2>1, DirOpenFrame, Stacked
  <2>3. g \in Frame /\ g.fn = "resolve"
    BY <1>3, <1>5 DEF Resolve, Frame
  <2>4. Meaning(g) = Goal[<<out, <<>>, FALSE>>]
    BY DEF Meaning, Resolve
  <2>5. Wanted(s, request, 2) = Goal[<<request.from, request.path, TRUE>>]
    BY DEF Wanted
  <2>6. Waits(DirOpen(out), "resolve")
    BY <1>4 DEF Waits
  <2>. HIDE DEF s, g
  <2>7. Chained(frames', request')
    <3>1. Chained(s, request) /\ s # <<>> /\ Len(s) + 1 = 2
      BY <2>2, OneCallChained
    <3>. QED BY <1>3, <1>5, <2>2, <2>3, <2>4, <2>5, <2>6, <3>1, PushedChained
  <2>8. Len(frames') # 1 /\ frames' # <<>>
    BY <2>1
  <2>. QED BY <1>1, <1>3, <1>5, <2>1, <2>7, <2>8
    DEF OInv, AnswerRight, FoundRight, RequestTrue
<1>6. CASE OpenResolved
  <2>1. frames' = <<DirOpen(out)>> /\ status' = "running" /\ Top.dno # NULL
    BY <1>3, <1>6, Stacked DEF OpenResolved, Continue
  <2>2. frames' \in Seq(Frame) /\ Len(frames') = 1 /\ frames' # <<>> /\ Top'.dno = out
    <3>1. frames' \in Seq(Frame)
      BY <1>3, <1>6, <2>1, DirOpenFrame
    <3>2. Len(frames') = 1 /\ Top' = DirOpen(out)
      BY <2>1, Stacked DEF Top
    <3>. QED BY <1>4, <2>1, <3>1, <3>2
  <2>3. Chained(frames', request')
    BY <2>2, OneCallChained
  <2>4. FoundRight'
    BY <1>3, <1>6, <2>1, <2>2 DEF FoundRight
  <2>. QED BY <1>1, <1>3, <1>6, <2>1, <2>2, <2>3, <2>4 DEF OInv, AnswerRight, RequestTrue
<1>7. CASE OpenHandle \/ OpenFails
  <2>1. frames' = <<>> /\ status' = "running" /\ request' = NULL
    BY <1>7 DEF OpenHandle, OpenFails, Leave
  <2>2. Len(frames') = 0 /\ frames' \in Seq(Frame)
    BY <2>1
  <2>3. Chained(frames', request')
    BY <2>2, OneCallChained
  <2>. QED BY <1>1, <2>1, <2>2, <2>3 DEF OInv, AnswerRight, FoundRight, RequestTrue
<1>. QED BY <1>2, <1>5, <1>6, <1>7

LEMMA InitOInv == Init => OInv
<1>. SUFFICES ASSUME Init PROVE OInv
  OBVIOUS
<1>1. frames = <<>> /\ status = "running" /\ request = NULL /\ parent = [o \in Objects |-> NULL]
  BY DEF Init
<1>2. frames \in Seq(Frame) /\ Len(frames) = 0
  BY <1>1
<1>3. Chained(frames, request)
  BY <1>2, OneCallChained
<1>. QED BY <1>1, <1>2, <1>3 DEF OInv, AnswerRight, FoundRight, ParentsTrue, RequestTrue

LEMMA NextOInv ==
  ASSUME IInv, OInv, [Next]_vars PROVE OInv'
<1>1. CASE Program
  BY <1>1, StackKeepingSteps, DescendingSteps, LinkSteps, ReturningSteps, OpeningSteps DEF Program
<1>2. CASE \E h \in Handles, path \in Paths : Open(h, path)
  BY <1>2, OpeningSteps
<1>3. CASE (\E h \in Handles : OpenVolume(h) \/ DirRead(h) \/ Close(h)) \/ Unmount \/ UNCHANGED vars
  BY <1>3, StackKeepingSteps
<1>. QED BY <1>1, <1>2, <1>3 DEF Next

\* Each step is one of the abstract file system, or none.
LEMMA NextOpens ==
  ASSUME IInv, OInv, [Next]_vars PROVE [Tree!Next]_(Tree!vars)
<1>0. TypeOK /\ CallsSound
  BY DEF IInv
<1>1. CASE UNCHANGED <<handles, request>>
  BY <1>1 DEF Tree!vars
<1>2. CASE \E h \in Handles, path \in Paths : Open(h, path)
  <2>1. PICK h \in Handles, path \in Paths : Open(h, path)
    BY <1>2
  <2>2. /\ frames = <<>> /\ handles[h] \in Directories
        /\ request' = [from |-> handles[h], path |-> path] /\ handles' = handles
    BY <2>1 DEF Open, Idle
  <2>3. request = NULL /\ handles[h] # NULL
    BY <2>2, TreeAssumption DEF OInv, RequestTrue, Directories
  <2>. QED BY <2>2, <2>3 DEF Tree!Next, Tree!Ask
<1>3. CASE OpenHandle
  <2>1. /\ frames # <<>> /\ Top.fn = "dir_open" /\ status = "running" /\ Top.dno # NULL
        /\ request' = NULL
        /\ \E h \in Handles : handles[h] = NULL /\ handles' = [handles EXCEPT ![h] = Top.dno]
    BY <1>3 DEF OpenHandle, Running, Leave
  <2>2. Len(frames) = 1
    BY <1>0, <2>1, CalledFor DEF OInv
  <2>3. Top.dno = Goal[<<request.from, request.path, TRUE>>]
    BY <2>1, <2>2 DEF OInv, FoundRight
  <2>4. request # NULL
    BY <2>1, RequestAssumption DEF OInv, RequestTrue
  <2>. QED BY <2>1, <2>3, <2>4 DEF Tree!Next, Tree!Succeed
<1>4. CASE OpenFails
  <2>1. frames # <<>> /\ request' = NULL /\ handles' = handles
    BY <1>4 DEF OpenFails, Answered, Running, Leave
  <2>2. request # NULL
    BY <2>1, RequestAssumption DEF OInv, RequestTrue
  <2>. QED BY <2>1, <2>2 DEF Tree!Next, Tree!Fail
<1>5. CASE \E h \in Handles : OpenVolume(h) \/ Close(h)
  <2>1. frames = <<>> /\ request' = request
    BY <1>5 DEF OpenVolume, Close, Idle
  <2>2. request = NULL
    BY <2>1 DEF OInv, RequestTrue
  <2>. QED BY <1>5, <2>1, <2>2
    DEF OpenVolume, Close, Tree!Next, Tree!OpenVolume, Tree!Close
<1>6. CASE Program /\ ~OpenHandle /\ ~OpenFails
  <2>1. UNCHANGED <<handles, request>>
    BY <1>6 DEF Program, Release, LookupDone, LookupEmpty, LookupLink, LookupResolved,
      LookupNotADirectory, LookupDot, LookupDotDot, LookupName, LookupNoMemory, LookupFails,
      ResolveDone, ResolveLink, ResolveFollow, ResolveFails, OpenFound, OpenResolved
  <2>. QED BY <1>1, <2>1
<1>7. CASE (\E h \in Handles : DirRead(h)) \/ Unmount \/ UNCHANGED vars
  BY <1>1, <1>7 DEF DirRead, Unmount, vars
<1>. QED BY <1>2, <1>3, <1>4, <1>5, <1>6, <1>7 DEF Next

(* Whatever fsw_efi_dir_open() opens is what its path names on the disk:   *)
(* the calls in progress, whichever links they follow, implement one step. *)
THEOREM OpensNamed == Spec => OpensWhatIsNamed
<1>1. Init => Tree!Init
  BY DEF Init, Tree!Init
<1>2. OInv /\ IInv /\ [Next]_vars => OInv'
  BY NextOInv
<1>3. OInv /\ IInv /\ [Next]_vars => [Tree!Next]_(Tree!vars)
  BY NextOpens
<1>. QED BY <1>1, <1>2, <1>3, InitOInv, Invariant, PTL DEF Spec, OpensWhatIsNamed, Tree!Opens

-----------------------------------------------------------------------------
(* Connect: the handles are a sequence, whatever comes and goes.           *)

LEMMA TheOnly ==
  ASSUME NEW x
  PROVE  The({x}) = x
BY DEF The

LEMMA SequenceOfItsRange ==
  ASSUME NEW S, NEW s \in Seq(S)
  PROVE  s \in Seq(Range(s))
<1>1. Len(s) \in Nat /\ DOMAIN s = 1 .. Len(s) /\ s = [i \in 1 .. Len(s) |-> s[i]]
  OBVIOUS
<1>2. \A i \in 1 .. Len(s) : s[i] \in Range(s)
  BY <1>1 DEF Range
<1>3. \A n \in Nat : \A f \in [1 .. n -> Range(s)] : f \in Seq(Range(s))
  OBVIOUS
<1>. HIDE DEF Range
<1>. QED BY <1>1, <1>2, <1>3

LEMMA LargerSequence ==
  ASSUME NEW S, NEW T, NEW s \in Seq(S), S \subseteq T
  PROVE  s \in Seq(T)
OBVIOUS

LEMMA SequencesJoined ==
  ASSUME NEW s, NEW t, s \in Seq(Range(s)), t \in Seq(Range(t))
  PROVE  (s \o t) \in Seq(Range(s \o t))
<1>. DEFINE S == Range(s)
            T == Range(t)
<1>1. s \in Seq(S) /\ t \in Seq(T)
  OBVIOUS
<1>. HIDE DEF S, T
<1>2. s \in Seq(S \cup T) /\ t \in Seq(S \cup T)
  BY <1>1, LargerSequence
<1>3. (s \o t) \in Seq(S \cup T)
  BY <1>2
<1>. QED BY <1>3, SequenceOfItsRange

LEMMA SequenceAppended ==
  ASSUME NEW s, NEW e, s \in Seq(Range(s))
  PROVE  Append(s, e) \in Seq(Range(Append(s, e)))
<1>. DEFINE S == Range(s)
<1>1. s \in Seq(S)
  OBVIOUS
<1>. HIDE DEF S
<1>2. s \in Seq(S \cup {e})
  BY <1>1, LargerSequence
<1>3. Append(s, e) \in Seq(S \cup {e})
  BY <1>2
<1>. QED BY <1>3, SequenceOfItsRange

LEMMA SequenceRemoved ==
  ASSUME NEW s, NEW e, s \in Seq(Range(s))
  PROVE  RemoveFirst(s, e) \in Seq(Range(RemoveFirst(s, e)))
<1>. DEFINE S == Range(s)
            I == {i \in 1 .. Len(s) : s[i] = e}
            k == CHOOSE i \in I : \A j \in I : i <= j
<1>1. s \in Seq(S)
  OBVIOUS
<1>2. CASE ~ \E i \in 1 .. Len(s) : s[i] = e
  BY <1>2, <1>1 DEF RemoveFirst
<1>3. CASE \E i \in 1 .. Len(s) : s[i] = e
  <2>1. I \in SUBSET Nat /\ I # {}
    BY <1>3
  <2>2. k \in I
    <3>1. First(I) \in I /\ \A j \in I : First(I) <= j
      BY <2>1, FirstLeast
    <3>. HIDE DEF I
    <3>. QED BY <3>1
  <2>3. RemoveFirst(s, e) = SubSeq(s, 1, k - 1) \o SubSeq(s, k + 1, Len(s))
    BY <1>3, <2>1 DEF RemoveFirst, RemoveAt, SelectInSeq, Min
  <2>. HIDE DEF S, k
  <2>4. k \in 1 .. Len(s) /\ Len(s) \in Nat
    BY <1>1, <2>2
  <2>5. SubSeq(s, 1, k - 1) \in Seq(S) /\ SubSeq(s, k + 1, Len(s)) \in Seq(S)
    BY <1>1, <2>4
  <2>6. RemoveFirst(s, e) \in Seq(S)
    BY <2>3, <2>5
  <2>. QED BY <2>6, SequenceOfItsRange
<1>. QED BY <1>2, <1>3

\* SetToSeq() of some devices is a sequence.
LEMMA DevicesInSequence ==
  ASSUME NEW S, S \subseteq Devices
  PROVE  SetToSeq(S) \in Seq(Range(SetToSeq(S)))
<1>1. IsFiniteSet(S)
  BY MachineAssumption, FS_Subset
<1>2. PICK f : f \in Bijection(1 .. Cardinality(S), S)
  BY <1>1, FS_CardinalityType, Zenon DEF ExistsBijection
<1>3. f \in [1 .. Cardinality(S) -> S] /\ IsInjective(f)
  BY <1>2 DEF Bijection, Injection, IsInjective
<1>4. SetToSeq(S) \in [1 .. Cardinality(S) -> S]
  BY <1>3, Zenon DEF SetToSeq
<1>5. Cardinality(S) \in Nat
  BY <1>1, FS_CardinalityType
<1>6. SetToSeq(S) \in Seq(S)
  BY <1>4, <1>5
<1>. QED BY <1>6, SequenceOfItsRange

-----------------------------------------------------------------------------
(* One driver on one handle.                                               *)

LEMMA BusStartKeeps ==
  ASSUME NEW s, NEW d \in DOMAIN BusOf, NEW h \in Devices, NEW there, there \subseteq Devices, Sound(s)
  PROVE  Sound(BusStart(s, d, h, there))
<1>. DEFINE new == SetToSeq({c \in there : Device[c].parent = h})
            t == [s EXCEPT !.holder[h] = d, !.handles = @ \o new]
<1>. SUFFICES ASSUME s.holder[h] = NoDevice PROVE Sound(t)
  BY DEF BusStart
<1>1. new \in Seq(Range(new))
  BY DevicesInSequence
<1>2. s.handles \o new \in Seq(Range(s.handles \o new))
  BY <1>1, SequencesJoined DEF Sound
<1>. HIDE DEF new
<1>3. /\ DOMAIN t = {"handles", "holder", "fs", "volumes", "mounts"}
      /\ t.handles = s.handles \o new /\ t.fs = s.fs /\ t.volumes = s.volumes
      /\ t.holder = [s.holder EXCEPT ![h] = d]
  BY DEF Sound
<1>. HIDE DEF t
<1>4. t.holder \in [Devices -> AllDrivers \cup {NoDevice}]
  BY <1>3 DEF Sound, AllDrivers
<1>5. s.fs[h] = NoDevice
  BY MachineAssumption DEF Sound, AllOrNothing
<1>6. d \notin Fsw
  BY MachineAssumption
<1>7. AllOrNothing(t)
  BY <1>3, <1>5, <1>6 DEF Sound, AllOrNothing
<1>. QED BY <1>2, <1>3, <1>4, <1>7 DEF Sound

\* A volume of a disk that had none.
LEMMA FswStartKeeps ==
  ASSUME NEW s, NEW d \in Fsw, NEW h \in Devices, Sound(s), s.holder[h] = NoDevice
  PROVE  Sound(FswStart(s, d, h))
<1>. DEFINE t == [s EXCEPT !.holder[h] = d, !.fs[h] = d, !.mounts[h] = @ + 1,
                           !.volumes = @ \cup {<<d, h>>}]
<1>. SUFFICES Sound(t)
  BY DEF FswStart
<1>1. /\ DOMAIN t = {"handles", "holder", "fs", "volumes", "mounts"}
      /\ t.handles = s.handles
      /\ t.fs = [s.fs EXCEPT ![h] = d] /\ t.volumes = s.volumes \cup {<<d, h>>}
      /\ t.holder = [s.holder EXCEPT ![h] = d]
  BY DEF Sound
<1>. HIDE DEF t
<1>2. /\ t.holder \in [Devices -> AllDrivers \cup {NoDevice}]
      /\ t.fs \in [Devices -> Fsw \cup {NoDevice}]
  BY <1>1 DEF Sound, AllDrivers
<1>3. s.fs[h] = NoDevice /\ d # NoDevice
  BY MachineAssumption DEF Sound, AllOrNothing, AllDrivers
<1>4. t.fs[h] = d /\ t.holder[h] = d
      /\ \A c \in Devices : c # h => t.fs[c] = s.fs[c] /\ t.holder[c] = s.holder[c]
  BY <1>1 DEF Sound
<1>5. \A c \in Devices : (t.holder[c] \in Fsw \/ t.fs[c] # NoDevice) => t.holder[c] = t.fs[c]
  BY <1>4 DEF Sound, AllOrNothing
<1>6. {<<t.fs[c], c>> : c \in {x \in Devices : t.fs[x] # NoDevice}}
        = {<<s.fs[c], c>> : c \in {x \in Devices : s.fs[x] # NoDevice}} \cup {<<d, h>>}
  BY <1>3, <1>4
<1>7. AllOrNothing(t)
  BY <1>1, <1>5, <1>6 DEF Sound, AllOrNothing
<1>. QED BY <1>1, <1>2, <1>7 DEF Sound

LEMMA StartKeeps ==
  ASSUME NEW s, NEW d, NEW h \in Devices, NEW there, there \subseteq Devices, Sound(s)
  PROVE  Sound(Start(s, d, h, there))
<1>1. CASE d \in DOMAIN BusOf
  <2>1. d \notin Fsw
    BY <1>1, MachineAssumption
  <2>2. Start(s, d, h, there) = BusStart(s, d, h, there)
    BY <1>1, <2>1 DEF Start
  <2>. QED BY <1>1, <2>2, BusStartKeeps
<1>2. CASE d \in Fsw
  <2>1. d \notin DOMAIN BusOf
    BY <1>2, MachineAssumption
  <2>2. Start(s, d, h, there) = IF FswSupported(s, d, h) THEN FswStart(s, d, h) ELSE s
    BY <1>2, <2>1 DEF Start
  <2>. QED BY <1>2, <2>2, FswStartKeeps DEF FswSupported
<1>3. CASE d \notin DOMAIN BusOf /\ d \notin Fsw
  BY <1>3 DEF Start
<1>. QED BY <1>1, <1>2, <1>3

LEMMA FswStopKeeps ==
  ASSUME NEW s, NEW d, NEW h \in Devices, Sound(s)
  PROVE  Sound(FswStop(s, d, h))
<1>. DEFINE t == [s EXCEPT !.fs[h] = NoDevice, !.volumes = @ \ {<<s.fs[h], h>>}, !.holder[h] = NoDevice]
<1>. SUFFICES Sound(t)
  BY DEF FswStop
<1>1. /\ DOMAIN t = {"handles", "holder", "fs", "volumes", "mounts"}
      /\ t.handles = s.handles
      /\ t.fs = [s.fs EXCEPT ![h] = NoDevice] /\ t.volumes = s.volumes \ {<<s.fs[h], h>>}
      /\ t.holder = [s.holder EXCEPT ![h] = NoDevice]
  BY DEF Sound
<1>. HIDE DEF t
<1>2. /\ t.holder \in [Devices -> AllDrivers \cup {NoDevice}]
      /\ t.fs \in [Devices -> Fsw \cup {NoDevice}]
  BY <1>1 DEF Sound
<1>3. t.fs[h] = NoDevice /\ t.holder[h] = NoDevice /\ NoDevice \notin Fsw
      /\ \A c \in Devices : c # h => t.fs[c] = s.fs[c] /\ t.holder[c] = s.holder[c]
  BY <1>1, MachineAssumption DEF Sound, AllDrivers
<1>4. \A c \in Devices : (t.holder[c] \in Fsw \/ t.fs[c] # NoDevice) => t.holder[c] = t.fs[c]
  BY <1>3 DEF Sound, AllOrNothing
<1>5. {<<t.fs[c], c>> : c \in {x \in Devices : t.fs[x] # NoDevice}}
        = {<<s.fs[c], c>> : c \in {x \in Devices : s.fs[x] # NoDevice}} \ {<<s.fs[h], h>>}
  BY <1>3
<1>6. AllOrNothing(t)
  BY <1>1, <1>4, <1>5 DEF Sound, AllOrNothing
<1>. QED BY <1>1, <1>2, <1>6 DEF Sound

\* The handles may change.
LEMMA HandlesFree ==
  ASSUME NEW s, NEW a, Sound(s), a \in Seq(Range(a))
  PROVE  Sound([s EXCEPT !.handles = a])
<1>. DEFINE t == [s EXCEPT !.handles = a]
<1>1. /\ DOMAIN t = {"handles", "holder", "fs", "volumes", "mounts"}
      /\ t.handles = a /\ t.fs = s.fs /\ t.volumes = s.volumes /\ t.holder = s.holder
  BY DEF Sound
<1>. HIDE DEF t
<1>2. Sound(t)
  BY <1>1 DEF Sound, AllOrNothing
<1>. QED BY <1>2 DEF t

-----------------------------------------------------------------------------
(* The three loops: the drivers tried on a handle, and the handles that    *)
(* are visited to connect or to disconnect. One turn of each, on what the  *)
(* turn before left; a is what the loop is given.                          *)

Turn(loop, e, k, a) ==
  CASE loop = "try"        -> Start(e, a.handles[k], a.h, a.there)
    [] loop = "connect"    -> IF e.todo = <<>> THEN e ELSE Connected(e, a.recursive, a.there)
    [] loop = "disconnect" -> IF e.todo = <<>> THEN e ELSE Disconnected(e, a.h)

Turns(loop, n, f, e, a) ==
  f = [k \in 0 .. n |-> IF k = 0 THEN e ELSE Turn(loop, f[k - 1], k, a)]

KeptSound(loop, e) == IF loop = "try" THEN Sound(e) ELSE Sound(e.db)

LEMMA TurnsExist ==
  ASSUME NEW loop, NEW e, NEW a
  PROVE  \A n \in Nat : \E f : Turns(loop, n, f, e, a)
<1>. DEFINE S == { n \in Nat : ~ \E f : Turns(loop, n, f, e, a) }
<1>. SUFFICES ASSUME S # {} PROVE FALSE
  OBVIOUS
<1>1. PICK n \in S : \A y \in S : n <= y
  <2>1. S \in SUBSET Nat
    OBVIOUS
  <2>. HIDE DEF S
  <2>. QED BY <2>1, FirstLeast
<1>2. n # 0
  <2>. DEFINE f == [k \in 0 .. 0 |-> e]
  <2>1. \A k \in 0 .. 0 : k = 0
    OBVIOUS
  <2>2. Turns(loop, 0, f, e, a)
    BY <2>1 DEF Turns
  <2>. QED BY <2>2
<1>3. PICK f : Turns(loop, n - 1, f, e, a)
  <2>1. n - 1 \in Nat /\ ~(n <= n - 1)
    BY <1>2
  <2>. QED BY <1>1, <2>1
<1>. DEFINE g == [k \in 0 .. n |-> IF k = n THEN Turn(loop, f[n - 1], n, a) ELSE f[k]]
<1>4. Turns(loop, n, g, e, a)
  <2>1. \A k \in 0 .. n - 1 : g[k] = f[k]
    OBVIOUS
  <2>2. g[n] = Turn(loop, f[n - 1], n, a)
    OBVIOUS
  <2>3. f = [k \in 0 .. n - 1 |-> IF k = 0 THEN e ELSE Turn(loop, f[k - 1], k, a)]
    BY <1>3 DEF Turns
  <2>4. ASSUME NEW k \in 0 .. n
        PROVE  g[k] = IF k = 0 THEN e ELSE Turn(loop, g[k - 1], k, a)
    <3>. HIDE DEF g
    <3>1. CASE k = n
      <4>1. n - 1 \in 0 .. n - 1
        BY <1>2
      <4>. QED BY <1>2, <2>1, <2>2, <3>1, <4>1
    <3>2. CASE k # n
      <4>1. k \in 0 .. n - 1 /\ (k # 0 => k - 1 \in 0 .. n - 1)
        BY <3>2
      <4>2. g[k] = f[k]
        BY <2>1, <4>1
      <4>3. f[k] = IF k = 0 THEN e ELSE Turn(loop, f[k - 1], k, a)
        BY <2>3, <4>1
      <4>. QED BY <2>1, <4>1, <4>2, <4>3
    <3>. QED BY <3>1, <3>2
  <2>5. g = [k \in 0 .. n |-> g[k]]
    OBVIOUS
  <2>. HIDE DEF g
  <2>. QED BY <2>4, <2>5 DEF Turns
<1>. QED BY <1>4

\* What every turn keeps is kept to the end of the loop.
LEMMA TurnsKeep ==
  ASSUME NEW loop, NEW n \in Nat, NEW f, NEW e, NEW a, KeptSound(loop, e), Turns(loop, n, f, e, a),
         \A s, k : KeptSound(loop, s) => KeptSound(loop, Turn(loop, s, k, a))
  PROVE  KeptSound(loop, f[n])
<1>. DEFINE S == { k \in 0 .. n : ~ KeptSound(loop, f[k]) }
<1>1. \A k \in 0 .. n : f[k] = IF k = 0 THEN e ELSE Turn(loop, f[k - 1], k, a)
  <2>1. f = [k \in 0 .. n |-> IF k = 0 THEN e ELSE Turn(loop, f[k - 1], k, a)]
    BY DEF Turns
  <2>. QED BY <2>1
<1>. SUFFICES ASSUME S # {} PROVE FALSE
  OBVIOUS
<1>2. PICK k \in S : \A y \in S : k <= y
  <2>1. S \in SUBSET Nat
    OBVIOUS
  <2>. HIDE DEF S
  <2>. QED BY <2>1, FirstLeast
<1>3. k # 0
  BY <1>1
<1>4. k - 1 \in 0 .. n /\ ~(k <= k - 1)
  BY <1>3
<1>5. KeptSound(loop, f[k - 1])
  BY <1>2, <1>4
<1>6. f[k] = Turn(loop, f[k - 1], k, a)
  BY <1>1, <1>3
<1>. QED BY <1>5, <1>6

-----------------------------------------------------------------------------
(* Connecting and disconnecting.                                           *)

LEMMA TryDriversKeeps ==
  ASSUME NEW s, NEW h \in Devices, NEW there, there \subseteq Devices, Sound(s)
  PROVE  Sound(TryDrivers(s, h, there))
<1>. DEFINE a == [handles |-> s.handles, h |-> h, there |-> there]
            L(f) == [n \in 0 .. Len(s.handles) |->
                      IF n = 0 THEN s
                      ELSE The({Start(t, s.handles[n], h, there) : t \in {f[n - 1]}})]
            g == CHOOSE f : f = L(f)
<1>1. \A f : Turns("try", Len(s.handles), f, s, a) <=> f = L(f)
  <2>1. ASSUME NEW t, NEW n
        PROVE  The({Start(u, s.handles[n], h, there) : u \in {t}}) = Turn("try", t, n, a)
    <3>1. {Start(u, s.handles[n], h, there) : u \in {t}} = {Start(t, s.handles[n], h, there)}
      OBVIOUS
    <3>. QED BY <3>1, TheOnly DEF Turn
  <2>. HIDE DEF a
  <2>. QED BY <2>1, Zenon DEF Turns
<1>2. Len(s.handles) \in Nat
  BY DEF Sound
<1>3. \E f : f = L(f)
  BY <1>1, <1>2, TurnsExist
<1>4. g = L(g)
  <2>. HIDE DEF L
  <2>. QED BY <1>3, Zenon
<1>5. Sound(g[Len(s.handles)])
  <2>1. Turns("try", Len(s.handles), g, s, a)
    <3>. HIDE DEF g, L, a
    <3>. QED BY <1>1, <1>4
  <2>2. \A t, k : KeptSound("try", t) => KeptSound("try", Turn("try", t, k, a))
    BY StartKeeps DEF KeptSound, Turn
  <2>. HIDE DEF g, a
  <2>. QED BY <1>2, <2>1, <2>2, TurnsKeep DEF KeptSound
<1>. QED BY <1>5 DEF TryDrivers

LEMMA ConnectedKeeps ==
  ASSUME NEW w, NEW recursive, NEW there, there \subseteq Devices, Sound(w.db)
  PROVE  Sound(Connected(w, recursive, there).db)
<1>. DEFINE h == Head(w.todo)
            own == TryDrivers(w.db, h, there)
            below(s) == IF recursive THEN SetToSeq(Children(s, h)) ELSE <<>>
<1>1. CASE ~ Alive(w.db, h) \/ h \notin Devices
  BY <1>1 DEF Connected
<1>2. CASE Alive(w.db, h) /\ h \in Devices
  <2>1. { [db |-> s, todo |-> below(s) \o Tail(w.todo)] : s \in {own} }
          = { [db |-> own, todo |-> below(own) \o Tail(w.todo)] }
    <3>. HIDE DEF below, own, h
    <3>. QED OBVIOUS
  <2>2. Connected(w, recursive, there) = [db |-> own, todo |-> below(own) \o Tail(w.todo)]
    BY <1>2, <2>1, TheOnly DEF Connected
  <2>. QED BY <1>2, <2>2, TryDriversKeeps
<1>. QED BY <1>1, <1>2

LEMMA DisconnectedKeeps ==
  ASSUME NEW w, NEW root, Sound(w.db)
  PROVE  Sound(Disconnected(w, root).db)
<1>. DEFINE s == w.db
            h == Head(w.todo)
            d == s.holder[h]
            stopped == IF d \in Fsw THEN FswStop(s, d, h) ELSE [s EXCEPT !.holder[h] = NoDevice]
<1>1. Sound(stopped)
  <2>1. CASE h \in Devices /\ d \in Fsw
    BY <2>1, FswStopKeeps
  <2>2. CASE h \in Devices /\ d \notin Fsw
    <3>. DEFINE t == [s EXCEPT !.holder[h] = NoDevice]
    <3>1. /\ DOMAIN t = {"handles", "holder", "fs", "volumes", "mounts"}
          /\ t.handles = s.handles /\ t.fs = s.fs /\ t.volumes = s.volumes
          /\ t.holder = [s.holder EXCEPT ![h] = NoDevice]
      BY DEF Sound
    <3>. HIDE DEF t
    <3>2. s.fs[h] = NoDevice
      BY <2>2 DEF Sound, AllOrNothing
    <3>3. t.holder \in [Devices -> AllDrivers \cup {NoDevice}]
      BY <3>1 DEF Sound
    <3>4. AllOrNothing(t)
      BY <3>1, <3>2, <2>2, MachineAssumption DEF Sound, AllOrNothing, AllDrivers
    <3>5. Sound(t)
      BY <3>1, <3>3, <3>4 DEF Sound
    <3>. QED BY <2>2, <3>5 DEF t
  <2>3. CASE h \notin Devices
    <3>. DEFINE t == [s EXCEPT !.holder[h] = NoDevice]
                u == [s EXCEPT !.fs[h] = NoDevice, !.volumes = @ \ {<<s.fs[h], h>>}, !.holder[h] = NoDevice]
    <3>1. /\ [s.holder EXCEPT ![h] = NoDevice] = s.holder
          /\ [s.fs EXCEPT ![h] = NoDevice] = s.fs
      BY <2>3 DEF Sound
    <3>2. s.volumes \ {<<s.fs[h], h>>} = s.volumes
      BY <2>3 DEF Sound, AllOrNothing
    <3>3. /\ DOMAIN t = {"handles", "holder", "fs", "volumes", "mounts"}
          /\ t.handles = s.handles /\ t.fs = s.fs /\ t.volumes = s.volumes /\ t.holder = s.holder
      BY <3>1 DEF Sound
    <3>4. /\ DOMAIN u = {"handles", "holder", "fs", "volumes", "mounts"}
          /\ u.handles = s.handles /\ u.fs = s.fs /\ u.volumes = s.volumes /\ u.holder = s.holder
      BY <3>1, <3>2 DEF Sound
    <3>5. FswStop(s, d, h) \in {s, u}
      BY DEF FswStop
    <3>. HIDE DEF t, u
    <3>6. Sound(t) /\ Sound(u)
      BY <3>3, <3>4 DEF Sound, AllOrNothing
    <3>. QED BY <3>5, <3>6 DEF t
  <2>. QED BY <2>1, <2>2, <2>3
<1>2. Disconnected(w, root).db
        = [stopped EXCEPT !.handles = IF h = root THEN @ ELSE RemoveFirst(@, h)]
  BY DEF Disconnected
<1>. HIDE DEF stopped, h
<1>3. CASE h = root
  BY <1>1, <1>2, <1>3, HandlesFree DEF Sound
<1>4. CASE h # root
  <2>1. RemoveFirst(stopped.handles, h) \in Seq(Range(RemoveFirst(stopped.handles, h)))
    BY <1>1, SequenceRemoved DEF Sound
  <2>. QED BY <1>1, <1>2, <1>4, <2>1, HandlesFree
<1>. QED BY <1>3, <1>4

LEMMA ConnectControllerKeeps ==
  ASSUME NEW s, NEW h, NEW recursive, NEW there, there \subseteq Devices, Sound(s)
  PROVE  Sound(ConnectController(s, h, recursive, there))
<1>. DEFINE N == Cardinality(Devices)
            first == [db |-> s, todo |-> <<h>>]
            a == [recursive |-> recursive, there |-> there]
            L(f) == [n \in 0 .. N |->
                      IF n = 0 THEN first
                      ELSE The({ IF w.todo = <<>> THEN w ELSE Connected(w, recursive, there)
                                 : w \in {f[n - 1]} })]
            g == CHOOSE f : f = L(f)
<1>1. \A f : Turns("connect", N, f, first, a) <=> f = L(f)
  <2>1. ASSUME NEW t, NEW n
        PROVE  The({IF w.todo = <<>> THEN w ELSE Connected(w, recursive, there) : w \in {t}})
                 = Turn("connect", t, n, a)
    <3>1. {IF w.todo = <<>> THEN w ELSE Connected(w, recursive, there) : w \in {t}}
            = {IF t.todo = <<>> THEN t ELSE Connected(t, recursive, there)}
      OBVIOUS
    <3>. QED BY <3>1, TheOnly DEF Turn
  <2>. HIDE DEF a, N, first
  <2>. QED BY <2>1, Zenon DEF Turns
<1>2. N \in Nat
  BY MachineAssumption, FS_CardinalityType
<1>3. \E f : f = L(f)
  BY <1>1, <1>2, TurnsExist
<1>4. g = L(g)
  <2>. HIDE DEF L
  <2>. QED BY <1>3, Zenon
<1>5. Sound(g[N].db)
  <2>1. Turns("connect", N, g, first, a)
    <3>. HIDE DEF g, L, a, N, first
    <3>. QED BY <1>1, <1>4
  <2>2. ASSUME NEW t, NEW k, KeptSound("connect", t) PROVE KeptSound("connect", Turn("connect", t, k, a))
    BY <2>2, ConnectedKeeps DEF KeptSound, Turn
  <2>3. KeptSound("connect", first)
    BY DEF KeptSound
  <2>. HIDE DEF g, a, N, first
  <2>4. KeptSound("connect", g[N])
    BY <1>2, <2>1, <2>2, <2>3, TurnsKeep
  <2>. QED BY <2>4 DEF KeptSound
<1>. QED BY <1>5 DEF ConnectController

LEMMA DisconnectControllerKeeps ==
  ASSUME NEW s, NEW h, Sound(s)
  PROVE  Sound(DisconnectController(s, h))
<1>. DEFINE N == Cardinality(Devices)
            first == [db |-> s, todo |-> <<h>>]
            a == [h |-> h]
            L(f) == [n \in 0 .. N |->
                      IF n = 0 THEN first
                      ELSE The({ IF w.todo = <<>> THEN w ELSE Disconnected(w, h) : w \in {f[n - 1]} })]
            g == CHOOSE f : f = L(f)
<1>1. \A f : Turns("disconnect", N, f, first, a) <=> f = L(f)
  <2>1. ASSUME NEW t, NEW n
        PROVE  The({IF w.todo = <<>> THEN w ELSE Disconnected(w, h) : w \in {t}})
                 = Turn("disconnect", t, n, a)
    <3>1. {IF w.todo = <<>> THEN w ELSE Disconnected(w, h) : w \in {t}}
            = {IF t.todo = <<>> THEN t ELSE Disconnected(t, h)}
      OBVIOUS
    <3>. QED BY <3>1, TheOnly DEF Turn
  <2>. HIDE DEF a, N, first
  <2>. QED BY <2>1, Zenon DEF Turns
<1>2. N \in Nat
  BY MachineAssumption, FS_CardinalityType
<1>3. \E f : f = L(f)
  BY <1>1, <1>2, TurnsExist
<1>4. g = L(g)
  <2>. HIDE DEF L
  <2>. QED BY <1>3, Zenon
<1>5. Sound(g[N].db)
  <2>1. Turns("disconnect", N, g, first, a)
    <3>. HIDE DEF g, L, a, N, first
    <3>. QED BY <1>1, <1>4
  <2>2. ASSUME NEW t, NEW k, KeptSound("disconnect", t)
        PROVE  KeptSound("disconnect", Turn("disconnect", t, k, a))
    BY <2>2, DisconnectedKeeps DEF KeptSound, Turn
  <2>3. KeptSound("disconnect", first)
    BY DEF KeptSound
  <2>. HIDE DEF g, a, N, first
  <2>4. KeptSound("disconnect", g[N])
    BY <1>2, <2>1, <2>2, <2>3, TurnsKeep
  <2>. QED BY <2>4 DEF KeptSound
<1>. QED BY <1>5 DEF DisconnectController

-----------------------------------------------------------------------------
(* Every step of rEFInd, and of the user and the firmware.                 *)

ConnectInv == Sound(db) /\ plugged \subseteq Devices

LEMMA ConnectInvInit ==
  ASSUME ConnectInit
  PROVE  ConnectInv
BY MachineAssumption DEF ConnectInit, ConnectInv

LEMMA HandleAppended ==
  ASSUME NEW s, NEW h, Sound(s)
  PROVE  Sound([s EXCEPT !.handles = Append(@, h)])
<1>1. Append(s.handles, h) \in Seq(Range(Append(s.handles, h)))
  BY SequenceAppended DEF Sound
<1>. QED BY <1>1, HandlesFree

LEMMA WalkStep ==
  ASSUME ConnectInv, Walk
  PROVE  ConnectInv'
<1>1. ASSUME NEW c
      PROVE  Sound(ConnectHandle(c))
  <2>1. Sound(ResetVga(c))
    BY DisconnectControllerKeeps DEF ConnectInv, ResetVga
  <2>2. ConnectHandle(c) = ConnectController(ResetVga(c), c, TRUE, plugged)
    <3>. DEFINE r == ResetVga(c)
    <3>. HIDE DEF r
    <3>1. {ConnectController(s, c, TRUE, plugged) : s \in {r}}
            = {ConnectController(r, c, TRUE, plugged)}
      OBVIOUS
    <3>. QED BY <3>1, TheOnly DEF ConnectHandle, r
  <2>. QED BY <2>1, <2>2, ConnectControllerKeeps DEF ConnectInv
<1>2. Sound(db')
  BY <1>1 DEF Walk, ConnectInv
<1>. QED BY <1>2 DEF ConnectInv, Walk

LEMMA DispatchStep ==
  ASSUME ConnectInv, BdsLibConnectAllDriversToAllControllers
  PROVE  ConnectInv'
<1>1. CASE db' = db
  BY <1>1 DEF ConnectInv, BdsLibConnectAllDriversToAllControllers
<1>2. CASE db' # db
  <2>1. PICK d : db' = [db EXCEPT !.handles = Append(@, d)]
    BY <1>2, Zenon DEF BdsLibConnectAllDriversToAllControllers
  <2>2. Sound(db')
    BY <2>1, HandleAppended DEF ConnectInv
  <2>. QED BY <2>2 DEF ConnectInv, BdsLibConnectAllDriversToAllControllers
<1>. QED BY <1>1, <1>2

LEMMA PathStep ==
  ASSUME ConnectInv, ConnectDevicePath
  PROVE  ConnectInv'
<1>1. ASSUME NEW new, \/ new = <<>>
                      \/ \E d : new = <<d>>
      PROVE  Sound([db EXCEPT !.handles = @ \o new])
  <2>1. new \in Seq(Range(new))
    <3>1. CASE new = <<>>
      BY <3>1
    <3>2. ASSUME NEW d, new = <<d>> PROVE new \in Seq(Range(new))
      <4>1. <<d>> \in Seq({d})
        OBVIOUS
      <4>. QED BY <3>2, <4>1, SequenceOfItsRange
    <3>. QED BY <1>1, <3>1, <3>2
  <2>2. db.handles \o new \in Seq(Range(db.handles \o new))
    BY <2>1, SequencesJoined DEF ConnectInv, Sound
  <2>. QED BY <2>2, HandlesFree DEF ConnectInv
<1>2. Sound(db')
  <2>1. CASE db' = db
    BY <2>1 DEF ConnectInv
  <2>2. CASE db' # db
    <3>1. PICK new, h : /\ new = <<>> \/ \E d : new = <<d>>
                        /\ db' = ConnectController([db EXCEPT !.handles = @ \o new], h, FALSE, plugged)
      BY <2>2, Zenon DEF ConnectDevicePath
    <3>. QED BY <1>1, <3>1, ConnectControllerKeeps DEF ConnectInv
  <2>. QED BY <2>1, <2>2
<1>. QED BY <1>2 DEF ConnectInv, ConnectDevicePath

LEMMA PlugStep ==
  ASSUME ConnectInv, NEW c \in Sockets, Plug(c)
  PROVE  ConnectInv'
<1>1. c \in Devices
  BY MachineAssumption
<1>2. CASE c \in plugged
  <2>. DEFINE s == DisconnectController(db, c)
  <2>1. Sound(s)
    BY DisconnectControllerKeeps DEF ConnectInv
  <2>2. db' = [s EXCEPT !.handles = RemoveFirst(@, c)] /\ plugged' = plugged \ {c}
    BY <1>2 DEF Plug
  <2>. HIDE DEF s
  <2>3. RemoveFirst(s.handles, c) \in Seq(Range(RemoveFirst(s.handles, c)))
    BY <2>1, SequenceRemoved DEF Sound
  <2>4. Sound(db')
    BY <2>1, <2>2, <2>3, HandlesFree
  <2>. QED BY <2>2, <2>4 DEF ConnectInv
<1>3. CASE c \notin plugged
  <2>1. Sound(db') /\ plugged' = plugged \cup {c}
    BY <1>3, HandleAppended DEF Plug, ConnectInv
  <2>. QED BY <1>1, <2>1 DEF ConnectInv
<1>. QED BY <1>2, <1>3

LEMMA ConnectInvStep ==
  ASSUME ConnectInv, [ConnectNext]_connectVars
  PROVE  ConnectInv'
<1>1. CASE StartDriver
  <2>1. Sound(db')
    <3>1. db' = [db EXCEPT !.handles = IF Head(queue) \in Broken THEN @ ELSE Append(@, Head(queue))]
      BY <1>1 DEF StartDriver
    <3>2. CASE Head(queue) \in Broken
      BY <3>1, <3>2, HandlesFree DEF ConnectInv, Sound
    <3>3. CASE Head(queue) \notin Broken
      BY <3>1, <3>3, HandleAppended DEF ConnectInv
    <3>. QED BY <3>2, <3>3
  <2>. QED BY <1>1, <2>1 DEF ConnectInv, StartDriver
<1>2. CASE Walk
  BY <1>2, WalkStep
<1>3. CASE BdsLibConnectAllDriversToAllControllers
  BY <1>3, DispatchStep
<1>4. CASE ConnectDevicePath
  BY <1>4, PathStep
<1>5. CASE \E c \in Sockets : Plug(c)
  BY <1>5, PlugStep
<1>6. CASE UNCHANGED <<db, plugged>>
  BY <1>6 DEF ConnectInv
<1>7. CASE LoadedDrivers \/ BdsLibDoLegacyBoot \/ RescanAll \/ UNCHANGED connectVars
           \/ \E n \in DOMAIN BootOrder : StartLegacyUEFI(BootOrder[n])
  BY <1>6, <1>7 DEF LoadedDrivers, BdsLibDoLegacyBoot, RescanAll, connectVars, StartLegacyUEFI
<1>. QED BY <1>1, <1>2, <1>3, <1>4, <1>5, <1>7 DEF ConnectNext, Step

\* For every machine, set of drivers and order of events: a file system driver
\* has a disk open, its file system on it and the volume in memory together or
\* not at all (fsw_efi_DriverBinding_Start() and _Stop()).
THEOREM HeldOnlyWhileServed == ConnectSpec => []HeldWhileServed
<1>1. ConnectInit => ConnectInv
  BY ConnectInvInit
<1>2. ConnectInv /\ [ConnectNext]_connectVars => ConnectInv'
  BY ConnectInvStep
<1>3. ConnectInv => HeldWhileServed
  BY DEF ConnectInv, Sound, HeldWhileServed
<1>. QED BY <1>1, <1>2, <1>3, PTL DEF ConnectSpec
=============================================================================
