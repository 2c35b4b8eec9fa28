--------------------- MODULE BaseChainIndexerProofs ---------------------
(***************************************************************************)
(* Theorems about BaseChainIndexer for every value of its constants.         *)
(***************************************************************************)
EXTENDS BaseChainIndexer, FiniteSetTheorems, WellFoundedInduction, TLAPS

\* The blocks from the deployment block to b.
Branch(b) == IF b = None THEN {} ELSE Lineage[b]

\* What the ledger's finalized block stands for: the snapshot is exact there, and a
\* chain that kept its finality has it.
FinalizedFits ==
  /\ state = "HEALTHY" => finalized # None
  /\ IF snapshot = None THEN finalized # None => EventsUpTo(finalized) = {}
     ELSE /\ finalized # None /\ snapshot.block \in Lineage[finalized]
          /\ snapshot.events = EventsUpTo(finalized)
  /\ ~broken /\ finalized # None => finalized \in Lineage[final]

\* A sync whose version is still the row's has the tip, the finalized block and the
\* history of the ledger.
Agrees(sync) ==
  /\ sync.tip = tip /\ sync.finalized = finalized
  /\ sync.stage # "halting" => sync.canonical = Canonical

\* Its latest block was one, its target is no higher than that, and no lower than the
\* saved finalized block.
Targeted(sync) ==
  /\ sync.stage \notin {"loaded", "halting"} => \E b \in Blocks : sync.latest = Height[b]
  /\ sync.stage \notin {"loaded", "latest", "halting"} =>
       /\ sync.target \in Blocks /\ Height[sync.target] <= sync.latest
       /\ finalized # None => Height[finalized] <= Height[sync.target]

\* Until it looks for its place on the chain it has added nothing.
Started(sync) ==
  sync.stage \in {"loaded", "latest", "targeted", "checked"} =>
    sync.parent = tip /\ sync.added = {} /\ sync.seen = {}

\* The search looks at blocks of the ledger's own branch within MaxReorg of the tip,
\* under the finalized block only if the chain has dropped that, and a rewind goes to
\* none of those.
Searches(sync) ==
  /\ sync.stage \in {"search", "found", "rewind"} =>
       tip # None /\ sync.parent \in Canonical
  /\ sync.stage = "search" =>
       /\ Height[tip] - Height[sync.parent] <= MaxReorg
       /\ ~broken /\ finalized # None => Height[finalized] <= Height[sync.parent]
  /\ sync.stage \in {"found", "rewind"} /\ finalized # None => Height[finalized] <= Height[sync.parent]

\* The blocks that are added continue the ledger's branch to their last one, and the
\* events that were seen are theirs.
Extends(sync) ==
  sync.stage \in {"forward", "checkpoint", "reconciled", "verified"} =>
    Canonical \cup sync.added = Branch(sync.parent) /\ sync.seen \subseteq sync.added

\* The checkpoint is on the extended branch and not under the finalized block; it is
\* exact once it is reconciled, and final on a chain that keeps its finality.
Checkpointed(sync) ==
  /\ sync.stage \in {"checkpoint", "reconciled", "verified"} =>
       /\ sync.parent \in Blocks /\ sync.checkpoint \in Lineage[sync.parent]
       /\ finalized # None => Height[finalized] <= Height[sync.checkpoint]
  /\ sync.stage \in {"reconciled", "verified"} => Reconciled(sync)
  /\ sync.stage = "verified" /\ ~broken => sync.checkpoint \in Lineage[final]

\* Why a ledger may halt.
Reason(code) ==
  \/ broken
  \/ code = "BASE_RECONCILIATION_MISMATCH"
  \/ code = "BASE_REORG_TOO_DEEP" /\ ~ShallowForks

Halts(sync) == sync.stage = "halting" => sync.code # None /\ Reason(sync.code)

Fits(sync) ==
  /\ Agrees(sync) /\ Targeted(sync) /\ Started(sync) /\ Searches(sync)
  /\ Extends(sync) /\ Checkpointed(sync) /\ Halts(sync)

\* A commit is made by a sync that still holds the version it loaded, so what matters
\* is what is true of those; a halted ledger has none.
CurrentFits ==
  /\ current # {} => state # "HALTED"
  /\ \A s \in current : Fits(syncs[s])

\* The inductive invariant.
IndexerInv ==
  /\ IndexerTypeOK /\ LedgerIsBranch /\ FinalizedFits /\ ReturnedIsReconciled
  /\ HaltsOnlyWhenBroken /\ CurrentFits

-----------------------------------------------------------------------------
(* The tree of blocks.                                                        *)

\* A set of blocks has one that is lowest: what replaces induction on the tree.
LEMMA LowestBlock ==
  ASSUME NEW T \in SUBSET Blocks, T # {}
  PROVE  \E b \in T : \A c \in T : Height[b] <= Height[c]
<1> DEFINE H == {Height[b] : b \in T}
<1>0. \A b \in T : Height[b] \in Nat
  BY TreeAssumption
<1>1. H \subseteq Nat /\ H # {}
  BY <1>0
<1>2. PICK m \in H : \A h \in H : <<h, m>> \notin OpToRel(<, Nat)
  BY <1>1, WFMin, NatLessThanWellFounded, Zenon
<1>3. \A h \in H : ~(h < m)
  BY <1>1, <1>2, Zenon DEF OpToRel
<1>4. PICK b \in T : m = Height[b]
  OBVIOUS
<1> SUFFICES \A c \in T : Height[b] <= Height[c]
  OBVIOUS
<1> TAKE c \in T
<1>5. ~(Height[c] < m)
  BY <1>3
<1> HIDE DEF H
<1> QED
  BY <1>0, <1>4, <1>5

\* A block that is not the deployment block continues the branch of its parent.
LEMMA Child ==
  ASSUME NEW b \in Blocks, b # Root
  PROVE  /\ Parent[b] \in Blocks /\ Height[b] = Height[Parent[b]] + 1
         /\ Height[Parent[b]] < Height[b]
         /\ Lineage[b] = Lineage[Parent[b]] \cup {b}
BY TreeAssumption

LEMMA Trees ==
  /\ Root \in Blocks /\ None \notin Blocks /\ Height[Root] = 0 /\ Lineage[Root] = {Root}
  /\ \A b \in Blocks : Height[b] \in Nat /\ Lineage[b] \subseteq Blocks
BY TreeAssumption

\* A block is on its own branch, and so is the deployment block.
LEMMA LineageEnds ==
  ASSUME NEW b \in Blocks
  PROVE  b \in Lineage[b] /\ Root \in Lineage[b]
<1>1. \A c \in Blocks : c \in Lineage[c]
  BY Child, Trees
<1>2. Root \in Lineage[b]
  <2> DEFINE T == {c \in Blocks : Root \notin Lineage[c]}
  <2> SUFFICES ASSUME T # {} PROVE FALSE
    OBVIOUS
  <2>1. PICK c \in T : \A d \in T : Height[c] <= Height[d]
    BY LowestBlock
  <2>2. c \in Blocks /\ c # Root
    BY Trees
  <2>3. Parent[c] \notin T
    BY <2>1, <2>2, Child, Trees
  <2> QED
    BY <2>2, <2>3, Child
<1> QED
  BY <1>1, <1>2

\* The other blocks of a branch are lower than its last one.
LEMMA LineageHeight ==
  ASSUME NEW b \in Blocks, NEW c \in Lineage[b]
  PROVE  c = b \/ Height[c] < Height[b]
<1> DEFINE T == {d \in Blocks : \E e \in Lineage[d] : ~(e = d \/ Height[e] < Height[d])}
<1> SUFFICES ASSUME T # {} PROVE FALSE
  OBVIOUS
<1>1. PICK d \in T : \A e \in T : Height[d] <= Height[e]
  BY LowestBlock
<1>2. d \in Blocks /\ d # Root
  BY Trees
<1>3. Parent[d] \notin T
  BY <1>1, <1>2, Child, Trees
<1>4. \A e \in Lineage[Parent[d]] : Height[e] <= Height[Parent[d]]
  BY <1>2, <1>3, Child, Trees
<1> QED
  BY <1>2, <1>4, Child, Trees

\* The branch of a block on a branch is part of it.
LEMMA LineageTrans ==
  ASSUME NEW b \in Blocks, NEW c \in Lineage[b]
  PROVE  c \in Blocks /\ Lineage[c] \subseteq Lineage[b]
<1> DEFINE T == {d \in Blocks : \E e \in Lineage[d] : ~(Lineage[e] \subseteq Lineage[d])}
<1> SUFFICES ASSUME T # {} PROVE FALSE
  BY Trees
<1>1. PICK d \in T : \A e \in T : Height[d] <= Height[e]
  BY LowestBlock
<1>2. d \in Blocks /\ d # Root
  BY Trees
<1>3. Parent[d] \notin T
  BY <1>1, <1>2, Child, Trees
<1> QED
  BY <1>2, <1>3, Child

\* Of two blocks of a branch the lower one is on the branch of the other.
LEMMA LineageLinear ==
  ASSUME NEW b \in Blocks, NEW c \in Lineage[b], NEW d \in Lineage[b], Height[c] <= Height[d]
  PROVE  c \in Lineage[d]
<1> DEFINE Bad(x) == \E e, f \in Lineage[x] : Height[e] <= Height[f] /\ e \notin Lineage[f]
           T == {x \in Blocks : Bad(x)}
<1> SUFFICES ASSUME T # {} PROVE FALSE
  OBVIOUS
<1>1. PICK x \in T : \A y \in T : Height[x] <= Height[y]
  BY LowestBlock
<1>2. x \in Blocks /\ x # Root
  BY Trees
<1>3. Parent[x] \notin T
  BY <1>1, <1>2, Child, Trees
<1>4. PICK e, f \in Lineage[x] : Height[e] <= Height[f] /\ e \notin Lineage[f]
  OBVIOUS
<1>5. f # x
  BY <1>4
<1>6. e # x
  BY <1>2, <1>4, <1>5, LineageHeight, Trees
<1> QED
  BY <1>2, <1>3, <1>4, <1>5, <1>6, Child

\* A branch has one block of each number up to that of its last one.
LEMMA LineageNumbers ==
  ASSUME NEW b \in Blocks, NEW n \in Nat, n <= Height[b]
  PROVE  \E c \in Lineage[b] : Height[c] = n
<1> DEFINE T == {d \in Blocks : n <= Height[d] /\ ~\E c \in Lineage[d] : Height[c] = n}
<1> SUFFICES ASSUME T # {} PROVE FALSE
  OBVIOUS
<1>1. PICK d \in T : \A e \in T : Height[d] <= Height[e]
  BY LowestBlock
<1>2. d \in Blocks /\ Height[d] # n
  BY LineageEnds
<1>3. d # Root
  BY <1>2, Trees
<1>4. Parent[d] \in Blocks /\ n <= Height[Parent[d]]
  BY <1>2, <1>3, Child, Trees
<1>5. Parent[d] \notin T
  BY <1>1, <1>2, <1>3, Child, Trees
<1> QED
  BY <1>2, <1>3, <1>4, <1>5, Child

LEMMA SameHeight ==
  ASSUME NEW b \in Blocks, NEW c \in Lineage[b], NEW d \in Lineage[b], Height[c] = Height[d]
  PROVE  c = d
<1>1. c \in Blocks /\ d \in Blocks /\ c \in Lineage[d]
  BY LineageTrans, LineageLinear, Trees
<1> QED
  BY <1>1, LineageHeight, Trees

-----------------------------------------------------------------------------
(* What is read.                                                              *)

LEMMA SyncType ==
  ASSUME IndexerTypeOK, NEW s \in Syncs, syncs[s] # None
  PROVE  syncs[s] \in Sync
BY DEF IndexerTypeOK

LEMMA LedgerType ==
  ASSUME IndexerTypeOK
  PROVE  /\ head \in Blocks /\ final \in Blocks /\ final \in Lineage[head]
         /\ tip \in Blocks \cup {None} /\ finalized \in Blocks \cup {None}
         /\ broken \in BOOLEAN /\ None \notin Blocks
         /\ \A b \in Blocks : Height[b] \in Nat
<1> QED
  BY Trees DEF IndexerTypeOK

\* A read of the chain changes nothing but its sync.
LEMMA Continued ==
  ASSUME IndexerInv, NEW s \in Syncs, syncs[s] # None, NEW x \in Sync,
         s \in current => Fits(x), Continue(s, x)
  PROVE  IndexerInv'
<1>1. /\ syncs' = [syncs EXCEPT ![s] = x] /\ current' = current /\ UNCHANGED <<chain, ledger>>
      /\ reads' = reads /\ returned' = returned /\ x # None
  BY NoneAssumption DEF Continue
<1>2. IndexerTypeOK'
  BY <1>1 DEF IndexerInv, IndexerTypeOK, chain, ledger
<1>3. LedgerIsBranch'
  BY <1>1 DEF IndexerInv, LedgerIsBranch, Canonical, ledger
<1>4. FinalizedFits' /\ HaltsOnlyWhenBroken'
  BY <1>1 DEF IndexerInv, FinalizedFits, HaltsOnlyWhenBroken, EventsUpTo, chain, ledger
<1>5. ReturnedIsReconciled'
  BY <1>1 DEF IndexerInv, ReturnedIsReconciled, EventsUpTo, Canonical, ledger
<1>6. CurrentFits'
  <2>1. current' # {} => state' # "HALTED"
    BY <1>1 DEF IndexerInv, CurrentFits, ledger
  <2> SUFFICES ASSUME NEW r \in current PROVE Fits(syncs[r])'
    BY <1>1, <2>1 DEF CurrentFits
  <2>2. PICK y : y = syncs'[r]
    OBVIOUS
  <2>3. y = IF r = s THEN x ELSE syncs[r]
    BY <1>1, <2>2 DEF IndexerInv, IndexerTypeOK
  <2>4. Fits(y)
    BY <2>3 DEF IndexerInv, CurrentFits
  <2> QED
    BY <1>1, <2>2, <2>4
    DEF Fits, Agrees, Targeted, Started, Searches, Extends, Checkpointed, Halts, Reason,
        Reconciled, Projected, Known, EventsUpTo, Canonical, chain, ledger
<1> QED
  BY <1>2, <1>3, <1>4, <1>5, <1>6 DEF IndexerInv

\* A sync that halts keeps nothing it has read.
LEMMA HaltingFits ==
  ASSUME IndexerTypeOK, NEW y \in Sync, NEW code \in Codes
  PROVE  /\ Halting(y, code) \in Sync
         /\ Agrees(y) /\ Reason(code) => Fits(Halting(y, code))
<1> DEFINE x == Halting(y, code)
<1>1. /\ x.stage = "halting" /\ x.code = code /\ x.tip = y.tip /\ x.finalized = y.finalized
      /\ x \in Sync /\ code # None
  BY NoneAssumption DEF Halting, Sync, Stages
<1> HIDE DEF x
<1>2. Agrees(y) /\ Reason(code) => Fits(x)
  BY <1>1 DEF Fits, Agrees, Targeted, Started, Searches, Extends, Checkpointed, Halts
<1> QED
  BY <1>1, <1>2 DEF x

LEMMA ReadLatestKeeps ==
  ASSUME IndexerInv, NEW s \in Syncs, ReadLatest(s)
  PROVE  IndexerInv'
<1>1. PICK y : y = syncs[s]
  OBVIOUS
<1>2. PICK x : x = [y EXCEPT !.stage = "latest", !.latest = Height[head]]
  OBVIOUS
<1>3. y \in Sync /\ y # None /\ y.stage = "loaded" /\ Continue(s, x)
  BY <1>1, <1>2, SyncType DEF ReadLatest, IndexerInv
<1>4. /\ x \in Sync /\ x.stage = "latest" /\ x.latest = Height[head] /\ head \in Blocks
      /\ x.tip = y.tip /\ x.finalized = y.finalized /\ x.canonical = y.canonical
      /\ x.parent = y.parent /\ x.added = y.added /\ x.seen = y.seen
  BY <1>2, <1>3, LedgerType DEF IndexerInv, Sync, Stages
<1>5. Fits(y) => Fits(x)
  BY <1>3, <1>4 DEF Fits, Agrees, Targeted, Started, Searches, Extends, Checkpointed, Halts
<1> QED
  BY <1>1, <1>3, <1>4, <1>5, Continued DEF IndexerInv, CurrentFits

LEMMA ReadFinalizedKeeps ==
  ASSUME IndexerInv, NEW s \in Syncs, ReadFinalized(s)
  PROVE  IndexerInv'
<1>1. PICK y : y = syncs[s]
  OBVIOUS
<1>2. PICK x : x = [y EXCEPT !.stage = "targeted", !.target = final]
  OBVIOUS
<1>3. /\ y \in Sync /\ y # None /\ y.stage = "latest" /\ Continue(s, x)
      /\ Height[final] <= y.latest
      /\ y.finalized # None => Height[final] >= Height[y.finalized]
  BY <1>1, <1>2, SyncType DEF ReadFinalized, IndexerInv
<1>4. /\ x \in Sync /\ x.stage = "targeted" /\ x.target = final /\ final \in Blocks
      /\ x.tip = y.tip /\ x.finalized = y.finalized /\ x.canonical = y.canonical
      /\ x.parent = y.parent /\ x.added = y.added /\ x.seen = y.seen /\ x.latest = y.latest
  BY <1>2, <1>3, LedgerType DEF IndexerInv, Sync, Stages
<1>5. finalized # None => Height[finalized] \in Nat /\ Height[final] \in Nat
  BY LedgerType DEF IndexerInv
<1>6. Fits(y) => Fits(x)
  BY <1>3, <1>4, <1>5 DEF Fits, Agrees, Targeted, Started, Searches, Extends, Checkpointed, Halts
<1> QED
  BY <1>1, <1>3, <1>4, <1>6, Continued DEF IndexerInv, CurrentFits

LEMMA CheckFinalityKeeps ==
  ASSUME IndexerInv, NEW s \in Syncs, CheckFinality(s)
  PROVE  IndexerInv'
<1>1. PICK y : y = syncs[s]
  OBVIOUS
<1>2. y \in Sync /\ y # None /\ y.stage = "targeted"
  BY <1>1, SyncType DEF CheckFinality, IndexerInv
<1>3. s \in current => Fits(y)
  BY <1>1 DEF IndexerInv, CurrentFits
<1>4. CASE LeftBehind(y) /\ Continue(s, Halting(y, "BASE_FINALITY_CONFLICT"))
  <2>1. s \in current => broken
    BY <1>3, <1>4, LedgerType, LineageTrans
    DEF Fits, Agrees, LeftBehind, OnChain, IndexerInv, FinalizedFits
  <2>2. "BASE_FINALITY_CONFLICT" \in Codes
    BY DEF Codes
  <2> QED
    BY <1>1, <1>2, <1>3, <1>4, <2>1, <2>2, HaltingFits, Continued DEF IndexerInv, Fits, Reason
<1>5. CASE Continue(s, [y EXCEPT !.stage = "checked"])
  <2>1. PICK x : x = [y EXCEPT !.stage = "checked"]
    OBVIOUS
  <2>2. /\ x \in Sync /\ x.stage = "checked" /\ x.target = y.target
        /\ x.tip = y.tip /\ x.finalized = y.finalized /\ x.canonical = y.canonical
        /\ x.parent = y.parent /\ x.added = y.added /\ x.seen = y.seen /\ x.latest = y.latest
    BY <1>2, <2>1 DEF Sync, Stages
  <2>3. Fits(y) => Fits(x)
    BY <1>2, <2>2 DEF Fits, Agrees, Targeted, Started, Searches, Extends, Checkpointed, Halts
  <2> QED
    BY <1>1, <1>2, <1>3, <1>5, <2>1, <2>2, <2>3, Continued
<1> QED
  BY <1>1, <1>4, <1>5 DEF CheckFinality

\* What is saved as finalized is on the ledger's branch.
LEMMA BranchFacts ==
  ASSUME IndexerTypeOK, LedgerIsBranch
  PROVE  /\ Canonical = Branch(tip) /\ Canonical \subseteq Blocks
         /\ tip # None => tip \in Blocks /\ tip \in Canonical
         /\ \A b \in Canonical : tip # None /\ b \in Lineage[tip] /\ Height[b] <= Height[tip]
         /\ finalized # None => finalized \in Blocks /\ finalized \in Canonical
<1>1. Canonical = Branch(tip) /\ Canonical \subseteq Blocks
  BY DEF Branch, LedgerIsBranch, Canonical
<1>2. tip # None => tip \in Blocks /\ tip \in Canonical
  BY <1>1, LedgerType, LineageEnds DEF Branch
<1>3. \A b \in Canonical : tip # None /\ b \in Lineage[tip] /\ Height[b] <= Height[tip]
  BY <1>1, LedgerType, LineageHeight DEF Branch
<1> QED
  BY <1>1, <1>2, <1>3, LedgerType DEF LedgerIsBranch

LEMMA CheckTipKeeps ==
  ASSUME IndexerInv, NEW s \in Syncs, CheckTip(s)
  PROVE  IndexerInv'
<1>1. PICK y : y = syncs[s]
  OBVIOUS
<1>2. y \in Sync /\ y # None /\ y.stage = "checked"
  BY <1>1, SyncType DEF CheckTip, IndexerInv
<1>3. s \in current => Fits(y)
  BY <1>1 DEF IndexerInv, CurrentFits
<1>4. ASSUME NEW stage \in {"forward", "search"}, stage = "search" => y.tip # None,
             Continue(s, [y EXCEPT !.stage = stage])
      PROVE  IndexerInv'
  <2>1. PICK x : x = [y EXCEPT !.stage = stage]
    OBVIOUS
  <2>2. /\ x \in Sync /\ x.stage = stage /\ x.target = y.target
        /\ x.tip = y.tip /\ x.finalized = y.finalized /\ x.canonical = y.canonical
        /\ x.parent = y.parent /\ x.added = y.added /\ x.seen = y.seen /\ x.latest = y.latest
    BY <1>2, <2>1 DEF Sync, Stages
  <2>3. /\ Canonical = Branch(tip)
        /\ tip # None => tip \in Canonical /\ Height[tip] - Height[tip] <= MaxReorg
        /\ finalized # None => Height[finalized] <= Height[tip]
    BY BranchFacts, LedgerType, OptionsAssumption DEF IndexerInv
  <2>4. Fits(y) => Agrees(x) /\ Targeted(x) /\ Started(x) /\ Checkpointed(x) /\ Halts(x)
    BY <1>2, <2>2 DEF Fits, Agrees, Targeted, Started, Checkpointed, Halts
  <2>5. Fits(y) => x.parent = tip /\ x.added = {} /\ x.seen = {} /\ (stage = "search" => tip # None)
    BY <1>2, <1>4, <2>2 DEF Fits, Started, Agrees
  <2>6. Fits(y) => Searches(x) /\ Extends(x)
    BY <2>2, <2>3, <2>5 DEF Searches, Extends
  <2> QED
    BY <1>1, <1>2, <1>3, <1>4, <2>1, <2>2, <2>4, <2>6, Continued DEF Fits
<1> QED
  BY <1>1, <1>4 DEF CheckTip

\* On a chain that kept its finality the search does not fail to match the finalized block.
LEMMA MatchesFinalized ==
  ASSUME IndexerInv, NEW y \in Sync, Fits(y), y.stage = "search", ~broken, finalized # None,
         y.parent = finalized
  PROVE  Height[y.parent] <= y.latest /\ OnChain(y.parent)
<1>1. finalized \in Lineage[final] /\ final \in Lineage[head] /\ head \in Blocks
  BY LedgerType DEF IndexerInv, FinalizedFits
<1>2. OnChain(finalized)
  BY <1>1, LineageTrans, LedgerType DEF OnChain, IndexerInv
<1>3. y.latest \in Nat /\ Height[y.target] <= y.latest /\ Height[finalized] <= Height[y.target]
      /\ y.target \in Blocks /\ finalized \in Blocks
  BY LedgerType DEF Fits, Targeted, IndexerInv, Sync
<1> QED
  BY <1>2, <1>3, Trees

\* A search that finds nothing within MaxReorg has met a fork that is deeper.
LEMMA TooDeep ==
  ASSUME IndexerInv, NEW y \in Sync, Fits(y), y.stage = "search",
         ~(Height[y.parent] <= y.latest /\ OnChain(y.parent)),
         {c \in Searchable(y) : Height[c] + 1 = Height[y.parent]} = {}
  PROVE  ~ShallowForks
<1> DEFINE b == y.parent
<1>1. /\ b \in Canonical /\ b \in Blocks /\ tip \in Blocks /\ b \in Lineage[tip]
      /\ y.canonical = Canonical /\ y.tip = tip
  BY BranchFacts DEF IndexerInv, Fits, Searches, Agrees
<1>2. PICK h \in Blocks : y.latest = Height[h]
  BY DEF Fits, Targeted
<1>3. b # Root
  <2>1. Root \in Lineage[head] /\ head \in Blocks /\ y.latest \in Nat
    BY LineageEnds, LedgerType DEF IndexerInv, Sync
  <2> QED
    BY <2>1, Trees DEF OnChain
<1>4. /\ Parent[b] \in Blocks /\ Parent[b] \in Lineage[b] /\ Parent[b] \in Lineage[tip]
      /\ Height[b] = Height[Parent[b]] + 1
  BY <1>1, <1>3, Child, LineageEnds, LineageTrans
<1>5. Parent[b] \in y.canonical
  BY <1>1, <1>4, BranchFacts DEF IndexerInv, Branch
<1>6. ~(Height[tip] - Height[Parent[b]] <= MaxReorg)
  BY <1>1, <1>4, <1>5 DEF Searchable
<1> SUFFICES ASSUME ShallowForks PROVE FALSE
  OBVIOUS
<1>7. ASSUME NEW c \in Blocks PROVE b \in Lineage[c]
  <2>1. PICK a \in Lineage[tip] \cap Lineage[c] : Height[tip] - Height[a] <= MaxReorg
    BY <1>1 DEF ShallowForks
  <2>2. a \in Blocks /\ Height[a] \in Nat /\ Height[b] \in Nat /\ Height[tip] \in Nat
        /\ Height[Parent[b]] \in Nat /\ MaxReorg \in Nat
    BY <1>1, <1>4, Trees, OptionsAssumption
  <2>3. Height[b] <= Height[a]
    BY <1>4, <1>6, <2>1, <2>2
  <2>4. b \in Lineage[a]
    BY <1>1, <2>1, <2>3, LineageLinear
  <2> QED
    BY <2>1, <2>4, LineageTrans
<1>8. OnChain(b) /\ b \in Lineage[h]
  BY <1>2, <1>7, LedgerType DEF OnChain, IndexerInv
<1>9. Height[b] <= y.latest
  BY <1>1, <1>2, <1>8, LineageHeight, Trees
<1> QED
  BY <1>8, <1>9

LEMMA ProbeKeeps ==
  ASSUME IndexerInv, NEW s \in Syncs, NEW b \in Blocks, Probe(s, b)
  PROVE  IndexerInv'
<1>1. PICK y : y = syncs[s]
  OBVIOUS
<1> DEFINE matches == Height[b] <= y.latest /\ OnChain(b)
           lower == {c \in Searchable(y) : Height[c] + 1 = Height[b]}
<1>2. y \in Sync /\ y # None /\ y.stage = "search" /\ y.parent = b
  BY <1>1, SyncType DEF Probe, IndexerInv
<1>3. s \in current => Fits(y)
  BY <1>1 DEF IndexerInv, CurrentFits
<1>4. {"BASE_FINALITY_CONFLICT", "BASE_REORG_TOO_DEEP"} \subseteq Codes
  BY DEF Codes
<1>5. Fits(y) => /\ ~broken /\ finalized # None => Height[finalized] <= Height[b]
                 /\ tip # None /\ b \in Canonical /\ y.tip = tip /\ y.finalized = finalized
                 /\ y.canonical = Canonical
  BY <1>2 DEF Fits, Searches, Agrees
<1>6. CASE matches /\ Rewindable(y) /\ Continue(s, [y EXCEPT !.stage = "found"])
  <2>1. PICK x : x = [y EXCEPT !.stage = "found"]
    OBVIOUS
  <2>2. /\ x \in Sync /\ x.stage = "found" /\ x.target = y.target
        /\ x.tip = y.tip /\ x.finalized = y.finalized /\ x.canonical = y.canonical
        /\ x.parent = y.parent /\ x.added = y.added /\ x.seen = y.seen /\ x.latest = y.latest
    BY <1>2, <2>1 DEF Sync, Stages
  <2>3. finalized # None => Height[finalized] \in Nat /\ Height[b] \in Nat
    BY LedgerType DEF IndexerInv
  <2>4. Fits(y) => Searches(x)
    BY <1>2, <1>5, <1>6, <2>2, <2>3 DEF Searches, Rewindable
  <2>5. Fits(y) => Fits(x)
    BY <1>2, <2>2, <2>4 DEF Fits, Agrees, Targeted, Started, Extends, Checkpointed, Halts
  <2> QED
    BY <1>1, <1>2, <1>3, <1>6, <2>1, <2>2, <2>5, Continued
<1>7. CASE ~Rewindable(y) /\ Continue(s, Halting(y, "BASE_FINALITY_CONFLICT"))
  <2>1. finalized # None => Height[finalized] \in Nat /\ Height[b] \in Nat
    BY LedgerType DEF IndexerInv
  <2>2. s \in current => Agrees(y) /\ Reason("BASE_FINALITY_CONFLICT")
    BY <1>2, <1>3, <1>5, <1>7, <2>1 DEF Rewindable, Reason, Fits
  <2> QED
    BY <1>1, <1>2, <1>4, <1>7, <2>2, HaltingFits, Continued DEF IndexerInv
<1>8. ASSUME ~matches, NEW c \in lower, Continue(s, [y EXCEPT !.parent = c])
      PROVE  IndexerInv'
  <2>1. PICK x : x = [y EXCEPT !.parent = c]
    OBVIOUS
  <2>2. c \in y.canonical /\ c \in Blocks /\ Height[c] \in Nat /\ Height[b] \in Nat
        /\ Height[c] + 1 = Height[b] /\ Height[y.tip] - Height[c] <= MaxReorg
    BY <1>2, Trees DEF Searchable, Sync
  <2>3. /\ x \in Sync /\ x.stage = "search" /\ x.target = y.target /\ x.parent = c
        /\ x.tip = y.tip /\ x.finalized = y.finalized /\ x.canonical = y.canonical
        /\ x.added = y.added /\ x.seen = y.seen /\ x.latest = y.latest
    BY <1>2, <2>1, <2>2 DEF Sync
  <2>4. ASSUME Fits(y), ~broken, finalized # None PROVE Height[finalized] <= Height[c]
    <3>1. finalized # b
      BY <1>2, <1>8, <2>4, MatchesFinalized
    <3>2. finalized \in Lineage[tip] /\ b \in Lineage[tip] /\ tip \in Blocks /\ Height[finalized] \in Nat
      BY <1>5, <2>4, BranchFacts, LedgerType DEF IndexerInv
    <3>3. Height[finalized] # Height[b]
      BY <3>1, <3>2, SameHeight
    <3> QED
      BY <1>5, <2>2, <2>4, <3>2, <3>3
  <2>5. Fits(y) => Searches(x)
    BY <1>5, <2>2, <2>3, <2>4 DEF Searches
  <2>6. Fits(y) => Fits(x)
    BY <1>2, <2>3, <2>5 DEF Fits, Agrees, Targeted, Started, Extends, Checkpointed, Halts
  <2> QED
    BY <1>1, <1>2, <1>3, <1>8, <2>1, <2>3, <2>6, Continued
<1>9. CASE ~matches /\ lower = {} /\ Continue(s, Halting(y, "BASE_REORG_TOO_DEEP"))
  <2>1. s \in current => Agrees(y) /\ Reason("BASE_REORG_TOO_DEEP")
    BY <1>2, <1>3, <1>9, TooDeep DEF Reason, Fits
  <2> QED
    BY <1>1, <1>2, <1>4, <1>9, <2>1, HaltingFits, Continued DEF IndexerInv
<1> QED
  BY <1>1, <1>6, <1>7, <1>8, <1>9 DEF Probe

LEMMA RecheckAncestorKeeps ==
  ASSUME IndexerInv, NEW s \in Syncs, RecheckAncestor(s)
  PROVE  IndexerInv'
<1>1. PICK y : y = syncs[s]
  OBVIOUS
<1>2. PICK x : x = [y EXCEPT !.stage = "rewind"]
  OBVIOUS
<1>3. y \in Sync /\ y # None /\ y.stage = "found" /\ Continue(s, x)
  BY <1>1, <1>2, SyncType DEF RecheckAncestor, IndexerInv
<1>4. /\ x \in Sync /\ x.stage = "rewind" /\ x.target = y.target
      /\ x.tip = y.tip /\ x.finalized = y.finalized /\ x.canonical = y.canonical
      /\ x.parent = y.parent /\ x.added = y.added /\ x.seen = y.seen /\ x.latest = y.latest
  BY <1>2, <1>3 DEF Sync, Stages
<1>5. Fits(y) => Fits(x)
  BY <1>3, <1>4 DEF Fits, Agrees, Targeted, Started, Searches, Extends, Checkpointed, Halts
<1> QED
  BY <1>1, <1>3, <1>4, <1>5, Continued DEF IndexerInv, CurrentFits

\* The chain has one block of a number it has reached.
LEMMA AtNumberFound ==
  ASSUME IndexerTypeOK, NEW n \in Nat, Reached(n)
  PROVE  AtNumber(n) \in Lineage[head] /\ AtNumber(n) \in Blocks /\ Height[AtNumber(n)] = n
<1>1. \E b \in Lineage[head] : Height[b] = n
  BY LineageNumbers, LedgerType DEF Reached
<1>2. AtNumber(n) \in Lineage[head] /\ Height[AtNumber(n)] = n
  BY <1>1 DEF AtNumber
<1> QED
  BY <1>2, LineageTrans, LedgerType

LEMMA ReadBlockKeeps ==
  ASSUME IndexerInv, NEW s \in Syncs, NEW n \in Nat, ReadBlock(s, n)
  PROVE  IndexerInv'
<1>1. PICK y : y = syncs[s]
  OBVIOUS
<1>2. PICK b : b = AtNumber(n)
  OBVIOUS
<1>3. PICK logs : /\ logs = {b} \cap Events \/ logs = {}
                  /\ Continue(s, [y EXCEPT !.parent = b, !.added = @ \cup {b}, !.seen = @ \cup logs])
  BY <1>1, <1>2 DEF ReadBlock
<1>4. PICK x : x = [y EXCEPT !.parent = b, !.added = @ \cup {b}, !.seen = @ \cup logs]
  OBVIOUS
<1>5. /\ y \in Sync /\ y # None /\ y.stage = "forward" /\ n = NextNumber(y) /\ Linked(y, b)
      /\ Continue(s, x)
  BY <1>1, <1>2, <1>3, <1>4, SyncType DEF ReadBlock, IndexerInv
<1>6. b \in Lineage[head] /\ b \in Blocks /\ Height[b] = n
  BY <1>1, <1>2, AtNumberFound DEF ReadBlock, IndexerInv
<1>7. /\ x \in Sync /\ x.stage = "forward" /\ x.target = y.target /\ x.parent = b
      /\ x.tip = y.tip /\ x.finalized = y.finalized /\ x.canonical = y.canonical
      /\ x.added = y.added \cup {b} /\ x.seen = y.seen \cup logs /\ x.latest = y.latest
  BY <1>3, <1>4, <1>5, <1>6 DEF Sync
<1>8. Branch(b) = Branch(y.parent) \cup {b}
  <2>1. CASE y.parent = None
    <3>1. b = Root
      BY <1>5, <1>6, <2>1, Child, Trees DEF NextNumber
    <3> QED
      BY <2>1, <3>1, Trees DEF Branch
  <2>2. CASE y.parent # None
    <3>1. y.parent \in Blocks /\ Height[b] = Height[y.parent] + 1 /\ Parent[b] = y.parent
      BY <1>5, <1>6, <2>2 DEF NextNumber, Linked, Sync
    <3>2. b # Root
      BY <3>1, Trees
    <3> QED
      BY <1>6, <2>2, <3>1, <3>2, Child, Trees DEF Branch
  <2> QED
    BY <2>1, <2>2
<1>9. Fits(y) => Extends(x)
  BY <1>3, <1>5, <1>7, <1>8 DEF Fits, Extends
<1>10. Fits(y) => Fits(x)
  BY <1>5, <1>7, <1>9 DEF Fits, Agrees, Targeted, Started, Searches, Checkpointed, Halts
<1> QED
  BY <1>1, <1>5, <1>7, <1>10, Continued DEF IndexerInv, CurrentFits

LEMMA ChooseCheckpointKeeps ==
  ASSUME IndexerInv, NEW s \in Syncs, ChooseCheckpoint(s)
  PROVE  IndexerInv'
<1>1. PICK y : y = syncs[s]
  OBVIOUS
<1> DEFINE n == IF Height[y.parent] < Height[y.target] THEN Height[y.parent] ELSE Height[y.target]
           among == {b \in y.added : Height[b] = n}
<1>2. y \in Sync /\ y # None /\ y.stage = "forward" /\ y.parent # None /\ y.parent \in Blocks
  BY <1>1, SyncType DEF ChooseCheckpoint, IndexerInv, Sync
<1>3. s \in current => Fits(y)
  BY <1>1 DEF IndexerInv, CurrentFits
<1>4. ASSUME NEW b \in IF among # {} THEN among ELSE {c \in Canonical : Height[c] = n},
             Continue(s, [y EXCEPT !.stage = "checkpoint", !.checkpoint = b])
      PROVE  IndexerInv'
  <2>1. PICK x : x = [y EXCEPT !.stage = "checkpoint", !.checkpoint = b]
    OBVIOUS
  <2>2. b \in Canonical \cup y.added /\ Height[b] = n /\ b \in Blocks
    BY <1>2, <1>4 DEF Canonical, Sync
  <2>3. /\ x \in Sync /\ x.stage = "checkpoint" /\ x.target = y.target /\ x.checkpoint = b
        /\ x.tip = y.tip /\ x.finalized = y.finalized /\ x.canonical = y.canonical
        /\ x.parent = y.parent /\ x.added = y.added /\ x.seen = y.seen /\ x.latest = y.latest
    BY <1>2, <2>1, <2>2 DEF Sync, Stages
  <2>4. Fits(y) => b \in Lineage[y.parent]
    BY <1>2, <2>2 DEF Fits, Extends, Branch
  <2>5. ASSUME Fits(y), finalized # None PROVE Height[finalized] <= Height[b]
    <3>1. finalized \in Lineage[y.parent] /\ finalized \in Blocks
      BY <1>2, <2>5, BranchFacts DEF Fits, Extends, Branch, IndexerInv
    <3>2. Height[finalized] <= Height[y.parent]
      BY <1>2, <3>1, LineageHeight, Trees
    <3>3. Height[finalized] <= Height[y.target]
      BY <1>2, <2>5 DEF Fits, Targeted
    <3> QED
      BY <2>2, <3>2, <3>3
  <2>6. Fits(y) => Checkpointed(x)
    BY <1>2, <2>3, <2>4, <2>5 DEF Checkpointed
  <2>7. Fits(y) => Fits(x)
    BY <1>2, <2>3, <2>6 DEF Fits, Agrees, Targeted, Started, Searches, Extends, Halts
  <2> QED
    BY <1>1, <1>2, <1>3, <1>4, <2>1, <2>3, <2>7, Continued
<1>5. CASE Continue(s, Halting(y, "BASE_RECONCILIATION_MISMATCH"))
  <2>1. "BASE_RECONCILIATION_MISMATCH" \in Codes
    BY DEF Codes
  <2> QED
    BY <1>1, <1>2, <1>3, <1>5, <2>1, HaltingFits, Continued DEF IndexerInv, Fits, Reason
<1> QED
  BY <1>1, <1>4, <1>5 DEF ChooseCheckpoint

LEMMA ReconcileKeeps ==
  ASSUME IndexerInv, NEW s \in Syncs, Reconcile(s)
  PROVE  IndexerInv'
<1>1. PICK y : y = syncs[s]
  OBVIOUS
<1>2. y \in Sync /\ y # None /\ y.stage = "checkpoint"
  BY <1>1, SyncType DEF Reconcile, IndexerInv
<1>3. s \in current => Fits(y)
  BY <1>1 DEF IndexerInv, CurrentFits
<1>4. CASE Reconciled(y) /\ Continue(s, [y EXCEPT !.stage = "reconciled"])
  <2>1. PICK x : x = [y EXCEPT !.stage = "reconciled"]
    OBVIOUS
  <2>2. /\ x \in Sync /\ x.stage = "reconciled" /\ x.target = y.target /\ x.checkpoint = y.checkpoint
        /\ x.tip = y.tip /\ x.finalized = y.finalized /\ x.canonical = y.canonical
        /\ x.parent = y.parent /\ x.added = y.added /\ x.seen = y.seen /\ x.latest = y.latest
        /\ x.logged = y.logged
    BY <1>2, <2>1 DEF Sync, Stages
  <2>3. Reconciled(x)
    BY <1>4, <2>2 DEF Reconciled, Projected, Known
  <2>4. Fits(y) => Fits(x)
    BY <1>2, <2>2, <2>3 DEF Fits, Agrees, Targeted, Started, Searches, Extends, Checkpointed, Halts
  <2> QED
    BY <1>1, <1>2, <1>3, <1>4, <2>1, <2>2, <2>4, Continued
<1>5. CASE Continue(s, Halting(y, "BASE_RECONCILIATION_MISMATCH"))
  <2>1. "BASE_RECONCILIATION_MISMATCH" \in Codes
    BY DEF Codes
  <2> QED
    BY <1>1, <1>2, <1>3, <1>5, <2>1, HaltingFits, Continued DEF IndexerInv, Fits, Reason
<1> QED
  BY <1>1, <1>4, <1>5 DEF Reconcile

LEMMA ReverifyKeeps ==
  ASSUME IndexerInv, NEW s \in Syncs, Reverify(s)
  PROVE  IndexerInv'
<1>1. PICK y : y = syncs[s]
  OBVIOUS
<1>2. PICK x : x = [y EXCEPT !.stage = "verified"]
  OBVIOUS
<1>3. /\ y \in Sync /\ y # None /\ y.stage = "reconciled" /\ Continue(s, x)
      /\ OnChain(y.checkpoint) /\ Height[final] >= Height[y.checkpoint]
  BY <1>1, <1>2, SyncType DEF Reverify, IndexerInv
<1>4. /\ x \in Sync /\ x.stage = "verified" /\ x.target = y.target /\ x.checkpoint = y.checkpoint
      /\ x.tip = y.tip /\ x.finalized = y.finalized /\ x.canonical = y.canonical
      /\ x.parent = y.parent /\ x.added = y.added /\ x.seen = y.seen /\ x.latest = y.latest
      /\ x.logged = y.logged
  BY <1>2, <1>3 DEF Sync, Stages
<1>5. x.checkpoint \in Lineage[final]
  <2>1. y.checkpoint \in Lineage[head] /\ final \in Lineage[head] /\ head \in Blocks
    BY <1>3, LedgerType DEF OnChain, IndexerInv
  <2>2. y.checkpoint \in Blocks
    BY <2>1, Trees
  <2>3. Height[y.checkpoint] <= Height[final]
    BY <1>3, <2>2, LedgerType DEF IndexerInv
  <2> QED
    BY <1>4, <2>1, <2>3, LineageLinear
<1>6. Reconciled(y) => Reconciled(x)
  BY <1>4 DEF Reconciled, Projected, Known
<1>7. Fits(y) => Checkpointed(x)
  BY <1>3, <1>4, <1>5, <1>6 DEF Fits, Checkpointed
<1>8. Fits(y) => Fits(x)
  BY <1>3, <1>4, <1>7 DEF Fits, Agrees, Targeted, Started, Searches, Extends, Halts
<1> QED
  BY <1>1, <1>3, <1>4, <1>8, Continued DEF IndexerInv, CurrentFits

-----------------------------------------------------------------------------
(* What is written.                                                           *)

\* The commit of a sync, other than its halt for logs that have changed.
Commits(s, y) ==
  /\ y = syncs[s] /\ y # None /\ y.stage = "verified" /\ s \in current
  /\ \A b \in y.added, c \in Canonical : Height[b] = Height[c] => b = c
  /\ rows' = [b \in Blocks |-> IF b \in y.added THEN "canonical" ELSE rows[b]]
  /\ logged' = logged \cup y.seen
  /\ snapshot' = IF Projected(y) = {} THEN snapshot
                 ELSE [block |-> y.checkpoint, events |-> Projected(y)]
  /\ tip' = y.parent /\ finalized' = y.checkpoint
  /\ state' = IF Healthy(y) THEN "HEALTHY" ELSE "CATCHING_UP"
  /\ current' = {} /\ syncs' = [syncs EXCEPT ![s] = None]
  /\ UNCHANGED <<chain, failure_code, reads, returned>>

\* What is committed continues the ledger's branch, and moves what is finalized on it.
LEMMA CommitExtends ==
  ASSUME IndexerInv, NEW s \in Syncs, NEW y, Commits(s, y)
  PROVE  /\ y \in Sync /\ y.parent \in Blocks /\ y.checkpoint \in Blocks
         /\ y.checkpoint \in Lineage[y.parent]
         /\ Canonical' = Canonical \cup y.added /\ Canonical' = Lineage[y.parent]
         /\ y.seen \subseteq y.added
         /\ Projected(y) = EventsUpTo(y.checkpoint)
         /\ ~broken => y.checkpoint \in Lineage[final]
         /\ finalized # None => finalized \in Lineage[y.checkpoint]
<1>1. y \in Sync /\ y.stage = "verified" /\ Fits(y)
  BY SyncType DEF Commits, IndexerInv, CurrentFits
<1>2. /\ y.parent \in Blocks /\ y.checkpoint \in Lineage[y.parent]
      /\ finalized # None => Height[finalized] <= Height[y.checkpoint]
      /\ ~broken => y.checkpoint \in Lineage[final]
      /\ Projected(y) = EventsUpTo(y.checkpoint)
  BY <1>1 DEF Fits, Checkpointed, Reconciled
<1>3. Canonical \cup y.added = Lineage[y.parent] /\ y.seen \subseteq y.added /\ y.added \subseteq Blocks
  BY <1>1, <1>2, Trees DEF Fits, Extends, Branch, Sync
<1>4. Canonical' = Canonical \cup y.added
  BY <1>3 DEF Canonical, Commits
<1>5. finalized # None => finalized \in Lineage[y.checkpoint]
  BY <1>2, <1>3, BranchFacts, LineageLinear DEF IndexerInv
<1>6. y.checkpoint \in Blocks
  BY <1>2, Trees
<1> QED
  BY <1>1, <1>2, <1>3, <1>4, <1>5, <1>6

LEMMA CommitKeeps ==
  ASSUME IndexerInv, NEW s \in Syncs, NEW y, Commits(s, y)
  PROVE  IndexerInv'
<1>1. /\ y \in Sync /\ y.parent \in Blocks /\ y.checkpoint \in Blocks
      /\ y.checkpoint \in Lineage[y.parent]
      /\ Canonical' = Canonical \cup y.added /\ Canonical' = Lineage[y.parent]
      /\ y.seen \subseteq y.added
      /\ Projected(y) = EventsUpTo(y.checkpoint)
      /\ ~broken => y.checkpoint \in Lineage[final]
      /\ finalized # None => finalized \in Lineage[y.checkpoint]
  BY CommitExtends
<1>2. state # "HALTED" /\ failure_code = None
  BY DEF Commits, IndexerInv, IndexerTypeOK, CurrentFits
<1>3. y.parent # None /\ y.checkpoint # None
  BY <1>1, Trees
<1>4. LedgerIsBranch'
  BY <1>1, <1>3 DEF LedgerIsBranch, Commits
<1>5. IndexerTypeOK'
  <2>1. /\ tip' \in Blocks /\ finalized' \in Blocks /\ state' \in {"HEALTHY", "CATCHING_UP"}
        /\ UNCHANGED <<head, final, broken, failure_code, reads, returned>>
        /\ syncs' \in [Syncs -> Sync \cup {None}] /\ current' = {}
    BY <1>1 DEF Commits, IndexerInv, IndexerTypeOK, chain
  <2>2. rows' \in [Blocks -> {"absent", "canonical", "orphaned"}]
    BY DEF Commits, IndexerInv, IndexerTypeOK
  <2>3. \A b, c \in Blocks :
           rows'[b] = "canonical" /\ rows'[c] = "canonical" /\ Height[b] = Height[c] => b = c
    <3>1. \A b \in Blocks : rows'[b] = "canonical" <=> b \in Canonical'
      BY DEF Canonical
    <3> QED
      BY <1>1, <3>1, SameHeight
  <2>4. logged' \in SUBSET {b \in Events : rows'[b] # "absent"}
    <3>1. y.seen \subseteq Events /\ y.added \subseteq Blocks /\ Events \subseteq Blocks
      BY <1>1, OptionsAssumption DEF Sync
    <3>2. \A b \in logged : b \in Events /\ rows[b] # "absent"
      BY DEF IndexerInv, IndexerTypeOK
    <3> QED
      BY <1>1, <3>1, <3>2 DEF Commits
  <2>5. snapshot' \in Account \cup {None}
    BY <1>1 DEF Commits, Account, EventsUpTo, IndexerInv, IndexerTypeOK
  <2> QED
    BY <1>2, <2>1, <2>2, <2>3, <2>4, <2>5, Trees DEF IndexerInv, IndexerTypeOK
<1>6. FinalizedFits'
  <2>1. ~broken => finalized' \in Lineage[final]
    BY <1>1 DEF Commits
  <2>2. snapshot' = None => EventsUpTo(y.checkpoint) = {}
    BY <1>1, NoneAssumption DEF Commits, Account, EventsUpTo
  <2>3. ASSUME snapshot' # None
        PROVE  snapshot'.block \in Lineage[y.checkpoint] /\ snapshot'.events = EventsUpTo(y.checkpoint)
    <3>1. CASE Projected(y) = {}
      <4>1. snapshot' = snapshot /\ EventsUpTo(y.checkpoint) = {}
        BY <1>1, <3>1 DEF Commits
      <4>2. /\ finalized # None /\ snapshot.block \in Lineage[finalized]
            /\ snapshot.events = EventsUpTo(finalized)
        BY <2>3, <4>1 DEF IndexerInv, FinalizedFits
      <4>3. Lineage[finalized] \subseteq Lineage[y.checkpoint]
        BY <1>1, <4>2, LineageTrans
      <4> QED
        BY <4>1, <4>2, <4>3 DEF EventsUpTo
    <3>2. CASE Projected(y) # {}
      BY <1>1, <3>2, LineageEnds DEF Commits
    <3> QED
      BY <3>1, <3>2
  <2>4. UNCHANGED <<final, broken>> /\ finalized' = y.checkpoint
    BY DEF Commits, chain
  <2> QED
    BY <1>3, <2>1, <2>2, <2>3, <2>4 DEF FinalizedFits, EventsUpTo
<1>7. ReturnedIsReconciled'
  <2>1. returned' = returned /\ finalized' = y.checkpoint
    BY DEF Commits
  <2>2. ASSUME NEW account \in returned
        PROVE  /\ account.events = EventsUpTo(account.block)
               /\ account.block \in Lineage[y.checkpoint] \cap Canonical'
    <3>1. /\ account.events = EventsUpTo(account.block)
          /\ finalized # None /\ account.block \in Lineage[finalized]
      BY DEF IndexerInv, ReturnedIsReconciled
    <3>2. account.block \in Lineage[y.checkpoint]
      BY <1>1, <3>1, LineageTrans
    <3> QED
      BY <1>1, <3>1, <3>2, LineageTrans
  <2> QED
    BY <1>3, <2>1, <2>2 DEF ReturnedIsReconciled, EventsUpTo
<1>8. HaltsOnlyWhenBroken' /\ CurrentFits'
  BY DEF Commits, HaltsOnlyWhenBroken, CurrentFits
<1> QED
  BY <1>4, <1>5, <1>6, <1>7, <1>8 DEF IndexerInv

LEMMA AppendKeeps ==
  ASSUME IndexerInv, NEW s \in Syncs, Append(s)
  PROVE  IndexerInv'
<1>1. PICK y : y = syncs[s]
  OBVIOUS
<1>2. y \in Sync /\ y # None /\ y.stage = "verified" /\ s \in current /\ Fits(y)
  BY <1>1, SyncType DEF Append, UpToDate, IndexerInv, CurrentFits
<1>3. CASE Continue(s, Halting(y, "BASE_RECONCILIATION_MISMATCH"))
  <2>1. "BASE_RECONCILIATION_MISMATCH" \in Codes
    BY DEF Codes
  <2> QED
    BY <1>1, <1>2, <1>3, <2>1, HaltingFits, Continued DEF IndexerInv, Fits, Reason
<1>4. CASE Commits(s, y)
  BY <1>4, CommitKeeps
<1> QED
  BY <1>1, <1>2, <1>3, <1>4 DEF Append, Commits

LEMMA RewindKeeps ==
  ASSUME IndexerInv, NEW s \in Syncs, Rewind(s)
  PROVE  IndexerInv'
<1>1. PICK y : y = syncs[s]
  OBVIOUS
<1>2. /\ y \in Sync /\ y.stage = "rewind" /\ Fits(y)
      /\ rows' = [b \in Blocks |-> IF rows[b] = "canonical" /\ Height[b] > Height[y.parent]
                                   THEN "orphaned" ELSE rows[b]]
      /\ tip' = y.parent /\ state' = "CATCHING_UP" /\ current' = {}
      /\ UNCHANGED <<chain, failure_code, finalized, logged, snapshot, reads, returned>>
  BY <1>1, SyncType DEF Rewind, UpToDate, IndexerInv, CurrentFits
<1>3. state # "HALTED" /\ failure_code = None
  BY DEF Rewind, UpToDate, IndexerInv, IndexerTypeOK, CurrentFits
<1>4. /\ tip \in Blocks /\ y.parent \in Blocks /\ y.parent \in Lineage[tip] /\ y.parent # None
      /\ finalized # None => Height[finalized] <= Height[y.parent] /\ finalized \in Lineage[tip]
  BY <1>2, BranchFacts, Trees DEF Fits, Searches, IndexerInv
<1>5. Canonical' = Lineage[y.parent]
  <2>1. \A b \in Blocks : b \in Canonical' <=> b \in Canonical /\ Height[b] <= Height[y.parent]
    BY <1>2, <1>4, Trees DEF Canonical
  <2>2. Canonical = Lineage[tip]
    BY <1>4, Trees DEF IndexerInv, LedgerIsBranch
  <2>3. \A b \in Lineage[tip] : Height[b] <= Height[y.parent] => b \in Lineage[y.parent]
    BY <1>4, LineageLinear
  <2>4. \A b \in Lineage[y.parent] : b \in Lineage[tip] /\ Height[b] <= Height[y.parent]
    BY <1>4, LineageTrans, LineageHeight, Trees
  <2>5. Canonical' \subseteq Blocks
    BY DEF Canonical
  <2> QED
    BY <1>4, <2>1, <2>2, <2>3, <2>4, <2>5, Trees
<1>6. finalized # None => finalized \in Lineage[y.parent]
  BY <1>4, LineageLinear
<1>7. LedgerIsBranch'
  BY <1>2, <1>4, <1>5, <1>6 DEF LedgerIsBranch
<1>8. IndexerTypeOK'
  <2>1. /\ rows' \in [Blocks -> {"absent", "canonical", "orphaned"}]
        /\ \A b \in Blocks : rows'[b] = "absent" <=> rows[b] = "absent"
    BY <1>2 DEF IndexerInv, IndexerTypeOK
  <2>2. \A b, c \in Blocks :
           rows'[b] = "canonical" /\ rows'[c] = "canonical" /\ Height[b] = Height[c] => b = c
    <3>1. \A b \in Blocks : rows'[b] = "canonical" <=> b \in Canonical'
      BY DEF Canonical
    <3> QED
      BY <1>4, <1>5, <3>1, SameHeight
  <2>3. logged' \in SUBSET {b \in Events : rows'[b] # "absent"}
    BY <1>2, <2>1, OptionsAssumption DEF IndexerInv, IndexerTypeOK
  <2>4. syncs' \in [Syncs -> Sync \cup {None}]
    BY DEF Rewind, IndexerInv, IndexerTypeOK
  <2> QED
    BY <1>2, <1>3, <1>4, <2>1, <2>2, <2>3, <2>4 DEF IndexerInv, IndexerTypeOK, chain
<1>9. FinalizedFits'
  BY <1>2 DEF IndexerInv, FinalizedFits, EventsUpTo, chain
<1>10. ReturnedIsReconciled'
  <2>1. ASSUME NEW account \in returned PROVE account.block \in Canonical'
    <3>1. finalized # None /\ account.block \in Lineage[finalized]
      BY DEF IndexerInv, ReturnedIsReconciled
    <3> QED
      BY <1>4, <1>5, <1>6, <3>1, LineageTrans
  <2> QED
    BY <1>2, <2>1 DEF IndexerInv, ReturnedIsReconciled, EventsUpTo
<1>11. HaltsOnlyWhenBroken' /\ CurrentFits'
  BY <1>2 DEF HaltsOnlyWhenBroken, CurrentFits
<1> QED
  BY <1>7, <1>8, <1>9, <1>10, <1>11 DEF IndexerInv

LEMMA HaltKeeps ==
  ASSUME IndexerInv, NEW s \in Syncs, Halt(s)
  PROVE  IndexerInv'
<1>1. PICK y : y = syncs[s]
  OBVIOUS
<1>2. /\ y \in Sync /\ y.stage = "halting" /\ Fits(y)
      /\ state' = "HALTED" /\ failure_code' = y.code /\ current' = {}
      /\ syncs' = [syncs EXCEPT ![s] = None]
      /\ UNCHANGED <<chain, tip, finalized, rows, logged, snapshot, reads, returned>>
  BY <1>1, SyncType DEF Halt, IndexerInv, CurrentFits
<1>3. y.code \in Codes /\ y.code # None /\ Reason(y.code)
  BY <1>2 DEF Fits, Halts, Sync
<1>4. IndexerTypeOK'
  BY <1>2, <1>3 DEF IndexerInv, IndexerTypeOK, chain
<1>5. LedgerIsBranch' /\ FinalizedFits' /\ ReturnedIsReconciled'
  BY <1>2 DEF IndexerInv, LedgerIsBranch, FinalizedFits, ReturnedIsReconciled, EventsUpTo, Canonical, chain
<1>6. HaltsOnlyWhenBroken' /\ CurrentFits'
  BY <1>2, <1>3 DEF HaltsOnlyWhenBroken, CurrentFits, Reason, chain
<1> QED
  BY <1>4, <1>5, <1>6 DEF IndexerInv

-----------------------------------------------------------------------------
(* Steps that leave the ledger alone.                                          *)

\* The ledger is what it was, and so is what was returned from it, while the chain
\* keeps what it has finalized or breaks its finality.
LEMMA LedgerKept ==
  ASSUME IndexerInv, IndexerTypeOK', UNCHANGED ledger, returned' = returned,
         broken => broken',
         ~broken' => final \in Lineage[final'] /\ final' \in Blocks
  PROVE  LedgerIsBranch' /\ FinalizedFits' /\ ReturnedIsReconciled' /\ HaltsOnlyWhenBroken'
<1>1. LedgerIsBranch' /\ ReturnedIsReconciled'
  BY DEF IndexerInv, LedgerIsBranch, ReturnedIsReconciled, EventsUpTo, Canonical, ledger
<1>2. HaltsOnlyWhenBroken'
  BY DEF IndexerInv, HaltsOnlyWhenBroken, ledger
<1>3. ~broken' /\ finalized # None => finalized \in Lineage[final']
  BY LineageTrans DEF IndexerInv, FinalizedFits
<1>4. FinalizedFits'
  BY <1>3 DEF IndexerInv, FinalizedFits, EventsUpTo, ledger
<1> QED
  BY <1>1, <1>2, <1>4

\* What a sync has read stays fit for its ledger.
LEMMA FitsKept ==
  ASSUME IndexerInv, UNCHANGED ledger, broken => broken',
         ~broken' => final \in Lineage[final'] /\ final' \in Blocks,
         NEW y, Fits(y)
  PROVE  /\ Agrees(y)' /\ Targeted(y)' /\ Started(y)' /\ Searches(y)' /\ Extends(y)'
         /\ Checkpointed(y)' /\ Halts(y)'
<1>1. Agrees(y)' /\ Targeted(y)' /\ Started(y)' /\ Extends(y)'
  BY DEF Fits, Agrees, Targeted, Started, Extends, Canonical, ledger
<1>2. Searches(y)'
  BY DEF Fits, Searches, Canonical, ledger
<1>3. Halts(y)'
  BY DEF Fits, Halts, Reason
<1>4. y.stage = "verified" /\ ~broken' => y.checkpoint \in Lineage[final']
  BY LineageTrans DEF Fits, Checkpointed
<1>5. Checkpointed(y)'
  BY <1>4 DEF Fits, Checkpointed, Reconciled, Projected, Known, EventsUpTo, ledger
<1> QED
  BY <1>1, <1>2, <1>3, <1>5

\* A step of the chain.
LEMMA ChainKeeps ==
  ASSUME IndexerInv, MoveHead \/ FinalizeBlock \/ BreakFinality
  PROVE  IndexerInv'
<1>1. /\ UNCHANGED ledger /\ current' = current /\ syncs' = syncs
      /\ reads' = reads /\ returned' = returned
  BY DEF MoveHead, FinalizeBlock, BreakFinality
<1>0. broken' \in BOOLEAN /\ (broken => broken')
  <2>1. broken' = broken \/ broken' = TRUE
    BY DEF MoveHead, FinalizeBlock, BreakFinality
  <2>2. broken \in BOOLEAN
    BY LedgerType DEF IndexerInv
  <2>3. broken' \in BOOLEAN
    BY <2>1, <2>2
  <2>4. broken => broken'
    BY <2>1, <2>2
  <2> QED
    BY <2>3, <2>4
<1>2. head' \in Blocks /\ final' \in Lineage[head'] /\ final' \in Blocks
  BY LedgerType, Trees DEF MoveHead, FinalizeBlock, BreakFinality, IndexerInv
<1>3. ~broken' => final \in Lineage[final']
  <2>1. CASE MoveHead
    BY <2>1, LedgerType, LineageEnds DEF MoveHead, IndexerInv
  <2>2. CASE FinalizeBlock
    <3>1. final' \in Lineage[head] /\ final \in Lineage[head] /\ head \in Blocks
          /\ Height[final'] > Height[final]
      BY <2>2, LedgerType DEF FinalizeBlock, IndexerInv
    <3>2. Height[final] <= Height[final']
      BY <3>1, Trees
    <3> QED
      BY <3>1, <3>2, LineageLinear
  <2>3. CASE BreakFinality
    BY <2>3 DEF BreakFinality
  <2> QED
    BY <2>1, <2>2, <2>3
<1>4. IndexerTypeOK'
  BY <1>0, <1>1, <1>2 DEF IndexerInv, IndexerTypeOK, ledger
<1>5. CurrentFits'
  <2> SUFFICES ASSUME NEW r \in current PROVE Fits(syncs[r])'
    BY <1>1 DEF IndexerInv, CurrentFits, ledger
  <2>1. PICK y : y = syncs[r]
    OBVIOUS
  <2>2. /\ Agrees(y)' /\ Targeted(y)' /\ Started(y)' /\ Searches(y)' /\ Extends(y)'
        /\ Checkpointed(y)' /\ Halts(y)'
    BY <1>0, <1>1, <1>2, <1>3, <2>1, FitsKept DEF IndexerInv, CurrentFits
  <2>3. syncs'[r] = y
    BY <1>1, <2>1
  <2> QED
    BY <2>2, <2>3
    DEF Fits, Agrees, Targeted, Started, Searches, Extends, Checkpointed, Halts, Reason,
        Reconciled, Projected, Known, EventsUpTo, Canonical
<1> QED
  BY <1>0, <1>1, <1>2, <1>3, <1>4, <1>5, LedgerKept DEF IndexerInv

LEMMA LoadKeeps ==
  ASSUME IndexerInv, NEW s \in Syncs, Load(s)
  PROVE  IndexerInv'
<1>1. PICK x : x =
       [stage |-> "loaded", tip |-> tip, finalized |-> finalized, canonical |-> Canonical,
        logged |-> logged \cap Canonical, latest |-> 0, target |-> None, parent |-> tip,
        added |-> {}, seen |-> {}, checkpoint |-> None, code |-> None]
  OBVIOUS
<1>2. /\ state # "HALTED" /\ current' = current \cup {s} /\ syncs' = [syncs EXCEPT ![s] = x]
      /\ UNCHANGED <<chain, ledger>> /\ reads' = reads /\ returned' = returned
  BY <1>1 DEF Load
<1>3. x \in Sync /\ x # None
  <2>1. logged \cap Canonical \subseteq Events /\ Canonical \subseteq Blocks
    BY DEF IndexerInv, IndexerTypeOK, Canonical
  <2>2. x \in Sync
    BY <1>1, <2>1, LedgerType DEF IndexerInv, Sync, Stages
  <2> QED
    BY <2>2, NoneAssumption
<1>4. Fits(x)
  BY <1>1 DEF Fits, Agrees, Targeted, Started, Searches, Extends, Checkpointed, Halts
<1>5. IndexerTypeOK'
  BY <1>2, <1>3 DEF IndexerInv, IndexerTypeOK, chain, ledger
<1>6. CurrentFits'
  <2> SUFFICES ASSUME NEW r \in current' PROVE Fits(syncs[r])'
    BY <1>2 DEF CurrentFits, ledger
  <2>1. PICK y : y = syncs'[r]
    OBVIOUS
  <2>2. y = IF r = s THEN x ELSE syncs[r]
    BY <1>2, <2>1 DEF IndexerInv, IndexerTypeOK
  <2>3. Fits(y)
    BY <1>2, <1>4, <2>2 DEF IndexerInv, CurrentFits
  <2> QED
    BY <1>2, <2>1, <2>3
    DEF Fits, Agrees, Targeted, Started, Searches, Extends, Checkpointed, Halts, Reason,
        Reconciled, Projected, Known, EventsUpTo, Canonical, chain, ledger
<1>7. ~broken' => final \in Lineage[final'] /\ final' \in Blocks
  BY <1>2, LedgerType, LineageEnds DEF IndexerInv, chain
<1>8. broken => broken'
  BY <1>2 DEF chain
<1> QED
  BY <1>2, <1>5, <1>6, <1>7, <1>8, LedgerKept DEF IndexerInv

LEMMA EndSyncKeeps ==
  ASSUME IndexerInv, NEW s \in Syncs, EndSync(s)
  PROVE  IndexerInv'
<1>1. /\ current' = current \ {s} /\ syncs' = [syncs EXCEPT ![s] = None]
      /\ UNCHANGED <<chain, ledger>> /\ reads' = reads /\ returned' = returned
  BY DEF EndSync
<1>2. IndexerTypeOK'
  BY <1>1 DEF IndexerInv, IndexerTypeOK, chain, ledger
<1>3. CurrentFits'
  <2>1. current' # {} => state' # "HALTED"
    BY <1>1 DEF IndexerInv, CurrentFits, ledger
  <2> SUFFICES ASSUME NEW r \in current' PROVE Fits(syncs[r])'
    BY <2>1 DEF CurrentFits
  <2>2. PICK y : y = syncs'[r]
    OBVIOUS
  <2>3. y = syncs[r] /\ r \in current
    BY <1>1, <2>2 DEF IndexerInv, IndexerTypeOK
  <2>4. Fits(y)
    BY <2>3 DEF IndexerInv, CurrentFits
  <2> QED
    BY <1>1, <2>2, <2>4
    DEF Fits, Agrees, Targeted, Started, Searches, Extends, Checkpointed, Halts, Reason,
        Reconciled, Projected, Known, EventsUpTo, Canonical, chain, ledger
<1>4. ~broken' => final \in Lineage[final'] /\ final' \in Blocks
  BY <1>1, LedgerType, LineageEnds DEF IndexerInv, chain
<1>5. broken => broken'
  BY <1>1 DEF chain
<1> QED
  BY <1>1, <1>2, <1>3, <1>4, <1>5, LedgerKept DEF IndexerInv

\* The issuer is given an account that was the ledger's and the chain's.
LEMMA ReadKeeps ==
  ASSUME IndexerInv, NEW r \in Readers, ReadStep(r)
  PROVE  IndexerInv'
<1>1. UNCHANGED <<chain, ledger>> /\ current' = current /\ syncs' = syncs
  BY DEF ReadStep, ReadBefore, ReadChain, ReadAfter, EndRead
<1>2. snapshot # None => snapshot \in Account
  BY DEF IndexerInv, IndexerTypeOK
<1>3. reads' \in [Readers -> [stage : {"before", "read"}, account : Account] \cup {None}]
  <2>1. reads \in [Readers -> [stage : {"before", "read"}, account : Account] \cup {None}]
    BY DEF IndexerInv, IndexerTypeOK
  <2> QED
    BY <1>2, <2>1 DEF ReadStep, ReadBefore, ReadChain, ReadAfter, EndRead, Ready
<1>4. \A account \in returned' : account \in returned \/ (account = snapshot /\ Ready)
  BY DEF ReadStep, ReadBefore, ReadChain, ReadAfter, EndRead
<1>5. IndexerTypeOK'
  BY <1>1, <1>2, <1>3, <1>4 DEF IndexerInv, IndexerTypeOK, Ready, chain, ledger
<1>6. ReturnedIsReconciled'
  <2> SUFFICES ASSUME NEW account \in returned'
               PROVE  /\ account.events = EventsUpTo(account.block)
                      /\ finalized # None /\ account.block \in Lineage[finalized] \cap Canonical
    BY <1>1 DEF ReturnedIsReconciled, EventsUpTo, Canonical, ledger
  <2>1. CASE account \in returned
    BY <2>1 DEF IndexerInv, ReturnedIsReconciled
  <2>2. CASE account = snapshot /\ Ready
    <3>1. finalized # None /\ snapshot.block = finalized /\ snapshot.events = EventsUpTo(finalized)
      BY <2>2 DEF Ready, IndexerInv, FinalizedFits
    <3>2. finalized \in Blocks /\ finalized \in Canonical
      BY <3>1, BranchFacts DEF IndexerInv
    <3> QED
      BY <2>2, <3>1, <3>2, LineageEnds
  <2> QED
    BY <1>4, <2>1, <2>2
<1>7. LedgerIsBranch' /\ FinalizedFits' /\ HaltsOnlyWhenBroken'
  BY <1>1 DEF IndexerInv, LedgerIsBranch, FinalizedFits, HaltsOnlyWhenBroken, EventsUpTo, Canonical,
              chain, ledger
<1>8. CurrentFits'
  BY <1>1 DEF IndexerInv, CurrentFits, Fits, Agrees, Targeted, Started, Searches, Extends, Checkpointed,
              Halts, Reason, Reconciled, Projected, Known, EventsUpTo, Canonical, chain, ledger
<1> QED
  BY <1>5, <1>6, <1>7, <1>8 DEF IndexerInv

-----------------------------------------------------------------------------
(* The theorems.                                                              *)

LEMMA SyncCallKeeps ==
  ASSUME IndexerInv, NEW s \in Syncs, SyncCall(s)
  PROVE  IndexerInv'
<1>1. CASE \E n \in 0 .. Cardinality(Blocks) : ReadBlock(s, n)
  BY <1>1, ReadBlockKeeps, TreeAssumption, FS_CardinalityType
<1> QED
  BY <1>1, ReadLatestKeeps, ReadFinalizedKeeps, CheckFinalityKeeps, CheckTipKeeps, ProbeKeeps,
     RecheckAncestorKeeps, RewindKeeps, ChooseCheckpointKeeps, ReconcileKeeps, ReverifyKeeps,
     AppendKeeps, HaltKeeps
  DEF SyncCall

LEMMA StepKeeps ==
  ASSUME IndexerInv, [Next]_vars
  PROVE  IndexerInv'
<1>1. CASE vars' = vars
  BY <1>1 DEF vars, chain, ledger, IndexerInv, IndexerTypeOK, LedgerIsBranch, FinalizedFits,
              ReturnedIsReconciled, HaltsOnlyWhenBroken, CurrentFits, Fits, Agrees, Targeted, Started,
              Searches, Extends, Checkpointed, Halts, Reason, Reconciled, Projected, Known, EventsUpTo,
              Canonical
<1> QED
  BY <1>1, ChainKeeps, LoadKeeps, SyncCallKeeps, EndSyncKeeps, ReadKeeps DEF Next

LEMMA InitHolds ==
  ASSUME Init
  PROVE  IndexerInv
<1>1. Root \in Blocks /\ Root \in Lineage[Root]
  BY Trees
<1>2. IndexerTypeOK
  BY <1>1 DEF Init, IndexerTypeOK
<1>3. LedgerIsBranch /\ FinalizedFits /\ ReturnedIsReconciled /\ HaltsOnlyWhenBroken /\ CurrentFits
  BY DEF Init, LedgerIsBranch, FinalizedFits, ReturnedIsReconciled, HaltsOnlyWhenBroken, CurrentFits, Canonical
<1> QED
  BY <1>2, <1>3 DEF IndexerInv

\* Whatever the syncs and the chain do, the ledger, what was read from it and every sync
\* that may still commit fit together.
THEOREM IndexerInvariant == Spec => []IndexerInv
<1>1. Init => IndexerInv
  BY InitHolds
<1>2. IndexerInv /\ [Next]_vars => IndexerInv'
  BY StepKeeps
<1> QED
  BY <1>1, <1>2, PTL DEF Spec

\* The saved blocks are one branch from the deployment block to the tip, with the
\* finalized block on it, however many syncs overlap and however the chain reorganises.
THEOREM LedgerIsOneBranch == Spec => []IndexerSafe
<1>1. IndexerInv => IndexerSafe
  BY DEF IndexerInv, IndexerSafe
<1> QED
  BY <1>1, IndexerInvariant, PTL

\* What the ledger says of the finalized chain, and what the issuer was given of it, is
\* exactly what the contract has done up to that block.
THEOREM LedgerIsExact == Spec => []LedgerExact
<1>1. IndexerInv => HealthyIsExact
  BY DEF IndexerInv, FinalizedFits, HealthyIsExact
<1>2. IndexerInv => LedgerExact
  BY <1>1 DEF IndexerInv, LedgerExact
<1> QED
  BY <1>2, IndexerInvariant, PTL

\* A ledger halts only over a chain that broke its finality, events that do not add up,
\* or a fork deeper than MaxReorg.
THEOREM HaltsForAReason == Spec => []HaltsOnlyWhenBroken
<1>1. IndexerInv => HaltsOnlyWhenBroken
  BY DEF IndexerInv
<1> QED
  BY <1>1, IndexerInvariant, PTL

\* The steps that write the ledger.
LEMMA Writes ==
  ASSUME IndexerInv, Next
  PROVE  \/ UNCHANGED ledger
         \/ \E s \in current : s \in Syncs /\ (Rewind(s) \/ Commits(s, syncs[s]) \/ Halt(s))
<1>1. CASE MoveHead \/ FinalizeBlock \/ BreakFinality
  BY <1>1 DEF MoveHead, FinalizeBlock, BreakFinality
<1>2. CASE \E s \in Syncs : Load(s) \/ EndSync(s)
  BY <1>2 DEF Load, EndSync
<1>3. CASE \E r \in Readers : ReadStep(r)
  BY <1>3 DEF ReadStep, ReadBefore, ReadChain, ReadAfter, EndRead
<1>4. ASSUME NEW s \in Syncs, SyncCall(s)
      PROVE  UNCHANGED ledger \/ (s \in current /\ (Rewind(s) \/ Commits(s, syncs[s]) \/ Halt(s)))
  <2>1. CASE Append(s)
    BY <2>1 DEF Append, Commits, Continue, UpToDate
  <2>2. CASE Rewind(s) \/ Halt(s)
    BY <2>2 DEF Rewind, Halt, UpToDate
  <2>3. CASE ReadLatest(s) \/ ReadFinalized(s) \/ CheckFinality(s) \/ CheckTip(s) \/ RecheckAncestor(s)
    BY <2>3 DEF ReadLatest, ReadFinalized, CheckFinality, CheckTip, RecheckAncestor, Continue
  <2>4. CASE \E b \in Blocks : Probe(s, b)
    BY <2>4 DEF Probe, Continue
  <2>5. CASE \E n \in 0 .. Cardinality(Blocks) : ReadBlock(s, n)
    BY <2>5 DEF ReadBlock, Continue
  <2>6. CASE ChooseCheckpoint(s) \/ Reconcile(s) \/ Reverify(s)
    BY <2>6 DEF ChooseCheckpoint, Reconcile, Reverify, Continue
  <2> QED
    BY <1>4, <2>1, <2>2, <2>3, <2>4, <2>5, <2>6 DEF SyncCall
<1> QED
  BY <1>1, <1>2, <1>3, <1>4 DEF Next

\* The saved finalized block moves only to its own descendants.
THEOREM CheckpointAdvances == Spec => CheckpointOnlyAdvances
<1> DEFINE Advances == finalized' # finalized =>
             finalized = None \/ (finalized' # None /\ finalized \in Lineage[finalized'])
<1>1. IndexerInv /\ [Next]_vars => [Advances]_vars
  <2> SUFFICES ASSUME IndexerInv, Next PROVE Advances
    OBVIOUS
  <2>1. CASE UNCHANGED ledger
    BY <2>1 DEF ledger
  <2>2. ASSUME NEW s \in Syncs, Rewind(s) \/ Halt(s) PROVE Advances
    BY <2>2 DEF Rewind, Halt
  <2>3. ASSUME NEW s \in Syncs, Commits(s, syncs[s]) PROVE Advances
    <3>1. PICK y : y = syncs[s]
      OBVIOUS
    <3>2. /\ finalized' = y.checkpoint /\ y.checkpoint \in Blocks
          /\ finalized # None => finalized \in Lineage[y.checkpoint]
      BY <2>3, <3>1, CommitExtends DEF Commits
    <3> QED
      BY <3>2, Trees
  <2> QED
    BY <2>1, <2>2, <2>3, Writes
<1> QED
  BY <1>1, IndexerInvariant, PTL DEF Spec, CheckpointOnlyAdvances

\* A halted ledger is never written again.
THEOREM HaltedForGood == Spec => HaltIsFinal
<1> DEFINE Frozen == state = "HALTED" => UNCHANGED ledger
<1>1. IndexerInv /\ [Next]_vars => [Frozen]_vars
  <2> SUFFICES ASSUME IndexerInv, Next, state = "HALTED" PROVE UNCHANGED ledger
    OBVIOUS
  <2>1. current = {}
    BY DEF IndexerInv, CurrentFits
  <2> QED
    BY <2>1, Writes
<1> QED
  BY <1>1, IndexerInvariant, PTL DEF Spec, HaltIsFinal

\* The indexer that IndexerLive runs is one of those the theorems are about.
THEOREM FairIndexer == FairSpec => Spec
<1>1. [AnsweredNext]_vars => [Next]_vars
  BY DEF AnsweredNext, Next
<1> QED
  BY <1>1, PTL DEF FairSpec, Spec
=============================================================================
