------------------------- MODULE BaseChainIndexer -------------------------
(***************************************************************************)
(* The ledger the server keeps of the Base rewards contract                *)
(* (src/src/server/base/chain-indexer.ts), and the reader that lets the    *)
(* issuer use the chain only where that ledger agrees with it              *)
(* (reconciled-chain-reader.ts).  Several syncs may run at once; each one  *)
(* loads the ledger, reads the chain in many calls while the chain         *)
(* reorganises, and commits in one transaction.                            *)
(*                                                                         *)
(* Abstractions.  The blocks the chain may ever contain form a fixed tree; *)
(* a block stands for its hash, number and parent hash.  The escrow logs   *)
(* of a block are one event of their own, so an account of the contract is *)
(* the set of blocks whose events it has applied.  The deployment row's    *)
(* version is only ever compared for equality and grows with every write,  *)
(* so it is modelled by the set of syncs that still hold the latest one.   *)
(* A sync or a read may fail, time out or be killed between any two calls. *)
(***************************************************************************)
EXTENDS Naturals, FiniteSets

CONSTANTS
  Blocks, Root,   \* the tree of blocks; Root is the pinned deployment block
  Parent, Height, Lineage,  \* of a block: its parent, number, itself and its ancestors
  Events,         \* the blocks that hold logs of the escrow
  Syncs, Readers, \* indexer runs and issuer reads that may overlap
  BatchBlocks, MaxReorg,    \* options of the BaseChainIndexer
  Faults,         \* what may go wrong: "logs" are missed, "finality" is broken
  None

ASSUME TreeAssumption ==
  /\ Root \in Blocks /\ None \notin Blocks /\ IsFiniteSet(Blocks)
  /\ Parent \in [Blocks \ {Root} -> Blocks]
  /\ Height \in [Blocks -> Nat] /\ Height[Root] = 0
  /\ Lineage \in [Blocks -> SUBSET Blocks] /\ Lineage[Root] = {Root}
  /\ \A b \in Blocks \ {Root} :
       Height[b] = Height[Parent[b]] + 1 /\ Lineage[b] = Lineage[Parent[b]] \cup {b}

ASSUME OptionsAssumption ==
  /\ BatchBlocks \in Nat \ {0} /\ MaxReorg \in Nat \ {0}
  /\ Events \subseteq Blocks /\ Faults \subseteq {"logs", "finality"}

Codes == {"BASE_FINALITY_CONFLICT", "BASE_REORG_TOO_DEEP", "BASE_RECONCILIATION_MISMATCH"}
Account == [block : Blocks, events : SUBSET Events]

VARIABLES
  head, final,   \* the chain's latest and finalized blocks
  broken,        \* history: the chain has dropped a finalized block
  state, failure_code, tip, finalized,  \* the base_chain_deployments row
  rows,          \* base_chain_blocks: per block absent, canonical or orphaned
  logged,        \* the blocks whose events are in base_chain_events
  snapshot,      \* base_chain_campaign_snapshots
  current,       \* the syncs whose loaded version is still the row's
  syncs,         \* the syncs in progress
  reads,         \* the issuer's reads in progress
  returned       \* the accounts the issuer has been given

chain == <<head, final, broken>>
ledger == <<state, failure_code, tip, finalized, rows, logged, snapshot>>
vars == <<chain, ledger, current, syncs, reads, returned>>

Stages == {"loaded", "latest", "targeted", "checked", "search", "found", "rewind",
           "forward", "checkpoint", "reconciled", "verified", "halting"}

Sync == [stage : Stages, tip : Blocks \cup {None}, finalized : Blocks \cup {None},
         canonical : SUBSET Blocks, logged : SUBSET Events, latest : Nat,
         target : Blocks \cup {None}, parent : Blocks \cup {None}, added : SUBSET Blocks,
         seen : SUBSET Events, checkpoint : Blocks \cup {None}, code : Codes \cup {None}]

ASSUME NoneAssumption == None \notin Codes \cup Account \cup Sync

\* Types, and what the tables' own constraints guarantee: a halted row has a
\* failure code, a finalized block goes with a tip, one canonical block per number.
IndexerTypeOK ==
  /\ head \in Blocks /\ final \in Lineage[head] /\ broken \in BOOLEAN
  /\ state \in {"CATCHING_UP", "HEALTHY", "HALTED"} /\ failure_code \in Codes \cup {None}
  /\ (state = "HALTED") <=> (failure_code # None)
  /\ tip \in Blocks \cup {None} /\ finalized \in Blocks \cup {None}
  /\ tip = None => finalized = None
  /\ rows \in [Blocks -> {"absent", "canonical", "orphaned"}]
  /\ \A b, c \in Blocks : rows[b] = "canonical" /\ rows[c] = "canonical" /\ Height[b] = Height[c] => b = c
  /\ logged \in SUBSET {b \in Events : rows[b] # "absent"}
  /\ snapshot \in Account \cup {None}
  /\ syncs \in [Syncs -> Sync \cup {None}] /\ current \subseteq {s \in Syncs : syncs[s] # None}
  /\ reads \in [Readers -> [stage : {"before", "read"}, account : Account] \cup {None}]
  /\ returned \subseteq Account

Init ==
  /\ head = Root /\ final = Root /\ broken = FALSE
  /\ state = "CATCHING_UP" /\ failure_code = None /\ tip = None /\ finalized = None
  /\ rows = [b \in Blocks |-> "absent"] /\ logged = {} /\ snapshot = None
  /\ current = {} /\ syncs = [s \in Syncs |-> None]
  /\ reads = [r \in Readers |-> None] /\ returned = {}

----------------------------------------------------------------------------
(* The chain.                                                              *)

\* The head moves to any block that keeps what is finalized: it grows, or reorganises.
MoveHead ==
  /\ head' \in {b \in Blocks \ {head} : final \in Lineage[b]}
  /\ UNCHANGED <<final, broken, ledger, current, syncs, reads, returned>>

FinalizeBlock ==
  /\ final' \in {b \in Lineage[head] : Height[b] > Height[final]}
  /\ UNCHANGED <<head, broken, ledger, current, syncs, reads, returned>>

\* A chain (or the node that is asked about it) that drops a finalized block.
BreakFinality ==
  /\ "finality" \in Faults
  /\ head' \in {b \in Blocks : final \notin Lineage[b]} /\ final' \in Lineage[head']
  /\ broken' = TRUE
  /\ UNCHANGED <<ledger, current, syncs, reads, returned>>

\* What block(number) answers; it fails for a number the chain has not reached.
Reached(n) == n <= Height[head]
OnChain(b) == b \in Lineage[head]
AtNumber(n) == CHOOSE b \in Lineage[head] : Height[b] = n

EventsUpTo(b) == Lineage[b] \cap Events

----------------------------------------------------------------------------
(* A sync.                                                                 *)

\* What is left of a sync that has read enough to raise one of haltCodes.
Halting(sync, code) ==
  [sync EXCEPT !.stage = "halting", !.code = code, !.canonical = {}, !.logged = {}, !.added = {},
               !.seen = {}, !.parent = None, !.checkpoint = None, !.target = None, !.latest = 0]

\* A read of the chain moves sync s on and writes nothing.
Continue(s, sync) ==
  /\ syncs' = [syncs EXCEPT ![s] = sync]
  /\ UNCHANGED <<chain, ledger, current, reads, returned>>

Canonical == {b \in Blocks : rows[b] = "canonical"}

\* load: one transaction that reads the row, the canonical history and the tail.
Load(s) ==
  /\ syncs[s] = None /\ state # "HALTED"
  /\ current' = current \cup {s}
  /\ syncs' = [syncs EXCEPT ![s] =
       [stage |-> "loaded", tip |-> tip, finalized |-> finalized, canonical |-> Canonical,
        logged |-> logged \cap Canonical, latest |-> 0, target |-> None, parent |-> tip,
        added |-> {}, seen |-> {}, checkpoint |-> None, code |-> None]]
  /\ UNCHANGED <<chain, ledger, reads, returned>>

ReadLatest(s) ==
  LET sync == syncs[s] IN
  /\ sync # None /\ sync.stage = "loaded"
  /\ Continue(s, [sync EXCEPT !.stage = "latest", !.latest = Height[head]])

ReadFinalized(s) ==
  LET sync == syncs[s] IN
  /\ sync # None /\ sync.stage = "latest"
  /\ Height[final] <= sync.latest
  /\ sync.finalized # None => Height[final] >= Height[sync.finalized]
  /\ Continue(s, [sync EXCEPT !.stage = "targeted", !.target = final])

LeftBehindUnreported(sync) == FALSE

\* The chain has another block where the saved finalized block was.
LeftBehind(sync) ==
  sync.finalized # None /\ Reached(Height[sync.finalized]) /\ ~OnChain(sync.finalized)

\* The saved finalized block is still the chain's, and the deployment is verified
\* at the target.
CheckFinality(s) ==
  LET sync == syncs[s] IN
  /\ sync # None /\ sync.stage = "targeted"
  /\ \/ /\ LeftBehind(sync)
        /\ Continue(s, Halting(sync, "BASE_FINALITY_CONFLICT"))
     \/ /\ sync.finalized # None => OnChain(sync.finalized)
        /\ OnChain(sync.target)
        /\ Continue(s, [sync EXCEPT !.stage = "checked"])

CheckTip(s) ==
  LET sync == syncs[s] IN
  /\ sync # None /\ sync.stage = "checked"
  /\ \/ /\ sync.tip # None => Height[sync.tip] <= sync.latest /\ OnChain(sync.tip)
        /\ Continue(s, [sync EXCEPT !.stage = "forward"])
     \/ /\ sync.tip # None
        /\ Height[sync.tip] > sync.latest \/ (Reached(Height[sync.tip]) /\ ~OnChain(sync.tip))
        /\ Continue(s, [sync EXCEPT !.stage = "search"])

SearchableShort(sync) == {b \in sync.canonical : Height[sync.tip] - Height[b] < MaxReorg}

\* The tail as the search walks it: the blocks under the tip that are near enough.
Searchable(sync) == {b \in sync.canonical : Height[sync.tip] - Height[b] <= MaxReorg}

RewindableAnywhere(sync) == TRUE

\* A rewind may not go under the saved finalized block.
Rewindable(sync) == sync.finalized # None => Height[sync.parent] >= Height[sync.finalized]

\* One turn of the search for a common ancestor; sync.parent is the block it looks at.
Probe(s, b) ==
  LET sync == syncs[s]
      matches == Height[b] <= sync.latest /\ OnChain(b)
      lower == {c \in Searchable(sync) : Height[c] + 1 = Height[b]}
  IN
  /\ sync # None /\ sync.stage = "search" /\ sync.parent = b
  /\ Height[b] <= sync.latest => Reached(Height[b])
  /\ \/ /\ matches /\ Rewindable(sync)
        /\ Continue(s, [sync EXCEPT !.stage = "found"])
     \/ /\ matches /\ ~Rewindable(sync)
        /\ Continue(s, Halting(sync, "BASE_FINALITY_CONFLICT"))
     \/ /\ ~matches
        /\ \E c \in lower : Continue(s, [sync EXCEPT !.parent = c])
     \/ /\ ~matches /\ lower = {}
        /\ Continue(s, Halting(sync, "BASE_REORG_TOO_DEEP"))

RecheckAncestor(s) ==
  LET sync == syncs[s] IN
  /\ sync # None /\ sync.stage = "found" /\ OnChain(sync.parent)
  /\ Continue(s, [sync EXCEPT !.stage = "rewind"])

UpToDateAlways(s) == TRUE

\* The FOR UPDATE read of the version in a commit; otherwise BASE_INDEXER_RETRY.
UpToDate(s) == s \in current

Rewind(s) ==
  LET sync == syncs[s] IN
  /\ sync # None /\ sync.stage = "rewind" /\ UpToDate(s)
  /\ rows' = [b \in Blocks |-> IF rows[b] = "canonical" /\ Height[b] > Height[sync.parent]
                               THEN "orphaned" ELSE rows[b]]
  /\ tip' = sync.parent /\ state' = "CATCHING_UP"
  /\ current' = {} /\ syncs' = [syncs EXCEPT ![s] = None]
  /\ UNCHANGED <<chain, failure_code, finalized, logged, snapshot, reads, returned>>

\* The next block to read, and the last one this sync will read.
NextNumber(sync) == IF sync.parent = None THEN 0 ELSE Height[sync.parent] + 1
LastNumber(sync) ==
  LET start == IF sync.tip = None THEN 0 ELSE Height[sync.tip] + 1
      stop == start + BatchBlocks - 1
  IN IF stop < sync.latest THEN stop ELSE sync.latest

LinkedAnyhow(sync, b) == TRUE

\* A block that is added names the previous one as its parent.
Linked(sync, b) == sync.parent # None => Parent[b] = sync.parent

\* block(number) and logs(block); a faulty node may answer with no logs.
ReadBlock(s, n) ==
  LET sync == syncs[s]
      b == AtNumber(n)
  IN
  /\ sync # None /\ sync.stage = "forward"
  /\ n = NextNumber(sync) /\ n <= LastNumber(sync) /\ Reached(n) /\ Linked(sync, b)
  /\ \E logs \in {{b} \cap Events} \cup (IF "logs" \in Faults THEN {{}} ELSE {}) :
       Continue(s, [sync EXCEPT !.parent = b, !.added = @ \cup {b}, !.seen = @ \cup logs])

Known(sync) == sync.logged \cup sync.seen

\* projectEscrowEvents over everything: with events missing it may not hold together.
ProjectionBreaks(sync) ==
  /\ sync # None /\ sync.stage = "forward"
  /\ Known(sync) # (sync.canonical \cup sync.added) \cap Events

\* The checkpoint: the lower of the new tip and the finalized block, among the
\* blocks just read or, failing that, a canonical row of the ledger as it is now.
ChooseCheckpoint(s) ==
  LET sync == syncs[s]
      n == IF Height[sync.parent] < Height[sync.target] THEN Height[sync.parent] ELSE Height[sync.target]
      among == {b \in sync.added : Height[b] = n}
  IN
  /\ sync # None /\ sync.stage = "forward"
  /\ NextNumber(sync) > LastNumber(sync) /\ sync.parent # None
  /\ \/ \E b \in IF among # {} THEN among ELSE {c \in Canonical : Height[c] = n} :
          Continue(s, [sync EXCEPT !.stage = "checkpoint", !.checkpoint = b])
     \/ /\ ProjectionBreaks(sync)
        /\ Continue(s, Halting(sync, "BASE_RECONCILIATION_MISMATCH"))

Projected(sync) == {b \in Known(sync) : Height[b] <= Height[sync.checkpoint]}

ReconciledAlways(sync) == TRUE

\* reconcileCampaign and reconcileTotals against the contract at the checkpoint.
Reconciled(sync) == Projected(sync) = EventsUpTo(sync.checkpoint)

Reconcile(s) ==
  LET sync == syncs[s] IN
  /\ sync # None /\ sync.stage = "checkpoint" /\ OnChain(sync.checkpoint)
  /\ \/ Reconciled(sync) /\ Continue(s, [sync EXCEPT !.stage = "reconciled"])
     \/ ~Reconciled(sync) /\ Continue(s, Halting(sync, "BASE_RECONCILIATION_MISMATCH"))

\* The last reads before the commit: nothing that is committed has moved.
Reverify(s) ==
  LET sync == syncs[s] IN
  /\ sync # None /\ sync.stage = "reconciled"
  /\ OnChain(sync.parent) /\ OnChain(sync.checkpoint) /\ Height[final] >= Height[sync.checkpoint]
  /\ Continue(s, [sync EXCEPT !.stage = "verified"])

\* A block that comes back must come back with the logs it had.
SameLogs(sync) == \A b \in sync.added : rows[b] # "absent" => (b \in logged <=> b \in sync.seen)

HealthyAtTip(sync) == sync.checkpoint = sync.parent

\* The checkpoint reached the finalized block that was read at the start.
Healthy(sync) == Height[sync.checkpoint] = Height[sync.target]

Append(s) ==
  LET sync == syncs[s] IN
  /\ sync # None /\ sync.stage = "verified" /\ UpToDate(s)
  /\ \/ /\ SameLogs(sync)
        /\ \A b \in sync.added, c \in Canonical : Height[b] = Height[c] => b = c
        /\ rows' = [b \in Blocks |-> IF b \in sync.added THEN "canonical" ELSE rows[b]]
        /\ logged' = logged \cup sync.seen
        /\ snapshot' = IF Projected(sync) = {} THEN snapshot
                       ELSE [block |-> sync.checkpoint, events |-> Projected(sync)]
        /\ tip' = sync.parent /\ finalized' = sync.checkpoint
        /\ state' = IF Healthy(sync) THEN "HEALTHY" ELSE "CATCHING_UP"
        /\ current' = {} /\ syncs' = [syncs EXCEPT ![s] = None]
        /\ UNCHANGED <<chain, failure_code, reads, returned>>
     \/ /\ ~SameLogs(sync)
        /\ Continue(s, Halting(sync, "BASE_RECONCILIATION_MISMATCH"))

\* halt: a transaction of its own, which does nothing if the row has moved on.
Halt(s) ==
  LET sync == syncs[s] IN
  /\ sync # None /\ sync.stage = "halting" /\ s \in current
  /\ state' = "HALTED" /\ failure_code' = sync.code
  /\ current' = {} /\ syncs' = [syncs EXCEPT ![s] = None]
  /\ UNCHANGED <<chain, tip, finalized, rows, logged, snapshot, reads, returned>>

\* A sync ends with nothing written: a call failed, a guard above did not hold,
\* the version had moved, the 60 second bound passed, or the process died.
EndSync(s) ==
  /\ syncs[s] # None
  /\ syncs' = [syncs EXCEPT ![s] = None] /\ current' = current \ {s}
  /\ UNCHANGED <<chain, ledger, reads, returned>>

----------------------------------------------------------------------------
(* The issuer's reads.                                                     *)

\* checkpoint(): the ledger is healthy and its snapshot is of the finalized block.
Ready == state = "HEALTHY" /\ snapshot # None /\ snapshot.block = finalized

ReadBefore(r) ==
  /\ reads[r] = None /\ Ready
  /\ reads' = [reads EXCEPT ![r] = [stage |-> "before", account |-> snapshot]]
  /\ UNCHANGED <<chain, ledger, current, syncs, returned>>

ReadChain(r) ==
  /\ reads[r] # None /\ reads[r].stage = "before"
  /\ reads[r].account = [block |-> final, events |-> EventsUpTo(final)]
  /\ reads' = [reads EXCEPT ![r].stage = "read"]
  /\ UNCHANGED <<chain, ledger, current, syncs, returned>>

ReadAfter(r) ==
  /\ reads[r] # None /\ reads[r].stage = "read"
  /\ Ready /\ snapshot = reads[r].account
  /\ returned' = returned \cup {reads[r].account}
  /\ reads' = [reads EXCEPT ![r] = None]
  /\ UNCHANGED <<chain, ledger, current, syncs>>

EndRead(r) ==
  /\ reads[r] # None
  /\ reads' = [reads EXCEPT ![r] = None]
  /\ UNCHANGED <<chain, ledger, current, syncs, returned>>

----------------------------------------------------------------------------
SyncCall(s) ==
  \/ ReadLatest(s) \/ ReadFinalized(s) \/ CheckFinality(s) \/ CheckTip(s)
  \/ \E b \in Blocks : Probe(s, b)
  \/ RecheckAncestor(s) \/ Rewind(s)
  \/ \E n \in 0 .. Cardinality(Blocks) : ReadBlock(s, n)
  \/ ChooseCheckpoint(s) \/ Reconcile(s) \/ Reverify(s) \/ Append(s) \/ Halt(s)

ReadStep(r) == ReadBefore(r) \/ ReadChain(r) \/ ReadAfter(r) \/ EndRead(r)

Next ==
  \/ MoveHead \/ FinalizeBlock \/ BreakFinality
  \/ \E s \in Syncs : Load(s) \/ SyncCall(s) \/ EndSync(s)
  \/ \E r \in Readers : ReadStep(r)

Spec == Init /\ [][Next]_vars

\* The indexer on a node that answers: a sync ends early only where the code
\* gives up.  It is run again and again, and every run takes its next step.
SyncsRun == \A s \in Syncs : WF_vars(Load(s) \/ SyncCall(s) \/ EndSync(s))

AnsweredNext ==
  \/ MoveHead \/ FinalizeBlock \/ BreakFinality
  \/ \E s \in Syncs : Load(s) \/ SyncCall(s) \/ (EndSync(s) /\ ~ENABLED SyncCall(s))
  \/ \E r \in Readers : ReadStep(r)

FairSpec == Init /\ [][AnsweredNext]_vars /\ SyncsRun

----------------------------------------------------------------------------
(* What the ledger promises.                                               *)

\* The canonical rows are exactly one branch of the chain, from the deployment
\* block to the tip, and the finalized block is on it: no interleaving of syncs
\* (load, chain reads, versioned commit) leaves a gap, a fork or a stale tip.
LedgerIsBranch ==
  /\ Canonical = (IF tip = None THEN {} ELSE Lineage[tip])
  /\ finalized # None => finalized \in Canonical

\* The ledger is well formed, and a branch.
IndexerSafe == IndexerTypeOK /\ LedgerIsBranch

\* A ledger that calls itself healthy has applied exactly the events of the
\* contract up to its finalized block, even if some logs were once missed.
HealthyIsExact ==
  state = "HEALTHY" =>
    IF snapshot = None THEN EventsUpTo(finalized) = {}
    ELSE snapshot.block \in Lineage[finalized] /\ snapshot.events = EventsUpTo(finalized)

\* What the issuer was given stays true of the ledger: an exact account at a
\* block the ledger's finalized block has never left.
ReturnedIsReconciled ==
  \A account \in returned :
    /\ account.events = EventsUpTo(account.block)
    /\ finalized # None /\ account.block \in Lineage[finalized] \cap Canonical

\* What the ledger says of the finalized chain is exact, and so is what was read from it.
LedgerExact == HealthyIsExact /\ ReturnedIsReconciled

\* The saved finalized block moves only to its own descendants, even when the
\* chain breaks its finality under the indexer.
CheckpointOnlyAdvances ==
  [][finalized' # finalized =>
       finalized = None \/ (finalized' # None /\ finalized \in Lineage[finalized'])]_vars

\* Once halted, the ledger is frozen: no sync that loaded earlier commits into it.
HaltIsFinal == [][state = "HALTED" => UNCHANGED ledger]_vars

\* Any two blocks have a common ancestor that is at most MaxReorg under each of them.
ShallowForks ==
  \A b, c \in Blocks : \E a \in Lineage[b] \cap Lineage[c] : Height[b] - Height[a] <= MaxReorg

\* Reorganisations within MaxReorg never halt a ledger, however the chain moves
\* between the reads of a sync: it halts if the chain has broken its finality, if the
\* events it was given do not add up to the balance that the contract reports, or if
\* the chain forks deeper than MaxReorg.
HaltsOnlyWhenBroken ==
  state = "HALTED" =>
    \/ broken
    \/ failure_code = "BASE_RECONCILIATION_MISMATCH"
    \/ failure_code = "BASE_REORG_TOO_DEEP" /\ ~ShallowForks

AtRest == <>[][FALSE]_chain

\* The node leaves out no logs: a sync has the events of the blocks it has read.
LogsSeen ==
  \A s \in Syncs : syncs[s] # None =>
    Known(syncs[s]) = (syncs[s].canonical \cup syncs[s].added) \cap Events

\* Once a chain that kept its finality and showed its logs comes to rest, the ledger
\* reaches its head and its finalized block, healthy, and stays there, whatever
\* reorganisations a sync met.
CatchesUp ==
  AtRest /\ []~broken /\ []LogsSeen => <>[](tip = head /\ finalized = final /\ state = "HEALTHY")

\* The chain is on a branch without the saved finalized block, and has finalized
\* at least as far.
Conflict ==
  finalized # None /\ finalized \notin Lineage[head] /\ Height[final] >= Height[finalized]

\* A ledger whose finalized block the chain has left for good is halted.
ConflictHalts == AtRest /\ <>[]Conflict => <>(state = "HALTED")
============================================================================
