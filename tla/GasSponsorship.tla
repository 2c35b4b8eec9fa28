---------------------------- MODULE GasSponsorship ----------------------------
(***************************************************************************)
(* Gas sponsorship of reward claims (src/server/base/sponsorship.ts): who has *)
(* a signed reward claim gets a permit; the wallet sends its requests with    *)
(* the permit's token to a proxy, which passes them on to a paymaster, a      *)
(* provider that signs; or the provider's own client submits the operation    *)
(* (the managed mode).  What was asked of the provider is written down before *)
(* it is asked, and what is not known to have failed is never asked again.    *)
(*                                                                         *)
(* The proxy awaits the account check, the provider and a second check; other *)
(* requests, permits and reports run in between, and it may die anywhere.     *)
(* The first checks of claim and account guard nothing here: they may be out  *)
(* of date by the transaction that follows.  A review has two transactions    *)
(* with a chain read between them.                                          *)
(*                                                                         *)
(* A token is only compared with the row's, so a request keeps whether the    *)
(* row still has the token it came with (fresh).  Gas is counted in           *)
(* operations of at most maxOperationWei.  One signer epoch; no change of     *)
(* policy; the bytes of operations and answers are left out.                 *)
(***************************************************************************)
EXTENDS Naturals, FiniteSets, FiniteSetsExt

CONSTANTS
    Allocations,   \* reward allocations with a saved signature
    AccountOf,     \* allocation -> recipient
    Requests,      \* [op, final, gas]: what a wallet may ask, op being the identity
    Proxies,       \* requests that the proxy may serve at once
    Hashes,        \* user operation hashes that clients report
    Budget,        \* totalBudgetWei / maxOperationWei
    PerAccount,    \* maxOperationsPerAccount
    MaxAttempts,   \* 12
    MaxEpoch,      \* 12
    Lifetime,      \* 600 s
    UseMargin,     \* 10 s
    RenewMargin,   \* 30 s
    Deadline,      \* of the claims
    MaxTime,       \* bound on the clock
    None

ASSUME GasAssumption ==
    /\ Budget \in Nat /\ PerAccount \in Nat /\ MaxAttempts \in Nat \ {0} /\ MaxEpoch \in Nat
    /\ Lifetime \in Nat /\ UseMargin \in Nat /\ RenewMargin \in Nat /\ UseMargin <= RenewMargin
    /\ Deadline \in Nat /\ MaxTime \in Nat
    /\ \A r \in Requests : r.final \in BOOLEAN

VARIABLES
    now,
    claimable,   \* the claims that the finalized chain would still pay
    rows,        \* base_gas_sponsorships: allocation -> row
    asked,       \* base_gas_requests
    reviews,     \* base_gas_recovery_reviews
    candidates,  \* what reviewers have found, and may commit
    proxies,     \* the requests in progress
    signed       \* history: what the provider has signed

vars == <<now, claimable, rows, asked, reviews, candidates, proxies, signed>>

Operations == {r.op : r \in Requests}
Epochs == 0 .. MaxEpoch
Times == 0 .. Deadline

Row == [mode : {"PROXY", "CDP_MANAGED"}, expires : Times, op : Operations \cup {None, "managed"},
        attempts : 0 .. MaxAttempts, final : Requests \cup {None}, epoch : Epochs,
        managed : {None, "RESERVED", "SUBMITTED", "UNKNOWN", "FINALIZED"},
        hash : Hashes \cup {None}]

Asked == [a : Allocations, epoch : Epochs, request : Requests,
          state : {"IN_FLIGHT", "READY", "UNKNOWN"}, until : Times, isFinal : BOOLEAN]

Candidate == [a : Allocations, epoch : Epochs, op : Operations, expires : Times, until : Times]

Proxy == [a : Allocations, request : Requests, epoch : Epochs, expires : Times, fresh : BOOLEAN,
          at : {"found", "asking", "answered", "checked", "failed"}, until : Times, isFinal : BOOLEAN]

\* None is no value of its own.
ASSUME NoneAssumption ==
    /\ None \notin Operations \cup {"managed"} /\ None \notin Requests /\ None \notin Hashes
    /\ None \notin Row /\ None \notin Proxy

TypeOK ==
    /\ now \in 0 .. MaxTime
    /\ claimable \subseteq Allocations
    /\ rows \in [Allocations -> Row \cup {None}]
    /\ asked \subseteq Asked
    /\ reviews \subseteq [found : Candidate, consumed : BOOLEAN]
    /\ candidates \subseteq Candidate
    /\ proxies \in [Proxies -> Proxy \cup {None}]

Init ==
    /\ now = 0 /\ claimable = Allocations
    /\ rows = [a \in Allocations |-> None]
    /\ asked = {} /\ reviews = {} /\ candidates = {} /\ signed = {}
    /\ proxies = [p \in Proxies |-> None]

Earlier(s, t) == IF s < t THEN s ELSE t
Expiry == Earlier(now + Lifetime, Deadline)

\* The load of a claim: there is time left to claim it.
InTime == now + RenewMargin < Deadline

\* operation_identity and reserved_wei are set together and never cleared.
Reserved == {a \in Allocations : rows[a] # None /\ rows[a].op # None}

-----------------------------------------------------------------------------
(* Permits.                                                                 *)

\* A permit whose operation may be signed is renewed only under a review.
Renewable(a) == rows[a].op = None

\* The review that lets the permit of an expired operation be renewed.
Reviewed(a) ==
    {v \in reviews : /\ ~v.consumed
                     /\ v.found.a = a /\ v.found.epoch = rows[a].epoch
                     /\ v.found.op = rows[a].op /\ v.found.expires = rows[a].expires
                     /\ v.found.until <= now}

\* Whoever holds the old token holds nothing any more.
ReplaceToken(a) ==
    proxies' = [p \in Proxies |->
                   IF proxies[p] # None /\ proxies[p].a = a
                   THEN [proxies[p] EXCEPT !.fresh = FALSE] ELSE proxies[p]]

\* permit, for an allocation that has none yet.
FirstPermit(a) ==
    /\ InTime /\ rows[a] = None
    /\ rows' = [rows EXCEPT ![a] =
          [mode |-> "PROXY", expires |-> Expiry, op |-> None, attempts |-> 0, final |-> None,
           epoch |-> 0, managed |-> None, hash |-> None]]
    /\ UNCHANGED <<now, claimable, asked, reviews, candidates, proxies, signed>>

\* permit again: a new token, and more time if nothing may be signed yet.
RefreshPermit(a) ==
    /\ InTime /\ rows[a] # None /\ rows[a].mode = "PROXY"
    /\ IF Renewable(a) THEN rows' = [rows EXCEPT ![a].expires = Expiry]
       ELSE rows[a].expires > now + RenewMargin /\ UNCHANGED rows
    /\ ReplaceToken(a)
    /\ UNCHANGED <<now, claimable, asked, reviews, candidates, signed>>

\* permit after a review: the next epoch of the same operation.
RecoverPermit(a) ==
    /\ InTime /\ rows[a] # None /\ rows[a].mode = "PROXY" /\ rows[a].op # None
    /\ rows[a].expires <= now + RenewMargin
    /\ \E v \in Reviewed(a) : reviews' = (reviews \ {v}) \cup {[v EXCEPT !.consumed = TRUE]}
    /\ rows' = [rows EXCEPT ![a].expires = Expiry, ![a].epoch = @ + 1]
    /\ ReplaceToken(a)
    /\ UNCHANGED <<now, claimable, asked, candidates, signed>>

-----------------------------------------------------------------------------
(* The review of an expired operation that has only seen stubs.              *)

AskedIn(a, epoch) == {x \in asked : x.a = a /\ x.epoch = epoch}

\* A mutant that lets an answer be missing.
Stub(x) == ~x.request.final /\ (x.state = "READY" => ~x.isFinal)

\* An answered stub.
AnsweredStub(x) == x.state = "READY" /\ ~x.request.final /\ ~x.isFinal

\* stubOnlyRecoveryCandidate: everything of this epoch has run out, on chain too.
FindCandidate(a) ==
    LET row == rows[a]
        of == AskedIn(a, row.epoch)
        until == Max({x.until : x \in of})
    IN  /\ InTime
        /\ row # None /\ row.mode = "PROXY" /\ row.op # None
        /\ row.epoch < MaxEpoch
        /\ row.final = None /\ row.expires < now
        /\ of # {} /\ \A x \in of : AnsweredStub(x)
        /\ until <= row.expires /\ until < now
        /\ candidates' = candidates \cup
              {[a |-> a, epoch |-> row.epoch, op |-> row.op, expires |-> row.expires, until |-> until]}
        /\ UNCHANGED <<now, claimable, rows, asked, reviews, proxies, signed>>

\* reviewExpiredStubOnlyRecovery: the row is as it was found.
CommitReview(c) ==
    LET row == rows[c.a]
    IN  /\ row.epoch = c.epoch /\ row.op = c.op /\ row.final = None /\ row.expires = c.expires
        /\ \A v \in reviews : v.found.a = c.a /\ v.found.epoch = c.epoch => v.found = c /\ ~v.consumed
        /\ reviews' = reviews \cup {[found |-> c, consumed |-> FALSE]}
        /\ UNCHANGED <<now, claimable, rows, asked, candidates, proxies, signed>>

-----------------------------------------------------------------------------
(* The proxy.                                                               *)

Goto(p, place) == proxies' = [proxies EXCEPT ![p].at = place]
End(p) == proxies' = [proxies EXCEPT ![p] = None]

\* The wallet sends a request with the current token.
FindPermit(p, a, request) ==
    LET row == rows[a]
    IN  /\ proxies[p] = None
        /\ row # None /\ row.mode = "PROXY" /\ row.expires > now
        /\ proxies' = [proxies EXCEPT ![p] =
              [a |-> a, request |-> request, epoch |-> row.epoch, expires |-> row.expires,
               fresh |-> TRUE, at |-> "found", until |-> 0, isFinal |-> FALSE]]
        /\ UNCHANGED <<now, claimable, rows, asked, reviews, candidates, signed>>

StillPermitted(p) == proxies[p].fresh /\ rows[proxies[p].a].expires > now + UseMargin

\* A mutant that lets a wallet change its operation.
AnyOperation(row, request) == TRUE

SameOperation(row, request) == row.op \in {None, request.op}

\* A mutant that asks again while an answer is missing.
Forgets(a, epoch) == TRUE

\* Nothing of the epoch is in doubt.
Settled(a, epoch) == \A x \in AskedIn(a, epoch) : x.state = "READY"

\* A mutant that does not count what was reserved before.
BudgetLeftOffByOne(a) ==
    /\ Cardinality(Reserved) <= Budget
    /\ Cardinality({b \in Reserved : AccountOf[b] = AccountOf[a]}) <= PerAccount

\* ensureGasBudget
BudgetLeft(a) ==
    /\ Cardinality(Reserved) + 1 <= Budget
    /\ Cardinality({b \in Reserved : AccountOf[b] = AccountOf[a]}) < PerAccount

MayAsk(p) ==
    LET a == proxies[p].a
        request == proxies[p].request
        row == rows[a]
    IN  /\ StillPermitted(p)
        /\ SameOperation(row, request)
        /\ \A x \in AskedIn(a, proxies[p].epoch) : x.request # request
        /\ Settled(a, proxies[p].epoch)
        /\ row.final = None /\ row.attempts < MaxAttempts
        /\ row.op = None => BudgetLeft(a)

\* The transaction before the provider is asked.  A request that was answered before
\* gets that answer, any other that may not be asked an error.
Decide(p) ==
    LET a == proxies[p].a
        request == proxies[p].request
    IN  /\ proxies[p] # None /\ proxies[p].at = "found"
        /\ IF MayAsk(p)
           THEN /\ rows' = [rows EXCEPT ![a].op = request.op, ![a].attempts = @ + 1,
                               ![a].final = IF request.final THEN request ELSE @]
                /\ asked' = asked \cup
                      {[a |-> a, epoch |-> proxies[p].epoch, request |-> request,
                        state |-> "IN_FLIGHT", until |-> 0, isFinal |-> FALSE]}
                /\ Goto(p, "asking")
           ELSE End(p) /\ UNCHANGED <<rows, asked>>
        /\ UNCHANGED <<now, claimable, reviews, candidates, signed>>

Signs(p, until, isFinal) ==
    signed' = signed \cup {[a |-> proxies[p].a, epoch |-> proxies[p].epoch, until |-> until,
                            final |-> isFinal \/ proxies[p].request.final,
                            claimable |-> proxies[p].a \in claimable]}

\* The provider signs, and its answer is a valid one.
Answer(p, until, isFinal) ==
    /\ proxies[p] # None /\ proxies[p].at = "asking"
    /\ until > now + UseMargin /\ until <= proxies[p].expires
    /\ isFinal => ~proxies[p].request.final
    /\ Signs(p, until, isFinal)
    /\ proxies' = [proxies EXCEPT ![p].at = "answered", ![p].until = until, ![p].isFinal = isFinal]
    /\ UNCHANGED <<now, claimable, rows, asked, reviews, candidates>>

\* The answer is lost, late or invalid, whatever the provider signed.
LoseAnswer(p) ==
    /\ proxies[p] # None /\ proxies[p].at = "asking"
    /\ \/ UNCHANGED signed
       \/ \E until \in Times, isFinal \in BOOLEAN : until > now /\ Signs(p, until, isFinal)
    /\ Goto(p, "failed")
    /\ UNCHANGED <<now, claimable, rows, asked, reviews, candidates>>

\* A mutant that does not look at the claim again.
UncheckedClaim(a) == TRUE

\* load: the finalized chain would pay the claim.
ClaimReady(a) == a \in claimable

\* The second check of claim, account and answer.
Recheck(p) ==
    /\ proxies[p] # None /\ proxies[p].at = "answered"
    /\ IF ClaimReady(proxies[p].a) /\ InTime /\ proxies[p].until > now + UseMargin
       THEN Goto(p, "checked") ELSE Goto(p, "failed")
    /\ UNCHANGED <<now, claimable, rows, asked, reviews, candidates, signed>>

Mine(p) ==
    {x \in AskedIn(proxies[p].a, proxies[p].epoch) :
        x.request = proxies[p].request /\ x.state = "IN_FLIGHT"}

\* The answer is saved and handed to the wallet.
SaveAnswer(p) ==
    LET row == proxies[p]
    IN  /\ row # None /\ row.at = "checked"
        /\ asked' = (asked \ Mine(p)) \cup
              {[x EXCEPT !.state = "READY", !.until = row.until, !.isFinal = row.isFinal] : x \in Mine(p)}
        /\ rows' = IF row.isFinal THEN [rows EXCEPT ![row.a].final = row.request] ELSE rows
        /\ End(p)
        /\ UNCHANGED <<now, claimable, reviews, candidates, signed>>

\* The catch block, also of a save that failed.
HandleError(p) ==
    /\ proxies[p] # None /\ proxies[p].at \in {"failed", "checked"}
    /\ asked' = (asked \ Mine(p)) \cup {[x EXCEPT !.state = "UNKNOWN"] : x \in Mine(p)}
    /\ End(p)
    /\ UNCHANGED <<now, claimable, rows, reviews, candidates, signed>>

\* A check fails before anything is asked, or the process dies.
Die(p) ==
    /\ proxies[p] # None
    /\ End(p)
    /\ UNCHANGED <<now, claimable, rows, asked, reviews, candidates, signed>>

-----------------------------------------------------------------------------
(* The managed mode.                                                        *)

managedFrame == <<now, claimable, asked, reviews, candidates, proxies, signed>>

ReserveManaged(a) ==
    /\ InTime /\ rows[a] = None
    /\ BudgetLeft(a)
    /\ rows' = [rows EXCEPT ![a] =
          [mode |-> "CDP_MANAGED", expires |-> Expiry, op |-> "managed", attempts |-> 1,
           final |-> None, epoch |-> 0, managed |-> "RESERVED", hash |-> None]]
    /\ UNCHANGED managedFrame

\* A mutant that lets a late report replace what the chain has shown.
UnreportedLate(row) == row # None /\ row.managed \in {"RESERVED", "SUBMITTED", "FINALIZED"}

Unreported(row) == row # None /\ row.managed = "RESERVED"

\* reportManaged, "SUBMITTED": of a repeated or late report nothing is kept.
ReportSubmitted(a, hash) ==
    LET row == rows[a]
    IN  /\ Unreported(row) /\ row.hash \in {None, hash}
        /\ rows' = [rows EXCEPT ![a].managed = "SUBMITTED", ![a].hash = hash]
        /\ UNCHANGED managedFrame

\* reportManaged, "UNKNOWN"
ReportUnknown(a) ==
    /\ Unreported(rows[a])
    /\ rows' = [rows EXCEPT ![a].managed = "UNKNOWN"]
    /\ UNCHANGED managedFrame

\* ParticipantRecovery.get has found the receipt of the reward.
Finalize(a) ==
    /\ a \notin claimable
    /\ rows[a] # None /\ rows[a].mode = "CDP_MANAGED" /\ rows[a].managed # "FINALIZED"
    /\ rows' = [rows EXCEPT ![a].managed = "FINALIZED"]
    /\ UNCHANGED managedFrame

-----------------------------------------------------------------------------
\* The claim is paid, however: by the sponsored operation or without it.
Pay(a) ==
    /\ a \in claimable
    /\ claimable' = claimable \ {a}
    /\ UNCHANGED <<now, rows, asked, reviews, candidates, proxies, signed>>

Tick ==
    /\ now < MaxTime
    /\ now' = now + 1
    /\ UNCHANGED <<claimable, rows, asked, reviews, candidates, proxies, signed>>

Serve(p) ==
    \/ \E a \in Allocations, request \in Requests : FindPermit(p, a, request)
    \/ Decide(p)
    \/ \E until \in Times, isFinal \in BOOLEAN : Answer(p, until, isFinal)
    \/ LoseAnswer(p) \/ Recheck(p) \/ SaveAnswer(p) \/ HandleError(p) \/ Die(p)

Next ==
    \/ \E a \in Allocations :
          \/ FirstPermit(a) \/ RefreshPermit(a) \/ RecoverPermit(a) \/ FindCandidate(a)
          \/ ReserveManaged(a) \/ ReportUnknown(a) \/ Finalize(a) \/ Pay(a)
          \/ \E hash \in Hashes : ReportSubmitted(a, hash)
    \/ \E c \in candidates : CommitReview(c)
    \/ \E p \in Proxies : Serve(p)
    \/ Tick

Spec == Init /\ [][Next]_vars

-----------------------------------------------------------------------------
\* Whatever may cost gas is reserved first and stays reserved: every operation that the
\* provider was asked for, or that a client may submit, counts against the budget and
\* its account's quota.
WithinBudget ==
    /\ \A x \in asked : x.a \in Reserved /\ rows[x.a].op = x.request.op
    /\ Cardinality(Reserved) <= Budget
    /\ \A a \in Allocations :
          Cardinality({b \in Reserved : AccountOf[b] = AccountOf[a]}) <= PerAccount

\* sponsorship.ts, "Unknown outcomes never auto-retry": the provider is asked again only
\* for the same operation, while nothing that was asked before in this epoch is in doubt,
\* after every signature of an earlier epoch has run out, answered or lost, and never
\* once a final signature was asked for or given.
AskedSafely ==
    [][\A x \in asked' \ asked : x.state = "IN_FLIGHT" =>
          /\ \A y \in asked : y.a = x.a =>
                /\ y.request.op = x.request.op /\ ~y.request.final
                /\ y.state = "READY"
          /\ \A s \in signed : s.a = x.a => ~s.final /\ (s.epoch < x.epoch => s.until < now)]_vars

\* "Recheck after the provider call; rotation/payment or a stale scanner must not escape
\* as success": no answer is saved for a claim that was paid when the provider signed.
AnsweredWhileClaimable ==
    \A x \in asked : x.state = "READY" =>
        \E s \in signed : s.a = x.a /\ s.epoch = x.epoch /\ s.until = x.until /\ s.claimable

\* What is known of a managed attempt is kept: an operation hash is never replaced, an
\* attempt of unknown outcome is not taken for a submitted one, whatever reports come
\* twice or late, and what the chain has shown stays.
ManagedKept ==
    [][\A a \in Allocations : rows[a] # None =>
          /\ rows'[a].mode = rows[a].mode
          /\ rows[a].hash # None => rows'[a].hash = rows[a].hash
          /\ rows[a].managed \in {"UNKNOWN", "FINALIZED"} =>
                rows'[a].managed \in {rows[a].managed, "FINALIZED"}]_vars

GasSafe == TypeOK /\ WithinBudget /\ AnsweredWhileClaimable
===============================================================================
