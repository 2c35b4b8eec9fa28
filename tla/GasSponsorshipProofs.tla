------------------------ MODULE GasSponsorshipProofs ------------------------
(***************************************************************************)
(* Theorems about GasSponsorship for every value of its constants.           *)
(***************************************************************************)
EXTENDS GasSponsorship, FiniteSetTheorems, WellFoundedInduction, TLAPS

Live == {p \in Proxies : proxies[p] # None}

\* The request that a proxy has asked the provider, and waits for.
Asking(q) == q.at # "found"
About(q, x) == q.a = x.a /\ q.epoch = x.epoch /\ q.request = x.request

\* What was asked is of the operation of its row; a final signature, asked for or given,
\* is noted there; and an earlier epoch has seen answered stubs alone, which have run out.
AskedFits ==
    \A x \in asked :
        LET row == rows[x.a]
        IN  /\ row # None /\ row.op = x.request.op /\ x.epoch <= row.epoch
            /\ x.request.final \/ x.isFinal => row.final # None
            /\ x.state # "READY" => ~x.isFinal
            /\ x.epoch < row.epoch => AnsweredStub(x) /\ x.until < now

\* One request of an epoch is without an answer, and none was made twice.
AskedOnce ==
    \A x, y \in asked :
        /\ x.a = y.a /\ x.epoch = y.epoch
        /\ x.request = y.request \/ (x.state # "READY" /\ y.state # "READY")
        => x = y

\* A signature for an answer; one given while the claim was to be paid, if the answer was
\* checked after or the claim is still to be paid.
Backed(q, signatures, open) ==
    q.at \in {"answered", "checked"} =>
        \E s \in signatures :
           /\ s.a = q.a /\ s.epoch = q.epoch /\ s.until = q.until
           /\ q.at = "checked" \/ q.a \in open => s.claimable

\* A proxy with the current token is of the current epoch, one that asks has its request
\* written down, and one with an answer a signature.
ProxyFits(q) ==
    /\ rows[q.a] # None /\ q.epoch <= rows[q.a].epoch
    /\ q.fresh => q.epoch = rows[q.a].epoch
    /\ Asking(q) => \E x \in asked : About(q, x) /\ x.state = "IN_FLIGHT"
    /\ Backed(q, signed, claimable)

ProxiesFit ==
    /\ \A p \in Live : ProxyFits(proxies[p])
    /\ \A p, o \in Live :
          /\ Asking(proxies[p]) /\ Asking(proxies[o])
          /\ About(proxies[p], proxies[o])
          => p = o

\* The request that a signature was given for, once it is answered, says what was signed.
SpeaksFor(x, s) ==
    /\ x.a = s.a /\ x.epoch = s.epoch
    /\ x.state = "READY" => x.until = s.until /\ (s.final => x.request.final \/ x.isFinal)
    /\ \A p \in Live : Asking(proxies[p]) /\ About(proxies[p], x) =>
          /\ proxies[p].at # "asking"
          /\ proxies[p].at \in {"answered", "checked"} =>
                proxies[p].until = s.until /\ (s.final => x.request.final \/ proxies[p].isFinal)

SignedFits == \A s \in signed : \E x \in asked : SpeaksFor(x, s)

\* Whatever a reviewer has found stays so until the permit is renewed.
Found == candidates \cup {v.found : v \in reviews}

FoundFits ==
    \A c \in Found :
        LET row == rows[c.a]
        IN  /\ row # None /\ row.op # None
            /\ c.epoch < MaxEpoch /\ c.epoch <= row.epoch
            /\ c.epoch = row.epoch => row.expires = c.expires
            /\ c.expires < now /\ c.until < now
            /\ \A x \in AskedIn(c.a, c.epoch) : AnsweredStub(x) /\ x.until <= c.until

BudgetKept ==
    /\ IsFiniteSet(Reserved) /\ Cardinality(Reserved) <= Budget
    /\ \A a \in Allocations :
          Cardinality({b \in Reserved : AccountOf[b] = AccountOf[a]}) <= PerAccount

SignedType ==
    signed \subseteq [a : Allocations, epoch : Epochs, until : Times, final : BOOLEAN, claimable : BOOLEAN]

\* The inductive invariant.
GasInv ==
    /\ TypeOK /\ SignedType /\ BudgetKept
    /\ AskedFits /\ AskedOnce /\ ProxiesFit /\ SignedFits /\ FoundFits
    /\ AnsweredWhileClaimable

-----------------------------------------------------------------------------
(* Facts about the values.                                                  *)

\* The latest of times is one of them.
LEMMA MaxOf ==
  ASSUME NEW T \in SUBSET Times, T # {}
  PROVE  Max(T) \in T /\ \A t \in T : t <= Max(T)
<1> DEFINE D == {Deadline - t : t \in T}
<1>0. Deadline \in Nat /\ \A t \in T : t \in Nat /\ t <= Deadline
  BY GasAssumption DEF Times
<1>1. D \subseteq Nat /\ D # {}
  BY <1>0
<1>2. PICK m \in D : \A d \in D : <<d, m>> \notin OpToRel(<, Nat)
  BY <1>1, WFMin, NatLessThanWellFounded, Zenon
<1>3. \A d \in D : ~(d < m)
  BY <1>1, <1>2, Zenon DEF OpToRel
<1>4. PICK t \in T : m = Deadline - t
  OBVIOUS
<1>5. \A u \in T : t >= u
  BY <1>0, <1>3, <1>4
<1>6. Max(T) \in T /\ \A u \in T : Max(T) >= u
  BY <1>5 DEF Max
<1> QED
  BY <1>0, <1>6

LEMMA RowType ==
  ASSUME TypeOK, NEW a \in Allocations, rows[a] # None
  PROVE  rows[a] \in Row
BY DEF TypeOK

LEMMA ProxyType ==
  ASSUME TypeOK, NEW p \in Proxies, proxies[p] # None
  PROVE  proxies[p] \in Proxy
BY DEF TypeOK

LEMMA ExpiryType ==
  ASSUME TypeOK
  PROVE  Expiry \in Times
BY GasAssumption DEF TypeOK, Expiry, Earlier, Times

\* A token that is replaced changes nothing else of a request.
LEMMA ReplacedToken ==
  ASSUME TypeOK, NEW a \in Allocations, ReplaceToken(a)
  PROVE  /\ proxies' \in [Proxies -> Proxy \cup {None}]
         /\ \A p \in Proxies :
               \/ proxies'[p] = proxies[p] /\ (proxies[p] = None \/ proxies[p].a # a)
               \/ proxies[p] # None /\ proxies[p].a = a
                  /\ proxies'[p] = [proxies[p] EXCEPT !.fresh = FALSE]
<1>1. ASSUME NEW p \in Proxies
      PROVE  /\ proxies'[p] \in Proxy \cup {None}
             /\ \/ proxies'[p] = proxies[p] /\ (proxies[p] = None \/ proxies[p].a # a)
                \/ proxies[p] # None /\ proxies[p].a = a
                   /\ proxies'[p] = [proxies[p] EXCEPT !.fresh = FALSE]
  <2>1. proxies'[p] = IF proxies[p] # None /\ proxies[p].a = a
                      THEN [proxies[p] EXCEPT !.fresh = FALSE] ELSE proxies[p]
    BY DEF ReplaceToken
  <2>2. proxies[p] # None => [proxies[p] EXCEPT !.fresh = FALSE] \in Proxy
    BY ProxyType DEF Proxy
  <2> QED
    BY <2>1, <2>2, ProxyType
<1> QED
  BY <1>1 DEF ReplaceToken

-----------------------------------------------------------------------------
(* Steps that ask and sign nothing, and keep what rows and requests say.      *)

\* A row keeps its epoch and final signature, and once it has an operation that and its
\* expiry too.
RowsKept ==
    \A a \in Allocations : rows[a] # None =>
        LET row == rows[a]
            next == rows'[a]
        IN  /\ next # None /\ next.epoch = row.epoch /\ next.final = row.final
            /\ row.op # None => next.op = row.op /\ next.expires = row.expires

\* A request goes on as it is, ends, or loses its token.
RequestsFade ==
    \A p \in Proxies :
        \/ proxies'[p] \in {None, proxies[p]}
        \/ proxies[p] # None /\ proxies'[p] = [proxies[p] EXCEPT !.fresh = FALSE]

Quiet ==
    /\ RowsKept /\ RequestsFade
    /\ asked' = asked /\ signed' = signed /\ Found' \subseteq Found
    /\ now <= now' /\ claimable' \subseteq claimable

LEMMA Faded ==
  ASSUME GasInv, RequestsFade, NEW p \in Live'
  PROVE  /\ p \in Live /\ proxies[p] \in Proxy
         /\ proxies'[p].a = proxies[p].a /\ proxies'[p].epoch = proxies[p].epoch
         /\ proxies'[p].request = proxies[p].request /\ proxies'[p].at = proxies[p].at
         /\ proxies'[p].until = proxies[p].until /\ proxies'[p].isFinal = proxies[p].isFinal
         /\ proxies'[p].fresh => proxies[p].fresh
<1>1. p \in Live /\ proxies'[p] # None
  BY DEF Live, RequestsFade
<1>2. proxies[p] \in Proxy
  BY <1>1 DEF GasInv, TypeOK, Live
<1>3. proxies'[p] = proxies[p] \/ proxies'[p] = [proxies[p] EXCEPT !.fresh = FALSE]
  BY <1>1 DEF RequestsFade, Live
<1> QED
  BY <1>1, <1>2, <1>3 DEF Proxy

LEMMA SignedStays ==
  ASSUME GasInv, RequestsFade, asked' = asked, signed' = signed
  PROVE  SignedFits'
<1> USE DEF GasInv
<1>1. ASSUME NEW s \in signed
      PROVE  \E x \in asked : SpeaksFor(x, s)'
  <2>1. PICK x \in asked : SpeaksFor(x, s)
    BY DEF SignedFits
  <2>2. ASSUME NEW p \in Live', Asking(proxies'[p]), About(proxies'[p], x)
        PROVE  /\ proxies'[p].at # "asking"
               /\ proxies'[p].at \in {"answered", "checked"} =>
                     /\ proxies'[p].until = s.until
                     /\ s.final => x.request.final \/ proxies'[p].isFinal
    <3>1. p \in Live /\ Asking(proxies[p]) /\ About(proxies[p], x)
      BY <2>2, Faded DEF Asking, About
    <3> QED
      BY <2>1, <3>1, Faded DEF SpeaksFor
  <2>3. SpeaksFor(x, s)'
    BY <2>1, <2>2 DEF SpeaksFor, About, Asking
  <2> QED
    BY <2>3
<1> QED
  BY <1>1 DEF SignedFits

LEMMA QuietStep ==
  ASSUME GasInv, TypeOK', BudgetKept', Quiet
  PROVE  GasInv'
<1> USE DEF GasInv
<1>1. AskedFits'
  <2>1. ASSUME NEW x \in asked
        PROVE  LET row == rows'[x.a]
               IN  /\ row # None /\ row.op = x.request.op /\ x.epoch <= row.epoch
                   /\ x.request.final \/ x.isFinal => row.final # None
                   /\ x.state # "READY" => ~x.isFinal
                   /\ x.epoch < row.epoch => AnsweredStub(x) /\ x.until < now'
    <3>1. x \in Asked /\ x.request.op # None
      BY NoneAssumption DEF TypeOK, Asked, Operations
    <3>2. rows'[x.a] # None /\ rows'[x.a].epoch = rows[x.a].epoch
          /\ rows'[x.a].final = rows[x.a].final /\ rows'[x.a].op = rows[x.a].op
      BY <3>1 DEF Asked, AskedFits, Quiet, RowsKept
    <3>3. x.until < now => x.until < now'
      BY <3>1, GasAssumption DEF TypeOK, Quiet, Asked, Times
    <3> QED
      BY <3>2, <3>3 DEF AskedFits
  <2> QED
    BY <2>1 DEF AskedFits, Quiet, AnsweredStub
<1>2. AskedOnce'
  BY DEF AskedOnce, Quiet
<1>3. ProxiesFit'
  <2>1. ASSUME NEW p \in Live'
        PROVE  ProxyFits(proxies[p])'
    <3>1. ProxyFits(proxies[p]) /\ proxies[p] \in Proxy
      BY Faded DEF ProxiesFit, Quiet
    <3> DEFINE q == proxies[p]
               n == proxies'[p]
    <3>2. rows'[n.a] # None /\ n.epoch <= rows'[n.a].epoch /\ (n.fresh => n.epoch = rows'[n.a].epoch)
      BY <3>1, Faded DEF Quiet, RowsKept, ProxyFits, Proxy
    <3>3. n.at # "found" => \E x \in asked : About(n, x) /\ x.state = "IN_FLIGHT"
      BY <3>1, Faded DEF Quiet, ProxyFits, About, Asking
    <3>4. n.at \in {"answered", "checked"} =>
            \E s \in signed :
               /\ s.a = n.a /\ s.epoch = n.epoch /\ s.until = n.until
               /\ n.at = "checked" \/ n.a \in claimable' => s.claimable
      BY <3>1, Faded DEF Quiet, ProxyFits, Backed
    <3> QED
      BY <3>2, <3>3, <3>4 DEF ProxyFits, Backed, Quiet, About, Asking
  <2>2. ASSUME NEW p \in Live', NEW o \in Live',
               Asking(proxies'[p]), Asking(proxies'[o]), About(proxies'[p], proxies'[o])
        PROVE  p = o
    <3>1. Asking(proxies[p]) /\ Asking(proxies[o]) /\ About(proxies[p], proxies[o])
          /\ p \in Live /\ o \in Live
      BY <2>2, Faded DEF Quiet, Asking, About
    <3> QED
      BY <3>1 DEF ProxiesFit
  <2> QED
    BY <2>1, <2>2 DEF ProxiesFit, Asking, About
<1>4. SignedFits'
  BY SignedStays DEF Quiet
<1>5. FoundFits'
  <2>1. ASSUME NEW c \in Found
        PROVE  LET row == rows'[c.a]
               IN  /\ row # None /\ row.op # None
                   /\ c.epoch < MaxEpoch /\ c.epoch <= row.epoch
                   /\ c.epoch = row.epoch => row.expires = c.expires
                   /\ c.expires < now' /\ c.until < now'
                   /\ \A x \in AskedIn(c.a, c.epoch) : AnsweredStub(x) /\ x.until <= c.until
    <3>1. c \in Candidate
      BY DEF Found, TypeOK
    <3>2. c.expires < now' /\ c.until < now'
      BY <3>1, GasAssumption DEF FoundFits, TypeOK, Quiet, Candidate, Times
    <3> QED
      BY <3>1, <3>2 DEF FoundFits, Candidate, Quiet, RowsKept
  <2> QED
    BY <2>1 DEF FoundFits, Quiet, AskedIn, AnsweredStub
<1>6. AnsweredWhileClaimable' /\ SignedType'
  BY DEF AnsweredWhileClaimable, SignedType, Quiet
<1> QED
  BY <1>1, <1>2, <1>3, <1>4, <1>5, <1>6

\* What is reserved changes only with the operation of a row.
LEMMA BudgetStays ==
  ASSUME TypeOK, BudgetKept, NEW a \in Allocations, NEW row,
         rows' = [rows EXCEPT ![a] = row],
         (row # None /\ row.op # None) <=> a \in Reserved
  PROVE  BudgetKept'
<1>1. Reserved' = Reserved
  BY DEF Reserved, TypeOK
<1> QED
  BY <1>1 DEF BudgetKept

\* A row that changes under a quiet step.
LEMMA RowStays ==
  ASSUME GasInv, NEW a \in Allocations, NEW row \in Row,
         rows' = [rows EXCEPT ![a] = row],
         rows[a] # None =>
            /\ row.epoch = rows[a].epoch /\ row.final = rows[a].final /\ row.op = rows[a].op
            /\ row.op # None => row.expires = rows[a].expires,
         rows[a] = None => row.op = None,
         RequestsFade, proxies' \in [Proxies -> Proxy \cup {None}],
         UNCHANGED <<now, claimable, asked, reviews, candidates, signed>>
  PROVE  GasInv'
<1>1. rows'[a] = row /\ \A b \in Allocations \ {a} : rows'[b] = rows[b]
  BY DEF GasInv, TypeOK
<1>2. TypeOK'
  BY DEF GasInv, TypeOK
<1>3. BudgetKept'
  BY NoneAssumption, BudgetStays DEF GasInv, Reserved
<1>4. RowsKept
  BY <1>1, NoneAssumption DEF RowsKept
<1>5. Quiet
  BY <1>4, GasAssumption DEF Quiet, Found, GasInv, TypeOK
<1> QED
  BY <1>2, <1>3, <1>5, QuietStep

LEMMA FirstPermitStep ==
  ASSUME GasInv, NEW a \in Allocations, FirstPermit(a)
  PROVE  GasInv'
<1> DEFINE row == [mode |-> "PROXY", expires |-> Expiry, op |-> None, attempts |-> 0, final |-> None,
                   epoch |-> 0, managed |-> None, hash |-> None]
<1>1. row \in Row
  BY ExpiryType, GasAssumption DEF GasInv, Row, Epochs
<1>2. rows' = [rows EXCEPT ![a] = row] /\ rows[a] = None /\ row.op = None
  BY DEF FirstPermit
<1>3. RequestsFade /\ proxies' \in [Proxies -> Proxy \cup {None}]
      /\ UNCHANGED <<now, claimable, asked, reviews, candidates, signed>>
  BY DEF FirstPermit, RequestsFade, GasInv, TypeOK
<1> HIDE DEF row
<1> QED
  BY <1>1, <1>2, <1>3, RowStays

LEMMA RefreshPermitStep ==
  ASSUME GasInv, NEW a \in Allocations, RefreshPermit(a)
  PROVE  GasInv'
<1>1. rows[a] # None /\ rows[a] \in Row /\ TypeOK
  BY RowType DEF GasInv, RefreshPermit
<1>2. RequestsFade /\ proxies' \in [Proxies -> Proxy \cup {None}]
  BY <1>1, ReplacedToken DEF RefreshPermit, RequestsFade
<1> DEFINE row == IF Renewable(a) THEN [rows[a] EXCEPT !.expires = Expiry] ELSE rows[a]
<1>3. row \in Row /\ row.epoch = rows[a].epoch /\ row.final = rows[a].final /\ row.op = rows[a].op
      /\ (row.op # None => row.expires = rows[a].expires)
  BY <1>1, ExpiryType DEF Row, Renewable
<1>4. rows' = [rows EXCEPT ![a] = row]
  BY <1>1 DEF RefreshPermit, TypeOK
<1>5. UNCHANGED <<now, claimable, asked, reviews, candidates, signed>>
  BY DEF RefreshPermit
<1> HIDE DEF row
<1> QED
  BY <1>1, <1>2, <1>3, <1>4, <1>5, RowStays

\* A managed row is written to by reports and receipts.
LEMMA ManagedStays ==
  ASSUME GasInv, NEW a \in Allocations, rows[a] # None, NEW row \in Row,
         row.epoch = rows[a].epoch, row.final = rows[a].final, row.op = rows[a].op,
         row.expires = rows[a].expires,
         rows' = [rows EXCEPT ![a] = row], UNCHANGED managedFrame
  PROVE  GasInv'
<1>1. RequestsFade /\ proxies' \in [Proxies -> Proxy \cup {None}]
      /\ UNCHANGED <<now, claimable, asked, reviews, candidates, signed>>
  BY DEF managedFrame, RequestsFade, GasInv, TypeOK
<1> QED
  BY <1>1, RowStays

LEMMA ReportsStep ==
  ASSUME GasInv, NEW a \in Allocations,
         (\E hash \in Hashes : ReportSubmitted(a, hash)) \/ ReportUnknown(a) \/ Finalize(a)
  PROVE  GasInv'
<1>1. rows[a] # None /\ rows[a] \in Row
  BY RowType DEF GasInv, ReportSubmitted, ReportUnknown, Finalize, Unreported
<1>2. ASSUME NEW hash \in Hashes, ReportSubmitted(a, hash)
      PROVE  GasInv'
  <2> DEFINE row == [rows[a] EXCEPT !.managed = "SUBMITTED", !.hash = hash]
  <2>1. row \in Row /\ row.epoch = rows[a].epoch /\ row.final = rows[a].final
        /\ row.op = rows[a].op /\ row.expires = rows[a].expires
    BY <1>1 DEF Row
  <2>2. rows' = [rows EXCEPT ![a] = row] /\ UNCHANGED managedFrame
    BY <1>2 DEF ReportSubmitted, GasInv, TypeOK
  <2> HIDE DEF row
  <2> QED
    BY <1>1, <2>1, <2>2, ManagedStays
<1>3. ASSUME NEW m \in {"UNKNOWN", "FINALIZED"}, rows' = [rows EXCEPT ![a].managed = m],
             UNCHANGED managedFrame
      PROVE  GasInv'
  <2> DEFINE row == [rows[a] EXCEPT !.managed = m]
  <2>1. row \in Row /\ row.epoch = rows[a].epoch /\ row.final = rows[a].final
        /\ row.op = rows[a].op /\ row.expires = rows[a].expires
    BY <1>1 DEF Row
  <2>2. rows' = [rows EXCEPT ![a] = row]
    BY <1>3 DEF GasInv, TypeOK
  <2> HIDE DEF row
  <2> QED
    BY <1>1, <1>3, <2>1, <2>2, ManagedStays
<1> QED
  BY <1>2, <1>3 DEF ReportUnknown, Finalize

\* A step of the claim, the clock, a reviewer, or a request that ends.
LEMMA ElsewhereStep ==
  ASSUME GasInv,
         \/ \E a \in Allocations : Pay(a)
         \/ \E c \in candidates : CommitReview(c)
         \/ \E p \in Proxies : Die(p)
         \/ Tick
  PROVE  GasInv'
<1>1. rows' = rows /\ asked' = asked /\ signed' = signed /\ BudgetKept'
  BY DEF Pay, CommitReview, Die, Tick, GasInv, BudgetKept, Reserved
<1>2. RowsKept
  BY <1>1 DEF RowsKept
<1>3. TypeOK' /\ RequestsFade /\ Found' \subseteq Found /\ now <= now' /\ claimable' \subseteq claimable
  <2>1. TypeOK /\ now \in Nat
    BY GasAssumption DEF GasInv, TypeOK
  <2>2. ASSUME NEW a \in Allocations, Pay(a)
        PROVE  TypeOK' /\ RequestsFade /\ Found' \subseteq Found /\ now <= now'
               /\ claimable' \subseteq claimable
    BY <2>1, <2>2 DEF Pay, TypeOK, RequestsFade, Found
  <2>3. ASSUME NEW c \in candidates, CommitReview(c)
        PROVE  TypeOK' /\ RequestsFade /\ Found' \subseteq Found /\ now <= now'
               /\ claimable' \subseteq claimable
    <3>1. c \in Candidate /\ reviews' = reviews \cup {[found |-> c, consumed |-> FALSE]}
          /\ UNCHANGED <<now, claimable, rows, asked, candidates, proxies, signed>>
      BY <2>1, <2>3 DEF CommitReview, TypeOK
    <3>2. [found |-> c, consumed |-> FALSE] \in [found : Candidate, consumed : BOOLEAN]
      BY <3>1
    <3>3. TypeOK'
      BY <2>1, <3>1, <3>2 DEF TypeOK
    <3>4. Found' \subseteq Found
      BY <3>1 DEF Found
    <3> QED
      BY <2>1, <3>1, <3>3, <3>4 DEF RequestsFade
  <2>4. ASSUME NEW p \in Proxies, Die(p)
        PROVE  TypeOK' /\ RequestsFade /\ Found' \subseteq Found /\ now <= now'
               /\ claimable' \subseteq claimable
    BY <2>1, <2>4 DEF Die, End, TypeOK, RequestsFade, Found
  <2>5. ASSUME Tick
        PROVE  TypeOK' /\ RequestsFade /\ Found' \subseteq Found /\ now <= now'
               /\ claimable' \subseteq claimable
    BY <2>1, <2>5, GasAssumption DEF Tick, TypeOK, RequestsFade, Found
  <2> QED
    BY <2>2, <2>3, <2>4, <2>5
<1> QED
  BY <1>1, <1>2, <1>3, QuietStep DEF Quiet

\* One more operation fits the budget and the quota of its account.
LEMMA BudgetGrows ==
  ASSUME TypeOK, BudgetKept, NEW a \in Allocations, NEW row, BudgetLeft(a),
         rows' = [rows EXCEPT ![a] = row], row # None, row.op # None
  PROVE  BudgetKept'
<1>1. Reserved' = Reserved \cup {a}
  BY DEF Reserved, TypeOK
<1>2. IsFiniteSet(Reserved) /\ Cardinality(Reserved) \in Nat
  BY FS_CardinalityType DEF BudgetKept
<1>3. IsFiniteSet(Reserved') /\ Cardinality(Reserved') <= Budget
  <2>1. IsFiniteSet(Reserved \cup {a})
        /\ Cardinality(Reserved \cup {a}) = IF a \in Reserved THEN Cardinality(Reserved)
                                            ELSE Cardinality(Reserved) + 1
    BY <1>2, FS_AddElement
  <2> QED
    BY <1>1, <1>2, <2>1, GasAssumption DEF BudgetLeft
<1>4. ASSUME NEW b \in Allocations
      PROVE  Cardinality({c \in Reserved' : AccountOf[c] = AccountOf[b]}) <= PerAccount
  <2> DEFINE S == {c \in Reserved : AccountOf[c] = AccountOf[b]}
  <2>1. Cardinality(S) <= PerAccount /\ IsFiniteSet(S) /\ Cardinality(S) \in Nat
    <3>1. S \in SUBSET Reserved
      OBVIOUS
    <3>2. IsFiniteSet(S)
      BY <1>2, <3>1, FS_Subset
    <3> QED
      BY <3>2, FS_CardinalityType DEF BudgetKept
  <2>2. CASE AccountOf[a] = AccountOf[b]
    <3>1. {c \in Reserved' : AccountOf[c] = AccountOf[b]} = S \cup {a}
      BY <1>1, <2>2
    <3>2. S = {c \in Reserved : AccountOf[c] = AccountOf[a]}
      BY <2>2
    <3>3. Cardinality(S) < PerAccount
      BY <3>2 DEF BudgetLeft
    <3>4. Cardinality(S \cup {a}) = IF a \in S THEN Cardinality(S) ELSE Cardinality(S) + 1
      BY <2>1, FS_AddElement
    <3> HIDE DEF S
    <3>5. Cardinality(S \cup {a}) <= PerAccount
      BY <2>1, <3>3, <3>4, GasAssumption
    <3> QED
      BY <3>1, <3>5
  <2>3. CASE AccountOf[a] # AccountOf[b]
    <3>1. {c \in Reserved' : AccountOf[c] = AccountOf[b]} = S
      BY <1>1, <2>3
    <3> QED
      BY <2>1, <3>1
  <2> QED
    BY <2>2, <2>3
<1> QED
  BY <1>3, <1>4 DEF BudgetKept

LEMMA ReserveManagedStep ==
  ASSUME GasInv, NEW a \in Allocations, ReserveManaged(a)
  PROVE  GasInv'
<1> DEFINE row == [mode |-> "CDP_MANAGED", expires |-> Expiry, op |-> "managed", attempts |-> 1,
                   final |-> None, epoch |-> 0, managed |-> "RESERVED", hash |-> None]
<1>1. row \in Row
  BY ExpiryType, GasAssumption DEF GasInv, Row, Epochs
<1>2. rows' = [rows EXCEPT ![a] = row] /\ rows[a] = None /\ BudgetLeft(a) /\ UNCHANGED managedFrame
  BY DEF ReserveManaged
<1>3. row.op # None
  BY NoneAssumption
<1>4. row # None
  BY <1>1, NoneAssumption
<1> HIDE DEF row
<1>5. BudgetKept'
  BY <1>2, <1>3, <1>4, BudgetGrows DEF GasInv
<1>6. TypeOK'
  BY <1>1, <1>2 DEF GasInv, TypeOK, managedFrame
<1>7. RowsKept
  BY <1>2 DEF RowsKept, GasInv, TypeOK
<1>8. Quiet
  BY <1>2, <1>7, GasAssumption DEF Quiet, RequestsFade, Found, managedFrame, GasInv, TypeOK
<1> QED
  BY <1>5, <1>6, <1>8, QuietStep

-----------------------------------------------------------------------------
(* A review, and the permit that follows it.                                *)

\* What is found is that everything asked in the epoch is an answered stub that has run out.
LEMMA FindCandidateStep ==
  ASSUME GasInv, NEW a \in Allocations, FindCandidate(a)
  PROVE  GasInv'
<1> USE DEF GasInv
<1> DEFINE row == rows[a]
           of == AskedIn(a, row.epoch)
           T == {x.until : x \in of}
           until == Max(T)
           c == [a |-> a, epoch |-> row.epoch, op |-> row.op, expires |-> row.expires, until |-> until]
<1>1. /\ row # None /\ row.op # None /\ row.epoch < MaxEpoch /\ row.expires < now
      /\ row.mode = "PROXY" /\ of # {} /\ (\A x \in of : AnsweredStub(x))
      /\ until < now /\ candidates' = candidates \cup {c}
      /\ UNCHANGED <<now, claimable, rows, asked, reviews, proxies, signed>>
  BY DEF FindCandidate
<1>2. row \in Row
  BY <1>1, RowType
<1>3. T \in SUBSET Times /\ T # {}
  BY <1>1 DEF AskedIn, TypeOK, Asked
<1>4. until \in Times /\ \A x \in of : x.until <= until
  <2> HIDE DEF of
  <2>1. \A x \in of : x.until \in T
    OBVIOUS
  <2>2. until \in T /\ \A t \in T : t <= until
    BY <1>3, MaxOf
  <2> HIDE DEF T, until
  <2> QED
    BY <1>3, <2>1, <2>2
<1> HIDE DEF until
<1>5. row.op \in Operations
  <2>1. PICK x \in of : TRUE
    BY <1>1
  <2>2. x \in asked /\ x \in Asked /\ x.a = a
    BY <2>1 DEF AskedIn, TypeOK
  <2> QED
    BY <2>2 DEF AskedFits, Asked, Operations
<1>6. c \in Candidate
  BY <1>2, <1>4, <1>5 DEF Row, Candidate
<1>7. TypeOK'
  BY <1>1, <1>6 DEF TypeOK
<1>8. BudgetKept' /\ AskedFits' /\ AskedOnce' /\ SignedFits' /\ SignedType' /\ AnsweredWhileClaimable'
  <2>1. BudgetKept' /\ SignedType' /\ AnsweredWhileClaimable'
    BY <1>1 DEF BudgetKept, Reserved, SignedType, AnsweredWhileClaimable
  <2>2. AskedFits' /\ AskedOnce'
    BY <1>1 DEF AskedFits, AskedOnce, AnsweredStub
  <2>3. SignedFits'
    BY <1>1 DEF SignedFits, SpeaksFor, Live, Asking, About
  <2> QED
    BY <2>1, <2>2, <2>3
<1>9. ProxiesFit'
  BY <1>1 DEF ProxiesFit, ProxyFits, Backed, Live, Asking, About
<1>10. FoundFits'
  <2>1. Found' = Found \cup {c}
    BY <1>1 DEF Found
  <2>2. row.epoch <= row.epoch
    BY <1>2, GasAssumption DEF Row, Epochs
  <2>3. ASSUME NEW d \in Found'
        PROVE  /\ rows[d.a] # None /\ rows[d.a].op # None
               /\ d.epoch < MaxEpoch /\ d.epoch <= rows[d.a].epoch
               /\ d.epoch = rows[d.a].epoch => rows[d.a].expires = d.expires
               /\ d.expires < now /\ d.until < now
               /\ \A x \in AskedIn(d.a, d.epoch) : AnsweredStub(x) /\ x.until <= d.until
    <3>1. CASE d \in Found
      BY <3>1 DEF FoundFits
    <3>2. CASE d = c
      BY <1>1, <1>4, <2>2, <3>2
    <3> QED
      BY <2>1, <3>1, <3>2
  <2> QED
    BY <1>1, <2>3 DEF FoundFits, AskedIn, AnsweredStub
<1> QED
  BY <1>7, <1>8, <1>9, <1>10

LEMMA RecoverPermitStep ==
  ASSUME GasInv, NEW a \in Allocations, RecoverPermit(a)
  PROVE  GasInv'
<1> USE DEF GasInv
<1>1. PICK v \in Reviewed(a) : reviews' = (reviews \ {v}) \cup {[v EXCEPT !.consumed = TRUE]}
  BY DEF RecoverPermit
<1>2. /\ rows[a] # None /\ rows[a].op # None
      /\ rows' = [rows EXCEPT ![a].expires = Expiry, ![a].epoch = @ + 1]
      /\ ReplaceToken(a) /\ UNCHANGED <<now, claimable, asked, candidates, signed>>
  BY DEF RecoverPermit
<1>3. /\ v \in reviews /\ v \in [found : Candidate, consumed : BOOLEAN]
      /\ v.found \in Found /\ v.found.a = a /\ v.found.epoch = rows[a].epoch
  BY <1>1 DEF Reviewed, TypeOK, Found
<1>4. rows[a] \in Row /\ rows[a].epoch \in Nat /\ rows[a].epoch + 1 \in Epochs
  BY <1>2, <1>3, RowType, GasAssumption DEF Row, Epochs, FoundFits
<1> DEFINE row == [rows[a] EXCEPT !.expires = Expiry, !.epoch = @ + 1]
<1>5. /\ row \in Row /\ row.op = rows[a].op /\ row.final = rows[a].final
      /\ row.epoch = rows[a].epoch + 1
  BY <1>4, ExpiryType DEF Row
<1>6. rows' = [rows EXCEPT ![a] = row]
  BY <1>2, <1>4 DEF TypeOK
<1> HIDE DEF row
<1>7. rows'[a] = row /\ row # None /\ \A b \in Allocations \ {a} : rows'[b] = rows[b]
  BY <1>5, <1>6, NoneAssumption DEF TypeOK
<1>8. /\ proxies' \in [Proxies -> Proxy \cup {None}] /\ RequestsFade
      /\ \A p \in Proxies : proxies[p] # None /\ proxies[p].a = a =>
             proxies'[p] = [proxies[p] EXCEPT !.fresh = FALSE]
  BY <1>2, ReplacedToken DEF RequestsFade
<1>9. TypeOK'
  <2>1. [v EXCEPT !.consumed = TRUE] \in [found : Candidate, consumed : BOOLEAN]
    BY <1>3
  <2>2. reviews' \subseteq [found : Candidate, consumed : BOOLEAN]
    BY <1>1, <2>1 DEF TypeOK
  <2>3. rows' \in [Allocations -> Row \cup {None}]
    BY <1>5, <1>6 DEF TypeOK
  <2> QED
    BY <1>2, <1>8, <2>2, <2>3 DEF TypeOK
<1>10. BudgetKept'
  BY <1>2, <1>5, <1>6, <1>7, BudgetStays DEF Reserved
<1>11. AskedFits'
  <2>1. ASSUME NEW x \in asked
        PROVE  /\ rows'[x.a] # None /\ rows'[x.a].op = x.request.op /\ x.epoch <= rows'[x.a].epoch
               /\ x.request.final \/ x.isFinal => rows'[x.a].final # None
               /\ x.state # "READY" => ~x.isFinal
               /\ x.epoch < rows'[x.a].epoch => AnsweredStub(x) /\ x.until < now
    <3>1. x \in Asked /\ x.epoch \in Nat
      BY GasAssumption DEF TypeOK, Asked, Epochs
    <3>2. CASE x.a # a
      BY <1>7, <3>1, <3>2 DEF AskedFits, Asked
    <3>3. CASE x.a = a
      <4>1. rows[a].op = x.request.op /\ x.epoch <= rows[a].epoch
            /\ (x.request.final \/ x.isFinal => rows[a].final # None)
            /\ (x.state # "READY" => ~x.isFinal)
            /\ (x.epoch < rows[a].epoch => AnsweredStub(x) /\ x.until < now)
        BY <3>3 DEF AskedFits
      <4>2. x.epoch = rows[a].epoch => AnsweredStub(x) /\ x.until < now
        <5>1. v.found.until \in Nat /\ v.found.until < now /\ now \in Nat /\ x.until \in Nat
          BY <1>3, <3>1, GasAssumption DEF FoundFits, TypeOK, Candidate, Times, Asked
        <5>2. x.epoch = rows[a].epoch => x \in AskedIn(v.found.a, v.found.epoch)
          BY <1>3, <3>3 DEF AskedIn
        <5> QED
          BY <1>3, <5>1, <5>2 DEF FoundFits
      <4> QED
        BY <1>4, <1>5, <1>7, <3>1, <3>3, <4>1, <4>2
    <3> QED
      BY <3>2, <3>3
  <2> QED
    BY <1>2, <2>1 DEF AskedFits, AnsweredStub
<1>12. AskedOnce' /\ SignedType' /\ AnsweredWhileClaimable'
  BY <1>2 DEF AskedOnce, SignedType, AnsweredWhileClaimable
<1>13. ProxiesFit'
  <2>1. ASSUME NEW p \in Live'
        PROVE  ProxyFits(proxies[p])'
    <3> DEFINE q == proxies[p]
               n == proxies'[p]
    <3>1. ProxyFits(q) /\ q \in Proxy /\ q.epoch \in Nat /\ p \in Live
      BY <1>8, Faded, GasAssumption DEF ProxiesFit, Proxy, Epochs
    <3>2. n.a = q.a /\ n.epoch = q.epoch /\ n.request = q.request /\ n.at = q.at /\ n.until = q.until
          /\ (n.fresh => q.fresh)
      BY <1>8, Faded
    <3>3. q.a = a => ~n.fresh
      BY <1>8, <3>1 DEF Live, Proxy
    <3>4. rows'[n.a] # None /\ n.epoch <= rows'[n.a].epoch /\ (n.fresh => n.epoch = rows'[n.a].epoch)
      BY <1>4, <1>5, <1>7, <3>1, <3>2, <3>3 DEF ProxyFits, Proxy
    <3>5. n.at # "found" => \E x \in asked : About(n, x) /\ x.state = "IN_FLIGHT"
      BY <3>1, <3>2 DEF ProxyFits, About, Asking
    <3>6. n.at \in {"answered", "checked"} =>
            \E s \in signed :
               /\ s.a = n.a /\ s.epoch = n.epoch /\ s.until = n.until
               /\ n.at = "checked" \/ n.a \in claimable => s.claimable
      BY <3>1, <3>2 DEF ProxyFits, Backed
    <3> QED
      BY <1>2, <3>4, <3>5, <3>6 DEF ProxyFits, Backed, About, Asking
  <2>2. ASSUME NEW p \in Live', NEW o \in Live',
               Asking(proxies'[p]), Asking(proxies'[o]), About(proxies'[p], proxies'[o])
        PROVE  p = o
    <3>1. Asking(proxies[p]) /\ Asking(proxies[o]) /\ About(proxies[p], proxies[o])
          /\ p \in Live /\ o \in Live
      BY <1>8, <2>2, Faded DEF Asking, About
    <3> QED
      BY <3>1 DEF ProxiesFit
  <2> QED
    BY <2>1, <2>2 DEF ProxiesFit, Asking, About
<1>14. SignedFits'
  BY <1>2, <1>8, SignedStays
<1>15. FoundFits'
  <2>1. Found' = Found
    BY <1>1, <1>2, <1>3 DEF Found
  <2>2. ASSUME NEW d \in Found
        PROVE  /\ rows'[d.a] # None /\ rows'[d.a].op # None
               /\ d.epoch < MaxEpoch /\ d.epoch <= rows'[d.a].epoch
               /\ d.epoch = rows'[d.a].epoch => rows'[d.a].expires = d.expires
               /\ d.expires < now /\ d.until < now
               /\ \A x \in AskedIn(d.a, d.epoch) : AnsweredStub(x) /\ x.until <= d.until
    <3>1. d \in Candidate /\ d.epoch \in Nat
      BY GasAssumption DEF Found, TypeOK, Candidate, Epochs
    <3>2. CASE d.a = a
      <4>1. d.epoch <= rows[a].epoch
        BY <3>2 DEF FoundFits
      <4> QED
        BY <1>2, <1>4, <1>5, <1>7, <3>1, <3>2, <4>1 DEF FoundFits
    <3>3. CASE d.a # a
      BY <1>7, <3>1, <3>3 DEF FoundFits, Candidate
    <3> QED
      BY <3>2, <3>3
  <2> QED
    BY <1>2, <2>1, <2>2 DEF FoundFits, AskedIn, AnsweredStub
<1> QED
  BY <1>9, <1>10, <1>11, <1>12, <1>13, <1>14, <1>15

-----------------------------------------------------------------------------
(* The proxy.                                                               *)

\* A request that goes on by itself, and what the provider may sign for it meanwhile.
Moves(p, n) ==
    /\ proxies' = [proxies EXCEPT ![p] = n] /\ n \in Proxy /\ n.at # "asking"
    /\ rows[n.a] # None /\ n.epoch <= rows[n.a].epoch /\ (n.fresh => n.epoch = rows[n.a].epoch)
    /\ Backed(n, signed', claimable)
    /\ UNCHANGED <<now, claimable, rows, asked, reviews, candidates>>
    /\ Asking(n) => p \in Live /\ Asking(proxies[p]) /\ About(n, proxies[p])
    /\ n.at \in {"answered", "checked"} /\ proxies[p].at # "asking" =>
          n.until = proxies[p].until /\ n.isFinal = proxies[p].isFinal
          /\ proxies[p].at \in {"answered", "checked"}
    /\ signed \subseteq signed' /\ SignedType'
    /\ \A s \in signed' \ signed :
          /\ Asking(n) /\ proxies[p].at = "asking" /\ s.a = n.a /\ s.epoch = n.epoch
          /\ n.at \in {"answered", "checked"} =>
                s.until = n.until /\ (s.final => n.request.final \/ n.isFinal)

LEMMA MoveStep ==
  ASSUME GasInv, NEW p \in Proxies, NEW n, Moves(p, n)
  PROVE  GasInv'
<1> USE DEF GasInv
<1>1. /\ proxies'[p] = n /\ n \in Proxy /\ n # None
      /\ \A o \in Proxies \ {p} : proxies'[o] = proxies[o]
  BY NoneAssumption DEF Moves, TypeOK
<1>2. Live' = Live \cup {p}
  BY <1>1 DEF Live
<1>3. UNCHANGED <<now, claimable, rows, asked, reviews, candidates>> /\ signed \subseteq signed'
  BY DEF Moves
<1>4. TypeOK' /\ BudgetKept' /\ SignedType'
  BY <1>3 DEF Moves, TypeOK, BudgetKept, Reserved
<1>5. AskedFits' /\ AskedOnce' /\ AnsweredWhileClaimable'
  BY <1>3 DEF AskedFits, AskedOnce, AnsweredWhileClaimable, AnsweredStub
<1>6. FoundFits'
  BY <1>3 DEF FoundFits, Found, AskedIn, AnsweredStub
<1>7. ProxiesFit'
  <2>1. ASSUME NEW o \in Live \ {p}
        PROVE  ProxyFits(proxies[o])'
    <3>1. ProxyFits(proxies[o]) /\ proxies'[o] = proxies[o]
      BY <1>1 DEF ProxiesFit, Live
    <3> QED
      BY <1>3, <3>1 DEF ProxyFits, Backed, Asking, About
  <2>2. ProxyFits(proxies[p])'
    <3>1. Asking(n) => \E x \in asked : About(n, x) /\ x.state = "IN_FLIGHT"
      <4> SUFFICES ASSUME Asking(n)
                   PROVE  \E x \in asked : About(n, x) /\ x.state = "IN_FLIGHT"
        OBVIOUS
      <4>1. p \in Live /\ Asking(proxies[p]) /\ About(n, proxies[p])
        BY DEF Moves
      <4> QED
        BY <4>1 DEF ProxiesFit, ProxyFits, About
    <3> QED
      BY <1>1, <1>3, <3>1 DEF Moves, ProxyFits, Backed, Asking, About
  <2>3. ASSUME NEW o \in Live', NEW r \in Live',
               Asking(proxies'[o]), Asking(proxies'[r]), About(proxies'[o], proxies'[r])
        PROVE  o = r
    <3>1. ASSUME NEW i \in Live', Asking(proxies'[i])
          PROVE  i \in Live /\ Asking(proxies[i]) /\ About(proxies'[i], proxies[i])
      BY <1>1, <1>2, <3>1 DEF Moves, Live, About
    <3>2. o \in Live /\ r \in Live /\ About(proxies[o], proxies[r])
          /\ Asking(proxies[o]) /\ Asking(proxies[r])
      BY <2>3, <3>1 DEF About
    <3> QED
      BY <3>2 DEF ProxiesFit
  <2> QED
    BY <1>2, <2>1, <2>2, <2>3 DEF ProxiesFit, Asking, About
<1>8. SignedFits'
  <2>1. ASSUME NEW s \in signed
        PROVE  \E x \in asked : SpeaksFor(x, s)'
    <3>1. PICK x \in asked : SpeaksFor(x, s)
      BY DEF SignedFits
    <3>2. ASSUME NEW o \in Live', Asking(proxies'[o]), About(proxies'[o], x)
          PROVE  /\ proxies'[o].at # "asking"
                 /\ proxies'[o].at \in {"answered", "checked"} =>
                       proxies'[o].until = s.until /\ (s.final => x.request.final \/ proxies'[o].isFinal)
      <4>1. CASE o # p
        BY <1>1, <1>2, <3>1, <3>2, <4>1 DEF SpeaksFor, Live
      <4>2. CASE o = p
        <5>1. p \in Live /\ Asking(proxies[p]) /\ About(proxies[p], x)
          BY <1>1, <3>2, <4>2 DEF Moves, About
        <5>2. /\ proxies[p].at # "asking"
              /\ proxies[p].at \in {"answered", "checked"} =>
                    proxies[p].until = s.until /\ (s.final => x.request.final \/ proxies[p].isFinal)
          BY <3>1, <5>1 DEF SpeaksFor
        <5> QED
          BY <1>1, <4>2, <5>2 DEF Moves
      <4> QED
        BY <4>1, <4>2
    <3> QED
      BY <3>1, <3>2 DEF SpeaksFor, Asking, About
  <2>2. ASSUME NEW s \in signed' \ signed
        PROVE  \E x \in asked : SpeaksFor(x, s)'
    <3>1. /\ Asking(n) /\ proxies[p].at = "asking" /\ s.a = n.a /\ s.epoch = n.epoch
          /\ n.at \in {"answered", "checked"} =>
                s.until = n.until /\ (s.final => n.request.final \/ n.isFinal)
          /\ n.at # "asking"
      BY DEF Moves
    <3>2. p \in Live /\ Asking(proxies[p]) /\ About(n, proxies[p])
      BY <3>1 DEF Moves
    <3>3. PICK x \in asked : About(proxies[p], x) /\ x.state = "IN_FLIGHT"
      BY <3>2 DEF ProxiesFit, ProxyFits
    <3>4. ASSUME NEW o \in Live', Asking(proxies'[o]), About(proxies'[o], x)
          PROVE  o = p
      <4>1. o \in Live
        BY <1>2, <3>2
      <4>2. CASE o # p
        <5>1. proxies'[o] = proxies[o] /\ About(proxies[o], proxies[p]) /\ Asking(proxies[o])
          BY <1>1, <3>3, <3>4, <4>1, <4>2 DEF About, Live
        <5> QED
          BY <3>2, <4>1, <5>1 DEF ProxiesFit
      <4> QED
        BY <4>2
    <3>5. SpeaksFor(x, s)'
      BY <1>1, <3>1, <3>2, <3>3, <3>4 DEF SpeaksFor, Asking, About
    <3> QED
      BY <3>5
  <2> QED
    BY <1>3, <2>1, <2>2 DEF SignedFits
<1> QED
  BY <1>4, <1>5, <1>6, <1>7, <1>8

LEMMA FindPermitStep ==
  ASSUME GasInv, NEW p \in Proxies, NEW a \in Allocations, NEW request \in Requests,
         FindPermit(p, a, request)
  PROVE  GasInv'
<1> DEFINE n == [a |-> a, request |-> request, epoch |-> rows[a].epoch, expires |-> rows[a].expires,
                 fresh |-> TRUE, at |-> "found", until |-> 0, isFinal |-> FALSE]
<1>1. rows[a] # None /\ rows[a] \in Row /\ proxies' = [proxies EXCEPT ![p] = n]
      /\ UNCHANGED <<now, claimable, rows, asked, reviews, candidates, signed>>
  BY RowType DEF FindPermit, GasInv
<1>2. n \in Proxy /\ n.at = "found" /\ n.a = a /\ n.epoch = rows[a].epoch
      /\ rows[a].epoch <= rows[a].epoch
  BY <1>1, GasAssumption DEF Row, Proxy, Times, Epochs
<1> HIDE DEF n
<1>3. Moves(p, n)
  BY <1>1, <1>2 DEF Moves, Backed, Asking, GasInv, SignedType
<1> QED
  BY <1>3, MoveStep

LEMMA RecheckStep ==
  ASSUME GasInv, NEW p \in Proxies, Recheck(p)
  PROVE  GasInv'
<1> DEFINE q == proxies[p]
<1>1. p \in Live /\ q \in Proxy /\ q.at = "answered" /\ ProxyFits(q)
      /\ UNCHANGED <<now, claimable, rows, asked, reviews, candidates, signed>>
  BY ProxyType DEF Recheck, Live, GasInv, ProxiesFit
<1>2. ASSUME NEW place \in {"checked", "failed"}, proxies' = [proxies EXCEPT ![p].at = place],
             place = "checked" => q.a \in claimable
      PROVE  GasInv'
  <2> DEFINE n == [q EXCEPT !.at = place]
  <2>1. /\ n \in Proxy /\ n.at = place /\ n.a = q.a /\ n.epoch = q.epoch /\ n.request = q.request
        /\ n.until = q.until /\ n.isFinal = q.isFinal /\ n.fresh = q.fresh
    BY <1>1 DEF Proxy
  <2>2. proxies' = [proxies EXCEPT ![p] = n]
    BY <1>2 DEF GasInv, TypeOK
  <2> HIDE DEF n
  <2>3. Moves(p, n)
    BY <1>1, <1>2, <2>1, <2>2 DEF Moves, ProxyFits, Backed, Asking, About, GasInv, SignedType
  <2> QED
    BY <2>3, MoveStep
<1> QED
  BY <1>2 DEF Recheck, Goto, ClaimReady

\* What is signed is of the request that asked.
LEMMA Signed ==
  ASSUME GasInv, NEW p \in Live, NEW until \in Times, NEW isFinal \in BOOLEAN,
         Signs(p, until, isFinal)
  PROVE  /\ signed \subseteq signed' /\ SignedType'
         /\ \E s \in signed' :
               /\ s.a = proxies[p].a /\ s.epoch = proxies[p].epoch /\ s.until = until
               /\ proxies[p].a \in claimable => s.claimable
         /\ \A s \in signed' \ signed :
               /\ s.a = proxies[p].a /\ s.epoch = proxies[p].epoch /\ s.until = until
               /\ s.final => isFinal \/ proxies[p].request.final
<1> DEFINE q == proxies[p]
           s == [a |-> q.a, epoch |-> q.epoch, until |-> until, final |-> isFinal \/ q.request.final,
                 claimable |-> q.a \in claimable]
<1>1. q \in Proxy
  BY ProxyType DEF Live, GasInv
<1>2. signed' = signed \cup {s}
  BY DEF Signs
<1>3. (isFinal \/ q.request.final) \in BOOLEAN /\ (q.a \in claimable) \in BOOLEAN
  OBVIOUS
<1>4. s \in [a : Allocations, epoch : Epochs, until : Times, final : BOOLEAN, claimable : BOOLEAN]
  BY <1>1, <1>3 DEF Proxy
<1>5. s.a = q.a /\ s.epoch = q.epoch /\ s.until = until
  OBVIOUS
<1>6. (s.final => isFinal \/ q.request.final) /\ (q.a \in claimable => s.claimable)
  OBVIOUS
<1> HIDE DEF s
<1> QED
  BY <1>2, <1>4, <1>5, <1>6 DEF SignedType, GasInv

LEMMA AnswerStep ==
  ASSUME GasInv, NEW p \in Proxies, NEW until \in Times, NEW isFinal \in BOOLEAN,
         Answer(p, until, isFinal)
  PROVE  GasInv'
<1> DEFINE q == proxies[p]
           n == [q EXCEPT !.at = "answered", !.until = until, !.isFinal = isFinal]
<1>1. p \in Live /\ q \in Proxy /\ q.at = "asking" /\ ProxyFits(q)
      /\ Signs(p, until, isFinal) /\ UNCHANGED <<now, claimable, rows, asked, reviews, candidates>>
  BY ProxyType DEF Answer, Live, GasInv, ProxiesFit
<1>2. /\ n \in Proxy /\ n.at = "answered" /\ n.a = q.a /\ n.epoch = q.epoch /\ n.request = q.request
      /\ n.until = until /\ n.fresh = q.fresh
  BY <1>1 DEF Proxy
<1>3. n.isFinal = isFinal
  BY <1>1 DEF Proxy
<1>4. proxies' = [proxies EXCEPT ![p] = n]
  BY DEF Answer, GasInv, TypeOK
<1> HIDE DEF n
<1>5. Backed(n, signed', claimable)
  <2>1. \E s \in signed' :
           /\ s.a = q.a /\ s.epoch = q.epoch /\ s.until = until
           /\ q.a \in claimable => s.claimable
    BY <1>1, Signed
  <2> QED
    BY <1>2, <2>1 DEF Backed
<1>6. signed \subseteq signed' /\ SignedType'
  BY <1>1, Signed
<1>7. ASSUME NEW s \in signed' \ signed
      PROVE  s.a = n.a /\ s.epoch = n.epoch /\ s.until = n.until
             /\ (s.final => n.request.final \/ n.isFinal)
  BY <1>1, <1>2, <1>3, Signed
<1>8. Moves(p, n)
  BY <1>1, <1>2, <1>4, <1>5, <1>6, <1>7 DEF Moves, ProxyFits, Asking, About
<1> QED
  BY <1>8, MoveStep

LEMMA LoseAnswerStep ==
  ASSUME GasInv, NEW p \in Proxies, LoseAnswer(p)
  PROVE  GasInv'
<1> DEFINE q == proxies[p]
           n == [q EXCEPT !.at = "failed"]
<1>1. p \in Live /\ q \in Proxy /\ q.at = "asking" /\ ProxyFits(q)
      /\ UNCHANGED <<now, claimable, rows, asked, reviews, candidates>>
  BY ProxyType DEF LoseAnswer, Live, GasInv, ProxiesFit
<1>2. n \in Proxy /\ n.at = "failed" /\ n.a = q.a /\ n.epoch = q.epoch /\ n.request = q.request
      /\ n.fresh = q.fresh
  BY <1>1 DEF Proxy
<1>3. proxies' = [proxies EXCEPT ![p] = n]
  BY DEF LoseAnswer, Goto, GasInv, TypeOK
<1>4. /\ signed \subseteq signed' /\ SignedType'
      /\ \A s \in signed' \ signed : s.a = q.a /\ s.epoch = q.epoch
  <2>1. CASE UNCHANGED signed
    BY <2>1 DEF GasInv, SignedType
  <2>2. CASE \E until \in Times, isFinal \in BOOLEAN : Signs(p, until, isFinal)
    <3>1. PICK until \in Times, isFinal \in BOOLEAN : Signs(p, until, isFinal)
      BY <2>2
    <3> QED
      BY <1>1, <3>1, Signed
  <2> QED
    BY <2>1, <2>2 DEF LoseAnswer
<1> HIDE DEF n
<1>5. Moves(p, n)
  BY <1>1, <1>2, <1>3, <1>4 DEF Moves, ProxyFits, Backed, Asking, About
<1> QED
  BY <1>5, MoveStep

\* A request is written down before the provider is asked.
Asks(p, y, row) ==
    LET q == proxies[p]
    IN  /\ y = [a |-> q.a, epoch |-> q.epoch, request |-> q.request, state |-> "IN_FLIGHT",
                until |-> 0, isFinal |-> FALSE]
        /\ row \in Row /\ row.op = q.request.op /\ row.epoch = rows[q.a].epoch
        /\ row.expires = rows[q.a].expires /\ (q.request.final => row.final # None)
        /\ row.mode = rows[q.a].mode /\ row.hash = rows[q.a].hash
        /\ row.managed = rows[q.a].managed
        /\ p \in Live /\ q.at = "found" /\ MayAsk(p)
        /\ rows' = [rows EXCEPT ![q.a] = row] /\ asked' = asked \cup {y}
        /\ proxies' = [proxies EXCEPT ![p] = [q EXCEPT !.at = "asking"]]
        /\ UNCHANGED <<now, claimable, reviews, candidates, signed>>

LEMMA DecideAsks ==
  ASSUME GasInv, NEW p \in Proxies, Decide(p), MayAsk(p)
  PROVE  \E y, row : Asks(p, y, row)
<1> DEFINE q == proxies[p]
           y == [a |-> q.a, epoch |-> q.epoch, request |-> q.request, state |-> "IN_FLIGHT",
                 until |-> 0, isFinal |-> FALSE]
           final == IF q.request.final THEN q.request ELSE rows[q.a].final
           row == [rows[q.a] EXCEPT !.op = q.request.op, !.attempts = @ + 1, !.final = final]
<1>1. p \in Live /\ q \in Proxy /\ q.at = "found" /\ rows[q.a] # None /\ q.a \in Allocations
  BY ProxyType DEF Decide, Live, GasInv, ProxiesFit, ProxyFits, Proxy
<1>2. rows[q.a] \in Row /\ rows[q.a].attempts + 1 \in 0 .. MaxAttempts /\ final \in Requests \cup {None}
  <2>1. rows[q.a] \in Row /\ rows[q.a].attempts < MaxAttempts
    BY <1>1, RowType DEF GasInv, MayAsk
  <2> QED
    BY <1>1, <2>1, GasAssumption DEF Row, Proxy
<1>3. q.request.op \in Operations /\ (q.request.final => final # None)
  BY <1>1, NoneAssumption DEF Proxy, Operations
<1> HIDE DEF final
<1>4. row \in Row /\ row.op = q.request.op /\ row.epoch = rows[q.a].epoch
      /\ row.expires = rows[q.a].expires /\ (q.request.final => row.final # None)
      /\ row.mode = rows[q.a].mode /\ row.hash = rows[q.a].hash
      /\ row.managed = rows[q.a].managed
  BY <1>2, <1>3 DEF Row
<1>5. /\ rows' = [rows EXCEPT ![q.a] = row] /\ asked' = asked \cup {y}
      /\ proxies' = [proxies EXCEPT ![p] = [q EXCEPT !.at = "asking"]]
      /\ UNCHANGED <<now, claimable, reviews, candidates, signed>>
  BY <1>1 DEF Decide, Goto, GasInv, TypeOK, final
<1> QED
  BY <1>1, <1>4, <1>5 DEF Asks

LEMMA AsksStep ==
  ASSUME GasInv, NEW p \in Proxies, NEW y, NEW row, Asks(p, y, row)
  PROVE  GasInv'
<1> USE DEF GasInv
<1> DEFINE q == proxies[p]
           a == q.a
           n == [q EXCEPT !.at = "asking"]
<1>1. /\ p \in Live /\ q.at = "found" /\ proxies' = [proxies EXCEPT ![p] = n]
      /\ asked' = asked \cup {y} /\ rows' = [rows EXCEPT ![a] = row]
      /\ UNCHANGED <<now, claimable, reviews, candidates, signed>>
  BY DEF Asks
<1>2. q \in Proxy /\ a \in Allocations /\ q.request \in Requests /\ ProxyFits(q)
  BY <1>1, ProxyType DEF Live, ProxiesFit, Proxy
<1>3. /\ y \in Asked /\ y.a = a /\ y.epoch = q.epoch /\ y.request = q.request
      /\ y.state = "IN_FLIGHT" /\ ~y.isFinal
  BY <1>2, GasAssumption DEF Asks, Asked, Proxy, Times
<1>4. n \in Proxy /\ n.a = a /\ n.epoch = q.epoch /\ n.request = q.request /\ n.at = "asking"
      /\ n.fresh = q.fresh
  BY <1>2 DEF Proxy
<1>5. q.fresh /\ rows[a].expires > now /\ SameOperation(rows[a], q.request)
      /\ (\A x \in AskedIn(a, q.epoch) : x.request # q.request) /\ Settled(a, q.epoch)
      /\ rows[a].final = None /\ (rows[a].op = None => BudgetLeft(a))
  <2>1. MayAsk(p) /\ rows[a] \in Row
    BY <1>2, RowType DEF Asks, ProxyFits
  <2>2. rows[a].expires > now + UseMargin /\ rows[a].expires \in Nat /\ now \in Nat
    BY <2>1, GasAssumption DEF MayAsk, StillPermitted, Row, Times, TypeOK
  <2> QED
    BY <2>1, <2>2, GasAssumption DEF MayAsk, StillPermitted
<1>6. /\ rows[a] # None /\ rows[a].epoch = q.epoch /\ q.epoch <= q.epoch
      /\ row \in Row /\ row # None /\ row.op = q.request.op /\ row.op # None
      /\ row.epoch = q.epoch /\ row.expires = rows[a].expires
      /\ q.request.final => row.final # None
  BY <1>2, <1>5, NoneAssumption, GasAssumption DEF Asks, ProxyFits, Operations, Proxy, Epochs
<1> HIDE DEF n, a
<1>7. /\ rows'[a] = row /\ proxies'[p] = n
      /\ \A b \in Allocations \ {a} : rows'[b] = rows[b]
      /\ \A o \in Proxies \ {p} : proxies'[o] = proxies[o]
  BY <1>1, <1>2 DEF TypeOK
<1>8. Live' = Live
  BY <1>1, <1>4, <1>7, NoneAssumption DEF Live
<1>9. TypeOK' /\ SignedType' /\ AnsweredWhileClaimable'
  BY <1>1, <1>3, <1>4, <1>6 DEF TypeOK, SignedType, AnsweredWhileClaimable
<1>10. BudgetKept'
  <2>1. CASE rows[a].op = None
    BY <1>1, <1>2, <1>5, <1>6, <2>1, BudgetGrows
  <2>2. CASE rows[a].op # None
    BY <1>1, <1>2, <1>6, <2>2, BudgetStays DEF Reserved
  <2> QED
    BY <2>1, <2>2
<1>11. AskedFits'
  <2>1. ASSUME NEW x \in asked
        PROVE  /\ rows'[x.a] # None /\ rows'[x.a].op = x.request.op /\ x.epoch <= rows'[x.a].epoch
               /\ x.request.final \/ x.isFinal => rows'[x.a].final # None
               /\ x.state # "READY" => ~x.isFinal
               /\ x.epoch < rows'[x.a].epoch => AnsweredStub(x) /\ x.until < now
    <3>1. x \in Asked /\ x.request.op # None
      BY NoneAssumption DEF TypeOK, Asked, Operations
    <3>2. CASE x.a # a
      BY <1>7, <3>1, <3>2 DEF AskedFits, Asked
    <3>3. CASE x.a = a
      BY <1>5, <1>6, <1>7, <3>1, <3>3 DEF AskedFits, SameOperation
    <3> QED
      BY <3>2, <3>3
  <2>2. /\ rows'[y.a] # None /\ rows'[y.a].op = y.request.op /\ y.epoch <= rows'[y.a].epoch
        /\ y.request.final \/ y.isFinal => rows'[y.a].final # None
        /\ y.state # "READY" => ~y.isFinal
        /\ ~(y.epoch < rows'[y.a].epoch)
    <3>1. ~(q.epoch < q.epoch)
      BY <1>2, GasAssumption DEF Proxy, Epochs
    <3> QED
      BY <1>3, <1>6, <1>7, <3>1
  <2> QED
    BY <1>1, <2>1, <2>2 DEF AskedFits, AnsweredStub
<1>12. AskedOnce'
  <2>1. ASSUME NEW x \in asked, x.a = y.a, x.epoch = y.epoch
        PROVE  x.request # y.request /\ x.state = "READY"
    BY <1>3, <1>5, <2>1 DEF AskedIn, Settled
  <2>2. \A x, z \in asked :
          /\ x.a = z.a /\ x.epoch = z.epoch
          /\ x.request = z.request \/ (x.state # "READY" /\ z.state # "READY")
          => x = z
    BY DEF AskedOnce
  <2> QED
    BY <1>1, <2>1, <2>2 DEF AskedOnce
<1>13. ProxiesFit'
  <2>1. ASSUME NEW o \in Live \ {p}
        PROVE  ProxyFits(proxies[o])'
    <3>1. ProxyFits(proxies[o]) /\ proxies'[o] = proxies[o] /\ proxies[o] \in Proxy
      BY <1>7, ProxyType DEF ProxiesFit, Live
    <3>2. \A b \in Allocations : rows[b] # None => rows'[b] # None /\ rows'[b].epoch = rows[b].epoch
      BY <1>6, <1>7
    <3>3. /\ rows'[proxies[o].a] # None /\ proxies[o].epoch <= rows'[proxies[o].a].epoch
          /\ proxies[o].fresh => proxies[o].epoch = rows'[proxies[o].a].epoch
      BY <3>1, <3>2 DEF ProxyFits, Proxy
    <3>4. Asking(proxies[o]) => \E x \in asked' : About(proxies[o], x) /\ x.state = "IN_FLIGHT"
      BY <1>1, <3>1 DEF ProxyFits
    <3> QED
      BY <1>1, <3>1, <3>3, <3>4 DEF ProxyFits, Backed, Asking, About
  <2>2. ProxyFits(proxies[p])'
    <3>1. y \in asked' /\ About(n, y) /\ y.state = "IN_FLIGHT"
      BY <1>1, <1>3, <1>4 DEF About
    <3> QED
      BY <1>4, <1>6, <1>7, <3>1 DEF ProxyFits, Backed, Asking, About
  <2>3. ASSUME NEW o \in Live \ {p}, Asking(proxies[o])
        PROVE  ~About(proxies[o], n) /\ ~About(n, proxies[o])
    <3>1. PICK x \in asked : About(proxies[o], x) /\ x.state = "IN_FLIGHT"
      BY <2>3 DEF ProxiesFit, ProxyFits
    <3> QED
      BY <1>4, <1>5, <3>1 DEF About, AskedIn
  <2>4. ASSUME NEW o \in Live', NEW r \in Live',
               Asking(proxies'[o]), Asking(proxies'[r]), About(proxies'[o], proxies'[r])
        PROVE  o = r
    <3>1. CASE o # p /\ r # p
      <4>1. proxies'[o] = proxies[o] /\ proxies'[r] = proxies[r] /\ o \in Live /\ r \in Live
        BY <1>7, <1>8, <3>1 DEF Live
      <4> QED
        BY <2>4, <4>1 DEF ProxiesFit
    <3>2. CASE o = p /\ r # p
      BY <1>7, <1>8, <2>3, <2>4, <3>2 DEF Live
    <3>3. CASE o # p /\ r = p
      BY <1>7, <1>8, <2>3, <2>4, <3>3 DEF Live
    <3> QED
      BY <3>1, <3>2, <3>3
  <2> QED
    BY <1>1, <1>8, <2>1, <2>2, <2>4 DEF ProxiesFit, Asking, About
<1>14. SignedFits'
  <2>1. ASSUME NEW s \in signed
        PROVE  \E x \in asked : SpeaksFor(x, s)'
    <3>1. PICK x \in asked : SpeaksFor(x, s)
      BY DEF SignedFits
    <3>2. ~About(n, x)
      BY <1>4, <1>5 DEF About, AskedIn
    <3>3. ASSUME NEW o \in Live', Asking(proxies'[o]), About(proxies'[o], x)
          PROVE  o \in Live /\ proxies'[o] = proxies[o]
      BY <1>7, <1>8, <3>2, <3>3 DEF Live
    <3> QED
      BY <3>1, <3>3 DEF SpeaksFor, Asking, About
  <2> QED
    BY <1>1, <2>1 DEF SignedFits
<1>15. FoundFits'
  <2>1. ASSUME NEW c \in Found
        PROVE  /\ rows'[c.a] # None /\ rows'[c.a].op # None
               /\ c.epoch < MaxEpoch /\ c.epoch <= rows'[c.a].epoch
               /\ c.epoch = rows'[c.a].epoch => rows'[c.a].expires = c.expires
               /\ c.expires < now /\ c.until < now
               /\ \A x \in AskedIn(c.a, c.epoch)' : AnsweredStub(x) /\ x.until <= c.until
    <3>1. c \in Candidate /\ c.expires \in Nat /\ now \in Nat
      BY GasAssumption DEF Found, TypeOK, Candidate, Times
    <3>2. c.expires < now
      BY DEF FoundFits
    <3>3. c.a = a => c.epoch # q.epoch
      <4>1. c.a = a /\ c.epoch = q.epoch => rows[a].expires = c.expires
        BY <1>6 DEF FoundFits
      <4>2. rows[a].expires > now
        BY <1>5
      <4> QED
        BY <3>1, <3>2, <4>1, <4>2
    <3>4. AskedIn(c.a, c.epoch)' = AskedIn(c.a, c.epoch)
      BY <1>1, <1>3, <3>3 DEF AskedIn
    <3>5. \A x \in AskedIn(c.a, c.epoch) : AnsweredStub(x) /\ x.until <= c.until
      BY DEF FoundFits
    <3>6. CASE c.a # a
      BY <1>7, <3>1, <3>4, <3>5, <3>6 DEF FoundFits, Candidate
    <3>7. CASE c.a = a
      <4>1. c.epoch < MaxEpoch /\ c.epoch <= rows[a].epoch /\ c.until < now
        BY <3>7 DEF FoundFits
      <4> QED
        BY <1>6, <1>7, <3>2, <3>3, <3>4, <3>5, <3>7, <4>1
    <3> QED
      BY <3>6, <3>7
  <2>2. Found' = Found
    BY <1>1 DEF Found
  <2> QED
    BY <1>1, <2>1, <2>2 DEF FoundFits, AnsweredStub
<1> QED
  BY <1>9, <1>10, <1>11, <1>12, <1>13, <1>14, <1>15

LEMMA DecideStep ==
  ASSUME GasInv, NEW p \in Proxies, Decide(p)
  PROVE  GasInv'
<1>1. CASE MayAsk(p)
  BY <1>1, DecideAsks, AsksStep
<1>2. CASE ~MayAsk(p)
  <2>1. Die(p)
    BY <1>2 DEF Decide, Die
  <2> QED
    BY <2>1, ElsewhereStep
<1> QED
  BY <1>1, <1>2

\* A request ends, and what is known of its answer takes the place of what was asked.
Closes(p, x, z, row) ==
    LET q == proxies[p]
    IN  /\ p \in Live /\ q.at \in {"checked", "failed"}
        /\ x \in asked /\ About(q, x) /\ x.state = "IN_FLIGHT"
        /\ z \in Asked /\ About(q, z)
        /\ \/ z.state = "UNKNOWN" /\ ~z.isFinal
           \/ z.state = "READY" /\ q.at = "checked" /\ z.until = q.until /\ z.isFinal = q.isFinal
        /\ row \in Row /\ row.op = rows[q.a].op /\ row.epoch = rows[q.a].epoch
        /\ row.expires = rows[q.a].expires
        /\ z.isFinal \/ rows[q.a].final # None => row.final # None
        /\ asked' = (asked \ {x}) \cup {z} /\ rows' = [rows EXCEPT ![q.a] = row]
        /\ proxies' = [proxies EXCEPT ![p] = None]
        /\ UNCHANGED <<now, claimable, reviews, candidates, signed>>

LEMMA ClosesStep ==
  ASSUME GasInv, NEW p \in Proxies, NEW x, NEW z, NEW row, Closes(p, x, z, row)
  PROVE  GasInv'
<1> USE DEF GasInv
<1> DEFINE q == proxies[p]
           a == q.a
<1>1. /\ p \in Live /\ proxies' = [proxies EXCEPT ![p] = None] /\ Asking(q)
      /\ asked' = (asked \ {x}) \cup {z} /\ rows' = [rows EXCEPT ![a] = row]
      /\ UNCHANGED <<now, claimable, reviews, candidates, signed>>
  BY DEF Closes, Asking
<1>2. q \in Proxy /\ a \in Allocations /\ ProxyFits(q) /\ rows[a] # None
  BY <1>1, ProxyType DEF Live, ProxiesFit, ProxyFits, Proxy
<1>3. /\ x \in asked /\ x \in Asked /\ z \in Asked /\ x.a = a /\ z.a = a /\ x.epoch = z.epoch
      /\ x.request = z.request /\ x.state = "IN_FLIGHT"
      /\ About(q, x) /\ About(q, z) /\ (z.state # "READY" => ~z.isFinal)
  BY DEF Closes, About, TypeOK
<1>4. /\ row \in Row /\ row # None /\ row.op = rows[a].op /\ row.epoch = rows[a].epoch
      /\ row.expires = rows[a].expires
      /\ z.isFinal \/ rows[a].final # None => row.final # None
  BY NoneAssumption DEF Closes
<1> HIDE DEF a
<1>5. /\ rows'[a] = row /\ proxies'[p] = None
      /\ \A b \in Allocations \ {a} : rows'[b] = rows[b]
      /\ \A o \in Proxies \ {p} : proxies'[o] = proxies[o]
  BY <1>1, <1>2 DEF TypeOK
<1>6. Live' = Live \ {p}
  BY <1>5 DEF Live
<1>7. ASSUME NEW o \in Live \ {p}, Asking(proxies[o])
      PROVE  ~About(proxies[o], x)
  <2>1. ASSUME About(proxies[o], x)
        PROVE  FALSE
    <3>1. About(proxies[o], q)
      BY <1>3, <2>1 DEF About
    <3> QED
      BY <1>1, <1>7, <3>1 DEF ProxiesFit
  <2> QED
    BY <2>1
<1>8. TypeOK' /\ SignedType' /\ BudgetKept'
  <2>1. BudgetKept'
    BY <1>1, <1>2, <1>4, BudgetStays DEF Reserved
  <2>2. TypeOK' /\ SignedType'
    BY <1>1, <1>3, <1>4 DEF TypeOK, SignedType
  <2> QED
    BY <2>1, <2>2
<1>9. AskedFits'
  <2>1. ASSUME NEW w \in asked
        PROVE  /\ rows'[w.a] # None /\ rows'[w.a].op = w.request.op /\ w.epoch <= rows'[w.a].epoch
               /\ w.request.final \/ w.isFinal => rows'[w.a].final # None
               /\ w.state # "READY" => ~w.isFinal
               /\ w.epoch < rows'[w.a].epoch => AnsweredStub(w) /\ w.until < now
    <3>1. w.a \in Allocations
      BY DEF TypeOK, Asked
    <3>2. CASE w.a # a
      BY <1>5, <3>1, <3>2 DEF AskedFits
    <3>3. CASE w.a = a
      BY <1>4, <1>5, <3>3 DEF AskedFits
    <3> QED
      BY <3>2, <3>3
  <2>2. /\ rows'[z.a] # None /\ rows'[z.a].op = z.request.op /\ z.epoch <= rows'[z.a].epoch
        /\ z.request.final \/ z.isFinal => rows'[z.a].final # None
        /\ ~(z.epoch < rows'[z.a].epoch)
    <3>1. rows'[x.a] # None /\ rows'[x.a].op = x.request.op /\ x.epoch <= rows'[x.a].epoch
          /\ (x.request.final => rows'[x.a].final # None)
          /\ (x.epoch < rows'[x.a].epoch => AnsweredStub(x))
      BY <1>3, <2>1
    <3> QED
      BY <1>3, <1>4, <1>5, <3>1 DEF AnsweredStub
  <2> QED
    BY <1>1, <1>3, <2>1, <2>2 DEF AskedFits, AnsweredStub
<1>10. AskedOnce'
  <2>1. ASSUME NEW w \in asked \ {x}, w.a = z.a, w.epoch = z.epoch
        PROVE  w.request # z.request /\ (w.state = "READY")
    BY <1>3, <2>1 DEF AskedOnce
  <2>2. \A v, w \in asked :
          /\ v.a = w.a /\ v.epoch = w.epoch
          /\ v.request = w.request \/ (v.state # "READY" /\ w.state # "READY")
          => v = w
    BY DEF AskedOnce
  <2> QED
    BY <1>1, <2>1, <2>2 DEF AskedOnce
<1>11. ProxiesFit'
  <2>1. ASSUME NEW o \in Live \ {p}
        PROVE  ProxyFits(proxies[o])'
    <3>1. ProxyFits(proxies[o]) /\ proxies'[o] = proxies[o] /\ proxies[o] \in Proxy
      BY <1>5, ProxyType DEF ProxiesFit, Live
    <3>2. \A b \in Allocations : rows[b] # None => rows'[b] # None /\ rows'[b].epoch = rows[b].epoch
      BY <1>4, <1>5
    <3>3. /\ rows'[proxies[o].a] # None /\ proxies[o].epoch <= rows'[proxies[o].a].epoch
          /\ proxies[o].fresh => proxies[o].epoch = rows'[proxies[o].a].epoch
      BY <3>1, <3>2 DEF ProxyFits, Proxy
    <3>4. Asking(proxies[o]) => \E w \in asked' : About(proxies[o], w) /\ w.state = "IN_FLIGHT"
      BY <1>1, <1>7, <3>1 DEF ProxyFits
    <3> QED
      BY <1>1, <3>1, <3>3, <3>4 DEF ProxyFits, Backed, Asking, About
  <2>2. ASSUME NEW o \in Live', NEW r \in Live',
               Asking(proxies'[o]), Asking(proxies'[r]), About(proxies'[o], proxies'[r])
        PROVE  o = r
    <3>1. proxies'[o] = proxies[o] /\ proxies'[r] = proxies[r] /\ o \in Live /\ r \in Live
      BY <1>5, <1>6 DEF Live
    <3> QED
      BY <2>2, <3>1 DEF ProxiesFit
  <2> QED
    BY <1>6, <2>1, <2>2 DEF ProxiesFit, Asking, About
<1>12. SignedFits'
  <2>1. ASSUME NEW s \in signed
        PROVE  \E w \in asked' : SpeaksFor(w, s)'
    <3>1. PICK w \in asked : SpeaksFor(w, s)
      BY DEF SignedFits
    <3>2. ASSUME NEW o \in Live'
          PROVE  o \in Live \ {p} /\ proxies'[o] = proxies[o]
      BY <1>5, <1>6 DEF Live
    <3>3. CASE w # x
      BY <1>1, <3>1, <3>2, <3>3 DEF SpeaksFor, Asking, About
    <3>4. CASE w = x
      <4>1. q.at \in {"answered", "checked"} =>
              q.until = s.until /\ (s.final => x.request.final \/ q.isFinal)
        BY <1>1, <1>3, <3>1, <3>4 DEF SpeaksFor
      <4>2. z.state = "READY" => z.until = s.until /\ (s.final => z.request.final \/ z.isFinal)
        BY <1>3, <4>1 DEF Closes
      <4>3. ASSUME NEW o \in Live', Asking(proxies'[o])
            PROVE  ~About(proxies'[o], z)
        BY <1>3, <1>7, <3>2, <4>3 DEF About
      <4>4. z.a = s.a /\ z.epoch = s.epoch
        BY <1>3, <3>1, <3>4 DEF SpeaksFor
      <4>5. SpeaksFor(z, s)'
        BY <4>2, <4>3, <4>4 DEF SpeaksFor, Asking, About
      <4> QED
        BY <1>1, <4>5
    <3> QED
      BY <3>3, <3>4
  <2> QED
    BY <1>1, <2>1 DEF SignedFits
<1>13. FoundFits'
  <2>1. ASSUME NEW c \in Found
        PROVE  /\ rows'[c.a] # None /\ rows'[c.a].op # None
               /\ c.epoch < MaxEpoch /\ c.epoch <= rows'[c.a].epoch
               /\ c.epoch = rows'[c.a].epoch => rows'[c.a].expires = c.expires
               /\ c.expires < now /\ c.until < now
               /\ \A w \in AskedIn(c.a, c.epoch)' : AnsweredStub(w) /\ w.until <= c.until
    <3>1. x \notin AskedIn(c.a, c.epoch)
      BY <1>3 DEF FoundFits, AnsweredStub
    <3>2. AskedIn(c.a, c.epoch)' = AskedIn(c.a, c.epoch)
      BY <1>1, <1>3, <3>1 DEF AskedIn
    <3>3. c.a \in Allocations
      BY DEF Found, TypeOK, Candidate
    <3>4. CASE c.a # a
      BY <1>5, <3>2, <3>3, <3>4 DEF FoundFits
    <3>5. CASE c.a = a
      BY <1>4, <1>5, <3>2, <3>5 DEF FoundFits
    <3> QED
      BY <3>4, <3>5
  <2>2. Found' = Found
    BY <1>1 DEF Found
  <2> QED
    BY <1>1, <2>1, <2>2 DEF FoundFits, AnsweredStub
<1>14. AnsweredWhileClaimable'
  <2>1. z.state = "READY" =>
          \E s \in signed : s.a = z.a /\ s.epoch = z.epoch /\ s.until = z.until /\ s.claimable
    BY <1>2, <1>3 DEF Closes, ProxyFits, Backed, About
  <2> QED
    BY <1>1, <2>1 DEF AnsweredWhileClaimable
<1> QED
  BY <1>8, <1>9, <1>10, <1>11, <1>12, <1>13, <1>14

\* Every request that asks has one request of its own in flight.
LEMMA MineIsOne ==
  ASSUME GasInv, NEW p \in Live, Asking(proxies[p])
  PROVE  \E x \in asked : About(proxies[p], x) /\ x.state = "IN_FLIGHT" /\ Mine(p) = {x}
<1>1. PICK x \in asked : About(proxies[p], x) /\ x.state = "IN_FLIGHT"
  BY DEF GasInv, ProxiesFit, ProxyFits
<1>2. x \in Mine(p)
  BY <1>1 DEF Mine, AskedIn, About
<1>3. \A w \in Mine(p) : w = x
  BY <1>1 DEF Mine, AskedIn, About, GasInv, AskedOnce
<1> QED
  BY <1>1, <1>2, <1>3

LEMMA SaveAnswerStep ==
  ASSUME GasInv, NEW p \in Proxies, SaveAnswer(p)
  PROVE  GasInv'
<1> DEFINE q == proxies[p]
           row == IF q.isFinal THEN [rows[q.a] EXCEPT !.final = q.request] ELSE rows[q.a]
<1>1. p \in Live /\ q \in Proxy /\ q.at = "checked" /\ rows[q.a] # None /\ q.a \in Allocations
      /\ q.request \in Requests /\ q.until \in Times
  BY ProxyType DEF SaveAnswer, Live, GasInv, ProxiesFit, ProxyFits, Proxy
<1>2. q.isFinal \in BOOLEAN
  BY <1>1 DEF Proxy
<1>3. PICK x \in asked : About(q, x) /\ x.state = "IN_FLIGHT" /\ Mine(p) = {x}
  BY <1>1, MineIsOne DEF Asking
<1> DEFINE z == [x EXCEPT !.state = "READY", !.until = q.until, !.isFinal = q.isFinal]
<1>4. x \in Asked
  BY <1>3 DEF GasInv, TypeOK
<1>5. z \in Asked /\ About(q, z) /\ z.state = "READY" /\ z.until = q.until
  BY <1>1, <1>2, <1>3, <1>4 DEF Asked, About
<1>6. z.isFinal = q.isFinal
  BY <1>4 DEF Asked
<1>7. rows[q.a] \in Row
  BY <1>1, RowType DEF GasInv
<1>8. row \in Row /\ row.op = rows[q.a].op /\ row.epoch = rows[q.a].epoch
      /\ row.expires = rows[q.a].expires /\ (q.isFinal \/ rows[q.a].final # None => row.final # None)
  BY <1>1, <1>2, <1>7, NoneAssumption DEF Row
<1>9. rows' = [rows EXCEPT ![q.a] = row]
  <2>1. CASE q.isFinal
    BY <1>1, <2>1 DEF SaveAnswer, GasInv, TypeOK
  <2>2. CASE ~q.isFinal
    BY <1>1, <2>2 DEF SaveAnswer, GasInv, TypeOK
  <2> QED
    BY <2>1, <2>2
<1>10. asked' = (asked \ {x}) \cup {z}
  BY <1>3 DEF SaveAnswer
<1>11. proxies' = [proxies EXCEPT ![p] = None] /\ UNCHANGED <<now, claimable, reviews, candidates, signed>>
  BY DEF SaveAnswer, End
<1> HIDE DEF row, z
<1>12. Closes(p, x, z, row)
  BY <1>1, <1>3, <1>5, <1>6, <1>8, <1>9, <1>10, <1>11 DEF Closes
<1> QED
  BY <1>12, ClosesStep

LEMMA HandleErrorStep ==
  ASSUME GasInv, NEW p \in Proxies, HandleError(p)
  PROVE  GasInv'
<1> DEFINE q == proxies[p]
           row == rows[q.a]
<1>1. p \in Live /\ q \in Proxy /\ q.at \in {"checked", "failed"} /\ row # None
      /\ q.a \in Allocations
  BY ProxyType DEF HandleError, Live, GasInv, ProxiesFit, ProxyFits, Proxy
<1>2. PICK x \in asked : About(q, x) /\ x.state = "IN_FLIGHT" /\ Mine(p) = {x}
  BY <1>1, MineIsOne DEF Asking
<1> DEFINE z == [x EXCEPT !.state = "UNKNOWN"]
<1>3. x \in Asked /\ ~x.isFinal
  BY <1>2 DEF GasInv, TypeOK, AskedFits
<1>4. z \in Asked /\ About(q, z) /\ z.state = "UNKNOWN" /\ ~z.isFinal
  BY <1>2, <1>3 DEF Asked, About
<1>5. row \in Row /\ rows' = [rows EXCEPT ![q.a] = row]
  BY <1>1, RowType DEF HandleError, GasInv, TypeOK
<1>6. asked' = (asked \ {x}) \cup {z}
  BY <1>2 DEF HandleError
<1>7. proxies' = [proxies EXCEPT ![p] = None] /\ UNCHANGED <<now, claimable, reviews, candidates, signed>>
  BY DEF HandleError, End
<1> HIDE DEF z
<1>8. Closes(p, x, z, row)
  BY <1>1, <1>2, <1>4, <1>5, <1>6, <1>7 DEF Closes
<1> QED
  BY <1>8, ClosesStep

-----------------------------------------------------------------------------
(* The theorems.                                                            *)

LEMMA GasInit == Init => GasInv
<1> SUFFICES ASSUME Init
             PROVE  GasInv
  OBVIOUS
<1>1. TypeOK
  BY GasAssumption DEF Init, TypeOK
<1>2. Reserved = {} /\ \A a \in Allocations : {b \in Reserved : AccountOf[b] = AccountOf[a]} = {}
  BY DEF Init, Reserved
<1>3. BudgetKept
  BY <1>2, FS_EmptySet, GasAssumption DEF BudgetKept
<1>4. SignedType /\ AskedFits /\ AskedOnce /\ SignedFits /\ AnsweredWhileClaimable
  BY DEF Init, SignedType, AskedFits, AskedOnce, SignedFits, AnsweredWhileClaimable
<1>5. ProxiesFit /\ FoundFits
  BY DEF Init, ProxiesFit, FoundFits, Live, Found
<1> QED
  BY <1>1, <1>3, <1>4, <1>5 DEF GasInv

LEMMA GasNext ==
  ASSUME GasInv, [Next]_vars
  PROVE  GasInv'
<1>1. ASSUME NEW a \in Allocations,
             \/ FirstPermit(a) \/ RefreshPermit(a) \/ RecoverPermit(a) \/ FindCandidate(a)
             \/ ReserveManaged(a)
      PROVE  GasInv'
  BY <1>1, FirstPermitStep, RefreshPermitStep, RecoverPermitStep, FindCandidateStep, ReserveManagedStep
<1>2. ASSUME NEW a \in Allocations,
             \/ ReportUnknown(a) \/ Finalize(a) \/ \E hash \in Hashes : ReportSubmitted(a, hash)
      PROVE  GasInv'
  BY <1>2, ReportsStep
<1>3. ASSUME (\E a \in Allocations : Pay(a)) \/ (\E c \in candidates : CommitReview(c)) \/ Tick
      PROVE  GasInv'
  BY <1>3, ElsewhereStep
<1>4. ASSUME NEW p \in Proxies, Serve(p)
      PROVE  GasInv'
  <2>1. CASE \E a \in Allocations, request \in Requests : FindPermit(p, a, request)
    BY <2>1, FindPermitStep
  <2>2. CASE \E until \in Times, isFinal \in BOOLEAN : Answer(p, until, isFinal)
    BY <2>2, AnswerStep
  <2>3. CASE Decide(p) \/ LoseAnswer(p) \/ Recheck(p)
    BY <2>3, DecideStep, LoseAnswerStep, RecheckStep
  <2>4. CASE SaveAnswer(p) \/ HandleError(p) \/ Die(p)
    BY <2>4, SaveAnswerStep, HandleErrorStep, ElsewhereStep
  <2> QED
    BY <1>4, <2>1, <2>2, <2>3, <2>4 DEF Serve
<1>5. CASE UNCHANGED vars
  BY <1>5 DEF vars, GasInv, TypeOK, SignedType, BudgetKept, Reserved, AskedFits, AskedOnce,
              ProxiesFit, ProxyFits, Backed, Live, Asking, About, SignedFits, SpeaksFor,
              FoundFits, Found, AskedIn, AnsweredStub, AnsweredWhileClaimable
<1> QED
  BY <1>1, <1>2, <1>3, <1>4, <1>5 DEF Next

LEMMA GasInvSafe ==
  ASSUME GasInv
  PROVE  GasSafe
<1>1. ASSUME NEW x \in asked
      PROVE  x.a \in Reserved /\ rows[x.a].op = x.request.op
  <2>1. x.a \in Allocations /\ x.request.op # None
    BY NoneAssumption DEF GasInv, TypeOK, Asked, Operations
  <2> QED
    BY <2>1 DEF GasInv, AskedFits, Reserved
<1> QED
  BY <1>1 DEF GasInv, BudgetKept, GasSafe, WithinBudget

\* What is in flight for the first time was asked for by Decide alone.
LEMMA NewlyAsked ==
  ASSUME GasInv, [Next]_vars, NEW x \in asked' \ asked, x.state = "IN_FLIGHT"
  PROVE  \E p \in Proxies : Decide(p) /\ MayAsk(p)
<1>1. asked' # asked
  OBVIOUS
<1>2. ASSUME NEW a \in Allocations,
             \/ FirstPermit(a) \/ RefreshPermit(a) \/ RecoverPermit(a) \/ FindCandidate(a)
             \/ ReserveManaged(a) \/ ReportUnknown(a) \/ Finalize(a) \/ Pay(a)
             \/ \E hash \in Hashes : ReportSubmitted(a, hash)
      PROVE  FALSE
  BY <1>1, <1>2 DEF FirstPermit, RefreshPermit, RecoverPermit, FindCandidate, ReserveManaged,
                    ReportUnknown, Finalize, Pay, ReportSubmitted, managedFrame
<1>3. ASSUME (\E c \in candidates : CommitReview(c)) \/ Tick \/ UNCHANGED vars
      PROVE  FALSE
  BY <1>1, <1>3 DEF CommitReview, Tick, vars
<1>4. ASSUME NEW p \in Proxies, Serve(p)
      PROVE  Decide(p) /\ MayAsk(p)
  <2>1. ASSUME NEW w \in Mine(p)
        PROVE  w \in Asked
    BY DEF Mine, AskedIn, GasInv, TypeOK
  <2>2. ~SaveAnswer(p)
    <3>1. ASSUME SaveAnswer(p)
          PROVE  FALSE
      <4>1. PICK w \in Mine(p) :
                   x = [w EXCEPT !.state = "READY", !.until = proxies[p].until, !.isFinal = proxies[p].isFinal]
        BY <3>1 DEF SaveAnswer
      <4> QED
        BY <2>1, <4>1 DEF Asked
    <3> QED
      BY <3>1
  <2>3. ~HandleError(p)
    <3>1. ASSUME HandleError(p)
          PROVE  FALSE
      <4>1. PICK w \in Mine(p) : x = [w EXCEPT !.state = "UNKNOWN"]
        BY <3>1 DEF HandleError
      <4> QED
        BY <2>1, <4>1 DEF Asked
    <3> QED
      BY <3>1
  <2>4. Decide(p)
    BY <1>1, <1>4, <2>2, <2>3 DEF Serve, FindPermit, Answer, LoseAnswer, Recheck, Die
  <2> QED
    BY <1>1, <2>4 DEF Decide
<1> QED
  BY <1>2, <1>3, <1>4 DEF Next

LEMMA AsksSafely ==
  ASSUME GasInv, NEW p \in Proxies, NEW z, NEW row, Asks(p, z, row)
  PROVE  /\ \A y \in asked : y.a = z.a =>
               y.request.op = z.request.op /\ ~y.request.final /\ y.state = "READY"
         /\ \A s \in signed : s.a = z.a => ~s.final /\ (s.epoch < z.epoch => s.until < now)
<1> DEFINE q == proxies[p]
<1>1. /\ p \in Live /\ q \in Proxy /\ ProxyFits(q) /\ MayAsk(p)
      /\ z.a = q.a /\ z.epoch = q.epoch /\ z.request = q.request
  BY ProxyType DEF Asks, Live, GasInv, ProxiesFit
<1>2. /\ rows[q.a].epoch = q.epoch /\ rows[q.a].final = None
      /\ SameOperation(rows[q.a], q.request) /\ Settled(q.a, q.epoch)
  BY <1>1 DEF MayAsk, StillPermitted, ProxyFits
<1>3. ASSUME NEW y \in asked, y.a = q.a
      PROVE  /\ y.request.op = q.request.op /\ ~y.request.final /\ y.state = "READY" /\ ~y.isFinal
             /\ y.epoch < q.epoch => y.until < now
  <2>1. y \in Asked /\ y.request.op # None
    BY NoneAssumption DEF GasInv, TypeOK, Asked, Operations
  <2>2. /\ rows[q.a].op = y.request.op /\ y.epoch <= rows[q.a].epoch
        /\ ~y.request.final /\ ~y.isFinal
        /\ y.epoch < rows[q.a].epoch => y.state = "READY" /\ y.until < now
    BY <1>2, <1>3 DEF GasInv, AskedFits, AnsweredStub
  <2>3. y.epoch = q.epoch => y.state = "READY"
    BY <1>2, <1>3 DEF Settled, AskedIn
  <2>4. y.epoch <= q.epoch => y.epoch = q.epoch \/ y.epoch < q.epoch
    BY <1>1, <2>1, GasAssumption DEF Asked, Proxy, Epochs
  <2> QED
    BY <1>2, <2>1, <2>2, <2>3, <2>4 DEF SameOperation
<1>4. ASSUME NEW s \in signed, s.a = q.a
      PROVE  ~s.final /\ (s.epoch < q.epoch => s.until < now)
  <2>1. PICK y \in asked : SpeaksFor(y, s)
    BY DEF GasInv, SignedFits
  <2>2. y.a = q.a /\ y.epoch = s.epoch
    BY <1>4, <2>1 DEF SpeaksFor
  <2>3. y.until = s.until /\ (s.final => y.request.final \/ y.isFinal)
    BY <1>3, <2>1, <2>2 DEF SpeaksFor
  <2> QED
    BY <1>3, <2>2, <2>3
<1> QED
  BY <1>1, <1>3, <1>4

\* The inductive invariant holds for any number of claims, requests, epochs and proxies.
THEOREM GasInvariant == Spec => []GasInv
<1>1. GasInv /\ [Next]_vars => GasInv'
  BY GasNext
<1> QED
  BY GasInit, <1>1, PTL DEF Spec

\* Whatever may cost gas counts against the budget, and no answer is saved for a claim
\* that was paid when it was signed (src/server/base/sponsorship.ts, ensureGasBudget and
\* the second load of proxy).
THEOREM GasIsSafe == Spec => []GasSafe
<1>1. GasInv => GasSafe
  BY GasInvSafe
<1> QED
  BY <1>1, GasInvariant, PTL

\* The provider is asked again only when nothing that it was asked before can still cost
\* more than that (src/server/base/sponsorship.ts, "Unknown outcomes never auto-retry").
THEOREM AsksOnlySafely == Spec => AskedSafely
<1> DEFINE Safely ==
      \A x \in asked' \ asked : x.state = "IN_FLIGHT" =>
          /\ \A y \in asked : y.a = x.a =>
                /\ y.request.op = x.request.op /\ ~y.request.final
                /\ y.state = "READY"
          /\ \A s \in signed : s.a = x.a => ~s.final /\ (s.epoch < x.epoch => s.until < now)
<1>1. GasInv /\ [Next]_vars => [Safely]_vars
  <2> SUFFICES ASSUME GasInv, [Next]_vars, NEW x \in asked' \ asked, x.state = "IN_FLIGHT"
               PROVE  /\ \A y \in asked : y.a = x.a =>
                            y.request.op = x.request.op /\ ~y.request.final /\ y.state = "READY"
                      /\ \A s \in signed : s.a = x.a =>
                            ~s.final /\ (s.epoch < x.epoch => s.until < now)
    OBVIOUS
  <2>1. PICK p \in Proxies : Decide(p) /\ MayAsk(p)
    BY NewlyAsked
  <2>2. PICK z, row : Asks(p, z, row)
    BY <2>1, DecideAsks
  <2>3. x = z
    BY <2>2 DEF Asks
  <2> QED
    BY <2>2, <2>3, AsksSafely
<1> QED
  BY <1>1, GasInvariant, PTL DEF Spec, AskedSafely

\* What a step may do to one row.
RowsMove ==
    \A a \in Allocations : rows[a] # None =>
        /\ rows'[a].mode = rows[a].mode
        /\ rows[a].hash # None => rows'[a].hash = rows[a].hash
        /\ rows[a].managed \in {"UNKNOWN", "FINALIZED"} =>
              rows'[a].managed \in {rows[a].managed, "FINALIZED"}

LEMMA ManagedMoves ==
  ASSUME GasInv, [Next]_vars
  PROVE  RowsMove
<1> SUFFICES ASSUME NEW a \in Allocations, rows[a] # None
             PROVE  /\ rows'[a].mode = rows[a].mode
                    /\ rows[a].hash # None => rows'[a].hash = rows[a].hash
                    /\ rows[a].managed \in {"UNKNOWN", "FINALIZED"} =>
                          rows'[a].managed \in {rows[a].managed, "FINALIZED"}
  BY DEF RowsMove
<1>1. rows[a] \in Row /\ rows \in [Allocations -> Row \cup {None}]
  BY RowType DEF GasInv, TypeOK
<1>2. rows'[a] = rows[a] =>
        /\ rows'[a].mode = rows[a].mode
        /\ rows[a].hash # None => rows'[a].hash = rows[a].hash
        /\ rows[a].managed \in {"UNKNOWN", "FINALIZED"} =>
              rows'[a].managed \in {rows[a].managed, "FINALIZED"}
  OBVIOUS
<1>3. ASSUME NEW b \in Allocations,
             \/ FirstPermit(b) \/ RefreshPermit(b) \/ RecoverPermit(b) \/ ReserveManaged(b)
      PROVE  rows'[a].mode = rows[a].mode /\ rows'[a].hash = rows[a].hash
             /\ rows'[a].managed = rows[a].managed
  BY <1>1, <1>3 DEF FirstPermit, RefreshPermit, RecoverPermit, ReserveManaged, Row
<1>4. ASSUME NEW b \in Allocations, FindCandidate(b) \/ Pay(b)
      PROVE  rows'[a] = rows[a]
  BY <1>4 DEF FindCandidate, Pay
<1>5. ASSUME NEW b \in Allocations,
             ReportUnknown(b) \/ Finalize(b) \/ \E hash \in Hashes : ReportSubmitted(b, hash)
      PROVE  /\ rows'[a].mode = rows[a].mode
             /\ rows[a].hash # None => rows'[a].hash = rows[a].hash
             /\ rows[a].managed \in {"UNKNOWN", "FINALIZED"} =>
                   rows'[a].managed \in {rows[a].managed, "FINALIZED"}
  BY <1>1, <1>5 DEF ReportUnknown, Finalize, ReportSubmitted, Unreported, Row
<1>6. ASSUME (\E c \in candidates : CommitReview(c)) \/ Tick \/ UNCHANGED vars
      PROVE  rows'[a] = rows[a]
  BY <1>6 DEF CommitReview, Tick, vars
<1>7. ASSUME NEW p \in Proxies, Serve(p)
      PROVE  rows'[a].mode = rows[a].mode /\ rows'[a].hash = rows[a].hash
             /\ rows'[a].managed = rows[a].managed
  <2>1. CASE Decide(p)
    <3>1. CASE MayAsk(p)
      <4>1. PICK y, row : Asks(p, y, row)
        BY <2>1, <3>1, DecideAsks
      <4>2. proxies[p].a \in Allocations
        BY <4>1, ProxyType DEF Asks, Live, GasInv, Proxy
      <4> QED
        BY <1>1, <4>1, <4>2 DEF Asks
    <3>2. CASE ~MayAsk(p)
      BY <2>1, <3>2 DEF Decide
    <3> QED
      BY <3>1, <3>2
  <2>3. CASE SaveAnswer(p)
    BY <1>1, <2>3 DEF SaveAnswer, Row
  <2>2. CASE UNCHANGED rows
    BY <2>2
  <2> QED
    BY <1>7, <2>1, <2>2, <2>3 DEF Serve, FindPermit, Answer, LoseAnswer, Recheck, HandleError, Die
<1> QED
  BY <1>2, <1>3, <1>4, <1>5, <1>6, <1>7 DEF Next

\* An operation hash is never replaced, a managed attempt of unknown outcome is not taken
\* for a submitted one, and what the chain has shown stays (reportManaged).
THEOREM ManagedIsKept == Spec => ManagedKept
<1>1. GasInv /\ [Next]_vars => [RowsMove]_vars
  BY ManagedMoves
<1> QED
  BY <1>1, GasInvariant, PTL DEF Spec, ManagedKept, RowsMove

=============================================================================
