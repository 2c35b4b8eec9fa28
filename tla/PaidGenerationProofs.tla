------------------------ MODULE PaidGenerationProofs ------------------------
(***************************************************************************)
(* Theorems about PaidGeneration for every value of its constants.           *)
(***************************************************************************)
EXTENDS PaidGeneration, TLAPS

Live == {r \in Requests : requests[r] # None}

\* The stages of a row that holds a draft.
Drafted == {"GENERATED", "SETTLING", "SETTLED", "SETTLEMENT_UNKNOWN"}

\* The row says that its payment may have been, or was, settled.
Settling(row) ==
    \/ row.state = "PROCESSING" /\ row.stage \in {"SETTLING", "SETTLED", "SETTLEMENT_UNKNOWN"}
    \/ row.state = "COMPLETED"

\* A row in itself: what its stage and state say of its other columns.
Sound(row, id, paid) ==
    /\ IdOf[row.header] = id
    /\ row.state = "PROCESSING" <=> row.stage # None
    /\ row.stage \in Drafted \/ row.state = "COMPLETED" => row.result # None
    /\ row.stage = "SETTLED" \/ row.state = "COMPLETED" => row.header \in paid

RowsAgree == \A id \in Ids : rows[id] # None => Sound(rows[id], id, charged)

\* A request in itself: what it read and ordered on the way to where it is.
Coherent(q, paid) ==
    /\ q.held \in Drafted \/ q.at = "generated" => q.result # None
    /\ q.at \in {"found none", "verified", "known"} => q.held = None /\ q.order = "none"
    /\ q.at = "owner" => q.held # None /\ (q.held # "SETTLED" => q.order = "none")
    /\ q.at = "generated" => q.held = "AUTHORIZED" /\ q.order = "none"
    /\ q.at = "failing" => q.held \in {"AUTHORIZED", "GENERATED"} /\ q.order = "none"
    /\ q.at \in {"settling", "paid", "declined", "in doubt"} =>
          q.held = "SETTLING" /\ q.order # "none"
    /\ q.at = "paid" => q.order = "executed"
    /\ q.at = "declined" => q.order = "refused"
    /\ q.at = "closing" => q.held = "SETTLED"
    /\ q.order = "executed" => q.header \in paid

\* A request that has come to know a row works on the row of its own identity.
Knows(q, row) ==
    q.at \notin {"found none", "verified"} => row # None /\ SameIdentity(row, q.header, q.body)

RequestsAgree ==
    \A r \in Live : Coherent(requests[r], charged) /\ Knows(requests[r], rows[Id(r)])

\* What was ordered stands in the row, until the last request is told that it was refused.
Stands(q, row) ==
    q.order # "none" =>
        \/ Settling(row)
        \/ row.state = "FAILED" /\ q.order = "refused" /\ q.at # "settling"

OrdersHeld ==
    /\ \A h \in charged \cup orphans :
          LET row == rows[IdOf[h]]
          IN  row # None /\ row.header = h /\ row.result # None /\ Settling(row)
    /\ \A r \in Live : Stands(requests[r], rows[Id(r)])

\* The first to settle a payment is alone with it as long as it owns the row.
First(q, row, r) ==
    /\ q.at \in {"settling", "declined"} /\ ~q.recovering
    /\ row.state = "PROCESSING" /\ row.owner = r /\ row.stage = q.held

FirstIsAlone ==
    \A r \in Live : First(requests[r], rows[Id(r)], r) =>
        /\ \A q \in Live \ {r} : Id(q) = Id(r) => requests[q].order = "none"
        /\ \A h \in orphans : IdOf[h] # Id(r)
        /\ \A h \in charged : IdOf[h] = Id(r) => requests[r].order = "executed"

\* A draft that was handed out, or linked, is that of a completed row.
DraftOf(d, row) ==
    row # None /\ row.state = "COMPLETED" /\ row.body = d.body /\ row.result = d.result

AnswersFinal ==
    /\ \A d \in delivered : DraftOf(d, rows[d.id])
    /\ \A c \in Campaigns : linked[c] # None =>
          /\ Verified(linked[c])
          /\ \A d \in Campaigns \ {c} : linked[d] # linked[c]

\* The inductive invariant.
PaidInv ==
    TypeOK /\ RowsAgree /\ RequestsAgree /\ OrdersHeld /\ FirstIsAlone /\ AnswersFinal

-----------------------------------------------------------------------------
(* One step of a request: it becomes q and its row becomes row.               *)

\* Nothing was ordered for a payment but by r.
Unordered(id, r) ==
    /\ \A h \in charged \cup orphans : IdOf[h] # id
    /\ \A x \in Live \ {r} : Id(x) = id => requests[x].order = "none"

\* A settlement comes from an order that was sent.
FromOrder(r) ==
    /\ charged \subseteq charged' /\ charged' \subseteq Headers /\ orphans' \subseteq Headers
    /\ \A h \in (charged' \ charged) \cup (orphans' \ orphans) :
          r \in Live /\ requests[r].order = "sent" /\ h = requests[r].header

\* What keeps the invariant, said of this request and its row alone.
Lawful(r, id, q, row) ==
    /\ requests' = [requests EXCEPT ![r] = q] /\ q \in Request \cup {None}
    /\ rows' = [rows EXCEPT ![id] = row] /\ row \in Row \cup {None}
    /\ r \in Live => Id(r) = id
    /\ rows[id] # None =>
          /\ row # None /\ SameIdentity(row, rows[id].header, rows[id].body)
          /\ rows[id].state # "PROCESSING" => row = rows[id]
          /\ \/ Settling(rows[id]) => Settling(row)
             \/ Unordered(id, r) /\ charged' = charged /\ orphans' = orphans
    /\ row # None => Sound(row, id, charged') /\ (row = rows[id] \/ row.owner \in {None, r})
    /\ q # None =>
          /\ IdOf[q.header] = id /\ Coherent(q, charged') /\ Knows(q, row) /\ Stands(q, row)
          /\ q.order # "none" => (r \in Live /\ requests[r].order # "none") \/ row.owner = r
          /\ First(q, row, r) =>
                /\ \A x \in Live \ {r} : Id(x) = id => requests[x].order = "none"
                /\ \A h \in orphans' : IdOf[h] # id
                /\ \A h \in charged' : IdOf[h] = id => q.order = "executed"
    /\ FromOrder(r)
    /\ delivered \subseteq delivered' /\ linked' = linked /\ mishaps' \in 0 .. MaxMishaps
    /\ \A d \in delivered' \ delivered :
          d \in [id : {id}, body : Bodies, result : Results] /\ DraftOf(d, row)

LEMMA OneStep ==
  ASSUME PaidInv, NEW r \in Requests, NEW id \in Ids, NEW q, NEW row, Lawful(r, id, q, row)
  PROVE  PaidInv'
<1> USE DEF PaidInv
<1>1. /\ requests'[r] = q /\ \A x \in Requests \ {r} : requests'[x] = requests[x]
      /\ rows'[id] = row /\ \A i \in Ids \ {id} : rows'[i] = rows[i]
  BY DEF Lawful, TypeOK
<1>2. TypeOK'
  BY DEF Lawful, TypeOK, FromOrder
<1>3. \A x \in Live \ {r} :
          /\ x \in Live' /\ requests'[x] = requests[x] /\ requests[x] \in Request
          /\ Id(x)' = Id(x) /\ Id(x) \in Ids
  BY <1>1, HeadersAssumption DEF Live, Id, TypeOK, Request
<1>4. Live' \subseteq Live \cup {r} /\ (r \in Live' <=> q # None) /\ (q # None => Id(r)' = id)
  BY <1>1, <1>2 DEF Live, Id, Lawful
<1>5. RowsAgree'
  BY <1>1 DEF RowsAgree, Lawful, Sound, FromOrder
<1>6. RequestsAgree'
  <2>1. ASSUME NEW x \in Live \ {r}
        PROVE  Coherent(requests[x], charged') /\ Knows(requests[x], rows'[Id(x)])
    <3>1. Coherent(requests[x], charged) /\ Knows(requests[x], rows[Id(x)])
      BY DEF RequestsAgree
    <3>2. Coherent(requests[x], charged')
      BY <3>1 DEF Coherent, Lawful, FromOrder
    <3>3. CASE Id(x) = id
      BY <1>1, <3>1, <3>2, <3>3 DEF Knows, Lawful, SameIdentity
    <3>4. CASE Id(x) # id
      BY <1>1, <1>3, <3>1, <3>2, <3>4
    <3> QED
      BY <3>3, <3>4
  <2> QED
    BY <1>1, <1>3, <1>4, <2>1 DEF RequestsAgree, Lawful
<1>7. OrdersHeld'
  <2>1. ASSUME NEW h \in charged' \cup orphans'
        PROVE  LET row1 == rows'[IdOf[h]]
               IN  row1 # None /\ row1.header = h /\ row1.result # None /\ Settling(row1)
    <3>0. IdOf[h] \in Ids
      BY HeadersAssumption DEF Lawful, FromOrder
    <3>1. LET row0 == rows[IdOf[h]]
          IN  row0 # None /\ row0.header = h /\ row0.result # None /\ Settling(row0)
      <4>1. CASE h \in charged \cup orphans
        BY <4>1 DEF OrdersHeld
      <4>2. CASE r \in Live /\ requests[r].order = "sent" /\ h = requests[r].header
        BY <4>2, <3>0 DEF OrdersHeld, Stands, RequestsAgree, RowsAgree, Coherent, Knows, SameIdentity,
              Sound, Settling, Drafted, Id
      <4> QED
        BY <4>1, <4>2 DEF Lawful, FromOrder
    <3>2. CASE IdOf[h] = id
      <4>1. Settling(row)
        BY <3>1, <3>2, <2>1 DEF Lawful, Unordered
      <4> QED
        BY <1>1, <3>1, <3>2, <4>1 DEF Lawful, Sound, SameIdentity, Settling, Drafted
    <3>3. CASE IdOf[h] # id
      BY <1>1, <3>0, <3>1, <3>3
    <3> QED
      BY <3>2, <3>3
  <2>2. ASSUME NEW x \in Live'
        PROVE  Stands(requests'[x], rows'[Id(x)'])
    <3>1. CASE x = r
      BY <1>1, <1>4, <3>1 DEF Lawful
    <3>2. CASE x # r /\ Id(x) # id
      BY <1>1, <1>3, <1>4, <3>2 DEF OrdersHeld
    <3>3. CASE x # r /\ Id(x) = id /\ requests[x].order = "none"
      BY <1>1, <1>3, <1>4, <3>3 DEF Stands
    <3>4. CASE x # r /\ Id(x) = id /\ requests[x].order # "none"
      <4>1. x \in Live /\ Stands(requests[x], rows[id]) /\ rows[id] # None
        BY <1>3, <1>4, <3>4 DEF OrdersHeld, RequestsAgree, Coherent, Knows
      <4>2. Settling(rows[id]) => Settling(row)
        BY <1>3, <3>4, <4>1 DEF Lawful, Unordered
      <4>3. Stands(requests[x], row)
        <5>1. CASE Settling(rows[id])
          BY <4>2, <5>1 DEF Stands
        <5>2. CASE rows[id].state = "FAILED"
          BY <4>1, <5>2 DEF Lawful
        <5> QED
          BY <3>4, <4>1, <5>1, <5>2 DEF Stands
      <4> QED
        BY <1>1, <1>3, <4>1, <4>3, <3>4
    <3> QED
      BY <3>1, <3>2, <3>3, <3>4
  <2> QED
    BY <2>1, <2>2 DEF OrdersHeld
<1>8. FirstIsAlone'
  <2> SUFFICES ASSUME NEW x \in Live', First(requests'[x], rows'[Id(x)'], x)
               PROVE  /\ \A y \in Live' \ {x} : Id(y)' = Id(x)' => requests'[y].order = "none"
                      /\ \A h \in orphans' : IdOf[h] # Id(x)'
                      /\ \A h \in charged' : IdOf[h] = Id(x)' => requests'[x].order = "executed"
    BY DEF FirstIsAlone
  <2>1. CASE x = r
    BY <1>1, <1>3, <1>4, <2>1 DEF Lawful
  <2>2. CASE x # r
    <3>1. x \in Live /\ requests'[x] = requests[x] /\ Id(x)' = Id(x) /\ Id(x) \in Ids
      BY <1>1, <1>3, <1>4, <2>2
    <3>2. First(requests[x], rows[Id(x)], x)
      <4>1. CASE Id(x) # id
        BY <1>1, <3>1, <4>1
      <4>2. CASE Id(x) = id
        <5>1. rows[id] # None
          BY <3>1, <4>2, <2>2 DEF RequestsAgree, Knows, First
        <5>2. row # None /\ row.owner = x
          BY <1>1, <3>1, <4>2, <5>1 DEF First, Lawful
        <5>3. row = rows[id]
          BY <2>2, <5>1, <5>2, NoneAssumption DEF Lawful, Live
        <5> QED
          BY <1>1, <3>1, <4>2, <5>3
      <4> QED
        BY <4>1, <4>2
    <3>3. /\ \A y \in Live \ {x} : Id(y) = Id(x) => requests[y].order = "none"
          /\ \A h \in orphans : IdOf[h] # Id(x)
          /\ \A h \in charged : IdOf[h] = Id(x) => requests[x].order = "executed"
      BY <3>1, <3>2 DEF FirstIsAlone
    <3>4. \A h \in (charged' \ charged) \cup (orphans' \ orphans) : IdOf[h] # Id(x)
      BY <3>1, <3>3, <2>2 DEF Lawful, FromOrder, Id
    <3>5. ASSUME NEW y \in Live' \ {x}, Id(y)' = Id(x)
          PROVE  requests'[y].order = "none"
      <4>1. CASE y # r
        BY <1>3, <1>4, <3>3, <3>5, <4>1
      <4>2. CASE y = r /\ requests'[r].order # "none"
        <5>1. q # None /\ Id(x) = id
          BY <1>1, <1>4, <3>5, <4>2
        <5>2. requests[r].order # "none" /\ r \in Live
          BY <1>1, <2>2, <3>1, <4>2, <5>1, NoneAssumption DEF Lawful, First, Live
        <5> QED
          BY <3>3, <2>2, <5>1, <5>2 DEF Lawful
      <4> QED
        BY <4>1, <4>2
    <3> QED
      BY <3>1, <3>3, <3>4, <3>5
  <2> QED
    BY <2>1, <2>2
<1>9. AnswersFinal'
  <2>1. ASSUME NEW i \in Ids, rows[i] # None, rows[i].state = "COMPLETED"
        PROVE  rows'[i] = rows[i]
    BY <1>1, <2>1 DEF Lawful
  <2>2. ASSUME NEW d \in delivered'
        PROVE  DraftOf(d, rows'[d.id])
    <3>1. CASE d \in delivered
      <4>1. d.id \in Ids /\ DraftOf(d, rows[d.id])
        BY <3>1 DEF AnswersFinal, TypeOK
      <4> QED
        BY <2>1, <4>1 DEF DraftOf
    <3>2. CASE d \notin delivered
      BY <1>1, <3>2 DEF Lawful
    <3> QED
      BY <3>1, <3>2
  <2>3. ASSUME NEW c \in Campaigns, linked'[c] # None
        PROVE  /\ Verified(linked[c])'
               /\ \A d \in Campaigns \ {c} : linked'[d] # linked'[c]
    <3>1. linked' = linked /\ linked[c] \in Ids
      BY <2>3 DEF Lawful, TypeOK
    <3> QED
      BY <2>1, <2>3, <3>1 DEF AnswersFinal, Verified
  <2> QED
    BY <2>2, <2>3 DEF AnswersFinal
<1> QED
  BY <1>2, <1>5, <1>6, <1>7, <1>8, <1>9

-----------------------------------------------------------------------------
(* Every step is lawful.                                                    *)

\* What the invariant says of a request in progress.
LEMMA Working ==
  ASSUME PaidInv, NEW r \in Live
  PROVE  /\ r \in Requests /\ requests[r] \in Request /\ Id(r) \in Ids /\ IdOf[requests[r].header] = Id(r)
         /\ rows[Id(r)] \in Row \cup {None}
         /\ rows[Id(r)] # None => Sound(rows[Id(r)], Id(r), charged)
         /\ Coherent(requests[r], charged)
         /\ Knows(requests[r], rows[Id(r)]) /\ Stands(requests[r], rows[Id(r)])
<1>1. r \in Requests /\ requests[r] \in Request /\ Id(r) \in Ids
  BY HeadersAssumption DEF PaidInv, TypeOK, Live, Id, Request
<1> QED
  BY <1>1 DEF PaidInv, TypeOK, RowsAgree, RequestsAgree, OrdersHeld, Id

\* One more mishap.
LEMMA OneMore ==
  ASSUME PaidInv, mishaps < MaxMishaps, mishaps' = mishaps + 1
  PROVE  mishaps' \in 0 .. MaxMishaps
<1>1. mishaps \in 0 .. MaxMishaps
  BY DEF PaidInv, TypeOK
<1> QED
  BY <1>1, HeadersAssumption

\* A request that leaves the row alone, and at most ends, is lawful.
LEMMA Ends ==
  ASSUME PaidInv, NEW r \in Live, End(r), rows' = rows, linked' = linked, delivered' = delivered,
         FromOrder(r), mishaps' \in 0 .. MaxMishaps
  PROVE  PaidInv'
<1>1. Lawful(r, Id(r), None, rows[Id(r)])
  BY Working DEF Lawful, End, Sound, FromOrder, SameIdentity, PaidInv, TypeOK
<1> QED
  BY <1>1, Working, OneStep

\* A request that leaves the row alone and goes on.
LEMMA GoesOn ==
  ASSUME PaidInv, NEW r \in Live, NEW q \in Request, requests' = [requests EXCEPT ![r] = q],
         q.header = requests[r].header, q.body = requests[r].body,
         rows' = rows, linked' = linked, delivered' = delivered, FromOrder(r),
         mishaps' \in 0 .. MaxMishaps, Coherent(q, charged'), Knows(q, rows[Id(r)]),
         q.order # "none" => requests[r].order # "none",
         Stands(q, rows[Id(r)]),
         First(q, rows[Id(r)], r) =>
            /\ First(requests[r], rows[Id(r)], r) /\ orphans' = orphans
            /\ \A h \in charged' : IdOf[h] = Id(r) => h \in charged \/ q.order = "executed"
            /\ requests[r].order = "executed" => q.order = "executed"
  PROVE  PaidInv'
<1>1. Lawful(r, Id(r), q, rows[Id(r)])
  BY Working DEF Lawful, Sound, FromOrder, SameIdentity, PaidInv, TypeOK, FirstIsAlone
<1> QED
  BY <1>1, Working, OneStep

LEMMA VerifyStep ==
  ASSUME PaidInv, NEW r \in Requests, Verify(r)
  PROVE  PaidInv'
<1>1. r \in Live
  BY DEF Verify, At, Live
<1>2. FromOrder(r) /\ mishaps' \in 0 .. MaxMishaps
  BY DEF Verify, FromOrder, external, PaidInv, TypeOK
<1>3. CASE End(r)
  BY <1>1, <1>2, <1>3, Ends DEF Verify, external
<1>4. CASE Goto(r, "verified")
  <2> DEFINE q == [requests[r] EXCEPT !.at = "verified"]
  <2>1. q \in Request /\ requests' = [requests EXCEPT ![r] = q]
    BY <1>1, <1>4, Working DEF Goto, Request, Places
  <2>2. Coherent(q, charged') /\ Knows(q, rows[Id(r)]) /\ Stands(q, rows[Id(r)])
    BY <1>1, Working DEF Verify, At, external, Coherent, Knows, Stands, Request
  <2> QED
    BY <1>1, <1>2, <2>1, <2>2, Working, GoesOn DEF Verify, external, First, Request
<1> QED
  BY <1>3, <1>4 DEF Verify

LEMMA GenerateStep ==
  ASSUME PaidInv, NEW r \in Requests, Generate(r)
  PROVE  PaidInv'
<1>1. r \in Live /\ FromOrder(r) /\ mishaps' \in 0 .. MaxMishaps
  BY DEF Generate, At, Live, FromOrder, external, PaidInv, TypeOK
<1>2. \E q : /\ requests' = [requests EXCEPT ![r] = q]
             /\ \/ q = [requests[r] EXCEPT !.at = "failing"]
                \/ \E x \in Results : q = [requests[r] EXCEPT !.at = "generated", !.result = x]
  <2>1. CASE Goto(r, "failing")
    BY <1>1, <2>1, Working DEF Goto
  <2>2. CASE \E x \in Results :
                requests' = [requests EXCEPT ![r].at = "generated", ![r].result = x]
    <3>1. PICK x \in Results : requests' = [requests EXCEPT ![r].at = "generated", ![r].result = x]
      BY <2>2
    <3> DEFINE q == [requests[r] EXCEPT !.at = "generated", !.result = x]
    <3>2. requests' = [requests EXCEPT ![r] = q]
      BY <1>1, <3>1, Working DEF PaidInv, TypeOK
    <3> QED
      BY <3>2
  <2> QED
    BY <2>1, <2>2 DEF Generate
<1>3. PICK q : /\ requests' = [requests EXCEPT ![r] = q]
               /\ \/ q = [requests[r] EXCEPT !.at = "failing"]
                  \/ \E x \in Results : q = [requests[r] EXCEPT !.at = "generated", !.result = x]
  BY <1>2
<1>4. /\ q \in Request /\ q.header = requests[r].header /\ q.body = requests[r].body
      /\ q.held = requests[r].held /\ q.order = requests[r].order
      /\ q.at \in {"failing", "generated"}
      /\ q.at = "generated" => q.result # None
  <2>1. requests[r] \in Request
    BY <1>1, Working
  <2>2. CASE q = [requests[r] EXCEPT !.at = "failing"]
    BY <2>1, <2>2 DEF Request, Places
  <2>3. CASE \E x \in Results : q = [requests[r] EXCEPT !.at = "generated", !.result = x]
    <3>1. PICK x \in Results : q = [requests[r] EXCEPT !.at = "generated", !.result = x]
      BY <2>3
    <3>2. x # None
      BY NoneAssumption
    <3> QED
      BY <2>1, <3>1, <3>2 DEF Request, Places
  <2> QED
    BY <1>3, <2>2, <2>3
<1>5. Coherent(q, charged') /\ Knows(q, rows[Id(r)]) /\ Stands(q, rows[Id(r)])
  BY <1>1, <1>4, Working DEF Generate, At, external, Coherent, Knows, Stands, Drafted
<1> QED
  BY <1>1, <1>3, <1>4, <1>5, GoesOn DEF Generate, external, First

LEMMA ReceiveAnswerStep ==
  ASSUME PaidInv, NEW r \in Requests, ReceiveAnswer(r)
  PROVE  PaidInv'
<1>1. r \in Live /\ FromOrder(r) /\ mishaps' \in 0 .. MaxMishaps
  BY DEF ReceiveAnswer, At, Live, FromOrder, external, PaidInv, TypeOK
<1>2. PICK q : /\ requests' = [requests EXCEPT ![r] = q]
               /\ \/ requests[r].order = "executed" /\ q = [requests[r] EXCEPT !.at = "paid"]
                  \/ requests[r].order = "refused" /\ q = [requests[r] EXCEPT !.at = "declined"]
  BY <1>1, Working DEF ReceiveAnswer, Goto
<1>3. q \in Request
  BY <1>1, <1>2, Working DEF Request, Places
<1>4. Coherent(q, charged') /\ Knows(q, rows[Id(r)]) /\ Stands(q, rows[Id(r)])
  <2>1. /\ requests[r].at = "settling" /\ charged' = charged
        /\ q.at = (IF requests[r].order = "executed" THEN "paid" ELSE "declined")
        /\ q.header = requests[r].header /\ q.body = requests[r].body /\ q.held = requests[r].held
        /\ q.result = requests[r].result /\ q.order = requests[r].order
        /\ q.order \in {"executed", "refused"}
    BY <1>1, <1>2, Working DEF ReceiveAnswer, At, external, Request
  <2>2. Coherent(requests[r], charged) /\ Knows(requests[r], rows[Id(r)]) /\ Stands(requests[r], rows[Id(r)])
    BY <1>1, Working
  <2>3. Coherent(q, charged')
    BY <2>1, <2>2 DEF Coherent, Drafted
  <2>4. Knows(q, rows[Id(r)])
    BY <2>1, <2>2 DEF Knows
  <2>5. Stands(q, rows[Id(r)])
    BY <2>1, <2>2 DEF Stands
  <2> QED
    BY <2>3, <2>4, <2>5
<1> QED
  BY <1>1, <1>2, <1>3, <1>4, Working, GoesOn DEF ReceiveAnswer, At, external, First, Request

LEMMA LoseAnswerStep ==
  ASSUME PaidInv, NEW r \in Requests, LoseAnswer(r)
  PROVE  PaidInv'
<1>1. r \in Live
  BY DEF LoseAnswer, At, Live
<1>2. FromOrder(r) /\ mishaps' \in 0 .. MaxMishaps
  <2>1. mishaps' \in 0 .. MaxMishaps
    BY HeadersAssumption, OneMore DEF LoseAnswer
  <2>2. requests[r].header \in Headers
    BY <1>1, Working DEF Request
  <2> QED
    BY <1>1, <2>1, <2>2 DEF LoseAnswer, FromOrder, PaidInv, TypeOK
<1> DEFINE q == [requests[r] EXCEPT !.at = "in doubt"]
<1>3. q \in Request /\ requests' = [requests EXCEPT ![r] = q]
  BY <1>1, Working DEF LoseAnswer, Goto, Request, Places
<1>4. Coherent(q, charged') /\ Knows(q, rows[Id(r)]) /\ Stands(q, rows[Id(r)])
  BY <1>1, Working DEF LoseAnswer, At, Coherent, Knows, Stands, Request, Drafted
<1> QED
  BY <1>1, <1>2, <1>3, <1>4, Working, GoesOn DEF LoseAnswer, First, Request

LEMMA DieStep ==
  ASSUME PaidInv, NEW r \in Requests, Die(r)
  PROVE  PaidInv'
<1>1. r \in Live
  BY DEF Die, Live
<1>2. FromOrder(r) /\ mishaps' \in 0 .. MaxMishaps
  BY <1>1, Working, HeadersAssumption DEF Die, FromOrder, PaidInv, TypeOK, Request
<1> QED
  BY <1>1, <1>2, Ends DEF Die

LEMMA SettleStep ==
  ASSUME PaidInv, NEW r \in Requests, Settle(r)
  PROVE  PaidInv'
<1>1. r \in Live /\ requests[r].order = "sent" /\ At(r, "settling")
  BY DEF Settle, At, Live
<1>2. PICK answer \in {"executed", "refused"} :
         /\ requests' = [requests EXCEPT ![r].order = answer]
         /\ charged' = IF answer = "executed" THEN charged \cup {requests[r].header} ELSE charged
  BY DEF Settle
<1>3. FromOrder(r) /\ mishaps' \in 0 .. MaxMishaps
  BY <1>1, <1>2, Working DEF Settle, FromOrder, PaidInv, TypeOK, Request
<1> DEFINE q == [requests[r] EXCEPT !.order = answer]
<1>4. q \in Request /\ requests' = [requests EXCEPT ![r] = q]
  BY <1>1, <1>2, Working DEF Request
<1>5. Coherent(q, charged') /\ Knows(q, rows[Id(r)]) /\ Stands(q, rows[Id(r)])
  BY <1>1, <1>2, Working DEF At, Coherent, Knows, Stands, Request, Drafted
<1>6. First(q, rows[Id(r)], r) =>
         /\ First(requests[r], rows[Id(r)], r)
         /\ \A h \in charged' : IdOf[h] = Id(r) => h \in charged \/ q.order = "executed"
  BY <1>1, <1>2, Working DEF First, Request
<1> QED
  BY <1>1, <1>3, <1>4, <1>5, <1>6, Working, GoesOn DEF Settle, Request

-----------------------------------------------------------------------------
(* The writes of a request that owns its row.                               *)

\* Before a draft is saved, and until its settlement begins, nothing was ordered.
LEMMA NotYet ==
  ASSUME PaidInv, NEW id \in Ids, rows[id] = None \/ (~Settling(rows[id]) /\ rows[id].state = "PROCESSING")
  PROVE  /\ \A h \in charged \cup orphans : IdOf[h] # id
         /\ \A x \in Live : Id(x) = id => requests[x].order = "none"
<1>1. \A h \in charged \cup orphans : IdOf[h] # id
  BY DEF PaidInv, OrdersHeld
<1>2. ASSUME NEW x \in Live, Id(x) = id
      PROVE  requests[x].order = "none"
  BY <1>2, Working DEF Knows, Stands, Coherent
<1> QED
  BY <1>1, <1>2

\* The owner of a row works for the payment it is about.
LEMMA Owning ==
  ASSUME PaidInv, NEW r \in Live, rows[Id(r)] # None, Owns(r)
  PROVE  /\ rows[Id(r)] \in Row /\ rows[Id(r)].state = "PROCESSING"
         /\ rows[Id(r)].stage = requests[r].held /\ requests[r].held \in Stages
         /\ requests[r].at \notin {"found none", "verified", "known"}
         /\ rows[Id(r)].header = requests[r].header /\ rows[Id(r)].body = requests[r].body
<1>1. rows[Id(r)] \in Row /\ rows[Id(r)].state = "PROCESSING" /\ rows[Id(r)].stage = requests[r].held
  BY Working DEF Owns
<1>2. requests[r].held # None
  BY <1>1, Working DEF Sound
<1> QED
  BY <1>1, <1>2, Working DEF Coherent, Knows, SameIdentity, Request

LEMMA AdvancedRow ==
  ASSUME PaidInv, NEW r \in Live, rows[Id(r)] # None, NEW s \in Stages
  PROVE  \E row \in Row :
            /\ Advanced(r, s) = [rows EXCEPT ![Id(r)] = row]
            /\ row = [rows[Id(r)] EXCEPT !.stage = s, !.expired = FALSE, !.result = requests[r].result,
                         !.owner = IF s = "SETTLEMENT_UNKNOWN" THEN None ELSE r]
<1> DEFINE row == [rows[Id(r)] EXCEPT !.stage = s, !.expired = FALSE, !.result = requests[r].result,
                         !.owner = IF s = "SETTLEMENT_UNKNOWN" THEN None ELSE r]
<1>1. rows[Id(r)] \in Row /\ requests[r].result \in Results \cup {None} /\ Id(r) \in Ids /\ r \in Requests
  BY Working DEF Request
<1>2. row \in Row
  BY <1>1 DEF Row
<1>3. Advanced(r, s) = [rows EXCEPT ![Id(r)] = row]
  BY <1>1 DEF Advanced, PaidInv, TypeOK, Row
<1> QED
  BY <1>2, <1>3

LEMMA FinishedRow ==
  ASSUME PaidInv, NEW r \in Live, rows[Id(r)] # None, NEW s \in {"COMPLETED", "FAILED"}
  PROVE  \E row \in Row :
            /\ Finished(r, s) = [rows EXCEPT ![Id(r)] = row]
            /\ row = [rows[Id(r)] EXCEPT !.state = s, !.stage = None, !.owner = None, !.expired = FALSE]
<1> DEFINE row == [rows[Id(r)] EXCEPT !.state = s, !.stage = None, !.owner = None, !.expired = FALSE]
<1>1. rows[Id(r)] \in Row /\ Id(r) \in Ids /\ r \in Requests
  BY Working
<1>2. row \in Row
  BY <1>1 DEF Row
<1>3. Finished(r, s) = [rows EXCEPT ![Id(r)] = row]
  BY <1>1 DEF Finished, PaidInv, TypeOK, Row
<1> QED
  BY <1>2, <1>3

LEMMA Advances ==
  ASSUME PaidInv, NEW r \in Live, rows[Id(r)] # None, Owns(r), NEW s \in Stages, NEW q \in Request \cup {None},
         rows' = Advanced(r, s), requests' = [requests EXCEPT ![r] = q],
         UNCHANGED <<external, delivered>>, mishaps' \in 0 .. MaxMishaps,
         s \in Drafted => requests[r].result # None,
         Settling(rows[Id(r)]) => s \notin {"AUTHORIZED", "GENERATED"},
         s = "SETTLED" => requests[r].header \in charged,
         q # None =>
            /\ q.header = requests[r].header /\ q.body = requests[r].body /\ Coherent(q, charged)
            /\ q.order # "none" =>
                  /\ s \notin {"AUTHORIZED", "GENERATED"}
                  /\ requests[r].order # "none" \/ s # "SETTLEMENT_UNKNOWN"
            /\ q.at \in {"settling", "declined"} /\ ~q.recovering => ~Settling(rows[Id(r)])
  PROVE  PaidInv'
<1>0. \E row \in Row :
         /\ Advanced(r, s) = [rows EXCEPT ![Id(r)] = row]
         /\ row = [rows[Id(r)] EXCEPT !.stage = s, !.expired = FALSE, !.result = requests[r].result,
                         !.owner = IF s = "SETTLEMENT_UNKNOWN" THEN None ELSE r]
  BY AdvancedRow, Zenon
<1>1. PICK row \in Row :
         /\ rows' = [rows EXCEPT ![Id(r)] = row]
         /\ row = [rows[Id(r)] EXCEPT !.stage = s, !.expired = FALSE, !.result = requests[r].result,
                         !.owner = IF s = "SETTLEMENT_UNKNOWN" THEN None ELSE r]
  BY <1>0, Zenon
<1>2. /\ row.state = "PROCESSING" /\ row.stage = s /\ row.result = requests[r].result /\ row.owner \in {r, None}
      /\ row.header = rows[Id(r)].header /\ row.body = rows[Id(r)].body
      /\ s # "SETTLEMENT_UNKNOWN" => row.owner = r
  BY <1>1, Working DEF Row, Owns
<1>3. rows[Id(r)].state = "PROCESSING" /\ s # None /\ row # None
  BY <1>1, NoneAssumption DEF Owns
<1>4. Sound(row, Id(r), charged)
  <2>1. row.header = requests[r].header
    BY <1>2, Owning
  <2> QED
    BY <1>2, <1>3, <2>1, Working DEF Sound
<1>5. Settling(rows[Id(r)]) => Settling(row)
  BY <1>2, <1>3 DEF Settling, Stages
<1>6. ASSUME q # None
      PROVE  Knows(q, row) /\ Stands(q, row)
  BY <1>2, <1>3, <1>6, Owning DEF Knows, SameIdentity, Stands, Settling, Stages
<1>7. ASSUME q # None, First(q, row, r)
      PROVE  /\ \A x \in Live : Id(x) = Id(r) => requests[x].order = "none"
             /\ \A h \in charged \cup orphans : IdOf[h] # Id(r)
  BY <1>3, <1>7, NotYet, Working DEF First
<1>8. FromOrder(r) /\ charged' = charged /\ orphans' = orphans /\ linked' = linked
  BY DEF external, FromOrder, PaidInv, TypeOK
<1>9. q # None => (q.order # "none" => (r \in Live /\ requests[r].order # "none") \/ row.owner = r)
  BY <1>2
<1>10. Lawful(r, Id(r), q, row)
  BY <1>1, <1>2, <1>3, <1>4, <1>5, <1>6, <1>7, <1>8, <1>9, Working DEF Lawful, SameIdentity
<1> QED
  BY <1>10, Working, OneStep

LEMMA Finishes ==
  ASSUME PaidInv, NEW r \in Live, rows[Id(r)] # None, Owns(r), NEW s \in {"COMPLETED", "FAILED"},
         NEW q \in Request \cup {None},
         rows' = Finished(r, s), requests' = [requests EXCEPT ![r] = q],
         UNCHANGED external, mishaps' \in 0 .. MaxMishaps,
         delivered \subseteq delivered',
         \A d \in delivered' \ delivered :
            d = [id |-> Id(r), body |-> requests[r].body, result |-> rows[Id(r)].result] /\ s = "COMPLETED",
         s = "COMPLETED" => rows[Id(r)].stage = "SETTLED",
         s = "FAILED" => Unordered(Id(r), r),
         q # None =>
            /\ q.header = requests[r].header /\ q.body = requests[r].body /\ Coherent(q, charged)
            /\ q.at \notin {"found none", "verified", "settling"}
            /\ q.order # "none" => requests[r].order # "none" /\ (s = "COMPLETED" \/ q.order = "refused")
  PROVE  PaidInv'
<1>1. PICK row \in Row :
         /\ rows' = [rows EXCEPT ![Id(r)] = row]
         /\ row = [rows[Id(r)] EXCEPT !.state = s, !.stage = None, !.owner = None, !.expired = FALSE]
  <2>1. \E row \in Row :
            /\ Finished(r, s) = [rows EXCEPT ![Id(r)] = row]
            /\ row = [rows[Id(r)] EXCEPT !.state = s, !.stage = None, !.owner = None, !.expired = FALSE]
    BY FinishedRow
  <2> QED
    BY <2>1
<1>2. /\ row.state = s /\ row.stage = None /\ row.owner = None /\ row.result = rows[Id(r)].result
      /\ row.header = rows[Id(r)].header /\ row.body = rows[Id(r)].body
  BY <1>1, Working DEF Row
<1>3. /\ rows[Id(r)].state = "PROCESSING" /\ row # None /\ None \notin Drafted /\ None # "SETTLED"
  BY <1>1, NoneAssumption DEF Owns, Drafted, Stages
<1>4. Sound(row, Id(r), charged)
  BY <1>2, <1>3, Working DEF Sound, Drafted
<1>5. ASSUME q # None
      PROVE  Knows(q, row) /\ Stands(q, row)
  BY <1>2, <1>3, <1>5, Owning, Working DEF Knows, SameIdentity, Stands, Settling
<1>6. ~First(q, row, r)
  BY <1>2 DEF First
<1>7. FromOrder(r) /\ charged' = charged /\ orphans' = orphans /\ linked' = linked
  BY DEF external, FromOrder, PaidInv, TypeOK
<1>8. (Settling(rows[Id(r)]) => Settling(row)) \/ Unordered(Id(r), r)
  BY <1>2 DEF Settling
<1>9. ASSUME NEW d \in delivered' \ delivered
      PROVE  d \in [id : {Id(r)}, body : Bodies, result : Results] /\ DraftOf(d, row)
  <2>1. rows[Id(r)].stage = "SETTLED" /\ rows[Id(r)].result \in Results /\ requests[r].body \in Bodies
    BY <1>9, Working DEF Sound, Drafted, Row, Request
  <2>2. rows[Id(r)].body = requests[r].body
    BY Owning
  <2>3. d = [id |-> Id(r), body |-> requests[r].body, result |-> rows[Id(r)].result] /\ s = "COMPLETED"
    BY <1>9
  <2> QED
    BY <1>2, <1>3, <2>1, <2>2, <2>3 DEF DraftOf
<1>10. Lawful(r, Id(r), q, row)
  BY <1>1, <1>2, <1>3, <1>4, <1>5, <1>6, <1>7, <1>8, <1>9, Working DEF Lawful, SameIdentity
<1> QED
  BY <1>10, Working, OneStep

-----------------------------------------------------------------------------
(* The steps that write.                                                    *)

\* The request q is r at another place, and otherwise the same.
MovedTo(q, r, place) ==
  /\ requests' = [requests EXCEPT ![r] = q] /\ q.at = place
  /\ q.header = requests[r].header /\ q.body = requests[r].body /\ q.held = requests[r].held
  /\ q.result = requests[r].result /\ q.order = requests[r].order
  /\ q.recovering = requests[r].recovering

\* A request at a new place is otherwise the same.
LEMMA Moves ==
  ASSUME PaidInv, NEW r \in Live, NEW place \in Places, Goto(r, place)
  PROVE  \E q \in Request : MovedTo(q, r, place)
<1> DEFINE q == [requests[r] EXCEPT !.at = place]
<1>1. q \in Request /\ requests' = [requests EXCEPT ![r] = q]
  BY Working DEF Goto, Request
<1> QED
  BY <1>1, Working DEF MovedTo, Request

\* A failed write that was not committed.
LEMMA FailsUnwritten ==
  ASSUME PaidInv, NEW r \in Live, NEW q \in Request, requests' = [requests EXCEPT ![r] = q],
         q.header = requests[r].header, q.body = requests[r].body, q.order = requests[r].order,
         q.at \in {"failing", "in doubt", "closing"}, Coherent(q, charged),
         rows' = rows, UNCHANGED <<external, delivered>>, mishaps' \in 0 .. MaxMishaps,
         requests[r].at \notin {"found none", "verified", "settling"}
  PROVE  PaidInv'
<1>1. Coherent(q, charged') /\ Knows(q, rows[Id(r)]) /\ Stands(q, rows[Id(r)])
  BY Working DEF external, Knows, Stands
<1>2. FromOrder(r) /\ linked' = linked /\ delivered' = delivered
  BY DEF external, FromOrder, PaidInv, TypeOK
<1>3. ~First(q, rows[Id(r)], r)
  BY DEF First
<1> QED
  BY <1>1, <1>2, <1>3, GoesOn

LEMMA NoteUncertainStep ==
  ASSUME PaidInv, NEW r \in Requests, NoteUncertain(r)
  PROVE  PaidInv'
<1>1. r \in Live /\ At(r, "owner") /\ requests[r].held = "SETTLING" /\ rows[Id(r)] # None
  BY Working DEF NoteUncertain, At, Live, Knows
<1>2. CASE Owns(r)
  <2>1. requests' = [requests EXCEPT ![r] = None] /\ rows' = Advanced(r, "SETTLEMENT_UNKNOWN")
        /\ requests[r].result # None /\ mishaps' \in 0 .. MaxMishaps
    BY <1>1, <1>2, Working DEF NoteUncertain, End, Coherent, Drafted, PaidInv, TypeOK
  <2> QED
    BY <1>1, <1>2, <2>1, Advances DEF NoteUncertain, Stages
<1>3. CASE ~Owns(r)
  BY <1>1, <1>3, Ends DEF NoteUncertain, external, FromOrder, PaidInv, TypeOK
<1> QED
  BY <1>2, <1>3

LEMMA SaveGeneratedStep ==
  ASSUME PaidInv, NEW r \in Requests, SaveGenerated(r)
  PROVE  PaidInv'
<1>1. r \in Live /\ At(r, "generated") /\ rows[Id(r)] # None /\ requests[r].result # None
      /\ requests[r].held = "AUTHORIZED" /\ requests[r].order = "none"
  BY Working DEF SaveGenerated, At, Live, Knows, Coherent
<1>2. Owns(r) => ~Settling(rows[Id(r)])
  BY <1>1, Owning DEF Settling
<1>3. CASE ~Owns(r) /\ End(r) /\ UNCHANGED rows /\ UNCHANGED <<external, delivered, mishaps>>
  BY <1>1, <1>3, Ends DEF external, FromOrder, PaidInv, TypeOK
<1>4. CASE /\ Owns(r) /\ rows' = Advanced(r, "GENERATED")
           /\ requests' = [requests EXCEPT ![r].at = "owner", ![r].held = "GENERATED"]
           /\ UNCHANGED <<external, delivered, mishaps>>
  <2> DEFINE q == [requests[r] EXCEPT !.at = "owner", !.held = "GENERATED"]
  <2>1. q \in Request /\ requests' = [requests EXCEPT ![r] = q]
    BY <1>1, <1>4, Working DEF Request, Places, Stages, PaidInv, TypeOK
  <2>2. q.header = requests[r].header /\ q.body = requests[r].body /\ q.order = "none" /\ q.at = "owner"
        /\ q.held = "GENERATED" /\ q.result = requests[r].result
    BY <1>1, Working DEF Request
  <2>3. Coherent(q, charged)
    BY <1>1, <2>2, NoneAssumption DEF Coherent, Stages
  <2>4. mishaps' \in 0 .. MaxMishaps
    BY <1>4 DEF PaidInv, TypeOK
  <2> HIDE DEF q
  <2> QED
    BY <1>1, <1>2, <1>4, <2>1, <2>2, <2>3, <2>4, Advances DEF Stages
<1>5. CASE Fails(r, Advanced(r, "GENERATED"), "failing")
  <2>1. PICK q \in Request :
            /\ requests' = [requests EXCEPT ![r] = q] /\ q.at = "failing"
            /\ q.header = requests[r].header /\ q.body = requests[r].body /\ q.held = requests[r].held
            /\ q.result = requests[r].result /\ q.order = requests[r].order
    <3>1. "failing" \in Places /\ Goto(r, "failing")
      BY <1>5 DEF Places, Fails
    <3>2. r \in Live
      BY <1>1
    <3>3. \E q \in Request : MovedTo(q, r, "failing")
      BY <3>1, <3>2, Moves, Zenon
    <3> QED
      BY <3>3 DEF MovedTo
  <2>2. Coherent(q, charged)
    BY <1>1, <2>1 DEF Coherent, Drafted
  <2>3. mishaps' \in 0 .. MaxMishaps /\ UNCHANGED <<external, delivered>>
    BY <1>5, OneMore DEF Fails
  <2>4. CASE rows' = rows
    BY <1>1, <2>1, <2>2, <2>3, <2>4, FailsUnwritten DEF At
  <2>5. CASE Owns(r) /\ rows' = Advanced(r, "GENERATED")
    BY <1>1, <1>2, <2>1, <2>2, <2>3, <2>5, Advances DEF Stages
  <2> QED
    BY <1>5, <2>4, <2>5 DEF Fails
<1> QED
  BY <1>3, <1>4, <1>5 DEF SaveGenerated

LEMMA BeginSettlingStep ==
  ASSUME PaidInv, "SETTLEMENT_UNKNOWN" \notin Faulty, NEW r \in Requests, BeginSettling(r)
  PROVE  PaidInv'
<1>1. r \in Live /\ At(r, "owner") /\ rows[Id(r)] # None /\ requests[r].result # None
      /\ requests[r].held \in {"GENERATED", "SETTLEMENT_UNKNOWN"} /\ requests[r].order = "none"
  BY Working DEF BeginSettling, At, Live, Knows, Coherent, Drafted
<1>2. CASE ~Owns(r) /\ End(r) /\ UNCHANGED rows /\ UNCHANGED <<external, delivered, mishaps>>
  BY <1>1, <1>2, Ends DEF external, FromOrder, PaidInv, TypeOK
<1>3. CASE /\ Owns(r) /\ rows' = Advanced(r, "SETTLING")
           /\ requests' = [requests EXCEPT ![r].at = "settling", ![r].held = "SETTLING",
                              ![r].recovering = (requests[r].held = "SETTLEMENT_UNKNOWN"),
                              ![r].order = "sent"]
           /\ UNCHANGED <<external, delivered, mishaps>>
  <2> DEFINE again == (requests[r].held = "SETTLEMENT_UNKNOWN")
             q == [requests[r] EXCEPT !.at = "settling", !.held = "SETTLING", !.recovering = again,
                              !.order = "sent"]
  <2>2. requests' = [requests EXCEPT ![r] = q]
    BY <1>1, <1>3, Working DEF PaidInv, TypeOK
  <2>1. q \in Request
    <3>1. again \in BOOLEAN /\ "settling" \in Places /\ "SETTLING" \in Stages
      BY DEF Places, Stages
    <3>2. requests[r] \in Request
      BY <1>1, Working
    <3> HIDE DEF again
    <3> QED
      BY <3>1, <3>2 DEF Request
  <2>3. q.header = requests[r].header /\ q.body = requests[r].body /\ q.order = "sent" /\ q.at = "settling"
        /\ q.held = "SETTLING" /\ q.result = requests[r].result
        /\ (q.recovering <=> requests[r].held = "SETTLEMENT_UNKNOWN")
    BY <1>1, Working DEF Request
  <2>4. Coherent(q, charged)
    BY <1>1, <2>3 DEF Coherent
  <2>5. mishaps' \in 0 .. MaxMishaps
    BY <1>3 DEF PaidInv, TypeOK
  <2>6. ~q.recovering => ~Settling(rows[Id(r)])
    BY <1>1, <1>3, <2>3, Owning DEF Settling
  <2>7. "SETTLING" \in Stages
    BY DEF Stages
  <2> HIDE DEF q
  <2> QED
    BY <1>1, <1>3, <2>1, <2>2, <2>3, <2>4, <2>5, <2>6, <2>7, Advances
<1>4. CASE Fails(r, Advanced(r, "SETTLING"), "failing")
  <2>1. PICK q \in Request :
            /\ requests' = [requests EXCEPT ![r] = q] /\ q.at = "failing"
            /\ q.header = requests[r].header /\ q.body = requests[r].body /\ q.held = requests[r].held
            /\ q.result = requests[r].result /\ q.order = requests[r].order
    <3>1. "failing" \in Places /\ Goto(r, "failing")
      BY <1>4 DEF Places, Fails
    <3>2. r \in Live
      BY <1>1
    <3>3. \E q \in Request : MovedTo(q, r, "failing")
      BY <3>1, <3>2, Moves, Zenon
    <3> QED
      BY <3>3 DEF MovedTo
  <2>2. Coherent(q, charged)
    BY <1>1, <1>4, <2>1 DEF Coherent, Fails
  <2>3. mishaps' \in 0 .. MaxMishaps /\ UNCHANGED <<external, delivered>>
    BY <1>4, OneMore DEF Fails
  <2>4. CASE rows' = rows
    BY <1>1, <2>1, <2>2, <2>3, <2>4, FailsUnwritten DEF At
  <2>5. CASE Owns(r) /\ rows' = Advanced(r, "SETTLING")
    BY <1>1, <2>1, <2>2, <2>3, <2>5, Advances DEF Stages
  <2> QED
    BY <1>4, <2>4, <2>5 DEF Fails
<1> QED
  BY <1>2, <1>3, <1>4 DEF BeginSettling

LEMMA SaveSettledStep ==
  ASSUME PaidInv, NEW r \in Requests, SaveSettled(r)
  PROVE  PaidInv'
<1>1. r \in Live /\ At(r, "paid") /\ rows[Id(r)] # None /\ requests[r].result # None
      /\ requests[r].held = "SETTLING" /\ requests[r].order = "executed" /\ requests[r].header \in charged
  BY Working DEF SaveSettled, At, Live, Knows, Coherent, Drafted
<1>2. CASE ~Owns(r) /\ End(r) /\ UNCHANGED rows /\ UNCHANGED <<external, delivered, mishaps>>
  BY <1>1, <1>2, Ends DEF external, FromOrder, PaidInv, TypeOK
<1>3. CASE /\ Owns(r) /\ rows' = Advanced(r, "SETTLED")
           /\ requests' = [requests EXCEPT ![r].at = "owner", ![r].held = "SETTLED"]
           /\ UNCHANGED <<external, delivered, mishaps>>
  <2> DEFINE q == [requests[r] EXCEPT !.at = "owner", !.held = "SETTLED"]
  <2>1. q \in Request /\ requests' = [requests EXCEPT ![r] = q]
    <3>1. "owner" \in Places /\ "SETTLED" \in Stages /\ requests[r] \in Request /\ r \in Requests
      BY <1>1, Working DEF Places, Stages
    <3>2. q \in Request
      BY <3>1 DEF Request
    <3>3. requests' = [requests EXCEPT ![r] = q]
      BY <1>3, <3>1 DEF PaidInv, TypeOK
    <3> QED
      BY <3>2, <3>3
  <2>2. q.header = requests[r].header /\ q.body = requests[r].body /\ q.order = "executed" /\ q.at = "owner"
        /\ q.held = "SETTLED" /\ q.result = requests[r].result
    BY <1>1, Working DEF Request
  <2>3. Coherent(q, charged)
    BY <1>1, <2>2, NoneAssumption DEF Coherent, Stages
  <2>4. mishaps' \in 0 .. MaxMishaps
    BY <1>3 DEF PaidInv, TypeOK
  <2> HIDE DEF q
  <2> QED
    BY <1>1, <1>3, <2>1, <2>2, <2>3, <2>4, Advances DEF Stages
<1>4. CASE Fails(r, Advanced(r, "SETTLED"), "in doubt")
  <2>1. PICK q \in Request :
            /\ requests' = [requests EXCEPT ![r] = q] /\ q.at = "in doubt"
            /\ q.header = requests[r].header /\ q.body = requests[r].body /\ q.held = requests[r].held
            /\ q.result = requests[r].result /\ q.order = requests[r].order
    <3>1. "in doubt" \in Places /\ Goto(r, "in doubt")
      BY <1>4 DEF Places, Fails
    <3>2. r \in Live
      BY <1>1
    <3>3. \E q \in Request : MovedTo(q, r, "in doubt")
      BY <3>1, <3>2, Moves, Zenon
    <3> QED
      BY <3>3 DEF MovedTo
  <2>2. Coherent(q, charged)
    BY <1>1, <2>1 DEF Coherent
  <2>3. mishaps' \in 0 .. MaxMishaps /\ UNCHANGED <<external, delivered>>
    BY <1>4, OneMore DEF Fails
  <2>4. CASE rows' = rows
    BY <1>1, <2>1, <2>2, <2>3, <2>4, FailsUnwritten DEF At
  <2>5. CASE Owns(r) /\ rows' = Advanced(r, "SETTLED")
    BY <1>1, <2>1, <2>2, <2>3, <2>5, Advances DEF Stages
  <2> QED
    BY <1>4, <2>4, <2>5 DEF Fails
<1> QED
  BY <1>2, <1>3, <1>4 DEF SaveSettled

LEMMA SaveDeclinedStep ==
  ASSUME PaidInv, NEW r \in Requests, SaveDeclined(r)
  PROVE  PaidInv'
<1> DEFINE written == IF requests[r].recovering THEN Advanced(r, "SETTLEMENT_UNKNOWN") ELSE Finished(r, "FAILED")
<1>1. r \in Live /\ At(r, "declined") /\ rows[Id(r)] # None /\ requests[r].result # None
      /\ requests[r].held = "SETTLING" /\ requests[r].order = "refused"
  BY Working DEF SaveDeclined, At, Live, Knows, Coherent, Drafted
<1>2. ASSUME Owns(r), ~requests[r].recovering
      PROVE  Unordered(Id(r), r)
  <2>1. First(requests[r], rows[Id(r)], r)
    BY <1>1, <1>2 DEF First, Owns, At
  <2> QED
    BY <1>1, <2>1 DEF PaidInv, FirstIsAlone, Unordered
<1>3. ASSUME Owns(r), rows' = written, UNCHANGED <<external, delivered>>, mishaps' \in 0 .. MaxMishaps,
             NEW q \in Request \cup {None}, requests' = [requests EXCEPT ![r] = q],
             q # None =>
                /\ q.header = requests[r].header /\ q.body = requests[r].body /\ q.order = "refused"
                /\ q.at = "in doubt" /\ Coherent(q, charged)
      PROVE  PaidInv'
  <2>1. CASE requests[r].recovering
    BY <1>1, <1>3, <2>1, Advances DEF Stages
  <2>2. CASE ~requests[r].recovering
    <3>1. rows' = Finished(r, "FAILED") /\ Unordered(Id(r), r)
      BY <1>2, <1>3, <2>2
    <3> QED
      BY <1>1, <1>3, <3>1, Finishes DEF At
  <2> QED
    BY <2>1, <2>2
<1>4. CASE End(r) /\ UNCHANGED <<external, delivered, mishaps>> /\ rows' = IF Owns(r) THEN written ELSE rows
  <2>1. mishaps' \in 0 .. MaxMishaps
    BY <1>4 DEF PaidInv, TypeOK
  <2>2. CASE Owns(r)
    BY <1>3, <1>4, <2>1, <2>2 DEF End
  <2>3. CASE ~Owns(r)
    BY <1>1, <1>4, <2>1, <2>3, Ends DEF external, FromOrder, PaidInv, TypeOK
  <2> QED
    BY <2>2, <2>3
<1>5. CASE Fails(r, written, "in doubt")
  <2>1. PICK q \in Request :
            /\ requests' = [requests EXCEPT ![r] = q] /\ q.at = "in doubt"
            /\ q.header = requests[r].header /\ q.body = requests[r].body /\ q.held = requests[r].held
            /\ q.result = requests[r].result /\ q.order = requests[r].order
    <3>1. "in doubt" \in Places /\ Goto(r, "in doubt")
      BY <1>5 DEF Places, Fails
    <3>2. r \in Live
      BY <1>1
    <3>3. \E q \in Request : MovedTo(q, r, "in doubt")
      BY <3>1, <3>2, Moves, Zenon
    <3> QED
      BY <3>3 DEF MovedTo
  <2>2. Coherent(q, charged)
    BY <1>1, <2>1 DEF Coherent
  <2>3. mishaps' \in 0 .. MaxMishaps /\ UNCHANGED <<external, delivered>>
    BY <1>5, OneMore DEF Fails
  <2>4. CASE rows' = rows
    BY <1>1, <2>1, <2>2, <2>3, <2>4, FailsUnwritten DEF At
  <2>5. CASE Owns(r) /\ rows' = written
    BY <1>1, <1>3, <2>1, <2>2, <2>3, <2>5
  <2> QED
    BY <1>5, <2>4, <2>5 DEF Fails
<1> QED
  BY <1>4, <1>5 DEF SaveDeclined

\* A request that finds its payment completed hands the draft out.
LEMMA Answered ==
  ASSUME PaidInv, NEW r \in Requests, NEW id \in Ids, NEW b \in Bodies, r \in Live => Id(r) = id,
         End(r), rows' = rows, UNCHANGED external, mishaps' \in 0 .. MaxMishaps,
         rows[id] # None, rows[id].state = "COMPLETED", rows[id].body = b,
         delivered' = delivered \cup {[id |-> id, body |-> b, result |-> rows[id].result]}
  PROVE  PaidInv'
<1>1. rows[id] \in Row /\ Sound(rows[id], id, charged) /\ rows \in [Ids -> Row \cup {None}]
  BY DEF PaidInv, TypeOK, RowsAgree
<1>2. rows[id].result \in Results
  BY <1>1 DEF Sound, Row
<1>3. FromOrder(r) /\ charged' = charged /\ orphans' = orphans /\ linked' = linked
  BY DEF external, FromOrder, PaidInv, TypeOK
<1>4. rows' = [rows EXCEPT ![id] = rows[id]] /\ requests' = [requests EXCEPT ![r] = None]
  BY <1>1 DEF End
<1>5. \A d \in delivered' \ delivered :
          d \in [id : {id}, body : Bodies, result : Results] /\ DraftOf(d, rows[id])
  BY <1>2 DEF DraftOf
<1>6. Lawful(r, id, None, rows[id])
  BY <1>1, <1>3, <1>4, <1>5 DEF Lawful, SameIdentity
<1> QED
  BY <1>6, OneStep

LEMMA CompleteStep ==
  ASSUME PaidInv, NEW r \in Requests, Complete(r)
  PROVE  PaidInv'
<1>1. r \in Live /\ At(r, "owner") /\ rows[Id(r)] # None /\ requests[r].held = "SETTLED"
      /\ SameIdentity(rows[Id(r)], requests[r].header, requests[r].body)
  BY Working DEF Complete, At, Live, Knows
<1>2. Owns(r) => rows[Id(r)].stage = "SETTLED"
  BY <1>1, Owning
<1>3. CASE /\ rows' = IF Owns(r) THEN Finished(r, "COMPLETED") ELSE rows
           /\ delivered' = IF rows'[Id(r)].state = "COMPLETED"
                           THEN delivered \cup {[id |-> Id(r), body |-> requests[r].body,
                                                 result |-> rows'[Id(r)].result]}
                           ELSE delivered
           /\ End(r)
           /\ UNCHANGED <<external, mishaps>>
  <2>1. mishaps' \in 0 .. MaxMishaps /\ UNCHANGED external /\ requests' = [requests EXCEPT ![r] = None]
    BY <1>3 DEF PaidInv, TypeOK, End
  <2>2. CASE Owns(r)
    <3>1. rows'[Id(r)].result = rows[Id(r)].result
      <4>1. PICK row \in Row :
               /\ Finished(r, "COMPLETED") = [rows EXCEPT ![Id(r)] = row]
               /\ row = [rows[Id(r)] EXCEPT !.state = "COMPLETED", !.stage = None, !.owner = None,
                                            !.expired = FALSE]
        BY <1>1, FinishedRow
      <4> QED
        BY <1>1, <1>3, <2>2, <4>1, Working DEF PaidInv, TypeOK, Row
    <3>2. \A d \in delivered' \ delivered :
             d = [id |-> Id(r), body |-> requests[r].body, result |-> rows[Id(r)].result]
      BY <1>3, <3>1
    <3>3. delivered \subseteq delivered'
      BY <1>3
    <3> QED
      BY <1>1, <1>2, <1>3, <2>1, <2>2, <3>2, <3>3, Finishes
  <2>3. CASE ~Owns(r) /\ rows[Id(r)].state = "COMPLETED"
    BY <1>1, <1>3, <2>1, <2>3, Answered, Working DEF SameIdentity, Request
  <2>4. CASE ~Owns(r) /\ rows[Id(r)].state # "COMPLETED"
    BY <1>1, <1>3, <2>1, <2>4, Ends DEF external, FromOrder, PaidInv, TypeOK
  <2> QED
    BY <2>2, <2>3, <2>4
<1>4. CASE Fails(r, Finished(r, "COMPLETED"), "closing")
  <2>1. PICK q \in Request :
            /\ requests' = [requests EXCEPT ![r] = q] /\ q.at = "closing"
            /\ q.header = requests[r].header /\ q.body = requests[r].body /\ q.held = requests[r].held
            /\ q.result = requests[r].result /\ q.order = requests[r].order
    <3>1. "closing" \in Places /\ Goto(r, "closing")
      BY <1>4 DEF Places, Fails
    <3>2. r \in Live
      BY <1>1
    <3>3. \E q \in Request : MovedTo(q, r, "closing")
      BY <3>1, <3>2, Moves, Zenon
    <3> QED
      BY <3>3 DEF MovedTo
  <2>2. Coherent(q, charged)
    BY <1>1, <2>1, Working DEF Coherent
  <2>3. mishaps' \in 0 .. MaxMishaps /\ UNCHANGED <<external, delivered>>
    BY <1>4, OneMore DEF Fails
  <2>4. CASE rows' = rows
    BY <1>1, <2>1, <2>2, <2>3, <2>4, FailsUnwritten DEF At
  <2>5. CASE Owns(r) /\ rows' = Finished(r, "COMPLETED")
    BY <1>1, <1>2, <2>1, <2>2, <2>3, <2>5, Finishes
  <2> QED
    BY <1>4, <2>4, <2>5 DEF Fails
<1> QED
  BY <1>1, <1>3, <1>4 DEF Complete

LEMMA HandleErrorStep ==
  ASSUME PaidInv, NEW r \in Requests, HandleError(r)
  PROVE  PaidInv'
<1>1. r \in Live /\ requests[r].at \in {"closing", "in doubt", "failing"} /\ rows[Id(r)] # None
      /\ requests' = [requests EXCEPT ![r] = None] /\ UNCHANGED <<external, delivered>>
      /\ mishaps' \in 0 .. MaxMishaps
  BY Working DEF HandleError, Catch, End, At, Live, Knows, PaidInv, TypeOK
<1>2. CASE ~Owns(r)
  BY <1>1, <1>2, Ends DEF HandleError, Catch, external, FromOrder, PaidInv, TypeOK
<1>3. CASE Owns(r) /\ requests[r].at = "closing"
  <2>1. rows' = Finished(r, "COMPLETED") /\ rows[Id(r)].stage = "SETTLED"
    BY <1>1, <1>3, Working, Owning DEF HandleError, Catch, At, Coherent, Live
  <2> QED
    BY <1>1, <1>3, <2>1, Finishes
<1>4. CASE Owns(r) /\ requests[r].at = "in doubt"
  <2>1. rows' = Advanced(r, "SETTLEMENT_UNKNOWN") /\ requests[r].result # None
    BY <1>1, <1>4, Working DEF HandleError, Catch, At, Coherent, Drafted, Live
  <2> QED
    BY <1>1, <1>4, <2>1, Advances DEF Stages
<1>5. CASE Owns(r) /\ requests[r].at = "failing"
  <2>1. rows' = Finished(r, "FAILED") /\ rows[Id(r)].stage \in {"AUTHORIZED", "GENERATED"}
        /\ rows[Id(r)].state = "PROCESSING"
    BY <1>1, <1>5, Working, Owning DEF HandleError, Catch, At, Coherent, Live
  <2>2. Unordered(Id(r), r)
    BY <1>1, <2>1, NotYet, Working DEF Unordered, Settling
  <2> QED
    BY <1>1, <1>5, <2>1, <2>2, Finishes
<1> QED
  BY <1>1, <1>2, <1>3, <1>4, <1>5

-----------------------------------------------------------------------------
(* The steps up to the lease, and those of others.                          *)

LEMMA Consulted ==
  ASSUME PaidInv, NEW r \in Requests, NEW h \in Headers, NEW b \in Bodies, rows[IdOf[h]] # None,
         r \in Live => requests[r].header = h, NEW ask \in Request \cup {None},
         ask # None => ask.header = h /\ ask.body = b /\ ask.at = "known" /\ ask.held = None /\ ask.order = "none",
         Consult(r, h, b, ask), rows' = rows, UNCHANGED <<external, mishaps>>
  PROVE  PaidInv'
<1>1. IdOf[h] \in Ids /\ (r \in Live => Id(r) = IdOf[h]) /\ mishaps' \in 0 .. MaxMishaps /\ UNCHANGED external
  BY HeadersAssumption DEF Id, PaidInv, TypeOK
<1> DEFINE id == IdOf[h]
           row == rows[id]
<1>2. row \in Row /\ Sound(row, id, charged) /\ rows' = [rows EXCEPT ![id] = row]
  BY <1>1 DEF PaidInv, TypeOK, RowsAgree
<1>3. CASE SameIdentity(row, h, b) /\ row.state = "COMPLETED"
  <2>1. End(r) /\ delivered' = delivered \cup {[id |-> id, body |-> b, result |-> row.result]}
    BY <1>3 DEF Consult, End
  <2> QED
    BY <1>1, <1>2, <1>3, <2>1, Answered DEF SameIdentity
<1>4. CASE ~(SameIdentity(row, h, b) /\ row.state = "COMPLETED")
  <2>1. delivered' = delivered
    BY <1>4 DEF Consult
  <2>2. PICK q \in Request \cup {None} :
           /\ requests' = [requests EXCEPT ![r] = q]
           /\ q # None => q = ask /\ SameIdentity(row, h, b)
    BY DEF Consult
  <2>3. FromOrder(r) /\ charged' = charged /\ orphans' = orphans /\ linked' = linked
    BY <1>1 DEF external, FromOrder, PaidInv, TypeOK
  <2>4. ASSUME q # None
        PROVE  IdOf[q.header] = id /\ Coherent(q, charged') /\ Knows(q, row) /\ Stands(q, row)
               /\ q.order = "none" /\ ~First(q, row, r)
    BY <1>2, <2>2, <2>4, NoneAssumption DEF Coherent, Knows, Stands, First, Drafted, Stages
  <2>5. Lawful(r, id, q, row)
    BY <1>1, <1>2, <2>1, <2>2, <2>3, <2>4 DEF Lawful, SameIdentity
  <2> QED
    BY <1>1, <2>5, OneStep
<1> QED
  BY <1>3, <1>4

LEMMA ArriveStep ==
  ASSUME PaidInv, NEW r \in Requests, NEW h \in Headers, NEW b \in Bodies, Arrive(r, h, b)
  PROVE  PaidInv'
<1> DEFINE ask(place) == [at |-> place, header |-> h, body |-> b, held |-> None, result |-> None,
                          recovering |-> FALSE, order |-> "none"]
<1>1. r \notin Live /\ IdOf[h] \in Ids /\ UNCHANGED <<rows, external, mishaps>>
  BY HeadersAssumption DEF Arrive, Live
<1>2. ask("found none") \in Request /\ ask("known") \in Request
  BY DEF Request, Places
<1>3. CASE rows[IdOf[h]] # None
  <2>1. Consult(r, h, b, ask("known"))
    BY <1>3 DEF Arrive
  <2> QED
    BY <1>1, <1>2, <1>3, <2>1, Consulted
<1>4. CASE rows[IdOf[h]] = None
  <2> DEFINE q == ask("found none")
             id == IdOf[h]
  <2>1. requests' = [requests EXCEPT ![r] = q] /\ delivered' = delivered
    BY <1>4 DEF Arrive
  <2>2. FromOrder(r) /\ charged' = charged /\ orphans' = orphans /\ linked' = linked /\ mishaps' \in 0 .. MaxMishaps
    BY <1>1 DEF external, FromOrder, PaidInv, TypeOK
  <2>3. rows' = [rows EXCEPT ![id] = None]
    BY <1>1, <1>4 DEF PaidInv, TypeOK
  <2>4. IdOf[q.header] = id /\ Coherent(q, charged') /\ Knows(q, None) /\ Stands(q, None)
        /\ q.order = "none" /\ ~First(q, None, r)
    BY NoneAssumption DEF Coherent, Knows, Stands, First, Drafted, Stages
  <2>5. Lawful(r, id, q, None)
    BY <1>1, <1>2, <1>4, <2>1, <2>2, <2>3, <2>4 DEF Lawful
  <2> QED
    BY <1>1, <2>5, OneStep
<1> QED
  BY <1>3, <1>4

LEMMA ReserveStep ==
  ASSUME PaidInv, NEW r \in Requests, Reserve(r)
  PROVE  PaidInv'
<1> DEFINE h == requests[r].header
           b == requests[r].body
           q == [requests[r] EXCEPT !.at = "known"]
           id == IdOf[h]
<1>1. r \in Live /\ requests[r] \in Request /\ id \in Ids /\ Id(r) = id /\ h \in Headers /\ b \in Bodies
      /\ requests[r].held = None /\ requests[r].order = "none" /\ UNCHANGED <<external, mishaps>>
  BY HeadersAssumption, Working DEF Reserve, At, Live, Coherent, Request, Id
<1>2. q \in Request /\ q.header = h /\ q.body = b /\ q.at = "known" /\ q.held = None /\ q.order = "none"
  BY <1>1 DEF Request, Places
<1>3. CASE rows[id] # None
  <2>1. Consult(r, h, b, q) /\ rows' = rows
    BY <1>3 DEF Reserve
  <2> QED
    BY <1>1, <1>2, <1>3, <2>1, Consulted
<1>4. CASE rows[id] = None
  <2> DEFINE row == [state |-> "PROCESSING", header |-> h, body |-> b, stage |-> "AUTHORIZED",
                     owner |-> None, expired |-> FALSE, result |-> None]
  <2>1. row \in Row /\ rows' = [rows EXCEPT ![id] = row] /\ delivered' = delivered
    BY <1>1, <1>4 DEF Reserve, Row, Stages
  <2>2. requests' = [requests EXCEPT ![r] = q]
    BY <1>1, <1>4 DEF Reserve, Goto
  <2>3. FromOrder(r) /\ charged' = charged /\ orphans' = orphans /\ linked' = linked /\ mishaps' \in 0 .. MaxMishaps
    BY <1>1 DEF external, FromOrder, PaidInv, TypeOK
  <2>4. Sound(row, id, charged) /\ row # None /\ row.owner = None
    BY <2>1, NoneAssumption DEF Sound, Drafted, Stages
  <2>5. IdOf[q.header] = id /\ Coherent(q, charged') /\ Knows(q, row) /\ Stands(q, row) /\ ~First(q, row, r)
    BY <1>2, <2>4, NoneAssumption DEF Coherent, Knows, Stands, First, Drafted, Stages, SameIdentity
  <2>6. Lawful(r, id, q, row)
    BY <1>1, <1>2, <1>4, <2>1, <2>2, <2>3, <2>4, <2>5 DEF Lawful
  <2> QED
    BY <1>1, <2>6, OneStep
<1> QED
  BY <1>3, <1>4

LEMMA AcquireStep ==
  ASSUME PaidInv, NEW r \in Requests, Acquire(r)
  PROVE  PaidInv'
<1> DEFINE h == requests[r].header
           b == requests[r].body
           id == IdOf[h]
           old == rows[id]
           free == old.state = "PROCESSING" /\ SameIdentity(old, h, b) /\ MayBeOwned(old)
<1>1. r \in Live /\ requests[r] \in Request /\ id \in Ids /\ Id(r) = id /\ h \in Headers /\ b \in Bodies
      /\ requests[r].order = "none" /\ UNCHANGED <<external, mishaps>> /\ old # None
      /\ old \in Row /\ Sound(old, id, charged)
  BY HeadersAssumption, Working DEF Acquire, At, Live, Coherent, Request, Id, Knows
<1>2. CASE ~free
  BY <1>1, <1>2, Consulted DEF Acquire
<1>3. CASE free
  <2> DEFINE row == [old EXCEPT !.owner = r, !.expired = FALSE]
             q == [requests[r] EXCEPT !.at = "owner", !.held = old.stage, !.result = old.result]
  <2>1. rows' = [rows EXCEPT ![id] = row] /\ requests' = [requests EXCEPT ![r] = q] /\ delivered' = delivered
    BY <1>1, <1>3 DEF Acquire, PaidInv, TypeOK
  <2>2. /\ row \in Row /\ row.state = old.state /\ row.header = old.header /\ row.body = old.body
        /\ row.stage = old.stage /\ row.result = old.result /\ row.owner = r
    BY <1>1 DEF Row
  <2>3. /\ q \in Request /\ q.header = h /\ q.body = b /\ q.at = "owner" /\ q.held = old.stage
        /\ q.result = old.result /\ q.order = "none"
    BY <1>1 DEF Request, Row, Places
  <2>4. FromOrder(r) /\ charged' = charged /\ orphans' = orphans /\ linked' = linked /\ mishaps' \in 0 .. MaxMishaps
    BY <1>1 DEF external, FromOrder, PaidInv, TypeOK
  <2>5. Sound(row, id, charged) /\ row # None /\ Settling(old) => Settling(row)
    BY <1>1, <2>2, NoneAssumption DEF Sound, Settling
  <2>6. IdOf[q.header] = id /\ Coherent(q, charged') /\ Knows(q, row) /\ Stands(q, row) /\ ~First(q, row, r)
    BY <1>1, <1>3, <2>2, <2>3, NoneAssumption DEF Coherent, Knows, Stands, First, SameIdentity, Sound
  <2> HIDE DEF row, q
  <2>7. Lawful(r, id, q, row)
    BY <1>1, <1>3, <2>1, <2>2, <2>3, <2>4, <2>5, <2>6, NoneAssumption DEF Lawful, SameIdentity, Sound, Settling
  <2> QED
    BY <1>1, <2>7, OneStep
<1> QED
  BY <1>2, <1>3

\* A lease that runs out leaves everything else of its row.
LEMMA LeaseRunsOutStep ==
  ASSUME PaidInv, NEW id \in Ids, LeaseRunsOut(id)
  PROVE  PaidInv'
<1>1. /\ rows[id] \in Row /\ rows[id] # None /\ mishaps' \in 0 .. MaxMishaps
      /\ rows' = [rows EXCEPT ![id] = [rows[id] EXCEPT !.expired = TRUE]]
      /\ UNCHANGED <<requests, orphans, charged, linked, delivered>>
  BY OneMore DEF LeaseRunsOut, external, PaidInv, TypeOK
<1> DEFINE row == [rows[id] EXCEPT !.expired = TRUE]
<1>2. /\ row \in Row /\ row # None /\ row.state = rows[id].state /\ row.header = rows[id].header
      /\ row.body = rows[id].body /\ row.stage = rows[id].stage /\ row.result = rows[id].result
      /\ row.owner = rows[id].owner
  BY <1>1, NoneAssumption DEF Row
<1> HIDE DEF row
<1>3. \A i \in Ids :
         /\ rows'[i] # None <=> rows[i] # None
         /\ rows[i] # None =>
               /\ rows'[i].state = rows[i].state /\ rows'[i].header = rows[i].header
               /\ rows'[i].body = rows[i].body /\ rows'[i].stage = rows[i].stage
               /\ rows'[i].result = rows[i].result /\ rows'[i].owner = rows[i].owner
  BY <1>1, <1>2 DEF row, PaidInv, TypeOK
<1>4. TypeOK'
  BY <1>1, <1>2 DEF row, PaidInv, TypeOK
<1>5. Live' = Live /\ \A r \in Live : Id(r)' = Id(r) /\ requests'[r] = requests[r]
  BY <1>1 DEF Live, Id
<1>6. RowsAgree'
  BY <1>1, <1>3 DEF PaidInv, RowsAgree, Sound
<1>7. RequestsAgree'
  <2>1. ASSUME NEW r \in Live
        PROVE  Coherent(requests[r], charged') /\ Knows(requests[r], rows'[Id(r)])
    BY <1>1, <1>3, Working DEF Knows, SameIdentity
  <2> QED
    BY <1>5, <2>1 DEF RequestsAgree
<1>8. OrdersHeld'
  <2>1. \A h \in charged \cup orphans : IdOf[h] \in Ids
    BY HeadersAssumption DEF PaidInv, TypeOK
  <2>2. \A h \in charged \cup orphans :
           LET new == rows'[IdOf[h]]
           IN  new # None /\ new.header = h /\ new.result # None /\ Settling(new)
    BY <1>3, <2>1 DEF PaidInv, OrdersHeld, Settling
  <2>3. ASSUME NEW r \in Live
        PROVE  Stands(requests[r], rows'[Id(r)])
    <3>1. requests[r].order # "none" => rows[Id(r)] # None
      BY Working DEF Coherent, Knows
    <3> QED
      BY <1>3, <3>1, Working DEF Stands, Settling
  <2> QED
    BY <1>1, <1>5, <2>2, <2>3 DEF OrdersHeld
<1>9. FirstIsAlone'
  <2>1. ASSUME NEW r \in Live, First(requests[r], rows'[Id(r)], r)
        PROVE  First(requests[r], rows[Id(r)], r)
    <3>1. rows[Id(r)] # None
      BY <2>1, Working DEF First, Knows
    <3> QED
      BY <1>3, <2>1, <3>1, Working DEF First
  <2> QED
    BY <1>1, <1>5, <2>1 DEF PaidInv, FirstIsAlone
<1>10. AnswersFinal'
  <2>1. \A d \in delivered : d.id \in Ids /\ DraftOf(d, rows'[d.id])
    BY <1>3 DEF PaidInv, TypeOK, AnswersFinal, DraftOf
  <2>2. \A c \in Campaigns : linked[c] # None => linked[c] \in Ids /\ Verified(linked[c])'
    BY <1>1, <1>3 DEF PaidInv, TypeOK, AnswersFinal, Verified
  <2> QED
    BY <1>1, <2>1, <2>2 DEF PaidInv, AnswersFinal
<1> QED
  BY <1>4, <1>6, <1>7, <1>8, <1>9, <1>10 DEF PaidInv

LEMMA SettleOrphanStep ==
  ASSUME PaidInv, NEW h \in Headers, SettleOrphan(h)
  PROVE  PaidInv'
<1>1. /\ h \in orphans /\ orphans' = orphans \ {h} /\ charged' \in {charged, charged \cup {h}}
      /\ UNCHANGED <<rows, requests, delivered, linked, mishaps>>
  BY DEF SettleOrphan
<1>2. TypeOK'
  BY <1>1 DEF PaidInv, TypeOK
<1>3. Live' = Live /\ \A r \in Live : Id(r)' = Id(r)
  BY <1>1 DEF Live, Id
<1>4. RowsAgree'
  BY <1>1 DEF PaidInv, RowsAgree, Sound
<1>5. RequestsAgree'
  BY <1>1, <1>3 DEF PaidInv, RequestsAgree, Coherent
<1>6. OrdersHeld'
  BY <1>1, <1>3 DEF PaidInv, OrdersHeld
<1>7. FirstIsAlone'
  BY <1>1, <1>3 DEF PaidInv, FirstIsAlone
<1>8. AnswersFinal'
  BY <1>1 DEF PaidInv, AnswersFinal, Verified
<1> QED
  BY <1>2, <1>4, <1>5, <1>6, <1>7, <1>8 DEF PaidInv

LEMMA LinkReceiptStep ==
  ASSUME PaidInv, NEW c \in Campaigns, NEW id \in Ids, LinkReceipt(c, id)
  PROVE  PaidInv'
<1>1. /\ linked' = [linked EXCEPT ![c] = id] /\ Verified(id) /\ \A d \in Campaigns : linked[d] # id
      /\ UNCHANGED <<rows, requests, orphans, charged, delivered, mishaps>>
  BY DEF LinkReceipt
<1>2. TypeOK'
  BY <1>1 DEF PaidInv, TypeOK
<1>3. RowsAgree' /\ RequestsAgree' /\ OrdersHeld' /\ FirstIsAlone'
  BY <1>1 DEF PaidInv, RowsAgree, RequestsAgree, OrdersHeld, FirstIsAlone, Live, Id
<1>4. AnswersFinal'
  BY <1>1 DEF PaidInv, TypeOK, AnswersFinal, Verified
<1> QED
  BY <1>2, <1>3, <1>4 DEF PaidInv

-----------------------------------------------------------------------------
(* The theorems.                                                            *)

LEMMA PaidInit == Init => PaidInv
<1>1. Init => TypeOK
  BY HeadersAssumption DEF Init, TypeOK
<1>2. Init => RowsAgree /\ RequestsAgree /\ OrdersHeld /\ FirstIsAlone /\ AnswersFinal
  BY DEF Init, RowsAgree, RequestsAgree, OrdersHeld, FirstIsAlone, AnswersFinal, Live
<1> QED
  BY <1>1, <1>2 DEF PaidInv

LEMMA PaidNext ==
  ASSUME PaidInv, "SETTLEMENT_UNKNOWN" \notin Faulty, [Next]_vars
  PROVE  PaidInv'
<1>1. CASE UNCHANGED vars
  BY <1>1 DEF vars, PaidInv, TypeOK, RowsAgree, RequestsAgree, OrdersHeld, FirstIsAlone, AnswersFinal,
     Live, Id, Verified
<1>2. ASSUME NEW r \in Requests, Step(r)
      PROVE  PaidInv'
  BY <1>2, VerifyStep, ReserveStep, AcquireStep, NoteUncertainStep, GenerateStep, SaveGeneratedStep,
     BeginSettlingStep, SettleStep, ReceiveAnswerStep, SaveSettledStep, SaveDeclinedStep, CompleteStep,
     HandleErrorStep DEF Step
<1> QED
  BY <1>1, <1>2, ArriveStep, LoseAnswerStep, DieStep, LeaseRunsOutStep, SettleOrphanStep, LinkReceiptStep
     DEF Next

\* An order that is open, or executed, stands in its row.
LEMMA PaidInvSafe ==
  ASSUME PaidInv
  PROVE  PaidSafe
<1>1. ChargedOnce
  BY DEF PaidInv, OrdersHeld, ChargedOnce
<1>2. ASSUME NEW r \in Requests, At(r, "settling")
      PROVE  LET row == rows[IdOf[requests[r].header]]
             IN  row # None /\ row.result # None /\ Settling(row)
  <2>1. r \in Live
    BY <1>2 DEF At, Live
  <2>2. Settling(rows[Id(r)]) /\ rows[Id(r)] # None
    BY <1>2, <2>1, Working DEF At, Coherent, Stands, Knows
  <2>3. rows[Id(r)].result # None
    BY <2>1, <2>2, Working DEF Sound, Settling, Drafted
  <2> QED
    BY <2>2, <2>3 DEF Id
<1>3. OrderedIsHeld
  BY <1>2 DEF PaidInv, OrdersHeld, OrderedIsHeld, Settling
<1> QED
  BY <1>1, <1>3 DEF PaidSafe, PaidInv

\* A draft that is handed out or linked is that of a completed row, which is paid for.
LEMMA PaidInvAnswer ==
  ASSUME PaidInv
  PROVE  OneAnswer
<1>1. ASSUME NEW id \in Ids, rows[id] # None, rows[id].state = "COMPLETED"
      PROVE  rows[id].header \in charged /\ IdOf[rows[id].header] = id
  BY <1>1 DEF PaidInv, RowsAgree, Sound
<1>2. ASSUME NEW d \in delivered
      PROVE  rows[d.id].header \in charged /\ rows[d.id].body = d.body /\ rows[d.id].result = d.result
  BY <1>1, <1>2 DEF PaidInv, TypeOK, AnswersFinal, DraftOf
<1>3. ASSUME NEW c \in Campaigns, linked[c] # None
      PROVE  /\ \E h \in charged : IdOf[h] = linked[c]
             /\ \A d \in Campaigns \ {c} : linked[d] # linked[c]
  <2>1. linked[c] \in Ids /\ Verified(linked[c])
    BY <1>3 DEF PaidInv, TypeOK, AnswersFinal
  <2> QED
    BY <1>1, <1>3, <2>1 DEF PaidInv, AnswersFinal, Verified
<1> QED
  BY <1>2, <1>3 DEF OneAnswer

\* The inductive invariant holds as long as no write fails while an uncertain settlement
\* is being taken up again; what happens then is told in the README.
THEOREM PaidInvariant == "SETTLEMENT_UNKNOWN" \notin Faulty /\ Spec => []PaidInv
<1> SUFFICES ASSUME "SETTLEMENT_UNKNOWN" \notin Faulty
             PROVE  Spec => []PaidInv
  OBVIOUS
<1>1. PaidInv /\ [Next]_vars => PaidInv'
  BY PaidNext
<1> QED
  BY PaidInit, <1>1, PTL DEF Spec

\* One payment identifier is charged for one authorization, and what was ordered is
\* held by its record (src/server/v2/x402-ai.ts, runPaidAiGeneration).
THEOREM PaymentsSafe == "SETTLEMENT_UNKNOWN" \notin Faulty /\ Spec => []PaidSafe
<1>1. PaidInv => PaidSafe
  BY PaidInvSafe
<1> QED
  BY <1>1, PaidInvariant, PTL

\* A draft is handed out, or linked to a campaign, once its payment is settled, and every
\* answer of a payment is the same draft (verifyAiGenerationReceipt).
THEOREM AnswersPaid == "SETTLEMENT_UNKNOWN" \notin Faulty /\ Spec => []OneAnswer
<1>1. PaidInv => OneAnswer
  BY PaidInvAnswer
<1> QED
  BY <1>1, PaidInvariant, PTL
=============================================================================
