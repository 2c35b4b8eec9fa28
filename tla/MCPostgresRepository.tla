------------------------- MODULE MCPostgresRepository -------------------------
(***************************************************************************)
(* Instances of PostgresRepository for TLC: two callers at a time, in         *)
(* situations that use different tables, so that each is small.              *)
(***************************************************************************)
EXTENDS PostgresRepository, TLC

CONSTANTS x1, x2, x3, s, t, ann, ben, k1, k2, cl1, cl2, r, p, q, h1, h2, j1, j2, e, w1, w2

Empty == [campaigns |-> [i \in Campaigns |-> None], fundingOrders |-> [k \in OrderKeys |-> None],
          claims |-> [k \in ClaimKeys |-> None], idempotency |-> [k \in RecordKeys |-> None],
          jobs |-> [k \in JobKeys |-> None]]

CampaignAt(slug, status) ==
    [slug |-> slug, creator |-> ann, payment |-> None, status |-> status, version |-> 1]

ClaimAt(payout, status) ==
    [campaign |-> x1, payout |-> payout, status |-> status, settled |-> FALSE,
     deposited |-> FALSE, version |-> 1]

RecordAt(state, authorized) ==
    [request |-> h1, state |-> state, authorized |-> authorized,
     stage |-> IF authorized THEN "AUTHORIZED" ELSE None, owner |-> None, lapsed |-> FALSE,
     version |-> 0, expired |-> FALSE]

\* Draft x1 is there, and two paid generations, one of them not completed yet.
Drafts ==
    [Empty EXCEPT !.campaigns[x1] = CampaignAt(s, "DRAFT"),
                  !.idempotency[p] = RecordAt("COMPLETED", FALSE),
                  !.idempotency[q] = RecordAt("PROCESSING", FALSE)]

DraftCalls ==
    [op : {"createCampaign"}, id : {x2}, slug : {s, t}, creator : {ann}, payment : {None, p}]
    \cup [op : {"createCampaign"}, id : {x3}, slug : {t}, creator : {ann}, payment : {p, q}]
    \cup [op : {"updateCampaignDraft"}, id : {x1}, creator : {ann}, version : {1},
          patch : {t, "text", "empty"}]
    \cup [op : {"updateCampaignDraft"}, id : {x1}, creator : {ben}, version : {1}, patch : {"text"}]
    \cup [op : {"transitionCampaign"}, id : {x1}, from : {{"DRAFT"}}, to : {"CANCELLED"},
          version : {1}]
    \cup [op : {"finishIdempotency"}, key : {q}, result : {"COMPLETED"}]

Funding == [Empty EXCEPT !.campaigns[x1] = CampaignAt(s, "DRAFT"),
                         !.campaigns[x2] = CampaignAt(t, "DRAFT")]

Move(op, key, from, to, version) ==
    [op |-> op, key |-> key, from |-> from, to |-> to, version |-> version]

FundingCalls ==
    [op : {"createFundingOrderAndFreezeCampaign"}, key : {k1, k2}, campaign : {x1},
     creator : {ann}, version : {1, 2}]
    \cup [op : {"createFundingOrderAndFreezeCampaign"}, key : {k1}, campaign : {x2},
          creator : {ann}, version : {1}]
    \cup [op : {"createFundingOrderIdempotent"}, key : {k1, k2}, campaign : {x1}]
    \cup {Move("transitionFundingOrder", k, {"AWAITING_DEPOSIT"}, "FAILED", 1) : k \in {k1, k2}}
    \cup {Move("transitionFundingOrder", k1, {"FAILED"}, "PROCESSING", 2)}
    \cup [op : {"updateCampaignDraft"}, id : {x1}, creator : {ann}, version : {1}, patch : {"text"}]
    \cup [op : {"transitionCampaign"}, id : {x1}, from : {{"DRAFT"}}, to : {"FUNDING"}, version : {1}]

\* A direct and a routed claim race for an active campaign.
Race == [Empty EXCEPT !.campaigns[x1] = CampaignAt(s, "ACTIVE"),
                      !.claims[cl1] = ClaimAt("DIRECT_NEAR", "QUOTED")]

MoveClaim(k, from, to, version, deposits) ==
    [op |-> "transitionClaim", key |-> k, from |-> from, to |-> to, version |-> version,
     settles |-> FALSE, deposits |-> deposits]

RaceCalls ==
    [op : {"createClaimIdempotent"}, key : {cl2}, campaign : {x1}, payout : {"ONE_CLICK"}]
    \cup [op : {"submitClaimAtomically"}, key : {cl1, cl2}, version : {1}, campaignVersion : {1, 3}]
    \cup {MoveClaim(cl1, {"SUBMITTED"}, "FAILED", 2, FALSE)}
    \cup {MoveClaim(cl2, {"SUBMITTED"}, "PAYING", 2, FALSE)}
    \cup {MoveClaim(cl1, {"FAILED"}, "PAYING", 3, FALSE)}
    \cup [op : {"transitionCampaign"}, id : {x1}, from : {{"CLAIMING"}}, to : {"ACTIVE"}, version : {2}]
    \cup [op : {"finalizeOneClickPayoutAtomically"}, key : {cl2}, campaign : {x1}, target : {"PAID"},
          settles : {TRUE}, deposits : {FALSE}]
    \cup [op : {"getLiveLiabilities"}]

\* The routed claim has won and is paid.
Payout == [Empty EXCEPT !.campaigns[x1] = CampaignAt(s, "CLAIMING"),
                        !.claims[cl1] = ClaimAt("ONE_CLICK", "SUBMITTED"),
                        !.claims[cl2] = ClaimAt("ONE_CLICK", "QUOTED")]

PayoutCalls ==
    {MoveClaim(cl1, {"SUBMITTED"}, "PAYING", 1, TRUE)}
    \cup {MoveClaim(cl1, {"PAYING"}, "FAILED", 2, FALSE)}
    \cup {MoveClaim(cl1, {"SUBMITTED", "PAYING"}, "FAILED", v, FALSE) : v \in {1, 2}}
    \cup {MoveClaim(cl2, {"QUOTED"}, "PAYING", 1, FALSE)}
    \cup [op : {"createClaimIdempotent"}, key : {cl2}, campaign : {x1}, payout : {"ONE_CLICK"}]
    \cup [op : {"transitionCampaign"}, id : {x1}, from : {{"CLAIMING"}}, to : {"REFUNDING"}, version : {1}]
    \cup [op : {"finalizeOneClickPayoutAtomically"}, key : {cl1}, campaign : {x1},
          target : {"PAID", "RECOVERED"}, settles : BOOLEAN, deposits : {FALSE}]
    \cup [op : {"getLiveLiabilities"}]

ReservationCalls ==
    [op : {"reserveIdempotency"}, key : {r}, request : {h1}, processing : BOOLEAN]
    \cup [op : {"reserveIdempotency"}, key : {r}, request : {h2}, processing : {FALSE}]
    \cup [op : {"reserveIdempotency"}, key : {p}, request : {h1}, processing : {FALSE}]
    \cup [op : {"getIdempotency"}, key : {r}]
    \cup [op : {"finishIdempotency"}, key : {r}, result : {"COMPLETED"}]

Processing == [Empty EXCEPT !.idempotency[p] = RecordAt("PROCESSING", TRUE)]

\* The steps of a paid generation at the versions they have, with a takeover of the
\* lease, and one step that skips the settlement.
Steps == {<<1, "AUTHORIZED", "GENERATED">>, <<2, "AUTHORIZED", "GENERATED">>,
          <<2, "GENERATED", "SETTLING">>, <<3, "GENERATED", "SETTLING">>,
          <<2, "GENERATED", "SETTLED">>, <<3, "SETTLING", "SETTLED">>,
          <<3, "SETTLING", "SETTLEMENT_UNKNOWN">>, <<5, "SETTLEMENT_UNKNOWN", "SETTLING">>}

ProcessingCalls ==
    [op : {"acquireIdempotencyProcessingLease"}, key : {p}, request : {h1}, actor : {w1, w2}]
    \cup [op : {"acquireIdempotencyProcessingLease"}, key : {p}, request : {h2}, actor : {w1}]
    \cup {[op |-> "advanceIdempotencyProcessing", key |-> p, request |-> h1, actor |-> w,
           version |-> step[1], stage |-> step[2], to |-> step[3],
           renews |-> step[3] # "SETTLEMENT_UNKNOWN"] : w \in {w1}, step \in Steps}
    \cup [op : {"advanceIdempotencyProcessing"}, key : {p}, request : {h1, h2}, actor : {w2},
          version : {2, 3}, stage : {"AUTHORIZED"}, to : {"GENERATED"}, renews : {TRUE}]
    \cup {[op |-> "advanceIdempotencyProcessing", key |-> p, request |-> h1, actor |-> w1,
           version |-> 1, stage |-> "AUTHORIZED", to |-> to, renews |-> TRUE] :
              to \in {"SETTLED", "SETTLEMENT_UNKNOWN"}}
    \cup [op : {"finishOwnedIdempotency"}, key : {p}, actor : {w1}, version : 1 .. MaxVersion,
          stage : {"GENERATED"}, result : {"COMPLETED"}]
    \cup [op : {"finishIdempotency"}, key : {p}, result : {"FAILED"}]

JobCalls ==
    [op : {"enqueueJob"}, key : {j1}, reactivateDead : {TRUE}]
    \cup [op : {"enqueueJob"}, key : {j2}, reactivateDead : {FALSE}]
    \cup [op : {"leaseJobs"}, actor : {w1}, limit : {1}]
    \cup [op : {"leaseJobs"}, actor : {w2}, limit : {2}]
    \cup [op : {"endJob"}, key : {j1}, actor : {w1}, how : {"complete", "reschedule", "fail"}]
    \cup [op : {"endJob"}, key : {j1}, actor : {w2}, how : {"fail"}]

EventCalls == [op : {"appendEvent"}, key : {e, None}, actor : {w1, w2}]

\* Campaigns are listed while others change them.
Shelf == [Empty EXCEPT !.campaigns[x1] = CampaignAt(s, "DRAFT"),
                       !.campaigns[x2] = [CampaignAt(t, "ACTIVE") EXCEPT !.creator = ben]]

ShelfCalls ==
    [op : {"getCampaign"}, name : {x1, x3, t}]
    \cup [op : {"listCampaigns"}, statuses : {{"DRAFT"}}, creator : {None}, limit : {1, 2}]
    \cup [op : {"listCampaigns"}, statuses : {{"DRAFT", "ACTIVE"}}, creator : {ann}, limit : {2}]
    \cup [op : {"transitionCampaign"}, id : {x1}, from : {{"DRAFT"}}, to : {"CANCELLED"},
          version : {1}]
    \cup [op : {"transitionCampaign"}, id : {x2}, from : {{"ACTIVE"}}, to : {"DRAFT"},
          version : {1}]

\* Orders, claims and events are read while others add to them.
Papers == [Empty EXCEPT !.campaigns[x1] = CampaignAt(s, "ACTIVE"),
                        !.fundingOrders[k1] = [campaign |-> x1, status |-> "FAILED", version |-> 1]]

PaperCalls ==
    [op : {"getFundingOrder"}, key : {k2}]
    \cup [op : {"getFundingOrderForCampaign"}, campaign : {x1, x2}]
    \cup [op : {"getClaim"}, key : {cl1}]
    \cup [op : {"listEvents"}]
    \cup [op : {"createFundingOrderIdempotent"}, key : {k2}, campaign : {x1}]
    \cup [op : {"createClaimIdempotent"}, key : {cl1}, campaign : {x1}, payout : {"ONE_CLICK"}]
    \cup [op : {"appendEvent"}, key : {e}, actor : {w1}]

StartOf ==
    [drafts |-> Drafts, funding |-> Funding, race |-> Race, payout |-> Payout,
     reservations |-> Empty, processing |-> Processing, jobs |-> Empty, events |-> Empty,
     shelf |-> Shelf, papers |-> Papers]

AskedIn ==
    [drafts |-> DraftCalls, funding |-> FundingCalls, race |-> RaceCalls, payout |-> PayoutCalls,
     reservations |-> ReservationCalls, processing |-> ProcessingCalls, jobs |-> JobCalls,
     events |-> EventCalls, shelf |-> ShelfCalls, papers |-> PaperCalls]

Symmetry == Permutations(Callers)

CallsAsked == UNION {AskedIn[w] : w \in Workloads}
===============================================================================
