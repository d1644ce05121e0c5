---------------------------- MODULE IssueFigures ----------------------------
(***************************************************************************)
(* What the subscription poller makes of the two exchanges' answers        *)
(* (subscription.service.ts): the demand of every bucket on each exchange, *)
(* the rows for the buckets that have shares on offer with their total,    *)
(* and the stored figures that stand in for what an answer left empty.     *)
(*                                                                         *)
(* A figure is the number of shares asked for on NSE and on BSE.  The      *)
(* multiples are quotients of it, the bid counts and the combined NII row  *)
(* follow the same path, and none of them is written here.                 *)
(***************************************************************************)
EXTENDS Integers, FiniteSets, FiniteSetsExt

CONSTANTS
    Bucket,     \* the categories an exchange reports
    Offered     \* those with shares on offer: the keys of offeredFromIpo

ASSUME OfferedAssumption ==
    "retail" \in Bucket /\ Offered \subseteq Bucket /\ "total" \notin Bucket /\ IsFiniteSet(Bucket)

-----------------------------------------------------------------------------
Exchange == {"nse", "bse"}

\* An exchange's answer: the demand of the buckets it mentions, and whether
\* its rows carry a count of applications.  No rows: the query failed, or
\* there is no credential.
Answer(MaxShares) == [demand: UNION {[B -> 0 .. MaxShares] : B \in SUBSET Bucket}, apps: BOOLEAN]
NoAnswer == [demand |-> [b \in {} |-> 0], apps |-> FALSE]

Known(fig) == fig.nse > 0 \/ fig.bse > 0

Mentioned(answer) == DOMAIN answer.nse.demand \cup DOMAIN answer.bse.demand

\* bucketize: a count of applications on BSE makes a retail bucket of its own.
Buckets(answer) == Mentioned(answer) \cup (IF answer.bse.apps THEN {"retail"} ELSE {})

Demand(answer, e, b) == IF b \in DOMAIN answer[e].demand THEN answer[e].demand[b] ELSE 0

Figure(answer, b) == [nse |-> Demand(answer, "nse", b), bse |-> Demand(answer, "bse", b)]

\* The roll-up counts every bucket of the answers, on offer or not.
Total(answer) ==
    [nse |-> MapThenSumSet(LAMBDA b : Demand(answer, "nse", b), Buckets(answer)),
     bse |-> MapThenSumSet(LAMBDA b : Demand(answer, "bse", b), Buckets(answer))]

\* computeSubs: no row, and no total, without a bucket that is on offer.
ComputeSubs(answer) ==
    LET priced == Buckets(answer) \cap Offered
    IN  [c \in IF priced = {} THEN {} ELSE priced \cup {"total"} |->
            IF c = "total" THEN Total(answer) ELSE Figure(answer, c)]

\* keepKnownFigures looks at the stored rows when a row of the fresh ones is empty.
NeedsStored(fresh) == \E c \in DOMAIN fresh : ~ Known(fresh[c])

KeepKnownTooMuch(fresh, stored) ==
    [c \in DOMAIN fresh |->
        IF c \in DOMAIN stored /\ stored[c].nse + stored[c].bse > fresh[c].nse + fresh[c].bse
        THEN stored[c] ELSE fresh[c]]
KeepOnlyMissing(fresh, stored) ==
    [c \in DOMAIN fresh \cup DOMAIN stored |-> IF c \in DOMAIN fresh THEN fresh[c] ELSE stored[c]]
KeepKnown(fresh, stored) ==
    LET kept == {c \in DOMAIN stored : Known(stored[c])}
    IN  [c \in DOMAIN fresh \cup kept |->
            IF c \in DOMAIN fresh /\ (Known(fresh[c]) \/ c \notin kept) THEN fresh[c] ELSE stored[c]]
=============================================================================
