------------------------------ MODULE BidRules ------------------------------
(***************************************************************************)
(* What an investor or an operator may do to a bid                         *)
(* (packages/shared-types/src/bidRules.ts).  Pure: no state.  The strings  *)
(* a category may arrive as are kept, because the rule is exactly about    *)
(* which of them mean "institutional"; case, blanks and dashes are folded  *)
(* before these operators see them.                                        *)
(***************************************************************************)
EXTENDS Integers

CategoryText ==
    {"", "retail", "rii", "ind", "individual", "r",
     "shni", "snii", "hni2", "nii", "nib", "hni", "bhni", "bnii",
     "qib", "anchor", "shareholder", "employee", "emp", "sh", "other"}

NormaliseBidCategory(c) ==
    CASE c \in {"retail", "rii", "ind", "individual", "r"} -> "retail"
      [] c \in {"shni", "snii", "hni2", "nii", "nib", "hni", "bhni", "bnii"} -> "nii"
      [] c \in {"qib", "anchor"} -> "qib"
      [] c \in {"shareholder", "employee", "emp", "sh"} -> "reserved"
      [] OTHER -> c

\* bidRights(c).mayLower and .mayWithdraw are always equal; this is their value.
BidRights(c) == NormaliseBidCategory(c) \notin {"nii", "qib"}

MayReviseTo_AnyCategory(c, currentQty, nextQty, atExchange) == nextQty > 0
MayReviseTo(c, currentQty, nextQty, atExchange) ==
    /\ nextQty > 0
    /\ \/ nextQty >= currentQty
       \/ ~atExchange
       \/ BidRights(c)

MayCancel(c, atExchange) == atExchange => BidRights(c)

Decided == {"allotted", "not_allotted", "released", "cancelled", "withdrawn"}
Blocked == {"upi_blocked", "confirmed"}

\* mayChangeUpi answers a pair: is the change allowed, and must the exchange be told.
MayChangeUpi(status, atExchange) ==
    LET allowed == status \notin Decided \cup Blocked
    IN  [ok |-> allowed, needsExchange |-> allowed /\ atExchange]
=============================================================================
