------------------------------- MODULE PlanSend -------------------------------
(***************************************************************************)
(* plan.go: planSend goes once over the recipients of a request, the OTP    *)
(* section first, and sorts each into payable or skipped (planOne).  The    *)
(* recipients are reduced to what planOne asks of them: is the number       *)
(* valid?  A recipient is named by its place in the request.                *)
(***************************************************************************)
EXTENDS Integers, Sequences, FiniteSets

CONSTANTS
    Requests,   \* requests: [otp : Seq(BOOLEAN), text : Seq(BOOLEAN)]
    Balances    \* values of `available'

ASSUME PlanAssumption ==
    /\ Requests \subseteq [otp : Seq(BOOLEAN), text : Seq(BOOLEAN)]
    /\ Balances \subseteq Int

VARIABLES
    req,            \* the request
    available,      \* the balance that was read
    pos,            \* recipients handled so far
    payable,        \* out.Payable
    skipped,        \* out.Skipped, with its error codes
    rejectedCount,
    skippedCount

vars == <<req, available, pos, payable, skipped, rejectedCount, skippedCount>>

smsCost == 1

\* affordable, with its clamp at zero.
Affordable ==
    IF available \div smsCost < 0 THEN 0 ELSE available \div smsCost

\* The OTP loop runs before the text loop.
Recipients == req.otp \o req.text
recipientCount == Len(req.otp) + Len(req.text)

\* buildOTPCandidate and buildTextCandidate: an invalid number gives a
\* candidate that is already rejected.
IsRejected(i) == ~Recipients[i]

\* Places, reasons and counters have their types.
TypeOK ==
    /\ req \in Requests /\ available \in Balances
    /\ pos \in 0..recipientCount
    /\ payable \in Seq(1..recipientCount)
    /\ skipped \in Seq((1..recipientCount) \X {"invalid_mobile", "insufficient_balance"})
    /\ rejectedCount \in Nat /\ skippedCount \in Nat

Init ==
    /\ req \in Requests /\ available \in Balances
    /\ pos = 0
    /\ payable = <<>> /\ skipped = <<>>
    /\ rejectedCount = 0 /\ skippedCount = 0

\* planOne: the candidate was rejected when it was built.
PlanRejected ==
    /\ pos < recipientCount /\ IsRejected(pos + 1)
    /\ pos' = pos + 1
    /\ rejectedCount' = rejectedCount + 1
    /\ skipped' = Append(skipped, <<pos + 1, "invalid_mobile">>)
    /\ UNCHANGED <<req, available, payable, skippedCount>>

\* Mutant: <= instead of < in the comparison with affordable.
MoneyLeftOneMore == Len(payable) <= Affordable
MoneyLeft == Len(payable) < Affordable

\* planOne: the balance still covers one more.
PlanPayable ==
    /\ pos < recipientCount /\ ~IsRejected(pos + 1)
    /\ MoneyLeft
    /\ pos' = pos + 1
    /\ payable' = Append(payable, pos + 1)
    /\ UNCHANGED <<req, available, skipped, rejectedCount, skippedCount>>

\* Mutant: the recipient is skipped without an error code.
NoReason == ""
InsufficientBalance == "insufficient_balance"

\* Mutant: a recipient left out for lack of balance is counted as rejected.
CountAsRejected == rejectedCount' = rejectedCount + 1 /\ UNCHANGED skippedCount
CountSkipped == skippedCount' = skippedCount + 1 /\ UNCHANGED rejectedCount

\* planOne: the balance is used up.
PlanSkipped ==
    /\ pos < recipientCount /\ ~IsRejected(pos + 1)
    /\ ~MoneyLeft
    /\ pos' = pos + 1
    /\ CountSkipped
    /\ skipped' = Append(skipped, <<pos + 1, InsufficientBalance>>)
    /\ UNCHANGED <<req, available, payable>>

Next == PlanRejected \/ PlanPayable \/ PlanSkipped
Spec == Init /\ [][Next]_vars

TotalCost == Len(payable) * smsCost

-------------------------------------------------------------------------------
\* The reference: recipient i is accepted when it is valid and the balance pays
\* for it after all valid recipients before it.
ValidBefore(i) == {j \in 1..(i - 1) : ~IsRejected(j)}
ShouldBeAccepted(i) == ~IsRejected(i) /\ Cardinality(ValidBefore(i)) < Affordable

\* What the loop leaves behind is the reference: exactly the recipients that
\* should be accepted, once each and in request order, so that nobody valid is
\* left out while there is money; and the cost never exceeds the balance.
PlanIsReference ==
    pos = recipientCount =>
        /\ {payable[k] : k \in DOMAIN payable} = {i \in 1..recipientCount : ShouldBeAccepted(i)}
        /\ \A j, k \in DOMAIN payable : j < k => payable[j] < payable[k]
        /\ TotalCost <= (IF available < 0 THEN 0 ELSE available)

\* The answer accounts for every recipient: each is payable or skipped, not
\* both, and the two counters split the skipped ones by their reason.
EveryRecipientAnswered ==
    pos = recipientCount =>
        /\ Len(payable) + Len(skipped) = recipientCount
        /\ {payable[i] : i \in DOMAIN payable} \cup {skipped[i][1] : i \in DOMAIN skipped}
              = 1..recipientCount
        /\ rejectedCount = Cardinality({i \in 1..recipientCount : IsRejected(i)})
        /\ rejectedCount + skippedCount = Len(skipped)
        /\ skippedCount = Cardinality({i \in DOMAIN skipped :
                                          skipped[i][2] = "insufficient_balance"})
===============================================================================
