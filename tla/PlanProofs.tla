------------------------------ MODULE PlanProofs ------------------------------
(***************************************************************************)
(* The loop of planSend, for every request and every balance.               *)
(*                                                                         *)
(* The invariant says of the recipients handled so far what the properties  *)
(* of PlanSend.tla say of all of them.  What makes it inductive is that the  *)
(* accepted recipients are the valid ones seen so far until the money ends  *)
(* (FirstValid): only then the comparison of accepted with affordable,      *)
(* which is all planOne looks at, decides as the reference does.            *)
(***************************************************************************)
EXTENDS PlanSend, FiniteSetTheorems, TLAPS

\* Of the recipients handled so far the accepted ones are those of the reference,
\* in request order.
AcceptedSoFar ==
    /\ {payable[k] : k \in DOMAIN payable} = {i \in 1..pos : ShouldBeAccepted(i)}
    /\ \A j, k \in DOMAIN payable : j < k => payable[j] < payable[k]

\* They are the first valid ones, as many as the balance pays for.
FirstValid ==
    /\ Len(payable) <= Cardinality(ValidBefore(pos + 1))
    /\ Len(payable) <= Affordable
    /\ MoneyLeft => Len(payable) = Cardinality(ValidBefore(pos + 1))

\* Each of them has one answer, and the counters split the skipped ones.
AnsweredSoFar ==
    /\ Len(payable) + Len(skipped) = pos
    /\ {payable[i] : i \in DOMAIN payable} \cup {skipped[i][1] : i \in DOMAIN skipped} = 1..pos
    /\ rejectedCount = Cardinality({i \in 1..pos : IsRejected(i)})
    /\ rejectedCount + skippedCount = Len(skipped)
    /\ skippedCount = Cardinality({i \in DOMAIN skipped : skipped[i][2] = "insufficient_balance"})

\* The inductive invariant.
PlanInv == TypeOK /\ AcceptedSoFar /\ FirstValid /\ AnsweredSoFar

-------------------------------------------------------------------------------
(***************************************************************************)
(* Sequences and sets                                                      *)
(***************************************************************************)

\* What one more element does to a sequence and to the set of its elements.
LEMMA AppendElement ==
  ASSUME NEW T, NEW s \in Seq(T), NEW x \in T
  PROVE  /\ Append(s, x) \in Seq(T)
         /\ Len(s) \in Nat /\ Len(Append(s, x)) = Len(s) + 1
         /\ DOMAIN s = 1..Len(s) /\ DOMAIN Append(s, x) = (1..Len(s)) \cup {Len(s) + 1}
         /\ \A k \in 1..Len(s) : Append(s, x)[k] = s[k]
         /\ Append(s, x)[Len(s) + 1] = x
  <1>1. Len(s) \in Nat /\ Len(Append(s, x)) = Len(s) + 1 /\ DOMAIN s = 1..Len(s)
        /\ DOMAIN Append(s, x) = 1..(Len(s) + 1) /\ Append(s, x) \in Seq(T)
    OBVIOUS
  <1>2. 1..(Len(s) + 1) = (1..Len(s)) \cup {Len(s) + 1}
    BY <1>1
  <1>3. \A k \in 1..Len(s) : Append(s, x)[k] = s[k]
    OBVIOUS
  <1>4. Append(s, x)[Len(s) + 1] = x
    OBVIOUS
  <1> QED
    BY <1>1, <1>2, <1>3, <1>4

\* Places up to n can be counted, and one place more counts one more.
LEMMA OnePlaceMore ==
  ASSUME NEW n \in Nat, NEW S \in SUBSET (1..n)
  PROVE  /\ IsFiniteSet(S) /\ Cardinality(S) \in Nat
         /\ Cardinality(S \cup {n + 1}) = Cardinality(S) + 1
         /\ 1..(n + 1) = (1..n) \cup {n + 1} /\ n + 1 \notin 1..n
  <1>1. IsFiniteSet(1..n)
    BY FS_Interval
  <1>2. IsFiniteSet(S) /\ Cardinality(S) \in Nat
    BY <1>1, FS_Subset, FS_CardinalityType
  <1>3. n + 1 \notin 1..n /\ 1..(n + 1) = (1..n) \cup {n + 1}
    OBVIOUS
  <1> QED
    BY <1>2, <1>3, FS_AddElement

\* The request and the balance give numbers.
LEMMA PlanNumbers ==
  ASSUME req \in Requests, available \in Balances
  PROVE  recipientCount \in Nat /\ Affordable \in Nat
         /\ Affordable = IF available < 0 THEN 0 ELSE available
  <1>1. req.otp \in Seq(BOOLEAN) /\ req.text \in Seq(BOOLEAN) /\ available \in Int
    BY PlanAssumption
  <1>2. recipientCount \in Nat
    <2>1. \A q \in Seq(BOOLEAN) : Len(q) \in Nat
      OBVIOUS
    <2>2. Len(req.otp) \in Nat /\ Len(req.text) \in Nat
      BY <1>1, <2>1, Zenon
    <2>3. \A a, b \in Nat : a + b \in Nat
      OBVIOUS
    <2> QED
      BY <2>2, <2>3, Zenon DEF recipientCount
  <1>3. available \div smsCost = available
    BY <1>1 DEF smsCost
  <1> QED
    BY <1>1, <1>2, <1>3 DEF Affordable

\* The next recipient has the valid ones up to now before it.
LEMMA ValidGrows ==
  ASSUME pos \in Nat
  PROVE  /\ ValidBefore(pos + 1) = {j \in 1..pos : ~IsRejected(j)}
         /\ IsFiniteSet(ValidBefore(pos + 1)) /\ Cardinality(ValidBefore(pos + 1)) \in Nat
         /\ IsRejected(pos + 1) => ValidBefore(pos + 2) = ValidBefore(pos + 1)
         /\ ~IsRejected(pos + 1) =>
              Cardinality(ValidBefore(pos + 2)) = Cardinality(ValidBefore(pos + 1)) + 1
  <1>1. pos + 1 - 1 = pos /\ pos + 2 - 1 = pos + 1
    OBVIOUS
  <1>2. ValidBefore(pos + 1) = {j \in 1..pos : ~IsRejected(j)}
        /\ ValidBefore(pos + 2) = {j \in 1..(pos + 1) : ~IsRejected(j)}
    BY <1>1 DEF ValidBefore
  <1>3. /\ IsFiniteSet(ValidBefore(pos + 1)) /\ Cardinality(ValidBefore(pos + 1)) \in Nat
        /\ Cardinality(ValidBefore(pos + 1) \cup {pos + 1}) = Cardinality(ValidBefore(pos + 1)) + 1
        /\ 1..(pos + 1) = (1..pos) \cup {pos + 1}
    BY <1>2, OnePlaceMore
  <1>4. IsRejected(pos + 1) => ValidBefore(pos + 2) = ValidBefore(pos + 1)
    BY <1>2, <1>3
  <1>5. ~IsRejected(pos + 1) => ValidBefore(pos + 2) = ValidBefore(pos + 1) \cup {pos + 1}
    BY <1>2, <1>3
  <1> QED
    BY <1>2, <1>3, <1>4, <1>5

-------------------------------------------------------------------------------
(***************************************************************************)
(* The steps                                                               *)
(***************************************************************************)

\* What a step of planOne leaves alone, and what every step knows.
LEMMA PlanStepFacts ==
  ASSUME PlanInv, Next
  PROVE  /\ pos \in Nat /\ recipientCount \in Nat /\ pos + 1 \in 1..recipientCount
         /\ pos' = pos + 1 /\ recipientCount' = recipientCount /\ Affordable' = Affordable
         /\ Affordable \in Nat /\ UNCHANGED <<req, available>>
         /\ \A i : /\ IsRejected(i)' <=> IsRejected(i)
                   /\ ShouldBeAccepted(i)' <=> ShouldBeAccepted(i)
                   /\ ValidBefore(i)' = ValidBefore(i)
         /\ (ValidBefore(pos + 1))' = ValidBefore(pos + 2)
         /\ Len(payable) \in Nat /\ Len(skipped) \in Nat
  <1>1. recipientCount \in Nat /\ Affordable \in Nat
    BY PlanNumbers DEF PlanInv, TypeOK
  <1>2. pos \in 0..recipientCount /\ pos < recipientCount /\ pos' = pos + 1
        /\ UNCHANGED <<req, available>>
    BY DEF PlanInv, TypeOK, Next, PlanRejected, PlanPayable, PlanSkipped
  <1>3. recipientCount' = recipientCount /\ Affordable' = Affordable
    BY <1>2 DEF recipientCount, Affordable
  <1>4. \A i : IsRejected(i)' <=> IsRejected(i)
    BY <1>2 DEF IsRejected, Recipients
  <1>5. \A i : ValidBefore(i)' = ValidBefore(i)
    BY <1>4 DEF ValidBefore
  <1>6. \A i : ShouldBeAccepted(i)' <=> ShouldBeAccepted(i)
    BY <1>3, <1>4, <1>5 DEF ShouldBeAccepted
  <1>7. pos \in Nat /\ pos + 1 \in 1..recipientCount
    BY <1>1, <1>2
  <1>8. (ValidBefore(pos + 1))' = ValidBefore(pos + 2)
    <2>1. pos' + 1 - 1 = pos + 2 - 1
      BY <1>2, <1>7
    <2>2. (ValidBefore(pos + 1))' = {j \in 1..(pos' + 1 - 1) : ~IsRejected(j)'}
      BY <1>2, <1>7 DEF ValidBefore
    <2>3. ValidBefore(pos + 2) = {j \in 1..(pos + 2 - 1) : ~IsRejected(j)}
      BY <1>7 DEF ValidBefore
    <2> QED
      BY <1>4, <2>1, <2>2, <2>3
  <1>9. Len(payable) \in Nat /\ Len(skipped) \in Nat
    BY DEF PlanInv, TypeOK
  <1> QED
    BY <1>1, <1>2, <1>3, <1>4, <1>5, <1>6, <1>7, <1>8, <1>9

\* planOne on a rejected candidate.
LEMMA RejectedStep ==
  ASSUME PlanInv, PlanRejected
  PROVE  PlanInv'
  <1>f. /\ pos \in Nat /\ recipientCount \in Nat /\ pos + 1 \in 1..recipientCount
        /\ pos' = pos + 1 /\ recipientCount' = recipientCount /\ Affordable' = Affordable
        /\ Affordable \in Nat /\ UNCHANGED <<req, available>>
        /\ \A i : /\ IsRejected(i)' <=> IsRejected(i)
                  /\ ShouldBeAccepted(i)' <=> ShouldBeAccepted(i)
                  /\ ValidBefore(i)' = ValidBefore(i)
        /\ (ValidBefore(pos + 1))' = ValidBefore(pos + 2)
        /\ Len(payable) \in Nat /\ Len(skipped) \in Nat
    BY PlanStepFacts DEF Next
  <1>p. /\ IsRejected(pos + 1) /\ rejectedCount' = rejectedCount + 1
        /\ skipped' = Append(skipped, <<pos + 1, "invalid_mobile">>)
        /\ UNCHANGED <<payable, skippedCount>>
    BY DEF PlanRejected
  <1>o. 1..(pos + 1) = (1..pos) \cup {pos + 1} /\ pos + 1 \notin 1..pos
    BY <1>f, OnePlaceMore
  <1>s. /\ skipped' \in Seq((1..recipientCount) \X {"invalid_mobile", "insufficient_balance"})
        /\ Len(skipped) \in Nat /\ Len(skipped') = Len(skipped) + 1
        /\ DOMAIN skipped = 1..Len(skipped)
        /\ DOMAIN skipped' = (1..Len(skipped)) \cup {Len(skipped) + 1}
        /\ \A k \in 1..Len(skipped) : skipped'[k] = skipped[k]
        /\ skipped'[Len(skipped) + 1] = <<pos + 1, "invalid_mobile">>
    BY <1>f, <1>p, AppendElement DEF PlanInv, TypeOK
  <1>1. TypeOK'
    BY <1>f, <1>p, <1>s DEF PlanInv, TypeOK
  <1>2. AcceptedSoFar'
    <2>1. ~ShouldBeAccepted(pos + 1)
      BY <1>p DEF ShouldBeAccepted
    <2> QED
      BY <1>f, <1>o, <1>p, <2>1 DEF PlanInv, AcceptedSoFar
  <1>3. FirstValid'
    <2>1. ValidBefore(pos + 2) = ValidBefore(pos + 1)
      BY <1>f, <1>p, ValidGrows
    <2> QED
      BY <1>f, <1>p, <2>1 DEF PlanInv, FirstValid, MoneyLeft
  <1>4. AnsweredSoFar'
    <2>1. Len(payable') + Len(skipped') = pos' /\ rejectedCount' + skippedCount' = Len(skipped')
      <3>1. /\ Len(payable) + Len(skipped) = pos /\ rejectedCount + skippedCount = Len(skipped)
            /\ rejectedCount \in Nat /\ skippedCount \in Nat
        BY DEF PlanInv, AnsweredSoFar, TypeOK
      <3>2. Len(payable') = Len(payable) /\ Len(skipped') = Len(skipped) + 1
        BY <1>p, <1>s
      <3> QED
        BY <1>f, <1>p, <3>1, <3>2
    <2>2. {skipped'[i][1] : i \in DOMAIN skipped'} = {skipped[i][1] : i \in DOMAIN skipped} \cup {pos + 1}
      BY <1>s
    <2>3. {payable'[i] : i \in DOMAIN payable'} \cup {skipped'[i][1] : i \in DOMAIN skipped'} = 1..pos'
      BY <2>2, <1>f, <1>o, <1>p DEF PlanInv, AnsweredSoFar
    <2>4. {i \in 1..(pos + 1) : IsRejected(i)} = {i \in 1..pos : IsRejected(i)} \cup {pos + 1}
      BY <1>o, <1>p
    <2>5. Cardinality({i \in 1..(pos + 1) : IsRejected(i)}) = Cardinality({i \in 1..pos : IsRejected(i)}) + 1
      <3>1. {i \in 1..pos : IsRejected(i)} \in SUBSET (1..pos)
        OBVIOUS
      <3> QED
        BY <2>4, <3>1, <1>f, OnePlaceMore
    <2>6. {i \in 1..pos' : IsRejected(i)'} = {i \in 1..(pos + 1) : IsRejected(i)}
      BY <1>f
    <2>7. rejectedCount' = Cardinality({i \in 1..pos' : IsRejected(i)'})
      BY <2>5, <2>6, <1>p DEF PlanInv, AnsweredSoFar
    <2>8. {i \in DOMAIN skipped' : skipped'[i][2] = "insufficient_balance"}
             = {i \in DOMAIN skipped : skipped[i][2] = "insufficient_balance"}
      BY <1>s
    <2> QED
      BY <2>1, <2>3, <2>7, <2>8, <1>p DEF PlanInv, AnsweredSoFar
  <1> QED
    BY <1>1, <1>2, <1>3, <1>4 DEF PlanInv

\* planOne while the balance covers one more: by FirstValid the comparison of
\* accepted with affordable is the one of the reference.
LEMMA PayableStep ==
  ASSUME PlanInv, PlanPayable
  PROVE  PlanInv'
  <1>f. /\ pos \in Nat /\ recipientCount \in Nat /\ pos + 1 \in 1..recipientCount
        /\ pos' = pos + 1 /\ recipientCount' = recipientCount /\ Affordable' = Affordable
        /\ Affordable \in Nat /\ UNCHANGED <<req, available>>
        /\ \A i : /\ IsRejected(i)' <=> IsRejected(i)
                  /\ ShouldBeAccepted(i)' <=> ShouldBeAccepted(i)
                  /\ ValidBefore(i)' = ValidBefore(i)
        /\ (ValidBefore(pos + 1))' = ValidBefore(pos + 2)
        /\ Len(payable) \in Nat /\ Len(skipped) \in Nat
    BY PlanStepFacts DEF Next
  <1>p. /\ ~IsRejected(pos + 1) /\ MoneyLeft /\ payable' = Append(payable, pos + 1)
        /\ UNCHANGED <<skipped, rejectedCount, skippedCount>>
    BY DEF PlanPayable
  <1>o. 1..(pos + 1) = (1..pos) \cup {pos + 1} /\ pos + 1 \notin 1..pos
    BY <1>f, OnePlaceMore
  <1>s. /\ payable' \in Seq(1..recipientCount)
        /\ Len(payable') = Len(payable) + 1
        /\ DOMAIN payable = 1..Len(payable)
        /\ DOMAIN payable' = (1..Len(payable)) \cup {Len(payable) + 1}
        /\ \A k \in 1..Len(payable) : payable'[k] = payable[k]
        /\ payable'[Len(payable) + 1] = pos + 1
    BY <1>f, <1>p, AppendElement DEF PlanInv, TypeOK
  <1>e. {payable'[k] : k \in DOMAIN payable'} = {payable[k] : k \in DOMAIN payable} \cup {pos + 1}
    BY <1>s
  <1>1. TypeOK'
    BY <1>f, <1>p, <1>s DEF PlanInv, TypeOK
  <1>v. Len(payable) = Cardinality(ValidBefore(pos + 1)) /\ Len(payable) < Affordable
    BY <1>p DEF PlanInv, FirstValid, MoneyLeft
  <1>2. AcceptedSoFar'
    <2>1. ShouldBeAccepted(pos + 1)
      BY <1>p, <1>v DEF ShouldBeAccepted
    <2>2. {payable'[k] : k \in DOMAIN payable'} = {i \in 1..pos' : ShouldBeAccepted(i)'}
      BY <1>e, <1>f, <1>o, <2>1 DEF PlanInv, AcceptedSoFar
    <2>3. \A k \in 1..Len(payable) : payable[k] \in 1..pos
      BY <1>s DEF PlanInv, AcceptedSoFar
    <2>4. \A k \in 1..Len(payable) : payable'[k] < pos + 1
      BY <2>3, <1>f, <1>s
    <2>5. ASSUME NEW j \in DOMAIN payable', NEW k \in DOMAIN payable', j < k
          PROVE  payable'[j] < payable'[k]
      <3>1. j \in 1..Len(payable)
        BY <2>5, <1>f, <1>s
      <3>2. CASE k \in 1..Len(payable)
        BY <2>5, <3>1, <3>2, <1>s DEF PlanInv, AcceptedSoFar
      <3>3. CASE k = Len(payable) + 1
        BY <3>1, <3>3, <2>4, <1>s
      <3> QED
        BY <3>2, <3>3, <1>s
    <2> QED
      BY <2>2, <2>5 DEF AcceptedSoFar
  <1>3. FirstValid'
    <2>1. Cardinality(ValidBefore(pos + 2)) = Cardinality(ValidBefore(pos + 1)) + 1
      BY <1>f, <1>p, ValidGrows
    <2>2. Len(payable') = Cardinality((ValidBefore(pos + 1))')
      BY <2>1, <1>f, <1>s, <1>v
    <2>3. Len(payable') <= Affordable' /\ Len(payable') <= Cardinality((ValidBefore(pos + 1))')
      BY <2>2, <1>f, <1>s, <1>v
    <2> QED
      BY <2>2, <2>3 DEF FirstValid
  <1>4. AnsweredSoFar'
    <2>1. Len(payable') + Len(skipped') = pos'
      BY <1>f, <1>p, <1>s DEF PlanInv, AnsweredSoFar
    <2>2. {payable'[i] : i \in DOMAIN payable'} \cup {skipped'[i][1] : i \in DOMAIN skipped'} = 1..pos'
      <3> DEFINE Left == {skipped[i][1] : i \in DOMAIN skipped}
      <3>1. {payable[i] : i \in DOMAIN payable} \cup Left = 1..pos
        BY DEF PlanInv, AnsweredSoFar
      <3>2. {skipped'[i][1] : i \in DOMAIN skipped'} = Left
        BY <1>p
      <3> HIDE DEF Left
      <3> QED
        BY <3>1, <3>2, <1>e, <1>f, <1>o
    <2>3. {i \in 1..pos' : IsRejected(i)'} = {i \in 1..pos : IsRejected(i)}
      BY <1>f, <1>o, <1>p
    <2> QED
      BY <2>1, <2>2, <2>3, <1>p DEF PlanInv, AnsweredSoFar
  <1> QED
    BY <1>1, <1>2, <1>3, <1>4 DEF PlanInv

\* planOne when the balance is used up: as many valid recipients as it pays for
\* came before.
LEMMA SkippedStep ==
  ASSUME PlanInv, PlanSkipped
  PROVE  PlanInv'
  <1>f. /\ pos \in Nat /\ recipientCount \in Nat /\ pos + 1 \in 1..recipientCount
        /\ pos' = pos + 1 /\ recipientCount' = recipientCount /\ Affordable' = Affordable
        /\ Affordable \in Nat /\ UNCHANGED <<req, available>>
        /\ \A i : /\ IsRejected(i)' <=> IsRejected(i)
                  /\ ShouldBeAccepted(i)' <=> ShouldBeAccepted(i)
                  /\ ValidBefore(i)' = ValidBefore(i)
        /\ (ValidBefore(pos + 1))' = ValidBefore(pos + 2)
        /\ Len(payable) \in Nat /\ Len(skipped) \in Nat
    BY PlanStepFacts DEF Next
  <1>p. /\ ~IsRejected(pos + 1) /\ ~MoneyLeft
        /\ skippedCount' = skippedCount + 1 /\ UNCHANGED <<payable, rejectedCount>>
        /\ skipped' = Append(skipped, <<pos + 1, "insufficient_balance">>)
    BY DEF PlanSkipped, CountSkipped, InsufficientBalance
  <1>o. 1..(pos + 1) = (1..pos) \cup {pos + 1} /\ pos + 1 \notin 1..pos
    BY <1>f, OnePlaceMore
  <1>s. /\ skipped' \in Seq((1..recipientCount) \X {"invalid_mobile", "insufficient_balance"})
        /\ Len(skipped') = Len(skipped) + 1
        /\ DOMAIN skipped = 1..Len(skipped)
        /\ DOMAIN skipped' = (1..Len(skipped)) \cup {Len(skipped) + 1}
        /\ \A k \in 1..Len(skipped) : skipped'[k] = skipped[k]
        /\ skipped'[Len(skipped) + 1] = <<pos + 1, "insufficient_balance">>
    BY <1>f, <1>p, AppendElement DEF PlanInv, TypeOK
  <1>1. TypeOK'
    BY <1>f, <1>p, <1>s DEF PlanInv, TypeOK
  <1>v. /\ Cardinality(ValidBefore(pos + 1)) \in Nat
        /\ Len(payable) <= Cardinality(ValidBefore(pos + 1)) /\ Len(payable) = Affordable
    BY <1>f, <1>p, ValidGrows DEF PlanInv, FirstValid, MoneyLeft
  <1>2. AcceptedSoFar'
    <2>1. ~ShouldBeAccepted(pos + 1)
      BY <1>v, <1>f DEF ShouldBeAccepted
    <2> QED
      BY <1>f, <1>o, <1>p, <2>1 DEF PlanInv, AcceptedSoFar
  <1>3. FirstValid'
    <2>1. Cardinality(ValidBefore(pos + 2)) = Cardinality(ValidBefore(pos + 1)) + 1
      BY <1>f, <1>p, ValidGrows
    <2>2. Len(payable') <= Cardinality((ValidBefore(pos + 1))') /\ Len(payable') = Affordable'
      BY <2>1, <1>f, <1>p, <1>v
    <2> QED
      BY <2>2, <1>f DEF FirstValid, MoneyLeft
  <1>4. AnsweredSoFar'
    <2>1. Len(payable') + Len(skipped') = pos' /\ rejectedCount' + skippedCount' = Len(skipped')
      <3>1. /\ Len(payable) + Len(skipped) = pos /\ rejectedCount + skippedCount = Len(skipped)
            /\ rejectedCount \in Nat /\ skippedCount \in Nat
        BY DEF PlanInv, AnsweredSoFar, TypeOK
      <3>2. Len(payable') = Len(payable) /\ Len(skipped') = Len(skipped) + 1
        BY <1>p, <1>s
      <3> QED
        BY <1>f, <1>p, <3>1, <3>2
    <2>2. {skipped'[i][1] : i \in DOMAIN skipped'} = {skipped[i][1] : i \in DOMAIN skipped} \cup {pos + 1}
      BY <1>s
    <2>3. {payable'[i] : i \in DOMAIN payable'} \cup {skipped'[i][1] : i \in DOMAIN skipped'} = 1..pos'
      BY <2>2, <1>f, <1>o, <1>p DEF PlanInv, AnsweredSoFar
    <2>4. {i \in 1..pos' : IsRejected(i)'} = {i \in 1..pos : IsRejected(i)}
      BY <1>f, <1>o, <1>p
    <2> DEFINE Poor == {i \in DOMAIN skipped : skipped[i][2] = "insufficient_balance"}
    <2>5. {i \in DOMAIN skipped' : skipped'[i][2] = "insufficient_balance"} = Poor \cup {Len(skipped) + 1}
      BY <1>s
    <2>6. Poor \in SUBSET (1..Len(skipped))
      BY <1>s
    <2>7. skippedCount = Cardinality(Poor)
      BY DEF PlanInv, AnsweredSoFar
    <2> HIDE DEF Poor
    <2>8. Cardinality(Poor \cup {Len(skipped) + 1}) = Cardinality(Poor) + 1
      BY <2>6, <1>f, OnePlaceMore
    <2>9. skippedCount' = Cardinality({i \in DOMAIN skipped' : skipped'[i][2] = "insufficient_balance"})
      BY <2>5, <2>7, <2>8, <1>p
    <2> QED
      BY <2>1, <2>3, <2>4, <2>9, <1>p DEF PlanInv, AnsweredSoFar
  <1> QED
    BY <1>1, <1>2, <1>3, <1>4 DEF PlanInv

\* Before the first recipient everything is empty.
LEMMA PlanInit == Init => PlanInv
  <1> SUFFICES ASSUME Init PROVE PlanInv
    OBVIOUS
  <1>1. /\ req \in Requests /\ available \in Balances /\ pos = 0 /\ payable = <<>> /\ skipped = <<>>
        /\ rejectedCount = 0 /\ skippedCount = 0
    BY DEF Init
  <1>2. recipientCount \in Nat /\ Affordable \in Nat
    BY <1>1, PlanNumbers
  <1>e. Len(payable) = 0 /\ DOMAIN payable = {} /\ Len(skipped) = 0 /\ DOMAIN skipped = {}
    BY <1>1
  <1>z. 1..pos = {} /\ Cardinality({}) = 0
    BY <1>1, FS_EmptySet
  <1>3. TypeOK
    BY <1>1, <1>2 DEF TypeOK
  <1>4. AcceptedSoFar
    BY <1>e, <1>z DEF AcceptedSoFar
  <1>5. FirstValid
    <2>1. ValidBefore(pos + 1) = {}
      <3>1. ValidBefore(pos + 1) = {j \in 1..pos : ~IsRejected(j)}
        BY <1>1, ValidGrows
      <3> QED
        BY <3>1, <1>z
    <2>2. Cardinality(ValidBefore(pos + 1)) = 0
      BY <2>1, <1>z, Zenon
    <2>3. Len(payable) <= Cardinality(ValidBefore(pos + 1)) /\ Len(payable) <= Affordable
      BY <1>2, <1>e, <2>2
    <2> QED
      BY <1>e, <2>2, <2>3 DEF FirstValid
  <1>6. AnsweredSoFar
    <2>1. {i \in 1..pos : IsRejected(i)} = {}
          /\ {i \in DOMAIN skipped : skipped[i][2] = "insufficient_balance"} = {}
      BY <1>e, <1>z
    <2> QED
      BY <1>1, <1>e, <1>z, <2>1 DEF AnsweredSoFar
  <1> QED
    BY <1>3, <1>4, <1>5, <1>6 DEF PlanInv

-------------------------------------------------------------------------------
(***************************************************************************)
(* The theorems                                                            *)
(***************************************************************************)

\* The invariant holds after every recipient.
THEOREM PlanInvariance == Spec => []PlanInv
  <1>1. PlanInv /\ UNCHANGED vars => PlanInv'
    <2> SUFFICES ASSUME PlanInv, UNCHANGED vars PROVE PlanInv'
      OBVIOUS
    <2>1. UNCHANGED <<req, available, pos, payable, skipped, rejectedCount, skippedCount>>
      BY DEF vars
    <2>2. recipientCount' = recipientCount /\ Affordable' = Affordable
      BY <2>1 DEF recipientCount, Affordable
    <2>3. \A i : IsRejected(i)' <=> IsRejected(i)
      BY <2>1 DEF IsRejected, Recipients
    <2>4. \A i : ValidBefore(i)' = ValidBefore(i)
      BY <2>3 DEF ValidBefore
    <2>5. \A i : ShouldBeAccepted(i)' <=> ShouldBeAccepted(i)
      BY <2>2, <2>3, <2>4 DEF ShouldBeAccepted
    <2>6. pos \in Nat
      BY PlanNumbers DEF PlanInv, TypeOK
    <2>7. (ValidBefore(pos + 1))' = ValidBefore(pos + 1)
      BY <2>1, <2>3, <2>6 DEF ValidBefore
    <2>8. TypeOK' /\ AcceptedSoFar'
      BY <2>1, <2>2, <2>5 DEF PlanInv, TypeOK, AcceptedSoFar
    <2>9. FirstValid'
      BY <2>1, <2>2, <2>7 DEF PlanInv, FirstValid, MoneyLeft
    <2>10. AnsweredSoFar'
      BY <2>1, <2>3 DEF PlanInv, AnsweredSoFar
    <2> QED
      BY <2>8, <2>9, <2>10 DEF PlanInv
  <1>2. PlanInv /\ [Next]_vars => PlanInv'
    BY <1>1, RejectedStep, PayableStep, SkippedStep DEF Next
  <1> QED
    BY PlanInit, <1>2, PTL DEF Spec

\* The places, reasons and counters planSend works with have their types.
THEOREM PlanTypeCorrect == Spec => []TypeOK
  <1>1. PlanInv => TypeOK
    BY DEF PlanInv
  <1> QED
    BY PlanInvariance, <1>1, PTL

\* planSend accepts exactly the recipients that are valid and paid for after the
\* valid ones before them, in order, and never spends more than the balance.
THEOREM PlanMatchesReference == Spec => []PlanIsReference
  <1>1. PlanInv => PlanIsReference
    <2> SUFFICES ASSUME PlanInv, pos = recipientCount
                 PROVE  /\ {payable[k] : k \in DOMAIN payable}
                              = {i \in 1..recipientCount : ShouldBeAccepted(i)}
                        /\ \A j, k \in DOMAIN payable : j < k => payable[j] < payable[k]
                        /\ TotalCost <= (IF available < 0 THEN 0 ELSE available)
      BY DEF PlanIsReference
    <2>1. {payable[k] : k \in DOMAIN payable} = {i \in 1..recipientCount : ShouldBeAccepted(i)}
          /\ \A j, k \in DOMAIN payable : j < k => payable[j] < payable[k]
      BY DEF PlanInv, AcceptedSoFar
    <2>2. Affordable \in Nat /\ Affordable = IF available < 0 THEN 0 ELSE available
      BY PlanNumbers DEF PlanInv, TypeOK
    <2>3. Len(payable) \in Nat /\ Len(payable) <= Affordable
      BY DEF PlanInv, TypeOK, FirstValid
    <2>4. TotalCost = Len(payable)
      BY <2>3 DEF TotalCost, smsCost
    <2> QED
      BY <2>1, <2>2, <2>3, <2>4
  <1> QED
    BY PlanInvariance, <1>1, PTL

\* planSend answers every recipient once, and RejectedCount and SkippedCount add
\* up to what it skipped.
THEOREM RecipientsAnswered == Spec => []EveryRecipientAnswered
  <1>1. PlanInv => EveryRecipientAnswered
    BY DEF PlanInv, AnsweredSoFar, EveryRecipientAnswered
  <1> QED
    BY PlanInvariance, <1>1, PTL
===============================================================================
