----------------------------- MODULE OutboxProofs -----------------------------
(***************************************************************************)
(* How often a record is published, and what a failed outbox row has been   *)
(* through: the counting properties of the outbox, for any number of        *)
(* instances, rows, faults and attempts.                                    *)
(*                                                                         *)
(* The attempts value a claim returns is the number of the claim.  A number *)
(* is in the memory of one worker at most, and is used for one Publish at   *)
(* most.  What a claim is used for is counted by tries; a claim that comes  *)
(* to nothing was taken away by a fault, and so was every claim that was    *)
(* overtaken while its worker still had the row.                            *)
(***************************************************************************)
EXTENDS InvariantProofs

\* Worker w has taken row m from its batch.
Handling(w, m) == wpc[w] # "next" /\ cur[w] = m

\* Claims of m that wait in the batch of a worker.
Unused(m) ==
    {a \in 1..obAttempts[m] : \E w \in Instances : events[w][m] = a /\ ~Handling(w, m)}

\* Of the claims that may be published, the ones that do not wait any more.
Limit(m) == IF obAttempts[m] < MaxAttempts THEN obAttempts[m] ELSE MaxAttempts
Used(m) == (1..Limit(m)) \ Unused(m)

\* Nobody else may take the row.
Live(m) == obStatus[m] = "publishing" /\ m \notin obAged

\* Claims of m in the memory of a worker that the table does not protect.
Overtaken(m) ==
    {a \in 1..obAttempts[m] :
        /\ \E w \in Instances : events[w][m] = a
        /\ ~(a = obAttempts[m] /\ Live(m))}

\* A worker handles rows of its batch, and no two workers have one claim.
ClaimsApart ==
    /\ \A w \in Instances : wpc[w] # "next" => events[w][cur[w]] > 0
    /\ \A m \in Msgs : \A v, w \in Instances :
          events[v][m] > 0 /\ events[v][m] = events[w][m] => v = w

\* A failed row has used up its claims.
FailedIsExhausted ==
    \A m \in Msgs : obStatus[m] = "failed" => obAttempts[m] >= MaxAttempts

\* A copy in the log is a try, and a try used a claim; a claim that was used
\* without a try, or overtaken, cost a fault.
Counted(m) ==
    /\ Copies(m) <= tries[m]
    /\ tries[m] <= Cardinality(Used(m))
    /\ Cardinality(Used(m)) + Cardinality(Overtaken(m)) <= tries[m] + faults

\* The inductive invariant, together with IndInv.
CountInv == ClaimsApart /\ FailedIsExhausted /\ \A m \in Msgs : Counted(m)

-------------------------------------------------------------------------------
(***************************************************************************)
(* Counting                                                                *)
(***************************************************************************)

\* A set of claim numbers can be counted.
LEMMA ClaimNumbers ==
  ASSUME NEW n \in Nat, NEW S, S \subseteq 1..n
  PROVE  IsFiniteSet(S) /\ Cardinality(S) \in Nat /\ Cardinality(S) <= n
  <1>1. IsFiniteSet(1..n) /\ Cardinality(1..n) = n
    BY FS_Interval
  <1> QED
    BY <1>1, FS_Subset, FS_CardinalityType

\* One new element makes a set larger by one at most.
LEMMA OneMore ==
  ASSUME NEW S, IsFiniteSet(S), NEW x, NEW T, T \subseteq S \cup {x}
  PROVE  IsFiniteSet(T) /\ Cardinality(T) <= Cardinality(S) + 1
  <1>1. IsFiniteSet(S \cup {x})
        /\ Cardinality(S \cup {x}) = IF x \in S THEN Cardinality(S) ELSE Cardinality(S) + 1
    BY FS_AddElement
  <1>2. Cardinality(S) \in Nat
    BY FS_CardinalityType
  <1>3. IsFiniteSet(T) /\ Cardinality(T) <= Cardinality(S \cup {x}) /\ Cardinality(T) \in Nat
    BY <1>1, FS_Subset, FS_CardinalityType
  <1> QED
    BY <1>1, <1>2, <1>3

\* A superset with an element of its own is larger.
LEMMA Larger ==
  ASSUME NEW T, IsFiniteSet(T), NEW S, S \subseteq T, NEW x \in T, x \notin S
  PROVE  Cardinality(S) + 1 <= Cardinality(T)
  <1>1. IsFiniteSet(S) /\ S \cup {x} \subseteq T
    BY FS_Subset
  <1>2. Cardinality(S \cup {x}) = Cardinality(S) + 1
    BY <1>1, FS_AddElement
  <1> QED
    BY <1>1, <1>2, FS_Subset

\* An element that comes for another one does not change the count.
LEMMA Exchange ==
  ASSUME NEW S, IsFiniteSet(S), NEW y \in S, NEW x, NEW T, T \subseteq (S \ {y}) \cup {x}
  PROVE  Cardinality(T) <= Cardinality(S)
  <1>1. IsFiniteSet(S \ {y})
    BY FS_Subset
  <1>2. Cardinality(S \ {y}) + 1 <= Cardinality(S)
    BY Larger
  <1>3. Cardinality(T) <= Cardinality(S \ {y}) + 1 /\ IsFiniteSet(T)
    BY <1>1, OneMore
  <1> QED
    BY <1>1, <1>2, <1>3, FS_CardinalityType

\* Copies of m in a sequence of records.
Places(s, m) == {i \in 1..Len(s) : s[i] = m}

\* A record at the end of a partition is a copy of its message, and of no other.
LEMMA PlacesAppend ==
  ASSUME NEW R, NEW s \in Seq(R), NEW r \in R, NEW m
  PROVE  /\ IsFiniteSet(Places(s, m)) /\ Cardinality(Places(s, m)) \in Nat
         /\ Places(Append(s, r), m) \subseteq Places(s, m) \cup {Len(s) + 1}
         /\ r # m => Places(Append(s, r), m) = Places(s, m)
  <1>1. Len(s) \in Nat /\ Places(s, m) \subseteq 1..Len(s)
    BY DEF Places
  <1>2. /\ Len(Append(s, r)) = Len(s) + 1 /\ Append(s, r)[Len(s) + 1] = r
        /\ \A i \in 1..Len(s) : Append(s, r)[i] = s[i]
    OBVIOUS
  <1>3. 1..(Len(s) + 1) = (1..Len(s)) \cup {Len(s) + 1}
    BY <1>1
  <1> QED
    BY <1>1, <1>2, <1>3, ClaimNumbers DEF Places

-------------------------------------------------------------------------------
(***************************************************************************)
(* One message                                                             *)
(***************************************************************************)

\* The types the counts are about.
CountTypes ==
    /\ \A m \in Msgs : /\ obAttempts[m] \in Nat /\ tries[m] \in Nat
                       /\ \A w \in Instances : events[w][m] \in Nat
    /\ faults \in Nat /\ log \in [Partitions -> Seq(Records)]

\* They are what TypeOK says.
LEMMA CountTypesHold == TypeOK => CountTypes
  BY DEF TypeOK, RepoTypeOK, WorkerTypeOK, BrokerTypeOK, CountTypes

\* All counts are numbers.
Countable(m) ==
    /\ Copies(m) \in Nat
    /\ IsFiniteSet(Used(m)) /\ Cardinality(Used(m)) \in Nat
    /\ Cardinality(Used(m)) <= Limit(m)
    /\ IsFiniteSet(Overtaken(m)) /\ Cardinality(Overtaken(m)) \in Nat
    /\ Limit(m) \in Nat /\ Limit(m) <= obAttempts[m] /\ Limit(m) <= MaxAttempts

\* That follows from the types alone.
LEMMA CountsAreNumbers == TypeOK => \A m \in Msgs : Countable(m)
  <1> SUFFICES ASSUME TypeOK, NEW m \in Msgs PROVE Countable(m)
    OBVIOUS
  <1>0. CountTypes
    BY CountTypesHold
  <1>1. Limit(m) \in Nat /\ Limit(m) <= obAttempts[m] /\ Limit(m) <= MaxAttempts
    BY <1>0, OutboxAssumption DEF CountTypes, Limit
  <1>2. IsFiniteSet(Used(m)) /\ Cardinality(Used(m)) \in Nat
        /\ Cardinality(Used(m)) <= Limit(m)
    BY <1>1, ClaimNumbers DEF Used
  <1>3. obAttempts[m] \in Nat /\ Overtaken(m) \subseteq 1..obAttempts[m]
    BY <1>0 DEF CountTypes, Overtaken
  <1>4. IsFiniteSet(Overtaken(m)) /\ Cardinality(Overtaken(m)) \in Nat
    BY <1>3, ClaimNumbers
  <1>5. Len(log[PartitionOf[m]]) \in Nat
    BY <1>0, PartitionAssumption DEF CountTypes
  <1>6. Copies(m) \in Nat
    BY <1>5, ClaimNumbers DEF Copies
  <1> QED
    BY <1>1, <1>2, <1>4, <1>6 DEF Countable

\* Also of the next state.
LEMMA CountsAreNumbersNext == TypeOK' => (CountTypes /\ \A m \in Msgs : Countable(m))'
  BY CountTypesHold, CountsAreNumbers, PTL

\* Nothing happens to m: its claims, the workers that have them and its copies
\* stay as they are.
LEMMA SameCounts ==
  ASSUME IndInv, CountInv, TypeOK', NEW m \in Msgs,
         \A w \in Instances : /\ events'[w][m] = events[w][m]
                              /\ events[w][m] > 0 => (Handling(w, m)' <=> Handling(w, m)),
         obAttempts'[m] = obAttempts[m], Live(m)' <=> Live(m),
         tries'[m] = tries[m], faults <= faults', Copies(m)' = Copies(m)
  PROVE  Counted(m)'
  <1>t. CountTypes /\ Countable(m) /\ CountTypes' /\ Countable(m)'
    BY CountTypesHold, CountsAreNumbers, CountsAreNumbersNext DEF IndInv
  <1>1. Unused(m)' = Unused(m)
    BY <1>t DEF Unused, CountTypes
  <1>2. Used(m)' = Used(m)
    BY <1>1 DEF Used, Limit
  <1>3. Overtaken(m)' = Overtaken(m)
    BY DEF Overtaken
  <1> QED
    BY <1>2, <1>3, <1>t DEF CountInv, Counted, CountTypes, Countable

\* A worker is done with the row.  Its claim was used before; when the row is
\* taken away from the worker that has it now, the one that did so had been
\* overtaken itself.
LEMMA ReleaseCounts ==
  ASSUME IndInv, CountInv, TypeOK', NEW m \in Msgs, NEW w \in Instances,
         Handling(w, m), events'[w][m] = 0,
         \A v \in Instances \ {w} : /\ events'[v][m] = events[v][m]
                                    /\ Handling(v, m)' <=> Handling(v, m),
         obAttempts'[m] = obAttempts[m],
         tries'[m] = tries[m], faults <= faults', Copies(m)' = Copies(m)
  PROVE  Counted(m)'
  <1>t. CountTypes /\ Countable(m) /\ CountTypes' /\ Countable(m)'
    BY CountTypesHold, CountsAreNumbers, CountsAreNumbersNext DEF IndInv
  <1>a. events[w][m] > 0 /\ \A v \in Instances \ {w} : events[v][m] # events[w][m]
    BY DEF CountInv, ClaimsApart, Handling
  <1>b. events[w][m] \in 1..obAttempts[m]
    BY <1>a, <1>t DEF IndInv, WorkersRemember, CountTypes
  <1>1. Unused(m)' = Unused(m)
    <2>1. ASSUME NEW a \in 1..obAttempts[m], NEW v \in Instances
          PROVE  (events'[v][m] = a /\ ~Handling(v, m)') <=> (events[v][m] = a /\ ~Handling(v, m))
      BY a # 0
    <2> QED
      BY <2>1 DEF Unused
  <1>2. Used(m)' = Used(m)
    BY <1>1 DEF Used, Limit
  <1>3. Cardinality(Overtaken(m)') <= Cardinality(Overtaken(m))
    <2>1. CASE events[w][m] \in Overtaken(m)
      <3>1. Overtaken(m)' \subseteq (Overtaken(m) \ {events[w][m]}) \cup {obAttempts[m]}
        BY <1>a, <1>t DEF Overtaken, CountTypes
      <3> QED
        BY <2>1, <3>1, <1>t, Exchange DEF Countable
    <2>2. CASE events[w][m] \notin Overtaken(m)
      <3>1. events[w][m] = obAttempts[m] /\ Live(m)
        BY <2>2, <1>b DEF Overtaken
      <3>2. Overtaken(m)' \subseteq Overtaken(m)
        BY <3>1, <1>a, <1>t DEF Overtaken, CountTypes
      <3> QED
        BY <3>2, <1>t, FS_Subset DEF Countable
    <2> QED
      BY <2>1, <2>2
  <1> QED
    BY <1>2, <1>3, <1>t DEF CountInv, Counted, CountTypes, Countable

\* The row is taken away from the worker that has it, by a fault.
LEMMA ExposedCounts ==
  ASSUME IndInv, CountInv, TypeOK', NEW m \in Msgs,
         \A w \in Instances : /\ events'[w][m] = events[w][m]
                              /\ Handling(w, m)' <=> Handling(w, m),
         obAttempts'[m] = obAttempts[m],
         tries'[m] = tries[m], faults' = faults + 1, Copies(m)' = Copies(m)
  PROVE  Counted(m)'
  <1>t. CountTypes /\ Countable(m) /\ CountTypes' /\ Countable(m)'
    BY CountTypesHold, CountsAreNumbers, CountsAreNumbersNext DEF IndInv
  <1>1. Unused(m)' = Unused(m)
    BY DEF Unused
  <1>2. Used(m)' = Used(m)
    BY <1>1 DEF Used, Limit
  <1>3. Overtaken(m)' \subseteq Overtaken(m) \cup {obAttempts[m]}
    BY DEF Overtaken
  <1>4. Cardinality(Overtaken(m)') <= Cardinality(Overtaken(m)) + 1
    BY <1>3, <1>t, OneMore DEF Countable
  <1> QED
    BY <1>2, <1>4, <1>t DEF CountInv, Counted, CountTypes, Countable

\* The process of w dies, and what it had claimed of m with it.
LEMMA CrashCounts ==
  ASSUME IndInv, CountInv, TypeOK', NEW m \in Msgs, NEW w \in Instances,
         events'[w][m] = 0,
         \A v \in Instances \ {w} : /\ events'[v][m] = events[v][m]
                                    /\ Handling(v, m)' <=> Handling(v, m),
         obAttempts'[m] = obAttempts[m], Live(m)' <=> Live(m),
         tries'[m] = tries[m], faults' = faults + 1, Copies(m)' = Copies(m)
  PROVE  Counted(m)'
  <1>t. CountTypes /\ Countable(m) /\ CountTypes' /\ Countable(m)'
    BY CountTypesHold, CountsAreNumbers, CountsAreNumbersNext DEF IndInv
  <1>1. Unused(m)' \subseteq Unused(m) /\ Unused(m) \subseteq Unused(m)' \cup {events[w][m]}
    BY <1>t DEF Unused, CountTypes
  <1>2. Used(m) \subseteq Used(m)' /\ Used(m)' \subseteq Used(m) \cup {events[w][m]}
    BY <1>1 DEF Used, Limit
  <1>3. Overtaken(m)' \subseteq Overtaken(m)
    BY <1>t DEF Overtaken, CountTypes
  <1>4. /\ Cardinality(Used(m)) <= Cardinality(Used(m)')
        /\ Cardinality(Used(m)') <= Cardinality(Used(m)) + 1
        /\ Cardinality(Overtaken(m)') <= Cardinality(Overtaken(m))
    BY <1>2, <1>3, <1>t, OneMore, FS_Subset DEF Countable
  <1> QED
    BY <1>4, <1>t DEF CountInv, Counted, CountTypes, Countable

\* A claim of the row, which nobody has any right to at that moment: it waits
\* in the batch of w, or the answer of the database is lost.
LEMMA ClaimCounts ==
  ASSUME IndInv, CountInv, TypeOK', NEW m \in Msgs, NEW w \in Instances,
         m \in Claimable, events[w][m] = 0,
         obAttempts'[m] = obAttempts[m] + 1, Live(m)',
         \A v \in Instances \ {w} : events'[v][m] = events[v][m],
         \A v \in Instances : Handling(v, m)' <=> Handling(v, m),
         \/ /\ events'[w][m] = obAttempts[m] + 1 /\ ~Handling(w, m)
            /\ faults' = faults
         \/ events'[w][m] = 0 /\ faults' = faults + 1,
         tries'[m] = tries[m], Copies(m)' = Copies(m)
  PROVE  Counted(m)'
  <1>t. CountTypes /\ Countable(m) /\ CountTypes' /\ Countable(m)'
    BY CountTypesHold, CountsAreNumbers, CountsAreNumbersNext DEF IndInv
  <1>a. \A v \in Instances : events[v][m] <= obAttempts[m]
    BY <1>t DEF IndInv, WorkersRemember, CountTypes
  <1>b. ~Live(m)
    BY DEF Claimable, Live
  <1>m. obAttempts[m] \in Nat
    BY <1>t DEF CountTypes
  <1>n. /\ obAttempts[m] \in Nat
        /\ 1..(obAttempts[m] + 1) = (1..obAttempts[m]) \cup {obAttempts[m] + 1}
        /\ obAttempts[m] + 1 \notin 1..obAttempts[m] /\ 0 \notin 1..(obAttempts[m] + 1)
    BY <1>m
  <1>1. Overtaken(m)' \subseteq Overtaken(m)
    <2>1. ASSUME NEW a \in Overtaken(m)'
          PROVE  a \in Overtaken(m)
      <3>1. PICK v \in Instances : events'[v][m] = a
        BY DEF Overtaken
      <3>2. a \in 1..(obAttempts[m] + 1) /\ a # obAttempts[m] + 1
        BY DEF Overtaken
      <3>3. v # w
        BY <3>1, <3>2, <1>n
      <3> QED
        BY <3>1, <3>2, <3>3, <1>n, <1>b DEF Overtaken
    <2> QED
      BY <2>1
  <1>2. Cardinality(Overtaken(m)') <= Cardinality(Overtaken(m))
    BY <1>1, <1>t, FS_Subset DEF Countable
  <1>3. Limit(m)' \in {Limit(m), obAttempts[m] + 1} /\ Limit(m) <= Limit(m)'
        /\ Limit(m) <= obAttempts[m] /\ (Limit(m)' = obAttempts[m] + 1 => Limit(m) = obAttempts[m])
    BY <1>n, OutboxAssumption DEF Limit
  <1>4. CASE events'[w][m] = obAttempts[m] + 1 /\ ~Handling(w, m) /\ faults' = faults
    <2>1. Unused(m)' = Unused(m) \cup {obAttempts[m] + 1}
      <3>1. ASSUME NEW a \in 1..obAttempts[m]
            PROVE  a \in Unused(m)' <=> a \in Unused(m)
        <4>1. events'[w][m] # a /\ events[w][m] # a
          BY <1>4, <1>n
        <4> QED
          BY <4>1, <1>n DEF Unused
      <3>2. obAttempts[m] + 1 \in Unused(m)'
        BY <1>4, <1>n DEF Unused
      <3>3. Unused(m) \subseteq 1..obAttempts[m] /\ Unused(m)' \subseteq 1..(obAttempts[m] + 1)
        BY DEF Unused
      <3> QED
        BY <3>1, <3>2, <3>3, <1>n
    <2>2. Used(m)' = Used(m)
      <3>1. obAttempts[m] + 1 \notin 1..Limit(m)
        BY <1>3, <1>t, <1>n DEF Countable
      <3>2. (1..Limit(m)') \ {obAttempts[m] + 1} = 1..Limit(m)
        BY <1>3, <1>n, <1>t, <3>1 DEF Countable
      <3> QED
        BY <2>1, <3>1, <3>2 DEF Used
    <2> QED
      BY <2>2, <1>2, <1>4, <1>t DEF CountInv, Counted, CountTypes, Countable
  <1>5. CASE events'[w][m] = 0 /\ faults' = faults + 1
    <2>1. Unused(m)' = Unused(m)
      <3>1. ASSUME NEW a \in 1..obAttempts[m]
            PROVE  a \in Unused(m)' <=> a \in Unused(m)
        <4>1. events'[w][m] # a /\ events[w][m] # a
          BY <1>5, <1>n
        <4> QED
          BY <4>1, <1>n DEF Unused
      <3>2. obAttempts[m] + 1 \notin Unused(m)'
        <4>1. ASSUME NEW v \in Instances
              PROVE  events'[v][m] # obAttempts[m] + 1
          BY <1>5, <1>a, <1>m, <1>t DEF CountTypes
        <4> QED
          BY <4>1 DEF Unused
      <3>3. Unused(m) \subseteq 1..obAttempts[m] /\ Unused(m)' \subseteq 1..(obAttempts[m] + 1)
        BY DEF Unused
      <3> QED
        BY <3>1, <3>2, <3>3, <1>n
    <2>2. Used(m) \subseteq Used(m)' /\ Used(m)' \subseteq Used(m) \cup {obAttempts[m] + 1}
      <3>1. 1..Limit(m) \subseteq 1..Limit(m)'
        BY <1>3, <1>t DEF Countable
      <3>2. 1..Limit(m)' \subseteq (1..Limit(m)) \cup {obAttempts[m] + 1}
        BY <1>3, <1>n
      <3> QED
        BY <2>1, <3>1, <3>2 DEF Used
    <2>3. /\ Cardinality(Used(m)) <= Cardinality(Used(m)')
          /\ Cardinality(Used(m)') <= Cardinality(Used(m)) + 1
      BY <2>2, <1>t, OneMore, FS_Subset DEF Countable
    <2> QED
      BY <2>3, <1>2, <1>5, <1>t DEF CountInv, Counted, CountTypes, Countable
  <1> QED
    BY <1>4, <1>5

\* The claim is taken from the batch and used for one Publish, or is beyond
\* maxAttempts and not counted.
LEMMA PublishCounts ==
  ASSUME IndInv, CountInv, TypeOK', NEW m \in Msgs, NEW w \in Instances,
         events[w][m] > 0, ~Handling(w, m), Handling(w, m)',
         \A v \in Instances : events'[v][m] = events[v][m],
         \A v \in Instances \ {w} : Handling(v, m)' <=> Handling(v, m),
         obAttempts'[m] = obAttempts[m], Live(m)' <=> Live(m), faults' = faults,
         \/ /\ TooMany(events[w][m])
            /\ tries'[m] = tries[m] /\ Copies(m)' = Copies(m)
         \/ /\ ~TooMany(events[w][m])
            /\ tries'[m] = tries[m] + 1 /\ Copies(m)' <= Copies(m) + 1
  PROVE  Counted(m)'
  <1>t. CountTypes /\ Countable(m) /\ CountTypes' /\ Countable(m)'
    BY CountTypesHold, CountsAreNumbers, CountsAreNumbersNext DEF IndInv
  <1>a. \A v \in Instances \ {w} : events[v][m] # events[w][m]
    BY DEF CountInv, ClaimsApart
  <1>b. events[w][m] \in 1..obAttempts[m]
    BY <1>t DEF IndInv, WorkersRemember, CountTypes
  <1>1. Unused(m)' = Unused(m) \ {events[w][m]} /\ events[w][m] \in Unused(m)
    BY <1>a, <1>b DEF Unused
  <1>2. Overtaken(m)' = Overtaken(m)
    BY DEF Overtaken
  <1>3. CASE TooMany(events[w][m]) /\ tries'[m] = tries[m] /\ Copies(m)' = Copies(m)
    <2>1. events[w][m] \notin 1..Limit(m)
      BY <1>3, <1>t, OutboxAssumption DEF TooMany, Countable, CountTypes
    <2>2. Used(m)' = Used(m)
      BY <1>1, <2>1 DEF Used, Limit
    <2> QED
      BY <1>2, <1>3, <2>2, <1>t DEF CountInv, Counted, CountTypes, Countable
  <1>4. CASE ~TooMany(events[w][m]) /\ tries'[m] = tries[m] + 1 /\ Copies(m)' <= Copies(m) + 1
    <2>1. events[w][m] \in 1..Limit(m)
      BY <1>4, <1>b, <1>t, OutboxAssumption DEF TooMany, Limit, CountTypes
    <2>2. /\ Used(m)' = Used(m) \cup {events[w][m]}
          /\ events[w][m] \in Used(m)' /\ events[w][m] \notin Used(m)
      BY <1>1, <2>1 DEF Used, Limit
    <2>3. Cardinality(Used(m)') = Cardinality(Used(m)) + 1
      BY <2>2, <1>t, FS_AddElement DEF Countable
    <2>4. Counted(m) /\ Cardinality(Overtaken(m)') = Cardinality(Overtaken(m))
      BY <1>2 DEF CountInv
    <2>5. /\ Copies(m) \in Nat /\ Copies(m)' \in Nat /\ tries[m] \in Nat /\ faults \in Nat
          /\ Cardinality(Used(m)) \in Nat /\ Cardinality(Overtaken(m)) \in Nat
      BY <1>t DEF CountTypes, Countable
    <2> QED
      BY <1>4, <2>3, <2>4, <2>5 DEF Counted
  <1> QED
    BY <1>3, <1>4

-------------------------------------------------------------------------------
(***************************************************************************)
(* Every step                                                              *)
(***************************************************************************)

\* The copies of m are its places in its partition.
LEMMA CopiesArePlaces ==
  ASSUME NEW m \in Msgs
  PROVE  /\ Copies(m) = Cardinality(Places(log[PartitionOf[m]], m))
         /\ Copies(m)' = Cardinality(Places(log'[PartitionOf[m]], m))
  BY DEF Copies, Places

\* A record of something else is no copy of m.
LEMMA CopiesKept ==
  ASSUME TypeOK, NEW m \in Msgs,
         \/ UNCHANGED log
         \/ \E p \in Partitions, r \in Records \ {m} : log' = [log EXCEPT ![p] = Append(@, r)]
  PROVE  Copies(m)' = Copies(m)
  <1>t. log \in [Partitions -> Seq(Records)] /\ PartitionOf[m] \in Partitions
    BY PartitionAssumption DEF TypeOK, BrokerTypeOK
  <1>1. CASE UNCHANGED log
    BY <1>1, CopiesArePlaces
  <1>2. ASSUME NEW p \in Partitions, NEW r \in Records \ {m},
               log' = [log EXCEPT ![p] = Append(@, r)]
        PROVE  Copies(m)' = Copies(m)
    <2>1. CASE p = PartitionOf[m]
      <3>1. log'[PartitionOf[m]] = Append(log[PartitionOf[m]], r)
        BY <1>2, <2>1, <1>t
      <3>2. log[PartitionOf[m]] \in Seq(Records)
        BY <1>t
      <3>3. Places(Append(log[PartitionOf[m]], r), m) = Places(log[PartitionOf[m]], m)
        BY <3>2, PlacesAppend
      <3> QED
        BY <3>1, <3>3, CopiesArePlaces
    <2>2. CASE p # PartitionOf[m]
      <3>1. log'[PartitionOf[m]] = log[PartitionOf[m]]
        BY <1>2, <2>2, <1>t
      <3> QED
        BY <3>1, CopiesArePlaces
    <2> QED
      BY <2>1, <2>2
  <1> QED
    BY <1>1, <1>2

\* A record of m is one more copy of m.
LEMMA CopiesGrow ==
  ASSUME TypeOK, NEW m \in Msgs, AppendRecord(m)
  PROVE  Copies(m)' <= Copies(m) + 1
  <1>t. log \in [Partitions -> Seq(Records)] /\ PartitionOf[m] \in Partitions /\ m \in Records
    BY PartitionAssumption, RecordTypes DEF TypeOK, BrokerTypeOK
  <1>1. log'[PartitionOf[m]] = Append(log[PartitionOf[m]], m)
    BY <1>t DEF AppendRecord
  <1>2. log[PartitionOf[m]] \in Seq(Records)
    BY <1>t
  <1>3. /\ IsFiniteSet(Places(log[PartitionOf[m]], m))
        /\ Places(Append(log[PartitionOf[m]], m), m)
              \subseteq Places(log[PartitionOf[m]], m) \cup {Len(log[PartitionOf[m]]) + 1}
    BY <1>t, <1>2, PlacesAppend
  <1>4. Cardinality(Places(Append(log[PartitionOf[m]], m), m))
           <= Cardinality(Places(log[PartitionOf[m]], m)) + 1
    BY <1>3, OneMore
  <1> QED
    BY <1>1, <1>4, CopiesArePlaces

\* The new number of a claim is in nobody's memory yet.
LEMMA ClaimsApartStep ==
  ASSUME IndInv, CountInv, [Next]_vars
  PROVE  ClaimsApart'
  <1>t. /\ events \in [Instances -> [Msgs -> Nat]] /\ wpc \in [Instances -> WorkerPC]
        /\ cur \in [Instances -> Msgs \cup {NoMsg}] /\ obAttempts \in [Msgs -> Nat]
    BY DEF IndInv, TypeOK, RepoTypeOK, WorkerTypeOK
  <1>a. /\ \A w \in Instances : wpc[w] # "next" => events[w][cur[w]] > 0
        /\ \A m \in Msgs : \A v, w \in Instances :
              events[v][m] > 0 /\ events[v][m] = events[w][m] => v = w
    BY DEF CountInv, ClaimsApart
  <1>1. CASE UNCHANGED workerVars
    BY <1>1, <1>a DEF workerVars, ClaimsApart
  \* A batch that only loses rows stays apart from the others.
  <1>2. ASSUME NEW w \in Instances, wpc'[w] = "next",
               \A m \in Msgs : events'[w][m] \in {0, events[w][m]},
               \A v \in Instances \ {w} :
                  events'[v] = events[v] /\ wpc'[v] = wpc[v] /\ cur'[v] = cur[v]
        PROVE  ClaimsApart'
    <2>1. \A v \in Instances : wpc'[v] # "next" => events'[v][cur'[v]] > 0
      BY <1>2, <1>a
    <2>2. \A v \in Instances : \A m \in Msgs : events'[v][m] \in {0, events[v][m]}
      BY <1>2
    <2>3. \A m \in Msgs : \A u, v \in Instances :
              events'[u][m] > 0 /\ events'[u][m] = events'[v][m] => u = v
      BY <2>2, <1>a, <1>t
    <2> QED
      BY <2>1, <2>3 DEF ClaimsApart
  <1>3. ASSUME NEW w \in Instances, Outbox(w)
        PROVE  ClaimsApart'
    <2>o. \A v \in Instances \ {w} :
             events'[v] = events[v] /\ wpc'[v] = wpc[v] /\ cur'[v] = cur[v]
      BY <1>3, <1>t DEF Outbox, WorkerStep, ClaimPendingOutbox, PublishEvent, MarkPublished,
             RecordFailure, DeadLetter, Finalize, Continue, Goto
    <2>1. CASE ClaimPendingOutbox(w)
      <3>1. PICK S \in SUBSET Msgs :
               events' = [events EXCEPT ![w] =
                             [m \in Msgs |-> IF m \in S THEN obAttempts[m] + 1 ELSE 0]]
               \/ UNCHANGED events
        BY <2>1 DEF ClaimPendingOutbox, ClaimedRows, Claimable
      <3>2. wpc' = wpc /\ cur' = cur /\ wpc[w] = "next"
        BY <2>1 DEF ClaimPendingOutbox
      <3>3. CASE UNCHANGED events
        BY <3>2, <3>3, <1>a DEF ClaimsApart
      <3>4. CASE events' = [events EXCEPT ![w] =
                             [m \in Msgs |-> IF m \in S THEN obAttempts[m] + 1 ELSE 0]]
        <4>1. \A m \in Msgs : events'[w][m] \in {0, obAttempts[m] + 1}
          BY <3>4, <1>t
        <4>2. \A m \in Msgs : \A v \in Instances : events[v][m] <= obAttempts[m]
          BY <1>t DEF IndInv, WorkersRemember
        <4>3. \A m \in Msgs : \A v \in Instances \ {w} :
                 events'[w][m] > 0 => events'[v][m] # events'[w][m]
          BY <4>1, <4>2, <2>o, <1>t
        <4>4. \A m \in Msgs : \A u, v \in Instances :
                 events'[u][m] > 0 /\ events'[u][m] = events'[v][m] => u = v
          BY <4>3, <2>o, <1>a
        <4>5. \A v \in Instances : wpc'[v] # "next" => events'[v][cur'[v]] > 0
          BY <3>2, <2>o, <1>a
        <4> QED
          BY <4>4, <4>5 DEF ClaimsApart
      <3> QED
        BY <3>1, <3>3, <3>4
    <2>2. ASSUME NEW m \in Msgs, PublishEvent(w, m)
          PROVE  ClaimsApart'
      <3>1. events' = events /\ cur'[w] = m /\ events[w][m] > 0
        BY <2>2, <1>t DEF PublishEvent
      <3> QED
        BY <3>1, <2>o, <1>a DEF ClaimsApart
    <2>3. CASE wpc[w] # "next" /\ Continue(w)
      <3>1. wpc'[w] = "next" /\ \A m \in Msgs : events'[w][m] \in {0, events[w][m]}
        BY <2>3, <1>t DEF Continue
      <3> QED
        BY <3>1, <2>o, <1>2
    <2>4. CASE wpc[w] # "next" /\ (Goto(w, "finalize") \/ Goto(w, "fail"))
      <3>1. events' = events /\ cur' = cur
        BY <2>4 DEF Goto
      <3> QED
        BY <3>1, <2>4, <2>o, <1>a DEF ClaimsApart
    <2> QED
      BY <1>3, <2>1, <2>2, <2>3, <2>4 DEF Outbox, WorkerStep, MarkPublished, RecordFailure,
           DeadLetter, Finalize
  <1>4. ASSUME NEW i \in Instances, Crash(i)
        PROVE  ClaimsApart'
    <2>1. wpc'[i] = "next" /\ \A m \in Msgs : events'[i][m] = 0
      BY <1>4, <1>t DEF Crash, StopWorker, NoEvents
    <2>2. \A v \in Instances \ {i} :
             events'[v] = events[v] /\ wpc'[v] = wpc[v] /\ cur'[v] = cur[v]
      BY <1>4, <1>t DEF Crash, StopWorker
    <2> QED
      BY <2>1, <2>2, <1>2
  <1> QED
    BY <1>1, <1>3, <1>4 DEF Next, vars, Accept, TopUp, Consume, OutboxTime, AgeOutboxClaim,
         MessageTime, Regroup, Intrude, workerVars

\* Only deadLetter fails a row, and it has used up its claims by then.
LEMMA FailedIsExhaustedStep ==
  ASSUME IndInv, CountInv, [Next]_vars
  PROVE  FailedIsExhausted'
  <1>c. TableChange
    BY TableChanges DEF IndInv
  <1>m. Monotone
    BY <1>c, StepMonotone DEF IndInv
  <1>t. obStatus \in [Msgs -> OutboxStatus] /\ obAttempts \in [Msgs -> Nat]
        /\ obAttempts' \in [Msgs -> Nat]
    BY NextType DEF IndInv, TypeOK, RepoTypeOK
  <1> SUFFICES ASSUME NEW m \in Msgs, obStatus'[m] = "failed"
               PROVE  obAttempts'[m] >= MaxAttempts
    BY DEF FailedIsExhausted
  <1>1. obAttempts[m] >= MaxAttempts
    <2>1. CASE obStatus[m] = "failed"
      BY <2>1 DEF CountInv, FailedIsExhausted
    <2>2. CASE obStatus[m] # "failed"
      <3>1. PICK n \in Msgs : FinalizeOutboxExhausted(n)
               /\ \E w \in Instances : wpc[w] = "finalize" /\ cur[w] = n
        BY <2>2, <1>c, <1>t DEF TableChange, tables, PersistSend, Covered, Debited, AddBalance,
             ClaimRows, OutboxClaimAges, MessageClaimAges, RecordOutboxFailure,
             SetOutbox, StillOpen, MarkOutboxPublished, ClaimMessage, SetMessage,
             MarkMessageSent, MarkMessageFailed
      <3>2. n = m
        BY <2>2, <3>1, <1>t DEF FinalizeOutboxExhausted, StillOpen, OpenMessage, MessageFailed
      <3> QED
        BY <3>1, <3>2 DEF IndInv, WorkersRemember
    <2> QED
      BY <2>1, <2>2
  <1> QED
    BY <1>1, <1>m, <1>t, OutboxAssumption DEF Monotone

\* Steps of the clients, of the consumers, of Kafka and of the clock of the
\* messages do not touch the claims.
LEMMA OthersCount ==
  ASSUME IndInv, CountInv, TypeOK', NEW m \in Msgs, UNCHANGED workerVars,
         \/ UNCHANGED vars
         \/ \E u \in Users : \E S \in SUBSET Msgs : Accept(u, S)
         \/ \E u \in Users, n \in Deposits : TopUp(u, n)
         \/ \E c \in Consumers : Consume(c)
         \/ \E n \in Msgs : MessageTime(n)
         \/ \E t \in {"express", "normal"} : Regroup(t)
         \/ \E p \in Partitions, r \in Foreign : Intrude(p, r)
  PROVE  Counted(m)'
  <1>t. obStatus \in [Msgs -> OutboxStatus] /\ faults \in Nat
    BY DEF IndInv, TypeOK, RepoTypeOK
  <1>1. obAttempts'[m] = obAttempts[m] /\ (Live(m)' <=> Live(m)) /\ faults <= faults'
        /\ (UNCHANGED log \/ \E p \in Partitions, r \in Foreign : AppendForeign(p, r))
    <2>1. ASSUME NEW u \in Users, NEW S \in SUBSET Msgs, Accept(u, S)
          PROVE  /\ obAttempts'[m] = obAttempts[m] /\ (Live(m)' <=> Live(m))
                 /\ faults <= faults' /\ UNCHANGED log
      <3>1. m \in S => obStatus[m] = "none"
        BY <2>1 DEF Accept, PersistSend, FreshIds, IndInv, RowsTogether
      <3> QED
        BY <2>1, <3>1, <1>t DEF Accept, PersistSend, NoFault, Live, brokerVars
    <2>2. ASSUME NEW c \in Consumers, Consume(c)
          PROVE  /\ UNCHANGED <<obAttempts, obStatus, obAged, log>>
                 /\ faults <= faults'
      BY <2>2, <1>t DEF Consume, ConsumerStep, Fetch, RejectPayload, ClaimForSending,
             ClaimMisses, Lookup, SendWithRetry, MarkSent, MarkFailed, ToDLQ, Commit,
             ClaimMessage, MarkMessageSent, MarkMessageFailed, SetMessage,
             repoVars, tables, brokerVars, NoFault, Fault
    <2>3. CASE \/ UNCHANGED vars
               \/ \E u \in Users, n \in Deposits : TopUp(u, n)
               \/ \E n \in Msgs : MessageTime(n)
               \/ \E t \in {"express", "normal"} : Regroup(t)
               \/ \E p \in Partitions, r \in Foreign : Intrude(p, r)
      BY <2>3, <1>t DEF vars, TopUp, AddBalance, MessageTime, AgeMessageClaim,
             MessageClaimAges, Regroup, Rebalance, Intrude, ForeignRecord,
             repoVars, tables, brokerVars, NoFault, Fault, Live
    <2> QED
      BY <2>1, <2>2, <2>3 DEF Live
  <1>2. Copies(m)' = Copies(m)
    <2>1. m \notin Foreign /\ Foreign \subseteq Records
      BY MsgsAssumption, RecordTypes DEF Foreign, BadPayload, UnknownMessage
    <2> QED
      BY <1>1, <2>1, CopiesKept DEF AppendForeign, IndInv
  <1>3. /\ \A w \in Instances : events'[w][m] = events[w][m] /\ (Handling(w, m)' <=> Handling(w, m))
        /\ tries'[m] = tries[m]
    BY DEF workerVars, Handling
  <1> QED
    BY <1>1, <1>2, <1>3, SameCounts

\* A claim that becomes stale costs a fault while a worker has the row, and
\* nothing when nobody has it any more.
LEMMA OutboxTimeCounts ==
  ASSUME IndInv, CountInv, TypeOK', NEW m \in Msgs, NEW n \in Msgs, OutboxTime(n)
  PROVE  Counted(m)'
  <1>1. /\ \A w \in Instances : events'[w][m] = events[w][m] /\ (Handling(w, m)' <=> Handling(w, m))
        /\ tries'[m] = tries[m] /\ obAttempts'[m] = obAttempts[m] /\ UNCHANGED log
    BY DEF OutboxTime, AgeOutboxClaim, OutboxClaimAges, brokerVars, workerVars, Handling
  <1>2. Copies(m)' = Copies(m)
    BY <1>1, CopiesKept DEF IndInv
  <1>3. faults \in Nat /\ (faults' = faults \/ faults' = faults + 1)
    BY DEF OutboxTime, AgeOutboxClaim, Fault, NoFault, IndInv, TypeOK, RepoTypeOK
  <1>4. CASE n # m
    <2>1. Live(m)' <=> Live(m)
      BY <1>4 DEF OutboxTime, AgeOutboxClaim, OutboxClaimAges, Live
    <2> QED
      BY <1>1, <1>2, <1>3, <2>1, SameCounts
  <1>5. CASE n = m /\ HeldByWorker(m)
    <2>1. faults' = faults + 1
      BY <1>5 DEF OutboxTime, AgeOutboxClaim, Fault
    <2> QED
      BY <1>1, <1>2, <2>1, ExposedCounts
  <1>6. CASE ~HeldByWorker(m)
    <2>t. CountTypes /\ Countable(m) /\ CountTypes' /\ Countable(m)'
      BY CountTypesHold, CountsAreNumbers, CountsAreNumbersNext DEF IndInv
    <2>1. \A w \in Instances : events[w][m] = 0
      BY <1>6, <2>t DEF HeldByWorker, CountTypes
    <2>2. Used(m)' = Used(m)
      BY <1>1 DEF Used, Unused, Limit
    <2>3. \A a \in 1..obAttempts[m] : a # 0
      OBVIOUS
    <2>4. Overtaken(m)' = Overtaken(m)
      BY <1>1, <2>1, <2>3 DEF Overtaken
    <2> QED
      BY <1>1, <1>2, <1>3, <2>2, <2>4, <2>t DEF CountInv, Counted, CountTypes, Countable
  <1> QED
    BY <1>4, <1>5, <1>6

\* A process that dies loses one claim of m at most, for one fault.
LEMMA CrashStepCounts ==
  ASSUME IndInv, CountInv, TypeOK', NEW m \in Msgs, NEW i \in Instances, Crash(i)
  PROVE  Counted(m)'
  <1>t. /\ events \in [Instances -> [Msgs -> Nat]] /\ wpc \in [Instances -> WorkerPC]
        /\ cur \in [Instances -> Msgs \cup {NoMsg}]
    BY DEF IndInv, TypeOK, WorkerTypeOK
  <1>1. events'[i][m] = 0
    BY <1>t DEF Crash, StopWorker, NoEvents
  <1>2. \A v \in Instances \ {i} : events'[v][m] = events[v][m]
                                   /\ (Handling(v, m)' <=> Handling(v, m))
    BY <1>t DEF Crash, StopWorker, Handling
  <1>3. /\ obAttempts'[m] = obAttempts[m] /\ (Live(m)' <=> Live(m))
        /\ tries'[m] = tries[m] /\ faults' = faults + 1 /\ UNCHANGED log
    BY DEF Crash, StopWorker, Fault, tables, brokerVars, Live
  <1>4. Copies(m)' = Copies(m)
    BY <1>3, CopiesKept DEF IndInv
  <1> QED
    BY <1>1, <1>2, <1>3, <1>4, CrashCounts

\* A claim of a batch.
LEMMA ClaimStepCounts ==
  ASSUME IndInv, CountInv, TypeOK', NEW m \in Msgs, NEW w \in Instances,
         ClaimPendingOutbox(w)
  PROVE  Counted(m)'
  <1>t. /\ events \in [Instances -> [Msgs -> Nat]] /\ faults \in Nat
        /\ obStatus \in [Msgs -> OutboxStatus] /\ obAttempts \in [Msgs -> Nat]
    BY DEF IndInv, TypeOK, WorkerTypeOK, RepoTypeOK
  <1>1. PICK S \in SUBSET Claimable :
           /\ ClaimRows(S)
           /\ \/ /\ NoFault
                 /\ events' = [events EXCEPT ![w] =
                       [n \in Msgs |-> IF n \in S THEN obAttempts[n] + 1 ELSE 0]]
              \/ Fault("db") /\ UNCHANGED events
    BY DEF ClaimPendingOutbox, ClaimedRows
  <1>2. /\ wpc[w] = "next" /\ events[w][m] = 0
        /\ UNCHANGED <<wpc, cur, tries, log>>
    BY DEF ClaimPendingOutbox, NoEvents, brokerVars
  <1>3. Copies(m)' = Copies(m)
    BY <1>2, CopiesKept DEF IndInv
  <1>4. \A v \in Instances : Handling(v, m)' <=> Handling(v, m)
    BY <1>2 DEF Handling
  <1>5. ~Handling(w, m)
    BY <1>2 DEF Handling
  <1>6. \A v \in Instances \ {w} : events'[v][m] = events[v][m]
    BY <1>1, <1>t
  <1>7. CASE m \in S
    <2>1. /\ m \in Claimable /\ obAttempts'[m] = obAttempts[m] + 1 /\ Live(m)'
      BY <1>1, <1>7 DEF ClaimRows, Live
    <2>2. \/ events'[w][m] = obAttempts[m] + 1 /\ faults' = faults
          \/ events'[w][m] = 0 /\ faults' = faults + 1
      BY <1>1, <1>2, <1>7, <1>t DEF NoFault, Fault
    <2> QED
      BY <1>2, <1>3, <1>4, <1>5, <1>6, <2>1, <2>2, ClaimCounts
  <1>8. CASE m \notin S
    <2>1. obAttempts'[m] = obAttempts[m] /\ (Live(m)' <=> Live(m)) /\ faults <= faults'
      BY <1>1, <1>8, <1>t DEF ClaimRows, Live, NoFault, Fault
    <2>2. events'[w][m] = events[w][m]
      BY <1>1, <1>2, <1>8, <1>t
    <2> QED
      BY <1>2, <1>3, <1>4, <1>6, <2>1, <2>2, SameCounts
  <1> QED
    BY <1>7, <1>8

\* One event of the batch.
LEMMA PublishStepCounts ==
  ASSUME IndInv, CountInv, TypeOK', NEW m \in Msgs, NEW w \in Instances, NEW n \in Msgs,
         PublishEvent(w, n)
  PROVE  Counted(m)'
  <1>t. /\ cur \in [Instances -> Msgs \cup {NoMsg}] /\ wpc \in [Instances -> WorkerPC]
        /\ tries \in [Msgs -> Nat]
    BY DEF IndInv, TypeOK, WorkerTypeOK
  <1>1. /\ wpc[w] = "next" /\ events[w][n] > 0 /\ UNCHANGED <<events, repoVars>>
        /\ cur'[w] = n /\ wpc'[w] # "next"
    BY <1>t DEF PublishEvent, PublishError
  <1>2. \A v \in Instances \ {w} : Handling(v, m)' <=> Handling(v, m)
    BY <1>t DEF PublishEvent, Handling
  <1>3. obAttempts'[m] = obAttempts[m] /\ (Live(m)' <=> Live(m)) /\ faults' = faults
    BY <1>1 DEF repoVars, Live
  <1>f. faults \in Nat
    BY DEF IndInv, TypeOK, RepoTypeOK
  <1>4. CASE n = m
    <2>1. ~Handling(w, m) /\ Handling(w, m)'
      BY <1>1, <1>4 DEF Handling
    <2>2. CASE TooMany(events[w][m]) /\ UNCHANGED <<log, tries>>
      <3>1. Copies(m)' = Copies(m)
        BY <2>2, CopiesKept DEF IndInv
      <3> QED
        BY <1>1, <1>2, <1>3, <1>4, <2>1, <2>2, <3>1, PublishCounts
    <2>3. CASE /\ ~TooMany(events[w][m]) /\ tries'[m] = tries[m] + 1
               /\ AppendRecord(m) \/ UNCHANGED log
      <3>1. Copies(m)' <= Copies(m) + 1
        <4>1. CASE AppendRecord(m)
          BY <4>1, CopiesGrow DEF IndInv
        <4>2. CASE UNCHANGED log
          <5>1. Copies(m)' = Copies(m)
            BY <4>2, CopiesKept DEF IndInv
          <5>2. Copies(m) \in Nat
            BY CountsAreNumbers DEF IndInv, Countable
          <5> QED
            BY <5>1, <5>2
        <4> QED
          BY <2>3, <4>1, <4>2
      <3> QED
        BY <1>1, <1>2, <1>3, <1>4, <2>1, <2>3, <3>1, PublishCounts
    <2> QED
      BY <1>4, <1>t, <2>2, <2>3 DEF PublishEvent
  <1>5. CASE n # m
    <2>1. tries'[m] = tries[m]
      BY <1>5, <1>t DEF PublishEvent
    <2>2. n \in Records \ {m} /\ PartitionOf[n] \in Partitions
      BY <1>5, RecordTypes, PartitionAssumption
    <2>3. UNCHANGED log \/ AppendRecord(n)
      BY DEF PublishEvent
    <2>4. Copies(m)' = Copies(m)
      BY <2>2, <2>3, CopiesKept DEF IndInv, AppendRecord
    <2>5. ~Handling(w, m) /\ ~Handling(w, m)'
      BY <1>1, <1>5 DEF Handling
    <2> QED
      BY <1>1, <1>2, <1>3, <1>f, <2>1, <2>4, <2>5, SameCounts
  <1> QED
    BY <1>4, <1>5

\* What the worker does with the row it has taken.
LEMMA HandleStepCounts ==
  ASSUME IndInv, CountInv, TypeOK', NEW m \in Msgs, NEW w \in Instances,
         MarkPublished(w) \/ RecordFailure(w) \/ DeadLetter(w) \/ Finalize(w)
  PROVE  Counted(m)'
  <1>t. /\ cur \in [Instances -> Msgs \cup {NoMsg}] /\ wpc \in [Instances -> WorkerPC]
        /\ events \in [Instances -> [Msgs -> Nat]]
        /\ faults \in Nat /\ obStatus \in [Msgs -> OutboxStatus]
    BY DEF IndInv, TypeOK, WorkerTypeOK, RepoTypeOK
  <1>1. wpc[w] # "next" /\ cur[w] \in Msgs
    BY DEF MarkPublished, RecordFailure, DeadLetter, Finalize, IndInv, TypeOK, WorkerTypeOK
  <1>2. UNCHANGED log /\ UNCHANGED tries
    BY DEF MarkPublished, RecordFailure, DeadLetter, Finalize, brokerVars, Continue, Goto
  <1>3. Copies(m)' = Copies(m) /\ tries'[m] = tries[m]
    BY <1>2, CopiesKept DEF IndInv
  <1>4. obAttempts'[m] = obAttempts[m] /\ faults <= faults'
    BY <1>t DEF MarkPublished, RecordFailure, DeadLetter, Finalize, MarkOutboxPublished,
         RecordOutboxFailure, FinalizeOutboxExhausted, SetOutbox, tables, repoVars, NoFault, Fault
  <1>5. cur[w] # m => (Live(m)' <=> Live(m))
    BY <1>t DEF MarkPublished, RecordFailure, DeadLetter, Finalize, MarkOutboxPublished,
         RecordOutboxFailure, FinalizeOutboxExhausted, SetOutbox, tables, repoVars, Live
  <1>6. CASE Continue(w)
    <2>1. \A v \in Instances \ {w} : events'[v][m] = events[v][m]
                                     /\ (Handling(v, m)' <=> Handling(v, m))
      BY <1>6, <1>t DEF Continue, Handling
    <2>2. CASE cur[w] = m
      <3>1. Handling(w, m) /\ events'[w][m] = 0
        BY <1>6, <1>1, <1>t, <2>2 DEF Continue, Handling
      <3> QED
        BY <2>1, <3>1, <1>3, <1>4, ReleaseCounts
    <2>3. CASE cur[w] # m
      <3>1. events'[w][m] = events[w][m]
        BY <1>6, <1>1, <1>t, <2>3 DEF Continue
      <3>2. ~Handling(w, m) /\ ~Handling(w, m)'
        BY <1>6, <1>t, <2>3 DEF Continue, Handling
      <3> QED
        BY <2>1, <2>3, <3>1, <3>2, <1>3, <1>4, <1>5, SameCounts
    <2> QED
      BY <2>2, <2>3
  <1>7. CASE Goto(w, "fail") \/ Goto(w, "finalize")
    <2>1. \A v \in Instances : events'[v][m] = events[v][m]
                               /\ (Handling(v, m)' <=> Handling(v, m))
      BY <1>7, <1>1, <1>t DEF Goto, Handling
    <2>2. CASE cur[w] # m \/ DeadLetter(w)
      <3>1. Live(m)' <=> Live(m)
        BY <1>5, <2>2 DEF DeadLetter, repoVars, Live
      <3> QED
        BY <2>1, <3>1, <1>3, <1>4, SameCounts
    <2>3. CASE Finalize(w) /\ faults' = faults + 1
      BY <2>1, <2>3, <1>3, <1>4, ExposedCounts
    <2>4. CASE Continue(w)
      BY <1>6, <2>4
    <2> QED
      BY <2>2, <2>3, <2>4 DEF MarkPublished, RecordFailure, Finalize, Fault
  <1> QED
    BY <1>6, <1>7 DEF MarkPublished, RecordFailure, DeadLetter, Finalize

\* Every step keeps the account.
LEMMA CountStep ==
  ASSUME IndInv, CountInv, [Next]_vars
  PROVE  CountInv'
  <1>1. TypeOK'
    BY NextType DEF IndInv
  <1> SUFFICES ASSUME NEW m \in Msgs
               PROVE  Counted(m)'
    BY ClaimsApartStep, FailedIsExhaustedStep DEF CountInv
  <1>2. CASE \E w \in Instances : Outbox(w)
    BY <1>1, <1>2, ClaimStepCounts, PublishStepCounts, HandleStepCounts DEF Outbox, WorkerStep
  <1>3. CASE \E n \in Msgs : OutboxTime(n)
    BY <1>1, <1>3, OutboxTimeCounts
  <1>4. CASE \E i \in Instances : Crash(i)
    BY <1>1, <1>4, CrashStepCounts
  <1>5. CASE \/ UNCHANGED vars
             \/ \E u \in Users : \E S \in SUBSET Msgs : Accept(u, S)
             \/ \E u \in Users, n \in Deposits : TopUp(u, n)
             \/ \E c \in Consumers : Consume(c)
             \/ \E n \in Msgs : MessageTime(n)
             \/ \E t \in {"express", "normal"} : Regroup(t)
             \/ \E p \in Partitions, r \in Foreign : Intrude(p, r)
    <2>1. UNCHANGED workerVars
      BY <1>5 DEF vars, Accept, TopUp, Consume, MessageTime, Regroup, Intrude, workerVars
    <2> QED
      BY <1>1, <1>5, <2>1, OthersCount
  <1> QED
    BY <1>2, <1>3, <1>4, <1>5 DEF Next

\* At the start there is nothing to count.
LEMMA CountInit == Init => CountInv
  <1> SUFFICES ASSUME Init PROVE CountInv
    OBVIOUS
  <1>1. ClaimsApart /\ FailedIsExhausted
    BY DEF Init, RepoInit, WorkerInit, NoEvents, ClaimsApart, FailedIsExhausted
  <1>2. ASSUME NEW m \in Msgs PROVE Counted(m)
    <2>1. obAttempts[m] = 0 /\ tries[m] = 0 /\ faults = 0 /\ log[PartitionOf[m]] = <<>>
      BY PartitionAssumption DEF Init, RepoInit, WorkerInit, BrokerInit
    <2>2. Used(m) = {} /\ Overtaken(m) = {}
      <3>1. Limit(m) = 0
        BY <2>1, OutboxAssumption DEF Limit
      <3> QED
        BY <2>1, <3>1 DEF Used, Overtaken
    <2>3. Places(log[PartitionOf[m]], m) = {}
      BY <2>1 DEF Places
    <2>4. Copies(m) = 0 /\ Cardinality(Used(m)) = 0 /\ Cardinality(Overtaken(m)) = 0
      BY <2>2, <2>3, CopiesArePlaces, FS_EmptySet
    <2> QED
      BY <2>1, <2>4 DEF Counted
  <1> QED
    BY <1>1, <1>2 DEF CountInv

-------------------------------------------------------------------------------
(***************************************************************************)
(* The theorems                                                            *)
(***************************************************************************)

\* The account of claims, tries, copies and faults is kept in every behaviour.
THEOREM CountInvariance == Spec => [](IndInv /\ CountInv)
  <1>1. Init => IndInv /\ CountInv
    BY InitInd, CountInit
  <1>2. IndInv /\ CountInv /\ [Next]_vars => (IndInv /\ CountInv)'
    BY NextInd, CountStep
  <1> QED
    BY <1>1, <1>2, PTL DEF Spec

\* ProcessOnce publishes a record once per claim and maxAttempts times in all,
\* however many workers share the row through stale claims.
THEOREM CopiesAreBounded == Spec => []CopiesBounded
  <1>1. IndInv /\ CountInv => CopiesBounded
    <2> SUFFICES ASSUME IndInv, CountInv, NEW m \in Msgs
                 PROVE  Copies(m) <= obAttempts[m] /\ Copies(m) <= MaxAttempts
      BY DEF CopiesBounded
    <2>1. Countable(m) /\ CountTypes
      BY CountsAreNumbers, CountTypesHold DEF IndInv
    <2>2. Copies(m) <= tries[m] /\ tries[m] <= Cardinality(Used(m))
      BY DEF CountInv, Counted
    <2> QED
      BY <2>1, <2>2, OutboxAssumption DEF Countable, CountTypes
  <1> QED
    BY CountInvariance, <1>1, PTL

\* deadLetter gives up on a row only after maxAttempts calls of Publish, less
\* one for every fault that took a claim away.
THEOREM ExhaustionEarned == Spec => []ExhaustionIsEarned
  <1>1. IndInv /\ CountInv => ExhaustionIsEarned
    <2> SUFFICES ASSUME IndInv, CountInv, NEW m \in Msgs, obStatus[m] = "failed"
                 PROVE  tries[m] + faults >= MaxAttempts
      BY DEF ExhaustionIsEarned
    <2>1. Countable(m) /\ CountTypes
      BY CountsAreNumbers, CountTypesHold DEF IndInv
    <2>2. Cardinality(Used(m)) + Cardinality(Overtaken(m)) <= tries[m] + faults
      BY DEF CountInv, Counted
    <2>3. Limit(m) = MaxAttempts
      BY <2>1, OutboxAssumption DEF Limit, CountInv, FailedIsExhausted, CountTypes
    <2>4. Unused(m) \subseteq Overtaken(m)
      BY DEF Unused, Overtaken, Live
    <2>5. 1..MaxAttempts \subseteq Used(m) \cup Overtaken(m)
      BY <2>3, <2>4 DEF Used
    <2>6. IsFiniteSet(Used(m) \cup Overtaken(m))
          /\ Cardinality(Used(m) \cup Overtaken(m)) <= Cardinality(Used(m)) + Cardinality(Overtaken(m))
      <3>1. IsFiniteSet(Used(m)) /\ IsFiniteSet(Overtaken(m))
        BY <2>1 DEF Countable
      <3>2. /\ IsFiniteSet(Used(m) \cup Overtaken(m))
            /\ Cardinality(Used(m) \cup Overtaken(m))
                  = Cardinality(Used(m)) + Cardinality(Overtaken(m))
                      - Cardinality(Used(m) \cap Overtaken(m))
        BY <3>1, FS_Union
      <3>3. Cardinality(Used(m) \cap Overtaken(m)) \in Nat
        BY <3>1, FS_Intersection, FS_CardinalityType
      <3> QED
        BY <3>2, <3>3, <2>1 DEF Countable
    <2>7. Cardinality(1..MaxAttempts) = MaxAttempts
      BY FS_Interval, OutboxAssumption
    <2>8. MaxAttempts <= Cardinality(Used(m) \cup Overtaken(m))
      <3>1. Cardinality(1..MaxAttempts) <= Cardinality(Used(m) \cup Overtaken(m))
        BY <2>5, <2>6, FS_Subset
      <3> QED
        BY <2>7, <3>1
    <2>9. Cardinality(Used(m) \cup Overtaken(m)) \in Nat
      BY <2>6, FS_CardinalityType
    <2> QED
      BY <2>1, <2>2, <2>6, <2>8, <2>9, OutboxAssumption DEF Countable, CountTypes
  <1> QED
    BY CountInvariance, <1>1, PTL
===============================================================================
