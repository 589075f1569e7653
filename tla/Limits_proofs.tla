--------------------------- MODULE Limits_proofs ----------------------------
(***************************************************************************)
(* Proofs about what limits an execution: the token and cost budgets of    *)
(* TokenLedger, for every set of calls and ledgers, every delegation path  *)
(* and every price and limit; and the connections EgressProxy serves at    *)
(* once, for every set of connections and every number of slots.           *)
(***************************************************************************)
EXTENDS TokenLedger, EgressProxy, FiniteSetTheorems, TLAPS

Counters == [calls: Nat, used: Nat, reserved: Int, missing: BOOLEAN]

Typed ==
  /\ ledger \in [Ledgers -> Counters]
  /\ phase \in [Calls -> Phases]
  /\ pending \in [Calls -> SUBSET Ledgers]
  /\ refused \subseteq Calls
  /\ usage \in [Calls -> [input: Nat, output: Nat, reported: BOOLEAN]]

\* What a call consumes is within its estimate and its output cap.
UsageBounded == \A c \in Calls :
  usage[c].input <= Estimate[c] /\ usage[c].output <= OutputCap(c)

\* The ledger has admitted the call, and no other has refused it so far.
Passed(c, l) ==
  /\ l \in Path[c]
  /\ \/ Sent(c)
     \/ phase[c] = "starting" /\ c \notin refused /\ l \notin pending[c]

\* A call that was sent has no start event left to handle.
Settled == \A c \in Calls :
  phase[c] = "done" /\ c \notin refused => pending[c] = {}

Capped == \A c \in Calls, l \in Limited :
  Passed(c, l) => Declared[c] # None /\ Declared[c] <= MaxOutput[l]

PassedSet(l) == {c \in Calls : Passed(c, l)}

Counted == \A l \in Ledgers :
  Cardinality(PassedSet(l)) <= ledger[l].calls /\ ledger[l].calls <= MaxCalls[l]

IInv == Typed /\ UsageBounded /\ Settled /\ Capped /\ Counted /\ BudgetBounded

LEMMA CostType ==
  ASSUME NEW l \in Ledgers, NEW a \in Nat, NEW b \in Nat
  PROVE  Cost(l, a, b) \in Nat
BY LedgerAssumption DEF Cost

LEMMA TimesMonotone ==
  ASSUME NEW p \in Nat, NEW a \in Nat, NEW b \in Nat, a <= b
  PROVE  a * p <= b * p
<1>1. b - a \in Nat /\ (b - a) * p \in Nat
  OBVIOUS
<1>2. b * p = a * p + (b - a) * p
  OBVIOUS
<1> QED BY <1>1, <1>2

\* A larger input and a larger output cost no less.
LEMMA CostMonotone ==
  ASSUME NEW l \in Ledgers, NEW a \in Nat, NEW b \in Nat, NEW x \in Nat, NEW y \in Nat,
         a <= x, b <= y
  PROVE  Cost(l, a, b) <= Cost(l, x, y)
<1>1. InPrice[l] \in Nat /\ OutPrice[l] \in Nat
  BY LedgerAssumption
<1>2. a * InPrice[l] <= x * InPrice[l] /\ b * OutPrice[l] <= y * OutPrice[l]
  BY <1>1, TimesMonotone
<1>3. /\ a * InPrice[l] \in Nat /\ x * InPrice[l] \in Nat
      /\ b * OutPrice[l] \in Nat /\ y * OutPrice[l] \in Nat
  BY <1>1
<1> QED BY <1>2, <1>3 DEF Cost

LEMMA ReservationType ==
  ASSUME NEW c \in Calls, NEW l \in Ledgers
  PROVE  Reservation(c, l) \in Nat
BY LedgerAssumption, CostType DEF Reservation

LEMMA ActualType ==
  ASSUME Typed, NEW c \in Calls, NEW l \in Ledgers
  PROVE  Actual(c, l) \in Nat
BY CostType DEF Typed, Actual

\* A call that was sent costs no more than its ledger set aside for it.
LEMMA ActualBounded ==
  ASSUME Typed, UsageBounded, Capped, NEW c \in Calls, NEW l \in Limited,
         l \in Path[c], Sent(c)
  PROVE  Actual(c, l) <= Reservation(c, l)
<1>1. usage[c].input \in Nat /\ usage[c].output \in Nat /\ l \in Ledgers
  BY LedgerAssumption DEF Typed
<1>2. Declared[c] # None /\ Declared[c] <= MaxOutput[l]
  BY DEF Capped, Passed
<1>3. Estimate[c] \in Nat /\ MaxOutput[l] \in Nat /\ Declared[c] \in Nat
  BY <1>1, <1>2, LedgerAssumption
<1>4. usage[c].input <= Estimate[c] /\ usage[c].output <= MaxOutput[l]
  BY <1>1, <1>2, <1>3 DEF UsageBounded, OutputCap
<1> QED
  BY <1>1, <1>3, <1>4, CostMonotone DEF Actual, Reservation

\* Settling a call charges its ledgers no more than it had reserved.
LEMMA ChargeBounded ==
  ASSUME Typed, UsageBounded, Capped, NEW c \in Calls, NEW l \in Ledgers,
         l \in Path[c], phase[c] \in {"ended", "errored"}
  PROVE  /\ Charge(c, l) \in Nat
         /\ l \in Limited => Charge(c, l) <= Reservation(c, l)
<1>1. Actual(c, l) \in Nat /\ Reservation(c, l) \in Nat
  BY ActualType, ReservationType
<1>2. l \in Limited => Actual(c, l) <= Reservation(c, l)
  BY ActualBounded DEF Sent
<1> QED
  BY <1>1, <1>2 DEF Charge

\* A step under which no ledger gains a call keeps the count.
LEMMA CountShrinks ==
  ASSUME Counted, NEW l \in Ledgers, PassedSet(l)' \subseteq PassedSet(l)
  PROVE  Cardinality(PassedSet(l)') <= Cardinality(PassedSet(l))
         /\ Cardinality(PassedSet(l)') \in Nat /\ Cardinality(PassedSet(l)) \in Nat
<1>1. IsFiniteSet(PassedSet(l)) /\ IsFiniteSet(PassedSet(l)')
  BY LedgerAssumption, FS_Subset DEF PassedSet
<1> QED
  BY <1>1, FS_Subset, FS_CardinalityType

LEMMA InitIInv == Init => IInv
<1> SUFFICES ASSUME Init PROVE IInv
  OBVIOUS
<1>1. Typed /\ Settled
  BY DEF Init, Typed, Counters, Phases, NoUsage, Settled
<1>2. UsageBounded
  BY LedgerAssumption DEF Init, UsageBounded, NoUsage, OutputCap
<1>3. \A c \in Calls, l \in Ledgers : ~Passed(c, l)
  BY DEF Init, Passed, Sent
<1>4. Capped
  BY <1>3, LedgerAssumption DEF Capped
<1>5. \A l \in Ledgers : PassedSet(l) = {}
  BY <1>3 DEF PassedSet
<1>6. \A l \in Ledgers : Cardinality(PassedSet(l)) = 0
  BY <1>5, FS_EmptySet
<1>7. \A l \in Ledgers :
        ledger[l].calls = 0 /\ ledger[l].used = 0 /\ ledger[l].reserved = 0
  BY DEF Init
<1>8. Counted
  BY <1>6, <1>7, LedgerAssumption DEF Counted
<1>9. BudgetBounded
  BY <1>7, LedgerAssumption DEF BudgetBounded
<1> QED
  BY <1>1, <1>2, <1>4, <1>8, <1>9 DEF IInv

\* Most steps touch no ledger and make no ledger admit anything.
LEMMA QuietStep ==
  ASSUME IInv, Typed', UsageBounded', Settled', UNCHANGED ledger,
         \A c \in Calls, l \in Ledgers : Passed(c, l)' => Passed(c, l)
  PROVE  IInv'
<1>1. Capped'
  BY LedgerAssumption DEF IInv, Capped
<1>2. Counted'
  <2> SUFFICES ASSUME NEW l \in Ledgers
               PROVE  Cardinality(PassedSet(l)') <= ledger[l].calls /\ ledger[l].calls <= MaxCalls[l]
    BY DEF Counted
  <2>1. PassedSet(l)' \subseteq PassedSet(l)
    BY DEF PassedSet
  <2>2. ledger[l].calls \in Nat
    BY DEF IInv, Typed, Counters
  <2> QED
    BY <2>1, <2>2, CountShrinks DEF IInv, Counted
<1>3. BudgetBounded'
  BY DEF IInv, BudgetBounded
<1> QED
  BY <1>1, <1>2, <1>3 DEF IInv

LEMMA StartStep ==
  ASSUME IInv, NEW c \in Calls, NEW l \in Path[c], OnStart(c, l)
  PROVE  IInv'
<1> DEFINE admitted == Enforceable(c, l) /\ CallsLeft(l) /\ Affordable(c, l)
<1>1. /\ Typed /\ l \in Ledgers /\ phase[c] \in {"starting", "done"} /\ l \in pending[c]
      /\ pending' = [pending EXCEPT ![c] = @ \ {l}] /\ UNCHANGED <<phase, usage>>
  BY LedgerAssumption DEF IInv, OnStart
<1>2. UsageBounded'
  BY <1>1 DEF IInv, UsageBounded, OutputCap
<1>3. CASE ~admitted
  <2>1. refused' = refused \cup {c} /\ UNCHANGED ledger
    BY <1>3 DEF OnStart
  <2>2. Typed'
    BY <1>1, <2>1 DEF Typed
  <2>3. Settled'
    BY <1>1, <2>1 DEF IInv, Settled, Typed
  <2>4. \A d \in Calls, k \in Ledgers : Passed(d, k)' => Passed(d, k)
    BY <1>1, <2>1 DEF Passed, Sent, Typed
  <2> QED
    BY <1>2, <2>1, <2>2, <2>3, <2>4, QuietStep
<1>4. CASE admitted
  <2> DEFINE calls == ledger[l].calls + 1
             reserved == ledger[l].reserved + Reservation(c, l)
             r == [ledger[l] EXCEPT !.calls = calls, !.reserved = reserved]
  <2>0. ledger[l] \in Counters
    BY <1>1 DEF Typed
  <2>a. calls \in Nat /\ reserved \in Int
    BY <1>1, <2>0, ReservationType DEF Counters
  <2>1. ledger' = [ledger EXCEPT ![l] = r] /\ UNCHANGED refused
    BY <1>4, Zenon DEF OnStart, Reserve
  <2> HIDE DEF calls, reserved
  <2>b. r \in Counters /\ r.calls = calls /\ r.used = ledger[l].used /\ r.reserved = reserved
    BY <2>0, <2>a DEF Counters
  <2> HIDE DEF r
  <2>2. /\ r \in Counters /\ r.calls = ledger[l].calls + 1 /\ r.used = ledger[l].used
        /\ r.reserved = ledger[l].reserved + Reservation(c, l)
    BY <2>b DEF calls, reserved
  <2>3. /\ ledger'[l] = r /\ \A k \in Ledgers \ {l} : ledger'[k] = ledger[k]
    BY <1>1, <2>1 DEF Typed
  <2>4. Typed'
    BY <1>1, <2>1, <2>2 DEF Typed
  <2>5. Settled'
    BY <1>1, <2>1 DEF IInv, Settled, Typed
  <2>6. \A d \in Calls, k \in Ledgers :
          Passed(d, k)' => Passed(d, k) \/ (d = c /\ k = l)
    BY <1>1, <2>1 DEF Passed, Sent, Typed
  <2>7. Capped'
    BY <1>4, <2>6, LedgerAssumption DEF IInv, Capped, Enforceable
  <2>8. Counted'
    <3> SUFFICES ASSUME NEW k \in Ledgers
                 PROVE  /\ Cardinality(PassedSet(k)') <= ledger'[k].calls
                        /\ ledger'[k].calls <= MaxCalls[k]
      BY DEF Counted
    <3>1. /\ Cardinality(PassedSet(k)) <= ledger[k].calls /\ ledger[k].calls <= MaxCalls[k]
          /\ ledger[k].calls \in Nat /\ MaxCalls[k] \in Nat
      BY <1>1, LedgerAssumption DEF IInv, Counted, Typed, Counters
    <3>2. CASE k # l
      <4>1. PassedSet(k)' \subseteq PassedSet(k)
        BY <2>6, <3>2 DEF PassedSet
      <4> QED
        BY <3>1, <3>2, <2>3, <4>1, CountShrinks DEF IInv
    <3>3. CASE k = l
      <4>1. PassedSet(l)' \subseteq PassedSet(l) \cup {c}
        BY <1>1, <2>6 DEF PassedSet
      <4>2. IsFiniteSet(PassedSet(l))
        BY LedgerAssumption, FS_Subset DEF PassedSet
      <4> DEFINE P == PassedSet(l)
      <4>a. Cardinality(P) \in Nat /\ IsFiniteSet(P \cup {c})
            /\ Cardinality(P \cup {c}) = IF c \in P THEN Cardinality(P) ELSE Cardinality(P) + 1
        <5> HIDE DEF P
        <5>1. IsFiniteSet(P)
          BY <4>2 DEF P
        <5> QED
          BY <5>1, FS_AddElement, FS_CardinalityType
      <4>3. /\ IsFiniteSet(PassedSet(l) \cup {c})
            /\ Cardinality(PassedSet(l) \cup {c}) \in Nat
            /\ Cardinality(PassedSet(l) \cup {c}) <= Cardinality(PassedSet(l)) + 1
            /\ Cardinality(PassedSet(l)) \in Nat
        BY <4>a
      <4>4. /\ Cardinality(PassedSet(l)') <= Cardinality(PassedSet(l) \cup {c})
            /\ IsFiniteSet(PassedSet(l)')
        BY <4>1, <4>3, FS_Subset
      <4>5. Cardinality(PassedSet(l)') \in Nat
        BY <4>4, FS_CardinalityType
      <4>6. ledger[l].calls < MaxCalls[l]
        BY <1>4 DEF CallsLeft
      <4> QED
        BY <3>1, <3>3, <2>2, <2>3, <4>3, <4>4, <4>5, <4>6
    <3> QED
      BY <3>2, <3>3
  <2>9. BudgetBounded'
    <3> SUFFICES ASSUME NEW k \in Limited
                 PROVE  ledger'[k].used + ledger'[k].reserved <= Limit[k]
      BY DEF BudgetBounded
    <3>1. k \in Ledgers
      BY LedgerAssumption
    <3>2. CASE k # l
      BY <2>3, <3>1, <3>2 DEF IInv, BudgetBounded
    <3>3. CASE k = l
      <4>1. ledger[l].used + ledger[l].reserved + Reservation(c, l) <= Limit[l]
        BY <1>4, <3>3 DEF Affordable
      <4>2. ledger[l].used \in Int /\ ledger[l].reserved \in Int /\ Reservation(c, l) \in Int
        BY <1>1, ReservationType DEF Typed, Counters
      <4> QED
        BY <3>3, <2>2, <2>3, <4>1, <4>2, LedgerAssumption
    <3> QED
      BY <3>2, <3>3
  <2> QED
    BY <1>2, <2>4, <2>5, <2>7, <2>8, <2>9 DEF IInv
<1> QED
  BY <1>3, <1>4

LEMMA EndStep ==
  ASSUME IInv, NEW c \in Calls, NEW l \in Path[c], OnEnd(c, l)
  PROVE  IInv'
<1> DEFINE reserved == ledger[l].reserved - Reservation(c, l)
           used == ledger[l].used + Charge(c, l)
           missing == ledger[l].missing \/ ~usage[c].reported
           r == [ledger[l] EXCEPT !.reserved = reserved, !.used = used, !.missing = missing]
<1>1. /\ Typed /\ l \in Ledgers /\ phase[c] \in {"ended", "errored"}
      /\ pending' = [pending EXCEPT ![c] = @ \ {l}] /\ UNCHANGED <<phase, refused, usage>>
      /\ ledger' = [ledger EXCEPT ![l] = r]
  <2>1. Typed /\ l \in Ledgers
    BY LedgerAssumption DEF IInv
  <2> QED
    BY <2>1, Zenon DEF OnEnd, Settle
<1>2. Charge(c, l) \in Nat /\ (l \in Limited => Charge(c, l) <= Reservation(c, l))
      /\ Reservation(c, l) \in Nat
  BY <1>1, ChargeBounded, ReservationType DEF IInv
<1>3. ledger[l] \in Counters /\ usage[c].reported \in BOOLEAN
  BY <1>1 DEF Typed
<1>a. reserved \in Int /\ used \in Nat /\ missing \in BOOLEAN
  BY <1>2, <1>3 DEF Counters
<1> HIDE DEF reserved, used, missing
<1>b. r \in Counters /\ r.calls = ledger[l].calls /\ r.used = used /\ r.reserved = reserved
  BY <1>3, <1>a DEF Counters
<1> HIDE DEF r
<1>4. /\ r \in Counters /\ r.calls = ledger[l].calls
      /\ r.used = ledger[l].used + Charge(c, l)
      /\ r.reserved = ledger[l].reserved - Reservation(c, l)
  BY <1>b DEF reserved, used
<1>5. ledger'[l] = r /\ \A k \in Ledgers \ {l} : ledger'[k] = ledger[k]
  BY <1>1 DEF Typed
<1>6. Typed'
  BY <1>1, <1>4 DEF Typed
<1>7. UsageBounded' /\ Settled'
  BY <1>1 DEF IInv, UsageBounded, OutputCap, Settled, Typed
<1>8. \A d \in Calls, k \in Ledgers : Passed(d, k)' => Passed(d, k)
  BY <1>1 DEF Passed, Sent, Typed
<1>9. Capped'
  BY <1>8, LedgerAssumption DEF IInv, Capped
<1>10. Counted'
  <2> SUFFICES ASSUME NEW k \in Ledgers
               PROVE  /\ Cardinality(PassedSet(k)') <= ledger'[k].calls
                      /\ ledger'[k].calls <= MaxCalls[k]
    BY DEF Counted
  <2>1. PassedSet(k)' \subseteq PassedSet(k)
    BY <1>8 DEF PassedSet
  <2>2. ledger'[k].calls = ledger[k].calls /\ ledger[k].calls \in Nat
    BY <1>1, <1>4, <1>5 DEF Typed, Counters
  <2> QED
    BY <2>1, <2>2, CountShrinks DEF IInv, Counted
<1>11. BudgetBounded'
  <2> SUFFICES ASSUME NEW k \in Limited
               PROVE  ledger'[k].used + ledger'[k].reserved <= Limit[k]
    BY DEF BudgetBounded
  <2>1. k \in Ledgers /\ Limit[k] \in Nat /\ ledger[k].used + ledger[k].reserved <= Limit[k]
    BY LedgerAssumption DEF IInv, BudgetBounded
  <2>2. CASE k # l
    BY <1>5, <2>1, <2>2
  <2>3. CASE k = l
    <3>1. ledger[l].used \in Nat /\ ledger[l].reserved \in Int
      BY <1>3 DEF Counters
    <3> QED
      BY <1>2, <1>4, <1>5, <2>1, <2>3, <3>1
  <2> QED
    BY <2>2, <2>3
<1> QED
  BY <1>6, <1>7, <1>9, <1>10, <1>11 DEF IInv

LEMMA StepIInv == IInv /\ [Next]_vars => IInv'
<1> SUFFICES ASSUME IInv, [Next]_vars PROVE IInv'
  OBVIOUS
<1>t. Typed
  BY DEF IInv
<1>1. ASSUME NEW c \in Calls, Request(c) \/ RaiseRefusal(c) \/ Send(c) \/ Finish(c)
      PROVE  IInv'
  <2>1. UNCHANGED <<ledger, refused, usage>>
    BY <1>1 DEF Request, RaiseRefusal, Send, Finish
  <2>2. Typed'
    BY <1>1, <1>t, LedgerAssumption DEF Request, RaiseRefusal, Send, Finish, Typed, Phases
  <2>3. UsageBounded'
    BY <2>1 DEF IInv, UsageBounded, OutputCap
  <2>4. Settled'
    BY <1>1, <1>t DEF IInv, Request, RaiseRefusal, Send, Finish, Settled, Typed
  <2>5. \A d \in Calls, k \in Ledgers : Passed(d, k)' => Passed(d, k)
    BY <1>1, <1>t DEF Request, RaiseRefusal, Send, Finish, Passed, Sent, Typed
  <2> QED
    BY <2>1, <2>2, <2>3, <2>4, <2>5, QuietStep
<1>2. ASSUME NEW c \in Calls, Outcome(c) PROVE IInv'
  <2>1. PICK input \in 0..Estimate[c], output \in 0..OutputCap(c),
             to \in {"ended", "errored", "abandoned"}, reported \in BOOLEAN :
          /\ phase' = [phase EXCEPT ![c] = to]
          /\ usage' = [usage EXCEPT ![c] =
               [input |-> input, output |-> output, reported |-> reported]]
          /\ pending' = [pending EXCEPT ![c] = IF to = "abandoned" THEN {} ELSE Path[c]]
    BY <1>2 DEF Outcome
  <2>2. phase[c] = "invoking" /\ UNCHANGED <<ledger, refused>>
    BY <1>2 DEF Outcome
  <2>3. /\ input \in Nat /\ output \in Nat
        /\ input <= Estimate[c] /\ output <= OutputCap(c)
    BY LedgerAssumption DEF OutputCap
  <2>4. Typed'
    BY <1>t, <2>1, <2>2, <2>3, LedgerAssumption DEF Typed, Phases
  <2>5. UsageBounded'
    BY <1>t, <2>1, <2>3 DEF IInv, UsageBounded, OutputCap, Typed
  <2>6. Settled'
    BY <1>t, <2>1, <2>2 DEF IInv, Settled, Typed
  <2>7. \A d \in Calls, k \in Ledgers : Passed(d, k)' => Passed(d, k)
    BY <1>t, <2>1, <2>2 DEF Passed, Sent, Typed
  <2> QED
    BY <2>2, <2>4, <2>5, <2>6, <2>7, QuietStep
<1>3. CASE UNCHANGED vars
  <2>1. UNCHANGED <<ledger, phase, pending, refused, usage>>
    BY <1>3 DEF vars
  <2>2. Typed' /\ Settled' /\ UsageBounded'
    BY <2>1 DEF IInv, Typed, Settled, UsageBounded, OutputCap
  <2> QED
    BY <2>1, <2>2, QuietStep DEF Passed, Sent
<1> QED
  BY <1>1, <1>2, <1>3, StartStep, EndStep DEF Next

LEMMA IInvAlways == Spec => []IInv
BY InitIInv, StepIInv, PTL DEF Spec

\* A ledger with a money limit never promises more than it, whatever calls
\* are in flight.
THEOREM BudgetAlwaysBounded == Spec => []BudgetBounded
BY IInvAlways, PTL DEF IInv

\* No agent makes more provider calls than its budget permits.
THEOREM CallBudgetHolds == Spec => []CallBudget
<1>1. IInv => CallBudget
  <2> SUFFICES ASSUME IInv, NEW l \in Ledgers
               PROVE  Cardinality(SentThrough(l)) <= MaxCalls[l]
    BY DEF CallBudget
  <2>1. SentThrough(l) \subseteq PassedSet(l) /\ IsFiniteSet(PassedSet(l))
    BY LedgerAssumption, FS_Subset DEF SentThrough, PassedSet, Passed
  <2>2. /\ Cardinality(SentThrough(l)) <= Cardinality(PassedSet(l))
        /\ Cardinality(PassedSet(l)) \in Nat /\ IsFiniteSet(SentThrough(l))
    BY <2>1, FS_Subset, FS_CardinalityType
  <2>3. Cardinality(SentThrough(l)) \in Nat
    BY <2>2, FS_CardinalityType
  <2>4. /\ Cardinality(PassedSet(l)) <= ledger[l].calls /\ ledger[l].calls <= MaxCalls[l]
        /\ ledger[l].calls \in Nat /\ MaxCalls[l] \in Nat
    BY LedgerAssumption DEF IInv, Counted, Typed, Counters
  <2> QED
    BY <2>2, <2>3, <2>4
<1> QED
  BY <1>1, IInvAlways, PTL

(***************************************************************************)
(* Sums over finite sets. MapThenSumSet is a recursive function, and what  *)
(* it computes is shown by induction: of the sets for which a claim fails, *)
(* one would be smallest.                                                  *)
(***************************************************************************)
\* The element that MapThenSumSet takes out of a set.
Some(s) == CHOOSE x \in s : TRUE

\* g is the recursive function that sums f over the subsets of S.
Sums(g, f, S) ==
  g = [s \in SUBSET S |-> IF s = {} THEN 0 ELSE f[Some(s)] + g[s \ {Some(s)}]]

Total(f, S) == (CHOOSE g : Sums(g, f, S))[S]

LEMMA SomeIn == \A s : s # {} => Some(s) \in s /\ s \ {Some(s)} # s
BY DEF Some

\* Induction on finite sets: of the sets for which a claim fails, one is smallest.
LEMMA Smallest ==
  ASSUME NEW S, IsFiniteSet(S), NEW T \in SUBSET SUBSET S, T # {}
  PROVE  \E u \in T : \A v \in T : ~(v \subseteq u /\ v # u)
<1>1. IsWellFoundedOn(StrictSubsetOrdering(S), SUBSET S)
  BY FS_StrictSubsetOrderingWellFounded, FS_FiniteSubsetsOfFinite
<1>2. \E u \in T : \A v \in T : <<v, u>> \notin StrictSubsetOrdering(S)
  BY <1>1, WFMin
<1> QED
  BY <1>2 DEF StrictSubsetOrdering

LEMMA SumsAt ==
  ASSUME NEW g, NEW f, NEW S, Sums(g, f, S), NEW s \in SUBSET S
  PROVE  g[s] = IF s = {} THEN 0 ELSE f[Some(s)] + g[s \ {Some(s)}]
BY DEF Sums

\* Two such functions agree where both are defined.
LEMMA SumsAgree ==
  ASSUME NEW f, NEW g, NEW S, Sums(g, f, S), NEW h, NEW R, Sums(h, f, R), IsFiniteSet(S),
         NEW t \in SUBSET S, t \subseteq R
  PROVE  g[t] = h[t]
<1> DEFINE T == {s \in SUBSET t : g[s] # h[s]}
<1>1. IsFiniteSet(t)
  BY FS_Subset
<1>2. SUFFICES ASSUME T # {} PROVE FALSE
  OBVIOUS
<1>3. PICK u \in T : \A v \in T : ~(v \subseteq u /\ v # u)
  <2>1. T \in SUBSET SUBSET t
    OBVIOUS
  <2> HIDE DEF T
  <2> QED
    BY <1>1, <1>2, <2>1, Smallest
<1>4. u \in SUBSET S /\ u \in SUBSET R /\ u \in SUBSET t /\ g[u] # h[u]
  BY <1>3
<1>5. CASE u = {}
  BY <1>4, <1>5, SumsAt
<1>6. CASE u # {}
  <2>1. Some(u) \in u /\ u \ {Some(u)} # u
    BY <1>6, SomeIn
  <2>2. u \ {Some(u)} \notin T
    BY <1>3, <2>1
  <2>3. g[u \ {Some(u)}] = h[u \ {Some(u)}]
    BY <1>4, <2>2
  <2>4. g[u] = f[Some(u)] + g[u \ {Some(u)}] /\ h[u] = f[Some(u)] + h[u \ {Some(u)}]
    BY <1>4, <1>6, SumsAt
  <2> QED
    BY <1>4, <2>3, <2>4
<1> QED
  BY <1>5, <1>6

\* There is such a function for every finite set.
LEMMA SumsExist ==
  ASSUME NEW f, NEW S, IsFiniteSet(S)
  PROVE  \E g : Sums(g, f, S)
<1> DEFINE T == {s \in SUBSET S : ~ \E g : Sums(g, f, s)}
<1>1. SUFFICES ASSUME T # {} PROVE FALSE
  OBVIOUS
<1>2. PICK u \in T : \A v \in T : ~(v \subseteq u /\ v # u)
  <2>1. T \in SUBSET SUBSET S
    OBVIOUS
  <2> HIDE DEF T
  <2> QED
    BY <1>1, <2>1, Smallest
<1> DEFINE H(t) == CHOOSE g : Sums(g, f, t)
<1>3. ASSUME NEW t \in SUBSET u, t # u PROVE Sums(H(t), f, t) /\ IsFiniteSet(t)
  <2>1. t \in SUBSET S /\ t \notin T
    BY <1>2, <1>3
  <2>2. \E g : Sums(g, f, t)
    BY <2>1
  <2> QED
    BY <2>1, <2>2, FS_Subset
<1> DEFINE d(t) == IF t = {} THEN 0 ELSE f[Some(t)] + H(t \ {Some(t)})[t \ {Some(t)}]
           k == [t \in SUBSET u |-> d(t)]
<1>4. ASSUME NEW t \in SUBSET u, t # u PROVE k[t] = H(t)[t]
  <2>1. Sums(H(t), f, t) /\ IsFiniteSet(t)
    BY <1>3, <1>4
  <2> HIDE DEF H
  <2>2. H(t)[t] = IF t = {} THEN 0 ELSE f[Some(t)] + H(t)[t \ {Some(t)}]
    BY <2>1, SumsAt
  <2>3. ASSUME t # {} PROVE H(t)[t \ {Some(t)}] = H(t \ {Some(t)})[t \ {Some(t)}]
    <3> DEFINE r == t \ {Some(t)}
    <3>1. Some(t) \in t /\ r \in SUBSET t /\ r # u
      BY <1>4, <2>3, SomeIn
    <3>2. Sums(H(r), f, r)
      BY <1>3, <1>4, <3>1
    <3> HIDE DEF r
    <3>3. H(t)[r] = H(r)[r]
      BY <2>1, <3>1, <3>2, SumsAgree
    <3> QED
      BY <3>3 DEF r
  <2> QED
    BY <2>2, <2>3
<1> HIDE DEF H
<1>5. ASSUME NEW t \in SUBSET u
      PROVE  k[t] = IF t = {} THEN 0 ELSE f[Some(t)] + k[t \ {Some(t)}]
  <2>1. CASE t = {}
    BY <2>1
  <2>2. CASE t # {}
    <3>1. t \ {Some(t)} \in SUBSET u /\ t \ {Some(t)} # u
      BY <2>2, SomeIn
    <3>2. k[t \ {Some(t)}] = H(t \ {Some(t)})[t \ {Some(t)}]
      BY <1>4, <3>1
    <3>3. k[t] = f[Some(t)] + H(t \ {Some(t)})[t \ {Some(t)}]
      BY <2>2
    <3> QED
      BY <2>2, <3>2, <3>3
  <2> QED
    BY <2>1, <2>2
<1>6. DOMAIN k = SUBSET u /\ k = [t \in SUBSET u |-> k[t]]
  OBVIOUS
<1> HIDE DEF k, d
<1>7. [t \in SUBSET u |-> k[t]]
        = [t \in SUBSET u |-> IF t = {} THEN 0 ELSE f[Some(t)] + k[t \ {Some(t)}]]
  BY <1>5
<1>8. Sums(k, f, u)
  BY <1>6, <1>7 DEF Sums
<1> QED
  BY <1>2, <1>8

\* The sum of f over S, whatever g computes it.
LEMMA TotalIs ==
  ASSUME NEW f, NEW S, IsFiniteSet(S), NEW g, Sums(g, f, S), NEW s \in SUBSET S
  PROVE  g[s] = Total(f, s)
<1>1. IsFiniteSet(s)
  BY FS_Subset
<1>2. \E h : Sums(h, f, s)
  BY <1>1, SumsExist
<1> DEFINE h == CHOOSE h : Sums(h, f, s)
<1>3. Sums(h, f, s)
  BY <1>2
<1> HIDE DEF h
<1>4. g[s] = h[s]
  BY <1>3, SumsAgree
<1> QED
  BY <1>4 DEF Total, h

\* The equation of MapThenSumSet, for the sum itself.
LEMMA TotalAt ==
  ASSUME NEW f, NEW s, IsFiniteSet(s)
  PROVE  Total(f, s) = IF s = {} THEN 0 ELSE f[Some(s)] + Total(f, s \ {Some(s)})
<1>1. PICK g : Sums(g, f, s)
  BY SumsExist
<1>2. \A t \in SUBSET s : g[t] = Total(f, t)
  BY <1>1, TotalIs
<1>3. g[s] = IF s = {} THEN 0 ELSE f[Some(s)] + g[s \ {Some(s)}]
  BY <1>1, SumsAt
<1> QED
  BY <1>2, <1>3

\* The sum does not depend on the order of its terms.
LEMMA TotalWithout ==
  ASSUME NEW S, IsFiniteSet(S), NEW f \in [S -> Int]
  PROVE  /\ \A s \in SUBSET S : Total(f, s) \in Int
         /\ \A s \in SUBSET S, x \in S : x \in s => Total(f, s) = f[x] + Total(f, s \ {x})
<1> DEFINE Good(s) == /\ Total(f, s) \in Int
                      /\ \A x \in s : Total(f, s) = f[x] + Total(f, s \ {x})
           T == {s \in SUBSET S : ~Good(s)}
<1>1. SUFFICES ASSUME T # {} PROVE FALSE
  OBVIOUS
<1>2. PICK u \in T : \A v \in T : ~(v \subseteq u /\ v # u)
  <2>1. T \in SUBSET SUBSET S
    OBVIOUS
  <2> HIDE DEF T
  <2> QED
    BY <1>1, <2>1, Smallest
<1>3. u \in SUBSET S /\ ~Good(u) /\ \A v \in SUBSET u : v # u => Good(v)
  BY <1>2
<1> HIDE DEF T
<1>4. IsFiniteSet(u)
  BY <1>3, FS_Subset
<1>5. CASE u = {}
  <2>1. Total(f, u) = 0
    BY <1>4, <1>5, TotalAt
  <2> QED
    BY <1>3, <1>5, <2>1
<1>6. CASE u # {}
  <2> DEFINE p == Some(u)
  <2>1. p \in u /\ Total(f, u) = f[p] + Total(f, u \ {p})
    BY <1>4, <1>6, SomeIn, TotalAt
  <2> HIDE DEF p
  <2>2. Good(u \ {p})
    BY <1>3, <2>1
  <2>3. Total(f, u) \in Int
    BY <1>3, <2>1, <2>2
  <2>4. ASSUME NEW x \in u, x # p PROVE Total(f, u) = f[x] + Total(f, u \ {x})
    <3>1. Good(u \ {x}) /\ Good((u \ {x}) \ {p})
      BY <1>3, <2>4
    <3>2. Total(f, u \ {p}) = f[x] + Total(f, (u \ {p}) \ {x})
      BY <2>2, <2>4
    <3>3. Total(f, u \ {x}) = f[p] + Total(f, (u \ {x}) \ {p})
      BY <2>1, <2>4, <3>1
    <3>4. Total(f, (u \ {p}) \ {x}) = Total(f, (u \ {x}) \ {p})
      <4>1. (u \ {p}) \ {x} = (u \ {x}) \ {p}
        OBVIOUS
      <4> QED
        BY <4>1, Zenon
    <3>5. f[x] \in Int /\ f[p] \in Int /\ Total(f, (u \ {x}) \ {p}) \in Int
      BY <1>3, <2>1, <2>4, <3>1
    <3> HIDE DEF Good
    <3> QED
      BY <2>1, <3>2, <3>3, <3>4, <3>5
  <2> QED
    BY <1>3, <2>1, <2>3, <2>4
<1> QED
  BY <1>5, <1>6

\* A sum covers another whose terms are not larger, over a smaller set.
LEMMA TotalCovers ==
  ASSUME NEW S, IsFiniteSet(S), NEW f \in [S -> Int], NEW h \in [S -> Int], NEW t \in SUBSET S,
         \A x \in t : f[x] <= h[x], \A x \in S : h[x] >= 0
  PROVE  Total(f, t) <= Total(h, S)
<1> DEFINE T == {s \in SUBSET S : ~(Total(f, s \cap t) <= Total(h, s))}
<1>1. SUFFICES ASSUME T # {} PROVE FALSE
  <2>1. Total(f, S \cap t) <= Total(h, S)
    BY <1>1
  <2>2. S \cap t = t
    OBVIOUS
  <2> QED
    BY <2>1, <2>2
<1>2. PICK u \in T : \A v \in T : ~(v \subseteq u /\ v # u)
  <2>1. T \in SUBSET SUBSET S
    OBVIOUS
  <2> HIDE DEF T
  <2> QED
    BY <1>1, <2>1, Smallest
<1>3. u \in SUBSET S /\ ~(Total(f, u \cap t) <= Total(h, u))
      /\ \A v \in SUBSET u : v # u => Total(f, v \cap t) <= Total(h, v)
  BY <1>2
<1> HIDE DEF T
<1>4. Total(f, {}) = 0 /\ Total(h, {}) = 0
  BY FS_EmptySet, TotalAt
<1>5. ASSUME u = {} PROVE FALSE
  <2>1. u \cap t = {}
    BY <1>5
  <2>2. Total(f, u \cap t) = 0 /\ Total(h, u) = 0
    BY <1>4, <1>5, <2>1, Zenon
  <2> QED
    BY <1>3, <2>2
<1>6. PICK x \in u : TRUE
  BY <1>5
<1>7. Total(f, (u \ {x}) \cap t) <= Total(h, u \ {x})
  BY <1>3, <1>6
<1>8. Total(h, u) = h[x] + Total(h, u \ {x}) /\ h[x] \in Int /\ h[x] >= 0
      /\ Total(h, u \ {x}) \in Int /\ Total(f, (u \ {x}) \cap t) \in Int
  BY <1>3, <1>6, TotalWithout
<1>9. CASE x \in t
  <2>1. x \in u \cap t /\ u \cap t \in SUBSET S /\ x \in S
    BY <1>3, <1>6, <1>9
  <2>2. Total(f, u \cap t) = f[x] + Total(f, (u \cap t) \ {x}) /\ f[x] \in Int /\ f[x] <= h[x]
    BY <1>9, <2>1, TotalWithout
  <2>3. Total(f, (u \cap t) \ {x}) = Total(f, (u \ {x}) \cap t)
    <3>1. (u \cap t) \ {x} = (u \ {x}) \cap t
      OBVIOUS
    <3> QED
      BY <3>1, Zenon
  <2> QED
    BY <1>3, <1>7, <1>8, <2>2, <2>3
<1>10. CASE x \notin t
  <2>1. Total(f, (u \ {x}) \cap t) = Total(f, u \cap t)
    <3>1. (u \ {x}) \cap t = u \cap t
      BY <1>10
    <3> QED
      BY <3>1, Zenon
  <2> QED
    BY <1>3, <1>7, <1>8, <2>1
<1> QED
  BY <1>9, <1>10

\* Two sums with the same terms, up to terms that are 0.
LEMMA TotalSame ==
  ASSUME NEW S, IsFiniteSet(S), NEW f \in [S -> Int], NEW h \in [S -> Int], NEW t \in SUBSET S,
         \A x \in t : f[x] = h[x], \A x \in S \ t : h[x] = 0
  PROVE  Total(f, t) = Total(h, S)
<1> DEFINE T == {s \in SUBSET S : Total(f, s \cap t) # Total(h, s)}
<1>1. SUFFICES ASSUME T # {} PROVE FALSE
  <2>1. Total(f, S \cap t) = Total(h, S)
    BY <1>1
  <2>2. S \cap t = t
    OBVIOUS
  <2> QED
    BY <2>1, <2>2
<1>2. PICK u \in T : \A v \in T : ~(v \subseteq u /\ v # u)
  <2>1. T \in SUBSET SUBSET S
    OBVIOUS
  <2> HIDE DEF T
  <2> QED
    BY <1>1, <2>1, Smallest
<1>3. u \in SUBSET S /\ Total(f, u \cap t) # Total(h, u)
      /\ \A v \in SUBSET u : v # u => Total(f, v \cap t) = Total(h, v)
  BY <1>2
<1> HIDE DEF T
<1>4. Total(f, {}) = 0 /\ Total(h, {}) = 0
  BY FS_EmptySet, TotalAt
<1>5. ASSUME u = {} PROVE FALSE
  <2>1. u \cap t = {}
    BY <1>5
  <2>2. Total(f, u \cap t) = 0 /\ Total(h, u) = 0
    BY <1>4, <1>5, <2>1, Zenon
  <2> QED
    BY <1>3, <2>2
<1>6. PICK x \in u : TRUE
  BY <1>5
<1>7. Total(f, (u \ {x}) \cap t) = Total(h, u \ {x})
  BY <1>3, <1>6
<1>8. Total(h, u) = h[x] + Total(h, u \ {x}) /\ h[x] \in Int
      /\ Total(h, u \ {x}) \in Int /\ Total(f, (u \ {x}) \cap t) \in Int
  BY <1>3, <1>6, TotalWithout
<1>9. CASE x \in t
  <2>1. x \in u \cap t /\ u \cap t \in SUBSET S /\ x \in S
    BY <1>3, <1>6, <1>9
  <2>2. Total(f, u \cap t) = f[x] + Total(f, (u \cap t) \ {x}) /\ f[x] = h[x]
    BY <1>9, <2>1, TotalWithout
  <2>3. Total(f, (u \cap t) \ {x}) = Total(f, (u \ {x}) \cap t)
    <3>1. (u \cap t) \ {x} = (u \ {x}) \cap t
      OBVIOUS
    <3> QED
      BY <3>1, Zenon
  <2> QED
    BY <1>3, <1>7, <1>8, <2>2, <2>3
<1>10. CASE x \notin t
  <2>1. Total(f, (u \ {x}) \cap t) = Total(f, u \cap t)
    <3>1. (u \ {x}) \cap t = u \cap t
      BY <1>10
    <3> QED
      BY <3>1, Zenon
  <2>2. h[x] = 0
    BY <1>3, <1>6, <1>10
  <2> QED
    BY <1>3, <1>7, <1>8, <2>1, <2>2
<1> QED
  BY <1>9, <1>10

\* One term changes.
LEMMA TotalChanged ==
  ASSUME NEW S, IsFiniteSet(S), NEW f \in [S -> Int], NEW h \in [S -> Int], NEW x \in S,
         \A y \in S \ {x} : h[y] = f[y]
  PROVE  Total(h, S) = Total(f, S) + h[x] - f[x] /\ Total(f, S) \in Int
<1>1. /\ Total(f, S) = f[x] + Total(f, S \ {x}) /\ Total(h, S) = h[x] + Total(h, S \ {x})
      /\ f[x] \in Int /\ h[x] \in Int /\ Total(f, S) \in Int /\ Total(f, S \ {x}) \in Int
  BY TotalWithout
<1> DEFINE R == S \ {x}
           k == [y \in S |-> IF y = x THEN 0 ELSE f[y]]
<1>2. /\ k \in [S -> Int] /\ R \in SUBSET S /\ \A y \in S \ R : k[y] = 0
      /\ \A y \in R : f[y] = k[y]
      /\ \A y \in R : h[y] = k[y]
  OBVIOUS
<1> HIDE DEF R, k
<1>3. Total(f, R) = Total(k, S)
  BY <1>2, TotalSame
<1>4. Total(h, R) = Total(k, S)
  BY <1>2, TotalSame
<1> QED
  BY <1>1, <1>3, <1>4 DEF R

\* A sum of sums.
LEMMA TotalAdds ==
  ASSUME NEW S, IsFiniteSet(S), NEW f \in [S -> Int], NEW h \in [S -> Int]
  PROVE  Total([x \in S |-> f[x] + h[x]], S) = Total(f, S) + Total(h, S)
<1> DEFINE k == [x \in S |-> f[x] + h[x]]
           T == {s \in SUBSET S : Total(k, s) # Total(f, s) + Total(h, s)}
<1>1. SUFFICES ASSUME T # {} PROVE FALSE
  OBVIOUS
<1>2. PICK u \in T : \A v \in T : ~(v \subseteq u /\ v # u)
  <2>1. T \in SUBSET SUBSET S
    OBVIOUS
  <2> HIDE DEF T
  <2> QED
    BY <1>1, <2>1, Smallest
<1>0. k \in [S -> Int] /\ \A x \in S : k[x] = f[x] + h[x] /\ f[x] \in Int /\ h[x] \in Int
  OBVIOUS
<1> HIDE DEF k
<1>3. u \in SUBSET S /\ Total(k, u) # Total(f, u) + Total(h, u)
      /\ \A v \in SUBSET u : v # u => Total(k, v) = Total(f, v) + Total(h, v)
  BY <1>2
<1> HIDE DEF T
<1>4. Total(f, {}) = 0 /\ Total(h, {}) = 0 /\ Total(k, {}) = 0
  BY FS_EmptySet, TotalAt
<1>a. ASSUME u = {} PROVE FALSE
  <2>1. Total(f, u) = 0 /\ Total(h, u) = 0 /\ Total(k, u) = 0
    BY <1>4, <1>a, Zenon
  <2> QED
    BY <1>3, <2>1
<1>5. PICK x \in u : TRUE
  BY <1>a
<1>6. x \in S /\ Total(k, u \ {x}) = Total(f, u \ {x}) + Total(h, u \ {x})
  BY <1>3, <1>5
<1>7. Total(f, u) = f[x] + Total(f, u \ {x}) /\ Total(f, u \ {x}) \in Int
  BY <1>3, <1>6, TotalWithout
<1>8. Total(h, u) = h[x] + Total(h, u \ {x}) /\ Total(h, u \ {x}) \in Int
  BY <1>3, <1>6, TotalWithout
<1>9. Total(k, u) = k[x] + Total(k, u \ {x})
  BY <1>0, <1>3, <1>6, TotalWithout
<1> QED
  BY <1>0, <1>3, <1>6, <1>7, <1>8, <1>9

(***************************************************************************)
(* The books: what a ledger has reserved and used are sums over its calls. *)
(***************************************************************************)
\* The call's answer has been charged to the ledger.
Charged(c, l) ==
  /\ l \in Path[c] /\ l \notin pending[c]
  /\ phase[c] \in {"ended", "errored"} \/ (phase[c] = "done" /\ c \notin refused)

\* What the ledger holds back, and has billed, for each call.
Held(l) == [c \in Calls |-> IF c \in open[l] THEN Reservation(c, l) ELSE 0]

Billed(l) == [c \in Calls |-> IF Charged(c, l) THEN Charge(c, l) ELSE 0]

\* Which calls a ledger holds a reservation for.
Opened == \A c \in Calls, l \in Ledgers :
  /\ pending[c] \subseteq Path[c]
  /\ c \in open[l] => l \in Path[c] /\ phase[c] # "idle"
  /\ phase[c] \in {"invoking", "ended", "errored", "abandoned"} => c \notin refused
  /\ phase[c] = "starting" =>
       /\ c \in open[l] => l \notin pending[c]
       /\ l \in Path[c] /\ l \notin pending[c] /\ c \notin refused => c \in open[l]
  /\ phase[c] \in {"invoking", "abandoned"} => (c \in open[l] <=> l \in Path[c])
  /\ phase[c] \in {"ended", "errored"} => (c \in open[l] <=> l \in pending[c])
  /\ phase[c] = "done" /\ c \in open[l] => c \in refused /\ l \notin pending[c]

\* What is not missing was reported.
Reported == \A c \in Calls, l \in Ledgers :
  Charged(c, l) /\ ~ledger[l].missing => usage[c].reported

Balanced == \A l \in Ledgers :
  ledger[l].reserved = Total(Held(l), Calls) /\ ledger[l].used = Total(Billed(l), Calls)

Books == open \in [Ledgers -> SUBSET Calls] /\ Opened /\ Reported /\ Balanced

LEMMA HeldType ==
  ASSUME NEW l \in Ledgers
  PROVE  Held(l) \in [Calls -> Nat]
BY ReservationType DEF Held

LEMMA ChargeType ==
  ASSUME Typed, NEW c \in Calls, NEW l \in Ledgers
  PROVE  Charge(c, l) \in Nat
BY ActualType, ReservationType DEF Charge

LEMMA BilledType ==
  ASSUME Typed, NEW l \in Ledgers
  PROVE  Billed(l) \in [Calls -> Nat]
BY ChargeType DEF Billed

LEMMA InitBooks == Init => Books
<1> SUFFICES ASSUME Init PROVE Books
  OBVIOUS
<1>1. open \in [Ledgers -> SUBSET Calls] /\ Opened /\ Reported
  BY DEF Init, Opened, Reported, Charged
<1>2. ASSUME NEW l \in Ledgers
      PROVE  ledger[l].reserved = Total(Held(l), Calls) /\ ledger[l].used = Total(Billed(l), Calls)
  <2> DEFINE zero == [c \in Calls |-> 0]
  <2>1. Held(l) = zero /\ Billed(l) = zero
    BY <1>2 DEF Init, Held, Billed, Charged
  <2>2. zero \in [Calls -> Int] /\ {} \in SUBSET Calls /\ \A x \in Calls : zero[x] = 0
    OBVIOUS
  <2> HIDE DEF zero
  <2>3. Total(zero, {}) = Total(zero, Calls)
    BY <2>2, TotalSame, LedgerAssumption
  <2>4. Total(zero, {}) = 0
    BY FS_EmptySet, TotalAt
  <2>5. ledger[l].reserved = 0 /\ ledger[l].used = 0
    BY DEF Init
  <2> QED
    BY <2>1, <2>3, <2>4, <2>5
<1> QED
  BY <1>1, <1>2 DEF Books, Balanced

\* Most steps leave the books alone.
LEMMA BooksKept ==
  ASSUME Books, UNCHANGED <<ledger, open>>, Opened',
         \A c \in Calls, l \in Ledgers :
           (Charged(c, l)' <=> Charged(c, l)) /\ (Charged(c, l) => usage'[c] = usage[c])
  PROVE  Books'
<1>1. Reported'
  BY DEF Books, Reported
<1>2. ASSUME NEW l \in Ledgers
      PROVE  /\ ledger'[l].reserved = Total(Held(l), Calls)'
             /\ ledger'[l].used = Total(Billed(l), Calls)'
  <2>1. Held(l)' = Held(l)
    BY DEF Held
  <2>2. Billed(l)' = Billed(l)
    BY DEF Billed, Charge, Actual
  <2> QED
    BY <2>1, <2>2 DEF Books, Balanced
<1>3. open' \in [Ledgers -> SUBSET Calls]
  BY DEF Books
<1> QED
  BY <1>1, <1>2, <1>3 DEF Books, Balanced

\* Admitting a call adds its reservation, and refusing it nothing.
LEMMA BooksStarted ==
  ASSUME IInv, Books, NEW c \in Calls, NEW l \in Path[c], OnStart(c, l)
  PROVE  Books'
<1>1. /\ Typed /\ l \in Ledgers /\ phase[c] \in {"starting", "done"} /\ l \in pending[c]
      /\ pending' = [pending EXCEPT ![c] = @ \ {l}] /\ UNCHANGED <<phase, usage>>
      /\ open \in [Ledgers -> SUBSET Calls] /\ Opened
      /\ phase[c] = "done" => c \in refused
  BY LedgerAssumption DEF IInv, OnStart, Books, Settled
<1>2. pending'[c] = pending[c] \ {l} /\ \A d \in Calls \ {c} : pending'[d] = pending[d]
  BY <1>1 DEF Typed
<1>3. CASE ~(Enforceable(c, l) /\ CallsLeft(l) /\ Affordable(c, l))
  <2>1. refused' = refused \cup {c} /\ UNCHANGED <<ledger, open>>
    BY <1>3 DEF OnStart
  <2>2. Opened'
    BY <1>1, <1>2, <2>1 DEF Opened
  <2>3. \A d \in Calls, k \in Ledgers : Charged(d, k)' <=> Charged(d, k)
    BY <1>1, <1>2, <2>1 DEF Charged
  <2> QED
    BY <1>1, <2>1, <2>2, <2>3, BooksKept
<1>4. CASE Enforceable(c, l) /\ CallsLeft(l) /\ Affordable(c, l)
  <2>1. /\ ledger' = [ledger EXCEPT ![l] = Reserve(@, Reservation(c, l))]
        /\ open' = [open EXCEPT ![l] = @ \cup {c}] /\ UNCHANGED refused
    BY <1>4 DEF OnStart
  <2>2. /\ open'[l] = open[l] \cup {c} /\ (\A k \in Ledgers \ {l} : open'[k] = open[k])
        /\ c \notin open[l] /\ open' \in [Ledgers -> SUBSET Calls]
    BY <1>1, <2>1 DEF Opened
  <2>3. Opened'
    BY <1>1, <1>2, <2>1, <2>2 DEF Opened
  <2>4. \A d \in Calls, k \in Ledgers : Charged(d, k)' <=> Charged(d, k)
    BY <1>1, <1>2, <2>1 DEF Charged
  <2>5. ledger[l] \in Counters /\ Reservation(c, l) \in Nat
    BY <1>1, ReservationType DEF Typed
  <2>6. /\ ledger'[l].reserved = ledger[l].reserved + Reservation(c, l)
        /\ ledger'[l].used = ledger[l].used /\ ledger'[l].missing = ledger[l].missing
        /\ \A k \in Ledgers \ {l} : ledger'[k] = ledger[k]
    BY <1>1, <2>1, <2>5 DEF Typed, Reserve, Counters
  <2>7. Reported'
    BY <1>1, <2>4, <2>6 DEF Books, Reported
  <2>8. ASSUME NEW k \in Ledgers PROVE Billed(k)' = Billed(k)
    BY <1>1, <2>4 DEF Billed, Charge, Actual
  <2>9. ASSUME NEW k \in Ledgers
        PROVE  /\ ledger'[k].reserved = Total(Held(k), Calls)'
               /\ ledger'[k].used = Total(Billed(k), Calls)'
    <3>1. ledger'[k].used = ledger[k].used /\ ledger[k].used = Total(Billed(k), Calls)
      BY <2>6 DEF Books, Balanced
    <3>2. ledger[k].reserved = Total(Held(k), Calls)
      BY DEF Books, Balanced
    <3>3. CASE k # l
      <4>1. Held(k)' = Held(k)
        BY <2>2, <3>3 DEF Held
      <4> QED
        BY <2>6, <2>8, <3>1, <3>2, <3>3, <4>1
    <3>4. CASE k = l
      <4> DEFINE f == Held(l)
      <4>1. PICK h \in [Calls -> Nat] : h = Held(l)'
        <5>1. \A d \in Calls : Reservation(d, l) \in Nat
          BY <1>1, ReservationType
        <5>2. [d \in Calls |-> IF d \in open'[l] THEN Reservation(d, l) ELSE 0] \in [Calls -> Nat]
          BY <5>1
        <5> QED
          BY <5>2 DEF Held
      <4>2. f \in [Calls -> Nat] /\ f[c] = 0 /\ h[c] = Reservation(c, l)
            /\ \A d \in Calls \ {c} : h[d] = f[d]
        BY <2>2, <4>1, HeldType DEF Held
      <4>3. f \in [Calls -> Int] /\ h \in [Calls -> Int]
        BY <4>2
      <4> HIDE DEF f
      <4>4. Total(h, Calls) = Total(f, Calls) + h[c] - f[c] /\ Total(f, Calls) \in Int
        BY <4>2, <4>3, TotalChanged, LedgerAssumption
      <4>5. Total(h, Calls) = ledger'[l].reserved
        BY <2>5, <2>6, <3>2, <3>4, <4>2, <4>4 DEF f
      <4> QED
        BY <2>8, <3>1, <3>4, <4>1, <4>5
    <3> QED
      BY <3>3, <3>4
  <2> QED
    BY <2>2, <2>3, <2>7, <2>9 DEF Books, Balanced
<1> QED
  BY <1>3, <1>4

\* Settling a call moves it from the reserved to the used money.
LEMMA BooksEnded ==
  ASSUME IInv, Books, NEW c \in Calls, NEW l \in Path[c], OnEnd(c, l)
  PROVE  Books'
<1>1. /\ Typed /\ l \in Ledgers /\ phase[c] \in {"ended", "errored"} /\ l \in pending[c]
      /\ pending' = [pending EXCEPT ![c] = @ \ {l}] /\ UNCHANGED <<phase, refused, usage>>
      /\ open \in [Ledgers -> SUBSET Calls] /\ Opened
      /\ open' = [open EXCEPT ![l] = @ \ {c}]
      /\ ledger' = [ledger EXCEPT ![l] =
           Settle(@, Reservation(c, l), Charge(c, l), usage[c].reported)]
  BY LedgerAssumption DEF IInv, OnEnd, Books
<1>2. pending'[c] = pending[c] \ {l} /\ \A d \in Calls \ {c} : pending'[d] = pending[d]
  BY <1>1 DEF Typed
<1>3. c \in open[l] /\ c \notin refused
  BY <1>1 DEF Opened
<1>4. /\ open'[l] = open[l] \ {c} /\ (\A k \in Ledgers \ {l} : open'[k] = open[k])
      /\ open' \in [Ledgers -> SUBSET Calls]
  BY <1>1
<1>5. Opened'
  BY <1>1, <1>2, <1>4 DEF Opened
<1>6. ~Charged(c, l) /\ Charged(c, l)'
  BY <1>1, <1>2 DEF Charged
<1>7. \A d \in Calls, k \in Ledgers :
        d # c \/ k # l => (Charged(d, k)' <=> Charged(d, k))
  BY <1>1, <1>2 DEF Charged
<1>8. ledger[l] \in Counters /\ Reservation(c, l) \in Nat /\ Charge(c, l) \in Nat
  BY <1>1, ReservationType, ChargeType DEF Typed
<1>9. /\ ledger'[l].reserved = ledger[l].reserved - Reservation(c, l)
      /\ ledger'[l].used = ledger[l].used + Charge(c, l)
      /\ \A k \in Ledgers \ {l} : ledger'[k] = ledger[k]
  BY <1>1, <1>8 DEF Typed, Settle, Counters
<1>10. ledger'[l].missing = (ledger[l].missing \/ ~usage[c].reported)
  BY <1>1, <1>8 DEF Typed, Settle, Counters
<1>11. ASSUME NEW d \in Calls, NEW k \in Ledgers, Charged(d, k)', ~ledger'[k].missing
       PROVE  usage'[d].reported
  <2>1. CASE d = c /\ k = l
    BY <1>1, <1>10, <1>11, <2>1
  <2>2. CASE d # c \/ k # l
    <3>1. Charged(d, k)
      BY <1>7, <1>11, <2>2
    <3>2. ~ledger[k].missing
      BY <1>9, <1>10, <1>11
    <3> QED
      BY <1>1, <3>1, <3>2 DEF Books, Reported
  <2> QED
    BY <2>1, <2>2
<1>12. Reported'
  BY <1>11 DEF Reported
<1>13. ASSUME NEW k \in Ledgers
       PROVE  /\ ledger'[k].reserved = Total(Held(k), Calls)'
              /\ ledger'[k].used = Total(Billed(k), Calls)'
  <2>1. ledger[k].reserved = Total(Held(k), Calls) /\ ledger[k].used = Total(Billed(k), Calls)
    BY DEF Books, Balanced
  <2>2. CASE k # l
    <3>1. Held(k)' = Held(k)
      BY <1>4, <2>2 DEF Held
    <3>2. Billed(k)' = Billed(k)
      BY <1>1, <1>7, <2>2 DEF Billed, Charge, Actual
    <3> QED
      BY <1>9, <2>1, <2>2, <3>1, <3>2
  <2>3. CASE k = l
    <3> DEFINE f == Held(l)
               b == Billed(l)
    <3>1. PICK h \in [Calls -> Nat] : h = Held(l)'
      <4>1. \A d \in Calls : Reservation(d, l) \in Nat
        BY <1>1, ReservationType
      <4>2. [d \in Calls |-> IF d \in open'[l] THEN Reservation(d, l) ELSE 0] \in [Calls -> Nat]
        BY <4>1
      <4> QED
        BY <4>2 DEF Held
    <3>2. f \in [Calls -> Nat] /\ f[c] = Reservation(c, l) /\ h[c] = 0
          /\ \A d \in Calls \ {c} : h[d] = f[d]
      BY <1>1, <1>3, <1>4, <3>1, HeldType DEF Held
    <3>3. PICK e \in [Calls -> Nat] : e = Billed(l)'
      <4>1. \A d \in Calls : Charge(d, l) \in Nat
        BY <1>1, ChargeType
      <4>2. \A d \in Calls : Charge(d, l)' = Charge(d, l)
        BY <1>1 DEF Charge, Actual
      <4>3. [d \in Calls |-> IF Charged(d, l)' THEN Charge(d, l) ELSE 0] \in [Calls -> Nat]
        BY <4>1
      <4>4. Billed(l)' = [d \in Calls |-> IF Charged(d, l)' THEN Charge(d, l) ELSE 0]
        BY <4>2 DEF Billed
      <4> QED
        BY <4>3, <4>4
    <3>4. b \in [Calls -> Nat] /\ b[c] = 0 /\ e[c] = Charge(c, l)
          /\ \A d \in Calls \ {c} : e[d] = b[d]
      <4>1. b \in [Calls -> Nat] /\ b[c] = 0
        BY <1>1, <1>6, BilledType DEF Billed
      <4>2. \A d \in Calls : Charge(d, l)' = Charge(d, l)
        BY <1>1 DEF Charge, Actual
      <4>3. e = [d \in Calls |-> IF Charged(d, l)' THEN Charge(d, l) ELSE 0]
        BY <3>3, <4>2 DEF Billed
      <4> QED
        BY <1>1, <1>6, <1>7, <4>1, <4>3 DEF Billed
    <3>5. /\ f \in [Calls -> Int] /\ h \in [Calls -> Int]
          /\ b \in [Calls -> Int] /\ e \in [Calls -> Int]
      BY <3>2, <3>4
    <3> HIDE DEF f, b
    <3>6. Total(h, Calls) = Total(f, Calls) + h[c] - f[c] /\ Total(f, Calls) \in Int
      BY <3>2, <3>5, TotalChanged, LedgerAssumption
    <3>7. Total(e, Calls) = Total(b, Calls) + e[c] - b[c] /\ Total(b, Calls) \in Int
      <4>1. IsFiniteSet(Calls) /\ \A d \in Calls \ {c} : e[d] = b[d]
        BY <3>4, LedgerAssumption
      <4> QED
        BY <3>5, <4>1, TotalChanged
    <3>8. Total(h, Calls) = ledger'[l].reserved /\ Total(e, Calls) = ledger'[l].used
      BY <1>8, <1>9, <2>1, <2>3, <3>2, <3>4, <3>6, <3>7 DEF f, b
    <3> QED
      BY <2>3, <3>1, <3>3, <3>8
  <2> QED
    BY <2>2, <2>3
<1> QED
  BY <1>4, <1>5, <1>12, <1>13 DEF Books, Balanced

LEMMA StepBooks == IInv /\ Books /\ [Next]_vars => Books'
<1> SUFFICES ASSUME IInv, Books, [Next]_vars PROVE Books'
  OBVIOUS
<1>1. Typed /\ Opened /\ open \in [Ledgers -> SUBSET Calls]
  BY DEF IInv, Books
<1>2. ASSUME NEW c \in Calls, Request(c) PROVE Books'
  <2>1. UNCHANGED <<ledger, open, refused, usage>> /\ phase[c] = "idle"
        /\ phase' = [phase EXCEPT ![c] = "starting"] /\ pending' = [pending EXCEPT ![c] = Path[c]]
    BY <1>2 DEF Request
  <2>2. Opened' /\ \A d \in Calls, l \in Ledgers : Charged(d, l)' <=> Charged(d, l)
    BY <1>1, <2>1 DEF Typed, Opened, Charged
  <2> QED
    BY <2>1, <2>2, BooksKept
<1>3. ASSUME NEW c \in Calls, RaiseRefusal(c) \/ Send(c) PROVE Books'
  <2>1. UNCHANGED <<ledger, open, pending, refused, usage>> /\ phase[c] = "starting"
        /\ \/ phase' = [phase EXCEPT ![c] = "done"] /\ c \in refused
           \/ phase' = [phase EXCEPT ![c] = "invoking"] /\ c \notin refused /\ pending[c] = {}
    BY <1>3 DEF RaiseRefusal, Send
  <2>2. Opened' /\ \A d \in Calls, l \in Ledgers : Charged(d, l)' <=> Charged(d, l)
    BY <1>1, <2>1 DEF Typed, Opened, Charged
  <2> QED
    BY <2>1, <2>2, BooksKept
<1>4. ASSUME NEW c \in Calls, Outcome(c) PROVE Books'
  <2>1. PICK to \in {"ended", "errored", "abandoned"} :
          /\ phase' = [phase EXCEPT ![c] = to]
          /\ pending' = [pending EXCEPT ![c] = IF to = "abandoned" THEN {} ELSE Path[c]]
          /\ \A d \in Calls \ {c} : usage'[d] = usage[d]
    BY <1>1, <1>4 DEF Outcome, Typed
  <2>2. UNCHANGED <<ledger, open, refused>> /\ phase[c] = "invoking"
    BY <1>4 DEF Outcome
  <2>3. Opened' /\ \A d \in Calls, l \in Ledgers : Charged(d, l)' <=> Charged(d, l)
    BY <1>1, <2>1, <2>2 DEF Typed, Opened, Charged
  <2>4. \A l \in Ledgers : ~Charged(c, l)
    BY <2>2 DEF Charged
  <2> QED
    BY <2>1, <2>2, <2>3, <2>4, BooksKept
<1>5. ASSUME NEW c \in Calls, Finish(c) PROVE Books'
  <2>1. UNCHANGED <<ledger, open, pending, refused, usage>> /\ phase[c] \in {"ended", "errored"}
        /\ pending[c] = {} /\ phase' = [phase EXCEPT ![c] = "done"]
    BY <1>5 DEF Finish
  <2>2. Opened' /\ \A d \in Calls, l \in Ledgers : Charged(d, l)' <=> Charged(d, l)
    BY <1>1, <2>1 DEF Typed, Opened, Charged
  <2> QED
    BY <2>1, <2>2, BooksKept
<1>6. CASE UNCHANGED vars
  <2>1. UNCHANGED <<ledger, open, phase, pending, refused, usage>>
    BY <1>6 DEF vars
  <2>2. Opened' /\ \A d \in Calls, l \in Ledgers : Charged(d, l)' <=> Charged(d, l)
    BY <1>1, <2>1 DEF Opened, Charged
  <2> QED
    BY <2>1, <2>2, BooksKept
<1> QED
  BY <1>2, <1>3, <1>4, <1>5, <1>6, BooksStarted, BooksEnded DEF Next

LEMMA BooksAlways == Spec => [](IInv /\ Books)
BY InitIInv, StepIInv, InitBooks, StepBooks, PTL DEF Spec

\* What each call really cost, and what the ledger has set down for it.
Actuals(l) == [c \in Calls |-> Actual(c, l)]

Owed(l) == [c \in Calls |-> Held(l)[c] + Billed(l)[c]]

\* What was really consumed is a sum over the calls that were sent.
LEMMA SpendIs ==
  ASSUME NEW l \in Ledgers
  PROVE  Spend(l) = Total(Actuals(l), SentThrough(l))
<1> DEFINE S == SentThrough(l)
           f == Actuals(l)
           Folds(g) == g = [s \in SUBSET S |->
             IF s = {} THEN 0 ELSE Actual(Some(s), l) + g[s \ {Some(s)}]]
           g0 == CHOOSE g : Folds(g)
<1>1. Spend(l) = g0[S]
  BY DEF Spend, MapThenSumSet, MapThenFoldSet, Some
<1>2. S \in SUBSET Calls /\ IsFiniteSet(S)
  BY LedgerAssumption, FS_Subset DEF SentThrough
<1> HIDE DEF S
<1>3. \A s \in SUBSET S : s # {} => f[Some(s)] = Actual(Some(s), l)
  BY <1>2, SomeIn DEF Actuals
<1> HIDE DEF f
<1>4. ASSUME NEW g PROVE Folds(g) <=> Sums(g, f, S)
  <2>1. [s \in SUBSET S |-> IF s = {} THEN 0 ELSE Actual(Some(s), l) + g[s \ {Some(s)}]]
          = [s \in SUBSET S |-> IF s = {} THEN 0 ELSE f[Some(s)] + g[s \ {Some(s)}]]
    BY <1>3
  <2> QED
    BY <2>1 DEF Sums
<1>5. \E g : Folds(g)
  BY <1>2, <1>4, SumsExist
<1> HIDE DEF Folds
<1>6. Folds(g0)
  BY <1>5
<1>7. Sums(g0, f, S)
  BY <1>4, <1>6
<1> HIDE DEF g0
<1>8. g0[S] = Total(f, S)
  <2>1. S \in SUBSET S
    OBVIOUS
  <2> QED
    BY <1>2, <1>7, <2>1, TotalIs, Zenon
<1> QED
  BY <1>1, <1>8 DEF f, S

LEMMA OwedIs ==
  ASSUME IInv, Books, NEW l \in Ledgers
  PROVE  /\ Owed(l) \in [Calls -> Int] /\ \A c \in Calls : Owed(l)[c] >= 0
         /\ Total(Owed(l), Calls) = ledger[l].used + ledger[l].reserved
<1> DEFINE f == Held(l)
           b == Billed(l)
<1>1. f \in [Calls -> Nat] /\ b \in [Calls -> Nat]
  BY HeldType, BilledType DEF IInv
<1>2. ledger[l].reserved = Total(f, Calls) /\ ledger[l].used = Total(b, Calls)
  BY DEF Books, Balanced
<1>3. Owed(l) = [c \in Calls |-> f[c] + b[c]]
  BY DEF Owed
<1> HIDE DEF f, b
<1>4. f \in [Calls -> Int] /\ b \in [Calls -> Int] /\ IsFiniteSet(Calls)
  BY <1>1, LedgerAssumption
<1>5. Total([c \in Calls |-> f[c] + b[c]], Calls) = Total(f, Calls) + Total(b, Calls)
  BY <1>4, TotalAdds
<1>6. Total(f, Calls) \in Int /\ Total(b, Calls) \in Int
  BY <1>4, TotalWithout
<1> QED
  BY <1>1, <1>2, <1>3, <1>5, <1>6

\* What the provider was paid never exceeds what a ledger with a money limit
\* has accounted for, in whatever order its calls are admitted and answered,
\* and whether they are answered at all.
THEOREM SpendAlwaysCovered == Spec => []SpendCovered
<1>1. IInv /\ Books => SpendCovered
  <2> SUFFICES ASSUME IInv, Books, NEW l \in Limited
               PROVE  Spend(l) <= ledger[l].used + ledger[l].reserved
    BY DEF SpendCovered
  <2>1. Typed /\ UsageBounded /\ Capped /\ Settled /\ Opened /\ l \in Ledgers
    BY LedgerAssumption DEF IInv, Books
  <2> DEFINE t == SentThrough(l)
  <2>2. ASSUME NEW c \in t PROVE Actuals(l)[c] <= Owed(l)[c]
    <3>1. c \in Calls /\ l \in Path[c] /\ Sent(c)
      BY DEF SentThrough
    <3>2. /\ Actuals(l)[c] = Actual(c, l) /\ Owed(l)[c] = Held(l)[c] + Billed(l)[c]
          /\ Held(l)[c] = IF c \in open[l] THEN Reservation(c, l) ELSE 0
          /\ Billed(l)[c] = IF Charged(c, l) THEN Charge(c, l) ELSE 0
      BY <3>1 DEF Actuals, Owed, Held, Billed
    <3>3. /\ Actual(c, l) \in Nat /\ Reservation(c, l) \in Nat /\ Charge(c, l) \in Nat
          /\ Actual(c, l) <= Reservation(c, l)
      BY <2>1, <3>1, ActualType, ReservationType, ChargeType, ActualBounded
    <3>4. Actual(c, l) <= Charge(c, l)
      BY <3>3 DEF Charge
    <3>5. c \in open[l] \/ Charged(c, l)
      BY <2>1, <3>1 DEF Opened, Settled, Sent, Charged
    <3> QED
      BY <3>2, <3>3, <3>4, <3>5
  <2>3. Actuals(l) \in [Calls -> Int] /\ t \in SUBSET Calls
    BY <2>1, ActualType DEF Actuals, SentThrough
  <2>4. /\ Owed(l) \in [Calls -> Int] /\ \A c \in Calls : Owed(l)[c] >= 0
        /\ Total(Owed(l), Calls) = ledger[l].used + ledger[l].reserved
    BY <2>1, OwedIs
  <2>5. Spend(l) = Total(Actuals(l), t)
    BY <2>1, SpendIs
  <2> HIDE DEF t
  <2>6. Total(Actuals(l), t) <= Total(Owed(l), Calls)
    BY <2>2, <2>3, <2>4, TotalCovers, LedgerAssumption
  <2> QED
    BY <2>4, <2>5, <2>6
<1> QED
  BY <1>1, BooksAlways, PTL

\* A report that calls its usage complete states exactly what was consumed,
\* once the agent has no call under way.
THEOREM CompleteUsageAlwaysExact == Spec => []CompleteUsageIsExact
<1>1. IInv /\ Books => CompleteUsageIsExact
  <2> SUFFICES ASSUME IInv, Books, NEW l \in Ledgers, ~ledger[l].missing,
                      \A c \in Calls : l \in Path[c] =>
                        phase[c] = "idle" \/ (phase[c] = "done" /\ c \notin refused)
               PROVE  ledger[l].used + ledger[l].reserved = Spend(l)
    BY DEF CompleteUsageIsExact
  <2>1. Typed /\ Settled /\ Opened /\ Reported
    BY DEF IInv, Books
  <2> DEFINE t == SentThrough(l)
  <2>2. ASSUME NEW c \in Calls
        PROVE  /\ Owed(l)[c] = Held(l)[c] + Billed(l)[c]
               /\ Held(l)[c] = IF c \in open[l] THEN Reservation(c, l) ELSE 0
               /\ Billed(l)[c] = IF Charged(c, l) THEN Charge(c, l) ELSE 0
    BY DEF Owed, Held, Billed
  <2>3. ASSUME NEW c \in t PROVE Actuals(l)[c] = Owed(l)[c]
    <3>1. c \in Calls /\ l \in Path[c] /\ phase[c] = "done" /\ c \notin refused
      BY DEF SentThrough, Sent
    <3>2. c \notin open[l] /\ Charged(c, l)
      BY <2>1, <3>1 DEF Opened, Settled, Charged
    <3>3. Charge(c, l) = Actual(c, l) /\ Actual(c, l) \in Nat
      BY <2>1, <3>1, <3>2, ActualType DEF Reported, Charge
    <3> QED
      BY <2>2, <3>1, <3>2, <3>3 DEF Actuals
  <2>4. ASSUME NEW c \in Calls \ t PROVE Owed(l)[c] = 0
    <3>1. l \notin Path[c] \/ phase[c] = "idle"
      BY DEF SentThrough, Sent
    <3>2. c \notin open[l] /\ ~Charged(c, l)
      BY <2>1, <3>1 DEF Opened, Charged
    <3> QED
      BY <2>2, <3>2
  <2>5. Actuals(l) \in [Calls -> Int] /\ t \in SUBSET Calls
    BY <2>1, ActualType DEF Actuals, SentThrough
  <2>6. /\ Owed(l) \in [Calls -> Int]
        /\ Total(Owed(l), Calls) = ledger[l].used + ledger[l].reserved
    BY OwedIs
  <2>7. Spend(l) = Total(Actuals(l), t)
    BY SpendIs
  <2> HIDE DEF t
  <2>8. Total(Actuals(l), t) = Total(Owed(l), Calls)
    BY <2>3, <2>4, <2>5, <2>6, TotalSame, LedgerAssumption
  <2> QED
    BY <2>6, <2>7, <2>8
<1> QED
  BY <1>1, BooksAlways, PTL

\* The counters are never negative: a ledger releases only what it reserved.
THEOREM TypeCorrect == Spec => []TypeOK
<1>1. IInv /\ Books => TypeOK
  <2> SUFFICES ASSUME IInv, Books PROVE TypeOK
    OBVIOUS
  <2>1. ASSUME NEW l \in Ledgers PROVE ledger[l].reserved >= 0
    <3> DEFINE f == Held(l)
    <3>1. f \in [Calls -> Nat] /\ ledger[l].reserved = Total(f, Calls)
      BY HeldType DEF Books, Balanced
    <3> HIDE DEF f
    <3>2. f \in [Calls -> Int] /\ {} \in SUBSET Calls /\ IsFiniteSet(Calls)
          /\ (\A c \in {} : f[c] <= f[c]) /\ \A c \in Calls : f[c] >= 0
      BY <3>1, LedgerAssumption
    <3>3. Total(f, {}) <= Total(f, Calls)
      BY <3>2, TotalCovers
    <3>4. Total(f, {}) = 0
      BY FS_EmptySet, TotalAt
    <3> QED
      BY <3>1, <3>3, <3>4
  <2>2. \A l \in Ledgers : ledger[l] \in [calls: Nat, used: Nat, reserved: Nat, missing: BOOLEAN]
    <3> SUFFICES ASSUME NEW l \in Ledgers
                 PROVE  ledger[l] \in [calls: Nat, used: Nat, reserved: Nat, missing: BOOLEAN]
      OBVIOUS
    <3>1. ledger[l] \in Counters /\ ledger[l].reserved \in Nat
      BY <2>1 DEF IInv, Typed, Counters
    <3> QED
      BY <3>1 DEF Counters
  <2> QED
    BY <2>2 DEF IInv, Typed, Books, TypeOK
<1> QED
  BY <1>1, BooksAlways, PTL

(***************************************************************************)
(* The development egress proxy, EgressProxy.                              *)
(***************************************************************************)
Served == {r \in Requests : pc[r] \in Serving}

\* The sockets the proxy knows are those a connection's place calls for.
Known == \A r \in Requests :
  /\ <<r, "client">> \in active <=> pc[r] \in Serving \ {"starting"}
  /\ <<r, "upstream">> \in active <=> pc[r] \in {"receiving", "relaying"}
  /\ upstream[r] = "none" <=> pc[r] \notin {"receiving", "relaying"}

\* A connection that can still reach its origin after stop was missed by it.
Late == server \in {"disconnected", "stopped"} => \A r \in Requests :
  pc[r] \in {"starting", "reading", "dialing", "sending"} => <<r, "upstream">> \in missed

Free == IsFiniteSet(Served) /\ SlotsConserved

Placed == ProxyTypeOK /\ Known /\ Late /\ StopShutsWhatItKnows

ProxyInv == Placed /\ Free

\* A connection that takes or gives back a slot starts or stops being served.
LEMMA ServedGains ==
  ASSUME Free, Slots \in Nat, slots \in Nat, slots' = slots - 1, slots > 0,
         NEW r \in Requests, r \notin Served, Served' = Served \cup {r}
  PROVE  Free' /\ slots' \in 0..Slots
<1>1. IsFiniteSet(Served) /\ slots + Cardinality(Served) = Slots
  BY DEF Free, SlotsConserved, Served
<1>2. Cardinality(Served) \in Nat /\ IsFiniteSet(Served \cup {r})
      /\ Cardinality(Served \cup {r}) = Cardinality(Served) + 1
  BY <1>1, FS_AddElement, FS_CardinalityType
<1>3. Cardinality(Served') = Cardinality(Served) + 1 /\ IsFiniteSet(Served')
  BY <1>2, Zenon
<1>4. slots' + Cardinality(Served') = Slots /\ slots' \in 0..Slots
  BY <1>1, <1>2, <1>3
<1> QED
  BY <1>3, <1>4 DEF Free, SlotsConserved, Served

LEMMA ServedLoses ==
  ASSUME Free, Slots \in Nat, slots \in Nat, slots' = slots + 1,
         NEW r \in Served, Served' = Served \ {r}
  PROVE  Free' /\ slots' \in 0..Slots
<1>1. IsFiniteSet(Served) /\ slots + Cardinality(Served) = Slots
  BY DEF Free, SlotsConserved, Served
<1>2. Cardinality(Served) \in Nat /\ IsFiniteSet(Served \ {r})
      /\ Cardinality(Served \ {r}) = Cardinality(Served) - 1
      /\ Cardinality(Served \ {r}) \in Nat
  BY <1>1, FS_RemoveElement, FS_CardinalityType
<1>3. Cardinality(Served') = Cardinality(Served) - 1 /\ IsFiniteSet(Served')
      /\ Cardinality(Served') \in Nat
  BY <1>2, Zenon
<1>4. slots' + Cardinality(Served') = Slots /\ slots' \in 0..Slots
  BY <1>1, <1>2, <1>3
<1> QED
  BY <1>3, <1>4 DEF Free, SlotsConserved, Served

LEMMA ServedSame ==
  ASSUME Free, UNCHANGED slots, Served' = Served
  PROVE  Free'
BY DEF Free, SlotsConserved, Served

LEMMA InitProxyInv == Slots \in Nat /\ ProxyInit => ProxyInv
<1> SUFFICES ASSUME Slots \in Nat, ProxyInit PROVE ProxyInv
  OBVIOUS
<1>1. Placed
  BY DEF Placed, ProxyInit, ProxyTypeOK, Known, Late, StopShutsWhatItKnows,
         Serving, Sockets
<1>2. Served = {}
  BY DEF ProxyInit, Served, Serving
<1>3. IsFiniteSet(Served) /\ Cardinality(Served) = 0
  BY <1>2, FS_EmptySet
<1>4. SlotsConserved
  BY <1>3 DEF ProxyInit, SlotsConserved, Served
<1> QED
  BY <1>1, <1>3, <1>4 DEF ProxyInv, Free

\* A step of one connection: its slot aside, everything is local to it.
LEMMA StepProxyInv == Slots \in Nat /\ ProxyInv /\ [ProxyNext]_proxyVars => ProxyInv'
<1> SUFFICES ASSUME Slots \in Nat, ProxyInv, [ProxyNext]_proxyVars PROVE ProxyInv'
  OBVIOUS
<1> USE DEF ProxyInv, Placed, ProxyTypeOK, Known, Late, StopShutsWhatItKnows, Serving,
            Goto, handler
<1>1. ASSUME NEW r \in Requests, Accept(r) PROVE ProxyInv'
  <2>1. Placed'
    BY <1>1 DEF Accept
  <2>2. r \notin Served /\ Served' = Served \cup {r}
    BY <1>1 DEF Accept, Served
  <2> QED
    BY <1>1, <2>1, <2>2, ServedGains DEF Accept
<1>2. ASSUME NEW r \in Requests, Refuse(r) PROVE ProxyInv'
  <2>1. Placed'
    BY <1>2 DEF Refuse
  <2>2. Served' = Served /\ UNCHANGED slots
    BY <1>2 DEF Refuse, Served
  <2> QED
    BY <2>1, <2>2, ServedSame
<1>3. ASSUME NEW r \in Requests, StartFails(r) PROVE ProxyInv'
  <2>1. r \in Served /\ Served' = Served \ {r} /\ slots \in Nat /\ slots' = slots + 1
    BY <1>3 DEF StartFails, Served
  <2>2. Free' /\ slots' \in 0..Slots
    BY <2>1, ServedLoses
  <2>3. Placed'
    BY <1>3, <2>2 DEF StartFails
  <2> QED
    BY <2>2, <2>3
<1>4. ASSUME NEW r \in Requests, Begin(r) PROVE ProxyInv'
  <2>1. Placed'
    BY <1>4 DEF Begin, Sockets
  <2>2. Served' = Served /\ UNCHANGED slots
    BY <1>4 DEF Begin, Served
  <2> QED
    BY <2>1, <2>2, ServedSame
<1>5. ASSUME NEW r \in Requests, ReadRequest(r) PROVE ProxyInv'
  <2>1. Placed'
    BY <1>5 DEF ReadRequest
  <2>2. Served' = Served /\ UNCHANGED slots
    BY <1>5 DEF ReadRequest, Served
  <2> QED
    BY <2>1, <2>2, ServedSame
<1>6. ASSUME NEW r \in Requests, Dial(r) \/ SendRequest(r) PROVE ProxyInv'
  <2>1. Placed'
    BY <1>6 DEF Dial, SendRequest, Note, Sockets
  <2>2. Served' = Served /\ UNCHANGED slots
    BY <1>6 DEF Dial, SendRequest, Served
  <2> QED
    BY <2>1, <2>2, ServedSame
<1>7. ASSUME NEW r \in Requests, Receive(r) \/ Relay(r) PROVE ProxyInv'
  <2>1. Placed'
    BY <1>7 DEF Receive, Relay, Leave
  <2>2. Served' = Served /\ UNCHANGED slots
    BY <1>7 DEF Receive, Relay, Leave, Served
  <2> QED
    BY <2>1, <2>2, ServedSame
<1>8. ASSUME NEW r \in Requests, End(r) PROVE ProxyInv'
  <2>1. r \in Served /\ Served' = Served \ {r} /\ slots \in Nat /\ slots' = slots + 1
    BY <1>8 DEF End, Served
  <2>2. Free' /\ slots' \in 0..Slots
    BY <2>1, ServedLoses
  <2>3. Placed'
    BY <1>8, <2>2 DEF End
  <2> QED
    BY <2>2, <2>3
<1>9. ASSUME NEW r \in Requests, Expire(r) PROVE ProxyInv'
  <2>1. Placed'
    BY <1>9 DEF Expire
  <2>2. Served' = Served /\ UNCHANGED slots
    BY <1>9 DEF Expire, Served
  <2> QED
    BY <2>1, <2>2, ServedSame
<1>10. CASE Shutdown
  <2>1. Placed'
    BY <1>10 DEF Shutdown
  <2>2. Served' = Served /\ UNCHANGED slots
    BY <1>10 DEF Shutdown, Served
  <2> QED
    BY <2>1, <2>2, ServedSame
<1>11. CASE CloseConnections
  <2>1. ProxyTypeOK' /\ Known'
    BY <1>11 DEF CloseConnections, ShutActive, Unknown
  <2>2. \A r \in Requests, side \in {"client", "upstream"} :
          pc[r] \in Serving /\ <<r, side>> \notin active => <<r, side>> \in missed'
    BY <1>11 DEF CloseConnections, Unknown, Sockets
  <2>3. Late'
    BY <1>11, <2>2 DEF CloseConnections
  <2>4. StopShutsWhatItKnows'
    BY <1>11, <2>2 DEF CloseConnections, ShutActive
  <2>5. Served' = Served /\ UNCHANGED slots
    BY <1>11 DEF CloseConnections, Served
  <2> QED
    BY <2>1, <2>3, <2>4, <2>5, ServedSame
<1>12. CASE CloseServer
  <2>1. Placed'
    BY <1>12 DEF CloseServer
  <2>2. Served' = Served /\ UNCHANGED slots
    BY <1>12 DEF CloseServer, Served
  <2> QED
    BY <2>1, <2>2, ServedSame
<1>13. CASE UNCHANGED proxyVars
  <2>1. Placed'
    BY <1>13 DEF proxyVars
  <2>2. Served' = Served /\ UNCHANGED slots
    BY <1>13 DEF proxyVars, Served
  <2> QED
    BY <2>1, <2>2, ServedSame
<1> QED
  BY <1>1, <1>2, <1>3, <1>4, <1>5, <1>6, <1>7, <1>8, <1>9, <1>10, <1>11, <1>12, <1>13
  DEF ProxyNext, Handle

LEMMA ProxyInvAlways == ProxySpec => []ProxyInv
<1>1. Slots \in Nat
  BY ProxyAssumption
<1>2. ProxyInit => ProxyInv
  BY <1>1, InitProxyInv
<1>3. ProxyInv /\ [ProxyNext]_proxyVars => ProxyInv'
  BY <1>1, StepProxyInv
<1> QED
  BY <1>2, <1>3, PTL DEF ProxySpec

\* Neither more slots than the proxy has are ever free, nor fewer than none.
THEOREM ProxyTypeCorrect == ProxySpec => []ProxyTypeOK
<1>1. ProxyInv => ProxyTypeOK
  BY DEF ProxyInv, Placed
<1> QED
  BY <1>1, ProxyInvAlways, PTL

\* Every slot is free or serves a connection, whatever path a connection takes
\* and whenever stop comes.
THEOREM SlotsAlwaysConserved == ProxySpec => []SlotsConserved
<1>1. ProxyInv => SlotsConserved
  BY DEF ProxyInv, Free
<1> QED
  BY <1>1, ProxyInvAlways, PTL

\* After stop, a served connection has an open socket only if its thread had
\* not made that socket known when the others were shut.
THEOREM StopAlwaysShutsWhatItKnows == ProxySpec => []StopShutsWhatItKnows
<1>1. ProxyInv => StopShutsWhatItKnows
  BY DEF ProxyInv, Placed
<1> QED
  BY <1>1, ProxyInvAlways, PTL
=============================================================================
