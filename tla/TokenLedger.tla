---------------------------- MODULE TokenLedger ----------------------------
(***************************************************************************)
(* The token and cost budgets of one execution: TokenUsageCounter and      *)
(* OutputTokenLimitMiddleware (services/deepagents_runner.py). A model     *)
(* call is charged to the root agent's ledger and to that of every         *)
(* subagent it was delegated through. LangChain runs the callback of each  *)
(* of these ledgers in a thread of its own, so the ledgers of a call admit *)
(* it, or refuse it, independently and in any order, interleaved with the  *)
(* calls of other subagents; only one ledger's own update is atomic.       *)
(*                                                                         *)
(* Money is a natural number (the code's floats, scaled); a token estimate *)
(* is the bound the code computes from the request's bytes.                *)
(***************************************************************************)
EXTENDS Integers, FiniteSetsExt

CONSTANTS
  Calls,      \* the model calls the execution's agents may make
  Ledgers,    \* one TokenUsageCounter per agent
  Path,       \* the ledgers each call is charged to
  Estimate,   \* estimated input tokens of each call, an upper bound
  Declared,   \* the output cap a call declares to its provider, or None
  Unbounded,  \* the output a call may produce that declares none
  MaxCalls,   \* max_model_calls of each ledger
  MaxOutput,  \* max_output_tokens of each ledger
  Limited,    \* the ledgers with a cost_limit_usd
  Limit,      \* that limit
  Priced,     \* the ledgers with both prices configured
  InPrice, OutPrice,
  None

ASSUME LedgerAssumption ==
  /\ IsFiniteSet(Calls)
  /\ Path \in [Calls -> SUBSET Ledgers]
  /\ Estimate \in [Calls -> Nat]
  /\ None \notin Nat
  /\ Declared \in [Calls -> Nat \cup {None}]
  /\ Unbounded \in Nat
  /\ MaxCalls \in [Ledgers -> Nat] /\ MaxOutput \in [Ledgers -> Nat]
  /\ Limited \subseteq Ledgers /\ Limit \in [Ledgers -> Nat]
  /\ Priced \subseteq Ledgers
  /\ InPrice \in [Ledgers -> Nat] /\ OutPrice \in [Ledgers -> Nat]

VARIABLES
  ledger,     \* the counters of each TokenUsageCounter
  open,       \* _reservations: the calls each ledger holds a reservation for
  phase,      \* where each call is
  pending,    \* the ledgers whose callback for the current event has to run
  refused,    \* the calls some ledger refused
  usage       \* the tokens a call really consumed, and whether it said so

vars == <<ledger, open, phase, pending, refused, usage>>

Phases == {"idle", "starting", "invoking", "ended", "errored", "done", "abandoned"}
NoUsage == [input |-> 0, output |-> 0, reported |-> FALSE]

TypeOK ==
  /\ ledger \in [Ledgers -> [calls: Nat, used: Nat, reserved: Nat, missing: BOOLEAN]]
  /\ open \in [Ledgers -> SUBSET Calls]
  /\ phase \in [Calls -> Phases]
  /\ pending \in [Calls -> SUBSET Ledgers]
  /\ refused \subseteq Calls
  /\ usage \in [Calls -> [input: Nat, output: Nat, reported: BOOLEAN]]

Init ==
  /\ ledger = [l \in Ledgers |->
       [calls |-> 0, used |-> 0, reserved |-> 0, missing |-> FALSE]]
  /\ open = [l \in Ledgers |-> {}]
  /\ phase = [c \in Calls |-> "idle"]
  /\ pending = [c \in Calls |-> {}]
  /\ refused = {}
  /\ usage = [c \in Calls |-> NoUsage]

Cost(l, input, output) == input * InPrice[l] + output * OutPrice[l]

\* What a ledger sets aside: the estimate, and the largest output it permits.
Reservation(c, l) == Cost(l, Estimate[c], MaxOutput[l])

Actual(c, l) == Cost(l, usage[c].input, usage[c].output)

\* The agent asks for a call: on_chat_model_start is due on its whole path.
Request(c) ==
  /\ phase[c] = "idle"
  /\ phase' = [phase EXCEPT ![c] = "starting"]
  /\ pending' = [pending EXCEPT ![c] = Path[c]]
  /\ UNCHANGED <<ledger, open, refused, usage>>

CallsLeftOffByOne(l) == ledger[l].calls <= MaxCalls[l]  \* mutant

CallsLeft(l) == ledger[l].calls < MaxCalls[l]

AffordableNow(c, l) ==  \* mutant: forgets the calls in flight
  l \in Limited => ledger[l].used + Reservation(c, l) <= Limit[l]

Affordable(c, l) ==
  l \in Limited =>
    ledger[l].used + ledger[l].reserved + Reservation(c, l) <= Limit[l]

\* A money limit needs an output cap no larger than the ledger's, and prices.
Enforceable(c, l) ==
  l \in Limited => /\ Declared[c] # None
                   /\ Declared[c] <= MaxOutput[l]
                   /\ l \in Priced

Reserve(entry, cost) ==
  [entry EXCEPT !.calls = @ + 1, !.reserved = @ + cost]

\* One ledger's on_chat_model_start. It runs to its end even when another
\* ledger of the same call has refused meanwhile.
OnStart(c, l) ==
  /\ phase[c] \in {"starting", "done"}
  /\ l \in pending[c]
  /\ pending' = [pending EXCEPT ![c] = @ \ {l}]
  /\ IF Enforceable(c, l) /\ CallsLeft(l) /\ Affordable(c, l)
     THEN /\ ledger' = [ledger EXCEPT ![l] = Reserve(@, Reservation(c, l))]
          /\ open' = [open EXCEPT ![l] = @ \cup {c}]
          /\ UNCHANGED refused
     ELSE /\ refused' = refused \cup {c}
          /\ UNCHANGED <<ledger, open>>
  /\ UNCHANGED <<phase, usage>>

\* The first refusal is raised to the caller at once: the call never starts,
\* so it gets neither an end nor an error event.
RaiseRefusal(c) ==
  /\ phase[c] = "starting"
  /\ c \in refused
  /\ phase' = [phase EXCEPT ![c] = "done"]
  /\ UNCHANGED <<ledger, open, pending, refused, usage>>

\* Every ledger has admitted the call: the request is sent.
Send(c) ==
  /\ phase[c] = "starting"
  /\ pending[c] = {}
  /\ c \notin refused
  /\ phase' = [phase EXCEPT ![c] = "invoking"]
  /\ UNCHANGED <<ledger, open, pending, refused, usage>>

\* The output cap that the middleware puts into every ordinary call.
OutputCap(c) == IF Declared[c] = None THEN Unbounded ELSE Declared[c]

\* The provider has consumed tokens and replies, with or without usage data;
\* or the call fails; or its task is cancelled, which calls nothing back.
Outcome(c) ==
  /\ phase[c] = "invoking"
  /\ \E input \in 0..Estimate[c], output \in 0..OutputCap(c),
        to \in {"ended", "errored", "abandoned"}, reported \in BOOLEAN :
       /\ reported => to = "ended"
       /\ phase' = [phase EXCEPT ![c] = to]
       /\ usage' = [usage EXCEPT ![c] =
            [input |-> input, output |-> output, reported |-> reported]]
       /\ pending' = [pending EXCEPT ![c] = IF to = "abandoned" THEN {} ELSE Path[c]]
  /\ UNCHANGED <<ledger, open, refused>>

ChargeReported(c, l) ==  \* mutant: what is not reported costs nothing
  IF usage[c].reported THEN Actual(c, l) ELSE 0

\* on_llm_end replaces the reservation by the reported cost; on_llm_error, or
\* a reply that reports nothing, turns all of it into cost.
Charge(c, l) == IF usage[c].reported THEN Actual(c, l) ELSE Reservation(c, l)

SettleComplete(entry, cost, charge, reported) ==  \* mutant: usage is always complete
  [entry EXCEPT !.reserved = @ - cost, !.used = @ + charge]

Settle(entry, cost, charge, reported) ==
  [entry EXCEPT !.reserved = @ - cost,
                !.used = @ + charge,
                !.missing = @ \/ ~reported]

OnEnd(c, l) ==
  /\ phase[c] \in {"ended", "errored"}
  /\ l \in pending[c]
  /\ pending' = [pending EXCEPT ![c] = @ \ {l}]
  /\ ledger' = [ledger EXCEPT ![l] =
       Settle(@, Reservation(c, l), Charge(c, l), usage[c].reported)]
  /\ open' = [open EXCEPT ![l] = @ \ {c}]
  /\ UNCHANGED <<phase, refused, usage>>

Finish(c) ==
  /\ phase[c] \in {"ended", "errored"}
  /\ pending[c] = {}
  /\ phase' = [phase EXCEPT ![c] = "done"]
  /\ UNCHANGED <<ledger, open, pending, refused, usage>>

Next == \E c \in Calls :
  \/ Request(c) \/ RaiseRefusal(c) \/ Send(c) \/ Outcome(c) \/ Finish(c)
  \/ \E l \in Path[c] : OnStart(c, l) \/ OnEnd(c, l)

Spec == Init /\ [][Next]_vars

(***************************************************************************)
(* Properties.                                                             *)
(***************************************************************************)

\* The calls that were sent to the provider on behalf of a ledger's agent.
Sent(c) ==
  \/ phase[c] \in {"invoking", "ended", "errored", "abandoned"}
  \/ phase[c] = "done" /\ c \notin refused

SentThrough(l) == {c \in Calls : l \in Path[c] /\ Sent(c)}

Spend(l) == MapThenSumSet(LAMBDA c : Actual(c, l), SentThrough(l))

\* However its subagents' calls interleave, no agent makes more provider calls
\* than its max_model_calls permits (deepagents_runner.py:187).
CallBudget == \A l \in Ledgers : Cardinality(SentThrough(l)) <= MaxCalls[l]

\* A ledger never promises more money than its limit, counting what calls in
\* flight may still cost: concurrent admissions do not add up past it.
BudgetBounded == \A l \in Limited :
  ledger[l].used + ledger[l].reserved <= Limit[l]

\* The tokens really consumed, also by calls that failed, were cancelled or
\* reported no usage, cost no more than the ledger has accounted for.
SpendCovered == \A l \in Limited : Spend(l) <= ledger[l].used + ledger[l].reserved

\* A report that says usage_complete states the true cost, once every call of
\* the agent has been answered.
CompleteUsageIsExact == \A l \in Ledgers :
  /\ ~ledger[l].missing
  /\ \A c \in Calls : l \in Path[c] =>
       phase[c] = "idle" \/ (phase[c] = "done" /\ c \notin refused)
  => ledger[l].used + ledger[l].reserved = Spend(l)
=============================================================================
