--------------------------- MODULE ShardedInference ---------------------------
(***************************************************************************)
(* One model run across many providers (src/kemi/sharded.py over           *)
(* Consumer.list_providers and execute_on of src/kemi/consumer.py).  The   *)
(* layers are split among the providers once; for every token the hidden   *)
(* state passes through all of them, and each stage may be run by several  *)
(* providers and voted on.  Every run is paid for on its own.  What        *)
(* providers did decides who is hired first, or at all, by the next        *)
(* generation.                                                             *)
(*                                                                         *)
(* A hidden state is the layers that have been applied; a layer that was   *)
(* not computed but made up is Lie.                                        *)
(***************************************************************************)
EXTENDS Reputation, Sequences, FiniteSets, FiniteSetsExt, SequencesExt

CONSTANTS
    Provider,
    Liar,          \* providers that may return what they have not computed
    Layers,        \* n_layers
    Redundancy,
    Tokens,        \* max_tokens
    Price,         \* the base price, the same for all
    Funds,         \* the consumer's balance to begin with
    Past,          \* rows its reputation store may hold to begin with
    Warmup,        \* WARMUP_STEPS
    MaxRuns, MaxFailures, MaxDecays    \* bounds

ASSUME ShardAssumption ==
    /\ IsFiniteSet(Provider) /\ Liar \subseteq Provider
    /\ Layers \in Nat \ {0} /\ Redundancy \in Nat \ {0} /\ Tokens \in Nat
    /\ Price \in Nat \ {0} /\ Funds \in Nat /\ Warmup \in Nat
    /\ \A r \in Past : r.good \in Nat /\ r.bad \in Nat /\ r.events \in Nat
                       /\ r.condemned \in BOOLEAN
    /\ MaxRuns \in Nat /\ MaxFailures \in Nat /\ MaxDecays \in Nat

VARIABLES
    rep,        \* rep[p]: p's row in the consumer's reputation store
    learned,    \* how many outcomes the brain has seen, up to Warmup
    balance,    \* the consumer's, on its own replica
    unseen,     \* payments in force that its replica does not know of
    pulled,     \* history: payments it came to know by gossip
    opening,    \* history: balance and pulled when the generation began
    stage,      \* the generation: where it is, see below
    plan,       \* its stages: who, from and to which layer, at what price
    listing,    \* the providers it may turn to, with their prices
    token,      \* tokens produced
    hidden,     \* the hidden state
    left,       \* the candidates of this stage that are left
    answers,    \* the answers of this stage, in the order they came
    winner,     \* the answer that has had a majority, if one has
    spent,      \* what the generation says it has spent
    verified,   \* stages whose answer came from two
    runs, failures, decays    \* counters

books == <<balance, unseen, pulled, opening>>
memory == <<rep, learned>>
vote == <<left, answers, winner>>
bounds == <<runs, failures, decays>>
vars == <<memory, books, stage, plan, listing, token, hidden, vote, spent, verified, bounds>>

Lie == -1

\* No answer: a hidden state there is none of.
None == <<-2>>

\* stage is 0 outside a generation, -1 when it has a plan and not yet its
\* listing, and else the place in the plan of the stage that is run.
Outside == stage = 0

Init ==
    /\ rep \in [Provider -> Past] /\ learned = 0
    /\ balance = Funds /\ unseen = 0 /\ pulled = 0 /\ opening = Funds
    /\ stage = 0 /\ plan = <<>> /\ listing = <<>> /\ token = 0 /\ hidden = <<>>
    /\ left = <<>> /\ answers = <<>> /\ winner = None
    /\ spent = 0 /\ verified = 0
    /\ runs = 0 /\ failures = 0 /\ decays = 0

----------------------------------------------------------------------------
\* Who is asked.

Usable == {p \in Provider : ~Banned(rep[p])}

\* trained: the brain's predictions count.
Trained == learned >= Warmup

\* Best reputation first, then cheapest.  Once the brain is trained its
\* predictions have a say, and any order may come out.
Ranked(l) ==
    Trained \/
    \A i, j \in DOMAIN l : i < j =>
        /\ ~Better(rep[l[j].who], rep[l[i].who])
        /\ Better(rep[l[i].who], rep[l[j].who]) \/ l[i].price <= l[j].price

\* What list_providers may return: prices are up to twice the base price.
Listings ==
    {l \in {[i \in 1..Cardinality(Usable) |-> [who |-> order[i], price |-> prices[order[i]]]] :
               order \in SetToSeqs(Usable), prices \in [Usable -> {Price, 2 * Price}]} :
        Ranked(l)}

\* How many stages a plan over l may have: as many as there are providers and
\* layers, or fewer (max_stages).
Stages(l) == 1..Min({Layers, Len(l)})

\* plan_shards: the first stages are a layer wider when the layers do not divide.
Sliced(l, stages) ==
    LET base == Layers \div stages
        extra == Layers % stages
        From(i) == (i - 1) * base + (IF i - 1 < extra THEN i - 1 ELSE extra)
    IN [i \in 1..stages |->
          [who |-> l[i].who, price |-> l[i].price, from |-> From(i), to |-> From(i + 1)]]

\* make_plan; with too few providers it raises.  Bound: MaxRuns generations.
MakePlan ==
    /\ Outside /\ runs < MaxRuns /\ runs' = runs + 1
    /\ Cardinality(Usable) >= Min({2, Redundancy})
    /\ \E l \in Listings : \E stages \in Stages(l) : plan' = Sliced(l, stages)
    /\ stage' = -1
    /\ UNCHANGED <<memory, books, listing, token, hidden, vote, spent, verified,
                   failures, decays>>

\* Candidates of stage i: the one of the plan, then the others as listed.  Nobody
\* is listed twice.
Candidates(i, l) ==
    <<[who |-> plan[i].who, price |-> plan[i].price]>>
      \o RemoveFirstMatch(l, LAMBDA r : r.who = plan[i].who)

\* The loop over tokens and stages goes on to the first stage: with the listing
\* of the generation, and the embedding of the tokens.
Begin ==
    /\ stage = -1
    /\ \E l \in Listings : listing' = l /\ left' = Candidates(1, l)
    /\ stage' = 1 /\ token' = 0 /\ hidden' = <<>>
    /\ answers' = <<>> /\ winner' = None /\ spent' = 0 /\ verified' = 0
    /\ opening' = balance + pulled
    /\ UNCHANGED <<memory, balance, unseen, pulled, plan, bounds>>

----------------------------------------------------------------------------
\* One stage.

Needed == Redundancy

\* Mutant: half of the votes do.
Majority_Half == Needed \div 2

Majority == Needed \div 2 + 1

Votes(a) == Cardinality({i \in DOMAIN answers : answers[i] = a})

\* The loop over the candidates ends: results holds distinct answers.
Enough == Cardinality(ToSet(answers)) >= Needed /\ winner # None

\* The hidden state after the layers from start up to end.
Forward(h, start, end) == h \o [i \in 1..(end - start) |-> start + i - 1]

\* The task ai.shard.
Shard == Forward(hidden, plan[stage].from, plan[stage].to)

\* What p may answer: the layers of the stage, or made up.
Outputs(p) ==
    {Shard}
       \cup (IF p \in Liar THEN {Append(hidden, Lie)} ELSE {})

\* A stage is being run, and the next candidate can be paid.
Hiring ==
    /\ stage > 0 /\ left # <<>> /\ ~Enough
    /\ balance >= Head(left).price

\* One more outcome.
Learned == Min({Warmup, learned + 1})

Learn(p, event) ==
    /\ rep' = [rep EXCEPT ![p] = Record(@, event)]
    /\ learned' = Learned

\* execute_on succeeds: the payment is in force and applied.
Served ==
    /\ Hiring
    /\ \E out \in Outputs(Head(left).who) :
          /\ answers' = Append(answers, out)
          /\ winner' = IF Votes(out) + 1 >= Majority THEN out ELSE winner
    /\ balance' = balance - Head(left).price
    /\ spent' = spent + Head(left).price
    /\ Learn(Head(left).who, "chunk_ok")
    /\ left' = Tail(left)
    /\ UNCHANGED <<unseen, pulled, opening, stage, plan, listing, token, hidden, verified, bounds>>

\* Mutant: what a failed provider would have cost is counted as spent.
Unserved_Spent ==
    /\ Hiring /\ failures < MaxFailures /\ failures' = failures + 1
    /\ \E paid \in {0, Head(left).price} : unseen' = unseen + paid
    /\ spent' = spent + Head(left).price
    /\ Learn(Head(left).who, "chunk_fail")
    /\ left' = Tail(left)
    /\ UNCHANGED <<balance, pulled, opening, stage, plan, listing, token, hidden, answers, winner,
                   verified, runs, decays>>

\* It raises: the provider cannot be reached, refuses, or what it answers is no
\* result.  It may have been paid.
Unserved ==
    /\ Hiring /\ failures < MaxFailures /\ failures' = failures + 1
    /\ \E paid \in {0, Head(left).price} : unseen' = unseen + paid
    /\ Learn(Head(left).who, "chunk_fail")
    /\ left' = Tail(left)
    /\ UNCHANGED <<balance, pulled, opening, stage, plan, listing, token, hidden, answers, winner,
                   spent, verified, runs, decays>>

\* A sealed answer that is no JSON object: the error is none that is expected,
\* and ends the generation.
Broken ==
    /\ Hiring /\ Head(left).who \in Liar
    /\ failures < MaxFailures /\ failures' = failures + 1
    /\ \E paid \in {0, Head(left).price} : unseen' = unseen + paid
    /\ stage' = 0
    /\ UNCHANGED <<memory, balance, pulled, opening, plan, listing, token, hidden, vote, spent,
                   verified, runs, decays>>

\* It raises before anything happens: the balance does not do.
Unaffordable ==
    /\ stage > 0 /\ left # <<>> /\ ~Enough
    /\ balance < Head(left).price
    /\ left' = Tail(left)
    /\ UNCHANGED <<memory, books, stage, plan, listing, token, hidden, answers, winner,
                   spent, verified, bounds>>

Over == stage > 0 /\ (Enough \/ left = <<>>)

\* The answer the stage goes on with: the last one to get a majority, or else
\* the first one of those given most.
Decision ==
    IF winner # None THEN winner
    ELSE answers[Min({i \in DOMAIN answers :
                        \A j \in DOMAIN answers : Votes(answers[j]) <= Votes(answers[i])})]

\* Mutant: with redundancy every stage counts as verified.
Confirmed_All == Redundancy > 1

\* verified: two have given the answer.
Confirmed == Redundancy > 1 /\ Votes(Decision) >= 2

\* Nobody ran the stage: the generation fails.
Fail ==
    /\ Over /\ answers = <<>>
    /\ stage' = 0
    /\ UNCHANGED <<memory, books, plan, listing, token, hidden, vote, spent, verified, bounds>>

\* The next stage, of this token or of the next, which begins with the embedding
\* of all tokens so far; or the end of the generation.
Advance ==
    /\ Over /\ answers # <<>>
    /\ verified' = verified + (IF Confirmed THEN 1 ELSE 0)
    /\ IF stage < Len(plan)
       THEN stage' = stage + 1 /\ hidden' = Decision /\ UNCHANGED token
       ELSE /\ token' = token + 1
            /\ IF token + 1 < Tokens THEN stage' = 1 /\ hidden' = <<>>
               ELSE stage' = 0 /\ hidden' = Decision
    /\ left' = IF stage' = 0 THEN <<>> ELSE Candidates(stage', listing)
    /\ answers' = <<>> /\ winner' = None
    /\ UNCHANGED <<memory, books, plan, listing, spent, bounds>>

----------------------------------------------------------------------------
\* Meanwhile, in the node.

\* Gossip brings a payment the consumer had given up.
Pull ==
    /\ unseen > 0
    /\ balance' = balance - unseen /\ pulled' = pulled + unseen /\ unseen' = 0
    /\ UNCHANGED <<memory, opening, stage, plan, listing, token, hidden, vote, spent, verified,
                   bounds>>

\* Gossip brings proof that p has spent one seq twice.
Condemn(p) ==
    /\ ~rep[p].condemned /\ failures < MaxFailures /\ failures' = failures + 1
    /\ rep' = [rep EXCEPT ![p] = Record(@, "double_spend")]
    /\ UNCHANGED <<learned, books, stage, plan, listing, token, hidden, vote, spent, verified,
                   runs, decays>>

Decay ==
    /\ decays < MaxDecays /\ decays' = decays + 1
    /\ rep' = [p \in Provider |-> Decayed(rep[p])]
    /\ UNCHANGED <<learned, books, stage, plan, listing, token, hidden, vote, spent, verified,
                   runs, failures>>

Next ==
    \/ MakePlan \/ Begin \/ Served \/ Unserved \/ Broken \/ Unaffordable \/ Fail \/ Advance
    \/ Pull \/ Decay \/ \E p \in Provider : Condemn(p)

Spec == Init /\ [][Next]_vars

----------------------------------------------------------------------------
Right(h) == \A i \in DOMAIN h : h[i] = i - 1

\* Whatever is decided on when there is more than one answer to choose from, the
\* answer of a majority is, when liars alone cannot be one: a sharded forward
\* pass that was cross-checked is not corrupted (module docstring).
MajorityIsRight ==
    Over /\ answers # <<>> /\ Cardinality(Liar) < Redundancy \div 2 + 1 =>
        LET right == Forward(hidden, plan[stage].from, plan[stage].to)
        IN Votes(right) >= Redundancy \div 2 + 1 => Decision = right

\* A generation all of whose stages were verified has passed the hidden state
\* through every layer of the model, once and in order, if no two liars conspire:
\* slices, stages and tokens leave none out, whoever failed on the way.
VerifiedIsWhole ==
    Outside /\ Tokens > 0 /\ token = Tokens /\ verified = Tokens * Len(plan)
    /\ Cardinality(Liar) <= 1
        => hidden = [i \in 1..Layers |-> i - 1]

\* What a generation says it has spent is what the ledger has charged for it,
\* though failed attempts may have been paid and gossip charges those later.
SpentIsCharged == stage >= 0 /\ runs > 0 => opening - (balance + pulled) = spent

\* The docstring of _run_stage says "optionally on >1 distinct ship": with
\* answers that agree no more are paid than the redundancy asks for.
NoMoreThanNeeded == Cardinality(ToSet(answers)) <= 1 => Len(answers) <= Redundancy
=============================================================================
