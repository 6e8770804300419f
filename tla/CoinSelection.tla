---------------------------- MODULE CoinSelection ----------------------------
(***************************************************************************)
(* Coin selection (src/crates/verus-tx-primitives/src/fee.rs): outputs are *)
(* taken largest first until they cover what is required and the fee for   *)
(* as many inputs as were taken, in u64 amounts with an i128 remainder.    *)
(* An output is the position it has in the caller's list; in which order   *)
(* they become inputs is left out.                                         *)
(*                                                                         *)
(* The interest is in the loop: each input taken raises the fee the loop   *)
(* has to cover, and what is left over is either change or more fee.       *)
(***************************************************************************)
EXTENDS Integers, Sequences, FiniteSets, FiniteSetsExt

CONSTANTS
  TX_OVERHEAD, INPUT_SIZE,
  P2PKH_OUTPUT_SIZE, SMART_OUTPUT_SIZE,
  KB,               \* the 1000 of "fee per kb"
  MIN_FEE, DUST_THRESHOLD, MAX_MINER_FEE,
  MaxU64,           \* largest amount the machine type holds
  Outpoints,        \* bound: outpoints the caller may list
  Values,           \* bound: satoshis an output may hold
  Requests,         \* bound: amounts asked for
  Rates,            \* bound: fees per kb asked for
  MaxUtxos          \* bound: length of the caller's list

ASSUME FeeAssumption ==
  /\ {TX_OVERHEAD, INPUT_SIZE, P2PKH_OUTPUT_SIZE, SMART_OUTPUT_SIZE} \subseteq Nat
  /\ KB \in Nat \ {0} /\ MIN_FEE \in Nat \ {0}
  /\ DUST_THRESHOLD \in Nat /\ MAX_MINER_FEE \in Nat /\ MaxU64 \in Nat
  /\ Values \subseteq 0..MaxU64 /\ Requests \subseteq 0..MaxU64 /\ Rates \subseteq 0..MaxU64
  /\ MaxUtxos \in Nat

VARIABLES
  utxos,       \* the list the caller handed over
  request,     \* [native, rate, smart]: required_native, fee_per_kb, has_smart_outputs
  candidates,  \* what is left to take
  selected,    \* taken so far
  remaining,   \* remaining_native, signed
  fee,         \* estimate for the inputs taken so far
  result       \* "running", or how the call returned, with the Selection

selection_vars == <<utxos, request, candidates, selected, remaining, fee, result>>

-----------------------------------------------------------------------------
Overflow == MaxU64 + 1
Running  == [kind |-> "running", change |-> 0, fee |-> 0]
Returned(kind) == [kind |-> kind, change |-> 0, fee |-> 0]

\* What the outputs at the positions S are worth together.
ValueOf(S) == MapThenSumSet(LAMBDA i : utxos[i].satoshis, S)

\* estimate_fee for one declared output and its change; Overflow when the
\* checked arithmetic refuses.
estimate_fee(inputs, req) ==
  LET output == IF req.smart THEN SMART_OUTPUT_SIZE ELSE P2PKH_OUTPUT_SIZE
      size   == TX_OVERHEAD + inputs * INPUT_SIZE + 2 * output
      price  == (size * req.rate + KB - 1) \div KB
  IN IF size * req.rate > MaxU64 THEN Overflow
     ELSE IF price > MIN_FEE THEN price ELSE MIN_FEE

Duplicated(S) == \E i, j \in S : i < j /\ utxos[i].outpoint = utxos[j].outpoint

\* Mutant: smallest first.
Before_Ascending(i, j) ==
  utxos[i].satoshis < utxos[j].satoshis \/ (utxos[i].satoshis = utxos[j].satoshis /\ i < j)

\* Descending by value, and stably: equal ones stay in the caller's order.
Before(i, j) ==
  utxos[i].satoshis > utxos[j].satoshis \/ (utxos[i].satoshis = utxos[j].satoshis /\ i < j)

First(S) == CHOOSE i \in S : \A j \in S \ {i} : Before(i, j)

\* Mutant: change below the threshold is dropped and not paid to the miner.
Settle_DropsDust(left, price) ==
  [kind |-> "selected", change |-> IF left > DUST_THRESHOLD THEN left ELSE 0, fee |-> price]

\* Change above the dust threshold is returned, the rest goes to the fee.
Settle(left, price) ==
  IF left > DUST_THRESHOLD THEN [kind |-> "selected", change |-> left, fee |-> price]
  ELSE [kind |-> "selected", change |-> 0, fee |-> price + left]

-----------------------------------------------------------------------------
Uncovered == remaining + fee > 0

\* An outpoint listed twice would count its value twice.
RefuseDuplicate ==
  /\ result = Running /\ selected = {} /\ Duplicated(DOMAIN utxos)
  /\ result' = Returned("duplicate")
  /\ UNCHANGED <<utxos, request, candidates, selected, remaining, fee>>

RefuseOverflow ==
  /\ result = Running /\ ~Duplicated(DOMAIN utxos)
  /\ fee = Overflow
  /\ result' = Returned("overflow")
  /\ UNCHANGED <<utxos, request, candidates, selected, remaining, fee>>

Take ==
  /\ result = Running /\ ~Duplicated(DOMAIN utxos) /\ fee # Overflow
  /\ Uncovered /\ candidates # {}
  /\ candidates' = candidates \ {First(candidates)}
  /\ selected' = selected \cup {First(candidates)}
  /\ remaining' = remaining - utxos[First(candidates)].satoshis
  /\ fee' = estimate_fee(Cardinality(selected'), request)
  /\ UNCHANGED <<utxos, request, result>>

RunDry ==
  /\ result = Running /\ ~Duplicated(DOMAIN utxos) /\ fee # Overflow
  /\ Uncovered /\ candidates = {}
  /\ result' = Returned("insufficient")
  /\ UNCHANGED <<utxos, request, candidates, selected, remaining, fee>>

\* The sum of what was taken is checked, the subtraction is not.
Finish ==
  /\ result = Running /\ ~Duplicated(DOMAIN utxos) /\ fee # Overflow /\ ~Uncovered
  /\ LET settled == Settle(ValueOf(selected) - request.native - fee, fee) IN
     result' = IF ValueOf(selected) > MaxU64 THEN Returned("overflow")
               ELSE IF settled.fee > MAX_MINER_FEE THEN Returned("ceiling")
               ELSE settled
  /\ UNCHANGED <<utxos, request, candidates, selected, remaining, fee>>

SelectionInit ==
  /\ utxos \in UNION {[1..n -> [outpoint : Outpoints, satoshis : Values]] : n \in 0..MaxUtxos}
  /\ request \in [native : Requests, rate : Rates, smart : BOOLEAN]
  /\ candidates = DOMAIN utxos
  /\ selected = {}
  /\ remaining = request.native
  /\ fee = estimate_fee(1, request)
  /\ result = Running

SelectionNext == RefuseDuplicate \/ RefuseOverflow \/ Take \/ RunDry \/ Finish

SelectionSpec == SelectionInit /\ [][SelectionNext]_selection_vars

-----------------------------------------------------------------------------
(***************************************************************************)
(* Properties                                                              *)
(***************************************************************************)
\* The outputs at the positions S of the caller's list would pay for the
\* request and for themselves.
Covers(S) == ValueOf(S) \geq request.native + estimate_fee(Cardinality(S), request)

NonEmptyChoices == (SUBSET DOMAIN utxos) \ {{}}

\* "Insufficient funds" is the truth: no choice of outputs whatever would
\* have paid, although inputs that cost more than they bring are taken too.
ShortOnlyWhenHopeless ==
  result.kind = "insufficient" => \A S \in NonEmptyChoices : ~Covers(S)

\* Every satoshi taken is paid, returned or charged, each input is counted
\* once, and the miner gets the estimate and at most the dust on top.
PaysExactly ==
  result.kind = "selected" =>
    /\ ValueOf(selected) = request.native + result.change + result.fee
    /\ ~Duplicated(selected)
    /\ LET asked == estimate_fee(Cardinality(selected), request) IN
       asked \leq result.fee /\ result.fee \leq asked + DUST_THRESHOLD
=============================================================================
