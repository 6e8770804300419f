--------------------------- MODULE ShieldedMoney ---------------------------
(***************************************************************************)
(* The money of a shielded spend (src/crates/verus-flows/src/shielded):    *)
(* what `prove_spend` makes of a plan and a request, what                  *)
(* `build_shielded_spend` refuses, what a recipient reads of it with       *)
(* `received` and `memo_text`, and the fee `min_relay_fee` asks.           *)
(*                                                                         *)
(* How a plan comes about, and that its anchor is the chain's, is          *)
(* SpendPlan's; here it is the notes it spends and what it set aside.      *)
(***************************************************************************)
EXTENDS Integers, Sequences, SequencesExt

CONSTANTS
  None, Refused,
  U64Max, I64Max,
  MEMO_SIZE,
  TextBytes,       \* bytes that are a character of their own; 0 is one
  NotText,         \* the first bytes ZIP-302 gives another meaning
  DEFAULT_TRANSACTION_FEE

TotalOf(outputs) == SumFunction([i \in DOMAIN outputs |-> outputs[i].value])
Fits(n)          == n <= U64Max

-----------------------------------------------------------------------------
(***************************************************************************)
(* Memos                                                                   *)
(***************************************************************************)
Padded(bytes) == [i \in 1..MEMO_SIZE |-> IF i <= Len(bytes) THEN bytes[i] ELSE 0]

\* ShieldedRecipient::new and with_memo.
with_memo(address, amount, text) ==
  IF Len(text) > MEMO_SIZE THEN Refused
  ELSE [recipient |-> address, value |-> amount, memo |-> Padded(text)]

Trimmed(bytes) == SubSeq(bytes, 1, SelectLastInSeq(bytes, LAMBDA b : b # 0))

memo_text(memo) ==
  IF memo[1] \in NotText \/ \E i \in 1..Len(Trimmed(memo)) : memo[i] \notin TextBytes
  THEN None ELSE Trimmed(memo)

\* What a key decrypts of an output has to be what the scan reported.
received(key, note, output) ==
  IF output.key # key \/ output.value # note.value \/ output.recipient # note.recipient
  THEN Refused
  ELSE [value |-> output.value, recipient |-> output.recipient, memo |-> output.memo]

-----------------------------------------------------------------------------
(***************************************************************************)
(* The spend                                                               *)
(***************************************************************************)
total_out(request) == TotalOf(request.shielded_to) + TotalOf(request.transparent_to)

cost_of(request) ==
  IF request.shielded_to \o request.transparent_to = <<>> \/ ~ Fits(total_out(request) + request.fee)
  THEN Refused ELSE total_out(request) + request.fee

\* plan_spend, over the notes it selected for `need`.
PlanFor(notes, need) ==
  [notes |-> notes, total_in |-> TotalOf(notes), change |-> TotalOf(notes) - need, anchor |-> notes[1].anchor]

check_plan_covers(plan, needed) ==
  Fits(plan.change + needed) /\ plan.change + needed = plan.total_in

\* Mutant: whatever the request names, the first note's own address.
change_address_First(request, plan) == plan.notes[1].recipient

change_address(request, plan) ==
  IF request.change_address # None THEN request.change_address ELSE plan.notes[1].recipient

transparent_script(address) ==
  CASE address.kind = "Identity"   -> [shape |-> "identity", of |-> address.hash]
    [] address.kind = "PubKeyHash" -> [shape |-> "p2pkh", of |-> address.hash]
    [] OTHER                       -> Refused

\* Mutant: what is over goes to the miner.
check_conservation_AtLeast(total_in, shielded, transparent, fee) ==
  LET spent == TotalOf(shielded) + TotalOf(transparent) + fee IN
  Fits(spent) /\ total_in >= spent

check_conservation(total_in, shielded, transparent, fee) ==
  LET spent == TotalOf(shielded) + TotalOf(transparent) + fee IN
  Fits(spent) /\ total_in = spent

\* The output fetched for each note is decrypted with the key that spends it:
\* what counts is what it decrypts to, whatever the scan reported.
build_shielded_spend(extsk, notes, shielded, transparent, fee, expected_anchor) ==
  LET decrypted == [i \in DOMAIN notes |-> notes[i].output] IN
  IF /\ notes # <<>>
     /\ \A i \in DOMAIN notes : decrypted[i].key = extsk /\ notes[i].anchor = expected_anchor
     /\ IsInjective([i \in DOMAIN notes |-> decrypted[i].cmu])
     /\ Fits(TotalOf(decrypted))
     /\ check_conservation(TotalOf(decrypted), shielded, transparent, fee)
     /\ TotalOf(decrypted) - TotalOf(shielded) <= I64Max
  THEN [spends |-> [i \in DOMAIN notes |-> decrypted[i].nullifier], shielded |-> shielded,
        transparent |-> transparent, value_balance |-> TotalOf(decrypted) - TotalOf(shielded)]
  ELSE Refused

prove_spend(plan, request) ==
  LET change      == IF plan.change = 0 THEN <<>>
                     ELSE <<with_memo(change_address(request, plan), plan.change, <<>>)>>
      transparent == [i \in DOMAIN request.transparent_to |->
                        [value  |-> request.transparent_to[i].value,
                         script |-> transparent_script(request.transparent_to[i].address)]]
      tx == build_shielded_spend(request.extsk, plan.notes, request.shielded_to \o change,
                                 transparent, request.fee, plan.anchor)
  IN IF /\ cost_of(request) # Refused /\ check_plan_covers(plan, cost_of(request))
        /\ \A i \in DOMAIN transparent : transparent[i].script # Refused
        /\ tx # Refused
     THEN [tx |-> tx, fee |-> request.fee, change |-> plan.change,
           nullifiers |-> [i \in DOMAIN plan.notes |-> plan.notes[i].nullifier]]
     ELSE Refused

prepare_spend(notes, request) == prove_spend(PlanFor(notes, cost_of(request)), request)

-----------------------------------------------------------------------------
(***************************************************************************)
(* The fee                                                                 *)
(***************************************************************************)
Saturated(n, max) == IF n > max THEN max ELSE n
Beyond(n, free)   == IF n > free THEN n - free ELSE 0

\* GetMinRelayFeeByOutputs, branch for branch.
min_relay_fee(shielded_outputs, transparent_outputs) ==
  LET shielded    == Saturated(shielded_outputs, I64Max)
      transparent == Saturated(transparent_outputs, I64Max)
      extra == CASE transparent > 3 -> Saturated(Beyond(shielded, 1) + Beyond(transparent, 3), I64Max)
                 [] transparent = 3 -> Beyond(shielded, 2)
                 [] OTHER           -> Beyond(shielded, 3)
  IN Saturated(DEFAULT_TRANSACTION_FEE + Saturated(extra * DEFAULT_TRANSACTION_FEE, U64Max), U64Max)

-----------------------------------------------------------------------------
(***************************************************************************)
(* Properties                                                              *)
(***************************************************************************)
\* Whatever plan a request meets and whatever output is fetched for a note, a
\* spend that is built burns no note twice and, where the outputs are those of
\* the notes, the ones it reports; it pays the miner what the request says to the satoshi, each recipient
\* what they were promised, with its memo, and the rest to who is to have it
\* (prove_spend, build_shielded_spend).
IsAsAsked(built, notes, request) ==
  LET asked == Len(request.shielded_to)
      mine  == {notes[i].recipient : i \in DOMAIN notes}
  IN built # Refused =>
       /\ IsInjective(built.tx.spends)
       /\ (\A i \in DOMAIN notes : notes[i].output.nullifier = notes[i].nullifier) => built.nullifiers = built.tx.spends
       /\ built.tx.value_balance - TotalOf(built.tx.transparent) = request.fee
       /\ \A i \in 1..asked :
            LET there == built.tx.shielded[i]
                output == [key |-> "theirs", value |-> there.value, recipient |-> there.recipient, memo |-> there.memo]
                read == received("theirs", request.shielded_to[i], output)
            IN read # Refused /\ memo_text(read.memo) = memo_text(request.shielded_to[i].memo)
       /\ LET rest == SubSeq(built.tx.shielded, asked + 1, Len(built.tx.shielded)) IN
          /\ TotalOf(rest) = built.change
          /\ \A i \in DOMAIN rest : IF request.change_address # None THEN rest[i].recipient = request.change_address
                                    ELSE rest[i].recipient \in mine
       /\ [i \in DOMAIN built.tx.transparent |-> built.tx.transparent[i].script.of]
            = [i \in DOMAIN request.transparent_to |-> request.transparent_to[i].address.hash]
PaysAsAsked(notes, need, request) ==
  need <= TotalOf(notes) => IsAsAsked(prove_spend(PlanFor(notes, need), request), notes, request)

\* The plan made for a request proves it, when the notes are what the scan said
\* (plan_spend, prove_spend).
PlansAreProved(notes, need, request) ==
  /\ need = cost_of(request) /\ need <= TotalOf(notes)
  /\ \A i \in DOMAIN notes : notes[i].output.value = notes[i].value /\ notes[i].output.key = request.extsk
                             /\ notes[i].anchor = notes[1].anchor
  /\ IsInjective([i \in DOMAIN notes |-> notes[i].output.cmu])
  /\ \A i \in DOMAIN request.transparent_to : request.transparent_to[i].address.kind # "ScriptHash"
  /\ Fits(TotalOf(notes)) /\ TotalOf(request.transparent_to) + request.fee <= I64Max
  => prepare_spend(notes, request) # Refused

\* A text is read as it was written but for zeros at its end, and every memo
\* that reads as a text is the memo of that text (with_memo, memo_text).
MemosAreRead(bytes) ==
  LET sent == with_memo("z", 0, bytes) IN
  /\ sent # Refused /\ (\A i \in DOMAIN bytes : bytes[i] \in TextBytes) => memo_text(sent.memo) = Trimmed(bytes)
  /\ sent # Refused /\ memo_text(sent.memo) # None => with_memo("z", 0, memo_text(sent.memo)) = sent

\* No output makes a spend relay for less, at any count (min_relay_fee).
MoreOutputsNeverCostLess(shielded, transparent) ==
  LET fee == min_relay_fee(shielded, transparent) IN
  /\ DEFAULT_TRANSACTION_FEE <= fee /\ fee <= U64Max
  /\ fee <= min_relay_fee(shielded + 1, transparent) /\ fee <= min_relay_fee(shielded, transparent + 1)
=============================================================================
