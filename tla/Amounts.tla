------------------------------ MODULE Amounts ------------------------------
(***************************************************************************)
(* Money as text: the readers of src/crates/verus-rpc/src/json.rs, the     *)
(* Amount of verus-tx-primitives/src/amount.rs, the SignedAmount of        *)
(* verus-rpc/src/types.rs and the conversions of verus-wasm/src/money.rs   *)
(* and dto.rs.                                                             *)
(*                                                                         *)
(* A number is what is written: a sign, digits before and after the point, *)
(* and an exponent or none.  Widths and ceilings are scaled down, and so   *)
(* are the places after the point.                                         *)
(***************************************************************************)
EXTENDS Integers, Sequences, SequencesExt

CONSTANTS
  Places,            \* digits of a satoshi: 8
  U64Max, I64Max,    \* what the integers hold
  MAX_NATIVE_SATS, MAX_CURRENCY_SATS,
  MAX_EXPONENT,
  NoExponent, Refused, NoEstimate   \* no number

Ten[n \in Nat] == IF n = 0 THEN 1 ELSE 10 * Ten[n - 1]
SATS_PER_COIN == Ten[Places]

Zeros(n) == [i \in 1..n |-> 0]
Number(digits) == FoldLeft(LAMBDA n, d : 10 * n + d, 0, digits)
DigitsOf[n \in Nat] == IF n < 10 THEN <<n>> ELSE Append(DigitsOf[n \div 10], n % 10)

TrimZeros(digits) ==
  LET nonzero == {i \in DOMAIN digits : digits[i] # 0}
  IN SubSeq(digits, 1, IF nonzero = {} THEN 0 ELSE CHOOSE i \in nonzero : \A j \in nonzero : j \leq i)

Plain(negative, whole, fraction) ==
  [negative |-> negative, whole |-> whole, fraction |-> fraction, exponent |-> NoExponent]

-----------------------------------------------------------------------------
\* Amount::from_coins_str.  Every step is checked against the width.
from_coins_str(t) ==
  LET whole    == Number(t.whole)
      fraction == Number(t.fraction) * Ten[Places - Len(t.fraction)]
      value    == whole * SATS_PER_COIN + fraction
  IN IF \/ t.negative \/ t.exponent # NoExponent
        \/ t.whole = <<>> /\ t.fraction = <<>>
        \/ Len(t.fraction) > Places
     THEN Refused
     ELSE IF value > U64Max THEN Refused ELSE value

\* Amount::to_coins_string
to_coins_string(sats) ==
  LET fraction == DigitsOf[SATS_PER_COIN + (sats % SATS_PER_COIN)]
  IN Plain(FALSE, DigitsOf[sats \div SATS_PER_COIN], TrimZeros(Tail(fraction)))

checked_add(a, b) ==
  IF a = Refused \/ b = Refused THEN Refused
  ELSE IF a + b > U64Max THEN Refused ELSE a + b
checked_sum(amounts) == FoldLeft(checked_add, 0, amounts)

-----------------------------------------------------------------------------
bounded(amount, ceiling) ==
  IF amount = Refused THEN Refused ELSE IF amount > ceiling THEN Refused ELSE amount

coins_bounded(t, ceiling) ==
  IF t.exponent # NoExponent THEN Refused ELSE bounded(from_coins_str(t), ceiling)

\* Mutant: the digits after the point are not counted.
expand_exponent_FromTheEnd(t) ==
  LET digits == t.whole \o t.fraction
  IN Plain(t.negative, digits \o Zeros(IF t.exponent > 0 THEN t.exponent ELSE 0), <<>>)

\* The point moves, in the text; an exponent that is out of bounds stays, for
\* coins_bounded to refuse.
expand_exponent(t) ==
  LET digits == t.whole \o t.fraction
      point  == Len(t.whole) + t.exponent
  IN IF t.exponent > MAX_EXPONENT \/ t.exponent < -MAX_EXPONENT \/ digits = <<>> THEN t
     ELSE IF point \leq 0 THEN Plain(t.negative, <<0>>, Zeros(-point) \o digits)
     ELSE IF point \geq Len(digits)
          THEN Plain(t.negative, digits \o Zeros(point - Len(digits)), <<>>)
     ELSE Plain(t.negative, SubSeq(digits, 1, point), SubSeq(digits, point + 1, Len(digits)))

lenient_coins(t, ceiling) ==
  coins_bounded(IF t.exponent = NoExponent THEN t ELSE expand_exponent(t), ceiling)

currency_coins(t)       == lenient_coins(t, MAX_CURRENCY_SATS)
native_coins_lenient(t) == lenient_coins(t, MAX_NATIVE_SATS)

\* Digits only: no point, no exponent.
Integral(t) == t.whole # <<>> /\ t.fraction = <<>> /\ t.exponent = NoExponent

satoshis(t) ==
  IF t.negative \/ ~Integral(t) \/ Number(t.whole) > U64Max THEN Refused
  ELSE bounded(Number(t.whole), MAX_NATIVE_SATS)

Negated(amount, negative) ==
  IF amount = Refused THEN Refused ELSE IF negative THEN -amount ELSE amount

signed_satoshis(t) ==
  IF ~Integral(t) \/ Number(t.whole) > I64Max THEN Refused
  ELSE Negated(bounded(Number(t.whole), MAX_NATIVE_SATS), t.negative)

signed_currency_coins(t) ==
  Negated(bounded(currency_coins([t EXCEPT !.negative = FALSE]), I64Max), t.negative)

\* estimatefee: a negative answer says that the node has no estimate.
estimate_fee(t) == IF t.negative THEN NoEstimate ELSE native_coins_lenient(t)

\* estimateconversion: what is asked is the amount that was read, in text.
estimate_conversion(t) ==
  IF currency_coins(t) = Refused THEN Refused ELSE to_coins_string(currency_coins(t))

-----------------------------------------------------------------------------
\* The bindings take satoshis in decimal digits, and coins as from_coins_str.
sats(t) == IF t.negative \/ ~Integral(t) \/ Number(t.whole) > U64Max THEN Refused
           ELSE Number(t.whole)
sats_string(amount) == Plain(FALSE, DigitsOf[amount], <<>>)
coins_to_sats(t) == from_coins_str(t)
sats_to_coins(t) == IF sats(t) = Refused THEN Refused ELSE to_coins_string(sats(t))

-----------------------------------------------------------------------------
(***************************************************************************)
(* Properties                                                              *)
(***************************************************************************)
\* Whether `amount` satoshis are what the text writes, in units of 10^unit of
\* them.
Writes(t, amount, unit) ==
  LET e == IF t.exponent = NoExponent THEN 0 ELSE t.exponent
      n == IF t.negative THEN -Number(t.whole \o t.fraction) ELSE Number(t.whole \o t.fraction)
      shift == unit + e - Len(t.fraction)
  IN IF shift \geq 0 THEN amount = n * Ten[shift] ELSE amount * Ten[-shift] = n

Exact(read, t, lowest, highest) ==
  read # Refused => read \in lowest..highest /\ Writes(t, read, Places)

\* An amount that is read is the amount that was written, to the satoshi, and
\* one the chain can hold: nothing is rounded, wrapped or cut off.
ReadExactly(t) ==
  /\ Exact(currency_coins(t), t, 0, MAX_CURRENCY_SATS)
  /\ Exact(native_coins_lenient(t), t, 0, MAX_NATIVE_SATS)
  /\ Exact(signed_currency_coins(t), t, -MAX_CURRENCY_SATS, MAX_CURRENCY_SATS)
  /\ Exact(coins_to_sats(t), t, 0, U64Max)
  /\ \A read \in {satoshis(t), signed_satoshis(t), sats(t)} :
       read # Refused => Writes(t, read, 0)
  /\ LET asked == estimate_conversion(t) IN
     asked # Refused => Writes(t, coins_to_sats(asked), Places)
  /\ estimate_fee(t) # NoEstimate => Exact(estimate_fee(t), t, 0, MAX_NATIVE_SATS)

\* How a daemon prints an amount: plainly, with all its places, or a small one
\* with an exponent.
Scientific(sats_) ==
  LET digits == TrimZeros(DigitsOf[sats_])
  IN [negative |-> FALSE, whole |-> <<digits[1]>>, fraction |-> Tail(digits),
      exponent |-> Len(DigitsOf[sats_]) - 1 - Places]

Prints(amount) ==
  {to_coins_string(amount),
   Plain(FALSE, DigitsOf[amount \div SATS_PER_COIN],
         Tail(DigitsOf[SATS_PER_COIN + (amount % SATS_PER_COIN)]))}
  \cup (IF amount = 0 THEN {} ELSE {Scientific(amount)})

\* Every amount the chain can hold is read however the daemon prints it, with
\* its sign where there is one, and comes back from the text made of it.
EveryAmountIsRead(amount) ==
  /\ \A t \in Prints(amount) :
       /\ currency_coins(t) = amount
       /\ signed_currency_coins([t EXCEPT !.negative = TRUE]) = -amount
       /\ amount \leq MAX_NATIVE_SATS => native_coins_lenient(t) = amount
  /\ coins_to_sats(to_coins_string(amount)) = amount
  /\ sats(sats_string(amount)) = amount
  /\ sats_to_coins(sats_string(amount)) = to_coins_string(amount)
=============================================================================
