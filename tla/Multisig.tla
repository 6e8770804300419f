------------------------------ MODULE Multisig ------------------------------
(***************************************************************************)
(* M-of-n redeem scripts and the scripts that spend them                   *)
(* (verus-tx-market/src/multisig.rs).                                      *)
(*                                                                         *)
(* A key is known by what it is and by how many bytes it takes; a          *)
(* signature names the key it was made with.  A script is what it pushes,  *)
(* and each push is the opcode and the length bytes that introduce it.     *)
(***************************************************************************)
EXTENDS Naturals, SequencesExt

CONSTANTS
  KeyBytes,           \* [keys -> bytes]: 33 or 65
  SignatureBytes,     \* what a signature takes
  MAX_MULTISIG_KEYS,
  NoScript            \* what a refused script is

OP_1 == 81
small_int(n) == IF n = 0 \/ n > MAX_MULTISIG_KEYS THEN NoScript ELSE OP_1 + (n - 1)

\* The opcode and length bytes before so many bytes of data.
push(length) ==
  CASE length < 76 -> <<length>>
    [] length \in 76..255 -> <<76, length>>
    [] length \in 256..65535 -> <<77, length % 256, length \div 256>>
    [] OTHER -> NoScript

redeem_script(required, pubkeys) ==
  IF pubkeys = <<>> \/ Len(pubkeys) > MAX_MULTISIG_KEYS \/ required = 0 \/ required > Len(pubkeys)
  THEN NoScript
  ELSE [m |-> small_int(required), keys |-> pubkeys, n |-> small_int(Len(pubkeys))]

script_bytes(redeem) == FoldLeft(LAMBDA sum, key : sum + 1 + KeyBytes[key], 3, redeem.keys)

\* A redeem script's hash is the script; an output or an address pays it.
p2sh_script_pubkey(redeem) == [pays |-> redeem]

Signature(pubkey, by) == [pubkey |-> pubkey, by |-> by]
Of(signatures, key) == { i \in DOMAIN signatures : signatures[i].pubkey = key }

\* Mutant: the signatures go in as they came.
multisig_script_sig_AsTheyCame(required, pubkeys, signatures, redeem) ==
  IF \/ \E i \in DOMAIN pubkeys : \E s, t \in Of(signatures, pubkeys[i]) : s # t
     \/ Len(signatures) # required \/ \E s \in DOMAIN signatures : ~Contains(pubkeys, signatures[s].pubkey)
  THEN NoScript
  ELSE [signatures |-> [i \in DOMAIN signatures |-> signatures[i].by], redeem |-> redeem,
        pushes |-> [i \in DOMAIN signatures |-> push(SignatureBytes)] \o <<push(script_bytes(redeem))>>]

\* One signature per key, in the order of the keys, exactly `required`.
multisig_script_sig(required, pubkeys, signatures, redeem) ==
  LET signed == SelectSeq(pubkeys, LAMBDA key : Of(signatures, key) # {})
      ordered == [i \in DOMAIN signed |-> signatures[CHOOSE s \in Of(signatures, signed[i]) : TRUE]]
  IN IF \/ \E i \in DOMAIN signed : \E s, t \in Of(signatures, signed[i]) : s # t
        \/ Len(ordered) # Len(signatures) \/ Len(ordered) # required
     THEN NoScript
     ELSE [signatures |-> [i \in DOMAIN ordered |-> ordered[i].by], redeem |-> redeem,
           pushes |-> [i \in DOMAIN ordered |-> push(SignatureBytes)] \o <<push(script_bytes(redeem))>>]

-----------------------------------------------------------------------------
(***************************************************************************)
(* The network's rule: the output's script is revealed, and the signatures *)
(* are of its keys, as many as it says, in its order, no key used twice.   *)
(***************************************************************************)
Spends(output, script) ==
  LET of == script.redeem.keys  by == script.signatures
  IN /\ output.pays = script.redeem /\ Len(by) = script.redeem.m - OP_1 + 1
     /\ \E at \in [DOMAIN by -> DOMAIN of] :
          \A i, j \in DOMAIN by : by[i] = of[at[i]] /\ (i < j => at[i] < at[j])
PushedBytes(introduced) ==
  IF Len(introduced) = 1 THEN introduced[1]
  ELSE IF introduced[1] = 76 THEN introduced[2] ELSE introduced[2] + 256 * introduced[3]

\* What is put together from honest signatures, in whatever order they
\* arrived, spends the output; signatures of too few keys, of others, or of
\* one key twice never make a script; and any `required` of different keys do.
MultisigsAreSpendable(required, pubkeys, signatures) ==
  LET redeem == redeem_script(required, pubkeys)
      script == multisig_script_sig(required, pubkeys, signatures, redeem)
      honest == \A i \in DOMAIN signatures : signatures[i].by = signatures[i].pubkey
      signers == { signatures[i].pubkey : i \in DOMAIN signatures }
  IN redeem # NoScript =>
       /\ required \in 1..Len(pubkeys)
       /\ script # NoScript /\ honest =>
            /\ Spends(p2sh_script_pubkey(redeem), script)
            /\ PushedBytes(Last(script.pushes)) = script_bytes(redeem)
            /\ PushedBytes(script.pushes[1]) = SignatureBytes
       /\ honest /\ IsInjective(pubkeys) /\ signers \subseteq ToSet(pubkeys)
            /\ IsInjective(signatures) /\ Len(signatures) = required => script # NoScript
=============================================================================
