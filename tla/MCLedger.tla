------------------------------ MODULE MCLedger ------------------------------
(* Two key holders, one of them the authority of an identity, two tokens. *)
EXTENDS Ledger

CONSTANTS maker, taker, ident, vrsc, gold, silver

MCIssuer    == [t \in {gold, silver} |-> ident]
MCAuthority == [i \in {ident} |-> maker]

Worth(sat, g, s) == [a \in Assets |-> IF a = Native THEN sat ELSE IF a = gold THEN g ELSE s]
C(n, shape, owner, value) ==
  [id |-> <<0, n>>, shape |-> shape, owner |-> owner, value |-> value]

\* What an identity holds, and plain coins to fund its fees; coins with tokens,
\* one of them with satoshis and two tokens; a coin on offer, and a taker with
\* tokens and more than is wanted; a coin each, for an offer from its funding on.
MCInitialCoins ==
  { { C(1, "p2pkh", maker, Worth(12, 0, 0)),
      C(2, "identity", ident, Worth(11, 0, 0)),
      C(3, "reserve", ident, Worth(0, 3, 0)) },
    { C(1, "p2pkh", taker, Worth(10, 0, 0)),
      C(2, "p2pkh", taker, Worth(5, 0, 0)),
      C(3, "reserve", taker, Worth(7, 2, 1)),
      C(4, "reserve", taker, Worth(0, 1, 0)) },
    { C(1, "offer", maker, Worth(6, 0, 0)),
      C(2, "p2pkh", taker, Worth(10, 0, 0)),
      C(3, "reserve", taker, Worth(4, 3, 1)) },
    { C(1, "p2pkh", maker, Worth(12, 0, 0)),
      C(2, "p2pkh", taker, Worth(10, 0, 0)) } }

To(who, asset, amount) == [to |-> who, asset |-> asset, amount |-> amount]

MCOrders ==
  { <<To(taker, vrsc, 3)>>, <<To(ident, vrsc, 4)>>,
    <<To(maker, gold, 1)>>, <<To(ident, gold, 3)>>, <<To(maker, gold, 2), To(ident, silver, 1)>> }

Transfer(kind, source, path, amount, fee_currency, fee) ==
  [kind |-> kind, source |-> source, path |-> path, amount |-> amount,
   fee_currency |-> fee_currency, fee |-> fee]

MCTransfers ==
  { Transfer("convert", vrsc, <<gold>>, 2, vrsc, 1),
    Transfer("convert", gold, <<vrsc, silver>>, 2, vrsc, 1),
    Transfer("burn", gold, <<gold>>, 1, vrsc, 1),
    Transfer("mint", vrsc, <<gold>>, 5, vrsc, 1) }

\* A token conversion that pays its fee in the token.
MCTokenFee == { Transfer("convert", gold, <<silver>>, 2, gold, 1) }

MCWanted == { [asset |-> vrsc, amount |-> 4], [asset |-> gold, amount |-> 2] }
=============================================================================
