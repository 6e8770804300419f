------------------------------ MODULE MCNaming ------------------------------
(* Registrations and launches, from every small combination of what is asked. *)
EXTENDS Launch

K(n)    == <<n, "key">>
R(n)    == <<n, "referrer">>
Root    == <<"chain", "none">>
ParentId == <<"base", Root>>
Coin(n, shape, owner, value) == [id |-> n] @@ Output(shape, owner, value)
Cash(amounts) == [i \in DOMAIN amounts |-> Coin(i, "p2pkh", K("k1"), Of(Native, amounts[i]))]
TokenCoins(amounts, t) == [i \in DOMAIN amounts |-> Coin(10 + i, "reserve", K("k1"), Of(t, amounts[i]))]
CommitmentTo(r, key) == [id |-> 0] @@ Carrying("commitment", key, commitment_script(commitment_hash(r), key))

Reservations == {NameReservation(name, parent, referral, "s1") :
                   <<name, parent, referral>> \in Names \X {Root, ParentId} \X {None, R("r1")}}
Chains == {<<>>, <<R("r1")>>, <<R("r1"), R("r2")>>, <<R("r1"), R("r2"), R("r3")>>}
Subs == {None} \cup
  [fee : {1, 3}, native_import_fee : {5}, proof_protocol : {1, 2}, transfer_fee : {2},
   token_funding : {TokenCoins(<<2>>, "base"), TokenCoins(<<2, 1>>, "base"), TokenCoins(<<2, 2>>, "base"),
                    TokenCoins(<<4>>, "other"), TokenCoins(<<4>>, "base") \o <<Coin(30, "reserve", K("k1"), Of("other", 1))>>}]

IsNamingCase(case) ==
  \E r \in Reservations, chain \in Chains, sub \in Subs, levels \in {0, 1, 3, MAX_REFERRAL_LEVELS + 1} :
    \E fee \in {0, 100, 101}, committed \in Reservations, cash \in {Cash(<<100>>), Cash(<<60, 90>>)} :
      /\ r.kind = "reservation" /\ committed.kind = "reservation"
      /\ sub # None => levels = 0 /\ fee = 100
      /\ (r.parent = ParentId) = (sub # None)
      /\ committed # r => chain = <<>> /\ fee = 100 /\ levels < 2
      /\ case = [about |-> "registration", params |->
           [RegistrationParams(CommitmentTo(committed, K("k1")), r, cash, <<K("k1")>>, fee, K("k2"))
              EXCEPT !.levels = levels, !.chain = chain, !.parent_currency = sub]]

Identity(flags) == [id |-> ParentId, name |-> "Base", parent |-> Root, primaries |-> <<K("k1"), K("k2")>>,
                    min_sigs |-> 2, flags |-> flags, unlock_after |-> 0, revocation |-> ParentId, recovery |-> ParentId]
IsLaunchCase(case) ==
  \E basket \in BOOLEAN, contributions \in {<<>>, <<0, 0>>, <<10, 0>>, <<0, 10>>, <<10, 10>>, <<10>>, <<11>>},
     keys \in {<<K("k1"), K("k2")>>, <<K("k1"), K("k1")>>, <<K("k1")>>, <<K("k1"), K("k3")>>}, fee \in {0, 20, 21, 90},
     flags \in {{}, {"ACTIVE_CURRENCY"}}, name \in {"base", "Base", "other"}, start \in {5, 6}, coins \in {60, 62, 200} :
    LET plain == [CurrencyDefinition_token(Root, name, start) EXCEPT
                    !.currencies = IF Len(contributions) = 2 THEN <<Root, ParentId>> ELSE <<Root>>,
                    !.options = @ \cup (IF basket THEN {"FRACTIONAL"} ELSE {}),
                    !.initial_supply = IF basket THEN 50 ELSE 0]
        def == IF basket \/ contributions # <<>> THEN with_contributions(plain, contributions)
               ELSE CurrencyDefinition_nft(Root, name, start, ParentId)
    IN case = [about |-> "launch", keys |-> keys, def |-> def,
               node |-> [output |-> [id |-> 20] @@ Primary(Identity(flags)), revoked |-> FALSE, tip |-> 5,
                         policy |-> [id_import_fee |-> 4, currency_registration_fee |-> fee],
                         utxos |-> Cash(<<coins>>)]]

\* Naming, of a case.
ReferralsAreCheap(case) == case.about = "registration" => ReferralsComeOutOfTheFee(K("k1"), case.params)
NothingIsLost(case)     ==
  case.about = "registration" => /\ RegistrationLosesNothing(K("k1"), case.params)
                                 /\ CommitmentLosesNothing(K("k1"), case.params)
\* Launch, of a case.
LaunchesPay(case)       == case.about = "launch" => LaunchPaysItsFee(case.keys, case.def, None, case.node)
=============================================================================
