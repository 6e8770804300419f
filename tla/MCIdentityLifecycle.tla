------------------------ MODULE MCIdentityLifecycle ------------------------
(* What two callers may ask of one identity.                               *)
EXTENDS IdentityLifecycle, TLC

Symmetric == Permutations(Callers)

Nothing == [f \in {} |-> 0]
Op(kind, keys, change) ==
  [kind |-> kind, keys |-> keys, change |-> change, allow |-> FALSE, extra |-> 0]

Lock(d)    == Op("update", <<"k1">>, "timelock" :> DelayAfterUnlock(d))
Until(h)   == Op("update", <<"k1">>, "timelock" :> UntilBlock(h))
Unlock(x)  == [Op("unlock", <<"k1">>, Nothing) EXCEPT !.extra = x]
Publish    == Op("update", <<"k1">>, "content" :> "c2")
PointAway  == [Op("update", <<"k1">>, "recovery" :> "other") EXCEPT !.allow = TRUE]
Revoke     == Op("revoke", <<"k1">>, Nothing)
Recover    == Op("recover", <<"a1">>, "primaries" :> {"k1", "k2"})

MCOperations == {Lock(2), Until(6), Unlock(0), Unlock(9), Publish, PointAway, Revoke, Recover}

\* A countdown, and a later one.
ExtendOperations == {Until(6), Until(7)}

\* As registered: all three authorities at once.
MCFirst ==
  [primaries |-> {"k1"}, min_sigs |-> 1, content |-> "c1", revocation |-> "self",
   recovery |-> "self", revoked |-> FALSE, timelock |-> UntilBlock(0)]
=============================================================================
