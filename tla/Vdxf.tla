-------------------------------- MODULE Vdxf --------------------------------
(***************************************************************************)
(* Data under an identity: the keys names stand for                        *)
(* (verus-tx-protocol/src/vdxf/mod.rs), and publishing and reading values  *)
(* under them (verus-flows/src/vdxf.rs).                                   *)
(*                                                                         *)
(* A name is the sequence of components its dots separate.  A hash is      *)
(* what was hashed.  Several publishers hold the identity's keys; another  *)
(* client may revoke it.  The node takes one update of an output, mines it *)
(* or drops it, and answers getidentity and getidentitycontent.            *)
(***************************************************************************)
EXTENDS Naturals, SequencesExt, TLC

CONSTANTS
  Components,   \* what may stand between dots, the empty component among them
  Empty,
  Lower,        \* [Components -> Components]: a component in lower case
  Allowed,      \* components check_component accepts
  Spaced,       \* components with consecutive spaces
  ChainName,
  Nothing,      \* no parent, no key, no namespace
  Publishers,
  DataKeys,     \* keys published under
  Contents,     \* values published, sequences
  MaxUpdates    \* bound: updates mined

ASSUME VdxfAssumption == \A values \in Contents : values \in Seq(ToSet(values))

-----------------------------------------------------------------------------
(***************************************************************************)
(* Keys                                                                    *)
(***************************************************************************)
Separator == "::"
hash_component(component, parent) ==
  <<"hash", IF component = Separator THEN component ELSE Lower[component], parent>>

check_component(component) == component # Empty /\ component \in Allowed

\* One empty component and then the chain's name are dropped from the end.
Trimmed(name) == IF Len(name) > 1 /\ Last(name) = Empty THEN Front(name) ELSE name
components(name) ==
  LET trimmed == Trimmed(name)
      parts == IF Len(trimmed) > 1 /\ Lower[Last(trimmed)] = Lower[ChainName] THEN Front(trimmed) ELSE trimmed
  IN IF \E i \in DOMAIN parts : ~check_component(parts[i]) THEN Nothing ELSE parts

\* Mutant: the namespace is a component's parent like another.
data_key_NoSeparator(name, namespace) ==
  IF components(name) = Nothing THEN Nothing
  ELSE FoldRight(LAMBDA part, parent : hash_component(part, parent), components(name), namespace)

data_key(name, namespace) ==
  IF components(name) = Nothing THEN Nothing
  ELSE FoldRight(LAMBDA part, parent : hash_component(part, parent), components(name),
                 hash_component(Separator, namespace))

root_namespace(name) ==
  LET parts == Trimmed(name)
  IN IF Len(parts) # 1 \/ ~check_component(parts[1]) \/ parts[1] \in Spaced THEN Nothing
     ELSE hash_component(parts[1], Nothing)

\* A uri: what stands before each "::", a name or an address, and the name.
Uri(before, name) == [before |-> before, name |-> name]
qualified_key(uri, chain_id) ==
  LET ns == uri.before[1]
  IN IF uri.before = <<>> THEN data_key(uri.name, chain_id)
     ELSE IF Len(uri.before) > 1 THEN Nothing
     ELSE CASE ns.kind = "name" -> IF root_namespace(ns.of) = Nothing THEN Nothing
                                   ELSE data_key(uri.name, root_namespace(ns.of))
            [] ns.kind = "Identity" -> data_key(uri.name, ns.of)
            [] OTHER -> Nothing

\* Two names are one key only if they spell the same components, in the same
\* namespace; and no key is the id of a root name or of one under it.
IdOf(name) == FoldRight(LAMBDA part, parent : hash_component(part, parent), name, Nothing)
DataKeysNameOneThing(a, b, in, at) ==
  LET spelled(n) == [i \in DOMAIN components(n) |-> Lower[components(n)[i]]]
  IN data_key(a, in) # Nothing =>
       /\ (data_key(b, at) = data_key(a, in)) <=> (components(b) # Nothing /\ spelled(a) = spelled(b) /\ in = at)
       /\ components(b) # Nothing => data_key(a, in) # IdOf(components(b))
       /\ qualified_key(Uri(<<>>, a), in) = data_key(a, in)
       /\ qualified_key(Uri(<<[kind |-> "Identity", of |-> in]>>, a), at) = data_key(a, in)
       /\ LET uri == Uri(<<[kind |-> "name", of |-> b]>>, a)
          IN qualified_key(uri, in) # Nothing => \A chain_id \in {in, at} :
               qualified_key(uri, chain_id) = data_key(a, IdOf(components(b)))

-----------------------------------------------------------------------------
(***************************************************************************)
(* Publishing                                                              *)
(***************************************************************************)
VARIABLES
  held,      \* what the identity's output says: key -> values, the keys it has
  output,    \* which output that is
  revoked,
  past,      \* every value each mined update stated, by key, oldest first
  unsent,    \* publisher -> its prepared update, or Nothing
  pending,   \* the update the node holds, or Nothing
  told       \* by key, what the last mined publication was of (not a node's record)
vdxf_vars == <<held, output, revoked, past, unsent, pending, told>>

\* Mutant: only the key published is stated.
set_multimap_entry_Alone(map, key, values) ==
  IF values = <<>> THEN [k \in {} |-> <<>>] ELSE key :> values

\* The key's entry replaced, or left out when there are no values.
set_multimap_entry(map, key, values) ==
  LET others == [k \in DOMAIN map \ {key} |-> map[k]]
  IN IF values = <<>> THEN others
     ELSE [k \in DOMAIN others \cup {key} |-> IF k = key THEN values ELSE map[k]]

VdxfInit ==
  /\ held = [k \in {} |-> <<>>] /\ output = 0 /\ revoked = FALSE
  /\ past = [k \in DataKeys |-> <<>>] /\ told = [k \in DataKeys |-> <<>>]
  /\ unsent = [p \in Publishers |-> Nothing] /\ pending = Nothing

\* The identity is read from its output's script, and stated in full.
prepare_publish(p) ==
  \E key \in DataKeys, values \in Contents :
    /\ unsent[p] = Nothing /\ ~revoked
    /\ unsent' = [unsent EXCEPT ![p] =
         [spends |-> output, states |-> set_multimap_entry(held, key, values), key |-> key, values |-> values]]
    /\ UNCHANGED <<held, output, revoked, past, pending, told>>

\* publish: sent as it was prepared; the node takes one spender of an output.
publish(p) ==
  /\ unsent[p] # Nothing
  /\ pending' = IF pending = Nothing /\ unsent[p].spends = output THEN unsent[p] ELSE pending
  /\ unsent' = [unsent EXCEPT ![p] = Nothing]
  /\ UNCHANGED <<held, output, revoked, past, told>>

MineUpdate ==
  /\ pending # Nothing /\ output < MaxUpdates
  /\ held' = pending.states /\ output' = output + 1
  /\ past' = [k \in DataKeys |-> IF k \in DOMAIN pending.states THEN past[k] \o pending.states[k] ELSE past[k]]
  /\ told' = [told EXCEPT ![pending.key] = pending.values]
  /\ pending' = Nothing
  /\ UNCHANGED <<revoked, unsent>>

\* It expires, or another spender of the output is mined instead.
Drop == pending # Nothing /\ pending' = Nothing /\ UNCHANGED <<held, output, revoked, past, unsent, told>>
Revoke ==
  /\ ~revoked /\ output < MaxUpdates
  /\ revoked' = TRUE /\ output' = output + 1 /\ pending' = Nothing
  /\ past' = [k \in DataKeys |-> IF k \in DOMAIN held THEN past[k] \o held[k] ELSE past[k]]
  /\ UNCHANGED <<held, unsent, told>>

VdxfNext == (\E p \in Publishers : prepare_publish(p) \/ publish(p)) \/ MineUpdate \/ Drop \/ Revoke
VdxfSpec == VdxfInit /\ [][VdxfNext]_vdxf_vars

-----------------------------------------------------------------------------
(***************************************************************************)
(* Reading.  The node shows a single value bare or in a list.              *)
(***************************************************************************)
Shown(values) == {[list |-> values]} \cup (IF Len(values) = 1 THEN {[bare |-> values[1]]} ELSE {})
content_values(shown) == IF "list" \in DOMAIN shown THEN shown.list ELSE <<shown.bare>>

read_all(shown) == [k \in DOMAIN shown |-> content_values(shown[k])]
read(shown, key) == IF key \in DOMAIN shown THEN read_all(shown)[key] ELSE <<>>
read_history(key) == past[key]

\* What the node may show of what the identity holds.
ShownNow == { s \in [DOMAIN held -> UNION { Shown(held[k]) : k \in DOMAIN held }] : \A k \in DOMAIN held : s[k] \in Shown(held[k]) }

\* What is read under a key is what the last publication mined for that key
\* stated, whatever was published under the others, by whom, and from what it
\* was prepared; and the history under it ends with that.
WhatWasPublishedIsRead ==
  \A key \in DataKeys, shown \in ShownNow :
    /\ read(shown, key) = told[key]
    /\ IsSuffix(read(shown, key), read_history(key))
=============================================================================
