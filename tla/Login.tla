------------------------------- MODULE Login -------------------------------
(***************************************************************************)
(* Signing in with an identity: src/crates/verus-flows/src/login.rs, the   *)
(* signatures of src/crates/verus-tx-identity/src/signature.rs, and the    *)
(* check the wasm bindings make without a node (verus-wasm/src/login.rs).  *)
(*                                                                         *)
(* The chain carries the identity's history, one record per block.  The    *)
(* signers' node may be ahead of the one the relying party reads, and      *)
(* blocks arrive between the reads of a verification.  A signature is who  *)
(* made it and what it covers; a signer that is not this library makes a   *)
(* different signature each time, so `tag` tells two of them apart.        *)
(***************************************************************************)
EXTENDS Integers, FiniteSets, Sequences

CONSTANTS
  Absent,       \* no key, nothing gathered, no login
  Signatories,  \* the keys anyone signs with
  Records,      \* what the identity may be: [primary, minimum, revoked]
  Challenges,   \* [audience, challenge]
  Tags,         \* the signatures a foreign signer may make of one hash
  SdkTag,       \* the one this library makes: it is deterministic
  MaxAge,       \* LoginPolicy::max_age_blocks
  MaxFuture,    \* LoginPolicy::max_future_blocks
  MaxHeight,    \* bound: blocks
  MaxParts      \* bound: signatures gathered in one

ASSUME LoginAssumption ==
  /\ Absent \notin Signatories
  /\ \A r \in Records : /\ r.primary \subseteq Signatories /\ IsFiniteSet(r.primary)
                        /\ r.minimum \in Nat
  /\ MaxAge \in Nat /\ MaxFuture \in Nat

VARIABLES
  history,    \* the identity's record at each height
  seen,       \* the height of the relying party's node
  gathered,   \* the identity signature being passed around, or Absent
  session,    \* the verification under way, or Absent
  outcome     \* the one that just ended, or Absent

login_vars == <<history, seen, gathered, session, outcome>>

tip == Len(history)

-----------------------------------------------------------------------------
(***************************************************************************)
(* Identity signatures                                                     *)
(***************************************************************************)
\* message_text gives each field its length, so that no two requests make the
\* same message; the hash adds the height.  (One system and one identity.)
identity_signature_hash(height, request) == [height |-> height, message |-> request]

Part(k, tag, height, request) ==
  [by |-> k, tag |-> tag, over |-> identity_signature_hash(height, request)]

sign_message(k, height, request) ==
  [block_height |-> height, parts |-> <<Part(k, SdkTag, height, request)>>]

Holds(parts, part) == \E i \in DOMAIN parts : parts[i] = part

\* Over the height the others signed; the same signature is not held twice.
add_signature(signature, k, tag, request) ==
  LET part == Part(k, tag, signature.block_height, request)
  IN IF Holds(signature.parts, part) THEN signature
     ELSE [signature EXCEPT !.parts = Append(@, part)]

\* The key that is recovered from a part: another one, of nobody, where the
\* part covers something else.
Recovered(part, hash) == IF part.over = hash THEN part.by ELSE Absent

\* Each signer once, however often it signed.
recover_signers(signature, request) ==
  LET hash == identity_signature_hash(signature.block_height, request)
  IN {Recovered(signature.parts[i], hash) : i \in DOMAIN signature.parts}

\* Mutant: every part counts.
verify_message_EachPart(signature, request, primary, minimum) ==
  LET hash == identity_signature_hash(signature.block_height, request)
  IN Cardinality({i \in DOMAIN signature.parts :
       Recovered(signature.parts[i], hash) \in primary}) \geq minimum

verify_message(signature, request, primary, minimum) ==
  Cardinality(recover_signers(signature, request) \cap primary) \geq minimum

-----------------------------------------------------------------------------
(***************************************************************************)
(* verify_login                                                            *)
(***************************************************************************)
\* A lagging node gives the record it has.  (External.)
identity_at(height) == history[IF height < seen THEN height ELSE seen]

TooNew(height, at) == height > at + MaxFuture
TooOld(height, at) == at > height /\ at - height > MaxAge

\* authority: a record without keys or without a minimum signs nothing.
Usable(record) == record.primary # {} /\ record.minimum # 0

\* Mutant: only the identity as it was is looked at.
Admits_AsItWas(signature, request, then, now) ==
  ~then.revoked /\ Usable(then) /\ verify_message(signature, request, then.primary, then.minimum)

\* Mutant: only the identity as it is is looked at.
Admits_AsItIs(signature, request, then, now) ==
  ~now.revoked /\ Usable(now) /\ verify_message(signature, request, now.primary, now.minimum)

\* The keys are those of when it was signed; a revocation counts whenever it
\* came.
Admits(signature, request, then, now) ==
  /\ ~then.revoked /\ ~now.revoked
  /\ Usable(then)
  /\ verify_message(signature, request, then.primary, then.minimum)

\* The signers of the login that are of the identity.
login_signers(signature, request, record) ==
  recover_signers(signature, request) \cap record.primary

\* The bindings' check, of a record the caller fetched: no slack for a height
\* ahead.  A minimum of zero is an error, not an acceptance.
check_signature(signature, request, record, current_height) ==
  /\ signature.block_height \leq current_height
  /\ current_height - signature.block_height \leq MaxAge
  /\ record.minimum # 0
  /\ verify_message(signature, request, record.primary, record.minimum)

-----------------------------------------------------------------------------
(***************************************************************************)
(* Chain and nodes                                                         *)
(***************************************************************************)
\* A block carries an update of the identity, a revocation, a recovery or none.
Mine ==
  /\ tip < MaxHeight
  /\ \E record \in Records : history' = Append(history, record)
  /\ outcome' = Absent
  /\ UNCHANGED <<seen, gathered, session>>

NodeCatchesUp ==
  /\ seen < tip
  /\ seen' = seen + 1
  /\ outcome' = Absent
  /\ UNCHANGED <<history, gathered, session>>

-----------------------------------------------------------------------------
(***************************************************************************)
(* Signers                                                                 *)
(***************************************************************************)
\* sign_login: the record gives the identity's id, and then the height is read.
\* Whether the key is the identity's, and whether it is revoked, is not asked.
SignLogin(k) ==
  /\ session = Absent /\ outcome' = Absent
  /\ \E request \in Challenges : gathered' = sign_message(k, tip, request)
  /\ UNCHANGED <<history, seen, session>>

\* A further signature, by the library or by another wallet.
AddSignature(k) ==
  /\ session = Absent /\ outcome' = Absent
  /\ gathered # Absent /\ Len(gathered.parts) < MaxParts
  /\ \E request \in Challenges, tag \in Tags : gathered' = add_signature(gathered, k, tag, request)
  /\ UNCHANGED <<history, seen, session>>

\* build_signature of the bindings, told a height: another than the first
\* signature's is refused.
BuildSignature(k) ==
  /\ session = Absent /\ outcome' = Absent
  /\ gathered # Absent /\ Len(gathered.parts) < MaxParts
  /\ gathered.block_height = tip
  /\ \E request \in Challenges : gathered' = add_signature(gathered, k, SdkTag, request)
  /\ UNCHANGED <<history, seen, session>>

-----------------------------------------------------------------------------
(***************************************************************************)
(* The relying party.  Each read is a call of its own.                     *)
(***************************************************************************)
End(verdict, then, now) ==
  /\ outcome' = [verdict |-> verdict, signature |-> session.signature,
                 request |-> session.request, started |-> session.tip, ended |-> seen,
                 then |-> then, now |-> now]
  /\ session' = Absent

ReadTip ==
  /\ session = Absent /\ gathered # Absent
  /\ \E request \in Challenges :
       session' = [signature |-> gathered, request |-> request, tip |-> seen, then |-> Absent]
  /\ outcome' = Absent
  /\ UNCHANGED <<history, seen, gathered>>

RefuseByHeight ==
  /\ session # Absent /\ session.then = Absent
  /\ \/ TooNew(session.signature.block_height, session.tip)
     \/ TooOld(session.signature.block_height, session.tip)
  /\ End("not_ready", Absent, Absent)
  /\ UNCHANGED <<history, seen, gathered>>

ReadAtSigning ==
  /\ session # Absent /\ session.then = Absent
  /\ ~TooNew(session.signature.block_height, session.tip)
  /\ ~TooOld(session.signature.block_height, session.tip)
  /\ session' = [session EXCEPT !.then = identity_at(session.signature.block_height)]
  /\ UNCHANGED <<history, seen, gathered, outcome>>

ReadNowAndDecide ==
  /\ session # Absent /\ session.then # Absent
  /\ LET now == history[seen] IN
     End(IF Admits(session.signature, session.request, session.then, now)
         THEN "logged_in" ELSE "not_ready", session.then, now)
  /\ UNCHANGED <<history, seen, gathered>>

LoginInit ==
  /\ \E record \in Records : history = <<record>>
  /\ seen = 1
  /\ gathered = Absent /\ session = Absent /\ outcome = Absent

LoginNext ==
  \/ Mine \/ NodeCatchesUp
  \/ \E k \in Signatories : SignLogin(k) \/ AddSignature(k) \/ BuildSignature(k)
  \/ ReadTip \/ RefuseByHeight \/ ReadAtSigning \/ ReadNowAndDecide

LoginSpec == LoginInit /\ [][LoginNext]_login_vars

-----------------------------------------------------------------------------
(***************************************************************************)
(* Properties                                                              *)
(***************************************************************************)
\* The keys that made a part for this request and height.
SignedBy(o) ==
  {k \in Signatories : \E i \in DOMAIN o.signature.parts :
     /\ o.signature.parts[i].by = k
     /\ o.signature.parts[i].over = [height |-> o.signature.block_height, message |-> o.request]}

\* Whoever is let in was signed for, for this very request and at this height,
\* by as many different keys of the identity as it asked for then (as the
\* relying party's node knew it): no signature is replayed for another request,
\* and no key counts twice.
LoggedInMeansSigned ==
  outcome # Absent /\ outcome.verdict = "logged_in" =>
    LET height == outcome.signature.block_height IN
    \E known \in 1..outcome.ended :
      /\ known = height \/ (known < height /\ known \geq outcome.started)
      /\ LET signed == SignedBy(outcome) \cap history[known].primary
         IN Cardinality(signed) \geq history[known].minimum /\ signed # {}

\* A revocation stops every login that begins after it, those signed before it
\* included, unless the identity is recovered while the login is being checked.
RevokedIsRefused ==
  outcome # Absent /\ outcome.verdict = "logged_in" =>
    /\ \E height \in outcome.started..outcome.ended : ~history[height].revoked
    /\ outcome.signature.block_height \in outcome.started - MaxAge..outcome.started + MaxFuture

\* Nobody who signed properly is turned away: with the node unmoved, a fresh
\* signature by enough of the keys the identity had at its height is accepted,
\* whatever keys it has by now and in whatever order and number the parts came.
ProperLoginsSucceed ==
  outcome # Absent /\ outcome.verdict # "logged_in" /\ outcome.started = outcome.ended
    /\ outcome.signature.block_height \in outcome.ended - MaxAge..outcome.ended =>
    LET height == outcome.signature.block_height
        record == history[height]
    IN \/ record.revoked \/ history[outcome.ended].revoked
       \/ record.minimum = 0
       \/ Cardinality(SignedBy(outcome) \cap record.primary) < record.minimum

=============================================================================
