-------------------------- MODULE IdentityLifecycle --------------------------
(***************************************************************************)
(* Changing a VerusID that exists: update, revoke, recover, unlock         *)
(* (src/crates/verus-flows/src/lifecycle.rs over verus-tx-identity's       *)
(* update.rs and revoke.rs).  Every operation reads the tip and the output *)
(* that holds the identity by separate calls, restates the WHOLE identity  *)
(* with what the caller named changed, and signs a transaction that spends *)
(* that output.  Several callers do so at once, and a signed transaction   *)
(* may be mined at any height until it expires.                            *)
(*                                                                         *)
(* The chain here checks signatures, expiry and double spends, and leaves  *)
(* the timelock rules to the builder: what the properties say of timelocks *)
(* rests on this code, not on consensus repeating its checks.              *)
(***************************************************************************)
EXTENDS Naturals, Sequences, FiniteSets

CONSTANTS
  None,
  Callers,
  Operations,        \* what a caller may ask for, see OperationType
  Keys,
  AuthorityKeys,     \* primary addresses of the other identity, any one signs
  Content,
  FirstIdentity,     \* what the chain holds at the start
  EXPIRY_BLOCKS,     \* DEFAULT_EXPIRY_BLOCKS
  MAX_UNLOCK_DELAY,
  MaxU32,            \* largest height the machine type holds
  MaxHeight,         \* bound: height the chain grows to
  MaxSigned          \* bound: transactions signed

Authority == {"self", "other"}
Timelock == [flagged : BOOLEAN, after : 0..MaxU32]
Identity ==
  [primaries : SUBSET Keys, min_sigs : Nat, content : Content, revocation : Authority,
   recovery : Authority, revoked : BOOLEAN, timelock : Timelock]

\* IdentityChange: a function over the fields it names.  Revocation and what
\* the identity is cannot be named.
Named == {"primaries", "min_sigs", "content", "revocation", "recovery", "timelock"}
AuthorityFields == {"primaries", "min_sigs", "revocation", "recovery"}

FieldType(f) ==
  CASE f = "primaries" -> SUBSET Keys
    [] f = "min_sigs"  -> Nat
    [] f = "content"   -> Content
    [] f \in {"revocation", "recovery"} -> Authority
    [] f = "timelock"  -> Timelock

OperationType(op) ==
  /\ op.kind \in {"update", "revoke", "recover", "unlock"}
  /\ op.keys \in Seq(Keys)
  /\ DOMAIN op.change \subseteq Named
  /\ \A f \in DOMAIN op.change : op.change[f] \in FieldType(f)
  /\ op.allow \in BOOLEAN /\ op.extra \in 0..MaxU32

ASSUME LifecycleAssumption ==
  /\ None \notin Nat
  /\ \A op \in Operations : OperationType(op)
  /\ FirstIdentity \in Identity /\ AuthorityKeys \subseteq Keys
  /\ FirstIdentity.revoked => FirstIdentity.recovery # "self"
  /\ EXPIRY_BLOCKS \in Nat \ {0} /\ MAX_UNLOCK_DELAY \in Nat
  /\ MaxU32 \in Nat /\ MaxHeight \in Nat \ {0} /\ MaxHeight + EXPIRY_BLOCKS \leq MaxU32
  /\ MaxSigned \in Nat

VARIABLES
  height,    \* the node's tip
  live,      \* the identity, as the unspent output that holds it has it
  version,   \* which output that is
  signed,    \* signed transactions that can still be mined, with their operations
  calls,     \* [caller -> what its running call has read]
  promised,  \* the highest unlock height the chain was promised since the
             \* last revocation
  relocked   \* whether a running countdown was locked again since then

vars == <<height, live, version, signed, calls, promised, relocked>>

-----------------------------------------------------------------------------
(***************************************************************************)
(* Timelock                                                                *)
(***************************************************************************)

Saturated(n) == IF n > MaxU32 THEN MaxU32 ELSE n

DelayAfterUnlock(d) == [flagged |-> TRUE, after |-> d]
UntilBlock(h) == [flagged |-> FALSE, after |-> h]

spendable_at(lock, h) == ~lock.flagged /\ h \geq lock.after

\* `locked_now`, at a known height.
locked(o, h) == ~o.revoked /\ (o.timelock.flagged \/ o.timelock.after \geq h)

\* Mutant: the countdown is measured from the tip.
countdown_floor_FromTip(delay, expiry) == Saturated(delay + (expiry - EXPIRY_BLOCKS))

\* The unlock height a locked identity has to publish at least.
countdown_floor(delay, expiry) == Saturated(delay + expiry)

\* Delays set before the cap applied may be left through the cap.
escapes(delay, expiry, after) ==
  delay > MAX_UNLOCK_DELAY /\ after = Saturated(MAX_UNLOCK_DELAY + expiry)

\* From one lock to another, none of which may bring an unlock forward.
may_move(old, new, expiry) ==
  CASE old.flagged /\ new.flagged   -> new.after \geq old.after
    [] old.flagged /\ ~new.flagged  -> \/ new.after \geq countdown_floor(old.after, expiry)
                                       \/ escapes(old.after, expiry, new.after)
    [] ~old.flagged /\ new.flagged  -> Saturated(expiry + new.after) \geq old.after
    [] ~old.flagged /\ ~new.flagged -> new.after \geq old.after

\* Locking what is not locked.
may_set(new, expiry) ==
  IF new.flagged THEN new.after \leq MAX_UNLOCK_DELAY ELSE new.after > expiry

\* A height being set, as opposed to an old one carried through.
sets_height(old, new) ==
  ~new.flagged /\ new.after # 0 /\ new.after # old.after

\* check_timelock, with the tip the flow read.
check_timelock(current, proposed, expiry, tip) ==
  IF locked(current, tip) /\ ~proposed.revoked
    THEN locked(proposed, tip) /\ may_move(current.timelock, proposed.timelock, expiry)
    ELSE locked(proposed, tip) \/ sets_height(current.timelock, proposed.timelock)
           => may_set(proposed.timelock, expiry)

\* IsInvalidMutation, as check_timelock transcribes it: judged at the height
\* of the block that carries the transaction.
ConsensusAllows(current, proposed, expiry, h) ==
  IF locked(current, h) /\ ~proposed.revoked
    THEN locked(proposed, h) /\ may_move(current.timelock, proposed.timelock, expiry)
    ELSE locked(proposed, h) => may_set(proposed.timelock, expiry)

-----------------------------------------------------------------------------
(***************************************************************************)
(* Restating an identity                                                   *)
(***************************************************************************)
\* Mutant: the identity is restated from what the caller named, content that
\* was not named is dropped.
apply_to_Drops(change, o) ==
  [f \in DOMAIN o |-> IF f \in DOMAIN change THEN change[f]
                      ELSE IF f = "timelock" THEN UntilBlock(0) ELSE o[f]]

\* IdentityChange::apply_to.
apply_to(change, o) ==
  [f \in DOMAIN o |-> IF f \in DOMAIN change THEN change[f] ELSE o[f]]

changes_authority(o, p) == \E f \in AuthorityFields : o[f] # p[f]

Signers(keys) == {keys[i] : i \in DOMAIN keys}

\* build_identity_update: enough keys, each of them a primary address.
signs_as_identity(keys, o) == Len(keys) \geq o.min_sigs /\ Signers(keys) \subseteq o.primaries

\* check_authority counts the keys that qualify.
check_authority(keys, o, authority) ==
  LET primaries == IF authority = "self" THEN o.primaries ELSE AuthorityKeys
      required  == IF authority = "self" THEN o.min_sigs ELSE 1
  IN /\ keys # <<>> /\ primaries # {}
     /\ Cardinality({i \in DOMAIN keys : keys[i] \in primaries}) \geq required

Expires(tip) == tip + EXPIRY_BLOCKS

\* prepare_identity_unlock: the earliest height allowed, and `extra` on top.
unlock_at(o, tip, extra) == Saturated(countdown_floor(o.timelock.after, Expires(tip)) + extra)

\* Mutant: a revocation is prepared whoever may recover.
may_revoke_Strands(op, o) == ~o.revoked /\ check_authority(op.keys, o, o.revocation)

may_revoke(op, o) ==
  /\ ~o.revoked
  /\ check_authority(op.keys, o, o.revocation)
  /\ o.recovery # "self"

may_recover(op, o) ==
  o.revoked /\ check_authority(op.keys, o, o.recovery)

\* What an operation makes of the identity it read.
restated(op, o, tip) ==
  CASE op.kind = "revoke"  -> [o EXCEPT !.revoked = TRUE]
    [] op.kind = "recover" -> apply_to(op.change, [o EXCEPT !.revoked = FALSE])
    [] op.kind = "update"  -> apply_to(op.change, o)
    [] op.kind = "unlock"  -> [o EXCEPT !.timelock = UntilBlock(unlock_at(o, tip, op.extra))]

\* Only a delay can be started; a countdown is running or over.
may_unlock(o) == ~o.revoked /\ o.timelock.flagged

\* What build_identity_update refuses.
may_publish(op, o, tip) ==
  /\ op.allow \/ ~changes_authority(o, restated(op, o, tip))
  /\ check_timelock(o, restated(op, o, tip), Expires(tip), tip)
  /\ op.keys # <<>> /\ signs_as_identity(op.keys, o)

\* The checks of the four prepare_ functions and of the builders they call.
accepted(op, o, tip) ==
  CASE op.kind = "revoke"  -> may_revoke(op, o)
    [] op.kind = "recover" -> may_recover(op, o)
    [] op.kind = "update"  -> /\ DOMAIN op.change # {} /\ ~o.revoked
                              /\ may_publish(op, o, tip)
    [] op.kind = "unlock"  -> may_unlock(o) /\ may_publish(op, o, tip)

-----------------------------------------------------------------------------
(***************************************************************************)
(* Callers                                                                 *)
(***************************************************************************)
Unread == [tip |-> None, version |-> None, held |-> None]

\* Every operation begins with the same two reads, in any order.
\* funding::spendable reads the tip.
ReadTip(c) ==
  /\ calls[c].tip = None
  /\ height + EXPIRY_BLOCKS \leq MaxHeight                          \* bound
  /\ calls' = [calls EXCEPT ![c].tip = height]
  /\ UNCHANGED <<height, live, version, signed, promised, relocked>>

\* current_identity: the outpoint from getidentity; the object is decoded from
\* the script of that very output.
ReadIdentity(c) ==
  /\ calls[c].held = None
  /\ calls' = [calls EXCEPT ![c].version = version, ![c].held = live]
  /\ UNCHANGED <<height, live, version, signed, promised, relocked>>

HasRead(c) == calls[c].tip # None /\ calls[c].held # None

\* A read fails, or the operation is refused, before anything is signed.
CallFails(c) ==
  /\ calls[c] # Unread
  /\ calls' = [calls EXCEPT ![c] = Unread]
  /\ UNCHANGED <<height, live, version, signed, promised, relocked>>

\* What can still be mined above h while output n holds the identity.
Alive(S, n, h) == {t \in S : t.spends = n /\ h < t.expiry}

\* What a caller signs once it has read.
Prepared(c, op, expiry) ==
  [op |-> op, spends |-> calls[c].version, expiry |-> expiry,
   identity |-> restated(op, calls[c].held, calls[c].tip)]

MayPrepare(c, op) ==
  /\ HasRead(c) /\ accepted(op, calls[c].held, calls[c].tip)
  /\ Cardinality(signed) < MaxSigned                                \* bound

\* Mutant: the expiry is worked out again from the tip at signing time.
Sign_LateExpiry(c) ==
  /\ \E op \in Operations :
       MayPrepare(c, op) /\ signed' = Alive(signed \cup {Prepared(c, op, Expires(height))}, version, height)
  /\ calls' = [calls EXCEPT ![c] = Unread]
  /\ UNCHANGED <<height, live, version, promised, relocked>>

\* An Unsent is returned.  It may be broadcast at any time from here on.
Sign(c) ==
  /\ \E op \in Operations :
       MayPrepare(c, op) /\ signed' = Alive(signed \cup {Prepared(c, op, Expires(calls[c].tip))}, version, height)
  /\ calls' = [calls EXCEPT ![c] = Unread]
  /\ UNCHANGED <<height, live, version, promised, relocked>>

-----------------------------------------------------------------------------
(***************************************************************************)
(* The chain                                                               *)
(***************************************************************************)
\* Enough different keys of the identity an authority names.
Satisfied(keys, o, authority) ==
  IF authority = "self" THEN Cardinality(Signers(keys) \cap o.primaries) \geq o.min_sigs
  ELSE Signers(keys) \cap AuthorityKeys # {}

\* Each condition guards its own fields.
Authorised(t) ==
  CASE t.op.kind = "revoke"  -> Satisfied(t.op.keys, live, live.revocation)
    [] t.op.kind = "recover" -> Satisfied(t.op.keys, live, live.recovery)
    [] OTHER -> /\ Satisfied(t.op.keys, live, "self")
                /\ live.revocation = "self" \/ t.identity.revocation = live.revocation
                /\ live.recovery = "self" \/ t.identity.recovery = live.recovery

MaxOf(a, b) == IF a \geq b THEN a ELSE b
MinOf(a, b) == IF a \leq b THEN a ELSE b

\* What a block at h that replaces o by p promises about spending: leaving a
\* delay takes at least that delay, a countdown runs to its height.
Promise(o, p, h) ==
  IF o.revoked \/ p.revoked THEN 0
  ELSE IF p.timelock.flagged THEN promised
  ELSE IF o.timelock.flagged
         THEN MaxOf(promised, Saturated(h + MinOf(o.timelock.after, MAX_UNLOCK_DELAY)))
  ELSE MaxOf(promised, p.timelock.after)

Mine ==
  /\ height < MaxHeight /\ height' = height + 1
  /\ signed' = Alive(signed, version, height')
  /\ UNCHANGED <<live, version, calls, promised, relocked>>

\* A block with one of the transactions; what competed with it is dead.
MineChange ==
  /\ height < MaxHeight /\ height' = height + 1
  /\ \E t \in Alive(signed, version, height) :
       /\ Authorised(t)
       /\ live' = t.identity
       /\ promised' = Promise(live, t.identity, height')
       /\ relocked' = IF live.revoked \/ t.identity.revoked THEN FALSE
                      ELSE relocked \/ (t.identity.timelock.flagged /\ promised > height)
  /\ version' = version + 1
  /\ signed' = {}
  /\ UNCHANGED calls

Init ==
  /\ height = 1 /\ live = FirstIdentity /\ version = 1 /\ signed = {}
  /\ calls = [c \in Callers |-> Unread]
  /\ promised = 0 /\ relocked = FALSE

Call(c) == ReadTip(c) \/ ReadIdentity(c) \/ Sign(c) \/ CallFails(c)

Next == Mine \/ MineChange \/ \E c \in Callers : Call(c)

Spec == Init /\ [][Next]_vars

-----------------------------------------------------------------------------
(***************************************************************************)
(* Properties                                                              *)
(***************************************************************************)
Transaction ==
  [op : Operations, spends : 1..version, expiry : 0..MaxU32, identity : Identity]

CallState ==
  [tip : {None} \cup 1..height, version : {None} \cup 1..version, held : {None} \cup Identity]

\* Every variable holds a value the code's types allow.
TypeOK ==
  /\ height \in 1..MaxHeight
  /\ live \in Identity /\ version \in Nat \ {0}
  /\ signed \subseteq Transaction
  /\ calls \in [Callers -> CallState]
  /\ promised \in 0..MaxU32 /\ relocked \in BOOLEAN

\* An unlock only ever moves later: whatever is prepared concurrently, from
\* whatever tip was read, and mined whenever, the identity is not spendable
\* before the height that a countdown on the chain announced, nor sooner
\* after leaving a delay than that delay.  Only a revocation circumvents it.
\* Not promised once a running countdown was locked again: the next unlock is
\* measured from the expiry of its own transaction, which a caller with an
\* older tip puts before the one that justified the relock.
UnlockNeverEarly ==
  ~live.revoked /\ ~relocked /\ spendable_at(live.timelock, height) => height \geq promised

\* The fields an operation may touch.
Touched(op) ==
  CASE op.kind = "revoke"  -> {"revoked"}
    [] op.kind = "recover" -> DOMAIN op.change \cup {"revoked"}
    [] op.kind = "update"  -> DOMAIN op.change
    [] op.kind = "unlock"  -> {"timelock"}

\* No change is lost or undone: what a mined operation did not name is as the
\* output it replaces had it, however long before it was prepared and
\* whatever other callers published in the meantime.
UnnamedFieldsCarryOver ==
  [][\E t \in signed :
        /\ live' = t.identity
        /\ \A f \in DOMAIN live \ Touched(t.op) : live'[f] = live[f]]_version

\* Nobody revokes an identity into a state nobody can recover it from, also
\* when another caller moves the recovery authority meanwhile.
NeverStranded == live.revoked => live.recovery # "self"

\* The unlock a caller cannot compute by hand: whichever block carries it
\* until it expires, the published height satisfies consensus.
UnlockIsAccepted ==
  \A t \in Alive(signed, version, height) : t.op.kind = "unlock" =>
     ConsensusAllows(live, t.identity, t.expiry, height + 1)

\* "With this set, every timelock rule is applied": a divergence only ever
\* refuses what the chain would have allowed, so no update passes that a
\* block before its expiry would have to leave out.
ChecksMatchConsensus ==
  \A t \in Alive(signed, version, height) : t.op.kind = "update" =>
     ConsensusAllows(live, t.identity, t.expiry, height + 1)
=============================================================================
