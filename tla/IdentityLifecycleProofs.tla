----------------------- MODULE IdentityLifecycleProofs -----------------------
(***************************************************************************)
(* What IdentityLifecycle guarantees for every identity, every set of      *)
(* operations and callers, every delay and every height.                   *)
(***************************************************************************)
EXTENDS IdentityLifecycle, TLAPS

-----------------------------------------------------------------------------
(***************************************************************************)
(* What is restated                                                        *)
(***************************************************************************)
\* Applying a change gives an identity again (IdentityChange::apply_to).
LEMMA ApplyType ==
  ASSUME NEW op \in Operations, NEW o \in Identity
  PROVE  /\ apply_to(op.change, o) \in Identity
         /\ apply_to(op.change, o).revoked = o.revoked
  <1>1. /\ DOMAIN op.change \subseteq Named
        /\ \A f \in DOMAIN op.change : op.change[f] \in FieldType(f)
    BY LifecycleAssumption DEF OperationType
  <1>2. DOMAIN o = Named \cup {"revoked"}
    BY DEF Identity, Named
  <1> DEFINE p == apply_to(op.change, o)
  <1>3. /\ DOMAIN p = DOMAIN o
        /\ \A f \in DOMAIN o : p[f] = IF f \in DOMAIN op.change THEN op.change[f] ELSE o[f]
        /\ p = [f \in DOMAIN o |-> p[f]]
    BY DEF apply_to
  <1>4. p.revoked = o.revoked
    BY <1>1, <1>2, <1>3 DEF Named
  <1>5. p.primaries \in SUBSET Keys /\ p.min_sigs \in Nat /\ p.content \in Content
    BY <1>1, <1>2, <1>3 DEF Named, FieldType, Identity
  <1>6. p.revocation \in Authority /\ p.recovery \in Authority
    BY <1>1, <1>2, <1>3 DEF Named, FieldType, Identity
  <1>7. p.timelock \in Timelock
    BY <1>1, <1>2, <1>3 DEF Named, FieldType, Identity
  <1>8. p.revoked \in BOOLEAN
    BY <1>4 DEF Identity
  <1> HIDE DEF p
  <1>9. p \in Identity
    BY <1>2, <1>3, <1>5, <1>6, <1>7, <1>8 DEF Identity, Named
  <1> QED
    BY <1>4, <1>9 DEF p

\* Saturated heights stay heights of the machine type.
LEMMA SaturatedType ==
  ASSUME NEW n \in Nat
  PROVE  Saturated(n) \in 0..MaxU32
  BY LifecycleAssumption DEF Saturated

\* Whatever operation restates an identity, an identity comes out; what it
\* makes of the revocation flag and of the timelock depends on its kind.
LEMMA RestatedType ==
  ASSUME NEW op \in Operations, NEW o \in Identity, NEW tip \in Nat
  PROVE  /\ restated(op, o, tip) \in Identity
         /\ op.kind = "revoke" => restated(op, o, tip).revoked
         /\ op.kind = "recover" => ~restated(op, o, tip).revoked
         /\ op.kind \in {"update", "unlock"} => restated(op, o, tip).revoked = o.revoked
         /\ op.kind = "unlock" =>
              restated(op, o, tip).timelock = UntilBlock(unlock_at(o, tip, op.extra))
  <1>1. op.kind \in {"update", "revoke", "recover", "unlock"} /\ op.extra \in 0..MaxU32
    BY LifecycleAssumption DEF OperationType
  <1>2. CASE op.kind = "revoke"
    <2>1. restated(op, o, tip) = [o EXCEPT !.revoked = TRUE]
      BY <1>2 DEF restated
    <2> QED
      BY <1>2, <2>1 DEF Identity
  <1>3. CASE op.kind = "recover"
    <2> DEFINE r == [o EXCEPT !.revoked = FALSE]
    <2>1. r \in Identity /\ r.revoked = FALSE
      BY DEF Identity
    <2>2. restated(op, o, tip) = apply_to(op.change, r)
      BY <1>3 DEF restated
    <2> HIDE DEF r
    <2> QED
      BY <1>3, <2>1, <2>2, ApplyType
  <1>4. CASE op.kind = "update"
    <2>1. restated(op, o, tip) = apply_to(op.change, o)
      BY <1>4 DEF restated
    <2> QED
      BY <1>4, <2>1, ApplyType
  <1>5. CASE op.kind = "unlock"
    <2> DEFINE lock == UntilBlock(unlock_at(o, tip, op.extra))
    <2>1. restated(op, o, tip) = [o EXCEPT !.timelock = lock]
      BY <1>5 DEF restated
    <2>2. o.timelock.after \in Nat
      BY LifecycleAssumption DEF Identity, Timelock
    <2>3. Expires(tip) \in Nat
      BY LifecycleAssumption DEF Expires
    <2>4. countdown_floor(o.timelock.after, Expires(tip)) \in Nat
      BY <2>2, <2>3, SaturatedType, LifecycleAssumption DEF countdown_floor
    <2>5. unlock_at(o, tip, op.extra) \in 0..MaxU32
      BY <1>1, <2>4, SaturatedType, LifecycleAssumption DEF unlock_at
    <2>6. lock \in Timelock
      BY <2>5 DEF UntilBlock, Timelock
    <2> HIDE DEF lock
    <2>7. /\ [o EXCEPT !.timelock = lock] \in Identity
          /\ [o EXCEPT !.timelock = lock].revoked = o.revoked
          /\ [o EXCEPT !.timelock = lock].timelock = lock
      BY <2>6 DEF Identity
    <2> QED
      BY <1>5, <2>1, <2>7 DEF lock
  <1> QED
    BY <1>1, <1>2, <1>3, <1>4, <1>5

-----------------------------------------------------------------------------
(***************************************************************************)
(* The inductive invariant                                                 *)
(***************************************************************************)
\* A caller whose output is still unspent holds what that output holds.
HeldIsLive ==
  \A c \in Callers :
     calls[c].held # None /\ calls[c].version = version => calls[c].held = live

\* p was made of o by op, against some tip not above h, with every check.
MadeOf(op, o, p, expiry, h) ==
  \E tip \in 1..h : /\ expiry = Expires(tip)
                    /\ accepted(op, o, tip)
                    /\ p = restated(op, o, tip)

\* What can be mined was checked against the very identity it replaces.
SignedForLive ==
  \A t \in signed :
     /\ t.spends = version /\ height < t.expiry
     /\ MadeOf(t.op, live, t.identity, t.expiry, height)

\* Unless it is over, the promise is what the countdown on the chain says.
PromiseStands ==
  ~live.revoked /\ ~relocked =>
     \/ promised \leq height
     \/ ~live.timelock.flagged /\ live.timelock.after \geq promised

IInv == TypeOK /\ HeldIsLive /\ SignedForLive /\ PromiseStands /\ NeverStranded

\* The checks passed by what moves from o to p without a revocation on either
\* side are those of check_timelock.
LEMMA CheckedMove ==
  ASSUME NEW op \in Operations, NEW o \in Identity, NEW p, NEW expiry, NEW h \in Nat,
         MadeOf(op, o, p, expiry, h),
         ~o.revoked, ~p.revoked
  PROVE  /\ op.kind \in {"update", "unlock"}
         /\ \E tip \in 1..h : /\ expiry = Expires(tip)
                              /\ p = restated(op, o, tip)
                              /\ check_timelock(o, p, expiry, tip)
  <1>1. PICK tip \in 1..h : /\ expiry = Expires(tip)
                            /\ accepted(op, o, tip)
                            /\ p = restated(op, o, tip)
    BY DEF MadeOf
  <1>2. op.kind \in {"update", "revoke", "recover", "unlock"}
    BY LifecycleAssumption DEF OperationType
  <1>3. op.kind # "revoke"
    BY <1>1, RestatedType
  <1>4. op.kind # "recover"
    BY <1>1 DEF accepted, may_recover
  <1>5. may_publish(op, o, tip)
    BY <1>1, <1>2, <1>3, <1>4 DEF accepted
  <1> QED
    BY <1>1, <1>2, <1>3, <1>4, <1>5 DEF may_publish

-----------------------------------------------------------------------------
(***************************************************************************)
(* The arithmetic of locks                                                 *)
(***************************************************************************)
\* What a transaction checked at `tip` publishes when a block at h + 1, not
\* above its expiry, carries it: leaving a delay takes that delay ...
LEMMA LeavingADelay ==
  ASSUME NEW o \in Identity, NEW p \in Identity, NEW tip \in Nat, NEW h \in Nat,
         ~o.revoked, ~p.revoked, h < Expires(tip),
         check_timelock(o, p, Expires(tip), tip),
         o.timelock.flagged, ~p.timelock.flagged
  PROVE  p.timelock.after \geq
           Saturated((h + 1) + MinOf(o.timelock.after, MAX_UNLOCK_DELAY))
  <1>1. locked(o, tip)
    BY DEF locked
  <1>2. may_move(o.timelock, p.timelock, Expires(tip))
    BY <1>1 DEF check_timelock
  <1>3. \/ p.timelock.after \geq countdown_floor(o.timelock.after, Expires(tip))
        \/ escapes(o.timelock.after, Expires(tip), p.timelock.after)
    BY <1>2 DEF may_move
  <1> DEFINE d == o.timelock.after
  <1> DEFINE e == Expires(tip)
  <1> DEFINE q == p.timelock.after
  <1>4. d \in Nat /\ q \in Nat /\ q \leq MaxU32 /\ e \in Nat /\ h + 1 \leq e
    BY LifecycleAssumption DEF Identity, Timelock, Expires
  <1>5. q \geq Saturated(d + e) \/ (d > MAX_UNLOCK_DELAY /\ q = Saturated(MAX_UNLOCK_DELAY + e))
    BY <1>3 DEF countdown_floor, escapes
  <1> HIDE DEF d, e, q
  <1>6. q \geq Saturated((h + 1) + MinOf(d, MAX_UNLOCK_DELAY))
    BY <1>4, <1>5, LifecycleAssumption DEF Saturated, MinOf
  <1> QED
    BY <1>6 DEF d, q

\* ... and a countdown that still runs is not shortened.
LEMMA RunningCountdown ==
  ASSUME NEW o \in Identity, NEW p \in Identity, NEW tip \in Nat,
         ~o.revoked, ~p.revoked, check_timelock(o, p, Expires(tip), tip),
         ~o.timelock.flagged, ~p.timelock.flagged, o.timelock.after > tip
  PROVE  p.timelock.after \geq o.timelock.after
  <1>1. o.timelock.after \in Nat
    BY LifecycleAssumption DEF Identity, Timelock
  <1>2. locked(o, tip)
    BY <1>1 DEF locked
  <1>3. may_move(o.timelock, p.timelock, Expires(tip))
    BY <1>2 DEF check_timelock
  <1> QED
    BY <1>3 DEF may_move

\* An operation leaves the fields alone that it does not name.
LEMMA UntouchedField ==
  ASSUME NEW op \in Operations, NEW o \in Identity, NEW tip \in Nat,
         NEW f \in DOMAIN o \ Touched(op)
  PROVE  restated(op, o, tip)[f] = o[f]
  <1>1. op.kind \in {"update", "revoke", "recover", "unlock"}
    BY LifecycleAssumption DEF OperationType
  <1>2. CASE op.kind = "revoke"
    BY <1>2 DEF restated, Touched
  <1>3. CASE op.kind = "recover"
    <2> DEFINE r == [o EXCEPT !.revoked = FALSE]
    <2>1. f \notin DOMAIN op.change /\ f # "revoked"
      BY <1>3 DEF Touched
    <2>2. f \in DOMAIN r /\ r[f] = o[f]
      BY <2>1
    <2>3. restated(op, o, tip) = apply_to(op.change, r)
      BY <1>3 DEF restated
    <2> HIDE DEF r
    <2> QED
      BY <2>1, <2>2, <2>3 DEF apply_to
  <1>4. CASE op.kind = "update"
    BY <1>4 DEF restated, Touched, apply_to
  <1>5. CASE op.kind = "unlock"
    BY <1>5 DEF restated, Touched
  <1> QED
    BY <1>1, <1>2, <1>3, <1>4, <1>5

-----------------------------------------------------------------------------
(***************************************************************************)
(* Callers                                                                 *)
(***************************************************************************)
LEMMA InitIInv == Init => IInv
  <1> SUFFICES ASSUME Init PROVE IInv
    OBVIOUS
  <1>1. TypeOK
    <2>1. height \in 1..MaxHeight /\ live \in Identity /\ version \in Nat \ {0}
      BY LifecycleAssumption DEF Init
    <2>2. calls \in [Callers -> CallState]
      BY DEF Init, CallState, Unread
    <2>3. signed \subseteq Transaction /\ promised \in 0..MaxU32
      BY LifecycleAssumption DEF Init
    <2>4. relocked \in BOOLEAN
      BY DEF Init
    <2> QED
      BY <2>1, <2>2, <2>3, <2>4 DEF TypeOK
  <1>2. HeldIsLive
    BY DEF Init, HeldIsLive, Unread
  <1>3. SignedForLive
    BY DEF Init, SignedForLive
  <1>4. PromiseStands
    BY DEF Init, PromiseStands
  <1>5. NeverStranded
    BY LifecycleAssumption DEF Init, NeverStranded
  <1> QED
    BY <1>1, <1>2, <1>3, <1>4, <1>5 DEF IInv

\* What a caller reads, forgets or gives up changes nothing but its own call.
LEMMA CallKeepsIInv ==
  ASSUME IInv, NEW c \in Callers, ReadTip(c) \/ ReadIdentity(c) \/ CallFails(c)
  PROVE  IInv'
  <1>0. UNCHANGED <<height, live, version, signed, promised, relocked>>
    BY DEF ReadTip, ReadIdentity, CallFails
  <1>1. /\ calls \in [Callers -> CallState] /\ height \in 1..height
        /\ version \in 1..version /\ live \in Identity
    BY DEF IInv, TypeOK
  <1>2. calls' \in [Callers -> CallState]
    BY <1>1 DEF ReadTip, ReadIdentity, CallFails, CallState, Unread
  <1>3. TypeOK'
    BY <1>0, <1>2 DEF IInv, TypeOK, CallState, Transaction
  <1>4. HeldIsLive'
    <2> SUFFICES ASSUME NEW b \in Callers, calls'[b].held # None, calls'[b].version = version
                 PROVE  calls'[b].held = live
      BY <1>0 DEF HeldIsLive
    <2>1. calls[b].held # None /\ calls[b].version = version => calls[b].held = live
      BY DEF IInv, HeldIsLive
    <2>2. CASE b # c
      BY <1>1, <2>1, <2>2 DEF ReadTip, ReadIdentity, CallFails
    <2>3. CASE b = c /\ ReadTip(c)
      BY <1>1, <2>1, <2>3 DEF ReadTip, CallState
    <2>4. CASE b = c /\ ReadIdentity(c)
      BY <1>1, <2>4 DEF ReadIdentity, CallState
    <2>5. CASE b = c /\ CallFails(c)
      BY <1>1, <2>5 DEF CallFails, Unread
    <2> QED
      BY <2>2, <2>3, <2>4, <2>5
  <1>5. SignedForLive' /\ PromiseStands' /\ NeverStranded'
    BY <1>0 DEF IInv, SignedForLive, PromiseStands, NeverStranded
  <1> QED
    BY <1>3, <1>4, <1>5 DEF IInv

\* What is signed was checked against the tip and the output the caller read;
\* if that output is still the live one, against the identity it holds.
LEMMA SignKeepsIInv ==
  ASSUME IInv, NEW c \in Callers, Sign(c)
  PROVE  IInv'
  <1>0. UNCHANGED <<height, live, version, promised, relocked>>
    BY DEF Sign
  <1>1. PICK op \in Operations :
          /\ MayPrepare(c, op)
          /\ signed' = Alive(signed \cup {Prepared(c, op, Expires(calls[c].tip))}, version, height)
    BY DEF Sign
  <1> DEFINE tip == calls[c].tip
  <1> DEFINE held == calls[c].held
  <1> DEFINE t == Prepared(c, op, Expires(tip))
  <1>2. calls \in [Callers -> CallState]
    BY DEF IInv, TypeOK
  <1>3. /\ tip \in 1..height /\ calls[c].version \in {None} \cup 1..version
        /\ held \in Identity /\ held # None /\ accepted(op, held, tip)
    BY <1>1, <1>2 DEF MayPrepare, HasRead, CallState
  <1>4. height \in 1..MaxHeight /\ version \in Nat \ {0} /\ signed \subseteq Transaction
    BY DEF IInv, TypeOK
  <1>5. Expires(tip) \in 0..MaxU32
    BY <1>3, <1>4, LifecycleAssumption DEF Expires
  <1>6. t = [op |-> op, spends |-> calls[c].version, expiry |-> Expires(tip),
             identity |-> restated(op, held, tip)]
    BY DEF Prepared
  <1>7. restated(op, held, tip) \in Identity
    BY <1>3, <1>4, RestatedType
  <1>8. signed' = {u \in signed \cup {t} : u.spends = version /\ height < u.expiry}
    BY <1>1 DEF Alive
  <1>9. t.spends = version => t \in Transaction
    BY <1>3, <1>4, <1>5, <1>6, <1>7 DEF Transaction
  <1>10. calls' \in [Callers -> CallState]
    BY <1>2 DEF Sign, CallState, Unread
  <1>11. TypeOK'
    <2>1. signed' \subseteq Transaction
      BY <1>4, <1>8, <1>9
    <2> QED
      BY <1>0, <1>10, <2>1 DEF IInv, TypeOK, CallState, Transaction
  <1>12. HeldIsLive'
    <2> SUFFICES ASSUME NEW b \in Callers, calls'[b].held # None, calls'[b].version = version
                 PROVE  calls'[b].held = live
      BY <1>0 DEF HeldIsLive
    <2>1. b # c /\ calls'[b] = calls[b]
      BY <1>2 DEF Sign, Unread
    <2> QED
      BY <2>1 DEF IInv, HeldIsLive
  <1>13. SignedForLive'
    <2> SUFFICES ASSUME NEW u \in signed'
                 PROVE  /\ u.spends = version /\ height < u.expiry
                        /\ MadeOf(u.op, live, u.identity, u.expiry, height)
      BY <1>0 DEF SignedForLive, MadeOf, accepted, restated
    <2>1. u.spends = version /\ height < u.expiry /\ (u \in signed \/ u = t)
      BY <1>8
    <2>2. CASE u \in signed
      BY <2>1, <2>2 DEF IInv, SignedForLive
    <2>3. CASE u = t
      <3>1. calls[c].version = version
        BY <1>6, <2>1, <2>3
      <3>2. held = live
        BY <1>3, <3>1 DEF IInv, HeldIsLive
      <3>3. u.op = op /\ u.expiry = Expires(tip) /\ u.identity = restated(op, live, tip)
        BY <1>6, <2>3, <3>2
      <3> QED
        BY <1>3, <2>1, <3>2, <3>3 DEF MadeOf
    <2> QED
      BY <2>1, <2>2, <2>3
  <1>14. PromiseStands' /\ NeverStranded'
    BY <1>0 DEF IInv, PromiseStands, NeverStranded
  <1> QED
    BY <1>11, <1>12, <1>13, <1>14 DEF IInv

-----------------------------------------------------------------------------
(***************************************************************************)
(* The chain                                                               *)
(***************************************************************************)
\* MadeOf does not depend on how much later it is asked.
LEMMA MadeOfLater ==
  ASSUME NEW op, NEW o, NEW p, NEW expiry, NEW h \in Nat, NEW k \in Nat, h \leq k,
         MadeOf(op, o, p, expiry, h)
  PROVE  MadeOf(op, o, p, expiry, k)
  BY DEF MadeOf

\* A block without the identity in it drops what expired.
LEMMA MineKeepsIInv ==
  ASSUME IInv, Mine
  PROVE  IInv'
  <1>0. height < MaxHeight /\ height' = height + 1
        /\ UNCHANGED <<live, version, calls, promised, relocked>>
    BY DEF Mine
  <1>1. height \in 1..MaxHeight /\ MaxHeight \in Nat /\ promised \in 0..MaxU32
        /\ calls \in [Callers -> CallState] /\ signed \subseteq Transaction
    BY LifecycleAssumption DEF IInv, TypeOK
  <1>2. signed' = {u \in signed : u.spends = version /\ height' < u.expiry}
    BY DEF Mine, Alive
  <1>3. height' \in 1..MaxHeight
    BY <1>0, <1>1
  <1>4. TypeOK'
    <2>1. calls' \in [Callers -> CallState]'
      <3> SUFFICES ASSUME NEW s \in CallState PROVE s \in CallState'
        BY <1>0, <1>1
      <3> QED
        BY <1>0, <1>1 DEF CallState
    <2>2. signed' \subseteq Transaction'
      BY <1>0, <1>1, <1>2 DEF Transaction
    <2> QED
      BY <1>0, <1>3, <2>1, <2>2 DEF IInv, TypeOK
  <1>5. HeldIsLive'
    BY <1>0 DEF IInv, HeldIsLive
  <1>6. SignedForLive'
    <2> SUFFICES ASSUME NEW u \in signed'
                 PROVE  /\ u.spends = version' /\ height' < u.expiry
                        /\ MadeOf(u.op, live, u.identity, u.expiry, height')
      BY <1>0 DEF SignedForLive, MadeOf, accepted, restated
    <2>1. u \in signed /\ u.spends = version /\ height' < u.expiry
      BY <1>2
    <2>2. MadeOf(u.op, live, u.identity, u.expiry, height)
      BY <2>1 DEF IInv, SignedForLive
    <2> QED
      BY <1>0, <1>1, <2>1, <2>2, MadeOfLater
  <1>7. PromiseStands'
    BY <1>0, <1>1 DEF IInv, PromiseStands
  <1>8. NeverStranded'
    BY <1>0 DEF IInv, NeverStranded
  <1> QED
    BY <1>4, <1>5, <1>6, <1>7, <1>8 DEF IInv

\* What makes the identity of a mined transaction: an operation checked
\* against the identity it replaces.
LEMMA MinedMadeOf ==
  ASSUME IInv, MineChange
  PROVE  /\ height' = height + 1 /\ height < MaxHeight
         /\ version' = version + 1 /\ signed' = {} /\ calls' = calls
         /\ live' \in Identity
         /\ promised' = Promise(live, live', height')
         /\ relocked' = IF live.revoked \/ live'.revoked THEN FALSE
                        ELSE relocked \/ (live'.timelock.flagged /\ promised > height)
         /\ \E t \in signed :
              /\ live' = t.identity /\ t.op \in Operations /\ height < t.expiry
              /\ MadeOf(t.op, live, live', t.expiry, height)
  <1>1. PICK t \in Alive(signed, version, height) :
          /\ live' = t.identity
          /\ promised' = Promise(live, t.identity, height')
          /\ relocked' = IF live.revoked \/ t.identity.revoked THEN FALSE
                         ELSE relocked \/ (t.identity.timelock.flagged /\ promised > height)
    BY DEF MineChange
  <1>2. t \in signed /\ t \in Transaction /\ height < t.expiry
        /\ MadeOf(t.op, live, t.identity, t.expiry, height)
    BY DEF Alive, IInv, TypeOK, SignedForLive
  <1>3. t.identity \in Identity /\ t.op \in Operations
    BY <1>2 DEF Transaction
  <1>4. \E u \in signed :
          /\ live' = u.identity /\ u.op \in Operations /\ height < u.expiry
          /\ MadeOf(u.op, live, live', u.expiry, height)
    BY <1>1, <1>2, <1>3
  <1>5. /\ height' = height + 1 /\ height < MaxHeight
        /\ version' = version + 1 /\ signed' = {} /\ calls' = calls
    BY DEF MineChange
  <1> QED
    BY <1>1, <1>3, <1>4, <1>5

\* What the new block promises is a height again.
LEMMA PromiseType ==
  ASSUME promised \in 0..MaxU32, NEW o \in Identity, NEW p \in Identity, NEW h \in Nat
  PROVE  Promise(o, p, h) \in 0..MaxU32
  <1>1. o.timelock.after \in 0..MaxU32 /\ p.timelock.after \in 0..MaxU32
    BY DEF Identity, Timelock
  <1>2. MinOf(o.timelock.after, MAX_UNLOCK_DELAY) \in Nat
    BY <1>1, LifecycleAssumption DEF MinOf
  <1>3. Saturated(h + MinOf(o.timelock.after, MAX_UNLOCK_DELAY)) \in 0..MaxU32
    BY <1>2, SaturatedType, LifecycleAssumption
  <1> QED
    BY <1>1, <1>3, LifecycleAssumption DEF Promise, MaxOf

\* After a block with a change, the promise is what the new countdown says:
\* the argument that an unlock only moves later.
LEMMA PromiseKept ==
  ASSUME IInv, MineChange
  PROVE  PromiseStands'
  <1> SUFFICES ASSUME ~live'.revoked, ~relocked'
               PROVE  \/ promised' \leq height'
                      \/ ~live'.timelock.flagged /\ live'.timelock.after \geq promised'
    BY DEF PromiseStands
  <1>0. height \in Nat /\ live \in Identity /\ promised \in 0..MaxU32
    BY DEF IInv, TypeOK
  <1>1. height \in Nat /\ live \in Identity /\ promised \in 0..MaxU32
        /\ height' = height + 1 /\ live' \in Identity
        /\ promised' = Promise(live, live', height')
    BY <1>0, MinedMadeOf
  <1> DEFINE o == live.timelock
  <1> DEFINE p == live'.timelock
  <1>2. o.after \in Nat /\ p.after \in Nat /\ MaxU32 \in Nat
    BY <1>1, LifecycleAssumption DEF Identity, Timelock
  <1>3. CASE live.revoked
    <2>1. promised' = 0
      BY <1>1, <1>3 DEF Promise
    <2> QED
      BY <1>1, <2>1
  <1>4. CASE ~live.revoked
    <2>1. PICK t \in signed : /\ live' = t.identity /\ t.op \in Operations /\ height < t.expiry
                             /\ MadeOf(t.op, live, live', t.expiry, height)
      BY MinedMadeOf
    <2>2. PICK tip \in 1..height : /\ t.expiry = Expires(tip)
                                  /\ check_timelock(live, live', Expires(tip), tip)
      BY <1>1, <1>4, <2>1, CheckedMove
    <2>3. relocked' = (relocked \/ (live'.timelock.flagged /\ promised > height))
      BY <1>4, MinedMadeOf
    <2>4. ~relocked /\ ~(live'.timelock.flagged /\ promised > height)
      BY <2>3
    <2>5. promised \leq height \/ (~o.flagged /\ o.after \geq promised)
      BY <1>4, <2>4 DEF IInv, PromiseStands
    <2>6. CASE p.flagged
      <3>1. promised' = promised
        BY <1>1, <1>4, <2>6 DEF Promise
      <3>2. ~(promised > height)
        BY <2>4, <2>6
      <3> QED
        BY <1>1, <3>1, <3>2
    <2>7. CASE ~p.flagged /\ o.flagged
      <3> DEFINE leave == Saturated((height + 1) + MinOf(o.after, MAX_UNLOCK_DELAY))
      <3>1. promised' = MaxOf(promised, leave)
        BY <1>1, <1>4, <2>7 DEF Promise
      <3>2. p.after \geq leave
        BY <1>1, <1>4, <2>1, <2>2, <2>7, LeavingADelay
      <3>3. promised \leq height
        BY <2>5, <2>7
      <3> HIDE DEF leave
      <3>4. promised' = promised \/ promised' = leave
        BY <3>1 DEF MaxOf
      <3>5. CASE promised' = promised
        BY <1>1, <3>3, <3>5
      <3>6. CASE promised' = leave
        BY <2>7, <3>2, <3>6
      <3> QED
        BY <3>4, <3>5, <3>6
    <2>8. CASE ~p.flagged /\ ~o.flagged
      <3>1. promised' = MaxOf(promised, p.after)
        BY <1>1, <1>4, <2>8 DEF Promise
      <3>2. CASE promised \leq height
        <4>1. promised' \leq height' \/ p.after \geq promised'
          BY <1>1, <1>2, <3>1, <3>2 DEF MaxOf
        <4> QED
          BY <2>8, <4>1
      <3>3. CASE promised > height
        <4>1. o.after \geq promised
          BY <1>1, <2>5, <3>3
        <4>2. o.after > tip
          BY <1>1, <1>2, <2>2, <3>3, <4>1
        <4>3. p.after \geq o.after
          BY <1>1, <1>4, <2>2, <2>8, <4>2, RunningCountdown
        <4>4. p.after \geq promised'
          BY <1>1, <1>2, <3>1, <4>1, <4>3 DEF MaxOf
        <4> QED
          BY <2>8, <4>4
      <3> QED
        BY <1>1, <3>2, <3>3
    <2> QED
      BY <2>6, <2>7, <2>8
  <1> QED
    BY <1>3, <1>4

\* A block with a change keeps the invariant.
LEMMA MineChangeKeepsIInv ==
  ASSUME IInv, MineChange
  PROVE  IInv'
  <1>1. /\ height \in 1..MaxHeight /\ live \in Identity /\ version \in Nat \ {0}
        /\ calls \in [Callers -> CallState] /\ promised \in 0..MaxU32
    BY DEF IInv, TypeOK
  <1>2. /\ height' = height + 1 /\ height < MaxHeight
        /\ version' = version + 1 /\ signed' = {} /\ calls' = calls
        /\ live' \in Identity
        /\ promised' = Promise(live, live', height')
    BY MinedMadeOf
  <1>3. height' \in 1..MaxHeight /\ height' \in Nat /\ version' \in Nat \ {0}
    BY <1>1, <1>2, LifecycleAssumption
  <1>4. TypeOK'
    <2>1. calls' \in [Callers -> CallState]'
      <3> SUFFICES ASSUME NEW s \in CallState PROVE s \in CallState'
        BY <1>1, <1>2
      <3> QED
        BY <1>1, <1>2 DEF CallState
    <2>2. promised' \in 0..MaxU32
      BY <1>1, <1>2, <1>3, PromiseType
    <2>3. signed' \subseteq Transaction'
      BY <1>2
    <2>4. relocked' \in BOOLEAN
      <3>1. relocked' = IF live.revoked \/ live'.revoked THEN FALSE
                        ELSE relocked \/ (live'.timelock.flagged /\ promised > height)
        BY MinedMadeOf
      <3> QED
        BY <3>1 DEF IInv, TypeOK
    <2> QED
      BY <1>2, <1>3, <2>1, <2>2, <2>3, <2>4 DEF TypeOK
  <1>5. HeldIsLive'
    <2> SUFFICES ASSUME NEW b \in Callers, calls[b].version = version + 1 PROVE FALSE
      BY <1>2 DEF HeldIsLive
    <2>1. calls[b].version \in {None} \cup 1..version
      BY <1>1 DEF CallState
    <2> QED
      BY <1>1, <2>1, LifecycleAssumption
  <1>6. SignedForLive'
    BY <1>2 DEF SignedForLive
  <1>7. NeverStranded'
    <2> SUFFICES ASSUME live'.revoked PROVE live'.recovery # "self"
      BY DEF NeverStranded
    <2>1. PICK t \in signed : t.op \in Operations /\ MadeOf(t.op, live, live', t.expiry, height)
      BY MinedMadeOf
    <2>2. PICK tip \in 1..height : accepted(t.op, live, tip) /\ live' = restated(t.op, live, tip)
      BY <2>1 DEF MadeOf
    <2>3. t.op.kind \in {"update", "revoke", "recover", "unlock"}
      BY <2>1, LifecycleAssumption DEF OperationType
    <2>4. tip \in Nat
      BY <1>1, <2>2
    <2>5. t.op.kind # "recover"
      BY <1>1, <2>1, <2>2, <2>4, RestatedType
    <2>6. ~live.revoked
      BY <2>2, <2>3, <2>5 DEF accepted, may_revoke, may_unlock
    <2>7. t.op.kind = "revoke"
      BY <1>1, <2>1, <2>2, <2>3, <2>4, <2>5, <2>6, RestatedType
    <2>8. live.recovery # "self" /\ live' = [live EXCEPT !.revoked = TRUE]
      BY <2>2, <2>7 DEF accepted, may_revoke, restated
    <2> QED
      BY <1>1, <2>8 DEF Identity
  <1> QED
    BY <1>4, <1>5, <1>6, <1>7, PromiseKept DEF IInv

-----------------------------------------------------------------------------
(***************************************************************************)
(* The theorems                                                            *)
(***************************************************************************)
LEMMA Invariance == Spec => []IInv
  <1>1. Init => IInv
    BY InitIInv
  <1>2. IInv /\ [Next]_vars => IInv'
    <2> SUFFICES ASSUME IInv, [Next]_vars PROVE IInv'
      OBVIOUS
    <2>1. CASE Mine
      BY <2>1, MineKeepsIInv
    <2>2. CASE MineChange
      BY <2>2, MineChangeKeepsIInv
    <2>3. ASSUME NEW c \in Callers, Call(c) PROVE IInv'
      BY <2>3, CallKeepsIInv, SignKeepsIInv DEF Call
    <2>4. CASE UNCHANGED vars
      <3>1. UNCHANGED <<height, live, version, signed, calls, promised, relocked>>
        BY <2>4 DEF vars
      <3>2. TypeOK'
        BY <3>1 DEF IInv, TypeOK, CallState, Transaction
      <3>3. HeldIsLive' /\ PromiseStands' /\ NeverStranded'
        BY <3>1 DEF IInv, HeldIsLive, PromiseStands, NeverStranded
      <3>4. SignedForLive'
        BY <3>1 DEF IInv, SignedForLive
      <3> QED
        BY <3>2, <3>3, <3>4 DEF IInv
    <2> QED
      BY <2>1, <2>2, <2>3, <2>4 DEF Next
  <1> QED
    BY <1>1, <1>2, PTL DEF Spec

\* Every variable keeps its type, for all operations, callers and heights.
THEOREM TypeCorrect == Spec => []TypeOK
  <1>1. IInv => TypeOK
    BY DEF IInv
  <1> QED
    BY <1>1, Invariance, PTL

\* Nobody who may recover an identity is taken from a revoked one, whatever
\* other callers publish between reading and mining.
THEOREM NobodyIsStranded == Spec => []NeverStranded
  <1>1. IInv => NeverStranded
    BY DEF IInv
  <1> QED
    BY <1>1, Invariance, PTL

\* Until a revocation, no operation of this SDK makes an identity spendable
\* before the countdown the chain announced, whatever tips were read and
\* whichever blocks carry the transactions.
THEOREM UnlocksOnlyMoveLater == Spec => []UnlockNeverEarly
  <1>1. IInv => UnlockNeverEarly
    <2> SUFFICES ASSUME IInv, ~live.revoked, ~relocked, spendable_at(live.timelock, height)
                 PROVE  height \geq promised
      BY DEF UnlockNeverEarly
    <2>0. height \in Nat /\ live \in Identity /\ promised \in 0..MaxU32
      BY DEF IInv, TypeOK
    <2>1. live.timelock.after \in Nat /\ promised \in Nat
      BY <2>0, LifecycleAssumption DEF Identity, Timelock
    <2>2. \/ promised \leq height
          \/ ~live.timelock.flagged /\ live.timelock.after \geq promised
      BY DEF IInv, PromiseStands
    <2> QED
      BY <2>0, <2>1, <2>2 DEF spendable_at
  <1> QED
    BY <1>1, Invariance, PTL

\* The transaction an unlock prepares satisfies consensus in every block that
\* can still carry it.
THEOREM UnlocksAreAccepted == Spec => []UnlockIsAccepted
  <1>1. IInv => UnlockIsAccepted
    <2> SUFFICES ASSUME IInv, NEW t \in Alive(signed, version, height), t.op.kind = "unlock"
                 PROVE  ConsensusAllows(live, t.identity, t.expiry, height + 1)
      BY DEF UnlockIsAccepted
    <2>1. t \in signed /\ height < t.expiry /\ MadeOf(t.op, live, t.identity, t.expiry, height)
      BY DEF Alive, IInv, SignedForLive
    <2>2. height \in 1..MaxHeight /\ live \in Identity /\ t.op \in Operations
      BY <2>1 DEF IInv, TypeOK, Transaction
    <2>3. PICK tip \in 1..height : /\ t.expiry = Expires(tip) /\ accepted(t.op, live, tip)
                                  /\ t.identity = restated(t.op, live, tip)
      BY <2>1 DEF MadeOf
    <2>4. ~live.revoked /\ live.timelock.flagged
      BY <2>3 DEF accepted, may_unlock
    <2> DEFINE q == unlock_at(live, tip, t.op.extra)
    <2>5. /\ t.identity \in Identity /\ ~t.identity.revoked
          /\ t.identity.timelock = [flagged |-> FALSE, after |-> q]
      BY <2>2, <2>3, <2>4, RestatedType DEF UntilBlock
    <2>6. q \geq countdown_floor(live.timelock.after, t.expiry) /\ q \geq height + 1 /\ q \in Nat
      <3>1. live.timelock.after \in Nat /\ t.op.extra \in Nat
        BY <2>2, LifecycleAssumption DEF Identity, Timelock, OperationType
      <3>2. t.expiry \in Nat /\ t.expiry \leq MaxU32 /\ height + 1 \leq t.expiry
        BY <2>1, <2>2, <2>3, LifecycleAssumption DEF Expires
      <3> QED
        BY <2>2, <2>3, <3>1, <3>2, LifecycleAssumption DEF unlock_at, countdown_floor, Saturated
    <2> HIDE DEF q
    <2>7. locked(t.identity, height + 1)
      BY <2>2, <2>5, <2>6 DEF locked
    <2>8. may_move(live.timelock, t.identity.timelock, t.expiry)
      BY <2>4, <2>5, <2>6 DEF may_move
    <2>9. locked(live, height + 1)
      BY <2>4 DEF locked
    <2> QED
      BY <2>5, <2>7, <2>8, <2>9 DEF ConsensusAllows
  <1> QED
    BY <1>1, Invariance, PTL

\* What a mined operation did not name is what the output it replaces had,
\* however many callers raced for that output.
THEOREM NothingUnnamedChanges == Spec => UnnamedFieldsCarryOver
  <1>1. IInv /\ [Next]_vars =>
          [\E t \in signed :
              /\ live' = t.identity
              /\ \A f \in DOMAIN live \ Touched(t.op) : live'[f] = live[f]]_version
    <2> SUFFICES ASSUME IInv, [Next]_vars, version' # version
                 PROVE  \E t \in signed :
                           /\ live' = t.identity
                           /\ \A f \in DOMAIN live \ Touched(t.op) : live'[f] = live[f]
      OBVIOUS
    <2>1. MineChange
      BY DEF Next, vars, Mine, Call, ReadTip, ReadIdentity, Sign, CallFails
    <2>2. PICK t \in signed : /\ live' = t.identity /\ t.op \in Operations
                             /\ MadeOf(t.op, live, live', t.expiry, height)
      BY <2>1, MinedMadeOf
    <2>3. PICK tip \in 1..height : live' = restated(t.op, live, tip)
      BY <2>2 DEF MadeOf
    <2>4. live \in Identity /\ tip \in Nat
      BY <2>3 DEF IInv, TypeOK
    <2>5. \A f \in DOMAIN live \ Touched(t.op) : live'[f] = live[f]
      BY <2>2, <2>3, <2>4, UntouchedField
    <2> QED
      BY <2>2, <2>5
  <1> QED
    BY <1>1, Invariance, PTL DEF Spec, UnnamedFieldsCarryOver
=============================================================================
