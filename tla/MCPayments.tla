----------------------------- MODULE MCPayments -----------------------------
(***************************************************************************)
(* Small wallets for Payments, and small operations for Drive.  One run    *)
(* checks both: a behaviour drives an operation to its plan, or makes      *)
(* payments with a handle that is done.                                    *)
(***************************************************************************)
EXTENDS Payments, Drive

Coin(v, h, cb) == [value |-> v, height |-> h, coinbase |-> cb, tx |-> None]

MCPayments == {1, 2}
MCAmount   == [p \in MCPayments |-> 2]

\* A large coin, two small ones, and a coinbase that matures during the run.
MCConfirmed == {Coin(5, 1, FALSE), Coin(2, 1, FALSE), Coin(7, 2, TRUE)}

-----------------------------------------------------------------------------
\* What a flow of the kind the crate has would ask.
Hash(h) == <<"blockhash", h>>
MCWrites   == {<<"sendrawtransaction", 0>>}
MCQuestion == {<<"blockcount", 0>>, <<"utxos", 0>>} \cup {Hash(h) : h \in 0..MaxMoment} \cup MCWrites

Tip(known) == known[<<"blockcount", 0>>]

\* Two independent reads, then one the first answer names.
ReadThenName(known) ==
  IF <<"blockcount", 0>> \in DOMAIN known /\ <<"utxos", 0>> \in DOMAIN known
    THEN {Hash(Tip(known))}
    ELSE {<<"blockcount", 0>>, <<"utxos", 0>>}

AskReads(known) == ReadThenName(known) \ DOMAIN known

\* The same, and in two of the moments it may have seen it broadcasts what it
\* built instead of returning it.
AskReadsMaybeSend(known) ==
  IF AskReads(known) # {} THEN AskReads(known)
  ELSE IF Tip(known) % 2 = 1 THEN MCWrites ELSE {}

\* It fails by itself when the outputs are older than the tip by two moments.
StaleOutputs(known) ==
  /\ {<<"blockcount", 0>>, <<"utxos", 0>>} \subseteq DOMAIN known
  /\ Tip(known) > known[<<"utxos", 0>>] + 1

MCReply(q, now) == now

-----------------------------------------------------------------------------
VARIABLE part

all == <<part, vars, driveVars>>

\* The handle whose plan is being paid.
HandleDone ==
  /\ moment = 0 /\ sent = 0 /\ lost = 0
  /\ answers = [q \in {} |-> 0] /\ missing = {} /\ rounds = 1 /\ finished = TRUE
  /\ step = "Ready" /\ wanted = {} /\ replies = {} /\ plans = 1

InPart(p, A, rest) == part = p /\ A /\ UNCHANGED <<part, rest>>

RefusalInit == part = "paying" /\ Init /\ HandleDone
RefusalSpec == RefusalInit /\ [][InPart("paying", Next, driveVars)]_all

FlowsInit == RefusalInit \/ (part = "driving" /\ Init /\ DriveInit)
FlowsNext == InPart("paying", Next, driveVars) \/ InPart("driving", DriveNext, vars)

FlowsFairSpec ==
  /\ FlowsInit /\ [][FlowsNext]_all
  /\ WF_all(InPart("paying", Mine, driveVars))
  /\ WF_all(InPart("paying", Caller, driveVars))
  /\ WF_all(InPart("driving", Advance \/ Fetch \/ Record, vars))
=============================================================================
