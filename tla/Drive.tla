-------------------------------- MODULE Drive --------------------------------
(***************************************************************************)
(* Running a synchronous flow without a network (src/crates/verus-flows/   *)
(* src/drive.rs over src/crates/verus-rpc/src/cassette.rs): the operation  *)
(* is run from its beginning each round against the answers held so far;   *)
(* what it could not answer is fetched by a driver, concurrently, and      *)
(* recorded; and it is run again until it is ready.                        *)
(*                                                                         *)
(* An operation is what it asks, given what it knows.  The node it asks    *)
(* changes while the driver fetches.                                       *)
(***************************************************************************)
EXTENDS Naturals, FiniteSets

CONSTANTS
  Question,        \* request bodies, each its own key
  Writes,          \* the bodies whose method changes the world
  Asks(_),         \* what the operation asks next, given the answers it has;
                   \* {} once it needs nothing more
  Refuses(_),      \* whether it fails by itself, given the answers it has
  ReplyTo(_, _),   \* the node's reply to a question at a moment
  MAX_ROUNDS,
  MaxMoment,       \* bound: how often the node changes
  MaxLost          \* bound: replies lost or too large to record

ASSUME DriveAssumption ==
  /\ Writes \subseteq Question
  /\ MAX_ROUNDS \in Nat /\ MaxMoment \in Nat /\ MaxLost \in Nat

VARIABLES
  moment,     \* the state of the node
  sent,       \* writes the driver carried to the node
  lost,
  answers,    \* the cassette: [questions answered -> reply]
  missing,    \* its record of misses
  rounds, finished,
  step,       \* what the last advance returned
  wanted,     \* bodies of the last Ask the driver has not fetched yet
  replies,    \* fetched and not yet recorded
  plans       \* how many plans this handle has produced

world     == <<moment, sent, lost>>
handle    == <<answers, rounds, finished>>
driver    == <<wanted, replies>>
driveVars == <<world, handle, missing, step, driver, plans>>

Known == DOMAIN answers

\* Mutant: only the last answer is kept.
Extended_Forgets(q, r) == [x \in {q} |-> r]

\* Cassette::answer.
Extended(q, r) == [x \in Known \cup {q} |-> IF x = q THEN r ELSE answers[x]]

-----------------------------------------------------------------------------
(***************************************************************************)
(* One round                                                               *)
(***************************************************************************)
\* Mutant: a write is recorded like any other miss.
Misses_WritesToo == Asks(answers) \ Known

\* Cassette::post: a write is refused before it is looked up or recorded.
Misses == Asks(answers) \ (Known \cup Writes)

Blocked == Asks(answers) \ Known # {}

\* The operation stopped on a write before it stopped for an answer.
WriteRefused == Misses = {} /\ Asks(answers) \cap Writes # {}

\* The driver is done with the last shopping list.
MayAdvance == wanted = {} /\ replies = {}

AdvanceSpent ==
  /\ MayAdvance /\ finished
  /\ step' = "AnswersSpent"
  /\ UNCHANGED <<world, handle, missing, driver, plans>>

AdvanceCapped ==
  /\ MayAdvance /\ ~finished /\ rounds \geq MAX_ROUNDS
  /\ step' = "Stalled"
  /\ UNCHANGED <<world, handle, missing, driver, plans>>

Round ==
  /\ MayAdvance /\ ~finished /\ rounds < MAX_ROUNDS
  /\ rounds' = rounds + 1

\* The operation stopped for want of answers: Ask for all it wanted.
AdvanceAsks ==
  /\ Round /\ ~Refuses(answers) /\ Misses # {}
  /\ missing' = Misses /\ wanted' = Misses
  /\ step' = "Ask"
  /\ UNCHANGED <<world, answers, finished, replies, plans>>

\* Mutant: the handle is not marked as spent.
AdvanceReady_Unmarked ==
  /\ Round /\ ~Refuses(answers) /\ ~Blocked
  /\ missing' = {} /\ step' = "Ready" /\ plans' = plans + 1
  /\ UNCHANGED <<world, answers, finished, driver>>

AdvanceReady ==
  /\ Round /\ ~Refuses(answers) /\ ~Blocked
  /\ missing' = {} /\ finished' = TRUE
  /\ step' = "Ready" /\ plans' = plans + 1
  /\ UNCHANGED <<world, answers, driver>>

\* The operation's own error, a refused write included, is returned.
AdvanceFails ==
  /\ Round /\ (Refuses(answers) \/ WriteRefused)
  /\ missing' = {} /\ step' = "Failed"
  /\ UNCHANGED <<world, answers, finished, driver, plans>>

-----------------------------------------------------------------------------
(***************************************************************************)
(* The driver and the node                                                 *)
(***************************************************************************)
NodeMoves ==
  /\ moment < MaxMoment /\ moment' = moment + 1
  /\ UNCHANGED <<sent, lost, handle, missing, step, driver, plans>>

Fetch ==
  /\ \E q \in wanted :
       /\ wanted' = wanted \ {q}
       /\ replies' = replies \cup {[question |-> q, reply |-> ReplyTo(q, moment)]}
       /\ sent' = IF q \in Writes THEN sent + 1 ELSE sent
  /\ UNCHANGED <<moment, lost, handle, missing, step, plans>>

\* Answers::record.
Record ==
  /\ \E r \in replies :
       /\ answers' = Extended(r.question, r.reply)
       /\ replies' = replies \ {r}
  /\ UNCHANGED <<world, missing, rounds, finished, step, wanted, plans>>

\* A fetch fails, or its reply is beyond MAX_REPLY_BYTES and is refused.
Lose ==
  /\ lost < MaxLost /\ lost' = lost + 1
  /\ \E r \in replies : replies' = replies \ {r}
  /\ UNCHANGED <<moment, sent, handle, missing, step, wanted, plans>>

DriveInit ==
  /\ moment = 0 /\ sent = 0 /\ lost = 0
  /\ answers = [q \in {} |-> 0] /\ missing = {} /\ rounds = 0 /\ finished = FALSE
  /\ step = "none" /\ wanted = {} /\ replies = {} /\ plans = 0

Advance == AdvanceSpent \/ AdvanceCapped \/ AdvanceAsks \/ AdvanceReady \/ AdvanceFails

DriveNext == NodeMoves \/ Advance \/ Fetch \/ Record \/ Lose

DriveSpec == DriveInit /\ [][DriveNext]_driveVars

\* A driver keeps fetching, recording and advancing.
DriveFairSpec == DriveSpec /\ WF_driveVars(Advance \/ Fetch \/ Record)

-----------------------------------------------------------------------------
(***************************************************************************)
(* Properties                                                              *)
(***************************************************************************)
\* Every variable holds what the code's types allow.
DriveTypeOK ==
  /\ moment \in 0..MaxMoment /\ lost \in 0..MaxLost /\ rounds \in 0..MAX_ROUNDS
  /\ Known \subseteq Question /\ finished \in BOOLEAN
  /\ missing \subseteq Question /\ wanted \subseteq missing
  /\ step \in {"none", "Ask", "Ready", "Failed", "Stalled", "AnswersSpent"}

\* Driving an operation changes nothing in the world, whatever it asks for.
DrivingNeverWrites == sent = 0

\* A handle yields one plan: nothing is planned against the view an earlier
\* plan left behind.
OnePlanPerHandle == plans \leq 1

\* No round unlearns or revises an answer: what one round read is what every
\* later round reads, failed rounds included.
AnswersOnlyGrow ==
  [][\A q \in Known : q \in DOMAIN answers' /\ answers'[q] = answers[q]]_driveVars

\* Driving settles: the operation gets its plan or its own error, although the
\* node moves and replies are lost.
Converges == <>(step \in {"Ready", "Failed"})
=============================================================================
