----------------------------- MODULE EraseLedger -----------------------------
(***************************************************************************)
(* The device-local erase ledger (hub/adapters/persistence/device_erase.py *)
(* and its use cases in hub/device_control): every revocation the Claim    *)
(* event stream reports becomes one instruction to the body that lost its  *)
(* Claim, delivered when the body asks for it and settled by its signed    *)
(* ACK.                                                                    *)
(*                                                                         *)
(* The ledger takes its lock for one transaction at a time.  A reconcile   *)
(* pass is three of them with one reading of the clock, and a pull runs a  *)
(* pass, a lookup outside the lock and then up to two transactions more.   *)
(* Where the clock is read on the way to the FIFO lock, the order of the   *)
(* readings is the order of the transactions, so the reading is atomic     *)
(* with its transaction here.                                              *)
(*                                                                         *)
(* Admission is present as ClaimLifecycle, which AdmissionProofs shows it  *)
(* implements: the Claim row of an instance is its last event.             *)
(***************************************************************************)
EXTENDS Integers, Sequences, FiniteSets

CONSTANTS
    Keys,           \* device instances
    Generations,    \* claim generations; with Keys, the DeviceRefs
    Attempts,       \* delivery attempt ids, each a digest of operation and nonce
    AckSequences,   \* ack_sequence values a device signs
    None,
    OperationTTL,
    MaxTime,        \* bound of the clock
    MaxCalls        \* bound of the passes and pulls, and of the ACKs, in flight

Refs == Keys \X Generations

ASSUME EraseAssumption ==
    /\ Generations \subseteq Nat \ {0}
    /\ None \notin Refs \cup Attempts
    /\ OperationTTL \in Nat \ {0}
    /\ MaxTime \in Nat
    /\ MaxCalls \in Nat

VARIABLES
    clock,
    stream,     \* admission_claim_event_stream
    revokedAt,  \* the time its revocation of a DeviceRef carries, 0 without one
    op,         \* hub_device_erase_operations, one of each DeviceRef
    evidence,   \* hub_device_erase_ack_evidence
    calls,      \* reconcile passes and pulls between two of their transactions
    acks,       \* ACKs between the endpoint's check and apply_ack
    handed      \* the deliveries answered: DeviceRef and attempt id

vars == <<clock, stream, revokedAt, op, evidence, calls, acks, handed>>

claimVars == <<stream, revokedAt>>

Claims == INSTANCE ClaimLifecycle WITH issued <- Refs

------------------------------------------------------------------------------
(* States and records. *)

Open == {"accepted", "pending", "delivery-accepted"}

Settled == {"acknowledged", "permanent-failure"}

Operation ==
    [state : Open \cup Settled \cup {"absent", "expired"},
     deadline : Nat,
     attempt : Attempts \cup {None}]

NoOperation == [state |-> "absent", deadline |-> 0, attempt |-> None]

Steps == {"materialize", "mark", "expire", "look", "rearm", "accept"}

\* A pull carries its DeviceRef and attempt; a pass of the periodic worker or of
\* a status read carries None.  now is the last reading of the clock.
Call ==
    [step : Steps, ref : Refs \cup {None}, attempt : Attempts \cup {None}, now : Nat]

Results == {"erased", "failed"}

Ack == [ref : Refs, seq : AckSequences, result : Results]

Evidence == [ref : Refs, seq : AckSequences, result : Results, applied : BOOLEAN]

ClaimEvent == [type : {"activated", "revoked"}, key : Keys, gen : Generations, rev : Nat]

Init ==
    /\ clock = 1
    /\ stream = <<>>
    /\ revokedAt = [r \in Refs |-> 0]
    /\ op = [r \in Refs |-> NoOperation]
    /\ evidence = {}
    /\ calls = {}
    /\ acks = {}
    /\ handed = {}

------------------------------------------------------------------------------
(* Admission, as its stream shows it. *)

ClaimActivated(k, g) ==
    /\ Claims!Activate(k, g)
    /\ UNCHANGED <<clock, revokedAt, op, evidence, calls, acks, handed>>

ClaimRevoked(k, g) ==
    /\ Claims!Revoke(k, g)
    /\ revokedAt' = [revokedAt EXCEPT ![<<k, g>>] = clock]
    /\ UNCHANGED <<clock, op, evidence, calls, acks, handed>>

\* The DeviceRef the Claim row of its instance names: that of the last event
RowNames(r) ==
    \E i \in Claims!Of(r[1]) :
        /\ \A j \in Claims!Of(r[1]) : j <= i
        /\ stream[i].gen = r[2]

------------------------------------------------------------------------------
(* Reconcile passes. *)

Start(r, a) ==
    /\ Cardinality(calls) < MaxCalls
    /\ calls' = calls \cup
          {[step |-> "materialize", ref |-> r, attempt |-> a, now |-> clock]}
    /\ UNCHANGED <<clock, claimVars, op, evidence, acks, handed>>

\* ReconcileDeviceEraseOperations.execute, for the worker or a status read
StartPass == Start(None, None)

\* The pull endpoint, which runs a pass of its own first
StartPull(r) == \E a \in Attempts : Start(r, a)

End(c) == calls' = calls \ {c}

GoOn(c, step, now) ==
    calls' = (calls \ {c}) \cup {[c EXCEPT !.step = step, !.now = now]}

\* Mutant: the type of the event is not looked at
MissingOfAnyEvent ==
    {r \in Refs : op[r].state = "absent" /\ \E i \in Claims!Of(r[1]) : stream[i].gen = r[2]}

\* Revocations that have no operation yet
Missing == {r \in Refs : revokedAt[r] # 0 /\ op[r].state = "absent"}

\* A missing revocation whose instance lives under another generation by now
Overtaken == \E r \in Missing : ~RowNames(r)

NewOperation(r) ==
    [state |-> "accepted", deadline |-> revokedAt[r] + OperationTTL, attempt |-> None]

\* materialize_claim_events: one overtaken revocation refuses the whole pass,
\* and the exception ends the call
Materialize(c) ==
    /\ c.step = "materialize"
    /\ IF Overtaken
       THEN End(c) /\ UNCHANGED op
       ELSE /\ op' = [r \in Refs |-> IF r \in Missing THEN NewOperation(r) ELSE op[r]]
            /\ GoOn(c, "mark", c.now)
    /\ UNCHANGED <<clock, claimVars, evidence, acks, handed>>

\* mark_accepted_pending
Mark(c) ==
    /\ c.step = "mark"
    /\ op' = [r \in Refs |->
                 IF op[r].state = "accepted" /\ op[r].deadline > c.now
                 THEN [op[r] EXCEPT !.state = "pending"]
                 ELSE op[r]]
    /\ GoOn(c, "expire", c.now)
    /\ UNCHANGED <<clock, claimVars, evidence, acks, handed>>

Expired(o) == [o EXCEPT !.state = "expired"]

\* Mutant: what is past its deadline is expired, settled or not
ExpirePast(c) ==
    /\ c.step = "expire"
    /\ op' = [r \in Refs |->
                 IF op[r].state # "absent" /\ op[r].deadline <= c.now
                 THEN Expired(op[r])
                 ELSE op[r]]
    /\ IF c.ref = None THEN End(c) ELSE GoOn(c, "look", c.now)
    /\ UNCHANGED <<clock, claimVars, evidence, acks, handed>>

\* expire_due; a pull goes on to look its operation up
Expire(c) ==
    /\ c.step = "expire"
    /\ op' = [r \in Refs |->
                 IF op[r].state \in Open /\ op[r].deadline <= c.now
                 THEN Expired(op[r])
                 ELSE op[r]]
    /\ IF c.ref = None THEN End(c) ELSE GoOn(c, "look", c.now)
    /\ UNCHANGED <<clock, claimVars, evidence, acks, handed>>

------------------------------------------------------------------------------
(* Pulls. *)

\* Mutant: a lapsed operation is as terminal as a settled one
LookOnce(c) ==
    /\ c.step = "look"
    /\ IF op[c.ref].state \in Open
       THEN GoOn(c, "accept", clock)
       ELSE End(c)
    /\ UNCHANGED <<clock, claimVars, op, evidence, acks, handed>>

\* PullDeviceEraseOperation.execute up to its first write: get_for_device
Look(c) ==
    /\ c.step = "look"
    /\ CASE op[c.ref].state \in Settled \cup {"absent"} -> End(c)
         [] op[c.ref].state = "expired" -> GoOn(c, "rearm", clock)
         [] OTHER -> GoOn(c, IF op[c.ref].deadline <= clock THEN "rearm" ELSE "accept", clock)
    /\ UNCHANGED <<clock, claimVars, op, evidence, acks, handed>>

\* rearm_lapsed
Rearm(c) ==
    LET o == op[c.ref]
    IN  /\ c.step = "rearm"
        /\ \/ o.state \in Settled /\ End(c) /\ UNCHANGED op
           \/ /\ o.state \in Open /\ o.deadline > c.now
              /\ GoOn(c, "accept", clock)
              /\ UNCHANGED op
           \/ /\ o.state = "expired" \/ (o.state \in Open /\ o.deadline <= c.now)
              /\ op' = [op EXCEPT ![c.ref] =
                    [state |-> "pending", deadline |-> c.now + OperationTTL,
                     attempt |-> None]]
              /\ GoOn(c, "accept", clock)
        /\ UNCHANGED <<clock, claimVars, evidence, acks, handed>>

\* accept_delivery
Accept(c) ==
    LET o == op[c.ref]
    IN  /\ c.step = "accept"
        /\ End(c)
        /\ \/ /\ o.deadline <= clock
              /\ op' = IF o.state \in Settled THEN op ELSE [op EXCEPT ![c.ref] = Expired(o)]
              /\ UNCHANGED handed
           \/ /\ o.deadline > clock
              /\ o.state \notin Open
              /\ UNCHANGED <<op, handed>>
           \/ /\ o.deadline > clock
              /\ o.state \in Open
              /\ op' = [op EXCEPT ![c.ref].attempt = c.attempt,
                                  ![c.ref].state = "delivery-accepted"]
              /\ handed' = handed \cup {<<c.ref, c.attempt>>}
        /\ UNCHANGED <<clock, claimVars, evidence, acks>>

\* The caller gives up, or the process ends
Abandon(c) ==
    /\ End(c)
    /\ UNCHANGED <<clock, claimVars, op, evidence, acks, handed>>

------------------------------------------------------------------------------
(* ACKs. *)

\* The ACK endpoint's check, outside the lock: a device that was handed an
\* attempt answers it, and the ledger still names that attempt
ReceiveAck(r, a, s, result) ==
    /\ Cardinality(acks) < MaxCalls
    /\ <<r, a>> \in handed
    /\ op[r].attempt = a
    /\ acks' = acks \cup {[ref |-> r, seq |-> s, result |-> result]}
    /\ UNCHANGED <<clock, claimVars, op, evidence, calls, handed>>

\* The evidence an ACK repeats or contradicts
Answered(m) == \E e \in evidence : e.ref = m.ref /\ e.seq = m.seq

\* Mutant: the ACK's result is stored for the state
AfterAckAsSaid(o, result) == [o EXCEPT !.state = result]

AfterAck(o, result) ==
    [o EXCEPT !.state = IF result = "erased" THEN "acknowledged" ELSE "permanent-failure"]

\* Mutant: a late ACK settles an expired operation but is not counted as applied
KeepLateAck(m) ==
    LET o == op[m.ref]
        applied == o.state \in Open /\ o.deadline > clock
    IN  /\ ~Answered(m)
        /\ op' = IF o.state \in Settled
                 THEN op
                 ELSE [op EXCEPT ![m.ref] = AfterAck(o, m.result)]
        /\ evidence' = evidence \cup
              {[ref |-> m.ref, seq |-> m.seq, result |-> m.result, applied |-> applied]}

\* apply_ack of new evidence: a late ACK is kept, and expires what it missed
KeepAck(m) ==
    LET o == op[m.ref]
        applied == o.state \in Open /\ o.deadline > clock
    IN  /\ ~Answered(m)
        /\ op' = IF applied THEN [op EXCEPT ![m.ref] = AfterAck(o, m.result)]
                 ELSE IF o.state \in Settled THEN op
                 ELSE [op EXCEPT ![m.ref] = Expired(o)]
        /\ evidence' = evidence \cup
              {[ref |-> m.ref, seq |-> m.seq, result |-> m.result, applied |-> applied]}

\* apply_ack: a repeated ACK is answered again, a contradicting one refused
ApplyAck(m) ==
    /\ KeepAck(m) \/ (Answered(m) /\ UNCHANGED <<op, evidence>>)
    /\ acks' = acks \ {m}
    /\ UNCHANGED <<clock, claimVars, calls, handed>>

\* An ACK lost between its check and its transaction
LoseAck(m) ==
    /\ acks' = acks \ {m}
    /\ UNCHANGED <<clock, claimVars, op, evidence, calls, handed>>

------------------------------------------------------------------------------

Tick ==
    /\ clock < MaxTime
    /\ clock' = clock + 1
    /\ UNCHANGED <<claimVars, op, evidence, calls, acks, handed>>

Step(c) ==
    \/ Materialize(c)
    \/ Mark(c)
    \/ Expire(c)
    \/ Look(c)
    \/ Rearm(c)
    \/ Accept(c)

Next ==
    \/ Tick
    \/ \E r \in Refs : ClaimActivated(r[1], r[2]) \/ ClaimRevoked(r[1], r[2])
    \/ StartPass
    \/ \E r \in Refs : StartPull(r)
    \/ \E c \in calls : Step(c) \/ Abandon(c)
    \/ \E r \in Refs, a \in Attempts, s \in AckSequences, result \in Results :
          ReceiveAck(r, a, s, result)
    \/ \E m \in acks : ApplyAck(m) \/ LoseAck(m)

Spec == Init /\ [][Next]_vars

\* A body that keeps asking is not cut off at the same step of its pull for ever
KeepsAsking(r) ==
    /\ SF_vars(StartPull(r))
    /\ \A step \in Steps :
          SF_vars(\E c \in calls : c.ref = r /\ c.step = step /\ Step(c))

\* Calls are coroutines of one event loop behind one FIFO lock: they go on
CallsGoOn == WF_vars(\E c \in calls : Step(c))

FairSpec == Spec /\ CallsGoOn /\ \A r \in Refs : KeepsAsking(r)

\* PeriodicDeviceEraseReconcile: another pass follows, whatever became of the last
WorkerSpec ==
    /\ Spec
    /\ CallsGoOn
    /\ SF_vars(StartPass)
    /\ SF_vars(\E c \in calls : c.ref = None /\ Materialize(c))

------------------------------------------------------------------------------
(* Properties. *)

TypeOK ==
    /\ clock \in Nat \ {0}
    /\ stream \in Seq(ClaimEvent)
    /\ revokedAt \in [Refs -> Nat]
    /\ op \in [Refs -> Operation]
    /\ evidence \subseteq Evidence
    /\ calls \subseteq Call
    /\ acks \subseteq Ack
    /\ handed \subseteq Refs \X Attempts

\* A body is never told to erase the generation it lives under: an operation
\* names a revocation the stream reported (materialize_claim_events).
EraseNamesEndedGeneration ==
    \A r \in Refs : op[r].state # "absent" =>
        /\ \E i \in Claims!Of(r[1]) : stream[i].type = "revoked" /\ stream[i].gen = r[2]
        /\ ~Claims!Lives(r[1], r[2])

\* An operation is settled by exactly one of the ACKs kept of it, as that ACK
\* says, and one ack_sequence keeps one answer (apply_ack).
OneAckSettles ==
    \A r \in Refs :
        /\ \A d, e \in evidence : d.ref = r /\ e.ref = r =>
              /\ d.seq = e.seq => d = e
              /\ d.applied /\ e.applied => d = e
        /\ op[r].state = "acknowledged" <=>
              \E e \in evidence : e.ref = r /\ e.applied /\ e.result = "erased"
        /\ op[r].state = "permanent-failure" <=>
              \E e \in evidence : e.ref = r /\ e.applied /\ e.result = "failed"

\* What settled stays as it is, whatever pass, pull or ACK had read before
\* (rearm_lapsed, accept_delivery, expire_due, apply_ack).
SettledEraseIsFinal ==
    [][\A r \in Refs : op[r].state \in Settled => op'[r] = op[r]]_vars

\* A deadline ends one delivery attempt, not the instruction: a revoked body that
\* keeps asking is handed the instruction or settles it, however often it lapses,
\* unless an overtaken revocation stands in the way of every pass
\* (PullDeviceEraseOperation, rearm_lapsed).
RevokedBodyIsTold ==
    \A r \in Refs :
        revokedAt[r] # 0 ~>
            \/ \E a \in Attempts : <<r, a>> \in handed
            \/ op[r].state \in Settled
            \/ Overtaken

------------------------------------------------------------------------------
(* What the documentation says and the code does not keep. *)

\* "Re-arming is for an unfinished instruction, never a finished one": a body
\* whose signed "erased" the ledger has kept is not asked again.
AnsweredEraseIsNotRearmed ==
    \A e \in evidence : e.result = "erased" => op[e.ref].state # "pending"

\* "durable worker retries next pass": what a failed pass left undone is done by
\* a later one, so every revocation becomes an instruction.
RevocationBecomesInstruction ==
    \A r \in Refs : revokedAt[r] # 0 ~> op[r].state # "absent"

==============================================================================
