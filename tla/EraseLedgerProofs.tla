-------------------------- MODULE EraseLedgerProofs --------------------------
(***************************************************************************)
(* What the erase ledger guarantees for every set of devices, generations  *)
(* and attempts, and every deadline.                                       *)
(*                                                                         *)
(* TypeOK is not inductive alone: accept_delivery would turn the absent    *)
(* row of an unknown DeviceRef into an expired one, so the invariant       *)
(* EraseInv says that a pull that came as far, and an ACK that passed the  *)
(* endpoint's check, name an operation that exists.                        *)
(***************************************************************************)
EXTENDS EraseLedger, TLAPS

\* Calls and ACKs under way name operations that exist
CallInv ==
    /\ \A c \in calls :
          /\ c.step \in {"look", "rearm", "accept"} => c.ref # None
          /\ c.ref # None => c.attempt # None
          /\ c.step \in {"rearm", "accept"} => op[c.ref].state # "absent"
    /\ \A m \in acks : op[m.ref].state # "absent"

\* An operation was made of a revocation, and names no attempt before that
OperationInv ==
    \A r \in Refs :
        /\ op[r].state = "absent" => op[r].attempt = None
        /\ op[r].state # "absent" => revokedAt[r] # 0

\* Every dated revocation is in the stream, and ended the generation it names
RevocationInv ==
    /\ \A r \in Refs : revokedAt[r] # 0 =>
          \E i \in DOMAIN stream :
             stream[i].key = r[1] /\ stream[i].gen = r[2] /\ stream[i].type = "revoked"
    /\ \A i, j \in DOMAIN stream :
          /\ stream[i].key = stream[j].key
          /\ stream[i].gen = stream[j].gen
          /\ stream[i].type = "revoked"
          /\ stream[j].type = "activated"
          => j < i

EraseInv ==
    /\ TypeOK
    /\ CallInv
    /\ OperationInv
    /\ RevocationInv
    /\ OneAckSettles

\* What a pass or a pull may do to the operation of r
Moves(r) ==
    \/ op'[r] = op[r]
    \/ op[r].state = "absent" /\ revokedAt[r] # 0 /\ op'[r].state = "accepted"
    \/ op[r].state \in Open \cup {"expired"} /\ op'[r].state \in Open \cup {"expired"}

\* Neither the stream nor the evidence is touched by what a call does
CallEffect ==
    /\ UNCHANGED <<clock, claimVars, evidence, acks>>
    /\ op' \in [Refs -> Operation]
    /\ \A r \in Refs : Moves(r)
    /\ calls' \subseteq Call
    /\ handed' \subseteq Refs \X Attempts

------------------------------------------------------------------------------

\* The tables are empty before the first command
LEMMA InitEstablishesInv ==
    ASSUME EraseAssumption, Init
    PROVE  EraseInv
<1>1. TypeOK
  BY DEF Init, TypeOK, Operation, NoOperation
<1>2. OneAckSettles
  BY DEF Init, OneAckSettles, NoOperation
<1>3. CallInv /\ OperationInv
  BY DEF Init, CallInv, OperationInv, NoOperation
<1>4. RevocationInv
  BY DEF Init, RevocationInv
<1>5. QED
  BY <1>1, <1>2, <1>3, <1>4 DEF EraseInv

\* A call that goes on is again a call
LEMMA GoneOn ==
    ASSUME TypeOK, NEW c \in calls, NEW step \in Steps, NEW now \in Nat, GoOn(c, step, now)
    PROVE  /\ calls' \subseteq Call
           /\ \A d \in calls' : d \in calls \/ (d.step = step /\ d.ref = c.ref
                                                /\ d.attempt = c.attempt)
BY DEF GoOn, TypeOK, Call

\* Each step of a pass or a pull has the effect of a call and keeps its promises
LEMMA StepEffect ==
    ASSUME EraseAssumption, EraseInv, NEW c \in calls, Step(c)
    PROVE  /\ CallEffect
           /\ \A d \in calls' : d \in calls \/
                 (/\ d.ref = c.ref /\ d.attempt = c.attempt
                  /\ d.step \in {"look", "rearm", "accept"} => c.ref # None
                  /\ d.step \in {"rearm", "accept"} => op[c.ref].state # "absent")
<1> USE DEF EraseInv
<1>0. /\ c \in Call
      /\ op \in [Refs -> Operation]
      /\ handed \subseteq Refs \X Attempts
      /\ calls \subseteq Call
      /\ clock \in Nat
      /\ c.now \in Nat
  BY DEF TypeOK, Call
<1>1. CASE Materialize(c)
  <2>1. \A r \in Refs : NewOperation(r) \in Operation /\ NewOperation(r).state = "accepted"
    <3> SUFFICES ASSUME NEW r \in Refs
                 PROVE  NewOperation(r) \in Operation /\ NewOperation(r).state = "accepted"
      OBVIOUS
    <3>1. revokedAt[r] + OperationTTL \in Nat
      BY DEF TypeOK, EraseAssumption
    <3>2. QED
      BY <3>1 DEF NewOperation, Operation, Open
  <2>2. CASE Overtaken
    BY <1>0, <1>1, <2>2 DEF Materialize, End, CallEffect, Moves
  <2>3. CASE ~Overtaken
    <3>1. GoOn(c, "mark", c.now)
      BY <1>1, <2>3 DEF Materialize
    <3>2. op' = [r \in Refs |-> IF r \in Missing THEN NewOperation(r) ELSE op[r]]
      BY <1>1, <2>3 DEF Materialize
    <3>3. op' \in [Refs -> Operation]
      BY <1>0, <2>1, <3>2
    <3>4. \A r \in Refs : Moves(r)
      BY <2>1, <3>2 DEF Moves, Missing
    <3>5. CallEffect
      BY <1>0, <1>1, <3>1, <3>3, <3>4, GoneOn DEF Materialize, CallEffect, Steps
    <3>6. QED
      BY <1>0, <3>1, <3>5, GoneOn DEF Steps
  <2>4. QED
    BY <2>2, <2>3
<1>2. CASE Mark(c)
  <2>1. op' \in [Refs -> Operation] /\ \A r \in Refs : Moves(r)
    BY <1>0, <1>2 DEF Mark, Moves, Operation, Open
  <2>2. CallEffect
    BY <1>0, <1>2, <2>1, GoneOn DEF Mark, CallEffect, Steps
  <2>3. QED
    BY <1>0, <1>2, <2>2, GoneOn DEF Mark, Steps
<1>3. CASE Expire(c)
  <2>1. op' \in [Refs -> Operation] /\ \A r \in Refs : Moves(r)
    BY <1>0, <1>3 DEF Expire, Expired, Moves, Operation, Open
  <2>2. CASE c.ref = None
    BY <1>0, <1>3, <2>1, <2>2 DEF Expire, End, CallEffect
  <2>3. CASE c.ref # None
    <3>1. GoOn(c, "look", c.now)
      BY <1>3, <2>3 DEF Expire
    <3>2. CallEffect
      BY <1>0, <1>3, <2>1, <3>1, GoneOn DEF Expire, CallEffect, Steps
    <3>3. QED
      BY <1>0, <2>3, <3>1, <3>2, GoneOn DEF Steps
  <2>4. QED
    BY <2>2, <2>3
<1>4. CASE Look(c)
  <2>1. c.ref \in Refs
    BY <1>0, <1>4 DEF Look, CallInv, Call
  <2>2. op[c.ref] \in Operation
    BY <1>0, <2>1
  <2>3. \/ End(c)
        \/ /\ op[c.ref].state # "absent"
           /\ \E step \in {"rearm", "accept"} : GoOn(c, step, clock)
    BY <1>4, <2>2 DEF Look, Operation, Settled
  <2>4. UNCHANGED <<clock, claimVars, op, evidence, acks, handed>>
    BY <1>4 DEF Look
  <2>5. CASE End(c)
    BY <1>0, <2>4, <2>5 DEF End, CallEffect, Moves
  <2>6. CASE /\ op[c.ref].state # "absent"
             /\ \E step \in {"rearm", "accept"} : GoOn(c, step, clock)
    <3>1. PICK step \in {"rearm", "accept"} : GoOn(c, step, clock)
      BY <2>6
    <3>2. step \in Steps
      BY DEF Steps
    <3>3. CallEffect
      BY <1>0, <2>4, <3>1, <3>2, GoneOn DEF CallEffect, Moves
    <3>4. QED
      BY <1>0, <2>1, <2>6, <3>1, <3>2, <3>3, GoneOn, EraseAssumption DEF EraseAssumption
  <2>7. QED
    BY <2>3, <2>5, <2>6
<1>5. CASE Rearm(c)
  <2>1. c.ref \in Refs /\ op[c.ref].state # "absent"
    BY <1>0, <1>5 DEF Rearm, CallInv, Call
  <2>2. op[c.ref] \in Operation
    BY <1>0, <2>1
  <2>3. UNCHANGED <<clock, claimVars, evidence, acks, handed>>
    BY <1>5 DEF Rearm
  <2>4. CASE End(c) /\ UNCHANGED op
    BY <1>0, <2>3, <2>4 DEF End, CallEffect, Moves
  <2>5. CASE GoOn(c, "accept", clock) /\ UNCHANGED op
    <3>1. CallEffect
      BY <1>0, <2>3, <2>5, GoneOn DEF CallEffect, Moves, Steps
    <3>2. QED
      BY <1>0, <2>1, <2>5, <3>1, GoneOn, EraseAssumption DEF EraseAssumption, Steps
  <2>6. CASE /\ op[c.ref].state \in Open \cup {"expired"}
             /\ op' = [op EXCEPT ![c.ref] =
                   [state |-> "pending", deadline |-> c.now + OperationTTL, attempt |-> None]]
             /\ GoOn(c, "accept", clock)
    <3>1. op' \in [Refs -> Operation]
      BY <1>0, <2>1, <2>6 DEF Operation, Open, EraseAssumption
    <3>2. \A r \in Refs : Moves(r)
      BY <1>0, <2>1, <2>6 DEF Moves, Open
    <3>3. CallEffect
      BY <1>0, <2>3, <2>6, <3>1, <3>2, GoneOn DEF CallEffect, Steps
    <3>4. QED
      BY <1>0, <2>1, <2>6, <3>3, GoneOn, EraseAssumption DEF EraseAssumption, Steps
  <2>7. QED
    BY <1>5, <2>4, <2>5, <2>6 DEF Rearm
<1>6. CASE Accept(c)
  <2>2. c.ref \in Refs /\ op[c.ref].state # "absent" /\ c.attempt \in Attempts
    BY <1>0, <1>6 DEF Accept, CallInv, Call
  <2>3. op[c.ref] \in Operation
    BY <1>0, <2>2
  <2>4. UNCHANGED <<clock, claimVars, evidence, acks>> /\ End(c)
    BY <1>6 DEF Accept
  <2>5. op' \in [Refs -> Operation] /\ \A r \in Refs : Moves(r)
    <3>1. CASE op' = op
      BY <1>0, <3>1 DEF Moves
    <3>2. CASE op[c.ref].state \notin Settled /\ op' = [op EXCEPT ![c.ref] = Expired(op[c.ref])]
      BY <1>0, <2>2, <2>3, <3>2 DEF Moves, Expired, Operation, Open, Settled
    <3>3. CASE /\ op[c.ref].state \in Open
               /\ op' = [op EXCEPT ![c.ref].attempt = c.attempt,
                                   ![c.ref].state = "delivery-accepted"]
      <4>1. op' = [op EXCEPT ![c.ref] = [op[c.ref] EXCEPT !.attempt = c.attempt,
                                                       !.state = "delivery-accepted"]]
        BY <3>3
      <4>2. [op[c.ref] EXCEPT !.attempt = c.attempt, !.state = "delivery-accepted"]
               \in Operation
        BY <2>2, <2>3 DEF Operation, Open
      <4>3. QED
        BY <1>0, <2>2, <2>3, <3>3, <4>1, <4>2 DEF Moves, Operation, Open
    <3>4. QED
      BY <1>6, <3>1, <3>2, <3>3 DEF Accept
  <2>6. handed' \subseteq Refs \X Attempts
    BY <1>0, <1>6, <2>2 DEF Accept
  <2>7. QED
    BY <1>0, <2>4, <2>5, <2>6 DEF End, CallEffect
<1>7. QED
  BY <1>1, <1>2, <1>3, <1>4, <1>5, <1>6 DEF Step


------------------------------------------------------------------------------

\* Whatever a call does leaves the invariant standing
LEMMA StepKeepsInv ==
    ASSUME EraseAssumption, EraseInv, NEW c \in calls, Step(c)
    PROVE  EraseInv'
<1>1. CallEffect
  BY StepEffect
<1>2. TypeOK'
  BY <1>1 DEF EraseInv, CallEffect, TypeOK, claimVars
<1>3. /\ stream' = stream /\ revokedAt' = revokedAt
      /\ evidence' = evidence /\ acks' = acks
      /\ \A r \in Refs : Moves(r)
  BY <1>1 DEF CallEffect, claimVars
<1>4. \A r \in Refs : op[r].state # "absent" => op'[r].state # "absent"
  BY <1>3 DEF Moves, Open
<1>5. OperationInv'
  BY <1>3 DEF EraseInv, OperationInv, Moves, Open
<1>6. RevocationInv'
  BY <1>3 DEF EraseInv, RevocationInv
<1>7. \A r \in Refs : \A state \in Settled : op[r].state = state <=> op'[r].state = state
  BY <1>3 DEF Moves, Open, Settled
<1>8. OneAckSettles'
  BY <1>3, <1>7 DEF EraseInv, OneAckSettles, Settled
<1>9. CallInv'
  <2>1. \A m \in acks' : op'[m.ref].state # "absent"
    BY <1>3, <1>4 DEF EraseInv, CallInv, TypeOK, Ack
  <2>2. ASSUME NEW d \in calls'
        PROVE  /\ d.step \in {"look", "rearm", "accept"} => d.ref # None
               /\ d.ref # None => d.attempt # None
               /\ d.step \in {"rearm", "accept"} => op'[d.ref].state # "absent"
    <3>1. d \in Call
      BY <1>2 DEF TypeOK
    <3>2. \/ d \in calls
          \/ /\ d.ref = c.ref /\ d.attempt = c.attempt
             /\ d.step \in {"look", "rearm", "accept"} => c.ref # None
             /\ d.step \in {"rearm", "accept"} => op[c.ref].state # "absent"
      BY StepEffect
    <3>3. /\ d.step \in {"look", "rearm", "accept"} => d.ref # None
          /\ d.ref # None => d.attempt # None
          /\ d.step \in {"rearm", "accept"} => op[d.ref].state # "absent"
      BY <3>2 DEF EraseInv, CallInv
    <3>4. QED
      BY <1>4, <3>1, <3>3 DEF Call
  <2>3. QED
    BY <2>1, <2>2 DEF CallInv
<1>10. QED
  BY <1>2, <1>5, <1>6, <1>8, <1>9 DEF EraseInv

\* A new ACK settles at most one operation, and only one that was open
LEMMA ApplyAckKeepsInv ==
    ASSUME EraseAssumption, EraseInv, NEW m \in acks, ApplyAck(m)
    PROVE  /\ EraseInv'
           /\ \A r \in Refs : op[r].state \in Settled => op'[r] = op[r]
<1> USE DEF EraseInv
<1>1. /\ m \in Ack /\ m.ref \in Refs
      /\ op \in [Refs -> Operation]
      /\ op[m.ref] \in Operation
      /\ op[m.ref].state # "absent"
  BY DEF TypeOK, CallInv, Ack
<1>2. /\ stream' = stream /\ revokedAt' = revokedAt /\ clock' = clock
      /\ calls' = calls /\ handed' = handed /\ acks' \subseteq acks
  BY DEF ApplyAck, claimVars
<1>3. CASE UNCHANGED <<op, evidence>>
  <2>1. TypeOK'
    BY <1>2, <1>3 DEF TypeOK
  <2>2. CallInv' /\ OperationInv' /\ RevocationInv' /\ OneAckSettles'
    BY <1>2, <1>3 DEF CallInv, OperationInv, RevocationInv, OneAckSettles
  <2>3. QED
    BY <1>3, <2>1, <2>2
<1>4. ASSUME KeepAck(m)
      PROVE  /\ EraseInv'
             /\ \A r \in Refs : op[r].state \in Settled => op'[r] = op[r]
  <2> DEFINE o == op[m.ref]
             applied == o.state \in Open /\ o.deadline > clock
             new == [ref |-> m.ref, seq |-> m.seq, result |-> m.result, applied |-> applied]
  <2>1. /\ \A e \in evidence : ~(e.ref = m.ref /\ e.seq = m.seq)
        /\ evidence' = evidence \cup {new}
    BY <1>4 DEF KeepAck, Answered
  <2>2. new \in Evidence
    BY <1>1 DEF Ack, Evidence
  <2>3. \/ applied /\ op' = [op EXCEPT ![m.ref] = AfterAck(o, m.result)]
        \/ ~applied /\ op' = op
        \/ /\ ~applied /\ o.state \notin Settled
           /\ op' = [op EXCEPT ![m.ref] = Expired(o)]
    BY <1>4 DEF KeepAck
  <2>4. /\ AfterAck(o, m.result) \in Operation
        /\ Expired(o) \in Operation
        /\ Expired(o).state = "expired"
        /\ m.result \in Results
        /\ m.result = "erased" => AfterAck(o, m.result).state = "acknowledged"
        /\ m.result = "failed" => AfterAck(o, m.result).state = "permanent-failure"
    BY <1>1 DEF AfterAck, Expired, Operation, Settled, Ack, Results
  <2>5. op' \in [Refs -> Operation]
    BY <1>1, <2>3, <2>4
  <2>6. \A r \in Refs : r # m.ref => op'[r] = op[r]
    BY <1>1, <2>3
  <2>7. /\ applied => /\ o.state \notin Settled
                      /\ m.result = "erased" => op'[m.ref].state = "acknowledged"
                      /\ m.result = "failed" => op'[m.ref].state = "permanent-failure"
        /\ ~applied => \/ op'[m.ref] = o
                       \/ o.state \notin Settled /\ op'[m.ref].state = "expired"
    BY <1>1, <2>3, <2>4 DEF Open, Settled
  <2>8. \A r \in Refs : op[r].state # "absent" => op'[r].state # "absent"
    BY <1>1, <2>4, <2>6, <2>7 DEF Results
  <2>9. \A r \in Refs : op[r].state = "absent" => op'[r] = op[r]
    BY <1>1, <2>6
  <2>10. TypeOK'
    BY <1>2, <2>1, <2>2, <2>5 DEF TypeOK
  <2>11. CallInv'
    BY <1>2, <2>8 DEF CallInv, TypeOK, Call, Ack
  <2>12. OperationInv'
    <3>1. \A r \in Refs : op'[r].state = "absent" => op[r].state = "absent"
      BY <2>8
    <3>2. \A r \in Refs : op[r].state = "absent" <=> op'[r].state = "absent"
      BY <2>9, <3>1
    <3>3. QED
      BY <1>2, <2>9, <3>2 DEF OperationInv
  <2>13. RevocationInv'
    BY <1>2 DEF RevocationInv
  <2>14. OneAckSettles'
    <3> SUFFICES ASSUME NEW r \in Refs
                 PROVE  /\ \A d, e \in evidence' : d.ref = r /\ e.ref = r =>
                              /\ d.seq = e.seq => d = e
                              /\ d.applied /\ e.applied => d = e
                        /\ op'[r].state = "acknowledged" <=>
                              \E e \in evidence' : e.ref = r /\ e.applied /\ e.result = "erased"
                        /\ op'[r].state = "permanent-failure" <=>
                              \E e \in evidence' : e.ref = r /\ e.applied /\ e.result = "failed"
      BY DEF OneAckSettles
    <3> HIDE DEF o, applied
    <3>1. new.ref = m.ref /\ new.seq = m.seq /\ new.result = m.result
      OBVIOUS
    <3>2. new.applied = applied
      BY DEF applied
    <3> HIDE DEF new
    <3>3. CASE r # m.ref
      <4>1. \A e \in evidence' : e.ref = r => e \in evidence
        BY <2>1, <3>1, <3>3
      <4>2. op'[r] = op[r]
        BY <2>6, <3>3
      <4>3. QED
        BY <2>1, <4>1, <4>2 DEF OneAckSettles
    <3>4. CASE r = m.ref /\ applied
      <4>1. \A e \in evidence : e.ref = r => ~e.applied
        <5>1. \A e \in evidence : e.result \in {"erased", "failed"}
          BY DEF TypeOK, Evidence, Results
        <5>2. o.state # "acknowledged" /\ o.state # "permanent-failure"
          BY <2>7, <3>4 DEF Settled
        <5>3. op[r].state = o.state
          BY <3>4 DEF o
        <5>4. QED
          BY <5>1, <5>2, <5>3 DEF OneAckSettles
      <4>2. \A e \in evidence : e.ref = r => e.seq # new.seq
        BY <2>1, <3>1, <3>4
      <4>3. \A d, e \in evidence' : d.ref = r /\ e.ref = r =>
               /\ d.seq = e.seq => d = e
               /\ d.applied /\ e.applied => d = e
        BY <2>1, <4>1, <4>2 DEF OneAckSettles
      <4>4. new.applied /\ new.ref = r /\ new \in evidence'
        BY <2>1, <3>1, <3>2, <3>4
      <4>5. CASE m.result = "erased"
        <5>1. op'[r].state = "acknowledged"
          BY <2>7, <3>4, <4>5
        <5>2. \A e \in evidence' : e.ref = r /\ e.applied => e.result = "erased"
          BY <2>1, <3>1, <4>1, <4>5
        <5>3. QED
          BY <3>1, <4>3, <4>4, <4>5, <5>1, <5>2
      <4>6. CASE m.result = "failed"
        <5>1. op'[r].state = "permanent-failure"
          BY <2>7, <3>4, <4>6
        <5>2. \A e \in evidence' : e.ref = r /\ e.applied => e.result = "failed"
          BY <2>1, <3>1, <4>1, <4>6
        <5>3. QED
          BY <3>1, <4>3, <4>4, <4>6, <5>1, <5>2
      <4>7. QED
        BY <2>4, <4>5, <4>6 DEF Results
    <3>5. CASE r = m.ref /\ ~applied
      <4>1. ~new.applied
        BY <3>2, <3>5
      <4>2. \A e \in evidence : e.ref = r => e.seq # new.seq
        BY <2>1, <3>1, <3>5
      <4>3. /\ op[r].state = "acknowledged" <=> op'[r].state = "acknowledged"
            /\ op[r].state = "permanent-failure" <=> op'[r].state = "permanent-failure"
        BY <2>7, <3>5 DEF Settled, o
      <4>4. \A e \in evidence' : e.applied => e \in evidence
        BY <2>1, <4>1
      <4>5. \A d, e \in evidence' : d.ref = r /\ e.ref = r =>
               /\ d.seq = e.seq => d = e
               /\ d.applied /\ e.applied => d = e
        BY <2>1, <4>1, <4>2 DEF OneAckSettles
      <4>6. QED
        BY <2>1, <4>3, <4>4, <4>5 DEF OneAckSettles
    <3>6. QED
      BY <3>3, <3>4, <3>5
  <2>15. \A r \in Refs : op[r].state \in Settled => op'[r] = op[r]
    BY <2>6, <2>7
  <2>16. QED
    BY <2>10, <2>11, <2>12, <2>13, <2>14, <2>15
<1>5. QED
  BY <1>3, <1>4 DEF ApplyAck


\* A Claim event never revives a generation the stream has reported as revoked
LEMMA ClaimEventKeepsInv ==
    ASSUME EraseAssumption, EraseInv, NEW k \in Keys, NEW g \in Generations,
           ClaimActivated(k, g) \/ ClaimRevoked(k, g)
    PROVE  EraseInv'
<1> USE DEF EraseInv
<1>1. /\ clock' = clock /\ op' = op /\ evidence' = evidence
      /\ calls' = calls /\ acks' = acks /\ handed' = handed
  BY DEF ClaimActivated, ClaimRevoked
<1>2. /\ stream \in Seq(ClaimEvent)
      /\ \A i \in DOMAIN stream : stream[i] \in ClaimEvent
      /\ clock \in Nat \ {0}
      /\ <<k, g>> \in Refs
  BY DEF TypeOK, Refs
<1>3. ASSUME NEW type \in {"activated", "revoked"}, Claims!Extend(type, k, g)
      PROVE  \E ev \in ClaimEvent : /\ ev.type = type /\ ev.key = k /\ ev.gen = g
                                    /\ stream' = Append(stream, ev)
  <2>1. PICK r \in {1} \cup {stream[i].rev + 1 : i \in Claims!Of(k)} :
           stream' = Append(stream, [type |-> type, key |-> k, gen |-> g, rev |-> r])
    BY <1>3 DEF Claims!Extend
  <2>2. r \in Nat
    BY <1>2, <2>1 DEF Claims!Of, ClaimEvent
  <2>3. [type |-> type, key |-> k, gen |-> g, rev |-> r] \in ClaimEvent
    BY <2>2 DEF ClaimEvent
  <2>4. QED
    BY <2>1, <2>3
<1>4. ASSUME NEW ev \in ClaimEvent, stream' = Append(stream, ev)
      PROVE  /\ stream' \in Seq(ClaimEvent)
             /\ DOMAIN stream' = DOMAIN stream \cup {Len(stream) + 1}
             /\ \A i \in DOMAIN stream : stream'[i] = stream[i] /\ i \in Nat /\ i < Len(stream) + 1
             /\ stream'[Len(stream) + 1] = ev
             /\ Len(stream) + 1 \notin DOMAIN stream
  BY <1>2, <1>4
<1>5. CallInv' /\ OneAckSettles'
  BY <1>1 DEF CallInv, OneAckSettles
<1>6. CASE ClaimActivated(k, g)
  <2>1. Claims!Extend("activated", k, g) /\ revokedAt' = revokedAt
    BY <1>6 DEF ClaimActivated, Claims!Activate
  <2>2. PICK ev \in ClaimEvent : /\ ev.type = "activated" /\ ev.key = k /\ ev.gen = g
                                 /\ stream' = Append(stream, ev)
    BY <1>3, <2>1
  <2>3. \A i \in DOMAIN stream : stream[i].key = k => stream[i].gen # g
    BY <1>6 DEF ClaimActivated, Claims!Activate, Claims!Of
  <2>4. TypeOK'
    BY <1>1, <1>4, <2>1, <2>2 DEF TypeOK
  <2>5. OperationInv'
    BY <1>1, <2>1 DEF OperationInv
  <2>6. RevocationInv'
    BY <1>4, <2>1, <2>2, <2>3 DEF RevocationInv
  <2>7. QED
    BY <1>5, <2>4, <2>5, <2>6
<1>7. CASE ClaimRevoked(k, g)
  <2>1. /\ Claims!Extend("revoked", k, g)
        /\ revokedAt' = [revokedAt EXCEPT ![<<k, g>>] = clock]
    BY <1>7 DEF ClaimRevoked, Claims!Revoke
  <2>2. PICK ev \in ClaimEvent : /\ ev.type = "revoked" /\ ev.key = k /\ ev.gen = g
                                 /\ stream' = Append(stream, ev)
    BY <1>3, <2>1
  <2>3. TypeOK'
    BY <1>1, <1>2, <1>4, <2>1, <2>2 DEF TypeOK
  <2>4. OperationInv'
    BY <1>1, <1>2, <2>1 DEF OperationInv, TypeOK
  <2>5. \A r \in Refs : revokedAt'[r] # 0 => revokedAt[r] # 0 \/ (r[1] = k /\ r[2] = g)
    BY <1>2, <2>1 DEF TypeOK, Refs
  <2>6. RevocationInv'
    <3>1. \A r \in Refs : revokedAt'[r] # 0 =>
             \E i \in DOMAIN stream' :
                stream'[i].key = r[1] /\ stream'[i].gen = r[2] /\ stream'[i].type = "revoked"
      BY <1>4, <2>2, <2>5 DEF RevocationInv
    <3>2. \A i, j \in DOMAIN stream' :
             /\ stream'[i].key = stream'[j].key
             /\ stream'[i].gen = stream'[j].gen
             /\ stream'[i].type = "revoked"
             /\ stream'[j].type = "activated"
             => j < i
      BY <1>4, <2>2 DEF RevocationInv
    <3>3. QED
      BY <3>1, <3>2 DEF RevocationInv
  <2>7. QED
    BY <1>5, <2>3, <2>4, <2>6
<1>8. QED
  BY <1>6, <1>7

\* Every step of the ledger and of its callers keeps the invariant
LEMMA NextKeepsInv ==
    ASSUME EraseAssumption, EraseInv, [Next]_vars
    PROVE  EraseInv'
<1> USE DEF EraseInv
<1>1. ASSUME /\ stream' = stream /\ revokedAt' = revokedAt /\ op' = op
             /\ evidence' = evidence
      PROVE  OperationInv' /\ RevocationInv' /\ OneAckSettles'
  BY <1>1 DEF OperationInv, RevocationInv, OneAckSettles
<1>2. CASE Tick
  <2>1. TypeOK'
    BY <1>2 DEF Tick, TypeOK, claimVars
  <2>2. CallInv'
    BY <1>2 DEF Tick, CallInv
  <2>3. QED
    BY <1>1, <1>2, <2>1, <2>2 DEF Tick, claimVars
<1>3. ASSUME NEW r \in Refs \cup {None}, NEW a \in Attempts \cup {None}, Start(r, a),
             r # None => a # None
      PROVE  EraseInv'
  <2>1. [step |-> "materialize", ref |-> r, attempt |-> a, now |-> clock] \in Call
    BY DEF TypeOK, Call, Steps
  <2>2. TypeOK'
    BY <1>3, <2>1 DEF Start, TypeOK, claimVars
  <2>3. CallInv'
    BY <1>3 DEF Start, CallInv
  <2>4. QED
    BY <1>1, <1>3, <2>2, <2>3 DEF Start, claimVars
<1>4. CASE StartPass
  BY <1>3, <1>4 DEF StartPass
<1>5. ASSUME NEW r \in Refs, StartPull(r)
      PROVE  EraseInv'
  <2>1. PICK a \in Attempts : Start(r, a)
    BY <1>5 DEF StartPull
  <2>2. a # None
    BY EraseAssumption DEF EraseAssumption
  <2>3. QED
    BY <1>3, <2>1, <2>2
<1>6. ASSUME NEW c \in calls, Abandon(c)
      PROVE  EraseInv'
  <2>1. TypeOK'
    BY <1>6 DEF Abandon, End, TypeOK, claimVars
  <2>2. CallInv'
    BY <1>6 DEF Abandon, End, CallInv
  <2>3. QED
    BY <1>1, <1>6, <2>1, <2>2 DEF Abandon, claimVars
<1>7. ASSUME NEW r \in Refs, NEW a \in Attempts, NEW s \in AckSequences,
             NEW result \in Results, ReceiveAck(r, a, s, result)
      PROVE  EraseInv'
  <2>1. [ref |-> r, seq |-> s, result |-> result] \in Ack
    BY DEF TypeOK, Ack
  <2>2. TypeOK'
    BY <1>7, <2>1 DEF ReceiveAck, TypeOK, claimVars
  <2>3. op[r].state # "absent"
    BY <1>7, EraseAssumption DEF ReceiveAck, OperationInv, EraseAssumption
  <2>4. CallInv'
    BY <1>7, <2>3 DEF ReceiveAck, CallInv
  <2>5. QED
    BY <1>1, <1>7, <2>2, <2>4 DEF ReceiveAck, claimVars
<1>8. ASSUME NEW m \in acks, LoseAck(m)
      PROVE  EraseInv'
  <2>1. TypeOK'
    BY <1>8 DEF LoseAck, TypeOK, claimVars
  <2>2. CallInv'
    BY <1>8 DEF LoseAck, CallInv
  <2>3. QED
    BY <1>1, <1>8, <2>1, <2>2 DEF LoseAck, claimVars
<1>9. CASE UNCHANGED vars
  <2>1. TypeOK'
    BY <1>9 DEF vars, TypeOK
  <2>2. CallInv'
    BY <1>9 DEF vars, CallInv
  <2>3. QED
    BY <1>1, <1>9, <2>1, <2>2 DEF vars
<1>10. ASSUME NEW r \in Refs, ClaimActivated(r[1], r[2]) \/ ClaimRevoked(r[1], r[2])
       PROVE  EraseInv'
  <2>1. r[1] \in Keys /\ r[2] \in Generations
    BY DEF Refs
  <2>2. QED
    BY <1>10, <2>1, ClaimEventKeepsInv
<1>11. QED
  BY <1>2, <1>4, <1>5, <1>6, <1>7, <1>8, <1>9, <1>10, StepKeepsInv, ApplyAckKeepsInv DEF Next

\* Every reachable state of the ledger satisfies the inductive invariant
THEOREM EraseInvariant == Spec => []EraseInv
<1>1. Init => EraseInv
  BY EraseAssumption, InitEstablishesInv
<1>2. EraseInv /\ [Next]_vars => EraseInv'
  BY EraseAssumption, NextKeepsInv
<1>3. QED
  BY <1>1, <1>2, PTL DEF Spec

\* The ledger's rows have their types, for any number of devices and attempts
THEOREM EraseTypeOK == Spec => []TypeOK
<1>1. EraseInv => TypeOK
  BY DEF EraseInv
<1>2. QED
  BY <1>1, EraseInvariant, PTL

\* One ACK settles an operation, and one ack_sequence keeps one answer
THEOREM OneAckSettlesIt == Spec => []OneAckSettles
<1>1. EraseInv => OneAckSettles
  BY DEF EraseInv
<1>2. QED
  BY <1>1, EraseInvariant, PTL

\* No body is told to erase the generation it lives under: by the ClaimLifecycle
\* that Admission implements, a revoked generation never lives again
THEOREM EraseSparesTheLiving == Spec => []EraseNamesEndedGeneration
<1>1. EraseInv => EraseNamesEndedGeneration
  <2> SUFFICES ASSUME EraseInv, NEW r \in Refs, op[r].state # "absent"
               PROVE  /\ \E i \in Claims!Of(r[1]) :
                            stream[i].type = "revoked" /\ stream[i].gen = r[2]
                      /\ ~Claims!Lives(r[1], r[2])
    BY DEF EraseNamesEndedGeneration
  <2>1. PICK i \in DOMAIN stream :
           stream[i].key = r[1] /\ stream[i].gen = r[2] /\ stream[i].type = "revoked"
    BY DEF EraseInv, OperationInv, RevocationInv
  <2>2. DOMAIN stream \subseteq Nat
    BY DEF EraseInv, TypeOK
  <2>3. \A j \in Claims!Of(r[1]) :
           (\A l \in Claims!Of(r[1]) : l <= j) /\ stream[j].type = "activated"
           => stream[j].gen # r[2]
    <3> SUFFICES ASSUME NEW j \in Claims!Of(r[1]), \A l \in Claims!Of(r[1]) : l <= j,
                        stream[j].type = "activated", stream[j].gen = r[2]
                 PROVE  FALSE
      OBVIOUS
    <3>1. j \in DOMAIN stream /\ stream[j].key = r[1]
      BY DEF Claims!Of
    <3>2. j < i
      BY <2>1, <3>1 DEF EraseInv, RevocationInv
    <3>3. i <= j
      BY <2>1 DEF Claims!Of
    <3>4. QED
      BY <2>1, <2>2, <3>1, <3>2, <3>3
  <2>4. QED
    BY <2>1, <2>3 DEF Claims!Of, Claims!Lives
<1>2. QED
  BY <1>1, EraseInvariant, PTL

\* What settled stays settled, whichever pass, pull or ACK comes late
THEOREM SettledErasesAreFinal == Spec => SettledEraseIsFinal
<1>1. EraseInv /\ [Next]_vars =>
         [\A r \in Refs : op[r].state \in Settled => op'[r] = op[r]]_vars
  <2> SUFFICES ASSUME EraseInv, Next, NEW r \in Refs, op[r].state \in Settled
               PROVE  op'[r] = op[r]
    BY Zenon
  <2>1. ASSUME NEW c \in calls, Step(c)
        PROVE  op'[r] = op[r]
    <3>1. Moves(r)
      BY <2>1, EraseAssumption, StepEffect DEF CallEffect
    <3>2. QED
      BY <3>1 DEF Moves, Settled, Open
  <2>2. ASSUME NEW m \in acks, ApplyAck(m)
        PROVE  op'[r] = op[r]
    BY <2>2, EraseAssumption, ApplyAckKeepsInv
  <2>3. ASSUME NEW m \in acks, LoseAck(m)
        PROVE  op'[r] = op[r]
    BY <2>3 DEF LoseAck
  <2>4. ASSUME NEW c \in calls, Abandon(c)
        PROVE  op'[r] = op[r]
    BY <2>4 DEF Abandon
  <2>5. QED
    BY <2>1, <2>2, <2>3, <2>4
       DEF Next, Tick, ClaimActivated, ClaimRevoked, StartPass, StartPull, Start, ReceiveAck
<1>2. QED
  BY <1>1, EraseInvariant, PTL DEF Spec, SettledEraseIsFinal

==============================================================================
