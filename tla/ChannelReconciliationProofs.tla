--------------------- MODULE ChannelReconciliationProofs ---------------------
(***************************************************************************)
(* What the Channel Provider holds for a removed body, for every number of *)
(* resolutions in flight and every bound, and what a resolution can count  *)
(* on that happened to overlap with no other, whatever others did before.  *)
(*                                                                         *)
(* An answer of the Provider is final because of two facts that every step *)
(* keeps: what it holds lies above its fence, and a delivery that ended    *)
(* left its generation at or below the fence or below what is held.        *)
(***************************************************************************)
EXTENDS ChannelReconciliation, TLAPS

\* The types the proofs need; the order of the queue is not among them
ChannelTypes ==
    /\ row \in [generation : Generations, approved : BOOLEAN, version : Versions]
    /\ binding \in Binding \cup {None}
    /\ fence \in 0..MaxGeneration
    /\ ended \subseteq Operation
    /\ serial \in 0..MaxSerial
    /\ calls \in [Calls -> Call]
    /\ refusal \in Refusal \cup {None}
    /\ DOMAIN deliveries = Generations
    /\ \A g \in Generations : deliveries[g] # None => "state" \in DOMAIN deliveries[g]
    /\ replayed \in BOOLEAN

\* No channel of generation g can come back
Barred(g) == fence >= g \/ (binding # None /\ binding.generation > g)

\* What is held lies above the fence
AboveFence == binding # None => binding.generation > fence

EndedIsBarred ==
    \A g \in Generations :
        deliveries[g] # None /\ deliveries[g].state # "pending" => Barred(g)

ChannelInv == ChannelTypes /\ AboveFence /\ EndedIsBarred

------------------------------------------------------------------------------

LEMMA InitEstablishesInv ==
    ASSUME ChannelAssumption, Init
    PROVE  ChannelInv
<1>1. 1 \in Generations /\ 1 \in Versions /\ 0 \in 0..MaxGeneration /\ 0 \in 0..MaxSerial
  BY DEF ChannelAssumption, Generations, Versions
<1>2. calls \in [Calls -> Call]
  BY DEF Init, Call
<1>3. ChannelTypes
  BY <1>1, <1>2 DEF Init, ChannelTypes
<1>4. QED
  BY <1>3 DEF Init, ChannelInv, AboveFence, EndedIsBarred

LEMMA NextOperationType ==
    ASSUME ChannelAssumption, ChannelTypes, NEW i \in Inputs
    PROVE  NextOperation(i) \in Operation
  BY DEF ChannelAssumption, ChannelTypes, NextOperation, Operation, Inputs, Holds, Binding,
         Generations, Versions

LEMMA RowKeepsInv ==
    ASSUME ChannelAssumption, ChannelInv, Revoke \/ ClaimAgain \/ NewVersion
    PROVE  ChannelInv'
<1>1. row' \in [generation : Generations, approved : BOOLEAN, version : Versions]
  <2>1. /\ row.generation \in Generations /\ row.version \in Versions
        /\ row.generation < MaxGeneration => row.generation + 1 \in Generations
        /\ row.version < MaxVersion => row.version + 1 \in Versions
        /\ 1 \in Versions
    BY DEF ChannelAssumption, ChannelInv, ChannelTypes, Generations, Versions
  <2>2. CASE Revoke
    BY <2>2 DEF ChannelInv, ChannelTypes, Revoke
  <2>3. CASE ClaimAgain
    BY <2>1, <2>3 DEF ClaimAgain
  <2>4. CASE NewVersion
    BY <2>1, <2>4 DEF ChannelInv, ChannelTypes, NewVersion
  <2>5. QED
    BY <2>2, <2>3, <2>4
<1>2. UNCHANGED <<provider, calls, refusal, revocations>>
  BY DEF Revoke, ClaimAgain, NewVersion
<1>3. QED
  BY <1>1, <1>2 DEF ChannelInv, ChannelTypes, AboveFence, EndedIsBarred, Barred, provider,
                    revocations

LEMMA ExpireKeepsInv ==
    ASSUME ChannelAssumption, ChannelInv, Expire
    PROVE  ChannelInv'
<1>1. binding' \in Binding /\ binding'.generation = binding.generation
  BY DEF ChannelInv, ChannelTypes, Expire, Binding
<1>2. binding # None /\ binding' # None
  BY <1>1 DEF ChannelAssumption, Expire
<1>3. QED
  BY <1>1, <1>2 DEF Expire, ChannelInv, ChannelTypes, AboveFence, EndedIsBarred, Barred,
                    revocations

\* The Provider carries out only what lies above its fence and above what it holds
LEMMA CarryOutKeeps ==
    ASSUME ChannelAssumption, ChannelInv, NEW op \in Operation, Permits(op), CarryOut(op)
    PROVE  /\ binding' \in Binding /\ binding' # None
           /\ fence' = fence /\ ended' \subseteq Operation /\ serial' \in 0..MaxSerial
           /\ replayed' = replayed
           /\ AboveFence'
           /\ \A g \in Generations : Barred(g) => Barred(g)'
<1>1. binding' \in Binding /\ binding'.generation = op.generation
  BY DEF ChannelAssumption, ChannelInv, ChannelTypes, CarryOut, Binding, Operation
<1>2. binding' # None
  BY <1>1 DEF ChannelAssumption
<1>3. ended' \subseteq Operation
  BY DEF ChannelInv, ChannelTypes, CarryOut, Binding
<1>4. serial' \in 0..MaxSerial
  BY DEF ChannelAssumption, ChannelInv, ChannelTypes, CarryOut
<1>5. op.generation > fence
      /\ (binding # None => binding.generation =< op.generation)
  BY DEF Permits, Holds, Operation, Generations, ChannelInv, ChannelTypes, Binding
<1>6. QED
  BY <1>1, <1>2, <1>3, <1>4, <1>5
     DEF CarryOut, AboveFence, Barred, ChannelInv, ChannelTypes, Binding, Generations,
         Operation, ChannelAssumption

\* A revocation of generation g bars it, and bars no less than before
LEMMA WithdrawKeeps ==
    ASSUME ChannelAssumption, ChannelInv, NEW g \in Generations, Withdraw(g)
    PROVE  /\ binding' \in Binding \cup {None}
           /\ fence' \in 0..MaxGeneration /\ fence' >= fence
           /\ ended' \subseteq Operation /\ serial' = serial /\ replayed' = replayed
           /\ AboveFence'
           /\ Barred(g)'
           /\ \A h \in Generations : Barred(h) => Barred(h)'
<1>1. CASE Stale(g)
  BY <1>1 DEF Withdraw, Stale, provider, AboveFence, Barred, ChannelInv, ChannelTypes,
              Generations, ChannelAssumption
<1>2. CASE ~Stale(g)
  <2>1. /\ binding' = None
        /\ fence' = IF g > fence THEN g ELSE fence
        /\ ended' \subseteq Operation
        /\ serial' = serial /\ replayed' = replayed
    BY <1>2 DEF Withdraw, ChannelInv, ChannelTypes, Binding
  <2>2. binding # None => binding.generation =< g /\ binding.generation \in Nat
    BY <1>2 DEF Stale, ChannelInv, ChannelTypes, Binding, Generations
  <2>3. QED
    BY <2>1, <2>2 DEF AboveFence, Barred, ChannelInv, ChannelTypes, Generations,
                      ChannelAssumption
<1>3. QED
  BY <1>1, <1>2

LEMMA CallTypes ==
    ASSUME ChannelTypes, NEW k \in Calls
    PROVE  /\ calls[k].phase \in {"reading", "asking", "answered"} => calls[k].inputs \in Inputs
           /\ calls[k].phase \in {"reading", "asking"} => calls[k].lone \in BOOLEAN
           /\ calls[k].phase = "asking" => calls[k].operation \in Operation
  BY DEF ChannelTypes, Call, Idle

\* A new resolution takes from the others under way that they are alone
LEMMA ResolveMoves ==
    ASSUME ChannelTypes, NEW k \in Calls, Resolve(k)
    PROVE  /\ InputsOf(row) \in Inputs
           /\ calls' \in [Calls -> Call]
<1>1. InputsOf(row) \in Inputs
  BY DEF InputsOf, Inputs, ChannelTypes
<1>2. ASSUME NEW l \in BOOLEAN
      PROVE  [phase |-> "reading", inputs |-> InputsOf(row), lone |-> l] \in Call
  BY <1>1 DEF Call
<1>3. ASSUME NEW j \in Calls, calls[j].phase \in {"reading", "asking"}
      PROVE  [calls[j] EXCEPT !.lone = FALSE] \in Call
  BY <1>3 DEF ChannelTypes, Call, Idle
<1>4. QED
  BY <1>1, <1>2, <1>3 DEF Resolve, ChannelTypes

LEMMA ResolutionsKeepInv ==
    ASSUME ChannelAssumption, ChannelInv, NEW k \in Calls,
           \/ Resolve(k) \/ ReadCurrent(k) \/ Accepted(k) \/ Refused(k)
           \/ Garbled(k) \/ Answered(k) \/ Unanswered(k)
    PROVE  ChannelInv'
<1>1. ASSUME NEW c \in Call, Goes(k, c)
      PROVE  calls' \in [Calls -> Call]
  BY <1>1 DEF Goes, ChannelInv, ChannelTypes
<1>2. Idle \in Call
  BY DEF Call
<1>3. CASE Resolve(k)
  BY <1>3, ResolveMoves DEF Resolve, provider, revocations, ChannelInv, ChannelTypes, AboveFence,
                            EndedIsBarred, Barred
<1>4. CASE ReadCurrent(k)
  <2> DEFINE i == calls[k].inputs
             c == IF Serves(i) THEN Idle
                  ELSE [phase |-> "asking", inputs |-> i, lone |-> calls[k].lone,
                        operation |-> NextOperation(i)]
  <2>1. i \in Inputs /\ calls[k].lone \in BOOLEAN
    BY <1>4, CallTypes DEF ReadCurrent, ChannelInv
  <2>2. NextOperation(i) \in Operation
    BY <2>1, NextOperationType DEF ChannelInv
  <2>3. c \in Call
    BY <1>2, <2>1, <2>2 DEF Call
  <2>4. calls' \in [Calls -> Call]
    BY <1>1, <1>4, <2>3 DEF ReadCurrent
  <2>5. QED
    BY <1>4, <2>4 DEF ReadCurrent, provider, revocations, ChannelInv, ChannelTypes,
                      AboveFence, EndedIsBarred, Barred
<1>5. ASSUME NEW o \in {"bound", "refused", "verdict"}, Goes(k, AnsweredCall(k, o)),
             calls[k].phase \in {"reading", "asking", "answered"}
      PROVE  calls' \in [Calls -> Call]
  <2>1. AnsweredCall(k, o) \in Call
    BY <1>5, CallTypes DEF AnsweredCall, Call, ChannelInv
  <2>2. QED
    BY <1>1, <1>5, <2>1
<1>6. CASE Accepted(k)
  <2>1. calls[k].operation \in Operation
    BY <1>6, CallTypes DEF Accepted, ChannelInv
  <2>2. calls' \in [Calls -> Call]
    BY <1>5, <1>6 DEF Accepted
  <2>3. CASE Replays(calls[k].operation)
    BY <1>6, <2>2, <2>3 DEF Accepted, provider, revocations, ChannelInv, ChannelTypes,
                            AboveFence, EndedIsBarred, Barred
  <2>4. CASE ~Replays(calls[k].operation)
    <3>1. Permits(calls[k].operation) /\ CarryOut(calls[k].operation)
      BY <1>6, <2>4 DEF Accepted
    <3>2. UNCHANGED <<row, refusal, deliveries>>
      BY <1>6 DEF Accepted, revocations
    <3>3. QED
      BY <2>1, <2>2, <3>1, <3>2, CarryOutKeeps DEF ChannelInv, ChannelTypes, EndedIsBarred
  <2>5. QED
    BY <2>3, <2>4
<1>7. CASE Refused(k)
  <2>1. calls' \in [Calls -> Call]
    BY <1>5, <1>7 DEF Refused
  <2>2. replayed' \in BOOLEAN
    BY <1>7 DEF Refused, ChannelInv, ChannelTypes
  <2>3. QED
    BY <1>7, <2>1, <2>2 DEF Refused, revocations, ChannelInv, ChannelTypes, AboveFence,
                            EndedIsBarred, Barred
<1>8. CASE Garbled(k)
  <2>1. calls' \in [Calls -> Call]
    BY <1>5, <1>8 DEF Garbled
  <2>2. QED
    BY <1>8, <2>1 DEF Garbled, provider, revocations, ChannelInv, ChannelTypes, AboveFence,
                      EndedIsBarred, Barred
<1>9. CASE Answered(k)
  <2>1. refusal' \in Refusal \cup {None}
    BY <1>9, CallTypes DEF Answered, RefusalOf, Refusal, ChannelInv, ChannelTypes
  <2>2. calls' \in [Calls -> Call]
    BY <1>1, <1>2, <1>9 DEF Answered
  <2>3. QED
    BY <1>9, <2>1, <2>2 DEF Answered, provider, revocations, ChannelInv, ChannelTypes,
                            AboveFence, EndedIsBarred, Barred
<1>10. CASE Unanswered(k)
  <2>1. calls' \in [Calls -> Call]
    BY <1>1, <1>2, <1>10 DEF Unanswered
  <2>2. QED
    BY <1>10, <2>1 DEF Unanswered, provider, revocations, ChannelInv, ChannelTypes,
                       AboveFence, EndedIsBarred, Barred
<1>11. QED
  BY <1>3, <1>4, <1>6, <1>7, <1>8, <1>9, <1>10

LEMMA WorkerKeepsInv ==
    ASSUME ChannelAssumption, ChannelInv, NEW g \in Generations,
           Deliver(g) \/ PutOff(g) \/ PutOffDone(g) \/ BreakOff(g)
    PROVE  ChannelInv'
<1>1. UNCHANGED <<row, calls, refusal>>
  BY DEF Deliver, PutOff, PutOffDone, BreakOff
<1>2. /\ DOMAIN deliveries' = Generations
      /\ \A h \in Generations : deliveries'[h] # None => "state" \in DOMAIN deliveries'[h]
  BY DEF Deliver, PutOff, PutOffDone, BreakOff, Terminal, Retry, Pending, ChannelInv,
         ChannelTypes
<1>3. CASE PutOff(g)
  <2>1. UNCHANGED provider
    BY <1>3 DEF PutOff
  <2>2. \A h \in Generations :
           deliveries'[h] # None /\ deliveries'[h].state # "pending" =>
               deliveries[h] # None /\ deliveries[h].state # "pending"
    BY <1>3 DEF PutOff, Retry, Pending, ChannelInv, ChannelTypes
  <2>3. QED
    BY <1>1, <1>2, <2>1, <2>2 DEF provider, ChannelInv, ChannelTypes, AboveFence,
                                  EndedIsBarred, Barred
<1>4. CASE Withdraw(g)
  <2>1. \A h \in Generations \ {g} : deliveries'[h] = deliveries[h]
    BY DEF Deliver, PutOff, PutOffDone, BreakOff, Terminal, Retry, ChannelInv, ChannelTypes
  <2>2. QED
    BY <1>1, <1>2, <1>4, <2>1, WithdrawKeeps DEF ChannelInv, ChannelTypes, EndedIsBarred
<1>5. QED
  BY <1>3, <1>4 DEF Deliver, PutOffDone, BreakOff

LEMMA OthersKeepInv ==
    ASSUME ChannelAssumption, ChannelInv, BeginPass \/ Tick \/ Evict \/ Restart
    PROVE  ChannelInv'
<1>1. UNCHANGED provider /\ row' = row
  BY DEF BeginPass, Tick, Evict, Restart
<1>2. calls' \in [Calls -> Call] /\ refusal' \in Refusal \cup {None}
  BY DEF BeginPass, Tick, Evict, Restart, ChannelInv, ChannelTypes, Call
<1>3. /\ DOMAIN deliveries' = Generations
      /\ \A h \in Generations :
            deliveries'[h] # None => /\ "state" \in DOMAIN deliveries'[h]
                                     /\ \/ deliveries'[h].state = "pending"
                                        \/ /\ deliveries[h] # None
                                           /\ deliveries'[h].state = deliveries[h].state
  <2>1. CASE BeginPass
    BY <2>1 DEF BeginPass, ChannelInv, ChannelTypes
  <2>2. CASE Tick
    BY <2>2 DEF Tick, ChannelInv, ChannelTypes
  <2>3. CASE Evict \/ Restart
    BY <2>3 DEF Evict, Restart, revocations, ChannelInv, ChannelTypes
  <2>4. QED
    BY <2>1, <2>2, <2>3
<1>4. QED
  BY <1>1, <1>2, <1>3 DEF provider, ChannelInv, ChannelTypes, AboveFence, EndedIsBarred, Barred

LEMMA NextKeepsInv ==
    ASSUME ChannelAssumption, ChannelInv, [Next]_vars
    PROVE  ChannelInv'
<1>1. CASE UNCHANGED vars
  BY <1>1 DEF vars, provider, revocations, ChannelInv, ChannelTypes, AboveFence,
              EndedIsBarred, Barred
<1>2. CASE Next
  BY <1>2, RowKeepsInv, ExpireKeepsInv, ResolutionsKeepInv, WorkerKeepsInv, OthersKeepInv
     DEF Next
<1>3. QED
  BY <1>1, <1>2

------------------------------------------------------------------------------

\* The inductive invariant: what is held lies above the fence, what ended is barred
THEOREM ChannelInvariant == Spec => []ChannelInv
<1>1. Init => ChannelInv
  BY ChannelAssumption, InitEstablishesInv
<1>2. ChannelInv /\ [Next]_vars => ChannelInv'
  BY ChannelAssumption, NextKeepsInv
<1>3. QED
  BY <1>1, <1>2, PTL DEF Spec

\* Once a revocation is delivered or fenced the Provider holds no channel of it,
\* however many resolutions are under way
THEOREM RevokedHoldNoChannel == Spec => []RevokedHoldsNoChannel
<1>1. ChannelInv => RevokedHoldsNoChannel
  BY DEF ChannelInv, ChannelTypes, AboveFence, EndedIsBarred, Barred, RevokedHoldsNoChannel,
         Holds, Binding, Generations
<1>2. QED
  BY <1>1, ChannelInvariant, PTL

------------------------------------------------------------------------------
(* Resolutions that overlap with no other. *)

\* What is held is the last operation carried out, for a Claim that was there
HeldIsLast ==
    binding # None =>
        /\ binding.serial = serial
        /\ binding.operation.generation = binding.generation
        /\ binding.operation.kind = "refresh" => binding.operation.base < serial
        /\ binding.generation =< row.generation

\* A refresh that is over went on from an earlier operation, and a lifecycle that is
\* over is fenced or was followed by what is held
EndedIsPast ==
    \A op \in ended :
        /\ op.kind = "refresh" => op.base < serial
        /\ op.generation > fence => binding # None /\ binding.generation >= op.generation

\* Any resolution is for a Claim that was there and goes on from what was held
CallIsPast(c) ==
    /\ c # Idle => c.inputs.generation =< row.generation
    /\ c.phase = "asking" =>
          /\ c.operation.generation = c.inputs.generation
          /\ c.operation.version = c.inputs.version
          /\ c.operation.base =< serial

\* What a lone one read of the Provider still bounds what the Provider holds
ReadIsCurrent(c) ==
    c.phase \in {"reading", "asking"} =>
       (c.lone =>
        /\ binding # None => binding.generation =< c.inputs.generation
        /\ c.phase = "asking" =>
              LET op == c.operation IN
              /\ op.kind = "refresh" =>
                    /\ op.base = serial
                    /\ \/ op.generation =< fence
                       \/ /\ binding # None /\ binding.generation = op.generation
                          /\ binding.version # op.version \/ binding.expired
              /\ op.kind = "provision" => ~Holds(op.generation))

\* The Provider refuses a lone one only because its generation is fenced
VerdictOnWay(c) ==
    c.phase = "answered" => (c.outcome = "verdict" => c.inputs.generation =< fence)

CallInv(c) == CallIsPast(c) /\ ReadIsCurrent(c) /\ VerdictOnWay(c)

\* While one is lone there is no other
LoneIsAlone ==
    \A k \in Calls :
        calls[k].phase \in {"reading", "asking"} =>
            (calls[k].lone => \A j \in Calls \ {k} : calls[j] = Idle)

VerdictIsFenced ==
    refusal # None => (refusal.verdict => refusal.inputs.generation =< fence)

LoneInv ==
    /\ ChannelInv
    /\ HeldIsLast
    /\ EndedIsPast
    /\ LoneIsAlone
    /\ VerdictIsFenced
    /\ NeverReplaysEnded
    /\ \A k \in Calls : CallInv(calls[k])

LEMMA ParametersAreNumbers ==
    ASSUME ChannelAssumption, ChannelInv, NEW k \in Calls
    PROVE  /\ calls[k] \in Call
           /\ calls[k] # Idle =>
                 /\ calls[k].inputs \in Inputs /\ calls[k].inputs.generation \in Generations
           /\ calls[k].phase = "asking" =>
                 /\ calls[k].operation \in Operation
                 /\ calls[k].operation.generation \in Generations
                 /\ calls[k].operation.base \in Nat
           /\ row.generation \in Generations /\ fence \in Nat /\ serial \in Nat
           /\ binding # None => /\ binding \in Binding
                               /\ binding.generation \in Generations
                               /\ binding.operation \in Operation
           /\ \A op \in ended : op \in Operation
  BY DEF ChannelInv, ChannelTypes, Call, Idle, Inputs, Operation, Binding, Generations,
         ChannelAssumption

LEMMA IdleHolds == CallInv(Idle)
  BY DEF CallInv, CallIsPast, ReadIsCurrent, VerdictOnWay, Idle

LEMMA InitEstablishesLone ==
    ASSUME ChannelAssumption, Init
    PROVE  LoneInv
<1>1. \A k \in Calls : CallInv(calls[k])
  BY IdleHolds DEF Init
<1>2. QED
  BY <1>1, InitEstablishesInv DEF Init, LoneInv, HeldIsLast, EndedIsPast, LoneIsAlone,
                                  VerdictIsFenced, NeverReplaysEnded, Idle

LEMMA RowKeepsLone ==
    ASSUME ChannelAssumption, LoneInv, Revoke \/ ClaimAgain \/ NewVersion
    PROVE  LoneInv'
<1>1. ChannelInv'
  BY RowKeepsInv DEF LoneInv
<1>2. row'.generation >= row.generation
  BY DEF LoneInv, ChannelInv, ChannelTypes, Generations, Revoke, ClaimAgain, NewVersion,
         ChannelAssumption
<1>3. UNCHANGED <<provider, calls, refusal>>
  BY DEF Revoke, ClaimAgain, NewVersion
<1>4. \A n \in Generations : n =< row.generation => n =< row'.generation
  BY <1>1, <1>2 DEF LoneInv, ChannelInv, ChannelTypes, Generations, ChannelAssumption
<1>5. HeldIsLast'
  BY <1>3, <1>4 DEF provider, LoneInv, HeldIsLast, ChannelInv, ChannelTypes, Binding
<1>6. ASSUME NEW k \in Calls
      PROVE  CallInv(calls[k])'
  <2>1. CallInv(calls[k])
    BY DEF LoneInv
  <2>2. calls[k] # Idle => calls[k].inputs.generation =< row'.generation
    BY <1>4, <2>1, ParametersAreNumbers DEF LoneInv, CallInv, CallIsPast
  <2>3. QED
    BY <1>3, <2>1, <2>2 DEF provider, CallInv, CallIsPast, ReadIsCurrent, VerdictOnWay, Holds
<1>7. QED
  BY <1>1, <1>3, <1>5, <1>6 DEF provider, LoneInv, EndedIsPast, LoneIsAlone, VerdictIsFenced,
                                NeverReplaysEnded

LEMMA ExpireKeepsLone ==
    ASSUME ChannelAssumption, LoneInv, Expire
    PROVE  LoneInv'
<1>1. ChannelInv'
  BY ExpireKeepsInv DEF LoneInv
<1>2. /\ binding # None /\ binding' # None
      /\ binding' = [binding EXCEPT !.expired = TRUE]
      /\ binding \in Binding
  BY DEF LoneInv, ChannelInv, ChannelTypes, Expire, Binding, ChannelAssumption
<1>3. /\ binding'.generation = binding.generation /\ binding'.version = binding.version
      /\ binding'.operation = binding.operation /\ binding'.serial = binding.serial
      /\ binding'.expired
  BY <1>2 DEF Binding
<1>4. UNCHANGED <<row, fence, ended, serial, replayed, calls, refusal>>
  BY DEF Expire
<1>5. ASSUME NEW k \in Calls
      PROVE  CallInv(calls[k])'
  <2>1. CallInv(calls[k])
    BY DEF LoneInv
  <2>2. QED
    BY <1>2, <1>3, <1>4, <2>1 DEF CallInv, CallIsPast, ReadIsCurrent, VerdictOnWay, Holds
<1>6. QED
  BY <1>1, <1>2, <1>3, <1>4, <1>5 DEF LoneInv, HeldIsLast, EndedIsPast, LoneIsAlone,
                                      VerdictIsFenced, NeverReplaysEnded

\* What a lone call asks for is refused only if its generation is fenced
LEMMA AskingIsRefusedIfFenced ==
    ASSUME ChannelAssumption, LoneInv, NEW k \in Calls, calls[k].phase = "asking",
           calls[k].lone, ~Permits(calls[k].operation)
    PROVE  calls[k].operation.generation =< fence
<1> DEFINE op == calls[k].operation
<1>1. calls[k] # Idle /\ CallIsPast(calls[k]) /\ ReadIsCurrent(calls[k])
  BY DEF Idle, LoneInv, CallInv
<1>2. /\ op \in Operation /\ op.generation \in Generations /\ fence \in Nat /\ serial \in Nat
      /\ binding # None => binding.generation \in Generations
      /\ op.generation = calls[k].inputs.generation
      /\ binding # None => binding.generation =< op.generation
  BY <1>1, ParametersAreNumbers DEF LoneInv, CallIsPast, ReadIsCurrent
<1>3. SUFFICES ASSUME op.generation > fence
               PROVE  FALSE
  BY <1>2 DEF Generations, ChannelAssumption
<1>4. op.kind = "refresh" => op.base = serial
  BY <1>1 DEF ReadIsCurrent
<1>5. op.kind = "provision" => ~Holds(op.generation)
  BY <1>1 DEF ReadIsCurrent
<1>6. op \notin ended
  BY <1>2, <1>3, <1>4, <1>5 DEF LoneInv, EndedIsPast, Holds, Operation, Generations
<1>7. CASE op.kind = "provision"
  <2>1. binding # None => binding.generation < op.generation
    BY <1>2, <1>5, <1>7 DEF Holds, Generations
  <2>2. QED
    BY <1>3, <1>6, <1>7, <2>1 DEF Permits
<1>8. CASE op.kind = "refresh"
  <2>1. Holds(op.generation) /\ (binding.version # op.version \/ binding.expired)
    BY <1>1, <1>2, <1>3, <1>8 DEF ReadIsCurrent, Holds, Generations
  <2>2. QED
    BY <1>3, <1>6, <1>8, <2>1 DEF Permits
<1>9. QED
  BY <1>2, <1>7, <1>8 DEF Operation

\* A step of one resolution that the Provider does not see
LEMMA CallGoesOn ==
    ASSUME LoneInv, ChannelInv', NEW k \in Calls, NEW c, Goes(k, c),
           calls[k] # Idle, UNCHANGED <<row, provider>>, CallInv(c), VerdictIsFenced',
           c.phase \in {"reading", "asking"} =>
               /\ calls[k].phase \in {"reading", "asking"}
               /\ c.lone = calls[k].lone
    PROVE  LoneInv'
<1>1. /\ calls'[k] = c
      /\ \A j \in Calls \ {k} : calls'[j] = calls[j]
  BY DEF Goes, LoneInv, ChannelInv, ChannelTypes
<1>2. ASSUME NEW d, CallInv(d)
      PROVE  CallIsPast(d)' /\ ReadIsCurrent(d)' /\ VerdictOnWay(d)'
  BY <1>2 DEF provider, CallInv, CallIsPast, ReadIsCurrent, VerdictOnWay, Holds
<1>3. ASSUME NEW j \in Calls
      PROVE  CallInv(calls[j])'
  BY <1>1, <1>2 DEF LoneInv, CallInv, CallIsPast, ReadIsCurrent, VerdictOnWay, provider, Holds
<1>4. LoneIsAlone'
  <2> SUFFICES ASSUME NEW h \in Calls, calls'[h].phase \in {"reading", "asking"},
                      calls'[h].lone, NEW j \in Calls \ {h}
               PROVE  calls'[j] = Idle
    BY DEF LoneIsAlone
  <2>1. CASE h = k
    BY <1>1, <2>1 DEF LoneInv, LoneIsAlone
  <2>2. CASE h # k
    BY <1>1, <2>2 DEF LoneInv, LoneIsAlone
  <2>3. QED
    BY <2>1, <2>2
<1>5. QED
  BY <1>3, <1>4 DEF provider, LoneInv, HeldIsLast, EndedIsPast, NeverReplaysEnded

\* The new resolution may be lone; no other is any more
LEMMA ResolveKeepsLone ==
    ASSUME ChannelAssumption, LoneInv, NEW k \in Calls, Resolve(k), ChannelInv'
    PROVE  LoneInv'
<1>1. UNCHANGED <<row, provider>> /\ refusal' = None
  BY DEF Resolve
<1>2. /\ calls'[k].phase = "reading" /\ calls'[k].inputs.generation = row.generation
      /\ calls'[k].lone => \A h \in Calls : calls[h] = Idle
  BY DEF Resolve, InputsOf
<1>3. ASSUME NEW j \in Calls \ {k}
      PROVE  \/ calls'[j] = calls[j] /\ calls[j].phase \notin {"reading", "asking"}
             \/ /\ calls[j].phase \in {"reading", "asking"}
                /\ calls'[j] = [calls[j] EXCEPT !.lone = FALSE]
  BY <1>3 DEF Resolve
<1>4. ASSUME NEW j \in Calls \ {k}, calls[j].phase \in {"reading", "asking"},
             calls'[j] = [calls[j] EXCEPT !.lone = FALSE]
      PROVE  /\ ~calls'[j].lone /\ calls'[j] # Idle /\ calls[j] # Idle
             /\ calls'[j].phase = calls[j].phase
             /\ calls'[j].inputs = calls[j].inputs
             /\ calls'[j].phase = "asking" => calls'[j].operation = calls[j].operation
  <2>1. calls[j] \in Call
    BY <1>4, ParametersAreNumbers DEF LoneInv
  <2>2. QED
    BY <1>4, <2>1 DEF Call, Idle
<1>5. ASSUME NEW j \in Calls
      PROVE  CallInv(calls[j])'
  <2>1. CASE j = k
    <3>1. row.generation =< row.generation
      BY DEF LoneInv, ChannelInv, ChannelTypes, Generations, ChannelAssumption
    <3>2. QED
      BY <1>1, <1>2, <2>1, <3>1 DEF provider, LoneInv, HeldIsLast, CallInv, CallIsPast,
                                    ReadIsCurrent, VerdictOnWay
  <2>2. CASE j # k /\ calls[j].phase \in {"reading", "asking"}
    <3>1. calls'[j] = [calls[j] EXCEPT !.lone = FALSE]
      BY <1>3, <2>2
    <3>2. CallIsPast(calls[j])
      BY DEF LoneInv, CallInv
    <3>3. QED
      BY <1>1, <1>4, <2>2, <3>1, <3>2 DEF provider, CallInv, CallIsPast, ReadIsCurrent,
                                          VerdictOnWay
  <2>3. CASE j # k /\ calls[j].phase \notin {"reading", "asking"}
    <3>1. calls'[j] = calls[j] /\ CallInv(calls[j])
      BY <1>3, <2>3 DEF LoneInv
    <3>2. QED
      BY <1>1, <2>3, <3>1 DEF provider, CallInv, CallIsPast, ReadIsCurrent, VerdictOnWay
  <2>4. QED
    BY <2>1, <2>2, <2>3
<1>6. LoneIsAlone'
  <2> SUFFICES ASSUME NEW h \in Calls, calls'[h].phase \in {"reading", "asking"},
                      calls'[h].lone, NEW j \in Calls \ {h}
               PROVE  calls'[j] = Idle
    BY DEF LoneIsAlone
  <2>1. h = k
    BY <1>3, <1>4
  <2>2. calls[j] = Idle
    BY <1>2, <2>1
  <2>3. QED
    BY <1>3, <2>1, <2>2 DEF Idle
<1>7. QED
  BY <1>1, <1>5, <1>6 DEF provider, LoneInv, HeldIsLast, EndedIsPast, VerdictIsFenced,
                          NeverReplaysEnded

LEMMA CarryOutKeepsLone ==
    ASSUME ChannelAssumption, LoneInv, NEW k \in Calls, Accepted(k),
           ~Replays(calls[k].operation), ChannelInv'
    PROVE  LoneInv'
<1> DEFINE op == calls[k].operation
<1>1. calls[k].phase = "asking" /\ calls[k] # Idle /\ Permits(op) /\ CarryOut(op)
  BY DEF Accepted, Idle
<1>2. /\ op \in Operation /\ op.generation \in Generations /\ op.base \in Nat
      /\ op.generation = calls[k].inputs.generation
      /\ op.generation =< row.generation
      /\ op.base =< serial
      /\ row.generation \in Generations /\ fence \in Nat /\ serial \in Nat
      /\ binding # None => binding.generation \in Generations /\ binding.operation \in Operation
      /\ \A e \in ended : e \in Operation
  BY <1>1, ParametersAreNumbers DEF LoneInv, CallInv, CallIsPast
<1>3. binding # None => binding.generation =< op.generation
  BY <1>1, <1>2 DEF Permits, Holds, Generations
<1>4. /\ binding' # None /\ binding'.operation = op /\ binding'.generation = op.generation
      /\ binding'.serial = serial + 1 /\ serial' = serial + 1
      /\ ended' = ended \cup IF binding = None THEN {} ELSE {binding.operation}
      /\ UNCHANGED <<row, fence, replayed, refusal>>
  BY <1>1, <1>2, CarryOutKeeps DEF CarryOut, Accepted, LoneInv
<1>5. /\ calls'[k] = AnsweredCall(k, "bound")
      /\ \A j \in Calls \ {k} : calls'[j] = calls[j]
  BY DEF Accepted, Goes, LoneInv, ChannelInv, ChannelTypes
<1>6. HeldIsLast'
  BY <1>2, <1>4 DEF HeldIsLast
<1>7. EndedIsPast'
  <2> SUFFICES ASSUME NEW e \in ended'
               PROVE  /\ e.kind = "refresh" => e.base < serial'
                      /\ e.generation > fence => binding'.generation >= e.generation
    BY <1>4 DEF EndedIsPast
  <2>1. CASE e \in ended
    BY <1>2, <1>3, <1>4, <2>1 DEF LoneInv, EndedIsPast, Operation, Generations
  <2>2. CASE binding # None /\ e = binding.operation
    BY <1>2, <1>3, <1>4, <2>2 DEF LoneInv, HeldIsLast, Operation, Generations
  <2>3. QED
    BY <1>4, <2>1, <2>2
<1>8. ASSUME NEW j \in Calls \ {k}
      PROVE  CallInv(calls[j])' /\ (calls[j].phase \in {"reading", "asking"} => ~calls[j].lone)
  <2>1. CallInv(calls[j])
    BY DEF LoneInv
  <2>2. calls[j].phase \in {"reading", "asking"} => ~calls[j].lone
    BY <1>1 DEF LoneInv, LoneIsAlone
  <2>3. calls[j].phase = "asking" => calls[j].operation.base =< serial'
    BY <1>2, <1>4, <2>1, ParametersAreNumbers DEF LoneInv, CallInv, CallIsPast
  <2>4. QED
    BY <1>4, <1>5, <2>1, <2>2, <2>3 DEF CallInv, CallIsPast, ReadIsCurrent, VerdictOnWay
<1>9. CallInv(calls[k])'
  BY <1>2, <1>4, <1>5 DEF AnsweredCall, CallInv, CallIsPast, ReadIsCurrent, VerdictOnWay
<1>10. LoneIsAlone'
  BY <1>5, <1>8 DEF LoneIsAlone, AnsweredCall
<1>11. QED
  BY <1>4, <1>6, <1>7, <1>8, <1>9, <1>10 DEF LoneInv, VerdictIsFenced, NeverReplaysEnded

LEMMA RefusedKeepsLone ==
    ASSUME ChannelAssumption, LoneInv, NEW k \in Calls, Refused(k), ChannelInv'
    PROVE  LoneInv'
<1> DEFINE op == calls[k].operation
           o == IF calls[k].lone THEN "verdict" ELSE "refused"
<1>1. /\ UNCHANGED <<row, binding, fence, ended, serial, refusal>>
      /\ calls[k].phase = "asking" /\ calls[k] # Idle /\ ~Permits(op)
      /\ replayed' = (replayed \/ (calls[k].lone /\ op \in ended /\ op.generation > fence))
  BY DEF Refused, Idle
<1>2. /\ calls'[k] = AnsweredCall(k, o)
      /\ \A j \in Calls \ {k} : calls'[j] = calls[j]
  BY DEF Refused, Goes, LoneInv, ChannelInv, ChannelTypes
<1>3. calls[k].lone => op.generation =< fence /\ ~(op.generation > fence)
  <2>1. op.generation \in Nat /\ fence \in Nat
    BY <1>1, ParametersAreNumbers DEF LoneInv, Generations
  <2>2. QED
    BY <1>1, <2>1, AskingIsRefusedIfFenced
<1>4. CallIsPast(calls[k])
  BY DEF LoneInv, CallInv
<1>5. CallInv(calls[k])'
  BY <1>1, <1>2, <1>3, <1>4 DEF AnsweredCall, CallInv, CallIsPast, ReadIsCurrent, VerdictOnWay
<1>6. ASSUME NEW j \in Calls \ {k}
      PROVE  CallInv(calls[j])'
  <2>1. CallInv(calls[j])
    BY DEF LoneInv
  <2>2. QED
    BY <1>1, <1>2, <2>1 DEF CallInv, CallIsPast, ReadIsCurrent, VerdictOnWay, Holds
<1>7. LoneIsAlone'
  BY <1>1, <1>2 DEF LoneInv, LoneIsAlone, AnsweredCall
<1>8. ~replayed'
  BY <1>1, <1>3 DEF LoneInv, NeverReplaysEnded
<1>9. QED
  BY <1>1, <1>5, <1>6, <1>7, <1>8 DEF LoneInv, HeldIsLast, EndedIsPast, VerdictIsFenced,
                                      NeverReplaysEnded

LEMMA ReadCurrentKeepsLone ==
    ASSUME ChannelAssumption, LoneInv, NEW k \in Calls, ReadCurrent(k), ChannelInv'
    PROVE  LoneInv'
<1> DEFINE i == calls[k].inputs
           op == NextOperation(i)
           c == [phase |-> "asking", inputs |-> i, lone |-> calls[k].lone, operation |-> op]
<1>1. /\ UNCHANGED <<row, provider, refusal>>
      /\ calls[k] # Idle /\ calls[k].phase = "reading"
      /\ VerdictIsFenced'
  BY DEF ReadCurrent, provider, Idle, LoneInv, VerdictIsFenced
<1>2. CASE Serves(i)
  <2>1. Goes(k, Idle)
    BY <1>2 DEF ReadCurrent
  <2>2. QED
    BY <1>1, <2>1, IdleHolds, CallGoesOn DEF Idle
<1>3. CASE ~Serves(i)
  <2>1. Goes(k, c)
    BY <1>3 DEF ReadCurrent
  <2>2. /\ op.generation = i.generation /\ op.version = i.version
        /\ op.kind = "refresh" => Holds(i.generation) /\ op.base = binding.serial
        /\ op.kind = "provision" => ~Holds(i.generation) /\ op.base = 0
        /\ op.kind = "refresh" \/ op.kind = "provision"
    BY DEF NextOperation
  <2>3. Holds(i.generation) => /\ binding # None /\ binding.generation = i.generation
                               /\ binding.serial = serial
                               /\ binding.version # i.version \/ binding.expired
    BY <1>3 DEF Serves, Holds, LoneInv, HeldIsLast
  <2>4. serial \in Nat
    BY ParametersAreNumbers DEF LoneInv
  <2>5. i.generation =< row.generation
    BY <1>1 DEF LoneInv, CallInv, CallIsPast
  <2>6. calls[k].lone => (binding # None => binding.generation =< i.generation)
    BY <1>1 DEF LoneInv, CallInv, ReadIsCurrent
  <2>7. CallIsPast(c)
    BY <2>2, <2>3, <2>4, <2>5 DEF CallIsPast
  <2>8. ReadIsCurrent(c)
    BY <2>2, <2>3, <2>6 DEF ReadIsCurrent
  <2>9. CallInv(c)
    BY <2>7, <2>8 DEF CallInv, VerdictOnWay
  <2>10. QED
    BY <1>1, <2>1, <2>9, CallGoesOn
<1>4. QED
  BY <1>2, <1>3

LEMMA ResolutionsKeepLone ==
    ASSUME ChannelAssumption, LoneInv, NEW k \in Calls,
           \/ Resolve(k) \/ ReadCurrent(k) \/ Accepted(k) \/ Refused(k)
           \/ Garbled(k) \/ Answered(k) \/ Unanswered(k)
    PROVE  LoneInv'
<1>1. ChannelInv'
  BY ResolutionsKeepInv DEF LoneInv
<1>2. ASSUME refusal' = refusal, UNCHANGED provider
      PROVE  VerdictIsFenced'
  BY <1>2 DEF provider, LoneInv, VerdictIsFenced
<1>3. calls[k].phase \in {"reading", "asking", "answered"} => calls[k] # Idle
  BY DEF Idle
<1>4. ASSUME NEW o \in {"bound", "refused"}, Goes(k, AnsweredCall(k, o)), calls[k] # Idle,
             UNCHANGED <<row, provider, refusal>>
      PROVE  LoneInv'
  <2>1. CallInv(AnsweredCall(k, o))
    BY <1>4 DEF AnsweredCall, LoneInv, CallInv, CallIsPast, ReadIsCurrent, VerdictOnWay
  <2>2. AnsweredCall(k, o).phase = "answered"
    BY DEF AnsweredCall
  <2>3. QED
    BY <1>1, <1>2, <1>4, <2>1, <2>2, CallGoesOn
<1>5. CASE Accepted(k)
  <2>1. CASE Replays(calls[k].operation)
    BY <1>3, <1>4, <1>5, <2>1 DEF Accepted
  <2>2. CASE ~Replays(calls[k].operation)
    BY <1>1, <1>5, <2>2, CarryOutKeepsLone
  <2>3. QED
    BY <2>1, <2>2
<1>6. CASE Garbled(k)
  BY <1>3, <1>4, <1>6 DEF Garbled
<1>7. CASE Answered(k)
  <2>1. VerdictOnWay(calls[k])
    BY DEF LoneInv, CallInv
  <2>2. UNCHANGED <<row, provider>> /\ Goes(k, Idle) /\ calls[k].phase = "answered"
    BY <1>7 DEF Answered
  <2>3. VerdictIsFenced'
    <3>1. refusal' = refusal \/ refusal' = RefusalOf(k, calls[k].inputs)
      BY <1>7 DEF Answered
    <3>2. CASE refusal' = refusal
      BY <1>2, <2>2, <3>2
    <3>3. CASE refusal' = RefusalOf(k, calls[k].inputs)
      BY <2>1, <2>2, <3>3 DEF VerdictIsFenced, RefusalOf, VerdictOnWay, provider
    <3>4. QED
      BY <3>1, <3>2, <3>3
  <2>4. QED
    BY <1>1, <1>3, <2>2, <2>3, IdleHolds, CallGoesOn DEF Idle
<1>8. CASE Unanswered(k)
  <2>1. Goes(k, Idle) /\ calls[k] # Idle /\ UNCHANGED <<row, provider>> /\ refusal' = refusal
    BY <1>8 DEF Unanswered
  <2>2. QED
    BY <1>1, <1>2, <2>1, IdleHolds, CallGoesOn DEF Idle
<1>9. QED
  BY <1>1, <1>5, <1>6, <1>7, <1>8, ResolveKeepsLone, ReadCurrentKeepsLone, RefusedKeepsLone

\* A revocation moves the fence up to what it takes away
LEMMA WithdrawKeepsLone ==
    ASSUME ChannelAssumption, LoneInv, NEW g \in Generations, Withdraw(g), ChannelInv',
           UNCHANGED <<row, calls, refusal>>
    PROVE  LoneInv'
<1>1. CASE Stale(g)
  <2>1. UNCHANGED provider
    BY <1>1 DEF Withdraw
  <2>2. ASSUME NEW k \in Calls
        PROVE  CallInv(calls[k])'
    <3>1. CallInv(calls[k])
      BY DEF LoneInv
    <3>2. QED
      BY <2>1, <3>1 DEF provider, CallInv, CallIsPast, ReadIsCurrent, VerdictOnWay, Holds
  <2>3. QED
    BY <2>1, <2>2 DEF provider, LoneInv, HeldIsLast, EndedIsPast, LoneIsAlone,
                      VerdictIsFenced, NeverReplaysEnded
<1>2. CASE ~Stale(g)
  <2>1. /\ binding' = None
        /\ fence' = IF g > fence THEN g ELSE fence
        /\ ended' = ended \cup IF binding = None THEN {} ELSE {binding.operation}
        /\ UNCHANGED <<serial, replayed>>
    BY <1>2 DEF Withdraw
  <2>2. /\ fence \in Nat /\ fence' \in Nat /\ g \in Nat /\ g =< fence' /\ fence =< fence'
        /\ \A n \in Generations : n =< fence => n =< fence'
    BY <2>1 DEF LoneInv, ChannelInv, ChannelTypes, Generations, ChannelAssumption
  <2>3. binding # None => /\ binding.generation \in Nat /\ binding.generation =< g
                          /\ binding.operation \in Operation
    BY <1>2 DEF Stale, LoneInv, ChannelInv, ChannelTypes, Binding, Generations
  <2>4. EndedIsPast'
    <3> SUFFICES ASSUME NEW e \in ended'
                 PROVE  (e.kind = "refresh" => e.base < serial) /\ ~(e.generation > fence')
      BY <2>1 DEF EndedIsPast
    <3>1. CASE e \in ended
      <4>1. e.generation \in Nat
        BY <3>1 DEF LoneInv, ChannelInv, ChannelTypes, Operation, Generations
      <4>2. QED
        BY <2>1, <2>2, <2>3, <3>1, <4>1 DEF LoneInv, EndedIsPast
    <3>2. CASE binding # None /\ e = binding.operation
      BY <2>1, <2>2, <2>3, <3>2 DEF LoneInv, HeldIsLast, Operation, Generations
    <3>3. QED
      BY <2>1, <3>1, <3>2
  <2>5. ASSUME NEW k \in Calls
        PROVE  CallInv(calls[k])'
    <3>1. CallInv(calls[k])
      BY DEF LoneInv
    <3>2. /\ calls[k] # Idle => calls[k].inputs.generation \in Generations
          /\ calls[k].phase = "asking" => calls[k].operation.generation \in Generations
          /\ calls[k].phase \in {"asking", "answered"} => calls[k] # Idle
      BY ParametersAreNumbers DEF Idle, LoneInv
    <3>3. CallIsPast(calls[k])'
      BY <2>1, <3>1 DEF CallInv, CallIsPast
    <3>4. ReadIsCurrent(calls[k])'
      <4> SUFFICES ASSUME calls[k].phase = "asking", calls[k].lone,
                          calls[k].operation.kind = "refresh"
                   PROVE  /\ calls[k].operation.base = serial
                          /\ calls[k].operation.generation =< fence'
        BY <2>1 DEF ReadIsCurrent, Holds
      <4>1. QED
        BY <2>2, <2>3, <3>1, <3>2 DEF CallInv, ReadIsCurrent, Generations
    <3>5. VerdictOnWay(calls[k])'
      BY <2>2, <3>1, <3>2 DEF CallInv, VerdictOnWay
    <3>6. QED
      BY <3>3, <3>4, <3>5 DEF CallInv
  <2>6. VerdictIsFenced'
    <3>1. refusal # None => refusal.inputs.generation \in Generations
      BY DEF LoneInv, ChannelInv, ChannelTypes, Refusal, Inputs
    <3>2. QED
      BY <2>2, <3>1 DEF LoneInv, VerdictIsFenced
  <2>7. QED
    BY <2>1, <2>4, <2>5, <2>6 DEF LoneInv, HeldIsLast, LoneIsAlone, NeverReplaysEnded
<1>3. QED
  BY <1>1, <1>2

LEMMA OthersKeepLone ==
    ASSUME ChannelAssumption, LoneInv,
           \/ BeginPass \/ Tick \/ Evict \/ Restart
           \/ \E g \in Generations : PutOff(g)
    PROVE  LoneInv'
<1>1. ChannelInv'
  BY WorkerKeepsInv, OthersKeepInv DEF LoneInv
<1>2. UNCHANGED provider /\ row' = row
  BY DEF BeginPass, Tick, Evict, Restart, PutOff
<1>3. refusal' = refusal \/ refusal' = None
  BY DEF BeginPass, Tick, Evict, Restart, PutOff
<1>4. (\A k \in Calls : calls'[k] = Idle) \/ calls' = calls
  BY DEF BeginPass, Tick, Evict, Restart, PutOff
<1>5. ASSUME NEW k \in Calls
      PROVE  CallInv(calls[k])'
  <2>1. CallInv(calls'[k])
    BY <1>4, IdleHolds DEF LoneInv
  <2>2. QED
    BY <1>2, <2>1 DEF provider, CallInv, CallIsPast, ReadIsCurrent, VerdictOnWay, Holds
<1>6. LoneIsAlone'
  BY <1>4 DEF Idle, LoneInv, LoneIsAlone
<1>7. QED
  BY <1>1, <1>2, <1>3, <1>5, <1>6 DEF provider, LoneInv, HeldIsLast, EndedIsPast,
                                      VerdictIsFenced, NeverReplaysEnded

LEMMA NextKeepsLone ==
    ASSUME ChannelAssumption, LoneInv, [Next]_vars
    PROVE  LoneInv'
<1>1. ChannelInv'
  BY NextKeepsInv DEF LoneInv
<1>2. CASE UNCHANGED vars
  <2>1. UNCHANGED <<row, provider, calls, refusal>>
    BY <1>2 DEF vars
  <2>2. ASSUME NEW k \in Calls
        PROVE  CallInv(calls[k])'
    <3>1. CallInv(calls[k])
      BY DEF LoneInv
    <3>2. QED
      BY <2>1, <3>1 DEF provider, CallInv, CallIsPast, ReadIsCurrent, VerdictOnWay, Holds
  <2>3. QED
    BY <1>1, <2>1, <2>2 DEF provider, LoneInv, HeldIsLast, EndedIsPast, LoneIsAlone,
                            VerdictIsFenced, NeverReplaysEnded
<1>3. ASSUME NEW g \in Generations, Deliver(g) \/ PutOffDone(g) \/ BreakOff(g)
      PROVE  LoneInv'
  <2>1. Withdraw(g) /\ UNCHANGED <<row, calls, refusal>>
    BY <1>3 DEF Deliver, PutOffDone, BreakOff
  <2>2. QED
    BY <1>1, <2>1, WithdrawKeepsLone
<1>4. CASE Next
  BY <1>3, <1>4, RowKeepsLone, ExpireKeepsLone, ResolutionsKeepLone, OthersKeepLone DEF Next
<1>5. QED
  BY <1>2, <1>4

\* What every resolution that overlaps with no other can count on, whatever overlapped
\* before it (resolve, application.py:121-187)
THEOREM LoneInvariant == Spec => []LoneInv
<1>1. Init => LoneInv
  BY ChannelAssumption, InitEstablishesLone
<1>2. LoneInv /\ [Next]_vars => LoneInv'
  BY ChannelAssumption, NextKeepsLone
<1>3. QED
  BY <1>1, <1>2, PTL DEF Spec

\* A resolution that overlaps with no other never asks for an operation that the
\* Provider has ended
THEOREM LoneNeverReplays == Spec => []NeverReplaysEnded
<1>1. LoneInv => NeverReplaysEnded
  BY DEF LoneInv
<1>2. QED
  BY <1>1, LoneInvariant, PTL

\* A refusal the Provider gave to such a resolution is retained only while asking for
\* the same inputs would be refused again
THEOREM VerdictsStand == Spec => []VerdictStands
<1>1. LoneInv => VerdictStands
  <2> SUFFICES ASSUME LoneInv, refusal # None, refusal.verdict
               PROVE  LET g == refusal.inputs.generation IN ~Holds(g) /\ ~(g > fence)
    BY DEF VerdictStands, Serves, Permits, NextOperation
  <2>1. /\ refusal.inputs.generation \in Nat /\ fence \in Nat
        /\ refusal.inputs.generation =< fence
    BY DEF LoneInv, ChannelInv, ChannelTypes, VerdictIsFenced, Refusal, Inputs, Generations,
           ChannelAssumption
  <2>2. QED
    BY <2>1 DEF Holds, LoneInv, ChannelInv, ChannelTypes, AboveFence, Binding, Generations
<1>2. QED
  BY <1>1, LoneInvariant, PTL

==============================================================================
