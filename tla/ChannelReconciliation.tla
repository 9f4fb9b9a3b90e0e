------------------------ MODULE ChannelReconciliation ------------------------
(***************************************************************************)
(* The channel of one device body at the Channel Provider                  *)
(* (hub/channel_reconciliation).  A pull of the device, or a change of its *)
(* output policy, resolves a binding: it reads the device row, asks the    *)
(* Provider what it holds, and provisions or refreshes.  Independently a   *)
(* worker turns every ClaimRevoked event into a delivery and sends the     *)
(* revocation until the Provider has answered, with backoff.               *)
(*                                                                         *)
(* The Provider is external.  It is modelled by the rules the code relies  *)
(* on and the tests' RecordingProvider keeps: an operation is carried out  *)
(* once, a lifecycle begins with one provision, a refresh needs a reason   *)
(* and ends the operation before it, a revoked generation is fenced.       *)
(*                                                                         *)
(* The accepted Manifest and the output policy are one version number: a   *)
(* binding is for one version of them.  The time unit is the retry base.   *)
(***************************************************************************)
EXTENDS Naturals, Sequences

CONSTANTS
    Calls,           \* resolutions in flight
    None,
    Unreadables,     \* whether answers may come that the Hub cannot read
    Poisoned,        \* generations whose revocation the Provider never accepts
    Limit,           \* how many deliveries a pass takes (50 in the code)
    MaxDelay,        \* retry_max_seconds
    MaxGeneration,   \* bound of the Claim generations
    MaxVersion,      \* bound of the versions of a generation
    MaxSerial        \* bound of the operations the Provider carries out

VARIABLES
    row,          \* the device row: generation, approved, version
    binding,      \* Provider: the binding it holds
    fence,        \* Provider: the highest generation revoked
    ended,        \* Provider: operations that are over
    serial,       \* Provider: operations carried out
    calls,
    refusal,      \* the refusal retained for the device, with its inputs
    deliveries,   \* channel_revocation_deliveries by generation
    queue,        \* the pending ones, in the order of next_attempt_at
    batch,        \* what is left of the pass of the worker
    replayed      \* history: a lone resolution asked for an operation that is over

provider == <<binding, fence, ended, serial, replayed>>
revocations == <<deliveries, queue, batch>>
vars == <<row, provider, calls, refusal, revocations>>

-----------------------------------------------------------------------------
Generations == 1..MaxGeneration
Versions == 1..MaxVersion
Idle == [phase |-> "idle"]

Inputs == [generation : Generations, version : Versions]

Operation ==
    [kind : {"provision", "refresh"}, generation : Generations, version : Versions,
     base : 0..MaxSerial]

Binding ==
    [operation : Operation, generation : Generations, version : Versions,
     serial : 1..MaxSerial, expired : BOOLEAN]

\* lone is history: no other resolution has been under way while this one was.
Call ==
    {Idle} \cup [phase : {"reading"}, inputs : Inputs, lone : BOOLEAN]
           \cup [phase : {"asking"}, inputs : Inputs, lone : BOOLEAN, operation : Operation]
           \cup [phase : {"answered"}, inputs : Inputs, outcome : {"bound", "refused", "verdict"}]

\* verdict is history: the Provider gave the refusal itself, to a lone resolution.
Refusal == [inputs : Inputs, verdict : BOOLEAN]

Delivery ==
    [state : {"pending", "delivered", "fenced"}, attempts : Nat, wait : 0..MaxDelay]

ASSUME ChannelAssumption ==
    /\ Limit \in Nat \ {0} /\ MaxDelay \in Nat \ {0}
    /\ MaxGeneration \in Nat \ {0} /\ MaxVersion \in Nat \ {0} /\ MaxSerial \in Nat
    /\ Unreadables \in BOOLEAN
    /\ None \notin Binding /\ None \notin Refusal

TypeOK ==
    /\ row \in [generation : Generations, approved : BOOLEAN, version : Versions]
    /\ binding \in Binding \cup {None}
    /\ fence \in 0..MaxGeneration
    /\ ended \subseteq Operation
    /\ serial \in 0..MaxSerial
    /\ calls \in [Calls -> Call]
    /\ refusal \in Refusal \cup {None}
    /\ deliveries \in [Generations -> Delivery \cup {None}]
    /\ queue \in Seq(Generations) /\ Len(queue) =< MaxGeneration
    /\ batch \in Seq(Generations) /\ Len(batch) =< Limit
    /\ replayed \in BOOLEAN

Init ==
    /\ row = [generation |-> 1, approved |-> TRUE, version |-> 1]
    /\ binding = None
    /\ fence = 0
    /\ ended = {}
    /\ serial = 0
    /\ calls = [k \in Calls |-> Idle]
    /\ refusal = None
    /\ deliveries = [g \in Generations |-> None]
    /\ queue = <<>>
    /\ batch = <<>>
    /\ replayed = FALSE

-----------------------------------------------------------------------------
(* The device row, written by Admission and device control. *)

Revoke ==
    /\ row.approved
    /\ row' = [row EXCEPT !.approved = FALSE]
    /\ UNCHANGED <<provider, calls, refusal, revocations>>

ClaimAgain ==
    /\ ~row.approved /\ row.generation < MaxGeneration
    /\ row' = [generation |-> row.generation + 1, approved |-> TRUE, version |-> 1]
    /\ UNCHANGED <<provider, calls, refusal, revocations>>

\* A Manifest is accepted or the output policy changed.
NewVersion ==
    /\ row.approved /\ row.version < MaxVersion
    /\ row' = [row EXCEPT !.version = @ + 1]
    /\ UNCHANGED <<provider, calls, refusal, revocations>>

\* The generations with a ClaimRevoked event.
Revoked ==
    {g \in Generations : g < row.generation \/ (g = row.generation /\ ~row.approved)}

-----------------------------------------------------------------------------
(* The Provider. *)

Holds(g) == IF binding = None THEN FALSE ELSE binding.generation = g
Replays(op) == IF binding = None THEN FALSE ELSE binding.operation = op

\* A lifecycle begins with one provision; a refresh is justified by another version
\* or by expiry.
Permits(op) ==
    /\ op \notin ended
    /\ op.generation > fence
    /\ IF op.kind = "provision"
       THEN IF binding = None THEN TRUE ELSE binding.generation < op.generation
       ELSE Holds(op.generation) /\ (binding.version # op.version \/ binding.expired)

CarryOut(op) ==
    /\ serial < MaxSerial
    /\ binding' = [operation |-> op, generation |-> op.generation, version |-> op.version,
                   serial |-> serial + 1, expired |-> FALSE]
    /\ ended' = ended \cup IF binding = None THEN {} ELSE {binding.operation}
    /\ serial' = serial + 1
    /\ UNCHANGED <<fence, replayed>>

Expire ==
    /\ binding # None
    /\ binding' = [binding EXCEPT !.expired = TRUE]
    /\ UNCHANGED <<row, fence, ended, serial, replayed, calls, refusal, revocations>>

\* Newer generations are not touched by a revocation: it is answered STALE_GENERATION.
Stale(g) == IF binding = None THEN fence > g ELSE binding.generation > g

Withdraw(g) ==
    IF Stale(g) THEN UNCHANGED provider
    ELSE /\ fence' = IF g > fence THEN g ELSE fence
         /\ binding' = None
         /\ ended' = ended \cup IF binding = None THEN {} ELSE {binding.operation}
         /\ UNCHANGED <<serial, replayed>>

-----------------------------------------------------------------------------
(* ReconcileChannelBinding.resolve. *)

InputsOf(r) == [generation |-> r.generation, version |-> r.version]
Goes(k, call) == calls' = [calls EXCEPT ![k] = call]

Retained(i) == IF refusal = None THEN FALSE ELSE refusal.inputs = i

\* The row is read; a refusal retained for the same inputs is answered at once,
\* one for others is dropped.
Resolve(k) ==
    /\ calls[k] = Idle
    /\ row.approved
    /\ ~Retained(InputsOf(row))
    /\ refusal' = None
    /\ calls' = [j \in Calls |->
         IF j = k THEN [phase |-> "reading", inputs |-> InputsOf(row),
                        lone |-> \A h \in Calls : calls[h] = Idle]
         ELSE IF calls[j].phase \in {"reading", "asking"}
              THEN [calls[j] EXCEPT !.lone = FALSE] ELSE calls[j]]
    /\ UNCHANGED <<row, provider, revocations>>

\* Mutant: only a provision that is held is refreshed, a refresh is followed by provision.
NextProvision(i) ==
    IF Holds(i.generation) /\ binding.operation.kind = "provision"
    THEN [kind |-> "refresh", generation |-> i.generation, version |-> i.version,
          base |-> binding.serial]
    ELSE [kind |-> "provision", generation |-> i.generation, version |-> i.version, base |-> 0]

\* The operation for inputs i: provision begins a lifecycle, refresh goes on from
\* the operation the Provider holds.
NextOperation(i) ==
    IF Holds(i.generation)
    THEN [kind |-> "refresh", generation |-> i.generation, version |-> i.version,
          base |-> binding.serial]
    ELSE [kind |-> "provision", generation |-> i.generation, version |-> i.version, base |-> 0]

Serves(i) == Holds(i.generation) /\ ~binding.expired /\ binding.version = i.version

\* The Provider says what it holds: it is good, or an operation is sent.
ReadCurrent(k) ==
    /\ calls[k].phase = "reading"
    /\ LET i == calls[k].inputs IN
       Goes(k, IF Serves(i) THEN Idle
               ELSE [phase |-> "asking", inputs |-> i, lone |-> calls[k].lone,
                     operation |-> NextOperation(i)])
    /\ UNCHANGED <<row, provider, refusal, revocations>>

AnsweredCall(k, o) == [phase |-> "answered", inputs |-> calls[k].inputs, outcome |-> o]

\* The Provider carries the operation out, answers as it did before, or refuses.
Accepted(k) ==
    /\ calls[k].phase = "asking"
    /\ LET op == calls[k].operation IN
       IF Replays(op) THEN UNCHANGED provider ELSE Permits(op) /\ CarryOut(op)
    /\ Goes(k, AnsweredCall(k, "bound"))
    /\ UNCHANGED <<row, refusal, revocations>>

Refused(k) ==
    /\ calls[k].phase = "asking"
    /\ LET op == calls[k].operation IN
       /\ ~Replays(op) /\ ~Permits(op)
       /\ replayed' = (replayed \/ (calls[k].lone /\ op \in ended /\ op.generation > fence))
    /\ Goes(k, AnsweredCall(k, IF calls[k].lone THEN "verdict" ELSE "refused"))
    /\ UNCHANGED <<row, binding, fence, ended, serial, refusal, revocations>>

\* An answer that cannot be read: to the question what is held, or to the operation,
\* which the Provider has refused, carried out or not begun.  It is a refusal too.
Garbled(k) ==
    /\ Unreadables
    /\ calls[k].phase \in {"reading", "asking", "answered"}
    /\ Goes(k, AnsweredCall(k, "refused"))
    /\ UNCHANGED <<row, provider, refusal, revocations>>

RefusalOf(k, i) == [inputs |-> i, verdict |-> calls[k].outcome = "verdict"]

\* Mutant: a refusal is retained with the inputs of now.
AnsweredNow(k) ==
    /\ calls[k].phase = "answered"
    /\ refusal' = IF calls[k].outcome = "bound" THEN refusal ELSE RefusalOf(k, InputsOf(row))
    /\ Goes(k, Idle)
    /\ UNCHANGED <<row, provider, revocations>>

\* A refusal is retained with the inputs it was for.
Answered(k) ==
    /\ calls[k].phase = "answered"
    /\ refusal' = IF calls[k].outcome = "bound" THEN refusal ELSE RefusalOf(k, calls[k].inputs)
    /\ Goes(k, Idle)
    /\ UNCHANGED <<row, provider, revocations>>

\* The Provider cannot be reached or its answer does not arrive: try again later.
Unanswered(k) ==
    /\ calls[k] # Idle
    /\ Goes(k, Idle)
    /\ UNCHANGED <<row, provider, refusal, revocations>>

\* The refusals of more than 1024 other devices push this one out.
Evict ==
    /\ refusal # None
    /\ refusal' = None
    /\ UNCHANGED <<row, provider, calls, revocations>>

-----------------------------------------------------------------------------
(* ReconcileChannelRevocations.execute, run by one periodic task. *)

Wait(g) == deliveries[g].wait

\* Mutant: what is put off goes to the front.
InsertedFirst(q, gs, w) == gs \o q

\* Deliveries due in w take their place in the order of next_attempt_at.
Inserted(q, gs, w) ==
    SelectSeq(q, LAMBDA h : Wait(h) =< w) \o gs \o SelectSeq(q, LAMBDA h : Wait(h) > w)

\* The revocations without a delivery, in the order of their events.
Unseen ==
    SelectSeq([g \in Generations |-> g], LAMBDA g : g \in Revoked /\ deliveries[g] = None)

\* materialize_claim_events and list_due: every new event becomes a delivery that is
\* due at once, and the pass takes the first of the due ones.
BeginPass ==
    /\ batch = <<>>
    /\ LET due == SelectSeq(queue, LAMBDA g : Wait(g) = 0) \o Unseen IN
       /\ due # <<>>
       /\ batch' = SubSeq(due, 1, IF Len(due) < Limit THEN Len(due) ELSE Limit)
    /\ deliveries' = [g \in Generations |->
         IF g \in Revoked /\ deliveries[g] = None
         THEN [state |-> "pending", attempts |-> 0, wait |-> 0] ELSE deliveries[g]]
    /\ queue' = Inserted(queue, Unseen, 0)
    /\ UNCHANGED <<row, provider, calls, refusal>>

Without(g) == SelectSeq(queue, LAMBDA h : h # g)

Pending(g) == deliveries[g] # None /\ deliveries[g].state = "pending"
First(g) == batch # <<>> /\ Head(batch) = g

\* mark_terminal: what has ended stays as it ended.
Terminal(g, s) ==
    /\ deliveries' = [deliveries EXCEPT ![g] =
                        IF Pending(g) THEN [@ EXCEPT !.state = s, !.wait = 0] ELSE @]
    /\ queue' = Without(g)
    /\ batch' = Tail(batch)

\* min(retry_max, retry_base * 2 ** min(attempt - 1, 10))
Delay(attempt) ==
    LET d == 2 ^ (IF attempt - 1 < 10 THEN attempt - 1 ELSE 10) IN
    IF d < MaxDelay THEN d ELSE MaxDelay

\* mark_retry.  Attempts are counted for as long as the delay grows with them.
Retry(g) ==
    LET n == deliveries[g].attempts
        delay == Delay(n + 1) IN
    /\ deliveries' = [deliveries EXCEPT ![g] =
                        IF Pending(g)
                        THEN [@ EXCEPT !.attempts = IF delay = MaxDelay THEN n ELSE n + 1,
                                       !.wait = delay] ELSE @]
    /\ queue' = Inserted(Without(g), <<g>>, delay)
    /\ batch' = Tail(batch)

\* The Provider answers: revoked, or STALE_GENERATION.
Deliver(g) ==
    /\ First(g)
    /\ g \notin Poisoned
    /\ Terminal(g, IF Stale(g) THEN "fenced" ELSE "delivered")
    /\ Withdraw(g)
    /\ UNCHANGED <<row, calls, refusal>>

\* Mutant: an attempt without answer is taken for delivered.
PutOffAsDone(g) ==
    /\ First(g)
    /\ Terminal(g, "delivered")
    /\ UNCHANGED <<row, provider, calls, refusal>>

\* No answer, or an error, before the Provider has done anything.
PutOff(g) ==
    /\ First(g)
    /\ Retry(g)
    /\ UNCHANGED <<row, provider, calls, refusal>>

\* No answer after it has.
PutOffDone(g) ==
    /\ First(g)
    /\ g \notin Poisoned
    /\ Retry(g)
    /\ Withdraw(g)
    /\ UNCHANGED <<row, calls, refusal>>

\* The Provider has revoked and the pass ends before that is recorded.
BreakOff(g) ==
    /\ First(g)
    /\ g \notin Poisoned
    /\ Withdraw(g)
    /\ batch' = <<>>
    /\ UNCHANGED <<row, calls, refusal, deliveries, queue>>

Tick ==
    /\ \E g \in Generations : deliveries[g] # None /\ Wait(g) > 0
    /\ deliveries' = [g \in Generations |->
         IF deliveries[g] = None THEN None
         ELSE [deliveries[g] EXCEPT !.wait = IF @ = 0 THEN 0 ELSE @ - 1]]
    /\ UNCHANGED <<row, provider, calls, refusal, queue, batch>>

\* The Hub stops and starts: rows stay, resolutions, refusals and the pass do not.
Restart ==
    /\ calls' = [k \in Calls |-> Idle]
    /\ refusal' = None
    /\ batch' = <<>>
    /\ UNCHANGED <<row, provider, deliveries, queue>>

-----------------------------------------------------------------------------
Next ==
    \/ Revoke \/ ClaimAgain \/ NewVersion \/ Expire
    \/ \E k \in Calls :
         \/ Resolve(k) \/ ReadCurrent(k) \/ Accepted(k) \/ Refused(k)
         \/ Garbled(k) \/ Answered(k) \/ Unanswered(k)
    \/ BeginPass
    \/ \E g \in Generations : Deliver(g) \/ PutOff(g) \/ PutOffDone(g) \/ BreakOff(g)
    \/ Tick \/ Evict \/ Restart

Spec == Init /\ [][Next]_vars

\* The worker runs and is not always stopped before it has dealt with the first of a
\* pass, time passes, and the Provider answers a revocation it is asked for again and
\* again.
Fairness ==
    /\ \A g \in Generations \ Poisoned : SF_vars(Deliver(g))
    /\ WF_vars(BeginPass)
    /\ SF_vars(\E g \in Generations : Deliver(g) \/ PutOff(g))
    /\ WF_vars(Tick)

FairSpec == Spec /\ Fairness

-----------------------------------------------------------------------------
(* Properties. *)

\* Once a revocation is delivered or fenced (execute, application.py:267-296), the
\* Provider holds no channel of that generation, whatever resolutions were under way.
RevokedHoldsNoChannel ==
    \A g \in Generations :
        deliveries[g] # None /\ Holds(g) => deliveries[g].state = "pending"

\* A resolution that overlaps no other never asks the Provider for an operation it has
\* ended, whatever expiry, revocations, unreadable answers and overlapping resolutions
\* came before (resolve, application.py:155-163: "the next reconcile replayed a spent
\* idempotency key").
NeverReplaysEnded == ~replayed

\* Every revocation ends, whatever becomes of the ones the Provider never accepts.
RevocationsEnd ==
    \A g \in Generations \ Poisoned :
        g \in Revoked ~> (deliveries[g] # None /\ deliveries[g].state # "pending")

\* A retained refusal that the Provider gave to a lone resolution is about its inputs:
\* for as long as it is retained, asking for them again would be refused again.
VerdictStands ==
    refusal # None /\ refusal.verdict =>
        ~Serves(refusal.inputs) /\ ~Permits(NextOperation(refusal.inputs))

\* What application.py:184 says of every one: "A deterministic refusal is retained for
\* these inputs".  Not so when two resolutions overlap, or an answer cannot be read.
RetainedRefusalStands ==
    refusal # None /\ (\A k \in Calls : calls[k] = Idle)
        => ~Serves(refusal.inputs) /\ ~Permits(NextOperation(refusal.inputs))

=============================================================================
