-------------------------- MODULE SmartHomeRuntime --------------------------
(***************************************************************************)
(* One Owner's requests in the smart-home runtime                          *)
(* (hub/smarthome/runtime.py) with the durable receipts of                 *)
(* hub/integration/ledger.py: a request is admitted under the Owner lock,  *)
(* its commands run outside of it, one at a time on each device, and a     *)
(* command the Provider did not answer in time is left unknown until an    *)
(* observation settles it.                                                 *)
(*                                                                         *)
(* The ledger and the observation cache are SQLite transactions without a  *)
(* suspension point, so what runs between two awaits of Provider, registry *)
(* or lock is one action.  Requests of other Owners share nothing of this. *)
(*                                                                         *)
(* A Provider is outside: a command handed to it may act at any later      *)
(* time, or never, whatever it answered.                                   *)
(***************************************************************************)
EXTENDS Naturals, Sequences, FiniteSets

CONSTANTS
    Devices,
    Requests,      \* pairs of scope and request_id
    Contents,      \* what a request asks for: its fingerprint
    Commands,      \* the commands of a content, a sequence of [device, does]
    Calls,         \* executions that may be in flight at once
    None,
    OthersAct      \* whether somebody else operates the devices as well

VARIABLES
    receipt,   \* receipts, by request; None for a repeat past its window
    calls,     \* executions in flight
    queue,     \* holders of and waiters for each device's FIFO lock
    pending,   \* unknown outcomes waiting for the observation that settles them
    seen,      \* the observation cache: the last state reported of a device
    device,    \* the devices themselves
    accepted,  \* commands the Provider was handed and has not acted on
    handed     \* commands handed to the Provider in this life of the process

vars == <<receipt, calls, queue, pending, seen, device, accepted, handed>>

-----------------------------------------------------------------------------
States == {"on", "off"}
Outcomes == {"succeeded", "failed", "unknown", "delegated"}
Idle == [phase |-> "idle"]

Command == [device : Devices, does : {"on", "off", "toggle"}]

InFlight == [content : Contents, result : {None}]
Completed == [content : Contents, result : Seq(Outcomes)]

Call ==
    {Idle} \cup [phase : {"waiting"}, request : Requests, on : Calls]
           \cup [phase : {"registry"}, request : Requests, content : Contents, late : BOOLEAN]
           \cup [phase : {"commands"}, request : Requests, content : Contents, late : BOOLEAN,
                 item : Seq(Outcomes \cup {"queued", "running"})]

\* An outcome that waits: its command, the state seen before it, its window over or not.
Pending ==
    [request : Requests, index : Nat, device : Devices, does : {"on", "off", "toggle"},
     before : States \cup {None}, expired : BOOLEAN]

ASSUME RuntimeAssumption ==
    /\ Commands \in [Contents -> Seq(Command)]
    /\ None \notin States /\ None \notin Seq(Outcomes)
    /\ None \notin InFlight /\ None \notin Completed
    /\ OthersAct \in BOOLEAN

\* What a command does to a device in state s.
EffectOf(does, s) ==
    IF does = "toggle" THEN CHOOSE t \in States : t # s ELSE does

\* hub.smarthome.effects.satisfied: `on', `off' and `toggle' stand for the
\* commands that name the state they lead to and for those that need the state
\* before; a device nothing was seen of differs from every state.
Satisfied(does, before, after) ==
    IF does = "toggle" THEN after # before ELSE after = does

Carriers(r) == {c \in Calls : calls[c].phase \in {"registry", "commands"} /\ calls[c].request = r}
Items(c) == IF calls[c].phase = "commands" THEN DOMAIN calls[c].item ELSE {}
CommandOf(c, i) == Commands[calls[c].content][i]

\* Mutant: a call that ends tells only its own caller.
ReleasedAlone(c) == [calls EXCEPT ![c] = Idle]

\* The outcome of a call reaches the call and everyone waiting on its future.
Released(c) ==
    [x \in Calls |->
        IF x = c \/ (calls[x].phase = "waiting" /\ calls[x].on = c) THEN Idle ELSE calls[x]]

WithItem(c, i, status) == [calls EXCEPT ![c].item = [@ EXCEPT ![i] = status]]
Unlocked(d) == [queue EXCEPT ![d] = Tail(@)]
HoldsLock(c, i) ==
    LET d == CommandOf(c, i).device IN queue[d] # <<>> /\ Head(queue[d]) = <<c, i>>

-----------------------------------------------------------------------------
Init ==
    /\ receipt = [r \in Requests |-> None]
    /\ calls = [c \in Calls |-> Idle]
    /\ queue = [d \in Devices |-> <<>>]
    /\ pending = {}
    /\ seen = [d \in Devices |-> None]
    /\ device \in [Devices -> States]
    /\ accepted = {}
    /\ handed = {}

\* Unknown outcomes that state s of device d answers.
Answered(d, s) ==
    {p \in pending :
        /\ p.device = d
        /\ ~p.expired
        /\ s # None
        /\ Satisfied(p.does, p.before, s)}

SettleFirst(n, r, d) ==
    LET unknown == {i \in DOMAIN receipt[r].result :
                        /\ Commands[receipt[r].content][i].device = d
                        /\ receipt[r].result[i] = "unknown"}
    IN [i \in DOMAIN receipt[r].result |->
            IF i \in unknown /\ Cardinality({j \in unknown : j < i}) < n
            THEN "succeeded" ELSE receipt[r].result[i]]

\* Mutant: what was answered goes on waiting.
ObservedAgain(d, s) ==
    /\ seen' = [seen EXCEPT ![d] = s]
    /\ pending' = {p \in pending : p.device # d \/ ~p.expired}
    /\ receipt' =
        [r \in Requests |->
            LET n == Cardinality({p \in Answered(d, s) : p.request = r}) IN
            IF n > 0 /\ receipt[r] # None /\ receipt[r].result # None
            THEN [receipt[r] EXCEPT !.result = SettleFirst(n, r, d)]
            ELSE receipt[r]]

\* SmartHomeRuntime._observed: the cache takes the observation, and every
\* unexpired outcome it answers is settled in its receipt, at the first item of
\* the device that is unknown there, if the receipt has a result by then.
Observed(d, s) ==
    /\ seen' = [seen EXCEPT ![d] = s]
    /\ pending' = {p \in pending : p.device # d \/ (~p.expired /\ p \notin Answered(d, s))}
    /\ receipt' =
        [r \in Requests |->
            LET n == Cardinality({p \in Answered(d, s) : p.request = r}) IN
            IF n > 0 /\ receipt[r] # None /\ receipt[r].result # None
            THEN [receipt[r] EXCEPT !.result = SettleFirst(n, r, d)]
            ELSE receipt[r]]

-----------------------------------------------------------------------------
(* Admission of a request, under the Owner lock. *)

\* Mutant: a repeat does not look for the call in flight.
BeginUnaware(c, r, k) ==
    /\ calls[c] = Idle
    /\ receipt[r] \in {None, [content |-> k, result |-> None]}
    /\ receipt' = [receipt EXCEPT ![r] = [content |-> k, result |-> None]]
    /\ calls' = [calls EXCEPT ![c] =
            [phase |-> "registry", request |-> r, content |-> k, late |-> FALSE]]
    /\ UNCHANGED <<queue, pending, seen, device, accepted, handed>>

\* Mutant: any receipt of the same content is begun again.
BeginOver(c, r, k) ==
    /\ calls[c] = Idle
    /\ Carriers(r) = {}
    /\ IF receipt[r] = None THEN TRUE ELSE receipt[r].content = k
    /\ receipt' = [receipt EXCEPT ![r] = [content |-> k, result |-> None]]
    /\ calls' = [calls EXCEPT ![c] =
            [phase |-> "registry", request |-> r, content |-> k, late |-> FALSE]]
    /\ UNCHANGED <<queue, pending, seen, device, accepted, handed>>

\* A content other than the recorded one is refused and a recorded result is
\* answered; neither changes anything.  What is on record and carried by nobody
\* is carried out by this call.
Begin(c, r, k) ==
    /\ calls[c] = Idle
    /\ receipt[r] \in {None, [content |-> k, result |-> None]}
    /\ receipt' = [receipt EXCEPT ![r] = [content |-> k, result |-> None]]
    /\ calls' = [calls EXCEPT ![c] =
            IF Carriers(r) = {}
            THEN [phase |-> "registry", request |-> r, content |-> k, late |-> FALSE]
            ELSE [phase |-> "waiting", request |-> r, on |-> CHOOSE x \in Carriers(r) : TRUE]]
    /\ UNCHANGED <<queue, pending, seen, device, accepted, handed>>

\* The deadline had passed when the request came: it is refused as a whole.
BeginLate(r, k) ==
    /\ receipt[r] \in {None, [content |-> k, result |-> None]}
    /\ Carriers(r) = {}
    /\ receipt' = [receipt EXCEPT ![r] = [content |-> k, result |-> <<>>]]
    /\ UNCHANGED <<calls, queue, pending, seen, device, accepted, handed>>

\* The registry is read and the commands go to the locks of their devices, in
\* order; those of an unknown or orphaned device, or not valid for it, fail here.
ReadRegistry(c) ==
    /\ calls[c].phase = "registry"
    /\ LET commands == Commands[calls[c].content] IN
       \E known \in SUBSET DOMAIN commands :
        /\ calls' = [calls EXCEPT ![c] =
                [phase |-> "commands", request |-> @.request, content |-> @.content,
                 late |-> @.late,
                 item |-> [i \in DOMAIN commands |-> IF i \in known THEN "queued" ELSE "failed"]]]
        /\ queue' = [d \in Devices |->
                queue[d] \o [n \in 1..Cardinality({i \in known : commands[i].device = d}) |->
                    <<c, CHOOSE i \in known :
                            /\ commands[i].device = d
                            /\ Cardinality({j \in known : commands[j].device = d /\ j < i}) = n - 1>>]]
    /\ UNCHANGED <<receipt, pending, seen, device, accepted, handed>>

\* The scene is not in the registry.
RefuseScene(c) ==
    /\ calls[c].phase = "registry"
    /\ receipt' = [receipt EXCEPT ![calls[c].request].result = <<>>]
    /\ calls' = Released(c)
    /\ UNCHANGED <<queue, pending, seen, device, accepted, handed>>

\* System Data does not answer: the call and its waiters raise, and the receipt
\* stays in flight for the next repeat.
FailRegistry(c) ==
    /\ calls[c].phase = "registry"
    /\ calls' = Released(c)
    /\ UNCHANGED <<receipt, queue, pending, seen, device, accepted, handed>>

DeadlinePasses(c) ==
    /\ calls[c].phase \in {"registry", "commands"}
    /\ ~calls[c].late
    /\ calls' = [calls EXCEPT ![c].late = TRUE]
    /\ UNCHANGED <<receipt, queue, pending, seen, device, accepted, handed>>

-----------------------------------------------------------------------------
(* A command, holding the lock of its device. *)

Start(c, i) ==
    /\ HoldsLock(c, i) /\ calls[c].item[i] = "queued"
    /\ ~calls[c].late
    /\ calls' = WithItem(c, i, "running")
    /\ accepted' = accepted \cup {<<calls[c].request, i, CommandOf(c, i)>>}
    /\ handed' = handed \cup {<<calls[c].request, i>>}
    /\ UNCHANGED <<receipt, queue, pending, seen, device>>

StartTooLate(c, i) ==
    /\ HoldsLock(c, i) /\ calls[c].item[i] = "queued"
    /\ calls[c].late
    /\ calls' = WithItem(c, i, "failed")
    /\ queue' = Unlocked(CommandOf(c, i).device)
    /\ UNCHANGED <<receipt, pending, seen, device, accepted, handed>>

Running(c, i) == HoldsLock(c, i) /\ calls[c].item[i] = "running"

\* The Provider answers with the state after the command.
Confirm(c, i) ==
    /\ Running(c, i)
    /\ <<calls[c].request, i, CommandOf(c, i)>> \notin accepted
    /\ LET d == CommandOf(c, i).device IN
        /\ calls' = WithItem(c, i, "succeeded")
        /\ queue' = Unlocked(d)
        /\ Observed(d, device[d])
    /\ UNCHANGED <<device, accepted, handed>>

\* The platform took the instruction in its own words; no state was observed.
Delegate(c, i) ==
    /\ Running(c, i)
    /\ LET d == CommandOf(c, i).device IN
        /\ calls' = WithItem(c, i, "delegated")
        /\ queue' = Unlocked(d)
        /\ Observed(d, None)
    /\ UNCHANGED <<device, accepted, handed>>

\* SmartHomeError: refused without acting, or answered with a state its device
\* cannot have.
Refuse(c, i) ==
    /\ Running(c, i)
    /\ calls' = WithItem(c, i, "failed")
    /\ queue' = Unlocked(CommandOf(c, i).device)
    /\ accepted' = accepted \ {<<calls[c].request, i, CommandOf(c, i)>>}
    /\ UNCHANGED <<receipt, pending, seen, device, handed>>

\* TimeoutError, of the deadline or of the Provider's own making.
TimeOut(c, i) ==
    /\ Running(c, i)
    /\ LET d == CommandOf(c, i).device IN
        /\ calls' = WithItem(c, i, "unknown")
        /\ queue' = Unlocked(d)
        /\ pending' = pending \cup
            {[request |-> calls[c].request, index |-> i, device |-> d,
              does |-> CommandOf(c, i).does, before |-> seen[d], expired |-> FALSE]}
    /\ UNCHANGED <<receipt, seen, device, accepted, handed>>

\* Any other exception of the Provider: unknown, and nothing waits for it.
Break(c, i) ==
    /\ Running(c, i)
    /\ calls' = WithItem(c, i, "unknown")
    /\ queue' = Unlocked(CommandOf(c, i).device)
    /\ UNCHANGED <<receipt, pending, seen, device, accepted, handed>>

\* All commands are done: the result is recorded before anyone is told.
Complete(c) ==
    /\ calls[c].phase = "commands"
    /\ \A i \in Items(c) : calls[c].item[i] \in Outcomes
    /\ receipt' = [receipt EXCEPT ![calls[c].request].result = calls[c].item]
    /\ calls' = Released(c)
    /\ UNCHANGED <<queue, pending, seen, device, accepted, handed>>

-----------------------------------------------------------------------------
(* Observations, time, restarts and what is outside. *)

\* An adapter reports a device, or a registry refresh polls it: its state, or
\* that it cannot be reached.
Observe(d) ==
    /\ \E s \in {device[d], None} : Observed(d, s)
    /\ UNCHANGED <<calls, queue, device, accepted, handed>>

\* RECONCILE_WINDOW_MS has passed since the command timed out.
Expire(p) ==
    /\ ~p.expired
    /\ pending' = (pending \ {p}) \cup {[p EXCEPT !.expired = TRUE]}
    /\ UNCHANGED <<receipt, calls, queue, seen, device, accepted, handed>>

\* IDEMPOTENCY_WINDOW_MS has passed, long after the reconcile window of every
\* command: the next submission begins anew.
Lapse(r) ==
    /\ receipt[r] # None
    /\ Carriers(r) = {}
    /\ \A p \in pending : p.request = r => p.expired
    /\ receipt' = [receipt EXCEPT ![r] = None]
    /\ handed' = {h \in handed : h[1] # r}
    /\ UNCHANGED <<calls, queue, pending, seen, device, accepted>>

\* The process dies and starts again: receipts and observations are on disk.
Restart ==
    /\ calls' = [c \in Calls |-> Idle]
    /\ queue' = [d \in Devices |-> <<>>]
    /\ pending' = {}
    /\ handed' = {}
    /\ UNCHANGED <<receipt, seen, device, accepted>>

\* A command handed again after a restart joins the one still open.
Act(a) ==
    /\ accepted' = accepted \ {a}
    /\ device' = [device EXCEPT ![a[3].device] = EffectOf(a[3].does, @)]
    /\ UNCHANGED <<receipt, calls, queue, pending, seen, handed>>

OtherActs(d) ==
    /\ OthersAct
    /\ device' = [device EXCEPT ![d] = EffectOf("toggle", @)]
    /\ UNCHANGED <<receipt, calls, queue, pending, seen, accepted, handed>>

-----------------------------------------------------------------------------
CallStep(c) ==
    \/ ReadRegistry(c) \/ RefuseScene(c) \/ FailRegistry(c)
    \/ DeadlinePasses(c) \/ Complete(c)

CommandStep(c, i) ==
    \/ Start(c, i) \/ StartTooLate(c, i) \/ Confirm(c, i) \/ Delegate(c, i)
    \/ Refuse(c, i) \/ TimeOut(c, i) \/ Break(c, i)

Next ==
    \/ \E c \in Calls, r \in Requests, k \in Contents : Begin(c, r, k)
    \/ \E r \in Requests, k \in Contents : BeginLate(r, k)
    \/ \E c \in Calls : CallStep(c) \/ \E i \in Items(c) : CommandStep(c, i)
    \/ \E d \in Devices : Observe(d) \/ OtherActs(d)
    \/ \E p \in pending : Expire(p)
    \/ \E r \in Requests : Lapse(r)
    \/ \E a \in accepted : Act(a)
    \/ Restart

Spec == Init /\ [][Next]_vars

\* The event loop goes on, time passes, and asyncio.timeout fires at the
\* deadline.  No answer of Provider or registry is assumed: the registry client
\* has a timeout, after which FailRegistry is what happens.
Progress ==
    \A c \in Calls :
        /\ WF_vars(DeadlinePasses(c))
        /\ WF_vars(ReadRegistry(c) \/ RefuseScene(c) \/ FailRegistry(c))
        /\ WF_vars(Complete(c))
        /\ WF_vars(\E i \in Items(c) : Start(c, i) \/ StartTooLate(c, i))
        /\ WF_vars(calls[c].phase = "commands" /\ calls[c].late /\ \E i \in Items(c) : TimeOut(c, i))

FairSpec == Spec /\ Progress

-----------------------------------------------------------------------------
(* Properties. *)

\* Types of the tables, of the calls in flight and of the device locks.
TypeOK ==
    /\ receipt \in [Requests -> {None} \cup InFlight \cup Completed]
    /\ calls \in [Calls -> Call]
    /\ \A d \in Devices : queue[d] \in Seq(Calls \X Nat)
    /\ pending \subseteq Pending
    /\ seen \in [Devices -> States \cup {None}]
    /\ device \in [Devices -> States]
    /\ accepted \subseteq Requests \X Nat \X Command
    /\ handed \subseteq Requests \X Nat

\* However often a request is repeated, and however its calls overlap, a process
\* hands each of its commands to the Provider once (runtime.py, "a request is
\* idempotent by (scope, request_id)").
HandedOnce ==
    [][\A c \in Calls : \A i \in Items(c) : Start(c, i) => <<calls[c].request, i>> \notin handed]_vars

\* A receipt keeps what was submitted and what came of it: within its window only
\* an unknown outcome changes, and only to a success an observation showed; a
\* delegated one is never upgraded (runtime.py, the module's guarantees).
ReceiptIsStable ==
    [][\A r \in Requests :
        (receipt[r] # None /\ receipt'[r] # None) =>
            /\ receipt'[r].content = receipt[r].content
            /\ receipt[r].result # None =>
                /\ receipt'[r].result # None
                /\ DOMAIN receipt'[r].result = DOMAIN receipt[r].result
                /\ \A i \in DOMAIN receipt[r].result :
                    \/ receipt'[r].result[i] = receipt[r].result[i]
                    \/ receipt[r].result[i] = "unknown" /\ receipt'[r].result[i] = "succeeded"]_vars

\* What has become of the commands of a request so far.
OutcomeOf(r) ==
    IF receipt[r] # None /\ receipt[r].result # None THEN receipt[r].result
    ELSE IF \E c \in Carriers(r) : calls[c].phase = "commands"
         THEN calls[CHOOSE c \in Carriers(r) : calls[c].phase = "commands"].item
         ELSE <<>>

\* What waits for an observation of d, and what is unknown, of request r.
Waiting(r, d) == {p \in pending : p.request = r /\ p.device = d /\ ~p.expired}
Unknown(r, d) ==
    {i \in DOMAIN OutcomeOf(r) :
        OutcomeOf(r)[i] = "unknown" /\ Commands[receipt[r].content][i].device = d}

\* Whatever waits for an observation has an unknown outcome of its own to settle:
\* no observation can settle more outcomes than were left unknown.
PendingIsUnknown ==
    \A r \in Requests, d \in Devices : Cardinality(Waiting(r, d)) <= Cardinality(Unknown(r, d))

\* Every execution answers or raises once its deadline has passed, whatever the
\* Provider, the device lock and the call it waits for do.
CallsReturn == \A c \in Calls : (calls[c] # Idle) ~> (calls[c] = Idle)

\* runtime.py:322, "settle any unknown outcome it answers": an outcome is dropped
\* as answered only as its receipt says so.
AnswersSettle ==
    [][\A d \in Devices : Observe(d) =>
        \A p \in pending \ pending' : ~p.expired => receipt'[p.request] # receipt[p.request]]_vars

\* effects.py:17, "whether `after` shows `command` took effect": where nobody else
\* operates the devices, no outcome is settled as a success before the Provider acted.
SettledTookEffect ==
    [][\A d \in Devices : Observe(d) =>
        \A p \in pending \ pending' :
            receipt'[p.request] # receipt[p.request] =>
                \A a \in accepted : ~(a[1] = p.request /\ a[2] = p.index)]_vars

\* runtime.py:322 again, of the item: what an observation settles is the outcome of a
\* command it answers.
SettlesItsOwn ==
    [][\A d \in Devices : Observe(d) =>
        \A r \in Requests :
            receipt'[r] # receipt[r] =>
                \A i \in DOMAIN receipt[r].result :
                    receipt'[r].result[i] # receipt[r].result[i] =>
                        \E p \in pending : p.request = r /\ p.index = i]_vars

=============================================================================
