----------------------- MODULE SmartHomeRuntimeProofs -----------------------
(***************************************************************************)
(* What a request in the smart-home runtime is promised, for every number  *)
(* of devices, requests, overlapping calls and commands of a content.      *)
(*                                                                         *)
(* HandedOnce is kept by the pair of receipt and call in flight: whatever  *)
(* was handed to the Provider belongs to a request whose receipt has a     *)
(* result, or to the one call that carries it, past that item.  A receipt  *)
(* without a result cannot be begun again while a call carries it, and a   *)
(* call carries exactly what its receipt says.                             *)
(*                                                                         *)
(* PendingIsUnknown counts: what waits for an observation is never more    *)
(* than what is unknown.  Both counts move in the same steps, a time-out   *)
(* adds one to each, and an observation that answers n takes n from the    *)
(* first and at most n from the second (FirstOnesAreCounted).  The outcome *)
(* of a command moves from its call to its receipt, which OutcomeOf        *)
(* follows (OutcomeIs); the counts need both finite (CountsAreFinite).     *)
(***************************************************************************)
EXTENDS SmartHomeRuntime, SequenceTheorems, FiniteSetTheorems, TLAPS

Statuses == Outcomes \cup {"queued", "running"}
Carries(c) == calls[c].phase \in {"registry", "commands"}
HasResult(r) == receipt[r] # None /\ receipt[r].result # None

\* The types the proofs need; the order of the device locks is not among them
RuntimeTypes ==
    /\ receipt \in [Requests -> {None} \cup InFlight \cup Completed]
    /\ calls \in [Calls -> Call]
    /\ pending \subseteq Pending
    /\ seen \in [Devices -> States \cup {None}]
    /\ device \in [Devices -> States]
    /\ accepted \subseteq Requests \X Nat \X Command
    /\ handed \subseteq Requests \X Nat

\* A request is carried by one call, and as its receipt says
CarriersAreAlone ==
    \A c, x \in Calls : Carries(c) /\ Carries(x) /\ calls[c].request = calls[x].request => c = x

CarriedIsInFlight ==
    \A c \in Calls :
        Carries(c) => receipt[calls[c].request] = [content |-> calls[c].content, result |-> None]

\* A call that runs commands has one item for each
ItemsAreCommands ==
    \A c \in Calls :
        calls[c].phase = "commands" => DOMAIN calls[c].item = DOMAIN Commands[calls[c].content]

\* A call that carries a request is past this item
IsPast(c, r, i) ==
    /\ calls[c].phase = "commands" /\ calls[c].request = r
    /\ i \in DOMAIN calls[c].item /\ calls[c].item[i] # "queued"

HandedIsOver ==
    \A h \in handed : HasResult(h[1]) \/ \E c \in Calls : IsPast(c, h[1], h[2])

RequestsInv ==
    RuntimeTypes /\ CarriersAreAlone /\ CarriedIsInFlight /\ ItemsAreCommands /\ HandedIsOver

------------------------------------------------------------------------------
(* Types. *)

LEMMA CallTypes ==
    ASSUME RuntimeTypes, NEW c \in Calls
    PROVE  /\ calls[c] \in Call
           /\ Carries(c) => /\ calls[c].request \in Requests /\ calls[c].content \in Contents
                            /\ calls[c].late \in BOOLEAN
           /\ calls[c].phase = "commands" => /\ calls[c].item \in Seq(Statuses)
                                             /\ "item" \in DOMAIN calls[c]
           /\ calls[c] = Idle => calls[c].phase = "idle"
  BY DEF RuntimeTypes, Call, Idle, Carries, Statuses

LEMMA ItemIsSeq ==
    ASSUME NEW S, NEW s \in Seq(S), NEW i \in DOMAIN s, NEW e \in S
    PROVE  /\ [s EXCEPT ![i] = e] \in Seq(S)
           /\ DOMAIN [s EXCEPT ![i] = e] = DOMAIN s
<1>1. DOMAIN s = 1..Len(s)
  BY LenProperties
<1>2. QED
  BY <1>1, ExceptSeq

LEMMA InitEstablishesInv ==
    ASSUME RuntimeAssumption, Init
    PROVE  RequestsInv
  BY DEF Init, RequestsInv, RuntimeTypes, CarriersAreAlone, CarriedIsInFlight,
         ItemsAreCommands, HandedIsOver, Carries, Idle, Call

\* The call c goes on as k, which carries what c carried
LEMMA CarrierGoesOn ==
    ASSUME RuntimeAssumption, RequestsInv, NEW c \in Calls, Carries(c), NEW k \in Call,
           k.phase \in {"registry", "commands"},
           k.request = calls[c].request, k.content = calls[c].content,
           k.phase = "commands" => DOMAIN k.item = DOMAIN Commands[k.content],
           calls[c].phase = "commands" =>
              /\ k.phase = "commands" /\ DOMAIN k.item = DOMAIN calls[c].item
              /\ \A i \in DOMAIN k.item : k.item[i] = "queued" => calls[c].item[i] = "queued",
           calls' = [calls EXCEPT ![c] = k],
           \A r \in Requests : ~HasResult(r) => receipt'[r] = receipt[r],
           \A r \in Requests : HasResult(r) => HasResult(r)',
           RuntimeTypes'
    PROVE  /\ CarriersAreAlone' /\ CarriedIsInFlight' /\ ItemsAreCommands'
           /\ handed' = handed => HandedIsOver'
           /\ \A h \in handed : HasResult(h[1])' \/ \E x \in Calls : IsPast(x, h[1], h[2])'
<1>1. \A x \in Calls : calls'[x] = IF x = c THEN k ELSE calls[x]
  BY DEF RequestsInv, RuntimeTypes
<1>2. \A x \in Calls : /\ Carries(x)' <=> Carries(x)
                       /\ Carries(x) => /\ calls'[x].request = calls[x].request
                                        /\ calls'[x].content = calls[x].content
  BY <1>1 DEF Carries
<1>3. CarriersAreAlone'
  BY <1>2 DEF RequestsInv, CarriersAreAlone
<1>4. \A x \in Calls : Carries(x) => calls[x].request \in Requests /\ ~HasResult(calls[x].request)
  <2> SUFFICES ASSUME NEW x \in Calls, Carries(x)
               PROVE  calls[x].request \in Requests /\ ~HasResult(calls[x].request)
    OBVIOUS
  <2>1. receipt[calls[x].request] = [content |-> calls[x].content, result |-> None]
    BY DEF RequestsInv, CarriedIsInFlight
  <2>2. receipt[calls[x].request].result = None
    BY <2>1
  <2>3. QED
    BY <2>2, CallTypes DEF RequestsInv, HasResult
<1>5. CarriedIsInFlight'
  BY <1>2, <1>4 DEF RequestsInv, CarriedIsInFlight
<1>6. ASSUME NEW x \in Calls, NEW r, NEW i, IsPast(x, r, i)
      PROVE  IsPast(x, r, i)'
  BY <1>1, <1>6 DEF IsPast
<1>7. \A h \in handed : HasResult(h[1])' \/ \E x \in Calls : IsPast(x, h[1], h[2])'
  <2> SUFFICES ASSUME NEW h \in handed
               PROVE  HasResult(h[1])' \/ \E x \in Calls : IsPast(x, h[1], h[2])'
    OBVIOUS
  <2>1. h[1] \in Requests
    BY DEF RequestsInv, RuntimeTypes
  <2>2. QED
    BY <1>6, <2>1 DEF RequestsInv, HandedIsOver
<1>8. ItemsAreCommands'
  BY <1>1 DEF RequestsInv, ItemsAreCommands
<1>9. QED
  BY <1>3, <1>5, <1>7, <1>8 DEF HandedIsOver

\* Calls that end, or wait, carry nothing
LEMMA CallsEnd ==
    ASSUME RuntimeAssumption, RequestsInv,
           \A x \in Calls : calls'[x] = calls[x] \/ ~Carries(x)',
           \A x \in Calls : Carries(x)' => receipt'[calls[x].request] = receipt[calls[x].request],
           RuntimeTypes'
    PROVE  CarriersAreAlone' /\ CarriedIsInFlight' /\ ItemsAreCommands'
<1>1. \A x \in Calls : Carries(x)' => Carries(x) /\ calls'[x] = calls[x]
  BY DEF Carries
<1>2. ItemsAreCommands'
  <2>1. \A x \in Calls : calls'[x].phase = "commands" => calls'[x] = calls[x]
    BY DEF Carries
  <2>2. QED
    BY <2>1 DEF RequestsInv, ItemsAreCommands
<1>3. QED
  BY <1>1, <1>2 DEF RequestsInv, CarriersAreAlone, CarriedIsInFlight

------------------------------------------------------------------------------
(* The steps of a call. *)

LEMMA BeginKeepsInv ==
    ASSUME RuntimeAssumption, RequestsInv, NEW c \in Calls, NEW r \in Requests,
           NEW k \in Contents, Begin(c, r, k)
    PROVE  RequestsInv'
<1> DEFINE new == [phase |-> "registry", request |-> r, content |-> k, late |-> FALSE]
           joins == [phase |-> "waiting", request |-> r, on |-> CHOOSE x \in Carriers(r) : TRUE]
<1>1. /\ calls[c] = Idle /\ ~Carries(c) /\ calls[c].phase = "idle"
      /\ receipt[r] \in {None, [content |-> k, result |-> None]}
      /\ receipt' = [receipt EXCEPT ![r] = [content |-> k, result |-> None]]
      /\ calls' = [calls EXCEPT ![c] = IF Carriers(r) = {} THEN new ELSE joins]
      /\ UNCHANGED <<pending, seen, device, accepted, handed>>
  BY DEF Begin, Idle, Carries
<1>2. ~HasResult(r) /\ \A q \in Requests : HasResult(q)' <=> HasResult(q)
  BY <1>1 DEF HasResult, RequestsInv, RuntimeTypes, RuntimeAssumption, InFlight
<1>3. (IF Carriers(r) = {} THEN new ELSE joins) \in Call
  BY DEF Call, Carriers
<1>4. RuntimeTypes'
  BY <1>1, <1>3 DEF RequestsInv, RuntimeTypes, InFlight
<1>5. \A x \in Calls : calls'[x] = IF x # c THEN calls[x]
                                  ELSE IF Carriers(r) = {} THEN new ELSE joins
  BY <1>1 DEF RequestsInv, RuntimeTypes
<1>6. \A x \in Calls : x # c => (Carries(x)' <=> Carries(x))
  BY <1>5 DEF Carries
<1>7. \A x \in Calls : Carries(x) /\ calls[x].request = r <=> x \in Carriers(r)
  BY DEF Carries, Carriers
<1>8. CarriersAreAlone'
  <2>1. calls'[c].request = r /\ (Carries(c)' => Carriers(r) = {})
    <3>1. calls'[c] = new \/ calls'[c] = joins
      BY <1>5
    <3>2. new.request = r /\ joins.request = r /\ joins.phase = "waiting"
      OBVIOUS
    <3>3. Carriers(r) # {} => calls'[c] = joins
      BY <1>5
    <3>4. QED
      BY <3>1, <3>2, <3>3 DEF Carries
  <2>2. \A x \in Calls : x # c /\ Carries(x)' => Carries(x) /\ calls'[x].request = calls[x].request
    BY <1>5, <1>6
  <2>3. QED
    BY <1>7, <2>1, <2>2 DEF RequestsInv, CarriersAreAlone
<1>9. CarriedIsInFlight'
  <2> SUFFICES ASSUME NEW x \in Calls, Carries(x)'
               PROVE  receipt'[calls'[x].request] =
                          [content |-> calls'[x].content, result |-> None]
    BY DEF CarriedIsInFlight
  <2>1. CASE x = c
    BY <1>1, <1>5, <2>1 DEF Carries, RequestsInv, RuntimeTypes
  <2>2. CASE x # c
    <3>1. /\ Carries(x) /\ calls'[x] = calls[x] /\ calls[x].request \in Requests
          /\ receipt[calls[x].request] = [content |-> calls[x].content, result |-> None]
      BY <1>5, <1>6, <2>2, CallTypes DEF RequestsInv, CarriedIsInFlight
    <3>2. CASE calls[x].request = r
      <4>1. receipt[r] # None
        BY <3>1, <3>2, CallTypes DEF RuntimeAssumption, InFlight, RequestsInv
      <4>2. receipt'[r] = receipt[r]
        BY <1>1, <4>1 DEF RequestsInv, RuntimeTypes
      <4>3. QED
        BY <3>1, <3>2, <4>2
    <3>3. CASE calls[x].request # r
      BY <1>1, <3>1, <3>3 DEF RequestsInv, RuntimeTypes
    <3>4. QED
      BY <3>2, <3>3
  <2>3. QED
    BY <2>1, <2>2
<1>10. HandedIsOver'
  <2> SUFFICES ASSUME NEW h \in handed
               PROVE  HasResult(h[1])' \/ \E x \in Calls : IsPast(x, h[1], h[2])'
    BY <1>1 DEF HandedIsOver
  <2>1. h[1] \in Requests
    BY DEF RequestsInv, RuntimeTypes
  <2>2. \A x \in Calls : IsPast(x, h[1], h[2]) => IsPast(x, h[1], h[2])'
    BY <1>1, <1>5 DEF IsPast, Idle
  <2>3. QED
    BY <1>2, <2>1, <2>2 DEF RequestsInv, HandedIsOver
<1>11. ItemsAreCommands'
  <2>1. new.phase = "registry" /\ joins.phase = "waiting"
    OBVIOUS
  <2>2. \A x \in Calls : calls'[x].phase = "commands" => calls'[x] = calls[x]
    BY <1>5, <2>1
  <2>3. QED
    BY <2>2 DEF RequestsInv, ItemsAreCommands
<1>12. QED
  BY <1>4, <1>8, <1>9, <1>10, <1>11 DEF RequestsInv

LEMMA BeginLateKeepsInv ==
    ASSUME RuntimeAssumption, RequestsInv, NEW r \in Requests, NEW k \in Contents, BeginLate(r, k)
    PROVE  RequestsInv'
<1>1. /\ receipt[r] \in {None, [content |-> k, result |-> None]}
      /\ Carriers(r) = {}
      /\ receipt' = [receipt EXCEPT ![r] = [content |-> k, result |-> <<>>]]
      /\ UNCHANGED <<calls, pending, seen, device, accepted, handed>>
  BY DEF BeginLate
<1>2. <<>> \in Seq(Outcomes) /\ [content |-> k, result |-> <<>>] \in Completed
  BY DEF Completed
<1>3. RuntimeTypes'
  BY <1>1, <1>2 DEF RequestsInv, RuntimeTypes
<1>4. /\ \A q \in Requests : HasResult(q) => HasResult(q)'
  BY <1>1, <1>2 DEF HasResult, RequestsInv, RuntimeTypes, RuntimeAssumption
<1>5. \A x \in Calls : Carries(x)' => /\ Carries(x)
                                     /\ receipt'[calls[x].request] = receipt[calls[x].request]
  BY <1>1, CallTypes DEF Carries, Carriers, RequestsInv, RuntimeTypes
<1>6. CarriersAreAlone' /\ CarriedIsInFlight' /\ ItemsAreCommands'
  BY <1>1, <1>3, <1>5, CallsEnd
<1>7. HandedIsOver'
  <2> SUFFICES ASSUME NEW h \in handed
               PROVE  HasResult(h[1])' \/ \E x \in Calls : IsPast(x, h[1], h[2])'
    BY <1>1 DEF HandedIsOver
  <2>1. h[1] \in Requests
    BY DEF RequestsInv, RuntimeTypes
  <2>2. QED
    BY <1>1, <1>4, <2>1 DEF IsPast, RequestsInv, HandedIsOver
<1>8. QED
  BY <1>3, <1>6, <1>7 DEF RequestsInv

LEMMA ReadRegistryKeepsInv ==
    ASSUME RuntimeAssumption, RequestsInv, NEW c \in Calls, ReadRegistry(c)
    PROVE  RequestsInv'
<1> DEFINE commands == Commands[calls[c].content]
           items(known) == [i \in DOMAIN commands |-> IF i \in known THEN "queued" ELSE "failed"]
           k(known) == [phase |-> "commands", request |-> calls[c].request,
                        content |-> calls[c].content, late |-> calls[c].late,
                        item |-> items(known)]
<1>1. /\ calls[c].phase = "registry" /\ Carries(c)
      /\ UNCHANGED <<receipt, pending, seen, device, accepted, handed>>
  BY DEF ReadRegistry, Carries
<1>2. PICK known : calls' = [calls EXCEPT ![c] = k(known)]
  BY DEF ReadRegistry, RequestsInv, RuntimeTypes
<1>3. commands \in Seq(Command)
  BY <1>1, CallTypes DEF RuntimeAssumption, RequestsInv
<1>4. items(known) \in Seq(Statuses)
  <2>1. DOMAIN commands = 1..Len(commands) /\ Len(commands) \in Nat
    BY <1>3, LenProperties
  <2>2. items(known) \in [1..Len(commands) -> Statuses]
    BY <2>1 DEF Statuses, Outcomes
  <2>3. QED
    BY <2>1, <2>2, SeqDef
<1>5. k(known) \in Call
  BY <1>1, <1>4, CallTypes DEF Call, Statuses, RequestsInv
<1>6. RuntimeTypes'
  BY <1>1, <1>2, <1>5 DEF RequestsInv, RuntimeTypes
<1>7. /\ k(known).phase = "commands"
      /\ k(known).request = calls[c].request /\ k(known).content = calls[c].content
      /\ DOMAIN k(known).item = DOMAIN Commands[k(known).content]
  OBVIOUS
<1> HIDE DEF k
<1>8. \A r \in Requests : HasResult(r) => HasResult(r)'
  BY <1>1 DEF HasResult
<1>9. CarriersAreAlone' /\ CarriedIsInFlight' /\ ItemsAreCommands' /\ HandedIsOver'
  BY <1>1, <1>2, <1>5, <1>6, <1>7, <1>8, CarrierGoesOn
<1>10. QED
  BY <1>6, <1>9 DEF RequestsInv

LEMMA DeadlineKeepsInv ==
    ASSUME RuntimeAssumption, RequestsInv, NEW c \in Calls, DeadlinePasses(c)
    PROVE  RequestsInv'
<1> DEFINE k == [calls[c] EXCEPT !.late = TRUE]
<1>1. /\ Carries(c) /\ calls' = [calls EXCEPT ![c] = k]
      /\ UNCHANGED <<receipt, pending, seen, device, accepted, handed>>
  BY DEF DeadlinePasses, Carries, RequestsInv, RuntimeTypes
<1>2. /\ k \in Call /\ k.phase = calls[c].phase /\ k.phase \in {"registry", "commands"}
      /\ k.request = calls[c].request /\ k.content = calls[c].content
      /\ calls[c].phase = "commands" => k.item = calls[c].item
  BY <1>1, CallTypes DEF Call, Idle, Carries, RequestsInv
<1> HIDE DEF k
<1>3. RuntimeTypes'
  BY <1>1, <1>2 DEF RequestsInv, RuntimeTypes
<1>4. \A r \in Requests : HasResult(r) => HasResult(r)'
  BY <1>1 DEF HasResult
<1>5. CarriersAreAlone' /\ CarriedIsInFlight' /\ ItemsAreCommands' /\ HandedIsOver'
  BY <1>1, <1>2, <1>3, <1>4, CarrierGoesOn DEF RequestsInv, ItemsAreCommands
<1>6. QED
  BY <1>3, <1>5 DEF RequestsInv

\* A call that ends is taken from those that carry, its waiters wait no more
LEMMA ReleasedCalls ==
    ASSUME RequestsInv, NEW c \in Calls, calls' = Released(c)
    PROVE  /\ calls' \in [Calls -> Call]
           /\ \A x \in Calls : calls'[x] = calls[x] \/ ~Carries(x)'
           /\ \A x \in Calls : Carries(x)' => x # c /\ Carries(x) /\ calls'[x] = calls[x]
           /\ \A x \in Calls : x # c /\ Carries(x) => calls'[x] = calls[x]
  BY DEF Released, RequestsInv, RuntimeTypes, Call, Carries, Idle

LEMMA FailRegistryKeepsInv ==
    ASSUME RuntimeAssumption, RequestsInv, NEW c \in Calls, FailRegistry(c)
    PROVE  RequestsInv'
<1>1. /\ calls[c].phase = "registry" /\ calls' = Released(c)
      /\ UNCHANGED <<receipt, pending, seen, device, accepted, handed>>
  BY DEF FailRegistry
<1>2. RuntimeTypes'
  BY <1>1, ReleasedCalls DEF RequestsInv, RuntimeTypes
<1>3. CarriersAreAlone' /\ CarriedIsInFlight' /\ ItemsAreCommands'
  BY <1>1, <1>2, ReleasedCalls, CallsEnd
<1>4. \A x \in Calls : \A r, i : IsPast(x, r, i) => IsPast(x, r, i)'
  BY <1>1, ReleasedCalls DEF IsPast, Carries
<1>5. HandedIsOver'
  BY <1>1, <1>4 DEF RequestsInv, HandedIsOver, HasResult
<1>6. QED
  BY <1>2, <1>3, <1>5 DEF RequestsInv

\* The result of a request is recorded and its call ends
LEMMA RecordKeepsInv ==
    ASSUME RuntimeAssumption, RequestsInv, NEW c \in Calls, Carries(c),
           NEW res \in Seq(Outcomes),
           receipt' = [receipt EXCEPT ![calls[c].request].result = res],
           calls' = Released(c),
           UNCHANGED <<pending, seen, device, accepted, handed>>
    PROVE  RequestsInv'
<1>1. PICK r \in Requests : r = calls[c].request
  BY CallTypes DEF RequestsInv
<1>2. calls[c].content \in Contents
      /\ receipt[r] = [content |-> calls[c].content, result |-> None]
  BY <1>1, CallTypes DEF RequestsInv, CarriedIsInFlight
<1>3. receipt'[r] = [content |-> calls[c].content, result |-> res]
      /\ \A q \in Requests \ {r} : receipt'[q] = receipt[q]
  BY <1>1, <1>2 DEF RequestsInv, RuntimeTypes
<1>4. receipt'[r] \in Completed
  BY <1>2, <1>3 DEF Completed
<1>5. RuntimeTypes'
  BY <1>1, <1>4, ReleasedCalls DEF RequestsInv, RuntimeTypes
<1>6. HasResult(r)' /\ \A q \in Requests : HasResult(q) => HasResult(q)'
  <2>1. receipt'[r] # None
    BY <1>4, Zenon DEF RuntimeAssumption
  <2>2. res # None
    BY Zenon DEF RuntimeAssumption
  <2>3. receipt'[r].result # None
    BY <1>3, <2>2
  <2>4. QED
    BY <1>3, <2>1, <2>3 DEF HasResult
<1>7. \A x \in Calls : Carries(x)' =>
          calls[x].request # r /\ receipt'[calls[x].request] = receipt[calls[x].request]
  <2> SUFFICES ASSUME NEW x \in Calls, Carries(x)'
               PROVE  calls[x].request # r /\ calls[x].request \in Requests
    BY <1>3
  <2>1. x # c /\ Carries(x)
    BY ReleasedCalls
  <2>2. QED
    BY <1>1, <2>1, CallTypes DEF RequestsInv, CarriersAreAlone
<1>8. CarriersAreAlone' /\ CarriedIsInFlight' /\ ItemsAreCommands'
  BY <1>5, <1>7, ReleasedCalls, CallsEnd
<1>9. HandedIsOver'
  <2> SUFFICES ASSUME NEW h \in handed, ~HasResult(h[1])'
               PROVE  \E x \in Calls : IsPast(x, h[1], h[2])'
    BY DEF HandedIsOver
  <2>1. h[1] \in Requests /\ h[1] # r
    BY <1>6 DEF RequestsInv, RuntimeTypes
  <2>2. PICK x \in Calls : IsPast(x, h[1], h[2])
    BY <1>6, <2>1 DEF RequestsInv, HandedIsOver
  <2>3. x # c
    BY <1>1, <2>1, <2>2 DEF IsPast
  <2>4. calls'[x] = calls[x]
    BY <2>2, <2>3, ReleasedCalls DEF IsPast, Carries
  <2>5. QED
    BY <2>2, <2>4 DEF IsPast
<1>10. QED
  BY <1>5, <1>8, <1>9 DEF RequestsInv

------------------------------------------------------------------------------
(* The steps of a command, and what is observed. *)

\* An observation leaves receipts without a result alone, and results results
LEMMA ObservedReceipts ==
    ASSUME RuntimeAssumption, RuntimeTypes, NEW d \in Devices, NEW s \in States \cup {None},
           Observed(d, s)
    PROVE  /\ receipt' \in [Requests -> {None} \cup InFlight \cup Completed]
           /\ pending' \subseteq pending
           /\ seen' \in [Devices -> States \cup {None}]
           /\ \A r \in Requests : ~HasResult(r) => receipt'[r] = receipt[r]
           /\ \A r \in Requests : HasResult(r) =>
                 /\ HasResult(r)'
                 /\ receipt'[r].content = receipt[r].content
                 /\ DOMAIN receipt'[r].result = DOMAIN receipt[r].result
                 /\ \A i \in DOMAIN receipt[r].result :
                       \/ receipt'[r].result[i] = receipt[r].result[i]
                       \/ receipt[r].result[i] = "unknown" /\ receipt'[r].result[i] = "succeeded"
<1>1. pending' \subseteq pending /\ seen' \in [Devices -> States \cup {None}]
  BY DEF Observed, RuntimeTypes
<1> DEFINE Kept(r) ==
             /\ receipt'[r] \in {None} \cup InFlight \cup Completed
             /\ ~HasResult(r) => receipt'[r] = receipt[r]
             /\ HasResult(r) =>
                 /\ receipt'[r] # None /\ receipt'[r].result # None
                 /\ receipt'[r].content = receipt[r].content
                 /\ DOMAIN receipt'[r].result = DOMAIN receipt[r].result
                 /\ \A i \in DOMAIN receipt[r].result :
                       \/ receipt'[r].result[i] = receipt[r].result[i]
                       \/ receipt[r].result[i] = "unknown" /\ receipt'[r].result[i] = "succeeded"
<1>2. ASSUME NEW r \in Requests, receipt'[r] = receipt[r]
      PROVE  Kept(r)
  BY <1>2 DEF RuntimeTypes, HasResult
<1>3. ASSUME NEW r \in Requests, NEW n, HasResult(r),
             receipt'[r] = [receipt[r] EXCEPT !.result = SettleFirst(n, r, d)]
      PROVE  Kept(r)
  <2>1. receipt[r] \in Completed
    BY <1>3 DEF HasResult, RuntimeTypes, InFlight
  <2>2. /\ receipt'[r].content = receipt[r].content /\ receipt[r].content \in Contents
        /\ receipt'[r] = [content |-> receipt[r].content, result |-> SettleFirst(n, r, d)]
    BY <1>3, <2>1 DEF Completed
  <2>3. /\ DOMAIN SettleFirst(n, r, d) = DOMAIN receipt[r].result
        /\ \A i \in DOMAIN receipt[r].result :
              \/ SettleFirst(n, r, d)[i] = receipt[r].result[i]
              \/ receipt[r].result[i] = "unknown" /\ SettleFirst(n, r, d)[i] = "succeeded"
    BY DEF SettleFirst
  <2>4. SettleFirst(n, r, d) \in Seq(Outcomes)
    <3>1. receipt[r].result \in Seq(Outcomes)
      BY <2>1 DEF Completed
    <3>2. PICK m \in Nat : receipt[r].result \in [1..m -> Outcomes]
      BY <3>1, SeqDef
    <3>3. SettleFirst(n, r, d) \in [1..m -> Outcomes]
      BY <3>2 DEF SettleFirst, Outcomes
    <3>4. QED
      BY <3>2, <3>3, SeqDef
  <2>5. receipt'[r] \in Completed /\ receipt'[r].result = SettleFirst(n, r, d)
    BY <2>2, <2>4 DEF Completed
  <2>6. receipt'[r] # None /\ receipt'[r].result # None
    BY <2>4, <2>5 DEF RuntimeAssumption
  <2>7. QED
    BY <1>3, <2>2, <2>3, <2>5, <2>6
<1>4. \A r \in Requests : Kept(r)
  <2> SUFFICES ASSUME NEW r \in Requests
               PROVE  Kept(r)
    OBVIOUS
  <2> DEFINE n == Cardinality({p \in Answered(d, s) : p.request = r})
  <2>1. receipt'[r] = IF n > 0 /\ receipt[r] # None /\ receipt[r].result # None
                      THEN [receipt[r] EXCEPT !.result = SettleFirst(n, r, d)]
                      ELSE receipt[r]
    BY DEF Observed
  <2> HIDE DEF n, Kept
  <2>2. CASE n > 0 /\ HasResult(r)
    BY <1>3, <2>1, <2>2 DEF HasResult
  <2>3. CASE ~(n > 0 /\ HasResult(r))
    BY <1>2, <2>1, <2>3 DEF HasResult
  <2>4. QED
    BY <2>2, <2>3
<1>5. DOMAIN receipt' = Requests
  BY DEF Observed
<1>6. \A r \in Requests : HasResult(r) => HasResult(r)'
  BY <1>4 DEF HasResult
<1>7. receipt' \in [Requests -> {None} \cup InFlight \cup Completed]
  <2>1. receipt' = [r \in Requests |-> receipt'[r]]
    BY DEF Observed
  <2>2. QED
    BY <1>4, <2>1
<1>8. QED
  BY <1>1, <1>4, <1>6, <1>7

\* Item i of call c gets status s; receipts stay or are observed
LEMMA ItemKeepsInv ==
    ASSUME RuntimeAssumption, RequestsInv, NEW c \in Calls, NEW i \in Items(c),
           NEW s \in Statuses \ {"queued"}, calls' = WithItem(c, i, s),
           \A r \in Requests : ~HasResult(r) => receipt'[r] = receipt[r],
           \A r \in Requests : HasResult(r) => HasResult(r)',
           receipt' \in [Requests -> {None} \cup InFlight \cup Completed],
           pending' \subseteq Pending, seen' \in [Devices -> States \cup {None}],
           accepted' \subseteq Requests \X Nat \X Command, device' = device,
           handed' \subseteq handed \cup {<<calls[c].request, i>>}
    PROVE  RequestsInv'
<1> DEFINE k == [calls[c] EXCEPT !.item = [calls[c].item EXCEPT ![i] = s]]
<1>1. calls[c].phase = "commands" /\ i \in DOMAIN calls[c].item /\ Carries(c)
  BY DEF Items, Carries
<1>2. calls' = [calls EXCEPT ![c] = k]
  BY DEF WithItem, RequestsInv, RuntimeTypes
<1>3. /\ calls[c].item \in Seq(Statuses)
      /\ calls[c] \in [phase : {"commands"}, request : Requests, content : Contents,
                       late : BOOLEAN, item : Seq(Statuses)]
  BY <1>1 DEF RequestsInv, RuntimeTypes, Call, Idle, Statuses
<1>4. /\ k.item \in Seq(Statuses) /\ DOMAIN k.item = DOMAIN calls[c].item
      /\ k.item[i] = s
      /\ \A j \in DOMAIN k.item : k.item[j] = "queued" => calls[c].item[j] = "queued"
  <2>1. k.item = [calls[c].item EXCEPT ![i] = s]
    BY <1>3
  <2>2. [calls[c].item EXCEPT ![i] = s] \in Seq(Statuses)
    BY <1>1, <1>3, ItemIsSeq
  <2>3. QED
    BY <1>1, <2>1, <2>2
<1>5. /\ k \in Call /\ k.phase = "commands"
      /\ k.request = calls[c].request /\ k.content = calls[c].content
  BY <1>3, <1>4 DEF Call, Statuses
<1> HIDE DEF k
<1>6. \A n \in DOMAIN calls[c].item : n \in Nat
  BY <1>3, LenProperties
<1>7. handed' \subseteq Requests \X Nat
  BY <1>1, <1>3, <1>6 DEF RequestsInv, RuntimeTypes
<1>8. RuntimeTypes'
  BY <1>2, <1>5, <1>7 DEF RequestsInv, RuntimeTypes
<1>9. /\ CarriersAreAlone' /\ CarriedIsInFlight' /\ ItemsAreCommands'
      /\ \A h \in handed : HasResult(h[1])' \/ \E x \in Calls : IsPast(x, h[1], h[2])'
  <2>1. DOMAIN k.item = DOMAIN Commands[k.content]
    BY <1>1, <1>4, <1>5 DEF RequestsInv, ItemsAreCommands
  <2>2. QED
    BY <1>1, <1>2, <1>4, <1>5, <1>8, <2>1, CarrierGoesOn
<1>10. PICK r : r = calls[c].request
  OBVIOUS
<1>11. calls'[c] = k
  BY <1>2 DEF RequestsInv, RuntimeTypes
<1>12. IsPast(c, r, i)'
  BY <1>1, <1>4, <1>5, <1>10, <1>11 DEF IsPast
<1>13. HandedIsOver'
  BY <1>9, <1>10, <1>12 DEF HandedIsOver
<1>14. QED
  BY <1>8, <1>9, <1>13 DEF RequestsInv

LEMMA RunningCommand ==
    ASSUME RuntimeAssumption, RequestsInv, NEW c \in Calls, NEW i \in Items(c)
    PROVE  /\ calls[c].phase = "commands" /\ calls[c].request \in Requests
           /\ calls[c].content \in Contents /\ i \in Nat /\ CommandOf(c, i) \in Command
           /\ CommandOf(c, i).device \in Devices
           /\ calls[c].item[i] \in Statuses
<1>1. calls[c].phase = "commands" /\ i \in DOMAIN calls[c].item
  BY DEF Items
<1>2. /\ calls[c].request \in Requests /\ calls[c].content \in Contents
      /\ calls[c].item \in Seq(Statuses)
  BY <1>1, CallTypes DEF Carries, RequestsInv
<1>3. i \in 1..Len(calls[c].item) /\ Len(calls[c].item) \in Nat
  BY <1>1, <1>2, LenProperties
<1>4. Commands[calls[c].content] \in Seq(Command)
      /\ i \in DOMAIN Commands[calls[c].content]
  BY <1>1, <1>2 DEF RequestsInv, ItemsAreCommands, RuntimeAssumption
<1>5. Commands[calls[c].content][i] \in Command
  BY <1>4, LenProperties, ElementOfSeq
<1>6. QED
  BY <1>1, <1>2, <1>3, <1>5, ElementOfSeq DEF CommandOf, Command

LEMMA CommandKeepsInv ==
    ASSUME RuntimeAssumption, RequestsInv, NEW c \in Calls, NEW i \in Items(c), CommandStep(c, i)
    PROVE  RequestsInv'
<1>1. /\ calls[c].request \in Requests /\ i \in Nat /\ CommandOf(c, i) \in Command
      /\ CommandOf(c, i).device \in Devices /\ CommandOf(c, i).does \in {"on", "off", "toggle"}
  BY RunningCommand DEF Command
<1>2. /\ receipt \in [Requests -> {None} \cup InFlight \cup Completed]
      /\ pending \subseteq Pending /\ seen \in [Devices -> States \cup {None}]
      /\ device \in [Devices -> States] /\ accepted \subseteq Requests \X Nat \X Command
      /\ RuntimeTypes
  BY DEF RequestsInv, RuntimeTypes
<1>3. \A r \in Requests : receipt' = receipt /\ HasResult(r) => HasResult(r)'
  BY DEF HasResult
<1>4. {"running", "succeeded", "failed", "unknown", "delegated"} \subseteq Statuses \ {"queued"}
  BY DEF Statuses, Outcomes
<1>5. CASE Start(c, i)
  <2>1. accepted' \subseteq Requests \X Nat \X Command
    BY <1>1, <1>2, <1>5 DEF Start
  <2>2. QED
    BY <1>2, <1>3, <1>4, <1>5, <2>1, ItemKeepsInv DEF Start
<1>6. CASE StartTooLate(c, i) \/ Break(c, i)
  <2>1. PICK s \in Statuses \ {"queued"} : calls' = WithItem(c, i, s)
    BY <1>4, <1>6 DEF StartTooLate, Break
  <2>2. UNCHANGED <<receipt, pending, seen, device, accepted, handed>>
    BY <1>6 DEF StartTooLate, Break
  <2>3. QED
    BY <1>2, <1>3, <2>1, <2>2, ItemKeepsInv
<1>7. CASE Confirm(c, i) \/ Delegate(c, i)
  <2>1. PICK s \in Statuses \ {"queued"} : calls' = WithItem(c, i, s)
    BY <1>4, <1>7 DEF Confirm, Delegate
  <2>2. PICK o \in States \cup {None} : Observed(CommandOf(c, i).device, o)
    BY <1>1, <1>2, <1>7 DEF Confirm, Delegate
  <2>3. UNCHANGED <<device, accepted, handed>>
    BY <1>7 DEF Confirm, Delegate
  <2>4. QED
    BY <1>1, <1>2, <2>1, <2>2, <2>3, ItemKeepsInv, ObservedReceipts
<1>8. CASE Refuse(c, i)
  BY <1>2, <1>3, <1>4, <1>8, ItemKeepsInv DEF Refuse
<1>9. CASE TimeOut(c, i)
  <2>1. [request |-> calls[c].request, index |-> i, device |-> CommandOf(c, i).device,
         does |-> CommandOf(c, i).does, before |-> seen[CommandOf(c, i).device],
         expired |-> FALSE] \in Pending
    BY <1>1, <1>2 DEF Pending
  <2>2. pending' \subseteq Pending
    BY <1>2, <1>9, <2>1 DEF TimeOut
  <2>3. QED
    BY <1>2, <1>3, <1>4, <1>9, <2>2, ItemKeepsInv DEF TimeOut
<1>10. QED
  BY <1>5, <1>6, <1>7, <1>8, <1>9 DEF CommandStep

LEMMA DoneItems ==
    ASSUME RequestsInv, NEW c \in Calls, Complete(c)
    PROVE  calls[c].item \in Seq(Outcomes)
<1>1. calls[c].item \in Seq(Statuses) /\ \A i \in DOMAIN calls[c].item : calls[c].item[i] \in Outcomes
  BY CallTypes DEF Complete, Items, RequestsInv
<1>2. PICK m \in Nat : calls[c].item \in [1..m -> Statuses]
  BY <1>1, SeqDef
<1>3. calls[c].item \in [1..m -> Outcomes]
  BY <1>1, <1>2
<1>4. QED
  BY <1>2, <1>3, SeqDef

LEMMA EndsKeepInv ==
    ASSUME RuntimeAssumption, RequestsInv, NEW c \in Calls, RefuseScene(c) \/ Complete(c)
    PROVE  RequestsInv'
<1>1. Carries(c)
  BY DEF RefuseScene, Complete, Carries
<1>2. CASE RefuseScene(c)
  <2>1. <<>> \in Seq(Outcomes)
    OBVIOUS
  <2>2. QED
    BY <1>1, <1>2, <2>1, RecordKeepsInv DEF RefuseScene
<1>3. CASE Complete(c)
  BY <1>1, <1>3, DoneItems, RecordKeepsInv DEF Complete
<1>4. QED
  BY <1>2, <1>3

LEMMA OthersKeepInv ==
    ASSUME RuntimeAssumption, RequestsInv,
           \/ \E d \in Devices : Observe(d) \/ OtherActs(d)
           \/ \E p \in pending : Expire(p)
           \/ \E r \in Requests : Lapse(r)
           \/ \E a \in accepted : Act(a)
           \/ Restart
    PROVE  RequestsInv'
<1>1. ASSUME UNCHANGED <<calls, handed>>, RuntimeTypes',
             \A r \in Requests : ~HasResult(r) => receipt'[r] = receipt[r],
             \A r \in Requests : HasResult(r) => HasResult(r)'
      PROVE  RequestsInv'
  <2>1. \A x \in Calls : Carries(x)' => receipt'[calls[x].request] = receipt[calls[x].request]
    <3> SUFFICES ASSUME NEW x \in Calls, Carries(x)
                 PROVE  calls[x].request \in Requests /\ ~HasResult(calls[x].request)
      BY <1>1 DEF Carries
    <3>1. receipt[calls[x].request] = [content |-> calls[x].content, result |-> None]
      BY DEF RequestsInv, CarriedIsInFlight
    <3>2. receipt[calls[x].request].result = None
      BY <3>1
    <3>3. QED
      BY <3>2, CallTypes DEF RequestsInv, HasResult
  <2>2. CarriersAreAlone' /\ CarriedIsInFlight' /\ ItemsAreCommands'
    BY <1>1, <2>1, CallsEnd
  <2>3. HandedIsOver'
    <3> SUFFICES ASSUME NEW h \in handed
                 PROVE  HasResult(h[1])' \/ \E x \in Calls : IsPast(x, h[1], h[2])'
      BY <1>1 DEF HandedIsOver
    <3>1. h[1] \in Requests
      BY DEF RequestsInv, RuntimeTypes
    <3>2. QED
      BY <1>1, <3>1 DEF IsPast, RequestsInv, HandedIsOver
  <2>4. QED
    BY <1>1, <2>2, <2>3 DEF RequestsInv
<1>2. \A r \in Requests : receipt' = receipt /\ HasResult(r) => HasResult(r)'
  BY DEF HasResult
<1>3. RuntimeTypes
  BY DEF RequestsInv
<1>4. ASSUME NEW s \in States, NEW does \in {"on", "off", "toggle"}
      PROVE  EffectOf(does, s) \in States
  BY <1>4 DEF EffectOf, States
<1>5. ASSUME NEW d \in Devices, Observe(d)
      PROVE  RequestsInv'
  <2>1. PICK s \in States \cup {None} : Observed(d, s)
    BY <1>3, <1>5 DEF Observe, RuntimeTypes
  <2>2. UNCHANGED <<calls, queue, device, accepted, handed>>
    BY <1>5 DEF Observe
  <2>3. RuntimeTypes'
    BY <1>3, <2>1, <2>2, ObservedReceipts DEF RuntimeTypes
  <2>4. QED
    BY <1>1, <1>3, <2>1, <2>2, <2>3, ObservedReceipts
<1>6. ASSUME NEW d \in Devices, OtherActs(d)
      PROVE  RequestsInv'
  <2>1. RuntimeTypes'
    BY <1>3, <1>4, <1>6 DEF OtherActs, RuntimeTypes
  <2>2. QED
    BY <1>1, <1>2, <1>6, <2>1 DEF OtherActs
<1>7. ASSUME NEW p \in pending, Expire(p)
      PROVE  RequestsInv'
  <2>1. [p EXCEPT !.expired = TRUE] \in Pending
    BY <1>3 DEF RuntimeTypes, Pending
  <2>2. RuntimeTypes'
    BY <1>3, <1>7, <2>1 DEF Expire, RuntimeTypes
  <2>3. QED
    BY <1>1, <1>2, <1>7, <2>2 DEF Expire
<1>8. ASSUME NEW a \in accepted, Act(a)
      PROVE  RequestsInv'
  <2>1. a[3] \in Command
    BY <1>3 DEF RuntimeTypes
  <2>2. RuntimeTypes'
    BY <1>3, <1>4, <1>8, <2>1 DEF Act, RuntimeTypes, Command
  <2>3. QED
    BY <1>1, <1>2, <1>8, <2>2 DEF Act
<1>9. ASSUME NEW r \in Requests, Lapse(r)
      PROVE  RequestsInv'
  <2>1. /\ Carriers(r) = {} /\ receipt' = [receipt EXCEPT ![r] = None]
        /\ handed' = {h \in handed : h[1] # r}
        /\ UNCHANGED <<calls, queue, pending, seen, device, accepted>>
    BY <1>9 DEF Lapse
  <2>2. RuntimeTypes'
    BY <1>3, <2>1 DEF RuntimeTypes
  <2>3. \A x \in Calls : Carries(x)' => receipt'[calls[x].request] = receipt[calls[x].request]
    BY <1>3, <2>1, CallTypes DEF Carries, Carriers, RuntimeTypes
  <2>4. CarriersAreAlone' /\ CarriedIsInFlight' /\ ItemsAreCommands'
    BY <2>1, <2>2, <2>3, CallsEnd
  <2>5. HandedIsOver'
    <3> SUFFICES ASSUME NEW h \in handed, h[1] # r
                 PROVE  HasResult(h[1])' \/ \E x \in Calls : IsPast(x, h[1], h[2])'
      BY <2>1 DEF HandedIsOver
    <3>1. receipt'[h[1]] = receipt[h[1]]
      BY <1>3, <2>1 DEF RuntimeTypes
    <3>2. QED
      BY <2>1, <3>1 DEF IsPast, HasResult, RequestsInv, HandedIsOver
  <2>6. QED
    BY <2>2, <2>4, <2>5 DEF RequestsInv
<1>10. CASE Restart
  <2>1. RuntimeTypes'
    BY <1>3, <1>10 DEF Restart, RuntimeTypes, Call
  <2>2. \A x \in Calls : ~Carries(x)'
    BY <1>10 DEF Restart, Carries, Idle
  <2>3. QED
    BY <1>10, <2>1, <2>2, CallsEnd DEF Restart, RequestsInv, HandedIsOver
<1>11. QED
  BY <1>5, <1>6, <1>7, <1>8, <1>9, <1>10

LEMMA NextKeepsInv ==
    ASSUME RuntimeAssumption, RequestsInv, [Next]_vars
    PROVE  RequestsInv'
<1>1. CASE UNCHANGED vars
  BY <1>1 DEF vars, RequestsInv, RuntimeTypes, CarriersAreAlone, CarriedIsInFlight,
              ItemsAreCommands, HandedIsOver, Carries, HasResult, IsPast
<1>2. CASE Next
  BY <1>2, BeginKeepsInv, BeginLateKeepsInv, ReadRegistryKeepsInv, DeadlineKeepsInv,
     FailRegistryKeepsInv, EndsKeepInv, CommandKeepsInv, OthersKeepInv DEF Next, CallStep
<1>3. QED
  BY <1>1, <1>2

------------------------------------------------------------------------------

\* The inductive invariant of requests, receipts and what was handed out
THEOREM RequestsInvariant == Spec => []RequestsInv
<1>1. Init => RequestsInv
  BY RuntimeAssumption, InitEstablishesInv
<1>2. RequestsInv /\ [Next]_vars => RequestsInv'
  BY RuntimeAssumption, NextKeepsInv
<1>3. QED
  BY <1>1, <1>2, PTL DEF Spec

\* A process hands each command of a request to the Provider once, however its calls
\* repeat and overlap
THEOREM CommandsAreHandedOnce == Spec => HandedOnce
<1> DEFINE Once == \A c \in Calls : \A i \in Items(c) :
                       Start(c, i) => <<calls[c].request, i>> \notin handed
<1>1. RequestsInv /\ [Next]_vars => Once
  <2> SUFFICES ASSUME RequestsInv, NEW c \in Calls, NEW i \in Items(c), Start(c, i),
                      <<calls[c].request, i>> \in handed
               PROVE  FALSE
    OBVIOUS
  <2>1. calls[c].phase = "commands" /\ Carries(c) /\ calls[c].item[i] = "queued"
    BY DEF Items, Carries, Start
  <2>2. receipt[calls[c].request] = [content |-> calls[c].content, result |-> None]
    BY <2>1 DEF RequestsInv, CarriedIsInFlight
  <2>3. ~HasResult(calls[c].request)
    BY <2>2 DEF HasResult
  <2>4. PICK x \in Calls : IsPast(x, calls[c].request, i)
    BY <2>3 DEF RequestsInv, HandedIsOver
  <2>5. x = c
    BY <2>1, <2>4 DEF IsPast, RequestsInv, CarriersAreAlone, Carries
  <2>6. QED
    BY <2>1, <2>4, <2>5 DEF IsPast
<1> HIDE DEF Once
<1>2. Spec => [][Once]_vars
  BY <1>1, RequestsInvariant, PTL DEF Spec
<1>3. QED
  BY <1>2, PTL DEF HandedOnce, Once

\* Within its window a receipt keeps what was submitted and what came of it: only an
\* unknown outcome changes, and only to a success
THEOREM ReceiptsAreStable == Spec => ReceiptIsStable
<1> DEFINE Stable(r) ==
             (receipt[r] # None /\ receipt'[r] # None) =>
                 /\ receipt'[r].content = receipt[r].content
                 /\ receipt[r].result # None =>
                     /\ receipt'[r].result # None
                     /\ DOMAIN receipt'[r].result = DOMAIN receipt[r].result
                     /\ \A i \in DOMAIN receipt[r].result :
                         \/ receipt'[r].result[i] = receipt[r].result[i]
                         \/ receipt[r].result[i] = "unknown" /\ receipt'[r].result[i] = "succeeded"
           AllStable == \A r \in Requests : Stable(r)
<1>1. RequestsInv /\ [Next]_vars => AllStable
  <2> SUFFICES ASSUME RequestsInv, Next, NEW r \in Requests, receipt'[r] # receipt[r]
               PROVE  Stable(r)
    BY DEF vars
  <2>1. receipt \in [Requests -> {None} \cup InFlight \cup Completed] /\ RuntimeTypes
    BY DEF RequestsInv, RuntimeTypes
  <2>2. ASSUME NEW q \in Requests, NEW k \in Contents, NEW res,
               receipt[q] \in {None, [content |-> k, result |-> None]},
               receipt' = [receipt EXCEPT ![q] = [content |-> k, result |-> res]]
        PROVE  Stable(r)
    BY <2>1, <2>2
  <2>3. ASSUME NEW c \in Calls, Carries(c), NEW res,
               receipt' = [receipt EXCEPT ![calls[c].request].result = res]
        PROVE  Stable(r)
    <3>1. receipt[calls[c].request] = [content |-> calls[c].content, result |-> None]
      BY <2>3 DEF RequestsInv, CarriedIsInFlight
    <3>2. receipt'[r].content = receipt[r].content /\ receipt[r].result = None
      BY <2>1, <2>3, <3>1
    <3>3. QED
      BY <3>2
  <2>4. ASSUME NEW d \in Devices, NEW s \in States \cup {None}, Observed(d, s)
        PROVE  Stable(r)
    BY <2>1, <2>4, RuntimeAssumption, ObservedReceipts DEF HasResult
  <2>5. ASSUME NEW q \in Requests, Lapse(q)
        PROVE  Stable(r)
    BY <2>1, <2>5 DEF Lapse
  <2> HIDE DEF Stable
  <2>6. ASSUME NEW c \in Calls, CallStep(c)
        PROVE  Stable(r)
    BY <2>3, <2>6 DEF CallStep, ReadRegistry, RefuseScene, FailRegistry, DeadlinePasses,
                      Complete, Carries
  <2>7. ASSUME NEW c \in Calls, NEW i \in Items(c), CommandStep(c, i)
        PROVE  Stable(r)
    <3>1. CommandOf(c, i).device \in Devices
      BY RuntimeAssumption, RunningCommand
    <3>2. device[CommandOf(c, i).device] \in States
      BY <2>1, <3>1 DEF RuntimeTypes
    <3>3. CASE Confirm(c, i) \/ Delegate(c, i)
      BY <2>4, <3>1, <3>2, <3>3 DEF Confirm, Delegate
    <3>4. QED
      BY <2>7, <3>3 DEF CommandStep, Start, StartTooLate, Refuse, TimeOut, Break
  <2>8. ASSUME NEW d \in Devices, Observe(d)
        PROVE  Stable(r)
    BY <2>1, <2>4, <2>8 DEF Observe, RuntimeTypes
  <2>9. ASSUME NEW q \in Requests, NEW k \in Contents,
               BeginLate(q, k) \/ \E c \in Calls : Begin(c, q, k)
        PROVE  Stable(r)
    BY <2>2, <2>9 DEF Begin, BeginLate
  <2>10. ~(\E d \in Devices : OtherActs(d)) /\ ~(\E p \in pending : Expire(p))
         /\ ~(\E a \in accepted : Act(a)) /\ ~Restart
    BY DEF OtherActs, Expire, Act, Restart
  <2>11. QED
    BY <2>5, <2>6, <2>7, <2>8, <2>9, <2>10 DEF Next
<1> HIDE DEF AllStable
<1>2. Spec => [][AllStable]_vars
  BY <1>1, RequestsInvariant, PTL DEF Spec
<1>3. QED
  BY <1>2, PTL DEF ReceiptIsStable, AllStable

------------------------------------------------------------------------------
(* What waits for an observation, and what is unknown. *)

CountsTypes == RequestsInv /\ IsFiniteSet(pending)

CountsInv == CountsTypes /\ PendingIsUnknown

\* The items of one that are smaller than n others are n at most
LEMMA FirstOnesAreCounted ==
    ASSUME NEW U \in SUBSET Nat, IsFiniteSet(U), NEW n \in Nat
    PROVE  Cardinality({i \in U : Cardinality({j \in U : j < i}) < n}) =< n
<1> DEFINE below(i) == {j \in U : j < i}
           rank(i) == Cardinality(below(i))
           V == {i \in U : rank(i) < n}
           f == [i \in V |-> rank(i)]
<1>1. ASSUME NEW i \in U
      PROVE  IsFiniteSet(below(i)) /\ rank(i) \in Nat
  <2>1. below(i) \in SUBSET U
    OBVIOUS
  <2>2. QED
    BY <2>1, FS_Subset, FS_CardinalityType
<1>2. ASSUME NEW i \in U, NEW k \in U, i < k
      PROVE  rank(i) < rank(k)
  <2>1. below(i) \cup {i} \in SUBSET below(k)
    <3>1. \A j \in U : j < i => j < k
      BY <1>2
    <3>2. QED
      BY <1>2, <3>1
  <2>2. i \notin below(i)
    OBVIOUS
  <2> HIDE DEF below
  <2>3. Cardinality(below(i) \cup {i}) = rank(i) + 1
    BY <1>1, <2>2, FS_AddElement
  <2>4. Cardinality(below(i) \cup {i}) =< rank(k)
    BY <1>1, <2>1, FS_Subset
  <2>5. QED
    BY <1>1, <2>3, <2>4
<1>3. \A i \in U : rank(i) \in Nat
  BY <1>1
<1>4. \A i, k \in U : i < k => rank(i) < rank(k)
  BY <1>2
<1> HIDE DEF rank, below
<1>5. f \in [V -> 0..(n-1)]
  <2>1. \A i \in V : rank(i) \in 0..(n-1)
    BY <1>3
  <2>2. QED
    BY <2>1
<1>6. \A i, k \in V : f[i] = f[k] => i = k
  <2> SUFFICES ASSUME NEW i \in V, NEW k \in V, rank(i) = rank(k), i # k
               PROVE  FALSE
    OBVIOUS
  <2>1. i < k \/ k < i
    OBVIOUS
  <2>2. QED
    BY <1>3, <1>4, <2>1
<1>7. f \in Injection(V, 0..(n-1))
  BY <1>5, <1>6 DEF Injection, IsInjective
<1>8. IsFiniteSet(0..(n-1)) /\ Cardinality(0..(n-1)) = n
  BY FS_Interval
<1>9. QED
  BY <1>7, <1>8, FS_Injection DEF rank, below

\* Call c runs the commands of request r
Runs(c, r) == calls[c].phase = "commands" /\ calls[c].request = r

\* What has become of the commands of a request is in its receipt, or in its call
OutcomesFit ==
    \A r \in Requests :
        /\ HasResult(r) => OutcomeOf(r) = receipt[r].result
        /\ \A c \in Calls : Runs(c, r) =>
              OutcomeOf(r) = calls[c].item /\ receipt[r].content = calls[c].content
        /\ ~HasResult(r) /\ (\A c \in Calls : ~Runs(c, r)) => OutcomeOf(r) = <<>>
        /\ OutcomeOf(r) \in Seq(Statuses)

LEMMA OutcomeIs == RequestsInv => OutcomesFit
<1> SUFFICES ASSUME RequestsInv, NEW r \in Requests
             PROVE  /\ HasResult(r) => OutcomeOf(r) = receipt[r].result
                    /\ \A c \in Calls : Runs(c, r) =>
                          OutcomeOf(r) = calls[c].item /\ receipt[r].content = calls[c].content
                    /\ ~HasResult(r) /\ (\A c \in Calls : ~Runs(c, r)) => OutcomeOf(r) = <<>>
                    /\ OutcomeOf(r) \in Seq(Statuses)
  BY DEF OutcomesFit
<1>1. HasResult(r) => OutcomeOf(r) = receipt[r].result
  BY DEF OutcomeOf, HasResult
<1>2. ASSUME NEW c \in Calls, Runs(c, r)
      PROVE  OutcomeOf(r) = calls[c].item /\ receipt[r].content = calls[c].content
  <2>1. Carries(c) /\ c \in Carriers(r) /\ calls[c].phase = "commands" /\ calls[c].request = r
    BY <1>2 DEF Carries, Carriers, Runs
  <2>2. receipt[r] = [content |-> calls[c].content, result |-> None]
    BY <1>2, <2>1 DEF RequestsInv, CarriedIsInFlight
  <2>3. \A x \in Carriers(r) : x = c
    BY <1>2, <2>1 DEF RequestsInv, CarriersAreAlone, Carriers, Carries
  <2> DEFINE runs == CHOOSE x \in Carriers(r) : calls[x].phase = "commands"
  <2>4. runs = c
    BY <1>2, <2>1, <2>3
  <2>5. receipt[r].result = None
    BY <2>2
  <2>6. OutcomeOf(r) = calls[runs].item
    BY <2>1, <2>5 DEF OutcomeOf
  <2> HIDE DEF runs
  <2>7. QED
    BY <2>2, <2>4, <2>6
<1>3. ASSUME ~HasResult(r), \A c \in Calls : ~Runs(c, r)
      PROVE  OutcomeOf(r) = <<>>
  <2>1. ~\E c \in Carriers(r) : calls[c].phase = "commands"
    BY <1>3 DEF Carriers, Runs
  <2>2. QED
    BY <1>3, <2>1 DEF OutcomeOf, HasResult
<1>4. OutcomeOf(r) \in Seq(Statuses)
  <2>1. CASE HasResult(r)
    <3>1. receipt[r].result \in Seq(Outcomes)
      BY <2>1 DEF HasResult, RequestsInv, RuntimeTypes, InFlight, Completed
    <3>2. receipt[r].result \in Seq(Statuses)
      BY <3>1, SeqDef DEF Statuses
    <3>3. QED
      BY <1>1, <2>1, <3>2
  <2>2. CASE \E c \in Calls : Runs(c, r)
    BY <1>2, <2>2, CallTypes DEF RequestsInv, Runs
  <2>3. CASE OutcomeOf(r) = <<>>
    BY <2>3
  <2>4. QED
    BY <1>3, <2>1, <2>2, <2>3
<1>5. QED
  BY <1>1, <1>2, <1>3, <1>4

\* Both sets are finite
CountsFinite ==
    \A r \in Requests, d \in Devices :
        /\ IsFiniteSet(Waiting(r, d)) /\ Cardinality(Waiting(r, d)) \in Nat
        /\ IsFiniteSet(Unknown(r, d)) /\ Cardinality(Unknown(r, d)) \in Nat
        /\ Unknown(r, d) \in SUBSET Nat

LEMMA CountsAreFinite == CountsTypes => CountsFinite
<1> SUFFICES ASSUME RequestsInv, IsFiniteSet(pending), NEW r \in Requests, NEW d \in Devices
             PROVE  /\ IsFiniteSet(Waiting(r, d)) /\ Cardinality(Waiting(r, d)) \in Nat
                    /\ IsFiniteSet(Unknown(r, d)) /\ Cardinality(Unknown(r, d)) \in Nat
                    /\ Unknown(r, d) \in SUBSET Nat
  BY DEF CountsTypes, CountsFinite
<1>1. Waiting(r, d) \in SUBSET pending
  BY DEF Waiting
<1>2. DOMAIN OutcomeOf(r) = 1..Len(OutcomeOf(r)) /\ Len(OutcomeOf(r)) \in Nat
  BY OutcomeIs, LenProperties DEF OutcomesFit
<1>3. IsFiniteSet(DOMAIN OutcomeOf(r))
  BY <1>2, FS_Interval
<1>4. Unknown(r, d) \in SUBSET DOMAIN OutcomeOf(r)
  BY DEF Unknown
<1>5. IsFiniteSet(Waiting(r, d)) /\ IsFiniteSet(Unknown(r, d))
  BY <1>1, <1>3, <1>4, FS_Subset
<1>6. QED
  BY <1>2, <1>4, <1>5, FS_CardinalityType

LEMMA OutcomeIsNext == RequestsInv' => OutcomesFit'
  BY OutcomeIs, PTL

LEMMA CountsAreFiniteNext == CountsTypes' => CountsFinite'
  BY CountsAreFinite, PTL

LEMMA CountTransfers ==
    ASSUME CountsInv, CountsTypes', NEW r \in Requests, NEW d \in Devices,
           Waiting(r, d)' \subseteq Waiting(r, d), Unknown(r, d) \subseteq Unknown(r, d)'
    PROVE  Cardinality(Waiting(r, d)') <= Cardinality(Unknown(r, d)')
<1>1. /\ IsFiniteSet(Waiting(r, d)) /\ Cardinality(Waiting(r, d)) \in Nat
      /\ Cardinality(Unknown(r, d)) \in Nat
  BY CountsAreFinite DEF CountsInv, CountsFinite
<1>2. /\ IsFiniteSet(Unknown(r, d)') /\ Cardinality(Unknown(r, d)') \in Nat
      /\ Cardinality(Waiting(r, d)') \in Nat
  BY CountsAreFiniteNext DEF CountsFinite
<1>3. Cardinality(Waiting(r, d)') <= Cardinality(Waiting(r, d))
  BY <1>1, FS_Subset
<1>4. Cardinality(Unknown(r, d)) <= Cardinality(Unknown(r, d)')
  BY <1>2, FS_Subset
<1>5. Cardinality(Waiting(r, d)) <= Cardinality(Unknown(r, d))
  BY DEF CountsInv, PendingIsUnknown
<1>6. QED
  BY <1>1, <1>2, <1>3, <1>4, <1>5

\* As long as nothing has become of a request, nothing of it waits
LEMMA NothingWaits ==
    ASSUME CountsInv, CountsTypes', NEW r \in Requests, NEW d \in Devices,
           ~HasResult(r), \A c \in Calls : ~Runs(c, r),
           Waiting(r, d)' \subseteq Waiting(r, d)
    PROVE  Cardinality(Waiting(r, d)') <= Cardinality(Unknown(r, d)')
<1>1. OutcomeOf(r) = <<>>
  BY OutcomeIs DEF CountsInv, CountsTypes, OutcomesFit
<1>2. Unknown(r, d) = {}
  BY <1>1 DEF Unknown
<1>3. QED
  BY <1>2, CountTransfers

\* The outcomes of a request are the same while its receipt and its call are
LEMMA SameOutcomes ==
    ASSUME RequestsInv, RequestsInv', NEW r \in Requests, receipt'[r] = receipt[r],
           \A c \in Calls : (Runs(c, r)' <=> Runs(c, r)) /\ (Runs(c, r) => calls'[c].item = calls[c].item)
    PROVE  \A d \in Devices : Unknown(r, d)' = Unknown(r, d)
<1>1. OutcomeOf(r)' = OutcomeOf(r)
  <2>1. OutcomesFit /\ OutcomesFit'
    BY OutcomeIs, OutcomeIsNext
  <2>2. HasResult(r)' <=> HasResult(r)
    BY DEF HasResult
  <2>3. CASE HasResult(r)
    BY <2>1, <2>2, <2>3 DEF OutcomesFit
  <2>4. CASE \E c \in Calls : Runs(c, r)
    BY <2>1, <2>4 DEF OutcomesFit
  <2>5. CASE ~HasResult(r) /\ \A c \in Calls : ~Runs(c, r)
    BY <2>1, <2>2, <2>5 DEF OutcomesFit
  <2>6. QED
    BY <2>3, <2>4, <2>5
<1>2. QED
  BY <1>1 DEF Unknown

LEMMA SameCounts ==
    ASSUME CountsInv, CountsTypes', NEW r \in Requests, NEW d \in Devices,
           receipt'[r] = receipt[r], Waiting(r, d)' \subseteq Waiting(r, d),
           \A c \in Calls : (Runs(c, r)' <=> Runs(c, r)) /\ (Runs(c, r) => calls'[c].item = calls[c].item)
    PROVE  Cardinality(Waiting(r, d)') <= Cardinality(Unknown(r, d)')
<1>1. Unknown(r, d)' = Unknown(r, d)
  BY SameOutcomes DEF CountsInv, CountsTypes
<1>2. QED
  BY <1>1, CountTransfers

\* What an observation answers is settled, at most one outcome for each
LEMMA ObservedCounts ==
    ASSUME RuntimeAssumption, CountsInv, CountsTypes', NEW d \in Devices,
           NEW s \in States \cup {None}, Observed(d, s), NEW r \in Requests, HasResult(r),
           NEW e \in Devices
    PROVE  Cardinality(Waiting(r, e)') <= Cardinality(Unknown(r, e)')
<1> DEFINE A == {p \in Answered(d, s) : p.request = r}
           n == Cardinality(A)
           U == {i \in DOMAIN receipt[r].result :
                    /\ Commands[receipt[r].content][i].device = d
                    /\ receipt[r].result[i] = "unknown"}
           V == {i \in U : Cardinality({j \in U : j < i}) < n}
<1>1. /\ OutcomeOf(r) = receipt[r].result /\ OutcomeOf(r)' = receipt'[r].result
      /\ receipt'[r].content = receipt[r].content
  BY OutcomeIs, OutcomeIsNext, ObservedReceipts
     DEF CountsInv, CountsTypes, OutcomesFit, RequestsInv
<1>2. U = Unknown(r, d)
  BY <1>1 DEF Unknown
<1>3. A \subseteq Waiting(r, d)
  BY DEF Answered, Waiting
<1>4. /\ IsFiniteSet(Waiting(r, d)) /\ IsFiniteSet(Unknown(r, d))
      /\ Unknown(r, d) \in SUBSET Nat
      /\ Cardinality(Waiting(r, d)) \in Nat /\ Cardinality(Unknown(r, d)) \in Nat
  BY CountsAreFinite DEF CountsInv, CountsFinite
<1>5. IsFiniteSet(A) /\ n \in Nat
  BY <1>3, <1>4, FS_Subset, FS_CardinalityType
<1>6. receipt'[r] = IF n > 0 THEN [receipt[r] EXCEPT !.result = SettleFirst(n, r, d)]
                    ELSE receipt[r]
  BY DEF Observed, HasResult
<1>7. /\ DOMAIN receipt'[r].result = DOMAIN receipt[r].result
      /\ \A i \in DOMAIN receipt[r].result :
            receipt'[r].result[i] = IF i \in V THEN "succeeded" ELSE receipt[r].result[i]
  <2>1. CASE n > 0
    <3>1. receipt[r] \in Completed
      BY DEF CountsInv, CountsTypes, RequestsInv, RuntimeTypes, HasResult, InFlight
    <3>2. receipt'[r].result = SettleFirst(n, r, d)
      BY <1>6, <2>1, <3>1 DEF Completed
    <3>3. SettleFirst(n, r, d) = [i \in DOMAIN receipt[r].result |->
                                    IF i \in V THEN "succeeded" ELSE receipt[r].result[i]]
      BY DEF SettleFirst
    <3> HIDE DEF V
    <3>4. QED
      BY <3>2, <3>3
  <2>2. CASE ~(n > 0)
    <3>1. V = {}
      <4>1. \A i \in U : Cardinality({j \in U : j < i}) \in Nat
        <5> SUFFICES ASSUME NEW i \in U
                     PROVE  Cardinality({j \in U : j < i}) \in Nat
          OBVIOUS
        <5>1. {j \in U : j < i} \in SUBSET Unknown(r, d)
          BY <1>2
        <5>2. QED
          BY <1>4, <5>1, FS_Subset, FS_CardinalityType
      <4> HIDE DEF U, n
      <4>2. QED
        BY <1>5, <2>2, <4>1
    <3> HIDE DEF V
    <3>2. QED
      BY <1>6, <2>2, <3>1
  <2>3. QED
    BY <2>1, <2>2
<1>8. Cardinality(V) =< n
  BY <1>2, <1>4, <1>5, FirstOnesAreCounted
<1> V \subseteq U
  OBVIOUS
<1> HIDE DEF V
<1>9. CASE e = d
  <2>1. Waiting(r, d)' = Waiting(r, d) \ A
    BY DEF Observed, Waiting
  <2>2. Unknown(r, d)' = Unknown(r, d) \ V
    <3>1. Unknown(r, d)' = {i \in DOMAIN receipt'[r].result :
                              /\ receipt'[r].result[i] = "unknown"
                              /\ Commands[receipt[r].content][i].device = d}
      BY <1>1 DEF Unknown
    <3>2. Unknown(r, d) = {i \in DOMAIN receipt[r].result :
                              /\ receipt[r].result[i] = "unknown"
                              /\ Commands[receipt[r].content][i].device = d}
      BY <1>1 DEF Unknown
    <3>3. QED
      BY <1>7, <3>1, <3>2
  <2> HIDE DEF A, U
  <2>3. Cardinality(Waiting(r, d) \ A) = Cardinality(Waiting(r, d)) - n
    <3>1. Waiting(r, d) \cap A = A
      BY <1>3
    <3>2. QED
      BY <1>4, <3>1, FS_Difference
  <2>4. V \subseteq Unknown(r, d)
    BY <1>2
  <2>5. Cardinality(Unknown(r, d) \ V) = Cardinality(Unknown(r, d)) - Cardinality(V)
        /\ Cardinality(V) \in Nat
    <3>1. Unknown(r, d) \cap V = V
      BY <2>4
    <3>2. IsFiniteSet(V)
      BY <1>4, <2>4, FS_Subset
    <3>3. QED
      BY <1>4, <3>1, <3>2, FS_Difference, FS_CardinalityType
  <2>6. Cardinality(Waiting(r, d)) <= Cardinality(Unknown(r, d))
    BY DEF CountsInv, PendingIsUnknown
  <2>7. QED
    BY <1>4, <1>5, <1>8, <1>9, <2>1, <2>2, <2>3, <2>5, <2>6
<1>10. CASE e # d
  <2>1. Waiting(r, e)' \subseteq Waiting(r, e)
    BY DEF Observed, Waiting
  <2>2. Unknown(r, e) \subseteq Unknown(r, e)'
    BY <1>1, <1>7, <1>10 DEF Unknown
  <2>3. QED
    BY <2>1, <2>2, CountTransfers
<1>11. QED
  BY <1>9, <1>10

LEMMA BeginKeepsCounts ==
    ASSUME RuntimeAssumption, CountsInv, CountsTypes', NEW q \in Requests, NEW k \in Contents,
           BeginLate(q, k) \/ \E c \in Calls : Begin(c, q, k)
    PROVE  PendingIsUnknown'
<1> SUFFICES ASSUME NEW r \in Requests, NEW d \in Devices
             PROVE  Cardinality(Waiting(r, d)') <= Cardinality(Unknown(r, d)')
  BY DEF PendingIsUnknown
<1>1. Waiting(r, d)' = Waiting(r, d)
  BY DEF BeginLate, Begin, Waiting
<1>2. receipt \in [Requests -> {None} \cup InFlight \cup Completed] /\ calls \in [Calls -> Call]
  BY DEF CountsInv, CountsTypes, RequestsInv, RuntimeTypes
<1>3. ~HasResult(q)
  BY DEF BeginLate, Begin, HasResult
<1>4. CASE BeginLate(q, k)
  <2>1. CASE r = q
    <3>1. \A c \in Calls : ~Runs(c, q)
      BY <1>4 DEF BeginLate, Carriers, Runs
    <3>2. QED
      BY <1>1, <1>3, <2>1, <3>1, NothingWaits
  <2>2. CASE r # q
    <3>1. receipt'[r] = receipt[r] /\ calls' = calls
      BY <1>2, <1>4, <2>2 DEF BeginLate
    <3>2. QED
      BY <1>1, <3>1, SameCounts DEF Runs
  <2>3. QED
    BY <2>1, <2>2
<1>5. ASSUME NEW c \in Calls, Begin(c, q, k)
      PROVE  Cardinality(Waiting(r, d)') <= Cardinality(Unknown(r, d)')
  <2>1. calls[c].phase # "commands" /\ calls'[c].phase # "commands"
        /\ \A x \in Calls \ {c} : calls'[x] = calls[x]
    BY <1>2, <1>5 DEF Begin, Idle
  <2>2. \A x \in Calls : (Runs(x, r)' <=> Runs(x, r)) /\ (Runs(x, r) => calls'[x].item = calls[x].item)
    BY <2>1 DEF Runs
  <2>3. CASE receipt'[r] = receipt[r]
    BY <1>1, <2>2, <2>3, SameCounts
  <2>4. CASE r = q /\ receipt[q] = None
    <3>1. \A x \in Calls : ~Runs(x, q)
      <4> SUFFICES ASSUME NEW x \in Calls, Runs(x, q)
                   PROVE  FALSE
        OBVIOUS
      <4>1. Carries(x) /\ calls[x].content \in Contents
        BY CallTypes DEF Runs, Carries, CountsInv, CountsTypes, RequestsInv
      <4>2. receipt[q] = [content |-> calls[x].content, result |-> None]
        BY <4>1 DEF Runs, CountsInv, CountsTypes, RequestsInv, CarriedIsInFlight
      <4>3. QED
        BY <2>4, <4>1, <4>2 DEF RuntimeAssumption, InFlight
    <3>2. QED
      BY <1>1, <1>3, <2>4, <3>1, NothingWaits
  <2>5. QED
    BY <1>2, <1>5, <2>3, <2>4 DEF Begin
<1>6. QED
  BY <1>4, <1>5

\* A call that carries r and runs nothing yet: nobody else does, and nothing waits
LEMMA NotYetRunning ==
    ASSUME RequestsInv, NEW c \in Calls, calls[c].phase = "registry"
    PROVE  /\ calls[c].request \in Requests /\ ~HasResult(calls[c].request)
           /\ \A x \in Calls : ~Runs(x, calls[c].request)
<1>1. Carries(c)
  BY DEF Carries
<1>2. receipt[calls[c].request] = [content |-> calls[c].content, result |-> None]
  BY <1>1 DEF RequestsInv, CarriedIsInFlight
<1>3. ~HasResult(calls[c].request)
  BY <1>2 DEF HasResult
<1>4. \A x \in Calls : ~Runs(x, calls[c].request)
  BY <1>1 DEF Runs, Carries, RequestsInv, CarriersAreAlone
<1>5. QED
  BY <1>1, <1>3, <1>4, CallTypes DEF RequestsInv

LEMMA CallKeepsCounts ==
    ASSUME RuntimeAssumption, CountsInv, CountsTypes', NEW c \in Calls, CallStep(c)
    PROVE  PendingIsUnknown'
<1> SUFFICES ASSUME NEW r \in Requests, NEW d \in Devices
             PROVE  Cardinality(Waiting(r, d)') <= Cardinality(Unknown(r, d)')
  BY DEF PendingIsUnknown
<1>1. Waiting(r, d)' = Waiting(r, d)
  BY DEF CallStep, ReadRegistry, RefuseScene, FailRegistry, DeadlinePasses, Complete, Waiting
<1>2. /\ receipt \in [Requests -> {None} \cup InFlight \cup Completed] /\ calls \in [Calls -> Call]
      /\ RequestsInv /\ RequestsInv'
  BY DEF CountsInv, CountsTypes, RequestsInv, RuntimeTypes
<1>3. CASE calls[c].phase = "registry" /\ calls[c].request = r
  BY <1>1, <1>2, <1>3, NotYetRunning, NothingWaits
<1>4. CASE DeadlinePasses(c)
  <2>1. /\ receipt' = receipt /\ \A x \in Calls \ {c} : calls'[x] = calls[x]
        /\ calls'[c] = [calls[c] EXCEPT !.late = TRUE] /\ calls[c] \in Call /\ calls[c] # Idle
    BY <1>2, <1>4 DEF DeadlinePasses, Idle
  <2>2. /\ calls'[c].phase = calls[c].phase /\ calls'[c].request = calls[c].request
        /\ calls[c].phase = "commands" => calls'[c].item = calls[c].item
    BY <2>1 DEF Call
  <2>3. QED
    BY <1>1, <2>1, <2>2, SameCounts DEF Runs
<1>5. CASE ReadRegistry(c) /\ calls[c].request # r
  <2>1. /\ receipt' = receipt /\ \A x \in Calls \ {c} : calls'[x] = calls[x]
        /\ calls'[c].request # r
    BY <1>2, <1>5 DEF ReadRegistry
  <2>2. QED
    BY <1>1, <1>5, <2>1, SameCounts DEF Runs
<1>6. CASE RefuseScene(c) /\ calls[c].request # r
  <2>1. receipt'[r] = receipt[r] /\ calls' = Released(c)
    BY <1>2, <1>6 DEF RefuseScene
  <2>2. QED
    BY <1>1, <1>2, <1>6, <2>1, ReleasedCalls, SameCounts DEF Runs, Carries
<1>7. CASE FailRegistry(c)
  <2>1. receipt' = receipt /\ calls' = Released(c) /\ calls[c].phase = "registry"
    BY <1>7 DEF FailRegistry
  <2>2. QED
    BY <1>1, <1>2, <2>1, ReleasedCalls, SameCounts DEF Runs, Carries
<1>8. CASE Complete(c)
  <2>1. calls' = Released(c) /\ calls[c].phase = "commands"
        /\ receipt' = [receipt EXCEPT ![calls[c].request].result = calls[c].item]
    BY <1>8 DEF Complete
  <2>2. CASE calls[c].request # r
    <3>1. receipt'[r] = receipt[r]
      BY <1>2, <2>1, <2>2
    <3>2. QED
      BY <1>1, <1>2, <2>1, <2>2, <3>1, ReleasedCalls, SameCounts DEF Runs, Carries
  <2>3. CASE calls[c].request = r
    <3>1. Runs(c, r) /\ Carries(c)
      BY <2>1, <2>3 DEF Runs, Carries
    <3>2. receipt[r] = [content |-> calls[c].content, result |-> None]
      BY <1>2, <2>3, <3>1 DEF RequestsInv, CarriedIsInFlight
    <3>3. receipt'[r] = [content |-> calls[c].content, result |-> calls[c].item]
      BY <1>2, <2>1, <2>3, <3>2
    <3>4. OutcomeOf(r) = calls[c].item /\ receipt[r].content = calls[c].content
      BY <1>2, <3>1, OutcomeIs DEF OutcomesFit
    <3>5. receipt'[r].result = calls[c].item /\ receipt'[r].content = receipt[r].content
      BY <3>2, <3>3
    <3>6. calls[c].item \in Seq(Outcomes) /\ calls[c].content \in Contents
      BY <1>2, <1>8, <3>1, DoneItems, CallTypes DEF RequestsInv
    <3>7. receipt'[r] # None /\ calls[c].item # None
      BY <3>3, <3>6 DEF RuntimeAssumption, Completed
    <3>8. OutcomeOf(r)' = calls[c].item
      BY <1>2, <3>5, <3>6, <3>7, OutcomeIsNext DEF OutcomesFit, HasResult
    <3>9. Unknown(r, d)' = Unknown(r, d)
      BY <3>4, <3>5, <3>8 DEF Unknown
    <3>10. QED
      BY <1>1, <3>9, CountTransfers
  <2>4. QED
    BY <2>2, <2>3
<1>9. QED
  BY <1>3, <1>4, <1>5, <1>6, <1>7, <1>8 DEF CallStep, ReadRegistry, RefuseScene

\* The item of a command becomes s, and was neither done nor unknown before
LEMMA ItemCounts ==
    ASSUME RuntimeAssumption, CountsInv, CountsTypes', NEW c \in Calls, NEW i \in Items(c), NEW s,
           calls[c].item[i] \in {"queued", "running"}, calls' = WithItem(c, i, s),
           NEW r \in Requests, receipt'[r] = receipt[r], NEW d \in Devices
    PROVE  /\ Unknown(r, d) \subseteq Unknown(r, d)'
           /\ r = calls[c].request /\ s = "unknown" /\ d = CommandOf(c, i).device =>
                 i \notin Unknown(r, d) /\ i \in Unknown(r, d)'
<1>1. /\ calls[c].phase = "commands" /\ i \in DOMAIN calls[c].item
      /\ calls \in [Calls -> Call] /\ RequestsInv /\ RequestsInv'
  BY DEF Items, CountsInv, CountsTypes, RequestsInv, RuntimeTypes
<1>2. calls[c] \in [phase : {"commands"}, request : Requests, content : Contents,
                   late : BOOLEAN, item : Seq(Statuses)]
  BY <1>1 DEF Call, Idle, Statuses
<1>3. /\ \A x \in Calls \ {c} : calls'[x] = calls[x]
      /\ calls'[c] = [calls[c] EXCEPT !.item = [calls[c].item EXCEPT ![i] = s]]
  BY <1>1 DEF WithItem
<1>4. /\ calls'[c].phase = "commands" /\ calls'[c].request = calls[c].request
      /\ calls'[c].item = [calls[c].item EXCEPT ![i] = s]
  BY <1>2, <1>3
<1>5. CASE r # calls[c].request
  <2>1. \A x \in Calls : (Runs(x, r)' <=> Runs(x, r)) /\ (Runs(x, r) => calls'[x].item = calls[x].item)
    BY <1>3, <1>4, <1>5 DEF Runs
  <2>2. QED
    BY <1>1, <1>5, <2>1, SameOutcomes
<1>6. CASE r = calls[c].request
  <2>1. Runs(c, r) /\ Runs(c, r)'
    BY <1>1, <1>4, <1>6 DEF Runs
  <2>2. OutcomeOf(r) = calls[c].item /\ OutcomeOf(r)' = [calls[c].item EXCEPT ![i] = s]
    BY <1>1, <1>4, <2>1, OutcomeIs, OutcomeIsNext DEF OutcomesFit
  <2>3. receipt[r].content = calls[c].content
    BY <1>1, <2>1, OutcomeIs DEF OutcomesFit
  <2>4. QED
    BY <1>1, <2>2, <2>3 DEF Unknown, CommandOf
<1>7. QED
  BY <1>5, <1>6

LEMMA CommandKeepsCounts ==
    ASSUME RuntimeAssumption, CountsInv, CountsTypes', NEW c \in Calls, NEW i \in Items(c),
           CommandStep(c, i)
    PROVE  PendingIsUnknown'
<1> SUFFICES ASSUME NEW r \in Requests, NEW d \in Devices
             PROVE  Cardinality(Waiting(r, d)') <= Cardinality(Unknown(r, d)')
  BY DEF PendingIsUnknown
<1>1. /\ CommandOf(c, i).device \in Devices /\ calls[c].request \in Requests
      /\ device \in [Devices -> States] /\ RuntimeTypes
  BY RunningCommand DEF CountsInv, CountsTypes, RequestsInv, RuntimeTypes
<1>2. calls[c].item[i] \in {"queued", "running"}
  BY DEF CommandStep, Start, StartTooLate, Running, Confirm, Delegate, Refuse, TimeOut, Break
<1>3. PICK s : calls' = WithItem(c, i, s)
  BY DEF CommandStep, Start, StartTooLate, Confirm, Delegate, Refuse, TimeOut, Break
<1>4. CASE Start(c, i) \/ StartTooLate(c, i) \/ Refuse(c, i) \/ Break(c, i)
  <2>1. UNCHANGED <<receipt, pending>>
    BY <1>4 DEF Start, StartTooLate, Refuse, Break
  <2>2. Waiting(r, d)' = Waiting(r, d)
    BY <2>1 DEF Waiting
  <2>3. QED
    BY <1>2, <1>3, <2>1, <2>2, ItemCounts, CountTransfers
<1>5. CASE Confirm(c, i) \/ Delegate(c, i)
  <2>1. PICK o \in States \cup {None} : Observed(CommandOf(c, i).device, o)
    BY <1>1, <1>5 DEF Confirm, Delegate
  <2>2. CASE HasResult(r)
    BY <1>1, <2>1, <2>2, ObservedCounts
  <2>3. CASE ~HasResult(r)
    <3>1. receipt'[r] = receipt[r]
      BY <1>1, <2>1, <2>3, ObservedReceipts
    <3>2. Waiting(r, d)' \subseteq Waiting(r, d)
      BY <1>1, <2>1, ObservedReceipts DEF Waiting
    <3>3. QED
      BY <1>2, <1>3, <3>1, <3>2, ItemCounts, CountTransfers
  <2>4. QED
    BY <2>2, <2>3
<1>6. CASE TimeOut(c, i)
  <2> DEFINE p == [request |-> calls[c].request, index |-> i, device |-> CommandOf(c, i).device,
                   does |-> CommandOf(c, i).does, before |-> seen[CommandOf(c, i).device],
                   expired |-> FALSE]
  <2>1. /\ calls' = WithItem(c, i, "unknown") /\ receipt' = receipt
        /\ pending' = pending \cup {p}
    BY <1>6 DEF TimeOut
  <2>2. Unknown(r, d) \subseteq Unknown(r, d)'
    BY <1>2, <2>1, ItemCounts
  <2>3. CASE r = calls[c].request /\ d = CommandOf(c, i).device
    <3>1. i \notin Unknown(r, d) /\ i \in Unknown(r, d)'
      BY <1>2, <2>1, <2>3, ItemCounts
    <3>2. Waiting(r, d)' = Waiting(r, d) \cup {p}
      BY <2>1, <2>3 DEF Waiting
    <3>3. /\ IsFiniteSet(Waiting(r, d)) /\ Cardinality(Waiting(r, d)) \in Nat
          /\ IsFiniteSet(Unknown(r, d)) /\ Cardinality(Unknown(r, d)) \in Nat
          /\ Cardinality(Waiting(r, d)) <= Cardinality(Unknown(r, d))
      BY CountsAreFinite DEF CountsInv, CountsFinite, PendingIsUnknown
    <3>4. IsFiniteSet(Unknown(r, d)') /\ Cardinality(Unknown(r, d)') \in Nat
      BY CountsAreFiniteNext DEF CountsFinite
    <3> HIDE DEF p
    <3>5. Cardinality(Waiting(r, d)') =< Cardinality(Waiting(r, d)) + 1
          /\ Cardinality(Waiting(r, d)') \in Nat
      <4>1. Cardinality(Waiting(r, d) \cup {p}) =
               IF p \in Waiting(r, d) THEN Cardinality(Waiting(r, d)) ELSE Cardinality(Waiting(r, d)) + 1
        BY <3>3, FS_AddElement
      <4>2. Cardinality(Waiting(r, d)') = Cardinality(Waiting(r, d) \cup {p})
        BY <3>2
      <4>3. QED
        BY <3>3, <4>1, <4>2
    <3>6. Cardinality(Unknown(r, d) \cup {i}) = Cardinality(Unknown(r, d)) + 1
      BY <3>1, <3>3, FS_AddElement
    <3>7. Unknown(r, d) \cup {i} \in SUBSET Unknown(r, d)'
      BY <2>2, <3>1
    <3>8. Cardinality(Unknown(r, d) \cup {i}) =< Cardinality(Unknown(r, d)')
      BY <3>4, <3>7, FS_Subset
    <3>9. QED
      BY <3>3, <3>4, <3>5, <3>6, <3>8
  <2>4. CASE ~(r = calls[c].request /\ d = CommandOf(c, i).device)
    <3>1. Waiting(r, d)' = Waiting(r, d)
      BY <2>1, <2>4 DEF Waiting
    <3>2. QED
      BY <2>2, <3>1, CountTransfers
  <2>5. QED
    BY <2>3, <2>4
<1>7. QED
  BY <1>4, <1>5, <1>6 DEF CommandStep

LEMMA OthersKeepCounts ==
    ASSUME RuntimeAssumption, CountsInv, CountsTypes',
           \/ \E d \in Devices : Observe(d) \/ OtherActs(d)
           \/ \E p \in pending : Expire(p)
           \/ \E r \in Requests : Lapse(r)
           \/ \E a \in accepted : Act(a)
           \/ Restart
           \/ UNCHANGED vars
    PROVE  PendingIsUnknown'
<1> SUFFICES ASSUME NEW r \in Requests, NEW d \in Devices
             PROVE  Cardinality(Waiting(r, d)') <= Cardinality(Unknown(r, d)')
  BY DEF PendingIsUnknown
<1>1. RuntimeTypes
  BY DEF CountsInv, CountsTypes, RequestsInv
<1>2. ASSUME receipt'[r] = receipt[r], calls' = calls, Waiting(r, d)' \subseteq Waiting(r, d)
      PROVE  Cardinality(Waiting(r, d)') <= Cardinality(Unknown(r, d)')
  BY <1>2, SameCounts DEF Runs
<1>3. ASSUME Waiting(r, d)' = {}
      PROVE  Cardinality(Waiting(r, d)') <= Cardinality(Unknown(r, d)')
  <2>1. Cardinality(Unknown(r, d)') \in Nat
    BY CountsAreFiniteNext DEF CountsFinite
  <2>2. QED
    BY <1>3, <2>1, FS_EmptySet
<1>4. ASSUME NEW e \in Devices, Observe(e)
      PROVE  Cardinality(Waiting(r, d)') <= Cardinality(Unknown(r, d)')
  <2>1. PICK s \in States \cup {None} : Observed(e, s)
    BY <1>1, <1>4 DEF Observe, RuntimeTypes
  <2>2. CASE HasResult(r)
    BY <2>1, <2>2, ObservedCounts
  <2>3. CASE ~HasResult(r)
    <3>1. receipt'[r] = receipt[r] /\ calls' = calls
      BY <1>1, <1>4, <2>1, <2>3, ObservedReceipts DEF Observe
    <3>2. Waiting(r, d)' \subseteq Waiting(r, d)
      BY <2>1 DEF Observed, Waiting
    <3>3. QED
      BY <1>2, <3>1, <3>2
  <2>4. QED
    BY <2>2, <2>3
<1>5. CASE UNCHANGED <<receipt, calls, pending>>
  BY <1>2, <1>5 DEF Waiting
<1>6. ASSUME NEW p \in pending, Expire(p)
      PROVE  Cardinality(Waiting(r, d)') <= Cardinality(Unknown(r, d)')
  <2>1. p \in Pending
    BY <1>1 DEF RuntimeTypes
  <2>2. [p EXCEPT !.expired = TRUE].expired
    BY <2>1 DEF Pending
  <2>3. Waiting(r, d)' \subseteq Waiting(r, d)
    BY <1>6, <2>2 DEF Expire, Waiting
  <2>4. QED
    BY <1>2, <1>6, <2>3 DEF Expire
<1>7. ASSUME NEW q \in Requests, Lapse(q)
      PROVE  Cardinality(Waiting(r, d)') <= Cardinality(Unknown(r, d)')
  <2>1. CASE r = q
    <3>1. Waiting(r, d)' = {}
      BY <1>7, <2>1 DEF Lapse, Waiting
    <3>2. QED
      BY <1>3, <3>1
  <2>2. CASE r # q
    <3>1. receipt'[r] = receipt[r] /\ calls' = calls /\ pending' = pending
      BY <1>1, <1>7, <2>2 DEF Lapse, RuntimeTypes
    <3>2. QED
      BY <1>2, <3>1 DEF Waiting
  <2>3. QED
    BY <2>1, <2>2
<1>8. CASE Restart
  <2>1. Waiting(r, d)' = {}
    BY <1>8 DEF Restart, Waiting
  <2>2. QED
    BY <1>3, <2>1
<1>9. QED
  BY <1>4, <1>5, <1>6, <1>7, <1>8 DEF OtherActs, Act, vars

LEMMA PendingStaysFinite ==
    ASSUME IsFiniteSet(pending), [Next]_vars
    PROVE  IsFiniteSet(pending')
<1>1. ASSUME pending' \in SUBSET pending
      PROVE  IsFiniteSet(pending')
  BY <1>1, FS_Subset
<1>2. ASSUME NEW P \in SUBSET pending, NEW x, pending' = P \cup {x}
      PROVE  IsFiniteSet(pending')
  BY <1>2, FS_Subset, FS_AddElement
<1>3. CASE \E c \in Calls : \E i \in Items(c) : TimeOut(c, i)
  BY <1>2, <1>3 DEF TimeOut
<1>4. CASE \E p \in pending : Expire(p)
  <2>1. PICK p \in pending : pending' = (pending \ {p}) \cup {[p EXCEPT !.expired = TRUE]}
    BY <1>4 DEF Expire
  <2>2. QED
    BY <1>2, <2>1
<1>5. ASSUME NEW d, NEW s, Observed(d, s)
      PROVE  IsFiniteSet(pending')
  BY <1>1, <1>5 DEF Observed
<1>6. CASE \E c \in Calls : \E i \in Items(c) : Confirm(c, i) \/ Delegate(c, i)
  BY <1>5, <1>6 DEF Confirm, Delegate
<1>7. CASE \E d \in Devices : Observe(d)
  BY <1>5, <1>7 DEF Observe
<1>8. CASE pending' = pending \/ Restart
  BY <1>1, <1>8 DEF Restart
<1>9. QED
  BY <1>3, <1>4, <1>6, <1>7, <1>8
     DEF Next, CallStep, CommandStep, Begin, BeginLate, ReadRegistry, RefuseScene, FailRegistry,
         DeadlinePasses, Complete, Start, StartTooLate, Refuse, Break, OtherActs, Act, Lapse, vars

LEMMA CountsInitially ==
    ASSUME RuntimeAssumption, Init
    PROVE  CountsInv
<1>1. RequestsInv /\ IsFiniteSet(pending)
  BY InitEstablishesInv, FS_EmptySet DEF Init
<1>2. CountsTypes
  BY <1>1 DEF CountsTypes
<1>3. PendingIsUnknown
  <2> SUFFICES ASSUME NEW r \in Requests, NEW d \in Devices
               PROVE  Cardinality(Waiting(r, d)) <= Cardinality(Unknown(r, d))
    BY DEF PendingIsUnknown
  <2>1. Cardinality(Unknown(r, d)) \in Nat
    BY <1>2, CountsAreFinite DEF CountsFinite
  <2>2. Waiting(r, d) = {}
    BY DEF Init, Waiting
  <2>3. QED
    BY <2>1, <2>2, FS_EmptySet
<1>4. QED
  BY <1>2, <1>3 DEF CountsInv

LEMMA NextKeepsCounts ==
    ASSUME RuntimeAssumption, CountsInv, [Next]_vars
    PROVE  CountsInv'
<1>1. RequestsInv'
  BY NextKeepsInv DEF CountsInv, CountsTypes
<1>2. IsFiniteSet(pending')
  BY PendingStaysFinite DEF CountsInv, CountsTypes
<1>3. CountsTypes'
  BY <1>1, <1>2 DEF CountsTypes
<1> SUFFICES PendingIsUnknown'
  BY <1>3 DEF CountsInv
<1>4. CASE \E q \in Requests, k \in Contents : BeginLate(q, k) \/ \E c \in Calls : Begin(c, q, k)
  BY <1>3, <1>4, BeginKeepsCounts
<1>5. CASE \E c \in Calls : CallStep(c)
  BY <1>3, <1>5, CallKeepsCounts
<1>6. CASE \E c \in Calls : \E i \in Items(c) : CommandStep(c, i)
  BY <1>3, <1>6, CommandKeepsCounts
<1>7. QED
  BY <1>3, <1>4, <1>5, <1>6, OthersKeepCounts DEF Next

\* The inductive invariant behind PendingIsUnknown
THEOREM CountsInvariant == Spec => []CountsInv
<1>1. Init => CountsInv
  BY RuntimeAssumption, CountsInitially
<1>2. CountsInv /\ [Next]_vars => CountsInv'
  BY RuntimeAssumption, NextKeepsCounts
<1>3. QED
  BY <1>1, <1>2, PTL DEF Spec

\* What waits for an observation (runtime.py, _pending) never outnumbers what is
\* unknown of its request on its device, in the receipt or in the call that runs it:
\* an observation never settles more outcomes than were left unknown.
THEOREM PendingAreUnknown == Spec => []PendingIsUnknown
<1>1. CountsInv => PendingIsUnknown
  BY DEF CountsInv
<1>2. QED
  BY <1>1, CountsInvariant, PTL

==============================================================================
