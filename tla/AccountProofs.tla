---------------------------- MODULE AccountProofs ----------------------------
(***************************************************************************)
(* What holds of an Owner's accounts, of whatever number of calls,         *)
(* connections, devices, sessions, grants, readers and numbers: a Home     *)
(* Assistant account (HomeAccount), an account of the delegated platform   *)
(* (ZhoubianAccount), and the numbered observations they both feed         *)
(* (ObservationCache).                                                     *)
(*                                                                         *)
(* The three share no name and are proved about one by one; nothing here   *)
(* composes them, and each theorem is about the specification of one.      *)
(***************************************************************************)
EXTENDS HomeAccount, ZhoubianAccount, ObservationCache,
        FiniteSetTheorems, WellFoundedInduction, TLAPS

-----------------------------------------------------------------------------
(* A Home Assistant account: bind, unbind, the start and the observer.     *)

\* A Hub that is starting has nothing of the account in memory
StartsFromNothing ==
    process = "starting" =>
        /\ connection = Absent /\ owned = FALSE /\ observer = Absent
        /\ \A k \in Calls : calls[k] = NoCall

\* An account without credentials is not shown as connected, and is let alone until
\* it is bound again: there is no connection, and an observer that has not looked.
BareIsLeftAlone ==
    process = "serving" /\ status # Absent /\ ~credentials =>
        /\ status = "degraded" /\ connection = Absent
        /\ observer # Absent => observer.phase \in {"starting", "ended"}

\* The Hub keeps credentials and row together, unless it stopped between the two.
HomeInv ==
    /\ HomeTypeOK /\ StartsFromNothing /\ BareIsLeftAlone
    /\ torn \/ (credentials <=> status # Absent)

LEMMA HomeInitHolds == ASSUME AccountAssumption, HomeInit PROVE HomeInv
<1> USE DEF HomeInit
<1>1. HomeTypeOK
  BY DEF HomeTypeOK, Unopened, Connection, BindCall
<1>2. QED
  BY <1>1, Zenon DEF HomeInv, StartsFromNothing, BareIsLeftAlone

LEMMA ConnTypes ==
    ASSUME HomeTypeOK
    PROVE  /\ \A c : /\ Opened(c) \in [Conns -> Connection]
                     /\ Closed(c) \in [Conns -> Connection]
                     /\ \A how : OpenFailed(c, how) \in [Conns -> Connection]
           /\ \A k \in Calls : calls[k] \in BindCall
           /\ [c \in Conns |-> Unopened] \in [Conns -> Connection]
<1>1. conns \in [Conns -> Connection] /\ calls \in [Calls -> BindCall]
  BY DEF HomeTypeOK
<1>2. /\ [socket |-> "open", live |-> TRUE] \in Connection
      /\ [socket |-> "open", live |-> FALSE] \in Connection
      /\ [socket |-> "closed", live |-> FALSE] \in Connection
      /\ Unopened \in Connection
  BY DEF Connection, Unopened
<1>3. ASSUME NEW c, NEW how
      PROVE  OpenFailed(c, how) \in [Conns -> Connection]
  <2>1. CASE how = "unreachable"
    BY <1>1, <2>1 DEF OpenFailed
  <2>2. CASE how # "unreachable"
    BY <1>1, <1>2, <2>2 DEF OpenFailed
  <2>3. QED
    BY <2>1, <2>2
<1>4. QED
  BY <1>1, <1>2, <1>3 DEF Opened, Closed

\* The steps of the observer
LEMMA ObserverKeepsInv ==
    ASSUME AccountAssumption, HomeInv, ObserverSteps
    PROVE  HomeInv'
<1> USE DEF InPhase
<1>1. /\ observer \in Observer /\ observer # Absent
      /\ observer.phase \in {"starting", "opening", "backoff", "refilling", "waiting", "reporting"}
  BY DEF HomeInv, ObserverSteps, ObserverStarts, ObserverOpens, ObserverWakes,
         ObserverRefilled, ObserverReceives, ObserverReported,
         ObserverBreaks, ObserverFails, HomeTypeOK
<1>2. /\ UNCHANGED <<process, reach, connection, owned, credentials, torn, calls, command>>
      /\ status' = status \/ SetStatus("connected") \/ SetStatus("degraded")
      /\ status' # status => observer.phase = "opening"
  BY <1>1 DEF ObserverSteps, ObserverStarts, ObserverOpens, ObserverWakes,
         ObserverRefilled, ObserverReceives, ObserverReported,
         ObserverBreaks, ObserverFails, durable
<1>3. connection \in Conns \cup {Absent} /\ observer.conn \in Conns \cup {Absent}
      /\ observer.queued \in 0..MaxQueued /\ MaxQueued \in Nat \ {0}
  BY <1>1 DEF HomeInv, HomeTypeOK, Observer, AccountAssumption
<1>4. /\ \A p \in Observing \cup {"ended"} :
            At(p) \in Observer /\ At(p).phase = p
      /\ \A p \in Observing, n \in 0..MaxQueued :
            [At(p) EXCEPT !.queued = n] \in Observer
      /\ \A c \in Conns \cup {Absent} :
            /\ Looks(c) \in Observer
            /\ connection = Absent => Looks(c).phase = "ended"
  <2>1. ASSUME NEW p \in Observing \cup {"ended"}
        PROVE  At(p) \in Observer /\ At(p).phase = p
    BY <1>1 DEF At, Observer
  <2>2. ASSUME NEW p \in Observing, NEW n \in 0..MaxQueued
        PROVE  [At(p) EXCEPT !.queued = n] \in Observer
    BY <1>1 DEF At, Observer
  <2>3. ASSUME NEW c \in Conns \cup {Absent}
        PROVE  /\ Looks(c) \in Observer
               /\ connection = Absent => Looks(c).phase = "ended"
    BY <1>3 DEF Looks, Observer, Observing
  <2>4. QED
    BY <2>1, <2>2, <2>3
<1>5. /\ observer' \in Observer
      /\ observer.phase = "starting" /\ connection = Absent => observer'.phase = "ended"
  <2>1. CASE ObserverStarts
    BY <1>3, <1>4, <2>1 DEF ObserverStarts
  <2>2. CASE ObserverOpens
    BY <1>4, <2>2 DEF ObserverOpens, Observing
  <2>3. CASE ObserverWakes
    BY <1>3, <1>4, <2>3 DEF ObserverWakes
  <2>4. CASE ObserverRefilled
    BY <1>3, <1>4, <2>4 DEF ObserverRefilled, Observing
  <2>5. CASE ObserverReceives
    <3>1. observer' = [At("reporting") EXCEPT !.queued = observer.queued - 1]
      BY <1>1, <2>5 DEF ObserverReceives, At
    <3>2. observer.queued - 1 \in 0..MaxQueued
      BY <1>3, <2>5 DEF ObserverReceives
    <3>3. QED
      BY <1>4, <3>1, <3>2, <2>5 DEF ObserverReceives, Observing
  <2>6. CASE ObserverReported
    BY <1>3, <1>4, <2>6 DEF ObserverReported, Observing
  <2>7. CASE ObserverBreaks
    BY <1>4, <2>7 DEF ObserverBreaks
  <2>8. CASE \E how \in OpenFaults : ObserverFails(how)
    BY <1>4, <2>8 DEF ObserverFails, Observing
  <2>9. QED
    BY <2>1, <2>2, <2>3, <2>4, <2>5, <2>6, <2>7, <2>8 DEF ObserverSteps
<1>6. conns' \in [Conns -> Connection]
  <2>1. CASE UNCHANGED conns
    BY <2>1 DEF HomeInv, HomeTypeOK
  <2>2. CASE \/ conns' = Opened(observer.conn)
             \/ \E how : conns' = OpenFailed(observer.conn, how)
    BY <2>2, ConnTypes DEF HomeInv
  <2>3. QED
    BY <2>1, <2>2 DEF ObserverSteps, ObserverStarts, ObserverOpens,
           ObserverWakes, ObserverRefilled, ObserverReceives,
           ObserverReported, ObserverBreaks, ObserverFails
<1>7. /\ status' \in Status \cup {Absent}
      /\ status' = Absent <=> status = Absent
  BY <1>2 DEF HomeInv, HomeTypeOK, SetStatus, Status, AccountAssumption
<1>8. HomeTypeOK'
  BY <1>2, <1>5, <1>6, <1>7 DEF HomeInv, HomeTypeOK
<1>9. StartsFromNothing'
  BY <1>1, <1>2 DEF HomeInv, StartsFromNothing
<1>10. BareIsLeftAlone'
  <2> SUFFICES ASSUME process = "serving", status # Absent, ~credentials
               PROVE  /\ status' = "degraded" /\ connection = Absent
                      /\ observer'.phase \in {"starting", "ended"}
    BY <1>2, <1>7 DEF BareIsLeftAlone
  <2>1. status = "degraded" /\ connection = Absent /\ observer.phase = "starting"
    BY <1>1 DEF HomeInv, BareIsLeftAlone
  <2>2. status' = status
    BY <1>2, <2>1
  <2>3. QED
    BY <1>5, <2>1, <2>2
<1>11. QED
  BY <1>2, <1>7, <1>8, <1>9, <1>10 DEF HomeInv

\* Bind and unbind
LEMMA ServiceKeepsInv ==
    ASSUME AccountAssumption, HomeInv, NEW k \in Calls, CallSteps(k)
    PROVE  HomeInv'
<1> DEFINE Step ==
      \/ \E c \in Conns : BindBegins(k, c)
      \/ BindOpens(k) \/ BindReplaces(k) \/ UnbindBegins(k) \/ UnbindFinishes(k)
      \/ \E how : BindFails(k, how)
<1>0. Step
  BY DEF CallSteps
<1> HIDE DEF Step
<1>1. process = "serving" /\ process' = "serving"
  <2>1. process' = process
    BY <1>0 DEF Step, BindBegins, BindOpens, BindReplaces, BindFails,
         UnbindBegins, UnbindFinishes
  <2>2. process = "serving" \/ calls[k].phase # "idle"
    BY <1>0 DEF Step, BindBegins, BindOpens, BindReplaces, BindFails,
         UnbindBegins, UnbindFinishes
  <2>3. process = "serving"
    BY <2>2 DEF HomeInv, StartsFromNothing, HomeTypeOK, NoCall
  <2>4. QED
    BY <2>1, <2>3
<1>2. command' \in Command \cup {Absent}
  BY DEF HomeInv, HomeTypeOK, CallSteps, BindBegins, BindOpens, BindReplaces,
         BindFails, UnbindBegins, UnbindFinishes, Fails, Command
<1>3. conns' \in [Conns -> Connection]
  <2>1. CASE \/ UNCHANGED conns
             \/ \E c : conns' = Opened(c) \/ conns' = Closed(c)
             \/ \E c, how : conns' = OpenFailed(c, how)
    <3>1. HomeTypeOK /\ conns \in [Conns -> Connection]
      BY DEF HomeInv, HomeTypeOK
    <3>2. /\ \A c : /\ Opened(c) \in [Conns -> Connection]
                   /\ Closed(c) \in [Conns -> Connection]
          /\ \A c, how : OpenFailed(c, how) \in [Conns -> Connection]
      BY <3>1, ConnTypes
    <3>3. QED
      BY <2>1, <3>1, <3>2
  <2>2. CASE \/ \E c : conns' = [conns EXCEPT ![c] = Unopened]
             \/ \E c, d :
                  conns' = [Opened(c) EXCEPT ![d] = [socket |-> "closed", live |-> FALSE]]
    <3>1. /\ [socket |-> "closed", live |-> FALSE] \in Connection
          /\ Unopened \in Connection
      BY DEF Connection, Unopened
    <3>2. ASSUME NEW f \in [Conns -> Connection], NEW c, NEW x \in Connection
          PROVE  [f EXCEPT ![c] = x] \in [Conns -> Connection]
      OBVIOUS
    <3>3. conns \in [Conns -> Connection]
          /\ \A c : Opened(c) \in [Conns -> Connection]
      BY ConnTypes DEF HomeInv, HomeTypeOK
    <3>4. CASE \E c : conns' = [conns EXCEPT ![c] = Unopened]
      BY <3>1, <3>2, <3>3, <3>4
    <3>5. CASE \E c, d :
                  conns' = [Opened(c) EXCEPT ![d] = [socket |-> "closed", live |-> FALSE]]
      BY <3>1, <3>2, <3>3, <3>5
    <3>6. QED
      BY <2>2, <3>4, <3>5
  <2>3. QED
    BY <1>0, <2>1, <2>2 DEF Step, BindBegins, BindOpens, BindReplaces,
           BindFails, UnbindBegins, UnbindFinishes
<1>4. calls' \in [Calls -> BindCall]
  <2>1. calls[k].phase \in {"opening", "replacing"} => calls[k].conn \in Conns
    BY DEF HomeInv, HomeTypeOK, BindCall, NoCall
  <2>2. \/ UNCHANGED calls
        \/ \E call \in BindCall : Goes(k, call)
    BY <1>0, <2>1 DEF Step, BindBegins, BindOpens, BindReplaces, BindFails,
         UnbindBegins, UnbindFinishes, Bound, Unbound, BindCall
  <2>3. QED
    BY <2>2 DEF HomeInv, HomeTypeOK, Goes
<1>5. ASSUME NEW c \in Conns, Bound(k, c), UNCHANGED <<reach, torn>>
      PROVE  HomeInv'
  <2>1. observer' \in Observer \cup {Absent}
    BY <1>5 DEF Bound, NewObserver, Observer, Observing, HomeInv,
       HomeTypeOK, AccountAssumption
  <2>2. HomeTypeOK'
    BY <1>1, <1>2, <1>3, <1>4, <1>5, <2>1 DEF HomeTypeOK, Bound, HomeInv, Status
  <2>3. QED
    BY <1>1, <1>5, <2>2 DEF HomeInv, StartsFromNothing, BareIsLeftAlone, Bound,
       AccountAssumption, Status
<1>6. ASSUME Unbound(k), UNCHANGED <<reach, torn>>, connection' \in Conns \cup {Absent},
             observer' \in Observer \cup {Absent}
      PROVE  HomeInv'
  <2>1. HomeTypeOK'
    BY <1>1, <1>2, <1>3, <1>4, <1>6 DEF HomeTypeOK, Unbound, HomeInv
  <2>2. QED
    BY <1>1, <1>6, <2>1 DEF HomeInv, StartsFromNothing, BareIsLeftAlone, Unbound
<1>7. ASSUME UNCHANGED <<reach, owned, status, credentials, torn>>,
             \/ UNCHANGED <<connection, observer>>
             \/ connection' = Absent /\ observer' \in {observer, Absent}
      PROVE  HomeInv'
  <2>1. HomeTypeOK'
    BY <1>1, <1>2, <1>3, <1>4, <1>7 DEF HomeTypeOK, HomeInv
  <2>2. QED
    BY <1>1, <1>7, <2>1 DEF HomeInv, StartsFromNothing, BareIsLeftAlone
<1>8. connection \in Conns \cup {Absent} /\ observer \in Observer \cup {Absent}
      /\ (calls[k].phase \in {"opening", "replacing"} => calls[k].conn \in Conns)
  BY DEF HomeInv, HomeTypeOK, BindCall, NoCall
<1>9. \/ \E c \in Conns : Bound(k, c) /\ UNCHANGED <<reach, torn>>
      \/ /\ Unbound(k) /\ UNCHANGED <<reach, torn>>
         /\ connection' \in Conns \cup {Absent} /\ observer' \in Observer \cup {Absent}
      \/ /\ UNCHANGED <<reach, owned, status, credentials, torn>>
         /\ \/ UNCHANGED <<connection, observer>>
            \/ connection' = Absent /\ observer' \in {observer, Absent}
  BY <1>0, <1>8 DEF Step, BindBegins, BindOpens, BindReplaces, BindFails,
         UnbindBegins, UnbindFinishes, durable
<1>10. QED
  BY <1>5, <1>6, <1>7, <1>9

\* A start, with and without the account
LEMMA StartKeepsInv ==
    ASSUME AccountAssumption, HomeInv, Starts
    PROVE  HomeInv'
<1>1. /\ process = "starting" /\ process' = "serving"
      /\ UNCHANGED <<reach, credentials, torn, calls, command>>
      /\ connection = Absent /\ owned = FALSE /\ observer = Absent
  BY DEF Starts, StartsWithout, StartConnects, StartFails, HomeInv,
         StartsFromNothing, durable
<1>2. conns' \in [Conns -> Connection]
  <2>1. \/ UNCHANGED conns
        \/ \E c : conns' = Opened(c)
        \/ \E c, how : conns' = OpenFailed(c, how)
    BY DEF Starts, StartsWithout, StartConnects, StartFails
  <2>2. HomeTypeOK /\ conns \in [Conns -> Connection]
    BY DEF HomeInv, HomeTypeOK
  <2>3. ASSUME NEW c, conns' = Opened(c) PROVE conns' \in [Conns -> Connection]
    BY <2>2, <2>3, ConnTypes
  <2>4. ASSUME NEW c, NEW how, conns' = OpenFailed(c, how)
        PROVE  conns' \in [Conns -> Connection]
    BY <2>2, <2>4, ConnTypes
  <2>5. QED
    BY <2>1, <2>2, <2>3, <2>4
<1>3. NewObserver \in Observer /\ NewObserver.phase = "starting"
  BY DEF NewObserver, Observer, Observing, AccountAssumption
<1>4. CASE StartsWithout
  <2>1. HomeTypeOK'
    BY <1>1, <1>2, <1>4 DEF HomeInv, HomeTypeOK, StartsWithout, durable
  <2>2. QED
    BY <1>1, <1>4, <2>1 DEF HomeInv, StartsFromNothing, BareIsLeftAlone,
       StartsWithout, durable
<1>5. ASSUME NEW c \in Conns, StartConnects(c)
      PROVE  HomeInv'
  <2>1. HomeTypeOK'
    BY <1>1, <1>2, <1>3, <1>5 DEF HomeInv, HomeTypeOK, StartConnects, Status
  <2>2. QED
    BY <1>1, <1>5, <2>1 DEF HomeInv, StartsFromNothing, BareIsLeftAlone, StartConnects,
       AccountAssumption, Status
<1>6. ASSUME NEW c \in Conns, NEW how \in FaultKinds, StartFails(c, how)
      PROVE  HomeInv'
  <2>1. HomeTypeOK'
    BY <1>1, <1>2, <1>3, <1>6 DEF HomeInv, HomeTypeOK, StartFails, Status
  <2>2. QED
    BY <1>1, <1>3, <1>6, <2>1 DEF HomeInv, StartsFromNothing, BareIsLeftAlone,
           StartFails, AccountAssumption, Status
<1>7. QED
  BY <1>4, <1>5, <1>6 DEF Starts

\* A stop, between two steps or between the vault and the table
LEMMA StopKeepsInv ==
    ASSUME AccountAssumption, HomeInv, Stopped, UNCHANGED status,
           \/ UNCHANGED <<credentials, torn>>
           \/ credentials' \in BOOLEAN /\ torn' = TRUE
    PROVE  HomeInv'
<1>1. calls' \in [Calls -> BindCall] /\ conns' \in [Conns -> Connection]
  BY ConnTypes DEF Stopped, BindCall, HomeInv
<1>2. HomeTypeOK'
  BY <1>1 DEF Stopped, HomeInv, HomeTypeOK
<1>3. QED
  BY <1>2 DEF Stopped, HomeInv, StartsFromNothing, BareIsLeftAlone

\* What touches neither the account nor what the Hub keeps of it in memory
LEMMA ElsewhereInv ==
    ASSUME HomeInv, UNCHANGED <<process, connection, owned, status, credentials, torn, calls>>,
           reach' \in BOOLEAN, conns' \in [Conns -> Connection],
           command' \in Command \cup {Absent},
           observer' \in Observer \cup {Absent},
           observer' = Absent <=> observer = Absent,
           observer # Absent => observer'.phase = observer.phase
    PROVE  HomeInv'
<1>1. HomeTypeOK'
  BY DEF HomeInv, HomeTypeOK
<1>2. QED
  BY <1>1 DEF HomeInv, StartsFromNothing, BareIsLeftAlone

LEMMA HomeStep ==
    ASSUME AccountAssumption, HomeInv, [HomeNext]_homeVars
    PROVE  HomeInv'
<1>0. /\ reach \in BOOLEAN /\ conns \in [Conns -> Connection]
      /\ command \in Command \cup {Absent} /\ observer \in Observer \cup {Absent}
      /\ credentials \in BOOLEAN
  BY DEF HomeInv, HomeTypeOK
<1>1. ASSUME NEW k \in Calls, StopInBind(k) \/ StopInUnbind(k)
      PROVE  HomeInv'
  BY <1>1, StopKeepsInv DEF StopInBind, StopInUnbind
<1>2. CASE Stop
  BY <1>2, StopKeepsInv DEF Stop, durable
<1>3. CASE ReachChanges
  BY <1>0, <1>3, ElsewhereInv DEF ReachChanges, durable
<1>4. ASSUME NEW c \in Conns, Change(c)
      PROVE  HomeInv'
  <2>1. observer \in Observer /\ observer # Absent
    BY <1>0, <1>4 DEF Change, InPhase
  <2>2. MaxQueued \in Nat /\ observer.queued \in 0..MaxQueued
    BY <2>1 DEF AccountAssumption, Observer
  <2>3. PICK n \in 0..MaxQueued : observer' = [observer EXCEPT !.queued = n]
    <3>1. observer.queued = MaxQueued \/ observer.queued + 1 \in 0..MaxQueued
      BY <2>2
    <3>2. observer' = [observer EXCEPT !.queued =
                         IF observer.queued = MaxQueued THEN observer.queued
                         ELSE observer.queued + 1]
      BY <1>4 DEF Change
    <3>3. QED
      BY <2>2, <3>1, <3>2
  <2>4. observer' \in Observer /\ observer'.phase = observer.phase
    BY <2>1, <2>3 DEF Observer
  <2>5. QED
    BY <1>0, <1>4, <2>1, <2>4, ElsewhereInv DEF Change, durable,
       AccountAssumption
<1>5. ASSUME NEW c \in Conns, Lose(c)
      PROVE  HomeInv'
  <2>1. command' \in Command \cup {Absent}
    BY <1>0, <1>5 DEF Lose, Fails, Command
  <2>2. conns' \in [Conns -> Connection]
    BY <1>5, ConnTypes DEF Lose, HomeInv
  <2>3. QED
    BY <1>0, <1>5, <2>1, <2>2, ElsewhereInv DEF Lose, durable
<1>6. CASE Send \/ Act \/ Reject \/ Answer \/ Confirm \/ GiveUp
  <2>1. command' \in Command
    <3>1. CASE Send
      BY <3>1 DEF Send, Command, HomeInv, HomeTypeOK
    <3>2. CASE /\ command \in Command
               /\ Act \/ \E p \in {"refused", "confirming", "confirmed", "unknown"} :
                                 CommandBecomes(p)
      BY <3>2 DEF Act, CommandBecomes, Command
    <3>3. QED
      BY <1>0, <1>6, <3>1, <3>2 DEF Act, Reject, Answer, Confirm,
             GiveUp, Pending, CommandIs
  <2>2. UNCHANGED <<process, reach, conns, connection, owned, status, credentials, torn, calls,
                    observer>>
    BY <1>6 DEF Send, Act, Reject, Answer, Confirm, GiveUp,
       CommandBecomes, durable
  <2>3. QED
    BY <1>0, <2>1, <2>2, ElsewhereInv
<1>7. CASE UNCHANGED homeVars
  BY <1>0, <1>7, ElsewhereInv DEF homeVars, durable
<1>8. QED
  BY <1>1, <1>2, <1>3, <1>4, <1>5, <1>6, <1>7, ObserverKeepsInv, StartKeepsInv,
     ServiceKeepsInv DEF HomeNext

\* The inductive invariant of a Home Assistant account, whatever calls of bind and
\* unbind overlap and wherever the Hub stops (integration_service.py, provider.py).
THEOREM HomeInvariant ==
    ASSUME AccountAssumption
    PROVE  HomeSpec => []HomeInv
<1>1. HomeInit => HomeInv
  BY HomeInitHolds
<1>2. HomeInv /\ [HomeNext]_homeVars => HomeInv'
  BY HomeStep
<1>3. QED
  BY <1>1, <1>2, PTL DEF HomeSpec

\* A serving Hub shows an account without credentials as degraded, and has an account
\* wherever it has credentials, unless it stopped between vault and table
\* (bind and unbind keep both or neither; restore marks what it cannot open).
THEOREM CredentialsStay ==
    ASSUME AccountAssumption
    PROVE  HomeSpec => []CredentialsGoWithAccount
<1>1. HomeInv => CredentialsGoWithAccount
  BY DEF HomeInv, BareIsLeftAlone, CredentialsGoWithAccount, AccountAssumption,
         Status
<1>2. QED
  BY <1>1, HomeInvariant, PTL

-----------------------------------------------------------------------------
(* An account of the delegated platform.                                   *)
(*                                                                         *)
(* TokenRacesHeal is about how calls end, so that the invariant tells of   *)
(* every call that is out whether the platform can still refuse it: by     *)
(* what secret or token it asks, and what was forgotten meanwhile.         *)

\* What a caller waits for and what it can be told.
Phases == {"activate", "token", "refresh", "request"}
SeenMaps == [Devices -> BOOLEAN \cup {None}]
Found == [Devices -> BOOLEAN]
Keeps(c) ==
    CASE c = "poll" -> SeenMaps
      [] c = "bind" -> {"stored", "activated"}
      [] c = "sync" -> BOOLEAN
      [] OTHER -> {None}
Gives(c) ==
    IF c = "bind" THEN {"homes"} ELSE IF c = "command" THEN {"ok", "offline", "some_offline"}
    ELSE Found
Work(c) ==
    [at : Phases, session : Sessions, arg : Nat, tries : {1, 2}, more : Keeps(c),
     reply : {None, Refused} \cup Nat \cup Gives(c), shaken : BOOLEAN]
Resting(c) ==
    [at : {"idle"}, outcome : {"done", "refused"}]
    \cup (IF c = "poll" THEN [at : {"reporting"}, found : Found, left : SUBSET Devices] ELSE {})
    \cup (IF c = "sync" THEN [at : {"importing", "reporting"}, found : Found] ELSE {})

\* A caller waits for an answer of the platform, or is between two of its calls.
CallersInv ==
    /\ callers = [c \in Callers |-> callers[c]]
    /\ \A c \in Callers : callers[c] \in Work(c) \cup Resting(c)

AtWork(c) == callers[c].at \in Phases

\* What the steps count on of the other variables
ShapeInv ==
    /\ secret \in Nat /\ secrets \in Nat /\ vault \in Nat /\ grants \in Nat
    /\ sessions \in [Sessions -> [secret : Nat, grant : Nat, due : BOOLEAN, home : BOOLEAN]]
    /\ current \in Sessions \cup {None}
    /\ known \in SeenMaps

\* A session in use has a secret that was issued once; the session that is being
\* bound is nobody else's.
SessionsInv ==
    /\ secret =< secrets /\ vault =< secrets
    /\ \A s \in Sessions : sessions[s].secret =< secrets
    /\ current # None => sessions[current].secret # 0
    /\ AtWork("bind") =>
        /\ callers["bind"].session # current
        /\ \A c \in Callers \ {"bind"} : AtWork(c) => callers[c].session # callers["bind"].session

\* A secret that was not taken is never taken again; a token that was renewed is taken
\* while the platform forgets nothing; the secret of a session that is being bound is
\* the one the platform knows, unless it is a stored one that is tried first.
CallInv(c) ==
    LET k == callers[c]  s == sessions[k.session].secret IN
    /\ k.at = "activate" =>
        /\ c = "bind" /\ k.more = "activated" /\ k.tries = 1 /\ k.reply \in {None} \cup 1..secrets
        /\ k.shaken \/ k.reply \in {None, secret}
    /\ k.at # "activate" => s # 0
    /\ k.at = "token" => k.arg = s /\ (k.reply = Refused => s # secret)
    /\ k.at \in {"token", "refresh"} =>
        /\ k.reply \in {None, Refused} \cup (Nat \ {0})
        /\ k.tries = 1 \/ k.shaken \/ k.reply \in {None, Refused} \cup access
    /\ k.at = "request" =>
        /\ k.reply \in {None, Refused} \cup Gives(c)
        /\ k.tries = 1 \/ k.shaken \/ (k.arg \in access /\ k.reply # Refused)
    /\ c = "bind" /\ k.at # "activate" /\ ~k.shaken =>
        (SecretIsLost(k) /\ k.reply \in {None, Refused}) \/ s = secret

\* The inductive invariant
CoreInv ==
    CallersInv /\ ShapeInv /\ SessionsInv /\ \A c \in Callers : AtWork(c) => CallInv(c)

-----------------------------------------------------------------------------
(* Steps of one caller. *)

LEMMA Fields ==
    ASSUME CallersInv, NEW c \in Callers, AtWork(c)
    PROVE  /\ callers[c] \in Work(c) /\ callers[c].session \in Sessions /\ callers[c].arg \in Nat
           /\ callers[c].tries \in {1, 2} /\ callers[c].more \in Keeps(c)
           /\ callers[c].shaken \in BOOLEAN
           /\ callers[c].reply \in {None, Refused} \cup Nat \cup Gives(c)
<1>1. callers[c] \in Work(c) \cup Resting(c)
  BY DEF CallersInv
<1>2. callers[c] \notin Resting(c)
  BY DEF AtWork, Phases, Resting
<1>3. QED
  BY <1>1, <1>2 DEF Work

LEMMA CallIs ==
    ASSUME NEW c \in Callers, NEW at \in Phases, NEW s \in Sessions, NEW arg \in Nat,
           NEW tries \in {1, 2}, NEW more \in Keeps(c), NEW shaken \in BOOLEAN
    PROVE  /\ Call(at, s, arg, tries, more) \in Work(c)
           /\ Call(at, s, arg, tries, more).shaken = FALSE
           /\ LET k == [Call(at, s, arg, tries, more) EXCEPT !.shaken = shaken] IN
              /\ k \in Work(c) /\ k.at = at /\ k.session = s /\ k.arg = arg /\ k.tries = tries
              /\ k.more = more /\ k.reply = None /\ k.shaken = shaken
BY DEF Call, Work

LEMMA Moves ==
    ASSUME CallersInv, NEW c \in Callers, NEW r \in Work(c) \cup Resting(c), Becomes(c, r)
    PROVE  /\ CallersInv' /\ callers'[c] = r
           /\ \A x \in Callers \ {c} : callers'[x] = callers[x]
<1>1. \A x : (Work(x) \cup Resting(x))' = Work(x) \cup Resting(x)
  BY DEF Work, Resting, Keeps, Gives, Phases, SeenMaps, Found
<1>2. callers' = [callers EXCEPT ![c] = r] /\ callers = [x \in Callers |-> callers[x]]
  BY DEF CallersInv, Becomes
<1>3. /\ callers' = [x \in Callers |-> callers'[x]] /\ callers'[c] = r
      /\ \A x \in Callers \ {c} : callers'[x] = callers[x]
  BY <1>2
<1>4. \A x \in Callers : callers'[x] \in Work(x) \cup Resting(x)
  BY <1>3 DEF CallersInv
<1>5. QED
  BY <1>1, <1>3, <1>4 DEF CallersInv

LEMMA Told1 ==
    ASSUME CallersInv, NEW c \in Callers, AtWork(c),
           NEW r \in {None, Refused} \cup Nat \cup Gives(c), Replies(c, r)
    PROVE  /\ CallersInv'
           /\ LET k == callers[c]  l == callers'[c] IN
              /\ l.at = k.at /\ l.session = k.session /\ l.arg = k.arg /\ l.tries = k.tries
              /\ l.more = k.more /\ l.reply = r /\ l.shaken = k.shaken
           /\ \A x \in Callers \ {c} : callers'[x] = callers[x]
<1>1. callers[c] \in Work(c)
  BY Fields
<1> DEFINE l == [callers[c] EXCEPT !.reply = r]
<1>2. /\ l \in Work(c) /\ l.at = callers[c].at /\ l.session = callers[c].session
      /\ l.arg = callers[c].arg /\ l.tries = callers[c].tries /\ l.more = callers[c].more
      /\ l.reply = r /\ l.shaken = callers[c].shaken
  BY <1>1 DEF Work
<1>3. callers' = [callers EXCEPT ![c] = l]
  BY DEF Replies
<1> HIDE DEF l
<1>4. CallersInv' /\ callers'[c] = l /\ \A x \in Callers \ {c} : callers'[x] = callers[x]
  BY <1>2, <1>3, Moves DEF Becomes
<1>5. QED
  BY <1>2, <1>4

\* What is true of a call stays true while others go on
LEMMA CallStays ==
    ASSUME CoreInv, NEW c \in Callers, AtWork(c), callers'[c] = callers[c],
           sessions'[callers[c].session].secret = sessions[callers[c].session].secret,
           access \subseteq access', secrets' \in Nat, secrets =< secrets',
           secret' = secret \/ (c # "bind" /\ secret' > secrets)
    PROVE  CallInv(c)'
<1> DEFINE k == callers[c]  s == sessions[k.session].secret
<1>1. k.session \in Sessions /\ s \in Nat /\ s =< secrets /\ secrets \in Nat /\ CallInv(c)
      /\ k.reply \in {None, Refused} \cup Nat \cup Gives(c)
  BY Fields DEF CoreInv, ShapeInv, SessionsInv
<1>2. s # secret => s # secret'
  BY <1>1
<1>3. \A r \in 1..secrets : r \in 1..secrets'
  BY <1>1
<1>4. k.at = "activate" => c = "bind"
  BY <1>1 DEF CallInv
<1>5. SecretIsLost(k)' <=> SecretIsLost(k)
  BY DEF SecretIsLost
<1>6. secret' = secret \/ c # "bind"
  OBVIOUS
<1>7. QED
  BY <1>1, <1>2, <1>3, <1>4, <1>5, <1>6 DEF CallInv, SecretIsLost, Gives, Found

\* A caller goes on by itself: it stays with its session, takes the account's, or rests
LEMMA CoreMoves ==
    ASSUME ZhoubianAssumption, CoreInv, ShapeInv', NEW c \in Callers,
           NEW r \in Work(c) \cup Resting(c),
           Becomes(c, r), UNCHANGED <<secret, secrets, access>>, vault' =< secrets,
           current' \in {current, None} \/ (c = "bind" /\ r.at \notin Phases),
           current' # None => sessions[current'].secret # 0,
           \A s \in Sessions : sessions'[s].secret = sessions[s].secret,
           r.at \in Phases =>
               /\ CallInv(c)'
               /\ \/ AtWork(c) /\ r.session = callers[c].session
                  \/ c # "bind" /\ r.session = current
    PROVE  CoreInv'
<1>1. CallersInv' /\ callers'[c] = r /\ \A x \in Callers \ {c} : callers'[x] = callers[x]
  BY Moves DEF CoreInv
<1>2. ASSUME NEW x \in Callers \ {c}, AtWork(x)'
      PROVE  CallInv(x)'
  <2>1. AtWork(x) /\ callers'[x] = callers[x] /\ x \in Callers
    BY <1>1, <1>2 DEF AtWork
  <2>2. callers[x].session \in Sessions
    BY <2>1, Fields DEF CoreInv
  <2>3. secrets' \in Nat /\ secrets =< secrets'
    BY DEF CoreInv, ShapeInv
  <2>4. QED
    BY <2>1, <2>2, <2>3, CallStays
<1>3. \A x \in Callers : AtWork(x)' => CallInv(x)'
  BY <1>1, <1>2 DEF AtWork
<1>4. SessionsInv'
  <2>1. \A s \in Sessions : sessions'[s].secret =< secrets'
    BY DEF CoreInv, SessionsInv
  <2>2. current' # None => sessions'[current'].secret # 0
    BY DEF CoreInv, SessionsInv, ShapeInv
  <2>3. ASSUME AtWork("bind")'
        PROVE  /\ AtWork("bind") /\ callers'["bind"].session = callers["bind"].session
               /\ current' # callers["bind"].session
               /\ \A x \in Callers \ {"bind"} : AtWork(x)' =>
                    callers'[x].session # callers["bind"].session
    <3>1. "bind" \in Callers
      BY DEF Callers
    <3>2. AtWork("bind") /\ callers'["bind"].session = callers["bind"].session
      BY <1>1, <2>3, <3>1 DEF AtWork
    <3>3. current' \in {current, None} /\ callers["bind"].session # None
          /\ callers["bind"].session # current
      BY <1>1, <2>3, <3>1, <3>2, Fields DEF AtWork, CoreInv, SessionsInv, ZhoubianAssumption
    <3>4. \A x \in Callers \ {"bind"} : AtWork(x)' =>
                    callers'[x].session # callers["bind"].session
      BY <1>1, <3>2, <3>3 DEF AtWork, CoreInv, SessionsInv
    <3>5. QED
      BY <3>2, <3>3, <3>4
  <2>4. QED
    BY <2>1, <2>2, <2>3 DEF CoreInv, SessionsInv
<1>5. QED
  BY <1>1, <1>3, <1>4 DEF CoreInv

\* Nobody moves, and no secret changes
LEMMA CoreStays ==
    ASSUME CoreInv, ShapeInv', UNCHANGED <<callers, secret, secrets, access, vault, current>>,
           \A s \in Sessions : sessions'[s].secret = sessions[s].secret
    PROVE  CoreInv'
<1>1. CallersInv'
  <2>1. \A x : (Work(x) \cup Resting(x))' = Work(x) \cup Resting(x)
    BY DEF Work, Resting, Keeps, Gives, Phases, SeenMaps, Found
  <2>2. QED
    BY <2>1 DEF CoreInv, CallersInv
<1>2. ASSUME NEW x \in Callers, AtWork(x)'
      PROVE  CallInv(x)'
  <2>1. AtWork(x) /\ callers'[x] = callers[x]
    BY <1>2 DEF AtWork
  <2>2. callers[x].session \in Sessions
    BY <2>1, Fields DEF CoreInv
  <2>3. secrets' \in Nat /\ secrets =< secrets'
    BY DEF CoreInv, ShapeInv
  <2>4. QED
    BY <2>1, <2>2, <2>3, CallStays
<1>3. SessionsInv'
  <2>1. current' # None => sessions'[current'].secret # 0
    BY DEF CoreInv, SessionsInv, ShapeInv
  <2>2. QED
    BY <2>1 DEF CoreInv, SessionsInv, AtWork
<1>4. QED
  BY <1>1, <1>2, <1>3 DEF CoreInv

-----------------------------------------------------------------------------
(* The platform. *)

LEMMA AnswersKeepCore ==
    ASSUME ZhoubianAssumption, CoreInv, NEW c \in Callers,
           Activates(c) \/ Grants(c) \/ Serves(c) \/ Unauthorized(c)
    PROVE  CoreInv'
<1> DEFINE k == callers[c]
<1>1. /\ AtWork(c) /\ k.reply = None
      /\ UNCHANGED <<sessions, current, known, vault>>
  BY DEF Activates, Grants, Serves, Unauthorized, Issue, Refuse, Waits, AtWork, Phases,
         account, memory
<1>2. /\ k.session \in Sessions /\ k.arg \in Nat /\ k.tries \in {1, 2} /\ CallInv(c)
      /\ k.shaken \in BOOLEAN
  BY <1>1, Fields DEF CoreInv
<1>3. /\ secret \in Nat /\ secrets \in Nat /\ grants \in Nat /\ secret =< secrets
      /\ sessions[k.session].secret =< secrets /\ sessions[k.session].secret \in Nat
  BY <1>2 DEF CoreInv, ShapeInv, SessionsInv
<1>4. None \notin Nat /\ Refused \notin Nat /\ None # Refused /\ Refused \notin Gives(c)
  BY DEF ZhoubianAssumption, Gives, Found
<1>5. PICK r \in {None, Refused} \cup Nat \cup Gives(c) :
        /\ Replies(c, r)
        /\ \/ /\ k.at = "activate" /\ r = secrets + 1
              /\ secrets' = secrets + 1 /\ secret' = secrets + 1 /\ UNCHANGED <<grants, access>>
           \/ /\ k.at \in {"token", "refresh"} /\ r = grants + 1
              /\ (k.at = "token" => k.arg = secret)
              /\ grants' = grants + 1 /\ access' = access \cup {r}
              /\ UNCHANGED <<secret, secrets>>
           \/ /\ k.at \in {"token", "refresh"} /\ r = Refused
              /\ (k.at = "token" => (secret = 0 \/ k.arg # secret))
              /\ UNCHANGED <<secret, secrets, grants, access>>
           \/ /\ k.at = "request" /\ r \in Gives(c) /\ UNCHANGED <<secret, secrets, grants, access>>
           \/ /\ k.at = "request" /\ r = Refused /\ k.arg \notin access
              /\ UNCHANGED <<secret, secrets, grants, access>>
  <2>1. CASE Activates(c)
    BY <1>3, <2>1 DEF Activates, Waits
  <2>2. CASE Grants(c)
    <3>1. CASE \E g \in {refresh, refresh \ {k.arg}} :
                  Issue(c, g) /\ k.at \in {"token", "refresh"} /\ (k.at = "token" => k.arg = secret)
      BY <1>3, <3>1 DEF Issue
    <3>2. CASE /\ Refuse(c) /\ k.at \in {"token", "refresh"}
               /\ (k.at = "token" => (secret = 0 \/ k.arg # secret))
      BY <3>2 DEF Refuse, platform
    <3>3. QED
      BY <2>2, <3>1, <3>2 DEF Grants, Waits
  <2>3. CASE Serves(c)
    <3>1. k.at = "request"
      BY <2>3 DEF Serves, Waits
    <3>2. CASE c = "command"
      BY <2>3, <3>1, <3>2 DEF Serves, Control, Gives
    <3>3. CASE c = "bind"
      BY <2>3, <3>1, <3>3 DEF Serves, Gives, platform
    <3>4. CASE c \notin {"command", "bind"}
      <4>1. Replies(c, [d \in Devices |-> d \in connected]) /\ UNCHANGED platform
        BY <2>3, <3>4 DEF Serves
      <4>2. [d \in Devices |-> d \in connected] \in Gives(c)
        <5>1. [d \in Devices |-> d \in connected] \in [Devices -> BOOLEAN]
          OBVIOUS
        <5>2. QED
          BY <3>4, <5>1 DEF Gives, Found
      <4>3. QED
        BY <3>1, <4>1, <4>2 DEF platform
    <3>5. QED
      BY <3>2, <3>3, <3>4
  <2>4. CASE Unauthorized(c)
    BY <2>4 DEF Unauthorized, Refuse, Waits, platform
  <2>5. QED
    BY <2>1, <2>2, <2>3, <2>4
<1>6. /\ CallersInv'
      /\ LET l == callers'[c] IN
         /\ l.at = k.at /\ l.session = k.session /\ l.arg = k.arg /\ l.tries = k.tries
         /\ l.more = k.more /\ l.reply = r /\ l.shaken = k.shaken
      /\ \A x \in Callers \ {c} : callers'[x] = callers[x]
  BY <1>1, <1>5, Told1 DEF CoreInv
<1>7. ShapeInv' /\ secrets' \in Nat /\ secrets =< secrets' /\ secret' =< secrets'
      /\ access \subseteq access'
  BY <1>1, <1>3, <1>5 DEF CoreInv, ShapeInv
<1>8. CallInv(c)'
  <2>1. CASE k.at = "activate"
    BY <1>1, <1>2, <1>3, <1>5, <1>6, <2>1 DEF CallInv
  <2>2. CASE k.at \in {"token", "refresh"} /\ r # Refused
    <3>1. /\ r \in Nat \ {0} /\ r \in access' /\ secret' = secret
          /\ (k.at = "token" => sessions[k.session].secret = secret)
      BY <1>2, <1>3, <1>5, <2>2 DEF CallInv
    <3>2. c = "bind" /\ ~k.shaken => sessions[k.session].secret = secret
      BY <1>2, <2>2, <3>1 DEF CallInv, SecretIsLost
    <3>3. QED
      BY <1>1, <1>2, <1>6, <2>2, <3>1, <3>2 DEF CallInv
  <2>3. CASE k.at \in {"token", "refresh"} /\ r = Refused
    <3>1. /\ secret' = secret /\ access' = access
          /\ (k.at = "token" => sessions[k.session].secret # secret)
      <4>1. /\ secret' = secret /\ access' = access
            /\ (k.at = "token" => (secret = 0 \/ k.arg # secret))
        <5>1. r # grants + 1 /\ k.at # "activate" /\ k.at # "request"
          BY <1>3, <1>4, <2>3
        <5>2. QED
          BY <1>5, <5>1
      <4>2. QED
        BY <1>2, <2>3, <4>1 DEF CallInv
    <3>2. QED
      BY <1>1, <1>2, <1>6, <2>3, <3>1 DEF CallInv, SecretIsLost
  <2>4. CASE k.at = "request"
    <3>1. /\ secret' = secret /\ access' = access /\ r \in {Refused} \cup Gives(c)
          /\ (r = Refused => k.arg \notin access)
      BY <1>4, <1>5, <2>4
    <3>2. r \in {None, Refused} \cup Gives(c)'
      BY <3>1 DEF Gives, Found
    <3>3. QED
      BY <1>1, <1>2, <1>6, <2>4, <3>1, <3>2 DEF CallInv, SecretIsLost
  <2>5. QED
    BY <1>1, <2>1, <2>2, <2>3, <2>4 DEF AtWork, Phases
<1>9. ASSUME NEW x \in Callers \ {c}, AtWork(x)'
      PROVE  CallInv(x)'
  <2>1. AtWork(x) /\ callers'[x] = callers[x] /\ x \in Callers
    BY <1>6, <1>9 DEF AtWork
  <2>2. secret' = secret \/ (x # "bind" /\ secret' > secrets)
    <3>1. k.at = "activate" => c = "bind"
      BY <1>2 DEF CallInv
    <3>2. QED
      BY <1>3, <1>5, <3>1
  <2>3. QED
    BY <1>1, <1>7, <2>1, <2>2, CallStays
<1>10. SessionsInv'
  <2>1. \A x \in Callers : AtWork(x)' => AtWork(x) /\ callers'[x].session = callers[x].session
    BY <1>6 DEF AtWork
  <2>2. \A s \in Sessions : sessions[s].secret \in Nat /\ sessions[s].secret =< secrets
    BY DEF CoreInv, ShapeInv, SessionsInv
  <2>3. \A s \in Sessions : sessions[s].secret =< secrets'
    BY <1>3, <1>7, <2>2
  <2>4. vault =< secrets' /\ "bind" \in Callers
    BY <1>3, <1>7 DEF CoreInv, ShapeInv, SessionsInv, Callers
  <2>5. QED
    BY <1>1, <1>7, <2>1, <2>3, <2>4 DEF CoreInv, SessionsInv
<1>11. QED
  BY <1>6, <1>7, <1>8, <1>9, <1>10 DEF CoreInv, AtWork

\* Whom the platform shakes: everybody but those with the first attempt of a request
Shakes(c) == c = "bind" \/ callers[c].at # "request" \/ callers[c].tries = 2

LEMMA ShakenCallers ==
    ASSUME CallersInv, callers' = Shaken, NEW c \in Callers
    PROVE  /\ callers'[c] \in Work(c) \cup Resting(c)
           /\ ~AtWork(c) => callers'[c] = callers[c]
           /\ AtWork(c) =>
              LET k == callers[c]  l == callers'[c] IN
              /\ l.at = k.at /\ l.session = k.session /\ l.arg = k.arg /\ l.tries = k.tries
              /\ l.more = k.more /\ l.reply = k.reply
              /\ l.shaken = (k.shaken \/ Shakes(c))
<1>1. CASE AtWork(c) /\ Shakes(c)
  <2>1. callers'[c] = [callers[c] EXCEPT !.shaken = TRUE]
    BY <1>1 DEF Shaken, Shakes, Busy, AtWork, Phases
  <2>2. callers[c] \in Work(c)
    BY <1>1, Fields
  <2>3. QED
    BY <1>1, <2>1, <2>2 DEF Work
<1>2. CASE ~(AtWork(c) /\ Shakes(c))
  <2>1. callers'[c] = callers[c]
    BY <1>2 DEF Shaken, Shakes, AtWork, Phases
  <2>2. callers[c] \in Work(c) \cup Resting(c) /\ (AtWork(c) => callers[c].shaken \in BOOLEAN)
    BY Fields DEF CallersInv
  <2>3. QED
    BY <1>2, <2>1, <2>2
<1>3. QED
  BY <1>1, <1>2

\* The platform forgets tokens, or itself: whoever is renewing its token is shaken
LEMMA ForgettingKeepsCore ==
    ASSUME ZhoubianAssumption, CoreInv, callers' = Shaken,
           access' \subseteq access, secret' \in {0, secret},
           UNCHANGED <<secrets, grants, sessions, current, known, vault>>
    PROVE  CoreInv'
<1>1. ASSUME NEW c \in Callers
      PROVE  /\ callers'[c] \in Work(c) \cup Resting(c)
             /\ ~AtWork(c) => callers'[c] = callers[c]
             /\ AtWork(c) =>
                LET k == callers[c]  l == callers'[c] IN
                /\ l.at = k.at /\ l.session = k.session /\ l.arg = k.arg /\ l.tries = k.tries
                /\ l.more = k.more /\ l.reply = k.reply
                /\ l.shaken = (k.shaken \/ Shakes(c))
  BY ShakenCallers DEF CoreInv
<1>2. CallersInv'
  <2>1. \A x : (Work(x) \cup Resting(x))' = Work(x) \cup Resting(x)
    BY DEF Work, Resting, Keeps, Gives, Phases, SeenMaps, Found
  <2>2. callers' = [c \in Callers |-> callers'[c]]
    BY DEF Shaken
  <2>3. QED
    BY <1>1, <2>1, <2>2 DEF CallersInv
<1>3. \A c \in Callers : (AtWork(c)' <=> AtWork(c))
  BY <1>1 DEF AtWork
<1>4. ShapeInv'
  BY DEF CoreInv, ShapeInv
<1>5. SessionsInv'
  <2>1. secret' =< secrets
    BY DEF CoreInv, ShapeInv, SessionsInv
  <2>2. "bind" \in Callers
    BY DEF Callers
  <2>3. QED
    BY <1>1, <1>3, <2>1, <2>2 DEF CoreInv, SessionsInv
<1>6. ASSUME NEW c \in Callers, AtWork(c)
      PROVE  CallInv(c)'
  <2> DEFINE k == callers[c]  s == sessions[k.session].secret
  <2>1. /\ CallInv(c) /\ k.session \in Sessions /\ s \in Nat /\ k.tries \in {1, 2}
        /\ k.reply \in {None, Refused} \cup Nat \cup Gives(c)
    BY <1>6, Fields DEF CoreInv, ShapeInv
  <2>2. k.at = "activate" => c = "bind"
    BY <2>1 DEF CallInv
  <2>3. Shakes(c) \/ (k.at = "request" /\ k.tries = 1 /\ c # "bind")
    BY <2>1 DEF Shakes
  <2>4. (s # 0 /\ s # secret) => s # secret'
    OBVIOUS
  <2>5. LET l == callers'[c] IN
        /\ l.at = k.at /\ l.session = k.session /\ l.arg = k.arg /\ l.tries = k.tries
        /\ l.more = k.more /\ l.reply = k.reply
        /\ l.shaken = (k.shaken \/ Shakes(c))
    BY <1>1, <1>6
  <2>6. callers'[c].shaken = TRUE \/ (k.at = "request" /\ k.tries = 1 /\ c # "bind")
    BY <2>3, <2>5
  <2>7. sessions'[callers'[c].session].secret = s /\ Gives(c)' = Gives(c) /\ secrets' = secrets
    BY <2>5 DEF Gives, Found
  <2>8. QED
    BY <2>1, <2>2, <2>4, <2>5, <2>6, <2>7 DEF CallInv
<1>7. QED
  BY <1>2, <1>3, <1>4, <1>5, <1>6 DEF CoreInv

LEMMA PlatformKeepsCore ==
    ASSUME ZhoubianAssumption, CoreInv, Platform
    PROVE  CoreInv'
<1>1. ASSUME NEW g \in 1..MaxGrants, Expire(g)
      PROVE  CoreInv'
  BY <1>1, ForgettingKeepsCore DEF Expire, account, memory
<1>2. CASE Reset
  BY <1>2, ForgettingKeepsCore DEF Reset, account, memory
<1>3. ASSUME NEW d \in Devices, SetConnected(d)
      PROVE  CoreInv'
  BY <1>3, CoreStays DEF SetConnected, account, memory, CoreInv, ShapeInv
<1>4. QED
  BY <1>1, <1>2, <1>3, AnswersKeepCore DEF Platform

-----------------------------------------------------------------------------
(* The calls of the Hub. *)

\* A token is renewed by the secret or by the refresh token of the session
LEMMA RefreshesBy ==
    ASSUME CoreInv, NEW s \in Sessions, NEW tries, NEW more
    PROVE  \E at \in {"token", "refresh"}, arg \in Nat :
              /\ Refreshes(s, sessions[s], tries, more) = Call(at, s, arg, tries, more)
              /\ at = "token" => arg = sessions[s].secret
<1>1. sessions[s].secret \in Nat /\ sessions[s].grant \in Nat
  BY DEF CoreInv, ShapeInv
<1>2. QED
  BY <1>1 DEF Refreshes

\* A call of the poll, a sync or a command begins with the account's session
LEMMA AuthedIs ==
    ASSUME ZhoubianAssumption, CoreInv, current # None, NEW c \in Callers \ {"bind"},
           NEW more \in Keeps(c)
    PROVE  /\ Authed(current, more) \in Work(c) /\ Authed(current, more).session = current
           /\ callers'[c] = Authed(current, more) /\ UNCHANGED <<sessions, secret, secrets, access>>
                => CallInv(c)'
<1> DEFINE g == sessions[current]
<1>1. current \in Sessions /\ g.grant \in Nat /\ g.secret # 0
  BY DEF CoreInv, ShapeInv, SessionsInv
<1>2. CASE g.grant = 0 \/ g.due
  <2>1. PICK at \in {"token", "refresh"}, arg \in Nat :
            /\ Authed(current, more) = Call(at, current, arg, 1, more)
            /\ at = "token" => arg = g.secret
    BY <1>1, <1>2, RefreshesBy DEF Authed
  <2> DEFINE k == Call(at, current, arg, 1, more)
  <2>2. /\ k \in Work(c) /\ k.session = current /\ k.tries = 1 /\ k.reply = None
        /\ k.at \in {"token", "refresh"} /\ (k.at = "token" => k.arg = g.secret)
    BY <1>1, <2>1 DEF Call, Work, Phases
  <2> HIDE DEF k
  <2>3. ASSUME callers'[c] = k, UNCHANGED <<sessions, secret, secrets, access>>
        PROVE  CallInv(c)'
    BY <1>1, <2>2, <2>3 DEF CallInv, ZhoubianAssumption
  <2>4. Authed(current, more) = k
    BY <2>1 DEF k
  <2>5. QED
    BY <2>2, <2>3, <2>4
<1>3. CASE ~(g.grant = 0 \/ g.due)
  <2> DEFINE k == Call("request", current, g.grant, 1, more)
  <2>1. Authed(current, more) = k
    BY <1>3 DEF Authed
  <2>2. /\ k \in Work(c) /\ k.session = current /\ k.at = "request" /\ k.tries = 1
        /\ k.reply = None
    BY <1>1 DEF Call, Work, Phases
  <2> HIDE DEF k
  <2>3. ASSUME callers'[c] = k, UNCHANGED <<sessions, secret, secrets, access>>
        PROVE  CallInv(c)'
    BY <1>1, <2>2, <2>3 DEF CallInv
  <2>4. QED
    BY <2>1, <2>2, <2>3
<1>4. QED
  BY <1>2, <1>3

\* Nobody whose secret the platform knows is refused, unless it forgot something.
LEMMA NobodyIsDenied ==
    ASSUME ZhoubianAssumption, CoreInv, NEW c \in Callers, IsDenied(c)
    PROVE  Denied(c) \in {Done, Idle("refused")}
<1> DEFINE k == callers[c]
<1>1. AtWork(c) /\ k.at \in {"token", "request"} /\ k.reply = Refused
  BY DEF IsDenied, WasRefused, Answered, AtWork, Phases
<1>2. CallInv(c) /\ k.tries \in {1, 2} /\ k.shaken \in BOOLEAN /\ None # Refused
  BY <1>1, Fields DEF CoreInv, ZhoubianAssumption
<1>3. CASE k.at = "request"
  <2>1. k.tries = 2 /\ k.shaken
    BY <1>1, <1>2, <1>3 DEF IsDenied, WasRefused, Answered, CallInv
  <2>2. QED
    BY <2>1 DEF Denied
<1>4. CASE k.at = "token"
  <2>1. sessions[k.session].secret # secret
    BY <1>1, <1>2, <1>4 DEF CallInv
  <2>2. c = "bind" => k.shaken
    <3>1. c = "bind" => ~SecretIsLost(k)
      BY <1>4 DEF IsDenied, WasRefused, Answered
    <3>2. QED
      BY <1>2, <1>4, <2>1, <3>1 DEF CallInv
  <2>3. QED
    BY <2>1, <2>2 DEF Denied
<1>5. QED
  BY <1>1, <1>3, <1>4

\* A bind takes a session that nobody uses or the secret it was given for it, or drops it
LEMMA BoundKeepsCore ==
    ASSUME CoreInv, NEW s \in Sessions, s # current,
           \A x \in Callers \ {"bind"} : AtWork(x) => callers[x].session # s,
           NEW r \in Work("bind") \cup Resting("bind"), Becomes("bind", r),
           r.at \in Phases => r.session = s /\ CallInv("bind")',
           sessions' \in [Sessions -> [secret : Nat, grant : Nat, due : BOOLEAN, home : BOOLEAN]],
           \A x \in Sessions \ {s} : sessions'[x] = sessions[x], sessions'[s].secret =< secrets,
           UNCHANGED <<secret, secrets, grants, access, vault, current, known>>
    PROVE  CoreInv'
<1>1. "bind" \in Callers
  BY DEF Callers
<1>2. CallersInv' /\ callers'["bind"] = r /\ \A x \in Callers \ {"bind"} : callers'[x] = callers[x]
  BY <1>1, Moves DEF CoreInv
<1>3. ShapeInv'
  BY DEF CoreInv, ShapeInv
<1>4. ASSUME NEW x \in Callers \ {"bind"}, AtWork(x)'
      PROVE  CallInv(x)'
  <2>1. AtWork(x) /\ callers'[x] = callers[x] /\ x \in Callers
    BY <1>2, <1>4 DEF AtWork
  <2>2. callers[x].session \in Sessions \ {s}
    BY <2>1, Fields DEF CoreInv
  <2>3. secrets' \in Nat /\ secrets =< secrets'
    BY DEF CoreInv, ShapeInv
  <2>4. QED
    BY <2>1, <2>2, <2>3, CallStays
<1>5. \A x \in Sessions : sessions'[x].secret =< secrets
  BY DEF CoreInv, SessionsInv
<1>6. current # None => sessions'[current].secret # 0
  BY DEF CoreInv, ShapeInv, SessionsInv
<1>7. SessionsInv' /\ (AtWork("bind")' => CallInv("bind")')
  BY <1>2, <1>5, <1>6 DEF CoreInv, SessionsInv, AtWork
<1>8. QED
  BY <1>2, <1>3, <1>4, <1>7 DEF CoreInv

LEMMA EndsKeepCore ==
    ASSUME ZhoubianAssumption, CoreInv, NEW c \in Callers, NEW o \in {Done, Idle("refused")},
           AtWork(c), Ends(c, o)
    PROVE  CoreInv'
<1>1. /\ Becomes(c, o)
      /\ UNCHANGED <<secret, secrets, access, grants, vault, current, known>>
      /\ c # "bind" => UNCHANGED sessions
      /\ c = "bind" => sessions' = [sessions EXCEPT ![callers["bind"].session] = NoSession]
  BY DEF Ends, BindEnds, PollEnds, platform, account, memory
<1>2. o \in Resting(c) /\ o.at \notin Phases
  BY DEF Resting, Done, Idle, Phases
<1>3. CASE c = "bind"
  <2> DEFINE s == callers["bind"].session
  <2>1. /\ s \in Sessions /\ s # current
        /\ \A x \in Callers \ {"bind"} : AtWork(x) => callers[x].session # s
    BY <1>3, Fields DEF CoreInv, SessionsInv
  <2>2. /\ sessions \in [Sessions -> [secret : Nat, grant : Nat, due : BOOLEAN, home : BOOLEAN]]
        /\ NoSession \in [secret : Nat, grant : Nat, due : BOOLEAN, home : BOOLEAN]
        /\ NoSession.secret =< secrets
    BY DEF CoreInv, ShapeInv, NoSession
  <2>3. /\ sessions' \in [Sessions -> [secret : Nat, grant : Nat, due : BOOLEAN, home : BOOLEAN]]
        /\ sessions'[s].secret =< secrets
        /\ \A x \in Sessions \ {s} : sessions'[x] = sessions[x]
    BY <1>1, <1>3, <2>1, <2>2
  <2>4. QED
    BY <1>1, <1>2, <1>3, <2>1, <2>3, BoundKeepsCore
<1>4. CASE c # "bind"
  <2>1. ShapeInv'
    BY <1>1, <1>4 DEF CoreInv, ShapeInv
  <2>2. vault =< secrets /\ (current # None => sessions[current].secret # 0)
    BY DEF CoreInv, SessionsInv
  <2>3. QED
    BY <1>1, <1>2, <1>4, <2>1, <2>2, CoreMoves
<1>5. QED
  BY <1>3, <1>4

\* The answers that every caller handles alike
LEMMA TokensKeepCore ==
    ASSUME ZhoubianAssumption, CoreInv, NEW c \in Callers,
           TakesGrant(c) \/ FallsBack(c) \/ Retries(c) \/ IsDenied(c) \/ Lost(c)
    PROVE  CoreInv'
<1> DEFINE k == callers[c]
           s == k.session
<1>1. AtWork(c)
  BY DEF TakesGrant, FallsBack, Retries, IsDenied, Lost, Took, WasRefused, Answered,
         AtWork, Phases
<1>2. /\ s \in Sessions /\ k.arg \in Nat /\ k.tries \in {1, 2} /\ k.more \in Keeps(c)
      /\ k.shaken \in BOOLEAN /\ CallInv(c)
      /\ k.reply \in {None, Refused} \cup Nat \cup Gives(c)
  BY <1>1, Fields DEF CoreInv
<1>3. /\ None # Refused /\ vault =< secrets /\ (current # None => sessions[current].secret # 0)
      /\ sessions[s].secret \in Nat /\ sessions[s].grant \in Nat /\ s \in Sessions
      /\ sessions \in [Sessions -> [secret : Nat, grant : Nat, due : BOOLEAN, home : BOOLEAN]]
  BY <1>2 DEF ZhoubianAssumption, CoreInv, SessionsInv, ShapeInv
<1>4. CASE TakesGrant(c)
  <2> DEFINE r == [Call("request", s, k.reply, k.tries, k.more) EXCEPT !.shaken = k.shaken]
  <2>1. /\ Becomes(c, r) /\ k.reply \notin {None, Refused} /\ k.at \in {"token", "refresh"}
        /\ sessions' = [sessions EXCEPT ![s].grant = k.reply, ![s].due = FALSE]
        /\ UNCHANGED <<secret, secrets, access, grants, vault, current, known>>
    BY <1>4 DEF TakesGrant, Took, Answered, platform, account
  <2>2. k.reply \in Nat
    BY <1>2, <2>1 DEF CallInv
  <2>3. /\ r \in Work(c) /\ r.at = "request" /\ r.session = s /\ r.arg = k.reply
        /\ r.tries = k.tries /\ r.reply = None /\ r.shaken = k.shaken /\ r.more = k.more
    BY <1>2, <2>2 DEF Call, Work, Phases
  <2>4. /\ sessions' \in [Sessions -> [secret : Nat, grant : Nat, due : BOOLEAN, home : BOOLEAN]]
        /\ \A x \in Sessions : sessions'[x].secret = sessions[x].secret
    BY <1>3, <2>1, <2>2
  <2>5. ShapeInv'
    BY <2>1, <2>4 DEF CoreInv, ShapeInv
  <2> HIDE DEF r
  <2>6. ASSUME callers'[c] = r
        PROVE  CallInv(c)'
    <3>1. c = "bind" /\ ~k.shaken => sessions[s].secret = secret
      BY <1>2, <2>1 DEF CallInv
    <3>2. sessions[s].secret # 0 /\ (k.tries = 1 \/ k.shaken \/ k.reply \in access)
      BY <1>2, <2>1 DEF CallInv
    <3>3. QED
      BY <1>2, <1>3, <2>1, <2>3, <2>4, <2>6, <3>1, <3>2 DEF CallInv, SecretIsLost
  <2>7. callers'[c] = r
    BY <2>1, <2>3, Moves DEF CoreInv
  <2>8. QED
    BY <1>1, <1>3, <2>1, <2>3, <2>4, <2>5, <2>6, <2>7, CoreMoves
<1>5. CASE FallsBack(c)
  <2> DEFINE r == AfterRefreshRefused(c)
  <2>1. /\ Becomes(c, r) /\ k.at = "refresh"
        /\ UNCHANGED <<secret, secrets, access, grants, vault, current, known, sessions>>
    BY <1>5 DEF FallsBack, WasRefused, Answered, platform, account, memory
  <2>2. /\ r \in Work(c) /\ r.at = "token" /\ r.session = s /\ r.arg = sessions[s].secret
        /\ r.tries = k.tries /\ r.reply = None /\ r.shaken = k.shaken /\ r.more = k.more
    BY <1>2, <1>3 DEF AfterRefreshRefused, Call, Work, Phases
  <2>3. ShapeInv'
    BY <2>1 DEF CoreInv, ShapeInv
  <2> HIDE DEF r
  <2>4. callers'[c] = r
    BY <2>1, <2>2, Moves DEF CoreInv
  <2>5. CallInv(c)'
    <3>1. c = "bind" /\ ~k.shaken => sessions[s].secret = secret
      BY <1>2, <2>1 DEF CallInv, SecretIsLost
    <3>2. sessions[s].secret # 0
      BY <1>2, <2>1 DEF CallInv
    <3>3. QED
      BY <1>2, <1>3, <2>1, <2>2, <2>4, <3>1, <3>2 DEF CallInv
  <2>6. QED
    BY <1>1, <1>3, <2>1, <2>2, <2>3, <2>4, <2>5, CoreMoves
<1>6. CASE Retries(c)
  <2> DEFINE b == (c = "bind" /\ k.shaken)
             r == [Refreshes(s, sessions[s], 2, k.more) EXCEPT !.shaken = b]
  <2>1. /\ Becomes(c, r) /\ k.at = "request"
        /\ UNCHANGED <<secret, secrets, access, grants, vault, current, known, sessions>>
    BY <1>6 DEF Retries, WasRefused, Answered, platform, account, memory
  <2>2. /\ sessions[s].secret # 0 /\ b \in BOOLEAN
        /\ c = "bind" => (b \/ sessions[s].secret = secret)
    BY <1>2, <2>1 DEF CallInv, SecretIsLost
  <2>3. /\ r \in Work(c) /\ r.session = s /\ r.tries = 2 /\ r.reply = None /\ r.shaken = b
        /\ r.at \in {"token", "refresh"} /\ (r.at = "token" => r.arg = sessions[s].secret)
    <3>1. PICK at \in {"token", "refresh"}, arg \in Nat :
              /\ Refreshes(s, sessions[s], 2, k.more) = Call(at, s, arg, 2, k.more)
              /\ at = "token" => arg = sessions[s].secret
      BY <1>2, RefreshesBy
    <3> HIDE DEF b
    <3>2. QED
      BY <1>2, <2>2, <3>1 DEF Call, Work, Phases
  <2>4. ShapeInv'
    BY <2>1 DEF CoreInv, ShapeInv
  <2> HIDE DEF r
  <2>5. callers'[c] = r
    BY <2>1, <2>3, Moves DEF CoreInv
  <2>6. CallInv(c)'
    <3> HIDE DEF b
    <3>1. QED
      BY <1>3, <2>1, <2>2, <2>3, <2>5 DEF CallInv, SecretIsLost
  <2>7. QED
    BY <1>1, <1>3, <2>1, <2>3, <2>4, <2>5, <2>6, CoreMoves
<1>7. CASE IsDenied(c)
  BY <1>1, <1>7, NobodyIsDenied, EndsKeepCore DEF IsDenied
<1>8. CASE Lost(c)
  BY <1>1, <1>8, EndsKeepCore DEF Lost
<1>9. QED
  BY <1>4, <1>5, <1>6, <1>7, <1>8

\* bind and restore, up to the writing of the account
LEMMA BindKeepsCore ==
    ASSUME ZhoubianAssumption, CoreInv,
           \/ \E s \in Sessions, home \in BOOLEAN : Bind(s, home) \/ Restore(s, home)
           \/ BindActivatesAgain \/ BindTakesSecret \/ BindFinishes
    PROVE  CoreInv'
<1> DEFINE k == callers["bind"]
<1>0. "bind" \in Callers /\ vault =< secrets /\ None # Refused /\ None \notin Sessions
  BY DEF Callers, CoreInv, SessionsInv, ZhoubianAssumption
<1>1. ASSUME NEW s \in Sessions, NEW home \in BOOLEAN, Bind(s, home) \/ Restore(s, home)
      PROVE  CoreInv'
  <2> DEFINE r == IF vault # 0 THEN Call("token", s, vault, 1, "stored")
                  ELSE Call("activate", s, 0, 1, "activated")
  <2>1. /\ s # current /\ Becomes("bind", r)
        /\ \A c \in Callers : Busy(c) /\ c # "bind" => Uses(c) # s
        /\ sessions' = [sessions EXCEPT ![s] = [NoSession EXCEPT !.secret = vault, !.home = home]]
        /\ UNCHANGED <<secret, secrets, grants, access, vault, current, known>>
    BY <1>1 DEF Bind, Restore, Binds, NewSession, platform, account
  <2>2. \A x \in Callers \ {"bind"} : AtWork(x) => callers[x].session # s
    BY <2>1 DEF Busy, Uses, AtWork, Phases
  <2>3. /\ vault \in Nat
        /\ sessions \in [Sessions -> [secret : Nat, grant : Nat, due : BOOLEAN, home : BOOLEAN]]
    BY DEF CoreInv, ShapeInv
  <2>4. /\ [NoSession EXCEPT !.secret = vault, !.home = home]
              \in [secret : Nat, grant : Nat, due : BOOLEAN, home : BOOLEAN]
        /\ [NoSession EXCEPT !.secret = vault, !.home = home].secret = vault
    BY <2>3 DEF NoSession
  <2>5. /\ sessions' \in [Sessions -> [secret : Nat, grant : Nat, due : BOOLEAN, home : BOOLEAN]]
        /\ sessions'[s].secret = vault /\ \A x \in Sessions \ {s} : sessions'[x] = sessions[x]
    BY <2>1, <2>3, <2>4
  <2>6. r \in Work("bind") /\ r.session = s
    BY <2>3 DEF Call, Work, Phases, Keeps
  <2>7. callers'["bind"] = r
    BY <1>0, <2>1, <2>6, Moves DEF CoreInv
  <2>8. CallInv("bind")'
    <3>1. CASE vault # 0
      <4>1. /\ r.at = "token" /\ r.session = s /\ r.arg = vault /\ r.tries = 1 /\ r.more = "stored"
            /\ r.reply = None /\ r.shaken = FALSE
        BY <3>1 DEF Call
      <4> HIDE DEF r
      <4>2. QED
        BY <1>0, <2>5, <2>7, <3>1, <4>1 DEF CallInv, SecretIsLost
    <3>2. CASE vault = 0
      <4>1. /\ r.at = "activate" /\ r.session = s /\ r.tries = 1 /\ r.more = "activated"
            /\ r.reply = None /\ r.shaken = FALSE
        BY <3>2 DEF Call
      <4> HIDE DEF r
      <4>2. QED
        BY <2>7, <4>1 DEF CallInv
    <3>3. QED
      BY <3>1, <3>2
  <2> HIDE DEF r
  <2>9. QED
    BY <1>0, <2>1, <2>2, <2>5, <2>6, <2>8, BoundKeepsCore
<1>2. ASSUME AtWork("bind")
      PROVE  /\ k.session \in Sessions /\ CallInv("bind") /\ k.session # current
             /\ k.reply \in {None, Refused} \cup Nat \cup Gives("bind") /\ k.shaken \in BOOLEAN
             /\ \A x \in Callers \ {"bind"} : AtWork(x) => callers[x].session # k.session
  BY <1>0, <1>2, Fields DEF CoreInv, SessionsInv
<1>3. CASE BindActivatesAgain
  <2> DEFINE r == Call("activate", k.session, 0, 1, "activated")
  <2>1. /\ AtWork("bind") /\ Becomes("bind", r)
        /\ UNCHANGED <<secret, secrets, grants, access, vault, current, known, sessions>>
    BY <1>3 DEF BindActivatesAgain, WasRefused, Answered, AtWork, Phases, platform,
       account, memory
  <2>2. /\ r \in Work("bind") /\ r.at = "activate" /\ r.session = k.session /\ r.tries = 1
        /\ r.more = "activated" /\ r.reply = None /\ r.shaken = FALSE
    BY <1>2, <2>1 DEF Call, Work, Phases, Keeps
  <2>3. ShapeInv' /\ (current # None => sessions[current].secret # 0)
    BY <2>1 DEF CoreInv, ShapeInv, SessionsInv
  <2> HIDE DEF r
  <2>4. callers'["bind"] = r
    BY <1>0, <2>1, <2>2, Moves DEF CoreInv
  <2>5. CallInv("bind")'
    BY <2>2, <2>4 DEF CallInv
  <2>6. QED
    BY <1>0, <2>1, <2>2, <2>3, <2>5, CoreMoves
<1>4. CASE BindTakesSecret
  <2> DEFINE r == [Call("token", k.session, k.reply, 1, "activated") EXCEPT !.shaken = k.shaken]
  <2>1. /\ AtWork("bind") /\ Becomes("bind", r) /\ k.at = "activate"
        /\ k.reply \notin {None, Refused}
        /\ sessions' = [sessions EXCEPT ![k.session].secret = k.reply]
        /\ UNCHANGED <<secret, secrets, grants, access, vault, current, known>>
    BY <1>4 DEF BindTakesSecret, Took, Answered, AtWork, Phases, platform, account
  <2>2. k.reply \in 1..secrets /\ k.reply \in Nat \ {0} /\ (k.shaken \/ k.reply = secret)
    BY <1>2, <2>1 DEF CallInv, CoreInv, ShapeInv
  <2>3. /\ r \in Work("bind") /\ r.at = "token" /\ r.session = k.session /\ r.tries = 1
        /\ r.more = "activated" /\ r.reply = None /\ r.shaken = k.shaken /\ r.arg = k.reply
    BY <1>2, <2>1, <2>2 DEF Call, Work, Phases, Keeps
  <2>4. /\ sessions' \in [Sessions -> [secret : Nat, grant : Nat, due : BOOLEAN, home : BOOLEAN]]
        /\ sessions'[k.session].secret = k.reply
        /\ \A x \in Sessions \ {k.session} : sessions'[x] = sessions[x]
    <3>1. sessions \in [Sessions -> [secret : Nat, grant : Nat, due : BOOLEAN, home : BOOLEAN]]
      BY DEF CoreInv, ShapeInv
    <3>2. QED
      BY <1>2, <2>1, <2>2, <3>1
  <2>5. k.reply =< secrets
    BY <2>2 DEF CoreInv, ShapeInv
  <2> HIDE DEF r
  <2>6. callers'["bind"] = r
    BY <1>0, <2>1, <2>3, Moves DEF CoreInv
  <2>7. CallInv("bind")'
    BY <1>0, <2>1, <2>2, <2>3, <2>4, <2>6 DEF CallInv
  <2>8. QED
    BY <1>0, <1>2, <2>1, <2>3, <2>4, <2>5, <2>7, BoundKeepsCore
<1>5. CASE BindFinishes
  <2>1. /\ AtWork("bind") /\ Becomes("bind", Done) /\ k.at = "request"
        /\ vault' = sessions[k.session].secret /\ current' = k.session
        /\ UNCHANGED <<secret, secrets, grants, access, known, sessions>>
    BY <1>5 DEF BindFinishes, Took, Answered, AtWork, Phases, platform
  <2>2. Done \in Resting("bind") /\ Done.at \notin Phases
    BY DEF Done, Idle, Resting, Phases
  <2>3. /\ sessions[k.session].secret # 0 /\ sessions[k.session].secret \in Nat
        /\ sessions[k.session].secret =< secrets
    BY <1>2, <2>1 DEF CallInv, CoreInv, ShapeInv, SessionsInv
  <2>4. ShapeInv'
    BY <1>2, <2>1, <2>3 DEF CoreInv, ShapeInv
  <2>5. QED
    BY <1>0, <2>1, <2>2, <2>3, <2>4, CoreMoves
<1>6. QED
  BY <1>1, <1>3, <1>4, <1>5

\* That something was missed is told as a Boolean
MissedInv == missed \in BOOLEAN

\* The poll, a sync, a command and an unbind
LEMMA AccountKeepsCore ==
    ASSUME ZhoubianAssumption, CoreInv, MissedInv,
           \/ Unbind \/ Poll \/ PollListed \/ PollBreaks \/ PollFinishes
           \/ \E d \in Devices : PollReports(d)
           \/ Sync \/ SyncListed \/ SyncImports \/ SyncGivesUp \/ SyncReports \/ SyncBreaks
           \/ Execute \/ CommandAnswered
    PROVE  CoreInv'
<1>0. /\ {"poll", "sync", "command"} \subseteq Callers \ {"bind"}
      /\ vault =< secrets /\ (current # None => sessions[current].secret # 0)
      /\ secrets \in Nat /\ known \in SeenMaps
  BY DEF Callers, CoreInv, ShapeInv, SessionsInv
<1>1. /\ UNCHANGED <<secret, secrets, grants, access, sessions>>
      /\ UNCHANGED <<vault, current>> \/ (Unbind /\ vault' = 0 /\ current' = None)
  BY DEF Unbind, Poll, PollListed, PollReports, PollBreaks, PollFinishes, Sync, SyncListed,
         SyncImports, SyncGivesUp, SyncReports, SyncBreaks, Execute, CommandAnswered, platform,
         account, memory
<1>2. \A c \in Callers, o \in {"done", "refused"} :
          Idle(o) \in Resting(c) /\ Idle(o).at \notin Phases
  BY DEF Idle, Resting, Phases
<1>3. ASSUME NEW c \in {"poll", "sync", "command"}, NEW r \in Resting(c), r.at \notin Phases,
             Becomes(c, r), known' \in SeenMaps
      PROVE  CoreInv'
  <2>1. ShapeInv' /\ vault' =< secrets /\ current' \in {current, None}
        /\ (current' # None => sessions[current'].secret # 0)
    BY <1>0, <1>1, <1>3 DEF CoreInv, ShapeInv
  <2>2. QED
    BY <1>0, <1>1, <1>3, <2>1, CoreMoves
<1>4. ASSUME NEW c \in {"poll", "sync", "command"}, NEW more \in Keeps(c), current # None,
             Becomes(c, Authed(current, more)), UNCHANGED <<vault, current, known>>
      PROVE  CoreInv'
  <2> DEFINE r == Authed(current, more)
  <2>1. ShapeInv'
    BY <1>1, <1>4 DEF CoreInv, ShapeInv
  <2>2. c \in Callers \ {"bind"}
    BY <1>0
  <2>3. /\ r \in Work(c) /\ r.session = current
        /\ callers'[c] = r /\ UNCHANGED <<sessions, secret, secrets, access>> => CallInv(c)'
    BY <1>4, <2>2, AuthedIs
  <2> HIDE DEF r
  <2>4. callers'[c] = r
    BY <1>4, <2>2, <2>3, Moves DEF CoreInv, r
  <2>5. QED
    BY <1>0, <1>1, <1>4, <2>1, <2>2, <2>3, <2>4, CoreMoves DEF r
<1>5. ASSUME UNCHANGED <<callers, vault, current, known>>
      PROVE  CoreInv'
  BY <1>1, <1>5, CoreStays DEF CoreInv, ShapeInv
<1>6. CASE Unbind
  <2>1. Becomes("poll", Done) /\ known' \in SeenMaps
    BY <1>6 DEF Unbind, Becomes, Unseen, SeenMaps
  <2>2. QED
    BY <1>2, <1>3, <2>1, <1>0 DEF Done
<1>7. CASE Poll
  <2>1. UNCHANGED <<vault, current, known>>
    BY <1>7 DEF Poll
  <2>2. CASE UNCHANGED callers
    BY <1>5, <2>1, <2>2
  <2>3. CASE current # None /\ Becomes("poll", Authed(current, known))
    BY <1>0, <1>4, <2>1, <2>3 DEF Keeps
  <2>4. QED
    BY <1>7, <2>2, <2>3 DEF Poll
<1>8. CASE PollListed
  <2> DEFINE k == callers["poll"]
             r == [at |-> "reporting", found |-> k.reply, left |-> Changed(k.more, k.reply)]
  <2>1. /\ AtWork("poll") /\ k.at = "request" /\ k.reply \notin {None, Refused}
        /\ known' = k.reply /\ Becomes("poll", r)
    BY <1>8 DEF PollListed, Took, Answered, AtWork, Phases
  <2>2. k.reply \in Found /\ Changed(k.more, k.reply) \subseteq Devices
    BY <1>0, <2>1, Fields DEF CoreInv, CallInv, Gives, Changed
  <2>3. r \in Resting("poll") /\ r.at \notin Phases
    BY <2>2 DEF Resting, Phases
  <2>4. known' \in SeenMaps
    BY <2>1, <2>2 DEF Found, SeenMaps
  <2> HIDE DEF r
  <2>5. QED
    BY <1>3, <2>1, <2>3, <2>4
<1>9. CASE SyncListed
  <2> DEFINE k == callers["sync"]
             r == [at |-> "importing", found |-> k.reply]
  <2>1. /\ AtWork("sync") /\ k.at = "request" /\ k.reply \notin {None, Refused}
        /\ known' = k.reply /\ Becomes("sync", r)
    BY <1>9 DEF SyncListed, Took, Answered, AtWork, Phases
  <2>2. k.reply \in Found
    BY <1>0, <2>1, Fields DEF CoreInv, CallInv, Gives
  <2>3. r \in Resting("sync") /\ r.at \notin Phases
    BY <2>2 DEF Resting, Phases
  <2>4. known' \in SeenMaps
    BY <2>1, <2>2 DEF Found, SeenMaps
  <2> HIDE DEF r
  <2>5. QED
    BY <1>3, <2>1, <2>3, <2>4
<1>10. CASE Sync
  BY <1>0, <1>4, <1>10 DEF Sync, Keeps, MissedInv, account, memory
<1>11. CASE SyncImports
  <2> DEFINE r == [callers["sync"] EXCEPT !.at = "reporting"]
  <2>1. callers["sync"].at = "importing" /\ Becomes("sync", r) /\ UNCHANGED known
    BY <1>11 DEF SyncImports, memory
  <2>2. callers["sync"] \in [at : {"importing", "reporting"}, found : Found]
    BY <1>0, <2>1 DEF CoreInv, CallersInv, Work, Phases, Resting
  <2>3. r \in Resting("sync") /\ r.at \notin Phases
    BY <2>2 DEF Resting, Phases
  <2> HIDE DEF r
  <2>4. QED
    BY <1>0, <1>3, <2>1, <2>3
<1>12. CASE PollBreaks \/ PollFinishes \/ SyncGivesUp \/ SyncReports \/ SyncBreaks \/ CommandAnswered
  <2>1. /\ \E c \in {"poll", "sync", "command"}, o \in {"done", "refused"} : Becomes(c, Idle(o))
        /\ UNCHANGED known
    BY <1>12 DEF PollBreaks, PollFinishes, SyncGivesUp, SyncReports, SyncBreaks,
           CommandAnswered, Done, memory
  <2>2. QED
    BY <1>0, <1>2, <1>3, <2>1
<1>13. CASE Execute
  <2>1. UNCHANGED <<vault, current, known>>
    BY <1>13 DEF Execute, account, memory
  <2>2. CASE Becomes("command", Idle("refused"))
    BY <1>0, <1>2, <1>3, <2>1, <2>2
  <2>3. CASE current # None /\ Becomes("command", Authed(current, None))
    BY <1>0, <1>4, <2>1, <2>3 DEF Keeps
  <2>4. QED
    BY <1>13, <2>2, <2>3 DEF Execute
<1>14. ASSUME NEW d \in Devices, PollReports(d)
       PROVE  CoreInv'
  <2> DEFINE r == [callers["poll"] EXCEPT !.left = @ \ {d}]
  <2>1. callers["poll"].at = "reporting" /\ Becomes("poll", r) /\ UNCHANGED known
    BY <1>14 DEF PollReports
  <2>2. callers["poll"] \in [at : {"reporting"}, found : Found, left : SUBSET Devices]
    BY <1>0, <2>1 DEF CoreInv, CallersInv, Work, Phases, Resting
  <2>3. r \in Resting("poll") /\ r.at \notin Phases
    BY <2>2 DEF Resting, Phases
  <2> HIDE DEF r
  <2>4. QED
    BY <1>0, <1>3, <2>1, <2>3
<1>15. QED
  BY <1>6, <1>7, <1>8, <1>9, <1>10, <1>11, <1>12, <1>13, <1>14

LEMMA MissedStep == ASSUME MissedInv, [Next]_vars PROVE MissedInv'
<1> USE DEF MissedInv
<1>1. CASE Platform
  BY <1>1 DEF Platform, Activates, Grants, Issue, Refuse, Serves, Unauthorized, Expire, Reset,
         SetConnected
<1>2. ASSUME NEW c \in Callers, TakesGrant(c) \/ FallsBack(c) \/ Retries(c) \/ IsDenied(c) \/ Lost(c)
      PROVE  MissedInv'
  BY <1>2 DEF TakesGrant, FallsBack, Retries, IsDenied, Lost, Ends, BindEnds, PollEnds
<1>3. ASSUME NEW s \in Sessions,
             ComesDue(s) \/ \E home \in BOOLEAN : Bind(s, home) \/ Restore(s, home)
      PROVE  MissedInv'
  BY <1>3 DEF ComesDue, Bind, Restore, Binds
<1>4. CASE BindActivatesAgain \/ BindTakesSecret \/ BindFinishes \/ Unbind
  BY <1>4 DEF BindActivatesAgain, BindTakesSecret, BindFinishes, Unbind, Busy
<1>5. CASE \/ Poll \/ PollListed \/ PollBreaks \/ PollFinishes
           \/ \E d \in Devices : PollReports(d)
  <2>1. CASE Poll
    <3>1. UNCHANGED missed \/ missed' = (missed \/ Busy("sync"))
      BY <2>1 DEF Poll
    <3>2. QED
      BY <3>1 DEF Busy
  <2>2. CASE PollListed \/ PollBreaks \/ PollFinishes
    BY <2>2 DEF PollListed, PollBreaks, PollFinishes
  <2>3. ASSUME NEW d \in Devices, PollReports(d)
        PROVE  MissedInv'
    BY <2>3 DEF PollReports
  <2>4. QED
    BY <1>5, <2>1, <2>2, <2>3
<1>6. CASE Sync \/ SyncListed \/ SyncImports \/ SyncGivesUp \/ SyncReports \/ SyncBreaks
  BY <1>6 DEF Sync, SyncListed, SyncImports, SyncGivesUp, SyncReports, SyncBreaks, Busy
<1>7. CASE Execute \/ CommandAnswered \/ Restart
  BY <1>7 DEF Execute, CommandAnswered, Restart
<1>8. CASE UNCHANGED vars
  BY <1>8 DEF vars
<1>9. QED
  BY <1>1, <1>2, <1>3, <1>4, <1>5, <1>6, <1>7, <1>8 DEF Next, Hub

LEMMA CoreInit == ASSUME ZhoubianAssumption, Init PROVE CoreInv
<1> USE DEF Init
<1>1. \A c \in Callers : callers[c] = Done /\ Done \in Resting(c) /\ ~AtWork(c)
  BY DEF AllIdle, Done, Idle, Resting, AtWork, Phases
<1>2. CallersInv
  <2>1. callers = [c \in Callers |-> callers[c]]
    BY DEF AllIdle
  <2>2. QED
    BY <1>1, <2>1 DEF CallersInv
<1>3. ShapeInv
  BY DEF ShapeInv, NoSession, Unseen, SeenMaps
<1>4. SessionsInv
  <2>1. \A s \in Sessions : sessions[s].secret = 0
    BY DEF NoSession
  <2>2. QED
    BY <1>1, <2>1 DEF SessionsInv, Callers
<1>5. QED
  BY <1>1, <1>2, <1>3, <1>4 DEF CoreInv

LEMMA CoreStep ==
    ASSUME ZhoubianAssumption, CoreInv, MissedInv, [Next]_vars
    PROVE  CoreInv'
<1>1. ASSUME NEW s \in Sessions, ComesDue(s)
      PROVE  CoreInv'
  <2>1. sessions \in [Sessions -> [secret : Nat, grant : Nat, due : BOOLEAN, home : BOOLEAN]]
    BY DEF CoreInv, ShapeInv
  <2>2. sessions' = [sessions EXCEPT ![s].due = TRUE]
    BY <1>1 DEF ComesDue
  <2>3. /\ sessions' \in [Sessions -> [secret : Nat, grant : Nat, due : BOOLEAN, home : BOOLEAN]]
        /\ \A x \in Sessions : sessions'[x].secret = sessions[x].secret
    BY <2>1, <2>2
  <2>4. UNCHANGED <<callers, secret, secrets, grants, access, vault, current, known>>
    BY <1>1 DEF ComesDue, platform, account
  <2>5. ShapeInv'
    BY <2>3, <2>4 DEF CoreInv, ShapeInv
  <2>6. QED
    BY <2>3, <2>4, <2>5, CoreStays
<1>2. CASE Restart
  <2>1. /\ callers' = AllIdle /\ sessions' = [s \in Sessions |-> NoSession]
        /\ current' = None /\ known' = Unseen
        /\ UNCHANGED <<secret, secrets, grants, access, vault>>
    BY <1>2 DEF Restart, platform, account
  <2>2. \A c \in Callers : callers'[c] = Done /\ Done \in Resting(c) /\ Done.at \notin Phases
    BY <2>1 DEF AllIdle, Done, Idle, Resting, Phases
  <2>3. CallersInv'
    <3>1. callers' = [c \in Callers |-> callers'[c]]
      BY <2>1 DEF AllIdle
    <3>2. \A x : (Work(x) \cup Resting(x))' = Work(x) \cup Resting(x)
      BY DEF Work, Resting, Keeps, Gives, Phases, SeenMaps, Found
    <3>3. QED
      BY <2>2, <3>1, <3>2 DEF CallersInv
  <2>4. ShapeInv'
    BY <2>1 DEF CoreInv, ShapeInv, NoSession, Unseen, SeenMaps
  <2>5. SessionsInv'
    <3>1. \A s \in Sessions : sessions'[s].secret = 0
      BY <2>1 DEF NoSession
    <3>2. secrets \in Nat
      BY DEF CoreInv, ShapeInv
    <3>3. QED
      BY <2>1, <2>2, <3>1, <3>2 DEF CoreInv, SessionsInv, AtWork, Callers
  <2>6. QED
    BY <2>2, <2>3, <2>4, <2>5 DEF CoreInv, AtWork
<1>3. CASE UNCHANGED vars
  BY <1>3, CoreStays DEF vars, platform, account, memory, CoreInv, ShapeInv
<1>4. QED
  BY <1>1, <1>2, <1>3, PlatformKeepsCore, TokensKeepCore, BindKeepsCore, AccountKeepsCore
     DEF Next, Hub

-----------------------------------------------------------------------------
(* What the callers that are not concerned keep. *)

LEMMA RepliesLeave ==
    ASSUME CallersInv, NEW c \in Callers, AtWork(c), NEW r, Replies(c, r)
    PROVE  /\ callers'[c].at = callers[c].at /\ callers'[c].more = callers[c].more
           /\ callers'[c].reply = r
           /\ \A x \in Callers \ {c} : callers'[x] = callers[x]
<1>1. callers[c] \in Work(c) /\ callers = [x \in Callers |-> callers[x]]
  BY Fields DEF CallersInv
<1>2. callers' = [callers EXCEPT ![c].reply = r]
  BY DEF Replies
<1>3. QED
  BY <1>1, <1>2 DEF Work

LEMMA BecomesLeaves ==
    ASSUME CallersInv, NEW c \in Callers, NEW r, Becomes(c, r)
    PROVE  callers'[c] = r /\ \A x \in Callers \ {c} : callers'[x] = callers[x]
BY DEF CallersInv, Becomes

\* A token comes, or another way to one is tried: the next call of the same caller goes out.
LEMMA TokensSend ==
    ASSUME CoreInv, NEW c \in Callers, TakesGrant(c) \/ FallsBack(c) \/ Retries(c)
    PROVE  /\ AtWork(c)
           /\ \E r : /\ Becomes(c, r) /\ r.at \in Phases
                     /\ r.more = callers[c].more /\ r.reply = None
<1> DEFINE k == callers[c]
<1>1. AtWork(c) /\ k.session \in Sessions
  <2>1. AtWork(c)
    BY DEF TakesGrant, FallsBack, Retries, Took, WasRefused, Answered, AtWork, Phases
  <2>2. QED
    BY <2>1, Fields DEF CoreInv
<1>2. PICK at \in Phases : \E arg, tries, shaken :
         Becomes(c, [Call(at, k.session, arg, tries, k.more) EXCEPT !.shaken = shaken])
  <2>1. CASE TakesGrant(c)
    BY <2>1 DEF TakesGrant, Phases
  <2>2. CASE FallsBack(c)
    BY <2>2 DEF FallsBack, AfterRefreshRefused, Phases
  <2>3. CASE Retries(c)
    <3>1. PICK at \in {"token", "refresh"}, arg \in Nat :
             Refreshes(k.session, sessions[k.session], 2, k.more)
                 = Call(at, k.session, arg, 2, k.more)
      BY <1>1, RefreshesBy
    <3>2. QED
      BY <2>3, <3>1 DEF Retries, Phases
  <2>4. QED
    BY <2>1, <2>2, <2>3
<1>3. PICK arg, tries, shaken :
         Becomes(c, [Call(at, k.session, arg, tries, k.more) EXCEPT !.shaken = shaken])
  BY <1>2
<1> DEFINE r == [Call(at, k.session, arg, tries, k.more) EXCEPT !.shaken = shaken]
<1>4. r.at = at /\ r.more = k.more /\ r.reply = None
  BY DEF Call
<1>5. Becomes(c, r) /\ at \in Phases
  BY <1>2, <1>3
<1> HIDE DEF r
<1>6. QED
  BY <1>1, <1>4, <1>5

\* A caller answered or shaken by the platform stays where it is.
LEMMA PlatformLeaves ==
    ASSUME CallersInv, Platform, NEW x \in Callers
    PROVE  /\ ~AtWork(x) => callers'[x] = callers[x]
           /\ AtWork(x) => callers'[x].at = callers[x].at /\ callers'[x].more = callers[x].more
           /\ UNCHANGED <<known, imported, shown, missed>>
<1>1. ASSUME NEW c \in Callers, Activates(c) \/ Grants(c) \/ Serves(c) \/ Unauthorized(c)
      PROVE  /\ AtWork(c) /\ UNCHANGED <<known, imported, shown, missed>>
             /\ \E r : Replies(c, r)
  BY <1>1 DEF Activates, Grants, Issue, Refuse, Serves, Control, Unauthorized, Waits, AtWork,
         Phases, account, memory
<1>2. ASSUME NEW c \in Callers, Activates(c) \/ Grants(c) \/ Serves(c) \/ Unauthorized(c)
      PROVE  /\ ~AtWork(x) => callers'[x] = callers[x]
             /\ AtWork(x) => callers'[x].at = callers[x].at /\ callers'[x].more = callers[x].more
  BY <1>1, <1>2, RepliesLeave
<1>3. ASSUME callers' = Shaken
      PROVE  /\ ~AtWork(x) => callers'[x] = callers[x]
             /\ AtWork(x) => callers'[x].at = callers[x].at /\ callers'[x].more = callers[x].more
  BY <1>3, ShakenCallers
<1>4. CASE \E g \in 1..MaxGrants : Expire(g)
  BY <1>3, <1>4 DEF Expire, account, memory
<1>5. CASE Reset
  BY <1>3, <1>5 DEF Reset, account, memory
<1>6. CASE \E d \in Devices : SetConnected(d)
  BY <1>6 DEF SetConnected, account, memory
<1>7. QED
  BY <1>1, <1>2, <1>4, <1>5, <1>6 DEF Platform

-----------------------------------------------------------------------------
(* What the runtime is shown. *)

\* The runtime shows the registry's devices as this list has them.
UpTo(seen) == imported => \A d \in Devices : seen[d] # None => shown[d] = seen[d]

\* A poll and a sync that do not overlap find what was known before them, and what they
\* have listed is known until they have reported it.
ListsInv ==
    ~missed =>
        LET p == callers["poll"]  s == callers["sync"] IN
        /\ p.at = "idle" \/ s.at = "idle"
        /\ AtWork("poll") => p.more = known
        /\ p.at = "reporting" =>
            /\ known = p.found
            /\ imported => \A d \in Devices \ p.left : p.found[d] # None => shown[d] = p.found[d]
        /\ s.at \in {"importing", "reporting"} => known = s.found
        /\ s.at = "reporting" => imported
        /\ \/ p.at = "reporting" \/ s.at \in {"importing", "reporting"}
           \/ AtWork("sync") /\ s.more
           \/ UpTo(known)

\* Calls go on, and a poll's may come to nothing
LEMMA ListsStay ==
    ASSUME ListsInv, UNCHANGED <<known, imported, shown, missed>>,
           \/ callers'["poll"] = callers["poll"]
           \/ /\ AtWork("poll") /\ callers'["poll"].at \in Phases \cup {"idle"}
              /\ callers'["poll"].at \in Phases => callers'["poll"].more = callers["poll"].more,
           \/ callers'["sync"] = callers["sync"]
           \/ /\ AtWork("sync") /\ callers'["sync"].at \in Phases
              /\ callers'["sync"].more = callers["sync"].more
    PROVE  ListsInv'
<1>1. \A x : x \in Phases => x \notin {"idle", "importing", "reporting"}
  BY DEF Phases
<1> DEFINE p == callers["poll"]
           s == callers["sync"]
           q == callers'["poll"]
           t == callers'["sync"]
<1>2. CASE missed
  BY <1>2 DEF ListsInv
<1>3. CASE ~missed
  <2>1. /\ p.at = "idle" \/ s.at = "idle"
        /\ p.at \in Phases => p.more = known
        /\ p.at = "reporting" =>
            /\ known = p.found
            /\ imported => \A d \in Devices \ p.left : p.found[d] # None => shown[d] = p.found[d]
        /\ s.at \in {"importing", "reporting"} => known = s.found
        /\ s.at = "reporting" => imported
        /\ \/ p.at = "reporting" \/ s.at \in {"importing", "reporting"}
           \/ s.at \in Phases /\ s.more
           \/ UpTo(known)
    BY <1>3 DEF ListsInv, AtWork
  <2>2. \/ q = p
        \/ /\ p.at \in Phases /\ q.at \in Phases \cup {"idle"}
           /\ q.at \in Phases => q.more = p.more
    BY DEF AtWork
  <2>3. t = s \/ (s.at \in Phases /\ t.at \in Phases /\ t.more = s.more)
    BY DEF AtWork
  <2>4. q.at = "idle" \/ t.at = "idle"
    BY <1>1, <2>1, <2>2, <2>3
  <2>5. q.at \in Phases => q.more = known
    BY <2>1, <2>2
  <2>6. q.at = "reporting" =>
            /\ known = q.found
            /\ imported => \A d \in Devices \ q.left : q.found[d] # None => shown[d] = q.found[d]
    <3>1. q.at = "reporting" => q = p
      BY <1>1, <2>2
    <3> HIDE DEF q, p
    <3>2. QED
      BY <2>1, <3>1
  <2>7. /\ t.at \in {"importing", "reporting"} => known = t.found
        /\ t.at = "reporting" => imported
    BY <1>1, <2>1, <2>3
  <2>8. \/ q.at = "reporting" \/ t.at \in {"importing", "reporting"}
        \/ t.at \in Phases /\ t.more
        \/ UpTo(known)
    BY <1>1, <2>1, <2>2, <2>3
  <2>9. QED
    BY <2>4, <2>5, <2>6, <2>7, <2>8 DEF ListsInv, AtWork, UpTo
<1>4. QED
  BY <1>2, <1>3

LEMMA ListsStep ==
    ASSUME ZhoubianAssumption, CoreInv, ListsInv, [Next]_vars
    PROVE  ListsInv'
<1>0. /\ CallersInv /\ {"poll", "sync", "command", "bind"} = Callers
      /\ \A x : x \in Phases => x \notin {"idle", "importing", "reporting"}
  BY DEF CoreInv, Callers, Phases
<1>1. CASE Platform
  <2>1. \A x \in {"poll", "sync"} :
           /\ ~AtWork(x) => callers'[x] = callers[x]
           /\ AtWork(x) => callers'[x].at = callers[x].at /\ callers'[x].more = callers[x].more
    BY <1>0, <1>1, PlatformLeaves
  <2>2. UNCHANGED <<known, imported, shown, missed>>
    BY <1>0, <1>1, PlatformLeaves
  <2>3. QED
    BY <2>1, <2>2, ListsStay DEF AtWork
<1>2. ASSUME NEW c \in Callers, NEW r, Becomes(c, r),
             UNCHANGED <<known, imported, shown, missed>>,
             \/ c \notin {"poll", "sync"}
             \/ /\ AtWork(c) /\ r.at \in Phases \cup {"idle"}
                /\ r.at \in Phases => r.more = callers[c].more
                /\ c = "sync" => r.at \in Phases
      PROVE  ListsInv'
  BY <1>0, <1>2, BecomesLeaves, ListsStay
<1>3. ASSUME NEW c \in Callers, TakesGrant(c) \/ FallsBack(c) \/ Retries(c)
      PROVE  ListsInv'
  <2>1. UNCHANGED <<known, imported, shown, missed>>
    BY <1>3 DEF TakesGrant, FallsBack, Retries, account, memory
  <2>2. /\ AtWork(c)
        /\ \E r : Becomes(c, r) /\ r.at \in Phases /\ r.more = callers[c].more
    BY <1>3, TokensSend
  <2>3. QED
    BY <1>2, <2>1, <2>2
<1>4. ASSUME NEW c \in Callers, NEW o, AtWork(c), Ends(c, Idle(o))
      PROVE  ListsInv'
  <2>1. Becomes(c, Idle(o)) /\ UNCHANGED <<known, imported, shown>>
    BY <1>4 DEF Ends, BindEnds, PollEnds, account, memory
  <2>2. Idle(o).at = "idle"
    BY DEF Idle
  <2>3. CASE c # "sync"
    <3>1. UNCHANGED missed
      BY <1>4, <2>3 DEF Ends, BindEnds, PollEnds
    <3>2. QED
      BY <1>0, <1>2, <1>4, <2>1, <2>2, <2>3, <3>1
  <2>4. CASE c = "sync"
    <3>1. missed' = (missed \/ callers["sync"].more)
      BY <1>4, <2>4 DEF Ends
    <3>2. callers'["sync"] = Idle(o) /\ callers'["poll"] = callers["poll"]
      BY <1>0, <2>1, <2>4, BecomesLeaves
    <3>3. ~missed' => callers["poll"].at = "idle" /\ UpTo(known)
      BY <1>0, <1>4, <2>4, <3>1 DEF ListsInv, AtWork
    <3>4. UpTo(known)' <=> UpTo(known)
      BY <2>1 DEF UpTo
    <3>5. QED
      BY <1>0, <2>1, <2>2, <3>2, <3>3, <3>4 DEF ListsInv, AtWork
  <2>5. QED
    BY <2>3, <2>4
<1>5. ASSUME NEW c \in Callers, IsDenied(c) \/ Lost(c)
      PROVE  ListsInv'
  <2>1. AtWork(c)
    BY <1>5 DEF IsDenied, Lost, WasRefused, Answered, AtWork, Phases
  <2>2. \E o : Ends(c, Idle(o))
    BY <1>5 DEF IsDenied, Lost, Denied, Done
  <2>3. QED
    BY <1>4, <2>1, <2>2
<1>6. ASSUME UNCHANGED <<callers, known, imported, shown, missed>>
      PROVE  ListsInv'
  BY <1>6, ListsStay
<1>7. ASSUME NEW s \in Sessions, ComesDue(s)
      PROVE  ListsInv'
  BY <1>6, <1>7 DEF ComesDue, account
<1>8. CASE \/ \E s \in Sessions, home \in BOOLEAN : Bind(s, home) \/ Restore(s, home)
           \/ BindActivatesAgain \/ BindTakesSecret \/ BindFinishes
  <2>1. /\ UNCHANGED <<known, imported, shown, missed>>
        /\ \E r : Becomes("bind", r)
    BY <1>8 DEF Bind, Restore, Binds, BindActivatesAgain, BindTakesSecret, BindFinishes,
           account, memory
  <2>2. QED
    BY <1>0, <1>2, <2>1
<1>9. CASE Execute \/ CommandAnswered
  <2>1. /\ UNCHANGED <<known, imported, shown, missed>>
        /\ \E r : Becomes("command", r)
    BY <1>9 DEF Execute, CommandAnswered, account, memory
  <2>2. QED
    BY <1>0, <1>2, <2>1
<1>10. CASE Unbind
  <2>1. /\ Becomes("poll", Done) /\ known' = Unseen /\ missed' = Busy("sync")
        /\ UNCHANGED <<imported, shown>>
    BY <1>10 DEF Unbind, Becomes
  <2>2. callers'["poll"] = Done /\ callers'["sync"] = callers["sync"]
    BY <1>0, <2>1, BecomesLeaves
  <2>3. missed' \/ callers["sync"].at = "idle"
    BY <2>1 DEF Busy
  <2>4. UpTo(known)'
    BY <2>1 DEF UpTo, Unseen
  <2>5. QED
    BY <1>0, <2>2, <2>3, <2>4 DEF ListsInv, AtWork, Done, Idle
<1>11. CASE Poll
  <2>1. UNCHANGED <<known, imported, shown>>
    BY <1>11 DEF Poll
  <2>2. CASE current = None
    BY <1>6, <1>11, <2>1, <2>2 DEF Poll
  <2>3. CASE current # None /\ Becomes("poll", Authed(current, known))
    <3>1. /\ Authed(current, known).at \in Phases /\ Authed(current, known).more = known
      <4>1. current \in Sessions
        BY <2>3 DEF CoreInv, ShapeInv
      <4>2. PICK at \in {"token", "refresh"}, arg \in Nat :
               Refreshes(current, sessions[current], 1, known) = Call(at, current, arg, 1, known)
        BY <4>1, RefreshesBy DEF CoreInv
      <4>3. QED
        BY <4>2 DEF Authed, Call, Phases
    <3>2. callers'["poll"] = Authed(current, known) /\ callers'["sync"] = callers["sync"]
      BY <1>0, <2>3, BecomesLeaves
    <3>3. callers["poll"].at = "idle"
      BY <1>11, <2>3 DEF Poll, MayBegin, Busy, Becomes
    <3>4. missed' = (missed \/ Busy("sync"))
      BY <1>11, <2>3 DEF Poll
    <3>5. UpTo(known)' <=> UpTo(known)
      BY <2>1 DEF UpTo
    <3>6. QED
      BY <1>0, <2>1, <3>1, <3>2, <3>3, <3>4, <3>5 DEF ListsInv, AtWork, Busy
  <2>4. CASE current # None /\ UNCHANGED callers
    <3>1. missed' = (missed \/ Busy("sync"))
      BY <1>11, <2>4 DEF Poll
    <3>2. CASE ~missed'
      <4>1. callers' = callers /\ ~missed /\ (UpTo(known)' <=> UpTo(known))
      BY <2>1, <2>4, <3>1, <3>2 DEF UpTo
    <4>2. \A seen : UpTo(seen) <=>
             (imported => \A d \in Devices : seen[d] # None => shown[d] = seen[d])
      BY DEF UpTo
    <4>3. QED
      BY <2>1, <4>1, <4>2 DEF ListsInv, AtWork, UpTo
    <3>3. CASE missed'
      BY <3>3 DEF ListsInv
    <3>4. QED
      BY <3>2, <3>3
  <2>5. QED
    BY <1>11, <2>2, <2>3, <2>4 DEF Poll
<1>12. CASE PollListed
  <2> DEFINE k == callers["poll"]
             r == [at |-> "reporting", found |-> k.reply, left |-> Changed(k.more, k.reply)]
  <2>1. /\ AtWork("poll") /\ known' = k.reply /\ Becomes("poll", r)
        /\ UNCHANGED <<imported, shown, missed>>
    BY <1>12 DEF PollListed, Took, Answered, AtWork, Phases, account
  <2>2. callers'["poll"] = r /\ callers'["sync"] = callers["sync"]
    BY <1>0, <2>1, BecomesLeaves
  <2>3. ~missed => callers["sync"].at = "idle" /\ k.more = known /\ UpTo(known)
    BY <1>0, <2>1 DEF ListsInv, AtWork
  <2>4. ~missed /\ imported =>
           \A d \in Devices \ Changed(k.more, k.reply) : k.reply[d] # None => shown[d] = k.reply[d]
    BY <2>3 DEF UpTo, Changed
  <2>5. r.at = "reporting" /\ r.found = known' /\ r.found = k.reply /\ r.left = Changed(k.more, k.reply)
    BY <2>1
  <2> HIDE DEF r, k
  <2>6. QED
    BY <1>0, <2>1, <2>2, <2>3, <2>4, <2>5 DEF ListsInv, AtWork
<1>13. ASSUME NEW d \in Devices, PollReports(d)
       PROVE  ListsInv'
  <2> DEFINE k == callers["poll"]
             r == [k EXCEPT !.left = @ \ {d}]
  <2>1. /\ k.at = "reporting" /\ Becomes("poll", r) /\ UNCHANGED <<known, imported>>
        /\ \E has \in BOOLEAN : /\ Snapshot(has)
                                /\ shown' = Told(IF has THEN {d} ELSE {}, k.found)
                                /\ missed' = (missed \/ (imported /\ ~has))
    BY <1>13 DEF PollReports
  <2>2. callers'["poll"] = r /\ callers'["sync"] = callers["sync"]
    BY <1>0, <2>1, BecomesLeaves
  <2>3. k \in [at : {"reporting"}, found : Found, left : SUBSET Devices]
    BY <1>0, <2>1 DEF CallersInv, Work, Phases, Resting
  <2>4. r.at = "reporting" /\ r.found = k.found /\ r.left = k.left \ {d}
    BY <2>3
  <2>5. ASSUME ~missed'
        PROVE  /\ callers["sync"].at = "idle" /\ known = k.found
               /\ imported => \A x \in Devices \ (k.left \ {d}) :
                                k.found[x] # None => shown'[x] = k.found[x]
    <3>1. /\ ~missed
          /\ imported => shown' = Told({d}, k.found)
      BY <2>1, <2>5
    <3>2. /\ callers["sync"].at = "idle" /\ known = k.found
          /\ imported => \A x \in Devices \ k.left : k.found[x] # None => shown[x] = k.found[x]
      BY <2>1, <3>1 DEF ListsInv
    <3>3. QED
      BY <3>1, <3>2 DEF Told
  <2> HIDE DEF r, k
  <2>6. QED
    BY <1>0, <2>1, <2>2, <2>4, <2>5 DEF ListsInv, AtWork
<1>13a. CASE PollFinishes \/ PollBreaks
  <2> DEFINE k == callers["poll"]
  <2>1. /\ k.at = "reporting" /\ Becomes("poll", Done) /\ UNCHANGED <<known, imported, shown>>
        /\ \/ k.left = {} /\ UNCHANGED missed
           \/ missed' = (missed \/ imported)
    BY <1>13a DEF PollFinishes, PollBreaks, memory, account
  <2>2. callers'["poll"] = Done /\ callers'["sync"] = callers["sync"]
    BY <1>0, <2>1, BecomesLeaves
  <2>3. ASSUME ~missed'
        PROVE  callers["sync"].at = "idle" /\ UpTo(known)'
    <3>1. ~missed /\ (imported => k.left = {})
      <4> HIDE DEF k
      <4>1. CASE UNCHANGED missed /\ k.left = {}
        BY <2>3, <4>1
      <4>2. CASE missed' = (missed \/ imported)
        BY <2>3, <4>2
      <4>3. QED
        BY <2>1, <4>1, <4>2
    <3>2. /\ callers["sync"].at = "idle" /\ known = k.found
          /\ imported => \A x \in Devices \ k.left : k.found[x] # None => shown[x] = k.found[x]
      BY <2>1, <3>1 DEF ListsInv
    <3>3. QED
      BY <2>1, <3>1, <3>2 DEF UpTo
  <2>4. QED
    BY <1>0, <2>1, <2>2, <2>3 DEF ListsInv, AtWork, Done, Idle
<1>14. CASE Sync
  <2>1. /\ callers["sync"].at = "idle" /\ current # None
        /\ Becomes("sync", Authed(current, missed)) /\ missed' = Busy("poll")
        /\ UNCHANGED <<known, imported, shown>>
    BY <1>14 DEF Sync, MayBegin, Busy, account, memory
  <2>2. Authed(current, missed).at \in Phases /\ Authed(current, missed).more = missed
    <3>1. current \in Sessions
      BY <2>1 DEF CoreInv, ShapeInv
    <3>2. PICK at \in {"token", "refresh"}, arg \in Nat :
             Refreshes(current, sessions[current], 1, missed) = Call(at, current, arg, 1, missed)
      BY <3>1, RefreshesBy DEF CoreInv
    <3>3. QED
      BY <3>2 DEF Authed, Call, Phases
  <2>3. callers'["sync"] = Authed(current, missed) /\ callers'["poll"] = callers["poll"]
    BY <1>0, <2>1, BecomesLeaves
  <2>4. UpTo(known)' <=> UpTo(known)
    BY <2>1 DEF UpTo
  <2>5. missed' \/ callers["poll"].at = "idle"
    BY <2>1 DEF Busy
  <2>6. ~missed' => missed \/ UpTo(known)
    BY <1>0, <2>1, <2>5 DEF ListsInv, AtWork
  <2>7. QED
    BY <1>0, <2>1, <2>2, <2>3, <2>4, <2>5, <2>6 DEF ListsInv, AtWork
<1>15. CASE SyncListed
  <2> DEFINE k == callers["sync"]
             r == [at |-> "importing", found |-> k.reply]
  <2>1. /\ AtWork("sync") /\ known' = k.reply /\ Becomes("sync", r)
        /\ UNCHANGED <<imported, shown, missed>>
    BY <1>15 DEF SyncListed, Took, Answered, AtWork, Phases, account
  <2>2. callers'["sync"] = r /\ callers'["poll"] = callers["poll"]
    BY <1>0, <2>1, BecomesLeaves
  <2>3. ~missed => callers["poll"].at = "idle"
    BY <1>0, <2>1 DEF ListsInv, AtWork
  <2>4. r.at = "importing" /\ r.found = known'
    BY <2>1
  <2> HIDE DEF r
  <2>5. QED
    BY <1>0, <2>1, <2>2, <2>3, <2>4 DEF ListsInv, AtWork
<1>16. CASE SyncImports
  <2> DEFINE k == callers["sync"]
             r == [k EXCEPT !.at = "reporting"]
  <2>1. /\ k.at = "importing" /\ Becomes("sync", r) /\ imported' = TRUE
        /\ UNCHANGED <<known, shown, missed>>
    BY <1>16 DEF SyncImports, Imports
  <2>2. callers'["sync"] = r /\ callers'["poll"] = callers["poll"]
    BY <1>0, <2>1, BecomesLeaves
  <2>3. k \in [at : {"importing", "reporting"}, found : Found]
    BY <1>0, <2>1 DEF CallersInv, Work, Phases, Resting
  <2>4. r.at = "reporting" /\ r.found = k.found
    BY <2>3
  <2>5. ~missed => callers["poll"].at = "idle" /\ known = k.found
    BY <2>1 DEF ListsInv
  <2> HIDE DEF r, k
  <2>6. QED
    BY <1>0, <2>1, <2>2, <2>4, <2>5 DEF ListsInv, AtWork
<1>17. CASE SyncGivesUp \/ SyncBreaks
  BY <1>17 DEF SyncGivesUp, SyncBreaks, ListsInv
<1>18. CASE SyncReports
  <2> DEFINE k == callers["sync"]
  <2>1. /\ k.at = "reporting" /\ Becomes("sync", Done) /\ UNCHANGED <<known, imported>>
        /\ \E has \in BOOLEAN : /\ Snapshot(has)
                                /\ shown' = Told(IF has THEN Devices ELSE {}, k.found)
                                /\ missed' = (missed \/ ~has)
    BY <1>18 DEF SyncReports
  <2>2. callers'["sync"] = Done /\ callers'["poll"] = callers["poll"]
    BY <1>0, <2>1, BecomesLeaves
  <2>3. ASSUME ~missed'
        PROVE  callers["poll"].at = "idle" /\ UpTo(known)'
    <3>1. ~missed /\ shown' = Told(Devices, k.found)
      BY <2>1, <2>3
    <3>2. callers["poll"].at = "idle" /\ known = k.found
      BY <2>1, <3>1 DEF ListsInv
    <3>3. QED
      BY <2>1, <3>1, <3>2 DEF UpTo, Told
  <2>4. QED
    BY <1>0, <2>1, <2>2, <2>3 DEF ListsInv, AtWork, Done, Idle
<1>19. CASE Restart
  <2>1. callers' = AllIdle /\ known' = Unseen
    BY <1>19 DEF Restart
  <2>2. callers'["poll"] = Done /\ callers'["sync"] = Done
    BY <2>1 DEF AllIdle, Callers
  <2>3. UpTo(known)'
    BY <2>1 DEF UpTo, Unseen
  <2>4. QED
    BY <1>0, <2>2, <2>3 DEF ListsInv, AtWork, Done, Idle
<1>20. CASE UNCHANGED vars
  BY <1>6, <1>20 DEF vars, account, memory
<1>21. QED
  BY <1>1, <1>3, <1>5, <1>7, <1>8, <1>9, <1>10, <1>11, <1>12, <1>13, <1>13a, <1>14, <1>15, <1>16,
     <1>17, <1>18, <1>19, <1>20 DEF Next, Hub
-----------------------------------------------------------------------------
(* What an instruction does. *)

\* With one device named an answer is yes or no: "some_offline", which the Hub takes for
\* refused, needs two.
OneTarget == \A d, e \in Targets : d = e

\* Nothing has been carried out while the answer is out, or when it is not "ok".
CommandInv ==
    LET k == callers["command"] IN
    /\ acted \in {0, 1}
    /\ AtWork("command") => acted = 0 \/ (k.at = "request" /\ k.reply \in {"ok", "some_offline"})
    /\ OneTarget /\ k.at = "request" => k.reply # "some_offline"
    /\ OneTarget /\ k.at = "idle" => k.outcome = "done" \/ acted = 0

\* The command's caller stays where it is.
LEMMA CommandStays ==
    ASSUME CommandInv, UNCHANGED acted, callers'["command"] = callers["command"]
    PROVE  CommandInv'
BY DEF CommandInv, AtWork

\* A call that is sent has done nothing yet.
LEMMA CommandSent ==
    ASSUME ZhoubianAssumption, acted' = 0, callers'["command"].at \in Phases,
           callers'["command"].reply = None
    PROVE  CommandInv'
<1>1. None # "some_offline" /\ "idle" \notin Phases
  BY DEF ZhoubianAssumption, Phases
<1>2. QED
  BY <1>1 DEF CommandInv, AtWork

LEMMA CommandStep ==
    ASSUME ZhoubianAssumption, CoreInv, CommandInv, [Next]_vars
    PROVE  CommandInv'
<1>0. /\ CallersInv /\ "command" \in Callers
      /\ \A x : x \in Phases => x \notin {"idle", "importing", "reporting"}
      /\ None # "ok" /\ Refused # "ok" /\ None # "some_offline" /\ Refused # "some_offline"
  BY DEF CoreInv, Callers, Phases, ZhoubianAssumption
<1> DEFINE k == callers["command"]
           l == callers'["command"]
<1>1. ASSUME NEW c \in Callers, Activates(c) \/ Grants(c) \/ Unauthorized(c)
      PROVE  CommandInv'
  <2>1. /\ AtWork(c) /\ UNCHANGED acted /\ callers[c].reply = None
        /\ \E r : Replies(c, r) /\ (callers[c].at = "request" => r = Refused)
    BY <1>1 DEF Activates, Grants, Issue, Refuse, Unauthorized, Waits, AtWork, Phases,
       platform
  <2>2. CASE c = "command"
    <3>1. acted = 0
      BY <1>0, <2>1, <2>2 DEF CommandInv
    <3>2. l.at = k.at /\ (k.at = "request" => l.reply = Refused)
      BY <1>0, <2>1, <2>2, RepliesLeave
    <3>3. QED
      BY <1>0, <2>1, <2>2, <3>1, <3>2 DEF CommandInv, AtWork
  <2>3. CASE c # "command"
    BY <1>0, <2>1, <2>3, RepliesLeave, CommandStays
  <2>4. QED
    BY <2>2, <2>3
<1>2. ASSUME NEW c \in Callers, Serves(c)
      PROVE  CommandInv'
  <2>1. /\ AtWork(c) /\ callers[c].at = "request" /\ callers[c].reply = None
    BY <1>2 DEF Serves, Waits, AtWork, Phases
  <2>2. CASE c = "command"
    <3>1. acted = 0
      BY <1>0, <2>1, <2>2 DEF CommandInv
    <3>2. OneTarget => Targets \cap connected = {} \/ Targets \cap connected = Targets
      BY DEF OneTarget
    <3> DEFINE online == Targets \cap connected
               r == IF online = {} THEN "offline"
                    ELSE IF online = Targets THEN "ok" ELSE "some_offline"
    <3>3. /\ Replies("command", r) /\ acted' \in {0, 1} /\ (r = "offline" => acted' = 0)
          /\ r \in {"ok", "offline", "some_offline"} /\ (OneTarget => r # "some_offline")
      BY <1>2, <2>2, <3>1, <3>2 DEF Serves, Control
    <3> HIDE DEF r
    <3>4. l.at = "request" /\ l.reply = r
      BY <1>0, <2>1, <2>2, <3>3, RepliesLeave
    <3>5. QED
      BY <3>3, <3>4 DEF CommandInv
  <2>3. CASE c # "command"
    <3>1. UNCHANGED acted /\ \E r : Replies(c, r)
      BY <1>2, <2>3 DEF Serves, platform
    <3>2. QED
      BY <1>0, <2>1, <2>3, <3>1, RepliesLeave, CommandStays
  <2>4. QED
    BY <2>2, <2>3
<1>3. ASSUME callers' = Shaken, UNCHANGED acted
      PROVE  CommandInv'
  <2>1. /\ ~AtWork("command") => l = k
        /\ AtWork("command") => l.at = k.at /\ l.reply = k.reply
    BY <1>0, <1>3, ShakenCallers
  <2>2. QED
    BY <1>0, <1>3, <2>1 DEF CommandInv, AtWork
<1>4. CASE Platform
  <2>1. CASE \E g \in 1..MaxGrants : Expire(g)
    BY <1>3, <2>1 DEF Expire
  <2>2. CASE Reset
    BY <1>3, <2>2 DEF Reset
  <2>3. CASE \E d \in Devices : SetConnected(d)
    BY <2>3, CommandStays DEF SetConnected
  <2>4. QED
    BY <1>1, <1>2, <1>4, <2>1, <2>2, <2>3 DEF Platform
<1>5. ASSUME NEW c \in Callers, c # "command", UNCHANGED acted, \E r : Becomes(c, r)
      PROVE  CommandInv'
  BY <1>0, <1>5, BecomesLeaves, CommandStays
<1>6. ASSUME NEW c \in Callers, TakesGrant(c) \/ FallsBack(c) \/ Retries(c)
      PROVE  CommandInv'
  <2>1. UNCHANGED acted /\ \E r : Becomes(c, r)
    BY <1>6 DEF TakesGrant, FallsBack, Retries, platform
  <2>2. CASE c = "command"
    <3>1. AtWork("command")
      BY <1>6, <2>2, TokensSend
    <3>2. acted = 0
      <4>1. k.at # "request" \/ k.reply = Refused
        BY <1>6, <2>2 DEF TakesGrant, FallsBack, Retries, Took, WasRefused, Answered
      <4>2. QED
        BY <1>0, <3>1, <4>1 DEF CommandInv
    <3>3. l.at \in Phases /\ l.reply = None
      BY <1>0, <1>6, <2>2, TokensSend, BecomesLeaves
    <3>4. QED
      BY <2>1, <3>2, <3>3, CommandSent
  <2>3. CASE c # "command"
    BY <1>5, <2>1, <2>3
  <2>4. QED
    BY <2>2, <2>3
<1>7. ASSUME NEW c \in Callers, NEW o, Ends(c, Idle(o)),
             c = "command" => o = "done" \/ acted = 0
      PROVE  CommandInv'
  <2>1. Becomes(c, Idle(o)) /\ UNCHANGED acted
    BY <1>7 DEF Ends, BindEnds, PollEnds, platform
  <2>2. CASE c = "command"
    <3>1. l.at = "idle" /\ l.outcome = o
      BY <1>0, <2>1, <2>2, BecomesLeaves DEF Idle
    <3>2. QED
      BY <1>0, <1>7, <2>1, <2>2, <3>1 DEF CommandInv, AtWork
  <2>3. CASE c # "command"
    BY <1>5, <2>1, <2>3
  <2>4. QED
    BY <2>2, <2>3
<1>8. ASSUME NEW c \in Callers, IsDenied(c) \/ Lost(c)
      PROVE  CommandInv'
  <2>1. CASE Lost(c)
    BY <1>7, <2>1 DEF Lost, Done
  <2>2. CASE IsDenied(c)
    <3>1. /\ AtWork(c) /\ callers[c].reply = Refused
          /\ \E o : Ends(c, Idle(o))
      BY <2>2 DEF IsDenied, WasRefused, Answered, AtWork, Phases, Denied, Done
    <3>2. c = "command" => acted = 0
      BY <1>0, <3>1 DEF CommandInv
    <3>3. QED
      BY <1>7, <3>1, <3>2
  <2>3. QED
    BY <1>8, <2>1, <2>2
<1>9. ASSUME NEW s \in Sessions, ComesDue(s)
      PROVE  CommandInv'
  BY <1>9, CommandStays DEF ComesDue, platform
<1>10. CASE \/ \E s \in Sessions, home \in BOOLEAN : Bind(s, home) \/ Restore(s, home)
            \/ BindActivatesAgain \/ BindTakesSecret \/ BindFinishes
  <2>1. UNCHANGED acted /\ "bind" \in Callers /\ \E r : Becomes("bind", r)
    BY <1>10 DEF Bind, Restore, Binds, BindActivatesAgain, BindTakesSecret, BindFinishes,
           platform, Callers
  <2>2. QED
    BY <1>5, <2>1
<1>11. CASE \/ Poll \/ PollListed \/ PollBreaks \/ PollFinishes \/ Unbind
            \/ \E d \in Devices : PollReports(d)
  <2>1. /\ UNCHANGED acted /\ "poll" \in Callers
        /\ UNCHANGED callers \/ \E r : Becomes("poll", r)
    BY <1>11 DEF Poll, PollListed, PollReports, PollBreaks, PollFinishes, Unbind, Becomes, platform, Callers
  <2>2. QED
    BY <1>5, <2>1, CommandStays
<1>12. CASE Sync \/ SyncListed \/ SyncImports \/ SyncGivesUp \/ SyncReports \/ SyncBreaks
  <2>1. UNCHANGED acted /\ "sync" \in Callers /\ \E r : Becomes("sync", r)
    BY <1>12 DEF Sync, SyncListed, SyncImports, SyncGivesUp, SyncReports, SyncBreaks,
           platform, Callers
  <2>2. QED
    BY <1>5, <2>1
<1>13. CASE Execute
  <2>1. CASE Becomes("command", Idle("refused"))
    <3>1. acted' = 0 /\ l.at = "idle"
      BY <1>0, <1>13, <2>1, BecomesLeaves DEF Idle, Execute
    <3>2. QED
      BY <1>0, <3>1 DEF CommandInv, AtWork
  <2>2. CASE current # None /\ Becomes("command", Authed(current, None))
    <3>1. current \in Sessions
      BY <2>2 DEF CoreInv, ShapeInv
    <3>2. PICK at \in {"token", "refresh"}, arg \in Nat :
             Refreshes(current, sessions[current], 1, None) = Call(at, current, arg, 1, None)
      BY <3>1, RefreshesBy
    <3>3. Authed(current, None).at \in Phases /\ Authed(current, None).reply = None
      BY <3>2 DEF Authed, Call, Phases
    <3>4. acted' = 0 /\ l = Authed(current, None)
      BY <1>0, <1>13, <2>2, BecomesLeaves DEF Execute
    <3>5. QED
      BY <3>3, <3>4, CommandSent
  <2>3. QED
    BY <1>13, <2>1, <2>2 DEF Execute
<1>14. CASE CommandAnswered
  <2>1. /\ k.at = "request" /\ UNCHANGED acted
        /\ Becomes("command", IF k.reply = "ok" THEN Done ELSE Idle("refused"))
    BY <1>14 DEF CommandAnswered, Took, Answered, platform
  <2>2. l.at = "idle" /\ (k.reply = "ok" => l.outcome = "done")
    BY <1>0, <2>1, BecomesLeaves DEF Done, Idle
  <2>3. OneTarget /\ k.reply # "ok" => acted = 0
    BY <1>0, <2>1 DEF CommandInv, AtWork, Phases
  <2>4. QED
    BY <1>0, <2>1, <2>2, <2>3 DEF CommandInv, AtWork
<1>15. CASE Restart
  <2>1. UNCHANGED acted /\ l = Done
    BY <1>0, <1>15 DEF Restart, AllIdle, platform
  <2>2. QED
    BY <1>0, <2>1 DEF CommandInv, AtWork, Done, Idle
<1>16. CASE UNCHANGED vars
  BY <1>16, CommandStays DEF vars, platform
<1>17. QED
  BY <1>4, <1>6, <1>8, <1>9, <1>10, <1>11, <1>12, <1>13, <1>14, <1>15, <1>16 DEF Next, Hub

-----------------------------------------------------------------------------
LEMMA ListsInit == ASSUME Init PROVE ListsInv
<1>1. callers["poll"] = Done /\ callers["sync"] = Done /\ known = Unseen
  BY DEF Init, AllIdle, Callers
<1>2. QED
  BY <1>1 DEF ListsInv, UpTo, Unseen, Done, Idle, AtWork, Phases

LEMMA CommandInit == ASSUME Init PROVE CommandInv
<1>1. callers["command"] = Done /\ acted = 0
  BY DEF Init, AllIdle, Callers
<1>2. QED
  BY <1>1 DEF CommandInv, Done, Idle, AtWork, Phases

\* The inductive invariant of the tokens: who holds which session, what its secret and
\* its tokens are worth to the platform, and what each call can still be answered
\* (_authed, _refresh and bind of the Zhoubian provider).
THEOREM ZhoubianInvariant ==
    ASSUME ZhoubianAssumption PROVE Spec => []CoreInv
<1>1. Init => CoreInv /\ MissedInv
  BY CoreInit DEF Init, MissedInv
<1>2. CoreInv /\ MissedInv /\ [Next]_vars => CoreInv' /\ MissedInv'
  BY CoreStep, MissedStep
<1>3. QED
  BY <1>1, <1>2, PTL DEF Spec

\* However poll, sync, command and bind race for the tokens they share, none ends
\* unauthorized with a secret the platform knows (_refresh's and bind's fallbacks,
\* _authed's retry), for any number of devices, sessions and grants.
THEOREM RacesHeal ==
    ASSUME ZhoubianAssumption PROVE Spec => []TokenRacesHeal
<1>1. CoreInv => TokenRacesHeal
  <2> SUFFICES ASSUME CoreInv, NEW c \in Callers, callers[c].at = "idle"
               PROVE  callers[c].outcome # "unauthorized"
    BY DEF TokenRacesHeal, Busy
  <2>1. callers[c] \in Resting(c)
    BY DEF CoreInv, CallersInv, Work, Phases
  <2>2. callers[c] \in [at : {"idle"}, outcome : {"done", "refused"}]
    BY <2>1 DEF Resting
  <2>3. QED
    BY <2>2
<1>2. QED
  BY <1>1, ZhoubianInvariant, PTL

\* Between polls the runtime shows what the last list said, unless a report was missed
\* since the last sync that was alone: one that failed halfway or overlapped a poll, a
\* snapshot older than the import, or one that failed (observe compares with the list
\* before it, and a sync reports all it has found).
THEOREM ShownIsCurrent ==
    ASSUME ZhoubianAssumption PROVE Spec => []ShownKeepsUp
<1>1. Init => ListsInv
  BY ListsInit
<1>2. CoreInv /\ ListsInv /\ [Next]_vars => ListsInv'
  BY ListsStep
<1>3. ListsInv => ShownKeepsUp
  BY DEF ListsInv, UpTo, ShownKeepsUp, Busy, AtWork, Phases
<1>4. QED
  BY <1>1, <1>2, <1>3, ZhoubianInvariant, PTL DEF Spec

\* One instruction is carried out at most once, however many devices it names: a request
\* goes out again only when the platform refused its token, before doing anything
\* (_authed, execute).
THEOREM NeverTwice ==
    ASSUME ZhoubianAssumption PROVE Spec => [](acted =< 1)
<1>1. Init => CommandInv
  BY CommandInit
<1>2. CoreInv /\ CommandInv /\ [Next]_vars => CommandInv'
  BY CommandStep
<1>3. CommandInv => acted =< 1
  BY DEF CommandInv
<1>4. QED
  BY <1>1, <1>2, <1>3, ZhoubianInvariant, PTL DEF Spec

\* With one device named, an instruction the Hub takes for refused was not carried out.
\* With two it can have been, for the one that is online (MCZhoubianPartly.cfg).
THEOREM OneInstruction ==
    ASSUME ZhoubianAssumption, OneTarget
    PROVE  Spec => []ActsOnceOrIsRefused
<1>1. Init => CommandInv
  BY CommandInit
<1>2. CoreInv /\ CommandInv /\ [Next]_vars => CommandInv'
  BY CommandStep
<1>3. CommandInv => ActsOnceOrIsRefused
  BY DEF CommandInv, ActsOnceOrIsRefused, Busy
<1>4. QED
  BY <1>1, <1>2, <1>3, ZhoubianInvariant, PTL DEF Spec

-----------------------------------------------------------------------------
(* The numbered observations.                                              *)
(*                                                                         *)
(* That no poll sleeps through a change rests on the wake-up alone: a      *)
(* table that wakes nobody has no row the one before did not have.  That a *)
(* reader was told every row up to its number rests on the counting: a     *)
(* changed row gets a number beyond the highest in the table, and this is  *)
(* beyond every reader's number as long as the highest ever handed out is  *)
(* still in the table when the next is (~reissued).                        *)

\* The polls keep their numbers below what was handed out, and so does the table
NumbersAreIssued ==
    /\ \A d \in Present(rows) : rows[d].seq =< issued
    /\ \A r \in Readers : readers[r].cursor =< issued

CacheInv ==
    /\ CacheTypeOK /\ NumbersAreIssued
    /\ SleepersMissNothing /\ ToldUnlessReissued

-----------------------------------------------------------------------------
(* The highest number. *)

LEMMA LeastOne ==
    ASSUME NEW T \in SUBSET Nat, T # {}
    PROVE  \E i \in T : \A j \in T : i =< j
<1> DEFINE R == {ss \in Nat \X Nat : ss[1] < ss[2]}
<1>1. IsWellFoundedOn(R, Nat)
  BY NatLessThanWellFounded, Zenon DEF OpToRel
<1>2. \E x \in T : \A y \in T : ~ (<<y, x>> \in R)
  BY <1>1, WFMin, Zenon
<1>3. \A x, y \in T : y < x => <<y, x>> \in R
  OBVIOUS
<1> HIDE DEF R
<1>4. PICK x \in T : \A y \in T : ~ (<<y, x>> \in R)
  BY <1>2
<1>5. ASSUME NEW y \in T
      PROVE  x =< y
  <2>1. x \in Nat /\ y \in Nat
    OBVIOUS
  <2>2. ~(y < x)
    BY <1>3, <1>4, Zenon
  <2>3. QED
    BY <2>1, <2>2
<1>6. QED
  BY <1>5

\* A bounded set of numbers has a highest one
LEMMA HighestOne ==
    ASSUME NEW S \in SUBSET Nat, S # {}, NEW b \in Nat, \A x \in S : x =< b
    PROVE  Max(S) \in S /\ \A x \in S : x =< Max(S)
<1> DEFINE B == {n \in Nat : \A x \in S : x =< n}
<1>1. PICK m \in B : \A n \in B : m =< n
  BY LeastOne
<1>2. m \in S
  <2> SUFFICES ASSUME m \notin S PROVE FALSE
    OBVIOUS
  <2>1. PICK y \in S : TRUE
    OBVIOUS
  <2>2. m - 1 \in Nat /\ \A x \in S : x =< m - 1
    <3>1. \A x \in S : x \in Nat /\ x =< m /\ x # m
      OBVIOUS
    <3>2. m \in Nat /\ m # 0
      BY <2>1, <3>1
    <3>3. QED
      BY <3>1, <3>2
  <2>3. QED
    BY <1>1, <2>2
<1>3. \A x \in S : m >= x
  OBVIOUS
<1>4. Max(S) \in S /\ \A x \in S : Max(S) >= x
  BY <1>2, <1>3, Zenon DEF Max
<1>5. QED
  BY <1>4

\* The highest number of a table whose numbers are bounded
LEMMA LatestIsHighest ==
    ASSUME NEW table \in Table, NEW b \in Nat,
           \A d \in Present(table) : table[d].seq =< b
    PROVE  /\ Latest(table) \in Nat /\ Latest(table) =< b
           /\ \A d \in Present(table) : table[d].seq =< Latest(table)
<1> DEFINE S == {table[d].seq : d \in Present(table)} \cup {0}
<1>1. S \in SUBSET Nat /\ S # {} /\ \A x \in S : x =< b
  BY DEF Present, Table, Row
<1>2. Max(S) \in S /\ \A x \in S : x =< Max(S)
  BY <1>1, HighestOne
<1>3. QED
  BY <1>1, <1>2 DEF Latest

-----------------------------------------------------------------------------
(* Observations. *)

\* The rows of a table that was put to: the ones before, or with a number of their own
\* An instance has a copy of the operators of the modules its module extends.
LEMMA SameSizes ==
    \A S : (IsFiniteSet(S) <=> IsFiniteSet(S)) /\ Cardinality(S) = Cardinality(S)
<1>1. \A S : IsFiniteSet(S) <=> IsFiniteSet(S)
  BY DEF IsFiniteSet, IsFiniteSet
<1>2. \A S : Cardinality(S) = Cardinality(S)
  BY DEF Cardinality, Cardinality
<1>3. QED
  BY <1>1, <1>2

LEMMA SeenRows ==
    ASSUME CacheAssumption, CacheTypeOK, NumbersAreIssued, NEW obs,
           DOMAIN obs \subseteq Refs, \A d \in DOMAIN obs : obs[d] \in Contents,
           NEW order \in Orders(ChangedBy(obs))
    PROVE  LET table == Seen(obs, order) IN
           /\ table \in Table
           /\ Latest(rows) \in Nat /\ Latest(rows) =< issued
           /\ Latest(table) \in Nat
           /\ \A d \in Present(table) : table[d].seq =< Latest(table)
           /\ \A d \in Refs :
                \/ table[d] = rows[d]
                \/ table[d] # Nothing /\ table[d].seq > Latest(rows)
<1> DEFINE table == Seen(obs, order)
           n == Cardinality(ChangedBy(obs))
<1>1. ChangedBy(obs) \subseteq Refs /\ \A d \in ChangedBy(obs) : obs[d] \in Contents
  BY DEF ChangedBy
<1>2. IsFiniteSet(ChangedBy(obs))
  BY <1>1, FS_Subset, SameSizes DEF CacheAssumption
<1>3. n \in Nat
  BY <1>2, FS_CardinalityType
<1>4. order \in [ChangedBy(obs) -> 1..n]
  BY SameSizes DEF Orders, Injection
<1>5. issued \in Nat /\ rows \in Table
  BY DEF CacheTypeOK, CacheAssumption
<1>6. Latest(rows) \in Nat /\ Latest(rows) =< issued
      /\ \A d \in Present(rows) : rows[d].seq =< Latest(rows)
  BY <1>5, LatestIsHighest DEF NumbersAreIssued
<1> HIDE DEF n
<1>7. ASSUME NEW d \in Refs
      PROVE  \/ d \notin ChangedBy(obs) /\ table[d] = rows[d]
             \/ /\ d \in ChangedBy(obs)
                /\ table[d] = [content |-> obs[d], seq |-> Latest(rows) + order[d]]
                /\ order[d] \in 1..n
  BY <1>4 DEF Seen, Numbered
<1>8. ASSUME NEW d \in Refs
      PROVE  /\ table[d] \in Row \cup {Nothing}
             /\ d \in Present(table) => table[d].seq =< Latest(rows) + n
             /\ table[d] = rows[d] \/ (table[d] # Nothing /\ table[d].seq > Latest(rows))
  <2>1. CASE d \notin ChangedBy(obs) /\ table[d] = rows[d]
    BY <1>3, <1>5, <1>6, <2>1 DEF Present, Table, Row
  <2>2. CASE /\ d \in ChangedBy(obs)
             /\ table[d] = [content |-> obs[d], seq |-> Latest(rows) + order[d]]
             /\ order[d] \in 1..n
    <3>1. table[d] \in Row
      BY <1>1, <1>3, <1>6, <2>2 DEF Row
    <3>2. table[d] # Nothing
      BY <3>1 DEF CacheAssumption
    <3>3. QED
      BY <1>3, <1>6, <2>2, <3>1, <3>2
  <2>3. QED
    BY <1>7, <2>1, <2>2
<1>9. table \in Table
  BY <1>8 DEF Table, Seen
<1>10. /\ Latest(rows) + n \in Nat
       /\ \A d \in Present(table) : table[d].seq =< Latest(rows) + n
  BY <1>3, <1>6, <1>8 DEF Present
<1>11. /\ Latest(table) \in Nat
       /\ \A d \in Present(table) : table[d].seq =< Latest(table)
  BY <1>9, <1>10, LatestIsHighest
<1>12. QED
  BY <1>6, <1>8, <1>9, <1>11

\* The table changes: sleepers are woken or see nothing new, and numbers grow
LEMMA BecomeKeepsInv ==
    ASSUME CacheAssumption, CacheInv, NEW obs,
           DOMAIN obs \subseteq Refs, \A d \in DOMAIN obs : obs[d] \in Contents,
           NEW gone, Observe(obs, gone)
    PROVE  /\ rows' \in Table /\ readers' \in [Readers -> Reader]
           /\ issued' \in 0..MaxSeq /\ reissued' \in BOOLEAN
           /\ NumbersAreIssued' /\ SleepersMissNothing' /\ ToldUnlessReissued'
<1>1. PICK order \in Orders(ChangedBy(obs)) :
         Become(Seen(obs, order), gone)
  BY DEF Observe
<1> DEFINE table == Seen(obs, order)
<1>2. /\ table \in Table
      /\ Latest(rows) \in Nat /\ Latest(rows) =< issued
      /\ Latest(table) \in Nat
      /\ \A d \in Present(table) : table[d].seq =< Latest(table)
      /\ \A d \in Refs :
            \/ table[d] = rows[d]
            \/ table[d] # Nothing /\ table[d].seq > Latest(rows)
  BY SeenRows DEF CacheInv
<1>3. /\ Latest(table) =< MaxSeq
      /\ rows' = [d \in Refs |-> IF d \in gone THEN Nothing ELSE table[d]]
      /\ issued' = Max({issued, Latest(table)})
      /\ reissued' =
            (reissued \/ (Latest(table) > Latest(rows) /\ Latest(rows) < issued))
      /\ readers' = [r \in Readers |->
            IF readers[r].poll = "asleep" /\ WokenBy(table)
            THEN [readers[r] EXCEPT !.poll = "woken"] ELSE readers[r]]
  BY <1>1, Zenon DEF Become
<1> HIDE DEF table
<1>4. issued \in 0..MaxSeq /\ MaxSeq \in Nat /\ rows \in Table /\ reissued \in BOOLEAN
      /\ readers \in [Readers -> Reader]
  BY DEF CacheInv, CacheTypeOK, CacheAssumption
<1>5. issued' \in 0..MaxSeq /\ issued =< issued' /\ Latest(table) =< issued'
  <2> DEFINE S == {issued, Latest(table)}
  <2>1. S \in SUBSET Nat /\ S # {} /\ \A x \in S : x =< MaxSeq
    BY <1>2, <1>3, <1>4
  <2>2. Max(S) \in S /\ \A x \in S : x =< Max(S)
    BY <2>1, <1>4, HighestOne
  <2>3. QED
    BY <1>3, <1>4, <2>1, <2>2
<1>6. rows' \in Table
  BY <1>2, <1>3 DEF Table
<1>7. ASSUME NEW r \in Readers
      PROVE  /\ readers'[r] \in Reader
             /\ readers'[r].cursor = readers[r].cursor /\ readers'[r].told = readers[r].told
             /\ readers'[r].poll = "asleep" => readers[r].poll = "asleep" /\ ~WokenBy(table)
  BY <1>3, <1>4 DEF Reader
<1>8. readers' \in [Readers -> Reader]
  BY <1>3, <1>7
<1>9. ASSUME NEW d \in Present(rows)'
      PROVE  d \in Refs /\ d \in Present(table) /\ rows'[d] = table[d]
  BY <1>3 DEF Present
<1>10. NumbersAreIssued'
  <2>1. ASSUME NEW d \in Present(rows)' PROVE rows'[d].seq =< issued'
    <3>1. rows'[d].seq =< Latest(table) /\ rows'[d].seq \in Nat
      BY <1>2, <1>9 DEF Table, Row, Present
    <3>2. QED
      BY <1>2, <1>4, <1>5, <3>1
  <2>2. ASSUME NEW r \in Readers PROVE readers'[r].cursor =< issued'
    BY <1>4, <1>5, <1>7 DEF CacheInv, NumbersAreIssued, Reader
  <2>3. QED
    BY <2>1, <2>2 DEF NumbersAreIssued
<1>11. SleepersMissNothing'
  <2> SUFFICES ASSUME NEW r \in Readers, readers'[r].poll = "asleep",
                      NEW d \in Present(rows)', rows'[d].seq > readers'[r].cursor
               PROVE  FALSE
    BY DEF SleepersMissNothing, After
  <2>1. rows'[d] = rows[d]
    BY <1>7, <1>9 DEF WokenBy, Present
  <2>2. d \in After(readers[r].cursor)
    BY <1>7, <1>9, <2>1 DEF After, Present
  <2>3. QED
    BY <1>7, <2>2 DEF CacheInv, SleepersMissNothing
<1>12. ToldUnlessReissued'
  <2> SUFFICES ASSUME ~reissued', NEW r \in Readers, NEW d \in Present(rows)'
               PROVE  WasTold(r, d)'
    BY DEF ToldUnlessReissued
  <2>1. ~reissued /\ ~(Latest(table) > Latest(rows) /\ Latest(rows) < issued)
    BY <1>3, <1>4
  <2>2. CASE table[d] = rows[d]
    <3>1. d \in Present(rows) /\ rows'[d] = rows[d]
      BY <1>9, <2>2 DEF Present
    <3>2. QED
      BY <1>7, <2>1, <3>1 DEF CacheInv, ToldUnlessReissued, WasTold
  <2>3. CASE table[d] # Nothing /\ table[d].seq > Latest(rows)
    <3>1. table[d].seq \in Nat /\ table[d].seq =< Latest(table)
      BY <1>2, <1>9, <2>3 DEF Table, Row
    <3>2. Latest(rows) >= issued
      BY <1>2, <1>4, <2>1, <2>3, <3>1
    <3>3. readers[r].cursor \in Nat /\ readers[r].cursor =< issued
      BY <1>4 DEF CacheInv, NumbersAreIssued, Reader
    <3>4. ~(rows'[d].seq =< readers'[r].cursor)
      BY <1>2, <1>4, <1>7, <1>9, <2>3, <3>1, <3>2, <3>3
    <3>5. QED
      BY <3>4 DEF WasTold
  <2>4. QED
    BY <1>2, <1>9, <2>2, <2>3
<1>13. QED
  BY <1>3, <1>4, <1>5, <1>6, <1>8, <1>10, <1>11, <1>12

-----------------------------------------------------------------------------
(* Polls. *)

\* An answer tells everything up to the number it gives, and nothing is asleep over it
LEMMA AnswerKeepsInv ==
    ASSUME CacheAssumption, CacheInv, NEW r \in Readers,
           readers' = [readers EXCEPT ![r] = Reply(r)],
           UNCHANGED <<rows, registry, issued, reissued>>
    PROVE  CacheInv'
<1>1. /\ readers \in [Readers -> Reader] /\ rows \in Table
      /\ issued \in 0..MaxSeq /\ MaxSeq \in Nat
  BY DEF CacheInv, CacheTypeOK, CacheAssumption
<1>2. /\ Latest(rows) \in Nat /\ Latest(rows) =< issued
      /\ \A d \in Present(rows) : rows[d].seq =< Latest(rows)
  BY <1>1, LatestIsHighest DEF CacheInv, NumbersAreIssued
<1>3. /\ readers'[r] = Reply(r)
      /\ \A q \in Readers \ {r} : readers'[q] = readers[q]
  BY <1>1
<1>4. ASSUME NEW d \in Refs
      PROVE  Reply(r).told[d] =
               IF d \in After(readers[r].cursor) THEN rows[d].content ELSE readers[r].told[d]
  BY DEF Reply
<1>5. Reply(r) \in Reader
  <2>1. \A d \in Refs : Reply(r).told[d] \in Contents \cup {Nothing}
    BY <1>1, <1>4 DEF After, Present, Table, Row, Reader
  <2>2. Reply(r).told \in [Refs -> Contents \cup {Nothing}]
    BY <2>1 DEF Reply
  <2>3. Latest(rows) \in 0..MaxSeq
    BY <1>1, <1>2
  <2>4. QED
    BY <2>2, <2>3 DEF Reply, Reader
<1>6. Reply(r).cursor = Latest(rows) /\ Reply(r).poll = "none"
  BY DEF Reply
<1>7. CacheTypeOK'
  BY <1>3, <1>5 DEF CacheInv, CacheTypeOK, registry
<1>8. NumbersAreIssued'
  BY <1>1, <1>2, <1>3, <1>6 DEF CacheInv, NumbersAreIssued, Present
<1>9. SleepersMissNothing'
  BY <1>3, <1>6 DEF CacheInv, SleepersMissNothing, After, Present
<1>10. ToldUnlessReissued'
  <2> SUFFICES ASSUME ~reissued, NEW q \in Readers, NEW d \in Present(rows)
               PROVE  WasTold(q, d)'
    BY DEF ToldUnlessReissued, Present
  <2>1. WasTold(q, d) /\ WasTold(r, d)
    BY DEF CacheInv, ToldUnlessReissued
  <2>2. CASE q # r
    BY <1>3, <2>1, <2>2 DEF WasTold
  <2>3. CASE q = r
    <3>1. d \in Refs /\ rows[d].seq \in Nat /\ readers[r].cursor \in Nat
      BY <1>1 DEF Present, Table, Row, Reader
    <3>2. Reply(r).told[d] = rows[d].content
      BY <1>4, <2>1, <3>1 DEF WasTold, After
    <3>3. QED
      BY <1>3, <2>3, <3>2 DEF WasTold
  <2>4. QED
    BY <2>2, <2>3
<1>11. QED
  BY <1>7, <1>8, <1>9, <1>10 DEF CacheInv

\* A poll falls asleep only over nothing
LEMMA SleepKeepsInv ==
    ASSUME CacheAssumption, CacheInv, NEW r \in Readers,
           readers' = [readers EXCEPT ![r].poll = "asleep"],
           After(readers[r].cursor) = {},
           UNCHANGED <<rows, registry, issued, reissued>>
    PROVE  CacheInv'
<1>1. readers \in [Readers -> Reader]
  BY DEF CacheInv, CacheTypeOK
<1>2. ASSUME NEW q \in Readers
      PROVE  /\ readers'[q] \in Reader
             /\ readers'[q].cursor = readers[q].cursor /\ readers'[q].told = readers[q].told
             /\ q # r => readers'[q] = readers[q]
  BY <1>1 DEF Reader
<1>3. readers' \in [Readers -> Reader]
  BY <1>1, <1>2
<1>4. CacheTypeOK'
  BY <1>3 DEF CacheInv, CacheTypeOK, registry
<1>5. NumbersAreIssued'
  BY <1>2 DEF CacheInv, NumbersAreIssued, Present
<1>6. SleepersMissNothing'
  BY <1>2 DEF CacheInv, SleepersMissNothing, After, Present
<1>7. ToldUnlessReissued'
  BY <1>2 DEF CacheInv, ToldUnlessReissued, WasTold, Present
<1>8. QED
  BY <1>4, <1>5, <1>6, <1>7 DEF CacheInv

\* A poll looks: it answers, or falls asleep over nothing
LEMMA LookKeepsInv ==
    ASSUME CacheAssumption, CacheInv, NEW r \in Readers, Ask(r) \/ Resume(r)
    PROVE  CacheInv'
<1>1. UNCHANGED <<rows, registry, issued, reissued>>
  BY DEF Ask, Resume
<1>2. readers \in [Readers -> Reader]
  BY DEF CacheInv, CacheTypeOK
<1>3. CASE After(readers[r].cursor) # {}
  <2>1. readers' = [readers EXCEPT ![r] = Reply(r)]
    BY <1>2, <1>3 DEF Ask, Resume
  <2>2. QED
    BY <1>1, <2>1, AnswerKeepsInv
<1>4. CASE After(readers[r].cursor) = {}
  <2>1. readers' = [readers EXCEPT ![r].poll = "asleep"]
    BY <1>2, <1>4 DEF Ask, Resume
  <2>2. QED
    BY <1>1, <1>4, <2>1, SleepKeepsInv
<1>5. QED
  BY <1>3, <1>4

\* The process starts again: its polls are gone, the table and the numbers are not
LEMMA RestartKeepsInv ==
    ASSUME CacheAssumption, CacheInv, CacheRestart
    PROVE  CacheInv'
<1>1. readers \in [Readers -> Reader]
  BY DEF CacheInv, CacheTypeOK
<1>2. ASSUME NEW q \in Readers
      PROVE  /\ readers'[q] \in Reader /\ readers'[q].poll = "none"
             /\ readers'[q].cursor = readers[q].cursor /\ readers'[q].told = readers[q].told
  BY <1>1 DEF Reader, CacheRestart
<1>3. readers' \in [Readers -> Reader]
  BY <1>2 DEF CacheRestart
<1>4. CacheTypeOK'
  <2>1. lastRead' = Nothing /\ fetched' = Nothing /\ running' = {}
        /\ UNCHANGED <<rows, source, issued, reissued>>
    BY DEF CacheRestart
  <2>2. lastRead' \in (SUBSET Refs) \cup {Nothing} /\ fetched' \in (SUBSET Refs) \cup {Nothing}
        /\ running' \subseteq Refs
    BY <2>1
  <2>3. rows' \in Table /\ source' \subseteq Refs
        /\ issued' \in 0..MaxSeq /\ reissued' \in BOOLEAN
    BY <2>1 DEF CacheInv, CacheTypeOK
  <2>4. QED
    BY <1>3, <2>2, <2>3 DEF CacheTypeOK
<1>5. NumbersAreIssued'
  BY <1>2 DEF CacheInv, NumbersAreIssued, Present, CacheRestart
<1>6. SleepersMissNothing'
  BY <1>2 DEF SleepersMissNothing
<1>7. ToldUnlessReissued'
  BY <1>2 DEF CacheInv, ToldUnlessReissued, WasTold, Present, CacheRestart
<1>8. QED
  BY <1>4, <1>5, <1>6, <1>7 DEF CacheInv

\* What touches neither table nor readers keeps what is said of them
LEMMA ElsewhereKeepsInv ==
    ASSUME CacheInv, UNCHANGED <<rows, readers, issued, reissued>>, CacheTypeOK'
    PROVE  CacheInv'
  BY DEF CacheInv, NumbersAreIssued, SleepersMissNothing, ToldUnlessReissued,
         WasTold, After, Present

-----------------------------------------------------------------------------
(* Every step. *)

\* A step of the observations or the registry that changes the table
LEMMA PutKeepsInv ==
    ASSUME CacheAssumption, CacheInv, NEW obs,
           DOMAIN obs \subseteq Refs, \A d \in DOMAIN obs : obs[d] \in Contents,
           NEW gone, Observe(obs, gone),
           source' \subseteq Refs, lastRead' \in (SUBSET Refs) \cup {Nothing},
           fetched' \in (SUBSET Refs) \cup {Nothing}, running' \subseteq Refs
    PROVE  CacheInv'
  BY BecomeKeepsInv DEF CacheInv, CacheTypeOK

LEMMA InitHolds == ASSUME CacheAssumption, CacheInit PROVE CacheInv
<1>1. CacheTypeOK
  <2>1. readers \in [Readers -> Reader]
    BY DEF CacheAssumption, CacheInit, Reader
  <2>2. rows \in Table
    BY DEF CacheInit, Table
  <2>3. source \subseteq Refs /\ running \subseteq Refs
        /\ lastRead \in (SUBSET Refs) \cup {Nothing} /\ fetched \in (SUBSET Refs) \cup {Nothing}
    BY DEF CacheInit
  <2>4. issued \in 0..MaxSeq /\ reissued \in BOOLEAN
    <3>1. issued = 0 /\ reissued = FALSE /\ MaxSeq \in Nat
      BY DEF CacheAssumption, CacheInit
    <3>2. issued \in 0..MaxSeq
      BY <3>1
    <3>3. QED
      BY <3>1, <3>2, Zenon
  <2>5. QED
    BY <2>1, <2>2, <2>3, <2>4 DEF CacheTypeOK
<1>2. NumbersAreIssued /\ SleepersMissNothing /\ ToldUnlessReissued
  BY DEF CacheInit, NumbersAreIssued, SleepersMissNothing, ToldUnlessReissued,
         Present
<1>3. QED
  BY <1>1, <1>2 DEF CacheInv

LEMMA StepKeepsInv ==
    ASSUME CacheAssumption, CacheInv, [CacheNext]_cacheVars
    PROVE  CacheInv'
<1> USE DEF registry
<1>0. /\ source \subseteq Refs /\ lastRead \in (SUBSET Refs) \cup {Nothing}
      /\ fetched \in (SUBSET Refs) \cup {Nothing} /\ running \subseteq Refs
  BY DEF CacheInv, CacheTypeOK
<1>1. ASSUME NEW d \in Refs, NEW c \in Contents, Report(d, c)
      PROVE  CacheInv'
  <2>1. Observe([x \in {d} |-> c], {}) /\ UNCHANGED <<source, lastRead, fetched, running>>
    BY <1>1 DEF Report
  <2>2. QED
    BY <1>0, <2>1, PutKeepsInv
<1>2. ASSUME NEW d \in Refs, NEW c \in Contents, CommandEnds(d, c)
      PROVE  CacheInv'
  <2>1. /\ Observe([x \in {d} |-> c], {}) /\ UNCHANGED <<source, lastRead, fetched>>
        /\ running' = running \ {d}
    BY <1>2 DEF CommandEnds
  <2>2. QED
    BY <1>0, <2>1, PutKeepsInv
<1>3. ASSUME NEW d \in Refs, CommandStarts(d) \/ Give(d)
      PROVE  CacheInv'
  <2>1. CacheTypeOK'
    BY <1>3 DEF CommandStarts, Give, CacheInv, CacheTypeOK
  <2>2. UNCHANGED <<rows, readers, issued, reissued>>
    BY <1>3 DEF CommandStarts, Give
  <2>3. QED
    BY <2>1, <2>2, ElsewhereKeepsInv
<1>4. ASSUME NEW ds \in SUBSET Refs, Edit(ds)
      PROVE  CacheInv'
  <2>1. CacheTypeOK'
    BY <1>4 DEF Edit, CacheInv, CacheTypeOK
  <2>2. UNCHANGED <<rows, readers, issued, reissued>>
    BY <1>4 DEF Edit
  <2>3. QED
    BY <2>1, <2>2, ElsewhereKeepsInv
<1>5. CASE Fetch \/ FetchFails
  <2>1. CacheTypeOK'
    <3>1. fetched' \in (SUBSET Refs) \cup {Nothing}
      BY <1>0, <1>5 DEF Fetch, FetchFails
    <3>2. UNCHANGED <<rows, readers, source, lastRead, running, issued, reissued>>
      BY <1>5 DEF Fetch, FetchFails
    <3>3. QED
      BY <3>1, <3>2 DEF CacheInv, CacheTypeOK
  <2>2. UNCHANGED <<rows, readers, issued, reissued>>
    BY <1>5 DEF Fetch, FetchFails
  <2>3. QED
    BY <2>1, <2>2, ElsewhereKeepsInv
<1>6. ASSUME NEW seen \in [Polled -> Contents], Apply(seen)
      PROVE  CacheInv'
  <2> DEFINE obs == [d \in fetched \cap Polled |-> seen[d]]
  <2>1. /\ Observe(obs, Gone) /\ fetched # Nothing
        /\ lastRead' = fetched /\ fetched' = Nothing /\ UNCHANGED <<source, running>>
    BY <1>6 DEF Apply
  <2>2. DOMAIN obs \subseteq Refs /\ \A d \in DOMAIN obs : obs[d] \in Contents
    BY DEF CacheAssumption
  <2> HIDE DEF obs
  <2>3. /\ source' \subseteq Refs /\ lastRead' \in (SUBSET Refs) \cup {Nothing}
        /\ fetched' \in (SUBSET Refs) \cup {Nothing} /\ running' \subseteq Refs
    BY <1>0, <2>1
  <2>4. QED
    BY <2>1, <2>2, <2>3, PutKeepsInv
<1>7. ASSUME NEW r \in Readers, Ask(r) \/ Resume(r)
      PROVE  CacheInv'
  BY <1>7, LookKeepsInv
<1>8. ASSUME NEW r \in Readers, TimeOut(r)
      PROVE  CacheInv'
  BY <1>8, AnswerKeepsInv DEF TimeOut
<1>9. CASE CacheRestart
  BY <1>9, RestartKeepsInv
<1>10. CASE UNCHANGED cacheVars
  <2>1. CacheTypeOK'
    BY <1>10 DEF cacheVars, CacheInv, CacheTypeOK
  <2>2. UNCHANGED <<rows, readers, issued, reissued>>
    BY <1>10 DEF cacheVars
  <2>3. QED
    BY <2>1, <2>2, ElsewhereKeepsInv
<1>11. QED
  BY <1>1, <1>2, <1>3, <1>4, <1>5, <1>6, <1>7, <1>8, <1>9, <1>10 DEF CacheNext

-----------------------------------------------------------------------------
(* The theorems. *)

\* The inductive invariant of the numbered observations: types, every number in the
\* table or with a reader was handed out, and the two properties below, which are
\* inductive given it (put and changes_since, observation.py:71-143).
THEOREM CacheInvariant ==
    ASSUME CacheAssumption PROVE CacheSpec => []CacheInv
<1>1. CacheInit => CacheInv
  BY InitHolds
<1>2. CacheInv /\ [CacheNext]_cacheVars => CacheInv'
  BY StepKeepsInv
<1>3. QED
  BY <1>1, <1>2, PTL DEF CacheSpec

\* No poll sleeps while there is something after its number: a put that changes a row
\* wakes every poll, and one that does not leaves it nothing new (observation.py:128-143).
THEOREM NobodySleepsThroughAChange ==
    ASSUME CacheAssumption PROVE CacheSpec => []SleepersMissNothing
<1>1. CacheInv => SleepersMissNothing
  BY DEF CacheInv
<1>2. QED
  BY <1>1, CacheInvariant, PTL

\* Until a number is handed out twice a reader was told the content of every row up to
\* its number, by however many puts, polls, refreshes and restarts it came
\* (put numbers a change MAX(seq)+1, observation.py:87-98; /changes, http.py:88-108).
THEOREM ReadersAreToldAll ==
    ASSUME CacheAssumption PROVE CacheSpec => []ToldUnlessReissued
<1>1. CacheInv => ToldUnlessReissued
  BY DEF CacheInv
<1>2. QED
  BY <1>1, CacheInvariant, PTL

=============================================================================
