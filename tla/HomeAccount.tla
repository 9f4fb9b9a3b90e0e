----------------------------- MODULE HomeAccount -----------------------------
(***************************************************************************)
(* One Home Assistant account of an Owner: binding and unbinding it        *)
(* (hub/smarthome/integration_service.py), its connection                  *)
(* (providers/homeassistant), the observer task that reports its changes   *)
(* to the runtime, a command sent through it, and restarts of the Hub.     *)
(*                                                                         *)
(* Nothing here holds a lock: a step ends where the code suspends, which   *)
(* is while a connection is opened, while an old one is closed, while an   *)
(* observation is reported and while the observer sleeps or waits.  What   *)
(* can be observed of a device is left to ObservationCache.                *)
(***************************************************************************)
EXTENDS Naturals

CONSTANTS
    Calls,         \* calls of bind and unbind in flight
    Conns,         \* HaConnection objects
    Absent,        \* no connection, no row, no task, no command
    Faults,        \* what goes wrong: members of FaultKinds
    MaxQueued      \* capacity of the observer's queue of changes

FaultKinds ==
    {"unreachable",  \* a connection cannot be opened at all
     "cut",          \* it is lost while it is being opened
     "refused",      \* the instance refuses a request while it is being opened
     "silent",       \* the instance leaves one unanswered
     "loss",         \* an open connection is lost
     "report",       \* the registry cannot be read for an observation
     "crash"}        \* the Hub stops

VARIABLES
    process,     \* whether the Hub is starting or serving
    reach,       \* whether the instance can be reached
    conns,       \* the connections: socket, and whether changes are subscribed to
    connection,  \* _connections: the account's connection
    owned,       \* _owners: whether the account is the Owner's
    status,      \* the status in the table provider_accounts, Absent for no row
    credentials, \* whether the vault keeps the account's credentials
    torn,        \* history: the Hub stopped between vault and table
    calls,
    observer,    \* the task in _observers
    command      \* a command carried out through the account

durable == <<status, credentials, torn>>
homeVars == <<process, reach, conns, connection, owned, durable, calls, observer, command>>

-----------------------------------------------------------------------------
NoCall == [phase |-> "idle"]
Unopened == [socket |-> "none", live |-> FALSE]
Observing == {"starting", "opening", "backoff", "refilling", "waiting", "reporting"}

Connection == [socket : {"none", "open", "closed"}, live : BOOLEAN]

BindCall ==
    {NoCall} \cup [phase : {"opening", "replacing"}, conn : Conns] \cup [phase : {"closing"}]

Observer ==
    [phase : Observing \cup {"ended"}, conn : Conns \cup {Absent}, queued : 0..MaxQueued]

Command ==
    [phase : {"sent", "confirming", "confirmed", "refused", "unknown"},
     conn : Conns, acted : BOOLEAN]

Status == {"connected", "degraded"}

ASSUME AccountAssumption ==
    /\ Absent \notin Conns \cup Status /\ Absent \notin Observer /\ Absent \notin Command
    /\ Faults \subseteq FaultKinds /\ MaxQueued \in Nat \ {0}

HomeTypeOK ==
    /\ process \in {"starting", "serving"}
    /\ reach \in BOOLEAN
    /\ conns \in [Conns -> Connection]
    /\ connection \in Conns \cup {Absent}
    /\ owned \in BOOLEAN
    /\ status \in Status \cup {Absent}
    /\ credentials \in BOOLEAN /\ torn \in BOOLEAN
    /\ calls \in [Calls -> BindCall]
    /\ observer \in Observer \cup {Absent}
    /\ command \in Command \cup {Absent}

Connected(c) == conns[c].socket = "open"
Running == IF observer = Absent THEN FALSE ELSE observer.phase # "ended"
InPhase(p) == IF observer = Absent THEN FALSE ELSE observer.phase = p
Held(c) ==
    \/ c = connection
    \/ Running /\ observer.conn = c
    \/ \E k \in Calls : calls[k].phase \in {"opening", "replacing"} /\ calls[k].conn = c
    \/ command # Absent /\ command.conn = c

\* A connection nobody has is as good as a new one.
Fresh(c) == ~Held(c) /\ ~Connected(c)

HomeInit ==
    /\ process = "serving"
    /\ reach = TRUE
    /\ conns = [c \in Conns |-> Unopened]
    /\ connection = Absent
    /\ owned = FALSE
    /\ status = Absent
    /\ credentials = FALSE
    /\ torn = FALSE
    /\ calls = [k \in Calls |-> NoCall]
    /\ observer = Absent
    /\ command = Absent

-----------------------------------------------------------------------------
(* HaConnection.open and close. *)

Opened(c) == [conns EXCEPT ![c] = [socket |-> "open", live |-> TRUE]]

\* An open that fails leaves the connection as it was, lost, or with an open
\* socket and no subscription: open does not close it once it is authenticated.
OpenFailed(c, how) ==
    [conns EXCEPT ![c] =
        CASE how = "unreachable" -> @
          [] how = "cut" -> [socket |-> "closed", live |-> FALSE]
          [] OTHER -> [socket |-> "open", live |-> FALSE]]

OpenFaults == Faults \cap {"unreachable", "cut", "refused", "silent"}
CanOpen(how) == how \in OpenFaults /\ (how # "unreachable" => reach)

Closed(c) == [conns EXCEPT ![c] = [socket |-> "closed", live |-> FALSE]]

\* A request under way on a connection that is lost or closed raises
\* ConnectionFailed, which execute turns into a refusal.
Fails(c) ==
    command' = IF command = Absent THEN Absent
               ELSE IF command.conn = c /\ command.phase = "sent"
                    THEN [command EXCEPT !.phase = "refused"] ELSE command

-----------------------------------------------------------------------------
(* The observer: AccountService._observe and HomeAssistantProvider.observe. *)

NewObserver == [phase |-> "starting", conn |-> Absent, queued |-> 0]
At(p) == [observer EXCEPT !.phase = p]

\* The head of the loop: is the account still bound, and its connection open?
Looks(c) ==
    [phase |-> IF connection = Absent THEN "ended"
               ELSE IF Connected(c) THEN "waiting" ELSE "opening",
     conn |-> c, queued |-> 0]

ObserverStarts ==
    /\ InPhase("starting")
    /\ observer' = IF connection = Absent \/ ~owned THEN At("ended") ELSE Looks(connection)
    /\ UNCHANGED <<process, reach, conns, connection, owned, durable, calls, command>>

\* A status is set where there is an account.
SetStatus(s) == status' = IF status = Absent THEN Absent ELSE s

\* The connection is open again, and the states it holds are reported.
ObserverOpens ==
    /\ InPhase("opening")
    /\ reach
    /\ conns' = Opened(observer.conn)
    /\ SetStatus("connected")
    /\ observer' = At("refilling")
    /\ UNCHANGED <<process, reach, connection, owned, credentials, torn, calls, command>>

\* Mutant: a failure to open ends the observer.
ObserverGivesUp(how) ==
    /\ InPhase("opening")
    /\ CanOpen(how)
    /\ conns' = OpenFailed(observer.conn, how)
    /\ SetStatus("degraded")
    /\ observer' = At("ended")
    /\ UNCHANGED <<process, reach, connection, owned, credentials, torn, calls, command>>

\* ConnectionFailed is waited out; a request without answer raises TimeoutError,
\* which ends the observer.
ObserverFails(how) ==
    /\ InPhase("opening")
    /\ CanOpen(how)
    /\ conns' = OpenFailed(observer.conn, how)
    /\ IF how = "silent"
       THEN observer' = At("ended") /\ UNCHANGED status
       ELSE observer' = At("backoff") /\ SetStatus("degraded")
    /\ UNCHANGED <<process, reach, connection, owned, credentials, torn, calls, command>>

ObserverWakes ==
    /\ InPhase("backoff")
    /\ observer' = Looks(observer.conn)
    /\ UNCHANGED <<process, reach, conns, connection, owned, durable, calls, command>>

\* All states are reported; the changes that follow are queued from now on.
ObserverRefilled ==
    /\ InPhase("refilling")
    /\ observer' = [At("waiting") EXCEPT !.queued = 0]
    /\ UNCHANGED <<process, reach, conns, connection, owned, durable, calls, command>>

ObserverReceives ==
    /\ InPhase("waiting")
    /\ observer.queued > 0
    /\ observer' = [At("reporting") EXCEPT !.queued = @ - 1]
    /\ UNCHANGED <<process, reach, conns, connection, owned, durable, calls, command>>

\* A change is reported; only now is the connection looked at.
ObserverReported ==
    /\ InPhase("reporting")
    /\ observer' = IF Connected(observer.conn) THEN At("waiting") ELSE Looks(observer.conn)
    /\ UNCHANGED <<process, reach, conns, connection, owned, durable, calls, command>>

\* The report needs the registry: an error of Data ends the observer, and so does
\* a new entity while the states are gone through.
ObserverBreaks ==
    /\ "report" \in Faults
    /\ InPhase("refilling") \/ InPhase("reporting")
    /\ observer' = At("ended")
    /\ UNCHANGED <<process, reach, conns, connection, owned, durable, calls, command>>

-----------------------------------------------------------------------------
(* AccountService.bind and unbind. *)

Goes(k, call) == calls' = [calls EXCEPT ![k] = call]

BindBegins(k, c) ==
    /\ process = "serving" /\ calls[k] = NoCall
    /\ Fresh(c)
    /\ Goes(k, [phase |-> "opening", conn |-> c])
    /\ conns' = [conns EXCEPT ![c] = Unopened]
    /\ UNCHANGED <<process, reach, connection, owned, durable, observer, command>>

\* Keep the credentials, then the account; observe it unless it is observed.
Bound(k, c) ==
    /\ connection' = c
    /\ owned' = TRUE
    /\ credentials' = TRUE
    /\ status' = "connected"
    /\ observer' = IF Running THEN observer ELSE NewObserver
    /\ Goes(k, NoCall)

\* The new connection is open.  A former one is closed first.
BindOpens(k) ==
    /\ calls[k].phase = "opening"
    /\ reach
    /\ LET c == calls[k].conn IN
       IF connection = Absent
       THEN conns' = Opened(c) /\ Bound(k, c)
       ELSE /\ conns' = [Opened(c) EXCEPT ![connection] = [socket |-> "closed", live |-> FALSE]]
            /\ connection' = Absent
            /\ Goes(k, [phase |-> "replacing", conn |-> c])
            /\ UNCHANGED <<owned, status, credentials, observer>>
    /\ Fails(connection)
    /\ UNCHANGED <<process, reach, torn>>

BindFails(k, how) ==
    /\ calls[k].phase = "opening"
    /\ CanOpen(how)
    /\ conns' = OpenFailed(calls[k].conn, how)
    /\ Goes(k, NoCall)
    /\ UNCHANGED <<process, reach, connection, owned, durable, observer, command>>

BindReplaces(k) ==
    /\ calls[k].phase = "replacing"
    /\ Bound(k, calls[k].conn)
    /\ UNCHANGED <<process, reach, conns, torn, command>>

\* Remove the credentials, then the account.
Unbound(k) ==
    /\ owned' = FALSE
    /\ credentials' = FALSE
    /\ status' = Absent
    /\ Goes(k, NoCall)

\* Mutant: the credentials are removed before the connection is closed.
UnbindAtOnce(k) ==
    /\ process = "serving" /\ calls[k] = NoCall
    /\ status # Absent
    /\ observer' = Absent
    /\ IF connection = Absent
       THEN Unbound(k) /\ UNCHANGED <<conns, connection>>
       ELSE /\ conns' = Closed(connection)
            /\ connection' = Absent
            /\ Goes(k, [phase |-> "closing"])
            /\ credentials' = FALSE
            /\ UNCHANGED <<owned, status>>
    /\ Fails(connection)
    /\ UNCHANGED <<process, reach, torn>>

\* The observer is cancelled and the connection closed before anything is removed.
UnbindBegins(k) ==
    /\ process = "serving" /\ calls[k] = NoCall
    /\ status # Absent
    /\ observer' = Absent
    /\ IF connection = Absent
       THEN Unbound(k) /\ UNCHANGED <<conns, connection>>
       ELSE /\ conns' = Closed(connection)
            /\ connection' = Absent
            /\ Goes(k, [phase |-> "closing"])
            /\ UNCHANGED <<owned, status, credentials>>
    /\ Fails(connection)
    /\ UNCHANGED <<process, reach, torn>>

UnbindFinishes(k) ==
    /\ calls[k].phase = "closing"
    /\ Unbound(k)
    /\ UNCHANGED <<process, reach, conns, connection, torn, observer, command>>

-----------------------------------------------------------------------------
(* The instance. *)

ReachChanges ==
    /\ "unreachable" \in Faults
    /\ reach' = ~reach
    /\ UNCHANGED <<process, conns, connection, owned, durable, calls, observer, command>>

\* A state changes; an observer that listens finds it in its queue, which loses
\* its oldest entry when it is full.
Change(c) ==
    /\ conns[c].live
    /\ InPhase("waiting") \/ InPhase("reporting")
    /\ observer.conn = c
    /\ observer' = [observer EXCEPT !.queued = IF @ = MaxQueued THEN @ ELSE @ + 1]
    /\ UNCHANGED <<process, reach, conns, connection, owned, durable, calls, command>>

\* The connection is lost: requests fail and waits look again; queues are not told.
Lose(c) ==
    /\ "loss" \in Faults
    /\ Connected(c)
    /\ conns' = Closed(c)
    /\ Fails(c)
    /\ UNCHANGED <<process, reach, connection, owned, durable, calls, observer>>

-----------------------------------------------------------------------------
(* HomeAssistantProvider.execute. *)

Pending == IF command = Absent THEN FALSE ELSE command.phase \in {"sent", "confirming"}
CommandIs(p) == IF command = Absent THEN FALSE ELSE command.phase = p
CommandBecomes(p) ==
    /\ command' = [command EXCEPT !.phase = p]
    /\ UNCHANGED <<process, reach, conns, connection, owned, durable, calls, observer>>

Send ==
    /\ process = "serving" /\ ~Pending
    /\ connection # Absent /\ owned
    /\ Connected(connection)
    /\ command' = [phase |-> "sent", conn |-> connection, acted |-> FALSE]
    /\ UNCHANGED <<process, reach, conns, connection, owned, durable, calls, observer>>

Act ==
    /\ CommandIs("sent") /\ ~command.acted
    /\ command' = [command EXCEPT !.acted = TRUE]
    /\ UNCHANGED <<process, reach, conns, connection, owned, durable, calls, observer>>

Reject == CommandIs("sent") /\ ~command.acted /\ CommandBecomes("refused")

Answer == CommandIs("sent") /\ command.acted /\ CommandBecomes("confirming")

Confirm == CommandIs("confirming") /\ conns[command.conn].live /\ CommandBecomes("confirmed")

\* The runtime's deadline.
GiveUp == Pending /\ CommandBecomes("unknown")

-----------------------------------------------------------------------------
(* Stopping and starting the Hub. *)

Stopped ==
    /\ process' = "starting"
    /\ conns' = [c \in Conns |-> Unopened]
    /\ connection' = Absent
    /\ owned' = FALSE
    /\ calls' = [k \in Calls |-> NoCall]
    /\ observer' = Absent
    /\ command' = Absent
    /\ UNCHANGED reach

Stop == "crash" \in Faults /\ Stopped /\ UNCHANGED durable

\* The Hub stops with the credentials kept and the account not, or the other way round.
StopInBind(k) ==
    /\ "crash" \in Faults
    /\ \/ calls[k].phase = "replacing"
       \/ calls[k].phase = "opening" /\ reach /\ connection = Absent
    /\ credentials' = TRUE
    /\ torn' = TRUE
    /\ UNCHANGED status
    /\ Stopped

StopInUnbind(k) ==
    /\ "crash" \in Faults
    /\ calls[k].phase = "closing"
    /\ credentials' = FALSE
    /\ torn' = TRUE
    /\ UNCHANGED status
    /\ Stopped

StartsWithout ==
    /\ process = "starting"
    /\ status = Absent
    /\ process' = "serving"
    /\ UNCHANGED <<reach, conns, connection, owned, durable, calls, observer, command>>

\* restore binds the account again.
StartConnects(c) ==
    /\ process = "starting"
    /\ status # Absent /\ credentials /\ reach
    /\ process' = "serving"
    /\ conns' = Opened(c)
    /\ connection' = c
    /\ owned' = TRUE
    /\ status' = "connected"
    /\ observer' = NewObserver
    /\ UNCHANGED <<reach, credentials, torn, calls, command>>

\* It cannot: the account is marked, unless the instance is silent, and observed.
StartFails(c, how) ==
    /\ process = "starting"
    /\ status # Absent
    /\ credentials => CanOpen(how)
    /\ process' = "serving"
    /\ conns' = IF credentials THEN OpenFailed(c, how) ELSE conns
    /\ status' = IF credentials /\ how = "silent" THEN status ELSE "degraded"
    /\ observer' = NewObserver
    /\ UNCHANGED <<reach, connection, owned, credentials, torn, calls, command>>

-----------------------------------------------------------------------------
ObserverSteps ==
    \/ ObserverStarts \/ ObserverOpens \/ ObserverWakes \/ ObserverRefilled
    \/ ObserverReceives \/ ObserverReported \/ ObserverBreaks
    \/ \E how \in OpenFaults : ObserverFails(how)

CallSteps(k) ==
    \/ \E c \in Conns : BindBegins(k, c)
    \/ BindOpens(k) \/ BindReplaces(k) \/ UnbindBegins(k) \/ UnbindFinishes(k)
    \/ \E how \in OpenFaults : BindFails(k, how)

Starts ==
    \/ StartsWithout
    \/ \E c \in Conns : StartConnects(c)
    \/ \E c \in Conns, how \in FaultKinds : StartFails(c, how)

HomeNext ==
    \/ ObserverSteps \/ Starts
    \/ \E k \in Calls : CallSteps(k) \/ StopInBind(k) \/ StopInUnbind(k)
    \/ ReachChanges \/ \E c \in Conns : Change(c) \/ Lose(c)
    \/ Send \/ Act \/ Reject \/ Answer \/ Confirm \/ GiveUp
    \/ Stop

HomeSpec == HomeInit /\ [][HomeNext]_homeVars

\* The observer's own steps are taken, an attempt to open a connection ends, and
\* attempts that could succeed again and again do so once.  The Hub comes up.
Fairness ==
    /\ WF_homeVars(ObserverStarts) /\ WF_homeVars(ObserverWakes)
    /\ WF_homeVars(ObserverRefilled)
    /\ WF_homeVars(ObserverReceives) /\ WF_homeVars(ObserverReported)
    /\ SF_homeVars(ObserverOpens)
    /\ WF_homeVars(Starts)
    /\ \A k \in Calls : WF_homeVars(BindReplaces(k)) /\ WF_homeVars(UnbindFinishes(k))

HomeFairSpec == HomeSpec /\ Fairness

-----------------------------------------------------------------------------
(* Properties. *)

\* There are credentials in the vault exactly when there is an account, however binds
\* and unbinds overlap (bind and unbind, provider.py:76-114); stopped between two
\* transactions, the Hub may be left with one of them, but once it serves again an
\* account shown as connected has the credentials the next start needs (restore,
\* provider.py:116-130).
CredentialsGoWithAccount ==
    /\ torn \/ (credentials <=> status # Absent)
    /\ process = "serving" /\ status = "connected" => credentials

Live == Running /\ observer.conn # Absent /\ conns[observer.conn].live

\* An observer that has noticed a loss opens the connection again once the instance
\* stays reachable (observe, provider.py:139-156), unless the account is let go.
NoticedLossIsRepaired ==
    <>[]reach => (InPhase("opening") ~> Live \/ connection = Absent)

\* What connection.py:6-8 says: "on loss the connection is reopened with
\* exponential backoff".  The account's connection is not lost for good while the
\* instance stays reachable.
LostIsReopened ==
    <>[]reach => (connection # Absent /\ ~Connected(connection) ~> Live \/ connection = Absent)

\* What integration_service.py:57 says of start: "Reconnect accounts bound before
\* this process started and resume observing."
RestoredIsObserved ==
    <>[](reach /\ process = "serving" /\ \A k \in Calls : calls[k] = NoCall) =>
        (process = "starting" /\ status # Absent /\ credentials ~> Live \/ status = Absent)

\* What integration_service.py:3-4 says: it "keeps the observation stream of every
\* bound account running".  The observer listens to the account's connection.
ListensToCurrent ==
    InPhase("waiting") /\ connection # Absent => observer.conn = connection

\* What ports.py:68 says of execute: it "Raises ``SmartHomeError`` for a command it
\* refused without acting."
RefusedDidNotAct == CommandIs("refused") => ~command.acted

=============================================================================
