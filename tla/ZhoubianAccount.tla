--------------------------- MODULE ZhoubianAccount ---------------------------
(***************************************************************************)
(* One account of the delegated platform (providers/zhoubian): binding and *)
(* restoring it, the tokens that its poll, a sync and a command share, and *)
(* what the poll reports of the reachability of its devices.               *)
(*                                                                         *)
(* A call to the platform is three steps: it is sent, the platform         *)
(* handles it, and the Hub goes on with the answer up to the next call.    *)
(* The platform is the stand-in of cloud_mock.py.  A grant is a number: it *)
(* gives an access token and the refresh token that goes with it, which is *)
(* taken once.  The account's rows and credentials are written in one step *)
(* (HomeAccount models their order).                                       *)
(***************************************************************************)
EXTENDS Naturals, FiniteSets

CONSTANTS
    Devices,       \* what the platform lists
    Targets,       \* the devices whose name is in the instruction
    Sessions,      \* _Session objects
    None, Refused,
    MaxGrants,     \* bound of the tokens issued
    MaxSecrets,    \* bound of the activations
    MaxBusy,       \* bound of the callers at work at a time
    MaxEvents      \* bound of what happens to it: tokens that come due or expire, resets,
                   \* devices that come and go, lost calls, failures of the registry,
                   \* unbinds, restarts

ASSUME ZhoubianAssumption ==
    /\ Targets \subseteq Devices /\ Targets # {}
    /\ MaxGrants \in Nat /\ MaxSecrets \in Nat /\ MaxBusy \in Nat /\ MaxEvents \in Nat
    /\ None # Refused /\ None \notin Sessions
    /\ \A x \in {None, Refused} :
        x \notin Nat \cup {"homes", "ok", "offline", "some_offline"} \cup [Devices -> BOOLEAN]

VARIABLES
    secret,      \* platform: the user secret it issued last, 0 for none
    secrets,     \* platform: how many it has issued
    grants,      \* platform: how many grants it has issued
    access,      \* platform: the grants whose access token it takes
    refresh,     \* platform: the grants whose refresh token it takes
    connected,   \* platform: the devices that are online
    acted,       \* platform: how often it carried the instruction out
    hub,         \* whether the Hub is restoring its accounts or serving
    sessions,    \* the session objects
    current,     \* _sessions: the account's session
    known,       \* _known: what the last list said, None for no entry
    vault,       \* the stored user secret, 0 for none
    record,      \* the account's status, None for no row
    observing,   \* whether the observer task runs
    imported,    \* whether the registry has the account's devices
    stale,       \* whether the runtime has a copy of it from before it had them
    shown,       \* the reachability the runtime was told last
    callers,     \* what each caller waits for
    missed,      \* history: a report may be missing since the last sync that was alone
    events

platform == <<secret, secrets, grants, access, refresh, connected, acted>>
account == <<vault, record, imported, shown>>
memory == <<hub, sessions, current, known, observing, stale>>
vars == <<platform, account, memory, callers, missed, events>>

Callers == {"poll", "sync", "command", "bind"}
Unseen == [d \in Devices |-> None]
NoSession == [secret |-> 0, grant |-> 0, due |-> FALSE, home |-> FALSE]

\* A caller that is not at work: what its last call came to, as far as a property asks.
Idle(o) == [at |-> "idle", outcome |-> o]
Done == Idle("done")
AllIdle == [c \in Callers |-> Done]

TypeOK ==
    /\ secret \in 0..MaxSecrets /\ secrets \in 0..MaxSecrets /\ vault \in 0..MaxSecrets
    /\ grants \in 0..MaxGrants /\ access \subseteq 1..grants /\ refresh \subseteq 1..grants
    /\ connected \subseteq Devices /\ acted \in Nat
    /\ hub \in {"restoring", "serving"}
    /\ sessions \in [Sessions -> [secret : 0..MaxSecrets, grant : 0..MaxGrants,
                                  due : BOOLEAN, home : BOOLEAN]]
    /\ current \in Sessions \cup {None}
    /\ known \in [Devices -> BOOLEAN \cup {None}] /\ shown \in [Devices -> BOOLEAN \cup {None}]
    /\ record \in {None, "connected", "pending", "degraded"}
    /\ observing \in BOOLEAN /\ imported \in BOOLEAN /\ missed \in BOOLEAN /\ stale \in BOOLEAN
    /\ \A c \in Callers :
        callers[c].at \in {"idle", "activate", "token", "refresh", "request",
                           "importing", "reporting"}
    /\ events \in 0..MaxEvents

Init ==
    /\ secret = 0 /\ secrets = 0 /\ grants = 0 /\ access = {} /\ refresh = {}
    /\ connected = Devices /\ acted = 0
    /\ hub = "serving"
    /\ sessions = [s \in Sessions |-> NoSession]
    /\ current = None
    /\ known = Unseen /\ shown = Unseen
    /\ vault = 0 /\ record = None
    /\ observing = FALSE /\ imported = FALSE /\ stale = FALSE
    /\ callers = AllIdle
    /\ missed = FALSE
    /\ events = 0

-----------------------------------------------------------------------------
(* Calls of the Hub *)

Busy(c) == callers[c].at # "idle"
MayBegin(c) == ~Busy(c) /\ Cardinality({x \in Callers : Busy(x)}) < MaxBusy
Becomes(c, r) == callers' = [callers EXCEPT ![c] = r]

\* tries is the attempt of _authed the call belongs to, more the caller's own: what
\* bind has done, what a poll will compare with, and history, what was missed before
\* a sync; shaken is history: the platform forgot something under the retry.
Call(at, s, arg, tries, more) ==
    [at |-> at, session |-> s, arg |-> arg, tries |-> tries, more |-> more,
     reply |-> None, shaken |-> FALSE]

\* _refresh: with the refresh token, or with the secret when there is none.
Refreshes(s, g, tries, more) ==
    IF g.grant = 0 THEN Call("token", s, g.secret, tries, more)
    ELSE Call("refresh", s, g.grant, tries, more)

\* _authed up to its first call.
Authed(s, more) ==
    LET g == sessions[s] IN
    IF g.grant = 0 \/ g.due THEN Refreshes(s, g, 1, more)
    ELSE Call("request", s, g.grant, 1, more)

\* A call ends for want of authentication; history tells the ends that could not
\* be helped: the platform forgot something under the retry, or another bind has
\* replaced the secret of this session.
Denied(c) ==
    LET k == callers[c] IN
    IF ~k.shaken /\ (c = "bind" \/ sessions[k.session].secret = secret) THEN Idle("unauthorized")
    ELSE IF c = "command" THEN Idle("refused") ELSE Done

\* Mutant: a refresh token that is not taken ends the call
GivesUpOnRefresh(c) == Denied(c)

\* _refresh falls back to the secret.
AfterRefreshRefused(c) ==
    LET k == callers[c] IN
    [Call("token", k.session, sessions[k.session].secret, k.tries, k.more)
        EXCEPT !.shaken = k.shaken]

Uses(c) == IF callers[c].at \in {"activate", "token", "refresh", "request"}
           THEN callers[c].session ELSE None

Waits(c, at) == callers[c].at = at /\ callers[c].reply = None
Answered(c, at) == callers[c].at = at /\ callers[c].reply # None
Took(c, at) == Answered(c, at) /\ callers[c].reply # Refused
WasRefused(c, at) == Answered(c, at) /\ callers[c].reply = Refused

-----------------------------------------------------------------------------
(* The platform *)

Replies(c, r) == callers' = [callers EXCEPT ![c].reply = r]

\* active: a new secret for the user, whatever was issued before.
Activates(c) ==
    /\ Waits(c, "activate")
    /\ secrets < MaxSecrets
    /\ secrets' = secrets + 1
    /\ secret' = secrets + 1
    /\ Replies(c, secrets + 1)
    /\ UNCHANGED <<grants, access, refresh, connected, acted, account, memory, missed, events>>

Issue(c, r) ==
    /\ grants < MaxGrants
    /\ grants' = grants + 1
    /\ access' = access \cup {grants + 1}
    /\ refresh' = r \cup {grants + 1}
    /\ Replies(c, grants + 1)
    /\ UNCHANGED <<secret, secrets, connected, acted, account, memory, missed, events>>

Refuse(c) == Replies(c, Refused) /\ UNCHANGED <<platform, account, memory, missed, events>>

\* token_endpoint: by secret, or by a refresh token that is taken once.
Grants(c) ==
    \/ Waits(c, "token") /\ secret # 0 /\ callers[c].arg = secret /\ Issue(c, refresh)
    \/ Waits(c, "token") /\ (secret = 0 \/ callers[c].arg # secret) /\ Refuse(c)
    \/ Waits(c, "refresh") /\ callers[c].arg \in refresh /\ Issue(c, refresh \ {callers[c].arg})
    \/ Waits(c, "refresh") /\ callers[c].arg \notin refresh /\ Refuse(c)

\* control: nothing is done when no device named is online.
Control(c) ==
    LET online == Targets \cap connected IN
    /\ Replies(c, IF online = {} THEN "offline" ELSE IF online = Targets THEN "ok" ELSE "some_offline")
    /\ acted' = IF online = {} THEN acted ELSE acted + 1
    /\ UNCHANGED <<secret, secrets, grants, access, refresh, connected>>

\* bearer, then homes, devices or control.
Serves(c) ==
    /\ Waits(c, "request")
    /\ callers[c].arg \in access
    /\ CASE c = "command" -> Control(c)
         [] c = "bind" -> Replies(c, "homes") /\ UNCHANGED platform
         [] OTHER -> Replies(c, [d \in Devices |-> d \in connected]) /\ UNCHANGED platform
    /\ UNCHANGED <<account, memory, missed, events>>

Unauthorized(c) == Waits(c, "request") /\ callers[c].arg \notin access /\ Refuse(c)

Happens == events < MaxEvents /\ events' = events + 1

\* What the platform forgets under a caller that is already renewing its token.
Shaken ==
    [c \in Callers |->
        IF Busy(c) /\ callers[c].at \in {"activate", "token", "refresh", "request"}
           /\ (c = "bind" \/ callers[c].at # "request" \/ callers[c].tries = 2)
        THEN [callers[c] EXCEPT !.shaken = TRUE] ELSE callers[c]]

Expire(g) ==
    /\ Happens
    /\ g \in access
    /\ access' = access \ {g}
    /\ callers' = Shaken
    /\ UNCHANGED <<secret, secrets, grants, refresh, connected, acted, account, memory, missed>>

\* The platform is reset: it knows no token and no secret.
Reset ==
    /\ Happens
    /\ secret # 0
    /\ secret' = 0 /\ access' = {} /\ refresh' = {}
    /\ callers' = Shaken
    /\ UNCHANGED <<secrets, grants, connected, acted, account, memory, missed>>

SetConnected(d) ==
    /\ Happens
    /\ connected' = IF d \in connected THEN connected \ {d} ELSE connected \cup {d}
    /\ UNCHANGED <<secret, secrets, grants, access, refresh, acted, account, memory, callers, missed>>

-----------------------------------------------------------------------------
(* Tokens: the answers every caller handles alike. *)

\* The clock passes the margin before the expiry of the session's token.
ComesDue(s) ==
    /\ Happens
    /\ s = current \/ \E c \in Callers : Uses(c) = s
    /\ sessions[s].grant # 0 /\ ~sessions[s].due
    /\ sessions' = [sessions EXCEPT ![s].due = TRUE]
    /\ UNCHANGED <<platform, account, hub, current, known, observing, stale, callers, missed>>

\* _grant: the session takes both tokens, whichever it has by now, and the request
\* is sent.
TakesGrant(c) ==
    /\ Took(c, "token") \/ Took(c, "refresh")
    /\ LET k == callers[c] IN
       /\ sessions' = [sessions EXCEPT ![k.session].grant = k.reply, ![k.session].due = FALSE]
       /\ Becomes(c, [Call("request", k.session, k.reply, k.tries, k.more)
                        EXCEPT !.shaken = k.shaken])
    /\ UNCHANGED <<platform, account, hub, current, known, observing, stale, missed, events>>

FallsBack(c) ==
    /\ WasRefused(c, "refresh")
    /\ Becomes(c, AfterRefreshRefused(c))
    /\ UNCHANGED <<platform, account, memory, missed, events>>

\* The first refusal of a request renews the token the session has by now.
Retries(c) ==
    /\ WasRefused(c, "request")
    /\ callers[c].tries = 1
    /\ LET k == callers[c] IN
       Becomes(c, [Refreshes(k.session, sessions[k.session], 2, k.more)
                    EXCEPT !.shaken = (c = "bind" /\ k.shaken)])
    /\ UNCHANGED <<platform, account, memory, missed, events>>

-----------------------------------------------------------------------------
(* bind and restore *)

NewSession(s, home) ==
    sessions' = [sessions EXCEPT ![s] = [NoSession EXCEPT !.secret = vault, !.home = home]]

\* With a stored secret a token is tried first.
Binds(s, home) ==
    /\ MayBegin("bind")
    /\ s # current /\ \A c \in Callers : Busy(c) /\ c # "bind" => Uses(c) # s
    /\ NewSession(s, home)
    /\ Becomes("bind", IF vault # 0 THEN Call("token", s, vault, 1, "stored")
                       ELSE Call("activate", s, 0, 1, "activated"))
    /\ UNCHANGED <<platform, account, hub, current, known, observing, stale, missed, events>>

Bind(s, home) == hub = "serving" /\ Binds(s, home)
Restore(s, home) == hub = "restoring" /\ record # None /\ Binds(s, home)

\* Mutant: a secret the platform does not know refuses the account
BindRefused(k) == FALSE

\* The stored secret is not known any more.
SecretIsLost(k) == k.at = "token" /\ k.more = "stored" /\ k.tries = 1

BindActivatesAgain ==
    /\ WasRefused("bind", "token")
    /\ SecretIsLost(callers["bind"])
    /\ Becomes("bind", Call("activate", callers["bind"].session, 0, 1, "activated"))
    /\ UNCHANGED <<platform, account, memory, missed, events>>

BindTakesSecret ==
    /\ Took("bind", "activate")
    /\ LET k == callers["bind"] IN
       /\ sessions' = [sessions EXCEPT ![k.session].secret = k.reply]
       /\ Becomes("bind", [Call("token", k.session, k.reply, 1, "activated")
                            EXCEPT !.shaken = k.shaken])
    /\ UNCHANGED <<platform, account, hub, current, known, observing, stale, missed, events>>

\* The observer is started for an account that is connected, and at a start for one
\* that is degraded; one that runs is kept.
Observes(status) ==
    observing' = (observing \/ status = "connected" \/ (hub = "restoring" /\ status = "degraded"))

\* The homes are known: credentials, session and row are written.
BindFinishes ==
    /\ Took("bind", "request")
    /\ LET k == callers["bind"]
           status == IF sessions[k.session].home THEN "connected" ELSE "pending" IN
       /\ vault' = sessions[k.session].secret
       /\ current' = k.session
       /\ record' = status
       /\ Observes(status)
    /\ hub' = "serving"
    /\ Becomes("bind", Done)
    /\ UNCHANGED <<platform, sessions, known, stale, imported, missed, events, shown>>

\* Refused or lost, and its session with it; a restore marks the account and goes on.
BindEnds(o) ==
    /\ record' = IF hub = "restoring" THEN "degraded" ELSE record
    /\ IF hub = "restoring" THEN Observes("degraded") ELSE UNCHANGED observing
    /\ hub' = "serving"
    /\ sessions' = [sessions EXCEPT ![callers["bind"].session] = NoSession]
    /\ Becomes("bind", o)
    /\ UNCHANGED <<platform, vault, imported, current, known, stale, missed, shown>>

\* unbind: the observer is cancelled, session, credentials and row go.
Unbind ==
    /\ Happens
    /\ hub = "serving" /\ record # None
    /\ observing' = FALSE /\ current' = None /\ known' = Unseen
    /\ vault' = 0 /\ record' = None
    /\ callers' = [callers EXCEPT !["poll"] = Done]
    /\ missed' = Busy("sync")
    /\ UNCHANGED <<platform, hub, sessions, stale, imported, shown>>

-----------------------------------------------------------------------------
(* observe, discover, execute *)

\* A poll begins with what the list said before it.
Poll ==
    /\ hub = "serving" /\ observing /\ MayBegin("poll")
    /\ IF current = None
       THEN observing' = FALSE /\ UNCHANGED <<record, callers, missed>>
       ELSE /\ IF sessions[current].home
               THEN Becomes("poll", Authed(current, known)) /\ UNCHANGED record
               ELSE record' = "degraded" /\ UNCHANGED callers
            /\ missed' = (missed \/ Busy("sync"))
            /\ UNCHANGED observing
    /\ UNCHANGED <<platform, vault, imported, hub, sessions, current, known, stale, events, shown>>

\* The runtime's snapshot of the registry, from a copy or read: whether it has the devices.
Snapshot(has) ==
    \/ stale /\ ~has /\ UNCHANGED stale
    \/ has = imported /\ stale' = FALSE

\* The runtime is told of these devices what was found.
Told(who, found) == [d \in Devices |-> IF d \in who THEN found[d] ELSE shown[d]]

\* Mutant: the list is compared with what it has just become
ChangedNow(before, found) == {d \in Devices : known'[d] # found[d]}

Changed(before, found) == {d \in Devices : before[d] # found[d]}

\* discover's end: what was listed is known, and what differs is left to report.
PollListed ==
    /\ Took("poll", "request")
    /\ LET k == callers["poll"] IN
       /\ known' = k.reply
       /\ Becomes("poll", [at |-> "reporting", found |-> k.reply, left |-> Changed(k.more, k.reply)])
    /\ UNCHANGED <<platform, account, hub, sessions, current, observing, stale, missed, events>>

\* A change is reported, or passed over for want of the device in the snapshot.
PollReports(d) ==
    /\ callers["poll"].at = "reporting"
    /\ d \in callers["poll"].left
    /\ \E has \in BOOLEAN :
        /\ Snapshot(has)
        /\ shown' = Told(IF has THEN {d} ELSE {}, callers["poll"].found)
        /\ missed' = (missed \/ (imported /\ ~has))
    /\ Becomes("poll", [callers["poll"] EXCEPT !.left = @ \ {d}])
    /\ UNCHANGED <<platform, vault, record, imported, hub, sessions, current, known, observing, events>>

\* The snapshot fails: the observer task ends with it.
PollBreaks ==
    /\ Happens
    /\ callers["poll"].at = "reporting"
    /\ callers["poll"].left # {}
    /\ observing' = FALSE
    /\ missed' = (missed \/ imported)
    /\ Becomes("poll", Done)
    /\ UNCHANGED <<platform, account, hub, sessions, current, known, stale>>

PollFinishes ==
    /\ callers["poll"].at = "reporting"
    /\ callers["poll"].left = {}
    /\ record' = IF record = None THEN None ELSE "connected"
    /\ Becomes("poll", Done)
    /\ UNCHANGED <<platform, vault, imported, shown, memory, missed, events>>

PollEnds(o) ==
    /\ record' = IF record = None THEN None ELSE "degraded"
    /\ Becomes("poll", o)
    /\ UNCHANGED <<platform, vault, imported, shown, memory, missed>>

Sync ==
    /\ hub = "serving" /\ MayBegin("sync")
    /\ record # None /\ current # None /\ sessions[current].home
    /\ Becomes("sync", Authed(current, missed))
    /\ missed' = Busy("poll")
    /\ UNCHANGED <<platform, account, memory, events>>

SyncListed ==
    /\ Took("sync", "request")
    /\ known' = callers["sync"].reply
    /\ Becomes("sync", [at |-> "importing", found |-> callers["sync"].reply])
    /\ UNCHANGED <<platform, account, hub, sessions, current, observing, stale, missed, events>>

\* The devices are in the registry, of which the runtime may have taken a copy before.
Imports == imported' = TRUE /\ stale' \in {stale, ~imported}

SyncImports ==
    /\ callers["sync"].at = "importing"
    /\ Imports
    /\ Becomes("sync", [callers["sync"] EXCEPT !.at = "reporting"])
    /\ UNCHANGED <<platform, vault, record, shown, hub, sessions, current, known, observing,
                   missed, events>>

\* The importer gives up to another writer of the registry, before or after the devices
\* are written.
SyncGivesUp ==
    /\ Happens
    /\ callers["sync"].at = "importing"
    /\ Imports \/ UNCHANGED <<imported, stale>>
    /\ missed' = TRUE
    /\ Becomes("sync", Done)
    /\ UNCHANGED <<platform, vault, record, shown, hub, sessions, current, known, observing>>

\* Every device found that is in the snapshot is reported.
SyncReports ==
    /\ callers["sync"].at = "reporting"
    /\ \E has \in BOOLEAN :
        /\ Snapshot(has)
        /\ shown' = Told(IF has THEN Devices ELSE {}, callers["sync"].found)
        /\ missed' = (missed \/ ~has)
    /\ Becomes("sync", Done)
    /\ UNCHANGED <<platform, vault, record, imported, hub, sessions, current, known, observing, events>>

\* The snapshot fails, and the sync with it.
SyncBreaks ==
    /\ Happens
    /\ callers["sync"].at = "reporting"
    /\ missed' = TRUE
    /\ Becomes("sync", Done)
    /\ UNCHANGED <<platform, account, memory>>

\* execute: one instruction, of a device the snapshot has; the count of what it did starts
\* with it.
Execute ==
    /\ hub = "serving" /\ MayBegin("command")
    /\ imported /\ stale' = FALSE
    /\ IF current = None THEN Becomes("command", Idle("refused"))
       ELSE Becomes("command", Authed(current, None))
    /\ acted' = 0
    /\ UNCHANGED <<secret, secrets, grants, access, refresh, connected, account, hub, sessions,
                   current, known, observing, missed, events>>

CommandAnswered ==
    /\ Took("command", "request")
    /\ Becomes("command", IF callers["command"].reply = "ok" THEN Done ELSE Idle("refused"))
    /\ UNCHANGED <<platform, account, memory, missed, events>>

-----------------------------------------------------------------------------
(* Ends that come with any call *)

Ends(c, o) ==
    CASE c = "bind" -> BindEnds(o)
      [] c = "poll" -> PollEnds(o)
      [] c = "sync" -> /\ missed' = (missed \/ callers[c].more)
                       /\ Becomes(c, o) /\ UNCHANGED <<platform, account, memory>>
      [] OTHER -> Becomes(c, o) /\ UNCHANGED <<platform, account, memory, missed>>

\* The secret is not taken, or the second attempt is refused.
IsDenied(c) ==
    /\ \/ WasRefused(c, "token") /\ ~(c = "bind" /\ SecretIsLost(callers[c]))
       \/ WasRefused(c, "request") /\ callers[c].tries = 2
    /\ Ends(c, Denied(c))
    /\ UNCHANGED events

\* What the bounds keep the platform from answering.
Unanswerable(c) ==
    \/ Waits(c, "activate") /\ secrets = MaxSecrets
    \/ (Waits(c, "token") \/ Waits(c, "refresh")) /\ grants = MaxGrants

\* Mutant: a lost request is sent again
AskAgain(c) ==
    /\ callers[c].at \in {"activate", "token", "refresh", "request"}
    /\ IF Unanswerable(c) THEN UNCHANGED events ELSE Happens
    /\ IF callers[c].at = "request"
       THEN /\ Becomes(c, [callers[c] EXCEPT !.reply = None])
            /\ UNCHANGED <<platform, account, memory, missed>>
       ELSE Ends(c, Done)

\* The transport fails, before or after the platform did what was asked.
Lost(c) ==
    /\ callers[c].at \in {"activate", "token", "refresh", "request"}
    /\ IF Unanswerable(c) THEN UNCHANGED events ELSE Happens
    /\ Ends(c, Done)

Restart ==
    /\ Happens
    /\ hub' = IF record = None THEN "serving" ELSE "restoring"
    /\ sessions' = [s \in Sessions |-> NoSession]
    /\ current' = None /\ known' = Unseen /\ observing' = FALSE /\ stale' = FALSE
    /\ callers' = AllIdle
    /\ missed' = FALSE
    /\ UNCHANGED <<platform, account>>

-----------------------------------------------------------------------------
Platform ==
    \/ \E c \in Callers : Activates(c) \/ Grants(c) \/ Serves(c) \/ Unauthorized(c)
    \/ \E g \in 1..MaxGrants : Expire(g)
    \/ Reset
    \/ \E d \in Devices : SetConnected(d)

Hub ==
    \/ \E c \in Callers : TakesGrant(c) \/ FallsBack(c) \/ Retries(c) \/ IsDenied(c) \/ Lost(c)
    \/ \E s \in Sessions : ComesDue(s) \/ \E home \in BOOLEAN : Bind(s, home) \/ Restore(s, home)
    \/ BindActivatesAgain \/ BindTakesSecret \/ BindFinishes \/ Unbind
    \/ Poll \/ PollListed \/ PollBreaks \/ PollFinishes \/ \E d \in Devices : PollReports(d)
    \/ Sync \/ SyncListed \/ SyncImports \/ SyncGivesUp \/ SyncReports \/ SyncBreaks
    \/ Execute \/ CommandAnswered
    \/ Restart

Next == Platform \/ Hub

Spec == Init /\ [][Next]_vars

-----------------------------------------------------------------------------
(* Properties *)

\* However the poll, a sync, a command and a bind race for the tokens they share,
\* none of them is refused for want of authentication by a platform that knows the
\* session's secret and forgot nothing while the token was renewed (_refresh's and
\* bind's fallbacks, _authed's retry).
TokenRacesHeal == \A c \in Callers : Busy(c) \/ callers[c].outcome # "unauthorized"

\* An instruction is carried out at most once, and not at all when the Hub takes it
\* for refused or the device for offline (execute; _authed sends a request again
\* only when the platform has refused its token).
ActsOnceOrIsRefused ==
    /\ acted =< 1
    /\ ~Busy("command") /\ callers["command"].outcome # "done" => acted = 0

\* Between polls the runtime shows what the last list said (observe's comparison with
\* the list before it), unless a report was missed: by a sync that failed halfway or
\* overlapped a poll or an unbind, a snapshot from a copy older than the import, or a
\* snapshot that failed under the observer.  A sync that is alone and reports makes good
\* what was missed before it.
ShownKeepsUp ==
    imported /\ ~Busy("poll") /\ ~Busy("sync") /\ ~missed =>
        \A d \in Devices : known[d] # None => shown[d] = known[d]

\* integration_service.py: "the observer keeps it current after".  It does not when a
\* sync has taken the change over and reported something older, or nothing, or when the
\* observer could not report it.
ObserverKeepsCurrent ==
    imported /\ ~Busy("poll") /\ ~Busy("sync") =>
        \A d \in Devices : known[d] # None => shown[d] = known[d]

=============================================================================
