------------------------------ MODULE Admission ------------------------------
(***************************************************************************)
(* The Admission Authority of the Hub (hub/admission/application.py and    *)
(* persistence.py): how a body comes to hold a Claim in one Owner Domain,  *)
(* and how it loses it.                                                    *)
(*                                                                         *)
(* Every command runs its writes in one transaction under one asyncio      *)
(* lock, so a transaction is one atomic action; it reads the clock on its  *)
(* way to the lock, which is FIFO, so the reading belongs to it.  A        *)
(* command that first sweeps overdue Proposals (cancel, decide, collect,   *)
(* acknowledge) does so in a transaction of its own, releases the lock and *)
(* takes it again: the sweep is the call's Begin, and everything may       *)
(* happen before the call's second transaction.                            *)
(***************************************************************************)
EXTENDS Integers, Sequences, FiniteSets

CONSTANTS
    Keys,               \* operational keys; a device instance id is a digest of one
    Bases,              \* base identities; a hardware identity ref is derived from one
    Enrollments,        \* ids the id generator may hand out
    Jtis,               \* voucher ids, numbered in their textual order
    Controllers,        \* principals whose context carries device.claim.approve
    None,               \* the absent value of a column
    DecideFromStanding, \* the constructor flag of the same name
    ProposalTTL,
    GrantTTL,
    MaxTime,            \* bound of the clock
    MaxCalls            \* bound of the commands in flight between their transactions

ASSUME AdmissionAssumption ==
    /\ Jtis \subseteq Nat
    /\ None \notin Keys \cup Bases \cup Enrollments \cup Jtis \cup Controllers
    /\ DecideFromStanding \in BOOLEAN
    /\ ProposalTTL \in Nat \ {0}
    /\ GrantTTL \in Nat \ {0}
    /\ MaxTime \in Nat
    /\ MaxCalls \in Nat

VARIABLES
    clock,      \* the wall clock every deadline is compared with
    bound,      \* admission_base_identities: the base identity a key is bound to
    spent,      \* admission_commissioning_vouchers: the jtis already consumed
    standing,   \* admission_commissioning_standings: who recorded which jti, when
    withdrawn,  \* admission_controller_withdrawals: the moment, 0 when there is none
    proposal,   \* admission_proposals
    decision,   \* admission_decisions, at most one of each enrollment
    grant,      \* admission_grants and admission_grant_acks; gen 0 when there is none
    claim,      \* admission_claims, one row of each device instance
    device,     \* the Claim columns of hub_devices
    stream,     \* admission_claim_event_stream
    calls,      \* commands between their sweep and their own transaction
    silenced    \* history: jtis whose Controller was withdrawn after recording them

vars == <<clock, bound, spent, standing, withdrawn, proposal, decision, grant,
          claim, device, stream, calls, silenced>>

identityVars == <<bound, spent>>
standingVars == <<standing, withdrawn, silenced>>
enrollmentVars == <<proposal, decision, grant>>
claimVars == <<claim, device, stream>>

------------------------------------------------------------------------------
(* States and records. *)

OpenStates == {"pending_review", "approved_awaiting_handoff", "grant_delivered"}

TerminalStates ==
    {"grant_acknowledged", "rejected", "expired", "canceled", "claim_revoked"}

\* ALLOWED_PROPOSAL_TRANSITIONS
MayBecome(from, to) ==
    \/ /\ from = "pending_review"
       /\ to \in {"approved_awaiting_handoff", "rejected", "expired", "canceled"}
    \/ /\ from = "approved_awaiting_handoff"
       /\ to \in {"grant_delivered", "expired", "claim_revoked"}
    \/ /\ from = "grant_delivered"
       /\ to \in {"grant_acknowledged", "expired", "claim_revoked"}

Operations == {"approve", "reject", "cancel", "collect", "ack"}

Call == [op : Operations, e : Enrollments, rev : Nat]

Proposal ==
    [state : OpenStates \cup TerminalStates \cup {"absent"}, rev : Nat,
     key : Keys \cup {None}, base : Bases \cup {None}, jti : Jtis \cup {None},
     expires : Nat]

Decision ==
    [verdict : {"none", "approve", "reject"}, standing : Jtis \cup {None}, rev : Nat]

Grant ==
    [gen : Nat, expires : Nat, delivered : BOOLEAN, revoked : BOOLEAN, acked : BOOLEAN]

Claim ==
    [state : {"none", "active", "revoked"}, gen : Nat, rev : Nat,
     by : Enrollments \cup {None}]

DeviceRow == [state : {"none", "approved", "revoked"}, gen : Nat, rev : Nat]

Standing == [jti : Jtis, key : Keys, by : Controllers, at : Nat]

ClaimEvent == [type : {"activated", "revoked"}, key : Keys, gen : Nat, rev : Nat]

NoProposal ==
    [state |-> "absent", rev |-> 0, key |-> None, base |-> None, jti |-> None,
     expires |-> 0]

NoDecision == [verdict |-> "none", standing |-> None, rev |-> 0]

NoGrant ==
    [gen |-> 0, expires |-> 0, delivered |-> FALSE, revoked |-> FALSE, acked |-> FALSE]

Init ==
    /\ clock = 1
    /\ bound = [k \in Keys |-> None]
    /\ spent = {}
    /\ standing = {}
    /\ withdrawn = [c \in Controllers |-> 0]
    /\ proposal = [e \in Enrollments |-> NoProposal]
    /\ decision = [e \in Enrollments |-> NoDecision]
    /\ grant = [e \in Enrollments |-> NoGrant]
    /\ claim = [k \in Keys |-> [state |-> "none", gen |-> 0, rev |-> 0, by |-> None]]
    /\ device = [k \in Keys |-> [state |-> "none", gen |-> 0, rev |-> 0]]
    /\ stream = <<>>
    /\ calls = {}
    /\ silenced = {}

------------------------------------------------------------------------------
(* What the transactions read. *)

\* Mutant: only rejections are remembered, not removals
RequiresFreshPresenceAfterRejectionOnly(b) ==
    \E e \in Enrollments : proposal[e].base = b /\ proposal[e].state = "rejected"

\* requires_fresh_presence: has this base identity already been told no?
RequiresFreshPresence(b) ==
    \/ \E e \in Enrollments : proposal[e].base = b /\ proposal[e].state = "rejected"
    \/ \E k \in Keys :
          /\ claim[k].state = "revoked"
          /\ claim[k].by # None
          /\ proposal[claim[k].by].base = b

\* Mutant: grants that were revoked no longer count
GrantedGenerationsInForce(b) ==
    {0} \cup {grant[e].gen : e \in {d \in Enrollments : proposal[d].base = b
                                                       /\ ~grant[d].revoked}}

GrantedGenerations(b) ==
    {0} \cup {grant[e].gen : e \in {d \in Enrollments : proposal[d].base = b}}

\* max_claim_generation over every grant of the hardware identity, plus one
NextGeneration(b) ==
    (CHOOSE g \in GrantedGenerations(b) : \A h \in GrantedGenerations(b) : h <= g) + 1

\* Mutant: only the key's own binding is checked
MayBindByKeyOnly(k, b) == bound[k] \in {None, b}

\* bind_base_identity accepts: both directions of the one-to-one binding
MayBind(k, b) ==
    /\ \A other \in Keys : bound[other] = b => other = k
    /\ bound[k] \in {None, b}

\* The row order of latest_commissioning_standing_for_key
Later(s, t) == s.at > t.at \/ (s.at = t.at /\ s.jti >= t.jti)

\* The standing row a Proposal is answered by: its voucher's, or its key's latest
StandingRows(k, j) ==
    IF j # None
    THEN {s \in standing : s.jti = j /\ s.key = k}
    ELSE {s \in standing :
             s.key = k /\ \A t \in standing : t.key = k => Later(s, t)}

\* Mutant: a standing recorded at the moment of the withdrawal survives it
StandingForUpTo(k, j) ==
    {s \in StandingRows(k, j) : DecideFromStanding /\ withdrawn[s.by] <= s.at}

\* _standing_for, its withdrawn Controllers left out
StandingFor(k, j) ==
    {s \in StandingRows(k, j) : DecideFromStanding /\ withdrawn[s.by] < s.at}

------------------------------------------------------------------------------
(* expire_due: a transaction of its own, run first by most commands. *)

\* The row of a Proposal after one transition
Moved(e, to) == [proposal[e] EXCEPT !.state = to, !.rev = @ + 1]

\* Mutant: list_expirable without its filter on the state
DueInAnyState(e) == proposal[e].state # "absent" /\ proposal[e].expires <= clock

Due(e) == proposal[e].state \in OpenStates /\ proposal[e].expires <= clock

\* Mutant: the sweep leaves the grants of expired Proposals in force
SweepKeepingGrants ==
    /\ proposal' = [e \in Enrollments |-> IF Due(e) THEN Moved(e, "expired") ELSE proposal[e]]
    /\ UNCHANGED grant

Sweep ==
    /\ proposal' = [e \in Enrollments |-> IF Due(e) THEN Moved(e, "expired") ELSE proposal[e]]
    /\ grant' = [e \in Enrollments |->
                    IF Due(e) /\ grant[e].gen # 0
                    THEN [grant[e] EXCEPT !.revoked = TRUE]
                    ELSE grant[e]]

\* expire_due alone: the enrollment recovery reads run it and nothing else
ExpireDue ==
    /\ Sweep
    /\ UNCHANGED <<clock, identityVars, standingVars, decision, claimVars, calls>>

\* The first transaction of a command on enrollment e.  The caller names what it
\* last saw: a Controller the Proposal's revision, a device the revision 1 that
\* creation answered.  Only a device that opened its envelope can acknowledge.
Begin(op, e) ==
    /\ Cardinality(calls) < MaxCalls
    /\ proposal[e].state # "absent"
    /\ op = "ack" => grant[e].delivered
    /\ Sweep
    /\ calls' = calls \cup
          {[op |-> op, e |-> e, rev |-> IF op = "collect" THEN 1 ELSE proposal[e].rev]}
    /\ UNCHANGED <<clock, identityVars, standingVars, decision, claimVars>>

\* A call ends without effect: refused by one of its guards, canceled with its
\* connection, or lost with the process.
Abandon(c) ==
    /\ calls' = calls \ {c}
    /\ UNCHANGED <<clock, identityVars, standingVars, enrollmentVars, claimVars>>

------------------------------------------------------------------------------
(* Standing: what Controllers record, and its end. *)

\* record_commissioning_standing; the Host asks it before it signs voucher j.
\* Asking again with the same content changes nothing, with another is refused.
RecordStanding(j, k, c) ==
    /\ \A s \in standing : s.jti # j
    /\ standing' = standing \cup {[jti |-> j, key |-> k, by |-> c, at |-> clock]}
    /\ UNCHANGED <<clock, identityVars, withdrawn, silenced, enrollmentVars,
                   claimVars, calls>>

\* withdraw_controller: the moment only moves forward
WithdrawController(c) ==
    /\ withdrawn' = [withdrawn EXCEPT ![c] = IF clock > @ THEN clock ELSE @]
    /\ silenced' = silenced \cup {s.jti : s \in {t \in standing : t.by = c}}
    /\ UNCHANGED <<clock, identityVars, standing, enrollmentVars, claimVars, calls>>

------------------------------------------------------------------------------
(* Creating and deciding enrollments. *)

\* The grant _decide_in_session mints when it approves
NewGrant(b) ==
    [NoGrant EXCEPT !.gen = NextGeneration(b), !.expires = clock + GrantTTL]

\* The row create_enrollment adds, as it leaves it
NewProposal(k, b, j, state, rev) ==
    [state |-> state, rev |-> rev, key |-> k, base |-> b, jti |-> j,
     expires |-> clock + ProposalTTL]

\* create_enrollment, once its proof is verified: the Proposal, and the Decision
\* its recorded standing makes of it in the same transaction.
Propose(e, k, b, j) ==
    /\ proposal[e].state = "absent"
    /\ \/ /\ StandingFor(k, j) = {}
          /\ proposal' = [proposal EXCEPT ![e] = NewProposal(k, b, j, "pending_review", 1)]
          /\ UNCHANGED <<decision, grant>>
       \/ \E s \in StandingFor(k, j) :
             /\ proposal' = [proposal EXCEPT
                   ![e] = NewProposal(k, b, j, "approved_awaiting_handoff", 2)]
             /\ decision' = [decision EXCEPT
                   ![e] = [verdict |-> "approve", standing |-> s.jti, rev |-> 1]]
             /\ grant' = [grant EXCEPT ![e] = NewGrant(b)]

\* The voucher scheme: the jti is spent and the binding made or confirmed
CreateWithVoucher(e, k, b, j) ==
    /\ j \notin spent
    /\ MayBind(k, b)
    /\ spent' = spent \cup {j}
    /\ bound' = [bound EXCEPT ![k] = b]
    /\ Propose(e, k, b, j)
    /\ UNCHANGED <<clock, standingVars, claimVars, calls>>

\* The enrolled base key scheme: the body's own continuation, no voucher
CreateByContinuation(e, k, b) ==
    /\ bound[k] = b
    /\ ~RequiresFreshPresence(b)
    /\ Propose(e, k, b, None)
    /\ UNCHANGED <<clock, identityVars, standingVars, claimVars, calls>>

\* decide_enrollment by a Controller from the queue
Decide(c) ==
    LET p == proposal[c.e]
        target == IF c.op = "approve" THEN "approved_awaiting_handoff" ELSE "rejected"
    IN  /\ c.op \in {"approve", "reject"}
        /\ p.expires > clock
        /\ MayBecome(p.state, target)
        /\ p.rev = c.rev
        /\ decision' = [decision EXCEPT
              ![c.e] = [verdict |-> c.op, standing |-> None, rev |-> p.rev]]
        /\ proposal' = [proposal EXCEPT ![c.e] = Moved(c.e, target)]
        /\ grant' = IF c.op = "approve"
                    THEN [grant EXCEPT ![c.e] = NewGrant(p.base)]
                    ELSE grant
        /\ calls' = calls \ {c}
        /\ UNCHANGED <<clock, identityVars, standingVars, claimVars>>

\* cancel_enrollment
Cancel(c) ==
    /\ c.op = "cancel"
    /\ MayBecome(proposal[c.e].state, "canceled")
    /\ proposal' = [proposal EXCEPT ![c.e] = Moved(c.e, "canceled")]
    /\ calls' = calls \ {c}
    /\ UNCHANGED <<clock, identityVars, standingVars, decision, grant, claimVars>>

------------------------------------------------------------------------------
(* Handing the grant over. *)

\* collect_claim_grant: seals the envelope once, and answers the same one again
Collect(c) ==
    LET p == proposal[c.e]
        g == grant[c.e]
    IN  /\ c.op = "collect"
        /\ p.state \in {"approved_awaiting_handoff", "grant_delivered"}
        /\ p.expires > clock
        /\ g.gen # 0 /\ ~g.revoked
        /\ decision[c.e].verdict # "none" /\ decision[c.e].rev = c.rev
        /\ g.expires > clock
        /\ IF g.delivered
           THEN UNCHANGED <<proposal, grant>>
           ELSE /\ grant' = [grant EXCEPT ![c.e].delivered = TRUE]
                /\ proposal' = [proposal EXCEPT ![c.e] = Moved(c.e, "grant_delivered")]
        /\ calls' = calls \ {c}
        /\ UNCHANGED <<clock, identityVars, standingVars, decision, claimVars>>

\* Mutant: an existing row takes the revision 1 of the new values
UpsertClaimAtRevisionOne(k, state, gen, e) ==
    claim' = [claim EXCEPT ![k] = [state |-> state, gen |-> gen, by |-> e, rev |-> 1]]

\* upsert_claim: a new row at revision 1, an existing one overwritten
UpsertClaim(k, state, gen, e) ==
    claim' = [claim EXCEPT ![k] =
                 [state |-> state, gen |-> gen, by |-> e, rev |-> claim[k].rev + 1]]

\* Mutant: the event is typed by the state of the row
PublishState(type, k, gen) ==
    stream' = Append(stream,
                 [type |-> claim'[k].state, key |-> k, gen |-> gen, rev |-> claim'[k].rev])

\* Mutant: the event carries the revision read before the row was written
PublishOldRevision(type, k, gen) ==
    stream' = Append(stream,
                 [type |-> type, key |-> k, gen |-> gen, rev |-> claim[k].rev])

\* add_outbox of a Claim event
Publish(type, k, gen) ==
    stream' = Append(stream,
                 [type |-> type, key |-> k, gen |-> gen, rev |-> claim'[k].rev])

\* ack_claim_grant up to its commit: the Claim becomes active, and with it the
\* device row (project_active_claim)
Acknowledge(c) ==
    LET p == proposal[c.e]
        g == grant[c.e]
    IN  /\ c.op = "ack"
        /\ g.gen # 0 /\ ~g.revoked
        /\ p.state # "claim_revoked"
        /\ g.expires > clock
        /\ MayBecome(p.state, "grant_acknowledged")
        /\ proposal' = [proposal EXCEPT ![c.e] = Moved(c.e, "grant_acknowledged")]
        /\ grant' = [grant EXCEPT ![c.e].acked = TRUE]
        /\ UpsertClaim(p.key, "active", g.gen, c.e)
        /\ device' = [device EXCEPT ![p.key] =
              [state |-> "approved", gen |-> g.gen, rev |-> device[p.key].rev + 1]]
        /\ Publish("activated", p.key, g.gen)
        /\ calls' = calls \ {c}
        /\ UNCHANGED <<clock, identityVars, standingVars, decision>>

------------------------------------------------------------------------------
(* Revoking. *)

\* Mutant: rows of an older generation are revoked instead of the exact one
RevokeDeviceBefore(k, gen) ==
    device' = IF device[k].state # "none" /\ device[k].gen < gen
              THEN [device EXCEPT ![k].state = "revoked", ![k].rev = @ + 1]
              ELSE device

\* project_revoked_claim: only the row of the very same generation
RevokeDevice(k, gen) ==
    device' = IF device[k].state # "none" /\ device[k].gen = gen
              THEN [device EXCEPT ![k].state = "revoked", ![k].rev = @ + 1]
              ELSE device

\* revoke_claim of a grant that was never acknowledged, while its body has no Claim
RevokeUnclaimed(e) ==
    LET p == proposal[e]
        g == grant[e]
    IN  /\ g.gen # 0
        /\ claim[p.key].state = "none"
        /\ MayBecome(p.state, "claim_revoked")
        /\ proposal' = [proposal EXCEPT ![e] = Moved(e, "claim_revoked")]
        /\ grant' = [grant EXCEPT ![e].revoked = TRUE]
        /\ UpsertClaim(p.key, "revoked", g.gen, e)
        /\ RevokeDevice(p.key, g.gen)
        /\ Publish("revoked", p.key, g.gen)
        /\ UNCHANGED <<clock, identityVars, standingVars, decision, calls>>

\* Mutant: the grant behind the Claim stays in force
RevokeClaimKeepingGrant(k) ==
    /\ claim[k].state = "active"
    /\ claim' = [claim EXCEPT ![k].state = "revoked", ![k].rev = @ + 1]
    /\ RevokeDevice(k, claim[k].gen)
    /\ Publish("revoked", k, claim[k].gen)
    /\ UNCHANGED <<clock, identityVars, standingVars, enrollmentVars, calls>>

\* revoke_claim of an active Claim, named by its exact generation.  Revoking a
\* revoked Claim again saves a result and changes nothing else.
RevokeClaim(k) ==
    LET by == claim[k].by
    IN  /\ claim[k].state = "active"
        /\ claim' = [claim EXCEPT ![k].state = "revoked", ![k].rev = @ + 1]
        /\ grant' = [grant EXCEPT ![by].revoked = TRUE]
        /\ RevokeDevice(k, claim[k].gen)
        /\ Publish("revoked", k, claim[k].gen)
        /\ UNCHANGED <<clock, identityVars, standingVars, proposal, decision, calls>>

------------------------------------------------------------------------------

Tick ==
    /\ clock < MaxTime
    /\ clock' = clock + 1
    /\ UNCHANGED <<identityVars, standingVars, enrollmentVars, claimVars, calls>>

Create ==
    \E e \in Enrollments, k \in Keys, b \in Bases :
        \/ \E j \in Jtis : CreateWithVoucher(e, k, b, j)
        \/ CreateByContinuation(e, k, b)

Conclude ==
    \E c \in calls :
        \/ Decide(c)
        \/ Cancel(c)
        \/ Collect(c)
        \/ Acknowledge(c)
        \/ Abandon(c)

Next ==
    \/ Tick
    \/ ExpireDue
    \/ \E j \in Jtis, k \in Keys, c \in Controllers : RecordStanding(j, k, c)
    \/ \E c \in Controllers : WithdrawController(c)
    \/ Create
    \/ \E op \in Operations, e \in Enrollments : Begin(op, e)
    \/ Conclude
    \/ \E e \in Enrollments : RevokeUnclaimed(e)
    \/ \E k \in Keys : RevokeClaim(k)

Spec == Init /\ [][Next]_vars

------------------------------------------------------------------------------
(* Properties. *)

TypeOK ==
    /\ clock \in Nat \ {0}
    /\ bound \in [Keys -> Bases \cup {None}]
    /\ spent \subseteq Jtis
    /\ standing \subseteq Standing
    /\ withdrawn \in [Controllers -> Nat]
    /\ proposal \in [Enrollments -> Proposal]
    /\ decision \in [Enrollments -> Decision]
    /\ grant \in [Enrollments -> Grant]
    /\ claim \in [Keys -> Claim]
    /\ device \in [Keys -> DeviceRow]
    /\ stream \in Seq(ClaimEvent)
    /\ calls \subseteq Call
    /\ silenced \subseteq Jtis

\* A DeviceRef names one grant: no two grants of one operational key carry the
\* same generation, though generations are counted per hardware identity and
\* rows are kept per key.  revoke_claim finds a grant by its DeviceRef and the
\* erase and revocation workers derive their operation ids from it.
DeviceRefNamesOneGrant ==
    \A d, e \in Enrollments :
        /\ grant[d].gen # 0
        /\ grant[d].gen = grant[e].gen
        /\ proposal[d].key = proposal[e].key
        => d = e

\* A Claim and the grant it came from never disagree: an active Claim rests on an
\* approved, acknowledged and unrevoked grant of its own generation, and the
\* grant behind a revoked Claim is revoked with it (_decide_in_session,
\* ack_claim_grant, revoke_claim).
ClaimRestsOnItsGrant ==
    \A k \in Keys : claim[k].state # "none" =>
        /\ claim[k].by \in Enrollments
        /\ LET e == claim[k].by
           IN  /\ proposal[e].key = k
               /\ grant[e].gen = claim[k].gen
               /\ decision[e].verdict = "approve"
               /\ grant[e].revoked <=> claim[k].state = "revoked"
               /\ claim[k].state = "active" =>
                     grant[e].acked /\ proposal[e].state = "grant_acknowledged"

\* An enrollment that ended without a Claim leaves no grant a late collection or
\* acknowledgement could still use (expire_due, revoke_claim).
EndedEnrollmentHoldsNoGrant ==
    \A e \in Enrollments :
        proposal[e].state \in {"rejected", "expired", "canceled", "claim_revoked"} =>
            /\ grant[e].gen # 0 => grant[e].revoked
            /\ ~grant[e].acked

\* The owner-facing device row follows the Claim: project_active_claim and
\* project_revoked_claim leave it approved at exactly the active generation.
DeviceRowFollowsClaim ==
    \A k \in Keys :
        /\ device[k].state = "approved" <=> claim[k].state = "active"
        /\ claim[k].state = "active" => device[k].gen = claim[k].gen

EventsOf(k) == {i \in DOMAIN stream : stream[i].key = k}

\* A consumer that replays the Claim event stream arrives at the Claim table: the
\* last event of each key carries the row's state, generation and revision.
StreamReplaysToClaims ==
    \A k \in Keys :
        /\ EventsOf(k) = {} <=> claim[k].state = "none"
        /\ \A i \in EventsOf(k) : (\A j \in EventsOf(k) : j <= i) =>
              /\ stream[i].type = (IF claim[k].state = "active" THEN "activated" ELSE "revoked")
              /\ stream[i].gen = claim[k].gen
              /\ stream[i].rev = claim[k].rev

\* The DeviceRefs grants were issued for, as ClaimLifecycle names them
Issued ==
    {<<proposal[e].key, grant[e].gen>> : e \in {d \in Enrollments : grant[d].gen # 0}}

Lifecycle == INSTANCE ClaimLifecycle WITH issued <- Issued

\* What the stream promises its consumers, whatever the Authority does inside:
\* ack_claim_grant and revoke_claim extend it only as ClaimLifecycle allows.
StreamIsALifecycle == Lifecycle!Spec

\* A terminal Proposal never changes again, and a Decision is written once:
\* concurrent Controllers, a standing and a deadline settle on one outcome.
SettledStaysSettled ==
    [][\A e \in Enrollments :
          /\ proposal[e].state \in TerminalStates => proposal'[e] = proposal[e]
          /\ decision[e].verdict # "none" => decision'[e] = decision[e]]_vars

\* A standing recorded before its Controller was withdrawn decides nothing after
\* it, by voucher or by continuation (_standing_for, withdraw_controller).
SilencedStandingDecidesNothing ==
    [][\A e \in Enrollments :
          decision[e].verdict = "none" => decision'[e].standing \notin silenced]_vars

\* A step creates enrollment e without a voucher
ProposesItself(e) ==
    /\ proposal[e].state = "absent"
    /\ proposal'[e].state # "absent"
    /\ proposal'[e].jti = None

\* The stream reported no revocation of k that stands, and k was never rejected
NotTurnedAway(k) ==
    /\ \A i \in EventsOf(k) :
          stream[i].type = "revoked" =>
             \E j \in EventsOf(k) : j > i /\ stream[j].type = "activated"
    /\ \A e \in Enrollments : proposal[e].key = k => proposal[e].state # "rejected"

\* A body the Owner rejected or removed does not propose itself: a continuation
\* never follows a revocation the stream reported or a rejected Proposal of its
\* key (requires_fresh_presence).
NoSelfReturn ==
    [][\A e \in Enrollments :
          ProposesItself(e) => NotTurnedAway(proposal'[e].key)]_vars

\* One voucher admits at most one Proposal, and it binds one key to one base
\* identity for good (consume_commissioning_voucher, bind_base_identity).
VoucherAndBindingAreSpentOnce ==
    /\ \A d, e \in Enrollments :
          proposal[d].jti = proposal[e].jti /\ proposal[d].jti # None => d = e
    /\ \A e \in Enrollments :
          proposal[e].state # "absent" => bound[proposal[e].key] = proposal[e].base
    /\ \A k, l \in Keys : bound[k] = bound[l] /\ bound[k] # None => k = l

------------------------------------------------------------------------------
(* What the documentation says and the code does not keep. *)

\* "A Rejected or Revoked identity may come back, but not on its own: ... the way
\* back in is another moment of physical presence" (persistence.py:509): a
\* revoked Claim becomes active again only by an enrollment that spent a voucher.
RemovedBodyReturnsWithPresence ==
    [][\A k \in Keys :
          claim[k].state = "revoked" /\ claim'[k].state = "active" =>
             proposal[claim'[k].by].jti # None]_vars

\* The pair of base identity and key is "the anti-rollback fence"
\* (persistence.py:320): the generation of a Claim never goes back.
ClaimGenerationNeverGoesBack ==
    [][\A k \in Keys : claim'[k].gen >= claim[k].gen]_vars

==============================================================================
