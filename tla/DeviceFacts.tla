----------------------------- MODULE DeviceFacts -----------------------------
(***************************************************************************)
(* The owner-facing facts of one device and their two writers.  Admission  *)
(* projects a Claim onto the device row when it is activated or revoked,   *)
(* in its own transactions under its own lock; the device-control use      *)
(* cases (hub/device_control) change the Manifest and the output policy    *)
(* through SqlDeviceMutationUnitOfWork, which compares the row with the    *)
(* one the use case read.  The in-memory directory is projected from the   *)
(* row after some of these commits and served to the Owner's consumers.    *)
(* Acknowledgements and revocations are commands: their senders repeat     *)
(* them until they are answered, and what a command did is recorded with   *)
(* its effect under the identifier its sender gave it.                     *)
(*                                                                         *)
(* SQLite's driver opens a transaction at the first write, so the compare  *)
(* of a unit of work (a SELECT) and its write are two steps, between which *)
(* Admission may commit; the mutation lock keeps only other units of work  *)
(* out.  The write names the columns the use case changed, no others.      *)
(***************************************************************************)
EXTENDS Naturals

CONSTANTS
    Calls,           \* use cases and projections in flight
    Commands,        \* the identifiers senders give their commands
    Policies,        \* what an output policy may allow
    None,
    CutOff,          \* whether calls may be cut off between two steps
    MaxGeneration,   \* bound of the Claim generations of the device
    MaxDeclared,     \* bound of the revisions a device declares
    MaxPolicy        \* bound of the policy revisions

VARIABLES
    claim,       \* the canonical Claim: state and generation
    row,         \* the row of hub_devices
    results,     \* admission_command_results: the payloads of the commands committed
    calls,       \* use cases, commands and projections between two awaits
    mutating,    \* the holder of the mutation lock
    directory,   \* the in-memory directory entry
    since        \* history: of each acknowledgement committed, the entries the row
                 \* has stood for from its commit on

vars == <<claim, row, results, calls, mutating, directory, since>>

-----------------------------------------------------------------------------
Idle == [phase |-> "idle"]
Generations == 1..MaxGeneration
Declared == 1..MaxDeclared

Policy == [revision : 1..MaxPolicy, allowed : Policies]
NoPolicy == [revision |-> 0, allowed |-> None]

Claim == [state : {"active", "revoked"}, generation : Generations]
DeviceRow ==
    [generation : Generations, lifecycle : {"approved", "revoked"}, declared : Declared,
     policy : Policy \cup {NoPolicy}, aggregate : Nat]

Entry ==
    [generation : Generations, lifecycle : {"approved", "revoked"}, declared : Declared]

\* A command is known by its kind and identifier, its fingerprint is the whole of it.
Acknowledgement == [kind : {"ack"}, command : Commands, generation : Generations, declared : Declared]
Revocation == [kind : {"revoke"}, command : Commands, generation : Generations]

ASSUME FactsAssumption ==
    /\ None \notin Calls \cup Policies \cup Generations
    /\ None \notin Claim \cup DeviceRow \cup Entry \cup Acknowledgement
    /\ CutOff \in BOOLEAN
    /\ MaxGeneration \in Nat /\ MaxDeclared \in Nat /\ MaxPolicy \in Nat

\* The entry of the directory that shows a row; the policy is not in it.
EntryOf(r) == [generation |-> r.generation, lifecycle |-> r.lifecycle, declared |-> r.declared]

Ended == {"idle", "answered", "refused"}

\* What a call has in hand between two of its steps.
Call ==
    [phase : Ended]
    \cup [phase : {"lookup", "locked"}, payload : Acknowledgement \cup Revocation]
    \cup [phase : {"manifest"}, generation : Generations, declared : Declared]
    \cup [phase : {"commit", "write"}, expected : DeviceRow, declared : Declared,
           policy : Policy \cup {NoPolicy}]
    \cup [phase : {"project"}, payload : Acknowledgement \cup {None}]
    \cup [phase : {"put"}, entry : Entry, payload : Acknowledgement \cup {None}]

Begin(c, call) == calls[c].phase \in Ended /\ calls' = [calls EXCEPT ![c] = call]
End(c) == calls' = [calls EXCEPT ![c] = Idle]

Init ==
    /\ claim = None
    /\ row = None
    /\ results = {}
    /\ calls = [c \in Calls |-> Idle]
    /\ mutating = None
    /\ directory = None
    /\ since = [p \in {} |-> {}]

-----------------------------------------------------------------------------
(* Admission, in its own transactions. *)

\* A Claim is activated and projected on the row: the generation granted, which may be
\* an earlier one than the row has, the Manifest the enrollment proposed, and what the
\* row holds besides.
ActiveRow(g, n) ==
    [generation |-> g, lifecycle |-> "approved", declared |-> n,
     policy |-> IF row = None THEN NoPolicy ELSE row.policy,
     aggregate |-> IF row = None THEN 1 ELSE row.aggregate + 1]

Recorded(p) == p \in results
Reused(p) == \E q \in results : q.kind = p.kind /\ q.command = p.command /\ q # p

Request(c, p) ==
    /\ Begin(c, [phase |-> "lookup", payload |-> p])
    /\ UNCHANGED <<claim, row, results, mutating, directory, since>>

RefusedCall == [phase |-> "refused"]
AnsweredCall == [phase |-> "answered"]

\* Mutant: an acknowledgement that is replayed is answered at once
ReplayAnswered(c) ==
    IF calls[c].payload.kind = "ack" THEN AnsweredCall ELSE Idle

\* A replayed acknowledgement is projected before it is answered, a revocation not.
Replayed(c) ==
    IF calls[c].payload.kind = "ack"
    THEN [phase |-> "project", payload |-> calls[c].payload]
    ELSE Idle

\* store.replay, before the lock is asked for.
Lookup(c) ==
    /\ calls[c].phase = "lookup"
    /\ calls' = [calls EXCEPT ![c] =
            IF Reused(@.payload) THEN RefusedCall
            ELSE IF Recorded(@.payload) THEN Replayed(c)
            ELSE [@ EXCEPT !.phase = "locked"]]
    /\ UNCHANGED <<claim, row, results, mutating, directory, since>>

\* Mutant: what was looked up before the lock is relied on
LooksOnce(c) == FALSE

\* replay_in_session, under the lock.
LockedReplay(c) == Recorded(calls[c].payload)

\* No command has used up the grant of a generation: a grant is acknowledged once, and
\* one that is revoked has no acknowledgement.
Unused(g) == \A q \in results : q.generation # g

\* An acknowledgement is held against its own grant, never against the Claim: grants may
\* be acknowledged in any order, over a Claim of a later generation too.  A revocation
\* must name the Claim as it stands, or a grant while there is no Claim.
Acceptable(p) ==
    IF p.kind = "ack" THEN Unused(p.generation)
    ELSE claim # None => p.generation = claim.generation

Acks(S) == {p \in S : p.kind = "ack"}

\* The history of a step that writes the row.
Notes == since' = [p \in Acks(results') |->
    (IF p \in DOMAIN since THEN since[p] ELSE {}) \cup {EntryOf(row')}]

Records(c) == results' = results \cup {calls[c].payload}

\* A grant can be acknowledged once; the entry is projected after the commit.
Acknowledges(c) ==
    LET p == calls[c].payload IN
    /\ p.kind = "ack" /\ Acceptable(p)
    /\ claim' = [state |-> "active", generation |-> p.generation]
    /\ row' = ActiveRow(p.generation, p.declared)
    /\ Records(c) /\ Notes
    /\ calls' = [calls EXCEPT ![c] = [phase |-> "project", payload |-> p]]

RevokedRow == [row EXCEPT !.lifecycle = "revoked", !.aggregate = @ + 1]

\* Also of a grant that was never acknowledged, and of a Claim revoked already.
Revokes(c) ==
    LET p == calls[c].payload IN
    /\ p.kind = "revoke" /\ Acceptable(p)
    /\ claim' = [state |-> "revoked", generation |-> p.generation]
    /\ row' = IF row = None THEN None
              ELSE IF row.generation = p.generation /\ claim.state = "active" THEN RevokedRow ELSE row
    /\ Records(c) /\ Notes
    /\ calls' = [calls EXCEPT ![c] = Idle]

\* Also a grant whose time is over by then.
Refuses(c) ==
    /\ calls[c].payload.kind = "ack" \/ ~Acceptable(calls[c].payload)
    /\ calls' = [calls EXCEPT ![c] = RefusedCall]
    /\ UNCHANGED <<claim, row, results, since>>

Commit(c) ==
    /\ calls[c].phase = "locked"
    /\ IF Reused(calls[c].payload)
       THEN calls' = [calls EXCEPT ![c] = RefusedCall] /\ UNCHANGED <<claim, row, results, since>>
       ELSE IF LockedReplay(c)
       THEN calls' = [calls EXCEPT ![c] = Replayed(c)] /\ UNCHANGED <<claim, row, results, since>>
       ELSE Acknowledges(c) \/ Revokes(c) \/ Refuses(c)
    /\ UNCHANGED <<mutating, directory>>

-----------------------------------------------------------------------------
(* AcceptDeviceManifest: the Claim is read, then the row. *)

AssertManifest(c, g, n) ==
    /\ claim # None /\ claim.state = "active"
    /\ Begin(c, [phase |-> "manifest", generation |-> g, declared |-> n])
    /\ UNCHANGED <<claim, row, results, mutating, directory, since>>

\* Another generation or a revision not after the accepted one ends the call:
\* refused, or unchanged.
ReadForManifest(c) ==
    /\ calls[c].phase = "manifest"
    /\ IF row.generation = calls[c].generation /\ calls[c].declared > row.declared
       THEN calls' = [calls EXCEPT ![c] =
                [phase |-> "commit", expected |-> row, declared |-> @.declared,
                 policy |-> row.policy]]
       ELSE End(c)
    /\ UNCHANGED <<claim, row, results, mutating, directory, since>>

(* UpdateDeviceOutputPolicy: the Owner names the generation and the revision   *)
(* the new policy replaces.  A retry of an applied update changes nothing.     *)

SetPolicy(c, p) ==
    /\ row # None /\ row.lifecycle = "approved"
    /\ row.policy.revision < MaxPolicy
    /\ Begin(c, [phase |-> "commit", expected |-> row, declared |-> row.declared,
                 policy |-> [revision |-> row.policy.revision + 1, allowed |-> p]])
    /\ UNCHANGED <<claim, row, results, mutating, directory, since>>

-----------------------------------------------------------------------------
(* SqlDeviceMutationUnitOfWork.commit *)

\* Mutant: the update is not compared with the row it was read from
CompareNothing(c) ==
    /\ calls[c].phase = "commit"
    /\ mutating = None
    /\ calls' = [calls EXCEPT ![c].phase = "write"]
    /\ mutating' = c
    /\ UNCHANGED <<claim, row, results, directory, since>>

\* The lock is taken and the row read: it must be the row the use case read.
Compare(c) ==
    /\ calls[c].phase = "commit"
    /\ mutating = None
    /\ IF row = calls[c].expected
       THEN /\ calls' = [calls EXCEPT ![c].phase = "write"]
            /\ mutating' = c
       ELSE /\ End(c)
            /\ UNCHANGED mutating
    /\ UNCHANGED <<claim, row, results, directory, since>>

\* Mutant: the whole row is written
WrittenWhole(c) ==
    [calls[c].expected EXCEPT
        !.declared = calls[c].declared,
        !.policy = calls[c].policy,
        !.aggregate = @ + 1]

\* The columns that differ from the row read, the revision column among them.
Written(c) ==
    LET expected == calls[c].expected IN
    [row EXCEPT
        !.declared = IF calls[c].declared = expected.declared THEN @ ELSE calls[c].declared,
        !.policy = IF calls[c].policy = expected.policy THEN @ ELSE calls[c].policy,
        !.aggregate = expected.aggregate + 1]

\* A Manifest is projected once committed; a policy is not in the directory.
Write(c) ==
    /\ calls[c].phase = "write"
    /\ row' = Written(c)
    /\ mutating' = None
    /\ calls' = [calls EXCEPT ![c] =
            IF calls[c].declared = calls[c].expected.declared THEN Idle
            ELSE [phase |-> "project", payload |-> None]]
    /\ UNCHANGED <<claim, results, directory>>
    /\ Notes

-----------------------------------------------------------------------------
(* ProjectDeviceDirectory.execute: the row is read, then the entry is put. *)

ReadForDirectory(c) ==
    /\ calls[c].phase = "project"
    /\ calls' = [calls EXCEPT ![c] = [phase |-> "put", entry |-> EntryOf(row), payload |-> @.payload]]
    /\ UNCHANGED <<claim, row, results, mutating, directory, since>>

PutEntry(c) ==
    /\ calls[c].phase = "put"
    /\ directory' = calls[c].entry
    /\ calls' = [calls EXCEPT ![c] =
            IF @.payload = None THEN Idle ELSE AnsweredCall]
    /\ UNCHANGED <<claim, row, results, mutating, since>>

\* A call is cut off before its next step: cancelled, or failed on the way.
Abandon(c) ==
    /\ CutOff
    /\ calls[c].phase \notin Ended
    /\ End(c)
    /\ mutating' = IF mutating = c THEN None ELSE mutating
    /\ UNCHANGED <<claim, row, results, directory, since>>

\* The process starts again and hydrates the directory before it serves.
Restart ==
    /\ calls' = [c \in Calls |-> Idle]
    /\ mutating' = None
    /\ directory' = IF row = None THEN None ELSE EntryOf(row)
    /\ UNCHANGED <<claim, row, results, since>>

-----------------------------------------------------------------------------
Next ==
    \/ \E c \in Calls, p \in Acknowledgement \cup Revocation : Request(c, p)
    \/ \E c \in Calls, g \in Generations, n \in Declared : AssertManifest(c, g, n)
    \/ \E c \in Calls, p \in Policies : SetPolicy(c, p)
    \/ \E c \in Calls :
        \/ Lookup(c) \/ Commit(c)
        \/ ReadForManifest(c) \/ Compare(c) \/ Write(c)
        \/ ReadForDirectory(c) \/ PutEntry(c) \/ Abandon(c)
    \/ Restart

Spec == Init /\ [][Next]_vars

-----------------------------------------------------------------------------
(* Properties. *)

\* Types; the mutation lock is held by the call that compared and has not written.
TypeOK ==
    /\ claim \in Claim \cup {None}
    /\ row \in DeviceRow \cup {None}
    /\ directory \in Entry \cup {None}
    /\ results \subseteq Acknowledgement \cup Revocation
    /\ calls \in [Calls -> Call]
    /\ mutating \in Calls \cup {None}
    /\ \A c \in Calls : (calls[c].phase = "write") <=> (mutating = c)
    /\ since \in [Acks(results) -> SUBSET Entry]

\* The row says of a device what its Claim says, whichever use case was under way
\* when the Claim changed (ManagedDevice: "Owner-facing projection of one canonical
\* Claim").
RowFollowsClaim ==
    claim # None =>
        IF row = None THEN claim.state = "revoked" ELSE
        /\ row.generation = claim.generation
        /\ row.lifecycle = IF claim.state = "active" THEN "approved" ELSE "revoked"

\* A policy revision is given once: two updates that started from the same policy
\* do not both succeed, and no update goes back (output_policy.py, "an older
\* revision can never widen or roll back the current policy").
PolicyRevisionsCount ==
    [][(row # None /\ row'.policy # row.policy) =>
            row'.policy.revision = row.policy.revision + 1]_vars

\* application.py:204 of device_control, "The signed manifest revision prevents content
\* rollback within it": within a generation the declared revision only grows.
ManifestNeverGoesBack ==
    [][(row # None /\ row'.generation = row.generation) => row'.declared >= row.declared]_vars

\* A command that took effect is never refused to the sender who repeats it, however
\* the attempts overlap (replay, and again under the lock).
CommittedIsNeverRefused ==
    [][\A c \in Calls :
        calls[c].phase # "refused" /\ calls'[c].phase = "refused" =>
            ~Recorded(calls[c].payload)]_vars

\* When an acknowledgement is answered the directory shows the device as its row stood
\* at that commit or has stood since, never as it stood before, also when an earlier
\* attempt was cut off between its commit and its projection and other Claims, of earlier
\* generations too, were committed meanwhile (_project_committed_claim, on the first
\* answer and on every replay).
AnsweredIsShown ==
    [][\A c \in Calls :
        calls[c].phase # "answered" /\ calls'[c].phase = "answered" =>
            directory' \in since[calls[c].payload]]_vars

\* What the directory owes its readers when every call has run to its end.
Quiet == \A c \in Calls : calls[c].phase \in Ended

\* memory.py:11, "SQLite device facts remain authoritative": a device whose row is
\* revoked is not shown as approved.
DirectoryShowsRevocation ==
    (Quiet /\ row # None /\ row.lifecycle = "revoked") => directory.lifecycle = "revoked"

\* application.py:175 of device_control, of "a directory that quietly disagrees with
\* what the device declared": the directory shows the Manifest last accepted.
DirectoryShowsManifest ==
    (Quiet /\ row # None) => directory.declared = row.declared

=============================================================================
