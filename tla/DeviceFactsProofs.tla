-------------------------- MODULE DeviceFactsProofs --------------------------
(***************************************************************************)
(* What the two writers of a device's row owe each other, for every number *)
(* of calls under way and every bound of generations and revisions.        *)
(*                                                                         *)
(* No property is inductive alone.  A unit of work writes over a row that  *)
(* Admission may have changed since the compare, and a projection follows  *)
(* a commit some steps later, so FactsInv says what each call in flight    *)
(* may rely on: the row is there, its policy is the one compared, and what *)
(* a projection has read stood for the row at the commit it will answer    *)
(* for, or since.  Nothing is said of the order of generations: grants are *)
(* acknowledged in any order, and the row's generation may go back.        *)
(***************************************************************************)
EXTENDS DeviceFacts, TLAPS

\* What a call k in flight may rely on while the row is r and its history is h
Relies(k, r, h) ==
    /\ k.phase \in {"manifest", "commit", "write", "project"} => r # None
    /\ k.phase \in {"commit", "write"} =>
          k.policy = k.expected.policy \/ k.policy.revision = k.expected.policy.revision + 1
    /\ k.phase = "write" => r.policy = k.expected.policy
    /\ k.phase \in {"project", "put"} /\ k.payload # None => k.payload \in DOMAIN h
    /\ k.phase = "put" /\ k.payload # None => k.entry \in h[k.payload]

\* A command has one payload, and the row as it stands is the last of every history
ResultsInv ==
    /\ \A p, q \in results : p.kind = q.kind /\ p.command = q.command => p = q
    /\ \A p \in DOMAIN since : row # None /\ EntryOf(row) \in since[p]

FactsInv ==
    /\ TypeOK
    /\ RowFollowsClaim
    /\ claim = None => row = None
    /\ ResultsInv
    /\ \A c \in Calls : Relies(calls[c], row, since)

\* A row stays, and its policy is the one it had
RowGoesOn == row # None => row' # None /\ row'.policy = row.policy

\* What a history holds it goes on holding
HistoryGoesOn == \A p \in DOMAIN since : p \in DOMAIN since' /\ since[p] \subseteq since'[p]

------------------------------------------------------------------------------

LEMMA InitEstablishesInv ==
    ASSUME FactsAssumption, Init
    PROVE  FactsInv
<1>1. since \in [Acks(results) -> SUBSET Entry]
  BY DEF Init, Acks
<1>2. TypeOK
  BY <1>1 DEF FactsAssumption, Init, TypeOK, Call, Ended, Idle
<1>3. QED
  BY <1>2 DEF Init, FactsInv, RowFollowsClaim, ResultsInv, Relies, Idle

\* A step that writes the row adds the row written to every history
LEMMA NotesGoOn ==
    ASSUME FactsInv, Notes, results \subseteq results',
           row' \in DeviceRow \/ Acks(results') = {}
    PROVE  /\ since' \in [Acks(results') -> SUBSET Entry]
           /\ HistoryGoesOn
           /\ \A p \in DOMAIN since' : row' \in DeviceRow /\ EntryOf(row)' \in since'[p]
<1>1. since \in [Acks(results) -> SUBSET Entry]
  BY DEF FactsInv, TypeOK
<1>2. Acks(results) \subseteq Acks(results')
  BY DEF Acks
<1>3. row' \in DeviceRow => EntryOf(row') \in Entry
  BY DEF EntryOf, Entry, DeviceRow
<1>4. ASSUME NEW p \in Acks(results')
      PROVE  (IF p \in DOMAIN since THEN since[p] ELSE {}) \cup {EntryOf(row')} \in SUBSET Entry
  BY <1>1, <1>3
<1>5. QED
  BY <1>1, <1>2, <1>4 DEF Notes, HistoryGoesOn, EntryOf

\* A call that relied on the row before a step of another call relies on it after
LEMMA OthersRely ==
    ASSUME FactsAssumption, FactsInv, HistoryGoesOn,
           NEW d \in Calls,
           row # None => row' # None,
           calls[d].phase = "write" => row'.policy = row.policy
    PROVE  Relies(calls[d], row', since')
<1>1. calls[d] \in Call /\ Relies(calls[d], row, since)
  BY DEF FactsInv, TypeOK
<1>2. QED
  BY <1>1 DEF Relies, HistoryGoesOn

\* A call goes on to k, and the row stays what the others rely on
LEMMA OneCallMoves ==
    ASSUME FactsAssumption, FactsInv, HistoryGoesOn,
           NEW c \in Calls, NEW k, calls' = [calls EXCEPT ![c] = k],
           k \in Call, Relies(k, row', since'), RowGoesOn
    PROVE  /\ calls' \in [Calls -> Call]
           /\ \A d \in Calls : Relies(calls[d], row, since)'
<1>1. calls \in [Calls -> Call]
  BY DEF FactsInv, TypeOK
<1>2. calls' \in [Calls -> Call]
  BY <1>1
<1>3. ASSUME NEW d \in Calls
      PROVE  Relies(calls'[d], row', since')
  <2>1. CASE d = c
    BY <1>1, <2>1
  <2>2. CASE d # c
    <3>1. calls[d].phase = "write" => row # None
      BY DEF FactsInv, Relies
    <3>2. Relies(calls[d], row', since')
      BY <3>1, OthersRely DEF RowGoesOn
    <3>3. QED
      BY <1>1, <2>2, <3>2
  <2>3. QED
    BY <2>1, <2>2
<1>4. QED
  BY <1>2, <1>3 DEF Relies

\* A step of one call that leaves Claim, row, results and lock alone
LEMMA CallGoesOn ==
    ASSUME FactsAssumption, FactsInv, NEW c \in Calls, NEW k,
           calls' = [calls EXCEPT ![c] = k], k \in Call, Relies(k, row, since),
           k.phase # "write", calls[c].phase # "write",
           UNCHANGED <<claim, row, results, mutating, since>>,
           directory' \in Entry \cup {None}
    PROVE  FactsInv'
<1>1. /\ calls \in [Calls -> Call]
      /\ row \in DeviceRow \cup {None} /\ claim \in Claim \cup {None}
      /\ results \subseteq Acknowledgement \cup Revocation
      /\ mutating \in Calls \cup {None}
      /\ \A d \in Calls : (calls[d].phase = "write") <=> (mutating = d)
      /\ since \in [Acks(results) -> SUBSET Entry]
  BY DEF FactsInv, TypeOK
<1>2. RowGoesOn /\ HistoryGoesOn
  BY <1>1 DEF RowGoesOn, HistoryGoesOn
<1>3. calls' \in [Calls -> Call] /\ \A d \in Calls : Relies(calls[d], row, since)'
  BY <1>1, <1>2, OneCallMoves
<1>4. \A d \in Calls : (calls'[d].phase = "write") <=> (mutating' = d)
  BY <1>1
<1>5. TypeOK'
  BY <1>1, <1>3, <1>4 DEF TypeOK, Acks
<1>6. ResultsInv'
  BY DEF FactsInv, ResultsInv, EntryOf
<1>7. QED
  BY <1>3, <1>5, <1>6 DEF FactsInv, RowFollowsClaim

\* What a replayed command goes on with: the history of its commit is there
LEMMA ReplayedRelies ==
    ASSUME FactsInv, NEW c \in Calls,
           calls[c].payload \in Acknowledgement \cup Revocation,
           Recorded(calls[c].payload)
    PROVE  /\ Replayed(c) \in Call
           /\ Relies(Replayed(c), row, since)
           /\ Replayed(c).phase \in {"project", "idle"}
<1>1. CASE calls[c].payload.kind = "ack"
  <2>1. calls[c].payload \in Acknowledgement /\ calls[c].payload \in Acks(results)
    BY <1>1 DEF Acknowledgement, Revocation, Recorded, Acks
  <2>2. calls[c].payload \in DOMAIN since /\ row # None
    BY <2>1 DEF FactsInv, TypeOK, ResultsInv
  <2>3. QED
    BY <1>1, <2>1, <2>2 DEF Replayed, Call, Relies
<1>2. CASE calls[c].payload.kind # "ack"
  BY <1>2 DEF Replayed, Call, Relies, Idle, Ended
<1>3. QED
  BY <1>1, <1>2

\* The steps of a call before and after its commit change nothing another relies on
LEMMA CallsKeepInv ==
    ASSUME FactsAssumption, FactsInv, NEW c \in Calls,
           \/ \E p \in Acknowledgement \cup Revocation : Request(c, p)
           \/ \E g \in Generations, n \in Declared : AssertManifest(c, g, n)
           \/ \E p \in Policies : SetPolicy(c, p)
           \/ Lookup(c) \/ ReadForManifest(c) \/ ReadForDirectory(c) \/ PutEntry(c)
    PROVE  FactsInv'
<1>0. /\ calls[c] \in Call
      /\ row \in DeviceRow \cup {None} /\ claim \in Claim \cup {None}
      /\ results \subseteq Acknowledgement \cup Revocation
      /\ directory \in Entry \cup {None}
      /\ Relies(calls[c], row, since)
  BY DEF FactsInv, TypeOK
<1>1. ASSUME NEW p \in Acknowledgement \cup Revocation, Request(c, p)
      PROVE  FactsInv'
  <2> DEFINE k == [phase |-> "lookup", payload |-> p]
  <2>1. k \in Call /\ Relies(k, row, since)
    BY DEF Call, Relies
  <2> HIDE DEF k
  <2>2. k.phase = "lookup"
    BY DEF k
  <2>3. calls' = [calls EXCEPT ![c] = k] /\ calls[c].phase \in Ended
    BY <1>1 DEF Request, Begin, k
  <2>4. QED
    BY <1>0, <1>1, <2>1, <2>2, <2>3, CallGoesOn DEF Request, Ended
<1>2. ASSUME NEW g \in Generations, NEW n \in Declared, AssertManifest(c, g, n)
      PROVE  FactsInv'
  <2> DEFINE k == [phase |-> "manifest", generation |-> g, declared |-> n]
  <2>1. row # None
    BY <1>2 DEF AssertManifest, FactsInv, RowFollowsClaim
  <2>2. k \in Call /\ Relies(k, row, since)
    BY <2>1 DEF Call, Relies
  <2> HIDE DEF k
  <2>3. k.phase = "manifest"
    BY DEF k
  <2>4. calls' = [calls EXCEPT ![c] = k] /\ calls[c].phase \in Ended
    BY <1>2 DEF AssertManifest, Begin, k
  <2>5. QED
    BY <1>0, <1>2, <2>2, <2>3, <2>4, CallGoesOn DEF AssertManifest, Ended
<1>3. ASSUME NEW p \in Policies, SetPolicy(c, p)
      PROVE  FactsInv'
  <2> DEFINE k == [phase |-> "commit", expected |-> row, declared |-> row.declared,
                   policy |-> [revision |-> row.policy.revision + 1, allowed |-> p]]
  <2>1. row \in DeviceRow /\ row.policy.revision < MaxPolicy
    BY <1>0, <1>3 DEF SetPolicy
  <2>2. row.policy.revision + 1 \in 1..MaxPolicy /\ row.declared \in Declared
    BY <2>1 DEF DeviceRow, Policy, NoPolicy, FactsAssumption
  <2>3. k \in Call /\ Relies(k, row, since)
    BY <2>1, <2>2, FactsAssumption DEF Call, Relies, Policy, FactsAssumption
  <2> HIDE DEF k
  <2>4. k.phase = "commit"
    BY DEF k
  <2>5. calls' = [calls EXCEPT ![c] = k] /\ calls[c].phase \in Ended
    BY <1>3 DEF SetPolicy, Begin, k
  <2>6. QED
    BY <1>0, <1>3, <2>3, <2>4, <2>5, CallGoesOn DEF SetPolicy, Ended
<1>4. ASSUME Lookup(c)
      PROVE  FactsInv'
  <2> DEFINE k == IF Reused(calls[c].payload) THEN RefusedCall
                  ELSE IF Recorded(calls[c].payload) THEN Replayed(c)
                  ELSE [calls[c] EXCEPT !.phase = "locked"]
  <2>1. /\ calls[c].phase = "lookup"
        /\ calls' = [calls EXCEPT ![c] = k]
    BY <1>4 DEF Lookup
  <2>2. calls[c].payload \in Acknowledgement \cup Revocation
        /\ calls[c] = [phase |-> "lookup", payload |-> calls[c].payload]
    BY <1>0, <2>1 DEF Call, Ended
  <2>3. k \in Call /\ Relies(k, row, since) /\ k.phase # "write"
    <3>1. CASE Reused(calls[c].payload)
      BY <3>1 DEF Call, Ended, Relies, RefusedCall
    <3>2. CASE ~Reused(calls[c].payload) /\ Recorded(calls[c].payload)
      BY <2>2, <3>2, ReplayedRelies
    <3>3. CASE ~Reused(calls[c].payload) /\ ~Recorded(calls[c].payload)
      <4>1. k = [phase |-> "locked", payload |-> calls[c].payload]
        BY <2>2, <3>3
      <4>2. QED
        BY <2>2, <4>1 DEF Call, Relies
    <3>4. QED
      BY <3>1, <3>2, <3>3
  <2> HIDE DEF k
  <2>4. QED
    BY <1>0, <1>4, <2>1, <2>3, CallGoesOn DEF Lookup
<1>5. ASSUME ReadForManifest(c)
      PROVE  FactsInv'
  <2>1. /\ calls[c].phase = "manifest"
        /\ calls[c].declared \in Declared
        /\ row \in DeviceRow
    BY <1>0, <1>5 DEF ReadForManifest, Call, Ended, Relies
  <2>2. CASE calls' = [calls EXCEPT ![c] = Idle]
    <3>1. Idle \in Call /\ Relies(Idle, row, since) /\ Idle.phase # "write"
      BY DEF Idle, Call, Ended, Relies
    <3>2. QED
      BY <1>0, <1>5, <2>1, <2>2, <3>1, CallGoesOn DEF ReadForManifest
  <2> DEFINE k == [phase |-> "commit", expected |-> row, declared |-> calls[c].declared,
                   policy |-> row.policy]
  <2>3. CASE calls' = [calls EXCEPT ![c] = k]
    <3>1. k \in Call /\ Relies(k, row, since) /\ k.phase # "write"
      BY <2>1, FactsAssumption DEF Call, Relies, DeviceRow, FactsAssumption
    <3> HIDE DEF k
    <3>2. QED
      BY <1>0, <1>5, <2>1, <2>3, <3>1, CallGoesOn DEF ReadForManifest
  <2>4. QED
    BY <1>5, <2>2, <2>3 DEF ReadForManifest, End
<1>6. ASSUME ReadForDirectory(c)
      PROVE  FactsInv'
  <2> DEFINE k == [phase |-> "put", entry |-> EntryOf(row), payload |-> calls[c].payload]
  <2>1. /\ calls[c].phase = "project"
        /\ calls' = [calls EXCEPT ![c] = k]
    BY <1>6 DEF ReadForDirectory
  <2>2. /\ calls[c].payload \in Acknowledgement \cup {None}
        /\ row \in DeviceRow
        /\ calls[c].payload # None => calls[c].payload \in DOMAIN since
    BY <1>0, <2>1 DEF Call, Ended, Relies
  <2>3. /\ EntryOf(row) \in Entry
        /\ calls[c].payload # None => EntryOf(row) \in since[calls[c].payload]
    BY <2>2 DEF EntryOf, Entry, DeviceRow, FactsInv, ResultsInv
  <2>4. k \in Call /\ Relies(k, row, since) /\ k.phase # "write"
    BY <1>0, <2>1, <2>2, <2>3 DEF Call, Relies
  <2> HIDE DEF k
  <2>5. QED
    BY <1>0, <1>6, <2>1, <2>4, CallGoesOn DEF ReadForDirectory
<1>7. ASSUME PutEntry(c)
      PROVE  FactsInv'
  <2> DEFINE k == IF calls[c].payload = None THEN Idle ELSE AnsweredCall
  <2>1. /\ calls[c].phase = "put"
        /\ calls' = [calls EXCEPT ![c] = k]
        /\ directory' = calls[c].entry
    BY <1>7 DEF PutEntry
  <2>2. calls[c].entry \in Entry
    BY <1>0, <2>1 DEF Call, Ended
  <2>3. k \in Call /\ Relies(k, row, since) /\ k.phase # "write"
    BY DEF Call, Relies, Ended, Idle, AnsweredCall
  <2> HIDE DEF k
  <2>4. QED
    BY <1>0, <1>7, <2>1, <2>2, <2>3, CallGoesOn DEF PutEntry
<1>8. QED
  BY <1>1, <1>2, <1>3, <1>4, <1>5, <1>6, <1>7

\* An acknowledgement or a revocation commits a payload p: the call goes on to k, the
\* row goes on, and every history has the row
LEMMA CommitsKeepInv ==
    ASSUME FactsAssumption, FactsInv, NEW c \in Calls, NEW k,
           NEW p \in Acknowledgement \cup Revocation,
           ~Reused(p), ~Recorded(p), calls[c].phase = "locked",
           calls' = [calls EXCEPT ![c] = k],
           k \in Call, k.phase # "write", Relies(k, row', since'),
           claim' \in Claim, RowFollowsClaim', RowGoesOn,
           row' \in DeviceRow \/ (row' = None /\ Acks(results') = {}),
           results' = results \cup {p}, Notes, UNCHANGED <<mutating, directory>>
    PROVE  FactsInv'
<1>1. /\ calls \in [Calls -> Call]
      /\ row \in DeviceRow \cup {None}
      /\ results \subseteq Acknowledgement \cup Revocation
      /\ mutating \in Calls \cup {None} /\ directory \in Entry \cup {None}
      /\ \A d \in Calls : (calls[d].phase = "write") <=> (mutating = d)
  BY DEF FactsInv, TypeOK
<1>2. /\ since' \in [Acks(results') -> SUBSET Entry]
      /\ HistoryGoesOn
      /\ \A q \in DOMAIN since' : row' \in DeviceRow /\ EntryOf(row)' \in since'[q]
  BY NotesGoOn
<1>3. calls' \in [Calls -> Call] /\ \A d \in Calls : Relies(calls[d], row, since)'
  BY <1>2, OneCallMoves
<1>4. \A d \in Calls : (calls'[d].phase = "write") <=> (mutating' = d)
  BY <1>1
<1>5. TypeOK'
  BY <1>1, <1>2, <1>3, <1>4 DEF TypeOK, Acks
<1>6. claim' # None
  BY DEF FactsAssumption
<1>7. \A q, r \in results' : q.kind = r.kind /\ q.command = r.command => q = r
  BY DEF FactsInv, ResultsInv, Reused
<1>8. ResultsInv'
  BY <1>2, <1>7, FactsAssumption DEF ResultsInv, FactsAssumption
<1>9. QED
  BY <1>3, <1>5, <1>6, <1>8 DEF FactsInv

\* The Claim and the row change together: activated, revoked, or neither
LEMMA CommitKeepsInv ==
    ASSUME FactsAssumption, FactsInv, NEW c \in Calls, Commit(c)
    PROVE  FactsInv'
<1> DEFINE p == calls[c].payload
<1>1. /\ calls[c] \in Call
      /\ row \in DeviceRow \cup {None} /\ claim \in Claim \cup {None}
      /\ directory \in Entry \cup {None}
  BY DEF FactsInv, TypeOK
<1>2. calls[c].phase = "locked" /\ UNCHANGED <<mutating, directory>>
  BY DEF Commit
<1>3. p \in Acknowledgement \cup Revocation
  BY <1>1, <1>2 DEF Call, Ended
<1>4. /\ p.generation \in Generations /\ p.generation \in Nat
      /\ p.kind = "ack" => p.declared \in Declared
      /\ row # None => row.generation \in Nat /\ claim # None /\ row.generation = claim.generation
  BY <1>1, <1>3, FactsAssumption
  DEF Acknowledgement, Revocation, Generations, DeviceRow, FactsAssumption, FactsInv, RowFollowsClaim
<1>5. RefusedCall \in Call /\ Relies(RefusedCall, row, since) /\ RefusedCall.phase # "write"
  BY DEF RefusedCall, Call, Ended, Relies
<1>6. CASE Reused(p) \/ Refuses(c)
  BY <1>1, <1>2, <1>5, <1>6, CallGoesOn DEF Commit, Refuses, Acknowledges, Revokes
<1>7. CASE ~Reused(p) /\ Recorded(p)
  <2>1. calls' = [calls EXCEPT ![c] = Replayed(c)] /\ UNCHANGED <<claim, row, results, since>>
    BY <1>7 DEF Commit, LockedReplay
  <2>2. QED
    BY <1>1, <1>2, <1>3, <1>7, <2>1, ReplayedRelies, CallGoesOn
<1>8. CASE ~Reused(p) /\ ~Recorded(p) /\ Acknowledges(c)
  <2> DEFINE k == [phase |-> "project", payload |-> p]
  <2>1. /\ p.kind = "ack" /\ p \in Acknowledgement
        /\ claim' = [state |-> "active", generation |-> p.generation]
        /\ row' = ActiveRow(p.generation, p.declared)
        /\ results' = results \cup {p}
        /\ calls' = [calls EXCEPT ![c] = k] /\ Notes
    BY <1>3, <1>8 DEF Acknowledges, Records, Acknowledgement, Revocation
  <2>2. row' \in DeviceRow
    BY <1>1, <1>4, <2>1 DEF ActiveRow, DeviceRow
  <2>3. row' # None /\ claim' # None /\ claim' \in Claim
    BY <1>4, <2>1, <2>2, FactsAssumption DEF FactsAssumption, Claim
  <2>4. row'.generation = p.generation /\ row'.lifecycle = "approved"
        /\ (row # None => row'.policy = row.policy)
    BY <2>1 DEF ActiveRow
  <2>5. RowGoesOn
    BY <2>3, <2>4 DEF RowGoesOn
  <2>6. RowFollowsClaim'
    BY <2>1, <2>3, <2>4 DEF RowFollowsClaim
  <2>7. p \in DOMAIN since'
    BY <2>1 DEF Notes, Acks
  <2>8. k \in Call /\ k.phase # "write" /\ Relies(k, row', since')
    BY <2>1, <2>3, <2>7 DEF Call, Relies
  <2> HIDE DEF k, p
  <2>9. QED
    BY <1>2, <1>3, <1>8, <2>1, <2>2, <2>3, <2>5, <2>6, <2>8, CommitsKeepInv DEF p
<1>9. CASE ~Reused(p) /\ ~Recorded(p) /\ Revokes(c)
  <2>1. /\ p.kind = "revoke" /\ Acceptable(p)
        /\ claim' = [state |-> "revoked", generation |-> p.generation]
        /\ row' = IF row = None THEN None
                  ELSE IF row.generation = p.generation /\ claim.state = "active"
                       THEN RevokedRow ELSE row
        /\ results' = results \cup {p}
        /\ calls' = [calls EXCEPT ![c] = Idle] /\ Notes
    BY <1>3, <1>9 DEF Revokes, Records, Acknowledgement, Revocation
  <2>2. /\ Idle \in Call /\ Idle.phase # "write" /\ Relies(Idle, row', since')
        /\ claim' \in Claim /\ claim' # None
    BY <1>4, <2>1, FactsAssumption DEF Idle, Call, Ended, Relies, Claim, FactsAssumption
  <2>3. CASE row = None
    <3>1. row' = None /\ RowGoesOn /\ RowFollowsClaim' /\ Acks(results') = {}
      BY <2>1, <2>3 DEF RowGoesOn, RowFollowsClaim, Acks, FactsInv, ResultsInv, TypeOK
    <3>2. QED
      BY <1>2, <1>3, <1>9, <2>1, <2>2, <3>1, CommitsKeepInv
  <2>4. CASE row # None
    <3>1. /\ row \in DeviceRow /\ claim # None
          /\ p.generation = claim.generation /\ row.generation = claim.generation
          /\ row.lifecycle = IF claim.state = "active" THEN "approved" ELSE "revoked"
          /\ claim.state \in {"active", "revoked"}
      BY <1>1, <1>4, <2>1, <2>4 DEF Acceptable, FactsInv, RowFollowsClaim, Claim
    <3>2. /\ row' \in DeviceRow
          /\ row'.generation = row.generation /\ row'.policy = row.policy
          /\ row'.lifecycle = "revoked"
      <4>1. CASE claim.state = "active"
        <5>1. row' = [row EXCEPT !.lifecycle = "revoked", !.aggregate = row.aggregate + 1]
          BY <2>1, <2>4, <3>1, <4>1 DEF RevokedRow
        <5>2. row.aggregate + 1 \in Nat
          BY <3>1 DEF DeviceRow
        <5>3. QED
          BY <3>1, <5>1, <5>2 DEF DeviceRow
      <4>2. CASE claim.state # "active"
        BY <2>1, <2>4, <3>1, <4>2
      <4>3. QED
        BY <4>1, <4>2
    <3>3. row' # None
      BY <3>2, FactsAssumption DEF FactsAssumption
    <3>4. RowGoesOn /\ RowFollowsClaim'
      BY <1>4, <2>1, <2>4, <3>1, <3>2, <3>3 DEF RowGoesOn, RowFollowsClaim
    <3>5. QED
      BY <1>2, <1>3, <1>9, <2>1, <2>2, <3>2, <3>4, CommitsKeepInv
  <2>5. QED
    BY <2>3, <2>4
<1>10. QED
  BY <1>6, <1>7, <1>8, <1>9 DEF Commit, LockedReplay

\* The lock is taken for a row whose policy is the one compared
LEMMA CompareKeepsInv ==
    ASSUME FactsAssumption, FactsInv, NEW c \in Calls, Compare(c)
    PROVE  FactsInv'
<1>1. /\ calls \in [Calls -> Call] /\ calls[c].phase = "commit" /\ mutating = None
      /\ row \in DeviceRow \cup {None} /\ directory \in Entry \cup {None}
      /\ \A d \in Calls : (calls[d].phase = "write") <=> (mutating = d)
      /\ UNCHANGED <<claim, row, results, directory, since>>
      /\ Relies(calls[c], row, since)
  BY DEF FactsInv, TypeOK, Compare
<1>2. CASE row = calls[c].expected
  <2> DEFINE k == [calls[c] EXCEPT !.phase = "write"]
  <2>1. calls' = [calls EXCEPT ![c] = k] /\ mutating' = c
    BY <1>2 DEF Compare
  <2>2. /\ calls[c].expected \in DeviceRow /\ calls[c].declared \in Declared
        /\ calls[c].policy \in Policy \cup {NoPolicy}
        /\ k = [phase |-> "write", expected |-> calls[c].expected,
                declared |-> calls[c].declared, policy |-> calls[c].policy]
    BY <1>1 DEF Call, Ended
  <2>3. k \in Call /\ Relies(k, row', since') /\ k.phase = "write"
    BY <1>1, <1>2, <2>2 DEF Call, Relies
  <2> HIDE DEF k
  <2>4. RowGoesOn /\ HistoryGoesOn
    BY <1>1 DEF RowGoesOn, HistoryGoesOn
  <2>5. calls' \in [Calls -> Call] /\ \A d \in Calls : Relies(calls[d], row, since)'
    BY <1>1, <2>1, <2>3, <2>4, OneCallMoves
  <2>6. \A d \in Calls : (calls'[d].phase = "write") <=> (mutating' = d)
    BY <1>1, <2>1, <2>3, FactsAssumption DEF FactsAssumption
  <2>7. TypeOK'
    BY <1>1, <2>1, <2>5, <2>6 DEF TypeOK, FactsInv, Acks
  <2>8. QED
    BY <1>1, <2>5, <2>7 DEF FactsInv, RowFollowsClaim, ResultsInv, EntryOf
<1>3. CASE row # calls[c].expected
  <2>1. Idle \in Call /\ Relies(Idle, row, since) /\ Idle.phase # "write"
    BY DEF Idle, Call, Ended, Relies
  <2>2. calls' = [calls EXCEPT ![c] = Idle] /\ UNCHANGED mutating
    BY <1>3 DEF Compare, End
  <2>3. QED
    BY <1>1, <2>1, <2>2, CallGoesOn
<1>4. QED
  BY <1>2, <1>3

\* What a unit of work writes: the columns it changed, over the row as it is by now
LEMMA WrittenRow ==
    ASSUME FactsAssumption, FactsInv, NEW c \in Calls, calls[c].phase = "write"
    PROVE  /\ row \in DeviceRow /\ Written(c) \in DeviceRow
           /\ Written(c).generation = row.generation
           /\ Written(c).lifecycle = row.lifecycle
           /\ \/ Written(c).policy = row.policy
              \/ Written(c).policy.revision = row.policy.revision + 1
<1>1. /\ calls[c] \in Call /\ Relies(calls[c], row, since) /\ row \in DeviceRow
  BY DEF FactsInv, TypeOK, Relies
<1>2. /\ calls[c].expected \in DeviceRow /\ calls[c].declared \in Declared
      /\ calls[c].policy \in Policy \cup {NoPolicy}
  BY <1>1 DEF Call, Ended
<1>3. calls[c].expected.aggregate + 1 \in Nat
  BY <1>2 DEF DeviceRow
<1>4. QED
  BY <1>1, <1>2, <1>3 DEF Written, DeviceRow, Relies

LEMMA WriteKeepsInv ==
    ASSUME FactsAssumption, FactsInv, NEW c \in Calls, Write(c)
    PROVE  FactsInv'
<1> DEFINE k == IF calls[c].declared = calls[c].expected.declared THEN Idle
                ELSE [phase |-> "project", payload |-> None]
<1>1. /\ calls \in [Calls -> Call] /\ calls[c].phase = "write" /\ mutating = c
      /\ \A d \in Calls : (calls[d].phase = "write") <=> (mutating = d)
      /\ directory \in Entry \cup {None} /\ row' = Written(c) /\ mutating' = None
      /\ calls' = [calls EXCEPT ![c] = k] /\ UNCHANGED <<claim, results, directory>> /\ Notes
  BY DEF FactsInv, TypeOK, Write
<1>2. /\ row \in DeviceRow /\ row' \in DeviceRow
      /\ row'.generation = row.generation /\ row'.lifecycle = row.lifecycle
  BY <1>1, WrittenRow
<1>3. row # None /\ row' # None
  BY <1>2, FactsAssumption DEF FactsAssumption
<1>4. k \in Call /\ Relies(k, row', since') /\ k.phase # "write"
  BY <1>3 DEF Call, Relies, Idle, Ended
<1> HIDE DEF k
<1>5. /\ since' \in [Acks(results') -> SUBSET Entry]
      /\ HistoryGoesOn
      /\ \A p \in DOMAIN since' : row' \in DeviceRow /\ EntryOf(row)' \in since'[p]
  BY <1>1, <1>2, NotesGoOn
<1>6. ASSUME NEW d \in Calls
      PROVE  Relies(calls'[d], row', since')
  <2>1. CASE d = c
    BY <1>1, <1>4, <2>1
  <2>2. CASE d # c
    <3>1. calls[d].phase # "write"
      BY <1>1, <2>2
    <3>2. Relies(calls[d], row', since')
      BY <1>3, <1>5, <3>1, OthersRely
    <3>3. QED
      BY <1>1, <2>2, <3>2
  <2>3. QED
    BY <2>1, <2>2
<1>7. calls' \in [Calls -> Call]
  BY <1>1, <1>4
<1>8. \A d \in Calls : (calls'[d].phase = "write") <=> (mutating' = d)
  BY <1>1, <1>4, FactsAssumption DEF FactsAssumption
<1>9. TypeOK'
  BY <1>1, <1>2, <1>5, <1>7, <1>8 DEF TypeOK, FactsInv, Acks
<1>10. RowFollowsClaim'
  BY <1>1, <1>2, <1>3 DEF FactsInv, RowFollowsClaim
<1>11. ResultsInv' /\ claim' # None
  BY <1>1, <1>3, <1>5 DEF FactsInv, ResultsInv
<1>12. QED
  BY <1>6, <1>9, <1>10, <1>11 DEF FactsInv

\* A call that is cut off lets go of the lock; a start forgets all calls
LEMMA CutOffKeepsInv ==
    ASSUME FactsAssumption, FactsInv,
           Restart \/ \E c \in Calls : Abandon(c)
    PROVE  FactsInv'
<1>1. /\ calls \in [Calls -> Call] /\ mutating \in Calls \cup {None}
      /\ row \in DeviceRow \cup {None} /\ directory \in Entry \cup {None}
      /\ \A d \in Calls : (calls[d].phase = "write") <=> (mutating = d)
      /\ UNCHANGED <<claim, row, results, since>>
  BY DEF FactsInv, TypeOK, Restart, Abandon
<1>2. \A r, h : Idle \in Call /\ Relies(Idle, r, h) /\ Idle.phase # "write"
  BY DEF Idle, Call, Ended, Relies
<1>3. CASE Restart
  <2>1. calls' = [c \in Calls |-> Idle] /\ mutating' = None /\ directory' \in Entry \cup {None}
    BY <1>1, <1>3 DEF Restart, EntryOf, Entry, DeviceRow
  <2>2. TypeOK'
    BY <1>1, <1>2, <2>1, FactsAssumption DEF TypeOK, FactsInv, FactsAssumption, Acks
  <2>3. QED
    BY <1>1, <1>2, <2>1, <2>2 DEF FactsInv, RowFollowsClaim, ResultsInv, EntryOf
<1>4. ASSUME NEW c \in Calls, Abandon(c)
      PROVE  FactsInv'
  <2>1. /\ calls' = [calls EXCEPT ![c] = Idle] /\ UNCHANGED directory
        /\ mutating' = IF mutating = c THEN None ELSE mutating
    BY <1>4 DEF Abandon, End
  <2>2. RowGoesOn /\ HistoryGoesOn
    BY <1>1 DEF RowGoesOn, HistoryGoesOn
  <2>3. calls' \in [Calls -> Call] /\ \A d \in Calls : Relies(calls[d], row, since)'
    BY <1>1, <1>2, <2>1, <2>2, OneCallMoves
  <2>4. \A d \in Calls : (calls'[d].phase = "write") <=> (mutating' = d)
    BY <1>1, <1>2, <2>1, FactsAssumption DEF FactsAssumption
  <2>5. TypeOK'
    BY <1>1, <2>1, <2>3, <2>4 DEF TypeOK, FactsInv, Acks
  <2>6. QED
    BY <1>1, <2>3, <2>5 DEF FactsInv, RowFollowsClaim, ResultsInv, EntryOf
<1>5. QED
  BY <1>3, <1>4

LEMMA NextKeepsInv ==
    ASSUME FactsAssumption, FactsInv, [Next]_vars
    PROVE  FactsInv'
<1>1. CASE UNCHANGED vars
  BY <1>1 DEF vars, FactsInv, TypeOK, RowFollowsClaim, ResultsInv, Relies, Acks, EntryOf
<1>2. CASE Next
  BY <1>2, CallsKeepInv, CommitKeepsInv, CompareKeepsInv, WriteKeepsInv, CutOffKeepsInv DEF Next
<1>3. QED
  BY <1>1, <1>2

\* Only a lookup or a commit refuses a call, only the end of a projection answers one
LEMMA WhoEnds ==
    ASSUME FactsInv, [Next]_vars, NEW c \in Calls, calls'[c].phase # calls[c].phase
    PROVE  /\ calls'[c].phase = "refused" => Lookup(c) \/ Commit(c)
           /\ calls'[c].phase = "answered" => PutEntry(c)
<1> DEFINE Goal == /\ calls'[c].phase = "refused" => Lookup(c) \/ Commit(c)
                   /\ calls'[c].phase = "answered" => PutEntry(c)
<1>1. calls \in [Calls -> Call]
  BY DEF FactsInv, TypeOK
<1>2. CASE Restart
  BY <1>1, <1>2 DEF Restart, Idle
<1>3. ASSUME NEW d \in Calls, NEW k, calls' = [calls EXCEPT ![d] = k],
             k.phase \notin {"refused", "answered"}
      PROVE  Goal
  BY <1>1, <1>3
<1> HIDE DEF Goal
<1>4. ASSUME NEW d \in Calls,
             \/ \E p \in Acknowledgement \cup Revocation : Request(d, p)
             \/ \E g \in Generations, n \in Declared : AssertManifest(d, g, n)
             \/ \E p \in Policies : SetPolicy(d, p)
             \/ ReadForDirectory(d)
      PROVE  Goal
  <2>1. PICK k : calls' = [calls EXCEPT ![d] = k] /\ k.phase \notin {"refused", "answered"}
    BY <1>4, Zenon DEF Request, AssertManifest, SetPolicy, ReadForDirectory, Begin
  <2>2. QED
    BY <1>3, <2>1
<1>5. ASSUME NEW d \in Calls, ReadForManifest(d) \/ Compare(d) \/ Write(d) \/ Abandon(d)
      PROVE  Goal
  <2>1. Idle.phase = "idle"
    BY DEF Idle
  <2>2. /\ ReadForManifest(d) => calls[d].phase = "manifest"
        /\ Compare(d) => calls[d].phase = "commit"
    BY DEF ReadForManifest, Compare
  <2>3. PICK k : calls' = [calls EXCEPT ![d] = k]
                 /\ k.phase \in {"idle", "commit", "write", "project"}
    <3>1. CASE ReadForManifest(d)
      BY <2>1, <3>1 DEF ReadForManifest, End
    <3>2. CASE Compare(d)
      <4>1. "phase" \in DOMAIN calls[d]
        BY <1>1, <2>2, <3>2 DEF Call, Ended
      <4>2. [calls[d] EXCEPT !.phase = "write"].phase = "write"
        BY <4>1
      <4>3. QED
        BY <2>1, <3>2, <4>2 DEF Compare, End
    <3>3. CASE Write(d)
      <4>1. calls' = [calls EXCEPT ![d] = Idle]
            \/ calls' = [calls EXCEPT ![d] = [phase |-> "project", payload |-> None]]
        BY <3>3 DEF Write
      <4>2. QED
        BY <2>1, <4>1
    <3>4. CASE Abandon(d)
      BY <2>1, <3>4 DEF Abandon, End
    <3>5. QED
      BY <1>5, <3>1, <3>2, <3>3, <3>4
  <2>4. QED
    BY <1>3, <2>3
<1>6. ASSUME NEW d \in Calls, Lookup(d) \/ Commit(d)
      PROVE  Goal
  <2>1. Idle.phase = "idle" /\ RefusedCall.phase = "refused"
        /\ Replayed(d).phase \in {"idle", "project"}
    BY DEF Idle, RefusedCall, Replayed
  <2>2. PICK k : calls' = [calls EXCEPT ![d] = k] /\ k.phase # "answered"
    <3>1. CASE Lookup(d)
      <4>1. "phase" \in DOMAIN calls[d]
        BY <1>1, <3>1 DEF Lookup, Call, Ended
      <4>2. [calls[d] EXCEPT !.phase = "locked"].phase = "locked"
        BY <4>1
      <4>3. QED
        BY <2>1, <3>1, <4>2 DEF Lookup
    <3>2. CASE Commit(d)
      BY <2>1, <3>2 DEF Commit, Acknowledges, Revokes, Refuses
    <3>3. QED
      BY <1>6, <3>1, <3>2
  <2>3. d # c => calls'[c] = calls[c]
    BY <1>1, <2>2
  <2>4. QED
    BY <1>1, <1>6, <2>2, <2>3 DEF Goal
<1>7. ASSUME NEW d \in Calls, PutEntry(d)
      PROVE  Goal
  <2>1. Idle.phase = "idle" /\ AnsweredCall.phase = "answered"
    BY DEF Idle, AnsweredCall
  <2>2. PICK k : calls' = [calls EXCEPT ![d] = k] /\ k.phase # "refused"
    BY <1>7, <2>1 DEF PutEntry
  <2>3. d # c => calls'[c] = calls[c]
    BY <1>1, <2>2
  <2>4. QED
    BY <1>1, <1>7, <2>2, <2>3 DEF Goal
<1>8. QED
  BY <1>2, <1>4, <1>5, <1>6, <1>7 DEF Next, vars, Goal

------------------------------------------------------------------------------

\* The inductive invariant: types, the row and its Claim, and what calls rely on
THEOREM FactsInvariant == Spec => []FactsInv
<1>1. Init => FactsInv
  BY FactsAssumption, InitEstablishesInv
<1>2. FactsInv /\ [Next]_vars => FactsInv'
  BY FactsAssumption, NextKeepsInv
<1>3. QED
  BY <1>1, <1>2, PTL DEF Spec

\* The row says what the Claim says, whoever writes it between whose steps
THEOREM RowsFollowClaims == Spec => []RowFollowsClaim
<1>1. FactsInv => RowFollowsClaim
  BY DEF FactsInv
<1>2. QED
  BY <1>1, FactsInvariant, PTL

\* Every change of the policy of a row that is there counts its revision on by one
THEOREM PolicyRevisionsAreCounted == Spec => PolicyRevisionsCount
<1> DEFINE Counted == (row # None /\ row'.policy # row.policy) =>
                          row'.policy.revision = row.policy.revision + 1
<1>1. FactsInv /\ [Next]_vars => Counted
  <2> SUFFICES ASSUME FactsInv, [Next]_vars, row # None, row' # row
               PROVE  row'.policy = row.policy
                      \/ row'.policy.revision = row.policy.revision + 1
    OBVIOUS
  <2>1. PICK c \in Calls : Commit(c) \/ Write(c)
    BY DEF Next, vars, Request, AssertManifest, SetPolicy, Lookup, ReadForManifest, Compare,
           ReadForDirectory, PutEntry, Abandon, Restart
  <2>2. CASE Commit(c)
    <3>1. CASE Acknowledges(c)
      <4>1. row'.policy = row.policy
        BY <3>1 DEF Acknowledges, ActiveRow
      <4>2. QED
        BY <4>1
    <3>2. CASE Revokes(c)
      <4>1. row' = RevokedRow \/ row' = row
        BY <3>2 DEF Revokes
      <4>2. row \in DeviceRow
        BY DEF FactsInv, TypeOK
      <4>3. QED
        BY <4>1, <4>2 DEF RevokedRow, DeviceRow
    <3>3. QED
      BY <2>2, <3>1, <3>2 DEF Commit, Refuses
  <2>3. CASE Write(c)
    BY <2>3, FactsAssumption, WrittenRow DEF Write
  <2>4. QED
    BY <2>1, <2>2, <2>3
<1> HIDE DEF Counted
<1>2. Spec => [][Counted]_vars
  BY <1>1, FactsInvariant, PTL DEF Spec
<1>3. QED
  BY <1>2, PTL DEF PolicyRevisionsCount, Counted

\* A call that was refused had no recorded command: its payload is the only one of
\* its identifier, and it is looked up again under the lock
THEOREM CommittedAreNeverRefused == Spec => CommittedIsNeverRefused
<1> DEFINE Fair == \A c \in Calls :
              calls[c].phase # "refused" /\ calls'[c].phase = "refused" =>
                  ~Recorded(calls[c].payload)
<1>1. FactsInv /\ [Next]_vars => Fair
  <2> SUFFICES ASSUME FactsInv, [Next]_vars, NEW c \in Calls,
                      calls[c].phase # "refused", calls'[c].phase = "refused"
               PROVE  ~Recorded(calls[c].payload)
    OBVIOUS
  <2>1. calls \in [Calls -> Call]
    BY DEF FactsInv, TypeOK
  <2>2. Lookup(c) \/ Commit(c)
    BY WhoEnds
  <2>3. Reused(calls[c].payload) \/ ~Recorded(calls[c].payload)
    <3>1. Idle.phase = "idle" /\ RefusedCall.phase = "refused"
          /\ Replayed(c).phase \in {"idle", "project"}
      BY DEF Idle, RefusedCall, Replayed
    <3>2. CASE Lookup(c)
      <4>1. Recorded(calls[c].payload) /\ ~Reused(calls[c].payload) =>
               calls'[c] = Replayed(c)
        BY <2>1, <3>2 DEF Lookup
      <4>2. QED
        BY <3>1, <4>1
    <3>3. CASE Commit(c)
      <4>1. Recorded(calls[c].payload) /\ ~Reused(calls[c].payload) =>
               calls'[c] = Replayed(c)
        BY <2>1, <3>3 DEF Commit, LockedReplay
      <4>2. QED
        BY <3>1, <4>1
    <3>4. QED
      BY <2>2, <3>2, <3>3
  <2>4. QED
    BY <2>3 DEF Reused, Recorded, FactsInv, ResultsInv
<1> HIDE DEF Fair
<1>2. Spec => [][Fair]_vars
  BY <1>1, FactsInvariant, PTL DEF Spec
<1>3. QED
  BY <1>2, PTL DEF CommittedIsNeverRefused, Fair

\* Only a projection answers, and what it puts in the directory the row has stood for at
\* the commit it answers for or since, whatever generations were committed in between
THEOREM AnsweredAreShown == Spec => AnsweredIsShown
<1> DEFINE Shown == \A c \in Calls :
              calls[c].phase # "answered" /\ calls'[c].phase = "answered" =>
                  directory' \in since[calls[c].payload]
<1>1. FactsInv /\ [Next]_vars => Shown
  <2> SUFFICES ASSUME FactsInv, [Next]_vars, NEW c \in Calls,
                      calls[c].phase # "answered", calls'[c].phase = "answered"
               PROVE  directory' \in since[calls[c].payload]
    OBVIOUS
  <2>1. PutEntry(c) /\ calls[c].phase = "put"
    BY WhoEnds DEF PutEntry
  <2>2. calls[c].payload # None
    BY <2>1 DEF PutEntry, FactsInv, TypeOK, Idle
  <2>3. calls[c].entry \in since[calls[c].payload]
    BY <2>1, <2>2 DEF FactsInv, Relies
  <2>4. QED
    BY <2>1, <2>3 DEF PutEntry
<1> HIDE DEF Shown
<1>2. Spec => [][Shown]_vars
  BY <1>1, FactsInvariant, PTL DEF Spec
<1>3. QED
  BY <1>2, PTL DEF AnsweredIsShown, Shown

==============================================================================
