-------------------------- MODULE HubDatabaseProofs --------------------------
(***************************************************************************)
(* What holds of the Hub's database for any releases, Authorities, events  *)
(* and losses.                                                             *)
(*                                                                         *)
(* Lineage: an Authority that has committed an event has spent its         *)
(* capability (LineageInv), because no Hub serves before its capability is *)
(* consumed (StartInv), so that a database that is gone cannot be made     *)
(* again under the same name.  Revisions: every event has the number of    *)
(* its place, or is a reset the repair knows (Numbered), so that what the  *)
(* repair computes for an event is its rank in its device's history; the   *)
(* Claim row is where that history ends (Follows).  The repair is a        *)
(* recursive function, unfolded once at each place and compared with the   *)
(* rank by a least counterexample.  Schema: a start adds no column to a    *)
(* database that a release which has served it would refuse (SchemaInv).   *)
(***************************************************************************)
EXTENDS HubDatabase, FiniteSetTheorems, WellFoundedInduction, TLAPS

-----------------------------------------------------------------------------
\* A start that has read the files, and a Hub that has finished it.
StartPhase == {"creating", "migrating", "anchoring", "writing", "consuming"}
Starting == [phase : StartPhase, release : Releases,
             anchor : Authorities \cup {None}, bootstrap : Capability \cup {None},
             making : Objects \cup {None}]
Serving == [phase : {"serving"}, release : Releases]

\* What each phase of a start has found out or done.
StartInv ==
    /\ hub \in {Down} \cup Starting \cup Serving
    /\ hub.phase = "creating" =>
        marker = None /\ anchor = None /\ Grants(bootstrap, config)
    /\ hub.phase = "migrating" =>
        schema # {} /\ hub.anchor = anchor /\ hub.bootstrap = bootstrap
    /\ hub.phase = "anchoring" =>
        marker = config /\ anchor = None /\ Grants(bootstrap, config)
    /\ hub.phase = "writing" => marker = config /\ anchor = Torn
    /\ hub.phase = "consuming" => marker = config /\ anchor = config
    /\ hub.phase = "serving" =>
        marker = config /\ anchor = config /\ ~Grants(bootstrap, config)

\* An Authority with history cannot begin again: its capability grants nothing.
LineageInv ==
    /\ marker \in {None, config} /\ anchor \in {None, Torn, config}
    /\ marker = None => stream = <<>> /\ \A k \in Keys : claims[k] = None
    /\ schema = {} => marker = None
    /\ marker = config => Len(stream) = committed[config]
    /\ \A a \in Authorities : a > config => committed[a] = 0
    /\ committed[config] > 0 => ~Grants(bootstrap, config)
    /\ faults = 0 /\ anchor \in {None, Torn} => Grants(bootstrap, config)

\* A start that has compared the schema fits it, and goes on to; a release that has served
\* does not know a table that is being made.
SchemaInv ==
    /\ hub.phase = "creating" => schema \subseteq Schema[hub.release]
    /\ hub.phase \in {"anchoring", "writing", "consuming", "serving"} => Fits(hub.release)
    /\ \A r \in served : Fits(r)
    /\ marker = None => served = {}
    /\ hub.phase \in {"creating", "migrating"} /\ hub.making # None =>
        \A r \in served : hub.making \notin Schema[r]

\* An event has the number of its place, or is one of the resets the repair knows.
Numbered(i) ==
    \/ stream[i].rev = Rank(i)
    \/ stream[i].type = "activated" /\ stream[i].rev = 1 /\ Earlier(i) # {}

\* The Claim row is where the history of its device ends.
Follows(k) ==
    LET places == History(k, Len(stream)) IN
    IF places = {} THEN claims[k] = None
    ELSE /\ claims[k] # None
         /\ claims[k].rev = Cardinality(places) /\ claims[k].gen = stream[Last(places)].gen

HistoryInv ==
    /\ \A i \in DOMAIN stream : Numbered(i)
    /\ \A k \in Keys : Follows(k)
    /\ hub.phase \in {"anchoring", "writing", "consuming", "serving"}
       /\ hub.release \notin Legacy =>
        \A i \in DOMAIN stream : stream[i].rev = Rank(i)

HubInv == TypeOK /\ StartInv /\ LineageInv /\ SchemaInv /\ HistoryInv

-----------------------------------------------------------------------------
(* Histories. *)

LEMMA LowestPlace ==
    ASSUME NEW T \in SUBSET Nat, T # {}
    PROVE  \E i \in T : \A j \in T : i =< j
<1> DEFINE R == {ss \in Nat \X Nat : ss[1] < ss[2]}
<1>1. IsWellFoundedOn(R, Nat)
  BY NatLessThanWellFounded, Zenon DEF OpToRel
<1>2. PICK i \in T : \A j \in T : ~ (<<j, i>> \in R)
  <2> HIDE DEF R
  <2>1. QED
    BY <1>1, WFMin, Zenon
<1>3. ASSUME NEW j \in T
      PROVE  i =< j
  <2>1. i \in Nat /\ j \in Nat /\ ~(j < i)
    BY <1>2
  <2>2. QED
    BY <2>1
<1>4. QED
  BY <1>3

LEMMA LastPlace ==
    ASSUME NEW n \in Nat, NEW S \in SUBSET (1..n), S # {}
    PROVE  Last(S) \in S /\ \A j \in S : j =< Last(S)
<1> DEFINE B == {m \in Nat : \A j \in S : j =< m}
<1>1. PICK m \in B : \A l \in B : m =< l
  <2>1. n \in B
    OBVIOUS
  <2>2. QED
    BY <2>1, LowestPlace
<1>2. m \in S
  <2> SUFFICES ASSUME m \notin S PROVE FALSE
    OBVIOUS
  <2>1. PICK y \in S : TRUE
    OBVIOUS
  <2>2. \A j \in S : j \in Nat /\ j # 0 /\ j =< m /\ j # m
    OBVIOUS
  <2>3. m \in Nat /\ m # 0
    BY <2>1, <2>2
  <2>4. m - 1 \in B
    BY <2>2, <2>3
  <2>5. QED
    BY <1>1, <2>3, <2>4
<1>3. \A j \in S : j =< m
  OBVIOUS
<1>4. QED
  BY <1>2, <1>3, Zenon DEF Last

\* A history is finite and not longer than the stream up to there.
LEMMA HistoryIsFinite ==
    ASSUME NEW k, NEW n \in Nat
    PROVE  /\ IsFiniteSet(History(k, n)) /\ History(k, n) \in SUBSET (1..n)
           /\ Cardinality(History(k, n)) \in 0..n
<1>1. IsFiniteSet(1..n) /\ Cardinality(1..n) = n
  BY FS_Interval
<1>2. History(k, n) \in SUBSET (1..n)
  BY DEF History
<1>3. IsFiniteSet(History(k, n)) /\ Cardinality(History(k, n)) =< n
  BY <1>1, <1>2, FS_Subset
<1>4. Cardinality(History(k, n)) \in Nat
  BY <1>3, FS_CardinalityType
<1>5. QED
  BY <1>2, <1>3, <1>4

\* The number of an event is one more than that of the event before it.
LEMMA RankSteps ==
    ASSUME stream \in Seq(Event), NEW i \in DOMAIN stream
    PROVE  /\ Rank(i) \in 1..i
           /\ Earlier(i) = {} => Rank(i) = 1
           /\ Earlier(i) # {} =>
                /\ Last(Earlier(i)) \in DOMAIN stream /\ Last(Earlier(i)) < i
                /\ Rank(i) = Rank(Last(Earlier(i))) + 1
<1>1. i \in Nat /\ i # 0 /\ i - 1 \in Nat /\ DOMAIN stream = 1..Len(stream) /\ Len(stream) \in Nat
  OBVIOUS
<1>2. IsFiniteSet(Earlier(i)) /\ Earlier(i) \in SUBSET (1..(i - 1))
      /\ Cardinality(Earlier(i)) \in 0..(i - 1)
  BY <1>1, HistoryIsFinite DEF Earlier
<1>3. History(stream[i].key, i) = Earlier(i) \cup {i} /\ i \notin Earlier(i)
  BY <1>1 DEF Earlier, History
<1>4. Rank(i) = Cardinality(Earlier(i)) + 1
  BY <1>2, <1>3, FS_AddElement DEF Rank
<1>5. Earlier(i) = {} => Rank(i) = 1
  BY <1>4, FS_EmptySet
<1>6. ASSUME Earlier(i) # {}
      PROVE  /\ Last(Earlier(i)) \in DOMAIN stream /\ Last(Earlier(i)) < i
             /\ Rank(i) = Rank(Last(Earlier(i))) + 1
  <2> DEFINE j == Last(Earlier(i))
  <2>1. j \in Earlier(i) /\ \A l \in Earlier(i) : l =< j
    BY <1>1, <1>2, <1>6, LastPlace
  <2>2. j \in DOMAIN stream /\ j < i /\ stream[j].key = stream[i].key
    BY <1>1, <2>1 DEF Earlier, History
  <2> HIDE DEF j
  <2>3. History(stream[j].key, j) = Earlier(i)
    BY <1>1, <2>1, <2>2 DEF Earlier, History
  <2>4. QED
    BY <1>4, <2>2, <2>3 DEF Rank, j
<1>7. QED
  BY <1>1, <1>2, <1>4, <1>5, <1>6

\* The last event of a device has the number of its events.
LEMMA LastRank ==
    ASSUME stream \in Seq(Event), NEW k, History(k, Len(stream)) # {}
    PROVE  LET j == Last(History(k, Len(stream))) IN
           j \in DOMAIN stream /\ stream[j].key = k
           /\ Rank(j) = Cardinality(History(k, Len(stream)))
<1> DEFINE j == Last(History(k, Len(stream)))
<1>1. DOMAIN stream = 1..Len(stream) /\ Len(stream) \in Nat
  OBVIOUS
<1>2. j \in History(k, Len(stream)) /\ \A l \in History(k, Len(stream)) : l =< j
  BY <1>1, HistoryIsFinite, LastPlace
<1> HIDE DEF j
<1>3. j \in DOMAIN stream /\ stream[j].key = k
  BY <1>1, <1>2 DEF History
<1>4. History(stream[j].key, j) = History(k, Len(stream))
  BY <1>1, <1>2, <1>3 DEF History
<1>5. QED
  BY <1>3, <1>4 DEF Rank, j

\* The fixed point that the recursion of the candidates is.
LEMMA CandidatesStep ==
    ASSUME stream \in Seq(Event), \A i \in DOMAIN stream : Numbered(i)
    PROVE  \A i \in DOMAIN stream :
             Candidates[i] = LET previous == IF Earlier(i) = {} THEN 0
                                             ELSE Candidates[Last(Earlier(i))]
                             IN IF stream[i].rev > previous THEN stream[i].rev
                                ELSE previous + 1
<1> DEFINE Previous(f, i) == IF Earlier(i) = {} THEN 0 ELSE f[Last(Earlier(i))]
           Step(f, i) == IF stream[i].rev > Previous(f, i) THEN stream[i].rev
                         ELSE Previous(f, i) + 1
           Ranks == [i \in DOMAIN stream |-> Rank(i)]
<1>1. ASSUME NEW i \in DOMAIN stream
      PROVE  Rank(i) = Step(Ranks, i)
  <2>1. /\ Rank(i) \in Nat /\ Rank(i) >= 1
        /\ stream[i].rev = Rank(i) \/ (stream[i].rev = 1 /\ Earlier(i) # {})
    <3>1. Rank(i) \in 1..i /\ i \in Nat
      BY RankSteps
    <3>2. QED
      BY <3>1 DEF Numbered
  <2>2. CASE Earlier(i) = {}
    BY <2>1, <2>2, RankSteps
  <2>3. CASE Earlier(i) # {}
    <3>1. Previous(Ranks, i) = Rank(i) - 1 /\ Previous(Ranks, i) >= 1
      <4>1. Last(Earlier(i)) \in DOMAIN stream /\ Rank(i) = Rank(Last(Earlier(i))) + 1
        BY <2>3, RankSteps
      <4>2. Rank(Last(Earlier(i))) \in 1..Last(Earlier(i)) /\ Last(Earlier(i)) \in Nat
        BY <4>1, RankSteps
      <4>3. QED
        BY <2>3, <4>1, <4>2
    <3> HIDE DEF Previous
    <3>2. QED
      BY <2>1, <3>1
  <2>4. QED
    BY <2>2, <2>3
<1>2. Ranks = [i \in DOMAIN stream |-> Step(Ranks, i)]
  BY <1>1
<1>3. Candidates = CHOOSE f : f = [i \in DOMAIN stream |-> Step(f, i)]
  BY DEF Candidates
<1> HIDE DEF Ranks, Step
<1>4. Candidates = [i \in DOMAIN stream |-> Step(Candidates, i)]
  BY <1>2, <1>3
<1>5. \A i \in DOMAIN stream : Candidates[i] = Step(Candidates, i)
  BY <1>4
<1>6. QED
  BY <1>5 DEF Step

\* The repair numbers a stream that has only the known resets from 1 in its order.
LEMMA CandidatesCount ==
    ASSUME stream \in Seq(Event), \A i \in DOMAIN stream : Numbered(i)
    PROVE  \A i \in DOMAIN stream : Candidates[i] = Rank(i)
<1> DEFINE Wrong == {i \in DOMAIN stream : Candidates[i] # Rank(i)}
<1> SUFFICES ASSUME Wrong # {} PROVE FALSE
  OBVIOUS
<1>1. Wrong \in SUBSET Nat
  OBVIOUS
<1>2. PICK i \in Wrong : \A j \in Wrong : i =< j
  BY <1>1, LowestPlace
<1>3. i \in DOMAIN stream /\ i \in Nat /\ Candidates[i] # Rank(i)
  OBVIOUS
<1>4. /\ Rank(i) \in Nat /\ Rank(i) >= 1
      /\ stream[i].rev = Rank(i) \/ (stream[i].rev = 1 /\ Earlier(i) # {})
  <2>1. Rank(i) \in 1..i
    BY <1>3, RankSteps
  <2>2. QED
    BY <1>3, <2>1 DEF Numbered
<1>5. CASE Earlier(i) = {}
  <2>1. Candidates[i] = IF stream[i].rev > 0 THEN stream[i].rev ELSE 0 + 1
    BY <1>3, <1>5, CandidatesStep
  <2>2. QED
    BY <1>3, <1>4, <1>5, <2>1
<1>6. CASE Earlier(i) # {}
  <2> DEFINE j == Last(Earlier(i))
  <2>1. j \in DOMAIN stream /\ j < i /\ Rank(i) = Rank(j) + 1
    BY <1>3, <1>6, RankSteps
  <2>2. Rank(j) \in 1..j /\ j \in Nat
    BY <2>1, RankSteps
  <2>3. Candidates[j] = Rank(j)
    BY <1>2, <1>3, <2>1, <2>2
  <2>4. Candidates[i] = IF stream[i].rev > Candidates[j] THEN stream[i].rev
                        ELSE Candidates[j] + 1
    BY <1>3, <1>6, CandidatesStep
  <2> HIDE DEF j
  <2>5. QED
    BY <1>3, <1>4, <2>1, <2>2, <2>3, <2>4
<1>7. QED
  BY <1>5, <1>6

\* The places of the last event and those before it
LEMMA AppendHistory ==
    ASSUME stream \in Seq(Event), NEW e \in Event, stream' = Append(stream, e)
    PROVE  LET n == Len(stream) IN
           /\ n \in Nat /\ Len(stream') = n + 1 /\ stream' \in Seq(Event)
           /\ DOMAIN stream = 1..n /\ DOMAIN stream' = 1..(n + 1)
           /\ stream'[n + 1] = e /\ \A i \in 1..n : stream'[i] = stream[i]
           /\ \A k : \A m \in 0..n : History(k, m)' = History(k, m)
           /\ \A k : History(k, Len(stream))' =
                         IF e.key = k THEN History(k, n) \cup {n + 1} ELSE History(k, n)
           /\ \A i \in 1..n : Rank(i)' = Rank(i) /\ Earlier(i)' = Earlier(i)
           /\ \A i \in {n + 1} : Earlier(i)' = History(e.key, n)
                                 /\ Rank(i)' = Cardinality(History(e.key, n)) + 1
<1> DEFINE n == Len(stream)
<1>1. /\ n \in Nat /\ Len(stream') = n + 1 /\ stream' \in Seq(Event)
      /\ DOMAIN stream = 1..n /\ DOMAIN stream' = 1..(n + 1)
      /\ stream'[n + 1] = e /\ \A i \in 1..n : stream'[i] = stream[i]
  OBVIOUS
<1>2. Len(stream') = Len(stream) + 1
  BY <1>1
<1> HIDE DEF n
<1>3. \A k : \A m \in 0..n : History(k, m)' = History(k, m)
  BY <1>1 DEF History
<1>4. ASSUME NEW k
      PROVE  /\ e.key = k => {i \in 1..(n + 1) : stream'[i].key = k} = History(k, n) \cup {n + 1}
             /\ e.key # k => {i \in 1..(n + 1) : stream'[i].key = k} = History(k, n)
  BY <1>1 DEF History
<1>5. \A k : History(k, Len(stream))' =
                 IF e.key = k THEN History(k, n) \cup {n + 1} ELSE History(k, n)
  BY <1>1, <1>4 DEF History
<1>6. ASSUME NEW i \in 1..n
      PROVE  Rank(i)' = Rank(i) /\ Earlier(i)' = Earlier(i)
  <2>1. i \in 0..n /\ i - 1 \in 0..n /\ stream'[i] = stream[i]
    BY <1>1
  <2>2. \A k : History(k, i)' = History(k, i) /\ History(k, i - 1)' = History(k, i - 1)
    BY <1>3, <2>1
  <2>3. QED
    BY <2>1, <2>2 DEF Rank, Earlier
<1>7. ASSUME NEW i \in {n + 1}
      PROVE  Earlier(i)' = History(e.key, n) /\ Rank(i)' = Cardinality(History(e.key, n)) + 1
  <2>1. i = n + 1 /\ i - 1 = n /\ stream'[i] = e
    BY <1>1
  <2>2. \A k : History(k, i - 1)' = History(k, n)
    BY <1>1, <1>3, <2>1 DEF History
  <2>3. Earlier(i)' = History(e.key, n)
    BY <2>1, <2>2 DEF Earlier
  <2>4. History(e.key, i)' = History(e.key, n) \cup {n + 1}
    BY <1>1, <1>4, <2>1 DEF History
  <2>5. Cardinality(History(e.key, n) \cup {n + 1}) = Cardinality(History(e.key, n)) + 1
    <3>1. IsFiniteSet(History(e.key, n)) /\ n + 1 \notin History(e.key, n)
      BY <1>1, HistoryIsFinite
    <3>2. QED
      BY <3>1, FS_AddElement
  <2>6. QED
    BY <2>1, <2>3, <2>4, <2>5 DEF Rank
<1>8. QED
  BY <1>1, <1>3, <1>5, <1>6, <1>7 DEF n

\* The repair accepts the stream and gives every event the number of its place.
LEMMA RepairCounts ==
    ASSUME DatabaseAssumption, TypeOK, HistoryInv
    PROVE  /\ ~LateReset => ~RefusesRepair
           /\ Repaired \in Seq(Event) /\ Len(Repaired) = Len(stream)
           /\ DOMAIN Repaired = DOMAIN stream
           /\ \A i \in DOMAIN stream :
                Repaired[i] = [stream[i] EXCEPT !.rev = Rank(i)]
<1>1. /\ stream \in Seq(Event) /\ Len(stream) \in Nat /\ Len(stream) =< MaxEvents
      /\ DOMAIN stream = 1..Len(stream) /\ \A i \in DOMAIN stream : stream[i] \in Event
      /\ MaxEvents \in Nat
  BY DEF TypeOK, DatabaseAssumption
<1>2. \A i \in DOMAIN stream : Candidates[i] = Rank(i) /\ Rank(i) \in 1..MaxEvents
  <2>1. \A i \in DOMAIN stream : Rank(i) \in 1..i /\ i \in Nat /\ i =< MaxEvents
    BY <1>1, RankSteps
  <2>2. QED
    BY <1>1, <2>1, CandidatesCount DEF HistoryInv
<1>3. ASSUME ~LateReset, NEW i \in Mended
      PROVE  /\ KnownReset(i)
             /\ claims[stream[i].key].rev =
                    Candidates[Last(History(stream[i].key, Len(stream)))]
  <2>1. i \in DOMAIN stream /\ Numbered(i) /\ stream[i].rev # Rank(i)
    BY <1>2 DEF Mended, HistoryInv
  <2>2. KnownReset(i)
    <3>1. stream[i].type = "activated" /\ stream[i].rev = 1 /\ Earlier(i) # {}
      BY <2>1 DEF Numbered
    <3>2. stream[Last(Earlier(i))].gen \in Nat /\ stream[i].gen \in Nat
      <4>1. Last(Earlier(i)) \in DOMAIN stream
        BY <1>1, <2>1, <3>1, RankSteps
      <4>2. QED
        BY <1>1, <2>1, <4>1 DEF Event
    <3>3. ~(stream[i].gen =< stream[Last(Earlier(i))].gen)
      BY <1>3, <2>1, <3>1 DEF LateReset
    <3>4. QED
      BY <3>1, <3>2, <3>3 DEF KnownReset
  <2> DEFINE k == stream[i].key
  <2>3. k \in Keys /\ i \in History(k, Len(stream))
    BY <1>1, <2>1 DEF Event, History
  <2>4. claims[k].rev = Cardinality(History(k, Len(stream)))
    BY <2>3 DEF HistoryInv, Follows
  <2> HIDE DEF k
  <2>5. /\ Last(History(k, Len(stream))) \in DOMAIN stream
        /\ Rank(Last(History(k, Len(stream)))) = Cardinality(History(k, Len(stream)))
    BY <1>1, <2>3, LastRank
  <2>6. claims[k].rev = Candidates[Last(History(k, Len(stream)))]
    BY <1>2, <2>4, <2>5
  <2>7. QED
    BY <2>2, <2>6 DEF k
<1>4. ~LateReset => ~RefusesRepair
  BY <1>3 DEF RefusesRepair
<1>5. Repaired = [i \in 1..Len(stream) |-> [stream[i] EXCEPT !.rev = Rank(i)]]
  BY <1>1, <1>2 DEF Repaired
<1>6. ASSUME NEW i \in 1..Len(stream)
      PROVE  [stream[i] EXCEPT !.rev = Rank(i)] \in Event
  <2>1. stream[i] \in Event /\ Rank(i) \in 1..MaxEvents
    BY <1>1, <1>2
  <2>2. QED
    BY <2>1 DEF Event
<1>7. Repaired \in Seq(Event) /\ Len(Repaired) = Len(stream)
  <2>1. \A i \in 1..Len(stream) : Repaired[i] \in Event
    BY <1>5, <1>6
  <2>2. Repaired \in [1..Len(stream) -> Event]
    BY <1>5, <2>1
  <2>3. QED
    BY <1>1, <2>2
<1>8. QED
  BY <1>1, <1>4, <1>5, <1>7

-----------------------------------------------------------------------------
(* The steps. *)

\* An Authority is a number, not the absence of one nor a torn file.
LEMMA AuthorityNames ==
    ASSUME DatabaseAssumption
    PROVE  /\ Authorities \subseteq Nat
           /\ \A a \in Authorities : a # None /\ a # Torn
<1>1. Authorities \subseteq Nat
  BY DEF Authorities, DatabaseAssumption
<1>2. \A a \in Authorities : a # None /\ a # Torn
  BY DEF DatabaseAssumption
<1>3. QED
  BY <1>1, <1>2

LEMMA HubInit == ASSUME DatabaseAssumption, Init PROVE HubInv
<1> USE DEF Init, Down
<1>1. /\ <<>> \in Seq(Event) /\ Len(<<>>) = 0 /\ DOMAIN <<>> = {}
      /\ 1 \in Authorities /\ [spent |-> FALSE, names |-> 1] \in Capability
  BY DEF DatabaseAssumption, Authorities, Capability
<1>2. TypeOK
  BY <1>1 DEF TypeOK, DatabaseAssumption
<1>3. StartInv
  BY DEF StartInv
<1>4. LineageInv
  <2>1. \A a \in Authorities : committed[a] = 0
    OBVIOUS
  <2>2. ~(committed[config] > 0)
    BY <1>1, <2>1
  <2>3. Grants(bootstrap, config)
    <3>1. [spent |-> FALSE, names |-> 1] # None
      BY <1>1, Zenon DEF DatabaseAssumption
    <3>2. QED
      BY <3>1 DEF Grants
  <2>4. config \in Authorities /\ None \notin Authorities
    BY <1>1 DEF DatabaseAssumption
  <2>5. QED
    BY <2>1, <2>2, <2>3, <2>4 DEF LineageInv
<1>5. SchemaInv
  BY DEF SchemaInv
<1>6. HistoryInv
  <2>1. \A k : History(k, Len(stream)) = {}
    BY <1>1 DEF History
  <2>2. \A k \in Keys : Follows(k)
    BY <2>1 DEF Follows
  <2>3. QED
    BY <1>1, <2>2 DEF HistoryInv
<1>7. QED
  BY <1>2, <1>3, <1>4, <1>5, <1>6 DEF HubInv

\* The steps that leave the stream and the claims alone
LEMMA HistoryStands ==
    ASSUME HistoryInv, UNCHANGED <<stream, claims>>,
           \/ ~(hub'.phase \in {"anchoring", "writing", "consuming", "serving"})
           \/ hub'.release = hub.release
              /\ hub.phase \in {"anchoring", "writing", "consuming", "serving"}
           \/ stream = <<>>
    PROVE  HistoryInv'
<1>1. /\ \A k, n : History(k, n)' = History(k, n)
      /\ \A i : Rank(i)' = Rank(i) /\ Earlier(i)' = Earlier(i)
  BY DEF History, Rank, Earlier
<1>2. \A i \in DOMAIN stream : Numbered(i)'
  BY <1>1 DEF HistoryInv, Numbered
<1>3. \A k \in Keys : Follows(k)'
  BY <1>1 DEF HistoryInv, Follows
<1>4. stream = <<>> => DOMAIN stream = {}
  OBVIOUS
<1>5. ASSUME hub'.phase \in {"anchoring", "writing", "consuming", "serving"},
             hub'.release \notin Legacy, NEW i \in DOMAIN stream
      PROVE  stream[i].rev = Rank(i)
  BY <1>4, <1>5 DEF HistoryInv
<1>6. QED
  BY <1>1, <1>2, <1>3, <1>5 DEF HistoryInv

\* The steps that throw the database away
LEMMA HistoryEnds ==
    ASSUME stream' = <<>>, \A k \in Keys : claims'[k] = None
    PROVE  HistoryInv'
<1>1. Len(stream') = 0 /\ DOMAIN stream' = {}
  OBVIOUS
<1>2. \A k : History(k, Len(stream))' = {}
  BY <1>1 DEF History
<1>3. \A k \in Keys : Follows(k)'
  BY <1>2 DEF Follows
<1>4. QED
  BY <1>1, <1>3 DEF HistoryInv

\* The steps that leave the schema alone, after the comparison or with a start ended
LEMMA SchemaStands ==
    ASSUME SchemaInv, UNCHANGED <<schema, bare, served>>, marker' = marker \/ served = {},
           \/ hub' = Down
           \/ hub' = hub
           \/ /\ hub'.phase \in {"anchoring", "writing", "consuming", "serving"}
              /\ Fits(hub'.release)
    PROVE  SchemaInv'
<1>1. \A r : Fits(r)' <=> Fits(r)
  BY DEF Fits, Missing, Refuses
<1>2. \A r \in served' : Fits(r)'
  BY <1>1 DEF SchemaInv
<1>3. marker' = None => served' = {}
  BY DEF SchemaInv
<1>4. CASE hub' = Down
  BY <1>2, <1>3, <1>4 DEF SchemaInv, Down
<1>5. CASE hub' = hub
  <2>1. Fits(hub.release)' <=> Fits(hub.release)
    BY <1>5 DEF Fits, Missing, Refuses
  <2>2. QED
    BY <1>2, <1>3, <1>5, <2>1 DEF SchemaInv
<1>6. CASE /\ hub'.phase \in {"anchoring", "writing", "consuming", "serving"}
           /\ Fits(hub'.release)
  <2>1. Fits(hub.release)'
    BY <1>6 DEF Fits, Missing, Refuses
  <2>2. QED
    BY <1>2, <1>3, <1>6, <2>1 DEF SchemaInv
<1>7. QED
  BY <1>4, <1>5, <1>6

LEMMA PublishKeepsInv ==
    ASSUME DatabaseAssumption, HubInv, NEW k \in Keys, NEW g \in 1..MaxEvents,
           Activate(k, g) \/ Revoke(k, g)
    PROVE  HubInv'
<1> DEFINE n == Len(stream)
           Revoking == claims[k] = None \/ claims[k].gen = g
<1>1. PICK type \in {"activated", "revoked"}, r \in {1, Revision(k)} :
          /\ Publish(type, k, g, r)
          /\ r # Revision(k) =>
                type = "activated" /\ r = 1 /\ hub.release \in Legacy
  BY DEF Activate, Revoke
<1> DEFINE e == [type |-> type, key |-> k, gen |-> g, rev |-> r]
           c == [state |-> IF type = "activated" THEN "active" ELSE "revoked",
                 gen |-> g, rev |-> Revision(k)]
<1>2. /\ hub.phase = "serving" /\ n < MaxEvents /\ stream' = Append(stream, e)
      /\ claims' = [claims EXCEPT ![k] = c]
      /\ committed' = [committed EXCEPT ![marker] = @ + 1]
      /\ UNCHANGED <<schema, bare, marker, anchor, bootstrap, config, hub, served, faults>>
  BY <1>1 DEF Publish
<1>3. /\ stream \in Seq(Event) /\ claims \in [Keys -> Claim \cup {None}]
      /\ committed \in [Authorities -> Nat] /\ config \in Authorities
      /\ MaxEvents \in Nat /\ None \notin Claim
  BY DEF HubInv, TypeOK, DatabaseAssumption
<1>4. /\ History(k, n) = {} <=> claims[k] = None
      /\ Revision(k) = Cardinality(History(k, n)) + 1
      /\ claims[k] # None => claims[k].gen = stream[Last(History(k, n))].gen
  <2>1. Follows(k) /\ Cardinality({}) = 0
    BY FS_EmptySet DEF HubInv, HistoryInv
  <2>2. CASE History(k, n) = {}
    BY <2>1, <2>2 DEF Follows, Revision
  <2>3. CASE History(k, n) # {}
    BY <2>1, <2>3 DEF Follows, Revision
  <2>4. QED
    BY <2>2, <2>3
<1>5. Revision(k) \in 1..MaxEvents
  <2>1. n \in Nat
    BY <1>3
  <2>2. Cardinality(History(k, n)) \in 0..n
    BY <2>1, HistoryIsFinite
  <2>3. QED
    BY <1>2, <1>3, <1>4, <2>1, <2>2
<1>6. e \in Event /\ c \in Claim
  BY <1>3, <1>5 DEF Event, Claim
<1>7. /\ n \in Nat /\ Len(stream') = n + 1 /\ stream' \in Seq(Event)
      /\ DOMAIN stream = 1..n /\ DOMAIN stream' = 1..(n + 1)
      /\ stream'[n + 1] = e /\ \A i \in 1..n : stream'[i] = stream[i]
      /\ \A l : History(l, Len(stream))' =
                    IF k = l THEN History(l, n) \cup {n + 1} ELSE History(l, n)
      /\ \A i \in 1..n : Rank(i)' = Rank(i) /\ Earlier(i)' = Earlier(i)
      /\ \A i \in {n + 1} : Earlier(i)' = History(k, n)
                            /\ Rank(i)' = Cardinality(History(k, n)) + 1
  <2> HIDE DEF e
  <2>1. stream' = Append(stream, e) /\ e \in Event /\ stream \in Seq(Event)
    BY <1>2, <1>3, <1>6
  <2>2. e.key = k
    BY DEF e
  <2>3. /\ n \in Nat /\ Len(stream') = n + 1 /\ stream' \in Seq(Event)
        /\ DOMAIN stream = 1..n /\ DOMAIN stream' = 1..(n + 1)
        /\ stream'[n + 1] = e /\ \A i \in 1..n : stream'[i] = stream[i]
    BY <2>1, AppendHistory
  <2>4. \A l : History(l, Len(stream))' =
                  IF e.key = l THEN History(l, n) \cup {n + 1} ELSE History(l, n)
    BY <2>1, AppendHistory
  <2>5. /\ \A i \in 1..n : Rank(i)' = Rank(i) /\ Earlier(i)' = Earlier(i)
        /\ \A i \in {n + 1} : Earlier(i)' = History(e.key, n)
                              /\ Rank(i)' = Cardinality(History(e.key, n)) + 1
    BY <2>1, AppendHistory
  <2>6. QED
    BY <2>2, <2>3, <2>4, <2>5
<1>8. claims' \in [Keys -> Claim \cup {None}] /\ claims'[k] = c /\ claims'[k] # None
      /\ \A l \in Keys \ {k} : claims'[l] = claims[l]
  BY <1>2, <1>3, <1>6
<1>9. /\ committed' \in [Authorities -> Nat] /\ committed'[config] = committed[config] + 1
      /\ \A a \in Authorities \ {config} : committed'[a] = committed[a]
      /\ marker = config
  <2>1. marker = config
    BY <1>2 DEF HubInv, StartInv
  <2>2. QED
    BY <1>2, <1>3, <2>1
<1>10. TypeOK'
  <2>1. Len(stream') =< MaxEvents
    BY <1>2, <1>3, <1>7
  <2>2. QED
    BY <1>2, <1>7, <1>8, <1>9, <2>1 DEF HubInv, TypeOK
<1>11. StartInv'
  BY <1>2 DEF HubInv, StartInv, Grants
<1>12. LineageInv'
  <2>1. marker # None /\ config \in Nat /\ Len(stream) = committed[config]
        /\ ~Grants(bootstrap, config)
    <3>1. config \in Nat /\ config # None
      BY <1>3, AuthorityNames
    <3>2. Len(stream) = committed[config]
      BY <1>9 DEF HubInv, LineageInv
    <3>3. ~Grants(bootstrap, config)
      BY <1>2 DEF HubInv, StartInv
    <3>4. QED
      BY <1>9, <3>1, <3>2, <3>3
  <2>2. \A a \in Authorities : a > config => a # config
    BY <2>1 DEF Authorities
  <2>3. schema' # {}
    BY <1>2, <2>1 DEF HubInv, LineageInv
  <2>4. Len(stream') = committed'[config]
    BY <1>7, <1>9, <2>1
  <2>5. \A a \in Authorities : a > config => committed'[a] = 0
    BY <1>9, <2>2 DEF HubInv, LineageInv
  <2>6. ~Grants(bootstrap, config)' /\ marker' = marker /\ anchor' = anchor /\ config' = config
        /\ faults' = faults /\ anchor = config
    BY <1>2, <2>1 DEF HubInv, StartInv, Grants
  <2>7. anchor \notin {None, Torn}
    BY <1>3, <2>6 DEF DatabaseAssumption
  <2>8. QED
    BY <1>9, <2>1, <2>3, <2>4, <2>5, <2>6, <2>7 DEF LineageInv
<1>13. SchemaInv'
  BY <1>2, SchemaStands DEF HubInv
<1>14. ASSUME NEW i \in 1..n
       PROVE  /\ Numbered(i)'
              /\ stream[i].rev = Rank(i) => stream'[i].rev = Rank(i)'
  <2>1. Numbered(i) /\ stream'[i] = stream[i] /\ Rank(i)' = Rank(i) /\ Earlier(i)' = Earlier(i)
    BY <1>7 DEF HubInv, HistoryInv
  <2>2. Earlier(i) # {} => stream'[Last(Earlier(i))] = stream[Last(Earlier(i))]
    <3>1. ASSUME Earlier(i) # {} PROVE Last(Earlier(i)) \in 1..n
      BY <1>3, <1>7, <3>1, RankSteps
    <3>2. QED
      BY <1>7, <3>1
  <2>3. QED
    BY <2>1, <2>2 DEF Numbered
<1>15. ASSUME NEW i \in {n + 1}
       PROVE  Numbered(i)' /\ (r = Revision(k) => stream'[i].rev = Rank(i)')
  <2>1. /\ stream'[i] = e /\ Earlier(i)' = History(k, n)
        /\ Rank(i)' = Revision(k)
    BY <1>4, <1>7
  <2>2. CASE r = Revision(k)
    BY <2>1, <2>2 DEF Numbered
  <2>3. CASE r # Revision(k)
    <3>1. type = "activated" /\ r = 1
      BY <1>1, <2>3
    <3>2. Cardinality(History(k, n)) # 0
      BY <1>4, <2>3, <3>1
    <3>3. History(k, n) # {}
      BY <3>2, FS_EmptySet
    <3>4. QED
      BY <2>1, <3>1, <3>3 DEF Numbered
  <2>4. QED
    BY <2>2, <2>3
<1>16. ASSUME NEW l \in Keys
       PROVE  Follows(l)'
  <2>1. CASE l = k
    <3>1. History(l, Len(stream))' = History(k, n) \cup {n + 1}
      BY <1>7, <2>1
    <3> DEFINE S == History(k, n) \cup {n + 1}
    <3>2. Cardinality(S) = Revision(k) /\ S \in SUBSET (1..(n + 1)) /\ S # {}
      <4>1. History(k, n) \in SUBSET (1..n) /\ IsFiniteSet(History(k, n))
        BY <1>7, HistoryIsFinite
      <4>2. n + 1 \notin History(k, n) /\ S \in SUBSET (1..(n + 1))
        BY <1>7, <4>1
      <4>3. QED
        BY <1>4, <4>1, <4>2, FS_AddElement
    <3>3. Last(S) = n + 1
      <4>1. Last(S) \in S /\ \A j \in S : j =< Last(S)
        <5>1. n + 1 \in Nat
          BY <1>7
        <5> HIDE DEF S
        <5>2. QED
          BY <3>2, <5>1, LastPlace
      <4>2. Last(S) \in 1..(n + 1) /\ n + 1 =< Last(S)
        BY <3>2, <4>1
      <4>3. QED
        BY <1>7, <4>2
    <3>4. stream'[Last(S)].gen = g /\ claims'[l] = c /\ claims'[l] # None
      BY <1>7, <1>8, <2>1, <3>3
    <3>5. c.rev = Revision(k) /\ c.gen = g
      OBVIOUS
    <3> HIDE DEF S, c
    <3>6. QED
      BY <3>1, <3>2, <3>4, <3>5 DEF Follows, S
  <2>2. CASE l # k
    <3>1. History(l, Len(stream))' = History(l, n) /\ claims'[l] = claims[l] /\ Follows(l)
      BY <1>7, <1>8, <2>2 DEF HubInv, HistoryInv
    <3>2. ASSUME History(l, n) # {}
          PROVE  stream'[Last(History(l, n))] = stream[Last(History(l, n))]
      BY <1>3, <1>7, <3>2, LastRank
    <3>3. QED
      BY <3>1, <3>2 DEF Follows
  <2>3. QED
    BY <2>1, <2>2
<1>17. HistoryInv'
  <2>1. \A i \in DOMAIN stream' : i \in 1..n \/ i \in {n + 1}
    BY <1>7
  <2>2. \A i \in DOMAIN stream' : Numbered(i)'
    BY <1>14, <1>15, <2>1
  <2>3. ASSUME hub.release \notin Legacy, NEW i \in DOMAIN stream'
        PROVE  stream'[i].rev = Rank(i)'
    <3>1. r = Revision(k)
      BY <1>1, <2>3
    <3>2. i \in 1..n => stream[i].rev = Rank(i)
      BY <1>2, <1>7, <2>3 DEF HubInv, HistoryInv
    <3>3. QED
      BY <1>14, <1>15, <2>1, <3>1, <3>2
  <2>4. QED
    BY <1>2, <1>16, <2>2, <2>3 DEF HistoryInv
<1>18. QED
  BY <1>10, <1>11, <1>12, <1>13, <1>17 DEF HubInv

\* What a step of a start does to everything but the start itself
LEMMA StartKeepsInv ==
    ASSUME DatabaseAssumption, HubInv, NEW r \in Releases, Start(r)
    PROVE  HubInv'
<1>1. UNCHANGED <<schema, bare, marker, stream, claims, anchor, bootstrap, config, served,
                  committed, faults>>
  BY DEF Start, Fail, db, history
<1>2. CASE hub' = Down
  <2>1. StartInv'
    BY <1>2 DEF StartInv, Down
  <2>2. TypeOK' /\ LineageInv' /\ SchemaInv'
    BY <1>1, <1>2, SchemaStands DEF HubInv, TypeOK, LineageInv, Down, Grants
  <2>3. HistoryInv'
    BY <1>1, <1>2, HistoryStands DEF HubInv, Down
  <2>4. QED
    BY <2>1, <2>2, <2>3 DEF HubInv
<1>3. CASE hub' # Down
  <2> DEFINE p == IF schema = {} THEN "creating" ELSE "migrating"
  <2>1. /\ hub' = [phase |-> p, release |-> r, anchor |-> anchor, bootstrap |-> bootstrap,
                   making |-> None]
        /\ anchor # Torn
        /\ schema = {} => anchor = None /\ Grants(bootstrap, config)
    BY <1>3 DEF Start, Fail
  <2>2. /\ hub'.phase = p /\ hub'.anchor = anchor /\ hub'.bootstrap = bootstrap
        /\ hub'.making = None
    BY <2>1
  <2>3. hub' \in Starting
    <3>1. anchor \in Authorities \cup {None} /\ bootstrap \in Capability \cup {None}
      BY <2>1 DEF HubInv, TypeOK
    <3>2. QED
      BY <2>1, <3>1 DEF Starting, StartPhase
  <2>4. StartInv'
    BY <1>1, <2>1, <2>2, <2>3 DEF HubInv, LineageInv, StartInv, Grants
  <2>5. TypeOK' /\ LineageInv'
    BY <1>1, <2>2 DEF HubInv, TypeOK, LineageInv, Grants
  <2>6. SchemaInv'
    BY <1>1, <2>2 DEF HubInv, SchemaInv, Fits, Missing, Refuses
  <2>7. HistoryInv'
    BY <1>1, <2>2, HistoryStands DEF HubInv
  <2>8. QED
    BY <2>4, <2>5, <2>6, <2>7 DEF HubInv
<1>4. QED
  BY <1>2, <1>3

\* What is added to a table that a release does not know, or is a column with a default,
\* leaves it with what it had
LEMMA AddingFits ==
    ASSUME bare \subseteq schema, NEW r, Fits(r), NEW new, schema' = schema \cup new,
           NEW filled \in SUBSET new, bare' = bare \cup filled,
           \A x \in new : Table[x] \in Schema[r] => x \notin filled /\ Kind[x] # "unique"
    PROVE  Fits(r)'
<1>1. Missing(r)' = {}
  BY DEF Fits, Missing
<1>2. ASSUME NEW x \in Refuses(r)'
      PROVE  FALSE
  <2>1. /\ x \in schema' /\ x \notin Schema[r] /\ Table[x] \in Schema[r]
        /\ x \in bare' \/ Kind[x] = "unique"
    BY <1>2 DEF Refuses
  <2>2. x \notin filled /\ (x \in new => Kind[x] # "unique")
    BY <2>1
  <2>3. x \in schema /\ (x \in bare \/ Kind[x] = "unique")
    BY <2>1, <2>2
  <2>4. x \in Refuses(r)
    BY <2>1, <2>3 DEF Refuses
  <2>5. QED
    BY <2>4 DEF Fits
<1>3. QED
  BY <1>1, <1>2 DEF Fits

\* One statement of create_all or of a migration
LEMMA SchemaStepKeepsInv ==
    ASSUME DatabaseAssumption, HubInv, NEW x \in Objects,
           CreateTable(x) \/ AddTable(x) \/ MakeIndex(x) \/ AddColumn(x)
    PROVE  HubInv'
<1> DEFINE d == Schema[hub.release]
<1>1. /\ UNCHANGED <<marker, stream, claims, anchor, bootstrap, config, served, committed, faults>>
      /\ hub.phase \in {"creating", "migrating"} /\ hub # Down
      /\ hub' = hub \/ hub' = [hub EXCEPT !.making = x]
  BY DEF CreateTable, AddTable, MakeTable, MakeIndex, AddColumn, Down, history
<1>2. /\ hub \in Starting /\ hub.release \in Releases /\ d \in SUBSET Objects
      /\ bare \subseteq schema /\ schema \subseteq Objects
  BY <1>1 DEF HubInv, TypeOK, StartInv, Starting, Serving, DatabaseAssumption
<1> DEFINE Adds(new, filled) ==
        /\ new \in SUBSET d /\ filled \in SUBSET new /\ x \in new
        /\ schema' = schema \cup new /\ bare' = bare \cup filled
        /\ \A r \in served : \A y \in new :
              Table[y] \in Schema[r] => y \notin filled /\ Kind[y] # "unique"
<1>3. /\ \E new, filled : Adds(new, filled)
      /\ hub' = hub \/ (hub' = [hub EXCEPT !.making = x] /\ \A r \in served : x \notin Schema[r])
  <2>1. CASE CreateTable(x) \/ AddTable(x)
    <3> DEFINE columns == {y \in d : Table[y] = x /\ Kind[y] \in ColumnKinds}
               filled == {y \in columns : Kind[y] \in {"declared", "mandatory"}}
    <3>1. /\ schema' = schema \cup ({x} \cup columns) /\ bare' = bare \cup filled
          /\ hub' = [hub EXCEPT !.making = x]
          /\ x \in d /\ x \notin schema /\ Table[x] = x
      BY <2>1 DEF CreateTable, AddTable, MakeTable, MissingTables, Missing, DatabaseAssumption
    <3>2. \A r \in served : x \notin Schema[r]
      BY <3>1 DEF HubInv, SchemaInv, Fits, Missing
    <3>3. \A y \in {x} \cup columns : Table[y] = x
      BY <3>1
    <3>4. {x} \cup columns \in SUBSET d /\ filled \in SUBSET ({x} \cup columns)
      BY <3>1
    <3> HIDE DEF columns, filled
    <3>5. Adds({x} \cup columns, filled)
      BY <3>1, <3>2, <3>3, <3>4
    <3> HIDE DEF Adds
    <3>6. QED
      BY <3>1, <3>2, <3>5
  <2>2. CASE MakeIndex(x)
    <3>1. /\ schema' = schema \cup {x} /\ bare' = bare \cup {} /\ hub' = hub
          /\ x \in d /\ Table[x] = hub.making
      BY <2>2 DEF MakeIndex, MissingIndexes, Missing
    <3>2. \A r \in served : hub.making \notin Schema[r]
      <4>1. Table[x] \in Objects
        BY DEF DatabaseAssumption
      <4>2. hub.making # None
        BY <3>1, <4>1 DEF DatabaseAssumption
      <4>3. QED
        BY <1>1, <4>2 DEF HubInv, SchemaInv
    <3>3. Adds({x}, {})
      BY <3>1, <3>2
    <3> HIDE DEF Adds
    <3>4. QED
      BY <3>1, <3>3
  <2>3. CASE AddColumn(x)
    <3>1. /\ schema' = schema \cup {x} /\ bare' = bare \cup {} /\ hub' = hub
          /\ x \in d /\ Kind[x] # "unique"
      BY <2>3 DEF AddColumn, MissingColumns, Missing
    <3>2. Adds({x}, {})
      BY <3>1
    <3> HIDE DEF Adds
    <3>3. QED
      BY <3>1, <3>2
  <2>4. QED
    BY <2>1, <2>2, <2>3
<1> HIDE DEF Adds
<1>13. PICK new, filled : Adds(new, filled)
  BY <1>3
<1> USE DEF Adds
<1>4. /\ hub' \in Starting /\ hub' # Down /\ hub'.phase = hub.phase
      /\ hub'.release = hub.release /\ hub'.anchor = hub.anchor /\ hub'.bootstrap = hub.bootstrap
  BY <1>1, <1>2 DEF Starting, Down
<1>5. schema' # {} /\ schema' \subseteq Objects /\ bare' \subseteq schema'
  BY <1>2, <1>13
<1>6. TypeOK' /\ StartInv' /\ LineageInv'
  BY <1>1, <1>4, <1>5 DEF HubInv, TypeOK, StartInv, LineageInv, Grants
<1>7. ASSUME NEW r \in served
      PROVE  Fits(r)'
  <2>1. Fits(r)
    BY DEF HubInv, SchemaInv
  <2>2. /\ schema' = schema \cup new /\ bare' = bare \cup filled /\ filled \in SUBSET new
        /\ \A y \in new : Table[y] \in Schema[r] => y \notin filled /\ Kind[y] # "unique"
    BY <1>13
  <2> HIDE DEF Adds, d
  <2>3. QED
    BY <1>2, <2>1, <2>2, AddingFits
<1>8. hub'.phase = "creating" => schema' \subseteq Schema[hub'.release]
  BY <1>4, <1>13 DEF HubInv, SchemaInv
<1>9. ASSUME hub'.making # None, NEW r \in served
      PROVE  hub'.making \notin Schema[r]
  <2>1. CASE hub' = hub
    BY <1>1, <1>9, <2>1 DEF HubInv, SchemaInv
  <2>2. CASE hub' # hub
    <3>1. hub'.making = x /\ x \notin Schema[r]
      BY <1>2, <1>3, <1>9, <2>2 DEF Starting
    <3>2. QED
      BY <3>1
  <2>3. QED
    BY <2>1, <2>2
<1>10. SchemaInv'
  BY <1>1, <1>4, <1>7, <1>8, <1>9 DEF HubInv, SchemaInv
<1>11. HistoryInv'
  BY <1>1, <1>4, HistoryStands DEF HubInv
<1>12. QED
  BY <1>6, <1>10, <1>11 DEF HubInv

\* The first marker: an Authority that is granted has committed nothing
LEMMA CommitFirstKeepsInv ==
    ASSUME DatabaseAssumption, HubInv, CommitFirst
    PROVE  HubInv'
<1>1. /\ hub.phase = "creating" /\ Missing(hub.release) = {}
      /\ marker' = config /\ hub' = [hub EXCEPT !.phase = "anchoring"]
      /\ UNCHANGED <<schema, bare, stream, claims, anchor, bootstrap, config, served, committed,
                     faults>>
  BY DEF CommitFirst, history
<1>2. /\ hub \in Starting /\ hub.release \in Releases
      /\ marker = None /\ anchor = None /\ Grants(bootstrap, config)
  BY <1>1 DEF HubInv, StartInv, Starting, Serving, Down
<1>3. hub' \in Starting /\ hub'.phase = "anchoring" /\ hub'.release = hub.release
  BY <1>1, <1>2 DEF Starting, StartPhase
<1>4. config \in Authorities /\ config \in Nat /\ config # None
  BY AuthorityNames DEF HubInv, TypeOK
<1>5. stream = <<>> /\ Len(stream) = 0 /\ committed[config] = 0
  <2>1. stream = <<>> /\ ~(committed[config] > 0)
    BY <1>2 DEF HubInv, LineageInv
  <2>2. committed[config] \in Nat
    BY <1>4 DEF HubInv, TypeOK
  <2>3. QED
    BY <2>1, <2>2
<1>6. TypeOK'
  BY <1>1, <1>3, <1>4 DEF HubInv, TypeOK
<1>7. StartInv'
  BY <1>1, <1>2, <1>3 DEF HubInv, StartInv, Grants
<1>8. LineageInv'
  <2>1. schema # {}
    BY <1>1, <1>2 DEF DatabaseAssumption, Missing
  <2>2. QED
    BY <1>1, <1>4, <1>5, <2>1 DEF HubInv, LineageInv, Grants
<1>9. SchemaInv'
  <2>1. served = {} /\ Refuses(hub.release) = {}
    BY <1>1, <1>2 DEF HubInv, SchemaInv, Refuses
  <2>2. Fits(hub'.release)
    BY <1>1, <1>3, <2>1 DEF Fits
  <2>3. QED
    BY <1>1, <1>3, <2>1, <2>2, SchemaStands DEF HubInv
<1>10. HistoryInv'
  BY <1>1, <1>5, HistoryStands DEF HubInv
<1>11. QED
  BY <1>6, <1>7, <1>8, <1>9, <1>10 DEF HubInv

LEMMA CommitKeepsInv ==
    ASSUME DatabaseAssumption, HubInv, Commit
    PROVE  HubInv'
<1>1. /\ hub.phase = "migrating"
      /\ UNCHANGED <<schema, bare, marker, claims, anchor, bootstrap, config, served, committed,
                     faults>>
  BY DEF Commit, Fail, db, history
<1>2. CASE hub' = Down /\ stream' = stream
  <2>1. StartInv'
    BY <1>2 DEF StartInv, Down
  <2>2. TypeOK' /\ LineageInv' /\ SchemaInv'
    BY <1>1, <1>2, SchemaStands DEF HubInv, TypeOK, LineageInv, Down, Grants
  <2>3. HistoryInv'
    BY <1>1, <1>2, HistoryStands DEF HubInv, Down
  <2>4. QED
    BY <2>1, <2>2, <2>3 DEF HubInv
<1>3. CASE ~(hub' = Down /\ stream' = stream)
  <2> DEFINE p == IF hub.anchor = None THEN "anchoring" ELSE "consuming"
  <2>1. /\ Identifies(hub.anchor, hub.bootstrap)
        /\ Fits(hub.release)
        /\ stream' = IF hub.release \in Legacy THEN stream ELSE Repaired
        /\ hub' = [hub EXCEPT !.phase = p]
    BY <1>3 DEF Commit, Fail, db
  <2>2. /\ hub \in Starting /\ hub.release \in Releases
        /\ hub.anchor = anchor /\ hub.bootstrap = bootstrap
    BY <1>1 DEF HubInv, StartInv, Starting, Serving, Down
  <2>3. hub' \in Starting /\ hub'.phase = p /\ hub'.release = hub.release
    BY <2>1, <2>2 DEF Starting, StartPhase
  <2>4. /\ marker = config
        /\ anchor = None => Grants(bootstrap, config)
        /\ anchor # None => anchor = config
    BY <2>1, <2>2 DEF Identifies
  <2>5. /\ stream \in Seq(Event) /\ Len(stream) \in Nat /\ DOMAIN stream = 1..Len(stream)
        /\ \A i \in DOMAIN stream : stream[i] \in Event
    BY DEF HubInv, TypeOK
  <2>6. /\ stream' \in Seq(Event) /\ Len(stream') = Len(stream)
        /\ DOMAIN stream' = DOMAIN stream
        /\ \A i \in DOMAIN stream :
             /\ stream'[i].key = stream[i].key /\ stream'[i].gen = stream[i].gen
             /\ stream'[i].type = stream[i].type
             /\ stream'[i].rev = IF hub.release \in Legacy THEN stream[i].rev ELSE Rank(i)
    <3>1. CASE hub.release \in Legacy
      BY <2>1, <2>5, <3>1
    <3>2. CASE hub.release \notin Legacy
      <4>1. stream' = Repaired
        BY <2>1, <3>2
      <4>2. /\ stream' \in Seq(Event) /\ Len(stream') = Len(stream)
            /\ DOMAIN stream' = DOMAIN stream
            /\ \A i \in DOMAIN stream : stream'[i] = [stream[i] EXCEPT !.rev = Rank(i)]
        BY <4>1, RepairCounts DEF HubInv
      <4>3. ASSUME NEW i \in DOMAIN stream
            PROVE  LET e == [stream[i] EXCEPT !.rev = Rank(i)] IN
                   /\ e.key = stream[i].key /\ e.gen = stream[i].gen
                   /\ e.type = stream[i].type /\ e.rev = Rank(i)
        BY <2>5 DEF Event
      <4>4. QED
        BY <2>5, <3>2, <4>2, <4>3
    <3>3. QED
      BY <3>1, <3>2
  <2>7. TypeOK'
    BY <1>1, <2>3, <2>6 DEF HubInv, TypeOK
  <2>8. StartInv'
    BY <1>1, <2>3, <2>4 DEF HubInv, StartInv, Grants
  <2>9. LineageInv'
    <3>1. marker # None
      BY <2>4, AuthorityNames DEF HubInv, TypeOK
    <3>2. QED
      BY <1>1, <2>6, <3>1 DEF HubInv, LineageInv, Grants
  <2>10. SchemaInv'
    BY <1>1, <2>1, <2>3, SchemaStands DEF HubInv
  <2>11. /\ \A k : \A m \in 0..Len(stream) : History(k, m)' = History(k, m)
         /\ \A k : History(k, Len(stream))' = History(k, Len(stream))
    BY <2>5, <2>6 DEF History
  <2>12. ASSUME NEW i \in DOMAIN stream
         PROVE  Rank(i)' = Rank(i) /\ Earlier(i)' = Earlier(i)
    <3>1. i \in 0..Len(stream) /\ i - 1 \in 0..Len(stream)
      BY <2>5
    <3>2. \A k : History(k, i)' = History(k, i) /\ History(k, i - 1)' = History(k, i - 1)
      BY <2>11, <3>1
    <3>3. QED
      BY <2>6, <3>2 DEF Rank, Earlier
  <2>13. ASSUME NEW i \in DOMAIN stream
         PROVE  /\ Numbered(i)'
                /\ hub.release \notin Legacy => stream'[i].rev = Rank(i)'
    <3>1. /\ Numbered(i) /\ stream'[i].gen = stream[i].gen /\ stream'[i].type = stream[i].type
          /\ Rank(i)' = Rank(i) /\ Earlier(i)' = Earlier(i)
          /\ stream'[i].rev = IF hub.release \in Legacy THEN stream[i].rev ELSE Rank(i)
      BY <2>6, <2>12 DEF HubInv, HistoryInv
    <3>2. Earlier(i) # {} => stream'[Last(Earlier(i))].gen = stream[Last(Earlier(i))].gen
      BY <2>5, <2>6, RankSteps
    <3>3. QED
      BY <3>1, <3>2 DEF Numbered
  <2>14. ASSUME NEW k \in Keys
         PROVE  Follows(k)'
    <3>1. /\ Follows(k) /\ claims'[k] = claims[k]
          /\ History(k, Len(stream))' = History(k, Len(stream))
      BY <1>1, <2>11 DEF HubInv, HistoryInv
    <3>2. ASSUME History(k, Len(stream)) # {}
          PROVE  stream'[Last(History(k, Len(stream)))].gen
                    = stream[Last(History(k, Len(stream)))].gen
      BY <2>5, <2>6, <3>2, LastRank
    <3>3. QED
      BY <3>1, <3>2 DEF Follows
  <2>15. HistoryInv'
    BY <2>3, <2>6, <2>13, <2>14 DEF HistoryInv
  <2>16. QED
    BY <2>7, <2>8, <2>9, <2>10, <2>15 DEF HubInv
<1>4. QED
  BY <1>2, <1>3

\* The writing of the anchor, the removal of the capability and a start cut off
LEMMA FilesKeepInv ==
    ASSUME DatabaseAssumption, HubInv, OpenAnchor \/ WriteAnchor \/ Consume \/ Crash
    PROVE  HubInv'
<1>1. UNCHANGED <<schema, bare, marker, stream, claims, config, committed, faults>>
  BY DEF OpenAnchor, WriteAnchor, Consume, Crash, db, history
<1>2. config \in Authorities /\ config # None /\ config # Torn
  BY AuthorityNames DEF HubInv, TypeOK
<1>3. CASE OpenAnchor
  <2>1. /\ hub.phase = "anchoring" /\ anchor' = Torn /\ hub' = [hub EXCEPT !.phase = "writing"]
        /\ UNCHANGED <<bootstrap, served>>
    BY <1>3 DEF OpenAnchor, history
  <2>2. hub \in Starting /\ marker = config /\ Grants(bootstrap, config)
    BY <2>1 DEF HubInv, StartInv, Starting, Serving, Down
  <2>3. hub' \in Starting /\ hub'.phase = "writing" /\ hub'.release = hub.release
    BY <2>1, <2>2 DEF Starting, StartPhase
  <2>4. TypeOK' /\ StartInv' /\ LineageInv'
    BY <1>1, <1>2, <2>1, <2>2, <2>3 DEF HubInv, TypeOK, StartInv, LineageInv, Grants
  <2>5. SchemaInv'
    <3>1. Fits(hub'.release)
      BY <2>1, <2>3 DEF HubInv, SchemaInv
    <3>2. QED
      BY <1>1, <2>1, <2>3, <3>1, SchemaStands DEF HubInv
  <2>6. HistoryInv'
    BY <1>1, <2>1, <2>3, HistoryStands DEF HubInv
  <2>7. QED
    BY <2>4, <2>5, <2>6 DEF HubInv
<1>4. CASE WriteAnchor
  <2>1. /\ hub.phase = "writing" /\ anchor' = marker /\ hub' = [hub EXCEPT !.phase = "consuming"]
        /\ UNCHANGED <<bootstrap, served>>
    BY <1>4 DEF WriteAnchor, history
  <2>2. hub \in Starting /\ marker = config
    BY <2>1 DEF HubInv, StartInv, Starting, Serving, Down
  <2>3. hub' \in Starting /\ hub'.phase = "consuming" /\ hub'.release = hub.release
    BY <2>1, <2>2 DEF Starting, StartPhase
  <2>4. TypeOK' /\ StartInv' /\ LineageInv'
    BY <1>1, <1>2, <2>1, <2>2, <2>3 DEF HubInv, TypeOK, StartInv, LineageInv, Grants
  <2>5. SchemaInv'
    <3>1. Fits(hub'.release)
      BY <2>1, <2>3 DEF HubInv, SchemaInv
    <3>2. QED
      BY <1>1, <2>1, <2>3, <3>1, SchemaStands DEF HubInv
  <2>6. HistoryInv'
    BY <1>1, <2>1, <2>3, HistoryStands DEF HubInv
  <2>7. QED
    BY <2>4, <2>5, <2>6 DEF HubInv
<1>5. CASE Consume
  <2>1. /\ hub.phase = "consuming" /\ UNCHANGED anchor
        /\ bootstrap' = IF Grants(bootstrap, marker) THEN None ELSE bootstrap
        /\ hub' = [phase |-> "serving", release |-> hub.release]
        /\ served' = served \cup {hub.release}
    BY <1>5 DEF Consume
  <2>2. hub \in Starting /\ hub.release \in Releases /\ marker = config /\ anchor = config
    BY <2>1 DEF HubInv, StartInv, Starting, Serving, Down
  <2>3. hub' \in Serving /\ hub'.phase = "serving" /\ hub'.release = hub.release
    BY <2>1, <2>2 DEF Serving
  <2>4. ~Grants(bootstrap', config) /\ bootstrap' \in Capability \cup {None}
    BY <2>1, <2>2 DEF Grants, HubInv, TypeOK
  <2>5. TypeOK' /\ StartInv' /\ LineageInv'
    BY <1>1, <1>2, <2>1, <2>2, <2>3, <2>4 DEF HubInv, TypeOK, StartInv, LineageInv, Grants
  <2>6. SchemaInv'
    <3>1. Fits(hub.release) /\ \A r \in served : Fits(r)
      BY <2>1 DEF HubInv, SchemaInv
    <3>2. \A r \in served' : Fits(r)'
      BY <1>1, <2>1, <3>1 DEF Fits, Missing, Refuses
    <3>3. Fits(hub.release)'
      BY <1>1, <2>3, <3>1 DEF Fits, Missing, Refuses
    <3>4. marker' # None
      BY <1>1, <1>2, <2>2
    <3>5. QED
      BY <2>3, <3>2, <3>3, <3>4 DEF SchemaInv
  <2>7. HistoryInv'
    BY <1>1, <2>1, <2>3, HistoryStands DEF HubInv
  <2>8. QED
    BY <2>5, <2>6, <2>7 DEF HubInv
<1>6. CASE Crash
  <2>1. hub' = Down /\ UNCHANGED <<anchor, bootstrap, served>>
    BY <1>6 DEF Crash, history
  <2>2. TypeOK' /\ StartInv' /\ LineageInv' /\ SchemaInv'
    BY <1>1, <2>1, SchemaStands DEF HubInv, TypeOK, StartInv, LineageInv, Down, Grants
  <2>3. HistoryInv'
    BY <1>1, <2>1, HistoryStands DEF HubInv, Down
  <2>4. QED
    BY <2>2, <2>3 DEF HubInv
<1>7. QED
  BY <1>3, <1>4, <1>5, <1>6

\* What the Host and its operators do while the Hub is down
LEMMA HostKeepsInv ==
    ASSUME DatabaseAssumption, HubInv,
           LoseDatabase \/ LoseAnchor \/ ShipSpent \/ ResetAuthority
    PROVE  HubInv'
<1>1. hub = Down /\ hub' = Down /\ committed' = committed
  BY DEF LoseDatabase, LoseAnchor, ShipSpent, ResetAuthority, Lose, history
<1>2. StartInv'
  BY <1>1 DEF StartInv, Down
<1>3. config \in Authorities /\ config \in Nat /\ config # None /\ config # Torn
  BY AuthorityNames DEF HubInv, TypeOK
<1>4. <<>> \in Seq(Event) /\ Len(<<>>) = 0 /\ MaxEvents \in Nat /\ MaxFaults \in Nat
      /\ [l \in Keys |-> None] \in [Keys -> Claim \cup {None}]
      /\ faults \in 0..MaxFaults
  BY DEF DatabaseAssumption, HubInv, TypeOK
<1>5. CASE LoseDatabase
  <2>1. /\ schema' = {} /\ marker' = None /\ stream' = <<>> /\ claims' = [l \in Keys |-> None]
        /\ bare' = {} /\ served' = {}
        /\ faults' = faults + 1 /\ faults < MaxFaults /\ UNCHANGED <<anchor, bootstrap, config>>
    BY <1>5 DEF LoseDatabase, EmptyDatabase, Lose
  <2>2. TypeOK' /\ SchemaInv'
    BY <1>1, <1>4, <2>1 DEF HubInv, TypeOK, SchemaInv, Down
  <2>3. LineageInv'
    <3>1. faults + 1 # 0
      BY <1>4
    <3>2. Grants(bootstrap', config) <=> Grants(bootstrap, config)
      BY <2>1 DEF Grants
    <3>3. /\ marker' # config' /\ faults' # 0 /\ anchor' \in {None, Torn, config'}
          /\ \A k \in Keys : claims'[k] = None
      BY <1>3, <2>1, <3>1 DEF HubInv, LineageInv
    <3>4. QED
      BY <1>1, <2>1, <3>2, <3>3 DEF HubInv, LineageInv
  <2>4. HistoryInv'
    BY <2>1, HistoryEnds
  <2>5. QED
    BY <1>2, <2>2, <2>3, <2>4 DEF HubInv
<1>6. CASE LoseAnchor
  <2>1. /\ anchor' = None /\ faults' = faults + 1 /\ faults < MaxFaults
        /\ UNCHANGED <<schema, bare, marker, stream, claims, bootstrap, config, served>>
    BY <1>6 DEF LoseAnchor, Lose, db, history
  <2>2. TypeOK' /\ SchemaInv'
    BY <1>1, <1>4, <2>1, SchemaStands DEF HubInv, TypeOK
  <2>3. LineageInv'
    <3>1. faults + 1 # 0
      BY <1>4
    <3>2. Grants(bootstrap', config) <=> Grants(bootstrap, config)
      BY <2>1 DEF Grants
    <3>3. faults' # 0 /\ anchor' \in {None, Torn, config'}
      BY <2>1, <3>1
    <3>4. QED
      BY <1>1, <2>1, <3>2, <3>3 DEF HubInv, LineageInv
  <2>4. HistoryInv'
    BY <1>1, <2>1, HistoryStands DEF HubInv, Down
  <2>5. QED
    BY <1>2, <2>2, <2>3, <2>4 DEF HubInv
<1>7. CASE ShipSpent
  <2>1. /\ bootstrap = None /\ bootstrap' = [spent |-> TRUE, names |-> config]
        /\ UNCHANGED <<schema, bare, marker, stream, claims, anchor, config, served, faults>>
    BY <1>7 DEF ShipSpent, db, history
  <2>2. [spent |-> TRUE, names |-> config] \in Capability
    BY <1>3, Zenon DEF Capability
  <2>3. ~Grants(bootstrap, config) /\ ~Grants(bootstrap', config)
    BY <2>1 DEF Grants
  <2>4. TypeOK' /\ SchemaInv'
    BY <1>1, <2>1, <2>2, SchemaStands DEF HubInv, TypeOK
  <2>5. LineageInv'
    BY <1>1, <2>1, <2>3 DEF HubInv, LineageInv, Grants
  <2>6. HistoryInv'
    BY <1>1, <2>1, HistoryStands DEF HubInv, Down
  <2>7. QED
    BY <1>2, <2>4, <2>5, <2>6 DEF HubInv
<1>8. CASE ResetAuthority
  <2>1. /\ config < MaxAuthority /\ config' = config + 1
        /\ bootstrap' = [spent |-> FALSE, names |-> config + 1]
        /\ schema' = {} /\ marker' = None /\ stream' = <<>> /\ claims' = [l \in Keys |-> None]
        /\ anchor' = None /\ bare' = {} /\ served' = {} /\ UNCHANGED faults
    BY <1>8 DEF ResetAuthority, EmptyDatabase
  <2>2. config + 1 \in Authorities /\ config + 1 # None
    <3>1. config + 1 \in Authorities
      BY <1>3, <2>1 DEF Authorities, DatabaseAssumption
    <3>2. QED
      BY <3>1, AuthorityNames
  <2>3. [spent |-> FALSE, names |-> config + 1] \in Capability
    BY <2>2, Zenon DEF Capability
  <2>4. Grants(bootstrap', config + 1)
    <3>1. bootstrap' # None
      BY <2>1, <2>3, Zenon DEF DatabaseAssumption
    <3>2. QED
      BY <2>1, <3>1 DEF Grants
  <2>5. TypeOK' /\ SchemaInv'
    BY <1>1, <1>4, <2>1, <2>2, <2>3 DEF HubInv, TypeOK, SchemaInv, Down
  <2>6. committed[config + 1] = 0 /\ \A a \in Authorities : a > config + 1 => committed[a] = 0
    <3>1. \A a \in Authorities : a \in Nat /\ (a > config => committed[a] = 0)
      BY AuthorityNames DEF HubInv, LineageInv
    <3>2. QED
      BY <1>3, <2>2, <3>1
  <2>7. LineageInv'
    BY <1>1, <2>1, <2>2, <2>4, <2>6 DEF LineageInv, Grants
  <2>8. HistoryInv'
    BY <2>1, HistoryEnds
  <2>9. QED
    BY <1>2, <2>5, <2>7, <2>8 DEF HubInv
<1>9. QED
  BY <1>5, <1>6, <1>7, <1>8

LEMMA HubStep == ASSUME DatabaseAssumption, HubInv, [Next]_vars PROVE HubInv'
<1>1. CASE Initialize
  BY <1>1, StartKeepsInv, SchemaStepKeepsInv, CommitFirstKeepsInv, CommitKeepsInv,
     FilesKeepInv DEF Initialize
<1>2. CASE Crash
  BY <1>2, FilesKeepInv
<1>3. CASE \E k \in Keys, g \in 1..MaxEvents : Activate(k, g) \/ Revoke(k, g)
  BY <1>3, PublishKeepsInv
<1>4. CASE LoseDatabase \/ LoseAnchor \/ ShipSpent \/ ResetAuthority
  BY <1>4, HostKeepsInv
<1>5. CASE UNCHANGED vars
  <2>1. UNCHANGED <<schema, bare, marker, stream, claims, anchor, bootstrap, config, hub, served,
                    committed, faults>>
    BY <1>5 DEF vars, db, history
  <2>2. TypeOK' /\ StartInv' /\ LineageInv' /\ SchemaInv'
    BY <2>1, SchemaStands DEF HubInv, TypeOK, StartInv, LineageInv, Grants
  <2>3. HistoryInv'
    BY <2>1, HistoryStands DEF HubInv
  <2>4. QED
    BY <2>2, <2>3 DEF HubInv
<1>6. QED
  BY <1>1, <1>2, <1>3, <1>4, <1>5 DEF Next

-----------------------------------------------------------------------------
\* What a start reads, what it has found out, the lineage of the Authority, the objects
\* of the database and the numbers of the histories fit together in every state
\* (initialize_schema, repair_claim_revisions).
THEOREM HubInvariant == Spec => []HubInv
<1>1. DatabaseAssumption
  BY DatabaseAssumption
<1>2. Init => HubInv
  BY <1>1, HubInit
<1>3. HubInv /\ [Next]_vars => HubInv'
  BY <1>1, HubStep
<1>4. QED
  BY <1>2, <1>3, PTL DEF Spec

\* The database, the anchor and the capability have the shapes the start reads
\* (HubDatabase.initialize_schema).
THEOREM HubTypes == Spec => []TypeOK
<1>1. HubInv => TypeOK
  BY DEF HubInv
<1>2. QED
  BY <1>1, HubInvariant, PTL

\* A Hub that serves has every event its Authority ever committed, whichever files were
\* lost and whichever starts were cut off, for any number of releases, Authorities,
\* events and losses (initialize_schema's three-way comparison and its one-time
\* capability).
THEOREM EstablishedNeverBeginsAgain == Spec => []ServesAllItCommitted
<1>1. HubInv => ServesAllItCommitted
  BY DEF HubInv, StartInv, LineageInv, ServesAllItCommitted
<1>2. QED
  BY <1>1, HubInvariant, PTL

\* Readers of a release that repairs see every history numbered from 1 and the Claim at
\* its end, for any number of devices and events and in whatever order grants are
\* acknowledged (repair_claim_revisions).
THEOREM ServedHistories == Spec => []ServedHistoryCounts
<1>1. ASSUME HubInv, hub.phase = "serving", hub.release \notin Legacy
      PROVE  /\ \A i \in DOMAIN stream : stream[i].rev = Rank(i)
             /\ \A k \in Keys : claims[k] # None =>
                    claims[k].rev = Cardinality(History(k, Len(stream)))
  BY <1>1 DEF HubInv, HistoryInv, Follows
<1>2. HubInv => ServedHistoryCounts
  BY <1>1 DEF ServedHistoryCounts
<1>3. QED
  BY <1>2, HubInvariant, PTL

\* A release that has served a database can serve it again, whatever others added to it
\* since, with any number of releases, statements, histories and starts cut off, as long as
\* no file was lost or cut off in writing; and the repair refuses only late resets
\* (_initialize_schema and the repair that runs in it).
THEOREM CutoverBack == Spec => []CutoverIsReversible
<1>1. ASSUME HubInv, marker # None, faults = 0, anchor # Torn
      PROVE  Identifies(anchor, bootstrap)
  BY <1>1 DEF HubInv, LineageInv, Identifies
<1>2. HubInv => \A r \in served : Fits(r)
  BY DEF HubInv, SchemaInv
<1>3. HubInv /\ ~LateReset => ~RefusesRepair
  BY DatabaseAssumption, RepairCounts DEF HubInv
<1>4. HubInv => CutoverIsReversible
  BY <1>1, <1>2, <1>3 DEF CutoverIsReversible
<1>5. QED
  BY <1>4, HubInvariant, PTL

=============================================================================
