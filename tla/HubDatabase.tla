----------------------------- MODULE HubDatabase -----------------------------
(***************************************************************************)
(* The Hub's database over the life of an installation                     *)
(* (HubDatabase.initialize_schema and repair_claim_revisions): the first   *)
(* start, later starts of this or another release, and starts that are cut *)
(* off.  Which Owner Authority a Hub serves is told by three places that   *)
(* no transaction spans: the marker row in the database, the lineage       *)
(* anchor beside it and the bootstrap capability the deployment ships.     *)
(*                                                                         *)
(* SQLite's driver opens a transaction at the first INSERT or UPDATE:      *)
(* every CREATE and ALTER is committed by itself, the marker and the       *)
(* repaired events are committed together.                                 *)
(*                                                                         *)
(* A schema is the set of the tables, columns and indexes that releases    *)
(* add to each other, each of a kind and of a table.  A table comes with   *)
(* its columns, each of its indexes by a statement of its own.  A column   *)
(* for which only the program has a default is made without one by CREATE, *)
(* and with one when it is added.                                          *)
(*                                                                         *)
(* The legacy releases gave every activation revision 1 and counted the    *)
(* Claim row right, which the repair mends.                                *)
(***************************************************************************)
EXTENDS Naturals, Sequences, FiniteSets

CONSTANTS
    Releases,        \* the releases that are installed at some time
    Legacy,          \* those with the old producer and without the repair
    Objects,         \* what releases differ in, and what all of them have
    Schema,          \* release -> the objects it declares
    Kind,            \* object -> TableKinds, ColumnKinds or IndexKinds
    Table,           \* object -> the table it belongs to, itself when it is one
    Keys,            \* device instances
    None, Torn,
    MaxAuthority,    \* bound of the Authority's generations, one for each reset
    MaxEvents,       \* bound of the Claim events
    MaxFaults        \* bound of the files lost

VARIABLES
    schema,      \* the objects of the database
    bare,        \* the columns of them that are NOT NULL and without a default
    marker,      \* the row of hub_authority_state
    stream,      \* the Claim events
    claims,      \* the Claim of a device: state, generation, revision
    anchor,      \* the lineage anchor: None, Torn, or what it names
    bootstrap,   \* the capability file: None, or whether it is spent and what it names
    config,      \* the Authority generation of the configuration
    hub,         \* the process: where it is in its start
    served,      \* history: the releases that have served this database
    committed,   \* history: how many events each Authority has committed
    faults

db == <<schema, bare, marker, stream, claims>>
history == <<served, committed>>
vars == <<db, anchor, bootstrap, config, hub, history, faults>>

-----------------------------------------------------------------------------
Authorities == 1..MaxAuthority
Event == [type : {"activated", "revoked"}, key : Keys, gen : 1..MaxEvents, rev : 1..MaxEvents]
Claim == [state : {"active", "revoked"}, gen : 1..MaxEvents, rev : 1..MaxEvents]
Capability == [spent : BOOLEAN, names : Authorities]
Down == [phase |-> "down"]

\* Releases add the tables of Admission and of channel revocation; every other one is
\* there from the start.
TableKinds == {"admission", "table"}
IndexKinds == {"index", "unique"}
\* A default that the database has, that only the program has, or none.
ColumnKinds == {"nullable", "defaulted", "declared", "mandatory"}

ASSUME DatabaseAssumption ==
    /\ Legacy \subseteq Releases
    /\ Schema \in [Releases -> SUBSET Objects]
    /\ Kind \in [Objects -> TableKinds \cup ColumnKinds \cup IndexKinds]
    /\ Table \in [Objects -> Objects]
    /\ \A x \in Objects : Kind[Table[x]] \in TableKinds /\ (Kind[x] \in TableKinds => Table[x] = x)
    /\ \A r \in Releases : Schema[r] # {} /\ \A x \in Schema[r] : Table[x] \in Schema[r]
    /\ MaxAuthority \in Nat \ {0} /\ MaxEvents \in Nat /\ MaxFaults \in Nat
    /\ {None, Torn} \cap Authorities = {} /\ None # Torn
    /\ None \notin Claim /\ None \notin Capability /\ None \notin Objects

TypeOK ==
    /\ schema \subseteq Objects /\ bare \subseteq schema
    /\ marker \in Authorities \cup {None}
    /\ stream \in Seq(Event) /\ Len(stream) =< MaxEvents
    /\ claims \in [Keys -> Claim \cup {None}]
    /\ anchor \in Authorities \cup {None, Torn}
    /\ bootstrap \in Capability \cup {None}
    /\ config \in Authorities
    /\ hub.phase \in {"down", "creating", "migrating", "anchoring", "writing",
                       "consuming", "serving"}
    /\ served \subseteq Releases
    /\ committed \in [Authorities -> Nat]
    /\ faults \in 0..MaxFaults

Init ==
    /\ schema = {} /\ bare = {}
    /\ marker = None
    /\ stream = <<>>
    /\ claims = [k \in Keys |-> None]
    /\ anchor = None
    /\ config = 1
    /\ bootstrap = [spent |-> FALSE, names |-> 1]
    /\ hub = Down
    /\ served = {}
    /\ committed = [a \in Authorities |-> 0]
    /\ faults = 0

-----------------------------------------------------------------------------
(* repair_claim_revisions *)

\* The history of a device: the places of its events, up to the n-th event.
History(k, n) == {i \in 1..n : stream[i].key = k}

Last(places) == CHOOSE i \in places : \A j \in places : j =< i

\* What precedes an event in the history it belongs to.
Earlier(i) == History(stream[i].key, i - 1)

Rank(i) == Cardinality(History(stream[i].key, i))

\* Mutant: a repeated revision is left alone
CandidatesLeniently ==
    LET c[i \in DOMAIN stream] ==
            LET previous == IF Earlier(i) = {} THEN 0 ELSE c[Last(Earlier(i))] IN
            IF stream[i].rev >= previous THEN stream[i].rev ELSE previous + 1
    IN c

\* The revision each event should have: its own while those of the history grow, the
\* one after the previous otherwise.
Candidates ==
    LET c[i \in DOMAIN stream] ==
            LET previous == IF Earlier(i) = {} THEN 0 ELSE c[Last(Earlier(i))] IN
            IF stream[i].rev > previous THEN stream[i].rev ELSE previous + 1
    IN c

\* Only what the old producer is known to have done is mended.
KnownReset(i) ==
    /\ stream[i].type = "activated" /\ stream[i].rev = 1
    /\ Earlier(i) # {} /\ stream[i].gen > stream[Last(Earlier(i))].gen

Mended == {i \in DOMAIN stream : Candidates[i] # stream[i].rev}

\* Something else is out of order, or the Claim is not where its history would end.
RefusesRepair ==
    \/ \E i \in Mended : ~KnownReset(i)
    \/ \E i \in Mended :
        LET k == stream[i].key IN claims[k].rev # Candidates[Last(History(k, Len(stream)))]

Repaired == [i \in DOMAIN stream |-> [stream[i] EXCEPT !.rev = Candidates[i]]]

-----------------------------------------------------------------------------
(* initialize_schema: what a release adds to a database and what it refuses. *)

Missing(r) == Schema[r] \ schema
MissingTables(r) == {x \in Missing(r) : Kind[x] \in TableKinds}

\* Columns that need no decision about the rows there are.
MissingColumns(r) ==
    {x \in Missing(r) : Table[x] \in schema /\ Kind[x] \in {"nullable", "defaulted", "declared"}}

\* Missing tables are added when they are all of Admission or of channel revocation.
AddsTables(r) == \A t \in MissingTables(r) : Kind[t] = "admission"

\* Mutant: whatever this release does not know is refused
UnknownRefuses(r) == {x \in schema \ Schema[r] : Table[x] \in Schema[r]}

\* What another release left in a table of this one, and this one can neither fill nor
\* satisfy.
Refuses(r) ==
    {x \in schema \ Schema[r] : Table[x] \in Schema[r] /\ (x \in bare \/ Kind[x] = "unique")}

Fits(r) == Missing(r) = {} /\ Refuses(r) = {}

\* Mutant: a spent capability counts
Names(b, a) == b # None /\ b.names = a

\* The capability is unspent and names the configured Authority.
Grants(b, a) == b # None /\ ~b.spent /\ b.names = a

Fail == hub' = Down /\ UNCHANGED <<db, anchor, bootstrap>>

\* Both files are read before the database is looked at.  A database without tables
\* becomes this Authority's when the capability says so and nothing else was here.
Start(r) ==
    /\ hub = Down
    /\ LET read == [phase |-> "migrating", release |-> r, anchor |-> anchor,
                    bootstrap |-> bootstrap, making |-> None] IN
       IF \/ anchor = Torn
          \/ schema = {} /\ (anchor # None \/ ~Grants(bootstrap, config))
       THEN Fail
       ELSE /\ hub' = [read EXCEPT !.phase = IF schema = {} THEN "creating" ELSE @]
            /\ UNCHANGED <<db, anchor, bootstrap>>
    /\ UNCHANGED <<config, history, faults>>

\* The indexes of the table that this start made last.
MissingIndexes ==
    {x \in Missing(hub.release) : Table[x] = hub.making /\ Kind[x] \in IndexKinds}

MakeTable(x) ==
    LET columns == {y \in Schema[hub.release] : Table[y] = x /\ Kind[y] \in ColumnKinds} IN
    /\ x \in MissingTables(hub.release)
    /\ MissingIndexes = {}
    /\ schema' = schema \cup {x} \cup columns
    /\ bare' = bare \cup {y \in columns : Kind[y] \in {"declared", "mandatory"}}
    /\ hub' = [hub EXCEPT !.making = x]
    /\ UNCHANGED <<marker, stream, claims, anchor, bootstrap, config, history, faults>>

\* create_all, one statement after the other.
CreateTable(x) == hub.phase = "creating" /\ MakeTable(x)

\* The missing tables, after the missing columns.
AddTable(x) ==
    /\ hub.phase = "migrating"
    /\ MissingColumns(hub.release) = {}
    /\ AddsTables(hub.release)
    /\ MakeTable(x)

MakeIndex(x) ==
    /\ hub.phase \in {"creating", "migrating"}
    /\ x \in MissingIndexes
    /\ schema' = schema \cup {x}
    /\ UNCHANGED <<bare, marker, stream, claims, anchor, bootstrap, config, hub, history, faults>>

\* ALTER TABLE, with a default unless NULL will do.
AddColumn(x) ==
    /\ hub.phase = "migrating"
    /\ x \in MissingColumns(hub.release)
    /\ schema' = schema \cup {x}
    /\ UNCHANGED <<bare, marker, stream, claims, anchor, bootstrap, config, hub, history, faults>>

\* With everything created the marker is committed.
CommitFirst ==
    /\ hub.phase = "creating"
    /\ Missing(hub.release) = {}
    /\ marker' = config
    /\ hub' = [hub EXCEPT !.phase = "anchoring"]
    /\ UNCHANGED <<schema, bare, stream, claims, anchor, bootstrap, config, history, faults>>

\* The database, the configuration and the anchor name one Authority; or the anchor
\* is missing and the capability this Authority was made with is still here.
Identifies(a, b) ==
    /\ marker = config
    /\ IF a = None THEN Grants(b, marker) ELSE a = config

\* Nothing is left to add: the schema is compared, the Authority identified, and the
\* repair committed.
Commit ==
    /\ hub.phase = "migrating"
    /\ MissingColumns(hub.release) = {} /\ MissingIndexes = {}
    /\ AddsTables(hub.release) => MissingTables(hub.release) = {}
    /\ IF /\ Fits(hub.release)
          /\ Identifies(hub.anchor, hub.bootstrap)
          /\ hub.release \in Legacy \/ ~RefusesRepair
       THEN /\ stream' = IF hub.release \in Legacy THEN stream ELSE Repaired
            /\ hub' = [hub EXCEPT !.phase = IF hub.anchor = None THEN "anchoring"
                                            ELSE "consuming"]
            /\ UNCHANGED <<schema, bare, marker, claims, anchor, bootstrap>>
       ELSE Fail
    /\ UNCHANGED <<config, history, faults>>

\* _create_anchor: the file is created exclusively, then written.
OpenAnchor ==
    /\ hub.phase = "anchoring"
    /\ anchor' = Torn
    /\ hub' = [hub EXCEPT !.phase = "writing"]
    /\ UNCHANGED <<db, bootstrap, config, history, faults>>

WriteAnchor ==
    /\ hub.phase = "writing"
    /\ anchor' = marker
    /\ hub' = [hub EXCEPT !.phase = "consuming"]
    /\ UNCHANGED <<db, bootstrap, config, history, faults>>

\* _consume_bootstrap: the capability that made this Authority is removed, another
\* file under its name is not.
Consume ==
    /\ hub.phase = "consuming"
    /\ bootstrap' = IF Grants(bootstrap, marker) THEN None ELSE bootstrap
    /\ hub' = [phase |-> "serving", release |-> hub.release]
    /\ served' = served \cup {hub.release}
    /\ UNCHANGED <<db, anchor, config, committed, faults>>

Crash ==
    /\ hub # Down
    /\ hub' = Down
    /\ UNCHANGED <<db, anchor, bootstrap, config, history, faults>>

-----------------------------------------------------------------------------
(* What a serving Hub commits: a Claim and its event together. *)

Revision(k) == IF claims[k] = None THEN 1 ELSE claims[k].rev + 1

Publish(type, k, g, r) ==
    /\ hub.phase = "serving"
    /\ Len(stream) < MaxEvents
    /\ stream' = Append(stream, [type |-> type, key |-> k, gen |-> g, rev |-> r])
    /\ claims' = [claims EXCEPT ![k] =
            [state |-> IF type = "activated" THEN "active" ELSE "revoked",
             gen |-> g, rev |-> Revision(k)]]
    /\ committed' = [committed EXCEPT ![marker] = @ + 1]
    /\ UNCHANGED <<schema, bare, marker, anchor, bootstrap, config, hub, served, faults>>

Activate(k, g) ==
    /\ \A i \in DOMAIN stream : stream[i].key = k => stream[i].gen # g
    /\ Publish("activated", k, g, IF hub.release \in Legacy THEN 1 ELSE Revision(k))

\* The active Claim is revoked, or a grant before it was acknowledged.
Revoke(k, g) ==
    /\ IF claims[k] = None THEN TRUE ELSE claims[k].state = "active" /\ claims[k].gen = g
    /\ Publish("revoked", k, g, Revision(k))

-----------------------------------------------------------------------------
(* The Host and its operators, while the Hub is down. *)

Lose == hub = Down /\ faults < MaxFaults /\ faults' = faults + 1

EmptyDatabase ==
    /\ schema' = {} /\ bare' = {} /\ served' = {}
    /\ marker' = None /\ stream' = <<>> /\ claims' = [k \in Keys |-> None]

LoseDatabase ==
    /\ Lose
    /\ schema # {}
    /\ EmptyDatabase
    /\ UNCHANGED <<anchor, bootstrap, config, hub, committed>>

LoseAnchor ==
    /\ Lose
    /\ anchor # None
    /\ anchor' = None
    /\ UNCHANGED <<db, bootstrap, config, hub, history>>

\* A release cutover ships the capability of an established Authority spent.
ShipSpent ==
    /\ hub = Down
    /\ bootstrap = None
    /\ bootstrap' = [spent |-> TRUE, names |-> config]
    /\ UNCHANGED <<db, anchor, config, hub, history, faults>>

\* ResetAuthority mints the next generation and starts from nothing.
ResetAuthority ==
    /\ hub = Down
    /\ config < MaxAuthority
    /\ config' = config + 1
    /\ bootstrap' = [spent |-> FALSE, names |-> config + 1]
    /\ EmptyDatabase
    /\ anchor' = None
    /\ UNCHANGED <<hub, committed, faults>>

-----------------------------------------------------------------------------
Initialize ==
    \/ \E r \in Releases : Start(r)
    \/ \E x \in Objects : CreateTable(x) \/ AddTable(x) \/ MakeIndex(x) \/ AddColumn(x)
    \/ CommitFirst \/ Commit
    \/ OpenAnchor \/ WriteAnchor \/ Consume

Next ==
    \/ Initialize
    \/ Crash
    \/ \E k \in Keys, g \in 1..MaxEvents : Activate(k, g) \/ Revoke(k, g)
    \/ LoseDatabase \/ LoseAnchor \/ ShipSpent \/ ResetAuthority

Spec == Init /\ [][Next]_vars

-----------------------------------------------------------------------------
(* Properties *)

\* A Hub that serves has every event its Authority ever committed, whichever files
\* were lost and whichever starts were cut off: an Authority that was established
\* never begins again from nothing (the three-way comparison and the one-time
\* capability of initialize_schema).
ServesAllItCommitted ==
    hub.phase = "serving" =>
        /\ marker = config /\ anchor = config
        /\ Len(stream) = committed[config]

\* A legacy release numbered the acknowledgement of a grant older than the one before.
LateReset ==
    \E i \in DOMAIN stream :
        /\ stream[i].rev = 1 /\ Earlier(i) # {}
        /\ stream[i].gen =< stream[Last(Earlier(i))].gen

\* A release that has served a database can serve it again, whatever other releases
\* added since, however their starts were cut off, as long as no file was lost or cut off
\* in writing; and the repair refuses no history but one with a late reset
\* (_initialize_schema's "reversible cutover": database.py:245-264).
CutoverIsReversible ==
    marker # None /\ faults = 0 /\ anchor # Torn =>
        /\ Identifies(anchor, bootstrap)
        /\ \A r \in served : Fits(r)
        /\ ~LateReset => ~RefusesRepair

\* Readers of a release that repairs see every device's events numbered from 1 in
\* stream order and its Claim at the last number, however often the installation went
\* back to a release that numbers activations 1 (repair_claim_revisions).
ServedHistoryCounts ==
    hub.phase = "serving" /\ hub.release \notin Legacy =>
        /\ \A i \in DOMAIN stream : stream[i].rev = Rank(i)
        /\ \A k \in Keys : claims[k] # None => claims[k].rev = Cardinality(History(k, Len(stream)))

\* What does not hold.  No release meets a column it must fill and does not know: it does
\* when a later one made the database.  Every release finds what it declares or adds it:
\* not after a start that was cut off between a table and its indexes.  Every history can
\* be repaired: not one with a late reset.
AnyReleaseWrites == marker # None => \A r \in Releases : Refuses(r) = {}
AnyReleaseFinds ==
    marker # None => \A r \in Releases : \A x \in Missing(r) :
        x \in MissingColumns(r) \/ (Table[x] \in MissingTables(r) /\ AddsTables(r))
AnyHistoryRepairs == ~RefusesRepair

\* With no file lost, a Hub that is started again and again comes to serve.  It does
\* not: a start cut off before the marker is committed, or inside the writing of the
\* anchor, leaves what every later start refuses.
StartsAreFinished == (hub.phase # "serving" /\ faults = 0) ~> (hub.phase = "serving" \/ faults > 0)

FairSpec == Spec /\ WF_vars(Initialize)

=============================================================================
