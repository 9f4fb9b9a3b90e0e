-------------------------- MODULE RegistryImporter --------------------------
(***************************************************************************)
(* A synchronisation of a smart-home account (AccountService.sync and      *)
(* RegistryImporter.sync): what the account's instance lists becomes       *)
(* devices of the Owner's registry.  The registry belongs to another       *)
(* service and is written device by device under its revision; the Owner   *)
(* edits it too, and several synchronisations may run at once.  What it    *)
(* reports of reachability afterwards is in ZhoubianAccount.               *)
(*                                                                         *)
(* One account.  A name is a base with a suffix; type, traits and limits   *)
(* go with what is discovered like the name and are left out, and so are   *)
(* references discovered twice, which are skipped.                         *)
(***************************************************************************)
EXTENDS Naturals, FiniteSets

CONSTANTS
    Refs,         \* external references of the account
    Names,        \* names as the instance gives them
    Rooms,        \* names of areas as the instance gives them
    None,
    Syncs,        \* synchronisations that may run at once
    MAX_DEVICES,
    MAX_AREAS,
    MaxSuffix,    \* bound of the suffixes (99 in the code)
    MaxEvents     \* bound of the events outside: changes, edits, failures

VARIABLES
    home,       \* the instance: what it lists under a reference
    registry,   \* the registry: revision, areas, devices by reference
    syncs,
    edits,      \* history: what the Owner wrote last
    events

vars == <<home, registry, syncs, edits, events>>

-----------------------------------------------------------------------------
Name == Names \X (1..MaxSuffix)
Area == Rooms \cup {None}
Fields == {"name", "area_id"}

Listed == [name : Names, area : Area]
Device == [name : Name, area_id : Area, overrides : SUBSET Fields, orphaned : BOOLEAN]

Registry ==
    [revision : Nat, areas : SUBSET Rooms, devices : [Refs -> Device \cup {None}]]

Home == [Refs -> Listed \cup {None}]
Idle == [phase |-> "idle"]

Sync ==
    {Idle} \cup [phase : {"discovered"}, found : Home]
           \cup [phase : {"writing"}, found : Home, copy : Registry, todo : SUBSET Refs]

ASSUME ImporterAssumption ==
    /\ IsFiniteSet(Refs) /\ IsFiniteSet(Rooms) /\ None \notin Rooms
    /\ None \notin Device
    /\ MAX_DEVICES \in Nat /\ MAX_AREAS \in Nat
    /\ MaxSuffix \in Nat /\ MaxSuffix > Cardinality(Refs)
    /\ MaxEvents \in Nat

Known(devices) == {r \in Refs : devices[r] # None}
Lists(found) == {r \in Refs : found[r] # None}

TypeOK ==
    /\ home \in Home
    /\ registry \in Registry
    /\ Cardinality(Known(registry.devices)) =< MAX_DEVICES
    /\ Cardinality(registry.areas) =< MAX_AREAS
    /\ syncs \in [Syncs -> Sync]
    /\ edits \in [Refs -> [name : Name \cup {None}, area_id : Area \cup {"unset"}]]
    /\ events \in 0..MaxEvents

Init ==
    /\ home \in Home
    /\ registry = [revision |-> 0, areas |-> {}, devices |-> [r \in Refs |-> None]]
    /\ syncs = [s \in Syncs |-> Idle]
    /\ edits = [r \in Refs |-> [name |-> None, area_id |-> "unset"]]
    /\ events = 0

Happens == events < MaxEvents /\ events' = events + 1

-----------------------------------------------------------------------------
(* The instance and the Owner. *)

HomeChanges(r, l) ==
    /\ Happens
    /\ home[r] # l
    /\ home' = [home EXCEPT ![r] = l]
    /\ UNCHANGED <<registry, syncs, edits>>

Edited(r, d) ==
    /\ Happens
    /\ registry' = [registry EXCEPT !.revision = @ + 1, !.devices[r] = d]
    /\ UNCHANGED <<home, syncs>>

Rename(r, n) ==
    /\ registry.devices[r] # None
    /\ Edited(r, [registry.devices[r] EXCEPT !.name = n, !.overrides = @ \cup {"name"}])
    /\ edits' = [edits EXCEPT ![r].name = n]

Move(r, a) ==
    /\ registry.devices[r] # None
    /\ a \in registry.areas
    /\ Edited(r, [registry.devices[r] EXCEPT !.area_id = a, !.overrides = @ \cup {"area_id"}])
    /\ edits' = [edits EXCEPT ![r].area_id = a]

-----------------------------------------------------------------------------
(* What a synchronisation writes. *)

Taken(devices, area, r) ==
    {devices[q].name : q \in {p \in Known(devices) \ {r} : devices[p].area_id = area}}

\* Mutant: a name is free when no device that is listed has it.
UniqueListed(devices, area, n, r) ==
    LET taken == {devices[q].name : q \in {p \in Known(devices) \ {r} :
                      devices[p].area_id = area /\ ~devices[p].orphaned}}
        free == {i \in 1..MaxSuffix : <<n, i>> \notin taken}
    IN <<n, CHOOSE i \in free : \A j \in free : i =< j>>

\* _unique_name
UniqueName(devices, area, n, r) ==
    LET free == {i \in 1..MaxSuffix : <<n, i>> \notin Taken(devices, area, r)}
    IN <<n, CHOOSE i \in free : \A j \in free : i =< j>>

\* _ensure_area: the area is missing and there is room for it.
NeedsArea(c, a) == a # None /\ a \notin c.areas /\ Cardinality(c.areas) < MAX_AREAS
AreaOf(c, a) == IF a \in c.areas THEN a ELSE None

\* The overlay: what is discovered, where the Owner has not decided.
Overlaid(c, l, r) ==
    LET area == AreaOf(c, l.area)
        name == UniqueName(c.devices, area, l.name, r)
        d == c.devices[r]
    IN IF d = None
       THEN [name |-> name, area_id |-> area, overrides |-> {}, orphaned |-> FALSE]
       ELSE [d EXCEPT !.name = IF "name" \in d.overrides THEN @ ELSE name,
                      !.area_id = IF "area_id" \in d.overrides THEN @ ELSE area,
                      !.orphaned = FALSE]

Fits(c, r) ==
    c.devices[r] # None \/ Cardinality(Known(c.devices)) < MAX_DEVICES

WithDevice(c, r, d) == [c EXCEPT !.revision = @ + 1, !.devices[r] = d]
WithArea(c, a) == [c EXCEPT !.revision = @ + 1, !.areas = @ \cup {a}]

\* Nothing is to be written for r.
Settled(s, r) ==
    LET c == syncs[s].copy
        l == syncs[s].found[r]
    IN /\ ~NeedsArea(c, l.area)
       /\ Fits(c, r) => c.devices[r] = Overlaid(c, l, r)

Orphans(s) ==
    {r \in Known(syncs[s].copy.devices) \ Lists(syncs[s].found) :
        ~syncs[s].copy.devices[r].orphaned}

\* What the next write for r makes of the registry.
Written(s, r) ==
    LET c == syncs[s].copy
        l == syncs[s].found[r]
    IN IF r \in Orphans(s) THEN WithDevice(c, r, [c.devices[r] EXCEPT !.orphaned = TRUE])
       ELSE IF NeedsArea(c, l.area) THEN WithArea(c, l.area)
       ELSE WithDevice(c, r, Overlaid(c, l, r))

-----------------------------------------------------------------------------
(* AccountService.sync. *)

Goes(s, to) == syncs' = [syncs EXCEPT ![s] = to]

Discover(s) ==
    /\ syncs[s] = Idle
    /\ Goes(s, [phase |-> "discovered", found |-> home])
    /\ UNCHANGED <<home, registry, edits, events>>

Read(s) ==
    /\ syncs[s].phase = "discovered"
    /\ Goes(s, [phase |-> "writing", found |-> syncs[s].found, copy |-> registry,
                todo |-> Lists(syncs[s].found)])
    /\ UNCHANGED <<home, registry, edits, events>>

\* The references of which the next is written: the ones discovered, then the orphans.
Writes(s) ==
    IF syncs[s].todo # {} THEN {r \in syncs[s].todo : ~Settled(s, r)} ELSE Orphans(s)

\* Mutant: a write is carried out whatever the registry has become.
AnyRevision(s) == TRUE

\* A write is carried out under the revision it was prepared for.
Expected(s) == syncs[s].copy.revision = registry.revision

Pass(s, r) ==
    /\ syncs[s].phase = "writing"
    /\ r \in syncs[s].todo /\ Settled(s, r)
    /\ Goes(s, [syncs[s] EXCEPT !.todo = @ \ {r}])
    /\ UNCHANGED <<home, registry, edits, events>>

Write(s, r) ==
    /\ syncs[s].phase = "writing"
    /\ r \in Writes(s)
    /\ Expected(s)
    /\ registry' = [Written(s, r) EXCEPT !.revision = registry.revision + 1]
    /\ Goes(s, [syncs[s] EXCEPT !.copy = Written(s, r)])
    /\ UNCHANGED <<home, edits, events>>

\* Another write came first: the synchronisation fails where it is.
Conflict(s) ==
    /\ syncs[s].phase = "writing"
    /\ Writes(s) # {} /\ ~Expected(s)
    /\ Goes(s, Idle)
    /\ UNCHANGED <<home, registry, edits, events>>

\* A write is carried out and its answer is lost.
WriteLost(s, r) ==
    /\ Happens
    /\ syncs[s].phase = "writing"
    /\ r \in Writes(s)
    /\ Expected(s)
    /\ registry' = [Written(s, r) EXCEPT !.revision = registry.revision + 1]
    /\ Goes(s, Idle)
    /\ UNCHANGED <<home, edits>>

\* A request fails.
Fail(s) ==
    /\ Happens
    /\ syncs[s] # Idle
    /\ Goes(s, Idle)
    /\ UNCHANGED <<home, registry, edits>>

\* Mutant: what is no longer listed is left as it is.
WrittenListed(s) ==
    /\ syncs[s].phase = "writing"
    /\ syncs[s].todo = {}
    /\ Goes(s, Idle)
    /\ UNCHANGED <<home, registry, edits, events>>

\* All is written.
WrittenAll(s) ==
    /\ syncs[s].phase = "writing"
    /\ syncs[s].todo = {} /\ Orphans(s) = {}
    /\ Goes(s, Idle)
    /\ UNCHANGED <<home, registry, edits, events>>

-----------------------------------------------------------------------------
Next ==
    \/ \E r \in Refs :
         \/ \E l \in Listed \cup {None} : HomeChanges(r, l)
         \/ \E n \in Name : Rename(r, n)
         \/ \E a \in Rooms : Move(r, a)
    \/ \E s \in Syncs :
         \/ Discover(s) \/ Read(s) \/ Conflict(s) \/ Fail(s) \/ WrittenAll(s)
         \/ \E r \in Refs : Pass(s, r) \/ Write(s, r) \/ WriteLost(s, r)

Spec == Init /\ [][Next]_vars

\* A synchronisation that was begun goes on, and another is asked for after it.
Fairness ==
    \A s \in Syncs :
        WF_vars(Discover(s) \/ Read(s) \/ Conflict(s) \/ WrittenAll(s)
                \/ \E r \in Refs : Pass(s, r) \/ Write(s, r))

FairSpec == Spec /\ Fairness

-----------------------------------------------------------------------------
(* Properties. *)

\* "the Owner's hand edits (name, aliases, area) survive a re-sync" (importer.py:5-6),
\* also one made while a synchronisation is under way: the registry holds what the
\* Owner wrote last.
EditsSurvive ==
    \A r \in Refs :
        /\ edits[r].name # None => registry.devices[r].name = edits[r].name
        /\ edits[r].area_id # "unset" => registry.devices[r].area_id = edits[r].area_id

\* Two devices of an area whose names and areas the Owner has left alone have
\* different names (_unique_name), orphaned ones and ones that came back included.
UntouchedNamesDiffer ==
    \A q, r \in Known(registry.devices) :
        LET d == registry.devices[q]
            e == registry.devices[r]
        IN q # r /\ d.overrides = {} /\ e.overrides = {} /\ d.area_id = e.area_id
             => d.name # e.name

\* What the registry says of r agrees with what is listed, the Owner's edits aside.
Agrees(c, found, r) ==
    LET d == c.devices[r] IN
    IF found[r] = None THEN d # None => d.orphaned
    ELSE Fits(c, r) =>
           /\ d # None
           /\ ~d.orphaned
           /\ "name" \notin d.overrides => d.name[1] = found[r].name
           /\ "area_id" \notin d.overrides => d.area_id = AreaOf(c, found[r].area)

\* When nothing happens any more outside and someone asks for a synchronisation again
\* (Fairness; the code begins one only for a request, POST .../accounts/{id}/sync), the
\* registry comes to agree with the instance and stays so, whatever half-done
\* synchronisations have left.
RegistryConverges == <>[](\A r \in Refs : Agrees(registry, home, r))

=============================================================================
