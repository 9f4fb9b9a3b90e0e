----------------------- MODULE RegistryImporterProofs -----------------------
(***************************************************************************)
(* What a synchronisation leaves of the registry, for every number of      *)
(* devices, areas and synchronisations at once.                            *)
(*                                                                         *)
(* A synchronisation computes each write from a copy of the registry it    *)
(* read some time ago.  What makes the write right is the revision it is   *)
(* carried out under: a copy of the registry's revision is the registry    *)
(* (CopiesAreTrue), although the Owner and other synchronisations have     *)
(* written meanwhile.  From there on a write is judged by the registry it  *)
(* changes (Respects): it keeps what is overridden, and a name it gives is *)
(* one nobody else in the area has, which a name with a suffix can be as   *)
(* long as there are more suffixes than devices (NamesAreFree).            *)
(***************************************************************************)
EXTENDS RegistryImporter, FiniteSetTheorems, WellFoundedInduction, TLAPS

HasCopy(s) == syncs[s].phase = "writing"

\* A copy is never newer than the registry, and the same at the same revision
CopiesAreTrue ==
    \A s \in Syncs : HasCopy(s) =>
        /\ syncs[s].copy.revision =< registry.revision
        /\ syncs[s].copy.revision = registry.revision => syncs[s].copy = registry

\* What is left to write is listed
TodoIsListed == \A s \in Syncs : HasCopy(s) => syncs[s].todo \subseteq Lists(syncs[s].found)

\* What the Owner wrote last is there, and marked as the Owner's
EditsAreMarked ==
    \A r \in Refs :
        /\ edits[r].name # None =>
              /\ registry.devices[r] # None
              /\ registry.devices[r].name = edits[r].name
              /\ "name" \in registry.devices[r].overrides
        /\ edits[r].area_id # "unset" =>
              /\ registry.devices[r] # None
              /\ registry.devices[r].area_id = edits[r].area_id
              /\ "area_id" \in registry.devices[r].overrides

ImporterInv ==
    /\ TypeOK /\ CopiesAreTrue /\ TodoIsListed
    /\ EditsAreMarked /\ UntouchedNamesDiffer

-----------------------------------------------------------------------------
(* The names. *)

LEMMA LeastOne ==
    ASSUME NEW T \in SUBSET Nat, T # {}
    PROVE  \E i \in T : \A j \in T : i =< j
<1> DEFINE R == {ss \in Nat \X Nat : ss[1] < ss[2]}
<1>1. IsWellFoundedOn(R, Nat)
  BY NatLessThanWellFounded, Zenon DEF OpToRel
<1>2. \E x \in T : \A y \in T : ~ (<<y, x>> \in R)
  BY <1>1, WFMin, Zenon
<1>3. \A x, y \in T : y < x => <<y, x>> \in R
  OBVIOUS
<1> HIDE DEF R
<1>4. PICK x \in T : \A y \in T : ~ (<<y, x>> \in R)
  BY <1>2
<1>5. ASSUME NEW y \in T
      PROVE  x =< y
  <2>1. x \in Nat /\ y \in Nat
    OBVIOUS
  <2>2. ~(y < x)
    BY <1>3, <1>4, Zenon
  <2>3. QED
    BY <2>1, <2>2
<1>6. QED
  BY <1>5

\* _unique_name finds a name, and nobody else in the area has it
LEMMA NamesAreFree ==
    ASSUME ImporterAssumption, NEW devices \in [Refs -> Device \cup {None}],
           NEW area, NEW n \in Names, NEW r \in Refs
    PROVE  /\ UniqueName(devices, area, n, r) \in Name
           /\ UniqueName(devices, area, n, r)[1] = n
           /\ UniqueName(devices, area, n, r) \notin Taken(devices, area, r)
<1> DEFINE free == {i \in 1..MaxSuffix : <<n, i>> \notin Taken(devices, area, r)}
<1>1. free # {}
  <2> SUFFICES ASSUME free = {}
               PROVE  FALSE
    OBVIOUS
  <2> DEFINE has(q, i) == devices[q] # None /\ devices[q].name = <<n, i>>
             g == [i \in 1..MaxSuffix |-> CHOOSE q \in Refs : has(q, i)]
  <2>1. \A i \in 1..MaxSuffix : \E q \in Refs : has(q, i)
    BY DEF Taken, Known
  <2>2. \A i \in 1..MaxSuffix : g[i] \in Refs /\ has(g[i], i)
    BY <2>1
  <2>3. g \in [1..MaxSuffix -> Refs]
    BY <2>2
  <2>4. ASSUME NEW i \in 1..MaxSuffix, NEW j \in 1..MaxSuffix, g[i] = g[j]
        PROVE  i = j
    <3>1. devices[g[i]].name = <<n, i>> /\ devices[g[j]].name = <<n, j>>
      BY <2>2
    <3>2. <<n, i>> = <<n, j>>
      BY <2>4, <3>1
    <3>3. QED
      BY <3>2
  <2> HIDE DEF g
  <2>5. IsFiniteSet(1..MaxSuffix) /\ Cardinality(1..MaxSuffix) = MaxSuffix
    BY FS_Interval DEF ImporterAssumption
  <2>6. Cardinality(Refs) < Cardinality(1..MaxSuffix)
    BY <2>5, FS_CardinalityType DEF ImporterAssumption
  <2>7. \E i, j \in 1..MaxSuffix : i # j /\ g[i] = g[j]
    BY <2>3, <2>5, <2>6, FS_PigeonHole DEF ImporterAssumption
  <2>8. QED
    BY <2>4, <2>7
<1>2. free \in SUBSET Nat
  OBVIOUS
<1>3. \E i \in free : \A j \in free : i =< j
  BY <1>1, <1>2, LeastOne
<1> DEFINE least == CHOOSE i \in free : \A j \in free : i =< j
<1>4. least \in free
  BY <1>3
<1>5. UniqueName(devices, area, n, r) = <<n, least>>
  BY DEF UniqueName
<1> HIDE DEF least
<1>6. QED
  BY <1>4, <1>5 DEF Name

\* What a write does to device r is right for the registry c it is written to
Respects(c, r, d) ==
    /\ c.devices[r] # None =>
        /\ d.overrides = c.devices[r].overrides
        /\ "name" \in d.overrides => d.name = c.devices[r].name
        /\ "area_id" \in d.overrides => d.area_id = c.devices[r].area_id
    /\ d.overrides = {} =>
        \/ d.name \notin Taken(c.devices, d.area_id, r)
        \/ /\ c.devices[r] # None
           /\ d.name = c.devices[r].name /\ d.area_id = c.devices[r].area_id

\* The overlay respects the registry it is computed from
LEMMA OverlayRespects ==
    ASSUME ImporterAssumption, NEW c \in Registry, NEW l \in Listed, NEW r \in Refs
    PROVE  Overlaid(c, l, r) \in Device /\ Respects(c, r, Overlaid(c, l, r))
<1> DEFINE area == AreaOf(c, l.area)
           name == UniqueName(c.devices, area, l.name, r)
           d == c.devices[r]
           o == Overlaid(c, l, r)
<1>1. c.devices \in [Refs -> Device \cup {None}] /\ c.areas \subseteq Rooms /\ d \in Device \cup {None}
      /\ l.name \in Names
  BY DEF Registry, Listed
<1>2. area \in Area
  BY <1>1 DEF AreaOf, Area
<1>3. name \in Name /\ name \notin Taken(c.devices, area, r)
  BY <1>1, NamesAreFree
<1>4. o = IF d = None
          THEN [name |-> name, area_id |-> area, overrides |-> {}, orphaned |-> FALSE]
          ELSE [d EXCEPT !.name = IF "name" \in d.overrides THEN d.name ELSE name,
                         !.area_id = IF "area_id" \in d.overrides THEN d.area_id ELSE area,
                         !.orphaned = FALSE]
  BY DEF Overlaid
<1> HIDE DEF area, name, d, o
<1>5. CASE d = None
  <2>1. o \in Device /\ o.overrides = {} /\ o.name = name /\ o.area_id = area
    BY <1>2, <1>3, <1>4, <1>5 DEF Device
  <2>2. QED
    BY <1>3, <1>5, <2>1 DEF Respects, d, o
<1>6. CASE d # None
  <2>1. d \in Device
    BY <1>1, <1>6
  <2>2. /\ o \in Device /\ o.overrides = d.overrides
        /\ o.name = IF "name" \in d.overrides THEN d.name ELSE name
        /\ o.area_id = IF "area_id" \in d.overrides THEN d.area_id ELSE area
    BY <1>2, <1>3, <1>4, <1>6, <2>1 DEF Device
  <2>3. QED
    BY <1>3, <1>6, <2>2 DEF Respects, d, o
<1>7. QED
  BY <1>5, <1>6

-----------------------------------------------------------------------------
(* A write. *)

\* The part of TypeOK about the registry
RegistryTypes ==
    /\ registry \in Registry
    /\ Cardinality(Known(registry.devices)) =< MAX_DEVICES
    /\ Cardinality(registry.areas) =< MAX_AREAS

\* What the registry promises
RegistryInv == RegistryTypes /\ EditsAreMarked /\ UntouchedNamesDiffer

LEMMA WritesAre ==
    ASSUME NEW c, c \in Registry
    PROVE  /\ \A r, d :
                 WithDevice(c, r, d) = [revision |-> c.revision + 1, areas |-> c.areas,
                                        devices |-> [c.devices EXCEPT ![r] = d]]
           /\ \A a : WithArea(c, a) = [revision |-> c.revision + 1, areas |-> c.areas \cup {a},
                                      devices |-> c.devices]
<1>1. ASSUME NEW r, NEW d, NEW w, w = WithDevice(c, r, d)
      PROVE  w = [revision |-> c.revision + 1, areas |-> c.areas,
                  devices |-> [c.devices EXCEPT ![r] = d]]
  BY <1>1 DEF Registry, WithDevice
<1>2. ASSUME NEW a, NEW w, w = WithArea(c, a)
      PROVE  w = [revision |-> c.revision + 1, areas |-> c.areas \cup {a}, devices |-> c.devices]
  BY <1>2 DEF Registry, WithArea
<1>3. QED
  BY <1>1, <1>2

LEMMA DeviceWritten ==
    ASSUME ImporterAssumption, RegistryTypes, NEW r \in Refs, NEW d \in Device, Fits(registry, r),
           registry' = WithDevice(registry, r, d)
    PROVE  /\ RegistryTypes'
           /\ registry'.revision = registry.revision + 1
           /\ registry'.areas = registry.areas
           /\ registry'.devices = [registry.devices EXCEPT ![r] = d]
<1>1. /\ registry.devices \in [Refs -> Device \cup {None}] /\ registry.areas \in SUBSET Rooms
      /\ registry.revision \in Nat /\ d # None
  BY DEF RegistryTypes, Registry, ImporterAssumption
<1>2. /\ registry' \in Registry
      /\ registry'.revision = registry.revision + 1
      /\ registry'.areas = registry.areas
      /\ registry'.devices = [registry.devices EXCEPT ![r] = d]
  <2>1. registry \in Registry
    BY DEF RegistryTypes
  <2>2. registry' = [revision |-> registry.revision + 1, areas |-> registry.areas,
                     devices |-> [registry.devices EXCEPT ![r] = d]]
    BY <2>1, WritesAre
  <2>3. [registry.devices EXCEPT ![r] = d] \in [Refs -> Device \cup {None}]
    BY <1>1
  <2>4. QED
    BY <1>1, <2>2, <2>3 DEF Registry
<1>3. Known(registry'.devices) = Known(registry.devices) \cup {r}
  BY <1>1, <1>2 DEF Known
<1>4. IsFiniteSet(Known(registry.devices))
  BY FS_Subset DEF Known, ImporterAssumption
<1>5. r \in Known(registry.devices) <=> registry.devices[r] # None
  BY DEF Known
<1>6. Cardinality(Known(registry'.devices)) =< MAX_DEVICES
  <2>1. Cardinality(Known(registry.devices)) \in Nat
    BY <1>4, FS_CardinalityType
  <2>2. Cardinality(Known(registry.devices) \cup {r}) =
           IF r \in Known(registry.devices) THEN Cardinality(Known(registry.devices))
           ELSE Cardinality(Known(registry.devices)) + 1
    BY <1>4, FS_AddElement
  <2>3. QED
    BY <1>3, <1>5, <2>1, <2>2 DEF Fits, RegistryTypes, ImporterAssumption
<1>7. QED
  BY <1>2, <1>6 DEF RegistryTypes

LEMMA RespectfulWrite ==
    ASSUME ImporterAssumption, RegistryInv, NEW r \in Refs, NEW d \in Device, Fits(registry, r),
           Respects(registry, r, d), registry' = WithDevice(registry, r, d), edits' = edits
    PROVE  RegistryInv'
<1>1. RegistryTypes' /\ registry'.devices = [registry.devices EXCEPT ![r] = d]
  BY DeviceWritten DEF RegistryInv
<1>2. registry.devices \in [Refs -> Device \cup {None}] /\ d # None
  BY DEF RegistryInv, RegistryTypes, Registry, ImporterAssumption
<1>3. /\ registry'.devices[r] = d
      /\ \A q \in Refs \ {r} : registry'.devices[q] = registry.devices[q]
  BY <1>1, <1>2
<1>4. EditsAreMarked'
  <2> SUFFICES ASSUME NEW q \in Refs
               PROVE  /\ edits[q].name # None =>
                            /\ registry'.devices[q] # None
                            /\ registry'.devices[q].name = edits[q].name
                            /\ "name" \in registry'.devices[q].overrides
                      /\ edits[q].area_id # "unset" =>
                            /\ registry'.devices[q] # None
                            /\ registry'.devices[q].area_id = edits[q].area_id
                            /\ "area_id" \in registry'.devices[q].overrides
    BY DEF EditsAreMarked
  <2>1. CASE q = r
    BY <1>2, <1>3, <2>1 DEF RegistryInv, EditsAreMarked, Respects
  <2>2. CASE q # r
    BY <1>3, <2>2 DEF RegistryInv, EditsAreMarked
  <2>3. QED
    BY <2>1, <2>2
<1>5. UntouchedNamesDiffer'
  <2>1. ASSUME NEW q \in Known(registry.devices) \ {r}, d.overrides = {},
               registry.devices[q].overrides = {}, registry.devices[q].area_id = d.area_id
        PROVE  registry.devices[q].name # d.name
    <3>1. CASE d.name \notin Taken(registry.devices, d.area_id, r)
      BY <2>1, <3>1 DEF Taken
    <3>2. CASE /\ registry.devices[r] # None
               /\ d.name = registry.devices[r].name /\ d.area_id = registry.devices[r].area_id
      <4>1. registry.devices[r].overrides = {} /\ r \in Known(registry.devices)
        BY <2>1, <3>2 DEF Respects, Known
      <4>2. QED
        BY <2>1, <3>2, <4>1 DEF RegistryInv, UntouchedNamesDiffer
    <3>3. QED
      BY <2>1, <3>1, <3>2 DEF Respects
  <2>2. Known(registry'.devices) = Known(registry.devices) \cup {r}
    BY <1>2, <1>3 DEF Known
  <2> SUFFICES ASSUME NEW p \in Known(registry'.devices), NEW q \in Known(registry'.devices), p # q,
                      registry'.devices[p].overrides = {}, registry'.devices[q].overrides = {},
                      registry'.devices[p].area_id = registry'.devices[q].area_id
               PROVE  registry'.devices[p].name # registry'.devices[q].name
    BY DEF UntouchedNamesDiffer
  <2>3. p \in Refs /\ q \in Refs
    BY DEF Known
  <2>4. CASE p = r
    BY <1>3, <2>1, <2>2, <2>3, <2>4
  <2>5. CASE q = r
    BY <1>3, <2>1, <2>2, <2>3, <2>5
  <2>6. CASE p # r /\ q # r
    BY <1>3, <2>2, <2>3, <2>6 DEF RegistryInv, UntouchedNamesDiffer
  <2>7. QED
    BY <2>4, <2>5, <2>6
<1>6. QED
  BY <1>1, <1>4, <1>5 DEF RegistryInv

LEMMA AreaWritten ==
    ASSUME ImporterAssumption, RegistryInv, NEW a \in Rooms, NeedsArea(registry, a),
           registry' = WithArea(registry, a), edits' = edits
    PROVE  RegistryInv' /\ registry'.revision = registry.revision + 1
<1>1. /\ registry.devices \in [Refs -> Device \cup {None}] /\ registry.areas \in SUBSET Rooms
      /\ registry.revision \in Nat
  BY DEF RegistryInv, RegistryTypes, Registry
<1>2. /\ registry' \in Registry
      /\ registry'.revision = registry.revision + 1
      /\ registry'.areas = registry.areas \cup {a}
      /\ registry'.devices = registry.devices
  <2>1. registry \in Registry
    BY DEF RegistryInv, RegistryTypes
  <2>2. registry' = [revision |-> registry.revision + 1, areas |-> registry.areas \cup {a},
                     devices |-> registry.devices]
    BY <2>1, WritesAre
  <2>3. QED
    BY <1>1, <2>2 DEF Registry
<1>3. IsFiniteSet(registry.areas)
  BY <1>1, FS_Subset DEF ImporterAssumption
<1>4. Cardinality(registry'.areas) =< MAX_AREAS
  <2>1. Cardinality(registry.areas \cup {a}) = Cardinality(registry.areas) + 1
    BY <1>3, FS_AddElement DEF NeedsArea
  <2>2. Cardinality(registry.areas) \in Nat
    BY <1>3, FS_CardinalityType
  <2>3. QED
    BY <1>2, <2>1, <2>2 DEF NeedsArea, ImporterAssumption
<1>5. RegistryTypes'
  BY <1>2, <1>4 DEF RegistryInv, RegistryTypes
<1>6. EditsAreMarked' /\ UntouchedNamesDiffer'
  BY <1>2 DEF RegistryInv, EditsAreMarked, UntouchedNamesDiffer
<1>7. QED
  BY <1>2, <1>5, <1>6 DEF RegistryInv

-----------------------------------------------------------------------------
(* The steps. *)

LEMMA SyncTypes ==
    ASSUME TypeOK, NEW s \in Syncs
    PROVE  /\ syncs[s] \in Sync
           /\ syncs[s].phase = "discovered" => syncs[s].found \in Home
           /\ HasCopy(s) => /\ syncs[s] # Idle
                            /\ syncs[s].found \in Home /\ syncs[s].copy \in Registry
                            /\ syncs[s].todo \subseteq Refs
                            /\ syncs[s] = [phase |-> syncs[s].phase, found |-> syncs[s].found,
                                           copy |-> syncs[s].copy, todo |-> syncs[s].todo]
  BY DEF TypeOK, Sync, Idle, HasCopy

\* A write under the revision it was prepared for is a write to the registry itself
LEMMA SyncWrites ==
    ASSUME ImporterAssumption, ImporterInv, NEW s \in Syncs, NEW r \in Refs,
           syncs[s].phase = "writing", r \in Writes(s), Expected(s),
           registry' = [Written(s, r) EXCEPT !.revision = registry.revision + 1], edits' = edits
    PROVE  /\ RegistryInv' /\ registry'.revision = registry.revision + 1
           /\ Written(s, r) = registry'
<1>1. RegistryInv /\ registry \in Registry /\ TypeOK
  BY DEF ImporterInv, TypeOK, RegistryInv, RegistryTypes
<1>2. /\ syncs[s].found \in Home /\ syncs[s].todo \subseteq Lists(syncs[s].found)
      /\ syncs[s].copy = registry
  BY <1>1, SyncTypes DEF HasCopy, ImporterInv, CopiesAreTrue, TodoIsListed, Expected
<1>3. ASSUME NEW c \in Registry, Written(s, r) = c, c.revision = registry.revision + 1
      PROVE  registry' = c
  BY <1>3 DEF Registry
<1>4. registry.devices \in [Refs -> Device \cup {None}] /\ registry.revision \in Nat
      /\ registry.areas \in SUBSET Rooms
  BY <1>1 DEF Registry
<1>5. ASSUME NEW d \in Device, Written(s, r) = WithDevice(registry, r, d),
             Fits(registry, r), Respects(registry, r, d)
      PROVE  /\ RegistryInv' /\ registry'.revision = registry.revision + 1
             /\ Written(s, r) = registry'
  <2>1. WithDevice(registry, r, d) = [revision |-> registry.revision + 1, areas |-> registry.areas,
                                      devices |-> [registry.devices EXCEPT ![r] = d]]
    BY <1>1, WritesAre
  <2>2. [registry.devices EXCEPT ![r] = d] \in [Refs -> Device \cup {None}]
    BY <1>4
  <2>3. WithDevice(registry, r, d) \in Registry
        /\ WithDevice(registry, r, d).revision = registry.revision + 1
    BY <1>4, <2>1, <2>2 DEF Registry
  <2>4. registry' = WithDevice(registry, r, d)
    BY <1>3, <1>5, <2>3
  <2>5. QED
    BY <1>1, <1>5, <2>3, <2>4, RespectfulWrite
<1>6. CASE r \in Orphans(s)
  <2> DEFINE d == [registry.devices[r] EXCEPT !.orphaned = TRUE]
  <2>1. registry.devices[r] \in Device /\ registry.devices[r] # None
    BY <1>2, <1>4, <1>6 DEF Orphans, Known
  <2>2. /\ d \in Device /\ d.overrides = registry.devices[r].overrides
        /\ d.name = registry.devices[r].name /\ d.area_id = registry.devices[r].area_id
    BY <2>1 DEF Device
  <2>3. Written(s, r) = WithDevice(registry, r, d)
    BY <1>2, <1>6 DEF Written
  <2> HIDE DEF d
  <2>4. Respects(registry, r, d) /\ Fits(registry, r)
    BY <2>1, <2>2 DEF Respects, Fits
  <2>5. QED
    BY <1>5, <2>2, <2>3, <2>4
<1>7. CASE r \notin Orphans(s)
  <2> DEFINE l == syncs[s].found[r]
  <2>1. r \in syncs[s].todo /\ ~Settled(s, r)
    BY <1>7 DEF Writes
  <2>2. l \in Listed
    BY <1>2, <2>1 DEF Home, Lists
  <2>3. CASE NeedsArea(registry, l.area)
    <3>1. l.area \in Rooms
      BY <2>2, <2>3 DEF NeedsArea, Listed, Area
    <3>2. Written(s, r) = WithArea(registry, l.area)
      BY <1>2, <1>7, <2>3 DEF Written
    <3> HIDE DEF l
    <3>3. WithArea(registry, l.area) = [revision |-> registry.revision + 1,
                                        areas |-> registry.areas \cup {l.area},
                                        devices |-> registry.devices]
      BY <1>1, <3>1, WritesAre
    <3>4. WithArea(registry, l.area) \in Registry
          /\ WithArea(registry, l.area).revision = registry.revision + 1
      BY <1>4, <3>1, <3>3 DEF Registry
    <3>5. registry' = WithArea(registry, l.area)
      BY <1>3, <3>2, <3>4
    <3>6. QED
      BY <1>1, <2>3, <3>1, <3>2, <3>5, AreaWritten
  <2>4. CASE ~NeedsArea(registry, l.area)
    <3>1. Fits(registry, r)
      BY <1>2, <2>1, <2>4 DEF Settled
    <3>2. Written(s, r) = WithDevice(registry, r, Overlaid(registry, l, r))
      BY <1>2, <1>7, <2>4 DEF Written
    <3> HIDE DEF l
    <3>3. QED
      BY <1>1, <1>5, <2>2, <3>1, <3>2, OverlayRespects
  <2>5. QED
    BY <2>3, <2>4
<1>8. QED
  BY <1>6, <1>7

\* Synchronisation s goes on as k; the registry is the one it was, or one further
LEMMA SyncGoesOn ==
    ASSUME ImporterInv, NEW s \in Syncs, NEW k \in Sync, Goes(s, k), registry' \in Registry,
           registry' = registry \/ registry'.revision = registry.revision + 1,
           k.phase = "writing" =>
              /\ k.copy.revision =< registry'.revision
              /\ k.copy.revision = registry'.revision => k.copy = registry'
              /\ k.todo \subseteq Lists(k.found)
    PROVE  syncs' \in [Syncs -> Sync] /\ CopiesAreTrue' /\ TodoIsListed'
<1>1. TypeOK /\ syncs \in [Syncs -> Sync] /\ registry.revision \in Nat /\ registry'.revision \in Nat
  BY DEF ImporterInv, TypeOK, Registry
<1>2. syncs' \in [Syncs -> Sync] /\ syncs'[s] = k /\ \A x \in Syncs \ {s} : syncs'[x] = syncs[x]
  BY <1>1 DEF Goes
<1>3. ASSUME NEW x \in Syncs, HasCopy(x)
      PROVE  syncs[x].copy.revision \in Nat
  BY <1>1, <1>3, SyncTypes DEF Registry
<1>4. ASSUME NEW x \in Syncs, HasCopy(x)'
      PROVE  /\ syncs'[x].copy.revision =< registry'.revision
             /\ syncs'[x].copy.revision = registry'.revision => syncs'[x].copy = registry'
             /\ syncs'[x].todo \subseteq Lists(syncs'[x].found)
  <2>1. CASE x = s
    BY <1>2, <1>4, <2>1 DEF HasCopy
  <2>2. CASE x # s
    <3>1. syncs'[x] = syncs[x] /\ HasCopy(x)
      BY <1>2, <1>4, <2>2 DEF HasCopy
    <3>2. /\ syncs[x].copy.revision =< registry.revision
          /\ syncs[x].copy.revision = registry.revision => syncs[x].copy = registry
          /\ syncs[x].todo \subseteq Lists(syncs[x].found)
      BY <3>1 DEF ImporterInv, CopiesAreTrue, TodoIsListed
    <3>3. QED
      BY <1>1, <1>3, <3>1, <3>2
  <2>3. QED
    BY <2>1, <2>2
<1>5. QED
  BY <1>2, <1>4 DEF CopiesAreTrue, TodoIsListed

LEMMA SyncsStay ==
    ASSUME ImporterInv, syncs' = syncs, registry' \in Registry,
           registry' = registry \/ registry'.revision = registry.revision + 1
    PROVE  CopiesAreTrue' /\ TodoIsListed'
<1>1. TypeOK /\ registry.revision \in Nat /\ registry'.revision \in Nat
  BY DEF ImporterInv, TypeOK, Registry
<1>2. ASSUME NEW x \in Syncs, HasCopy(x)
      PROVE  syncs[x].copy.revision \in Nat
  BY <1>1, <1>2, SyncTypes DEF Registry
<1>3. QED
  BY <1>1, <1>2 DEF ImporterInv, CopiesAreTrue, TodoIsListed, HasCopy

LEMMA HappensOnce ==
    ASSUME ImporterAssumption, TypeOK, Happens
    PROVE  events' \in 0..MaxEvents
  BY DEF ImporterAssumption, TypeOK, Happens

LEMMA HomeKeepsInv ==
    ASSUME ImporterAssumption, ImporterInv, NEW r \in Refs, NEW l \in Listed \cup {None},
           HomeChanges(r, l)
    PROVE  ImporterInv'
<1>1. /\ TypeOK /\ registry' = registry /\ syncs' = syncs /\ edits' = edits
  BY DEF ImporterInv, HomeChanges
<1>2. CopiesAreTrue' /\ TodoIsListed' /\ EditsAreMarked' /\ UntouchedNamesDiffer'
  BY <1>1 DEF ImporterInv, CopiesAreTrue, TodoIsListed, EditsAreMarked, UntouchedNamesDiffer, HasCopy
<1>3. home' \in Home
  BY <1>1 DEF HomeChanges, TypeOK, Home
<1>4. events' \in 0..MaxEvents
  BY <1>1, HappensOnce DEF HomeChanges
<1>5. QED
  BY <1>1, <1>2, <1>3, <1>4 DEF TypeOK, ImporterInv

\* The Owner's write is the Owner's: no name of such a device is held against another's
LEMMA EditKeepsInv ==
    ASSUME ImporterAssumption, ImporterInv, NEW r \in Refs, NEW d \in Device,
           registry.devices[r] # None, d.overrides # {}, Edited(r, d),
           edits' \in [Refs -> [name : Name \cup {None}, area_id : Area \cup {"unset"}]],
           \A q \in Refs \ {r} : edits'[q] = edits[q],
           edits'[r].name # None => d.name = edits'[r].name /\ "name" \in d.overrides,
           edits'[r].area_id # "unset" => d.area_id = edits'[r].area_id /\ "area_id" \in d.overrides
    PROVE  ImporterInv'
<1>1. TypeOK /\ RegistryTypes /\ registry \in Registry /\ syncs' = syncs
  BY DEF ImporterInv, TypeOK, RegistryTypes, Edited
<1>2. registry' = WithDevice(registry, r, d) /\ Fits(registry, r)
  BY DEF Edited, WithDevice, Fits
<1>3. /\ RegistryTypes' /\ registry'.revision = registry.revision + 1
      /\ registry'.devices = [registry.devices EXCEPT ![r] = d]
  BY <1>1, <1>2, DeviceWritten
<1>4. /\ registry'.devices[r] = d /\ d # None
      /\ \A q \in Refs \ {r} : registry'.devices[q] = registry.devices[q]
  BY <1>1, <1>3 DEF Registry, ImporterAssumption
<1>5. CopiesAreTrue' /\ TodoIsListed'
  BY <1>1, <1>3, SyncsStay DEF RegistryTypes
<1>6. EditsAreMarked'
  <2> SUFFICES ASSUME NEW q \in Refs
               PROVE  /\ edits'[q].name # None =>
                            /\ registry'.devices[q] # None
                            /\ registry'.devices[q].name = edits'[q].name
                            /\ "name" \in registry'.devices[q].overrides
                      /\ edits'[q].area_id # "unset" =>
                            /\ registry'.devices[q] # None
                            /\ registry'.devices[q].area_id = edits'[q].area_id
                            /\ "area_id" \in registry'.devices[q].overrides
    BY DEF EditsAreMarked
  <2>1. CASE q = r
    BY <1>4, <2>1
  <2>2. CASE q # r
    BY <1>4, <2>2 DEF ImporterInv, EditsAreMarked
  <2>3. QED
    BY <2>1, <2>2
<1>7. UntouchedNamesDiffer'
  <2>1. \A q \in Known(registry'.devices) :
           registry'.devices[q].overrides = {} =>
              q \in Known(registry.devices) /\ registry'.devices[q] = registry.devices[q]
    BY <1>4 DEF Known
  <2>2. QED
    BY <2>1 DEF ImporterInv, UntouchedNamesDiffer
<1>8. events' \in 0..MaxEvents
  BY <1>1, HappensOnce DEF Edited
<1>9. QED
  BY <1>1, <1>3, <1>5, <1>6, <1>7, <1>8
     DEF Edited, TypeOK, RegistryTypes, ImporterInv

LEMMA OwnerKeepsInv ==
    ASSUME ImporterAssumption, ImporterInv, NEW r \in Refs,
           (\E n \in Name : Rename(r, n)) \/ (\E a \in Rooms : Move(r, a))
    PROVE  ImporterInv'
<1> DEFINE d == registry.devices[r]
<1>1. d # None /\ d \in Device
  BY DEF Rename, Move, ImporterInv, TypeOK, Registry
<1>2. edits \in [Refs -> [name : Name \cup {None}, area_id : Area \cup {"unset"}]]
  BY DEF ImporterInv, TypeOK
<1>3. ASSUME NEW n \in Name, Rename(r, n)
      PROVE  ImporterInv'
  <2> DEFINE e == [d EXCEPT !.name = n, !.overrides = d.overrides \cup {"name"}]
  <2>1. /\ e \in Device /\ e.name = n /\ e.area_id = d.area_id
        /\ e.overrides = d.overrides \cup {"name"}
    BY <1>1 DEF Device, Fields
  <2>2. Edited(r, e) /\ edits' = [edits EXCEPT ![r].name = n]
    BY <1>3 DEF Rename
  <2>3. /\ edits' \in [Refs -> [name : Name \cup {None}, area_id : Area \cup {"unset"}]]
        /\ edits'[r].name = n /\ edits'[r].area_id = edits[r].area_id
        /\ \A q \in Refs \ {r} : edits'[q] = edits[q]
    BY <1>2, <2>2
  <2>4. edits[r].area_id # "unset" => d.area_id = edits[r].area_id /\ "area_id" \in d.overrides
    BY DEF ImporterInv, EditsAreMarked
  <2> HIDE DEF e
  <2>5. QED
    BY <1>1, <2>1, <2>2, <2>3, <2>4, EditKeepsInv
<1>4. ASSUME NEW a \in Rooms, Move(r, a)
      PROVE  ImporterInv'
  <2> DEFINE e == [d EXCEPT !.area_id = a, !.overrides = d.overrides \cup {"area_id"}]
  <2>1. /\ e \in Device /\ e.name = d.name /\ e.area_id = a
        /\ e.overrides = d.overrides \cup {"area_id"}
    BY <1>1 DEF Device, Fields, Area
  <2>2. Edited(r, e) /\ edits' = [edits EXCEPT ![r].area_id = a]
    BY <1>4 DEF Move
  <2>3. /\ edits' \in [Refs -> [name : Name \cup {None}, area_id : Area \cup {"unset"}]]
        /\ edits'[r].name = edits[r].name /\ edits'[r].area_id = a
        /\ \A q \in Refs \ {r} : edits'[q] = edits[q]
    BY <1>2, <2>2 DEF Area
  <2>4. edits[r].name # None => d.name = edits[r].name /\ "name" \in d.overrides
    BY DEF ImporterInv, EditsAreMarked
  <2> HIDE DEF e
  <2>5. QED
    BY <1>1, <2>1, <2>2, <2>3, <2>4, EditKeepsInv
<1>5. QED
  BY <1>3, <1>4

LEMMA SyncKeepsInv ==
    ASSUME ImporterAssumption, ImporterInv, NEW s \in Syncs,
           \/ Discover(s) \/ Read(s) \/ Conflict(s) \/ Fail(s) \/ WrittenAll(s)
           \/ \E r \in Refs : Pass(s, r) \/ Write(s, r) \/ WriteLost(s, r)
    PROVE  ImporterInv'
<1>1. /\ TypeOK /\ RegistryTypes /\ registry \in Registry /\ registry.revision \in Nat
      /\ syncs \in [Syncs -> Sync] /\ home \in Home
  BY DEF ImporterInv, TypeOK, RegistryTypes, Registry
<1>2. home' = home /\ edits' = edits
  BY DEF Discover, Read, Conflict, Fail, WrittenAll, Pass, Write, WriteLost
<1>3. events' \in 0..MaxEvents
  BY <1>1, HappensOnce DEF Discover, Read, Conflict, Fail, WrittenAll, Pass, Write,
     WriteLost, TypeOK
<1>4. ASSUME RegistryInv',
             syncs' \in [Syncs -> Sync] /\ CopiesAreTrue' /\ TodoIsListed'
      PROVE  ImporterInv'
  BY <1>1, <1>2, <1>3, <1>4 DEF ImporterInv, TypeOK, RegistryInv, RegistryTypes
<1>5. RegistryInv
  BY <1>1 DEF TypeOK, ImporterInv, RegistryInv
<1>6. ASSUME registry' = registry
      PROVE  RegistryInv' /\ registry' \in Registry
  BY <1>1, <1>2, <1>5, <1>6 DEF RegistryInv, RegistryTypes, EditsAreMarked, UntouchedNamesDiffer
<1>7. Idle \in Sync /\ Idle.phase = "idle"
  BY DEF Sync, Idle
<1>8. ASSUME HasCopy(s)
      PROVE  /\ syncs[s].found \in Home /\ syncs[s].copy \in Registry
             /\ syncs[s].todo \subseteq Refs /\ syncs[s].todo \subseteq Lists(syncs[s].found)
             /\ syncs[s].copy.revision =< registry.revision
             /\ syncs[s].copy.revision = registry.revision => syncs[s].copy = registry
             /\ syncs[s] = [phase |-> syncs[s].phase, found |-> syncs[s].found,
                            copy |-> syncs[s].copy, todo |-> syncs[s].todo]
  BY <1>1, <1>8, SyncTypes DEF ImporterInv, CopiesAreTrue, TodoIsListed
<1>9. ASSUME NEW k, Goes(s, k), registry' = registry, k \in Sync,
             k.phase = "writing" =>
                /\ k.copy.revision =< registry.revision
                /\ k.copy.revision = registry.revision => k.copy = registry
                /\ k.todo \subseteq Lists(k.found)
      PROVE  ImporterInv'
  <2>1. syncs' \in [Syncs -> Sync] /\ CopiesAreTrue' /\ TodoIsListed'
    BY <1>6, <1>9, SyncGoesOn
  <2>2. QED
    BY <1>4, <1>5, <1>6, <1>9, <2>1
<1>10. CASE Discover(s)
  <2> DEFINE k == [phase |-> "discovered", found |-> home]
  <2>1. k \in Sync /\ k.phase = "discovered"
    BY <1>1 DEF Sync
  <2>2. QED
    BY <1>9, <1>10, <2>1 DEF Discover
<1>11. CASE Read(s)
  <2> DEFINE k == [phase |-> "writing", found |-> syncs[s].found, copy |-> registry,
                   todo |-> Lists(syncs[s].found)]
  <2>1. syncs[s].found \in Home
    BY <1>1, <1>11, SyncTypes DEF Read
  <2>2. k \in Sync /\ k.copy = registry /\ k.todo = Lists(k.found)
    BY <1>1, <2>1 DEF Sync, Lists
  <2> HIDE DEF k
  <2>3. k.copy.revision =< registry.revision
    BY <1>1, <2>2
  <2>4. Goes(s, k) /\ registry' = registry
    BY <1>11 DEF Read, k
  <2>5. QED
    BY <1>9, <2>2, <2>3, <2>4
<1>12. CASE Conflict(s) \/ Fail(s) \/ WrittenAll(s)
  BY <1>7, <1>9, <1>12 DEF Conflict, Fail, WrittenAll
<1>13. ASSUME NEW r \in Refs, Pass(s, r)
       PROVE  ImporterInv'
  <2> DEFINE k == [syncs[s] EXCEPT !.todo = syncs[s].todo \ {r}]
  <2>1. HasCopy(s)
    BY <1>13 DEF Pass, HasCopy
  <2>2. /\ k \in Sync /\ k.copy = syncs[s].copy /\ k.found = syncs[s].found
        /\ k.todo \subseteq syncs[s].todo
    <3>1. k = [phase |-> syncs[s].phase, found |-> syncs[s].found,
               copy |-> syncs[s].copy, todo |-> syncs[s].todo \ {r}]
      BY <1>8, <2>1
    <3>2. QED
      BY <1>8, <2>1, <3>1 DEF Sync, HasCopy
  <2>3. Goes(s, k) /\ registry' = registry
    BY <1>13 DEF Pass
  <2> HIDE DEF k
  <2>4. syncs' \in [Syncs -> Sync] /\ CopiesAreTrue' /\ TodoIsListed'
    <3>1. /\ k.copy.revision =< registry'.revision
          /\ k.copy.revision = registry'.revision => k.copy = registry'
          /\ k.todo \subseteq Lists(k.found)
      BY <1>8, <2>1, <2>2, <2>3
    <3>2. QED
      BY <1>6, <2>2, <2>3, <3>1, SyncGoesOn
  <2>5. QED
    BY <1>4, <1>6, <2>3, <2>4
<1>14. ASSUME NEW r \in Refs, Write(s, r) \/ WriteLost(s, r)
       PROVE  ImporterInv'
  <2>1. HasCopy(s) /\ syncs[s].phase = "writing"
    BY <1>14 DEF Write, WriteLost, HasCopy
  <2>2. /\ RegistryInv' /\ registry'.revision = registry.revision + 1
        /\ Written(s, r) = registry'
    BY <1>2, <1>14, SyncWrites DEF Write, WriteLost
  <2>3. registry' \in Registry
    BY <1>14, <2>2 DEF RegistryInv, RegistryTypes, Write, WriteLost
  <2> DEFINE k == [syncs[s] EXCEPT !.copy = Written(s, r)]
  <2>4. CASE Write(s, r)
    <3>1. k \in Sync /\ k.copy = registry' /\ k.found = syncs[s].found /\ k.todo = syncs[s].todo
      <4>1. k = [phase |-> "writing", found |-> syncs[s].found,
                 copy |-> registry', todo |-> syncs[s].todo]
        BY <1>8, <2>1, <2>2
      <4>2. QED
        BY <1>8, <2>1, <2>3, <4>1 DEF Sync
    <3>2. Goes(s, k)
      BY <2>4 DEF Write
    <3>3. registry'.revision \in Nat
      BY <2>3 DEF Registry
    <3> HIDE DEF k
    <3>4. k.copy.revision =< registry'.revision /\ k.todo \subseteq Lists(k.found)
      BY <1>8, <2>1, <3>1, <3>3
    <3>5. syncs' \in [Syncs -> Sync] /\ CopiesAreTrue' /\ TodoIsListed'
      BY <2>2, <2>3, <3>1, <3>2, <3>4, SyncGoesOn
    <3>6. QED
      BY <1>4, <1>5, <2>2, <2>3, <3>5
  <2>5. CASE WriteLost(s, r)
    <3>1. syncs' \in [Syncs -> Sync] /\ CopiesAreTrue' /\ TodoIsListed'
      BY <1>7, <2>2, <2>3, <2>5, SyncGoesOn DEF WriteLost
    <3>2. QED
      BY <1>4, <1>5, <2>2, <2>3, <3>1
  <2>6. QED
    BY <1>14, <2>4, <2>5
<1>15. QED
  BY <1>10, <1>11, <1>12, <1>13, <1>14

-----------------------------------------------------------------------------

\* The inductive invariant of registry, copies and edits
THEOREM ImporterInvariant == Spec => []ImporterInv
<1>1. Init => ImporterInv
  <2> SUFFICES ASSUME Init
               PROVE  ImporterInv
    OBVIOUS
  <2>1. /\ Known(registry.devices) = {} /\ registry.areas = {} /\ registry.revision = 0
        /\ registry.devices = [r \in Refs |-> None]
    BY DEF Init, Known
  <2>2. Cardinality(Known(registry.devices)) = 0 /\ Cardinality(registry.areas) = 0
    BY <2>1, FS_EmptySet
  <2>3. registry \in Registry
    BY DEF Init, Registry
  <2>4. TypeOK
    BY <2>2, <2>3, ImporterAssumption DEF Init, TypeOK, Sync, ImporterAssumption
  <2>5. CopiesAreTrue /\ TodoIsListed
    BY DEF Init, CopiesAreTrue, TodoIsListed, HasCopy, Idle
  <2>6. EditsAreMarked /\ UntouchedNamesDiffer
    BY <2>1 DEF Init, EditsAreMarked, UntouchedNamesDiffer
  <2>7. QED
    BY <2>4, <2>5, <2>6 DEF ImporterInv
<1>2. ImporterInv /\ [Next]_vars => ImporterInv'
  <2> SUFFICES ASSUME ImporterInv, [Next]_vars
               PROVE  ImporterInv'
    OBVIOUS
  <2>1. CASE UNCHANGED vars
    BY <2>1 DEF vars, ImporterInv, TypeOK, CopiesAreTrue, TodoIsListed, EditsAreMarked,
                UntouchedNamesDiffer, HasCopy
  <2>2. CASE Next
    BY <2>2, ImporterAssumption, HomeKeepsInv, OwnerKeepsInv, SyncKeepsInv DEF Next
  <2>3. QED
    BY <2>1, <2>2
<1>3. QED
  BY <1>1, <1>2, PTL DEF Spec

\* What the Owner wrote last of a device's name and area is in the registry, whatever
\* synchronisations were under way when it was written (importer.py:5-6)
THEOREM OwnersEditsSurvive == Spec => []EditsSurvive
<1>1. ImporterInv => EditsSurvive
  BY DEF ImporterInv, EditsAreMarked, EditsSurvive
<1>2. QED
  BY <1>1, ImporterInvariant, PTL

\* Devices of an area whose names and areas the Owner has left alone have different
\* names (_unique_name), although each was named after a copy of the registry
THEOREM ImportedNamesDiffer == Spec => []UntouchedNamesDiffer
<1>1. ImporterInv => UntouchedNamesDiffer
  BY DEF ImporterInv
<1>2. QED
  BY <1>1, ImporterInvariant, PTL

\* Registry and synchronisations keep to their types, and the registry to its limits
THEOREM ImporterTypes == Spec => []TypeOK
<1>1. ImporterInv => TypeOK
  BY DEF ImporterInv
<1>2. QED
  BY <1>1, ImporterInvariant, PTL

=============================================================================
