--------------------------- MODULE ObservationCache ---------------------------
(***************************************************************************)
(* What was last observed of an Owner's devices, numbered so that a reader *)
(* can ask for everything after a number (hub/integration/observation.py), *)
(* and the long polls that do (POST /changes).  Observations come from the *)
(* registry refresh, from account observers and from finished commands;    *)
(* the refresh forgets the devices that left the registry.                 *)
(*                                                                         *)
(* A put and its wake-up, and a read and the falling asleep after it, have *)
(* no suspension between them: each is one step.  The refresh suspends     *)
(* while Data answers, a command while the Provider carries it out.        *)
(***************************************************************************)
EXTENDS FiniteSets, FiniteSetsExt, Functions, Naturals

CONSTANTS
    Refs,        \* the devices, by their references
    Polled,      \* the devices of Providers whose states the refresh asks for
    Contents,    \* what can be observed of a device: its state, or unreachable
    Readers,     \* callers of POST /changes
    Nothing,     \* no row, no registry, never told
    MaxSeq       \* bound of the sequence numbers

VARIABLES
    rows,        \* the table observations: device -> content and number
    readers,     \* each reader's number, its poll, and what it was told
    source,      \* the devices of the registry kept by Data
    lastRead,    \* the registry last read (_Owner.registry)
    fetched,     \* the registry a refresh received and has not yet applied
    running,     \* the devices a command is being carried out on
    issued,      \* history: the highest number handed out
    reissued     \* history: whether a number was handed out twice

registry == <<source, lastRead, fetched, running>>
cacheVars == <<rows, readers, registry, issued, reissued>>

-----------------------------------------------------------------------------
Row == [content : Contents, seq : Nat \ {0}]

ASSUME CacheAssumption ==
    /\ Polled \subseteq Refs /\ IsFiniteSet(Refs)
    /\ Nothing \notin Contents /\ Nothing \notin Row /\ MaxSeq \in Nat

Table == [Refs -> Row \cup {Nothing}]

Reader ==
    [cursor : 0..MaxSeq, poll : {"none", "asleep", "woken"},
     told : [Refs -> Contents \cup {Nothing}]]

CacheTypeOK ==
    /\ rows \in Table
    /\ readers \in [Readers -> Reader]
    /\ source \subseteq Refs
    /\ lastRead \in (SUBSET Refs) \cup {Nothing}
    /\ fetched \in (SUBSET Refs) \cup {Nothing}
    /\ running \subseteq Refs
    /\ issued \in 0..MaxSeq
    /\ reissued \in BOOLEAN

Present(table) == {d \in Refs : table[d] # Nothing}

\* SELECT MAX(seq), or 0.
Latest(table) == Max({table[d].seq : d \in Present(table)} \cup {0})

CacheInit ==
    /\ rows = [d \in Refs |-> Nothing]
    /\ readers = [r \in Readers |->
                    [cursor |-> 0, poll |-> "none", told |-> [d \in Refs |-> Nothing]]]
    /\ source = Refs
    /\ lastRead = Nothing
    /\ fetched = Nothing
    /\ running = {}
    /\ issued = 0
    /\ reissued = FALSE

-----------------------------------------------------------------------------
(* Observations. *)

(***************************************************************************)
(* Observations obs, a function on some of the devices, are put one after  *)
(* the other in an order nobody chose.  A put that changes nothing leaves  *)
(* its row and the counting alone, so that the changed ones get the        *)
(* numbers after the highest in the table, each its own.                   *)
(***************************************************************************)
Same(d, c) == IF rows[d] = Nothing THEN FALSE ELSE rows[d].content = c

ChangedBy(obs) == {d \in DOMAIN obs : ~Same(d, obs[d])}

Orders(ds) == Injection(ds, 1..Cardinality(ds))

\* Mutant: the number of a row that exists is left as it was.
NumberedOnce(d, c, i) ==
    [content |-> c, seq |-> IF rows[d] = Nothing THEN Latest(rows) + i ELSE rows[d].seq]

\* The row of the i-th that changed.
Numbered(d, c, i) == [content |-> c, seq |-> Latest(rows) + i]

\* The table after the observations, whose changed ones came in this order.
Seen(obs, order) ==
    [d \in Refs |->
        IF d \in DOMAIN order THEN Numbered(d, obs[d], order[d]) ELSE rows[d]]

\* Mutant: only a device that was not in the table wakes the polls.
WokenByNew(table) == \E d \in Refs : rows[d] = Nothing /\ table[d] # Nothing

\* The polls are woken when a put changed something.
WokenBy(table) == \E d \in Refs : table[d] # Nothing /\ table[d] # rows[d]

\* The table becomes the one given, without the devices gone, and the polls are woken.
Become(table, gone) ==
    /\ Latest(table) =< MaxSeq
    /\ rows' = [d \in Refs |-> IF d \in gone THEN Nothing ELSE table[d]]
    /\ issued' = Max({issued, Latest(table)})
    /\ reissued' = (reissued \/ (Latest(table) > Latest(rows) /\ Latest(rows) < issued))
    /\ readers' = [r \in Readers |->
         IF readers[r].poll = "asleep" /\ WokenBy(table)
         THEN [readers[r] EXCEPT !.poll = "woken"] ELSE readers[r]]

\* The observations are put, then the devices gone are forgotten.
Observe(obs, gone) == \E order \in Orders(ChangedBy(obs)) : Become(Seen(obs, order), gone)

\* An observer of an account reports on a device of the registry it has just read.
Report(d, c) ==
    /\ lastRead # Nothing
    /\ d \in lastRead
    /\ Observe([x \in {d} |-> c], {})
    /\ UNCHANGED registry

\* A command goes out to a device of the registry.
CommandStarts(d) ==
    /\ lastRead # Nothing
    /\ d \in lastRead \ running
    /\ running' = running \cup {d}
    /\ UNCHANGED <<rows, readers, source, lastRead, fetched, issued, reissued>>

\* What it left behind is recorded, whatever became of the registry meanwhile.
CommandEnds(d, c) ==
    /\ d \in running
    /\ Observe([x \in {d} |-> c], {})
    /\ running' = running \ {d}
    /\ UNCHANGED <<source, lastRead, fetched>>

\* It failed, or its outcome is unknown: nothing is recorded.
Give(d) ==
    /\ d \in running
    /\ running' = running \ {d}
    /\ UNCHANGED <<rows, readers, source, lastRead, fetched, issued, reissued>>

-----------------------------------------------------------------------------
(* The registry refresh, under the Owner's lock. *)

\* The Owner, or an import, changes the registry in Data.
Edit(ds) ==
    /\ source' = ds
    /\ UNCHANGED <<rows, readers, lastRead, fetched, running, issued, reissued>>

Fetch ==
    /\ fetched = Nothing
    /\ fetched' = source
    /\ UNCHANGED <<rows, readers, source, lastRead, running, issued, reissued>>

FetchFails ==
    /\ fetched # Nothing
    /\ fetched' = Nothing
    /\ UNCHANGED <<rows, readers, source, lastRead, running, issued, reissued>>

\* The devices of the former registry that are not in the new one.
Gone == IF lastRead = Nothing THEN {} ELSE lastRead \ fetched

\* The polled states are put and the devices that are gone forgotten.
Apply(seen) ==
    /\ fetched # Nothing
    /\ Observe([d \in fetched \cap Polled |-> seen[d]], Gone)
    /\ lastRead' = fetched
    /\ fetched' = Nothing
    /\ UNCHANGED <<source, running>>

-----------------------------------------------------------------------------
(* The long polls. *)

After(n) == {d \in Present(rows) : rows[d].seq > n}

\* The answer of POST /changes: everything after the reader's number, and the
\* number to ask with the next time, which is the highest in the table either way.
Reply(r) ==
    LET changes == After(readers[r].cursor) IN
    [cursor |-> Latest(rows), poll |-> "none",
     told |-> [d \in Refs |->
        IF d \in changes THEN rows[d].content ELSE readers[r].told[d]]]

Ask(r) ==
    /\ readers[r].poll = "none"
    /\ readers' = [readers EXCEPT ![r] =
         IF After(@.cursor) # {} THEN Reply(r) ELSE [@ EXCEPT !.poll = "asleep"]]
    /\ UNCHANGED <<rows, registry, issued, reissued>>

\* The poll looks again after a wake-up, and sleeps on when there is nothing for it.
Resume(r) ==
    /\ readers[r].poll = "woken"
    /\ readers' = [readers EXCEPT ![r] =
         IF After(@.cursor) # {} THEN Reply(r) ELSE [@ EXCEPT !.poll = "asleep"]]
    /\ UNCHANGED <<rows, registry, issued, reissued>>

\* Its time is up: it looks once more and answers what there is.
TimeOut(r) ==
    /\ readers[r].poll # "none"
    /\ readers' = [readers EXCEPT ![r] = Reply(r)]
    /\ UNCHANGED <<rows, registry, issued, reissued>>

\* The Hub stops and starts: the table stays, its readers ask again.
CacheRestart ==
    /\ readers' = [r \in Readers |-> [readers[r] EXCEPT !.poll = "none"]]
    /\ lastRead' = Nothing
    /\ fetched' = Nothing
    /\ running' = {}
    /\ UNCHANGED <<rows, source, issued, reissued>>

-----------------------------------------------------------------------------
CacheNext ==
    \/ \E d \in Refs, c \in Contents : Report(d, c) \/ CommandEnds(d, c)
    \/ \E d \in Refs : CommandStarts(d) \/ Give(d)
    \/ \E ds \in SUBSET Refs : Edit(ds)
    \/ Fetch \/ FetchFails
    \/ \E seen \in [Polled -> Contents] : Apply(seen)
    \/ \E r \in Readers : Ask(r) \/ Resume(r) \/ TimeOut(r)
    \/ CacheRestart

CacheSpec == CacheInit /\ [][CacheNext]_cacheVars

-----------------------------------------------------------------------------
(* Properties. *)

\* A poll that sleeps and has not been woken has nothing to answer
\* (changes_since, observation.py:128-143): no change is slept through.
SleepersMissNothing ==
    \A r \in Readers : readers[r].poll = "asleep" => After(readers[r].cursor) = {}

WasTold(r, d) == rows[d].seq =< readers[r].cursor => readers[r].told[d] = rows[d].content

\* A reader was told the content of every row up to its number, unless a number
\* was handed out twice: answers, numbers and wake-ups leave no other gap.
ToldUnlessReissued ==
    ~reissued => \A r \in Readers, d \in Present(rows) : WasTold(r, d)

\* What observation.py:4-5 says: "a reader holding (owner, seq) asks for
\* everything after it".  A reader was told the content of every row up to its
\* number.
ToldEverything == \A r \in Readers, d \in Present(rows) : WasTold(r, d)

=============================================================================
