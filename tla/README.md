# A verification of the Eidolon Hub

TLA+ models of the parts of the Hub that keep state others rely on, what TLC
checks about them on small instances, and what is proved about them with TLAPS
for every instance.

## The system

The Hub is one asyncio process with one SQLite database for a household (an
*Owner Domain*). It admits devices (*bodies*), remembers under which *Claim* each
of them lives, tells a body that lost its Claim to erase what it holds, revokes
its channels with a Provider, and runs smart-home commands. Its concurrency is
cooperative: coroutines interleave at every `await`, several `asyncio.Lock`s each
serialise one store, and every store transaction is atomic. Crashes lose the
memory of the process and nothing committed.

| Part | State it keeps | Operations | Hard behaviour |
|---|---|---|---|
| Admission Authority (`admission/`) | proposals, decisions, grants and their acks, Claims, vouchers, key bindings, standings, withdrawals, event stream, the Claim columns of the device row | create (by voucher, by continuation), decide, cancel, collect, acknowledge, revoke, expire, record standing, withdraw Controller, recovery reads | commands of two transactions with a sweep first; several enrollments of one body; deadlines; standing against withdrawal |
| Claim event stream | append-only events with a revision per instance | append, read a page | consumers act some time later, when the body may have come back |
| Erase ledger (`device_control/`, `adapters/persistence/device_erase.py`) | operations, ACK evidence | periodic pass, pull with re-arm, acceptance, ACK | lapsing attempts, stale reads, repeated and late ACKs, cancelled calls |
| Device facts (`repositories.py`, `AcceptDeviceManifest`, `UpdateDeviceOutputPolicy`) | device row, audit events | accept a Manifest, set a policy | compare-and-swap against writers behind another lock |
| Device directory (`projections/`, `memory.py`) | in-memory entries | project one, project all | a read of the row and a later write of the entry |
| Channel revocation (`channel_reconciliation/`) | one delivery row of each revocation | materialize, deliver, retry, fence | backoff, batch limit, lost answers, restart |
| Channel binding | refusal cache; the Provider's bindings | resolve, provision, refresh | revocation during a resolve |
| Smart-home runtime (`smarthome/runtime.py`, `integration/ledger.py`) | receipts, in-flight requests, pending unknown outcomes, registry | execute, snapshot, observe | deadlines against late effects, repeats, restart |
| Observation cache (`integration/observation.py`) | last observation of a target, sequence per Owner | put, forget, changes_since | wake-ups, reuse of sequence numbers |
| Accounts and import (`integration_service.py`, `importer.py`) | accounts, credentials, observers, the remote registry | bind, unbind, sync, observe | no interlock between them, compare-and-swap over many writes |
| Home Assistant connection | states, listeners, requests | open, read, wait, reconnect | loss of the connection under waiters |
| Delegated platform (`providers/zhoubian/`) | session with its tokens, user secret, what the last list said | bind, restore, poll, discover, execute | one session's tokens shared without a lock, a refresh token taken once, a request sent again |
| Database and lineage (`database.py`, `claim_revision_migration.py`) | schema, authority marker, lineage anchor, bootstrap capability, revisions of the stream | first start, migration, verification, repair | three places without a common transaction; releases that come and go |

How they meet: the Authority writes the event stream in the transaction of the
Claim; the erase ledger and the channel store read the stream on their own
schedule; the Authority and the device-facts use cases both write `hub_devices`,
under different locks; the directory is projected from the device row after the
commit. `PROJECT.json` lists every part, and under `hazards` what in each is hard
to test, at its line.

## What makes each part correct

* **Admission**: a Claim never disagrees with the grant behind it, nor the device
  row or the event stream with the Claim; an enrollment has one outcome and, ended
  without a Claim, no usable grant; a voucher is spent once, keys and base
  identities are bound one to one, a DeviceRef names one grant; a removed body does
  not come back by itself; a withdrawn Controller decides nothing.
* **Claim event stream**: it only grows, it activates no generation twice, it
  revokes only the life there is, and its revisions count without a gap.
* **Erase ledger**: every revocation becomes one instruction; a body is told while it
  keeps asking; it is never told to erase the generation it lives under; one ACK
  settles the instruction and nothing unsettles it.
* **Device facts and directory**: no update writes back facts a revocation replaced;
  the directory ends with the last committed facts; a command that took effect is never
  refused to the sender who repeats it, and what was answered is shown.
* **Channels**: every revocation ends delivered or fenced and none starves another; no
  channel outlives its Claim once its revocation is delivered.
* **Smart home**: a request is carried out once within a process; an unknown outcome
  is settled by the observation that answers it; a reader of changes misses none.
* **Delegated platform**: the races for its tokens heal; an instruction is carried out
  once or not at all; what was listed is shown, unless a report was missed.
* **Lineage**: whichever file is lost and whichever start is cut off, no Hub serves an
  established Authority from nothing; a release that has served can serve again whatever
  was started since; the history a Hub serves counts.

## The modules

| Module | What it is |
|---|---|
| `ClaimLifecycle` | abstract specification of the Claim event stream |
| `Admission` | the Authority; implements `ClaimLifecycle` |
| `AdmissionProofs` | its inductive invariant and theorems |
| `EraseLedger` | the erase ledger, over `ClaimLifecycle` |
| `EraseLedgerProofs` | its inductive invariant and theorems |
| `DeviceFacts` | the device row, its two writers, the replay of Admission's commands and the directory |
| `DeviceFactsProofs` | its inductive invariant and theorems |
| `ChannelReconciliation` | resolving a channel and delivering revocations to the Provider |
| `ChannelReconciliationProofs` | its inductive invariants, of all resolutions and of one that overlaps no other, and theorems |
| `SmartHomeRuntime` | requests, receipts and unknown outcomes of the smart home |
| `SmartHomeRuntimeProofs` | its inductive invariant, the counting behind it, and theorems |
| `ObservationCache` | numbered observations and the long polls that read them |
| `HomeAccount` | a Home Assistant account: binding, connection, observer, a command |
| `RegistryImporter` | synchronising what an account lists with the Owner's registry |
| `RegistryImporterProofs` | its inductive invariant and theorems |
| `ZhoubianAccount` | an account of the delegated platform: tokens, poll, sync, commands |
| `AccountProofs` | inductive invariants and theorems of `HomeAccount`, `ZhoubianAccount` and `ObservationCache`, one by one |
| `HubDatabase` | starts of the Hub on its database over releases, lost files and resets |
| `HubDatabaseProofs` | its inductive invariant, the ranks the repair computes, and theorems |
| `MC...` | model values and symmetry for TLC, one for each of the above |

`HomeAccount` and `ObservationCache` share no name with `ZhoubianAccount` or each other
(`HomeSpec`, `CacheSpec`), so that one module extends the three.

The two detailed modules are composed by the abstract one. `Admission` is shown to
implement `ClaimLifecycle` (`StreamIsALifecycle`, with `issued` mapped to the
DeviceRefs of all grants), and `EraseLedger` takes its environment from
`ClaimLifecycle`: the stream it follows grows by `Claims!Activate` and
`Claims!Revoke` only. The ledger also reads the Claim row of an instance; that row is
the last event of the instance, which is what `StreamReplaysToClaims` says of
`Admission`.

### Admission

Variables are tables: `bound`, `spent`, `standing`, `withdrawn`, `proposal`,
`decision`, `grant` (with its ack), `claim`, `device` (the Claim columns of the device
row), `stream`. `calls` holds the commands that have swept and not yet run their own
transaction, and `silenced` is history for one property.

A transaction under the store's lock is one action. `cancel`, `decide`, `collect` and
`acknowledge` first run `expire_due` in a transaction of its own: `Begin` is that
sweep, the second action of the command looks at everything again, and other commands
run in between. `create` and `revoke` are single transactions. A command that is
refused changes nothing but its sweep and ends by `Abandon`, and so does a cancelled
one. The FIFO lock makes the clock reading on the way to it atomic with the
transaction.

Data is abstracted to what the properties tell apart: a proof or signature is valid or
the command is refused, a voucher is its `jti`, a device instance is its key, a
hardware identity is its base identity, times are small numbers. The Manifest, display
names, audit records and the outbox copy of an event (written with the stream row,
never without it) are left out.

### EraseLedger

`op` and `evidence` are the ledger's tables. `calls` are reconcile passes (the
worker's and those of status reads, which carry no DeviceRef) and pulls between two
transactions: a pass is *materialize, mark, expire* with one clock reading, and a pull
runs a pass, a lookup outside the lock, then *re-arm* and *accept*. `acks` are ACKs
between the endpoint's check and `apply_ack`, two steps in the code as well. A call may
end after any of its transactions (cancellation, crash), an ACK may be lost or sent
again. `handed` records the deliveries answered. `attempt_count` is left out: it is
written and never read.

### DeviceFacts

`row` is the device row, `claim` the Claim it is projected from, `directory` the
in-memory entry, `results` the recorded results of commands. A use case (accept a Manifest, set a policy) reads the row, waits for
the mutation lock (`mutating`), compares and writes; comparing and writing are two
steps because the driver begins a transaction at the first write. An
acknowledgement or a revocation is a command of Admission: it looks for a recorded
result (`Lookup`), waits for Admission's lock and looks again, and commits Claim, row and
result in one step (`Commit`); an acknowledgement is projected before it is answered, on
its first answer and on every replay. The sender may send a command again, or its
identifier with another content, at any time. An acknowledgement is held against its own
grant and never against the Claim, so that grants are acknowledged in any order and the
row's generation may go back. A projection reads the row and puts the entry later; `since`
is history: for each acknowledgement committed, the entries the row has stood for from its
commit on. Manifests are the revision they declare; proofs are valid or the command is
refused.

### ChannelReconciliation

The Hub's side are `calls` (resolutions: the row read, the Provider asked what it holds,
an operation sent, its answer), `refusal` (the retained one of the device) and the
delivery table with `queue`, its pending rows in the order of `next_attempt_at`, and
`batch`, what a pass of the worker still has to send. Materializing and listing are one
step: nothing the worker reads in the second is written by anyone else. The Provider
(`binding`, `fence`, `ended`, `serial`) is external and follows the rules the code's
comments and the tests' `RecordingProvider` state, with one leniency: a repeated
operation is answered as before, not refused. An answer may be one the Hub cannot read
(`Garbled`: to the question what is held, or to an operation that was refused, carried out
or never begun), which `resolve` retains as a refusal too. Attempts of a delivery are counted
for as long as the delay grows with them. A call's `lone` and a refusal's `verdict` are
history: whether another resolution overlapped this one, and whether it was the Provider that
refused. Manifest and policy are one version
number, the observed address is the same in all calls, and the answers that need no
Provider (no Manifest object, no policy yet) are left out.

### SmartHomeRuntime

`receipt` is the durable ledger, `calls` executions, `queue` the FIFO lock of each
device, `pending` the unknown outcomes, `seen` the last state observed. The device
itself and the commands the Provider accepted and has not acted on are outside: a
command may act at any time after it was handed over, or never, whatever the Provider
answered. Code between two suspensions is one action; the ledger's transactions do not
suspend.

### ObservationCache

`rows` is the table, `readers` the callers of POST /changes with their number and their
poll. A registry refresh receives the registry and applies it later (`fetched`,
`lastRead`); `running` are commands that end with an observation. A put and the wake-up
after it, a read and falling asleep after it, are one step each, as in the code. The states
a refresh was given are put in any order (`Orders`); the i-th put that changes a row gives
it the i-th number after the highest in the table (`Numbered`), which is what counting on
from `MAX(seq)` put by put comes to.

### HomeAccount

One account: the objects of its connections (`conns`), the one in `_connections`
(`connection`), the `status` in its row, the `credentials` in the vault, overlapping calls of bind and unbind, the observer task by the place where it is
suspended, one command, and the Hub stopping anywhere. `Faults` says what may go wrong
in an instance. Observations are counted, their content is left out.

### RegistryImporter

The registry of the Data service is external; a write is carried out under the revision
it was prepared for, or the synchronisation ends there. `syncs` hold what was discovered,
the copy of the registry they carry along and what is left to do. The Owner's edits
and `overrides` are steps of the Data service. Names are a base and a suffix, so that
`_unique_name` is a choice of the least free suffix; clipping to 32 characters is left
out, and type, traits and limits, which follow what is discovered as the name does. The code has 99 suffixes and raises when
all are taken; the model has more suffixes than references (`ImporterAssumption`), and a
synchronisation that raises is `Fail`. What `AccountService.sync` reports of reachability when
the registry is written is in `ZhoubianAccount`.

### ZhoubianAccount

`sessions` are the `_Session` objects, of which `current` is the account's; a call in
flight keeps the one it began with. A call is three steps: sent, handled by the platform,
answered. `tries` is the attempt of `_authed`. The platform (`secret`, `grants`, `access`,
`refresh`, `connected`) is external and does what `cloud_mock.py` does; a grant number
stands for the two tokens it gives. The importer between discovery and report is one
step that succeeds or gives up, before or after it has written the devices, and the rows and
credentials that bind and unbind write are written at once: their order is `HomeAccount`'s.
A poll reports its changes one by one, a sync all it found, each by a snapshot of the registry
(`Snapshot`) that may be a copy from before the import (`stale`; the runtime keeps one for
`registry_ttl_ms`) and may fail: the failure ends a sync with an error and the observer's task
altogether (`PollBreaks`). `shaken` and `missed` are history that names the exceptions of two
properties.

### HubDatabase

`schema` is the set of objects (tables, columns, indexes) a database has, and a release
the set it declares; `Kind` tells what may be added and what may be left, `Table` whose it is.
A table is made with its columns by one statement, each of its indexes by one more
(`MakeTable`, `MakeIndex`), and the driver begins a transaction at the first INSERT or UPDATE,
so that each CREATE and ALTER is committed by itself, while the marker, or the repaired
revisions, are committed together at the end. A column for which only the program has a
default (`"declared"`, as `manifest_declared_revision`) has one in the database when it was
added, and none when CREATE TABLE made it: `bare` are the columns another release must fill.
`marker`, `anchor` and `bootstrap` are the three places that name an Authority; `hub` is the
process, with the copies of the files it read before it opened the database and the table it
made last. A first start is `CreateTable` and `MakeIndex`, then `CommitFirst` `OpenAnchor`
`WriteAnchor` `Consume`; a later one `AddColumn`, `AddTable` and `MakeIndex`, then `Commit`
and, if the anchor was missing, the same end. `stream` and `claims` are written while it
serves, by a legacy release with revision 1 for every activation, and mended by `Repaired` in
`Commit`: the repair goes through the events of a device in their order, which is a recursive
function on their places (`Candidates`). Which releases exist, and what they declare, is a
constant. What the deployment does with the files (`ShipSpent`, `ResetAuthority`) and what may
be lost is external; `served` and `committed` are history.

## Runs

| Run | Question | Bounds |
|---|---|---|
| `admission_authority` | Do Claim, grant, device row and stream agree through every interleaving; does the stream implement `ClaimLifecycle`; does a removed body stay away; are vouchers and bindings spent once and DeviceRefs unique; is an outcome written once, and does a withdrawn Controller decide nothing? | two keys and base identities, two enrollments, two vouchers, one Controller, `DecideFromStanding`, one command in flight, time 0..2 |
| `erase_ledger` | Does one ACK settle an operation, for good; is an erase ever sent for the generation the body lives under; is a revoked body told in the end? | one DeviceRef, one attempt id and sequence, two calls in flight, time 1..2 with a window of 1 |
| `facts_writers` | Does the device row follow the Claim through use cases in flight; is a policy revision given once; is a committed command ever refused to its sender, and is an answered acknowledgement shown, in whatever order grants are acknowledged? | two calls, two command identifiers, two generations, two Manifests, two policies and one revision of them, calls cut off |
| `channel_reconcile` | Does a removed body keep a channel; does a resolution that overlaps no other replay an ended operation, and does the verdict it was given stand; does every revocation end, past one the Provider never accepts? | two resolutions, overlapping or not, two generations, two versions, two operations of the Provider, answers that cannot be read, expiry, one delivery in a pass, delays up to 1 |
| `home_requests` | Is a command handed out once, is a receipt stable, is what waits for settlement really unknown; does every execution return after its deadline? | one device, one request with one or two commands, an execution and a repeat of it, others acting |
| `cache_polls` | Does a poll sleep through a change; is there a gap in what a reader is told? | two devices, both polled, numbers up to 3 |
| `account_service` | Do credentials go with the account? | two calls, three connections, every fault |
| `import_sync` | Do the Owner's edits survive, do names stay apart, and is a half-done synchronisation repaired by the next that is requested? | two references with one name, two rooms and one area, one synchronisation at a time, three outside events |
| `hub_start` | Does a Hub that serves have everything its Authority committed; can a release that has served serve again; does the history it serves count? | three releases, one of them legacy, one that adds a column and a table with an index, one that adds a column without a default in the database, two devices, three events, two Authorities, two lost files, starts cut off anywhere |
| `zhoubian_tokens` | Do the races for the tokens heal; is an instruction carried out once or refused; does what is shown keep up? | one device, two sessions, two callers at work, three grants, two activations, two events among expiry, reset, a device coming or going, a lost call, a failing snapshot or importer, unbind and restart |
| `erase_overtaken`, `admission_presence` | Violated: what the documentation says and the code does not keep, below | the smallest instance that shows it |

A configuration is run with `tlc -config <cfg> <module>`; `PROJECT.json` names the module
of each run, and a configuration called `MCAccount...` belongs to `MCHomeAccount`,
`MCCache...` to `MCObservationCache`, `MCChannel...` to `MCChannelReconciliation`,
`MCErase...` to `MCEraseLedger`, `MCFacts...` to `MCDeviceFacts`, `MCHome...` to
`MCSmartHomeRuntime`, `MCHub...` to `MCHubDatabase`, `MCImport...` to `MCRegistryImporter`
and `MCZhoubian...` to `MCZhoubianAccount`. Beside the ones of the runs there are the
configurations of the other disagreements below, and one that passes,
`MCAccountReopen.cfg` (an observer that has noticed a loss gets the connection back once
the instance stays reachable, `NoticedLossIsRepaired`). Two wider instances pass as well,
for whoever changes these modules: `MCAdmissionAuthority.cfg` with one key, one base
identity, no Controller, `MaxCalls = 2` and `MaxTime = 3` (two commands in flight), and
`MCEraseLedger.cfg` with `Generations = {1, 2}`, `MaxCalls = 1` and `MaxTime = 3` (two
generations of one body). The `TypeOK` of every module
holds on the instances of its run; it is an invariant of the two runs whose proofs rest
on it.

Why these are enough: the hazards of the Authority are between two enrollments of one
body (a continuation against a revocation, two grants of one body, a sweep against a
decision) or between two bodies over one voucher or base identity. `admission_authority`
has both; one command in flight next to whole transactions of others already gives every
order of two commands, and the wider instance above has two of them in flight. Operations
of the ledger are independent except through the pass, and a DeviceRef has one operation,
so that two calls, two instants and a window of one show an attempt that lapses between
being read and being handed over; a second generation and a second lapse are in the wider
instance above. That no operation names the living generation, and that two pulls
cannot unsettle it, is proved as well and bounded by nothing.

For the others: a compare-and-swap is overtaken by one writer, a command by its own
repetition, and a call that was cut off leaves room for a third (`facts_writers`); two
policies of one revision are what two updates that start from the same row differ in. Two
resolutions race each other, the worker, the Claim and the expiry of their binding, and two
operations let one be held, ended and followed. With a pass of one delivery
the batch limit bites at the second revocation, where one is put off and one is behind it.
A device lock, a receipt and a pending outcome are each contended by two executions.
Three numbers are enough to hand one out, forget it and hand it out again to a reader
that holds it. Two references of one name are what a name can collide with, and two
outside events on an arbitrary first listing let one leave and another appear. Three
releases are the least in which one goes back to a release that knows neither of the two
after it; the second makes a table whose index can be cut off from it, the third a column that is bare
if it makes the database; two lost files are both of the places a Hub could begin again from, two
Authorities a reset that meets the files of the one before, and three events of two
devices an activation that must be mended next to one that must not. Two callers race for
one refresh token, three grants let the loser fall back and be refused once more, and two
activations let a bind replace the secret under them.

Deadlock is checked in every run: an instance never stops, because a call can always be
begun, abandoned or repeated, and a Hub be started or stopped.

## Fairness

`Spec` of every module has none; all safety properties hold without it. `FairSpec` of
`EraseLedger` assumes that calls go on (`CallsGoOn`, weak: coroutines of one event loop
behind a FIFO lock) and that a body keeps asking and is not cut off at the same step of
its pull for ever (`KeepsAsking`, strong, because a call can be abandoned: a premise
about the device, not a promise of the code). `WorkerSpec` assumes the periodic worker
only: passes start again whatever became of the last (its loop catches every exception)
and are not for ever cancelled before their first transaction. No fairness is put on
the clock, on Admission or on ACKs.

* `SmartHomeRuntime`, `Progress`: the event loop goes on and `asyncio.timeout` fires. No
  answer of a Provider or of the registry is assumed; the registry client has a timeout.
* `ChannelReconciliation`, `Fairness`: the worker's passes go on (its loop catches every
  exception), time passes, the Hub is not for ever stopped before the first delivery of
  a pass is dealt with, and the Provider answers a revocation it is asked for again and
  again. The last is a premise about the Provider; `Poisoned` generations are without it.
* `HomeAccount`, `Fairness`: the observer's steps are weakly fair, opening a connection
  is strongly fair (the instance may come and go), the Hub comes up. `MCAccountReopen.cfg`
  leaves out the faults that end the observer or leave it waiting (a refusal or silence
  while opening, a report that fails, a stop of the Hub): they are what `LostIsReopened`
  and `RestoredIsObserved` are about. Its premise is that the observer has noticed the loss.
* `RegistryImporter`, `Fairness`: a synchronisation goes on and, when it has ended, another is
  requested. The second is a premise about the caller: only POST accounts/{id}/sync begins one,
  nothing in the Hub does. Outside events and failures are finitely many.

* `HubDatabase`, `FairSpec` (`MCHubTorn.cfg` only): a Hub that is down is started and goes
  on. `ZhoubianAccount` and `DeviceFacts` have safety properties only.

`RevokedBodyIsTold` excludes the case of `erase_overtaken`, in which nothing is told to
anyone.

## What is proved

Assumptions: those of the constants (`AdmissionAssumption`, `EraseAssumption`,
`FactsAssumption`, `ChannelAssumption`, `RuntimeAssumption`, `ImporterAssumption`,
`CacheAssumption`, `AccountAssumption`, `ZhoubianAssumption`, `DatabaseAssumption`): numbers
are naturals, windows are positive, `None` is none of the values, an instruction names a
device. Sets may be infinite, except the references and areas of `RegistryImporter` and the
devices of `ObservationCache`, which are counted; the bounds of clock, calls, generations,
versions, sessions, tokens, losses and outside events may be any numbers. Each inductive
invariant was an invariant of a TLC run before it was proved.

One theorem has a hypothesis besides: `OneInstruction` of `AccountProofs` is about an
instruction that names one device (`OneTarget`), which the code does not ensure;
`MCZhoubianPartly.cfg` shows that without it the property is false. Two properties name their
exceptions by history: `VerdictStands` and `NeverReplaysEnded` are about resolutions that
overlapped no other, among others that do, and `ShownKeepsUp` about times at which no report
was missed. What the exceptions come to is shown by `MCChannelRefusal.cfg` and
`MCZhoubianCurrent.cfg`.

**`AdmissionInv`** is the inductive invariant of `Admission`. No property is inductive
alone: that Claim and grant agree needs that a Claim names an enrollment whose proposal
was acknowledged (`ClaimInv`), which needs how far an enrollment, its decision and its
grant can be apart (`ProgressInv`); that activations are of new generations needs that
two grants of one base identity never share a generation (`GenerationInv`), which needs
that keys and base identities are bound for good (`IdentityInv`). From it follow type
correctness, the five state invariants of the runs, the action properties
`SettledStaysSettled`, `SilencedStandingDecidesNothing` and `NoSelfReturn`, and the
refinement of `ClaimLifecycle` (its initial states and a step or a stutter of it for
every step).

**`EraseInv`** is that of `EraseLedger`: an operation exists only of a revocation the
stream reported and carries an attempt only once delivered (`OperationInv`), what calls
and ACKs carry names existing operations (`CallInv`), and a revoked generation is over
for good (`RevocationInv`, from the rules of `ClaimLifecycle`). `OneAckSettles` is part
of it, since it is inductive only together with the others. From it follow the three
safety properties of the runs and `SettledEraseIsFinal`.

**`FactsInv`** is that of `DeviceFacts`. A unit of work writes over a row that Admission
may have changed since it was compared, and a projection follows a commit some steps later,
so the invariant says what each call in flight may rely on (`Relies`): the row is there, its
policy is the one compared as long as the call holds the mutation lock, and an entry that is
about to be put is one the row has stood for since the commit the call will answer for; and
that a command has one recorded payload, and the row as it stands is in the history of every
acknowledgement (`ResultsInv`). Nothing is said of the order of generations. It gives `RowFollowsClaim` and, step by step, `PolicyRevisionsCount`,
`CommittedIsNeverRefused` and `AnsweredIsShown`.

**`ChannelInv`** is that of `ChannelReconciliation` for any number of overlapping
resolutions. That a revoked generation holds no channel is not inductive: a resolution that
read the approved row long ago may still ask for a channel. What stops it is the Provider's
fence, or a channel of a younger generation, and the invariant says that a delivery that
ended left one of the two (`EndedIsBarred`) and that what is held lies above the fence
(`AboveFence`). It gives `RevokedHoldsNoChannel`.

**`LoneInv`** is about a resolution that overlaps no other, in a system in which others may
have overlapped before and will again, and answers may be unreadable. What the Provider holds
is the last operation it carried out (`HeldIsLast`), what ended lies before it or below the
fence (`EndedIsPast`), what a lone resolution has read is still so up to expiry and revocation
(`ReadIsCurrent`), and so it is refused only because its generation is fenced (`VerdictOnWay`,
`VerdictIsFenced`), which is for good. It gives `NeverReplaysEnded` and `VerdictStands`. Of
every retained refusal the second is false (`RetainedRefusalStands`, `MCChannelRefusal.cfg`).

**`RequestsInv`** is that of `SmartHomeRuntime`. Whatever was handed to the Provider belongs
to a request whose receipt has a result, or to the one call that carries it and is past that
item (`HandedIsOver`); a request is carried by one call (`CarriersAreAlone`) whose receipt
says what the call does (`CarriedIsInFlight`). It gives `HandedOnce` and `ReceiptIsStable`.

**`CountsInv`** adds `PendingIsUnknown`, a statement about two cardinalities. A time-out adds
one to each side; an observation that answers n outcomes takes n from what waits and settles
the first n of what is unknown, which are n at most (`FirstOnesAreCounted`, by an injection
into 0..n-1, since induction is out of reach). The outcome of a command passes from its call
to the receipt without a change (`OutcomeIs`), also when the result is recorded while
something waits.

**`ImporterInv`** is that of `RegistryImporter`, for any number of synchronisations at once.
Every write is computed from a copy read some time ago; a copy at the registry's revision is
the registry (`CopiesAreTrue`), although others wrote meanwhile, and a write is carried out
only then. So a write can be judged by the registry it changes (`Respects`): it keeps what is
overridden, and a name it gives is one nobody else in the area has, which exists because
there are more suffixes than devices (`NamesAreFree`, by the pigeonhole principle). What the
Owner wrote is marked as such in the registry (`EditsAreMarked`). It gives `EditsSurvive`,
`UntouchedNamesDiffer` and type correctness with the limits of devices and areas.

**`CacheInv`** is that of `ObservationCache`. That no poll sleeps through a change needs only
that a table which wakes nobody has no row the former one had not. That a reader was told
everything needs the counting: a changed row is numbered beyond the highest in the table
(`SeenRows`, for every order of the puts), and that is beyond every reader's number as long
as the highest number ever handed out (`NumbersAreIssued`) is in the table when the next is
taken, which is what `reissued` denies. It gives `SleepersMissNothing` and
`ToldUnlessReissued`; without its condition the second is refuted (`MCCacheReissued.cfg`).

**`HomeInv`** is that of `HomeAccount`, for any number of overlapping binds, unbinds and
connections. Credentials and row are written one after the other, so that what has to be
shown is what a stop between the two leaves: a Hub that starts has nothing in memory
(`StartsFromNothing`), and one that serves an account without credentials shows it degraded
and has neither a connection nor an observer that looked (`BareIsLeftAlone`), since the only
ways to `connected` are a bind, which keeps the credentials, an observer that opens, and a
start that has them. It gives `CredentialsGoWithAccount`.

**`CoreInv`** is that of the tokens of `ZhoubianAccount`. `TokenRacesHeal` is about how a call
ends, so the invariant says of every call that is out what it can still be answered
(`CallInv`): a call that asks for tokens does so with the secret of its session, which the
platform refuses only when it is no longer the one it knows; a call that was sent again has
an access token the platform takes, unless the platform forgot something in between
(`shaken`); the session that is being bound is nobody else's and has the platform's secret,
or a stored one that is tried first and replaced (`SessionsInv`). The losers of a race find
their refresh token taken and fall back to the secret, which is why none ends unauthorized.

**`ListsInv`** is about what the runtime is shown: unless a report was missed since the last
sync that was alone (`missed`), what is known is what is shown, or is about to be, and a poll
compares with exactly that. A sync that begins while no poll is out reports whatever was
missed before, so that its call carries what was missed until it has reported. It gives `ShownKeepsUp`. **`CommandInv`** says that nothing is
carried out while a call may still be sent again; it gives, for any number of devices named,
that an instruction is carried out at most once (`NeverTwice`), and, with one, that what the
Hub takes for refused was not carried out (`ActsOnceOrIsRefused`).

**`HubInv`** is that of `HubDatabase`. That a serving Hub has all its Authority committed
needs that an Authority with history has spent its capability (`LineageInv`), so that a
database that is gone is not made again under its name. This holds because no Hub serves
before the capability is consumed, which is what the invariant says of each phase of a start:
what it read is still so, and what it wrote is there (`StartInv`). That the served history
counts rests on the numbers (`HistoryInv`): an event has the number of its place in its
device's history or is a reset the repair knows, and the Claim row is where the history ends.
What the repair computes for an event is then its rank: the recursive function is unfolded
once at a place and compared with the rank by a least counterexample, with well-founded
induction over the places and without an induction theorem that takes an operator. It gives
type correctness, `ServesAllItCommitted`, `ServedHistoryCounts` and `CutoverIsReversible`, for
any releases: what a release that has served refuses, a bare or a unique object in one of its
tables, comes only with a table, and a table that is made later is none of its own
(`SchemaInv`).

Only model-checked:

* liveness (`RevokedBodyIsTold`, `RevocationsEnd`, `CallsReturn`, `RegistryConverges`, and
  `NoticedLossIsRepaired` in its configuration), which is out of the prover's reach;
* the types of two queues: the order of revocations in `ChannelReconciliation` is made with
  `SelectSeq`, and the FIFO locks of `SmartHomeRuntime` with concatenations of a sequence
  chosen item by item; no theorem rests on either;
* the disagreements below: a property that is refuted has nothing to prove.

Every safety property of a run is stated by a theorem.

## Where code and documentation disagree

Each is a property TLC finds violated, with its trace. Two are runs, because they concern
what the Hub is for:

* `admission_presence` — a removed body is active again without fresh presence, through
  a continuation approved before it was removed (`admission/application.py:1161`).
* `erase_overtaken` — a body that is claimed again before its revocation became an
  instruction makes every later pass fail, for all devices (`device_erase.py:132`).

The others are kept as configurations (where one serves two properties, the change or
the property is named beside it):

| Property | Configuration | What the trace shows |
|---|---|---|
| `ClaimGenerationNeverGoesBack` | `MCAdmissionFence.cfg` | the generation of a Claim goes back when two grants of one body are acknowledged newest first (`admission/persistence.py:212`) |
| `AnsweredEraseIsNotRearmed` | `MCEraseAnswered.cfg` | a body whose late ACK was kept is asked again (`device_erase.py:391`) |
| `ManifestNeverGoesBack` | `MCFactsRollback.cfg` | a new Claim is activated between the comparison and the write of a Manifest, and the old Claim's Manifest lands on it (`repositories.py:227`) |
| `DirectoryShowsRevocation` | `MCFactsRevoked.cfg` | a revocation does not reach the directory (`admission/application.py:1419`) |
| `DirectoryShowsManifest` | `MCFactsProjected.cfg` | of two projections the one that read first may put its entry last (`device_directory.py:20`) |
| `RetainedRefusalStands` | `MCChannelRefusal.cfg` | of two overlapping resolutions the second provision is refused, and that refusal is retained as if it were about the inputs (`channel_reconciliation/application.py:210`). With `Calls = {k1}` and `Unreadables = TRUE`: an operation that was carried out and whose answer cannot be read is retained as refused, so that the channel it made is never asked for (`:214`, `provider_client.py:155`, `:276`) |
| `AnswersSettle` | `MCHomeEarly.cfg` | an observation that answers a timed-out command before the receipt is complete is lost (`runtime.py:336`) |
| `SettledTookEffect` | `MCHomeTwice.cfg`, `Contents = {other}` | a toggle of a device nothing was seen of is settled by any observation (`effects.py:26`) |
| `SettlesItsOwn` | `MCHomeTwice.cfg` | of two unknown commands to one device the first is settled, whichever was answered (`integration/ledger.py:156`) |
| `ToldEverything` | `MCCacheReissued.cfg` | the number of a forgotten row is handed out again, and a reader that holds it misses the change (`observation.py:88`) |
| `LostIsReopened` | `MCAccountLost.cfg` | an observer waits for ever on a connection that was lost (`provider.py:153`) |
| `RestoredIsObserved` | `MCAccountRestored.cfg` | an observer ends when the instance is away at start (`integration_service.py:65`) |
| `ListensToCurrent` | `MCAccountRebound.cfg` | an observer goes on with the former connection after the account was bound again (`integration_service.py:152`) |
| `RefusedDidNotAct` | `MCAccountLost.cfg`, as its invariant | a command whose connection was lost after it was sent counts as refused (`provider.py:192`) |
| `ObserverKeepsCurrent` | `MCZhoubianCurrent.cfg` | a synchronisation that ends half-way, or overlaps a poll, takes a change out of what the next poll compares with, and the change is never shown; so does a report passed over because the snapshot was a copy from before the import (`runtime.py:364`), and a snapshot that fails under the observer ends it (`integration_service.py:161`), against `integration_service.py:135` "the observer keeps it current after" (`zhoubian/provider.py:242`) |
| `ActsOnceOrIsRefused` | `MCZhoubianPartly.cfg` | an instruction that names two devices, one of them offline, is carried out on the other and reported as a refusal, which `smarthome/ports.py:68` calls "refused without acting" (`zhoubian/provider.py:292`) |
| `StartsAreFinished` | `MCHubTorn.cfg` | a first start cut off before its marker is committed, or inside the writing of the anchor, is refused by every later start until an operator intervenes (`database.py:123`, `:382`) |
| `AnyHistoryRepairs` | `MCHubCutover.cfg` | with grants acknowledged newest first under a legacy release, the repair meets a history it does not know and refuses every later start, against its "Valid histories are untouched" (`claim_revision_migration.py:36`) |
| `AnyReleaseFinds` | `MCHubCutover.cfg` | a start cut off between a new table and its index leaves a table whose indexes no later start of that release adds, and every one refuses (`database.py:220`, `:317`); a first start cut off there is `StartsAreFinished` |
| `AnyReleaseWrites` | `MCHubCutover.cfg` | a database made by the release with `manifest_declared_revision` has it NOT NULL without a default (`models.py:45`), and the release before it, which has not served this database, refuses to start on it (`database.py:265`), against the "reversible cutover" of `database.py:233`; added to an older database the column has a default (`:210`) and is left alone |

## What is not modelled, and why

Signatures, certificates, schemas and HTTP mapping are computations without state.
Clocks are monotone: a wall clock stepping back could make a withdrawn standing valid
again and is not modelled. The replay of a
retried command is in `DeviceFacts` for the two commands that change the Claim, and not in
`Admission`, where each command is issued once. SQLite's
atomicity and durability are taken as given. The Channel Provider, Home Assistant and the
Data service are environments: what the models let them do is what the code relies on or
guards against. Shared sessions and role groups are passed on to the Provider and keep
nothing in the Hub. `MemoryLedger`, for a Hub without a state directory, is not the ledger
that is modelled. The mappings of device kinds, traits and states of both providers, and the
instruction texts of the delegated platform, are conversions without state. The HTTP routers
check and translate requests; where an endpoint is the start of an action it is mapped to
it (`DeviceFacts!Request`, `EraseLedger!StartPull`, `ReceiveAck`). Discovery announces the
service, the security adapters read tables the models above write, the integration store is
one transaction for each operation, the contracts are schemas, most of them generated, and
the composition is wiring. In `HubDatabase` a column whose type differs from the declared
one is not told from a missing one, and a capability file of another installation is one
that names another Authority.

## Plan

1. `Admission` with `ClaimLifecycle` — done, proved.
2. `EraseLedger` over `ClaimLifecycle` — done, safety proved.
3. `DeviceFacts`, `ChannelReconciliation`, `SmartHomeRuntime`, `RegistryImporter`,
   `ObservationCache`, `HomeAccount` — done, safety proved.
4. `HubDatabase` (starts, lineage and the repair of revisions) — done, safety proved.
5. The replay of commands, in `DeviceFacts`, and `ZhoubianAccount` — done, safety proved.
6. Left: compositions. `DeviceFacts` and `ChannelReconciliation` over `ClaimLifecycle`, as
   `EraseLedger` is; an abstract specification of a numbered feed that `ObservationCache`
   implements as long as nothing is reissued. The invariants above hold what the refinements
   need: that a delivery that ended bars its generation, and that a number in the table is
   beyond every reader's.
