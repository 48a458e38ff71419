# CloudHub in TLA+

CloudHub is a web application over InfluxDB and Kapacitor: a Go server
(`src/backend`) that keeps users, organizations, sources, kapacitors and the
rest in a key-value store, and a TypeScript front end (`src/frontend`). This
directory holds TLA+ models of the part of the server that carries its own
state, the TLC configurations that check them and the TLAPS proofs about them.
Paths below are relative to `src/backend`.

The models are about one question: the stores promise things (one role per
organization, one default source, one active kapacitor, isolation of
organizations, collectors and learning tasks in step with the records) and the
handlers keep these promises with several transactions and remote calls each,
while net/http runs every request in a goroutine of its own. What is left of the
promises when requests interleave, a transaction fails or the server
stops in the middle?

## Running

    tlc -workers 2 -config TenancyMembers.cfg MCTenancy      # any cfg with its MC module
    tlapm TenancyProofs.tla                                  # any *Proofs module

`PROJECT.json` lists for each run its module, cfg and properties, for each
definition the source lines it models, the mutants that show every property can
fail, the findings and the hazards.

## Inventory

| component | state | operations | what is hard | what makes it correct | model |
|---|---|---|---|---|---|
| users store `kv/users.go` and its organization facade `organizations/users.go` | `users` bucket: one record per (name, provider, scheme) with the roles of every organization | Get, Add, Update, Delete; the facade restricts them to one organization's roles | each call of the facade is two to four transactions on the whole record; `userExists` and `Put` are apart | one user per principal, a facade changes its organization's roles only, ids keep their principal | `UserRecords`, `Tenancy` |
| user handlers and login `server/users.go`, `server/me.go`, `server/basic_auth.go` | the request's locals, the context user | Me, UpdateMe, New/Update/RemoveUser with and without an organization, NewBasicUser, LockedUser, Login | first logins that race, stale context users, roles appended to a record read earlier | one role per organization, a super admin from the first login on, the last super admin stays | `Tenancy` |
| organizations store and handlers `kv/organizations.go`, `server/organizations.go` | `organizations` bucket | CreateDefault, Add, Update, Delete with its cascade through five stores, NewOrganization with its cleanup | the cascade is dozens of transactions, stops at the first error and cannot be retried | names are unique, nothing refers to a removed organization | `Tenancy`, `Directory` |
| mappings store and handlers `kv/mapping.go`, `server/mapping.go` | `mappings` bucket | New/Update/RemoveMapping, mapPrincipalToRoles | the organization may go between the check and the Put | roles at first login are those of the mappings that apply | `Tenancy` |
| authorization `server/auth.go`, `server/stores.go` | none | AuthorizedUser | decides on a record that may change before the handler runs | refuses users without exactly one role | `Tenancy` |
| authentication configuration `server/config.go` | `superAdminNewUsers` | ReplaceAuthConfig | read by first logins | | `Tenancy` |
| sources `kv/sources.go`, `organizations/sources.go`, `server/sources.go` | `sources` bucket | NewSource, UpdateSource, RemoveSource with the servers of the source | flags of other records change with each write; the removal is many transactions | at most one default; removing it makes another one the default, if there is one to know of | `Resources` |
| servers `kv/servers.go`, `organizations/servers.go`, `server/kapacitors.go`, `server/services.go` | `servers` bucket (kapacitors and services) | creation, update, removal, activation | deactivating the others is one transaction per server, before and after the store of the new one | one active server per organization, no server without its source, isolation of organizations | `Resources` |
| key-value stores `kv/kv.go`, `kv/bolt`, `kv/etcd` | buckets | View, Update, ForEach, NextSequence | bolt serialises transactions; etcd runs them optimistically, with lists read outside of them | the stores' promises hold on both | `EtcdSources` (sources) |
| unique ids `snowflake/gen.go` | one atomic word per server | Next | lock-free, rolls the sequence into the machine bits under contention, clocks step back | ids are unique and ascend | `Snowflake` |
| network devices `server/network_devices.go`, `kv/network_device.go` | `networkDevice` bucket, the lists in `networkDeviceOrg`, configuration files on the collector servers | NewDevice(s), UpdateNetworkDevice, RemoveDevices, MonitoringConfigManagement, LearningDeviceManagement | one request reads and puts dozens of records and writes files through Salt in between; it goes on after failures; devices move between organizations | the file of an organization's collector names the devices of its list; a removed device stays removed (on bolt); a device is collected once | `NetworkDevices`; registration against organizations is in `Tenancy` |
| learning tasks `server/network_devices_org.go`, `kv/network_device_org.go` | `networkDeviceOrg` bucket, tasks in Kapacitor | Add/Update/RemoveNetworkDeviceOrg | two systems, no transaction over both, errors that are not looked at, a removal that forgets the task | an organization's task is in the kapacitor of its record; any other one is a known leftover | `NetworkDevices` |
| kapacitor client `kapacitor/client.go` | rules and tasks in Kapacitor | Create, Update, Enable, Disable, Delete, Get | update disables, replaces and enables | | calls of the learning tasks in `NetworkDevices`; rules are forwarded |
| multistore, memdb, filestore | read-only and in-memory sources layered over the bucket | lookups in order, first success wins | errors of a layer are skipped | | not modelled |
| front end `frontend/src` | of one browser tab | renders what the server answers | answers out of order | | not modelled |
| dashboards, cells | one bucket | single-record CRUD | none across records | | a resource of the cascade (`owned`), else not modelled |
| topologies, vspheres, cloud service providers, organization settings, ML results | one bucket each | single-record CRUD | none across records; an organization's removal leaves them | | not modelled |
| proxies (InfluxDB, Salt, SNMP, terminal, enterprise), OAuth2, templates, TICKscript generation, serialisation, start-up, packaging | outside or none | | I/O, text, cryptography | | not modelled |

Interactions: a handler authorises (`AuthorizedUser`), then calls stores through
the facade of its organization or directly; the organizations store deletes
through the sources, servers, dashboards, users and mappings stores, and through no
other (`kv/organizations.go:147-225`); removing a
source deletes its servers through the facade; first logins read organizations,
mappings and the configuration; all stores share one key-value store and nothing
else; on etcd the ids of their records come from the snowflake generator. Collecting
and removing devices writes files on collectors through Salt, settings of device
organizations make and delete tasks in Kapacitor. There is no lock above the
store: the transactions are the only atomicity.

## Modules

| module | stands for |
|---|---|
| `UserRecords` | the user record and the facade's arithmetic on its list of roles |
| `Tenancy` | users, organizations, mappings, configuration and the handlers over them |
| `Directory` | abstract: users and organizations as two atomic directories |
| `TenancyProperties` | what `Tenancy` promises, with the refinement of `Directory` |
| `MCTenancy` | instances for TLC |
| `TenancyProofs`, `NamesProofs`, `OneHandlerProofs` | theorems about `Tenancy`, the last about handlers one at a time |
| `Induction` | lemmas: a set of numbers has a least element; induction over a set of numbers; recursive functions exist |
| `Resources`, `MCResources`, `ResourcesProofs` | sources and servers with their handlers |
| `EtcdSources`, `MCEtcdSources`, `EtcdProofs` | the sources store on etcd instead of bolt |
| `Snowflake`, `MCSnowflake`, `SnowflakeProofs` | the generator of record ids on etcd |
| `NetworkDevices`, `MCNetworkDevices`, `NetworkDevicesProofs` | devices, device organizations, collector files and learning tasks with their handlers |

`Tenancy`, `Resources` and `NetworkDevices` have the same shape. The variables are the buckets
with their sequences, and `req`, one slot per handler in flight: its operation,
its label `pc` (what it asks the store next) and its local variables. One action
is one transaction with the Go code up to the next one, so every point where
another goroutine can come in is a state. A request begins in any state its
guard allows (`AuthorizedUser`, `EnsureSuperAdmin`) with any input. Labels are
named after the handler and the call: `um.raw` is UpdateMe's read of the raw
record. A store answers `Absent` where Go answers an error.

Abstractions. A role is its organization: role names, and their ranking in
`hasAuthorizedRole`, are left out, so any role opens every route not reserved
to super admins. Authentication is on: without it every request is a super admin's
(`server/auth.go:114`), which is left out. The list of roles is kept as a bag, which keeps the
duplicates that lock a user out. Organizations' resources are one flag per
store and organization. A source of `Resources` is its organization and default
flag, a server its organization, source, kind and active flag. Which principals
a mapping accepts is a constant. `everSuper`, `disturbed` are history variables:
the ids that were ever super admin, and whether handlers have overlapped or the
server crashed.

`StoreError` lets any transaction of a handler fail where the code makes one and
looks at its error; `Crash` empties `req` and keeps the store. On etcd
`Timeout` ends a transaction before its commit.

`EtcdSources` has the same handlers' store calls with what a transaction is on
etcd: the snapshot of the first Get, the keys read and written, a commit that
compares revisions (as `concurrency.NewSTM` does) or starts over, and list reads
next to all that, which is what `kv/etcd/client.go` does with ForEach. Ids ascend,
as one generator hands them out. The commit is modelled after the etcd library and
marked external.

`Snowflake` has the word as a record of its three fields, `Advance` for the
switch of `Next` and `AddOne` for the add with its carries; a call is now, load,
swap, up to `Attempts` times, and then the add. `taken` is the history of the
states that calls of a server took. Each server is a process with a machine id; a
restarted server is another process. Clocks may answer anything.

`NetworkDevices` has one action per transaction, file or task call. A device is
its organization and address; `files` and `tasks` are the two outside systems:
what is in the file of an organization on a collector, and an organization's
learning task in a kapacitor. A call of Salt or Kapacitor may fail before or after
it has done its work, and one of Salt may also answer 200 and have done nothing (the
minion's own answer, inside the reply, is not looked at,
`server/network_devices.go:1398`); the handlers go on as the code does. Collect, Learn
and Remove stand for MonitoringConfigManagement, LearningDeviceManagement and
RemoveDevices, which share one course. `RangeRemove` is what a Go `range` loop does
with a list that it removes from. The loops over Go maps take any order. A PATCH of an
organization sets its cron and kapacitor, and its lists and collector to whatever the
client likes (`GivenLists`, `GivenCollectors`): devices twice, or not yet made.

The stores' Update looks a record up in a View nested in its own transaction
(`kv/network_device.go:110`, `kv/network_device_org.go:89`). The module takes the look
and the put as one step, which is so on bolt, where nothing is written in between. On
etcd the View is a transaction of its own and the put compares nothing, so that a
record deleted in between comes back: `NetworkDevices`, and what it says, is about
bolt only.

`alone` and four variables are history, and the properties excuse no more than they
say. `alone`: handlers that have met no other one. `fileDoubt`: organizations whose
file may be behind the record because a call of Salt failed or did nothing, handlers
overlapped, the server stopped, a client set the list or the collector, or a client's
list named a device before it was made; a Collect or Remove that runs alone takes the
organization out when it writes the file. `fileExtra`: organizations whose list a Learn
has shortened; it takes moved devices off that list and writes no file
(`server/network_devices.go:1000`), with no fault and no race. Their file may name
more than the list, not less. `taskDoubt`: organizations whose task may not be as
recorded, because a call about it failed, handlers overlapped or the server stopped;
an Update that runs alone takes them out when it puts the task. `stray`: kapacitors
in which a task of an organization was left, by such a fault or by
RemoveNetworkDeviceOrg, which deletes the record and no task
(`server/network_devices_org.go:482`); a handler that runs alone and deletes the task
takes the pair out.

Left out: requests that name devices in another order than that of their age or
twice, the results of learning that go with a device, the flags IsLearning and
IsCollectingCfgWritten, by which no handler decides, and the answer of the ping to a
collector, which the code stores but does not look at.

## Runs

| run | question | bounds |
|---|---|---|
| `tenancy_members` | do the stores implement `Directory`, one handler at a time, when transactions may fail? who gets which role? | 2 principals and ids, 2 organizations and names, 1 slot |
| `tenancy_cascade` | does removing an organization leave nothing behind? | 1 user, 2 organizations, 2 mappings, 1 resource store, 1 slot |
| `tenancy_race` | what survives handlers that race over users, and crashes? | 2 slots, 2 principals and ids, 2 organizations, no mappings but the default one |
| `tenancy_two_roles`, `tenancy_demotion` | claims of the source that interleavings break | 2 slots, the few operations it takes |
| `resources` | isolation and the default source under races and crashes; active servers and orphans without | 2 slots, 2 organizations, 2 sources, 2 servers, `Few` |
| `etcd_sources` | what survives of the default source on etcd? do calls that conflict end? | 2 transactions, 3 sources, no call begins after 3 commits, default flags set or not, under `FairSpec` |
| `etcd_two_defaults` | "only one should be permitted" | 2 transactions |
| `snowflake` | do ids ascend, are they unique? | 3 goroutines on 2 servers, 3 ids per server, 2 attempts, 4 machine ids, 2 sequence numbers |
| `devices_files` | do the collectors' files follow the lists, and again after a fault or a client's own list? | 1 slot, 2 devices, organizations, addresses and collectors, no kapacitor, 2 lists that clients set, 1 fault, `RepairFirst` |
| `devices_tasks` | what survives handlers that race over devices and settings, faults and crashes? | 2 slots, 1 organization, 1 device, 2 kapacitors, 1 fault |
| `devices_moved` | "removes device IDs from their previous organizations" | 1 slot, 3 devices, 2 organizations |

Why these are enough: a race needs two handlers, a victim and a second record
that must not change, which is what two slots and two ids give. The cascade
treats its stores alike and one after the other, so one of them (`NumKinds`) and
the users and mappings, which it treats differently, show it. On etcd the
races over the default source are between two transactions (two that set the flag; a
removal and an addition, a removal or an update of the source it chose), and three
sources give a removal one that it knows and one that it does not. Ids are never reused, so `MaxUsers`, `MaxOrgs`,
`MaxSources`, `MaxServers` bound how many creations a behaviour has (a creation
beyond that is an error of the store), not the number of steps; only `MaxRev`
bounds those, by letting no call start after that many commits. A word of two
sequence numbers rolls over at every second id, and two attempts are used up by two
goroutines. A device of one organization, one of another and a collector for each
show a move; three devices are needed for the loop that skips one.

Two constraints cut runs down. `Few` (`MCResources`) lets a
behaviour create two sources and one server, or one source and two servers, not two
of both. `RepairFirst` (`MCNetworkDevices`) keeps
to one device the behaviours in which a fault happens, or a client sets a list or a
collector, and lets only Collect, which repairs the file, begin while a file is in
doubt; a Learn asks only to stop learning there, and clients set only the list of
collected devices. The theorems have neither bounds nor constraints. Symmetry is
declared in runs without liveness: for slots in `tenancy_race`, for slots and
organizations in `resources`, and for slots, organizations, addresses, kapacitors and
collectors of the network devices.

Deadlock is not checked: with every slot idle and every id handed out an
installation may have no request left that the model lets through, and it then
rests.

Fairness: `FairSpec` of `EtcdSources` asks weak fairness of each slot's `Step(r)`, the
rest of a transaction that has begun, for `CallsEnd`. The Go scheduler runs every
goroutine, and etcd answers. Nothing is asked of clients or of timeouts, so that what
ends the calls is the retry itself: a conflict costs another attempt only when somebody
else has committed, and nobody begins after `MaxRev` commits. With clients that never
stop, a call may lose every time until its timeout. The other modules state no
liveness: apart from these retries a handler in flight is a chain of calls over lists
that it has read.

### What they show

Held for every interleaving that the run has: ids keep their principal and the first
user becomes super admin, in a race of first logins, creations of organizations,
removals of users and crashes; there is at most one default source on bolt and its
removal names another; no handler touches another organization's server; on etcd a
default source goes without a successor only where a client clears its flag, or where
it is removed and every other source has been written since the removal began; no
update brings a removed source back on etcd, and calls end when clients do; ids ascend
and, unless an add rolled over, are unique; on bolt a removed device stays removed.

Held for handlers one at a time: the stores refine `Directory`, and a user who was never
super admin has one role per organization (both when transactions fail, too); nothing
dangles after a removal; a facade changes its organization's roles only; only
RemoveUser takes the last super admin; one active server per organization; no server
without its source; the files on the collectors follow the lists and the learning task
its organization's record, with what is said of the history variables above excused.

What the second list leaves out is real. Handlers that overlap break `FacadeIsolation`
(the facade writes whole records read earlier, `organizations/users.go:168`),
`OneActiveAlone` (`organizations/servers.go:132`), `NoOrphanAlone`, `NoDangling`,
`TasksFollowOrgs` and `FilesFollowLists`; no run shows that, as nothing in the repository
promises the contrary, and the runs of these properties do not cover it. `hazards` says
which.

An installation may well be left with sources and no default, nobody having cleared a
flag: by the addition of a plain source that still saw the last one, and the removal of
that one. On bolt the removal leaves no source, so that `RemovalKeepsDefault` has nothing
to say, and the plain source comes after it; on etcd the plain source may also be written
while the removal is under way, which is the second exception of `DefaultLeaves`.

Broken by the code (`findings`), each with TLC's trace:

1. `UpdateMe` appends a role without looking for one on the record it reads
   second, and a user ends up with two roles in an organization
   (`server/me.go:171`; claim at `server/auth.go:203`).
2. Two super admins demote each other and none is left (`server/users.go:633`;
   claim at `server/users.go:623`).
3. On etcd, two transactions that set the default flag both commit, because the
   lists they reset from are read outside of the transaction
   (`kv/etcd/client.go:365`; claim at `kv/sources_test.go:101`).
4. Of three devices that move to another organization in one request, the second
   stays on the list of the first organization and is collected for both: the loop
   removes from the list it ranges over (`server/network_devices.go:1055`; claim at
   `server/network_devices.go:1042`).

## Proofs

Constants are assumed to be what `TenancyAssumption`, `ResourcesAssumption`,
`EtcdAssumption`, `SnowflakeAssumption`, `OrAssumption` and
`NetworkDevicesAssumption` say (types; buckets are bounded by any natural numbers;
`Absent` is no value; an or with zero changes nothing). Everything else is arbitrary: the number of handlers and records,
the operations that clients call, whether transactions fail and servers crash.

`TenancyProofs`: `TypeCorrect` (`TypeOK`), `NoLockOut` (`RegularOneRole`), the latter for
any number of handlers that race. `RegularOneRole` is not inductive: a handler
carries a record from one transaction to the next. `IInv` adds `Sane`, what the
locals keep at each label: a record about to be stored has one role per
organization or its id has been super admin; a handler past
the checks of a deletion is not deleting the default organization. One lemma per
group of actions shows that a step hands over sane locals and stores what they
promise; the argument for `UpdateMe`, which alone may append a second role, is that
it does so only for a user it has just seen to be super admin, whose id is then in
`everSuper`.

`NamesProofs`: `IdsKeepPrincipals` (`IdKeepsPrincipal`). The property says nothing of
a record in flight for an id whose user is deleted meanwhile, which `UpdatePut` then
stores again. `NamesKept` does: some function gives the ids up to the sequence their
principals, and agrees with every stored record and with every record a handler
carries (`Carries`). `Handing` says what a step that puts no record hands over: what
was carried before, or what was just read. `AddPut` extends the function at an id above
all of those in flight. `FirstUserRules` (`FirstUserIsSuperAdmin`) assumes that the
clients' `Ops` do not contain `StoreError`: `firstUser` answers false when counting
the users fails, and the first user is then whatever the configuration says
(`server/me.go:352`, a hazard). `FirstInv`: before there is a user, every handler that
is past its count of the users is about to store a super admin, and no handler is at a
label that only a user gets to (`Early`); whichever of the first logins puts first, its
record has id 1.

`OneHandlerProofs` assumes `OneHandler`, that there is one slot, and nothing else unless
said. `AloneInvariant` says what the handler knows at each label (`Knows`): what it has
read is what is stored. A record about to be put is that of a stored user, changed only
for the facade's organization, with organizations that exist, and takes the last super
admin from nobody (`Replaces`); a name looked for is still free. `FacadesIsolate`
(`FacadeIsolation`) and `SuperAdminsStay` (`LastSuperAdminStays`) follow from it, the
latter with `NamesKept`, as a new record must not land on a super admin's id.
`StoresAreDirectory` is the refinement (`DirectorySpec`): six actions write the buckets
(`OnlyWrites`), each of them is an operation of `Directory` or changes nothing, and
transactions that fail and crashes are stutters. `TidyInvariant` and `NothingDangles`
(`NoDangling`) assume also `Undisturbed`, that no transaction fails and the server does
not crash, because a cascade that stops half way does leave references. `Tidies`:
nothing refers to the organization where the cascade has been, and the members and
mappings it has yet to visit are those on its lists. `Minds`: an organization the
handler has looked up before it refers to it still exists. Ids are not handed out
twice, so a new organization is not one that a cascade is still at.

`ResourcesProofs`: `TypeCorrect`, `OneDefault` (`AtMostOneDefault`), `Isolated`
(`OrgIsolation`), `RemovalLeavesDefault` (`RemovalKeepsDefault`) and, for handlers
that have not overlapped, `OneActiveServer` (`OneActiveAlone`) and `NoOrphanServer`
(`NoOrphanAlone`). `IInv` adds `Scoped`: the servers a handler has listed or
read, and has not looked at again, belong to its organization or are gone, which
stays true because ids are never reused (`SeqOK`) and nothing changes a server's
organization. `Effect` says what any step of a handler does in these terms; each
action is shown to have such an effect, and effects keep `IInv`. `RemovalLeavesDefault` needs
that the store picks a source when one is left: the ids are numbers below the sequence
(`SourceSeqOK`) and a set of them has a least element (`Induction`). `AloneInv` is about
behaviours without `disturbed`, for any number of slots (`Calm`): at most one handler is
then in flight; while it deactivates servers, those active in its organization are on
its list, and none is when it stores an active one; a server without its source is on
the list of servers it is about to delete, and a handler that stores a server has seen
its source.

`EtcdProofs`: `TypeCorrect` (`TypeOK`), `RemovedStaysRemoved`
(`UpdateOfRemovedFails`) and `DefaultKept` (`DefaultLeaves`), for all flags that clients
bring. Most commits set a default themselves, or remove a source that is none. Of those
that do neither, an update of the default source clears its flag at the client's
request, and a removal of it had a list with no other source (`Alone`). `IInv` follows
the latter: whatever is stored besides its source was written after its snapshot
(`Guarded`). An addition compares nothing at its commit, so `Guarded` would not survive
one that wrote over an older key; its id is new to all (`FreshIds`: above the ids stored,
and none that another transaction has read, writes or adds, `Touches`). `Snapshot`, that a
key not written since the first Get has the value it had then, turns the comparison of
revisions into one of values.

`SnowflakeProofs`: `TypeCorrect` (`TypeOK`), `StatesAscend` (`Ascending`), `IdsUnique`
(`Unique`). `IInv` says what a call in flight has read and will store: what it stores
is greater than what it read, and it stores it only where it read it, so that each
server's state is greater than all that were taken. Within a server ids then
differ because states do, as long as the or with the machine id changes them alike,
which it does while the machine bits are zero (`Rolled`); between servers because
the machine ids do.

`NetworkDevicesProofs`: `RemovedForGood` (`RemovedStaysRemoved`) needs no more than
that the sequence of ids is a number, since `PutDevice` looks for the device in the step
that puts it. It is a theorem about bolt, as the module is.

`TypeCorrect` (`TypeOK`) is about any number of handlers that interleave, fail and crash,
and clients that set any lists, so the lists are sequences of ids and no more: they may
repeat one, or name one that is not yet made. `TypeInv` says of every handler, at each
label, that the records it is about to put are of that type. What the loops over a list
do is a property of recursive functions: of `KeepAt`, by which `Keep`, `Drop` and
`WithGroup` are defined, and of `RangeRemove`, what `removeDeviceIDsFromPreviousOrg` is left
with when the list shrinks under the loop.

`FilesAlongside` (`FilesFollowLists`) and `TasksAlongside` (`TasksFollowOrgs`) assume
`AbsentApart`: `Absent` is no kapacitor and no record of an organization, which model
values are by themselves. They come from one invariant, `TypeInv /\ AloneInv`. Neither property
holds between the steps of a handler: files are written before the records that say what
is in them, tasks are deleted and made before the record is put. `AloneInv` says
that either nothing in flight is alone and everything is in doubt (`Loose`: what a step of
such handlers does no property speaks of, until they are gone), or there is one handler
in flight, and then what it knows is so (`Knows`), the files agree with the records but
for the one it is at (`FiledBut`), and so do the tasks (`SettledBut`); and that with
nothing in flight all is sound, which is the two properties. `Knows` goes label by label:
its copies are what is stored, what it has read covers the list it is about to write,
and the record it carries agrees with the file or task it has just written. So a Collect
that starts with files in doubt has no need of what they were: it is alone, and writes
from what it has read. A fault or another handler's arrival puts in doubt exactly what
the one in flight was about to settle. That a Learn shortens a list is in `FiledBut`
as the half that remains: every device of the list is in the file.

A few leaves cite `ZenonT(60)`: Zenon needs more than its ten seconds for them on a
slow machine.

`Induction`: `LeastElement`, `SetInduction` and `IntervalInduction`, stated with a set
where the library's theorems have an operator parameter, which the provers cannot
instantiate. `Iteration` gives a function that starts from a value and whose values
each come from the one before: `CHOOSE`, by which a recursive function is defined, then
chooses one, and what it returns is an induction over the list (`KeepSteps`,
`RangeRemoveList`).

TLC only: liveness (`CallsEnd`; fairness and ENABLED are out of the provers' reach), and
the violations. Every other property of a run that passes is stated by a theorem. What
needs handlers one at a time is proved of those and false otherwise.

## Not modelled, and what could come next

Not modelled, with the reasons in `components`: proxies to InfluxDB, Salt, SNMP
agents, terminals and the enterprise cluster (they forward and keep nothing);
OAuth2, cookies and passwords (cryptography and redirects); templates, TICKscripts
and serialisation (text); the multistore with its read-only files; dashboards (one
record per request, with nothing across records but the cascade that `Tenancy` has);
topologies, vspheres, cloud service providers and organization settings (one record
per request, and an organization's removal does not cascade to them); servers without
authentication; start-up and packaging. The front end is most of the repository's lines: it
renders answers of the server in one browser tab, and no other part reads its
state. What of the server keeps state across requests is modelled here.

Worth doing next: the device stores on etcd in the manner of `EtcdSources` (their
existence checks are Views next to the transaction, so an Update may bring a removed
record back); what a collector has loaded, as opposed to the file it is given
(`server/network_devices.go:908` restarts a collector before the files of its other
organizations are written).
