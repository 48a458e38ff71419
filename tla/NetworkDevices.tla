---------------------------- MODULE NetworkDevices ----------------------------
(****************************************************************************)
(* Network devices and how they are collected and learned: the stores of    *)
(* devices and of device organizations (kv/network_device*.go), the         *)
(* handlers that change them (server/network_devices*.go), and the two      *)
(* outside systems they keep in step, one HTTP call at a time: the Logstash *)
(* configuration files on the collector servers, written through Salt, and  *)
(* the learning tasks of Kapacitor.                                         *)
(*                                                                          *)
(* Nothing is locked between two calls: `req` holds a handler in flight per *)
(* slot, with its program counter and locals, and a step is one transaction *)
(* of the store or one call of an outside system.  A collector or kapacitor *)
(* that is "" in the code is Absent here.                                   *)
(*                                                                          *)
(* The store is bolt, which runs one read-write transaction at a time: the  *)
(* stores' Update methods look the record up in a View of its own, nested   *)
(* in the transaction that puts it, and on bolt nothing is written between  *)
(* the two.  On etcd the View would be a transaction of its own and the put *)
(* would compare nothing: that is not modelled.                             *)
(****************************************************************************)
EXTENDS Naturals, Sequences, FiniteSets, FiniteSetsExt

CONSTANTS Requests,     \* slots for handlers in flight
          Orgs,         \* organizations, which are there all the time
          IPs,          \* addresses of devices
          Collectors,   \* minions whose name starts with ch-collector
          Kapas,        \* kapacitor URLs
          Crons,        \* when a learning task runs
          MaxDevices,   \* bound: ids the devices bucket hands out
          MaxAsked,     \* bound: devices named in one request, by their age
          MaxEntries,   \* bound: entries of one NewDevices request
          MaxFaults,    \* bound: faults that happen
          GivenLists,   \* bound: lists of devices that clients set directly
          GivenCollectors,  \* bound: collectors that they set directly
          Ops,          \* the operations clients use, the faults that happen
          Absent

DeviceIds == 1 .. MaxDevices

ASSUME NetworkDevicesAssumption ==
    MaxDevices \in Nat /\ MaxAsked \in Nat /\ MaxEntries \in Nat
    /\ MaxFaults \in Nat
    /\ GivenLists \subseteq Seq(DeviceIds)
    /\ GivenCollectors \subseteq Collectors \cup {Absent}

VARIABLES devices,      \* devices bucket
          deviceSeq,    \* its sequence
          devOrgs,      \* device organizations bucket
          files,        \* files[c][o]: the <<id, ip>> in o's file on collector c
          tasks,        \* tasks[k][o]: o's learning task in kapacitor k
          req,          \* per slot: the handler in flight
          faults,       \* calls and processes that failed so far
          fileDoubt,    \* history: organizations whose file may differ from the
                        \* list: a call failed, handlers overlapped, the server
                        \* stopped, or a client set the list itself
          fileExtra,    \* history: organizations whose list a Learn shortened,
                        \* which writes no file
          taskDoubt,    \* history: organizations whose task may differ from the
                        \* record: as for the files
          stray         \* history: the <<kapacitor, organization>> whose task was
                        \* left behind: by RemoveNetworkDeviceOrg, or as above

deviceVars == <<devices, deviceSeq>>
history == <<fileDoubt, fileExtra, taskDoubt, stray>>
vars == <<devices, deviceSeq, devOrgs, files, tasks, req, faults,
          fileDoubt, fileExtra, taskDoubt, stray>>

Device == [org : Orgs, ip : IPs]
Stored == {d \in DeviceIds : devices[d] # Absent}
StoredOrgs == {o \in Orgs : devOrgs[o] # Absent}

Elements(s) == {s[i] : i \in DOMAIN s}
\* The list with the positions of I alone, in their order.
KeepAt(list, I) ==
    LET kept[i \in 0 .. Len(list)] ==
          IF i = 0 THEN <<>>
          ELSE IF i \in I THEN Append(kept[i - 1], list[i]) ELSE kept[i - 1]
    IN  kept[Len(list)]
\* The list with the members of S alone.
Keep(list, S) == KeepAt(list, {i \in DOMAIN list : list[i] \in S})
\* RemoveElements: the list without them.
Drop(list, S) == Keep(list, Elements(list) \ S)
\* removeDeviceID for each of them: the list without the first of each.
DropFirst(list, S) ==
    KeepAt(list, {i \in DOMAIN list :
                    list[i] \in S => \E j \in 1 .. i - 1 : list[j] = list[i]})

Extend(f, k, v) == [x \in DOMAIN f \cup {k} |-> IF x = k THEN v ELSE f[x]]

\* Lists of at most n of the elements of S, none of them twice.
ListsOf(S, n) ==
    UNION {{s \in [1 .. m -> S] : \A i, j \in 1 .. m : s[i] = s[j] => i = j} :
             m \in 0 .. n}

Idle == [op |-> "none", pc |-> "idle"]
At(r, label) == req[r].pc = label
Go(r, l) == req' = [req EXCEPT ![r] = l]
Finish(r) == Go(r, Idle)
\* A fault of a kind that this instance has happens.
Fails(kind) ==
    kind \in Ops /\ faults < MaxFaults /\ faults' = faults + 1
Works == UNCHANGED faults
StoresKeep ==
    UNCHANGED <<devices, deviceSeq, devOrgs, files, tasks, history>>
Reads == StoresKeep /\ Works

\* Two handlers overlap, or the server stops: nothing is said until a handler
\* that runs alone has brought things together again.
AllInDoubt ==
    /\ fileDoubt' = Orgs /\ taskDoubt' = Orgs /\ stray' = Kapas \X Orgs
    /\ UNCHANGED fileExtra

\* A handler starts.  From here on neither it nor those in flight are alone,
\* if there are any.
Begin(r, l) ==
    /\ l.op \in Ops /\ At(r, "idle")
    /\ LET busy == {q \in Requests : ~At(q, "idle")}
       IN  /\ req' = [q \in Requests |->
                        IF q = r THEN [l EXCEPT !.alone = (busy = {})]
                        ELSE IF q \in busy THEN [req[q] EXCEPT !.alone = FALSE]
                        ELSE Idle]
           /\ IF busy = {} THEN UNCHANGED history ELSE AllInDoubt
    /\ UNCHANGED <<devices, deviceSeq, devOrgs, files, tasks, faults>>

----------------------------------------------------------------------------
(* Devices: NewDevice, NewDevices, UpdateNetworkDevice. *)

\* Mutant: the record is put without a look.
MutPutDevice(d, rec) ==
    /\ devices' = [x \in DeviceIds |-> IF x = d THEN rec ELSE devices[x]]
    /\ UNCHANGED deviceSeq

\* NetworkDeviceStore.Update: a record that is gone is not put.  Its nested
\* View and its put are one transaction, as on bolt.
PutDevice(d, rec) ==
    /\ devices' = [x \in DeviceIds |->
                     IF x = d /\ devices[d] # Absent THEN rec ELSE devices[x]]
    /\ UNCHANGED deviceSeq

\* All: the id each known address leads to (the last one, if several do).
BeginNewDevices(r) ==
    \E op \in {"NewDevice", "NewDevices"} :
    \E asked \in UNION {[1 .. n -> Device] : n \in 1 .. MaxEntries} :
        Begin(r, [op |-> op, pc |-> "new.entry", alone |-> TRUE, asked |-> asked,
                  known |-> [ip \in {devices[d].ip : d \in Stored} |->
                               Max({d \in Stored : devices[d].ip = ip})],
                  id |-> 0, copy |-> Absent])

\* The request and its Get: the copy of the record with the fields set.
BeginUpdateNetworkDevice(r) ==
    \E d \in Stored, copy \in Device :
        Begin(r, [op |-> "UpdateNetworkDevice", alone |-> TRUE,
                  pc |-> IF copy = devices[d] THEN "ud.put" ELSE "ud.check",
                  asked |-> <<copy>>, known |-> <<>>, id |-> d, copy |-> copy])

\* One entry of the request is done with, well or not.
NextEntry(r) ==
    IF Len(req[r].asked) = 1 THEN Finish(r)
    ELSE Go(r, [req[r] EXCEPT !.pc = "new.entry", !.asked = Tail(@),
                              !.id = 0, !.copy = Absent])

\* NewDevice refuses an address that was known, NewDevices updates the device.
KnownAddress(r) ==
    LET ip == Head(req[r].asked).ip
    IN  /\ At(r, "new.entry") /\ ip \in DOMAIN req[r].known
        /\ \/ req[r].op = "NewDevice" /\ NextEntry(r)
           \/ /\ req[r].op = "NewDevices"
              /\ Go(r, [req[r] EXCEPT !.pc = "ud.get", !.id = req[r].known[ip]])
        /\ Reads

\* A list that a client has set may name the new device already.  (A store that
\* has handed out MaxDevices ids fails: the bound.)
CreateDevice(r) ==
    /\ At(r, "new.entry")
    /\ Head(req[r].asked).ip \notin DOMAIN req[r].known
    /\ IF deviceSeq = MaxDevices THEN UNCHANGED <<deviceVars, fileDoubt>>
       ELSE /\ deviceSeq' = deviceSeq + 1
            /\ devices' = [x \in DeviceIds |->
                             IF x = deviceSeq + 1 THEN Head(req[r].asked)
                             ELSE devices[x]]
            /\ fileDoubt' = fileDoubt \cup
                 {o \in StoredOrgs : deviceSeq + 1 \in Elements(devOrgs[o].collected)}
    /\ NextEntry(r)
    /\ UNCHANGED <<devOrgs, files, tasks, faults, fileExtra, taskDoubt, stray>>

\* UpdateDevice, called by NewDevices with all the fields of the entry.
UpdateDeviceGet(r) ==
    LET l == req[r]
        copy == Head(l.asked)
    IN  /\ At(r, "ud.get")
        /\ IF devices[l.id] = Absent THEN NextEntry(r)
           ELSE Go(r, [l EXCEPT !.copy = copy,
                  !.pc = IF copy = devices[l.id] THEN "ud.put" ELSE "ud.check"])
        /\ Reads

ListedIn(o, d) ==
    /\ devOrgs[o] # Absent
    /\ d \in Elements(devOrgs[o].collected) \cup Elements(devOrgs[o].learned)

\* Mutant: only devices being learned are refused.
MutUpdateDeviceCheck(r) ==
    /\ At(r, "ud.check")
    /\ LET o == req[r].copy.org
       IN  IF /\ devOrgs[o] # Absent
              /\ req[r].id \in Elements(devOrgs[o].learned)
           THEN NextEntry(r) ELSE Go(r, [req[r] EXCEPT !.pc = "ud.put"])
    /\ Reads

\* "device is already being collected. Stop collecting before updating": the
\* organization asked is the one the device will belong to.
UpdateDeviceCheck(r) ==
    /\ At(r, "ud.check")
    /\ IF ListedIn(req[r].copy.org, req[r].id) THEN NextEntry(r)
       ELSE Go(r, [req[r] EXCEPT !.pc = "ud.put"])
    /\ Reads

UpdateDevicePut(r) ==
    /\ At(r, "ud.put")
    /\ PutDevice(req[r].id, req[r].copy)
    /\ NextEntry(r)
    /\ UNCHANGED <<devOrgs, files, tasks, faults, history>>

DevicesStep(r) ==
    \/ KnownAddress(r) \/ CreateDevice(r)
    \/ UpdateDeviceGet(r) \/ UpdateDeviceCheck(r) \/ UpdateDevicePut(r)

----------------------------------------------------------------------------
(* MonitoringConfigManagement ("Collect"), LearningDeviceManagement         *)
(* ("Learn") and RemoveDevices ("Remove") share one course: read the        *)
(* devices, take them off the lists of organizations they no longer belong  *)
(* to, change the lists of those they do, and then, for each organization   *)
(* touched, write its file and put its record.                              *)

NewDeviceOrg(collector) ==
    [collected |-> <<>>, learned |-> <<>>, collector |-> collector,
     kapa |-> Absent, cron |-> Absent]

\* on: the devices asked to be collected (learned); the others are to stop.
\* failed: what RemoveDevices stops at; for the others it is only in the reply.
BeginManage(r) ==
    \E op \in {"Collect", "Learn", "Remove"} :
    \E asked \in ListsOf({d \in DeviceIds : d <= deviceSeq}, MaxAsked) :
    \E on \in SUBSET (IF op = "Remove" THEN {} ELSE Elements(asked)) :
        /\ asked # <<>> /\ \A i, j \in DOMAIN asked : i < j => asked[i] < asked[j]
        /\ Begin(r, [op |-> op, pc |-> "get", alone |-> TRUE, asked |-> asked,
                  on |-> on, rest |-> asked, copies |-> <<>>, failed |-> {},
                  keys |-> {}, home |-> <<>>, todo |-> <<>>,
                  left |-> {}, org |-> Absent, entries |-> {},
                  restarted |-> {}, found |-> FALSE])

\* The devices of the request that belonged to o when they were read.
Group(l, o) ==
    Keep(l.asked, {d \in DOMAIN l.copies : l.copies[d].org = o})
GroupOrgs(l) == {l.copies[d].org : d \in DOMAIN l.copies}

AfterGet == [Collect |-> "orgs", Learn |-> "prev", Remove |-> "rm.check"]

\* Only RemoveDevices uses the device without looking at the error: it panics.
ManageGet(r) ==
    LET l == req[r]
        d == Head(l.rest)
        m == IF devices[d] # Absent
             THEN [l EXCEPT !.copies = Extend(@, d, devices[d]), !.rest = Tail(@)]
             ELSE [l EXCEPT !.rest = Tail(@)]
    IN  /\ At(r, "get")
        /\ CASE devices[d] = Absent /\ l.op = "Remove" -> Finish(r)
             [] m.rest # <<>> -> Go(r, m)
             [] m.rest = <<>> /\ l.op = "Collect" /\ m.copies = <<>> -> Finish(r)
             [] OTHER -> Go(r, [m EXCEPT !.pc = AfterGet[l.op],
                                         !.left = GroupOrgs(m)])
        /\ Reads

\* findLeastLoadedCollectorServer: an organization stays where it is;
\* a new one gets a collector nobody uses, or the least loaded one.  load[c]:
\* the devices of collector c, for those that an organization has.
LeastLoaded(o, keys, load) ==
    LET unused == keys \ DOMAIN load
        Load(c) == IF c \in DOMAIN load THEN load[c] ELSE 0
        least == {c \in keys : \A k \in keys : Load(c) <= Load(k)}
    IN  CASE o \in StoredOrgs /\ devOrgs[o].collector # Absent ->
               {devOrgs[o].collector}
          [] o \notin StoredOrgs /\ unused # {} -> unused
          [] OTHER -> IF keys = {} THEN {Absent} ELSE least

\* The collectors the loop over the groups can give them: it takes the groups in
\* some order (a Go map), and each adds its devices to the load of its collector.
Assignments(l, keys) ==
    LET groups == GroupOrgs(l)
        n == Cardinality(groups)
        Used == {devOrgs[o].collector : o \in StoredOrgs}
        Collected(c) == MapThenSumSet(LAMBDA o : Len(devOrgs[o].collected),
                            {o \in StoredOrgs : devOrgs[o].collector = c})
        LoadAfter(pick, some) ==
          [c \in Used \cup {pick[o] : o \in some} |->
             Collected(c) + MapThenSumSet(LAMBDA o : Len(Group(l, o)),
                                {o \in some : pick[o] = c})]
    IN  {pick \in [groups -> Collectors \cup {Absent}] :
           \E order \in ListsOf(groups, n) :
             /\ Len(order) = n
             /\ \A i \in 1 .. n : pick[order[i]] \in
                  LeastLoaded(order[i], keys,
                              LoadAfter(pick, {order[j] : j \in 1 .. i - 1}))}

\* All and getCollectorServers.  The keys are those Salt has accepted, in an
\* order of its own; a minion that does not answer the ping is among them.  The
\* collectors chosen follow from the two, and are used later.
CollectOrgs(r) ==
    LET l == req[r]
    IN  /\ At(r, "orgs")
        /\ \/ /\ \E keys \in SUBSET Collectors :
                  \E pick \in Assignments(l, keys) :
                    Go(r, [l EXCEPT !.pc = "prev",
                             !.home = [o \in {p \in DOMAIN pick : pick[p] \in keys}
                                         |-> pick[o]]])
              /\ Works
           \/ Fails("SaltFails") /\ Finish(r)
        /\ StoresKeep

\* RemoveDevices asks for the collectors once per organization that collects.
RemoveCheck(r, o) ==
    LET l == req[r]
        next == [l EXCEPT !.left = @ \ {o},
                          !.pc = IF l.left = {o} THEN "prev" ELSE "rm.check"]
    IN  /\ At(r, "rm.check") /\ o \in l.left
        /\ IF devOrgs[o] # Absent /\ devOrgs[o].collected # <<>>
           THEN \/ /\ \E keys \in SUBSET Collectors :
                        Go(r, [next EXCEPT !.keys = keys])
                   /\ Works
                \/ Fails("SaltFails") /\ Finish(r)
           ELSE Go(r, next) /\ Works
        /\ StoresKeep

\* The loop `for _, id := range list { list = removeDeviceID(list, id) }` over
\* the ids in gone.  A removal shifts the array that is being ranged over, so
\* the element after a removed one is not looked at; step[i][1] is the array
\* after i rounds, step[i][2] the length of the list in it.
RangeRemove(list, gone) ==
    LET step[i \in 0 .. Len(list)] ==
          IF i = 0 THEN <<list, Len(list)>>
          ELSE LET a == step[i - 1][1]
                   n == step[i - 1][2]
                   at == {j \in 1 .. n : a[j] = a[i]}
               IN  IF a[i] \notin gone \/ at = {} THEN step[i - 1]
                   ELSE <<[j \in 1 .. Len(list) |->
                             IF Min(at) <= j /\ j < n THEN a[j + 1] ELSE a[j]],
                          n - 1>>
    IN  SubSeq(step[Len(list)][1], 1, step[Len(list)][2])

\* removeDeviceIDsFromPreviousOrg: the organizations that list a device that
\* belongs to another one, with their lists changed.
Previous(l) ==
    LET Moved(o) == {d \in DOMAIN l.copies : l.copies[d].org # o}
        Listed(o) == Elements(devOrgs[o].collected) \cup Elements(devOrgs[o].learned)
    IN  [o \in {p \in StoredOrgs : Moved(p) \cap Listed(p) # {}} |->
           [devOrgs[o] EXCEPT !.collected = RangeRemove(@, Moved(o)),
                              !.learned = RangeRemove(@, Moved(o))]]

\* The loop over orgsToUpdate; when it is over, RemoveDevices goes on to the
\* devices and the others reply.
ToOrgs(l) ==
    CASE l.todo # <<>> ->
             [l EXCEPT !.pc = "org", !.left = DOMAIN l.todo, !.on = {},
                       !.keys = {}, !.home = <<>>]
      [] l.todo = <<>> /\ l.op = "Remove" ->
             [l EXCEPT !.pc = "rm.device", !.rest = l.asked, !.copies = <<>>]
      [] OTHER -> Idle
NextOrg(l) ==
    ToOrgs([l EXCEPT !.todo = [o \in DOMAIN @ \ {l.org} |-> @[o]],
                     !.entries = {}, !.rest = <<>>])

ToGroups(l) ==
    IF GroupOrgs(l) = {} THEN ToOrgs(l)
    ELSE [l EXCEPT !.pc = "group", !.left = GroupOrgs(l)]
NextGroup(l, o) ==
    IF l.left = {o} THEN ToOrgs(l) ELSE [l EXCEPT !.left = @ \ {o}]

RemovePrevious(r) ==
    LET l == [req[r] EXCEPT !.todo = Previous(req[r])]
    IN  /\ At(r, "prev")
        /\ Go(r, ToGroups(l))
        /\ Reads

\* appendUnique and removeDeviceID for the devices of a group.
WithGroup(list, group, on) ==
    DropFirst(list, Elements(group) \ on) \o Keep(group, on \ Elements(list))

\* The record the loop starts from: the one with moved devices taken off, or
\* the stored one, or a new one.
Base(l, o) ==
    CASE o \in DOMAIN l.todo -> l.todo[o]
      [] o \notin DOMAIN l.todo /\ devOrgs[o] # Absent -> devOrgs[o]
      [] OTHER -> NewDeviceOrg(IF l.op = "Collect" THEN l.home[o] ELSE Absent)

\* "Skip this organization if its collector server is not active": Load asks
\* whether the collector is among the keys, not what the ping stored for it.
CollectGroup(r, o) ==
    LET l == req[r]
        rec == [Base(l, o) EXCEPT !.collector = l.home[o],
                                  !.collected = WithGroup(@, Group(l, o), l.on)]
    IN  /\ At(r, "group") /\ l.op = "Collect" /\ o \in l.left
        /\ Go(r, NextGroup(IF o \notin DOMAIN l.home THEN l
                           ELSE [l EXCEPT !.todo = Extend(@, o, rec)], o))
        /\ Reads

LearnGroup(r, o) ==
    LET l == req[r]
        rec == [Base(l, o) EXCEPT !.learned = WithGroup(@, Group(l, o), l.on)]
    IN  /\ At(r, "group") /\ l.op = "Learn" /\ o \in l.left
        /\ Go(r, NextGroup([l EXCEPT !.todo = Extend(@, o, rec)], o))
        /\ Reads

\* RemoveDevices takes the stored record as the start, whatever
\* removeDeviceIDsFromPreviousOrg made of it.
RemoveGroup(r, o) ==
    LET l == req[r]
        Rest(list) == Drop(list, Elements(Group(l, o)))
        rec == [devOrgs[o] EXCEPT !.collected = Rest(@), !.learned = Rest(@)]
    IN  /\ At(r, "group") /\ l.op = "Remove" /\ o \in l.left
        /\ Go(r, NextGroup(
              CASE devOrgs[o] = Absent -> l
                [] devOrgs[o] # Absent /\ devOrgs[o].collected # <<>>
                     /\ devOrgs[o].collector \notin l.keys ->
                       [l EXCEPT !.failed = @ \cup Elements(Group(l, o))]
                [] OTHER -> [l EXCEPT !.todo = Extend(@, o, rec)], o))
        /\ Reads

\* The next organization to update, in any order (a Go map).  RemoveDevices
\* writes no file unless the list of collected devices changes.
OpenOrg(r, o) ==
    LET l == req[r]
        m == [l EXCEPT !.org = o, !.entries = {}, !.rest = l.todo[o].collected]
    IN  /\ At(r, "org") /\ o \in l.left
        /\ Go(r, CASE l.op = "Learn" -> [m EXCEPT !.pc = "have"]
                   [] l.op = "Collect" -> [m EXCEPT !.pc = "read"]
                   [] l.op = "Remove" /\ devOrgs[o] = Absent -> NextOrg(m)
                   [] OTHER ->
                        [m EXCEPT !.pc = IF devOrgs[o].collected = l.todo[o].collected
                                         THEN "rm.put" ELSE "read"])
        /\ Reads

\* Mutant: id and address are swapped in the entry.
MutReadDevice(r) ==
    LET l == req[r]
        d == Head(l.rest)
    IN  /\ At(r, "read") /\ l.rest # <<>>
        /\ Go(r, [l EXCEPT !.rest = Tail(@),
              !.entries = IF devices[d] = Absent THEN @
                          ELSE @ \cup {<<devices[d].ip, d>>}])
        /\ Reads

\* manageLogstashConfig reads the listed devices; one that is gone is left out.
ReadDevice(r) ==
    LET l == req[r]
        d == Head(l.rest)
    IN  /\ At(r, "read") /\ l.rest # <<>>
        /\ Go(r, [l EXCEPT !.rest = Tail(@),
              !.entries = IF devices[d] = Absent THEN @
                          ELSE @ \cup {<<d, devices[d].ip>>}])
        /\ Reads

\* An organization failed: RemoveDevices fails every device of the request.
SkipOrg(l) ==
    NextOrg(IF l.op = "Remove" THEN [l EXCEPT !.failed = DOMAIN l.copies] ELSE l)

\* The file is written (removed, if the list is empty) and its collector
\* restarted, unless this request has restarted it.  Each call may fail; one
\* that fails may have done its work.  What a minion says of a file is in the
\* reply, which is not looked at: a 200 may have written nothing, and the
\* handler goes on to put the list.  A handler that is alone has brought the
\* file together with that list, whatever was before.
WriteFile(r) ==
    LET l == req[r]
        c == l.todo[l.org].collector
        written == IF c \in Collectors
                   THEN [files EXCEPT ![c] = [@ EXCEPT ![l.org] = l.entries]]
                   ELSE files
        done == [l EXCEPT !.restarted = @ \cup {c}]
        next == [done EXCEPT !.pc = IF l.op = "Remove" THEN "rm.put" ELSE "have"]
        mended == IF l.alone THEN {l.org} ELSE {}
    IN  /\ At(r, "read") /\ l.rest = <<>>
        /\ \/ /\ Go(r, next) /\ files' = written
              /\ fileDoubt' = fileDoubt \ mended
              /\ fileExtra' = fileExtra \ mended
              /\ Works
           \/ /\ Fails("SaltFails")
              /\ \/ Go(r, SkipOrg(l)) /\ files' \in {files, written}
                 \/ /\ c \notin l.restarted
                    /\ Go(r, SkipOrg(done)) /\ files' = written
                 \/ Go(r, next) /\ files' = files
              /\ fileDoubt' = fileDoubt \cup {l.org} /\ UNCHANGED fileExtra
        /\ UNCHANGED <<devices, deviceSeq, devOrgs, tasks, taskDoubt, stray>>

HaveOrg(r) ==
    /\ At(r, "have")
    /\ Go(r, [req[r] EXCEPT !.pc = "put",
                            !.found = devOrgs[req[r].org] # Absent])
    /\ Reads

\* NetworkDeviceOrgStore.Update: a record that is gone is not put; one
\* transaction, as PutDevice.
UpdateOrg(o, rec) ==
    devOrgs' = IF devOrgs[o] = Absent THEN devOrgs ELSE [devOrgs EXCEPT ![o] = rec]

\* Add, which puts whatever is there, or Update, whose error is not looked at.
\* A Learn takes moved devices off the list of those collected, too, and leaves
\* them in the file.
PutOrg(r) ==
    LET l == req[r]
        o == l.org
        rec == l.todo[o]
        m == [l EXCEPT !.pc = "devices", !.rest = Group(l, o)]
    IN  /\ At(r, "put")
        /\ IF l.found THEN UpdateOrg(o, rec)
           ELSE devOrgs' = [devOrgs EXCEPT ![o] = rec]
        /\ fileExtra' =
              IF l.op = "Learn" /\ devOrgs[o] # Absent
                   /\ rec.collected # devOrgs[o].collected
              THEN fileExtra \cup {o} ELSE fileExtra
        /\ Go(r, IF m.rest = <<>> THEN NextOrg(l) ELSE m)
        /\ UNCHANGED <<devices, deviceSeq, files, tasks, faults,
                       fileDoubt, taskDoubt, stray>>

\* The devices are put as they were read at the start.
PutDevices(r) ==
    LET l == req[r]
        d == Head(l.rest)
    IN  /\ At(r, "devices")
        /\ PutDevice(d, l.copies[d])
        /\ Go(r, IF Len(l.rest) = 1 THEN NextOrg(l)
                 ELSE [l EXCEPT !.rest = Tail(@)])
        /\ UNCHANGED <<devOrgs, files, tasks, faults, history>>

RemovePut(r) ==
    LET l == req[r]
    IN  /\ At(r, "rm.put")
        /\ UpdateOrg(l.org, l.todo[l.org])
        /\ Go(r, IF devOrgs[l.org] = Absent THEN SkipOrg(l) ELSE NextOrg(l))
        /\ UNCHANGED <<devices, deviceSeq, files, tasks, faults, history>>

\* The devices in turn.  At the first that has failed, or is gone, the handler
\* returns, with no reply.
DeleteDevice(r) ==
    LET l == req[r]
        d == Head(l.rest)
    IN  /\ At(r, "rm.device")
        /\ IF d \in l.failed \/ devices[d] = Absent
           THEN Finish(r) /\ UNCHANGED deviceVars
           ELSE /\ devices' = [x \in DeviceIds |->
                                 IF x = d THEN Absent ELSE devices[x]]
                /\ Go(r, IF Len(l.rest) = 1 THEN Idle
                         ELSE [l EXCEPT !.rest = Tail(@)])
                /\ UNCHANGED deviceSeq
        /\ UNCHANGED <<devOrgs, files, tasks, faults, history>>

ManageStep(r) ==
    \/ ManageGet(r) \/ CollectOrgs(r) \/ RemovePrevious(r)
    \/ \E o \in Orgs : \/ RemoveCheck(r, o) \/ CollectGroup(r, o)
                      \/ LearnGroup(r, o) \/ RemoveGroup(r, o) \/ OpenOrg(r, o)
    \/ ReadDevice(r) \/ WriteFile(r) \/ HaveOrg(r) \/ PutOrg(r) \/ PutDevices(r)
    \/ RemovePut(r) \/ DeleteDevice(r)

----------------------------------------------------------------------------
(* Device organizations and their learning tasks: AddNetworkDeviceOrg,      *)
(* UpdateNetworkDeviceOrg, RemoveNetworkDeviceOrg.                           *)

\* "Device Org with ID %s already exists", or the new record.
BeginAddOrg(r) ==
    \E o \in Orgs, k \in Kapas, cron \in Crons :
        /\ devOrgs[o] = Absent
        /\ Begin(r, [op |-> "AddOrg", pc |-> "ao.add", alone |-> TRUE, org |-> o,
                     rec |-> [NewDeviceOrg(Absent) EXCEPT !.kapa = k, !.cron = cron],
                     old |-> Absent, found |-> FALSE])

\* NetworkDeviceOrgStore.Add puts, even over a record made in between.
AddOrg(r) ==
    /\ At(r, "ao.add")
    /\ devOrgs' = [devOrgs EXCEPT ![req[r].org] = req[r].rec]
    /\ Go(r, [req[r] EXCEPT !.pc = "task.get"])
    /\ UNCHANGED <<devices, deviceSeq, files, tasks, faults, history>>

\* The copy of the record with the request's fields set; the kapacitor may not
\* be in the request (k = Absent), the cron is.  The lists and the collector may
\* be, and are taken as they are.
BeginUpdateOrg(r) ==
    \E o \in StoredOrgs, k \in Kapas \cup {Absent}, cron \in Crons :
    \E collected \in GivenLists \cup {devOrgs[o].collected},
       learned \in GivenLists \cup {devOrgs[o].learned},
       collector \in GivenCollectors \cup {devOrgs[o].collector} :
        LET old == devOrgs[o].kapa
            kapa == IF k = Absent THEN old ELSE k
        IN  Begin(r, [op |-> "UpdateOrg", alone |-> TRUE, org |-> o,
                      pc |-> IF kapa # old /\ old # Absent THEN "uo.drop"
                             ELSE "task.get",
                      rec |-> [collected |-> collected, learned |-> learned,
                               collector |-> collector, kapa |-> kapa,
                               cron |-> cron],
                      old |-> old, found |-> FALSE])

\* The tasks with o's in k set to v.
TasksWith(k, o, v) == [tasks EXCEPT ![k] = [@ EXCEPT ![o] = v]]

\* Mutant: the task is looked for in the new kapacitor.
MutDropTask(r) ==
    LET l == req[r]
    IN  /\ At(r, "uo.drop")
        /\ Go(r, [l EXCEPT !.pc = "task.get"])
        /\ tasks' = TasksWith(l.rec.kapa, l.org, Absent)
        /\ Works /\ UNCHANGED history
        /\ UNCHANGED <<devices, deviceSeq, devOrgs, files>>

\* deleteLearningTask, whose error is not looked at: if it failed, the task may
\* be there or not, and nothing will look for it again.
DropTask(r) ==
    LET l == req[r]
        task == <<l.old, l.org>>
        dropped == TasksWith(l.old, l.org, Absent)
    IN  /\ At(r, "uo.drop")
        /\ Go(r, [l EXCEPT !.pc = "task.get"])
        /\ \/ /\ tasks' = dropped /\ Works
              /\ stray' = IF l.alone THEN stray \ {task} ELSE stray
           \/ /\ Fails("KapacitorFails")
              /\ tasks' \in {tasks, dropped}
              /\ stray' = stray \cup {task}
        /\ UNCHANGED <<devices, deviceSeq, devOrgs, files,
                       fileDoubt, fileExtra, taskDoubt>>

\* A call about the task fails: it may differ from the record from here on, and
\* the record may not come to name this kapacitor.
TaskInDoubt(l) ==
    /\ taskDoubt' = taskDoubt \cup {l.org}
    /\ stray' = stray \cup ({l.rec.kapa} \cap Kapas) \X {l.org}

\* manageLearningTask asks whether the task exists; an error is taken for no.
\* Before that it may fail for its own reasons (no InfluxDB source).
TaskGet(r) ==
    LET l == req[r]
        Found(b) == Go(r, [l EXCEPT !.pc = "task.put", !.found = b])
        k == l.rec.kapa
    IN  /\ At(r, "task.get")
        /\ \/ /\ Found(k # Absent /\ tasks[k][l.org] # Absent)
              /\ Works /\ UNCHANGED <<taskDoubt, stray>>
           \/ /\ Fails("KapacitorFails")
              /\ Found(FALSE) \/ Finish(r)
              /\ TaskInDoubt(l)
        /\ UNCHANGED <<devices, deviceSeq, devOrgs, files, tasks,
                       fileDoubt, fileExtra>>

TaskDone(r) ==
    IF req[r].op = "AddOrg" THEN Finish(r)
    ELSE Go(r, [req[r] EXCEPT !.pc = "uo.put"])

\* A task that was found is updated, and the handler stops if that fails; one
\* that was not is created, and a failure of that is not noticed
\* (`err != nil && createdTask != nil`).  A call that fails may have done its
\* work: AutoGenerateUpdate updates the task before it enables it.  A handler
\* that is alone has made the task what its record says.
TaskPut(r) ==
    LET l == req[r]
        k == l.rec.kapa
        exists == k # Absent /\ tasks[k][l.org] # Absent
        fits == k # Absent /\ exists = l.found
        put == IF fits THEN TasksWith(k, l.org, l.rec.cron) ELSE tasks
    IN  /\ At(r, "task.put")
        /\ \/ /\ IF l.found /\ ~exists THEN Finish(r) ELSE TaskDone(r)
              /\ tasks' = put /\ Works
              /\ taskDoubt' = taskDoubt \ (IF l.alone /\ fits THEN {l.org} ELSE {})
              /\ UNCHANGED stray
           \/ /\ Fails("KapacitorFails")
              /\ IF l.found THEN Finish(r) ELSE TaskDone(r)
              /\ tasks' \in {tasks, put}
              /\ TaskInDoubt(l)
        /\ UNCHANGED <<devices, deviceSeq, devOrgs, files, fileDoubt, fileExtra>>

\* A client that set the list or the collector left the file as it is.
UpdateOrgPut(r) ==
    LET o == req[r].org
        rec == req[r].rec
    IN  /\ At(r, "uo.put")
        /\ UpdateOrg(o, rec)
        /\ fileDoubt' =
              IF devOrgs[o] # Absent /\ (rec.collected # devOrgs[o].collected
                                          \/ rec.collector # devOrgs[o].collector)
              THEN fileDoubt \cup {o} ELSE fileDoubt
        /\ Finish(r)
        /\ UNCHANGED <<devices, deviceSeq, files, tasks, faults,
                       fileExtra, taskDoubt, stray>>

BeginRemoveOrg(r) ==
    \E o \in StoredOrgs :
        Begin(r, [op |-> "RemoveOrg", pc |-> "ro.delete", alone |-> TRUE, org |-> o])

\* The record goes; the file and the learning task of the organization stay.
RemoveOrg(r) ==
    LET o == req[r].org
    IN  /\ At(r, "ro.delete")
        /\ devOrgs' = [devOrgs EXCEPT ![o] = Absent]
        /\ stray' = IF devOrgs[o] = Absent THEN stray
                    ELSE stray \cup ({devOrgs[o].kapa} \cap Kapas) \X {o}
        /\ Finish(r)
        /\ UNCHANGED <<devices, deviceSeq, files, tasks, faults,
                       fileDoubt, fileExtra, taskDoubt>>

OrgsStep(r) ==
    \/ AddOrg(r) \/ DropTask(r) \/ TaskGet(r) \/ TaskPut(r)
    \/ UpdateOrgPut(r) \/ RemoveOrg(r)

----------------------------------------------------------------------------
\* The server stops and starts again: the handlers in flight are gone.
Crash ==
    /\ Fails("Crash")
    /\ \E r \in Requests : ~At(r, "idle")
    /\ req' = [r \in Requests |-> Idle]
    /\ AllInDoubt
    /\ UNCHANGED <<devices, deviceSeq, devOrgs, files, tasks>>

Init ==
    /\ devices = [d \in DeviceIds |-> Absent] /\ deviceSeq = 0
    /\ devOrgs = [o \in Orgs |-> Absent]
    /\ files = [c \in Collectors |-> [o \in Orgs |-> {}]]
    /\ tasks = [k \in Kapas |-> [o \in Orgs |-> Absent]]
    /\ req = [r \in Requests |-> Idle]
    /\ faults = 0
    /\ fileDoubt = {} /\ fileExtra = {} /\ taskDoubt = {} /\ stray = {}

BeginRequest(r) ==
    \/ BeginNewDevices(r) \/ BeginUpdateNetworkDevice(r) \/ BeginManage(r)
    \/ BeginAddOrg(r) \/ BeginUpdateOrg(r) \/ BeginRemoveOrg(r)

Step(r) == DevicesStep(r) \/ ManageStep(r) \/ OrgsStep(r)

Next == (\E r \in Requests : BeginRequest(r) \/ Step(r)) \/ Crash

Spec == Init /\ [][Next]_vars

----------------------------------------------------------------------------
(* Type invariant.  A list may name any device, any number of times: clients *)
(* set lists as they like.                                                  *)
DeviceOrg ==
    [collected : Seq(DeviceIds), learned : Seq(DeviceIds),
     collector : Collectors \cup {Absent}, kapa : Kapas \cup {Absent},
     cron : Crons \cup {Absent}]

TypeOK ==
    /\ devices \in [DeviceIds -> Device \cup {Absent}]
    /\ deviceSeq \in 0 .. MaxDevices
    /\ devOrgs \in [Orgs -> DeviceOrg \cup {Absent}]
    /\ files \in [Collectors -> [Orgs -> SUBSET (DeviceIds \X IPs)]]
    /\ tasks \in [Kapas -> [Orgs -> Crons \cup {Absent}]]
    /\ faults \in 0 .. MaxFaults
    /\ fileDoubt \subseteq Orgs /\ fileExtra \subseteq Orgs
    /\ taskDoubt \subseteq Orgs /\ stray \subseteq Kapas \X Orgs

(* A removed device stays removed (on bolt): the copies that handlers read  *)
(* before and put afterwards (UpdateDevice, PutDevices) never bring one     *)
(* back, and no other device gets its id.                                   *)
RemovedStaysRemoved ==
    [][\A d \in DeviceIds :
         d <= deviceSeq /\ devices[d] = Absent => devices'[d] = Absent]_vars

Quiet == \A r \in Requests : At(r, "idle")

(* The file on an organization's collector names every device of its list   *)
(* that is stored, those that belong to the organization with their present *)
(* address, and, until a Learn takes a moved device off the list, no other. *)
(* Not after a Salt call that failed or did nothing, handlers that          *)
(* overlapped, a restart, or a client's own list or collector; but again    *)
(* once a Collect or Remove that runs alone has written the file.           *)
FilesFollowLists ==
    Quiet => \A o \in StoredOrgs \ fileDoubt :
        LET list == Elements(devOrgs[o].collected)
            file == files[devOrgs[o].collector][o]
        IN  devOrgs[o].collector # Absent =>
              /\ o \notin fileExtra => {e[1] : e \in file} \subseteq list
              /\ \A d \in list \cap Stored :
                    \E e \in file : e[1] = d /\
                      (devices[d].org = o => e[2] = devices[d].ip)

(* An organization has its learning task in the kapacitor of its record,    *)
(* with the record's schedule, unless a call about it failed, handlers      *)
(* overlapped or the server stopped; and again once an Update that runs     *)
(* alone has put it.  A task of it in another kapacitor is one that such a  *)
(* fault or the removal of an earlier record of it left behind.             *)
TasksFollowOrgs ==
    Quiet => \A o \in StoredOrgs :
        LET kapa == devOrgs[o].kapa
        IN  /\ o \notin taskDoubt /\ kapa # Absent =>
                  tasks[kapa][o] = devOrgs[o].cron
            /\ \A k \in Kapas \ {kapa} : tasks[k][o] # Absent => <<k, o>> \in stray

(* "removeDeviceIDsFromPreviousOrg removes device IDs from their previous   *)
(* organizations" (network_devices.go:1042): no device is collected for two *)
(* organizations.                                                           *)
CollectedOnce ==
    Quiet => \A o, p \in StoredOrgs \ fileDoubt : o # p =>
        Elements(devOrgs[o].collected) \cap Elements(devOrgs[p].collected) = {}
=============================================================================
