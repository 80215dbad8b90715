------------------------------ MODULE Records ------------------------------
(***************************************************************************)
(* What the gateway keeps about its devices: devices.json behind a cache   *)
(* and one lock (linien-gateway/app/device_store.py), the configuration    *)
(* blocks of each device (device_config_store.py), the groups              *)
(* (group_store.py), the sessions' own copies (session_registry.py), and   *)
(* the HTTP handlers of main.py that go from one to the other.             *)
(*                                                                         *)
(* Every handler works on a deep copy of the record, taken when it began,  *)
(* and saves the whole of it; a session keeps the copy the last handler    *)
(* gave it, and its threads save that one.  The store lock spans the       *)
(* reading and the writing of one save and no more.  A record is its host  *)
(* (for all that only devices.json holds) and its configuration block.     *)
(***************************************************************************)
EXTENDS Naturals, FiniteSets

CONSTANTS
    Keys, Known, \* device keys; those devices.json holds at first
    Groups,     \* group keys
    Requests,   \* handlers that may run at once
    Values,     \* hosts and configurations
    MaxWrites, MaxSaves, \* bounds on requests that write, and on saves of sessions
    MaxCrashes, \* bound on ends of the gateway process
    None

ASSUME BoundsAssumption == {MaxWrites, MaxSaves} \subseteq Nat /\ MaxCrashes \in Nat
ASSUME ValuesAssumption == Values # {}

VARIABLES
    file, torn,     \* devices.json; cut off by a crash
    cache,          \* _cache
    storeLock,      \* who holds _store_lock over a save
    configs,        \* DeviceConfigStore
    groups,         \* groups.json: members, auto_include
    session,        \* the sessions' copy of the record and their configuration
    keyLock,        \* who holds lock_for(key)
    thread,         \* the handlers, and the saving thread of each session
    writes, saves, crashes \* used up of the bounds

stores == <<file, torn, cache, storeLock>>
vars   == <<stores, configs, groups, session, keyLock, thread, writes, saves, crashes>>

Threads == Requests \cup Keys
Records == [host : Values, config : Values]
Files   == [Keys -> Records \cup {None}] \* what devices.json may hold

ASSUME NoneAssumption == None \notin Values \cup Threads \cup Records \cup Files

\* A thread: where it is, the request and its value, the record of the device it
\* works on, where it goes on after a save, and what that save has loaded; for a
\* handler of groups, the devices it has listed and the group it was asked for.
Idle == [at |-> "idle", op |-> None, key |-> None, dev |-> None, value |-> None,
         then |-> None, loaded |-> None, listed |-> {}, want |-> None]

At(t, place) == thread[t].at = place
Goto(t, place) == thread' = [thread EXCEPT ![t].at = place]
Finish(t) == thread' = [thread EXCEPT ![t] = Idle]

\* The configuration a device starts with.
First == CHOOSE v \in Values : TRUE

\* _safe_load_device_list: "the last-good cache, or an empty list".
SafeLoad == IF ~torn THEN file ELSE IF cache # None THEN cache ELSE [k \in Keys |-> None]

\* _get_cached_list
Cached == IF cache # None THEN cache ELSE SafeLoad

Init ==
    /\ file = [k \in Keys |-> IF k \in Known THEN [host |-> First, config |-> First] ELSE None]
    /\ \E seeded \in SUBSET Known : configs = [k \in Keys |-> IF k \in seeded THEN First ELSE None]
    /\ torn = FALSE /\ cache = None /\ storeLock = None
    /\ groups \in [Groups -> {None, [members |-> {}, auto |-> TRUE]}]
    /\ session = [k \in Keys |-> None] /\ keyLock = [k \in Keys |-> None]
    /\ thread = [t \in Threads |-> Idle]
    /\ writes = 0 /\ saves = 0 /\ crashes = 0

-----------------------------------------------------------------------------
(* devices.json.                                                           *)

\* Mutant: loading, changing and writing are not one section.
StoreFree_Always == TRUE

StoreFree == storeLock = None

\* A save: the thread has this record of its device (None to remove it), and
\* goes on at `then'.
Saving(t, dev, then) ==
    thread' = [thread EXCEPT ![t].at = "save", ![t].dev = dev, ![t].then = then]

\* save_device, remove_device: the file is loaded ...
SaveLoads(t) ==
    /\ At(t, "save") /\ StoreFree
    /\ ~torn
    /\ storeLock' = t
    /\ thread' = [thread EXCEPT ![t].at = "write", ![t].loaded = file]
    /\ UNCHANGED <<file, torn, cache, configs, groups, session, keyLock, writes, saves, crashes>>

Invalidated == None

\* ... and written as a whole, with this record changed.
SaveWrites(t) ==
    /\ At(t, "write")
    /\ LET r == thread[t] IN
       /\ file' = [r.loaded EXCEPT ![r.key] = r.dev]
       /\ IF r.then = "idle" THEN Finish(t)
          ELSE thread' = [thread EXCEPT ![t].at = r.then, ![t].then = None, ![t].loaded = None]
    /\ cache' = Invalidated
    /\ storeLock' = None
    /\ UNCHANGED <<torn, configs, groups, session, keyLock, writes, saves, crashes>>

\* linien_client's load_device_list raises on a file that is cut off: the
\* request fails.
SaveFails(t) ==
    /\ At(t, "save") /\ StoreFree /\ torn
    /\ Finish(t)
    /\ keyLock' = [k \in Keys |-> IF keyLock[k] = t THEN None ELSE keyLock[k]]
    /\ UNCHANGED <<stores, configs, groups, session, writes, saves, crashes>>

\* The process ends, in the middle of a write if there is one, and starts again.
Restart ==
    /\ crashes < MaxCrashes /\ crashes' = crashes + 1
    /\ torn' \in {torn, torn \/ \E t \in Threads : At(t, "write")}
    /\ cache' = None /\ storeLock' = None
    /\ session' = [k \in Keys |-> None] /\ keyLock' = [k \in Keys |-> None]
    /\ thread' = [t \in Threads |-> Idle]
    /\ UNCHANGED <<file, configs, groups, writes, saves>>

\* "until the file is manually repaired", and the gateway started again.
Repair ==
    /\ torn /\ torn' = FALSE
    /\ cache' = None /\ storeLock' = None
    /\ session' = [k \in Keys |-> None] /\ keyLock' = [k \in Keys |-> None]
    /\ thread' = [t \in Threads |-> Idle]
    /\ UNCHANGED <<file, configs, groups, writes, saves, crashes>>

-----------------------------------------------------------------------------
(* Handlers.                                                               *)

\* A handler that writes counts against the bound; polling does not.  (That
\* /devices/statuses works on the cached record itself, not on a copy, is left
\* out: what it changes there it saves at once, which empties the cache.)
Counted(op) ==
    IF op \in {"read", "list"} THEN UNCHANGED writes
    ELSE writes < MaxWrites /\ writes' = writes + 1

\* A handler begins; reading the list fills the cache.
Begin(t, work) ==
    /\ thread[t] = Idle /\ StoreFree
    /\ Counted(work.op)
    /\ cache' = Cached
    /\ thread' = [thread EXCEPT ![t] = work]
    /\ UNCHANGED <<file, torn, storeLock, configs, groups, session, keyLock, saves, crashes>>

\* _get_device_or_404.  The operation is what the handler does once the session
\* has the record: nothing, change the configuration, or (holding the key lock
\* from the start) change the host.
Request(t, k, op, v) ==
    /\ Cached[k] # None
    /\ LET place == CASE op = "patch" -> "locking" [] op = "delete" -> "unregister" [] OTHER -> "seed"
       IN Begin(t, [Idle EXCEPT !.at = place, !.op = op, !.key = k, !.dev = Cached[k], !.value = v])

Create(t, k, v) ==
    /\ Cached[k] = None
    /\ Begin(t, [Idle EXCEPT !.at = "save", !.op = "create", !.key = k,
                              !.dev = [host |-> v, config |-> v], !.then = "autogroup"])

\* update_device takes the key lock before _session_for_device.
Lock(t) ==
    /\ At(t, "locking") /\ keyLock[thread[t].key] = None
    /\ keyLock' = [keyLock EXCEPT ![thread[t].key] = t]
    /\ Goto(t, "seed")
    /\ UNCHANGED <<stores, configs, groups, session, writes, saves, crashes>>

\* _seed_config_store_from_device: looks, and then sets.
Seed(t) ==
    /\ At(t, "seed")
    /\ Goto(t, IF configs[thread[t].key] = None THEN "seeding" ELSE "apply")
    /\ UNCHANGED <<stores, configs, groups, session, keyLock, writes, saves, crashes>>

SeedSets(t) ==
    /\ At(t, "seeding")
    /\ configs' = [configs EXCEPT ![thread[t].key] = thread[t].dev.config]
    /\ Goto(t, "apply")
    /\ UNCHANGED <<stores, groups, session, keyLock, writes, saves, crashes>>

\* Mutant: the record's own block is taken.
Configured_Own(r) == r.dev

\* apply_configs_to_device: the configuration store wins.
Configured(r) ==
    IF configs[r.key] = None THEN r.dev ELSE [r.dev EXCEPT !.config = configs[r.key]]

Apply(t) ==
    /\ At(t, "apply")
    /\ LET dev == Configured(thread[t]) IN
       IF dev # thread[t].dev THEN Saving(t, dev, "attach") ELSE Goto(t, "attach")
    /\ UNCHANGED <<stores, configs, groups, session, keyLock, writes, saves, crashes>>

\* The session is found or made, gets this very record (which the rest of the
\* handler goes on to change) and takes its configuration.  update_device sets
\* the fields of it and saves.
Attach(t) ==
    /\ At(t, "attach")
    /\ LET r == thread[t]
           dev == IF r.op = "patch" THEN [r.dev EXCEPT !.host = r.value] ELSE r.dev
       IN /\ keyLock[r.key] \in {None, t}
          /\ session' = [session EXCEPT ![r.key] =
                           [dev |-> dev, by |-> IF r.op = "config" THEN t ELSE None,
                            config |-> dev.config]]
          /\ \/ r.op = "read" /\ Finish(t)
             \/ r.op = "config" /\ Goto(t, "config")
             \/ r.op = "patch" /\ Saving(t, dev, "patched")
    /\ UNCHANGED <<stores, configs, groups, keyLock, writes, saves, crashes>>

Patched(t) ==
    /\ At(t, "patched")
    /\ keyLock' = [keyLock EXCEPT ![thread[t].key] = None]
    /\ Finish(t)
    /\ UNCHANGED <<stores, configs, groups, session, writes, saves, crashes>>

\* update_..._config: the session first, then _persist_config_block with the
\* record, which may be the session's still.
Configure(t) ==
    /\ At(t, "config")
    /\ LET r == thread[t]
           dev == [r.dev EXCEPT !.config = r.value]
       IN /\ session' = [session EXCEPT ![r.key] =
                           IF @ = None THEN None
                           ELSE [dev |-> IF @.by = t THEN dev ELSE @.dev,
                                 by |-> IF @.by = t THEN None ELSE @.by, config |-> r.value]]
          /\ Saving(t, dev, "persist")
    /\ UNCHANGED <<stores, configs, groups, keyLock, writes, saves, crashes>>

PersistConfig(t) ==
    /\ At(t, "persist")
    /\ configs' = [configs EXCEPT ![thread[t].key] = thread[t].value]
    /\ Finish(t)
    /\ UNCHANGED <<stores, groups, session, keyLock, writes, saves, crashes>>

\* create_device: saved, and added to the groups that include everything.
AddToAutoGroups(t) ==
    /\ At(t, "autogroup")
    /\ groups' = [g \in Groups |->
                    IF groups[g] # None /\ groups[g].auto
                      THEN [groups[g] EXCEPT !.members = @ \cup {thread[t].key}]
                      ELSE groups[g]]
    /\ Finish(t)
    /\ UNCHANGED <<stores, configs, session, keyLock, writes, saves, crashes>>

\* delete_device: the session, the record, the configuration, the groups.
Unregister(t) ==
    /\ At(t, "unregister") /\ keyLock[thread[t].key] = None
    /\ session' = [session EXCEPT ![thread[t].key] = None]
    /\ Saving(t, None, "unconfigure")
    /\ UNCHANGED <<stores, configs, groups, keyLock, writes, saves, crashes>>

Unconfigure(t) ==
    /\ At(t, "unconfigure")
    /\ configs' = [configs EXCEPT ![thread[t].key] = None]
    /\ Goto(t, "ungroup")
    /\ UNCHANGED <<stores, groups, session, keyLock, writes, saves, crashes>>

Ungroup(t) ==
    /\ At(t, "ungroup")
    /\ groups' = [g \in Groups |->
                    IF groups[g] = None THEN None
                    ELSE [groups[g] EXCEPT !.members = @ \ {thread[t].key}]]
    /\ Finish(t)
    /\ UNCHANGED <<stores, configs, session, keyLock, writes, saves, crashes>>

\* A session's thread saves the record the session holds.
SessionSaves(k) ==
    /\ thread[k] = Idle /\ session[k] # None
    /\ saves < MaxSaves /\ saves' = saves + 1
    /\ thread' = [thread EXCEPT ![k] = [Idle EXCEPT !.at = "save", !.key = k,
                                                    !.dev = session[k].dev, !.then = "idle"]]
    /\ UNCHANGED <<stores, configs, groups, session, keyLock, writes, crashes>>

-----------------------------------------------------------------------------
(* Groups.  Each handler lists the devices first.                          *)

ListDevices(t, op, place, wanted) ==
    Begin(t, [Idle EXCEPT !.at = place, !.op = op, !.want = wanted,
                          !.listed = {k \in Keys : Cached[k] # None}])

\* Mutant: an automatic group is not completed.
WithMissing_Not(g, listed) == g.members

\* list_groups, for an automatic group.
WithMissing(g, listed) == IF g.auto THEN g.members \cup listed ELSE g.members

\* list_groups: the dead are dropped, the missing added; without any group, one
\* of all devices is made.
ListGroups(t) ==
    /\ At(t, "groups")
    /\ LET listed == thread[t].listed
           live(g) == [g EXCEPT !.members = @ \cap listed]
       IN IF \A g \in Groups : groups[g] = None
            THEN \E g \in Groups :
                   groups' = [groups EXCEPT ![g] = [members |-> listed, auto |-> TRUE]]
            ELSE groups' = [g \in Groups |->
                              IF groups[g] = None THEN None
                              ELSE [members |-> WithMissing(live(groups[g]), listed),
                                    auto |-> groups[g].auto]]
    /\ Finish(t)
    /\ UNCHANGED <<stores, configs, session, keyLock, writes, saves, crashes>>

\* create_group and update_group, with the devices that were listed.
PutGroup(t) ==
    /\ At(t, "putgroup")
    /\ LET want == thread[t].want IN
       groups' = [groups EXCEPT ![want.group] =
                    [members |-> want.members \cap thread[t].listed, auto |-> want.auto]]
    /\ Finish(t)
    /\ UNCHANGED <<stores, configs, session, keyLock, writes, saves, crashes>>

DeleteGroup(g) ==
    /\ groups[g] # None
    /\ writes < MaxWrites /\ writes' = writes + 1
    /\ groups' = [groups EXCEPT ![g] = None]
    /\ UNCHANGED <<stores, configs, session, keyLock, thread, saves, crashes>>

-----------------------------------------------------------------------------
Step(t) ==
    \/ SaveLoads(t) \/ SaveWrites(t) \/ SaveFails(t)
    \/ Lock(t) \/ Seed(t) \/ SeedSets(t) \/ Apply(t) \/ Attach(t)
    \/ Patched(t) \/ Configure(t) \/ PersistConfig(t)
    \/ AddToAutoGroups(t)
    \/ Unregister(t) \/ Unconfigure(t) \/ Ungroup(t)
    \/ ListGroups(t) \/ PutGroup(t)

Next ==
    \/ \E t \in Threads : Step(t)
    \/ \E t \in Requests, k \in Keys : Request(t, k, "read", None)
    \/ \E t \in Requests, k \in Keys, v \in Values : Request(t, k, "patch", v)
    \/ \E t \in Requests, k \in Keys, v \in Values : Request(t, k, "config", v)
    \/ \E t \in Requests, k \in Keys : Request(t, k, "delete", None)
    \/ \E t \in Requests, k \in Keys, v \in Values : Create(t, k, v)
    \/ \E t \in Requests : ListDevices(t, "list", "groups", None)
    \/ \E t \in Requests, g \in Groups, members \in SUBSET Keys, auto \in BOOLEAN :
         ListDevices(t, "put", "putgroup", [group |-> g, members |-> members, auto |-> auto])
    \/ \E k \in Keys : SessionSaves(k)
    \/ \E g \in Groups : DeleteGroup(g)
    \/ Restart \/ Repair

Spec == Init /\ [][Next]_vars

\* A thread that can go on does; browsers keep asking for the status
\* of every device and for the groups; a file that is cut off is repaired.
Fairness ==
    /\ \A t \in Threads : WF_vars(Step(t))
    /\ \A k \in Keys : SF_vars(\E t \in Requests : Request(t, k, "read", None))
    /\ SF_vars(\E t \in Requests : ListDevices(t, "list", "groups", None))
    /\ WF_vars(Repair)

FairSpec == Spec /\ Fairness

-----------------------------------------------------------------------------
(* Properties.                                                             *)

\* A group, a session's record with its configuration, what PutGroup was asked.
GroupRecords == [members : SUBSET Keys, auto : BOOLEAN]
Attached     == [dev : Records, by : Threads \cup {None}, config : Values]
Wants        == [group : Groups, members : SUBSET Keys, auto : BOOLEAN]

Places == {"idle", "save", "write", "locking", "seed", "seeding", "apply", "attach", "patched",
           "config", "persist", "autogroup", "unregister", "unconfigure", "ungroup",
           "groups", "putgroup"}

Ops == {"read", "patch", "config", "delete", "create", "list", "put"}

Work == [at : Places, op : Ops \cup {None}, key : Keys \cup {None},
         dev : Records \cup {None}, value : Values \cup {None},
         then : Places \cup {None}, loaded : Files \cup {None},
         listed : SUBSET Keys, want : Wants \cup {None}]

TypeOK ==
    /\ file \in Files /\ torn \in BOOLEAN /\ cache \in Files \cup {None}
    /\ storeLock \in Threads \cup {None}
    /\ configs \in [Keys -> Values \cup {None}]
    /\ groups \in [Groups -> GroupRecords \cup {None}]
    /\ session \in [Keys -> Attached \cup {None}]
    /\ keyLock \in [Keys -> Threads \cup {None}]
    /\ thread \in [Threads -> Work]
    /\ writes \in 0..MaxWrites /\ saves \in 0..MaxSaves /\ crashes \in 0..MaxCrashes

\* A record leaves devices.json only by the deletion of its device: no save of
\* another device, of a session or of a handler that started earlier drops it.
DevicesKept ==
    [][\A k \in Keys : file[k] # None /\ file'[k] = None =>
         \E t \in Threads : At(t, "write") /\ thread[t].key = k /\ thread[t].dev = None]_vars

\* Whatever stale copies handlers and sessions save, the configuration an
\* operator has set comes to be in force on the session.
ConfigTakesEffect ==
    <>[](\A k \in Keys : session[k] # None /\ file[k] # None => session[k].config = configs[k])

\* Groups come to hold every device they include automatically, and none that
\* was deleted.
GroupsFollowDevices ==
    <>[](\A g \in Groups : groups[g] # None =>
           LET there == {k \in Keys : file[k] # None} IN
           groups[g].members \subseteq there /\ (groups[g].auto => groups[g].members = there))

\* A deleted device is gone: nobody saves it again.
DeletedStaysDeleted ==
    [][\A k \in Keys : file[k] = None /\ file'[k] # None =>
         \E t \in Requests : At(t, "write") /\ thread[t].then = "autogroup"]_vars

\* A device leaves a group only when it is deleted or the operator changes the
\* group ("Reads tolerate" a file that is cut off, device_store.py).
MembersStay ==
    [][\A g \in Groups, k \in Keys :
         file[k] # None /\ groups[g] # None /\ groups'[g] # None
         /\ k \in groups[g].members /\ k \notin groups'[g].members
         => \E t \in Requests : At(t, "putgroup") \/ At(t, "ungroup")]_vars
=============================================================================
