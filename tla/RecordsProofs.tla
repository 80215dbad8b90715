--------------------------- MODULE RecordsProofs ---------------------------
(***************************************************************************)
(* Proofs about what the gateway keeps of its devices: a record leaves     *)
(* devices.json only by the deletion of its device, for any set of devices *)
(* and requests, and any number of writes, saves and crashes.              *)
(***************************************************************************)
EXTENDS Records, TLAPS

\* What a handler at one of these places works with.
InHand(r) ==
    /\ r.op \in {"read", "patch", "config"} /\ r.key \in Keys /\ r.dev \in Records
    /\ r.op # "read" => r.value \in Values

\* What a save leads to finds the same work.
Resumes(r, place) ==
    /\ place \in {"idle", "attach", "patched", "persist", "autogroup", "unconfigure"}
    /\ place = "attach" => InHand(r)
    /\ place = "persist" => r.value \in Values

\* The work a thread has at each place.
Shaped(r) ==
    /\ r.at \in {"locking", "seed", "seeding", "apply", "attach", "config"} => InHand(r)
    /\ r.at = "config" => r.op = "config"
    /\ r.at \in {"save", "write"} =>
         r.key \in Keys /\ r.dev \in Records \cup {None} /\ Resumes(r, r.then)
    /\ r.at = "write" => r.loaded \in Files
    /\ r.at \in {"patched", "persist", "autogroup", "unregister", "unconfigure", "ungroup"} =>
         r.key \in Keys
    /\ r.at = "persist" => r.value \in Values
    /\ r.at = "putgroup" => r.want \in Wants

Shapes == \A t \in Threads : Shaped(thread[t])

\* Between the reading and the writing of a save the thread has the lock, and
\* what it has read is what the file still holds.
SaveIsOneSection ==
    \A t \in Threads : At(t, "write") => storeLock = t /\ thread[t].loaded = file

RecordsInv == TypeOK /\ Shapes /\ SaveIsOneSection

-----------------------------------------------------------------------------
(* What a step does to the threads.                                        *)

LEMMA IdleIsWork == Idle \in Work /\ Shaped(Idle) /\ Idle.at = "idle"
BY DEF Idle, Work, Places, Ops, Shaped, InHand, Resumes

\* One thread goes on with work r; it is not about to write.
LEMMA OneGoesOn ==
    ASSUME RecordsInv, NEW t \in Threads, NEW r \in Work, Shaped(r), r.at # "write",
           thread' = [thread EXCEPT ![t] = r], UNCHANGED <<file, storeLock>>
    PROVE  thread' \in [Threads -> Work] /\ Shapes' /\ SaveIsOneSection'
<1>1. /\ thread' \in [Threads -> Work]
      /\ thread'[t] = r
      /\ \A u \in Threads \ {t} : thread'[u] = thread[u]
  BY DEF RecordsInv, TypeOK
<1>2. Shapes'
  <2> SUFFICES ASSUME NEW u \in Threads PROVE Shaped(thread'[u])
    BY DEF Shapes, Shaped, InHand, Resumes
  <2>1. CASE u = t
    BY <1>1, <2>1
  <2>2. CASE u # t
    BY <1>1, <2>2 DEF RecordsInv, Shapes
  <2> QED
    BY <2>1, <2>2
<1>3. SaveIsOneSection'
  BY <1>1 DEF RecordsInv, SaveIsOneSection, At
<1> QED
  BY <1>1, <1>2, <1>3

\* The places a thread goes to without other changes of its work.
LEMMA GoesTo ==
    ASSUME RecordsInv, NEW t \in Threads, NEW place \in Places, place # "write",
           Shaped([thread[t] EXCEPT !.at = place]),
           Goto(t, place), UNCHANGED <<file, storeLock>>
    PROVE  thread' \in [Threads -> Work] /\ Shapes' /\ SaveIsOneSection'
<1> DEFINE r == [thread[t] EXCEPT !.at = place]
<1>1. thread' = [thread EXCEPT ![t] = r]
  BY DEF Goto
<1>2. r \in Work /\ r.at # "write"
  BY DEF RecordsInv, TypeOK, Work
<1> QED
  BY <1>1, <1>2, OneGoesOn

LEMMA GoesToSave ==
    ASSUME RecordsInv, NEW t \in Threads, NEW dev \in Records \cup {None}, NEW then,
           thread[t].key \in Keys, Resumes([thread[t] EXCEPT !.dev = dev], then),
           Saving(t, dev, then), UNCHANGED <<file, storeLock>>
    PROVE  thread' \in [Threads -> Work] /\ Shapes' /\ SaveIsOneSection'
<1> DEFINE r == [thread[t] EXCEPT !.at = "save", !.dev = dev, !.then = then]
<1>1. thread' = [thread EXCEPT ![t] = r]
  BY DEF Saving
<1>2. thread[t] \in Work
  BY DEF RecordsInv, TypeOK
<1>3. r \in Work /\ r.at # "write"
  <2>1. "save" \in Places /\ then \in Places
    BY DEF Places, Resumes
  <2> QED
    BY <1>2, <2>1 DEF Work
<1>4. Shaped(r)
  BY <1>2 DEF Work, Shaped, Resumes, InHand
<1> HIDE DEF r
<1> QED
  BY <1>1, <1>3, <1>4, OneGoesOn

LEMMA Finishes ==
    ASSUME RecordsInv, NEW t \in Threads, Finish(t), UNCHANGED <<file, storeLock>>
    PROVE  thread' \in [Threads -> Work] /\ Shapes' /\ SaveIsOneSection'
BY IdleIsWork, OneGoesOn DEF Finish

-----------------------------------------------------------------------------
(* The saves.                                                              *)

LEMMA LoadsKeeps == ASSUME RecordsInv, NEW t \in Threads, SaveLoads(t) PROVE RecordsInv'
<1> DEFINE r == [thread[t] EXCEPT !.at = "write", !.loaded = file]
<1>1. thread[t] \in Work /\ Shaped(thread[t]) /\ thread[t].at = "save" /\ file \in Files
  BY DEF SaveLoads, At, RecordsInv, TypeOK, Shapes
<1>2. r \in Work /\ r.at = "write" /\ r.loaded = file
  BY <1>1 DEF Work, Places
<1>3. Shaped(r)
  BY <1>1 DEF Work, Shaped, Resumes, InHand
<1>4. thread' = [thread EXCEPT ![t] = r] /\ file' = file /\ storeLock' = t
  BY DEF SaveLoads, stores
<1> HIDE DEF r
<1>5. /\ thread' \in [Threads -> Work] /\ thread'[t] = r
      /\ \A u \in Threads \ {t} : thread'[u] = thread[u]
  BY <1>2, <1>4 DEF RecordsInv, TypeOK
<1>6. TypeOK'
  BY <1>4, <1>5 DEF SaveLoads, RecordsInv, TypeOK
<1>7. Shapes'
  <2> SUFFICES ASSUME NEW u \in Threads PROVE Shaped(thread'[u])
    BY DEF Shapes, Shaped, InHand, Resumes
  <2> QED
    BY <1>3, <1>5 DEF RecordsInv, Shapes
<1>8. SaveIsOneSection'
  <2>1. \A u \in Threads : ~At(u, "write")
    BY NoneAssumption DEF SaveLoads, StoreFree, RecordsInv, SaveIsOneSection
  <2> QED
    BY <1>2, <1>4, <1>5, <2>1 DEF SaveIsOneSection, At
<1> QED
  BY <1>6, <1>7, <1>8 DEF RecordsInv

\* What a write leaves in the file, and the only thread that writes.
LEMMA WriteKeepsOthers ==
    ASSUME RecordsInv, NEW t \in Threads, SaveWrites(t)
    PROVE  /\ thread[t].key \in Keys /\ thread[t].dev \in Records \cup {None}
           /\ file' = [file EXCEPT ![thread[t].key] = thread[t].dev]
           /\ file' \in Files
           /\ \A u \in Threads \ {t} : ~At(u, "write")
<1>1. thread[t].at = "write" /\ Shaped(thread[t]) /\ storeLock = t /\ thread[t].loaded = file
  BY DEF SaveWrites, At, RecordsInv, Shapes, SaveIsOneSection
<1>2. thread[t].key \in Keys /\ thread[t].dev \in Records \cup {None}
  BY <1>1 DEF Shaped
<1>3. file' = [file EXCEPT ![thread[t].key] = thread[t].dev]
  BY <1>1 DEF SaveWrites
<1>4. file' \in Files
  BY <1>2, <1>3 DEF RecordsInv, TypeOK, Files
<1>5. \A u \in Threads \ {t} : ~At(u, "write")
  BY <1>1 DEF RecordsInv, SaveIsOneSection
<1> QED
  BY <1>2, <1>3, <1>4, <1>5

LEMMA WritesKeeps == ASSUME RecordsInv, NEW t \in Threads, SaveWrites(t) PROVE RecordsInv'
<1>1. thread[t] \in Work /\ Shaped(thread[t]) /\ thread[t].at = "write"
  BY DEF SaveWrites, At, RecordsInv, TypeOK, Shapes
<1>2. PICK r \in Work : /\ thread' = [thread EXCEPT ![t] = r]
                        /\ Shaped(r) /\ r.at # "write"
  <2>1. CASE thread[t].then = "idle"
    BY <2>1, IdleIsWork DEF SaveWrites, Finish
  <2>2. CASE thread[t].then # "idle"
    <3> DEFINE r == [thread[t] EXCEPT !.at = thread[t].then, !.then = None, !.loaded = None]
    <3>1. thread' = [thread EXCEPT ![t] = r]
      BY <2>2 DEF SaveWrites
    <3>2. r \in Work /\ r.at # "write"
      <4>1. thread[t].then \in Places /\ thread[t].then # "write"
        BY <1>1 DEF Shaped, Resumes, Places
      <4> QED
        BY <1>1, <4>1 DEF Work
    <3>3. Shaped(r)
      BY <1>1, <2>2 DEF Work, Shaped, Resumes, InHand
    <3> HIDE DEF r
    <3> QED
      BY <3>1, <3>2, <3>3
  <2> QED
    BY <2>1, <2>2
<1>3. /\ thread' \in [Threads -> Work] /\ thread'[t] = r
      /\ \A u \in Threads \ {t} : thread'[u] = thread[u]
  BY <1>2 DEF RecordsInv, TypeOK
<1>4. TypeOK'
  BY <1>3, WriteKeepsOthers DEF SaveWrites, Invalidated, RecordsInv, TypeOK
<1>5. Shapes'
  <2> SUFFICES ASSUME NEW u \in Threads PROVE Shaped(thread'[u])
    BY DEF Shapes, Shaped, InHand, Resumes
  <2> QED
    BY <1>2, <1>3 DEF RecordsInv, Shapes
<1>6. SaveIsOneSection'
  BY <1>2, <1>3, WriteKeepsOthers DEF SaveIsOneSection, At
<1> QED
  BY <1>4, <1>5, <1>6 DEF RecordsInv

LEMMA FailsKeeps == ASSUME RecordsInv, NEW t \in Threads, SaveFails(t) PROVE RecordsInv'
<1>1. thread' \in [Threads -> Work] /\ Shapes' /\ SaveIsOneSection'
  BY Finishes DEF SaveFails, stores
<1>2. TypeOK'
  BY <1>1 DEF SaveFails, stores, RecordsInv, TypeOK
<1> QED
  BY <1>1, <1>2 DEF RecordsInv

-----------------------------------------------------------------------------
(* The handlers.                                                           *)

LEMMA CachedIsAFile == RecordsInv => Cached \in Files
BY DEF RecordsInv, TypeOK, Cached, SafeLoad, Files

LEMMA BeginKeeps ==
    ASSUME RecordsInv, NEW t \in Threads, NEW r \in Work, Shaped(r), r.at # "write", Begin(t, r)
    PROVE  RecordsInv'
<1>1. thread' \in [Threads -> Work] /\ Shapes' /\ SaveIsOneSection'
  BY OneGoesOn DEF Begin
<1>2. writes' \in 0..MaxWrites
  BY BoundsAssumption DEF Begin, Counted, RecordsInv, TypeOK
<1>3. TypeOK'
  BY <1>1, <1>2, CachedIsAFile DEF Begin, RecordsInv, TypeOK
<1> QED
  BY <1>1, <1>3 DEF RecordsInv

LEMMA RequestKeeps ==
    ASSUME RecordsInv, NEW t \in Requests, NEW k \in Keys, NEW op, NEW v,
           \/ op \in {"read", "delete"} /\ v = None
           \/ op \in {"patch", "config"} /\ v \in Values,
           Request(t, k, op, v)
    PROVE  RecordsInv'
<1> DEFINE place == CASE op = "patch" -> "locking" [] op = "delete" -> "unregister" [] OTHER -> "seed"
           r == [Idle EXCEPT !.at = place, !.op = op, !.key = k, !.dev = Cached[k], !.value = v]
<1>1. Begin(t, r) /\ t \in Threads
  BY DEF Request, Threads
<1>2. Cached[k] \in Records
  BY CachedIsAFile DEF Request, Files
<1>3. place \in {"locking", "unregister", "seed"} /\ (op = "delete" => place = "unregister")
  BY DEF place
<1>4. op \in Ops /\ v \in Values \cup {None}
  BY DEF Ops
<1> HIDE DEF place
<1>5. r \in Work /\ r.at # "write"
  BY <1>2, <1>3, <1>4 DEF Work, Places, Idle
<1>6. Shaped(r)
  BY <1>2, <1>3 DEF Idle, Shaped, InHand, place
<1> HIDE DEF r
<1> QED
  BY <1>1, <1>5, <1>6, BeginKeeps

LEMMA CreateKeeps ==
    ASSUME RecordsInv, NEW t \in Requests, NEW k \in Keys, NEW v \in Values, Create(t, k, v)
    PROVE  RecordsInv'
<1> DEFINE r == [Idle EXCEPT !.at = "save", !.op = "create", !.key = k,
                             !.dev = [host |-> v, config |-> v], !.then = "autogroup"]
<1>1. Begin(t, r) /\ t \in Threads
  BY DEF Create, Threads
<1>2. [host |-> v, config |-> v] \in Records
  BY DEF Records
<1>3. r \in Work /\ r.at # "write"
  BY <1>2 DEF Work, Places, Ops, Idle
<1>4. Shaped(r)
  BY <1>2 DEF Idle, Shaped, Resumes
<1> HIDE DEF r
<1> QED
  BY <1>1, <1>3, <1>4, BeginKeeps

LEMMA ListDevicesKeeps ==
    ASSUME RecordsInv, NEW t \in Requests, NEW op, NEW place, NEW wanted,
           \/ op = "list" /\ place = "groups" /\ wanted = None
           \/ op = "put" /\ place = "putgroup" /\ wanted \in Wants,
           ListDevices(t, op, place, wanted)
    PROVE  RecordsInv'
<1> DEFINE listed == {k \in Keys : Cached[k] # None}
           r == [Idle EXCEPT !.at = place, !.op = op, !.want = wanted, !.listed = listed]
<1>1. Begin(t, r) /\ t \in Threads
  BY DEF ListDevices, Threads
<1>2. listed \in SUBSET Keys
  OBVIOUS
<1> HIDE DEF listed
<1>3. r \in Work /\ r.at # "write"
  BY <1>2 DEF Work, Places, Ops, Idle
<1>4. Shaped(r)
  BY DEF Idle, Shaped
<1> HIDE DEF r
<1> QED
  BY <1>1, <1>3, <1>4, BeginKeeps

\* What a thread at a place of a handler has.
LEMMA WorkInHand ==
    ASSUME RecordsInv, NEW t \in Threads
    PROVE  thread[t] \in Work /\ Shaped(thread[t])
BY DEF RecordsInv, TypeOK, Shapes

LEMMA LockKeeps == ASSUME RecordsInv, NEW t \in Threads, Lock(t) PROVE RecordsInv'
<1>1. Shaped([thread[t] EXCEPT !.at = "seed"])
  BY WorkInHand DEF Lock, At, Work, Shaped, InHand
<1>2. thread' \in [Threads -> Work] /\ Shapes' /\ SaveIsOneSection'
  BY <1>1, GoesTo DEF Lock, stores, Places
<1>3. TypeOK'
  BY <1>2 DEF Lock, stores, RecordsInv, TypeOK
<1> QED
  BY <1>2, <1>3 DEF RecordsInv

LEMMA SeedKeeps == ASSUME RecordsInv, NEW t \in Threads, Seed(t) PROVE RecordsInv'
<1>1. /\ Shaped([thread[t] EXCEPT !.at = "seeding"])
      /\ Shaped([thread[t] EXCEPT !.at = "apply"])
  BY WorkInHand DEF Seed, At, Work, Shaped, InHand
<1>2. Goto(t, "seeding") \/ Goto(t, "apply")
  BY DEF Seed
<1>3. thread' \in [Threads -> Work] /\ Shapes' /\ SaveIsOneSection'
  BY <1>1, <1>2, GoesTo DEF Seed, stores, Places
<1>4. TypeOK'
  BY <1>3 DEF Seed, stores, RecordsInv, TypeOK
<1> QED
  BY <1>3, <1>4 DEF RecordsInv

LEMMA SeedSetsKeeps == ASSUME RecordsInv, NEW t \in Threads, SeedSets(t) PROVE RecordsInv'
<1>1. Shaped([thread[t] EXCEPT !.at = "apply"])
  BY WorkInHand DEF SeedSets, At, Work, Shaped, InHand
<1>2. thread' \in [Threads -> Work] /\ Shapes' /\ SaveIsOneSection'
  BY <1>1, GoesTo DEF SeedSets, stores, Places
<1>3. thread[t].dev.config \in Values
  BY WorkInHand DEF SeedSets, At, Shaped, InHand, Records
<1>4. TypeOK'
  BY <1>2, <1>3 DEF SeedSets, stores, RecordsInv, TypeOK
<1> QED
  BY <1>2, <1>4 DEF RecordsInv

LEMMA ApplyKeeps == ASSUME RecordsInv, NEW t \in Threads, Apply(t) PROVE RecordsInv'
<1> DEFINE dev == Configured(thread[t])
<1>1. thread[t] \in Work /\ InHand(thread[t]) /\ thread[t].at = "apply"
  BY WorkInHand DEF Apply, At, Shaped
<1>2. dev \in Records
  <2>1. configs[thread[t].key] \in Values \cup {None}
    BY <1>1 DEF RecordsInv, TypeOK, InHand
  <2> QED
    BY <1>1, <2>1 DEF Configured, InHand, Records
<1>3. Saving(t, dev, "attach") \/ Goto(t, "attach")
  BY DEF Apply
<1> HIDE DEF dev
<1>4. /\ Resumes([thread[t] EXCEPT !.dev = dev], "attach")
      /\ Shaped([thread[t] EXCEPT !.at = "attach"])
      /\ thread[t].key \in Keys
  BY <1>1, <1>2 DEF Work, Resumes, InHand, Shaped
<1>5. thread' \in [Threads -> Work] /\ Shapes' /\ SaveIsOneSection'
  BY <1>2, <1>3, <1>4, GoesTo, GoesToSave DEF Apply, stores, Places
<1>6. TypeOK'
  BY <1>5 DEF Apply, stores, RecordsInv, TypeOK
<1> QED
  BY <1>5, <1>6 DEF RecordsInv

LEMMA AttachKeeps == ASSUME RecordsInv, NEW t \in Threads, Attach(t) PROVE RecordsInv'
<1> DEFINE r == thread[t]
           dev == IF r.op = "patch" THEN [r.dev EXCEPT !.host = r.value] ELSE r.dev
<1>1. r \in Work /\ InHand(r) /\ r.at = "attach"
  BY WorkInHand DEF Attach, At, Shaped
<1>2. dev \in Records /\ dev.config \in Values
  BY <1>1 DEF InHand, Records
<1>3. \/ Finish(t)
      \/ r.op = "config" /\ Goto(t, "config")
      \/ Saving(t, dev, "patched")
  BY DEF Attach
<1>4. session' \in [Keys -> Attached \cup {None}]
  <2> DEFINE a == [dev |-> dev, by |-> IF r.op = "config" THEN t ELSE None, config |-> dev.config]
  <2>1. session' = [session EXCEPT ![r.key] = a]
    BY DEF Attach
  <2> HIDE DEF dev, r
  <2>2. a \in Attached
    BY <1>2 DEF Attached
  <2> HIDE DEF a
  <2> QED
    BY <2>1, <2>2 DEF RecordsInv, TypeOK
<1> HIDE DEF dev
<1>5. /\ Resumes([thread[t] EXCEPT !.dev = dev], "patched")
      /\ thread[t].key \in Keys
      /\ r.op = "config" => Shaped([thread[t] EXCEPT !.at = "config"])
  BY <1>1 DEF Work, Resumes, InHand, Shaped
<1>6. thread' \in [Threads -> Work] /\ Shapes' /\ SaveIsOneSection'
  BY <1>2, <1>3, <1>5, GoesTo, GoesToSave, Finishes DEF Attach, stores, Places
<1>7. TypeOK'
  BY <1>4, <1>6 DEF Attach, stores, RecordsInv, TypeOK
<1> QED
  BY <1>6, <1>7 DEF RecordsInv

LEMMA PatchedKeeps == ASSUME RecordsInv, NEW t \in Threads, Patched(t) PROVE RecordsInv'
<1>1. thread' \in [Threads -> Work] /\ Shapes' /\ SaveIsOneSection'
  BY Finishes DEF Patched, stores
<1>2. TypeOK'
  BY <1>1 DEF Patched, stores, RecordsInv, TypeOK
<1> QED
  BY <1>1, <1>2 DEF RecordsInv

LEMMA ConfigureKeeps == ASSUME RecordsInv, NEW t \in Threads, Configure(t) PROVE RecordsInv'
<1> DEFINE r == thread[t]
           dev == [r.dev EXCEPT !.config = r.value]
<1>1. r \in Work /\ InHand(r) /\ r.op = "config" /\ r.value \in Values /\ r.key \in Keys
  BY WorkInHand DEF Configure, At, Shaped, InHand
<1>2. dev \in Records
  BY <1>1 DEF InHand, Records
<1>3. Saving(t, dev, "persist")
  BY DEF Configure
<1>4. session' \in [Keys -> Attached \cup {None}]
  <2> DEFINE s == session[r.key]
             a == IF s = None THEN None
                  ELSE [dev |-> IF s.by = t THEN dev ELSE s.dev,
                        by |-> IF s.by = t THEN None ELSE s.by, config |-> r.value]
  <2>1. session' = [session EXCEPT ![r.key] = a]
    BY DEF Configure
  <2>2. s \in Attached \cup {None}
    BY <1>1 DEF RecordsInv, TypeOK
  <2> HIDE DEF dev, r, s
  <2>3. a \in Attached \cup {None}
    BY <1>1, <1>2, <2>2 DEF Attached
  <2> HIDE DEF a
  <2> QED
    BY <2>1, <2>3 DEF RecordsInv, TypeOK
<1> HIDE DEF dev
<1>5. Resumes([thread[t] EXCEPT !.dev = dev], "persist")
  BY <1>1 DEF Work, Resumes
<1>6. thread' \in [Threads -> Work] /\ Shapes' /\ SaveIsOneSection'
  BY <1>1, <1>2, <1>3, <1>5, GoesToSave DEF Configure, stores
<1>7. TypeOK'
  BY <1>4, <1>6 DEF Configure, stores, RecordsInv, TypeOK
<1> QED
  BY <1>6, <1>7 DEF RecordsInv

LEMMA PersistConfigKeeps ==
    ASSUME RecordsInv, NEW t \in Threads, PersistConfig(t) PROVE RecordsInv'
<1>1. thread' \in [Threads -> Work] /\ Shapes' /\ SaveIsOneSection'
  BY Finishes DEF PersistConfig, stores
<1>2. thread[t].value \in Values
  BY WorkInHand DEF PersistConfig, At, Shaped
<1>3. TypeOK'
  BY <1>1, <1>2 DEF PersistConfig, stores, RecordsInv, TypeOK
<1> QED
  BY <1>1, <1>3 DEF RecordsInv

LEMMA UnregisterKeeps == ASSUME RecordsInv, NEW t \in Threads, Unregister(t) PROVE RecordsInv'
<1>1. thread[t] \in Work /\ thread[t].key \in Keys
  BY WorkInHand DEF Unregister, At, Shaped
<1>2. Resumes([thread[t] EXCEPT !.dev = None], "unconfigure")
  BY DEF Resumes
<1>3. thread' \in [Threads -> Work] /\ Shapes' /\ SaveIsOneSection'
  BY <1>1, <1>2, GoesToSave DEF Unregister, stores
<1>4. TypeOK'
  BY <1>3 DEF Unregister, stores, RecordsInv, TypeOK
<1> QED
  BY <1>3, <1>4 DEF RecordsInv

LEMMA UnconfigureKeeps ==
    ASSUME RecordsInv, NEW t \in Threads, Unconfigure(t) PROVE RecordsInv'
<1>1. Shaped([thread[t] EXCEPT !.at = "ungroup"])
  BY WorkInHand DEF Unconfigure, At, Work, Shaped
<1>2. thread' \in [Threads -> Work] /\ Shapes' /\ SaveIsOneSection'
  BY <1>1, GoesTo DEF Unconfigure, stores, Places
<1>3. TypeOK'
  BY <1>2 DEF Unconfigure, stores, RecordsInv, TypeOK
<1> QED
  BY <1>2, <1>3 DEF RecordsInv

-----------------------------------------------------------------------------
(* The groups.                                                             *)

LEMMA AddToAutoGroupsKeeps ==
    ASSUME RecordsInv, NEW t \in Threads, AddToAutoGroups(t) PROVE RecordsInv'
<1>1. thread' \in [Threads -> Work] /\ Shapes' /\ SaveIsOneSection'
  BY Finishes DEF AddToAutoGroups, stores
<1>2. thread[t].key \in Keys
  BY WorkInHand DEF AddToAutoGroups, At, Shaped
<1>3. groups' \in [Groups -> GroupRecords \cup {None}]
  BY <1>2 DEF AddToAutoGroups, RecordsInv, TypeOK, GroupRecords
<1>4. TypeOK'
  BY <1>1, <1>3 DEF AddToAutoGroups, stores, RecordsInv, TypeOK
<1> QED
  BY <1>1, <1>4 DEF RecordsInv

LEMMA UngroupKeeps == ASSUME RecordsInv, NEW t \in Threads, Ungroup(t) PROVE RecordsInv'
<1>1. thread' \in [Threads -> Work] /\ Shapes' /\ SaveIsOneSection'
  BY Finishes DEF Ungroup, stores
<1>2. groups' \in [Groups -> GroupRecords \cup {None}]
  BY DEF Ungroup, RecordsInv, TypeOK, GroupRecords
<1>3. TypeOK'
  BY <1>1, <1>2 DEF Ungroup, stores, RecordsInv, TypeOK
<1> QED
  BY <1>1, <1>3 DEF RecordsInv

LEMMA ListGroupsKeeps == ASSUME RecordsInv, NEW t \in Threads, ListGroups(t) PROVE RecordsInv'
<1> DEFINE listed == thread[t].listed
<1>1. thread' \in [Threads -> Work] /\ Shapes' /\ SaveIsOneSection'
  BY Finishes DEF ListGroups, stores
<1>2. listed \in SUBSET Keys
  BY WorkInHand DEF Work
<1>3. groups' \in [Groups -> GroupRecords \cup {None}]
  <2>1. CASE \A g \in Groups : groups[g] = None
    <3>1. PICK g \in Groups : groups' = [groups EXCEPT ![g] = [members |-> listed, auto |-> TRUE]]
      BY <2>1 DEF ListGroups
    <3>2. [members |-> listed, auto |-> TRUE] \in GroupRecords
      BY <1>2 DEF GroupRecords
    <3> QED
      BY <3>1, <3>2 DEF RecordsInv, TypeOK
  <2>2. CASE ~\A g \in Groups : groups[g] = None
    <3> DEFINE live(g) == [g EXCEPT !.members = @ \cap listed]
               kept(g) == [members |-> WithMissing(live(groups[g]), listed), auto |-> groups[g].auto]
    <3>1. groups' = [g \in Groups |-> IF groups[g] = None THEN None ELSE kept(g)]
      BY <2>2 DEF ListGroups
    <3>2. \A g \in Groups : groups[g] # None => kept(g) \in GroupRecords
      <4> SUFFICES ASSUME NEW g \in Groups, groups[g] # None PROVE kept(g) \in GroupRecords
        OBVIOUS
      <4>1. groups[g] \in GroupRecords
        BY DEF RecordsInv, TypeOK
      <4>2. live(groups[g]) \in GroupRecords
        BY <4>1 DEF GroupRecords
      <4> HIDE DEF live
      <4>3. WithMissing(live(groups[g]), listed) \in SUBSET Keys
        BY <1>2, <4>2 DEF WithMissing, GroupRecords
      <4> QED
        BY <4>1, <4>3 DEF GroupRecords
    <3> HIDE DEF kept
    <3> QED
      BY <3>1, <3>2
  <2> QED
    BY <2>1, <2>2
<1>4. TypeOK'
  BY <1>1, <1>3 DEF ListGroups, stores, RecordsInv, TypeOK
<1> QED
  BY <1>1, <1>4 DEF RecordsInv

LEMMA PutGroupKeeps == ASSUME RecordsInv, NEW t \in Threads, PutGroup(t) PROVE RecordsInv'
<1>1. thread' \in [Threads -> Work] /\ Shapes' /\ SaveIsOneSection'
  BY Finishes DEF PutGroup, stores
<1>2. thread[t].want \in Wants /\ thread[t].listed \in SUBSET Keys
  BY WorkInHand DEF PutGroup, At, Shaped, Work
<1>3. groups' \in [Groups -> GroupRecords \cup {None}]
  BY <1>2 DEF PutGroup, RecordsInv, TypeOK, GroupRecords, Wants
<1>4. TypeOK'
  BY <1>1, <1>3 DEF PutGroup, stores, RecordsInv, TypeOK
<1> QED
  BY <1>1, <1>4 DEF RecordsInv

-----------------------------------------------------------------------------
(* The other steps.                                                        *)

LEMMA SessionSavesKeeps ==
    ASSUME RecordsInv, NEW k \in Keys, SessionSaves(k) PROVE RecordsInv'
<1> DEFINE r == [Idle EXCEPT !.at = "save", !.key = k, !.dev = session[k].dev, !.then = "idle"]
<1>1. thread' = [thread EXCEPT ![k] = r] /\ k \in Threads
  BY DEF SessionSaves, Threads
<1>2. session[k].dev \in Records
  BY DEF SessionSaves, RecordsInv, TypeOK, Attached
<1>3. r \in Work /\ r.at # "write"
  BY <1>2 DEF Work, Places, Idle
<1>4. Shaped(r)
  BY <1>2 DEF Idle, Shaped, Resumes
<1> HIDE DEF r
<1>5. thread' \in [Threads -> Work] /\ Shapes' /\ SaveIsOneSection'
  BY <1>1, <1>3, <1>4, OneGoesOn DEF SessionSaves, stores
<1>6. saves' \in 0..MaxSaves
  BY BoundsAssumption DEF SessionSaves, RecordsInv, TypeOK
<1>7. TypeOK'
  BY <1>5, <1>6 DEF SessionSaves, stores, RecordsInv, TypeOK
<1> QED
  BY <1>5, <1>7 DEF RecordsInv

LEMMA DeleteGroupKeeps ==
    ASSUME RecordsInv, NEW g \in Groups, DeleteGroup(g) PROVE RecordsInv'
<1>1. writes' \in 0..MaxWrites /\ groups' \in [Groups -> GroupRecords \cup {None}]
  BY BoundsAssumption DEF DeleteGroup, RecordsInv, TypeOK
<1>2. TypeOK'
  BY <1>1 DEF DeleteGroup, stores, RecordsInv, TypeOK
<1>3. Shapes' /\ SaveIsOneSection'
  BY DEF DeleteGroup, stores, RecordsInv, Shapes, SaveIsOneSection, At, Shaped, InHand, Resumes
<1> QED
  BY <1>2, <1>3 DEF RecordsInv

\* A process that starts again has no thread at work.
LEMMA AllIdle ==
    ASSUME thread' = [t \in Threads |-> Idle]
    PROVE  thread' \in [Threads -> Work] /\ Shapes' /\ SaveIsOneSection'
<1>1. \A t \in Threads : thread'[t] = Idle
  OBVIOUS
<1>2. Shapes'
  <2> SUFFICES ASSUME NEW u \in Threads PROVE Shaped(thread'[u])
    BY DEF Shapes, Shaped, InHand, Resumes
  <2> QED
    BY <1>1, IdleIsWork
<1> QED
  BY <1>1, <1>2, IdleIsWork DEF SaveIsOneSection, At

LEMMA StartsAgainKeeps == ASSUME RecordsInv, Restart \/ Repair PROVE RecordsInv'
<1>1. thread' \in [Threads -> Work] /\ Shapes' /\ SaveIsOneSection'
  BY AllIdle DEF Restart, Repair
<1>2. crashes' \in 0..MaxCrashes
  BY BoundsAssumption DEF Restart, Repair, RecordsInv, TypeOK
<1>3. torn' \in BOOLEAN
  <2>1. torn \in BOOLEAN /\ (\E t \in Threads : At(t, "write")) \in BOOLEAN
    BY DEF RecordsInv, TypeOK
  <2>2. torn' = torn \/ torn' = (torn \/ \E t \in Threads : At(t, "write")) \/ torn' = FALSE
    BY DEF Restart, Repair
  <2> QED
    BY <2>1, <2>2, Zenon
<1>4. TypeOK'
  BY <1>1, <1>2, <1>3 DEF Restart, Repair, RecordsInv, TypeOK
<1> QED
  BY <1>1, <1>4 DEF RecordsInv

-----------------------------------------------------------------------------
(* The invariant.                                                          *)

LEMMA InitInv == Init => RecordsInv
<1> SUFFICES ASSUME Init PROVE RecordsInv
  OBVIOUS
<1>1. First \in Values
  BY ValuesAssumption DEF First
<1>2. [host |-> First, config |-> First] \in Records
  BY <1>1 DEF Records
<1>3. file \in Files
  BY <1>2 DEF Init, Files
<1>4. configs \in [Keys -> Values \cup {None}]
  BY <1>1 DEF Init
<1>5. groups \in [Groups -> GroupRecords \cup {None}]
  <2>1. [members |-> {}, auto |-> TRUE] \in GroupRecords
    BY DEF GroupRecords
  <2> QED
    BY <2>1 DEF Init
<1>6. thread \in [Threads -> Work] /\ \A t \in Threads : thread[t] = Idle
  BY IdleIsWork DEF Init
<1>7. TypeOK
  <2>1. writes \in 0..MaxWrites /\ saves \in 0..MaxSaves /\ crashes \in 0..MaxCrashes
    BY BoundsAssumption DEF Init
  <2>2. /\ session \in [Keys -> Attached \cup {None}]
        /\ keyLock \in [Keys -> Threads \cup {None}]
    BY DEF Init
  <2>3. cache \in Files \cup {None} /\ storeLock \in Threads \cup {None} /\ torn \in BOOLEAN
    BY DEF Init
  <2> QED
    BY <1>3, <1>4, <1>5, <1>6, <2>1, <2>2, <2>3 DEF TypeOK
<1>8. Shapes /\ SaveIsOneSection
  BY <1>6, IdleIsWork DEF Shapes, SaveIsOneSection, At
<1> QED
  BY <1>7, <1>8 DEF RecordsInv

LEMMA StepKeeps == ASSUME RecordsInv, NEW t \in Threads, Step(t) PROVE RecordsInv'
BY LoadsKeeps, WritesKeeps, FailsKeeps, LockKeeps, SeedKeeps, SeedSetsKeeps, ApplyKeeps,
   AttachKeeps, PatchedKeeps, ConfigureKeeps, PersistConfigKeeps, AddToAutoGroupsKeeps,
   UnregisterKeeps, UnconfigureKeeps, UngroupKeeps, ListGroupsKeeps, PutGroupKeeps
   DEF Step

LEMMA NextKeeps == RecordsInv /\ [Next]_vars => RecordsInv'
<1> SUFFICES ASSUME RecordsInv, [Next]_vars PROVE RecordsInv'
  OBVIOUS
<1>1. ASSUME NEW t \in Threads, Step(t) PROVE RecordsInv'
  BY <1>1, StepKeeps
<1>2. ASSUME NEW t \in Requests, NEW k \in Keys,
             \/ Request(t, k, "read", None) \/ Request(t, k, "delete", None)
             \/ \E v \in Values : Request(t, k, "patch", v) \/ Request(t, k, "config", v)
      PROVE  RecordsInv'
  BY <1>2, RequestKeeps
<1>3. ASSUME NEW t \in Requests, NEW k \in Keys, NEW v \in Values, Create(t, k, v)
      PROVE  RecordsInv'
  BY <1>3, CreateKeeps
<1>4. ASSUME NEW t \in Requests, ListDevices(t, "list", "groups", None) PROVE RecordsInv'
  BY <1>4, ListDevicesKeeps
<1>5. ASSUME NEW t \in Requests, NEW g \in Groups, NEW members \in SUBSET Keys,
             NEW auto \in BOOLEAN,
             ListDevices(t, "put", "putgroup", [group |-> g, members |-> members, auto |-> auto])
      PROVE  RecordsInv'
  <2>1. [group |-> g, members |-> members, auto |-> auto] \in Wants
    BY DEF Wants
  <2> QED
    BY <1>5, <2>1, ListDevicesKeeps
<1>6. ASSUME NEW k \in Keys, SessionSaves(k) PROVE RecordsInv'
  BY <1>6, SessionSavesKeeps
<1>7. ASSUME NEW g \in Groups, DeleteGroup(g) PROVE RecordsInv'
  BY <1>7, DeleteGroupKeeps
<1>8. ASSUME Restart \/ Repair PROVE RecordsInv'
  BY <1>8, StartsAgainKeeps
<1>9. CASE UNCHANGED vars
  BY <1>9 DEF vars, stores, RecordsInv, TypeOK, Shapes, SaveIsOneSection, At,
              Shaped, InHand, Resumes
<1> QED
  BY <1>1, <1>2, <1>3, <1>4, <1>5, <1>6, <1>7, <1>8, <1>9 DEF Next

-----------------------------------------------------------------------------
(* Theorems.                                                               *)

\* In every state a save is one section of the store lock, and each thread has
\* the work its place calls for.
THEOREM InductiveInvariant == Spec => []RecordsInv
BY InitInv, NextKeeps, PTL DEF Spec

\* Every variable keeps its type.
THEOREM TypeCorrect == Spec => []TypeOK
<1>1. RecordsInv => TypeOK
  BY DEF RecordsInv
<1> QED
  BY <1>1, InductiveInvariant, PTL

\* The file is changed by a write only, and by that in one record.
LEMMA StepKeepsDevices ==
    ASSUME RecordsInv, [Next]_vars, NEW k \in Keys, file[k] # None, file'[k] = None
    PROVE  \E t \in Threads : At(t, "write") /\ thread[t].key = k /\ thread[t].dev = None
<1>1. (\E t \in Threads : SaveWrites(t)) \/ file' = file
  BY DEF Next, Step, vars, stores, SaveLoads, SaveFails, Lock, Seed, SeedSets, Apply, Attach,
         Patched, Configure, PersistConfig, AddToAutoGroups, Unregister, Unconfigure, Ungroup,
         ListGroups, PutGroup, Request, Create, ListDevices, Begin, SessionSaves, DeleteGroup,
         Restart, Repair
<1>2. PICK t \in Threads : SaveWrites(t)
  BY <1>1
<1>3. file' = [file EXCEPT ![thread[t].key] = thread[t].dev] /\ DOMAIN file = Keys
  BY <1>2, WriteKeepsOthers DEF RecordsInv, TypeOK, Files
<1>4. thread[t].key = k /\ thread[t].dev = None
  BY <1>3
<1> QED
  BY <1>2, <1>4 DEF SaveWrites

\* A record leaves devices.json only by the deletion of its device.
THEOREM DevicesKeptHolds == Spec => DevicesKept
<1>1. RecordsInv /\ [Next]_vars =>
        [\A k \in Keys : file[k] # None /\ file'[k] = None =>
           \E t \in Threads : At(t, "write") /\ thread[t].key = k /\ thread[t].dev = None]_vars
  BY StepKeepsDevices
<1> QED
  BY <1>1, InductiveInvariant, PTL DEF Spec, DevicesKept
=============================================================================
