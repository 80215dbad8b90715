------------------------------ MODULE Settings ------------------------------
(***************************************************************************)
(* One restorable parameter of a board, from the board to the snapshot the *)
(* gateway replays after a reboot and to the browsers                      *)
(* (linien-gateway/app/session.py: the settings snapshot, set_param, the   *)
(* callbacks of the parameters and the poll loop that drives them).        *)
(*                                                                         *)
(* The client answers reads from its own cache, which only the poll loop   *)
(* changes; the server queues one notification per write for every client, *)
(* and the gateway recognises the echo of its own write by its value.  The *)
(* connecting thread registers the callbacks without _rpyc_lock.  How the  *)
(* record that holds the snapshot is shared is Records' subject.           *)
(***************************************************************************)
EXTENDS Naturals, Sequences

CONSTANTS
    MaxSets,   \* bound on set_param
    MaxOthers, \* bound on writes of other clients of the board
    MaxDrops,  \* bound on lost connections, ends of the gateway and reboots
    None

ASSUME BoundsAssumption == {MaxSets, MaxOthers, MaxDrops} \subseteq Nat

VARIABLES
    board,   \* the parameter at the server
    notices,   \* the notifications the server keeps for this connection
    batch,   \* those the poll loop is delivering
    cached,  \* _cached_value of the client
    conn,    \* how far the connection is
    snap,    \* the setting in linien_settings_snapshot
    listed,  \* the parameter is in _persistent_param_names
    pending, \* _pending_gateway_param_writes
    setter,  \* the set_param that is running
    rpyc,    \* who holds _rpyc_lock
    view,    \* the value the browsers show
    wanted,  \* the last value somebody gave the parameter, if anybody did
    doubt,   \* why the snapshot may not have heard of it
    sets, others, drops \* used up of the bounds

client == <<notices, batch, cached, conn>>
memory == <<snap, listed, pending>>
bounds == <<sets, others, drops>>
settingsVars == <<board, client, memory, setter, rpyc, view, wanted, doubt, bounds>>

\* filter_automatic_a: off, on, and on in its other spelling.
Values == 0..2
AtBoot == 0

\* Who may hold _rpyc_lock.
Holders == {"connect", "poll", "set"}

ASSUME NoneAssumption == None \notin Values /\ None \notin Holders

\* _normalize_param_value
Normal(v) == IF v > 0 THEN 2 ELSE 0

Phases == {"down", "made", "sane", "ready", "adopting", "registered", "up"}

\* set_param: where it is, its value, whether its connection was lost, and whether
\* nothing else was under way when it began.
NoSetter == [at |-> "idle", value |-> 0, cut |-> FALSE, alone |-> FALSE]

SettingTypeOK ==
    /\ board \in Values /\ cached \in Values
    /\ notices \in Seq(Values) /\ batch \in Seq(Values)
    /\ conn \in Phases
    /\ {snap, pending, view, wanted} \subseteq Values \cup {None}
    /\ listed \in BOOLEAN
    /\ setter \in [at : {"idle", "write", "record"}, value : Values,
                  cut : BOOLEAN, alone : BOOLEAN]
    /\ rpyc \in Holders \cup {None}
    /\ doubt \subseteq {"early", "dropped"}
    /\ sets \in 0..MaxSets /\ others \in 0..MaxOthers /\ drops \in 0..MaxDrops

SettingsInit ==
    /\ board \in Values
    /\ notices = <<>> /\ batch = <<>> /\ cached = AtBoot
    /\ conn = "down"
    /\ snap = None /\ listed = FALSE /\ pending = None
    /\ setter = NoSetter
    /\ rpyc = None
    /\ view = None
    /\ wanted = None /\ doubt = {}
    /\ sets = 0 /\ others = 0 /\ drops = 0

\* A write at the server: every client is told, whether or not it is a change.
Writes(v) ==
    /\ board' = v
    /\ notices' = IF conn = "down" THEN notices ELSE Append(notices, v)

-----------------------------------------------------------------------------
(* connect.                                                                *)

Dial ==
    /\ conn = "down"
    /\ conn' = "made"
    /\ notices' = <<>> /\ cached' = board
    /\ UNCHANGED <<board, batch, memory, setter, rpyc, view, wanted, doubt, bounds>>

\* param.value, _read_param_fast: what the client has in its cache.
Read == cached

\* _sanitize_parameters_on_connect
Sanitize ==
    /\ conn = "made" /\ rpyc = None
    /\ rpyc' = "connect" /\ conn' = "sane"
    /\ IF Normal(Read) # Read THEN Writes(Normal(Read))
       ELSE UNCHANGED <<board, notices>>
    /\ UNCHANGED <<batch, cached, memory, setter, view, wanted, doubt, bounds>>

\* Mutant: every connect takes the board's values for the snapshot.
Seeds_Always == TRUE

Seeds == snap = None

\* _seed_or_replay_persistent_settings_locked
SeedOrReplay ==
    /\ conn = "sane"
    /\ conn' = "ready" /\ rpyc' = None /\ listed' = TRUE
    /\ \/ Seeds /\ snap' = Read /\ UNCHANGED <<board, notices, pending>>
       \/ ~Seeds /\ Read = snap /\ UNCHANGED <<board, notices, snap, pending>>
       \/ /\ ~Seeds /\ Read # snap
          /\ Writes(Normal(snap)) /\ pending' = Normal(snap)
          /\ UNCHANGED snap
    /\ UNCHANGED <<batch, cached, setter, view, wanted, doubt, bounds>>

\* The first half of _adopt_persistent_setting_change.
OwnEcho(v) == pending = v

\* _register_callbacks: the callback is called at once with what the client has
\* in its cache, while set_param may be running; the two halves of the adoption
\* are two steps.
Register ==
    /\ conn = "ready"
    /\ pending' = None
    /\ conn' = IF OwnEcho(Read) THEN "registered" ELSE "adopting"
    /\ UNCHANGED <<board, notices, batch, cached, snap, listed, setter, rpyc, view, wanted,
                   doubt, bounds>>

RegisterAdopts ==
    /\ conn = "adopting"
    /\ conn' = "registered"
    /\ snap' = Read
    /\ UNCHANGED <<board, notices, batch, cached, listed, pending, setter, rpyc, view, wanted,
                   doubt, bounds>>

\* _publish_param_snapshot, and the poll thread is started.
PublishSnapshot ==
    /\ conn = "registered"
    /\ conn' = "up"
    /\ view' = Read
    /\ UNCHANGED <<board, notices, batch, cached, memory, setter, rpyc, wanted, doubt, bounds>>

-----------------------------------------------------------------------------
(* The poll loop.                                                          *)

\* check_for_changed_parameters: what the server had when it was asked.
Fetch ==
    /\ conn = "up" /\ rpyc = None
    /\ \E n \in 1..Len(notices) :
         /\ batch' = SubSeq(notices, 1, n)
         /\ notices' = SubSeq(notices, n + 1, Len(notices))
    /\ rpyc' = "poll"
    /\ UNCHANGED <<board, cached, conn, memory, setter, view, wanted, doubt, bounds>>

\* Mutant: publishing stays suppressed after the callbacks are registered.
Shown_Suppressed(v) == view

Shown(v) == v

\* _on_param_changed, for one notification of this connection or the one before.
Deliver ==
    /\ batch # <<>>
    /\ LET v == Head(batch) IN
       /\ cached' = IF conn = "up" THEN v ELSE cached
       /\ pending' = None
       /\ snap' = IF OwnEcho(v) THEN snap ELSE v
       /\ view' = Shown(v)
    /\ batch' = Tail(batch)
    /\ rpyc' = IF Len(batch) = 1 THEN None ELSE rpyc
    /\ UNCHANGED <<board, notices, conn, listed, setter, wanted, doubt, bounds>>

-----------------------------------------------------------------------------
(* set_param.                                                              *)

Quiet == conn = "up" /\ notices = <<>> /\ batch = <<>> /\ setter = NoSetter

SetBegin(v) ==
    /\ setter = NoSetter /\ conn # "down" /\ rpyc = None
    /\ sets < MaxSets /\ sets' = sets + 1
    /\ rpyc' = "set"
    /\ setter' = [at |-> "write", value |-> Normal(v), cut |-> FALSE, alone |-> Quiet]
    /\ pending' = IF listed THEN Normal(v) ELSE pending
    /\ doubt' = IF conn # "up" THEN doubt \cup {"early"} ELSE doubt
    /\ UNCHANGED <<board, client, snap, listed, view, wanted, others, drops>>

SetWrites ==
    /\ setter.at = "write" /\ ~setter.cut
    /\ setter' = [setter EXCEPT !.at = "record"]
    /\ Writes(setter.value)
    /\ wanted' = setter.value
    /\ UNCHANGED <<batch, cached, conn, memory, rpyc, view, doubt, bounds>>

\* Mutant: a write that failed is still expected back.
AfterFailure_Kept == pending

AfterFailure == None

\* The write raises; the server may have had it.
SetFails ==
    /\ setter.at = "write"
    /\ \/ ~setter.cut /\ Writes(setter.value) /\ wanted' = setter.value
       \/ UNCHANGED <<board, notices, wanted>>
    /\ pending' = AfterFailure
    /\ setter' = NoSetter /\ rpyc' = None
    /\ UNCHANGED <<batch, cached, conn, snap, listed, view, doubt, bounds>>

\* _update_persistent_setting
Recorded == IF listed THEN setter.value ELSE snap

SetRecords ==
    /\ setter.at = "record"
    /\ snap' = Recorded
    /\ setter' = NoSetter /\ rpyc' = None
    /\ doubt' = IF setter.alone /\ ~setter.cut THEN {} ELSE doubt
    /\ UNCHANGED <<board, client, listed, pending, view, wanted, bounds>>

-----------------------------------------------------------------------------
(* The rest of the world.                                                  *)

\* Another client of the board, or a task on the board itself.
OtherWrites(v) ==
    /\ others < MaxOthers /\ others' = others + 1
    /\ Writes(v)
    /\ wanted' = v
    /\ doubt' = IF conn = "up" THEN doubt ELSE doubt \cup {"early"}
    /\ UNCHANGED <<batch, cached, conn, memory, setter, rpyc, view, sets, drops>>

\* The snapshot has the last value somebody gave the parameter, and no older
\* change in `left` is yet to replace it there.
Safe(left) ==
    wanted # None =>
        /\ snap # None /\ Normal(snap) = Normal(wanted)
        /\ \A i \in 1..Len(left) : Normal(left[i]) = Normal(wanted)

\* A value that was still on its way to the snapshot when the connection was
\* lost: the write that brings it is running, or its notice, or that of an older
\* change, is not delivered and the snapshot does not have it.  `left` is what a
\* poll loop may still deliver.
CutOff(left) ==
    IF setter # NoSetter \/ ((notices # <<>> \/ batch # <<>>) /\ ~Safe(left))
    THEN {"dropped"} ELSE {}

\* The connection is lost, perhaps because the board resets; a poll loop may still
\* deliver what it has.
Drop ==
    /\ drops < MaxDrops /\ drops' = drops + 1
    /\ conn # "down" /\ conn' = "down"
    /\ notices' = <<>> /\ batch' \in {<<>>, batch}
    /\ board' \in {board, AtBoot}
    /\ setter' = [setter EXCEPT !.cut = setter # NoSetter]
    /\ rpyc' = IF setter = NoSetter /\ batch' = <<>> THEN None ELSE rpyc
    /\ doubt' = doubt \cup CutOff(batch')
    /\ UNCHANGED <<cached, memory, view, wanted, sets, others>>

\* The gateway ends, and starts with the record it saved.
Restart ==
    /\ drops < MaxDrops /\ drops' = drops + 1
    /\ conn' = "down"
    /\ notices' = <<>> /\ batch' = <<>>
    /\ listed' = FALSE /\ pending' = None
    /\ setter' = NoSetter /\ rpyc' = None
    /\ view' = None
    /\ doubt' = doubt \cup CutOff(<<>>)
    /\ UNCHANGED <<board, cached, snap, wanted, sets, others>>

SettingsNext ==
    \/ Dial \/ Sanitize \/ SeedOrReplay \/ Register \/ RegisterAdopts \/ PublishSnapshot
    \/ Fetch \/ Deliver
    \/ \E v \in Values : SetBegin(v) \/ OtherWrites(v)
    \/ SetWrites \/ SetFails \/ SetRecords
    \/ Drop \/ Restart

SettingsSpec == SettingsInit /\ [][SettingsNext]_settingsVars

-----------------------------------------------------------------------------
(* Properties.                                                             *)

\* What somebody set last survives reboots, lost connections and restarts of
\* the gateway.  Exempted are a value set while the connection was down or being
\* made, and one still on its way when a connection was lost: by a set_param that
\* was running, or in notices not delivered while the snapshot had another value.
\* A value the snapshot has is safe, whatever echo of it or of its replay is lost.
SettingsSurvive ==
    Quiet /\ doubt = {} /\ wanted # None => board \in {wanted, Normal(wanted)}

\* Once all is told, the snapshot is what the board has: neither an echo taken
\* for a change nor a change taken for an echo leaves them apart.
SnapshotAgrees == Quiet /\ "early" \notin doubt => Normal(snap) = Normal(board)

\* Once all is told, the browsers show what the board has.
BrowserAgrees == Quiet => view = board

\* "test_replay_active_suppresses_remote_default_adoption": connecting to a board
\* that came up with its defaults leaves the snapshot alone.
DefaultsNotAdopted == [][conn = "adopting" /\ conn' = "registered" => snap' = snap]_settingsVars

\* The same agreement after a set_param that fell into the registration.
EarlyWritesAgree == Quiet => Normal(snap) = Normal(board)
=============================================================================
