---------------------------- MODULE BoardRepair ----------------------------
(***************************************************************************)
(* The two changes board diagnostics make to a board over SSH              *)
(* (linien-gateway/app/board_diagnostics.py): switching journald to        *)
(* persistent storage, with a bind mount where /var/log is a RAM disk, and *)
(* zeroing the recorded reset causes.  The boards are the ones that reset  *)
(* by themselves: a reset may fall between any two commands, and a file    *)
(* that was written and not synced comes back empty, old or new.  Nothing  *)
(* keeps two requests for one board apart.                                 *)
(*                                                                         *)
(* The two share nothing but the board, so a behaviour has either          *)
(* operators who enable the journal or operators who clear the register.   *)
(***************************************************************************)
EXTENDS Naturals, TLC

CONSTANTS
    Requests,   \* HTTP requests that may run at once
    MaxRuns,    \* bound on requests
    MaxResets   \* bound on resets of the board

ASSUME RepairBounds == {MaxRuns, MaxResets} \subseteq Nat

VARIABLES
    task,       \* "journal" or "register"
    image,      \* what is under /var/log and the backing directory; other drop-ins
    page, disk, \* the files as they read, and as a reset would find them
    mounted,    \* the bind mount over /var/log/journal
    journald,   \* where journald is writing
    reg,        \* REBOOT_STATUS and the write protection of SLCR
    at,         \* how far each request has come
    seen,       \* what the clear script of a request has read
    result,     \* the answer of the last request that enabled the journal
    \* history
    loose,      \* for each written file, who rewrote it or cut it off last, as
                \* long as no sync has put it whole on the disk since
    overlooked, \* what the last answer that said ok could not know
    noted,      \* whether the causes that were last erased are in the timeline
    exposed,     \* whether a script was killed with the registers writable
    runs, resets \* used up of the bounds

answer == <<result, overlooked>>
journalVars == <<image, page, disk, mounted, journald, loose, answer>>
regVars == <<reg, seen, noted, exposed>>
bounds == <<runs, resets>>
repairVars == <<task, journalVars, regVars, at, bounds>>

Storage == {"real", "small", "tmpfs"}
Written == {"dropin", "unit"}
Files == Written \cup {"dir", "backing"}
Contents == {"none", "part", "full"}

\* What journald makes of its configuration, the directory and the filesystem
\* that is mounted there: Storage=persistent, or automatic where the directory
\* exists.
JournalFs(m) == IF m THEN image.backing ELSE image.log

Mode(files, m) ==
    LET wanted == ~image.overridden /\ (files.dropin = "full" \/ files.dir = "full")
    IN CASE files.dropin = "part" -> "down"
         [] files.dropin # "part" /\ wanted /\ JournalFs(m) = "tmpfs" -> "tmpfs"
         [] files.dropin # "part" /\ wanted /\ JournalFs(m) = "real"  -> "persistent"
         [] OTHER -> "volatile"

RepairInit ==
    /\ task \in {"journal", "register"}
    /\ image \in IF task = "journal"
                   THEN [log : Storage, backing : Storage, overridden : BOOLEAN]
                   ELSE {[log |-> "real", backing |-> "real", overridden |-> FALSE]}
    /\ page = [f \in Files |-> "none"] /\ disk = page
    /\ mounted = FALSE /\ journald = "volatile"
    /\ reg \in [causes : BOOLEAN, scratch : BOOLEAN, protected : {TRUE},
                clearByOne : IF task = "register" THEN BOOLEAN ELSE {TRUE}]
    /\ task = "journal" => reg.causes /\ reg.scratch
    /\ at = [r \in Requests |-> "idle"]
    /\ seen = [r \in Requests |-> [before |-> FALSE, scratch |-> FALSE, after |-> FALSE]]
    /\ result = "none" /\ overlooked = {} /\ loose = [f \in Written |-> {}]
    /\ noted = TRUE /\ exposed = FALSE
    /\ runs = 0 /\ resets = 0

RepairGoto(r, place) == at' = [at EXCEPT ![r] = place]

Begin(r) ==
    /\ at[r] = "idle" /\ runs < MaxRuns /\ runs' = runs + 1
    /\ RepairGoto(r, task)
    /\ result' = "none" /\ overlooked' = {}
    /\ UNCHANGED <<task, image, page, disk, mounted, journald, loose, regVars, resets>>

-----------------------------------------------------------------------------
(* enable_persistent_journal.                                              *)

Fail(r) == RepairGoto(r, "idle") /\ result' = "failed" /\ overlooked' = {}

\* A command that touches none of the modelled state: on to the next step, or a
\* failure that is raised.
GoOrFail(r, place) ==
    \/ RepairGoto(r, place) /\ UNCHANGED answer
    \/ Fail(r)

\* mkdir -p
MakeDir(r, from, dir, to) ==
    /\ at[r] = from
    /\ \/ /\ page' = IF dir \in Files THEN [page EXCEPT ![dir] = "full"] ELSE page
          /\ RepairGoto(r, to) /\ UNCHANGED answer
       \/ Fail(r) /\ UNCHANGED page
    /\ UNCHANGED <<task, image, disk, mounted, journald, loose, regVars, bounds>>

\* tee truncates the file.
Truncate(r, from, file, to) ==
    /\ at[r] = from
    /\ page' = [page EXCEPT ![file] = "part"]
    /\ loose' = [loose EXCEPT ![file] = {r}]
    /\ GoOrFail(r, to)
    /\ UNCHANGED <<task, image, disk, mounted, journald, regVars, bounds>>

\* tee writes what it truncated.
Fill(r, from, file, to) ==
    /\ at[r] = from
    /\ \/ page' = [page EXCEPT ![file] = "full"] /\ RepairGoto(r, to) /\ UNCHANGED answer
       \/ Fail(r) /\ UNCHANGED page
    /\ UNCHANGED <<task, image, disk, mounted, journald, loose, regVars, bounds>>

\* Mutant: nothing is synced.
Synced_Not == disk

Synced == page

\* sync; its result is not looked at.  When it fails, what could not be written
\* still reads back whole, or the file just written reads back cut off.
Sync(r, from, file, to) ==
    /\ at[r] = from
    /\ \/ disk' = Synced /\ UNCHANGED page
          /\ loose' = [f \in Written |-> IF page[f] = "full" THEN {} ELSE loose[f]]
       \/ UNCHANGED <<page, disk, loose>>
       \/ /\ file \in Written
          /\ page' = [page EXCEPT ![file] = "part"] /\ disk' = page'
          /\ loose' = [loose EXCEPT ![file] = {r}]
    /\ RepairGoto(r, to)
    /\ UNCHANGED <<task, image, mounted, journald, regVars, answer, bounds>>

\* Mutant: a file that is there will do.
Verified_Exists(file) == page[file] # "none"

\* _verify_remote_file
Verified(file) == page[file] = "full"

Verify(r, from, file, to) ==
    /\ at[r] = from
    /\ IF Verified(file) THEN GoOrFail(r, to) ELSE Fail(r)
    /\ UNCHANGED <<task, image, page, disk, mounted, journald, loose, regVars, bounds>>

\* _require_usable_journal_filesystem: what df and /proc/mounts say, if they say
\* anything.
CheckFs(r) ==
    /\ at[r] = "check_fs"
    /\ \/ RepairGoto(r, "restart") /\ UNCHANGED answer
       \/ JournalFs(mounted) = "tmpfs" /\ RepairGoto(r, "make_backing") /\ UNCHANGED answer
       \/ JournalFs(mounted) = "small" /\ Fail(r)
    /\ UNCHANGED <<task, image, page, disk, mounted, journald, loose, regVars, bounds>>

\* _mount_journal_backing_store
CheckBacking(r) ==
    /\ at[r] = "check_backing"
    /\ \/ RepairGoto(r, "write_unit") /\ UNCHANGED answer
       \/ image.backing # "real" /\ Fail(r)
    /\ UNCHANGED <<task, image, page, disk, mounted, journald, loose, regVars, bounds>>

\* daemon-reload, and the mount.
StartMount(r) ==
    /\ at[r] = "mount"
    /\ \/ page.unit = "full" /\ mounted' = TRUE /\ RepairGoto(r, "confirm") /\ UNCHANGED answer
       \/ Fail(r) /\ UNCHANGED mounted
    /\ UNCHANGED <<task, image, page, disk, journald, loose, regVars, bounds>>

ConfirmMount(r) ==
    /\ at[r] = "confirm"
    /\ \/ RepairGoto(r, "restart") /\ UNCHANGED answer
       \/ JournalFs(mounted) = "tmpfs" /\ Fail(r)
    /\ UNCHANGED <<task, image, page, disk, mounted, journald, loose, regVars, bounds>>

\* systemctl restart systemd-journald, journalctl --flush
RestartJournald(r) ==
    /\ at[r] = "restart"
    /\ journald' = Mode(page, mounted)
    /\ IF journald' = "down" THEN Fail(r) ELSE GoOrFail(r, "flush")
    /\ UNCHANGED <<task, image, page, disk, mounted, loose, regVars, bounds>>

\* _STORAGE_PROBE_SETTLED: it goes by the directory of the journal and the type of
\* its filesystem.  The directory stays when journald is stopped after it has
\* written there, and a type that could not be read passes for real storage.
SaysPersistent == {"persistent", "tmpfs", "down"}

Probe(r) ==
    /\ at[r] = "probe"
    /\ \/ /\ journald \in SaysPersistent
          /\ RepairGoto(r, "idle") /\ result' = "ok"
          /\ overlooked' = {f \in Written : loose[f] # {}}
                 \cup (IF journald = "persistent" THEN {} ELSE {"probe"})
       \/ Fail(r)
    /\ UNCHANGED <<task, image, page, disk, mounted, journald, loose, regVars, bounds>>

EnableJournal(r) ==
    \/ MakeDir(r, "journal", "journald.conf.d", "write_dropin")
    \/ Truncate(r, "write_dropin", "dropin", "fill_dropin")
    \/ Fill(r, "fill_dropin", "dropin", "sync_dropin")
    \/ Sync(r, "sync_dropin", "dropin", "verify_dropin")
    \/ Verify(r, "verify_dropin", "dropin", "make_dir")
    \/ MakeDir(r, "make_dir", "dir", "check_fs")
    \/ CheckFs(r)
    \/ MakeDir(r, "make_backing", "backing", "check_backing")
    \/ CheckBacking(r)
    \/ Truncate(r, "write_unit", "unit", "fill_unit")
    \/ Fill(r, "fill_unit", "unit", "sync_unit")
    \/ Sync(r, "sync_unit", "unit", "verify_unit")
    \/ Verify(r, "verify_unit", "unit", "mount")
    \/ StartMount(r) \/ ConfirmMount(r)
    \/ RestartJournald(r)
    \/ Sync(r, "flush", "logs", "probe")
    \/ Probe(r)

-----------------------------------------------------------------------------
(* clear_reboot_status: the script it pipes to the board's python.         *)

\* A write to the register while SLCR is open.  The cause bits are cleared by
\* ones or by zeros, whichever this silicon does; the scratch byte of the boot
\* loader takes what is written.
WrittenBits(ones, scratch) ==
    IF reg.protected THEN reg
    ELSE [reg EXCEPT !.causes = IF reg.clearByOne THEN @ /\ ~ones ELSE ones,
                     !.scratch = scratch]

ScriptVars == <<task, journalVars, bounds>>

ReadBefore(r) ==
    /\ at[r] = "register"
    /\ seen' = [seen EXCEPT ![r] = [before |-> reg.causes, scratch |-> reg.scratch,
                                    after |-> reg.causes]]
    /\ RepairGoto(r, "open")
    /\ UNCHANGED <<ScriptVars, reg, noted, exposed>>

OpenSlcr(r) ==
    /\ at[r] = "open"
    /\ reg' = [reg EXCEPT !.protected = FALSE]
    /\ RepairGoto(r, "write_back")
    /\ UNCHANGED <<ScriptVars, seen, noted, exposed>>

Erases(r) == noted' = (noted /\ (reg'.causes \/ ~reg.causes))

\* wr(before & causes): the scratch byte is not among the causes.
WriteBack(r) ==
    /\ at[r] = "write_back"
    /\ reg' = WrittenBits(seen[r].before, FALSE)
    /\ Erases(r)
    /\ RepairGoto(r, "read")
    /\ UNCHANGED <<ScriptVars, seen, exposed>>

Reread(r) ==
    /\ at[r] \in {"read", "read_again"}
    /\ seen' = [seen EXCEPT ![r].after = reg.causes]
    /\ RepairGoto(r, IF at[r] = "read" /\ reg.causes THEN "write_zero" ELSE "protect")
    /\ UNCHANGED <<ScriptVars, reg, noted, exposed>>

\* wr(before & ~causes)
WriteZero(r) ==
    /\ at[r] = "write_zero"
    /\ reg' = WrittenBits(FALSE, seen[r].scratch)
    /\ Erases(r)
    /\ RepairGoto(r, "read_again")
    /\ UNCHANGED <<ScriptVars, seen, exposed>>

Open == {"write_back", "read", "write_zero", "read_again", "protect"}

\* Mutant: what the body raises passes by the finally.
AfterRaise_Answers == "answer"

AfterRaise == "protect"

\* The body of the try raises: nothing is printed of what is left.
Raise(r) ==
    /\ at[r] \in Open \ {"protect"}
    /\ seen' = [seen EXCEPT ![r].after = TRUE]
    /\ RepairGoto(r, AfterRaise)
    /\ UNCHANGED <<ScriptVars, reg, noted, exposed>>

\* The script is killed, or its shell is lost with it: no finally.
Killed(r) ==
    /\ at[r] \in Open
    /\ exposed' = (exposed \/ ~reg.protected)
    /\ RepairGoto(r, "idle")
    /\ UNCHANGED <<ScriptVars, reg, seen, noted>>

\* finally: wr(lock)
Protect(r) ==
    /\ at[r] = "protect"
    /\ reg' = [reg EXCEPT !.protected = TRUE]
    /\ exposed' = FALSE
    /\ RepairGoto(r, "answer")
    /\ UNCHANGED <<ScriptVars, seen, noted>>

\* clear_reset_cause: the reading goes to the timeline if the script's output
\* came back and says that nothing is left.
Answer(r) ==
    /\ at[r] = "answer"
    /\ \/ noted' = (noted \/ (~seen[r].after /\ seen[r].before))
       \/ UNCHANGED noted
    /\ RepairGoto(r, "idle")
    /\ UNCHANGED <<ScriptVars, reg, seen, exposed>>

ClearRegister(r) ==
    \/ ReadBefore(r) \/ OpenSlcr(r) \/ WriteBack(r) \/ Reread(r) \/ WriteZero(r)
    \/ Raise(r) \/ Killed(r) \/ Protect(r) \/ Answer(r)

-----------------------------------------------------------------------------
(* The board.                                                              *)

\* A file after a reset: what was synced, what was not, or a file that has its
\* size and no content.
AfterReset(f) ==
    IF page[f] = disk[f] THEN {page[f]} ELSE {page[f], disk[f], "part"} \ {"none"}

\* The board resets.  Scripts and SSH sessions end; the mount unit is pulled in
\* by the flush of the journal; a RAM disk is empty; a cause is recorded.
Reset ==
    /\ resets < MaxResets /\ resets' = resets + 1
    /\ \E found \in {f \in [Files -> Contents] :
                       \A x \in Files : f[x] \in AfterReset(x) \cup ({disk[x]} \cap {"none"})} :
         LET up == found.unit = "full" /\ found.backing = "full"
             left == [found EXCEPT !.dir = IF image.log = "tmpfs" /\ ~up THEN "none" ELSE @]
         IN /\ page' = left /\ disk' = left
            /\ mounted' = up
            /\ journald' = Mode(left, up)
    /\ reg' = [reg EXCEPT !.causes = TRUE, !.protected = TRUE]
    /\ exposed' = FALSE
    /\ loose' = [f \in Written |-> {}]
    /\ IF \E r \in Requests : at[r] # "idle"
       THEN result' = "failed" /\ overlooked' = {}
       ELSE UNCHANGED answer
    /\ at' = [r \in Requests |-> "idle"]
    /\ UNCHANGED <<task, image, seen, noted, runs>>

RepairNext ==
    \/ \E r \in Requests : Begin(r) \/ EnableJournal(r) \/ ClearRegister(r)
    \/ Reset

RepairSpec == RepairInit /\ [][RepairNext]_repairVars

\* The requests are alike.
Alike == Permutations(Requests)

-----------------------------------------------------------------------------
(* Properties.                                                             *)

\* Once the operator is told that logs survive a reboot they do, on every image
\* and after every reset, with several requests for one board at work.  Exempted
\* is only what the request that answered has no sign of: a drop-in or mount unit
\* that no successful sync found whole since it was last rewritten, by this
\* request or another, or a probe that took a RAM disk or a stopped journald for
\* persistent storage.
OkMeansPersistent == result = "ok" /\ overlooked = {} => journald = "persistent"

\* "A half-written journald config leaves journald refusing to start": a restart
\* of journald meets one only if another request has rewritten the drop-in or
\* failed to sync it since this one verified it; else only a reset stops journald.
RestartsBesideAnother(r) ==
    /\ at[r] = "restart" /\ at'[r] # "restart"
    /\ loose["dropin"] \ {r} # {}
OnlyResetsStopJournald ==
    [][journald # "down" /\ journald' = "down" =>
         resets' > resets \/ \E r \in Requests : RestartsBesideAnother(r)]_repairVars

Quiet == \A r \in Requests : at[r] = "idle"

\* When no script is running the system registers are write protected, however
\* the scripts of several requests fall together and wherever one of them raises,
\* unless a script was killed between the two writes and nobody has protected
\* the registers since.
SlcrIsProtected == Quiet /\ ~exposed => reg.protected

\* The same whatever ends a script.
SlcrIsAlwaysProtected == Quiet => reg.protected

\* "The bootloader scratch byte in 31:24 is preserved either way."
ScratchIsPreserved ==
    Quiet => \A r \in Requests : seen[r].scratch => reg.scratch

\* "The reading it destroys is recorded in the timeline before it goes."
ReadingIsKept == Quiet => noted
=============================================================================
