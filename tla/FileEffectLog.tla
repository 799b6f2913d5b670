---------------------------- MODULE FileEffectLog ----------------------------
(***************************************************************************)
(* The file under the write-ahead log (ppe-core, effect.rs): appends and   *)
(* compactions as blocking tasks that each hold their log value's write    *)
(* lock, write errors and their roll-back, crashes that tear the last      *)
(* line, the recovery initialize() attempts, and configuration reloads     *)
(* that move the engine off the path and back (snapshot_from_config).      *)
(*                                                                         *)
(* A handle is one FileEffectLog value: one write lock.  The file is its   *)
(* complete lines plus a flag for an unterminated last one.  A write onto  *)
(* an unterminated line glues the two together: a damaged line.            *)
(***************************************************************************)
EXTENDS EffectRecords, Positions, SequencesExt

CONSTANTS Handles,          \* FileEffectLog values over this path
          NoHandle,         \* the loaded configuration names another path
          NoKey,            \* the key of a line that does not parse
          Threshold,        \* effect_log_compaction_threshold, 0 = off
          MaxCrashes,       \* bound: crashes
          Environments      \* what may go wrong: members of Environment

\* The I/O errors to come, what they may hit besides a write, whether a crash
\* undoes directory changes whose fsync failed, whether a reload may change
\* effect_log_path, and, as a bound, the keys in use.
Environment == [errors : Nat, rollbackMayFail : BOOLEAN, recoverMayFail : BOOLEAN,
                dirMayRevert : BOOLEAN, mayReload : BOOLEAN, keys : SUBSET Keys]

ASSUME FileAssumption ==
    /\ NoHandle \notin Handles
    /\ NoKey \notin Keys
    /\ {Threshold, MaxCrashes} \subseteq Nat
    /\ Environments \subseteq Environment

VARIABLES
    file,      \* the complete lines, in order
    torn,      \* the file ends in an unterminated line
    exists,    \* path.exists()
    stale,     \* contents a crash may bring back: directory not yet fsync'd
    task,      \* task[h]: the blocking task that holds h's write lock
    appends,   \* appends[h]: appends_since_compaction
    due,       \* handles with an append about to run its auto-compaction
    handle,    \* the log value of the current snapshot
    used,      \* the log values this process has created
    overlapped, \* tasks of two log values have been under way at once
    asked,     \* the records whose append was requested
    acked,     \* records whose append returned Ok, not compacted since
    up,        \* the process is running
    crashes,   \* crashes so far
    env        \* the environment, with the I/O errors it has left

disk == <<file, torn, exists, stale>>
conf == <<handle, used>>
life == <<up, crashes>>
vars == <<disk, task, appends, due, conf, overlapped, asked, acked, life, env>>

----------------------------------------------------------------------------
\* A line that does not parse.
Damaged == [key |-> NoKey, state |-> "Unknown"]

Lines == Records \cup {Damaged}

\* What a recovery would read back, if nothing is damaged.
FileRecords == ToSet(file) \ {Damaged}

\* "open": about to write at the length `before`; "written": not yet synced;
\* "failed": about to roll back; "read": recovery about to rename.  `orphan`:
\* a rename by another handle unlinked the file this task has open.
Tasks == [pc : {"idle", "open", "written", "failed", "read"}, rec : Lines,
          before : Nat, wasTorn : BOOLEAN, creating : BOOLEAN, orphan : BOOLEAN,
          kept : Seq(Records), dropped : SUBSET Records]

Idle == [pc |-> "idle", rec |-> Damaged, before |-> 0, wasTorn |-> FALSE,
         creating |-> FALSE, orphan |-> FALSE, kept |-> <<>>, dropped |-> {}]

TypeOK ==
    /\ file \in Seq(Lines)
    /\ torn \in BOOLEAN /\ exists \in BOOLEAN
    /\ stale \subseteq Seq(Lines)
    /\ task \in [Handles -> Tasks]
    /\ appends \in [Handles -> Nat]
    /\ due \subseteq Handles
    /\ handle \in Handles \cup {NoHandle}
    /\ used \subseteq Handles
    /\ overlapped \in BOOLEAN
    /\ asked \subseteq Records
    /\ acked \subseteq asked
    /\ up \in BOOLEAN
    /\ crashes \in 0..MaxCrashes
    /\ env \in Environment

Init ==
    /\ file = <<>> /\ torn = FALSE /\ exists = FALSE /\ stale = {}
    /\ task = [h \in Handles |-> Idle]
    /\ appends = [h \in Handles |-> 0]
    /\ due = {}
    /\ \E h \in Handles : handle = h /\ used = {h}
    /\ overlapped = FALSE
    /\ asked = {} /\ acked = {}
    /\ up = TRUE /\ crashes = 0
    /\ env \in Environments

\* The lock of one log value says nothing of the others'.
Overlaps(h) == overlapped' = (overlapped \/ \E g \in Handles \ {h} : task[g].pc # "idle")

Fault == env.errors > 0 /\ env' = [env EXCEPT !.errors = @ - 1]

----------------------------------------------------------------------------
(* recover(): the unresolved records of the file, the latest per key, in   *)
(* the order their keys were first seen.                                   *)

LatestOf(k, lines) ==
    lines[CHOOSE i \in DOMAIN lines :
             /\ lines[i].key = k
             /\ \A j \in DOMAIN lines : lines[j].key = k => j <= i]

\* Mutant: keeps nothing of a key whose last record is an explicit Unknown.
SurvivorsDropUnknown(lines) ==
    SelectSeq(lines, LAMBDA r : /\ r.key \in Unresolved(ToSet(lines))
                                /\ LatestOf(r.key, lines).state = "Prepared")

Survivors(lines) ==
    LET open  == Unresolved(ToSet(lines))
        first == Picked(lines, {i \in DOMAIN lines :
                    /\ lines[i].key \in open
                    /\ \A j \in 1..(i - 1) : lines[j].key # lines[i].key})
    IN  [n \in DOMAIN first |-> LatestOf(first[n].key, lines)]

\* Recovery refuses a file with a complete line that does not parse.
Readable == Damaged \notin ToSet(file)

----------------------------------------------------------------------------
(* append(): a blocking task under the handle's lock.                      *)

\* Attempts have their own keys: one intent each, then outcomes for a key the
\* log still owes an answer for.
Requested(r) ==
    /\ r.key \in env.keys /\ r \notin asked
    /\ r.state # "Prepared" => r.key \in KeysOf(acked)

\* The lock is taken and the file opened; `before` is the length found.
AppendOpen(h, r) ==
    /\ up /\ h \in used
    /\ task[h].pc = "idle"
    /\ Requested(r)
    /\ asked' = asked \cup {r}
    /\ task' = [task EXCEPT ![h] =
         [Idle EXCEPT !.pc = "open", !.rec = r, !.before = Len(file),
                      !.wasTorn = torn, !.creating = ~exists]]
    /\ exists' = TRUE
    /\ stale' = IF exists THEN stale ELSE {<<>>}
    /\ Overlaps(h)
    /\ UNCHANGED <<file, torn, appends, due, conf, acked, life, env>>

\* write_all puts the line at the end of whatever is there.
AppendWrite(h) ==
    /\ task[h].pc = "open"
    /\ task' = [task EXCEPT ![h].pc = "written"]
    /\ IF task[h].orphan
       THEN UNCHANGED <<file, torn>>
       ELSE /\ file' = Append(file, IF torn THEN Damaged ELSE task[h].rec)
            /\ torn' = FALSE
    /\ UNCHANGED <<exists, stale, appends, due, conf, overlapped, asked, acked, life, env>>

\* write_all fails part-way, or fsync does.
AppendError(h) ==
    /\ task[h].pc \in {"open", "written"}
    /\ Fault
    /\ task' = [task EXCEPT ![h].pc = "failed"]
    /\ torn' = IF task[h].pc = "open" /\ ~task[h].orphan THEN TRUE ELSE torn
    /\ UNCHANGED <<file, exists, stale, appends, due, conf, overlapped, asked, acked, life>>

\* Mutant: the roll-back cuts a line too many.
AppendRollbackCutsMore(h) ==
    /\ task[h].pc = "failed"
    /\ task' = [task EXCEPT ![h] = Idle]
    /\ file' = SubSeq(file, 1, task[h].before - 1)
    /\ torn' = FALSE
    /\ UNCHANGED <<exists, stale, appends, due, conf, overlapped, asked, acked, life, env>>

\* append_or_roll_back cuts the file to its length before the write.  Should
\* another log value have shortened it meanwhile, set_len pads it with zeros.
AppendRollback(h) ==
    /\ task[h].pc = "failed"
    /\ task' = [task EXCEPT ![h] = Idle]
    /\ IF task[h].orphan
       THEN UNCHANGED <<file, torn>>
       ELSE IF task[h].before <= Len(file)
       THEN file' = SubSeq(file, 1, task[h].before) /\ torn' = task[h].wasTorn
       ELSE torn' = TRUE /\ UNCHANGED file
    /\ UNCHANGED <<exists, stale, appends, due, conf, overlapped, asked, acked, life, env>>

\* ... or cannot: the append is refused all the same, and this is logged.
AppendRollbackFails(h) ==
    /\ env.rollbackMayFail
    /\ task[h].pc = "failed"
    /\ Fault
    /\ task' = [task EXCEPT ![h] = Idle]
    /\ UNCHANGED <<disk, appends, due, conf, overlapped, asked, acked, life>>

\* fsync, and the directory's fsync if this call created the file: append
\* returns Ok, and every so many appends goes on to compact.
AppendSync(h) ==
    /\ task[h].pc = "written"
    /\ task' = [task EXCEPT ![h] = Idle]
    /\ stale' = IF task[h].creating THEN {} ELSE stale
    /\ acked' = acked \cup {task[h].rec}
    /\ LET n == appends[h] + 1 IN
       IF Threshold # 0 /\ n >= Threshold
       THEN appends' = [appends EXCEPT ![h] = 0] /\ due' = due \cup {h}
       ELSE /\ appends' = IF Threshold = 0 THEN appends ELSE [appends EXCEPT ![h] = n]
            /\ UNCHANGED due
    /\ UNCHANGED <<file, torn, exists, conf, overlapped, asked, life, env>>

\* The directory's fsync fails: the append is refused, its record stays.
AppendDirError(h) ==
    /\ task[h].pc = "written"
    /\ task[h].creating
    /\ Fault
    /\ task' = [task EXCEPT ![h] = Idle]
    /\ UNCHANGED <<disk, appends, due, conf, overlapped, asked, acked, life>>

----------------------------------------------------------------------------
(* recover(): read, then rename the rewritten file over the original.      *)

\* Called by an append whose compaction is due, and by a host's sweep, which
\* may come at any time.
RecoverRead(h) ==
    /\ up /\ h \in used
    /\ task[h].pc = "idle"
    /\ exists /\ Readable
    /\ task' = [task EXCEPT ![h] =
         [Idle EXCEPT !.pc = "read", !.kept = Survivors(file),
                      !.dropped = FileRecords \ ToSet(Survivors(file))]]
    /\ due' = due \ {h}
    /\ Overlaps(h)
    /\ UNCHANGED <<disk, appends, conf, asked, acked, life, env>>

\* A missing file is a no-op; a damaged one is refused, and this is logged.
RecoverNothing(h) ==
    /\ up
    /\ h \in due
    /\ task[h].pc = "idle"
    /\ ~exists \/ ~Readable
    /\ due' = due \ {h}
    /\ UNCHANGED <<disk, task, appends, conf, overlapped, asked, acked, life, env>>

\* The survivors replace the file, and the directory is fsync'd: what was
\* read and left out is no longer owed, and anyone else's open file is gone.
Replace(kept, dropped) ==
    /\ file' = kept
    /\ torn' = FALSE
    /\ acked' = acked \ dropped

Unlink(h) == [g \in Handles |-> IF g = h THEN Idle
                 ELSE IF task[g].pc \in {"open", "written", "failed"}
                      THEN [task[g] EXCEPT !.orphan = TRUE] ELSE task[g]]

RecoverRename(h) ==
    /\ task[h].pc = "read"
    /\ Replace(task[h].kept, task[h].dropped)
    /\ task' = Unlink(h)
    /\ exists' = TRUE
    /\ stale' = {}
    /\ UNCHANGED <<appends, due, conf, overlapped, asked, life, env>>

\* An error before the rename leaves the old file; one after it leaves the
\* new file with its directory entry not yet durable.
RecoverError(h) ==
    /\ task[h].pc = "read"
    /\ Fault
    /\ \/ task' = [task EXCEPT ![h] = Idle] /\ UNCHANGED <<disk, acked>>
       \/ /\ Replace(task[h].kept, task[h].dropped)
          /\ task' = Unlink(h)
          /\ stale' = stale \cup {file}
          /\ UNCHANGED exists
    /\ UNCHANGED <<appends, due, conf, overlapped, asked, life>>

----------------------------------------------------------------------------
(* The process and its configuration.                                      *)

\* Appends under way that still have the file open.
Writing == {h \in Handles : task[h].pc \in {"open", "written", "failed"} /\ ~task[h].orphan}

\* What was not fsync'd may be cut, and an interrupted write leaves part of a
\* line; the creation of the file may be undone while it is under way, and
\* with dirMayRevert any directory change whose fsync failed.
Crash ==
    /\ up /\ crashes < MaxCrashes
    /\ up' = FALSE
    /\ crashes' = crashes + 1
    /\ \/ \E cut \in 0..Len(file), t \in BOOLEAN :
            /\ Writing = {} => cut = Len(file) /\ t = torn
            /\ \A h \in Writing : cut >= task[h].before \/ cut = Len(file)
            /\ \A h \in Writing : cut = task[h].before /\ task[h].wasTorn => t
            /\ file' = SubSeq(file, 1, cut)
            /\ torn' = t
            /\ UNCHANGED <<exists, stale>>
       \/ /\ env.dirMayRevert \/ \E h \in Writing : task[h].creating
          /\ file' \in stale
          /\ torn' = FALSE
          /\ exists' = (file' # <<>>)
          /\ stale' = {}
    /\ task' = [h \in Handles |-> Idle]
    /\ appends' = [h \in Handles |-> 0]
    /\ due' = {}
    /\ handle' = NoHandle
    /\ used' = {}
    /\ UNCHANGED <<overlapped, asked, acked, env>>

\* A process starts.  If its configuration names the path, initialize()
\* recovers the log before any traffic; a failure to is only logged.
Restart ==
    /\ ~up
    /\ up' = TRUE
    /\ \/ \E h \in Handles :
            /\ handle' = h /\ used' = {h}
            /\ \/ /\ exists /\ Readable
                  /\ Replace(Survivors(file), FileRecords \ ToSet(Survivors(file)))
                  /\ stale' = {}
                  /\ UNCHANGED <<exists, env>>
               \/ /\ ~exists \/ ~Readable
                  /\ UNCHANGED <<disk, acked, env>>
               \/ /\ env.recoverMayFail
                  /\ Fault
                  /\ UNCHANGED <<disk, acked>>
       \/ /\ env.mayReload
          /\ UNCHANGED <<conf, disk, acked, env>>
    /\ UNCHANGED <<task, appends, due, overlapped, asked, crashes>>

\* load_config with another effect_log_path.  Requests in flight keep the
\* snapshot they loaded, and with it the old log value.
ReloadAway ==
    /\ env.mayReload /\ up
    /\ handle # NoHandle
    /\ handle' = NoHandle
    /\ UNCHANGED <<disk, task, appends, due, used, overlapped, asked, acked, life, env>>

\* load_config back to this path: the previous configuration named another,
\* so snapshot_from_config builds a new log value over the same file.
ReloadBack(h) ==
    /\ env.mayReload /\ up
    /\ handle = NoHandle
    /\ h \notin used
    /\ handle' = h
    /\ used' = used \cup {h}
    /\ UNCHANGED <<disk, task, appends, due, overlapped, asked, acked, life, env>>

Next ==
    \/ \E h \in Handles :
         \/ \E r \in Records : AppendOpen(h, r)
         \/ AppendWrite(h) \/ AppendError(h) \/ AppendRollback(h)
         \/ AppendRollbackFails(h) \/ AppendSync(h) \/ AppendDirError(h)
         \/ RecoverRead(h) \/ RecoverNothing(h) \/ RecoverRename(h)
         \/ RecoverError(h) \/ ReloadBack(h)
    \/ Crash
    \/ Restart
    \/ ReloadAway

Spec == Init /\ [][Next]_vars

----------------------------------------------------------------------------
(* Properties.                                                             *)

\* An acknowledged record is not lost silently: it is in the file, or the file
\* holds a line that makes every recovery refuse it.  This holds when roll-backs
\* and recoveries fail, through crashes, and when the configuration moves off
\* the path and back, as long as no call of one log value overlaps one of another:
\* engine.rs:1391 says what happens otherwise.
NeverSilent == overlapped \/ Damaged \in ToSet(file) \/ acked \subseteq FileRecords

\* Roll-backs and recoveries work, and what a directory was told stays.
Sound == ~env.rollbackMayFail /\ ~env.recoverMayFail /\ ~env.dirMayRevert

\* In a sound environment, through write errors, failed compactions and crashes,
\* the file implements the log the protocol is written against.
Log == INSTANCE DurableLog WITH wal <- IF Sound THEN FileRecords ELSE {},
                                acked <- IF Sound THEN acked ELSE {}

ImplementsLog == Log!Spec
=============================================================================
