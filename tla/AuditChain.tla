----------------------------- MODULE AuditChain -----------------------------
(***************************************************************************)
(* The OCSF audit sink (reference/plugins/ocsf-audit emitter.rs) over the  *)
(* file exporter (ppe-core audit/export.rs).  An emission waits for one of *)
(* a few output slots, takes the next position of the hash chain, and      *)
(* hands its record to a blocking writer, which keeps the slot even when   *)
(* the callback that started it has timed out.  Shutdown takes all slots,  *)
(* closes them and flushes.  A rotator may rename the file at any moment.  *)
(***************************************************************************)
EXTENDS Naturals, FiniteSets

CONSTANTS Emissions,    \* bound: verdicts to record
          OutputSlots,  \* MAX_PENDING_WRITES
          MaxRotations  \* bound

ASSUME AuditAssumption ==
    /\ IsFiniteSet(Emissions)
    /\ OutputSlots \in Nat \ {0} /\ MaxRotations \in Nat

VARIABLES
    em,        \* em[e]: where the emission is
    permits,   \* free permits of the semaphore
    chainSeq,  \* ChainState.seq
    chainPrev, \* ChainState.prev: the position of the last record, or none
    pos,       \* pos[e]: its position and its predecessor's
    down,      \* where shutdown is
    atPath,    \* the file at the path now, 0 when there is none
    held,      \* the file the exporter holds open
    lastFile,  \* file numbers used
    pending,   \* parent_sync_pending
    writer,    \* who holds the exporter's lock
    inFile,    \* inFile[e]: the file its record was written to
    synced,    \* emissions whose record's data was synced
    linked,    \* files whose directory entry was synced
    acked      \* emissions whose export returned Ok

emitterVars == <<em, permits, chainSeq, chainPrev, pos, down>>
exporterVars == <<atPath, held, lastFile, pending, writer, inFile, synced, linked, acked>>
auditVars == <<emitterVars, exporterVars>>

EmSteps == {"idle", "waiting", "slot", "spawned", "appending", "ended", "refused"}
DownSteps == {"up", "draining", "drained", "undrained", "ok", "failed"}
Nobody == "nobody"
NoPos == [seq |-> 0, prev |-> 0]
Files == 0 .. (2 * MaxRotations + 1)

\* Positions count from 1; prev 0 is no predecessor.
AuditTypeOK ==
    /\ em \in [Emissions -> EmSteps]
    /\ permits \in 0 .. OutputSlots
    /\ chainSeq \in 0 .. Cardinality(Emissions) /\ chainPrev \in 0 .. chainSeq
    /\ pos \in [Emissions -> [seq : 0 .. chainSeq, prev : 0 .. chainSeq]]
    /\ down \in DownSteps
    /\ atPath \in Files /\ held \in Files \ {0} /\ lastFile \in Files
    /\ pending \in BOOLEAN /\ writer \in Emissions \cup {Nobody, "flush"}
    /\ inFile \in [Emissions -> Files] /\ synced \subseteq Emissions
    /\ linked \subseteq Files /\ acked \subseteq Emissions

AuditInit ==
    /\ em = [e \in Emissions |-> "idle"]
    /\ permits = OutputSlots
    /\ chainSeq = 0 /\ chainPrev = 0 /\ pos = [e \in Emissions |-> NoPos]
    /\ down = "up"
    /\ atPath = 1 /\ held = 1 /\ lastFile = 1 /\ pending = TRUE /\ writer = Nobody
    /\ inFile = [e \in Emissions |-> 0] /\ synced = {} /\ linked = {} /\ acked = {}

Closed == down \in {"drained", "undrained", "ok", "failed"}
EmTo(e, step) == em' = [em EXCEPT ![e] = step]

-----------------------------------------------------------------------------
(* An emission.                                                            *)

chainVars == <<chainSeq, chainPrev, pos>>

\* handle asks for a slot.
EmissionStarts(e) ==
    /\ em[e] = "idle"
    /\ EmTo(e, "waiting")
    /\ UNCHANGED <<permits, chainVars, down, exporterVars>>

\* output_slot: a permit, or the refusal of a closed semaphore.
OutputSlot(e) ==
    /\ em[e] = "waiting"
    /\ \/ ~Closed /\ permits > 0 /\ EmTo(e, "slot") /\ permits' = permits - 1
       \/ Closed /\ EmTo(e, "refused") /\ UNCHANGED permits
    /\ UNCHANGED <<chainVars, down, exporterVars>>

\* Mutant: the predecessor is advanced before the record reads it.
LinkToSelf == chainSeq + 1

\* The predecessor a new record names.
Link == chainPrev

\* wrap_in_chain under the chain's lock, and the writer spawned: no await from
\* the slot to here, so no cancellation.
Mint(e) ==
    /\ em[e] = "slot"
    /\ pos' = [pos EXCEPT ![e] = [seq |-> chainSeq + 1, prev |-> Link]]
    /\ chainSeq' = chainSeq + 1 /\ chainPrev' = chainSeq + 1
    /\ EmTo(e, "spawned")
    /\ UNCHANGED <<permits, down, exporterVars>>

\* The writer keeps the slot.
Detach(e) == UNCHANGED permits

\* The audit timeout drops the callback: a waiter leaves, a writer stays.
CallbackTimesOut(e) ==
    /\ \/ em[e] = "waiting" /\ EmTo(e, "refused") /\ UNCHANGED permits
       \/ em[e] \in {"spawned", "appending"} /\ Detach(e) /\ UNCHANGED em
    /\ UNCHANGED <<chainVars, down, exporterVars>>

-----------------------------------------------------------------------------
(* FileExporter.                                                           *)

\* reopen: a new name has to be synced too.
Reopened == TRUE

\* export takes the lock and follows a rotation: a missing file is created.
\* When the path cannot be inspected or opened the old handle is kept.
FollowRotation(e) ==
    /\ em[e] = "spawned" /\ writer = Nobody
    /\ writer' = e /\ EmTo(e, "appending")
    /\ \/ /\ atPath # held /\ atPath # 0
          /\ held' = atPath /\ pending' = Reopened
          /\ UNCHANGED <<atPath, lastFile>>
       \/ /\ atPath = 0
          /\ held' = lastFile + 1 /\ lastFile' = lastFile + 1 /\ atPath' = lastFile + 1
          /\ pending' = Reopened
       \/ UNCHANGED <<atPath, held, lastFile, pending>>
    /\ UNCHANGED <<permits, chainVars, down, inFile, synced, linked, acked>>

\* sync_file_and_parent: all data of the held file, then its name if pending.
SyncData == {e \in Emissions : inFile'[e] = held}

\* The record is appended to the held file, wherever that is by now, and
\* synced: fsync is batch or always, the same for batches of one record.  Each
\* step may fail, and only then the export is no Ok.
AppendRecord(e) ==
    /\ em[e] = "appending" /\ writer = e
    /\ EmTo(e, "ended") /\ writer' = Nobody /\ permits' = permits + 1
    /\ \/ UNCHANGED <<inFile, synced, linked, pending, acked>>
       \/ /\ inFile' = [inFile EXCEPT ![e] = held]
          /\ \/ UNCHANGED <<synced, linked, pending, acked>>
             \/ /\ pending
                /\ synced' = synced \cup SyncData
                /\ UNCHANGED <<linked, pending, acked>>
             \/ /\ synced' = synced \cup SyncData
                /\ linked' = IF pending THEN linked \cup {held} ELSE linked
                /\ pending' = FALSE
                /\ acked' = acked \cup {e}
    /\ UNCHANGED <<chainVars, down, atPath, held, lastFile>>

\* External: logrotate renames the file, creating the next one or not.
Rotate ==
    /\ atPath # 0 /\ lastFile < 2 * MaxRotations + 1
    /\ \/ atPath' = 0 /\ UNCHANGED lastFile
       \/ atPath' = lastFile + 1 /\ lastFile' = lastFile + 1
    /\ UNCHANGED <<emitterVars, held, pending, writer, inFile, synced, linked, acked>>

-----------------------------------------------------------------------------
(* drain_and_flush.                                                        *)

ShutdownStarts ==
    /\ down = "up" /\ down' = "draining"
    /\ UNCHANGED <<em, permits, chainVars, exporterVars>>

AllPermits == permits = OutputSlots

\* All slots are taken, or the grace period passes; then they are closed.
Drain ==
    /\ down = "draining"
    /\ \/ AllPermits /\ down' = "drained" /\ permits' = 0
       \/ down' = "undrained" /\ UNCHANGED permits
    /\ UNCHANGED <<em, chainVars, exporterVars>>

\* The exporter is flushed; a flush that fails is logged, one that panics or
\* outlasts the grace period fails the shutdown, and so does a missed drain.
FlushExporter ==
    /\ down \in {"drained", "undrained"}
    /\ \/ /\ writer = Nobody
          /\ synced' = synced \cup {e \in Emissions : inFile[e] = held}
          /\ linked' = IF pending THEN linked \cup {held} ELSE linked
          /\ pending' = FALSE
          /\ down' = IF down = "drained" THEN "ok" ELSE "failed"
       \/ /\ writer = Nobody /\ UNCHANGED <<synced, linked, pending>>
          /\ down' = IF down = "drained" THEN "ok" ELSE "failed"
       \/ down' = "failed" /\ UNCHANGED <<synced, linked, pending>>
    /\ UNCHANGED <<em, permits, chainVars, atPath, held, lastFile, writer,
                   inFile, acked>>

AuditNext ==
    \/ Rotate \/ ShutdownStarts \/ Drain \/ FlushExporter
    \/ \E e \in Emissions :
          \/ EmissionStarts(e) \/ OutputSlot(e) \/ Mint(e) \/ CallbackTimesOut(e)
          \/ FollowRotation(e) \/ AppendRecord(e)

AuditSpec == AuditInit /\ [][AuditNext]_auditVars

-----------------------------------------------------------------------------
(* Properties.                                                             *)

Minted == {e \in Emissions : pos[e] # NoPos}
Writing == {e \in Emissions : em[e] \in {"spawned", "appending"}}

\* The chain has no fork and no gap: the records are one line from the first
\* to the last, each naming the one before, and every position taken belongs
\* to a record that is written or has a writer, however many waiters timed out.
ChainWhole ==
    /\ {pos[e].seq : e \in Minted} = 1 .. chainSeq
    /\ Cardinality(Minted) = chainSeq
    /\ \A e \in Minted : /\ pos[e].prev = pos[e].seq - 1
                         /\ em[e] \in {"spawned", "appending", "ended"}

\* "A stalled destination cannot spawn an unbounded number of threads": the
\* writers never outnumber the slots, though callbacks time out under them.
WritersBounded == Cardinality(Writing) <= OutputSlots

\* A shutdown that returns Ok comes after the last write: no writer runs and
\* none starts any more.
ShutdownLast ==
    down \in {"drained", "ok"} =>
        Writing \cup {e \in Emissions : em[e] = "slot"} = {}

\* An export that returned Ok under fsync is kept through a power loss: its
\* data was synced, in a file whose name was, across rotations at any moment.
AckedDurable ==
    \A e \in acked : e \in synced /\ inFile[e] \in linked

\* What a verifier of the audit file relies on: one unbroken chain, kept through
\* power loss where it was promised, written by a bounded number of threads
\* that are all gone when shutdown says so.
AuditWhole == ChainWhole /\ AckedDurable /\ WritersBounded /\ ShutdownLast
=============================================================================
