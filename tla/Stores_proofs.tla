--------------------------- MODULE Stores_proofs ----------------------------
(***************************************************************************)
(* Proofs about the file under the write-ahead log: what a compaction      *)
(* keeps, that an acknowledged record is never lost silently, and that the *)
(* file implements the log the effect protocol is written against.         *)
(***************************************************************************)
EXTENDS FileEffectLog, Loops_proofs

-----------------------------------------------------------------------------
(* What recovery keeps.                                                    *)

\* The lines of a file, one by one.
LEMMA LinesOf ==
    ASSUME NEW T, NEW lines \in Seq(T)
    PROVE  /\ DOMAIN lines = 1..Len(lines) /\ Len(lines) \in Nat
           /\ IsFiniteSet(DOMAIN lines) /\ DOMAIN lines \in SUBSET Nat
           /\ \A i \in DOMAIN lines : lines[i] \in T /\ lines[i] \in ToSet(lines)
           /\ \A x : x \in ToSet(lines) <=> \E i \in DOMAIN lines : lines[i] = x
BY PlacesOf DEF ToSet

Positions(k, lines) == {i \in DOMAIN lines : lines[i].key = k}

\* Every key of the file has a first and a last record.
LEMMA KeyExtremes ==
    ASSUME NEW T, NEW lines \in Seq(T), NEW k \in KeysOf(ToSet(lines))
    PROVE  /\ \E i \in Positions(k, lines) : \A j \in Positions(k, lines) : j <= i
           /\ \E i \in Positions(k, lines) : \A j \in Positions(k, lines) : i <= j
<1>1. Positions(k, lines) \in SUBSET DOMAIN lines
  BY DEF Positions
<1>2. Positions(k, lines) \in SUBSET Nat /\ IsFiniteSet(Positions(k, lines))
  BY <1>1, LinesOf, FS_Subset
<1>3. Positions(k, lines) # {}
  BY LinesOf DEF KeysOf, Positions
<1> QED BY <1>2, <1>3, Extremes

LEMMA LatestIs ==
    ASSUME NEW T, NEW lines \in Seq(T), NEW k \in KeysOf(ToSet(lines))
    PROVE  LatestOf(k, lines) \in ToSet(lines) /\ LatestOf(k, lines).key = k
<1>1. PICK i \in Positions(k, lines) : \A j \in Positions(k, lines) : j <= i
  BY KeyExtremes
<1>2. /\ i \in DOMAIN lines /\ lines[i].key = k
      /\ \A j \in DOMAIN lines : lines[j].key = k => j <= i
  BY <1>1 DEF Positions
<1> DEFINE c == CHOOSE m \in DOMAIN lines : /\ lines[m].key = k
                                            /\ \A j \in DOMAIN lines : lines[j].key = k => j <= m
<1>3. c \in DOMAIN lines /\ lines[c].key = k
  BY <1>2
<1>4. LatestOf(k, lines) = lines[c]
  BY DEF LatestOf
<1> HIDE DEF c
<1> QED BY <1>3, <1>4, LinesOf

\* recover() keeps a record of every key without an answer, and nothing else.
THEOREM CompactionKeepsUnresolved ==
    ASSUME NEW T, NEW lines \in Seq(T)
    PROVE  /\ Survivors(lines) \in Seq(T)
           /\ IsCompactionOf(ToSet(Survivors(lines)), ToSet(lines))
<1> DEFINE open  == Unresolved(ToSet(lines))
           first == {i \in DOMAIN lines : /\ lines[i].key \in open
                                          /\ \A j \in 1..(i - 1) : lines[j].key # lines[i].key}
           size  == Cardinality(first)
           kept  == Survivors(lines)
<1>1. first \in SUBSET DOMAIN lines
  OBVIOUS
<1>2. IsFiniteSet(first) /\ size \in Nat /\ first \in SUBSET Nat
  BY <1>1, LinesOf, FS_Subset, FS_CardinalityType
<1>3. kept = [n \in 1..size |-> LatestOf(lines[NthOf(first, n)].key, lines)]
  BY DEF Survivors, Picked
<1>4. open \subseteq KeysOf(ToSet(lines))
  BY DEF Unresolved
<1>5. \A i \in first : i \in DOMAIN lines /\ lines[i].key \in open
  OBVIOUS
<1>6. ASSUME NEW k \in open PROVE \E i \in first : lines[i].key = k
  <2>1. PICK i \in Positions(k, lines) : \A j \in Positions(k, lines) : i <= j
    BY <1>4, KeyExtremes
  <2>2. /\ i \in 1..Len(lines) /\ DOMAIN lines = 1..Len(lines) /\ Len(lines) \in Nat
        /\ lines[i].key = k
    BY <2>1, LinesOf DEF Positions
  <2>3. \A j \in 1..(i - 1) : j \in 1..Len(lines) /\ ~(i <= j)
    BY <2>2
  <2>4. \A j \in 1..(i - 1) : lines[j].key # k
    BY <2>1, <2>2, <2>3 DEF Positions
  <2> HIDE DEF open
  <2> QED BY <2>2, <2>4
<1> HIDE DEF open, first, size
<1>7. ASSUME NEW n \in 1..size
      PROVE  /\ NthOf(first, n) \in first
             /\ kept[n] \in ToSet(lines) /\ kept[n].key = lines[NthOf(first, n)].key
             /\ kept[n].key \in open
  <2>1. NthOf(first, n) \in first
    BY <1>2, NthIs DEF size
  <2>2. lines[NthOf(first, n)].key \in open
    BY <1>5, <2>1
  <2>3. kept[n] = LatestOf(lines[NthOf(first, n)].key, lines)
    BY <1>3
  <2> QED BY <1>4, <2>1, <2>2, <2>3, LatestIs
<1>8. DOMAIN kept = 1..size
  BY <1>3
<1>9. ToSet(lines) \subseteq T
  BY LinesOf
<1>10. kept \in Seq(T)
  <2>1. \A n \in 1..size : kept[n] \in T
    BY <1>7, <1>9
  <2>2. kept \in [1..size -> T]
    BY <1>3, <1>8, <2>1
  <2> QED BY <1>2, <2>2
<1>11. \A x : x \in ToSet(kept) <=> \E n \in 1..size : kept[n] = x
  BY <1>8 DEF ToSet
<1>12. ToSet(kept) \subseteq ToSet(lines)
  BY <1>7, <1>11
<1>13. KeysOf(ToSet(kept)) \subseteq open
  BY <1>7, <1>11 DEF KeysOf
<1>14. ASSUME NEW k \in open PROVE k \in KeysOf(ToSet(kept))
  <2>1. PICK i \in first : lines[i].key = k
    BY <1>6
  <2>2. PICK n \in 1..size : NthOf(first, n) = i
    BY <1>2, NthReaches DEF size
  <2>3. kept[n].key = k /\ kept[n] \in ToSet(kept)
    BY <1>7, <1>11, <2>1, <2>2
  <2> QED BY <2>3 DEF KeysOf
<1> QED BY <1>10, <1>12, <1>13, <1>14 DEF IsCompactionOf, open

-----------------------------------------------------------------------------
(* The file, while no two log values over its path have been at it at once. *)

DirectoriesKept == \A e \in Environments : ~e.dirMayRevert

\* These lines hold what is owed, or one of them makes every recovery refuse.
Holds(lines, owed) == Damaged \in ToSet(lines) \/ owed \subseteq ToSet(lines)

Writes(t) == t.pc \in {"open", "written", "failed"}

\* What was in the file when this append opened it holds all that is owed; since
\* then there is at most this append's line, spoiled if it met half a line.
WriteInv(t) ==
    /\ t.rec \in asked \ acked
    /\ t.before <= Len(file)
    /\ Holds(SubSeq(file, 1, t.before), acked)
    /\ t.rec \notin ToSet(SubSeq(file, 1, t.before))
    /\ \/ Len(file) = t.before /\ t.pc # "written"
       \/ /\ Len(file) = t.before + 1 /\ t.pc # "open"
          /\ file[Len(file)] = IF t.wasTorn THEN Damaged ELSE t.rec
    /\ t.pc = "open" => t.wasTorn = torn
    /\ t.creating => t.before = 0 /\ ~t.wasTorn /\ stale = {<<>>}

\* What a compaction read is still what the file holds.
ReadInv(t) ==
    /\ Readable
    /\ t.kept = Survivors(file)
    /\ t.dropped = FileRecords \ ToSet(t.kept)

TaskInv(t) ==
    /\ t \in Tasks
    /\ t.pc # "idle" => up /\ exists
    /\ ~t.orphan
    /\ Writes(t) => WriteInv(t)
    /\ t.pc = "read" => ReadInv(t)

DiskInv ==
    /\ file \in Seq(Lines) /\ torn \in BOOLEAN /\ exists \in BOOLEAN /\ stale \subseteq Seq(Lines)
    /\ ToSet(file) \subseteq asked \cup {Damaged}
    /\ asked \subseteq Records /\ acked \subseteq asked
    /\ Holds(file, acked)
    /\ ~exists => file = <<>> /\ torn = FALSE

BookInv ==
    /\ appends \in [Handles -> Nat] /\ due \subseteq Handles
    /\ handle \in Handles \cup {NoHandle} /\ used \subseteq Handles
    /\ up \in BOOLEAN /\ crashes \in 0..MaxCrashes
    /\ env \in Environment /\ ~env.dirMayRevert

\* No log value but h's has a task under way.
Lone(h) == \A g \in Handles : g # h => task[g].pc = "idle"

FileInv ==
    /\ DiskInv /\ BookInv
    /\ DOMAIN task = Handles /\ task = [h \in Handles |-> task[h]]
    /\ \A h \in Handles : TaskInv(task[h])
    /\ \A h \in Handles : task[h].pc # "idle" => Lone(h)

-----------------------------------------------------------------------------
(* Lines added and cut.                                                    *)

LEMMA AppendIs ==
    ASSUME NEW T, NEW lines \in Seq(T), NEW x \in T
    PROVE  /\ Append(lines, x) \in Seq(T) /\ Len(Append(lines, x)) = Len(lines) + 1
           /\ Append(lines, x)[Len(lines) + 1] = x
           /\ ToSet(Append(lines, x)) = ToSet(lines) \cup {x}
           /\ SubSeq(Append(lines, x), 1, Len(lines)) = lines
<1> DEFINE longer == Append(lines, x)
<1>1. /\ longer \in Seq(T) /\ Len(longer) = Len(lines) + 1 /\ longer[Len(lines) + 1] = x
      /\ DOMAIN longer = 1..(Len(lines) + 1) /\ Len(lines) \in Nat /\ DOMAIN lines = 1..Len(lines)
      /\ \A i \in 1..Len(lines) : longer[i] = lines[i]
  OBVIOUS
<1>2. ToSet(longer) = ToSet(lines) \cup {x}
  <2> HIDE DEF longer
  <2>1. \A i : i \in 1..(Len(lines) + 1) <=> i \in 1..Len(lines) \/ i = Len(lines) + 1
    BY <1>1
  <2> QED BY <1>1, <2>1 DEF ToSet
<1>3. SubSeq(longer, 1, Len(lines)) = lines
  <2> DEFINE cut == SubSeq(longer, 1, Len(lines))
  <2>1. cut \in Seq(T) /\ Len(cut) = Len(lines) /\ \A i \in 1..Len(lines) : cut[i] = longer[i]
    BY <1>1
  <2> HIDE DEF cut, longer
  <2> QED BY <1>1, <2>1
<1> QED BY <1>1, <1>2, <1>3

LEMMA PrefixIs ==
    ASSUME NEW T, NEW lines \in Seq(T), NEW n \in 0..Len(lines)
    PROVE  /\ SubSeq(lines, 1, n) \in Seq(T) /\ Len(SubSeq(lines, 1, n)) = n
           /\ ToSet(SubSeq(lines, 1, n)) \subseteq ToSet(lines)
           /\ n = Len(lines) => SubSeq(lines, 1, n) = lines
           /\ n + 1 = Len(lines) => ToSet(lines) = ToSet(SubSeq(lines, 1, n)) \cup {lines[Len(lines)]}
<1> DEFINE cut == SubSeq(lines, 1, n)
<1>0. Len(lines) \in Nat /\ DOMAIN lines = 1..Len(lines) /\ n \in Nat
  OBVIOUS
<1>1. cut \in Seq(T) /\ Len(cut) = n /\ DOMAIN cut = 1..n /\ \A i \in 1..n : cut[i] = lines[i]
  BY <1>0
<1> HIDE DEF cut
<1>2. 1..n \subseteq 1..Len(lines)
  BY <1>0
<1>3. ToSet(cut) \subseteq ToSet(lines)
  BY <1>0, <1>1, <1>2 DEF ToSet
<1>4. n = Len(lines) => cut = lines
  BY <1>0, <1>1
<1>5. ASSUME n + 1 = Len(lines) PROVE ToSet(lines) = ToSet(cut) \cup {lines[Len(lines)]}
  <2>1. \A i : i \in 1..Len(lines) <=> i \in 1..n \/ i = Len(lines)
    BY <1>0, <1>5
  <2> QED BY <1>0, <1>1, <2>1 DEF ToSet
<1> QED BY <1>1, <1>3, <1>4, <1>5 DEF cut

LEMMA NothingIs == ToSet(<<>>) = {} /\ \A T : <<>> \in Seq(T)
BY DEF ToSet

LEMMA DamagedIs == Damaged \in Lines /\ Damaged \notin Records /\ Records \subseteq Lines
BY FileAssumption DEF Damaged, Lines, Records

LEMMA IdleIs ==
    /\ Idle \in Tasks /\ Idle.pc = "idle" /\ ~Idle.orphan /\ Idle.kept = <<>> /\ Idle.dropped = {}
    /\ Idle.rec = Damaged /\ Idle.before = 0
BY NothingIs, DamagedIs DEF Idle, Tasks

LEMMA IdleKept == TaskInv(Idle) /\ TaskInv(Idle)'
BY IdleIs DEF TaskInv, Writes

LEMMA TasksFollow ==
    ASSUME FileInv, NEW h \in Handles, Lone(h), DiskInv', BookInv',
           task' = [g \in Handles |-> task'[g]],
           \A g \in Handles : g # h => task'[g] = task[g],
           TaskInv(task[h])'
    PROVE  FileInv'
<1>1. \A g \in Handles : g # h => task'[g] \in Tasks /\ task'[g].pc = "idle" /\ ~task'[g].orphan
  BY DEF FileInv, Lone, TaskInv
<1>2. ASSUME NEW g \in Handles PROVE TaskInv(task[g])'
  BY <1>1, <1>2 DEF TaskInv, Writes
<1>3. DOMAIN task' = Handles
  OBVIOUS
<1>4. \A g \in Handles : (task[g].pc # "idle" => Lone(g))'
  BY <1>1 DEF Lone
<1> QED BY <1>2, <1>3, <1>4 DEF FileInv

\* An I/O error uses up one of those to come and changes nothing else.
LEMMA EnvKept ==
    ASSUME env \in Environment, UNCHANGED env \/ Fault
    PROVE  /\ env' \in Environment
           /\ env'.rollbackMayFail = env.rollbackMayFail /\ env'.recoverMayFail = env.recoverMayFail
           /\ env'.dirMayRevert = env.dirMayRevert /\ env'.mayReload = env.mayReload
<1>1. CASE UNCHANGED env
  BY <1>1
<1>2. CASE Fault
  <2>1. env' = [env EXCEPT !.errors = @ - 1] /\ env.errors > 0 /\ env.errors \in Nat
    BY <1>2 DEF Fault, Environment
  <2> QED BY <2>1 DEF Environment
<1> QED BY <1>1, <1>2

LEMMA BooksKept ==
    ASSUME BookInv, UNCHANGED <<appends, due, conf, life>>, UNCHANGED env \/ Fault
    PROVE  BookInv'
<1>1. env' \in Environment /\ env'.dirMayRevert = env.dirMayRevert
  BY EnvKept DEF BookInv
<1> QED BY <1>1 DEF BookInv, conf, life

-----------------------------------------------------------------------------
(* FileInv is kept: one lemma per action.                                  *)

\* The file is what the append found, or that and the append's own line.
LEMMA WrittenIs ==
    ASSUME DiskInv, NEW t \in Tasks, WriteInv(t)
    PROVE  /\ t.before \in 0..Len(file) /\ Len(file) \in Nat
           /\ SubSeq(file, 1, t.before) \in Seq(Lines)
           /\ ToSet(SubSeq(file, 1, t.before)) \subseteq ToSet(file)
           /\ \/ t.pc # "written" /\ Len(file) = t.before /\ file = SubSeq(file, 1, t.before)
              \/ /\ t.pc # "open" /\ Len(file) = t.before + 1
                 /\ ToSet(file) = ToSet(SubSeq(file, 1, t.before))
                                    \cup {IF t.wasTorn THEN Damaged ELSE t.rec}
<1>1. file \in Seq(Lines) /\ Len(file) \in Nat /\ t.before \in Nat /\ t.before <= Len(file)
  BY DEF DiskInv, WriteInv, Tasks
<1>2. t.before \in 0..Len(file)
  BY <1>1
<1> DEFINE n == t.before
           prefix == SubSeq(file, 1, n)
<1>3. /\ prefix \in Seq(Lines) /\ ToSet(prefix) \subseteq ToSet(file)
      /\ n = Len(file) => prefix = file
      /\ n + 1 = Len(file) => ToSet(file) = ToSet(prefix) \cup {file[Len(file)]}
  BY <1>1, <1>2, PrefixIs
<1> QED BY <1>1, <1>2, <1>3 DEF WriteInv

LEMMA AppendOpenKeeps ==
    ASSUME FileInv, NEW h \in Handles, Lone(h), NEW r \in Records, AppendOpen(h, r)
    PROVE  FileInv'
<1>1. /\ up = TRUE /\ r \notin asked /\ asked' = asked \cup {r} /\ exists' = TRUE
      /\ stale' = IF exists THEN stale ELSE {<<>>}
      /\ UNCHANGED <<file, torn, appends, due, conf, acked, life, env>>
      /\ task' = [task EXCEPT ![h] =
                    [Idle EXCEPT !.pc = "open", !.rec = r, !.before = Len(file),
                                 !.wasTorn = torn, !.creating = ~exists]]
  BY DEF AppendOpen, Requested, FileInv, BookInv
<1>2. DiskInv /\ BookInv /\ DOMAIN task = Handles
  BY DEF FileInv
<1>3. BookInv'
  BY <1>1, <1>2, BooksKept
<1>4. DiskInv'
  BY <1>1, <1>2, NothingIs DEF DiskInv, Holds
<1>5. /\ task'[h].pc = "open" /\ task'[h].rec = r /\ task'[h].before = Len(file)
      /\ task'[h].wasTorn = torn /\ task'[h].creating = ~exists /\ ~task'[h].orphan
      /\ task'[h] \in Tasks
  <2> DEFINE opened == [pc |-> "open", rec |-> r, before |-> Len(file), wasTorn |-> torn,
                        creating |-> ~exists, orphan |-> FALSE, kept |-> <<>>, dropped |-> {}]
  <2>1. task'[h] = opened
    BY <1>1, <1>2 DEF Idle
  <2>2. Len(file) \in Nat /\ torn \in BOOLEAN /\ (~exists) \in BOOLEAN /\ r \in Lines
    BY <1>2, DamagedIs DEF DiskInv
  <2>3. opened \in Tasks
    BY <2>2, NothingIs DEF Tasks
  <2> QED BY <2>1, <2>3
<1>6. task' = [g \in Handles |-> task'[g]] /\ \A g \in Handles : g # h => task'[g] = task[g]
  BY <1>1, <1>2
<1>7. file \in Seq(Lines) /\ Len(file) \in Nat /\ Len(file) <= Len(file)
  BY <1>2 DEF DiskInv
<1>8. SubSeq(file, 1, Len(file)) = file
  <2>1. Len(file) \in 0..Len(file)
    BY <1>7
  <2> QED BY <1>7, <2>1, PrefixIs
<1>9. r \notin ToSet(file)
  BY <1>1, <1>2, DamagedIs DEF DiskInv
<1>10. ~exists => Len(file) = 0 /\ torn = FALSE
  BY <1>2 DEF DiskInv
<1>11. WriteInv(task[h])'
  <2>1. SubSeq(file', 1, task'[h].before) = file /\ Len(file') = task'[h].before
        /\ task'[h].before <= Len(file')
    BY <1>1, <1>5, <1>7, <1>8
  <2>2. Holds(file, acked') /\ task'[h].rec \in asked' \ acked' /\ task'[h].rec \notin ToSet(file)
    BY <1>1, <1>2, <1>5, <1>9 DEF DiskInv, Holds
  <2>3. task'[h].creating => task'[h].before = 0 /\ ~task'[h].wasTorn /\ stale' = {<<>>}
    BY <1>1, <1>5, <1>10
  <2>4. task'[h].wasTorn = torn' /\ task'[h].pc = "open"
    BY <1>1, <1>5
  <2> QED BY <2>1, <2>2, <2>3, <2>4 DEF WriteInv, Holds
<1>12. TaskInv(task[h])'
  BY <1>1, <1>5, <1>11 DEF TaskInv, life
<1> QED BY <1>3, <1>4, <1>6, <1>12, TasksFollow

LEMMA AppendWriteKeeps ==
    ASSUME FileInv, NEW h \in Handles, Lone(h), AppendWrite(h)
    PROVE  FileInv'
<1>1. DiskInv /\ BookInv /\ DOMAIN task = Handles /\ TaskInv(task[h])
  BY DEF FileInv
<1> DEFINE t == task[h]
           line == IF torn THEN Damaged ELSE t.rec
<1>2. /\ t.pc = "open" /\ t.orphan = FALSE /\ WriteInv(t) /\ t \in Tasks /\ up = TRUE
  BY <1>1 DEF AppendWrite, TaskInv, Writes, BookInv, Tasks
<1>3. /\ task' = [task EXCEPT ![h].pc = "written"] /\ file' = Append(file, line) /\ torn' = FALSE
      /\ UNCHANGED <<exists, stale, appends, due, conf, overlapped, asked, acked, life, env>>
  BY <1>2 DEF AppendWrite
<1>4. BookInv'
  BY <1>1, <1>3, BooksKept
<1>5. t.before = Len(file) /\ file = SubSeq(file, 1, t.before) /\ Len(file) \in Nat
      /\ t.wasTorn = torn /\ t.rec \in asked \ acked
  BY <1>1, <1>2, WrittenIs DEF WriteInv
<1>6. line \in Lines /\ line \in asked \cup {Damaged} /\ file \in Seq(Lines)
  BY <1>1, <1>5, DamagedIs DEF DiskInv
<1>7. /\ file' \in Seq(Lines) /\ Len(file') = Len(file) + 1 /\ file'[Len(file')] = line
      /\ ToSet(file') = ToSet(file) \cup {line} /\ SubSeq(file', 1, Len(file)) = file
  BY <1>3, <1>6, AppendIs
<1>8. exists = TRUE
  BY <1>1, <1>2 DEF DiskInv, TaskInv
<1>9. DiskInv'
  BY <1>1, <1>3, <1>6, <1>7, <1>8 DEF DiskInv, Holds
<1>10. /\ task'[h] \in Tasks /\ task'[h].pc = "written" /\ task'[h].orphan = FALSE
       /\ task'[h].rec = t.rec /\ task'[h].before = t.before /\ task'[h].wasTorn = t.wasTorn
       /\ task'[h].creating = t.creating
       /\ task' = [g \in Handles |-> task'[g]] /\ \A g \in Handles : g # h => task'[g] = task[g]
  BY <1>1, <1>2, <1>3 DEF Tasks
<1>11. WriteInv(task[h])'
  <2>1. SubSeq(file', 1, task'[h].before) = file /\ Len(file') = task'[h].before + 1
        /\ task'[h].before <= Len(file')
    BY <1>5, <1>7, <1>10
  <2>2. Holds(file, acked') /\ task'[h].rec \in asked' \ acked' /\ task'[h].rec \notin ToSet(file)
    BY <1>1, <1>2, <1>3, <1>5, <1>10 DEF DiskInv, WriteInv, Holds
  <2>3. file'[Len(file')] = IF task'[h].wasTorn THEN Damaged ELSE task'[h].rec
    BY <1>5, <1>7, <1>10
  <2>4. task'[h].creating => task'[h].before = 0 /\ ~task'[h].wasTorn /\ stale' = {<<>>}
    BY <1>2, <1>3, <1>10 DEF WriteInv
  <2> QED BY <1>10, <2>1, <2>2, <2>3, <2>4 DEF WriteInv, Holds
<1>12. TaskInv(task[h])'
  BY <1>2, <1>3, <1>8, <1>10, <1>11 DEF TaskInv, life
<1> QED BY <1>4, <1>9, <1>10, <1>12, TasksFollow

LEMMA AppendErrorKeeps ==
    ASSUME FileInv, NEW h \in Handles, Lone(h), AppendError(h)
    PROVE  FileInv'
<1>1. DiskInv /\ BookInv /\ DOMAIN task = Handles /\ TaskInv(task[h])
  BY DEF FileInv
<1> DEFINE t == task[h]
<1>2. /\ t.pc \in {"open", "written"} /\ t.orphan = FALSE /\ WriteInv(t) /\ t \in Tasks
      /\ up = TRUE /\ exists = TRUE
  BY <1>1 DEF AppendError, TaskInv, Writes, BookInv, DiskInv, Tasks
<1>3. /\ task' = [task EXCEPT ![h].pc = "failed"] /\ torn' \in {TRUE, torn} /\ Fault
      /\ UNCHANGED <<file, exists, stale, appends, due, conf, overlapped, asked, acked, life>>
  BY DEF AppendError
<1>4. BookInv'
  BY <1>1, <1>3, BooksKept
<1>5. DiskInv'
  BY <1>1, <1>2, <1>3 DEF DiskInv, Holds
<1>6. /\ task'[h] \in Tasks /\ task'[h].pc = "failed" /\ task'[h].orphan = FALSE
      /\ task'[h].rec = t.rec /\ task'[h].before = t.before /\ task'[h].wasTorn = t.wasTorn
      /\ task'[h].creating = t.creating
      /\ task' = [g \in Handles |-> task'[g]] /\ \A g \in Handles : g # h => task'[g] = task[g]
  BY <1>1, <1>2, <1>3 DEF Tasks
<1>7. WriteInv(task[h])'
  BY <1>2, <1>3, <1>6 DEF WriteInv, Holds
<1>8. TaskInv(task[h])'
  BY <1>2, <1>3, <1>6, <1>7 DEF TaskInv, life
<1> QED BY <1>4, <1>5, <1>6, <1>8, TasksFollow

\* A task that ends leaves its lock free.
LEMMA TaskEnds ==
    ASSUME FileInv, NEW h \in Handles, Lone(h), DiskInv', BookInv',
           task' = [task EXCEPT ![h] = Idle]
    PROVE  FileInv'
<1>1. DOMAIN task = Handles
  BY DEF FileInv
<1>2. /\ task'[h] = Idle /\ task' = [g \in Handles |-> task'[g]]
      /\ \A g \in Handles : g # h => task'[g] = task[g]
  BY <1>1
<1>3. TaskInv(task[h])'
  BY <1>2, IdleKept DEF TaskInv, Writes, WriteInv, ReadInv, Readable, FileRecords, Holds
<1> QED BY <1>2, <1>3, TasksFollow

LEMMA AppendRollbackKeeps ==
    ASSUME FileInv, NEW h \in Handles, Lone(h), AppendRollback(h)
    PROVE  FileInv'
<1>1. DiskInv /\ BookInv /\ TaskInv(task[h])
  BY DEF FileInv
<1> DEFINE t == task[h]
<1>2. /\ t.orphan = FALSE /\ WriteInv(t) /\ t \in Tasks /\ exists = TRUE
  BY <1>1 DEF AppendRollback, TaskInv, Writes, DiskInv, Tasks
<1>3. /\ task' = [task EXCEPT ![h] = Idle] /\ file' = SubSeq(file, 1, t.before)
      /\ torn' = t.wasTorn
      /\ UNCHANGED <<exists, stale, appends, due, conf, overlapped, asked, acked, life, env>>
  BY <1>2 DEF AppendRollback, WriteInv
<1>4. BookInv'
  BY <1>1, <1>3, BooksKept
<1>5. file' \in Seq(Lines) /\ ToSet(file') \subseteq ToSet(file) /\ torn' \in BOOLEAN
  BY <1>1, <1>2, <1>3, WrittenIs DEF Tasks
<1>6. Holds(file', acked')
  BY <1>2, <1>3 DEF WriteInv
<1>7. DiskInv'
  BY <1>1, <1>2, <1>3, <1>5, <1>6 DEF DiskInv, Holds
<1> QED BY <1>3, <1>4, <1>7, TaskEnds

\* The roll-back fails, or the directory's fsync does.
LEMMA AppendRefusedKeeps ==
    ASSUME FileInv, NEW h \in Handles, Lone(h), AppendRollbackFails(h) \/ AppendDirError(h)
    PROVE  FileInv'
<1>1. /\ task' = [task EXCEPT ![h] = Idle] /\ Fault
      /\ UNCHANGED <<disk, appends, due, conf, overlapped, asked, acked, life>>
  BY DEF AppendRollbackFails, AppendDirError
<1>2. BookInv'
  BY <1>1, BooksKept DEF FileInv
<1>3. DiskInv'
  BY <1>1 DEF FileInv, DiskInv, disk, Holds
<1> QED BY <1>1, <1>2, <1>3, TaskEnds

LEMMA AppendSyncKeeps ==
    ASSUME FileInv, NEW h \in Handles, Lone(h), AppendSync(h)
    PROVE  FileInv'
<1>1. DiskInv /\ BookInv /\ TaskInv(task[h])
  BY DEF FileInv
<1> DEFINE t == task[h]
<1>2. /\ t.pc = "written" /\ WriteInv(t) /\ t \in Tasks
  BY <1>1 DEF AppendSync, TaskInv, Writes
<1>3. /\ task' = [task EXCEPT ![h] = Idle] /\ acked' = acked \cup {t.rec}
      /\ stale' = IF t.creating THEN {} ELSE stale
      /\ UNCHANGED <<file, torn, exists, conf, overlapped, asked, life, env>>
  BY DEF AppendSync
<1>4. appends' \in [Handles -> Nat] /\ due' \subseteq Handles
  <2>1. appends[h] + 1 \in Nat /\ 0 \in Nat /\ appends \in [Handles -> Nat] /\ due \subseteq Handles
    BY <1>1 DEF BookInv
  <2>2. /\ due' \in {due, due \cup {h}}
        /\ appends' \in {appends, [appends EXCEPT ![h] = 0], [appends EXCEPT ![h] = appends[h] + 1]}
    BY DEF AppendSync
  <2> QED BY <2>1, <2>2
<1>5. BookInv'
  BY <1>1, <1>3, <1>4 DEF BookInv, conf, life
<1>6. Holds(file', acked')
  <2>1. ToSet(file) = ToSet(SubSeq(file, 1, t.before)) \cup {IF t.wasTorn THEN Damaged ELSE t.rec}
    BY <1>1, <1>2, WrittenIs
  <2>2. Holds(file, acked)
    BY <1>1 DEF DiskInv
  <2> QED BY <1>3, <2>1, <2>2 DEF Holds
<1>7. DiskInv'
  BY <1>1, <1>2, <1>3, <1>6 DEF DiskInv, WriteInv
<1> QED BY <1>3, <1>5, <1>7, TaskEnds

\* Recovery of a file all of whose lines parse keeps what is still owed.
LEMMA Compacts ==
    ASSUME DiskInv, Readable
    PROVE  /\ Survivors(file) \in Seq(Records) /\ Survivors(file) \in Seq(Lines)
           /\ ToSet(Survivors(file)) \subseteq ToSet(file)
           /\ FileRecords = ToSet(file) /\ FileRecords \subseteq Records
           /\ IsCompactionOf(ToSet(Survivors(file)), ToSet(file))
           /\ acked \subseteq ToSet(file)
<1>1. file \in Seq(Lines) /\ Damaged \notin ToSet(file)
  BY DEF DiskInv, Readable
<1>2. \A i \in DOMAIN file : file[i] \in Records
  <2>1. \A i \in DOMAIN file : file[i] \in Lines /\ file[i] \in ToSet(file)
    BY <1>1, LinesOf
  <2> QED BY <1>1, <2>1 DEF Lines
<1>3. file \in Seq(Records)
  BY <1>1, <1>2
<1>4. Survivors(file) \in Seq(Records) /\ IsCompactionOf(ToSet(Survivors(file)), ToSet(file))
  BY <1>3, CompactionKeepsUnresolved
<1>5. Survivors(file) \in Seq(Lines)
  BY <1>1, CompactionKeepsUnresolved
<1>6. FileRecords = ToSet(file) /\ ToSet(file) \subseteq Records
  BY <1>1, <1>3, LinesOf DEF FileRecords
<1> QED BY <1>1, <1>4, <1>5, <1>6 DEF IsCompactionOf, DiskInv, Holds

LEMMA ReplaceKeeps ==
    ASSUME DiskInv, Readable, exists' = TRUE, stale' \subseteq Seq(Lines), UNCHANGED asked,
           Replace(Survivors(file), FileRecords \ ToSet(Survivors(file)))
    PROVE  DiskInv'
<1>1. /\ file' = Survivors(file) /\ torn' = FALSE
      /\ acked' = acked \ (FileRecords \ ToSet(Survivors(file)))
  BY DEF Replace
<1>2. Holds(file', acked') /\ acked' \subseteq acked /\ file' \in Seq(Lines)
      /\ ToSet(file') \subseteq ToSet(file)
  BY <1>1, Compacts DEF Holds
<1> QED BY <1>1, <1>2 DEF DiskInv

LEMMA RecoverReadKeeps ==
    ASSUME FileInv, NEW h \in Handles, Lone(h), RecoverRead(h)
    PROVE  FileInv'
<1>1. DiskInv /\ BookInv /\ DOMAIN task = Handles
  BY DEF FileInv
<1>2. /\ up = TRUE /\ exists = TRUE /\ Readable
      /\ task' = [task EXCEPT ![h] =
           [Idle EXCEPT !.pc = "read", !.kept = Survivors(file),
                        !.dropped = FileRecords \ ToSet(Survivors(file))]]
      /\ due' = due \ {h}
      /\ UNCHANGED <<disk, appends, conf, asked, acked, life, env>>
  BY <1>1 DEF RecoverRead, DiskInv, BookInv
<1>3. BookInv'
  BY <1>1, <1>2 DEF BookInv, conf, life
<1>4. DiskInv'
  BY <1>1, <1>2 DEF DiskInv, disk, Holds
<1>5. /\ task'[h].pc = "read" /\ ~task'[h].orphan /\ task'[h].kept = Survivors(file)
      /\ task'[h].dropped = FileRecords \ ToSet(Survivors(file)) /\ task'[h] \in Tasks
  <2> DEFINE kept0 == Survivors(file)
             dropped0 == FileRecords \ ToSet(Survivors(file))
             reading == [pc |-> "read", rec |-> Damaged, before |-> 0, wasTorn |-> FALSE,
                         creating |-> FALSE, orphan |-> FALSE, kept |-> kept0, dropped |-> dropped0]
  <2>1. task'[h] = reading
    BY <1>1, <1>2 DEF Idle
  <2>2. kept0 \in Seq(Records) /\ dropped0 \in SUBSET Records /\ Damaged \in Lines
    BY <1>1, <1>2, Compacts, DamagedIs
  <2> HIDE DEF kept0, dropped0
  <2>3. reading \in Tasks
    BY <2>2 DEF Tasks
  <2> QED BY <2>1, <2>3 DEF kept0, dropped0
<1>6. task' = [g \in Handles |-> task'[g]] /\ \A g \in Handles : g # h => task'[g] = task[g]
  BY <1>1, <1>2
<1>7. ReadInv(task[h])'
  <2>1. file' = file
    BY <1>2 DEF disk
  <2> QED BY <1>2, <1>5, <2>1 DEF ReadInv, Readable, FileRecords
<1>8. TaskInv(task[h])'
  BY <1>2, <1>5, <1>7 DEF TaskInv, Writes, life, disk
<1> QED BY <1>3, <1>4, <1>6, <1>8, TasksFollow

LEMMA UnlinkEnds == ASSUME FileInv, NEW h \in Handles, Lone(h)
                    PROVE  Unlink(h) = [task EXCEPT ![h] = Idle]
<1>1. DOMAIN task = Handles /\ \A g \in Handles : g # h => task[g].pc = "idle"
  BY DEF FileInv, Lone
<1>2. Unlink(h) = [g \in Handles |-> IF g = h THEN Idle ELSE task[g]]
  BY <1>1 DEF Unlink
<1> QED BY <1>1, <1>2

LEMMA RecoverRenameKeeps ==
    ASSUME FileInv, NEW h \in Handles, Lone(h), RecoverRename(h)
    PROVE  FileInv'
<1>1. DiskInv /\ BookInv /\ ReadInv(task[h])
  BY DEF FileInv, RecoverRename, TaskInv
<1>2. /\ Replace(task[h].kept, task[h].dropped) /\ task' = Unlink(h) /\ exists' = TRUE /\ stale' = {}
      /\ UNCHANGED <<appends, due, conf, overlapped, asked, life, env>>
  BY DEF RecoverRename
<1>3. BookInv'
  BY <1>1, <1>2, BooksKept
<1>4. Readable /\ Replace(Survivors(file), FileRecords \ ToSet(Survivors(file)))
  BY <1>1, <1>2 DEF ReadInv
<1>5. DiskInv'
  BY <1>1, <1>2, <1>4, ReplaceKeeps
<1> QED BY <1>2, <1>3, <1>5, UnlinkEnds, TaskEnds

LEMMA RecoverErrorKeeps ==
    ASSUME FileInv, NEW h \in Handles, Lone(h), RecoverError(h)
    PROVE  FileInv'
<1>1. DiskInv /\ BookInv /\ ReadInv(task[h]) /\ exists = TRUE
  BY DEF FileInv, RecoverError, TaskInv, DiskInv
<1>2. Fault /\ UNCHANGED <<appends, due, conf, overlapped, asked, life>>
  BY DEF RecoverError
<1>3. BookInv'
  BY <1>1, <1>2, BooksKept
<1>4. CASE task' = [task EXCEPT ![h] = Idle] /\ UNCHANGED <<disk, acked>>
  <2>1. DiskInv'
    BY <1>1, <1>2, <1>4 DEF DiskInv, disk, Holds
  <2> QED BY <1>3, <1>4, <2>1, TaskEnds
<1>5. CASE /\ Replace(task[h].kept, task[h].dropped)
           /\ task' = Unlink(h)
           /\ stale' = stale \cup {file}
           /\ UNCHANGED exists
  <2>1. Readable /\ Replace(Survivors(file), FileRecords \ ToSet(Survivors(file)))
    BY <1>1, <1>5 DEF ReadInv
  <2>2. stale' \subseteq Seq(Lines) /\ exists' = TRUE
    BY <1>1, <1>5 DEF DiskInv
  <2>3. DiskInv'
    BY <1>1, <1>2, <2>1, <2>2, ReplaceKeeps
  <2> QED BY <1>3, <1>5, <2>3, UnlinkEnds, TaskEnds
<1> QED BY <1>4, <1>5 DEF RecoverError

\* Steps that touch neither the file nor a task.
LEMMA UntouchedKeeps ==
    ASSUME FileInv, UNCHANGED <<disk, task, asked, acked, up>>, BookInv'
    PROVE  FileInv'
<1>1. DiskInv'
  BY DEF FileInv, DiskInv, disk, Holds
<1>2. \A h \in Handles : TaskInv(task[h])'
  BY DEF FileInv, TaskInv, Writes, WriteInv, ReadInv, Readable, FileRecords, Holds, disk
<1> QED BY <1>1, <1>2 DEF FileInv, Lone

LEMMA ReloadKeeps ==
    ASSUME FileInv, ReloadAway \/ \E h \in Handles : ReloadBack(h) \/ RecoverNothing(h)
    PROVE  FileInv'
<1>1. BookInv'
  BY DEF FileInv, BookInv, ReloadAway, ReloadBack, RecoverNothing, conf, life
<1>2. UNCHANGED <<disk, task, asked, acked, up>>
  BY DEF ReloadAway, ReloadBack, RecoverNothing, life
<1> QED BY <1>1, <1>2, UntouchedKeeps

\* A crash leaves the file as it was or as the append under way found it, and in
\* the second case the file may be gone, if that append had created it.
Spared ==
    /\ UNCHANGED <<file, exists, stale>>
    /\ torn' \in BOOLEAN /\ (Writing = {} => torn' = torn)

CutBack(h) ==
    /\ WriteInv(task[h])
    /\ file' = SubSeq(file, 1, task[h].before)
    /\ torn' \in BOOLEAN
    /\ \/ exists' = TRUE /\ UNCHANGED stale
       \/ exists' = FALSE /\ file' = <<>> /\ torn' = FALSE /\ stale' = {}

LEMMA CrashCuts ==
    ASSUME FileInv, Crash
    PROVE  Spared \/ \E h \in Writing : CutBack(h)
<1>1. DiskInv /\ BookInv /\ file \in Seq(Lines) /\ Len(file) \in Nat
  BY DEF FileInv, DiskInv
<1>2. ASSUME NEW h \in Writing
      PROVE  /\ h \in Handles /\ WriteInv(task[h]) /\ task[h] \in Tasks /\ exists = TRUE
             /\ \A g \in Writing : g = h
  BY <1>1 DEF FileInv, TaskInv, Writes, Writing, Lone, DiskInv
<1>3. ASSUME NEW cut \in 0..Len(file), NEW t \in BOOLEAN,
             Writing = {} => cut = Len(file) /\ t = torn,
             \A h \in Writing : cut >= task[h].before \/ cut = Len(file),
             file' = SubSeq(file, 1, cut), torn' = t, UNCHANGED <<exists, stale>>
      PROVE  Spared \/ \E h \in Writing : CutBack(h)
  <2>1. CASE cut = Len(file)
    <3>1. SubSeq(file, 1, cut) = file
      BY <1>1, <2>1, PrefixIs
    <3> QED BY <1>3, <3>1 DEF Spared
  <2>2. CASE cut # Len(file)
    <3>1. PICK h \in Writing : TRUE
      BY <1>3, <2>2
    <3>2. /\ WriteInv(task[h]) /\ exists = TRUE /\ cut >= task[h].before
          /\ task[h].before \in Nat /\ Len(file) \in {task[h].before, task[h].before + 1}
      BY <1>1, <1>2, <1>3, <3>1 DEF WriteInv, Tasks
    <3>3. cut = task[h].before
      BY <1>1, <2>2, <3>2
    <3> QED BY <1>3, <3>2, <3>3 DEF CutBack
  <2> QED BY <2>1, <2>2
<1>4. ASSUME env.dirMayRevert \/ \E h \in Writing : task[h].creating,
             file' \in stale, torn' = FALSE, exists' = (file' # <<>>), stale' = {}
      PROVE  \E h \in Writing : CutBack(h)
  <2>1. PICK h \in Writing : task[h].creating
    BY <1>1, <1>4 DEF BookInv
  <2>2. WriteInv(task[h]) /\ task[h].before = 0 /\ stale = {<<>>}
    BY <1>2, <2>1 DEF WriteInv
  <2>3. 0 \in 0..Len(file)
    BY <1>1
  <2>4. SubSeq(file, 1, 0) \in Seq(Lines) /\ Len(SubSeq(file, 1, 0)) = 0
    BY <1>1, <2>3, PrefixIs
  <2>5. SubSeq(file, 1, 0) = <<>>
    BY <2>4
  <2> QED BY <1>4, <2>2, <2>5 DEF CutBack
<1>5. \/ \E cut \in 0..Len(file), t \in BOOLEAN :
            /\ Writing = {} => cut = Len(file) /\ t = torn
            /\ \A h \in Writing : cut >= task[h].before \/ cut = Len(file)
            /\ file' = SubSeq(file, 1, cut)
            /\ torn' = t
            /\ UNCHANGED <<exists, stale>>
      \/ /\ env.dirMayRevert \/ \E h \in Writing : task[h].creating
         /\ file' \in stale
         /\ torn' = FALSE
         /\ exists' = (file' # <<>>)
         /\ stale' = {}
  BY DEF Crash
<1> QED BY <1>3, <1>4, <1>5

LEMMA CrashKeeps == ASSUME FileInv, Crash PROVE FileInv'
<1>1. DiskInv /\ BookInv
  BY DEF FileInv
<1>2. /\ up' = FALSE /\ crashes < MaxCrashes /\ crashes' = crashes + 1
      /\ task' = [h \in Handles |-> Idle] /\ appends' = [h \in Handles |-> 0]
      /\ due' = {} /\ handle' = NoHandle /\ used' = {} /\ UNCHANGED <<asked, acked, env>>
  BY DEF Crash
<1>3. BookInv'
  <2>1. crashes' \in 0..MaxCrashes
    BY <1>1, <1>2, FileAssumption DEF BookInv
  <2> QED BY <1>1, <1>2, <2>1 DEF BookInv
<1>4. DiskInv'
  <2>1. CASE Spared
    <3>1. Writing # {} => exists = TRUE
      BY <1>1 DEF FileInv, TaskInv, Writing, DiskInv
    <3> QED BY <1>1, <1>2, <2>1, <3>1 DEF DiskInv, Holds, Spared
  <2>2. ASSUME NEW h \in Writing, CutBack(h) PROVE DiskInv'
    <3>1. task[h] \in Tasks
      BY DEF FileInv, TaskInv, Writing
    <3>2. file' \in Seq(Lines) /\ ToSet(file') \subseteq ToSet(file)
      BY <1>1, <2>2, <3>1, WrittenIs DEF CutBack
    <3>3. Holds(file', acked')
      BY <1>2, <2>2 DEF WriteInv, CutBack
    <3> QED BY <1>1, <1>2, <2>2, <3>2, <3>3 DEF DiskInv, CutBack
  <2> QED BY <2>1, <2>2, CrashCuts
<1>5. \A h \in Handles : TaskInv(task[h])'
  BY <1>2, IdleKept DEF TaskInv, Writes, WriteInv, ReadInv, Readable, FileRecords, Holds
<1>6. \A h \in Handles : task'[h].pc = "idle"
  BY <1>2, IdleIs
<1> QED BY <1>2, <1>3, <1>4, <1>5, <1>6 DEF FileInv, Lone

LEMMA RestartKeeps == ASSUME FileInv, Restart PROVE FileInv'
<1>1. DiskInv /\ BookInv
  BY DEF FileInv
<1>2. up' = TRUE /\ UNCHANGED <<task, appends, due, asked, crashes>>
  BY DEF Restart
<1>3. /\ handle' \in Handles \cup {NoHandle} /\ used' \subseteq Handles
      /\ UNCHANGED env \/ Fault
  BY <1>1 DEF Restart, BookInv, conf
<1>4. env' \in Environment /\ env'.dirMayRevert = env.dirMayRevert
  BY <1>1, <1>3, EnvKept DEF BookInv
<1>5. BookInv'
  BY <1>1, <1>2, <1>3, <1>4 DEF BookInv
<1>6. DiskInv'
  <2>1. CASE /\ exists /\ Readable
             /\ Replace(Survivors(file), FileRecords \ ToSet(Survivors(file)))
             /\ stale' = {} /\ UNCHANGED exists
    <3>1. exists' = TRUE
      BY <1>1, <2>1 DEF DiskInv
    <3> QED BY <1>1, <1>2, <2>1, <3>1, ReplaceKeeps
  <2>2. CASE UNCHANGED <<disk, acked>>
    BY <1>1, <1>2, <2>2 DEF DiskInv, disk, Holds
  <2> QED BY <2>1, <2>2 DEF Restart
<1>7. \A h \in Handles : task[h].pc = "idle" /\ task[h] \in Tasks /\ task[h].orphan = FALSE
  BY DEF FileInv, Restart, TaskInv, Tasks
<1>8. \A h \in Handles : TaskInv(task[h])'
  BY <1>2, <1>7 DEF TaskInv, Writes
<1> QED BY <1>2, <1>5, <1>6, <1>7, <1>8 DEF FileInv, Lone

LEMMA FileStart == ASSUME DirectoriesKept, Init PROVE FileInv
<1>1. DiskInv
  BY NothingIs DEF Init, DiskInv, Holds
<1>2. BookInv
  <2>1. env \in Environment /\ ~env.dirMayRevert
    BY FileAssumption DEF Init, DirectoriesKept
  <2>2. crashes \in 0..MaxCrashes
    BY FileAssumption DEF Init
  <2> QED BY <2>1, <2>2 DEF Init, BookInv
<1>3. task = [h \in Handles |-> Idle]
  BY DEF Init
<1>4. \A h \in Handles : TaskInv(task[h]) /\ task[h].pc = "idle"
  BY <1>3, IdleIs, IdleKept
<1> QED BY <1>1, <1>2, <1>3, <1>4 DEF FileInv, Lone

\* A task that begins while another log value's is under way overlaps it.
LEMMA AloneSince ==
    ASSUME FileInv, NEW h \in Handles, ~overlapped',
           \/ \E r \in Records : AppendOpen(h, r)
           \/ RecoverRead(h) \/ task[h].pc # "idle"
    PROVE  Lone(h)
<1>1. CASE task[h].pc # "idle"
  BY <1>1 DEF FileInv
<1>2. CASE Overlaps(h)
  BY <1>2 DEF Overlaps, Lone
<1> QED BY <1>1, <1>2 DEF AppendOpen, RecoverRead

LEMMA FileStep == ASSUME FileInv, [Next]_vars, ~overlapped' PROVE FileInv'
<1>1. CASE Next
  <2>1. CASE Crash BY <2>1, CrashKeeps
  <2>2. CASE Restart BY <2>2, RestartKeeps
  <2>3. CASE ReloadAway BY <2>3, ReloadKeeps
  <2>4. ASSUME NEW h \in Handles,
               \/ \E r \in Records : AppendOpen(h, r)
               \/ AppendWrite(h) \/ AppendError(h) \/ AppendRollback(h)
               \/ AppendRollbackFails(h) \/ AppendSync(h) \/ AppendDirError(h)
               \/ RecoverRead(h) \/ RecoverNothing(h) \/ RecoverRename(h)
               \/ RecoverError(h) \/ ReloadBack(h)
        PROVE  FileInv'
    <3>0. /\ \A r \in Records : AppendOpen(h, r) => Lone(h)
          /\ RecoverRead(h) \/ task[h].pc # "idle" => Lone(h)
      BY AloneSince
    <3>1. ASSUME NEW r \in Records, AppendOpen(h, r) PROVE FileInv'
      BY <3>0, <3>1, AppendOpenKeeps
    <3>2. CASE AppendWrite(h) BY <3>0, <3>2, AppendWriteKeeps DEF AppendWrite
    <3>3. CASE AppendError(h) BY <3>0, <3>3, AppendErrorKeeps DEF AppendError
    <3>4. CASE AppendRollback(h) BY <3>0, <3>4, AppendRollbackKeeps DEF AppendRollback
    <3>5. CASE AppendRollbackFails(h) \/ AppendDirError(h)
      BY <3>0, <3>5, AppendRefusedKeeps DEF AppendRollbackFails, AppendDirError
    <3>6. CASE AppendSync(h) BY <3>0, <3>6, AppendSyncKeeps DEF AppendSync
    <3>7. CASE RecoverRead(h) BY <3>0, <3>7, RecoverReadKeeps
    <3>8. CASE RecoverNothing(h) \/ ReloadBack(h) BY <3>8, ReloadKeeps
    <3>9. CASE RecoverRename(h) BY <3>0, <3>9, RecoverRenameKeeps DEF RecoverRename
    <3>10. CASE RecoverError(h) BY <3>0, <3>10, RecoverErrorKeeps DEF RecoverError
    <3> QED BY <2>4, <3>1, <3>2, <3>3, <3>4, <3>5, <3>6, <3>7, <3>8, <3>9, <3>10
  <2> QED BY <1>1, <2>1, <2>2, <2>3, <2>4 DEF Next
<1>2. CASE UNCHANGED vars
  <2>1. UNCHANGED <<disk, task, asked, acked, up>>
    BY <1>2 DEF vars, life
  <2>2. BookInv'
    BY <1>2 DEF FileInv, BookInv, vars, conf, life
  <2> QED BY <2>1, <2>2, UntouchedKeeps
<1> QED BY <1>1, <1>2

-----------------------------------------------------------------------------
(* Types, and what is known of overlapping log values.                     *)

TypeInv == TypeOK /\ \A h \in Handles : Writes(task[h]) => task[h].rec \in asked

\* Overlaps are remembered.  Tasks are of log values in use, and a process
\* whose configuration stays on the path has one of them.
UseInv ==
    /\ overlapped \in BOOLEAN /\ up \in BOOLEAN
    /\ DOMAIN task = Handles
    /\ \A h \in Handles : task[h].pc # "idle" => up /\ h \in used
    /\ env \in Environment
    /\ ~env.mayReload => ~overlapped /\ \A g, h \in used : g = h

LEMMA ReadableIs ==
    ASSUME file \in Seq(Lines), Readable
    PROVE  /\ Survivors(file) \in Seq(Records)
           /\ FileRecords \ ToSet(Survivors(file)) \in SUBSET Records
<1>1. Damaged \notin ToSet(file)
  BY DEF Readable
<1>2. \A i \in DOMAIN file : file[i] \in Records
  <2>1. \A i \in DOMAIN file : file[i] \in Lines /\ file[i] \in ToSet(file)
    BY LinesOf
  <2> QED BY <1>1, <2>1 DEF Lines
<1>3. file \in Seq(Records)
  BY <1>2
<1> QED BY <1>3, CompactionKeepsUnresolved, LinesOf DEF FileRecords

\* An I/O error or none.
LEMMA EnvSteps == [Next]_vars => UNCHANGED env \/ Fault
BY DEF Next, vars, AppendOpen, AppendWrite, AppendError, AppendRollback, AppendRollbackFails,
       AppendSync, AppendDirError, RecoverRead, RecoverNothing, RecoverRename, RecoverError,
       ReloadBack, ReloadAway, Crash, Restart

\* The types of what an append, a compaction or a crash leaves.
LEMMA AppendTypes ==
    ASSUME TypeInv, NEW h \in Handles,
           \/ \E r \in Records : AppendOpen(h, r)
           \/ AppendWrite(h) \/ AppendError(h) \/ AppendRollback(h)
           \/ AppendRollbackFails(h) \/ AppendSync(h) \/ AppendDirError(h)
    PROVE  TypeInv'
<1> USE DEF TypeInv, TypeOK, disk, conf, life
<1> DEFINE t == task[h]
<1>0. /\ t \in Tasks /\ file \in Seq(Lines) /\ Len(file) \in Nat /\ env \in Environment
      /\ task \in [Handles -> Tasks] /\ Records \subseteq Lines /\ Damaged \in Lines
  BY DamagedIs
<1>1. env' \in Environment
  BY <1>0, EnvKept DEF AppendOpen, AppendWrite, AppendError, AppendRollback, AppendRollbackFails,
                       AppendSync, AppendDirError
<1>2. ASSUME NEW r \in Records, AppendOpen(h, r) PROVE TypeInv'
  <2> DEFINE opened == [pc |-> "open", rec |-> r, before |-> Len(file), wasTorn |-> torn,
                        creating |-> ~exists, orphan |-> FALSE, kept |-> <<>>, dropped |-> {}]
  <2>1. DOMAIN task' = Handles /\ task'[h] = opened /\ \A g \in Handles : g # h => task'[g] = task[g]
    <3>1. task' = [task EXCEPT ![h] =
             [Idle EXCEPT !.pc = "open", !.rec = r, !.before = Len(file),
                          !.wasTorn = torn, !.creating = ~exists]]
      BY <1>2 DEF AppendOpen
    <3>2. DOMAIN task = Handles
      BY <1>0
    <3> QED BY <3>1, <3>2 DEF Idle
  <2>2. r \in Lines /\ torn \in BOOLEAN /\ (~exists) \in BOOLEAN
    BY <1>0
  <2>3. opened \in Tasks /\ opened.rec = r
    BY <1>0, <2>2, NothingIs DEF Tasks
  <2>4. /\ stale' \subseteq Seq(Lines) /\ overlapped' \in BOOLEAN
        /\ asked' = asked \cup {r} /\ exists' = TRUE
        /\ UNCHANGED <<file, torn, appends, due, conf, acked, life>>
    BY <1>2, NothingIs DEF AppendOpen, Overlaps
  <2> HIDE DEF opened
  <2>5. task' = [g \in Handles |-> task'[g]]
    BY <1>2 DEF AppendOpen
  <2>6. task' \in [Handles -> Tasks] /\ \A g \in Handles : Writes(task'[g]) => task'[g].rec \in asked'
    BY <1>0, <2>1, <2>3, <2>4, <2>5
  <2> QED BY <1>1, <2>4, <2>6
<1>3. CASE AppendWrite(h)
  <2>1. task' = [task EXCEPT ![h].pc = "written"] /\ t.pc = "open"
    BY <1>3 DEF AppendWrite
  <2>2. task' \in [Handles -> Tasks] /\ \A g \in Handles : task'[g].rec = task[g].rec
                                     /\ (Writes(task'[g]) => Writes(task[g]))
    BY <1>0, <2>1 DEF Tasks, Writes
  <2>3. file' \in Seq(Lines) /\ torn' \in BOOLEAN
    <3>1. (IF torn THEN Damaged ELSE t.rec) \in Lines
      BY <1>0 DEF Tasks
    <3>2. Append(file, IF torn THEN Damaged ELSE t.rec) \in Seq(Lines)
      BY <1>0, <3>1, AppendIs
    <3>3. CASE t.orphan
      BY <1>0, <1>3, <3>3 DEF AppendWrite
    <3>4. CASE ~t.orphan
      BY <1>3, <3>2, <3>4 DEF AppendWrite
    <3> QED BY <3>3, <3>4
  <2>4. UNCHANGED <<exists, stale, appends, due, conf, overlapped, asked, acked, life>>
    BY <1>3 DEF AppendWrite
  <2> QED BY <1>1, <2>2, <2>3, <2>4
<1>4. CASE AppendError(h)
  <2>1. task' = [task EXCEPT ![h].pc = "failed"] /\ t.pc \in {"open", "written"}
    BY <1>4 DEF AppendError
  <2>2. task' \in [Handles -> Tasks] /\ \A g \in Handles : task'[g].rec = task[g].rec
                                     /\ (Writes(task'[g]) => Writes(task[g]))
    BY <1>0, <2>1 DEF Tasks, Writes
  <2>3. torn' \in {TRUE, torn}
    BY <1>4 DEF AppendError
  <2>4. UNCHANGED <<file, exists, stale, appends, due, conf, overlapped, asked, acked, life>>
    BY <1>4 DEF AppendError
  <2> QED BY <1>1, <2>2, <2>3, <2>4
<1>5. ASSUME task' = [task EXCEPT ![h] = Idle]
      PROVE  /\ task' \in [Handles -> Tasks]
             /\ \A g \in Handles : Writes(task'[g]) => Writes(task[g]) /\ task'[g] = task[g]
  BY <1>0, <1>5, IdleIs DEF Writes
<1>6. CASE AppendRollback(h)
  <2>1. t.before <= Len(file) => SubSeq(file, 1, t.before) \in Seq(Lines)
    BY <1>0, PrefixIs DEF Tasks
  <2>2. file' \in Seq(Lines) /\ torn' \in BOOLEAN
    BY <1>0, <1>6, <2>1 DEF AppendRollback, Tasks
  <2> QED BY <1>1, <1>5, <1>6, <2>2 DEF AppendRollback
<1>7. CASE AppendRollbackFails(h) \/ AppendDirError(h)
  BY <1>1, <1>5, <1>7 DEF AppendRollbackFails, AppendDirError
<1>8. CASE AppendSync(h)
  <2>1. t.rec \in asked
    BY <1>8 DEF AppendSync, Writes
  <2>2. appends[h] + 1 \in Nat /\ 0 \in Nat
    OBVIOUS
  <2>3. /\ due' \in {due, due \cup {h}}
        /\ appends' \in {appends, [appends EXCEPT ![h] = 0], [appends EXCEPT ![h] = appends[h] + 1]}
        /\ acked' = acked \cup {t.rec} /\ stale' \in {stale, {}}
    BY <1>8 DEF AppendSync
  <2>4. appends' \in [Handles -> Nat]
    BY <2>2, <2>3
  <2> QED BY <1>1, <1>5, <1>8, <2>1, <2>3, <2>4 DEF AppendSync
<1> QED BY <1>2, <1>3, <1>4, <1>6, <1>7, <1>8

LEMMA ReplaceTypes ==
    ASSUME TypeInv, NEW kept \in Seq(Records), NEW dropped, Replace(kept, dropped)
    PROVE  file' \in Seq(Lines) /\ torn' \in BOOLEAN /\ acked' \subseteq acked
<1>1. kept \in Seq(Lines)
  BY DamagedIs
<1> QED BY <1>1 DEF Replace

LEMMA RecoverTypes ==
    ASSUME TypeInv, NEW h \in Handles,
           RecoverRead(h) \/ RecoverNothing(h) \/ RecoverRename(h) \/ RecoverError(h)
    PROVE  TypeInv'
<1> USE DEF TypeInv, TypeOK, disk, conf, life
<1>0. /\ file \in Seq(Lines) /\ env \in Environment /\ task \in [Handles -> Tasks]
      /\ task[h].kept \in Seq(Records)
  BY DEF Tasks
<1>1. env' \in Environment
  BY <1>0, EnvKept DEF RecoverRead, RecoverNothing, RecoverRename, RecoverError
<1>2. CASE RecoverRead(h)
  <2> DEFINE kept0 == Survivors(file)
             dropped0 == FileRecords \ ToSet(Survivors(file))
             reading == [pc |-> "read", rec |-> Damaged, before |-> 0, wasTorn |-> FALSE,
                         creating |-> FALSE, orphan |-> FALSE, kept |-> kept0, dropped |-> dropped0]
  <2>1. /\ DOMAIN task' = Handles /\ task'[h] = reading /\ \A g \in Handles : g # h => task'[g] = task[g]
        /\ overlapped' \in BOOLEAN /\ task' = [g \in Handles |-> task'[g]]
    <3>1. task' = [task EXCEPT ![h] =
             [Idle EXCEPT !.pc = "read", !.kept = Survivors(file),
                          !.dropped = FileRecords \ ToSet(Survivors(file))]]
      BY <1>2 DEF RecoverRead
    <3>2. DOMAIN task = Handles
      BY <1>0
    <3>3. overlapped' \in BOOLEAN
      BY <1>2 DEF RecoverRead, Overlaps
    <3>4. DOMAIN task' = Handles /\ task'[h] = reading /\ \A g \in Handles : g # h => task'[g] = task[g]
      BY <3>1, <3>2 DEF Idle
    <3>5. task' = [g \in Handles |-> task'[g]]
      BY <3>1, <3>2
    <3> QED BY <3>3, <3>4, <3>5
  <2>2. kept0 \in Seq(Records) /\ dropped0 \in SUBSET Records /\ Damaged \in Lines
    BY <1>0, <1>2, ReadableIs, DamagedIs DEF RecoverRead
  <2> HIDE DEF kept0, dropped0
  <2>3. reading \in Tasks /\ ~Writes(reading)
    BY <2>2 DEF Tasks, Writes
  <2> HIDE DEF reading
  <2>4. task' \in [Handles -> Tasks] /\ \A g \in Handles : Writes(task'[g]) => task'[g] = task[g]
    BY <1>0, <2>1, <2>3
  <2>5. due' = due \ {h} /\ UNCHANGED <<disk, appends, conf, asked, acked, life>>
    BY <1>2 DEF RecoverRead
  <2>6. overlapped' \in BOOLEAN
    BY <2>1
  <2> QED BY <1>1, <2>4, <2>5, <2>6
<1>3. CASE RecoverNothing(h)
  BY <1>1, <1>3 DEF RecoverNothing
<1>4. /\ Unlink(h) \in [Handles -> Tasks]
      /\ \A g \in Handles : Writes(Unlink(h)[g]) => Writes(task[g]) /\ Unlink(h)[g].rec = task[g].rec
  <2>1. \A g \in Handles : /\ [task[g] EXCEPT !.orphan = TRUE] \in Tasks
                           /\ [task[g] EXCEPT !.orphan = TRUE].rec = task[g].rec
                           /\ [task[g] EXCEPT !.orphan = TRUE].pc = task[g].pc
    BY <1>0 DEF Tasks
  <2> QED BY <1>0, <2>1, IdleIs DEF Unlink, Writes
<1>5. CASE RecoverRename(h)
  <2>1. file' \in Seq(Lines) /\ torn' \in BOOLEAN /\ acked' \subseteq acked
    BY <1>0, <1>5, ReplaceTypes DEF RecoverRename
  <2> QED BY <1>1, <1>4, <1>5, <2>1 DEF RecoverRename
<1>6. CASE RecoverError(h)
  <2>1. CASE task' = [task EXCEPT ![h] = Idle] /\ UNCHANGED <<disk, acked>>
    <3>1. task' \in [Handles -> Tasks] /\ \A g \in Handles : Writes(task'[g]) => task'[g] = task[g]
      BY <1>0, <2>1, IdleIs DEF Writes
    <3> QED BY <1>1, <1>6, <2>1, <3>1 DEF RecoverError
  <2>2. CASE /\ Replace(task[h].kept, task[h].dropped)
             /\ task' = Unlink(h)
             /\ stale' = stale \cup {file}
             /\ UNCHANGED exists
    <3>1. file' \in Seq(Lines) /\ torn' \in BOOLEAN /\ acked' \subseteq acked
      BY <1>0, <2>2, ReplaceTypes
    <3> QED BY <1>0, <1>1, <1>4, <1>6, <2>2, <3>1 DEF RecoverError
  <2> QED BY <1>6, <2>1, <2>2 DEF RecoverError
<1> QED BY <1>2, <1>3, <1>5, <1>6

LEMMA ProcessTypes ==
    ASSUME TypeInv, Crash \/ Restart \/ ReloadAway \/ \E h \in Handles : ReloadBack(h)
    PROVE  TypeInv'
<1> USE DEF TypeInv, TypeOK, disk, conf, life
<1>0. file \in Seq(Lines) /\ Len(file) \in Nat /\ env \in Environment
  OBVIOUS
<1>1. env' \in Environment
  BY <1>0, EnvKept DEF Crash, Restart, ReloadAway, ReloadBack
<1>2. CASE Crash
  <2>1. \A cut \in 0..Len(file) : SubSeq(file, 1, cut) \in Seq(Lines)
    BY <1>0, PrefixIs
  <2>2. /\ file' \in Seq(Lines) /\ torn' \in BOOLEAN /\ exists' \in BOOLEAN
        /\ stale' \subseteq Seq(Lines)
    BY <1>2, <2>1 DEF Crash
  <2>3. crashes' \in 0..MaxCrashes
    BY <1>2, FileAssumption DEF Crash
  <2>4. task' \in [Handles -> Tasks] /\ \A h \in Handles : ~Writes(task'[h])
    BY <1>2, IdleIs DEF Crash, Writes
  <2> QED BY <1>1, <1>2, <2>2, <2>3, <2>4 DEF Crash
<1>3. CASE Restart
  <2>1. /\ file' \in Seq(Lines) /\ torn' \in BOOLEAN /\ acked' \subseteq acked
        /\ stale' \subseteq Seq(Lines) /\ exists' = exists
    <3>1. CASE /\ exists /\ Readable
               /\ Replace(Survivors(file), FileRecords \ ToSet(Survivors(file)))
               /\ stale' = {} /\ UNCHANGED exists
      BY <1>0, <3>1, ReadableIs, ReplaceTypes
    <3>2. CASE UNCHANGED <<disk, acked>>
      BY <3>2
    <3> QED BY <1>3, <3>1, <3>2 DEF Restart
  <2>2. handle' \in Handles \cup {NoHandle} /\ used' \subseteq Handles
    BY <1>3 DEF Restart
  <2> QED BY <1>1, <1>3, <2>1, <2>2 DEF Restart
<1>4. CASE ReloadAway \/ \E h \in Handles : ReloadBack(h)
  BY <1>1, <1>4 DEF ReloadAway, ReloadBack
<1> QED BY <1>2, <1>3, <1>4

LEMMA TypeStep == ASSUME TypeInv, [Next]_vars PROVE TypeInv'
<1>1. CASE UNCHANGED vars
  BY <1>1 DEF vars, disk, conf, life, TypeInv, TypeOK
<1> QED BY <1>1, AppendTypes, RecoverTypes, ProcessTypes DEF Next

LEMMA TypeStart == ASSUME Init PROVE TypeInv
<1>1. env \in Environment /\ crashes \in 0..MaxCrashes
  BY FileAssumption DEF Init
<1>2. handle \in Handles \cup {NoHandle} /\ used \subseteq Handles
  BY DEF Init
<1>3. task \in [Handles -> Tasks] /\ \A h \in Handles : ~Writes(task[h])
  BY IdleIs DEF Init, Writes
<1>4. file \in Seq(Lines) /\ stale \subseteq Seq(Lines) /\ appends \in [Handles -> Nat]
  BY NothingIs DEF Init
<1> QED BY <1>1, <1>2, <1>3, <1>4 DEF Init, TypeInv, TypeOK

\* The variables of the file keep their types, whatever the disk does and
\* however many log values stand over the path.
THEOREM FileTypeCorrect == Spec => []TypeOK
<1>1. Init => TypeInv
  BY TypeStart
<1>2. TypeInv => TypeOK
  BY DEF TypeInv
<1> QED BY <1>1, <1>2, TypeStep, PTL DEF Spec

\* An overlap is not forgotten.
LEMMA OverlapKept == ASSUME overlapped \in BOOLEAN, [Next]_vars, ~overlapped' PROVE ~overlapped
BY DEF Next, vars, AppendOpen, AppendWrite, AppendError, AppendRollback, AppendRollbackFails,
       AppendSync, AppendDirError, RecoverRead, RecoverNothing, RecoverRename, RecoverError,
       ReloadBack, ReloadAway, Crash, Restart, Overlaps

\* NeverSilent, for any number of keys, errors, crashes, log values and reloads,
\* any threshold, and any disk that keeps the directory entries it fsync'd: however
\* roll-backs and recoveries fail, an acknowledged record is in the file or recovery
\* refuses, until calls of two log values overlap.
THEOREM NeverSilentHolds ==
    ASSUME DirectoriesKept PROVE Spec => []NeverSilent
<1> DEFINE Inv == TypeInv /\ (~overlapped => FileInv)
<1>1. Init => Inv
  BY FileStart, TypeStart
<1>2. Inv /\ [Next]_vars => Inv'
  <2> SUFFICES ASSUME Inv, [Next]_vars PROVE Inv'
    OBVIOUS
  <2>1. ~overlapped' => FileInv'
    BY OverlapKept, FileStep DEF TypeInv, TypeOK
  <2> QED BY <2>1, TypeStep
<1>3. Inv => NeverSilent
  BY DamagedIs DEF FileInv, DiskInv, Holds, NeverSilent, FileRecords, TypeInv, TypeOK
<1> QED BY <1>1, <1>2, <1>3, PTL DEF Spec

-----------------------------------------------------------------------------
(* The file implements DurableLog.                                         *)

\* A disk whose roll-backs and recoveries work is not left and come back to: the
\* recovery that initialize() runs is the only one between a crash and an append.
PathKept == \A e \in Environments :
                ~e.rollbackMayFail /\ ~e.recoverMayFail /\ ~e.dirMayRevert => ~e.mayReload

\* On such a disk every line parses, and half a line is there only after a crash
\* and while the append that wrote it is about to roll back.
Intact ==
    /\ ~env.mayReload
    /\ Readable
    /\ torn => ~up \/ \E h \in Handles : task[h].pc = "failed"
    /\ \A h \in Handles : Writes(task[h]) => task[h].wasTorn = FALSE

LogInv == UseInv /\ (~overlapped => FileInv) /\ (Sound => Intact)

\* The steps of DurableLog, on the records of the file.
LogStep ==
    \/ FileRecords' = FileRecords /\ acked' = acked
    \/ \E r \in Records :
          \/ FileRecords' = FileRecords \cup {r} /\ acked' = acked
          \/ r \in FileRecords /\ acked' = acked \cup {r} /\ FileRecords' = FileRecords
          \/ r \in FileRecords \ acked /\ FileRecords' = FileRecords \ {r} /\ acked' = acked
    \/ IsCompactionOf(FileRecords', FileRecords) /\ acked' = acked \cap FileRecords'

\* A step of a working disk is a step of the log and leaves the disk intact.
Implements == Intact' /\ LogStep

LEMMA NotTorn ==
    ASSUME FileInv, Intact, NEW h \in Handles, Lone(h), up = TRUE, task[h].pc # "failed"
    PROVE  torn = FALSE
BY DEF Lone, FileInv, DiskInv, Intact

LEMMA IntactFollows ==
    ASSUME NEW h \in Handles, Lone(h), \A g \in Handles : g # h => task'[g] = task[g],
           env'.mayReload = FALSE, Damaged \notin ToSet(file'),
           torn' = FALSE \/ up' = FALSE \/ task'[h].pc = "failed",
           Writes(task'[h]) => task'[h].wasTorn = FALSE
    PROVE  Intact'
<1>1. \A g \in Handles : g # h => task'[g].pc = "idle"
  BY DEF Lone
<1>2. \A g \in Handles : Writes(task'[g]) => task'[g].wasTorn = FALSE
  BY <1>1 DEF Writes
<1>3. Readable'
  BY DEF Readable
<1> QED BY <1>2, <1>3 DEF Intact, Writes

LEMMA EnvOf ==
    ASSUME FileInv, Intact, UNCHANGED env \/ Fault PROVE env'.mayReload = FALSE
<1>1. env \in Environment /\ env.mayReload = FALSE
  BY DEF FileInv, BookInv, Intact, Environment
<1> QED BY <1>1, EnvKept

LEMMA IntactRecords == Readable => FileRecords = ToSet(file)
BY DEF Readable, FileRecords

LEMMA IntactRecordsNext == Damaged \notin ToSet(file') => FileRecords' = ToSet(file')
BY DEF FileRecords

LEMMA AppendOpenImplements ==
    ASSUME FileInv, Intact, NEW h \in Handles, Lone(h), NEW r \in Records, AppendOpen(h, r)
    PROVE  Implements
<1>1. /\ up = TRUE /\ task[h].pc = "idle" /\ DOMAIN task = Handles
      /\ UNCHANGED <<file, torn, acked, env>>
      /\ task' = [task EXCEPT ![h] =
                    [Idle EXCEPT !.pc = "open", !.rec = r, !.before = Len(file),
                                 !.wasTorn = torn, !.creating = ~exists]]
  BY DEF AppendOpen, FileInv, BookInv
<1>2. torn = FALSE
  BY <1>1, NotTorn
<1>3. task'[h].wasTorn = FALSE
  BY <1>1, <1>2 DEF Idle
<1>4. Damaged \notin ToSet(file')
  BY <1>1 DEF Intact, Readable
<1>5. Intact'
  BY <1>1, <1>2, <1>3, <1>4, EnvOf, IntactFollows
<1>6. LogStep
  BY <1>1 DEF LogStep, FileRecords
<1> QED BY <1>5, <1>6 DEF Implements

LEMMA AppendWriteImplements ==
    ASSUME FileInv, Intact, NEW h \in Handles, Lone(h), AppendWrite(h)
    PROVE  Implements
<1>1. DiskInv /\ BookInv /\ DOMAIN task = Handles /\ TaskInv(task[h])
  BY DEF FileInv
<1> DEFINE t == task[h]
<1>2. /\ t.pc = "open" /\ t.orphan = FALSE /\ WriteInv(t) /\ t \in Tasks /\ up = TRUE
  BY <1>1 DEF AppendWrite, TaskInv, Writes, BookInv, Tasks
<1>3. torn = FALSE
  BY <1>2, NotTorn
<1>4. /\ task' = [task EXCEPT ![h].pc = "written"] /\ file' = Append(file, t.rec) /\ torn' = FALSE
      /\ UNCHANGED <<acked, env>>
  BY <1>2, <1>3 DEF AppendWrite
<1>5. t.rec \in Records /\ t.rec # Damaged /\ t.rec \in Lines /\ file \in Seq(Lines)
  BY <1>1, <1>2, DamagedIs DEF WriteInv, DiskInv
<1>6. ToSet(file') = ToSet(file) \cup {t.rec}
  BY <1>4, <1>5, AppendIs
<1>7. Damaged \notin ToSet(file')
  BY <1>5, <1>6 DEF Intact, Readable
<1>8. task'[h].wasTorn = FALSE
  BY <1>1, <1>2, <1>4 DEF Intact, Writes
<1>9. Intact'
  <2>1. \A g \in Handles : g # h => task'[g] = task[g]
    BY <1>1, <1>4
  <2> QED BY <1>4, <1>7, <1>8, <2>1, EnvOf, IntactFollows
<1>10. FileRecords' = FileRecords \cup {t.rec}
  BY <1>6, <1>7, IntactRecords, IntactRecordsNext DEF Intact
<1> QED BY <1>4, <1>5, <1>9, <1>10 DEF Implements, LogStep

LEMMA AppendErrorImplements ==
    ASSUME FileInv, Intact, NEW h \in Handles, Lone(h), AppendError(h)
    PROVE  Implements
<1>1. /\ DOMAIN task = Handles /\ task[h] \in Tasks
      /\ task[h].pc \in {"open", "written"}
      /\ task' = [task EXCEPT ![h].pc = "failed"] /\ Fault /\ UNCHANGED <<file, acked>>
  BY DEF AppendError, FileInv, TaskInv
<1>2. task'[h].pc = "failed" /\ task'[h].wasTorn = FALSE
  BY <1>1 DEF Intact, Writes, Tasks
<1>3. Damaged \notin ToSet(file')
  BY <1>1 DEF Intact, Readable
<1>4. Intact'
  BY <1>1, <1>2, <1>3, EnvOf, IntactFollows
<1>5. LogStep
  BY <1>1 DEF LogStep, FileRecords
<1> QED BY <1>4, <1>5 DEF Implements

\* The file cut back to what an append found loses that append's record or none.
LEMMA CutWithdraws ==
    ASSUME FileInv, Intact, NEW h \in Handles, Writes(task[h]),
           file' = SubSeq(file, 1, task[h].before), acked' = acked
    PROVE  Damaged \notin ToSet(file') /\ LogStep
<1> DEFINE t == task[h]
<1>1. DiskInv /\ t \in Tasks /\ WriteInv(t) /\ t.wasTorn = FALSE /\ Readable
  BY DEF FileInv, TaskInv, Intact
<1>2. /\ ToSet(file') \subseteq ToSet(file)
      /\ file' = file \/ ToSet(file) = ToSet(file') \cup {t.rec}
  BY <1>1, WrittenIs
<1>3. t.rec \notin ToSet(file') /\ t.rec \notin acked /\ t.rec \in Records
  BY <1>1 DEF WriteInv, DiskInv
<1>4. Damaged \notin ToSet(file')
  BY <1>1, <1>2 DEF Readable
<1>5. FileRecords = ToSet(file) /\ FileRecords' = ToSet(file')
  BY <1>1, <1>4, IntactRecords, IntactRecordsNext
<1>6. CASE file' = file
  <2>1. FileRecords' = FileRecords
    BY <1>5, <1>6
  <2> QED BY <1>4, <2>1 DEF LogStep
<1>7. CASE ToSet(file) = ToSet(file') \cup {t.rec}
  <2>1. FileRecords' = FileRecords \ {t.rec} /\ t.rec \in FileRecords \ acked
    BY <1>3, <1>5, <1>7
  <2> QED BY <1>3, <1>4, <2>1 DEF LogStep
<1> QED BY <1>2, <1>4, <1>6, <1>7

LEMMA AppendRollbackImplements ==
    ASSUME FileInv, Intact, NEW h \in Handles, Lone(h), AppendRollback(h)
    PROVE  Implements
<1> DEFINE t == task[h]
<1>1. /\ DOMAIN task = Handles /\ t.orphan = FALSE /\ Writes(t) /\ t.wasTorn = FALSE
      /\ t.before <= Len(file)
  BY DEF AppendRollback, FileInv, TaskInv, WriteInv, Tasks, Intact, Writes
<1>2. /\ task' = [task EXCEPT ![h] = Idle] /\ file' = SubSeq(file, 1, t.before)
      /\ torn' = FALSE /\ UNCHANGED <<acked, env>>
  BY <1>1 DEF AppendRollback
<1>3. Damaged \notin ToSet(file') /\ LogStep
  BY <1>1, <1>2, CutWithdraws
<1>4. task'[h] = Idle /\ ~Writes(Idle)
  BY <1>1, <1>2, IdleIs DEF Writes
<1>5. Intact'
  <2>1. \A g \in Handles : g # h => task'[g] = task[g]
    BY <1>1, <1>2
  <2> QED BY <1>2, <1>3, <1>4, <2>1, EnvOf, IntactFollows
<1> QED BY <1>3, <1>5 DEF Implements

LEMMA AppendSyncImplements ==
    ASSUME FileInv, Intact, NEW h \in Handles, Lone(h), AppendSync(h)
    PROVE  Implements
<1> DEFINE t == task[h]
<1>1. /\ DOMAIN task = Handles /\ DiskInv /\ t.pc = "written" /\ up = TRUE /\ t \in Tasks
      /\ WriteInv(t) /\ t.wasTorn = FALSE
  BY DEF AppendSync, FileInv, BookInv, TaskInv, Intact, Writes
<1>2. /\ task' = [task EXCEPT ![h] = Idle] /\ acked' = acked \cup {t.rec}
      /\ UNCHANGED <<file, torn, env>>
  BY DEF AppendSync
<1>3. torn' = FALSE
  BY <1>1, <1>2, NotTorn
<1>4. Damaged \notin ToSet(file')
  BY <1>2 DEF Intact, Readable
<1>5. task'[h] = Idle /\ ~Writes(Idle)
  BY <1>1, <1>2, IdleIs DEF Writes
<1>6. Intact'
  <2>1. \A g \in Handles : g # h => task'[g] = task[g]
    BY <1>1, <1>2
  <2> QED BY <1>2, <1>3, <1>4, <1>5, <2>1, EnvOf, IntactFollows
<1>7. t.rec \in FileRecords /\ t.rec \in Records
  <2>1. ToSet(file) = ToSet(SubSeq(file, 1, t.before)) \cup {t.rec}
    BY <1>1, WrittenIs
  <2> QED BY <1>1, <2>1, IntactRecords DEF Intact, WriteInv, DiskInv
<1>8. FileRecords' = FileRecords
  BY <1>2 DEF FileRecords
<1> QED BY <1>2, <1>6, <1>7, <1>8 DEF Implements, LogStep

\* The survivors of a compaction are one of the log's.
LEMMA ReplaceCompacts ==
    ASSUME FileInv, Intact, Replace(Survivors(file), FileRecords \ ToSet(Survivors(file)))
    PROVE  Damaged \notin ToSet(file') /\ torn' = FALSE /\ LogStep
<1>1. DiskInv /\ Readable
  BY DEF FileInv, Intact
<1>2. /\ file' = Survivors(file) /\ torn' = FALSE
      /\ acked' = acked \ (FileRecords \ ToSet(Survivors(file)))
  BY DEF Replace
<1>3. /\ ToSet(file') \subseteq ToSet(file) /\ FileRecords = ToSet(file)
      /\ IsCompactionOf(ToSet(file'), ToSet(file)) /\ acked \subseteq ToSet(file)
  BY <1>1, <1>2, Compacts
<1>4. Damaged \notin ToSet(file')
  BY <1>1, <1>3 DEF Readable
<1>5. FileRecords' = ToSet(file')
  BY <1>4, IntactRecordsNext
<1>6. acked' = acked \cap FileRecords' /\ IsCompactionOf(FileRecords', FileRecords)
  BY <1>2, <1>3, <1>5
<1> QED BY <1>2, <1>4, <1>6 DEF LogStep

LEMMA RecoverReadImplements ==
    ASSUME FileInv, Intact, NEW h \in Handles, Lone(h), RecoverRead(h)
    PROVE  Implements
<1>1. /\ up = TRUE /\ task[h].pc = "idle" /\ DOMAIN task = Handles
      /\ UNCHANGED <<file, torn, acked, env>>
      /\ task' = [task EXCEPT ![h] =
           [Idle EXCEPT !.pc = "read", !.kept = Survivors(file),
                        !.dropped = FileRecords \ ToSet(Survivors(file))]]
  BY DEF RecoverRead, FileInv, BookInv, disk
<1>2. torn = FALSE
  BY <1>1, NotTorn
<1>3. task'[h].pc = "read"
  BY <1>1 DEF Idle
<1>4. Damaged \notin ToSet(file')
  BY <1>1 DEF Intact, Readable
<1>5. ~Writes(task'[h])
  BY <1>3 DEF Writes
<1>6. Intact'
  BY <1>1, <1>2, <1>4, <1>5, EnvOf, IntactFollows
<1>7. LogStep
  BY <1>1 DEF LogStep, FileRecords
<1> QED BY <1>6, <1>7 DEF Implements

\* A task ends without having touched the file.
LEMMA TaskEndsImplements ==
    ASSUME FileInv, Intact, NEW h \in Handles, Lone(h), up = TRUE, task[h].pc # "failed",
           task' = [task EXCEPT ![h] = Idle], UNCHANGED <<file, torn, acked>>, Fault
    PROVE  Implements
<1>1. DOMAIN task = Handles
  BY DEF FileInv
<1>2. task'[h] = Idle /\ ~Writes(Idle)
  BY <1>1, IdleIs DEF Writes
<1>3. torn' = FALSE
  BY NotTorn
<1>4. Damaged \notin ToSet(file')
  BY DEF Intact, Readable
<1>5. Intact'
  <2>1. \A g \in Handles : g # h => task'[g] = task[g]
    BY <1>1
  <2> QED BY <1>2, <1>3, <1>4, <2>1, EnvOf, IntactFollows
<1>6. LogStep
  BY DEF LogStep, FileRecords
<1> QED BY <1>5, <1>6 DEF Implements

LEMMA RenameImplements ==
    ASSUME FileInv, Intact, NEW h \in Handles, Lone(h), task[h].pc = "read",
           Replace(task[h].kept, task[h].dropped), task' = Unlink(h), UNCHANGED env \/ Fault
    PROVE  Implements
<1>1. DOMAIN task = Handles /\ ReadInv(task[h])
  BY DEF FileInv, TaskInv
<1>2. Replace(Survivors(file), FileRecords \ ToSet(Survivors(file)))
  BY <1>1 DEF ReadInv
<1>3. Damaged \notin ToSet(file') /\ torn' = FALSE /\ LogStep
  BY <1>2, ReplaceCompacts
<1>4. task'[h] = Idle /\ ~Writes(Idle)
  BY <1>1, UnlinkEnds, IdleIs DEF Writes
<1>5. Intact'
  <2>1. \A g \in Handles : g # h => task'[g] = task[g]
    BY <1>1, UnlinkEnds
  <2> QED BY <1>3, <1>4, <2>1, EnvOf, IntactFollows
<1> QED BY <1>3, <1>5 DEF Implements

LEMMA RecoverErrorImplements ==
    ASSUME FileInv, Intact, NEW h \in Handles, Lone(h), RecoverError(h)
    PROVE  Implements
<1>1. task[h].pc = "read" /\ up = TRUE /\ Fault
  BY DEF RecoverError, FileInv, BookInv, TaskInv
<1>2. CASE task' = [task EXCEPT ![h] = Idle] /\ UNCHANGED <<disk, acked>>
  BY <1>1, <1>2, TaskEndsImplements DEF disk
<1>3. CASE Replace(task[h].kept, task[h].dropped) /\ task' = Unlink(h)
  BY <1>1, <1>3, RenameImplements
<1> QED BY <1>2, <1>3 DEF RecoverError

LEMMA CrashImplements ==
    ASSUME FileInv, Intact, Crash
    PROVE  Implements
<1>1. up' = FALSE /\ task' = [h \in Handles |-> Idle] /\ acked' = acked /\ UNCHANGED env
  BY DEF Crash
<1>2. Damaged \notin ToSet(file') /\ LogStep
  <2>1. CASE Spared
    <3>1. file' = file /\ FileRecords' = FileRecords
      BY <2>1 DEF Spared, FileRecords
    <3> QED BY <1>1, <3>1 DEF Intact, Readable, LogStep
  <2>2. ASSUME NEW h \in Writing, CutBack(h) PROVE Damaged \notin ToSet(file') /\ LogStep
    <3>1. h \in Handles /\ Writes(task[h]) /\ file' = SubSeq(file, 1, task[h].before)
      BY <2>2 DEF Writing, Writes, CutBack
    <3> QED BY <1>1, <3>1, CutWithdraws
  <2> QED BY <2>1, <2>2, CrashCuts
<1>3. \A h \in Handles : ~Writes(task'[h])
  BY <1>1, IdleIs DEF Writes
<1>4. Readable'
  BY <1>2 DEF Readable
<1>5. Intact'
  BY <1>1, <1>3, <1>4, EnvOf DEF Intact, Writes
<1> QED BY <1>2, <1>5 DEF Implements

LEMMA RestartImplements ==
    ASSUME FileInv, Sound, Intact, Restart
    PROVE  Implements
<1>1. up' = TRUE /\ UNCHANGED task /\ \A h \in Handles : ~Writes(task[h])
  BY DEF Restart, FileInv, TaskInv, Writes
<1>2. /\ UNCHANGED env
      /\ \/ Replace(Survivors(file), FileRecords \ ToSet(Survivors(file)))
         \/ ~exists /\ UNCHANGED <<disk, acked>>
  BY DEF Restart, Sound, Intact
<1>3. Damaged \notin ToSet(file') /\ torn' = FALSE /\ LogStep
  <2>1. CASE Replace(Survivors(file), FileRecords \ ToSet(Survivors(file)))
    BY <2>1, ReplaceCompacts
  <2>2. CASE ~exists /\ UNCHANGED <<disk, acked>>
    <3>1. torn' = FALSE /\ file' = file /\ acked' = acked
      BY <2>2 DEF FileInv, DiskInv, disk
    <3>2. FileRecords' = FileRecords
      BY <3>1 DEF FileRecords
    <3> QED BY <3>1, <3>2 DEF LogStep, Intact, Readable
  <2> QED BY <1>2, <2>1, <2>2
<1>4. Readable'
  BY <1>3 DEF Readable
<1>5. Intact'
  BY <1>1, <1>2, <1>3, <1>4 DEF Intact, Writes
<1> QED BY <1>3, <1>5 DEF Implements

LEMMA IdleImplements ==
    ASSUME Intact, UNCHANGED <<file, torn, task, up, acked, env>> PROVE Implements
<1>1. LogStep
  BY DEF LogStep, FileRecords
<1>2. Intact'
  BY DEF Intact, Readable, Writes
<1> QED BY <1>1, <1>2 DEF Implements

LEMMA SoundStep ==
    ASSUME FileInv, Sound, Intact, [Next]_vars, ~overlapped' PROVE Implements
<1>1. CASE UNCHANGED vars
  BY <1>1, IdleImplements DEF vars, disk, life
<1>2. CASE Crash BY <1>2, CrashImplements
<1>3. CASE Restart BY <1>3, RestartImplements
<1>4. CASE ReloadAway BY <1>4 DEF ReloadAway, Intact
<1>5. ASSUME NEW h \in Handles,
             \/ \E r \in Records : AppendOpen(h, r)
             \/ AppendWrite(h) \/ AppendError(h) \/ AppendRollback(h)
             \/ AppendRollbackFails(h) \/ AppendSync(h) \/ AppendDirError(h)
             \/ RecoverRead(h) \/ RecoverNothing(h) \/ RecoverRename(h)
             \/ RecoverError(h) \/ ReloadBack(h)
      PROVE  Implements
  <2>0. /\ \A r \in Records : AppendOpen(h, r) => Lone(h)
        /\ RecoverRead(h) \/ task[h].pc # "idle" => Lone(h)
    BY AloneSince
  <2>1. ASSUME NEW r \in Records, AppendOpen(h, r) PROVE Implements
    BY <2>0, <2>1, AppendOpenImplements
  <2>2. CASE AppendWrite(h) BY <2>0, <2>2, AppendWriteImplements DEF AppendWrite
  <2>3. CASE AppendError(h) BY <2>0, <2>3, AppendErrorImplements DEF AppendError
  <2>4. CASE AppendRollback(h) BY <2>0, <2>4, AppendRollbackImplements DEF AppendRollback
  <2>5. CASE AppendRollbackFails(h) BY <2>5 DEF AppendRollbackFails, Sound
  <2>6. CASE AppendSync(h) BY <2>0, <2>6, AppendSyncImplements DEF AppendSync
  <2>7. CASE AppendDirError(h)
    <3>1. /\ task[h].pc = "written" /\ up = TRUE /\ Fault /\ UNCHANGED <<file, torn, acked>>
          /\ task' = [task EXCEPT ![h] = Idle]
      BY <2>7 DEF AppendDirError, FileInv, TaskInv, BookInv, disk
    <3> QED BY <2>0, <3>1, TaskEndsImplements
  <2>8. CASE RecoverRead(h) BY <2>0, <2>8, RecoverReadImplements
  <2>9. CASE RecoverNothing(h) BY <2>9, IdleImplements DEF RecoverNothing, disk, life
  <2>10. CASE RecoverRename(h) BY <2>0, <2>10, RenameImplements DEF RecoverRename
  <2>11. CASE RecoverError(h) BY <2>0, <2>11, RecoverErrorImplements DEF RecoverError
  <2>12. CASE ReloadBack(h) BY <2>12 DEF ReloadBack, Intact
  <2> QED BY <1>5, <2>1, <2>2, <2>3, <2>4, <2>5, <2>6, <2>7, <2>8, <2>9, <2>10, <2>11, <2>12
<1> QED BY <1>1, <1>2, <1>3, <1>4, <1>5 DEF Next

\* What may go wrong on this disk is settled when it is chosen.
LEMMA SoundSettled ==
    ASSUME env \in Environment, [Next]_vars PROVE Sound' = Sound
BY EnvSteps, EnvKept DEF Sound

\* A process that stays on the path has one log value, so nothing overlaps.
LEMMA UseStep == ASSUME UseInv, [Next]_vars PROVE UseInv'
<1> USE DEF UseInv, life, conf
<1>1. env' \in Environment /\ env'.mayReload = env.mayReload
  BY EnvSteps, EnvKept
<1>2. CASE UNCHANGED vars
  BY <1>2 DEF vars
<1>3. CASE Crash
  BY <1>1, <1>3, IdleIs DEF Crash
<1>4. CASE Restart
  BY <1>1, <1>4 DEF Restart
<1>5. CASE ReloadAway
  BY <1>1, <1>5 DEF ReloadAway
<1>6. ASSUME NEW h \in Handles, ReloadBack(h) PROVE UseInv'
  BY <1>1, <1>6 DEF ReloadBack
<1>7. ASSUME NEW h \in Handles,
             (\E r \in Records : AppendOpen(h, r)) \/ RecoverRead(h)
      PROVE  UseInv'
  <2>1. /\ up = TRUE /\ h \in used /\ UNCHANGED <<conf, life>> /\ DOMAIN task' = Handles
        /\ \A g \in Handles : g # h => task'[g] = task[g]
        /\ Overlaps(h)
    BY <1>7 DEF AppendOpen, RecoverRead
  <2>2. ~env.mayReload => ~overlapped'
    BY <2>1 DEF Overlaps
  <2> QED BY <1>1, <2>1, <2>2 DEF Overlaps
<1>8. ASSUME NEW h \in Handles,
             \/ AppendWrite(h) \/ AppendError(h) \/ AppendRollback(h)
             \/ AppendRollbackFails(h) \/ AppendSync(h) \/ AppendDirError(h)
             \/ RecoverNothing(h) \/ RecoverRename(h) \/ RecoverError(h)
      PROVE  UseInv'
  <2>1. UNCHANGED <<conf, life, overlapped>>
    BY <1>8 DEF AppendWrite, AppendError, AppendRollback, AppendRollbackFails, AppendSync,
                AppendDirError, RecoverNothing, RecoverRename, RecoverError
  <2>2. DOMAIN task' = Handles /\ \A g \in Handles : task'[g].pc # "idle" => task[g].pc # "idle"
    <3>1. CASE task' = [task EXCEPT ![h] = Idle] \/ UNCHANGED task
      BY <3>1, IdleIs
    <3>2. CASE task' = Unlink(h)
      <4>1. \A g \in Handles : g # h /\ task'[g] # task[g] => task[g].pc # "idle"
        BY <3>2 DEF Unlink
      <4> QED BY <3>2, <4>1, IdleIs DEF Unlink
    <3>3. CASE AppendWrite(h) \/ AppendError(h)
      <4>1. task[h].pc # "idle" /\ DOMAIN task' = Handles
            /\ \A g \in Handles : g # h => task'[g] = task[g]
        BY <3>3 DEF AppendWrite, AppendError
      <4> QED BY <4>1
    <3> QED BY <1>8, <3>1, <3>2, <3>3 DEF AppendRollback, AppendRollbackFails, AppendSync,
                AppendDirError, RecoverNothing, RecoverRename, RecoverError
  <2> QED BY <1>1, <2>1, <2>2
<1> QED BY <1>2, <1>3, <1>4, <1>5, <1>6, <1>7, <1>8 DEF Next

LEMMA LogStart == ASSUME DirectoriesKept, PathKept, Init PROVE LogInv /\ Log!Init
<1>1. FileInv
  BY FileStart
<1>2. Sound => Intact
  BY NothingIs, IdleIs DEF Init, Sound, Intact, PathKept, Readable, Writes
<1>3. FileRecords = {} /\ acked = {}
  BY NothingIs DEF Init, FileRecords
<1>4. UseInv
  BY IdleIs, FileAssumption DEF Init, UseInv
<1> QED BY <1>1, <1>2, <1>3, <1>4 DEF LogInv, Log!Init

LEMMA LogFollows == ASSUME LogInv, [Next]_vars PROVE LogInv' /\ [Log!Next]_Log!vars
<1>1. UseInv' /\ Sound' = Sound /\ (~overlapped' => FileInv')
  BY UseStep, FileStep, OverlapKept, SoundSettled DEF LogInv, UseInv
<1>2. CASE Sound
  <2>0. ~overlapped /\ ~overlapped'
    <3>1. env' \in Environment /\ env'.mayReload = env.mayReload
      BY EnvSteps, EnvKept DEF LogInv, UseInv
    <3> QED BY <1>1, <1>2, <3>1 DEF LogInv, UseInv, Intact
  <2>1. Intact' /\ LogStep
    BY <1>2, <2>0, SoundStep DEF LogInv, Implements
  <2>2. [Log!Next]_Log!vars
    <3>1. Log!Records = Records /\ \A a, b : Log!IsCompactionOf(a, b) <=> IsCompactionOf(a, b)
      BY DEF Records, States, Log!Records, Log!States, IsCompactionOf, KeysOf, Unresolved,
             Resolved, Terminal, Log!IsCompactionOf, Log!KeysOf, Log!Unresolved, Log!Resolved,
             Log!Terminal
    <3>2. /\ (IF Sound THEN FileRecords ELSE {}) = FileRecords /\ (IF Sound THEN acked ELSE {}) = acked
          /\ (IF Sound THEN FileRecords ELSE {})' = FileRecords'
          /\ (IF Sound THEN acked ELSE {})' = acked'
      BY <1>1, <1>2
    <3> QED BY <2>1, <3>1, <3>2 DEF LogStep, Log!Next, Log!vars, Log!Persist, Log!Acknowledge,
                                    Log!Withdraw, Log!Compact
  <2> QED BY <1>1, <2>1, <2>2 DEF LogInv
<1>3. CASE ~Sound
  BY <1>1, <1>3 DEF LogInv, Log!vars
<1> QED BY <1>2, <1>3

\* ImplementsLog, for any number of keys, errors and crashes and any threshold:
\* through write errors, failed compactions and crashes a file on a working disk
\* is the log the effect protocol is written against.
THEOREM ImplementsLogHolds ==
    ASSUME DirectoriesKept, PathKept PROVE Spec => ImplementsLog
BY LogStart, LogFollows, PTL DEF Spec, ImplementsLog, Log!Spec

=============================================================================
