------------------------ MODULE EffectProtocol_proofs ------------------------
(***************************************************************************)
(* Proofs about EffectProtocol, for every set of keys and sweepers and     *)
(* every number of crashes: type correctness, and that the write-ahead     *)
(* protocol accounts for every act that landed and gives it one, true      *)
(* answer; about Elicitation, with either store: an approval is genuine,   *)
(* and the channel implements the abstract one; and about the two side by  *)
(* side, as the run that checks what must eventually happen has them.      *)
(***************************************************************************)
EXTENDS MCLive, TLAPS

----------------------------------------------------------------------------
(* The log as recovery reads it.                                           *)

\* Compaction drops the resolved keys and keeps every other key.
LEMMA CompactFacts ==
    ASSUME NEW log \in SUBSET Records
    PROVE  /\ Compact(log) \subseteq log
           /\ KeysOf(Compact(log)) = Unresolved(log)
           /\ Resolved(Compact(log)) = {}
           /\ Unresolved(Compact(log)) = Unresolved(log)
<1>1. Compact(log) \subseteq log
  BY DEF Compact
<1>2. KeysOf(Compact(log)) \subseteq Unresolved(log)
  BY DEF Compact, KeysOf
<1>3. ASSUME NEW k \in Unresolved(log)
      PROVE  k \in KeysOf(Compact(log))
  <2>1. PICK r \in log : r.key = k
    BY DEF Unresolved, KeysOf
  <2>2. CASE Rec(k, "Unknown") \in log
    <3>1. Rec(k, "Unknown") \in Compact(log)
      BY <2>2, <1>3 DEF Compact, Rec
    <3> QED BY <3>1 DEF KeysOf, Rec
  <2>3. CASE Rec(k, "Unknown") \notin log
    <3>1. r \in Compact(log)
      BY <2>1, <2>3, <1>3 DEF Compact
    <3> QED BY <2>1, <3>1 DEF KeysOf
  <2> QED BY <2>2, <2>3
<1>4. Resolved(Compact(log)) = {}
  BY DEF Resolved, Compact, Unresolved
<1> QED BY <1>1, <1>2, <1>3, <1>4 DEF Unresolved

\* The records N reach the log, with or without a compaction: how every key
\* looks to recovery afterwards.
LEMMA LogFacts ==
    ASSUME NEW log \in SUBSET Records, NEW N \in SUBSET Records, NEW after,
           after = log \cup N \/ after = Compact(log \cup N)
    PROVE  /\ after \subseteq Records
           /\ \A k \in Keys :
                /\ k \in KeysOf(after) => k \in KeysOf(log) \cup KeysOf(N)
                /\ k \in KeysOf(log) \cup KeysOf(N) =>
                      k \in KeysOf(after) \/ k \in Resolved(log) \cup Resolved(N)
                /\ k \in Resolved(after) => k \in Resolved(log) \cup Resolved(N)
                /\ k \in Unresolved(after) =>
                      /\ k \in KeysOf(log) \cup KeysOf(N)
                      /\ k \notin Resolved(log) \cup Resolved(N)
<1> DEFINE all == log \cup N
<1>1. all \in SUBSET Records
  OBVIOUS
<1>2. /\ KeysOf(all) = KeysOf(log) \cup KeysOf(N)
      /\ Resolved(all) = Resolved(log) \cup Resolved(N)
  BY DEF KeysOf, Resolved
<1>3. CASE after = all
  BY <1>1, <1>2, <1>3 DEF Unresolved
<1>4. CASE after = Compact(all)
  <2>1. /\ after \subseteq all
        /\ KeysOf(after) = Unresolved(all)
        /\ Resolved(after) = {}
        /\ Unresolved(after) = Unresolved(all)
    BY <1>1, <1>4, CompactFacts
  <2> HIDE DEF all
  <2>2. KeysOf(after) = KeysOf(all) \ Resolved(all)
    BY <2>1 DEF Unresolved
  <2>3. Unresolved(after) = KeysOf(all) \ Resolved(all)
    BY <2>1 DEF Unresolved
  <2> QED BY <1>1, <1>2, <2>1, <2>2, <2>3
<1> QED BY <1>3, <1>4

\* The same step with the answers the history takes from it: an answer is
\* never lost, a key accounted for stays so, and a key with an answer does
\* not become unresolved again.
LEMMA LogStep ==
    ASSUME wal \in SUBSET Records,
           NEW N \in SUBSET Records,
           wal' = wal \cup N \/ wal' = Compact(wal \cup N),
           \A k \in Keys : AnswerInv(k),
           \A k \in Keys : answers[k] \subseteq answers'[k],
           \A k \in Keys : answers'[k] # answers[k] => k \in Resolved(N),
           \A k \in Resolved(N) : answers'[k] # {},
           \A k \in KeysOf(N) : answers'[k] # {} => k \in Resolved(N)
    PROVE  /\ wal' \subseteq Records
           /\ \A k \in Keys :
                /\ Accounted(k) => Accounted(k)'
                /\ k \in KeysOf(N) => Accounted(k)'
                /\ Accounted(k)' => Accounted(k) \/ k \in KeysOf(N)
                /\ (k \in Resolved(wal) => answers[k] # {})'
                /\ (answers[k] # {} => k \notin Unresolved(wal))'
                /\ k \in Unresolved(wal)' => k \in Unresolved(wal) \/ k \in KeysOf(N)
<1>1. /\ wal' \subseteq Records
      /\ \A k \in Keys :
                /\ k \in KeysOf(wal') => k \in KeysOf(wal) \cup KeysOf(N)
                /\ k \in KeysOf(wal) \cup KeysOf(N) =>
                      k \in KeysOf(wal') \/ k \in Resolved(wal) \cup Resolved(N)
                /\ k \in Resolved(wal') => k \in Resolved(wal) \cup Resolved(N)
                /\ k \in Unresolved(wal') =>
                      /\ k \in KeysOf(wal) \cup KeysOf(N)
                      /\ k \notin Resolved(wal) \cup Resolved(N)
  BY LogFacts
<1>2. Resolved(N) \subseteq KeysOf(N)
  BY DEF Resolved, KeysOf
<1>3. \A k \in Keys : k \in Resolved(wal) => answers[k] # {}
  BY DEF AnswerInv
<1>4. \A k \in Keys : answers[k] # {} => k \notin Unresolved(wal)
  BY DEF AnswerInv
<1>5. \A k \in Keys : k \in Unresolved(wal) <=> k \in KeysOf(wal) /\ k \notin Resolved(wal)
  BY DEF Unresolved
<1> SUFFICES ASSUME NEW k \in Keys
             PROVE  /\ Accounted(k) => Accounted(k)'
                    /\ k \in KeysOf(N) => Accounted(k)'
                    /\ Accounted(k)' => Accounted(k) \/ k \in KeysOf(N)
                    /\ (k \in Resolved(wal) => answers[k] # {})'
                    /\ (answers[k] # {} => k \notin Unresolved(wal))'
                    /\ k \in Unresolved(wal)' => k \in Unresolved(wal) \/ k \in KeysOf(N)
  BY <1>1
<1>6. answers[k] # {} => answers'[k] # {}
  OBVIOUS
<1>7. (k \in Resolved(wal) => answers[k] # {})'
  BY <1>1, <1>3, <1>6
<1>8. (answers[k] # {} => k \notin Unresolved(wal))'
  BY <1>1, <1>2, <1>4, <1>5
<1>9. Accounted(k) => Accounted(k)'
  BY <1>1, <1>3, <1>6 DEF Accounted
<1>10. k \in KeysOf(N) => Accounted(k)'
  BY <1>1, <1>3, <1>6 DEF Accounted
<1>11. Accounted(k)' => Accounted(k) \/ k \in KeysOf(N)
  BY <1>1, <1>2 DEF Accounted
<1>12. k \in Unresolved(wal)' => k \in Unresolved(wal) \/ k \in KeysOf(N)
  BY <1>1, <1>5
<1> QED BY <1>7, <1>8, <1>9, <1>10, <1>11, <1>12

----------------------------------------------------------------------------
(* Type correctness.                                                       *)

\* The records the protocol writes are records.
LEMMA RecFacts ==
    ASSUME NEW k \in Keys, NEW st \in States
    PROVE  /\ Rec(k, st) \in Records
           /\ Rec(k, st).key = k
           /\ Rec(k, st).state = st
           /\ KeysOf({Rec(k, st)}) = {k}
           /\ Resolved({Rec(k, st)}) = IF st \in Terminal THEN {k} ELSE {}
BY DEF Rec, Records, KeysOf, Resolved

----------------------------------------------------------------------------
(* The invariant holds initially.                                          *)

\* The first state satisfies the invariant.
LEMMA InitInv == Init => IInv
<1> SUFFICES ASSUME Init PROVE IInv
  OBVIOUS
<1>1. KeysOf(wal) = {} /\ Resolved(wal) = {} /\ Unresolved(wal) = {}
  BY DEF Init, KeysOf, Resolved, Unresolved
<1>2. TypeOK
  BY MaxCrashesAssumption DEF Init, TypeOK, PluginPCs, SweepPCs
<1>3. ASSUME NEW k \in Keys PROVE PluginInv(k) /\ AnswerInv(k)
  BY <1>1 DEF Init, PluginInv, AnswerInv, AnsweredBy, Accounted, Holding
<1>4. ASSUME NEW s \in Sweepers PROVE SweepInv(s)
  BY DEF Init, SweepInv
<1>5. AnswersTrue
  BY DEF Init, AnswersTrue
<1> QED BY <1>2, <1>3, <1>4, <1>5 DEF IInv

----------------------------------------------------------------------------
(* Steps of an invocation that leave the log alone.                        *)

\* Opening a key writes nothing.
LEMMA BeginEffectInv ==
    ASSUME IInv, NEW j \in Keys, BeginEffect(j)
    PROVE  IInv'
<1> USE DEF BeginEffect, Goto
<1>1. TypeOK'
  BY DEF IInv, TypeOK, PluginPCs, OpenKey, CloseKey, Touch, Tell, States,
         sweep, life, flight
<1>2. UNCHANGED <<wal, answers>>
  OBVIOUS
<1>3. ASSUME NEW k \in Keys PROVE PluginInv(k)' /\ AnswerInv(k)'
  BY <1>2, <1>3 DEF IInv, TypeOK, PluginInv, AnswerInv, AnsweredBy, Accounted,
         Holding, Ended, OpenKey, CloseKey, flight
<1>4. ASSUME NEW s \in Sweepers PROVE SweepInv(s)'
  BY <1>2, <1>4 DEF IInv, TypeOK, PluginInv, SweepInv, AnsweredBy, IsBusy, Records,
         Holding, Ended, OpenKey, CloseKey, Touch, Sweeping, sweep, flight
<1>5. AnswersTrue'
  BY <1>2 DEF IInv, TypeOK, AnswersTrue, PluginInv
<1> QED BY <1>1, <1>3, <1>4, <1>5 DEF IInv

\* Handing the intent to the sinks writes nothing.
LEMMA TellIntentInv ==
    ASSUME IInv, NEW j \in Keys, TellIntent(j)
    PROVE  IInv'
<1> USE DEF TellIntent, Goto
<1>1. TypeOK'
  BY DEF IInv, TypeOK, PluginPCs, OpenKey, CloseKey, Touch, Tell, States,
         sweep, life, flight
<1>2. UNCHANGED <<wal, answers>>
  OBVIOUS
<1>3. ASSUME NEW k \in Keys PROVE PluginInv(k)' /\ AnswerInv(k)'
  BY <1>2, <1>3 DEF IInv, TypeOK, PluginInv, AnswerInv, AnsweredBy, Accounted,
         Holding, Ended, OpenKey, CloseKey, flight
<1>4. ASSUME NEW s \in Sweepers PROVE SweepInv(s)'
  BY <1>2, <1>4 DEF IInv, TypeOK, PluginInv, SweepInv, AnsweredBy, IsBusy, Records,
         Holding, Ended, OpenKey, CloseKey, Touch, Sweeping, sweep, flight
<1>5. AnswersTrue'
  BY <1>2 DEF IInv, TypeOK, AnswersTrue, PluginInv
<1> QED BY <1>1, <1>3, <1>4, <1>5 DEF IInv

\* The act lands while its intent is in the log.
LEMMA ActLandsInv ==
    ASSUME IInv, NEW j \in Keys, ActLands(j)
    PROVE  IInv'
<1> USE DEF ActLands, Goto
<1>1. TypeOK'
  BY DEF IInv, TypeOK, PluginPCs, OpenKey, CloseKey, Touch, Tell, States,
         sweep, life, flight
<1>2. UNCHANGED <<wal, answers>>
  OBVIOUS
<1>3. ASSUME NEW k \in Keys PROVE PluginInv(k)' /\ AnswerInv(k)'
  BY <1>2, <1>3 DEF IInv, TypeOK, PluginInv, AnswerInv, AnsweredBy, Accounted,
         Holding, Ended, OpenKey, CloseKey, flight
<1>4. ASSUME NEW s \in Sweepers PROVE SweepInv(s)'
  BY <1>2, <1>4 DEF IInv, TypeOK, PluginInv, SweepInv, AnsweredBy, IsBusy, Records,
         Holding, Ended, OpenKey, CloseKey, Touch, Sweeping, sweep, flight
<1>5. AnswersTrue'
  BY <1>2 DEF IInv, TypeOK, AnswersTrue, PluginInv
<1> QED BY <1>1, <1>3, <1>4, <1>5 DEF IInv

\* Only an act that landed is recorded as confirmed.
LEMMA ActReturnsInv ==
    ASSUME IInv, NEW j \in Keys, ActReturns(j)
    PROVE  IInv'
<1> USE DEF ActReturns, Goto
<1>1. TypeOK'
  BY DEF IInv, TypeOK, PluginPCs, OpenKey, CloseKey, Touch, Tell, States,
         sweep, life, flight
<1>2. UNCHANGED <<wal, answers>>
  OBVIOUS
<1>3. ASSUME NEW k \in Keys PROVE PluginInv(k)' /\ AnswerInv(k)'
  BY <1>2, <1>3 DEF IInv, TypeOK, PluginInv, AnswerInv, AnsweredBy, Accounted,
         Holding, Ended, OpenKey, CloseKey, flight
<1>4. ASSUME NEW s \in Sweepers PROVE SweepInv(s)'
  BY <1>2, <1>4 DEF IInv, TypeOK, PluginInv, SweepInv, AnsweredBy, IsBusy, Records,
         Holding, Ended, OpenKey, CloseKey, Touch, Sweeping, sweep, flight
<1>5. AnswersTrue'
  BY <1>2 DEF IInv, TypeOK, AnswersTrue, PluginInv
<1> QED BY <1>1, <1>3, <1>4, <1>5 DEF IInv

\* The key closes after its outcome is durable.
LEMMA OutcomeClosesInv ==
    ASSUME IInv, NEW j \in Keys, OutcomeCloses(j)
    PROVE  IInv'
<1> USE DEF OutcomeCloses, Goto
<1>1. TypeOK'
  BY DEF IInv, TypeOK, PluginPCs, OpenKey, CloseKey, Touch, Tell, States,
         sweep, life, flight
<1>2. UNCHANGED <<wal, answers>>
  OBVIOUS
<1>3. ASSUME NEW k \in Keys PROVE PluginInv(k)' /\ AnswerInv(k)'
  BY <1>2, <1>3 DEF IInv, TypeOK, PluginInv, AnswerInv, AnsweredBy, Accounted,
         Holding, Ended, OpenKey, CloseKey, flight
<1>4. ASSUME NEW s \in Sweepers PROVE SweepInv(s)'
  BY <1>2, <1>4 DEF IInv, TypeOK, PluginInv, SweepInv, AnsweredBy, IsBusy, Records,
         Holding, Ended, OpenKey, CloseKey, Touch, Sweeping, sweep, flight
<1>5. AnswersTrue'
  BY <1>2 DEF IInv, TypeOK, AnswersTrue, PluginInv
<1> QED BY <1>1, <1>3, <1>4, <1>5 DEF IInv

\* Handing the outcome to the sinks writes nothing.
LEMMA TellOutcomeInv ==
    ASSUME IInv, NEW j \in Keys, TellOutcome(j)
    PROVE  IInv'
<1> USE DEF TellOutcome, Goto
<1>1. TypeOK'
  BY DEF IInv, TypeOK, PluginPCs, OpenKey, CloseKey, Touch, Tell, States,
         sweep, life, flight
<1>2. UNCHANGED <<wal, answers>>
  OBVIOUS
<1>3. ASSUME NEW k \in Keys PROVE PluginInv(k)' /\ AnswerInv(k)'
  BY <1>2, <1>3 DEF IInv, TypeOK, PluginInv, AnswerInv, AnsweredBy, Accounted,
         Holding, Ended, OpenKey, CloseKey, flight
<1>4. ASSUME NEW s \in Sweepers PROVE SweepInv(s)'
  BY <1>2, <1>4 DEF IInv, TypeOK, PluginInv, SweepInv, AnsweredBy, IsBusy, Records,
         Holding, Ended, OpenKey, CloseKey, Touch, Sweeping, sweep, flight
<1>5. AnswersTrue'
  BY <1>2 DEF IInv, TypeOK, AnswersTrue, PluginInv
<1> QED BY <1>1, <1>3, <1>4, <1>5 DEF IInv

----------------------------------------------------------------------------
(* A record reaches the log: what the history becomes, in one place for    *)
(* Lands and MayLand.                                                      *)

\* A record r by `who`, whose key has no answer or an answer for which r is
\* terminal too, reaches the log or not.
LEMMA AppendStep ==
    ASSUME IInv, NEW j \in Keys, NEW st \in States, NEW who \in {"plugin", "sweep"},
           answers[j] # {} => st \in Terminal,
           \/ Lands(Rec(j, st)) /\ answers' = Answered(answers, Rec(j, st), who)
           \/ MayLand(Rec(j, st), who)
    PROVE  /\ wal' \subseteq Records
           /\ answers' \in [Keys -> SUBSET Answers]
           /\ \A k \in Keys :
                /\ Accounted(k) => Accounted(k)'
                /\ k # j => (Accounted(k)' => Accounted(k))
                /\ k # j => answers'[k] = answers[k]
                /\ answers'[k] = answers[k]
                     \/ (k = j /\ st \in Terminal /\
                         answers'[k] = answers[k] \cup {[state |-> st, by |-> who]})
                /\ (k \in Resolved(wal) => answers[k] # {})'
                /\ (answers[k] # {} => k \notin Unresolved(wal))'
           /\ Lands(Rec(j, st)) /\ answers' = Answered(answers, Rec(j, st), who)
                => Accounted(j)'
<1> DEFINE r == Rec(j, st)
<1>0. /\ r \in Records /\ r.key = j /\ r.state = st
      /\ KeysOf({r}) = {j}
      /\ Resolved({r}) = IF st \in Terminal THEN {j} ELSE {}
  BY RecFacts
<1>1. /\ wal \in SUBSET Records
      /\ answers \in [Keys -> SUBSET Answers]
      /\ \A k \in Keys : AnswerInv(k)
  BY DEF IInv, TypeOK
<1> HIDE DEF r
<1>2. ASSUME answers' = Answered(answers, r, who)
      PROVE  /\ answers' \in [Keys -> SUBSET Answers]
             /\ \A k \in Keys : k # j \/ st \notin Terminal => answers'[k] = answers[k]
             /\ st \in Terminal =>
                   answers'[j] = answers[j] \cup {[state |-> st, by |-> who]}
  BY <1>0, <1>1, <1>2 DEF Answered, Answers
<1>3. ASSUME answers' = Answered(answers, r, who),
             wal' = wal \cup {r} \/ wal' = Compact(wal \cup {r})
      PROVE  /\ wal' \subseteq Records
             /\ \A k \in Keys :
                  /\ Accounted(k) => Accounted(k)'
                  /\ k \in KeysOf({r}) => Accounted(k)'
                  /\ Accounted(k)' => Accounted(k) \/ k \in KeysOf({r})
                  /\ (k \in Resolved(wal) => answers[k] # {})'
                  /\ (answers[k] # {} => k \notin Unresolved(wal))'
                  /\ k \in Unresolved(wal)' => k \in Unresolved(wal) \/ k \in KeysOf({r})
  <2>1. \A k \in Keys : answers[k] \subseteq answers'[k]
    BY <1>2, <1>3
  <2>2. \A k \in Keys : answers'[k] # answers[k] => k \in Resolved({r})
    BY <1>0, <1>2, <1>3
  <2>3. \A k \in Resolved({r}) : answers'[k] # {}
    BY <1>0, <1>2, <1>3
  <2>4. \A k \in KeysOf({r}) : answers'[k] # {} => k \in Resolved({r})
    BY <1>0, <1>2, <1>3
  <2>5. {r} \in SUBSET Records
    BY <1>0
  <2> QED BY <1>1, <1>3, <2>1, <2>2, <2>3, <2>4, <2>5, LogStep
<1>4. Lands(r) => wal' = wal \cup {r} \/ wal' = Compact(wal \cup {r})
  BY DEF Lands
<1>5. Lands(r) /\ answers' = Answered(answers, r, who) => Accounted(j)'
  BY <1>0, <1>3, <1>4
<1>6. CASE UNCHANGED <<wal, answers>>
  BY <1>1, <1>5, <1>6 DEF AnswerInv, Accounted, r
<1>7. CASE ~ UNCHANGED <<wal, answers>>
  <2>1. /\ answers' = Answered(answers, r, who)
        /\ wal' = wal \cup {r} \/ wal' = Compact(wal \cup {r})
    BY <1>4, <1>7 DEF MayLand, r
  <2> QED BY <1>0, <1>2, <1>3, <1>5, <2>1 DEF r
<1> QED BY <1>6, <1>7

----------------------------------------------------------------------------
(* Steps of an invocation that write to the log.                           *)

\* begin_effect returns Ok: the intent is in the log.
LEMMA IntentDurableInv ==
    ASSUME IInv, NEW j \in Keys, IntentDurable(j)
    PROVE  IInv'
<1> DEFINE st == "Prepared"
<1>1. /\ st \in States /\ "plugin" \in {"plugin", "sweep"}
      /\ pc \in [Keys -> PluginPCs] /\ pc[j] = "intent"
      /\ answers[j] = {}
  BY DEF IntentDurable, Goto, IInv, TypeOK, States, PluginInv
<1>2. \/ Lands(Rec(j, st)) /\ answers' = Answered(answers, Rec(j, st), "plugin")
      \/ MayLand(Rec(j, st), "plugin")
  BY DEF IntentDurable, Answered, Rec, Terminal
<1>3. /\ wal' \subseteq Records
      /\ answers' \in [Keys -> SUBSET Answers]
      /\ \A k \in Keys :
           /\ Accounted(k) => Accounted(k)'
           /\ k # j => (Accounted(k)' => Accounted(k))
           /\ k # j => answers'[k] = answers[k]
           /\ answers'[k] = answers[k]
                \/ (k = j /\ st \in Terminal /\
                    answers'[k] = answers[k] \cup {[state |-> st, by |-> "plugin"]})
           /\ (k \in Resolved(wal) => answers[k] # {})'
           /\ (answers[k] # {} => k \notin Unresolved(wal))'
      /\ Lands(Rec(j, st)) /\ answers' = Answered(answers, Rec(j, st), "plugin")
           => Accounted(j)'
  <2> HIDE DEF st
  <2> QED BY <1>1, <1>2, AppendStep
<1> USE DEF IntentDurable, Goto
<1>4. TypeOK'
  BY <1>3 DEF IInv, TypeOK, PluginPCs, CloseKey, Touch, sweep, life, flight
<1>5. ASSUME NEW k \in Keys PROVE PluginInv(k)'
  <2> USE <1>1, <1>3, <1>5 DEF IInv, TypeOK, PluginInv, Holding
  <2>1. CASE k # j
    BY <2>1 DEF CloseKey, flight
  <2>2. CASE k = j
    BY <2>2 DEF CloseKey, flight, Answered, Rec, Terminal
  <2> QED BY <2>1, <2>2
<1>6. ASSUME NEW k \in Keys PROVE AnswerInv(k)'
  BY <1>1, <1>3, <1>6 DEF IInv, TypeOK, AnswerInv, AnsweredBy, Ended
<1>7. ASSUME NEW s \in Sweepers PROVE SweepInv(s)'
  BY <1>1, <1>3, <1>7 DEF IInv, TypeOK, PluginInv, SweepInv, AnsweredBy, IsBusy, Records,
         Holding, Ended, CloseKey, Touch, Sweeping, sweep, flight
<1>8. AnswersTrue'
  BY <1>1, <1>3 DEF IInv, TypeOK, AnswersTrue, PluginInv, Terminal
<1> QED BY <1>4, <1>5, <1>6, <1>7, <1>8 DEF IInv

\* begin_effect fails: nothing has landed, whatever the log holds.
LEMMA IntentRefusedInv ==
    ASSUME IInv, NEW j \in Keys, IntentRefused(j)
    PROVE  IInv'
<1> DEFINE st == "Prepared"
<1>1. /\ st \in States /\ "plugin" \in {"plugin", "sweep"}
      /\ pc \in [Keys -> PluginPCs] /\ pc[j] = "intent"
      /\ answers[j] = {}
  BY DEF IntentRefused, Goto, IInv, TypeOK, States, PluginInv
<1>2. \/ Lands(Rec(j, st)) /\ answers' = Answered(answers, Rec(j, st), "plugin")
      \/ MayLand(Rec(j, st), "plugin")
  BY DEF IntentRefused, Answered, Rec, Terminal
<1>3. /\ wal' \subseteq Records
      /\ answers' \in [Keys -> SUBSET Answers]
      /\ \A k \in Keys :
           /\ Accounted(k) => Accounted(k)'
           /\ k # j => (Accounted(k)' => Accounted(k))
           /\ k # j => answers'[k] = answers[k]
           /\ answers'[k] = answers[k]
                \/ (k = j /\ st \in Terminal /\
                    answers'[k] = answers[k] \cup {[state |-> st, by |-> "plugin"]})
           /\ (k \in Resolved(wal) => answers[k] # {})'
           /\ (answers[k] # {} => k \notin Unresolved(wal))'
      /\ Lands(Rec(j, st)) /\ answers' = Answered(answers, Rec(j, st), "plugin")
           => Accounted(j)'
  <2> HIDE DEF st
  <2> QED BY <1>1, <1>2, AppendStep
<1> USE DEF IntentRefused, Goto
<1>4. TypeOK'
  BY <1>3 DEF IInv, TypeOK, PluginPCs, CloseKey, Touch, sweep, life, flight
<1>5. ASSUME NEW k \in Keys PROVE PluginInv(k)'
  <2> USE <1>1, <1>3, <1>5 DEF IInv, TypeOK, PluginInv, Holding
  <2>1. CASE k # j
    BY <2>1 DEF CloseKey, flight
  <2>2. CASE k = j
    BY <2>2 DEF CloseKey, flight, Answered, Rec, Terminal
  <2> QED BY <2>1, <2>2
<1>6. ASSUME NEW k \in Keys PROVE AnswerInv(k)'
  BY <1>1, <1>3, <1>6 DEF IInv, TypeOK, AnswerInv, AnsweredBy, Ended
<1>7. ASSUME NEW s \in Sweepers PROVE SweepInv(s)'
  BY <1>1, <1>3, <1>7 DEF IInv, TypeOK, PluginInv, SweepInv, AnsweredBy, IsBusy, Records,
         Holding, Ended, CloseKey, Touch, Sweeping, sweep, flight
<1>8. AnswersTrue'
  BY <1>1, <1>3 DEF IInv, TypeOK, AnswersTrue, PluginInv, Terminal
<1> QED BY <1>4, <1>5, <1>6, <1>7, <1>8 DEF IInv

\* complete_effect returns Ok: the outcome is the plugin's answer.
LEMMA OutcomeDurableInv ==
    ASSUME IInv, NEW j \in Keys, OutcomeDurable(j)
    PROVE  IInv'
<1> DEFINE st == outcome[j]
<1>1. /\ st \in States /\ "plugin" \in {"plugin", "sweep"}
      /\ pc \in [Keys -> PluginPCs] /\ pc[j] = "outcome"
      /\ answers[j] = {}
  BY DEF OutcomeDurable, Goto, IInv, TypeOK, States, PluginInv
<1>2. \/ Lands(Rec(j, st)) /\ answers' = Answered(answers, Rec(j, st), "plugin")
      \/ MayLand(Rec(j, st), "plugin")
  BY DEF OutcomeDurable, Answered, Rec, Terminal
<1>3. /\ wal' \subseteq Records
      /\ answers' \in [Keys -> SUBSET Answers]
      /\ \A k \in Keys :
           /\ Accounted(k) => Accounted(k)'
           /\ k # j => (Accounted(k)' => Accounted(k))
           /\ k # j => answers'[k] = answers[k]
           /\ answers'[k] = answers[k]
                \/ (k = j /\ st \in Terminal /\
                    answers'[k] = answers[k] \cup {[state |-> st, by |-> "plugin"]})
           /\ (k \in Resolved(wal) => answers[k] # {})'
           /\ (answers[k] # {} => k \notin Unresolved(wal))'
      /\ Lands(Rec(j, st)) /\ answers' = Answered(answers, Rec(j, st), "plugin")
           => Accounted(j)'
  <2> HIDE DEF st
  <2> QED BY <1>1, <1>2, AppendStep
<1> USE DEF OutcomeDurable, Goto
<1>4. TypeOK'
  BY <1>3 DEF IInv, TypeOK, PluginPCs, CloseKey, Touch, sweep, life, flight
<1>5. ASSUME NEW k \in Keys PROVE PluginInv(k)'
  <2> USE <1>1, <1>3, <1>5 DEF IInv, TypeOK, PluginInv, Holding
  <2>1. CASE k # j
    BY <2>1 DEF CloseKey, flight
  <2>2. CASE k = j
    BY <2>2 DEF CloseKey, flight, Answered, Rec, Terminal
  <2> QED BY <2>1, <2>2
<1>6. ASSUME NEW k \in Keys PROVE AnswerInv(k)'
  BY <1>1, <1>3, <1>6 DEF IInv, TypeOK, AnswerInv, AnsweredBy, Ended
<1>7. ASSUME NEW s \in Sweepers PROVE SweepInv(s)'
  BY <1>1, <1>3, <1>7 DEF IInv, TypeOK, PluginInv, SweepInv, AnsweredBy, IsBusy, Records,
         Holding, Ended, CloseKey, Touch, Sweeping, sweep, flight
<1>8. AnswersTrue'
  BY <1>1, <1>3 DEF IInv, TypeOK, AnswersTrue, PluginInv, Terminal
<1> QED BY <1>4, <1>5, <1>6, <1>7, <1>8 DEF IInv

\* complete_effect fails: the key stays open, its outcome in the log or not.
LEMMA OutcomeRefusedInv ==
    ASSUME IInv, NEW j \in Keys, OutcomeRefused(j)
    PROVE  IInv'
<1> DEFINE st == outcome[j]
<1>1. /\ st \in States /\ "plugin" \in {"plugin", "sweep"}
      /\ pc \in [Keys -> PluginPCs] /\ pc[j] = "outcome"
      /\ answers[j] = {}
  BY DEF OutcomeRefused, Goto, IInv, TypeOK, States, PluginInv
<1>2. \/ Lands(Rec(j, st)) /\ answers' = Answered(answers, Rec(j, st), "plugin")
      \/ MayLand(Rec(j, st), "plugin")
  BY DEF OutcomeRefused, Answered, Rec, Terminal
<1>3. /\ wal' \subseteq Records
      /\ answers' \in [Keys -> SUBSET Answers]
      /\ \A k \in Keys :
           /\ Accounted(k) => Accounted(k)'
           /\ k # j => (Accounted(k)' => Accounted(k))
           /\ k # j => answers'[k] = answers[k]
           /\ answers'[k] = answers[k]
                \/ (k = j /\ st \in Terminal /\
                    answers'[k] = answers[k] \cup {[state |-> st, by |-> "plugin"]})
           /\ (k \in Resolved(wal) => answers[k] # {})'
           /\ (answers[k] # {} => k \notin Unresolved(wal))'
      /\ Lands(Rec(j, st)) /\ answers' = Answered(answers, Rec(j, st), "plugin")
           => Accounted(j)'
  <2> HIDE DEF st
  <2> QED BY <1>1, <1>2, AppendStep
<1> USE DEF OutcomeRefused, Goto
<1>4. TypeOK'
  BY <1>3 DEF IInv, TypeOK, PluginPCs, CloseKey, Touch, sweep, life, flight
<1>5. ASSUME NEW k \in Keys PROVE PluginInv(k)'
  <2> USE <1>1, <1>3, <1>5 DEF IInv, TypeOK, PluginInv, Holding
  <2>1. CASE k # j
    BY <2>1 DEF CloseKey, flight
  <2>2. CASE k = j
    BY <2>2 DEF CloseKey, flight, Answered, Rec, Terminal
  <2> QED BY <2>1, <2>2
<1>6. ASSUME NEW k \in Keys PROVE AnswerInv(k)'
  BY <1>1, <1>3, <1>6 DEF IInv, TypeOK, AnswerInv, AnsweredBy, Ended
<1>7. ASSUME NEW s \in Sweepers PROVE SweepInv(s)'
  BY <1>1, <1>3, <1>7 DEF IInv, TypeOK, PluginInv, SweepInv, AnsweredBy, IsBusy, Records,
         Holding, Ended, CloseKey, Touch, Sweeping, sweep, flight
<1>8. AnswersTrue'
  <2>1. landed' = landed
    BY DEF flight
  <2>2. ASSUME NEW k \in Keys, NEW a \in answers'[k]
        PROVE  a.state = "Confirmed" <=> k \in landed'
    <3>1. CASE a \in answers[k]
      BY <2>1, <3>1 DEF IInv, AnswersTrue
    <3>2. CASE k = j /\ a = [state |-> st, by |-> "plugin"] /\ st \in Terminal
      <4>1. st = "Confirmed" <=> j \in landed
        BY <1>1, <3>2 DEF IInv, TypeOK, PluginInv, Terminal
      <4> HIDE DEF st
      <4> QED BY <2>1, <3>2, <4>1
    <3> HIDE DEF st
    <3> QED BY <1>3, <2>2, <3>1, <3>2
  <2> QED BY <2>2 DEF AnswersTrue
<1> QED BY <1>4, <1>5, <1>6, <1>7, <1>8 DEF IInv

\* An invocation that ends half-way closes its key; an append under way lands
\* or does not.
LEMMA DropInvocationInv ==
    ASSUME IInv, NEW j \in Keys, DropInvocation(j)
    PROVE  IInv'
<1> DEFINE st == IF pc[j] = "intent" THEN "Prepared" ELSE outcome[j]
<1>1. /\ st \in States /\ "plugin" \in {"plugin", "sweep"}
      /\ pc \in [Keys -> PluginPCs] /\ pc[j] \in Holding
      /\ pc[j] # "recorded" => answers[j] = {}
  BY DEF DropInvocation, IInv, TypeOK, States, PluginInv, Holding
<1>2. UNCHANGED <<wal, answers>> \/ (MayLand(Rec(j, st), "plugin") /\ answers[j] = {})
  BY <1>1 DEF DropInvocation
<1>3. /\ wal' \subseteq Records
      /\ answers' \in [Keys -> SUBSET Answers]
      /\ \A k \in Keys :
           /\ Accounted(k) => Accounted(k)'
           /\ k # j => (Accounted(k)' => Accounted(k))
           /\ k # j => answers'[k] = answers[k]
           /\ answers'[k] = answers[k]
                \/ (k = j /\ st \in Terminal /\
                    answers'[k] = answers[k] \cup {[state |-> st, by |-> "plugin"]})
           /\ (k \in Resolved(wal) => answers[k] # {})'
           /\ (answers[k] # {} => k \notin Unresolved(wal))'
  <2> HIDE DEF st
  <2>1. CASE UNCHANGED <<wal, answers>>
    BY <2>1 DEF IInv, TypeOK, AnswerInv, Accounted
  <2>2. CASE MayLand(Rec(j, st), "plugin") /\ answers[j] = {}
    BY <1>1, <2>2, AppendStep
  <2> QED BY <1>2, <2>1, <2>2
<1>4. st \in Terminal /\ answers'[j] # answers[j] =>
         /\ answers'[j] = {[state |-> st, by |-> "plugin"]}
         /\ st = "Confirmed"
         /\ j \in landed
  BY <1>1, <1>2, <1>3 DEF IInv, TypeOK, PluginInv, Holding, DropInvocation, Terminal
<1> HIDE DEF st
<1> USE DEF DropInvocation
<1>5. TypeOK'
  BY <1>3 DEF IInv, TypeOK, PluginPCs, CloseKey, Touch, sweep, life
<1>6. ASSUME NEW k \in Keys PROVE PluginInv(k)'
  BY <1>1, <1>3, <1>6 DEF IInv, TypeOK, PluginInv, Holding, CloseKey
<1>7. ASSUME NEW k \in Keys PROVE AnswerInv(k)'
  BY <1>1, <1>3, <1>4, <1>7 DEF IInv, TypeOK, AnswerInv, AnsweredBy, Ended, Holding
<1>8. ASSUME NEW s \in Sweepers PROVE SweepInv(s)'
  BY <1>1, <1>3, <1>8 DEF IInv, TypeOK, PluginInv, SweepInv, AnsweredBy, IsBusy, Records,
         Holding, Ended, CloseKey, Touch, Sweeping, sweep
<1>9. AnswersTrue'
  BY <1>1, <1>3, <1>4 DEF IInv, TypeOK, AnswersTrue
<1> QED BY <1>5, <1>6, <1>7, <1>8, <1>9 DEF IInv

----------------------------------------------------------------------------
(* Steps of a sweep that write nothing.                                    *)

\* A sweep begins with nothing read.
LEMMA SweepStartInv ==
    ASSUME IInv, NEW t \in Sweepers, SweepStart(t)
    PROVE  IInv'
<1> USE DEF SweepStart
<1>1. UNCHANGED <<wal, answers, pc, landed, outcome, open>>
  BY DEF plugin, flight
<1>2. TypeOK'
  BY <1>1 DEF IInv, TypeOK, SweepInv, SweepPCs, Rec, Records, States, Tell,
         plugin, flight, life
<1>3. ASSUME NEW k \in Keys PROVE PluginInv(k)' /\ AnswerInv(k)'
  BY <1>1, <1>3 DEF IInv, PluginInv, AnswerInv, AnsweredBy, Accounted
<1>4. ASSUME NEW s \in Sweepers PROVE SweepInv(s)'
  BY <1>1, <1>4 DEF IInv, TypeOK, PluginInv, AnswerInv, SweepInv, AnsweredBy, Accounted,
         IsBusy, Rec, Records, States, Holding, Ended, PluginPCs, flight
<1>5. AnswersTrue'
  BY <1>1 DEF IInv, AnswersTrue
<1> QED BY <1>2, <1>3, <1>4, <1>5 DEF IInv

\* A busy key is left alone.
LEMMA SweepSkipInv ==
    ASSUME IInv, NEW t \in Sweepers, NEW j \in Keys, SweepSkip(t, j)
    PROVE  IInv'
<1> USE DEF SweepSkip
<1>1. UNCHANGED <<wal, answers, pc, landed, outcome, open>>
  BY DEF plugin, flight
<1>2. TypeOK'
  BY <1>1 DEF IInv, TypeOK, SweepInv, SweepPCs, Rec, Records, States, Tell,
         plugin, flight, life
<1>3. ASSUME NEW k \in Keys PROVE PluginInv(k)' /\ AnswerInv(k)'
  BY <1>1, <1>3 DEF IInv, PluginInv, AnswerInv, AnsweredBy, Accounted
<1>4. ASSUME NEW s \in Sweepers PROVE SweepInv(s)'
  BY <1>1, <1>4 DEF IInv, TypeOK, PluginInv, AnswerInv, SweepInv, AnsweredBy, Accounted,
         IsBusy, Rec, Records, States, Holding, Ended, PluginPCs, flight
<1>5. AnswersTrue'
  BY <1>1 DEF IInv, AnswersTrue
<1> QED BY <1>2, <1>3, <1>4, <1>5 DEF IInv

\* A key that is asked about is not busy.
LEMMA SweepAskInv ==
    ASSUME IInv, NEW t \in Sweepers, NEW j \in Keys, SweepAsk(t, j)
    PROVE  IInv'
<1> USE DEF SweepAsk
<1>1. UNCHANGED <<wal, answers, pc, landed, outcome, open>>
  BY DEF plugin, flight
<1>2. TypeOK'
  BY <1>1 DEF IInv, TypeOK, SweepInv, SweepPCs, Rec, Records, States, Tell,
         plugin, flight, life
<1>3. ASSUME NEW k \in Keys PROVE PluginInv(k)' /\ AnswerInv(k)'
  BY <1>1, <1>3 DEF IInv, PluginInv, AnswerInv, AnsweredBy, Accounted
<1>4. ASSUME NEW s \in Sweepers PROVE SweepInv(s)'
  BY <1>1, <1>4 DEF IInv, TypeOK, PluginInv, AnswerInv, SweepInv, AnsweredBy, Accounted,
         IsBusy, Rec, Records, States, Holding, Ended, PluginPCs, flight
<1>5. AnswersTrue'
  BY <1>1 DEF IInv, AnswersTrue
<1> QED BY <1>2, <1>3, <1>4, <1>5 DEF IInv

\* The reconciler's answer is what happened at the participant.
LEMMA SweepAnswerInv ==
    ASSUME IInv, NEW t \in Sweepers, SweepAnswer(t)
    PROVE  IInv'
<1> USE DEF SweepAnswer
<1>1. UNCHANGED <<wal, answers, pc, landed, outcome, open>>
  BY DEF plugin, flight
<1>2. TypeOK'
  <2>1. cur[t].key \in Keys
    BY DEF IInv, SweepInv, Records
  <2>2. \A st \in States : Rec(cur[t].key, st) \in Records
    BY <2>1, RecFacts
  <2>3. cur' \in [Sweepers -> Records \cup {NoRec}]
    <3>1. cur \in [Sweepers -> Records \cup {NoRec}]
      BY DEF IInv, TypeOK
    <3>2. \/ \E st \in States : cur' = [cur EXCEPT ![t] = Rec(cur[t].key, st)]
          \/ cur' = [cur EXCEPT ![t] = NoRec]
      BY DEF States
    <3> QED BY <2>2, <3>1, <3>2
  <2> QED BY <1>1, <2>3 DEF IInv, TypeOK, SweepPCs, plugin, flight, life
<1>3. ASSUME NEW k \in Keys PROVE PluginInv(k)' /\ AnswerInv(k)'
  BY <1>1, <1>3 DEF IInv, PluginInv, AnswerInv, AnsweredBy, Accounted
<1>4. ASSUME NEW s \in Sweepers PROVE SweepInv(s)'
  <2>1. SweepInv(s) /\ SweepInv(t) /\ UNCHANGED <<todo, touched>>
    BY <1>4 DEF IInv, flight
  <2>2. swpc \in [Sweepers -> SweepPCs] /\ cur \in [Sweepers -> Records \cup {NoRec}]
    BY DEF IInv, TypeOK
  <2>3. CASE s # t
    BY <1>1, <1>4, <2>1, <2>2, <2>3 DEF SweepInv, AnsweredBy, IsBusy
  <2>4. CASE s = t /\ swpc'[t] = "next"
    BY <1>1, <2>1, <2>2, <2>4 DEF SweepInv, AnsweredBy, IsBusy
  <2>5. CASE s = t /\ swpc'[t] = "settling"
    <3> DEFINE k == cur[t].key
               st == IF k \in landed THEN "Confirmed" ELSE "Rejected"
    <3>1. cur'[t] = Rec(k, st)
      BY <2>2, <2>5
    <3>2. k \in Keys /\ pc[k] \in Ended /\ ~AnsweredBy("plugin", k)
      BY <2>1 DEF SweepInv, Records
    <3>3. st \in States
      BY DEF States
    <3> HIDE DEF k, st
    <3>4. Rec(k, st) \in Records /\ Rec(k, st).key = k /\ Rec(k, st).state = st
      BY <3>2, <3>3, RecFacts
    <3>5. cur'[t].key = k /\ cur'[t].state = st /\ cur'[t] \in Records
      BY <3>1, <3>4
    <3>6. st = IF k \in landed THEN "Confirmed" ELSE "Rejected"
      BY DEF st
    <3> QED BY <1>1, <2>1, <2>5, <3>2, <3>5, <3>6 DEF SweepInv, AnsweredBy, IsBusy
  <2> QED BY <2>2, <2>3, <2>4, <2>5
<1>5. AnswersTrue'
  BY <1>1 DEF IInv, AnswersTrue
<1> QED BY <1>2, <1>3, <1>4, <1>5 DEF IInv

\* Handing a settled record to the sinks writes nothing.
LEMMA SweepTellInv ==
    ASSUME IInv, NEW t \in Sweepers, SweepTell(t)
    PROVE  IInv'
<1> USE DEF SweepTell
<1>1. UNCHANGED <<wal, answers, pc, landed, outcome, open>>
  BY DEF plugin, flight
<1>2. TypeOK'
  BY <1>1 DEF IInv, TypeOK, SweepInv, SweepPCs, Rec, Records, States, Tell,
         plugin, flight, life
<1>3. ASSUME NEW k \in Keys PROVE PluginInv(k)' /\ AnswerInv(k)'
  BY <1>1, <1>3 DEF IInv, PluginInv, AnswerInv, AnsweredBy, Accounted
<1>4. ASSUME NEW s \in Sweepers PROVE SweepInv(s)'
  BY <1>1, <1>4 DEF IInv, TypeOK, PluginInv, AnswerInv, SweepInv, AnsweredBy, Accounted,
         IsBusy, Rec, Records, States, Holding, Ended, PluginPCs, flight
<1>5. AnswersTrue'
  BY <1>1 DEF IInv, AnswersTrue
<1> QED BY <1>2, <1>3, <1>4, <1>5 DEF IInv

\* A sweep ends when all it settled was told.
LEMMA SweepReturnsInv ==
    ASSUME IInv, NEW t \in Sweepers, SweepReturns(t)
    PROVE  IInv'
<1> USE DEF SweepReturns
<1>1. UNCHANGED <<wal, answers, pc, landed, outcome, open>>
  BY DEF plugin, flight, EndSweep, DropGuard
<1>2. TypeOK'
  BY <1>1 DEF IInv, TypeOK, SweepInv, SweepPCs, Rec, Records, States, Tell,
         plugin, flight, life, EndSweep, DropGuard
<1>3. ASSUME NEW k \in Keys PROVE PluginInv(k)' /\ AnswerInv(k)'
  BY <1>1, <1>3 DEF IInv, PluginInv, AnswerInv, AnsweredBy, Accounted
<1>4. ASSUME NEW s \in Sweepers PROVE SweepInv(s)'
  BY <1>1, <1>4 DEF IInv, TypeOK, PluginInv, AnswerInv, SweepInv, AnsweredBy, Accounted,
         IsBusy, Rec, Records, States, Holding, Ended, PluginPCs, flight, EndSweep, DropGuard
<1>5. AnswersTrue'
  BY <1>1 DEF IInv, AnswersTrue
<1> QED BY <1>2, <1>3, <1>4, <1>5 DEF IInv

----------------------------------------------------------------------------
(* Steps of a sweep that write to the log.                                 *)

\* A compaction on its own changes no key's standing.
LEMMA CompactStep ==
    ASSUME IInv, wal' = wal \/ wal' = Compact(wal), answers' = answers
    PROVE  /\ wal' \subseteq Records
           /\ \A k \in Keys :
                /\ Accounted(k) <=> Accounted(k)'
                /\ (k \in Resolved(wal) => answers[k] # {})'
                /\ (answers[k] # {} => k \notin Unresolved(wal))'
<1>1. wal \in SUBSET Records /\ {} \in SUBSET Records /\ wal \cup {} = wal
  BY DEF IInv, TypeOK
<1>2. KeysOf({}) = {} /\ Resolved({}) = {}
  BY DEF KeysOf, Resolved
<1>3. wal' = wal \cup {} \/ wal' = Compact(wal \cup {})
  BY <1>1
<1>4. \A k \in Keys : AnswerInv(k)
  BY DEF IInv
<1>5. /\ wal' \subseteq Records
      /\ \A k \in Keys :
           /\ Accounted(k) => Accounted(k)'
           /\ k \in KeysOf({}) => Accounted(k)'
           /\ Accounted(k)' => Accounted(k) \/ k \in KeysOf({})
           /\ (k \in Resolved(wal) => answers[k] # {})'
           /\ (answers[k] # {} => k \notin Unresolved(wal))'
           /\ k \in Unresolved(wal)' => k \in Unresolved(wal) \/ k \in KeysOf({})
  BY <1>1, <1>2, <1>3, <1>4, LogStep
<1> QED BY <1>2, <1>5

\* What the sweep is to look at was unresolved when it read the log.
LEMMA SweepRecoverInv ==
    ASSUME IInv, NEW t \in Sweepers, SweepRecover(t)
    PROVE  IInv'
<1> USE DEF SweepRecover
<1>1. UNCHANGED <<answers, pc, landed, outcome, open, touched, cur>>
  BY DEF plugin, flight
<1>2. /\ wal' \subseteq Records
      /\ \A k \in Keys :
           /\ Accounted(k) <=> Accounted(k)'
           /\ (k \in Resolved(wal) => answers[k] # {})'
           /\ (answers[k] # {} => k \notin Unresolved(wal))'
  BY <1>1, CompactStep
<1>3. \A k \in Unresolved(wal) : k \in Keys /\ Accounted(k)
  BY DEF IInv, TypeOK, Unresolved, KeysOf, Records, Accounted
<1>4. TypeOK'
  BY <1>1, <1>2, <1>3 DEF IInv, TypeOK, SweepPCs, plugin, flight, life
<1>5. ASSUME NEW k \in Keys PROVE PluginInv(k)' /\ AnswerInv(k)'
  BY <1>1, <1>2, <1>5 DEF IInv, PluginInv, AnswerInv, AnsweredBy
<1>6. ASSUME NEW s \in Sweepers PROVE SweepInv(s)'
  BY <1>1, <1>3, <1>6 DEF IInv, TypeOK, PluginInv, AnswerInv, SweepInv, AnsweredBy,
         IsBusy, Records
<1>7. AnswersTrue'
  BY <1>1 DEF IInv, AnswersTrue
<1> QED BY <1>4, <1>5, <1>6, <1>7 DEF IInv

\* The compaction at the end of a sweep.
LEMMA SweepCompactInv ==
    ASSUME IInv, NEW t \in Sweepers, SweepCompact(t)
    PROVE  IInv'
<1> USE DEF SweepCompact
<1>1. UNCHANGED <<answers, pc, landed, outcome, open, touched, cur>>
  BY DEF plugin, flight
<1>2. /\ wal' \subseteq Records
      /\ \A k \in Keys :
           /\ Accounted(k) <=> Accounted(k)'
           /\ (k \in Resolved(wal) => answers[k] # {})'
           /\ (answers[k] # {} => k \notin Unresolved(wal))'
  BY <1>1, CompactStep
<1>3. \A k \in Unresolved(wal) : k \in Keys /\ Accounted(k)
  BY DEF IInv, TypeOK, Unresolved, KeysOf, Records, Accounted
<1>4. TypeOK'
  BY <1>1, <1>2, <1>3 DEF IInv, TypeOK, SweepPCs, plugin, flight, life
<1>5. ASSUME NEW k \in Keys PROVE PluginInv(k)' /\ AnswerInv(k)'
  BY <1>1, <1>2, <1>5 DEF IInv, PluginInv, AnswerInv, AnsweredBy
<1>6. ASSUME NEW s \in Sweepers PROVE SweepInv(s)'
  BY <1>1, <1>3, <1>6 DEF IInv, TypeOK, PluginInv, AnswerInv, SweepInv, AnsweredBy,
         IsBusy, Records
<1>7. AnswersTrue'
  BY <1>1 DEF IInv, AnswersTrue
<1> QED BY <1>4, <1>5, <1>6, <1>7 DEF IInv

\* A sweep that has an answer in hand appends it, or tries to: its key is one
\* nobody acts on, the answer is right, and no plugin gave one.
LEMMA SettleStep ==
    ASSUME IInv, NEW t \in Sweepers, swpc[t] = "settling",
           \/ Lands(cur[t]) /\ answers' = Answered(answers, cur[t], "sweep")
           \/ MayLand(cur[t], "sweep"),
           UNCHANGED <<pc, landed, outcome, open>>
    PROVE  /\ cur[t] \in Records
           /\ wal' \subseteq Records
           /\ answers' \in [Keys -> SUBSET Answers]
           /\ \A k \in Keys : PluginInv(k)' /\ AnswerInv(k)'
           /\ \A k \in Keys : AnsweredBy("plugin", k)' => AnsweredBy("plugin", k)
           /\ AnswersTrue'
<1> DEFINE j == cur[t].key
           st == cur[t].state
<1>1. /\ j \in Keys /\ st \in Terminal /\ st \in States /\ cur[t] = Rec(j, st)
      /\ pc[j] \in Ended
      /\ ~AnsweredBy("plugin", j)
      /\ st = "Confirmed" <=> j \in landed
      /\ cur[t] \in Records
  BY DEF IInv, SweepInv, Records, Rec, States, Terminal
<1> HIDE DEF j, st
<1>2. "sweep" \in {"plugin", "sweep"}
  OBVIOUS
<1>3. /\ wal' \subseteq Records
      /\ answers' \in [Keys -> SUBSET Answers]
      /\ \A k \in Keys :
           /\ Accounted(k) => Accounted(k)'
           /\ k # j => (Accounted(k)' => Accounted(k))
           /\ k # j => answers'[k] = answers[k]
           /\ answers'[k] = answers[k]
                \/ (k = j /\ st \in Terminal /\
                    answers'[k] = answers[k] \cup {[state |-> st, by |-> "sweep"]})
           /\ (k \in Resolved(wal) => answers[k] # {})'
           /\ (answers[k] # {} => k \notin Unresolved(wal))'
  BY <1>1, <1>2, AppendStep
<1>4. ASSUME NEW k \in Keys PROVE PluginInv(k)'
  BY <1>1, <1>3, <1>4 DEF IInv, PluginInv, Ended, Holding
<1>5. ASSUME NEW k \in Keys PROVE AnsweredBy("plugin", k)' => AnsweredBy("plugin", k)
  BY <1>1, <1>3, <1>5 DEF AnsweredBy
<1>6. ASSUME NEW k \in Keys PROVE AnswerInv(k)'
  BY <1>1, <1>3, <1>5, <1>6 DEF IInv, AnswerInv, AnsweredBy
<1>7. AnswersTrue'
  BY <1>1, <1>3 DEF IInv, AnswersTrue
<1> QED BY <1>1, <1>3, <1>4, <1>5, <1>6, <1>7

\* The sweep's answer becomes durable.
LEMMA SweepSettleInv ==
    ASSUME IInv, NEW t \in Sweepers, SweepSettle(t)
    PROVE  IInv'
<1> USE DEF SweepSettle
<1>1. UNCHANGED <<pc, landed, outcome, open, touched, todo>>
  BY DEF plugin, flight
<1>2. /\ cur[t] \in Records
      /\ wal' \subseteq Records
      /\ answers' \in [Keys -> SUBSET Answers]
      /\ \A k \in Keys : PluginInv(k)' /\ AnswerInv(k)'
      /\ \A k \in Keys : AnsweredBy("plugin", k)' => AnsweredBy("plugin", k)
      /\ AnswersTrue'
  BY <1>1, SettleStep
<1>3. TypeOK'
  BY <1>1, <1>2 DEF IInv, TypeOK, SweepPCs, plugin, flight, life
<1>4. ASSUME NEW s \in Sweepers PROVE SweepInv(s)'
  BY <1>1, <1>2, <1>4 DEF IInv, TypeOK, SweepInv, IsBusy, Records
<1> QED BY <1>2, <1>3, <1>4 DEF IInv

\* Every way a sweep ends without returning Ok.
LEMMA EndSweepInv ==
    ASSUME IInv, NEW t \in Sweepers, EndSweep(t),
           \/ UNCHANGED <<wal, answers>>
           \/ swpc[t] = "settling" /\ MayLand(cur[t], "sweep")
    PROVE  IInv'
<1> USE DEF EndSweep, DropGuard
<1>1. UNCHANGED <<pc, landed, outcome, open>>
  BY DEF plugin
<1>2. /\ wal' \subseteq Records
      /\ answers' \in [Keys -> SUBSET Answers]
      /\ \A k \in Keys : PluginInv(k)' /\ AnswerInv(k)'
      /\ \A k \in Keys : AnsweredBy("plugin", k)' => AnsweredBy("plugin", k)
      /\ AnswersTrue'
  <2>1. CASE UNCHANGED <<wal, answers>>
    BY <1>1, <2>1 DEF IInv, TypeOK, PluginInv, AnswerInv, AnswersTrue, AnsweredBy, Accounted
  <2>2. CASE swpc[t] = "settling" /\ MayLand(cur[t], "sweep")
    BY <1>1, <2>2, SettleStep
  <2> QED BY <2>1, <2>2
<1>3. TypeOK'
  BY <1>1, <1>2 DEF IInv, TypeOK, SweepPCs, plugin, life
<1>4. ASSUME NEW s \in Sweepers PROVE SweepInv(s)'
  BY <1>1, <1>2, <1>4 DEF IInv, TypeOK, SweepInv, IsBusy, Records
<1> QED BY <1>2, <1>3, <1>4 DEF IInv

\* A sweep that fails, or is dropped, forgets what it was asking.
LEMMA SweepFailsInv ==
    ASSUME IInv, NEW t \in Sweepers, SweepFails(t) \/ SweepDropped(t)
    PROVE  IInv'
BY EndSweepInv DEF SweepFails, SweepDropped

----------------------------------------------------------------------------
(* The process.                                                            *)

\* A restart brings the process back with nothing in flight.
LEMMA RestartInv ==
    ASSUME IInv, Restart
    PROVE  IInv'
<1> USE DEF Restart
<1>1. UNCHANGED <<answers, pc, landed, outcome, open, touched, swpc, todo, cur>>
  BY DEF plugin, flight, sweep
<1>2. /\ wal' \subseteq Records
      /\ \A k \in Keys :
           /\ Accounted(k) <=> Accounted(k)'
           /\ (k \in Resolved(wal) => answers[k] # {})'
           /\ (answers[k] # {} => k \notin Unresolved(wal))'
  BY <1>1, CompactStep
<1>3. TypeOK'
  BY <1>1, <1>2 DEF IInv, TypeOK, plugin, flight, sweep
<1>4. ASSUME NEW k \in Keys PROVE PluginInv(k)' /\ AnswerInv(k)'
  BY <1>1, <1>2, <1>4 DEF IInv, PluginInv, AnswerInv, AnsweredBy
<1>5. ASSUME NEW s \in Sweepers PROVE SweepInv(s)'
  BY <1>1, <1>5 DEF IInv, SweepInv, AnsweredBy, IsBusy
<1>6. AnswersTrue'
  BY <1>1 DEF IInv, AnswersTrue
<1> QED BY <1>3, <1>4, <1>5, <1>6 DEF IInv

\* A crash forgets everything but the log; any append under way may have
\* reached it.
LEMMA CrashInv ==
    ASSUME IInv, Crash
    PROVE  IInv'
<1> DEFINE Mine(lost)   == UNION {Pending(k) : k \in Keys \ lost}
           Swept(idle)  == {cur[s] : s \in {t \in Sweepers \ idle : swpc[t] = "settling"}}
           NewMine(k, mine) ==
              {[state |-> r.state, by |-> "plugin"] :
                  r \in {x \in mine : x.key = k /\ x.state \in Terminal}}
           NewSwept(k, swept) ==
              {[state |-> r.state, by |-> "sweep"] : r \in {x \in swept : x.key = k}}
<1>1. PICK lost \in SUBSET Keys, idle \in SUBSET Sweepers :
         /\ wal' = wal \cup Mine(lost) \cup Swept(idle)
         /\ answers' = [k \in Keys |->
                answers[k] \cup (NewMine(k, Mine(lost)) \cup NewSwept(k, Swept(idle)))]
  BY DEF Crash
<1> DEFINE mine  == Mine(lost)
           swept == Swept(idle)
           N     == mine \cup swept
<1>2. ASSUME NEW r \in mine
      PROVE  /\ r \in Records
             /\ answers[r.key] = {}
             /\ pc[r.key] \in Holding
             /\ r.state \in Terminal => r.state = "Confirmed" /\ r.key \in landed
  <2>1. PICK k \in Keys : r \in Pending(k)
    OBVIOUS
  <2>2. CASE pc[k] = "intent" /\ r = Rec(k, "Prepared")
    BY <2>2, RecFacts DEF IInv, PluginInv, States, Terminal, Holding
  <2>3. CASE pc[k] = "outcome" /\ r = Rec(k, outcome[k])
    <3>1. outcome[k] \in {"Confirmed", "Unknown"} /\ outcome[k] \in States
      BY DEF IInv, TypeOK, States
    <3>2. r \in Records /\ r.key = k /\ r.state = outcome[k]
      BY <2>3, <3>1, RecFacts
    <3>3. answers[k] = {} /\ (outcome[k] = "Confirmed" => k \in landed)
      BY <2>3 DEF IInv, PluginInv
    <3> QED BY <2>3, <3>1, <3>2, <3>3 DEF Terminal, Holding
  <2> QED BY <2>1, <2>2, <2>3 DEF Pending
<1>3. ASSUME NEW r \in swept
      PROVE  /\ r \in Records
             /\ pc[r.key] \in Ended
             /\ ~AnsweredBy("plugin", r.key)
             /\ r.state \in Terminal
             /\ r.state = "Confirmed" <=> r.key \in landed
  BY DEF IInv, SweepInv, Terminal
<1> HIDE DEF mine, swept
<1>4. answers \in [Keys -> SUBSET Answers] /\ wal \in SUBSET Records
  BY DEF IInv, TypeOK
<1>5. \A k \in Keys :
         answers'[k] = answers[k] \cup NewMine(k, mine) \cup NewSwept(k, swept)
  BY <1>1 DEF mine, swept
<1>6. N \in SUBSET Records
  BY <1>2, <1>3
<1>7. \A k \in Keys : k \in Resolved(N) <=>
         NewMine(k, mine) # {} \/ NewSwept(k, swept) # {}
  BY <1>3 DEF Resolved
<1>8. /\ \A k \in Keys : k \in KeysOf(mine) => k \notin KeysOf(swept)
      /\ \A k \in KeysOf(N) : k \in Keys /\ pc[k] # "idle"
  BY <1>2, <1>3, <1>6 DEF KeysOf, Holding, Ended, Records
<1>9. /\ wal' \subseteq Records
      /\ \A k \in Keys :
           /\ Accounted(k) => Accounted(k)'
           /\ k \in KeysOf(N) => Accounted(k)'
           /\ Accounted(k)' => Accounted(k) \/ k \in KeysOf(N)
           /\ (k \in Resolved(wal) => answers[k] # {})'
           /\ (answers[k] # {} => k \notin Unresolved(wal))'
           /\ k \in Unresolved(wal)' => k \in Unresolved(wal) \/ k \in KeysOf(N)
  <2>1. wal' = wal \cup N
    BY <1>1 DEF mine, swept
  <2>2. \A k \in Keys : answers[k] \subseteq answers'[k]
    BY <1>5
  <2>3. \A k \in Keys : answers'[k] # answers[k] => k \in Resolved(N)
    BY <1>5, <1>7
  <2>4. \A k \in Resolved(N) : answers'[k] # {}
    <3>1. \A k \in Resolved(N) : k \in Keys
      BY <1>6 DEF Resolved, Records
    <3> QED BY <1>5, <1>7, <3>1
  <2>5. \A k \in KeysOf(N) : answers'[k] # {} => k \in Resolved(N)
    <3> SUFFICES ASSUME NEW r \in N, answers'[r.key] # {}
                 PROVE  r.key \in Resolved(N)
      BY DEF KeysOf
    <3>1. CASE r \in swept
      BY <1>3, <3>1 DEF Resolved
    <3>2. CASE r \in mine
      BY <1>2, <1>5, <1>6, <1>7, <3>2 DEF Records
    <3> QED BY <3>1, <3>2
  <2>6. \A k \in Keys : AnswerInv(k)
    BY DEF IInv
  <2> HIDE DEF N
  <2> QED BY <1>4, <1>6, <2>1, <2>2, <2>3, <2>4, <2>5, <2>6, LogStep
<1> HIDE DEF N
<1>10. /\ pc' = [k \in Keys |-> IF pc[k] \in Holding \cup {"closed"}
                                THEN "dropped" ELSE pc[k]]
       /\ open' = {} /\ touched' = {}
       /\ swpc' = [s \in Sweepers |-> "idle"]
       /\ todo' = [s \in Sweepers |-> {}]
       /\ UNCHANGED <<landed, outcome, told>>
  BY DEF Crash
<1>11. ASSUME NEW k \in Keys, NEW a \in answers'[k]
       PROVE  /\ a \in Answers
              /\ a.state = "Confirmed" <=> k \in landed
              /\ a \notin answers[k] => \/ a.by = "plugin" /\ k \in KeysOf(mine)
                                        \/ a.by = "sweep" /\ k \in KeysOf(swept)
  <2>1. CASE a \in answers[k]
    BY <1>4, <1>11, <2>1 DEF IInv, AnswersTrue
  <2>2. CASE a \in NewMine(k, mine)
    <3>1. PICK r \in mine : /\ r.key = k /\ r.state \in Terminal
                            /\ a = [state |-> r.state, by |-> "plugin"]
      BY <2>2
    <3> QED BY <1>2, <3>1 DEF Answers, KeysOf
  <2>3. CASE a \in NewSwept(k, swept)
    <3>1. PICK r \in swept : /\ r.key = k
                             /\ a = [state |-> r.state, by |-> "sweep"]
      BY <2>3
    <3> QED BY <1>3, <3>1 DEF Answers, KeysOf
  <2> QED BY <1>5, <1>11, <2>1, <2>2, <2>3
<1>12. TypeOK'
  <2>1. answers' \in [Keys -> SUBSET Answers]
    BY <1>1, <1>11
  <2>2. crashes' \in 0..MaxCrashes /\ up' \in BOOLEAN
    <3>1. crashes \in 0..MaxCrashes /\ crashes < MaxCrashes
      BY DEF Crash, IInv, TypeOK
    <3>2. crashes' = crashes + 1 /\ up' = FALSE
      BY DEF Crash
    <3>3. crashes' \in 0..MaxCrashes
      BY <3>1, <3>2, MaxCrashesAssumption, SMT
    <3>4. up' \in BOOLEAN
      BY <3>2
    <3> QED BY <3>3, <3>4
  <2>3. pc' \in [Keys -> PluginPCs]
    BY <1>10 DEF IInv, TypeOK, PluginPCs
  <2> QED BY <1>9, <1>10, <2>1, <2>2, <2>3 DEF Crash, IInv, TypeOK, SweepPCs
<1>13. ASSUME NEW k \in Keys PROVE PluginInv(k)'
  BY <1>8, <1>9, <1>10, <1>13 DEF IInv, PluginInv, Holding
<1>14. ASSUME NEW k \in Keys PROVE AnswerInv(k)'
  <2>1. k \in KeysOf(swept) => pc[k] \in Ended /\ ~AnsweredBy("plugin", k)
    BY <1>3 DEF KeysOf
  <2>2. k \in KeysOf(mine) => answers[k] = {} /\ pc[k] \in Holding
    BY <1>2 DEF KeysOf
  <2>3. AnsweredBy("sweep", k)' => AnsweredBy("sweep", k) \/ k \in KeysOf(swept)
    BY <1>11, <1>14 DEF AnsweredBy
  <2>4. AnsweredBy("plugin", k)' => AnsweredBy("plugin", k) \/ k \in KeysOf(mine)
    BY <1>11, <1>14 DEF AnsweredBy
  <2>5. AnswerInv(k)
    BY <1>14 DEF IInv
  <2>6. AnsweredBy("sweep", k)' => pc[k] \in Ended /\ ~AnsweredBy("plugin", k)'
    BY <1>8, <1>14, <2>1, <2>2, <2>3, <2>4, <2>5 DEF AnswerInv, AnsweredBy, Ended, Holding
  <2>7. pc[k] \in Ended => pc'[k] \in Ended
    BY <1>10, <1>14 DEF Ended
  <2> QED BY <1>9, <1>14, <2>6, <2>7 DEF AnswerInv
<1>15. ASSUME NEW s \in Sweepers PROVE SweepInv(s)'
  BY <1>10, <1>15 DEF SweepInv
<1>16. AnswersTrue'
  BY <1>10, <1>11 DEF AnswersTrue
<1> QED BY <1>12, <1>13, <1>14, <1>15, <1>16 DEF IInv

----------------------------------------------------------------------------
(* The theorems.                                                           *)

\* Every step preserves the invariant.
LEMMA StepInv == IInv /\ [Next]_vars => IInv'
<1> SUFFICES ASSUME IInv, [Next]_vars PROVE IInv'
  OBVIOUS
<1>1. ASSUME NEW k \in Keys, PluginStep(k) PROVE IInv'
  BY <1>1, BeginEffectInv, IntentDurableInv, IntentRefusedInv, TellIntentInv,
     ActLandsInv, ActReturnsInv, OutcomeDurableInv, OutcomeRefusedInv,
     OutcomeClosesInv, TellOutcomeInv, DropInvocationInv DEF PluginStep
<1>2. ASSUME NEW s \in Sweepers, SweepStep(s) PROVE IInv'
  BY <1>2, SweepStartInv, SweepRecoverInv, SweepSkipInv, SweepAskInv, SweepAnswerInv,
     SweepSettleInv, SweepCompactInv, SweepTellInv, SweepReturnsInv, SweepFailsInv
  DEF SweepStep
<1>3. CASE Crash
  BY <1>3, CrashInv
<1>4. CASE Restart
  BY <1>4, RestartInv
<1>5. CASE UNCHANGED vars
  BY <1>5 DEF vars, plugin, flight, sweep, life, IInv, TypeOK, PluginInv, AnswerInv,
     SweepInv, AnswersTrue, AnsweredBy, Accounted, IsBusy
<1> QED BY <1>1, <1>2, <1>3, <1>4, <1>5 DEF Next

\* The inductive invariant holds of every reachable state of the protocol.
THEOREM Invariance == Spec => []IInv
BY InitInv, StepInv, PTL DEF Spec

\* Type correctness of the effect protocol.
THEOREM TypeCorrect == Spec => []TypeOK
<1>1. IInv => TypeOK
  BY DEF IInv
<1> QED BY <1>1, Invariance, PTL

\* An act that landed is on record until it is answered: begin_effect is
\* fail-closed, and neither a crash nor a compaction loses the record.
THEOREM WriteAheadHolds == Spec => []WriteAhead
<1>1. IInv => WriteAhead
  BY DEF IInv, TypeOK, PluginInv, Accounted, WriteAhead
<1> QED BY <1>1, Invariance, PTL

\* No terminal record is wrong, whichever of plugin and sweeps wrote it.
THEOREM AnswersTrueHolds == Spec => []AnswersTrue
<1>1. IInv => AnswersTrue
  BY DEF IInv
<1> QED BY <1>1, Invariance, PTL

\* A plugin and the sweeps never both answer for one act, and no two answers
\* for it differ, however many sweeps overlap it.
THEOREM OneAnswerHolds == Spec => []OneAnswer
<1>1. IInv => OneAnswer
  <2> SUFFICES ASSUME IInv, NEW k \in Keys, NEW a \in answers[k], NEW b \in answers[k]
               PROVE  a = b
    BY DEF OneAnswer
  <2>1. a \in Answers /\ b \in Answers
    BY DEF IInv, TypeOK
  <2>2. a.state = "Confirmed" <=> b.state = "Confirmed"
    BY DEF IInv, AnswersTrue
  <2>3. a.state = b.state
    BY <2>1, <2>2 DEF Answers, Terminal
  <2>4. a.by = b.by
    BY <2>1 DEF IInv, AnswerInv, AnsweredBy, Answers
  <2> QED BY <2>1, <2>3, <2>4 DEF Answers
<1> QED BY <1>1, Invariance, PTL

----------------------------------------------------------------------------
(* What the sinks are told.                                                *)

\* An outcome that is recorded, and a record a sweep returns for the caller
\* to emit, is in the history of answers before anybody is told of it.
ToldInv ==
    /\ ToldAfterDurable
    /\ \A k \in Keys :
          pc[k] \in {"recorded", "closed"} /\ outcome[k] = "Confirmed"
             => \E a \in answers[k] : a.state = "Confirmed"
    /\ \A s \in Sweepers : \A r \in settled[s] :
          r.state \in Terminal /\ \E a \in answers[r.key] : a.state = r.state

\* No answer is forgotten, and a key that is accounted for stays so.
Remembers ==
    \A k \in Keys : answers[k] \subseteq answers'[k] /\ (Accounted(k) => Accounted(k)')

\* Records reach the log, with or without a compaction; the terminal ones
\* among them are remembered.
LEMMA LogRemembers ==
    ASSUME IInv, NEW N \in SUBSET Records,
           wal' = wal \cup N \/ wal' = Compact(wal \cup N),
           \A k \in Keys : answers[k] \subseteq answers'[k],
           \A k \in Keys : k \in Resolved(N) => answers'[k] # {}
    PROVE  Remembers
<1>1. wal \in SUBSET Records /\ \A k \in Keys : k \in Resolved(wal) => answers[k] # {}
  BY DEF IInv, TypeOK, AnswerInv
<1>2. \A k \in Keys : k \in KeysOf(wal) =>
         k \in KeysOf(wal') \/ k \in Resolved(wal) \cup Resolved(N)
  BY <1>1, LogFacts
<1> QED BY <1>1, <1>2 DEF Remembers, Accounted

\* The append of one record, successful or not.
LEMMA AppendRemembers ==
    ASSUME IInv, NEW r \in Records, NEW who,
           \/ Lands(r) /\ answers' = Answered(answers, r, who)
           \/ MayLand(r, who)
    PROVE  Remembers
<1>1. answers \in [Keys -> SUBSET Answers]
  BY DEF IInv, TypeOK
<1>2. CASE UNCHANGED <<wal, answers>>
  BY <1>2 DEF Remembers, Accounted
<1>3. CASE ~ UNCHANGED <<wal, answers>>
  <2>1. /\ wal' = wal \cup {r} \/ wal' = Compact(wal \cup {r})
        /\ answers' = Answered(answers, r, who)
    BY <1>3 DEF Lands, MayLand
  <2>2. \A k \in Keys : answers[k] \subseteq answers'[k]
    BY <1>1, <2>1 DEF Answered
  <2>3. \A k \in Keys : k \in Resolved({r}) => answers'[k] # {}
    BY <1>1, <2>1 DEF Answered, Resolved, Records
  <2> QED BY <2>1, <2>2, <2>3, LogRemembers
<1> QED BY <1>2, <1>3

\* A compaction on its own.
LEMMA CompactRemembers ==
    ASSUME IInv, wal' = wal \/ wal' = Compact(wal), answers' = answers
    PROVE  Remembers
BY CompactStep DEF Remembers

\* A crash: what was on its way to the log may have reached it.
LEMMA CrashRemembers ==
    ASSUME IInv, Crash
    PROVE  Remembers
<1>1. IInv'
  BY CrashInv
<1>2. \A k \in Keys : answers[k] \subseteq answers'[k]
  BY DEF Crash
<1>3. wal \subseteq wal'
  BY DEF Crash
<1> QED BY <1>2, <1>3 DEF Remembers, Accounted, KeysOf

\* No step forgets an answer or loses track of a key.
LEMMA StepRemembers == IInv /\ [Next]_vars => Remembers
<1> SUFFICES ASSUME IInv, [Next]_vars PROVE Remembers
  OBVIOUS
<1>1. ASSUME UNCHANGED <<wal, answers>> PROVE Remembers
  BY <1>1 DEF Remembers, Accounted
<1>2. ASSUME NEW k \in Keys, PluginStep(k) PROVE Remembers
  <2>1. Rec(k, "Prepared") \in Records /\ Rec(k, outcome[k]) \in Records
    <3>1. "Prepared" \in States /\ outcome[k] \in States
      BY DEF IInv, TypeOK, States
    <3> QED BY <3>1, RecFacts
  <2>2. CASE IntentDurable(k)
    BY <2>1, <2>2, AppendRemembers DEF IntentDurable, Answered, Rec, Terminal
  <2>3. CASE IntentRefused(k)
    BY <2>1, <2>3, AppendRemembers DEF IntentRefused
  <2>4. CASE OutcomeDurable(k)
    BY <2>1, <2>4, AppendRemembers DEF OutcomeDurable
  <2>5. CASE OutcomeRefused(k)
    BY <2>1, <2>5, AppendRemembers DEF OutcomeRefused
  <2>6. CASE DropInvocation(k)
    BY <1>1, <2>1, <2>6, AppendRemembers DEF DropInvocation
  <2>7. CASE \/ BeginEffect(k) \/ TellIntent(k) \/ ActLands(k) \/ ActReturns(k)
             \/ OutcomeCloses(k) \/ TellOutcome(k)
    BY <1>1, <2>7 DEF BeginEffect, TellIntent, ActLands, ActReturns, OutcomeCloses, TellOutcome
  <2> QED BY <1>2, <2>2, <2>3, <2>4, <2>5, <2>6, <2>7 DEF PluginStep
<1>3. ASSUME NEW s \in Sweepers, SweepStep(s) PROVE Remembers
  <2>1. swpc[s] = "settling" => cur[s] \in Records
    BY DEF IInv, SweepInv
  <2>2. CASE SweepRecover(s)
    BY <2>2, CompactRemembers DEF SweepRecover
  <2>3. CASE SweepCompact(s)
    BY <2>3, CompactRemembers DEF SweepCompact
  <2>4. CASE SweepSettle(s)
    BY <2>1, <2>4, AppendRemembers DEF SweepSettle
  <2>5. CASE SweepFails(s)
    BY <1>1, <2>1, <2>5, AppendRemembers DEF SweepFails
  <2>6. CASE SweepDropped(s)
    BY <1>1, <2>1, <2>6, AppendRemembers DEF SweepDropped
  <2>7. CASE \/ SweepStart(s) \/ SweepAnswer(s) \/ SweepTell(s) \/ SweepReturns(s)
             \/ \E k \in Keys : SweepSkip(s, k) \/ SweepAsk(s, k)
    BY <1>1, <2>7 DEF SweepStart, SweepAnswer, SweepTell, SweepReturns, SweepSkip, SweepAsk
  <2> QED BY <1>3, <2>2, <2>3, <2>4, <2>5, <2>6, <2>7 DEF SweepStep
<1>4. CASE Crash
  BY <1>4, CrashRemembers
<1>5. CASE Restart
  BY <1>5, CompactRemembers DEF Restart
<1>6. CASE UNCHANGED vars
  BY <1>1, <1>6 DEF vars
<1> QED BY <1>2, <1>3, <1>4, <1>5, <1>6 DEF Next

\* Telling a sink of a durable state, or telling nobody anything.
LEMMA TellStep ==
    ASSUME IInv, ToldAfterDurable, Remembers, NEW k \in Keys, NEW st \in States,
           \/ UNCHANGED told
           \/ /\ Tell(k, st)
              /\ st \in Terminal => \E a \in answers[k] : a.state = st
              /\ st \notin Terminal => Accounted(k)
    PROVE  ToldAfterDurable'
<1>1. told \in [Keys -> Seq(States)]
  BY DEF IInv, TypeOK
<1>2. CASE UNCHANGED told
  BY <1>2 DEF ToldAfterDurable, Remembers, Accounted
<1>3. CASE /\ Tell(k, st)
           /\ st \in Terminal => \E a \in answers[k] : a.state = st
           /\ st \notin Terminal => Accounted(k)
  <2> SUFFICES ASSUME NEW j \in Keys, NEW i \in DOMAIN told'[j]
               PROVE  IF told'[j][i] \in Terminal
                      THEN \E a \in answers'[j] : a.state = told'[j][i]
                      ELSE Accounted(j)'
    BY DEF ToldAfterDurable, Accounted
  <2>1. CASE i \in DOMAIN told[j] /\ told'[j][i] = told[j][i]
    BY <2>1 DEF ToldAfterDurable, Remembers, Accounted
  <2>2. CASE j = k /\ told'[j][i] = st
    BY <1>3, <2>2 DEF Remembers
  <2>3. \/ i \in DOMAIN told[j] /\ told'[j][i] = told[j][i]
        \/ j = k /\ told'[j][i] = st
    <3>1. CASE j # k
      BY <1>1, <1>3, <3>1 DEF Tell
    <3>2. CASE j = k
      <4>1. told[k] \in Seq(States) /\ told'[k] = Append(told[k], st)
        BY <1>1, <1>3 DEF Tell
      <4>2. i \in 1 .. Len(told[k]) + 1
        BY <3>2, <4>1
      <4> QED BY <3>2, <4>1, <4>2
    <3> QED BY <3>1, <3>2
  <2> QED BY <2>1, <2>2, <2>3
<1> QED BY <1>2, <1>3

\* A step preserves that nobody is told what is not durable.
LEMMA ToldStep == IInv /\ ToldInv /\ [Next]_vars => ToldInv'
<1> SUFFICES ASSUME IInv, ToldInv, [Next]_vars PROVE ToldInv'
  OBVIOUS
<1>0. /\ Remembers
      /\ pc \in [Keys -> PluginPCs] /\ outcome \in [Keys -> {"Confirmed", "Unknown"}]
      /\ settled \in [Sweepers -> SUBSET Records]
      /\ answers \in [Keys -> SUBSET Answers]
  BY StepRemembers DEF IInv, TypeOK
<1>1. ToldAfterDurable'
  <2>1. ASSUME UNCHANGED told PROVE ToldAfterDurable'
    BY <1>0, <2>1 DEF ToldAfterDurable, Remembers, Accounted, ToldInv
  <2>2. ASSUME NEW k \in Keys, TellIntent(k) PROVE ToldAfterDurable'
    BY <1>0, <2>2, TellStep DEF TellIntent, Goto, ToldInv, States, Terminal, IInv, PluginInv
  <2>3. ASSUME NEW k \in Keys, TellOutcome(k) PROVE ToldAfterDurable'
    <3>1. outcome[k] \in States /\ outcome[k] \in {"Confirmed", "Unknown"} /\ pc[k] = "closed"
      BY <1>0, <2>3 DEF States, TellOutcome, Goto
    <3>2. Accounted(k) /\ (outcome[k] = "Confirmed" => \E a \in answers[k] : a.state = "Confirmed")
      BY <3>1 DEF IInv, PluginInv, ToldInv
    <3> QED BY <1>0, <2>3, <3>1, <3>2, TellStep DEF TellOutcome, ToldInv, Terminal
  <2>4. ASSUME NEW s \in Sweepers, SweepTell(s) PROVE ToldAfterDurable'
    <3>1. PICK r \in settled[s] : Tell(r.key, r.state)
      BY <2>4 DEF SweepTell
    <3>2. r.key \in Keys /\ r.state \in States
      BY <1>0 DEF Records
    <3>3. r.state \in Terminal /\ \E a \in answers[r.key] : a.state = r.state
      BY DEF ToldInv
    <3> QED BY <1>0, <3>1, <3>2, <3>3, TellStep DEF ToldInv
  <2>5. \/ UNCHANGED told
        \/ \E k \in Keys : TellIntent(k) \/ TellOutcome(k)
        \/ \E s \in Sweepers : SweepTell(s)
    BY DEF Next, vars, PluginStep, SweepStep, BeginEffect, IntentDurable, IntentRefused,
       ActLands, ActReturns, OutcomeDurable, OutcomeRefused, OutcomeCloses, DropInvocation,
       SweepStart, SweepRecover, SweepSkip, SweepAsk, SweepAnswer, SweepSettle, SweepCompact,
       SweepReturns, SweepFails, SweepDropped, EndSweep, Crash, Restart
  <2> QED BY <2>1, <2>2, <2>3, <2>4, <2>5
<1>2. ASSUME NEW k \in Keys, pc'[k] \in {"recorded", "closed"}, outcome'[k] = "Confirmed"
      PROVE  \E a \in answers'[k] : a.state = "Confirmed"
  <2>1. CASE pc[k] \in {"recorded", "closed"} /\ outcome[k] = "Confirmed"
    BY <1>0, <2>1 DEF ToldInv, Remembers
  <2>2. CASE OutcomeDurable(k)
    <3>1. outcome[k] = "Confirmed"
      BY <1>2, <2>2 DEF OutcomeDurable
    <3>2. answers' = [answers EXCEPT ![k] = @ \cup {[state |-> "Confirmed", by |-> "plugin"]}]
      BY <2>2, <3>1 DEF OutcomeDurable, Answered, Rec, Terminal
    <3>3. [state |-> "Confirmed", by |-> "plugin"] \in answers'[k]
      BY <1>0, <3>2
    <3> QED BY <3>3
  <2>3. \/ pc[k] \in {"recorded", "closed"} /\ outcome[k] = "Confirmed"
        \/ OutcomeDurable(k)
    <3>1. ASSUME NEW j \in Keys, PluginStep(j)
          PROVE  \/ pc[k] \in {"recorded", "closed"} /\ outcome[k] = "Confirmed"
                 \/ OutcomeDurable(k)
      BY <1>0, <1>2, <3>1 DEF PluginStep, Goto, BeginEffect, IntentDurable, IntentRefused,
         TellIntent, ActLands, ActReturns, OutcomeDurable, OutcomeRefused, OutcomeCloses,
         TellOutcome, DropInvocation
    <3>2. ASSUME NEW s \in Sweepers, SweepStep(s) PROVE UNCHANGED <<pc, outcome>>
      BY <3>2 DEF SweepStep, SweepStart, SweepRecover, SweepSkip, SweepAsk, SweepAnswer,
         SweepSettle, SweepCompact, SweepTell, SweepReturns, SweepFails, SweepDropped,
         EndSweep, plugin
    <3>3. CASE Crash
      BY <1>0, <1>2, <3>3 DEF Crash, Holding
    <3> QED BY <1>2, <3>1, <3>2, <3>3 DEF Next, Restart, vars, plugin
  <2> QED BY <2>1, <2>2, <2>3
<1>3. ASSUME NEW s \in Sweepers, NEW r \in settled'[s]
      PROVE  r.state \in Terminal /\ \E a \in answers'[r.key] : a.state = r.state
  <2>1. CASE r \in settled[s]
    <3>1. r.key \in Keys
      BY <1>0, <2>1 DEF Records
    <3> QED BY <1>0, <2>1, <3>1 DEF ToldInv, Remembers
  <2>2. CASE SweepSettle(s) /\ r = cur[s]
    <3>1. cur[s] \in Records /\ cur[s].key \in Keys /\ cur[s].state \in Terminal
      BY <2>2 DEF IInv, SweepInv, SweepSettle, Records, Terminal
    <3>2. answers' = [answers EXCEPT ![cur[s].key] =
                         @ \cup {[state |-> cur[s].state, by |-> "sweep"]}]
      BY <2>2, <3>1 DEF SweepSettle, Answered
    <3>3. [state |-> cur[s].state, by |-> "sweep"] \in answers'[cur[s].key]
      BY <1>0, <3>1, <3>2
    <3> QED BY <2>2, <3>1, <3>3
  <2>3. r \in settled[s] \/ (SweepSettle(s) /\ r = cur[s])
    <3>1. ASSUME NEW k \in Keys, PluginStep(k) PROVE UNCHANGED settled
      BY <3>1 DEF PluginStep, BeginEffect, IntentDurable, IntentRefused, TellIntent,
         ActLands, ActReturns, OutcomeDurable, OutcomeRefused, OutcomeCloses,
         TellOutcome, DropInvocation, sweep
    <3>2. ASSUME NEW t \in Sweepers, SweepStep(t)
          PROVE  r \in settled[s] \/ (SweepSettle(s) /\ r = cur[s])
      BY <1>0, <1>3, <3>2 DEF SweepStep, SweepStart, SweepRecover, SweepSkip, SweepAsk,
         SweepAnswer, SweepSettle, SweepCompact, SweepTell, SweepReturns, SweepFails,
         SweepDropped, EndSweep
    <3>3. CASE Crash
      BY <1>3, <3>3 DEF Crash
    <3> QED BY <1>3, <3>1, <3>2, <3>3 DEF Next, Restart, vars, sweep
  <2> QED BY <2>1, <2>2, <2>3
<1> QED BY <1>1, <1>2, <1>3 DEF ToldInv

\* A sink never hears of a state the log did not hold first: no crash,
\* refused append or overlapping sweep makes emit_effect report early.
THEOREM ToldAfterDurableHolds == Spec => []ToldAfterDurable
<1>1. Init => ToldInv
  BY DEF Init, ToldInv, ToldAfterDurable
<1>2. ToldInv => ToldAfterDurable
  BY DEF ToldInv
<1> QED BY <1>1, <1>2, Invariance, ToldStep, PTL DEF Spec
-----------------------------------------------------------------------------
(* Elicitation, for every number of requests, ids, subjects and approvers: *)
(* an approval that lets a request through is genuine and spent once, a    *)
(* spent id is not polled again, and the channel implements Approval.      *)

USE ElicitationAssumption DEF NoId, NoOne

----------------------------------------------------------------------------
(* The inductive invariant.                                                *)

\* What is known of an id: the OP's word, the question, and the correlation.
IdInv(i) ==
    /\ op[i] = "idle" =>
          /\ asked[i] = [subject |-> "none", from |-> "none"] /\ i \notin live
          /\ \A r \in Requests : Id(r) # i
    /\ op[i] # "idle" => asked[i] \in [subject : Subjects, from : Approvers]
    /\ by[i] # NoOne <=> op[i] \in {"approved", "spent"}
    /\ i \in live =>
          /\ asked[i] = [subject |-> bind[i], from |-> expected[i]]
          /\ resolved[i] # NoOne => op[i] = "spent" /\ resolved[i] = by[i]
          /\ op[i] = "spent" => resolved[i] # NoOne \/ poll[i] # "free"

\* A request that has asked the OP and not yet stored the correlation: others
\* that carry the id find nothing in the store.
PutInv(r) ==
    stage[r] = "put" =>
       /\ asked[Id(r)] = [subject |-> el[r].subject, from |-> el[r].from]
       /\ op[Id(r)] # "spent"
       /\ Id(r) \notin live
       /\ \A s \in Requests : s # r /\ Id(s) = Id(r) =>
             stage[s] \in {"get", "ended"} /\ verdict[s] # "approved"

\* One request at a time is between claiming an id's poll and settling it, and
\* what it learnt decides whether the id can be polled again.
Polling == {"poll", "settle"}

PollInv(r) ==
    /\ stage[r] \in Polling =>
          /\ Id(r) \in live => poll[Id(r)] \in {r, "uncertain"}
          /\ \A s \in Requests : stage[s] \in Polling /\ Id(s) = Id(r) => s = r
    /\ stage[r] = "poll" => op[Id(r)] # "spent"
    /\ stage[r] = "settle" =>
          /\ op[Id(r)] = "spent" => ans[r] \in {"approved", "lost", "garbled"}
          /\ ans[r] = "approved" => op[Id(r)] = "spent"

\* A request carries an id the OP issued once it has one, and a verdict once
\* it has ended; an approval it went through on is genuine and, unless it was
\* a peek, gone from the store.
RequestInv(r) ==
    /\ stage[r] = "dispatch" => el[r] \in First
    /\ stage[r] \notin {"idle", "dispatch", "ended"} => Id(r) \in Ids
    /\ stage[r] # "ended" => verdict[r] = "none"
    /\ verdict[r] = "approved" =>
          /\ Id(r) \in Ids
          /\ asked[Id(r)] = [subject |-> el[r].subject, from |-> by[Id(r)]]
          /\ op[Id(r)] = "spent"
          /\ ~el[r].peek => Id(r) \notin live

ChannelInv ==
    /\ \A i \in Ids : IdInv(i)
    /\ \A r \in Requests : RequestInv(r) /\ PutInv(r) /\ PollInv(r)
    /\ AtMostOneSpender

----------------------------------------------------------------------------
(* The ways a step moves the channel.  Every action is one of them.        *)

\* A request goes no further than it was, ends without an approval, or reads a
\* correlation that is there.
RequestWanes(r) ==
    \/ stage'[r] = stage[r] /\ verdict'[r] = verdict[r] /\ ans'[r] = ans[r]
    \/ stage'[r] = "ended" /\ stage[r] # "ended" /\ verdict'[r] # "approved"
    \/ /\ stage[r] \in {"get", "claim", "settle"} /\ Id(r) \in live
       /\ stage'[r] \in {"claim", "validate"} /\ verdict'[r] = verdict[r]

\* The store forgets correlations, and claims of those it keeps become uncertain.
StoreWanes ==
    /\ live' \subseteq live
    /\ \A i \in live' :
          /\ bind'[i] = bind[i] /\ expected'[i] = expected[i]
          /\ resolved'[i] = resolved[i]
          /\ poll'[i] = poll[i] \/ poll'[i] = "uncertain"

Wanes ==
    /\ UNCHANGED <<op, by, asked, el>>
    /\ \A r \in Requests : RequestWanes(r)
    /\ StoreWanes

\* Steps of less than that keep the invariant.
LEMMA WanesKeeps ==
    ASSUME ElicitTypeOK, ChannelInv, Wanes
    PROVE  ChannelInv'
<1>0. \A s \in Requests : Id(s)' = Id(s)
  BY DEF Wanes, Id
<1>1. ASSUME NEW j \in Ids PROVE IdInv(j)'
  BY <1>0, <1>1 DEF ChannelInv, IdInv, Wanes, StoreWanes
<1>2. ASSUME NEW s \in Requests PROVE RequestInv(s)'
  BY <1>0, <1>2 DEF ChannelInv, RequestInv, Wanes, StoreWanes, RequestWanes
<1>3. ASSUME NEW s \in Requests PROVE PutInv(s)'
  BY <1>0, <1>3 DEF ChannelInv, PutInv, Wanes, StoreWanes, RequestWanes
<1>4. ASSUME NEW s \in Requests PROVE PollInv(s)'
  BY <1>0, <1>4 DEF ChannelInv, PollInv, Polling, Wanes, StoreWanes, RequestWanes
<1>5. AtMostOneSpender'
  BY <1>0 DEF ChannelInv, AtMostOneSpender, Spenders, Spent, Wanes, RequestWanes
<1> QED BY <1>1, <1>2, <1>3, <1>4, <1>5 DEF ChannelInv

\* Only request r moves, and in the store only its own id.
OnlyOf(r) ==
    /\ Id(r) \in Ids
    /\ UNCHANGED <<by, asked, el>>
    /\ \A s \in Requests : s # r =>
          stage'[s] = stage[s] /\ verdict'[s] = verdict[s] /\ ans'[s] = ans[s]
    /\ \A i \in Ids : i # Id(r) =>
          /\ op'[i] = op[i] /\ bind'[i] = bind[i] /\ expected'[i] = expected[i]
          /\ resolved'[i] = resolved[i] /\ poll'[i] = poll[i]
          /\ i \in live' <=> i \in live

\* What such a step leaves alone: the other ids and the requests that carry them.
LEMMA OthersKeep ==
    ASSUME ElicitTypeOK, ChannelInv, NEW r \in Requests, OnlyOf(r)
    PROVE  /\ \A s \in Requests : Id(s)' = Id(s)
           /\ \A j \in Ids \ {Id(r)} : IdInv(j)'
           /\ \A s \in Requests : Id(s) # Id(r) =>
                 RequestInv(s)' /\ PutInv(s)' /\ PollInv(s)'
<1>0. \A s \in Requests : Id(s)' = Id(s)
  BY DEF OnlyOf, Id
<1>1. ASSUME NEW j \in Ids, j # Id(r) PROVE IdInv(j)'
  BY <1>0, <1>1 DEF ChannelInv, IdInv, OnlyOf
<1>2. ASSUME NEW s \in Requests, Id(s) # Id(r) PROVE RequestInv(s)'
  BY <1>0, <1>2 DEF ChannelInv, RequestInv, OnlyOf
<1>3. ASSUME NEW s \in Requests, Id(s) # Id(r) PROVE PutInv(s)'
  <2>1. stage[s] = "put" => Id(s) \in Ids
    BY <1>3 DEF ChannelInv, RequestInv
  <2> QED BY <1>0, <1>3, <2>1 DEF ChannelInv, PutInv, OnlyOf
<1>4. ASSUME NEW s \in Requests, Id(s) # Id(r) PROVE PollInv(s)'
  <2>1. stage[s] \in Polling => Id(s) \in Ids
    BY <1>4 DEF ChannelInv, RequestInv, Polling
  <2> QED BY <1>0, <1>4, <2>1 DEF ChannelInv, PollInv, Polling, OnlyOf
<1> QED BY <1>0, <1>1, <1>2, <1>3, <1>4

\* Request r acquires the poll of its id.
Acquires(r) ==
    /\ OnlyOf(r) /\ UNCHANGED op
    /\ stage[r] = "claim" /\ Id(r) \in live /\ resolved[Id(r)] = NoOne
    /\ poll[Id(r)] = "free" /\ poll'[Id(r)] = r /\ Id(r) \in live'
    /\ bind'[Id(r)] = bind[Id(r)] /\ expected'[Id(r)] = expected[Id(r)]
    /\ resolved'[Id(r)] = resolved[Id(r)]
    /\ \/ stage'[r] = "poll" /\ verdict'[r] = verdict[r]
       \/ stage'[r] = "ended" /\ verdict'[r] # "approved"

\* A claim is given only where no request is polling and the OP's tokens have
\* not been handed out.
LEMMA AcquiresKeeps ==
    ASSUME ElicitTypeOK, ChannelInv, NEW r \in Requests, Acquires(r)
    PROVE  ChannelInv'
<1>o. OnlyOf(r)
  BY DEF Acquires
<1>0. \A s \in Requests : Id(s)' = Id(s)
  BY <1>o, OthersKeep
<1>i. Id(r) \in Ids
  BY <1>o DEF OnlyOf
<1>n. "free" \notin Requests
  OBVIOUS
<1>s. /\ op[Id(r)] # "spent"
      /\ \A s \in Requests : Id(s) = Id(r) => stage[s] \notin {"put", "poll", "settle"}
  <2>1. op[Id(r)] # "spent"
    BY <1>i DEF Acquires, ChannelInv, IdInv
  <2>2. ASSUME NEW s \in Requests, Id(s) = Id(r)
        PROVE  stage[s] \notin {"put", "poll", "settle"}
    BY <1>n, <2>2 DEF Acquires, ChannelInv, PollInv, PutInv, Polling
  <2> QED BY <2>1, <2>2
<1>1. ASSUME NEW j \in Ids PROVE IdInv(j)'
  <2>1. CASE j = Id(r)
    <3>1. IdInv(Id(r))
      BY <1>i DEF ChannelInv
    <3>2. IdInv(Id(r))'
      BY <3>1, <1>i, <1>0, <1>s DEF IdInv, Acquires, OnlyOf
    <3> QED BY <3>2, <2>1, <1>0, <1>o DEF IdInv, OnlyOf, Id
  <2> QED BY <2>1, <1>1, <1>o, OthersKeep
<1>2. ASSUME NEW s \in Requests PROVE RequestInv(s)'
  <2>1. CASE Id(s) = Id(r)
    BY <1>0, <1>2, <1>o, <1>i, <1>s, <2>1 DEF ChannelInv, RequestInv, OnlyOf, Acquires
  <2> QED BY <2>1, <1>2, <1>o, OthersKeep
<1>3. ASSUME NEW s \in Requests PROVE PutInv(s)'
  <2>1. CASE Id(s) = Id(r)
    BY <1>0, <1>3, <1>o, <1>i, <1>s, <2>1 DEF PutInv, OnlyOf, Acquires
  <2> QED BY <2>1, <1>3, <1>o, OthersKeep
<1>4. ASSUME NEW s \in Requests PROVE PollInv(s)'
  <2>1. CASE Id(s) = Id(r)
    BY <1>0, <1>4, <1>o, <1>i, <1>s, <2>1 DEF PollInv, Polling, OnlyOf, Acquires
  <2> QED BY <2>1, <1>4, <1>o, OthersKeep
<1>5. AtMostOneSpender'
  BY <1>0, <1>o DEF ChannelInv, RequestInv, AtMostOneSpender, Spenders, Spent, Acquires, OnlyOf
<1> QED BY <1>1, <1>2, <1>3, <1>4, <1>5 DEF ChannelInv

\* Request r frees the poll it made: nothing was spent, or what was is recorded.
Frees(r) ==
    /\ OnlyOf(r) /\ UNCHANGED op
    /\ stage[r] = "settle" /\ poll'[Id(r)] = "free"
    /\ Id(r) \in live /\ Id(r) \in live'
    /\ bind'[Id(r)] = bind[Id(r)] /\ expected'[Id(r)] = expected[Id(r)]
    /\ \/ resolved'[Id(r)] = resolved[Id(r)] /\ op[Id(r)] # "spent"
       \/ resolved'[Id(r)] = by[Id(r)] /\ op[Id(r)] = "spent"
    /\ \/ stage'[r] = "validate" /\ verdict'[r] = verdict[r]
       \/ stage'[r] = "ended" /\ verdict'[r] # "approved"

\* No other request was polling, so none is left with a claim that is free.
LEMMA FreesKeeps ==
    ASSUME ElicitTypeOK, ChannelInv, NEW r \in Requests, Frees(r)
    PROVE  ChannelInv'
<1>o. OnlyOf(r)
  BY DEF Frees
<1>0. \A s \in Requests : Id(s)' = Id(s)
  BY <1>o, OthersKeep
<1>i. Id(r) \in Ids
  BY <1>o DEF OnlyOf
<1>s. \A s \in Requests : s # r /\ Id(s) = Id(r) => stage[s] \notin Polling
  BY DEF Frees, ChannelInv, PollInv, Polling
<1>1. ASSUME NEW j \in Ids PROVE IdInv(j)'
  <2>1. CASE j = Id(r)
    <3>1. IdInv(Id(r))
      BY <1>i DEF ChannelInv
    <3>2. IdInv(Id(r))'
      BY <3>1, <1>i, <1>0, <1>s, <1>o DEF IdInv, Frees, OnlyOf
    <3> QED BY <3>2, <2>1, <1>0, <1>o DEF IdInv, OnlyOf, Id
  <2> QED BY <2>1, <1>1, <1>o, OthersKeep
<1>2. ASSUME NEW s \in Requests PROVE RequestInv(s)'
  <2>1. CASE Id(s) = Id(r)
    BY <1>0, <1>2, <1>o, <1>i, <1>s, <2>1 DEF ChannelInv, RequestInv, OnlyOf, Frees
  <2> QED BY <2>1, <1>2, <1>o, OthersKeep
<1>3. ASSUME NEW s \in Requests PROVE PutInv(s)'
  <2>1. CASE Id(s) = Id(r)
    BY <1>0, <1>3, <1>o, <1>i, <1>s, <2>1 DEF ChannelInv, PutInv, OnlyOf, Frees
  <2> QED BY <2>1, <1>3, <1>o, OthersKeep
<1>4. ASSUME NEW s \in Requests PROVE PollInv(s)'
  <2>1. CASE Id(s) = Id(r)
    BY <1>0, <1>4, <1>o, <1>i, <1>s, <2>1 DEF ChannelInv, PollInv, Polling, OnlyOf, Frees
  <2> QED BY <2>1, <1>4, <1>o, OthersKeep
<1>5. AtMostOneSpender'
  BY <1>0, <1>o, <1>s, <1>i DEF ChannelInv, RequestInv, AtMostOneSpender, Spenders, Spent, Frees, OnlyOf
<1> QED BY <1>1, <1>2, <1>3, <1>4, <1>5 DEF ChannelInv

\* Request r stores its correlation.
Stores(r) ==
    /\ OnlyOf(r) /\ UNCHANGED op
    /\ stage[r] = "put" /\ Id(r) \in live'
    /\ bind'[Id(r)] = el[r].subject /\ expected'[Id(r)] = el[r].from
    /\ resolved'[Id(r)] = NoOne /\ poll'[Id(r)] = "free"
    /\ \/ stage'[r] = "get" /\ verdict'[r] = verdict[r]
       \/ stage'[r] = "ended" /\ verdict'[r] # "approved"

\* Before it did, nobody could get beyond reading the store.
LEMMA StoresKeeps ==
    ASSUME ElicitTypeOK, ChannelInv, NEW r \in Requests, Stores(r)
    PROVE  ChannelInv'
<1>o. OnlyOf(r)
  BY DEF Stores
<1>0. \A s \in Requests : Id(s)' = Id(s)
  BY <1>o, OthersKeep
<1>i. Id(r) \in Ids
  BY <1>o DEF OnlyOf
<1>s. /\ op[Id(r)] # "spent"
      /\ asked[Id(r)] = [subject |-> el[r].subject, from |-> el[r].from]
      /\ \A s \in Requests : s # r /\ Id(s) = Id(r) =>
            stage[s] \in {"get", "ended"} /\ verdict[s] # "approved"
  BY DEF Stores, ChannelInv, PutInv
<1>1. ASSUME NEW j \in Ids PROVE IdInv(j)'
  <2>1. CASE j = Id(r)
    <3>1. IdInv(Id(r))
      BY <1>i DEF ChannelInv
    <3>2. IdInv(Id(r))'
      BY <3>1, <1>i, <1>0, <1>s, <1>o DEF IdInv, Stores, OnlyOf
    <3> QED BY <3>2, <2>1, <1>0, <1>o DEF IdInv, OnlyOf, Id
  <2> QED BY <2>1, <1>1, <1>o, OthersKeep
<1>2. ASSUME NEW s \in Requests PROVE RequestInv(s)'
  <2>1. CASE Id(s) = Id(r)
    BY <1>0, <1>2, <1>o, <1>i, <1>s, <2>1 DEF ChannelInv, RequestInv, OnlyOf, Stores
  <2> QED BY <2>1, <1>2, <1>o, OthersKeep
<1>3. ASSUME NEW s \in Requests PROVE PutInv(s)'
  <2>1. CASE Id(s) = Id(r)
    BY <1>0, <1>3, <1>o, <1>i, <1>s, <2>1 DEF ChannelInv, PutInv, OnlyOf, Stores
  <2> QED BY <2>1, <1>3, <1>o, OthersKeep
<1>4. ASSUME NEW s \in Requests PROVE PollInv(s)'
  <2>1. CASE Id(s) = Id(r)
    BY <1>0, <1>4, <1>o, <1>i, <1>s, <2>1 DEF ChannelInv, PollInv, Polling, OnlyOf, Stores
  <2> QED BY <2>1, <1>4, <1>o, OthersKeep
<1>5. AtMostOneSpender'
  BY <1>0, <1>o, <1>s, <1>i DEF ChannelInv, RequestInv, AtMostOneSpender, Spenders, Spent, Stores, OnlyOf
<1> QED BY <1>1, <1>2, <1>3, <1>4, <1>5 DEF ChannelInv

\* Request r goes through on a stored approval: a peek leaves it, any other
\* redemption takes it away.
Redeems(r) ==
    /\ OnlyOf(r) /\ UNCHANGED op
    /\ stage[r] = "validate" /\ stage'[r] = "ended" /\ verdict'[r] = "approved"
    /\ Redeemable(r) /\ Genuine(r)
    /\ IF el[r].peek
       THEN /\ Id(r) \in live'
            /\ bind'[Id(r)] = bind[Id(r)] /\ expected'[Id(r)] = expected[Id(r)]
            /\ resolved'[Id(r)] = resolved[Id(r)] /\ poll'[Id(r)] = poll[Id(r)]
       ELSE Id(r) \notin live'

\* What it went through on is what was asked, said and spent; whoever redeemed
\* before it would have taken the correlation away.
LEMMA RedeemsKeeps ==
    ASSUME ElicitTypeOK, ChannelInv, NEW r \in Requests, Redeems(r)
    PROVE  ChannelInv'
<1>o. OnlyOf(r)
  BY DEF Redeems
<1>0. \A s \in Requests : Id(s)' = Id(s)
  BY <1>o, OthersKeep
<1>i. Id(r) \in Ids
  BY <1>o DEF OnlyOf
<1>s. /\ op[Id(r)] = "spent" /\ Id(r) \in live
      /\ asked[Id(r)] = [subject |-> el[r].subject, from |-> by[Id(r)]]
  BY <1>i DEF Redeems, Redeemable, Genuine, Present, Bound, ChannelInv, IdInv
<1>1. ASSUME NEW j \in Ids PROVE IdInv(j)'
  <2>1. CASE j = Id(r)
    <3>1. IdInv(Id(r))
      BY <1>i DEF ChannelInv
    <3>2. IdInv(Id(r))'
      BY <3>1, <1>i, <1>0, <1>s, <1>o DEF IdInv, Redeems, OnlyOf
    <3> QED BY <3>2, <2>1, <1>0, <1>o DEF IdInv, OnlyOf, Id
  <2> QED BY <2>1, <1>1, <1>o, OthersKeep
<1>2. ASSUME NEW s \in Requests PROVE RequestInv(s)'
  <2>1. CASE Id(s) = Id(r)
    BY <1>0, <1>2, <1>o, <1>i, <1>s, <2>1 DEF ChannelInv, RequestInv, OnlyOf, Redeems
  <2> QED BY <2>1, <1>2, <1>o, OthersKeep
<1>3. ASSUME NEW s \in Requests PROVE PutInv(s)'
  <2>1. CASE Id(s) = Id(r)
    BY <1>0, <1>3, <1>o, <1>i, <1>s, <2>1 DEF ChannelInv, PutInv, OnlyOf, Redeems
  <2> QED BY <2>1, <1>3, <1>o, OthersKeep
<1>4. ASSUME NEW s \in Requests PROVE PollInv(s)'
  <2>1. CASE Id(s) = Id(r)
    BY <1>0, <1>4, <1>o, <1>i, <1>s, <2>1 DEF ChannelInv, PollInv, Polling, OnlyOf, Redeems
  <2> QED BY <2>1, <1>4, <1>o, OthersKeep
<1>5. AtMostOneSpender'
  <2> SUFFICES ASSUME NEW i \in Ids, NEW s \in Spenders(i)', NEW t \in Spenders(i)'
               PROVE  s = t
    BY DEF AtMostOneSpender
  <2>1. \A u \in Requests \ {r} : u \in Spenders(i)' => u \in Spenders(i) /\ i \notin live
    <3> SUFFICES ASSUME NEW u \in Requests, u # r, u \in Spenders(i)'
                 PROVE  u \in Spenders(i) /\ i \notin live
      OBVIOUS
    <3>1. verdict'[u] = "approved" /\ ~el'[u].peek /\ Id(u)' = i
      BY DEF Spenders, Spent
    <3>2. verdict[u] = "approved" /\ ~el[u].peek /\ Id(u) = i
      BY <3>1, <1>0, <1>o DEF OnlyOf
    <3>3. RequestInv(u)
      BY DEF ChannelInv
    <3> QED BY <3>2, <3>3 DEF Spenders, Spent, RequestInv
  <2>2. r \in Spenders(i)' => i \in live
    BY <1>0, <1>s DEF Spenders, Spent
  <2>3. s \in Requests /\ t \in Requests
    BY DEF Spenders, Spent
  <2>4. \A u, v \in Spenders(i) : u = v
    BY DEF ChannelInv, AtMostOneSpender
  <2> QED BY <2>1, <2>2, <2>3, <2>4
<1> QED BY <1>1, <1>2, <1>3, <1>4, <1>5 DEF ChannelInv

\* Request r polls the OP.
Polls(r) ==
    /\ OnlyOf(r) /\ UNCHANGED <<live, bind, expected, resolved, poll, verdict>>
    /\ stage[r] = "poll" /\ stage'[r] = "settle"
    /\ \/ /\ op[Id(r)] = "approved" /\ op'[Id(r)] = "spent"
          /\ ans'[r] \in {"approved", "lost", "garbled"}
       \/ /\ op[Id(r)] = "refused" /\ op'[Id(r)] = "closed"
          /\ ans'[r] # "approved"
       \/ op'[Id(r)] = op[Id(r)] /\ ans'[r] # "approved"

\* The tokens are handed out to the request that holds the claim.
LEMMA PollsKeeps ==
    ASSUME ElicitTypeOK, ChannelInv, NEW r \in Requests, Polls(r)
    PROVE  ChannelInv'
<1>o. OnlyOf(r)
  BY DEF Polls
<1>0. \A s \in Requests : Id(s)' = Id(s)
  BY <1>o, OthersKeep
<1>i. Id(r) \in Ids
  BY <1>o DEF OnlyOf
<1>s. /\ op[Id(r)] # "spent" /\ op[Id(r)] # "idle"
      /\ Id(r) \in live => poll[Id(r)] # "free"
      /\ \A s \in Requests : s # r /\ Id(s) = Id(r) =>
            stage[s] \notin {"put", "poll", "settle"} /\ verdict[s] # "approved"
  BY <1>i DEF Polls, ChannelInv, IdInv, RequestInv, PutInv, PollInv, Polling
<1>1. ASSUME NEW j \in Ids PROVE IdInv(j)'
  <2>1. CASE j = Id(r)
    <3>1. IdInv(Id(r))
      BY <1>i DEF ChannelInv
    <3>2. IdInv(Id(r))'
      BY <3>1, <1>i, <1>0, <1>s, <1>o DEF IdInv, Polls, OnlyOf
    <3> QED BY <3>2, <2>1, <1>0, <1>o DEF IdInv, OnlyOf, Id
  <2> QED BY <2>1, <1>1, <1>o, OthersKeep
<1>2. ASSUME NEW s \in Requests PROVE RequestInv(s)'
  <2>1. CASE Id(s) = Id(r)
    BY <1>0, <1>2, <1>o, <1>i, <1>s, <2>1 DEF ChannelInv, RequestInv, OnlyOf, Polls
  <2> QED BY <2>1, <1>2, <1>o, OthersKeep
<1>3. ASSUME NEW s \in Requests PROVE PutInv(s)'
  <2>1. CASE Id(s) = Id(r)
    BY <1>0, <1>3, <1>o, <1>i, <1>s, <2>1 DEF ChannelInv, PutInv, OnlyOf, Polls
  <2> QED BY <2>1, <1>3, <1>o, OthersKeep
<1>4. ASSUME NEW s \in Requests PROVE PollInv(s)'
  <2>1. CASE Id(s) = Id(r)
    BY <1>0, <1>4, <1>o, <1>i, <1>s, <2>1 DEF ChannelInv, PollInv, Polling, OnlyOf, Polls
  <2> QED BY <2>1, <1>4, <1>o, OthersKeep
<1>5. AtMostOneSpender'
  BY <1>0, <1>o, <1>s, <1>i DEF ChannelInv, RequestInv, AtMostOneSpender, Spenders, Spent, Polls, OnlyOf
<1> QED BY <1>1, <1>2, <1>3, <1>4, <1>5 DEF ChannelInv

\* Request r arrives with nothing, or with an id the OP issued, and goes on or
\* fails at once.
Arrives(r) ==
    /\ stage[r] = "idle"
    /\ UNCHANGED <<op, by, asked, live, bind, expected, resolved, poll, ans>>
    /\ \A s \in Requests : s # r =>
          stage'[s] = stage[s] /\ verdict'[s] = verdict[s] /\ el'[s] = el[s]
    /\ el'[r] \in First \/ (el'[r].id \in Ids /\ op[el'[r].id] # "idle")
    /\ \/ el'[r] \in First /\ stage'[r] = "dispatch" /\ verdict'[r] = verdict[r]
       \/ el'[r].id \in Ids /\ stage'[r] = "get" /\ verdict'[r] = verdict[r]
       \/ stage'[r] = "ended" /\ verdict'[r] # "approved"

\* An arrival is bound to nothing yet.
LEMMA ArrivesKeeps ==
    ASSUME ElicitTypeOK, ChannelInv, NEW r \in Requests, Arrives(r)
    PROVE  ChannelInv'
<1>0. \A s \in Requests : s # r =>
         Id(s)' = Id(s) /\ stage'[s] = stage[s] /\ verdict'[s] = verdict[s] /\ el'[s] = el[s]
  BY DEF Arrives, Id
<1>r. /\ Id(r)' = NoId \/ (Id(r)' \in Ids /\ op[Id(r)'] # "idle")
      /\ \/ Id(r)' = NoId /\ stage'[r] = "dispatch" /\ el'[r] \in First
         \/ Id(r)' \in Ids /\ stage'[r] = "get"
         \/ stage'[r] = "ended"
  BY DEF Arrives, First, Id
<1>v. verdict'[r] # "approved" /\ (stage'[r] # "ended" => verdict'[r] = "none")
  BY DEF Arrives, ChannelInv, RequestInv
<1>1. ASSUME NEW j \in Ids PROVE IdInv(j)'
  <2>1. ASSUME NEW s \in Requests, op[j] = "idle" PROVE Id(s)' # j
    <3>1. CASE s = r
      BY <1>r, <1>1, <2>1, <3>1
    <3>2. CASE s # r
      BY <1>0, <1>1, <2>1, <3>2 DEF ChannelInv, IdInv
    <3> QED BY <3>1, <3>2
  <2> QED BY <1>1, <2>1 DEF ChannelInv, IdInv, Arrives
<1>2. ASSUME NEW s \in Requests PROVE RequestInv(s)'
  <2>1. CASE s = r
    BY <1>r, <1>v, <2>1 DEF RequestInv, Arrives
  <2> QED BY <1>0, <1>2, <2>1 DEF ChannelInv, RequestInv, Arrives
<1>3. ASSUME NEW s \in Requests PROVE PutInv(s)'
  <2>1. CASE s = r
    BY <1>r, <2>1 DEF PutInv
  <2>2. CASE s # r
    <3>1. stage[s] = "put" => Id(s) \in Ids
      BY <1>3 DEF ChannelInv, RequestInv
    <3> QED BY <1>0, <1>r, <1>v, <1>3, <2>2, <3>1 DEF ChannelInv, PutInv, Arrives
  <2> QED BY <2>1, <2>2
<1>4. ASSUME NEW s \in Requests PROVE PollInv(s)'
  <2>1. CASE s = r
    BY <1>r, <2>1 DEF PollInv, Polling
  <2> QED BY <1>0, <1>r, <1>4, <2>1 DEF ChannelInv, PollInv, Polling, Arrives
<1>5. AtMostOneSpender'
  BY <1>0, <1>v DEF ChannelInv, AtMostOneSpender, Spenders, Spent, Arrives
<1> QED BY <1>1, <1>2, <1>3, <1>4, <1>5 DEF ChannelInv

\* Request r has the OP ask a person, and learns the id or not.
Asks(r, i) ==
    /\ stage[r] = "dispatch" /\ op[i] = "idle" /\ op'[i] = "waiting"
    /\ asked'[i] = [subject |-> el[r].subject, from |-> el[r].from]
    /\ \A j \in Ids : j # i => op'[j] = op[j] /\ asked'[j] = asked[j]
    /\ UNCHANGED <<by, live, bind, expected, resolved, poll, ans>>
    /\ \A s \in Requests : s # r =>
          stage'[s] = stage[s] /\ verdict'[s] = verdict[s] /\ el'[s] = el[s]
    /\ el'[r].subject = el[r].subject /\ el'[r].from = el[r].from
    /\ \/ el'[r].id = i /\ stage'[r] = "put" /\ verdict'[r] = verdict[r]
       \/ el'[r] = el[r] /\ stage'[r] = "ended" /\ verdict'[r] # "approved"

\* An id is new when the OP issues it: nobody carries it.
LEMMA AsksKeeps ==
    ASSUME ElicitTypeOK, ChannelInv, NEW r \in Requests, NEW i \in Ids, Asks(r, i)
    PROVE  ChannelInv'
<1>0. \A s \in Requests : s # r => Id(s)' = Id(s)
  BY DEF Asks, Id
<1>n. /\ \A s \in Requests : Id(s) # i
      /\ i \notin live /\ by[i] = NoOne
  BY DEF Asks, ChannelInv, IdInv
<1>r. \/ Id(r)' = i /\ stage'[r] = "put" /\ verdict'[r] = verdict[r]
      \/ Id(r)' = Id(r) /\ stage'[r] = "ended" /\ verdict'[r] # "approved"
  BY DEF Asks, Id
<1>f. el[r].subject \in Subjects /\ el[r].from \in Approvers
  BY DEF Asks, ChannelInv, RequestInv, First
<1>1. ASSUME NEW j \in Ids PROVE IdInv(j)'
  <2>1. CASE j = i
    BY <1>n, <1>f, <2>1 DEF IdInv, Asks
  <2>2. CASE j # i
    <3>1. op[j] = "idle" => \A s \in Requests : Id(s)' # j
      BY <1>0, <1>r, <1>1, <2>2 DEF ChannelInv, IdInv
    <3> QED BY <1>1, <2>2, <3>1 DEF ChannelInv, IdInv, Asks
  <2> QED BY <2>1, <2>2
<1>2. ASSUME NEW s \in Requests PROVE RequestInv(s)'
  <2>1. CASE s = r
    BY <1>r, <2>1 DEF ChannelInv, RequestInv, Asks
  <2>2. CASE s # r
    BY <1>0, <1>n, <1>2, <2>2 DEF ChannelInv, RequestInv, Asks
  <2> QED BY <2>1, <2>2
<1>3. ASSUME NEW s \in Requests PROVE PutInv(s)'
  <2>1. CASE s = r
    BY <1>r, <1>0, <1>n, <2>1 DEF PutInv, Asks
  <2>2. CASE s # r
    <3>1. stage[s] = "put" => Id(s) \in Ids
      BY <1>3 DEF ChannelInv, RequestInv
    <3> QED BY <1>0, <1>r, <1>n, <1>3, <2>2, <3>1 DEF ChannelInv, PutInv, Asks
  <2> QED BY <2>1, <2>2
<1>4. ASSUME NEW s \in Requests PROVE PollInv(s)'
  <2>1. CASE s = r
    BY <1>r, <2>1 DEF PollInv, Polling
  <2>2. CASE s # r
    <3>1. stage[s] \in Polling => Id(s) \in Ids
      BY <1>4 DEF ChannelInv, RequestInv, Polling
    <3> QED BY <1>0, <1>r, <1>n, <1>4, <2>2, <3>1 DEF ChannelInv, PollInv, Polling, Asks
  <2> QED BY <2>1, <2>2
<1>5. AtMostOneSpender'
  <2>1. verdict'[r] # "approved"
    BY DEF ChannelInv, RequestInv, Asks
  <2>2. \A k \in Ids : \A u \in Spenders(k)' : u \in Spenders(k)
    BY <1>0, <2>1 DEF Spenders, Spent, Asks
  <2> QED BY <2>2 DEF ChannelInv, AtMostOneSpender
<1> QED BY <1>1, <1>2, <1>3, <1>4, <1>5 DEF ChannelInv

\* The person asked answers, or the OP gives up waiting.
OpDecides(i) ==
    /\ op[i] = "waiting"
    /\ \/ op'[i] = "approved" /\ by'[i] # NoOne
       \/ op'[i] \in {"refused", "expired"} /\ by'[i] = by[i]
    /\ \A j \in Ids : j # i => op'[j] = op[j] /\ by'[j] = by[j]
    /\ UNCHANGED <<asked, live, bind, expected, resolved, poll, el, stage, verdict, ans>>

\* Nobody relies on an answer the OP has not handed out.
LEMMA OpDecidesKeeps ==
    ASSUME ElicitTypeOK, ChannelInv, NEW i \in Ids, OpDecides(i)
    PROVE  ChannelInv'
<1>0. \A s \in Requests : Id(s)' = Id(s)
  BY DEF OpDecides, Id
<1>1. ASSUME NEW j \in Ids PROVE IdInv(j)'
  BY <1>0, <1>1 DEF ChannelInv, IdInv, OpDecides
<1>2. ASSUME NEW s \in Requests PROVE RequestInv(s)'
  <2>1. verdict[s] = "approved" => Id(s) \in Ids /\ Id(s) # i
    BY <1>2 DEF ChannelInv, RequestInv, OpDecides
  <2>2. verdict[s] = "approved" => by'[Id(s)] = by[Id(s)] /\ op'[Id(s)] = op[Id(s)]
    BY <2>1 DEF OpDecides
  <2>3. RequestInv(s)
    BY <1>2 DEF ChannelInv
  <2> QED BY <1>0, <2>2, <2>3 DEF RequestInv, OpDecides
<1>3. ASSUME NEW s \in Requests PROVE PutInv(s)'
  <2>1. stage[s] = "put" => Id(s) \in Ids
    BY <1>3 DEF ChannelInv, RequestInv
  <2> QED BY <1>0, <1>3, <2>1 DEF ChannelInv, PutInv, OpDecides
<1>4. ASSUME NEW s \in Requests PROVE PollInv(s)'
  <2>1. stage[s] \in Polling => Id(s) \in Ids
    BY <1>4 DEF ChannelInv, RequestInv, Polling
  <2> QED BY <1>0, <1>4, <2>1 DEF ChannelInv, PollInv, Polling, OpDecides
<1>5. AtMostOneSpender'
  BY <1>0 DEF ChannelInv, AtMostOneSpender, Spenders, Spent, OpDecides
<1> QED BY <1>1, <1>2, <1>3, <1>4, <1>5 DEF ChannelInv

----------------------------------------------------------------------------
(* Every step keeps the types.                                             *)

\* Type correctness is inductive together with what a request carries.
LEMMA TypeStep ==
    ASSUME ElicitTypeOK, ChannelInv, [ElicitNext]_elicitVars
    PROVE  ElicitTypeOK'
<1> USE DEF ElicitTypeOK, opVars, storeVars, reqVars
<1>1. ASSUME NEW r \in Requests, Arrive(r) \/ RequestStep(r) \/ Cancel(r)
      PROVE  ElicitTypeOK'
  <2>i. stage[r] \notin {"idle", "dispatch", "ended"} => Id(r) \in Ids /\ el[r] # NoElicit
    <3>1. NoElicit.id \notin Ids
      BY DEF NoElicit
    <3> QED BY <1>1, <3>1 DEF ChannelInv, RequestInv, Id
  <2>t. el[r] # NoElicit =>
           el[r].subject \in Subjects /\ el[r].from \in Approvers \cup {NoOne}
    BY <1>1 DEF Elicit
  <2> DEFINE Moved == /\ stage' \in [Requests -> Steps]
                      /\ verdict' \in [Requests -> Outcomes]
             Stored == /\ live' \subseteq Ids /\ lapsed' \subseteq Ids
                       /\ bind' \in [Ids -> Subjects \cup {"none"}]
                       /\ expected' \in [Ids -> Approvers \cup {NoOne}]
                       /\ resolved' \in [Ids -> Approvers \cup {NoOne}]
                       /\ poll' \in [Ids -> {"free", "uncertain"} \cup Requests]
  <2>s. \A t \in Steps : StageTo(r, t) => Moved
    BY <1>1 DEF StageTo
  <2>e. \A o \in Outcomes : End(r, o) => Moved
    BY <1>1 DEF End, Steps
  <2>f. Fail(r) => Moved
    BY <2>e DEF Fail, Outcomes
  <2>h. Halt(r) => Moved
    BY <2>e DEF Halt, Outcomes
  <2>u. UNCHANGED storeVars => Stored
    OBVIOUS
  <2>g. \A gone \in SUBSET Ids : Remove(gone) => Stored
    BY DEF Remove
  <2> HIDE DEF Moved, Stored
  <2>1. CASE Arrive(r)
    <3>1. el' \in [Requests -> Elicit]
      BY <1>1, <2>1 DEF Arrive, First, Retry, Elicit
    <3>2. Moved
      BY <2>1, <2>s, <2>f DEF Arrive, Steps
    <3> QED BY <2>1, <3>1, <3>2 DEF Arrive, Moved
  <2>2. CASE Dispatch(r)
    <3>1. el[r] \in First
      BY <1>1, <2>2 DEF ChannelInv, RequestInv, Dispatch
    <3>2. el' \in [Requests -> Elicit]
      BY <1>1, <2>2, <3>1 DEF Dispatch, First, Elicit
    <3>3. asked' \in [Ids -> [subject : Subjects \cup {"none"}, from : Approvers \cup {"none"}]]
      BY <2>2, <3>1 DEF Dispatch, First
    <3>4. op' \in [Ids -> OpStates]
      BY <2>2 DEF Dispatch, OpStates
    <3>5. Moved
      BY <2>2, <2>f, <2>s DEF Dispatch, Steps
    <3> QED BY <2>2, <3>2, <3>3, <3>4, <3>5 DEF Dispatch, Moved
  <2>3. CASE StoreCorrelation(r)
    <3>1. Moved
      BY <2>3, <2>h, <2>s DEF StoreCorrelation, Steps
    <3>2. Put(Id(r), el[r].subject, el[r].from) => Stored
      BY <2>i, <2>t, <2>3 DEF StoreCorrelation, Put, Stored
    <3>3. Stored
      BY <2>3, <2>u, <3>2 DEF StoreCorrelation
    <3> QED BY <2>3, <3>1, <3>3 DEF StoreCorrelation, Moved, Stored
  <2>4. CASE CheckReads(r)
    <3>1. Moved
      BY <2>4, <2>f, <2>h, <2>s DEF CheckReads, Steps
    <3> QED BY <2>4, <3>1 DEF CheckReads, Moved
  <2>5. CASE CheckClaims(r)
    <3>1. ActOnClaim(r) => Moved
      BY <2>f, <2>h, <2>s, <2>e DEF ActOnClaim, Steps, Outcomes
    <3>2. Moved
      BY <2>5, <2>f, <2>h, <3>1 DEF CheckClaims
    <3>3. ClaimPoll(r) => Stored
      <4>1. poll[Id(r)] \in {"free", "uncertain"} \cup Requests
        BY <2>i, <2>5 DEF CheckClaims
      <4>2. ClaimPoll(r) => \E v \in {"free", "uncertain"} \cup Requests :
                              poll' = [poll EXCEPT ![Id(r)] = v]
        BY <1>1, <4>1 DEF ClaimPoll
      <4>3. ClaimPoll(r) => poll' \in [Ids -> {"free", "uncertain"} \cup Requests]
        BY <4>2
      <4> QED BY <4>3 DEF ClaimPoll, Stored
    <3>4. Stored
      BY <2>5, <2>u, <3>3 DEF CheckClaims
    <3> QED BY <2>5, <3>2, <3>4 DEF CheckClaims, Moved, Stored
  <2>6. CASE CheckPolls(r)
    <3>1. Moved
      BY <2>6, <2>s DEF CheckPolls, Steps
    <3>2. op' \in [Ids -> OpStates]
      BY <2>6 DEF CheckPolls, OpPolled, OpStates
    <3>3. OpAnswers(Id(r)) \in PollAnswers
      BY DEF OpAnswers, PollAnswers
    <3>4. ans' \in [Requests -> PollAnswers]
      BY <2>6, <3>3 DEF CheckPolls, PollAnswers
    <3> QED BY <2>6, <3>1, <3>2, <3>4 DEF CheckPolls, Moved
  <2>7. CASE CheckSettles(r)
    <3>1. Moved
      BY <2>7, <2>f, <2>h, <2>s, <2>e DEF CheckSettles, Steps, Outcomes
    <3>2. Settle(r) => Stored
      <4>1. Id(r) \in Ids
        BY <2>i, <2>7 DEF CheckSettles
      <4>2. \A v \in {"free", "uncertain"} : LeavePoll(r, v) =>
               /\ UNCHANGED <<live, bind, expected>> /\ lapsed' \subseteq Ids
               /\ poll' \in [Ids -> {"free", "uncertain"} \cup Requests]
        BY <4>1 DEF LeavePoll
      <4>3. CompletePoll(r) => Stored
        BY <4>1, <4>2 DEF CompletePoll, Stored
      <4>4. ReleasePoll(r) \/ AbandonPoll(r) => Stored
        BY <4>2 DEF ReleasePoll, AbandonPoll, Stored
      <4> QED BY <4>3, <4>4 DEF Settle
    <3>3. Stored
      BY <2>7, <2>u, <3>2 DEF CheckSettles
    <3>4. ans' \in [Requests -> PollAnswers]
      BY <2>7 DEF CheckSettles, PollAnswers
    <3> QED BY <2>7, <3>1, <3>3, <3>4 DEF CheckSettles, Moved, Stored
  <2>8. CASE Validate(r)
    <3>1. Moved
      BY <2>8, <2>f, <2>h, <2>e DEF Validate, Outcomes
    <3>2. Stored
      BY <2>i, <2>u, <2>g, <2>8 DEF Validate, Redeem
    <3> QED BY <2>8, <3>1, <3>2 DEF Validate, Moved, Stored
  <2>9. CASE Cancel(r)
    <3>1. Moved
      BY <2>9, <2>f, <2>e DEF Cancel, Outcomes
    <3> QED BY <2>9, <3>1 DEF Cancel, Moved
  <2> QED BY <1>1, <2>1, <2>2, <2>3, <2>4, <2>5, <2>6, <2>7, <2>8, <2>9 DEF RequestStep
<1>2. ASSUME NEW i \in Ids,
             PersonAnswers(i) \/ OpExpires(i) \/ LeaseLapses(i) \/ CorrelationExpires(i)
      PROVE  ElicitTypeOK'
  <2>1. CASE PersonAnswers(i)
    BY <1>2, <2>1 DEF PersonAnswers, OpStates
  <2>2. CASE OpExpires(i)
    BY <1>2, <2>2 DEF OpExpires, OpStates
  <2>3. CASE LeaseLapses(i)
    BY <1>2, <2>3 DEF LeaseLapses, OpStates
  <2>4. CASE CorrelationExpires(i)
    BY <1>2, <2>4 DEF CorrelationExpires, Remove, Present, OpStates
  <2> QED BY <1>2, <2>1, <2>2, <2>3, <2>4
<1>3. CASE ProcessCrash
  BY <1>3 DEF ProcessCrash, Remove, Steps, Outcomes
<1>4. CASE UNCHANGED elicitVars
  BY <1>4 DEF elicitVars
<1> QED BY <1>1, <1>2, <1>3, <1>4 DEF ElicitNext

----------------------------------------------------------------------------
(* Every step is one of those ways.                                        *)

\* The request's own calls.
LEMMA RequestChannel ==
    ASSUME ElicitTypeOK, ChannelInv, NEW r \in Requests,
           Arrive(r) \/ RequestStep(r) \/ Cancel(r)
    PROVE  ChannelInv'
<1> USE DEF opVars, storeVars, reqVars
<1>i. stage[r] \notin {"idle", "dispatch", "ended"} => Id(r) \in Ids
  BY DEF ChannelInv, RequestInv
<1>v. stage[r] # "ended" => verdict[r] = "none"
  BY DEF ChannelInv, RequestInv
<1> DEFINE Rest == \A s \in Requests : s # r => stage'[s] = stage[s] /\ verdict'[s] = verdict[s]
           Ends == Rest /\ stage'[r] = "ended" /\ verdict'[r] # "approved"
<1>m. /\ \A t : StageTo(r, t) => Rest /\ stage'[r] = t /\ verdict'[r] = verdict[r]
      /\ \A o : End(r, o) => Rest /\ stage'[r] = "ended" /\ verdict'[r] = o
  BY DEF StageTo, End, ElicitTypeOK
<1>e. /\ Fail(r) => Ends
      /\ Halt(r) => Ends
      /\ End(r, "pending") => Ends
      /\ End(r, "dropped") => Ends
  BY <1>m DEF Fail, Halt
<1>w. ASSUME UNCHANGED <<op, by, asked, el>>, Ends, stage[r] # "ended",
             \A s \in Requests : s # r => ans'[s] = ans[s], StoreWanes
      PROVE  ChannelInv'
  <2>1. Wanes
    BY <1>w DEF Wanes, RequestWanes
  <2> QED BY <2>1, WanesKeeps
<1>u. UNCHANGED storeVars => StoreWanes
  BY DEF StoreWanes
<1> HIDE DEF Ends, Rest
<1>1. CASE Arrive(r)
  <2>1. PICK e \in First \cup Retry :
           /\ e.id # NoId => op[e.id] # "idle"
           /\ el' = [el EXCEPT ![r] = e]
           /\ StageTo(r, IF e.id = NoId THEN "dispatch" ELSE "get") \/ Fail(r)
    BY <1>1 DEF Arrive
  <2>2. el'[r] = e /\ \A s \in Requests : s # r => el'[s] = el[s]
    BY <2>1 DEF ElicitTypeOK
  <2>3. /\ Rest
        /\ \/ /\ stage'[r] = (IF e.id = NoId THEN "dispatch" ELSE "get")
              /\ UNCHANGED verdict
           \/ stage'[r] = "ended" /\ verdict'[r] # "approved"
    BY <1>1, <2>1, <1>m, <1>e DEF StageTo, Ends, Arrive
  <2>4. \/ e \in First /\ e.id = NoId
        \/ e.id \in Ids /\ e.id # NoId
    <3>1. \A x \in First : x.id = NoId
      BY DEF First
    <3>2. \A x \in Retry : x.id \in Ids
      BY DEF Retry
    <3> QED BY <2>1, <3>1, <3>2
  <2>5. Arrives(r)
    BY <1>1, <2>1, <2>2, <2>3, <2>4 DEF Arrives, Arrive, Rest
  <2> QED BY <2>5, ArrivesKeeps
<1>2. CASE Dispatch(r)
  <2>1. CASE Fail(r) /\ UNCHANGED <<op, asked, el>>
    BY <1>2, <1>w, <1>e, <1>u, <2>1 DEF Dispatch
  <2>2. ASSUME NEW i \in Ids, op[i] = "idle",
               op' = [op EXCEPT ![i] = "waiting"],
               asked' = [asked EXCEPT ![i] = [subject |-> el[r].subject, from |-> el[r].from]],
               \/ el' = [el EXCEPT ![r].id = i] /\ StageTo(r, "put")
               \/ UNCHANGED el /\ Fail(r)
        PROVE  ChannelInv'
    <3>1. el[r] \in First
      BY <1>2 DEF Dispatch, ChannelInv, RequestInv
    <3>2. op'[i] = "waiting" /\ \A j \in Ids : j # i => op'[j] = op[j]
      BY <2>2 DEF ElicitTypeOK
    <3>3. /\ asked'[i] = [subject |-> el[r].subject, from |-> el[r].from]
          /\ \A j \in Ids : j # i => asked'[j] = asked[j]
      BY <2>2 DEF ElicitTypeOK
    <3>4. \A s \in Requests : s # r => el'[s] = el[s]
      BY <2>2 DEF ElicitTypeOK
    <3>5. el'[r].subject = el[r].subject /\ el'[r].from = el[r].from
      BY <2>2, <3>1 DEF ElicitTypeOK, First
    <3>6. \/ el'[r].id = i /\ stage'[r] = "put" /\ verdict'[r] = verdict[r] /\ Rest
          \/ el'[r] = el[r] /\ stage'[r] = "ended" /\ verdict'[r] # "approved" /\ Rest
      <4>1. CASE el' = [el EXCEPT ![r].id = i] /\ StageTo(r, "put")
        <5>1. el'[r].id = i
          BY <4>1, <3>1 DEF ElicitTypeOK, First
        <5> QED BY <5>1, <4>1, <1>m
      <4>2. CASE UNCHANGED el /\ Fail(r)
        BY <4>2, <1>e DEF Ends
      <4> QED BY <2>2, <4>1, <4>2
    <3>7. Asks(r, i)
      BY <1>2, <2>2, <3>2, <3>3, <3>4, <3>5, <3>6 DEF Asks, Dispatch, Rest
    <3> QED BY <3>7, AsksKeeps
  <2> QED BY <1>2, <2>1, <2>2 DEF Dispatch
<1>3. CASE StoreCorrelation(r)
  <2>1. CASE UNCHANGED storeVars /\ Halt(r)
    BY <1>3, <1>w, <1>e, <1>u, <2>1 DEF StoreCorrelation
  <2>2. CASE /\ Put(Id(r), el[r].subject, el[r].from)
             /\ StageTo(r, "get") \/ Halt(r)
    <3>1. Id(r) \in Ids
      BY <1>3, <1>i DEF StoreCorrelation
    <3>2. \A j \in Ids : j # Id(r) =>
             /\ bind'[j] = bind[j] /\ expected'[j] = expected[j]
             /\ resolved'[j] = resolved[j] /\ poll'[j] = poll[j]
             /\ j \in live' <=> j \in live
      BY <2>2 DEF Put, ElicitTypeOK
    <3>3. /\ bind'[Id(r)] = el[r].subject /\ expected'[Id(r)] = el[r].from
          /\ resolved'[Id(r)] = NoOne /\ poll'[Id(r)] = "free" /\ Id(r) \in live'
      BY <2>2, <3>1 DEF Put, ElicitTypeOK
    <3>4. /\ Rest
          /\ \/ stage'[r] = "get" /\ verdict'[r] = verdict[r]
             \/ stage'[r] = "ended" /\ verdict'[r] # "approved"
      BY <2>2, <1>m, <1>e DEF Ends
    <3>5. Stores(r)
      BY <1>3, <3>1, <3>2, <3>3, <3>4 DEF Stores, OnlyOf, StoreCorrelation, Rest
    <3> QED BY <3>5, StoresKeeps
  <2> QED BY <1>3, <2>1, <2>2 DEF StoreCorrelation
<1>4. CASE CheckReads(r)
  <2>1. CASE Fail(r) \/ Halt(r)
    BY <1>4, <1>w, <1>e, <1>u, <2>1 DEF CheckReads
  <2>2. CASE Present(Id(r)) /\ (StageTo(r, "validate") \/ StageTo(r, "claim"))
    <3>1. RequestWanes(r) /\ Rest
      BY <1>4, <2>2, <1>m DEF CheckReads, RequestWanes, Present
    <3>2. Wanes
      BY <1>4, <1>u, <3>1 DEF Wanes, CheckReads, RequestWanes, Rest
    <3> QED BY <3>2, WanesKeeps
  <2> QED BY <1>4, <2>1, <2>2 DEF CheckReads
<1>5. CASE CheckClaims(r)
  <2>1. Id(r) \in Ids
    BY <1>5, <1>i DEF CheckClaims
  <2>2. CASE UNCHANGED storeVars /\ (Fail(r) \/ Halt(r))
    BY <1>5, <1>w, <1>e, <1>u, <2>2 DEF CheckClaims
  <2>3. CASE ClaimPoll(r) /\ PollClaim(r) = "Acquired" /\ (StageTo(r, "poll") \/ Halt(r))
    <3>1. Id(r) \in live /\ resolved[Id(r)] = NoOne /\ poll[Id(r)] = "free"
      BY <2>3 DEF PollClaim, Present
    <3>2. poll' = [poll EXCEPT ![Id(r)] = r] /\ UNCHANGED <<live, bind, expected, resolved>>
      BY <2>3 DEF ClaimPoll
    <3>3. poll'[Id(r)] = r /\ \A j \in Ids : j # Id(r) => poll'[j] = poll[j]
      BY <2>1, <3>2 DEF ElicitTypeOK
    <3>4. OnlyOf(r)
      BY <1>5, <1>m, <1>e, <2>1, <2>3, <3>2, <3>3 DEF OnlyOf, CheckClaims, Rest, Ends
    <3>5. \/ stage'[r] = "poll" /\ verdict'[r] = verdict[r]
          \/ stage'[r] = "ended" /\ verdict'[r] # "approved"
      BY <2>3, <1>m, <1>e DEF Ends
    <3>6. Acquires(r)
      BY <1>5, <3>1, <3>2, <3>3, <3>4, <3>5 DEF Acquires, CheckClaims
    <3> QED BY <3>6, AcquiresKeeps
  <2>4. CASE ClaimPoll(r) /\ PollClaim(r) # "Acquired" /\ (ActOnClaim(r) \/ Halt(r))
    <3>1. \E v \in {"uncertain", poll[Id(r)]} : poll' = [poll EXCEPT ![Id(r)] = v]
      BY <2>4 DEF ClaimPoll
    <3>2. \A j \in Ids : poll'[j] = poll[j] \/ poll'[j] = "uncertain"
      BY <3>1 DEF ElicitTypeOK
    <3>3. StoreWanes
      BY <2>4, <3>2 DEF StoreWanes, ClaimPoll, ElicitTypeOK
    <3>4. \/ Fail(r) \/ Halt(r) \/ End(r, "pending")
          \/ PollClaim(r) = "Resolved" /\ StageTo(r, "validate")
      BY <2>4 DEF ActOnClaim
    <3>5. CASE Fail(r) \/ Halt(r) \/ End(r, "pending")
      BY <1>5, <1>w, <1>e, <3>3, <3>5 DEF CheckClaims
    <3>6. CASE PollClaim(r) = "Resolved" /\ StageTo(r, "validate")
      <4>1. Id(r) \in live
        BY <3>6 DEF PollClaim, Present
      <4>2. RequestWanes(r) /\ Rest
        BY <1>5, <1>m, <3>6, <4>1 DEF CheckClaims, RequestWanes
      <4>3. Wanes
        BY <1>5, <3>3, <4>2 DEF Wanes, CheckClaims, RequestWanes, Rest
      <4> QED BY <4>3, WanesKeeps
    <3> QED BY <3>4, <3>5, <3>6
  <2> QED BY <1>5, <2>2, <2>3, <2>4 DEF CheckClaims, ActOnClaim
<1>6. CASE CheckPolls(r)
  <2>1. Id(r) \in Ids
    BY <1>6, <1>i DEF CheckPolls
  <2>2. stage'[r] = "settle" /\ Rest /\ UNCHANGED verdict
    BY <1>6, <1>m DEF CheckPolls, StageTo
  <2>3. \A s \in Requests : s # r => ans'[s] = ans[s]
    BY <1>6 DEF CheckPolls, ElicitTypeOK
  <2>4. \A j \in Ids : j # Id(r) => op'[j] = op[j]
    BY <1>6 DEF CheckPolls, OpPolled, ElicitTypeOK
  <2>5. OnlyOf(r)
    BY <1>6, <2>1, <2>2, <2>3, <2>4 DEF OnlyOf, CheckPolls, Rest
  <2>6. op[Id(r)] # "spent"
    BY <1>6 DEF CheckPolls, ChannelInv, PollInv
  <2>7. \/ op'[Id(r)] = op[Id(r)] /\ ans'[r] # "approved"
        \/ op[Id(r)] = "approved" /\ op'[Id(r)] = "spent" /\ ans'[r] \in {"approved", "lost", "garbled"}
        \/ op[Id(r)] = "refused" /\ op'[Id(r)] = "closed" /\ ans'[r] # "approved"
    <3>1. CASE ans' = [ans EXCEPT ![r] = "undelivered"] /\ UNCHANGED op
      <4>1. ans'[r] = "undelivered"
        BY <3>1 DEF ElicitTypeOK
      <4> QED BY <3>1, <4>1
    <3>2. ASSUME OpPolled(Id(r)), NEW a \in {OpAnswers(Id(r)), "lost", "garbled"},
                 ans' = [ans EXCEPT ![r] = a]
          PROVE  <2>7!:
      <4>1. ans'[r] = a
        BY <3>2 DEF ElicitTypeOK
      <4>2. a = "approved" => op[Id(r)] = "approved"
        BY <3>2 DEF OpAnswers
      <4>3. op[Id(r)] = "approved" => a \in {"approved", "lost", "garbled"}
        BY <3>2 DEF OpAnswers
      <4>4. \/ op[Id(r)] = "approved" /\ op'[Id(r)] = "spent"
            \/ op[Id(r)] = "refused" /\ op'[Id(r)] = "closed"
            \/ op[Id(r)] # "approved" /\ op'[Id(r)] = op[Id(r)]
        BY <3>2, <2>1 DEF OpPolled, ElicitTypeOK
      <4> QED BY <4>1, <4>2, <4>3, <4>4
    <3> QED BY <1>6, <3>1, <3>2 DEF CheckPolls
  <2>8. Polls(r)
    BY <1>6, <2>2, <2>5, <2>7 DEF Polls, CheckPolls
  <2> QED BY <2>8, PollsKeeps
<1>7. CASE CheckSettles(r)
  <2>1. Id(r) \in Ids
    BY <1>7, <1>i DEF CheckSettles
  <2>a. \A s \in Requests : s # r => ans'[s] = ans[s]
    BY <1>7 DEF CheckSettles, ElicitTypeOK
  <2>p. /\ op[Id(r)] = "spent" => ans[r] \in {"approved", "lost", "garbled"}
        /\ ans[r] = "approved" => op[Id(r)] = "spent"
    BY <1>7 DEF CheckSettles, ChannelInv, PollInv
  <2>2. CASE UNCHANGED storeVars /\ Halt(r)
    BY <1>7, <1>w, <1>e, <1>u, <2>a, <2>2 DEF CheckSettles
  <2>3. ASSUME Owns(r), Settle(r),
               \/ Fail(r) \/ Halt(r) \/ End(r, "pending")
               \/ StageTo(r, "validate") /\ Settlement(r) # "abandon"
        PROVE  ChannelInv'
    <3>1. /\ Rest
          /\ \/ stage'[r] = "validate" /\ verdict'[r] = verdict[r] /\ Settlement(r) # "abandon"
             \/ stage'[r] = "ended" /\ verdict'[r] # "approved"
      BY <2>3, <1>m, <1>e DEF Ends
    <3>2. CASE Settlement(r) \in {"complete", "release"}
      <4>1. LeavePoll(r, "free")
        BY <2>3, <3>2 DEF Settle, CompletePoll, ReleasePoll
      <4>2. /\ poll'[Id(r)] = "free" /\ \A j \in Ids : j # Id(r) => poll'[j] = poll[j]
            /\ UNCHANGED <<live, bind, expected>>
        BY <2>1, <4>1 DEF LeavePoll, ElicitTypeOK
      <4>3. /\ \A j \in Ids : j # Id(r) => resolved'[j] = resolved[j]
            /\ \/ resolved'[Id(r)] = resolved[Id(r)] /\ op[Id(r)] # "spent"
               \/ resolved'[Id(r)] = by[Id(r)] /\ op[Id(r)] = "spent"
        <5>1. CASE Settlement(r) = "complete"
          <6>1. ans[r] = "approved"
            BY <5>1 DEF Settlement
          <6> QED BY <2>1, <2>3, <2>p, <5>1, <6>1 DEF Settle, CompletePoll, ElicitTypeOK
        <5>2. CASE Settlement(r) = "release"
          <6>1. ans[r] \in {"pending", "refused", "expired", "undelivered", "invalid_grant"}
            BY <5>2 DEF Settlement
          <6> QED BY <2>3, <2>p, <5>2, <6>1 DEF Settle, ReleasePoll
        <5> QED BY <3>2, <5>1, <5>2
      <4>4. OnlyOf(r)
        BY <1>7, <2>1, <2>a, <3>1, <4>2, <4>3 DEF OnlyOf, CheckSettles, Rest
      <4>5. Frees(r)
        BY <1>7, <2>3, <3>1, <4>2, <4>3, <4>4 DEF Frees, CheckSettles, Owns, Present
      <4> QED BY <4>5, FreesKeeps
    <3>3. CASE Settlement(r) \notin {"complete", "release"}
      <4>1. AbandonPoll(r)
        BY <2>3, <3>3 DEF Settle
      <4>2. /\ \A j \in Ids : poll'[j] = poll[j] \/ poll'[j] = "uncertain"
            /\ UNCHANGED <<live, bind, expected, resolved>>
        BY <4>1 DEF AbandonPoll, LeavePoll, ElicitTypeOK
      <4>3. StoreWanes
        BY <4>2 DEF StoreWanes, ElicitTypeOK
      <4>4. Ends
        BY <3>1, <3>3 DEF Ends, Settlement
      <4> QED BY <1>7, <1>w, <2>a, <4>3, <4>4 DEF CheckSettles
    <3> QED BY <3>2, <3>3
  <2>4. ans[r] = "approved" => Settlement(r) # "abandon"
    BY DEF Settlement
  <2>5. \/ UNCHANGED storeVars /\ Halt(r)
        \/ /\ Owns(r) /\ Settle(r)
           /\ \/ Fail(r) \/ Halt(r) \/ End(r, "pending")
              \/ StageTo(r, "validate") /\ Settlement(r) # "abandon"
    BY <1>7, <2>4 DEF CheckSettles
  <2> QED BY <2>2, <2>3, <2>5
<1>8. CASE Validate(r)
  <2>1. Id(r) \in Ids
    BY <1>8, <1>i DEF Validate
  <2>2. /\ Remove({Id(r)}) =>
              /\ Id(r) \notin live'
              /\ \A j \in Ids : j # Id(r) =>
                    /\ bind'[j] = bind[j] /\ expected'[j] = expected[j]
                    /\ resolved'[j] = resolved[j] /\ poll'[j] = poll[j]
                    /\ j \in live' <=> j \in live
        /\ Redeem(r) => StoreWanes
    <3>1. Remove({Id(r)}) => StoreWanes
      BY DEF Remove, StoreWanes, ElicitTypeOK
    <3> QED BY <1>u, <3>1 DEF Remove, Redeem
  <2>3. CASE (Redeem(r) \/ UNCHANGED storeVars) /\ (Fail(r) \/ Halt(r))
    BY <1>8, <1>w, <1>e, <1>u, <2>2, <2>3 DEF Validate
  <2>4. CASE Redeem(r) /\ Redeemable(r) /\ Genuine(r) /\ End(r, "approved")
    <3>1. Rest /\ stage'[r] = "ended" /\ verdict'[r] = "approved"
      BY <2>4, <1>m
    <3>2. OnlyOf(r)
      BY <1>8, <2>1, <2>2, <2>4, <3>1 DEF OnlyOf, Validate, Rest, Redeem
    <3>3. Redeems(r)
      BY <1>8, <2>2, <2>4, <3>1, <3>2 DEF Redeems, Validate, Redeem, Redeemable, Present
    <3> QED BY <3>3, RedeemsKeeps
  <2> QED BY <1>8, <2>3, <2>4 DEF Validate
<1>9. CASE Cancel(r)
  BY <1>9, <1>w, <1>e, <1>u DEF Cancel
<1> QED BY <1>1, <1>2, <1>3, <1>4, <1>5, <1>6, <1>7, <1>8, <1>9 DEF RequestStep

\* The person, the OP, the clock and the process.
LEMMA OutsideChannel ==
    ASSUME ElicitTypeOK, ChannelInv,
           \/ \E i \in Ids : PersonAnswers(i) \/ OpExpires(i)
                               \/ LeaseLapses(i) \/ CorrelationExpires(i)
           \/ ProcessCrash
    PROVE  ChannelInv'
<1> USE DEF opVars, storeVars, reqVars
<1>1. ASSUME NEW i \in Ids, PersonAnswers(i) \/ OpExpires(i)
      PROVE  ChannelInv'
  <2>1. op[i] = "waiting"
    BY <1>1 DEF PersonAnswers, OpExpires
  <2>2. \A j \in Ids : j # i => op'[j] = op[j] /\ by'[j] = by[j]
    BY <1>1 DEF PersonAnswers, OpExpires, ElicitTypeOK
  <2>3. \/ op'[i] = "approved" /\ by'[i] # NoOne
        \/ op'[i] \in {"refused", "expired"} /\ by'[i] = by[i]
    BY <1>1 DEF PersonAnswers, OpExpires, ElicitTypeOK
  <2>4. OpDecides(i)
    BY <1>1, <2>1, <2>2, <2>3 DEF OpDecides, PersonAnswers, OpExpires
  <2> QED BY <2>4, OpDecidesKeeps
<1>2. ASSUME NEW i \in Ids, LeaseLapses(i) \/ CorrelationExpires(i)
      PROVE  ChannelInv'
  <2>1. StoreWanes
    BY <1>2 DEF StoreWanes, LeaseLapses, CorrelationExpires, Remove, ElicitTypeOK
  <2>2. Wanes
    BY <1>2, <2>1 DEF Wanes, RequestWanes, LeaseLapses, CorrelationExpires
  <2> QED BY <2>2, WanesKeeps
<1>3. CASE ProcessCrash
  <2>1. StoreWanes
    BY <1>3 DEF StoreWanes, ProcessCrash, Remove, ElicitTypeOK
  <2>2. ASSUME NEW s \in Requests PROVE RequestWanes(s)
    BY <1>3, <2>2 DEF ProcessCrash, RequestWanes
  <2>3. Wanes
    BY <1>3, <2>1, <2>2 DEF Wanes, ProcessCrash
  <2> QED BY <2>3, WanesKeeps
<1> QED BY <1>1, <1>2, <1>3

----------------------------------------------------------------------------
(* The theorems.                                                           *)

\* The invariant holds before anyone has asked.
LEMMA ChannelInit == ElicitInit => ElicitTypeOK /\ ChannelInv
<1> SUFFICES ASSUME ElicitInit PROVE ElicitTypeOK /\ ChannelInv
  OBVIOUS
<1>1. ElicitTypeOK
  BY DEF ElicitInit, ElicitTypeOK, OpStates, Steps, PollAnswers, Outcomes, Elicit
<1>2. \A r \in Requests : Id(r) = NoId
  BY DEF ElicitInit, Id, NoElicit
<1>3. \A i \in Ids : IdInv(i)
  BY <1>2 DEF ElicitInit, IdInv
<1>4. \A r \in Requests : RequestInv(r) /\ PutInv(r) /\ PollInv(r)
  BY DEF ElicitInit, RequestInv, PutInv, PollInv, Polling
<1>5. AtMostOneSpender
  BY DEF ElicitInit, AtMostOneSpender, Spenders, Spent
<1> QED BY <1>1, <1>3, <1>4, <1>5 DEF ChannelInv

\* Every step keeps the types and the invariant.
LEMMA ChannelStep ==
    ASSUME ElicitTypeOK, ChannelInv, [ElicitNext]_elicitVars
    PROVE  ElicitTypeOK' /\ ChannelInv'
<1>1. ElicitTypeOK'
  BY TypeStep
<1>2. CASE UNCHANGED elicitVars
  <2>1. Wanes
    BY <1>2 DEF elicitVars, opVars, storeVars, reqVars, Wanes, RequestWanes, StoreWanes
  <2> QED BY <1>1, <2>1, WanesKeeps
<1> QED BY <1>1, <1>2, RequestChannel, OutsideChannel DEF ElicitNext

\* The invariant holds in every reachable state.
THEOREM ChannelInvariant == ElicitSpec => [](ElicitTypeOK /\ ChannelInv)
  BY ChannelInit, ChannelStep, PTL DEF ElicitSpec

\* Every variable of the approver, the stores and the OP keeps its type.
THEOREM ElicitTypeCorrect == ElicitSpec => []ElicitTypeOK
  BY ChannelInvariant, PTL

\* An approval that lets a request through was given by the person asked, for
\* the subject asked about, and no other request spends it.
THEOREM ApprovalGenuineHolds == ElicitSpec => []ApprovalGenuine
<1>1. ElicitTypeOK /\ ChannelInv => ApprovalGenuine
  BY DEF ChannelInv, RequestInv, ApprovalGenuine, NoForgedApproval
<1> QED BY <1>1, ChannelInvariant, PTL

\* A request about to poll never holds an id whose tokens were handed out.
THEOREM NeverRepolledHolds == ElicitSpec => []NeverRepolled
<1>1. ElicitTypeOK /\ ChannelInv => NeverRepolled
  BY DEF ChannelInv, PollInv, NeverRepolled
<1> QED BY <1>1, ChannelInvariant, PTL

----------------------------------------------------------------------------
(* The channel implements Approval.                                        *)

\* What the abstract channel sees of the requests that spent an approval.
Spendings == {A!Spending(Id(r), r, el[r].subject) : r \in Spent}

\* A step the abstract channel does not see: no new question, no new answer,
\* and the same requests let through.
Unseen ==
    /\ UNCHANGED asked
    /\ \A i \in Ids : Said(i)' = Said(i)
    /\ Spendings' = Spendings

\* Such a step stutters under the refinement mapping.
LEMMA UnseenStutters == Unseen => UNCHANGED A!approvalVars
  BY DEF Unseen, Spendings, A!approvalVars, A!Spending

\* Who is let through changes only with a verdict of approved.
LEMMA SpendersSame ==
    ASSUME \A s \in Requests : verdict'[s] = "approved" <=> verdict[s] = "approved",
           \A s \in Requests : verdict[s] = "approved" => el'[s] = el[s]
    PROVE  Spendings' = Spendings
<1>1. Spent' = Spent /\ \A r \in Spent : el'[r] = el[r]
  BY DEF Spent
<1> QED BY <1>1 DEF Spendings, Id

\* What a person said is read off the OP alone.
LEMMA SaidSame ==
    ASSUME UNCHANGED <<op, by>>
    PROVE  \A i \in Ids : Said(i)' = Said(i)
  BY DEF Said

\* A request's own steps: a dispatch asks, a redemption that is no peek spends,
\* and nothing else shows.
LEMMA RequestRefines ==
    ASSUME ElicitTypeOK, ChannelInv, NEW r \in Requests,
           Arrive(r) \/ RequestStep(r) \/ Cancel(r)
    PROVE  A!ApprovalNext \/ UNCHANGED A!approvalVars
<1> USE DEF opVars, storeVars, reqVars
<1>i. stage[r] \notin {"idle", "dispatch", "ended"} => Id(r) \in Ids
  BY DEF ChannelInv, RequestInv
<1>v. stage[r] # "ended" => verdict[r] = "none"
  BY DEF ChannelInv, RequestInv
<1> DEFINE Rest == \A s \in Requests : s # r => verdict'[s] = verdict[s]
           Quiet == Rest /\ (verdict'[r] = "approved" <=> verdict[r] = "approved")
<1>m. /\ \A t : StageTo(r, t) => Quiet
      /\ \A o : End(r, o) => Rest /\ verdict'[r] = o
  BY DEF StageTo, End, ElicitTypeOK
<1>e. stage[r] # "ended" =>
         /\ Fail(r) => Quiet
         /\ Halt(r) => Quiet
         /\ End(r, "pending") => Quiet
         /\ End(r, "dropped") => Quiet
  BY <1>m, <1>v DEF Fail, Halt
<1>q. ASSUME Quiet, UNCHANGED <<op, by, asked, el>>
      PROVE  UNCHANGED A!approvalVars
  <2>1. Spendings' = Spendings
    BY <1>q, SpendersSame
  <2> QED BY <1>q, <2>1, SaidSame, UnseenStutters DEF Unseen
<1> HIDE DEF Quiet
<1>1. CASE Arrive(r)
  <2>1. \A s \in Requests : verdict[s] = "approved" => el'[s] = el[s]
    BY <1>1, <1>v DEF Arrive, ElicitTypeOK
  <2>2. Quiet
    BY <1>1, <1>m, <1>e DEF Arrive
  <2>3. Spendings' = Spendings
    BY <2>1, <2>2, SpendersSame DEF Quiet
  <2> QED BY <1>1, <2>3, SaidSame, UnseenStutters DEF Unseen, Arrive
<1>2. CASE Dispatch(r)
  <2>1. Quiet
    BY <1>2, <1>m, <1>e DEF Dispatch
  <2>2. \A s \in Requests : verdict[s] = "approved" => el'[s] = el[s]
    BY <1>2, <1>v DEF Dispatch, ElicitTypeOK
  <2>3. Spendings' = Spendings
    BY <2>1, <2>2, SpendersSame DEF Quiet
  <2>4. CASE UNCHANGED <<op, asked, el>>
    BY <1>2, <1>q, <2>1, <2>4 DEF Dispatch
  <2>5. ASSUME NEW i \in Ids, op[i] = "idle", op' = [op EXCEPT ![i] = "waiting"],
               asked' = [asked EXCEPT ![i] = [subject |-> el[r].subject, from |-> el[r].from]]
        PROVE  A!ApprovalNext
    <3> DEFINE q == [subject |-> el[r].subject, from |-> el[r].from]
    <3>1. q \in A!Question
      BY <1>2 DEF Dispatch, ChannelInv, RequestInv, First, A!Question
    <3>2. asked[i] = A!Unasked
      BY <2>5 DEF ChannelInv, IdInv, A!Unasked
    <3>3. ASSUME NEW j \in Ids PROVE Said(j)' = Said(j)
      BY <1>2, <2>5, <3>3 DEF Said, Dispatch, ElicitTypeOK
    <3>4. A!Ask(i, q)
      BY <2>3, <2>5, <3>2, <3>3 DEF A!Ask, Spendings, A!Spending
    <3> QED BY <3>1, <3>4 DEF A!ApprovalNext
  <2> QED BY <1>2, <2>4, <2>5 DEF Dispatch
<1>3. CASE StoreCorrelation(r)
  <2>1. Quiet
    BY <1>3, <1>m, <1>e DEF StoreCorrelation
  <2> QED BY <1>3, <1>q, <2>1 DEF StoreCorrelation
<1>4. CASE CheckReads(r)
  <2>1. Quiet
    BY <1>4, <1>m, <1>e DEF CheckReads
  <2> QED BY <1>4, <1>q, <2>1 DEF CheckReads
<1>5. CASE CheckClaims(r)
  <2>1. Quiet
    BY <1>5, <1>m, <1>e DEF CheckClaims, ActOnClaim
  <2> QED BY <1>5, <1>q, <2>1 DEF CheckClaims
<1>6. CASE CheckPolls(r)
  <2>1. Quiet
    BY <1>6, <1>m DEF CheckPolls
  <2>2. Spendings' = Spendings
    BY <1>6, <2>1, SpendersSame DEF Quiet, CheckPolls
  <2>3. ASSUME NEW j \in Ids PROVE Said(j)' = Said(j)
    BY <1>6, <1>i, <2>3 DEF Said, CheckPolls, OpPolled, ElicitTypeOK
  <2> QED BY <1>6, <2>2, <2>3, UnseenStutters DEF Unseen, CheckPolls
<1>7. CASE CheckSettles(r)
  <2>1. Quiet
    BY <1>7, <1>m, <1>e DEF CheckSettles
  <2> QED BY <1>7, <1>q, <2>1 DEF CheckSettles
<1>8. CASE Validate(r)
  <2>1. CASE Fail(r) \/ Halt(r)
    <3>1. Quiet
      BY <1>8, <1>e, <2>1 DEF Validate
    <3> QED BY <1>8, <1>q, <3>1 DEF Validate
  <2>2. CASE Redeemable(r) /\ Genuine(r) /\ End(r, "approved")
    <3>1. PICK k \in Ids : k = Id(r)
      BY <1>8, <1>i DEF Validate
    <3>2. Rest /\ verdict'[r] = "approved" /\ verdict[r] # "approved"
      BY <1>8, <1>m, <1>v, <2>2 DEF Validate
    <3>3. /\ asked[k] = [subject |-> el[r].subject, from |-> by[k]]
          /\ op[k] = "spent" /\ by[k] # NoOne /\ k \in live
          /\ asked[k] \in [subject : Subjects, from : Approvers]
      BY <2>2, <3>1 DEF Redeemable, Genuine, Present, Bound, ChannelInv, IdInv
    <3>4. \A u \in Spent : Id(u) # k
      BY <3>3 DEF Spent, ChannelInv, RequestInv
    <3>5. UNCHANGED <<op, by, asked, el>>
      BY <1>8 DEF Validate
    <3>6. \A s \in Requests : Id(s)' = Id(s)
      BY <3>5 DEF Id
    <3>7. CASE el[r].peek
      <4>1. Spent' = Spent
        BY <3>2, <3>5, <3>7 DEF Spent
      <4>2. Spendings' = Spendings
        BY <3>5, <3>6, <4>1 DEF Spendings, Spent
      <4> QED BY <3>5, <4>2, SaidSame, UnseenStutters DEF Unseen
    <3>8. CASE ~el[r].peek
      <4>1. Spent' = Spent \cup {r} /\ Spent \subseteq Requests
        BY <3>2, <3>5, <3>8 DEF Spent
      <4>2. Spendings' = Spendings \cup {A!Spending(k, r, el[r].subject)}
        BY <3>1, <3>5, <3>6, <4>1 DEF Spendings
      <4>3. \A u \in Spendings : u.id # k
        BY <3>4 DEF Spendings, A!Spending
      <4>4. \A i \in Ids : Said(i)' = Said(i)
        BY <3>5, SaidSame
      <4>5. Said(k) = by[k]
        BY <3>3 DEF Said
      <4>6. PICK u \in Subjects : u = el[r].subject
        BY <3>3
      <4>7. A!Spend(k, r, u)
        BY <3>1, <3>3, <3>5, <4>2, <4>3, <4>4, <4>5, <4>6 DEF A!Spend, A!Spending, Spendings
      <4> QED BY <3>1, <4>6, <4>7 DEF A!ApprovalNext
    <3> QED BY <3>7, <3>8
  <2> QED BY <1>8, <2>1, <2>2 DEF Validate
<1>9. CASE Cancel(r)
  <2>1. Quiet
    BY <1>9, <1>e DEF Cancel
  <2> QED BY <1>9, <1>q, <2>1 DEF Cancel
<1> QED BY <1>1, <1>2, <1>3, <1>4, <1>5, <1>6, <1>7, <1>8, <1>9 DEF RequestStep

\* Of the rest, only a person's answer shows.
LEMMA OutsideRefines ==
    ASSUME ElicitTypeOK, ChannelInv,
           \/ \E i \in Ids : PersonAnswers(i) \/ OpExpires(i)
                               \/ LeaseLapses(i) \/ CorrelationExpires(i)
           \/ ProcessCrash
    PROVE  A!ApprovalNext \/ UNCHANGED A!approvalVars
<1> USE DEF opVars, storeVars, reqVars
<1>1. ASSUME NEW i \in Ids, PersonAnswers(i)
      PROVE  A!ApprovalNext
  <2>1. Spendings' = Spendings
    BY <1>1, SpendersSame DEF PersonAnswers
  <2>2. asked[i] # A!Unasked
    <3>1. asked[i] \in [subject : Subjects, from : Approvers]
      BY <1>1 DEF PersonAnswers, ChannelInv, IdInv
    <3>2. asked[i].subject # "none"
      BY <3>1
    <3> QED BY <3>2 DEF A!Unasked
  <2>3. by[i] = NoOne /\ Said(i) = "nothing"
    BY <1>1 DEF PersonAnswers, ChannelInv, IdInv, Said
  <2>4. \A j \in Ids : j # i => Said(j)' = Said(j)
    BY <1>1 DEF PersonAnswers, Said, ElicitTypeOK
  <2>5. \E a \in Approvers \cup {"no"} : Said(i)' = a
    BY <1>1, <2>3 DEF PersonAnswers, Said, ElicitTypeOK
  <2>6. PICK a \in Approvers \cup {"no"} : Said(i)' = a
    BY <2>5
  <2>7. A!Answer(i, a)
    BY <1>1, <2>1, <2>2, <2>3, <2>4, <2>6 DEF A!Answer, PersonAnswers, Spendings, A!Spending
  <2> QED BY <2>6, <2>7 DEF A!ApprovalNext
<1>2. ASSUME NEW i \in Ids, OpExpires(i)
      PROVE  UNCHANGED A!approvalVars
  <2>1. Spendings' = Spendings
    BY <1>2, SpendersSame DEF OpExpires
  <2>2. ASSUME NEW j \in Ids PROVE Said(j)' = Said(j)
    BY <1>2, <2>2 DEF OpExpires, Said, ElicitTypeOK
  <2> QED BY <1>2, <2>1, <2>2, UnseenStutters DEF Unseen, OpExpires
<1>3. ASSUME NEW i \in Ids, LeaseLapses(i) \/ CorrelationExpires(i)
      PROVE  UNCHANGED A!approvalVars
  <2>1. Spendings' = Spendings
    BY <1>3, SpendersSame DEF LeaseLapses, CorrelationExpires
  <2> QED BY <1>3, <2>1, SaidSame, UnseenStutters DEF Unseen, LeaseLapses, CorrelationExpires
<1>4. CASE ProcessCrash
  <2>1. \A s \in Requests : verdict'[s] = "approved" <=> verdict[s] = "approved"
    BY <1>4 DEF ProcessCrash, ChannelInv, RequestInv
  <2>2. Spendings' = Spendings
    BY <1>4, <2>1, SpendersSame DEF ProcessCrash
  <2> QED BY <1>4, <2>2, SaidSame, UnseenStutters DEF Unseen, ProcessCrash
<1> QED BY <1>1, <1>2, <1>3, <1>4

\* Every behaviour of the approver, the stores and the OP is one of the abstract
\* channel: an approval is asked for, answered by a person, and spent by at most
\* one request, of the subject it was asked for, on the word of the person named.
THEOREM ApprovalImplementedHolds == ElicitSpec => ApprovalImplemented
<1>1. ElicitInit => A!ApprovalInit
  BY DEF ElicitInit, A!ApprovalInit, A!Unasked, Said, Spent
<1>2. ElicitTypeOK /\ ChannelInv /\ [ElicitNext]_elicitVars => [A!ApprovalNext]_A!approvalVars
  <2> SUFFICES ASSUME ElicitTypeOK, ChannelInv, [ElicitNext]_elicitVars
               PROVE  A!ApprovalNext \/ UNCHANGED A!approvalVars
    OBVIOUS
  <2>1. CASE UNCHANGED elicitVars
    <3>1. UNCHANGED <<op, by, asked, el, verdict>>
      BY <2>1 DEF elicitVars, opVars, reqVars
    <3>2. Spendings' = Spendings
      BY <3>1, SpendersSame
    <3> QED BY <3>1, <3>2, SaidSame, UnseenStutters DEF Unseen
  <2>2. CASE ElicitNext
    BY <2>2, RequestRefines, OutsideRefines DEF ElicitNext
  <2> QED BY <2>1, <2>2
<1> QED BY <1>1, <1>2, ChannelInvariant, PTL DEF ElicitSpec, ApprovalImplemented, A!ApprovalSpec

-----------------------------------------------------------------------------
(* Effects and approvals together (MCLive).                                *)

\* Every behaviour of the two side by side is one of each of them: the safety
\* theorems above hold in the run that checks what must eventually happen.
THEOREM PartsKeepTheirSpecs == PartsSpec => Spec /\ ElicitSpec
<1>1. LiveInit => Init /\ ElicitInit
  BY DEF LiveInit
<1>2. [LiveNext]_liveVars => [Next]_vars /\ [ElicitNext]_elicitVars
  BY DEF LiveNext, liveVars
<1> QED BY <1>1, <1>2, PTL DEF PartsSpec, Spec, ElicitSpec

\* The variables of the effects and of the approvals keep their types side by side.
THEOREM PartsTypeCorrect == PartsSpec => []PartsTypeOK
BY PartsKeepTheirSpecs, TypeCorrect, ElicitTypeCorrect, PTL DEF PartsTypeOK
=============================================================================
