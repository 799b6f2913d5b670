--------------------------- MODULE Executor_proofs ---------------------------
(***************************************************************************)
(* The pipeline fails closed, for every number of plugins and requests and *)
(* every configuration, as long as the runtime drops no branch: IInv is    *)
(* inductive, one lemma per action, and implies FailClosed,                *)
(* FirstObjectorBlamed, RecordTruthful and UnrecognisedRefused.            *)
(***************************************************************************)
EXTENDS Executor, WellFoundedInduction, TLAPS

USE NAssumption, ConfigsAssumption, PayloadsAssumption, FailuresAssumption,
    SwitchesAssumption DEF Plugins, AllConfigs

----------------------------------------------------------------------------
(* Facts about the operators.                                              *)

\* FirstOf picks the least element: a set of plugins that is not empty has one.
LEMMA FirstOfLeast ==
    ASSUME NEW S, S \subseteq Plugins, S # {}
    PROVE  FirstOf(S) \in S /\ \A q \in S : FirstOf(S) <= q
  <1>1. \E x \in S : \A y \in S : ~(<<y, x>> \in OpToRel(<, Nat))
    <2>1. IsWellFoundedOn(OpToRel(<, Nat), Nat)
      BY NatLessThanWellFounded
    <2>2. S \subseteq Nat
      OBVIOUS
    <2> QED
      BY ONLY <2>1, <2>2, S # {}, WFMin
  <1>2. PICK x \in S : \A y \in S : ~(<<y, x>> \in OpToRel(<, Nat))
    BY <1>1
  <1>3. \A y \in S : x <= y
    <2> SUFFICES ASSUME NEW y \in S, y < x PROVE FALSE
      OBVIOUS
    <2>1. <<y, x>> \in OpToRel(<, Nat)
      BY DEF OpToRel
    <2> QED
      BY <1>2, <2>1
  <1> QED
    BY <1>3 DEF FirstOf

\* A request none of whose variables change keeps its part of the invariant.
LEMMA FrameRequest ==
    ASSUME NEW q \in Requests, RequestInv(q), config' = config,
           stage'[q] = stage[q], group'[q] = group[q], out'[q] = out[q],
           act'[q] = act[q], given'[q] = given[q], payload'[q] = payload[q],
           declined'[q] = declined[q], joined'[q] = joined[q],
           aborted'[q] = aborted[q], verdict'[q] = verdict[q], blame'[q] = blame[q]
    PROVE  RequestInv(q)'
  BY DEF RequestInv, StageInv, TurnInv, SerialInv, BranchInv, CollectedInv,
         DeclineInv, BlameInv, Turn, Passed, Halts, Branches, Objects, Before

\* The first state satisfies the invariant.
LEMMA InitInv == Init => IInv
  <1> SUFFICES ASSUME Init PROVE IInv
    OBVIOUS
  <1>1. TypeOK
    BY DEF Init, TypeOK, Stages, Modes, Outs, Actions, AllPayloads, NoPayload, Verdicts
  <1>2. ASSUME NEW r \in Requests PROVE RequestInv(r)
    BY DEF Init, RequestInv, StageInv, TurnInv, SerialInv, BranchInv, CollectedInv,
           DeclineInv, BlameInv, Passed, Branches, Serial, NoPayload
  <1> QED
    BY <1>1, <1>2 DEF IInv

----------------------------------------------------------------------------
(* One lemma per action.                                                   *)

\* Start: a fresh request carries nothing over from the one before it in its slot.
LEMMA StartInv ==
    ASSUME IInv, NEW r \in Requests, Start(r)
    PROVE  IInv'
  <1> USE DEF Start, Mode, NoPayload
  <1>v. PICK v \in AllPayloads :
          /\ given' = [given EXCEPT ![r] = [k \in 0..N |-> IF k = 0 THEN v ELSE NoPayload]]
          /\ declined' = [declined EXCEPT ![r] = v.declined]
    BY DEF IInv, TypeOK
  <1>1. TypeOK'
    <2> USE DEF IInv, TypeOK
    <2>1. stage' \in [Requests -> Stages] /\ verdict' \in [Requests -> Verdicts]
      BY DEF Stages, Verdicts
    <2>2. group' \in [Requests -> [Plugins -> Modes \cup {"Disabled"}]]
      OBVIOUS
    <2>3. out' \in [Requests -> [Plugins -> Outs]] /\ act' \in [Requests -> [Plugins -> Actions]]
      BY DEF Outs, Actions
    <2>4. given' \in [Requests -> [0..N -> AllPayloads]]
      BY <1>v DEF AllPayloads
    <2>5. declined' \in [Requests -> BOOLEAN]
      BY <1>v DEF AllPayloads
    <2>6. payload' \in [Requests -> 0..N] /\ blame' \in [Requests -> 0..N]
      OBVIOUS
    <2>7. globals' \in [Requests -> SUBSET Plugins] /\ errors' \in [Requests -> SUBSET Plugins]
      OBVIOUS
    <2>8. joined' \in [Requests -> SUBSET Plugins] /\ aborted' \in [Requests -> BOOLEAN]
      OBVIOUS
    <2> QED
      BY <2>1, <2>2, <2>3, <2>4, <2>5, <2>6, <2>7, <2>8
  <1>2. ASSUME NEW q \in Requests, q # r PROVE RequestInv(q)'
    BY <1>2, FrameRequest DEF IInv, TypeOK
  <1>3. StageInv(r)'
    BY <1>v DEF IInv, TypeOK, RequestInv, StageInv, Serial
  <1>4. TurnInv(r)'
    BY <1>v DEF IInv, TypeOK, RequestInv, StageInv, TurnInv, Serial, Turn,
           AllFailures
  <1>5. SerialInv(r)'
    BY <1>v DEF IInv, TypeOK, RequestInv, StageInv, SerialInv, Serial, Passed,
           Halts, AllFailures, CanBlock, Unread
  <1>6. BranchInv(r)'
    BY <1>v DEF IInv, TypeOK, RequestInv, StageInv, BranchInv, Serial,
           Branches, AllFailures
  <1>7. CollectedInv(r)'
    BY <1>v DEF IInv, TypeOK, RequestInv, StageInv, CollectedInv, Serial,
           Branches, Passed, Halts, AllFailures
  <1>8. DeclineInv(r)'
    BY <1>v DEF IInv, TypeOK, RequestInv, StageInv, DeclineInv, Serial
  <1>9. BlameInv(r)'
    BY <1>v DEF IInv, TypeOK, RequestInv, StageInv, BlameInv, Serial, Objects,
           Before
  <1> QED
    BY <1>1, <1>2, <1>3, <1>4, <1>5, <1>6, <1>7, <1>8, <1>9 DEF IInv, RequestInv

\* Drop: a dropped request gives no verdict.
LEMMA DropInv ==
    ASSUME IInv, NEW r \in Requests, Drop(r)
    PROVE  IInv'
  <1> USE DEF Drop
  <1>1. TypeOK'
    BY DEF IInv, TypeOK, Stages, Modes, Outs, Actions, Verdicts, Serial, StoreContext
  <1>2. ASSUME NEW q \in Requests, q # r PROVE RequestInv(q)'
    BY <1>2, FrameRequest DEF IInv, TypeOK
  <1>3. StageInv(r)'
    BY DEF IInv, TypeOK, RequestInv, StageInv, Serial
  <1>4. TurnInv(r)'
    BY DEF IInv, TypeOK, RequestInv, StageInv, TurnInv, Serial, Turn,
           AllFailures
  <1>5. SerialInv(r)'
    BY DEF IInv, TypeOK, RequestInv, StageInv, SerialInv, Serial, Passed,
           Halts, AllFailures, CanBlock, Unread
  <1>6. BranchInv(r)'
    BY DEF IInv, TypeOK, RequestInv, StageInv, BranchInv, Serial, Branches,
           AllFailures
  <1>7. CollectedInv(r)'
    BY DEF IInv, TypeOK, RequestInv, StageInv, CollectedInv, Serial, Branches,
           Passed, Halts, AllFailures
  <1>8. DeclineInv(r)'
    BY DEF IInv, TypeOK, RequestInv, StageInv, DeclineInv, Serial
  <1>9. BlameInv(r)'
    BY DEF IInv, TypeOK, RequestInv, StageInv, BlameInv, Serial, Objects,
           Before
  <1> QED
    BY <1>1, <1>2, <1>3, <1>4, <1>5, <1>6, <1>7, <1>8, <1>9 DEF IInv, RequestInv

\* NextPhase: a phase is left only when each of its plugins has had its turn.
LEMMA NextPhaseInv ==
    ASSUME IInv, NEW r \in Requests, NextPhase(r)
    PROVE  IInv'
  <1> USE DEF NextPhase
  <1>1. TypeOK'
    BY DEF IInv, TypeOK, Stages, Modes, Outs, Actions, Verdicts, Serial, StoreContext
  <1>2. ASSUME NEW q \in Requests, q # r PROVE RequestInv(q)'
    BY <1>2, FrameRequest DEF IInv, TypeOK
  <1>3. StageInv(r)'
    BY DEF IInv, TypeOK, RequestInv, StageInv, Serial
  <1>4. TurnInv(r)'
    BY DEF IInv, TypeOK, RequestInv, StageInv, TurnInv, Serial, Turn,
           AllFailures
  <1>5. SerialInv(r)'
    BY DEF IInv, TypeOK, RequestInv, StageInv, SerialInv, Serial, Passed,
           Halts, AllFailures, CanBlock, Unread
  <1>6. BranchInv(r)'
    BY DEF IInv, TypeOK, RequestInv, StageInv, BranchInv, Serial, Branches,
           AllFailures
  <1>7. CollectedInv(r)'
    BY DEF IInv, TypeOK, RequestInv, StageInv, CollectedInv, Serial, Branches,
           Passed, Halts, AllFailures
  <1>8. DeclineInv(r)'
    BY DEF IInv, TypeOK, RequestInv, StageInv, DeclineInv, Serial
  <1>9. BlameInv(r)'
    BY DEF IInv, TypeOK, RequestInv, StageInv, BlameInv, Serial, Objects,
           Before
  <1> QED
    BY <1>1, <1>2, <1>3, <1>4, <1>5, <1>6, <1>7, <1>8, <1>9 DEF IInv, RequestInv

\* SpawnBranches: the branches start with none joined and none aborted.
LEMMA SpawnBranchesInv ==
    ASSUME IInv, NEW r \in Requests, SpawnBranches(r)
    PROVE  IInv'
  <1> USE DEF SpawnBranches
  <1>v. \A k \in Plugins : out'[r][k] = IF k \in Branches(r) THEN "running" ELSE out[r][k]
    BY DEF IInv, TypeOK
  <1>1. TypeOK'
    BY <1>v DEF IInv, TypeOK, Stages, Modes, Outs, Actions, Verdicts, Serial, StoreContext
  <1>2. ASSUME NEW q \in Requests, q # r PROVE RequestInv(q)'
    BY <1>2, FrameRequest DEF IInv, TypeOK
  <1>3. StageInv(r)'
    BY <1>v DEF IInv, TypeOK, RequestInv, StageInv, Serial
  <1>4. TurnInv(r)'
    BY <1>v DEF IInv, TypeOK, RequestInv, StageInv, TurnInv, Serial, Turn,
           AllFailures
  <1>5. SerialInv(r)'
    <2>1. \A k \in Plugins : group[r][k] = "Sequential" => out'[r][k] = out[r][k]
      BY <1>v DEF Branches
    <2>2. stage[r] = "Concurrent" /\ verdict[r] = "none" /\ SerialInv(r)
      BY DEF IInv, RequestInv, StageInv
    <2>3. config' = config /\ group' = group /\ act' = act
      OBVIOUS
    <2> HIDE DEF SpawnBranches
    <2> QED
      BY <2>1, <2>2, <2>3 DEF SerialInv, Passed, Halts
  <1>6. BranchInv(r)'
    BY <1>v DEF IInv, TypeOK, RequestInv, StageInv, BranchInv, Serial,
           Branches, AllFailures
  <1>7. CollectedInv(r)'
    <2>1. verdict'[r] = "none" /\ group' = group
      BY DEF IInv, RequestInv, StageInv
    <2>2. stage'[r] = "Settle" => Branches(r) = {}
      BY DEF IInv, TypeOK
    <2> HIDE DEF SpawnBranches
    <2> QED
      BY <2>1, <2>2 DEF CollectedInv, Branches
  <1>8. DeclineInv(r)'
    BY <1>v DEF IInv, TypeOK, RequestInv, StageInv, DeclineInv, Serial
  <1>9. BlameInv(r)'
    BY <1>v DEF IInv, TypeOK, RequestInv, StageInv, BlameInv, Serial, Objects,
           Before
  <1> QED
    BY <1>1, <1>2, <1>3, <1>4, <1>5, <1>6, <1>7, <1>8, <1>9 DEF IInv, RequestInv

\* CollectDenies: the first halting branch is named, and nothing before it objected.
LEMMA CollectDeniesInv ==
    ASSUME IInv, NEW r \in Requests, CollectDenies(r)
    PROVE  IInv'
  <1> USE DEF CollectDenies, ReadOutcomes, Deny, BranchAction, Tripped
  <1>v. \A k \in Plugins :
          act'[r][k] = IF k \in Branches(r) THEN BranchAction(out[r][k]) ELSE act[r][k]
    BY DEF IInv, TypeOK
  <1>h. Halting(r) \subseteq Plugins /\ Halting(r) # {}
    BY DEF Halting, Branches
  <1>b. PICK b \in Plugins : /\ b = FirstOf(Halting(r))
                            /\ b \in Halting(r)
                            /\ \A q \in Halting(r) : b <= q
    BY ONLY <1>h, FirstOfLeast
  <1>1. TypeOK'
    <2> USE DEF IInv, TypeOK
    <2>2. stage' \in [Requests -> Stages] /\ verdict' \in [Requests -> Verdicts]
      BY DEF Stages, Verdicts
    <2>3. blame' \in [Requests -> 0..N]
      BY <1>b
    <2>4. act' \in [Requests -> [Plugins -> Actions]]
      BY DEF Actions
    <2>5. errors' \in [Requests -> SUBSET Plugins] /\ disabled' \subseteq Plugins
      BY DEF Failed, Branches
    <2> QED
      BY <2>2, <2>3, <2>4, <2>5
  <1>2. ASSUME NEW q \in Requests, q # r PROVE RequestInv(q)'
    BY <1>2, FrameRequest DEF IInv, TypeOK
  <1>3. StageInv(r)'
    BY <1>v DEF IInv, TypeOK, RequestInv, StageInv, Serial
  <1>4. TurnInv(r)'
    BY <1>v DEF IInv, TypeOK, RequestInv, StageInv, TurnInv, Serial, Turn,
           AllFailures
  <1>5. SerialInv(r)'
    BY <1>v DEF IInv, TypeOK, RequestInv, StageInv, SerialInv, Serial, Passed,
           Halts, AllFailures, CanBlock, Unread
  <1>6. BranchInv(r)'
    BY <1>v DEF IInv, TypeOK, RequestInv, StageInv, BranchInv, Serial,
           Branches, AllFailures
  <1>7. CollectedInv(r)'
    BY <1>v DEF IInv, TypeOK, RequestInv, StageInv, CollectedInv, Serial,
           Branches, Passed, Halts, AllFailures
  <1>8. DeclineInv(r)'
    BY <1>v DEF IInv, TypeOK, RequestInv, StageInv, DeclineInv, Serial
  <1>9. BlameInv(r)'
    <2>2. b \in Plugins /\ group[r][b] = "Concurrent" /\ Objects(r, b)
      BY <1>b DEF Halting, Failed, Branches, Objects, CanBlock, Halts
    <2>3. ASSUME NEW q \in Plugins, Before(r, q, b), Objects(r, q) PROVE FALSE
      <3>1. group[r][q] \in {"Sequential", "Concurrent"}
        BY <2>3 DEF Objects, CanBlock
      <3>2. CASE group[r][q] = "Sequential"
        <4>1. SerialInv(r) /\ verdict[r] = "none"
          BY DEF IInv, RequestInv, StageInv
        <4>2. Passed(r, q)
          BY <3>2, <4>1 DEF SerialInv
        <4> QED
          BY <4>2, <2>3 DEF Passed, Objects, Halts, AllFailures
      <3>3. CASE group[r][q] = "Concurrent"
        <4>1. q < b
          BY <2>2, <2>3, <3>3 DEF Before, Phase
        <4>2. q \in Branches(r) /\ BranchInv(r)
          BY <3>3 DEF Branches, IInv, RequestInv
        <4>3. out[r][q] # "lost"
          BY <4>2 DEF BranchInv
        <4>4. q \in Halting(r)
          BY <2>3, <4>2, <4>3 DEF Objects, Halts, Halting, Failed
        <4> QED
          BY <1>b, <2>2, <4>1, <4>4
      <3> QED
        BY <3>1, <3>2, <3>3
    <2>4. blame'[r] = b /\ out' = out /\ group' = group /\ config' = config
      BY <1>b DEF IInv, TypeOK
    <2> HIDE DEF CollectDenies, ReadOutcomes, Deny
    <2>5. Objects(r, b)'
      BY <2>2, <2>4 DEF Objects, Halts
    <2>6. \A q \in Plugins : Before(r, q, b)' => ~Objects(r, q)'
      BY <2>3, <2>4 DEF Before, Objects, Halts
    <2> QED
      BY <2>4, <2>5, <2>6 DEF BlameInv
  <1> QED
    BY <1>1, <1>2, <1>3, <1>4, <1>5, <1>6, <1>7, <1>8, <1>9 DEF IInv, RequestInv

\* CollectPasses: without a halting branch every branch has passed, since a
\* cancelled one would mean that a deny was joined.
LEMMA CollectPassesInv ==
    ASSUME IInv, NEW r \in Requests, CollectPasses(r)
    PROVE  IInv'
  <1> USE DEF CollectPasses, ReadOutcomes, BranchAction, Tripped
  <1>v. \A k \in Plugins :
          act'[r][k] = IF k \in Branches(r) THEN BranchAction(out[r][k]) ELSE act[r][k]
    BY DEF IInv, TypeOK, ReadOutcomes
  <1>1. TypeOK'
    <2> USE DEF IInv, TypeOK
    <2>1. stage' \in [Requests -> Stages]
      BY DEF Stages
    <2>2. act' \in [Requests -> [Plugins -> Actions]]
      BY DEF Actions
    <2>3. errors' \in [Requests -> SUBSET Plugins] /\ disabled' \subseteq Plugins
      BY DEF Failed, Branches
    <2> QED
      BY <2>1, <2>2, <2>3
  <1>2. ASSUME NEW q \in Requests, q # r PROVE RequestInv(q)'
    BY <1>2, FrameRequest DEF IInv, TypeOK
  <1>3. StageInv(r)'
    BY <1>v DEF IInv, TypeOK, RequestInv, StageInv, Serial
  <1>4. TurnInv(r)'
    BY <1>v DEF IInv, TypeOK, RequestInv, StageInv, TurnInv, Serial, Turn,
           AllFailures
  <1>5. SerialInv(r)'
    BY <1>v DEF IInv, TypeOK, RequestInv, StageInv, SerialInv, Serial, Passed,
           Halts, AllFailures, CanBlock, Unread
  <1>6. BranchInv(r)'
    BY <1>v DEF IInv, TypeOK, RequestInv, StageInv, BranchInv, Serial,
           Branches, AllFailures
  <1>7. CollectedInv(r)'
    <2>1. \A k \in Branches(r) : out[r][k] # "deny"
      BY DEF Halting
    <2>2. joined[r] = Branches(r) /\ BranchInv(r)
      BY DEF IInv, RequestInv
    <2>3. ~aborted[r]
      BY <2>1, <2>2 DEF BranchInv
    <2>4. \A k \in Branches(r) : out[r][k] \notin {"none", "lost", "running", "cancelled"}
      BY <2>2, <2>3 DEF BranchInv
    <2>5. \A k \in Branches(r) : Passed(r, k)
      BY <2>1, <2>4 DEF IInv, TypeOK, Outs, Halting, Failed, Passed, Halts, Branches
    <2> QED
      BY <2>5 DEF CollectedInv, Branches, Passed, Halts
  <1>8. DeclineInv(r)'
    BY <1>v DEF IInv, TypeOK, RequestInv, StageInv, DeclineInv, Serial
  <1>9. BlameInv(r)'
    BY <1>v DEF IInv, TypeOK, RequestInv, StageInv, BlameInv, Serial, Objects,
           Before
  <1> QED
    BY <1>1, <1>2, <1>3, <1>4, <1>5, <1>6, <1>7, <1>8, <1>9 DEF IInv, RequestInv

\* Refuse: the refusal names no plugin.
LEMMA RefuseInv ==
    ASSUME IInv, NEW r \in Requests, Refuse(r)
    PROVE  IInv'
  <1> USE DEF Refuse, Deny
  <1>1. TypeOK'
    BY DEF IInv, TypeOK, Stages, Modes, Outs, Actions, Verdicts, Serial, StoreContext
  <1>2. ASSUME NEW q \in Requests, q # r PROVE RequestInv(q)'
    BY <1>2, FrameRequest DEF IInv, TypeOK
  <1>3. StageInv(r)'
    BY DEF IInv, TypeOK, RequestInv, StageInv, Serial
  <1>4. TurnInv(r)'
    BY DEF IInv, TypeOK, RequestInv, StageInv, TurnInv, Serial, Turn,
           AllFailures
  <1>5. SerialInv(r)'
    BY DEF IInv, TypeOK, RequestInv, StageInv, SerialInv, Serial, Passed,
           Halts, AllFailures, CanBlock, Unread
  <1>6. BranchInv(r)'
    BY DEF IInv, TypeOK, RequestInv, StageInv, BranchInv, Serial, Branches,
           AllFailures
  <1>7. CollectedInv(r)'
    BY DEF IInv, TypeOK, RequestInv, StageInv, CollectedInv, Serial, Branches,
           Passed, Halts, AllFailures
  <1>8. DeclineInv(r)'
    BY DEF IInv, TypeOK, RequestInv, StageInv, DeclineInv, Serial
  <1>9. BlameInv(r)'
    BY DEF IInv, TypeOK, RequestInv, StageInv, BlameInv, Serial, Objects,
           Before
  <1> QED
    BY <1>1, <1>2, <1>3, <1>4, <1>5, <1>6, <1>7, <1>8, <1>9 DEF IInv, RequestInv

\* Allow: the verdict is Allow only when no decline is left unanswered.
LEMMA AllowInv ==
    ASSUME IInv, NEW r \in Requests, Allow(r)
    PROVE  IInv'
  <1> USE DEF Allow, Unrecognised
  <1>v. \A k \in Plugins :
          out'[r][k] = IF group[r][k] = "FireAndForget" THEN "running" ELSE out[r][k]
    BY DEF IInv, TypeOK
  <1>1. TypeOK'
    BY <1>v DEF IInv, TypeOK, Stages, Modes, Outs, Actions, Verdicts, Serial, StoreContext
  <1>2. ASSUME NEW q \in Requests, q # r PROVE RequestInv(q)'
    BY <1>2, FrameRequest DEF IInv, TypeOK
  <1>3. StageInv(r)'
    BY <1>v DEF IInv, TypeOK, RequestInv, StageInv, Serial
  <1>4. TurnInv(r)'
    BY <1>v DEF IInv, TypeOK, RequestInv, StageInv, TurnInv, Serial, Turn,
           AllFailures
  <1>5. SerialInv(r)'
    <2>1. \A k \in Plugins : group[r][k] = "Sequential" => out'[r][k] = out[r][k]
      BY <1>v DEF Branches
    <2>2. stage[r] = "Settle" /\ verdict[r] = "none" /\ SerialInv(r)
      BY DEF IInv, RequestInv, StageInv
    <2>3. config' = config /\ group' = group /\ act' = act
      OBVIOUS
    <2> HIDE DEF Allow
    <2> QED
      BY <2>1, <2>2, <2>3 DEF SerialInv, Passed, Halts
  <1>6. BranchInv(r)'
    BY <1>v DEF IInv, TypeOK, RequestInv, StageInv, BranchInv, Serial,
           Branches, AllFailures
  <1>7. CollectedInv(r)'
    BY <1>v DEF IInv, TypeOK, RequestInv, StageInv, CollectedInv, Serial,
           Branches, Passed, Halts, AllFailures
  <1>8. DeclineInv(r)'
    BY <1>v DEF IInv, TypeOK, RequestInv, StageInv, DeclineInv, Serial
  <1>9. BlameInv(r)'
    BY <1>v DEF IInv, TypeOK, RequestInv, StageInv, BlameInv, Serial, Objects,
           Before
  <1> QED
    BY <1>1, <1>2, <1>3, <1>4, <1>5, <1>6, <1>7, <1>8, <1>9 DEF IInv, RequestInv

\* Dispatch: a plugin whose turn has come starts running.
LEMMA DispatchInv ==
    ASSUME IInv, NEW r \in Requests, NEW p \in Plugins, Dispatch(r, p)
    PROVE  IInv'
  <1> USE DEF Dispatch
  <1>1. TypeOK'
    BY DEF IInv, TypeOK, Stages, Modes, Outs, Actions, Verdicts, Serial, StoreContext
  <1>2. ASSUME NEW q \in Requests, q # r PROVE RequestInv(q)'
    BY <1>2, FrameRequest DEF IInv, TypeOK
  <1>3. StageInv(r)'
    BY DEF IInv, TypeOK, RequestInv, StageInv, Serial
  <1>4. TurnInv(r)'
    BY DEF IInv, TypeOK, RequestInv, StageInv, TurnInv, Serial, Turn,
           AllFailures
  <1>5. SerialInv(r)'
    BY DEF IInv, TypeOK, RequestInv, StageInv, SerialInv, Serial, Passed,
           Halts, AllFailures, CanBlock, Unread
  <1>6. BranchInv(r)'
    <2>1. stage'[r] # "Joining"
      BY DEF Turn, Serial
    <2> QED
      BY <2>1 DEF BranchInv
  <1>7. CollectedInv(r)'
    BY DEF IInv, TypeOK, RequestInv, StageInv, CollectedInv, Serial, Branches,
           Passed, Halts, AllFailures
  <1>8. DeclineInv(r)'
    BY DEF IInv, TypeOK, RequestInv, StageInv, DeclineInv, Serial
  <1>9. BlameInv(r)'
    <2>1. verdict'[r] = "none"
      BY DEF Turn, Serial, IInv, RequestInv, StageInv
    <2> QED
      BY <2>1 DEF BlameInv
  <1> QED
    BY <1>1, <1>2, <1>3, <1>4, <1>5, <1>6, <1>7, <1>8, <1>9 DEF IInv, RequestInv

\* Continues: a step that continues has passed.
LEMMA ContinuesInv ==
    ASSUME IInv, NEW r \in Requests, NEW p \in Plugins, Continues(r, p)
    PROVE  IInv'
  <1> USE DEF Continues, Returns, KeepVerdict
  <1>1. TypeOK'
    BY DEF IInv, TypeOK, Stages, Modes, Outs, Actions, Verdicts, Serial, StoreContext
  <1>2. ASSUME NEW q \in Requests, q # r PROVE RequestInv(q)'
    BY <1>2, FrameRequest DEF IInv, TypeOK
  <1>3. StageInv(r)'
    BY DEF IInv, TypeOK, RequestInv, StageInv, Serial
  <1>4. TurnInv(r)'
    BY DEF IInv, TypeOK, RequestInv, StageInv, TurnInv, Serial, Turn,
           AllFailures
  <1>5. SerialInv(r)'
    BY DEF IInv, TypeOK, RequestInv, StageInv, SerialInv, Serial, Passed,
           Halts, AllFailures, CanBlock, Unread
  <1>6. BranchInv(r)'
    BY DEF IInv, TypeOK, RequestInv, StageInv, BranchInv, Serial, Branches,
           AllFailures
  <1>7. CollectedInv(r)'
    BY DEF IInv, TypeOK, RequestInv, StageInv, CollectedInv, Serial, Branches,
           Passed, Halts, AllFailures
  <1>8. DeclineInv(r)'
    BY DEF IInv, TypeOK, RequestInv, StageInv, DeclineInv, Serial
  <1>9. BlameInv(r)'
    BY DEF IInv, TypeOK, RequestInv, StageInv, BlameInv, Serial, Objects,
           Before
  <1> QED
    BY <1>1, <1>2, <1>3, <1>4, <1>5, <1>6, <1>7, <1>8, <1>9 DEF IInv, RequestInv

\* Extends: a step that changes extensions has passed.
LEMMA ExtendsInv ==
    ASSUME IInv, NEW r \in Requests, NEW p \in Plugins, Extends(r, p)
    PROVE  IInv'
  <1> USE DEF Extends, Returns, KeepVerdict
  <1>1. TypeOK'
    BY DEF IInv, TypeOK, Stages, Modes, Outs, Actions, Verdicts, Serial, StoreContext
  <1>2. ASSUME NEW q \in Requests, q # r PROVE RequestInv(q)'
    BY <1>2, FrameRequest DEF IInv, TypeOK
  <1>3. StageInv(r)'
    BY DEF IInv, TypeOK, RequestInv, StageInv, Serial
  <1>4. TurnInv(r)'
    BY DEF IInv, TypeOK, RequestInv, StageInv, TurnInv, Serial, Turn,
           AllFailures
  <1>5. SerialInv(r)'
    BY DEF IInv, TypeOK, RequestInv, StageInv, SerialInv, Serial, Passed,
           Halts, AllFailures, CanBlock, Unread
  <1>6. BranchInv(r)'
    BY DEF IInv, TypeOK, RequestInv, StageInv, BranchInv, Serial, Branches,
           AllFailures
  <1>7. CollectedInv(r)'
    BY DEF IInv, TypeOK, RequestInv, StageInv, CollectedInv, Serial, Branches,
           Passed, Halts, AllFailures
  <1>8. DeclineInv(r)'
    BY DEF IInv, TypeOK, RequestInv, StageInv, DeclineInv, Serial
  <1>9. BlameInv(r)'
    BY DEF IInv, TypeOK, RequestInv, StageInv, BlameInv, Serial, Objects,
           Before
  <1> QED
    BY <1>1, <1>2, <1>3, <1>4, <1>5, <1>6, <1>7, <1>8, <1>9 DEF IInv, RequestInv

\* Modifies: the decline of an accepted payload is remembered.
LEMMA ModifiesInv ==
    ASSUME IInv, NEW r \in Requests, NEW p \in Plugins, Modifies(r, p)
    PROVE  IInv'
  <1> USE DEF Modifies, Returns, KeepVerdict, NoteDecline
  <1>v. PICK v \in AllPayloads :
          /\ given' = [given EXCEPT ![r][p] = v]
          /\ declined' = [declined EXCEPT ![r] = declined[r] \/ v.declined]
    BY DEF IInv, TypeOK
  <1>1. TypeOK'
    BY <1>v DEF IInv, TypeOK, Stages, Modes, Outs, Actions, Verdicts, Serial, StoreContext
  <1>2. ASSUME NEW q \in Requests, q # r PROVE RequestInv(q)'
    BY <1>2, FrameRequest DEF IInv, TypeOK
  <1>3. StageInv(r)'
    BY <1>v DEF IInv, TypeOK, RequestInv, StageInv, Serial
  <1>4. TurnInv(r)'
    BY <1>v DEF IInv, TypeOK, RequestInv, StageInv, TurnInv, Serial, Turn,
           AllFailures
  <1>5. SerialInv(r)'
    BY <1>v DEF IInv, TypeOK, RequestInv, StageInv, SerialInv, Serial, Passed,
           Halts, AllFailures, CanBlock, Unread
  <1>6. BranchInv(r)'
    BY <1>v DEF IInv, TypeOK, RequestInv, StageInv, BranchInv, Serial,
           Branches, AllFailures
  <1>7. CollectedInv(r)'
    BY <1>v DEF IInv, TypeOK, RequestInv, StageInv, CollectedInv, Serial,
           Branches, Passed, Halts, AllFailures
  <1>8. DeclineInv(r)'
    <2>1. verdict'[r] = "none" /\ DeclineInv(r)
      BY DEF Serial, IInv, RequestInv, StageInv
    <2>2. \A k \in 0..N : given'[r][k] = IF k = p THEN v ELSE given[r][k]
      BY <1>v DEF IInv, TypeOK
    <2>3. \A k \in Plugins : k # p => act'[r][k] = act[r][k]
      BY DEF IInv, TypeOK
    <2>4. declined'[r] = (declined[r] \/ v.declined) /\ v.declined \in BOOLEAN
      BY <1>v DEF IInv, TypeOK, AllPayloads
    <2> HIDE DEF Modifies, Returns, KeepVerdict, NoteDecline
    <2>5. ASSUME NEW k \in 0..N, given'[r][k].declined,
                 k # 0 => act'[r][k] = "ModifiedPayload"
          PROVE  declined'[r]
      <3>1. CASE k = p
        BY <2>2, <2>4, <2>5, <3>1
      <3>2. CASE k # p
        <4>1. given[r][k].declined
          BY <2>2, <2>5, <3>2
        <4>2. k # 0 => act[r][k] = "ModifiedPayload"
          BY <2>3, <2>5, <3>2
        <4>3. declined[r]
          BY <2>1, <4>1, <4>2 DEF DeclineInv
        <4> QED
          BY <2>4, <4>3
      <3> QED
        BY <3>1, <3>2
    <2> QED
      BY <2>1, <2>5 DEF DeclineInv
  <1>9. BlameInv(r)'
    BY <1>v DEF IInv, TypeOK, RequestInv, StageInv, BlameInv, Serial, Objects,
           Before
  <1> QED
    BY <1>1, <1>2, <1>3, <1>4, <1>5, <1>6, <1>7, <1>8, <1>9 DEF IInv, RequestInv

\* Denies: a deny in a phase that blocks is the verdict, and the first objection.
LEMMA DeniesInv ==
    ASSUME IInv, NEW r \in Requests, NEW p \in Plugins, Denies(r, p)
    PROVE  IInv'
  <1> USE DEF Denies, Returns, Deny
  <1>1. TypeOK'
    BY DEF IInv, TypeOK, Stages, Modes, Outs, Actions, Verdicts, Serial, StoreContext
  <1>2. ASSUME NEW q \in Requests, q # r PROVE RequestInv(q)'
    BY <1>2, FrameRequest DEF IInv, TypeOK
  <1>3. StageInv(r)'
    BY DEF IInv, TypeOK, RequestInv, StageInv, Serial
  <1>4. TurnInv(r)'
    BY DEF IInv, TypeOK, RequestInv, StageInv, TurnInv, Serial, Turn,
           AllFailures
  <1>5. SerialInv(r)'
    BY DEF IInv, TypeOK, RequestInv, StageInv, SerialInv, Serial, Passed,
           Halts, AllFailures, CanBlock, Unread
  <1>6. BranchInv(r)'
    BY DEF IInv, TypeOK, RequestInv, StageInv, BranchInv, Serial, Branches,
           AllFailures
  <1>7. CollectedInv(r)'
    BY DEF IInv, TypeOK, RequestInv, StageInv, CollectedInv, Serial, Branches,
           Passed, Halts, AllFailures
  <1>8. DeclineInv(r)'
    BY DEF IInv, TypeOK, RequestInv, StageInv, DeclineInv, Serial
  <1>9. BlameInv(r)'
    <2>1. stage[r] = "Sequential" /\ group[r][p] = "Sequential" /\ verdict[r] = "none"
      BY DEF CanBlock, Serial, IInv, RequestInv, StageInv
    <2>2. Turn(r, p)
      BY <2>1 DEF IInv, RequestInv, TurnInv, Serial
    <2>3. ASSUME NEW q \in Plugins, Before(r, q, p) PROVE group[r][q] = "Sequential" /\ q < p /\ Passed(r, q)
      <3>1. group[r][q] = "Sequential" /\ q < p
        BY <2>1, <2>3 DEF Before, Phase, IInv, TypeOK, Modes
      <3> QED
        BY <2>1, <2>2, <3>1 DEF Turn, IInv, RequestInv, SerialInv
    <2>4. blame'[r] = p /\ group' = group /\ config' = config
      BY DEF IInv, TypeOK
    <2>5. Objects(r, p)'
      BY <2>1, <2>4 DEF Objects, Halts, CanBlock, IInv, TypeOK
    <2>6. \A q \in Plugins : q < p => out'[r][q] = out[r][q]
      BY DEF IInv, TypeOK
    <2>7. \A q \in Plugins : Before(r, q, p)' => ~Objects(r, q)'
      BY <2>3, <2>4, <2>6 DEF Before, Objects, Halts, Passed, AllFailures
    <2> QED
      BY <2>4, <2>5, <2>7 DEF BlameInv
  <1> QED
    BY <1>1, <1>2, <1>3, <1>4, <1>5, <1>6, <1>7, <1>8, <1>9 DEF IInv, RequestInv

\* DenyIgnored: a deny elsewhere leaves the verdict open.
LEMMA DenyIgnoredInv ==
    ASSUME IInv, NEW r \in Requests, NEW p \in Plugins, DenyIgnored(r, p)
    PROVE  IInv'
  <1> USE DEF DenyIgnored, Returns, KeepVerdict
  <1>1. TypeOK'
    BY DEF IInv, TypeOK, Stages, Modes, Outs, Actions, Verdicts, Serial, StoreContext
  <1>2. ASSUME NEW q \in Requests, q # r PROVE RequestInv(q)'
    BY <1>2, FrameRequest DEF IInv, TypeOK
  <1>3. StageInv(r)'
    BY DEF IInv, TypeOK, RequestInv, StageInv, Serial
  <1>4. TurnInv(r)'
    BY DEF IInv, TypeOK, RequestInv, StageInv, TurnInv, Serial, Turn,
           AllFailures
  <1>5. SerialInv(r)'
    BY DEF IInv, TypeOK, RequestInv, StageInv, SerialInv, Serial, Passed,
           Halts, AllFailures, CanBlock, Unread
  <1>6. BranchInv(r)'
    BY DEF IInv, TypeOK, RequestInv, StageInv, BranchInv, Serial, Branches,
           AllFailures
  <1>7. CollectedInv(r)'
    BY DEF IInv, TypeOK, RequestInv, StageInv, CollectedInv, Serial, Branches,
           Passed, Halts, AllFailures
  <1>8. DeclineInv(r)'
    BY DEF IInv, TypeOK, RequestInv, StageInv, DeclineInv, Serial
  <1>9. BlameInv(r)'
    BY DEF IInv, TypeOK, RequestInv, StageInv, BlameInv, Serial, Objects,
           Before
  <1> QED
    BY <1>1, <1>2, <1>3, <1>4, <1>5, <1>6, <1>7, <1>8, <1>9 DEF IInv, RequestInv

\* FailsHalting: a failure that halts is the verdict, and the first objection.
LEMMA FailsHaltingInv ==
    ASSUME IInv, NEW r \in Requests, NEW p \in Plugins, FailsHalting(r, p)
    PROVE  IInv'
  <1> USE DEF FailsHalting, Returns, Deny
  <1>1. TypeOK'
    BY DEF IInv, TypeOK, Stages, Modes, Outs, Actions, Verdicts, Serial, StoreContext
  <1>2. ASSUME NEW q \in Requests, q # r PROVE RequestInv(q)'
    BY <1>2, FrameRequest DEF IInv, TypeOK
  <1>3. StageInv(r)'
    BY DEF IInv, TypeOK, RequestInv, StageInv, Serial
  <1>4. TurnInv(r)'
    BY DEF IInv, TypeOK, RequestInv, StageInv, TurnInv, Serial, Turn,
           AllFailures
  <1>5. SerialInv(r)'
    BY DEF IInv, TypeOK, RequestInv, StageInv, SerialInv, Serial, Passed,
           Halts, AllFailures, CanBlock, Unread
  <1>6. BranchInv(r)'
    BY DEF IInv, TypeOK, RequestInv, StageInv, BranchInv, Serial, Branches,
           AllFailures
  <1>7. CollectedInv(r)'
    BY DEF IInv, TypeOK, RequestInv, StageInv, CollectedInv, Serial, Branches,
           Passed, Halts, AllFailures
  <1>8. DeclineInv(r)'
    BY DEF IInv, TypeOK, RequestInv, StageInv, DeclineInv, Serial
  <1>9. BlameInv(r)'
    <2>o. PICK o \in Failures : Halts(p, o) /\ out' = [out EXCEPT ![r][p] = o]
      OBVIOUS
    <2>1. stage[r] = "Sequential" /\ group[r][p] = "Sequential" /\ verdict[r] = "none"
      BY DEF CanBlock, Serial, IInv, RequestInv, StageInv
    <2>2. Turn(r, p)
      BY <2>1 DEF IInv, RequestInv, TurnInv, Serial
    <2>3. ASSUME NEW q \in Plugins, Before(r, q, p) PROVE group[r][q] = "Sequential" /\ q < p /\ Passed(r, q)
      <3>1. group[r][q] = "Sequential" /\ q < p
        BY <2>1, <2>3 DEF Before, Phase, IInv, TypeOK, Modes
      <3> HIDE DEF FailsHalting, Returns, Deny
      <3> QED
        BY <2>1, <2>2, <3>1 DEF Turn, IInv, RequestInv, SerialInv
    <2>4. blame'[r] = p /\ group' = group /\ config' = config
      BY DEF IInv, TypeOK
    <2>5. Objects(r, p)'
      BY <2>o, <2>1, <2>4 DEF Objects, Halts, CanBlock, IInv, TypeOK
    <2>6. \A q \in Plugins : q < p => out'[r][q] = out[r][q]
      BY <2>o DEF IInv, TypeOK
    <2>7. \A q \in Plugins : Before(r, q, p)' => ~Objects(r, q)'
      BY <2>3, <2>4, <2>6 DEF Before, Objects, Halts, Passed, AllFailures
    <2> QED
      BY <2>4, <2>5, <2>7 DEF BlameInv
  <1> QED
    BY <1>1, <1>2, <1>3, <1>4, <1>5, <1>6, <1>7, <1>8, <1>9 DEF IInv, RequestInv

\* FailsSwallowed: a failure that does not halt has passed.
LEMMA FailsSwallowedInv ==
    ASSUME IInv, NEW r \in Requests, NEW p \in Plugins, FailsSwallowed(r, p)
    PROVE  IInv'
  <1> USE DEF FailsSwallowed, Returns, KeepVerdict, Tripped
  <1>1. TypeOK'
    <2>o. PICK o \in Failures :
            /\ out' = [out EXCEPT ![r][p] = o]
            /\ globals' = globals \/ globals' = [globals EXCEPT ![r] = @ \cup {p}]
      BY DEF StoreContext
    <2>1. out' \in [Requests -> [Plugins -> Outs]]
      BY <2>o DEF Outs, IInv, TypeOK
    <2>2. globals' \in [Requests -> SUBSET Plugins]
      <3>1. globals \in [Requests -> SUBSET Plugins]
        BY DEF IInv, TypeOK
      <3> HIDE DEF FailsSwallowed, Returns, KeepVerdict, Tripped
      <3> QED
        BY <2>o, <3>1
    <2>3. act' = [act EXCEPT ![r][p] = "Error"] /\ errors' = [errors EXCEPT ![r] = @ \cup {p}]
      OBVIOUS
    <2>4. act' \in [Requests -> [Plugins -> Actions]] /\ errors' \in [Requests -> SUBSET Plugins]
      BY <2>3 DEF Actions, IInv, TypeOK
    <2>5. disabled' \subseteq Plugins
      BY DEF IInv, TypeOK
    <2> QED
      BY <2>1, <2>2, <2>4, <2>5 DEF IInv, TypeOK
  <1>2. ASSUME NEW q \in Requests, q # r PROVE RequestInv(q)'
    BY <1>2, FrameRequest DEF IInv, TypeOK
  <1>3. StageInv(r)'
    BY DEF IInv, TypeOK, RequestInv, StageInv, Serial
  <1>4. TurnInv(r)'
    BY DEF IInv, TypeOK, RequestInv, StageInv, TurnInv, Serial, Turn,
           AllFailures
  <1>5. SerialInv(r)'
    BY DEF IInv, TypeOK, RequestInv, StageInv, SerialInv, Serial, Passed,
           Halts, AllFailures, CanBlock, Unread
  <1>6. BranchInv(r)'
    BY DEF IInv, TypeOK, RequestInv, StageInv, BranchInv, Serial, Branches,
           AllFailures
  <1>7. CollectedInv(r)'
    BY DEF IInv, TypeOK, RequestInv, StageInv, CollectedInv, Serial, Branches,
           Passed, Halts, AllFailures
  <1>8. DeclineInv(r)'
    BY DEF IInv, TypeOK, RequestInv, StageInv, DeclineInv, Serial
  <1>9. BlameInv(r)'
    BY DEF IInv, TypeOK, RequestInv, StageInv, BlameInv, Serial, Objects,
           Before
  <1> QED
    BY <1>1, <1>2, <1>3, <1>4, <1>5, <1>6, <1>7, <1>8, <1>9 DEF IInv, RequestInv

\* FailsUnread: an unread result is not one of a blocking phase.
LEMMA FailsUnreadInv ==
    ASSUME IInv, NEW r \in Requests, NEW p \in Plugins, FailsUnread(r, p)
    PROVE  IInv'
  <1> USE DEF FailsUnread, Returns, KeepVerdict, Unread
  <1>1. TypeOK'
    BY DEF IInv, TypeOK, Stages, Modes, Outs, Actions, Verdicts, Serial, StoreContext
  <1>2. ASSUME NEW q \in Requests, q # r PROVE RequestInv(q)'
    BY <1>2, FrameRequest DEF IInv, TypeOK
  <1>3. StageInv(r)'
    BY DEF IInv, TypeOK, RequestInv, StageInv, Serial
  <1>4. TurnInv(r)'
    BY DEF IInv, TypeOK, RequestInv, StageInv, TurnInv, Serial, Turn,
           AllFailures
  <1>5. SerialInv(r)'
    BY DEF IInv, TypeOK, RequestInv, StageInv, SerialInv, Serial, Passed,
           Halts, AllFailures, CanBlock, Unread
  <1>6. BranchInv(r)'
    BY DEF IInv, TypeOK, RequestInv, StageInv, BranchInv, Serial, Branches,
           AllFailures
  <1>7. CollectedInv(r)'
    BY DEF IInv, TypeOK, RequestInv, StageInv, CollectedInv, Serial, Branches,
           Passed, Halts, AllFailures
  <1>8. DeclineInv(r)'
    BY DEF IInv, TypeOK, RequestInv, StageInv, DeclineInv, Serial
  <1>9. BlameInv(r)'
    BY DEF IInv, TypeOK, RequestInv, StageInv, BlameInv, Serial, Objects,
           Before
  <1> QED
    BY <1>1, <1>2, <1>3, <1>4, <1>5, <1>6, <1>7, <1>8, <1>9 DEF IInv, RequestInv

\* BranchEnds: a branch that ends by itself was running and is not joined yet.
LEMMA BranchEndsInv ==
    ASSUME IInv, NEW r \in Requests, NEW p \in Plugins, BranchEnds(r, p)
    PROVE  IInv'
  <1> USE DEF BranchEnds
  <1>1. TypeOK'
    BY DEF IInv, TypeOK, Stages, Modes, Outs, Actions, Verdicts, Serial, StoreContext
  <1>2. ASSUME NEW q \in Requests, q # r PROVE RequestInv(q)'
    BY <1>2, FrameRequest DEF IInv, TypeOK
  <1>3. StageInv(r)'
    BY DEF IInv, TypeOK, RequestInv, StageInv, Serial
  <1>4. TurnInv(r)'
    BY DEF IInv, TypeOK, RequestInv, StageInv, TurnInv, Serial, Turn,
           AllFailures
  <1>5. SerialInv(r)'
    BY DEF IInv, TypeOK, RequestInv, StageInv, SerialInv, Serial, Passed,
           Halts, AllFailures, CanBlock, Unread
  <1>6. BranchInv(r)'
    <2>1. PICK o : /\ out' = [out EXCEPT ![r][p] = o]
                   /\ o \notin {"none", "lost", "running"}
                   /\ o = "cancelled" => aborted[r]
      BY DEF AllFailures
    <2>2. \A k \in Plugins : out'[r][k] = IF k = p THEN o ELSE out[r][k]
      BY <2>1 DEF IInv, TypeOK
    <2>3. BranchInv(r) /\ stage[r] = "Joining" /\ out[r][p] = "running"
      BY DEF IInv, RequestInv
    <2>4. Branches(r)' = Branches(r) /\ joined' = joined /\ aborted' = aborted /\ stage' = stage
      BY DEF Branches
    <2>5. Branches(r) \subseteq Plugins
      BY DEF Branches
    <2> HIDE DEF BranchEnds
    <2> QED
      BY <2>1, <2>2, <2>3, <2>4, <2>5 DEF BranchInv
  <1>7. CollectedInv(r)'
    BY DEF IInv, TypeOK, RequestInv, StageInv, CollectedInv, Serial, Branches,
           Passed, Halts, AllFailures
  <1>8. DeclineInv(r)'
    BY DEF IInv, TypeOK, RequestInv, StageInv, DeclineInv, Serial
  <1>9. BlameInv(r)'
    BY DEF IInv, TypeOK, RequestInv, StageInv, BlameInv, Serial, Objects,
           Before
  <1> QED
    BY <1>1, <1>2, <1>3, <1>4, <1>5, <1>6, <1>7, <1>8, <1>9 DEF IInv, RequestInv

\* BranchCancelled: a branch is cancelled only after abort_all.
LEMMA BranchCancelledInv ==
    ASSUME MayLose = FALSE, IInv, NEW r \in Requests, NEW p \in Plugins, BranchCancelled(r, p)
    PROVE  IInv'
  <1> USE DEF BranchCancelled
  <1>1. TypeOK'
    BY DEF IInv, TypeOK, Stages, Modes, Outs, Actions, Verdicts, Serial, StoreContext
  <1>2. ASSUME NEW q \in Requests, q # r PROVE RequestInv(q)'
    BY <1>2, FrameRequest DEF IInv, TypeOK
  <1>3. StageInv(r)'
    BY DEF IInv, TypeOK, RequestInv, StageInv, Serial
  <1>4. TurnInv(r)'
    BY DEF IInv, TypeOK, RequestInv, StageInv, TurnInv, Serial, Turn,
           AllFailures
  <1>5. SerialInv(r)'
    BY DEF IInv, TypeOK, RequestInv, StageInv, SerialInv, Serial, Passed,
           Halts, AllFailures, CanBlock, Unread
  <1>6. BranchInv(r)'
    <2>1. out' = [out EXCEPT ![r][p] = "cancelled"] /\ aborted[r]
      BY MayLose = FALSE
    <2>2. \A k \in Plugins : out'[r][k] = IF k = p THEN "cancelled" ELSE out[r][k]
      BY <2>1 DEF IInv, TypeOK
    <2>3. BranchInv(r) /\ stage[r] = "Joining" /\ out[r][p] = "running"
      BY DEF IInv, RequestInv
    <2>4. Branches(r)' = Branches(r) /\ joined' = joined /\ aborted' = aborted /\ stage' = stage
      BY DEF Branches
    <2>5. Branches(r) \subseteq Plugins
      BY DEF Branches
    <2> HIDE DEF BranchCancelled
    <2> QED
      BY <2>1, <2>2, <2>3, <2>4, <2>5 DEF BranchInv
  <1>7. CollectedInv(r)'
    BY DEF IInv, TypeOK, RequestInv, StageInv, CollectedInv, Serial, Branches,
           Passed, Halts, AllFailures
  <1>8. DeclineInv(r)'
    BY DEF IInv, TypeOK, RequestInv, StageInv, DeclineInv, Serial
  <1>9. BlameInv(r)'
    BY DEF IInv, TypeOK, RequestInv, StageInv, BlameInv, Serial, Objects,
           Before
  <1> QED
    BY <1>1, <1>2, <1>3, <1>4, <1>5, <1>6, <1>7, <1>8, <1>9 DEF IInv, RequestInv

\* JoinBranch: the join that aborts is the join of a deny.
LEMMA JoinBranchInv ==
    ASSUME IInv, NEW r \in Requests, NEW p \in Plugins, JoinBranch(r, p)
    PROVE  IInv'
  <1> USE DEF JoinBranch, IsDeny
  <1>1. TypeOK'
    BY DEF IInv, TypeOK, Stages, Modes, Outs, Actions, Verdicts, Serial, StoreContext
  <1>2. ASSUME NEW q \in Requests, q # r PROVE RequestInv(q)'
    BY <1>2, FrameRequest DEF IInv, TypeOK
  <1>3. StageInv(r)'
    BY DEF IInv, TypeOK, RequestInv, StageInv, Serial
  <1>4. TurnInv(r)'
    BY DEF IInv, TypeOK, RequestInv, StageInv, TurnInv, Serial, Turn,
           AllFailures
  <1>5. SerialInv(r)'
    BY DEF IInv, TypeOK, RequestInv, StageInv, SerialInv, Serial, Passed,
           Halts, AllFailures, CanBlock, Unread
  <1>6. BranchInv(r)'
    BY DEF IInv, TypeOK, RequestInv, StageInv, BranchInv, Serial, Branches,
           AllFailures
  <1>7. CollectedInv(r)'
    BY DEF IInv, TypeOK, RequestInv, StageInv, CollectedInv, Serial, Branches,
           Passed, Halts, AllFailures
  <1>8. DeclineInv(r)'
    BY DEF IInv, TypeOK, RequestInv, StageInv, DeclineInv, Serial
  <1>9. BlameInv(r)'
    BY DEF IInv, TypeOK, RequestInv, StageInv, BlameInv, Serial, Objects,
           Before
  <1> QED
    BY <1>1, <1>2, <1>3, <1>4, <1>5, <1>6, <1>7, <1>8, <1>9 DEF IInv, RequestInv

----------------------------------------------------------------------------
(* The theorems.                                                           *)

\* Every step keeps the invariant.
LEMMA NextInv ==
    ASSUME MayLose = FALSE, IInv, [Next]_vars PROVE IInv'
  <1>1. CASE UNCHANGED vars
    <2>1. TypeOK'
      BY <1>1 DEF IInv, TypeOK, vars, perRequest
    <2>2. ASSUME NEW q \in Requests PROVE RequestInv(q)'
      BY <1>1, FrameRequest DEF IInv, vars, perRequest
    <2> QED
      BY <2>1, <2>2 DEF IInv
  <1>2. CASE Next
    BY <1>2, StartInv, DropInv, NextPhaseInv, SpawnBranchesInv,
       CollectDeniesInv, CollectPassesInv, RefuseInv, AllowInv, DispatchInv,
       ContinuesInv, ExtendsInv, ModifiesInv, DeniesInv, DenyIgnoredInv,
       FailsHaltingInv, FailsSwallowedInv, FailsUnreadInv, BranchEndsInv,
       BranchCancelledInv, JoinBranchInv DEF Next, Step
  <1> QED
    BY <1>1, <1>2

\* IInv holds in every reachable state.
THEOREM Invariance == MayLose = FALSE => (Spec => []IInv)
  <1> SUFFICES ASSUME MayLose = FALSE PROVE Spec => []IInv
    OBVIOUS
  <1>1. IInv /\ [Next]_vars => IInv'
    BY NextInv
  <1> QED
    BY InitInv, <1>1, PTL DEF Spec

\* The pipeline's state stays in its types.
THEOREM TypeCorrect == MayLose = FALSE => (Spec => []TypeOK)
  <1>1. IInv => TypeOK
    BY DEF IInv
  <1> QED
    BY Invariance, <1>1, PTL

\* execute_audited allows a request only if every sequential and concurrent
\* plugin passed, for any number of plugins, any configuration and any order
\* in which the branches end.
THEOREM FailClosedHolds == MayLose = FALSE => (Spec => []FailClosed)
  <1>1. IInv => FailClosed
    BY DEF IInv, RequestInv, StageInv, SerialInv, CollectedInv, FailClosed,
           CanBlock, Branches, TypeOK
  <1> QED
    BY Invariance, <1>1, PTL

\* The violation run_concurrent_phase and run_serial_phase return names the
\* first objector in input order, however the branches interleave.
THEOREM FirstObjectorBlamedHolds ==
    MayLose = FALSE => (Spec => []FirstObjectorBlamed)
  <1>1. IInv => FirstObjectorBlamed
    BY DEF IInv, RequestInv, BlameInv, FirstObjectorBlamed
  <1> QED
    BY Invariance, <1>1, PTL

\* A declined credential nobody recognised is refused, whatever payloads later
\* resolvers return.
THEOREM UnrecognisedRefusedHolds ==
    MayLose = FALSE => (Spec => []UnrecognisedRefused)
  <1>1. IInv => UnrecognisedRefused
    BY DEF IInv, RequestInv, DeclineInv, UnrecognisedRefused
  <1> QED
    BY Invariance, <1>1, PTL

----------------------------------------------------------------------------
(* The record of a request: the decision log, the errors, the context      *)
(* table and the payload.                                                  *)

\* How the step recorded for a plugin and the end of its task go together.
StepInv(r, p) ==
    /\ act[r][p] = "none" =>
          \/ out[r][p] \in {"none", "running"}
          \/ p \in Branches(r) /\ (stage[r] = "Joining" \/ verdict[r] = "dropped")
    /\ act[r][p] \in {"Allowed", "ModifiedPayload", "ModifiedExtensions"} =>
          \/ out[r][p] = "continue"
          \/ group[r][p] = "Audit" /\ out[r][p] = "wrongtype"
    /\ act[r][p] \in {"Denied", "DenyIgnored"} => out[r][p] = "deny"
    /\ act[r][p] = "Error" => out[r][p] \in AllFailures
    /\ act[r][p] = "Aborted" =>
          out[r][p] = "cancelled" /\ \E q \in Plugins : act[r][q] = "Denied"

\* Plugins get their steps phase by phase, and by priority within one.
OrderInv(r, p) ==
    /\ act[r][p] # "none" => group[r][p] \in Serial \cup {"Concurrent"}
    /\ group[r][p] \in {"FireAndForget", "Disabled"} /\ verdict[r] # "Allow" =>
          out[r][p] = "none"
    /\ stage[r] \in Serial \cup {"Concurrent"} =>
          /\ Phase(stage[r]) < Phase(group[r][p]) \/ group[r][p] = "Concurrent" =>
                out[r][p] = "none" /\ act[r][p] = "none"
          /\ Phase(group[r][p]) < Phase(stage[r]) => act[r][p] # "none"
    /\ stage[r] \in {"Joining", "Settle"} /\ group[r][p] \in Serial => act[r][p] # "none"
    /\ stage[r] = "Joining" /\ p \in Branches(r) => act[r][p] = "none"
    /\ group[r][p] \in Serial /\ act[r][p] # "none" =>
          \A q \in Plugins : q < p /\ group[r][q] = group[r][p] => act[r][q] # "none"

\* The error records are the failures that did not decide the request.
ErrorsInv(r, p) ==
    /\ p \in errors[r] <=> act[r][p] = "Error" /\ ~Objects(r, p)
    /\ p \in errors[r] /\ config[p].onError = "Disable" => p \in disabled

\* The context of a plugin is in the table, as OnlyHonouredKept says.
GlobalsInv(r, p) ==
    p \in globals[r] <=>
       /\ CanModify(group[r][p])
       /\ act[r][p] # "none"
       /\ out[r][p] \notin {"panic", "lost"}
       /\ ~Objects(r, p)

\* The current payload is that of the last plugin that modified it.
PayloadInv(r) ==
    /\ payload[r] # 0 => act[r][payload[r]] = "ModifiedPayload"
    /\ \A p \in Plugins : act[r][p] = "ModifiedPayload" =>
          /\ payload[r] # 0
          /\ ~Before(r, payload[r], p)
          /\ CanModify(group[r][p])

RecordInv(r) ==
    /\ \A p \in Plugins :
          StepInv(r, p) /\ OrderInv(r, p) /\ ErrorsInv(r, p) /\ GlobalsInv(r, p)
    /\ PayloadInv(r)

\* Nothing the record of q depends on changes but the breakers, which only trip.
LEMMA FrameRecord ==
    ASSUME NEW q \in Requests, RecordInv(q), config' = config, disabled \subseteq disabled',
           stage'[q] = stage[q], group'[q] = group[q], out'[q] = out[q],
           act'[q] = act[q], payload'[q] = payload[q], globals'[q] = globals[q],
           errors'[q] = errors[q], verdict'[q] = verdict[q]
    PROVE  RecordInv(q)'
<1>1. ASSUME NEW p \in Plugins PROVE StepInv(q, p)'
  BY <1>1 DEF RecordInv, StepInv, Branches
<1>2. ASSUME NEW p \in Plugins PROVE OrderInv(q, p)'
  BY <1>2 DEF RecordInv, OrderInv, Branches
<1>3. ASSUME NEW p \in Plugins PROVE ErrorsInv(q, p)'
  BY <1>3 DEF RecordInv, ErrorsInv, Objects, Halts
<1>4. PayloadInv(q)'
  BY DEF RecordInv, PayloadInv, Before
<1>5. ASSUME NEW p \in Plugins PROVE GlobalsInv(q, p)'
  BY <1>5 DEF RecordInv, GlobalsInv, Objects, Halts
<1> QED BY <1>1, <1>2, <1>3, <1>4, <1>5 DEF RecordInv

\* p returns as o and its step is a: the step fits the end of the task, and the
\* errors, the contexts and the payload follow from both.  `objects` tells
\* whether this decides the request.
Recorded(r, p, o, a, objects) ==
    /\ Returns(r, p, o, a)
    /\ objects <=> CanBlock(stage[r]) /\ (o = "deny" \/ Halts(p, o))
    /\ o \notin {"none", "running"} /\ a \in Actions \ {"none", "Aborted"}
    /\ a \in {"Allowed", "ModifiedPayload", "ModifiedExtensions"} =>
          o = "continue" \/ (stage[r] = "Audit" /\ o = "wrongtype")
    /\ a \in {"Denied", "DenyIgnored"} => o = "deny"
    /\ a = "Error" => o \in AllFailures
    /\ a = "ModifiedPayload" => CanModify(stage[r])
    /\ config' = config /\ group' = group /\ disabled \subseteq disabled'
    /\ \/ stage'[r] = stage[r] /\ verdict'[r] = verdict[r]
       \/ stage'[r] = "Ended" /\ verdict'[r] = "Deny"
    /\ errors'[r] = IF a = "Error" /\ ~objects THEN errors[r] \cup {p} ELSE errors[r]
    /\ a = "Error" /\ ~objects /\ config[p].onError = "Disable" => p \in disabled'
    /\ globals'[r] = IF CanModify(stage[r]) /\ o \notin {"panic", "lost"} /\ ~objects
                     THEN globals[r] \cup {p} ELSE globals[r]
    /\ payload'[r] = IF a = "ModifiedPayload" THEN p ELSE payload[r]

\* However a serial plugin returns, the record stays true.
LEMMA ReturnRecord ==
    ASSUME IInv, NEW r \in Requests, RecordInv(r),
           NEW p \in Plugins, NEW o, NEW a, NEW objects \in BOOLEAN,
           Recorded(r, p, o, a, objects)
    PROVE  RecordInv(r)'
<1> USE DEF Recorded
<1>1. /\ act'[r] = [act[r] EXCEPT ![p] = a] /\ out'[r] = [out[r] EXCEPT ![p] = o]
      /\ \A k \in Plugins : act'[r][k] = IF k = p THEN a ELSE act[r][k]
      /\ \A k \in Plugins : out'[r][k] = IF k = p THEN o ELSE out[r][k]
  BY DEF Returns, IInv, TypeOK
<1>2. /\ stage[r] \in Serial /\ group[r][p] = stage[r] /\ out[r][p] = "running"
      /\ act[r][p] = "none"
      /\ \A k \in Plugins : k < p /\ group[r][k] = stage[r] => act[r][k] # "none"
      /\ verdict[r] = "none"
  BY DEF Returns, IInv, RequestInv, TurnInv, Turn, StageInv, Serial
<1>3. /\ \A k \in Plugins : group[r][k] \in Modes \cup {"Disabled"}
      /\ \A k \in Plugins : act[r][k] \in Actions
      /\ \A k \in Plugins : out[r][k] \in Outs
      /\ payload[r] \in 0..N
  <2>1. /\ group[r] \in [Plugins -> Modes \cup {"Disabled"}]
        /\ act[r] \in [Plugins -> Actions]
        /\ out[r] \in [Plugins -> Outs]
        /\ payload[r] \in 0..N
    BY DEF IInv, TypeOK
  <2> QED BY <2>1
<1>p. Plugins \subseteq Nat \ {0}
  BY NAssumption DEF Plugins
<1>4. Objects(r, p)' <=> objects
  BY <1>1, <1>2 DEF Objects, Halts
<1>5. \A k \in Plugins \ {p} : Objects(r, k)' <=> Objects(r, k)
  BY <1>1 DEF Objects, Halts
<1>6. ASSUME NEW k \in Plugins PROVE StepInv(r, k)'
  <2>1. CASE k = p
    BY <1>1, <1>2, <2>1 DEF StepInv
  <2>2. CASE k # p
    <3>1. StepInv(r, k) /\ act'[r][k] = act[r][k] /\ out'[r][k] = out[r][k]
      BY <1>1, <2>2 DEF RecordInv
    <3>2. \A q \in Plugins : act[r][q] = "Denied" => act'[r][q] = "Denied"
      BY <1>1, <1>2
    <3> QED BY <1>2, <3>1, <3>2 DEF StepInv, Branches, Serial
  <2> QED BY <2>1, <2>2
<1>7. ASSUME NEW k \in Plugins PROVE OrderInv(r, k)'
  <2>1. CASE k = p
    BY <1>1, <1>2, <1>3, <2>1 DEF RecordInv, OrderInv, Branches, Serial, Phase
  <2>2. CASE k # p
    BY <1>1, <1>2, <1>3, <2>2 DEF RecordInv, OrderInv, Branches, Serial
  <2> QED BY <2>1, <2>2
<1>8. ASSUME NEW k \in Plugins PROVE ErrorsInv(r, k)'
  <2>1. CASE k = p
    BY <1>1, <1>2, <1>4, <2>1 DEF RecordInv, ErrorsInv
  <2>2. CASE k # p
    BY <1>1, <1>5, <2>2 DEF RecordInv, ErrorsInv
  <2> QED BY <2>1, <2>2
<1>9. PayloadInv(r)'
  <2>1. CASE a # "ModifiedPayload"
    BY <1>1, <1>2, <1>3, <2>1 DEF RecordInv, PayloadInv, Before, Plugins
  <2>2. CASE a = "ModifiedPayload"
    <3>1. payload'[r] = p /\ p # 0 /\ act'[r][p] = "ModifiedPayload" /\ CanModify(group[r][p])
      BY <1>1, <1>2, <1>p, <2>2
    <3>2. ASSUME NEW k \in Plugins, k # p, act[r][k] = "ModifiedPayload"
          PROVE  ~Before(r, p, k)'
      <4>1. CanModify(group[r][k]) /\ group[r][k] \in Serial
        BY <3>2 DEF RecordInv, PayloadInv, CanModify, Serial
      <4>2. ~(Phase(group[r][p]) < Phase(group[r][k]))
        BY <1>2, <1>3, <3>2, <4>1 DEF RecordInv, OrderInv
      <4>3. ~(group[r][p] = group[r][k] /\ p < k)
        BY <1>2, <3>2, <4>1 DEF RecordInv, OrderInv
      <4> QED BY <4>2, <4>3 DEF Before
    <3>3. ~Before(r, p, p)'
      BY <1>2, <1>3, <1>p DEF Before, Phase, Serial
    <3> QED BY <1>1, <3>1, <3>2, <3>3 DEF RecordInv, PayloadInv
  <2> QED BY <2>1, <2>2
<1>10. ASSUME NEW k \in Plugins PROVE GlobalsInv(r, k)'
  <2>1. CASE k = p
    BY <1>1, <1>2, <1>4, <2>1 DEF RecordInv, GlobalsInv
  <2>2. CASE k # p
    BY <1>1, <1>5, <2>2 DEF RecordInv, GlobalsInv
  <2> QED BY <2>1, <2>2
<1> QED BY <1>6, <1>7, <1>8, <1>9, <1>10 DEF RecordInv

\* The eight ways a serial plugin returns.
LEMMA SerialRecord ==
    ASSUME IInv, NEW r \in Requests, RecordInv(r), NEW p \in Plugins,
           \/ Continues(r, p) \/ Extends(r, p) \/ Modifies(r, p)
           \/ Denies(r, p) \/ DenyIgnored(r, p)
           \/ FailsHalting(r, p) \/ FailsSwallowed(r, p) \/ FailsUnread(r, p)
    PROVE  RecordInv(r)'
<1>1. /\ globals \in [Requests -> SUBSET Plugins] /\ errors \in [Requests -> SUBSET Plugins]
      /\ stage \in [Requests -> Stages] /\ verdict \in [Requests -> Verdicts]
      /\ payload \in [Requests -> 0..N]
  BY DEF IInv, TypeOK
<1> USE DEF StoreContext, KeepVerdict, Deny, Actions, AllFailures
<1>2. CASE Continues(r, p)
  <2>1. Recorded(r, p, "continue", "Allowed", FALSE)
    BY <1>1, <1>2 DEF Continues, Recorded, Halts
  <2> QED BY <2>1, ReturnRecord
<1>3. CASE Extends(r, p)
  <2>1. Recorded(r, p, "continue", "ModifiedExtensions", FALSE)
    BY <1>1, <1>3 DEF Extends, Recorded, Halts
  <2> QED BY <2>1, ReturnRecord
<1>4. CASE Modifies(r, p)
  <2>1. Recorded(r, p, "continue", "ModifiedPayload", FALSE)
    BY <1>1, <1>4 DEF Modifies, Recorded, Halts
  <2> QED BY <2>1, ReturnRecord
<1>5. CASE Denies(r, p)
  <2>1. Recorded(r, p, "deny", "Denied", TRUE)
    BY <1>1, <1>5 DEF Denies, Recorded, Halts
  <2> QED BY <2>1, ReturnRecord
<1>6. CASE DenyIgnored(r, p)
  <2>1. Recorded(r, p, "deny", "DenyIgnored", FALSE)
    BY <1>1, <1>6 DEF DenyIgnored, Recorded, Halts
  <2> QED BY <2>1, ReturnRecord
<1>7. CASE FailsHalting(r, p)
  <2>1. PICK o \in Failures : FailsHalting(r, p)!(o)
    BY <1>7 DEF FailsHalting
  <2>2. o \in AllFailures
    BY FailuresAssumption
  <2>3. TRUE <=> CanBlock(stage[r]) /\ (o = "deny" \/ Halts(p, o))
    BY <2>1
  <2>4. Recorded(r, p, o, "Error", TRUE)
    BY <1>1, <2>1, <2>2, <2>3 DEF Recorded
  <2> QED BY <2>4, ReturnRecord
<1>8. CASE FailsSwallowed(r, p)
  <2>1. PICK o \in Failures : FailsSwallowed(r, p)!(o)
    BY <1>8 DEF FailsSwallowed
  <2>2. o \in AllFailures
    BY FailuresAssumption
  <2>3. FALSE <=> CanBlock(stage[r]) /\ (o = "deny" \/ Halts(p, o))
    BY <2>1, <2>2
  <2>4. config[p].onError = "Disable" => p \in disabled'
    BY <2>1 DEF Tripped
  <2>5. Recorded(r, p, o, "Error", FALSE)
    BY <1>1, <2>1, <2>2, <2>3, <2>4 DEF Recorded
  <2> QED BY <2>5, ReturnRecord
<1>9. CASE FailsUnread(r, p)
  <2>1. PICK o \in Failures : FailsUnread(r, p)!(o)
    BY <1>9 DEF FailsUnread
  <2>2. stage[r] = "Audit" /\ o = "wrongtype"
    BY <2>1 DEF Unread
  <2>3. FALSE <=> CanBlock(stage[r]) /\ (o = "deny" \/ Halts(p, o))
    BY <2>2 DEF CanBlock
  <2>4. Recorded(r, p, o, "Allowed", FALSE)
    BY <1>1, <2>1, <2>2, <2>3 DEF Recorded, CanModify
  <2> QED BY <2>4, ReturnRecord
<1> QED BY <1>2, <1>3, <1>4, <1>5, <1>6, <1>7, <1>8, <1>9

\* What the type invariant says of one request.
LEMMA RequestTypes ==
    ASSUME IInv, NEW r \in Requests
    PROVE  /\ \A k \in Plugins : /\ group[r][k] \in Modes \cup {"Disabled"}
                                 /\ act[r][k] \in Actions /\ out[r][k] \in Outs
           /\ stage[r] \in Stages /\ verdict[r] \in Verdicts /\ payload[r] \in 0..N
<1>1. /\ group[r] \in [Plugins -> Modes \cup {"Disabled"}]
      /\ act[r] \in [Plugins -> Actions] /\ out[r] \in [Plugins -> Outs]
  BY DEF IInv, TypeOK
<1>2. stage[r] \in Stages /\ verdict[r] \in Verdicts /\ payload[r] \in 0..N
  BY DEF IInv, TypeOK
<1> QED BY <1>1, <1>2

\* A request starts with an empty record.
LEMMA StartRecord ==
    ASSUME IInv, NEW r \in Requests, Start(r)
    PROVE  RecordInv(r)'
<1>1. /\ \A k \in Plugins : act'[r][k] = "none" /\ out'[r][k] = "none"
      /\ payload'[r] = 0 /\ globals'[r] = {} /\ errors'[r] = {}
      /\ stage'[r] = "Sequential" /\ verdict'[r] = "none"
  BY DEF Start, IInv, TypeOK
<1>2. IInv'
  BY StartInv
<1>3. \A k \in Plugins : group'[r][k] \in Modes \cup {"Disabled"}
  <2>1. group'[r] \in [Plugins -> Modes \cup {"Disabled"}]
    BY <1>2 DEF IInv, TypeOK
  <2> QED BY <2>1
<1>4. ASSUME NEW k \in Plugins PROVE OrderInv(r, k)'
  BY <1>1, <1>3, <1>4 DEF OrderInv, Serial, Phase, Modes
<1> QED BY <1>1, <1>4 DEF RecordInv, StepInv, ErrorsInv, GlobalsInv, PayloadInv

\* Only the stage or the verdict of r changes.
LEMMA MoveRecord ==
    ASSUME IInv, NEW r \in Requests, RecordInv(r),
           \/ Drop(r) \/ NextPhase(r) \/ Refuse(r)
           \/ \E p \in Plugins : JoinBranch(r, p)
    PROVE  RecordInv(r)'
<1>1. /\ UNCHANGED <<config, disabled, group, out, act, payload, globals, errors>>
      /\ \/ stage'[r] = stage[r] /\ verdict'[r] = verdict[r]
         \/ stage[r] # "Ended" /\ stage'[r] = "Ended" /\ verdict'[r] = "dropped"
         \/ stage[r] = "Settle" /\ stage'[r] = "Ended" /\ verdict'[r] = "Deny"
         \/ /\ stage[r] \in Serial /\ verdict'[r] = verdict[r]
            /\ \A p \in Plugins : group[r][p] = stage[r] => act[r][p] # "none"
            /\ stage'[r] = CASE stage[r] = "Sequential" -> "Transform"
                             [] stage[r] = "Transform"  -> "Audit"
                             [] stage[r] = "Audit"      -> "Concurrent"
  BY DEF Drop, NextPhase, Refuse, Deny, JoinBranch, IInv, TypeOK
<1>2. \A k \in Plugins : /\ group[r][k] \in Modes \cup {"Disabled"}
                         /\ act[r][k] \in Actions /\ out[r][k] \in Outs
  BY RequestTypes
<1>v. stage[r] # "Ended" => verdict[r] = "none"
  BY DEF IInv, RequestInv, StageInv
<1>3. ASSUME NEW k \in Plugins PROVE StepInv(r, k)'
  BY <1>1, <1>v, <1>3 DEF RecordInv, StepInv, Branches, Serial
<1>4. ASSUME NEW k \in Plugins PROVE OrderInv(r, k)'
  <2>1. OrderInv(r, k) /\ (group[r][k] = stage[r] /\ stage'[r] # "Ended" /\ stage'[r] # stage[r]
                              => act[r][k] # "none")
    BY <1>1, <1>4 DEF RecordInv
  <2>2. CASE stage'[r] = stage[r] /\ verdict'[r] = verdict[r]
    BY <1>1, <2>1, <2>2 DEF OrderInv, Branches
  <2>3. CASE stage[r] # "Ended" /\ stage'[r] = "Ended"
    BY <1>1, <1>v, <2>1, <2>3 DEF OrderInv, Branches, Serial
  <2>4. CASE stage[r] = "Sequential" /\ stage'[r] = "Transform"
    BY <1>1, <1>2, <1>4, <2>1, <2>4 DEF OrderInv, Branches, Serial, Phase, Modes
  <2>5. CASE stage[r] = "Transform" /\ stage'[r] = "Audit"
    BY <1>1, <1>2, <1>4, <2>1, <2>5 DEF OrderInv, Branches, Serial, Phase, Modes
  <2>6. CASE stage[r] = "Audit" /\ stage'[r] = "Concurrent"
    BY <1>1, <1>2, <1>4, <2>1, <2>6 DEF OrderInv, Branches, Serial, Phase, Modes
  <2> QED BY <1>1, <2>2, <2>3, <2>4, <2>5, <2>6 DEF Serial
<1>5. ASSUME NEW k \in Plugins PROVE ErrorsInv(r, k)' /\ GlobalsInv(r, k)'
  BY <1>1, <1>5 DEF RecordInv, ErrorsInv, GlobalsInv, Objects, Halts
<1>6. PayloadInv(r)'
  BY <1>1 DEF RecordInv, PayloadInv, Before
<1> QED BY <1>3, <1>4, <1>5, <1>6 DEF RecordInv

\* A serial task is spawned: it has no step yet, and its turn has come.
LEMMA DispatchRecord ==
    ASSUME IInv, NEW r \in Requests, RecordInv(r), NEW p \in Plugins, Dispatch(r, p)
    PROVE  RecordInv(r)'
<1>1. /\ UNCHANGED <<config, disabled, stage, group, act, payload, globals, errors, verdict>>
      /\ stage[r] \in Serial /\ group[r][p] = stage[r] /\ out[r][p] = "none"
      /\ act[r][p] = "none"
      /\ \A k \in Plugins : out'[r][k] = IF k = p THEN "running" ELSE out[r][k]
  BY DEF Dispatch, Turn, IInv, TypeOK, RequestInv, TurnInv
<1>2. \A k \in Plugins \ {p} : Objects(r, k)' <=> Objects(r, k)
  BY <1>1 DEF Objects, Halts
<1>3. ASSUME NEW k \in Plugins PROVE StepInv(r, k)' /\ OrderInv(r, k)'
  <2>1. CASE k = p
    BY <1>1, <2>1, RequestTypes DEF RecordInv, StepInv, OrderInv, Branches, Serial, Phase
  <2>2. CASE k # p
    BY <1>1, <1>3, <2>2 DEF RecordInv, StepInv, OrderInv, Branches
  <2> QED BY <2>1, <2>2
<1>4. ASSUME NEW k \in Plugins PROVE ErrorsInv(r, k)' /\ GlobalsInv(r, k)'
  <2>1. CASE k = p
    BY <1>1, <2>1 DEF RecordInv, ErrorsInv, GlobalsInv
  <2>2. CASE k # p
    BY <1>1, <1>2, <1>4, <2>2 DEF RecordInv, ErrorsInv, GlobalsInv
  <2> QED BY <2>1, <2>2
<1>5. PayloadInv(r)'
  BY <1>1 DEF RecordInv, PayloadInv, Before
<1> QED BY <1>3, <1>4, <1>5 DEF RecordInv

\* The branches run without a step until all are joined.
LEMMA BranchRecord ==
    ASSUME IInv, NEW r \in Requests, RecordInv(r),
           \/ SpawnBranches(r)
           \/ \E p \in Plugins : BranchEnds(r, p) \/ BranchCancelled(r, p)
    PROVE  RecordInv(r)'
<1>1. \A k \in Plugins : /\ group[r][k] \in Modes \cup {"Disabled"}
                         /\ act[r][k] \in Actions /\ out[r][k] \in Outs
  BY RequestTypes
<1>2. /\ UNCHANGED <<config, disabled, group, act, payload, globals, errors, verdict>>
      /\ \/ stage[r] = "Concurrent" /\ stage'[r] = "Joining"
         \/ stage[r] = "Concurrent" /\ stage'[r] = "Settle" /\ Branches(r) = {}
         \/ stage[r] = "Joining" /\ stage'[r] = "Joining"
  BY DEF SpawnBranches, BranchEnds, BranchCancelled, IInv, TypeOK
<1>3. \A k \in Plugins : group[r][k] # "Concurrent" => out'[r][k] = out[r][k]
  <2>1. CASE SpawnBranches(r)
    BY <2>1 DEF SpawnBranches, Branches, IInv, TypeOK
  <2>2. ASSUME NEW p \in Plugins, BranchEnds(r, p) \/ BranchCancelled(r, p)
        PROVE  \A k \in Plugins : group[r][k] # "Concurrent" => out'[r][k] = out[r][k]
    <3>1. stage[r] = "Joining" /\ out[r][p] = "running"
      BY <2>2 DEF BranchEnds, BranchCancelled
    <3>2. verdict[r] = "none"
      BY <3>1 DEF IInv, RequestInv, StageInv
    <3>3. group[r][p] \in Serial => act[r][p] # "none"
      BY <3>1, <2>2 DEF RecordInv, OrderInv
    <3>4. group[r][p] \notin Serial
      BY <1>1, <2>2, <3>1, <3>3 DEF RecordInv, StepInv, Actions, AllFailures
    <3>5. group[r][p] \notin {"FireAndForget", "Disabled"}
      BY <2>2, <3>1, <3>2 DEF RecordInv, OrderInv
    <3>6. group[r][p] = "Concurrent"
      BY <1>1, <2>2, <3>4, <3>5 DEF Modes, Serial
    <3>7. \A k \in Plugins : k # p => out'[r][k] = out[r][k]
      BY <2>2 DEF BranchEnds, BranchCancelled, IInv, TypeOK
    <3> QED BY <3>6, <3>7
  <2> QED BY <2>1, <2>2
<1>4. \A k \in Plugins : group[r][k] = "Concurrent" => act[r][k] = "none"
  BY <1>2 DEF RecordInv, OrderInv, Branches
<1>5. ASSUME NEW k \in Plugins PROVE StepInv(r, k)' /\ OrderInv(r, k)'
  <2>1. StepInv(r, k) /\ OrderInv(r, k)
    BY <1>5 DEF RecordInv
  <2>2. StepInv(r, k)'
    BY <1>2, <1>3, <1>4, <1>5, <2>1 DEF StepInv, Branches
  <2>3. group[r][k] \in Serial => act[r][k] # "none"
    BY <1>2, <2>1 DEF OrderInv, Serial, Phase
  <2> QED BY <1>2, <1>3, <1>4, <1>5, <2>1, <2>2, <2>3 DEF OrderInv, Branches, Serial
<1>6. ASSUME NEW k \in Plugins PROVE ErrorsInv(r, k)' /\ GlobalsInv(r, k)'
  <2>1. CASE group[r][k] = "Concurrent"
    BY <1>2, <1>4, <1>6, <2>1 DEF RecordInv, ErrorsInv, GlobalsInv, CanModify
  <2>2. CASE group[r][k] # "Concurrent"
    BY <1>2, <1>3, <1>6, <2>2 DEF RecordInv, ErrorsInv, GlobalsInv, Objects, Halts
  <2> QED BY <2>1, <2>2
<1>7. PayloadInv(r)'
  BY <1>2 DEF RecordInv, PayloadInv, Before
<1> QED BY <1>5, <1>6, <1>7 DEF RecordInv

\* run_concurrent_phase reads the outcomes: every branch gets the step that
\* fits its end, and every failure that does not halt an error record.
LEMMA CollectRecord ==
    ASSUME IInv, NEW r \in Requests, RecordInv(r), CollectDenies(r) \/ CollectPasses(r)
    PROVE  RecordInv(r)'
<1>1. /\ \A k \in Plugins : /\ group[r][k] \in Modes \cup {"Disabled"}
                            /\ act[r][k] \in Actions /\ out[r][k] \in Outs
      /\ payload[r] \in 0..N
  BY RequestTypes
<1>2. /\ UNCHANGED <<config, group, out, payload, globals>>
      /\ stage[r] = "Joining" /\ joined[r] = Branches(r)
      /\ \A k \in Plugins : act'[r][k] = IF k \in Branches(r) THEN BranchAction(out[r][k])
                                                              ELSE act[r][k]
      /\ errors'[r] = errors[r] \cup (Failed(r) \ Halting(r))
      /\ disabled' = disabled \cup Tripped(Failed(r))
      /\ \/ stage'[r] = "Ended" /\ verdict'[r] = "Deny"
         \/ stage'[r] = "Settle" /\ verdict'[r] = verdict[r]
  BY DEF CollectDenies, CollectPasses, ReadOutcomes, Deny, IInv, TypeOK
<1>3. /\ \A k \in Branches(r) : out[r][k] \notin {"none", "lost", "running"} /\ act[r][k] = "none"
      /\ \A k \in Branches(r) : out[r][k] = "cancelled" =>
            \E q \in Branches(r) : out[r][q] = "deny"
      /\ verdict[r] = "none"
  BY <1>2 DEF IInv, RequestInv, BranchInv, StageInv, RecordInv, OrderInv, Branches
<1>4. \A k \in Plugins : Objects(r, k)' <=> Objects(r, k)
  BY <1>2 DEF Objects, Halts
<1>5. \A k \in Branches(r) : k \in Plugins /\ group[r][k] = "Concurrent"
  BY DEF Branches
<1>6. ASSUME NEW k \in Plugins PROVE StepInv(r, k)'
  <2>1. CASE k \in Branches(r)
    <3>1. out[r][k] = "cancelled" => \E q \in Plugins : act'[r][q] = "Denied"
      BY <1>2, <1>3, <1>5, <2>1 DEF BranchAction
    <3> QED BY <1>1, <1>2, <1>3, <2>1, <3>1 DEF StepInv, BranchAction, Outs
  <2>2. CASE k \notin Branches(r)
    <3>1. \A q \in Plugins : act[r][q] = "Denied" => act'[r][q] = "Denied"
      BY <1>2, <1>3
    <3>2. StepInv(r, k) /\ act'[r][k] = act[r][k]
      BY <1>2, <1>6, <2>2 DEF RecordInv
    <3> QED BY <1>2, <2>2, <3>1, <3>2 DEF StepInv
  <2> QED BY <2>1, <2>2
<1>7. ASSUME NEW k \in Plugins PROVE OrderInv(r, k)'
  <2>1. OrderInv(r, k)
    BY <1>7 DEF RecordInv
  <2>2. CASE k \in Branches(r)
    BY <1>2, <1>5, <2>1, <2>2 DEF OrderInv, Serial
  <2>3. CASE k \notin Branches(r)
    BY <1>2, <1>3, <1>5, <1>7, <2>1, <2>3 DEF OrderInv, Serial, Branches
  <2> QED BY <2>2, <2>3
<1>8. ASSUME NEW k \in Plugins PROVE ErrorsInv(r, k)'
  <2>1. CASE k \in Branches(r)
    <3>1. k \notin errors[r]
      BY <1>3, <1>8, <2>1 DEF RecordInv, ErrorsInv
    <3>2. act'[r][k] = "Error" <=> out[r][k] \in AllFailures
      BY <1>1, <1>2, <1>3, <2>1 DEF BranchAction, Outs, AllFailures
    <3>3. k \in errors'[r] <=> k \in Failed(r) /\ k \notin Halting(r)
      BY <1>2, <3>1
    <3>4. k \in Failed(r) <=> out[r][k] \in AllFailures
      BY <2>1 DEF Failed
    <3>5. out[r][k] \in AllFailures => (k \in Halting(r) <=> Objects(r, k))
      BY <1>3, <1>5, <2>1, <3>4 DEF Halting, Objects, Halts, CanBlock, AllFailures
    <3>6. k \in Failed(r) /\ config[k].onError = "Disable" => k \in disabled'
      BY <1>2 DEF Tripped
    <3> QED BY <1>2, <1>4, <1>8, <3>2, <3>3, <3>4, <3>5, <3>6 DEF ErrorsInv
  <2>2. CASE k \notin Branches(r)
    <3>1. k \notin Failed(r)
      BY <2>2 DEF Failed
    <3> QED BY <1>2, <1>4, <1>8, <2>2, <3>1 DEF RecordInv, ErrorsInv
  <2> QED BY <2>1, <2>2
<1>9. ASSUME NEW k \in Plugins PROVE GlobalsInv(r, k)'
  BY <1>2, <1>4, <1>5, <1>9 DEF RecordInv, GlobalsInv, CanModify
<1>10. PayloadInv(r)'
  <2>1. \A k \in Plugins : act'[r][k] = "ModifiedPayload" <=> act[r][k] = "ModifiedPayload"
    BY <1>2, <1>3 DEF BranchAction
  <2> QED BY <1>1, <1>2, <2>1 DEF RecordInv, PayloadInv, Before
<1> QED BY <1>6, <1>7, <1>8, <1>9, <1>10 DEF RecordInv

\* The verdict is Allow and the fire-and-forget plugins start, without a step.
LEMMA AllowRecord ==
    ASSUME IInv, NEW r \in Requests, RecordInv(r), Allow(r)
    PROVE  RecordInv(r)'
<1>1. /\ UNCHANGED <<config, disabled, group, act, payload, globals, errors>>
      /\ stage[r] = "Settle" /\ stage'[r] = "Ended" /\ verdict'[r] = "Allow"
      /\ verdict[r] = "none"
      /\ \A k \in Plugins : out'[r][k] = IF group[r][k] = "FireAndForget" THEN "running"
                                                                      ELSE out[r][k]
  BY DEF Allow, IInv, TypeOK, RequestInv, StageInv
<1>2. \A k \in Plugins : group[r][k] = "FireAndForget" => act[r][k] = "none"
  BY DEF RecordInv, OrderInv, Serial
<1>3. ASSUME NEW k \in Plugins PROVE StepInv(r, k)' /\ OrderInv(r, k)'
  <2>1. StepInv(r, k) /\ OrderInv(r, k)
    BY <1>3 DEF RecordInv
  <2> QED BY <1>1, <1>2, <1>3, <2>1 DEF StepInv, OrderInv, Branches, Serial
<1>4. ASSUME NEW k \in Plugins PROVE ErrorsInv(r, k)' /\ GlobalsInv(r, k)'
  <2>1. CASE group[r][k] = "FireAndForget"
    BY <1>1, <1>2, <1>4, <2>1 DEF RecordInv, ErrorsInv, GlobalsInv, CanModify
  <2>2. CASE group[r][k] # "FireAndForget"
    BY <1>1, <1>4, <2>2 DEF RecordInv, ErrorsInv, GlobalsInv, Objects, Halts
  <2> QED BY <2>1, <2>2
<1>5. PayloadInv(r)'
  BY <1>1 DEF RecordInv, PayloadInv, Before
<1> QED BY <1>3, <1>4, <1>5 DEF RecordInv

\* Every step keeps every request's record true.
LEMMA RecordStep ==
    ASSUME IInv, \A r \in Requests : RecordInv(r), [Next]_vars
    PROVE  \A r \in Requests : RecordInv(r)'
<1>1. CASE UNCHANGED vars
  BY <1>1, FrameRecord DEF vars, perRequest
<1>2. ASSUME NEW r \in Requests, Start(r) \/ Drop(r) \/ Step(r)
      PROVE  \A q \in Requests : RecordInv(q)'
  <2>1. RecordInv(r)'
    BY <1>2, StartRecord, MoveRecord, BranchRecord, CollectRecord, AllowRecord,
       DispatchRecord, SerialRecord DEF Step
  <2>2. ASSUME NEW q \in Requests, q # r PROVE RecordInv(q)'
    <3>1. config' = config /\ disabled \subseteq disabled'
      BY <1>2 DEF Start, Drop, Step, NextPhase, SpawnBranches, CollectDenies, CollectPasses,
         ReadOutcomes, Refuse, Allow, Dispatch, Continues, Extends, Modifies, Denies,
         DenyIgnored, FailsHalting, FailsSwallowed, FailsUnread, BranchEnds,
         BranchCancelled, JoinBranch
    <3> DEFINE SameRecord ==
                 /\ stage'[q] = stage[q] /\ group'[q] = group[q] /\ out'[q] = out[q]
                 /\ act'[q] = act[q] /\ payload'[q] = payload[q] /\ globals'[q] = globals[q]
                 /\ errors'[q] = errors[q] /\ verdict'[q] = verdict[q]
    <3>2. SameRecord
      <4> USE <2>2 DEF IInv, TypeOK
      <4>1. CASE Start(r)
        BY <4>1 DEF Start
      <4>2. CASE \/ Drop(r) \/ NextPhase(r) \/ SpawnBranches(r) \/ Refuse(r) \/ Allow(r)
        BY <4>2 DEF Drop, NextPhase, SpawnBranches, Refuse, Allow, Deny
      <4>3. CASE CollectDenies(r) \/ CollectPasses(r)
        BY <4>3 DEF CollectDenies, CollectPasses, ReadOutcomes, Deny
      <4>4. ASSUME NEW p \in Plugins,
                   \/ Dispatch(r, p) \/ BranchEnds(r, p) \/ BranchCancelled(r, p)
                   \/ JoinBranch(r, p)
            PROVE  SameRecord
        BY <4>4 DEF Dispatch, BranchEnds, BranchCancelled, JoinBranch
      <4>5. ASSUME NEW p \in Plugins, Continues(r, p) \/ Extends(r, p) \/ Modifies(r, p)
            PROVE  SameRecord
        BY <4>5 DEF Continues, Extends, Modifies, Returns, StoreContext, KeepVerdict
      <4>6. ASSUME NEW p \in Plugins, Denies(r, p) \/ DenyIgnored(r, p)
            PROVE  SameRecord
        BY <4>6 DEF Denies, DenyIgnored, Returns, StoreContext, KeepVerdict, Deny
      <4>7. ASSUME NEW p \in Plugins,
                   FailsHalting(r, p) \/ FailsSwallowed(r, p) \/ FailsUnread(r, p)
            PROVE  SameRecord
        BY <4>7 DEF FailsHalting, FailsSwallowed, FailsUnread, Returns, StoreContext,
           KeepVerdict, Deny
      <4> QED BY <1>2, <4>1, <4>2, <4>3, <4>4, <4>5, <4>6, <4>7 DEF Step
    <3> QED BY <2>2, <3>1, <3>2, FrameRecord
  <2> QED BY <2>1, <2>2
<1> QED BY <1>1, <1>2 DEF Next

\* What the pipeline tells beside its verdict is true, for any number of
\* plugins, any configuration and any order in which branches end: the decision
\* log (DecisionLog), the error records, the breakers, the context table and the
\* payload all agree with how the plugins' tasks ended.
THEOREM RecordTruthfulHolds == MayLose = FALSE => (Spec => []RecordTruthful)
<1> SUFFICES ASSUME MayLose = FALSE PROVE Spec => []RecordTruthful
  OBVIOUS
<1> DEFINE Inv == \A r \in Requests : RecordInv(r)
<1>1. ASSUME Init PROVE Inv
  <2> SUFFICES ASSUME NEW r \in Requests PROVE RecordInv(r)
    BY DEF Inv
  <2>1. ASSUME NEW p \in Plugins
        PROVE  StepInv(r, p) /\ OrderInv(r, p) /\ ErrorsInv(r, p) /\ GlobalsInv(r, p)
    BY <1>1, <2>1 DEF Init, StepInv, OrderInv, ErrorsInv, GlobalsInv, Serial
  <2>2. PayloadInv(r)
    BY <1>1 DEF Init, PayloadInv
  <2> QED BY <2>1, <2>2 DEF RecordInv
<1>2. IInv /\ Inv /\ [Next]_vars => Inv'
  BY RecordStep
<1>3. IInv /\ Inv => RecordTruthful
  <2> SUFFICES ASSUME IInv, Inv PROVE RecordTruthful
    OBVIOUS
  <2>1. LogTruthful
    <3> SUFFICES ASSUME NEW r \in Requests, Decided(r), NEW p \in Plugins
                 PROVE  /\ act[r][p] = "none" <=> out[r][p] \in {"none", "running"}
                        /\ act[r][p] \in {"Denied", "DenyIgnored"} <=> out[r][p] = "deny"
                        /\ act[r][p] \in {"Allowed", "ModifiedPayload", "ModifiedExtensions"} =>
                              \/ out[r][p] = "continue"
                              \/ group[r][p] = "Audit" /\ out[r][p] = "wrongtype"
                        /\ act[r][p] = "Aborted" => \E q \in Plugins : act[r][q] = "Denied"
      BY DEF LogTruthful
    <3>1. StepInv(r, p) /\ stage[r] = "Ended" /\ verdict[r] # "dropped"
      BY DEF RecordInv, IInv, RequestInv, StageInv, Decided
    <3>2. act[r][p] \in Actions /\ out[r][p] \in Outs
      BY RequestTypes
    <3> QED BY <3>1, <3>2 DEF StepInv, Actions, Outs, AllFailures
  <2>2. SwallowedVisible
    BY DEF RecordInv, ErrorsInv, SwallowedVisible
  <2>3. OnlyHonouredKept
    <3> SUFFICES ASSUME NEW r \in Requests PROVE OnlyHonouredKept!(r)
      BY DEF OnlyHonouredKept
    <3>1. globals[r] \in SUBSET Plugins
      BY DEF IInv, TypeOK
    <3>2. payload[r] # 0 => payload[r] \in Plugins
      BY RequestTypes, NAssumption DEF Plugins
    <3>3. \A p \in Plugins : GlobalsInv(r, p)
      BY DEF RecordInv
    <3>4. PayloadInv(r)
      BY DEF RecordInv
    <3> QED BY <3>1, <3>2, <3>3, <3>4 DEF GlobalsInv, PayloadInv
  <2> QED BY <2>1, <2>2, <2>3 DEF RecordTruthful
<1> HIDE DEF Inv
<1> QED BY <1>1, <1>2, <1>3, Invariance, PTL DEF Spec

============================================================================
