-------------------------- MODULE ApplyBlockProofs --------------------------
(***************************************************************************)
(* The theorems about ApplyBlock.  IInv is inductive for a node in which   *)
(* one goroutine at a time applies blocks (Serial) and a failed alignment  *)
(* is not overtaken by another writer of the state (AlignFailsOnlyAlone):  *)
(* one lemma per action, and in it one step per conjunct that the action   *)
(* can disturb, after the facts about data and control that they share.    *)
(* For an aggregator PendingContinuesLog is inductive besides.             *)
(***************************************************************************)
EXTENDS ApplyBlock, TLAPS

-----------------------------------------------------------------------------
(* Data *)

LEMMA StateFields ==
  ASSUME NEW s \in States
  PROVE  /\ s.LastBlockHeight \in Nat
         /\ s.LastStoreHeight \in Nat
         /\ s.SLStateIndex \in Nat
         /\ s.AppHash \in History
         /\ s.LastResultsHash \in History
  BY Zenon DEF States

LEMMA CommittedFields ==
  ASSUME NEW s \in States, NEW log \in History, NEW resp \in History
  PROVE  /\ Committed(s, log, resp) \in States
         /\ Committed(s, log, resp).LastBlockHeight = s.LastBlockHeight
         /\ Committed(s, log, resp).AppHash = log
         /\ Committed(s, log, resp).LastResultsHash = resp
  BY Zenon DEF States, Committed

LEMMA StoredFields ==
  ASSUME NEW s \in States, NEW h \in Nat, NEW b \in Nat
  PROVE  /\ Stored(s, h, b) \in States
         /\ Stored(s, h, b).LastBlockHeight = s.LastBlockHeight
         /\ Stored(s, h, b).LastStoreHeight = h
         /\ Stored(s, h, b).AppHash = s.AppHash
         /\ Stored(s, h, b).LastResultsHash = s.LastResultsHash
  BY Zenon DEF States, Stored

LEMMA WithAppInfoFields ==
  ASSUME NEW s \in States, NEW log \in History, NEW h \in Nat
  PROVE  /\ WithAppInfo(s, log, h) \in States
         /\ WithAppInfo(s, log, h).LastBlockHeight = s.LastBlockHeight
         /\ WithAppInfo(s, log, h).LastStoreHeight = h
         /\ WithAppInfo(s, log, h).AppHash = log
  BY Zenon DEF States, WithAppInfo

LEMMA WithResultsFields ==
  ASSUME NEW s \in States, NEW resp \in History
  PROVE  /\ WithResults(s, resp) \in States
         /\ WithResults(s, resp).LastBlockHeight = s.LastBlockHeight
         /\ WithResults(s, resp).LastStoreHeight = s.LastStoreHeight
         /\ WithResults(s, resp).AppHash = s.AppHash
         /\ WithResults(s, resp).LastResultsHash = resp
  BY Zenon DEF States, WithResults

LEMMA UpdatedFields ==
  ASSUME NEW s \in States, NEW h \in Nat
  PROVE  /\ UpdateStateFromResponses(s, h) \in States
         /\ UpdateStateFromResponses(s, h).LastBlockHeight = h
         /\ UpdateStateFromResponses(s, h).LastStoreHeight = s.LastStoreHeight
         /\ UpdateStateFromResponses(s, h).AppHash = s.AppHash
         /\ UpdateStateFromResponses(s, h).LastResultsHash = s.LastResultsHash
  BY Zenon DEF States, UpdateStateFromResponses

LEMMA IndexedFields ==
  ASSUME NEW s \in States, NEW i \in Nat
  PROVE  /\ Indexed(s, i) \in States
         /\ Indexed(s, i).LastBlockHeight = s.LastBlockHeight
         /\ Indexed(s, i).LastStoreHeight = s.LastStoreHeight
         /\ Indexed(s, i).AppHash = s.AppHash
         /\ Indexed(s, i).LastResultsHash = s.LastResultsHash
  BY Zenon DEF States, Indexed

LEMMA BlockFields ==
  ASSUME NEW b \in Blocks
  PROVE  b.height \in Heights /\ b.height \in Nat /\ b.id \in Ids
  BY ConstantsAssumption DEF Blocks, Heights, InitialHeight

LEMMA HeightsAreNat == Heights \subseteq Nat
  BY ConstantsAssumption DEF Heights, InitialHeight

LEMMA LogGrows ==
  ASSUME NEW log \in History, NEW e \in Seq(Ids)
  PROVE  /\ Append(log, e) \in History
         /\ Len(log) \in Nat
         /\ Len(Append(log, e)) = Len(log) + 1
         /\ Append(log, e)[Len(log) + 1] = e
         /\ \A n \in 1..Len(log) : Append(log, e)[n] = log[n]
<1>1. log \in Seq(Seq(Ids))
  BY Zenon DEF History
<1>2. Append(log, e) \in History /\ Len(log) \in Nat
  BY <1>1 DEF History
<1>3. Len(Append(log, e)) = Len(log) + 1
  BY <1>1
<1>4. Append(log, e)[Len(log) + 1] = e
  BY <1>1
<1>5. \A n \in 1..Len(log) : Append(log, e)[n] = log[n]
  BY <1>1
<1> QED
  BY <1>2, <1>3, <1>4, <1>5, Zenon

-----------------------------------------------------------------------------
(* Control *)

LEMMA GotoEffect ==
  ASSUME ApplyTypeOK, NEW a \in Appliers, NEW from \in PCs, NEW to \in PCs,
         Goto(a, from, to)
  PROVE  /\ pc[a] = from
         /\ pc'[a] = to
         /\ pc' \in [Appliers -> PCs]
         /\ \A x \in Appliers : x # a => pc'[x] = pc[x]
  BY Zenon DEF ApplyTypeOK, Goto

LEMMA ReturnEffect ==
  ASSUME ApplyTypeOK, NEW a \in Appliers, NEW from \in PCs, Return(a, from)
  PROVE  /\ pc[a] = from
         /\ pc'[a] = "idle"
         /\ pc' \in [Appliers -> PCs]
         /\ \A x \in Appliers : x # a => pc'[x] = pc[x]
         /\ block' \in [Appliers -> Blocks \cup {None}]
         /\ responses' \in [Appliers -> History \cup {None}]
         /\ newState' \in [Appliers -> States \cup {None}]
         /\ retain' \in [Appliers -> Nat \cup {None}]
<1>1. Goto(a, from, "idle") /\ "idle" \in PCs
  BY Zenon DEF Return, PCs
<1>2. /\ block' \in [Appliers -> Blocks \cup {None}]
      /\ responses' \in [Appliers -> History \cup {None}]
      /\ newState' \in [Appliers -> States \cup {None}]
      /\ retain' \in [Appliers -> Nat \cup {None}]
  BY Zenon DEF Return, ApplyTypeOK
<1> QED
  BY <1>1, <1>2, GotoEffect, Zenon

\* The ground facts of a goroutine that is inside applyBlock.
LEMMA Active ==
  ASSUME IInv, NEW a \in Appliers, pc[a] # "idle"
  PROVE  /\ \A x \in Appliers : x # a => pc[x] = "idle"
         /\ pc[a] # "persistIndex" =>
              /\ block[a] \in Blocks
              /\ block[a].height \in Heights
              /\ block[a].height \in Nat
              /\ block[a].id \in Ids
              /\ block[a].height = height + 1
         /\ pc[a] # "setHeight" => height = kvState.LastStoreHeight
<1>1. \A x \in Appliers : x # a => pc[x] = "idle"
  BY Zenon DEF IInv, MutualExclusion
<1>2. ASSUME pc[a] # "persistIndex"
      PROVE  block[a] \in Blocks /\ block[a].height = height + 1
  BY <1>2, Zenon DEF IInv, KnowsAt
<1>3. ASSUME pc[a] # "setHeight"
      PROVE  height = kvState.LastStoreHeight
  BY <1>1, <1>3, Zenon DEF IInv, StateMatchesLog
<1> QED
  BY <1>1, <1>2, <1>3, BlockFields, Zenon

\* The arithmetic facts that most steps need.
NumberTypes ==
  /\ AppHeight \in Nat
  /\ height \in Nat
  /\ kvState.LastBlockHeight \in Nat
  /\ kvState.LastStoreHeight \in Nat
  /\ lastState.LastBlockHeight \in Nat
  /\ lastState.LastStoreHeight \in Nat
  /\ accepted \in Nat
  /\ kvState.LastStoreHeight = AppHeight \/ kvState.LastStoreHeight + 1 = AppHeight

LEMMA Numbers ==
  ASSUME IInv
  PROVE  NumberTypes
<1>1. kvState \in States /\ lastState \in States /\ appLog \in Seq(Seq(Ids))
  BY Zenon DEF IInv, ApplyTypeOK, History
<1>2. height \in Nat /\ accepted \in Nat /\ AppHeight \in Nat
  BY <1>1 DEF IInv, ApplyTypeOK, AppHeight
<1>3. kvState.LastStoreHeight = AppHeight \/ kvState.LastStoreHeight + 1 = AppHeight
  BY Zenon DEF IInv, RecoverableFromDisk
<1> QED
  BY <1>1, <1>2, <1>3, StateFields, Zenon DEF NumberTypes

\* The next state satisfies the invariant when every goroutine but one is idle
\* in it and that one knows what its place says.
LEMMA Assemble ==
  ASSUME NEW a \in Appliers,
         ApplyTypeOK',
         \A x \in Appliers : x # a => pc'[x] = "idle",
         KnowsAt(a)',
         RecoverableFromDisk',
         StateMatchesLog',
         InitChainMatchesApp',
         BlocksKept',
         NoRetryInProcess => ExecMatchesBlock'
  PROVE  IInv'
<1>1. MutualExclusion'
  BY Zenon DEF MutualExclusion
<1>2. ASSUME NEW x \in Appliers, x # a
      PROVE  KnowsAt(x)'
  <2>1. pc'[x] = "idle"
    BY <1>2, Zenon
  <2> QED
    BY <2>1, Zenon DEF KnowsAt
<1>3. \A x \in Appliers : KnowsAt(x)'
  BY <1>2, Zenon
<1> QED
  BY <1>1, <1>3, Zenon DEF IInv

\* A step that only moves one goroutine preserves what the rest of the
\* invariant says of the shared variables.
LEMMA OnlyControl ==
  ASSUME IInv, NEW a \in Appliers,
         UNCHANGED <<disk, memory, appExec, appInit, accepted>>,
         \A x \in Appliers : x # a => pc[x] = "idle" /\ pc'[x] = "idle",
         pc[a] # "setHeight" /\ pc'[a] # "setHeight",
         NoRetryInProcess => /\ pc[a] \notin {"update", "commit"}
                             /\ pc'[a] \notin {"update", "commit"},
         ApplyTypeOK',
         KnowsAt(a)'
  PROVE  IInv'
<1> USE DEF disk, memory
<1>1. RecoverableFromDisk' /\ InitChainMatchesApp' /\ BlocksKept'
  BY Zenon DEF IInv, RecoverableFromDisk, InitChainMatchesApp, BlocksKept, AppHeight
<1>2. StateMatchesLog'
  <2>1. height = kvState.LastStoreHeight
    BY Zenon DEF IInv, StateMatchesLog
  <2> QED
    BY <2>1, Zenon DEF IInv, StateMatchesLog, AppHeight
<1>3. ASSUME NoRetryInProcess
      PROVE  ExecMatchesBlock'
  <2>1. \A x \in Appliers : /\ pc[x] \notin {"update", "commit"}
                            /\ pc'[x] \notin {"update", "commit"}
    BY <1>3, Zenon
  <2> QED
    BY <1>3, <2>1, Zenon DEF IInv, ExecMatchesBlock, AppHeight
<1> QED
  BY <1>1, <1>2, <1>3, Assemble, Zenon

\* A call that fails and leaves the shared variables alone.
LEMMA ReturnsUnchanged ==
  ASSUME IInv, NEW a \in Appliers, NEW from \in PCs,
         from \notin {"idle", "setHeight"},
         NoRetryInProcess => from \notin {"update", "commit"},
         Return(a, from),
         UNCHANGED <<disk, memory, appExec, appInit, accepted>>,
         faults' \in 0..MaxFaults
  PROVE  IInv'
<1>1. ApplyTypeOK
  BY Zenon DEF IInv
<1>2. pc[a] = from /\ pc'[a] = "idle"
  BY <1>1, ReturnEffect, Zenon
<1>3. \A x \in Appliers : x # a => pc[x] = "idle" /\ pc'[x] = "idle"
  BY <1>1, <1>2, Active, ReturnEffect, Zenon
<1>4. ApplyTypeOK'
  BY <1>1, ReturnEffect, Zenon DEF ApplyTypeOK, disk, memory
<1>5. KnowsAt(a)'
  BY <1>2, Zenon DEF KnowsAt
<1> QED
  BY <1>2, <1>3, <1>4, <1>5, OnlyControl, Zenon

LEMMA FaultCounted ==
  ASSUME ApplyTypeOK, NEW point, Fault(point)
  PROVE  faults' \in 0..MaxFaults /\ point \in FaultPoints
  BY ConstantsAssumption DEF ApplyTypeOK, Fault

-----------------------------------------------------------------------------
(* The steps of applyBlock *)

LEMMA AlignNotRequiredStep ==
  ASSUME IInv, NEW a \in Appliers, AlignNotRequired(a)
  PROVE  IInv'
<1> USE DEF AlignNotRequired, disk, memory, locals
<1>0. NumberTypes
  BY Numbers, Zenon
<1>1. ApplyTypeOK
  BY Zenon DEF IInv
<1>2. /\ pc[a] = "align"
      /\ pc'[a] = "save"
      /\ pc' \in [Appliers -> PCs]
      /\ \A x \in Appliers : x # a => pc'[x] = pc[x]
  BY <1>1, GotoEffect, Zenon DEF PCs
<1>3. \A x \in Appliers : x # a => pc[x] = "idle" /\ pc'[x] = "idle"
  BY <1>2, Active, Zenon
<1>4. ApplyTypeOK'
  BY <1>1, <1>2, Zenon DEF ApplyTypeOK
<1>5. block[a].height = AppHeight + 1
  BY <1>0, <1>2, Active, Zenon DEF NumberTypes
<1>6. KnowsAt(a)'
  BY <1>2, <1>5, Active, Zenon DEF KnowsAt, AppHeight
<1> QED
  BY <1>2, <1>3, <1>4, <1>6, OnlyControl, Zenon

LEMMA AlignStoreWithAppStep ==
  ASSUME IInv, NEW a \in Appliers, AlignStoreWithApp(a)
  PROVE  IInv'
<1> DEFINE h == block[a].height
           aligned == WithResults(WithAppInfo(lastState, appLog, h), kvResp[h])
<1>0. NumberTypes
  BY Numbers, Zenon
<1>1. ApplyTypeOK
  BY Zenon DEF IInv
<1>2. Return(a, "align") /\ "align" \in PCs
  BY Zenon DEF AlignStoreWithApp, PCs
<1>3. pc[a] = "align" /\ pc'[a] = "idle"
  BY <1>1, <1>2, ReturnEffect, Zenon
<1>4. \A x \in Appliers : pc[x] # "setHeight" /\ pc'[x] = "idle"
  BY <1>1, <1>2, <1>3, Active, ReturnEffect, Zenon
<1>5. /\ h \in Heights /\ h \in Nat
      /\ h = height + 1
      /\ height = kvState.LastStoreHeight
  BY <1>3, Active, Zenon
<1>6. /\ AppHeight = h
      /\ kvResp[h] # None
      /\ lastState' = aligned
      /\ kvState' = aligned
      /\ SetHeight(h)
      /\ UNCHANGED <<kvBlock, kvResp, appLog, base, syncTarget, appExec, appInit,
                     accepted, faults>>
  BY Zenon DEF AlignStoreWithApp
<1>7. height' = h
  BY <1>0, <1>5, <1>6 DEF NumberTypes, SetHeight
<1>8. kvResp[h] \in History /\ appLog \in History /\ lastState \in States
  BY <1>1, <1>5, <1>6, Zenon DEF ApplyTypeOK
<1>9. kvState.LastStoreHeight + 1 = AppHeight
  BY <1>5, <1>6, Zenon
<1>10. kvResp[h] = appLog /\ lastState.LastBlockHeight = h
  BY <1>0, <1>5, <1>6, <1>9 DEF NumberTypes, IInv, RecoverableFromDisk, StateMatchesLog
<1>11. /\ aligned \in States
       /\ aligned.LastBlockHeight = h
       /\ aligned.LastStoreHeight = h
       /\ aligned.AppHash = appLog
       /\ aligned.LastResultsHash = appLog
  BY <1>5, <1>8, <1>10, WithAppInfoFields, WithResultsFields
<1> HIDE DEF aligned, h
<1>12. ApplyTypeOK'
  BY <1>1, <1>2, <1>5, <1>6, <1>7, <1>11, ReturnEffect, Zenon DEF ApplyTypeOK
<1>13. KnowsAt(a)'
  BY <1>3, Zenon DEF KnowsAt
<1>14. RecoverableFromDisk' /\ StateMatchesLog'
  BY <1>5, <1>6, <1>7, <1>11 DEF RecoverableFromDisk, StateMatchesLog, AppHeight
<1>15. InitChainMatchesApp'
  BY <1>0, <1>5, <1>6, <1>11 DEF NumberTypes, IInv, InitChainMatchesApp, AppHeight
<1>16. BlocksKept'
  BY <1>0, <1>5, <1>6, <1>7, HeightsAreNat DEF NumberTypes, IInv, BlocksKept, AppHeight
<1>17. NoRetryInProcess => ExecMatchesBlock'
  BY <1>3, <1>4, <1>6, Active, Zenon DEF IInv, ExecMatchesBlock, AppHeight
<1> QED
  BY <1>4, <1>12, <1>13, <1>14, <1>15, <1>16, <1>17, Assemble, Zenon

LEMMA AlignFailsStep ==
  ASSUME AlignFailsOnlyAlone, IInv, NEW a \in Appliers, AlignFails(a)
  PROVE  IInv'
<1> DEFINE h == block[a].height
           informed == WithAppInfo(lastState, appLog, h)
<1>0. NumberTypes
  BY Numbers, Zenon
<1>1. ApplyTypeOK
  BY Zenon DEF IInv
<1>2. Return(a, "align") /\ "align" \in PCs
  BY Zenon DEF AlignFails, PCs
<1>3. pc[a] = "align" /\ pc'[a] = "idle"
  BY <1>1, <1>2, ReturnEffect, Zenon
<1>4. \A x \in Appliers : x # a => pc[x] = "idle" /\ pc'[x] = "idle"
  BY <1>1, <1>2, <1>3, Active, ReturnEffect, Zenon
<1>5. /\ h \in Heights /\ h \in Nat
      /\ h = height + 1
      /\ height = kvState.LastStoreHeight
  BY <1>3, Active, Zenon
<1>6. /\ AppHeight = h
      /\ UNCHANGED <<kvState, kvBlock, kvResp, appLog, height, base, syncTarget,
                     appExec, appInit, accepted>>
  BY Zenon DEF AlignFails, disk
<1>7. kvState.LastStoreHeight + 1 = AppHeight
  BY <1>5, <1>6, Zenon
<1>8. kvResp[h] = appLog /\ lastState.LastBlockHeight = h
  BY <1>0, <1>5, <1>6, <1>7 DEF NumberTypes, IInv, RecoverableFromDisk, StateMatchesLog
<1>9. appLog \in History /\ lastState \in States /\ kvResp[h] \in History
  BY <1>1, <1>8, Zenon DEF ApplyTypeOK
<1>10. /\ informed \in States
       /\ informed.LastBlockHeight = h
       /\ WithResults(informed, kvResp[h]) \in States
       /\ WithResults(informed, kvResp[h]).LastBlockHeight = h
  BY <1>5, <1>8, <1>9, WithAppInfoFields, WithResultsFields
<1>11. /\ lastState' \in {informed, WithResults(informed, kvResp[h])}
       /\ faults' \in {faults, faults + 1} /\ (faults' = faults + 1 => faults < MaxFaults)
  BY <1>1 DEF AlignFails, Fault, ApplyTypeOK
<1>12. lastState' \in States /\ lastState'.LastBlockHeight = h
  BY <1>10, <1>11, Zenon
<1>13. ApplyTypeOK'
  BY <1>1, <1>2, <1>6, <1>11, <1>12, ReturnEffect, ConstantsAssumption DEF ApplyTypeOK
<1>14. KnowsAt(a)'
  BY <1>3, Zenon DEF KnowsAt
<1>15. RecoverableFromDisk' /\ InitChainMatchesApp' /\ BlocksKept'
  BY <1>6, Zenon DEF IInv, RecoverableFromDisk, InitChainMatchesApp, BlocksKept, AppHeight
<1>16. NoRetryInProcess => ExecMatchesBlock'
  BY <1>3, <1>4, <1>6, Zenon DEF IInv, ExecMatchesBlock, AppHeight
<1>17. Receivers = {}
  <2>1. kvResp[h] # None
    BY <1>9, NoneAssumption, Zenon
  <2>2. Fault("alignLoad") \/ Fault("alignUpdate")
    BY <2>1, Zenon DEF AlignFails
  <2> QED
    BY <2>2, Zenon DEF Fault, AlignFailsOnlyAlone
<1>18. StateMatchesLog'
  BY <1>0, <1>3, <1>4, <1>5, <1>6, <1>12, <1>17
  DEF NumberTypes, IInv, StateMatchesLog, AppHeight
<1> QED
  BY <1>4, <1>13, <1>14, <1>15, <1>16, <1>18, Assemble, Zenon

LEMMA AppInfoFailsStep ==
  ASSUME IInv, NEW a \in Appliers, AppInfoFails(a)
  PROVE  IInv'
  BY ReturnsUnchanged, FaultCounted, Zenon DEF IInv, AppInfoFails, PCs

LEMMA SaveFailsStep ==
  ASSUME IInv, NEW a \in Appliers, SaveFails(a)
  PROVE  IInv'
  BY ReturnsUnchanged, FaultCounted, Zenon DEF IInv, SaveFails, PCs

LEMMA ValidationFailsStep ==
  ASSUME IInv, NEW a \in Appliers, ValidationFails(a)
  PROVE  IInv'
<1>1. faults' \in 0..MaxFaults
  BY Zenon DEF IInv, ApplyTypeOK, ValidationFails
<1> QED
  BY <1>1, ReturnsUnchanged, Zenon DEF ValidationFails, PCs

LEMMA FinalStateFailsStep ==
  ASSUME IInv, NEW a \in Appliers, FinalStateFails(a)
  PROVE  IInv'
  BY ReturnsUnchanged, FaultCounted, Zenon DEF IInv, FinalStateFails, PCs

LEMMA SaveBlockStep ==
  ASSUME IInv, NEW a \in Appliers, SaveBlock(a)
  PROVE  IInv'
<1> DEFINE b == block[a]
<1>0. NumberTypes
  BY Numbers
<1>1. ApplyTypeOK
  BY DEF IInv
<1>2. Goto(a, "save", "execute") /\ "save" \in PCs /\ "execute" \in PCs
  BY Zenon DEF SaveBlock, PCs
<1>3. /\ pc[a] = "save" /\ pc'[a] = "execute"
      /\ pc' \in [Appliers -> PCs]
      /\ \A x \in Appliers : x # a => pc'[x] = pc[x]
  BY <1>1, <1>2, GotoEffect, Zenon
<1>4. \A x \in Appliers : x # a => pc[x] = "idle" /\ pc'[x] = "idle"
  BY <1>3, Active, Zenon
<1>5. /\ b \in Blocks /\ b.height \in Heights /\ b.height \in Nat
      /\ b.height = height + 1
      /\ height = kvState.LastStoreHeight
  BY <1>3, Active, Zenon
<1>6. b.height = AppHeight + 1
  BY <1>3, Zenon DEF IInv, KnowsAt
<1>7. /\ kvBlock' = [kvBlock EXCEPT ![b.height] = b]
      /\ UNCHANGED <<kvState, kvResp, appLog, height, base, lastState, syncTarget,
                     appExec, appInit, block, responses, newState, retain,
                     accepted, faults>>
  BY Zenon DEF SaveBlock, memory, locals
<1> HIDE DEF b
<1>8. kvBlock' \in [Heights -> Blocks \cup {None}]
  BY <1>1, <1>5, <1>7, Zenon DEF ApplyTypeOK
<1>9. ApplyTypeOK'
  BY <1>1, <1>3, <1>7, <1>8, Zenon DEF ApplyTypeOK
<1>10. /\ kvBlock'[b.height] = b
       /\ \A h \in Heights : h <= AppHeight => kvBlock'[h] = kvBlock[h]
  <2>1. kvBlock \in [Heights -> Blocks \cup {None}]
    BY <1>1, Zenon DEF ApplyTypeOK
  <2>2. AppHeight \in Nat
    BY <1>0, Zenon DEF NumberTypes
  <2>3. \A h \in Heights : h <= AppHeight => h # b.height
    BY <1>6, <2>2, HeightsAreNat
  <2> QED
    BY <1>5, <1>7, <2>1, <2>3, Zenon
<1>11. KnowsAt(a)'
  BY <1>3, <1>5, <1>6, <1>7, <1>10, Zenon DEF KnowsAt, AppHeight, b
<1>12. RecoverableFromDisk' /\ InitChainMatchesApp'
  BY <1>7, Zenon DEF IInv, RecoverableFromDisk, InitChainMatchesApp, AppHeight
<1>13. StateMatchesLog'
  BY <1>5, <1>7, Zenon DEF IInv, StateMatchesLog, AppHeight
<1>14. BlocksKept'
  BY <1>7, <1>10, Zenon DEF IInv, BlocksKept, AppHeight
<1>15. NoRetryInProcess => ExecMatchesBlock'
  BY <1>3, <1>4, <1>7, <1>10, Zenon DEF IInv, ExecMatchesBlock, AppHeight
<1> QED
  BY <1>4, <1>9, <1>11, <1>12, <1>13, <1>14, <1>15, Assemble, Zenon

LEMMA ExecuteStep ==
  ASSUME IInv, NEW a \in Appliers, Execute(a)
  PROVE  IInv'
<1> DEFINE b == block[a]
<1>1. ApplyTypeOK
  BY DEF IInv
<1>2. Goto(a, "execute", "update") /\ "execute" \in PCs /\ "update" \in PCs
  BY Zenon DEF Execute, PCs
<1>3. /\ pc[a] = "execute" /\ pc'[a] = "update"
      /\ pc' \in [Appliers -> PCs]
      /\ \A x \in Appliers : x # a => pc'[x] = pc[x]
  BY <1>1, <1>2, GotoEffect, Zenon
<1>4. \A x \in Appliers : x # a => pc[x] = "idle" /\ pc'[x] = "idle"
  BY <1>3, Active, Zenon
<1>5. /\ b \in Blocks /\ b.id \in Ids /\ b.height = height + 1
      /\ height = kvState.LastStoreHeight
  BY <1>3, Active, Zenon
<1>6. b.height = AppHeight + 1 /\ kvBlock[b.height] = b
  BY <1>3, Zenon DEF IInv, KnowsAt
<1>7. /\ appExec' = Append(appExec, b.id)
      /\ responses' = [responses EXCEPT ![a] = Append(appLog, appExec')]
      /\ UNCHANGED <<kvState, kvBlock, kvResp, appLog, height, base, lastState,
                     syncTarget, appInit, block, newState, retain, accepted,
                     faults>>
  BY Zenon DEF Execute, disk, memory
<1>8. appExec' \in Seq(Ids)
  BY <1>1, <1>5, <1>7 DEF ApplyTypeOK
<1>9. Append(appLog, appExec') \in History
  BY <1>1, <1>8, LogGrows, Zenon DEF ApplyTypeOK
<1>10. /\ responses' \in [Appliers -> History \cup {None}]
       /\ responses'[a] = Append(appLog, appExec')
  BY <1>1, <1>7, <1>9, Zenon DEF ApplyTypeOK
<1>11. ApplyTypeOK'
  BY <1>1, <1>3, <1>7, <1>8, <1>10, Zenon DEF ApplyTypeOK
<1>12. KnowsAt(a)'
  BY <1>3, <1>5, <1>6, <1>7, <1>10, Zenon DEF KnowsAt, AppHeight
<1>13. RecoverableFromDisk' /\ InitChainMatchesApp' /\ BlocksKept'
  BY <1>7, Zenon DEF IInv, RecoverableFromDisk, InitChainMatchesApp, BlocksKept, AppHeight
<1>14. StateMatchesLog'
  BY <1>5, <1>7, Zenon DEF IInv, StateMatchesLog, AppHeight
<1>15. ASSUME NoRetryInProcess
       PROVE  ExecMatchesBlock'
  <2>1. appExec = <<>>
    BY <1>3, <1>4, <1>15, Zenon DEF IInv, ExecMatchesBlock
  <2>2. appExec' = <<b.id>>
    BY <1>7, <2>1
  <2> QED
    BY <1>3, <1>4, <1>7, <1>15, <2>2, Zenon DEF IInv, ExecMatchesBlock, AppHeight
<1> QED
  BY <1>4, <1>11, <1>12, <1>13, <1>14, <1>15, Assemble, Zenon

LEMMA ExecutionFailsStep ==
  ASSUME IInv, NEW a \in Appliers, ExecutionFails(a)
  PROVE  IInv'
<1>1. ApplyTypeOK
  BY DEF IInv
<1>2. Return(a, "execute") /\ "execute" \in PCs
  BY Zenon DEF ExecutionFails, PCs
<1>3. pc[a] = "execute" /\ pc'[a] = "idle"
  BY <1>1, <1>2, ReturnEffect, Zenon
<1>4. \A x \in Appliers : x # a => pc[x] = "idle" /\ pc'[x] = "idle"
  BY <1>1, <1>2, <1>3, Active, ReturnEffect, Zenon
<1>5. block[a].id \in Ids /\ height = kvState.LastStoreHeight
  BY <1>3, Active, Zenon
<1>6. faults' \in 0..MaxFaults /\ "execute" \in FaultPoints
  BY <1>1, FaultCounted, Zenon DEF ExecutionFails
<1>7. /\ appExec' \in {appExec, Append(appExec, block[a].id)}
      /\ UNCHANGED <<kvState, kvBlock, kvResp, appLog, height, base, lastState,
                     syncTarget, appInit, accepted>>
  BY Zenon DEF ExecutionFails, disk, memory
<1>8. appExec' \in Seq(Ids)
  <2>1. appExec \in Seq(Ids) /\ Append(appExec, block[a].id) \in Seq(Ids)
    BY <1>1, <1>5 DEF ApplyTypeOK
  <2> QED
    BY <1>7, <2>1, Zenon
<1>9. ApplyTypeOK'
  BY SMTT(30), <1>1, <1>2, <1>6, <1>7, <1>8, ReturnEffect DEF ApplyTypeOK
<1>10. KnowsAt(a)'
  BY <1>3, Zenon DEF KnowsAt
<1>11. RecoverableFromDisk' /\ InitChainMatchesApp' /\ BlocksKept'
  BY <1>7, Zenon DEF IInv, RecoverableFromDisk, InitChainMatchesApp, BlocksKept, AppHeight
<1>12. StateMatchesLog'
  BY <1>5, <1>7, Zenon DEF IInv, StateMatchesLog, AppHeight
<1>13. ~NoRetryInProcess
  BY <1>6, Zenon DEF NoRetryInProcess
<1> QED
  BY <1>4, <1>9, <1>10, <1>11, <1>12, <1>13, Assemble, Zenon

LEMMA UpdateStateStep ==
  ASSUME IInv, NEW a \in Appliers, UpdateState(a)
  PROVE  IInv'
<1> DEFINE b == block[a]
           s == UpdateStateFromResponses(lastState, b.height)
<1>0. NumberTypes
  BY Numbers
<1>1. ApplyTypeOK
  BY DEF IInv
<1>2. Goto(a, "update", "commit") /\ "update" \in PCs /\ "commit" \in PCs
  BY Zenon DEF UpdateState, PCs
<1>3. /\ pc[a] = "update" /\ pc'[a] = "commit"
      /\ pc' \in [Appliers -> PCs]
      /\ \A x \in Appliers : x # a => pc'[x] = pc[x]
  BY <1>1, <1>2, GotoEffect, Zenon
<1>4. \A x \in Appliers : x # a => pc[x] = "idle" /\ pc'[x] = "idle"
  BY <1>3, Active, Zenon
<1>5. /\ b \in Blocks /\ b.height \in Heights /\ b.height \in Nat
      /\ b.height = height + 1
      /\ height = kvState.LastStoreHeight
  BY <1>3, Active, Zenon
<1>6. /\ b.height = AppHeight + 1
      /\ kvBlock[b.height] = b
      /\ responses[a] = Append(appLog, appExec)
  <2>1. KnowsAt(a)
    BY Zenon DEF IInv
  <2> QED
    BY <1>3, <2>1, Zenon DEF KnowsAt
<1>7. /\ newState' = [newState EXCEPT ![a] = s]
      /\ lastState' = s
      /\ kvState' = s
      /\ kvResp' = [kvResp EXCEPT ![b.height] = responses[a]]
      /\ UNCHANGED <<kvBlock, appLog, appExec, appInit, height, base, syncTarget,
                     block, responses, retain, accepted, faults>>
  BY Zenon DEF UpdateState, app
<1>8. kvState.LastStoreHeight = AppHeight
  BY <1>0, <1>5, <1>6 DEF NumberTypes
<1>9. /\ lastState.LastStoreHeight = AppHeight
      /\ lastState.AppHash = appLog
      /\ lastState.LastResultsHash = appLog
  BY <1>8, Zenon DEF IInv, StateMatchesLog
<1>10. /\ s \in States
       /\ s.LastBlockHeight = b.height
       /\ s.LastStoreHeight = AppHeight
       /\ s.AppHash = appLog
       /\ s.LastResultsHash = appLog
  <2>1. lastState \in States
    BY <1>1, Zenon DEF ApplyTypeOK
  <2> QED
    BY <1>5, <1>9, <2>1, UpdatedFields, Zenon
<1> HIDE DEF s, b
<1>11. newState' \in [Appliers -> States \cup {None}] /\ newState'[a] = s
  BY <1>1, <1>7, <1>10, Zenon DEF ApplyTypeOK
<1>12. responses[a] \in History
  <2>1. appLog \in History /\ appExec \in Seq(Ids)
    BY <1>1, Zenon DEF ApplyTypeOK
  <2> QED
    BY <1>6, <2>1, LogGrows
<1>13. /\ kvResp' \in [Heights -> History \cup {None}]
       /\ kvResp'[b.height] = responses[a]
  BY <1>1, <1>5, <1>7, <1>12, Zenon DEF ApplyTypeOK
<1>14. ApplyTypeOK'
  BY <1>1, <1>3, <1>7, <1>10, <1>11, <1>13, Zenon DEF ApplyTypeOK
<1>15. KnowsAt(a)'
  BY <1>3, <1>5, <1>6, <1>7, <1>10, <1>11, <1>13, Zenon DEF KnowsAt, AppHeight, b
<1>16. RecoverableFromDisk'
  BY <1>7, <1>10, Zenon DEF RecoverableFromDisk, AppHeight
<1>17. /\ kvState'.LastBlockHeight = AppHeight + 1
       /\ kvState'.LastStoreHeight = AppHeight
       /\ lastState' = kvState'
       /\ AppHeight \in Nat
  BY <1>0, <1>6, <1>7, <1>10, Zenon DEF NumberTypes
<1>18. StateMatchesLog'
  <2>1. AppHeight' = AppHeight /\ height' = kvState'.LastStoreHeight
    BY <1>5, <1>7, <1>8, <1>17, Zenon DEF AppHeight
  <2>2. kvState'.AppHash = appLog' /\ kvState'.LastResultsHash = appLog'
    BY <1>7, <1>10, Zenon
  <2> QED
    BY <1>17, <2>1, <2>2 DEF StateMatchesLog
<1>19. InitChainMatchesApp'
  <2>1. ASSUME ~appInit'
        PROVE  appLog' = <<>> /\ AppHeight = 0
    BY <1>7, <2>1, Zenon DEF IInv, InitChainMatchesApp, AppHeight
  <2>2. kvState'.LastBlockHeight # 0
    BY <1>17
  <2> QED
    BY <1>17, <2>1, <2>2 DEF InitChainMatchesApp, InitialHeight
<1>20. BlocksKept'
  BY <1>7, Zenon DEF IInv, BlocksKept, AppHeight
<1>21. NoRetryInProcess => ExecMatchesBlock'
  BY <1>3, <1>4, <1>7, Zenon DEF IInv, ExecMatchesBlock, AppHeight
<1> QED
  BY <1>4, <1>14, <1>15, <1>16, <1>18, <1>19, <1>20, <1>21, Assemble, Zenon

LEMMA UpdateFailsStep ==
  ASSUME IInv, NEW a \in Appliers, UpdateFails(a)
  PROVE  IInv'
<1> DEFINE s == UpdateStateFromResponses(lastState, block[a].height)
<1>0. NumberTypes
  BY Numbers
<1>1. ApplyTypeOK
  BY DEF IInv
<1>2. Return(a, "update") /\ "update" \in PCs
  BY Zenon DEF UpdateFails, PCs
<1>3. pc[a] = "update" /\ pc'[a] = "idle"
  BY <1>1, <1>2, ReturnEffect, Zenon
<1>4. \A x \in Appliers : x # a => pc[x] = "idle" /\ pc'[x] = "idle"
  BY <1>1, <1>2, <1>3, Active, ReturnEffect, Zenon
<1>5. block[a].height \in Nat /\ height = kvState.LastStoreHeight
  BY <1>3, Active, Zenon
<1>6. block[a].height = AppHeight + 1 /\ block[a].height = height + 1
  BY <1>3, Active, Zenon DEF IInv, KnowsAt
<1>7. faults' \in 0..MaxFaults /\ "batch" \in FaultPoints
  BY <1>1, FaultCounted, Zenon DEF UpdateFails
<1>8. /\ lastState' \in {lastState, s}
      /\ UNCHANGED <<kvState, kvBlock, kvResp, appLog, height, base, syncTarget,
                     appExec, appInit, accepted>>
  BY Zenon DEF UpdateFails, disk
<1>9. kvState.LastStoreHeight = AppHeight
  BY <1>0, <1>5, <1>6 DEF NumberTypes
<1>10. /\ s \in States
       /\ s.LastBlockHeight = AppHeight + 1
       /\ s.LastStoreHeight = lastState.LastStoreHeight
       /\ s.AppHash = lastState.AppHash
       /\ s.LastResultsHash = lastState.LastResultsHash
  <2>1. lastState \in States
    BY <1>1 DEF ApplyTypeOK
  <2> QED
    BY SMTT(30), <1>5, <1>6, <2>1, UpdatedFields
<1> HIDE DEF s
<1>11. /\ lastState' \in States
       /\ lastState'.LastBlockHeight \in {lastState.LastBlockHeight, AppHeight + 1}
       /\ lastState'.LastStoreHeight = lastState.LastStoreHeight
       /\ lastState'.AppHash = lastState.AppHash
       /\ lastState'.LastResultsHash = lastState.LastResultsHash
  BY <1>1, <1>8, <1>10, Zenon DEF ApplyTypeOK
<1>12. ApplyTypeOK'
  BY <1>1, <1>2, <1>7, <1>8, <1>11, ReturnEffect, Zenon DEF ApplyTypeOK
<1>13. KnowsAt(a)'
  BY <1>3, Zenon DEF KnowsAt
<1>14. RecoverableFromDisk' /\ InitChainMatchesApp' /\ BlocksKept'
  <2>1. RecoverableFromDisk /\ InitChainMatchesApp /\ BlocksKept
    BY SMTT(30) DEF IInv
  <2> QED
    BY <1>8, <2>1, Zenon
    DEF RecoverableFromDisk, InitChainMatchesApp, BlocksKept, AppHeight
<1>15. StateMatchesLog'
  <2>1. StateMatchesLog
    BY Zenon DEF IInv
  <2>2. AppHeight \in Nat /\ kvState.LastBlockHeight \in Nat
    BY <1>0, Zenon DEF NumberTypes
  <2>3. AppHeight' = AppHeight /\ appLog' = appLog /\ kvState' = kvState /\ height' = height
    BY <1>8, Zenon DEF AppHeight
  <2>4. /\ kvState.LastBlockHeight <= lastState'.LastBlockHeight
        /\ lastState'.LastBlockHeight \in {AppHeight, AppHeight + 1}
    BY <1>9, <1>11, <2>1, <2>2 DEF StateMatchesLog
  <2>5. /\ lastState'.LastStoreHeight = AppHeight
        /\ lastState'.AppHash = appLog
        /\ lastState'.LastResultsHash = appLog
    BY <1>9, <1>11, <2>1, Zenon DEF StateMatchesLog
  <2> QED
    BY <1>5, <1>9, <2>1, <2>2, <2>3, <2>4, <2>5, Zenon DEF StateMatchesLog
<1>16. ~NoRetryInProcess
  BY <1>7, Zenon DEF NoRetryInProcess
<1> QED
  BY <1>4, <1>12, <1>13, <1>14, <1>15, <1>16, Assemble

-----------------------------------------------------------------------------
(* From the commit to SetHeight, and the other writers of the state: the *)
(* goroutines that enter applyBlock, NewManager, updateStateIndex, Prune *)
(* and the crash. *)

\* What the commit of the application does to the invariant, whether or not the
\* call that asked for it returns an error afterwards.
LEMMA AppCommitEffect ==
  ASSUME IInv, NEW a \in Appliers, pc[a] = "commit", AppCommit,
         UNCHANGED <<kvState, kvBlock, kvResp, memory, accepted>>,
         \A x \in Appliers : pc'[x] \notin {"update", "commit", "setHeight"}
  PROVE  /\ appLog' \in History
         /\ appExec' \in Seq(Ids)
         /\ appLog' = responses[a]
         /\ AppHeight' = AppHeight + 1
         /\ block[a].height = AppHeight'
         /\ lastState.LastBlockHeight = AppHeight'
         /\ newState[a] = lastState
         /\ RecoverableFromDisk'
         /\ StateMatchesLog'
         /\ InitChainMatchesApp'
         /\ BlocksKept'
         /\ NoRetryInProcess => ExecMatchesBlock'
<1> DEFINE b == block[a]
<1>0. NumberTypes
  BY Numbers, Zenon
<1>1. ApplyTypeOK /\ appLog \in History /\ appExec \in Seq(Ids)
  BY Zenon DEF IInv, ApplyTypeOK
<1>2. /\ b \in Blocks /\ b.height \in Heights /\ b.height \in Nat
      /\ b.height = height + 1
      /\ height = kvState.LastStoreHeight
  BY Active, Zenon
<1>3. /\ b.height = AppHeight + 1
      /\ kvBlock[b.height] = b
      /\ responses[a] = Append(appLog, appExec)
      /\ newState[a] = lastState
      /\ kvState.LastBlockHeight = b.height
      /\ lastState.LastBlockHeight = b.height
      /\ kvResp[b.height] = responses[a]
  BY Zenon DEF IInv, KnowsAt
<1>4. /\ appLog' = Append(appLog, appExec)
      /\ appExec' = <<>>
      /\ appInit' = TRUE
      /\ UNCHANGED <<kvState, kvBlock, kvResp, height, lastState, syncTarget,
                     accepted>>
  BY Zenon DEF AppCommit, memory
<1>5. /\ appLog' \in History
      /\ AppHeight' = AppHeight + 1
      /\ appLog'[AppHeight + 1] = appExec
      /\ \A n \in 1..AppHeight : appLog'[n] = appLog[n]
  BY <1>1, <1>4, LogGrows, Zenon DEF AppHeight
<1>6. kvState.LastStoreHeight = AppHeight
  BY <1>0, <1>2, <1>3 DEF NumberTypes
<1>7. lastState.LastStoreHeight = AppHeight
  BY <1>6, Zenon DEF IInv, StateMatchesLog
<1> HIDE DEF b
<1>8. RecoverableFromDisk'
  BY <1>3, <1>4, <1>5, <1>6, Zenon DEF RecoverableFromDisk
<1>9. StateMatchesLog'
  BY <1>0, <1>2, <1>3, <1>4, <1>5, <1>6, <1>7 DEF NumberTypes, IInv, StateMatchesLog
<1>10. InitChainMatchesApp'
  BY <1>0, <1>2, <1>3, <1>4 DEF NumberTypes, InitChainMatchesApp
<1>11. BlocksKept'
  <2>1. kvBlock[b.height] # None
    BY <1>2, <1>3, NoneAssumption, Zenon
  <2> QED
    BY <1>0, <1>2, <1>3, <1>4, <1>5, <2>1, HeightsAreNat DEF NumberTypes, IInv, BlocksKept
<1>12. ASSUME NoRetryInProcess
       PROVE  ExecMatchesBlock'
  <2>1. appExec = <<b.id>> /\ Len(appExec) = 1
    BY <1>12 DEF IInv, ExecMatchesBlock, b
  <2>2. \A h \in 1..AppHeight' : Len(appLog'[h]) = 1
    BY <1>0, <1>5, <1>12, <2>1 DEF NumberTypes, IInv, ExecMatchesBlock
  <2>3. \A h \in Heights : (h <= AppHeight' /\ kvBlock'[h] # None) =>
                             appLog'[h] = <<kvBlock'[h].id>>
    <3> SUFFICES ASSUME NEW h \in Heights, h <= AppHeight', kvBlock[h] # None
                 PROVE  appLog'[h] = <<kvBlock[h].id>>
      BY <1>4, Zenon
    <3>1. h \in Nat /\ h >= 1
      BY ConstantsAssumption DEF Heights, InitialHeight
    <3>2. CASE h = AppHeight + 1
      BY <1>3, <1>5, <2>1, <3>2, Zenon
    <3>3. CASE h <= AppHeight
      BY <1>0, <1>5, <1>12, <3>1, <3>3 DEF NumberTypes, IInv, ExecMatchesBlock
    <3> QED
      BY <1>0, <1>5, <3>1, <3>2, <3>3 DEF NumberTypes
  <2> QED
    BY <1>4, <2>2, <2>3, Zenon DEF ExecMatchesBlock
<1> QED
  BY <1>1, <1>3, <1>4, <1>5, <1>8, <1>9, <1>10, <1>11, <1>12 DEF b

LEMMA CommitStep ==
  ASSUME IInv, NEW a \in Appliers, Commit(a)
  PROVE  IInv'
<1> DEFINE s == Committed(newState[a], appLog', responses[a])
<1>1. ApplyTypeOK
  BY Zenon DEF IInv
<1>2. Goto(a, "commit", "prune") /\ "commit" \in PCs /\ "prune" \in PCs
  BY Zenon DEF Commit, PCs
<1>3. /\ pc[a] = "commit" /\ pc'[a] = "prune"
      /\ pc' \in [Appliers -> PCs]
      /\ \A x \in Appliers : x # a => pc'[x] = pc[x]
  BY <1>1, <1>2, GotoEffect, Zenon
<1>4. \A x \in Appliers : x # a => pc'[x] = "idle"
  BY <1>3, Active, Zenon
<1>5. /\ block[a] \in Blocks /\ block[a].height = height + 1
  BY <1>3, Active, Zenon
<1>6. PICK r \in Retains : retain' = [retain EXCEPT ![a] = r]
  BY Zenon DEF Commit
<1>7. /\ AppCommit
      /\ newState' = [newState EXCEPT ![a] = s]
      /\ UNCHANGED <<kvState, kvBlock, kvResp, height, base, lastState, syncTarget,
                     block, responses, accepted, faults>>
  BY Zenon DEF Commit, memory
<1>8. \A x \in Appliers : pc'[x] \notin {"update", "commit", "setHeight"}
  BY <1>3, <1>4, Zenon
<1>9. UNCHANGED <<kvState, kvBlock, kvResp, memory, accepted>>
  BY <1>7, Zenon DEF memory
<1>10. /\ appLog' \in History
       /\ appExec' \in Seq(Ids)
       /\ appLog' = responses[a]
       /\ block[a].height = AppHeight'
       /\ lastState.LastBlockHeight = AppHeight'
       /\ newState[a] = lastState
       /\ RecoverableFromDisk' /\ StateMatchesLog' /\ InitChainMatchesApp'
       /\ BlocksKept'
       /\ NoRetryInProcess => ExecMatchesBlock'
  BY <1>3, <1>7, <1>8, <1>9, AppCommitEffect, Zenon
<1>11. /\ s \in States
       /\ s.LastBlockHeight = AppHeight'
       /\ s.AppHash = appLog'
       /\ s.LastResultsHash = appLog'
  BY <1>1, <1>10, CommittedFields DEF ApplyTypeOK
<1> HIDE DEF s
<1>12. newState' \in [Appliers -> States \cup {None}] /\ newState'[a] = s
  BY <1>1, <1>7, <1>11, Zenon DEF ApplyTypeOK
<1>13. r \in Nat /\ retain' \in [Appliers -> Nat \cup {None}] /\ retain'[a] = r
  BY <1>1, <1>6, ConstantsAssumption, Zenon DEF ApplyTypeOK
<1>14. appInit' \in BOOLEAN
  BY <1>7, Zenon DEF AppCommit
<1>15. ApplyTypeOK'
  BY <1>1, <1>3, <1>7, <1>10, <1>12, <1>13, <1>14, Zenon DEF ApplyTypeOK
<1>16. KnowsAt(a)'
  BY <1>3, <1>5, <1>7, <1>10, <1>11, <1>12, <1>13, Zenon DEF KnowsAt
<1> QED
  BY <1>4, <1>10, <1>15, <1>16, Assemble, Zenon

LEMMA CommitFailsStep ==
  ASSUME IInv, NEW a \in Appliers, CommitFails(a)
  PROVE  IInv'
<1>1. ApplyTypeOK
  BY DEF IInv
<1>2. Return(a, "commit") /\ "commit" \in PCs
  BY Zenon DEF CommitFails, PCs
<1>3. /\ pc[a] = "commit" /\ pc'[a] = "idle"
      /\ \A x \in Appliers : x # a => pc'[x] = pc[x]
  BY <1>1, <1>2, ReturnEffect, Zenon
<1>4. \A x \in Appliers : pc'[x] = "idle"
  BY <1>3, Active, Zenon
<1>5. UNCHANGED <<kvState, kvBlock, kvResp, memory, accepted>>
  BY Zenon DEF CommitFails
<1>6. CASE Fault("commit") /\ UNCHANGED app
  <2>1. faults' \in 0..MaxFaults /\ ~NoRetryInProcess
    BY <1>1, <1>6, FaultCounted, Zenon DEF NoRetryInProcess
  <2> QED
    BY <1>2, <1>5, <1>6, <2>1, ReturnsUnchanged, Zenon DEF app, disk
<1>7. CASE Fault("afterCommit") /\ AppCommit
  <2>1. faults' \in 0..MaxFaults
    BY <1>1, <1>7, FaultCounted, Zenon
  <2>2. /\ appLog' \in History
        /\ appExec' \in Seq(Ids)
        /\ RecoverableFromDisk' /\ StateMatchesLog' /\ InitChainMatchesApp'
        /\ BlocksKept'
        /\ NoRetryInProcess => ExecMatchesBlock'
    BY <1>3, <1>4, <1>5, <1>7, AppCommitEffect, Zenon
  <2>3. appInit' \in BOOLEAN
    BY <1>7, Zenon DEF AppCommit
  <2>4. ApplyTypeOK'
    BY <1>1, <1>2, <1>5, <2>1, <2>2, <2>3, ReturnEffect, Zenon DEF ApplyTypeOK, memory
  <2>5. KnowsAt(a)'
    BY <1>3, Zenon DEF KnowsAt
  <2> QED
    BY <1>4, <2>2, <2>4, <2>5, Assemble, Zenon
<1> QED
  BY <1>6, <1>7, Zenon DEF CommitFails

LEMMA PruneBlocksStep ==
  ASSUME IInv, NEW a \in Appliers, PruneBlocks(a)
  PROVE  IInv'
<1> DEFINE b == block[a]
           r == retain[a]
<1>0. NumberTypes
  BY Numbers, Zenon
<1>1. ApplyTypeOK
  BY DEF IInv
<1>2. Goto(a, "prune", "final") /\ "prune" \in PCs /\ "final" \in PCs
  BY Zenon DEF PruneBlocks, PCs
<1>3. /\ pc[a] = "prune" /\ pc'[a] = "final"
      /\ pc' \in [Appliers -> PCs]
      /\ \A x \in Appliers : x # a => pc'[x] = pc[x]
  BY <1>1, <1>2, GotoEffect, Zenon
<1>4. \A x \in Appliers : x # a => pc[x] = "idle" /\ pc'[x] = "idle"
  BY <1>3, Active, Zenon
<1>5. /\ b \in Blocks /\ b.height \in Heights /\ b.height = height + 1
      /\ height = kvState.LastStoreHeight
  BY <1>3, Active, Zenon
<1>6. /\ b.height = AppHeight
      /\ newState[a] \in States
      /\ newState[a].LastBlockHeight = AppHeight
      /\ newState[a].AppHash = appLog
      /\ newState[a].LastResultsHash = appLog
      /\ r \in Nat
  BY <1>3, Zenon DEF IInv, KnowsAt
<1>7. /\ r <= height
      /\ r <= accepted
  BY SMTT(30), <1>0, <1>1, <1>6
  DEF NumberTypes, PruneBlocks, CanPrune, IInv, BlocksKept, ApplyTypeOK
<1>8. /\ base' = r
      /\ UNCHANGED <<kvState, appLog, appExec, appInit, height, lastState,
                     syncTarget, block, responses, newState, retain, accepted,
                     faults>>
  BY Zenon DEF PruneBlocks, app, locals
<1>9. \A h \in Heights : /\ kvBlock'[h] \in {kvBlock[h], None}
                         /\ kvResp'[h] \in {kvResp[h], None}
                         /\ h >= r => kvBlock'[h] = kvBlock[h] /\ kvResp'[h] = kvResp[h]
  BY SMTT(30), <1>6, HeightsAreNat DEF PruneBlocks
<1>10. /\ kvBlock' \in [Heights -> Blocks \cup {None}]
       /\ kvResp' \in [Heights -> History \cup {None}]
  <2>1. /\ kvBlock' = [h \in Heights |-> kvBlock'[h]]
        /\ kvResp' = [h \in Heights |-> kvResp'[h]]
    BY Zenon DEF PruneBlocks
  <2>2. \A h \in Heights : /\ kvBlock'[h] \in Blocks \cup {None}
                           /\ kvResp'[h] \in History \cup {None}
    BY <1>1, <1>9, Zenon DEF ApplyTypeOK
  <2> QED
    BY <2>1, <2>2, Zenon
<1> HIDE DEF b, r
<1>11. ApplyTypeOK'
  BY <1>1, <1>3, <1>6, <1>8, <1>10, Zenon DEF ApplyTypeOK
<1>12. KnowsAt(a)'
  BY <1>3, <1>5, <1>6, <1>8, Zenon DEF KnowsAt, AppHeight, b
<1>13. kvResp'[b.height] = kvResp[b.height]
  BY <1>0, <1>5, <1>6, <1>7, <1>9 DEF NumberTypes
<1>14. RecoverableFromDisk'
  BY <1>0, <1>5, <1>6, <1>8, <1>13, Zenon
  DEF NumberTypes, IInv, RecoverableFromDisk, AppHeight
<1>15. StateMatchesLog' /\ InitChainMatchesApp'
  BY <1>5, <1>8, Zenon DEF IInv, StateMatchesLog, InitChainMatchesApp, AppHeight
<1>16. BlocksKept'
  <2>1. ASSUME NEW h \in Heights, h > accepted \/ h >= height
        PROVE  h >= r
    <3>1. h \in Nat /\ height \in Nat /\ accepted \in Nat
      BY <1>0, HeightsAreNat, Zenon DEF NumberTypes
    <3> QED
      BY <1>6, <1>7, <2>1, <3>1
  <2>2. AppHeight' = AppHeight /\ UNCHANGED <<syncTarget, accepted, height>>
    BY <1>8, Zenon DEF AppHeight
  <2>3. BlocksKept
    BY Zenon DEF IInv
  <2> QED
    BY <1>9, <2>1, <2>2, <2>3, Zenon DEF BlocksKept
<1>17. NoRetryInProcess => ExecMatchesBlock'
  BY <1>3, <1>4, <1>8, <1>9, Zenon DEF IInv, ExecMatchesBlock, AppHeight
<1> QED
  BY <1>4, <1>11, <1>12, <1>14, <1>15, <1>16, <1>17, Assemble, Zenon

LEMMA NothingPrunedStep ==
  ASSUME IInv, NEW a \in Appliers, NothingPruned(a)
  PROVE  IInv'
<1>1. ApplyTypeOK
  BY DEF IInv
<1>2. Goto(a, "prune", "final") /\ "prune" \in PCs /\ "final" \in PCs
  BY Zenon DEF NothingPruned, PCs
<1>3. /\ pc[a] = "prune" /\ pc'[a] = "final"
      /\ pc' \in [Appliers -> PCs]
      /\ \A x \in Appliers : x # a => pc'[x] = pc[x]
  BY <1>1, <1>2, GotoEffect
<1>4. \A x \in Appliers : x # a => pc[x] = "idle" /\ pc'[x] = "idle"
  BY <1>3, Active
<1>5. UNCHANGED <<disk, memory, appExec, appInit, locals, accepted>>
  BY Zenon DEF NothingPruned
<1>6. faults' \in 0..MaxFaults
  BY <1>1, FaultCounted, Zenon DEF NothingPruned, ApplyTypeOK
<1>7. ApplyTypeOK'
  BY <1>1, <1>3, <1>5, <1>6, Zenon DEF ApplyTypeOK, disk, memory, locals
<1>8. KnowsAt(a)'
  BY <1>3, <1>5, Active, Zenon DEF IInv, KnowsAt, AppHeight, disk, memory, locals
<1> QED
  BY <1>3, <1>4, <1>5, <1>7, <1>8, OnlyControl, Zenon

LEMMA FinalStateStep ==
  ASSUME IInv, NEW a \in Appliers, FinalState(a)
  PROVE  IInv'
<1> DEFINE b == block[a]
           s == Stored(newState[a], b.height, base)
<1>0. NumberTypes
  BY Numbers
<1>1. ApplyTypeOK
  BY DEF IInv
<1>2. Goto(a, "final", "setHeight") /\ "final" \in PCs /\ "setHeight" \in PCs
  BY Zenon DEF FinalState, PCs
<1>3. /\ pc[a] = "final" /\ pc'[a] = "setHeight"
      /\ pc' \in [Appliers -> PCs]
      /\ \A x \in Appliers : x # a => pc'[x] = pc[x]
  BY <1>1, <1>2, GotoEffect, Zenon
<1>4. \A x \in Appliers : x # a => pc[x] = "idle" /\ pc'[x] = "idle"
  BY <1>3, Active, Zenon
<1>5. /\ b \in Blocks /\ b.height \in Nat /\ b.height = height + 1
      /\ height = kvState.LastStoreHeight
  BY <1>3, Active, Zenon
<1>6. /\ b.height = AppHeight
      /\ newState[a] \in States
      /\ newState[a].LastBlockHeight = AppHeight
      /\ newState[a].AppHash = appLog
      /\ newState[a].LastResultsHash = appLog
  BY SMTT(30), <1>3 DEF IInv, KnowsAt
<1>7. /\ kvState' = s
      /\ lastState' = s
      /\ UNCHANGED <<kvBlock, kvResp, appLog, appExec, appInit, height, base,
                     syncTarget, block, responses, newState, retain, accepted,
                     faults>>
  BY Zenon DEF FinalState, app, locals
<1>8. /\ s \in States
      /\ s.LastBlockHeight = AppHeight
      /\ s.LastStoreHeight = AppHeight
      /\ s.AppHash = appLog
      /\ s.LastResultsHash = appLog
  <2>1. base \in Nat
    BY <1>1, Zenon DEF ApplyTypeOK
  <2>2. /\ s \in States
        /\ s.LastBlockHeight = newState[a].LastBlockHeight
        /\ s.LastStoreHeight = b.height
        /\ s.AppHash = newState[a].AppHash
        /\ s.LastResultsHash = newState[a].LastResultsHash
    BY <1>5, <1>6, <2>1, StoredFields
  <2> QED
    BY <1>6, <2>2, Zenon
<1> HIDE DEF s, b
<1>9. ApplyTypeOK'
  BY <1>1, <1>3, <1>7, <1>8, Zenon DEF ApplyTypeOK
<1>10. KnowsAt(a)'
  BY <1>3, <1>5, <1>6, <1>7, <1>8, Zenon DEF KnowsAt, b
<1>11. RecoverableFromDisk'
  BY <1>7, <1>8, Zenon DEF RecoverableFromDisk, AppHeight
<1>12. StateMatchesLog'
  <2>1. AppHeight' = AppHeight /\ AppHeight \in Nat /\ appLog' = appLog
    BY <1>0, <1>7, Zenon DEF NumberTypes, AppHeight
  <2>2. /\ kvState'.LastBlockHeight = AppHeight /\ kvState'.LastStoreHeight = AppHeight
        /\ lastState' = kvState'
        /\ kvState'.AppHash = appLog /\ kvState'.LastResultsHash = appLog
    BY <1>7, <1>8, Zenon
  <2> QED
    BY <1>3, <2>1, <2>2 DEF StateMatchesLog
<1>13. InitChainMatchesApp'
  BY <1>0, <1>5, <1>6, <1>7, <1>8 DEF NumberTypes, IInv, InitChainMatchesApp, AppHeight
<1>14. BlocksKept'
  BY <1>7, Zenon DEF IInv, BlocksKept, AppHeight
<1>15. NoRetryInProcess => ExecMatchesBlock'
  BY <1>3, <1>4, <1>7, Zenon DEF IInv, ExecMatchesBlock, AppHeight
<1> QED
  BY <1>4, <1>9, <1>10, <1>11, <1>12, <1>13, <1>14, <1>15, Assemble, Zenon

LEMMA SetStoreHeightStep ==
  ASSUME IInv, NEW a \in Appliers, SetStoreHeight(a)
  PROVE  IInv'
<1> DEFINE h == block[a].height
<1>0. NumberTypes
  BY Numbers
<1>1. ApplyTypeOK
  BY DEF IInv
<1>2. Return(a, "setHeight") /\ "setHeight" \in PCs
  BY Zenon DEF SetStoreHeight, PCs
<1>3. pc[a] = "setHeight" /\ pc'[a] = "idle"
  BY <1>1, <1>2, ReturnEffect, Zenon
<1>4. \A x \in Appliers : x # a => pc[x] = "idle" /\ pc'[x] = "idle"
  BY <1>1, <1>2, <1>3, Active, ReturnEffect
<1>5. h \in Nat /\ h = height + 1 /\ h = kvState.LastStoreHeight
  <2>1. h \in Nat /\ h = height + 1
    BY <1>3, Active, Zenon
  <2> QED
    BY <1>3, <2>1, Zenon DEF IInv, KnowsAt
<1>6. /\ SetHeight(h)
      /\ UNCHANGED <<kvState, kvBlock, kvResp, appLog, base, lastState, syncTarget,
                     appExec, appInit, accepted, faults>>
  BY Zenon DEF SetStoreHeight, disk
<1> HIDE DEF h
<1>7. height' = h
  <2>1. height \in Nat /\ h > height
    BY <1>0, <1>5 DEF NumberTypes
  <2> QED
    BY <1>6, <2>1, Zenon DEF SetHeight
<1>8. ApplyTypeOK'
  BY <1>1, <1>2, <1>5, <1>6, <1>7, ReturnEffect, Zenon DEF ApplyTypeOK
<1>9. KnowsAt(a)'
  BY <1>3, Zenon DEF KnowsAt
<1>10. RecoverableFromDisk' /\ InitChainMatchesApp'
  BY <1>6, Zenon DEF IInv, RecoverableFromDisk, InitChainMatchesApp, AppHeight
<1>11. StateMatchesLog'
  <2>1. StateMatchesLog
    BY Zenon DEF IInv
  <2>2. height' = kvState'.LastStoreHeight
    BY <1>5, <1>6, <1>7, Zenon
  <2> QED
    BY <1>6, <2>1, <2>2, Zenon DEF StateMatchesLog, AppHeight
<1>12. BlocksKept'
  BY <1>0, <1>5, <1>6, <1>7, HeightsAreNat DEF NumberTypes, IInv, BlocksKept, AppHeight
<1>13. NoRetryInProcess => ExecMatchesBlock'
  BY <1>3, <1>4, <1>6, Zenon DEF IInv, ExecMatchesBlock, AppHeight
<1> QED
  BY <1>4, <1>8, <1>9, <1>10, <1>11, <1>12, <1>13, Assemble, Zenon

-----------------------------------------------------------------------------
(* The other writers of the state *)

\* In a serial node a goroutine that enters applyBlock or updateStateIndex
\* finds every goroutine idle.
LEMMA EntersAlone ==
  ASSUME Serial, IInv, NEW a \in Appliers, pc[a] = "idle",
         a \in Receivers \/ \A p \in Producers : pc[p] = "idle"
  PROVE  \A x \in Appliers : pc[x] = "idle"
<1>1. CASE Receivers = {}
  BY <1>1, Zenon DEF Appliers
<1>2. CASE Producers = {} /\ \A x, y \in Receivers : x = y
  BY <1>2, Zenon DEF Appliers
<1> QED
  BY <1>1, <1>2, Zenon DEF Serial

LEMMA ApplyBlockStep ==
  ASSUME IInv, NEW a \in Appliers, NEW b \in Blocks, ApplyBlock(a, b),
         \A x \in Appliers : pc[x] = "idle"
  PROVE  IInv'
<1>1. ApplyTypeOK
  BY Zenon DEF IInv
<1>2. Goto(a, "idle", "align") /\ "idle" \in PCs /\ "align" \in PCs
  BY Zenon DEF ApplyBlock, PCs
<1>3. /\ pc'[a] = "align"
      /\ pc' \in [Appliers -> PCs]
      /\ \A x \in Appliers : x # a => pc'[x] = "idle"
  BY <1>1, <1>2, GotoEffect, Zenon
<1>4. /\ b.height = height + 1
      /\ block' = [block EXCEPT ![a] = b]
      /\ UNCHANGED <<disk, memory, appExec, appInit, responses, newState, retain,
                     accepted, faults>>
  BY Zenon DEF ApplyBlock
<1>5. block' \in [Appliers -> Blocks \cup {None}] /\ block'[a] = b
  BY <1>1, <1>4, Zenon DEF ApplyTypeOK
<1>6. ApplyTypeOK'
  BY <1>1, <1>3, <1>4, <1>5, Zenon DEF ApplyTypeOK, disk, memory
<1>7. KnowsAt(a)'
  BY <1>3, <1>4, <1>5, Zenon DEF KnowsAt, memory
<1> QED
  BY <1>3, <1>4, <1>6, <1>7, OnlyControl, Zenon

LEMMA DeliveredBlockFields ==
  ASSUME NEW h, NEW b \in DeliveredBlocks(h)
  PROVE  \E i \in Ids, p \in OnceExecuted(h - 1) :
           b = [height |-> h, id |-> i, AppHash |-> p, LastResultsHash |-> p]
  BY DEF DeliveredBlocks

LEMMA ReceiveStep ==
  ASSUME Serial, IInv, NEW a \in Appliers, Receive(a)
  PROVE  IInv'
<1>0. height \in Nat /\ (height + 1) - 1 = height
  BY Numbers DEF NumberTypes
<1>1. PICK b \in DeliveredBlocks(height + 1) : ApplyBlock(a, b)
  BY Zenon DEF Receive
<1>2. pc[a] = "idle"
  BY <1>1, Zenon DEF ApplyBlock, Goto
<1>3. \A x \in Appliers : pc[x] = "idle"
  BY <1>2, EntersAlone, Zenon DEF Receive
<1>4. height + 1 \in Heights
  BY ConstantsAssumption DEF IInv, ApplyTypeOK, Receive, Heights, InitialHeight
<1>5. b \in Blocks
  <2>1. PICK i \in Ids, p \in OnceExecuted(height) :
          b = [height |-> height + 1, id |-> i, AppHash |-> p, LastResultsHash |-> p]
    BY <1>0, DeliveredBlockFields
  <2>2. p \in [1..height -> {<<j>> : j \in Ids}]
    BY Zenon DEF OnceExecuted
  <2>3. ASSUME NEW n \in 1..height
        PROVE  p[n] \in Seq(Ids)
    <3>1. PICK j \in Ids : p[n] = <<j>>
      BY <2>2, Zenon
    <3> QED
      BY <3>1
  <2>4. p \in History
    BY <1>0, <2>2, <2>3 DEF History
  <2> QED
    BY <1>4, <2>1, <2>4, Zenon DEF Blocks
<1> QED
  BY <1>1, <1>3, <1>5, ApplyBlockStep, Zenon

LEMMA ProduceStep ==
  ASSUME Serial, IInv, NEW a \in Appliers, Produce(a)
  PROVE  IInv'
<1>1. ApplyTypeOK
  BY Zenon DEF IInv
<1>2. height + 1 \in Heights
  BY <1>1, ConstantsAssumption DEF ApplyTypeOK, Produce, Heights, InitialHeight
<1>3. PICK b \in IF kvBlock[height + 1] # None
                 THEN {kvBlock[height + 1]}
                 ELSE CreateBlock(height + 1, lastState) : ApplyBlock(a, b)
  BY Zenon DEF Produce
<1>4. \A x \in Appliers : pc[x] = "idle"
  <2>1. pc[a] = "idle"
    BY <1>3, Zenon DEF ApplyBlock, Goto
  <2> QED
    BY <2>1, EntersAlone, Zenon DEF Produce
<1>5. b \in Blocks
  <2>1. CASE kvBlock[height + 1] # None
    BY <1>1, <1>2, <1>3, <2>1, Zenon DEF ApplyTypeOK
  <2>2. CASE kvBlock[height + 1] = None
    <3>1. lastState.AppHash \in History /\ lastState.LastResultsHash \in History
      BY <1>1, StateFields, Zenon DEF ApplyTypeOK
    <3> QED
      BY <1>2, <1>3, <2>2, <3>1 DEF CreateBlock, Blocks
  <2> QED
    BY <2>1, <2>2, Zenon
<1> QED
  BY <1>3, <1>4, <1>5, ApplyBlockStep, Zenon

LEMMA UpdateStateIndexStep ==
  ASSUME Serial, IInv, NEW a \in Appliers, UpdateStateIndex(a)
  PROVE  IInv'
<1> DEFINE i == lastState.SLStateIndex + 1
           s == Indexed(lastState, i)
<1>1. ApplyTypeOK
  BY DEF IInv
<1>2. Goto(a, "idle", "persistIndex") /\ "idle" \in PCs /\ "persistIndex" \in PCs
  BY Zenon DEF UpdateStateIndex, PCs
<1>3. /\ pc[a] = "idle" /\ pc'[a] = "persistIndex"
      /\ pc' \in [Appliers -> PCs]
      /\ \A x \in Appliers : x # a => pc'[x] = pc[x]
  BY <1>1, <1>2, GotoEffect, Zenon
<1>4. \A x \in Appliers : pc[x] = "idle"
  BY <1>3, EntersAlone, Zenon DEF UpdateStateIndex
<1>5. /\ lastState' = s
      /\ newState' = [newState EXCEPT ![a] = s]
      /\ UNCHANGED <<kvState, kvBlock, kvResp, appLog, height, base, syncTarget,
                     appExec, appInit, block, responses, retain, accepted, faults>>
  BY Zenon DEF UpdateStateIndex, disk
<1>6. lastState \in States /\ i \in Nat
  BY <1>1, StateFields DEF ApplyTypeOK
<1>7. /\ s \in States
      /\ s.LastBlockHeight = lastState.LastBlockHeight
      /\ s.LastStoreHeight = lastState.LastStoreHeight
      /\ s.AppHash = lastState.AppHash
      /\ s.LastResultsHash = lastState.LastResultsHash
  BY <1>6, IndexedFields, Zenon
<1> HIDE DEF s, i
<1>8. newState' \in [Appliers -> States \cup {None}] /\ newState'[a] = s
  BY <1>1, <1>5, <1>7, Zenon DEF ApplyTypeOK
<1>9. ApplyTypeOK'
  BY <1>1, <1>3, <1>5, <1>7, <1>8, Zenon DEF ApplyTypeOK
<1>10. KnowsAt(a)'
  BY <1>3, <1>5, <1>8, Zenon DEF KnowsAt, UpdateStateIndex
<1>11. RecoverableFromDisk' /\ InitChainMatchesApp' /\ BlocksKept'
  BY <1>5, Zenon DEF IInv, RecoverableFromDisk, InitChainMatchesApp, BlocksKept, AppHeight
<1>12. StateMatchesLog'
  <2>1. height = kvState.LastStoreHeight
    BY <1>4, Zenon DEF IInv, StateMatchesLog
  <2> QED
    BY <1>5, <1>7, <2>1 DEF IInv, StateMatchesLog, AppHeight
<1>13. NoRetryInProcess => ExecMatchesBlock'
  BY <1>3, <1>4, <1>5, Zenon DEF IInv, ExecMatchesBlock, AppHeight
<1> QED
  BY <1>3, <1>4, <1>9, <1>10, <1>11, <1>12, <1>13, Assemble, Zenon

LEMMA PersistIndexStep ==
  ASSUME Serial, IInv, NEW a \in Appliers, PersistIndex(a)
  PROVE  IInv'
<1>0. NumberTypes
  BY Numbers, Zenon
<1>1. ApplyTypeOK
  BY DEF IInv
<1>2. Return(a, "persistIndex") /\ "persistIndex" \in PCs
  BY Zenon DEF PersistIndex, PCs
<1>3. pc[a] = "persistIndex" /\ pc'[a] = "idle"
  BY <1>1, <1>2, ReturnEffect, Zenon
<1>4. \A x \in Appliers : x # a => pc[x] = "idle" /\ pc'[x] = "idle"
  BY <1>1, <1>2, <1>3, Active, ReturnEffect, Zenon
<1>5. height = kvState.LastStoreHeight /\ newState[a] = lastState /\ a \in Receivers
  BY <1>3, Active, Zenon DEF IInv, KnowsAt
<1>6. UNCHANGED <<kvBlock, kvResp, appLog, appExec, appInit, height, base,
                  lastState, syncTarget, accepted>>
  BY Zenon DEF PersistIndex, app, memory
<1>7. CASE UNCHANGED kvState /\ Fault("index")
  <2>1. faults' \in 0..MaxFaults
    BY <1>1, <1>7, FaultCounted, Zenon
  <2> QED
    BY <1>2, <1>6, <1>7, <2>1, ReturnsUnchanged, Zenon DEF disk, memory
<1>8. CASE kvState' = newState[a] /\ UNCHANGED faults
  <2>1. kvState' = lastState /\ lastState \in States
    BY <1>1, <1>5, <1>8, Zenon DEF ApplyTypeOK
  <2>2. ApplyTypeOK'
    BY <1>1, <1>2, <1>6, <1>8, <2>1, ReturnEffect, Zenon DEF ApplyTypeOK
  <2>3. KnowsAt(a)'
    BY <1>3, Zenon DEF KnowsAt
  <2>0. RecoverableFromDisk /\ StateMatchesLog /\ InitChainMatchesApp /\ BlocksKept
    BY Zenon DEF IInv
  <2>4. lastState.LastStoreHeight = kvState.LastStoreHeight
    BY <1>0, <1>5, <2>0, Zenon DEF NumberTypes, StateMatchesLog
  <2>5. RecoverableFromDisk' /\ StateMatchesLog'
    <3>1. AppHeight' = AppHeight
      BY <1>6, Zenon DEF AppHeight
    <3>2. RecoverableFromDisk'
      BY <1>0, <1>6, <2>0, <2>1, <2>4, <3>1, Zenon
      DEF NumberTypes, RecoverableFromDisk, StateMatchesLog
    <3>3. StateMatchesLog'
      <4>1. /\ kvState' = lastState /\ lastState' = lastState /\ appLog' = appLog
            /\ height' = lastState.LastStoreHeight
        BY <1>5, <1>6, <2>1, <2>4, Zenon
      <4>2. CASE kvState.LastStoreHeight = AppHeight
        <5>1. /\ lastState.LastStoreHeight = AppHeight
              /\ lastState.LastBlockHeight \in {AppHeight, AppHeight + 1}
              /\ lastState.AppHash = appLog /\ lastState.LastResultsHash = appLog
          BY <2>0, <4>2, Zenon DEF StateMatchesLog
        <5>2. /\ height' = AppHeight /\ AppHeight' = AppHeight /\ AppHeight \in Nat
              /\ kvState'.LastStoreHeight = AppHeight
              /\ \/ kvState'.LastBlockHeight = AppHeight
                 \/ kvState'.LastBlockHeight = AppHeight + 1
              /\ lastState'.LastBlockHeight = kvState'.LastBlockHeight
              /\ lastState'.LastStoreHeight = AppHeight /\ appLog' = appLog
              /\ lastState'.AppHash = appLog /\ lastState'.LastResultsHash = appLog
          BY <1>0, <3>1, <4>1, <5>1, Zenon DEF NumberTypes
        <5> QED
          BY SMTT(30), <5>2 DEF StateMatchesLog
      <4>3. CASE kvState.LastStoreHeight + 1 = AppHeight
        BY <1>0, <2>0, <2>4, <3>1, <4>1, <4>3 DEF NumberTypes, StateMatchesLog
      <4> QED
        BY <1>0, <4>2, <4>3, Zenon DEF NumberTypes
    <3> QED
      BY <3>2, <3>3, Zenon
  <2>6. InitChainMatchesApp' /\ BlocksKept'
    BY <1>0, <1>5, <1>6, <2>0, <2>1, <2>4
    DEF NumberTypes, InitChainMatchesApp, BlocksKept, StateMatchesLog, AppHeight, InitialHeight
  <2>7. NoRetryInProcess => ExecMatchesBlock'
    BY <1>3, <1>4, <1>6, Zenon DEF IInv, ExecMatchesBlock, AppHeight
  <2> QED
    BY <1>4, <2>2, <2>3, <2>5, <2>6, <2>7, Assemble, Zenon
<1> QED
  BY <1>7, <1>8, Zenon DEF PersistIndex

\* A step that changes only where the settlement layer and syncTarget are.
LEMMA TargetMoves ==
  ASSUME IInv,
         UNCHANGED <<kvState, kvBlock, kvResp, appLog, height, base, lastState,
                     appExec, appInit, pc, block, responses, newState, retain, faults>>,
         syncTarget' \in Nat, accepted' \in Nat,
         syncTarget' <= accepted', accepted <= accepted'
  PROVE  IInv'
<1>0. NumberTypes
  BY Numbers, Zenon
<1>4. ApplyTypeOK' /\ MutualExclusion'
  BY SMTT(30) DEF IInv, ApplyTypeOK, MutualExclusion
<1>5. \A a \in Appliers : KnowsAt(a)'
  BY DEF IInv, KnowsAt, AppHeight
<1>6. RecoverableFromDisk' /\ StateMatchesLog' /\ InitChainMatchesApp'
  BY Zenon
  DEF IInv, RecoverableFromDisk, StateMatchesLog, InitChainMatchesApp, AppHeight
<1>7. BlocksKept'
  BY <1>0, HeightsAreNat DEF NumberTypes, IInv, BlocksKept, AppHeight
<1>8. NoRetryInProcess => ExecMatchesBlock'
  BY Zenon DEF IInv, ExecMatchesBlock, AppHeight
<1> QED
  BY <1>4, <1>5, <1>6, <1>7, <1>8, Zenon DEF IInv

LEMMA UpdateSyncParamsStep ==
  ASSUME IInv, UpdateSyncParams
  PROVE  IInv'
<1>0. NumberTypes
  BY Numbers, Zenon
<1>1. PICK t \in Heights : /\ accepted' = IF t > accepted THEN t ELSE accepted
                           /\ syncTarget' = t
  BY Zenon DEF UpdateSyncParams
<1>2. UNCHANGED <<kvState, kvBlock, kvResp, appLog, height, base, lastState,
                  appExec, appInit, pc, block, responses, newState, retain, faults>>
  BY Zenon DEF UpdateSyncParams, disk, locals
<1>3. /\ syncTarget' \in Nat /\ accepted' \in Nat
      /\ syncTarget' <= accepted' /\ accepted <= accepted'
  BY <1>0, <1>1, HeightsAreNat DEF NumberTypes
<1> QED
  BY <1>2, <1>3, TargetMoves, Zenon

\* ProduceBlockLoop itself touches nothing that applyBlock reads but syncTarget.
LEMMA LoopStepIsLoopOnly == LoopStep => LoopOnly
  BY Zenon DEF LoopStep, WaitForSync, CheckSynced, Signalled, ShouldProduceBlocks

\* waitForSync takes a target the settlement layer has, or none.
LEMMA LoopStepStep ==
  ASSUME IInv, LoopStep
  PROVE  IInv'
<1>0. NumberTypes
  BY Numbers, Zenon
<1>1. LoopOnly /\ syncTarget' \in {0, accepted, syncTarget}
  BY Zenon DEF LoopStep, WaitForSync, CheckSynced, Signalled, ShouldProduceBlocks
<1>2. UNCHANGED <<kvState, kvBlock, kvResp, appLog, height, base, lastState,
                  appExec, appInit, pc, block, responses, newState, retain, faults,
                  accepted>>
  BY <1>1, Zenon DEF LoopOnly, disk, locals
<1>3. syncTarget \in Nat /\ syncTarget <= accepted
  BY Zenon DEF IInv, ApplyTypeOK, BlocksKept
<1>4. /\ syncTarget' \in Nat /\ accepted' \in Nat
      /\ syncTarget' <= accepted' /\ accepted <= accepted'
  BY <1>0, <1>1, <1>2, <1>3 DEF NumberTypes
<1> QED
  BY <1>2, <1>4, TargetMoves, Zenon

\* The rule of FromProto for old state files never fires: the store height is 0
\* only until the first block is stored.
LEMMA LoadsWhatWasStored ==
  ASSUME IInv
  PROVE  FromProto(kvState) = kvState
<1>0. NumberTypes
  BY Numbers, Zenon
<1>1. kvState.LastBlockHeight \in {kvState.LastStoreHeight, kvState.LastStoreHeight + 1}
  BY Zenon DEF IInv, StateMatchesLog
<1> QED
  BY <1>0, <1>1 DEF NumberTypes, FromProto

LEMMA RestartStep ==
  ASSUME IInv, Restart
  PROVE  IInv'
<1> DEFINE isInitChain == kvState.LastBlockHeight + 1 = InitialHeight
           s == IF isInitChain THEN InitChainState(kvState) ELSE kvState
<1>0. NumberTypes
  BY Numbers
<1>1. ApplyTypeOK
  BY Zenon DEF IInv
<1>2. /\ faults < MaxFaults
      /\ faults' = faults + 1
      /\ height' = kvState.LastStoreHeight
      /\ base' = kvState.BaseHeight
      /\ lastState' = s
      /\ kvState' = s
      /\ syncTarget' = 0
      /\ appExec' = <<>>
      /\ appInit' = (appLog # <<>> \/ isInitChain)
      /\ pc' = [a \in Appliers |-> "idle"]
      /\ block' = [a \in Appliers |-> None]
      /\ responses' = [a \in Appliers |-> None]
      /\ newState' = [a \in Appliers |-> None]
      /\ retain' = [a \in Appliers |-> None]
      /\ UNCHANGED <<kvBlock, kvResp, appLog, accepted>>
  BY LoadsWhatWasStored, Zenon DEF Restart
<1>3. isInitChain => appLog = <<>> /\ AppHeight = 0 /\ kvState.LastStoreHeight = 0
  BY <1>0
  DEF NumberTypes, IInv, InitChainMatchesApp, StateMatchesLog, AppHeight, InitialHeight
<1>4. /\ s \in States
      /\ s.LastBlockHeight = kvState.LastBlockHeight
      /\ s.LastStoreHeight = kvState.LastStoreHeight
      /\ isInitChain => s.AppHash = appLog /\ s.LastResultsHash = appLog
      /\ ~isInitChain => s = kvState
  <2>1. /\ InitChainState(kvState) \in States
        /\ InitChainState(kvState).LastBlockHeight = kvState.LastBlockHeight
        /\ InitChainState(kvState).LastStoreHeight = kvState.LastStoreHeight
        /\ InitChainState(kvState).AppHash = <<>>
        /\ InitChainState(kvState).LastResultsHash = <<>>
    <3>1. <<>> \in History
      BY DEF History
    <3>2. kvState \in States
      BY <1>1, Zenon DEF ApplyTypeOK
    <3> QED
      BY <3>1, <3>2, Zenon DEF InitChainState, States
  <2> QED
    BY <1>1, <1>3, <2>1, Zenon DEF ApplyTypeOK
<1>5. kvState.BaseHeight \in Nat
  BY <1>1, Zenon DEF ApplyTypeOK, States
<1> HIDE DEF s
<1>6. ApplyTypeOK'
  <2>1. appExec' \in Seq(Ids) /\ appInit' \in BOOLEAN /\ faults' \in 0..MaxFaults
    BY SMTT(30), <1>1, <1>2, ConstantsAssumption DEF ApplyTypeOK
  <2>2. pc' \in [Appliers -> PCs]
    BY <1>2, Zenon DEF PCs
  <2> QED
    BY <1>0, <1>1, <1>2, <1>4, <1>5, <2>1, <2>2, Zenon DEF NumberTypes, ApplyTypeOK
<1>7. \A a \in Appliers : pc'[a] = "idle"
  BY <1>2, Zenon
<1>8. MutualExclusion' /\ \A a \in Appliers : KnowsAt(a)'
  BY <1>7, Zenon DEF MutualExclusion, KnowsAt
<1>9. RecoverableFromDisk'
  BY <1>0, <1>2, <1>3, <1>4, Zenon DEF NumberTypes, IInv, RecoverableFromDisk, AppHeight
<1>10. StateMatchesLog'
  <2>1. /\ AppHeight' = AppHeight /\ appLog' = appLog /\ height' = kvState.LastStoreHeight
        /\ lastState' = s /\ kvState' = s
    BY <1>2, Zenon DEF AppHeight
  <2>2. kvState.LastBlockHeight \in {kvState.LastStoreHeight, kvState.LastStoreHeight + 1}
    BY Zenon DEF IInv, StateMatchesLog
  <2>3. CASE isInitChain
    <3>1. kvState.LastBlockHeight = 0
      BY <1>0, <2>3 DEF NumberTypes, InitialHeight
    <3> QED
      BY <1>3, <1>4, <2>1, <2>3, <3>1 DEF StateMatchesLog
  <2>4. CASE ~isInitChain
    <3>1. RecoverableFromDisk /\ StateMatchesLog
      BY Zenon DEF IInv
    <3>2. kvState' = kvState /\ lastState' = kvState
      BY <1>4, <2>1, <2>4, Zenon
    <3> QED
      BY SMTT(30), <1>0, <2>1, <2>2, <3>1, <3>2
      DEF NumberTypes, StateMatchesLog, RecoverableFromDisk
  <2> QED
    BY <2>3, <2>4, Zenon
<1>11. InitChainMatchesApp'
  <2>1. ASSUME kvState.LastBlockHeight = 0
        PROVE  appLog = <<>> /\ appInit'
    <3>1. isInitChain
      BY <2>1 DEF InitialHeight
    <3> QED
      BY <1>2, <1>3, <3>1, Zenon
  <2>2. ASSUME ~appInit'
        PROVE  /\ appLog = <<>>
               /\ kvState.LastBlockHeight = InitialHeight
               /\ kvState.LastStoreHeight = 0
    <3>1. appLog = <<>> /\ ~isInitChain
      BY <1>2, <2>2, Zenon
    <3>2. AppHeight = 0
      BY <3>1, Zenon DEF AppHeight
    <3>3. kvState.LastStoreHeight = 0
      BY <1>0, <3>2 DEF NumberTypes
    <3>4. kvState.LastBlockHeight \in {0, 1}
      BY <3>3 DEF IInv, StateMatchesLog
    <3> QED
      BY <3>1, <3>3, <3>4 DEF InitialHeight
  <2> QED
    BY <1>2, <1>4, <2>1, <2>2, Zenon DEF InitChainMatchesApp
<1>12. BlocksKept'
  <2>1. BlocksKept
    BY Zenon DEF IInv
  <2>2. kvState.LastStoreHeight >= height
    <3>1. ASSUME NEW a \in Appliers, pc[a] = "setHeight"
          PROVE  kvState.LastStoreHeight = height + 1
      <4>1. block[a].height = height + 1
        BY <3>1, Active, Zenon
      <4> QED
        BY <3>1, <4>1, Zenon DEF IInv, KnowsAt
    <3>2. ASSUME \A a \in Appliers : pc[a] # "setHeight"
          PROVE  kvState.LastStoreHeight = height
      BY <3>2, Zenon DEF IInv, StateMatchesLog
    <3> QED
      BY <1>0, <3>1, <3>2 DEF NumberTypes
  <2> QED
    BY <1>0, <1>2, <2>1, <2>2, HeightsAreNat DEF NumberTypes, BlocksKept, AppHeight
<1>13. NoRetryInProcess => ExecMatchesBlock'
  BY <1>2, <1>7, Zenon DEF IInv, ExecMatchesBlock, AppHeight
<1> QED
  BY <1>6, <1>8, <1>9, <1>10, <1>11, <1>12, <1>13, Zenon DEF IInv

-----------------------------------------------------------------------------
(* The theorems *)

LEMMA InitIInv == Init => IInv
<1> SUFFICES ASSUME Init PROVE IInv
  BY Zenon
<1> USE DEF Init, NewFromGenesisDoc
<1>1. ApplyTypeOK
  BY ConstantsAssumption DEF ApplyTypeOK, States, History, PCs, Heights, InitialHeight
<1>2. MutualExclusion /\ \A a \in Appliers : KnowsAt(a)
  BY Zenon DEF MutualExclusion, KnowsAt
<1>3. RecoverableFromDisk /\ StateMatchesLog /\ InitChainMatchesApp
  BY DEF RecoverableFromDisk, StateMatchesLog, InitChainMatchesApp, AppHeight
<1>4. BlocksKept /\ ExecMatchesBlock
  BY DEF BlocksKept, ExecMatchesBlock, AppHeight, Heights, InitialHeight
<1> QED
  BY <1>1, <1>2, <1>3, <1>4, Zenon DEF IInv

LEMMA NextIInv ==
  ASSUME Serial, AlignFailsOnlyAlone, IInv, [Next]_vars
  PROVE  IInv'
<1>1. ASSUME NEW a \in Appliers, Step(a)
      PROVE  IInv'
  BY <1>1, AlignNotRequiredStep, AlignStoreWithAppStep, SaveBlockStep, ExecuteStep,
     ValidationFailsStep, UpdateStateStep, CommitStep, PruneBlocksStep,
     NothingPrunedStep, FinalStateStep, SetStoreHeightStep, PersistIndexStep, Zenon
  DEF Step
<1>2. ASSUME NEW a \in Appliers, StepFails(a)
      PROVE  IInv'
  BY <1>2, AppInfoFailsStep, AlignFailsStep, SaveFailsStep, ExecutionFailsStep, UpdateFailsStep,
     CommitFailsStep, FinalStateFailsStep, Zenon
  DEF StepFails
<1>3. CASE UNCHANGED vars
  <2> USE <1>3 DEF vars, disk, memory, locals
  <2>1. (ApplyTypeOK /\ MutualExclusion)'
    BY SMTT(30) DEF IInv, ApplyTypeOK, MutualExclusion
  <2>2. \A a \in Appliers : KnowsAt(a)'
    <3>1. \A a \in Appliers : KnowsAt(a)
      BY Zenon DEF IInv
    <3> QED
      BY <3>1, Zenon DEF KnowsAt, AppHeight
  <2>3. (RecoverableFromDisk /\ InitChainMatchesApp /\ BlocksKept)'
    BY Zenon DEF IInv, RecoverableFromDisk, InitChainMatchesApp, BlocksKept, AppHeight
  <2>4. StateMatchesLog'
    BY Zenon DEF IInv, StateMatchesLog, AppHeight
  <2>5. (NoRetryInProcess => ExecMatchesBlock)'
    BY Zenon DEF IInv, NoRetryInProcess, ExecMatchesBlock, AppHeight
  <2> QED
    BY <2>1, <2>2, <2>3, <2>4, <2>5 DEF IInv
<1> QED
  BY <1>1, <1>2, <1>3, ReceiveStep, ProduceStep, UpdateStateIndexStep,
     UpdateSyncParamsStep, LoopStepStep, RestartStep, Zenon
  DEF Next

LEMMA HeightNotAhead ==
  ASSUME IInv
  PROVE  height <= AppHeight
<1>0. NumberTypes
  BY Numbers, Zenon
<1>1. CASE \A a \in Appliers : pc[a] # "setHeight"
  BY <1>0, <1>1 DEF NumberTypes, IInv, StateMatchesLog
<1>2. ASSUME NEW a \in Appliers, pc[a] = "setHeight"
      PROVE  height <= AppHeight
  <2>1. height + 1 = kvState.LastStoreHeight
    BY <1>2, Active DEF IInv, KnowsAt
  <2> QED
    BY <1>0, <2>1 DEF NumberTypes
<1> QED
  BY <1>1, <1>2, Zenon

\* At every point at which applyBlock can stop, the disk, lastState and the
\* locals of the goroutine hold what IInv says.
THEOREM Invariance ==
  ASSUME Serial, AlignFailsOnlyAlone
  PROVE  Spec => []IInv
  BY InitIInv, NextIInv, PTL DEF Spec

\* The commit rule of applyBlock (block/block.go:15-16), for every number of
\* blocks, crashes and failed calls: a node in which one goroutine applies blocks
\* hands a block to the application only when the application committed its
\* predecessor.
THEOREM CommitRule ==
  ASSUME Serial, AlignFailsOnlyAlone
  PROVE  Spec => []ExecuteOnlyOnPredecessor
<1>1. IInv => ExecuteOnlyOnPredecessor
  BY Zenon DEF IInv, KnowsAt, ExecuteOnlyOnPredecessor
<1> QED
  BY <1>1, Invariance, PTL

\* Wherever a crash stops applyBlock, alignStoreWithApp finds on disk what it needs:
\* the state is level with the application, or one block behind with the responses.
THEOREM CrashLeavesRecoverable ==
  ASSUME Serial, AlignFailsOnlyAlone
  PROVE  Spec => []RecoverableFromDisk
<1>1. IInv => RecoverableFromDisk
  BY Zenon DEF IInv
<1> QED
  BY <1>1, Invariance, PTL

\* ProduceBlockLoop is where its own steps, an error or a restart put it.
LEMMA LoopTyped ==
  ASSUME loop \in LoopPCs, [Next]_vars
  PROVE  loop' \in LoopPCs
<1>1. ASSUME NEW a \in Appliers, Step(a)
      PROVE  loop' \in {loop, "stopped"}
  BY <1>1, Zenon
  DEF Step, Stops, AlignNotRequired, AlignStoreWithApp, SaveBlock, Execute,
      ValidationFails, UpdateState, Commit, PruneBlocks, NothingPruned, FinalState,
      SetStoreHeight, PersistIndex
<1>2. ASSUME NEW a \in Appliers, StepFails(a)
      PROVE  loop' \in {loop, "stopped"}
  BY <1>2, Zenon
  DEF StepFails, Stops, AppInfoFails, AlignFails, SaveFails, ExecutionFails, UpdateFails,
      CommitFails, FinalStateFails
<1>3. ASSUME NEW a \in Appliers, Receive(a) \/ Produce(a) \/ UpdateStateIndex(a)
      PROVE  loop' = loop
  BY <1>3, Zenon DEF Receive, Produce, ApplyBlock, UpdateStateIndex
<1>4. ASSUME LoopStep
      PROVE  loop' \in LoopPCs
  BY <1>4, Zenon
  DEF LoopStep, WaitForSync, CheckSynced, Signalled, ShouldProduceBlocks, LoopPCs
<1>5. ASSUME UpdateSyncParams \/ Restart \/ UNCHANGED vars
      PROVE  loop' \in {loop, "start"}
  BY <1>5, Zenon DEF UpdateSyncParams, Restart, vars
<1> QED
  BY <1>1, <1>2, <1>3, <1>4, <1>5, Zenon DEF Next, LoopPCs

\* The variables of applyBlock, the store and the application keep the types of
\* the Go declarations.
THEOREM TypeCorrect ==
  ASSUME Serial, AlignFailsOnlyAlone
  PROVE  Spec => []TypeOK
<1> DEFINE Typed == loop \in LoopPCs
<1>1. IInv /\ Typed => TypeOK
  BY Zenon DEF IInv, TypeOK
<1>2. Init => Typed
  BY Zenon DEF Init, LoopPCs
<1>3. Typed /\ [Next]_vars => Typed'
  BY LoopTyped, Zenon
<1>4. Spec => []IInv
  BY Invariance, Zenon
<1> HIDE DEF Typed
<1> QED
  BY <1>1, <1>2, <1>3, <1>4, PTL DEF Spec

\* NewManager calls InitChain exactly on an application that has committed nothing,
\* but for a crash around the commit of the first block, whatever the crashes.
THEOREM InitChainRule ==
  ASSUME Serial, AlignFailsOnlyAlone
  PROVE  Spec => []InitChainMatchesApp
<1>1. IInv => InitChainMatchesApp
  BY Zenon DEF IInv
<1> QED
  BY <1>1, Invariance, PTL

\* PruneBlocks never deletes a block the settlement layer has not accepted or
\* the last block.
THEOREM NeededBlocksStay ==
  ASSUME Serial, AlignFailsOnlyAlone
  PROVE  Spec => []NeededBlocksKept
<1>1. ASSUME IInv
      PROVE  NeededBlocksKept
  <2>1. height <= AppHeight
    BY <1>1, HeightNotAhead, Zenon
  <2>2. NumberTypes
    BY <1>1, Numbers, Zenon
  <2>3. BlocksKept
    BY <1>1, Zenon DEF IInv
  <2> QED
    BY <2>1, <2>2, <2>3, HeightsAreNat DEF NumberTypes, BlocksKept, NeededBlocksKept
<1> QED
  BY <1>1, Invariance, PTL

\* When no call fails between the execution of a block and its commit, each
\* commit covers one block executed once.
THEOREM ExecutesOnce ==
  ASSUME Serial, AlignFailsOnlyAlone, NoRetryInProcess
  PROVE  Spec => []ExecutedOnce
<1>1. IInv => ExecutedOnce
  BY Zenon DEF IInv, ExecMatchesBlock, ExecutedOnce
<1> QED
  BY <1>1, Invariance, PTL

\* Under the same condition LoadBlock returns, for an applied height, the block the
\* application executed there, although SaveBlock precedes validation.
THEOREM ServesWhatWasExecuted ==
  ASSUME Serial, AlignFailsOnlyAlone, NoRetryInProcess
  PROVE  Spec => []StoredBlockIsExecuted
<1>1. ASSUME IInv
      PROVE  StoredBlockIsExecuted
  <2>1. height <= AppHeight
    BY <1>1, HeightNotAhead, Zenon
  <2>2. NumberTypes
    BY <1>1, Numbers, Zenon
  <2>3. ExecMatchesBlock
    BY <1>1, Zenon DEF IInv
  <2>4. ASSUME NEW h \in Heights, h <= height
        PROVE  h <= AppHeight
    <3>1. h \in Nat /\ height \in Nat /\ AppHeight \in Nat
      BY <2>2, HeightsAreNat, Zenon DEF NumberTypes
    <3> QED
      BY <2>1, <2>4, <3>1
  <2> QED
    BY <2>3, <2>4, Zenon DEF ExecMatchesBlock, StoredBlockIsExecuted
<1> QED
  BY <1>1, Invariance, PTL

\* Every step is a commit of the ledger, an acknowledgement, or a stutter.
LEMMA StepRefines ==
  ASSUME Serial, AlignFailsOnlyAlone, NoRetryInProcess, IInv, [Next]_vars
  PROVE  [LedgerOfApp!Next]_<<appLog, kvState.LastStoreHeight>>
<1>0. NumberTypes
  BY Numbers, Zenon
<1>1. ASSUME NEW a \in Appliers, pc[a] = "commit", AppCommit, UNCHANGED kvState
      PROVE  LedgerOfApp!Commit
  <2>1. block[a].height = AppHeight + 1 /\ block[a].height = height + 1
        /\ height = kvState.LastStoreHeight /\ block[a].id \in Ids
    <3>1. /\ block[a].height = height + 1 /\ block[a].id \in Ids
          /\ height = kvState.LastStoreHeight
      BY <1>1, Active, Zenon
    <3> QED
      BY <1>1, <3>1, Zenon DEF IInv, KnowsAt
  <2>2. kvState.LastStoreHeight = Len(appLog)
    BY <1>0, <2>1 DEF NumberTypes, AppHeight
  <2>3. appExec = <<block[a].id>>
    BY <1>1, Zenon DEF IInv, ExecMatchesBlock
  <2> QED
    BY <1>1, <2>1, <2>2, <2>3, Zenon DEF AppCommit, LedgerOfApp!Commit
<1>2. ASSUME NEW a \in Appliers, FinalState(a)
      PROVE  LedgerOfApp!Acknowledge
  <2>1. pc[a] = "final"
    BY <1>2, Zenon DEF FinalState, Goto
  <2>2. /\ block[a].height = AppHeight /\ block[a].height = height + 1
        /\ height = kvState.LastStoreHeight /\ block[a].height \in Nat
        /\ newState[a] \in States
    <3>1. /\ block[a].height = height + 1 /\ block[a].height \in Nat
          /\ height = kvState.LastStoreHeight
      BY <2>1, Active, Zenon
    <3> QED
      BY <2>1, <3>1, Zenon DEF IInv, KnowsAt
  <2>3. base \in Nat
    BY Zenon DEF IInv, ApplyTypeOK
  <2>4. kvState'.LastStoreHeight = block[a].height /\ appLog' = appLog
    <3>1. kvState' = Stored(newState[a], block[a].height, base) /\ appLog' = appLog
      BY <1>2, Zenon DEF FinalState, app
    <3> QED
      BY <2>2, <2>3, <3>1, StoredFields, Zenon
  <2> QED
    BY <2>2, <2>4, Zenon DEF LedgerOfApp!Acknowledge, AppHeight
<1>3. ASSUME NEW a \in Appliers, AlignStoreWithApp(a)
      PROVE  LedgerOfApp!Acknowledge
  <2> DEFINE h == block[a].height
  <2>1. pc[a] = "align"
    BY <1>3, Zenon DEF AlignStoreWithApp, Return, Goto
  <2>2. h \in Heights /\ h \in Nat /\ h = height + 1 /\ height = kvState.LastStoreHeight
    BY <2>1, Active, Zenon
  <2>3. /\ h = AppHeight /\ kvResp[h] # None /\ appLog' = appLog
        /\ kvState' = WithResults(WithAppInfo(lastState, appLog, h), kvResp[h])
    BY <1>3, Zenon DEF AlignStoreWithApp
  <2>4. lastState \in States /\ appLog \in History /\ kvResp[h] \in History
    BY <2>2, <2>3, Zenon DEF IInv, ApplyTypeOK
  <2>5. kvState'.LastStoreHeight = h
    <3>1. /\ WithAppInfo(lastState, appLog, h) \in States
          /\ WithAppInfo(lastState, appLog, h).LastStoreHeight = h
      BY <2>2, <2>4, WithAppInfoFields
    <3>2. WithResults(WithAppInfo(lastState, appLog, h), kvResp[h]).LastStoreHeight = h
      BY <2>4, <3>1, WithResultsFields, Zenon
    <3> QED
      BY <2>3, <3>2, Zenon
  <2> QED
    BY <2>2, <2>3, <2>5, Zenon DEF LedgerOfApp!Acknowledge, AppHeight
<1>4. ASSUME NEW a \in Appliers, UpdateState(a)
      PROVE  UNCHANGED <<appLog, kvState.LastStoreHeight>>
  <2>1. pc[a] = "update"
    BY <1>4, Zenon DEF UpdateState, Goto
  <2>2. /\ block[a].height = AppHeight + 1 /\ block[a].height = height + 1
        /\ height = kvState.LastStoreHeight /\ block[a].height \in Nat
    <3>1. /\ block[a].height = height + 1 /\ block[a].height \in Nat
          /\ height = kvState.LastStoreHeight
      BY <2>1, Active, Zenon
    <3> QED
      BY <2>1, <3>1, Zenon DEF IInv, KnowsAt
  <2>3. lastState.LastStoreHeight = kvState.LastStoreHeight
    <3>1. kvState.LastStoreHeight = AppHeight
      BY <1>0, <2>2 DEF NumberTypes
    <3> QED
      BY <3>1, Zenon DEF IInv, StateMatchesLog
  <2>4. /\ kvState' = UpdateStateFromResponses(lastState, block[a].height)
        /\ appLog' = appLog
    BY <1>4, Zenon DEF UpdateState, app
  <2>5. lastState \in States
    BY Zenon DEF IInv, ApplyTypeOK
  <2>6. UpdateStateFromResponses(lastState, block[a].height).LastStoreHeight =
          lastState.LastStoreHeight
    BY <2>2, <2>5, UpdatedFields, Zenon
  <2> QED
    BY <2>3, <2>4, <2>6, Zenon
<1>5. ASSUME NEW a \in Appliers, PersistIndex(a)
      PROVE  UNCHANGED <<appLog, kvState.LastStoreHeight>>
  <2>1. pc[a] = "persistIndex"
    BY <1>5 DEF PersistIndex, Return, Goto
  <2>2. newState[a] = lastState /\ Receivers # {}
    BY SMTT(30), <2>1 DEF IInv, KnowsAt
  <2>3. lastState.LastStoreHeight = kvState.LastStoreHeight
    BY <1>0, <2>2, Zenon DEF NumberTypes, IInv, StateMatchesLog
  <2> QED
    BY <1>5, <2>2, <2>3, Zenon DEF PersistIndex, app
<1>6. ASSUME Restart
      PROVE  UNCHANGED <<appLog, kvState.LastStoreHeight>>
  <2>1. kvState \in States
    BY Zenon DEF IInv, ApplyTypeOK
  <2>2. InitChainState(kvState).LastStoreHeight = kvState.LastStoreHeight
    BY <2>1, Zenon DEF InitChainState, States
  <2> QED
    BY <1>6, <2>2, LoadsWhatWasStored, Zenon DEF Restart
<1>7. ASSUME NEW a \in Appliers, Step(a)
      PROVE  [LedgerOfApp!Next]_<<appLog, kvState.LastStoreHeight>>
  <2>1. ASSUME Commit(a) PROVE LedgerOfApp!Commit
    <3>1. pc[a] = "commit" /\ AppCommit /\ UNCHANGED kvState
      BY SMTT(30), <2>1 DEF Commit, Goto
    <3> QED
      BY <1>1, <3>1, Zenon
  <2>2. ASSUME \/ AlignNotRequired(a) \/ SaveBlock(a) \/ Execute(a)
               \/ ValidationFails(a) \/ PruneBlocks(a) \/ NothingPruned(a)
               \/ SetStoreHeight(a)
        PROVE  UNCHANGED <<appLog, kvState.LastStoreHeight>>
    BY <2>2, Zenon DEF AlignNotRequired, SaveBlock, Execute, ValidationFails, PruneBlocks,
                NothingPruned, SetStoreHeight, disk, app
  <2> QED
    BY <1>2, <1>3, <1>4, <1>5, <1>7, <2>1, <2>2, Zenon DEF Step, LedgerOfApp!Next
<1>8. ASSUME NEW a \in Appliers, StepFails(a)
      PROVE  [LedgerOfApp!Next]_<<appLog, kvState.LastStoreHeight>>
  <2>1. ASSUME CommitFails(a)
        PROVE  LedgerOfApp!Commit \/ UNCHANGED <<appLog, kvState.LastStoreHeight>>
    <3>1. /\ pc[a] = "commit" /\ UNCHANGED kvState
          /\ AppCommit \/ UNCHANGED appLog
      BY <2>1, Zenon DEF CommitFails, Return, Goto, app
    <3> QED
      BY <1>1, <3>1, Zenon
  <2>2. ASSUME \/ AppInfoFails(a) \/ AlignFails(a) \/ SaveFails(a)
               \/ ExecutionFails(a) \/ UpdateFails(a) \/ FinalStateFails(a)
        PROVE  UNCHANGED <<appLog, kvState.LastStoreHeight>>
    BY <2>2, Zenon DEF AppInfoFails, AlignFails, SaveFails, ExecutionFails, UpdateFails,
                FinalStateFails, disk
  <2> QED
    BY <1>8, <2>1, <2>2, Zenon DEF StepFails, LedgerOfApp!Next
<1>9. ASSUME \/ \E a \in Appliers : \/ Receive(a) \/ Produce(a)
                                    \/ UpdateStateIndex(a)
             \/ UpdateSyncParams \/ LoopOnly
             \/ UNCHANGED vars
      PROVE  UNCHANGED <<appLog, kvState.LastStoreHeight>>
  <2>1. UNCHANGED <<appLog, kvState>>
    BY <1>9, Zenon DEF Receive, Produce, ApplyBlock, UpdateStateIndex,
                       UpdateSyncParams, LoopOnly, vars, disk
  <2> QED
    BY <2>1, Zenon
<1> QED
  BY <1>6, <1>7, <1>8, <1>9, LoopStepIsLoopOnly, Zenon DEF Next

\* applyBlock with alignStoreWithApp and restarts implements the ledger: crashes
\* neither lose nor repeat a commit, nor its acknowledgement on disk.
THEOREM Refinement ==
  ASSUME Serial, AlignFailsOnlyAlone, NoRetryInProcess
  PROVE  Spec => ImplementsLedger
<1>1. Init => LedgerOfApp!Init
  BY DEF Init, NewFromGenesisDoc, LedgerOfApp!Init
<1>2. IInv /\ [Next]_vars => [LedgerOfApp!Next]_<<appLog, kvState.LastStoreHeight>>
  BY StepRefines, Zenon
<1> QED
  BY <1>1, <1>2, Invariance, PTL DEF Spec, ImplementsLedger, LedgerOfApp!Spec

-----------------------------------------------------------------------------
(* The aggregator, where only produceBlock applies blocks *)

\* A step that writes no block, commits nothing and takes up no block.
LEMMA PendingUntouched ==
  ASSUME PendingContinuesLog, UNCHANGED <<kvBlock, appLog>>,
         \A x \in Appliers : pc'[x] = "idle" \/ (pc[x] # "idle" /\ block'[x] = block[x])
  PROVE  PendingContinuesLog'
<1>1. AppHeight' = AppHeight
  BY Zenon DEF AppHeight
<1> QED
  BY <1>1, Zenon DEF PendingContinuesLog, Continues

\* A goroutine inside applyBlock moves on with the block it has, or returns.
LEMMA MovesOn ==
  ASSUME IInv, NEW a \in Appliers, NEW from \in PCs, NEW to \in PCs, from # "idle",
         \/ Goto(a, from, to) /\ UNCHANGED block
         \/ Return(a, from)
  PROVE  \A x \in Appliers : pc'[x] = "idle" \/ (pc[x] # "idle" /\ block'[x] = block[x])
<1>1. ApplyTypeOK
  BY Zenon DEF IInv
<1>2. pc[a] = from /\ \A x \in Appliers : x # a => pc'[x] = pc[x]
  BY <1>1, GotoEffect, ReturnEffect, Zenon
<1>3. \A x \in Appliers : x # a => pc[x] = "idle"
  BY <1>2, Active, Zenon
<1>4. CASE Goto(a, from, to) /\ UNCHANGED block
  BY <1>2, <1>3, <1>4, Zenon
<1>5. CASE Return(a, from)
  BY <1>1, <1>2, <1>3, <1>5, ReturnEffect, Zenon
<1> QED
  BY <1>4, <1>5, Zenon

LEMMA ProducePending ==
  ASSUME Receivers = {}, IInv, PendingContinuesLog, NEW a \in Appliers, Produce(a)
  PROVE  PendingContinuesLog'
<1>0. NumberTypes
  BY Numbers, Zenon
<1>1. ApplyTypeOK
  BY Zenon DEF IInv
<1>2. height + 1 \in Heights /\ height + 1 \in Nat
  BY <1>1, ConstantsAssumption DEF ApplyTypeOK, Produce, Heights, InitialHeight
<1>3. PICK b \in IF kvBlock[height + 1] # None
                 THEN {kvBlock[height + 1]}
                 ELSE CreateBlock(height + 1, lastState) : ApplyBlock(a, b)
  BY Zenon DEF Produce
<1>4. Goto(a, "idle", "align") /\ "idle" \in PCs /\ "align" \in PCs
  BY <1>3, Zenon DEF ApplyBlock, PCs
<1>5. pc[a] = "idle" /\ \A x \in Appliers : x # a => pc'[x] = pc[x]
  BY <1>1, <1>4, GotoEffect, Zenon
<1>6. \A x \in Appliers : pc[x] = "idle"
  BY Zenon DEF Produce, Appliers
<1>7. /\ b.height = height + 1
      /\ block' = [block EXCEPT ![a] = b]
      /\ UNCHANGED <<kvBlock, appLog>>
  BY <1>3, Zenon DEF ApplyBlock, disk
<1>8. block'[a] = b
  BY <1>1, <1>7, Zenon DEF ApplyTypeOK
<1>9. AppHeight' = AppHeight
  BY <1>7, Zenon DEF AppHeight
<1>10. ASSUME b.height = AppHeight + 1
       PROVE  Continues(b) /\ kvBlock[AppHeight + 1] \in {None, b}
  <2>1. height = AppHeight /\ height = kvState.LastStoreHeight
    BY <1>0, <1>6, <1>7, <1>10 DEF NumberTypes, IInv, StateMatchesLog
  <2>2. CASE kvBlock[height + 1] # None
    BY <1>2, <1>3, <2>1, <2>2, Zenon DEF PendingContinuesLog
  <2>3. CASE kvBlock[height + 1] = None
    <3>1. lastState.AppHash = appLog /\ lastState.LastResultsHash = appLog
      BY <2>1, Zenon DEF IInv, StateMatchesLog
    <3>2. b \in CreateBlock(height + 1, lastState)
      BY <1>3, <2>3, Zenon
    <3>3. b.AppHash = lastState.AppHash /\ b.LastResultsHash = lastState.LastResultsHash
      <4>1. PICK i \in Ids : b = [height |-> height + 1, id |-> i,
                                  AppHash |-> lastState.AppHash,
                                  LastResultsHash |-> lastState.LastResultsHash]
        BY <3>2, Zenon DEF CreateBlock
      <4> QED
        BY <4>1, Zenon
    <3> QED
      BY <1>10, <2>1, <2>3, <3>1, <3>3, Zenon DEF Continues
  <2> QED
    BY <2>2, <2>3, Zenon
<1>11. \A h \in Heights :
         kvBlock'[h] # None => h <= AppHeight' + 1 /\ (h = AppHeight' + 1 => Continues(kvBlock[h])')
  BY <1>7, <1>9, Zenon DEF PendingContinuesLog, Continues
<1>12. ASSUME NEW x \in Appliers, pc'[x] # "idle", block'[x].height = AppHeight' + 1
       PROVE  Continues(block[x])' /\ kvBlock'[AppHeight' + 1] \in {None, block'[x]}
  <2>1. x = a
    BY <1>5, <1>6, <1>12, Zenon
  <2> QED
    BY <1>7, <1>8, <1>9, <1>10, <1>12, <2>1, Zenon DEF Continues
<1> QED
  BY <1>11, <1>12, Zenon DEF PendingContinuesLog

LEMMA SavePending ==
  ASSUME IInv, PendingContinuesLog, NEW a \in Appliers, SaveBlock(a)
  PROVE  PendingContinuesLog'
<1> DEFINE b == block[a]
<1>0. NumberTypes
  BY Numbers, Zenon
<1>1. ApplyTypeOK
  BY Zenon DEF IInv
<1>2. Goto(a, "save", "execute") /\ "save" \in PCs /\ "execute" \in PCs
  BY Zenon DEF SaveBlock, PCs
<1>3. pc[a] = "save" /\ \A x \in Appliers : x # a => pc'[x] = pc[x]
  BY <1>1, <1>2, GotoEffect, Zenon
<1>4. b.height \in Heights /\ b.height \in Nat /\ \A x \in Appliers : x # a => pc[x] = "idle"
  BY <1>3, Active, Zenon
<1>5. b.height = AppHeight + 1
  <2>1. KnowsAt(a)
    BY Zenon DEF IInv
  <2> QED
    BY <1>3, <2>1, Zenon DEF KnowsAt
<1>6. kvBlock' = [kvBlock EXCEPT ![b.height] = b] /\ UNCHANGED <<appLog, block>>
  BY Zenon DEF SaveBlock, locals
<1>7. Continues(b) /\ AppHeight' = AppHeight
  BY <1>3, <1>5, <1>6, Zenon DEF PendingContinuesLog, AppHeight
<1>8. kvBlock'[b.height] = b /\ \A h \in Heights : h # b.height => kvBlock'[h] = kvBlock[h]
  BY <1>1, <1>4, <1>6, Zenon DEF ApplyTypeOK
<1> HIDE DEF b
<1>9. Continues(b)'
  <2>1. Continues(b)' <=> b'.height = AppHeight' + 1 /\ b'.AppHash = appLog'
                           /\ b'.LastResultsHash = appLog'
    BY Zenon DEF Continues
  <2> QED
    BY <1>6, <1>7, <2>1, Zenon DEF Continues, b
<1>10. ASSUME NEW h \in Heights, kvBlock'[h] # None
       PROVE  h <= AppHeight' + 1 /\ (h = AppHeight' + 1 => Continues(kvBlock[h])')
  <2>1. CASE h = b.height
    BY <1>0, <1>5, <1>6, <1>7, <1>8, <2>1 DEF Continues, NumberTypes
  <2>2. CASE h # b.height
    BY <1>5, <1>6, <1>7, <1>8, <1>10, <2>2, Zenon DEF PendingContinuesLog
  <2> QED
    BY <2>1, <2>2, Zenon
<1>11. ASSUME NEW x \in Appliers, pc'[x] # "idle", block'[x].height = AppHeight' + 1
       PROVE  Continues(block[x])' /\ kvBlock'[AppHeight' + 1] \in {None, block'[x]}
  <2>1. x = a
    BY <1>3, <1>4, <1>11, Zenon
  <2> QED
    BY <1>5, <1>6, <1>7, <1>8, <2>1, Zenon DEF Continues, b
<1> QED
  BY <1>10, <1>11, Zenon DEF PendingContinuesLog

LEMMA CommitPending ==
  ASSUME IInv, PendingContinuesLog, NEW a \in Appliers, pc[a] = "commit", AppCommit,
         UNCHANGED kvBlock,
         \A x \in Appliers : pc'[x] = "idle" \/ (pc[x] # "idle" /\ block'[x] = block[x])
  PROVE  PendingContinuesLog'
<1>0. NumberTypes
  BY Numbers, Zenon
<1>1. AppHeight' = AppHeight + 1
  BY LogGrows, Zenon DEF IInv, ApplyTypeOK, AppCommit, AppHeight
<1>2. block[a].height = AppHeight + 1
  <2>1. KnowsAt(a)
    BY Zenon DEF IInv
  <2> QED
    BY <2>1, Zenon DEF KnowsAt
<1>3. ASSUME NEW h \in Heights, kvBlock'[h] # None
      PROVE  h <= AppHeight' + 1 /\ (h = AppHeight' + 1 => Continues(kvBlock[h])')
  <2>1. h <= AppHeight + 1 /\ h \in Nat /\ AppHeight \in Nat
    BY <1>0, <1>3, HeightsAreNat, Zenon DEF NumberTypes, PendingContinuesLog
  <2>2. h <= AppHeight' + 1 /\ h # AppHeight' + 1
    BY <1>1, <2>1
  <2> QED
    BY <2>2, Zenon
<1>4. ASSUME NEW x \in Appliers, pc'[x] # "idle"
      PROVE  block'[x].height # AppHeight' + 1
  <2>1. x = a
    BY <1>4, Active, Zenon
  <2> QED
    BY <1>0, <1>1, <1>2, <1>4, <2>1 DEF NumberTypes
<1> QED
  BY <1>3, <1>4, Zenon DEF PendingContinuesLog

LEMMA PrunePending ==
  ASSUME IInv, PendingContinuesLog, NEW a \in Appliers, PruneBlocks(a)
  PROVE  PendingContinuesLog'
<1>1. Goto(a, "prune", "final") /\ UNCHANGED <<appLog, block>> /\ "prune" \in PCs
      /\ "final" \in PCs
  BY Zenon DEF PruneBlocks, app, locals, PCs
<1>2. \A x \in Appliers : pc'[x] = "idle" \/ (pc[x] # "idle" /\ block'[x] = block[x])
  BY <1>1, MovesOn, Zenon
<1>3. \A h \in Heights : kvBlock'[h] \in {None, kvBlock[h]}
  BY Zenon DEF PruneBlocks
<1>4. AppHeight' = AppHeight
  BY <1>1, Zenon DEF AppHeight
<1>5. ASSUME NEW h \in Heights, kvBlock'[h] # None
      PROVE  h <= AppHeight' + 1 /\ (h = AppHeight' + 1 => Continues(kvBlock[h])')
  BY <1>1, <1>3, <1>4, <1>5, Zenon DEF PendingContinuesLog, Continues
<1>6. ASSUME NEW x \in Appliers, pc'[x] # "idle", block'[x].height = AppHeight' + 1
      PROVE  Continues(block[x])' /\ kvBlock'[AppHeight' + 1] \in {None, block'[x]}
  <2>1. pc[x] # "idle" /\ block'[x] = block[x]
    BY <1>2, <1>6, Zenon
  <2>2. block[x].height \in Heights
    <3>1. pc[x] = "prune"
      BY <1>1, <1>6, <2>1, Active, GotoEffect DEF IInv
    <3> QED
      BY <3>1, Active, Zenon
  <2>3. Continues(block[x]) /\ kvBlock[AppHeight + 1] \in {None, block[x]}
    BY <1>4, <1>6, <2>1, Zenon DEF PendingContinuesLog
  <2>4. AppHeight + 1 \in Heights
    BY <1>4, <1>6, <2>1, <2>2, Zenon
  <2> QED
    BY <1>1, <1>3, <1>4, <2>1, <2>3, <2>4, Zenon DEF Continues
<1> QED
  BY <1>5, <1>6 DEF PendingContinuesLog

LEMMA NextPending ==
  ASSUME Receivers = {}, IInv, PendingContinuesLog, [Next]_vars
  PROVE  PendingContinuesLog'
<1> DEFINE Same == \A x \in Appliers :
                     pc'[x] = "idle" \/ (pc[x] # "idle" /\ block'[x] = block[x])
<1>1. ASSUME NEW a \in Appliers, Step(a)
      PROVE  PendingContinuesLog'
  <2> USE DEF PCs, locals
  <2>1. CASE AlignNotRequired(a)
    <3>1. Goto(a, "align", "save") /\ UNCHANGED block /\ UNCHANGED <<kvBlock, appLog>>
      BY <2>1, Zenon DEF AlignNotRequired, disk
    <3>2. Same
      BY <3>1, MovesOn, Zenon
    <3> QED
      BY <3>1, <3>2, PendingUntouched, Zenon
  <2>2. CASE AlignStoreWithApp(a)
    <3>1. Return(a, "align") /\ UNCHANGED <<kvBlock, appLog>>
      BY <2>2, Zenon DEF AlignStoreWithApp
    <3>2. Same
      BY <3>1, MovesOn, Zenon
    <3> QED
      BY <3>1, <3>2, PendingUntouched, Zenon
  <2>3. CASE Execute(a)
    <3>1. Goto(a, "execute", "update") /\ UNCHANGED block /\ UNCHANGED <<kvBlock, appLog>>
      BY <2>3, Zenon DEF Execute, disk
    <3>2. Same
      BY <3>1, MovesOn, Zenon
    <3> QED
      BY <3>1, <3>2, PendingUntouched, Zenon
  <2>4. CASE ValidationFails(a)
    <3>1. Return(a, "execute") /\ UNCHANGED <<kvBlock, appLog>>
      BY <2>4, Zenon DEF ValidationFails, disk
    <3>2. Same
      BY <3>1, MovesOn, Zenon
    <3> QED
      BY <3>1, <3>2, PendingUntouched, Zenon
  <2>5. CASE UpdateState(a)
    <3>1. Goto(a, "update", "commit") /\ UNCHANGED block /\ UNCHANGED <<kvBlock, appLog>>
      BY <2>5, Zenon DEF UpdateState, app
    <3>2. Same
      BY <3>1, MovesOn, Zenon
    <3> QED
      BY <3>1, <3>2, PendingUntouched, Zenon
  <2>6. CASE Commit(a)
    <3>1. Goto(a, "commit", "prune") /\ UNCHANGED block /\ AppCommit /\ UNCHANGED kvBlock
      BY <2>6, Zenon DEF Commit
    <3>2. Same /\ pc[a] = "commit"
      BY <3>1, MovesOn, Zenon DEF Goto
    <3> QED
      BY <3>1, <3>2, CommitPending, Zenon
  <2>7. CASE NothingPruned(a)
    <3>1. Goto(a, "prune", "final") /\ UNCHANGED block /\ UNCHANGED <<kvBlock, appLog>>
      BY <2>7, Zenon DEF NothingPruned, disk
    <3>2. Same
      BY <3>1, MovesOn, Zenon
    <3> QED
      BY <3>1, <3>2, PendingUntouched, Zenon
  <2>8. CASE FinalState(a)
    <3>1. Goto(a, "final", "setHeight") /\ UNCHANGED block /\ UNCHANGED <<kvBlock, appLog>>
      BY <2>8, Zenon DEF FinalState, app
    <3>2. Same
      BY <3>1, MovesOn, Zenon
    <3> QED
      BY <3>1, <3>2, PendingUntouched, Zenon
  <2>9. CASE SetStoreHeight(a)
    <3>1. Return(a, "setHeight") /\ UNCHANGED <<kvBlock, appLog>>
      BY <2>9, Zenon DEF SetStoreHeight, disk
    <3>2. Same
      BY <3>1, MovesOn, Zenon
    <3> QED
      BY <3>1, <3>2, PendingUntouched, Zenon
  <2>10. CASE PersistIndex(a)
    <3>1. Return(a, "persistIndex") /\ UNCHANGED <<kvBlock, appLog>>
      BY <2>10, Zenon DEF PersistIndex, app
    <3>2. Same
      BY <3>1, MovesOn, Zenon
    <3> QED
      BY <3>1, <3>2, PendingUntouched, Zenon
  <2> QED
    BY <1>1, <2>1, <2>2, <2>3, <2>4, <2>5, <2>6, <2>7, <2>8, <2>9, <2>10,
       SavePending, PrunePending, Zenon
    DEF Step
<1>2. ASSUME NEW a \in Appliers, StepFails(a)
      PROVE  PendingContinuesLog'
  <2>1. ASSUME CommitFails(a), AppCommit
        PROVE  PendingContinuesLog'
    <3>1. Return(a, "commit") /\ UNCHANGED kvBlock /\ "commit" \in PCs
      BY <2>1, Zenon DEF CommitFails, PCs
    <3>2. Same /\ pc[a] = "commit"
      BY <3>1, MovesOn, Zenon DEF Return, Goto
    <3> QED
      BY <2>1, <3>1, <3>2, CommitPending, Zenon
  <2>2. ASSUME ~(CommitFails(a) /\ AppCommit)
        PROVE  PendingContinuesLog'
    <3>1. PICK from \in PCs \ {"idle"} : Return(a, from)
      BY <1>2, Zenon DEF StepFails, AppInfoFails, AlignFails, SaveFails, ExecutionFails,
                  UpdateFails, CommitFails, FinalStateFails, PCs
    <3>2. UNCHANGED <<kvBlock, appLog>>
      BY <1>2, <2>2, Zenon
      DEF StepFails, AppInfoFails, AlignFails, SaveFails, ExecutionFails, UpdateFails,
          CommitFails, FinalStateFails, disk, app
    <3>3. Same
      BY <3>1, MovesOn, Zenon
    <3> QED
      BY <3>2, <3>3, PendingUntouched, Zenon
  <2> QED
    BY <2>1, <2>2, Zenon
<1>3. CASE UpdateSyncParams
  BY <1>3, PendingUntouched, Zenon DEF UpdateSyncParams, disk, locals
<1>4. CASE Restart
  BY <1>4, PendingUntouched, Zenon DEF Restart
<1>5. CASE UNCHANGED vars
  BY <1>5, PendingUntouched, Zenon DEF vars, disk, locals
<1>6. CASE LoopOnly
  BY <1>6, PendingUntouched, Zenon DEF LoopOnly, disk, locals
<1> QED
  BY <1>1, <1>2, <1>3, <1>4, <1>5, <1>6, ProducePending, LoopStepIsLoopOnly, Zenon
  DEF Next, Receive, UpdateStateIndex

\* The invariant of an aggregator: it is serial whatever its number of producers,
\* because produceBlock holds its mutex until applyBlock returns.
LEMMA AggregatorInvariance ==
  ASSUME Receivers = {}
  PROVE  Spec => [](IInv /\ PendingContinuesLog)
<1>1. Serial /\ AlignFailsOnlyAlone
  BY Zenon DEF Serial, AlignFailsOnlyAlone
<1>2. Init => PendingContinuesLog
  BY DEF Init, PendingContinuesLog
<1>3. IInv /\ PendingContinuesLog /\ [Next]_vars => PendingContinuesLog'
  BY NextPending, Zenon
<1>4. Spec => []IInv
  BY <1>1, Invariance, Zenon
<1> QED
  BY <1>2, <1>3, <1>4, PTL DEF Spec

\* Every block an aggregator hands to the application passes Validate, the pending
\* block that produceBlock finds in the store after a crash or a failed call included.
THEOREM ProducedBlocksAreValid ==
  ASSUME Receivers = {}
  PROVE  Spec => []ProducedBlockIsValid
<1>1. ASSUME IInv, PendingContinuesLog, NEW a \in Producers, pc[a] = "execute"
      PROVE  Validate(lastState, block[a])
  <2>0. NumberTypes
    BY <1>1, Numbers, Zenon
  <2>1. a \in Appliers
    BY Zenon DEF Appliers
  <2>2. block[a].height = height + 1 /\ height = kvState.LastStoreHeight
    BY <1>1, <2>1, Active, Zenon
  <2>3. block[a].height = AppHeight + 1
    <3>1. KnowsAt(a)
      BY <1>1, <2>1, Zenon DEF IInv
    <3> QED
      BY <1>1, <3>1, Zenon DEF KnowsAt
  <2>4. Continues(block[a])
    BY <1>1, <2>1, <2>3, Zenon DEF PendingContinuesLog
  <2>5. /\ lastState.LastStoreHeight = AppHeight
        /\ lastState.AppHash = appLog
        /\ lastState.LastResultsHash = appLog
        /\ lastState.LastBlockHeight \in {AppHeight, AppHeight + 1}
    <3>1. kvState.LastStoreHeight = AppHeight
      BY <2>0, <2>2, <2>3 DEF NumberTypes
    <3> QED
      BY <1>1, <3>1, Zenon DEF IInv, StateMatchesLog
  <2> QED
    BY <2>0, <2>4, <2>5 DEF NumberTypes, Continues, Validate, InitialHeight
<1>2. IInv /\ PendingContinuesLog => ProducedBlockIsValid
  BY <1>1, Zenon DEF ProducedBlockIsValid
<1> QED
  BY <1>2, AggregatorInvariance, PTL

\* An aggregator never replaces a block it stored, and never fills a height it pruned,
\* whatever crashes and failed calls make produceBlock start again.
THEOREM StoredBlocksAreFinal ==
  ASSUME Receivers = {}
  PROVE  Spec => StoredBlockIsFinal
<1> DEFINE Final == \A h \in Heights :
                      /\ kvBlock[h] # None => kvBlock'[h] \in {kvBlock[h], None}
                      /\ kvBlock[h] = None /\ h <= height => kvBlock'[h] = None
<1>1. ASSUME IInv, PendingContinuesLog, [Next]_vars
      PROVE  Final
  <2>1. ASSUME NEW a \in Appliers, SaveBlock(a)
        PROVE  Final
    <3>1. pc[a] = "save"
      BY <2>1, Zenon DEF SaveBlock, Goto
    <3>2. /\ block[a].height \in Heights /\ block[a].height \in Nat /\ height \in Nat
          /\ block[a].height = height + 1
      BY <1>1, <3>1, Active DEF IInv, ApplyTypeOK
    <3>3. block[a].height = AppHeight + 1
      <4>1. KnowsAt(a)
        BY <1>1, Zenon DEF IInv
      <4> QED
        BY <3>1, <4>1, Zenon DEF KnowsAt
    <3>4. kvBlock[block[a].height] \in {None, block[a]}
      BY <1>1, <3>1, <3>3, Zenon DEF PendingContinuesLog
    <3>5. kvBlock' = [kvBlock EXCEPT ![block[a].height] = block[a]]
          /\ kvBlock \in [Heights -> Blocks \cup {None}]
      BY <1>1, <2>1, Zenon DEF SaveBlock, IInv, ApplyTypeOK
    <3> QED
      BY <3>2, <3>4, <3>5, HeightsAreNat
  <2>2. ASSUME NEW a \in Appliers, PruneBlocks(a)
        PROVE  Final
    BY <2>2, Zenon DEF PruneBlocks
  <2>3. ASSUME ~ \E a \in Appliers : SaveBlock(a) \/ PruneBlocks(a)
        PROVE  UNCHANGED kvBlock
    <3>1. ASSUME NEW a \in Appliers, Step(a) \/ StepFails(a)
          PROVE  UNCHANGED kvBlock
      BY <2>3, <3>1, Zenon
      DEF Step, StepFails, AlignNotRequired, AlignStoreWithApp, Execute,
         ValidationFails, UpdateState, Commit, NothingPruned, FinalState, SetStoreHeight,
         PersistIndex, AppInfoFails, AlignFails, SaveFails, ExecutionFails, UpdateFails,
         CommitFails, FinalStateFails, disk
    <3>2. ASSUME NEW a \in Appliers, Receive(a) \/ Produce(a) \/ UpdateStateIndex(a)
          PROVE  UNCHANGED kvBlock
      BY <3>2, Zenon DEF Receive, Produce, ApplyBlock, UpdateStateIndex, disk
    <3>3. ASSUME UpdateSyncParams \/ LoopOnly \/ Restart \/ UNCHANGED vars
          PROVE  UNCHANGED kvBlock
      BY <3>3, Zenon DEF UpdateSyncParams, LoopOnly, Restart, vars, disk
    <3> QED
      BY <1>1, <3>1, <3>2, <3>3, LoopStepIsLoopOnly, Zenon DEF Next
  <2> QED
    BY <2>1, <2>2, <2>3, Zenon
<1>2. IInv /\ PendingContinuesLog /\ [Next]_vars => [Final]_vars
  BY <1>1, Zenon
<1> QED
  BY <1>2, AggregatorInvariance, PTL DEF Spec, StoredBlockIsFinal
=============================================================================
