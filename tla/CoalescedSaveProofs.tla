-------------------------- MODULE CoalescedSaveProofs --------------------------
(***************************************************************************)
(* For any number of changes, failures and crashes: the safety part of the *)
(* refinement of WriteBehind, and what a returned save() of the loop means.*)
(* It rests on the order of the versions: the file's is no newer than the  *)
(* one being written, which is no newer than the one in memory; that and   *)
(* savePromise say when a failed write is still unanswered.                *)
(***************************************************************************)
EXTENDS CoalescedSave, TLAPS

FlagsOK ==
    /\ torn \in BOOLEAN
    /\ pendingSave \in BOOLEAN
    /\ lost \in BOOLEAN
    /\ changed \in BOOLEAN

DataOK ==
    /\ style \in Styles
    /\ state \in 0..MaxVersions
    /\ file \in 0..MaxVersions
    /\ content \in 0..MaxVersions
    /\ saved \in 0..MaxVersions
    /\ savePromise \in {"null", "pending", "rejected"}
    /\ content # 0 <=> savePromise = "pending"
    /\ failures \in 0..MaxFailures
    /\ crashes \in 0..MaxCrashes

\* Versions reach the file in the order they arose.
InOrder ==
    /\ file <= state
    /\ content # 0 => file <= content /\ content <= state

\* A loop's save() returns only with its version in the file.
LoopSaved == style = "loop" => saved <= file

\* Only a failed write leaves a rejected promise.
RejectedIsLost == savePromise = "rejected" => lost = TRUE

SaveInv == FlagsOK /\ DataOK /\ InOrder /\ LoopSaved /\ RejectedIsLost

LEMMA InitSave == Init => SaveInv
<1> SUFFICES ASSUME Init PROVE SaveInv
  OBVIOUS
<1>1. FlagsOK
  BY Zenon DEF Init, FlagsOK
<1>2. DataOK /\ InOrder /\ LoopSaved /\ RejectedIsLost
  BY SaveAssumption DEF Init, DataOK, InOrder, LoopSaved, RejectedIsLost
<1> QED
  BY <1>1, <1>2 DEF SaveInv

\* Each step keeps the invariant; the flags are assigned apart from the numbers.
LEMMA StepSave == SaveInv /\ [Next]_vars => SaveInv'
<1> SUFFICES ASSUME SaveInv, [Next]_vars PROVE SaveInv'
  OBVIOUS
<1> USE SaveAssumption DEF SaveInv
<1>1. FlagsOK'
  <2>1. CASE Update
    <3>1. NoteSave \/ StartSave
      BY <2>1 DEF Update
    <3>2. torn' = torn /\ changed' = TRUE
      BY <2>1 DEF Update
    <3>3. CASE NoteSave
      BY <3>2, <3>3, Zenon DEF FlagsOK, NoteSave
    <3>4. CASE StartSave
      BY <3>2, <3>4, Zenon DEF FlagsOK, StartSave
    <3> QED
      BY <3>1, <3>3, <3>4
  <2>2. CASE Truncate
    BY <2>2, Zenon DEF FlagsOK, Truncate
  <2>3. CASE Written
    BY <2>3, Zenon DEF FlagsOK, Written
  <2>4. CASE WriteFails
    BY <2>4, Zenon DEF FlagsOK, WriteFails
  <2>5. CASE Crash
    BY <2>5, Zenon DEF FlagsOK, Crash
  <2>6. CASE UNCHANGED vars
    BY <2>6, Zenon DEF FlagsOK, vars
  <2> QED
    BY <2>1, <2>2, <2>3, <2>4, <2>5, <2>6 DEF Next
<1>2. (DataOK /\ InOrder /\ LoopSaved /\ RejectedIsLost)'
  <2> USE DEF DataOK, InOrder, LoopSaved, RejectedIsLost
  <2>1. CASE Update
    <3>1. NoteSave \/ StartSave
      BY <2>1 DEF Update
    <3>2. CASE NoteSave
      <4>1. DataOK' /\ InOrder' /\ LoopSaved'
        BY <2>1, <3>2 DEF Update, NoteSave
      <4>2. savePromise' = savePromise /\ lost' = (savePromise = "rejected")
        BY <3>2 DEF NoteSave
      <4>3. RejectedIsLost'
        BY <4>2, Zenon
      <4> QED
        BY <4>1, <4>3
    <3>3. CASE StartSave
      BY <2>1, <3>3 DEF Update, StartSave
    <3> QED
      BY <3>1, <3>2, <3>3
  <2>2. CASE Truncate
    BY <2>2 DEF Truncate
  <2>3. CASE Written
    BY <2>3 DEF Written
  <2>4. CASE WriteFails
    BY <2>4 DEF WriteFails
  <2>5. CASE Crash
    BY <2>5 DEF Crash
  <2>6. CASE UNCHANGED vars
    BY <2>6 DEF vars
  <2> QED
    BY <2>1, <2>2, <2>3, <2>4, <2>5, <2>6 DEF Next
<1> QED
  BY <1>1, <1>2

\* The invariant holds throughout, whatever fails or crashes.
THEOREM SaveInductive == Spec => []SaveInv
BY InitSave, StepSave, PTL DEF Spec

\* Type correctness of the store: a version is being written exactly while the
\* save's promise is pending.
THEOREM SaveTypeOK == Spec => []TypeOK
<1>1. SaveInv => TypeOK
  BY Zenon DEF SaveInv, FlagsOK, DataOK, TypeOK
<1> QED
  BY <1>1, SaveInductive, PTL

\* A save() of the loop that returned has its change in the file until a later
\* write opens the file.
THEOREM LoopSavedIsInFile == Spec => []SavedIsInFile
<1>1. SaveInv => SavedIsInFile
  BY DEF SaveInv, LoopSaved, SavedIsInFile
<1> QED
  BY <1>1, SaveInductive, PTL

--------------------------------------------------------------------------------
LEMMA InitBehind == Init => Behind!Init
BY DEF Init, Behind!Init

\* Each step of the store is a step of WriteBehind, or leaves it alone.
LEMMA StepBehind == SaveInv /\ [Next]_vars => [Behind!Next]_(Behind!vars)
<1> SUFFICES ASSUME SaveInv, [Next]_vars PROVE [Behind!Next]_(Behind!vars)
  OBVIOUS
<1> USE SaveAssumption DEF SaveInv, DataOK
<1>1. CASE Update
  <2>1. state + 1 \in 0..MaxVersions /\ state' = state + 1
    BY <1>1 DEF Update
  <2>2. file' = file /\ torn' = torn
    BY <1>1 DEF Update
  <2>3. lost' \in {lost, FALSE}
    <3>1. NoteSave \/ StartSave
      BY <1>1 DEF Update
    <3>2. CASE StartSave
      BY <3>2, Zenon DEF StartSave
    <3>3. CASE NoteSave /\ savePromise = "rejected"
      <4>1. lost = TRUE /\ lost' = TRUE
        BY <3>3 DEF NoteSave, RejectedIsLost
      <4> QED
        BY <4>1
    <3>4. CASE NoteSave /\ savePromise # "rejected"
      BY <3>4 DEF NoteSave
    <3> QED
      BY <3>1, <3>2, <3>3, <3>4
  <2>4. Behind!Change
    BY <2>1, <2>2, <2>3, Zenon DEF Behind!Change
  <2> QED
    BY <2>4 DEF Behind!Next
<1>2. CASE Truncate
  <2>1. Behind!Tear
    BY <1>2, Zenon DEF Truncate, Behind!Tear
  <2> QED
    BY <2>1 DEF Behind!Next
<1>3. CASE Written
  <2>1. file' \in file..state
    BY <1>3 DEF Written, InOrder
  <2>2. torn' = FALSE /\ state' = state /\ lost' = lost
    BY <1>3 DEF Written
  <2>3. Behind!Flush
    BY <2>1, <2>2, Zenon DEF Behind!Flush
  <2> QED
    BY <2>3 DEF Behind!Next
<1>4. CASE WriteFails
  <2>1. Behind!Lose
    BY <1>4, Zenon DEF WriteFails, Behind!Lose
  <2> QED
    BY <2>1 DEF Behind!Next
<1>5. CASE Crash
  <2>1. Behind!Restart
    BY <1>5, Zenon DEF Crash, Behind!Restart
  <2> QED
    BY <2>1 DEF Behind!Next
<1>6. CASE UNCHANGED vars
  BY <1>6 DEF vars, Behind!vars
<1> QED
  BY <1>1, <1>2, <1>3, <1>4, <1>5, <1>6 DEF Next

\* The stores implement the safety of WriteBehind: the file never goes back to
\* an older state, and a restart loses only what was not written completely.
THEOREM StoresBehindSafely == Spec => Behind!Init /\ [][Behind!Next]_(Behind!vars)
BY InitBehind, StepBehind, SaveInductive, PTL DEF Spec

================================================================================
