---------------------------- MODULE CoalescedSave ----------------------------
(***************************************************************************)
(* save() of the server's stores. At most one write of the file runs; a    *)
(* save requested meanwhile is noted in pendingSave and done afterwards.   *)
(* Two styles of it exist:                                                 *)
(*   "note"   SessionMetadataService and nine more: the caller returns at  *)
(*            once when a write runs; a write that fails leaves the        *)
(*            rejected savePromise in place                                *)
(*   "loop"   NotificationService: the caller waits for the running loop;  *)
(*            savePromise is cleared whatever happens                      *)
(* States of the store are numbered; a change is always followed by save() *)
(* in the same step of the event loop. The process may crash.              *)
(***************************************************************************)
EXTENDS Naturals

CONSTANTS Styles,        \* the styles considered
          MaxVersions,   \* bound on the changes
          MaxFailures,   \* bound on the writes that fail
          MaxCrashes     \* bound on the crashes

ASSUME SaveAssumption ==
    /\ Styles \subseteq {"note", "loop"}
    /\ {MaxVersions, MaxFailures, MaxCrashes} \subseteq Nat

VARIABLES style,
          state,         \* the version in memory
          file,          \* the version written last
          torn,          \* the file is truncated by a write
          content,       \* the version being written, or 0
          savePromise,   \* "null", "pending" or "rejected"
          pendingSave,
          saved,         \* the newest version whose save() returned without error
          lost,          \* a write failed and the next one is not under way
          changed,       \* there was a change since the last failed write
          failures, crashes

vars == <<style, state, file, torn, content, savePromise, pendingSave, saved,
          lost, changed, failures, crashes>>

TypeOK ==
    /\ style \in Styles
    /\ {state, file, content, saved} \subseteq 0..MaxVersions
    /\ {torn, pendingSave, lost, changed} \subseteq BOOLEAN
    /\ savePromise \in {"null", "pending", "rejected"}
    /\ content # 0 <=> savePromise = "pending"
    /\ failures \in 0..MaxFailures /\ crashes \in 0..MaxCrashes

Init ==
    /\ style \in Styles
    /\ state = 0 /\ file = 0 /\ content = 0 /\ saved = 0
    /\ torn = FALSE /\ pendingSave = FALSE
    /\ lost = FALSE /\ changed = FALSE
    /\ savePromise = "null"
    /\ failures = 0 /\ crashes = 0

-----------------------------------------------------------------------------
(* Mutant: the caller of the loop returns at once, as in the other style *)
NoteSaveReturns ==
    /\ savePromise # "null"
    /\ pendingSave' = TRUE
    /\ saved' = state'
    /\ lost' = (savePromise = "rejected")
    /\ UNCHANGED <<content, savePromise>>

(* save() while a save is known to be going on: noted for later. Only the  *)
(* loop makes its caller wait.                                             *)
NoteSave ==
    /\ savePromise # "null"
    /\ pendingSave' = TRUE
    /\ saved' = IF style = "loop" THEN saved ELSE state'
    /\ lost' = (savePromise = "rejected")
    /\ UNCHANGED <<content, savePromise>>

(* save() otherwise: the state is serialised and the write begins *)
StartSave ==
    /\ savePromise = "null"
    /\ content' = state'
    /\ savePromise' = "pending"
    /\ pendingSave' = (pendingSave /\ style # "loop")
    /\ lost' = FALSE
    /\ UNCHANGED saved

(* A method of the store changes the state and saves *)
Update ==
    /\ state < MaxVersions
    /\ state' = state + 1
    /\ changed' = TRUE
    /\ NoteSave \/ StartSave
    /\ UNCHANGED <<style, file, torn, failures, crashes>>

(* writeFile opens the file, which truncates it *)
Truncate ==
    /\ savePromise = "pending"
    /\ ~torn
    /\ torn' = TRUE
    /\ UNCHANGED <<style, state, file, content, savePromise, pendingSave,
                   saved, lost, changed, failures, crashes>>

(* Mutant: the save noted meanwhile is forgotten *)
WrittenForgets ==
    /\ savePromise = "pending"
    /\ file' = content
    /\ torn' = FALSE
    /\ content' = 0
    /\ savePromise' = "null"
    /\ pendingSave' = FALSE
    /\ saved' = IF saved > content THEN saved ELSE content
    /\ UNCHANGED <<style, state, lost, changed, failures, crashes>>

(* the write is complete; a save noted meanwhile begins the next *)
Written ==
    /\ savePromise = "pending"
    /\ file' = content
    /\ torn' = FALSE
    /\ IF pendingSave
         THEN /\ content' = state
              /\ pendingSave' = FALSE
              /\ saved' = IF style = "loop" \/ saved > content THEN saved ELSE content
              /\ UNCHANGED savePromise
         ELSE /\ content' = 0
              /\ savePromise' = "null"
              /\ saved' = IF saved > content THEN saved ELSE content
              /\ UNCHANGED pendingSave
    /\ UNCHANGED <<style, state, lost, changed, failures, crashes>>

(* Mutant: a write that fails leaves a promise that never settles *)
WriteFailsPending ==
    /\ savePromise = "pending"
    /\ failures < MaxFailures
    /\ failures' = failures + 1
    /\ content' = 0
    /\ lost' = TRUE
    /\ changed' = FALSE
    /\ UNCHANGED <<style, state, file, torn, savePromise, pendingSave, saved, crashes>>

(* the write fails: its callers' save() throws *)
WriteFails ==
    /\ savePromise = "pending"
    /\ failures < MaxFailures
    /\ failures' = failures + 1
    /\ content' = 0
    /\ savePromise' = IF style = "note" THEN "rejected" ELSE "null"
    /\ lost' = TRUE
    /\ changed' = FALSE
    /\ UNCHANGED <<style, state, file, torn, pendingSave, saved, crashes>>

(* The process dies and starts again with what the file holds *)
Crash ==
    /\ crashes < MaxCrashes
    /\ crashes' = crashes + 1
    /\ state' = IF torn THEN 0 ELSE file
    /\ file' = state'
    /\ saved' = IF saved < state' THEN saved ELSE state'
    /\ torn' = FALSE /\ content' = 0
    /\ savePromise' = "null" /\ pendingSave' = FALSE
    /\ lost' = FALSE /\ changed' = FALSE
    /\ UNCHANGED <<style, failures>>

Next == Update \/ Truncate \/ Written \/ WriteFails \/ Crash

(* a write that runs ends *)
Spec == Init /\ [][Next]_vars /\ WF_vars(Written)

-----------------------------------------------------------------------------
(* The stores keep the promise of WriteBehind: the file never goes back to *)
(* an older state, a crash loses only what was not written or an open      *)
(* write, and without a failed write the file catches up.                  *)
Behind == INSTANCE WriteBehind
            WITH Versions <- 0..MaxVersions, value <- state, last <- file

StoresBehind == Behind!Spec

(* A save() of NotificationService that returns has its change in the file *)
(* until a later write opens it.                                           *)
SavedIsInFile == style = "loop" /\ ~torn => saved <= file

(* A change made after a failed write is written. (It is not in the "note" *)
(* style, where save() keeps noting.)                                      *)
NextSaveCatchesUp == []<>((file = state /\ ~torn) \/ ~changed)

=============================================================================
