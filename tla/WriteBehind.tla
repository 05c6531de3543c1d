----------------------------- MODULE WriteBehind -----------------------------
(***************************************************************************)
(* What the stores that keep their state in memory and save it to a JSON   *)
(* file promise. States of the store are numbered in the order they arise; *)
(* 0 is the empty store.                                                   *)
(***************************************************************************)
EXTENDS Naturals

CONSTANT Versions   \* 0..n

VARIABLES value,   \* the state in memory
          last,    \* the last state written completely
          torn,    \* a write has begun since: the file cannot be read
          lost     \* a write failed: nothing promises that value is written

vars == <<value, last, torn, lost>>

TypeOK ==
    /\ {value, last} \subseteq Versions
    /\ {torn, lost} \subseteq BOOLEAN

Init == value = 0 /\ last = 0 /\ torn = FALSE /\ lost = FALSE

Change ==
    /\ value + 1 \in Versions
    /\ value' = value + 1
    /\ lost' \in {lost, FALSE}
    /\ UNCHANGED <<last, torn>>

Tear == torn' = TRUE /\ UNCHANGED <<value, last, lost>>

(* what is written is never older than what was written before *)
Flush ==
    /\ last' \in last..value
    /\ torn' = FALSE
    /\ UNCHANGED <<value, lost>>

Lose == lost' = TRUE /\ UNCHANGED <<value, last, torn>>

(* a restart finds what was written last, or an empty store *)
Restart ==
    /\ value' = IF torn THEN 0 ELSE last
    /\ last' = value'
    /\ torn' = FALSE /\ lost' = FALSE

Next == Change \/ Tear \/ Flush \/ Lose \/ Restart

Stored == last = value /\ ~torn

(* Unless a write failed, what is in memory is written in the end *)
Spec == /\ Init /\ [][Next]_vars
        /\ WF_vars(~lost /\ ~Stored /\ Flush /\ (torn \/ last' > last))

=============================================================================
