--------------------------- MODULE InputOwnership ---------------------------
(***************************************************************************)
(* What the LeaseManager of packages/control/src/lease.ts promises, with   *)
(* no queues, jobs, timers or clients: a computer has at most one owner,   *)
(* a new owner enters only when all that earlier owners left running has   *)
(* ended, an owner that entered while a human had control stays in the     *)
(* background, and nobody becomes owner twice under one proof.             *)
(***************************************************************************)
CONSTANTS Proof, NoOwner

VARIABLES
    owner,        \* the proof of the owner, or NoOwner
    background,   \* whether the owner entered while a human had control
    human,        \* whether a human has control
    unfenced,     \* former owners that may have something running
    used          \* every proof that was ever granted

vars == <<owner, background, human, unfenced, used>>

Init ==
    /\ owner = NoOwner
    /\ background = FALSE
    /\ human = FALSE
    /\ unfenced = {}
    /\ used = {}

\* A fresh proof enters.
Enter ==
    /\ owner = NoOwner
    /\ unfenced = {}
    /\ owner' \in Proof
    /\ owner' \notin used
    /\ background' = human'
    /\ used' = used \cup {owner'}
    /\ unfenced' = {}

\* The owner, if there is one, leaves.
Leave ==
    /\ owner' = NoOwner
    /\ background' = FALSE
    /\ unfenced' = unfenced \cup ({owner} \ {NoOwner})
    /\ UNCHANGED used

Stay == UNCHANGED <<owner, background, unfenced, used>>

Change == Enter \/ Leave

Own == Change /\ UNCHANGED human

Fence(p) ==
    /\ p \in unfenced
    /\ unfenced' = unfenced \ {p}
    /\ UNCHANGED <<owner, background, human, used>>

\* A human takes control from the owner.
TakeHuman == human' = TRUE /\ Leave

\* A human's control ends, alone or with what the change lets happen.
EndHuman == human' = FALSE /\ (Stay \/ Change)

Next == Own \/ (\E p \in unfenced : Fence(p)) \/ TakeHuman \/ EndHuman

Spec == Init /\ [][Next]_vars
=============================================================================
