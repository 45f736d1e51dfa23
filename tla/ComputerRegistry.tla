--------------------------- MODULE ComputerRegistry ---------------------------
(***************************************************************************)
(* What the lifecycle commands of the CLI promise: each changes the set of *)
(* computers, the trash and the tokens at once, whatever happens to the    *)
(* process that executes it.                                               *)
(***************************************************************************)
CONSTANTS Id, Info, Token, None, NameOf(_)

VARIABLES
    live,       \* the computers there are
    trashed,    \* the deleted computers that can be restored
    token       \* the token each computer accepts

vars == <<live, trashed, token>>

Init ==
    /\ live = [id \in Id |-> None]
    /\ trashed = [id \in Id |-> None]
    /\ token = [id \in Id |-> None]

Free(info) == \A id \in Id : live[id] # None => NameOf(live[id]) # NameOf(info)

NewToken(t) == t \in Token /\ \A id \in Id : token[id] # t

\* A new computer, with an empty home or with that of a backup.
Create(id, info, t) ==
    /\ live[id] = None /\ trashed[id] = None
    /\ Free(info) /\ NewToken(t)
    /\ live' = [live EXCEPT ![id] = info]
    /\ token' = [token EXCEPT ![id] = t]
    /\ UNCHANGED trashed

\* The name or another setting changes, the identity and the token do not.
Change(id, info) ==
    /\ live[id] # None
    /\ NameOf(info) = NameOf(live[id]) \/ Free(info)
    /\ live' = [live EXCEPT ![id] = info]
    /\ UNCHANGED <<trashed, token>>

Delete(id) ==
    /\ live[id] # None
    /\ live' = [live EXCEPT ![id] = None]
    /\ trashed' = [trashed EXCEPT ![id] = live[id]]
    /\ token' = [token EXCEPT ![id] = None]

Restore(id, t) ==
    /\ live[id] = None /\ trashed[id] # None
    /\ Free(trashed[id]) /\ NewToken(t)
    /\ live' = [live EXCEPT ![id] = trashed[id]]
    /\ trashed' = [trashed EXCEPT ![id] = None]
    /\ token' = [token EXCEPT ![id] = t]

Purge(id) ==
    /\ trashed[id] # None
    /\ trashed' = [trashed EXCEPT ![id] = None]
    /\ UNCHANGED <<live, token>>

\* A manifest replaces a computer by another one.
Apply(id, info, t, gone) ==
    /\ live[id] = None /\ trashed[id] = None /\ live[gone] # None
    /\ Free(info) /\ NewToken(t)
    /\ live' = [live EXCEPT ![id] = info, ![gone] = None]
    /\ trashed' = [trashed EXCEPT ![gone] = live[gone]]
    /\ token' = [token EXCEPT ![id] = t, ![gone] = None]

Next == \E id \in Id :
    \/ Delete(id) \/ Purge(id)
    \/ \E info \in Info : Change(id, info)
    \/ \E t \in Token :
          \/ Restore(id, t)
          \/ \E info \in Info :
                \/ Create(id, info, t)
                \/ \E gone \in Id \ {id} : Apply(id, info, t, gone)

Spec == Init /\ [][Next]_vars
=============================================================================
