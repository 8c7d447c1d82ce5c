-------------------------------- MODULE KeyBook --------------------------------
(***************************************************************************)
(* What the key store promises those who register, deactivate and look     *)
(* keys up: one call at a time, lookups that see the last change, and a    *)
(* restart after which each key is as a call that succeeded left it.  Only *)
(* a call that failed or was cut short leaves it open what the restart     *)
(* will find.  There are no files and no saves here; RSKeyStore implements *)
(* this.                                                                   *)
(***************************************************************************)
EXTENDS Naturals

CONSTANTS Slot, Kid, None   \* as in RSKeyStore

VARIABLES
  key,    \* key[s]: the record that lookups see
  may,    \* may[s]: what it may be after a restart
  call,   \* the slot of the call under way
  starts  \* how often the server was started again

keyVars == <<key, may, call, starts>>

KeyInit ==
  /\ key = [s \in Slot |-> None]
  /\ may = [s \in Slot |-> {None}]
  /\ call = None
  /\ starts = 0

Change(s, r) ==
  /\ call = None /\ call' = s
  /\ key' = [key EXCEPT ![s] = r]
  /\ may' = [may EXCEPT ![s] = @ \cup {r, None}]
  /\ UNCHANGED starts

\* Whatever the key was before, it is registered under this kid, and active.
Register(s, n, p) == Change(s, [kid |-> n, active |-> TRUE, public |-> p])

Deactivate(s) == key[s] # None /\ Change(s, [key[s] EXCEPT !.active = FALSE])

\* The call succeeds: from now on a restart finds what it left.
Succeed ==
  /\ call # None /\ call' = None
  /\ may' = [may EXCEPT ![call] = {key[call]}]
  /\ UNCHANGED <<key, starts>>

Fail == call # None /\ call' = None /\ UNCHANGED <<key, may, starts>>

\* The server starts again with what may be there.  Some keys may not be loaded;
\* the next restart may find them again.
Reload ==
  /\ \E lost \in SUBSET Slot :
       /\ key' = [s \in Slot |-> IF s \in lost THEN None ELSE key'[s]]
       /\ \A s \in Slot \ lost : key'[s] \in may[s]
       /\ may' = [s \in Slot |-> IF s \in lost THEN may[s] \cup {None} ELSE may[s]]
  /\ call' = None /\ starts' = starts + 1

KeyNext ==
  \/ \E s \in Slot, n \in Kid, p \in BOOLEAN : Register(s, n, p)
  \/ \E s \in Slot : Deactivate(s)
  \/ Succeed \/ Fail \/ Reload

KeySpec == KeyInit /\ [][KeyNext]_keyVars
=============================================================================
