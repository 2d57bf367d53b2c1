---------------------------- MODULE ConfigStore ----------------------------
(***************************************************************************)
(* What the configuration of config.c promises its users: a session, from  *)
(* config_open_write to config_close_write, takes effect as a whole or not *)
(* at all, and nothing else changes the configuration.  What it does not   *)
(* promise: setting more than fits empties it, and when writing fails or   *)
(* the power is lost while it writes, all of the old configuration and any *)
(* part of the new one may be gone.                                        *)
(***************************************************************************)

CONSTANTS
  Name,      \* the names of the settings
  Value,     \* the values they can have
  Absent     \* a setting that is not there

VARIABLES
  store,     \* the configuration
  session,   \* whether a session is open
  draft      \* what the session will make of the configuration

vars == <<store, session, draft>>

Settings == [Name -> Value \cup {Absent}]

Nothing == [n \in Name |-> Absent]

\* What may be left of settings of which a part was lost.
Remains(s) == {r \in Settings : \A n \in Name : r[n] \in {s[n], Absent}}
-----------------------------------------------------------------------------
Init ==
  /\ store \in Settings
  /\ session = FALSE
  /\ draft = store

Open ==
  /\ ~session
  /\ session' = TRUE
  /\ UNCHANGED <<store, draft>>

Set(n, v) ==
  /\ session
  /\ UNCHANGED <<session, store>>
  /\ draft' \in {[draft EXCEPT ![n] = v], Nothing}

Delete(names) ==
  /\ session
  /\ UNCHANGED <<session, store>>
  /\ draft' = [n \in Name |-> IF n \in names THEN Absent ELSE draft[n]]

Close ==
  /\ session
  /\ session' = FALSE
  /\ store' = draft /\ draft' = store'

\* An abort, a failure before anything was written, or a restart.
Abandon ==
  /\ session
  /\ session' = FALSE
  /\ draft' = store /\ UNCHANGED store

\* A failure or a restart in the middle of writing.
Damage ==
  /\ session
  /\ session' = FALSE
  /\ store' \in Remains(draft) /\ draft' = store'

Next ==
  \/ Open \/ Close \/ Abandon \/ Damage
  \/ \E n \in Name, v \in Value : Set(n, v)
  \/ \E names \in SUBSET Name : Delete(names)

Spec == Init /\ [][Next]_vars
=============================================================================
