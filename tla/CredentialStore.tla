----------------------------- MODULE CredentialStore -----------------------------
(***************************************************************************)
(* What the credential database promises: a set of credentials that        *)
(* storing adds to, one at a time, and that only the deletion of the user  *)
(* takes from.  A success is reported for a credential that is there.      *)
(***************************************************************************)
CONSTANTS Services, Logins

VARIABLES
  creds,   \* the credentials that can be found
  acked    \* those whose storing was reported a success

Init == creds = {} /\ acked = {}

Store(c) ==
  /\ c \notin creds
  /\ creds' = creds \cup {c}
  /\ UNCHANGED acked

Acknowledge(c) ==
  /\ c \in creds
  /\ acked' = acked \cup {c}
  /\ UNCHANGED creds

DeleteUser == creds' = {} /\ acked' = {}

Next ==
  \/ \E c \in Services \X Logins : Store(c) \/ Acknowledge(c)
  \/ DeleteUser

Spec == Init /\ [][Next]_<<creds, acked>>
=============================================================================
