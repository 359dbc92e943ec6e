-------------------------- MODULE VolumeOwnership --------------------------
(***************************************************************************)
(* What hybrid provisioning promises to the owner of a claim, without      *)
(* helper claims, policies, references and the requests between them: a    *)
(* volume is made for one claim, passes to that claim in one step and for  *)
(* good, and its storage is deleted only after the claim.                  *)
(***************************************************************************)
CONSTANTS Claims, Vols, None

VARIABLES
  status,   \* status[c]: the life of the claim
  given,    \* given[c]: the volume the claim has, or None
  madeFor,  \* madeFor[v]: the claim the volume was made for, or None
  stored    \* the volumes that have their storage

vars == <<status, given, madeFor, stored>>

Init ==
  /\ status = [c \in Claims |-> "absent"]
  /\ given = [c \in Claims |-> None]
  /\ madeFor = [v \in Vols |-> None]
  /\ stored = {}

Create(c) ==
  /\ status[c] = "absent"
  /\ status' = [status EXCEPT ![c] = "live"]
  /\ UNCHANGED <<given, madeFor, stored>>

Delete(c) ==
  /\ status[c] = "live"
  /\ status' = [status EXCEPT ![c] = "deleted"]
  /\ UNCHANGED <<given, madeFor, stored>>

\* Retries may make more than one volume for a claim, even after its deletion.
Make(c, v) ==
  /\ status[c] # "absent"
  /\ madeFor[v] = None
  /\ madeFor' = [madeFor EXCEPT ![v] = c]
  /\ stored' = stored \cup {v}
  /\ UNCHANGED <<status, given>>

Give(c, v) ==
  /\ status[c] = "live"
  /\ given[c] = None
  /\ madeFor[v] = c
  /\ v \in stored
  /\ given' = [given EXCEPT ![c] = v]
  /\ UNCHANGED <<status, madeFor, stored>>

Lose(c, v) ==
  /\ status[c] = "deleted"
  /\ madeFor[v] = c
  /\ stored' = stored \ {v}
  /\ UNCHANGED <<status, given, madeFor>>

Next ==
  \E c \in Claims :
    \/ Create(c)
    \/ Delete(c)
    \/ \E v \in Vols : Make(c, v) \/ Give(c, v) \/ Lose(c, v)

Spec == Init /\ [][Next]_vars

=============================================================================
