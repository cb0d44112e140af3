------------------------------ MODULE MCAccess ------------------------------
(***************************************************************************)
(* Credentials and Sharing for TLC.  They share no state: `part` says      *)
(* which a behaviour is about, and the other stays as it begins.           *)
(***************************************************************************)
EXTENDS MCCredentials, MCSharing

VARIABLE part

AInit ==
  /\ part \in {"credentials", "sharing"}
  /\ CrInit /\ ShInit
  /\ part = "sharing" => crMix = CrMix({"exchange", "link"}, 4, 3)
  /\ part = "credentials" => mix = Mix({"people", "read"}, 4, {}, {})

ANext ==
  \/ part = "credentials" /\ CrNext /\ UNCHANGED <<shVars, part>>
  \/ part = "sharing" /\ ShNext /\ UNCHANGED <<crVars, part>>

ASpec == AInit /\ [][ANext]_<<crVars, shVars, part>>
=============================================================================
