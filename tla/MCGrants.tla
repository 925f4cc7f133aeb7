------------------------------ MODULE MCGrants ------------------------------
(* Instances of Grants for TLC, and what the code does not live up to. *)
EXTENDS Grants, TLC

HolderSymmetry == Permutations(Holders)

(* "Removes a role from a user" (auth_roles.service.ts:85), and "Removes a   *)
(* permission from a user" (auth_permissions.service.ts:87): after a call    *)
(* that reports no error, made on an entity that was up to date, it is gone. *)
RemovedMeansGone ==
  \A h \in Holders :
    outcome[h] = "ok" /\ Fresh(h) /\ op[h].kind = "remove" => op[h].code \notin row.granted
=============================================================================
