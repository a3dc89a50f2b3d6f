-------------------------- MODULE MCAdministration --------------------------
(* TLC instance of Administration: the seeded administrator, who may lose   *)
(* his level or his role, and a user who may be moved, promoted and made    *)
(* administrator of one department.                                         *)
EXTENDS Administration, TLC

CONSTANTS admin, fiona, acme, finance, it

MCSeedAttrs == admin :> [tenant |-> acme, department |-> it, level |-> 7]
MCSignupAttrs == [tenant |-> acme, department |-> finance, level |-> 4]
MCGrants == {[user |-> fiona, input |-> [department |-> it]],
             [user |-> fiona, input |-> [department |-> finance]],
             [user |-> fiona, input |-> [level |-> 7]],
             [user |-> admin, input |-> [level |-> 4]]}
MCAssignments ==
    {[user |-> fiona, role |-> "user-admin", scope |-> [tenant |-> None, department |-> finance]],
     [user |-> fiona, role |-> "dept-admin", scope |-> [tenant |-> acme, department |-> it]],
     [user |-> admin, role |-> "super-admin", scope |-> Global]}

Symmetry == Permutations(Requests)
=============================================================================
