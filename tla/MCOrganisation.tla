--------------------------- MODULE MCOrganisation ---------------------------
(* TLC instance of Organisation: two seeded departments, one below the      *)
(* other, and a third to create; bodies with ranks on both sides of MANAGER, *)
(* one of them naming a department twice.                                    *)
EXTENDS Organisation, TLC

CONSTANTS u1, finance, ap, hr, c1

MCSeedParent == (finance :> None) @@ (ap :> finance)
MCSeedMembership == (u1 :> <<finance, "MANAGER">>)
MCBodies == [memberships |-> {{}, {<<finance, "MANAGER">>}, {<<ap, "LEAD">>, <<hr, "MANAGER">>},
                              {<<hr, "LEAD">>, <<hr, "MANAGER">>}},
             compartments |-> {{}, {<<c1, None>>}}]
=============================================================================
