------------------------------- MODULE MCAuth -------------------------------
(***************************************************************************)
(* Two operators at their terminals and two requests in flight.            *)
(***************************************************************************)
EXTENDS TrilithAuth

CONSTANTS t1, t2, alice, office

MCTenants == {t1, t2}
MCOwners == {alice}
MCSessions == {office}
MCNever == 20

(* An administrator's key and an agent's.                                  *)
MCGrants ==
  {[tenant |-> t1, owner |-> Blank, session |-> Blank, capabilities |-> {"tenant_admin"}],
   [tenant |-> t2, owner |-> alice, session |-> office, capabilities |-> {}]}

MCClaims ==
  {[tenant |-> t2, owner |-> alice, session |-> Blank, legacy_scope |-> "USER"]}
=============================================================================
