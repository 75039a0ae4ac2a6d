--------------------------- MODULE MCRelayLedger ---------------------------
(* RelayLedger for TLC. *)
EXTENDS RelayLedger, TLC

CONSTANTS tenant, owner

Ask(to, kind, bypass) == [to |-> to, kind |-> kind, bypass |-> bypass]

\* A link to the tenant, a forward to the owner and an AI answer.
EveryDay == {Ask(tenant, "link", FALSE), Ask(owner, "forward", FALSE),
             Ask(tenant, "ai", FALSE)}

\* A link, a confirmation of STOP.
Stopping == {Ask(tenant, "link", FALSE), Ask(tenant, "confirmation", FALSE)}
=============================================================================
