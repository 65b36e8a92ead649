----------------------------- MODULE MCServices -----------------------------
(***************************************************************************)
(* The registry server and the secret sessions of a host.  They share no   *)
(* state, so a behaviour runs one of them.                                 *)
(***************************************************************************)
EXTENDS MCHostedRegistry, SecretSession

CONSTANT d1

VARIABLE service   \* the part this behaviour runs
serviceVars == <<service, vars, secretVars>>

\* All sessions belong to one security domain.
OneDomain == [s \in Sessions |-> d1]

ServiceInit ==
    /\ service \in {"registry", "secrets"}
    /\ Init /\ SecretInit

ServiceNext ==
    /\ UNCHANGED service
    /\ \/ service = "registry" /\ Next /\ UNCHANGED secretVars
       \/ service = "secrets" /\ SecretNext /\ UNCHANGED vars

ServiceSpec == ServiceInit /\ [][ServiceNext]_serviceVars

\* Every variable has its type.
ServiceTypeOK == TypeOK /\ SecretTypeOK

=============================================================================
