------------------------ MODULE ProvisioningService ------------------------
(***************************************************************************)
(* ProvisioningService of src/src/provisioning/provision.rs: the gateway   *)
(* certificate and the provisioning config, two files on the encrypted     *)
(* partition.  provision() writes both and factory_reset() removes both,   *)
(* one after the other; either may fail, and the process may die, between  *)
(* any two steps.  What new() finds after a restart is all that is left.   *)
(*                                                                         *)
(* fs::write creates or truncates the file and then fills it: a file is    *)
(* "absent", "cut" in between, or "whole".  provision() and                *)
(* factory_reset() do not overlap: only main.rs calls one of them, in one  *)
(* place.  The files survive the process; losing power before the disk has *)
(* them is not modelled.                                                   *)
(***************************************************************************)
VARIABLES mounted,        \* the encrypted partition is mounted in this process
          cert, config,   \* gateway_cert.pem, provisioning.json
          status,
          step            \* what the service does next; "down": no process

vars == <<mounted, cert, config, status, step>>

exists(file) == mounted /\ file # "absent"

is_provisioned == exists(config) /\ exists(cert)

Init ==
    /\ mounted = FALSE /\ cert = "absent" /\ config = "absent"
    /\ status = "NotProvisioned" /\ step = "down"

Goto(next) == step' = next /\ UNCHANGED <<mounted, status>>

\* new(): the files are looked for once.  (An error of read_serial ends the process.)
New ==
    /\ step = "down"
    /\ UNCHANGED <<cert, config>>
    /\ mounted' \in BOOLEAN /\ step' = "idle"
    /\ status' = IF is_provisioned' THEN "Provisioned" ELSE "NotProvisioned"

\* provision() up to the CSR; the certificate request is a placeholder that succeeds.
Provision ==
    /\ step = "idle"
    /\ status' = "Provisioning" /\ step' \in {"certificate", "idle"}
    /\ UNCHANGED <<mounted, cert, config>>

\* store_certificate: the mount check and the open of fs::write ...
OpenCertificate ==
    /\ step = "certificate"
    /\ \/ mounted /\ cert' = "cut" /\ Goto("fill_certificate")
       \/ UNCHANGED cert /\ Goto("idle")
    /\ UNCHANGED config

\* ... and its write_all.
FillCertificate ==
    /\ step = "fill_certificate"
    /\ \/ cert' = "whole" /\ Goto("config")
       \/ UNCHANGED cert /\ Goto("idle")
    /\ UNCHANGED config

\* store_config, in the same way.
OpenConfig ==
    /\ step = "config"
    /\ \/ mounted /\ config' = "cut" /\ Goto("fill_config")
       \/ UNCHANGED config /\ Goto("idle")
    /\ UNCHANGED cert

FillConfig ==
    /\ step = "fill_config"
    /\ \/ config' = "whole" /\ status' = "Provisioned" /\ step' = "idle" /\ UNCHANGED mounted
       \/ UNCHANGED config /\ Goto("idle")
    /\ UNCHANGED cert

\* Faulty variant of FactoryReset: the config is left for later, the certificate goes.
ResetCertificateFirst ==
    /\ step = "idle"
    /\ \/ exists(cert) /\ cert' = "absent" /\ Goto("remove_config")
       \/ exists(cert) /\ UNCHANGED cert /\ Goto("idle")
       \/ ~exists(cert) /\ UNCHANGED cert /\ Goto("remove_config")
    /\ UNCHANGED config

\* factory_reset: the config is removed, if it is there ...
FactoryReset ==
    /\ step = "idle"
    /\ \/ exists(config) /\ config' = "absent" /\ Goto("remove_certificate")
       \/ exists(config) /\ UNCHANGED config /\ Goto("idle")
       \/ ~exists(config) /\ UNCHANGED config /\ Goto("remove_certificate")
    /\ UNCHANGED cert

\* ... and then the certificate.  `status` of a running service stays as it is.
RemoveCertificate ==
    /\ step = "remove_certificate"
    /\ \/ exists(cert) /\ cert' = "absent"
       \/ UNCHANGED cert
    /\ Goto("idle") /\ UNCHANGED config

\* The process dies; the files stay as they are.
Crash ==
    /\ step # "down"
    /\ Goto("down") /\ UNCHANGED <<cert, config>>

Next ==
    \/ New \/ Provision \/ FactoryReset \/ RemoveCertificate \/ Crash
    \/ OpenCertificate \/ FillCertificate \/ OpenConfig \/ FillConfig

----------------------------------------------------------------------------
(* Properties *)

\* load_config looks at the config file alone.  Whatever step of provision() or of
\* factory_reset() failed or was cut off by a crash, a config file never stands
\* without a certificate file: the two operations go through the files in opposite
\* orders.
ConfigNeedsCertificate == config # "absent" => cert # "absent"
=============================================================================
