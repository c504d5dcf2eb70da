---- MODULE MCProvisioning ----
\* Provisioning with two inbounds, two credentials and two callers.
EXTENDS Provisioning
====
