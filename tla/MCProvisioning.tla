--------------------------- MODULE MCProvisioning ---------------------------
(* A small instance of Provisioning for TLC: a request and a command line,  *)
(* for one tenant or two, with one host name or two.                        *)
EXTENDS Provisioning

CONSTANTS request, cli, acme, beta, host1, host2

MCCall == {request, cli}
MCByRequest == {request}
MCSlug == {acme, beta}
MCDomain == {host1, host2}
=============================================================================
