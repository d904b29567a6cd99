---------------------------- MODULE MCDnsClient ----------------------------
(* DnsClient on small instances. *)
EXTENDS DnsClient

CONSTANTS a, b

One == <<1>>
OneOrBoth == [r \in Requests |-> IF r = 1 THEN {a} ELSE {a, b}]
=============================================================================
