---------------------------- MODULE MCLoadBalancer ----------------------------
(* More conversations than the cache holds, and fewer servers than those.  *)
EXTENDS LoadBalancerClients

CONSTANTS q1, q2, q3, q4

MCConversations == {q1, q2, q3, q4}
===============================================================================
