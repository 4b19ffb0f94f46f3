-------------------------- MODULE LoadBalancerClients --------------------------
(***************************************************************************)
(* The load balancer under conversations of any number of turns.           *)
(***************************************************************************)
EXTENDS LoadBalancer, FiniteSets

ASSUME ConversationsAreFinite == IsFiniteSet(Conversations)

ClientsNext == \E c \in Conversations : Acquire(c) \/ SendRelease(c) \/ Release(c)

ClientsSpec == LBInit /\ [][ClientsNext]_lbVars

-------------------------------------------------------------------------------
Slots == Servers \cup {NoServer}

(* Every variable stays in its type.                                       *)
RoutingTypeOK ==
    /\ inflight \in [Servers -> Nat]
    /\ session \in [Conversations -> Slots]
    /\ recency \in Seq(Conversations)
    /\ using \in [Conversations -> Slots]
    /\ owed \in [Conversations -> Slots]
    /\ last \in [Conversations -> Slots]
    /\ others \in [Conversations -> SUBSET Conversations]

Using(s) == {c \in Conversations : using[c] = s}

Owing(s) == {c \in Conversations : owed[c] = s}

(* acquire_server and release_server: what the balancer takes for the load *)
(* of a server is the requests it has plus the releases under way, so that *)
(* no release ever finds the counter at zero.                              *)
CountsRequests ==
    \A s \in Servers : inflight[s] = Cardinality(Using(s)) + Cardinality(Owing(s))

(* The cache and its order name the same conversations, once each, never   *)
(* more than CacheSize of them.                                            *)
CacheConsistent ==
    /\ Len(recency) <= CacheSize
    /\ \A c \in Conversations : session[c] # NoServer <=> \E i \in 1..Len(recency) : recency[i] = c
    /\ \A i, j \in 1..Len(recency) : recency[i] = recency[j] => i = j

(* "same conversation -> same server": a conversation changes servers only *)
(* when at least CacheSize others were routed since its last request.      *)
Sticky ==
    [][\A c \in Conversations :
          last[c] # NoServer /\ last'[c] # last[c] => Cardinality(others[c]) >= CacheSize]_lbVars
===============================================================================
