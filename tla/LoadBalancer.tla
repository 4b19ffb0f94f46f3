------------------------------ MODULE LoadBalancer ------------------------------
(***************************************************************************)
(* GlobalRequestLoadBalancer and its callers, the AsyncLLMServerManagers.  *)
(* A conversation sends one request after another under one request id:    *)
(* _acquire_server awaits a server, generate uses it, and _release_server, *)
(* in a finally, sends a call nobody waits for.  The balancer is an actor: *)
(* each of its methods is one step, and the calls of one caller are served *)
(* in the order they were sent.                                            *)
(***************************************************************************)
EXTENDS Integers, Sequences

CONSTANTS Conversations,  \* request ids
          NumServers,     \* servers, numbered in the order of the constructor's list
          CacheSize       \* max_cache_size

ASSUME LoadBalancerAssumption ==
    /\ NumServers \in Nat \ {0}
    /\ CacheSize \in Nat \ {0}

VARIABLES inflight,  \* _inflight_requests
          session,   \* _request_id_to_server (NoServer where there is no entry)
          recency,   \* the order of the LRU cache, least recently used first
          using,     \* the server a conversation's request holds
          owed,      \* the server its release call, still under way, will name
          last,      \* auxiliary: the server it was last given
          others     \* auxiliary: the conversations routed since

lbVars == <<inflight, session, recency, using, owed, last, others>>

Servers == 1..NumServers

NoServer == 0

LBInit ==
    /\ inflight = [s \in Servers |-> 0]
    /\ session = [c \in Conversations |-> NoServer]
    /\ recency = <<>>
    /\ using = [c \in Conversations |-> NoServer]
    /\ owed = [c \in Conversations |-> NoServer]
    /\ last = [c \in Conversations |-> NoServer]
    /\ others = [c \in Conversations |-> {}]

(* min() over the dictionary: the first of the least loaded.               *)
LeastLoaded ==
    CHOOSE s \in Servers :
        \A t \in Servers : inflight[s] < inflight[t] \/ (inflight[s] = inflight[t] /\ s <= t)

Position(c) == CHOOSE i \in 1..Len(recency) : recency[i] = c

Without(i) == SubSeq(recency, 1, i - 1) \o SubSeq(recency, i + 1, Len(recency))

(* Mutant of Hit: a cache that evicts by age, whatever was used since.      *)
HitLeavesOrder(c) == UNCHANGED <<session, recency>>

(* Reading an entry makes it the most recently used.                       *)
Hit(c) ==
    /\ recency' = Append(Without(Position(c)), c)
    /\ UNCHANGED session

(* Writing one to a full cache evicts the least recently used.             *)
Miss(c, s) ==
    IF Len(recency) >= CacheSize
      THEN /\ recency' = Append(Tail(recency), c)
           /\ session' = [session EXCEPT ![Head(recency)] = NoServer, ![c] = s]
      ELSE /\ recency' = Append(recency, c)
           /\ session' = [session EXCEPT ![c] = s]

Routed(c) == IF session[c] # NoServer THEN session[c] ELSE LeastLoaded

Acquire(c) ==
    /\ using[c] = NoServer
    /\ owed[c] = NoServer
    /\ LET s == Routed(c)
       IN /\ IF session[c] # NoServer THEN Hit(c) ELSE Miss(c, s)
          /\ inflight' = [inflight EXCEPT ![s] = @ + 1]
          /\ using' = [using EXCEPT ![c] = s]
          /\ last' = [last EXCEPT ![c] = s]
          /\ others' = [d \in Conversations |-> IF d = c THEN {} ELSE others[d] \cup {c}]
    /\ UNCHANGED owed

(* The server answered or failed: the finally of generate.                 *)
SendRelease(c) ==
    /\ using[c] # NoServer
    /\ owed' = [owed EXCEPT ![c] = using[c]]
    /\ using' = [using EXCEPT ![c] = NoServer]
    /\ UNCHANGED <<inflight, session, recency, last, others>>

(* Mutant of CanRelease: the check is off by one.                           *)
CanReleaseLast(s) == inflight[s] > 1

CanRelease(s) == inflight[s] > 0

(* release_server; without requests in flight it raises, where nobody looks*)
Release(c) ==
    /\ owed[c] # NoServer
    /\ inflight' = IF CanRelease(owed[c]) THEN [inflight EXCEPT ![owed[c]] = @ - 1] ELSE inflight
    /\ owed' = [owed EXCEPT ![c] = NoServer]
    /\ UNCHANGED <<session, recency, using, last, others>>
===============================================================================
