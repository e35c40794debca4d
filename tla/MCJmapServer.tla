---------------------------- MODULE MCJmapServer ----------------------------
(* JmapServer for TLC: two users, a query followed by a get, a batch with a *)
(* call that names the other account and one that is unknown.               *)
EXTENDS JmapServer, FiniteSets, TLC

CONSTANTS u1, u2

C(name, id, account) == [name |-> name, id |-> id, account |-> account]

MCBatch ==
  {<<C("Email/query", 1, u1), C("Email/get", 2, u2)>>,
   <<C("other", 3, u1), C("Mailbox/get", 4, u1)>>}

\* One delivery is on its way at a time, and none is given up; only the first
\* account is ever deactivated, and the other one logs in at the beginning; two
\* tokens, and no login takes more than a unit of time.
Bound ==
  /\ \A m \in Mailbox : next[m] = 1 + Cardinality(reserved[m] \cup filed[m])
  /\ \A m \in Mailbox : Cardinality(reserved[m]) <= 1
  /\ active[u2]
  /\ \A t \in tokens : t.uid = u2 => t.exp = TTL
  /\ \A r \in Req : claims[r].uid = u2 /\ pc[r] = "auth" => clock = 0
  /\ Cardinality(tokens) <= 2 /\ slowest <= 1
ReqSymmetry == Permutations(Req)
============================================================================
