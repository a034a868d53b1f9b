---------------------------- MODULE MCEtcdServer ----------------------------
(***************************************************************************)
(* Instances of a member: entries of every kind with crashes, snapshots of *)
(* its own and of its leader; and reads, whose entries change nothing.     *)
(***************************************************************************)
EXTENDS EtcdServerProperties

Allowed(entries, length, crashes, snapshots, installs) ==
  [entries |-> entries, length |-> length, crashes |-> crashes, snapshots |-> snapshots, installs |-> installs]
Entries == {Put(k, l) : k \in Keys, l \in LeaseIDs \cup {NoLease}} \cup {Delete(k) : k \in Keys}
           \cup {Grant(l) : l \in LeaseIDs} \cup {Revoke(l) : l \in LeaseIDs} \cup {Noop}
\* The lessor numbers its leases (lease ID 0 in a request): a key is never put with
\* a lease that is granted later.
NumberedLeases ==
  \A i, j \in DOMAIN log :
    i < j /\ log[i].op = "put" /\ log[j].op = "grant" => log[i].lease # log[j].lease
NoReads == reader = [r \in Readers |-> [AtStart EXCEPT !.step = "failed"]]
ReadRest == /\ notifier = 1 /\ outcome = [n \in Rounds |-> "none"] /\ readwaitc = FALSE
            /\ loop = Waiting /\ asked = {} /\ readStates = {} /\ readStateC = Nothing
\* Entries of every kind; or reads.
MCInit ==
  /\ ApplierInit /\ ReadRest
  /\ \/ /\ NoReads
        /\ allowed \in {Allowed(Entries, 3, 2, 1, 0), Allowed(Entries, 4, 1, 0, 0),
                        Allowed(Entries, 3, 1, 1, 1)}
     \/ /\ reader = [r \in Readers |-> AtStart]
        /\ allowed \in {Allowed({Noop}, 2, 0, 0, 0), Allowed({Noop}, 1, 1, 0, 0)}
MCNext == Next /\ NumberedLeases'
MCSpec == MCInit /\ [][MCNext]_vars /\ Fairness
\* Clients that choose the numbers of their leases.
MCChosen == MCInit /\ [][Next]_vars
=============================================================================
