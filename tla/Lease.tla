------------------------------- MODULE Lease -------------------------------
\* What the control lease of a project promises to its holder: while it runs,
\* nobody takes the lease from it but by the ways it agreed to.
EXTENDS Naturals

CONSTANTS Clients, None, Timeout, AutoAccept

VARIABLES
  holder,     \* who has the lease, or None
  running,    \* the clients that run
  serving,    \* the clients that hold the lease for a process they attached to
  wish,       \* the pending request for control: its number, by whom, how old
  shown,      \* per client: the number of the request it has been shown
  seizures    \* how often an operator has seized the lease

\* The successor may be lost as well if it has stopped running.
PassesTo(d) == holder' = d \/ d \notin running'

\* A free lease is taken.
Take == holder = None /\ holder' \in Clients

\* The holder has stopped running, or has only just been resumed: the lease goes to
\* another client, or to nobody.
Expire == holder # None /\ holder \notin running \cap running' /\ holder' \in Clients \cup {None}

\* The holder gives the lease up with the process it was attached to.
Resign == holder \in serving /\ holder \notin serving' /\ holder' = None

\* The holder accepts the request it has been shown.
HandOver ==
  /\ holder # None /\ wish.id # 0 /\ shown[holder] = wish.id
  /\ wish'.id = 0 /\ PassesTo(wish.by)

\* A request nobody has answered in time is granted, if that is the policy.
Overrule ==
  /\ AutoAccept /\ Timeout > 0 /\ wish.id # 0 /\ wish.age >= Timeout
  /\ wish'.id = 0 /\ PassesTo(wish.by)

\* An operator takes the lease away from whoever has it.
Seize == seizures' = seizures + 1 /\ holder' = None

Init == holder = None

Spec == Init /\ [][Take \/ Expire \/ Resign \/ HandOver \/ Overrule \/ Seize]_holder
=============================================================================
