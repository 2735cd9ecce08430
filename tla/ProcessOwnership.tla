---------------------------- MODULE ProcessOwnership ----------------------------
\* The project-wide control lease: one owner, viewers and at most one takeover
\* request, kept in .macc/state/process_ownership.json and shared by terminal
\* clients, browser tabs and one-shot CLI commands. Every operation locks the
\* file, evicts what is stale, changes the record and saves it; a read evicts in
\* memory only. Nobody but the clients themselves moves the lease.
\*
\* Time is counted in periods of a terminal client's ownership tick (5 s).
EXTENDS Integers, FiniteSets

CONSTANTS
  Tuis,           \* terminal clients
  Webs,           \* browser tabs that keep their id over a reload
  Clis,           \* CLI invocations: each runs one command under an id of its own
  None,           \* no client
  TTL,            \* HeartbeatConfig.ttl_seconds
  Timeout,        \* takeover_timeout_seconds, 0 for never
  AutoAccept,     \* takeover_default_response: auto_accept or admin_takeover, or deny
  WebGap,         \* how often a tab sends its heartbeat
  Requesters,     \* the clients whose users ask for control
  MaxRequests,    \* bound: takeover requests
  MaxSeizures,    \* bound: uses of `macc process release-stale`
  MaxReloads,     \* bound: tabs opened again while their entry still stands
  MaxDelays,      \* bound: heartbeats that a user's action puts off
  MaxFaults       \* bound: deaths and suspensions of clients

Users == Tuis \cup Webs
Clients == Users \cup Clis

ASSUME ClientsAssumption ==
  /\ Tuis \cap Webs = {} /\ Tuis \cap Clis = {} /\ Webs \cap Clis = {}
  /\ IsFiniteSet(Clients) /\ None \notin Clients /\ Requesters \subseteq Clients

ASSUME TimesAssumption ==
  /\ TTL \in Nat \ {0} /\ Timeout \in Nat /\ WebGap \in 1..TTL
  /\ AutoAccept \in BOOLEAN /\ MaxRequests \in Nat /\ MaxSeizures \in Nat /\ MaxReloads \in Nat
  /\ MaxDelays \in Nat /\ MaxFaults \in Nat

VARIABLES
  lease,          \* the stored record of the project lease
  earlier,        \* <<c, d>>: the viewer entry of c is older than the one of d
  status,         \* per client: "off", "running", "hung", "woken" or "gone"
  served,         \* the clients whose timers have run in this period
  due,            \* per tab: time since its last heartbeat
  guard,          \* per terminal client: the guards it holds
  phase,          \* per terminal client: between the two halves of its tick?
  seen,           \* per client: the owner and the request it last read
  coordinator,    \* is a coordinator process registered?
  nreq,           \* takeover requests so far
  seizures,       \* forced releases so far
  reloads,        \* tabs opened again while their entry stood, so far
  delays,         \* heartbeats put off so far
  faults          \* deaths and suspensions so far

counters == <<nreq, seizures, reloads, delays, faults>>
clientVars == <<status, served, due, guard, phase, seen>>
vars == <<lease, earlier, clientVars, coordinator, counters>>

\* An age beyond which nothing changes any more.
Old == IF TTL > Timeout THEN TTL + 1 ELSE Timeout + 1
Ages == 0..Old
Aged(a) == IF a < Old THEN a + 1 ELSE a

NoRequest == [id |-> 0, by |-> None, age |-> 0]
Requests == [id : 0..MaxRequests, by : Clients \cup {None}, age : Ages]

-------------------------------------------------------------------------------
\* The stored record and its functions

OwnershipRecord ==
  [owner : Clients \cup {None}, beat : Ages, viewers : SUBSET Clients,
   vbeat : [Clients -> Ages], request : Requests]

\* Gives the lease to c, with the heartbeat its identity carries.
OwnedBy(l, c, beat) ==
  [l EXCEPT !.owner = c, !.beat = beat, !.viewers = @ \ {c}, !.vbeat[c] = 0]

Disowned(l) == [l EXCEPT !.owner = None, !.beat = 0]

Overdue(l) == l.request.id # 0 /\ Timeout > 0 /\ l.request.age > Timeout

\* The requester's identity was stamped when it asked: so old is its heartbeat now.
ResolveOverdue(l) ==
  IF ~Overdue(l) THEN l
  ELSE [(IF AutoAccept THEN OwnedBy(l, l.request.by, l.request.age) ELSE l)
          EXCEPT !.request = NoRequest]

DropStaleViewers(l) ==
  LET fresh == {v \in l.viewers : l.vbeat[v] <= TTL}
  IN [l EXCEPT !.viewers = fresh, !.vbeat = [c \in Clients |-> IF c \in fresh THEN @[c] ELSE 0]]

Oldest(V) == CHOOSE v \in V : \A w \in V \ {v} : <<v, w>> \in earlier

\* Mutant: nobody is promoted: a stale owner that is followed stays.
ReplaceStaleOwnerUnfollowed(l) ==
  IF l.owner = None \/ l.beat <= TTL \/ l.viewers # {} THEN l ELSE Disowned(l)

ReplaceStaleOwner(l) ==
  IF l.owner = None \/ l.beat <= TTL THEN l
  ELSE IF l.viewers = {} THEN Disowned(l)
  ELSE OwnedBy(l, Oldest(l.viewers), l.vbeat[Oldest(l.viewers)])

EvictStaleClients(l) == ReplaceStaleOwner(DropStaleViewers(ResolveOverdue(l)))

\* The record as every reader and every writer sees it.
Loaded == EvictStaleClients(lease)

AddViewerIfMissing(l, c) ==
  IF c \in l.viewers THEN l ELSE [l EXCEPT !.viewers = @ \cup {c}, !.vbeat[c] = 0]

ClaimOwner(l, c) ==
  IF l.owner = None THEN [OwnedBy(l, c, 0) EXCEPT !.request = NoRequest]
  ELSE IF l.owner = c THEN l
  ELSE AddViewerIfMissing(l, c)

ReleaseOwner(l, c) ==
  IF l.owner = c THEN [Disowned(l) EXCEPT !.request = NoRequest] ELSE l

UnregisterViewer(l, c) == [l EXCEPT !.viewers = @ \ {c}, !.vbeat[c] = 0]

\* Mutant: the request is numbered one too high.
RequestTakeoverNext(l, c, id) == [l EXCEPT !.request = [id |-> id + 1, by |-> c, age |-> 0]]

RequestTakeover(l, c, id) == [l EXCEPT !.request = [id |-> id, by |-> c, age |-> 0]]

\* Mutant: the owner's answer counts for whatever is pending.
CanRespondToAny(l, c, id) == l.owner = c /\ l.request.id # 0

\* The answer of c to request id is taken only from the owner and for what is pending.
CanRespond(l, c, id) == l.owner = c /\ l.request.id = id

\* Mutant: an accepted request frees the lease instead of passing it on.
RespondTakeoverFrees(l, accept) ==
  [(IF accept THEN Disowned(l) ELSE l) EXCEPT !.request = NoRequest]

RespondTakeover(l, accept) ==
  [(IF accept THEN OwnedBy(l, l.request.by, l.request.age) ELSE l) EXCEPT !.request = NoRequest]

\* Mutant: only the viewer entry of a client is refreshed.
RecordHeartbeatOfViewer(l, c) ==
  IF c \in l.viewers THEN [l EXCEPT !.vbeat[c] = 0] ELSE l

RecordHeartbeat(l, c) ==
  IF l.owner = c THEN [l EXCEPT !.beat = 0]
  ELSE IF c \in l.viewers THEN [l EXCEPT !.vbeat[c] = 0]
  ELSE l

\* gate_owner_action: a lease without an owner stops nobody.
GatePasses(c) == Loaded.owner \in {None, c}

\* A tab's viewer entry is as old as its join; a terminal client's as old as the client.
Joins(l, c) == l.owner \notin {None, c} /\ c \notin l.viewers
\* Mutant: a client that comes back keeps its old place as well.
LastOfAlso(c) == earlier \cup {<<d, c>> : d \in Clients \ {c}}
LastOf(c) == {e \in earlier : c \notin {e[1], e[2]}} \cup {<<d, c>> : d \in Clients \ {c}}

View(l) == [owner |-> l.owner, request |-> l.request.id]
Unseen == [owner |-> None, request |-> 0]
NoGuards == [owner |-> FALSE, viewer |-> FALSE, attached |-> FALSE]

\* A client that was suspended is up again, but its timers have yet to run.
Up(c) == status[c] \in {"running", "woken"}

\* Its timer has run.
Serves(c) == served' = served \cup {c}

\* A terminal client that refreshes its view for a user's action starts the timer
\* anew, without a heartbeat: if it has not run in this period, it no longer will.
PutsOff(c) ==
  IF c \in served \/ c \notin Tuis THEN UNCHANGED <<served, delays>>
  ELSE Serves(c) /\ delays < MaxDelays /\ delays' = delays + 1

-------------------------------------------------------------------------------
\* Terminal clients

\* Claims for c and keeps the guard of what it became.
ClaimProcessOwnership(l, c, g) ==
  IF ClaimOwner(l, c).owner = c THEN [g EXCEPT !.owner = TRUE, !.attached = TRUE]
  ELSE [g EXCEPT !.viewer = TRUE]

\* load_config: scan for running processes and attach to the coordinator.
TuiOpens(c) ==
  /\ status[c] = "off"
  /\ IF coordinator
     THEN /\ lease' = ClaimOwner(Loaded, c)
          /\ guard' = [guard EXCEPT ![c] = ClaimProcessOwnership(Loaded, c, @)]
          /\ seen' = [seen EXCEPT ![c] = View(lease')]
     ELSE /\ UNCHANGED <<lease, guard>>
          /\ seen' = [seen EXCEPT ![c] = View(Loaded)]
  /\ status' = [status EXCEPT ![c] = "running"]
  /\ earlier' = LastOf(c)
  /\ Serves(c)
  /\ UNCHANGED <<due, phase, coordinator, counters>>

\* The user starts a coordinator and the client claims the lease for it. The end of an
\* earlier one has been noticed before: the client polls for it with every frame.
TuiLaunches(c) ==
  /\ Up(c) /\ ~coordinator /\ ~guard[c].attached /\ GatePasses(c)
  /\ coordinator' = TRUE
  /\ lease' = ClaimOwner(Loaded, c)
  /\ guard' = [guard EXCEPT ![c] = ClaimProcessOwnership(Loaded, c, @)]
  /\ seen' = [seen EXCEPT ![c] = View(lease')]
  /\ PutsOff(c)
  /\ UNCHANGED <<earlier, status, due, phase, nreq, seizures, reloads, faults>>

\* The first half of tick_ownership when the coordinator it attached to has ended.
TuiDetaches(c) ==
  /\ Up(c) /\ phase[c] = "rest"
  /\ guard[c].attached /\ ~coordinator
  /\ lease' = ReleaseOwner(Loaded, c)
  /\ guard' = [guard EXCEPT ![c].owner = FALSE, ![c].attached = FALSE]
  /\ seen' = [seen EXCEPT ![c] = View(lease')]
  /\ status' = [status EXCEPT ![c] = "running"]
  /\ Serves(c)
  /\ UNCHANGED <<earlier, due, phase, coordinator, counters>>

\* The first half of tick_ownership: it reads the record ...
TuiRefreshes(c) ==
  /\ Up(c) /\ phase[c] = "rest" /\ c \notin served
  /\ ~(guard[c].attached /\ ~coordinator)
  /\ seen' = [seen EXCEPT ![c] = View(Loaded)]
  /\ phase' = [phase EXCEPT ![c] = "read"]
  /\ status' = [status EXCEPT ![c] = "running"]
  /\ UNCHANGED <<lease, earlier, served, due, guard, coordinator, counters>>

\* ... and the second: an owner without a guard claims one, a client with a
\* guard sends its heartbeat.
TuiBeats(c) ==
  /\ Up(c) /\ phase[c] = "read"
  /\ LET claims == seen[c].owner = c /\ ~guard[c].owner
         l == IF claims THEN ClaimOwner(Loaded, c) ELSE Loaded
         g == IF claims THEN ClaimProcessOwnership(Loaded, c, guard[c]) ELSE guard[c]
     IN /\ guard' = [guard EXCEPT ![c] = g]
        /\ lease' = IF g.owner \/ g.viewer THEN RecordHeartbeat(l, c) ELSE lease
  /\ phase' = [phase EXCEPT ![c] = "rest"]
  /\ Serves(c)
  /\ UNCHANGED <<earlier, status, due, seen, coordinator, counters>>

\* release_ownership_on_exit: the guards and the entries of the client go.
TuiQuits(c) ==
  /\ Up(c)
  /\ lease' = UnregisterViewer(ReleaseOwner(Loaded, c), c)
  /\ guard' = [guard EXCEPT ![c] = NoGuards]
  /\ status' = [status EXCEPT ![c] = "gone"]
  /\ phase' = [phase EXCEPT ![c] = "rest"]
  /\ seen' = [seen EXCEPT ![c] = Unseen]
  /\ UNCHANGED <<earlier, served, due, coordinator, counters>>

-------------------------------------------------------------------------------
\* Browser tabs

\* A tab opens (again): its event stream registers a viewer, even for the owner.
WebOpens(w) ==
  /\ status[w] \in {"off", "gone"}
  /\ IF w \in {Loaded.owner} \cup Loaded.viewers
     THEN reloads < MaxReloads /\ reloads' = reloads + 1
     ELSE UNCHANGED reloads
  /\ lease' = AddViewerIfMissing(Loaded, w)
  /\ earlier' = IF w \in Loaded.viewers THEN earlier ELSE LastOf(w)
  /\ status' = [status EXCEPT ![w] = "running"]
  /\ due' = [due EXCEPT ![w] = 0]
  /\ Serves(w)
  /\ UNCHANGED <<guard, phase, seen, coordinator, nreq, seizures, delays, faults>>

\* Every two seconds a tab claims the lease and reads the record it then shows.
WebClaims(w) ==
  /\ Up(w)
  /\ lease' = ClaimOwner(Loaded, w)
  /\ earlier' = IF Joins(Loaded, w) THEN LastOf(w) ELSE earlier
  /\ seen' = [seen EXCEPT ![w] = View(lease')]
  /\ Serves(w)
  /\ UNCHANGED <<status, due, guard, phase, coordinator, counters>>

WebBeats(w) ==
  /\ Up(w)
  /\ lease' = RecordHeartbeat(Loaded, w)
  /\ due' = [due EXCEPT ![w] = 0]
  /\ status' = [status EXCEPT ![w] = "running"]
  /\ Serves(w)
  /\ UNCHANGED <<earlier, guard, phase, seen, coordinator, counters>>

\* heartbeat_web_viewers_once: the server beats for every tab it lists as a viewer.
ServerBeats ==
  /\ lease' = [Loaded EXCEPT
       !.beat = IF Loaded.owner \in Webs \cap Loaded.viewers THEN 0 ELSE @,
       !.vbeat = [c \in Clients |-> IF c \in Webs \ {Loaded.owner} THEN 0 ELSE @[c]]]
  /\ UNCHANGED <<earlier, clientVars, coordinator, counters>>

\* The event stream ends and with it the viewer entry; the lease is not released.
WebCloses(w) ==
  /\ Up(w)
  /\ lease' = UnregisterViewer(Loaded, w)
  /\ status' = [status EXCEPT ![w] = "gone"]
  /\ seen' = [seen EXCEPT ![w] = Unseen]
  /\ UNCHANGED <<earlier, served, due, guard, phase, coordinator, counters>>

-------------------------------------------------------------------------------
\* Takeover

CanAsk(c) == c \in Requesters /\ nreq < MaxRequests

\* A viewer asks for control; a new request takes the place of a pending one.
Asks(c) ==
  /\ c \notin Clis /\ Up(c) /\ CanAsk(c)
  /\ seen[c].owner # c
  /\ nreq' = nreq + 1
  /\ lease' = RequestTakeover(Loaded, c, nreq + 1)
  /\ seen' = [seen EXCEPT ![c] = View(lease')]
  /\ PutsOff(c)
  /\ UNCHANGED <<earlier, status, due, guard, phase, coordinator, seizures, reloads, faults>>

\* The user of c answers the request on its screen. An error saves nothing.
Responds(c, accept) ==
  /\ Up(c)
  /\ seen[c].owner = c /\ seen[c].request # 0
  /\ CanRespond(Loaded, c, seen[c].request)
  /\ lease' = RespondTakeover(Loaded, accept)
  /\ seen' = [seen EXCEPT ![c] = View(EvictStaleClients(lease'))]
  /\ PutsOff(c)
  /\ UNCHANGED <<earlier, status, due, guard, phase, coordinator, nreq, seizures, reloads, faults>>

\* `macc process claim` and `macc process takeover request`: one command, one id.
CliClaims(k) ==
  /\ status[k] = "off"
  /\ lease' = ClaimOwner(Loaded, k)
  /\ earlier' = LastOf(k)
  /\ status' = [status EXCEPT ![k] = "gone"]
  /\ Serves(k)
  /\ UNCHANGED <<due, guard, phase, seen, coordinator, counters>>

CliAsks(k) ==
  /\ status[k] = "off" /\ CanAsk(k)
  /\ nreq' = nreq + 1
  /\ lease' = RequestTakeover(Loaded, k, nreq + 1)
  /\ status' = [status EXCEPT ![k] = "gone"]
  /\ Serves(k)
  /\ UNCHANGED <<earlier, due, guard, phase, seen, coordinator, seizures, reloads, delays, faults>>

\* `macc process release-stale`: whoever owns the lease loses it.
ForceRelease ==
  /\ seizures < MaxSeizures /\ Loaded.owner # None
  /\ seizures' = seizures + 1
  /\ lease' = ReleaseOwner(Loaded, Loaded.owner)
  /\ UNCHANGED <<earlier, clientVars, coordinator, nreq, reloads, delays, faults>>

-------------------------------------------------------------------------------
\* The surroundings

CoordinatorStarts ==
  /\ ~coordinator /\ coordinator' = TRUE
  /\ UNCHANGED <<lease, earlier, clientVars, counters>>

CoordinatorEnds ==
  /\ coordinator /\ coordinator' = FALSE
  /\ UNCHANGED <<lease, earlier, clientVars, counters>>

\* A client is killed, or suspended with its machine, or goes on.
Fault == faults < MaxFaults /\ faults' = faults + 1

Dies(c) ==
  /\ Up(c) \/ status[c] = "hung"
  /\ Fault
  /\ status' = [status EXCEPT ![c] = "gone"]
  /\ guard' = [guard EXCEPT ![c] = NoGuards] /\ phase' = [phase EXCEPT ![c] = "rest"]
  /\ seen' = [seen EXCEPT ![c] = Unseen]
  /\ UNCHANGED <<lease, earlier, served, due, coordinator, nreq, seizures, reloads, delays>>

Hangs(c) ==
  /\ Up(c) /\ status' = [status EXCEPT ![c] = "hung"]
  /\ Fault
  /\ UNCHANGED <<lease, earlier, served, due, guard, phase, seen, coordinator,
                 nreq, seizures, reloads, delays>>

Resumes(c) ==
  /\ status[c] = "hung" /\ status' = [status EXCEPT ![c] = "woken"]
  /\ UNCHANGED <<lease, earlier, served, due, guard, phase, seen, coordinator, counters>>

\* A period passes in which every running client has kept its timers.
OnTime(c) ==
  Up(c) =>
    /\ c \in served
    /\ c \in Tuis => phase[c] = "rest"
    /\ c \in Webs => due[c] < WebGap

Tick ==
  /\ \A c \in Clients : OnTime(c)
  /\ lease' = [lease EXCEPT
       !.beat = IF lease.owner = None THEN @ ELSE Aged(@),
       !.vbeat = [c \in Clients |-> IF c \in lease.viewers THEN Aged(@[c]) ELSE 0],
       !.request.age = IF lease.request.id = 0 THEN 0 ELSE Aged(@)]
  /\ served' = {}
  /\ due' = [w \in Webs |-> IF due[w] < WebGap THEN due[w] + 1 ELSE due[w]]
  /\ UNCHANGED <<earlier, status, guard, phase, seen, coordinator, counters>>

-------------------------------------------------------------------------------
Init ==
  /\ lease = [owner |-> None, beat |-> 0, viewers |-> {}, vbeat |-> [c \in Clients |-> 0],
              request |-> NoRequest]
  /\ earlier = {}
  /\ status = [c \in Clients |-> "off"]
  /\ served = {}
  /\ due = [w \in Webs |-> 0]
  /\ guard = [c \in Users |-> NoGuards]
  /\ phase = [c \in Users |-> "rest"]
  /\ seen = [c \in Users |-> Unseen]
  /\ coordinator = FALSE
  /\ nreq = 0 /\ seizures = 0 /\ reloads = 0 /\ delays = 0 /\ faults = 0

TuiNext(c) ==
  TuiOpens(c) \/ TuiLaunches(c) \/ TuiDetaches(c) \/ TuiRefreshes(c) \/ TuiBeats(c) \/ TuiQuits(c)

WebNext(w) ==
  WebOpens(w) \/ WebClaims(w) \/ WebBeats(w) \/ WebCloses(w)

Next ==
  \/ \E c \in Tuis : TuiNext(c)
  \/ \E w \in Webs : WebNext(w)
  \/ \E c \in Users :
       \/ Asks(c) \/ (\E accept \in BOOLEAN : Responds(c, accept))
       \/ Dies(c) \/ Hangs(c) \/ Resumes(c)
  \/ \E k \in Clis : CliClaims(k) \/ CliAsks(k)
  \/ ServerBeats \/ ForceRelease \/ CoordinatorStarts \/ CoordinatorEnds \/ Tick

\* The timers of a client that runs go off, and time passes.
Fairness ==
  /\ \A c \in Tuis : WF_vars(TuiDetaches(c) \/ TuiRefreshes(c) \/ TuiBeats(c))
  /\ \A w \in Webs : WF_vars(WebClaims(w)) /\ WF_vars(WebBeats(w))
  /\ WF_vars(Tick)

Spec == Init /\ [][Next]_vars /\ Fairness
-------------------------------------------------------------------------------
\* Properties

\* The shape of the record: who is not there has no heartbeat, and a request has a number
\* that was given out, and a requester.
TypeOK ==
  /\ lease \in OwnershipRecord
  /\ lease.owner = None => lease.beat = 0
  /\ \A c \in Clients \ lease.viewers : lease.vbeat[c] = 0
  /\ lease.request.id <= nreq /\ (lease.request.id = 0 <=> lease.request.by = None)
  /\ earlier \subseteq Clients \X Clients
  /\ status \in [Clients -> {"off", "running", "hung", "woken", "gone"}]
  /\ served \subseteq Clients
  /\ due \in [Webs -> 0..WebGap]
  /\ guard \in [Users -> [owner : BOOLEAN, viewer : BOOLEAN, attached : BOOLEAN]]
  /\ phase \in [Users -> {"rest", "read"}]
  /\ seen \in [Users -> [owner : Clients \cup {None}, request : 0..MaxRequests]]
  /\ coordinator \in BOOLEAN
  /\ nreq \in 0..MaxRequests /\ seizures \in 0..MaxSeizures /\ reloads \in 0..MaxReloads
  /\ delays \in 0..MaxDelays /\ faults \in 0..MaxFaults

Running == {c \in Clients : status[c] = "running"}

\* The owner every reader sees hands the lease over only to the client whose request
\* its user has seen, and keeps it otherwise while it runs.
KeptBy == INSTANCE Lease WITH
  holder <- Loaded.owner, wish <- Loaded.request, running <- Running,
  shown <- [c \in Clients |-> IF c \in Users THEN seen[c].request ELSE 0],
  serving <- {c \in Users : guard[c].attached}

KeepsLease == KeptBy!Spec

\* A request that is accepted, or that the policy grants when it is overdue, makes its
\* requester the owner for every reader if that client runs: the heartbeat it
\* brings along, stamped when it asked, must not cost it the lease at once.
TransferTakesEffect ==
  [][\A d \in Running :
       (/\ Loaded.request.by = d /\ Loaded'.request.id = 0
        /\ (AutoAccept /\ Tick) \/ (\E c \in Users : Responds(c, TRUE)))
         => Loaded'.owner = d]_vars

\* Whenever the owner is lost, the viewer that takes its place is one that beats and
\* no other viewer is older: the order of the viewers is total.
ViewersOrdered ==
  \A v, w \in lease.viewers : v # w => (<<v, w>> \in earlier) # (<<w, v>> \in earlier)

\* A lease whose owner has died or hangs comes back to a client that runs, if some
\* tab stays open: it is not lost with its owner.
LeaseAdopted ==
  (\E w \in Webs : <>[](w \in Running)) => []<>(Loaded.owner \in Running)
===============================================================================
