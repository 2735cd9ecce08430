-------------------------- MODULE OwnershipProofs --------------------------
(***************************************************************************)
(* Theorems about the specification of module ProcessOwnership, for every  *)
(* value of its constants.                                                 *)
(***************************************************************************)
EXTENDS ProcessOwnership, TLAPS, FiniteSetTheorems

-----------------------------------------------------------------------------
(* The stored record.                                                      *)

Sound(l) ==
  /\ l \in OwnershipRecord
  /\ l.owner = None => l.beat = 0
  /\ \A c \in Clients \ l.viewers : l.vbeat[c] = 0
  /\ l.request.id = 0 <=> l.request.by = None

\* The number of a request goes up only with a new request.
Follows(l, m) == m.request \in {l.request, NoRequest}

LEMMA AgesAre == 0 \in Ages /\ \A a \in Ages : a \in Nat /\ Aged(a) \in Ages
BY TimesAssumption DEF Ages, Aged, Old

LEMMA NoRequestIsSound ==
  NoRequest \in Requests /\ NoRequest.id = 0 /\ NoRequest.by = None
BY AgesAre, TimesAssumption DEF NoRequest, Requests

LEMMA OwnedByKeeps ==
  ASSUME NEW l, Sound(l), NEW c \in Clients, NEW b \in Ages
  PROVE  /\ Sound(OwnedBy(l, c, b)) /\ OwnedBy(l, c, b).request = l.request
         /\ OwnedBy(l, c, b).viewers \subseteq l.viewers
<1> DEFINE m == OwnedBy(l, c, b)
<1>1. /\ m.owner = c /\ m.beat = b /\ m.viewers = l.viewers \ {c}
      /\ m.vbeat = [l.vbeat EXCEPT ![c] = 0] /\ m.request = l.request
      /\ m \in OwnershipRecord
  BY AgesAre DEF OwnedBy, Sound, OwnershipRecord
<1> HIDE DEF m
<1>2. \A d \in Clients \ m.viewers : m.vbeat[d] = 0
  BY <1>1 DEF Sound, OwnershipRecord
<1>3. m.owner # None
  BY <1>1, ClientsAssumption
<1>4. Sound(m)
  BY <1>1, <1>2, <1>3 DEF Sound
<1> QED
  BY <1>1, <1>4 DEF m

LEMMA DisownedKeeps ==
  ASSUME NEW l, Sound(l)
  PROVE  /\ Sound(Disowned(l)) /\ Disowned(l).request = l.request
         /\ Disowned(l).viewers = l.viewers
BY AgesAre DEF Disowned, Sound, OwnershipRecord

\* A record stays sound when its request is dropped.
LEMMA DroppedKeeps ==
  ASSUME NEW l, Sound(l)
  PROVE  /\ Sound([l EXCEPT !.request = NoRequest])
         /\ [l EXCEPT !.request = NoRequest].request = NoRequest
         /\ [l EXCEPT !.request = NoRequest].viewers = l.viewers
BY NoRequestIsSound DEF Sound, OwnershipRecord

LEMMA ResolveOverdueKeeps ==
  ASSUME NEW l, Sound(l)
  PROVE  /\ Sound(ResolveOverdue(l)) /\ Follows(l, ResolveOverdue(l))
         /\ ResolveOverdue(l).viewers \subseteq l.viewers
<1>1. CASE ~Overdue(l)
  BY <1>1 DEF ResolveOverdue, Follows
<1>2. CASE Overdue(l)
  <2> DEFINE m == IF AutoAccept THEN OwnedBy(l, l.request.by, l.request.age) ELSE l
  <2>1. l.request.by \in Clients /\ l.request.age \in Ages
    BY <1>2 DEF Overdue, Sound, OwnershipRecord, Requests
  <2>2. Sound(m) /\ m.viewers \subseteq l.viewers
    BY <2>1, OwnedByKeeps
  <2>3. ResolveOverdue(l) = [m EXCEPT !.request = NoRequest]
    BY <1>2 DEF ResolveOverdue
  <2> HIDE DEF m
  <2> QED
    BY <2>2, <2>3, DroppedKeeps DEF Follows
<1> QED
  BY <1>1, <1>2

LEMMA DropStaleViewersKeeps ==
  ASSUME NEW l, Sound(l)
  PROVE  /\ Sound(DropStaleViewers(l)) /\ DropStaleViewers(l).request = l.request
         /\ DropStaleViewers(l).viewers \subseteq l.viewers
<1> DEFINE fresh == {v \in l.viewers : l.vbeat[v] <= TTL}
           vb == [c \in Clients |-> IF c \in fresh THEN l.vbeat[c] ELSE 0]
           m == DropStaleViewers(l)
<1>1. m = [l EXCEPT !.viewers = fresh, !.vbeat = vb]
  BY DEF DropStaleViewers, Sound, OwnershipRecord
<1>2. fresh \subseteq l.viewers /\ fresh \subseteq Clients /\ vb \in [Clients -> Ages]
  BY AgesAre DEF Sound, OwnershipRecord
<1>3. \A c \in Clients \ fresh : vb[c] = 0
  OBVIOUS
<1> HIDE DEF fresh, vb, m
<1>4. /\ m \in OwnershipRecord /\ m.owner = l.owner /\ m.beat = l.beat /\ m.request = l.request
      /\ m.viewers = fresh /\ m.vbeat = vb
  BY <1>1, <1>2 DEF Sound, OwnershipRecord
<1> QED
  BY <1>2, <1>3, <1>4 DEF Sound, m

-----------------------------------------------------------------------------
(* The order of the viewers.                                               *)

Strict ==
  /\ \A c \in Clients : <<c, c>> \notin earlier
  /\ \A a, b, c \in Clients :
       <<a, b>> \in earlier /\ <<b, c>> \in earlier => <<a, c>> \in earlier

Comparable(v, w) == <<v, w>> \in earlier \/ <<w, v>> \in earlier

\* Viewers have a place, and terminal clients since they opened.
Placed == lease.viewers \cup {c \in Tuis : status[c] # "off"}

Ranked == \A v \in Placed, w \in Clients : v # w => Comparable(v, w)

\* A finite set of viewers that are all comparable has an oldest one: a smallest
\* set without one would have one when it lost any of its members.
LEMMA OldestExists ==
  ASSUME NEW V \in SUBSET Clients, V # {}, Strict,
         \A v, w \in V : v # w => Comparable(v, w)
  PROVE  Oldest(V) \in V /\ \A w \in V \ {Oldest(V)} : <<Oldest(V), w>> \in earlier
<1> DEFINE First(v, W) == v \in W /\ \A w \in W \ {v} : <<v, w>> \in earlier
           T == {W \in SUBSET V : W # {} /\ \A v \in W : ~First(v, W)}
<1>1. T = {}
  <2> SUFFICES ASSUME T # {} PROVE FALSE
    OBVIOUS
  <2>1. IsFiniteSet(V)
    BY ClientsAssumption, FS_Subset
  <2>2. IsWellFoundedOn(StrictSubsetOrdering(V), SUBSET V)
    BY <2>1, FS_StrictSubsetOrderingWellFounded, FS_FiniteSubsetsOfFinite
  <2>3. T \subseteq SUBSET V
    OBVIOUS
  <2>4. PICK W \in T : \A X \in T : <<X, W>> \notin StrictSubsetOrdering(V)
    <3> HIDE DEF T
    <3> QED
      BY <2>2, <2>3, WFMin
  <2>5. PICK v \in W : TRUE
    OBVIOUS
  <2>6. W \ {v} \in SUBSET V /\ <<W \ {v}, W>> \in StrictSubsetOrdering(V)
    BY <2>5 DEF StrictSubsetOrdering
  <2>7. W \ {v} \notin T
    BY <2>4, <2>6
  <2>8. CASE W \ {v} = {}
    <3>1. First(v, W)
      BY <2>5, <2>8
    <3> QED
      BY <3>1, <2>5
  <2>9. CASE W \ {v} # {}
    <3>1. PICK m \in W \ {v} : First(m, W \ {v})
      BY <2>6, <2>7, <2>9
    <3>2. m # v /\ m \in V /\ v \in V
      BY <3>1, <2>5
    <3>3. CASE <<m, v>> \in earlier
      <4>1. First(m, W)
        BY <3>1, <3>3
      <4> QED
        BY <4>1
    <3>4. CASE <<v, m>> \in earlier
      <4>1. \A w \in W \ {v} : <<v, w>> \in earlier
        BY <3>1, <3>2, <3>4 DEF Strict
      <4>2. First(v, W)
        BY <4>1, <2>5
      <4> QED
        BY <4>2, <2>5
    <3> QED
      BY <3>2, <3>3, <3>4 DEF Comparable
  <2> QED
    BY <2>8, <2>9
<1>2. V \in SUBSET V /\ V \notin T
  BY <1>1
<1>3. \E v \in V : First(v, V)
  BY <1>2
<1> QED
  BY <1>3 DEF Oldest

LEMMA ReplaceStaleOwnerKeeps ==
  ASSUME NEW l, Sound(l), Strict,
         \A v, w \in l.viewers : v # w => Comparable(v, w)
  PROVE  /\ Sound(ReplaceStaleOwner(l)) /\ ReplaceStaleOwner(l).request = l.request
         /\ ReplaceStaleOwner(l).viewers \subseteq l.viewers
<1>1. CASE l.owner = None \/ l.beat <= TTL
  BY <1>1 DEF ReplaceStaleOwner
<1>2. CASE ~(l.owner = None \/ l.beat <= TTL) /\ l.viewers = {}
  BY <1>2, DisownedKeeps DEF ReplaceStaleOwner
<1>3. CASE ~(l.owner = None \/ l.beat <= TTL) /\ l.viewers # {}
  <2>1. l.viewers \in SUBSET Clients /\ l.vbeat \in [Clients -> Ages]
    BY DEF Sound, OwnershipRecord
  <2>2. Oldest(l.viewers) \in l.viewers
    BY <1>3, <2>1, OldestExists
  <2>3. Oldest(l.viewers) \in Clients /\ l.vbeat[Oldest(l.viewers)] \in Ages
    BY <2>1, <2>2
  <2>4. ReplaceStaleOwner(l) = OwnedBy(l, Oldest(l.viewers), l.vbeat[Oldest(l.viewers)])
    BY <1>3 DEF ReplaceStaleOwner
  <2> QED
    BY <2>3, <2>4, OwnedByKeeps
<1> QED
  BY <1>1, <1>2, <1>3

\* What every reader sees is sound, and nobody joins the viewers by being read.
LEMMA EvictKeeps ==
  ASSUME NEW l, Sound(l), Strict,
         \A v, w \in l.viewers : v # w => Comparable(v, w)
  PROVE  /\ Sound(EvictStaleClients(l)) /\ Follows(l, EvictStaleClients(l))
         /\ EvictStaleClients(l).viewers \subseteq l.viewers
<1> DEFINE a == ResolveOverdue(l)
           b == DropStaleViewers(a)
<1>1. Sound(a) /\ Follows(l, a) /\ a.viewers \subseteq l.viewers
  BY ResolveOverdueKeeps
<1> HIDE DEF a
<1>2. Sound(b) /\ b.request = a.request /\ b.viewers \subseteq a.viewers
  BY <1>1, DropStaleViewersKeeps
<1> HIDE DEF b
<1>3. Sound(ReplaceStaleOwner(b)) /\ ReplaceStaleOwner(b).request = b.request
      /\ ReplaceStaleOwner(b).viewers \subseteq b.viewers
  BY <1>1, <1>2, ReplaceStaleOwnerKeeps
<1> QED
  BY <1>1, <1>2, <1>3 DEF EvictStaleClients, Follows, a, b

-----------------------------------------------------------------------------
(* The operations on the record.                                           *)

LEMMA AddViewerKeeps ==
  ASSUME NEW l, Sound(l), NEW c \in Clients
  PROVE  LET m == AddViewerIfMissing(l, c)
         IN Sound(m) /\ m.request = l.request /\ m.viewers = l.viewers \cup {c}
<1> DEFINE m == AddViewerIfMissing(l, c)
<1>1. CASE c \in l.viewers
  BY <1>1 DEF AddViewerIfMissing
<1>2. CASE c \notin l.viewers
  <2>1. /\ m \in OwnershipRecord /\ m.owner = l.owner /\ m.beat = l.beat
        /\ m.request = l.request /\ m.viewers = l.viewers \cup {c}
        /\ m.vbeat = [l.vbeat EXCEPT ![c] = 0]
    BY <1>2, AgesAre DEF AddViewerIfMissing, Sound, OwnershipRecord
  <2> HIDE DEF m
  <2>2. \A d \in Clients \ m.viewers : m.vbeat[d] = 0
    BY <2>1 DEF Sound, OwnershipRecord
  <2>3. Sound(m) /\ m.request = l.request /\ m.viewers = l.viewers \cup {c}
    BY <2>1, <2>2 DEF Sound
  <2> QED
    BY <2>3 DEF m
<1> QED
  BY <1>1, <1>2

LEMMA ClaimOwnerKeeps ==
  ASSUME NEW l, Sound(l), NEW c \in Clients
  PROVE  LET m == ClaimOwner(l, c)
         IN /\ Sound(m) /\ Follows(l, m) /\ m.viewers \subseteq l.viewers \cup {c}
            /\ ~Joins(l, c) => m.viewers \subseteq l.viewers
<1> DEFINE m == ClaimOwner(l, c)
<1>1. CASE l.owner = None
  <2> DEFINE o == OwnedBy(l, c, 0)
  <2>1. Sound(o) /\ o.viewers \subseteq l.viewers
    BY AgesAre, OwnedByKeeps
  <2>2. m = [o EXCEPT !.request = NoRequest]
    BY <1>1 DEF ClaimOwner
  <2> HIDE DEF o, m
  <2>3. Sound(m) /\ m.request = NoRequest /\ m.viewers = o.viewers
    BY <2>1, <2>2, DroppedKeeps
  <2> QED
    BY <2>1, <2>3 DEF Follows, m
<1>2. CASE l.owner = c
  <2>1. m = l
    BY <1>2, ClientsAssumption DEF ClaimOwner
  <2> QED
    BY <2>1 DEF Follows
<1>3. CASE l.owner \notin {None, c}
  <2>1. m = AddViewerIfMissing(l, c)
    BY <1>3 DEF ClaimOwner
  <2> QED
    BY <1>3, <2>1, AddViewerKeeps DEF Follows, Joins
<1> QED
  BY <1>1, <1>2, <1>3

LEMMA ReleaseOwnerKeeps ==
  ASSUME NEW l, Sound(l), NEW c
  PROVE  LET m == ReleaseOwner(l, c)
         IN Sound(m) /\ Follows(l, m) /\ m.viewers = l.viewers
<1>1. CASE l.owner = c
  <2>1. Sound(Disowned(l)) /\ Disowned(l).viewers = l.viewers
    BY DisownedKeeps
  <2> QED
    BY <1>1, <2>1, DroppedKeeps DEF ReleaseOwner, Follows
<1> QED
  BY <1>1 DEF ReleaseOwner, Follows

LEMMA UnregisterViewerKeeps ==
  ASSUME NEW l, Sound(l), NEW c \in Clients
  PROVE  LET m == UnregisterViewer(l, c)
         IN Sound(m) /\ m.request = l.request /\ m.viewers \subseteq l.viewers
<1> DEFINE m == UnregisterViewer(l, c)
<1>1. /\ m \in OwnershipRecord /\ m.owner = l.owner /\ m.beat = l.beat
      /\ m.request = l.request /\ m.viewers = l.viewers \ {c}
      /\ m.vbeat = [l.vbeat EXCEPT ![c] = 0]
  BY AgesAre DEF UnregisterViewer, Sound, OwnershipRecord
<1> HIDE DEF m
<1>2. \A d \in Clients \ m.viewers : m.vbeat[d] = 0
  BY <1>1 DEF Sound, OwnershipRecord
<1>3. Sound(m) /\ m.request = l.request /\ m.viewers \subseteq l.viewers
  BY <1>1, <1>2 DEF Sound
<1> QED
  BY <1>3 DEF m

LEMMA RequestTakeoverKeeps ==
  ASSUME NEW l, Sound(l), NEW c \in Clients, NEW id \in 1..MaxRequests
  PROVE  LET m == RequestTakeover(l, c, id)
         IN Sound(m) /\ m.request.id = id /\ m.viewers = l.viewers
<1> DEFINE q == [id |-> id, by |-> c, age |-> 0]
           m == RequestTakeover(l, c, id)
<1>1. q \in Requests /\ q.id # 0 /\ q.by # None /\ q.id = id
  BY AgesAre, TimesAssumption, ClientsAssumption DEF Requests
<1> HIDE DEF q
<1>2. m = [l EXCEPT !.request = q]
  BY DEF RequestTakeover, q
<1> HIDE DEF m
<1>3. Sound(m) /\ m.request.id = id /\ m.viewers = l.viewers
  BY <1>1, <1>2 DEF Sound, OwnershipRecord
<1> QED
  BY <1>3 DEF m

LEMMA RespondTakeoverKeeps ==
  ASSUME NEW l, Sound(l), l.request.id # 0, NEW accept
  PROVE  LET m == RespondTakeover(l, accept)
         IN Sound(m) /\ Follows(l, m) /\ m.viewers \subseteq l.viewers
<1> DEFINE o == IF accept THEN OwnedBy(l, l.request.by, l.request.age) ELSE l
           m == RespondTakeover(l, accept)
<1>1. l.request.by \in Clients /\ l.request.age \in Ages
  BY DEF Sound, OwnershipRecord, Requests
<1>2. Sound(o) /\ o.viewers \subseteq l.viewers
  BY <1>1, OwnedByKeeps
<1>3. m = [o EXCEPT !.request = NoRequest]
  BY DEF RespondTakeover
<1> HIDE DEF o, m
<1>4. Sound(m) /\ Follows(l, m) /\ m.viewers \subseteq l.viewers
  BY <1>2, <1>3, DroppedKeeps DEF Follows
<1> QED
  BY <1>4 DEF m

LEMMA RecordHeartbeatKeeps ==
  ASSUME NEW l, Sound(l), NEW c \in Clients
  PROVE  LET m == RecordHeartbeat(l, c)
         IN Sound(m) /\ m.request = l.request /\ m.viewers = l.viewers
<1> DEFINE m == RecordHeartbeat(l, c)
<1>1. CASE l.owner = c
  BY <1>1, AgesAre, ClientsAssumption DEF RecordHeartbeat, Sound, OwnershipRecord
<1>2. CASE l.owner # c /\ c \in l.viewers
  <2>1. /\ m \in OwnershipRecord /\ m.owner = l.owner /\ m.beat = l.beat
        /\ m.request = l.request /\ m.viewers = l.viewers
        /\ m.vbeat = [l.vbeat EXCEPT ![c] = 0]
    BY <1>2, AgesAre DEF RecordHeartbeat, Sound, OwnershipRecord
  <2> HIDE DEF m
  <2>2. \A d \in Clients \ m.viewers : m.vbeat[d] = 0
    BY <2>1 DEF Sound, OwnershipRecord
  <2>3. Sound(m) /\ m.request = l.request /\ m.viewers = l.viewers
    BY <2>1, <2>2 DEF Sound
  <2> QED
    BY <2>3 DEF m
<1>3. CASE l.owner # c /\ c \notin l.viewers
  BY <1>3 DEF RecordHeartbeat
<1> QED
  BY <1>1, <1>2, <1>3

-----------------------------------------------------------------------------
(* The inductive invariant.                                                *)

\* The types of all that is not the record.
EnvOK ==
  /\ earlier \subseteq Clients \X Clients
  /\ status \in [Clients -> {"off", "running", "hung", "woken", "gone"}]
  /\ served \subseteq Clients
  /\ due \in [Webs -> 0..WebGap]
  /\ guard \in [Users -> [owner : BOOLEAN, viewer : BOOLEAN, attached : BOOLEAN]]
  /\ phase \in [Users -> {"rest", "read"}]
  /\ seen \in [Users -> [owner : Clients \cup {None}, request : 0..MaxRequests]]
  /\ coordinator \in BOOLEAN
  /\ nreq \in 0..MaxRequests /\ seizures \in 0..MaxSeizures /\ reloads \in 0..MaxReloads
  /\ delays \in 0..MaxDelays /\ faults \in 0..MaxFaults

Inv == TypeOK /\ Strict /\ Ranked

\* What is left to show of a step: its record, its other variables and its order.
LEMMA Parts ==
  Inv <=> /\ Sound(lease) /\ lease.request.id <= nreq
          /\ EnvOK /\ Strict /\ Ranked
BY DEF Inv, TypeOK, EnvOK, Sound

LEMMA PartsNext ==
  ASSUME Sound(lease'), lease'.request.id <= nreq', EnvOK', Strict', Ranked'
  PROVE  Inv'
BY DEF Inv, TypeOK, EnvOK, Sound, OwnershipRecord, Ages, Old, Requests, Clients, Users

LEMMA UsersAreClients ==
  /\ Tuis \subseteq Users /\ Webs \subseteq Users /\ Users \subseteq Clients /\ Clis \subseteq Clients
  /\ Tuis \cap Webs = {} /\ Tuis \cap Clis = {}
BY ClientsAssumption DEF Clients, Users

LEMMA LoadedSound ==
  ASSUME Inv
  PROVE  /\ Sound(Loaded) /\ Follows(lease, Loaded)
         /\ Loaded.request.id <= nreq /\ Loaded.viewers \subseteq lease.viewers
<1>1. \A v, w \in lease.viewers : v # w => Comparable(v, w)
  BY DEF Inv, TypeOK, OwnershipRecord, Ranked, Placed
<1>2. /\ Sound(Loaded) /\ Follows(lease, Loaded) /\ Loaded.viewers \subseteq lease.viewers
  BY <1>1, Parts, EvictKeeps DEF Inv, Loaded
<1>3. Loaded.request.id <= nreq
  BY <1>2, NoRequestIsSound, Parts DEF Follows, EnvOK
<1> QED
  BY <1>2, <1>3

\* The record an operation leaves carries a request that was made.
LEMMA StillMade ==
  ASSUME Inv, NEW m, Follows(Loaded, m)
  PROVE  m.request.id <= nreq
BY LoadedSound, NoRequestIsSound, Parts DEF Follows, EnvOK

LEMMA ViewTyped ==
  ASSUME NEW l, Sound(l), NEW n \in 0..MaxRequests, l.request.id <= n
  PROVE  View(l) \in [owner : Clients \cup {None}, request : 0..MaxRequests]
BY TimesAssumption DEF View, Sound, OwnershipRecord, Requests

\* Nobody new among the viewers: the order holds on.
LEMMA OrderKept ==
  ASSUME Inv, earlier' = earlier, Placed' \subseteq Placed
  PROVE  Strict' /\ Ranked'
BY DEF Inv, Strict, Ranked, Comparable

\* Who joins goes behind everybody else.
LEMMA OrderExtended ==
  ASSUME Inv, NEW c \in Clients, earlier' = LastOf(c), Placed' \subseteq Placed \cup {c}
  PROVE  Strict' /\ Ranked' /\ earlier' \subseteq Clients \X Clients
<1>1. earlier \subseteq Clients \X Clients
  BY DEF Inv, TypeOK
<1>2. \A a, b \in Clients :
        <<a, b>> \in earlier' <=> \/ a # c /\ b # c /\ <<a, b>> \in earlier
                                  \/ a # c /\ b = c
  BY DEF LastOf
<1>3. Strict'
  <2>1. \A a \in Clients : <<a, a>> \notin earlier'
    BY <1>2 DEF Inv, Strict
  <2>2. ASSUME NEW a \in Clients, NEW b \in Clients, NEW d \in Clients,
               <<a, b>> \in earlier', <<b, d>> \in earlier'
        PROVE  <<a, d>> \in earlier'
    BY <1>2, <2>2 DEF Inv, Strict
  <2> QED
    BY <2>1, <2>2 DEF Strict
<1>4. Ranked'
  <2> SUFFICES ASSUME NEW v \in Placed', NEW w \in Clients, v # w
               PROVE  Comparable(v, w)'
    BY DEF Ranked
  <2>1. v \in Clients
    BY UsersAreClients DEF Placed, Inv, TypeOK, OwnershipRecord
  <2>2. CASE v = c \/ w = c
    BY <1>2, <2>1, <2>2 DEF Comparable
  <2>3. CASE v # c /\ w # c
    BY <1>2, <2>1, <2>3 DEF Comparable, Inv, Ranked
  <2> QED
    BY <2>2, <2>3
<1>5. earlier' \subseteq Clients \X Clients
  BY <1>1 DEF LastOf
<1> QED
  BY <1>3, <1>4, <1>5

-----------------------------------------------------------------------------
(* Terminal clients.                                                       *)

LEMMA PutsOffTyped ==
  ASSUME Inv, NEW c \in Clients, PutsOff(c)
  PROVE  served' \subseteq Clients /\ delays' \in 0..MaxDelays
BY Parts, TimesAssumption DEF EnvOK, PutsOff, Serves

LEMMA TuiOpensKeeps ==
  ASSUME Inv, NEW c \in Tuis, TuiOpens(c)
  PROVE  Inv'
<1> DEFINE l == ClaimOwner(Loaded, c)
<1>0. c \in Clients /\ c \in Users
  BY UsersAreClients
<1>1. /\ Sound(l) /\ Follows(Loaded, l) /\ l.request.id <= nreq
      /\ l.viewers \subseteq lease.viewers \cup {c}
  BY <1>0, LoadedSound, ClaimOwnerKeeps, StillMade
<1>2. /\ Sound(lease') /\ lease'.request.id <= nreq'
      /\ lease'.viewers \subseteq lease.viewers \cup {c}
  BY <1>1, Parts DEF TuiOpens, counters
<1>3. View(l) \in [owner : Clients \cup {None}, request : 0..MaxRequests]
      /\ View(Loaded) \in [owner : Clients \cup {None}, request : 0..MaxRequests]
  BY <1>1, LoadedSound, ViewTyped, Parts DEF EnvOK
<1>4. Placed' \subseteq Placed \cup {c}
  BY <1>2, UsersAreClients, Parts DEF Placed, TuiOpens, EnvOK
<1>5. Strict' /\ Ranked' /\ earlier' \subseteq Clients \X Clients
  BY <1>0, <1>4, OrderExtended DEF TuiOpens
<1>6. guard' \in [Users -> [owner : BOOLEAN, viewer : BOOLEAN, attached : BOOLEAN]]
  <2>1. guard \in [Users -> [owner : BOOLEAN, viewer : BOOLEAN, attached : BOOLEAN]]
    BY Parts DEF EnvOK
  <2>2. ClaimProcessOwnership(Loaded, c, guard[c])
           \in [owner : BOOLEAN, viewer : BOOLEAN, attached : BOOLEAN]
    BY <1>0, <2>1 DEF ClaimProcessOwnership
  <2>3. \/ guard' = guard
        \/ guard' = [guard EXCEPT ![c] = ClaimProcessOwnership(Loaded, c, guard[c])]
    BY DEF TuiOpens
  <2> QED
    BY <1>0, <2>1, <2>2, <2>3
<1>7. EnvOK'
  <2>1. \/ seen' = [seen EXCEPT ![c] = View(Loaded)]
        \/ seen' = [seen EXCEPT ![c] = View(l)]
    BY DEF TuiOpens
  <2>2. seen' \in [Users -> [owner : Clients \cup {None}, request : 0..MaxRequests]]
    <3> HIDE DEF l
    <3> QED
      BY <1>0, <1>3, <2>1, Parts DEF EnvOK
  <2> QED
    BY <1>0, <1>5, <1>6, <2>2, Parts DEF EnvOK, TuiOpens, Serves, counters
<1> QED
  BY <1>2, <1>5, <1>7, PartsNext

LEMMA TuiLaunchesKeeps ==
  ASSUME Inv, NEW c \in Tuis, TuiLaunches(c)
  PROVE  Inv'
<1>0. c \in Clients /\ c \in Users /\ status[c] # "off"
  BY UsersAreClients DEF TuiLaunches, Up
<1>1. /\ Sound(lease') /\ lease'.request.id <= nreq'
      /\ lease'.viewers \subseteq lease.viewers \cup {c}
  BY <1>0, LoadedSound, ClaimOwnerKeeps, StillMade DEF TuiLaunches
<1>2. View(lease') \in [owner : Clients \cup {None}, request : 0..MaxRequests]
  BY <1>1, ViewTyped, Parts DEF EnvOK, TuiLaunches
<1>3. Placed' \subseteq Placed
  BY <1>0, <1>1 DEF Placed, TuiLaunches
<1>4. Strict' /\ Ranked'
  BY <1>3, OrderKept DEF TuiLaunches
<1>5. served' \subseteq Clients /\ delays' \in 0..MaxDelays
  BY <1>0, PutsOffTyped DEF TuiLaunches
<1>6. guard' \in [Users -> [owner : BOOLEAN, viewer : BOOLEAN, attached : BOOLEAN]]
  <2>1. guard \in [Users -> [owner : BOOLEAN, viewer : BOOLEAN, attached : BOOLEAN]]
    BY Parts DEF EnvOK
  <2>2. ClaimProcessOwnership(Loaded, c, guard[c])
           \in [owner : BOOLEAN, viewer : BOOLEAN, attached : BOOLEAN]
    BY <1>0, <2>1 DEF ClaimProcessOwnership
  <2>3. guard' = [guard EXCEPT ![c] = ClaimProcessOwnership(Loaded, c, guard[c])]
    BY DEF TuiLaunches
  <2> QED
    BY <1>0, <2>1, <2>2, <2>3
<1>7. EnvOK'
  BY <1>0, <1>2, <1>5, <1>6, Parts DEF EnvOK, TuiLaunches
<1> QED
  BY <1>1, <1>4, <1>7, PartsNext

LEMMA TuiDetachesKeeps ==
  ASSUME Inv, NEW c \in Tuis, TuiDetaches(c)
  PROVE  Inv'
<1>0. c \in Clients /\ c \in Users /\ status[c] # "off"
  BY UsersAreClients DEF TuiDetaches, Up
<1>1. /\ Sound(lease') /\ lease'.request.id <= nreq'
      /\ lease'.viewers \subseteq lease.viewers
  BY LoadedSound, ReleaseOwnerKeeps, StillMade DEF TuiDetaches, counters
<1>2. View(lease') \in [owner : Clients \cup {None}, request : 0..MaxRequests]
  BY <1>1, ViewTyped, Parts DEF EnvOK, TuiDetaches, counters
<1>3. Placed' \subseteq Placed
  BY <1>0, <1>1, Parts DEF Placed, TuiDetaches, EnvOK
<1>4. Strict' /\ Ranked'
  BY <1>3, OrderKept DEF TuiDetaches
<1>5. EnvOK'
  BY <1>0, <1>2, Parts DEF EnvOK, TuiDetaches, Serves, counters
<1> QED
  BY <1>1, <1>4, <1>5, PartsNext

LEMMA TuiRefreshesKeeps ==
  ASSUME Inv, NEW c \in Tuis, TuiRefreshes(c)
  PROVE  Inv'
<1>0. c \in Clients /\ c \in Users /\ status[c] # "off"
  BY UsersAreClients DEF TuiRefreshes, Up
<1>1. Sound(lease') /\ lease'.request.id <= nreq' /\ lease' = lease
  BY Parts DEF TuiRefreshes, counters
<1>2. View(Loaded) \in [owner : Clients \cup {None}, request : 0..MaxRequests]
  BY LoadedSound, ViewTyped, Parts DEF EnvOK
<1>3. Placed' \subseteq Placed
  BY <1>0, <1>1, Parts DEF Placed, TuiRefreshes, EnvOK
<1>4. Strict' /\ Ranked'
  BY <1>3, OrderKept DEF TuiRefreshes
<1>5. EnvOK'
  BY <1>0, <1>2, Parts DEF EnvOK, TuiRefreshes, counters
<1> QED
  BY <1>1, <1>4, <1>5, PartsNext

LEMMA TuiBeatsKeeps ==
  ASSUME Inv, NEW c \in Tuis, TuiBeats(c)
  PROVE  Inv'
<1> DEFINE claims == seen[c].owner = c /\ ~guard[c].owner
           l == IF claims THEN ClaimOwner(Loaded, c) ELSE Loaded
           g == IF claims THEN ClaimProcessOwnership(Loaded, c, guard[c]) ELSE guard[c]
<1>0. c \in Clients /\ c \in Users /\ status[c] # "off"
  BY UsersAreClients DEF TuiBeats, Up
<1>1. /\ guard' = [guard EXCEPT ![c] = g]
      /\ lease' = RecordHeartbeat(l, c) \/ lease' = lease
  BY DEF TuiBeats
<1>2. /\ Sound(l) /\ Follows(Loaded, l) /\ l.request.id <= nreq
      /\ l.viewers \subseteq lease.viewers \cup {c}
  BY <1>0, LoadedSound, ClaimOwnerKeeps, StillMade DEF Follows
<1>3. g \in [owner : BOOLEAN, viewer : BOOLEAN, attached : BOOLEAN]
  <2>1. guard[c] \in [owner : BOOLEAN, viewer : BOOLEAN, attached : BOOLEAN]
    BY <1>0, Parts DEF EnvOK
  <2> QED
    BY <2>1 DEF ClaimProcessOwnership
<1> HIDE DEF l, g
<1>4. nreq' = nreq
  BY DEF TuiBeats, counters
<1>5. /\ Sound(lease') /\ lease'.request.id <= nreq'
      /\ lease'.viewers \subseteq lease.viewers \cup {c}
  BY <1>0, <1>1, <1>2, <1>4, RecordHeartbeatKeeps, Parts
<1>6. Placed' \subseteq Placed
  BY <1>0, <1>5 DEF Placed, TuiBeats
<1>7. Strict' /\ Ranked'
  BY <1>6, OrderKept DEF TuiBeats
<1>8. EnvOK'
  BY <1>0, <1>1, <1>3, Parts DEF EnvOK, TuiBeats, Serves, counters
<1> QED
  BY <1>5, <1>7, <1>8, PartsNext

LEMMA TuiQuitsKeeps ==
  ASSUME Inv, NEW c \in Tuis, TuiQuits(c)
  PROVE  Inv'
<1> DEFINE l == ReleaseOwner(Loaded, c)
<1>0. c \in Clients /\ c \in Users /\ status[c] # "off"
  BY UsersAreClients DEF TuiQuits, Up
<1>1. /\ Sound(l) /\ Follows(Loaded, l) /\ l.request.id <= nreq
      /\ l.viewers \subseteq lease.viewers
  BY LoadedSound, ReleaseOwnerKeeps, StillMade
<1>2. /\ Sound(lease') /\ lease'.request.id <= nreq'
      /\ lease'.viewers \subseteq lease.viewers
  <2> HIDE DEF l
  <2>1. lease' = UnregisterViewer(l, c) /\ nreq' = nreq
    BY DEF TuiQuits, counters, l
  <2> QED
    BY <1>0, <1>1, <2>1, UnregisterViewerKeeps
<1>3. Placed' \subseteq Placed
  BY <1>0, <1>2, Parts DEF Placed, TuiQuits, EnvOK
<1>4. Strict' /\ Ranked'
  BY <1>3, OrderKept DEF TuiQuits
<1>5. EnvOK'
  <2>1. NoGuards \in [owner : BOOLEAN, viewer : BOOLEAN, attached : BOOLEAN]
        /\ Unseen \in [owner : Clients \cup {None}, request : 0..MaxRequests]
    BY TimesAssumption DEF NoGuards, Unseen
  <2> QED
    BY <1>0, <2>1, Parts DEF EnvOK, TuiQuits, counters
<1> QED
  BY <1>2, <1>4, <1>5, PartsNext

-----------------------------------------------------------------------------
(* Browser tabs and the server.                                            *)

LEMMA WebOpensKeeps ==
  ASSUME Inv, NEW w \in Webs, WebOpens(w)
  PROVE  Inv'
<1>0. w \in Clients /\ w \in Users /\ w \notin Tuis
  BY UsersAreClients
<1>1. /\ Sound(lease') /\ lease'.request.id <= nreq'
      /\ lease'.viewers = Loaded.viewers \cup {w} /\ Loaded.viewers \subseteq lease.viewers
  BY <1>0, LoadedSound, AddViewerKeeps DEF WebOpens
<1>2. Strict' /\ Ranked' /\ earlier' \subseteq Clients \X Clients
  <2>1. {c \in Tuis : status'[c] # "off"} \subseteq {c \in Tuis : status[c] # "off"}
    BY <1>0, UsersAreClients, Parts DEF WebOpens, EnvOK
  <2>2. CASE w \in Loaded.viewers
    <3>1. Placed' \subseteq Placed
      BY <1>1, <2>1, <2>2 DEF Placed
    <3> QED
      BY <2>2, <3>1, OrderKept, Parts DEF WebOpens, EnvOK
  <2>3. CASE w \notin Loaded.viewers
    <3>1. Placed' \subseteq Placed \cup {w}
      BY <1>1, <2>1 DEF Placed
    <3> QED
      BY <1>0, <2>3, <3>1, OrderExtended DEF WebOpens
  <2> QED
    BY <2>2, <2>3
<1>3. due' \in [Webs -> 0..WebGap] /\ reloads' \in 0..MaxReloads
  BY Parts, TimesAssumption DEF WebOpens, EnvOK
<1>4. EnvOK'
  BY <1>0, <1>2, <1>3, Parts DEF EnvOK, WebOpens, Serves
<1> QED
  BY <1>1, <1>2, <1>4, PartsNext

LEMMA WebClaimsKeeps ==
  ASSUME Inv, NEW w \in Webs, WebClaims(w)
  PROVE  Inv'
<1>0. w \in Clients /\ w \in Users
  BY UsersAreClients
<1>1. /\ Sound(lease') /\ lease'.request.id <= nreq'
      /\ lease'.viewers \subseteq lease.viewers \cup {w}
      /\ ~Joins(Loaded, w) => lease'.viewers \subseteq lease.viewers
  BY <1>0, LoadedSound, ClaimOwnerKeeps, StillMade DEF WebClaims, counters
<1>2. View(lease') \in [owner : Clients \cup {None}, request : 0..MaxRequests]
  BY <1>1, ViewTyped, Parts DEF EnvOK, WebClaims, counters
<1>3. Strict' /\ Ranked' /\ earlier' \subseteq Clients \X Clients
  <2>1. CASE Joins(Loaded, w)
    <3>1. Placed' \subseteq Placed \cup {w}
      BY <1>1 DEF Placed, WebClaims
    <3> QED
      BY <1>0, <2>1, <3>1, OrderExtended DEF WebClaims
  <2>2. CASE ~Joins(Loaded, w)
    <3>1. Placed' \subseteq Placed
      BY <1>1, <2>2 DEF Placed, WebClaims
    <3> QED
      BY <2>2, <3>1, OrderKept, Parts DEF WebClaims, EnvOK
  <2> QED
    BY <2>1, <2>2
<1>4. EnvOK'
  BY <1>0, <1>2, <1>3, Parts DEF EnvOK, WebClaims, Serves, counters
<1> QED
  BY <1>1, <1>3, <1>4, PartsNext

LEMMA WebBeatsKeeps ==
  ASSUME Inv, NEW w \in Webs, WebBeats(w)
  PROVE  Inv'
<1>0. w \in Clients /\ w \in Users /\ w \notin Tuis
  BY UsersAreClients
<1>1. /\ Sound(lease') /\ lease'.request.id <= nreq'
      /\ lease'.viewers \subseteq lease.viewers
  BY <1>0, LoadedSound, RecordHeartbeatKeeps DEF WebBeats, counters
<1>2. Placed' \subseteq Placed
  BY <1>0, <1>1, UsersAreClients, Parts DEF Placed, WebBeats, EnvOK
<1>3. Strict' /\ Ranked'
  BY <1>2, OrderKept DEF WebBeats
<1>4. EnvOK'
  BY <1>0, Parts, TimesAssumption DEF EnvOK, WebBeats, Serves, counters
<1> QED
  BY <1>1, <1>3, <1>4, PartsNext

LEMMA WebClosesKeeps ==
  ASSUME Inv, NEW w \in Webs, WebCloses(w)
  PROVE  Inv'
<1>0. w \in Clients /\ w \in Users /\ w \notin Tuis
  BY UsersAreClients
<1>1. /\ Sound(lease') /\ lease'.request.id <= nreq'
      /\ lease'.viewers \subseteq lease.viewers
  BY <1>0, LoadedSound, UnregisterViewerKeeps DEF WebCloses, counters
<1>2. Placed' \subseteq Placed
  BY <1>0, <1>1, UsersAreClients, Parts DEF Placed, WebCloses, EnvOK
<1>3. Strict' /\ Ranked'
  BY <1>2, OrderKept DEF WebCloses
<1>4. Unseen \in [owner : Clients \cup {None}, request : 0..MaxRequests]
  BY TimesAssumption DEF Unseen
<1>5. EnvOK'
  BY <1>0, <1>4, Parts DEF EnvOK, WebCloses, counters
<1> QED
  BY <1>1, <1>3, <1>5, PartsNext

LEMMA ServerBeatsKeeps ==
  ASSUME Inv, ServerBeats
  PROVE  Inv'
<1> DEFINE beat == IF Loaded.owner \in Webs \cap Loaded.viewers THEN 0 ELSE Loaded.beat
           vb == [c \in Clients |-> IF c \in Webs \ {Loaded.owner} THEN 0 ELSE Loaded.vbeat[c]]
<1>1. lease' = [Loaded EXCEPT !.beat = beat, !.vbeat = vb]
  BY LoadedSound DEF ServerBeats, Sound, OwnershipRecord
<1>2. /\ beat \in Ages /\ vb \in [Clients -> Ages]
      /\ Loaded.beat = 0 => beat = 0
      /\ \A c \in Clients : Loaded.vbeat[c] = 0 => vb[c] = 0
  BY AgesAre, LoadedSound DEF Sound, OwnershipRecord
<1> HIDE DEF beat, vb
<1>3. /\ lease' \in OwnershipRecord /\ lease'.owner = Loaded.owner /\ lease'.beat = beat
      /\ lease'.viewers = Loaded.viewers /\ lease'.vbeat = vb /\ lease'.request = Loaded.request
  BY <1>1, <1>2, LoadedSound DEF Sound, OwnershipRecord
<1>4. Sound(lease') /\ lease'.request.id <= nreq' /\ lease'.viewers \subseteq lease.viewers
  BY <1>2, <1>3, LoadedSound DEF Sound, ServerBeats, counters
<1>5. Placed' \subseteq Placed
  BY <1>4 DEF Placed, ServerBeats, clientVars
<1>6. Strict' /\ Ranked'
  BY <1>5, OrderKept DEF ServerBeats
<1>7. EnvOK'
  BY Parts DEF EnvOK, ServerBeats, clientVars, counters
<1> QED
  BY <1>4, <1>6, <1>7, PartsNext

-----------------------------------------------------------------------------
(* Takeover, and the commands.                                             *)

LEMMA AsksKeeps ==
  ASSUME Inv, NEW c \in Users, Asks(c)
  PROVE  Inv'
<1>0. c \in Clients
  BY UsersAreClients
<1>1. nreq' = nreq + 1 /\ nreq + 1 \in 1..MaxRequests
  BY Parts, TimesAssumption DEF Asks, CanAsk, EnvOK
<1>2. /\ Sound(lease') /\ lease'.request.id = nreq'
      /\ lease'.viewers \subseteq lease.viewers
  BY <1>0, <1>1, LoadedSound, RequestTakeoverKeeps DEF Asks
<1>3. View(lease') \in [owner : Clients \cup {None}, request : 0..MaxRequests]
  BY <1>1, <1>2, ViewTyped
<1>4. Placed' \subseteq Placed
  BY <1>2 DEF Placed, Asks
<1>5. Strict' /\ Ranked'
  BY <1>4, OrderKept DEF Asks
<1>6. served' \subseteq Clients /\ delays' \in 0..MaxDelays
  BY <1>0, PutsOffTyped DEF Asks
<1>7. EnvOK'
  BY <1>1, <1>3, <1>6, Parts DEF EnvOK, Asks
<1>8. lease'.request.id <= nreq'
  BY <1>1, <1>2
<1> QED
  BY <1>2, <1>5, <1>7, <1>8, PartsNext

LEMMA RespondsKeeps ==
  ASSUME Inv, NEW c \in Users, NEW accept \in BOOLEAN, Responds(c, accept)
  PROVE  Inv'
<1>0. c \in Clients
  BY UsersAreClients
<1>1. Loaded.request.id # 0
  BY DEF Responds, CanRespond
<1>2. /\ Sound(lease') /\ lease'.request.id <= nreq'
      /\ lease'.viewers \subseteq lease.viewers
  BY <1>1, LoadedSound, RespondTakeoverKeeps, StillMade DEF Responds
<1>3. /\ Sound(EvictStaleClients(lease'))
      /\ EvictStaleClients(lease').request.id <= nreq
  <2>1. \A v, u \in lease'.viewers : v # u => Comparable(v, u)
    BY <1>2, Parts DEF Sound, OwnershipRecord, Ranked, Placed
  <2>2. Sound(EvictStaleClients(lease')) /\ Follows(lease', EvictStaleClients(lease'))
    BY <1>2, <2>1, EvictKeeps DEF Inv
  <2>3. nreq' = nreq /\ nreq \in Nat
    BY Parts DEF Responds, EnvOK
  <2> QED
    BY <1>2, <2>2, <2>3, NoRequestIsSound DEF Follows
<1>4. View(EvictStaleClients(lease'))
         \in [owner : Clients \cup {None}, request : 0..MaxRequests]
  BY <1>3, ViewTyped, Parts DEF EnvOK
<1>5. Placed' \subseteq Placed
  BY <1>2 DEF Placed, Responds
<1>6. Strict' /\ Ranked'
  BY <1>5, OrderKept DEF Responds
<1>7. served' \subseteq Clients /\ delays' \in 0..MaxDelays
  BY <1>0, PutsOffTyped DEF Responds
<1>8. EnvOK'
  BY <1>4, <1>7, Parts DEF EnvOK, Responds
<1> QED
  BY <1>2, <1>6, <1>8, PartsNext

LEMMA CliClaimsKeeps ==
  ASSUME Inv, NEW k \in Clis, CliClaims(k)
  PROVE  Inv'
<1>0. k \in Clients /\ k \notin Tuis
  BY UsersAreClients
<1>1. /\ Sound(lease') /\ lease'.request.id <= nreq'
      /\ lease'.viewers \subseteq lease.viewers \cup {k}
  BY <1>0, LoadedSound, ClaimOwnerKeeps, StillMade DEF CliClaims, counters
<1>2. Placed' \subseteq Placed \cup {k}
  BY <1>0, <1>1, UsersAreClients, Parts DEF Placed, CliClaims, EnvOK
<1>3. Strict' /\ Ranked' /\ earlier' \subseteq Clients \X Clients
  BY <1>0, <1>2, OrderExtended DEF CliClaims
<1>4. EnvOK'
  BY <1>0, <1>3, Parts DEF EnvOK, CliClaims, Serves, counters
<1> QED
  BY <1>1, <1>3, <1>4, PartsNext

LEMMA CliAsksKeeps ==
  ASSUME Inv, NEW k \in Clis, CliAsks(k)
  PROVE  Inv'
<1>0. k \in Clients /\ k \notin Tuis
  BY UsersAreClients
<1>1. nreq' = nreq + 1 /\ nreq + 1 \in 1..MaxRequests
  BY Parts, TimesAssumption DEF CliAsks, CanAsk, EnvOK
<1>2. /\ Sound(lease') /\ lease'.request.id = nreq'
      /\ lease'.viewers \subseteq lease.viewers
  BY <1>0, <1>1, LoadedSound, RequestTakeoverKeeps DEF CliAsks
<1>3. Placed' \subseteq Placed
  BY <1>0, <1>2, UsersAreClients, Parts DEF Placed, CliAsks, EnvOK
<1>4. Strict' /\ Ranked'
  BY <1>3, OrderKept DEF CliAsks
<1>5. EnvOK'
  BY <1>0, <1>1, Parts DEF EnvOK, CliAsks, Serves
<1>6. lease'.request.id <= nreq'
  BY <1>1, <1>2
<1> QED
  BY <1>2, <1>4, <1>5, <1>6, PartsNext

LEMMA ForceReleaseKeeps ==
  ASSUME Inv, ForceRelease
  PROVE  Inv'
<1>1. /\ Sound(lease') /\ lease'.request.id <= nreq'
      /\ lease'.viewers \subseteq lease.viewers
  BY LoadedSound, ReleaseOwnerKeeps, StillMade DEF ForceRelease
<1>2. Placed' \subseteq Placed
  BY <1>1 DEF Placed, ForceRelease, clientVars
<1>3. Strict' /\ Ranked'
  BY <1>2, OrderKept DEF ForceRelease
<1>4. EnvOK'
  BY Parts, TimesAssumption DEF EnvOK, ForceRelease, clientVars
<1> QED
  BY <1>1, <1>3, <1>4, PartsNext

-----------------------------------------------------------------------------
(* The surroundings.                                                       *)

LEMMA SurroundingsKeep ==
  ASSUME Inv,
         \/ CoordinatorStarts \/ CoordinatorEnds \/ UNCHANGED vars
         \/ \E c \in Users : Dies(c) \/ Hangs(c) \/ Resumes(c)
  PROVE  Inv'
<1>1. CASE CoordinatorStarts \/ CoordinatorEnds \/ UNCHANGED vars
  <2>1. UNCHANGED <<lease, earlier, clientVars, counters>> /\ coordinator' \in BOOLEAN
    BY <1>1, Parts DEF CoordinatorStarts, CoordinatorEnds, vars, EnvOK
  <2>2. Placed' \subseteq Placed
    BY <2>1 DEF Placed, clientVars
  <2>3. Strict' /\ Ranked'
    BY <2>1, <2>2, OrderKept
  <2>4. EnvOK' /\ Sound(lease') /\ lease'.request.id <= nreq'
    BY <2>1, Parts DEF EnvOK, clientVars, counters
  <2> QED
    BY <2>3, <2>4, PartsNext
<1>2. ASSUME NEW c \in Users, Dies(c) \/ Hangs(c) \/ Resumes(c)
      PROVE  Inv'
  <2>0. c \in Clients /\ status[c] # "off"
    BY <1>2, UsersAreClients DEF Dies, Hangs, Resumes, Up
  <2>1. lease' = lease /\ earlier' = earlier /\ nreq' = nreq
    BY <1>2 DEF Dies, Hangs, Resumes, counters
  <2>2. Placed' \subseteq Placed
    BY <1>2, <2>0, <2>1, UsersAreClients, Parts DEF Placed, Dies, Hangs, Resumes, EnvOK
  <2>3. Strict' /\ Ranked'
    BY <2>1, <2>2, OrderKept
  <2>4. /\ Unseen \in [owner : Clients \cup {None}, request : 0..MaxRequests]
        /\ NoGuards \in [owner : BOOLEAN, viewer : BOOLEAN, attached : BOOLEAN]
    BY TimesAssumption DEF Unseen, NoGuards
  <2>5. CASE Dies(c)
    <3>1. EnvOK'
      BY <2>0, <2>4, <2>5, Parts, TimesAssumption DEF EnvOK, Dies, Fault
    <3> QED
      BY <2>1, <2>3, <3>1, Parts, PartsNext
  <2>6. CASE Hangs(c) \/ Resumes(c)
    <3>1. EnvOK'
      BY <2>0, <2>6, Parts, TimesAssumption DEF EnvOK, Hangs, Resumes, Fault, counters
    <3> QED
      BY <2>1, <2>3, <3>1, Parts, PartsNext
  <2> QED
    BY <1>2, <2>5, <2>6
<1> QED
  BY <1>1, <1>2

LEMMA TickKeeps ==
  ASSUME Inv, Tick
  PROVE  Inv'
<1> DEFINE beat == IF lease.owner = None THEN lease.beat ELSE Aged(lease.beat)
           vb == [c \in Clients |-> IF c \in lease.viewers THEN Aged(lease.vbeat[c]) ELSE 0]
           q == [lease.request EXCEPT
                   !.age = IF lease.request.id = 0 THEN 0 ELSE Aged(lease.request.age)]
<1>0. Sound(lease) /\ lease.request.id <= nreq
  BY Parts
<1>1. lease' = [lease EXCEPT !.beat = beat, !.vbeat = vb, !.request = q]
  BY <1>0 DEF Tick, Sound, OwnershipRecord, Requests
<1>2. /\ beat \in Ages /\ (lease.owner = None => beat = lease.beat)
      /\ vb \in [Clients -> Ages] /\ \A c \in Clients \ lease.viewers : vb[c] = 0
  BY <1>0, AgesAre DEF Sound, OwnershipRecord
<1>3. q \in Requests /\ q.id = lease.request.id /\ q.by = lease.request.by
  BY <1>0, AgesAre DEF Sound, OwnershipRecord, Requests
<1> HIDE DEF beat, vb, q
<1>4. /\ lease' \in OwnershipRecord /\ lease'.owner = lease.owner /\ lease'.beat = beat
      /\ lease'.viewers = lease.viewers /\ lease'.vbeat = vb /\ lease'.request = q
  BY <1>0, <1>1, <1>2, <1>3 DEF Sound, OwnershipRecord
<1>5. Sound(lease') /\ lease'.request.id <= nreq' /\ lease'.viewers \subseteq lease.viewers
  BY <1>0, <1>2, <1>3, <1>4 DEF Sound, Tick, counters
<1>6. Placed' \subseteq Placed
  BY <1>5 DEF Placed, Tick
<1>7. Strict' /\ Ranked'
  BY <1>6, OrderKept DEF Tick
<1>8. due' \in [Webs -> 0..WebGap]
  BY Parts, TimesAssumption DEF EnvOK, Tick
<1>9. EnvOK'
  BY <1>8, Parts DEF EnvOK, Tick, counters
<1> QED
  BY <1>5, <1>7, <1>9, PartsNext

-----------------------------------------------------------------------------
LEMMA InitIsSound == Init => Inv
<1> SUFFICES ASSUME Init PROVE Inv
  OBVIOUS
<1>1. Sound(lease) /\ lease.request.id <= nreq
  BY AgesAre, NoRequestIsSound DEF Init, Sound, OwnershipRecord
<1>2. EnvOK
  <2>1. /\ 0 \in 0..WebGap /\ 0 \in 0..MaxRequests /\ 0 \in 0..MaxSeizures
        /\ 0 \in 0..MaxReloads /\ 0 \in 0..MaxDelays /\ 0 \in 0..MaxFaults
    BY TimesAssumption
  <2>2. /\ Unseen \in [owner : Clients \cup {None}, request : 0..MaxRequests]
        /\ NoGuards \in [owner : BOOLEAN, viewer : BOOLEAN, attached : BOOLEAN]
    BY <2>1 DEF Unseen, NoGuards
  <2> QED
    BY <2>1, <2>2 DEF Init, EnvOK
<1>3. Strict /\ Ranked
  BY UsersAreClients DEF Init, Strict, Ranked, Placed
<1> QED
  BY <1>1, <1>2, <1>3, Parts

LEMMA StepKeeps == Inv /\ [Next]_vars => Inv'
<1> SUFFICES ASSUME Inv, [Next]_vars PROVE Inv'
  OBVIOUS
<1>1. ASSUME NEW c \in Tuis, TuiNext(c) PROVE Inv'
  BY <1>1, TuiOpensKeeps, TuiLaunchesKeeps, TuiDetachesKeeps, TuiRefreshesKeeps,
     TuiBeatsKeeps, TuiQuitsKeeps DEF TuiNext
<1>2. ASSUME NEW w \in Webs, WebNext(w) PROVE Inv'
  BY <1>2, WebOpensKeeps, WebClaimsKeeps, WebBeatsKeeps, WebClosesKeeps DEF WebNext
<1>3. ASSUME NEW c \in Users, Asks(c) \/ (\E accept \in BOOLEAN : Responds(c, accept))
      PROVE  Inv'
  BY <1>3, AsksKeeps, RespondsKeeps
<1>4. ASSUME NEW k \in Clis, CliClaims(k) \/ CliAsks(k) PROVE Inv'
  BY <1>4, CliClaimsKeeps, CliAsksKeeps
<1>5. CASE \/ CoordinatorStarts \/ CoordinatorEnds \/ UNCHANGED vars
           \/ \E c \in Users : Dies(c) \/ Hangs(c) \/ Resumes(c)
  BY <1>5, SurroundingsKeep
<1>6. CASE ServerBeats \/ ForceRelease \/ Tick
  BY <1>6, ServerBeatsKeeps, ForceReleaseKeeps, TickKeeps
<1>7. Next => \/ \E c \in Tuis : TuiNext(c)
              \/ \E w \in Webs : WebNext(w)
              \/ \E c \in Users : Asks(c) \/ \E accept \in BOOLEAN : Responds(c, accept)
              \/ \E c \in Users : Dies(c) \/ Hangs(c) \/ Resumes(c)
              \/ \E k \in Clis : CliClaims(k) \/ CliAsks(k)
              \/ CoordinatorStarts \/ CoordinatorEnds
              \/ ServerBeats \/ ForceRelease \/ Tick
  BY Zenon DEF Next
<1> QED
  BY Zenon, <1>1, <1>2, <1>3, <1>4, <1>5, <1>6, <1>7

\* Whatever the clients, the policy and the times are, the record keeps its shape:
\* evicting and promoting never puts anybody in charge who is not a client.
THEOREM Typed == Spec => []TypeOK
<1>1. Init => Inv
  BY InitIsSound
<1>2. Inv /\ [Next]_vars => Inv'
  BY StepKeeps
<1>3. Inv => TypeOK
  BY DEF Inv
<1> QED
  BY <1>1, <1>2, <1>3, PTL DEF Spec

\* Of any two viewers one is the older: promote_oldest_viewer always has one answer.
THEOREM Ordered == Spec => []ViewersOrdered
<1>1. Init => Inv
  BY InitIsSound
<1>2. Inv /\ [Next]_vars => Inv'
  BY StepKeeps
<1>3. Inv => ViewersOrdered
  <2> SUFFICES ASSUME Inv, NEW v \in lease.viewers, NEW w \in lease.viewers, v # w
               PROVE  (<<v, w>> \in earlier) # (<<w, v>> \in earlier)
    BY DEF ViewersOrdered
  <2>1. v \in Clients /\ w \in Clients /\ v \in Placed
    BY DEF Inv, TypeOK, OwnershipRecord, Placed
  <2>2. Comparable(v, w)
    BY <2>1 DEF Inv, Ranked
  <2>3. ~(<<v, w>> \in earlier /\ <<w, v>> \in earlier)
    BY <2>1 DEF Inv, Strict
  <2> QED
    BY <2>2, <2>3 DEF Comparable
<1> QED
  BY <1>1, <1>2, <1>3, PTL DEF Spec

-----------------------------------------------------------------------------
(* What a reader makes of a record, for any order of the viewers.          *)

First(V, order) == CHOOSE v \in V : \A w \in V \ {v} : <<v, w>> \in order

Promoted(l, order) ==
  IF l.owner = None \/ l.beat <= TTL THEN l
  ELSE IF l.viewers = {} THEN Disowned(l)
  ELSE OwnedBy(l, First(l.viewers, order), l.vbeat[First(l.viewers, order)])

Read(l, order) == Promoted(DropStaleViewers(ResolveOverdue(l)), order)

LEMMA LoadedIsRead == Loaded = Read(lease, earlier) /\ Loaded' = Read(lease', earlier')
BY Zenon DEF Loaded, EvictStaleClients, ReplaceStaleOwner, Oldest, Read, Promoted, First

\* V has exactly one oldest member.
Ordering(V, order) ==
  /\ \A v, w \in V : v # w => <<v, w>> \in order \/ <<w, v>> \in order
  /\ \A v, w \in V : v # w => ~(<<v, w>> \in order /\ <<w, v>> \in order)
  /\ V # {} => \E v \in V : \A w \in V \ {v} : <<v, w>> \in order

LEMMA FirstIsFirst ==
  ASSUME NEW V, NEW order, Ordering(V, order), V # {}
  PROVE  /\ First(V, order) \in V
         /\ \A w \in V \ {First(V, order)} : <<First(V, order), w>> \in order
         /\ \A v \in V : (\A w \in V \ {v} : <<v, w>> \in order) => v = First(V, order)
<1>1. \E v \in V : \A w \in V \ {v} : <<v, w>> \in order
  BY DEF Ordering
<1>2. /\ First(V, order) \in V
      /\ \A w \in V \ {First(V, order)} : <<First(V, order), w>> \in order
  BY <1>1 DEF First
<1>3. ASSUME NEW v \in V, \A w \in V \ {v} : <<v, w>> \in order
      PROVE  v = First(V, order)
  BY <1>2, <1>3 DEF Ordering
<1> QED
  BY <1>2, <1>3

LEMMA ViewersAreOrdered ==
  ASSUME Inv, NEW V \in SUBSET lease.viewers
  PROVE  Ordering(V, earlier)
<1>1. V \subseteq Clients /\ \A v \in V, w \in Clients : v # w => Comparable(v, w)
  BY DEF Inv, TypeOK, OwnershipRecord, Ranked, Placed
<1>2. \A v, w \in V : v # w => <<v, w>> \in earlier \/ <<w, v>> \in earlier
  BY <1>1 DEF Comparable
<1>3. \A v, w \in V : v # w => ~(<<v, w>> \in earlier /\ <<w, v>> \in earlier)
  BY <1>1 DEF Inv, Strict
<1>4. V # {} => \E v \in V : \A w \in V \ {v} : <<v, w>> \in earlier
  BY <1>1, OldestExists DEF Inv
<1> QED
  BY <1>2, <1>3, <1>4 DEF Ordering

LEMMA OwnedByFields ==
  ASSUME NEW l, Sound(l), NEW c \in Clients, NEW b
  PROVE  LET m == OwnedBy(l, c, b)
         IN /\ m.owner = c /\ m.beat = b /\ m.viewers = l.viewers \ {c} /\ m.request = l.request
            /\ \A v \in m.viewers : m.vbeat[v] = l.vbeat[v]
BY DEF OwnedBy, Sound, OwnershipRecord

LEMMA DropFields ==
  ASSUME NEW l, Sound(l)
  PROVE  LET m == DropStaleViewers(l)
         IN /\ m.owner = l.owner /\ m.beat = l.beat /\ m.request = l.request
            /\ m.viewers = {v \in l.viewers : l.vbeat[v] <= TTL}
            /\ \A v \in m.viewers : m.vbeat[v] = l.vbeat[v]
            /\ (\A v \in l.viewers : l.vbeat[v] <= TTL) => m = l
<1> DEFINE fresh == {v \in l.viewers : l.vbeat[v] <= TTL}
           vb == [c \in Clients |-> IF c \in fresh THEN l.vbeat[c] ELSE 0]
           m == DropStaleViewers(l)
<1>1. m = [l EXCEPT !.viewers = fresh, !.vbeat = vb]
  BY DEF DropStaleViewers, Sound, OwnershipRecord
<1>2. \A v \in fresh : vb[v] = l.vbeat[v]
  BY DEF Sound, OwnershipRecord
<1>3. (\A v \in l.viewers : l.vbeat[v] <= TTL) => fresh = l.viewers /\ vb = l.vbeat
  <2> SUFFICES ASSUME \A v \in l.viewers : l.vbeat[v] <= TTL
               PROVE  fresh = l.viewers /\ vb = l.vbeat
    OBVIOUS
  <2>1. fresh = l.viewers
    OBVIOUS
  <2>2. l.vbeat \in [Clients -> Ages] /\ \A c \in Clients \ l.viewers : l.vbeat[c] = 0
    BY DEF Sound, OwnershipRecord
  <2>3. vb = [c \in Clients |-> l.vbeat[c]]
    BY <2>1, <2>2
  <2> QED
    BY <2>1, <2>2, <2>3
<1> HIDE DEF vb, m
<1>4. /\ m.owner = l.owner /\ m.beat = l.beat /\ m.request = l.request
      /\ m.viewers = fresh /\ m.vbeat = vb
  BY <1>1 DEF Sound, OwnershipRecord
<1>5. (\A v \in l.viewers : l.vbeat[v] <= TTL) => m = l
  BY <1>1, <1>3 DEF Sound, OwnershipRecord
<1> QED
  BY <1>2, <1>4, <1>5 DEF m

LEMMA ResolveFields ==
  ASSUME NEW l, Sound(l)
  PROVE  LET m == ResolveOverdue(l)
         IN /\ ~Overdue(l) => m = l
            /\ Overdue(l) => m.request = NoRequest
            /\ Overdue(l) /\ ~AutoAccept =>
                 m.owner = l.owner /\ m.beat = l.beat /\ m.viewers = l.viewers /\ m.vbeat = l.vbeat
            /\ Overdue(l) /\ AutoAccept =>
                 /\ m.owner = l.request.by /\ m.beat = l.request.age
                 /\ m.viewers = l.viewers \ {l.request.by}
                 /\ \A v \in m.viewers : m.vbeat[v] = l.vbeat[v]
            /\ ~Overdue(m)
<1> DEFINE o == IF AutoAccept THEN OwnedBy(l, l.request.by, l.request.age) ELSE l
           m == ResolveOverdue(l)
<1>1. CASE ~Overdue(l)
  BY <1>1 DEF ResolveOverdue
<1>2. CASE Overdue(l)
  <2>1. l.request.by \in Clients /\ l.request.age \in Ages
    BY <1>2 DEF Overdue, Sound, OwnershipRecord, Requests
  <2>2. Sound(o)
    BY <2>1, OwnedByKeeps
  <2>3. m = [o EXCEPT !.request = NoRequest]
    BY <1>2 DEF ResolveOverdue
  <2> HIDE DEF o, m
  <2>4. /\ m.owner = o.owner /\ m.beat = o.beat /\ m.viewers = o.viewers
        /\ m.vbeat = o.vbeat /\ m.request = NoRequest
    BY <2>2, <2>3 DEF Sound, OwnershipRecord
  <2>5. ~Overdue(m)
    BY <2>4, NoRequestIsSound DEF Overdue
  <2>6. AutoAccept => /\ o.owner = l.request.by /\ o.beat = l.request.age
                      /\ o.viewers = l.viewers \ {l.request.by}
                      /\ \A v \in o.viewers : o.vbeat[v] = l.vbeat[v]
    BY <2>1, OwnedByFields DEF o
  <2>7. ~AutoAccept => o = l
    BY DEF o
  <2> QED
    BY <1>2, <2>4, <2>5, <2>6, <2>7 DEF m
<1> QED
  BY <1>1, <1>2

-----------------------------------------------------------------------------
(* A clean record: reading it changes nothing.                             *)

Clean(l) ==
  /\ ~Overdue(l)
  /\ \A v \in l.viewers : l.vbeat[v] <= TTL
  /\ l.owner = None \/ l.beat <= TTL

LEMMA CleanIsRead ==
  ASSUME NEW l, Sound(l), Clean(l), NEW order
  PROVE  Read(l, order) = l
<1>1. ResolveOverdue(l) = l
  BY ResolveFields DEF Clean
<1>2. DropStaleViewers(l) = l
  BY DropFields DEF Clean
<1> QED
  BY <1>1, <1>2 DEF Read, Promoted, Clean

LEMMA PromotedFields ==
  ASSUME NEW l, Sound(l), NEW order, Ordering(l.viewers, order)
  PROVE  LET m == Promoted(l, order)
             f == First(l.viewers, order)
         IN /\ Sound(m) /\ m.request = l.request
            /\ l.owner = None \/ l.beat <= TTL => m = l
            /\ l.owner # None /\ ~(l.beat <= TTL) /\ l.viewers = {} =>
                 m.owner = None /\ m.viewers = {}
            /\ l.owner # None /\ ~(l.beat <= TTL) /\ l.viewers # {} =>
                 /\ f \in l.viewers /\ m.owner = f /\ m.beat = l.vbeat[f]
                 /\ m.viewers = l.viewers \ {f}
            /\ \A v \in m.viewers : v \in l.viewers /\ m.vbeat[v] = l.vbeat[v]
<1> DEFINE f == First(l.viewers, order)
           m == Promoted(l, order)
<1>1. CASE l.owner = None \/ l.beat <= TTL
  BY <1>1 DEF Promoted
<1>2. CASE l.owner # None /\ ~(l.beat <= TTL) /\ l.viewers = {}
  <2>1. m = Disowned(l)
    BY <1>2 DEF Promoted
  <2> QED
    BY <1>2, <2>1, DisownedKeeps DEF Disowned, Sound, OwnershipRecord
<1>3. CASE l.owner # None /\ ~(l.beat <= TTL) /\ l.viewers # {}
  <2>1. f \in l.viewers
    BY <1>3, FirstIsFirst
  <2>2. f \in Clients /\ l.vbeat[f] \in Ages
    BY <2>1 DEF Sound, OwnershipRecord
  <2>3. m = OwnedBy(l, f, l.vbeat[f])
    BY <1>3 DEF Promoted
  <2> HIDE DEF f, m
  <2>4. /\ m.owner = f /\ m.beat = l.vbeat[f] /\ m.viewers = l.viewers \ {f}
        /\ m.request = l.request /\ \A v \in m.viewers : m.vbeat[v] = l.vbeat[v]
    BY <2>2, <2>3, OwnedByFields
  <2>5. Sound(m)
    BY <2>2, <2>3, OwnedByKeeps
  <2> QED
    BY <1>3, <2>1, <2>4, <2>5 DEF f, m
<1> QED
  BY <1>1, <1>2, <1>3

\* The clients a record names.
Named(l) == l.viewers \cup {l.owner, l.request.by, None}

LEMMA ReadIsClean ==
  ASSUME NEW l, Sound(l), NEW order,
         \A V \in SUBSET l.viewers : Ordering(V, order)
  PROVE  LET m == Read(l, order)
         IN Sound(m) /\ Clean(m) /\ Named(m) \subseteq Named(l)
            /\ (l.owner \notin l.viewers => m.owner \notin m.viewers)
<1> DEFINE a == ResolveOverdue(l)
           b == DropStaleViewers(a)
           m == Promoted(b, order)
<1>1. Sound(a) /\ ~Overdue(a) /\ a.viewers \subseteq l.viewers /\ a.request \in {l.request, NoRequest}
      /\ a.owner \in {l.owner, l.request.by}
      /\ (l.owner \notin l.viewers => a.owner \notin a.viewers)
  BY ResolveOverdueKeeps, ResolveFields DEF Follows
<1> HIDE DEF a
<1>2. /\ Sound(b) /\ b.owner = a.owner /\ b.request = a.request /\ b.viewers \subseteq a.viewers
      /\ \A v \in b.viewers : b.vbeat[v] <= TTL
  BY <1>1, DropFields, DropStaleViewersKeeps
<1> HIDE DEF b
<1>3. Ordering(b.viewers, order)
  BY <1>1, <1>2
<1>4. /\ Sound(m) /\ m.request = b.request /\ m.owner \in b.viewers \cup {b.owner, None}
      /\ m.owner = None \/ m.beat <= TTL
      /\ \A v \in m.viewers : v \in b.viewers /\ m.vbeat[v] = b.vbeat[v]
      /\ (b.owner \notin b.viewers => m.owner \notin m.viewers)
  BY <1>2, <1>3, PromotedFields
<1> HIDE DEF m
<1>5. Clean(m)
  BY <1>1, <1>2, <1>4 DEF Clean, Overdue
<1>6. Named(m) \subseteq Named(l)
  BY <1>1, <1>2, <1>4, NoRequestIsSound DEF Named
<1> QED
  BY <1>1, <1>2, <1>4, <1>5, <1>6 DEF Read, a, b, m

-----------------------------------------------------------------------------
(* Prompt clients.                                                         *)

\* How old the heartbeat may be that a client brings along when its request is granted.
Lag(c) == IF c \in Requesters THEN Timeout ELSE 0

\* Requests are granted or dropped before they are older than a heartbeat may be, and
\* a client that runs has the time to beat before the one it brought along is stale.
Prompt ==
  /\ MaxReloads = 0
  /\ Requesters # {} => Timeout \in 1..(TTL - 1)
  /\ \A c \in Tuis : Lag(c) + MaxDelays < TTL
  /\ \A w \in Webs : Lag(w) + WebGap <= TTL

LEMMA LagIs ==
  ASSUME Prompt
  PROVE  \A c : Lag(c) \in Nat /\ Lag(c) <= TTL
BY TimesAssumption DEF Lag, Prompt

\* What an operation of c makes of a record: heartbeats are renewed or left alone, and
\* nobody but c is named anew.
Touches(l, m, c) ==
  /\ m.owner # None => m.beat <= Lag(m.owner) \/ (m.owner = l.owner /\ m.beat <= l.beat)
  /\ \A v \in m.viewers :
       m.vbeat[v] <= Lag(v) \/ (v \in l.viewers /\ m.vbeat[v] <= l.vbeat[v])
  /\ m.viewers \subseteq l.viewers \cup {c}
  /\ m.owner \in {l.owner, l.request.by, None, c}
  /\ m.request \in {l.request, NoRequest} \/ (m.request.age = 0 /\ m.request.by = c /\ c \in Requesters)
  /\ l.owner \notin l.viewers => m.owner \notin m.viewers

LEMMA TouchesNothing ==
  ASSUME NEW l, Sound(l), NEW c
  PROVE  Touches(l, l, c)
<1>1. l.beat \in Nat /\ \A v \in l.viewers : l.vbeat[v] \in Nat
  BY AgesAre DEF Sound, OwnershipRecord
<1> QED
  BY <1>1 DEF Touches

LEMMA DisownTouches ==
  ASSUME NEW l, Sound(l), NEW c
  PROVE  LET m == ReleaseOwner(l, c)
         IN /\ Touches(l, m, None) /\ m.viewers = l.viewers
            /\ l.owner = c => m.owner = None /\ m.request = NoRequest
            /\ l.owner # c => m = l
<1>1. CASE l.owner # c
  BY <1>1, TouchesNothing DEF ReleaseOwner
<1>2. CASE l.owner = c
  <2> DEFINE m == ReleaseOwner(l, c)
  <2>1. m = [Disowned(l) EXCEPT !.request = NoRequest]
    BY <1>2 DEF ReleaseOwner
  <2>2. /\ m.owner = None /\ m.viewers = l.viewers /\ m.vbeat = l.vbeat
        /\ m.request = NoRequest
    BY <2>1 DEF Disowned, Sound, OwnershipRecord
  <2> HIDE DEF m
  <2>3. None \notin l.viewers /\ \A v \in l.viewers : l.vbeat[v] \in Nat
    BY AgesAre, ClientsAssumption DEF Sound, OwnershipRecord
  <2>4. Touches(l, m, None)
    BY <2>2, <2>3 DEF Touches
  <2> QED
    BY <1>2, <2>2, <2>4 DEF m
<1> QED
  BY <1>1, <1>2

LEMMA UnregisterTouches ==
  ASSUME NEW l, Sound(l), NEW c \in Clients
  PROVE  LET m == UnregisterViewer(l, c)
         IN Touches(l, m, None) /\ m.owner = l.owner /\ c \notin m.viewers
<1> DEFINE m == UnregisterViewer(l, c)
<1>1. /\ m.owner = l.owner /\ m.beat = l.beat /\ m.request = l.request
      /\ m.viewers = l.viewers \ {c} /\ m.vbeat = [l.vbeat EXCEPT ![c] = 0]
  BY DEF UnregisterViewer, Sound, OwnershipRecord
<1> HIDE DEF m
<1>2. l.beat \in Nat /\ \A v \in l.viewers : l.vbeat[v] \in Nat
  BY AgesAre DEF Sound, OwnershipRecord
<1>3. \A v \in m.viewers : m.vbeat[v] = l.vbeat[v]
  BY <1>1 DEF Sound, OwnershipRecord
<1>4. Touches(l, m, None)
  BY <1>1, <1>2, <1>3 DEF Touches
<1> QED
  BY <1>1, <1>4 DEF m

LEMMA AddTouches ==
  ASSUME Prompt, NEW l, Sound(l), NEW c \in Clients
  PROVE  LET m == AddViewerIfMissing(l, c)
         IN /\ l.owner # c => Touches(l, m, c)
            /\ m.owner = l.owner /\ m.beat = l.beat /\ m.request = l.request
            /\ m.viewers = l.viewers \cup {c}
            /\ c \notin l.viewers => m.vbeat[c] = 0
<1> DEFINE m == AddViewerIfMissing(l, c)
<1>0. l.beat \in Nat /\ \A v \in l.viewers : l.vbeat[v] \in Nat
  BY AgesAre DEF Sound, OwnershipRecord
<1>1. CASE c \in l.viewers
  BY <1>1, TouchesNothing DEF AddViewerIfMissing
<1>2. CASE c \notin l.viewers
  <2>1. /\ m.owner = l.owner /\ m.beat = l.beat /\ m.request = l.request
        /\ m.viewers = l.viewers \cup {c} /\ m.vbeat = [l.vbeat EXCEPT ![c] = 0]
    BY <1>2 DEF AddViewerIfMissing, Sound, OwnershipRecord
  <2> HIDE DEF m
  <2>2. m.vbeat[c] = 0 /\ \A v \in l.viewers : m.vbeat[v] = l.vbeat[v]
    BY <1>2, <2>1 DEF Sound, OwnershipRecord
  <2>3. l.owner # c => Touches(l, m, c)
    BY <1>0, <2>1, <2>2, LagIs DEF Touches
  <2> QED
    BY <1>2, <2>1, <2>2, <2>3 DEF m
<1> QED
  BY <1>1, <1>2

\* What becomes of a claim: c gets a free lease, keeps its own, or joins the viewers.
LEMMA ClaimTouches ==
  ASSUME Prompt, NEW l, Sound(l), NEW c \in Clients
  PROVE  LET m == ClaimOwner(l, c)
         IN /\ Touches(l, m, c)
            /\ l.owner = None => m.owner = c /\ m.beat = 0 /\ c \notin m.viewers
            /\ l.owner = c => m = l
            /\ l.owner \notin {None, c} =>
                 /\ m.owner = l.owner /\ c \in m.viewers
                 /\ c \notin l.viewers => m.vbeat[c] = 0
<1> DEFINE m == ClaimOwner(l, c)
<1>0. \A v \in l.viewers : l.vbeat[v] \in Nat
  BY AgesAre DEF Sound, OwnershipRecord
<1>1. CASE l.owner = None
  <2> DEFINE o == OwnedBy(l, c, 0)
  <2>1. /\ o.owner = c /\ o.beat = 0 /\ o.viewers = l.viewers \ {c}
        /\ \A v \in o.viewers : o.vbeat[v] = l.vbeat[v]
    BY OwnedByFields
  <2>2. Sound(o)
    BY AgesAre, OwnedByKeeps
  <2>3. m = [o EXCEPT !.request = NoRequest]
    BY <1>1 DEF ClaimOwner
  <2> HIDE DEF o, m
  <2>4. /\ m.owner = c /\ m.beat = 0 /\ m.viewers = l.viewers \ {c} /\ m.request = NoRequest
        /\ \A v \in m.viewers : m.vbeat[v] = l.vbeat[v]
    BY <2>1, <2>2, <2>3 DEF Sound, OwnershipRecord
  <2>5. Touches(l, m, c)
    BY <1>0, <2>4, LagIs DEF Touches
  <2>6. None # c
    BY ClientsAssumption
  <2> QED
    BY <1>1, <2>4, <2>5, <2>6 DEF m
<1>2. CASE l.owner = c
  <2>1. m = l
    BY <1>2, ClientsAssumption DEF ClaimOwner
  <2>2. c # None
    BY ClientsAssumption
  <2> QED
    BY <1>2, <2>1, <2>2, TouchesNothing
<1>3. CASE l.owner \notin {None, c}
  <2>1. m = AddViewerIfMissing(l, c)
    BY <1>3 DEF ClaimOwner
  <2> QED
    BY <1>3, <2>1, AddTouches
<1> QED
  BY <1>1, <1>2, <1>3

LEMMA AskTouches ==
  ASSUME NEW l, Sound(l), NEW c \in Requesters, NEW id
  PROVE  LET m == RequestTakeover(l, c, id)
         IN Touches(l, m, c) /\ m.owner = l.owner /\ m.viewers = l.viewers
<1> DEFINE q == [id |-> id, by |-> c, age |-> 0]
           m == RequestTakeover(l, c, id)
<1>1. m = [l EXCEPT !.request = q] /\ q.age = 0 /\ q.by = c
  BY DEF RequestTakeover
<1> HIDE DEF m, q
<1>2. /\ m.owner = l.owner /\ m.beat = l.beat /\ m.viewers = l.viewers /\ m.vbeat = l.vbeat
      /\ m.request = q
  BY <1>1 DEF Sound, OwnershipRecord
<1>3. l.beat \in Nat /\ \A v \in l.viewers : l.vbeat[v] \in Nat
  BY AgesAre DEF Sound, OwnershipRecord
<1>4. Touches(l, m, c)
  BY <1>1, <1>2, <1>3 DEF Touches
<1> QED
  BY <1>2, <1>4 DEF m

\* The answer to a request that is not overdue hands on a heartbeat that is not stale.
LEMMA AnswerTouches ==
  ASSUME Prompt, NEW l, Sound(l), ~Overdue(l), l.request.id # 0,
         l.request.by \in Requesters, NEW accept \in BOOLEAN
  PROVE  LET m == RespondTakeover(l, accept)
         IN /\ Touches(l, m, None) /\ m.request = NoRequest
            /\ accept => m.owner = l.request.by
            /\ ~accept => m.owner = l.owner
<1> DEFINE o == IF accept THEN OwnedBy(l, l.request.by, l.request.age) ELSE l
           m == RespondTakeover(l, accept)
<1>1. l.request.by \in Clients /\ l.request.age \in Ages
  BY DEF Sound, OwnershipRecord, Requests
<1>2. l.request.age \in Nat /\ l.request.age <= Lag(l.request.by)
  <2>1. l.request.age \in Nat
    BY <1>1, AgesAre
  <2>2. Timeout \in Nat /\ Timeout > 0
    BY TimesAssumption DEF Prompt
  <2>3. ~(l.request.age > Timeout)
    BY <2>2 DEF Overdue
  <2> QED
    BY <2>1, <2>2, <2>3 DEF Lag
<1>3. Sound(o)
  BY <1>1, OwnedByKeeps
<1>4. /\ accept => /\ o.owner = l.request.by /\ o.beat = l.request.age
                   /\ o.viewers = l.viewers \ {l.request.by}
                   /\ \A v \in o.viewers : o.vbeat[v] = l.vbeat[v]
      /\ ~accept => o = l
  BY <1>1, OwnedByFields
<1>5. m = [o EXCEPT !.request = NoRequest]
  BY DEF RespondTakeover
<1> HIDE DEF o, m
<1>6. /\ m.owner = o.owner /\ m.beat = o.beat /\ m.viewers = o.viewers /\ m.vbeat = o.vbeat
      /\ m.request = NoRequest
  BY <1>3, <1>5 DEF Sound, OwnershipRecord
<1>7. l.beat \in Nat /\ \A v \in l.viewers : l.vbeat[v] \in Nat
  BY AgesAre DEF Sound, OwnershipRecord
<1>8. Touches(l, m, None)
  BY <1>2, <1>4, <1>6, <1>7 DEF Touches
<1> QED
  BY <1>4, <1>6, <1>8 DEF m

LEMMA BeatTouches ==
  ASSUME Prompt, NEW l, Sound(l), NEW c \in Clients
  PROVE  LET m == RecordHeartbeat(l, c)
         IN /\ Touches(l, m, None) /\ m.owner = l.owner /\ m.viewers = l.viewers
            /\ l.owner = c => m.beat = 0
            /\ l.owner # c /\ c \in l.viewers => m.vbeat[c] = 0
<1> DEFINE m == RecordHeartbeat(l, c)
<1>0. l.beat \in Nat /\ \A v \in l.viewers : l.vbeat[v] \in Nat
  BY AgesAre DEF Sound, OwnershipRecord
<1>1. CASE l.owner = c
  <2>1. /\ m.owner = l.owner /\ m.beat = 0 /\ m.viewers = l.viewers /\ m.vbeat = l.vbeat
        /\ m.request = l.request
    BY <1>1 DEF RecordHeartbeat, Sound, OwnershipRecord
  <2> HIDE DEF m
  <2>2. Touches(l, m, None)
    BY <1>0, <2>1, LagIs DEF Touches
  <2> QED
    BY <1>1, <2>1, <2>2 DEF m
<1>2. CASE l.owner # c /\ c \in l.viewers
  <2>1. /\ m.owner = l.owner /\ m.beat = l.beat /\ m.request = l.request
        /\ m.viewers = l.viewers /\ m.vbeat = [l.vbeat EXCEPT ![c] = 0]
    BY <1>2 DEF RecordHeartbeat, Sound, OwnershipRecord
  <2> HIDE DEF m
  <2>2. m.vbeat[c] = 0 /\ \A v \in l.viewers : v # c => m.vbeat[v] = l.vbeat[v]
    BY <1>2, <2>1 DEF Sound, OwnershipRecord
  <2>3. Touches(l, m, None)
    BY <1>0, <2>1, <2>2, LagIs DEF Touches
  <2> QED
    BY <1>2, <2>1, <2>2, <2>3 DEF m
<1>3. CASE l.owner # c /\ c \notin l.viewers
  <2>1. m = l
    BY <1>3 DEF RecordHeartbeat
  <2> QED
    BY <1>3, <2>1, TouchesNothing
<1> QED
  BY <1>1, <1>2, <1>3

\* Two operations of one client, one after the other.
LEMMA TouchesTwice ==
  ASSUME NEW l, Sound(l), NEW n, Sound(n), NEW m, Sound(m), NEW c, l.request.by \in Requesters \cup {None},
         Touches(l, n, c), Touches(n, m, None), m.owner \in {n.owner, None}
  PROVE  Touches(l, m, c)
<1>1. /\ l.beat \in Nat /\ n.beat \in Nat /\ m.beat \in Nat
      /\ \A v \in l.viewers : l.vbeat[v] \in Nat
      /\ \A v \in n.viewers : n.vbeat[v] \in Nat
      /\ \A v \in m.viewers : m.vbeat[v] \in Nat
  BY AgesAre DEF Sound, OwnershipRecord
<1>2. \A v : Lag(v) \in Nat
  BY TimesAssumption DEF Lag
<1>3. m.owner # None => m.beat <= Lag(m.owner) \/ (m.owner = l.owner /\ m.beat <= l.beat)
  BY <1>1, <1>2 DEF Touches
<1>4. \A v \in m.viewers :
        m.vbeat[v] <= Lag(v) \/ (v \in l.viewers /\ m.vbeat[v] <= l.vbeat[v])
  BY <1>1, <1>2, ClientsAssumption DEF Touches, Sound, OwnershipRecord
<1>5. None \notin m.viewers
  BY ClientsAssumption DEF Sound, OwnershipRecord
<1>6. /\ m.viewers \subseteq l.viewers \cup {c}
      /\ m.owner \in {l.owner, l.request.by, None, c}
      /\ l.owner \notin l.viewers => m.owner \notin m.viewers
  BY <1>5 DEF Touches
<1>7. None \notin Requesters
  BY ClientsAssumption
<1>8. m.request \in {l.request, NoRequest} \/ (m.request.age = 0 /\ m.request.by = c /\ c \in Requesters)
  BY <1>7 DEF Touches
<1> QED
  BY <1>3, <1>4, <1>6, <1>8 DEF Touches

-----------------------------------------------------------------------------
(* Timely: who runs has beaten, or will before the period is over.         *)

\* How old the heartbeat of a client that runs may be by now.
Grace(c) ==
  IF c \in Webs THEN due[c] + Lag(c)
  ELSE Lag(c) + delays + (IF c \in served \/ phase[c] = "read" THEN 0 ELSE 1)

\* A terminal client in the middle of its tick that will find itself a place to beat for.
WillBeat(c) ==
  /\ c \in Tuis /\ phase[c] = "read"
  /\ seen[c].owner = c \/ guard[c].owner \/ guard[c].viewer

\* A viewer that is a terminal client holds a guard, and the guard of an owner is not its.
Abides(c) ==
  /\ c \in Clis => status[c] \in {"off", "gone"}
  /\ c \in Tuis =>
       /\ status[c] = "off" => c \notin Named(lease) /\ guard[c] = NoGuards
       /\ guard[c].attached = guard[c].owner
       /\ c \in lease.viewers /\ status[c] # "gone" => guard[c].viewer /\ ~guard[c].attached
  /\ c \in Running =>
       /\ Loaded.owner = c => WillBeat(c) \/ Loaded.beat <= Grace(c)
       /\ c \in Loaded.viewers => WillBeat(c) \/ Loaded.vbeat[c] <= Grace(c)

Timely ==
  /\ lease.owner \notin lease.viewers
  /\ lease.request.by \in Requesters \cup {None}
  /\ \A c \in Clients : Abides(c)

\* What every step but a tick makes of the record, and of the clients it is not about.
Carried(c) ==
  /\ Sound(Loaded') /\ Touches(Loaded, Loaded', c)
  /\ lease'.owner \notin lease'.viewers
  /\ lease'.request.by \in Requesters \cup {None}
  /\ lease'.viewers \subseteq lease.viewers \cup {c}
  /\ Named(lease') \subseteq Named(lease) \cup {c}

Alike(d) ==
  /\ status'[d] = status[d] /\ (d \in served' <=> d \in served)
  /\ d \in Users => guard'[d] = guard[d] /\ phase'[d] = phase[d] /\ seen'[d] = seen[d]
  /\ d \in Webs => due'[d] = due[d]

LEMMA LoadedIsClean ==
  ASSUME Inv
  PROVE  /\ Clean(Loaded) /\ Named(Loaded) \subseteq Named(lease)
         /\ (lease.owner \notin lease.viewers => Loaded.owner \notin Loaded.viewers)
<1>1. Sound(lease) /\ \A V \in SUBSET lease.viewers : Ordering(V, earlier)
  BY Parts, ViewersAreOrdered
<1> QED
  BY <1>1, LoadedIsRead, ReadIsClean

LEMMA SoundNext ==
  ASSUME Inv'
  PROVE  Sound(lease')
BY DEF Inv, TypeOK, Sound, OwnershipRecord, Ages, Old, Requests, Clients, Users

LEMMA SavedIsCarried ==
  ASSUME Inv, Inv', Prompt, Timely, NEW c, Touches(Loaded, lease', c)
  PROVE  Loaded' = lease' /\ Carried(c)
<1> DEFINE l == Loaded
<1>1. /\ Clean(l) /\ Sound(l) /\ Named(l) \subseteq Named(lease) /\ l.viewers \subseteq lease.viewers
      /\ l.owner \notin l.viewers /\ l.request.by \in Requesters \cup {None}
  BY LoadedIsClean, LoadedSound, NoRequestIsSound DEF Timely, Follows
<1> HIDE DEF l
<1>2. Touches(l, lease', c)
  BY DEF l
<1>3. PICK m : m = lease'
  OBVIOUS
<1>4. Sound(m) /\ Touches(l, m, c)
  BY <1>2, <1>3, SoundNext
<1>5. /\ m.beat \in Nat /\ l.beat \in Nat
      /\ \A v \in m.viewers : m.vbeat[v] \in Nat /\ l.vbeat[v] \in Nat
  BY <1>1, <1>4, AgesAre DEF Sound, OwnershipRecord
<1>6. ~Overdue(m)
  BY <1>1, <1>4, NoRequestIsSound, TimesAssumption DEF Touches, Clean, Overdue
<1>7. m.owner = None \/ m.beat <= TTL
  BY <1>1, <1>4, <1>5, LagIs, TimesAssumption DEF Touches, Clean
<1>8. \A v \in m.viewers : m.vbeat[v] <= TTL
  <2> SUFFICES ASSUME NEW v \in m.viewers PROVE m.vbeat[v] <= TTL
    OBVIOUS
  <2>1. m.vbeat[v] <= Lag(v) \/ (v \in l.viewers /\ m.vbeat[v] <= l.vbeat[v])
    BY <1>4 DEF Touches
  <2>2. v \in l.viewers => l.vbeat[v] <= TTL
    BY <1>1 DEF Clean
  <2> QED
    BY <1>5, <2>1, <2>2, LagIs, TimesAssumption
<1>9. Read(m, earlier') = m
  BY <1>4, <1>6, <1>7, <1>8, CleanIsRead DEF Clean
<1>10. Loaded' = lease' /\ Sound(m)
  BY <1>3, <1>4, <1>9, LoadedIsRead
<1>11. m.request.by \in Requesters \cup {None}
  BY <1>1, <1>4, NoRequestIsSound DEF Touches
<1>12. Named(m) \subseteq Named(lease) \cup {c}
  BY <1>1, <1>4, NoRequestIsSound DEF Touches, Named
<1>13. m.owner \notin m.viewers /\ m.viewers \subseteq lease.viewers \cup {c}
  BY <1>1, <1>4 DEF Touches
<1> QED
  BY <1>3, <1>4, <1>10, <1>11, <1>12, <1>13 DEF Carried, l

LEMMA UnsavedIsCarried ==
  ASSUME Inv, Timely, lease' = lease, Loaded' = Loaded, NEW c
  PROVE  Carried(c)
BY LoadedSound, TouchesNothing DEF Carried, Timely

LEMMA UnreadIsCarried ==
  ASSUME Inv, Timely, lease' = lease, earlier' = earlier, NEW c
  PROVE  Loaded' = Loaded /\ Carried(c)
BY LoadedIsRead, UnsavedIsCarried

LEMMA GraceIs ==
  ASSUME Inv, NEW c \in Clients, c \in Users
  PROVE  Grace(c) \in Nat /\ Lag(c) <= Grace(c)
<1>1. Lag(c) \in Nat /\ delays \in Nat
  BY TimesAssumption, Parts DEF Lag, EnvOK
<1>2. c \in Webs => due[c] \in Nat
  BY TimesAssumption, Parts DEF EnvOK
<1> QED
  BY <1>1, <1>2 DEF Grace

\* A client that has its place in the record, and what its place may become.
LEMMA EntryAbides ==
  ASSUME Inv, NEW c, Carried(c), NEW d \in Clients,
         NEW g \in Nat, NEW h \in Nat, g <= h, Lag(d) <= h, NEW was, NEW is, was => is,
         Loaded.owner = d => was \/ Loaded.beat <= g,
         d \in Loaded.viewers => was \/ Loaded.vbeat[d] <= g
  PROVE  /\ Loaded'.owner = d => is \/ Loaded'.beat <= h
         /\ d \in Loaded'.viewers => is \/ Loaded'.vbeat[d] <= h
<1>1. Sound(Loaded) /\ Sound(Loaded') /\ Touches(Loaded, Loaded', c)
  BY LoadedSound DEF Carried
<1>2. /\ Loaded.beat \in Nat /\ Loaded'.beat \in Nat /\ d # None
      /\ Loaded.vbeat[d] \in Nat /\ Loaded'.vbeat[d] \in Nat
  BY <1>1, AgesAre, ClientsAssumption DEF Sound, OwnershipRecord
<1>3. Lag(d) \in Nat
  BY TimesAssumption DEF Lag
<1> QED
  BY <1>1, <1>2, <1>3 DEF Touches

\* A step of one client does not touch the others.
LEMMA OthersAbide ==
  ASSUME Inv, Inv', Timely, NEW c, Carried(c), delays' >= delays,
         NEW d \in Clients, d # c, Alike(d)
  PROVE  Abides(d)'
<1>0. Abides(d)
  BY DEF Timely
<1>1. d \in Clis => status'[d] \in {"off", "gone"}
  BY <1>0 DEF Abides, Alike
<1>2. ASSUME d \in Tuis
      PROVE  /\ status'[d] = "off" => d \notin Named(lease') /\ guard'[d] = NoGuards
             /\ guard'[d].attached = guard'[d].owner
             /\ d \in lease'.viewers /\ status'[d] # "gone" => guard'[d].viewer /\ ~guard'[d].attached
  BY <1>0, <1>2, UsersAreClients DEF Abides, Alike, Carried
<1>3. ASSUME d \in Running'
      PROVE  /\ Loaded'.owner = d => WillBeat(d)' \/ Loaded'.beat <= Grace(d)'
             /\ d \in Loaded'.viewers => WillBeat(d)' \/ Loaded'.vbeat[d] <= Grace(d)'
  <2>1. d \in Running /\ d \in Users
    BY <1>0, <1>3, UsersAreClients DEF Running, Alike, Abides, Clients
  <2>2. Grace(d) \in Nat /\ Lag(d) <= Grace(d)
    BY <2>1, GraceIs
  <2>3. /\ delays \in Nat /\ delays' \in Nat /\ Lag(d) \in Nat
        /\ d \in Webs => due[d] \in Nat
    BY Parts, TimesAssumption DEF EnvOK, Lag, Inv, TypeOK
  <2>4. Grace(d)' \in Nat /\ Grace(d) <= Grace(d)'
    BY <2>1, <2>3 DEF Grace, Alike, Lag
  <2>5. WillBeat(d) => WillBeat(d)'
    BY <2>1 DEF WillBeat, Alike
  <2>6. PICK g, h : g = Grace(d) /\ h = Grace(d)'
    OBVIOUS
  <2>7. PICK was, is : was = WillBeat(d) /\ is = WillBeat(d)'
    OBVIOUS
  <2>8. g \in Nat /\ h \in Nat /\ g <= h /\ Lag(d) <= h
    BY <2>2, <2>3, <2>4, <2>6
  <2>9. /\ Loaded.owner = d => was \/ Loaded.beat <= g
        /\ d \in Loaded.viewers => was \/ Loaded.vbeat[d] <= g
    BY <1>0, <2>1, <2>6, <2>7 DEF Abides
  <2>10. /\ Loaded'.owner = d => is \/ Loaded'.beat <= h
         /\ d \in Loaded'.viewers => is \/ Loaded'.vbeat[d] <= h
    BY <2>5, <2>7, <2>8, <2>9, EntryAbides
  <2> QED
    BY <2>6, <2>7, <2>10
<1> QED
  BY <1>1, <1>2, <1>3 DEF Abides

LEMMA StepIsTimely ==
  ASSUME Inv, Inv', Timely, NEW c, Carried(c), delays' >= delays,
         \A d \in Clients \ {c} : Alike(d), c \in Clients => Abides(c)'
  PROVE  Timely'
<1>1. \A d \in Clients : Abides(d)'
  BY OthersAbide
<1> QED
  BY <1>1 DEF Timely, Carried

\* Reading is the same after somebody else has joined, who is no viewer.
LEMMA JoinUnseen ==
  ASSUME Inv, NEW c, c \notin lease.viewers, lease' = lease, earlier' = LastOf(c)
  PROVE  Loaded' = Loaded
<1> DEFINE b == DropStaleViewers(ResolveOverdue(lease))
<1>0. Sound(lease)
  BY Parts
<1>1. b.viewers \subseteq lease.viewers
  BY <1>0, ResolveOverdueKeeps, DropFields
<1> HIDE DEF b
<1>2. \A v, w \in b.viewers : <<v, w>> \in LastOf(c) <=> <<v, w>> \in earlier
  BY <1>1 DEF LastOf
<1>3. Ordering(b.viewers, earlier)
  BY <1>1, ViewersAreOrdered
<1>4. Ordering(b.viewers, LastOf(c))
  BY <1>2, <1>3 DEF Ordering
<1>5. b.viewers # {} => First(b.viewers, LastOf(c)) = First(b.viewers, earlier)
  <2> SUFFICES ASSUME b.viewers # {}
               PROVE  First(b.viewers, LastOf(c)) = First(b.viewers, earlier)
    OBVIOUS
  <2>1. PICK f \in b.viewers : /\ f = First(b.viewers, earlier)
                               /\ \A w \in b.viewers \ {f} : <<f, w>> \in earlier
    BY <1>3, FirstIsFirst
  <2>2. \A w \in b.viewers \ {f} : <<f, w>> \in LastOf(c)
    BY <1>2, <2>1
  <2> QED
    BY <1>4, <2>1, <2>2, FirstIsFirst
<1>6. Promoted(b, LastOf(c)) = Promoted(b, earlier)
  BY <1>5 DEF Promoted
<1>7. Read(lease, LastOf(c)) = Read(lease, earlier)
  BY <1>6 DEF Read, b
<1> QED
  BY <1>7, LoadedIsRead

-----------------------------------------------------------------------------
(* Each step is timely, and passes the lease on in one of the ways of      *)
(* module Lease or leaves it where it is.                                  *)

Passes ==
  \/ KeptBy!Take \/ KeptBy!Expire \/ KeptBy!Resign
  \/ KeptBy!HandOver \/ KeptBy!Overrule \/ KeptBy!Seize
  \/ Loaded'.owner = Loaded.owner

LEMMA ClaimPasses ==
  ASSUME Inv, Prompt, NEW c \in Clients, Loaded'.owner = ClaimOwner(Loaded, c).owner
  PROVE  Passes
<1>1. /\ Loaded.owner = None => Loaded'.owner = c
      /\ Loaded.owner # None => Loaded'.owner = Loaded.owner
  BY LoadedSound, ClaimTouches
<1> QED
  BY <1>1 DEF Passes, KeptBy!Take

LEMMA WeakerTouch ==
  ASSUME NEW l, NEW m, Sound(m), Touches(l, m, None), NEW c
  PROVE  Touches(l, m, c)
BY ClientsAssumption DEF Touches, Sound, OwnershipRecord

LEMMA GraceIsNext ==
  ASSUME Inv', NEW c \in Clients, c \in Users
  PROVE  Grace(c)' \in Nat /\ Lag(c) <= Grace(c)'
<1>1. Lag(c) \in Nat /\ delays' \in Nat
  BY TimesAssumption DEF Lag, Inv, TypeOK
<1>2. c \in Webs => due'[c] \in Nat
  BY TimesAssumption DEF Inv, TypeOK
<1>3. Lag(c)' = Lag(c)
  BY DEF Lag
<1> QED
  BY <1>1, <1>2, <1>3 DEF Grace

\* The place of a client that runs on, and has lost no grace.
LEMMA PlaceAbides ==
  ASSUME Inv, Inv', Timely, NEW c \in Users, Carried(c), c \in Running,
         Grace(c) <= Grace(c)', WillBeat(c) => WillBeat(c)'
  PROVE  /\ Loaded'.owner = c => WillBeat(c)' \/ Loaded'.beat <= Grace(c)'
         /\ c \in Loaded'.viewers => WillBeat(c)' \/ Loaded'.vbeat[c] <= Grace(c)'
<1>1. c \in Clients /\ Abides(c)
  BY UsersAreClients DEF Timely
<1>2. PICK g, h : g = Grace(c) /\ h = Grace(c)'
  OBVIOUS
<1>3. PICK was, is : was = WillBeat(c) /\ is = WillBeat(c)'
  OBVIOUS
<1>4. g \in Nat /\ h \in Nat /\ g <= h /\ Lag(c) <= h
  BY <1>1, <1>2, GraceIs, GraceIsNext
<1>5. /\ Loaded.owner = c => was \/ Loaded.beat <= g
      /\ c \in Loaded.viewers => was \/ Loaded.vbeat[c] <= g
  BY <1>1, <1>2, <1>3 DEF Abides
<1>6. /\ Loaded'.owner = c => is \/ Loaded'.beat <= h
      /\ c \in Loaded'.viewers => is \/ Loaded'.vbeat[c] <= h
  BY <1>1, <1>3, <1>4, <1>5, EntryAbides
<1> QED
  BY <1>2, <1>3, <1>6

LEMMA PutsOffLoosens ==
  ASSUME Inv, Inv', NEW c \in Users, PutsOff(c), phase' = phase, due' = due
  PROVE  Grace(c) <= Grace(c)' /\ delays' >= delays
         /\ \A d \in Clients \ {c} : d \in served' <=> d \in served
<1>1. Lag(c) \in Nat /\ delays \in Nat /\ delays' \in Nat /\ (c \in Webs => due[c] \in Nat)
  BY TimesAssumption DEF Lag, Inv, TypeOK
<1>2. c \in Webs <=> c \notin Tuis
  BY ClientsAssumption DEF Users
<1>3. \/ served' = served /\ delays' = delays
      \/ c \in Tuis /\ c \notin served /\ served' = served \cup {c} /\ delays' = delays + 1
  BY DEF PutsOff, Serves
<1>4. Lag(c)' = Lag(c)
  BY DEF Lag
<1>5. Grace(c) <= Grace(c)'
  BY <1>1, <1>2, <1>3, <1>4 DEF Grace
<1> QED
  BY <1>1, <1>3, <1>5

\* What a claim of a client that is not attached does to its guard and its place.
LEMMA ClaimGuards ==
  ASSUME Inv, Prompt, Timely, NEW c \in Clients, NEW g, g \in [owner : BOOLEAN, viewer : BOOLEAN, attached : BOOLEAN],
         ~g.attached, ~g.owner
  PROVE  LET m == ClaimOwner(Loaded, c)
             n == ClaimProcessOwnership(Loaded, c, g)
         IN /\ n.attached = n.owner
            /\ c \in m.viewers => n.viewer /\ ~n.attached
            /\ m.owner = c => n.owner
            /\ c \notin Loaded.viewers =>
                 (m.owner = c /\ Loaded.owner # c => m.beat = 0) /\ (c \in m.viewers => m.vbeat[c] = 0)
<1>1. Loaded.owner \notin Loaded.viewers /\ Sound(Loaded)
  BY LoadedIsClean, LoadedSound DEF Timely
<1>2. c # None
  BY ClientsAssumption
<1> DEFINE m == ClaimOwner(Loaded, c)
           n == ClaimProcessOwnership(Loaded, c, g)
<1>3. /\ m.owner = c => n.owner = TRUE /\ n.attached = TRUE
      /\ m.owner # c => n.viewer = TRUE /\ n.attached = FALSE /\ n.owner = FALSE
  BY DEF ClaimProcessOwnership
<1>4. m.owner = c => c \notin m.viewers
  BY <1>1, <1>2, ClaimTouches
<1>5. c \notin Loaded.viewers =>
        (m.owner = c /\ Loaded.owner # c => m.beat = 0) /\ (c \in m.viewers => m.vbeat[c] = 0)
  BY <1>1, <1>2, <1>4, ClaimTouches
<1> QED
  BY <1>3, <1>4, <1>5

LEMMA TuiOpensPasses ==
  ASSUME Inv, Inv', Prompt, Timely, NEW c \in Tuis, TuiOpens(c)
  PROVE  Timely' /\ Passes
<1>0. /\ c \in Clients /\ c \in Users /\ status[c] = "off" /\ Abides(c)
      /\ c \notin Named(lease) /\ guard[c] = NoGuards /\ c \notin Clis
  BY UsersAreClients DEF TuiOpens, Timely, Abides
<1>1. c # Loaded.owner /\ c \notin Loaded.viewers /\ c \notin lease.viewers
  BY <1>0, LoadedIsClean, LoadedSound DEF Named
<1>2. /\ status' = [status EXCEPT ![c] = "running"] /\ served' = served \cup {c}
      /\ due' = due /\ phase' = phase /\ delays' = delays
  BY DEF TuiOpens, Serves, counters
<1>3. \A d \in Clients \ {c} : Alike(d)
  BY <1>0, <1>2, Parts DEF Alike, EnvOK, TuiOpens
<1>4. delays' >= delays
  BY <1>2, TimesAssumption, Parts DEF EnvOK
<1>5. status'[c] = "running"
  BY <1>0, <1>2, Parts DEF EnvOK
<1>6. Grace(c)' \in Nat
  BY <1>0, GraceIsNext
<1>7. CASE coordinator
  <2>1. /\ lease' = ClaimOwner(Loaded, c)
        /\ guard'[c] = ClaimProcessOwnership(Loaded, c, guard[c])
    BY <1>0, <1>7, Parts DEF TuiOpens, EnvOK
  <2>2. Touches(Loaded, lease', c)
    BY <1>0, <2>1, LoadedSound, ClaimTouches
  <2>3. Loaded' = lease' /\ Carried(c)
    BY <2>2, SavedIsCarried
  <2>4. NoGuards \in [owner : BOOLEAN, viewer : BOOLEAN, attached : BOOLEAN]
        /\ ~NoGuards.attached /\ ~NoGuards.owner
    BY DEF NoGuards
  <2>5. /\ guard'[c].attached = guard'[c].owner
        /\ c \in lease'.viewers => guard'[c].viewer /\ ~guard'[c].attached
        /\ lease'.owner = c => lease'.beat = 0
        /\ c \in lease'.viewers => lease'.vbeat[c] = 0
    BY <1>0, <1>1, <2>1, <2>4, ClaimGuards
  <2>6. Abides(c)'
    BY <1>0, <1>5, <1>6, <2>3, <2>5 DEF Abides
  <2>7. Timely'
    BY <1>3, <1>4, <2>3, <2>6, StepIsTimely
  <2>8. Passes
    BY <1>0, <2>1, <2>3, ClaimPasses
  <2> QED
    BY <2>7, <2>8
<1>8. CASE ~coordinator
  <2>1. lease' = lease /\ guard' = guard /\ earlier' = LastOf(c)
    BY <1>8 DEF TuiOpens
  <2>2. Loaded' = Loaded
    BY <1>1, <2>1, JoinUnseen
  <2>3. Carried(c)
    BY <2>1, <2>2, UnsavedIsCarried
  <2>4. guard'[c].attached = guard'[c].owner
    <3>1. guard'[c] = NoGuards
      BY <1>0, <2>1
    <3>2. NoGuards.attached = FALSE /\ NoGuards.owner = FALSE
      BY DEF NoGuards
    <3> QED
      BY <3>1, <3>2
  <2>5. Abides(c)'
    BY <1>0, <1>1, <1>5, <2>1, <2>2, <2>4 DEF Abides
  <2>6. Timely'
    BY <1>3, <1>4, <2>3, <2>5, StepIsTimely
  <2> QED
    BY <2>2, <2>6 DEF Passes
<1> QED
  BY <1>7, <1>8

LEMMA TuiLaunchesPasses ==
  ASSUME Inv, Inv', Prompt, Timely, NEW c \in Tuis, TuiLaunches(c)
  PROVE  Timely' /\ Passes
<1>0. /\ c \in Clients /\ c \in Users /\ Abides(c) /\ c \notin Clis
      /\ ~guard[c].attached /\ ~guard[c].owner
      /\ guard[c] \in [owner : BOOLEAN, viewer : BOOLEAN, attached : BOOLEAN]
      /\ status[c] \notin {"off", "gone"}
  BY UsersAreClients, Parts DEF TuiLaunches, Timely, Abides, EnvOK, Up
<1>1. /\ status' = status /\ due' = due /\ phase' = phase /\ PutsOff(c)
      /\ lease' = ClaimOwner(Loaded, c)
  BY DEF TuiLaunches
<1>2. /\ guard'[c] = ClaimProcessOwnership(Loaded, c, guard[c])
      /\ seen'[c].owner = lease'.owner
  BY <1>0, Parts DEF TuiLaunches, EnvOK, View
<1>3. /\ Grace(c) <= Grace(c)' /\ delays' >= delays
      /\ \A d \in Clients \ {c} : d \in served' <=> d \in served
  BY <1>0, <1>1, PutsOffLoosens
<1>4. \A d \in Clients \ {c} : Alike(d)
  BY <1>0, <1>1, <1>3, Parts DEF Alike, EnvOK, TuiLaunches
<1>5. Loaded' = lease' /\ Carried(c)
  BY <1>0, <1>1, LoadedSound, ClaimTouches, SavedIsCarried
<1>6. /\ guard'[c].attached = guard'[c].owner
      /\ c \in lease'.viewers => guard'[c].viewer /\ ~guard'[c].attached
  BY <1>0, <1>1, <1>2, ClaimGuards
<1>7. WillBeat(c) => WillBeat(c)'
  <2>1. lease'.owner = c \/ guard'[c].viewer
    BY <1>0, <1>1, <1>2 DEF ClaimProcessOwnership
  <2> QED
    BY <1>1, <1>2, <2>1 DEF WillBeat
<1>8. Abides(c)'
  <2>1. c \in Running' => c \in Running
    BY <1>1 DEF Running
  <2> QED
    BY <1>0, <1>1, <1>3, <1>5, <1>6, <1>7, <2>1, PlaceAbides DEF Abides
<1>9. Timely'
  BY <1>3, <1>4, <1>5, <1>8, StepIsTimely
<1> QED
  BY <1>0, <1>1, <1>5, <1>9, ClaimPasses

LEMMA TuiDetachesPasses ==
  ASSUME Inv, Inv', Prompt, Timely, NEW c \in Tuis, TuiDetaches(c)
  PROVE  Timely' /\ Passes
<1>0. /\ c \in Clients /\ c \in Users /\ Abides(c) /\ c \notin Clis
      /\ guard[c].attached /\ status[c] # "gone"
  BY UsersAreClients DEF TuiDetaches, Timely, Abides, Up
<1>1. /\ status' = [status EXCEPT ![c] = "running"] /\ served' = served \cup {c}
      /\ due' = due /\ phase' = phase /\ delays' = delays
      /\ lease' = ReleaseOwner(Loaded, c)
      /\ guard' = [guard EXCEPT ![c].owner = FALSE, ![c].attached = FALSE]
  BY DEF TuiDetaches, Serves, counters
<1>2. \A d \in Clients \ {c} : Alike(d)
  BY <1>0, <1>1, Parts DEF Alike, EnvOK, TuiDetaches
<1>3. delays' >= delays
  BY <1>1, TimesAssumption, Parts DEF EnvOK
<1>4. /\ Touches(Loaded, lease', None) /\ lease'.viewers = Loaded.viewers
      /\ Loaded.owner = c => lease'.owner = None
      /\ Loaded.owner # c => lease' = Loaded
  BY <1>1, LoadedSound, DisownTouches
<1>5. Loaded' = lease' /\ Carried(c)
  BY <1>4, SoundNext, WeakerTouch, SavedIsCarried
<1>6. c \notin lease'.viewers /\ lease'.owner # c
  BY <1>0, <1>4, LoadedSound, ClientsAssumption DEF Abides
<1>7. guard'[c].attached = FALSE /\ guard'[c].owner = FALSE /\ status'[c] = "running"
  BY <1>0, <1>1, Parts DEF EnvOK
<1>8. Abides(c)'
  BY <1>0, <1>5, <1>6, <1>7 DEF Abides
<1>9. Timely'
  BY <1>2, <1>3, <1>5, <1>8, StepIsTimely
<1>10. Passes
  <2>1. Loaded.owner = c => KeptBy!Resign
    BY <1>0, <1>4, <1>5, <1>7 DEF KeptBy!Resign
  <2> QED
    BY <1>4, <1>5, <2>1 DEF Passes
<1> QED
  BY <1>9, <1>10

LEMMA TuiRefreshesPasses ==
  ASSUME Inv, Inv', Prompt, Timely, NEW c \in Tuis, TuiRefreshes(c)
  PROVE  Timely' /\ Passes
<1>0. /\ c \in Clients /\ c \in Users /\ Abides(c) /\ c \notin Clis /\ status[c] # "gone"
      /\ status[c] # "off"
  BY UsersAreClients DEF TuiRefreshes, Timely, Up
<1>1. /\ status' = [status EXCEPT ![c] = "running"] /\ served' = served /\ guard' = guard
      /\ due' = due /\ phase' = [phase EXCEPT ![c] = "read"] /\ delays' = delays
      /\ lease' = lease /\ earlier' = earlier
  BY DEF TuiRefreshes, counters
<1>2. \A d \in Clients \ {c} : Alike(d)
  BY <1>0, <1>1, Parts DEF Alike, EnvOK, TuiRefreshes
<1>3. delays' >= delays
  BY <1>1, TimesAssumption, Parts DEF EnvOK
<1>4. Loaded' = Loaded /\ Carried(c)
  BY <1>1, UnreadIsCarried
<1>5. status'[c] = "running" /\ phase'[c] = "read" /\ seen'[c].owner = Loaded.owner
  BY <1>0, <1>1, Parts DEF TuiRefreshes, EnvOK, View
<1>6. Loaded'.owner = c \/ c \in Loaded'.viewers => WillBeat(c)'
  BY <1>0, <1>1, <1>4, <1>5, LoadedSound DEF Abides, WillBeat
<1>7. Abides(c)'
  BY <1>0, <1>1, <1>5, <1>6 DEF Abides
<1>8. Timely'
  BY <1>2, <1>3, <1>4, <1>7, StepIsTimely
<1> QED
  BY <1>4, <1>8 DEF Passes

LEMMA TuiBeatsPasses ==
  ASSUME Inv, Inv', Prompt, Timely, NEW c \in Tuis, TuiBeats(c)
  PROVE  Timely' /\ Passes
<1> DEFINE claims == seen[c].owner = c /\ ~guard[c].owner
           l == IF claims THEN ClaimOwner(Loaded, c) ELSE Loaded
           g == IF claims THEN ClaimProcessOwnership(Loaded, c, guard[c]) ELSE guard[c]
<1>0. /\ c \in Clients /\ c \in Users /\ Abides(c) /\ c \notin Clis
      /\ guard[c] \in [owner : BOOLEAN, viewer : BOOLEAN, attached : BOOLEAN]
      /\ status[c] \notin {"off", "gone"} /\ phase[c] = "read"
  BY UsersAreClients, Parts DEF TuiBeats, Timely, EnvOK, Up
<1>1. /\ status' = status /\ served' = served \cup {c} /\ due' = due /\ delays' = delays
      /\ seen' = seen /\ earlier' = earlier
      /\ guard' = [guard EXCEPT ![c] = g] /\ phase' = [phase EXCEPT ![c] = "rest"]
      /\ lease' = IF g.owner \/ g.viewer THEN RecordHeartbeat(l, c) ELSE lease
  BY DEF TuiBeats, Serves, counters
<1>2. \A d \in Clients \ {c} : Alike(d)
  BY <1>0, <1>1, Parts DEF Alike, EnvOK
<1>3. delays' >= delays
  BY <1>1, TimesAssumption, Parts DEF EnvOK
<1>4. guard'[c] = g /\ phase'[c] = "rest" /\ c \in served'
  BY <1>0, <1>1, Parts DEF EnvOK
<1>5. /\ Sound(l) /\ Touches(Loaded, l, c) /\ l.owner \in {Loaded.owner, ClaimOwner(Loaded, c).owner}
      /\ Loaded.owner = c => l.owner = c
  BY <1>0, LoadedSound, ClaimTouches, ClaimOwnerKeeps, TouchesNothing
<1>6. /\ g.attached = g.owner
      /\ c \in l.viewers => g.viewer /\ ~g.attached
      /\ claims => g.owner \/ g.viewer
  <2>1. CASE claims
    <3>1. ~guard[c].attached /\ ~guard[c].owner
      BY <1>0, <2>1 DEF Abides
    <3>2. g.owner \/ g.viewer
      BY <1>0, <2>1 DEF ClaimProcessOwnership
    <3> QED
      BY <1>0, <2>1, <3>1, <3>2, ClaimGuards
  <2>2. CASE ~claims
    BY <1>0, <2>2, LoadedSound DEF Abides
  <2> QED
    BY <2>1, <2>2
<1>7. Grace(c)' \in Nat
  BY <1>0, GraceIsNext
<1>8. CASE g.owner \/ g.viewer
  <2> HIDE DEF l, g
  <2>1. lease' = RecordHeartbeat(l, c)
    BY <1>1, <1>8
  <2>2. PICK m : m = RecordHeartbeat(l, c)
    OBVIOUS
  <2>3. /\ Touches(l, m, None) /\ m.owner = l.owner /\ m.viewers = l.viewers
        /\ l.owner = c => m.beat = 0
        /\ l.owner # c /\ c \in l.viewers => m.vbeat[c] = 0
    BY <1>0, <1>5, <2>2, BeatTouches
  <2>4. Sound(m) /\ Loaded.request.by \in Requesters \cup {None} /\ Sound(Loaded)
    BY <2>1, <2>2, SoundNext, LoadedSound, NoRequestIsSound DEF Timely, Follows
  <2>5. Touches(Loaded, m, c)
    BY <1>5, <2>3, <2>4, TouchesTwice
  <2>6. Loaded' = m /\ Carried(c) /\ lease' = m
    BY <2>1, <2>2, <2>5, SavedIsCarried
  <2>7. m.owner \notin m.viewers
    BY <2>6 DEF Carried
  <2>8. Abides(c)'
    BY <1>0, <1>1, <1>4, <1>6, <1>7, <2>3, <2>6, <2>7 DEF Abides
  <2>9. Timely'
    BY <1>2, <1>3, <2>6, <2>8, StepIsTimely
  <2>10. Passes
    <3>1. CASE l.owner = Loaded.owner
      BY <2>3, <2>6, <3>1 DEF Passes
    <3>2. CASE l.owner = ClaimOwner(Loaded, c).owner
      BY <1>0, <2>3, <2>6, <3>2, ClaimPasses
    <3> QED
      BY <1>5, <3>1, <3>2
  <2> QED
    BY <2>9, <2>10
<1>9. CASE ~(g.owner \/ g.viewer)
  <2>1. lease' = lease /\ ~claims
    BY <1>1, <1>6, <1>9
  <2>2. g = guard[c] /\ seen[c].owner # c /\ ~guard[c].owner /\ ~guard[c].viewer
    BY <1>9, <2>1
  <2>3. Loaded' = Loaded /\ Carried(c)
    BY <1>1, <2>1, UnreadIsCarried
  <2>4. ~WillBeat(c) /\ c \notin lease.viewers /\ c \notin Loaded.viewers
    BY <1>0, <2>2, LoadedSound DEF WillBeat, Abides
  <2>5. Grace(c) = Grace(c)'
    BY <1>0, <1>1, <1>4 DEF Grace, Lag
  <2>6. c \in Running' => c \in Running
    BY <1>1 DEF Running
  <2> HIDE DEF g, l
  <2>7. Abides(c)'
    BY <1>0, <1>1, <1>4, <1>6, <2>1, <2>3, <2>4, <2>5, <2>6 DEF Abides
  <2>8. Timely'
    BY <1>2, <1>3, <2>3, <2>7, StepIsTimely
  <2> QED
    BY <2>3, <2>8 DEF Passes
<1> QED
  BY <1>8, <1>9

LEMMA TuiQuitsPasses ==
  ASSUME Inv, Inv', Prompt, Timely, NEW c \in Tuis, TuiQuits(c)
  PROVE  Timely' /\ Passes
<1> DEFINE l == ReleaseOwner(Loaded, c)
<1>0. c \in Clients /\ c \in Users /\ c \notin Clis
  BY UsersAreClients
<1>1. /\ status' = [status EXCEPT ![c] = "gone"] /\ served' = served /\ due' = due
      /\ delays' = delays
      /\ guard' = [guard EXCEPT ![c] = NoGuards]
      /\ lease' = UnregisterViewer(l, c)
  BY DEF TuiQuits, counters
<1>2. \A d \in Clients \ {c} : Alike(d)
  BY <1>0, <1>1, Parts DEF Alike, EnvOK, TuiQuits
<1>3. delays' >= delays
  BY <1>1, TimesAssumption, Parts DEF EnvOK
<1>4. /\ Touches(Loaded, l, None) /\ Sound(l)
      /\ Loaded.owner = c => l.owner = None
      /\ Loaded.owner # c => l = Loaded
  BY LoadedSound, DisownTouches, ReleaseOwnerKeeps
<1> HIDE DEF l
<1>5. Touches(l, lease', None) /\ lease'.owner = l.owner
  BY <1>0, <1>1, <1>4, UnregisterTouches
<1>6. PICK m : m = lease'
  OBVIOUS
<1>7. Sound(m) /\ Loaded.request.by \in Requesters \cup {None} /\ Sound(Loaded)
  BY <1>6, SoundNext, LoadedSound, NoRequestIsSound DEF Timely, Follows
<1>8. Touches(Loaded, m, None)
  BY <1>4, <1>5, <1>6, <1>7, TouchesTwice
<1>9. Loaded' = lease' /\ Carried(c)
  BY <1>6, <1>7, <1>8, WeakerTouch, SavedIsCarried
<1>10. status'[c] = "gone" /\ guard'[c] = NoGuards
  BY <1>0, <1>1, Parts DEF EnvOK
<1>11. NoGuards.attached = FALSE /\ NoGuards.owner = FALSE
  BY DEF NoGuards
<1>12. Abides(c)'
  BY <1>0, <1>10, <1>11 DEF Abides, Running
<1>13. Timely'
  BY <1>2, <1>3, <1>9, <1>12, StepIsTimely
<1>14. Passes
  <2>1. Loaded.owner = c => KeptBy!Expire
    BY <1>0, <1>4, <1>5, <1>9, <1>10, ClientsAssumption DEF KeptBy!Expire, Running
  <2> QED
    BY <1>4, <1>5, <1>9, <2>1 DEF Passes
<1> QED
  BY <1>13, <1>14

-----------------------------------------------------------------------------
\* Browser tabs.

LEMMA WebOpensPasses ==
  ASSUME Inv, Inv', Prompt, Timely, NEW w \in Webs, WebOpens(w)
  PROVE  Timely' /\ Passes
<1>0. w \in Clients /\ w \in Users /\ w \notin Clis /\ w \notin Tuis
  BY UsersAreClients, ClientsAssumption
<1>1. w # Loaded.owner /\ w \notin Loaded.viewers
  BY Parts DEF WebOpens, Prompt, EnvOK
<1>2. /\ status' = [status EXCEPT ![w] = "running"] /\ served' = served \cup {w}
      /\ due' = [due EXCEPT ![w] = 0] /\ delays' = delays
      /\ lease' = AddViewerIfMissing(Loaded, w)
      /\ guard' = guard /\ phase' = phase /\ seen' = seen
  BY DEF WebOpens, Serves
<1>3. \A d \in Clients \ {w} : Alike(d)
  BY <1>0, <1>2, Parts DEF Alike, EnvOK
<1>4. delays' >= delays
  BY <1>2, TimesAssumption, Parts DEF EnvOK
<1>5. /\ Touches(Loaded, lease', w) /\ lease'.owner = Loaded.owner
      /\ lease'.vbeat[w] = 0
  BY <1>0, <1>1, <1>2, LoadedSound, AddTouches
<1>6. Loaded' = lease' /\ Carried(w)
  BY <1>5, SavedIsCarried
<1>7. Grace(w)' \in Nat
  BY <1>0, GraceIsNext
<1>8. Abides(w)'
  BY <1>0, <1>1, <1>5, <1>6, <1>7 DEF Abides
<1>9. Timely'
  BY <1>3, <1>4, <1>6, <1>8, StepIsTimely
<1> QED
  BY <1>5, <1>6, <1>9 DEF Passes

LEMMA WebClaimsPasses ==
  ASSUME Inv, Inv', Prompt, Timely, NEW w \in Webs, WebClaims(w)
  PROVE  Timely' /\ Passes
<1>0. w \in Clients /\ w \in Users /\ w \notin Clis /\ w \notin Tuis
  BY UsersAreClients, ClientsAssumption
<1>1. /\ status' = status /\ served' = served \cup {w} /\ due' = due /\ delays' = delays
      /\ lease' = ClaimOwner(Loaded, w) /\ guard' = guard /\ phase' = phase
      /\ seen' = [seen EXCEPT ![w] = View(lease')]
  BY DEF WebClaims, Serves, counters
<1>2. \A d \in Clients \ {w} : Alike(d)
  BY <1>0, <1>1, Parts DEF Alike, EnvOK
<1>3. delays' >= delays
  BY <1>1, TimesAssumption, Parts DEF EnvOK
<1>4. Loaded' = lease' /\ Carried(w)
  BY <1>0, <1>1, LoadedSound, ClaimTouches, SavedIsCarried
<1>5. Grace(w) <= Grace(w)' /\ ~WillBeat(w)
  BY <1>0, <1>1, GraceIs DEF Grace, Lag, WillBeat
<1>6. Abides(w)'
  <2>1. w \in Running' => w \in Running
    BY <1>1 DEF Running
  <2> QED
    BY <1>0, <1>4, <1>5, <2>1, PlaceAbides DEF Abides
<1>7. Timely'
  BY <1>2, <1>3, <1>4, <1>6, StepIsTimely
<1> QED
  BY <1>0, <1>1, <1>4, <1>7, ClaimPasses

LEMMA WebBeatsPasses ==
  ASSUME Inv, Inv', Prompt, Timely, NEW w \in Webs, WebBeats(w)
  PROVE  Timely' /\ Passes
<1>0. w \in Clients /\ w \in Users /\ w \notin Clis /\ w \notin Tuis
  BY UsersAreClients, ClientsAssumption
<1>1. /\ status' = [status EXCEPT ![w] = "running"] /\ served' = served \cup {w}
      /\ due' = [due EXCEPT ![w] = 0] /\ delays' = delays
      /\ lease' = RecordHeartbeat(Loaded, w)
      /\ guard' = guard /\ phase' = phase /\ seen' = seen
  BY DEF WebBeats, Serves, counters
<1>2. \A d \in Clients \ {w} : Alike(d)
  BY <1>0, <1>1, Parts DEF Alike, EnvOK
<1>3. delays' >= delays
  BY <1>1, TimesAssumption, Parts DEF EnvOK
<1>4. /\ Touches(Loaded, lease', None) /\ lease'.owner = Loaded.owner
      /\ lease'.viewers = Loaded.viewers
      /\ Loaded.owner = w => lease'.beat = 0
      /\ Loaded.owner # w /\ w \in Loaded.viewers => lease'.vbeat[w] = 0
  BY <1>0, <1>1, LoadedSound, BeatTouches
<1>5. Loaded' = lease' /\ Carried(w)
  BY <1>4, SoundNext, WeakerTouch, SavedIsCarried
<1>6. Grace(w)' \in Nat /\ Loaded.owner \notin Loaded.viewers
  BY <1>0, GraceIsNext, LoadedIsClean DEF Timely
<1>7. Abides(w)'
  BY <1>0, <1>4, <1>5, <1>6 DEF Abides
<1>8. Timely'
  BY <1>2, <1>3, <1>5, <1>7, StepIsTimely
<1> QED
  BY <1>4, <1>5, <1>8 DEF Passes

LEMMA WebClosesPasses ==
  ASSUME Inv, Inv', Prompt, Timely, NEW w \in Webs, WebCloses(w)
  PROVE  Timely' /\ Passes
<1>0. w \in Clients /\ w \in Users /\ w \notin Clis /\ w \notin Tuis
  BY UsersAreClients, ClientsAssumption
<1>1. /\ status' = [status EXCEPT ![w] = "gone"] /\ served' = served /\ due' = due
      /\ delays' = delays /\ guard' = guard /\ phase' = phase
      /\ seen' = [seen EXCEPT ![w] = Unseen]
      /\ lease' = UnregisterViewer(Loaded, w)
  BY DEF WebCloses, counters
<1>2. \A d \in Clients \ {w} : Alike(d)
  BY <1>0, <1>1, Parts DEF Alike, EnvOK
<1>3. delays' >= delays
  BY <1>1, TimesAssumption, Parts DEF EnvOK
<1>4. Touches(Loaded, lease', None) /\ lease'.owner = Loaded.owner
  BY <1>0, <1>1, LoadedSound, UnregisterTouches
<1>5. Loaded' = lease' /\ Carried(w)
  BY <1>4, SoundNext, WeakerTouch, SavedIsCarried
<1>6. status'[w] = "gone"
  BY <1>0, <1>1, Parts DEF EnvOK
<1>7. Abides(w)'
  BY <1>0, <1>6 DEF Abides, Running
<1>8. Timely'
  BY <1>2, <1>3, <1>5, <1>7, StepIsTimely
<1> QED
  BY <1>4, <1>5, <1>8 DEF Passes

\* A beat for all tabs at once.
LEMMA ServerBeatsPasses ==
  ASSUME Inv, Inv', Prompt, Timely, ServerBeats
  PROVE  Timely' /\ Passes
<1> DEFINE b == IF Loaded.owner \in Webs \cap Loaded.viewers THEN 0 ELSE Loaded.beat
           vb == [c \in Clients |-> IF c \in Webs \ {Loaded.owner} THEN 0 ELSE Loaded.vbeat[c]]
<1>0. Sound(Loaded) /\ Loaded.owner \notin Loaded.viewers
  BY LoadedSound, LoadedIsClean DEF Timely
<1>1. lease' = [Loaded EXCEPT !.beat = b, !.vbeat = vb]
  BY DEF ServerBeats
<1>2. PICK m : m = lease'
  OBVIOUS
<1>3. Sound(m)
  BY <1>2, SoundNext
<1> HIDE DEF b, vb
<1>4. /\ m.owner = Loaded.owner /\ m.beat = b /\ m.viewers = Loaded.viewers
      /\ m.vbeat = vb /\ m.request = Loaded.request
  BY <1>0, <1>1, <1>2 DEF Sound, OwnershipRecord
<1>5. Loaded.beat \in Nat /\ \A v \in Loaded.viewers : Loaded.vbeat[v] \in Nat /\ v \in Clients
  BY <1>0, AgesAre DEF Sound, OwnershipRecord
<1>6. /\ b <= Loaded.beat
      /\ \A v \in Loaded.viewers : vb[v] <= Loaded.vbeat[v]
  BY <1>5 DEF b, vb
<1>7. Touches(Loaded, m, None)
  BY <1>0, <1>4, <1>6 DEF Touches
<1>8. Loaded' = lease' /\ Carried(None)
  BY <1>2, <1>7, SavedIsCarried
<1>9. \A d \in Clients : Alike(d)
  BY DEF Alike, ServerBeats, clientVars
<1>10. delays' >= delays
  BY TimesAssumption, Parts DEF EnvOK, ServerBeats, counters
<1>11. Timely'
  BY <1>8, <1>9, <1>10, StepIsTimely, ClientsAssumption
<1> QED
  BY <1>2, <1>4, <1>8, <1>11 DEF Passes

-----------------------------------------------------------------------------
\* Takeover and commands.

LEMMA AsksPasses ==
  ASSUME Inv, Inv', Prompt, Timely, NEW c \in Users, Asks(c)
  PROVE  Timely' /\ Passes
<1>0. c \in Clients /\ Abides(c) /\ c \in Requesters /\ seen[c].owner # c
  BY UsersAreClients DEF Asks, Timely, CanAsk
<1>1. /\ status' = status /\ due' = due /\ phase' = phase /\ guard' = guard
      /\ PutsOff(c) /\ lease' = RequestTakeover(Loaded, c, nreq + 1)
      /\ seen' = [seen EXCEPT ![c] = View(lease')]
  BY DEF Asks
<1>2. /\ Grace(c) <= Grace(c)' /\ delays' >= delays
      /\ \A d \in Clients \ {c} : d \in served' <=> d \in served
  BY <1>1, PutsOffLoosens
<1>3. \A d \in Clients \ {c} : Alike(d)
  BY <1>1, <1>2, Parts DEF Alike, EnvOK
<1>4. Touches(Loaded, lease', c) /\ lease'.owner = Loaded.owner /\ lease'.viewers = Loaded.viewers
  BY <1>0, <1>1, LoadedSound, AskTouches
<1>5. Loaded' = lease' /\ Carried(c)
  BY <1>4, SavedIsCarried
<1>6. WillBeat(c) => WillBeat(c)'
  BY <1>0, <1>1 DEF WillBeat
<1>7. Abides(c)'
  <2>1. c \in Running' => c \in Running
    BY <1>1 DEF Running
  <2>2. c \in Clis => status'[c] \in {"off", "gone"}
    BY <1>0, <1>1 DEF Abides
  <2>3. c \in Tuis => /\ status'[c] # "off"
                      /\ guard'[c].attached = guard'[c].owner
                      /\ c \in lease'.viewers /\ status'[c] # "gone" =>
                           guard'[c].viewer /\ ~guard'[c].attached
    BY <1>0, <1>1, <1>4, LoadedSound DEF Abides, Asks, Up
  <2>4. c \in Running' =>
          /\ Loaded'.owner = c => WillBeat(c)' \/ Loaded'.beat <= Grace(c)'
          /\ c \in Loaded'.viewers => WillBeat(c)' \/ Loaded'.vbeat[c] <= Grace(c)'
    BY <1>2, <1>5, <1>6, <2>1, PlaceAbides
  <2> QED
    BY <2>2, <2>3, <2>4 DEF Abides
<1>8. Timely'
  BY <1>2, <1>3, <1>5, <1>7, StepIsTimely
<1> QED
  BY <1>4, <1>5, <1>8 DEF Passes

LEMMA RespondsPasses ==
  ASSUME Inv, Inv', Prompt, Timely, NEW c \in Users, NEW accept \in BOOLEAN, Responds(c, accept)
  PROVE  Timely' /\ Passes
<1>0. /\ c \in Clients /\ Abides(c) /\ Loaded.owner = c /\ status[c] # "off"
      /\ Loaded.request.id # 0 /\ seen[c].request = Loaded.request.id
  BY UsersAreClients DEF Responds, Timely, CanRespond, Up
<1>1. /\ status' = status /\ due' = due /\ phase' = phase /\ guard' = guard
      /\ earlier' = earlier /\ PutsOff(c) /\ lease' = RespondTakeover(Loaded, accept)
      /\ seen' = [seen EXCEPT ![c] = View(EvictStaleClients(lease'))]
  BY DEF Responds
<1>2. /\ Grace(c) <= Grace(c)' /\ delays' >= delays
      /\ \A d \in Clients \ {c} : d \in served' <=> d \in served
  BY <1>1, PutsOffLoosens
<1>3. \A d \in Clients \ {c} : Alike(d)
  BY <1>1, <1>2, Parts DEF Alike, EnvOK
<1>4. /\ Clean(Loaded) /\ Sound(Loaded) /\ Loaded.owner \notin Loaded.viewers
      /\ Loaded.request.by \in Requesters
  BY <1>0, LoadedIsClean, LoadedSound, NoRequestIsSound DEF Timely, Follows, Sound
<1>5. /\ Touches(Loaded, lease', None) /\ lease'.request = NoRequest
      /\ accept => lease'.owner = Loaded.request.by
      /\ ~accept => lease'.owner = Loaded.owner
  BY <1>0, <1>1, <1>4, AnswerTouches DEF Clean
<1>6. Loaded' = lease' /\ Carried(c) /\ lease'.viewers \subseteq Loaded.viewers
  BY <1>5, SoundNext, WeakerTouch, SavedIsCarried, ClientsAssumption
     DEF Touches, Sound, OwnershipRecord
<1>7. seen'[c].owner = Loaded'.owner
  <2>1. EvictStaleClients(lease') = Read(lease', earlier)
    BY Zenon DEF EvictStaleClients, ReplaceStaleOwner, Oldest, Read, Promoted, First
  <2>2. seen'[c].owner = EvictStaleClients(lease').owner
    BY <1>1, Parts DEF EnvOK, View
  <2> QED
    BY <1>1, <2>1, <2>2, LoadedIsRead
<1>8. Abides(c)'
  <2>1. c \in Running' => c \in Running
    BY <1>1 DEF Running
  <2>2. c \in Clis => status'[c] \in {"off", "gone"}
    BY <1>0, <1>1 DEF Abides
  <2>3. c \in Tuis => /\ status'[c] # "off"
                      /\ guard'[c].attached = guard'[c].owner
                      /\ c \notin lease'.viewers
    BY <1>0, <1>1, <1>4, <1>6 DEF Abides
  <2>4. CASE Loaded'.owner = c
    <3>1. WillBeat(c) => WillBeat(c)'
      BY <1>1, <1>7, <2>4 DEF WillBeat
    <3>2. c \in Running' =>
            /\ Loaded'.owner = c => WillBeat(c)' \/ Loaded'.beat <= Grace(c)'
            /\ c \in Loaded'.viewers => WillBeat(c)' \/ Loaded'.vbeat[c] <= Grace(c)'
      BY <1>2, <1>6, <2>1, <3>1, PlaceAbides
    <3> QED
      BY <2>2, <2>3, <3>2 DEF Abides
  <2>5. CASE Loaded'.owner # c
    BY <1>0, <1>4, <1>6, <2>2, <2>3, <2>5 DEF Abides
  <2> QED
    BY <2>4, <2>5
<1>9. Timely'
  BY <1>2, <1>3, <1>6, <1>8, StepIsTimely
<1>10. Passes
  <2>1. accept => KeptBy!HandOver
    <3>1. c # None
      BY <1>0, ClientsAssumption
    <3> QED
      BY <1>0, <1>5, <1>6, <3>1, NoRequestIsSound DEF KeptBy!HandOver, KeptBy!PassesTo
  <2> QED
    BY <1>5, <1>6, <2>1 DEF Passes
<1> QED
  BY <1>9, <1>10

LEMMA CliClaimsPasses ==
  ASSUME Inv, Inv', Prompt, Timely, NEW k \in Clis, CliClaims(k)
  PROVE  Timely' /\ Passes
<1>0. k \in Clients /\ k \notin Users /\ k \notin Tuis
  BY UsersAreClients, ClientsAssumption DEF Users
<1>1. /\ status' = [status EXCEPT ![k] = "gone"] /\ served' = served \cup {k} /\ due' = due
      /\ guard' = guard /\ phase' = phase /\ seen' = seen /\ delays' = delays
      /\ lease' = ClaimOwner(Loaded, k)
  BY DEF CliClaims, Serves, counters
<1>2. (\A d \in Clients \ {k} : Alike(d)) /\ status'[k] = "gone"
  BY <1>0, <1>1, Parts DEF Alike, EnvOK
<1>3. delays' >= delays
  BY <1>1, TimesAssumption, Parts DEF EnvOK
<1>4. Loaded' = lease' /\ Carried(k)
  BY <1>0, <1>1, LoadedSound, ClaimTouches, SavedIsCarried
<1>5. Abides(k)'
  BY <1>0, <1>2 DEF Abides, Running
<1>6. Timely'
  BY <1>2, <1>3, <1>4, <1>5, StepIsTimely
<1> QED
  BY <1>0, <1>1, <1>4, <1>6, ClaimPasses

LEMMA CliAsksPasses ==
  ASSUME Inv, Inv', Prompt, Timely, NEW k \in Clis, CliAsks(k)
  PROVE  Timely' /\ Passes
<1>0. k \in Clients /\ k \notin Users /\ k \notin Tuis /\ k \in Requesters
  BY UsersAreClients, ClientsAssumption DEF Users, CliAsks, CanAsk
<1>1. /\ status' = [status EXCEPT ![k] = "gone"] /\ served' = served \cup {k} /\ due' = due
      /\ guard' = guard /\ phase' = phase /\ seen' = seen /\ delays' = delays
      /\ lease' = RequestTakeover(Loaded, k, nreq + 1)
  BY DEF CliAsks, Serves
<1>2. (\A d \in Clients \ {k} : Alike(d)) /\ status'[k] = "gone"
  BY <1>0, <1>1, Parts DEF Alike, EnvOK
<1>3. delays' >= delays
  BY <1>1, TimesAssumption, Parts DEF EnvOK
<1>4. Touches(Loaded, lease', k) /\ lease'.owner = Loaded.owner
  BY <1>0, <1>1, LoadedSound, AskTouches
<1>5. Loaded' = lease' /\ Carried(k)
  BY <1>4, SavedIsCarried
<1>6. Abides(k)'
  BY <1>0, <1>2 DEF Abides, Running
<1>7. Timely'
  BY <1>2, <1>3, <1>5, <1>6, StepIsTimely
<1> QED
  BY <1>4, <1>5, <1>7 DEF Passes

LEMMA ForceReleasePasses ==
  ASSUME Inv, Inv', Prompt, Timely, ForceRelease
  PROVE  Timely' /\ Passes
<1>1. lease' = ReleaseOwner(Loaded, Loaded.owner) /\ seizures' = seizures + 1
  BY DEF ForceRelease
<1>2. Touches(Loaded, lease', None) /\ lease'.owner = None
  BY <1>1, LoadedSound, DisownTouches
<1>3. Loaded' = lease' /\ Carried(None)
  BY <1>2, SavedIsCarried
<1>4. \A d \in Clients : Alike(d)
  BY DEF Alike, ForceRelease, clientVars
<1>5. delays' >= delays
  BY TimesAssumption, Parts DEF EnvOK, ForceRelease
<1>6. Timely'
  BY <1>3, <1>4, <1>5, StepIsTimely, ClientsAssumption
<1> QED
  BY <1>1, <1>2, <1>3, <1>6 DEF Passes, KeptBy!Seize

-----------------------------------------------------------------------------
\* The surroundings.

LEMMA FaultsPass ==
  ASSUME Inv, Inv', Prompt, Timely, NEW c \in Users, Dies(c) \/ Hangs(c) \/ Resumes(c)
  PROVE  Timely' /\ Passes
<1>0. c \in Clients /\ Abides(c) /\ c \notin Clis /\ status[c] \notin {"off", "gone"}
  BY UsersAreClients, ClientsAssumption DEF Timely, Users, Dies, Hangs, Resumes, Up
<1>1. /\ lease' = lease /\ earlier' = earlier /\ served' = served /\ due' = due
      /\ delays' = delays
  BY DEF Dies, Hangs, Resumes, counters
<1>2. /\ Dies(c) => /\ status' = [status EXCEPT ![c] = "gone"]
                    /\ guard' = [guard EXCEPT ![c] = NoGuards]
                    /\ phase' = [phase EXCEPT ![c] = "rest"]
                    /\ seen' = [seen EXCEPT ![c] = Unseen]
      /\ Hangs(c) => /\ status' = [status EXCEPT ![c] = "hung"]
                     /\ guard' = guard /\ phase' = phase /\ seen' = seen
      /\ Resumes(c) => /\ status' = [status EXCEPT ![c] = "woken"]
                       /\ guard' = guard /\ phase' = phase /\ seen' = seen
  BY DEF Dies, Hangs, Resumes
<1>3. \A d \in Clients \ {c} : Alike(d)
  BY <1>0, <1>1, <1>2, Parts DEF Alike, EnvOK
<1>4. delays' >= delays
  BY <1>1, TimesAssumption, Parts DEF EnvOK
<1>5. Loaded' = Loaded /\ Carried(c)
  BY <1>1, UnreadIsCarried
<1>6. Abides(c)'
  <2>1. CASE Dies(c)
    <3>1. status'[c] = "gone" /\ guard'[c] = NoGuards
      BY <1>0, <1>2, <2>1, Parts DEF EnvOK
    <3>2. NoGuards.attached = FALSE /\ NoGuards.owner = FALSE
      BY DEF NoGuards
    <3> QED
      BY <1>0, <3>1, <3>2 DEF Abides, Running
  <2>2. CASE Hangs(c) \/ Resumes(c)
    <3>1. status'[c] \in {"hung", "woken"} /\ guard' = guard
      BY <1>0, <1>2, <2>2, Parts DEF EnvOK
    <3> QED
      BY <1>0, <1>1, <3>1 DEF Abides, Running
  <2> QED
    BY <2>1, <2>2
<1>7. Timely'
  BY <1>3, <1>4, <1>5, <1>6, StepIsTimely
<1> QED
  BY <1>5, <1>7 DEF Passes

LEMMA IdlePasses ==
  ASSUME Inv, Inv', Prompt, Timely, CoordinatorStarts \/ CoordinatorEnds \/ UNCHANGED vars
  PROVE  Timely' /\ Passes
<1>1. lease' = lease /\ earlier' = earlier /\ UNCHANGED clientVars /\ delays' = delays
  BY DEF CoordinatorStarts, CoordinatorEnds, vars, counters
<1>2. Loaded' = Loaded /\ Carried(None)
  BY <1>1, UnreadIsCarried
<1>3. \A d \in Clients : Alike(d)
  BY <1>1 DEF Alike, clientVars
<1>4. delays' >= delays
  BY <1>1, TimesAssumption, Parts DEF EnvOK
<1>5. Timely'
  BY <1>2, <1>3, <1>4, StepIsTimely, ClientsAssumption
<1> QED
  BY <1>2, <1>5 DEF Passes

-----------------------------------------------------------------------------
(* A period passes.                                                        *)

LEMMA AgedIs ==
  ASSUME NEW a \in Ages
  PROVE  /\ Aged(a) \in Nat /\ a <= Aged(a) /\ Aged(a) <= a + 1
         /\ a <= TTL \/ a <= Timeout => Aged(a) = a + 1
BY TimesAssumption DEF Ages, Aged, Old

\* m is l one period later.
Aging(l, m) ==
  /\ m.owner = l.owner /\ (l.owner # None => m.beat = Aged(l.beat))
  /\ m.viewers = l.viewers /\ \A v \in l.viewers : m.vbeat[v] = Aged(l.vbeat[v])

LEMMA TickAges ==
  ASSUME Inv, Tick
  PROVE  /\ Aging(lease, lease') /\ lease'.owner = lease.owner /\ lease'.viewers = lease.viewers
         /\ lease'.request.id = lease.request.id /\ lease'.request.by = lease.request.by
         /\ lease.request.id # 0 => lease'.request.age = Aged(lease.request.age)
         /\ lease.request.id = 0 => lease'.request.age = 0
<1> DEFINE beat == IF lease.owner = None THEN lease.beat ELSE Aged(lease.beat)
           vb == [c \in Clients |-> IF c \in lease.viewers THEN Aged(lease.vbeat[c]) ELSE 0]
           q == [lease.request EXCEPT
                   !.age = IF lease.request.id = 0 THEN 0 ELSE Aged(lease.request.age)]
<1>0. Sound(lease)
  BY Parts
<1>1. lease' = [lease EXCEPT !.beat = beat, !.vbeat = vb, !.request = q]
  BY <1>0 DEF Tick, Sound, OwnershipRecord, Requests
<1>2. /\ lease.owner # None => beat = Aged(lease.beat)
      /\ \A v \in lease.viewers : vb[v] = Aged(lease.vbeat[v])
  BY <1>0 DEF Sound, OwnershipRecord
<1>3. /\ q.id = lease.request.id /\ q.by = lease.request.by
      /\ q.age = IF lease.request.id = 0 THEN 0 ELSE Aged(lease.request.age)
  BY <1>0 DEF Sound, OwnershipRecord, Requests
<1> HIDE DEF beat, vb, q
<1>4. /\ lease'.owner = lease.owner /\ lease'.beat = beat
      /\ lease'.viewers = lease.viewers /\ lease'.vbeat = vb /\ lease'.request = q
  BY <1>0, <1>1 DEF Sound, OwnershipRecord
<1> QED
  BY <1>2, <1>3, <1>4 DEF Aging

\* Only a request that falls due with the period makes more of it than older heartbeats.
LEMMA ResolveAges ==
  ASSUME NEW l, Sound(l), NEW m, Sound(m), Aging(l, m),
         m.request.id = l.request.id, m.request.by = l.request.by,
         l.request.id # 0 => m.request.age = Aged(l.request.age),
         Overdue(m) /\ AutoAccept => Overdue(l)
  PROVE  Aging(ResolveOverdue(l), ResolveOverdue(m))
<1>0. l.request.age \in Ages
  BY DEF Sound, OwnershipRecord, Requests
<1>1. Overdue(l) => Overdue(m)
  <2>1. Aged(l.request.age) \in Nat /\ l.request.age <= Aged(l.request.age)
    BY <1>0, AgedIs
  <2> QED
    BY <1>0, <2>1, AgesAre, TimesAssumption DEF Overdue
<1>2. CASE ~Overdue(m)
  BY <1>1, <1>2 DEF ResolveOverdue
<1>3. CASE Overdue(m) /\ ~AutoAccept
  BY <1>3, ResolveFields DEF Aging
<1>4. CASE Overdue(m) /\ AutoAccept
  <2>1. Overdue(l) /\ l.request.id # 0
    BY <1>4 DEF Overdue
  <2>2. /\ ResolveOverdue(l).owner = l.request.by /\ ResolveOverdue(l).beat = l.request.age
        /\ ResolveOverdue(l).viewers = l.viewers \ {l.request.by}
        /\ \A v \in ResolveOverdue(l).viewers : ResolveOverdue(l).vbeat[v] = l.vbeat[v]
    BY <1>4, <2>1, ResolveFields
  <2>3. /\ ResolveOverdue(m).owner = m.request.by /\ ResolveOverdue(m).beat = m.request.age
        /\ ResolveOverdue(m).viewers = m.viewers \ {m.request.by}
        /\ \A v \in ResolveOverdue(m).viewers : ResolveOverdue(m).vbeat[v] = m.vbeat[v]
    BY <1>4, ResolveFields
  <2> QED
    BY <2>1, <2>2, <2>3 DEF Aging
<1> QED
  BY <1>2, <1>3, <1>4

\* A viewer that is dropped now was about to be.
LEMMA DropAges ==
  ASSUME NEW a, Sound(a), NEW b, Sound(b), Aging(a, b)
  PROVE  LET d == DropStaleViewers(a)
             e == DropStaleViewers(b)
         IN /\ Sound(d) /\ Sound(e) /\ d.viewers \subseteq a.viewers /\ e.viewers \subseteq d.viewers
            /\ d.owner = a.owner /\ e.owner = a.owner /\ d.beat = a.beat
            /\ a.owner # None => e.beat = Aged(a.beat)
            /\ \A v \in e.viewers : e.vbeat[v] = Aged(d.vbeat[v])
            /\ \A v \in d.viewers \ e.viewers : d.vbeat[v] >= TTL
<1> DEFINE d == DropStaleViewers(a)
           e == DropStaleViewers(b)
<1>1. /\ Sound(d) /\ d.owner = a.owner /\ d.beat = a.beat
      /\ d.viewers = {v \in a.viewers : a.vbeat[v] <= TTL}
      /\ \A v \in d.viewers : d.vbeat[v] = a.vbeat[v]
  BY DropFields, DropStaleViewersKeeps
<1>2. /\ Sound(e) /\ e.owner = b.owner /\ e.beat = b.beat
      /\ e.viewers = {v \in b.viewers : b.vbeat[v] <= TTL}
      /\ \A v \in e.viewers : e.vbeat[v] = b.vbeat[v]
  BY DropFields, DropStaleViewersKeeps
<1> HIDE DEF d, e
<1>3. \A v \in a.viewers : a.vbeat[v] \in Ages /\ b.vbeat[v] = Aged(a.vbeat[v])
  BY DEF Aging, Sound, OwnershipRecord
<1>4. \A v \in a.viewers :
        /\ a.vbeat[v] \in Nat /\ Aged(a.vbeat[v]) \in Nat /\ a.vbeat[v] <= Aged(a.vbeat[v])
        /\ a.vbeat[v] <= TTL => Aged(a.vbeat[v]) = a.vbeat[v] + 1
  BY <1>3, AgesAre, AgedIs
<1>5. e.viewers \subseteq d.viewers
  BY <1>1, <1>2, <1>3, <1>4, TimesAssumption DEF Aging
<1>6. \A v \in d.viewers \ e.viewers : d.vbeat[v] >= TTL
  <2> SUFFICES ASSUME NEW v \in d.viewers, v \notin e.viewers PROVE d.vbeat[v] >= TTL
    OBVIOUS
  <2>1. v \in a.viewers /\ a.vbeat[v] <= TTL /\ d.vbeat[v] = a.vbeat[v]
    BY <1>1
  <2>2. ~(b.vbeat[v] <= TTL)
    BY <1>2, <2>1 DEF Aging
  <2> QED
    BY <1>3, <1>4, <2>1, <2>2, TimesAssumption
<1> QED
  BY <1>1, <1>2, <1>3, <1>5, <1>6 DEF Aging, d, e

\* The owner that a reader sees stays for a period, unless its heartbeat is the oldest one
\* that still counts; and who takes its place has been a viewer.
LEMMA ReadAges ==
  ASSUME NEW a, Sound(a), NEW b, Sound(b), Aging(a, b), NEW order,
         \A V \in SUBSET a.viewers : Ordering(V, order)
  PROVE  LET l == Promoted(DropStaleViewers(a), order)
             n == Promoted(DropStaleViewers(b), order)
         IN /\ n.owner = l.owner \/ (l.owner # None /\ l.beat >= TTL)
            /\ n.owner # None =>
                 \/ n.owner = l.owner /\ n.beat <= l.beat + 1
                 \/ n.owner \in l.viewers /\ n.beat <= l.vbeat[n.owner] + 1
            /\ \A v \in n.viewers : v \in l.viewers /\ n.vbeat[v] <= l.vbeat[v] + 1
<1> DEFINE dd == DropStaleViewers(a)
           ee == DropStaleViewers(b)
<1>0. PICK d, e : d = dd /\ e = ee
  OBVIOUS
<1>1. /\ Sound(d) /\ Sound(e) /\ d.viewers \subseteq a.viewers /\ e.viewers \subseteq d.viewers
      /\ d.owner = a.owner /\ e.owner = a.owner /\ d.beat = a.beat
      /\ a.owner # None => e.beat = Aged(a.beat)
      /\ \A v \in e.viewers : e.vbeat[v] = Aged(d.vbeat[v])
      /\ \A v \in d.viewers \ e.viewers : d.vbeat[v] >= TTL
  BY <1>0, DropAges
<1> HIDE DEF dd, ee
<1>2. Ordering(d.viewers, order) /\ Ordering(e.viewers, order)
  BY <1>1
<1>3. PICK l, n : l = Promoted(d, order) /\ n = Promoted(e, order)
  OBVIOUS
<1>4. PICK f, g : f = First(d.viewers, order) /\ g = First(e.viewers, order)
  OBVIOUS
<1>5. /\ d.owner = None \/ d.beat <= TTL => l = d
      /\ d.owner # None /\ ~(d.beat <= TTL) /\ d.viewers = {} => l.owner = None /\ l.viewers = {}
      /\ d.owner # None /\ ~(d.beat <= TTL) /\ d.viewers # {} =>
           f \in d.viewers /\ l.owner = f /\ l.beat = d.vbeat[f] /\ l.viewers = d.viewers \ {f}
      /\ \A v \in l.viewers : v \in d.viewers /\ l.vbeat[v] = d.vbeat[v]
  BY <1>1, <1>2, <1>3, <1>4, PromotedFields
<1>6. /\ e.owner = None \/ e.beat <= TTL => n = e
      /\ e.owner # None /\ ~(e.beat <= TTL) /\ e.viewers = {} => n.owner = None /\ n.viewers = {}
      /\ e.owner # None /\ ~(e.beat <= TTL) /\ e.viewers # {} =>
           g \in e.viewers /\ n.owner = g /\ n.beat = e.vbeat[g] /\ n.viewers = e.viewers \ {g}
      /\ \A v \in n.viewers : v \in e.viewers /\ n.vbeat[v] = e.vbeat[v]
  BY <1>1, <1>2, <1>3, <1>4, PromotedFields
<1>7. /\ d.beat \in Nat /\ Aged(d.beat) \in Nat /\ d.beat <= Aged(d.beat) /\ Aged(d.beat) <= d.beat + 1
      /\ \A v \in d.viewers : /\ d.vbeat[v] \in Nat /\ Aged(d.vbeat[v]) \in Nat
                              /\ Aged(d.vbeat[v]) <= d.vbeat[v] + 1 /\ v # None
  BY <1>1, AgesAre, AgedIs, ClientsAssumption DEF Sound, OwnershipRecord
<1>8. f \in e.viewers => g = f
  <2> SUFFICES ASSUME f \in e.viewers PROVE g = f
    OBVIOUS
  <2>1. d.viewers # {} /\ e.viewers # {}
    BY <1>1
  <2>2. \A w \in d.viewers \ {f} : <<f, w>> \in order
    BY <1>2, <1>4, <2>1, FirstIsFirst
  <2>3. \A w \in e.viewers \ {f} : <<f, w>> \in order
    BY <1>1, <2>2
  <2> QED
    BY <1>2, <1>4, <2>1, <2>3, FirstIsFirst
<1> DEFINE Goal ==
      /\ n.owner = l.owner \/ (l.owner # None /\ l.beat >= TTL)
      /\ n.owner # None =>
           \/ n.owner = l.owner /\ n.beat <= l.beat + 1
           \/ n.owner \in l.viewers /\ n.beat <= l.vbeat[n.owner] + 1
      /\ \A v \in n.viewers : v \in l.viewers /\ n.vbeat[v] <= l.vbeat[v] + 1
<1>9. ASSUME a.owner = None PROVE Goal
  BY <1>1, <1>5, <1>6, <1>7, <1>9
<1>10. ASSUME a.owner # None, d.beat <= TTL, e.beat <= TTL PROVE Goal
  BY <1>1, <1>5, <1>6, <1>7, <1>10
<1>11. ASSUME a.owner # None, d.beat <= TTL, ~(e.beat <= TTL) PROVE Goal
  <2>1. l = d /\ l.beat >= TTL /\ l.owner # None
    BY <1>1, <1>5, <1>7, <1>11, TimesAssumption
  <2>2. \A v \in n.viewers : v \in l.viewers /\ n.vbeat[v] <= l.vbeat[v] + 1
    BY <1>1, <1>6, <1>7, <2>1
  <2>3. n.owner # None => n.owner \in l.viewers /\ n.beat <= l.vbeat[n.owner] + 1
    BY <1>1, <1>6, <1>7, <1>11, <2>1
  <2> QED
    BY <2>1, <2>2, <2>3
<1>12. ASSUME a.owner # None, ~(d.beat <= TTL) PROVE Goal
  <2>1. ~(e.beat <= TTL) /\ d.owner # None /\ e.owner # None
    BY <1>1, <1>7, <1>12, TimesAssumption
  <2>2. CASE d.viewers = {}
    BY <1>1, <1>5, <1>6, <1>12, <2>1, <2>2
  <2>3. CASE d.viewers # {}
    <3>1. f \in d.viewers /\ l.owner = f /\ l.beat = d.vbeat[f] /\ l.viewers = d.viewers \ {f}
      BY <1>5, <1>12, <2>1, <2>3
    <3>2. CASE f \in e.viewers
      <4>1. n.owner = f /\ n.beat = e.vbeat[f] /\ n.viewers = e.viewers \ {f}
        BY <1>6, <1>8, <2>1, <3>2
      <4>2. n.beat <= l.beat + 1
        BY <1>1, <1>7, <3>1, <3>2, <4>1
      <4>3. \A v \in n.viewers : v \in l.viewers /\ n.vbeat[v] <= l.vbeat[v] + 1
        BY <1>1, <1>5, <1>6, <1>7, <3>1, <4>1
      <4> QED
        BY <3>1, <4>1, <4>2, <4>3
    <3>3. CASE f \notin e.viewers
      <4>1. l.beat >= TTL /\ l.owner # None
        BY <1>1, <1>7, <3>1, <3>3
      <4>2. \A v \in n.viewers : v \in l.viewers /\ n.vbeat[v] <= l.vbeat[v] + 1
        BY <1>1, <1>5, <1>6, <1>7, <3>1, <3>3
      <4>3. n.owner # None => n.owner \in l.viewers /\ n.beat <= l.vbeat[n.owner] + 1
        <5>1. CASE e.viewers = {}
          BY <1>6, <2>1, <5>1
        <5>2. CASE e.viewers # {}
          <6>1. g \in e.viewers /\ n.owner = g /\ n.beat = e.vbeat[g]
            BY <1>6, <2>1, <5>2
          <6>2. g \in l.viewers /\ l.vbeat[g] = d.vbeat[g] /\ g \in d.viewers
            BY <1>1, <1>5, <3>1, <3>3, <6>1
          <6> QED
            BY <1>1, <1>7, <6>1, <6>2
        <5> QED
          BY <5>1, <5>2
      <4> QED
        BY <4>1, <4>2, <4>3
    <3> QED
      BY <3>2, <3>3
  <2> QED
    BY <2>2, <2>3
<1>13. Goal
  BY <1>9, <1>10, <1>11, <1>12
<1> QED
  BY <1>0, <1>3, <1>13 DEF dd, ee

\* A request that falls due makes its requester the owner, and leaves it no less than the
\* rest of its time to beat.
LEMMA GrantAges ==
  ASSUME Prompt, AutoAccept, NEW a, Sound(a), NEW b, Sound(b), Aging(a, b),
         b.request.id = a.request.id, b.request.by = a.request.by,
         a.request.id # 0 => b.request.age = Aged(a.request.age),
         a.request.by \in Requesters \cup {None}, ~Overdue(a), Overdue(b),
         NEW order, \A V \in SUBSET a.viewers : Ordering(V, order)
  PROVE  LET l == Read(a, order)
             n == Read(b, order)
         IN /\ l.request = a.request /\ l.request.id # 0 /\ Timeout > 0 /\ l.request.age >= Timeout
            /\ n.owner = a.request.by /\ n.owner \in Requesters /\ n.beat = Timeout + 1
            /\ n.request = NoRequest
            /\ \A v \in n.viewers :
                 \/ v \in l.viewers /\ n.vbeat[v] <= l.vbeat[v] + 1
                 \/ v = l.owner /\ n.vbeat[v] <= l.beat + 1
<1>0. PICK c : c = ResolveOverdue(b)
  OBVIOUS
<1>1. PICK d, e : d = DropStaleViewers(a) /\ e = DropStaleViewers(c)
  OBVIOUS
<1>2. PICK l, n : l = Read(a, order) /\ n = Read(b, order)
  OBVIOUS
<1>3. /\ a.request.id # 0 /\ Timeout > 0 /\ a.request.age = Timeout /\ b.request.age = Timeout + 1
      /\ a.request.by \in Requesters /\ Timeout + 1 <= TTL
  <2>1. a.request.age \in Ages /\ a.request.id # 0 /\ Timeout > 0 /\ a.request.by \in Requesters
    BY DEF Sound, OwnershipRecord, Requests, Overdue
  <2>2. a.request.age \in Nat /\ a.request.age <= Timeout
    BY <2>1, AgesAre, TimesAssumption DEF Overdue
  <2>3. b.request.age = a.request.age + 1 /\ b.request.age > Timeout
    BY <2>1, <2>2, AgedIs DEF Overdue
  <2> QED
    BY <2>1, <2>2, <2>3, TimesAssumption DEF Prompt
<1>4. /\ c.owner = a.request.by /\ c.beat = Timeout + 1 /\ c.request = NoRequest
      /\ c.viewers \subseteq a.viewers /\ \A v \in c.viewers : c.vbeat[v] = Aged(a.vbeat[v])
      /\ Sound(c)
  BY <1>0, <1>3, ResolveFields, ResolveOverdueKeeps DEF Aging
<1>5. /\ Sound(e) /\ e.owner = c.owner /\ e.beat = c.beat /\ e.request = c.request
      /\ e.viewers = {v \in c.viewers : c.vbeat[v] <= TTL}
      /\ \A v \in e.viewers : e.vbeat[v] = c.vbeat[v]
  BY <1>1, <1>4, DropFields, DropStaleViewersKeeps
<1>6. n = e
  BY <1>0, <1>1, <1>2, <1>3, <1>4, <1>5 DEF Read, Promoted
<1>7. /\ Sound(d) /\ d.owner = a.owner /\ d.beat = a.beat /\ d.request = a.request
      /\ d.viewers = {v \in a.viewers : a.vbeat[v] <= TTL}
      /\ \A v \in d.viewers : d.vbeat[v] = a.vbeat[v]
  BY <1>1, DropFields, DropStaleViewersKeeps
<1>8. l = Promoted(d, order) /\ Ordering(d.viewers, order) /\ Sound(d)
  BY <1>1, <1>2, <1>7 DEF Read, ResolveOverdue
<1>9. PICK f : f = First(d.viewers, order)
  OBVIOUS
<1>10. /\ l.request = d.request
       /\ d.owner = None \/ d.beat <= TTL => l = d
       /\ d.owner # None /\ ~(d.beat <= TTL) /\ d.viewers # {} =>
            f \in d.viewers /\ l.owner = f /\ l.beat = d.vbeat[f] /\ l.viewers = d.viewers \ {f}
       /\ \A v \in l.viewers : v \in d.viewers /\ l.vbeat[v] = d.vbeat[v]
  BY <1>8, <1>9, PromotedFields
<1>11. \A v \in n.viewers : v \in d.viewers /\ n.vbeat[v] <= d.vbeat[v] + 1
  <2> SUFFICES ASSUME NEW v \in n.viewers
               PROVE  v \in d.viewers /\ n.vbeat[v] <= d.vbeat[v] + 1
    OBVIOUS
  <2>1. v \in c.viewers /\ v \in a.viewers /\ n.vbeat[v] = Aged(a.vbeat[v]) /\ Aged(a.vbeat[v]) <= TTL
    BY <1>4, <1>5, <1>6
  <2>2. a.vbeat[v] \in Ages
    BY <2>1 DEF Sound, OwnershipRecord
  <2>3. /\ a.vbeat[v] \in Nat /\ Aged(a.vbeat[v]) \in Nat /\ a.vbeat[v] <= Aged(a.vbeat[v])
        /\ Aged(a.vbeat[v]) <= a.vbeat[v] + 1
    BY <2>2, AgesAre, AgedIs
  <2> QED
    BY <1>7, <2>1, <2>3, TimesAssumption
<1>12. \A v \in n.viewers :
         \/ v \in l.viewers /\ n.vbeat[v] <= l.vbeat[v] + 1
         \/ v = l.owner /\ n.vbeat[v] <= l.beat + 1
  BY <1>10, <1>11
<1>13. l.request = a.request /\ l.request.age >= Timeout
  BY <1>3, <1>7, <1>10, TimesAssumption
<1> QED
  BY <1>2, <1>3, <1>4, <1>5, <1>6, <1>12, <1>13

\* A client that runs has another period.
LEMMA GraceGrows ==
  ASSUME Inv, Inv', Tick, NEW c \in Running, c \in Users
  PROVE  /\ ~WillBeat(c) /\ Grace(c) \in Nat /\ Grace(c)' = Grace(c) + 1 /\ Lag(c) + 1 <= Grace(c)'
         /\ Prompt => Grace(c) < TTL
<1>1. /\ c \in Clients /\ c \in served /\ (c \in Tuis => phase[c] = "rest")
      /\ c \in Webs => due[c] < WebGap
  BY DEF Tick, OnTime, Running, Up
<1>2. /\ served' = {} /\ phase' = phase /\ delays' = delays
      /\ due' = [w \in Webs |-> IF due[w] < WebGap THEN due[w] + 1 ELSE due[w]]
  BY DEF Tick, counters
<1>3. Lag(c) \in Nat /\ delays \in Nat /\ delays <= MaxDelays /\ (c \in Webs => due[c] \in Nat)
  BY TimesAssumption, Parts DEF Lag, EnvOK
<1>4. c \in Webs => due'[c] = due[c] + 1
  BY <1>1, <1>2
<1>5. c \in Tuis <=> c \notin Webs
  BY ClientsAssumption DEF Users
<1>6. Lag(c)' = Lag(c)
  BY DEF Lag
<1>7. Grace(c) \in Nat /\ Grace(c)' = Grace(c) + 1 /\ Lag(c) + 1 <= Grace(c)'
  <2>1. CASE c \in Webs
    <3>1. Grace(c) = due[c] + Lag(c) /\ Grace(c)' = due[c] + 1 + Lag(c)
      BY <1>4, <1>6, <2>1 DEF Grace
    <3> QED
      BY <1>3, <2>1, <3>1
  <2>2. CASE c \notin Webs
    <3>1. Grace(c) = Lag(c) + delays /\ Grace(c)' = Lag(c) + delays + 1
      BY <1>1, <1>2, <1>3, <1>5, <1>6, <2>2, TimesAssumption DEF Grace
    <3> QED
      BY <1>3, <3>1, TimesAssumption
  <2> QED
    BY <2>1, <2>2
<1>8. ~WillBeat(c)
  BY <1>1 DEF WillBeat
<1>9. Prompt => Grace(c) < TTL
  <2>1. CASE c \in Webs
    BY <1>1, <1>3, <2>1, TimesAssumption DEF Grace, Prompt
  <2>2. CASE c \in Tuis
    BY <1>1, <1>3, <1>5, <2>2, TimesAssumption DEF Grace, Prompt
  <2> QED
    BY <1>5, <2>1, <2>2
<1> QED
  BY <1>7, <1>8, <1>9

LEMMA TickPasses ==
  ASSUME Inv, Inv', Prompt, Timely, Tick
  PROVE  Timely' /\ Passes
<1>0. /\ Sound(lease) /\ lease.request.by \in Requesters \cup {None}
      /\ \A V \in SUBSET lease.viewers : Ordering(V, earlier)
  BY Parts, ViewersAreOrdered DEF Timely
<1>1. PICK m : m = lease'
  OBVIOUS
<1>2. PICK l, n : l = Loaded /\ n = Loaded'
  OBVIOUS
<1>3. Sound(m) /\ Aging(lease, m) /\ m.owner = lease.owner /\ m.viewers = lease.viewers
      /\ m.request.id = lease.request.id /\ m.request.by = lease.request.by
      /\ (lease.request.id # 0 => m.request.age = Aged(lease.request.age))
  BY <1>1, TickAges, SoundNext
<1>4. l = Read(lease, earlier) /\ n = Read(m, earlier)
  BY <1>1, <1>2, LoadedIsRead DEF Tick
<1>5. /\ status' = status /\ guard' = guard /\ phase' = phase /\ seen' = seen
  BY DEF Tick
<1>6. Sound(l) /\ Sound(n)
  <2>1. \A V \in SUBSET m.viewers : Ordering(V, earlier)
    BY <1>0, <1>3
  <2> QED
    BY <1>0, <1>3, <1>4, <2>1, ReadIsClean
<1>7. /\ l.beat \in Nat /\ n.beat \in Nat /\ n.owner \in Clients \cup {None}
      /\ \A v \in Clients : l.vbeat[v] \in Nat /\ n.vbeat[v] \in Nat
  BY <1>6, AgesAre DEF Sound, OwnershipRecord
<1>8. \A c \in Running :
        /\ c \in Users /\ Abides(c) /\ ~WillBeat(c) /\ Grace(c) \in Nat
        /\ Grace(c)' = Grace(c) + 1 /\ Lag(c) + 1 <= Grace(c)' /\ Grace(c) < TTL
        /\ l.owner = c => l.beat <= Grace(c)
        /\ c \in l.viewers => l.vbeat[c] <= Grace(c)
  <2> SUFFICES ASSUME NEW c \in Running
               PROVE  /\ c \in Users /\ Abides(c) /\ ~WillBeat(c) /\ Grace(c) \in Nat
                      /\ Grace(c)' = Grace(c) + 1 /\ Lag(c) + 1 <= Grace(c)' /\ Grace(c) < TTL
                      /\ l.owner = c => l.beat <= Grace(c)
                      /\ c \in l.viewers => l.vbeat[c] <= Grace(c)
    OBVIOUS
  <2>1. c \in Clients /\ Abides(c)
    BY DEF Running, Timely
  <2>2. c \in Users
    BY <2>1 DEF Abides, Running, Clients
  <2>3. /\ ~WillBeat(c) /\ Grace(c) \in Nat /\ Grace(c)' = Grace(c) + 1
        /\ Lag(c) + 1 <= Grace(c)' /\ Grace(c) < TTL
    BY <2>2, GraceGrows
  <2>4. /\ l.owner = c => l.beat <= Grace(c)
        /\ c \in l.viewers => l.vbeat[c] <= Grace(c)
    BY <1>2, <2>1, <2>3 DEF Abides
  <2> QED
    BY <2>1, <2>2, <2>3, <2>4
<1>9. Running' = Running
  BY <1>5 DEF Running
\* What is left of each client: its place in the record as it is read now.
<1>10. ASSUME \A c \in Running :
                /\ n.owner = c => n.beat <= Grace(c)'
                /\ c \in n.viewers => n.vbeat[c] <= Grace(c)'
       PROVE  Timely'
  <2>1. m.owner \notin m.viewers /\ m.request.by \in Requesters \cup {None}
    BY <1>3 DEF Timely
  <2>2. Named(m) = Named(lease)
    BY <1>3 DEF Named
  <2>3. ASSUME NEW c \in Clients PROVE Abides(c)'
    <3>0. Abides(c)
      BY DEF Timely
    <3>1. c \in Clis => status'[c] \in {"off", "gone"}
      BY <1>5, <3>0 DEF Abides
    <3>2. ASSUME c \in Tuis
          PROVE  /\ status'[c] = "off" => c \notin Named(lease') /\ guard'[c] = NoGuards
                 /\ guard'[c].attached = guard'[c].owner
                 /\ c \in lease'.viewers /\ status'[c] # "gone" => guard'[c].viewer /\ ~guard'[c].attached
      BY <1>1, <1>3, <1>5, <2>2, <3>0, <3>2 DEF Abides
    <3>3. ASSUME c \in Running'
          PROVE  /\ Loaded'.owner = c => WillBeat(c)' \/ Loaded'.beat <= Grace(c)'
                 /\ c \in Loaded'.viewers => WillBeat(c)' \/ Loaded'.vbeat[c] <= Grace(c)'
      BY <1>2, <1>9, <1>10, <3>3
    <3> QED
      BY <3>1, <3>2, <3>3 DEF Abides
  <2> QED
    BY <1>1, <2>1, <2>3 DEF Timely
<1>11. CASE Overdue(m) /\ AutoAccept /\ ~Overdue(lease)
  <2>1. /\ l.request.id # 0 /\ Timeout > 0 /\ l.request.age >= Timeout
        /\ l.request = lease.request
        /\ n.owner = lease.request.by /\ n.owner \in Requesters /\ n.beat = Timeout + 1
        /\ n.request = NoRequest
        /\ \A v \in n.viewers :
             \/ v \in l.viewers /\ n.vbeat[v] <= l.vbeat[v] + 1
             \/ v = l.owner /\ n.vbeat[v] <= l.beat + 1
    BY <1>0, <1>3, <1>4, <1>11, GrantAges
  <2>2. ASSUME NEW c \in Running
        PROVE  /\ n.owner = c => n.beat <= Grace(c)'
               /\ c \in n.viewers => n.vbeat[c] <= Grace(c)'
    <3>1. c \in Clients /\ (c \in Requesters => Lag(c) = Timeout)
      BY DEF Running, Lag
    <3>2. n.owner = c => n.beat <= Grace(c)'
      BY <1>8, <2>1, <3>1
    <3>3. ASSUME c \in n.viewers PROVE n.vbeat[c] <= Grace(c)'
      <4>1. \/ c \in l.viewers /\ n.vbeat[c] <= l.vbeat[c] + 1
            \/ c = l.owner /\ n.vbeat[c] <= l.beat + 1
        BY <2>1, <3>3
      <4>2. PICK g, h : g = Grace(c) /\ h = Grace(c)'
        OBVIOUS
      <4>3. /\ g \in Nat /\ h = g + 1
            /\ l.owner = c => l.beat <= g
            /\ c \in l.viewers => l.vbeat[c] <= g
        BY <1>8, <4>2
      <4>4. n.vbeat[c] <= h
        BY <1>7, <3>1, <4>1, <4>3
      <4> QED
        BY <4>2, <4>4
    <3> QED
      BY <3>2, <3>3
  <2>3. Timely'
    BY <1>10, <2>2
  <2>4. KeptBy!Overrule
    BY <1>2, <1>11, <2>1, NoRequestIsSound DEF KeptBy!Overrule, KeptBy!PassesTo
  <2> QED
    BY <2>3, <2>4 DEF Passes
<1>12. CASE ~(Overdue(m) /\ AutoAccept /\ ~Overdue(lease))
  <2>0. PICK a, b : a = ResolveOverdue(lease) /\ b = ResolveOverdue(m)
    OBVIOUS
  <2>1. Aging(a, b)
    BY <1>0, <1>3, <1>12, <2>0, ResolveAges
  <2>2. /\ Sound(a) /\ Sound(b) /\ \A V \in SUBSET a.viewers : Ordering(V, earlier)
    BY <1>0, <1>3, <2>0, ResolveOverdueKeeps
  <2>3. l = Promoted(DropStaleViewers(a), earlier) /\ n = Promoted(DropStaleViewers(b), earlier)
    BY <1>4, <2>0 DEF Read
  <2>4. /\ n.owner = l.owner \/ (l.owner # None /\ l.beat >= TTL)
        /\ n.owner # None =>
             \/ n.owner = l.owner /\ n.beat <= l.beat + 1
             \/ n.owner \in l.viewers /\ n.beat <= l.vbeat[n.owner] + 1
        /\ \A v \in n.viewers : v \in l.viewers /\ n.vbeat[v] <= l.vbeat[v] + 1
    BY <2>1, <2>2, <2>3, ReadAges
  <2>5. ASSUME NEW c \in Running
        PROVE  /\ n.owner = c => n.beat <= Grace(c)'
               /\ c \in n.viewers => n.vbeat[c] <= Grace(c)'
    <3>1. c \in Clients /\ c # None
      BY ClientsAssumption DEF Running
    <3>2. PICK g, h : g = Grace(c) /\ h = Grace(c)'
      OBVIOUS
    <3>3. /\ g \in Nat /\ h = g + 1
          /\ l.owner = c => l.beat <= g
          /\ c \in l.viewers => l.vbeat[c] <= g
      BY <1>8, <3>2
    <3>4. /\ n.owner = c => n.beat <= h
          /\ c \in n.viewers => n.vbeat[c] <= h
      BY <1>7, <2>4, <3>1, <3>3
    <3> QED
      BY <3>2, <3>4
  <2>6. Timely'
    BY <1>10, <2>5
  <2>7. l.owner \in Running => n.owner = l.owner
    <3> SUFFICES ASSUME l.owner \in Running, l.beat >= TTL PROVE FALSE
      BY <2>4
    <3>1. PICK g : g = Grace(l.owner)
      OBVIOUS
    <3>2. g \in Nat /\ g < TTL /\ l.beat <= g
      BY <1>8, <3>1
    <3> QED
      BY <1>7, <3>2, TimesAssumption
  <2>8. n.owner = l.owner \/ KeptBy!Expire
    BY <1>2, <1>7, <2>4, <2>7 DEF KeptBy!Expire
  <2> QED
    BY <1>2, <2>6, <2>8 DEF Passes
<1> QED
  BY <1>11, <1>12

LEMMA StepPasses ==
  ASSUME Inv, Inv', Prompt, Timely, [Next]_vars
  PROVE  Timely' /\ Passes
<1>1. ASSUME NEW c \in Tuis, TuiNext(c) PROVE Timely' /\ Passes
  BY <1>1, TuiOpensPasses, TuiLaunchesPasses, TuiDetachesPasses, TuiRefreshesPasses,
     TuiBeatsPasses, TuiQuitsPasses DEF TuiNext
<1>2. ASSUME NEW w \in Webs, WebNext(w) PROVE Timely' /\ Passes
  BY <1>2, WebOpensPasses, WebClaimsPasses, WebBeatsPasses, WebClosesPasses DEF WebNext
<1>3. ASSUME NEW c \in Users, Asks(c) \/ (\E accept \in BOOLEAN : Responds(c, accept))
      PROVE  Timely' /\ Passes
  BY <1>3, AsksPasses, RespondsPasses
<1>4. ASSUME NEW k \in Clis, CliClaims(k) \/ CliAsks(k) PROVE Timely' /\ Passes
  BY <1>4, CliClaimsPasses, CliAsksPasses
<1>5. ASSUME NEW c \in Users, Dies(c) \/ Hangs(c) \/ Resumes(c) PROVE Timely' /\ Passes
  BY <1>5, FaultsPass
<1>6. CASE CoordinatorStarts \/ CoordinatorEnds \/ UNCHANGED vars
  BY <1>6, IdlePasses
<1>7. CASE ServerBeats \/ ForceRelease \/ Tick
  BY <1>7, ServerBeatsPasses, ForceReleasePasses, TickPasses
<1>8. Next => \/ \E c \in Tuis : TuiNext(c)
              \/ \E w \in Webs : WebNext(w)
              \/ \E c \in Users : Asks(c) \/ \E accept \in BOOLEAN : Responds(c, accept)
              \/ \E c \in Users : Dies(c) \/ Hangs(c) \/ Resumes(c)
              \/ \E k \in Clis : CliClaims(k) \/ CliAsks(k)
              \/ CoordinatorStarts \/ CoordinatorEnds
              \/ ServerBeats \/ ForceRelease \/ Tick
  BY Zenon DEF Next
<1> QED
  BY Zenon, <1>1, <1>2, <1>3, <1>4, <1>5, <1>6, <1>7, <1>8

LEMMA InitPasses ==
  ASSUME Init
  PROVE  Timely /\ KeptBy!Init
<1>0. Inv
  BY InitIsSound
<1>1. /\ lease.owner = None /\ lease.viewers = {} /\ lease.request = NoRequest
      /\ status = [c \in Clients |-> "off"] /\ guard = [c \in Users |-> NoGuards]
  BY DEF Init
<1>2. Clean(lease) /\ Sound(lease)
  BY <1>0, <1>1, Parts, NoRequestIsSound DEF Clean, Overdue
<1>3. Loaded = lease
  BY <1>2, LoadedIsRead, CleanIsRead
<1>4. Named(lease) = {None} /\ NoRequest.by = None
  BY <1>1, NoRequestIsSound DEF Named
<1>5. NoGuards.attached = FALSE /\ NoGuards.owner = FALSE
  BY DEF NoGuards
<1>6. ASSUME NEW c \in Clients PROVE Abides(c)
  BY <1>1, <1>4, <1>5, UsersAreClients, ClientsAssumption DEF Abides, Running
<1> QED
  BY <1>1, <1>3, <1>4, <1>6 DEF Timely, KeptBy!Init

\* The lease stays with its owner: while it runs, nobody takes the lease from it but the
\* requester whose request it accepted or left unanswered, or an operator, as long as a
\* request is answered before a heartbeat is stale and no client puts its own off too often.
\* In particular no order of reads, evictions and heartbeats promotes a viewer over a live owner.
THEOREM LeaseIsKept == ASSUME Prompt PROVE Spec => KeepsLease
<1>1. Init => Inv /\ Timely
  BY InitIsSound, InitPasses
<1>2. Inv /\ Timely /\ [Next]_vars => (Inv /\ Timely)'
  BY StepKeeps, StepPasses
<1>3. Init => KeptBy!Init
  BY InitPasses
<1>4. Inv /\ Timely /\ [Next]_vars =>
        [\/ KeptBy!Take \/ KeptBy!Expire \/ KeptBy!Resign
         \/ KeptBy!HandOver \/ KeptBy!Overrule \/ KeptBy!Seize]_(Loaded.owner)
  <2> SUFFICES ASSUME Inv, Timely, [Next]_vars
               PROVE  [\/ KeptBy!Take \/ KeptBy!Expire \/ KeptBy!Resign
                       \/ KeptBy!HandOver \/ KeptBy!Overrule \/ KeptBy!Seize]_(Loaded.owner)
    OBVIOUS
  <2>1. Passes
    BY StepKeeps, StepPasses
  <2> QED
    BY <2>1 DEF Passes
<1> QED
  BY <1>1, <1>2, <1>3, <1>4, PTL DEF Spec, KeepsLease, KeptBy!Spec

-----------------------------------------------------------------------------
(* A transfer takes effect.                                                *)

\* An owner with a heartbeat that counts is the owner every reader sees.
LEMMA OwnerIsRead ==
  ASSUME NEW l, Sound(l), NEW order,
         ResolveOverdue(l).owner = None \/ ResolveOverdue(l).beat <= TTL
  PROVE  /\ Read(l, order).owner = ResolveOverdue(l).owner
         /\ Read(l, order).request = ResolveOverdue(l).request
<1> DEFINE a == ResolveOverdue(l)
           b == DropStaleViewers(a)
<1>1. b.owner = a.owner /\ b.beat = a.beat /\ b.request = a.request
  BY ResolveOverdueKeeps, DropFields
<1>2. Read(l, order) = b
  BY <1>1 DEF Read, Promoted
<1> QED
  BY <1>1, <1>2

\* What is pending when a record is read is what is stored, unless it is overdue.
LEMMA RequestIsRead ==
  ASSUME Inv, Loaded.request.by # None
  PROVE  Loaded.request = lease.request /\ ~Overdue(lease)
<1>1. /\ Sound(lease) /\ \A V \in SUBSET lease.viewers : Ordering(V, earlier)
  BY Parts, ViewersAreOrdered
<1>2. PICK a : a = ResolveOverdue(lease)
  OBVIOUS
<1>3. Sound(a) /\ a.viewers \subseteq lease.viewers
  BY <1>1, <1>2, ResolveOverdueKeeps
<1>4. PICK b : b = DropStaleViewers(a)
  OBVIOUS
<1>5. Sound(b) /\ b.request = a.request /\ b.viewers \subseteq a.viewers
  BY <1>3, <1>4, DropFields, DropStaleViewersKeeps
<1>6. Ordering(b.viewers, earlier)
  BY <1>1, <1>3, <1>5
<1>7. Loaded.request = a.request
  BY <1>2, <1>4, <1>5, <1>6, LoadedIsRead, PromotedFields DEF Read
<1>8. ~Overdue(lease)
  BY <1>1, <1>2, <1>7, ResolveFields, NoRequestIsSound
<1> QED
  BY <1>1, <1>2, <1>7, <1>8, ResolveFields

LEMMA AcceptedTakesEffect ==
  ASSUME Inv, Inv', Timeout \in 1..(TTL - 1), NEW c \in Users, Responds(c, TRUE),
         Loaded.request.by # None
  PROVE  Loaded'.owner = Loaded.request.by
<1>1. lease' = RespondTakeover(Loaded, TRUE)
  BY DEF Responds
<1>2. PICK l, m : l = Loaded /\ m = lease'
  OBVIOUS
<1>3. Sound(l) /\ Sound(m) /\ ~Overdue(l) /\ l.request.by # None
  BY <1>2, LoadedIsClean, LoadedSound, SoundNext DEF Clean
<1>4. /\ l.request.id # 0 /\ l.request.by \in Clients /\ l.request.age \in Ages
  BY <1>3 DEF Sound, OwnershipRecord, Requests
<1>5. l.request.age <= TTL
  BY <1>3, <1>4, AgesAre, TimesAssumption DEF Overdue
<1>6. PICK o : o = OwnedBy(l, l.request.by, l.request.age)
  OBVIOUS
<1>7. Sound(o) /\ o.owner = l.request.by /\ o.beat = l.request.age
  BY <1>3, <1>4, <1>6, OwnedByFields, OwnedByKeeps
<1>8. m = [o EXCEPT !.request = NoRequest]
  BY <1>1, <1>2, <1>6 DEF RespondTakeover
<1>9. m.owner = l.request.by /\ m.beat = l.request.age /\ m.request = NoRequest
  BY <1>7, <1>8 DEF Sound, OwnershipRecord
<1>10. ResolveOverdue(m) = m
  BY <1>9, NoRequestIsSound DEF ResolveOverdue, Overdue
<1>11. Read(m, earlier').owner = l.request.by
  BY <1>3, <1>5, <1>9, <1>10, OwnerIsRead
<1> QED
  BY <1>2, <1>11, LoadedIsRead

LEMMA GrantTakesEffect ==
  ASSUME Inv, Inv', Timeout \in 1..(TTL - 1), AutoAccept, Tick,
         Loaded.request.by # None, Loaded'.request.id = 0
  PROVE  Loaded'.owner = Loaded.request.by
<1>1. PICK l, m : l = lease /\ m = lease'
  OBVIOUS
<1>2. /\ Sound(l) /\ Sound(m) /\ ~Overdue(l) /\ l.request = Loaded.request
      /\ m.request.id = l.request.id /\ m.request.by = l.request.by
      /\ (l.request.id # 0 => m.request.age = Aged(l.request.age))
  BY <1>1, RequestIsRead, Parts, SoundNext, TickAges
<1>3. l.request.by # None /\ l.request.id # 0 /\ l.request.age \in Ages
  BY <1>2 DEF Sound, OwnershipRecord, Requests
<1>4. l.request.age \in Nat /\ l.request.age <= Timeout
  BY <1>2, <1>3, AgesAre, TimesAssumption DEF Overdue
<1>5. m.request.age = l.request.age + 1
  BY <1>2, <1>3, <1>4, AgedIs
<1>6. Overdue(m)
  <2> SUFFICES ASSUME ~Overdue(m) PROVE FALSE
    OBVIOUS
  <2>1. PICK a : a = ResolveOverdue(m)
    OBVIOUS
  <2>2. a = m
    BY <2>1 DEF ResolveOverdue
  <2>3. \A V \in SUBSET a.viewers : Ordering(V, earlier)
    BY <1>1, <2>2, TickAges, ViewersAreOrdered
  <2>4. PICK b : b = DropStaleViewers(a)
    OBVIOUS
  <2>5. Sound(b) /\ b.request = a.request /\ b.viewers \subseteq a.viewers
    BY <1>2, <2>2, <2>4, DropFields, DropStaleViewersKeeps
  <2>6. Promoted(b, earlier).request = b.request
    BY <2>3, <2>5, PromotedFields
  <2>7. Loaded' = Promoted(b, earlier)
    BY <1>1, <2>1, <2>4, LoadedIsRead DEF Read, Tick
  <2> QED
    BY <1>2, <1>3, <2>2, <2>5, <2>6, <2>7
<1>7. ResolveOverdue(m).owner = l.request.by /\ ResolveOverdue(m).beat = m.request.age
  BY <1>2, <1>6, ResolveFields
<1>8. ResolveOverdue(m).beat <= TTL
  BY <1>4, <1>5, <1>7, TimesAssumption
<1>9. Read(m, earlier').owner = l.request.by
  BY <1>2, <1>7, <1>8, OwnerIsRead
<1> QED
  BY <1>1, <1>2, <1>9, LoadedIsRead

\* A request that is accepted, or granted when it is overdue, makes its requester the owner:
\* the heartbeat stamped into the requester's identity when it asked is not stale yet if
\* requests are granted or dropped before they are as old as a heartbeat may be.
THEOREM TransfersTakeEffect ==
  ASSUME Timeout \in 1..(TTL - 1)
  PROVE  Spec => TransferTakesEffect
<1>1. Init => Inv
  BY InitIsSound
<1>2. Inv /\ [Next]_vars => Inv'
  BY StepKeeps
<1>3. Inv /\ [Next]_vars =>
        [\A d \in Running :
           (/\ Loaded.request.by = d /\ Loaded'.request.id = 0
            /\ (AutoAccept /\ Tick) \/ (\E c \in Users : Responds(c, TRUE)))
             => Loaded'.owner = d]_vars
  <2> SUFFICES ASSUME Inv, [Next]_vars, NEW d \in Running, Loaded.request.by = d,
                      Loaded'.request.id = 0,
                      (AutoAccept /\ Tick) \/ (\E c \in Users : Responds(c, TRUE))
               PROVE  Loaded'.owner = d
    OBVIOUS
  <2>1. d # None /\ Inv'
    BY StepKeeps, ClientsAssumption DEF Running
  <2>2. CASE AutoAccept /\ Tick
    BY <2>1, <2>2, GrantTakesEffect
  <2>3. CASE \E c \in Users : Responds(c, TRUE)
    BY <2>1, <2>3, AcceptedTakesEffect
  <2> QED
    BY <2>2, <2>3
<1> QED
  BY <1>1, <1>2, <1>3, PTL DEF Spec, TransferTakesEffect

=============================================================================
