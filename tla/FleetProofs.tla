---------------------------- MODULE FleetProofs ----------------------------
(***************************************************************************)
(* Proofs about the fleet and its executor, for every set of arms, regions *)
(* and holders, every schedule and every sequence of calls.                *)
(***************************************************************************)
EXTENDS FleetExecutor, FiniteSetTheorems, TLAPS

(* What every snapshot is, in the middle of a call too.                      *)
Sound(f) ==
  /\ f \in FleetSnapshot /\ IsFiniteSet(f.leases)
  /\ Exclusive(f) /\ Backed(f) /\ LeasedAreOnline(f)

-----------------------------------------------------------------------------
(* The operations of a snapshot.                                             *)

(* Clashes do not depend on who is asked about whom.                         *)
LEMMA ClashSymmetric ==
  /\ \A l, m \in Lease : LeasesClash(l, m) => LeasesClash(m, l)
  /\ \A s, t \in Space : SpacesClash(s, t) => SpacesClash(t, s)
BY DEF LeasesClash, SpacesClash, Overlap

LEMMA Fields ==
  ASSUME NEW f \in FleetSnapshot
  PROVE  /\ f.online \in SUBSET Manipulators /\ f.leases \in SUBSET Lease /\ f.spaces \in SUBSET Space
         /\ f = [online |-> f.online, leases |-> f.leases, spaces |-> f.spaces]
BY DEF FleetSnapshot

(* Reserving what is reservable keeps a snapshot sound.                      *)
LEMMA ReserveSound ==
  ASSUME NEW f, Sound(f), NEW l \in Lease, NEW spaces \in SUBSET Space,
         Reservable(f, l, spaces),
         \A s, t \in spaces : s # t => ~SpacesClash(s, t)
  PROVE  /\ Sound(Reserve(f, l, spaces))
         /\ Reserve(f, l, spaces).online = f.online
         /\ Reserve(f, l, spaces).leases = f.leases \cup {l}
         /\ Reserve(f, l, spaces).spaces = f.spaces \cup spaces
<1> DEFINE g == Reserve(f, l, spaces)
<1>1. f \in FleetSnapshot
  BY DEF Sound
<1>2. g = [online |-> f.online, leases |-> f.leases \cup {l}, spaces |-> f.spaces \cup spaces]
  BY DEF Reserve
<1>3. g \in FleetSnapshot
  BY <1>1, <1>2, Fields DEF FleetSnapshot
<1>4. IsFiniteSet(g.leases)
  BY <1>2, FS_AddElement DEF Sound
<1>5. Exclusive(g)
  <2>1. ASSUME NEW a \in g.leases, NEW b \in g.leases, a # b
        PROVE  ~LeasesClash(a, b) /\ a.id # b.id
    <3>1. a \in f.leases \/ a = l
      BY <1>2
    <3>2. b \in f.leases \/ b = l
      BY <1>2
    <3>3. \A m \in f.leases : m \in Lease /\ ~LeasesClash(l, m) /\ m.id # l.id
      BY <1>1, Fields DEF Reservable, Free
    <3> QED
      BY <2>1, <3>1, <3>2, <3>3, ClashSymmetric DEF Sound, Exclusive
  <2>2. ASSUME NEW s \in g.spaces, NEW t \in g.spaces, s # t
        PROVE  ~SpacesClash(s, t)
    <3>1. s \in f.spaces \/ s \in spaces
      BY <1>2
    <3>2. t \in f.spaces \/ t \in spaces
      BY <1>2
    <3>3. \A x \in f.spaces, y \in spaces : x \in Space /\ y \in Space /\ ~SpacesClash(y, x)
      BY <1>1, Fields DEF Reservable, Fits
    <3> QED
      BY <2>2, <3>1, <3>2, <3>3, ClashSymmetric DEF Sound, Exclusive
  <2> QED
    BY <2>1, <2>2 DEF Exclusive
<1>6. Backed(g)
  <2> SUFFICES ASSUME NEW s \in g.spaces
               PROVE  \E m \in g.leases :
                        /\ m.id = s.lease /\ m.owner = s.owner
                        /\ m.from <= s.from /\ s.to <= m.to
                        /\ \A a \in m.arms : s.regions \subseteq Covers[a]
    BY DEF Backed
  <2>1. CASE s \in f.spaces
    BY <2>1, <1>2 DEF Sound, Backed
  <2>2. CASE s \in spaces
    BY <2>2, <1>2 DEF Reservable, Fits
  <2> QED
    BY <2>1, <2>2, <1>2
<1>7. LeasedAreOnline(g)
  BY <1>2 DEF Sound, LeasedAreOnline, Reservable, Free
<1> QED
  BY <1>2, <1>3, <1>4, <1>5, <1>6, <1>7 DEF Sound

(* Giving leases back keeps it sound.                                        *)
LEMMA WithoutSound ==
  ASSUME NEW f, Sound(f), NEW ids
  PROVE  /\ Sound(Without(f, ids))
         /\ Without(f, ids).online = f.online
         /\ Without(f, ids).leases = {l \in f.leases : l.id \notin ids}
         /\ Without(f, ids).spaces = {s \in f.spaces : s.lease \notin ids}
<1> DEFINE g == Without(f, ids)
<1>1. f \in FleetSnapshot
  BY DEF Sound
<1>2. g = [online |-> f.online, leases |-> {l \in f.leases : l.id \notin ids},
           spaces |-> {s \in f.spaces : s.lease \notin ids}]
  BY DEF Without
<1>3. g \in FleetSnapshot
  BY <1>1, <1>2, Fields DEF FleetSnapshot
<1>4. IsFiniteSet(g.leases)
  <2>1. g.leases \in SUBSET f.leases
    BY <1>2
  <2> QED
    BY <2>1, FS_Subset DEF Sound
<1>5. Exclusive(g)
  BY <1>2 DEF Sound, Exclusive
<1>6. Backed(g)
  BY <1>2 DEF Sound, Backed
<1>7. LeasedAreOnline(g)
  BY <1>2 DEF Sound, LeasedAreOnline
<1> QED
  BY <1>2, <1>3, <1>4, <1>5, <1>6, <1>7 DEF Sound

(* Arms may change their health once no lease is on those that go down.      *)
LEMMA OnlineSound ==
  ASSUME NEW f, Sound(f), NEW on \in SUBSET Manipulators, \A l \in f.leases : l.arms \subseteq on
  PROVE  Sound([f EXCEPT !.online = on])
<1> DEFINE g == [f EXCEPT !.online = on]
<1>1. f \in FleetSnapshot
  BY DEF Sound
<1>2. g = [online |-> on, leases |-> f.leases, spaces |-> f.spaces]
  BY <1>1, Fields
<1>3. g \in FleetSnapshot
  BY <1>1, <1>2, Fields DEF FleetSnapshot
<1>4. Exclusive(g) /\ Backed(g) /\ LeasedAreOnline(g) /\ IsFiniteSet(g.leases)
  BY <1>2 DEF Sound, Exclusive, Backed, LeasedAreOnline
<1> QED
  BY <1>3, <1>4 DEF Sound

LEMMA SetOnlineSound ==
  ASSUME NEW f, Sound(f), NEW a \in Manipulators, NEW on \in BOOLEAN, MaySet(f, a, on)
  PROVE  Sound(SetOnline(f, a, on))
<1> DEFINE new == IF on THEN f.online \cup {a} ELSE f.online \ {a}
<1>1. f \in FleetSnapshot
  BY DEF Sound
<1>2. new \in SUBSET Manipulators
  BY <1>1, Fields
<1>3. \A l \in f.leases : l.arms \subseteq f.online
  BY DEF Sound, LeasedAreOnline
<1>4. \A l \in f.leases : l.arms \subseteq new
  BY <1>3 DEF MaySet, Touching
<1>5. SetOnline(f, a, on) = [f EXCEPT !.online = new]
  BY DEF SetOnline
<1> QED
  BY <1>2, <1>4, <1>5, OnlineSound

(* Invalidating what touches an arm takes exactly the leases that touch it.  *)
LEMMA InvalidateExact ==
  ASSUME NEW f, Sound(f), NEW arms
  PROVE  /\ Sound(Invalidate(f, arms))
         /\ Invalidate(f, arms).online = f.online
         /\ Invalidate(f, arms).leases = {l \in f.leases : l.arms \cap arms = {}}
<1> DEFINE ids == {l.id : l \in Touching(f, arms)}
<1>1. \A l \in f.leases : l.id \in ids <=> l.arms \cap arms # {}
  <2>1. \A l, m \in f.leases : l.id = m.id => l = m
    BY DEF Sound, Exclusive
  <2> QED
    BY <2>1 DEF Touching
<1>2. Invalidate(f, arms) = Without(f, ids)
  BY DEF Invalidate
<1>3. {l \in f.leases : l.id \notin ids} = {l \in f.leases : l.arms \cap arms = {}}
  BY <1>1
<1> QED
  BY <1>2, <1>3, WithoutSound

(* After a fault: what touched the failed arms is gone, and so are they.     *)
LEMMA DegradedSound ==
  ASSUME NEW f, Sound(f), NEW arms \in SUBSET Manipulators
  PROVE  /\ Sound(Degraded(f, arms))
         /\ Degraded(f, arms).online = f.online \ arms
         /\ Degraded(f, arms).leases = {l \in f.leases : l.arms \cap arms = {}}
<1> DEFINE g == Invalidate(f, arms)
<1>1. /\ Sound(g) /\ g.online = f.online
      /\ g.leases = {l \in f.leases : l.arms \cap arms = {}}
  BY InvalidateExact
<1>2. f \in FleetSnapshot /\ g \in FleetSnapshot
  BY <1>1 DEF Sound
<1>3. f.online \ arms \in SUBSET Manipulators
  BY <1>2, Fields
<1>4. \A l \in g.leases : l.arms \subseteq f.online \ arms
  BY <1>1 DEF Sound, LeasedAreOnline
<1>5. Degraded(f, arms) = [g EXCEPT !.online = f.online \ arms]
  BY <1>1 DEF Degraded, TakeOffline
<1>6. /\ [g EXCEPT !.online = f.online \ arms].online = f.online \ arms
      /\ [g EXCEPT !.online = f.online \ arms].leases = g.leases
  BY <1>2 DEF FleetSnapshot
<1> QED
  BY <1>1, <1>3, <1>4, <1>5, <1>6, OnlineSound

-----------------------------------------------------------------------------
(* A lease's replacement and its spaces.                                     *)

LEMMA ReplacementTyped ==
  ASSUME NEW l \in Lease, NEW arms \in SUBSET Manipulators, NEW id \in FaultIds
  PROVE  /\ Replacement(l, arms, id) \in Lease
         /\ Replacement(l, arms, id).id = Append(l.id, id)
         /\ Replacement(l, arms, id).owner = l.owner
         /\ Replacement(l, arms, id).arms = arms
<1>1. l.id \in LeaseIds /\ l.owner \in Owners /\ l.from \in Nat /\ l.to \in Nat
  BY DEF Lease
<1>2. Append(l.id, id) \in LeaseIds
  BY <1>1 DEF LeaseIds
<1> QED
  BY <1>1, <1>2 DEF Replacement, Lease

(* Spaces move with their lease, and clash with each other only as before.   *)
LEMMA MovedTyped ==
  ASSUME NEW l \in Lease, NEW id \in FaultIds, NEW spaces \in SUBSET Space,
         \A s, t \in spaces : s # t => ~SpacesClash(s, t)
  PROVE  /\ Moved(spaces, l, id) \in SUBSET Space
         /\ \A s, t \in Moved(spaces, l, id) : s # t => ~SpacesClash(s, t)
<1> DEFINE name == Append(l.id, id)
           Move(s) == [s EXCEPT !.lease = name]
<1>1. name \in LeaseIds
  <2>1. l.id \in LeaseIds
    BY DEF Lease
  <2> QED
    BY <2>1 DEF LeaseIds
<1>2. \A s \in spaces : Move(s) \in Space
  BY <1>1 DEF Space
<1>3. \A s \in spaces : /\ Move(s).regions = s.regions
                        /\ Move(s).from = s.from /\ Move(s).to = s.to
  BY DEF Space
<1>4. ASSUME NEW s \in Moved(spaces, l, id), NEW t \in Moved(spaces, l, id), s # t
      PROVE  ~SpacesClash(s, t)
  <2>1. PICK x \in spaces : s = Move(x)
    BY DEF Moved
  <2>2. PICK y \in spaces : t = Move(y)
    BY DEF Moved
  <2>3. ~SpacesClash(x, y)
    BY <1>4, <2>1, <2>2
  <2>4. /\ s.regions = x.regions /\ s.from = x.from /\ s.to = x.to
        /\ t.regions = y.regions /\ t.from = y.from /\ t.to = y.to
    BY <1>3, <2>1, <2>2
  <2> QED
    BY <2>3, <2>4 DEF SpacesClash, Overlap
<1> QED
  BY <1>2, <1>4 DEF Moved

-----------------------------------------------------------------------------
(* The inductive invariant.                                                  *)

(* Every snapshot in play is sound.                                          *)
SoundInv ==
  /\ Sound(fleet) /\ Sound(working)
  /\ pc = "reallocate" => Sound(fault.prior)

(* Leases of schedules are those the executor knows it holds, or owes.       *)
HeldInv ==
  /\ pc = "idle" => working = fleet
  /\ pc \in {"idle", "wave"} => taken = {}
  /\ \A l \in fleet.leases : l.owner \in Clients
  /\ \A l \in working.leases : l.owner \in Clients \/ l.id \in taken
  /\ pc = "reallocate" =>
       \A i \in DOMAIN todo : todo[i].owner \in Clients \/ todo[i].id \in taken

(* A call keeps its hands off leases it found, unless their arms went down.  *)
KeptInv ==
  \A l \in fleet.leases :
    \/ l \in working.leases /\ l.id \notin taken
    \/ ~(l.arms \subseteq working.online)

IInv == TypeOK /\ SoundInv /\ HeldInv /\ KeptInv

(* However a call returns, a sound snapshot without leases of schedules      *)
(* establishes the invariant.                                                *)
LEMMA ReturnEstablishes ==
  ASSUME NEW f, Sound(f), \A l \in f.leases : l.owner \in Clients,
         Return(f), calls' \in Nat
  PROVE  IInv'
<1>1. /\ fleet' = f /\ working' = f /\ pc' = "idle"
      /\ remaining' = <<>> /\ todo' = <<>> /\ taken' = {} /\ clock' = 0 /\ fault' = Nil
  BY DEF Return
<1>2. f \in FleetSnapshot
  BY DEF Sound
<1>3. TypeOK'
  BY <1>1, <1>2 DEF TypeOK
<1>4. SoundInv' /\ HeldInv' /\ KeptInv'
  BY <1>1 DEF SoundInv, HeldInv, KeptInv
<1> QED
  BY <1>3, <1>4 DEF IInv

LEMMA InitInv == Init => IInv
<1> SUFFICES ASSUME Init PROVE IInv
  OBVIOUS
<1>1. /\ fleet = [online |-> Manipulators, leases |-> {}, spaces |-> {}] /\ working = fleet
      /\ pc = "idle" /\ remaining = <<>> /\ todo = <<>> /\ taken = {} /\ clock = 0
      /\ fault = Nil /\ calls = 0
  BY DEF Init
<1>2. Sound(fleet)
  BY <1>1, FS_EmptySet DEF Sound, FleetSnapshot, Exclusive, Backed, LeasedAreOnline
<1>3. TypeOK
  BY <1>1, <1>2 DEF TypeOK, Sound
<1> QED
  BY <1>1, <1>2, <1>3 DEF IInv, SoundInv, HeldInv, KeptInv

(* What fits in a call's hands when it begins to reallocate.                 *)
LEMMA BeginEstablishes ==
  ASSUME IInv, NEW id \in FaultIds, NEW arms \in SUBSET Manipulators, NEW asked,
         \A i \in DOMAIN asked : asked[i] \in Request \cup {Nil},
         BeginReallocation(working, id, arms, asked),
         UNCHANGED <<fleet, remaining, taken, clock>>, calls' \in Nat
  PROVE  IInv'
<1> DEFINE hit == Touching(working, arms)
<1>1. /\ Sound(working') /\ working'.online = working.online \ arms
      /\ working'.leases = {l \in working.leases : l.arms \cap arms = {}}
  BY DegradedSound DEF IInv, SoundInv, BeginReallocation
<1>2. /\ todo' \in Sequences(hit) /\ fault' = [id |-> id, asked |-> asked, prior |-> working]
      /\ pc' = "reallocate"
  BY DEF BeginReallocation
<1>3. IsFiniteSet(hit) /\ hit \subseteq working.leases
  <2>1. hit \in SUBSET working.leases
    BY DEF Touching
  <2> QED
    BY <2>1, FS_Subset DEF IInv, SoundInv, Sound
<1>4. Cardinality(hit) \in Nat
  BY <1>3, FS_CardinalityType
<1>5. todo' \in Seq(hit)
  <2> HIDE DEF hit
  <2> QED
    BY <1>2, <1>4 DEF Sequences
<1>6. \A i \in DOMAIN todo' : todo'[i] \in working.leases
  BY <1>3, <1>5
<1>7. working.leases \subseteq Lease
  BY DEF IInv, TypeOK, FleetSnapshot
<1>8. todo' \in Seq(Lease)
  <2> HIDE DEF hit
  <2> QED
    BY <1>3, <1>5, <1>7
<1>9. TypeOK'
  BY <1>1, <1>2, <1>8 DEF IInv, TypeOK, Sound
<1>10. SoundInv'
  BY <1>1, <1>2 DEF IInv, SoundInv
<1>11. HeldInv'
  BY <1>1, <1>2, <1>6 DEF IInv, HeldInv
<1>12. KeptInv'
  BY <1>1 DEF IInv, KeptInv
<1> QED
  BY <1>9, <1>10, <1>11, <1>12 DEF IInv

-----------------------------------------------------------------------------
(* One lemma per kind of step.                                               *)

(* The holder's calls start from the snapshot in hand.                       *)
LEMMA IdleFleet == IInv /\ Idle => /\ Sound(fleet) /\ working = fleet
                                   /\ \A l \in fleet.leases : l.owner \in Clients
BY DEF IInv, SoundInv, HeldInv, Idle

LEMMA CallCounts == IInv /\ Call => calls' \in Nat
BY DEF IInv, TypeOK, Call

LEMMA ClientReserveStep == IInv /\ ClientReserve => IInv'
<1> SUFFICES ASSUME IInv, ClientReserve PROVE IInv'
  OBVIOUS
<1>1. calls' \in Nat /\ Idle
  BY CallCounts DEF ClientReserve, Call
<1>2. PICK l \in ClientLeases, r \in Regions \cup {Nil} :
        LET spaces == IF r = Nil THEN {}
                      ELSE {[lease |-> l.id, owner |-> l.owner, regions |-> {r},
                             from |-> l.from, to |-> l.to]}
        IN  Reservable(fleet, l, spaces) /\ Return(Reserve(fleet, l, spaces))
  BY DEF ClientReserve
<1> DEFINE spaces == IF r = Nil THEN {}
                     ELSE {[lease |-> l.id, owner |-> l.owner, regions |-> {r},
                            from |-> l.from, to |-> l.to]}
           f == Reserve(fleet, l, spaces)
<1>3. l \in Lease /\ l.owner \in Clients
  BY ExecutorAssumption
<1>4. spaces \in SUBSET Space
  BY <1>3 DEF Lease, Space
<1>5. \A s, t \in spaces : s = t
  OBVIOUS
<1>6. Reservable(fleet, l, spaces) /\ Return(f)
  BY <1>2
<1> HIDE DEF spaces
<1>7. Sound(f) /\ f.leases = fleet.leases \cup {l}
  BY <1>1, <1>3, <1>4, <1>5, <1>6, IdleFleet, ReserveSound
<1> QED
  BY <1>1, <1>3, <1>6, <1>7, IdleFleet, ReturnEstablishes

LEMMA ClientReleaseStep == IInv /\ ClientRelease => IInv'
<1> SUFFICES ASSUME IInv, ClientRelease PROVE IInv'
  OBVIOUS
<1>1. calls' \in Nat /\ Idle
  BY CallCounts DEF ClientRelease, Call
<1>2. PICK l \in fleet.leases : Return(Without(fleet, {l.id}))
  BY DEF ClientRelease
<1>3. /\ Sound(Without(fleet, {l.id}))
      /\ Without(fleet, {l.id}).leases \subseteq fleet.leases
  BY <1>1, IdleFleet, WithoutSound
<1> QED
  BY <1>1, <1>2, <1>3, IdleFleet, ReturnEstablishes

LEMMA ClientSetOnlineStep == IInv /\ ClientSetOnline => IInv'
<1> SUFFICES ASSUME IInv, ClientSetOnline PROVE IInv'
  OBVIOUS
<1>1. calls' \in Nat /\ Idle
  BY CallCounts DEF ClientSetOnline, Call
<1>2. PICK a \in Manipulators, on \in BOOLEAN : MaySet(fleet, a, on) /\ Return(SetOnline(fleet, a, on))
  BY DEF ClientSetOnline
<1>3. Sound(SetOnline(fleet, a, on))
  BY <1>1, <1>2, IdleFleet, SetOnlineSound
<1>4. SetOnline(fleet, a, on).leases = fleet.leases
  BY DEF IInv, TypeOK, FleetSnapshot, SetOnline
<1> QED
  BY <1>1, <1>2, <1>3, <1>4, IdleFleet, ReturnEstablishes

LEMMA ClientInvalidateStep == IInv /\ ClientInvalidate => IInv'
<1> SUFFICES ASSUME IInv, ClientInvalidate PROVE IInv'
  OBVIOUS
<1>1. calls' \in Nat /\ Idle
  BY CallCounts DEF ClientInvalidate, Call
<1>2. PICK a \in Manipulators : Return(Invalidate(fleet, {a}))
  BY DEF ClientInvalidate
<1>3. /\ Sound(Invalidate(fleet, {a}))
      /\ Invalidate(fleet, {a}).leases \subseteq fleet.leases
  BY <1>1, IdleFleet, InvalidateExact
<1> QED
  BY <1>1, <1>2, <1>3, IdleFleet, ReturnEstablishes

LEMMA ReportFaultStep == IInv /\ ReportFault => IInv'
<1> SUFFICES ASSUME IInv, ReportFault PROVE IInv'
  OBVIOUS
<1>1. calls' \in Nat /\ Idle /\ UNCHANGED <<fleet, remaining, taken, clock>>
  BY CallCounts DEF ReportFault, Call
<1>2. working = fleet
  BY <1>1, IdleFleet
<1>3. PICK id \in FaultIds, arms \in Failures :
      \E asked \in [{l.id : l \in Touching(fleet, arms)} -> Requests \cup {Nil}] :
        BeginReallocation(fleet, id, arms, asked)
  BY DEF ReportFault
<1>4. PICK asked \in [{l.id : l \in Touching(fleet, arms)} -> Requests \cup {Nil}] :
        BeginReallocation(fleet, id, arms, asked)
  BY <1>3
<1>5. \A i \in DOMAIN asked : asked[i] \in Request \cup {Nil}
  BY <1>4, ExecutorAssumption
<1>6. arms \in SUBSET Manipulators
  BY ExecutorAssumption
<1>7. BeginReallocation(working, id, arms, asked)
  BY <1>2, <1>4
<1> QED
  BY <1>1, <1>5, <1>6, <1>7, BeginEstablishes

LEMMA BackendFaultStep == IInv /\ BackendFault => IInv'
<1> SUFFICES ASSUME IInv, BackendFault PROVE IInv'
  OBVIOUS
<1>1. /\ pc = "reserve" /\ calls' \in Nat
      /\ UNCHANGED <<fleet, remaining, taken, clock>>
  BY DEF BackendFault, Executing, IInv, TypeOK
<1>2. PICK id \in FaultIds, arms \in Failures :
        LET hit == {i \in DOMAIN Head(remaining) : Head(remaining)[i].arms \cap arms # {}}
            asked == [x \in {<<Head(remaining)[i].step>> : i \in hit} |->
              LET c == CHOOSE c \in {Head(remaining)[i] : i \in hit} : x = <<c.step>>
              IN  [capability |-> c.op, region |-> c.region]]
        IN  BeginReallocation(working, id, arms, asked)
  BY DEF BackendFault
<1> DEFINE hit == {i \in DOMAIN Head(remaining) : Head(remaining)[i].arms \cap arms # {}}
           asked == [x \in {<<Head(remaining)[i].step>> : i \in hit} |->
             LET c == CHOOSE c \in {Head(remaining)[i] : i \in hit} : x = <<c.step>>
             IN  [capability |-> c.op, region |-> c.region]]
<1>3. \A i \in hit : Head(remaining)[i] \in Command
  <2>1. remaining \in Seq(Seq(Command)) /\ remaining # <<>>
    BY <1>1 DEF IInv, TypeOK
  <2>2. Head(remaining) \in Seq(Command)
    BY <2>1
  <2> QED
    BY <2>2
<1>4. \A x \in DOMAIN asked : asked[x] \in Request
  <2> TAKE x \in DOMAIN asked
  <2> DEFINE Chosen == CHOOSE c \in {Head(remaining)[i] : i \in hit} : x = <<c.step>>
  <2>1. \E c \in {Head(remaining)[i] : i \in hit} : x = <<c.step>>
    OBVIOUS
  <2>2. Chosen \in {Head(remaining)[i] : i \in hit}
    BY <2>1
  <2>3. Chosen \in Command
    BY <1>3, <2>2
  <2>4. asked[x] = [capability |-> Chosen.op, region |-> Chosen.region]
    OBVIOUS
  <2> HIDE DEF Chosen
  <2>5. Chosen.op \in Capabilities /\ Chosen.region \in Regions \cup {Nil}
    BY <2>3 DEF Command
  <2> HIDE DEF asked
  <2> QED
    BY <2>4, <2>5 DEF Request
<1>5. BeginReallocation(working, id, arms, asked)
  BY <1>2
<1>6. arms \in SUBSET Manipulators
  BY ExecutorAssumption
<1> HIDE DEF asked
<1> QED
  BY <1>1, <1>4, <1>5, <1>6, BeginEstablishes

(* A call gives back what it holds: nothing of a schedule is left.           *)
LEMMA GiveBackStep ==
  ASSUME IInv, Return(Without(working, taken)), UNCHANGED calls
  PROVE  IInv'
<1>1. /\ Sound(Without(working, taken))
      /\ Without(working, taken).leases = {l \in working.leases : l.id \notin taken}
  BY WithoutSound DEF IInv, SoundInv
<1>2. \A l \in Without(working, taken).leases : l.owner \in Clients
  BY <1>1 DEF IInv, HeldInv
<1>3. calls' \in Nat
  BY DEF IInv, TypeOK
<1> QED
  BY <1>1, <1>2, <1>3, ReturnEstablishes

(* A lease is replaced within the snapshot in hand; owner, and whose lease   *)
(* it is to give back, go with it.                                           *)
LEMMA ReplaceStep == IInv /\ Replace => IInv'
<1> SUFFICES ASSUME IInv, Replace PROVE IInv'
  OBVIOUS
<1> DEFINE l == Head(todo)
           spaces == SpacesOf(l)
<1>1. /\ pc = "reallocate" /\ todo # <<>> /\ todo' = Tail(todo)
      /\ UNCHANGED <<fleet, pc, remaining, clock, fault, calls>>
      /\ taken' = IF l.id \in taken THEN taken \cup {Append(l.id, fault.id)} ELSE taken
  BY DEF Replace
<1>2. PICK arms \in StandIns(l) :
        /\ CanReplace(l, arms)
        /\ working' = Reserve(working, Replacement(l, arms, fault.id),
                              Moved(spaces, l, fault.id))
  BY DEF Replace
<1> DEFINE new == Replacement(l, arms, fault.id)
           moved == Moved(spaces, l, fault.id)
<1>3. /\ fault.id \in FaultIds /\ Sound(fault.prior) /\ fault.prior \in FleetSnapshot
      /\ todo \in Seq(Lease) /\ taken \subseteq LeaseIds
      /\ Sound(working) /\ working \in FleetSnapshot
  BY <1>1 DEF IInv, TypeOK, SoundInv
<1>4. l \in Lease /\ Tail(todo) \in Seq(Lease)
  BY <1>1, <1>3
<1>5. arms \in SUBSET Manipulators
  <2>1. arms \in SUBSET working.online
    BY <1>2 DEF StandIns, Best, Candidates
  <2> QED
    BY <2>1, <1>3, Fields
<1>6. spaces \in SUBSET Space /\ \A s, t \in spaces : s # t => ~SpacesClash(s, t)
  BY <1>3, Fields DEF SpacesOf, Sound, Exclusive
<1> HIDE DEF spaces, l
<1>7. new \in Lease /\ new.id = Append(l.id, fault.id) /\ new.owner = l.owner
  BY <1>3, <1>4, <1>5, ReplacementTyped
<1>8. moved \in SUBSET Space /\ \A s, t \in moved : s # t => ~SpacesClash(s, t)
  BY <1>3, <1>4, <1>6, MovedTyped
<1>9. Reservable(working, new, moved)
  BY <1>2 DEF CanReplace, l, spaces
<1> HIDE DEF new, moved
<1>10. working' = Reserve(working, new, moved)
  BY <1>2 DEF new, moved
<1>11. /\ Sound(working') /\ working'.online = working.online
       /\ working'.leases = working.leases \cup {new}
  BY <1>3, <1>7, <1>8, <1>9, <1>10, ReserveSound
<1>12. taken' \subseteq LeaseIds
  <2>1. new.id \in LeaseIds
    BY <1>7 DEF Lease
  <2> QED
    BY <2>1, <1>1, <1>3, <1>7
<1>13. TypeOK'
  BY <1>1, <1>4, <1>11, <1>12 DEF IInv, TypeOK, Sound
<1>14. SoundInv'
  BY <1>1, <1>11 DEF IInv, SoundInv
<1>15. HeldInv'
  <2>1. l.owner \in Clients \/ l.id \in taken
    BY <1>1, <1>3 DEF IInv, HeldInv, l
  <2>2. taken \subseteq taken' /\ (new.owner \in Clients \/ new.id \in taken')
    BY <2>1, <1>1, <1>7
  <2>3. \A m \in working'.leases : m.owner \in Clients \/ m.id \in taken'
    BY <2>2, <1>11 DEF IInv, HeldInv
  <2>4. \A i \in DOMAIN todo' : todo'[i].owner \in Clients \/ todo'[i].id \in taken'
    <3>1. \A i \in DOMAIN todo' : i + 1 \in DOMAIN todo /\ todo'[i] = todo[i + 1]
      BY <1>1, <1>3
    <3> QED
      BY <3>1, <2>2, <1>1 DEF IInv, HeldInv
  <2> QED
    BY <1>1, <2>3, <2>4 DEF IInv, HeldInv
<1>16. KeptInv'
  <2>1. \A m \in working.leases : m.id # new.id
    BY <1>9 DEF Reservable, Free
  <2>2. taken' \subseteq taken \cup {new.id}
    BY <1>1, <1>7
  <2> QED
    BY <1>1, <1>11, <2>1, <2>2 DEF IInv, KeptInv
<1> QED
  BY <1>13, <1>14, <1>15, <1>16 DEF IInv

LEMMA LeaveUnresolvedStep == IInv /\ LeaveUnresolved => IInv'
<1> SUFFICES ASSUME IInv, LeaveUnresolved PROVE IInv'
  OBVIOUS
<1>1. /\ pc = "reallocate" /\ todo # <<>> /\ todo' = Tail(todo)
      /\ UNCHANGED <<fleet, working, pc, remaining, taken, clock, fault, calls>>
  BY DEF LeaveUnresolved
<1>2. todo \in Seq(Lease)
  BY <1>1 DEF IInv, TypeOK
<1>3. todo' \in Seq(Lease)
  BY <1>1, <1>2
<1>4. \A i \in DOMAIN todo' : i + 1 \in DOMAIN todo /\ todo'[i] = todo[i + 1]
  BY <1>1, <1>2
<1>5. TypeOK'
  BY <1>1, <1>3 DEF IInv, TypeOK
<1>6. HeldInv'
  BY <1>1, <1>4 DEF IInv, HeldInv
<1> QED
  BY <1>1, <1>5, <1>6 DEF IInv, SoundInv, KeptInv

(* Walking through the schedule touches no snapshot.                         *)
LEMMA WalkStep == IInv /\ (StartExecute \/ SkipWave \/ EnterWave) => IInv'
<1> SUFFICES ASSUME IInv, StartExecute \/ SkipWave \/ EnterWave PROVE IInv'
  OBVIOUS
<1>1. UNCHANGED <<fleet, working, taken, fault>>
  BY DEF StartExecute, SkipWave, EnterWave
<1>2. pc # "reallocate" /\ pc' \in {"wave", "reserve"} /\ (pc = "idle" \/ pc = "wave")
  BY DEF StartExecute, SkipWave, EnterWave, Call, Idle
<1>3. TypeOK'
  <2>1. CASE StartExecute
    <3>1. remaining' \in Seq(Seq(Command)) /\ clock' \in Nat
      BY <2>1, ExecutorAssumption DEF StartExecute
    <3>2. calls' \in Nat /\ pc = "idle" /\ pc' = "wave" /\ todo' = todo
      BY <2>1, CallCounts DEF StartExecute, Call, Idle
    <3> QED
      BY <3>1, <3>2, <1>1 DEF IInv, TypeOK
  <2>2. CASE SkipWave
    <3>1. /\ pc = "wave" /\ remaining # <<>> /\ remaining' = Tail(remaining) /\ clock' = clock + 1
          /\ pc' = pc /\ todo' = todo /\ calls' = calls
      BY <2>2 DEF SkipWave
    <3>2. remaining \in Seq(Seq(Command)) /\ clock \in Nat
      BY DEF IInv, TypeOK
    <3>3. remaining' \in Seq(Seq(Command)) /\ clock' \in Nat
      BY <3>1, <3>2
    <3> QED
      BY <3>1, <3>3, <1>1 DEF IInv, TypeOK
  <2>3. CASE EnterWave
    <3>1. /\ remaining # <<>> /\ todo' = Head(remaining) /\ pc' = "reserve"
          /\ UNCHANGED <<remaining, clock, calls>> /\ pc = "wave"
      BY <2>3 DEF EnterWave
    <3>2. remaining \in Seq(Seq(Command))
      BY DEF IInv, TypeOK
    <3>3. todo' \in Seq(Command)
      BY <3>1, <3>2
    <3> QED
      BY <3>1, <3>3, <1>1 DEF IInv, TypeOK
  <2> QED
    BY <2>1, <2>2, <2>3
<1> QED
  BY <1>1, <1>2, <1>3 DEF IInv, SoundInv, HeldInv, KeptInv

(* A command's lease and space are the executor's to give back.              *)
LEMMA ReserveCommandStep == IInv /\ ReserveCommand => IInv'
<1> SUFFICES ASSUME IInv, ReserveCommand PROVE IInv'
  OBVIOUS
<1> DEFINE c == Head(todo)
<1>1. /\ pc = "reserve" /\ todo # <<>> /\ todo' = Tail(todo) /\ Secure(c)
      /\ working' = Reserve(working, LeaseOf(c), SpaceOf(c))
      /\ taken' = taken \cup {<<c.step>>}
      /\ UNCHANGED <<fleet, pc, remaining, clock, fault, calls>>
  BY DEF ReserveCommand
<1>2. /\ todo \in Seq(Command) /\ clock \in Nat /\ taken \subseteq LeaseIds
      /\ Sound(working)
  BY <1>1 DEF IInv, TypeOK, SoundInv
<1>3. c \in Command /\ Tail(todo) \in Seq(Command)
  BY <1>1, <1>2
<1> HIDE DEF c
<1>4. /\ c.step \in Names /\ c.step \in Owners /\ c.arms \in SUBSET Manipulators
      /\ c.region \in Regions \cup {Nil}
  BY <1>3, ExecutorAssumption DEF Command
<1>5. <<c.step>> \in LeaseIds
  BY <1>4 DEF LeaseIds
<1>6. LeaseOf(c) \in Lease /\ LeaseOf(c).id = <<c.step>>
  BY <1>2, <1>4, <1>5 DEF LeaseOf, Lease
<1>7. SpaceOf(c) \in SUBSET Space
  BY <1>2, <1>4, <1>5 DEF SpaceOf, Space, RegionsOf
<1>8. \A s, t \in SpaceOf(c) : s = t
  BY DEF SpaceOf, RegionsOf
<1>9. Reservable(working, LeaseOf(c), SpaceOf(c))
  BY <1>1 DEF Secure
<1>10. /\ Sound(working') /\ working'.online = working.online
       /\ working'.leases = working.leases \cup {LeaseOf(c)}
  BY <1>1, <1>2, <1>6, <1>7, <1>8, <1>9, ReserveSound
<1>11. TypeOK'
  BY <1>1, <1>2, <1>3, <1>5, <1>10 DEF IInv, TypeOK, Sound
<1>12. SoundInv'
  BY <1>1, <1>10 DEF IInv, SoundInv
<1>13. HeldInv'
  BY <1>1, <1>6, <1>10 DEF IInv, HeldInv
<1>14. KeptInv'
  <2>1. \A m \in working.leases : m.id # <<c.step>>
    BY <1>6, <1>9 DEF Reservable, Free
  <2> QED
    BY <1>1, <1>10, <2>1 DEF IInv, KeptInv
<1> QED
  BY <1>11, <1>12, <1>13, <1>14 DEF IInv

(* A wave that is done leaves the snapshot as it found it.                   *)
LEMMA WaveSucceedsStep == IInv /\ WaveSucceeds => IInv'
<1> SUFFICES ASSUME IInv, WaveSucceeds PROVE IInv'
  OBVIOUS
<1>1. /\ pc = "reserve" /\ todo = <<>> /\ pc' = "wave" /\ remaining' = Tail(remaining)
      /\ working' = Without(working, taken) /\ taken' = {} /\ clock' = clock + 1
      /\ UNCHANGED <<fleet, todo, fault, calls>>
  BY DEF WaveSucceeds, Executing
<1>2. remaining \in Seq(Seq(Command)) /\ remaining # <<>> /\ clock \in Nat
  BY <1>1 DEF IInv, TypeOK
<1>3. remaining' \in Seq(Seq(Command)) /\ clock' \in Nat
  BY <1>1, <1>2
<1>4. /\ Sound(working') /\ working'.online = working.online
      /\ working'.leases = {l \in working.leases : l.id \notin taken}
  BY <1>1, WithoutSound DEF IInv, SoundInv
<1>5. TypeOK'
  BY <1>1, <1>3, <1>4 DEF IInv, TypeOK, Sound
<1>6. SoundInv'
  BY <1>1, <1>4 DEF IInv, SoundInv
<1>7. HeldInv'
  BY <1>1, <1>4 DEF IInv, HeldInv
<1>8. KeptInv'
  BY <1>1, <1>4 DEF IInv, KeptInv
<1> QED
  BY <1>5, <1>6, <1>7, <1>8 DEF IInv

(* A call that ends.                                                         *)
LEMMA EndStep ==
  IInv /\ (EndReallocation \/ FinishExecute \/ Raise \/ WaveFails) => IInv'
<1> SUFFICES ASSUME IInv, EndReallocation \/ FinishExecute \/ Raise \/ WaveFails PROVE IInv'
  OBVIOUS
<1>1. calls' \in Nat /\ UNCHANGED calls
  BY DEF EndReallocation, FinishExecute, Raise, WaveFails, IInv, TypeOK
<1>2. CASE EndReallocation \/ WaveFails
  BY <1>1, <1>2, GiveBackStep DEF EndReallocation, WaveFails, Unwind
<1>3. CASE FinishExecute
  <2>1. Return(working) /\ taken = {}
    BY <1>3 DEF FinishExecute, IInv, HeldInv
  <2> QED
    BY <1>1, <2>1, ReturnEstablishes DEF IInv, SoundInv, HeldInv
<1>4. CASE Raise
  BY <1>1, <1>4, ReturnEstablishes DEF Raise, IInv, SoundInv, HeldInv
<1> QED
  BY <1>2, <1>3, <1>4

LEMMA StepInv == IInv /\ [Next]_vars => IInv'
<1>1. IInv /\ UNCHANGED vars => IInv'
  BY DEF vars, call, IInv, TypeOK, SoundInv, HeldInv, KeptInv
<1> QED
  BY <1>1, ClientReserveStep, ClientReleaseStep, ClientSetOnlineStep, ClientInvalidateStep,
     ReportFaultStep, BackendFaultStep, ReplaceStep, LeaveUnresolvedStep, WalkStep,
     ReserveCommandStep, WaveSucceedsStep, EndStep DEF Next

(* The invariant holds in every state of every sequence of calls.            *)
THEOREM Invariance == Spec => []IInv
BY InitInv, StepInv, PTL DEF Spec

-----------------------------------------------------------------------------
(* What follows for every state.                                             *)

(* The snapshots, and what a call in progress has in hand, keep their types. *)
THEOREM TypeCorrect == Spec => []TypeOK
<1>1. IInv => TypeOK
  BY DEF IInv
<1> QED
  BY <1>1, Invariance, PTL

(* No arm is leased twice, no region reserved twice at any one time.         *)
THEOREM AlwaysExclusive == Spec => []SnapshotsExclusive
<1>1. IInv => SnapshotsExclusive
  BY DEF IInv, SoundInv, Sound, SnapshotsExclusive, Snapshots
<1> QED
  BY <1>1, Invariance, PTL

(* Every space lies within a lease of its owner on arms that reach it.       *)
THEOREM AlwaysBacked == Spec => []SpacesBacked
<1>1. IInv => SpacesBacked
  BY DEF IInv, SoundInv, Sound, SpacesBacked, Snapshots
<1> QED
  BY <1>1, Invariance, PTL

(* No lease is held on an arm that is offline.                               *)
THEOREM AlwaysOnline == Spec => []LeasesOnline
<1>1. IInv => LeasesOnline
  BY DEF IInv, SoundInv, Sound, LeasesOnline, Snapshots
<1> QED
  BY <1>1, Invariance, PTL

(* All three, of the shared snapshot and of the one a call works on.         *)
THEOREM SnapshotsStaySound == Spec => []SnapshotsSound
<1>1. SnapshotsExclusive /\ SpacesBacked /\ LeasesOnline => SnapshotsSound
  BY DEF SnapshotsSound
<1> QED
  BY <1>1, AlwaysExclusive, AlwaysBacked, AlwaysOnline, PTL

(* However a run ended, nothing of a schedule is left behind: leases because *)
(* the executor knows all it holds, spaces because leases back them.         *)
THEOREM NeverLeaks == Spec => []NothingLeaks
<1>1. IInv => NothingLeaks
  <2> SUFFICES ASSUME IInv, Idle, NEW x \in fleet.leases \cup fleet.spaces
               PROVE  x.owner \in Clients
    BY DEF NothingLeaks
  <2>1. \A l \in fleet.leases : l.owner \in Clients
    BY IdleFleet
  <2>2. Backed(fleet)
    BY DEF IInv, SoundInv, Sound
  <2> QED
    BY <2>1, <2>2 DEF Backed
<1> QED
  BY <1>1, Invariance, PTL

(* A run, or a reported fault, takes no lease of another holder whose arms   *)
(* stay online.                                                              *)
THEOREM OthersKeep == Spec => OthersKeepLeases
<1> DEFINE Keeps ==
      ~Idle /\ Idle' =>
        \A l \in fleet.leases : l \in fleet'.leases \/ ~(l.arms \subseteq fleet'.online)
<1>1. IInv /\ Next => Keeps
  <2> SUFFICES ASSUME IInv, Next, ~Idle, Idle', NEW l \in fleet.leases
               PROVE  l \in fleet'.leases \/ ~(l.arms \subseteq fleet'.online)
    OBVIOUS
  <2>1. EndReallocation \/ FinishExecute \/ Raise \/ WaveFails
    <3>1. ~(ClientReserve \/ ClientRelease \/ ClientSetOnline \/ ClientInvalidate)
      BY DEF ClientReserve, ClientRelease, ClientSetOnline, ClientInvalidate, Call
    <3>2. ~(ReportFault \/ StartExecute)
      BY DEF ReportFault, StartExecute, Call
    <3>3. ~(Replace \/ LeaveUnresolved \/ SkipWave \/ EnterWave)
      BY DEF Replace, LeaveUnresolved, SkipWave, EnterWave, Idle
    <3>4. ~(ReserveCommand \/ WaveSucceeds)
      BY DEF ReserveCommand, WaveSucceeds, Idle, Executing
    <3>5. ~BackendFault
      BY DEF BackendFault, BeginReallocation, Idle
    <3> QED
      BY <3>1, <3>2, <3>3, <3>4, <3>5 DEF Next
  <2>2. CASE EndReallocation \/ WaveFails
    <3>1. fleet' = Without(working, taken)
      BY <2>2 DEF EndReallocation, WaveFails, Unwind, Return
    <3>2. /\ fleet'.online = working.online
          /\ fleet'.leases = {m \in working.leases : m.id \notin taken}
      BY <3>1, WithoutSound DEF IInv, SoundInv
    <3> QED
      BY <3>2 DEF IInv, KeptInv
  <2>3. CASE FinishExecute
    BY <2>3 DEF FinishExecute, Return, IInv, KeptInv
  <2>4. CASE Raise
    BY <2>4 DEF Raise, Return
  <2> QED
    BY <2>1, <2>2, <2>3, <2>4
<1>2. UNCHANGED vars => UNCHANGED Idle
  BY DEF vars, call, Idle
<1>3. IInv /\ [Next]_vars => [Keeps]_vars
  BY <1>1
<1> QED
  BY <1>3, Invariance, PTL DEF Spec, OthersKeepLeases

-----------------------------------------------------------------------------
(* Why nothing in a wave gets in anything's way: the leases and spaces of    *)
(* the n commands reserved so far, of a wave w at time k, are in snapshot f. *)
LeaseAt(c, k) == [id |-> <<c.step>>, owner |-> c.step, arms |-> c.arms,
                  from |-> k, to |-> k + 1]
SpaceAt(c, k) == {[lease |-> <<c.step>>, owner |-> c.step, regions |-> {r},
                   from |-> k, to |-> k + 1] : r \in RegionsOf(c)}

InHand(f, w, n, k) ==
  /\ \A i \in 1..n : LeaseAt(w[i], k) \in f.leases /\ SpaceAt(w[i], k) \subseteq f.spaces
  /\ \A i, j \in 1..n : i # j => w[i].step # w[j].step

LeftOf(w, t) ==
  /\ Len(w) - Len(t) \in Nat
  /\ \A i \in DOMAIN t : t[i] = w[Len(w) - Len(t) + i]

WaveInv ==
  pc = "reserve" =>
    /\ LeftOf(Head(remaining), todo)
    /\ InHand(working, Head(remaining), Len(Head(remaining)) - Len(todo), clock)

LEMMA WaveOfCommands ==
  IInv /\ pc = "reserve" =>
    /\ Head(remaining) \in Seq(Command) /\ todo \in Seq(Command)
    /\ \A i \in DOMAIN Head(remaining) : Head(remaining)[i] \in Command
<1> SUFFICES ASSUME IInv, pc = "reserve"
             PROVE  /\ Head(remaining) \in Seq(Command) /\ todo \in Seq(Command)
                    /\ \A i \in DOMAIN Head(remaining) : Head(remaining)[i] \in Command
  OBVIOUS
<1>1. remaining \in Seq(Seq(Command)) /\ remaining # <<>> /\ todo \in Seq(Command)
  BY DEF IInv, TypeOK
<1>2. Head(remaining) \in Seq(Command)
  BY <1>1
<1> QED
  BY <1>1, <1>2

(* Entering a wave nothing is reserved yet; each command adds its own.       *)
LEMMA WaveStep == IInv /\ WaveInv /\ [Next]_vars => WaveInv'
<1> SUFFICES ASSUME IInv, WaveInv, [Next]_vars, pc' = "reserve" PROVE WaveInv'
  BY DEF WaveInv
<1>1. EnterWave \/ ReserveCommand \/ UNCHANGED vars
  <2>1. ~(ClientReserve \/ ClientRelease \/ ClientSetOnline \/ ClientInvalidate)
    BY DEF ClientReserve, ClientRelease, ClientSetOnline, ClientInvalidate, Return
  <2>2. ~(ReportFault \/ StartExecute \/ BackendFault)
    BY DEF ReportFault, StartExecute, BackendFault, BeginReallocation
  <2>3. ~(Replace \/ LeaveUnresolved \/ SkipWave)
    BY DEF Replace, LeaveUnresolved, SkipWave
  <2>4. ~(WaveSucceeds \/ EndReallocation \/ FinishExecute \/ Raise \/ WaveFails)
    BY DEF WaveSucceeds, EndReallocation, Unwind, FinishExecute, Raise, WaveFails, Return
  <2> QED
    BY <2>1, <2>2, <2>3, <2>4 DEF Next
<1>2. CASE UNCHANGED vars
  BY <1>2 DEF vars, call, WaveInv
<1>3. CASE EnterWave
  <2>1. remaining' = remaining /\ remaining # <<>> /\ todo' = Head(remaining)
    BY <1>3 DEF EnterWave
  <2>2. remaining \in Seq(Seq(Command))
    BY DEF IInv, TypeOK
  <2>3. Head(remaining) \in Seq(Command)
    BY <2>1, <2>2
  <2>4. LeftOf(Head(remaining), todo')
    BY <2>1, <2>3 DEF LeftOf
  <2>5. InHand(working', Head(remaining), Len(Head(remaining)) - Len(todo'), clock')
    BY <2>1, <2>3 DEF InHand
  <2> QED
    BY <2>1, <2>4, <2>5 DEF WaveInv
<1>4. CASE ReserveCommand
  <2> DEFINE w == Head(remaining)
             c == Head(todo)
             m == Len(w) - Len(todo)
             n == m + 1
  <2>1. /\ pc = "reserve" /\ todo # <<>> /\ todo' = Tail(todo) /\ Secure(c)
        /\ working' = Reserve(working, LeaseOf(c), SpaceOf(c))
        /\ remaining' = remaining /\ clock' = clock
    BY <1>4 DEF ReserveCommand
  <2>2. LeaseOf(c) = LeaseAt(c, clock) /\ SpaceOf(c) = SpaceAt(c, clock)
    BY DEF LeaseOf, LeaseAt, SpaceOf, SpaceAt
  <2>3. w \in Seq(Command) /\ todo \in Seq(Command)
    BY <2>1, WaveOfCommands
  <2>4. LeftOf(w, todo) /\ InHand(working, w, m, clock)
    BY <2>1 DEF WaveInv
  <2>5. /\ Len(todo') = Len(todo) - 1 /\ Len(todo) \in Nat \ {0} /\ Len(w) \in Nat
        /\ \A i \in DOMAIN todo' : i \in Nat /\ i + 1 \in DOMAIN todo /\ todo'[i] = todo[i + 1]
    BY <2>1, <2>3
  <2>6. m \in Nat /\ Len(w) - Len(todo') = n
    BY <2>4, <2>5 DEF LeftOf
  <2>7. c = w[n]
    <3>1. 1 \in DOMAIN todo /\ c = todo[1]
      BY <2>1, <2>3
    <3> QED
      BY <2>4, <3>1 DEF LeftOf
  <2> HIDE DEF w, c
  <2>8. LeftOf(w, todo')
    <3>1. \A i \in DOMAIN todo' : todo'[i] = w[m + (i + 1)]
      BY <2>4, <2>5 DEF LeftOf
    <3>2. \A i \in Nat : m + (i + 1) = n + i
      BY <2>6
    <3> HIDE DEF m
    <3>3. \A i \in DOMAIN todo' : todo'[i] = w[n + i]
      BY <2>5, <3>1, <3>2
    <3> QED
      BY <2>6, <3>3 DEF LeftOf
  <2> HIDE DEF m
  <2>9. /\ working'.leases = working.leases \cup {LeaseAt(c, clock)}
        /\ working'.spaces = working.spaces \cup SpaceAt(c, clock)
    BY <2>1, <2>2 DEF Reserve
  <2>10. \A i \in 1..m : w[i].step # c.step
    <3>1. \A x \in working.leases : x.id # <<c.step>>
      BY <2>1 DEF Secure, Reservable, Free, LeaseOf
    <3> TAKE i \in 1..m
    <3>2. LeaseAt(w[i], clock) \in working.leases
      BY <2>4 DEF InHand
    <3>3. LeaseAt(w[i], clock).id = <<w[i].step>>
      BY DEF LeaseAt
    <3> QED
      BY <3>1, <3>2, <3>3
  <2>11. \A i \in 1..n : i \in 1..m \/ i = n
    BY <2>6
  <2>12. \A i \in 1..n : /\ LeaseAt(w[i], clock) \in working'.leases
                         /\ SpaceAt(w[i], clock) \subseteq working'.spaces
    BY <2>4, <2>7, <2>9, <2>11 DEF InHand
  <2>13. \A i, j \in 1..n : i # j => w[i].step # w[j].step
    BY <2>4, <2>7, <2>10, <2>11 DEF InHand
  <2>14. InHand(working', w, n, clock)
    BY <2>12, <2>13 DEF InHand
  <2> QED
    BY <2>1, <2>6, <2>8, <2>14 DEF WaveInv, w
<1> QED
  BY <1>1, <1>2, <1>3, <1>4

(* While a wave moves, no two of its commands share an arm or a region, and  *)
(* no other holder has an arm of it.                                         *)
THEOREM AlwaysApart == Spec => []WaveIsExclusive
<1>1. Init => WaveInv
  BY DEF Init, WaveInv
<1>2. IInv /\ WaveInv => WaveIsExclusive
  <2> SUFFICES ASSUME IInv, WaveInv, Executing,
                      NEW i \in DOMAIN Head(remaining), NEW j \in DOMAIN Head(remaining)
               PROVE  LET c == Head(remaining)[i]
                          d == Head(remaining)[j]
                      IN  /\ i # j => /\ c.arms \cap d.arms = {}
                                      /\ RegionsOf(c) \cap RegionsOf(d) = {}
                          /\ \A l \in working.leases :
                               l.owner \in Clients /\ l.from <= clock /\ clock < l.to =>
                                 l.arms \cap c.arms = {}
    BY DEF WaveIsExclusive
  <2> DEFINE c == Head(remaining)[i]
             d == Head(remaining)[j]
  <2>1. Head(remaining) \in Seq(Command) /\ c \in Command /\ d \in Command
    BY WaveOfCommands DEF Executing
  <2>2. /\ InHand(working, Head(remaining), Len(Head(remaining)), clock)
        /\ i \in 1..Len(Head(remaining)) /\ j \in 1..Len(Head(remaining))
    <3>1. Len(todo) = 0 /\ Len(Head(remaining)) - 0 = Len(Head(remaining))
      BY <2>1 DEF Executing
    <3>2. InHand(working, Head(remaining), Len(Head(remaining)) - Len(todo), clock)
      BY DEF WaveInv, Executing
    <3> QED
      BY <2>1, <3>1, <3>2
  <2>3. /\ LeaseAt(c, clock) \in working.leases /\ LeaseAt(d, clock) \in working.leases
        /\ SpaceAt(c, clock) \subseteq working.spaces /\ SpaceAt(d, clock) \subseteq working.spaces
        /\ i # j => c.step # d.step
    BY <2>2 DEF InHand
  <2>4. clock \in Nat /\ Exclusive(working) /\ working.leases \subseteq Lease
    BY DEF IInv, TypeOK, SoundInv, Sound, FleetSnapshot
  <2> HIDE DEF c, d
  <2>5. ASSUME i # j PROVE c.arms \cap d.arms = {}
    <3>1. LeaseAt(c, clock).owner # LeaseAt(d, clock).owner
      BY <2>3, <2>5 DEF LeaseAt
    <3>2. ~LeasesClash(LeaseAt(c, clock), LeaseAt(d, clock))
      BY <2>3, <2>4, <3>1 DEF Exclusive
    <3> QED
      BY <2>4, <3>2 DEF LeasesClash, Overlap, LeaseAt
  <2>6. ASSUME i # j, NEW r \in RegionsOf(c) \cap RegionsOf(d) PROVE FALSE
    <3> DEFINE Space1(x) == [lease |-> <<x.step>>, owner |-> x.step, regions |-> {r},
                             from |-> clock, to |-> clock + 1]
    <3>1. Space1(c) \in working.spaces /\ Space1(d) \in working.spaces
      BY <2>3, <2>6 DEF SpaceAt
    <3>2. Space1(c).owner # Space1(d).owner
      BY <2>3, <2>6
    <3>3. ~SpacesClash(Space1(c), Space1(d))
      BY <2>4, <3>1, <3>2 DEF Exclusive
    <3> QED
      BY <2>4, <3>3 DEF SpacesClash, Overlap
  <2>7. ASSUME NEW l \in working.leases,
               l.owner \in Clients, l.from <= clock, clock < l.to
        PROVE  l.arms \cap c.arms = {}
    <3>1. LeaseAt(c, clock).owner # l.owner
      BY <2>1, <2>7, ExecutorAssumption DEF LeaseAt, Command
    <3>2. ~LeasesClash(l, LeaseAt(c, clock))
      BY <2>3, <2>4, <3>1 DEF Exclusive
    <3>3. l.from \in Nat /\ l.to \in Nat
      BY <2>4 DEF Lease
    <3>4. Overlap(l, LeaseAt(c, clock))
      BY <2>4, <2>7, <3>3 DEF Overlap, LeaseAt
    <3> QED
      BY <3>2, <3>4 DEF LeasesClash, LeaseAt
  <2> QED
    BY <2>5, <2>6, <2>7 DEF c, d
<1> QED
  BY <1>1, <1>2, WaveStep, Invariance, PTL DEF Spec
-----------------------------------------------------------------------------
(* Why nothing is given up too early.  The spaces in hand are those of the   *)
(* snapshot the fault was reported on, some of them under another name, but  *)
(* for those of the leases that are still to be replaced.                    *)
Alike(s, t) == s.regions = t.regions /\ s.from = t.from /\ s.to = t.to
Owed(f, prior, rest) ==
  /\ \A i \in DOMAIN rest : rest[i] \in prior.leases
  /\ \A i, j \in DOMAIN rest : i # j => rest[i] # rest[j]
  /\ \A t \in f.spaces : \E s \in prior.spaces :
       Alike(s, t) /\ \A i \in DOMAIN rest : rest[i].id # s.lease
OwedInv == pc = "reallocate" => Owed(working, fault.prior, todo)

LEMMA BeginOwes ==
  ASSUME NEW f, Sound(f), NEW id, NEW arms, NEW asked, BeginReallocation(f, id, arms, asked)
  PROVE  OwedInv'
<1> DEFINE hit == Touching(f, arms)
           ids == {l.id : l \in hit}
<1>1. /\ todo' \in Sequences(hit) /\ fault' = [id |-> id, asked |-> asked, prior |-> f]
      /\ working' = Degraded(f, arms)
  BY DEF BeginReallocation
<1>2. hit \subseteq f.leases
  BY DEF Touching
<1>3. f \in FleetSnapshot
  BY DEF Sound
<1>4. working'.spaces = {s \in f.spaces : s.lease \notin ids}
  <2> DEFINE g == Invalidate(f, arms)
  <2>1. g = [online |-> f.online, leases |-> {l \in f.leases : l.id \notin ids},
             spaces |-> {s \in f.spaces : s.lease \notin ids}]
    BY DEF Invalidate, Without
  <2> HIDE DEF g, ids
  <2>2. [g EXCEPT !.online = @ \ arms].spaces = g.spaces
    BY <2>1
  <2> QED
    BY <1>1, <2>1, <2>2 DEF Degraded, TakeOffline, g
<1>5. /\ \A i \in DOMAIN todo' : todo'[i] \in hit
      /\ \A i, j \in DOMAIN todo' : i # j => todo'[i] # todo'[j]
  <2> HIDE DEF hit
  <2> QED
    BY <1>1 DEF Sequences
<1>6. \A i \in DOMAIN todo' : todo'[i].id \in ids
  BY <1>5
<1> HIDE DEF hit, ids
<1>7. fault'.prior = f
  BY <1>1
<1>8. \A t \in f.spaces : Alike(t, t)
  BY DEF Alike
<1>9. Owed(working', f, todo')
  BY <1>2, <1>4, <1>5, <1>6, <1>8 DEF Owed
<1> QED
  BY <1>7, <1>9 DEF OwedInv

(* What is left of it when the first lease has been seen to.                 *)
LEMMA RestOwes ==
  ASSUME NEW f, NEW g, NEW prior, Sound(prior), NEW rest \in Seq(Lease), rest # <<>>,
         Owed(f, prior, rest),
         \A t \in g.spaces : t \in f.spaces \/ \E s \in prior.spaces : Alike(s, t) /\ s.lease = Head(rest).id
  PROVE  Owed(g, prior, Tail(rest))
<1> DEFINE l == Head(rest)
           more == Tail(rest)
<1>1. /\ l = rest[1] /\ 1 \in DOMAIN rest
      /\ \A i \in DOMAIN more : i + 1 \in DOMAIN rest /\ more[i] = rest[i + 1] /\ i + 1 # 1 /\ i \in Nat
  OBVIOUS
<1> HIDE DEF l, more
<1>2. \A i \in DOMAIN more : more[i] \in prior.leases /\ more[i] # l /\ l \in prior.leases
  BY <1>1 DEF Owed
<1>3. \A i \in DOMAIN more : more[i].id # l.id
  BY <1>2 DEF Sound, Exclusive
<1>4. \A i, j \in DOMAIN more : i # j => more[i] # more[j]
  <2>1. \A i, j \in DOMAIN more : i # j => i + 1 # j + 1
    BY <1>1
  <2> QED
    BY <1>1, <2>1 DEF Owed
<1>5. ASSUME NEW t \in g.spaces
      PROVE  \E s \in prior.spaces : Alike(s, t) /\ \A i \in DOMAIN more : more[i].id # s.lease
  <2>1. CASE t \in f.spaces
    <3>1. PICK s \in prior.spaces : Alike(s, t) /\ \A i \in DOMAIN rest : rest[i].id # s.lease
      BY <2>1 DEF Owed
    <3> QED
      BY <1>1, <3>1
  <2>2. CASE \E s \in prior.spaces : Alike(s, t) /\ s.lease = l.id
    BY <1>3, <2>2
  <2> QED
    BY <1>5, <2>1, <2>2 DEF l
<1> QED
  BY <1>2, <1>4, <1>5 DEF Owed, more

LEMMA OwedStep == IInv /\ OwedInv /\ [Next]_vars => OwedInv'
<1> SUFFICES ASSUME IInv, OwedInv, [Next]_vars PROVE OwedInv'
  OBVIOUS
<1>1. CASE UNCHANGED vars
  BY <1>1 DEF vars, call, OwedInv
<1>2. CASE ReportFault \/ BackendFault
  <2>1. ASSUME ReportFault PROVE OwedInv'
    <3>1. PICK id \in FaultIds, arms \in Failures :
            \E asked \in [{l.id : l \in Touching(fleet, arms)} -> Requests \cup {Nil}] :
              BeginReallocation(fleet, id, arms, asked)
      BY <2>1 DEF ReportFault
    <3> QED
      BY <3>1, BeginOwes DEF IInv, SoundInv
  <2>2. ASSUME BackendFault PROVE OwedInv'
    <3>1. \E id, arms, asked : BeginReallocation(working, id, arms, asked)
      BY <2>2 DEF BackendFault
    <3> QED
      BY <3>1, BeginOwes DEF IInv, SoundInv
  <2> QED
    BY <1>2, <2>1, <2>2
<1>3. CASE LeaveUnresolved
  <2>1. /\ pc = "reallocate" /\ todo # <<>> /\ todo' = Tail(todo) /\ UNCHANGED <<working, pc, fault>>
    BY <1>3 DEF LeaveUnresolved
  <2>2. Sound(fault.prior) /\ todo \in Seq(Lease) /\ Owed(working, fault.prior, todo)
    BY <2>1 DEF IInv, SoundInv, TypeOK, OwedInv
  <2>3. Owed(working, fault.prior, Tail(todo))
    BY <2>1, <2>2, RestOwes
  <2> QED
    BY <2>1, <2>3 DEF OwedInv
<1>4. CASE Replace
  <2> DEFINE l == Head(todo)
             moved == Moved(SpacesOf(l), l, fault.id)
  <2>1. /\ pc = "reallocate" /\ todo # <<>> /\ todo' = Tail(todo) /\ UNCHANGED <<pc, fault>>
        /\ working'.spaces = working.spaces \cup moved
    BY <1>4 DEF Replace, Reserve
  <2>2. Sound(fault.prior) /\ todo \in Seq(Lease) /\ Owed(working, fault.prior, todo)
        /\ fault.prior.spaces \subseteq Space
    BY <2>1 DEF IInv, SoundInv, TypeOK, OwedInv, FleetSnapshot
  <2>3. ASSUME NEW t \in moved PROVE \E s \in fault.prior.spaces : Alike(s, t) /\ s.lease = l.id
    <3>1. PICK s \in SpacesOf(l) : t = [s EXCEPT !.lease = Append(l.id, fault.id)]
      BY DEF Moved
    <3>2. s \in fault.prior.spaces /\ s.lease = l.id /\ s \in Space
      BY <2>2, <3>1 DEF SpacesOf
    <3>3. Alike(s, t)
      BY <3>1, <3>2 DEF Alike, Space
    <3> QED
      BY <3>2, <3>3
  <2> HIDE DEF moved
  <2>4. Owed(working', fault.prior, Tail(todo))
    BY <2>1, <2>2, <2>3, RestOwes
  <2> QED
    BY <2>1, <2>4 DEF OwedInv
<1>5. CASE pc' # "reallocate"
  BY <1>5 DEF OwedInv
<1>6. ASSUME Next, ~ (ReportFault \/ BackendFault), ~LeaveUnresolved, ~Replace PROVE pc' # "reallocate"
  BY <1>6 DEF Next, ClientReserve, ClientRelease, ClientSetOnline, ClientInvalidate, Call, Idle, Return,
     EndReallocation, Unwind, StartExecute, FinishExecute, SkipWave, EnterWave, ReserveCommand, Raise,
     WaveSucceeds, WaveFails, Executing
<1> QED
  BY <1>1, <1>2, <1>3, <1>4, <1>5, <1>6

(* Of some candidates for a lease one is best: it shares as many arms with   *)
(* the lease as any, and is preferred if such a one is.                      *)
LEMMA SomeBest ==
  ASSUME NEW l \in Lease, Cardinality(l.arms) <= 2,
         NEW candidates \in SUBSET SUBSET Manipulators, candidates # {}
  PROVE  Best(candidates, l) # {}
<1> DEFINE Shared(A) == Cardinality(A \cap l.arms)
<1>1. IsFiniteSet(l.arms)
  BY FleetAssumption, FS_Subset DEF Lease
<1>2. ASSUME NEW A \in candidates PROVE Shared(A) \in {0, 1, 2}
  <2>1. A \cap l.arms \in SUBSET l.arms
    OBVIOUS
  <2>2. /\ IsFiniteSet(A \cap l.arms) /\ Shared(A) <= Cardinality(l.arms)
    BY <1>1, <2>1, FS_Subset
  <2>3. Shared(A) \in Nat /\ Cardinality(l.arms) \in Nat
    BY <1>1, <2>2, FS_CardinalityType
  <2> HIDE DEF Shared
  <2> QED
    BY <2>2, <2>3
<1> HIDE DEF Shared
<1>3. \E A \in candidates : \A B \in candidates : Shared(B) <= Shared(A)
  BY <1>2
<1>4. \E A \in candidates : \A B \in candidates :
        Shared(B) < Shared(A) \/ (Shared(B) = Shared(A) /\ (B \in Preferred => A \in Preferred))
  <2>1. PICK A \in candidates : \A B \in candidates : Shared(B) <= Shared(A)
    BY <1>3
  <2>2. CASE \E C \in candidates : Shared(C) = Shared(A) /\ C \in Preferred
    BY <1>2, <2>1, <2>2
  <2>3. CASE ~\E C \in candidates : Shared(C) = Shared(A) /\ C \in Preferred
    BY <1>2, <2>1, <2>3
  <2> QED
    BY <2>2, <2>3
<1> QED
  BY <1>4 DEF Best, Shared

(* What is best can be reserved, unless its name is taken.                   *)
LEMMA BestFits ==
  ASSUME IInv, OwedInv, pc = "reallocate", todo # <<>>, Asked(Head(todo)),
         NEW arms \in StandIns(Head(todo)),
         \A m \in working.leases : m.id # Append(Head(todo).id, fault.id)
  PROVE  CanReplace(Head(todo), arms)
<1> DEFINE l == Head(todo)
           request == fault.asked[l.id]
           needed == Needed(SpacesOf(l), request)
           new == Replacement(l, arms, fault.id)
<1>1. /\ todo \in Seq(Lease) /\ Sound(fault.prior) /\ Sound(working) /\ Owed(working, fault.prior, todo)
      /\ fault.id \in FaultIds /\ fault.prior.spaces \subseteq Space /\ working.leases \subseteq Lease
      /\ working.spaces \subseteq Space
  BY DEF IInv, TypeOK, SoundInv, Sound, OwedInv, FleetSnapshot
<1>2. l \in Lease /\ l = todo[1] /\ 1 \in DOMAIN todo
  BY <1>1
<1>3. /\ arms \subseteq working.online \ Busy(working, l) /\ Cardinality(arms) = Cardinality(l.arms)
      /\ Suits(working, arms, request, needed)
  BY DEF StandIns, Best, Candidates
<1> HIDE DEF l
<1>4. /\ new.id = Append(l.id, fault.id) /\ new.owner = l.owner /\ new.arms = arms
      /\ new.from = l.from /\ new.to = l.to
  BY DEF Replacement
<1> HIDE DEF new
<1>5. Free(working, new)
  <2>1. ASSUME NEW m \in working.leases PROVE ~LeasesClash(new, m) /\ m.id # new.id
    <3>1. Overlap(new, m) => Overlap(l, m)
      BY <1>4 DEF Overlap
    <3>2. Overlap(l, m) => m.arms \subseteq Busy(working, l)
      BY DEF Busy
    <3>3. m.id # new.id
      BY <1>4 DEF l
    <3> QED
      BY <1>3, <1>4, <3>1, <3>2, <3>3 DEF LeasesClash
  <2> QED
    BY <1>3, <1>4, <2>1 DEF Free
<1>6. ASSUME NEW s \in SpacesOf(l) PROVE \A a \in arms : s.regions \subseteq Covers[a]
  <2>1. s.regions \subseteq needed
    BY DEF Needed
  <2> HIDE DEF needed, request
  <2>2. \A a \in arms, r \in needed : r \in Covers[a]
    BY <1>3 DEF Suits, Supports
  <2> QED
    BY <2>1, <2>2
<1>7. ASSUME NEW u \in Moved(SpacesOf(l), l, fault.id) PROVE Fits(working, new, u)
  <2>1. PICK s \in SpacesOf(l) : u = [s EXCEPT !.lease = Append(l.id, fault.id)]
    BY DEF Moved
  <2>2. s \in fault.prior.spaces /\ s.lease = l.id /\ s \in Space
    BY <1>1, <2>1 DEF SpacesOf
  <2>3. u.lease = new.id /\ u.owner = s.owner /\ Alike(s, u)
    BY <1>4, <2>1, <2>2 DEF Space, Alike
  <2>4. l \in fault.prior.leases
    BY <1>1, <1>2 DEF Owed
  <2>5. PICK m \in fault.prior.leases :
          m.id = s.lease /\ m.owner = s.owner /\ m.from <= s.from /\ s.to <= m.to
    BY <1>1, <2>2 DEF Sound, Backed
  <2>6. m = l
    BY <1>1, <2>2, <2>4, <2>5 DEF Sound, Exclusive
  <2>7. ASSUME NEW t \in working.spaces PROVE ~SpacesClash(u, t)
    <3>1. PICK r \in fault.prior.spaces : Alike(r, t) /\ \A i \in DOMAIN todo : todo[i].id # r.lease
      BY <1>1 DEF Owed
    <3>2. r # s
      BY <1>2, <2>2, <3>1
    <3>3. ~SpacesClash(s, r)
      BY <1>1, <2>2, <3>1, <3>2 DEF Sound, Exclusive
    <3> QED
      BY <2>3, <3>1, <3>3 DEF SpacesClash, Overlap, Alike
  <2>8. \A a \in new.arms : u.regions \subseteq Covers[a]
    BY <1>4, <1>6, <2>1, <2>3 DEF Alike
  <2>9. new.from <= u.from /\ u.to <= new.to /\ u.owner = new.owner
    BY <1>4, <2>3, <2>5, <2>6 DEF Alike
  <2> QED
    BY <2>3, <2>7, <2>8, <2>9 DEF Fits
<1> QED
  BY <1>5, <1>7 DEF CanReplace, Reservable, new, l

(* reallocate gives up on a lease only when its replacement's name is taken  *)
(* or no free arms, as many as before, can do what is asked where it is      *)
(* asked: the best candidate never fails to be reserved.                     *)
THEOREM NeverGivesUpEarly == Spec => GivesUpOnlyWhenForced
<1> DEFINE Forced ==
      pc = "reallocate" /\ todo # <<>> /\ working' = working /\ Asked(Head(todo)) =>
       LET l == Head(todo)
           request == fault.asked[l.id]
       IN  \/ \E m \in working.leases : m.id = Append(l.id, fault.id)
           \/ ~\E A \in SUBSET working.online :
                /\ Cardinality(A) = Cardinality(l.arms)
                /\ \A m \in working.leases : m.arms \cap A # {} => ~Overlap(l, m)
                /\ \A a \in A : Supports(working, a, request.capability,
                                         Needed(SpacesOf(l), request))
<1>1. IInv /\ OwedInv /\ Next => Forced
  <2> SUFFICES ASSUME IInv, OwedInv, Next, pc = "reallocate", todo # <<>>, working' = working,
                      Asked(Head(todo)),
                      \A m \in working.leases : m.id # Append(Head(todo).id, fault.id),
                      NEW A \in SUBSET working.online,
                      Cardinality(A) = Cardinality(Head(todo).arms),
                      \A m \in working.leases : m.arms \cap A # {} => ~Overlap(Head(todo), m),
                      \A a \in A : Supports(working, a, fault.asked[Head(todo).id].capability,
                                       Needed(SpacesOf(Head(todo)), fault.asked[Head(todo).id]))
               PROVE  FALSE
    OBVIOUS
  <2> DEFINE l == Head(todo)
             request == fault.asked[l.id]
             needed == Needed(SpacesOf(l), request)
             candidates == Candidates(working, l, SpacesOf(l), request)
  <2>1. l \in Lease /\ working.online \subseteq Manipulators
    BY DEF IInv, TypeOK, FleetSnapshot
  <2>2. Cardinality(l.arms) <= 2
    BY DEF Asked
  <2>3. A \cap Busy(working, l) = {}
    BY DEF Busy
  <2>4. Suits(working, A, request, needed)
    <3> HIDE DEF needed, request
    <3>1. \A a \in A : Supports(working, a, request.capability, needed)
      BY DEF needed, request
    <3> QED
      BY <3>1 DEF Suits, Supports
  <2>5. A \in candidates /\ candidates \in SUBSET SUBSET Manipulators
    BY <2>1, <2>3, <2>4 DEF Candidates
  <2> HIDE DEF candidates
  <2>6. Best(candidates, l) # {}
    BY <2>1, <2>2, <2>5, SomeBest
  <2>7. StandIns(l) # {}
    BY <2>6 DEF StandIns, candidates
  <2>8. \A arms \in StandIns(l) : CanReplace(l, arms)
    BY BestFits
  <2>9. ~LeaveUnresolved
    BY <2>7, <2>8 DEF LeaveUnresolved
  <2>10. ~Replace
    <3> SUFFICES ASSUME Replace PROVE FALSE
      OBVIOUS
    <3>1. PICK arms \in StandIns(l) :
            working' = Reserve(working, Replacement(l, arms, fault.id), Moved(SpacesOf(l), l, fault.id))
      BY DEF Replace
    <3>2. Replacement(l, arms, fault.id) \in working.leases
      BY <3>1 DEF Reserve
    <3>3. Replacement(l, arms, fault.id).id = Append(l.id, fault.id)
      BY DEF Replacement
    <3> QED
      BY <3>2, <3>3
  <2>11. ~EndReallocation
    BY DEF EndReallocation
  <2> QED
    BY <2>9, <2>10, <2>11 DEF Next, ClientReserve, ClientRelease, ClientSetOnline, ClientInvalidate, Call,
       Idle, ReportFault, StartExecute, FinishExecute, SkipWave, EnterWave, ReserveCommand, Raise,
       WaveSucceeds, WaveFails, BackendFault, Executing
<1>2. Init => OwedInv
  BY DEF Init, OwedInv
<1>3. IInv /\ OwedInv /\ Next => [Forced]_vars
  BY <1>1
<1>4. IInv /\ OwedInv /\ [Next]_vars => [Forced]_vars
  BY <1>3
<1> QED
  BY <1>2, <1>4, OwedStep, Invariance, PTL DEF Spec, GivesUpOnlyWhenForced
=============================================================================
