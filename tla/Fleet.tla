-------------------------------- MODULE Fleet --------------------------------
(***************************************************************************)
(* A fleet snapshot (omni_q.fleet.ManipulationFleet): which arms are       *)
(* online, which of them are leased to whom and when, and which regions of *)
(* the workspace are reserved under those leases.  Pure operators.         *)
(***************************************************************************)
EXTENDS Naturals, Sequences, FiniteSets

CONSTANTS
  Manipulators, Regions,
  Capabilities,   \* operations an arm may declare
  Can,            \* [Manipulators -> SUBSET Capabilities]
  Covers,         \* [Manipulators -> SUBSET Regions]: declared workspace regions
  Preferred,      \* the preferred bi-arm pairs
  Owners, Names,  \* who takes leases; what leases are called
  FaultIds,
  Nil

ASSUME FleetAssumption ==
  /\ IsFiniteSet(Manipulators) /\ Can \in [Manipulators -> SUBSET Capabilities]
  /\ Covers \in [Manipulators -> SUBSET Regions]
  /\ Preferred \subseteq SUBSET Manipulators
  /\ Nil \notin Regions \cup Owners

(* A replacement lease is named after the lease it replaces and the fault.   *)
LeaseIds == Seq(Names \cup FaultIds)

Lease == [id : LeaseIds, owner : Owners, arms : SUBSET Manipulators, from : Nat, to : Nat]
Space == [lease : LeaseIds, owner : Owners, regions : SUBSET Regions, from : Nat, to : Nat]
FleetSnapshot == [online : SUBSET Manipulators, leases : SUBSET Lease, spaces : SUBSET Space]

(* Half-open intervals.                                                      *)
\* Mutant: two intervals overlap only when one starts within the other.
StartsWithin(x, y) == x.from < y.from /\ y.from < x.to
Overlap(x, y) == x.from < y.to /\ y.from < x.to

LeasesClash(l, m) == l.arms \cap m.arms # {} /\ Overlap(l, m)
SpacesClash(s, t) == s.regions \cap t.regions # {} /\ Overlap(s, t)

Supports(f, a, capability, regions) ==
  a \in f.online /\ capability \in Can[a] /\ regions \subseteq Covers[a]

-----------------------------------------------------------------------------
(* reserve: a lease, with at most one space inside it.                       *)

Free(f, l) ==
  /\ l.arms \subseteq f.online
  /\ \A m \in f.leases : ~LeasesClash(l, m) /\ m.id # l.id

\* Mutant: a space is only checked against the spaces of the same arms.
FitsBesideOthers(f, l, s) ==
  /\ s.owner = l.owner /\ s.lease = l.id
  /\ l.from <= s.from /\ s.to <= l.to
  /\ \A a \in l.arms : s.regions \subseteq Covers[a]
  /\ \A t \in f.spaces, m \in f.leases :
       t.lease = m.id /\ m.arms \cap l.arms # {} => ~SpacesClash(s, t)
Fits(f, l, s) ==
  /\ s.owner = l.owner /\ s.lease = l.id
  /\ l.from <= s.from /\ s.to <= l.to
  /\ \A a \in l.arms : s.regions \subseteq Covers[a]
  /\ \A t \in f.spaces : ~SpacesClash(s, t)

Reservable(f, l, spaces) == Free(f, l) /\ \A s \in spaces : Fits(f, l, s)

Reserve(f, l, spaces) ==
  [online |-> f.online, leases |-> f.leases \cup {l}, spaces |-> f.spaces \cup spaces]

(* release and invalidate_resources: leases go with their spaces.            *)
\* Mutant: a lease's space stays.
WithoutLeases(f, ids) == [f EXCEPT !.leases = {l \in @ : l.id \notin ids}]
Without(f, ids) ==
  [online |-> f.online,
   leases |-> {l \in f.leases : l.id \notin ids},
   spaces |-> {s \in f.spaces : s.lease \notin ids}]

Touching(f, arms) == {l \in f.leases : l.arms \cap arms # {}}

Invalidate(f, arms) == Without(f, {l.id : l \in Touching(f, arms)})

(* with_online: an arm under lease cannot be taken offline.                  *)
MaySet(f, a, on) == on \/ Touching(f, {a}) = {}

SetOnline(f, a, on) == [f EXCEPT !.online = IF on THEN @ \cup {a} ELSE @ \ {a}]

TakeOffline(f, arms) == [f EXCEPT !.online = @ \ arms]

-----------------------------------------------------------------------------
(* reallocate, for one invalidated lease: which arms may take it over in     *)
(* snapshot f, given what the request says it needs.  As many arms as        *)
(* before; of the pairs, one that keeps a surviving member, then a preferred *)
(* one (ties go by name, which is left open).                                *)

\* Mutant: an arm leased at any time is busy.
BusyAtAnyTime(f, l) == UNION {m.arms : m \in f.leases}
Busy(f, l) == UNION {m.arms : m \in {n \in f.leases : Overlap(l, n)}}

Needed(spaces, request) ==
  UNION {s.regions : s \in spaces} \cup (IF request.region = Nil THEN {} ELSE {request.region})

(* A pair is asked for the capability region by region: when no region is    *)
(* needed, it is not asked at all.                                           *)
Suits(f, A, request, needed) ==
  IF Cardinality(A) = 2
  THEN \A a \in A, r \in needed : Supports(f, a, request.capability, {r})
  ELSE \A a \in A : Supports(f, a, request.capability, needed)

Candidates(f, l, spaces, request) ==
  {A \in SUBSET (f.online \ Busy(f, l)) :
     Cardinality(A) = Cardinality(l.arms) /\ Suits(f, A, request, Needed(spaces, request))}

Best(candidates, l) ==
  {A \in candidates : \A B \in candidates :
     \/ Cardinality(B \cap l.arms) < Cardinality(A \cap l.arms)
     \/ /\ Cardinality(B \cap l.arms) = Cardinality(A \cap l.arms)
        /\ B \in Preferred => A \in Preferred}

(* Owner, interval and purpose are copied; the name tells of the fault.      *)
Replacement(l, arms, fault) ==
  [id |-> Append(l.id, fault), owner |-> l.owner, arms |-> arms, from |-> l.from, to |-> l.to]
Moved(spaces, l, fault) == {[s EXCEPT !.lease = Append(l.id, fault)] : s \in spaces}

-----------------------------------------------------------------------------
(* What every snapshot promises.                                             *)

Exclusive(f) ==
  /\ \A l, m \in f.leases : l # m => ~LeasesClash(l, m) /\ l.id # m.id
  /\ \A s, t \in f.spaces : s # t => ~SpacesClash(s, t)

(* A space is backed by a lease of its owner that spans it, held by arms     *)
(* that all cover its regions.                                               *)
Backed(f) ==
  \A s \in f.spaces : \E l \in f.leases :
    /\ l.id = s.lease /\ l.owner = s.owner
    /\ l.from <= s.from /\ s.to <= l.to
    /\ \A a \in l.arms : s.regions \subseteq Covers[a]

LeasedAreOnline(f) == \A l \in f.leases : l.arms \subseteq f.online
=============================================================================
