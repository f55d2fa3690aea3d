---------------------------- MODULE FleetExecutor ----------------------------
(***************************************************************************)
(* The life of one fleet snapshot: its holder reserves, releases, changes  *)
(* the health of arms, reports faults, and lets the lease-aware executor   *)
(* (omni_q.fleet_runtime.FleetExecutor) run schedules on it.  Calls do not *)
(* interleave; a call that raises leaves the snapshot as it was, however   *)
(* far it had come.                                                        *)
(***************************************************************************)
EXTENDS Fleet

CONSTANTS
  Clients, Steps,  \* who owns leases: other holders, and steps of schedules
  Schedules,       \* sequences of waves, a wave a sequence of commands
  Requests,        \* what a reallocation request may ask: [capability, region]
  ClientLeases,    \* leases clients may ask for
  Failures,        \* sets of arms that fail together
  \* bounds
  MaxCalls

VARIABLES
  fleet,    \* the snapshot between calls
  working,  \* the snapshot the call in progress has come to
  pc,       \* where that call is
  remaining, \* the schedule's waves still to be run
  todo,     \* commands to reserve, or invalidated leases to reallocate
  taken,    \* ids of the leases the executor holds for this wave
  clock,    \* the executor's time
  fault,    \* the reallocation in hand: [id, asked, prior], or Nil
  calls     \* calls so far

call == <<working, pc, remaining, todo, taken, clock, fault>>
vars == <<fleet, call, calls>>

Command == [step : Steps, op : Capabilities, arms : (SUBSET Manipulators) \ {{}},
            region : Regions \cup {Nil}]
Request == [capability : Capabilities, region : Regions \cup {Nil}]

ASSUME ExecutorAssumption ==
  /\ Clients \cup Steps = Owners /\ Clients \cap Steps = {}
  /\ Steps \subseteq Names
  /\ ClientLeases \subseteq {l \in Lease : l.from < l.to /\ l.arms # {} /\ l.owner \in Clients}
  /\ Schedules \subseteq Seq(Seq(Command)) /\ Requests \subseteq Request
  /\ Failures \subseteq (SUBSET Manipulators) \ {{}}
  /\ MaxCalls \in Nat

Idle == pc = "idle"

Init ==
  /\ fleet = [online |-> Manipulators, leases |-> {}, spaces |-> {}]
  /\ working = fleet
  /\ pc = "idle"
  /\ remaining = <<>> /\ todo = <<>>
  /\ taken = {}
  /\ clock = 0
  /\ fault = Nil
  /\ calls = 0

Call == Idle /\ calls < MaxCalls /\ calls' = calls + 1

(* A call returns snapshot f.                                                *)
Return(f) ==
  /\ fleet' = f /\ working' = f
  /\ pc' = "idle"
  /\ remaining' = <<>> /\ todo' = <<>> /\ taken' = {} /\ clock' = 0 /\ fault' = Nil

-----------------------------------------------------------------------------
(* The holder's own calls.                                                   *)

ClientReserve ==
  /\ Call
  /\ \E l \in ClientLeases, r \in Regions \cup {Nil} :
       LET spaces == IF r = Nil THEN {}
                     ELSE {[lease |-> l.id, owner |-> l.owner, regions |-> {r},
                            from |-> l.from, to |-> l.to]}
       IN  Reservable(fleet, l, spaces) /\ Return(Reserve(fleet, l, spaces))

ClientRelease ==
  /\ Call
  /\ \E l \in fleet.leases : Return(Without(fleet, {l.id}))

ClientSetOnline ==
  /\ Call
  /\ \E a \in Manipulators, on \in BOOLEAN : MaySet(fleet, a, on) /\ Return(SetOnline(fleet, a, on))

ClientInvalidate ==
  /\ Call
  /\ \E a \in Manipulators : Return(Invalidate(fleet, {a}))

-----------------------------------------------------------------------------
(* reallocate: the failed arms' leases are invalidated, the arms go offline, *)
(* then every invalidated lease is replaced if it can be.                    *)

Sequences(S) == {s \in [1..Cardinality(S) -> S] : \A i, j \in DOMAIN s : i # j => s[i] # s[j]}

Degraded(f, arms) == TakeOffline(Invalidate(f, arms), arms)

BeginReallocation(f, id, arms, asked) ==
  /\ working' = Degraded(f, arms)
  /\ todo' \in Sequences(Touching(f, arms))
  /\ fault' = [id |-> id, asked |-> asked, prior |-> f]
  /\ pc' = "reallocate"

ReportFault ==
  /\ Call
  /\ \E id \in FaultIds, arms \in Failures :
     \E asked \in [{l.id : l \in Touching(fleet, arms)} -> Requests \cup {Nil}] :
       BeginReallocation(fleet, id, arms, asked)
  /\ UNCHANGED <<fleet, remaining, taken, clock>>

(* One lease: replaced by its best candidate if that can be reserved.        *)
SpacesOf(l) == {s \in fault.prior.spaces : s.lease = l.id}

Asked(l) ==
  Cardinality(l.arms) <= 2 /\ l.id \in DOMAIN fault.asked /\ fault.asked[l.id] # Nil

StandIns(l) == Best(Candidates(working, l, SpacesOf(l), fault.asked[l.id]), l)

CanReplace(l, arms) ==
  Reservable(working, Replacement(l, arms, fault.id), Moved(SpacesOf(l), l, fault.id))

Replace ==
  /\ pc = "reallocate" /\ todo # <<>>
  /\ LET l == Head(todo) IN
       /\ Asked(l)
       /\ \E arms \in StandIns(l) :
            /\ CanReplace(l, arms)
            /\ working' = Reserve(working, Replacement(l, arms, fault.id),
                                  Moved(SpacesOf(l), l, fault.id))
       /\ taken' = IF l.id \in taken THEN taken \cup {Append(l.id, fault.id)} ELSE taken
  /\ todo' = Tail(todo)
  /\ UNCHANGED <<fleet, pc, remaining, clock, fault, calls>>

(* No request, no candidate, or the reservation raises: left unresolved.     *)
LeaveUnresolved ==
  /\ pc = "reallocate" /\ todo # <<>>
  /\ LET l == Head(todo) IN
       Asked(l) => StandIns(l) = {} \/ \E arms \in StandIns(l) : ~CanReplace(l, arms)
  /\ todo' = Tail(todo)
  /\ UNCHANGED <<fleet, working, pc, remaining, taken, clock, fault, calls>>

(* The holder gets the degraded snapshot; the executor first gives back what *)
(* it holds, replacements included: the stale graph is never carried on.     *)
\* Mutant: only the leases the wave was given are given back.
UnwindWaveOnly == Return(Without(working, {id \in taken : Len(id) = 1}))
\* Mutant: whatever is leased from this wave's start is given back.
UnwindWindow == Return(Without(working, {l.id : l \in {m \in working.leases : m.from = clock}}))
Unwind == Return(Without(working, taken))

EndReallocation ==
  /\ pc = "reallocate" /\ todo = <<>>
  /\ Unwind
  /\ UNCHANGED calls

-----------------------------------------------------------------------------
(* FleetExecutor.execute: wave after wave, reserve everything before         *)
(* anything moves, let the backend run the wave, give everything back.       *)

StartExecute ==
  /\ Call
  /\ remaining' \in Schedules /\ clock' \in {0, 1}
  /\ pc' = "wave"
  /\ UNCHANGED <<fleet, working, todo, taken, fault>>

FinishExecute ==
  /\ pc = "wave" /\ remaining = <<>>
  /\ Return(working)
  /\ UNCHANGED calls

(* A wave of barriers only takes its time.                                   *)
SkipWave ==
  /\ pc = "wave" /\ remaining # <<>> /\ Head(remaining) = <<>>
  /\ remaining' = Tail(remaining) /\ clock' = clock + 1
  /\ UNCHANGED <<fleet, working, pc, todo, taken, fault, calls>>

EnterWave ==
  /\ pc = "wave" /\ remaining # <<>> /\ Head(remaining) # <<>>
  /\ pc' = "reserve" /\ todo' = Head(remaining)
  /\ UNCHANGED <<fleet, working, remaining, taken, clock, fault, calls>>

RegionsOf(c) == IF c.region = Nil THEN {} ELSE {c.region}

LeaseOf(c) == [id |-> <<c.step>>, owner |-> c.step, arms |-> c.arms,
               from |-> clock, to |-> clock + 1]

SpaceOf(c) == {[lease |-> <<c.step>>, owner |-> c.step, regions |-> {r},
                from |-> clock, to |-> clock + 1] : r \in RegionsOf(c)}

Able(c) == \A a \in c.arms : Supports(working, a, c.op, RegionsOf(c))

Secure(c) == Able(c) /\ Reservable(working, LeaseOf(c), SpaceOf(c))

ReserveCommand ==
  /\ pc = "reserve" /\ todo # <<>>
  /\ LET c == Head(todo) IN
       /\ Secure(c)
       /\ working' = Reserve(working, LeaseOf(c), SpaceOf(c))
       /\ taken' = taken \cup {<<c.step>>}
  /\ todo' = Tail(todo)
  /\ UNCHANGED <<fleet, pc, remaining, clock, fault, calls>>

Executing == pc = "reserve" /\ todo = <<>>

(* The call raises: an arm cannot do its command, a reservation conflicts,   *)
(* or the backend fails in some way of its own.                              *)
Raise ==
  /\ pc = "reserve"
  /\ todo # <<>> => ~Secure(Head(todo))
  /\ Return(fleet)
  /\ UNCHANGED calls

WaveSucceeds ==
  /\ Executing
  /\ working' = Without(working, taken)
  /\ taken' = {}
  /\ remaining' = Tail(remaining) /\ clock' = clock + 1
  /\ pc' = "wave"
  /\ UNCHANGED <<fleet, todo, fault, calls>>

WaveFails ==
  /\ Executing
  /\ Return(Without(working, taken))
  /\ UNCHANGED calls

(* The backend reports arms down: reallocation is asked for the commands     *)
(* they had a part in.                                                       *)
BackendFault ==
  /\ Executing
  /\ \E id \in FaultIds, arms \in Failures :
       LET hit == {i \in DOMAIN Head(remaining) : Head(remaining)[i].arms \cap arms # {}}
           asked == [x \in {<<Head(remaining)[i].step>> : i \in hit} |->
             LET c == CHOOSE c \in {Head(remaining)[i] : i \in hit} : x = <<c.step>>
             IN  [capability |-> c.op, region |-> c.region]]
       IN  BeginReallocation(working, id, arms, asked)
  /\ UNCHANGED <<fleet, remaining, taken, clock, calls>>

Next ==
  \/ ClientReserve \/ ClientRelease \/ ClientSetOnline \/ ClientInvalidate
  \/ ReportFault \/ Replace \/ LeaveUnresolved \/ EndReallocation
  \/ StartExecute \/ FinishExecute \/ SkipWave \/ EnterWave \/ ReserveCommand
  \/ Raise \/ WaveSucceeds \/ WaveFails \/ BackendFault

Spec == Init /\ [][Next]_vars

-----------------------------------------------------------------------------
(* Properties.                                                               *)

(* The snapshots, and what a call in progress has in hand, keep their types. *)
TypeOK ==
  /\ fleet \in FleetSnapshot /\ working \in FleetSnapshot
  /\ pc \in {"idle", "wave", "reserve", "reallocate"}
  /\ remaining \in Seq(Seq(Command))
  /\ pc = "reserve" => remaining # <<>> /\ todo \in Seq(Command)
  /\ pc = "reallocate" => todo \in Seq(Lease)
  /\ pc \notin {"reserve", "reallocate"} => todo = <<>>
  /\ taken \subseteq LeaseIds
  /\ clock \in Nat /\ calls \in Nat
  /\ IF pc = "reallocate"
     THEN /\ fault.id \in FaultIds /\ fault.prior \in FleetSnapshot
          /\ \A i \in DOMAIN fault.asked : fault.asked[i] \in Request \cup {Nil}
     ELSE fault = Nil

Snapshots == {fleet, working}

(* No arm is leased twice and no region reserved twice at any one time, in   *)
(* no snapshot any sequence of calls comes to, whichever raised halfway.     *)
SnapshotsExclusive == \A f \in Snapshots : Exclusive(f)

(* No space outlives its lease, outgrows it or changes hands.                *)
SpacesBacked == \A f \in Snapshots : Backed(f)

(* No lease is held on an arm that is offline.                               *)
LeasesOnline == \A f \in Snapshots : LeasedAreOnline(f)

(* All three, of every snapshot.                                             *)
SnapshotsSound == SnapshotsExclusive /\ SpacesBacked /\ LeasesOnline

(* Between calls no lease and no space of any schedule is left behind,       *)
(* however its run ended: done, failed, raised, or faulted and reallocated.  *)
NothingLeaks ==
  Idle => \A x \in fleet.leases \cup fleet.spaces : x.owner \in Clients

(* While a wave moves, no two of its commands and no other holder use the    *)
(* same arm, and no two of its commands the same region.                     *)
WaveIsExclusive ==
  Executing => \A i, j \in DOMAIN Head(remaining) :
    LET c == Head(remaining)[i]
        d == Head(remaining)[j]
    IN  /\ i # j => c.arms \cap d.arms = {} /\ RegionsOf(c) \cap RegionsOf(d) = {}
        /\ \A l \in working.leases : l.owner \in Clients /\ l.from <= clock /\ clock < l.to =>
             l.arms \cap c.arms = {}

(* An executor's run, or a reported fault, takes nothing from other holders: *)
(* a lease survives it unless an arm of it went down.                        *)
OthersKeepLeases ==
  [][~Idle /\ Idle' =>
       \A l \in fleet.leases : l \in fleet'.leases \/ ~(l.arms \subseteq fleet'.online)]_vars

(* reallocate gives up on a lease it was given a request for only when it    *)
(* must: the replacement's name is taken (the same fault was reported        *)
(* before), or no free arms, as many as before, can do what is asked where   *)
(* it is asked.                                                              *)
GivesUpOnlyWhenForced ==
  [][pc = "reallocate" /\ todo # <<>> /\ working' = working /\ Asked(Head(todo)) =>
       LET l == Head(todo)
           request == fault.asked[l.id]
       IN  \/ \E m \in working.leases : m.id = Append(l.id, fault.id)
           \/ ~\E A \in SUBSET working.online :
                /\ Cardinality(A) = Cardinality(l.arms)
                /\ \A m \in working.leases : m.arms \cap A # {} => ~Overlap(l, m)
                /\ \A a \in A : Supports(working, a, request.capability,
                                         Needed(SpacesOf(l), request))]_vars
=============================================================================
