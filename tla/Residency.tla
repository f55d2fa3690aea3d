------------------------------ MODULE Residency ------------------------------
(* The residency slider (residency.py): the tier in which the reasoner's     *)
(* body is kept, chosen by available memory, with hysteresis on the way down,*)
(* forced eviction and validated restore, and the log of its changes.        *)
EXTENDS Naturals, Sequences

CONSTANTS Bytes,       \* body residency of the tiers, best first
          Envelopes,   \* memory that may be available
          Hysteresis,
          MaxChanges   \* bound on the log

ASSUME ResidencyAssumption ==
  /\ Bytes \in Seq(Nat) /\ \A i \in 1..(Len(Bytes) - 1) : Bytes[i] > Bytes[i + 1]
  /\ Envelopes \subseteq Nat /\ Hysteresis \in Nat /\ MaxChanges \in Nat

(* Tiers by falling fidelity: MXFP8, MXFP4, MXFP2, and last CORE_ONLY.       *)
MX == DOMAIN Bytes
CoreOnly == Len(Bytes) + 1

VARIABLES
  tier,       \* the current decision's state
  available,  \* the envelope on the books
  lineage,    \* graph_revision of the current decision
  changes     \* the transition log: [from, to, trigger]
slider == <<tier, available, lineage, changes>>

Fits(bytes) == {t \in MX : Bytes[t] <= bytes}
BestFit(bytes) == IF Fits(bytes) = {} THEN CoreOnly
                  ELSE CHOOSE t \in Fits(bytes) : \A u \in Fits(bytes) : t <= u

(* select_residency with the current tier: kept while memory has not fallen  *)
(* below it by more than the hysteresis.                                     *)
\* Mutant: the tier is kept relative to the one that would be chosen.
StaysNearChosen(bytes) ==
  BestFit(bytes) > tier /\ tier \in MX
    /\ BestFit(bytes) \in MX /\ Bytes[BestFit(bytes)] <= bytes + Hysteresis
Stays(bytes) == BestFit(bytes) > tier /\ tier \in MX /\ Bytes[tier] <= bytes + Hysteresis

Chosen(bytes) == IF Stays(bytes) THEN tier ELSE BestFit(bytes)

ApplyTier(t, trigger) ==
  /\ tier' = t
  /\ IF t = tier THEN UNCHANGED <<changes, lineage>>
     ELSE /\ changes' = Append(changes, [from |-> tier, to |-> t, trigger |-> trigger])
          /\ lineage' = lineage + 1

(* update_envelope, with whatever memory is reported.                        *)
UpdateEnvelope ==
  /\ Len(changes) < MaxChanges
  /\ \E bytes \in Envelopes :
       /\ available' = bytes
       /\ ApplyTier(Chosen(bytes), "memory_change")

(* admit_task: a novel task is held, and logged, when no body is resident.   *)
HoldNovelTask ==
  /\ tier = CoreOnly /\ Len(changes) < MaxChanges
  /\ changes' = Append(changes, [from |-> CoreOnly, to |-> CoreOnly, trigger |-> "novel_task"])
  /\ UNCHANGED <<tier, available, lineage>>

EvictReasoner ==
  /\ tier \in MX /\ Len(changes) < MaxChanges
  /\ available' = 0
  /\ ApplyTier(CoreOnly, "memory_change")

RestoreReasoner ==
  /\ tier = CoreOnly /\ Len(changes) < MaxChanges
  /\ \E bytes \in Envelopes :
       /\ BestFit(bytes) \in MX
       /\ available' = bytes
       /\ ApplyTier(BestFit(bytes), "restore")

ResidencyInit ==
  /\ \E bytes \in Envelopes : available = bytes /\ tier = BestFit(bytes)
  /\ lineage = 0 /\ changes = <<>>

ResidencyNext == UpdateEnvelope \/ HoldNovelTask \/ EvictReasoner \/ RestoreReasoner
ResidencySpec == ResidencyInit /\ [][ResidencyNext]_slider

------------------------------------------------------------------------------
(* What is resident never exceeds the available memory by more than the      *)
(* hysteresis, however memory came and went, evictions and restores between; *)
(* and the log leads from tier to tier up to the current one.                *)
BodyFits == tier \in MX => Bytes[tier] <= available + Hysteresis
LogLeads ==
  /\ \A i \in 1..(Len(changes) - 1) : changes[i].to = changes[i + 1].from
  /\ changes # <<>> => changes[Len(changes)].to = tier
SliderAccounted == BodyFits /\ LogLeads
=============================================================================
