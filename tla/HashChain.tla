------------------------------ MODULE HashChain ------------------------------
(***************************************************************************)
(* What an evidence manifest promises: a log that only grows, in which     *)
(* every run appears at most once and names the hash of the run before it. *)
(* A content hash covers the run and its parent's hash, hence all of the   *)
(* chain below: it is modelled as the sequence of the runs it covers.      *)
(***************************************************************************)
EXTENDS Naturals, Sequences

CONSTANT Runs

VARIABLE chain

Hashes  == Seq(Runs)
Genesis == <<>>
HashOf(parent, run) == Append(parent, run)

Entry == [run : Runs, parent : Hashes, hash : Hashes]

Tip(c) == IF c = <<>> THEN Genesis ELSE c[Len(c)].hash

Listed(c) == {c[i].run : i \in DOMAIN c}

Init == chain = <<>>

Extend(r) ==
  /\ r \notin Listed(chain)
  /\ chain' = Append(chain, [run |-> r, parent |-> Tip(chain), hash |-> HashOf(Tip(chain), r)])

Next == \E r \in Runs : Extend(r)

Spec == Init /\ [][Next]_chain
=============================================================================
