--------------------------- MODULE PackedTraining -----------------------------
(* Fine-tuning with a packed master (perception/finetune.py --w-master       *)
(* mxfp8): the MXFP8 payload and scales are the weights, the floating-point  *)
(* parameters a view of them, selected convolutions keep an MXFP4 copy, and  *)
(* checkpoints and packages carry the weights from one process to the next.  *)
(* First the block formats, with the programs that read and write them: the  *)
(* codec and packager (numpy), the optimizer and the packed convolution      *)
(* (torch), and the loader shipped with a package.  A weight is an integer,  *)
(* in units of the smallest MXFP8 magnitude under the smallest scale a block *)
(* can get; zero has no sign and non-finite weights are left out.            *)
EXTENDS Integers, Sequences
LOCAL INSTANCE FiniteSetsExt
LOCAL INSTANCE SequencesExt

CONSTANTS
  BlockSize, \* weights that share a scale
  TopScale,  \* the largest scale code
  Tensors,    \* the parameters, as the state dict lists them: a sequence
  Origins,    \* what a run can begin with: weights, functions from the
              \* parameters, and a count
  Selected,   \* parameters of convolutions with an MXFP4 copy
  Decaying,   \* parameters with weight decay
  Gradients,  \* gradients: functions from the parameters, Absent without one
  Rate, DecayBy, \* learning rate in units; a decay takes the DecayBy-th part
  Beta,       \* tenths of the momentum kept
  MaxUpdates, MaxPackages, \* bounds
  Absent

ASSUME CodecAssumption == BlockSize \in Nat \ {0} /\ TopScale \in Nat \ {0}

VARIABLES
  live,       \* a training process is up
  view,       \* the floating-point parameters
  master,     \* optimizer state: payload and scales of each parameter
  momentum,
  copy,       \* the MXFP4 payloads of the selected convolutions
  loaded,     \* optimizer state was loaded and no step made since
  average,    \* the trainer's moving average of the parameters, with an integer
              \* buffer: a batch normalization's num_batches_tracked
  checkpoint, \* last.pt
  npz,        \* the packed master on disk
  updates, packages \* counters of the bounds
training == <<live, view, master, momentum, copy, loaded, average, checkpoint, npz, updates, packages>>

(* ------------------------------- formats --------------------------------- *)

Form == [mxfp8 |-> [mantissa |-> 3, top |-> 126, unit |-> 1, minus |-> 128],
         mxfp4 |-> [mantissa |-> 1, top |-> 7, unit |-> 256, minus |-> 8]]

(* The magnitudes of a format, by code: as many steps in every octave.       *)
Ladder == [f \in DOMAIN Form |->
  LET steps == 2 ^ Form[f].mantissa IN
  [c \in 0..Form[f].top |->
     Form[f].unit * (IF c < steps THEN c ELSE (steps + (c % steps)) * 2 ^ (c \div steps - 1))]]
Largest(f) == Ladder[f][Form[f].top]
Extent(v) == IF v < 0 THEN -v ELSE v

(* scale_codec: the least power of two that brings the block under the       *)
(* largest magnitude; an applied scale never falls below the floor.          *)
EncodeScale(f, amax) ==
  LET fits == {k \in 1..TopScale : amax <= Largest(f) * 2 ^ (k - 1)}
  IN  IF amax = 0 THEN 0 ELSE IF fits = {} THEN TopScale ELSE Min(fits)
SafeScale(code) == IF code = 0 THEN 1 ELSE 2 ^ (code - 1)

(* Round to nearest.  `above` is the first magnitude not below v.            *)
Above(f, v, s) ==
  CHOOSE c \in 1..Form[f].top : Extent(v) <= Ladder[f][c] * s
                              /\ (c = 1 \/ Extent(v) > Ladder[f][c - 1] * s)
Rounded(f, v, s, tieUp) ==
  LET above == Above(f, v, s)
      twice == 2 * Extent(v)
      middle == (Ladder[f][above - 1] + Ladder[f][above]) * s
  IN  IF Extent(v) >= Largest(f) * s THEN Form[f].top
      ELSE IF twice > middle \/ (twice = middle /\ tieUp) THEN above ELSE above - 1
Signed(f, v, code) == IF v < 0 THEN code + Form[f].minus ELSE code

(* Each writer says in its own words that a tie goes to the even code.       *)
LowerIsOdd(f, v, s) == (Above(f, v, s) - 1) % 2 = 1
UpperIsEven(f, v, s) == Above(f, v, s) % 2 = 0
CodecByte(v, s) == Signed("mxfp8", v, Rounded("mxfp8", v, s, LowerIsOdd("mxfp8", v, s)))
OptimizerByte(v, s) == Signed("mxfp8", v, Rounded("mxfp8", v, s, LowerIsOdd("mxfp8", v, s)))
CodecNibble(v, s) == Signed("mxfp4", v, Rounded("mxfp4", v, s, UpperIsEven("mxfp4", v, s)))
ConvNibble(v, s) == Signed("mxfp4", v, Rounded("mxfp4", v, s, UpperIsEven("mxfp4", v, s)))

(* The packer's fast path, on the bits of the float: the exponent is shifted *)
(* by the block's, three bits of the mantissa are kept, half of what is cut  *)
(* off less one and the last bit kept are added first; below the smallest    *)
(* normal magnitude the quotient is rounded to even, and a block at the      *)
(* floor is left to the codec.                                               *)
FloatBits(m) == LET e == Max({k \in 0..23 : 2 ^ k <= m}) IN e * 2 ^ 23 + (m - 2 ^ e) * 2 ^ (23 - e)
NormalCode(m, k) ==
  (FloatBits(m) - (k + 2) * 2 ^ 23 + 2 ^ 19 - 1 + ((FloatBits(m) \div 2 ^ 20) % 2)) \div 2 ^ 20
SubnormalCode(m, k) ==
  LET q == m \div 2 ^ k
      twice == 2 * (m % 2 ^ k)
  IN  IF twice > 2 ^ k \/ (twice = 2 ^ k /\ q % 2 = 1) THEN q + 1 ELSE q
FastByte(v, code) ==
  LET k == code - 1
  IN  IF code <= 1 THEN CodecByte(v, SafeScale(code))
      ELSE Signed("mxfp8", v, IF Extent(v) < 2 ^ (k + 3) THEN SubnormalCode(Extent(v), k)
                              ELSE NormalCode(Extent(v), k))

(* ------------------------------- tensors --------------------------------- *)

BlockOf(i) == (i - 1) \div BlockSize + 1
BlockCount(n) == (n + BlockSize - 1) \div BlockSize
Scales(f, t) ==
  [b \in 1..BlockCount(Len(t)) |->
     EncodeScale(f, Max({Extent(t[i]) : i \in {j \in DOMAIN t : BlockOf(j) = b}}))]
ScaleAt(f, t, i) == SafeScale(Scales(f, t)[BlockOf(i)])

(* Two codes to a byte, the first one low; an odd one out is filled up.      *)
PackNibbles(codes) ==
  [i \in 1..((Len(codes) + 1) \div 2) |->
     codes[2 * i - 1] + 16 * (IF 2 * i <= Len(codes) THEN codes[2 * i] ELSE 0)]
UnpackNibbles(payload, n) ==
  [i \in 1..n |-> IF i % 2 = 1 THEN payload[(i + 1) \div 2] % 16 ELSE payload[i \div 2] \div 16]

Unpacked(f, code) ==
  IF code >= Form[f].minus THEN -Ladder[f][code - Form[f].minus] ELSE Ladder[f][code]
DecodePayload(f, payload, scales, n) ==
  LET codes == IF f = "mxfp4" THEN UnpackNibbles(payload, n) ELSE payload
  IN  [i \in 1..n |-> Unpacked(f, codes[i]) * SafeScale(scales[BlockOf(i)])]

RnePack(t) ==
  LET scales == Scales("mxfp8", t)
  IN  [payload |-> [i \in DOMAIN t |-> FastByte(t[i], scales[BlockOf(i)])], scales |-> scales]

(* quantize_tensor; the optimizer's pack_mxfp8; the convolution's pack_mxfp4. *)
QuantizeTensor(f, t) ==
  [payload |-> IF f = "mxfp8" THEN [i \in DOMAIN t |-> CodecByte(t[i], ScaleAt(f, t, i))]
               ELSE PackNibbles([i \in DOMAIN t |-> CodecNibble(t[i], ScaleAt(f, t, i))]),
   scales |-> Scales(f, t)]
PackMxfp8(t) ==
  [payload |-> [i \in DOMAIN t |-> OptimizerByte(t[i], ScaleAt("mxfp8", t, i))],
   scales |-> Scales("mxfp8", t)]
DecodeMxfp8(p) == DecodePayload("mxfp8", p.payload, p.scales, Len(p.payload))
PackMxfp4(t) ==
  [payload |-> PackNibbles([i \in DOMAIN t |-> ConvNibble(t[i], ScaleAt("mxfp4", t, i))]),
   scales |-> Scales("mxfp4", t)]

(* ------------------------------- weights --------------------------------- *)

Params == Range(Tensors)
Zeros(w) == [p \in Params |-> [i \in DOMAIN w[p] |-> 0]]
Packed(w) == [p \in Params |-> PackMxfp8(w[p])]
Decoded(m) == [p \in Params |-> DecodeMxfp8(m[p])]
Copies(w) == [p \in Selected |-> PackMxfp4(w[p])]

(* ------------------------------- packages -------------------------------- *)

(* One file: the payloads of all tensors behind each other, the same for the *)
(* scales, and for every tensor where its own begin and how long they are.   *)
(* The integer buffer goes in as it is.                                      *)
TensorEntry(name, p, size, payload, scales) ==
  [name |-> name, size |-> size, payloadOff |-> Len(payload), payloadLen |-> Len(p.payload),
   scalesOff |-> Len(scales), scalesLen |-> Len(p.scales)]
Package(f, w, count) ==
  LET Add(name, file) ==
        LET p == QuantizeTensor(f, w[name])
        IN  [file EXCEPT !.entries = Append(@, TensorEntry(name, p, Len(w[name]), file.payload, file.scales)),
                         !.payload = @ \o p.payload, !.scales = @ \o p.scales]
      raw == [payload |-> <<count>>, scales |-> <<>>]
      tensors == FoldRight(Add, Reverse(Tensors),
                           [format |-> f, entries |-> <<>>, payload |-> <<>>, scales |-> <<>>])
  IN  [tensors EXCEPT !.entries = Append(@, TensorEntry("count", raw, 1, tensors.payload, tensors.scales)),
                      !.payload = @ \o raw.payload]

SliceOf(s, off, n) == SubSeq(s, off + 1, off + n)
LoadedEntry(file, e) ==
  LET payload == SliceOf(file.payload, e.payloadOff, e.payloadLen)
      scales == SliceOf(file.scales, e.scalesOff, e.scalesLen)
  IN  IF e.name = "count" THEN payload ELSE DecodePayload(file.format, payload, scales, e.size)
EntryNamed(file, name) == CHOOSE e \in Range(file.entries) : e.name = name
DecodeNpz(file) == [p \in Params |-> LoadedEntry(file, EntryNamed(file, p))]
CountIn(file) == Head(LoadedEntry(file, EntryNamed(file, "count")))

(* -------------------------------- training ------------------------------- *)

(* The library the trainer comes from is external (ultralytics >= 8.3).  It  *)
(* keeps a moving average of the parameters, of floating-point ones only,    *)
(* and saves that in half precision, and nothing as "model"; what is         *)
(* packaged is the file its strip_optimizer makes, where the average is      *)
(* "model".  Half a number keeps eleven bits, ties to even; the unit is      *)
(* taken for its smallest.                                                   *)
Half(v) ==
  LET u == 2 ^ Min({k \in 0..12 : Extent(v) < 2 ^ (k + 11)})
      q == Extent(v) \div u
      twice == 2 * (Extent(v) % u)
      kept == u * (IF twice > u \/ (twice = u /\ q % 2 = 1) THEN q + 1 ELSE q)
  IN  IF v < 0 THEN -kept ELSE kept
InHalf(a) ==
  [a EXCEPT !.weights = [p \in Params |-> [i \in DOMAIN @[p] |-> Half(@[p][i])]]]
(* Half of the way to the parameters stands for any decay.                   *)
Follow(a, w) ==
  [a EXCEPT !.weights = [p \in Params |-> [i \in DOMAIN w[p] |-> (@[p][i] + w[p][i]) \div 2]]]

(* build_model: the weights begun with, those of a checkpoint, or the packed *)
(* master if its format is the one trained in (check_master_format_contract).*)
Bases == Origins \cup (IF checkpoint # Absent THEN {checkpoint.average} ELSE {})
         \cup IF npz # Absent /\ npz.file.format = "mxfp8"
              THEN {[weights |-> DecodeNpz(npz.file), count |-> CountIn(npz.file)]} ELSE {}

(* build_optimizer: packs what it is given, projects the parameters onto it  *)
(* and brings the copies up to date.  The average begins before.             *)
Start ==
  /\ ~live /\ live' = TRUE
  /\ \E base \in Bases :
       /\ master' = Packed(base.weights) /\ view' = Decoded(master')
       /\ momentum' = Zeros(base.weights) /\ average' = base
  /\ copy' = Copies(view') /\ loaded' = FALSE
  /\ UNCHANGED <<checkpoint, npz, updates, packages>>

(* A run resumed: the same, on the base; then the trainer loads the          *)
(* optimizer's state, which replaces master and view, but not the copies,    *)
(* and the average.                                                          *)
Resume ==
  /\ ~live /\ checkpoint # Absent /\ live' = TRUE
  /\ master' = checkpoint.master /\ momentum' = checkpoint.momentum
  /\ view' = Decoded(master')
  /\ \E base \in Bases : copy' = Copies(Decoded(Packed(base.weights)))
  /\ average' = checkpoint.average /\ loaded' = TRUE
  /\ UNCHANGED <<checkpoint, npz, updates, packages>>

(* PackedMXFP8Lion.step, for every parameter with a gradient.                *)
Direction(m, g) == LET d == Beta * m + (10 - Beta) * g
                   IN  IF d > 0 THEN 1 ELSE IF d < 0 THEN -1 ELSE 0
Lion(p, w, m, g) ==
  [i \in DOMAIN w |->
     w[i] - Rate * Direction(m[i], g[i]) - (IF p \in Decaying THEN w[i] \div DecayBy ELSE 0)]
\* Mutant: the view keeps what the update says, not what was stored.
ViewUnrounded(g, packed) ==
  [p \in Params |-> IF g[p] = Absent THEN view[p] ELSE Lion(p, view[p], momentum[p], g[p])]
ViewOf(g, packed) ==
  [p \in Params |-> IF g[p] = Absent THEN view[p] ELSE DecodeMxfp8(packed[p])]

Update ==
  /\ live /\ updates < MaxUpdates /\ updates' = updates + 1
  /\ \E g \in Gradients :
       /\ master' = [p \in Params |-> IF g[p] = Absent THEN master[p]
                       ELSE PackMxfp8(Lion(p, DecodeMxfp8(master[p]), momentum[p], g[p]))]
       /\ momentum' = [p \in Params |-> IF g[p] = Absent THEN momentum[p]
                         ELSE [i \in DOMAIN momentum[p] |-> (Beta * momentum[p][i] + (10 - Beta) * g[p][i]) \div 10]]
       /\ view' = ViewOf(g, master')
  /\ copy' = Copies(view') /\ loaded' = FALSE /\ average' = Follow(average, view')
  /\ UNCHANGED <<live, checkpoint, npz, packages>>

Save ==
  /\ live
  /\ checkpoint' = [average |-> InHalf(average), master |-> master, momentum |-> momentum]
  /\ UNCHANGED <<live, view, master, momentum, copy, loaded, average, npz, updates, packages>>

(* The process ends, or is killed.                                           *)
EndTraining ==
  /\ live /\ live' = FALSE
  /\ view' = Absent /\ master' = Absent /\ momentum' = Absent /\ copy' = Absent
  /\ loaded' = FALSE /\ average' = Absent
  /\ UNCHANGED <<checkpoint, npz, updates, packages>>

(* package_quant_weights on a stripped checkpoint; `of` is what went in.     *)
MakePackage ==
  /\ checkpoint # Absent /\ packages < MaxPackages /\ packages' = packages + 1
  /\ \E f \in DOMAIN Form :
       npz' = [file |-> Package(f, checkpoint.average.weights, checkpoint.average.count),
               of |-> checkpoint.average]
  /\ UNCHANGED <<live, view, master, momentum, copy, loaded, average, checkpoint, updates>>

TrainingInit ==
  /\ live = FALSE /\ view = Absent /\ master = Absent /\ momentum = Absent /\ copy = Absent
  /\ loaded = FALSE /\ average = Absent /\ checkpoint = Absent /\ npz = Absent
  /\ updates = 0 /\ packages = 0
TrainingNext == Start \/ Resume \/ Update \/ Save \/ EndTraining \/ MakePackage
TrainingSpec == TrainingInit /\ [][TrainingNext]_training

(* ------------------------------- properties ------------------------------ *)

(* The packed master is the weights.  What the network computes with says    *)
(* what the master says, packing it once more changes nothing, and the MXFP4 *)
(* copies are copies of it (but for the batch after a resume); the packager's*)
(* fast path would store every update as the optimizer does; and the codec's *)
(* MXFP8 package of a checkpoint, read by the shipped loader, gives the      *)
(* weights the optimizer would begin with, tensor for tensor, and its count. *)
MasterRules ==
  /\ live => /\ view = Decoded(master) /\ view = Decoded(Packed(view))
             /\ ~loaded => copy = Copies(view)
             /\ \A g \in Gradients : \A p \in {q \in Params : g[q] # Absent} :
                  LET w == Lion(p, view[p], momentum[p], g[p]) IN RnePack(w) = PackMxfp8(w)
  /\ npz # Absent =>
       /\ CountIn(npz.file) = npz.of.count
       /\ npz.file.format = "mxfp8" => DecodeNpz(npz.file) = Decoded(Packed(npz.of.weights))
==============================================================================
