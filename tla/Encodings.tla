------------------------------ MODULE Encodings ------------------------------
(***************************************************************************)
(* The conversions between the browser, the circuits and the contract: the *)
(* scalars and hashes of packages/sdk (field.ts, poseidon.ts), the bytes   *)
(* of keys, proofs and signals (groth16.ts) that the contract takes apart  *)
(* by position, the transfer witness of note.ts, and the amounts people    *)
(* read and type (web/lib/config.ts).                                      *)
(*                                                                         *)
(* A behaviour is one conversion: an input, then what becomes of it.       *)
(* Text in base ten is the number it is; hex digits and the digits of a    *)
(* fraction are kept one by one, since they are padded and cut.  The sizes *)
(* are parameters that keep the order of the real ones.                    *)
(***************************************************************************)
EXTENDS Circuits, SequencesExt, FiniteSets

CONSTANTS
  HexBase,            \* 16; a byte is two digits
  Width,              \* 32, the bytes of a scalar
  PointWidth,         \* 48, those of a coordinate
  LenWidth,           \* 4, those of a length
  N_F, N_P,           \* 8 and 56 rounds of Poseidon
  POSEIDON_C(_, _),   \* the constants of a state size
  POSEIDON_M(_, _, _),
  Ten, Decimals,      \* 10 and 7
  Inputs,             \* the inputs that are converted
  None                \* not converted yet

VARIABLES input, output

vars == <<input, output>>

Base == HexBase * HexBase

Byte == 0 .. Base - 1

\* b ** n, and << 8n by bytes.
Pow(b, n) == LET p[k \in Nat] == IF k = 0 THEN 1 ELSE b * p[k - 1] IN p[n]

Coordinate == 0 .. Pow(Base, PointWidth) - 1
G1Points == Coordinate \X Coordinate
G2Points == G1Points \X G1Points

\* What each conversion is given: a digest or as many random bytes, points of
\* the curve, public signals of a proof, amounts; a note's value is one the
\* contract can hold, a payment is no less than the least amount i128 has.
InputTypes ==
  [kind : {"scalar"}, x : Int]
    \cup [kind : {"bytes"}, bytes : [1 .. Width -> Byte]]
    \cup [kind : {"hash"}, elements : Seq(Int)]
    \cup [kind : {"key"},
          key : [alpha : G1Points, beta : G2Points, gamma : G2Points,
                 delta : G2Points, ic : Seq(G1Points)]]
    \cup [kind : {"proof"}, proof : [a : G1Points, b : G2Points, c : G1Points]]
    \cup [kind : {"signals"}, signals : Seq(Field)]
    \cup [kind : {"amount"}, units : Nat]
    \cup [kind : {"typed"}, text : [whole : Nat, frac : Seq(0 .. Ten - 1)]]
    \cup [kind : {"payment"}, tree : Seq(Note), pay : {p \in Int : p >= -I128Max - 1},
          note : [nullifier : Nullifiers, value : 0 .. I128Max]]

EncodingsAssumption ==
  /\ HexBase \in Nat \ {0, 1} /\ Ten \in Nat \ {0, 1}
  /\ Width \in Nat \ {0} /\ {PointWidth, LenWidth, N_F, N_P, Decimals} \subseteq Nat
  /\ Pow(Base, Width - 1) <= FieldOrder /\ FieldOrder <= Pow(Base, Width)
  /\ N_F % 2 = 0
  /\ Inputs \subseteq InputTypes
  \* The number of points or signals fits its prefix.
  /\ \A in \in Inputs :
       /\ in.kind = "key" => Len(in.key.ic) < Pow(Base, LenWidth)
       /\ in.kind = "signals" => Len(in.signals) < Pow(Base, LenWidth)

\* The remainder of JavaScript, which has the sign of x.
JsRem(x, m) == IF x < 0 THEN -((-x) % m) ELSE x % m

fieldMod(x) ==
  LET r == JsRem(x, FieldOrder) IN IF r < 0 THEN r + FieldOrder ELSE r

\* toBytes32, fqBE, feBE and u32BE: big-endian, what does not fit is dropped.
ToBytes(v, width) == [i \in 1 .. width |-> (v \div Pow(Base, width - i)) % Base]

FromDigits(digits, base) ==
  LET value[k \in 0 .. Len(digits)] ==
        IF k = 0 THEN 0 ELSE value[k - 1] * base + digits[k]
  IN  value[Len(digits)]

FromBytes(bytes) == FromDigits(bytes, Base)

HexByte(b) == <<b \div HexBase, b % HexBase>>

ToHex(bytes) == FlattenSeq([i \in DOMAIN bytes |-> HexByte(bytes[i])])

\* hexToBytes of stellar.ts.
HexToBytes(hex) ==
  [i \in 1 .. Len(hex) \div 2 |-> hex[2 * i - 1] * HexBase + hex[2 * i]]

\* The contract's reading of BytesN<32> as a field element.
FrFromBytes(bytes) == FromBytes(bytes) % FieldOrder

toHex32(x) == ToHex(ToBytes(fieldMod(x), Width))

fromHex(hex) == FromDigits(hex, HexBase)

-----------------------------------------------------------------------------
(* Addresses, random elements and scopes; a digest is any bytes.           *)

\* Fault: the first byte of the digest is left.
AddressToFieldWhole(digest) == FromBytes(digest)

AddressToField(digest) == FromBytes([digest EXCEPT ![1] = 0])

\* address_to_fr of the contract.
AddressToFr(digest) == FrFromBytes([digest EXCEPT ![1] = 0])

\* Width - 1 bytes from getRandomValues.
RandomField(bytes) == FromBytes(Tail(bytes))

\* The first bytes of the scope, to the right.
ScopeToField(bytes) ==
  LET cut == SubSeq(bytes, 1, Width - 1)
  IN  FromBytes([i \in 1 .. Width - Len(cut) |-> 0] \o cut)

-----------------------------------------------------------------------------
(* Poseidon.                                                               *)

pow5(x) == LET x4 == (((x * x) % FieldOrder) * ((x * x) % FieldOrder)) % FieldOrder
           IN  (x4 * x) % FieldOrder

IsFull(i) == i < N_F \div 2 \/ i >= N_F \div 2 + N_P

\* One round: constants, S-box on all lanes or the first, and the matrix.
Round(state, i, full) ==
  LET t == Len(state)
      keyed == [j \in 1 .. t |->
                  (state[j] + POSEIDON_C(t, i * t + j - 1)) % FieldOrder]
      boxed == [j \in 1 .. t |-> IF full \/ j = 1 THEN pow5(keyed[j]) ELSE keyed[j]]
      row(r) == FoldLeft(LAMBDA acc, c : (acc + boxed[c] * POSEIDON_M(t, r, c)) % FieldOrder,
                         0, [c \in 1 .. t |-> c])
  IN  FoldLeft(LAMBDA next, r : Append(next, row(r)), << >>, [r \in 1 .. t |-> r])

\* The state before round to, that before round from being given.
Rounds(state, from, to, full) ==
  LET before[i \in from .. to] ==
        IF i = from THEN state ELSE Round(before[i - 1], i - 1, i - 1 \in full)
  IN  before[to]

AllRounds == 0 .. N_F + N_P - 1

\* A capacity of zero, then the inputs.
InitialState(inputs) == <<0>> \o [i \in DOMAIN inputs |-> fieldMod(inputs[i])]

poseidon(inputs) ==
  Rounds(InitialState(inputs), 0, N_F + N_P, {i \in AllRounds : IsFull(i)})[1]

\* Reference, as poseidon255.circom counts its S-boxes: half of the N_F full
\* rounds, the N_P partial ones, the other half.
HadesPhases(inputs) ==
  LET first  == Rounds(InitialState(inputs), 0, N_F \div 2, AllRounds)
      second == Rounds(first, N_F \div 2, N_F \div 2 + N_P, {})
  IN  Rounds(second, N_F \div 2 + N_P, N_F + N_P, AllRounds)[1]

-----------------------------------------------------------------------------
(* groth16.ts, and the parser of the contract (libs/groth16).  A G2 point  *)
(* is <<<<x.c0, x.c1>>, <<y.c0, y.c1>>>>, as snarkjs prints it.            *)

fqBE(v) == ToBytes(v, PointWidth)

g1(p) == fqBE(p[1]) \o fqBE(p[2])

\* Fault: x.c0, x.c1, y.c0, y.c1, which the comment above the file says.
g2AsPrinted(p) == fqBE(p[1][1]) \o fqBE(p[1][2]) \o fqBE(p[2][1]) \o fqBE(p[2][2])

g2(p) == fqBE(p[1][2]) \o fqBE(p[1][1]) \o fqBE(p[2][2]) \o fqBE(p[2][1])

vkToHex(vk) ==
  ToHex(g1(vk.alpha) \o g2(vk.beta) \o g2(vk.gamma) \o g2(vk.delta)
          \o ToBytes(Len(vk.ic), LenWidth)
          \o FlattenSeq([i \in DOMAIN vk.ic |-> g1(vk.ic[i])]))

proofToHex(proof) == ToHex(g1(proof.a) \o g2(proof.b) \o g1(proof.c))

publicSignalsToHex(signals) ==
  ToHex(ToBytes(Len(signals), LenWidth)
          \o FlattenSeq([i \in DOMAIN signals |-> ToBytes(signals[i], Width)]))

G1Size == 2 * PointWidth
G2Size == 4 * PointWidth

\* take: n bytes from a position.
Take(bytes, pos, n) == SubSeq(bytes, pos + 1, pos + n)

\* The host reads the coefficient c1 of a coordinate first.
HostG1(b) ==
  << FromBytes(Take(b, 0, PointWidth)), FromBytes(Take(b, PointWidth, PointWidth)) >>

HostG2(b) ==
  LET at(k) == FromBytes(Take(b, k * PointWidth, PointWidth))
  IN  << <<at(1), at(0)>>, <<at(3), at(2)>> >>

VkFromBytes(b) ==
  LET ics == G1Size + 3 * G2Size
      icLen == FromBytes(Take(b, ics, LenWidth))
  IN  [alpha |-> HostG1(Take(b, 0, G1Size)),
       beta  |-> HostG2(Take(b, G1Size, G2Size)),
       gamma |-> HostG2(Take(b, G1Size + G2Size, G2Size)),
       delta |-> HostG2(Take(b, G1Size + 2 * G2Size, G2Size)),
       ic |-> [i \in 1 .. icLen |->
                 HostG1(Take(b, ics + LenWidth + (i - 1) * G1Size, G1Size))]]

ProofFromBytes(b) ==
  [a |-> HostG1(Take(b, 0, G1Size)),
   b |-> HostG2(Take(b, G1Size, G2Size)),
   c |-> HostG1(Take(b, G1Size + G2Size, G1Size))]

SignalsFromBytes(b) ==
  [i \in 1 .. FromBytes(Take(b, 0, LenWidth)) |->
     FrFromBytes(Take(b, LenWidth + (i - 1) * Width, Width))]

-----------------------------------------------------------------------------
(* config.ts.  An amount on the screen is its whole part and the digits    *)
(* behind the point.                                                       *)

\* toString and padStart of a fraction: its digits, leading zeros included.
Padded(v) == [i \in 1 .. Decimals |-> (v \div Pow(Ten, Decimals - i)) % Ten]

\* Fault: no padStart.
FracUnpadded(v) ==
  LET leading == {i \in 1 .. Decimals : \A j \in 1 .. i : Padded(v)[j] = 0}
  IN  SubSeq(Padded(v), Cardinality(leading) + 1, Decimals)

Frac(v) == Padded(v)

\* replace(/0+$/, "").
Stripped(digits) ==
  SubSeq(digits, 1, SelectLastInSeq(digits, LAMBDA d : d # 0))

formatAmount(units) ==
  [whole |-> units \div Pow(Ten, Decimals), frac |-> Stripped(Frac(units % Pow(Ten, Decimals)))]

parseAmount(text) ==
  LET zeros == [i \in 1 .. Decimals |-> 0]
  IN  text.whole * Pow(Ten, Decimals)
        + FromDigits(SubSeq(text.frac \o zeros, 1, Decimals), Ten)

-----------------------------------------------------------------------------
(* buildTransferWitness: a note of the tree, or not, and what is paid.     *)

Refused == [refused |-> TRUE]

\* Fault: the change is not looked at.
TransferWitnessUnchecked(note, tree, pay) ==
  IF ~Contains(tree, note) THEN Refused
  ELSE [inValue |-> fieldMod(note.value), outValue0 |-> fieldMod(pay),
        outValue1 |-> fieldMod(note.value - pay)]

TransferWitness(note, tree, pay) ==
  IF ~Contains(tree, note) \/ note.value - pay < 0 THEN Refused
  ELSE [inValue |-> fieldMod(note.value), outValue0 |-> fieldMod(pay),
        outValue1 |-> fieldMod(note.value - pay)]

\* The public signals of a proof from that witness.
WitnessSignals(note, tree, witness) ==
  [nullifierHash |-> note.nullifier, stateRoot |-> tree,
   out0 |-> [nullifier |-> note.nullifier, value |-> witness.outValue0],
   out1 |-> [nullifier |-> note.nullifier, value |-> witness.outValue1]]

-----------------------------------------------------------------------------

Converted(in) ==
  CASE in.kind = "scalar"  -> toHex32(in.x)
    [] in.kind = "bytes"   -> <<AddressToField(in.bytes), RandomField(in.bytes),
                                ScopeToField(in.bytes)>>
    [] in.kind = "hash"    -> poseidon(in.elements)
    [] in.kind = "key"     -> vkToHex(in.key)
    [] in.kind = "proof"   -> proofToHex(in.proof)
    [] in.kind = "signals" -> publicSignalsToHex(in.signals)
    [] in.kind = "amount"  -> formatAmount(in.units)
    [] in.kind = "typed"   -> parseAmount(in.text)
    [] in.kind = "payment" -> TransferWitness(in.note, in.tree, in.pay)

Init == input \in Inputs /\ output = None

Convert ==
  /\ output = None
  /\ output' = Converted(input)
  /\ UNCHANGED input

Next == Convert

Spec == Init /\ [][Next]_vars

-----------------------------------------------------------------------------

Done(kind) == output # None /\ input.kind = kind

(***************************************************************************)
(* Browser, circuits and contract mean the same by a number: any integer   *)
(* comes back from hex, or from the contract, as its residue; what is made *)
(* of an address, of random bytes or of a scope is a field element as it   *)
(* stands, and for the recipient the very one the contract computes; a     *)
(* hash has the rounds of the circuit in its order.                        *)
(***************************************************************************)
LanguagesAgree ==
  /\ Done("scalar") =>
       /\ Len(output) = 2 * Width
       /\ fromHex(output) = input.x % FieldOrder
       /\ FrFromBytes(HexToBytes(output)) = input.x % FieldOrder
  /\ Done("bytes") =>
       /\ \A x \in ToSet(output) : x \in Field
       /\ output[1] = AddressToFr(input.bytes)
  /\ Done("hash") => output = HadesPhases(input.elements)

(***************************************************************************)
(* The contract takes from the bytes of a key, a proof or the signals what *)
(* snarkjs printed: every point at its place, with the coefficients of G2  *)
(* not swapped, and as many points and signals as were put in.             *)
(***************************************************************************)
WireIsParsed ==
  /\ Done("key") => VkFromBytes(HexToBytes(output)) = input.key
  /\ Done("proof") => ProofFromBytes(HexToBytes(output)) = input.proof
  /\ Done("signals") => SignalsFromBytes(HexToBytes(output)) = input.signals

(***************************************************************************)
(* An amount that is shown and typed in again is the same to the last      *)
(* unit, and one typed with more digits than the asset has is cut, never   *)
(* rounded up to units one may not have.                                   *)
(***************************************************************************)
AmountsRoundTrip ==
  /\ Done("amount") => parseAmount(output) = input.units
  /\ Done("typed") =>
       LET scale == Pow(Ten, Len(input.text.frac))
           typed == (input.text.whole * scale + FromDigits(input.text.frac, Ten))
                      * Pow(Ten, Decimals)
       IN  output * scale <= typed /\ typed < (output + 1) * scale

(***************************************************************************)
(* A transfer witness is built just for what the note can pay, and then    *)
(* the circuit accepts it and both outputs can be withdrawn; the one it    *)
(* does not accept is of a negative payment, which would make change out   *)
(* of nothing.                                                             *)
(***************************************************************************)
TransferIsProvable ==
  Done("payment") =>
    /\ (output = Refused) <=>
         ~Contains(input.tree, input.note) \/ input.pay > input.note.value
    /\ output # Refused =>
         /\ TransferCircuit(WitnessSignals(input.note, input.tree, output))
              <=> input.pay >= 0
         /\ input.pay >= 0 =>
              output.outValue0 <= I128Max /\ output.outValue1 <= I128Max
=============================================================================
