---------------------------- MODULE QuantLayout -----------------------------
(***************************************************************************)
(* Quantised matrices: which bits of a block make each of its values        *)
(* (pkg/quant), how many bytes each table of the code thinks a matrix has    *)
(* (pkg/dtype, pkg/quant, pkg/exec, pkg/device/cuda, pkg/compute/matmul),     *)
(* and the parts of a tensor handed out as experts, fused projections or     *)
(* rows.                                                                     *)
(*                                                                         *)
(* Bits are numbered from the first of a block, bytes of a matrix from 0;    *)
(* a part is a record [from, to] of bytes, to excluded.  What is computed    *)
(* with the values is left out.                                              *)
(***************************************************************************)
EXTENDS Integers, Sequences, FiniteSetsExt

Bits(byte, from, n) == (8 * byte + from)..(8 * byte + from + n - 1)
Nibble(byte, high) == Bits(byte, 4 * high, 4)

(***************************************************************************)
(* The blocks.  quant: the bits of each value; sub: the bits of the scale   *)
(* and minimum of its group; head: the bits all values share.               *)
(***************************************************************************)
Flat(values) == [i \in 0..(values - 1) |-> {}]

Q4_0 == [values |-> 32, bytes |-> 2 + 16, head |-> Bits(0, 0, 16), sub |-> Flat(32),
         quant |-> [i \in 0..31 |-> Nibble(2 + (i \div 2), i % 2)]]
Q4_1 == [values |-> 32, bytes |-> 4 + 16, head |-> Bits(0, 0, 32), sub |-> Flat(32),
         quant |-> [i \in 0..31 |-> Nibble(4 + (i \div 2), i % 2)]]

\* The fifth bit: of the second half, shifted by 12, the bit 0x10 stays.
HighBit(qh, i) == IF i < 16 THEN Bits(qh, i, 1) ELSE Bits(qh, i - 16 + 12 + 4, 1)

Q5_0 == [values |-> 32, bytes |-> 2 + 4 + 16, head |-> Bits(0, 0, 16), sub |-> Flat(32),
         quant |-> [i \in 0..31 |-> Nibble(6 + (i % 16), i \div 16) \cup HighBit(2, i)]]
Q5_1 == [values |-> 32, bytes |-> 4 + 4 + 16, head |-> Bits(0, 0, 32), sub |-> Flat(32),
         quant |-> [i \in 0..31 |-> Nibble(8 + (i % 16), i \div 16) \cup HighBit(4, i)]]
Q8_0 == [values |-> 32, bytes |-> 2 + 32, head |-> Bits(0, 0, 16), sub |-> Flat(32),
         quant |-> [i \in 0..31 |-> Bits(2 + i, 0, 8)]]
\* The sums at the end are not read.
Q8_K == [values |-> 256, bytes |-> 292, head |-> Bits(0, 0, 32), sub |-> Flat(256),
         quant |-> [i \in 0..255 |-> Bits(4 + i, 0, 8)]]

\* Two bits of 32 bytes at a time, a scale and a minimum for sixteen values.
Q2_K == [values |-> 256, bytes |-> 84, head |-> Bits(80, 0, 32),
         sub |-> [i \in 0..255 |-> Bits(i \div 16, 0, 8)],
         quant |-> [i \in 0..255 |-> Bits(16 + 32 * (i \div 128) + (i % 32), 2 * ((i % 128) \div 32), 2)]]

\* Sixteen scales of six bits: four bits in a nibble, two in the last four bytes.
Q3KScale(scales, g) ==
  Nibble(scales + (g % 8), g \div 8) \cup Bits(scales + 8 + (g % 4), 2 * (g \div 4), 2)
Q3_K == [values |-> 256, bytes |-> 110, head |-> Bits(108, 0, 16),
         sub |-> [i \in 0..255 |-> Q3KScale(96, i \div 16)],
         quant |-> [i \in 0..255 |-> Bits(32 + 32 * (i \div 128) + (i % 32), 2 * ((i % 128) \div 32), 2)
                                     \cup Bits(i % 32, i \div 32, 1)]]

\* Eight scales and eight minima of six bits in twelve bytes.
ScaleMinK4(scales, j) ==
  IF j < 4 THEN Bits(scales + j, 0, 6) \cup Bits(scales + j + 4, 0, 6)
  ELSE Nibble(scales + j + 4, 0) \cup Bits(scales + j - 4, 6, 2) \cup Nibble(scales + j + 4, 1) \cup Bits(scales + j, 6, 2)
Q4_K == [values |-> 256, bytes |-> 144, head |-> Bits(0, 0, 32),
         sub |-> [i \in 0..255 |-> ScaleMinK4(4, i \div 32)],
         quant |-> [i \in 0..255 |-> Nibble(16 + 32 * (i \div 64) + (i % 32), (i % 64) \div 32)]]
Q5_K == [values |-> 256, bytes |-> 176, head |-> Bits(0, 0, 32),
         sub |-> [i \in 0..255 |-> ScaleMinK4(4, i \div 32)],
         quant |-> [i \in 0..255 |-> Nibble(48 + 32 * (i \div 64) + (i % 32), (i % 64) \div 32)
                                     \cup Bits(16 + (i % 32), i \div 32, 1)]]
Q6_K == [values |-> 256, bytes |-> 210, head |-> Bits(208, 0, 16),
         sub |-> [i \in 0..255 |-> Bits(192 + 8 * (i \div 128) + ((i % 32) \div 16) + 2 * ((i % 128) \div 32), 0, 8)],
         quant |-> [i \in 0..255 |->
                     Nibble(64 * (i \div 128) + (i % 64), (i % 128) \div 64)
                     \cup Bits(128 + 32 * (i \div 128) + (i % 32), 2 * ((i % 128) \div 32), 2)]]

Blocks == [q4_0 |-> Q4_0, q4_1 |-> Q4_1, q5_0 |-> Q5_0, q5_1 |-> Q5_1, q8_0 |-> Q8_0, q2_k |-> Q2_K,
           q3_k |-> Q3_K, q4_k |-> Q4_K, q5_k |-> Q5_K, q6_k |-> Q6_K, q8_k |-> Q8_K]
FusedQuantSupported(t) == t \in DOMAIN Blocks

(***************************************************************************)
(* Sizes                                                                    *)
(***************************************************************************)
\* dtype: values and bytes of a block, the only table the file format goes by.
FormatBlocks ==
  [f32 |-> <<1, 4>>, f16 |-> <<1, 2>>, int32 |-> <<1, 4>>, int16 |-> <<1, 2>>, int8 |-> <<1, 1>>,
   q4_0 |-> <<32, 2 + (32 \div 2)>>, q4_1 |-> <<32, 4 + (32 \div 2)>>, q5_0 |-> <<32, 2 + 4 + (32 \div 2)>>,
   q5_1 |-> <<32, 4 + 4 + (32 \div 2)>>, q8_0 |-> <<32, 2 + 32>>, q8_1 |-> <<32, 2 + 2 + 32>>,
   q2_k |-> <<256, (256 \div 16) + (256 \div 4) + 2 + 2>>, q3_k |-> <<256, (256 \div 8) + (256 \div 4) + 12 + 2>>,
   q4_k |-> <<256, 4 + 12 + (256 \div 2)>>, q5_k |-> <<256, 4 + 12 + (256 \div 8) + (256 \div 2)>>,
   q6_k |-> <<256, (256 \div 2) + (256 \div 4) + (256 \div 16) + 2>>, q8_k |-> <<256, 4 + 256 + 2 * (256 \div 16)>>]
DataSize(t, values) == (values \div FormatBlocks[t][1]) * FormatBlocks[t][2]

\* The bytes of a matrix cut by rows; -1 is an error.
QuantBytes(t, rows, cols) ==
  IF rows <= 0 \/ cols <= 0 \/ ~FusedQuantSupported(t) \/ cols % Blocks[t].values # 0 THEN -1
  ELSE rows * (cols \div Blocks[t].values) * Blocks[t].bytes
ExpertQuantBytes(t, rows, cols) == QuantBytes(t, rows, cols)

\* The cuda backend and the host products take a matrix that is long enough.
ValidateQuant(t, raw, rows, cols) == QuantBytes(t, rows, cols) # -1 /\ raw >= QuantBytes(t, rows, cols)
ValidateQuantMatMul(t, raw, rows, cols, vec) == FusedQuantSupported(t) /\ ValidateQuant(t, raw, rows, cols) /\ vec = cols

\* A tensor is turned into floats by whole blocks, the last may be cut.
DequantInto(t, raw, n) == raw >= ((n + Blocks[t].values - 1) \div Blocks[t].values) * Blocks[t].bytes
ToFloat32(t, raw, n) ==
  CASE t \in {"f32", "int32"} -> raw >= 4 * n
    [] t = "f16" -> raw >= 2 * n
    [] FusedQuantSupported(t) -> n = 0 \/ DequantInto(t, raw, n)
    [] OTHER -> FALSE

(***************************************************************************)
(* Parts: a set of at most one [from, to]                                   *)
(***************************************************************************)
Part(from, bytes) == [from |-> from, to |-> from + bytes]
Inside(from, bytes, raw) == IF bytes >= 0 /\ from >= 0 /\ from + bytes <= raw THEN {Part(from, bytes)} ELSE {}

\* Mutant: rows are counted by whole slices.
RowOffsetSliced(t, row0, rows, cols) == row0 * QuantBytes(t, rows, cols)
RowOffset(t, row0, rows, cols) == row0 * QuantBytes(t, 1, cols)

RowSlice(t, raw, row0, rows, cols) ==
  IF QuantBytes(t, rows, cols) = -1 THEN {} ELSE Inside(RowOffset(t, row0, rows, cols), QuantBytes(t, rows, cols), raw)
ExpertSlice(t, raw, expert, rows, cols) == RowSlice(t, raw, expert * rows, rows, cols)

\* The host's product with one expert.
MatMulExpertInto(t, raw, expert, rows, cols) ==
  IF ~FusedQuantSupported(t) THEN Inside(4 * expert * rows * cols, 4 * rows * cols, raw)
  ELSE IF ExpertQuantBytes(t, rows, cols) = -1 THEN {}
  ELSE Inside(expert * ExpertQuantBytes(t, rows, cols), ExpertQuantBytes(t, rows, cols), raw)

\* A row of the embedding table, a row of a product.
EmbeddingRow(t, raw, dim, token) ==
  IF dim % Blocks[t].values # 0 THEN {}
  ELSE LET rowBytes == (dim \div Blocks[t].values) * Blocks[t].bytes IN Inside(token * rowBytes, rowBytes, raw)
ProductRow(t, raw, rows, cols, r) ==
  IF cols % Blocks[t].values # 0 \/ raw < QuantBytes(t, rows, cols) THEN {}
  ELSE LET rowBytes == (cols \div Blocks[t].values) * Blocks[t].bytes IN {Part(r * rowBytes, rowBytes)}

\* Query, key and value of a fused projection, cut by the bytes of a row.
QKVFusedSlices(t, raw, qDim, kvDim) ==
  LET rows == qDim + 2 * kvDim
      perRow == raw \div rows
  IN  IF ~FusedQuantSupported(t) \/ rows <= 0 THEN <<>>
      ELSE IF raw % rows # 0 THEN <<>>
      ELSE <<Part(0, qDim * perRow), Part(qDim * perRow, kvDim * perRow), [from |-> (qDim + kvDim) * perRow, to |-> raw]>>
GateUpFusedSlices(t, raw, ffn) ==
  IF ~FusedQuantSupported(t) \/ ffn <= 0 THEN <<>>
  ELSE IF raw % (2 * ffn) # 0 THEN <<>>
  ELSE <<Part(0, raw \div 2), [from |-> raw \div 2, to |-> raw]>>
=============================================================================
