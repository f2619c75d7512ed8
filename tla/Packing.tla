------------------------------ MODULE Packing -------------------------------
(***************************************************************************)
(* Four-bit weights: pack_i4 and unpack_i4 (model/quantization/mod.rs) and *)
(* the layout Int4Linear keeps its weights in (model/quantization/int4.rs).*)
(* The floating-point scale of a group is represented by the row and group *)
(* it is stored for.                                                       *)
(***************************************************************************)
EXTENDS Integers, Sequences

DivCeil(n, d) == (n + d - 1) \div d
LowNibble(byte) == byte % 16
HighNibble(byte) == (byte \div 16) % 16

\* A slip: the last value of an odd number of values goes to the high nibble.
PackI4High(values) ==
  [i \in 1..DivCeil(Len(values), 2) |->
     IF 2 * i <= Len(values) THEN (values[2 * i - 1] % 16) + 16 * (values[2 * i] % 16)
                             ELSE 16 * (values[2 * i - 1] % 16)]

\* Two values to a byte, the first in the low nibble.
PackI4(values) ==
  [i \in 1..DivCeil(Len(values), 2) |->
     IF 2 * i <= Len(values) THEN (values[2 * i - 1] % 16) + 16 * (values[2 * i] % 16)
                             ELSE values[2 * i - 1] % 16]

\* The first num_values nibbles of the bytes, or all there are.
UnpackI4(packed, num_values) ==
  [k \in 1..(IF num_values <= 2 * Len(packed) THEN num_values ELSE 2 * Len(packed)) |->
     IF k % 2 = 1 THEN LowNibble(packed[(k + 1) \div 2]) ELSE HighNibble(packed[k \div 2])]

-----------------------------------------------------------------------------
(* Int4Linear: rows are output features, columns input features, counted   *)
(* from 0; values lists the quantized matrix row by row.                   *)

Failed == [ok |-> FALSE]

PackedColumns(in_features) == DivCeil(in_features, 2)

\* quantize packs the whole matrix at once, and Tensor::from_slice refuses
\* a shape that does not have as many bytes.
Quantize(out_features, in_features, group_size, values) ==
  LET packed == PackI4(values)
      columns == PackedColumns(in_features)
  IN IF Len(packed) # out_features * columns THEN Failed
     ELSE [ok |-> TRUE, rows |-> out_features, columns |-> columns, qweight |-> packed,
           group_size |-> group_size, num_groups |-> DivCeil(in_features, group_size)]

\* A weight no group reaches stays 0.
Untouched == [q |-> 0, group |-> <<>>]

\* unpack_weights takes the number of input features from the packed columns.
Unpack(layer) ==
  LET in_features == 2 * layer.columns
      qvalues == UnpackI4(layer.qweight, layer.rows * in_features)
      Reached(col) == col < layer.num_groups * layer.group_size
  IN [rows |-> layer.rows, columns |-> in_features,
      weight |-> [row \in 0..layer.rows - 1 |->
                    [col \in 0..in_features - 1 |->
                       IF Reached(col)
                         THEN [q |-> qvalues[row * in_features + col + 1],
                               group |-> <<row, col \div layer.group_size>>]
                         ELSE Untouched]]]

-----------------------------------------------------------------------------
(* AwqLinear (model/quantization/awq.rs): words of eight nibbles, a word   *)
(* being an i32.                                                           *)

\* The value of a one in nibble n.
Place == [n \in 0..7 |-> <<1, 16, 256, 4096, 65536, 1048576, 16777216, 268435456>>[n + 1]]

\* Nibble n of unpack_i32_word; the division rounds down, as a shift does.
WordNibble(word, n) == (word \div Place[n]) % 16

\* The i32 that holds eight nibbles (external: the files of a model).
AwqWord(v) ==
  v[0] + 16 * (v[1] + 16 * (v[2] + 16 * (v[3] + 16 * (v[4] + 16 * (v[5] + 16 * (v[6]
    + 16 * (IF v[7] < 8 THEN v[7] ELSE v[7] - 16)))))))

\* A slip: groups are counted in words.
GroupByWord(layer, col) ==
  IF layer.g_idx = <<>> THEN (col \div 8) \div layer.group_size ELSE layer.g_idx[col + 1]

\* From g_idx if the layer has one.
Group(layer, col) ==
  IF layer.g_idx = <<>> THEN col \div layer.group_size ELSE layer.g_idx[col + 1]

\* The indices into qzeros and scales; scales are numbered row by row.
ZeroIndex(layer, row, group) == row * (Len(layer.qzeros) \div layer.rows) + group \div 8
ScaleIndex(layer, row, group) == row * (layer.num_scales \div layer.rows) + group

\* An index behind the end panics.
InBounds(layer, row, group) ==
  /\ ScaleIndex(layer, row, group) < layer.num_scales
  /\ layer.qzeros # <<>> => ZeroIndex(layer, row, group) < Len(layer.qzeros)

\* unpack_weights
AwqUnpack(layer) ==
  LET columns == 8 * layer.words
      groups == layer.num_scales \div layer.rows
      Weight(row, col) ==
        LET g == Group(layer, col)
            scale == ScaleIndex(layer, row, g)
        IN [q |-> WordNibble(layer.qweight[row * layer.words + col \div 8 + 1], col % 8),
            zero |-> IF layer.qzeros = <<>> THEN 8
                     ELSE WordNibble(layer.qzeros[ZeroIndex(layer, row, g) + 1], g % 8),
            scale |-> <<scale \div groups, scale % groups>>]
  IN IF \A row \in 0..layer.rows - 1, col \in 0..columns - 1 : InBounds(layer, row, Group(layer, col))
       THEN [ok |-> TRUE,
             weight |-> [row \in 0..layer.rows - 1 |-> [col \in 0..columns - 1 |-> Weight(row, col)]]]
       ELSE Failed
=============================================================================
