------------------------------ MODULE GGUFFile ------------------------------
(***************************************************************************)
(* pkg/format and pkg/weights: a GGUF file is opened, its metadata and       *)
(* tensor list are read, and the bytes of a tensor are taken from the        *)
(* mapping or copied from the file.                                          *)
(*                                                                         *)
(* A file is the sequence of its bytes, positions count the bytes before.    *)
(* Numbers from Huge on are one value: they only ever fail.  Signed numbers  *)
(* and floats are kept as their bits, keys and names are byte sequences, and *)
(* the key general.alignment is the single byte of AlignmentKey.             *)
(***************************************************************************)
EXTENDS Integers, Sequences, SequencesExt

Huge == 2 ^ 22
AlignmentKey == <<65>>
DefaultAlignment == 32
Magic == <<71, 71, 85, 70>>
White == {9, 10, 13, 32}

Bool == 7
String == 8
Array == 9
Uint32 == 4
Uint64 == 10
\* The bytes of a scalar by the number of its type.
Width == [t \in {0, 1, 7} |-> 1] @@ [t \in {2, 3} |-> 2] @@ [t \in {4, 5, 6} |-> 4] @@ [t \in {10, 11, 12} |-> 8]

Number(order, bytes) ==
  LET place(i) == IF order = "little" THEN i ELSE Len(bytes) + 1 - i
      v[i \in 1..(Len(bytes) + 1)] ==
        IF i > Len(bytes) THEN 0
        ELSE LET high == v[i + 1] IN IF 256 * high >= Huge THEN Huge ELSE Min({Huge, 256 * high + bytes[place(i)]})
  IN  v[1]

(***************************************************************************)
(* Reading: [ok, pos, value]                                                *)
(***************************************************************************)
Fail == [ok |-> FALSE, pos |-> 0, value |-> <<>>]
Got(pos, value) == [ok |-> TRUE, pos |-> pos, value |-> value]

Read(f, order, pos, width) ==
  IF pos + width > Len(f) THEN Fail
  ELSE Got(pos + width, Number(order, SubSeq(f, pos + 1, pos + width)))

TrimSpace(s) ==
  LET inner == {i \in DOMAIN s : s[i] \notin White}
  IN  IF inner = {} THEN <<>> ELSE SubSeq(s, Min(inner), Max(inner))

ReadString(f, order, pos) ==
  LET length == Read(f, order, pos, 8)
  IN  IF ~length.ok \/ length.pos + length.value > Len(f) THEN Fail
      ELSE Got(length.pos + length.value, TrimSpace(SubSeq(f, length.pos + 1, length.pos + length.value)))

\* By the number of the type; nothing else is a scalar.
ScalarTypes == DOMAIN Width \cup {String}
ReadScalar(f, order, pos) ==
  [type \in ScalarTypes |->
     IF type = String THEN ReadString(f, order, pos)
     ELSE LET r == Read(f, order, pos, Width[type])
          IN  IF type = Bool /\ r.ok /\ r.value > 1 THEN Fail ELSE r]

\* The type of what follows in the head, an entry of the metadata or a tensor, by what
\* was read of it: an entry is a key, its type, and a scalar of that type or the type
\* and the number of elements and they; a tensor is its name, dimensions, type and offset.
End == -1
Following(part, got) ==
  LET n == Len(got)
  IN  IF part = "head" THEN (IF n = 3 THEN End ELSE IF n = 0 THEN Uint32 ELSE Uint64)
      ELSE IF n < 2 THEN (IF n = 0 THEN String ELSE Uint32)
      ELSE IF part = "tensor" THEN
        IF n < got[2] + 2 \/ n = got[2] + 3 THEN Uint64 ELSE IF n = got[2] + 2 THEN Uint32 ELSE End
      ELSE IF got[2] # Array THEN (IF n = 2 THEN got[2] ELSE End)
      ELSE IF n < 4 THEN (IF n = 2 THEN Uint32 ELSE Uint64)
      ELSE IF n < got[4] + 4 \/ got[3] \notin ScalarTypes THEN got[3] ELSE End

\* The scalars of a part, one after the other; one that is not of its type ends it.
\* MaxScalars bounds the parts of the files at hand: five elements, five dimensions.
MaxScalars == 9
ReadPart(f, order, pos, part) ==
  LET read[n \in 0..(MaxScalars + 1)] ==
        IF n = 0 THEN Got(pos, <<>>)
        ELSE LET r    == read[n - 1]
                 type == Following(part, r.value)
                 v    == ReadScalar(f, order, r.pos)[type]
             IN  IF ~r.ok \/ type = End THEN r
                 ELSE IF n <= MaxScalars /\ type \in ScalarTypes /\ v.ok THEN Got(v.pos, Append(r.value, v.value))
                 ELSE Fail
  IN  read[MaxScalars + 1]

\* The metadata is the function of what was read so far.  That the value of
\* general.file_type gets a Go type of its own is left out: the number is the same.
ReadEntry(f, order, r) ==
  LET e == ReadPart(f, order, r.pos, "entry")
      v == e.value
  IN  IF ~r.ok \/ ~e.ok THEN Fail
      ELSE Got(e.pos, [r.value EXCEPT !.metadata =
             (v[1] :> [type |-> v[2], value |-> IF v[2] = Array THEN SubSeq(v, 5, Len(v)) ELSE v[3]]) @@ @])

ReadTensor(f, order, r) ==
  LET t == ReadPart(f, order, r.pos, "tensor")
      v == t.value
  IN  IF ~r.ok \/ ~t.ok THEN Fail
      ELSE Got(t.pos, [r.value EXCEPT !.tensors =
             Append(@, [name |-> v[1], dims |-> SubSeq(v, 3, v[2] + 2), type |-> v[v[2] + 3], offset |-> v[v[2] + 4]])])

\* The data begins at the next multiple.
TensorOffset(current, alignment) == ((current + alignment - 1) \div alignment) * alignment

\* The byte order is told from the last byte of the version.
Order(f) == IF Len(f) >= 8 /\ f[8] # 0 THEN "big" ELSE "little"

\* Behind the last tensor: what the padding is a multiple of must be a uint32.
Listed(r) ==
  LET align == IF AlignmentKey \in DOMAIN r.value.metadata THEN r.value.metadata[AlignmentKey]
               ELSE [type |-> Uint32, value |-> DefaultAlignment]
  IN  IF ~r.ok \/ align.type # Uint32 THEN Fail ELSE Got(TensorOffset(r.pos, align.value), r.value)

\* Version and counts, the metadata, the tensors.
Open(f) ==
  LET order   == Order(f)
      head    == ReadPart(f, order, 4, "head")
      refused == \/ ~IsPrefix(Magic, f) \/ ~head.ok
                 \/ head.value[1] \notin {2, 3} \/ head.value[2] = Huge \/ head.value[3] = Huge
      entries == head.value[3]
      last    == entries + head.value[2] + 1
      read[n \in 0..last] ==
        IF n = 0 THEN Got(head.pos, [order |-> order, metadata |-> <<>>, tensors |-> <<>>])
        ELSE IF n <= entries THEN ReadEntry(f, order, read[n - 1])
        ELSE IF n < last THEN ReadTensor(f, order, read[n - 1])
        ELSE Listed(read[n - 1])
  IN  IF refused THEN Fail ELSE read[last]

(***************************************************************************)
(* The bytes of a tensor: a view, nothing, or an error                      *)
(***************************************************************************)
View(from, size) == [got |-> "bytes", from |-> from, to |-> from + size]
Nil == [got |-> "nil"]
Error == [got |-> "error"]

\* Mutant: only the beginning of the view is looked at.
SliceLoose(length, from, size) == IF from > length THEN Nil ELSE View(from, size)
\* The mapping gives no bytes when the tensor does not end inside it.
Slice(length, from, size) == IF from + size > length THEN Nil ELSE View(from, size)

\* A copy must be complete.
LoadRaw(length, from, size) == IF from + size > length THEN Error ELSE View(from, size)

\* The types of tensors by their numbers.
DTypes ==
  (0 :> "f32") @@ (1 :> "f16") @@ (2 :> "q4_0") @@ (3 :> "q4_1") @@ (6 :> "q5_0") @@ (7 :> "q5_1") @@ (8 :> "q8_0")
  @@ (9 :> "q8_1") @@ (10 :> "q2_k") @@ (11 :> "q3_k") @@ (12 :> "q4_k") @@ (13 :> "q5_k") @@ (14 :> "q6_k")
  @@ (15 :> "q8_k") @@ (16 :> "int8") @@ (17 :> "int16") @@ (18 :> "int32")
ValuesCount(tensor) == FoldLeft(LAMBDA n, d : n * d, 1, tensor.dims)

\* size is the DataSize of the tensor, length what there is of the file.
LoadRawView(length, mapped, opened, tensor, size) ==
  IF mapped THEN Slice(length, opened.pos + tensor.offset, size) ELSE LoadRaw(length, opened.pos + tensor.offset, size)

(***************************************************************************)
(* A writer of the format (external)                                        *)
(***************************************************************************)
Bytes(order, width, v) ==
  LET little == [i \in 1..width |-> IF i <= 3 THEN (v \div 256 ^ (i - 1)) % 256 ELSE 0]
  IN  IF order = "little" THEN little ELSE Reverse(little)
Text(order, s) == Bytes(order, 8, Len(s)) \o s
Scalar(order, type, v) == IF type = String THEN Text(order, v) ELSE Bytes(order, Width[type], v)
Entry(order, e) ==
  Text(order, e.key)
  \o IF e.array
     THEN Bytes(order, 4, Array) \o Bytes(order, 4, e.type) \o Bytes(order, 8, Len(e.value))
          \o FlattenSeq([i \in DOMAIN e.value |-> Scalar(order, e.type, e.value[i])])
     ELSE Bytes(order, 4, e.type) \o Scalar(order, e.type, e.value)
Info(order, t) ==
  Text(order, t.name) \o Bytes(order, 4, Len(t.dims)) \o FlattenSeq([i \in DOMAIN t.dims |-> Bytes(order, 8, t.dims[i])])
  \o Bytes(order, 4, t.type) \o Bytes(order, 8, t.offset)
Header(m) ==
  Magic \o Bytes(m.order, 4, 3) \o Bytes(m.order, 8, Len(m.tensors)) \o Bytes(m.order, 8, Len(m.metadata))
  \o FlattenSeq([i \in DOMAIN m.metadata |-> Entry(m.order, m.metadata[i])])
  \o FlattenSeq([i \in DOMAIN m.tensors |-> Info(m.order, m.tensors[i])])
DataAt(m) == CHOOSE at \in Len(Header(m))..(Len(Header(m)) + m.alignment) : at % m.alignment = 0 /\ at - Len(Header(m)) < m.alignment
\* Data bytes are not told apart.
Written(m) ==
  Header(m) \o [i \in 1..(DataAt(m) - Len(Header(m))) |-> 0]
            \o [i \in 1..Max({m.tensors[k].offset + m.tensors[k].size : k \in DOMAIN m.tensors}) |-> 1]
=============================================================================
