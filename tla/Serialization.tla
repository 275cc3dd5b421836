--------------------------- MODULE Serialization ----------------------------
(* The way of a task from a client through the Scheduler, which does not     *)
(* look inside, to the Executor: values are serialized into frames, which    *)
(* are split, compressed, counted, and put together again by another copy of *)
(* the code.                                                                 *)
(*                                                                           *)
(* Messages that hold values, taken out of the message by the sender and put *)
(* back by the receiver, and the serializers of the values: the client side  *)
(* uses wukong.protocol, the Executor its own, different, copy.              *)
EXTENDS Naturals, Sequences, SequencesExt, FiniteSetsExt, Integers

CONSTANTS Entries,      \* the paths of a message at which values are
          Shard,        \* BIG_BYTES_SHARD_SIZE
          MaxLength,    \* bound: the length of a frame
          MaxFrames,    \* bound: the frames of a value
          MinCompress,  \* min_size: the length from which frames are compressed
          MaxRelays     \* bound: the processes that pass the message on

VARIABLES frMessage,    \* what the sender has: by path, its kind and its frames
          frWire,       \* what is on its way: the header and the frames
          frHeld,       \* what a process that passes the message on has
          frRead,       \* what the receiver gets, by path
          frRelays      \* processes that have passed it on

frVars == <<frMessage, frWire, frHeld, frRead, frRelays>>

(* A byte, or the one that stands for a compressed frame.                    *)
Byte(n) == [byte |-> n, of |-> <<>>]
Zipped(frame) == <<[byte |-> 0, of |-> frame]>>

Empty == [keys |-> <<>>, heads |-> <<>>, frames |-> <<>>, bytestrings |-> {}]
FramesInit ==
    frMessage = <<>> /\ frWire = Empty /\ frHeld = <<>> /\ frRead = <<>> /\ frRelays = 0

(* The bytes of a value's frames, all different.                             *)
FramesOf(lengths) ==
    [i \in DOMAIN lengths |-> [j \in 1..lengths[i] |-> Byte(10 * i + j)]]

(* A message with a value at every path; a long bytestring is one frame.     *)
NewMessage(m) ==
    /\ frMessage = <<>>
    /\ frMessage' = [p \in Entries |-> [kind |-> m[p].kind, frames |-> FramesOf(m[p].lengths)]]
    /\ UNCHANGED <<frWire, frHeld, frRead, frRelays>>
Messages ==
    LET lists == UNION {[1..n -> 0..MaxLength] : n \in 0..MaxFrames}
    IN  [Entries -> [kind : {"value"}, lengths : lists] \cup
                    [kind : {"bytes"}, lengths : [1..1 -> {MaxLength}]]]
-----------------------------------------------------------------------------
(* frame_split_size *)
SplitAt(frame, n) ==
    [i \in 1..((Len(frame) + n - 1) \div n) |->
        SubSeq(frame, (i - 1) * n + 1, Min({i * n, Len(frame)}))]
SplitFrameLong(frame) == IF Len(frame) > Shard + 1 THEN SplitAt(frame, Shard) ELSE <<frame>>  \* mistake
SplitFrame(frame) == IF Len(frame) > Shard THEN SplitAt(frame, Shard) ELSE <<frame>>
FrameSplitSize(frames) == FlattenSeq([i \in DOMAIN frames |-> SplitFrame(frames[i])])

(* maybe_compress: short frames never, others if they compress well.         *)
Compressible(frames) == {i \in DOMAIN frames : Len(frames[i]) >= MinCompress}

(* The header and the frames of a value that is serialized now: the lengths  *)
(* before the frames are split, and which of them are compressed.            *)
Serialized(frames, zip) ==
    LET split == FrameSplitSize(frames)
    IN  [head |-> [lengths |-> [i \in DOMAIN frames |-> Len(frames[i])],
                   zip |-> [i \in DOMAIN split |-> i \in zip], count |-> Len(split)],
         frames |-> [i \in DOMAIN split |-> IF i \in zip THEN Zipped(split[i]) ELSE split[i]]]

(* dumps: the values to be serialized first, then the ones that already are. *)
Dumped(values, kept, bytestrings) ==
    LET first == SetToSeq(DOMAIN values)
        then == SetToSeq(DOMAIN kept)
        keys == first \o then
        all == [p \in DOMAIN values \cup DOMAIN kept |-> IF p \in DOMAIN values THEN values[p] ELSE kept[p]]
    IN  [keys |-> keys, heads |-> [p \in DOMAIN all |-> all[p].head],
         frames |-> FlattenSeq([i \in DOMAIN keys |-> all[keys[i]].frames]),
         bytestrings |-> bytestrings]

(* The sender: extract_serialize, serialize and dumps.                       *)
Dumps ==
    /\ frMessage # <<>> /\ frRead = <<>> /\ frRelays = 0 /\ frWire = Empty
    /\ \E zips \in [Entries -> SUBSET (1..(MaxFrames * MaxLength))] :
          /\ \A p \in Entries : zips[p] \subseteq Compressible(FrameSplitSize(frMessage[p].frames))
          /\ frWire' = Dumped([p \in Entries |-> Serialized(frMessage[p].frames, zips[p])], <<>>,
                              {p \in Entries : frMessage[p].kind = "bytes"})
    /\ UNCHANGED <<frMessage, frHeld, frRead, frRelays>>
-----------------------------------------------------------------------------
(* loads: the frames of the i-th key are behind those of the keys before.    *)
FramesOfKey(w, i) ==
    LET Count(n) == w.heads[w.keys[n]].count
        before == MapThenSumSet(Count, 1..(i - 1))
    IN  SubSeq(w.frames, before + 1, before + Count(i))
FramesAt(w, p) == FramesOfKey(w, CHOOSE i \in DOMAIN w.keys : w.keys[i] = p)

(* decompress *)
Decompress(head, frames) ==
    [i \in DOMAIN frames |-> IF head.zip[i] THEN frames[i][1].of ELSE frames[i]]

(* merge_frames: n bytes from the first frames, a part of a frame left over. *)
TakeFrame(taken, frame) ==
    IF taken.want = 0 THEN [taken EXCEPT !.rest = Append(@, frame)]
    ELSE IF Len(frame) <= taken.want
    THEN [taken EXCEPT !.got = @ \o frame, !.want = @ - Len(frame)]
    ELSE [want |-> 0, got |-> taken.got \o SubSeq(frame, 1, taken.want),
          rest |-> <<SubSeq(frame, taken.want + 1, Len(frame))>>]
TakeBytes(n, frames) == FoldLeft(TakeFrame, [want |-> n, got |-> <<>>, rest |-> <<>>], frames)
MergeStep(merged, n) ==
    LET taken == TakeBytes(n, merged.rest)
    IN  [out |-> Append(merged.out, taken.got), rest |-> taken.rest]
MergeLoop(lengths, frames) == FoldLeft(MergeStep, [out |-> <<>>, rest |-> frames], lengths).out
MergeFramesZip(lengths, frames) ==  \* mistake: as many frames as lengths are taken for the originals
    IF Len(frames) >= Len(lengths) THEN SubSeq(frames, 1, Len(lengths)) ELSE MergeLoop(lengths, frames)
MergeFrames(lengths, frames) ==
    IF frames = <<>> THEN frames
    ELSE IF \A i \in DOMAIN lengths \cap DOMAIN frames : Len(frames[i]) = lengths[i] THEN frames
    ELSE MergeLoop(lengths, frames)

Value(w, p) == MergeFrames(w.heads[p].lengths, Decompress(w.heads[p], FramesAt(w, p)))

(* A process that keeps the values as they are (deserialize=False) and sends *)
(* the message on: loads, then dumps.  Long bytestrings it does unpack.      *)
Relay ==
    /\ frWire # Empty /\ frHeld = <<>> /\ frRead = <<>> /\ frRelays < MaxRelays
    /\ frHeld' = [p \in Entries |->
           IF p \in frWire.bytestrings THEN [bytes |-> TRUE, frames |-> Value(frWire, p)]
           ELSE [bytes |-> FALSE, head |-> frWire.heads[p], frames |-> FramesAt(frWire, p)]]
    /\ frWire' = Empty /\ frRelays' = frRelays + 1
    /\ UNCHANGED <<frMessage, frRead>>

HeadOf(held) == [held.head EXCEPT !.count = Len(held.frames)]
SendOn ==
    /\ frHeld # <<>> /\ frHeld' = <<>>
    /\ LET bytes == {p \in Entries : frHeld[p].bytes}
       IN  \E zips \in [bytes -> SUBSET (1..MaxLength)] :
              /\ \A p \in bytes : zips[p] \subseteq Compressible(FrameSplitSize(frHeld[p].frames))
              /\ frWire' = Dumped([p \in bytes |-> Serialized(frHeld[p].frames, zips[p])],
                                  [p \in Entries \ bytes |-> [head |-> HeadOf(frHeld[p]),
                                                               frames |-> frHeld[p].frames]],
                                  bytes)
    /\ UNCHANGED <<frMessage, frRead, frRelays>>

(* The Executor: loads.                                                      *)
Loads ==
    /\ frWire # Empty /\ frRead = <<>>
    /\ frRead' = [p \in Entries |-> Value(frWire, p)]
    /\ UNCHANGED <<frMessage, frWire, frHeld, frRelays>>

FramesNext == (\E m \in Messages : NewMessage(m)) \/ Dumps \/ Relay \/ SendOn \/ Loads
-----------------------------------------------------------------------------
(* The Executor gets every value frame by frame as the client had it, for    *)
(* empty values and frames, split and compressed ones, and whatever passed   *)
(* them on.                                                                  *)
ValuesRoundTrip == frRead # <<>> => \A p \in Entries : frRead[p] = frMessage[p].frames

(* No frame on its way is longer than a shard.                               *)
FramesFitShard == \A i \in DOMAIN frWire.frames : Len(frWire.frames[i]) <= Shard
-----------------------------------------------------------------------------
CONSTANT Width         \* bound: the children of a container, rows and columns of an array

VARIABLES vaMessage,   \* the sender's message: the node at every path
          vaWire,      \* the message on its way
          vaRead       \* the message the receiver has

vaVars == <<vaMessage, vaWire, vaRead>>

NoValue == [kind |-> "none"]
Containers == {"dict", "list", "tuple"}
Node(kind, value) == [kind |-> kind, value |-> value]
Plain(p) == Node("plain", p)

Children(m, p) == {q \in DOMAIN m : Len(q) = Len(p) + 1 /\ SubSeq(q, 1, Len(p)) = p}
-----------------------------------------------------------------------------
(* An array is a view of a buffer: a shape, strides, and where it begins.    *)
Array(shape, strides, offset, buffer) ==
    [kind |-> "array", shape |-> shape, strides |-> strides, offset |-> offset, buffer |-> buffer]
Element(x, i, j) == x.buffer[x.offset + i * x.strides[1] + j * x.strides[2] + 1]
Indices(x) == (0..(x.shape[1] - 1)) \X (0..(x.shape[2] - 1))
Elements(x) == [ij \in Indices(x) |-> Element(x, ij[1], ij[2])]
Size(x) == x.shape[1] * x.shape[2]

(* numpy's flags: an axis with one row or column may have any stride.        *)
CContiguous(x) ==
    \/ Size(x) = 0
    \/ /\ x.shape[1] # 1 => x.strides[1] = x.shape[2]
       /\ x.shape[2] # 1 => x.strides[2] = 1
FContiguous(x) ==
    \/ Size(x) = 0
    \/ /\ x.shape[1] # 1 => x.strides[1] = 1
       /\ x.shape[2] # 1 => x.strides[2] = x.shape[1]

RowMajor(x) == [k \in 1..Size(x) |-> Element(x, (k - 1) \div x.shape[2], (k - 1) % x.shape[2])]
InMemory(x) == SubSeq(x.buffer, x.offset + 1, x.offset + Size(x))

(* serialize_numpy_ndarray: contiguous data goes as it lies in memory, other *)
(* data is copied.                                                           *)
SerializeArrayCopied(x) ==  \* mistake: the copy's data with the array's own strides
    [head |-> [serializer |-> "dask", type |-> "array", shape |-> x.shape, strides |-> x.strides],
     frames |-> << IF Size(x) = 0 THEN <<>> ELSE RowMajor(x) >>]
SerializeArray(x) ==
    LET kept == CContiguous(x) \/ FContiguous(x)
    IN  [head |-> [serializer |-> "dask", type |-> "array", shape |-> x.shape,
                   strides |-> IF kept THEN x.strides ELSE <<x.shape[2], 1>>],
         frames |-> << IF kept THEN InMemory(x) ELSE RowMajor(x) >>]
(* deserialize_numpy_ndarray *)
DeserializeArray(head, frames) == Array(head.shape, head.strides, 0, frames[1])

(* serialize_numpy_maskedarray: the frames of the data, then of the mask.    *)
SerializeMasked(x) ==
    LET data == SerializeArray(x.data)
        mask == IF x.mask = NoValue THEN [head |-> NoValue, frames |-> <<>>] ELSE SerializeArray(x.mask)
    IN  [head |-> [serializer |-> "dask", type |-> "masked", data |-> data.head,
                   nframes |-> Len(data.frames), mask |-> mask.head],
         frames |-> data.frames \o mask.frames]
DeserializeMasked(head, frames) ==
    [kind |-> "masked", data |-> DeserializeArray(head.data, SubSeq(frames, 1, head.nframes)),
     mask |-> IF head.mask = NoValue THEN NoValue
              ELSE DeserializeArray(head.mask, SubSeq(frames, head.nframes + 1, Len(frames)))]
-----------------------------------------------------------------------------
(* pickle, the registered handling of bytes, and the constant np.ma.masked,  *)
(* which has no frame at all.                                                *)
SerializeLeaf(v) ==
    CASE v.kind = "bytes"    -> [head |-> [serializer |-> "dask", type |-> "bytes"], frames |-> <<v>>]
      [] v.kind = "constant" -> [head |-> [serializer |-> "dask", type |-> "constant"], frames |-> <<>>]
      [] v.kind = "array"    -> SerializeArray(v)
      [] v.kind = "masked"   -> SerializeMasked(v)
      [] v.kind = "object"   -> [head |-> [serializer |-> "pickle"], frames |-> <<v>>]
      [] v.kind = "bad"      -> [head |-> [serializer |-> "error"], frames |-> <<"message", "traceback">>]

(* serialize_object_with_dict: simple attributes stay in the header, the     *)
(* others are serialized, with the place of their frames.                    *)
SerializeGeneric(v) ==
    LET simple == {i \in DOMAIN v.attrs : v.attrs[i].kind = "simple"}
        complex == SetToSortSeq(DOMAIN v.attrs \ simple, <)
        parts == [n \in DOMAIN complex |-> SerializeLeaf(v.attrs[complex[n]])]
        Count(n) == Len(parts[n].frames)
        Start(n) == MapThenSumSet(Count, 1..(n - 1))
    IN  [head |-> [serializer |-> "dask", type |-> "generic",
                   simple |-> [i \in simple |-> v.attrs[i]],
                   complex |-> [n \in DOMAIN complex |->
                       [key |-> complex[n], head |-> parts[n].head,
                        start |-> Start(n), stop |-> Start(n) + Count(n)]]],
         frames |-> FlattenSeq([n \in DOMAIN parts |-> parts[n].frames])]

(* serialize: the serializers in order, an error message if one fails.       *)
Serialize(v) == IF v.kind = "generic" THEN SerializeGeneric(v) ELSE SerializeLeaf(v)

Raised == [kind |-> "raised"]
DeserializeLeaf(head, frames) ==
    CASE head.serializer = "error"  -> Raised
      [] head.serializer = "pickle" -> frames[1]
      [] OTHER -> CASE head.type = "bytes" -> frames[1]
                    [] head.type = "constant" -> [kind |-> "constant"]
                    [] head.type = "array" -> DeserializeArray(head, frames)
                    [] head.type = "masked" -> DeserializeMasked(head, frames)

(* deserialize_object_with_dict, and deserialize                             *)
DeserializeGeneric(head, frames) ==
    LET Attribute(n) == DeserializeLeaf(head.complex[n].head,
                        SubSeq(frames, head.complex[n].start + 1, head.complex[n].stop))
        Place(i) == CHOOSE n \in DOMAIN head.complex : head.complex[n].key = i
        keys == {head.complex[n].key : n \in DOMAIN head.complex}
    IN  IF \E n \in DOMAIN head.complex : Attribute(n) = Raised THEN Raised
        ELSE [kind |-> "generic",
              attrs |-> [i \in DOMAIN head.simple \cup keys |->
                             IF i \in keys THEN Attribute(Place(i)) ELSE head.simple[i]]]
Deserialize(head, frames) ==
    IF head.serializer = "dask" /\ head.type = "generic"
    THEN DeserializeGeneric(head, frames) ELSE DeserializeLeaf(head, frames)
-----------------------------------------------------------------------------
(* _extract_serialize: the paths of the values; tuples are not entered.      *)
Extracted(m) ==
    {p \in DOMAIN m : /\ m[p].kind = "serialize"
                      /\ \A n \in 0..(Len(p) - 1) : m[SubSeq(p, 1, n)].kind # "tuple"}
(* extract_serialize: a value taken out of a dict is gone, None is left in a *)
(* list, where the others keep their places.                                 *)
Without(m, paths) ==
    LET gone == {p \in paths : m[Front(p)].kind = "dict"}
    IN  [p \in DOMAIN m \ gone |-> IF p \in paths THEN Node("none", NoValue) ELSE m[p]]
(* msgpack: what is a list comes back as a tuple.                            *)
Unpacked(m) ==
    [p \in DOMAIN m |-> IF m[p].kind = "list" THEN Node("tuple", NoValue) ELSE m[p]]

(* dumps: the frames of all the values, one behind the other.                *)
Dump(m) ==
    LET keys == SetToSeq(Extracted(m))
        parts == [n \in DOMAIN keys |-> Serialize(m[keys[n]].value)]
    IN  [keys |-> keys, small |-> Unpacked(Without(m, Extracted(m))),
         heads |-> [n \in DOMAIN keys |-> parts[n].head],
         counts |-> [n \in DOMAIN keys |-> Len(parts[n].frames)],
         frames |-> FlattenSeq([n \in DOMAIN keys |-> parts[n].frames])]

(* put_in: the tuples on the way to the value become lists, as one that      *)
(* holds a value must be changed.                                            *)
PutIn(p, m, v) ==
    [q \in DOMAIN m \cup {p} |->
        IF q = p THEN Node("serialize", v)
        ELSE IF IsStrictPrefix(q, p) /\ m[q].kind = "tuple" THEN Node("list", NoValue) ELSE m[q]]

(* loads: counts[n] frames belong to the n-th key.                           *)
ValueOf(w, n) ==
    LET Count(k) == w.counts[k]
        before == MapThenSumSet(Count, 1..(n - 1))
    IN  Deserialize(w.heads[n], SubSeq(w.frames, before + 1, before + w.counts[n]))
PutAll(w) ==
    LET PutKey(m, n) == PutIn(w.keys[n], m, ValueOf(w, n))
    IN  FoldLeft(PutKey, w.small, [n \in 1..Len(w.keys) |-> n])

(* An error of one value is an error of the whole message.                   *)
Load(w) ==
    IF \E n \in DOMAIN w.keys : ValueOf(w, n) = Raised THEN [outcome |-> "raised"]
    ELSE [outcome |-> "read", message |-> PutAll(w)]
-----------------------------------------------------------------------------
Numbers(shape, base) == [k \in 1..(2 * shape[1] * shape[2]) |-> base + k]
(* In rows, in columns, every second row, from the last row, of one row.     *)
Layouts(shape, base) ==
    LET r == shape[1]
        c == shape[2]
        b == Numbers(shape, base)
    IN  {Array(shape, <<c, 1>>, 0, b), Array(shape, <<1, r>>, 0, b), Array(shape, <<2 * c, 1>>, 0, b),
         Array(shape, <<-c, 1>>, (r - 1) * c, b), Array(shape, <<0, 1>>, 0, b)}
Shapes == (1..Width) \X (1..Width)
Arrays(base) == UNION {Layouts(s, base) : s \in Shapes}
Simple(n) == [kind |-> "simple", id |-> n]
Leaves(n) == {[kind |-> "bytes", id |-> n], [kind |-> "constant"], [kind |-> "object", id |-> n],
              [kind |-> "bad"]} \cup Arrays(100 * n)
MaskedArrays(n) == [kind : {"masked"}, data : Arrays(100 * n), mask : {NoValue} \cup Arrays(100 * n + 50)]
Generics(n) ==
    LET one == {Simple(n), [kind |-> "constant"], [kind |-> "object", id |-> n],
                Array(<<2, 2>>, <<1, 2>>, 0, Numbers(<<2, 2>>, n)),
                [kind |-> "masked", data |-> Array(<<1, 2>>, <<2, 1>>, 0, Numbers(<<1, 2>>, n)),
                 mask |-> Array(<<1, 2>>, <<2, 1>>, 0, Numbers(<<1, 2>>, 50 + n))]}
    IN  [kind : {"generic"}, attrs : [1..3 -> one]]

(* Messages: a value alone in a dict, or a tree with simple values.          *)
ValueMessages ==
    {[p \in {<<>>, <<1>>} |-> IF p = <<>> THEN Node("dict", NoValue) ELSE Node("serialize", v)] :
        v \in Leaves(1) \cup MaskedArrays(1) \cup Generics(1)}
Small(p) == {Plain(p), Node("serialize", [kind |-> "object", id |-> p]),
             Node("serialize", [kind |-> "constant"])}
TreePaths(inner) == {<<>>} \cup {<<i>> : i \in 1..Width} \cup {<<i, j>> : i \in inner, j \in 1..Width}
TreeMessages ==
    UNION {{m \in [TreePaths(inner) -> UNION {Small(p) : p \in TreePaths(inner)} \cup
                                        [kind : Containers, value : {NoValue}]] :
              \A p \in DOMAIN m :
                 IF Children(m, p) = {} THEN m[p] \in Small(p)
                 ELSE /\ m[p] \in [kind : IF p = <<>> THEN {"dict", "list"} ELSE Containers, value : {NoValue}]
                      /\ m[p].kind = "tuple" => \A q \in Children(m, p) : m[q] = Plain(q)} :
           inner \in SUBSET (1..1)}

VaInit == vaMessage = <<>> /\ vaWire = <<>> /\ vaRead = [outcome |-> "none"]
Compose(m) == vaMessage = <<>> /\ vaMessage' = m /\ UNCHANGED <<vaWire, vaRead>>
Send == /\ vaMessage # <<>> /\ vaWire = <<>>
        /\ vaWire' = Dump(vaMessage)
        /\ UNCHANGED <<vaMessage, vaRead>>
Receive == /\ vaWire # <<>> /\ vaRead = [outcome |-> "none"]
           /\ vaRead' = Load(vaWire)
           /\ UNCHANGED <<vaMessage, vaWire>>
VaNext == (\E m \in ValueMessages \cup TreeMessages : Compose(m)) \/ Send \/ Receive
-----------------------------------------------------------------------------
(* Two values are equal if they show the same: an array is its elements,     *)
(* however it lies in memory.                                                *)
SameArray(x, y) == x.shape = y.shape /\ Elements(x) = Elements(y)
SameLeaf(x, y) ==
    /\ x.kind = y.kind
    /\ CASE x.kind = "array" -> SameArray(x, y)
         [] x.kind = "masked" -> /\ SameArray(x.data, y.data)
                                 /\ (x.mask = NoValue) = (y.mask = NoValue)
                                 /\ x.mask # NoValue => SameArray(x.mask, y.mask)
         [] OTHER -> x = y
Same(x, y) ==
    IF x.kind # "generic" THEN SameLeaf(x, y)
    ELSE /\ y.kind = "generic" /\ DOMAIN x.attrs = DOMAIN y.attrs
         /\ \A i \in DOMAIN x.attrs : SameLeaf(x.attrs[i], y.attrs[i])

(* The receiver has every value and every simple thing at the path where the *)
(* sender had it, and the values show the same; or it gets an error, and     *)
(* that only if the sender could not serialize one of them.                  *)
ReadsWhatWasSent ==
    /\ vaRead.outcome = "raised" =>
          \E p \in DOMAIN vaMessage : vaMessage[p].kind = "serialize" /\ vaMessage[p].value.kind = "bad"
    /\ vaRead.outcome = "read" =>
          /\ DOMAIN vaRead.message = DOMAIN vaMessage
          /\ \A p \in DOMAIN vaMessage :
                LET sent == vaMessage[p]
                    read == vaRead.message[p]
                IN  CASE sent.kind = "plain" -> read = sent
                      [] sent.kind = "serialize" -> read.kind = "serialize" /\ Same(sent.value, read.value)
                      [] sent.kind = "dict" -> read.kind = "dict"
                      [] OTHER -> read.kind \in {"list", "tuple"}
=============================================================================
