----------------------------- MODULE AmqpWire -----------------------------
(***************************************************************************)
(* How the vendored AMQP client puts frames on the wire and takes them off *)
(* again: read.go, write.go and the write and read methods of spec091.go,  *)
(* octet by octet.  One stream of octets, a writer that appends whole      *)
(* frames (the writer holds sendM) and a reader that takes one frame at a  *)
(* time.  The reader trusts what it parses, not the size in the frame's    *)
(* header: an argument read with the wrong width or type shifts everything *)
(* after it, and the connection ends with a frame error.                   *)
(*                                                                         *)
(* A string is a sequence of octets, a table a function from strings to    *)
(* fields, a field a record of its type letter and value; floating-point   *)
(* numbers are their bits.                                                 *)
(***************************************************************************)
EXTENDS AmqpMethods, Sequences, SequencesExt

CONSTANTS
  Frames,    \* the frames that may be written first, in a sequence
  Followers, \* the frames that may be written after another
  MaxFrames  \* bound: frames written in one behaviour

VARIABLES
  stream,    \* octets written and not yet read
  sent,      \* history: the frames written
  got        \* what ReadFrame returned: frames, or ReadError

vars == <<stream, sent, got>>

-----------------------------------------------------------------------------
(* Numbers: big endian, two's complement. *)

RECURSIVE Octets(_, _)
Octets(n, width) ==
  IF width = 0 THEN <<>> ELSE Append(Octets(n \div 256, width - 1), n % 256)

Unsigned(s) == FoldLeft(LAMBDA acc, o : 256 * acc + o, 0, s)
Signed(s) == FoldLeft(LAMBDA acc, o : 256 * acc + o, IF s[1] > 127 THEN -1 ELSE 0, s)

Width == [octet |-> 1, short |-> 2, long |-> 4, longlong |-> 8, timestamp |-> 8,
          b |-> 1, s |-> 2, I |-> 4, l |-> 8, f |-> 4, d |-> 8, T |-> 8]

(* Reading: what was read, or that the reader failed, for io.EOF when it   *)
(* was at the end already; and what is left.                               *)

Got(v, rest) == [ok |-> TRUE, v |-> v, rest |-> rest]
Fails(eof, rest) == [ok |-> FALSE, eof |-> eof, rest |-> rest]
Failed == Fails(FALSE, <<>>)
Then(read, Go(_, _)) == IF read.ok THEN Go(read.v, read.rest) ELSE read

From(s, n) == SubSeq(s, n + 1, Len(s))

ReadNumber(s, width, Number(_)) ==
  IF Len(s) < width THEN Fails(s = <<>>, <<>>) ELSE Got(Number(SubSeq(s, 1, width)), From(s, width))

ReadString(s, width) ==
  Then(ReadNumber(s, width, Unsigned), LAMBDA n, rest :
    IF Len(rest) < n THEN Fails(rest = <<>>, <<>>) ELSE Got(SubSeq(rest, 1, n), From(rest, n)))

(* The length is one octet, and only that many octets are written. *)
writeShortstrWhole(s) == Octets(Len(s), 1) \o s
writeShortstr(s) == Octets(Len(s), 1) \o SubSeq(s, 1, Len(s) % 256)
readShortstr(s) == ReadString(s, 1)
writeLongstr(s) == Octets(Len(s), 4) \o s
readLongstr(s) == ReadString(s, 4)

-----------------------------------------------------------------------------
(* Fields and tables.  `back` is the direction in which a Go map is ranged *)
(* over: with two keys, every order.                                       *)

Letter == [t |-> 116, b |-> 98, s |-> 115, I |-> 73, l |-> 108, f |-> 102, d |-> 100,
           D |-> 68, S |-> 83, A |-> 65, T |-> 84, F |-> 70, x |-> 120, V |-> 86]

RECURSIVE validateField(_)
validateField(f) ==
  /\ f.t \in DOMAIN Letter
  /\ f.t = "A" => \A i \in DOMAIN f.v : validateField(f.v[i])
  /\ f.t = "F" => \A k \in DOMAIN f.v : validateField(f.v[k])

RECURSIVE writeField(_, _)
writeTable(table, back) ==
  LET keys == SetToSeq(DOMAIN table)
      Entry(k) == writeShortstr(k) \o writeField(table[k], back)
  IN  writeLongstr(FlattenSeq([i \in DOMAIN keys |->
        Entry(IF back THEN keys[Len(keys) + 1 - i] ELSE keys[i])]))

ErrFieldType == -1
writeField(f, back) ==
  IF f.t \notin DOMAIN Letter THEN <<ErrFieldType>> ELSE <<Letter[f.t]>> \o
  CASE f.t \in DOMAIN Width -> Octets(f.v, Width[f.t])
    [] f.t = "t" -> <<IF f.v THEN 1 ELSE 0>>
    [] f.t = "D" -> Octets(f.v.scale, 1) \o Octets(f.v.value, 4)
    [] f.t \in {"S", "x"} -> writeLongstr(f.v)
    [] f.t = "A" -> writeLongstr(FlattenSeq([i \in DOMAIN f.v |-> writeField(f.v[i], back)]))
    [] f.t = "F" -> writeTable(f.v, back)
    [] f.t = "V" -> <<>>

RECURSIVE readField(_)
RECURSIVE readEntries(_, _)
readEntries(s, table) ==
  IF s = <<>> THEN Got(table, s)
  ELSE Then(readShortstr(s), LAMBDA key, r :
         Then(readField(r), LAMBDA value, left : readEntries(left, (key :> value) @@ table)))

readTable(s) ==
  Then(readLongstr(s), LAMBDA str, rest : [readEntries(str, <<>>) EXCEPT !.rest = rest])

(* Fields up to io.EOF, which the array does not tell from one within a    *)
(* field; any other error is the error of the array.                       *)
RECURSIVE readElements(_)
Elements(first) ==
  IF first.ok THEN Then(readElements(first.rest), LAMBDA vs, left : Got(<<first.v>> \o vs, left))
  ELSE IF first.eof THEN Got(<<>>, first.rest) ELSE first
readElements(s) == Elements(readField(s))

readArray(s) ==
  Then(ReadNumber(s, 4, Unsigned), LAMBDA n, r :
    LET size == IF n < Len(r) THEN n ELSE Len(r)
    IN  Then(readElements(SubSeq(r, 1, size)), LAMBDA vs, left : Got(vs, left \o From(r, size))))

readValue(typ, s) ==
  CASE typ = "t" -> ReadNumber(s, 1, LAMBDA o : o[1] # 0)
    [] typ \in {"b", "f", "d"} -> ReadNumber(s, Width[typ], Unsigned)
    [] typ \in {"s", "I", "l", "T"} -> ReadNumber(s, Width[typ], Signed)
    [] typ = "D" -> Then(ReadNumber(s, 1, Unsigned), LAMBDA n, r :
                      ReadNumber(r, 4, LAMBDA o : [scale |-> n, value |-> Signed(o)]))
    [] typ \in {"S", "x"} -> readLongstr(s)
    [] typ = "A" -> readArray(s)
    [] typ = "F" -> readTable(s)
    [] typ = "V" -> Got(0, s)

readField(s) ==
  IF s = <<>> THEN Fails(TRUE, s)
  ELSE IF s[1] \notin Range(Letter) THEN Fails(FALSE, Tail(s))
  ELSE LET typ == CHOOSE t \in DOMAIN Letter : Letter[t] = s[1]
       IN  Then(readValue(typ, Tail(s)), LAMBDA v, rest : Got([t |-> typ, v |-> v], rest))

-----------------------------------------------------------------------------
(* Arguments of methods: the write and read methods of spec091.go.  A run  *)
(* of bits shares one octet, the first bit lowest.                         *)

BitRun(types) == SelectInSeq(Append(types, "end"), LAMBDA t : t # "bit") - 1

WriteArgument(type, v, back) ==
  CASE type = "shortstr" -> writeShortstr(v)
    [] type = "longstr" -> writeLongstr(v)
    [] type = "table" -> writeTable(v, back)
    [] type = "timestamp" -> Octets(v[1], 8)
    [] OTHER -> Octets(v, Width[type])

ReadArgument(type, s) ==
  CASE type = "shortstr" -> readShortstr(s)
    [] type = "longstr" -> readLongstr(s)
    [] type = "table" -> readTable(s)
    [] type = "timestamp" -> ReadNumber(s, 8, LAMBDA o : <<Signed(o)>>)
    [] OTHER -> ReadNumber(s, Width[type], Unsigned)

Bits(args) == FoldRight(LAMBDA b, acc : 2 * acc + (IF b THEN 1 ELSE 0), args, 0)
Unbits(octet, n) == [i \in 1..n |-> (octet \div 2^(i - 1)) % 2 = 1]

RECURSIVE WriteArguments(_, _, _)
WriteArguments(types, args, back) ==
  LET n == BitRun(types) IN
  IF types = <<>> THEN <<>>
  ELSE IF n > 0 THEN <<Bits(SubSeq(args, 1, n))>> \o WriteArguments(From(types, n), From(args, n), back)
  ELSE WriteArgument(types[1], args[1], back) \o WriteArguments(Tail(types), Tail(args), back)

(* What is read next: a run of n bits, or one argument; as a sequence.     *)
ReadNext(types, s, n) ==
  IF n > 0 THEN ReadNumber(s, 1, LAMBDA o : Unbits(o[1], n))
  ELSE Then(ReadArgument(types[1], s), LAMBDA v, rest : Got(<<v>>, rest))

RECURSIVE ReadArguments(_, _, _)
ReadArguments(types, s, args) ==
  IF types = <<>> THEN Got(args, s)
  ELSE Then(ReadNext(types, s, BitRun(types)), LAMBDA vs, rest :
         ReadArguments(From(types, Len(vs)), rest, args \o vs))

-----------------------------------------------------------------------------
(* The properties of a content header, in the order of their flags.  A     *)
(* property that has its zero value is not sent.  The last one (reserved1) *)
(* is never written but read when its flag is set.                         *)

\* A time is <<>> (the zero time) or <<seconds>>.
PropertyTypes == <<"shortstr", "shortstr", "table", "octet", "octet", "shortstr", "shortstr",
                   "shortstr", "shortstr", "timestamp", "shortstr", "shortstr", "shortstr", "shortstr">>
Zero(type) == IF type = "octet" THEN 0 ELSE <<>>

Flag(i) == 2^(16 - i)
hasProperty(mask, i) == (mask \div Flag(i)) % 2 = 1

MaskOf(props) ==
  FoldLeft(LAMBDA m, i : m + (IF props[i] = Zero(PropertyTypes[i]) THEN 0 ELSE Flag(i)), 0,
           [i \in 1..13 |-> i])

writeHeader(h, back) ==
  LET mask == MaskOf(h.props) IN
  Octets(h.class, 2) \o Octets(0, 2) \o Octets(h.size, 8) \o Octets(mask, 2) \o
  FlattenSeq([i \in 1..13 |-> IF hasProperty(mask, i)
                              THEN WriteArgument(PropertyTypes[i], h.props[i], back) ELSE <<>>])

RECURSIVE readProperties(_, _, _)
readProperties(mask, s, props) ==
  LET i == Len(props) + 1 IN
  IF i > Len(PropertyTypes) THEN Got(props, s)
  ELSE Then(IF hasProperty(mask, i) THEN ReadArgument(PropertyTypes[i], s) ELSE Got(Zero(PropertyTypes[i]), s),
            LAMBDA v, rest : readProperties(mask, rest, Append(props, v)))

-----------------------------------------------------------------------------
(* Frames. *)

frameMethod    == 1
frameHeader    == 2
frameBody      == 3
frameHeartbeat == 8
frameEnd       == 206

Payload(f, back) ==
  CASE f.typ = frameMethod -> Octets(f.method.class, 2) \o Octets(f.method.id, 2)
                              \o WriteArguments(f.method.fields, f.args, back)
    [] f.typ = frameHeader -> writeHeader(f, back)
    [] f.typ = frameBody -> f.body
    [] f.typ = frameHeartbeat -> <<>>

writeFrame(typ, channel, payload) ==
  Octets(typ, 1) \o Octets(channel, 2) \o Octets(Len(payload), 4) \o payload \o <<frameEnd>>

Methods(class, id) ==
  IF class \in DOMAIN Class /\ id \in DOMAIN Class[class] THEN {Class[class][id]} ELSE {}

parseMethodFrame(channel, s) ==
  LET found == Methods(Unsigned(SubSeq(s, 1, 2)), Unsigned(SubSeq(s, 3, 4)))
      method == CHOOSE m \in found : TRUE
  IN  IF Len(s) < 4 \/ found = {} THEN Failed
      ELSE Then(ReadArguments(method.fields, From(s, 4), <<>>), LAMBDA args, rest :
             Got([typ |-> frameMethod, channel |-> channel, method |-> method, args |-> args], rest))

parseHeaderFrame(channel, s) ==
  IF Len(s) < 14 THEN Failed
  ELSE Then(readProperties(Unsigned(SubSeq(s, 13, 14)), From(s, 14), <<>>), LAMBDA props, rest :
         Got([typ |-> frameHeader, channel |-> channel, class |-> Unsigned(SubSeq(s, 1, 2)),
              size |-> Unsigned(SubSeq(s, 5, 12)), props |-> props], rest))

parseBodyFrame(channel, size, s) ==
  IF Len(s) < size THEN Failed
  ELSE Got([typ |-> frameBody, channel |-> channel, body |-> SubSeq(s, 1, size)], From(s, size))

(* A heartbeat with a payload makes the client panic: Failed here.          *)
parseHeartbeatFrame(channel, size, s) ==
  IF size > 0 THEN Failed ELSE Got([typ |-> frameHeartbeat, channel |-> channel], s)

parsePayload(typ, channel, size, s) ==
  CASE typ = frameMethod -> parseMethodFrame(channel, s)
    [] typ = frameHeader -> parseHeaderFrame(channel, s)
    [] typ = frameBody -> parseBodyFrame(channel, size, s)
    [] typ = frameHeartbeat -> parseHeartbeatFrame(channel, size, s)
    [] OTHER -> Failed

Parse(s) ==
  IF Len(s) < 7 THEN Failed
  ELSE Then(parsePayload(s[1], Unsigned(SubSeq(s, 2, 3)), Unsigned(SubSeq(s, 4, 7)), From(s, 7)),
            LAMBDA frame, rest :
              IF rest # <<>> /\ rest[1] = frameEnd THEN Got(frame, Tail(rest)) ELSE Failed)

-----------------------------------------------------------------------------
ReadError == [typ |-> 0]

Init == stream = <<>> /\ sent = <<>> /\ got = <<>>

Tables(f) ==
  IF f.typ = frameMethod THEN {f.args[i] : i \in {j \in DOMAIN f.args : f.method.fields[j] = "table"}}
  ELSE IF f.typ = frameHeader THEN {f.props[3]} ELSE {}

(* The methods of Channel refuse a frame whose table does not Validate.  A *)
(* field that cannot be written makes send fail and the connection end.    *)
WriteFrame(f, back) ==
  LET payload == Payload(f, back) IN
  /\ Len(sent) < MaxFrames
  /\ \A table \in Tables(f) : validateField([t |-> "F", v |-> table])
  /\ sent' = Append(sent, f)
  /\ IF ErrFieldType \in Range(payload)
     THEN got' = Append(got, ReadError) /\ UNCHANGED stream
     ELSE stream' = stream \o writeFrame(f.typ, f.channel, payload) /\ UNCHANGED got

(* After an error the reader shuts the connection down and reads no more.  *)
ReadFrame ==
  /\ stream # <<>>
  /\ \E frame \in {Parse(stream)} :
       \/ frame.ok /\ got' = Append(got, frame.v) /\ stream' = frame.rest
       \/ ~frame.ok /\ got' = Append(got, ReadError) /\ stream' = <<>>
  /\ UNCHANGED sent

Next ==
  \/ ReadFrame
  \/ \E back \in BOOLEAN :
       \/ sent = <<>> /\ \E i \in DOMAIN Frames : WriteFrame(Frames[i], back)
       \/ sent # <<>> /\ \E i \in DOMAIN Followers : WriteFrame(Followers[i], back)

Spec == Init /\ [][Next]_vars

-----------------------------------------------------------------------------
(* What a frame says once it is on the wire: a short string of n octets is *)
(* cut to n % 256.                                                         *)
Cut(type, v) == IF type = "shortstr" THEN SubSeq(v, 1, Len(v) % 256) ELSE v
CutAll(types, args) == [i \in DOMAIN args |-> Cut(types[i], args[i])]
OnWire(f) ==
  CASE f.typ = frameMethod -> [f EXCEPT !.args = CutAll(f.method.fields, f.args)]
    [] f.typ = frameHeader -> [f EXCEPT !.props = Append(CutAll(PropertyTypes, f.props), <<>>)]
    [] OTHER -> f

(* The peer reads exactly the frames that were written, in their order,    *)
(* whatever their arguments, the order in which Go walks their tables and  *)
(* the frames before them: read.go inverts write.go, no frame swallows     *)
(* octets of the next, no two methods share an id, and a string too long   *)
(* for its length octet is shortened without shifting what follows it.     *)
FramesSurvive ==
  /\ Len(got) =< Len(sent)
  /\ \A i \in DOMAIN got : got[i] = OnWire(sent[i])
  /\ stream = <<>> => Len(got) = Len(sent)
=============================================================================
