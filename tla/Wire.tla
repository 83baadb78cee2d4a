-------------------------------- MODULE Wire --------------------------------
(***************************************************************************)
(* How a protobuf message becomes a stream and a stream a message: what    *)
(* SerializeToString, ParseFromString, ByteSize and IsInitialized of the   *)
(* generated classes (src/CoolClient/src/ *.pb.cc) have in common.  The    *)
(* messages themselves are tables in module Messages.                      *)
(*                                                                         *)
(* A stream is a sequence of tokens, not of bytes: a tag, a number, a text *)
(* or a length is one token.  A stream that is cut inside a token is       *)
(* rejected by the parser exactly when one that is cut before the token    *)
(* is, but for tags, and the tags of this program are one byte each: so    *)
(* every way to lose the end of a stream is a cut between tokens.          *)
(***************************************************************************)
EXTENDS Integers, Sequences, SequencesExt, TLC

(* Kinds of fields.                                                        *)
Number(dflt) == [kind |-> "number", dflt |-> dflt]
Text == [kind |-> "text", dflt |-> ""]
Nested(type) == [kind |-> "message", of |-> type]
Repeated(kind) == [kind |-> "repeated", of |-> kind]

(* A message type: its full name, its fields, their order on the wire (the *)
(* number of a field is its place in the order) and the required ones.     *)
Message(name, fields, wire) ==
  [name |-> name, fields |-> fields, order |-> wire.order, required |-> wire.required]

IsRepeated(type, f) == type.fields[f].kind = "repeated"
Element(type, f) == IF IsRepeated(type, f) THEN type.fields[f].of ELSE type.fields[f]

(* A message is a function from the fields that are set to their values; a *)
(* repeated field is always set, to the sequence of its elements.          *)
New(type) == [f \in {g \in DOMAIN type.fields : IsRepeated(type, g)} |-> <<>>]

(* An accessor answers the default of a field that is not set.             *)
Get(type, msg, f) == IF f \in DOMAIN msg THEN msg[f] ELSE type.fields[f].dflt

(* A field on the wire is a tag and what follows it.                       *)
Tag(number, kind) ==
  <<"tag", number, IF kind.kind = "number" THEN "varint" ELSE "bytes">>

---------------------------------------------------------------------------
(* Writing: the fields in the order of their numbers, a nested message     *)
(* after its length.  EncodeNested writes the messages one level down.     *)
Values(type, msg, f) ==
  CASE f \notin DOMAIN msg -> <<>>
    [] f \in DOMAIN msg /\ IsRepeated(type, f) -> msg[f]
    [] f \in DOMAIN msg /\ ~IsRepeated(type, f) -> <<msg[f]>>

EncodeValue(EncodeNested(_, _), kind, value) ==
  IF kind.kind = "message"
    THEN LET nested == EncodeNested(kind.of, value)
         IN  <<<<"length", Len(nested)>>>> \o nested
    ELSE <<<<kind.kind, value>>>>

EncodeField(EncodeNested(_, _), type, msg, number) ==
  LET f == type.order[number]
      kind == Element(type, f)
      values == Values(type, msg, f)
  IN  [i \in DOMAIN values |->
         <<Tag(number, kind)>> \o EncodeValue(EncodeNested, kind, values[i])]

EncodeAll(EncodeNested(_, _), type, msg) ==
  FlattenSeq(FlattenSeq(
    [number \in DOMAIN type.order |-> EncodeField(EncodeNested, type, msg, number)]))

---------------------------------------------------------------------------
(* Reading: a stream is split into fields, of which the last may be cut.   *)
IsWhole(field) ==
  Len(field) >= 2 /\ (field[2][1] = "length" => Len(field) = 2 + field[2][2])

AddToken(fields, token) ==
  IF fields = <<>> \/ IsWhole(fields[Len(fields)])
    THEN Append(fields, <<token>>)
    ELSE [fields EXCEPT ![Len(fields)] = Append(@, token)]

Split(stream) ==
  LET split[k \in 0 .. Len(stream)] ==
        IF k = 0 THEN <<>> ELSE AddToken(split[k - 1], stream[k])
  IN  split[Len(stream)]

(* What follows the tags that are this one.                                *)
Tagged(fields, tag) ==
  LET tagged[k \in 0 .. Len(fields)] ==
        IF k = 0 THEN <<>>
        ELSE IF fields[k][1] = tag THEN Append(tagged[k - 1], Tail(fields[k]))
        ELSE tagged[k - 1]
  IN  tagged[Len(fields)]

(* What there is for each value of a field.  A number or a text replaces   *)
(* the one before it, a nested message is merged into it, an element of a  *)
(* repeated field comes after the others; fields that are not known, or    *)
(* not of the type expected, are skipped.                                  *)
Pieces(type, fields, number) ==
  LET f == type.order[number]
      pieces == Tagged(fields, Tag(number, Element(type, f)))
  IN  CASE IsRepeated(type, f) -> [i \in DOMAIN pieces |-> <<pieces[i]>>]
        [] ~IsRepeated(type, f) /\ pieces # <<>> -> <<pieces>>
        [] ~IsRepeated(type, f) /\ pieces = <<>> -> <<>>

Nest(pieces) == FlattenSeq([i \in DOMAIN pieces |-> Tail(pieces[i])])

IsSet(type, fields, number) ==
  IsRepeated(type, type.order[number]) \/ Pieces(type, fields, number) # <<>>
FieldsSet(type, fields) ==
  {type.order[number] : number \in {n \in DOMAIN type.order : IsSet(type, fields, n)}}
NumberOf(type, f) == CHOOSE number \in DOMAIN type.order : type.order[number] = f

(* A nested message that goes on after the end of the stream is read as    *)
(* far as it is there; anything else that is cut is an error.              *)
FieldReads(type, field) ==
  /\ field[1][1] = "tag"
  /\ \/ IsWhole(field)
     \/ /\ Len(field) >= 2
        /\ \E number \in DOMAIN type.order :
             LET kind == Element(type, type.order[number])
             IN  kind.kind = "message" /\ field[1] = Tag(number, kind)

(* Whether a stream is read to its end and has all that is required.       *)
AllRead(NestedRead(_, _), type, stream) ==
  LET fields == Split(stream)
  IN  /\ \A i \in DOMAIN fields : FieldReads(type, fields[i])
      /\ type.required \subseteq FieldsSet(type, fields)
      /\ \A number \in DOMAIN type.order :
           LET kind == Element(type, type.order[number])
               pieces == Pieces(type, fields, number)
           IN  kind.kind = "message" =>
                 \A i \in DOMAIN pieces : NestedRead(kind.of, Nest(pieces[i]))

(* The message that has been read.                                         *)
DecodeValue(DecodeNested(_, _), kind, pieces) ==
  IF kind.kind = "message" THEN DecodeNested(kind.of, Nest(pieces))
  ELSE pieces[Len(pieces)][1][2]

DecodeField(DecodeNested(_, _), type, fields, number) ==
  LET f == type.order[number]
      pieces == Pieces(type, fields, number)
      values == [i \in DOMAIN pieces |-> DecodeValue(DecodeNested, Element(type, f), pieces[i])]
  IN  IF IsRepeated(type, f) THEN values ELSE values[1]

DecodeAll(DecodeNested(_, _), type, stream) ==
  LET fields == Split(stream)
  IN  [f \in FieldsSet(type, fields) |->
         DecodeField(DecodeNested, type, fields, NumberOf(type, f))]

---------------------------------------------------------------------------
(* Messages are nested at most two deep in a third one.                    *)
NotEncoded(type, msg) == <<>>
EncodeLeaf(type, msg) == EncodeAll(NotEncoded, type, msg)
EncodeInner(type, msg) == EncodeAll(EncodeLeaf, type, msg)
Encode(type, msg) == EncodeAll(EncodeInner, type, msg)

NotRead(type, stream) == FALSE
LeafRead(type, stream) == AllRead(NotRead, type, stream)
InnerRead(type, stream) == AllRead(LeafRead, type, stream)
IsRead(type, stream) == AllRead(InnerRead, type, stream)

NotDecoded(type, stream) == <<>>
DecodeLeaf(type, stream) == DecodeAll(NotDecoded, type, stream)
DecodeInner(type, stream) == DecodeAll(DecodeLeaf, type, stream)
Decode(type, stream) == DecodeAll(DecodeInner, type, stream)

Cut == [ok |-> FALSE, msg |-> <<>>]
Read(msg) == [ok |-> TRUE, msg |-> msg]
Parse(type, stream) ==
  IF IsRead(type, stream) THEN Read(Decode(type, stream)) ELSE Cut

ByteSize(type, msg) == Len(Encode(type, msg))
=============================================================================
