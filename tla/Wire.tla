-------------------------------- MODULE Wire ---------------------------------
(***************************************************************************)
(* The encoding of messages to bytes as the generated code under types/pb  *)
(* does it (protocol buffers): Marshal, Size and Unmarshal, for any        *)
(* message described by its fields.                                        *)
(*                                                                         *)
(* A field is [name, num, kind, sub]: its kind is "varint", "bool" (0 or   *)
(* 1), "bytes", "strings" (repeated bytes), "msg" (a pointer to a message, *)
(* Absent if nil), "embed" (a message that is always there) or "msgs"      *)
(* (repeated messages); sub holds the fields of the message, <<>>          *)
(* otherwise.  A message is a function from the names of its fields to     *)
(* values.                                                                 *)
(*                                                                         *)
(* The code's integers have 64 bits.  Here they have Width, so that the    *)
(* cases beyond the width are reachable; a group is 7 bits, as in the code.*)
(***************************************************************************)
EXTENDS Basics, Integers, SequencesExt

CONSTANTS Width  \* bits of an integer

Pow2(n) == 2^n

-----------------------------------------------------------------------------
(* Marshal *)

RECURSIVE EncodeVarint(_)

\* encodeVarintDymint: groups of 7 bits, the lowest first, all but the last marked.
EncodeVarint(v) == IF v < 128 THEN <<v>> ELSE <<128 + (v % 128)>> \o EncodeVarint(v \div 128)

WireType(f) == IF f.kind \in {"varint", "bool"} THEN 0 ELSE 2

Tag(f) == EncodeVarint(8 * f.num + WireType(f))

Delimited(f, bytes) == Tag(f) \o EncodeVarint(Len(bytes)) \o bytes

RECURSIVE Marshal(_, _)

\* The fields in the order of their numbers (the code writes them backwards, from the
\* end of the buffer); zero, empty and nil are left out, elements of a repeated field
\* are not.
Marshal(fields, m) ==
  LET field(f) ==
        LET v == m[f.name] IN
        CASE WireType(f) = 0     -> IF v = 0 THEN <<>> ELSE Tag(f) \o EncodeVarint(v)
          [] f.kind = "bytes"   -> IF v = <<>> THEN <<>> ELSE Delimited(f, v)
          [] f.kind = "strings" -> FlattenSeq([i \in DOMAIN v |-> Delimited(f, v[i])])
          [] f.kind = "msg"     -> IF v = Absent THEN <<>> ELSE Delimited(f, Marshal(f.sub, v))
          [] f.kind = "embed"   -> Delimited(f, Marshal(f.sub, v))
          [] f.kind = "msgs"    ->
               FlattenSeq([i \in DOMAIN v |-> Delimited(f, Marshal(f.sub, v[i]))])
  IN  FlattenSeq([i \in DOMAIN fields |-> field(fields[i])])

-----------------------------------------------------------------------------
(* Size, which Marshal allocates its buffer by *)

RECURSIVE BitLen(_)
BitLen(x) == IF x < 2 THEN 1 ELSE 1 + BitLen(x \div 2)

\* sovDymint: the length of a varint, from the bit length of x|1.
Sov(x) == (BitLen(x) + 6) \div 7

\* The constants 1 and 2 the generated code adds for a tag.
TagSize(f) == IF f.num < 16 THEN 1 ELSE 2

RECURSIVE Size(_, _)

\* Mutant: the size of an element of a repeated field is not counted.
Size_OneTag(fields, m) ==
  LET delimited(f, n) == TagSize(f) + n + Sov(n)
      sum(s) == FoldLeft(LAMBDA a, b : a + b, 0, s)
      size(f) ==
        LET v == m[f.name] IN
        CASE WireType(f) = 0     -> IF v = 0 THEN 0 ELSE TagSize(f) + Sov(v)
          [] f.kind = "bytes"   -> IF v = <<>> THEN 0 ELSE delimited(f, Len(v))
          [] f.kind = "strings" -> IF v = <<>> THEN 0
                                   ELSE delimited(f, sum([i \in DOMAIN v |-> Len(v[i])]))
          [] f.kind = "msg"     -> IF v = Absent THEN 0 ELSE delimited(f, Size(f.sub, v))
          [] f.kind = "embed"   -> delimited(f, Size(f.sub, v))
          [] f.kind = "msgs"    -> sum([i \in DOMAIN v |-> delimited(f, Size(f.sub, v[i]))])
  IN  sum([i \in DOMAIN fields |-> size(fields[i])])

Size(fields, m) ==
  LET delimited(f, n) == TagSize(f) + n + Sov(n)
      sum(s) == FoldLeft(LAMBDA a, b : a + b, 0, s)
      size(f) ==
        LET v == m[f.name] IN
        CASE WireType(f) = 0     -> IF v = 0 THEN 0 ELSE TagSize(f) + Sov(v)
          [] f.kind = "bytes"   -> IF v = <<>> THEN 0 ELSE delimited(f, Len(v))
          [] f.kind = "strings" -> sum([i \in DOMAIN v |-> delimited(f, Len(v[i]))])
          [] f.kind = "msg"     -> IF v = Absent THEN 0 ELSE delimited(f, Size(f.sub, v))
          [] f.kind = "embed"   -> delimited(f, Size(f.sub, v))
          [] f.kind = "msgs"    -> sum([i \in DOMAIN v |-> delimited(f, Size(f.sub, v[i]))])
  IN  sum([i \in DOMAIN fields |-> size(fields[i])])

-----------------------------------------------------------------------------
(* Unmarshal.  A position is an index into the bytes; what is read there is *)
(* [err, val, next], with an empty err if it could be read.                *)

MaxGroups == (Width + 6) \div 7

Bad(err) == [err |-> err, val |-> 0, next |-> 0]

RECURSIVE ReadGroups(_, _, _)

\* v with the bits of a group added.
Plus(v, group) == IF v.err # "" THEN v ELSE [v EXCEPT !.val = @ + group]

\* The loop over shift = 7 * k: too many groups overflow, the bits beyond the width are lost.
ReadGroups(b, i, k) ==
  LET group == ((b[i] % 128) % Pow2(Width - 7 * k)) * Pow2(7 * k)
  IN  IF k = MaxGroups THEN Bad("overflow")
      ELSE IF i > Len(b) THEN Bad("eof")
      ELSE Plus(IF b[i] < 128 THEN [err |-> "", val |-> 0, next |-> i + 1]
                              ELSE ReadGroups(b, i + 1, k + 1), group)

ReadVarint(b, i) == ReadGroups(b, i, 0)

\* Mutant: a length beyond the end takes what there is.
Bytes_NoEof(b, v) ==
  LET last == Min({Len(b), v.next + v.val - 1})
  IN  IF v.err # "" THEN v ELSE [v EXCEPT !.val = SubSeq(b, v.next, last), !.next = last + 1]

\* The bytes that the length v announces: it must not be negative as a signed integer,
\* nor lead beyond the end.
Bytes(b, v) ==
  IF v.err # "" THEN v
  ELSE IF v.val >= Pow2(Width - 1) \/ v.next + v.val >= Pow2(Width - 1) THEN Bad("length")
  ELSE IF v.next + v.val - 1 > Len(b) THEN Bad("eof")
  ELSE [v EXCEPT !.val = SubSeq(b, v.next, v.next + v.val - 1), !.next = v.next + v.val]

ReadLength(b, i) == Bytes(b, ReadVarint(b, i))

\* Where a field ends whose tag was read, and how deep in groups: the value of a field of
\* type 0 and the length of one of type 2 are read as len.
FieldEnd(tag, type, len, depth) ==
  LET at(next, d) == IF next >= Pow2(Width - 1) THEN Bad("length")
                     ELSE [err |-> "", val |-> d, next |-> next]
  IN  CASE type \in {0, 2} /\ len.err # ""                    -> len
        [] type = 0                                            -> at(len.next, depth)
        [] type = 1                                            -> at(tag.next + 8, depth)
        [] type = 2 /\ len.val >= Pow2(Width - 1)              -> Bad("length")
        [] type = 2                                            -> at(len.next + len.val, depth)
        [] type = 3                                            -> at(tag.next, depth + 1)
        [] type = 4 /\ depth = 0                               -> Bad("group")
        [] type = 4                                            -> at(tag.next, depth - 1)
        [] type = 5                                            -> at(tag.next + 4, depth)
        [] OTHER                                               -> Bad("wiretype")

SkipField(b, tag, depth) ==
  IF tag.err # "" THEN tag ELSE FieldEnd(tag, tag.val % 8, ReadVarint(b, tag.next), depth)

RECURSIVE SkipTo(_, _), Skip(_, _, _)

\* On with the fields of a group, to its end.
SkipTo(b, end) == IF end.err # "" \/ end.val = 0 THEN end ELSE Skip(b, end.next, end.val)

\* skipDymint: the end of an unknown field, groups nested depth deep included.
Skip(b, i, depth) ==
  IF i > Len(b) THEN Bad("eof") ELSE SkipTo(b, SkipField(b, ReadVarint(b, i), depth))

RECURSIVE Zero(_)

\* The message as Go allocates it.
Zero(fields) ==
  LET field(name) == CHOOSE f \in ToSet(fields) : f.name = name IN
  [name \in {fields[i].name : i \in DOMAIN fields} |->
     CASE WireType(field(name)) = 0  -> 0
       [] field(name).kind = "msg"   -> Absent
       [] field(name).kind = "embed" -> Zero(field(name).sub)
       [] OTHER                      -> <<>>]

RECURSIVE UnmarshalAt(_, _, _, _)

Outcome(err, m) == [err |-> err, msg |-> m]

\* The message a field is read into: the one that is there, or a new one.
Into(f, old) ==
  IF f.kind = "embed" \/ (f.kind = "msg" /\ old # Absent) THEN old ELSE Zero(f.sub)

\* The value of field f after the bytes of body were read for it: they replace bytes,
\* are appended to repeated ones, are merged into a message and appended as a message.
ReadInto(f, old, body) ==
  CASE f.kind = "bytes"   -> Outcome("", body)
    [] f.kind = "strings" -> Outcome("", Append(old, body))
    [] OTHER              -> UnmarshalAt(f.sub, body, 1, Into(f, old))

\* The rest of the message, with v for the field if it could be read.
Continue(fields, b, m, f, v, next) ==
  IF v.err # "" THEN Outcome(v.err, m)
  ELSE UnmarshalAt(fields, b, next,
                   [m EXCEPT ![f.name] = IF f.kind = "msgs" THEN Append(@, v.msg) ELSE v.msg])

AfterInt(fields, b, m, f, int) ==
  Continue(fields, b, m, f,
           Outcome(int.err, IF f.kind = "bool" /\ int.val # 0 THEN 1 ELSE int.val), int.next)

AfterBody(fields, b, m, f, body) ==
  IF body.err # "" THEN Outcome(body.err, m)
  ELSE Continue(fields, b, m, f, ReadInto(f, m[f.name], body.val), body.next)

AfterSkip(fields, b, m, end) ==
  IF end.err # "" THEN Outcome(end.err, m)
  ELSE IF end.next > Len(b) + 1 THEN Outcome("eof", m)
  ELSE UnmarshalAt(fields, b, end.next, m)

\* The number of a field is a signed integer of half the width.
FieldNum(tag) ==
  LET n == (tag.val \div 8) % Pow2(Width \div 2)
  IN  IF n >= Pow2(Width \div 2 - 1) THEN n - Pow2(Width \div 2) ELSE n

\* The fields that a tag names.
Known(fields, tag) == {f \in ToSet(fields) : f.num = FieldNum(tag)}

AfterTag(fields, b, i, m, tag) ==
  IF tag.err # "" THEN Outcome(tag.err, m)
  ELSE IF tag.val % 8 = 4 \/ FieldNum(tag) <= 0 THEN Outcome("tag", m)
  ELSE IF Known(fields, tag) = {} THEN AfterSkip(fields, b, m, Skip(b, i, 0))
  ELSE LET f == CHOOSE f \in Known(fields, tag) : TRUE
       IN  IF tag.val % 8 # WireType(f) THEN Outcome("wiretype", m)
           ELSE IF WireType(f) = 0 THEN AfterInt(fields, b, m, f, ReadVarint(b, tag.next))
           ELSE AfterBody(fields, b, m, f, ReadLength(b, tag.next))

\* One round of the loop after another.
UnmarshalAt(fields, b, i, m) ==
  IF i > Len(b) THEN Outcome("", m) ELSE AfterTag(fields, b, i, m, ReadVarint(b, i))

\* Unmarshal into a new message.
Unmarshal(fields, b) == UnmarshalAt(fields, b, 1, Zero(fields))
=============================================================================
