------------------------------- MODULE Frames -------------------------------
(***************************************************************************)
(* Minecraft frames (internal/mc/varint.go, frame.go and status.go): a     *)
(* VarInt with the length, a VarInt with the packet's id, and data.        *)
(* A frame is read from a connection, which gives bytes as they arrive, by *)
(* reads that wait for all they ask for; what a frame holds is parsed from *)
(* a buffer, where to run out of bytes is an error.                        *)
(*                                                                         *)
(* A byte is a number.  A reader's result is the value it read and how     *)
(* many bytes it took, or that it needs more bytes, or that it failed.     *)
(***************************************************************************)
EXTENDS Integers, Sequences, FiniteSetsExt

CONSTANTS
  VarIntBytes,  \* the most bytes a VarInt may have: 5
  MaxString     \* the most bytes of a string: 255*4

ASSUME FramesAssumption ==
  /\ VarIntBytes \in Nat /\ VarIntBytes >= 3
  /\ MaxString \in Nat

Ok(value, size) == [status |-> "ok", value |-> value, size |-> size]
More == [status |-> "more"]
Bad == [status |-> "bad"]

\* The bytes after the first n, and the first n of them if there are so many.
After(bytes, n) == SubSeq(bytes, n + 1, Len(bytes))
Take(bytes, n) == SubSeq(bytes, 1, Min({n, Len(bytes)}))

\* The number these bytes stand for, the least significant seven bits first.
Number(bytes) ==
  LET value[i \in 0..Len(bytes)] ==
        IF i = 0 THEN 0 ELSE (bytes[Len(bytes) + 1 - i] % 128) + 128 * value[i - 1]
  IN  value[Len(bytes)]

(* A variable-length integer: the first byte below 128 is its last, and there *)
(* are no more than most of them.                                             *)
Uvarint(bytes, most) ==
  LET ends == {i \in 1..Min({most, Len(bytes)}) : bytes[i] < 128}
  IN  IF ends # {} THEN Ok(Number(SubSeq(bytes, 1, Min(ends))), Min(ends))
      ELSE IF Len(bytes) < most THEN More ELSE Bad

ReadVarInt(bytes) == Uvarint(bytes, VarIntBytes)

\* PutUvarint: seven bits at a time, until nothing is left.
WriteVarInt(n) ==
  LET rest[i \in 0..VarIntBytes] == IF i = 0 THEN n ELSE rest[i - 1] \div 128
      size == Min({s \in 1..VarIntBytes : rest[s] = 0})
  IN  [i \in 1..size |-> (rest[i - 1] % 128) + IF i < size THEN 128 ELSE 0]

ReadString(bytes) ==
  LET length == ReadVarInt(bytes)
  IN  IF length.status # "ok" THEN length
      ELSE IF length.value > MaxString THEN Bad
      ELSE IF Len(bytes) < length.size + length.value THEN More
      ELSE Ok(Take(After(bytes, length.size), length.value), length.size + length.value)

WriteString(text) == WriteVarInt(Len(text)) \o text

\* Mutant: the length is not limited.
AllowedAny(length, limit) == length > 0

Allowed(length, limit) == length > 0 /\ length <= limit

\* Mutant: a read that returns with less than it asked for will do.
CompleteAny(body, length) == body # << >>

\* io.ReadFull has all it asked for.
Complete(body, length) == Len(body) = length

(* ReadFrameLimit: the length is checked before anything is read or stored. *)
ReadFrame(bytes, limit) ==
  LET length == ReadVarInt(bytes)
      body == Take(After(bytes, length.size), length.value)
      id == ReadVarInt(body)
  IN  IF length.status # "ok" THEN length
      ELSE IF ~Allowed(length.value, limit) THEN Bad
      ELSE IF ~Complete(body, length.value) THEN More
      ELSE IF id.status # "ok" THEN Bad
      ELSE Ok([id |-> id.value, data |-> After(body, id.size)], length.size + Len(body))

WriteFrame(id, data) ==
  LET body == WriteVarInt(id) \o data IN WriteVarInt(Len(body)) \o body

-----------------------------------------------------------------------------
(* The handshake: the address a player would have typed carries the query. *)
ParseHandshake(payload) ==
  LET version == ReadVarInt(payload)
      address == ReadString(After(payload, version.size))
      rest == After(payload, version.size + address.size)
      next == ReadVarInt(After(rest, 2))
  IN  IF /\ version.status = "ok" /\ address.status = "ok"
         /\ Len(rest) >= 2 /\ next.status = "ok"
        THEN Ok([address |-> address.value, port |-> 256 * rest[1] + rest[2],
                 nextState |-> next.value], Len(payload))
        ELSE Bad

Protocol == 765

\* The payload of a handshake; its frame has the id 0.
EncodeHandshake(visit) ==
  WriteVarInt(Protocol) \o WriteString(visit.address)
    \o <<visit.port \div 256, visit.port % 256>> \o WriteVarInt(visit.nextState)

(* The client's reading of a status: JSON as it is, or JSON after its length. *)
OpeningBrace == 123

StatusJSON(payload) ==
  LET length == ReadVarInt(payload)
  IN  IF payload # << >> /\ payload[1] = OpeningBrace THEN payload
      ELSE IF length.status # "ok" THEN payload
      ELSE Take(After(payload, length.size), length.value)
=============================================================================
