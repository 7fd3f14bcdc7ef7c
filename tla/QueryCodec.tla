----------------------------- MODULE QueryCodec -----------------------------
(***************************************************************************)
(* A DNS query as the address of a Minecraft server, or as the addresses   *)
(* of several (internal/dnscodec/codec.go: EncodeQuery, DecodeQuery and    *)
(* StripSuffix; internal/mc/client.go: the splitting into pieces).         *)
(*                                                                         *)
(* Text is a sequence of character codes, and a domain name the sequence   *)
(* of its labels; a dot or an escape within a label is left out.  encoding/ *)
(* base32 is modelled by what it does: it regroups the bits of the wire by *)
(* five, and refuses the lengths no wire has.                              *)
(***************************************************************************)
EXTENDS Frames, SequencesExt

CONSTANTS
  TLDs,               \* tldList
  Suffix,             \* the suffix of the server's addresses
  Passphrase,         \* the shared secret, empty for none
  MaxAddress,         \* maxSingleServerAddress
  MaxFragmentPieces,  \* maxFragmentPieces
  MaxLabelLength,     \* fragmentMaxLabelLength
  MinPieceLength      \* the shortest piece a long query is cut into: 40

\* Nothing that is configured, asked or sent is as long as this.
Endless == 256 * 256

Byte == 0..255

ASSUME QueryCodecAssumption ==
  /\ TLDs \in Seq(Seq(Byte)) /\ Len(TLDs) \in Byte
  /\ Suffix \in Seq(Nat) /\ Len(Suffix) < Endless
  /\ Passphrase \in Seq(Nat) /\ Len(Passphrase) < Endless
  /\ MaxAddress \in 0..Endless
  /\ MaxFragmentPieces \in Byte
  /\ MaxLabelLength \in Nat \ {0}
  /\ MinPieceLength \in 1..Endless

Dot == 46

\* A text without its dots.
Joined(text) ==
  LET joined[i \in 0..Len(text)] ==
        IF i = 0 THEN << >>
        ELSE IF text[i] = Dot THEN joined[i - 1] ELSE Append(joined[i - 1], text[i])
  IN  joined[Len(text)]

Lower(text) == [i \in DOMAIN text |-> IF text[i] \in 65..90 THEN text[i] + 32 ELSE text[i]]
Upper(text) == [i \in DOMAIN text |-> IF text[i] \in 97..122 THEN text[i] - 32 ELSE text[i]]

-----------------------------------------------------------------------------
(* base32, without padding *)

\* Whether bit j of a sequence of w-bit numbers is set; there are zeros at its end.
BitSet(s, w, j) ==
  j <= w * Len(s) /\ (s[((j - 1) \div w) + 1] \div 2^(w - 1 - ((j - 1) % w))) % 2 = 1

\* The number that the v bits after the first so many of them make.
BitsAfter(s, w, first, v) ==
  LET value[k \in 0..v] ==
        IF k = 0 THEN 0 ELSE 2 * value[k - 1] + IF BitSet(s, w, first + k) THEN 1 ELSE 0
  IN  value[v]

\* The bits of a sequence of w-bit numbers, as n numbers of v bits each.
Regroup(s, w, v, n) == [i \in 1..n |-> BitsAfter(s, w, v * (i - 1), v)]

Alphabet == [d \in 0..31 |-> IF d < 26 THEN 65 + d ELSE 24 + d]

Base32(bytes) ==
  LET digits == Regroup(bytes, 8, 5, (8 * Len(bytes) + 4) \div 5)
  IN  [i \in DOMAIN digits |-> Alphabet[digits[i]]]

FromBase32(text) ==
  IF \/ Len(text) % 8 \in {1, 3, 6}
     \/ \E i \in DOMAIN text : \A d \in 0..31 : Alphabet[d] # text[i]
    THEN Bad
    ELSE LET digits == [i \in DOMAIN text |-> CHOOSE d \in 0..31 : Alphabet[d] = text[i]]
         IN  Ok(Regroup(digits, 5, 8, (5 * Len(text)) \div 8), Len(text))

-----------------------------------------------------------------------------
(* Queries: [name, type, class, edns], edns being the size of the buffer the *)
(* client advertises, or 0 without EDNS.                                     *)
MagicMinimal == 255
MagicEdns    == 254
TldRaw       == 0
ClassINET    == 1

CodeOf(label) ==
  LET codes == {c \in DOMAIN TLDs : TLDs[c] = label}
  IN  IF codes = {} THEN TldRaw ELSE Min(codes)

PackLabels(labels) ==
  LET packed[i \in 0..Len(labels)] ==
        IF i = 0 THEN << >> ELSE packed[i - 1] \o <<Len(labels[i])>> \o labels[i]
  IN  Append(packed[Len(labels)], 0)

UnpackLabels(wire) ==
  LET from[p \in 1..Len(wire) + 64] ==
        IF p > Len(wire) \/ wire[p] > 63 THEN Bad
        ELSE IF wire[p] = 0 THEN IF p = Len(wire) THEN Ok(<< >>, 0) ELSE Bad
        ELSE LET rest == from[p + wire[p] + 1]
             IN  IF rest.status # "ok" THEN Bad
                 ELSE Ok(<<SubSeq(wire, p + 1, p + wire[p])>> \o rest.value, 0)
  IN  from[1]

\* Mutant: the size of the buffer is rounded up.
EncodeEdnsSizeUp(size) == (Max({size, 512}) + 255) \div 256

(* encodeEdnsSize: the size in units of 256 bytes, rounded down. *)
EncodeEdnsSize(size) == Max({size, 512}) \div 256

Encodable(query) ==
  /\ query.class = ClassINET /\ query.name # << >>
  /\ \A i \in DOMAIN query.name : Len(query.name[i]) \in 1..63

(* EncodeQuery, for a query that can be encoded: the wire in lower-case base32. *)
EncodeQuery(query) ==
  LET labels == [i \in DOMAIN query.name |-> Lower(query.name[i])]
      code == CodeOf(Last(labels))
      magic == IF query.edns = 0 THEN <<MagicMinimal>>
               ELSE <<MagicEdns, EncodeEdnsSize(query.edns)>>
  IN  Lower(Base32(magic \o <<code>> \o WriteVarInt(query.type)
                     \o PackLabels(IF code = TldRaw THEN labels ELSE Front(labels))))

(* DecodeQuery, of a text whose suffix has been removed; its dots only keep the *)
(* labels of the address short.                                                 *)
DecodeQuery(text) ==
  LET decoded == FromBase32(Upper(Joined(text)))
      wire == decoded.value
      edns == wire[1] = MagicEdns
      start == IF edns THEN 3 ELSE 2
      code == wire[start]
      type == Uvarint(After(wire, start), 10)
      labels == UnpackLabels(After(wire, start + type.size))
  IN  IF \/ decoded.status # "ok" \/ wire = << >>
         \/ wire[1] \notin {MagicMinimal, MagicEdns} \/ Len(wire) <= start
         \/ type.status # "ok" \/ type.value > 65535
         \/ labels.status # "ok" \/ (code # TldRaw /\ code \notin DOMAIN TLDs)
        THEN Bad
        ELSE Ok([name  |-> IF code = TldRaw THEN labels.value ELSE Append(labels.value, TLDs[code]),
                 type  |-> type.value, class |-> ClassINET,
                 edns  |-> IF edns THEN 256 * wire[2] ELSE 0], Len(text))

-----------------------------------------------------------------------------
(* Addresses.  A query that does not fit into one is cut into pieces. *)
Marker == <<112, Dot>>          \* "p."
FragmentMarker == <<110, Dot>>  \* "n."
NonceLength == 4

AuthPrefix == IF Passphrase = << >> THEN << >> ELSE Append(Marker \o Passphrase, Dot)

SuffixWithDot ==
  IF Suffix = << >> \/ Head(Suffix) = Dot THEN Suffix ELSE <<Dot>> \o Suffix

\* splitEncodedPieces: all pieces but the last are of this length.
Pieces(text, length) ==
  [i \in 1..(Len(text) + length - 1) \div length |->
     SubSeq(text, (i - 1) * length + 1, Min({i * length, Len(text)}))]

\* A dot after every MaxLabelLength characters, but none at the end.
ChunkLabels(text) ==
  [i \in 1..Len(text) + (Len(text) - 1) \div MaxLabelLength |->
     IF i % (MaxLabelLength + 1) = 0 THEN Dot ELSE text[i - i \div (MaxLabelLength + 1)]]

\* What an address has left for a piece and the dots in it.
PieceBudget ==
  MaxAddress - Len(AuthPrefix) - Len(FragmentMarker) - NonceLength - 1 - Len(SuffixWithDot)

\* The suffix and the passphrase leave room for the shortest piece of a query and its
\* dots: what whoever configures them has to see to, for nothing in the program does.
RoomForPiece == MinPieceLength + (MinPieceLength - 1) \div MaxLabelLength <= PieceBudget

\* Mutant: the dots between the labels of a piece are not reckoned with.
MaxPieceLengthTight == Max({PieceBudget, MinPieceLength})

\* One character in MaxLabelLength + 1 is a dot; but a piece has a least length.
MaxPieceLength == Max({(PieceBudget * MaxLabelLength) \div (MaxLabelLength + 1), MinPieceLength})

(* Query and queryFragmented: what to type in as the address of the server, and *)
(* its port, in each connection in turn; none if there would be too many.           *)
DefaultPort == 25565

Addresses(text, nonce) ==
  LET whole == AuthPrefix \o text \o SuffixWithDot
      pieces == Pieces(text, MaxPieceLength)
  IN  IF Len(whole) <= MaxAddress THEN <<[address |-> whole, port |-> DefaultPort, nextState |-> 1]>>
      ELSE IF Len(pieces) > MaxFragmentPieces THEN << >>
      ELSE [i \in DOMAIN pieces |->
              [address |-> AuthPrefix \o FragmentMarker \o nonce \o <<Dot>>
                             \o ChunkLabels(pieces[i]) \o SuffixWithDot,
               port |-> 256 * i + Len(pieces), nextState |-> 1]]

(* StripSuffix, whatever the case of the letters; the dot before the suffix goes too. *)
HasSuffix(address) == Suffix # << >> /\ IsSuffix(Lower(Suffix), Lower(address))

StripSuffix(address) ==
  LET bare == Take(address, Len(address) - Len(Suffix))
  IN  IF ~HasSuffix(address) THEN address
      ELSE IF bare # << >> /\ Last(bare) = Dot THEN Front(bare) ELSE bare

(* extractPassphrase: whether an address shows the passphrase, and what follows. *)
Authentic(bare) == Passphrase = << >> \/ IsPrefix(AuthPrefix, bare)
Remainder(bare) == After(bare, Len(AuthPrefix))

(* isFragmented, and a fragment's piece. *)
IsFragment(bare, port) ==
  LET nonce == SubSeq(bare, 3, 2 + NonceLength)
      index == port \div 256
      total == port % 256
  IN  /\ IsPrefix(FragmentMarker, bare)
      /\ Len(bare) > 2 + NonceLength /\ bare[3 + NonceLength] = Dot
      /\ \A i \in DOMAIN nonce : nonce[i] # Dot
      /\ index \in 1..total /\ total \in 2..MaxFragmentPieces

PieceOf(bare) == Joined(After(bare, 3 + NonceLength))
=============================================================================
