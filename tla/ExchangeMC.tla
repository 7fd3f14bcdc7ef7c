----------------------------- MODULE ExchangeMC -----------------------------
EXTENDS Exchange

a == <<97>>
A == <<65>>
com == <<99, 111, 109>>
zz == <<122, 122>>
long == [i \in 1..12 |-> 96 + i]
mc == <<109, 99>>

MCTLDs == <<com, <<110, 101, 116>>>>
MCSuffix == <<Dot>> \o mc
MCPassphrase == <<115, 101>>
MCNonce == <<97, 98, 99, 100>>
MCStamp == [i \in 1..8 |-> i]

Asked(name, type, edns) == [name |-> name, type |-> type, class |-> 1, edns |-> edns]

\* A short name, letters of either case, a TLD without a code, a TLD alone, names of two
\* and three pieces and one that is too long; no name, and a class that is not IN.
MCQueries ==
  { Asked(<<a, com>>, 1, 0), Asked(<<A, <<67>> \o Tail(com)>>, 65535, 4096),
    Asked(<<a, zz>>, 28, 100), Asked(<<com>>, 128, 65535),
    Asked(<<long, a, com>>, 1, 1300), Asked(<<long, long, a>>, 16, 0),
    Asked(<<long, long, long, com>>, 1, 1232),
    Asked(<<long, long, long, long, long>>, 1, 0), Asked(<< >>, 1, 0),
    [Asked(<<a, com>>, 1, 0) EXCEPT !.class = 3] }

\* A player without the passphrase, one that logs in, one with it and no query, the same
\* without the suffix, and a handshake of no known kind.
MCVisits ==
  { [address |-> mc, port |-> 25565, nextState |-> 1],
    [address |-> mc, port |-> 25565, nextState |-> 2],
    [address |-> AuthPrefix \o a \o MCSuffix, port |-> 25565, nextState |-> 1],
    [address |-> AuthPrefix \o FragmentMarker \o MCNonce, port |-> 257, nextState |-> 1],
    [address |-> mc, port |-> 25565, nextState |-> 3] }

\* A length without an end, one just above the limit, one far above it, a frame whose
\* string does not fit, no length, and a frame without an id.
MCNoise ==
  { [i \in 1..6 |-> 255], <<81>> \o [i \in 1..90 |-> 0], <<255, 255, 3>> \o [i \in 1..90 |-> 0],
    <<5, 0, 1, 80, 97, 98>>, <<0, 0>>, <<2, 128, 128>> }

MCName == {[i \in DOMAIN q.name |-> Lower(q.name[i])] : q \in MCQueries} \cup {<<zz>>, <<mc>>}
MCOwner == {<<zz>>, <<mc>>}

\* The proofs suppose it of a configuration.
ASSUME RoomForPieceHere == RoomForPiece
=============================================================================
