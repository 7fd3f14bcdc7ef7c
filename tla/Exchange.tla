------------------------------ MODULE Exchange ------------------------------
(***************************************************************************)
(* A query's way to the server and its answer's way back, byte by byte:    *)
(* mc.Query and exchange on one side (internal/mc/client.go), handleConn   *)
(* on the other (internal/mc/server.go).  The query is coded as addresses  *)
(* (QueryCodec) that travel in handshake frames (Frames), one connection   *)
(* each; the answer is a status whose names are coded by NameCodec.        *)
(* A connection carries bytes, in order, and gives them in any pieces.     *)
(*                                                                         *)
(* Only the contents are followed here, one connection after the other.    *)
(* That a status is JSON with a favicon in base64 is left out: a text has  *)
(* a length and starts with a brace.  Limits, slots and deadlines are      *)
(* ServerConn's, the meeting of the pieces is Fragments', lost pieces are  *)
(* FragmentedQuery's.                                                      *)
(***************************************************************************)
EXTENDS QueryCodec, NameCodec

CONSTANTS
  Queries,       \* what dnsmc clients ask
  Visits,        \* [address, port, nextState] of Minecraft players
  Noise,         \* what others send instead of frames
  Nonce,         \* the nonce of a fragmented query
  Owner,         \* owners of records, besides the name asked for
  MaxFrameSize,  \* the server's limit of a frame
  ReplyLimit,    \* the client's limit of a frame
  DNSLength,     \* the length of a status that carries an answer
  VanillaLength, \* the length of the status of an ordinary server
  Stamp          \* the eight bytes of a ping

ASSUME QueriesAssumption ==
  /\ Queries \subseteq [name : Seq(Seq(Byte)), type : Nat, class : Nat, edns : Nat]
  /\ \A q \in Queries : q.type < Endless /\ q.edns < Endless

ASSUME VisitsAssumption ==
  /\ Visits \subseteq [address : Seq(Nat), port : Nat, nextState : Nat]
  /\ \A v \in Visits : Len(v.address) < Endless /\ v.nextState < Endless

ASSUME RepliesAssumption ==
  /\ DNSLength \in Nat \ {0} /\ DNSLength < Endless * 16
  /\ VanillaLength \in Nat \ {0} /\ VanillaLength < Endless * 16
  /\ OpeningBrace < DNSLength

ASSUME NoneAssumption ==
  /\ None \notin [name : Seq(Seq(Nat)), type : Nat, class : Nat, edns : Nat]
  /\ None \notin Seq(Seq(Nat))

ASSUME ExchangeAssumption ==
  /\ Noise \subseteq Seq(Nat) /\ Owner \subseteq Seq(Seq(Nat))
  /\ Nonce \in Seq(Nat) /\ Len(Nonce) = NonceLength /\ \A i \in DOMAIN Nonce : Nonce[i] # Dot
  /\ Stamp \in Seq(Nat) /\ Len(Stamp) = 8
  /\ MaxFrameSize \in Nat \ {0} /\ ReplyLimit \in Nat \ {0}

VARIABLES
  query,       \* what the client asks, or None
  visits,      \* the connections it has still to make
  client,      \* where the client is
  server,      \* where the handler of its connection is
  up, down,    \* the two directions of the connection
  handshake,   \* the handshake parsed
  text,        \* the pieces of a fragmented query, joined
  understood,  \* the query decoded, or None
  status,      \* the status written in this connection
  shown        \* the status the client has read in it

connection == <<up, down, handshake, status, shown>>
vars == <<query, visits, client, server, connection, text, understood, names>>

(* A direction: what was written, how much has arrived, how much has been read; *)
(* and, for the properties, the frames written and read.                        *)
Silent == [bytes |-> << >>, arrived |-> 0, taken |-> 0, written |-> << >>, read |-> << >>]

Send(way, id, data) ==
  [way EXCEPT !.bytes = @ \o WriteFrame(id, data),
              !.written = Append(@, [id |-> id, data |-> data])]

\* What a read of a frame finds in the bytes that have arrived.
Incoming(way, limit) == ReadFrame(SubSeq(way.bytes, way.taken + 1, way.arrived), limit)

Read(way, frame) ==
  [way EXCEPT !.taken = @ + frame.size, !.read = Append(@, frame.value)]

\* A text of this length that looks like JSON.
JSON(length) == [i \in 1..length |-> IF i = 1 THEN OpeningBrace ELSE 34]

\* Whether json.Unmarshal takes it for JSON: not with a second brace in front.
Parses(json) == json = JSON(Len(json))

Init ==
  /\ \/ /\ query \in Queries
        /\ visits = IF Encodable(query) THEN Addresses(EncodeQuery(query), Nonce) ELSE << >>
        /\ client = (IF visits = << >> THEN "failed" ELSE "dial") /\ server = "none"
        /\ up = Silent
     \/ /\ query = None /\ \E visit \in Visits : visits = <<visit>>
        /\ client = "dial" /\ server = "none"
        /\ up = Silent
     \/ /\ query = None /\ visits = << >> /\ client = "stranger" /\ server = "handshake"
        /\ \E bytes \in Noise : up = [Silent EXCEPT !.bytes = bytes]
  /\ down = Silent
  /\ handshake = None /\ status = None /\ shown = None
  /\ text = << >> /\ understood = None
  /\ NamesInit

-----------------------------------------------------------------------------
(* exchange, and a player's client, which sends the same frames *)
Dial ==
  /\ client = "dial" /\ server \in {"none", "closed"}
  /\ client' = "handshake" /\ server' = "handshake"
  /\ up' = Silent /\ down' = Silent
  /\ handshake' = None /\ status' = None /\ shown' = None
  /\ UNCHANGED <<query, visits, text, understood, names>>

SendHandshake ==
  /\ client = "handshake"
  /\ client' = "request"
  /\ up' = Send(up, 0, EncodeHandshake(Head(visits)))
  /\ UNCHANGED <<query, visits, server, down, handshake, text, understood, status, shown, names>>

SendStatusRequest ==
  /\ client = "request"
  /\ client' = "status"
  /\ up' = Send(up, 0, << >>)
  /\ UNCHANGED <<query, visits, server, down, handshake, text, understood, status, shown, names>>

(* The status, and a ping; then the next connection, if there is one. *)
ReadStatus ==
  LET frame == Incoming(down, ReplyLimit)
      json == StatusJSON(frame.value.data)
  IN  /\ client = "status" /\ frame.status # "more"
      /\ IF frame.status = "bad" \/ frame.value.id # 0
           THEN client' = "failed" /\ UNCHANGED <<visits, up, down, shown>>
           ELSE /\ shown' = json
                /\ down' = Read(down, frame)
                /\ IF Parses(json)
                     THEN /\ up' = Send(up, 1, Stamp)
                          /\ visits' = Tail(visits)
                          /\ client' = IF Len(visits) = 1 THEN "done" ELSE "dial"
                     ELSE client' = "failed" /\ UNCHANGED <<visits, up>>
      /\ UNCHANGED <<query, server, handshake, text, understood, status, names>>

\* The server has closed the connection, and nothing that can be read is left.
GiveUp ==
  /\ client \in {"handshake", "request", "status"} /\ server = "closed"
  /\ down.arrived = Len(down.bytes) /\ Incoming(down, ReplyLimit).status = "more"
  /\ client' = "failed"
  /\ UNCHANGED <<query, visits, server, connection, text, understood, names>>

-----------------------------------------------------------------------------
(* handleConn *)
Close == server' = "closed" /\ UNCHANGED <<handshake, down, status>>

TakeHandshake(frame) ==
  LET parsed == ParseHandshake(frame.data)
  IN  IF frame.id = 0 /\ parsed.status = "ok" /\ parsed.value.nextState \in {1, 2}
        THEN /\ server' = IF parsed.value.nextState = 2 THEN "login" ELSE "request"
             /\ handshake' = parsed.value
             /\ UNCHANGED <<down, status>>
        ELSE Close

TakeRequest(frame) ==
  IF frame.id = 0 THEN server' = "decide" /\ UNCHANGED <<handshake, down, status>> ELSE Close

\* handleLogin: whatever the frame is, the player is not welcome.
TakeLogin ==
  /\ server' = "closed"
  /\ down' = Send(down, 0, WriteString(JSON(VanillaLength)))
  /\ UNCHANGED <<handshake, status>>

\* handlePing: a pong with the same stamp.
TakePing(frame) ==
  /\ server' = "closed"
  /\ down' = IF frame.id = 1 /\ Len(frame.data) = 8 THEN Send(down, 1, frame.data) ELSE down
  /\ UNCHANGED <<handshake, status>>

ServerReads ==
  LET frame == Incoming(up, MaxFrameSize)
  IN  /\ server \in {"handshake", "request", "login", "ping"} /\ frame.status # "more"
      /\ IF frame.status = "bad" THEN Close /\ UNCHANGED up
         ELSE /\ up' = Read(up, frame)
              /\ \/ server = "handshake" /\ TakeHandshake(frame.value)
                 \/ server = "request" /\ TakeRequest(frame.value)
                 \/ server = "login" /\ TakeLogin
                 \/ server = "ping" /\ TakePing(frame.value)
      /\ UNCHANGED <<query, visits, client, text, understood, shown, names>>

\* A deadline has passed, or the peer has gone.
Hangup ==
  /\ server \in {"handshake", "request", "login", "ping"}
  /\ Close
  /\ UNCHANGED <<query, visits, client, up, text, understood, shown, names>>

Reply(length) ==
  /\ down' = Send(down, 0, WriteString(JSON(length)))
  /\ status' = JSON(length)
  /\ server' = "ping"

\* A query is answered, unless it does not decode: then the reply is of this length.
Serve(bare, otherwise) ==
  LET decoded == DecodeQuery(bare)
  IN  IF decoded.status = "ok"
        THEN understood' = decoded.value /\ server' = "answer" /\ UNCHANGED <<down, status>>
        ELSE Reply(otherwise) /\ UNCHANGED understood

(* The address without its suffix and the passphrase: refused, a piece of a query, *)
(* which is acknowledged unless it is the last, or a query.                        *)
Decide ==
  LET bare == StripSuffix(handshake.address)
      rest == Remainder(bare)
  IN  /\ server = "decide"
      /\ IF ~Authentic(bare) THEN Reply(VanillaLength) /\ UNCHANGED <<text, understood>>
         ELSE IF IsFragment(rest, handshake.port)
           THEN /\ text' = text \o PieceOf(rest)
                /\ IF handshake.port \div 256 = handshake.port % 256
                     THEN Serve(text \o PieceOf(rest), DNSLength)
                     ELSE Reply(DNSLength) /\ UNCHANGED understood
           ELSE /\ Serve(rest, IF HasSuffix(handshake.address) THEN DNSLength ELSE VanillaLength)
                /\ UNCHANGED text
      /\ UNCHANGED <<query, visits, client, up, handshake, shown, names>>

(* The answer, name by name: the query's own, and the owners of its records. *)
Answer ==
  /\ server = "answer"
  /\ \/ Question(understood.name)
     \/ questions = 1 /\ \E n \in Owner \cup {understood.name} : Record(n)
  /\ UNCHANGED <<query, visits, client, server, connection, text, understood>>

SendAnswer ==
  /\ server = "answer" /\ questions = 1
  /\ Reply(DNSLength)
  /\ UNCHANGED <<query, visits, client, up, handshake, text, understood, shown, names>>

-----------------------------------------------------------------------------
\* One more byte arrives, or all that were written.
Arrived(way) ==
  {[way EXCEPT !.arrived = n] : n \in {way.arrived + 1, Len(way.bytes)}}

Arrive ==
  /\ \/ up.arrived < Len(up.bytes) /\ up' \in Arrived(up) /\ UNCHANGED down
     \/ down.arrived < Len(down.bytes) /\ down' \in Arrived(down) /\ UNCHANGED up
  /\ UNCHANGED <<query, visits, client, server, handshake, text, understood, status, shown, names>>

Finished ==
  /\ client \in {"done", "failed", "stranger"} /\ server \in {"none", "closed"}
  /\ UNCHANGED vars

Next ==
  \/ Dial \/ SendHandshake \/ SendStatusRequest \/ ReadStatus \/ GiveUp
  \/ ServerReads \/ Hangup \/ Decide \/ Answer \/ SendAnswer \/ Arrive \/ Finished

Spec == Init /\ [][Next]_vars
-----------------------------------------------------------------------------
(* However the bytes arrive, each side reads the frames the other wrote, one  *)
(* after the other and in full: no read starts within a frame.  And the JSON  *)
(* the client parses is the JSON of the status, though it takes a payload     *)
(* that starts with a brace to be JSON without a length: only a status as     *)
(* long as the code of a brace is misread, which an answer's never is.        *)
FramesInSync ==
  /\ client # "stranger" => IsPrefix(up.read, up.written)
  /\ IsPrefix(down.read, down.written)
  /\ shown # None /\ status # None => shown = status \/ Len(status) = OpeningBrace

(* Nobody makes the server wait for, and set aside memory for, more than a    *)
(* frame of the size it allows: once so much is there, it reads or hangs up.  *)
NeverWaitsForMore ==
  /\ server \in {"handshake", "request", "login", "ping"}
  /\ up.arrived - up.taken >= MaxFrameSize + VarIntBytes
  => Incoming(up, MaxFrameSize).status # "more"

(* What the server resolves is what the client asked, whether it came in one  *)
(* address or in pieces: the same type and the same name but for the case of  *)
(* its letters, EDNS if and only if the client used it, and never a larger    *)
(* buffer than the client has ("a conservative (smaller) size is always       *)
(* safe"); and a client that comes to the end has had its query understood.   *)
QueryUnderstood ==
  query # None =>
    /\ understood # None =>
         /\ Len(understood.name) = Len(query.name)
         /\ \A i \in DOMAIN query.name : understood.name[i] = Lower(query.name[i])
         /\ understood.type = query.type /\ understood.class = query.class
         /\ understood.edns = 0 <=> query.edns = 0
         /\ understood.edns <= Max({512, query.edns})
    /\ client = "done" => understood # None

(* No connection's address is longer than the Minecraft protocol allows one to *)
(* be, dots, suffix and passphrase included.                                    *)
AddressesFit == query # None => \A i \in DOMAIN visits : Len(visits[i].address) <= MaxAddress
=============================================================================
