------------------------------ MODULE NameCodec ------------------------------
(***************************************************************************)
(* The names of a compact response (internal/dnscodec/codec.go): most      *)
(* records are owned by the name that was asked for, so an owner is sent   *)
(* as a token that stands for a name both sides know.  packCompactResponse *)
(* and unpackCompactResponse each keep the question's name, the previous   *)
(* owner and a table of the names seen so far, and neither is told what    *)
(* the other has: a token is right only if the two are in step.            *)
(*                                                                         *)
(* A name is its uncompressed wire form, which is never empty.  The        *)
(* decoder reads the payload once from front to back and looks at nothing  *)
(* behind a token, so it may as well read each token when it is written:   *)
(* one action is one name, encoded and decoded.                            *)
(***************************************************************************)
EXTENDS Integers, Sequences

CONSTANTS
  Name,          \* domain names
  MaxQuestions,  \* questions in a response: one, or none in the answer to a bad query
  MaxRecords,    \* bound: records in a response
  None

ASSUME NameCodecAssumption ==
  /\ None \notin Name
  /\ MaxQuestions \in 0..1
  /\ MaxRecords \in Nat

VARIABLES
  enc,        \* the encoder: qnameWire, previousOwnerWire, nameTable
  dec,        \* the decoder's three
  questions,  \* how many questions have been sent
  sent,       \* the names encoded, questions first
  got,        \* the names decoded, up to an error
  broken      \* whether the decoder has met an error

names == <<enc, dec, questions, sent, got, broken>>

Known == [qname |-> None, prev |-> None, table |-> << >>]

NamesInit ==
  /\ enc = Known
  /\ dec = Known
  /\ questions = 0
  /\ sent = << >>
  /\ got = << >>
  /\ broken = FALSE

Literal(n) == [kind |-> "literal", name |-> n]

\* The places of a name in a table.
Places(n, table) == {i \in DOMAIN table : table[i] = n}

First(S) == CHOOSE i \in S : \A j \in S : i <= j

(* encodeName: the question's name, the previous owner, a name in the table, or *)
(* the name itself.  In the table indices start at one.                         *)
Token(n) ==
  IF n = enc.qname THEN [kind |-> "qname"]
  ELSE IF n = enc.prev THEN [kind |-> "prev"]
  ELSE IF Places(n, enc.table) # {} THEN [kind |-> "table", index |-> First(Places(n, enc.table))]
  ELSE Literal(n)

\* encodeName's effect on the table, and the owner kept for the next record.
Encoded(n) ==
  [enc EXCEPT !.table = IF Token(n).kind = "literal" THEN Append(@, n) ELSE @, !.prev = n]

\* readName succeeds: the decoder has the name the token stands for.
Readable(token) ==
  CASE token.kind = "qname" -> dec.qname # None
    [] token.kind = "prev" -> dec.prev # None
    [] token.kind = "table" -> token.index \in DOMAIN dec.table
    [] token.kind = "literal" -> TRUE

\* readName: the name a token stands for.
NameOf(token) ==
  CASE token.kind = "qname" -> dec.qname
    [] token.kind = "prev" -> dec.prev
    [] token.kind = "table" -> dec.table[token.index]
    [] token.kind = "literal" -> token.name

\* Every literal goes into the decoder's table.
TableAfter(token) ==
  IF token.kind = "literal" THEN Append(dec.table, token.name) ELSE dec.table

\* Mutant: the decoder does not count the question's name among the literals.
QuestionUnlisted(n) ==
  /\ sent = << >> /\ questions < MaxQuestions
  /\ enc' = [enc EXCEPT !.qname = n, !.table = <<n>>]
  /\ dec' = [dec EXCEPT !.qname = n]
  /\ questions' = questions + 1
  /\ sent' = Append(sent, n)
  /\ got' = Append(got, n)
  /\ UNCHANGED broken

(* The question: its name is a literal.  The encoder has put it into its table  *)
(* beforehand; the decoder adds it as it does every literal.                    *)
Question(n) ==
  /\ sent = << >> /\ questions < MaxQuestions
  /\ enc' = [enc EXCEPT !.qname = n, !.table = <<n>>]
  /\ dec' = [dec EXCEPT !.qname = n, !.table = TableAfter(Literal(n))]
  /\ questions' = questions + 1
  /\ sent' = Append(sent, n)
  /\ got' = Append(got, n)
  /\ UNCHANGED broken

(* A record: its owner as a token, which the decoder turns into a name. *)
Record(n) ==
  LET token == Token(n)
  IN  /\ Len(sent) - questions < MaxRecords /\ ~broken
      /\ sent' = Append(sent, n)
      /\ enc' = Encoded(n)
      /\ IF Readable(token)
           THEN /\ got' = Append(got, NameOf(token))
                /\ dec' = [dec EXCEPT !.prev = NameOf(token), !.table = TableAfter(token)]
                /\ UNCHANGED broken
           ELSE broken' = TRUE /\ UNCHANGED <<got, dec>>
      /\ UNCHANGED questions

NamesNext == \E n \in Name : Question(n) \/ Record(n)

NamesSpec == NamesInit /\ [][NamesNext]_names
-----------------------------------------------------------------------------
(* Type invariant of the two coders. *)
NamesTypeOK ==
  /\ enc \in [qname : Name \cup {None}, prev : Name \cup {None}, table : Seq(Name)]
  /\ dec \in [qname : Name \cup {None}, prev : Name \cup {None}, table : Seq(Name)]
  /\ questions \in 0..MaxQuestions
  /\ sent \in Seq(Name)
  /\ got \in Seq(Name)
  /\ broken \in BOOLEAN

(* The owners a client decodes are the owners the server encoded, record by     *)
(* record, and no token ever stands for a name the decoder does not have.       *)
NamesRestored == ~broken /\ got = sent
=============================================================================
