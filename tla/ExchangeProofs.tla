--------------------------- MODULE ExchangeProofs ---------------------------
(***************************************************************************)
(* Proofs about Exchange, for every limit of a frame, every query and      *)
(* every way its bytes arrive, and about the coders of names (NameCodec),  *)
(* for every set of names and every number of records.  Three layers:      *)
(* what each reader makes of what each writer wrote (base32, labels,       *)
(* queries, addresses, numbers, strings, frames); the inductive invariant  *)
(* IInv of the two directions of a connection; and on top of it Asks, how  *)
(* far a query has come, and Named, what the coders of names are handed.   *)
(***************************************************************************)
EXTENDS Exchange, WellFoundedInduction, TLAPS

-----------------------------------------------------------------------------
(* The coders of names *)
USE NameCodecAssumption

\* No name is in the table twice, so that a name has one place in it.
Distinct(table) == \A i, j \in DOMAIN table : table[i] = table[j] => i = j

(* Neither side is told what the other has: that they have the same is what *)
(* makes a token right, and it takes the decoder's error to break it.       *)
InStep ==
  /\ enc = dec
  /\ Distinct(enc.table)
  /\ sent = << >> => enc = Known

(* What NamesTypeOK says, of any set of names: what Exchange hands to the coders *)
(* is not limited to Name.                                                       *)
NamesIn(T) ==
  /\ enc \in [qname : T \cup {None}, prev : T \cup {None}, table : Seq(T)]
  /\ dec \in [qname : T \cup {None}, prev : T \cup {None}, table : Seq(T)]
  /\ questions \in 0..MaxQuestions
  /\ sent \in Seq(T) /\ got \in Seq(T) /\ broken \in BOOLEAN

NamesInv(T) == NamesIn(T) /\ NamesRestored /\ InStep

(* A name in the table has a place there, and the place has the name. *)
LEMMA PlaceFound ==
  ASSUME NEW T, NEW table \in Seq(T), Distinct(table), NEW n \in T, Places(n, table) # {}
  PROVE  /\ First(Places(n, table)) \in DOMAIN table
         /\ table[First(Places(n, table))] = n
<1>1. PICK i \in Places(n, table) : TRUE
  OBVIOUS
<1>2. \A j \in Places(n, table) : j = i
  BY <1>1 DEF Places, Distinct
<1>3. DOMAIN table \subseteq Int
  OBVIOUS
<1>4. \A j \in Places(n, table) : i <= j
  BY <1>1, <1>2, <1>3 DEF Places
<1>5. First(Places(n, table)) \in Places(n, table)
  BY <1>1, <1>4 DEF First
<1>6. QED
  BY <1>5 DEF Places

(* A name that is not in the table may be added to it. *)
LEMMA StaysDistinct ==
  ASSUME NEW T, NEW table \in Seq(T), Distinct(table), NEW n \in T, Places(n, table) = {}
  PROVE  Append(table, n) \in Seq(T) /\ Distinct(Append(table, n))
<1>1. Append(table, n) \in Seq(T)
  OBVIOUS
<1>2. \A i \in DOMAIN table : table[i] # n
  BY DEF Places
<1>3. Distinct(Append(table, n))
  BY <1>2 DEF Distinct
<1>4. QED
  BY <1>1, <1>3

(* While the two are in step, the decoder has the name a token stands for, *)
(* and it is the name the encoder had.                                     *)
LEMMA TokenRight ==
  ASSUME NEW T, None \notin T, NamesInv(T), NEW n \in T
  PROVE  Readable(Token(n)) /\ NameOf(Token(n)) = n
<1>0. n # None
  OBVIOUS
<1>1. CASE n = enc.qname
  BY <1>0, <1>1 DEF NamesInv, InStep, Token, Readable, NameOf
<1>2. CASE n # enc.qname /\ n = enc.prev
  BY <1>0, <1>2 DEF NamesInv, InStep, Token, Readable, NameOf
<1>3. CASE n # enc.qname /\ n # enc.prev /\ Places(n, enc.table) # {}
  <2>1. enc.table \in Seq(T) /\ Distinct(enc.table)
    BY DEF NamesInv, NamesIn, InStep
  <2>2. /\ First(Places(n, enc.table)) \in DOMAIN enc.table
        /\ enc.table[First(Places(n, enc.table))] = n
    BY <1>3, <2>1, PlaceFound
  <2>3. Token(n) = [kind |-> "table", index |-> First(Places(n, enc.table))]
    BY <1>3 DEF Token
  <2>4. QED
    BY <2>2, <2>3 DEF NamesInv, InStep, Readable, NameOf
<1>4. CASE n # enc.qname /\ n # enc.prev /\ Places(n, enc.table) = {}
  BY <1>4 DEF Token, Literal, Readable, NameOf
<1>5. QED
  BY <1>1, <1>2, <1>3, <1>4

(* A name is sent as a literal only if it is not in the table. *)
LEMMA LiteralIsNew ==
  ASSUME NEW n
  PROVE  /\ Token(n).kind = "literal" => Token(n).name = n /\ Places(n, enc.table) = {}
         /\ Token(n).kind # "literal" => Token(n).kind \in {"qname", "prev", "table"}
BY DEF Token, Literal

LEMMA NamesInitHolds ==
  ASSUME NEW T, NamesInit
  PROVE  NamesInv(T)
<1>1. enc = [qname |-> None, prev |-> None, table |-> << >>] /\ dec = enc
  BY DEF NamesInit, Known
<1>2. enc \in [qname : T \cup {None}, prev : T \cup {None}, table : Seq(T)]
  BY <1>1
<1>3. sent \in Seq(T) /\ got \in Seq(T) /\ questions \in 0..MaxQuestions
  BY DEF NamesInit
<1>4. broken = FALSE /\ got = sent /\ enc = Known
  BY DEF NamesInit
<1>5. NamesIn(T)
  BY <1>1, <1>2, <1>3, <1>4, Zenon DEF NamesIn
<1>6. Distinct(enc.table)
  BY <1>1 DEF Distinct
<1>7. QED
  BY <1>1, <1>4, <1>5, <1>6 DEF NamesInv, NamesRestored, InStep

(* The question is the first name of both tables. *)
LEMMA QuestionKeeps ==
  ASSUME NEW T, None \notin T, NamesInv(T), NEW n \in T, Question(n)
  PROVE  NamesInv(T)'
<1>1. enc = Known /\ dec = Known /\ got = << >> /\ sent = << >>
  BY DEF NamesInv, InStep, NamesRestored, Question
<1>2. enc' = [qname |-> n, prev |-> None, table |-> <<n>>]
  BY <1>1 DEF Question, Known
<1>3. dec' = enc'
  BY <1>1, <1>2 DEF Question, Known, TableAfter, Literal
<1>4. sent' = <<n>> /\ got' = <<n>> /\ broken' = FALSE
  BY <1>1 DEF Question, NamesInv, NamesIn, NamesRestored
<1>5. questions' \in 0..MaxQuestions
  BY DEF Question, NamesInv, NamesIn
<1>6. NamesIn(T)'
  <2>1. enc' \in [qname : T \cup {None}, prev : T \cup {None}, table : Seq(T)]
    BY <1>2
  <2>2. sent' \in Seq(T) /\ got' \in Seq(T)
    BY <1>4
  <2>3. QED
    BY <1>3, <1>4, <1>5, <2>1, <2>2, Zenon DEF NamesIn
<1>7. Distinct(enc.table)'
  BY <1>2 DEF Distinct
<1>8. QED
  BY <1>3, <1>4, <1>6, <1>7 DEF NamesInv, NamesRestored, InStep

(* The two tables grow by the same names. *)
LEMMA RecordKeeps ==
  ASSUME NEW T, None \notin T, NamesInv(T), NEW n \in T, Record(n)
  PROVE  NamesInv(T)'
<1> DEFINE token == Token(n)
<1>1. Readable(token) /\ NameOf(token) = n
  BY TokenRight
<1>2. /\ sent' = Append(sent, n) /\ got' = Append(got, n)
      /\ broken' = broken /\ questions' = questions
  BY <1>1 DEF Record
<1>3. enc \in [qname : T \cup {None}, prev : T \cup {None}, table : Seq(T)]
  BY DEF NamesInv, NamesIn
<1>4. dec = enc /\ Distinct(enc.table)
  BY DEF NamesInv, InStep
<1> DEFINE table == IF token.kind = "literal" THEN Append(enc.table, n) ELSE enc.table
<1>5. table \in Seq(T) /\ Distinct(table)
  BY <1>3, <1>4, LiteralIsNew, StaysDistinct
<1>6. enc' = [enc EXCEPT !.table = table, !.prev = n]
  BY DEF Record, Encoded
<1>7. TableAfter(token) = table
  BY <1>4, LiteralIsNew DEF TableAfter
<1>8. dec' = [dec EXCEPT !.prev = n, !.table = table]
  BY <1>1, <1>7 DEF Record
<1> HIDE DEF table
<1>9. enc' = [qname |-> enc.qname, prev |-> n, table |-> table] /\ dec' = enc'
  BY <1>3, <1>4, <1>6, <1>8
<1>10. /\ sent \in Seq(T) /\ got = sent /\ broken = FALSE /\ questions \in 0..MaxQuestions
  BY Zenon DEF NamesInv, NamesIn, NamesRestored
<1>11. NamesIn(T)'
  <2>1. enc' \in [qname : T \cup {None}, prev : T \cup {None}, table : Seq(T)]
    BY <1>3, <1>5, <1>9
  <2>2. sent' \in Seq(T) /\ got' \in Seq(T)
    BY <1>2, <1>10
  <2>3. QED
    BY <1>2, <1>9, <1>10, <2>1, <2>2, Zenon DEF NamesIn
<1>12. sent' # << >>
  BY <1>2, <1>10
<1>13. Distinct(enc.table)'
  BY <1>5, <1>9 DEF Distinct
<1>14. QED
  BY <1>2, <1>9, <1>10, <1>11, <1>12, <1>13 DEF NamesInv, NamesRestored, InStep

LEMMA NamesInvHolds == NamesSpec => []NamesInv(Name)
<1>1. NamesInv(Name) /\ [NamesNext]_names => NamesInv(Name)'
  <2> SUFFICES ASSUME NamesInv(Name), [NamesNext]_names PROVE NamesInv(Name)'
    OBVIOUS
  <2>1. CASE NamesNext
    BY <2>1, QuestionKeeps, RecordKeeps DEF NamesNext
  <2>2. CASE UNCHANGED names
    BY <2>2 DEF names, NamesInv, NamesIn, NamesRestored, InStep, Distinct
  <2>3. QED
    BY <2>1, <2>2
<1>2. NamesInit => NamesInv(Name)
  BY NamesInitHolds, NameCodecAssumption
<1>3. QED
  BY <1>1, <1>2, PTL DEF NamesSpec

(* The owners a client decodes from a response are the owners the server *)
(* encoded, whatever the names and however many records: the two tables  *)
(* packCompactResponse and unpackCompactResponse keep never part.        *)
THEOREM OwnersRestored == NamesSpec => []NamesRestored
<1>1. NamesInv(Name) => NamesRestored
  BY DEF NamesInv
<1>2. QED
  BY <1>1, NamesInvHolds, PTL

(* The coders stay within their types. *)
THEOREM NamesTypeCorrect == NamesSpec => []NamesTypeOK
<1>1. NamesInv(Name) => NamesTypeOK
  BY DEF NamesInv, NamesIn, NamesTypeOK
<1>2. QED
  BY <1>1, NamesInvHolds, PTL

-----------------------------------------------------------------------------
HIDE NameCodecAssumption

(* Numbers and recursive functions *)

\* Induction, for a set instead of a formula.
LEMMA EveryNumber ==
  ASSUME NEW S, 0 \in S, \A n \in Nat : n \in S => n + 1 \in S
  PROVE  Nat \subseteq S
<1> DEFINE T == Nat \ S
<1> SUFFICES ASSUME T # {} PROVE FALSE
  OBVIOUS
<1>1. PICK n \in T : \A m \in T : ~(<<m, n>> \in OpToRel(<, Nat))
  BY NatLessThanWellFounded, WFMin
<1>2. \A m \in T : ~(m < n)
  BY <1>1 DEF OpToRel
<1>3. n \in Nat /\ n \notin S
  OBVIOUS
<1>4. \A m \in Nat : m < n => m \in S
  BY <1>2
<1> HIDE DEF T
<1>5. CASE n = 0
  BY <1>3, <1>5
<1>6. CASE n # 0
  <2>1. n - 1 \in Nat /\ n - 1 < n /\ (n - 1) + 1 = n
    BY <1>3, <1>6
  <2>2. QED
    BY <1>3, <1>4, <2>1
<1>7. QED
  BY <1>5, <1>6

\* What Min finds.
LEMMA Least ==
  ASSUME NEW S \in SUBSET Nat, S # {}
  PROVE  Min(S) \in S /\ \A m \in S : Min(S) <= m
<1>1. PICK n \in S : \A m \in S : ~(<<m, n>> \in OpToRel(<, Nat))
  BY NatLessThanWellFounded, WFMin
<1>2. \A m \in S : ~(m < n)
  BY <1>1 DEF OpToRel
<1>3. \A m \in S : n <= m
  BY <1>2
<1>4. QED
  BY <1>3 DEF Min

Unfolds(f, base, n, step) ==
  \A i \in 0..n : f[i] = IF i = 0 THEN base ELSE step[<<i, f[i - 1]>>]

(* A recursive definition whose steps stay within T has a value, ... *)
LEMMA Recursion ==
  ASSUME NEW T, NEW base \in T, NEW n \in Nat, NEW step \in [(1..n) \X T -> T]
  PROVE  \E f \in [0..n -> T] : Unfolds(f, base, n, step)
<1> DEFINE Good == {k \in Nat : k <= n => \E f \in [0..k -> T] :
                      \A i \in 0..k : f[i] = IF i = 0 THEN base ELSE step[<<i, f[i - 1]>>]}
<1>1. 0 \in Good
  <2>1. \A i \in 0..0 : [j \in 0..0 |-> base][i] = base /\ i = 0
    OBVIOUS
  <2>2. [j \in 0..0 |-> base] \in [0..0 -> T]
    OBVIOUS
  <2>3. QED
    BY <2>1, <2>2
<1>2. ASSUME NEW k \in Nat, k \in Good PROVE k + 1 \in Good
  <2> SUFFICES ASSUME k + 1 <= n
               PROVE  \E f \in [0..(k + 1) -> T] : \A i \in 0..(k + 1) :
                        f[i] = IF i = 0 THEN base ELSE step[<<i, f[i - 1]>>]
    OBVIOUS
  <2>1. PICK f \in [0..k -> T] : \A i \in 0..k :
          f[i] = IF i = 0 THEN base ELSE step[<<i, f[i - 1]>>]
    BY <1>2
  <2> DEFINE next == step[<<k + 1, f[k]>>]
  <2>2. next \in T
    <3>1. f[k] \in T /\ k + 1 \in 1..n
      OBVIOUS
    <3>2. <<k + 1, f[k]>> \in (1..n) \X T
      BY <3>1
    <3>3. QED
      BY <3>2
  <2> DEFINE g == [i \in 0..(k + 1) |-> IF i = k + 1 THEN next ELSE f[i]]
  <2>3. g \in [0..(k + 1) -> T]
    BY <2>2
  <2>4. ASSUME NEW i \in 0..(k + 1)
        PROVE  g[i] = IF i = 0 THEN base ELSE step[<<i, g[i - 1]>>]
    <3>1. CASE i = k + 1
      <4>1. g[i] = step[<<k + 1, f[k]>>] /\ i # 0 /\ i - 1 = k /\ g[k] = f[k]
        BY <3>1
      <4>2. QED
        BY <3>1, <4>1
    <3>2. CASE i # k + 1
      <4>1. i \in 0..k /\ g[i] = f[i] /\ (i # 0 => g[i - 1] = f[i - 1])
        BY <3>2
      <4>2. QED
        BY <2>1, <4>1
    <3>3. QED
      BY <3>1, <3>2
  <2> HIDE DEF g
  <2>5. QED
    BY <2>3, <2>4
<1>3. Nat \subseteq Good
  BY <1>1, <1>2, EveryNumber
<1>4. QED
  BY <1>3 DEF Unfolds

-----------------------------------------------------------------------------
IsNumber(value, bytes) ==
  value = [i \in 0..Len(bytes) |->
             IF i = 0 THEN 0 ELSE (bytes[Len(bytes) + 1 - i] % 128) + 128 * value[i - 1]]

\* The value of the recursive function in Number.
LEMMA NumberFound ==
  ASSUME NEW bytes \in Seq(Nat)
  PROVE  \E value \in [0..Len(bytes) -> Nat] :
           IsNumber(value, bytes) /\ Number(bytes) = value[Len(bytes)]
<1> DEFINE n == Len(bytes)
           step == [p \in (1..n) \X Nat |-> (bytes[n + 1 - p[1]] % 128) + 128 * p[2]]
<1>1. n \in Nat
  OBVIOUS
<1>2. step \in [(1..n) \X Nat -> Nat]
  <2>1. ASSUME NEW p \in (1..n) \X Nat
        PROVE  (bytes[n + 1 - p[1]] % 128) + 128 * p[2] \in Nat
    <3>1. p[1] \in 1..n /\ p[2] \in Nat
      OBVIOUS
    <3>2. n + 1 - p[1] \in 1..n
      BY <3>1
    <3>3. bytes[n + 1 - p[1]] \in Nat
      BY <3>2
    <3>4. QED
      BY <3>1, <3>3
  <2>2. QED
    BY <2>1
<1>3. PICK f \in [0..n -> Nat] : Unfolds(f, 0, n, step)
  <2> HIDE DEF step
  <2>1. 0 \in Nat
    OBVIOUS
  <2>2. QED
    BY <1>1, <1>2, <2>1, Recursion
<1>4. ASSUME NEW i \in 0..n, i # 0
      PROVE  step[<<i, f[i - 1]>>] = (bytes[n + 1 - i] % 128) + 128 * f[i - 1]
  <2>1. i \in 1..n /\ i - 1 \in 0..n
    BY <1>1, <1>4
  <2>2. <<i, f[i - 1]>> \in (1..n) \X Nat
    BY <2>1
  <2>3. QED
    BY <2>2
<1>5. IsNumber(f, bytes)
  <2> HIDE DEF step
  <2>1. QED
    BY <1>3, <1>4 DEF IsNumber, Unfolds
<1> DEFINE value == CHOOSE v : IsNumber(v, bytes)
<1>6. IsNumber(value, bytes)
  BY <1>5
<1>7. Number(bytes) = value[n]
  BY DEF Number, IsNumber
<1> HIDE DEF value, step
<1>8. \A i \in 0..n : value[i] = IF i = 0 THEN 0 ELSE (bytes[n + 1 - i] % 128) + 128 * value[i - 1]
  BY <1>6 DEF IsNumber
<1> DEFINE Typed == {i \in Nat : i <= n => value[i] \in Nat}
<1>9. 0 \in Typed
  BY <1>1, <1>8
<1>10. ASSUME NEW i \in Nat, i \in Typed PROVE i + 1 \in Typed
  <2> SUFFICES ASSUME i + 1 <= n PROVE value[i + 1] \in Nat
    OBVIOUS
  <2>1. i + 1 \in 0..n /\ i + 1 # 0 /\ (i + 1) - 1 = i /\ n + 1 - (i + 1) \in 1..n
    BY <1>1
  <2>2. value[i] \in Nat
    BY <1>1, <1>10
  <2>3. bytes[n + 1 - (i + 1)] \in Nat
    BY <2>1
  <2>4. QED
    BY <1>8, <2>1, <2>2, <2>3
<1>11. Nat \subseteq Typed
  <2> HIDE DEF Typed
  <2>1. QED
    BY <1>9, <1>10, EveryNumber
<1>12. \A i \in 0..n : value[i] \in Nat
  BY <1>1, <1>11
<1>13. value \in [0..n -> Nat]
  <2>1. value = [i \in 0..n |-> IF i = 0 THEN 0 ELSE (bytes[n + 1 - i] % 128) + 128 * value[i - 1]]
    BY <1>6 DEF IsNumber
  <2>2. QED
    BY <1>12, <2>1
<1>14. QED
  BY <1>6, <1>7, <1>13

(* Up to three bytes. *)
LEMMA NumberOfFew ==
  ASSUME NEW bytes \in Seq(Nat), Len(bytes) \in 1..3
  PROVE  /\ Len(bytes) = 1 => Number(bytes) = bytes[1] % 128
         /\ Len(bytes) = 2 => Number(bytes) = (bytes[1] % 128) + 128 * (bytes[2] % 128)
         /\ Len(bytes) = 3 => Number(bytes)
                                = (bytes[1] % 128) + 128 * ((bytes[2] % 128) + 128 * (bytes[3] % 128))
<1>1. PICK value \in [0..Len(bytes) -> Nat] :
        IsNumber(value, bytes) /\ Number(bytes) = value[Len(bytes)]
  BY NumberFound
<1>2. \A i \in 0..Len(bytes) :
        value[i] = IF i = 0 THEN 0 ELSE (bytes[Len(bytes) + 1 - i] % 128) + 128 * value[i - 1]
  BY <1>1 DEF IsNumber
<1>3. value[0] = 0
  BY <1>2
<1>4. value[1] = bytes[Len(bytes)] % 128
  <2>1. value[1] = (bytes[Len(bytes) + 1 - 1] % 128) + 128 * value[0]
    <3>1. 1 \in 0..Len(bytes) /\ 1 # 0 /\ 1 - 1 = 0
      OBVIOUS
    <3>2. QED
      BY <1>2, <3>1
  <2>2. bytes[Len(bytes)] \in Nat /\ Len(bytes) + 1 - 1 = Len(bytes)
    OBVIOUS
  <2>3. QED
    BY <1>3, <2>1, <2>2
<1>5. Len(bytes) >= 2 => value[2] = (bytes[Len(bytes) - 1] % 128) + 128 * value[1]
  BY <1>2
<1>6. Len(bytes) = 3 => value[3] = (bytes[1] % 128) + 128 * value[2]
  BY <1>2
<1>7. CASE Len(bytes) = 1
  BY <1>1, <1>4, <1>7
<1>8. CASE Len(bytes) = 2
  BY <1>1, <1>4, <1>5, <1>8
<1>9. CASE Len(bytes) = 3
  BY <1>1, <1>4, <1>5, <1>6, <1>9
<1>10. QED
  BY <1>7, <1>8, <1>9

-----------------------------------------------------------------------------

USE FramesAssumption

\* Numbers that three bytes hold: every length here is one of them.
Small == {n \in Nat : n < 128 * 128 * 128}

IsRest(rest, n) ==
  rest = [i \in 0..VarIntBytes |-> IF i = 0 THEN n ELSE rest[i - 1] \div 128]

BytesOf(rest) ==
  LET size == Min({s \in 1..VarIntBytes : rest[s] = 0})
  IN  [i \in 1..size |-> (rest[i - 1] % 128) + IF i < size THEN 128 ELSE 0]

\* The value of the recursive function in WriteVarInt.
LEMMA RestFound ==
  ASSUME NEW n \in Nat
  PROVE  \E rest : IsRest(rest, n) /\ WriteVarInt(n) = BytesOf(rest)
<1> DEFINE step == [p \in (1..VarIntBytes) \X Nat |-> p[2] \div 128]
<1>1. step \in [(1..VarIntBytes) \X Nat -> Nat]
  <2>1. ASSUME NEW p \in (1..VarIntBytes) \X Nat PROVE p[2] \div 128 \in Nat
    <3>1. p[2] \in Nat
      OBVIOUS
    <3>2. QED
      BY <3>1
  <2>2. QED
    BY <2>1
<1>2. PICK f \in [0..VarIntBytes -> Nat] : Unfolds(f, n, VarIntBytes, step)
  <2> HIDE DEF step
  <2>1. VarIntBytes \in Nat
    OBVIOUS
  <2>2. QED
    BY <1>1, <2>1, Recursion
<1>3. ASSUME NEW i \in 0..VarIntBytes, i # 0
      PROVE  step[<<i, f[i - 1]>>] = f[i - 1] \div 128
  <2>1. i \in 1..VarIntBytes /\ i - 1 \in 0..VarIntBytes
    BY <1>3
  <2>2. <<i, f[i - 1]>> \in (1..VarIntBytes) \X Nat
    BY <2>1
  <2>3. QED
    BY <2>2
<1>4. IsRest(f, n)
  <2> HIDE DEF step
  <2>1. QED
    BY <1>2, <1>3 DEF IsRest, Unfolds
<1> DEFINE rest == CHOOSE r : IsRest(r, n)
<1>5. IsRest(rest, n)
  BY <1>4
<1>6. WriteVarInt(n) = BytesOf(rest)
  BY DEF WriteVarInt, BytesOf, IsRest
<1>7. QED
  BY <1>5, <1>6

(* What is written of a small number: at most three bytes, all but the last of *)
(* them of 128 and more, and they stand for the number.                        *)
LEMMA VarIntWritten ==
  ASSUME NEW n \in Small
  PROVE  \E size \in 1..3 :
           /\ WriteVarInt(n) \in Seq(Nat) /\ Len(WriteVarInt(n)) = size
           /\ WriteVarInt(n) \in Seq(Byte)
           /\ \A i \in 1..size : (WriteVarInt(n)[i] < 128) <=> (i = size)
           /\ Number(WriteVarInt(n)) = n
           /\ WriteVarInt(n)[1] = IF size = 1 THEN n ELSE (n % 128) + 128
<1>1. PICK rest : IsRest(rest, n) /\ WriteVarInt(n) = BytesOf(rest)
  BY RestFound DEF Small
<1>2. \A i \in 0..VarIntBytes : rest[i] = IF i = 0 THEN n ELSE rest[i - 1] \div 128
  BY <1>1 DEF IsRest
<1>3. /\ rest[0] = n /\ rest[1] = n \div 128
      /\ rest[2] = rest[1] \div 128 /\ rest[3] = rest[2] \div 128
  <2>1. 0 \in 0..VarIntBytes /\ 1 \in 0..VarIntBytes /\ 2 \in 0..VarIntBytes /\ 3 \in 0..VarIntBytes
    OBVIOUS
  <2>2. rest[0] = n
    BY <1>2, <2>1
  <2>3. /\ rest[1] = rest[1 - 1] \div 128 /\ rest[2] = rest[2 - 1] \div 128
        /\ rest[3] = rest[3 - 1] \div 128
    BY <1>2, <2>1
  <2>4. QED
    BY <2>2, <2>3
<1>4. /\ rest[0] \in Nat /\ rest[1] \in Nat /\ rest[2] \in Nat /\ rest[3] = 0
      /\ rest[0] = (rest[0] % 128) + 128 * rest[1]
      /\ rest[1] = (rest[1] % 128) + 128 * rest[2]
      /\ rest[2] = rest[2] % 128
  BY <1>3 DEF Small
<1> DEFINE ends == {s \in 1..VarIntBytes : rest[s] = 0}
           size == Min(ends)
           bytes == [i \in 1..size |-> (rest[i - 1] % 128) + IF i < size THEN 128 ELSE 0]
<1>5. 3 \in ends /\ ends \in SUBSET Nat
  BY <1>4
<1>6. size \in ends /\ \A s \in ends : size <= s
  <2> HIDE DEF ends
  <2>1. QED
    BY <1>5, Least
<1>7. size \in 1..3 /\ rest[size] = 0 /\ \A s \in 1..2 : s < size => rest[s] # 0
  BY <1>5, <1>6
<1>8. WriteVarInt(n) = bytes
  BY <1>1 DEF BytesOf
<1> HIDE DEF size, ends
<1>9. ASSUME NEW i \in 1..size PROVE rest[i - 1] \in Nat
  <2>1. i - 1 = 0 \/ i - 1 = 1 \/ i - 1 = 2
    BY <1>7
  <2>2. QED
    BY <1>4, <2>1
<1>10. bytes \in Seq(Nat) /\ bytes \in Seq(Byte) /\ Len(bytes) = size
  <2>1. \A i \in 1..size : bytes[i] \in Nat
    BY <1>9
  <2>2. \A i \in 1..size : bytes[i] \in Byte
    BY <1>9 DEF Byte
  <2>3. QED
    BY <1>7, <2>1, <2>2
<1>11. \A i \in 1..size : (bytes[i] < 128) <=> (i = size)
  BY <1>7, <1>9
<1>12. bytes[1] = IF size = 1 THEN n ELSE (n % 128) + 128
  BY <1>3, <1>4, <1>7 DEF Small
<1>13. Number(bytes) = n
  <2>1. \A i \in 1..size : bytes[i] % 128 = rest[i - 1] % 128
    BY <1>7, <1>9
  <2> HIDE DEF bytes
  <2>2. bytes[1] % 128 = rest[0] % 128
    <3>1. 1 \in 1..size /\ 1 - 1 = 0
      BY <1>7
    <3>2. QED
      BY <2>1, <3>1
  <2>3. size >= 2 => bytes[2] % 128 = rest[1] % 128
    <3>1. size >= 2 => 2 \in 1..size /\ 2 - 1 = 1
      BY <1>7
    <3>2. QED
      BY <2>1, <3>1
  <2>4. size = 3 => bytes[3] % 128 = rest[2] % 128
    <3>1. size = 3 => 3 \in 1..size /\ 3 - 1 = 2
      BY <1>7
    <3>2. QED
      BY <2>1, <3>1
  <2>5. /\ size = 1 => Number(bytes) = bytes[1] % 128
        /\ size = 2 => Number(bytes) = (bytes[1] % 128) + 128 * (bytes[2] % 128)
        /\ size = 3 => Number(bytes)
                        = (bytes[1] % 128) + 128 * ((bytes[2] % 128) + 128 * (bytes[3] % 128))
    <3>1. Len(bytes) \in 1..3 /\ bytes \in Seq(Nat)
      BY <1>7, <1>10
    <3>2. /\ Len(bytes) = 1 => Number(bytes) = bytes[1] % 128
          /\ Len(bytes) = 2 => Number(bytes) = (bytes[1] % 128) + 128 * (bytes[2] % 128)
          /\ Len(bytes) = 3 => Number(bytes)
                = (bytes[1] % 128) + 128 * ((bytes[2] % 128) + 128 * (bytes[3] % 128))
      BY <3>1, NumberOfFew
    <3>3. QED
      BY <1>10, <3>2, Zenon
  <2>6. size = 1 \/ size = 2 \/ size = 3
    BY <1>7
  <2>7. CASE size = 1
    <3>1. rest[1] = 0
      BY <1>7, <2>7
    <3>2. Number(bytes) = rest[0] % 128
      BY <2>2, <2>5, <2>7
    <3>3. rest[0] = n /\ rest[0] \in Nat /\ rest[0] = (rest[0] % 128) + 128 * rest[1]
      BY <1>3, <1>4, Zenon
    <3>4. QED
      BY <3>1, <3>2, <3>3
  <2>8. CASE size = 2
    <3>1. rest[2] = 0 /\ rest[1] = rest[1] % 128
      BY <1>4, <1>7, <2>8
    <3>2. Number(bytes) = (rest[0] % 128) + 128 * (rest[1] % 128)
      BY <2>2, <2>3, <2>5, <2>8
    <3>3. QED
      BY <1>3, <1>4, <3>1, <3>2
  <2>9. CASE size = 3
    <3>1. Number(bytes) = (rest[0] % 128) + 128 * ((rest[1] % 128) + 128 * (rest[2] % 128))
      BY <2>2, <2>3, <2>4, <2>5, <2>9
    <3>2. QED
      BY <1>3, <1>4, <3>1
  <2>10. QED
    BY <2>6, <2>7, <2>8, <2>9
<1> HIDE DEF bytes
<1>14. QED
  BY <1>7, <1>8, <1>10, <1>11, <1>12, <1>13

(* What is read of any bytes: a number and how many bytes it took, or that *)
(* there are too few, or too many.                                         *)
LEMMA VarIntResult ==
  ASSUME NEW bytes \in Seq(Nat), NEW most \in Nat \ {0}
  PROVE  \/ Uvarint(bytes, most) = More /\ Len(bytes) < most
         \/ Uvarint(bytes, most) = Bad
         \/ \E value \in Nat, size \in 1..most :
              size <= Len(bytes) /\ Uvarint(bytes, most) = Ok(value, size)
<1> DEFINE top == Min({most, Len(bytes)})
           ends == {i \in 1..top : bytes[i] < 128}
           first == SubSeq(bytes, 1, Min(ends))
<1>1. Len(bytes) \in Nat
  OBVIOUS
<1>2. top \in Nat /\ top <= most /\ top <= Len(bytes)
  <2>1. {most, Len(bytes)} \in SUBSET Nat
    BY <1>1
  <2>2. QED
    BY <2>1, Least
<1>3. CASE ends = {}
  BY <1>1, <1>3 DEF Uvarint
<1>4. CASE ends # {}
  <2> HIDE DEF top
  <2>1. ends \in SUBSET Nat
    BY <1>2
  <2>2. Min(ends) \in 1..top
    <3>1. Min(ends) \in ends
      BY <1>4, <2>1, Least
    <3>2. QED
      BY <3>1
  <2>3. first \in Seq(Nat)
    <3> DEFINE last == Min(ends)
    <3>1. last \in 1..Len(bytes)
      BY <1>1, <1>2, <2>2
    <3> HIDE DEF last
    <3>2. SubSeq(bytes, 1, last) \in Seq(Nat)
      BY <3>1
    <3>3. QED
      BY <3>2 DEF last
  <2>4. Number(first) \in Nat
    <3> HIDE DEF first
    <3>1. PICK value \in [0..Len(first) -> Nat] : Number(first) = value[Len(first)]
      BY <2>3, NumberFound
    <3>2. Len(first) \in 0..Len(first)
      BY <2>3
    <3>3. QED
      BY <3>1, <3>2
  <2>5. Uvarint(bytes, most) = Ok(Number(first), Min(ends))
    BY <1>4 DEF Uvarint, top
  <2>6. Min(ends) \in 1..most /\ Min(ends) <= Len(bytes)
    BY <1>1, <1>2, <2>2
  <2> HIDE DEF first, ends
  <2>7. QED
    BY <2>4, <2>5, <2>6
<1>5. QED
  BY <1>3, <1>4

(* Of bytes that begin as a number was written, as far as they go: the number *)
(* if they have all of it, and otherwise that there are more to come.         *)
LEMMA UvarintRead ==
  ASSUME NEW n \in Small, NEW bytes \in Seq(Nat), NEW most \in Nat, most >= 3,
         \A i \in 1..Len(WriteVarInt(n)) : i <= Len(bytes) => bytes[i] = WriteVarInt(n)[i]
  PROVE  /\ Len(bytes) < Len(WriteVarInt(n)) => Uvarint(bytes, most) = More
         /\ Len(bytes) >= Len(WriteVarInt(n)) => Uvarint(bytes, most) = Ok(n, Len(WriteVarInt(n)))
<1> DEFINE written == WriteVarInt(n)
           top == Min({most, Len(bytes)})
           ends == {i \in 1..top : bytes[i] < 128}
<1>1. PICK size \in 1..3 :
        /\ written \in Seq(Nat) /\ Len(written) = size
        /\ \A i \in 1..size : (written[i] < 128) <=> (i = size)
        /\ Number(written) = n
  BY VarIntWritten
<1> HIDE DEF written
<1>2. Len(bytes) \in Nat
  OBVIOUS
<1>3. top \in {most, Len(bytes)} /\ top <= most /\ top <= Len(bytes)
  <2>1. {most, Len(bytes)} \in SUBSET Nat
    BY <1>2
  <2>2. QED
    BY <2>1, Least
<1>4. \A i \in 1..size : i <= Len(bytes) => bytes[i] = written[i]
  BY <1>1 DEF written
<1> HIDE DEF top
<1>5. CASE Len(bytes) < size
  <2>1. top = Len(bytes)
    BY <1>2, <1>3, <1>5
  <2>2. \A i \in 1..top : i \in 1..size /\ i # size /\ bytes[i] = written[i]
    BY <1>2, <1>4, <1>5, <2>1
  <2>3. \A i \in 1..top : ~(bytes[i] < 128)
    BY <1>1, <2>2
  <2>4. ends = {}
    BY <2>3
  <2>5. Uvarint(bytes, most) = More
    <3>1. Len(bytes) < most
      BY <1>2, <1>5
    <3>2. QED
      BY <2>4, <3>1 DEF Uvarint, top
  <2>6. QED
    BY <1>1, <1>2, <1>5, <2>5 DEF written
<1>6. CASE Len(bytes) >= size
  <2>1. size \in 1..top /\ top \in Nat
    BY <1>2, <1>3, <1>6
  <2>2. \A i \in 1..size : bytes[i] = written[i] /\ i \in 1..top
    BY <1>2, <1>4, <1>6, <2>1
  <2>3. size \in ends /\ ends \in SUBSET Nat
    BY <1>1, <2>1, <2>2
  <2>4. \A i \in ends : i >= size
    BY <1>1, <2>1, <2>2
  <2>5. Min(ends) = size
    <3>1. Min(ends) \in ends /\ Min(ends) <= size
      <4> HIDE DEF ends
      <4>1. QED
        BY <2>3, Least
    <3>2. Min(ends) >= size /\ Min(ends) \in Nat
      BY <2>3, <2>4, <3>1
    <3>3. QED
      BY <3>1, <3>2
  <2>6. SubSeq(bytes, 1, size) = written
    BY <1>1, <1>2, <1>6, <2>2
  <2>7. ends # {}
    BY <2>3
  <2>8. Uvarint(bytes, most) = Ok(Number(SubSeq(bytes, 1, size)), size)
    BY <2>5, <2>7 DEF Uvarint, top
  <2>9. QED
    <3>1. Uvarint(bytes, most) = Ok(n, size) /\ Len(written) = size
      BY <1>1, <2>6, <2>8
    <3> HIDE DEF ends
    <3>2. QED
      BY <1>2, <1>6, <3>1 DEF written
<1>7. QED
  BY <1>1, <1>2, <1>5, <1>6

LEMMA VarIntRead ==
  ASSUME NEW n \in Small, NEW bytes \in Seq(Nat),
         \A i \in 1..Len(WriteVarInt(n)) : i <= Len(bytes) => bytes[i] = WriteVarInt(n)[i]
  PROVE  /\ Len(bytes) < Len(WriteVarInt(n)) => ReadVarInt(bytes) = More
         /\ Len(bytes) >= Len(WriteVarInt(n)) => ReadVarInt(bytes) = Ok(n, Len(WriteVarInt(n)))
<1>1. VarIntBytes \in Nat /\ VarIntBytes >= 3
  OBVIOUS
<1>2. QED
  BY <1>1, UvarintRead DEF ReadVarInt

-----------------------------------------------------------------------------
(* Reading and writing frames *)

\* The parts of a buffer before and after a place.
LEMMA Cut ==
  ASSUME NEW bytes \in Seq(Nat), NEW n \in Nat
  PROVE  /\ After(bytes, n) \in Seq(Nat) /\ Take(bytes, n) \in Seq(Nat)
         /\ Len(After(bytes, n)) = IF n <= Len(bytes) THEN Len(bytes) - n ELSE 0
         /\ Len(Take(bytes, n)) = IF n <= Len(bytes) THEN n ELSE Len(bytes)
         /\ \A i \in 1..Len(bytes) - n : After(bytes, n)[i] = bytes[n + i]
         /\ \A i \in 1..Len(Take(bytes, n)) : Take(bytes, n)[i] = bytes[i]
<1>1. Len(bytes) \in Nat
  OBVIOUS
<1>2. Min({n, Len(bytes)}) = IF n <= Len(bytes) THEN n ELSE Len(bytes)
  <2>1. {n, Len(bytes)} \in SUBSET Nat
    BY <1>1
  <2>2. /\ Min({n, Len(bytes)}) \in {n, Len(bytes)}
        /\ Min({n, Len(bytes)}) <= n /\ Min({n, Len(bytes)}) <= Len(bytes)
    BY <2>1, Least
  <2>3. QED
    BY <1>1, <2>2
<1> DEFINE m == IF n <= Len(bytes) THEN n ELSE Len(bytes)
<1>3. Take(bytes, n) = SubSeq(bytes, 1, m)
  BY <1>2 DEF Take
<1>4. m \in 0..Len(bytes)
  BY <1>1
<1> HIDE DEF m
<1>5. /\ SubSeq(bytes, 1, m) \in Seq(Nat) /\ Len(SubSeq(bytes, 1, m)) = m
      /\ \A i \in 1..m : SubSeq(bytes, 1, m)[i] = bytes[i]
  BY <1>4
<1>6. /\ After(bytes, n) \in Seq(Nat)
      /\ Len(After(bytes, n)) = IF n <= Len(bytes) THEN Len(bytes) - n ELSE 0
      /\ \A i \in 1..Len(bytes) - n : After(bytes, n)[i] = bytes[n + i]
  BY <1>1 DEF After
<1>7. QED
  BY <1>3, <1>5, <1>6 DEF m

(* A read of a frame waits only for bytes of a frame it would accept, and a frame *)
(* it has read is made of bytes that were there.                                  *)
LEMMA FrameResult ==
  ASSUME NEW bytes \in Seq(Nat), NEW limit \in Nat
  PROVE  LET frame == ReadFrame(bytes, limit)
         IN  /\ frame.status \in {"more", "bad", "ok"}
             /\ frame.status = "more" => Len(bytes) < limit + VarIntBytes
             /\ frame.status = "ok" =>
                  /\ frame.value \in [id : Nat, data : Seq(Nat)]
                  /\ frame.size \in 1..Len(bytes)
<1> DEFINE length == ReadVarInt(bytes)
           body == Take(After(bytes, length.size), length.value)
           id == ReadVarInt(body)
           frame == ReadFrame(bytes, limit)
<1>0. VarIntBytes \in Nat \ {0}
  OBVIOUS
<1>1. CASE length = More /\ Len(bytes) < VarIntBytes
  BY <1>1 DEF ReadFrame, More
<1>2. CASE length = Bad
  BY <1>2 DEF ReadFrame, Bad
<1>3. ASSUME NEW value \in Nat, NEW size \in 1..VarIntBytes, size <= Len(bytes),
             length = Ok(value, size)
      PROVE  /\ frame.status \in {"more", "bad", "ok"}
             /\ frame.status = "more" => Len(bytes) < limit + VarIntBytes
             /\ frame.status = "ok" =>
                  /\ frame.value \in [id : Nat, data : Seq(Nat)]
                  /\ frame.size \in 1..Len(bytes)
  <2>1. length.status = "ok" /\ length.value = value /\ length.size = size
    BY <1>3 DEF Ok
  <2> HIDE DEF length
  <2>2. /\ After(bytes, size) \in Seq(Nat) /\ Len(After(bytes, size)) = Len(bytes) - size
    BY <1>3, Cut
  <2>3. /\ body \in Seq(Nat) /\ Len(body) <= Len(bytes) - size
        /\ Len(body) # value => Len(bytes) - size < value
    BY <2>1, <2>2, Cut
  <2>4. CASE ~Allowed(value, limit)
    BY <2>1, <2>4 DEF ReadFrame, Bad, length
  <2>5. CASE Allowed(value, limit) /\ ~Complete(body, value)
    <3>1. frame = More
      BY <2>1, <2>5 DEF ReadFrame, length
    <3>2. Len(bytes) < size + value /\ value <= limit /\ size <= VarIntBytes
      BY <2>3, <2>5 DEF Complete, Allowed
    <3>3. QED
      BY <3>1, <3>2 DEF More
  <2>6. CASE Allowed(value, limit) /\ Complete(body, value) /\ id.status # "ok"
    <3>1. frame = Bad
      BY <2>1, <2>6 DEF ReadFrame, length
    <3>2. QED
      BY <3>1 DEF Bad
  <2>7. CASE Allowed(value, limit) /\ Complete(body, value) /\ id.status = "ok"
    <3>1. frame = Ok([id |-> id.value, data |-> After(body, id.size)], size + Len(body))
      BY <2>1, <2>7 DEF ReadFrame, length
    <3> HIDE DEF body
    <3>2. id = More \/ id = Bad \/ \E v \in Nat, s \in 1..VarIntBytes : id = Ok(v, s)
      BY <2>3, VarIntResult DEF ReadVarInt
    <3>3. id.value \in Nat /\ id.size \in Nat
      BY <2>7, <3>2 DEF More, Bad, Ok
    <3>4. After(body, id.size) \in Seq(Nat)
      BY <2>3, <3>3, Cut
    <3>5. size + Len(body) \in 1..Len(bytes)
      BY <1>3, <2>3
    <3>6. QED
      BY <3>1, <3>3, <3>4, <3>5 DEF Ok
  <2>8. QED
    BY <2>4, <2>5, <2>6, <2>7
<1>4. QED
  BY <1>0, <1>1, <1>2, <1>3, VarIntResult DEF ReadVarInt

LEMMA Smaller ==
  ASSUME NEW n \in Small, NEW m \in Nat, m <= n
  PROVE  m \in Small
BY DEF Small

LEMMA SameText ==
  ASSUME NEW s \in Seq(Nat), NEW t \in Seq(Nat), Len(s) = Len(t), \A i \in 1..Len(t) : s[i] = t[i]
  PROVE  s = t
OBVIOUS

LEMMA VarIntLength ==
  ASSUME NEW n \in Small
  PROVE  /\ WriteVarInt(n) \in Seq(Nat) /\ Len(WriteVarInt(n)) \in Nat
         /\ 1 <= Len(WriteVarInt(n)) /\ Len(WriteVarInt(n)) <= 3
<1>1. PICK size \in 1..3 : WriteVarInt(n) \in Seq(Nat) /\ Len(WriteVarInt(n)) = size
  BY VarIntWritten
<1>2. size \in Nat /\ 1 <= size /\ size <= 3
  OBVIOUS
<1>3. QED
  BY <1>1, <1>2, Zenon

\* The parts of a concatenation.
LEMMA Joining ==
  ASSUME NEW s \in Seq(Nat), NEW t \in Seq(Nat)
  PROVE  /\ s \o t \in Seq(Nat) /\ Len(s \o t) = Len(s) + Len(t)
         /\ \A i \in 1..Len(s) : (s \o t)[i] = s[i]
         /\ \A i \in 1..Len(t) : (s \o t)[Len(s) + i] = t[i]
<1>1. /\ s \o t \in Seq(Nat) /\ Len(s \o t) = Len(s) + Len(t)
      /\ \A i \in 1..Len(s) + Len(t) : (s \o t)[i] = IF i <= Len(s) THEN s[i] ELSE t[i - Len(s)]
      /\ Len(s) \in Nat /\ Len(t) \in Nat
  OBVIOUS
<1>2. ASSUME NEW i \in 1..Len(t) PROVE (s \o t)[Len(s) + i] = t[i]
  <2>1. Len(s) + i \in 1..Len(s) + Len(t) /\ ~(Len(s) + i <= Len(s)) /\ (Len(s) + i) - Len(s) = i
    BY <1>1
  <2>2. QED
    BY <1>1, <2>1
<1>3. QED
  BY <1>1, <1>2

(* What is written of a frame: its length, its id, its data. *)
LEMMA FrameWritten ==
  ASSUME NEW id \in Small, NEW data \in Seq(Nat), Len(data) + 3 \in Small
  PROVE  /\ WriteFrame(id, data) \in Seq(Nat)
         /\ Len(WriteFrame(id, data)) > 0
<1>1. /\ WriteVarInt(id) \in Seq(Nat) /\ Len(WriteVarInt(id)) \in Nat
      /\ 1 <= Len(WriteVarInt(id)) /\ Len(WriteVarInt(id)) <= 3
  BY VarIntLength
<1> DEFINE body == WriteVarInt(id) \o data
<1>2. body \in Seq(Nat) /\ Len(body) = Len(WriteVarInt(id)) + Len(data) /\ Len(data) \in Nat
  BY <1>1, Joining
<1>3. Len(body) \in Small
  <2> HIDE DEF body
  <2>1. Len(data) + 3 \in Small
    OBVIOUS
  <2>2. Len(body) \in Nat /\ Len(body) <= Len(data) + 3
    BY <1>1, <1>2
  <2>3. QED
    BY <2>1, <2>2, Smaller
<1> HIDE DEF body
<1>4. /\ WriteVarInt(Len(body)) \in Seq(Nat) /\ Len(WriteVarInt(Len(body))) \in Nat
      /\ 1 <= Len(WriteVarInt(Len(body))) /\ Len(WriteVarInt(Len(body))) <= 3
  BY <1>3, VarIntLength
<1>5. WriteFrame(id, data) = WriteVarInt(Len(body)) \o body
  BY DEF WriteFrame, body
<1>6. QED
  BY <1>2, <1>4, <1>5, Joining

\* As far as they go, the bytes are those that were written.
Begins(bytes, written) == \A i \in 1..Len(written) : i <= Len(bytes) => bytes[i] = written[i]

(* Bytes that begin as a frame was written, as far as they go, are read as that *)
(* frame and no further, or not at all.                                         *)
LEMMA FrameRead ==
  ASSUME NEW id \in Small, NEW data \in Seq(Nat), Len(data) + 3 \in Small,
         NEW bytes \in Seq(Nat), NEW limit \in Nat,
         Begins(bytes, WriteFrame(id, data)),
         ReadFrame(bytes, limit).status = "ok"
  PROVE  /\ ReadFrame(bytes, limit).value = [id |-> id, data |-> data]
         /\ ReadFrame(bytes, limit).size = Len(WriteFrame(id, data))
         /\ Len(WriteFrame(id, data)) <= Len(bytes)
<1> DEFINE first == WriteVarInt(id)
           body == first \o data
           head == WriteVarInt(Len(body))
           written == head \o body
<1>1. first \in Seq(Nat) /\ Len(first) \in Nat /\ 1 <= Len(first) /\ Len(first) <= 3 /\ id \in Small
  BY VarIntLength
<1>2. data \in Seq(Nat) /\ Len(data) \in Nat
  OBVIOUS
<1> HIDE DEF first
<1>3. /\ body \in Seq(Nat) /\ Len(body) = Len(first) + Len(data)
      /\ \A i \in 1..Len(first) : body[i] = first[i]
      /\ \A i \in 1..Len(data) : body[Len(first) + i] = data[i]
  BY <1>1, <1>2, Joining
<1>4. Len(body) \in Small
  <2> HIDE DEF body
  <2>1. Len(data) + 3 \in Small
    OBVIOUS
  <2>2. Len(body) \in Nat /\ Len(body) <= Len(data) + 3
    BY <1>1, <1>2, <1>3
  <2>3. QED
    BY <2>1, <2>2, Smaller
<1>5. WriteFrame(id, data) = written
  BY DEF WriteFrame, first
<1> HIDE DEF body
<1>6. head \in Seq(Nat) /\ Len(head) \in Nat /\ 1 <= Len(head) /\ Len(head) <= 3
  BY <1>4, VarIntLength
<1> HIDE DEF head
<1>7. /\ written \in Seq(Nat) /\ Len(written) = Len(head) + Len(body)
      /\ \A i \in 1..Len(head) : written[i] = head[i]
      /\ \A i \in 1..Len(body) : written[Len(head) + i] = body[i]
  BY <1>3, <1>6, Joining
<1> HIDE DEF written
<1>8. \A i \in 1..Len(written) : i <= Len(bytes) => bytes[i] = written[i]
  BY <1>5 DEF Begins
<1> DEFINE length == ReadVarInt(bytes)
<1>9. \A i \in 1..Len(head) : i <= Len(bytes) => bytes[i] = head[i]
  <2>1. \A i \in 1..Len(head) : i \in 1..Len(written)
    BY <1>3, <1>6, <1>7
  <2>2. QED
    BY <1>7, <1>8, <2>1, Zenon
<1>10. length = More \/ (length = Ok(Len(body), Len(head)) /\ Len(head) <= Len(bytes))
  <2>1. Len(bytes) \in Nat /\ Len(head) \in Nat
    BY <1>6
  <2>2. QED
    <3>1. /\ Len(bytes) < Len(head) => length = More
          /\ Len(bytes) >= Len(head) => length = Ok(Len(body), Len(head))
      <4>1. \A i \in 1..Len(WriteVarInt(Len(body))) :
              i <= Len(bytes) => bytes[i] = WriteVarInt(Len(body))[i]
        BY <1>9 DEF head
      <4>2. QED
        BY <1>4, <4>1, VarIntRead DEF head
    <3> HIDE DEF length
    <3>2. Len(bytes) < Len(head) \/ Len(bytes) >= Len(head)
      BY <2>1
    <3>3. CASE Len(bytes) < Len(head)
      BY <3>1, <3>3
    <3>4. CASE Len(bytes) >= Len(head)
      <4>1. Len(head) <= Len(bytes)
        BY <2>1, <3>4
      <4>2. length = Ok(Len(body), Len(head))
        BY <3>1, <3>4
      <4>3. QED
        BY <4>1, <4>2
    <3>5. QED
      BY <3>2, <3>3, <3>4
<1>11. length = Ok(Len(body), Len(head)) /\ Len(head) <= Len(bytes)
  BY <1>10 DEF ReadFrame, More
<1>12. length.status = "ok" /\ length.value = Len(body) /\ length.size = Len(head)
  BY <1>11 DEF Ok
<1> HIDE DEF length
<1> DEFINE rest == Take(After(bytes, Len(head)), Len(body))
           number == ReadVarInt(rest)
<1>13. Complete(rest, Len(body)) /\ number.status = "ok"
  BY <1>12 DEF ReadFrame, length, More, Bad
<1>14. ReadFrame(bytes, limit)
         = Ok([id |-> number.value, data |-> After(rest, number.size)], Len(head) + Len(rest))
  BY <1>12, <1>13 DEF ReadFrame, length, More, Bad
<1>15. After(bytes, Len(head)) \in Seq(Nat) /\ Len(After(bytes, Len(head))) = Len(bytes) - Len(head)
  BY <1>6, <1>11, Cut
<1>16. rest \in Seq(Nat) /\ Len(rest) = Len(body) /\ Len(head) + Len(body) <= Len(bytes)
  <2>1. /\ rest \in Seq(Nat) /\ Len(body) \in Nat
        /\ Len(rest) = IF Len(body) <= Len(bytes) - Len(head) THEN Len(body)
                       ELSE Len(bytes) - Len(head)
    BY <1>3, <1>15, Cut
  <2>2. Len(rest) = Len(body)
    BY <1>13 DEF Complete
  <2> HIDE DEF rest
  <2>3. Len(bytes) \in Nat /\ Len(head) \in Nat
    BY <1>6
  <2>4. QED
    BY <2>1, <2>2, <2>3
<1>17. rest = body
  <2>1. ASSUME NEW i \in 1..Len(body) PROVE rest[i] = body[i]
    <3>1. i \in 1..Len(rest) /\ i \in 1..Len(bytes) - Len(head) /\ Len(body) \in Nat
      <4> HIDE DEF rest
      <4>1. QED
        BY <1>3, <1>6, <1>16
    <3>2. rest[i] = After(bytes, Len(head))[i]
      BY <1>15, <3>1, Cut
    <3>3. After(bytes, Len(head))[i] = bytes[Len(head) + i]
      <4>1. Len(head) \in Nat
        BY <1>6
      <4> HIDE DEF rest
      <4>2. QED
        BY <3>1, <4>1, Cut
    <3>4. bytes[Len(head) + i] = written[Len(head) + i]
      <4>1. Len(head) + i \in 1..Len(written) /\ Len(head) + i <= Len(bytes)
        BY <1>6, <1>7, <3>1
      <4>2. QED
        BY <1>8, <4>1
    <3>5. QED
      BY <1>7, <3>2, <3>3, <3>4
  <2> HIDE DEF rest
  <2>2. QED
    BY <1>3, <1>16, <2>1
<1> HIDE DEF rest
<1>18. number = Ok(id, Len(first))
  <2>1. \A i \in 1..Len(first) : i <= Len(body) => body[i] = first[i]
    BY <1>3
  <2>2. Len(first) <= Len(body)
    BY <1>1, <1>2, <1>3
  <2>3. QED
    BY <1>1, <1>3, <1>17, <2>1, <2>2, VarIntRead DEF first
<1>19. After(body, Len(first)) = data
  <2>1. /\ After(body, Len(first)) \in Seq(Nat)
        /\ Len(After(body, Len(first))) = Len(data)
        /\ \A i \in 1..Len(data) : After(body, Len(first))[i] = body[Len(first) + i]
    <3>1. Len(body) - Len(first) = Len(data) /\ Len(first) \in Nat /\ Len(first) <= Len(body)
      BY <1>1, <1>2, <1>3
    <3>2. QED
      BY <1>3, <3>1, Cut
  <2> DEFINE tail == After(body, Len(first))
  <2>2. tail \in Seq(Nat) /\ Len(tail) = Len(data) /\ \A i \in 1..Len(data) : tail[i] = data[i]
    BY <1>3, <2>1
  <2> HIDE DEF tail
  <2>3. tail = data
    BY <2>2, SameText
  <2>4. QED
    BY <2>3 DEF tail
<1>20. number.value = id /\ number.size = Len(first)
  BY <1>18 DEF Ok
<1> HIDE DEF number
<1>21. ReadFrame(bytes, limit) = Ok([id |-> id, data |-> data], Len(written))
  BY <1>7, <1>14, <1>16, <1>17, <1>19, <1>20
<1>22. QED
  BY <1>5, <1>7, <1>16, <1>21 DEF Ok

-----------------------------------------------------------------------------
(* A direction of a connection *)

(* A reply is taken out of its frame as it was put in, unless its length, written *)
(* before it, is taken for the brace that JSON starts with.                       *)
LEMMA StatusRead ==
  ASSUME NEW length \in Small
  PROVE  /\ JSON(length) \in Seq(Nat) /\ Len(JSON(length)) = length
         /\ WriteString(JSON(length)) \in Seq(Nat)
         /\ Len(WriteString(JSON(length))) <= length + 3
         /\ length # OpeningBrace => StatusJSON(WriteString(JSON(length))) = JSON(length)
<1> DEFINE json == JSON(length)
           head == WriteVarInt(length)
           payload == head \o json
<1>1. length \in Nat
  BY DEF Small
<1>2. json \in Seq(Nat) /\ Len(json) = length
  BY <1>1 DEF JSON, OpeningBrace
<1> HIDE DEF json
<1>3. /\ head \in Seq(Nat) /\ Len(head) \in Nat
      /\ 1 <= Len(head) /\ Len(head) <= 3
  BY VarIntLength
<1>4. length # OpeningBrace => head[1] # OpeningBrace
  <2>1. PICK size \in 1..3 : head[1] = IF size = 1 THEN length ELSE (length % 128) + 128
    BY VarIntWritten
  <2> HIDE DEF head
  <2>2. QED
    BY <1>1, <2>1 DEF OpeningBrace
<1> HIDE DEF head
<1>5. /\ payload \in Seq(Nat) /\ Len(payload) = Len(head) + Len(json)
      /\ \A i \in 1..Len(head) : payload[i] = head[i]
      /\ \A i \in 1..Len(json) : payload[Len(head) + i] = json[i]
  BY <1>2, <1>3, Joining
<1>6. WriteString(json) = payload
  BY <1>2 DEF WriteString, head
<1> HIDE DEF payload
<1>7. payload # << >> /\ (length # OpeningBrace => payload[1] # OpeningBrace)
  <2>1. 1 \in 1..Len(head) /\ Len(payload) # 0
    BY <1>1, <1>2, <1>3, <1>5
  <2>2. QED
    BY <1>4, <1>5, <2>1
<1>8. ReadVarInt(payload) = Ok(length, Len(head))
  <2>1. Len(payload) >= Len(head)
    BY <1>1, <1>2, <1>3, <1>5
  <2>2. \A i \in 1..Len(head) : i <= Len(payload) => payload[i] = head[i]
    BY <1>5
  <2>3. QED
    BY <1>5, <2>1, <2>2, VarIntRead DEF head
<1> DEFINE rest == After(payload, Len(head))
           taken == Take(rest, length)
<1>9. length # OpeningBrace => StatusJSON(payload) = taken
  BY <1>7, <1>8 DEF StatusJSON, Ok
<1>10. Len(payload) - Len(head) = length
  BY <1>1, <1>2, <1>3, <1>5
<1>11. /\ rest \in Seq(Nat) /\ Len(rest) = length
       /\ \A i \in 1..length : rest[i] = payload[Len(head) + i]
  <2>1. Len(head) <= Len(payload)
    BY <1>1, <1>2, <1>3, <1>5
  <2>2. QED
    BY <1>3, <1>5, <1>10, <2>1, Cut
<1> HIDE DEF rest
<1>12. taken \in Seq(Nat) /\ Len(taken) = length /\ \A i \in 1..length : taken[i] = rest[i]
  <2>1. /\ taken \in Seq(Nat)
        /\ Len(taken) = IF length <= Len(rest) THEN length ELSE Len(rest)
        /\ \A i \in 1..Len(taken) : taken[i] = rest[i]
    BY <1>1, <1>11, Cut
  <2> HIDE DEF taken
  <2>2. QED
    BY <1>1, <1>11, <2>1
<1> HIDE DEF taken
<1>13. taken = json
  <2>1. \A i \in 1..length : taken[i] = json[i]
    BY <1>2, <1>5, <1>11, <1>12
  <2>2. QED
    BY <1>2, <1>12, <2>1, SameText
<1>14. QED
  BY <1>1, <1>2, <1>3, <1>5, <1>6, <1>9, <1>13 DEF json

-----------------------------------------------------------------------------
Frame == [id : Nat, data : Seq(Nat)]
Way == [bytes : Seq(Nat), arrived : Nat, taken : Nat, written : Seq(Frame), read : Seq(Frame)]

(* A direction never gives what it was not given. *)
WayOK(way) ==
  /\ way \in Way
  /\ way.taken <= way.arrived /\ way.arrived <= Len(way.bytes)

Wire(frame) == WriteFrame(frame.id, frame.data)

(* The bytes are those of the frames, one after the other: the frame k is after *)
(* ends[k - 1], up to ends[k].                                                  *)
Laid(bytes, written, ends) ==
  /\ ends \in [0..Len(written) -> Nat]
  /\ ends[0] = 0 /\ ends[Len(written)] = Len(bytes)
  /\ \A k \in 1..Len(written) :
       /\ ends[k] = ends[k - 1] + Len(Wire(written[k]))
       /\ ends[k] <= Len(bytes)
       /\ \A i \in 1..Len(Wire(written[k])) : bytes[ends[k - 1] + i] = Wire(written[k])[i]

(* The frames read are the first of them. *)
Followed(taken, written, read, ends) ==
  /\ Len(read) <= Len(written)
  /\ taken = ends[Len(read)]
  /\ \A k \in 1..Len(read) : read[k] = written[k]

Framed(way, ends) ==
  Laid(way.bytes, way.written, ends) /\ Followed(way.taken, way.written, way.read, ends)

InSync(way) ==
  /\ \E ends : Framed(way, ends)
  /\ \A k \in 1..Len(way.written) :
       way.written[k].id \in Small /\ Len(way.written[k].data) + 3 \in Small

LEMMA SilentOK == WayOK(Silent) /\ InSync(Silent)
<1>1. Silent = [bytes |-> << >>, arrived |-> 0, taken |-> 0, written |-> << >>, read |-> << >>]
  BY DEF Silent
<1>2. WayOK(Silent)
  BY <1>1 DEF WayOK, Way
<1>3. Framed(Silent, [k \in 0..0 |-> 0])
  BY <1>1 DEF Framed, Laid, Followed
<1>4. QED
  BY <1>1, <1>2, <1>3 DEF InSync

\* A frame that is sent comes after those before it.
LEMMA SendOK ==
  ASSUME NEW way, WayOK(way), NEW id \in Small, NEW data \in Seq(Nat), Len(data) + 3 \in Small
  PROVE  /\ WayOK(Send(way, id, data))
         /\ Send(way, id, data).read = way.read
         /\ Send(way, id, data).written = Append(way.written, [id |-> id, data |-> data])
         /\ InSync(way) => InSync(Send(way, id, data))
<1> DEFINE frame == [id |-> id, data |-> data]
           wire == WriteFrame(id, data)
           new == Send(way, id, data)
<1>1. /\ way \in Way
      /\ way.bytes \in Seq(Nat) /\ way.arrived \in Nat /\ way.taken \in Nat
      /\ way.written \in Seq(Frame) /\ way.read \in Seq(Frame)
      /\ way.taken <= way.arrived /\ way.arrived <= Len(way.bytes)
  BY DEF WayOK, Way
<1>2. wire \in Seq(Nat)
  BY FrameWritten
<1>3. frame \in Frame
  BY DEF Frame, Small
<1>4. new = [bytes |-> way.bytes \o wire, arrived |-> way.arrived, taken |-> way.taken,
             written |-> Append(way.written, frame), read |-> way.read]
  <2>1. way \in [bytes : Seq(Nat), arrived : Nat, taken : Nat,
                 written : Seq(Frame), read : Seq(Frame)]
    BY <1>1 DEF Way
  <2>2. new = [way EXCEPT !.bytes = way.bytes \o wire, !.written = Append(way.written, frame)]
    BY <2>1 DEF Send
  <2> HIDE DEF new, wire, frame
  <2>3. QED
    BY <2>1, <2>2
<1>5. Wire(frame) = wire
  BY DEF Wire
<1> HIDE DEF frame, wire, new
<1>6. /\ way.bytes \o wire \in Seq(Nat) /\ Len(way.bytes \o wire) = Len(way.bytes) + Len(wire)
      /\ \A i \in 1..Len(way.bytes) : (way.bytes \o wire)[i] = way.bytes[i]
      /\ \A i \in 1..Len(wire) : (way.bytes \o wire)[Len(way.bytes) + i] = wire[i]
  BY <1>1, <1>2, Joining
<1>7. Append(way.written, frame) \in Seq(Frame)
  BY <1>1, <1>3
<1>8. WayOK(new)
  <2>1. new \in Way
    BY <1>1, <1>4, <1>6, <1>7 DEF Way
  <2>2. Len(way.bytes) \in Nat /\ Len(wire) \in Nat
    BY <1>1, <1>2
  <2>3. QED
    BY <1>1, <1>4, <1>6, <2>1, <2>2 DEF WayOK
<1>9. ASSUME InSync(way) PROVE InSync(new)
  <2> DEFINE n == Len(way.written)
  <2>1. PICK ends : Framed(way, ends)
    BY <1>9 DEF InSync
  <2> DEFINE more == [k \in 0..(n + 1) |->
                        IF k = n + 1 THEN Len(way.bytes) + Len(wire) ELSE ends[k]]
  <2>2. n \in Nat /\ Len(way.bytes) \in Nat /\ Len(wire) \in Nat
    BY <1>1, <1>2
  <2>3. /\ Len(Append(way.written, frame)) = n + 1 /\ Append(way.written, frame)[n + 1] = frame
        /\ \A k \in 1..n : Append(way.written, frame)[k] = way.written[k]
    BY <1>1, <1>3
  <2>4. /\ ends \in [0..n -> Nat] /\ ends[0] = 0 /\ ends[n] = Len(way.bytes)
        /\ Len(way.read) <= n /\ way.taken = ends[Len(way.read)]
        /\ \A k \in 1..Len(way.read) : way.read[k] = way.written[k]
    BY <2>1 DEF Framed, Laid, Followed
  <2>5. more \in [0..(n + 1) -> Nat]
    BY <2>2, <2>4
  <2>6. /\ more[n + 1] = Len(way.bytes) + Len(wire)
        /\ \A k \in 0..n : more[k] = ends[k] /\ more[k] \in Nat
    <3>1. \A k \in 0..n : k \in 0..(n + 1) /\ k # n + 1 /\ ends[k] \in Nat
      BY <2>2, <2>4
    <3>2. n + 1 \in 0..(n + 1)
      BY <2>2
    <3>3. QED
      BY <3>1, <3>2
  <2> HIDE DEF more
  <2>7. ASSUME NEW k \in 1..(n + 1)
        PROVE  /\ more[k] = more[k - 1] + Len(Wire(new.written[k]))
               /\ more[k] <= Len(new.bytes)
               /\ \A i \in 1..Len(Wire(new.written[k])) :
                    new.bytes[more[k - 1] + i] = Wire(new.written[k])[i]
    <3>1. CASE k = n + 1
      <4>1. new.written[k] = frame /\ k - 1 = n /\ n \in 0..n
        BY <1>4, <2>2, <2>3, <3>1
      <4>2. Wire(new.written[k]) = wire /\ more[k - 1] = Len(way.bytes)
        BY <1>5, <2>4, <2>6, <4>1
      <4>3. new.bytes = way.bytes \o wire
        BY <1>4
      <4>4. QED
        BY <1>6, <2>2, <2>6, <3>1, <4>2, <4>3
    <3>2. CASE k # n + 1
      <4>1. k \in 1..n /\ k \in 0..n /\ k - 1 \in 0..n
        BY <2>2, <3>2
      <4>2. new.written[k] = way.written[k] /\ more[k] = ends[k] /\ more[k - 1] = ends[k - 1]
        BY <1>4, <2>3, <2>6, <4>1
      <4>3. /\ ends[k] = ends[k - 1] + Len(Wire(way.written[k]))
            /\ ends[k] <= Len(way.bytes)
            /\ \A i \in 1..Len(Wire(way.written[k])) :
                 way.bytes[ends[k - 1] + i] = Wire(way.written[k])[i]
        BY <2>1, <4>1 DEF Framed, Laid, Followed
      <4>4. Wire(way.written[k]) \in Seq(Nat)
        <5>1. /\ way.written[k].id \in Small /\ way.written[k].data \in Seq(Nat)
              /\ Len(way.written[k].data) + 3 \in Small
          <6>1. way.written[k] \in Frame
            BY <1>1, <4>1
          <6>2. QED
            BY <1>9, <4>1, <6>1 DEF InSync, Frame
        <5>2. QED
          BY <5>1, FrameWritten DEF Wire
      <4>5. ASSUME NEW i \in 1..Len(Wire(way.written[k]))
            PROVE  new.bytes[ends[k - 1] + i] = Wire(way.written[k])[i]
        <5>1. ends[k - 1] \in Nat /\ Len(Wire(way.written[k])) \in Nat
          BY <2>4, <4>1, <4>4
        <5>2. ends[k - 1] + i \in 1..Len(way.bytes)
          BY <2>2, <4>3, <5>1
        <5>3. new.bytes[ends[k - 1] + i] = way.bytes[ends[k - 1] + i]
          BY <1>4, <1>6, <5>2
        <5>4. QED
          BY <4>3, <5>3
      <4>6. ends[k] <= Len(new.bytes)
        <5>1. ends[k] \in Nat /\ Len(new.bytes) = Len(way.bytes) + Len(wire)
          BY <1>4, <1>6, <2>4, <4>1
        <5>2. QED
          BY <2>2, <4>3, <5>1
      <4>7. QED
        BY <4>2, <4>3, <4>5, <4>6
    <3>3. QED
      BY <3>1, <3>2
  <2>8. /\ Len(new.written) = n + 1 /\ Len(new.bytes) = Len(way.bytes) + Len(wire)
        /\ new.read = way.read /\ new.taken = way.taken
    BY <1>4, <1>6, <2>3
  <2>9. Framed(new, more)
    <3>1. Len(way.read) \in 0..n /\ 0 \in 0..n /\ Len(way.read) <= n + 1
      BY <1>1, <2>2, <2>4
    <3>2. more[0] = 0 /\ more[Len(way.read)] = way.taken
      BY <2>4, <2>6, <3>1
    <3>3. \A k \in 1..Len(way.read) : way.read[k] = new.written[k]
      BY <1>4, <2>2, <2>3, <2>4, <3>1
    <3>4. QED
      BY <2>5, <2>6, <2>7, <2>8, <3>1, <3>2, <3>3 DEF Framed, Laid, Followed
  <2>10. ASSUME NEW k \in 1..(n + 1)
         PROVE  new.written[k].id \in Small /\ Len(new.written[k].data) + 3 \in Small
    <3>1. CASE k = n + 1
      <4>1. new.written[k] = [id |-> id, data |-> data]
        BY <1>4, <2>3, <3>1 DEF frame
      <4>2. QED
        BY <4>1
    <3>2. CASE k # n + 1
      <4>1. k \in 1..n
        BY <2>2, <3>2
      <4>2. new.written[k] = way.written[k]
        BY <1>4, <2>3, <4>1
      <4>3. QED
        BY <1>9, <4>1, <4>2 DEF InSync
    <3>3. QED
      BY <3>1, <3>2
  <2>11. QED
    BY <2>8, <2>9, <2>10 DEF InSync
<1>10. QED
  BY <1>4, <1>8, <1>9 DEF new, frame

\* The bytes between two places.
LEMMA Middle ==
  ASSUME NEW s \in Seq(Nat), NEW m \in Nat, NEW n \in Nat, m <= n, n <= Len(s)
  PROVE  /\ SubSeq(s, m + 1, n) \in Seq(Nat) /\ Len(SubSeq(s, m + 1, n)) = n - m
         /\ \A i \in 1..(n - m) : SubSeq(s, m + 1, n)[i] = s[m + i]
OBVIOUS

\* A frame that is read is the next of those written, and no byte of another.
LEMMA ReadOK ==
  ASSUME NEW way, WayOK(way), NEW limit \in Nat, Incoming(way, limit).status = "ok"
  PROVE  /\ WayOK(Read(way, Incoming(way, limit)))
         /\ Incoming(way, limit).value \in Frame
         /\ Read(way, Incoming(way, limit)).written = way.written
         /\ Read(way, Incoming(way, limit)).read = Append(way.read, Incoming(way, limit).value)
         /\ InSync(way) =>
              /\ InSync(Read(way, Incoming(way, limit)))
              /\ Len(way.read) < Len(way.written)
              /\ Incoming(way, limit).value = way.written[Len(way.read) + 1]
<1> DEFINE there == SubSeq(way.bytes, way.taken + 1, way.arrived)
           frame == Incoming(way, limit)
           new == Read(way, frame)
<1>1. /\ way \in [bytes : Seq(Nat), arrived : Nat, taken : Nat,
                  written : Seq(Frame), read : Seq(Frame)]
      /\ way.bytes \in Seq(Nat) /\ way.arrived \in Nat /\ way.taken \in Nat
      /\ way.written \in Seq(Frame) /\ way.read \in Seq(Frame)
      /\ way.taken <= way.arrived /\ way.arrived <= Len(way.bytes)
  BY DEF WayOK, Way
<1>2. /\ there \in Seq(Nat) /\ Len(there) = way.arrived - way.taken
      /\ \A i \in 1..Len(there) : there[i] = way.bytes[way.taken + i]
  <2>1. /\ there \in Seq(Nat) /\ Len(there) = way.arrived - way.taken
        /\ \A i \in 1..(way.arrived - way.taken) : there[i] = way.bytes[way.taken + i]
    BY <1>1, Middle
  <2> HIDE DEF there
  <2>2. QED
    BY <2>1
<1>3. frame = ReadFrame(there, limit)
  BY DEF Incoming
<1> HIDE DEF there
<1>4. frame.value \in Frame /\ frame.size \in 1..Len(there)
  BY <1>2, <1>3, FrameResult DEF Frame
<1>5. new = [way EXCEPT !.taken = way.taken + frame.size, !.read = Append(way.read, frame.value)]
  BY <1>1 DEF Read
<1> HIDE DEF frame, new
<1>6. frame.size \in Nat /\ 1 <= frame.size /\ frame.size <= way.arrived - way.taken
  BY <1>1, <1>2, <1>4
<1>7. new = [bytes |-> way.bytes, arrived |-> way.arrived, taken |-> way.taken + frame.size,
             written |-> way.written, read |-> Append(way.read, frame.value)]
  BY <1>1, <1>5
<1>8. Append(way.read, frame.value) \in Seq(Frame)
  BY <1>1, <1>4
<1>9. WayOK(new)
  <2>1. new \in Way
    BY <1>1, <1>6, <1>7, <1>8 DEF Way
  <2>2. new.taken <= new.arrived
    BY <1>1, <1>6, <1>7
  <2>3. QED
    BY <1>1, <1>7, <2>1, <2>2 DEF WayOK
<1>10. ASSUME InSync(way)
       PROVE  /\ InSync(new)
              /\ Len(way.read) < Len(way.written)
              /\ frame.value = way.written[Len(way.read) + 1]
  <2> DEFINE n == Len(way.written)
             r == Len(way.read)
  <2>1. PICK ends : Framed(way, ends)
    BY <1>10 DEF InSync
  <2>2. n \in Nat /\ r \in Nat /\ Len(way.bytes) \in Nat
    BY <1>1
  <2>3. /\ ends \in [0..n -> Nat] /\ ends[0] = 0 /\ ends[n] = Len(way.bytes)
        /\ r <= n /\ way.taken = ends[r]
        /\ \A k \in 1..r : way.read[k] = way.written[k]
    BY <2>1 DEF Framed, Laid, Followed
  <2>4. r < n
    <3>1. CASE r = n
      <4>1. way.taken = Len(way.bytes)
        BY <2>3, <3>1
      <4>2. QED
        BY <1>1, <1>6, <2>2, <4>1
    <3>2. QED
      BY <2>2, <2>3, <3>1
  <2> DEFINE next == way.written[r + 1]
             wire == Wire(next)
  <2>5. /\ next.id \in Small /\ next.data \in Seq(Nat)
        /\ Len(next.data) + 3 \in Small /\ next \in Frame
    <3>1. r + 1 \in 1..n
      BY <2>2, <2>4
    <3>2. next \in Frame
      BY <1>1, <3>1
    <3>3. QED
      BY <1>10, <3>1, <3>2 DEF InSync, Frame
  <2>6. wire = WriteFrame(next.id, next.data) /\ wire \in Seq(Nat) /\ Len(wire) \in Nat
    <3>1. wire = WriteFrame(next.id, next.data)
      BY DEF Wire
    <3> HIDE DEF next, wire
    <3>2. wire \in Seq(Nat)
      BY <2>5, <3>1, FrameWritten
    <3>3. QED
      BY <3>1, <3>2
  <2>7. /\ ends[r + 1] = ends[r] + Len(wire) /\ ends[r + 1] <= Len(way.bytes)
        /\ \A i \in 1..Len(wire) : way.bytes[ends[r] + i] = wire[i]
    <3>1. r + 1 \in 1..n /\ (r + 1) - 1 = r
      BY <2>2, <2>4
    <3>2. /\ ends[r + 1] = ends[(r + 1) - 1] + Len(wire) /\ ends[r + 1] <= Len(way.bytes)
          /\ \A i \in 1..Len(wire) : way.bytes[ends[(r + 1) - 1] + i] = wire[i]
      BY <2>1, <3>1 DEF Framed, Laid
    <3>3. QED
      BY <3>1, <3>2
  <2> HIDE DEF next, wire, n, r
  <2>8. \A i \in 1..Len(wire) : i <= Len(there) => there[i] = wire[i]
    <3>1. \A i \in 1..Len(wire) : i <= Len(there) => i \in 1..Len(there)
      BY <1>2, <2>6
    <3>2. QED
      BY <1>2, <2>3, <2>7, <3>1
  <2>9. frame.value = [id |-> next.id, data |-> next.data] /\ frame.size = Len(wire)
    <3>1. ReadFrame(there, limit).status = "ok"
      BY <1>3 DEF frame
    <3>2. \A i \in 1..Len(WriteFrame(next.id, next.data)) :
            i <= Len(there) => there[i] = WriteFrame(next.id, next.data)[i]
      BY <2>6, <2>8
    <3>3. PICK id \in Small, data \in Seq(Nat) :
            id = next.id /\ data = next.data /\ Len(data) + 3 \in Small
      BY <2>5
    <3>4. /\ ReadFrame(there, limit).value = [id |-> id, data |-> data]
          /\ ReadFrame(there, limit).size = Len(WriteFrame(id, data))
      <4>1. Begins(there, WriteFrame(id, data))
        BY <3>2, <3>3 DEF Begins
      <4>2. there \in Seq(Nat)
        BY <1>2
      <4>3. /\ id \in Small /\ data \in Seq(Nat) /\ Len(data) + 3 \in Small
            /\ limit \in Nat
        BY <3>3
      <4>4. QED
        BY <3>1, <4>1, <4>2, <4>3, FrameRead
    <3>5. QED
      BY <1>3, <2>6, <3>3, <3>4
  <2>10. frame.value = next
    BY <2>5, <2>9 DEF Frame
  <2>11. Framed(new, ends)
    <3>1. /\ new.read = Append(way.read, next) /\ Len(new.read) = r + 1
          /\ new.read[r + 1] = next /\ \A k \in 1..r : new.read[k] = way.read[k]
      BY <1>1, <1>7, <2>5, <2>10 DEF r
    <3>2. \A k \in 1..Len(new.read) : new.read[k] = way.written[k]
      <4>1. \A k \in 1..(r + 1) : k \in 1..r \/ k = r + 1
        BY <2>2
      <4>2. QED
        BY <2>3, <3>1, <4>1 DEF next
    <3>3. new.taken = ends[Len(new.read)] /\ Len(new.read) <= n
      BY <1>7, <2>2, <2>3, <2>4, <2>7, <2>9, <3>1
    <3>4. new.written = way.written /\ new.bytes = way.bytes
      BY <1>7
    <3>5. Followed(new.taken, new.written, new.read, ends)
      BY <3>2, <3>3, <3>4 DEF Followed, n
    <3>6. QED
      BY <2>1, <3>4, <3>5 DEF Framed
  <2>12. InSync(new)
    BY <1>7, <1>10, <2>11 DEF InSync
  <2>13. QED
    BY <2>4, <2>10, <2>12 DEF n, r, next
<1>11. QED
  BY <1>4, <1>7, <1>9, <1>10 DEF frame, new

\* However many bytes arrive, what has been written and read is the same.
LEMMA ArriveOK ==
  ASSUME NEW way, WayOK(way), way.arrived < Len(way.bytes), NEW new \in Arrived(way)
  PROVE  /\ WayOK(new)
         /\ new.read = way.read /\ new.written = way.written
         /\ InSync(way) => InSync(new)
<1>1. /\ way \in [bytes : Seq(Nat), arrived : Nat, taken : Nat,
                  written : Seq(Frame), read : Seq(Frame)]
      /\ Len(way.bytes) \in Nat /\ way.arrived \in Nat /\ way.taken \in Nat
      /\ way.taken <= way.arrived
  BY DEF WayOK, Way
<1>2. PICK n \in {way.arrived + 1, Len(way.bytes)} : new = [way EXCEPT !.arrived = n]
  BY DEF Arrived
<1>3. n \in Nat /\ way.arrived <= n /\ n <= Len(way.bytes)
  BY <1>1, <1>2
<1>4. /\ new \in Way /\ new.arrived = n /\ new.bytes = way.bytes /\ new.taken = way.taken
      /\ new.read = way.read /\ new.written = way.written
  BY <1>1, <1>2, <1>3 DEF Way
<1>5. WayOK(new)
  BY <1>1, <1>3, <1>4 DEF WayOK
<1>6. InSync(way) => InSync(new)
  BY <1>4 DEF InSync, Framed
<1>7. QED
  BY <1>4, <1>5, <1>6

-----------------------------------------------------------------------------
(* The digits and labels of a query *)

IsBits(value, s, w, first, v) ==
  value = [k \in 0..v |->
             IF k = 0 THEN 0 ELSE 2 * value[k - 1] + IF BitSet(s, w, first + k) THEN 1 ELSE 0]

LEMMA Doubled ==
  ASSUME NEW a \in Nat, NEW b \in Nat, NEW m \in Nat, a <= m, b <= 1
  PROVE  2 * a + b \in Nat /\ 2 * a + b <= 2 * m + 1
OBVIOUS

\* Five bits make a digit of base32.
LEMMA Digit ==
  ASSUME NEW s, NEW w, NEW first
  PROVE  BitsAfter(s, w, first, 5) \in 0..31
<1> DEFINE step == [p \in (1..5) \X Nat |->
                      2 * p[2] + IF BitSet(s, w, first + p[1]) THEN 1 ELSE 0]
<1>1. step \in [(1..5) \X Nat -> Nat]
  OBVIOUS
<1>2. PICK f \in [0..5 -> Nat] : Unfolds(f, 0, 5, step)
  <2> HIDE DEF step
  <2>1. 0 \in Nat /\ 5 \in Nat
    OBVIOUS
  <2>2. QED
    BY <1>1, <2>1, Recursion
<1>3. ASSUME NEW k \in 0..5, k # 0
      PROVE  step[<<k, f[k - 1]>>] = 2 * f[k - 1] + IF BitSet(s, w, first + k) THEN 1 ELSE 0
  <2>1. k \in 1..5 /\ k - 1 \in 0..5
    BY <1>3
  <2>2. <<k, f[k - 1]>> \in (1..5) \X Nat
    BY <2>1
  <2>3. QED
    BY <2>2
<1>4. IsBits(f, s, w, first, 5)
  <2> HIDE DEF step
  <2>1. QED
    BY <1>2, <1>3 DEF IsBits, Unfolds
<1> DEFINE value == CHOOSE v : IsBits(v, s, w, first, 5)
<1>5. IsBits(value, s, w, first, 5)
  BY <1>4
<1>6. BitsAfter(s, w, first, 5) = value[5]
  BY DEF BitsAfter, IsBits
<1> HIDE DEF value, step
<1>7. \A k \in 0..5 : value[k] = IF k = 0 THEN 0
                                 ELSE 2 * value[k - 1] + IF BitSet(s, w, first + k) THEN 1 ELSE 0
  BY <1>5 DEF IsBits
<1> DEFINE bit(k) == IF BitSet(s, w, first + k) THEN 1 ELSE 0
<1>8. \A k \in 1..5 :
        bit(k) \in Nat /\ bit(k) <= 1 /\ value[k] = 2 * value[k - 1] + bit(k)
  <2>1. \A k \in 1..5 : k \in 0..5 /\ k # 0
    OBVIOUS
  <2>2. QED
    BY <1>7, <2>1
<1>9. value[0] = 0
  BY <1>7
<1> HIDE DEF bit
<1>10. value[1] \in Nat /\ value[1] <= 1
  <2>1. bit(1) \in Nat /\ bit(1) <= 1 /\ value[1] = 2 * value[0] + bit(1)
    BY <1>8
  <2>2. value[1] \in Nat /\ value[1] <= 2 * 0 + 1
    BY <1>9, <2>1, Doubled
  <2>3. QED
    BY <2>2
<1>11. value[2] \in Nat /\ value[2] <= 3
  <2>1. bit(2) \in Nat /\ bit(2) <= 1 /\ value[2] = 2 * value[1] + bit(2)
    BY <1>8
  <2>2. value[2] \in Nat /\ value[2] <= 2 * 1 + 1
    BY <1>10, <2>1, Doubled
  <2>3. QED
    BY <2>2
<1>12. value[3] \in Nat /\ value[3] <= 7
  <2>1. bit(3) \in Nat /\ bit(3) <= 1 /\ value[3] = 2 * value[2] + bit(3)
    BY <1>8
  <2>2. value[3] \in Nat /\ value[3] <= 2 * 3 + 1
    BY <1>11, <2>1, Doubled
  <2>3. QED
    BY <2>2
<1>13. value[4] \in Nat /\ value[4] <= 15
  <2>1. bit(4) \in Nat /\ bit(4) <= 1 /\ value[4] = 2 * value[3] + bit(4)
    BY <1>8
  <2>2. value[4] \in Nat /\ value[4] <= 2 * 7 + 1
    BY <1>12, <2>1, Doubled
  <2>3. QED
    BY <2>2
<1>14. value[5] \in Nat /\ value[5] <= 31
  <2>1. bit(5) \in Nat /\ bit(5) <= 1 /\ value[5] = 2 * value[4] + bit(5)
    BY <1>8
  <2>2. value[5] \in Nat /\ value[5] <= 2 * 15 + 1
    BY <1>13, <2>1, Doubled
  <2>3. QED
    BY <2>2
<1>15. BitsAfter(s, w, first, 5) \in Nat /\ BitsAfter(s, w, first, 5) <= 31
  BY <1>6, <1>14
<1>16. QED
  BY <1>15

LEMMA Base32Written ==
  ASSUME NEW bytes \in Seq(Nat)
  PROVE  Base32(bytes) \in Seq(Nat)
<1> DEFINE n == (8 * Len(bytes) + 4) \div 5
           digits == Regroup(bytes, 8, 5, n)
<1>1. n \in Nat
  <2>1. Len(bytes) \in Nat
    OBVIOUS
  <2>2. QED
    BY <2>1
<1> HIDE DEF n
<1>2. digits = [i \in 1..n |-> BitsAfter(bytes, 8, 5 * (i - 1), 5)]
  BY DEF Regroup
<1>3. ASSUME NEW i \in 1..n PROVE digits[i] \in 0..31
  <2>1. BitsAfter(bytes, 8, 5 * (i - 1), 5) \in 0..31
    BY Digit
  <2>2. digits[i] = BitsAfter(bytes, 8, 5 * (i - 1), 5)
    BY <1>2
  <2>3. QED
    BY <2>1, <2>2
<1>4. DOMAIN digits = 1..n
  BY <1>2
<1> HIDE DEF digits
<1>5. ASSUME NEW d \in 0..31 PROVE Alphabet[d] \in Nat
  <2>1. Alphabet[d] = IF d < 26 THEN 65 + d ELSE 24 + d
    BY DEF Alphabet
  <2>2. d \in Nat
    OBVIOUS
  <2>3. QED
    BY <2>1, <2>2
<1>6. Base32(bytes) = [i \in 1..n |-> Alphabet[digits[i]]]
  BY <1>4 DEF Base32, digits, n
<1>7. \A i \in 1..n : Alphabet[digits[i]] \in Nat
  BY <1>3, <1>5
<1>8. QED
  BY <1>1, <1>6, <1>7

LEMMA LowerWritten ==
  ASSUME NEW word \in Seq(Nat)
  PROVE  Lower(word) \in Seq(Nat)
<1>1. Len(word) \in Nat /\ DOMAIN word = 1..Len(word) /\ \A i \in 1..Len(word) : word[i] \in Nat
  OBVIOUS
<1>2. \A i \in 1..Len(word) : (IF word[i] \in 65..90 THEN word[i] + 32 ELSE word[i]) \in Nat
  BY <1>1
<1>3. Lower(word) = [i \in 1..Len(word) |-> IF word[i] \in 65..90 THEN word[i] + 32 ELSE word[i]]
  BY <1>1 DEF Lower
<1>4. QED
  BY <1>1, <1>2, <1>3

IsPacked(packed, labels) ==
  packed = [i \in 0..Len(labels) |->
              IF i = 0 THEN << >> ELSE packed[i - 1] \o <<Len(labels[i])>> \o labels[i]]

LEMMA LabelsPacked ==
  ASSUME NEW labels \in Seq(Seq(Nat))
  PROVE  PackLabels(labels) \in Seq(Nat)
<1> DEFINE n == Len(labels)
           longer(s, i) == s \o <<Len(labels[i])>> \o labels[i]
           step == [p \in (1..n) \X Seq(Nat) |-> longer(p[2], p[1])]
<1>1. n \in Nat
  OBVIOUS
<1>2. ASSUME NEW s \in Seq(Nat), NEW i \in 1..n PROVE longer(s, i) \in Seq(Nat)
  <2>1. labels[i] \in Seq(Nat) /\ <<Len(labels[i])>> \in Seq(Nat)
    OBVIOUS
  <2>2. QED
    BY <2>1
<1> HIDE DEF longer
<1>3. step \in [(1..n) \X Seq(Nat) -> Seq(Nat)]
  <2>1. ASSUME NEW p \in (1..n) \X Seq(Nat) PROVE longer(p[2], p[1]) \in Seq(Nat)
    <3>1. p[1] \in 1..n /\ p[2] \in Seq(Nat)
      OBVIOUS
    <3>2. QED
      BY <1>2, <3>1
  <2>2. QED
    BY <2>1
<1>4. PICK f \in [0..n -> Seq(Nat)] : Unfolds(f, << >>, n, step)
  <2> HIDE DEF step, n
  <2>1. << >> \in Seq(Nat)
    OBVIOUS
  <2>2. QED
    BY <1>1, <1>3, <2>1, Recursion
<1>5. ASSUME NEW i \in 0..n, i # 0
      PROVE  step[<<i, f[i - 1]>>] = longer(f[i - 1], i)
  <2>1. i \in 1..n /\ i - 1 \in 0..n
    BY <1>1, <1>5
  <2>2. <<i, f[i - 1]>> \in (1..n) \X Seq(Nat)
    BY <2>1
  <2>3. QED
    BY <2>2
<1>6. IsPacked(f, labels)
  <2> HIDE DEF step
  <2>1. f = [i \in 0..n |-> IF i = 0 THEN << >> ELSE longer(f[i - 1], i)]
    BY <1>4, <1>5 DEF Unfolds
  <2>2. QED
    BY <2>1 DEF IsPacked, longer
<1> DEFINE packed == CHOOSE v : IsPacked(v, labels)
<1>7. IsPacked(packed, labels)
  BY <1>6
<1>8. PackLabels(labels) = Append(packed[n], 0)
  BY DEF PackLabels, IsPacked
<1> HIDE DEF packed, step
<1>9. \A i \in 0..n : packed[i] = IF i = 0 THEN << >> ELSE longer(packed[i - 1], i)
  BY <1>7 DEF IsPacked, longer
<1> HIDE DEF n
<1> DEFINE Typed == {i \in Nat : i <= n => packed[i] \in Seq(Nat)}
<1>10. 0 \in Typed
  <2>1. 0 \in 0..n
    BY <1>1
  <2>2. packed[0] = << >>
    BY <1>9, <2>1
  <2>3. << >> \in Seq(Nat)
    OBVIOUS
  <2>4. QED
    BY <2>2, <2>3
<1>11. ASSUME NEW i \in Nat, i \in Typed PROVE i + 1 \in Typed
  <2> SUFFICES ASSUME i + 1 <= n PROVE packed[i + 1] \in Seq(Nat)
    OBVIOUS
  <2>1. i + 1 \in 0..n /\ i + 1 \in 1..n /\ i + 1 # 0 /\ (i + 1) - 1 = i
    BY <1>1
  <2>2. packed[i] \in Seq(Nat)
    BY <1>1, <1>11
  <2>3. packed[i + 1] = longer(packed[i], i + 1)
    BY <1>9, <2>1
  <2>4. QED
    BY <1>2, <2>1, <2>2, <2>3
<1>12. Nat \subseteq Typed
  <2> HIDE DEF Typed
  <2>1. QED
    BY <1>10, <1>11, EveryNumber
<1>13. packed[n] \in Seq(Nat)
  BY <1>1, <1>12
<1>14. QED
  BY <1>8, <1>13

\* The larger of two numbers.
LEMMA Larger ==
  ASSUME NEW m \in Int, NEW n \in Int
  PROVE  Max({m, n}) = IF m >= n THEN m ELSE n
<1>1. CASE m >= n
  <2>1. \A x \in {m, n} : m >= x
    BY <1>1
  <2>2. Max({m, n}) \in {m, n} /\ \A x \in {m, n} : Max({m, n}) >= x
    BY <2>1 DEF Max
  <2>3. QED
    BY <1>1, <2>1, <2>2
<1>2. CASE n > m
  <2>1. \A x \in {m, n} : n >= x
    BY <1>2
  <2>2. Max({m, n}) \in {m, n} /\ \A x \in {m, n} : Max({m, n}) >= x
    BY <2>1 DEF Max
  <2>3. QED
    BY <1>2, <2>1, <2>2
<1>3. QED
  BY <1>1, <1>2

\* A label's code is a number, whatever the label.
LEMMA CodeFound ==
  ASSUME NEW label
  PROVE  CodeOf(label) \in Nat
<1> DEFINE codes == {c \in DOMAIN TLDs : TLDs[c] = label}
<1>1. DOMAIN TLDs = 1..Len(TLDs)
  BY QueryCodecAssumption
<1>2. codes \in SUBSET Nat
  BY <1>1
<1>3. CASE codes = {}
  BY <1>3 DEF CodeOf, TldRaw
<1>4. CASE codes # {}
  <2>1. CodeOf(label) = Min(codes)
    BY <1>4 DEF CodeOf
  <2> HIDE DEF codes
  <2>2. Min(codes) \in codes
    BY <1>2, <1>4, Least
  <2>3. QED
    BY <1>2, <2>1, <2>2
<1>5. QED
  BY <1>3, <1>4

LEMMA SizeEncoded ==
  ASSUME NEW size \in Nat
  PROVE  EncodeEdnsSize(size) \in Nat
<1> DEFINE larger == Max({size, 512})
<1>1. larger = IF size >= 512 THEN size ELSE 512
  <2>1. size \in Int /\ 512 \in Int
    OBVIOUS
  <2>2. Max({size, 512}) = IF size >= 512 THEN size ELSE 512
    BY <2>1, Larger
  <2>3. QED
    BY <2>2
<1> HIDE DEF larger
<1>2. larger \in Nat
  BY <1>1
<1>3. larger \div 256 \in Nat
  BY <1>2
<1>4. QED
  BY <1>3 DEF EncodeEdnsSize, larger

(* Cutting a query into labels costs it a dot after every label but the last. *)
LEMMA DotsFit ==
  ASSUME NEW length \in Nat \ {0}, NEW label \in Nat \ {0}, NEW budget \in Int,
         length <= (budget * label) \div (label + 1)
  PROVE  length + (length - 1) \div label <= budget
<1> DEFINE dots == (length - 1) \div label
           most == (budget * label) \div (label + 1)
<1>1. dots \in Int /\ dots * label <= length - 1
  OBVIOUS
<1>2. most \in Int /\ most * (label + 1) <= budget * label
  <2> DEFINE a == budget * label
             b == label + 1
  <2>1. a \in Int /\ b \in Nat \ {0}
    OBVIOUS
  <2> HIDE DEF a, b
  <2>2. a \div b \in Int /\ (a \div b) * b <= a
    BY <2>1
  <2>3. QED
    BY <2>2 DEF a, b
<1>3. length <= most
  OBVIOUS
<1> HIDE DEF dots, most
<1>4. length * (label + 1) <= most * (label + 1)
  BY <1>2, <1>3
<1>5. length * (label + 1) = length * label + length
  OBVIOUS
<1>6. (length + dots) * label = length * label + dots * label
  BY <1>1
<1>7. (length + dots) * label < budget * label
  BY <1>1, <1>2, <1>4, <1>5, <1>6
<1>8. length + dots < budget
  BY <1>1, <1>7
<1>9. QED
  BY <1>1, <1>8 DEF dots

\* A longer text is no shorter once it has its dots.
LEMMA FewerDots ==
  ASSUME NEW m \in Nat \ {0}, NEW n \in Nat \ {0}, NEW label \in Nat \ {0}, m <= n
  PROVE  m + (m - 1) \div label <= n + (n - 1) \div label
<1> DEFINE p == (m - 1) \div label
           q == (n - 1) \div label
<1>1. p \in Int /\ p * label <= m - 1
  OBVIOUS
<1>2. q \in Int /\ n - 1 < q * label + label
  OBVIOUS
<1> HIDE DEF p, q
<1>3. p * label < (q + 1) * label
  BY <1>1, <1>2
<1>4. p < q + 1
  BY <1>1, <1>2, <1>3
<1>5. QED
  BY <1>1, <1>2, <1>4 DEF p, q

LEMMA DotsCounted ==
  ASSUME NEW length \in Nat \ {0}, NEW label \in Nat \ {0}
  PROVE  (length - 1) \div label \in Nat /\ (length - 1) \div label <= length - 1
<1> DEFINE a == length - 1
           dots == a \div label
<1>1. a \in Nat
  OBVIOUS
<1> HIDE DEF a
<1>2. dots \in Int /\ dots * label <= a /\ a < dots * label + label
  BY <1>1
<1> HIDE DEF dots
<1>3. dots >= 0
  <2>1. CASE dots < 0
    <3>1. dots + 1 <= 0
      BY <1>2, <2>1
    <3>2. (dots + 1) * label <= 0 * label
      BY <1>2, <3>1
    <3>3. QED
      BY <1>1, <1>2, <3>2
  <2>2. QED
    BY <1>2, <2>1
<1>4. dots * 1 <= dots * label
  BY <1>2, <1>3
<1>5. dots \in Nat /\ dots <= a
  BY <1>1, <1>2, <1>3, <1>4
<1>6. QED
  BY <1>5 DEF a, dots

(* Every place of the labels that is not a dot has a character of the text. *)
LEMMA LabelPlace ==
  ASSUME NEW length \in Nat \ {0}, NEW label \in Nat \ {0},
         NEW i \in 1..length + (length - 1) \div label, i % (label + 1) # 0
  PROVE  i - i \div (label + 1) \in 1..length
<1> DEFINE p == (length - 1) \div label
           b == label + 1
           q == i \div b
           r == i % b
<1>1. p \in Int /\ p * label <= length - 1
  OBVIOUS
<1>2. b \in Nat \ {0} /\ i \in Int
  OBVIOUS
<1>3. i \in Nat /\ 1 <= i /\ i <= length + p
  BY <1>1
<1>4. r # 0
  OBVIOUS
<1>5. b = label + 1
  OBVIOUS
<1> HIDE DEF p, b
<1>6. q \in Int /\ r \in 0..(b - 1) /\ i = b * q + r
  BY <1>2
<1> HIDE DEF q, r
<1>7. q >= 0
  <2>1. CASE q < 0
    <3>1. q + 1 <= 0
      BY <1>6, <2>1
    <3>2. (q + 1) * b <= 0 * b
      BY <1>2, <1>6, <3>1
    <3>3. b * q + b = (q + 1) * b
      BY <1>2, <1>6
    <3>4. QED
      BY <1>2, <1>3, <1>6, <3>2, <3>3
  <2>2. QED
    BY <1>6, <2>1
<1>8. b * q = q * label + q
  BY <1>5, <1>6
<1>9. q * label >= 0
  BY <1>6, <1>7
<1>10. i - q = q * label + r
  BY <1>2, <1>6, <1>8
<1>11. i - q >= 1
  BY <1>2, <1>4, <1>6, <1>9, <1>10
<1>12. i - q <= length
  <2>1. CASE q >= p
    BY <1>1, <1>3, <1>6, <2>1
  <2>2. CASE q < p
    <3>1. q + 1 <= p
      BY <1>1, <1>6, <2>2
    <3>2. (q + 1) * label <= p * label
      BY <1>1, <1>6, <3>1
    <3>3. (q + 1) * label = q * label + label
      BY <1>6
    <3>4. r <= label
      BY <1>2, <1>5, <1>6
    <3>5. QED
      BY <1>1, <1>2, <1>6, <1>10, <3>2, <3>3, <3>4
  <2>3. QED
    BY <1>1, <1>6, <2>1, <2>2
<1>13. i - q \in 1..length
  BY <1>3, <1>6, <1>11, <1>12
<1>14. QED
  BY <1>5, <1>13 DEF q, b

\* What is as long as nothing still fits a frame of three bytes' length.
LEMMA EndlessLength ==
  /\ Endless \in Nat /\ Endless > 16
  /\ Endless * 16 + 14 < 128 * 128 * 128
BY DEF Endless

-----------------------------------------------------------------------------
USE QueryCodecAssumption

(* The addresses of a query *)

LEMMA BelowNothing ==
  ASSUME NEW b \in Nat \ {0}
  PROVE  (0 - 1) \div b \in Int /\ (0 - 1) \div b <= 0
<1> DEFINE a == 0 - 1
           q == a \div b
<1>1. a \in Int /\ a < 0
  OBVIOUS
<1> HIDE DEF a
<1>2. q \in Int /\ q * b <= a
  BY <1>1
<1> HIDE DEF q
<1>3. CASE q > 0
  <2>1. 1 <= q
    BY <1>2, <1>3
  <2>2. 1 * b <= q * b
    BY <1>2, <2>1
  <2>3. q * b \in Int /\ b >= 1 /\ 1 * b = b
    BY <1>2
  <2>4. FALSE
    <3> DEFINE p == q * b
    <3>1. p \in Int /\ b <= p /\ p <= a /\ b >= 1
      BY <1>2, <2>2, <2>3
    <3> HIDE DEF p
    <3>2. b \in Int /\ a \in Int
      BY <1>1
    <3>3. QED
      BY <1>1, <3>1, <3>2
  <2>5. QED
    BY <2>4
<1>4. QED
  BY <1>2, <1>3 DEF a, q

\* How long a piece is with the dots in it.
LEMMA ChunksWritten ==
  ASSUME NEW words \in Seq(Nat)
  PROVE  /\ ChunkLabels(words) \in Seq(Nat)
         /\ Len(words) = 0 => Len(ChunkLabels(words)) = 0
         /\ Len(words) # 0 =>
              Len(ChunkLabels(words)) = Len(words) + (Len(words) - 1) \div MaxLabelLength
<1> DEFINE n == Len(words) + (Len(words) - 1) \div MaxLabelLength
           at(i) == IF i % (MaxLabelLength + 1) = 0 THEN Dot
                    ELSE words[i - i \div (MaxLabelLength + 1)]
<1>1. Len(words) \in Nat /\ MaxLabelLength \in Nat \ {0}
  OBVIOUS
<1>2. ChunkLabels(words) = [i \in 1..n |-> at(i)]
  BY DEF ChunkLabels
<1>3. CASE Len(words) = 0
  <2>1. (0 - 1) \div MaxLabelLength \in Int /\ (0 - 1) \div MaxLabelLength <= 0
    BY <1>1, BelowNothing
  <2>2. n \in Int /\ n <= 0
    BY <1>3, <2>1
  <2> HIDE DEF n
  <2>3. 1..n = {}
    BY <2>2
  <2> HIDE DEF at
  <2>4. ChunkLabels(words) = << >>
    <3>1. [i \in 1..n |-> at(i)] = << >>
      <4> DEFINE dotted == [i \in 1..n |-> at(i)]
      <4>1. DOMAIN dotted = {}
        BY <2>3
      <4>2. dotted = [i \in {} |-> at(i)]
        BY <2>3
      <4> HIDE DEF dotted
      <4>3. dotted \in Seq(Nat) /\ Len(dotted) = 0
        BY <4>1, <4>2
      <4>4. dotted = << >>
        BY <4>3
      <4>5. QED
        BY <4>4 DEF dotted
    <3>2. QED
      BY <1>2, <3>1
  <2>5. QED
    BY <1>3, <2>4
<1>4. CASE Len(words) # 0
  <2>1. n \in Nat
    <3>1. Len(words) \in Nat \ {0}
      BY <1>1, <1>4
    <3>2. (Len(words) - 1) \div MaxLabelLength \in Nat
      BY <1>1, <3>1, DotsCounted
    <3>3. QED
      BY <1>1, <3>2
  <2>2. ASSUME NEW i \in 1..n PROVE at(i) \in Nat
    <3>1. CASE i % (MaxLabelLength + 1) = 0
      BY <3>1 DEF Dot
    <3>2. CASE i % (MaxLabelLength + 1) # 0
      <4>1. Len(words) \in Nat \ {0}
        BY <1>1, <1>4
      <4>2. i - i \div (MaxLabelLength + 1) \in 1..Len(words)
        BY <1>1, <3>2, <4>1, LabelPlace
      <4>3. QED
        BY <3>2, <4>2
    <3>3. QED
      BY <3>1, <3>2
  <2> HIDE DEF n, at
  <2>3. [i \in 1..n |-> at(i)] \in Seq(Nat) /\ Len([i \in 1..n |-> at(i)]) = n
    BY <2>1, <2>2
  <2>4. QED
    BY <1>2, <1>4, <2>3 DEF n
<1>5. QED
  BY <1>3, <1>4

\* No piece is longer than it should be.
LEMMA PiecesCut ==
  ASSUME NEW words \in Seq(Nat), NEW length \in Nat \ {0}
  PROVE  /\ Pieces(words, length) \in Seq(Seq(Nat))
         /\ \A i \in 1..Len(Pieces(words, length)) : Len(Pieces(words, length)[i]) <= length
<1> DEFINE n == (Len(words) + length - 1) \div length
           piece(i) == SubSeq(words, (i - 1) * length + 1, Min({i * length, Len(words)}))
<1>1. Len(words) \in Nat
  OBVIOUS
<1>2. n \in Nat
  <2> DEFINE a == Len(words) + length - 1
  <2>1. a \in Nat /\ n = a \div length
    BY <1>1
  <2> HIDE DEF a, n
  <2>2. n \in Int /\ a < n * length + length
    BY <2>1
  <2>3. CASE n < 0
    <3>1. n + 1 <= 0
      BY <2>2, <2>3
    <3>2. (n + 1) * length <= 0 * length
      BY <2>2, <3>1
    <3>3. QED
      BY <2>1, <2>2, <3>2
  <2>4. QED
    BY <2>2, <2>3
<1>3. ASSUME NEW i \in 1..n PROVE piece(i) \in Seq(Nat) /\ Len(piece(i)) <= length
  <2> DEFINE first == (i - 1) * length
             last == Min({i * length, Len(words)})
  <2>1. first \in Nat /\ i * length \in Nat /\ i * length = first + length
    <3>1. i \in Nat /\ i - 1 \in Nat
      BY <1>2
    <3>2. i * length = (i - 1) * length + length
      BY <3>1
    <3>3. QED
      BY <3>1, <3>2
  <2>2. last \in Nat /\ last <= first + length /\ last <= Len(words)
    <3>1. {i * length, Len(words)} \in SUBSET Nat
      BY <1>1, <2>1
    <3>2. last \in {i * length, Len(words)} /\ last <= i * length /\ last <= Len(words)
      BY <3>1, Least
    <3>3. QED
      BY <1>1, <2>1, <3>2
  <2>3. piece(i) = SubSeq(words, first + 1, last)
    OBVIOUS
  <2> HIDE DEF first, last, piece
  <2>4. CASE first <= last
    <3>1. /\ SubSeq(words, first + 1, last) \in Seq(Nat)
          /\ Len(SubSeq(words, first + 1, last)) = last - first
      BY <2>1, <2>2, <2>4, Middle
    <3>2. QED
      BY <2>1, <2>2, <2>3, <3>1
  <2>5. CASE first > last
    <3>1. SubSeq(words, first + 1, last) = << >>
      BY <2>1, <2>2, <2>5
    <3>2. piece(i) = << >>
      BY <2>3, <3>1
    <3>3. QED
      BY <3>2
  <2>6. QED
    BY <2>1, <2>2, <2>4, <2>5
<1>4. Pieces(words, length) = [i \in 1..n |-> piece(i)]
  BY DEF Pieces
<1> HIDE DEF n, piece
<1>5. QED
  BY <1>2, <1>3, <1>4

\* What surrounds a piece in its address.
LEMMA Surroundings ==
  /\ AuthPrefix \in Seq(Nat) /\ Len(AuthPrefix) <= Endless + 3
  /\ SuffixWithDot \in Seq(Nat) /\ Len(SuffixWithDot) <= Endless + 1
  /\ FragmentMarker \in Seq(Nat) /\ Len(FragmentMarker) = 2
<1>1. /\ Marker = <<112, 46>> /\ FragmentMarker = <<110, 46>> /\ Dot = 46
  BY DEF Marker, FragmentMarker, Dot
<1>2. FragmentMarker \in Seq(Nat) /\ Len(FragmentMarker) = 2
  BY <1>1
<1>3. Len(Passphrase) \in Nat /\ Len(Suffix) \in Nat /\ Endless \in Nat
  BY EndlessLength
<1>4. AuthPrefix \in Seq(Nat) /\ Len(AuthPrefix) <= Endless + 3
  <2>1. CASE Passphrase = << >>
    BY <1>3, <2>1 DEF AuthPrefix
  <2>2. CASE Passphrase # << >>
    <3>1. Marker \in Seq(Nat) /\ Len(Marker) = 2
      BY <1>1
    <3>2. Marker \o Passphrase \in Seq(Nat) /\ Len(Marker \o Passphrase) = 2 + Len(Passphrase)
      <4>1. Passphrase \in Seq(Nat)
        OBVIOUS
      <4>2. /\ Marker \o Passphrase \in Seq(Nat)
            /\ Len(Marker \o Passphrase) = Len(Marker) + Len(Passphrase)
        BY <3>1, <4>1, Joining
      <4>3. QED
        BY <3>1, <4>2
    <3>3. AuthPrefix = Append(Marker \o Passphrase, 46)
      BY <1>1, <2>2 DEF AuthPrefix
    <3>4. AuthPrefix \in Seq(Nat) /\ Len(AuthPrefix) = 3 + Len(Passphrase)
      BY <1>3, <3>2, <3>3
    <3>5. QED
      BY <1>3, <3>4
  <2>3. QED
    BY <2>1, <2>2
<1>5. SuffixWithDot \in Seq(Nat) /\ Len(SuffixWithDot) <= Endless + 1
  <2>1. CASE Suffix = << >> \/ Head(Suffix) = Dot
    <3>1. SuffixWithDot = Suffix
      BY <2>1 DEF SuffixWithDot
    <3>2. QED
      BY <1>3, <3>1
  <2>2. CASE ~(Suffix = << >> \/ Head(Suffix) = Dot)
    <3>1. SuffixWithDot = <<46>> \o Suffix
      BY <1>1, <2>2 DEF SuffixWithDot
    <3>2. <<46>> \in Seq(Nat) /\ Len(<<46>>) = 1
      OBVIOUS
    <3>3. SuffixWithDot \in Seq(Nat) /\ Len(SuffixWithDot) = 1 + Len(Suffix)
      BY <3>1, <3>2, Joining
    <3>4. QED
      BY <1>3, <3>3
  <2>3. QED
    BY <2>1, <2>2
<1>6. QED
  BY <1>2, <1>4, <1>5

\* The longest piece, with its dots, fits what an address has left for it.
LEMMA PieceLength ==
  /\ PieceBudget \in Int /\ PieceBudget <= Endless
  /\ MaxPieceLength \in Nat \ {0}
  /\ MaxPieceLength <= Endless
  /\ RoomForPiece => MaxPieceLength + (MaxPieceLength - 1) \div MaxLabelLength <= PieceBudget
<1> DEFINE share == (PieceBudget * MaxLabelLength) \div (MaxLabelLength + 1)
<1>1. /\ MaxLabelLength \in Nat \ {0} /\ MinPieceLength \in Nat \ {0}
      /\ MinPieceLength <= Endless /\ Endless \in Nat
  BY EndlessLength
<1>2. PieceBudget \in Int /\ PieceBudget <= Endless
  <2>1. /\ Len(AuthPrefix) \in Nat /\ Len(SuffixWithDot) \in Nat
        /\ Len(FragmentMarker) = 2 /\ NonceLength = 4 /\ MaxAddress \in Nat /\ MaxAddress <= Endless
    BY <1>1, Surroundings DEF NonceLength
  <2>2. QED
    BY <1>1, <2>1 DEF PieceBudget
<1>3. share \in Int
  <2> DEFINE a == PieceBudget * MaxLabelLength
             b == MaxLabelLength + 1
  <2>1. a \in Int /\ b \in Nat \ {0} /\ share = a \div b
    BY <1>1, <1>2
  <2> HIDE DEF a, b, share
  <2>2. QED
    BY <2>1
<1>4. MaxPieceLength = IF share >= MinPieceLength THEN share ELSE MinPieceLength
  <2>1. Max({share, MinPieceLength}) = IF share >= MinPieceLength THEN share ELSE MinPieceLength
    <3> HIDE DEF share
    <3>1. share \in Int /\ MinPieceLength \in Int
      BY <1>1, <1>3
    <3> HIDE QueryCodecAssumption
    <3>2. QED
      BY <3>1, Larger
  <2>2. QED
    BY <2>1 DEF MaxPieceLength
<1>5. CASE share >= MinPieceLength
  <2>1. share \in Nat \ {0} /\ MaxPieceLength = share
    <3> HIDE DEF share
    <3>1. QED
      BY <1>1, <1>3, <1>4, <1>5
  <2>2. share + (share - 1) \div MaxLabelLength <= PieceBudget
    <3> DEFINE s == share
    <3>1. s \in Nat \ {0} /\ s <= (PieceBudget * MaxLabelLength) \div (MaxLabelLength + 1)
      BY <1>3, <2>1
    <3> HIDE DEF s
    <3>2. s + (s - 1) \div MaxLabelLength <= PieceBudget
      BY <1>1, <1>2, <3>1, DotsFit
    <3>3. QED
      BY <3>2 DEF s
  <2> HIDE DEF share
  <2>3. (share - 1) \div MaxLabelLength \in Nat
    BY <1>1, <2>1, DotsCounted
  <2>4. share <= PieceBudget
    BY <1>2, <2>1, <2>2, <2>3
  <2>5. QED
    BY <1>1, <1>2, <2>1, <2>2, <2>4
<1>6. CASE share < MinPieceLength
  <2>1. MaxPieceLength = MinPieceLength
    <3> HIDE DEF share
    <3>1. QED
      BY <1>1, <1>3, <1>4, <1>6
  <2>2. QED
    BY <1>1, <1>2, <2>1 DEF RoomForPiece
<1>7. QED
  <2> HIDE DEF share
  <2>1. QED
    BY <1>1, <1>3, <1>5, <1>6

\* What a client dials: an address, a port and a next state.
Visit ==
  {v \in [address : Seq(Nat), port : Nat, nextState : Nat] :
     Len(v.address) <= 8 * Endless /\ v.nextState < Endless}

\* The address a piece is typed in.
LEMMA FragmentAddress ==
  ASSUME NEW piece \in Seq(Nat), Len(piece) <= MaxPieceLength,
         NEW nonce \in Seq(Nat), Len(nonce) = NonceLength
  PROVE  LET address == AuthPrefix \o FragmentMarker \o nonce \o <<Dot>>
                          \o ChunkLabels(piece) \o SuffixWithDot
         IN  /\ address \in Seq(Nat)
             /\ Len(address) <= 8 * Endless
             /\ RoomForPiece => Len(address) <= MaxAddress
<1> DEFINE a == AuthPrefix
           b == a \o FragmentMarker
           c == b \o nonce
           d == c \o <<Dot>>
           e == d \o ChunkLabels(piece)
           address == e \o SuffixWithDot
<1>1. /\ a \in Seq(Nat) /\ Len(a) \in Nat /\ Len(a) <= Endless + 3
      /\ SuffixWithDot \in Seq(Nat) /\ Len(SuffixWithDot) \in Nat
      /\ Len(SuffixWithDot) <= Endless + 1
      /\ FragmentMarker \in Seq(Nat) /\ Len(FragmentMarker) = 2
  BY Surroundings
<1>2. <<Dot>> \in Seq(Nat) /\ Len(<<Dot>>) = 1
  BY DEF Dot
<1>3. /\ ChunkLabels(piece) \in Seq(Nat)
      /\ Len(ChunkLabels(piece)) \in Nat
      /\ Len(ChunkLabels(piece)) <= MaxPieceLength + (MaxPieceLength - 1) \div MaxLabelLength
  <2>1. MaxPieceLength \in Nat \ {0} /\ MaxLabelLength \in Nat \ {0} /\ Len(piece) \in Nat
    BY PieceLength
  <2>2. (MaxPieceLength - 1) \div MaxLabelLength \in Nat
    BY <2>1, DotsCounted
  <2>3. ChunkLabels(piece) \in Seq(Nat)
    BY ChunksWritten
  <2>4. CASE Len(piece) = 0
    <3>1. Len(ChunkLabels(piece)) = 0
      BY <2>4, ChunksWritten
    <3>2. QED
      BY <2>1, <2>2, <2>3, <3>1
  <2>5. CASE Len(piece) # 0
    <3>1. Len(ChunkLabels(piece)) = Len(piece) + (Len(piece) - 1) \div MaxLabelLength
      BY <2>5, ChunksWritten
    <3>2. Len(piece) \in Nat \ {0}
      BY <2>1, <2>5
    <3>3. Len(piece) + (Len(piece) - 1) \div MaxLabelLength
            <= MaxPieceLength + (MaxPieceLength - 1) \div MaxLabelLength
      BY <2>1, <3>2, FewerDots
    <3>4. QED
      BY <2>3, <3>1, <3>3
  <2>6. QED
    BY <2>4, <2>5
<1>4. b \in Seq(Nat) /\ Len(b) = Len(a) + 2
  <2> HIDE DEF a
  <2>1. b \in Seq(Nat) /\ Len(b) = Len(a) + Len(FragmentMarker)
    BY <1>1, Joining
  <2>2. QED
    BY <1>1, <2>1
<1> HIDE DEF a, b
<1>5. c \in Seq(Nat) /\ Len(c) = Len(a) + 2 + 4
  <2>1. c \in Seq(Nat) /\ Len(c) = Len(b) + Len(nonce)
    BY <1>4, Joining
  <2>2. Len(nonce) = 4
    BY DEF NonceLength
  <2>3. QED
    BY <1>4, <2>1, <2>2
<1> HIDE DEF c
<1>6. d \in Seq(Nat) /\ Len(d) = Len(a) + 2 + 4 + 1
  BY <1>2, <1>5, Joining
<1> HIDE DEF d
<1>7. e \in Seq(Nat) /\ Len(e) = Len(d) + Len(ChunkLabels(piece))
  BY <1>3, <1>6, Joining
<1> HIDE DEF e
<1>8. address \in Seq(Nat) /\ Len(address) = Len(e) + Len(SuffixWithDot)
  BY <1>1, <1>7, Joining
<1> HIDE DEF address
<1>9. Len(address) = Len(a) + 7 + Len(ChunkLabels(piece)) + Len(SuffixWithDot)
  BY <1>1, <1>3, <1>6, <1>7, <1>8
<1>10. Len(address) <= 8 * Endless
  <2>1. MaxPieceLength \in Nat \ {0} /\ MaxPieceLength <= Endless
    BY PieceLength
  <2>2. /\ (MaxPieceLength - 1) \div MaxLabelLength \in Nat
        /\ (MaxPieceLength - 1) \div MaxLabelLength <= MaxPieceLength - 1
    BY <2>1, DotsCounted
  <2>3. Len(ChunkLabels(piece)) <= 2 * Endless /\ Endless \in Nat /\ Endless > 16
    BY <1>3, <2>1, <2>2, EndlessLength
  <2>4. QED
    BY <1>1, <1>3, <1>9, <2>3
<1>11. ASSUME RoomForPiece PROVE Len(address) <= MaxAddress
  <2>1. /\ MaxPieceLength + (MaxPieceLength - 1) \div MaxLabelLength <= PieceBudget
        /\ PieceBudget \in Int
    BY <1>11, PieceLength
  <2>2. PieceBudget = MaxAddress - Len(a) - 2 - 4 - 1 - Len(SuffixWithDot)
    BY <1>1 DEF PieceBudget, NonceLength, a
  <2>3. MaxPieceLength + (MaxPieceLength - 1) \div MaxLabelLength \in Int
    <3>1. MaxPieceLength \in Nat \ {0}
      BY PieceLength
    <3>2. (MaxPieceLength - 1) \div MaxLabelLength \in Nat
      BY <3>1, DotsCounted
    <3>3. QED
      BY <3>1, <3>2
  <2>4. Len(ChunkLabels(piece)) <= PieceBudget
    BY <1>3, <2>1, <2>3
  <2>5. MaxAddress \in Nat
    OBVIOUS
  <2>6. QED
    BY <1>1, <1>3, <1>9, <2>2, <2>4, <2>5
<1>12. QED
  BY <1>8, <1>10, <1>11 DEF address, e, d, c, b, a

\* A client's query.
Asked == [name : Seq(Seq(Nat)), type : Nat, class : Nat, edns : Nat]

\* A query that can be encoded becomes text.
LEMMA QueryEncoded ==
  ASSUME NEW asked \in Asked, asked.type < Endless, Encodable(asked)
  PROVE  EncodeQuery(asked) \in Seq(Nat)
<1> DEFINE labels == [i \in DOMAIN asked.name |-> Lower(asked.name[i])]
           code == CodeOf(Last(labels))
           magic == IF asked.edns = 0 THEN <<MagicMinimal>>
                    ELSE <<MagicEdns, EncodeEdnsSize(asked.edns)>>
           packed == PackLabels(IF code = TldRaw THEN labels ELSE Front(labels))
           wire == magic \o <<code>> \o WriteVarInt(asked.type) \o packed
<1>1. asked.name \in Seq(Seq(Nat)) /\ asked.type \in Nat /\ asked.edns \in Nat
  BY DEF Asked
<1>2. labels \in Seq(Seq(Nat)) /\ Len(labels) # 0
  <2>1. Len(asked.name) \in Nat \ {0} /\ DOMAIN asked.name = 1..Len(asked.name)
    BY <1>1 DEF Encodable
  <2>2. \A i \in 1..Len(asked.name) : asked.name[i] \in Seq(Nat)
    BY <1>1
  <2>3. \A i \in 1..Len(asked.name) : Lower(asked.name[i]) \in Seq(Nat)
    BY <2>2, LowerWritten
  <2>4. labels = [i \in 1..Len(asked.name) |-> Lower(asked.name[i])]
    BY <2>1
  <2>5. QED
    BY <2>1, <2>3, <2>4
<1> HIDE DEF labels
<1>3. code \in Nat
  BY CodeFound
<1> HIDE DEF code
<1>4. magic \in Seq(Nat)
  <2>1. <<MagicMinimal>> \in Seq(Nat)
    BY DEF MagicMinimal
  <2>2. <<MagicEdns, EncodeEdnsSize(asked.edns)>> \in Seq(Nat)
    <3>1. EncodeEdnsSize(asked.edns) \in Nat
      BY <1>1, SizeEncoded
    <3>2. QED
      BY <3>1 DEF MagicEdns
  <2>3. QED
    BY <2>1, <2>2
<1> HIDE DEF magic
<1>5. WriteVarInt(asked.type) \in Seq(Nat)
  <2>1. asked.type \in Small
    BY <1>1, EndlessLength DEF Small
  <2>2. QED
    BY <2>1, VarIntLength
<1>6. packed \in Seq(Nat)
  <2>1. Front(labels) \in Seq(Seq(Nat))
    <3>1. Len(labels) \in Nat
      BY <1>2
    <3>2. QED
      BY <1>2, <3>1 DEF Front
  <2>2. (IF code = TldRaw THEN labels ELSE Front(labels)) \in Seq(Seq(Nat))
    BY <1>2, <2>1
  <2>3. QED
    BY <2>2, LabelsPacked
<1> HIDE DEF packed
<1>7. wire \in Seq(Nat)
  BY <1>3, <1>4, <1>5, <1>6
<1>8. EncodeQuery(asked) = Lower(Base32(wire))
  BY DEF EncodeQuery, labels, code, magic, packed
<1> HIDE DEF wire
<1>9. QED
  BY <1>7, <1>8, Base32Written, LowerWritten

\* The addresses a client dials for a query.
LEMMA AddressesWritten ==
  ASSUME NEW word \in Seq(Nat), NEW nonce \in Seq(Nat), Len(nonce) = NonceLength
  PROVE  /\ Addresses(word, nonce) \in Seq(Visit)
         /\ RoomForPiece => \A i \in 1..Len(Addresses(word, nonce)) :
                              Len(Addresses(word, nonce)[i].address) <= MaxAddress
<1> DEFINE start == AuthPrefix \o word
           whole == start \o SuffixWithDot
           pieces == Pieces(word, MaxPieceLength)
           address(i) == AuthPrefix \o FragmentMarker \o nonce \o <<Dot>>
                           \o ChunkLabels(pieces[i]) \o SuffixWithDot
           visit(i) == [address |-> address(i), port |-> 256 * i + Len(pieces), nextState |-> 1]
<1>1. /\ Addresses(word, nonce) =
           IF Len(whole) <= MaxAddress
             THEN <<[address |-> whole, port |-> DefaultPort, nextState |-> 1]>>
           ELSE IF Len(pieces) > MaxFragmentPieces THEN << >>
           ELSE [i \in DOMAIN pieces |-> visit(i)]
      /\ 1 < Endless /\ MaxAddress \in Nat /\ MaxAddress <= Endless /\ Endless \in Nat
  BY EndlessLength DEF Addresses
<1>2. whole \in Seq(Nat)
  <2>1. AuthPrefix \in Seq(Nat) /\ SuffixWithDot \in Seq(Nat)
    BY Surroundings
  <2>2. start \in Seq(Nat)
    BY <2>1
  <2> HIDE DEF start
  <2>3. QED
    BY <2>1, <2>2
<1>3. pieces \in Seq(Seq(Nat)) /\ \A i \in 1..Len(pieces) : Len(pieces[i]) <= MaxPieceLength
  BY PieceLength, PiecesCut
<1> HIDE DEF whole, pieces
<1>4. ASSUME NEW i \in 1..Len(pieces)
      PROVE  /\ address(i) \in Seq(Nat) /\ Len(address(i)) <= 8 * Endless
             /\ RoomForPiece => Len(address(i)) <= MaxAddress
  <2>1. pieces[i] \in Seq(Nat) /\ Len(pieces[i]) <= MaxPieceLength
    BY <1>3
  <2>2. QED
    BY <2>1, FragmentAddress
<1> HIDE DEF address
<1>5. ASSUME NEW i \in 1..Len(pieces)
      PROVE  visit(i) \in Visit
  <2>1. Len(pieces) \in Nat /\ i \in Nat
    BY <1>3
  <2>2. 256 * i + Len(pieces) \in Nat
    BY <2>1
  <2>3. QED
    BY <1>1, <1>4, <2>2 DEF Visit
<1>6. CASE Len(whole) <= MaxAddress
  <2> DEFINE only == [address |-> whole, port |-> DefaultPort, nextState |-> 1]
  <2>1. Len(whole) <= 8 * Endless
    <3>1. Len(whole) \in Nat
      BY <1>2
    <3>2. QED
      BY <1>1, <1>6, <3>1
  <2>2. only \in Visit
    BY <1>1, <1>2, <2>1 DEF Visit, DefaultPort
  <2>3. Addresses(word, nonce) = <<only>> /\ only.address = whole
    BY <1>1, <1>6
  <2> HIDE DEF only
  <2>4. QED
    BY <1>6, <2>2, <2>3
<1>7. CASE ~(Len(whole) <= MaxAddress) /\ Len(pieces) > MaxFragmentPieces
  BY <1>1, <1>7
<1>8. CASE ~(Len(whole) <= MaxAddress) /\ ~(Len(pieces) > MaxFragmentPieces)
  <2>1. Addresses(word, nonce) = [i \in 1..Len(pieces) |-> visit(i)] /\ Len(pieces) \in Nat
    BY <1>1, <1>3, <1>8
  <2>2. \A i \in 1..Len(pieces) : visit(i) \in Visit /\ visit(i).address = address(i)
    BY <1>5
  <2> HIDE DEF visit
  <2>3. Addresses(word, nonce) \in Seq(Visit) /\ Len(Addresses(word, nonce)) = Len(pieces)
    BY <2>1, <2>2
  <2>4. \A i \in 1..Len(pieces) : Addresses(word, nonce)[i].address = address(i)
    BY <2>1, <2>2
  <2>5. QED
    BY <1>4, <2>3, <2>4
<1>9. QED
  BY <1>6, <1>7, <1>8

\* What a client says first fits the frame it says it in.
LEMMA HandshakeEncoded ==
  ASSUME NEW visit \in Visit
  PROVE  /\ EncodeHandshake(visit) \in Seq(Nat)
         /\ Len(EncodeHandshake(visit)) + 3 \in Small
<1> DEFINE address == visit.address
           version == WriteVarInt(Protocol)
           head == WriteVarInt(Len(address))
           named == head \o address
           port == <<visit.port \div 256, visit.port % 256>>
           state == WriteVarInt(visit.nextState)
           a == version \o named
           b == a \o port
           payload == b \o state
<1>1. /\ address \in Seq(Nat) /\ Len(address) \in Nat /\ Len(address) <= 8 * Endless
      /\ visit.port \in Nat /\ visit.nextState \in Nat /\ visit.nextState < Endless
  BY DEF Visit
<1>2. /\ version \in Seq(Nat) /\ Len(version) \in Nat /\ Len(version) <= 3
  <2>1. Protocol \in Small
    BY DEF Protocol, Small
  <2>2. QED
    BY <2>1, VarIntLength
<1>3. head \in Seq(Nat) /\ Len(head) \in Nat /\ Len(head) <= 3
  <2>1. Len(address) \in Small
    <3> HIDE DEF address
    <3>1. 8 * Endless < 128 * 128 * 128 /\ Endless \in Nat
      BY EndlessLength
    <3>2. QED
      BY <1>1, <3>1 DEF Small
  <2>2. QED
    BY <2>1, VarIntLength
<1>4. state \in Seq(Nat) /\ Len(state) \in Nat /\ Len(state) <= 3
  <2>1. visit.nextState \in Small
    <3>1. Endless < 128 * 128 * 128 /\ Endless \in Nat
      BY EndlessLength
    <3>2. QED
      BY <1>1, <3>1 DEF Small
  <2>2. QED
    BY <2>1, VarIntLength
<1>5. port \in Seq(Nat) /\ Len(port) = 2
  <2>1. visit.port \div 256 \in Nat /\ visit.port % 256 \in Nat
    BY <1>1
  <2>2. QED
    BY <2>1
<1>6. EncodeHandshake(visit) = payload
  BY DEF EncodeHandshake, WriteString
<1> HIDE DEF address, version, head, state, port
<1>7. named \in Seq(Nat) /\ Len(named) = Len(head) + Len(address)
  BY <1>1, <1>3, Joining
<1> HIDE DEF named
<1>8. a \in Seq(Nat) /\ Len(a) = Len(version) + Len(named)
  BY <1>2, <1>7, Joining
<1> HIDE DEF a
<1>9. b \in Seq(Nat) /\ Len(b) = Len(a) + Len(port)
  BY <1>5, <1>8, Joining
<1> HIDE DEF b
<1>10. payload \in Seq(Nat) /\ Len(payload) = Len(b) + Len(state)
  BY <1>4, <1>9, Joining
<1> HIDE DEF payload
<1>11. Len(payload) + 3 \in Nat /\ Len(payload) + 3 <= 8 * Endless + 14
  <2>1. Endless \in Nat
    BY EndlessLength
  <2>2. Len(payload) = Len(version) + (Len(head) + Len(address)) + 2 + Len(state)
    BY <1>5, <1>7, <1>8, <1>9, <1>10
  <2>3. Len(address) \in Nat /\ Len(address) <= 8 * Endless
    BY <1>1 DEF address
  <2>4. QED
    BY <1>2, <1>3, <1>4, <2>1, <2>2, <2>3
<1>12. Len(payload) + 3 \in Small
  <2>1. 8 * Endless + 14 < 128 * 128 * 128 /\ 8 * Endless + 14 \in Nat
    BY EndlessLength
  <2>2. QED
    BY <1>11, <2>1 DEF Small
<1>13. QED
  BY <1>6, <1>10, <1>12

-----------------------------------------------------------------------------
HIDE QueryCodecAssumption
HIDE FramesAssumption

\* Labels of bytes are labels.
LEMMA BytesAreNumbers ==
  ASSUME NEW labels \in Seq(Seq(Byte))
  PROVE  labels \in Seq(Seq(Nat))
<1>1. ASSUME NEW label \in Seq(Byte) PROVE label \in Seq(Nat)
  <2>1. \A i \in 1..Len(label) : label[i] \in Nat
    <3>1. \A i \in 1..Len(label) : label[i] \in Byte
      OBVIOUS
    <3>2. Byte \subseteq Nat
      BY DEF Byte
    <3>3. QED
      BY <3>1, <3>2
  <2>2. QED
    BY <2>1
<1>2. \A i \in 1..Len(labels) : labels[i] \in Seq(Nat)
  BY <1>1
<1>3. QED
  BY <1>2

-----------------------------------------------------------------------------
(* Labels joined again *)

\* Division with a remainder has one result.
LEMMA Divided ==
  ASSUME NEW b \in Nat \ {0}, NEW q \in Int, NEW r \in 0..(b - 1), NEW a \in Int, a = q * b + r
  PROVE  a \div b = q /\ a % b = r
<1> DEFINE m == a \div b
           s == a % b
<1>1. m \in Int /\ s \in 0..(b - 1) /\ a = b * m + s
  OBVIOUS
<1> HIDE DEF m, s
<1>2. (m - q) * b = r - s
  BY <1>1
<1>3. r - s < b /\ s - r < b
  BY <1>1
<1>4. CASE m > q
  <2>1. m - q >= 1
    BY <1>1, <1>4
  <2>2. (m - q) * b >= 1 * b
    BY <1>1, <2>1
  <2>3. QED
    BY <1>1, <1>2, <1>3, <2>2
<1>5. CASE m < q
  <2>1. q - m >= 1
    BY <1>1, <1>5
  <2>2. (q - m) * b >= 1 * b
    BY <1>1, <2>1
  <2>3. (q - m) * b = 0 - (m - q) * b
    BY <1>1
  <2>4. QED
    BY <1>1, <1>2, <1>3, <2>2, <2>3
<1>6. m = q
  BY <1>1, <1>4, <1>5
<1>7. QED
  BY <1>1, <1>6 DEF m, s

\* What division gives one number later.
LEMMA DividedNext ==
  ASSUME NEW b \in Nat \ {0}, NEW i \in Nat \ {0}
  PROVE  /\ i % b = 0 => i \div b = (i - 1) \div b + 1
         /\ i % b # 0 => i \div b = (i - 1) \div b
<1> DEFINE q == i \div b
           r == i % b
<1>1. q \in Int /\ r \in 0..(b - 1) /\ i = b * q + r
  OBVIOUS
<1> HIDE DEF q, r
<1>2. CASE r = 0
  <2>1. b - 1 \in 0..(b - 1) /\ q - 1 \in Int /\ i - 1 \in Int
    BY <1>1
  <2>2. i - 1 = (q - 1) * b + (b - 1)
    BY <1>1, <1>2
  <2>3. (i - 1) \div b = q - 1
    <3> DEFINE a == i - 1
               p == q - 1
               last == b - 1
    <3>1. a = p * b + last /\ a \in Int /\ p \in Int /\ last \in 0..(b - 1)
      BY <2>1, <2>2
    <3> HIDE DEF a, p, last
    <3>2. a \div b = p
      BY <3>1, Divided
    <3>3. QED
      BY <3>2 DEF a, p
  <2>4. QED
    BY <1>1, <1>2, <2>3 DEF q, r
<1>3. CASE r # 0
  <2>1. r - 1 \in 0..(b - 1) /\ i - 1 \in Int
    BY <1>1, <1>3
  <2>2. i - 1 = q * b + (r - 1)
    BY <1>1
  <2>3. (i - 1) \div b = q
    BY <1>1, <2>1, <2>2, Divided
  <2>4. QED
    BY <1>1, <1>3, <2>3 DEF q, r
<1>4. QED
  BY <1>2, <1>3

IsJoined(joined, words) ==
  joined = [i \in 0..Len(words) |->
              IF i = 0 THEN << >>
              ELSE IF words[i] = Dot THEN joined[i - 1] ELSE Append(joined[i - 1], words[i])]

\* Joined leaves out the dots, one place after the other.
LEMMA JoinedFound ==
  ASSUME NEW words \in Seq(Nat)
  PROVE  \E joined \in [0..Len(words) -> Seq(Nat)] :
           /\ joined[0] = << >> /\ Joined(words) = joined[Len(words)]
           /\ \A i \in 1..Len(words) :
                joined[i] = IF words[i] = Dot THEN joined[i - 1] ELSE Append(joined[i - 1], words[i])
<1> DEFINE n == Len(words)
           longer(s, i) == IF words[i] = Dot THEN s ELSE Append(s, words[i])
           step == [p \in (1..n) \X Seq(Nat) |-> longer(p[2], p[1])]
<1>1. n \in Nat
  OBVIOUS
<1>2. ASSUME NEW s \in Seq(Nat), NEW i \in 1..n PROVE longer(s, i) \in Seq(Nat)
  OBVIOUS
<1> HIDE DEF longer
<1>3. step \in [(1..n) \X Seq(Nat) -> Seq(Nat)]
  <2>1. ASSUME NEW p \in (1..n) \X Seq(Nat) PROVE longer(p[2], p[1]) \in Seq(Nat)
    <3>1. p[1] \in 1..n /\ p[2] \in Seq(Nat)
      OBVIOUS
    <3>2. QED
      BY <1>2, <3>1
  <2>2. QED
    BY <2>1
<1>4. PICK f \in [0..n -> Seq(Nat)] : Unfolds(f, << >>, n, step)
  <2> HIDE DEF step, n
  <2>1. << >> \in Seq(Nat)
    OBVIOUS
  <2>2. QED
    BY <1>1, <1>3, <2>1, Recursion
<1>5. ASSUME NEW i \in 0..n, i # 0
      PROVE  step[<<i, f[i - 1]>>] = longer(f[i - 1], i)
  <2>1. i \in 1..n /\ i - 1 \in 0..n
    BY <1>1, <1>5
  <2>2. <<i, f[i - 1]>> \in (1..n) \X Seq(Nat)
    BY <2>1
  <2>3. QED
    BY <2>2
<1>6. IsJoined(f, words)
  <2> HIDE DEF step
  <2>1. f = [i \in 0..n |-> IF i = 0 THEN << >> ELSE longer(f[i - 1], i)]
    BY <1>4, <1>5 DEF Unfolds
  <2>2. QED
    BY <2>1 DEF IsJoined, longer
<1> DEFINE joined == CHOOSE v : IsJoined(v, words)
<1>7. IsJoined(joined, words)
  BY <1>6
<1>8. Joined(words) = joined[n]
  BY DEF Joined, IsJoined
<1> HIDE DEF joined, step
<1>9. \A i \in 0..n : joined[i] = IF i = 0 THEN << >> ELSE longer(joined[i - 1], i)
  BY <1>7 DEF IsJoined, longer
<1>10. joined = [i \in 0..n |-> joined[i]]
  BY <1>7 DEF IsJoined
<1> HIDE DEF n
<1> DEFINE Good == {i \in Nat : i <= n => joined[i] \in Seq(Nat)}
<1>11. 0 \in Good
  <2>1. 0 \in 0..n
    BY <1>1
  <2>2. joined[0] = << >>
    BY <1>9, <2>1
  <2>3. << >> \in Seq(Nat)
    OBVIOUS
  <2>4. QED
    BY <2>2, <2>3
<1>12. ASSUME NEW i \in Nat, i \in Good PROVE i + 1 \in Good
  <2> SUFFICES ASSUME i + 1 <= n PROVE joined[i + 1] \in Seq(Nat)
    OBVIOUS
  <2>1. i + 1 \in 0..n /\ i + 1 \in 1..n /\ i + 1 # 0 /\ (i + 1) - 1 = i
    BY <1>1
  <2>2. joined[i] \in Seq(Nat)
    BY <1>1, <1>12
  <2>3. joined[i + 1] = longer(joined[i], i + 1)
    BY <1>9, <2>1
  <2>4. QED
    BY <1>2, <2>1, <2>2, <2>3
<1>13. Nat \subseteq Good
  <2> HIDE DEF Good
  <2>1. QED
    BY <1>11, <1>12, EveryNumber
<1>14. \A i \in 0..n : joined[i] \in Seq(Nat)
  BY <1>1, <1>13
<1>15. joined \in [0..n -> Seq(Nat)]
  BY <1>10, <1>14
<1>16. \A i \in 1..n : i \in 0..n /\ i # 0
  BY <1>1
<1>17. /\ joined[0] = << >>
       /\ \A i \in 1..n :
            joined[i] = IF words[i] = Dot THEN joined[i - 1] ELSE Append(joined[i - 1], words[i])
  <2>1. 0 \in 0..n
    BY <1>1
  <2>2. QED
    BY <1>9, <1>16, <2>1 DEF longer
<1>18. QED
  BY <1>8, <1>15, <1>17 DEF n

\* A prefix and the next character.
LEMMA Longer ==
  ASSUME NEW s \in Seq(Nat), NEW k \in Nat, k + 1 <= Len(s)
  PROVE  Append(SubSeq(s, 1, k), s[k + 1]) = SubSeq(s, 1, k + 1)
<1> DEFINE a == SubSeq(s, 1, k)
           b == SubSeq(s, 1, k + 1)
<1>1. Len(s) \in Nat /\ 0 \in Nat /\ k + 1 \in Nat /\ s[k + 1] \in Nat
  OBVIOUS
<1>2. a \in Seq(Nat) /\ Len(a) = k /\ \A i \in 1..k : a[i] = s[i]
  <2>1. /\ SubSeq(s, 0 + 1, k) \in Seq(Nat) /\ Len(SubSeq(s, 0 + 1, k)) = k - 0
        /\ \A i \in 1..(k - 0) : SubSeq(s, 0 + 1, k)[i] = s[0 + i]
    BY <1>1, Middle
  <2>2. QED
    BY <2>1
<1>3. b \in Seq(Nat) /\ Len(b) = k + 1 /\ \A i \in 1..(k + 1) : b[i] = s[i]
  <2>1. /\ SubSeq(s, 0 + 1, k + 1) \in Seq(Nat) /\ Len(SubSeq(s, 0 + 1, k + 1)) = (k + 1) - 0
        /\ \A i \in 1..((k + 1) - 0) : SubSeq(s, 0 + 1, k + 1)[i] = s[0 + i]
    BY <1>1, Middle
  <2>2. QED
    BY <2>1
<1> HIDE DEF a, b
<1> DEFINE c == Append(a, s[k + 1])
<1>4. c \in Seq(Nat) /\ Len(c) = k + 1 /\ \A i \in 1..(k + 1) : c[i] = IF i = k + 1 THEN s[k + 1] ELSE a[i]
  BY <1>1, <1>2
<1> HIDE DEF c
<1>5. \A i \in 1..(k + 1) : c[i] = b[i]
  <2>1. ASSUME NEW i \in 1..(k + 1), i # k + 1 PROVE c[i] = b[i]
    <3>1. i \in 1..k
      BY <2>1
    <3>2. QED
      BY <1>2, <1>3, <1>4, <2>1, <3>1
  <2>2. c[k + 1] = b[k + 1]
    <3>1. k + 1 \in 1..(k + 1)
      OBVIOUS
    <3>2. QED
      BY <1>3, <1>4, <3>1
  <2>3. QED
    BY <2>1, <2>2
<1>6. c = b
  BY <1>3, <1>4, <1>5, SameText
<1>7. QED
  BY <1>6 DEF a, b, c

\* A text with no dots is not changed.
LEMMA JoinedWhole ==
  ASSUME NEW words \in Seq(Nat), \A i \in 1..Len(words) : words[i] # Dot
  PROVE  Joined(words) = words
<1> DEFINE n == Len(words)
<1>1. n \in Nat
  OBVIOUS
<1>2. PICK joined \in [0..Len(words) -> Seq(Nat)] :
        /\ joined[0] = << >> /\ Joined(words) = joined[Len(words)]
        /\ \A i \in 1..Len(words) :
             joined[i] = IF words[i] = Dot THEN joined[i - 1] ELSE Append(joined[i - 1], words[i])
  BY JoinedFound
<1>3. /\ joined[0] = << >> /\ Joined(words) = joined[n]
      /\ \A i \in 1..n : joined[i] = Append(joined[i - 1], words[i])
  BY <1>2
<1> DEFINE S == {i \in Nat : i <= n => joined[i] = SubSeq(words, 1, i)}
<1>4. 0 \in S
  <2>1. SubSeq(words, 1, 0) = << >>
    OBVIOUS
  <2>2. QED
    BY <1>3, <2>1
<1>5. ASSUME NEW i \in Nat, i \in S PROVE i + 1 \in S
  <2> SUFFICES ASSUME i + 1 <= n PROVE joined[i + 1] = SubSeq(words, 1, i + 1)
    OBVIOUS
  <2>1. i + 1 \in 1..n /\ (i + 1) - 1 = i /\ i <= n
    BY <1>1
  <2>2. joined[i + 1] = Append(SubSeq(words, 1, i), words[i + 1])
    BY <1>3, <1>5, <2>1
  <2>3. QED
    BY <2>2, Longer
<1>6. Nat \subseteq S
  <2> HIDE DEF S
  <2>1. QED
    BY <1>4, <1>5, EveryNumber
<1>7. joined[n] = SubSeq(words, 1, n)
  <2> HIDE DEF n
  <2>1. QED
    BY <1>1, <1>6
<1>8. SubSeq(words, 1, n) = words
  OBVIOUS
<1>9. QED
  BY <1>3, <1>7, <1>8

\* A piece is what is left of its labels without the dots.
LEMMA ChunksJoined ==
  ASSUME NEW words \in Seq(Nat), Len(words) # 0, \A i \in 1..Len(words) : words[i] # Dot
  PROVE  Joined(ChunkLabels(words)) = words
<1> DEFINE dots == (Len(words) - 1) \div MaxLabelLength
           last == (Len(words) - 1) % MaxLabelLength
           n == Len(words) + dots
           b == MaxLabelLength + 1
           chunks == ChunkLabels(words)
<1>1. /\ MaxLabelLength \in Nat \ {0} /\ b \in Nat \ {0}
      /\ Len(words) \in Nat \ {0}
  BY QueryCodecAssumption
<1>2. /\ dots \in Nat /\ last \in 0..(MaxLabelLength - 1)
      /\ Len(words) - 1 = MaxLabelLength * dots + last
  <2>1. dots \in Nat
    BY <1>1, DotsCounted
  <2>2. QED
    BY <1>1, <2>1
<1>3. n \in Nat /\ n \div b = dots
  <2>1. b = MaxLabelLength + 1
    OBVIOUS
  <2> HIDE DEF dots, last, b
  <2>2. n \in Int /\ n = dots * b + (last + 1) /\ last + 1 \in 0..(b - 1)
    BY <1>1, <1>2, <2>1
  <2> DEFINE m == n
  <2>3. m \in Int /\ m = dots * b + (last + 1)
    BY <2>2
  <2> DEFINE r == last + 1
  <2>6. r \in 0..(b - 1) /\ m = dots * b + r /\ dots \in Int
    BY <1>2, <2>2
  <2> HIDE DEF m, r
  <2>4. m \div b = dots
    BY <1>1, <2>3, <2>6, Divided
  <2>5. QED
    BY <1>1, <1>2, <2>4 DEF m
<1>4. chunks \in Seq(Nat) /\ Len(chunks) = n
  BY <1>1, ChunksWritten, QueryCodecAssumption
<1>5. \A i \in 1..n : chunks[i] = IF i % b = 0 THEN Dot ELSE words[i - i \div b]
  BY DEF ChunkLabels
<1>6. \A i \in 1..n : i % b # 0 => i - i \div b \in 1..Len(words)
  BY <1>1, LabelPlace
<1>7. PICK joined \in [0..Len(chunks) -> Seq(Nat)] :
        /\ joined[0] = << >> /\ Joined(chunks) = joined[Len(chunks)]
        /\ \A i \in 1..Len(chunks) :
             joined[i] = IF chunks[i] = Dot THEN joined[i - 1] ELSE Append(joined[i - 1], chunks[i])
  BY <1>4, JoinedFound
<1> HIDE DEF chunks, b
<1> DEFINE S == {i \in Nat : i <= n =>
                   i - i \div b \in Nat /\ joined[i] = SubSeq(words, 1, i - i \div b)}
<1>8. 0 \in S
  <2>1. 0 \div b = 0
    BY <1>1, Divided
  <2>2. 0 - 0 \div b = 0
    BY <2>1
  <2>3. QED
    BY <1>7, <2>2
<1>9. ASSUME NEW i \in Nat, i \in S PROVE i + 1 \in S
  <2> DEFINE j == i + 1
             before == i - i \div b
             after == j - j \div b
  <2> SUFFICES ASSUME j <= n PROVE after \in Nat /\ joined[j] = SubSeq(words, 1, after)
    OBVIOUS
  <2>1. j \in 1..n /\ j \in Nat \ {0} /\ j - 1 = i /\ i <= n
    BY <1>3
  <2>2. before \in Nat /\ joined[i] = SubSeq(words, 1, before)
    BY <1>9, <2>1
  <2>3. /\ j % b = 0 => j \div b = i \div b + 1
        /\ j % b # 0 => j \div b = i \div b
    BY <1>1, <2>1, DividedNext
  <2>4. i \div b \in Int
    BY <1>1
  <2>5. joined[j] = IF chunks[j] = Dot THEN joined[i] ELSE Append(joined[i], chunks[j])
    BY <1>4, <1>7, <2>1
  <2>6. CASE j % b = 0
    <3>1. after = before
      BY <2>1, <2>3, <2>4, <2>6
    <3>2. chunks[j] = Dot
      BY <1>5, <2>1, <2>6
    <3>3. QED
      BY <2>2, <2>5, <3>1, <3>2
  <2>7. CASE j % b # 0
    <3>1. after = before + 1
      BY <2>1, <2>3, <2>4, <2>7
    <3>2. chunks[j] = words[after] /\ after \in 1..Len(words)
      BY <1>5, <1>6, <2>1, <2>7 DEF b
    <3>3. joined[j] = Append(SubSeq(words, 1, before), words[before + 1])
      <4> HIDE DEF after, before
      <4>1. words[after] # Dot
        BY <3>2
      <4>2. QED
        BY <2>2, <2>5, <3>1, <3>2, <4>1
    <3>4. before + 1 <= Len(words)
      <4> HIDE DEF after, before
      <4>1. QED
        BY <1>1, <3>1, <3>2
    <3> HIDE DEF after, before
    <3>5. joined[j] = SubSeq(words, 1, before + 1)
      BY <2>2, <3>3, <3>4, Longer
    <3>6. QED
      BY <2>2, <3>1, <3>5
  <2>8. QED
    BY <2>6, <2>7
<1>10. Nat \subseteq S
  <2> HIDE DEF S
  <2>1. QED
    BY <1>8, <1>9, EveryNumber
<1>11. joined[n] = SubSeq(words, 1, n - n \div b)
  <2> HIDE DEF n
  <2>1. QED
    BY <1>3, <1>10
<1>12. n - n \div b = Len(words)
  <2>1. n = Len(words) + dots /\ Len(words) \in Nat /\ dots \in Nat
    BY <1>1, <1>2
  <2> HIDE DEF n, dots
  <2>2. QED
    BY <1>3, <2>1
<1>13. SubSeq(words, 1, Len(words)) = words
  OBVIOUS
<1>14. QED
  BY <1>4, <1>7, <1>11, <1>12, <1>13 DEF chunks

-----------------------------------------------------------------------------
(* Base32 read back *)

LEMMA Powers ==
  /\ 2^0 = 1 /\ 2^1 = 2 /\ 2^2 = 4 /\ 2^3 = 8
  /\ 2^4 = 16 /\ 2^5 = 32 /\ 2^6 = 64 /\ 2^7 = 128
OBVIOUS

Bit(s, w, j) == IF BitSet(s, w, j) THEN 1 ELSE 0

Counts(value, s, w, first, v) ==
  /\ value \in [0..v -> Nat] /\ value[0] = 0 /\ BitsAfter(s, w, first, v) = value[v]
  /\ \A k \in 1..v : value[k] = 2 * value[k - 1] + Bit(s, w, first + k)

\* How BitsAfter counts.
LEMMA BitsFound ==
  ASSUME NEW s, NEW w, NEW first, NEW v \in Nat
  PROVE  \E value : Counts(value, s, w, first, v)
<1> DEFINE step == [p \in (1..v) \X Nat |-> 2 * p[2] + Bit(s, w, first + p[1])]
<1>1. \A k : Bit(s, w, first + k) \in Nat
  BY DEF Bit
<1>2. step \in [(1..v) \X Nat -> Nat]
  BY <1>1
<1>3. PICK f \in [0..v -> Nat] : Unfolds(f, 0, v, step)
  <2> HIDE DEF step
  <2>1. 0 \in Nat
    OBVIOUS
  <2>2. QED
    BY <1>2, <2>1, Recursion
<1>4. ASSUME NEW k \in 0..v, k # 0
      PROVE  step[<<k, f[k - 1]>>] = 2 * f[k - 1] + Bit(s, w, first + k)
  <2>1. k \in 1..v /\ k - 1 \in 0..v
    BY <1>4
  <2>2. <<k, f[k - 1]>> \in (1..v) \X Nat
    BY <2>1
  <2>3. QED
    BY <2>2
<1>5. IsBits(f, s, w, first, v)
  <2> HIDE DEF step
  <2>1. QED
    BY <1>3, <1>4 DEF IsBits, Unfolds, Bit
<1> DEFINE value == CHOOSE x : IsBits(x, s, w, first, v)
<1>6. IsBits(value, s, w, first, v)
  BY <1>5
<1>7. BitsAfter(s, w, first, v) = value[v]
  BY DEF BitsAfter, IsBits
<1> HIDE DEF value, step
<1>8. \A k \in 0..v : value[k] = IF k = 0 THEN 0 ELSE 2 * value[k - 1] + Bit(s, w, first + k)
  BY <1>6 DEF IsBits, Bit
<1>9. value = [k \in 0..v |-> value[k]]
  BY <1>6 DEF IsBits
<1>10. value[0] = 0
  BY <1>8
<1>11. ASSUME NEW k \in 1..v
       PROVE  value[k] = 2 * value[k - 1] + Bit(s, w, first + k)
  <2>1. k \in 0..v /\ k # 0
    OBVIOUS
  <2>2. QED
    BY <1>8, <2>1
<1> DEFINE Good == {k \in Nat : k <= v => value[k] \in Nat}
<1>12. 0 \in Good
  BY <1>10
<1>13. ASSUME NEW k \in Nat, k \in Good PROVE k + 1 \in Good
  <2> SUFFICES ASSUME k + 1 <= v PROVE value[k + 1] \in Nat
    OBVIOUS
  <2>1. k + 1 \in 1..v /\ (k + 1) - 1 = k /\ value[k] \in Nat
    BY <1>13
  <2>2. value[k + 1] = 2 * value[k] + Bit(s, w, first + (k + 1))
    BY <1>11, <2>1
  <2>3. Bit(s, w, first + (k + 1)) \in Nat
    BY <1>1
  <2>4. QED
    BY <2>1, <2>2, <2>3
<1>14. Nat \subseteq Good
  <2> HIDE DEF Good
  <2>1. QED
    BY <1>12, <1>13, EveryNumber
<1>15. \A k \in 0..v : value[k] \in Nat
  BY <1>14
<1>16. value \in [0..v -> Nat]
  BY <1>9, <1>15
<1>17. QED
  BY <1>7, <1>10, <1>11, <1>16 DEF Counts

\* The same bits are the same number.
LEMMA SameBits ==
  ASSUME NEW s, NEW w, NEW t, NEW u, NEW first, NEW v \in Nat,
         \A k \in 1..v : BitSet(s, w, first + k) <=> BitSet(t, u, first + k)
  PROVE  BitsAfter(s, w, first, v) = BitsAfter(t, u, first, v)
<1> PICK f : Counts(f, s, w, first, v)
  BY BitsFound
<1>1. /\ f[0] = 0 /\ BitsAfter(s, w, first, v) = f[v]
      /\ \A k \in 1..v : f[k] = 2 * f[k - 1] + Bit(s, w, first + k)
  BY DEF Counts
<1> PICK g : Counts(g, t, u, first, v)
  BY BitsFound
<1>2. /\ g[0] = 0 /\ BitsAfter(t, u, first, v) = g[v]
      /\ \A k \in 1..v : g[k] = 2 * g[k - 1] + Bit(t, u, first + k)
  BY DEF Counts
<1>3. \A k \in 1..v : Bit(s, w, first + k) = Bit(t, u, first + k)
  BY DEF Bit
<1> DEFINE S == {k \in Nat : k <= v => f[k] = g[k]}
<1>4. 0 \in S
  BY <1>1, <1>2
<1>5. ASSUME NEW k \in Nat, k \in S PROVE k + 1 \in S
  <2> SUFFICES ASSUME k + 1 <= v PROVE f[k + 1] = g[k + 1]
    OBVIOUS
  <2>1. k + 1 \in 1..v /\ (k + 1) - 1 = k /\ f[k] = g[k]
    BY <1>5
  <2>2. QED
    BY <1>1, <1>2, <1>3, <2>1
<1>6. Nat \subseteq S
  <2> HIDE DEF S
  <2>1. QED
    BY <1>4, <1>5, EveryNumber
<1>7. QED
  BY <1>1, <1>2, <1>6

\* The bits of a number below 32.
LEMMA FiveBits ==
  ASSUME NEW a \in {0, 1}, NEW b \in {0, 1}, NEW c \in {0, 1}, NEW d \in {0, 1}, NEW e \in {0, 1},
         NEW n, n = 16 * a + 8 * b + 4 * c + 2 * d + e
  PROVE  /\ n \in 0..31
         /\ (n \div 16) % 2 = a /\ (n \div 8) % 2 = b /\ (n \div 4) % 2 = c
         /\ (n \div 2) % 2 = d /\ (n \div 1) % 2 = e
OBVIOUS

\* The bits of a digit.
LEMMA DigitBits ==
  ASSUME NEW s, NEW w, NEW first, NEW k \in 1..5
  PROVE  /\ BitsAfter(s, w, first, 5) \in 0..31
         /\ (BitsAfter(s, w, first, 5) \div 2^(5 - k)) % 2 = 1 <=> BitSet(s, w, first + k)
<1> DEFINE d == BitsAfter(s, w, first, 5)
           bit(j) == Bit(s, w, first + j)
<1>1. 5 \in Nat
  OBVIOUS
<1> PICK f : Counts(f, s, w, first, 5)
  BY <1>1, BitsFound
<1>2. /\ f[0] = 0 /\ d = f[5]
      /\ \A j \in 1..5 : f[j] = 2 * f[j - 1] + bit(j)
  BY DEF Counts
<1>3. \A j : bit(j) \in {0, 1} /\ (bit(j) = 1 <=> BitSet(s, w, first + j))
  BY DEF Bit
<1> HIDE DEF d, bit
<1>4. /\ f[1] = 2 * f[0] + bit(1) /\ f[2] = 2 * f[1] + bit(2) /\ f[3] = 2 * f[2] + bit(3)
      /\ f[4] = 2 * f[3] + bit(4) /\ f[5] = 2 * f[4] + bit(5)
  BY <1>2
<1>5. /\ bit(1) \in {0, 1} /\ bit(2) \in {0, 1} /\ bit(3) \in {0, 1}
      /\ bit(4) \in {0, 1} /\ bit(5) \in {0, 1}
  BY <1>3
<1>6. d = 16 * bit(1) + 8 * bit(2) + 4 * bit(3) + 2 * bit(4) + bit(5)
  BY <1>2, <1>4, <1>5
<1>7. /\ d \in 0..31
      /\ (d \div 16) % 2 = bit(1) /\ (d \div 8) % 2 = bit(2) /\ (d \div 4) % 2 = bit(3)
      /\ (d \div 2) % 2 = bit(4) /\ (d \div 1) % 2 = bit(5)
  BY <1>5, <1>6, FiveBits
<1>8. (d \div 2^(5 - k)) % 2 = bit(k)
  <2>1. CASE k = 1
    BY <1>7, <2>1, Powers
  <2>2. CASE k = 2
    BY <1>7, <2>2, Powers
  <2>3. CASE k = 3
    BY <1>7, <2>3, Powers
  <2>4. CASE k = 4
    BY <1>7, <2>4, Powers
  <2>5. CASE k = 5
    BY <1>7, <2>5, Powers
  <2>6. QED
    BY <2>1, <2>2, <2>3, <2>4, <2>5
<1>9. QED
  BY <1>3, <1>7, <1>8 DEF d

\* A byte, half of it at a time.
LEMMA Halves ==
  ASSUME NEW a \in Byte
  PROVE  /\ 2 * 0 + ((a \div 128) % 2) = a \div 128
         /\ 2 * (a \div 128) + ((a \div 64) % 2) = a \div 64
         /\ 2 * (a \div 64) + ((a \div 32) % 2) = a \div 32
         /\ 2 * (a \div 32) + ((a \div 16) % 2) = a \div 16
         /\ 2 * (a \div 16) + ((a \div 8) % 2) = a \div 8
         /\ 2 * (a \div 8) + ((a \div 4) % 2) = a \div 4
         /\ 2 * (a \div 4) + ((a \div 2) % 2) = a \div 2
         /\ 2 * (a \div 2) + ((a \div 1) % 2) = a
BY DEF Byte

\* A byte is what its eight bits make.
LEMMA ByteOfBits ==
  ASSUME NEW bytes \in Seq(Byte), NEW i \in 1..Len(bytes)
  PROVE  BitsAfter(bytes, 8, 8 * (i - 1), 8) = bytes[i]
<1> DEFINE a == bytes[i]
           bit(j) == Bit(bytes, 8, 8 * (i - 1) + j)
<1>1. a \in Byte /\ 8 \in Nat /\ Len(bytes) \in Nat /\ i \in Nat /\ i <= Len(bytes)
  OBVIOUS
<1>2. PICK f : Counts(f, bytes, 8, 8 * (i - 1), 8)
  BY <1>1, BitsFound
<1>3. /\ f[0] = 0 /\ BitsAfter(bytes, 8, 8 * (i - 1), 8) = f[8]
      /\ \A j \in 1..8 : f[j] = 2 * f[j - 1] + bit(j)
  BY <1>2 DEF Counts
<1>4. ASSUME NEW j \in 1..8 PROVE bit(j) = (a \div 2^(8 - j)) % 2
  <2> DEFINE p == 8 * (i - 1) + j
             c == 2^(8 - j)
  <2>1. /\ p <= 8 * Len(bytes) /\ ((p - 1) \div 8) + 1 = i
        /\ 8 - 1 - ((p - 1) % 8) = 8 - j
    <3>1. j \in Nat /\ 1 <= j /\ j <= 8
      OBVIOUS
    <3>2. p = 8 * i - 8 + j
      BY <1>1, <3>1
    <3> HIDE DEF p
    <3>3. QED
      BY <1>1, <3>1, <3>2
  <2> HIDE DEF p
  <2>2. BitSet(bytes, 8, p) <=> (a \div c) % 2 = 1
    BY <2>1 DEF BitSet
  <2>3. c \in Nat \ {0}
    <3>1. j \in {1, 2, 3, 4, 5, 6, 7, 8}
      OBVIOUS
    <3>2. CASE j = 1
      BY <3>2, Powers
    <3>3. CASE j = 2
      BY <3>3, Powers
    <3>4. CASE j = 3
      BY <3>4, Powers
    <3>5. CASE j = 4
      BY <3>5, Powers
    <3>6. CASE j = 5
      BY <3>6, Powers
    <3>7. CASE j = 6
      BY <3>7, Powers
    <3>8. CASE j = 7
      BY <3>8, Powers
    <3>9. CASE j = 8
      BY <3>9, Powers
    <3>10. QED
      BY <3>1, <3>2, <3>3, <3>4, <3>5, <3>6, <3>7, <3>8, <3>9
  <2> DEFINE h == a \div c
  <2>4. h \in Int
    <3> HIDE DEF a, c
    <3>1. a \in Int
      BY <1>1 DEF Byte
    <3>2. QED
      BY <2>3, <3>1
  <2> HIDE DEF a, c
  <2>5. BitSet(bytes, 8, p) <=> h % 2 = 1
    BY <2>2
  <2> HIDE DEF h
  <2>6. h % 2 \in {0, 1}
    BY <2>4
  <2>7. Bit(bytes, 8, p) = h % 2
    BY <2>5, <2>6 DEF Bit
  <2>8. QED
    BY <2>7 DEF h, c, p
<1> HIDE DEF bit, a
<1>5. /\ bit(1) = (a \div 128) % 2 /\ bit(2) = (a \div 64) % 2 /\ bit(3) = (a \div 32) % 2
      /\ bit(4) = (a \div 16) % 2 /\ bit(5) = (a \div 8) % 2 /\ bit(6) = (a \div 4) % 2
      /\ bit(7) = (a \div 2) % 2 /\ bit(8) = (a \div 1) % 2
  BY <1>4, Powers
<1>6. /\ f[1] = 2 * f[0] + bit(1) /\ f[2] = 2 * f[1] + bit(2) /\ f[3] = 2 * f[2] + bit(3)
      /\ f[4] = 2 * f[3] + bit(4) /\ f[5] = 2 * f[4] + bit(5) /\ f[6] = 2 * f[5] + bit(6)
      /\ f[7] = 2 * f[6] + bit(7) /\ f[8] = 2 * f[7] + bit(8)
  BY <1>3
<1>7. f[8] = a
  <2>1. f[1] = a \div 128 /\ f[2] = a \div 64
    BY <1>1, <1>3, <1>5, <1>6, Halves
  <2>2. f[3] = a \div 32 /\ f[4] = a \div 16
    BY <1>1, <2>1, <1>5, <1>6, Halves
  <2>3. f[5] = a \div 8 /\ f[6] = a \div 4
    BY <1>1, <2>2, <1>5, <1>6, Halves
  <2>4. f[7] = a \div 2
    BY <1>1, <2>3, <1>5, <1>6, Halves
  <2>5. QED
    BY <1>1, <2>4, <1>5, <1>6, Halves
<1>8. QED
  BY <1>3, <1>7 DEF a

\* The bits of the digits are the bits of the bytes.
LEMMA RegroupedBits ==
  ASSUME NEW bytes, NEW n \in Nat, NEW j \in 1..5 * n
  PROVE  BitSet(Regroup(bytes, 8, 5, n), 5, j) <=> BitSet(bytes, 8, j)
<1> DEFINE digits == Regroup(bytes, 8, 5, n)
           q == (j - 1) \div 5
           k == ((j - 1) % 5) + 1
<1>1. /\ q \in Nat /\ q + 1 \in 1..n /\ k \in 1..5 /\ 5 * q + k = j /\ j <= 5 * n
      /\ 5 - 1 - ((j - 1) % 5) = 5 - k
  <2>1. j \in Nat /\ 1 <= j /\ j <= 5 * n
    OBVIOUS
  <2>2. QED
    BY <2>1
<1>2. digits = [i \in 1..n |-> BitsAfter(bytes, 8, 5 * (i - 1), 5)]
  BY DEF Regroup
<1>3. Len(digits) = n
  BY <1>2
<1> DEFINE d == BitsAfter(bytes, 8, 5 * q, 5)
<1>4. digits[q + 1] = d
  <2> HIDE DEF q
  <2>1. (q + 1) - 1 = q
    BY <1>1
  <2>2. digits[q + 1] = BitsAfter(bytes, 8, 5 * ((q + 1) - 1), 5)
    BY <1>1, <1>2
  <2>3. QED
    BY <2>1, <2>2
<1> HIDE DEF digits
<1>5. BitSet(digits, 5, j) <=> (d \div 2^(5 - k)) % 2 = 1
  <2>1. ((j - 1) \div 5) + 1 = q + 1
    OBVIOUS
  <2> HIDE DEF q, k, d
  <2>2. QED
    BY <1>1, <1>3, <1>4, <2>1 DEF BitSet
<1>6. (d \div 2^(5 - k)) % 2 = 1 <=> BitSet(bytes, 8, 5 * q + k)
  <2> HIDE DEF q, k
  <2>1. QED
    BY <1>1, DigitBits
<1>7. QED
  <2> HIDE DEF q, k, d
  <2>1. QED
    BY <1>1, <1>5, <1>6 DEF digits

\* How many digits the bytes make, and how many bytes the digits.
LEMMA Base32Length ==
  ASSUME NEW length \in Nat
  PROVE  LET n == (8 * length + 4) \div 5
         IN  /\ n \in Nat /\ n % 8 \notin {1, 3, 6}
             /\ (5 * n) \div 8 = length /\ 8 * length <= 5 * n
             /\ length > 0 => n > 0
<1> DEFINE n == (8 * length + 4) \div 5
           q == length \div 5
           r == length % 5
<1>1. q \in Nat /\ r \in {0, 1, 2, 3, 4} /\ length = 5 * q + r
  OBVIOUS
<1>2. \/ r = 0 /\ n = 8 * q
      \/ r = 1 /\ n = 8 * q + 2
      \/ r = 2 /\ n = 8 * q + 4
      \/ r = 3 /\ n = 8 * q + 5
      \/ r = 4 /\ n = 8 * q + 7
  <2> HIDE DEF q, r
  <2>1. QED
    BY <1>1
<1> HIDE DEF n, q, r
<1>3. /\ n \in Nat /\ n % 8 \notin {1, 3, 6}
      /\ (5 * n) \div 8 = length /\ 8 * length <= 5 * n
      /\ length > 0 => n > 0
  <2>1. CASE r = 0
    BY <1>1, <1>2, <2>1
  <2>2. CASE r = 1
    BY <1>1, <1>2, <2>2
  <2>3. CASE r = 2
    BY <1>1, <1>2, <2>3
  <2>4. CASE r = 3
    BY <1>1, <1>2, <2>4
  <2>5. CASE r = 4
    BY <1>1, <1>2, <2>5
  <2>6. QED
    BY <1>1, <2>1, <2>2, <2>3, <2>4, <2>5
<1>4. QED
  BY <1>3 DEF n

\* The digits of the alphabet: 26 capitals, and six of the ten figures.
Digits == {c \in Nat : c \in 65..90 \/ c \in 50..55}

\* No two digits of base32 are written the same.
LEMMA Letters ==
  \A d \in 0..31 : Alphabet[d] \in Digits /\ \A e \in 0..31 : Alphabet[d] = Alphabet[e] => d = e
<1>1. ASSUME NEW d \in 0..31 PROVE Alphabet[d] = IF d < 26 THEN 65 + d ELSE 24 + d
  BY DEF Alphabet
<1>2. ASSUME NEW d \in 0..31 PROVE Alphabet[d] \in Digits
  <2>1. d \in Nat /\ d <= 31
    OBVIOUS
  <2>2. (IF d < 26 THEN 65 + d ELSE 24 + d) \in Digits
    BY <2>1 DEF Digits
  <2>3. QED
    BY <1>1, <2>2
<1>3. ASSUME NEW d \in 0..31, NEW e \in 0..31, Alphabet[d] = Alphabet[e] PROVE d = e
  <2>1. d \in Nat /\ d <= 31 /\ e \in Nat /\ e <= 31
    OBVIOUS
  <2>2. (IF d < 26 THEN 65 + d ELSE 24 + d) = IF e < 26 THEN 65 + e ELSE 24 + e
    BY <1>1, <1>3
  <2>3. QED
    BY <2>1, <2>2
<1>4. QED
  BY <1>2, <1>3

(* What base32 writes it reads (the StdEncoding without padding of EncodeQuery and *)
(* DecodeQuery), however many bytes there are: no length it writes is refused, the *)
(* bits come back in eights, and those added to fill the last digit are dropped.   *)
THEOREM Base32Read ==
  ASSUME NEW bytes \in Seq(Byte)
  PROVE  /\ Base32(bytes) \in Seq(Digits)
         /\ bytes # << >> => Base32(bytes) # << >>
         /\ FromBase32(Base32(bytes)) = Ok(bytes, Len(Base32(bytes)))
<1> DEFINE n == (8 * Len(bytes) + 4) \div 5
           digits == Regroup(bytes, 8, 5, n)
           word == Base32(bytes)
<1>1. Len(bytes) \in Nat
  OBVIOUS
<1>2. /\ n \in Nat /\ n % 8 \notin {1, 3, 6}
      /\ (5 * n) \div 8 = Len(bytes) /\ 8 * Len(bytes) <= 5 * n
      /\ Len(bytes) > 0 => n > 0
  BY <1>1, Base32Length
<1> HIDE DEF n
<1>3. digits = [i \in 1..n |-> BitsAfter(bytes, 8, 5 * (i - 1), 5)]
  BY DEF Regroup
<1>4. DOMAIN digits = 1..n /\ \A i \in 1..n : digits[i] \in 0..31
  <2>1. ASSUME NEW i \in 1..n PROVE digits[i] \in 0..31
    <3>1. BitsAfter(bytes, 8, 5 * (i - 1), 5) \in 0..31
      BY Digit
    <3>2. QED
      BY <1>3, <3>1
  <2>2. QED
    BY <1>3, <2>1
<1>5. digits = [i \in 1..n |-> digits[i]]
  BY <1>3, <1>4
<1>6. \A d \in 0..31 : Alphabet[d] \in Digits /\ \A e \in 0..31 : Alphabet[d] = Alphabet[e] => d = e
  BY Letters
<1>7. word = [i \in 1..n |-> Alphabet[digits[i]]]
  BY <1>4 DEF Base32, n
<1> HIDE DEF digits, word
<1>8. /\ word \in Seq(Digits) /\ Len(word) = n /\ DOMAIN word = 1..n
      /\ \A i \in 1..n : word[i] = Alphabet[digits[i]]
  <2>1. \A i \in 1..n : Alphabet[digits[i]] \in Digits
    BY <1>4, <1>6
  <2>2. QED
    BY <1>2, <1>7, <2>1
<1>9. bytes # << >> => word # << >>
  <2>1. bytes # << >> => Len(bytes) > 0
    BY <1>1
  <2>2. QED
    BY <1>2, <1>8, <2>1
<1>10. ASSUME NEW i \in 1..n PROVE (CHOOSE d \in 0..31 : Alphabet[d] = word[i]) = digits[i]
  <2>1. digits[i] \in 0..31 /\ Alphabet[digits[i]] = word[i]
    BY <1>4, <1>8
  <2>2. \A d \in 0..31 : Alphabet[d] = word[i] => d = digits[i]
    BY <1>6, <2>1
  <2>3. QED
    BY <2>1, <2>2
<1>11. [i \in DOMAIN word |-> CHOOSE d \in 0..31 : Alphabet[d] = word[i]] = digits
  <2>1. [i \in 1..n |-> CHOOSE d \in 0..31 : Alphabet[d] = word[i]] = [i \in 1..n |-> digits[i]]
    BY <1>10
  <2>2. QED
    BY <1>5, <1>8, <2>1
<1>12. ~(Len(word) % 8 \in {1, 3, 6} \/ \E i \in DOMAIN word : \A d \in 0..31 : Alphabet[d] # word[i])
  <2>1. \A i \in DOMAIN word : \E d \in 0..31 : Alphabet[d] = word[i]
    BY <1>4, <1>8
  <2>2. Len(word) % 8 \notin {1, 3, 6}
    BY <1>2, <1>8
  <2>3. QED
    BY <2>1, <2>2
<1>13. FromBase32(word) = Ok(Regroup(digits, 5, 8, Len(bytes)), n)
  BY <1>2, <1>8, <1>11, <1>12 DEF FromBase32
<1>14. Regroup(digits, 5, 8, Len(bytes)) = bytes
  <2> DEFINE again == Regroup(digits, 5, 8, Len(bytes))
  <2>1. again = [i \in 1..Len(bytes) |-> BitsAfter(digits, 5, 8 * (i - 1), 8)]
    BY DEF Regroup
  <2>2. ASSUME NEW i \in 1..Len(bytes)
        PROVE  BitsAfter(digits, 5, 8 * (i - 1), 8) = bytes[i]
    <3>1. ASSUME NEW k \in 1..8
          PROVE  BitSet(digits, 5, 8 * (i - 1) + k) <=> BitSet(bytes, 8, 8 * (i - 1) + k)
      <4>1. 8 * (i - 1) + k \in 1..5 * n
        <5>1. i \in Nat /\ 1 <= i /\ i <= Len(bytes) /\ k \in Nat /\ 1 <= k /\ k <= 8
          OBVIOUS
        <5>2. 8 * (i - 1) + k = 8 * i - 8 + k
          BY <5>1
        <5>3. QED
          BY <1>1, <1>2, <5>1, <5>2
      <4>2. QED
        BY <1>2, <4>1, RegroupedBits DEF digits
    <3>2. 8 \in Nat
      OBVIOUS
    <3>3. BitsAfter(digits, 5, 8 * (i - 1), 8) = BitsAfter(bytes, 8, 8 * (i - 1), 8)
      <4> DEFINE v == 8
                 w == 5
                 first == 8 * (i - 1)
      <4>1. v \in Nat /\ \A k \in 1..v : BitSet(digits, w, first + k) <=> BitSet(bytes, v, first + k)
        BY <3>1
      <4> HIDE DEF v, w, first, digits
      <4>2. BitsAfter(digits, w, first, v) = BitsAfter(bytes, v, first, v)
        BY <4>1, SameBits
      <4>3. QED
        BY <4>2 DEF v, w, first
    <3>4. QED
      BY <3>3, ByteOfBits
  <2>3. again = [i \in 1..Len(bytes) |-> bytes[i]]
    BY <2>1, <2>2
  <2> HIDE DEF again
  <2>4. bytes = [i \in 1..Len(bytes) |-> bytes[i]]
    OBVIOUS
  <2>5. QED
    BY <2>3, <2>4 DEF again
<1>15. QED
  BY <1>8, <1>9, <1>13, <1>14 DEF word

\* Letters that were made small can be made capital again.
LEMMA CaseRestored ==
  ASSUME NEW word \in Seq(Digits)
  PROVE  /\ Upper(Lower(word)) = word
         /\ Lower(word) \in Seq(Nat) /\ Len(Lower(word)) = Len(word)
         /\ \A i \in 1..Len(word) : Lower(word)[i] # Dot
<1> DEFINE n == Len(word)
           small == Lower(word)
<1>1. n \in Nat /\ DOMAIN word = 1..n /\ \A i \in 1..n : word[i] \in Digits
  OBVIOUS
<1>2. small = [i \in 1..n |-> IF word[i] \in 65..90 THEN word[i] + 32 ELSE word[i]]
  BY <1>1 DEF Lower
<1>3. /\ small \in Seq(Nat) /\ Len(small) = n /\ DOMAIN small = 1..n
      /\ \A i \in 1..n : small[i] = IF word[i] \in 65..90 THEN word[i] + 32 ELSE word[i]
  <2>1. \A i \in 1..n : (IF word[i] \in 65..90 THEN word[i] + 32 ELSE word[i]) \in Nat
    BY <1>1 DEF Digits
  <2> HIDE DEF n
  <2>2. QED
    BY <1>1, <1>2, <2>1
<1> HIDE DEF small, n
<1>4. Upper(small) = [i \in 1..n |-> IF small[i] \in 97..122 THEN small[i] - 32 ELSE small[i]]
  BY <1>3 DEF Upper
<1>5. ASSUME NEW i \in 1..n
      PROVE  /\ (IF small[i] \in 97..122 THEN small[i] - 32 ELSE small[i]) = word[i]
             /\ small[i] # Dot
  <2>1. /\ word[i] \in Nat /\ (word[i] \in 65..90 \/ word[i] \in 50..55)
        /\ small[i] = IF word[i] \in 65..90 THEN word[i] + 32 ELSE word[i]
    BY <1>1, <1>3 DEF Digits
  <2> DEFINE c == word[i]
             d == small[i]
  <2> HIDE DEF c, d
  <2>2. c \in Nat /\ (c \in 65..90 \/ c \in 50..55) /\ d = IF c \in 65..90 THEN c + 32 ELSE c
    BY <2>1 DEF c, d
  <2>3. (IF d \in 97..122 THEN d - 32 ELSE d) = c /\ d # 46
    BY <2>2
  <2>4. QED
    BY <2>3 DEF c, d, Dot
<1>6. Upper(small) = [i \in 1..n |-> word[i]]
  BY <1>4, <1>5
<1>7. word = [i \in 1..n |-> word[i]]
  BY <1>1
<1>8. \A i \in 1..n : small[i] # Dot
  BY <1>5
<1>9. QED
  BY <1>3, <1>6, <1>7, <1>8 DEF small, n

-----------------------------------------------------------------------------
(* Labels packed and unpacked *)

\* A sequence is its elements.
LEMMA SameSequence ==
  ASSUME NEW T, NEW s \in Seq(T), NEW t \in Seq(T), Len(s) = Len(t), \A i \in 1..Len(t) : s[i] = t[i]
  PROVE  s = t
OBVIOUS

\* A label and its length are added to what is packed.
LEMMA LabelAdded ==
  ASSUME NEW C, C \subseteq Nat, NEW s \in Seq(C), NEW label \in Seq(C), Len(label) \in C
  PROVE  LET t == s \o <<Len(label)>> \o label
         IN  /\ t \in Seq(C) /\ Len(t) = Len(s) + 1 + Len(label)
             /\ \A x \in 1..Len(s) : t[x] = s[x]
             /\ t[Len(s) + 1] = Len(label)
             /\ \A x \in 1..Len(label) : t[Len(s) + 1 + x] = label[x]
<1> DEFINE length == Len(label)
           a == s \o <<length>>
           t == a \o label
<1>1. length \in C /\ length \in Nat /\ Len(s) \in Nat
  OBVIOUS
<1>2. <<length>> \in Seq(C) /\ Len(<<length>>) = 1 /\ <<length>>[1] = length
  BY <1>1
<1> HIDE DEF length
<1>3. /\ a \in Seq(C) /\ Len(a) = Len(s) + 1
      /\ \A x \in 1..Len(s) : a[x] = s[x]
      /\ a[Len(s) + 1] = length
  BY <1>1, <1>2
<1> HIDE DEF a
<1>4. /\ t \in Seq(C) /\ Len(t) = Len(a) + Len(label)
      /\ \A x \in 1..Len(a) : t[x] = a[x]
      /\ \A x \in 1..Len(label) : t[Len(a) + x] = label[x]
  BY <1>3
<1> HIDE DEF t
<1>5. t[Len(s) + 1] = length /\ \A x \in 1..Len(s) : t[x] = s[x]
  BY <1>1, <1>3, <1>4
<1>6. /\ t \in Seq(C) /\ Len(t) = Len(s) + 1 + Len(label)
      /\ \A x \in 1..Len(label) : t[Len(s) + 1 + x] = label[x]
  BY <1>1, <1>3, <1>4
<1>7. QED
  BY <1>5, <1>6 DEF t, a, length

PackedAs(packed, labels, C) ==
  /\ packed \in [0..Len(labels) -> Seq(C)] /\ packed[0] = << >>
  /\ PackLabels(labels) = Append(packed[Len(labels)], 0)
  /\ \A i \in 1..Len(labels) : packed[i] = packed[i - 1] \o <<Len(labels[i])>> \o labels[i]

\* PackLabels adds one label after the other.
LEMMA PackedFound ==
  ASSUME NEW C, C \subseteq Nat, NEW labels \in Seq(Seq(C)), \A i \in 1..Len(labels) : Len(labels[i]) \in C
  PROVE  \E packed : PackedAs(packed, labels, C)
<1> DEFINE n == Len(labels)
           longer(s, i) == s \o <<Len(labels[i])>> \o labels[i]
           step == [p \in (1..n) \X Seq(C) |-> longer(p[2], p[1])]
<1>1. n \in Nat
  OBVIOUS
<1>2. ASSUME NEW s \in Seq(C), NEW i \in 1..n PROVE longer(s, i) \in Seq(C)
  <2>1. labels[i] \in Seq(C) /\ Len(labels[i]) \in C
    OBVIOUS
  <2>2. QED
    BY <2>1, LabelAdded
<1> HIDE DEF longer
<1>3. step \in [(1..n) \X Seq(C) -> Seq(C)]
  <2>1. ASSUME NEW p \in (1..n) \X Seq(C) PROVE longer(p[2], p[1]) \in Seq(C)
    <3>1. p[1] \in 1..n /\ p[2] \in Seq(C)
      OBVIOUS
    <3>2. QED
      BY <1>2, <3>1
  <2>2. QED
    BY <2>1
<1>4. PICK f \in [0..n -> Seq(C)] : Unfolds(f, << >>, n, step)
  <2> HIDE DEF step, n
  <2>1. << >> \in Seq(C)
    OBVIOUS
  <2>2. QED
    BY <1>1, <1>3, <2>1, Recursion
<1>5. ASSUME NEW i \in 0..n, i # 0
      PROVE  step[<<i, f[i - 1]>>] = longer(f[i - 1], i)
  <2>1. i \in 1..n /\ i - 1 \in 0..n
    BY <1>1, <1>5
  <2>2. <<i, f[i - 1]>> \in (1..n) \X Seq(C)
    BY <2>1
  <2>3. QED
    BY <2>2
<1>6. IsPacked(f, labels)
  <2> HIDE DEF step
  <2>1. f = [i \in 0..n |-> IF i = 0 THEN << >> ELSE longer(f[i - 1], i)]
    BY <1>4, <1>5 DEF Unfolds
  <2>2. QED
    BY <2>1 DEF IsPacked, longer
<1> DEFINE packed == CHOOSE v : IsPacked(v, labels)
<1>7. IsPacked(packed, labels)
  BY <1>6
<1>8. PackLabels(labels) = Append(packed[n], 0)
  BY DEF PackLabels, IsPacked
<1> HIDE DEF packed, step
<1>9. \A i \in 0..n : packed[i] = IF i = 0 THEN << >> ELSE longer(packed[i - 1], i)
  BY <1>7 DEF IsPacked, longer
<1>10. packed = [i \in 0..n |-> packed[i]]
  BY <1>7 DEF IsPacked
<1> HIDE DEF n
<1>11. packed[0] = << >>
  <2>1. 0 \in 0..n
    BY <1>1
  <2>2. QED
    BY <1>9, <2>1
<1>12. \A i \in 1..n : packed[i] = longer(packed[i - 1], i)
  <2>1. \A i \in 1..n : i \in 0..n /\ i # 0
    BY <1>1
  <2>2. QED
    BY <1>9, <2>1
<1> DEFINE Good == {i \in Nat : i <= n => packed[i] \in Seq(C)}
<1>13. 0 \in Good
  <2>1. << >> \in Seq(C)
    OBVIOUS
  <2>2. QED
    BY <1>11, <2>1
<1>14. ASSUME NEW i \in Nat, i \in Good PROVE i + 1 \in Good
  <2> SUFFICES ASSUME i + 1 <= n PROVE packed[i + 1] \in Seq(C)
    OBVIOUS
  <2>1. i + 1 \in 1..n /\ (i + 1) - 1 = i
    BY <1>1
  <2>2. packed[i] \in Seq(C)
    BY <1>1, <1>14
  <2>3. packed[i + 1] = longer(packed[i], i + 1)
    BY <1>12, <2>1
  <2>4. QED
    BY <1>2, <2>1, <2>2, <2>3
<1>15. Nat \subseteq Good
  <2> HIDE DEF Good
  <2>1. QED
    BY <1>13, <1>14, EveryNumber
<1>16. \A i \in 0..n : packed[i] \in Seq(C)
  BY <1>1, <1>15
<1>17. packed \in [0..n -> Seq(C)]
  BY <1>10, <1>16
<1>18. PackedAs(packed, labels, C)
  BY <1>8, <1>11, <1>12, <1>17 DEF PackedAs, longer, n
<1>19. QED
  BY <1>18

\* The labels are packed into bytes if they are made of bytes.
LEMMA LabelsPackedInto ==
  ASSUME NEW C, C \subseteq Nat, 0 \in C,
         NEW labels \in Seq(Seq(C)), \A i \in 1..Len(labels) : Len(labels[i]) \in C
  PROVE  PackLabels(labels) \in Seq(C)
<1>1. PICK packed : PackedAs(packed, labels, C)
  BY PackedFound
<1>2. Len(labels) \in Nat
  OBVIOUS
<1>3. packed[Len(labels)] \in Seq(C)
  BY <1>1, <1>2 DEF PackedAs
<1>4. QED
  BY <1>1, <1>3 DEF PackedAs

-----------------------------------------------------------------------------
Unpacked == {Bad} \cup {Ok(labels, 0) : labels \in Seq(Seq(Nat))}

\* What UnpackLabels finds at a place, given what it finds at those after it.
Opened(from, wire, p) ==
  IF p > Len(wire) \/ wire[p] > 63 THEN Bad
  ELSE IF wire[p] = 0 THEN IF p = Len(wire) THEN Ok(<< >>, 0) ELSE Bad
  ELSE LET rest == from[p + wire[p] + 1]
       IN  IF rest.status # "ok" THEN Bad
           ELSE Ok(<<SubSeq(wire, p + 1, p + wire[p])>> \o rest.value, 0)

IsOpened(from, wire) == from = [p \in 1..Len(wire) + 64 |-> Opened(from, wire, p)]

\* What lies behind a label has been found already.
FoundBehind(from, wire, p) ==
  p <= Len(wire) /\ wire[p] \in 1..63 =>
    /\ from[p + wire[p] + 1] \in Unpacked
    /\ p + wire[p] + 1 > Len(wire) => from[p + wire[p] + 1] = Bad

LEMMA NothingUnpacked == Bad \in Unpacked /\ Ok(<< >>, 0) \in Unpacked
<1>1. << >> \in Seq(Seq(Nat))
  OBVIOUS
<1>2. QED
  BY <1>1 DEF Unpacked

LEMMA OneMore ==
  ASSUME NEW label \in Seq(Nat), NEW rest \in Unpacked, rest.status = "ok"
  PROVE  Ok(<<label>> \o rest.value, 0) \in Unpacked
<1>1. rest.value \in Seq(Seq(Nat))
  BY DEF Unpacked, Bad, Ok
<1>2. <<label>> \o rest.value \in Seq(Seq(Nat))
  BY <1>1
<1>3. QED
  BY <1>2 DEF Unpacked

LEMMA Placed ==
  ASSUME NEW wire \in Seq(Nat), NEW p \in Nat \ {0},
         ~(p > Len(wire) \/ wire[p] > 63 \/ wire[p] = 0)
  PROVE  p \in 1..Len(wire) /\ wire[p] \in 1..63
<1>1. Len(wire) \in Nat /\ p \in 1..Len(wire)
  OBVIOUS
<1> DEFINE c == wire[p]
<1>2. c \in Nat /\ ~(c > 63 \/ c = 0)
  BY <1>1
<1> HIDE DEF c
<1>3. c \in 1..63
  BY <1>2
<1>4. QED
  BY <1>1, <1>3 DEF c

LEMMA OpenedTyped ==
  ASSUME NEW wire \in Seq(Nat), NEW p \in Nat \ {0}, NEW from, FoundBehind(from, wire, p)
  PROVE  Opened(from, wire, p) \in Unpacked
<1>1. CASE p > Len(wire) \/ wire[p] > 63 \/ wire[p] = 0
  BY <1>1, NothingUnpacked DEF Opened
<1>2. CASE ~(p > Len(wire) \/ wire[p] > 63 \/ wire[p] = 0)
  <2> DEFINE rest == from[p + wire[p] + 1]
             label == SubSeq(wire, p + 1, p + wire[p])
  <2>1. p \in 1..Len(wire) /\ wire[p] \in 1..63
    BY <1>2, Placed
  <2>2. rest \in Unpacked /\ (p + wire[p] + 1 > Len(wire) => rest = Bad)
    BY <2>1 DEF FoundBehind
  <2>3. ASSUME rest # Bad PROVE label \in Seq(Nat)
    <3>1. p \in Nat /\ Len(wire) \in Nat
      BY <2>1
    <3> DEFINE last == p + wire[p]
    <3>2. last \in Nat /\ p <= last /\ last <= Len(wire)
      <4> DEFINE c == wire[p]
      <4>1. c \in 1..63 /\ ~(p + c + 1 > Len(wire))
        BY <2>1, <2>2, <2>3
      <4> HIDE DEF c
      <4>2. p + c \in Nat /\ p <= p + c /\ p + c <= Len(wire)
        BY <3>1, <4>1
      <4>3. QED
        BY <4>2 DEF c
    <3> HIDE DEF last
    <3>3. SubSeq(wire, p + 1, last) \in Seq(Nat)
      BY <3>1, <3>2, Middle
    <3>4. QED
      BY <3>3 DEF last
  <2>4. Opened(from, wire, p) = IF rest.status # "ok" THEN Bad ELSE Ok(<<label>> \o rest.value, 0)
    BY <1>2 DEF Opened
  <2> HIDE DEF rest, label
  <2>5. CASE rest.status # "ok"
    BY <2>4, <2>5, NothingUnpacked
  <2>6. CASE rest.status = "ok"
    <3>1. rest # Bad
      BY <2>6 DEF Bad
    <3>2. QED
      BY <2>2, <2>3, <2>4, <2>6, <3>1, OneMore
  <2>7. QED
    BY <2>5, <2>6
<1>3. QED
  BY <1>1, <1>2

\* Every label lies behind its length, so UnpackLabels has a result.
LEMMA UnpackedFound ==
  ASSUME NEW wire \in Seq(Nat)
  PROVE  \E from : IsOpened(from, wire)
<1> DEFINE n == Len(wire) + 64
           Good == {j \in Nat : j <= n =>
                      \E f \in [(n - j + 1)..n -> Unpacked] :
                        \A p \in (n - j + 1)..n : f[p] = Opened(f, wire, p)}
<1>1. n \in Nat /\ Len(wire) \in Nat /\ n = Len(wire) + 64
  OBVIOUS
<1> HIDE DEF n
<1>2. 0 \in Good
  <2>1. (n - 0 + 1)..n = {}
    BY <1>1
  <2>2. [p \in {} |-> Bad] \in [{} -> Unpacked]
    OBVIOUS
  <2>3. QED
    BY <2>1, <2>2
<1>3. ASSUME NEW j \in Nat, j \in Good PROVE j + 1 \in Good
  <2> DEFINE k == n - j
  <2> SUFFICES ASSUME j + 1 <= n
               PROVE  \E g \in [k..n -> Unpacked] : \A p \in k..n : g[p] = Opened(g, wire, p)
    <3>1. n - (j + 1) + 1 = k
      BY <1>1
    <3>2. QED
      BY <3>1
  <2>1. k \in Nat \ {0} /\ k <= n /\ n - j + 1 = k + 1 /\ j <= n
    BY <1>1
  <2>2. PICK f \in [(k + 1)..n -> Unpacked] : \A p \in (k + 1)..n : f[p] = Opened(f, wire, p)
    BY <1>3, <2>1
  <2> HIDE DEF k
  <2> DEFINE first == Opened(f, wire, k)
             g == [p \in k..n |-> IF p = k THEN first ELSE f[p]]
  <2>3. ASSUME NEW p \in k..n, p <= Len(wire), wire[p] \in 1..63
        PROVE  p + wire[p] + 1 \in (k + 1)..n /\ p + wire[p] + 1 # k
    <3> DEFINE c == wire[p]
    <3>1. c \in 1..63
      BY <2>3
    <3> HIDE DEF c
    <3>2. p + c + 1 \in (k + 1)..n /\ p + c + 1 # k
      BY <1>1, <2>1, <2>3, <3>1
    <3>3. QED
      BY <3>2 DEF c
  <2>4. first \in Unpacked
    <3>1. FoundBehind(f, wire, k)
      <4>1. k \in k..n
        BY <1>1, <2>1
      <4> DEFINE q == k + wire[k] + 1
      <4>2. ASSUME k <= Len(wire), wire[k] \in 1..63
            PROVE  f[q] \in Unpacked /\ (q > Len(wire) => f[q] = Bad)
        <5>1. q \in (k + 1)..n
          BY <2>3, <4>1, <4>2
        <5> HIDE DEF q
        <5>2. f[q] \in Unpacked /\ f[q] = Opened(f, wire, q)
          BY <2>2, <5>1
        <5>3. QED
          BY <5>2 DEF Opened
      <4> HIDE DEF q
      <4>3. QED
        BY <4>2 DEF FoundBehind, q
    <3>2. QED
      BY <2>1, <3>1, OpenedTyped
  <2> HIDE DEF first
  <2>5. g \in [k..n -> Unpacked]
    BY <1>1, <2>1, <2>4
  <2>6. ASSUME NEW p \in k..n PROVE Opened(g, wire, p) = Opened(f, wire, p)
    <3>1. CASE p > Len(wire) \/ wire[p] > 63 \/ wire[p] = 0
      BY <3>1 DEF Opened
    <3>2. CASE ~(p > Len(wire) \/ wire[p] > 63 \/ wire[p] = 0)
      <4>1. p \in Nat \ {0}
        BY <1>1, <2>1
      <4>2. p \in 1..Len(wire) /\ wire[p] \in 1..63
        BY <3>2, <4>1, Placed
      <4>3. p <= Len(wire)
        BY <1>1, <4>2
      <4>4. p + wire[p] + 1 \in (k + 1)..n /\ p + wire[p] + 1 # k
        BY <2>3, <4>2, <4>3
      <4>5. p + wire[p] + 1 \in k..n
        BY <1>1, <2>1, <4>4
      <4>6. g[p + wire[p] + 1] = f[p + wire[p] + 1]
        BY <4>4, <4>5
      <4> HIDE DEF g
      <4>7. QED
        BY <4>6 DEF Opened
    <3>3. QED
      BY <3>1, <3>2
  <2>7. ASSUME NEW p \in k..n PROVE g[p] = Opened(g, wire, p)
    <3>1. CASE p = k
      BY <2>6, <3>1 DEF first
    <3>2. CASE p # k
      <4>1. p \in (k + 1)..n
        BY <1>1, <2>1, <3>2
      <4>2. QED
        BY <2>2, <2>6, <3>2, <4>1
    <3>3. QED
      BY <3>1, <3>2
  <2> HIDE DEF g
  <2>8. QED
    BY <2>5, <2>7
<1>4. Nat \subseteq Good
  <2> HIDE DEF Good
  <2>1. QED
    BY <1>2, <1>3, EveryNumber
<1>5. PICK f \in [1..n -> Unpacked] : \A p \in 1..n : f[p] = Opened(f, wire, p)
  <2>1. n \in Good
    <3> HIDE DEF Good
    <3>1. QED
      BY <1>1, <1>4
  <2>2. n - n + 1 = 1 /\ n <= n
    BY <1>1
  <2>3. QED
    BY <2>1, <2>2
<1>6. f = [p \in 1..n |-> Opened(f, wire, p)]
  BY <1>5
<1>7. QED
  BY <1>6 DEF IsOpened, n

UnpackedFrom(from, wire) ==
  /\ from \in [1..Len(wire) + 64 -> Unpacked] /\ UnpackLabels(wire) = from[1]
  /\ \A p \in 1..Len(wire) + 64 : from[p] = Opened(from, wire, p)

LEMMA UnpackLabelsFound ==
  ASSUME NEW wire \in Seq(Nat)
  PROVE  \E from : UnpackedFrom(from, wire)
<1> DEFINE n == Len(wire) + 64
           from == CHOOSE v : IsOpened(v, wire)
           Good == {j \in Nat : j <= n => \A p \in (n - j + 1)..n : from[p] \in Unpacked}
<1>1. n \in Nat /\ Len(wire) \in Nat /\ n = Len(wire) + 64
  OBVIOUS
<1>2. IsOpened(from, wire)
  BY UnpackedFound
<1>3. UnpackLabels(wire) = from[1]
  BY DEF UnpackLabels, IsOpened, Opened
<1> HIDE DEF from
<1>4. /\ from = [p \in 1..n |-> from[p]]
      /\ \A p \in 1..n : from[p] = Opened(from, wire, p)
  BY <1>2 DEF IsOpened
<1> HIDE DEF n
<1>5. 0 \in Good
  <2>1. (n - 0 + 1)..n = {}
    BY <1>1
  <2>2. QED
    BY <2>1
<1>6. ASSUME NEW j \in Nat, j \in Good PROVE j + 1 \in Good
  <2> DEFINE k == n - j
  <2> SUFFICES ASSUME j + 1 <= n PROVE \A p \in k..n : from[p] \in Unpacked
    <3>1. n - (j + 1) + 1 = k
      BY <1>1
    <3>2. QED
      BY <3>1
  <2>1. k \in Nat \ {0} /\ k \in 1..n /\ n - j + 1 = k + 1 /\ j <= n
    BY <1>1
  <2>2. \A p \in (k + 1)..n : from[p] \in Unpacked
    BY <1>6, <2>1
  <2> HIDE DEF k
  <2>3. FoundBehind(from, wire, k)
    <3> DEFINE q == k + wire[k] + 1
    <3>1. ASSUME k <= Len(wire), wire[k] \in 1..63
          PROVE  from[q] \in Unpacked /\ (q > Len(wire) => from[q] = Bad)
      <4> DEFINE c == wire[k]
      <4>1. c \in 1..63
        BY <3>1
      <4> HIDE DEF c
      <4>2. k + c + 1 \in (k + 1)..n /\ k + c + 1 \in 1..n
        BY <1>1, <2>1, <3>1, <4>1
      <4>3. q \in (k + 1)..n /\ q \in 1..n
        BY <4>2 DEF c
      <4> HIDE DEF q
      <4>4. from[q] \in Unpacked /\ from[q] = Opened(from, wire, q)
        BY <1>4, <2>2, <4>3
      <4>5. QED
        BY <4>4 DEF Opened
    <3> HIDE DEF q
    <3>2. QED
      BY <3>1 DEF FoundBehind, q
  <2>4. from[k] \in Unpacked
    BY <1>4, <2>1, <2>3, OpenedTyped
  <2>5. QED
    <3>1. ASSUME NEW p \in k..n, p # k PROVE p \in (k + 1)..n
      BY <1>1, <2>1, <3>1
    <3>2. QED
      BY <2>2, <2>4, <3>1
<1>7. Nat \subseteq Good
  <2> HIDE DEF Good
  <2>1. QED
    BY <1>5, <1>6, EveryNumber
<1>8. \A p \in 1..n : from[p] \in Unpacked
  <2>1. n \in Good
    <3> HIDE DEF Good
    <3>1. QED
      BY <1>1, <1>7
  <2>2. n - n + 1 = 1 /\ n <= n
    BY <1>1
  <2>3. QED
    BY <2>1, <2>2
<1>9. from \in [1..n -> Unpacked]
  BY <1>4, <1>8
<1>10. UnpackedFrom(from, wire)
  BY <1>3, <1>4, <1>9 DEF UnpackedFrom, n
<1>11. QED
  BY <1>10

\* What UnpackLabels returns.
LEMMA LabelsUnpacked ==
  ASSUME NEW wire \in Seq(Nat)
  PROVE  UnpackLabels(wire) \in Unpacked
<1>1. PICK from : UnpackedFrom(from, wire)
  BY UnpackLabelsFound
<1>2. 1 \in 1..Len(wire) + 64
  OBVIOUS
<1>3. QED
  BY <1>1, <1>2 DEF UnpackedFrom

\* One element before a sequence.
LEMMA Preceded ==
  ASSUME NEW T, NEW e \in T, NEW s \in Seq(T)
  PROVE  /\ <<e>> \o s \in Seq(T) /\ Len(<<e>> \o s) = 1 + Len(s)
         /\ (<<e>> \o s)[1] = e
         /\ \A x \in 1..Len(s) : (<<e>> \o s)[1 + x] = s[x]
<1>1. <<e>> \in Seq(T) /\ Len(<<e>>) = 1 /\ <<e>>[1] = e
  OBVIOUS
<1>2. <<e>> \o s \in Seq(T) /\ Len(<<e>> \o s) = 1 + Len(s)
  BY <1>1
<1>3. \A x \in 1..Len(s) : (<<e>> \o s)[1 + x] = s[x]
  BY <1>1
<1>4. (<<e>> \o s)[1] = e
  BY <1>1
<1>5. QED
  BY <1>2, <1>3, <1>4

\* The labels behind a place, and one more.
LEMMA OneLabelMore ==
  ASSUME NEW T, NEW labels \in Seq(T), NEW i \in 1..Len(labels)
  PROVE  <<labels[i]>> \o SubSeq(labels, i + 1, Len(labels)) = SubSeq(labels, i, Len(labels))
<1> DEFINE n == Len(labels)
           a == SubSeq(labels, i + 1, n)
           b == SubSeq(labels, i, n)
           c == <<labels[i]>> \o a
<1>1. n \in Nat /\ i \in Nat /\ 1 <= i /\ i <= n /\ labels[i] \in T
  OBVIOUS
<1>2. a \in Seq(T) /\ Len(a) = n - i /\ \A x \in 1..(n - i) : a[x] = labels[i + x]
  <2> HIDE DEF n
  <2>1. /\ a \in Seq(T) /\ Len(a) = IF i + 1 <= n THEN (n - (i + 1)) + 1 ELSE 0
        /\ \A x \in 1..Len(a) : a[x] = labels[(i + 1) + x - 1]
    BY <1>1 DEF n
  <2> HIDE DEF a
  <2>2. Len(a) = n - i
    BY <1>1, <2>1
  <2>3. QED
    BY <1>1, <2>1, <2>2
<1>3. b \in Seq(T) /\ Len(b) = n - i + 1 /\ \A x \in 1..(n - i + 1) : b[x] = labels[i + x - 1]
  <2> HIDE DEF n
  <2>1. /\ b \in Seq(T) /\ Len(b) = n - i + 1
        /\ \A x \in 1..Len(b) : b[x] = labels[i + x - 1]
    BY <1>1 DEF n
  <2> HIDE DEF b
  <2>2. QED
    BY <2>1
<1> HIDE DEF n, a, b
<1>4. /\ c \in Seq(T) /\ Len(c) = n - i + 1
      /\ c[1] = labels[i] /\ \A x \in 1..(n - i) : c[1 + x] = a[x]
  <2>1. labels[i] \in T /\ a \in Seq(T) /\ Len(a) = n - i
    BY <1>1, <1>2
  <2>2. /\ c \in Seq(T) /\ Len(c) = 1 + Len(a) /\ c[1] = labels[i]
        /\ \A x \in 1..Len(a) : c[1 + x] = a[x]
    BY <2>1, Preceded
  <2>3. 1 + (n - i) = n - i + 1
    BY <1>1
  <2>4. QED
    BY <2>1, <2>2, <2>3
<1> HIDE DEF c
<1>5. ASSUME NEW x \in 1..(n - i + 1) PROVE c[x] = b[x]
  <2>1. CASE x = 1
    <3>1. i + 1 - 1 = i
      BY <1>1
    <3>2. QED
      BY <1>1, <1>3, <1>4, <2>1, <3>1
  <2>2. CASE x # 1
    <3> DEFINE y == x - 1
    <3>1. y \in 1..(n - i) /\ x = 1 + y /\ i + x - 1 = i + y
      BY <1>1, <2>2
    <3> HIDE DEF y
    <3>2. QED
      BY <1>2, <1>3, <1>4, <3>1
  <2>3. QED
    BY <2>1, <2>2
<1>6. c = b
  <2>1. \A x \in 1..Len(b) : c[x] = b[x]
    BY <1>3, <1>5
  <2>2. QED
    BY <1>3, <1>4, <2>1, SameSequence
<1>7. QED
  BY <1>6 DEF a, b, c, n

(* The labels that packLabels has packed are those that unpackLabels finds, each *)
(* behind its length and none of them behind the end, whatever characters they   *)
(* are made of; it stops at the zero and nowhere before it.                      *)
THEOREM LabelsRead ==
  ASSUME NEW labels \in Seq(Seq(Nat)), \A i \in 1..Len(labels) : Len(labels[i]) \in 1..63
  PROVE  UnpackLabels(PackLabels(labels)) = Ok(labels, 0)
<1> DEFINE n == Len(labels)
           wire == PackLabels(labels)
<1>1. n \in Nat
  OBVIOUS
<1>2. PICK packed : PackedAs(packed, labels, Nat)
  <2>1. Nat \subseteq Nat /\ \A i \in 1..Len(labels) : Len(labels[i]) \in Nat
    OBVIOUS
  <2>2. QED
    BY <2>1, PackedFound
<1>3. /\ packed \in [0..n -> Seq(Nat)] /\ packed[0] = << >>
      /\ wire = Append(packed[n], 0)
      /\ \A i \in 1..n : packed[i] = packed[i - 1] \o <<Len(labels[i])>> \o labels[i]
  BY <1>2 DEF PackedAs
<1> HIDE DEF wire
<1>4. packed[n] \in Seq(Nat)
  <2>1. n \in 0..n
    BY <1>1
  <2>2. packed \in [0..n -> Seq(Nat)]
    BY <1>3
  <2> HIDE DEF n
  <2>3. QED
    BY <2>1, <2>2
<1>5. /\ wire \in Seq(Nat) /\ Len(wire) = Len(packed[n]) + 1 /\ wire[Len(wire)] = 0
      /\ \A x \in 1..Len(packed[n]) : wire[x] = packed[n][x]
  BY <1>3, <1>4
<1>6. ASSUME NEW i \in 1..n
      PROVE  /\ packed[i] \in Seq(Nat) /\ packed[i - 1] \in Seq(Nat)
             /\ Len(packed[i]) = Len(packed[i - 1]) + 1 + Len(labels[i])
             /\ \A x \in 1..Len(packed[i - 1]) : packed[i][x] = packed[i - 1][x]
             /\ packed[i][Len(packed[i - 1]) + 1] = Len(labels[i])
             /\ \A x \in 1..Len(labels[i]) : packed[i][Len(packed[i - 1]) + 1 + x] = labels[i][x]
  <2>1. i \in 0..n /\ i - 1 \in 0..n
    BY <1>1
  <2>2. packed[i] \in Seq(Nat) /\ packed[i - 1] \in Seq(Nat)
    BY <1>3, <2>1
  <2>3. labels[i] \in Seq(Nat) /\ Len(labels[i]) \in Nat
    OBVIOUS
  <2>4. packed[i] = packed[i - 1] \o <<Len(labels[i])>> \o labels[i]
    BY <1>3
  <2>5. Nat \subseteq Nat
    OBVIOUS
  <2> DEFINE s == packed[i - 1]
             label == labels[i]
             t == s \o <<Len(label)>> \o label
  <2> HIDE DEF s, label
  <2>6. s \in Seq(Nat) /\ label \in Seq(Nat) /\ Len(label) \in Nat
    BY <2>2, <2>3 DEF s, label
  <2>7. /\ t \in Seq(Nat) /\ Len(t) = Len(s) + 1 + Len(label)
        /\ \A x \in 1..Len(s) : t[x] = s[x]
        /\ t[Len(s) + 1] = Len(label)
        /\ \A x \in 1..Len(label) : t[Len(s) + 1 + x] = label[x]
    BY <2>5, <2>6, LabelAdded
  <2>8. packed[i] = t
    BY <2>4 DEF s, label
  <2> HIDE DEF t
  <2>9. QED
    BY <2>2, <2>7, <2>8 DEF s, label
<1> HIDE DEF n
\* What has been packed so far is where the wire begins.
<1> DEFINE S == {j \in Nat : j <= n => /\ packed[n - j] \in Seq(Nat)
                                       /\ Len(packed[n - j]) < Len(wire)
                                       /\ \A x \in 1..Len(packed[n - j]) : wire[x] = packed[n - j][x]}
<1>7. 0 \in S
  <2>1. n - 0 = n
    BY <1>1
  <2>2. Len(packed[n]) \in Nat
    BY <1>4
  <2>3. QED
    BY <1>4, <1>5, <2>1, <2>2
<1>8. ASSUME NEW j \in Nat, j \in S PROVE j + 1 \in S
  <2> DEFINE i == n - j
  <2> SUFFICES ASSUME j + 1 <= n
               PROVE  /\ packed[i - 1] \in Seq(Nat) /\ Len(packed[i - 1]) < Len(wire)
                      /\ \A x \in 1..Len(packed[i - 1]) : wire[x] = packed[i - 1][x]
    <3>1. n - (j + 1) = i - 1
      BY <1>1
    <3>2. QED
      BY <3>1
  <2>1. i \in 1..n /\ j <= n
    BY <1>1
  <2>2. /\ packed[i] \in Seq(Nat) /\ Len(packed[i]) < Len(wire)
        /\ \A x \in 1..Len(packed[i]) : wire[x] = packed[i][x]
    BY <1>8, <2>1
  <2> HIDE DEF i
  <2>3. Len(labels[i]) \in Nat
    BY <2>1 DEF n
  <2>4. Len(packed[i - 1]) \in Nat /\ Len(packed[i - 1]) <= Len(packed[i])
    <3>1. packed[i - 1] \in Seq(Nat) /\ Len(packed[i]) = Len(packed[i - 1]) + 1 + Len(labels[i])
      BY <1>6, <2>1
    <3>2. Len(packed[i - 1]) \in Nat
      BY <3>1
    <3> DEFINE a == Len(packed[i - 1])
               b == Len(packed[i])
               c == Len(labels[i])
    <3>3. a \in Nat /\ c \in Nat /\ b = a + 1 + c
      BY <2>3, <3>1, <3>2
    <3> HIDE DEF a, b, c
    <3>4. a \in Nat /\ a <= b
      BY <3>3
    <3>5. QED
      BY <3>4 DEF a, b
  <2>5. Len(wire) \in Nat /\ Len(packed[i]) \in Nat
    BY <1>5, <2>2
  <2>6. QED
    <3>1. Len(packed[i - 1]) < Len(wire)
      BY <2>2, <2>4, <2>5
    <3>2. \A x \in 1..Len(packed[i - 1]) : x \in 1..Len(packed[i])
      BY <2>4, <2>5
    <3>3. QED
      BY <1>6, <2>1, <2>2, <3>1, <3>2
<1>9. Nat \subseteq S
  <2> HIDE DEF S
  <2>1. QED
    BY <1>7, <1>8, EveryNumber
<1>10. ASSUME NEW i \in 0..n
       PROVE  /\ packed[i] \in Seq(Nat) /\ Len(packed[i]) < Len(wire)
              /\ \A x \in 1..Len(packed[i]) : wire[x] = packed[i][x]
  <2>1. n - i \in S
    <3> HIDE DEF S
    <3>1. QED
      BY <1>1, <1>9
  <2>2. n - (n - i) = i /\ n - i <= n
    BY <1>1
  <2>3. QED
    BY <2>1, <2>2
<1> HIDE DEF S
<1>11. PICK from : UnpackedFrom(from, wire)
  BY <1>5, UnpackLabelsFound
<1>12. /\ UnpackLabels(wire) = from[1]
       /\ \A p \in 1..Len(wire) : from[p] = Opened(from, wire, p)
  <2>1. \A p \in 1..Len(wire) : p \in 1..Len(wire) + 64
    BY <1>5
  <2>2. QED
    BY <1>11, <2>1 DEF UnpackedFrom
\* Behind what has been packed of the first labels are the others.
<1> DEFINE R == {j \in Nat : j <= n =>
                   from[Len(packed[n - j]) + 1] = Ok(SubSeq(labels, n - j + 1, n), 0)}
<1>13. 0 \in R
  <2>1. n - 0 = n /\ SubSeq(labels, n - 0 + 1, n) = << >>
    BY <1>1 DEF n
  <2>2. Len(wire) \in Nat /\ Len(wire) \in 1..Len(wire)
    <3>1. Len(packed[n]) \in Nat
      BY <1>4
    <3>2. QED
      BY <1>5, <3>1
  <2>3. from[Len(wire)] = Ok(<< >>, 0)
    <3>1. ~(Len(wire) > Len(wire) \/ wire[Len(wire)] > 63)
      BY <1>5, <2>2
    <3>2. QED
      BY <1>5, <1>12, <2>2, <3>1 DEF Opened
  <2>4. QED
    BY <1>5, <2>1, <2>3
<1>14. ASSUME NEW j \in Nat, j \in R PROVE j + 1 \in R
  <2> DEFINE i == n - j
             p == Len(packed[i - 1]) + 1
             c == Len(labels[i])
  <2> SUFFICES ASSUME j + 1 <= n PROVE from[p] = Ok(SubSeq(labels, i, n), 0)
    <3>1. n - (j + 1) = i - 1 /\ n - (j + 1) + 1 = i
      BY <1>1
    <3>2. QED
      BY <3>1
  <2>1. i \in 1..n /\ j <= n /\ i \in 0..n /\ i - 1 \in 0..n /\ n - j + 1 = i + 1
    BY <1>1
  <2>2. from[Len(packed[i]) + 1] = Ok(SubSeq(labels, i + 1, n), 0)
    BY <1>14, <2>1
  <2> HIDE DEF i
  <2>3. c \in 1..63 /\ labels[i] \in Seq(Nat)
    BY <2>1 DEF n
  <2>4. /\ packed[i] \in Seq(Nat) /\ Len(packed[i]) = p + c
        /\ packed[i][p] = c /\ \A x \in 1..c : packed[i][p + x] = labels[i][x]
    BY <1>6, <2>1
  <2>5. Len(packed[i - 1]) \in Nat
    BY <1>10, <2>1
  <2>6. Len(wire) \in Nat
    BY <1>5
  <2>7. p \in Nat /\ 1 <= p
    BY <2>5
  <2> HIDE DEF p, c
  <2>8. p + c < Len(wire) /\ \A x \in 1..(p + c) : wire[x] = packed[i][x]
    BY <1>10, <2>1, <2>4
  <2>9. p \in 1..Len(wire) /\ p \in 1..(p + c)
    BY <2>3, <2>6, <2>7, <2>8
  <2>10. wire[p] = c
    BY <2>4, <2>8, <2>9
  <2>11. SubSeq(wire, p + 1, p + c) = labels[i]
    <3> DEFINE last == p + c
               label == SubSeq(wire, p + 1, last)
    <3>1. last \in Nat /\ p <= last /\ last <= Len(wire) /\ last - p = c /\ last = p + c
      BY <2>3, <2>6, <2>7, <2>8
    <3> HIDE DEF last
    <3>2. label \in Seq(Nat) /\ Len(label) = c /\ \A x \in 1..c : label[x] = wire[p + x]
      BY <1>5, <2>7, <3>1, Middle
    <3> HIDE DEF label
    <3>3. ASSUME NEW x \in 1..c PROVE label[x] = labels[i][x]
      <4>1. p + x \in 1..(p + c)
        BY <2>3, <2>7
      <4>2. QED
        BY <2>4, <2>8, <3>2, <4>1
    <3>4. Len(labels[i]) = c
      BY DEF c
    <3>5. label = labels[i]
      BY <2>3, <3>2, <3>3, <3>4, SameText
    <3>6. QED
      BY <3>5 DEF label, last
  <2>12. from[p] = Ok(<<labels[i]>> \o SubSeq(labels, i + 1, n), 0)
    <3> DEFINE rest == from[p + c + 1]
    <3>1. rest = Ok(SubSeq(labels, i + 1, n), 0)
      BY <2>2, <2>4
    <3> HIDE DEF rest
    <3>2. rest.status = "ok" /\ rest.value = SubSeq(labels, i + 1, n)
      BY <3>1 DEF Ok
    <3>3. ~(p > Len(wire) \/ c > 63) /\ c # 0
      BY <2>3, <2>6, <2>9
    <3>4. from[p] = Opened(from, wire, p)
      BY <1>12, <2>9
    <3>5. Opened(from, wire, p) = Ok(<<labels[i]>> \o rest.value, 0)
      BY <2>10, <2>11, <3>2, <3>3 DEF Opened, rest
    <3>6. QED
      BY <3>2, <3>4, <3>5
  <2>13. <<labels[i]>> \o SubSeq(labels, i + 1, n) = SubSeq(labels, i, n)
    BY <2>1, OneLabelMore DEF n
  <2>14. QED
    BY <2>12, <2>13
<1>15. Nat \subseteq R
  <2> HIDE DEF R
  <2>1. QED
    BY <1>13, <1>14, EveryNumber
<1>16. from[Len(packed[0]) + 1] = Ok(SubSeq(labels, 1, n), 0)
  <2>1. n \in R
    <3> HIDE DEF R
    <3>1. QED
      BY <1>1, <1>15
  <2>2. n - n = 0 /\ n - n + 1 = 1 /\ n <= n
    BY <1>1
  <2>3. QED
    BY <2>1, <2>2
<1>17. Len(packed[0]) + 1 = 1 /\ SubSeq(labels, 1, n) = labels
  BY <1>3 DEF n
<1>18. QED
  BY <1>12, <1>16, <1>17 DEF wire

-----------------------------------------------------------------------------
(* A query decoded *)

\* A label in lower case is as long.
LEMMA LowerLabel ==
  ASSUME NEW label \in Seq(Byte)
  PROVE  Lower(label) \in Seq(Byte) /\ Len(Lower(label)) = Len(label)
<1>1. Len(label) \in Nat /\ DOMAIN label = 1..Len(label)
  OBVIOUS
<1>2. Lower(label) = [i \in 1..Len(label) |-> IF label[i] \in 65..90 THEN label[i] + 32 ELSE label[i]]
  BY <1>1 DEF Lower
<1>3. ASSUME NEW i \in 1..Len(label)
      PROVE  (IF label[i] \in 65..90 THEN label[i] + 32 ELSE label[i]) \in Byte
  <2> DEFINE c == label[i]
  <2>1. c \in 0..255
    <3>1. c \in Byte
      OBVIOUS
    <3> HIDE DEF c
    <3>2. QED
      BY <3>1 DEF Byte
  <2> HIDE DEF c
  <2>2. (IF c \in 65..90 THEN c + 32 ELSE c) \in 0..255
    BY <2>1
  <2>3. QED
    BY <2>2 DEF Byte, c
<1>4. QED
  BY <1>1, <1>2, <1>3

\* The code of a last label stands for it.
LEMMA CodeKnown ==
  ASSUME NEW label
  PROVE  /\ CodeOf(label) \in Byte
         /\ CodeOf(label) # TldRaw => CodeOf(label) \in DOMAIN TLDs /\ TLDs[CodeOf(label)] = label
<1> DEFINE codes == {c \in DOMAIN TLDs : TLDs[c] = label}
<1>1. TLDs \in Seq(Seq(Byte)) /\ Len(TLDs) \in 0..255 /\ DOMAIN TLDs = 1..Len(TLDs)
  BY QueryCodecAssumption DEF Byte
<1>2. codes \in SUBSET Nat
  BY <1>1
<1>3. CASE codes = {}
  BY <1>3 DEF CodeOf, TldRaw, Byte
<1>4. CASE codes # {}
  <2>1. CodeOf(label) = Min(codes)
    BY <1>4 DEF CodeOf
  <2>2. Min(codes) \in codes
    <3> HIDE DEF codes
    <3>1. QED
      BY <1>2, <1>4, Least
  <2>3. CodeOf(label) \in 1..Len(TLDs) /\ TLDs[CodeOf(label)] = label
    BY <1>1, <2>1, <2>2
  <2> DEFINE c == CodeOf(label)
             n == Len(TLDs)
  <2>4. c \in 1..n /\ n \in 0..255
    BY <1>1, <2>3
  <2> HIDE DEF c, n
  <2>5. c \in 0..255
    BY <2>4
  <2>6. QED
    BY <1>1, <2>3, <2>5 DEF Byte, c
<1>5. QED
  BY <1>3, <1>4

\* The size of a buffer fits a byte, and is not rounded up.
LEMMA EdnsEncoded ==
  ASSUME NEW size \in Nat, size < Endless
  PROVE  /\ EncodeEdnsSize(size) \in Byte /\ EncodeEdnsSize(size) > 0
         /\ 256 * EncodeEdnsSize(size) <= Max({512, size})
<1> DEFINE most == Max({size, 512})
<1>1. most = IF size >= 512 THEN size ELSE 512
  BY Larger
<1>2. {512, size} = {size, 512}
  OBVIOUS
<1>3. most \in Nat /\ most >= 512 /\ most < Endless
  BY <1>1 DEF Endless
<1> HIDE DEF most
<1>4. most \div 256 \in 0..255 /\ most \div 256 > 0 /\ 256 * (most \div 256) <= most
  BY <1>3 DEF Endless
<1>5. EncodeEdnsSize(size) = most \div 256 /\ Max({512, size}) = most
  BY <1>2 DEF EncodeEdnsSize, most
<1>6. QED
  BY <1>4, <1>5 DEF Byte

\* One sequence after another.
LEMMA Appended ==
  ASSUME NEW C, NEW s \in Seq(C), NEW t \in Seq(C)
  PROVE  /\ s \o t \in Seq(C) /\ Len(s \o t) = Len(s) + Len(t)
         /\ \A i \in 1..Len(s) : (s \o t)[i] = s[i]
         /\ \A i \in 1..Len(t) : (s \o t)[Len(s) + i] = t[i]
OBVIOUS

\* What comes after the first elements of a sequence.
LEMMA AfterFirst ==
  ASSUME NEW C, NEW s \in Seq(C), NEW n \in Nat, n <= Len(s)
  PROVE  /\ After(s, n) \in Seq(C) /\ Len(After(s, n)) = Len(s) - n
         /\ \A i \in 1..(Len(s) - n) : After(s, n)[i] = s[n + i]
<1> DEFINE m == Len(s)
           t == SubSeq(s, n + 1, m)
<1>1. m \in Nat /\ n <= m
  OBVIOUS
<1>2. /\ t \in Seq(C) /\ Len(t) = IF n + 1 <= m THEN m - (n + 1) + 1 ELSE 0
      /\ \A i \in 1..Len(t) : t[i] = s[n + 1 + i - 1]
  OBVIOUS
<1> HIDE DEF m, t
<1>3. Len(t) = m - n
  BY <1>1, <1>2
<1>4. \A i \in 1..(m - n) : n + 1 + i - 1 = n + i
  BY <1>1
<1>5. \A i \in 1..(m - n) : t[i] = s[n + i]
  BY <1>2, <1>3, <1>4
<1>6. QED
  BY <1>2, <1>3, <1>5 DEF After, t, m

IsWire(wire, magic, code, type, packed) ==
  /\ magic \in Seq(Byte) /\ code \in Byte /\ type \in Seq(Byte) /\ packed \in Seq(Byte)
  /\ Len(magic) # 0 /\ Len(type) # 0
  /\ wire = magic \o <<code>> \o type \o packed

\* Where the parts of a wire are.
LEMMA WireParts ==
  ASSUME NEW whole, NEW magic, NEW code, NEW type, NEW packed,
         IsWire(whole, magic, code, type, packed)
  PROVE  /\ whole \in Seq(Byte) /\ Len(whole) > Len(magic) + 1
         /\ whole[Len(magic) + 1] = code
         /\ \A i \in 1..Len(magic) : whole[i] = magic[i]
         /\ After(whole, Len(magic) + 1) \in Seq(Byte)
         /\ Len(After(whole, Len(magic) + 1)) >= Len(type)
         /\ \A i \in 1..Len(type) : After(whole, Len(magic) + 1)[i] = type[i]
         /\ After(whole, Len(magic) + 1 + Len(type)) = packed
<1>0. /\ magic \in Seq(Byte) /\ code \in Byte /\ type \in Seq(Byte) /\ packed \in Seq(Byte)
      /\ Len(magic) # 0 /\ Len(type) # 0
      /\ whole = magic \o <<code>> \o type \o packed
  BY DEF IsWire
<1> DEFINE a == magic \o <<code>>
           b == a \o type
           wire == b \o packed
           start == Len(magic) + 1
<1>1. Len(magic) \in Nat \ {0} /\ Len(type) \in Nat \ {0} /\ Len(packed) \in Nat
  BY <1>0
<1>2. /\ a \in Seq(Byte) /\ Len(a) = Len(magic) + 1 /\ a[Len(magic) + 1] = code
      /\ \A i \in 1..Len(magic) : a[i] = magic[i]
  BY <1>0
<1> HIDE DEF a
<1>3. /\ b \in Seq(Byte) /\ Len(b) = Len(a) + Len(type)
      /\ \A i \in 1..Len(a) : b[i] = a[i]
      /\ \A i \in 1..Len(type) : b[Len(a) + i] = type[i]
  <2>1. a \in Seq(Byte) /\ type \in Seq(Byte)
    BY <1>0, <1>2
  <2>2. QED
    BY <2>1, Appended
<1> HIDE DEF b
<1>4. /\ wire \in Seq(Byte) /\ Len(wire) = Len(b) + Len(packed)
      /\ \A i \in 1..Len(b) : wire[i] = b[i]
      /\ \A i \in 1..Len(packed) : wire[Len(b) + i] = packed[i]
  <2>1. b \in Seq(Byte) /\ packed \in Seq(Byte)
    BY <1>0, <1>3
  <2>2. QED
    BY <2>1, Appended
<1> HIDE DEF wire
<1> DEFINE m == Len(magic)
           t == Len(type)
           p == Len(packed)
<1>5. m \in Nat \ {0} /\ t \in Nat \ {0} /\ p \in Nat
  BY <1>1
<1>6. Len(a) = m + 1 /\ Len(b) = m + 1 + t /\ Len(wire) = m + 1 + t + p /\ start = m + 1
  BY <1>2, <1>3, <1>4
<1> HIDE DEF m, t, p, start
<1>7. wire[start] = code
  <2>1. start \in 1..Len(b) /\ start \in 1..Len(a)
    BY <1>5, <1>6
  <2>2. a[start] = code
    BY <1>2 DEF start
  <2>3. QED
    BY <1>3, <1>4, <2>1, <2>2
<1>8. ASSUME NEW i \in 1..m PROVE wire[i] = magic[i]
  <2>1. i \in 1..Len(a) /\ i \in 1..Len(b)
    BY <1>5, <1>6
  <2>2. QED
    BY <1>2, <1>3, <1>4, <2>1 DEF m
<1>9. start \in Nat /\ start + t \in Nat
  BY <1>5, <1>6
<1>10. ASSUME NEW n \in Nat, n <= Len(wire)
       PROVE  /\ After(wire, n) \in Seq(Byte) /\ Len(After(wire, n)) = Len(wire) - n
              /\ \A i \in 1..(Len(wire) - n) : After(wire, n)[i] = wire[n + i]
  <2>1. wire \in Seq(Byte)
    BY <1>4
  <2>2. QED
    BY <1>10, <2>1, AfterFirst
<1>11. start <= Len(wire) /\ start + t <= Len(wire) /\ Len(wire) > start
  BY <1>5, <1>6
<1>12. /\ After(wire, start) \in Seq(Byte) /\ Len(After(wire, start)) = t + p
       /\ \A i \in 1..(t + p) : After(wire, start)[i] = wire[start + i]
  <2>1. Len(wire) - start = t + p
    BY <1>5, <1>6
  <2>2. QED
    BY <1>9, <1>10, <1>11, <2>1
<1>13. ASSUME NEW i \in 1..t PROVE After(wire, start)[i] = type[i]
  <2>1. i \in 1..(t + p) /\ start + i \in 1..Len(b) /\ start + i = Len(a) + i
    BY <1>5, <1>6
  <2>2. QED
    BY <1>3, <1>4, <1>12, <2>1 DEF t
<1>14. After(wire, start + t) = packed
  <2> DEFINE s == After(wire, start + t)
  <2>1. Len(wire) - (start + t) = p /\ start + t = Len(b)
    BY <1>5, <1>6
  <2>2. s \in Seq(Byte) /\ Len(s) = p /\ \A i \in 1..p : s[i] = wire[Len(b) + i]
    BY <1>9, <1>10, <1>11, <2>1
  <2> HIDE DEF s
  <2>3. \A i \in 1..Len(packed) : s[i] = packed[i]
    BY <1>4, <2>2 DEF p
  <2>4. s = packed
    BY <1>0, <2>2, <2>3, SameSequence DEF p
  <2>5. QED
    BY <2>4 DEF s
<1>15. Len(After(wire, start)) >= t
  BY <1>5, <1>12
<1>16. whole = wire
  BY <1>0 DEF wire, b, a
<1>17. QED
  BY <1>16, <1>4, <1>7, <1>8, <1>11, <1>12, <1>13, <1>14, <1>15 DEF start, m, t

Decodable(word, wire, start, number, labels) ==
  /\ \E length : FromBase32(Upper(Joined(word))) = Ok(wire, length)
  /\ wire # << >> /\ wire[1] \in {MagicMinimal, MagicEdns}
  /\ start = (IF wire[1] = MagicEdns THEN 3 ELSE 2) /\ ~(Len(wire) <= start)
  /\ \E size : /\ Uvarint(After(wire, start), 10) = Ok(number, size)
               /\ \E place : UnpackLabels(After(wire, start + size)) = Ok(labels, place)
  /\ ~(number > 65535)
  /\ wire[start] = TldRaw \/ wire[start] \in DOMAIN TLDs

\* What DecodeQuery makes of the parts of a wire.
LEMMA Decoding ==
  ASSUME NEW word, NEW wire, NEW start, NEW number, NEW labels,
         Decodable(word, wire, start, number, labels)
  PROVE  DecodeQuery(word) =
           Ok([name  |-> IF wire[start] = TldRaw THEN labels ELSE Append(labels, TLDs[wire[start]]),
               type  |-> number, class |-> ClassINET,
               edns  |-> IF wire[1] = MagicEdns THEN 256 * wire[2] ELSE 0], Len(word))
<1> DEFINE decoded == FromBase32(Upper(Joined(word)))
           w == decoded.value
           edns == w[1] = MagicEdns
           from == IF edns THEN 3 ELSE 2
           code == w[from]
           type == Uvarint(After(w, from), 10)
           found == UnpackLabels(After(w, from + type.size))
           query0 == [name |-> IF code = TldRaw THEN found.value ELSE Append(found.value, TLDs[code]),
                      type |-> type.value, class |-> ClassINET,
                      edns |-> IF edns THEN 256 * w[2] ELSE 0]
           refused == \/ decoded.status # "ok" \/ w = << >>
                      \/ w[1] \notin {MagicMinimal, MagicEdns} \/ Len(w) <= from
                      \/ type.status # "ok" \/ type.value > 65535
                      \/ found.status # "ok" \/ (code # TldRaw /\ code \notin DOMAIN TLDs)
<1>1. DecodeQuery(word) = IF refused THEN Bad ELSE Ok(query0, Len(word))
  BY DEF DecodeQuery
<1>2. /\ wire # << >> /\ wire[1] \in {MagicMinimal, MagicEdns}
      /\ start = (IF wire[1] = MagicEdns THEN 3 ELSE 2) /\ ~(Len(wire) <= start)
      /\ ~(number > 65535)
      /\ wire[start] = TldRaw \/ wire[start] \in DOMAIN TLDs
  BY DEF Decodable
<1>3. PICK length : FromBase32(Upper(Joined(word))) = Ok(wire, length)
  BY DEF Decodable
<1>4. PICK size : /\ Uvarint(After(wire, start), 10) = Ok(number, size)
                  /\ \E place : UnpackLabels(After(wire, start + size)) = Ok(labels, place)
  BY DEF Decodable
<1>5. PICK place : UnpackLabels(After(wire, start + size)) = Ok(labels, place)
  BY <1>4
<1>6. decoded.status = "ok" /\ w = wire
  BY <1>3 DEF Ok
<1> HIDE DEF decoded
<1> HIDE DEF w
<1>7. from = start
  BY <1>6, <1>2
<1> HIDE DEF from
<1>8. type.status = "ok" /\ type.value = number /\ type.size = size
  BY <1>6, <1>7, <1>4 DEF Ok
<1> HIDE DEF type
<1>9. found.status = "ok" /\ found.value = labels
  BY <1>6, <1>7, <1>8, <1>5 DEF Ok
<1> HIDE DEF found
<1>10. ~refused
  BY <1>2, <1>6, <1>7, <1>8, <1>9
<1> HIDE DEF refused
<1>11. query0 = [name  |-> IF wire[start] = TldRaw THEN labels ELSE Append(labels, TLDs[wire[start]]),
                type  |-> number, class |-> ClassINET,
                edns  |-> IF wire[1] = MagicEdns THEN 256 * wire[2] ELSE 0]
  BY <1>6, <1>7, <1>8, <1>9
<1>12. QED
  BY <1>1, <1>10, <1>11

\* A query of labels of bytes, as it is asked ...
Askable(asked) ==
  /\ asked \in [name : Seq(Seq(Byte)), type : Nat, class : Nat, edns : Nat]
  /\ asked.type < Endless /\ asked.edns < Endless /\ Encodable(asked)

\* ... and as it is understood.
LoweredName(asked) == [i \in DOMAIN asked.name |-> Lower(asked.name[i])]

Restored(asked) ==
  [name |-> LoweredName(asked), type |-> asked.type, class |-> ClassINET,
   edns |-> IF asked.edns = 0 THEN 0 ELSE 256 * EncodeEdnsSize(asked.edns)]

LEMMA NameLowered ==
  ASSUME NEW asked, Askable(asked)
  PROVE  /\ LoweredName(asked) \in Seq(Seq(Byte)) /\ Len(LoweredName(asked)) \in Nat \ {0}
         /\ Len(LoweredName(asked)) = Len(asked.name)
         /\ \A i \in 1..Len(LoweredName(asked)) : Len(LoweredName(asked)[i]) \in 1..63
<1> DEFINE name == asked.name
<1>1. name \in Seq(Seq(Byte)) /\ name # << >> /\ \A i \in DOMAIN name : Len(name[i]) \in 1..63
  BY DEF Askable, Encodable
<1>2. LoweredName(asked) = [i \in DOMAIN name |-> Lower(name[i])]
  BY DEF LoweredName
<1> HIDE DEF name
<1>3. DOMAIN name = 1..Len(name) /\ Len(name) \in Nat \ {0}
  BY <1>1
<1>4. \A i \in 1..Len(name) : Lower(name[i]) \in Seq(Byte) /\ Len(Lower(name[i])) \in 1..63
  <2> SUFFICES ASSUME NEW i \in 1..Len(name)
               PROVE  Lower(name[i]) \in Seq(Byte) /\ Len(Lower(name[i])) \in 1..63
    OBVIOUS
  <2>1. i \in DOMAIN name
    BY <1>3
  <2>2. name[i] \in Seq(Byte)
    BY <1>1, <2>1
  <2>3. Len(name[i]) \in 1..63
    BY <1>1, <2>1
  <2>4. QED
    BY <2>2, <2>3, LowerLabel
<1>5. LoweredName(asked) = [i \in 1..Len(name) |-> Lower(name[i])]
  BY <1>2, <1>3
<1>6. LoweredName(asked) \in Seq(Seq(Byte)) /\ Len(LoweredName(asked)) = Len(name)
  BY <1>3, <1>4, <1>5
<1>7. \A i \in 1..Len(name) : LoweredName(asked)[i] = Lower(name[i])
  BY <1>5
<1>8. QED
  BY <1>3, <1>4, <1>6, <1>7 DEF name

\* The labels that are chosen: all of them, or all but one that has a code.
SentLabels(asked) ==
  IF CodeOf(Last(LoweredName(asked))) = TldRaw THEN LoweredName(asked) ELSE Front(LoweredName(asked))

LEMMA LabelsSent ==
  ASSUME NEW asked, Askable(asked)
  PROVE  LET code == CodeOf(Last(LoweredName(asked)))
             chosen == SentLabels(asked)
         IN  /\ code \in Byte /\ (code = TldRaw \/ code \in DOMAIN TLDs)
             /\ PackLabels(chosen) \in Seq(Byte)
             /\ UnpackLabels(PackLabels(chosen)) = Ok(chosen, 0)
             /\ (IF code = TldRaw THEN chosen ELSE Append(chosen, TLDs[code])) = LoweredName(asked)
<1> DEFINE labels == LoweredName(asked)
           n == Len(labels)
           code == CodeOf(Last(labels))
           chosen == SentLabels(asked)
<1>1. /\ labels \in Seq(Seq(Byte)) /\ n \in Nat \ {0}
      /\ \A i \in 1..n : Len(labels[i]) \in 1..63
  BY NameLowered
<1>2. code \in Byte /\ (code # TldRaw => code \in DOMAIN TLDs /\ TLDs[code] = Last(labels))
  BY CodeKnown
<1>3. chosen = IF code = TldRaw THEN labels ELSE Front(labels)
  BY DEF SentLabels
<1> HIDE DEF labels, code, chosen
<1>4. Last(labels) = labels[n] /\ labels[n] \in Seq(Byte)
  BY <1>1 DEF Last
<1>5. /\ Front(labels) \in Seq(Seq(Byte)) /\ Len(Front(labels)) = n - 1
      /\ \A i \in 1..(n - 1) : Front(labels)[i] = labels[i]
  <2>1. Front(labels) = SubSeq(labels, 1, n - 1)
    BY DEF Front
  <2> DEFINE m == n - 1
  <2>2. m \in 0..n /\ n = Len(labels)
    BY <1>1
  <2> HIDE DEF m, n
  <2>3. /\ SubSeq(labels, 1, m) \in Seq(Seq(Byte)) /\ Len(SubSeq(labels, 1, m)) = m
        /\ \A i \in 1..m : SubSeq(labels, 1, m)[i] = labels[i]
    BY <1>1, <2>2
  <2>4. QED
    BY <2>1, <2>3 DEF m
<1>6. chosen \in Seq(Seq(Byte)) /\ \A i \in 1..Len(chosen) : Len(chosen[i]) \in 1..63
  <2>1. CASE code = TldRaw
    BY <1>1, <1>3, <2>1
  <2>2. CASE code # TldRaw
    <3>1. chosen = Front(labels)
      BY <1>3, <2>2
    <3>2. Len(chosen) = n - 1 /\ \A i \in 1..(n - 1) : chosen[i] = labels[i] /\ i \in 1..n
      BY <1>1, <1>5, <3>1
    <3>3. QED
      BY <1>1, <1>5, <3>1, <3>2
  <2>3. QED
    BY <2>1, <2>2
<1>7. PackLabels(chosen) \in Seq(Byte)
  <2>1. Byte \subseteq Nat /\ 0 \in Byte /\ 1..63 \subseteq Byte
    BY DEF Byte
  <2>2. \A i \in 1..Len(chosen) : Len(chosen[i]) \in Byte
    BY <1>6, <2>1
  <2>3. QED
    BY <1>6, <2>1, <2>2, LabelsPackedInto
<1>8. UnpackLabels(PackLabels(chosen)) = Ok(chosen, 0)
  <2>1. chosen \in Seq(Seq(Nat))
    BY <1>6, BytesAreNumbers
  <2>2. QED
    BY <1>6, <2>1, LabelsRead
<1>9. (IF code = TldRaw THEN chosen ELSE Append(chosen, TLDs[code])) = labels
  <2>1. CASE code = TldRaw
    BY <1>3, <2>1
  <2>2. CASE code # TldRaw
    <3> DEFINE front == Front(labels)
               all == Append(front, labels[n])
    <3>1. chosen = front /\ TLDs[code] = labels[n]
      BY <1>2, <1>3, <1>4, <2>2
    <3>2. front \in Seq(Seq(Byte)) /\ Len(front) = n - 1 /\ \A i \in 1..(n - 1) : front[i] = labels[i]
      BY <1>5
    <3> HIDE DEF front
    <3>3. /\ all \in Seq(Seq(Byte)) /\ Len(all) = Len(front) + 1 /\ all[Len(front) + 1] = labels[n]
          /\ \A i \in 1..Len(front) : all[i] = front[i]
      BY <1>4, <3>2
    <3> HIDE DEF all
    <3>4. Len(all) = n /\ all[n] = labels[n]
      BY <1>1, <3>2, <3>3
    <3>5. ASSUME NEW i \in 1..Len(labels) PROVE all[i] = labels[i]
      <4>1. i = n \/ i \in 1..(n - 1)
        BY <1>1
      <4>2. QED
        BY <3>2, <3>3, <3>4, <4>1
    <3>6. all = labels
      BY <1>1, <3>3, <3>4, <3>5, SameSequence
    <3>7. QED
      BY <2>2, <3>1, <3>6 DEF all
  <2>3. QED
    BY <2>1, <2>2
<1>10. QED
  BY <1>2, <1>7, <1>8, <1>9 DEF labels, code, chosen

\* The first bytes of a wire, and all of it.
Magic(asked) ==
  IF asked.edns = 0 THEN <<MagicMinimal>> ELSE <<MagicEdns, EncodeEdnsSize(asked.edns)>>

WireOf(asked) ==
  Magic(asked) \o <<CodeOf(Last(LoweredName(asked)))>> \o WriteVarInt(asked.type)
    \o PackLabels(SentLabels(asked))

LEMMA MagicWritten ==
  ASSUME NEW asked, Askable(asked)
  PROVE  LET magic == Magic(asked)
         IN  /\ magic \in Seq(Byte) /\ Len(magic) \in {1, 2}
             /\ magic[1] \in {MagicMinimal, MagicEdns}
             /\ Len(magic) + 1 = IF magic[1] = MagicEdns THEN 3 ELSE 2
             /\ magic[1] = MagicEdns <=> asked.edns # 0
             /\ asked.edns # 0 => magic[2] = EncodeEdnsSize(asked.edns)
<1> DEFINE size == EncodeEdnsSize(asked.edns)
<1>1. asked.edns \in Nat /\ asked.edns < Endless
  BY DEF Askable
<1>2. size \in Byte
  BY <1>1, EdnsEncoded
<1>3. Magic(asked) = IF asked.edns = 0 THEN <<MagicMinimal>> ELSE <<MagicEdns, size>>
  BY DEF Magic
<1>4. MagicMinimal \in Byte /\ MagicEdns \in Byte /\ MagicMinimal # MagicEdns
  BY DEF MagicMinimal, MagicEdns, Byte
<1> HIDE DEF size
<1>5. CASE asked.edns = 0
  BY <1>3, <1>4, <1>5
<1>6. CASE asked.edns # 0
  <2>1. Magic(asked) = <<MagicEdns, size>>
    BY <1>3, <1>6
  <2>2. Magic(asked) \in Seq(Byte) /\ Len(Magic(asked)) = 2
    BY <1>2, <1>4, <2>1
  <2>3. Magic(asked)[1] = MagicEdns /\ Magic(asked)[2] = size
    BY <2>1
  <2>4. QED
    BY <1>4, <1>6, <2>2, <2>3 DEF size
<1>7. QED
  BY <1>5, <1>6

\* The wire in base32 is a word without dots, and is read back.
LEMMA QueryWord ==
  ASSUME NEW asked, NEW wire \in Seq(Byte), wire # << >>, EncodeQuery(asked) = Lower(Base32(wire))
  PROVE  LET word == EncodeQuery(asked)
         IN  /\ word \in Seq(Nat) /\ word # << >> /\ \A i \in 1..Len(word) : word[i] # Dot
             /\ \E n : FromBase32(Upper(Joined(word))) = Ok(wire, n)
<1> DEFINE digits == Base32(wire)
           word == EncodeQuery(asked)
<1>1. digits \in Seq(Digits) /\ digits # << >> /\ FromBase32(digits) = Ok(wire, Len(digits))
  BY Base32Read
<1> HIDE DEF digits
<1>2. /\ Upper(Lower(digits)) = digits /\ Lower(digits) \in Seq(Nat)
      /\ Len(Lower(digits)) = Len(digits)
      /\ \A i \in 1..Len(digits) : Lower(digits)[i] # Dot
  BY <1>1, CaseRestored
<1>3. word = Lower(digits)
  BY DEF digits
<1> HIDE DEF word
<1>4. word \in Seq(Nat) /\ \A i \in 1..Len(word) : word[i] # Dot
  BY <1>2, <1>3
<1>5. word # << >>
  <2>1. Len(digits) # 0
    BY <1>1
  <2>2. QED
    BY <1>2, <1>3, <2>1
<1>6. Joined(word) = word
  BY <1>4, JoinedWhole
<1>7. FromBase32(Upper(Joined(word))) = Ok(wire, Len(digits))
  BY <1>1, <1>2, <1>3, <1>6
<1>8. QED
  BY <1>4, <1>5, <1>7 DEF word

\* A text of bytes is a text.
LEMMA ByteText ==
  ASSUME NEW word \in Seq(Byte)
  PROVE  word \in Seq(Nat)
<1>1. \A i \in 1..Len(word) : word[i] \in Byte
  OBVIOUS
<1>2. Byte \subseteq Nat
  BY DEF Byte
<1>3. \A i \in 1..Len(word) : word[i] \in Nat
  BY <1>1, <1>2
<1>4. QED
  BY <1>3

(* DecodeQuery makes of what EncodeQuery has made of a query the query again, but  *)
(* for the case of its letters and the size of its buffer, which is rounded down:  *)
(* with EDNS and without, for a TLD with a code and for one without, and for every *)
(* type.  And the text is not empty and has no dot in it.                          *)
THEOREM QueryDecoded ==
  ASSUME NEW asked, Askable(asked)
  PROVE  LET word == EncodeQuery(asked)
         IN  /\ word \in Seq(Nat) /\ word # << >> /\ \A i \in 1..Len(word) : word[i] # Dot
             /\ DecodeQuery(word) = Ok(Restored(asked), Len(word))
<1> DEFINE word == EncodeQuery(asked)
           magic == Magic(asked)
           code == CodeOf(Last(LoweredName(asked)))
           type == WriteVarInt(asked.type)
           chosen == SentLabels(asked)
           packed == PackLabels(chosen)
           wire == WireOf(asked)
           start == Len(magic) + 1
<1>1. word = Lower(Base32(wire))
  BY DEF EncodeQuery, WireOf, Magic, SentLabels, LoweredName
<1>2. /\ magic \in Seq(Byte) /\ Len(magic) \in {1, 2}
      /\ magic[1] \in {MagicMinimal, MagicEdns}
      /\ start = IF magic[1] = MagicEdns THEN 3 ELSE 2
      /\ magic[1] = MagicEdns <=> asked.edns # 0
      /\ asked.edns # 0 => magic[2] = EncodeEdnsSize(asked.edns)
  BY MagicWritten
<1>3. /\ code \in Byte /\ (code = TldRaw \/ code \in DOMAIN TLDs)
      /\ packed \in Seq(Byte) /\ UnpackLabels(packed) = Ok(chosen, 0)
      /\ (IF code = TldRaw THEN chosen ELSE Append(chosen, TLDs[code])) = LoweredName(asked)
  BY LabelsSent
<1>4. asked.type \in Small /\ asked.type <= 65535
  <2>1. asked.type \in Nat /\ asked.type < Endless
    BY DEF Askable
  <2>2. QED
    BY <2>1 DEF Endless, Small
<1>5. type \in Seq(Byte) /\ type \in Seq(Nat) /\ Len(type) \in 1..3
  <2>1. PICK size \in 1..3 : type \in Seq(Nat) /\ Len(type) = size /\ type \in Seq(Byte)
    BY <1>4, VarIntWritten
  <2> HIDE DEF type
  <2>2. QED
    BY <2>1
<1>6. wire = magic \o <<code>> \o type \o packed
  BY DEF WireOf
<1> HIDE DEF word, magic, code, type, chosen, packed, wire
<1>7. /\ wire \in Seq(Byte) /\ Len(wire) > start /\ wire[start] = code
      /\ \A i \in 1..Len(magic) : wire[i] = magic[i]
      /\ After(wire, start) \in Seq(Byte) /\ Len(After(wire, start)) >= Len(type)
      /\ \A i \in 1..Len(type) : After(wire, start)[i] = type[i]
      /\ After(wire, start + Len(type)) = packed
  <2>1. Byte \subseteq Nat
    BY DEF Byte
  <2>2. Len(magic) \in {1, 2} /\ Len(type) \in 1..3
    BY <1>2, <1>5
  <2>3. Len(magic) # 0 /\ Len(type) # 0
    BY <2>2
  <2>4. magic \in Seq(Byte) /\ code \in Byte /\ type \in Seq(Byte) /\ packed \in Seq(Byte)
    BY <1>2, <1>3, <1>5
  <2>5. IsWire(wire, magic, code, type, packed)
    BY <1>6, <2>3, <2>4 DEF IsWire
  <2>6. QED
    BY <2>5, WireParts
<1>8. wire # << >> /\ wire[1] = magic[1] /\ (asked.edns # 0 => wire[2] = magic[2])
  <2>1. Len(magic) = 1 \/ Len(magic) = 2
    BY <1>2
  <2>2. asked.edns # 0 => Len(magic) = 2
    BY <1>2, <2>1
  <2>3. Len(wire) > 1
    BY <1>7, <2>1
  <2>4. wire # << >>
    BY <2>3
  <2>5. 1 \in 1..Len(magic) /\ (asked.edns # 0 => 2 \in 1..Len(magic))
    BY <2>1, <2>2
  <2>6. QED
    BY <1>7, <2>4, <2>5
<1>9. /\ word \in Seq(Nat) /\ word # << >> /\ \A i \in 1..Len(word) : word[i] # Dot
      /\ \E n : FromBase32(Upper(Joined(word))) = Ok(wire, n)
  BY <1>1, <1>7, <1>8, QueryWord DEF word
<1>10. PICK length : FromBase32(Upper(Joined(word))) = Ok(wire, length)
  BY <1>9
<1>11. Uvarint(After(wire, start), 10) = Ok(asked.type, Len(type))
  <2> DEFINE bytes == After(wire, start)
  <2>1. bytes \in Seq(Nat)
    <3>1. bytes \in Seq(Byte)
      BY <1>7
    <3> HIDE DEF bytes
    <3>2. QED
      BY <3>1, ByteText
  <2>2. \A i \in 1..Len(type) : i <= Len(bytes) => bytes[i] = type[i]
    BY <1>7
  <2>3. Len(bytes) >= Len(type)
    BY <1>7
  <2> HIDE DEF bytes
  <2>4. 10 \in Nat /\ 10 >= 3
    OBVIOUS
  <2>5. Uvarint(bytes, 10) = Ok(asked.type, Len(type))
    BY <1>4, <2>1, <2>2, <2>3, <2>4, UvarintRead DEF type
  <2>6. QED
    BY <2>5 DEF bytes
<1>12. /\ start = (IF wire[1] = MagicEdns THEN 3 ELSE 2) /\ wire[1] \in {MagicMinimal, MagicEdns}
  BY <1>2, <1>8
<1>13. ~(Len(wire) <= start) /\ ~(asked.type > 65535)
  <2>1. Len(wire) \in Nat /\ start \in Nat
    BY <1>2, <1>7
  <2>2. asked.type \in Nat
    BY <1>4 DEF Small
  <2>3. QED
    BY <1>4, <1>7, <2>1, <2>2
<1>14. wire[start] = TldRaw \/ wire[start] \in DOMAIN TLDs
  BY <1>3, <1>7
<1>15. UnpackLabels(After(wire, start + Len(type))) = Ok(chosen, 0)
  BY <1>3, <1>7
<1> DEFINE decoded ==
      [name  |-> IF wire[start] = TldRaw THEN chosen ELSE Append(chosen, TLDs[wire[start]]),
       type  |-> asked.type, class |-> ClassINET,
       edns  |-> IF wire[1] = MagicEdns THEN 256 * wire[2] ELSE 0]
<1>16. DecodeQuery(word) = Ok(decoded, Len(word))
  <2> HIDE DEF start
  <2>1. Decodable(word, wire, start, asked.type, chosen)
    BY <1>8, <1>10, <1>11, <1>12, <1>13, <1>14, <1>15 DEF Decodable
  <2>2. QED
    BY <2>1, Decoding
<1>17. decoded = Restored(asked)
  <2>1. (IF wire[start] = TldRaw THEN chosen ELSE Append(chosen, TLDs[wire[start]])) = LoweredName(asked)
    BY <1>3, <1>7
  <2>2. (IF wire[1] = MagicEdns THEN 256 * wire[2] ELSE 0)
          = IF asked.edns = 0 THEN 0 ELSE 256 * EncodeEdnsSize(asked.edns)
    BY <1>2, <1>8
  <2>3. QED
    BY <2>1, <2>2 DEF Restored
<1> HIDE DEF decoded
<1>18. QED
  BY <1>9, <1>16, <1>17 DEF word

-----------------------------------------------------------------------------
(* What is around a word in an address *)

LEMMA JoinedInTurn ==
  ASSUME NEW r \in Seq(Nat), NEW s \in Seq(Nat), NEW t \in Seq(Nat)
  PROVE  (r \o s) \o t = r \o (s \o t)
<1> DEFINE a == (r \o s) \o t
           b == r \o (s \o t)
<1>1. a \in Seq(Nat) /\ b \in Seq(Nat) /\ Len(a) = Len(b)
  OBVIOUS
<1>2. ASSUME NEW i \in 1..Len(b) PROVE a[i] = b[i]
  OBVIOUS
<1> HIDE DEF a, b
<1>3. a = b
  BY <1>1, <1>2, SameSequence
<1>4. QED
  BY <1>3 DEF a, b

\* The last of the labels of a piece does not end in a dot.
LEMMA ChunksEnd ==
  ASSUME NEW words \in Seq(Nat), Len(words) # 0, \A i \in 1..Len(words) : words[i] # Dot
  PROVE  LET chunks == ChunkLabels(words)
         IN  chunks \in Seq(Nat) /\ Len(chunks) \in Nat \ {0} /\ chunks[Len(chunks)] # Dot
<1> DEFINE length == Len(words)
           dots == (length - 1) \div MaxLabelLength
           last == (length - 1) % MaxLabelLength
           n == length + dots
           b == MaxLabelLength + 1
           chunks == ChunkLabels(words)
<1>1. MaxLabelLength \in Nat \ {0} /\ b \in Nat \ {0} /\ length \in Nat \ {0}
  BY QueryCodecAssumption
<1>2. /\ dots \in Nat /\ last \in 0..(MaxLabelLength - 1)
      /\ length - 1 = MaxLabelLength * dots + last
  <2>1. dots \in Nat
    BY <1>1, DotsCounted
  <2>2. QED
    BY <1>1, <2>1
<1>3. n \in Nat \ {0} /\ n % b # 0
  <2>1. b = MaxLabelLength + 1
    OBVIOUS
  <2> HIDE DEF dots, last, b
  <2>2. n \in Nat \ {0} /\ n \in Int /\ n = dots * b + (last + 1) /\ last + 1 \in 1..(b - 1)
    BY <1>1, <1>2, <2>1
  <2> DEFINE m == n
             r == last + 1
  <2>3. m \in Int /\ r \in 0..(b - 1) /\ r # 0 /\ m = dots * b + r /\ dots \in Int
    BY <1>1, <1>2, <2>2
  <2> HIDE DEF m, r
  <2>4. m % b = r
    BY <1>1, <2>3, Divided
  <2>5. QED
    BY <2>2, <2>3, <2>4 DEF m
<1>4. chunks \in Seq(Nat) /\ Len(chunks) = n
  BY <1>1, ChunksWritten, QueryCodecAssumption
<1>5. \A i \in 1..n : chunks[i] = IF i % b = 0 THEN Dot ELSE words[i - i \div b]
  BY DEF ChunkLabels
<1>6. n \in 1..n /\ n - n \div b \in 1..length
  <2>1. n \in 1..n
    BY <1>3
  <2>2. QED
    BY <1>1, <1>3, <2>1, LabelPlace
<1>7. chunks[n] # Dot
  <2> HIDE DEF n, chunks, b
  <2>1. chunks[n] = words[n - n \div b]
    BY <1>3, <1>5, <1>6
  <2>2. QED
    BY <1>6, <2>1
<1>8. QED
  BY <1>3, <1>4, <1>7

\* The suffix of an address is found.
LEMMA SuffixFound ==
  ASSUME NEW start \in Seq(Nat), Suffix # << >>
  PROVE  HasSuffix(start \o Suffix)
<1> DEFINE address == start \o Suffix
           n == Len(Suffix)
           m == Len(start)
           s == Lower(Suffix)
           t == Lower(address)
           rs == Reverse(s)
           rt == Reverse(t)
<1>1. Suffix \in Seq(Nat) /\ n \in Nat /\ m \in Nat
  BY QueryCodecAssumption
<1>2. /\ address \in Seq(Nat) /\ Len(address) = m + n
      /\ \A i \in 1..n : address[m + i] = Suffix[i]
  BY <1>1, Appended
<1> DEFINE small(c) == IF c \in 65..90 THEN c + 32 ELSE c
<1> HIDE DEF address
<1>3. s = [i \in 1..n |-> small(Suffix[i])] /\ t = [i \in 1..(m + n) |-> small(address[i])]
  BY <1>1, <1>2 DEF Lower
<1>4. s \in Seq(Nat) /\ t \in Seq(Nat)
  BY <1>1, <1>2, LowerWritten
<1> HIDE DEF small
<1>5. Len(s) = n /\ Len(t) = m + n
  BY <1>1, <1>3, <1>4
<1> HIDE DEF s, t
<1>6. ASSUME NEW i \in 1..n PROVE s[n - i + 1] = t[m + n - i + 1]
  <2> DEFINE j == n - i + 1
  <2>1. j \in 1..n /\ m + j \in 1..(m + n) /\ m + n - i + 1 = m + j
    BY <1>1
  <2> HIDE DEF j
  <2>2. s[j] = t[m + j]
    BY <1>2, <1>3, <2>1
  <2>3. QED
    BY <2>1, <2>2 DEF j
<1>7. rs = [i \in 1..n |-> s[(n - i) + 1]] /\ rt = [i \in 1..(m + n) |-> t[(m + n - i) + 1]]
  BY <1>5 DEF Reverse
<1>8. rs \in Seq(Nat) /\ Len(rs) = n
  <2>1. \A i \in 1..n : (n - i) + 1 \in 1..n
    BY <1>1
  <2>2. \A i \in 1..n : s[(n - i) + 1] \in Nat
    <3>1. \A j \in 1..n : s[j] \in Nat
      BY <1>4, <1>5
    <3>2. QED
      BY <2>1, <3>1
  <2>3. QED
    BY <1>1, <1>7, <2>2
<1>9. rt \in Seq(Nat) /\ Len(rt) = m + n
  <2>1. \A i \in 1..(m + n) : (m + n - i) + 1 \in 1..(m + n)
    BY <1>1
  <2>2. \A i \in 1..(m + n) : t[(m + n - i) + 1] \in Nat
    BY <1>4, <1>5, <2>1
  <2>3. QED
    BY <1>1, <1>7, <2>2
<1>10. \A i \in 1..n : rs[i] = rt[i]
  <2>1. \A i \in 1..n : rs[i] = s[(n - i) + 1]
    BY <1>7
  <2>2. \A i \in 1..n : i \in 1..(m + n)
    BY <1>1
  <2>3. \A i \in 1..n : rt[i] = t[(m + n - i) + 1]
    BY <1>7, <2>2
  <2>4. QED
    BY <1>6, <2>1, <2>3
<1> HIDE DEF rs, rt
<1>11. SubSeq(rs, 1, n) = SubSeq(rt, 1, n)
  <2> DEFINE a == SubSeq(rs, 1, n)
             c == SubSeq(rt, 1, n)
  <2>1. a \in Seq(Nat) /\ Len(a) = n /\ \A i \in 1..n : a[i] = rs[i]
    BY <1>1, <1>8
  <2>2. c \in Seq(Nat) /\ Len(c) = n /\ \A i \in 1..n : c[i] = rt[i]
    <3>1. rt \in Seq(Nat) /\ n \in 0..Len(rt)
      BY <1>1, <1>9
    <3>2. QED
      BY <3>1
  <2> HIDE DEF a, c
  <2>3. \A i \in 1..Len(c) : a[i] = c[i]
    BY <1>10, <2>1, <2>2
  <2>4. a = c
    BY <2>1, <2>2, <2>3, SameSequence
  <2>5. QED
    BY <2>4 DEF a, c
<1>12. IsPrefix(rs, rt)
  BY <1>1, <1>8, <1>9, <1>11 DEF IsPrefix
<1>13. IsSuffix(s, t)
  BY <1>12 DEF IsSuffix, rs, rt
<1>14. QED
  BY <1>13 DEF HasSuffix, s, t, address

\* What is in front of the end of a sequence.
LEMMA Kept ==
  ASSUME NEW s \in Seq(Nat), NEW t \in Seq(Nat)
  PROVE  Take(s \o t, Len(s \o t) - Len(t)) = s
<1> DEFINE a == s \o t
           b == Take(a, Len(s))
<1>1. Len(s) \in Nat /\ Len(t) \in Nat
  OBVIOUS
<1>2. a \in Seq(Nat) /\ Len(a) = Len(s) + Len(t) /\ \A i \in 1..Len(s) : a[i] = s[i]
  BY Appended
<1> HIDE DEF a
<1>3. b \in Seq(Nat) /\ Len(b) = Len(s) /\ \A i \in 1..Len(b) : b[i] = a[i]
  BY <1>1, <1>2, Cut
<1> HIDE DEF b
<1>4. b = s
  <2>1. \A i \in 1..Len(s) : b[i] = s[i]
    BY <1>2, <1>3
  <2>2. QED
    BY <1>3, <2>1, SameSequence
<1>5. Len(a) - Len(t) = Len(s)
  BY <1>1, <1>2
<1>6. QED
  BY <1>4, <1>5 DEF a, b

\* The suffix of an address is taken off again, with the dot in front of it.
LEMMA SuffixStripped ==
  ASSUME NEW start \in Seq(Nat), Len(start) # 0, start[Len(start)] # Dot
  PROVE  StripSuffix(start \o SuffixWithDot) = start
<1>1. Suffix \in Seq(Nat)
  BY QueryCodecAssumption
<1>2. start # << >> /\ Last(start) # Dot
  BY DEF Last
<1>3. CASE Suffix = << >>
  <2>1. start \o SuffixWithDot = start
    BY <1>3 DEF SuffixWithDot
  <2>2. ~HasSuffix(start)
    BY <1>3 DEF HasSuffix
  <2>3. QED
    BY <2>1, <2>2 DEF StripSuffix
<1>4. CASE Suffix # << >> /\ Head(Suffix) = Dot
  <2> DEFINE address == start \o Suffix
  <2>1. SuffixWithDot = Suffix
    BY <1>4 DEF SuffixWithDot
  <2>2. HasSuffix(address)
    BY <1>4, SuffixFound
  <2>3. Take(address, Len(address) - Len(Suffix)) = start
    BY <1>1, Kept
  <2> HIDE DEF address
  <2>4. StripSuffix(address) = start
    BY <1>2, <2>2, <2>3 DEF StripSuffix
  <2>5. QED
    BY <2>1, <2>4 DEF address
<1>5. CASE Suffix # << >> /\ Head(Suffix) # Dot
  <2> DEFINE dotted == start \o <<Dot>>
             address == dotted \o Suffix
  <2>1. SuffixWithDot = <<Dot>> \o Suffix
    BY <1>5 DEF SuffixWithDot
  <2>2. <<Dot>> \in Seq(Nat) /\ Len(<<Dot>>) = 1 /\ <<Dot>>[1] = Dot
    BY DEF Dot
  <2>3. start \o SuffixWithDot = address
    <3> DEFINE d == <<Dot>>
    <3>1. d \in Seq(Nat) /\ SuffixWithDot = d \o Suffix
      BY <2>1, <2>2
    <3> HIDE DEF d
    <3> DEFINE suffix == Suffix
    <3>2. suffix \in Seq(Nat) /\ d \in Seq(Nat) /\ start \in Seq(Nat)
      BY <1>1, <3>1
    <3> HIDE DEF suffix
    <3>3. (start \o d) \o suffix = start \o (d \o suffix)
      BY <3>2, JoinedInTurn
    <3>4. QED
      BY <3>1, <3>3 DEF d, suffix
  <2>4. dotted \in Seq(Nat) /\ Len(dotted) = Len(start) + 1 /\ dotted[Len(start) + 1] = Dot
    <3>1. /\ dotted \in Seq(Nat) /\ Len(dotted) = Len(start) + 1
          /\ \A i \in 1..1 : dotted[Len(start) + i] = <<Dot>>[i]
      BY <2>2, Appended
    <3>2. QED
      BY <2>2, <3>1
  <2>5. Front(dotted) = start
    <3>1. Front(dotted) = Take(dotted, Len(dotted) - Len(<<Dot>>))
      <4>1. Len(dotted) - 1 = Len(start) /\ Len(start) \in Nat
        BY <2>4
      <4>2. Min({Len(start), Len(dotted)}) = Len(start)
        <5>1. {Len(start), Len(dotted)} \in SUBSET Nat
          BY <2>4
        <5>2. /\ Min({Len(start), Len(dotted)}) \in {Len(start), Len(dotted)}
              /\ Min({Len(start), Len(dotted)}) <= Len(start)
          BY <5>1, Least
        <5>3. QED
          BY <2>4, <4>1, <5>2
      <4>3. QED
        BY <2>2, <4>1, <4>2 DEF Front, Take
    <3>2. QED
      BY <2>2, <3>1, Kept
  <2> HIDE DEF dotted
  <2>6. HasSuffix(address)
    BY <1>5, <2>4, SuffixFound
  <2>7. Take(address, Len(address) - Len(Suffix)) = dotted
    BY <1>1, <2>4, Kept
  <2> HIDE DEF address
  <2>8. dotted # << >> /\ Last(dotted) = Dot
    <3>1. Len(start) \in Nat
      OBVIOUS
    <3>2. QED
      BY <2>4, <3>1 DEF Last
  <2>9. QED
    BY <2>3, <2>5, <2>6, <2>7, <2>8 DEF StripSuffix
<1>6. QED
  BY <1>3, <1>4, <1>5

LEMMA TextAppended ==
  ASSUME NEW s \in Seq(Nat), NEW t \in Seq(Nat)
  PROVE  /\ s \o t \in Seq(Nat) /\ Len(s \o t) = Len(s) + Len(t)
         /\ \A i \in 1..Len(s) : (s \o t)[i] = s[i]
         /\ \A i \in 1..Len(t) : (s \o t)[Len(s) + i] = t[i]
OBVIOUS

LEMMA TextAfter ==
  ASSUME NEW s \in Seq(Nat), NEW n \in Nat, n <= Len(s)
  PROVE  /\ After(s, n) \in Seq(Nat) /\ Len(After(s, n)) = Len(s) - n
         /\ \A i \in 1..(Len(s) - n) : After(s, n)[i] = s[n + i]
BY Cut

\* An address with the passphrase shows it, and what follows is what was put there.
LEMMA PassphraseShown ==
  ASSUME NEW body \in Seq(Nat)
  PROVE  Authentic(AuthPrefix \o body) /\ Remainder(AuthPrefix \o body) = body
<1> DEFINE a == AuthPrefix
           n == Len(a)
           bare == a \o body
<1>1. a \in Seq(Nat) /\ n \in Nat
  BY Surroundings
<1> HIDE DEF a
<1>2. /\ bare \in Seq(Nat) /\ Len(bare) = n + Len(body)
      /\ \A i \in 1..n : bare[i] = a[i]
      /\ \A i \in 1..Len(body) : bare[n + i] = body[i]
  BY <1>1, TextAppended
<1> HIDE DEF bare
<1>3. Len(body) \in Nat
  OBVIOUS
<1>4. IsPrefix(a, bare)
  <2> DEFINE first == SubSeq(bare, 1, n)
             same == SubSeq(a, 1, n)
  <2>1. first \in Seq(Nat) /\ Len(first) = n /\ \A i \in 1..n : first[i] = bare[i]
    BY <1>1, <1>2, <1>3
  <2>2. same \in Seq(Nat) /\ Len(same) = n /\ \A i \in 1..n : same[i] = a[i]
    BY <1>1
  <2> HIDE DEF first, same
  <2>3. same = first
    <3>1. \A i \in 1..Len(first) : same[i] = first[i]
      BY <1>2, <2>1, <2>2
    <3>2. QED
      BY <2>1, <2>2, <3>1, SameSequence
  <2>4. n <= Len(bare)
    BY <1>1, <1>2, <1>3
  <2>5. QED
    BY <2>3, <2>4 DEF IsPrefix, first, same
<1>5. After(bare, n) = body
  <2> DEFINE rest == After(bare, n)
  <2>1. n <= Len(bare) /\ Len(bare) - n = Len(body)
    BY <1>1, <1>2, <1>3
  <2>2. rest \in Seq(Nat) /\ Len(rest) = Len(body) /\ \A i \in 1..Len(body) : rest[i] = bare[n + i]
    <3>1. bare \in Seq(Nat) /\ n \in Nat /\ n <= Len(bare)
      BY <1>1, <1>2, <2>1
    <3>2. /\ After(bare, n) \in Seq(Nat) /\ Len(After(bare, n)) = Len(bare) - n
          /\ \A i \in 1..(Len(bare) - n) : After(bare, n)[i] = bare[n + i]
      BY <3>1, TextAfter
    <3>3. QED
      BY <2>1, <3>2
  <2> HIDE DEF rest
  <2>3. \A i \in 1..Len(body) : rest[i] = body[i]
    BY <1>2, <2>2
  <2>4. rest = body
    BY <2>2, <2>3, SameSequence
  <2>5. QED
    BY <2>4 DEF rest
<1>6. QED
  BY <1>4, <1>5 DEF Authentic, Remainder, bare, a

\* A piece and what marks it.
Marked(nonce, chunks) == FragmentMarker \o nonce \o <<Dot>> \o chunks

LEMMA MarkedParts ==
  ASSUME NEW nonce \in Seq(Nat), Len(nonce) = NonceLength, NEW chunks \in Seq(Nat)
  PROVE  LET rest == Marked(nonce, chunks)
         IN  /\ rest \in Seq(Nat) /\ Len(rest) = 7 + Len(chunks)
             /\ rest[1] = FragmentMarker[1] /\ rest[2] = FragmentMarker[2] /\ rest[7] = Dot
             /\ \A i \in 1..4 : rest[2 + i] = nonce[i]
             /\ \A i \in 1..Len(chunks) : rest[7 + i] = chunks[i]
<1> DEFINE a == FragmentMarker
           d == <<Dot>>
           b == a \o nonce
           c == b \o d
           rest == c \o chunks
<1>1. a \in Seq(Nat) /\ Len(a) = 2 /\ Len(nonce) = 4 /\ Len(chunks) \in Nat
  BY Surroundings DEF NonceLength
<1>2. d \in Seq(Nat) /\ Len(d) = 1 /\ d[1] = Dot
  BY DEF Dot
<1> HIDE DEF a, d
<1>3. /\ b \in Seq(Nat) /\ Len(b) = 6 /\ b[1] = a[1] /\ b[2] = a[2]
      /\ \A i \in 1..4 : b[2 + i] = nonce[i]
  <2>1. a \in Seq(Nat) /\ nonce \in Seq(Nat)
    BY <1>1
  <2>2. /\ b \in Seq(Nat) /\ Len(b) = Len(a) + Len(nonce)
        /\ \A i \in 1..Len(a) : b[i] = a[i]
        /\ \A i \in 1..Len(nonce) : b[Len(a) + i] = nonce[i]
    BY <2>1, TextAppended
  <2> HIDE DEF b
  <2>3. 1 \in 1..Len(a) /\ 2 \in 1..Len(a)
    BY <1>1
  <2>4. QED
    BY <1>1, <2>2, <2>3
<1> HIDE DEF b
<1>4. /\ c \in Seq(Nat) /\ Len(c) = 7 /\ c[7] = Dot
      /\ \A i \in 1..6 : c[i] = b[i]
  <2>1. /\ c \in Seq(Nat) /\ Len(c) = Len(b) + Len(d)
        /\ \A i \in 1..Len(b) : c[i] = b[i]
        /\ \A i \in 1..Len(d) : c[Len(b) + i] = d[i]
    <3>1. b \in Seq(Nat) /\ d \in Seq(Nat)
      BY <1>2, <1>3
    <3>2. QED
      BY <3>1, TextAppended
  <2> HIDE DEF c
  <2>2. c[6 + 1] = d[1]
    BY <1>2, <1>3, <2>1
  <2>3. QED
    BY <1>2, <1>3, <2>1, <2>2
<1> HIDE DEF c
<1>5. /\ rest \in Seq(Nat) /\ Len(rest) = 7 + Len(chunks)
      /\ \A i \in 1..7 : rest[i] = c[i]
      /\ \A i \in 1..Len(chunks) : rest[7 + i] = chunks[i]
  <2>1. /\ rest \in Seq(Nat) /\ Len(rest) = Len(c) + Len(chunks)
        /\ \A i \in 1..Len(c) : rest[i] = c[i]
        /\ \A i \in 1..Len(chunks) : rest[Len(c) + i] = chunks[i]
    <3>1. c \in Seq(Nat) /\ chunks \in Seq(Nat)
      BY <1>4
    <3>2. QED
      BY <3>1, TextAppended
  <2> HIDE DEF rest
  <2>2. QED
    BY <1>4, <2>1
<1> HIDE DEF rest
<1>6. \A i \in 1..4 : rest[2 + i] = nonce[i]
  <2>1. \A i \in 1..4 : 2 + i \in 1..6 /\ 2 + i \in 1..7
    OBVIOUS
  <2>2. QED
    BY <1>3, <1>4, <1>5, <2>1
<1>7. rest[1] = a[1] /\ rest[2] = a[2] /\ rest[7] = Dot
  <2>1. /\ 1 \in 1..7 /\ 2 \in 1..7 /\ 7 \in 1..7 /\ 1 \in 1..6 /\ 2 \in 1..6
    OBVIOUS
  <2>2. rest[1] = c[1] /\ rest[2] = c[2] /\ rest[7] = c[7]
    BY <1>5, <2>1
  <2>3. c[1] = b[1] /\ c[2] = b[2]
    BY <1>4, <2>1
  <2>4. QED
    BY <1>3, <1>4, <2>2, <2>3
<1>8. QED
  BY <1>5, <1>6, <1>7 DEF rest, c, b, a, d, Marked

\* The server takes a piece for a piece, and finds it.
LEMMA PieceRecognised ==
  ASSUME NEW nonce \in Seq(Nat), Len(nonce) = NonceLength, \A i \in 1..Len(nonce) : nonce[i] # Dot,
         NEW chunks \in Seq(Nat), NEW n \in 2..MaxFragmentPieces, NEW i \in 1..n
  PROVE  /\ IsFragment(Marked(nonce, chunks), 256 * i + n)
         /\ (256 * i + n) \div 256 = i /\ (256 * i + n) % 256 = n
         /\ PieceOf(Marked(nonce, chunks)) = Joined(chunks)
<1> DEFINE rest == Marked(nonce, chunks)
           a == FragmentMarker
           port == 256 * i + n
<1>1. /\ rest \in Seq(Nat) /\ Len(rest) = 7 + Len(chunks)
      /\ rest[1] = a[1] /\ rest[2] = a[2] /\ rest[7] = Dot
      /\ \A k \in 1..4 : rest[2 + k] = nonce[k]
      /\ \A k \in 1..Len(chunks) : rest[7 + k] = chunks[k]
  BY MarkedParts
<1>2. a \in Seq(Nat) /\ Len(a) = 2 /\ Len(nonce) = 4 /\ Len(chunks) \in Nat /\ NonceLength = 4
  BY Surroundings DEF NonceLength
<1> HIDE DEF rest, a
<1>3. MaxFragmentPieces \in 0..255
  BY QueryCodecAssumption DEF Byte
<1>4. port \div 256 = i /\ port % 256 = n
  <2>1. n \in 0..(256 - 1) /\ i \in Int /\ port \in Int /\ 256 \in Nat \ {0}
    BY <1>3
  <2> DEFINE b == 256
  <2>2. b \in Nat \ {0} /\ n \in 0..(b - 1) /\ i \in Int /\ port \in Int /\ port = i * b + n
    BY <2>1
  <2> HIDE DEF port, b
  <2>3. port \div b = i /\ port % b = n
    BY <2>2, Divided
  <2>4. QED
    BY <2>3 DEF b
<1> HIDE DEF port
<1>5. IsPrefix(a, rest)
  <2> DEFINE first == SubSeq(rest, 1, 2)
             same == SubSeq(a, 1, 2)
  <2>1. first \in Seq(Nat) /\ Len(first) = 2 /\ first[1] = rest[1] /\ first[2] = rest[2]
    <3>1. rest \in Seq(Nat) /\ 2 \in 0..Len(rest)
      BY <1>1, <1>2
    <3>2. Len(first) = 2 /\ first \in Seq(Nat) /\ \A k \in 1..2 : first[k] = rest[k]
      BY <3>1
    <3>3. 1 \in 1..2 /\ 2 \in 1..2
      OBVIOUS
    <3>4. QED
      BY <3>2, <3>3
  <2>2. same \in Seq(Nat) /\ Len(same) = 2 /\ same[1] = a[1] /\ same[2] = a[2]
    <3>1. a \in Seq(Nat) /\ 2 \in 0..Len(a)
      BY <1>2
    <3>2. Len(same) = 2 /\ same \in Seq(Nat) /\ \A k \in 1..2 : same[k] = a[k]
      BY <3>1
    <3>3. 1 \in 1..2 /\ 2 \in 1..2
      OBVIOUS
    <3>4. QED
      BY <3>2, <3>3
  <2> HIDE DEF first, same
  <2>3. \A k \in 1..Len(first) : same[k] = first[k]
    <3>1. \A k \in 1..2 : k = 1 \/ k = 2
      OBVIOUS
    <3>2. same[1] = first[1] /\ same[2] = first[2]
      BY <1>1, <2>1, <2>2
    <3>3. QED
      BY <2>1, <3>1, <3>2
  <2>4. same \in Seq(Nat) /\ first \in Seq(Nat) /\ Len(same) = Len(first)
    BY <2>1, <2>2
  <2>5. same = first
    BY <2>3, <2>4, SameSequence
  <2>6. QED
    BY <1>1, <1>2, <2>5 DEF IsPrefix, first, same
<1>6. \A k \in DOMAIN SubSeq(rest, 3, 2 + NonceLength) : SubSeq(rest, 3, 2 + NonceLength)[k] # Dot
  <2> DEFINE found == SubSeq(rest, 3, 6)
  <2>1. 2 \in Nat /\ 6 \in Nat /\ 6 <= Len(rest)
    BY <1>1, <1>2
  <2>2. /\ SubSeq(rest, 2 + 1, 6) \in Seq(Nat) /\ Len(SubSeq(rest, 2 + 1, 6)) = 6 - 2
        /\ \A k \in 1..(6 - 2) : SubSeq(rest, 2 + 1, 6)[k] = rest[2 + k]
    <3> DEFINE m == 2
               p == 6
    <3>1. rest \in Seq(Nat) /\ m \in Nat /\ p \in Nat /\ m <= p /\ p <= Len(rest)
      BY <1>1, <2>1
    <3> HIDE DEF m, p
    <3>2. /\ SubSeq(rest, m + 1, p) \in Seq(Nat) /\ Len(SubSeq(rest, m + 1, p)) = p - m
          /\ \A k \in 1..(p - m) : SubSeq(rest, m + 1, p)[k] = rest[m + k]
      BY <3>1, Middle
    <3>3. QED
      BY <3>2 DEF m, p
  <2>3. found \in Seq(Nat) /\ Len(found) = 4 /\ \A k \in 1..4 : found[k] = rest[2 + k]
    BY <2>2
  <2> HIDE DEF found
  <2>4. \A k \in 1..4 : found[k] # Dot
    BY <1>1, <1>2, <2>3
  <2>5. DOMAIN found = 1..4
    BY <2>3
  <2>6. 2 + NonceLength = 6
    BY <1>2
  <2>7. QED
    BY <2>4, <2>5, <2>6 DEF found
<1>7. IsFragment(rest, port)
  <2>1. Len(rest) > 2 + NonceLength /\ rest[3 + NonceLength] = Dot
    BY <1>1, <1>2
  <2>2. port \div 256 \in 1..(port % 256) /\ port % 256 \in 2..MaxFragmentPieces
    BY <1>4
  <2>3. QED
    BY <1>5, <1>6, <2>1, <2>2 DEF IsFragment, a
<1>8. After(rest, 3 + NonceLength) = chunks
  <2> DEFINE s == After(rest, 7)
  <2>1. 7 <= Len(rest) /\ Len(rest) - 7 = Len(chunks)
    BY <1>1, <1>2
  <2>2. s \in Seq(Nat) /\ Len(s) = Len(chunks) /\ \A k \in 1..Len(chunks) : s[k] = rest[7 + k]
    <3> DEFINE m == 7
    <3>1. rest \in Seq(Nat) /\ m \in Nat /\ m <= Len(rest)
      BY <1>1, <2>1
    <3> HIDE DEF m
    <3>2. /\ After(rest, m) \in Seq(Nat) /\ Len(After(rest, m)) = Len(rest) - m
          /\ \A k \in 1..(Len(rest) - m) : After(rest, m)[k] = rest[m + k]
      BY <3>1, TextAfter
    <3>3. QED
      BY <2>1, <3>2 DEF m
  <2> HIDE DEF s
  <2>3. \A k \in 1..Len(chunks) : s[k] = chunks[k]
    BY <1>1, <2>2
  <2>4. s = chunks
    BY <2>2, <2>3, SameSequence
  <2>5. 3 + NonceLength = 7
    BY <1>2
  <2>6. QED
    BY <2>4, <2>5 DEF s
<1>9. PieceOf(rest) = Joined(chunks)
  BY <1>8 DEF PieceOf
<1>10. QED
  BY <1>4, <1>7, <1>9 DEF rest, port

-----------------------------------------------------------------------------
(* A handshake read *)

\* What follows the first of two texts is the second.
LEMMA Rest ==
  ASSUME NEW s \in Seq(Nat), NEW t \in Seq(Nat)
  PROVE  After(s \o t, Len(s)) = t
<1> DEFINE a == s \o t
           n == Len(s)
           b == After(a, n)
<1>1. n \in Nat /\ Len(t) \in Nat
  OBVIOUS
<1>2. a \in Seq(Nat) /\ Len(a) = n + Len(t) /\ \A i \in 1..Len(t) : a[n + i] = t[i]
  BY TextAppended
<1> HIDE DEF a, n
<1>3. n <= Len(a) /\ Len(a) - n = Len(t)
  BY <1>1, <1>2
<1>4. /\ b \in Seq(Nat) /\ Len(b) = Len(a) - n
      /\ \A i \in 1..(Len(a) - n) : b[i] = a[n + i]
  BY <1>1, <1>2, <1>3, TextAfter
<1> HIDE DEF b
<1>5. \A i \in 1..Len(t) : b[i] = t[i]
  BY <1>2, <1>3, <1>4
<1>6. b = t
  BY <1>3, <1>4, <1>5, SameSequence
<1>7. QED
  BY <1>6 DEF b, a, n

\* What comes after two parts of a text.
LEMMA AfterTwice ==
  ASSUME NEW s \in Seq(Nat), NEW m \in Nat, NEW n \in Nat
  PROVE  After(s, m + n) = After(After(s, m), n)
<1> DEFINE a == After(s, m + n)
           b == After(s, m)
           c == After(b, n)
           l == Len(s)
<1>1. l \in Nat /\ m + n \in Nat
  OBVIOUS
<1>2. /\ a \in Seq(Nat) /\ Len(a) = IF m + n <= l THEN l - (m + n) ELSE 0
      /\ \A i \in 1..(l - (m + n)) : a[i] = s[m + n + i]
  BY <1>1, Cut
<1>3. /\ b \in Seq(Nat) /\ Len(b) = IF m <= l THEN l - m ELSE 0
      /\ \A i \in 1..(l - m) : b[i] = s[m + i]
  BY <1>1, Cut
<1> HIDE DEF b
<1>4. /\ c \in Seq(Nat) /\ Len(c) = IF n <= Len(b) THEN Len(b) - n ELSE 0
      /\ \A i \in 1..(Len(b) - n) : c[i] = b[n + i]
  BY <1>3, Cut
<1> HIDE DEF a, c, l
<1>5. Len(a) = Len(c)
  BY <1>1, <1>2, <1>3, <1>4
<1>6. ASSUME NEW i \in 1..Len(c) PROVE a[i] = c[i]
  <2>1. i \in 1..(l - (m + n)) /\ i \in 1..(Len(b) - n) /\ n + i \in 1..(l - m)
    BY <1>1, <1>3, <1>4
  <2>2. m + (n + i) = m + n + i
    BY <2>1
  <2>3. a[i] = s[m + n + i] /\ c[i] = b[n + i] /\ b[n + i] = s[m + (n + i)]
    BY <1>2, <1>3, <1>4, <2>1
  <2>4. QED
    BY <2>2, <2>3
<1>7. a = c
  BY <1>2, <1>4, <1>5, <1>6, SameSequence
<1>8. QED
  BY <1>7 DEF a, c, b

\* A number before something else is read.
LEMMA NumberAhead ==
  ASSUME NEW n \in Small, NEW t \in Seq(Nat)
  PROVE  /\ WriteVarInt(n) \in Seq(Nat) /\ Len(WriteVarInt(n)) \in Nat
         /\ ReadVarInt(WriteVarInt(n) \o t) = Ok(n, Len(WriteVarInt(n)))
         /\ After(WriteVarInt(n) \o t, Len(WriteVarInt(n))) = t
<1> DEFINE w == WriteVarInt(n)
           a == w \o t
<1>1. w \in Seq(Nat) /\ Len(w) \in Nat
  BY VarIntLength
<1>2. After(a, Len(w)) = t
  <2> HIDE DEF w
  <2>1. QED
    BY <1>1, Rest
<1>3. /\ a \in Seq(Nat) /\ Len(a) = Len(w) + Len(t)
      /\ \A i \in 1..Len(w) : a[i] = w[i]
  <2> HIDE DEF w
  <2>1. QED
    BY <1>1, TextAppended
<1>4. Len(a) >= Len(w)
  BY <1>1, <1>3
<1> HIDE DEF a
<1>5. ReadVarInt(a) = Ok(n, Len(w))
  <2>1. \A i \in 1..Len(w) : i <= Len(a) => a[i] = w[i]
    BY <1>3
  <2>2. QED
    BY <1>3, <1>4, <2>1, VarIntRead
<1>6. QED
  BY <1>1, <1>2, <1>5 DEF a

\* An address in a handshake is read, or refused for its length.
LEMMA StringAhead ==
  ASSUME NEW word \in Seq(Nat), Len(word) \in Small, NEW t \in Seq(Nat)
  PROVE  LET bytes == WriteVarInt(Len(word)) \o (word \o t)
             size == Len(WriteVarInt(Len(word))) + Len(word)
         IN  /\ ReadString(bytes) = Bad \/ ReadString(bytes) = Ok(word, size)
             /\ size \in Nat
             /\ After(bytes, size) = t
<1> DEFINE n == Len(word)
           w == WriteVarInt(n)
           rest == word \o t
           bytes == w \o rest
           size == Len(w) + n
<1>1. n \in Nat /\ n \in Small /\ Len(t) \in Nat
  OBVIOUS
<1>2. /\ rest \in Seq(Nat) /\ Len(rest) = n + Len(t)
      /\ \A i \in 1..n : rest[i] = word[i]
  BY TextAppended
<1> HIDE DEF rest
<1>3. /\ w \in Seq(Nat) /\ Len(w) \in Nat
      /\ ReadVarInt(bytes) = Ok(n, Len(w)) /\ After(bytes, Len(w)) = rest
  <2> HIDE DEF n
  <2>1. QED
    BY <1>1, <1>2, NumberAhead
<1>4. Take(rest, n) = word
  <2> DEFINE b == Take(rest, n)
  <2>1. n <= Len(rest)
    BY <1>1, <1>2
  <2>2. b \in Seq(Nat) /\ Len(b) = n /\ \A i \in 1..Len(b) : b[i] = rest[i]
    BY <1>1, <1>2, <2>1, Cut
  <2> HIDE DEF b
  <2>3. \A i \in 1..Len(word) : b[i] = word[i]
    BY <1>2, <2>2
  <2>4. b = word
    BY <2>2, <2>3, SameSequence
  <2>5. QED
    BY <2>4 DEF b
<1>5. size \in Nat
  BY <1>1, <1>3
<1>6. /\ w \o rest = (w \o word) \o t
      /\ w \o word \in Seq(Nat) /\ Len(w \o word) = size
  <2> HIDE DEF w
  <2>1. w \in Seq(Nat)
    BY <1>3
  <2>2. (w \o word) \o t = w \o (word \o t)
    BY <2>1, JoinedInTurn
  <2>3. w \o word \in Seq(Nat) /\ Len(w \o word) = Len(w) + Len(word)
    BY <2>1, TextAppended
  <2>4. QED
    BY <2>2, <2>3 DEF rest
<1>7. After(bytes, size) = t
  <2> DEFINE s == w \o word
  <2>1. s \in Seq(Nat) /\ Len(s) = size /\ bytes = s \o t
    BY <1>6
  <2> HIDE DEF s, bytes, size
  <2>2. After(s \o t, Len(s)) = t
    BY <2>1, Rest
  <2>3. QED
    BY <2>1, <2>2
<1>8. ReadString(bytes) = Bad \/ ReadString(bytes) = Ok(word, size)
  <2>1. Len(bytes) = Len(w) + Len(rest)
    <3> HIDE DEF w
    <3>1. w \in Seq(Nat) /\ rest \in Seq(Nat)
      BY <1>2, <1>3
    <3>2. QED
      BY <3>1, TextAppended
  <2>2. ~(Len(bytes) < Len(w) + n)
    BY <1>1, <1>2, <1>3, <2>1
  <2> HIDE DEF bytes
  <2> DEFINE length == ReadVarInt(bytes)
  <2>3. length.status = "ok" /\ length.value = n /\ length.size = Len(w)
    BY <1>3 DEF Ok
  <2>4. After(bytes, length.size) = rest
    BY <1>3, <2>3
  <2> HIDE DEF length
  <2>5. ReadString(bytes) = IF n > MaxString THEN Bad ELSE Ok(Take(rest, n), size)
    BY <2>2, <2>3, <2>4 DEF ReadString, length
  <2>6. QED
    BY <1>4, <2>5
<1>9. QED
  BY <1>5, <1>7, <1>8 DEF bytes, size, rest

(* A handshake that ParseHandshake accepts is the one that was sent: its address, *)
(* its port and the state it asks for.                                            *)
THEOREM HandshakeRead ==
  ASSUME NEW visit \in Visit, ParseHandshake(EncodeHandshake(visit)).status = "ok"
  PROVE  ParseHandshake(EncodeHandshake(visit)).value = visit
<1> DEFINE address == visit.address
           version == WriteVarInt(Protocol)
           head == WriteVarInt(Len(address))
           high == visit.port \div 256
           low == visit.port % 256
           port == <<high, low>>
           state == WriteVarInt(visit.nextState)
           c == port \o state
           b == head \o (address \o c)
           payload == version \o b
           size == Len(head) + Len(address)
<1>1. /\ visit \in [address : Seq(Nat), port : Nat, nextState : Nat]
      /\ address \in Seq(Nat) /\ visit.port \in Nat
      /\ Len(address) \in Small /\ visit.nextState \in Small /\ Protocol \in Small
  <2>1. /\ visit \in [address : Seq(Nat), port : Nat, nextState : Nat]
        /\ Len(visit.address) <= 8 * Endless /\ visit.nextState < Endless
    BY DEF Visit
  <2>2. visit.address \in Seq(Nat) /\ visit.nextState \in Nat /\ visit.port \in Nat
    BY <2>1
  <2>3. Len(visit.address) \in Nat
    BY <2>2
  <2>4. Endless \in Nat /\ 8 * Endless < 128 * 128 * 128 /\ Endless < 128 * 128 * 128
    BY EndlessLength
  <2> DEFINE l == Len(visit.address)
  <2>5. l \in Small
    <3> HIDE DEF l
    <3>1. l \in Nat /\ l <= 8 * Endless
      BY <2>1, <2>3 DEF l
    <3>2. QED
      BY <2>4, <3>1 DEF Small
  <2>6. visit.nextState \in Small
    BY <2>1, <2>2, <2>4 DEF Small
  <2>7. Protocol \in Small
    BY DEF Protocol, Small
  <2>8. QED
    BY <2>1, <2>2, <2>5, <2>6, <2>7
<1>2. high \in Nat /\ low \in Nat /\ 256 * high + low = visit.port
  BY <1>1
<1> HIDE DEF high, low
<1>3. version \in Seq(Nat) /\ head \in Seq(Nat) /\ state \in Seq(Nat)
  BY <1>1, VarIntLength
<1>4. port \in Seq(Nat) /\ Len(port) = 2 /\ port[1] = high /\ port[2] = low
  BY <1>2
<1>5. EncodeHandshake(visit) = payload
  <2>1. EncodeHandshake(visit) = ((version \o (head \o address)) \o port) \o state
    BY DEF EncodeHandshake, WriteString, port, high, low
  <2> HIDE DEF version, head, state, port, address
  <2> DEFINE x == head \o address
             y == version \o x
  <2>2. x \in Seq(Nat)
    BY <1>1, <1>3, TextAppended
  <2> HIDE DEF x
  <2>3. y \in Seq(Nat)
    BY <1>3, <2>2, TextAppended
  <2> HIDE DEF y
  <2>4. (y \o port) \o state = y \o c
    BY <1>3, <1>4, <2>3, JoinedInTurn
  <2>5. c \in Seq(Nat)
    BY <1>3, <1>4, TextAppended
  <2> HIDE DEF c
  <2>6. (version \o x) \o c = version \o (x \o c)
    <3>1. version \in Seq(Nat) /\ x \in Seq(Nat) /\ c \in Seq(Nat)
      BY <1>3, <2>2, <2>5
    <3>2. QED
      BY <3>1, JoinedInTurn, Zenon
  <2>7. (head \o address) \o c = head \o (address \o c)
    <3>1. head \in Seq(Nat) /\ address \in Seq(Nat) /\ c \in Seq(Nat)
      BY <1>1, <1>3, <2>5
    <3>2. QED
      BY <3>1, JoinedInTurn, Zenon
  <2>8. QED
    BY <2>1, <2>4, <2>6, <2>7 DEF x, y
<1>6. c \in Seq(Nat) /\ Len(c) = 2 + Len(state) /\ c[1] = high /\ c[2] = low /\ After(c, 2) = state
  <2> HIDE DEF port, state
  <2>1. /\ c \in Seq(Nat) /\ Len(c) = Len(port) + Len(state)
        /\ \A i \in 1..Len(port) : c[i] = port[i]
    BY <1>3, <1>4, TextAppended
  <2>2. After(c, Len(port)) = state
    BY <1>3, <1>4, Rest
  <2> HIDE DEF c
  <2>3. 1 \in 1..Len(port) /\ 2 \in 1..Len(port)
    BY <1>4
  <2>4. QED
    BY <1>4, <2>1, <2>2, <2>3
<1> HIDE DEF c
<1>7. /\ ReadString(b) = Bad \/ ReadString(b) = Ok(address, size)
      /\ size \in Nat /\ After(b, size) = c
  <2> HIDE DEF address
  <2>1. QED
    BY <1>1, <1>6, StringAhead
<1>8. b \in Seq(Nat)
  <2> HIDE DEF head, address
  <2>1. address \o c \in Seq(Nat)
    BY <1>1, <1>6, TextAppended
  <2> DEFINE d == address \o c
  <2>2. d \in Seq(Nat)
    BY <2>1
  <2> HIDE DEF d
  <2>3. head \o d \in Seq(Nat)
    BY <1>3, <2>2, TextAppended
  <2>4. QED
    BY <2>3 DEF d
<1> HIDE DEF b, size
<1>9. /\ Len(version) \in Nat
      /\ ReadVarInt(payload) = Ok(Protocol, Len(version)) /\ After(payload, Len(version)) = b
  BY <1>1, <1>8, NumberAhead
<1>10. After(payload, Len(version) + size) = c
  <2>1. payload \in Seq(Nat) /\ After(payload, Len(version)) = b
    <3> HIDE DEF version
    <3>1. QED
      BY <1>3, <1>8, <1>9, TextAppended
  <2> HIDE DEF payload, version
  <2>2. After(payload, Len(version) + size) = After(After(payload, Len(version)), size)
    BY <1>7, <1>9, <2>1, AfterTwice
  <2>3. QED
    BY <1>7, <2>1, <2>2
<1>11. ReadVarInt(state) = Ok(visit.nextState, Len(state))
  <2> DEFINE n == visit.nextState
             w == WriteVarInt(n)
  <2>1. n \in Small /\ w \in Seq(Nat) /\ Len(w) >= Len(w) /\ \A i \in 1..Len(w) : i <= Len(w) => w[i] = w[i]
    BY <1>1, <1>3
  <2> HIDE DEF n
  <2>2. ReadVarInt(w) = Ok(n, Len(w))
    BY <2>1, VarIntRead
  <2>3. QED
    BY <2>2 DEF n
<1> HIDE DEF payload, state, version
<1> DEFINE first == ReadVarInt(payload)
           second == ReadString(After(payload, first.size))
           rest == After(payload, first.size + second.size)
           next == ReadVarInt(After(rest, 2))
           accepted == /\ first.status = "ok" /\ second.status = "ok"
                       /\ Len(rest) >= 2 /\ next.status = "ok"
<1>12. ParseHandshake(payload) =
         IF accepted
           THEN Ok([address |-> second.value, port |-> 256 * rest[1] + rest[2],
                    nextState |-> next.value], Len(payload))
           ELSE Bad
  BY DEF ParseHandshake
<1>13. ParseHandshake(payload).status = "ok"
  BY <1>5
<1>14. accepted
  <2> HIDE DEF accepted
  <2>1. QED
    BY <1>12, <1>13 DEF Bad
<1>15. first.size = Len(version)
  BY <1>9 DEF Ok
<1>16. second = ReadString(b)
  BY <1>9, <1>15
<1>17. second = Ok(address, size)
  BY <1>7, <1>14, <1>16 DEF Bad
<1>18. second.value = address /\ second.size = size
  BY <1>17 DEF Ok
<1> HIDE DEF second
<1>19. rest = c
  BY <1>10, <1>15, <1>18
<1>20. rest[1] = high /\ rest[2] = low /\ next = ReadVarInt(state)
  BY <1>6, <1>19
<1> HIDE DEF rest
<1>21. next.value = visit.nextState
  BY <1>11, <1>20 DEF Ok
<1> HIDE DEF next, first
<1>22. ParseHandshake(payload).value =
         [address |-> address, port |-> 256 * high + low, nextState |-> visit.nextState]
  <2> HIDE DEF accepted
  <2>1. QED
    BY <1>12, <1>14, <1>18, <1>20, <1>21 DEF Ok
<1>23. visit = [address |-> address, port |-> 256 * high + low, nextState |-> visit.nextState]
  BY <1>1, <1>2
<1>24. QED
  BY <1>5, <1>22, <1>23

-----------------------------------------------------------------------------
(* The pieces of a word *)

\* The beginning of a text and what comes next are a longer beginning.
LEMMA LongerBy ==
  ASSUME NEW s \in Seq(Nat), NEW m \in Nat, NEW n \in Nat, m <= n, n <= Len(s)
  PROVE  SubSeq(s, 1, m) \o SubSeq(s, m + 1, n) = SubSeq(s, 1, n)
<1> DEFINE a == SubSeq(s, 1, m)
           b == SubSeq(s, m + 1, n)
           c == SubSeq(s, 1, n)
           d == a \o b
<1>1. Len(s) \in Nat /\ m \in 0..Len(s) /\ n \in 0..Len(s)
  OBVIOUS
<1>2. a \in Seq(Nat) /\ Len(a) = m /\ \A i \in 1..m : a[i] = s[i]
  BY <1>1
<1>3. c \in Seq(Nat) /\ Len(c) = n /\ \A i \in 1..n : c[i] = s[i]
  BY <1>1
<1>4. b \in Seq(Nat) /\ Len(b) = n - m /\ \A i \in 1..(n - m) : b[i] = s[m + i]
  BY Middle
<1> HIDE DEF a, b, c
<1>5. /\ d \in Seq(Nat) /\ Len(d) = Len(a) + Len(b)
      /\ \A i \in 1..Len(a) : d[i] = a[i]
      /\ \A i \in 1..Len(b) : d[Len(a) + i] = b[i]
  BY <1>2, <1>4, TextAppended
<1> HIDE DEF d
<1>6. ASSUME NEW i \in 1..Len(c) PROVE d[i] = c[i]
  <2>1. CASE i <= m
    <3>1. i \in 1..m /\ i \in 1..n
      BY <1>3, <2>1
    <3>2. QED
      BY <1>2, <1>3, <1>5, <3>1
  <2>2. CASE i > m
    <3> DEFINE j == i - m
    <3>1. j \in 1..(n - m) /\ i = m + j /\ i \in 1..n
      BY <1>3, <2>2
    <3> HIDE DEF j
    <3>2. d[m + j] = b[j] /\ b[j] = s[m + j]
      BY <1>2, <1>4, <1>5, <3>1
    <3>3. QED
      BY <1>3, <3>1, <3>2
  <2>3. QED
    BY <1>3, <2>1, <2>2
<1>7. Len(d) = Len(c)
  BY <1>2, <1>3, <1>4, <1>5
<1>8. d = c
  BY <1>3, <1>5, <1>6, <1>7, SameSequence
<1>9. QED
  BY <1>8 DEF d, a, b, c

\* What the first pieces of a text are, joined.
FirstPieces(word, length, i) == SubSeq(word, 1, Min({i * length, Len(word)}))

LEMMA PiecesPut ==
  ASSUME NEW word \in Seq(Nat), NEW length \in Nat \ {0}
  PROVE  LET pieces == Pieces(word, length)
             n == Len(pieces)
         IN  /\ n \in Nat
             /\ n * length >= Len(word) /\ (Len(word) # 0 => n # 0)
             /\ FirstPieces(word, length, 0) = << >>
             /\ FirstPieces(word, length, n) = word
             /\ \A i \in 1..n :
                  /\ FirstPieces(word, length, i - 1) \o pieces[i] = FirstPieces(word, length, i)
                  /\ pieces[i] \in Seq(Nat) /\ Len(pieces[i]) # 0
                  /\ \A x \in 1..Len(pieces[i]) : \E y \in 1..Len(word) : pieces[i][x] = word[y]
<1> DEFINE l == Len(word)
           n == (l + length - 1) \div length
           least(i) == Min({i * length, l})
           pieces == Pieces(word, length)
<1>1. l \in Nat
  OBVIOUS
<1>2. n \in Nat /\ n * length <= l + length - 1 /\ l <= n * length
  <2> DEFINE a == l + length - 1
             r == a % length
  <2>1. a \in Nat /\ a = l + length - 1
    BY <1>1
  <2> HIDE DEF a, l
  <2>2. n \in Int /\ r \in 0..(length - 1) /\ a = length * n + r
    BY <2>1 DEF l, a
  <2> HIDE DEF n, r
  <2>3. length * n = n * length
    BY <2>2
  <2> DEFINE p == n * length
  <2>4. p \in Int /\ a = p + r
    BY <2>2, <2>3
  <2>5. p >= 0 /\ p <= l + length - 1 /\ l <= p
    <3> HIDE DEF p
    <3>1. length \in Nat /\ length >= 1 /\ l \in Nat /\ r \in Int /\ r >= 0 /\ r <= length - 1
      BY <1>1, <2>2
    <3>2. p <= l + length - 1 /\ l <= p
      BY <2>1, <2>4, <3>1
    <3>3. QED
      BY <2>4, <3>1, <3>2
  <2>6. n \in Nat
    <3>1. CASE n < 0
      <4> DEFINE m == -n
      <4>1. m \in Nat /\ m >= 1 /\ n = -m
        BY <2>2, <3>1
      <4> HIDE DEF m
      <4>2. n * length = -(m * length) /\ m * length >= length
        <5> DEFINE k == m - 1
        <5>1. k \in Nat /\ m = k + 1
          BY <4>1
        <5> HIDE DEF k
        <5>2. (k + 1) * length = k * length + length /\ k * length \in Nat
          BY <5>1
        <5>3. (-m) * length = -(m * length)
          BY <4>1
        <5>4. m * length = k * length + length
          BY <5>1, <5>2
        <5> DEFINE u == m * length
                   v == k * length
        <5>5. u = v + length /\ v \in Nat
          BY <5>2, <5>4
        <5> HIDE DEF u, v
        <5>6. u >= length
          BY <5>5
        <5>7. QED
          BY <4>1, <5>3, <5>6 DEF u
      <4>3. length \in Nat /\ length >= 1 /\ m * length \in Int
        BY <4>1
      <4>4. p < 0
        <5> DEFINE u == m * length
        <5>1. p = -u /\ u >= length /\ u \in Int
          BY <4>2, <4>3
        <5> HIDE DEF u, p
        <5>2. QED
          BY <4>3, <5>1
      <4> HIDE DEF p
      <4>5. QED
        BY <2>4, <2>5, <4>4
    <3>2. QED
      BY <2>2, <3>1
  <2>7. QED
    BY <2>5, <2>6
<1>3. pieces = [i \in 1..n |-> SubSeq(word, (i - 1) * length + 1, least(i))]
  BY DEF Pieces
<1>4. \A i \in Nat : least(i) = IF i * length <= l THEN i * length ELSE l
  <2> SUFFICES ASSUME NEW i \in Nat
               PROVE  least(i) = IF i * length <= l THEN i * length ELSE l
    OBVIOUS
  <2> DEFINE a == i * length
  <2>1. a \in Nat
    OBVIOUS
  <2> HIDE DEF a, l
  <2>2. {a, l} \in SUBSET Nat
    BY <1>1, <2>1
  <2>3. Min({a, l}) \in {a, l} /\ Min({a, l}) <= a /\ Min({a, l}) <= l
    BY <2>2, Least
  <2>4. Min({a, l}) = IF a <= l THEN a ELSE l
    BY <1>1, <2>1, <2>3
  <2>5. QED
    BY <2>4 DEF a
<1> HIDE DEF n
<1>5. ASSUME NEW i \in 1..n
      PROVE  /\ least(i - 1) = (i - 1) * length /\ least(i) \in Nat
             /\ (i - 1) * length \in Nat /\ (i - 1) * length < least(i) /\ least(i) <= l
  <2> DEFINE a == (i - 1) * length
             c == i * length
             e == n * length
  <2>1. i \in Nat /\ i - 1 \in Nat /\ i <= n
    BY <1>2
  <2>2. a \in Nat /\ c \in Nat /\ e \in Nat /\ c = a + length
    BY <1>2, <2>1
  <2>3. c <= e
    <3>1. n - i \in Nat
      BY <1>2, <2>1
    <3> DEFINE m == n - i
    <3>2. m \in Nat /\ n = i + m
      BY <1>2, <2>1, <3>1
    <3> HIDE DEF m, e, c
    <3>3. (i + m) * length = i * length + m * length /\ m * length \in Nat
      BY <2>1, <3>2
    <3>4. e = c + m * length
      BY <3>2, <3>3 DEF e, c
    <3>5. QED
      BY <2>2, <3>3, <3>4
  <2>4. e <= l + length - 1
    BY <1>2
  <2>5. least(i - 1) = (IF a <= l THEN a ELSE l) /\ least(i) = (IF c <= l THEN c ELSE l)
    BY <1>4, <2>1
  <2> HIDE DEF a, c, e, least, l
  <2>6. a < l
    BY <1>1, <2>2, <2>3, <2>4
  <2>7. /\ least(i - 1) = a /\ least(i) \in Nat /\ a < least(i) /\ least(i) <= l
    BY <1>1, <2>2, <2>5, <2>6
  <2>8. QED
    BY <2>2, <2>7 DEF a
<1>6. Len(pieces) = n
  BY <1>2, <1>3
<1>7. ASSUME NEW i \in 1..n
      PROVE  /\ FirstPieces(word, length, i - 1) \o pieces[i] = FirstPieces(word, length, i)
             /\ pieces[i] \in Seq(Nat) /\ Len(pieces[i]) # 0
             /\ \A x \in 1..Len(pieces[i]) : \E y \in 1..Len(word) : pieces[i][x] = word[y]
  <2> DEFINE first == (i - 1) * length
             last == least(i)
             piece == SubSeq(word, first + 1, last)
  <2>1. pieces[i] = piece
    BY <1>3
  <2>2. /\ FirstPieces(word, length, i - 1) = SubSeq(word, 1, first)
        /\ FirstPieces(word, length, i) = SubSeq(word, 1, last)
    BY <1>5 DEF FirstPieces
  <2>3. first \in Nat /\ last \in Nat /\ first < last /\ last <= Len(word)
    BY <1>5
  <2> HIDE DEF first, last, pieces
  <2>4. SubSeq(word, 1, first) \o piece = SubSeq(word, 1, last)
    BY <2>3, LongerBy
  <2>5. piece \in Seq(Nat) /\ Len(piece) = last - first /\ \A x \in 1..(last - first) : piece[x] = word[first + x]
    BY <2>3, Middle
  <2> HIDE DEF piece
  <2>6. Len(piece) # 0
    BY <2>3, <2>5
  <2>7. \A x \in 1..Len(piece) : \E y \in 1..Len(word) : piece[x] = word[y]
    <3> SUFFICES ASSUME NEW x \in 1..Len(piece) PROVE \E y \in 1..Len(word) : piece[x] = word[y]
      OBVIOUS
    <3>1. x \in 1..(last - first) /\ first + x \in 1..Len(word)
      BY <1>1, <2>3, <2>5
    <3>2. QED
      BY <2>5, <3>1
  <2>8. QED
    BY <2>1, <2>2, <2>4, <2>5, <2>6, <2>7
<1>8. FirstPieces(word, length, 0) = << >>
  <2>1. least(0) = 0
    <3>1. 0 \in Nat /\ 0 * length = 0 /\ 0 <= l
      BY <1>1
    <3>2. least(0) = IF 0 * length <= l THEN 0 * length ELSE l
      BY <1>4, <3>1
    <3>3. QED
      BY <3>1, <3>2
  <2>2. FirstPieces(word, length, 0) = SubSeq(word, 1, 0)
    BY <2>1 DEF FirstPieces
  <2>3. QED
    BY <2>2
<1>9. FirstPieces(word, length, n) = word
  <2>1. least(n) = l
    <3> DEFINE e == n * length
    <3>1. e \in Nat /\ l <= e
      BY <1>2
    <3>2. least(n) = IF e <= l THEN e ELSE l
      BY <1>2, <1>4
    <3> HIDE DEF e, least, l
    <3>3. QED
      BY <1>1, <3>1, <3>2
  <2>2. FirstPieces(word, length, n) = SubSeq(word, 1, Len(word))
    BY <2>1 DEF FirstPieces
  <2>3. QED
    BY <2>2
<1>10. Len(word) # 0 => n # 0
  <2>1. n = 0 => n * length = 0
    OBVIOUS
  <2>2. QED
    BY <1>1, <1>2, <2>1
<1>11. QED
  BY <1>2, <1>6, <1>7, <1>8, <1>9, <1>10

\* What the server makes of an address: a query in one piece, or the next of n pieces.
Bare(visit) == StripSuffix(visit.address)

WholeIn(word, visit) ==
  Authentic(Bare(visit)) /\ Remainder(Bare(visit)) = word /\ ~IsFragment(word, visit.port)

PieceIn(word, n, i, visit) ==
  LET rest == Remainder(Bare(visit))
  IN  /\ Authentic(Bare(visit)) /\ IsFragment(rest, visit.port)
      /\ visit.port \div 256 = i /\ visit.port % 256 = n
      /\ FirstPieces(word, MaxPieceLength, i - 1) \o PieceOf(rest) = FirstPieces(word, MaxPieceLength, i)

\* The server finds the text in the address of a query that fits into one.
LEMMA WholeAddress ==
  ASSUME NEW word \in Seq(Nat), Len(word) # 0, \A i \in 1..Len(word) : word[i] # Dot,
         NEW visit, visit.address = AuthPrefix \o word \o SuffixWithDot
  PROVE  WholeIn(word, visit)
<1> DEFINE start == AuthPrefix \o word
           n == Len(AuthPrefix)
           l == Len(word)
<1>1. AuthPrefix \in Seq(Nat) /\ n \in Nat /\ l \in Nat \ {0}
  BY Surroundings
<1>2. start \in Seq(Nat) /\ Len(start) = n + l /\ \A i \in 1..l : start[n + i] = word[i]
  BY <1>1, TextAppended
<1>3. Authentic(start) /\ Remainder(start) = word
  BY PassphraseShown
<1> HIDE DEF start
<1>4. Len(start) # 0 /\ start[Len(start)] # Dot
  <2>1. l \in 1..l
    BY <1>1
  <2>2. start[n + l] = word[l] /\ word[l] # Dot
    BY <1>2, <2>1
  <2>3. QED
    BY <1>1, <1>2, <2>2
<1>5. Bare(visit) = start
  BY <1>2, <1>4, SuffixStripped DEF Bare, start
<1>6. ~IsFragment(word, visit.port)
  <2>1. SUFFICES ASSUME IsPrefix(FragmentMarker, word) PROVE FALSE
    BY DEF IsFragment
  <2> DEFINE f == FragmentMarker
  <2>2. f \in Seq(Nat) /\ Len(f) = 2 /\ f[2] = Dot
    BY Surroundings DEF FragmentMarker
  <2> HIDE DEF f
  <2>3. Len(f) <= Len(word) /\ SubSeq(f, 1, Len(f)) = SubSeq(word, 1, Len(f))
    BY <2>1, <2>2 DEF IsPrefix, f
  <2> DEFINE a == SubSeq(f, 1, 2)
             b == SubSeq(word, 1, 2)
  <2>4. 2 \in 1..2 /\ 2 \in 1..Len(word) /\ 2 <= Len(word)
    BY <2>2, <2>3
  <2>5. a[2] = f[2] /\ b[2] = word[2]
    BY <2>2, <2>4
  <2>6. a = b
    BY <2>2, <2>3
  <2> HIDE DEF a, b
  <2>7. word[2] = Dot
    BY <2>2, <2>5, <2>6
  <2>8. QED
    BY <2>4, <2>7
<1>7. QED
  BY <1>3, <1>5, <1>6 DEF WholeIn

\* The address of a piece, as what precedes its suffix.
LEMMA MarkedAddress ==
  ASSUME NEW nonce \in Seq(Nat), Len(nonce) = NonceLength, NEW chunks \in Seq(Nat)
  PROVE  AuthPrefix \o FragmentMarker \o nonce \o <<Dot>> \o chunks \o SuffixWithDot
           = (AuthPrefix \o Marked(nonce, chunks)) \o SuffixWithDot
<1> DEFINE a == AuthPrefix
           f == FragmentMarker
           d == <<Dot>>
           fn == f \o nonce
           fd == fn \o d
           fc == fd \o chunks
<1>1. a \in Seq(Nat) /\ f \in Seq(Nat) /\ d \in Seq(Nat)
  BY Surroundings DEF Dot
<1> HIDE DEF a, f, d
<1>2. fn \in Seq(Nat)
  BY <1>1, TextAppended
<1>3. (a \o f) \o nonce = a \o fn
  <2> HIDE DEF fn
  <2>1. (a \o f) \o nonce = a \o (f \o nonce)
    BY <1>1, JoinedInTurn, ZenonT(60)
  <2>2. QED
    BY <2>1 DEF fn
<1> HIDE DEF fn
<1>4. fd \in Seq(Nat)
  BY <1>1, <1>2, TextAppended
<1>5. (a \o fn) \o d = a \o fd
  <2> HIDE DEF fd
  <2>1. (a \o fn) \o d = a \o (fn \o d)
    BY <1>1, <1>2, JoinedInTurn, ZenonT(60)
  <2>2. QED
    BY <2>1 DEF fd
<1> HIDE DEF fd
<1>6. (a \o fd) \o chunks = a \o fc
  <2>1. a \in Seq(Nat) /\ fd \in Seq(Nat) /\ chunks \in Seq(Nat)
    BY <1>1, <1>4
  <2> HIDE DEF fc
  <2>2. (a \o fd) \o chunks = a \o (fd \o chunks)
    BY <2>1, JoinedInTurn, ZenonT(60)
  <2>3. QED
    BY <2>2 DEF fc
<1> HIDE DEF fc
<1>7. a \o f \o nonce \o d \o chunks \o SuffixWithDot = (a \o fc) \o SuffixWithDot
  BY <1>3, <1>5, <1>6
<1>8. QED
  BY <1>7 DEF a, f, d, fn, fd, fc, Marked

\* The server finds the next piece in the address it is sent in.
LEMMA PieceAddress ==
  ASSUME NEW word \in Seq(Nat), NEW piece \in Seq(Nat), Len(piece) # 0,
         \A x \in 1..Len(piece) : piece[x] # Dot,
         NEW nonce \in Seq(Nat), Len(nonce) = NonceLength, \A x \in 1..Len(nonce) : nonce[x] # Dot,
         NEW n \in 2..MaxFragmentPieces, NEW i \in 1..n,
         FirstPieces(word, MaxPieceLength, i - 1) \o piece = FirstPieces(word, MaxPieceLength, i),
         NEW visit, visit.port = 256 * i + n,
         visit.address = AuthPrefix \o FragmentMarker \o nonce \o <<Dot>>
                           \o ChunkLabels(piece) \o SuffixWithDot
  PROVE  PieceIn(word, n, i, visit)
<1> DEFINE chunks == ChunkLabels(piece)
           rest == Marked(nonce, chunks)
           start == AuthPrefix \o rest
           m == Len(AuthPrefix)
<1>1. chunks \in Seq(Nat) /\ Len(chunks) \in Nat \ {0} /\ chunks[Len(chunks)] # Dot
  BY ChunksEnd
<1>2. Joined(chunks) = piece
  BY ChunksJoined
<1> HIDE DEF chunks
<1>3. /\ rest \in Seq(Nat) /\ Len(rest) = 7 + Len(chunks)
      /\ \A x \in 1..Len(chunks) : rest[7 + x] = chunks[x]
  BY <1>1, MarkedParts
<1>4. /\ IsFragment(rest, visit.port) /\ visit.port \div 256 = i /\ visit.port % 256 = n
      /\ PieceOf(rest) = piece
  <2>1. /\ IsFragment(Marked(nonce, chunks), 256 * i + n)
        /\ (256 * i + n) \div 256 = i /\ (256 * i + n) % 256 = n
        /\ PieceOf(Marked(nonce, chunks)) = Joined(chunks)
    BY <1>1, PieceRecognised, ZenonT(60)
  <2>2. visit.port = 256 * i + n
    OBVIOUS
  <2> DEFINE port == 256 * i + n
  <2> HIDE DEF rest, port
  <2>3. IsFragment(rest, port) /\ port \div 256 = i /\ (port % 256) = n /\ PieceOf(rest) = piece
    BY <1>2, <2>1 DEF rest, port
  <2>4. visit.port = port
    BY <2>2 DEF port
  <2>5. QED
    BY <2>3, <2>4
<1>5. visit.address = start \o SuffixWithDot
  BY <1>1, MarkedAddress DEF chunks
<1> HIDE DEF rest
<1>6. AuthPrefix \in Seq(Nat) /\ m \in Nat
  BY Surroundings
<1>7. start \in Seq(Nat) /\ Len(start) = m + Len(rest) /\ \A x \in 1..Len(rest) : start[m + x] = rest[x]
  <2> DEFINE a == AuthPrefix
  <2>1. a \in Seq(Nat) /\ rest \in Seq(Nat)
    BY <1>3, <1>6
  <2> HIDE DEF a
  <2>2. /\ a \o rest \in Seq(Nat) /\ Len(a \o rest) = Len(a) + Len(rest)
        /\ \A x \in 1..Len(rest) : (a \o rest)[Len(a) + x] = rest[x]
    BY <2>1, TextAppended, ZenonT(60)
  <2>3. QED
    BY <2>2, Zenon DEF a
<1>8. Authentic(start) /\ Remainder(start) = rest
  BY <1>3, PassphraseShown
<1> HIDE DEF start
<1>9. Len(start) # 0 /\ start[Len(start)] # Dot
  <2> DEFINE l == Len(chunks)
  <2>1. l \in 1..l /\ 7 + l \in 1..Len(rest)
    <3>1. l \in Nat \ {0} /\ Len(rest) = 7 + l
      BY <1>1, <1>3
    <3> DEFINE k == Len(rest)
    <3>2. l \in Nat \ {0} /\ k = 7 + l
      BY <3>1
    <3> HIDE DEF l, k
    <3>3. l \in 1..l /\ 7 + l \in 1..k
      BY <3>2
    <3>4. QED
      BY <3>3 DEF k
  <2>2. start[m + (7 + l)] = rest[7 + l] /\ rest[7 + l] = chunks[l]
    BY <1>3, <1>7, <2>1
  <2>3. Len(start) = m + (7 + l)
    BY <1>3, <1>7
  <2>4. Len(start) # 0
    BY <1>1, <1>6, <2>3
  <2>5. QED
    BY <1>1, <2>2, <2>3, <2>4
<1>10. Bare(visit) = start
  BY <1>5, <1>7, <1>9, SuffixStripped DEF Bare
<1>11. QED
  BY <1>4, <1>8, <1>10 DEF PieceIn

(* Whatever a text without dots is made of, the server reads it in the addresses     *)
(* that Query and queryFragmented send it as: StripSuffix and extractPassphrase      *)
(* leave of a single address the text, which isFragmented does not take for a piece; *)
(* and of the address of each piece the piece, with the right index and total, and   *)
(* the pieces so far are always the text so far.                                     *)
THEOREM AddressesRead ==
  ASSUME RoomForPiece,
         NEW word \in Seq(Nat), Len(word) # 0, \A i \in 1..Len(word) : word[i] # Dot,
         NEW nonce \in Seq(Nat), Len(nonce) = NonceLength, \A i \in 1..Len(nonce) : nonce[i] # Dot
  PROVE  LET plan == Addresses(word, nonce)
             n == Len(plan)
         IN  /\ n \in Nat
             /\ \A i \in 1..n : plan[i].nextState = 1
             /\ n = 1 => WholeIn(word, plan[1])
             /\ n > 1 => /\ FirstPieces(word, MaxPieceLength, 0) = << >>
                         /\ FirstPieces(word, MaxPieceLength, n) = word
                         /\ \A i \in 1..n : PieceIn(word, n, i, plan[i])
<1> DEFINE start == AuthPrefix \o word
           whole == start \o SuffixWithDot
           pieces == Pieces(word, MaxPieceLength)
           m == Len(pieces)
           address(i) == AuthPrefix \o FragmentMarker \o nonce \o <<Dot>>
                           \o ChunkLabels(pieces[i]) \o SuffixWithDot
           visit(i) == [address |-> address(i), port |-> 256 * i + m, nextState |-> 1]
           only == [address |-> whole, port |-> DefaultPort, nextState |-> 1]
           plan == Addresses(word, nonce)
           n == Len(plan)
<1>1. plan = IF Len(whole) <= MaxAddress THEN <<only>>
             ELSE IF m > MaxFragmentPieces THEN << >> ELSE [i \in DOMAIN pieces |-> visit(i)]
  BY DEF Addresses
<1>2. MaxPieceLength \in Nat \ {0}
  BY PieceLength
<1>3. /\ m \in Nat /\ m * MaxPieceLength >= Len(word) /\ m # 0
      /\ FirstPieces(word, MaxPieceLength, 0) = << >>
      /\ FirstPieces(word, MaxPieceLength, m) = word
      /\ \A i \in 1..m :
           /\ FirstPieces(word, MaxPieceLength, i - 1) \o pieces[i] = FirstPieces(word, MaxPieceLength, i)
           /\ pieces[i] \in Seq(Nat) /\ Len(pieces[i]) # 0
           /\ \A x \in 1..Len(pieces[i]) : \E y \in 1..Len(word) : pieces[i][x] = word[y]
  BY <1>2, PiecesPut
<1>4. DOMAIN pieces = 1..m
  <2>1. pieces \in Seq(Seq(Nat))
    BY <1>2, PiecesCut
  <2>2. QED
    BY <2>1
<1>5. CASE Len(whole) <= MaxAddress
  <2>1. WholeIn(word, only)
    <3>1. only.address = AuthPrefix \o word \o SuffixWithDot
      OBVIOUS
    <3> HIDE DEF only
    <3>2. QED
      BY <3>1, WholeAddress
  <2> HIDE DEF only, plan
  <2>2. plan = <<only>>
    BY <1>1, <1>5
  <2>3. n = 1 /\ plan[1] = only
    BY <2>2
  <2>4. only.nextState = 1
    BY DEF only
  <2> HIDE DEF n
  <2>5. \A i \in 1..n : i = 1
    BY <2>3
  <2>6. QED
    BY <2>1, <2>3, <2>4, <2>5 DEF plan, n
<1>6. CASE Len(whole) > MaxAddress /\ m > MaxFragmentPieces
  <2> HIDE DEF plan, whole, m
  <2>1. plan = << >>
    <3>1. MaxAddress \in Nat /\ Len(whole) \in Nat
      <4>1. start \in Seq(Nat) /\ SuffixWithDot \in Seq(Nat)
        BY Surroundings, TextAppended
      <4> HIDE DEF start
      <4>2. whole \in Seq(Nat)
        BY <4>1, TextAppended DEF whole
      <4>3. QED
        BY <4>2, QueryCodecAssumption, EndlessLength
    <3>2. QED
      BY <1>1, <1>6, <3>1
  <2>2. n = 0 /\ n \in Nat
    BY <2>1
  <2> HIDE DEF n
  <2>3. QED
    BY <2>2 DEF n, plan
<1>7. CASE Len(whole) > MaxAddress /\ ~(m > MaxFragmentPieces)
  <2> HIDE DEF plan, visit, pieces
  <2>1. plan = [i \in 1..m |-> visit(i)]
    <3> HIDE DEF whole, m
    <3>1. MaxAddress \in Nat /\ Len(whole) \in Nat
      <4>1. start \in Seq(Nat) /\ SuffixWithDot \in Seq(Nat)
        BY Surroundings, TextAppended
      <4> HIDE DEF start
      <4>2. whole \in Seq(Nat)
        BY <4>1, TextAppended DEF whole
      <4>3. QED
        BY <4>2, QueryCodecAssumption, EndlessLength
    <3>2. QED
      BY <1>1, <1>4, <1>7, <3>1
  <2>2. m # 1
    <3>1. SUFFICES ASSUME m = 1 PROVE FALSE
      OBVIOUS
    <3>2. Len(word) <= MaxPieceLength
      BY <1>2, <1>3, <3>1
    <3>3. Len(whole) <= MaxAddress
      <4> DEFINE p == Len(AuthPrefix)
                 q == Len(SuffixWithDot)
      <4>1. AuthPrefix \in Seq(Nat) /\ SuffixWithDot \in Seq(Nat) /\ p \in Nat /\ q \in Nat
        BY Surroundings
      <4>2. start \in Seq(Nat) /\ Len(start) = p + Len(word)
        BY <4>1, TextAppended
      <4> HIDE DEF start
      <4>3. Len(whole) = (p + Len(word)) + q
        <5> DEFINE end == SuffixWithDot
        <5>1. start \in Seq(Nat) /\ end \in Seq(Nat)
          BY <4>1, <4>2
        <5> HIDE DEF end
        <5>2. Len(start \o end) = Len(start) + Len(end)
          BY <5>1, TextAppended
        <5>3. whole = start \o end /\ q = Len(end)
          BY DEF end
        <5> HIDE DEF whole, p, q
        <5>4. QED
          BY <4>2, <5>2, <5>3
      <4>4. PieceBudget = MaxAddress - p - 2 - 4 - 1 - q
        BY Surroundings DEF PieceBudget, NonceLength
      <4>5. MaxPieceLength <= PieceBudget
        <5> DEFINE dots == (MaxPieceLength - 1) \div MaxLabelLength
        <5>1. MaxPieceLength + dots <= PieceBudget /\ PieceBudget \in Int
          BY PieceLength
        <5>2. MaxLabelLength \in Nat \ {0} /\ MaxPieceLength - 1 \in Nat
          BY <1>2, QueryCodecAssumption
        <5>3. dots \in Nat
          BY <1>2, <5>2, DotsCounted
        <5> HIDE DEF dots
        <5>4. QED
          BY <1>2, <5>1, <5>3
      <4>6. MaxAddress \in Nat /\ Len(word) \in Nat
        BY QueryCodecAssumption, EndlessLength
      <4> HIDE DEF p, q, whole
      <4>7. QED
        BY <1>2, <3>2, <4>1, <4>3, <4>4, <4>5, <4>6
    <3>4. Len(whole) \in Nat /\ MaxAddress \in Nat
      <4>1. start \in Seq(Nat) /\ SuffixWithDot \in Seq(Nat)
        BY Surroundings, TextAppended
      <4> HIDE DEF start
      <4>2. whole \in Seq(Nat)
        BY <4>1, TextAppended
      <4>3. QED
        BY <4>2, QueryCodecAssumption, EndlessLength
    <3> HIDE DEF whole
    <3>5. QED
      BY <1>7, <3>3, <3>4
  <2> HIDE DEF m
  <2>3. m \in Nat /\ m > 1 /\ m <= MaxFragmentPieces /\ m \in 2..MaxFragmentPieces
    <3>1. MaxFragmentPieces \in Nat
      BY QueryCodecAssumption DEF Byte
    <3>2. QED
      BY <1>3, <1>7, <2>2, <3>1
  <2>4. n = m
    BY <2>1, <2>3
  <2>5. ASSUME NEW i \in 1..m PROVE plan[i].nextState = 1 /\ PieceIn(word, m, i, plan[i])
    <3>1. plan[i] = visit(i)
      BY <2>1
    <3>2. visit(i).nextState = 1 /\ visit(i).port = 256 * i + m /\ visit(i).address = address(i)
      BY DEF visit
    <3>3. \A x \in 1..Len(pieces[i]) : pieces[i][x] # Dot
      <4> DEFINE piece == pieces[i]
      <4>1. \A x \in 1..Len(piece) : \E y \in 1..Len(word) : piece[x] = word[y]
        BY <1>3
      <4> HIDE DEF piece
      <4>2. \A x \in 1..Len(piece) : piece[x] # Dot
        BY <4>1
      <4>3. QED
        BY <4>2 DEF piece
    <3> DEFINE piece == pieces[i]
               place == visit(i)
    <3>4. /\ piece \in Seq(Nat) /\ Len(piece) # 0 /\ \A x \in 1..Len(piece) : piece[x] # Dot
          /\ FirstPieces(word, MaxPieceLength, i - 1) \o piece = FirstPieces(word, MaxPieceLength, i)
          /\ place.port = 256 * i + m
          /\ place.address = AuthPrefix \o FragmentMarker \o nonce \o <<Dot>>
                              \o ChunkLabels(piece) \o SuffixWithDot
      BY <1>3, <3>2, <3>3
    <3> HIDE DEF piece, place
    <3>5. PieceIn(word, m, i, place)
      BY <2>3, <3>4, PieceAddress
    <3>6. QED
      BY <3>1, <3>2, <3>5 DEF place
  <2> HIDE DEF n
  <2>6. /\ n \in Nat /\ ~(n = 1)
        /\ FirstPieces(word, MaxPieceLength, 0) = << >>
        /\ FirstPieces(word, MaxPieceLength, n) = word
        /\ \A i \in 1..n : plan[i].nextState = 1 /\ PieceIn(word, n, i, plan[i])
    <3>1. FirstPieces(word, MaxPieceLength, m) = word
      BY <1>3 DEF m
    <3>2. QED
      BY <1>3, <2>3, <2>4, <2>5, <3>1
  <2>7. QED
    BY <2>6 DEF plan, n
<1>8. QED
  <2> HIDE DEF plan, whole, m, n
  <2>1. MaxAddress \in Nat /\ Len(whole) \in Nat
    <3>1. start \in Seq(Nat) /\ SuffixWithDot \in Seq(Nat)
      BY Surroundings, TextAppended
    <3> HIDE DEF start
    <3>2. whole \in Seq(Nat)
      BY <3>1, TextAppended DEF whole
    <3>3. QED
      BY <3>2, QueryCodecAssumption, EndlessLength
  <2>2. Len(whole) <= MaxAddress \/ Len(whole) > MaxAddress
    BY <2>1
  <2>3. QED
    BY <1>5, <1>6, <1>7, <2>2

-----------------------------------------------------------------------------
(* The exchange *)

Replies == {DNSLength, VanillaLength}

Typed ==
  /\ WayOK(up) /\ WayOK(down)
  /\ visits \in Seq(Visit)
  /\ client \in {"dial", "handshake", "request", "status"} => visits # << >>

(* Both directions carry frames one after the other; and while a client has yet *)
(* to be answered, it has read nothing and, until the server replies, nothing   *)
(* has been written.                                                            *)
Along ==
  /\ client # "stranger" => InSync(up)
  /\ InSync(down)
  /\ server \in {"none", "handshake", "request", "login", "decide", "answer"}
       => down.written = << >>
  /\ client \in {"handshake", "request", "status"} => down.read = << >>

(* The status written is the first frame, and what the client has read is it. *)
Shows ==
  /\ status # None =>
       \E length \in Replies :
         /\ status = JSON(length) /\ down.written # << >>
         /\ down.written[1] = [id |-> 0, data |-> WriteString(JSON(length))]
  /\ shown # None => down.written # << >>
  /\ status # None /\ shown # None => shown = status \/ Len(status) = OpeningBrace

IInv == Typed /\ Along /\ Shows

LEMMA PlayersVisit == Visits \subseteq Visit
<1> SUFFICES ASSUME NEW v \in Visits PROVE v \in Visit
  OBVIOUS
<1>1. v \in [address : Seq(Nat), port : Nat, nextState : Nat]
  BY VisitsAssumption
<1>2. Len(v.address) < Endless /\ v.nextState < Endless
  BY VisitsAssumption
<1>3. Len(v.address) \in Nat /\ Endless \in Nat
  BY <1>1, EndlessLength
<1>4. Len(v.address) <= 8 * Endless
  BY <1>2, <1>3
<1>5. QED
  BY <1>1, <1>2, <1>4 DEF Visit

LEMMA RepliesSmall ==
  ASSUME NEW length \in Replies
  PROVE  /\ length \in Small /\ length + 6 \in Small
<1>1. length \in Nat /\ length < Endless * 16
  BY RepliesAssumption DEF Replies
<1>2. Endless * 16 + 6 < 128 * 128 * 128 /\ Endless * 16 \in Nat
  BY EndlessLength
<1>3. QED
  BY <1>1, <1>2 DEF Small

\* A side waits for no more than a frame of the size it allows.
LEMMA IncomingStatus ==
  ASSUME NEW way, WayOK(way), NEW limit \in Nat
  PROVE  /\ Incoming(way, limit).status \in {"more", "bad", "ok"}
         /\ Incoming(way, limit).status = "more" =>
              way.arrived - way.taken < limit + VarIntBytes
<1> DEFINE there == SubSeq(way.bytes, way.taken + 1, way.arrived)
<1>1. /\ way.bytes \in Seq(Nat) /\ way.arrived \in Nat /\ way.taken \in Nat
      /\ way.taken <= way.arrived /\ way.arrived <= Len(way.bytes)
  BY DEF WayOK, Way
<1>2. there \in Seq(Nat) /\ Len(there) = way.arrived - way.taken
  BY <1>1, Middle
<1>3. Incoming(way, limit) = ReadFrame(there, limit)
  BY DEF Incoming
<1> HIDE DEF there
<1>4. /\ ReadFrame(there, limit).status \in {"more", "bad", "ok"}
      /\ ReadFrame(there, limit).status = "more" => Len(there) < limit + VarIntBytes
  BY <1>2, FrameResult
<1>5. QED
  BY <1>2, <1>3, <1>4

\* What the client of a query dials.
LEMMA Asking ==
  ASSUME NEW asked \in Queries, Encodable(asked)
  PROVE  /\ Addresses(EncodeQuery(asked), Nonce) \in Seq(Visit)
         /\ RoomForPiece => \A i \in 1..Len(Addresses(EncodeQuery(asked), Nonce)) :
              Len(Addresses(EncodeQuery(asked), Nonce)[i].address) <= MaxAddress
<1>1. asked \in Asked /\ asked.type < Endless
  <2>1. /\ asked \in [name : Seq(Seq(Byte)), type : Nat, class : Nat, edns : Nat]
        /\ asked.type < Endless
    BY QueriesAssumption
  <2>2. asked.name \in Seq(Seq(Nat))
    <3>1. asked.name \in Seq(Seq(Byte))
      BY <2>1
    <3>2. QED
      BY <3>1, BytesAreNumbers
  <2>3. QED
    BY <2>1, <2>2 DEF Asked
<1>2. EncodeQuery(asked) \in Seq(Nat)
  BY <1>1, QueryEncoded
<1>3. Nonce \in Seq(Nat) /\ Len(Nonce) = NonceLength
  BY ExchangeAssumption
<1>4. QED
  BY <1>2, <1>3, AddressesWritten

LEMMA InitHolds ==
  ASSUME Init
  PROVE  IInv
<1>1. /\ down = Silent /\ status = None /\ shown = None
  BY DEF Init
<1>2. WayOK(down) /\ InSync(down) /\ down.written = << >> /\ down.read = << >>
  BY <1>1, SilentOK DEF Silent
<1>3. CASE /\ query \in Queries
           /\ visits = IF Encodable(query) THEN Addresses(EncodeQuery(query), Nonce) ELSE << >>
           /\ client = (IF visits = << >> THEN "failed" ELSE "dial") /\ server = "none"
           /\ up = Silent
  <2>1. visits \in Seq(Visit)
    BY <1>3, Asking
  <2>2. QED
    BY <1>1, <1>2, <1>3, <2>1 DEF IInv, Typed, Along, Shows
<1>4. CASE /\ query = None /\ \E visit \in Visits : visits = <<visit>>
           /\ client = "dial" /\ server = "none"
           /\ up = Silent
  <2>1. PICK visit \in Visit : visits = <<visit>>
    BY <1>4, PlayersVisit
  <2>2. visits \in Seq(Visit) /\ visits # << >>
    BY <2>1
  <2>3. QED
    BY <1>1, <1>2, <1>4, <2>2 DEF IInv, Typed, Along, Shows
<1>5. CASE /\ query = None /\ visits = << >> /\ client = "stranger" /\ server = "handshake"
           /\ \E bytes \in Noise : up = [Silent EXCEPT !.bytes = bytes]
  <2>1. PICK bytes \in Seq(Nat) : up = [Silent EXCEPT !.bytes = bytes]
    BY <1>5, ExchangeAssumption
  <2>2. up = [bytes |-> bytes, arrived |-> 0, taken |-> 0, written |-> << >>, read |-> << >>]
    BY <2>1 DEF Silent
  <2>3. WayOK(up)
    BY <2>2 DEF WayOK, Way
  <2>4. QED
    BY <1>1, <1>2, <1>5, <2>3 DEF IInv, Typed, Along, Shows
<1>6. QED
  BY <1>3, <1>4, <1>5, Zenon DEF Init

LEMMA DialKeeps ==
  ASSUME IInv, Dial
  PROVE  IInv'
<1>1. /\ up' = Silent /\ down' = Silent /\ client' = "handshake" /\ server' = "handshake"
      /\ status' = None /\ shown' = None /\ visits' = visits /\ client = "dial"
  BY DEF Dial
<1>2. Silent.read = << >> /\ Silent.written = << >>
  BY DEF Silent
<1>3. Typed'
  BY <1>1, SilentOK DEF IInv, Typed
<1>4. Along'
  BY <1>1, <1>2, SilentOK DEF Along
<1>5. Shows'
  BY <1>1 DEF Shows
<1>6. QED
  BY <1>3, <1>4, <1>5 DEF IInv

(* What a client sends, a handshake or a request. *)
LEMMA SendingKeeps ==
  ASSUME IInv, client \in {"handshake", "request"}, client' \in {"request", "status"},
         NEW id \in Small, NEW data \in Seq(Nat), Len(data) + 3 \in Small,
         up' = Send(up, id, data), UNCHANGED <<visits, server, down, status, shown>>
  PROVE  IInv'
<1>1. WayOK(up) /\ InSync(up)
  BY DEF IInv, Typed, Along
<1>2. WayOK(up') /\ InSync(up')
  BY <1>1, SendOK
<1>3. /\ visits' = visits /\ server' = server /\ down' = down /\ status' = status /\ shown' = shown
  OBVIOUS
<1>4. Typed'
  BY <1>2, <1>3 DEF IInv, Typed
<1>5. Along'
  BY <1>2, <1>3 DEF IInv, Along
<1>6. Shows'
  BY <1>3 DEF IInv, Shows
<1>7. QED
  BY <1>4, <1>5, <1>6 DEF IInv

LEMMA Sizes ==
  /\ 0 \in Small /\ 1 \in Small
  /\ << >> \in Seq(Nat) /\ Len(<< >>) + 3 \in Small
  /\ Stamp \in Seq(Nat) /\ Len(Stamp) + 3 \in Small
<1>1. 0 \in Small /\ 1 \in Small /\ 3 \in Small /\ 11 \in Small
  BY DEF Small
<1>2. << >> \in Seq(Nat) /\ Len(<< >>) + 3 = 3
  OBVIOUS
<1>3. Stamp \in Seq(Nat) /\ Len(Stamp) + 3 = 11
  <2>1. Stamp \in Seq(Nat) /\ Len(Stamp) = 8
    BY ExchangeAssumption
  <2>2. QED
    BY <2>1
<1>4. QED
  BY <1>1, <1>2, <1>3, Zenon

LEMMA SendHandshakeKeeps ==
  ASSUME IInv, SendHandshake
  PROVE  IInv'
<1>1. Head(visits) \in Visit
  <2>1. visits \in Seq(Visit) /\ visits # << >>
    BY DEF IInv, Typed, SendHandshake
  <2>2. QED
    BY <2>1
<1> DEFINE data == EncodeHandshake(Head(visits))
<1>2. data \in Seq(Nat) /\ Len(data) + 3 \in Small
  BY <1>1, HandshakeEncoded
<1>3. /\ client = "handshake" /\ client' = "request" /\ up' = Send(up, 0, data)
      /\ UNCHANGED <<visits, server, down, status, shown>>
  BY DEF SendHandshake
<1> HIDE DEF data
<1>4. QED
  BY <1>2, <1>3, Sizes, SendingKeeps

LEMMA SendStatusRequestKeeps ==
  ASSUME IInv, SendStatusRequest
  PROVE  IInv'
<1>1. /\ client = "request" /\ client' = "status" /\ up' = Send(up, 0, << >>)
      /\ UNCHANGED <<visits, server, down, status, shown>>
  BY DEF SendStatusRequest
<1>2. QED
  BY <1>1, Sizes, SendingKeeps

(* A step that moves neither direction, and the client at most to failure. *)
LEMMA StayingKeeps ==
  ASSUME IInv, UNCHANGED <<visits, up, down, status, shown>>,
         client' \in {client, "failed"}, client = "stranger" => client' = client,
         \/ server' = server \/ server' = "closed"
         \/ server \in {"handshake", "request", "login", "decide", "answer"} /\ server' # "none"
  PROVE  IInv'
<1>1. /\ visits' = visits /\ up' = up /\ down' = down /\ status' = status /\ shown' = shown
  OBVIOUS
<1>2. Typed'
  BY <1>1 DEF IInv, Typed
<1>3. Along'
  <2>1. client' # "stranger" => InSync(up)
    BY DEF IInv, Along
  <2>2. InSync(down)
    BY DEF IInv, Along
  <2>3. server' \in {"none", "handshake", "request", "login", "decide", "answer"}
          => down.written = << >>
    BY DEF IInv, Along
  <2>4. client' \in {"handshake", "request", "status"} => down.read = << >>
    BY DEF IInv, Along
  <2>5. QED
    BY <1>1, <2>1, <2>2, <2>3, <2>4 DEF Along
<1>4. Shows'
  BY <1>1 DEF IInv, Shows
<1>5. QED
  BY <1>2, <1>3, <1>4 DEF IInv

(* What the client has read next is the next of the frames written. *)
LEMMA ReadStatusKeeps ==
  ASSUME IInv, ReadStatus
  PROVE  IInv'
<1> DEFINE frame == Incoming(down, ReplyLimit)
<1>1. /\ client = "status" /\ frame.status # "more"
      /\ UNCHANGED <<server, status>>
  BY DEF ReadStatus
<1>2. /\ WayOK(up) /\ InSync(up) /\ WayOK(down) /\ InSync(down)
      /\ visits \in Seq(Visit) /\ visits # << >>
      /\ down.read = << >>
  BY <1>1 DEF IInv, Typed, Along
<1>3. CASE frame.status = "bad" \/ frame.value.id # 0
  <2>1. client' = "failed" /\ UNCHANGED <<visits, up, down, shown>>
    BY <1>3 DEF ReadStatus
  <2>2. QED
    BY <1>1, <2>1, StayingKeeps
<1>4. CASE ~(frame.status = "bad" \/ frame.value.id # 0)
  <2>1. /\ shown' = StatusJSON(frame.value.data)
        /\ down' = Read(down, frame)
        /\ \/ /\ up' = Send(up, 1, Stamp)
              /\ visits' = Tail(visits)
              /\ client' = IF Len(visits) = 1 THEN "done" ELSE "dial"
           \/ client' = "failed" /\ UNCHANGED <<visits, up>>
    BY <1>4 DEF ReadStatus
  <2>2. frame.status = "ok" /\ ReplyLimit \in Nat
    <3>1. ReplyLimit \in Nat
      BY ExchangeAssumption
    <3>2. frame.status \in {"more", "bad", "ok"}
      BY <1>2, <3>1, IncomingStatus
    <3> HIDE DEF frame
    <3>3. QED
      BY <1>1, <1>4, <3>1, <3>2
  <2>3. /\ WayOK(Read(down, frame)) /\ InSync(Read(down, frame))
        /\ Read(down, frame).written = down.written
        /\ Len(down.read) < Len(down.written)
        /\ frame.value = down.written[Len(down.read) + 1]
    BY <1>2, <2>2, ReadOK
  <2> HIDE DEF frame
  <2>4. /\ WayOK(down') /\ InSync(down') /\ down'.written = down.written
        /\ down.written # << >> /\ frame.value = down.written[1]
    <3>1. Len(down.read) = 0
      BY <1>2
    <3>2. 0 < Len(down.written) /\ frame.value = down.written[1]
      BY <2>3, <3>1
    <3>3. down.written # << >>
      BY <3>2
    <3>4. QED
      BY <2>1, <2>3, <3>2, <3>3
  <2>5. WayOK(up') /\ InSync(up')
    <3>1. CASE up' = Send(up, 1, Stamp)
      BY <1>2, <3>1, Sizes, SendOK
    <3>2. CASE up' = up
      BY <1>2, <3>2
    <3>3. QED
      BY <2>1, <3>1, <3>2
  <2>6. Typed'
    <3>1. visits' \in Seq(Visit)
      BY <1>2, <2>1
    <3>2. client' = "dial" => visits' # << >>
      <4>1. Len(visits) \in Nat \ {0} /\ Len(Tail(visits)) = Len(visits) - 1
        BY <1>2
      <4>2. Len(visits) # 1 => Tail(visits) # << >>
        BY <4>1
      <4>3. QED
        BY <2>1, <4>2
    <3>3. client' \in {"done", "dial", "failed"}
      BY <2>1
    <3>4. QED
      BY <2>4, <2>5, <3>1, <3>2, <3>3 DEF Typed
  <2>7. Along'
    <3>1. server' \in {"none", "handshake", "request", "login", "decide", "answer"}
            => down'.written = << >>
      BY <1>1, <2>4 DEF IInv, Along
    <3>2. client' \in {"done", "dial", "failed"}
      BY <2>1
    <3>3. QED
      BY <2>4, <2>5, <3>1, <3>2 DEF Along
  <2>8. Shows'
    <3>1. ASSUME status # None
          PROVE  \E length \in Replies :
                   /\ status = JSON(length) /\ down.written # << >>
                   /\ down.written[1] = [id |-> 0, data |-> WriteString(JSON(length))]
      BY <3>1 DEF IInv, Shows
    <3>2. ASSUME status # None PROVE shown' = status \/ Len(status) = OpeningBrace
      <4>1. PICK length \in Replies :
              /\ status = JSON(length)
              /\ down.written[1] = [id |-> 0, data |-> WriteString(JSON(length))]
        BY <3>1, <3>2
      <4>2. frame.value.data = WriteString(JSON(length))
        BY <2>4, <4>1
      <4>3. length \in Small
        BY RepliesSmall
      <4>4. QED
        BY <2>1, <4>1, <4>2, <4>3, StatusRead
    <3>3. QED
      BY <1>1, <2>4, <3>1, <3>2 DEF Shows
  <2>9. QED
    BY <2>6, <2>7, <2>8 DEF IInv
<1>5. QED
  BY <1>3, <1>4

LEMMA GiveUpKeeps ==
  ASSUME IInv, GiveUp
  PROVE  IInv'
<1>1. /\ client \in {"handshake", "request", "status"} /\ client' = "failed"
      /\ UNCHANGED <<visits, server, up, down, status, shown>>
  BY DEF GiveUp, connection
<1>2. QED
  BY <1>1, StayingKeeps

-----------------------------------------------------------------------------
(* The server writes its first frame, a status or a farewell. *)
LEMMA ReplyingKeeps ==
  ASSUME IInv, server \in {"login", "decide", "answer"}, server' \in {"ping", "closed"},
         NEW length \in Replies,
         down' = Send(down, 0, WriteString(JSON(length))),
         status' = JSON(length) \/ (server = "login" /\ status' = status),
         client' = client, visits' = visits, shown' = shown,
         WayOK(up'), client # "stranger" => InSync(up')
  PROVE  IInv'
<1> DEFINE data == WriteString(JSON(length))
<1>1. data \in Seq(Nat) /\ Len(data) + 3 \in Small
  <2>1. length \in Small /\ length + 6 \in Small
    BY RepliesSmall
  <2>2. data \in Seq(Nat) /\ Len(data) <= length + 3
    BY <2>1, StatusRead
  <2> HIDE DEF data
  <2>3. Len(data) + 3 \in Nat /\ Len(data) + 3 <= length + 6
    BY <2>1, <2>2 DEF Small
  <2>4. QED
    BY <2>1, <2>2, <2>3, Smaller
<1>2. WayOK(down) /\ InSync(down) /\ down.written = << >>
  BY DEF IInv, Typed, Along
<1>3. down' = Send(down, 0, data)
  OBVIOUS
<1> HIDE DEF data
<1>4. /\ WayOK(down') /\ InSync(down') /\ down'.read = down.read
      /\ down'.written = Append(<< >>, [id |-> 0, data |-> data])
  BY <1>1, <1>2, <1>3, Sizes, SendOK
<1>5. down'.written # << >> /\ down'.written[1] = [id |-> 0, data |-> data]
  <2> DEFINE frame == [id |-> 0, data |-> data]
  <2>1. down'.written = Append(<< >>, frame)
    BY <1>4
  <2> HIDE DEF frame
  <2>2. Append(<< >>, frame) = <<frame>>
    OBVIOUS
  <2>3. down'.written # << >> /\ down'.written[1] = frame
    BY <2>1, <2>2
  <2>4. QED
    BY <2>3 DEF frame
<1>6. shown = None
  BY <1>2 DEF IInv, Shows
<1>7. Typed'
  BY <1>4 DEF IInv, Typed
<1>8. Along'
  <2>1. client \in {"handshake", "request", "status"} => down'.read = << >>
    BY <1>4 DEF IInv, Along
  <2>2. QED
    BY <1>4, <2>1 DEF Along
<1>9. Shows'
  <2>1. CASE status' = JSON(length)
    BY <1>5, <1>6, <2>1 DEF Shows, data
  <2>2. CASE status' = status
    <3>1. status = None
      BY <1>2 DEF IInv, Shows
    <3>2. QED
      BY <1>6, <2>2, <3>1 DEF Shows
  <2>3. QED
    BY <2>1, <2>2
<1>10. QED
  BY <1>7, <1>8, <1>9 DEF IInv

(* A frame the server has read, but nothing that it has written. *)
LEMMA TakingKeeps ==
  ASSUME IInv, server \in {"handshake", "request", "login", "ping"},
         server' \in {"login", "request", "decide", "closed"},
         server = "ping" => server' = "closed",
         UNCHANGED <<client, visits, down, status, shown>>,
         WayOK(up'), client # "stranger" => InSync(up')
  PROVE  IInv'
<1>1. client' = client /\ visits' = visits /\ down' = down /\ status' = status /\ shown' = shown
  OBVIOUS
<1>2. Typed'
  BY <1>1 DEF IInv, Typed
<1>3. Along'
  <2>1. server' \in {"none", "handshake", "request", "login", "decide", "answer"}
          => down.written = << >>
    BY DEF IInv, Along
  <2>2. QED
    BY <1>1, <2>1 DEF IInv, Along
<1>4. Shows'
  BY <1>1 DEF IInv, Shows
<1>5. QED
  BY <1>2, <1>3, <1>4 DEF IInv

LEMMA ServerReadsKeeps ==
  ASSUME IInv, ServerReads
  PROVE  IInv'
<1> DEFINE frame == Incoming(up, MaxFrameSize)
<1>1. /\ server \in {"handshake", "request", "login", "ping"}
      /\ frame.status # "more"
      /\ client' = client /\ visits' = visits /\ shown' = shown
  BY DEF ServerReads
<1>2. WayOK(up) /\ (client # "stranger" => InSync(up)) /\ MaxFrameSize \in Nat
  BY ExchangeAssumption DEF IInv, Typed, Along
<1>3. CASE frame.status = "bad"
  <2>1. server' = "closed" /\ UNCHANGED <<down, status, up>>
    BY <1>3 DEF ServerReads, Close
  <2>2. QED
    BY <1>1, <2>1, StayingKeeps
<1>4. CASE frame.status # "bad"
  <2>1. frame.status = "ok"
    BY <1>1, <1>2, <1>4, IncomingStatus
  <2>2. up' = Read(up, frame)
    BY <1>4 DEF ServerReads
  <2>3. /\ frame.value \in Frame /\ WayOK(Read(up, frame))
        /\ InSync(up) => InSync(Read(up, frame))
    BY <1>2, <2>1, ReadOK
  <2>4. WayOK(up') /\ (client # "stranger" => InSync(up'))
    BY <1>2, <2>2, <2>3
  <2>5. \/ server = "handshake" /\ TakeHandshake(frame.value)
        \/ server = "request" /\ TakeRequest(frame.value)
        \/ server = "login" /\ TakeLogin
        \/ server = "ping" /\ TakePing(frame.value)
    BY <1>4 DEF ServerReads
  <2> HIDE DEF frame
  <2>6. CASE server = "handshake" /\ TakeHandshake(frame.value)
    <3>1. server' \in {"login", "request", "closed"} /\ UNCHANGED <<down, status>>
      BY <2>6 DEF TakeHandshake, Close
    <3>2. QED
      BY <1>1, <2>4, <2>6, <3>1, TakingKeeps
  <2>7. CASE server = "request" /\ TakeRequest(frame.value)
    <3>1. server' \in {"decide", "closed"} /\ UNCHANGED <<down, status>>
      BY <2>7 DEF TakeRequest, Close
    <3>2. QED
      BY <1>1, <2>4, <2>7, <3>1, TakingKeeps
  <2>8. CASE server = "login" /\ TakeLogin
    <3>1. /\ server' = "closed" /\ status' = status
          /\ down' = Send(down, 0, WriteString(JSON(VanillaLength)))
      BY <2>8 DEF TakeLogin
    <3>2. VanillaLength \in Replies
      BY DEF Replies
    <3>3. QED
      BY <1>1, <2>4, <2>8, <3>1, <3>2, ReplyingKeeps
  <2>9. CASE server = "ping" /\ TakePing(frame.value)
    <3>1. server' = "closed" /\ status' = status
      BY <2>9 DEF TakePing
    <3>2. CASE frame.value.id = 1 /\ Len(frame.value.data) = 8
      <4> DEFINE data == frame.value.data
      <4>1. down' = Send(down, 1, data)
        BY <2>9, <3>2 DEF TakePing
      <4>2. data \in Seq(Nat) /\ Len(data) + 3 \in Small
        BY <2>3, <3>2 DEF Frame, Small
      <4> HIDE DEF data
      <4>3. WayOK(down) /\ InSync(down)
        BY DEF IInv, Typed, Along
      <4>4. /\ WayOK(down') /\ InSync(down') /\ down'.read = down.read
            /\ down'.written = Append(down.written, [id |-> 1, data |-> data])
        BY <4>1, <4>2, <4>3, Sizes, SendOK
      <4>5. down.written \in Seq(Frame)
        BY <4>3 DEF WayOK, Way
      <4>6. /\ down'.written # << >>
            /\ down.written # << >> => down'.written[1] = down.written[1]
        BY <4>4, <4>5
      <4>7. Typed'
        BY <1>1, <2>4, <4>4 DEF IInv, Typed
      <4>8. Along'
        <5>1. client \in {"handshake", "request", "status"} => down'.read = << >>
          BY <4>4 DEF IInv, Along
        <5>2. QED
          BY <1>1, <2>4, <3>1, <4>4, <5>1 DEF Along
      <4>9. Shows'
        <5>1. ASSUME status # None
              PROVE  \E length \in Replies :
                       /\ status = JSON(length) /\ down'.written # << >>
                       /\ down'.written[1] = [id |-> 0, data |-> WriteString(JSON(length))]
          BY <4>6, <5>1 DEF IInv, Shows
        <5>2. status # None /\ shown # None => shown = status \/ Len(status) = OpeningBrace
          BY DEF IInv, Shows
        <5>3. QED
          BY <1>1, <3>1, <4>6, <5>1, <5>2 DEF Shows
      <4>10. QED
        BY <4>7, <4>8, <4>9 DEF IInv
    <3>3. CASE ~(frame.value.id = 1 /\ Len(frame.value.data) = 8)
      <4>1. down' = down
        BY <2>9, <3>3 DEF TakePing
      <4>2. QED
        BY <1>1, <2>4, <2>9, <3>1, <4>1, TakingKeeps
    <3>4. QED
      BY <3>2, <3>3
  <2>10. QED
    BY <2>5, <2>6, <2>7, <2>8, <2>9
<1>5. QED
  BY <1>3, <1>4

LEMMA HangupKeeps ==
  ASSUME IInv, Hangup
  PROVE  IInv'
<1>1. server' = "closed" /\ UNCHANGED <<client, visits, up, down, status, shown>>
  BY DEF Hangup, Close
<1>2. QED
  BY <1>1, StayingKeeps

LEMMA DecideKeeps ==
  ASSUME IInv, Decide
  PROVE  IInv'
<1>1. /\ server = "decide"
      /\ client' = client /\ visits' = visits /\ up' = up /\ shown' = shown
  BY DEF Decide
<1>2. \/ \E length \in Replies : Reply(length)
      \/ server' = "answer" /\ UNCHANGED <<down, status>>
  <2>1. DNSLength \in Replies /\ VanillaLength \in Replies
    BY DEF Replies
  <2>2. ASSUME NEW bare, NEW otherwise \in Replies, Serve(bare, otherwise)
        PROVE  \/ \E length \in Replies : Reply(length)
               \/ server' = "answer" /\ UNCHANGED <<down, status>>
    BY <2>2 DEF Serve
  <2> DEFINE stripped == StripSuffix(handshake.address)
             rest == Remainder(stripped)
             served == text \o PieceOf(rest)
             other == IF HasSuffix(handshake.address) THEN DNSLength ELSE VanillaLength
  <2>3. \/ Reply(VanillaLength) \/ Reply(DNSLength)
        \/ Serve(served, DNSLength) \/ Serve(rest, other)
    BY DEF Decide
  <2>4. other \in Replies
    BY <2>1
  <2> HIDE DEF other, served, rest, stripped
  <2>5. QED
    BY <2>1, <2>2, <2>3, <2>4
<1>3. WayOK(up) /\ (client # "stranger" => InSync(up))
  BY DEF IInv, Typed, Along
<1>4. CASE \E length \in Replies : Reply(length)
  <2>1. PICK length \in Replies : Reply(length)
    BY <1>4
  <2>2. /\ down' = Send(down, 0, WriteString(JSON(length)))
        /\ status' = JSON(length) /\ server' = "ping"
    BY <2>1 DEF Reply
  <2>3. QED
    BY <1>1, <1>3, <2>2, ReplyingKeeps
<1>5. CASE server' = "answer" /\ UNCHANGED <<down, status>>
  BY <1>1, <1>5, StayingKeeps
<1>6. QED
  BY <1>2, <1>4, <1>5

LEMMA AnswerKeeps ==
  ASSUME IInv, Answer
  PROVE  IInv'
<1>1. UNCHANGED <<client, server, visits, up, down, status, shown>>
  BY DEF Answer, connection
<1>2. QED
  BY <1>1, StayingKeeps

LEMMA SendAnswerKeeps ==
  ASSUME IInv, SendAnswer
  PROVE  IInv'
<1>1. /\ server = "answer" /\ server' = "ping"
      /\ client' = client /\ visits' = visits /\ up' = up /\ shown' = shown
      /\ down' = Send(down, 0, WriteString(JSON(DNSLength))) /\ status' = JSON(DNSLength)
  BY DEF SendAnswer, Reply
<1>2. WayOK(up) /\ (client # "stranger" => InSync(up)) /\ DNSLength \in Replies
  BY DEF IInv, Typed, Along, Replies
<1>3. QED
  BY <1>1, <1>2, ReplyingKeeps

LEMMA ArriveKeeps ==
  ASSUME IInv, Arrive
  PROVE  IInv'
<1>1. /\ client' = client /\ visits' = visits /\ server' = server
      /\ status' = status /\ shown' = shown
  BY DEF Arrive
<1>2. WayOK(up) /\ WayOK(down)
  BY DEF IInv, Typed
<1>3. /\ WayOK(up') /\ (InSync(up) => InSync(up'))
      /\ WayOK(down') /\ (InSync(down) => InSync(down'))
      /\ down'.read = down.read /\ down'.written = down.written
  <2>1. CASE up.arrived < Len(up.bytes) /\ up' \in Arrived(up) /\ UNCHANGED down
    BY <1>2, <2>1, ArriveOK
  <2>2. CASE down.arrived < Len(down.bytes) /\ down' \in Arrived(down) /\ UNCHANGED up
    BY <1>2, <2>2, ArriveOK
  <2>3. QED
    BY <2>1, <2>2 DEF Arrive
<1>4. Typed'
  BY <1>1, <1>3 DEF IInv, Typed
<1>5. Along'
  BY <1>1, <1>3 DEF IInv, Along
<1>6. Shows'
  BY <1>1, <1>3 DEF IInv, Shows
<1>7. QED
  BY <1>4, <1>5, <1>6 DEF IInv

\* The inductive invariant, in every state.
LEMMA IInvHolds == Spec => []IInv
<1>1. IInv /\ [Next]_vars => IInv'
  <2> SUFFICES ASSUME IInv, [Next]_vars PROVE IInv'
    OBVIOUS
  <2>1. CASE UNCHANGED vars
    <3>1. UNCHANGED <<client, server, visits, up, down, status, shown>>
      BY <2>1 DEF vars, connection
    <3>2. QED
      BY <3>1, StayingKeeps
  <2>2. CASE Finished
    <3>1. UNCHANGED <<client, server, visits, up, down, status, shown>>
      BY <2>2 DEF Finished, vars, connection
    <3>2. QED
      BY <3>1, StayingKeeps
  <2>3. QED
    BY <2>1, <2>2, DialKeeps, SendHandshakeKeeps, SendStatusRequestKeeps, ReadStatusKeeps,
       GiveUpKeeps, ServerReadsKeeps, HangupKeeps, DecideKeeps, AnswerKeeps, SendAnswerKeeps,
       ArriveKeeps DEF Next
<1>2. QED
  BY <1>1, InitHolds, PTL DEF Spec

(* ReadFrameLimit never waits, holding a slot of the server, once there are as    *)
(* many bytes as a frame of the allowed size and its length can have: whatever is *)
(* sent, for every limit and however the bytes arrive.                            *)
THEOREM NeverWaitsForMoreHolds == Spec => []NeverWaitsForMore
<1>1. IInv => NeverWaitsForMore
  <2> SUFFICES ASSUME IInv, server \in {"handshake", "request", "login", "ping"},
                      up.arrived - up.taken >= MaxFrameSize + VarIntBytes,
                      Incoming(up, MaxFrameSize).status = "more"
               PROVE  FALSE
    BY DEF NeverWaitsForMore
  <2>1. WayOK(up) /\ MaxFrameSize \in Nat
    BY ExchangeAssumption DEF IInv, Typed
  <2>2. up.arrived - up.taken < MaxFrameSize + VarIntBytes
    BY <2>1, IncomingStatus
  <2>3. up.arrived \in Nat /\ up.taken \in Nat
    BY <2>1 DEF WayOK, Way
  <2>4. QED
    BY <2>1, <2>2, <2>3, FramesAssumption
<1>2. QED
  BY <1>1, IInvHolds, PTL

\* What has been read is the beginning of what was written.
LEMMA ReadInOrder ==
  ASSUME NEW way, WayOK(way), InSync(way)
  PROVE  IsPrefix(way.read, way.written)
<1>1. way.read \in Seq(Frame) /\ way.written \in Seq(Frame)
  BY DEF WayOK, Way
<1>2. /\ Len(way.read) <= Len(way.written)
      /\ \A k \in 1..Len(way.read) : way.read[k] = way.written[k]
  BY DEF InSync, Framed, Followed
<1> DEFINE first == SubSeq(way.written, 1, Len(way.read))
           same == SubSeq(way.read, 1, Len(way.read))
<1>3. /\ first \in Seq(Frame) /\ Len(first) = Len(way.read)
      /\ \A k \in 1..Len(way.read) : first[k] = way.written[k]
  BY <1>1, <1>2
<1>4. /\ same \in Seq(Frame) /\ Len(same) = Len(way.read)
      /\ \A k \in 1..Len(way.read) : same[k] = way.read[k]
  BY <1>1
<1> HIDE DEF first, same
<1>5. same = first
  BY <1>2, <1>3, <1>4
<1>6. QED
  BY <1>2, <1>5 DEF IsPrefix, first, same

(* ReadFrame and WriteFrame agree, for every frame either side writes and however *)
(* its bytes arrive: each reads the frames the other wrote, whole and in order,   *)
(* and the JSON the client takes out of a reply is the JSON the server put in,    *)
(* for every length of an answer's status, and of an ordinary server's but 123.   *)
THEOREM FramesInSyncHolds == Spec => []FramesInSync
<1>1. IInv => FramesInSync
  <2> SUFFICES ASSUME IInv PROVE FramesInSync
    OBVIOUS
  <2>1. client # "stranger" => IsPrefix(up.read, up.written)
    BY ReadInOrder DEF IInv, Typed, Along
  <2>2. IsPrefix(down.read, down.written)
    BY ReadInOrder DEF IInv, Typed, Along
  <2>3. shown # None /\ status # None => shown = status \/ Len(status) = OpeningBrace
    BY DEF IInv, Shows
  <2>4. QED
    BY <2>1, <2>2, <2>3 DEF FramesInSync
<1>2. QED
  BY <1>1, IInvHolds, PTL

(* No address that Query or queryFragmented dials is longer than Minecraft allows, *)
(* for every query, limit of an address and length of a label, provided the suffix *)
(* and the passphrase leave room for the shortest piece and its dots.              *)
THEOREM AddressesFitHolds == ASSUME RoomForPiece PROVE Spec => []AddressesFit
<1>1. Init => AddressesFit
  <2> SUFFICES ASSUME Init, query # None
               PROVE  \A i \in DOMAIN visits : Len(visits[i].address) <= MaxAddress
    BY DEF AddressesFit
  <2>1. /\ query \in Queries
        /\ visits = IF Encodable(query) THEN Addresses(EncodeQuery(query), Nonce) ELSE << >>
    BY DEF Init
  <2>2. CASE Encodable(query)
    <3>1. /\ visits \in Seq(Visit)
          /\ \A i \in 1..Len(visits) : Len(visits[i].address) <= MaxAddress
      BY <2>1, <2>2, Asking
    <3>2. QED
      BY <3>1
  <2>3. CASE ~Encodable(query)
    <3>1. visits = << >>
      BY <2>1, <2>3
    <3>2. QED
      BY <3>1
  <2>4. QED
    BY <2>2, <2>3
<1>2. IInv /\ AddressesFit /\ [Next]_vars => AddressesFit'
  <2> SUFFICES ASSUME IInv, AddressesFit, [Next]_vars PROVE AddressesFit'
    OBVIOUS
  <2>1. query' = query /\ (visits' = visits \/ (visits' = Tail(visits) /\ client = "status"))
    BY DEF Next, Dial, SendHandshake, SendStatusRequest, ReadStatus, GiveUp, ServerReads,
           Hangup, Decide, Answer, SendAnswer, Arrive, Finished, vars
  <2>2. CASE visits' = visits
    BY <2>1, <2>2 DEF AddressesFit
  <2>3. CASE visits' = Tail(visits) /\ client = "status"
    <3>1. visits \in Seq(Visit) /\ visits # << >>
      BY <2>3 DEF IInv, Typed
    <3>2. \A i \in DOMAIN Tail(visits) :
            i + 1 \in DOMAIN visits /\ Tail(visits)[i] = visits[i + 1]
      BY <3>1
    <3>3. QED
      BY <2>1, <2>3, <3>2 DEF AddressesFit
  <2>4. QED
    BY <2>1, <2>2, <2>3
<1>3. QED
  BY <1>1, <1>2, IInvHolds, PTL DEF Spec

-----------------------------------------------------------------------------
(* What the server is told *)

\* What the server makes of the addresses of a query that is asked.
LEMMA QueryAsked ==
  ASSUME RoomForPiece, NEW asked \in Queries, Encodable(asked)
  PROVE  LET word == EncodeQuery(asked)
             plan == Addresses(word, Nonce)
             n == Len(plan)
         IN  /\ Restored(asked) # None
             /\ DecodeQuery(word) = Ok(Restored(asked), Len(word))
             /\ plan \in Seq(Visit) /\ n \in Nat
             /\ \A i \in 1..n : plan[i].nextState = 1
             /\ n = 1 => WholeIn(word, plan[1])
             /\ n > 1 => /\ FirstPieces(word, MaxPieceLength, 0) = << >>
                         /\ FirstPieces(word, MaxPieceLength, n) = word
                         /\ \A i \in 1..n : PieceIn(word, n, i, plan[i])
<1> DEFINE word == EncodeQuery(asked)
<1>1. Askable(asked)
  BY QueriesAssumption DEF Askable
<1>2. /\ word \in Seq(Nat) /\ word # << >> /\ \A i \in 1..Len(word) : word[i] # Dot
      /\ DecodeQuery(word) = Ok(Restored(asked), Len(word))
  BY <1>1, QueryDecoded
<1>3. Restored(asked) # None
  <2>1. LoweredName(asked) \in Seq(Seq(Nat))
    <3>1. LoweredName(asked) \in Seq(Seq(Byte))
      BY <1>1, NameLowered
    <3>2. QED
      BY <3>1, BytesAreNumbers
  <2>2. asked.type \in Nat /\ asked.edns \in Nat /\ asked.edns < Endless
    BY <1>1 DEF Askable
  <2>3. ClassINET \in Nat
    BY DEF ClassINET
  <2>4. 256 * EncodeEdnsSize(asked.edns) \in Nat
    <3>1. EncodeEdnsSize(asked.edns) \in Nat
      <4> DEFINE e == asked.edns
      <4>1. e \in Nat /\ e < Endless
        BY <2>2
      <4> HIDE DEF e
      <4>2. EncodeEdnsSize(e) \in Byte
        BY <4>1, EdnsEncoded
      <4>3. EncodeEdnsSize(e) \in Nat
        BY <4>2 DEF Byte
      <4>4. QED
        BY <4>3 DEF e
    <3>2. QED
      BY <3>1
  <2> DEFINE size == IF asked.edns = 0 THEN 0 ELSE 256 * EncodeEdnsSize(asked.edns)
             name == LoweredName(asked)
  <2>5. size \in Nat /\ name \in Seq(Seq(Nat))
    BY <2>1, <2>4
  <2>6. Restored(asked) = [name |-> name, type |-> asked.type, class |-> ClassINET, edns |-> size]
    BY DEF Restored
  <2> HIDE DEF size, name
  <2>7. Restored(asked) \in [name : Seq(Seq(Nat)), type : Nat, class : Nat, edns : Nat]
    BY <2>2, <2>3, <2>5, <2>6
  <2>8. QED
    BY <2>7, NoneAssumption
<1> HIDE DEF word
<1>4. /\ Nonce \in Seq(Nat) /\ Len(Nonce) = NonceLength /\ \A i \in 1..Len(Nonce) : Nonce[i] # Dot
  <2>1. Nonce \in Seq(Nat) /\ \A i \in DOMAIN Nonce : Nonce[i] # Dot
    BY ExchangeAssumption
  <2>2. DOMAIN Nonce = 1..Len(Nonce)
    BY <2>1
  <2>3. QED
    BY <2>1, <2>2, ExchangeAssumption
<1>5. Len(word) # 0
  BY <1>2
<1> DEFINE plan == Addresses(word, Nonce)
           n == Len(plan)
<1>6. plan \in Seq(Visit)
  BY Asking DEF word
<1>7. /\ n \in Nat
      /\ \A i \in 1..n : plan[i].nextState = 1
      /\ n = 1 => WholeIn(word, plan[1])
      /\ n > 1 => /\ FirstPieces(word, MaxPieceLength, 0) = << >>
                  /\ FirstPieces(word, MaxPieceLength, n) = word
                  /\ \A i \in 1..n : PieceIn(word, n, i, plan[i])
  BY <1>2, <1>4, <1>5, AddressesRead
<1>8. QED
  BY <1>2, <1>3, <1>6, <1>7 DEF word

\* The addresses a query goes to, and what has become of it once j of them are told:
\* the pieces are put together, and with the last it is understood.
Wanted == Addresses(EncodeQuery(query), Nonce)

Told(j) ==
  /\ Len(Wanted) > 1 => text = FirstPieces(EncodeQuery(query), MaxPieceLength, j)
  /\ j = Len(Wanted) => understood # None

\* The addresses left once there are j behind the client.
Remaining(j) ==
  Len(visits) = Len(Wanted) - j /\ \A i \in 1..Len(visits) : visits[i] = Wanted[j + i]

\* The client has been answered at j addresses.
Behind(j) ==
  /\ client = (IF j = Len(Wanted) THEN "done" ELSE "dial")
  /\ Remaining(j) /\ Told(j)
  /\ server \notin {"handshake", "request", "login", "decide", "answer"}

\* It has dialled address j: what it sends first is that address, and the server has been
\* told no more than the ones before until it decides, and one more from then on.
Amid(j) ==
  /\ client \in {"handshake", "request", "status", "failed"} /\ server # "login"
  /\ client # "failed" => Remaining(j - 1)
  /\ client = "handshake" => up.written = << >>
  /\ client \in {"request", "status"} => up.written # << >>
  /\ up.written # << >> => up.written[1] = [id |-> 0, data |-> EncodeHandshake(Wanted[j])]
  /\ server = "handshake" => up.read = << >>
  /\ server \in {"request", "decide"} => handshake = Wanted[j]
  /\ server \in {"handshake", "request", "decide"} => Told(j - 1)
  /\ server \in {"answer", "ping"} \/ down.written # << >> => Told(j)

Asks ==
  query # None =>
    /\ query \in Queries
    /\ understood # None => understood = Restored(query)
    /\ \/ client = "failed" /\ server = "none" /\ understood = None
       \/ /\ Encodable(query)
          /\ \/ \E j \in 0..Len(Wanted) : Behind(j)
             \/ \E j \in 1..Len(Wanted) : Amid(j)

\* What a step leaves alone.
LEMMA PlanStays ==
  ASSUME query' = query
  PROVE  Wanted' = Wanted
BY DEF Wanted

LEMMA ToldStays ==
  ASSUME query' = query, text' = text, understood' = understood, NEW j
  PROVE  Told(j)' <=> Told(j)
BY PlanStays DEF Told

LEMMA RemainingStays ==
  ASSUME query' = query, visits' = visits, NEW j
  PROVE  Remaining(j)' <=> Remaining(j)
BY PlanStays DEF Remaining

\* A step with which nothing is sent or told: at most a side is given up.
LEMMA AsksStays ==
  ASSUME Asks, UNCHANGED <<query, visits, text, understood, handshake>>,
         client' = client \/ (client \in {"handshake", "request", "status"} /\ client' = "failed"),
         server' = server \/ (server # "none" /\ server' = "closed"),
         up'.written = up.written, up'.read = up.read \/ server' # "handshake",
         down'.written = down.written
  PROVE  Asks'
<1> SUFFICES ASSUME query # None
             PROVE  /\ query \in Queries
                    /\ understood # None => understood = Restored(query)
                    /\ \/ client' = "failed" /\ server' = "none" /\ understood = None
                       \/ /\ Encodable(query)
                          /\ \/ \E j \in 0..Len(Wanted) : Behind(j)'
                             \/ \E j \in 1..Len(Wanted) : Amid(j)'
  BY PlanStays DEF Asks
<1>1. /\ query \in Queries
      /\ understood # None => understood = Restored(query)
  BY DEF Asks
<1>2. \A j : (Told(j)' <=> Told(j)) /\ (Remaining(j)' <=> Remaining(j))
  BY ToldStays, RemainingStays
<1>3. Wanted' = Wanted
  BY PlanStays
<1>4. CASE client = "failed" /\ server = "none" /\ understood = None
  BY <1>1, <1>4
<1>5. ASSUME NEW j \in 0..Len(Wanted), Behind(j)
      PROVE  Behind(j)'
  <2>1. client' = client /\ (server' = server \/ server' = "closed")
    BY <1>5 DEF Behind
  <2>2. QED
    BY <1>2, <1>3, <1>5, <2>1 DEF Behind
<1>6. ASSUME NEW j \in 1..Len(Wanted), Amid(j)
      PROVE  Amid(j)'
  <2>1. /\ client' \in {"handshake", "request", "status", "failed"} /\ server' # "login"
        /\ client' # "failed" => Remaining(j - 1)'
    BY <1>2, <1>6 DEF Amid
  <2>2. /\ client' = "handshake" => up'.written = << >>
        /\ client' \in {"request", "status"} => up'.written # << >>
        /\ up'.written # << >> => up'.written[1] = [id |-> 0, data |-> EncodeHandshake(Wanted'[j])]
        /\ server' = "handshake" => up'.read = << >>
    BY <1>3, <1>6 DEF Amid
  <2>3. server' \in {"request", "decide"} => handshake' = Wanted'[j]
    BY <1>3, <1>6 DEF Amid
  <2>4. /\ server' \in {"handshake", "request", "decide"} => Told(j - 1)'
        /\ server' \in {"answer", "ping"} \/ down'.written # << >> => Told(j)'
    BY <1>2, <1>6 DEF Amid
  <2>5. QED
    BY <2>1, <2>2, <2>3, <2>4 DEF Amid
<1>7. QED
  BY <1>1, <1>4, <1>5, <1>6 DEF Asks

LEMMA InitAsks ==
  ASSUME RoomForPiece, Init
  PROVE  Asks
<1> SUFFICES ASSUME query # None PROVE Asks
  BY DEF Asks
<1>1. /\ query \in Queries /\ server = "none" /\ understood = None /\ text = << >>
      /\ visits = IF Encodable(query) THEN Wanted ELSE << >>
      /\ client = IF visits = << >> THEN "failed" ELSE "dial"
  BY DEF Init, Wanted
<1>2. CASE visits = << >>
  BY <1>1, <1>2 DEF Asks
<1>3. CASE visits # << >>
  <2>1. Encodable(query) /\ visits = Wanted /\ client = "dial"
    BY <1>1, <1>3
  <2>2. /\ Wanted \in Seq(Visit) /\ Len(Wanted) \in Nat
        /\ Len(Wanted) > 1 => FirstPieces(EncodeQuery(query), MaxPieceLength, 0) = << >>
    BY <1>1, <2>1, QueryAsked DEF Wanted
  <2>3. Len(Wanted) # 0
    BY <1>3, <2>1, <2>2
  <2>4. Told(0)
    BY <1>1, <2>2, <2>3 DEF Told
  <2>5. Remaining(0)
    BY <2>1, <2>2 DEF Remaining
  <2>6. Behind(0) /\ 0 \in 0..Len(Wanted)
    BY <1>1, <2>1, <2>2, <2>3, <2>4, <2>5 DEF Behind
  <2>7. QED
    BY <1>1, <2>1, <2>6 DEF Asks
<1>4. QED
  BY <1>2, <1>3

\* The number of addresses.
LEMMA PlanLength ==
  ASSUME RoomForPiece, Asks, query # None, Encodable(query)
  PROVE  Wanted \in Seq(Visit) /\ Len(Wanted) \in Nat
BY QueryAsked DEF Asks, Wanted

LEMMA DialAsks ==
  ASSUME RoomForPiece, Asks, Dial
  PROVE  Asks'
<1>1. /\ client = "dial" /\ client' = "handshake" /\ server' = "handshake"
      /\ up' = Silent /\ down' = Silent
      /\ UNCHANGED <<query, visits, text, understood>>
  BY DEF Dial
<1> SUFFICES ASSUME query # None PROVE Asks'
  BY <1>1 DEF Asks
<1>2. /\ query \in Queries /\ (understood # None => understood = Restored(query))
      /\ Encodable(query)
      /\ \E j \in 0..Len(Wanted) : Behind(j)
  BY <1>1 DEF Asks, Amid
<1>3. PICK j \in 0..Len(Wanted) : Behind(j)
  BY <1>2
<1>4. Len(Wanted) \in Nat /\ j # Len(Wanted) /\ Remaining(j) /\ Told(j)
  BY <1>1, <1>2, <1>3, PlanLength DEF Behind
<1> DEFINE i == j + 1
<1>5. i \in 1..Len(Wanted) /\ i - 1 = j
  BY <1>4
<1>6. Told(j)' /\ Remaining(j)' /\ Wanted' = Wanted
  BY <1>1, <1>4, ToldStays, RemainingStays, PlanStays
<1>7. up'.written = << >> /\ up'.read = << >> /\ down'.written = << >>
  BY <1>1 DEF Silent
<1> HIDE DEF i
<1>8. Amid(i)'
  BY <1>1, <1>5, <1>6, <1>7 DEF Amid
<1>9. QED
  BY <1>1, <1>2, <1>5, <1>6, <1>8 DEF Asks

LEMMA SendHandshakeAsks ==
  ASSUME RoomForPiece, IInv, Asks, SendHandshake
  PROVE  Asks'
<1> DEFINE frame == [id |-> 0, data |-> EncodeHandshake(Head(visits))]
<1>1. /\ client = "handshake" /\ client' = "request"
      /\ up' = Send(up, 0, EncodeHandshake(Head(visits)))
      /\ UNCHANGED <<query, visits, server, down, handshake, text, understood>>
  BY DEF SendHandshake
<1> SUFFICES ASSUME query # None PROVE Asks'
  BY <1>1 DEF Asks
<1>2. /\ query \in Queries /\ (understood # None => understood = Restored(query))
      /\ Encodable(query)
      /\ \E j \in 1..Len(Wanted) : Amid(j)
  BY <1>1 DEF Asks, Behind
<1>3. PICK j \in 1..Len(Wanted) : Amid(j)
  BY <1>2
<1>4. Len(Wanted) \in Nat /\ Wanted \in Seq(Visit)
  BY <1>2, PlanLength
<1>5. visits \in Seq(Visit) /\ visits # << >>
  BY <1>1 DEF IInv, Typed
<1>6. Remaining(j - 1)
  BY <1>1, <1>3 DEF Amid
<1>7. Head(visits) = Wanted[j]
  <2>1. 1 \in 1..Len(visits) /\ Head(visits) = visits[1]
    BY <1>5
  <2>2. visits[1] = Wanted[(j - 1) + 1]
    BY <1>6, <2>1 DEF Remaining
  <2>3. (j - 1) + 1 = j
    BY <1>4
  <2>4. QED
    BY <2>1, <2>2, <2>3
<1>8. up'.written = <<frame>> /\ up'.read = up.read
  <2>1. Head(visits) \in Visit /\ WayOK(up)
    BY <1>5 DEF IInv, Typed
  <2> DEFINE data == EncodeHandshake(Head(visits))
  <2>2. data \in Seq(Nat) /\ Len(data) + 3 \in Small
    BY <2>1, HandshakeEncoded
  <2>3. up' = Send(up, 0, data)
    BY <1>1
  <2> HIDE DEF data
  <2>4. up'.read = up.read /\ up'.written = Append(up.written, [id |-> 0, data |-> data])
    BY <2>1, <2>2, <2>3, Sizes, SendOK
  <2>5. up.written = << >>
    BY <1>1, <1>3 DEF Amid
  <2>6. QED
    BY <2>4, <2>5 DEF data
<1>9. up'.written # << >> /\ up'.written[1] = [id |-> 0, data |-> EncodeHandshake(Wanted[j])]
  <2> HIDE DEF frame
  <2>1. up'.written # << >> /\ up'.written[1] = frame
    BY <1>8
  <2>2. QED
    BY <1>7, <2>1 DEF frame
<1>10. /\ Wanted' = Wanted /\ (Told(j)' <=> Told(j)) /\ (Told(j - 1)' <=> Told(j - 1))
       /\ Remaining(j - 1)'
  BY <1>1, <1>6, ToldStays, RemainingStays, PlanStays
<1> HIDE DEF frame
<1>11. Amid(j)'
  <2>1. /\ client' \in {"handshake", "request", "status", "failed"} /\ server' # "login"
        /\ client' # "failed" => Remaining(j - 1)'
    BY <1>1, <1>3, <1>10 DEF Amid
  <2>2. /\ client' = "handshake" => up'.written = << >>
        /\ client' \in {"request", "status"} => up'.written # << >>
        /\ up'.written # << >> => up'.written[1] = [id |-> 0, data |-> EncodeHandshake(Wanted'[j])]
    BY <1>1, <1>9, <1>10
  <2>3. /\ server' = "handshake" => up'.read = << >>
        /\ server' \in {"request", "decide"} => handshake' = Wanted'[j]
    BY <1>1, <1>3, <1>8, <1>10 DEF Amid
  <2>4. /\ server' \in {"handshake", "request", "decide"} => Told(j - 1)'
        /\ server' \in {"answer", "ping"} \/ down'.written # << >> => Told(j)'
    BY <1>1, <1>3, <1>10 DEF Amid
  <2>5. QED
    BY <2>1, <2>2, <2>3, <2>4 DEF Amid
<1>12. QED
  BY <1>1, <1>2, <1>10, <1>11 DEF Asks

LEMMA SendStatusRequestAsks ==
  ASSUME RoomForPiece, IInv, Asks, SendStatusRequest
  PROVE  Asks'
<1> DEFINE frame == [id |-> 0, data |-> << >>]
<1>1. /\ client = "request" /\ client' = "status"
      /\ up' = Send(up, 0, << >>)
      /\ UNCHANGED <<query, visits, server, down, handshake, text, understood>>
  BY DEF SendStatusRequest
<1> SUFFICES ASSUME query # None PROVE Asks'
  BY <1>1 DEF Asks
<1>2. /\ query \in Queries /\ (understood # None => understood = Restored(query))
      /\ Encodable(query)
      /\ \E j \in 1..Len(Wanted) : Amid(j)
  BY <1>1 DEF Asks, Behind
<1>3. PICK j \in 1..Len(Wanted) : Amid(j)
  BY <1>2
<1>4. Remaining(j - 1)
  BY <1>1, <1>3 DEF Amid
<1>5. WayOK(up) /\ up.written \in Seq(Frame)
  BY DEF IInv, Typed, WayOK, Way
<1>6. up'.read = up.read /\ up'.written = Append(up.written, frame)
  BY <1>1, <1>5, Sizes, SendOK
<1>7. up.written # << >> /\ up.written[1] = [id |-> 0, data |-> EncodeHandshake(Wanted[j])]
  BY <1>1, <1>3 DEF Amid
<1>8. up'.written # << >> /\ up'.written[1] = up.written[1]
  <2>1. frame \in Frame
    BY DEF Frame
  <2> HIDE DEF frame
  <2>2. QED
    BY <1>5, <1>6, <1>7, <2>1
<1>9. /\ Wanted' = Wanted /\ (Told(j)' <=> Told(j)) /\ (Told(j - 1)' <=> Told(j - 1))
      /\ Remaining(j - 1)'
  BY <1>1, <1>4, ToldStays, RemainingStays, PlanStays
<1> HIDE DEF frame
<1>10. Amid(j)'
  <2>1. /\ client' \in {"handshake", "request", "status", "failed"} /\ server' # "login"
        /\ client' # "failed" => Remaining(j - 1)'
    BY <1>1, <1>3, <1>9 DEF Amid
  <2>2. /\ client' = "handshake" => up'.written = << >>
        /\ client' \in {"request", "status"} => up'.written # << >>
        /\ up'.written # << >> => up'.written[1] = [id |-> 0, data |-> EncodeHandshake(Wanted'[j])]
    BY <1>1, <1>7, <1>8, <1>9
  <2>3. /\ server' = "handshake" => up'.read = << >>
        /\ server' \in {"request", "decide"} => handshake' = Wanted'[j]
    BY <1>1, <1>3, <1>6, <1>9 DEF Amid
  <2>4. /\ server' \in {"handshake", "request", "decide"} => Told(j - 1)'
        /\ server' \in {"answer", "ping"} \/ down'.written # << >> => Told(j)'
    BY <1>1, <1>3, <1>9 DEF Amid
  <2>5. QED
    BY <2>1, <2>2, <2>3, <2>4 DEF Amid
<1>11. QED
  BY <1>1, <1>2, <1>9, <1>10 DEF Asks

LEMMA GiveUpAsks ==
  ASSUME Asks, GiveUp
  PROVE  Asks'
<1>1. /\ client \in {"handshake", "request", "status"} /\ client' = "failed"
      /\ UNCHANGED <<query, visits, server, up, down, handshake, text, understood>>
  BY DEF GiveUp, connection
<1>2. QED
  BY <1>1, AsksStays

\* A client that reads an answer has one address more behind it.
LEMMA ReadStatusAsks ==
  ASSUME RoomForPiece, IInv, Asks, ReadStatus
  PROVE  Asks'
<1> DEFINE frame == Incoming(down, ReplyLimit)
<1>1. /\ client = "status" /\ frame.status # "more"
      /\ UNCHANGED <<query, server, handshake, text, understood>>
  BY DEF ReadStatus
<1>2. CASE frame.status = "bad" \/ frame.value.id # 0
  <2>1. client' = "failed" /\ UNCHANGED <<visits, up, down>>
    BY <1>2 DEF ReadStatus
  <2>2. QED
    BY <1>1, <2>1, AsksStays
<1>3. CASE ~(frame.status = "bad" \/ frame.value.id # 0) /\ client' = "failed"
  <2>1. UNCHANGED <<visits, up>> /\ down' = Read(down, frame)
    BY <1>3 DEF ReadStatus
  <2>2. down'.written = down.written
    <3>1. down \in Way
      BY DEF IInv, Typed, WayOK
    <3> HIDE DEF frame
    <3>2. QED
      BY <2>1, <3>1 DEF Read, Way
  <2>3. QED
    BY <1>1, <1>3, <2>1, <2>2, AsksStays
<1>4. CASE ~(frame.status = "bad" \/ frame.value.id # 0) /\ client' # "failed"
  <2>1. visits' = Tail(visits) /\ client' = IF Len(visits) = 1 THEN "done" ELSE "dial"
    BY <1>4 DEF ReadStatus
  <2>2. frame.status = "ok" /\ ReplyLimit \in Nat /\ WayOK(down) /\ InSync(down)
    <3>1. ReplyLimit \in Nat /\ WayOK(down) /\ InSync(down)
      BY ExchangeAssumption DEF IInv, Typed, Along
    <3>2. frame.status \in {"more", "bad", "ok"}
      BY <3>1, IncomingStatus
    <3> HIDE DEF frame
    <3>3. QED
      BY <1>1, <1>4, <3>1, <3>2
  <2>3. Len(down.read) < Len(down.written)
    BY <2>2, ReadOK
  <2>4. down.written # << >>
    <3>1. Len(down.read) \in Nat
      BY <2>2 DEF WayOK, Way
    <3>2. Len(down.written) # 0
      BY <2>2, <2>3, <3>1 DEF WayOK, Way
    <3>3. QED
      BY <3>2
  <2>5. server \notin {"handshake", "request", "login", "decide", "answer"}
    BY <2>4 DEF IInv, Along
  <2> HIDE DEF frame
  <2> SUFFICES ASSUME query # None PROVE Asks'
    BY <1>1 DEF Asks
  <2>6. /\ query \in Queries /\ (understood # None => understood = Restored(query))
        /\ Encodable(query)
        /\ \E j \in 1..Len(Wanted) : Amid(j)
    BY <1>1 DEF Asks, Behind
  <2>7. PICK j \in 1..Len(Wanted) : Amid(j)
    BY <2>6
  <2>8. Len(Wanted) \in Nat /\ Wanted \in Seq(Visit)
    BY <2>6, PlanLength
  <2>9. visits \in Seq(Visit) /\ visits # << >>
    BY <1>1 DEF IInv, Typed
  <2>10. Remaining(j - 1) /\ Told(j)
    BY <1>1, <2>4, <2>7 DEF Amid
  <2>11. Wanted' = Wanted /\ Told(j)'
    BY <1>1, <2>10, ToldStays, PlanStays
  <2>12. /\ Len(visits) = Len(Wanted) - (j - 1) /\ Len(visits) \in Nat \ {0}
         /\ \A i \in 1..Len(visits) : visits[i] = Wanted[(j - 1) + i]
    BY <2>9, <2>10 DEF Remaining
  <2>13. Remaining(j)'
    <3>1. /\ Len(Tail(visits)) = Len(visits) - 1
          /\ \A i \in 1..Len(Tail(visits)) : Tail(visits)[i] = visits[i + 1]
      BY <2>9
    <3>2. Len(visits') = Len(Wanted) - j
      BY <2>1, <2>8, <2>12, <3>1
    <3>3. ASSUME NEW i \in 1..Len(visits') PROVE visits'[i] = Wanted[j + i]
      <4>1. i \in 1..Len(Tail(visits)) /\ i + 1 \in 1..Len(visits) /\ (j - 1) + (i + 1) = j + i
        BY <2>1, <2>8, <2>12, <3>1, <3>3
      <4>2. visits[i + 1] = Wanted[(j - 1) + (i + 1)]
        BY <2>12, <4>1
      <4>3. QED
        BY <2>1, <3>1, <4>1, <4>2
    <3>4. QED
      BY <2>11, <3>2, <3>3 DEF Remaining
  <2>14. client' = IF j = Len(Wanted) THEN "done" ELSE "dial"
    <3>1. Len(visits) = 1 <=> j = Len(Wanted)
      BY <2>8, <2>12
    <3>2. QED
      BY <2>1, <3>1
  <2>15. Behind(j)' /\ j \in 0..Len(Wanted)
    BY <1>1, <2>5, <2>8, <2>11, <2>13, <2>14 DEF Behind
  <2>16. QED
    BY <1>1, <2>6, <2>11, <2>15 DEF Asks
<1>5. QED
  BY <1>2, <1>3, <1>4

(* The server reads what the client wrote first as the address it was, and what *)
(* comes after changes nothing that it has been told.                           *)
LEMMA ServerReadsAsks ==
  ASSUME RoomForPiece, IInv, Asks, ServerReads
  PROVE  Asks'
<1> DEFINE frame == Incoming(up, MaxFrameSize)
<1>1. /\ server \in {"handshake", "request", "login", "ping"}
      /\ frame.status # "more"
      /\ UNCHANGED <<query, visits, client, text, understood>>
  BY DEF ServerReads
<1>2. CASE frame.status = "bad"
  <2>1. server' = "closed" /\ UNCHANGED <<handshake, down, up>>
    BY <1>2 DEF ServerReads, Close
  <2>2. QED
    BY <1>1, <2>1, AsksStays
<1>3. CASE frame.status # "bad"
  <2>1. frame.status = "ok" /\ MaxFrameSize \in Nat /\ WayOK(up)
    <3>1. MaxFrameSize \in Nat /\ WayOK(up)
      BY ExchangeAssumption DEF IInv, Typed
    <3>2. frame.status \in {"more", "bad", "ok"}
      BY <3>1, IncomingStatus
    <3> HIDE DEF frame
    <3>3. QED
      BY <1>1, <1>3, <3>1, <3>2
  <2>2. up' = Read(up, frame)
    BY <1>3 DEF ServerReads
  <2>3. /\ up'.written = up.written
        /\ InSync(up) => frame.value = up.written[Len(up.read) + 1] /\ Len(up.read) < Len(up.written)
    BY <2>1, <2>2, ReadOK
  <2>4. \/ server = "handshake" /\ TakeHandshake(frame.value)
        \/ server = "request" /\ TakeRequest(frame.value)
        \/ server = "login" /\ TakeLogin
        \/ server = "ping" /\ TakePing(frame.value)
    BY <1>3 DEF ServerReads
  <2> HIDE DEF frame
  <2> SUFFICES ASSUME query # None PROVE Asks'
    BY <1>1 DEF Asks
  <2>5. /\ query \in Queries /\ (understood # None => understood = Restored(query))
        /\ Encodable(query)
        /\ \/ \E j \in 0..Len(Wanted) : Behind(j)
           \/ \E j \in 1..Len(Wanted) : Amid(j)
    BY <1>1 DEF Asks
  <2>6. Wanted' = Wanted /\ Len(Wanted) \in Nat
    BY <1>1, <2>5, PlanStays, PlanLength
  <2>7. \A j : (Told(j)' <=> Told(j)) /\ (Remaining(j)' <=> Remaining(j))
    BY <1>1, ToldStays, RemainingStays
  <2>8. server \in {"handshake", "request", "ping"}
    BY <1>1, <2>5 DEF Behind, Amid
  <2>9. CASE \E j \in 0..Len(Wanted) : Behind(j)
    <3>1. PICK j \in 0..Len(Wanted) : Behind(j)
      BY <2>9
    <3>2. server = "ping"
      BY <2>8, <3>1 DEF Behind
    <3>3. server' = "closed"
      BY <2>4, <3>2 DEF TakePing
    <3>4. Behind(j)'
      BY <1>1, <2>6, <2>7, <3>1, <3>3 DEF Behind
    <3>5. QED
      BY <1>1, <2>5, <2>6, <3>1, <3>4 DEF Asks
  <2>10. CASE \E j \in 1..Len(Wanted) : Amid(j)
    <3>1. PICK j \in 1..Len(Wanted) : Amid(j)
      BY <2>10
    <3>2. client # "stranger"
      BY <3>1 DEF Amid
    <3>3. InSync(up)
      BY <3>2 DEF IInv, Along
    <3>4. /\ client' \in {"handshake", "request", "status", "failed"}
          /\ client' # "failed" => Remaining(j - 1)'
          /\ client' = "handshake" => up'.written = << >>
          /\ client' \in {"request", "status"} => up'.written # << >>
          /\ up'.written # << >> => up'.written[1] = [id |-> 0, data |-> EncodeHandshake(Wanted'[j])]
      BY <1>1, <2>3, <2>6, <2>7, <3>1 DEF Amid
    <3>5. /\ server' \in {"request", "decide", "closed"}
          /\ server' \in {"request", "decide"} =>
               Told(j - 1) /\ handshake' = Wanted[j] /\ down' = down
          /\ down'.written # << >> => Told(j)
      <4>1. CASE server = "handshake"
        <5>1. TakeHandshake(frame.value)
          BY <2>4, <4>1
        <5>2. up.read = << >> /\ Told(j - 1)
          BY <3>1, <4>1 DEF Amid
        <5>3. frame.value = up.written[1] /\ up.written # << >>
          <6>1. up.read = << >> /\ Len(up.read) = 0
            BY <5>2
          <6>2. frame.value = up.written[0 + 1] /\ 0 < Len(up.written)
            BY <2>3, <3>3, <6>1
          <6>3. up.written # << >>
            BY <6>2
          <6>4. QED
            BY <6>2, <6>3
        <5>4. frame.value.id = 0 /\ frame.value.data = EncodeHandshake(Wanted[j])
          BY <3>1, <5>3 DEF Amid
        <5>5. Wanted[j] \in Visit /\ Wanted[j].nextState = 1
          <6>1. /\ Wanted \in Seq(Visit)
                /\ \A i \in 1..Len(Wanted) : Wanted[i].nextState = 1
            BY <2>5, QueryAsked DEF Wanted
          <6>2. QED
            BY <3>1, <6>1
        <5> DEFINE parsed == ParseHandshake(EncodeHandshake(Wanted[j]))
        <5>6. parsed.status = "ok" => parsed.value = Wanted[j]
          BY <5>5, HandshakeRead
        <5> HIDE DEF parsed
        <5>7. /\ server' \in {"request", "closed"} /\ down' = down
              /\ server' = "request" => handshake' = Wanted[j]
          <6>1. CASE parsed.status = "ok"
            <7>1. parsed.value.nextState = 1
              BY <5>5, <5>6, <6>1
            <7>2. server' = "request" /\ handshake' = parsed.value /\ down' = down
              BY <5>1, <5>4, <6>1, <7>1 DEF TakeHandshake, parsed
            <7>3. QED
              BY <5>6, <6>1, <7>2
          <6>2. CASE parsed.status # "ok"
            BY <5>1, <5>4, <6>2 DEF TakeHandshake, Close, parsed
          <6>3. QED
            BY <6>1, <6>2
        <5>8. down.written # << >> => Told(j)
          BY <3>1 DEF Amid
        <5>9. QED
          BY <5>2, <5>7, <5>8
      <4>2. CASE server = "request"
        <5>1. /\ server' \in {"decide", "closed"} /\ handshake' = handshake /\ down' = down
          BY <2>4, <4>2 DEF TakeRequest, Close
        <5>2. Told(j - 1) /\ handshake = Wanted[j] /\ (down.written # << >> => Told(j))
          BY <3>1, <4>2 DEF Amid
        <5>3. QED
          BY <5>1, <5>2
      <4>3. CASE server = "ping"
        <5>1. server' = "closed" /\ Told(j)
          BY <2>4, <3>1, <4>3 DEF TakePing, Amid
        <5>2. QED
          BY <5>1
      <4>4. QED
        BY <2>8, <4>1, <4>2, <4>3
    <3>6. Amid(j)'
      BY <2>6, <2>7, <3>4, <3>5 DEF Amid
    <3>7. QED
      BY <1>1, <2>5, <2>6, <3>1, <3>6 DEF Asks
  <2>11. QED
    BY <2>5, <2>9, <2>10
<1>4. QED
  BY <1>2, <1>3

LEMMA HangupAsks ==
  ASSUME Asks, Hangup
  PROVE  Asks'
<1>1. /\ server # "none" /\ server' = "closed"
      /\ UNCHANGED <<query, visits, client, up, down, handshake, text, understood>>
  BY DEF Hangup, Close
<1>2. QED
  BY <1>1, AsksStays

LEMMA AnswerAsks ==
  ASSUME Asks, Answer
  PROVE  Asks'
<1>1. UNCHANGED <<query, visits, client, server, up, down, handshake, text, understood>>
  BY DEF Answer, connection
<1>2. QED
  BY <1>1, AsksStays

LEMMA ArriveAsks ==
  ASSUME IInv, Asks, Arrive
  PROVE  Asks'
<1>1. /\ UNCHANGED <<query, visits, client, server, handshake, text, understood>>
  BY DEF Arrive
<1>2. WayOK(up) /\ WayOK(down)
  BY DEF IInv, Typed
<1>3. up'.written = up.written /\ up'.read = up.read /\ down'.written = down.written
  <2>1. CASE up.arrived < Len(up.bytes) /\ up' \in Arrived(up) /\ UNCHANGED down
    BY <1>2, <2>1, ArriveOK
  <2>2. CASE down.arrived < Len(down.bytes) /\ down' \in Arrived(down) /\ UNCHANGED up
    BY <1>2, <2>2, ArriveOK
  <2>3. QED
    BY <2>1, <2>2 DEF Arrive
<1>4. QED
  BY <1>1, <1>3, AsksStays

\* What the server decides tells it of one address more.
LEMMA Decided ==
  ASSUME RoomForPiece, Asks, Decide, query # None, Encodable(query),
         NEW j \in 1..Len(Wanted), Amid(j)
  PROVE  /\ Told(j)' /\ server' \in {"answer", "ping"}
         /\ understood' \in {understood, Restored(query)}
<1> DEFINE word == EncodeQuery(query)
           n == Len(Wanted)
           rest == Remainder(Bare(handshake))
<1>1. /\ server = "decide" /\ query' = query /\ Wanted' = Wanted /\ query \in Queries
  BY PlanStays DEF Decide, Asks
<1>2. handshake = Wanted[j] /\ Told(j - 1)
  BY <1>1 DEF Amid
<1>3. /\ Restored(query) # None /\ DecodeQuery(word) = Ok(Restored(query), Len(word))
      /\ n \in Nat
      /\ n = 1 => WholeIn(word, Wanted[1])
      /\ n > 1 => /\ FirstPieces(word, MaxPieceLength, n) = word
                  /\ \A i \in 1..n : PieceIn(word, n, i, Wanted[i])
  BY <1>1, QueryAsked DEF Wanted
<1> HIDE DEF word
<1>4. ASSUME NEW length, Serve(word, length)
      PROVE  understood' = Restored(query) /\ server' = "answer"
  <2>1. DecodeQuery(word).status = "ok" /\ DecodeQuery(word).value = Restored(query)
    BY <1>3 DEF Ok
  <2>2. QED
    BY <1>4, <2>1 DEF Serve
<1>5. CASE n = 1
  <2>1. j = 1 /\ WholeIn(word, handshake)
    BY <1>2, <1>3, <1>5
  <2>2. /\ Authentic(Bare(handshake)) /\ rest = word /\ ~IsFragment(rest, handshake.port)
    BY <2>1 DEF WholeIn
  <2>3. Serve(rest, IF HasSuffix(handshake.address) THEN DNSLength ELSE VanillaLength)
    BY <2>2 DEF Decide, Bare
  <2> HIDE DEF rest, n
  <2>4. understood' = Restored(query) /\ server' = "answer"
    BY <1>4, <2>2, <2>3
  <2>5. Told(j)'
    <3>1. ~(Len(Wanted') > 1)
      BY <1>1, <1>5 DEF n
    <3>2. QED
      BY <1>3, <2>4, <3>1 DEF Told
  <2>6. QED
    BY <2>4, <2>5
<1>6. CASE n > 1
  <2>1. PieceIn(word, n, j, handshake) /\ FirstPieces(word, MaxPieceLength, n) = word
    BY <1>2, <1>3, <1>6
  <2>2. /\ Authentic(Bare(handshake)) /\ IsFragment(rest, handshake.port)
        /\ handshake.port \div 256 = j /\ (handshake.port % 256) = n
        /\ FirstPieces(word, MaxPieceLength, j - 1) \o PieceOf(rest) = FirstPieces(word, MaxPieceLength, j)
    BY <2>1 DEF PieceIn
  <2>3. text = FirstPieces(word, MaxPieceLength, j - 1)
    BY <1>2, <1>6 DEF Told, word
  <2>4. text \o PieceOf(rest) = FirstPieces(word, MaxPieceLength, j)
    BY <2>2, <2>3
  <2>5. /\ text' = text \o PieceOf(rest)
        /\ IF handshake.port \div 256 = (handshake.port % 256)
             THEN Serve(text \o PieceOf(rest), DNSLength)
             ELSE Reply(DNSLength) /\ UNCHANGED understood
    <3> DEFINE index == handshake.port \div 256
               total == handshake.port % 256
    <3>1. IF index = total
            THEN Serve(text \o PieceOf(rest), DNSLength)
            ELSE Reply(DNSLength) /\ UNCHANGED understood
      BY <2>2 DEF Decide, Bare
    <3>2. text' = text \o PieceOf(rest)
      BY <2>2 DEF Decide, Bare
    <3>3. QED
      BY <3>1, <3>2
  <2> DEFINE whole == text \o PieceOf(rest)
  <2> HIDE DEF rest, n
  <2>6. /\ text' = FirstPieces(word, MaxPieceLength, j)
        /\ j = n => Serve(word, DNSLength)
        /\ j # n => Reply(DNSLength) /\ UNCHANGED understood
    BY <2>1, <2>2, <2>4, <2>5
  <2>7. CASE j = n
    <3>1. understood' = Restored(query) /\ server' = "answer"
      BY <1>4, <2>6, <2>7
    <3>2. Told(j)'
      BY <1>1, <1>3, <2>6, <3>1 DEF Told, word
    <3>3. QED
      BY <3>1, <3>2
  <2>8. CASE j # n
    <3>1. server' = "ping" /\ understood' = understood
      BY <2>6, <2>8 DEF Reply
    <3>2. Told(j)'
      BY <1>1, <2>6, <2>8 DEF Told, word, n
    <3>3. QED
      BY <3>1, <3>2
  <2>9. QED
    BY <2>7, <2>8
<1>7. QED
  <2>1. n = 1 \/ n > 1
    <3>1. n \in Nat /\ j \in 1..n
      BY <1>3
    <3> HIDE DEF n
    <3>2. QED
      BY <3>1
  <2>2. QED
    BY <1>5, <1>6, <2>1

LEMMA DecideAsks ==
  ASSUME RoomForPiece, Asks, Decide
  PROVE  Asks'
<1>1. server = "decide" /\ UNCHANGED <<query, visits, client, up, handshake>>
  BY DEF Decide
<1> SUFFICES ASSUME query # None PROVE Asks'
  BY <1>1 DEF Asks
<1>2. /\ query \in Queries /\ (understood # None => understood = Restored(query))
      /\ Encodable(query)
      /\ \E j \in 1..Len(Wanted) : Amid(j)
  BY <1>1 DEF Asks, Behind
<1>3. PICK j \in 1..Len(Wanted) : Amid(j)
  BY <1>2
<1>4. /\ Told(j)' /\ server' \in {"answer", "ping"}
      /\ understood' \in {understood, Restored(query)}
  BY <1>2, <1>3, Decided
<1>5. Wanted' = Wanted /\ (Remaining(j - 1)' <=> Remaining(j - 1))
  BY <1>1, PlanStays, RemainingStays
<1>6. Amid(j)'
  BY <1>1, <1>3, <1>4, <1>5 DEF Amid
<1>7. QED
  BY <1>1, <1>2, <1>3, <1>4, <1>5, <1>6 DEF Asks

LEMMA SendAnswerAsks ==
  ASSUME RoomForPiece, Asks, SendAnswer
  PROVE  Asks'
<1>1. /\ server = "answer" /\ server' = "ping"
      /\ UNCHANGED <<query, visits, client, up, handshake, text, understood>>
  BY DEF SendAnswer, Reply
<1> SUFFICES ASSUME query # None PROVE Asks'
  BY <1>1 DEF Asks
<1>2. /\ query \in Queries /\ (understood # None => understood = Restored(query))
      /\ Encodable(query)
      /\ \E j \in 1..Len(Wanted) : Amid(j)
  BY <1>1 DEF Asks, Behind
<1>3. PICK j \in 1..Len(Wanted) : Amid(j)
  BY <1>2
<1>4. Told(j)
  BY <1>1, <1>3 DEF Amid
<1>5. Wanted' = Wanted /\ Told(j)' /\ (Remaining(j - 1)' <=> Remaining(j - 1))
  BY <1>1, <1>4, PlanStays, RemainingStays, ToldStays
<1>6. Amid(j)'
  BY <1>1, <1>3, <1>5 DEF Amid
<1>7. QED
  BY <1>1, <1>2, <1>3, <1>5, <1>6 DEF Asks

LEMMA AsksHolds == ASSUME RoomForPiece PROVE Spec => []Asks
<1>1. Init => Asks
  BY InitAsks
<1>2. IInv /\ Asks /\ [Next]_vars => Asks'
  <2> SUFFICES ASSUME IInv, Asks, [Next]_vars PROVE Asks'
    OBVIOUS
  <2>1. CASE UNCHANGED vars \/ Finished
    <3>1. UNCHANGED <<query, visits, client, server, up, down, handshake, text, understood>>
      BY <2>1 DEF vars, connection, Finished
    <3>2. QED
      BY <3>1, AsksStays
  <2>2. QED
    BY <2>1, DialAsks, SendHandshakeAsks, SendStatusRequestAsks, ReadStatusAsks, GiveUpAsks,
       ServerReadsAsks, HangupAsks, DecideAsks, AnswerAsks, SendAnswerAsks, ArriveAsks DEF Next
<1>3. QED
  BY <1>1, <1>2, IInvHolds, PTL DEF Spec

\* What a query keeps of what was asked.
KeptIn(asked, found) ==
  /\ Len(found.name) = Len(asked.name)
  /\ \A i \in DOMAIN asked.name : found.name[i] = Lower(asked.name[i])
  /\ found.type = asked.type /\ found.class = ClassINET
  /\ found.edns = 0 <=> asked.edns = 0
  /\ found.edns <= Max({512, asked.edns})

LEMMA RestoredKeeps ==
  ASSUME NEW asked, Askable(asked)
  PROVE  KeptIn(asked, Restored(asked))
<1> DEFINE name == LoweredName(asked)
           e == asked.edns
           size == IF e = 0 THEN 0 ELSE 256 * EncodeEdnsSize(e)
<1>1. Restored(asked) = [name |-> name, type |-> asked.type, class |-> ClassINET, edns |-> size]
  BY DEF Restored
<1>2. Len(name) = Len(asked.name) /\ \A i \in DOMAIN asked.name : name[i] = Lower(asked.name[i])
  BY NameLowered DEF LoweredName
<1>3. e \in Nat /\ e < Endless
  BY DEF Askable
<1> HIDE DEF name, e
<1>4. size = 0 <=> e = 0
  <2>1. EncodeEdnsSize(e) \in Nat /\ EncodeEdnsSize(e) > 0
    <3>1. EncodeEdnsSize(e) \in Byte /\ EncodeEdnsSize(e) > 0
      BY <1>3, EdnsEncoded
    <3> DEFINE units == EncodeEdnsSize(e)
    <3>2. units \in Byte /\ units > 0
      BY <3>1
    <3> HIDE DEF units
    <3>3. units \in Nat /\ units > 0
      BY <3>2 DEF Byte
    <3>4. QED
      BY <3>3 DEF units
  <2>2. QED
    BY <2>1
<1>5. size <= Max({512, e})
  <2>1. 256 * EncodeEdnsSize(e) <= Max({512, e})
    BY <1>3, EdnsEncoded
  <2>2. {512, e} \in SUBSET Nat /\ {512, e} # {}
    BY <1>3
  <2>3. e = 0 => size = 0 /\ Max({512, e}) >= 0
    <3> DEFINE five == 512
    <3>1. five \in Nat /\ e \in Nat
      BY <1>3
    <3> HIDE DEF five
    <3>2. Max({five, e}) = IF five >= e THEN five ELSE e
      BY <3>1, Larger
    <3>3. Max({five, e}) >= 0
      BY <3>1, <3>2
    <3>4. QED
      BY <3>3 DEF five
  <2>4. QED
    BY <2>1, <2>3
<1> HIDE DEF size
<1>6. QED
  BY <1>1, <1>2, <1>4, <1>5 DEF KeptIn, name, e

(* What the server resolves is what the client asked for: for every query, secret,    *)
(* suffix, table of TLDs and limit, and in whatever pieces the bytes arrive, what     *)
(* DecodeQuery makes of the addresses StripSuffix, extractPassphrase and isFragmented *)
(* have taken apart is what EncodeQuery was given, but for the case of its letters    *)
(* and a buffer that is not larger; and a client that has had all its answers has     *)
(* been understood.  The suffix and the passphrase leave room for the shortest piece: *)
(* without it a query can be cut into a single piece, which isFragmented does not     *)
(* take for one.                                                                      *)
THEOREM QueryUnderstoodHolds == ASSUME RoomForPiece PROVE Spec => []QueryUnderstood
<1>1. Asks => QueryUnderstood
  <2> SUFFICES ASSUME Asks, query # None
               PROVE  /\ understood # None =>
                           /\ Len(understood.name) = Len(query.name)
                           /\ \A i \in DOMAIN query.name : understood.name[i] = Lower(query.name[i])
                           /\ understood.type = query.type /\ understood.class = query.class
                           /\ understood.edns = 0 <=> query.edns = 0
                           /\ understood.edns <= Max({512, query.edns})
                      /\ client = "done" => understood # None
    BY DEF QueryUnderstood
  <2>1. /\ query \in Queries
        /\ understood # None => understood = Restored(query)
        /\ \/ client = "failed" /\ server = "none" /\ understood = None
           \/ /\ Encodable(query)
              /\ \/ \E j \in 0..Len(Wanted) : Behind(j)
                 \/ \E j \in 1..Len(Wanted) : Amid(j)
    BY DEF Asks
  <2>2. ASSUME client = "done" PROVE understood # None
    <3>1. Encodable(query) /\ \E j \in 0..Len(Wanted) : Behind(j)
      BY <2>1, <2>2 DEF Amid
    <3>2. PICK j \in 0..Len(Wanted) : Behind(j)
      BY <3>1
    <3>3. j = Len(Wanted) /\ Told(j)
      BY <2>2, <3>2 DEF Behind
    <3>4. QED
      BY <3>3 DEF Told
  <2>3. ASSUME understood # None
        PROVE  /\ Len(understood.name) = Len(query.name)
               /\ \A i \in DOMAIN query.name : understood.name[i] = Lower(query.name[i])
               /\ understood.type = query.type /\ understood.class = query.class
               /\ understood.edns = 0 <=> query.edns = 0
               /\ understood.edns <= Max({512, query.edns})
    <3>1. Encodable(query) /\ understood = Restored(query)
      BY <2>1, <2>3
    <3>2. Askable(query)
      BY <2>1, <3>1, QueriesAssumption DEF Askable
    <3>3. KeptIn(query, understood)
      BY <3>1, <3>2, RestoredKeeps
    <3>4. query.class = ClassINET
      BY <3>1 DEF Encodable
    <3>5. QED
      BY <3>3, <3>4 DEF KeptIn
  <2>4. QED
    BY <2>2, <2>3
<1>2. QED
  BY <1>1, AsksHolds, PTL

-----------------------------------------------------------------------------
(* What the coders of names are handed *)

\* The labels of a name, of whatever characters.
NameText == Seq(Seq(Nat))

\* What BitsAfter counts is a number, of whatever bits.
LEMMA BitsCounted ==
  ASSUME NEW s, NEW w, NEW first, NEW v \in Nat
  PROVE  BitsAfter(s, w, first, v) \in Nat
<1> PICK value : Counts(value, s, w, first, v)
  BY BitsFound
<1>1. value \in [0..v -> Nat] /\ BitsAfter(s, w, first, v) = value[v]
  BY DEF Counts
<1>2. v \in 0..v
  OBVIOUS
<1>3. QED
  BY <1>1, <1>2

LEMMA Regrouped ==
  ASSUME NEW s, NEW w, NEW v \in Nat, NEW n \in Nat
  PROVE  Regroup(s, w, v, n) \in Seq(Nat)
<1>1. \A i \in 1..n : BitsAfter(s, w, v * (i - 1), v) \in Nat
  BY BitsCounted
<1> DEFINE number(i) == BitsAfter(s, w, v * (i - 1), v)
<1>2. Regroup(s, w, v, n) = [i \in 1..n |-> number(i)]
  BY DEF Regroup
<1> HIDE DEF number
<1>3. \A i \in 1..n : number(i) \in Nat
  BY <1>1 DEF number
<1>4. QED
  BY <1>2, <1>3

\* What FromBase32 makes of a text, if it makes anything of it.
LEMMA BytesFound ==
  ASSUME NEW word, Len(word) \in Nat, FromBase32(word).status = "ok"
  PROVE  FromBase32(word).value \in Seq(Nat)
<1> DEFINE digits == [i \in DOMAIN word |-> CHOOSE d \in 0..31 : Alphabet[d] = word[i]]
           bytes == Regroup(digits, 5, 8, (5 * Len(word)) \div 8)
<1>1. FromBase32(word) \in {Bad, Ok(bytes, Len(word))}
  BY DEF FromBase32
<1> HIDE DEF bytes
<1>2. FromBase32(word) = Ok(bytes, Len(word))
  BY <1>1 DEF Bad
<1>3. bytes \in Seq(Nat)
  <2>1. (5 * Len(word)) \div 8 \in Nat
    OBVIOUS
  <2> HIDE DEF digits
  <2>2. QED
    BY <2>1, Regrouped DEF bytes
<1>4. QED
  BY <1>2, <1>3 DEF Ok

LEMMA TextJoined ==
  ASSUME NEW word \in Seq(Nat)
  PROVE  Joined(word) \in Seq(Nat)
<1>1. PICK joined \in [0..Len(word) -> Seq(Nat)] : Joined(word) = joined[Len(word)]
  BY JoinedFound
<1>2. Len(word) \in 0..Len(word)
  OBVIOUS
<1>3. QED
  BY <1>1, <1>2

\* A name that DecodeQuery finds is one, whatever the text.
LEMMA NameDecoded ==
  ASSUME NEW word \in Seq(Nat), DecodeQuery(word).status = "ok"
  PROVE  DecodeQuery(word).value.name \in NameText
<1> DEFINE decoded == FromBase32(Upper(Joined(word)))
           wire == decoded.value
           edns == wire[1] = MagicEdns
           start == IF edns THEN 3 ELSE 2
           code == wire[start]
           type == Uvarint(After(wire, start), 10)
           found == UnpackLabels(After(wire, start + type.size))
           name == IF code = TldRaw THEN found.value ELSE Append(found.value, TLDs[code])
           refused == \/ decoded.status # "ok" \/ wire = << >>
                      \/ wire[1] \notin {MagicMinimal, MagicEdns} \/ Len(wire) <= start
                      \/ type.status # "ok" \/ type.value > 65535
                      \/ found.status # "ok" \/ (code # TldRaw /\ code \notin DOMAIN TLDs)
           query0 == [name |-> name, type |-> type.value, class |-> ClassINET,
                      edns |-> IF edns THEN 256 * wire[2] ELSE 0]
<1>1. DecodeQuery(word) = IF refused THEN Bad ELSE Ok(query0, Len(word))
  BY DEF DecodeQuery
<1>2. wire \in Seq(Nat) \/ decoded.status # "ok"
  <2> DEFINE t == Joined(word)
  <2>1. t \in Seq(Nat)
    BY TextJoined
  <2> HIDE DEF t
  <2>2. Len(Upper(t)) \in Nat
    <3>1. Upper(t) = [i \in 1..Len(t) |-> IF t[i] \in 97..122 THEN t[i] - 32 ELSE t[i]]
      BY <2>1 DEF Upper
    <3> DEFINE large(c) == IF c \in 97..122 THEN c - 32 ELSE c
    <3>2. Upper(t) = [i \in 1..Len(t) |-> large(t[i])]
      BY <3>1
    <3>3. \A c \in Nat : large(c) \in Nat
      OBVIOUS
    <3> HIDE DEF large
    <3>4. \A i \in 1..Len(t) : large(t[i]) \in Nat
      <4>1. \A i \in 1..Len(t) : t[i] \in Nat
        BY <2>1
      <4>2. QED
        BY <3>3, <4>1
    <3>5. Upper(t) \in Seq(Nat)
      BY <2>1, <3>2, <3>4
    <3>6. QED
      BY <3>5
  <2> DEFINE u == Upper(t)
  <2>3. FromBase32(u).status = "ok" => FromBase32(u).value \in Seq(Nat)
    <3>1. Len(u) \in Nat
      BY <2>2
    <3> HIDE DEF u
    <3>2. QED
      BY <3>1, BytesFound
  <2>4. decoded = FromBase32(u)
    BY DEF t
  <2> HIDE DEF u
  <2> HIDE DEF decoded
  <2>5. QED
    BY <2>3, <2>4
<1>3. ~refused
  <2> HIDE DEF refused
  <2>1. QED
    BY <1>1 DEF Bad
<1>4. DecodeQuery(word).value.name = name
  <2> HIDE DEF refused, name, edns
  <2>1. QED
    BY <1>1, <1>3 DEF Ok
<1> HIDE DEF decoded
<1>5. wire \in Seq(Nat)
  BY <1>2, <1>3
<1> HIDE DEF wire
<1>6. start \in Nat
  OBVIOUS
<1> HIDE DEF start
<1>7. found.status = "ok" /\ type.status = "ok" /\ (code = TldRaw \/ code \in DOMAIN TLDs)
  BY <1>3
<1> HIDE DEF refused, edns, query0
<1>8. type.size \in Nat
  <2> DEFINE rest == After(wire, start)
  <2>1. rest \in Seq(Nat) /\ 10 \in Nat \ {0}
    BY <1>5, <1>6, Cut
  <2> HIDE DEF rest
  <2>2. \/ Uvarint(rest, 10) = More \/ Uvarint(rest, 10) = Bad
        \/ \E value \in Nat, size \in 1..10 : Uvarint(rest, 10) = Ok(value, size)
    BY <2>1, VarIntResult
  <2>3. type = Uvarint(rest, 10)
    BY DEF rest
  <2> HIDE DEF type
  <2>4. QED
    BY <1>7, <2>2, <2>3 DEF More, Bad, Ok
<1>9. found \in Unpacked
  <2> DEFINE rest == After(wire, start + type.size)
  <2>1. start + type.size \in Nat
    BY <1>6, <1>8
  <2>2. rest \in Seq(Nat)
    BY <1>5, <2>1, Cut
  <2> HIDE DEF rest
  <2>3. UnpackLabels(rest) \in Unpacked
    BY <2>2, LabelsUnpacked
  <2>4. QED
    BY <2>3 DEF rest
<1> HIDE DEF found, type
<1>10. found.value \in NameText
  BY <1>7, <1>9 DEF Unpacked, Bad, Ok, NameText
<1>11. name \in NameText
  <2>1. TLDs \in NameText
    BY QueryCodecAssumption, BytesAreNumbers DEF NameText
  <2>2. code \in DOMAIN TLDs => TLDs[code] \in Seq(Nat)
    BY <2>1 DEF NameText
  <2> HIDE DEF code
  <2> DEFINE labels == found.value
             tld == TLDs[code]
  <2>3. tld \in Seq(Nat) => Append(labels, tld) \in NameText
    <3>1. labels \in Seq(Seq(Nat))
      BY <1>10 DEF NameText
    <3> HIDE DEF labels, tld
    <3>2. QED
      BY <3>1 DEF NameText
  <2> HIDE DEF labels, tld
  <2>4. name = IF code = TldRaw THEN labels ELSE Append(labels, tld)
    BY DEF labels, tld
  <2> HIDE DEF name
  <2>5. labels \in NameText /\ (code \in DOMAIN TLDs => tld \in Seq(Nat))
    BY <1>10, <2>2 DEF labels, tld
  <2>6. QED
    BY <1>7, <2>3, <2>4, <2>5
<1>12. QED
  BY <1>4, <1>11

LEMMA LengthReversed ==
  ASSUME NEW s \in Seq(Nat)
  PROVE  Len(Reverse(s)) = Len(s)
<1> DEFINE n == Len(s)
<1>1. n \in Nat
  OBVIOUS
<1>2. Reverse(s) = [i \in 1..n |-> s[(n - i) + 1]]
  BY DEF Reverse
<1>3. \A i \in 1..n : s[(n - i) + 1] \in Nat
  <2>1. \A i \in 1..n : (n - i) + 1 \in 1..n
    BY <1>1
  <2>2. \A j \in 1..n : s[j] \in Nat
    OBVIOUS
  <2>3. QED
    BY <2>1, <2>2
<1> HIDE DEF n
<1>4. Reverse(s) \in Seq(Nat) /\ Len(Reverse(s)) = n
  BY <1>1, <1>2, <1>3
<1>5. QED
  BY <1>4 DEF n

LEMMA SizeRead ==
  ASSUME NEW bytes \in Seq(Nat), ReadVarInt(bytes).status = "ok"
  PROVE  ReadVarInt(bytes).size \in Nat /\ ReadVarInt(bytes).value \in Nat
<1>1. VarIntBytes \in Nat \ {0}
  BY FramesAssumption
<1>2. \/ ReadVarInt(bytes) = More \/ ReadVarInt(bytes) = Bad
      \/ \E value \in Nat, size \in 1..VarIntBytes : ReadVarInt(bytes) = Ok(value, size)
  BY <1>1, VarIntResult DEF ReadVarInt
<1>3. PICK value \in Nat, size \in 1..VarIntBytes : ReadVarInt(bytes) = Ok(value, size)
  BY <1>2 DEF More, Bad
<1>4. QED
  BY <1>1, <1>3 DEF Ok

\* What remains of an address is a text.
LEMMA BareText ==
  ASSUME NEW address \in Seq(Nat)
  PROVE  StripSuffix(address) \in Seq(Nat) /\ Remainder(StripSuffix(address)) \in Seq(Nat)
<1> DEFINE bare == Take(address, Len(address) - Len(Suffix))
           s == Lower(Suffix)
           t == Lower(address)
<1>0. Suffix \in Seq(Nat)
  BY QueryCodecAssumption
<1>1. ASSUME HasSuffix(address) PROVE Len(address) - Len(Suffix) \in Nat
  <2>1. /\ s = [i \in 1..Len(Suffix) |-> IF Suffix[i] \in 65..90 THEN Suffix[i] + 32 ELSE Suffix[i]]
        /\ t = [i \in 1..Len(address) |->
                  IF address[i] \in 65..90 THEN address[i] + 32 ELSE address[i]]
    BY <1>0 DEF Lower
  <2>2. s \in Seq(Nat) /\ t \in Seq(Nat)
    BY <1>0, LowerWritten
  <2>3. Len(s) = Len(Suffix) /\ Len(t) = Len(address)
    BY <1>0, <2>1, <2>2
  <2>4. IsSuffix(s, t)
    BY <1>1 DEF HasSuffix
  <2> HIDE DEF s, t
  <2>5. Len(Reverse(s)) <= Len(Reverse(t))
    BY <2>4 DEF IsSuffix, IsPrefix
  <2>6. Len(Reverse(s)) = Len(s) /\ Len(Reverse(t)) = Len(t)
    BY <2>2, LengthReversed
  <2>7. QED
    BY <1>0, <2>3, <2>5, <2>6
<1>2. ASSUME HasSuffix(address) PROVE bare \in Seq(Nat)
  BY <1>1, <1>2, Cut
<1> HIDE DEF bare
<1>3. StripSuffix(address) \in Seq(Nat)
  <2>1. ASSUME bare \in Seq(Nat), bare # << >> PROVE Front(bare) \in Seq(Nat)
    BY <2>1 DEF Front
  <2>2. StripSuffix(address) =
          IF ~HasSuffix(address) THEN address
          ELSE IF bare # << >> /\ Last(bare) = Dot THEN Front(bare) ELSE bare
    BY DEF StripSuffix, bare
  <2>3. QED
    BY <1>2, <2>1, <2>2
<1> DEFINE left == StripSuffix(address)
           n == Len(AuthPrefix)
<1>4. left \in Seq(Nat) /\ n \in Nat
  BY <1>3, Surroundings
<1> HIDE DEF left, n
<1>5. After(left, n) \in Seq(Nat)
  BY <1>4, Cut
<1>6. QED
  BY <1>3, <1>5 DEF left, n, Remainder

LEMMA PieceText ==
  ASSUME NEW rest \in Seq(Nat)
  PROVE  PieceOf(rest) \in Seq(Nat)
<1> DEFINE piece == After(rest, 3 + NonceLength)
<1>1. 3 + NonceLength \in Nat
  BY DEF NonceLength
<1>2. piece \in Seq(Nat)
  BY <1>1, Cut
<1> HIDE DEF piece
<1>3. Joined(piece) \in Seq(Nat)
  BY <1>2, TextJoined
<1>4. QED
  BY <1>3 DEF PieceOf, piece

\* The address that ParseHandshake finds.
LEMMA AddressParsed ==
  ASSUME NEW data \in Seq(Nat), ParseHandshake(data).status = "ok"
  PROVE  ParseHandshake(data).value.address \in Seq(Nat)
<1> DEFINE version == ReadVarInt(data)
           behind == After(data, version.size)
           address == ReadString(behind)
           length == ReadVarInt(behind)
           rest == After(data, version.size + address.size)
           next == ReadVarInt(After(rest, 2))
           parsed == [address |-> address.value, port |-> 256 * rest[1] + rest[2],
                      nextState |-> next.value]
           good == /\ version.status = "ok" /\ address.status = "ok"
                   /\ Len(rest) >= 2 /\ next.status = "ok"
<1>1. ParseHandshake(data) = IF good THEN Ok(parsed, Len(data)) ELSE Bad
  BY DEF ParseHandshake
<1>2. good /\ ParseHandshake(data).value = parsed
  <2> HIDE DEF good, parsed
  <2>1. QED
    BY <1>1 DEF Ok, Bad
<1>3. ParseHandshake(data).value.address = address.value
  BY <1>2
<1>4. version.status = "ok" /\ address.status = "ok"
  BY <1>2
<1> HIDE DEF good, parsed, next, rest
<1>5. version.size \in Nat
  BY <1>4, SizeRead
<1>6. behind \in Seq(Nat)
  <2> DEFINE n == version.size
  <2>1. n \in Nat
    BY <1>5
  <2> HIDE DEF n
  <2>2. After(data, n) \in Seq(Nat)
    BY <2>1, Cut
  <2>3. QED
    BY <2>2 DEF n
<1> HIDE DEF behind
<1>7. address.value \in Seq(Nat)
  <2> DEFINE m == length.value
             n == length.size
             string == Take(After(behind, n), m)
  <2>1. /\ length.status = "ok"
        /\ address = Ok(string, n + m)
    BY <1>4 DEF ReadString, More, Bad
  <2>2. m \in Nat /\ n \in Nat
    BY <1>6, <2>1, SizeRead
  <2> HIDE DEF m, n
  <2>3. string \in Seq(Nat)
    BY <1>6, <2>2, Cut
  <2> HIDE DEF string
  <2>4. QED
    BY <2>1, <2>3 DEF Ok
<1>8. QED
  BY <1>3, <1>7

(* What the server hands to the coder of names is a name: while it waits for a  *)
(* request it has an address, in pieces or not, and what it decodes has a name. *)
Named ==
  /\ text \in Seq(Nat)
  /\ server \in {"request", "decide"} => handshake.address \in Seq(Nat)
  /\ server = "answer" => understood.name \in NameText
  /\ NamesInv(NameText)

LEMMA NoName == None \notin NameText
BY NoneAssumption DEF NameText

\* The coders of names do nothing.
LEMMA NamesStay ==
  ASSUME NamesInv(NameText), UNCHANGED names
  PROVE  NamesInv(NameText)'
<1>1. /\ enc' = enc /\ dec' = dec /\ questions' = questions
      /\ sent' = sent /\ got' = got /\ broken' = broken
  BY DEF names
<1>2. QED
  BY <1>1 DEF NamesInv, NamesIn, NamesRestored, InStep, Distinct

\* Neither do the names matter in any other step that does not lead to one of these places.
LEMMA NamedStays ==
  ASSUME Named, UNCHANGED <<text, names>>,
         \/ UNCHANGED <<server, handshake, understood>>
         \/ server' \notin {"request", "decide", "answer"}
         \/ server = "request" /\ server' = "decide" /\ UNCHANGED handshake
  PROVE  Named'
<1>1. NamesInv(NameText)' /\ text' \in Seq(Nat)
  BY NamesStay DEF Named
<1>2. CASE UNCHANGED <<server, handshake, understood>>
  BY <1>1, <1>2 DEF Named
<1>3. CASE server' \notin {"request", "decide", "answer"}
  BY <1>1, <1>3 DEF Named
<1>4. CASE server = "request" /\ server' = "decide" /\ UNCHANGED handshake
  BY <1>1, <1>4 DEF Named
<1>5. QED
  BY <1>2, <1>3, <1>4

LEMMA InitNamed ==
  ASSUME Init
  PROVE  Named
<1>1. text = << >> /\ NamesInit /\ server \in {"none", "handshake"}
  BY DEF Init
<1>2. NamesInv(NameText)
  BY <1>1, NamesInitHolds, NameCodecAssumption
<1>3. QED
  BY <1>1, <1>2 DEF Named

LEMMA ServerReadsNamed ==
  ASSUME IInv, Named, ServerReads
  PROVE  Named'
<1> DEFINE frame == Incoming(up, MaxFrameSize)
<1>1. /\ server \in {"handshake", "request", "login", "ping"}
      /\ frame.status # "more" /\ UNCHANGED <<text, understood, names>>
  BY DEF ServerReads
<1>2. WayOK(up) /\ MaxFrameSize \in Nat
  BY ExchangeAssumption DEF IInv, Typed
<1>3. CASE frame.status = "bad"
  <2>1. server' = "closed"
    BY <1>3 DEF ServerReads, Close
  <2>2. QED
    BY <1>1, <2>1, NamedStays
<1>4. CASE frame.status # "bad"
  <2>1. frame.status = "ok"
    BY <1>1, <1>2, <1>4, IncomingStatus
  <2>2. frame.value \in Frame
    BY <1>2, <2>1, ReadOK
  <2>3. \/ server = "handshake" /\ TakeHandshake(frame.value)
        \/ server = "request" /\ TakeRequest(frame.value)
        \/ server = "login" /\ TakeLogin
        \/ server = "ping" /\ TakePing(frame.value)
    BY <1>4 DEF ServerReads
  <2> DEFINE taken == frame.value
  <2>4. /\ taken.data \in Seq(Nat)
        /\ \/ server = "handshake" /\ TakeHandshake(taken)
           \/ server = "request" /\ TakeRequest(taken)
           \/ server = "login" /\ TakeLogin
           \/ server = "ping" /\ TakePing(taken)
    BY <2>2, <2>3 DEF Frame
  <2> HIDE DEF taken, frame
  <2>5. CASE server = "handshake" /\ TakeHandshake(taken)
    <3> DEFINE parsed == ParseHandshake(taken.data)
    <3>1. CASE taken.id = 0 /\ parsed.status = "ok" /\ parsed.value.nextState \in {1, 2}
      <4>1. /\ server' = IF parsed.value.nextState = 2 THEN "login" ELSE "request"
            /\ handshake' = parsed.value
        BY <2>5, <3>1 DEF TakeHandshake
      <4>2. parsed.value.address \in Seq(Nat)
        BY <2>4, <3>1, AddressParsed
      <4> HIDE DEF parsed
      <4>3. server' \in {"login", "request"} /\ handshake'.address \in Seq(Nat)
        BY <4>1, <4>2
      <4>4. NamesInv(NameText)' /\ text' \in Seq(Nat)
        BY <1>1, NamesStay DEF Named
      <4>5. QED
        BY <4>3, <4>4 DEF Named
    <3>2. CASE ~(taken.id = 0 /\ parsed.status = "ok" /\ parsed.value.nextState \in {1, 2})
      <4>1. server' = "closed"
        BY <2>5, <3>2 DEF TakeHandshake, Close
      <4>2. QED
        BY <1>1, <4>1, NamedStays
    <3>3. QED
      BY <3>1, <3>2
  <2>6. CASE server = "request" /\ TakeRequest(taken)
    <3>1. \/ server' = "closed"
          \/ server = "request" /\ server' = "decide" /\ UNCHANGED handshake
      BY <2>6 DEF TakeRequest, Close
    <3>2. QED
      BY <1>1, <3>1, NamedStays
  <2>7. CASE \/ server = "login" /\ TakeLogin
             \/ server = "ping" /\ TakePing(taken)
    <3>1. server' = "closed"
      BY <2>7 DEF TakeLogin, TakePing
    <3>2. QED
      BY <1>1, <3>1, NamedStays
  <2>8. QED
    BY <2>4, <2>5, <2>6, <2>7
<1>5. QED
  BY <1>3, <1>4

LEMMA DecideNamed ==
  ASSUME Named, Decide
  PROVE  Named'
<1> DEFINE bare == StripSuffix(handshake.address)
           rest == Remainder(bare)
           piece == PieceOf(rest)
           whole == text \o piece
           other == IF HasSuffix(handshake.address) THEN DNSLength ELSE VanillaLength
<1>1. server = "decide" /\ UNCHANGED names
  BY DEF Decide
<1>2. text \in Seq(Nat) /\ handshake.address \in Seq(Nat) /\ NamesInv(NameText)'
  BY <1>1, NamesStay DEF Named
<1>3. \/ UNCHANGED text /\ (Serve(rest, other) \/ Reply(VanillaLength))
      \/ text' = whole /\ (Serve(whole, DNSLength) \/ Reply(DNSLength))
  BY DEF Decide
<1>4. rest \in Seq(Nat)
  BY <1>2, BareText
<1> HIDE DEF rest, bare
<1>5. piece \in Seq(Nat)
  BY <1>4, PieceText
<1> HIDE DEF piece, other
<1>6. whole \in Seq(Nat)
  BY <1>2, <1>5
<1> HIDE DEF whole
<1>7. text' \in Seq(Nat)
  BY <1>2, <1>3, <1>6
<1>8. ASSUME NEW word \in Seq(Nat), NEW otherwise, Serve(word, otherwise)
      PROVE  \/ server' = "ping"
             \/ server' = "answer" /\ understood'.name \in NameText
  <2> DEFINE decoded == DecodeQuery(word)
  <2>1. CASE decoded.status = "ok"
    <3>1. understood' = decoded.value /\ server' = "answer"
      BY <1>8, <2>1 DEF Serve
    <3>2. decoded.value.name \in NameText
      BY <2>1, NameDecoded
    <3>3. QED
      BY <3>1, <3>2
  <2>2. CASE decoded.status # "ok"
    BY <1>8, <2>2 DEF Serve, Reply
  <2>3. QED
    BY <2>1, <2>2
<1>9. \/ server' = "ping"
      \/ server' = "answer" /\ understood'.name \in NameText
  <2>1. ASSUME NEW length, Reply(length) PROVE server' = "ping"
    BY <2>1 DEF Reply
  <2>2. QED
    BY <1>3, <1>4, <1>6, <1>8, <2>1
<1>10. QED
  BY <1>2, <1>7, <1>9 DEF Named

LEMMA AnswerNamed ==
  ASSUME Named, Answer
  PROVE  Named'
<1>1. server = "answer" /\ UNCHANGED <<server, handshake, text, understood>>
  BY DEF Answer, connection
<1>2. understood.name \in NameText /\ NamesInv(NameText)
  BY <1>1 DEF Named
<1>3. Owner \subseteq NameText
  BY ExchangeAssumption DEF NameText
<1>4. \E n \in NameText : Question(n) \/ Record(n)
  BY <1>2, <1>3 DEF Answer
<1>5. NamesInv(NameText)'
  BY <1>2, <1>4, NoName, NameCodecAssumption, QuestionKeeps, RecordKeeps
<1>6. QED
  BY <1>1, <1>5 DEF Named

LEMMA NamedHolds == Spec => []Named
<1>1. Init => Named
  BY InitNamed
<1>2. IInv /\ Named /\ [Next]_vars => Named'
  <2> SUFFICES ASSUME IInv, Named, [Next]_vars PROVE Named'
    OBVIOUS
  <2>1. CASE UNCHANGED vars \/ Finished
    <3>1. UNCHANGED <<text, names, server, handshake, understood>>
      BY <2>1 DEF vars, connection, Finished
    <3>2. QED
      BY <3>1, NamedStays
  <2>2. CASE Dial \/ GiveUp \/ Hangup \/ SendAnswer
    <3>1. UNCHANGED <<text, names>>
      BY <2>2 DEF Dial, GiveUp, Hangup, SendAnswer
    <3>2. \/ UNCHANGED <<server, handshake, understood>>
          \/ server' \notin {"request", "decide", "answer"}
      BY <2>2 DEF Dial, GiveUp, Hangup, Close, SendAnswer, Reply, connection
    <3>3. QED
      BY <3>1, <3>2, NamedStays
  <2>3. CASE SendHandshake \/ SendStatusRequest \/ ReadStatus \/ Arrive
    <3>1. UNCHANGED <<text, names, server, handshake, understood>>
      BY <2>3 DEF SendHandshake, SendStatusRequest, ReadStatus, Arrive
    <3>2. QED
      BY <3>1, NamedStays
  <2>4. QED
    BY <2>1, <2>2, <2>3, ServerReadsNamed, DecideNamed, AnswerNamed DEF Next
<1>3. QED
  BY <1>1, <1>2, IInvHolds, PTL DEF Spec

(* The client reads the owners of the records as the server has written them,  *)
(* no token stands for a name it has not met, and this for every name that any *)
(* text sent to the server decodes to (packCompactResponse and                 *)
(* unpackCompactResponse), so not only for the names a client would ask for.   *)
THEOREM NamesRestoredHolds == Spec => []NamesRestored
<1>1. Named => NamesRestored
  BY DEF Named, NamesInv
<1>2. QED
  BY <1>1, NamedHolds, PTL
=============================================================================
