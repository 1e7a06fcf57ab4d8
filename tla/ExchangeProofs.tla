--------------------------- MODULE ExchangeProofs ---------------------------
(***************************************************************************)
(* Proofs about the exchange of a driver and an engineer, byte by byte:    *)
(* for any lists of channels that fit their messages, any subscriptions    *)
(* and ports, and any number of messages, frames and time-outs; that the   *)
(* messages are taken in order, for at most one time-out (of two,          *)
(* ExchangeMC_Stalls.cfg shows the loss).                                  *)
(*                                                                         *)
(* The invariant says of each direction of the stream what is on its way:  *)
(* while its reader is in the handshake, the bytes of the messages that    *)
(* were said and not yet read, whole; after it, those bytes or the rest of *)
(* a message whose beginning a time-out has thrown away, in which no       *)
(* reader finds another beginning.  What the sides know of each other      *)
(* follows from reading back what the codecs wrote.                        *)
(***************************************************************************)
EXTENDS Exchange, SeqFacts, FiniteSetTheorems

-----------------------------------------------------------------------------
(* Reading at an offset.                                                   *)

(* data holds x behind its first off elements.                             *)
Part(data, off, x) ==
    off + Len(x) <= Len(data) /\ \A k \in 1 .. Len(x) : data[off + k] = x[k]

LEMMA MinOfTwo ==
  ASSUME NEW a \in Int, NEW b \in Int
  PROVE  Min({a, b}) = IF a <= b THEN a ELSE b
<1> DEFINE m == IF a <= b THEN a ELSE b
<1>1. m \in {a, b} /\ \A y \in {a, b} : m =< y
  OBVIOUS
<1>2. \A x \in {a, b} : (\A y \in {a, b} : x =< y) => x = m
  OBVIOUS
<1> HIDE DEF m
<1>3. Min({a, b}) = m
  BY <1>1, <1>2, Zenon DEF Min
<1>4. QED
  BY <1>3 DEF m

LEMMA AtFacts ==
  ASSUME NEW S, NEW data \in Seq(S), NEW off \in Nat, NEW n \in Nat
  PROVE  /\ At(data, off, n) \in Seq(S) /\ Len(At(data, off, n)) <= n
         /\ off >= Len(data) => At(data, off, n) = <<>>
         /\ off + n <= Len(data) =>
              /\ Len(At(data, off, n)) = n
              /\ \A k \in 1 .. n : At(data, off, n)[k] = data[off + k]
         /\ off <= Len(data) /\ Len(data) <= off + n =>
              /\ Len(At(data, off, n)) = Len(data) - off
              /\ \A k \in 1 .. Len(data) - off : At(data, off, n)[k] = data[off + k]
<1>1. PICK m \in Nat : m = Len(data)
  OBVIOUS
<1> DEFINE e == Min({off + n, Len(data)})
<1>2. e = IF off + n <= m THEN off + n ELSE m
  BY <1>1, MinOfTwo
<1>3. e \in Nat
  BY <1>2, <1>1
<1> HIDE DEF e
<1>4. CASE off >= m
  <2>1. At(data, off, n) = <<>>
    BY <1>1, <1>4 DEF At
  <2>2. <<>> \in Seq(S) /\ Len(<<>>) = 0
    OBVIOUS
  <2>3. QED
    BY <2>1, <2>2, <1>1, <1>4
<1>5. CASE off < m
  <2>1. At(data, off, n) = SubSeq(data, off + 1, e)
    <3>1. ~(off >= Len(data))
      BY <1>1, <1>5
    <3>2. QED
      BY <3>1, Zenon DEF At, e
  <2>2. off <= e /\ e <= m /\ e <= off + n
    BY <1>1, <1>2, <1>5
  <2>3. /\ SubSeq(data, off + 1, e) \in Seq(S)
        /\ Len(SubSeq(data, off + 1, e)) = e - off
        /\ \A k \in 1 .. e - off : SubSeq(data, off + 1, e)[k] = data[off + k]
    <3>1. \A k \in 1 .. e - off : off + k \in 1 .. m
      BY <1>1, <1>3, <2>2
    <3>2. \A k \in 1 .. e - off : data[off + k] \in S
      BY <3>1, <1>1
    <3>3. SubSeq(data, off + 1, e) = [k \in 1 .. e - off |-> data[off + k]]
      BY <1>1, <1>3, <2>2
    <3>4. e - off \in Nat
      BY <1>3, <2>2
    <3>5. PICK d \in Nat : d = e - off
      BY <3>4
    <3>6. \A k \in 1 .. d : data[off + k] \in S
      BY <3>2, <3>5
    <3>7. [k \in 1 .. d |-> data[off + k]] \in Seq(S) /\ Len([k \in 1 .. d |-> data[off + k]]) = d
      BY <3>6
    <3>8. QED
      BY <3>3, <3>5, <3>7
  <2>4. QED
    BY <2>1, <2>2, <2>3, <1>1, <1>2, <1>3, <1>5
<1>6. QED
  BY <1>1, <1>4, <1>5

LEMMA AtWithin ==
  ASSUME NEW S, NEW data \in Seq(S), NEW off \in Nat, NEW n \in Nat, off + n <= Len(data)
  PROVE  /\ At(data, off, n) \in Seq(S) /\ Len(At(data, off, n)) = n
         /\ \A k \in 1 .. n : At(data, off, n)[k] = data[off + k]
BY AtFacts, ZenonT(30)

LEMMA AtRest ==
  ASSUME NEW S, NEW data \in Seq(S), NEW off \in Nat, NEW n \in Nat, off <= Len(data), Len(data) <= off + n
  PROVE  /\ At(data, off, n) \in Seq(S) /\ Len(At(data, off, n)) = Len(data) - off
         /\ \A k \in 1 .. Len(data) - off : At(data, off, n)[k] = data[off + k]
BY AtFacts, ZenonT(30)

LEMMA AtBeyond ==
  ASSUME NEW S, NEW data \in Seq(S), NEW off \in Nat, NEW n \in Nat, off >= Len(data)
  PROVE  At(data, off, n) = <<>>
BY AtFacts

LEMMA FromFacts ==
  ASSUME NEW S, NEW data \in Seq(S), NEW off \in Nat
  PROVE  /\ From(data, off) \in Seq(S)
         /\ off >= Len(data) => From(data, off) = <<>>
         /\ off <= Len(data) =>
              /\ Len(From(data, off)) = Len(data) - off
              /\ \A k \in 1 .. Len(data) - off : From(data, off)[k] = data[off + k]
<1>1. PICK m \in Nat : m = Len(data)
  OBVIOUS
<1>2. From(data, off) = At(data, off, m)
  BY <1>1 DEF From
<1>3. Len(data) <= off + m
  BY <1>1
<1>4. At(data, off, m) \in Seq(S)
  BY AtFacts
<1>5. off >= Len(data) => At(data, off, m) = <<>>
  BY AtBeyond
<1>6. off <= Len(data) =>
              /\ Len(At(data, off, m)) = Len(data) - off
              /\ \A k \in 1 .. Len(data) - off : At(data, off, m)[k] = data[off + k]
  BY <1>3, AtRest
<1>7. QED
  BY <1>2, <1>4, <1>5, <1>6, Zenon

LEMMA FromWithin ==
  ASSUME NEW S, NEW data \in Seq(S), NEW off \in Nat, off <= Len(data)
  PROVE  /\ From(data, off) \in Seq(S) /\ Len(From(data, off)) = Len(data) - off
         /\ \A k \in 1 .. Len(data) - off : From(data, off)[k] = data[off + k]
BY FromFacts

LEMMA PartRead ==
  ASSUME NEW S, NEW data \in Seq(S), NEW off \in Nat, NEW x \in Seq(S), Part(data, off, x)
  PROVE  At(data, off, Len(x)) = x
<1> DEFINE y == At(data, off, Len(x))
<1>1. /\ y \in Seq(S) /\ Len(y) = Len(x)
      /\ \A k \in 1 .. Len(x) : y[k] = data[off + k]
  <2>1. Len(x) \in Nat /\ off + Len(x) <= Len(data)
    BY DEF Part
  <2>2. QED
    BY <2>1, AtWithin
<1> HIDE DEF y
<1>2. \A k \in 1 .. Len(x) : y[k] = x[k]
  BY <1>1 DEF Part
<1>3. y = x
  BY <1>1, <1>2, SeqEqual
<1>4. QED
  BY <1>3 DEF y

LEMMA PartFrom ==
  ASSUME NEW S, NEW data \in Seq(S), NEW off \in Nat, NEW x \in Seq(S), Part(data, off, x),
         off + Len(x) = Len(data)
  PROVE  From(data, off) = x
<1> DEFINE y == From(data, off)
<1>1. PICK m \in Nat : m = Len(x)
  OBVIOUS
<1>2. /\ y \in Seq(S) /\ Len(y) = m
      /\ \A k \in 1 .. m : y[k] = data[off + k]
  <2>1. /\ y \in Seq(S)
        /\ off <= Len(data) => /\ Len(y) = Len(data) - off
                               /\ \A k \in 1 .. Len(data) - off : y[k] = data[off + k]
    BY FromFacts, Zenon
  <2>2. off <= Len(data) /\ Len(data) - off = m
    BY <1>1
  <2>3. QED
    BY <2>1, <2>2, Zenon
<1> HIDE DEF y
<1>3. \A k \in 1 .. m : y[k] = x[k]
  BY <1>1, <1>2 DEF Part
<1>4. y = x
  BY <1>1, <1>2, <1>3, SeqEqual
<1>5. QED
  BY <1>4 DEF y

LEMMA Joined ==
  ASSUME NEW S, NEW a \in Seq(S), NEW b \in Seq(S)
  PROVE  /\ a \o b \in Seq(S) /\ Len(a \o b) = Len(a) + Len(b)
         /\ Part(a \o b, 0, a) /\ Part(a \o b, Len(a), b)
         /\ \A off \in Nat, x \in Seq(S) : Part(a, off, x) => Part(a \o b, off, x)
<1> DEFINE r == a \o b
<1>1. /\ r \in Seq(S) /\ Len(r) = Len(a) + Len(b) /\ Len(a) \in Nat /\ Len(b) \in Nat
      /\ \A i \in 1 .. Len(a) + Len(b) : r[i] = IF i <= Len(a) THEN a[i] ELSE b[i - Len(a)]
  BY ConcatProperties
<1> HIDE DEF r
<1>2. Part(r, 0, a)
  BY <1>1 DEF Part
<1>3. Part(r, Len(a), b)
  <2>1. ASSUME NEW k \in 1 .. Len(b) PROVE r[Len(a) + k] = b[k]
    <3>1. Len(a) + k \in 1 .. Len(a) + Len(b) /\ ~(Len(a) + k <= Len(a)) /\ Len(a) + k - Len(a) = k
      BY <1>1
    <3>2. QED
      BY <1>1, <3>1
  <2>2. QED
    BY <2>1, <1>1 DEF Part
<1>4. ASSUME NEW off \in Nat, NEW x \in Seq(S), Part(a, off, x)
      PROVE  Part(r, off, x)
  <2>1. Len(x) \in Nat /\ off + Len(x) <= Len(a)
    BY <1>4 DEF Part
  <2>2. \A k \in 1 .. Len(x) : r[off + k] = x[k]
    BY <1>1, <1>4, <2>1 DEF Part
  <2>3. QED
    BY <1>1, <2>1, <2>2 DEF Part
<1>5. QED
  BY <1>1, <1>2, <1>3, <1>4 DEF r

LEMMA PartOfPart ==
  ASSUME NEW S, NEW data \in Seq(S), NEW off \in Nat, NEW x \in Seq(S), Part(data, off, x),
         NEW o \in Nat, NEW y \in Seq(S), Part(x, o, y)
  PROVE  Part(data, off + o, y)
<1>1. Len(x) \in Nat /\ Len(y) \in Nat /\ Len(data) \in Nat
  OBVIOUS
<1>2. \A k \in 1 .. Len(y) : data[off + o + k] = y[k]
  <2>1. TAKE k \in 1 .. Len(y)
  <2>2. o + k \in 1 .. Len(x) /\ off + (o + k) = off + o + k
    BY <1>1 DEF Part
  <2>3. data[off + (o + k)] = x[o + k] /\ x[o + k] = y[k]
    BY <1>1, <2>2 DEF Part
  <2>4. QED
    BY <2>2, <2>3
<1>3. QED
  BY <1>1, <1>2 DEF Part

-----------------------------------------------------------------------------
(* Bytes and numbers.                                                      *)

(* What the cells of the stream stand for: the words of the channels and   *)
(* the texts and scalars of the program itself.                            *)
Stands == Words \cup
    {"other", "driver", "car", "engineer", "ping", "probe", "zero", "t0", "t1", "u", "v", "x",
     "min", "max", "speed", "rpm", "throttle", "brake", "gear", "steering", "fuel",
     "fuel_capacity", "rpm_max", "tyre_fl", "tyre_fr", "tyre_rl", "tyre_rr", "brake_temp"}

Cell == ({"byte"} \X (0 .. 255) \X {1} \X {1})
        \cup ({"text", "scalar"} \X Stands \X Nat \X Nat)

LEMMA ByteFacts ==
  ASSUME NEW b \in 0 .. 255
  PROVE  Byte(b) \in Cell /\ Byte(b)[1] = "byte" /\ Byte(b)[2] = b
BY DEF Byte, Cell

LEMMA CellFacts ==
  ASSUME NEW c \in Cell
  PROVE  /\ c[1] = "byte" => c[2] \in 0 .. 255 /\ c = Byte(c[2])
         /\ c[1] # "byte" => c[1] \in {"text", "scalar"} /\ c[2] \in Stands
<1>1. CASE c \in {"byte"} \X (0 .. 255) \X {1} \X {1}
  BY <1>1 DEF Byte
<1>2. CASE c \in {"text", "scalar"} \X Stands \X Nat \X Nat
  BY <1>2
<1>3. QED
  BY <1>1, <1>2 DEF Cell

LEMMA Powers ==
  256^0 = 1 /\ 256^1 = 256 /\ 256^2 = 256 * 256 /\ Huge = 256 * 256 * 256
BY SMT DEF Huge

LEMMA Uint16Facts ==
  \A n : n \in Uint16 <=> n \in Nat /\ n < 256 * 256
BY Powers, SMT DEF Uint16

(* The byte at k of the number n.                                          *)
Digit(n, k) == IF k > 3 THEN 0 ELSE (n \div 256^(k - 1)) % 256

LEMMA Digits ==
  ASSUME NEW n \in Nat, NEW k \in Nat \ {0}
  PROVE  /\ Digit(n, k) \in 0 .. 255
         /\ Digit(n, 1) = n % 256
         /\ Digit(n, 2) = (n \div 256) % 256
         /\ Digit(n, 3) = (n \div (256 * 256)) % 256
         /\ k > 3 => Digit(n, k) = 0
<1>1. Digit(n, 1) = n % 256
  <2>1. n \div 1 = n
    BY SMT
  <2>2. Digit(n, 1) = (n \div 256^0) % 256
    BY SMT DEF Digit
  <2>3. QED
    BY <2>1, <2>2, Powers
<1>2. Digit(n, 2) = (n \div 256) % 256
  <2>1. Digit(n, 2) = (n \div 256^1) % 256
    BY SMT DEF Digit
  <2>2. QED
    BY <2>1, Powers
<1>3. Digit(n, 3) = (n \div (256 * 256)) % 256
  <2>1. Digit(n, 3) = (n \div 256^2) % 256
    BY SMT DEF Digit
  <2>2. QED
    BY <2>1, Powers, SMT
<1>4. k > 3 => Digit(n, k) = 0
  BY SMT DEF Digit
<1>5. k = 1 \/ k = 2 \/ k = 3 \/ k > 3
  BY SMT
<1>6. (n % 256) \in 0 .. 255 /\ ((n \div 256) % 256) \in 0 .. 255 /\ ((n \div (256 * 256)) % 256) \in 0 .. 255
  BY SMT
<1>7. Digit(n, k) \in 0 .. 255
  BY <1>1, <1>2, <1>3, <1>4, <1>5, <1>6, SMT
<1>8. QED
  BY <1>1, <1>2, <1>3, <1>4, <1>7, Zenon

LEMMA FirstDigits ==
  ASSUME NEW n \in Nat
  PROVE  /\ Digit(n, 1) = n % 256
         /\ Digit(n, 2) = (n \div 256) % 256
         /\ Digit(n, 3) = (n \div (256 * 256)) % 256
<1>1. 1 \in Nat \ {0}
  OBVIOUS
<1>2. Digit(n, 1) = n % 256
  BY <1>1, Digits
<1>3. Digit(n, 2) = (n \div 256) % 256
  BY <1>1, Digits
<1>4. Digit(n, 3) = (n \div (256 * 256)) % 256
  BY <1>1, Digits
<1>5. QED
  BY <1>2, <1>3, <1>4

LEMMA LastDigits ==
  ASSUME NEW n \in Nat, NEW k \in Nat \ {0}, k > 3
  PROVE  Digit(n, k) = 0
BY SMT DEF Digit

LEMMA UFacts ==
  ASSUME NEW n \in Nat, NEW w \in Nat
  PROVE  /\ U(n, w) \in Seq(Cell) /\ Len(U(n, w)) = w
         /\ \A k \in 1 .. w : U(n, w)[k] = Byte(Digit(n, k))
<1>1. U(n, w) = [k \in 1 .. w |-> Byte(Digit(n, k))]
  BY Zenon DEF U, Digit
<1>2. \A k \in 1 .. w : Byte(Digit(n, k)) \in Cell
  <2>1. TAKE k \in 1 .. w
  <2>2. k \in Nat \ {0}
    OBVIOUS
  <2>3. Digit(n, k) \in 0 .. 255
    BY <2>2, Digits, Zenon
  <2>4. QED
    BY <2>3, ByteFacts, Zenon
<1>3. QED
  BY <1>1, <1>2

(* The k-th byte of what is read as a number, and the rule for it.         *)
ByteOf(cells, k) == IF k \in DOMAIN cells THEN cells[k][2] ELSE 0

LEMMA NumberIs ==
  ASSUME NEW cells
  PROVE  Number(cells) =
           IF \A k \in DOMAIN cells : cells[k][1] = "byte" /\ (k > 3 => ByteOf(cells, k) = 0)
           THEN ByteOf(cells, 1) + 256 * ByteOf(cells, 2) + 256^2 * ByteOf(cells, 3)
           ELSE Huge
BY Zenon DEF Number, ByteOf

LEMMA NumberType ==
  ASSUME NEW cells \in Seq(Cell)
  PROVE  Number(cells) \in Nat
<1>1. CASE \A k \in DOMAIN cells : cells[k][1] = "byte" /\ (k > 3 => ByteOf(cells, k) = 0)
  <2>1. \A k \in Nat : ByteOf(cells, k) \in 0 .. 255
    <3>1. TAKE k \in Nat
    <3>2. CASE k \in DOMAIN cells
      <4>1. cells[k] \in Cell
        BY <3>2
      <4>2. QED
        BY <1>1, <3>2, <4>1, CellFacts DEF ByteOf
    <3>3. CASE k \notin DOMAIN cells
      BY <3>3 DEF ByteOf
    <3>4. QED
      BY <3>2, <3>3
  <2>2. Number(cells) = ByteOf(cells, 1) + 256 * ByteOf(cells, 2) + 256^2 * ByteOf(cells, 3)
    BY <1>1, NumberIs, Zenon
  <2>3. QED
    <3> DEFINE a == ByteOf(cells, 1)
               b == ByteOf(cells, 2)
               c == ByteOf(cells, 3)
    <3>1. a \in 0 .. 255 /\ b \in 0 .. 255 /\ c \in 0 .. 255
      BY <2>1
    <3>2. Number(cells) = a + 256 * b + (256 * 256) * c
      BY <2>2, Powers, Zenon
    <3> HIDE DEF a, b, c
    <3>3. QED
      BY <3>1, <3>2, SMT
<1>2. CASE ~\A k \in DOMAIN cells : cells[k][1] = "byte" /\ (k > 3 => ByteOf(cells, k) = 0)
  <2>1. Number(cells) = Huge
    BY <1>2, NumberIs, Zenon
  <2>2. QED
    BY <2>1, Powers, SMT
<1>3. QED
  BY <1>1, <1>2, Zenon

(* What is read from the w bytes of n, in terms of their values.           *)
LEMMA NumberOfU ==
  ASSUME NEW n \in Nat, NEW w \in Nat
  PROVE  Number(U(n, w)) = (IF w >= 1 THEN Digit(n, 1) ELSE 0)
                           + 256 * (IF w >= 2 THEN Digit(n, 2) ELSE 0)
                           + 256 * 256 * (IF w >= 3 THEN Digit(n, 3) ELSE 0)
<1> DEFINE u == U(n, w)
<1>1. u \in Seq(Cell) /\ Len(u) = w /\ \A k \in 1 .. w : u[k] = Byte(Digit(n, k))
  BY UFacts, Zenon
<1> HIDE DEF u
<1>2. DOMAIN u = 1 .. w
  BY <1>1
<1>3. \A k \in 1 .. w : u[k][1] = "byte" /\ u[k][2] = Digit(n, k)
  <2>1. TAKE k \in 1 .. w
  <2>2. k \in Nat \ {0}
    OBVIOUS
  <2>3. Digit(n, k) \in 0 .. 255
    BY <2>2, Digits, Zenon
  <2>4. Byte(Digit(n, k))[1] = "byte" /\ Byte(Digit(n, k))[2] = Digit(n, k)
    BY <2>3, ByteFacts, Zenon
  <2>5. QED
    BY <1>1, <2>4, Zenon
<1>4. \A k \in Nat \ {0} : ByteOf(u, k) = IF k <= w THEN Digit(n, k) ELSE 0
  <2>1. TAKE k \in Nat \ {0}
  <2>2. k \in 1 .. w <=> k <= w
    OBVIOUS
  <2>3. QED
    BY <1>2, <1>3, <2>2, Zenon DEF ByteOf
<1>5. \A k \in 1 .. w : k > 3 => ByteOf(u, k) = 0
  <2>1. \A k \in 1 .. w : k \in Nat \ {0} /\ (k > 3 => Digit(n, k) = 0)
    <3>1. TAKE k \in 1 .. w
    <3>2. k \in Nat \ {0}
      OBVIOUS
    <3>3. QED
      BY <3>2, LastDigits
  <2>2. QED
    BY <1>4, <2>1, Zenon
<1>6. Number(u) = ByteOf(u, 1) + 256 * ByteOf(u, 2) + 256^2 * ByteOf(u, 3)
  BY <1>2, <1>3, <1>5, NumberIs, Zenon
<1>7. /\ ByteOf(u, 1) = (IF w >= 1 THEN Digit(n, 1) ELSE 0)
      /\ ByteOf(u, 2) = (IF w >= 2 THEN Digit(n, 2) ELSE 0)
      /\ ByteOf(u, 3) = (IF w >= 3 THEN Digit(n, 3) ELSE 0)
  BY <1>4, SMT
<1>8. Number(u) = (IF w >= 1 THEN Digit(n, 1) ELSE 0)
                           + 256 * (IF w >= 2 THEN Digit(n, 2) ELSE 0)
                           + 256 * 256 * (IF w >= 3 THEN Digit(n, 3) ELSE 0)
  <2>1. Number(u) = ByteOf(u, 1) + 256 * ByteOf(u, 2) + (256 * 256) * ByteOf(u, 3)
    BY <1>6, Powers, Zenon
  <2> DEFINE a == ByteOf(u, 1)
             b == ByteOf(u, 2)
             c == ByteOf(u, 3)
  <2>2. /\ a = (IF w >= 1 THEN Digit(n, 1) ELSE 0)
        /\ b = (IF w >= 2 THEN Digit(n, 2) ELSE 0)
        /\ c = (IF w >= 3 THEN Digit(n, 3) ELSE 0)
        /\ Number(u) = a + 256 * b + (256 * 256) * c
    BY <2>1, <1>7
  <2> HIDE DEF a, b, c
  <2>3. QED
    BY <2>2
<1>9. QED
  BY <1>8 DEF u

LEMMA ReadBack ==
  /\ \A n \in 0 .. 255 : Number(U(n, 1)) = n
  /\ \A n \in Uint16 : Number(U(n, 2)) = n
  /\ \A n \in Nat : n < Huge => Number(U(n, 4)) = n
<1>1. ASSUME NEW n \in 0 .. 255 PROVE Number(U(n, 1)) = n
  <2>1. n \in Nat /\ 1 \in Nat /\ 1 \in Nat \ {0}
    BY SMT
  <2>2. Number(U(n, 1)) = (IF 1 >= 1 THEN Digit(n, 1) ELSE 0) + 256 * (IF 1 >= 2 THEN Digit(n, 2) ELSE 0)
                           + 256 * 256 * (IF 1 >= 3 THEN Digit(n, 3) ELSE 0)
    BY <2>1, NumberOfU, SMT
  <2>3. Digit(n, 1) = n % 256
    BY <2>1, FirstDigits, Zenon
  <2>4. n % 256 = n
    BY SMT
  <2>5. QED
    BY <2>2, <2>3, <2>4, SMT
<1>2. ASSUME NEW n \in Uint16 PROVE Number(U(n, 2)) = n
  <2>1. n \in Nat /\ n < 256 * 256 /\ 2 \in Nat /\ 1 \in Nat \ {0}
    BY Uint16Facts, SMT
  <2>2. Number(U(n, 2)) = (IF 2 >= 1 THEN Digit(n, 1) ELSE 0) + 256 * (IF 2 >= 2 THEN Digit(n, 2) ELSE 0)
                           + 256 * 256 * (IF 2 >= 3 THEN Digit(n, 3) ELSE 0)
    BY <2>1, NumberOfU, SMT
  <2>3. Digit(n, 1) = n % 256 /\ Digit(n, 2) = (n \div 256) % 256
    <3>1. n \in Nat
      BY <2>1
    <3>2. QED
      BY <3>1, FirstDigits, ZenonT(30)
  <2>4. n = (n % 256) + 256 * (n \div 256) /\ n \div 256 \in 0 .. 255
    BY <2>1, SMT
  <2>5. (n \div 256) % 256 = n \div 256
    BY <2>4, SMT
  <2>6. Number(U(n, 2)) = (n % 256) + 256 * ((n \div 256) % 256)
    BY <2>1, <2>2, <2>3, SMT
  <2>7. QED
    BY <2>4, <2>5, <2>6, SMT
<1>3. ASSUME NEW n \in Nat, n < Huge PROVE Number(U(n, 4)) = n
  <2>1. n \in Nat /\ n < 256 * 256 * 256 /\ 4 \in Nat /\ 1 \in Nat \ {0}
    BY <1>3, Powers, SMT
  <2>2. Number(U(n, 4)) = (IF 4 >= 1 THEN Digit(n, 1) ELSE 0) + 256 * (IF 4 >= 2 THEN Digit(n, 2) ELSE 0)
                           + 256 * 256 * (IF 4 >= 3 THEN Digit(n, 3) ELSE 0)
    BY <2>1, NumberOfU, SMT
  <2>3. Digit(n, 1) = n % 256 /\ Digit(n, 2) = (n \div 256) % 256 /\ Digit(n, 3) = (n \div (256 * 256)) % 256
    BY <1>3, FirstDigits, ZenonT(30)
  <2> DEFINE a == n \div 256
             b == n \div (256 * 256)
  <2>4. n = (n % 256) + 256 * a /\ a \in Nat
    BY SMT
  <2>5. a = (a % 256) + 256 * (a \div 256)
    BY <2>4, SMT
  <2>6. a \div 256 = b
    BY SMT
  <2>7. b \in 0 .. 255
    BY <2>1, SMT
  <2>8. b % 256 = b
    BY <2>7, SMT
  <2>9. Number(U(n, 4)) = (n % 256) + 256 * (a % 256) + 256 * 256 * (b % 256)
    BY <2>1, <2>2, <2>3, <2>4, <2>7, SMT
  <2> HIDE DEF a, b
  <2>10. (a % 256) \in Nat /\ (n % 256) \in Nat
    BY <2>4, SMT
  <2>11. QED
    BY <2>4, <2>5, <2>6, <2>7, <2>8, <2>9, <2>10, SMT
<1>4. QED
  BY <1>1, <1>2, <1>3, Zenon

-----------------------------------------------------------------------------
(* Scalars and texts.                                                      *)

LEMMA OpaqueFacts ==
  ASSUME NEW kind \in {"text", "scalar"}, NEW v \in Stands, NEW w \in Nat
  PROVE  /\ Opaque(kind, v, w) \in Seq(Cell) /\ Len(Opaque(kind, v, w)) = w
         /\ \A k \in 1 .. w : Opaque(kind, v, w)[k] = <<kind, v, k, w>>
                              /\ Opaque(kind, v, w)[k] # Byte(0)
<1>1. \A k \in 1 .. w : <<kind, v, k, w>> \in Cell
  BY DEF Cell
<1>2. \A k \in 1 .. w : <<kind, v, k, w>> # Byte(0)
  BY DEF Byte
<1>3. QED
  BY <1>1, <1>2 DEF Opaque

LEMMA WholeOpaque ==
  ASSUME NEW kind, NEW v, NEW w \in Nat \ {0}
  PROVE  Whole(kind, Opaque(kind, v, w)) = Gives(v)
<1> DEFINE c == Opaque(kind, v, w)
<1>1. c # <<>> /\ c[1] = <<kind, v, 1, w>>
  BY DEF Opaque
<1>2. c[1][1] = kind /\ c[1][2] = v /\ c[1][4] = w
  BY <1>1
<1>3. c # <<>> /\ c[1][1] = kind /\ c = Opaque(kind, c[1][2], c[1][4])
  BY <1>1, <1>2
<1> HIDE DEF c
<1>4. Whole(kind, c) = Gives(v)
  BY <1>2, <1>3, Zenon DEF Whole
<1>5. QED
  BY <1>4 DEF c

LEMMA GivesFacts ==
  ASSUME NEW v
  PROVE  Gives(v) # Raises /\ Gives(v)[1] = v
BY DEF Gives, Raises

LEMMA ScalarBack ==
  ASSUME NEW x, NEW w \in Nat \ {0}
  PROVE  AsScalar(Scalar(x, w)) = x
BY WholeOpaque, GivesFacts, Zenon DEF AsScalar, Scalar

LEMMA ScalarType ==
  ASSUME NEW cells \in Seq(Cell)
  PROVE  AsScalar(cells) \in Stands
<1>1. CASE Whole("scalar", cells) = Raises
  <2>1. AsScalar(cells) = "other"
    BY <1>1, Zenon DEF AsScalar, Other
  <2>2. "other" \in Stands
    BY DEF Stands
  <2>3. QED
    BY <2>1, <2>2, Zenon
<1>2. CASE Whole("scalar", cells) # Raises
  <2>1. cells # <<>> /\ cells[1][1] = "scalar" /\ Whole("scalar", cells) = Gives(cells[1][2])
    BY <1>2, Zenon DEF Whole
  <2>2. AsScalar(cells) = cells[1][2]
    BY <1>2, <2>1, GivesFacts, Zenon DEF AsScalar
  <2>3. cells[1] \in Cell
    BY <2>1
  <2>4. QED
    BY <2>1, <2>2, <2>3, CellFacts
<1>3. QED
  BY <1>1, <1>2

LEMMA StrFacts ==
  ASSUME NEW text \in Seq(Cell), NEW w \in Nat
  PROVE  /\ Str(text, w) \in Seq(Cell) /\ Len(Str(text, w)) = w
         /\ \A k \in 1 .. w : Str(text, w)[k] = IF k <= Len(text) THEN text[k] ELSE Byte(0)
<1> DEFINE u == U(0, w)
           r == text \o u
<1>1. u \in Seq(Cell) /\ Len(u) = w /\ \A k \in 1 .. w : u[k] = Byte(0)
  <2>1. \A k \in 1 .. w : Digit(0, k) = 0
    <3>1. TAKE k \in 1 .. w
    <3>2. 0 % 256 = 0 /\ (0 \div 256) % 256 = 0 /\ (0 \div (256 * 256)) % 256 = 0
      BY SMT
    <3>3. Digit(0, 1) = 0 /\ Digit(0, 2) = 0 /\ Digit(0, 3) = 0
      BY <3>2, FirstDigits, SMT
    <3>4. k = 1 \/ k = 2 \/ k = 3 \/ k > 3
      BY SMT
    <3>5. QED
      BY <3>3, <3>4, LastDigits
  <2>2. 0 \in Nat
    OBVIOUS
  <2>3. u \in Seq(Cell) /\ Len(u) = w /\ \A k \in 1 .. w : u[k] = Byte(Digit(0, k))
    BY <2>2, UFacts, Zenon
  <2>4. QED
    BY <2>1, <2>3, Zenon
<1> HIDE DEF u
<1>2. PICK n \in Nat : n = Len(text)
  OBVIOUS
<1>3. /\ r \in Seq(Cell) /\ Len(r) = n + w
      /\ \A i \in 1 .. n + w : r[i] = IF i <= n THEN text[i] ELSE u[i - n]
  BY <1>1, <1>2, ConcatProperties
<1> HIDE DEF r
<1>4. \A k \in 1 .. w : r[k] = (IF k <= n THEN text[k] ELSE Byte(0)) /\ r[k] \in Cell
  <2>1. TAKE k \in 1 .. w
  <2>2. k \in 1 .. n + w /\ (~(k <= n) => k - n \in 1 .. w)
    BY <1>2
  <2>3. QED
    BY <1>1, <1>3, <2>2
<1>5. SubSeq(r, 1, w) = [k \in 1 .. w |-> r[k]]
  OBVIOUS
<1>6. SubSeq(r, 1, w) \in Seq(Cell) /\ Len(SubSeq(r, 1, w)) = w
      /\ \A k \in 1 .. w : SubSeq(r, 1, w)[k] = r[k]
  BY <1>4, <1>5
<1>7. Str(text, w) = SubSeq(r, 1, w)
  BY Zenon DEF Str, r, u
<1>8. QED
  BY <1>2, <1>4, <1>6, <1>7

(* What a fixed field gives back of a text.                                *)
LEMMA StrippedStr ==
  ASSUME NEW text \in Seq(Cell), NEW w \in Nat, \A k \in 1 .. Len(text) : text[k] # Byte(0),
         NEW n \in Nat, n = IF Len(text) <= w THEN Len(text) ELSE w
  PROVE  Stripped(Str(text, w)) = SubSeq(text, 1, n)
<1> DEFINE c == Str(text, w)
           T == {0} \cup {k \in DOMAIN c : c[k] # Byte(0)}
<1>1. /\ c \in Seq(Cell) /\ Len(c) = w
      /\ \A k \in 1 .. w : c[k] = IF k <= Len(text) THEN text[k] ELSE Byte(0)
  BY StrFacts, Zenon
<1> HIDE DEF c
<1>2. T = 0 .. n
  BY <1>1
<1>3. Max(T) = n
  <2>1. n \in T /\ \A y \in T : n >= y
    BY <1>2
  <2>2. \A x \in T : (\A y \in T : x >= y) => x = n
    BY <1>2
  <2> HIDE DEF T
  <2>3. QED
    BY <2>1, <2>2, Zenon DEF Max
<1>4. Stripped(c) = SubSeq(c, 1, n)
  BY <1>3, Zenon DEF Stripped, Upto
<1>5. SubSeq(c, 1, n) = SubSeq(text, 1, n)
  <2>1. \A k \in 1 .. n : c[k] = text[k]
    BY <1>1
  <2>2. QED
    BY <2>1
<1>6. QED
  BY <1>4, <1>5 DEF c

-----------------------------------------------------------------------------
(* Tables of fields of one length.                                         *)

JoinStep(S, seqs) ==
    [p \in (1 .. Len(seqs)) \X Seq(S) |-> IF p[1] = 1 THEN seqs[1] ELSE p[2] \o seqs[p[1]]]

LEMMA FlattenUnfolds ==
  ASSUME NEW S, NEW seqs \in Seq(Seq(S)), Len(seqs) # 0
  PROVE  \E f \in [1 .. Len(seqs) -> Seq(S)] :
           /\ f[1] = seqs[1] /\ FlattenSeq(seqs) = f[Len(seqs)]
           /\ \A i \in 2 .. Len(seqs) : f[i] = f[i - 1] \o seqs[i]
<1> DEFINE n == Len(seqs)
           step == JoinStep(S, seqs)
           Body(f) == [i \in 1 .. n |-> IF i = 1 THEN seqs[i] ELSE f[i - 1] \o seqs[i]]
           flatten == CHOOSE flatten : flatten = Body(flatten)
<1>1. n \in Nat \ {0} /\ <<>> \in Seq(S) /\ \A i \in 1 .. n : seqs[i] \in Seq(S)
  OBVIOUS
<1>2. \A i \in 1 .. n, t \in Seq(S) :
        /\ step[<<i, t>>] = IF i = 1 THEN seqs[1] ELSE t \o seqs[i]
        /\ (IF i = 1 THEN seqs[1] ELSE t \o seqs[i]) \in Seq(S)
  <2>1. TAKE i \in 1 .. n, t \in Seq(S)
  <2>2. seqs[i] \in Seq(S) /\ 1 \in 1 .. n
    BY <1>1
  <2>3. seqs[1] \in Seq(S) /\ t \o seqs[i] \in Seq(S)
    BY <1>1, <2>2, ConcatProperties
  <2>4. <<i, t>> \in (1 .. Len(seqs)) \X Seq(S)
    OBVIOUS
  <2>5. QED
    BY <2>3, <2>4 DEF JoinStep
<1>3. step \in [(1 .. n) \X Seq(S) -> Seq(S)]
  <2>1. \A p \in (1 .. n) \X Seq(S) : p[1] \in 1 .. n /\ p[2] \in Seq(S)
    OBVIOUS
  <2>2. \A p \in (1 .. n) \X Seq(S) : (IF p[1] = 1 THEN seqs[1] ELSE p[2] \o seqs[p[1]]) \in Seq(S)
    BY <1>2, <2>1, Zenon
  <2>3. QED
    BY <2>2, Zenon DEF JoinStep
<1> HIDE DEF step
<1>4. PICK g : Unfolds(g, n, Seq(S), <<>>, step)
  BY <1>1, <1>3, Unfold, Zenon
<1>5. /\ \A i \in 1 .. n : g[i] \in Seq(S)
      /\ g[1] = seqs[1] /\ \A i \in 2 .. n : g[i] = g[i - 1] \o seqs[i]
  <2>1. /\ \A i \in 0 .. n : g[i] \in Seq(S)
        /\ \A i \in 1 .. n : g[i] = step[<<i, g[i - 1]>>]
    BY <1>4 DEF Unfolds
  <2>2. \A i \in 1 .. n : i \in 0 .. n /\ i - 1 \in 0 .. n
    BY <1>1
  <2>3. \A i \in 1 .. n : g[i] = IF i = 1 THEN seqs[1] ELSE g[i - 1] \o seqs[i]
    BY <1>2, <2>1, <2>2, Zenon
  <2>4. 1 \in 1 .. n /\ \A i \in 2 .. n : i \in 1 .. n /\ i # 1
    BY <1>1
  <2>5. QED
    BY <2>1, <2>2, <2>3, <2>4, Zenon
<1> DEFINE f == [i \in 1 .. n |-> g[i]]
<1>6. /\ f \in [1 .. n -> Seq(S)] /\ f[1] = seqs[1]
      /\ \A i \in 2 .. n : f[i] = f[i - 1] \o seqs[i]
  <2>1. \A i \in 2 .. n : i \in 1 .. n /\ i - 1 \in 1 .. n
    BY <1>1
  <2>2. \A i \in 1 .. n : f[i] = g[i]
    OBVIOUS
  <2>3. f \in [1 .. n -> Seq(S)]
    BY <1>5, Zenon
  <2> HIDE DEF f
  <2>4. 1 \in 1 .. n
    BY <1>1
  <2>5. f[1] = seqs[1]
    BY <1>5, <2>2, <2>4, Zenon
  <2>6. \A i \in 2 .. n : f[i] = f[i - 1] \o seqs[i]
    BY <1>5, <2>1, <2>2, Zenon
  <2>7. QED
    BY <2>3, <2>5, <2>6
<1> HIDE DEF f
<1>7. f = Body(f)
  <2>1. \A i \in 1 .. n : f[i] = IF i = 1 THEN seqs[i] ELSE f[i - 1] \o seqs[i]
    <3>1. \A i \in 1 .. n : i = 1 \/ i \in 2 .. n
      BY <1>1
    <3>2. QED
      BY <1>6, <3>1, Zenon
  <2>2. f = [i \in 1 .. n |-> f[i]]
    BY <1>6
  <2>3. QED
    BY <2>1, <2>2, Zenon
<1>8. flatten = Body(flatten)
  BY <1>7, Zenon
<1>9. FlattenSeq(seqs) = flatten[n]
  BY DEF FlattenSeq
<1> DEFINE same == {i \in 1 .. n : flatten[i] = f[i]}
           T == {i \in 0 .. n : i = 0 \/ i \in same}
<1>10. \A i \in 1 .. n : flatten[i] = IF i = 1 THEN seqs[i] ELSE flatten[i - 1] \o seqs[i]
  <2>1. \A i \in 1 .. n : Body(flatten)[i] = IF i = 1 THEN seqs[i] ELSE flatten[i - 1] \o seqs[i]
    BY Zenon
  <2> HIDE DEF flatten
  <2>2. QED
    BY <1>8, <2>1, Zenon
<1> HIDE DEF flatten
<1>11. 0 .. n \subseteq T
  <2>1. 0 \in T
    BY <1>1
  <2>2. ASSUME NEW i \in 1 .. n, i - 1 \in T PROVE i \in T
    <3>1. i = 1 \/ (i # 1 /\ i \in 2 .. n /\ i - 1 # 0)
      BY <1>1
    <3>2. CASE i = 1
      BY <1>6, <1>10, <3>2
    <3>3. CASE i # 1 /\ i \in 2 .. n /\ i - 1 # 0
      <4>1. flatten[i - 1] = f[i - 1]
        BY <2>2, <3>3, Zenon
      <4>2. flatten[i] = f[i]
        BY <1>6, <1>10, <3>3, <4>1, Zenon
      <4>3. i \in 0 .. n
        BY <1>1
      <4>4. QED
        BY <4>2, <4>3, Zenon
    <3>4. QED
      BY <3>1, <3>2, <3>3
  <2> HIDE DEF T
  <2>3. n \in Nat
    BY <1>1
  <2>4. QED
    BY <2>1, <2>2, <2>3, Climb
<1>12. flatten[n] = f[n]
  <2>1. n \in 0 .. n /\ n # 0
    BY <1>1
  <2>2. n \in T
    BY <1>11, <2>1
  <2>3. QED
    BY <2>1, <2>2
<1>13. QED
  BY <1>6, <1>9, <1>12

LEMMA FlattenSmall ==
  ASSUME NEW S, NEW x \in Seq(S)
  PROVE  FlattenSeq(<<x>>) = x /\ FlattenSeq(<<>>) = <<>>
<1>1. <<x>> \in Seq(Seq(S)) /\ Len(<<x>>) = 1 /\ <<x>>[1] = x
  OBVIOUS
<1>2. FlattenSeq(<<x>>) = x
  <2> DEFINE one == <<x>>
  <2>1. one \in Seq(Seq(S)) /\ Len(one) = 1 /\ one[1] = x /\ Len(one) # 0
    BY <1>1
  <2> HIDE DEF one
  <2>2. PICK f \in [1 .. Len(one) -> Seq(S)] : f[1] = one[1] /\ FlattenSeq(one) = f[Len(one)]
    BY <2>1, FlattenUnfolds, Zenon
  <2>3. FlattenSeq(one) = x
    BY <2>1, <2>2, Zenon
  <2>4. QED
    BY <2>3 DEF one
<1>3. FlattenSeq(<<>>) = <<>>
  BY DEF FlattenSeq
<1>4. QED
  BY <1>2, <1>3

LEMMA Multiples ==
  ASSUME NEW i \in Int, NEW w \in Int
  PROVE  (i - 1) * w + w = i * w /\ i * w \in Int /\ (i \in Nat /\ w \in Nat => i * w \in Nat)
         /\ 1 * w = w /\ 0 * w = 0
BY SMT

(* A row of blocks of one length.                                          *)
LEMMA FlattenBlocks ==
  ASSUME NEW S, NEW seqs \in Seq(Seq(S)), NEW w \in Nat,
         \A i \in 1 .. Len(seqs) : Len(seqs[i]) = w
  PROVE  /\ FlattenSeq(seqs) \in Seq(S) /\ Len(FlattenSeq(seqs)) = Len(seqs) * w
         /\ \A i \in 1 .. Len(seqs) : Part(FlattenSeq(seqs), (i - 1) * w, seqs[i])
<1> DEFINE n == Len(seqs)
           Row(x, i) == /\ x \in Seq(S) /\ Len(x) = i * w
                        /\ \A j \in 1 .. i : Part(x, (j - 1) * w, seqs[j])
<1>1. n \in Nat /\ \A i \in 1 .. n : seqs[i] \in Seq(S)
  OBVIOUS
<1>2. CASE n = 0
  <2>1. FlattenSeq(seqs) = <<>>
    BY <1>2 DEF FlattenSeq
  <2>2. <<>> \in Seq(S) /\ Len(<<>>) = 0 /\ 0 * w = 0
    OBVIOUS
  <2>3. QED
    BY <1>2, <2>1, <2>2
<1>3. CASE n # 0
  <2>1. PICK f \in [1 .. n -> Seq(S)] :
           /\ f[1] = seqs[1] /\ FlattenSeq(seqs) = f[n]
           /\ \A i \in 2 .. n : f[i] = f[i - 1] \o seqs[i]
    BY <1>3, FlattenUnfolds
  <2> DEFINE T == {i \in 0 .. n : i # 0 => Row(f[i], i)}
  <2>2. 0 \in T
    BY <1>1
  <2>3. ASSUME NEW i \in 1 .. n, i - 1 \in T PROVE i \in T
    <3>1. i = 1 \/ (i # 1 /\ i \in 2 .. n /\ i - 1 # 0 /\ i - 1 \in 1 .. n)
      BY <1>1
    <3>2. CASE i = 1
      <4>1. 1 * w = w /\ (1 - 1) * w = 0
        OBVIOUS
      <4>2. f[1] \in Seq(S) /\ Len(f[1]) = w
        BY <1>1, <2>1, <3>2
      <4>3. Part(f[1], 0, seqs[1])
        BY <2>1, <4>2 DEF Part
      <4>4. \A j \in 1 .. 1 : j = 1
        OBVIOUS
      <4>5. Row(f[1], 1)
        BY <4>1, <4>2, <4>3, <4>4, Zenon
      <4>6. QED
        BY <3>2, <4>5
    <3>3. CASE i # 1 /\ i \in 2 .. n /\ i - 1 # 0 /\ i - 1 \in 1 .. n
      <4> DEFINE a == f[i - 1]
                 b == seqs[i]
      <4>1. Row(a, i - 1) /\ a \in Seq(S)
        BY <2>3, <3>3, Zenon
      <4>2. b \in Seq(S) /\ Len(b) = w /\ f[i] = a \o b
        BY <1>1, <2>1, <3>3
      <4>3. /\ a \o b \in Seq(S) /\ Len(a \o b) = Len(a) + Len(b)
            /\ Part(a \o b, Len(a), b)
            /\ \A off \in Nat, x \in Seq(S) : Part(a, off, x) => Part(a \o b, off, x)
        BY <4>1, <4>2, Joined, Zenon
      <4> HIDE DEF a, b
      <4>4. Len(f[i]) = i * w /\ Part(f[i], (i - 1) * w, b)
        <5>1. (i - 1) * w + w = i * w /\ Len(a) = (i - 1) * w
          BY <4>1, Multiples
        <5>2. QED
          BY <4>2, <4>3, <5>1, Zenon
      <4>5. ASSUME NEW j \in 1 .. i PROVE Part(f[i], (j - 1) * w, seqs[j])
        <5>1. CASE j = i
          BY <4>4, <5>1 DEF b
        <5>2. CASE j # i
          <6>1. j \in 1 .. i - 1 /\ seqs[j] \in Seq(S) /\ j - 1 \in Nat
            BY <5>2, <1>1
          <6>2. Part(a, (j - 1) * w, seqs[j])
            BY <4>1, <6>1, Zenon
          <6>3. (j - 1) * w \in Nat
            BY <6>1, Multiples
          <6>4. QED
            BY <4>2, <4>3, <6>1, <6>2, <6>3, Zenon
        <5>3. QED
          BY <5>1, <5>2
      <4>6. Row(f[i], i)
        BY <4>2, <4>3, <4>4, <4>5, Zenon
      <4>7. QED
        BY <4>6
    <3>4. QED
      BY <3>1, <3>2, <3>3
  <2>4. 0 .. n \subseteq T
    <3> HIDE DEF T
    <3>1. QED
      BY <1>1, <2>2, <2>3, Climb
  <2>5. n \in 0 .. n
    BY <1>1
  <2>6. Row(f[n], n)
    BY <1>3, <2>4, <2>5, Zenon
  <2>7. QED
    BY <2>1, <2>6, Zenon
<1>4. QED
  BY <1>2, <1>3

-----------------------------------------------------------------------------
(* Control messages: their bytes, and what a reader takes of them.         *)

LEMMA MagicFacts ==
  /\ StreamMagic \in Seq(Cell) /\ Len(StreamMagic) = 4
  /\ StreamMagic[1] = Byte(84) /\ StreamMagic[2] = Byte(77) /\ StreamMagic[3] = Byte(85)
  /\ StreamMagic[4] = Byte(2)
<1>1. Byte(84) \in Cell /\ Byte(77) \in Cell /\ Byte(85) \in Cell /\ Byte(2) \in Cell
  BY ByteFacts
<1>2. QED
  BY <1>1 DEF StreamMagic

LEMMA ByteInjective ==
  ASSUME NEW a, NEW b, Byte(a) = Byte(b)
  PROVE  a = b
BY DEF Byte

(* The layout of a control message.                                        *)
LEMMA CtrlParts ==
  ASSUME NEW type \in Nat, NEW payload \in Seq(Cell)
  PROVE  LET m == EncodeCtrl(type, payload) IN
         /\ m \in Seq(Cell) /\ Len(m) = 7 + Len(payload)
         /\ Part(m, 0, StreamMagic) /\ Part(m, 4, U(Len(payload), 2))
         /\ Part(m, 6, U(type, 1)) /\ Part(m, 7, payload)
<1> DEFINE a == StreamMagic
           b == U(Len(payload), 2)
           c == U(type, 1)
           ab == a \o b
           abc == ab \o c
           m == abc \o payload
<1>1. a \in Seq(Cell) /\ Len(a) = 4
  BY MagicFacts
<1>2. b \in Seq(Cell) /\ Len(b) = 2
  <2>1. Len(payload) \in Nat /\ 2 \in Nat
    OBVIOUS
  <2>2. QED
    BY <2>1, UFacts, Zenon
<1>3. c \in Seq(Cell) /\ Len(c) = 1
  <2>1. 1 \in Nat
    OBVIOUS
  <2>2. QED
    BY <2>1, UFacts, Zenon
<1>4. m = EncodeCtrl(type, payload)
  BY DEF EncodeCtrl
<1> HIDE DEF a, b, c
<1>5. /\ ab \in Seq(Cell) /\ Len(ab) = Len(a) + Len(b) /\ Part(ab, 0, a) /\ Part(ab, Len(a), b)
  BY <1>1, <1>2, Joined, Zenon
<1> HIDE DEF ab
<1>6. /\ abc \in Seq(Cell) /\ Len(abc) = Len(ab) + Len(c) /\ Part(abc, Len(ab), c)
      /\ \A off \in Nat, x \in Seq(Cell) : Part(ab, off, x) => Part(abc, off, x)
  BY <1>3, <1>5, Joined, Zenon
<1> HIDE DEF abc
<1>7. /\ m \in Seq(Cell) /\ Len(m) = Len(abc) + Len(payload) /\ Part(m, Len(abc), payload)
      /\ \A off \in Nat, x \in Seq(Cell) : Part(abc, off, x) => Part(m, off, x)
  BY <1>6, Joined, Zenon
<1> HIDE DEF m
<1>8. Len(a) = 4 /\ Len(ab) = 6 /\ Len(abc) = 7 /\ 0 \in Nat /\ 4 \in Nat /\ 6 \in Nat
  BY <1>1, <1>2, <1>3, <1>5, <1>6
<1>9. Part(m, 0, a) /\ Part(m, 4, b) /\ Part(m, 6, c) /\ Part(m, 7, payload) /\ Len(m) = 7 + Len(payload)
  BY <1>1, <1>2, <1>3, <1>5, <1>6, <1>7, <1>8, Zenon
<1>10. QED
  BY <1>4, <1>7, <1>9 DEF a, b, c

(* A message that the fields of a header can tell.                         *)
Msg == [type : Nat, payload : Seq(Cell)]
Fits(m) == m.type \in 0 .. 255 /\ Len(m.payload) < 256 * 256
Enc(m) == EncodeCtrl(m.type, m.payload)

LEMMA MsgFacts ==
  ASSUME NEW type \in Nat, NEW payload \in Seq(Cell)
  PROVE  LET m == [type |-> type, payload |-> payload] IN
         m \in Msg /\ m.type = type /\ m.payload = payload /\ Enc(m) = EncodeCtrl(type, payload)
BY DEF Msg, Enc

LEMMA EncFields ==
  ASSUME NEW m \in Msg
  PROVE  /\ m.type \in Nat /\ m.payload \in Seq(Cell) /\ Len(m.payload) \in Nat
         /\ Enc(m) \in Seq(Cell) /\ Len(Enc(m)) = 7 + Len(m.payload)
         /\ Part(Enc(m), 0, StreamMagic) /\ Part(Enc(m), 4, U(Len(m.payload), 2))
         /\ Part(Enc(m), 6, U(m.type, 1)) /\ Part(Enc(m), 7, m.payload)
<1>1. m.type \in Nat /\ m.payload \in Seq(Cell)
  BY DEF Msg
<1>2. Len(m.payload) \in Nat
  BY <1>1
<1>3. QED
  BY <1>1, <1>2, CtrlParts, Zenon DEF Enc

LEMMA MessageOf ==
  ASSUME NEW m \in Msg, Fits(m)
  PROVE  Message(Enc(m)) = m
<1> DEFINE e == Enc(m)
<1>1. /\ m.type \in Nat /\ m.payload \in Seq(Cell) /\ Len(m.payload) \in Nat
      /\ e \in Seq(Cell) /\ Len(e) = 7 + Len(m.payload)
      /\ Part(e, 6, U(m.type, 1)) /\ Part(e, 7, m.payload)
  BY EncFields, Zenon
<1> HIDE DEF e
<1>2. U(m.type, 1) \in Seq(Cell) /\ Len(U(m.type, 1)) = 1 /\ 1 \in Nat /\ 6 \in Nat /\ 7 \in Nat
  BY <1>1, UFacts
<1>3. At(e, 6, 1) = U(m.type, 1)
  BY <1>1, <1>2, PartRead
<1>4. Number(At(e, 6, 1)) = m.type
  BY <1>3, ReadBack, Zenon DEF Fits
<1>5. From(e, 7) = m.payload
  BY <1>1, <1>2, PartFrom
<1>6. Message(e) = [type |-> m.type, payload |-> m.payload]
  BY <1>4, <1>5, Zenon DEF Message, CtrlHdrSize
<1>7. m = [type |-> m.type, payload |-> m.payload]
  BY DEF Msg
<1>8. QED
  BY <1>6, <1>7 DEF e

LEMMA UptoIsAt ==
  ASSUME NEW S, NEW w \in Seq(S), NEW n \in Nat, n <= Len(w)
  PROVE  /\ Upto(w, n) \in Seq(S) /\ Len(Upto(w, n)) = n
         /\ \A k \in 1 .. n : Upto(w, n)[k] = w[k]
<1>1. \A k \in 1 .. n : w[k] \in S
  OBVIOUS
<1>2. SubSeq(w, 1, n) = [k \in 1 .. n |-> w[k]]
  OBVIOUS
<1>3. SubSeq(w, 1, n) \in Seq(S) /\ Len(SubSeq(w, 1, n)) = n
      /\ \A k \in 1 .. n : SubSeq(w, 1, n)[k] = w[k]
  BY <1>1, <1>2
<1>4. QED
  BY <1>3 DEF Upto

(* The stream that begins with the message m.                              *)
LEMMA HeaderOf ==
  ASSUME NEW m \in Msg, Fits(m), NEW w \in Seq(Cell), Part(w, 0, Enc(m))
  PROVE  /\ Len(w) \in Nat /\ 7 <= Len(w) /\ 7 + Len(m.payload) <= Len(w)
         /\ CtrlHeader(Upto(w, 7)) = [magic |-> StreamMagic, length |-> Len(m.payload), type |-> m.type]
<1> DEFINE e == Enc(m)
           h == Upto(w, 7)
<1>1. /\ m.type \in Nat /\ m.payload \in Seq(Cell) /\ Len(m.payload) \in Nat
      /\ e \in Seq(Cell) /\ Len(e) = 7 + Len(m.payload)
      /\ Part(e, 0, StreamMagic) /\ Part(e, 4, U(Len(m.payload), 2)) /\ Part(e, 6, U(m.type, 1))
  BY EncFields, Zenon
<1> HIDE DEF e
<1>2. Len(w) \in Nat /\ Len(e) <= Len(w) /\ \A k \in 1 .. Len(e) : w[k] = e[k]
  BY <1>1 DEF Part, e
<1>3. 7 <= Len(w) /\ 7 + Len(m.payload) <= Len(w)
  BY <1>1, <1>2
<1>4. h \in Seq(Cell) /\ Len(h) = 7 /\ \A k \in 1 .. 7 : h[k] = w[k]
  BY <1>3, UptoIsAt
<1> HIDE DEF h
<1>5. \A k \in 1 .. 7 : h[k] = e[k]
  <2>1. \A k \in 1 .. 7 : k \in 1 .. Len(e)
    BY <1>1
  <2>2. QED
    BY <1>2, <1>4, <2>1, Zenon
<1>6. ASSUME NEW off \in Nat, NEW x \in Seq(Cell), Part(e, off, x), off + Len(x) <= 7
      PROVE  At(h, off, Len(x)) = x
  <2>1. Part(h, off, x)
    <3>1. \A k \in 1 .. Len(x) : off + k \in 1 .. 7
      BY <1>6
    <3>2. \A k \in 1 .. Len(x) : h[off + k] = x[k]
      BY <1>5, <1>6, <3>1, Zenon DEF Part
    <3>3. QED
      BY <1>4, <1>6, <3>2 DEF Part
  <2>2. QED
    BY <1>4, <2>1, PartRead
<1>7. /\ U(Len(m.payload), 2) \in Seq(Cell) /\ Len(U(Len(m.payload), 2)) = 2
      /\ U(m.type, 1) \in Seq(Cell) /\ Len(U(m.type, 1)) = 1
      /\ StreamMagic \in Seq(Cell) /\ Len(StreamMagic) = 4
  BY <1>1, UFacts, MagicFacts, ZenonT(30)
<1>8. At(h, 0, 4) = StreamMagic /\ At(h, 4, 2) = U(Len(m.payload), 2) /\ At(h, 6, 1) = U(m.type, 1)
  <2>1. 0 \in Nat /\ 4 \in Nat /\ 6 \in Nat /\ 0 + 4 <= 7 /\ 4 + 2 <= 7 /\ 6 + 1 <= 7
    OBVIOUS
  <2>2. At(h, 0, 4) = StreamMagic
    BY <1>1, <1>6, <1>7, <2>1, Zenon
  <2>3. At(h, 4, 2) = U(Len(m.payload), 2)
    <3> DEFINE u == U(Len(m.payload), 2)
    <3>1. u \in Seq(Cell) /\ Len(u) = 2 /\ Part(e, 4, u)
      BY <1>1, <1>7
    <3> HIDE DEF u
    <3>2. At(h, 4, Len(u)) = u
      BY <1>6, <2>1, <3>1, Zenon
    <3>3. At(h, 4, 2) = u
      BY <3>1, <3>2, Zenon
    <3>4. QED
      BY <3>3 DEF u
  <2>4. At(h, 6, 1) = U(m.type, 1)
    BY <1>1, <1>6, <1>7, <2>1, Zenon
  <2>5. QED
    BY <2>2, <2>3, <2>4
<1>9. Number(At(h, 4, 2)) = Len(m.payload) /\ Number(At(h, 6, 1)) = m.type
  <2>1. Len(m.payload) \in Uint16
    BY <1>1, Uint16Facts DEF Fits
  <2>2. QED
    BY <1>8, <2>1, ReadBack, Zenon DEF Fits
<1>10. CtrlHeader(h) = [magic |-> StreamMagic, length |-> Len(m.payload), type |-> m.type]
  BY <1>8, <1>9, Zenon DEF CtrlHeader
<1>11. QED
  BY <1>2, <1>3, <1>10 DEF h

LEMMA HeadOfStream ==
  ASSUME NEW w \in Seq(Cell)
  PROVE  LET h == Upto(w, Min({CtrlHdrSize, Len(w)})) IN
         /\ Len(w) < 7 => h = Upto(w, Len(w))
         /\ 7 <= Len(w) => h = Upto(w, 7)
<1>1. Min({CtrlHdrSize, Len(w)}) = IF 7 <= Len(w) THEN 7 ELSE Len(w)
  BY MinOfTwo DEF CtrlHdrSize
<1>2. QED
  BY <1>1

LEMMA TakesMessage ==
  ASSUME NEW m \in Msg, Fits(m), NEW rest \in Seq(Cell), NEW side
  PROVE  LET w == Enc(m) \o rest IN
         /\ w \in Seq(Cell) /\ w # <<>>
         /\ Framing(side, w) = "message" \/ Framing(side, w) = "broken"
         /\ FirstOf(w) = m /\ AfterFirst(w) = rest
<1> DEFINE e == Enc(m)
           w == e \o rest
           h == Upto(w, Min({CtrlHdrSize, Len(w)}))
<1>1. m.payload \in Seq(Cell) /\ Len(m.payload) \in Nat /\ e \in Seq(Cell) /\ Len(e) = 7 + Len(m.payload)
  BY EncFields, Zenon
<1>2. w \in Seq(Cell) /\ Len(w) = Len(e) + Len(rest) /\ Part(w, 0, e) /\ Part(w, Len(e), rest)
  BY <1>1, Joined, Zenon
<1> HIDE DEF w
<1>3. /\ Len(w) \in Nat /\ 7 <= Len(w) /\ 7 + Len(m.payload) <= Len(w)
      /\ CtrlHeader(Upto(w, 7)) = [magic |-> StreamMagic, length |-> Len(m.payload), type |-> m.type]
  BY <1>2, HeaderOf, Zenon
<1> HIDE DEF e
<1>4. h = Upto(w, 7)
  BY <1>2, <1>3, HeadOfStream
<1> HIDE DEF h
<1>5. CtrlHeader(h).magic = StreamMagic /\ CtrlHeader(h).length = Len(m.payload)
      /\ CtrlHeader(Upto(w, 7)).length = Len(m.payload)
  BY <1>3, <1>4
<1>6. Framing(side, w) = "message" \/ Framing(side, w) = "broken"
  <2>1. ~(Len(w) < CtrlHdrSize) /\ ~(Len(w) < CtrlHdrSize + CtrlHeader(h).length)
    BY <1>3, <1>5 DEF CtrlHdrSize
  <2>2. QED
    BY <1>5, <2>1 DEF Framing, h
<1>7. CtrlHdrSize + CtrlHeader(Upto(w, CtrlHdrSize)).length = Len(e)
  BY <1>1, <1>5 DEF CtrlHdrSize
<1>8. Upto(w, Len(e)) = e
  <2>1. Len(e) \in Nat /\ Len(e) <= Len(w)
    BY <1>1, <1>2
  <2>2. /\ Upto(w, Len(e)) \in Seq(Cell) /\ Len(Upto(w, Len(e))) = Len(e)
        /\ \A k \in 1 .. Len(e) : Upto(w, Len(e))[k] = w[k]
    BY <1>2, <2>1, UptoIsAt
  <2>3. \A k \in 1 .. Len(e) : w[k] = e[k]
    BY <1>2 DEF Part
  <2>4. QED
    BY <1>1, <2>2, <2>3, SeqEqual
<1>9. From(w, Len(e)) = rest
  BY <1>1, <1>2, PartFrom
<1>10. FirstOf(w) = m
  BY <1>7, <1>8, MessageOf, Zenon DEF FirstOf, e
<1>11. AfterFirst(w) = rest
  BY <1>7, <1>9, Zenon DEF AfterFirst
<1>12. w # <<>>
  BY <1>3
<1>13. QED
  BY <1>2, <1>6, <1>10, <1>11, <1>12 DEF w, e

-----------------------------------------------------------------------------
(* A stream that carries messages.                                         *)

(* The stream w carries the messages ms and nothing else.                  *)
Carries(w, ms) ==
    \E f \in [0 .. Len(ms) -> Seq(Cell)] :
        /\ f[0] = w /\ f[Len(ms)] = <<>>
        /\ \A k \in 1 .. Len(ms) : Fits(ms[k]) /\ f[k - 1] = Enc(ms[k]) \o f[k]

LEMMA CarriesNone ==
  /\ Carries(<<>>, <<>>)
  /\ \A w : Carries(w, <<>>) => w = <<>>
<1>1. Carries(<<>>, <<>>)
  <2> DEFINE f == [k \in 0 .. 0 |-> <<>>]
  <2>1. f \in [0 .. Len(<<>>) -> Seq(Cell)] /\ f[0] = <<>> /\ f[Len(<<>>)] = <<>>
    OBVIOUS
  <2>2. \A k \in 1 .. Len(<<>>) : FALSE
    OBVIOUS
  <2> HIDE DEF f
  <2>3. QED
    BY <2>1, <2>2, Zenon DEF Carries
<1>2. ASSUME NEW w, Carries(w, <<>>) PROVE w = <<>>
  <2>1. Len(<<>>) = 0
    OBVIOUS
  <2>2. PICK f : f[0] = w /\ f[Len(<<>>)] = <<>>
    BY <1>2, Zenon DEF Carries
  <2>3. QED
    BY <2>1, <2>2, Zenon
<1>3. QED
  BY <1>1, <1>2, Zenon

LEMMA EncType ==
  ASSUME NEW m \in Msg
  PROVE  Enc(m) \in Seq(Cell)
BY EncFields, Zenon

LEMMA ConcatAgain ==
  ASSUME NEW S, NEW a \in Seq(S), NEW b \in Seq(S), NEW c \in Seq(S)
  PROVE  /\ a \o b \in Seq(S) /\ (a \o b) \o c = a \o (b \o c)
         /\ a \o <<>> = a /\ <<>> \o a = a
<1>1. a \o b \in Seq(S)
  BY ConcatProperties
<1>2. (a \o b) \o c = a \o (b \o c)
  BY ConcatAssociative
<1>3. a \o <<>> = a /\ <<>> \o a = a
  BY ConcatEmptySeq
<1>4. QED
  BY <1>1, <1>2, <1>3

LEMMA CarriesMore ==
  ASSUME NEW w \in Seq(Cell), NEW ms \in Seq(Msg), Carries(w, ms), NEW m \in Msg, Fits(m)
  PROVE  Carries(w \o Enc(m), Append(ms, m))
<1> DEFINE n == Len(ms)
           as == Append(ms, m)
           e == Enc(m)
<1>1. n \in Nat /\ e \in Seq(Cell)
  BY EncType
<1>2. PICK f \in [0 .. n -> Seq(Cell)] :
        /\ f[0] = w /\ f[n] = <<>>
        /\ \A k \in 1 .. n : Fits(ms[k]) /\ f[k - 1] = Enc(ms[k]) \o f[k]
  BY DEF Carries
<1>3. as \in Seq(Msg) /\ Len(as) = n + 1 /\ as[n + 1] = m /\ \A k \in 1 .. n : as[k] = ms[k]
  BY AppendFacts
<1> HIDE DEF as, e
<1> DEFINE g == [k \in 0 .. n + 1 |-> IF k <= n THEN f[k] \o e ELSE <<>>]
<1>4. /\ \A k \in 0 .. n : g[k] = f[k] \o e /\ f[k] \o e \in Seq(Cell)
      /\ g[n + 1] = <<>>
  <2>1. \A k \in 0 .. n : f[k] \in Seq(Cell) /\ k \in 0 .. n + 1 /\ k <= n
    BY <1>1
  <2>2. \A k \in 0 .. n : f[k] \o e \in Seq(Cell)
    BY <1>1, <2>1, ConcatAgain
  <2>3. n + 1 \in 0 .. n + 1 /\ ~(n + 1 <= n)
    BY <1>1
  <2>4. QED
    BY <2>1, <2>2, <2>3, Zenon
<1>5. g \in [0 .. n + 1 -> Seq(Cell)]
  <2>1. \A k \in 0 .. n + 1 : k \in 0 .. n \/ k = n + 1
    BY <1>1
  <2>2. <<>> \in Seq(Cell)
    OBVIOUS
  <2>3. \A k \in 0 .. n + 1 : g[k] \in Seq(Cell)
    BY <1>4, <2>1, <2>2, Zenon
  <2>4. g = [k \in 0 .. n + 1 |-> g[k]]
    OBVIOUS
  <2> HIDE DEF g
  <2>5. QED
    BY <2>3, <2>4, Zenon
<1> HIDE DEF g
<1>6. g[0] = w \o e
  <2>1. 0 \in 0 .. n
    BY <1>1
  <2>2. QED
    BY <1>2, <1>4, <2>1, Zenon
<1>7. ASSUME NEW k \in 1 .. n + 1 PROVE Fits(as[k]) /\ g[k - 1] = Enc(as[k]) \o g[k]
  <2>1. CASE k \in 1 .. n
    <3>1. k \in 0 .. n /\ k - 1 \in 0 .. n /\ ms[k] \in Msg
      BY <2>1, <1>1
    <3>2. Enc(ms[k]) \in Seq(Cell) /\ f[k] \in Seq(Cell)
      BY <3>1, EncType
    <3>3. (Enc(ms[k]) \o f[k]) \o e = Enc(ms[k]) \o (f[k] \o e)
      <4>1. \A a, b, c \in Seq(Cell) : (a \o b) \o c = a \o (b \o c)
        BY ConcatAssociative, SMTT(30)
      <4>2. e \in Seq(Cell)
        BY <1>1
      <4>3. QED
        BY <3>2, <4>1, <4>2, Zenon
    <3>4. g[k - 1] = f[k - 1] \o e /\ g[k] = f[k] \o e /\ f[k - 1] = Enc(ms[k]) \o f[k]
      BY <1>2, <1>4, <2>1, <3>1, Zenon
    <3>5. as[k] = ms[k] /\ Fits(ms[k])
      BY <1>2, <1>3, <2>1, Zenon
    <3>6. QED
      BY <3>3, <3>4, <3>5, Zenon
  <2>2. CASE k \notin 1 .. n
    <3>1. k = n + 1 /\ k - 1 = n /\ n \in 0 .. n
      BY <1>1, <2>2
    <3>2. g[n] = <<>> \o e /\ g[n + 1] = <<>>
      BY <1>2, <1>4, <3>1, Zenon
    <3>3. <<>> \o e = e /\ e \o <<>> = e
      BY <1>1, ConcatAgain
    <3>4. as[k] = m
      BY <1>3, <3>1, Zenon
    <3>5. QED
      BY <3>1, <3>2, <3>3, <3>4, Zenon DEF e
  <2>3. QED
    BY <2>1, <2>2
<1>8. Carries(w \o e, as)
  BY <1>1, <1>3, <1>5, <1>6, <1>4, <1>7, Zenon DEF Carries
<1>9. QED
  BY <1>8 DEF as, e

LEMMA CarriesFirst ==
  ASSUME NEW w, NEW ms \in Seq(Msg), Carries(w, ms), ms # <<>>
  PROVE  /\ ms[1] \in Msg /\ Fits(ms[1]) /\ Tail(ms) \in Seq(Msg)
         /\ \E rest \in Seq(Cell) : w = Enc(ms[1]) \o rest /\ Carries(rest, Tail(ms))
<1> DEFINE n == Len(ms)
           t == Tail(ms)
<1>1. n \in Nat \ {0} /\ t \in Seq(Msg) /\ Len(t) = n - 1 /\ \A k \in 1 .. n - 1 : t[k] = ms[k + 1]
  BY TailFacts
<1> HIDE DEF t
<1>2. PICK f \in [0 .. n -> Seq(Cell)] :
        /\ f[0] = w /\ f[n] = <<>>
        /\ \A k \in 1 .. n : Fits(ms[k]) /\ f[k - 1] = Enc(ms[k]) \o f[k]
  BY DEF Carries
<1>3. 1 \in 1 .. n /\ 1 \in 0 .. n /\ 1 - 1 = 0
  BY <1>1
<1>4. ms[1] \in Msg /\ Fits(ms[1]) /\ f[1] \in Seq(Cell) /\ w = Enc(ms[1]) \o f[1]
  <2>1. ms[1] \in Msg /\ f[1] \in Seq(Cell)
    BY <1>3
  <2>2. Fits(ms[1]) /\ f[1 - 1] = Enc(ms[1]) \o f[1]
    BY <1>2, <1>3, Zenon
  <2>3. QED
    BY <1>2, <1>3, <2>1, <2>2
<1> DEFINE g == [k \in 0 .. n - 1 |-> f[k + 1]]
<1>5. \A k \in 0 .. n - 1 : g[k] = f[k + 1] /\ f[k + 1] \in Seq(Cell)
  BY <1>1, SMTT(30)
<1>6. g \in [0 .. n - 1 -> Seq(Cell)]
  BY <1>5
<1> HIDE DEF g
<1>7. g[0] = f[1] /\ g[n - 1] = <<>>
  <2>1. 0 \in 0 .. n - 1 /\ 0 + 1 = 1 /\ n - 1 \in 0 .. n - 1 /\ n - 1 + 1 = n
    BY <1>1
  <2>2. g[0] = f[0 + 1] /\ g[n - 1] = f[n - 1 + 1]
    BY <1>5, <2>1, Zenon
  <2>3. QED
    BY <1>2, <2>1, <2>2
<1>8. ASSUME NEW k \in 1 .. n - 1 PROVE Fits(t[k]) /\ g[k - 1] = Enc(t[k]) \o g[k]
  <2>1. k \in 0 .. n - 1 /\ k - 1 \in 0 .. n - 1 /\ k - 1 + 1 = k /\ k + 1 \in 1 .. n /\ k + 1 - 1 = k
    BY <1>1
  <2>2. Fits(ms[k + 1]) /\ f[k + 1 - 1] = Enc(ms[k + 1]) \o f[k + 1]
    BY <1>2, <2>1
  <2>3. t[k] = ms[k + 1] /\ g[k] = f[k + 1] /\ g[k - 1] = f[k - 1 + 1]
    BY <1>1, <1>5, <2>1, Zenon
  <2>4. QED
    BY <2>1, <2>2, <2>3
<1>9. Carries(f[1], t)
  BY <1>1, <1>6, <1>7, <1>8, Zenon DEF Carries
<1>10. QED
  BY <1>1, <1>4, <1>9, Zenon DEF t

-----------------------------------------------------------------------------
(* What a reader makes of a stream.                                        *)

LEMMA NoMessage ==
  ASSUME NEW side, NEW w \in Seq(Cell), Len(w) < 7 \/ w[1] # Byte(84)
  PROVE  Framing(side, w) # "message"
<1> DEFINE h == Upto(w, Min({CtrlHdrSize, Len(w)}))
<1>1. CASE Len(w) < 7
  <2>1. Len(w) < CtrlHdrSize
    BY <1>1 DEF CtrlHdrSize
  <2>2. Framing(side, w) = "none"
    BY <2>1, Zenon DEF Framing
  <2>3. QED
    BY <2>2
<1>2. CASE ~(Len(w) < 7) /\ w[1] # Byte(84)
  <2>1. 7 <= Len(w) /\ ~(Len(w) < CtrlHdrSize)
    BY <1>2 DEF CtrlHdrSize
  <2>2. h = Upto(w, 7)
    BY <2>1, HeadOfStream
  <2> HIDE DEF h
  <2>3. h \in Seq(Cell) /\ Len(h) = 7 /\ h[1] = w[1]
    <3>1. 7 \in Nat /\ 1 \in 1 .. 7
      OBVIOUS
    <3>2. h \in Seq(Cell) /\ Len(h) = 7 /\ \A k \in 1 .. 7 : h[k] = w[k]
      BY <2>1, <2>2, <3>1, UptoIsAt, Zenon
    <3>3. QED
      BY <3>1, <3>2
  <2>4. At(h, 0, 4)[1] = w[1]
    <3>1. 0 \in Nat /\ 4 \in Nat /\ 0 + 4 <= Len(h) /\ 1 \in 1 .. 4
      BY <2>3
    <3>2. At(h, 0, 4)[1] = h[0 + 1]
      BY <2>3, <3>1, AtWithin
    <3>3. QED
      BY <2>3, <3>2
  <2>5. CtrlHeader(h).magic # StreamMagic
    <3>1. CtrlHeader(h).magic = At(h, 0, 4)
      BY DEF CtrlHeader
    <3>2. QED
      BY <1>2, <2>4, <3>1, MagicFacts, ZenonT(30)
  <2>6. Framing(side, w) = "broken"
    BY <2>1, <2>5, Zenon DEF Framing, h
  <2>7. QED
    BY <2>6
<1>3. QED
  BY <1>1, <1>2

LEMMA AnyMessage ==
  ASSUME NEW side, NEW w \in Seq(Cell), Framing(side, w) = "message"
  PROVE  FirstOf(w) \in Msg /\ AfterFirst(w) \in Seq(Cell)
<1> DEFINE h == Upto(w, Min({CtrlHdrSize, Len(w)}))
           n == Len(w)
<1>1. n \in Nat
  OBVIOUS
<1>2. ~(n < 7) /\ ~(n < 7 + CtrlHeader(h).length)
  BY Zenon DEF Framing, CtrlHdrSize
<1>3. h = Upto(w, 7)
  BY <1>1, <1>2, HeadOfStream
<1> HIDE DEF h
<1>4. h \in Seq(Cell)
  BY <1>1, <1>2, <1>3, UptoIsAt
<1>5. CtrlHeader(h).length \in Nat
  <2>1. At(h, 4, 2) \in Seq(Cell)
    BY <1>4, AtFacts
  <2>2. CtrlHeader(h).length = Number(At(h, 4, 2))
    BY DEF CtrlHeader
  <2>3. QED
    BY <2>1, <2>2, NumberType
<1> DEFINE l == 7 + CtrlHeader(h).length
<1>6. l \in Nat /\ l <= n
  BY <1>1, <1>2, <1>5
<1>7. l = CtrlHdrSize + CtrlHeader(Upto(w, CtrlHdrSize)).length
  BY <1>3 DEF CtrlHdrSize
<1> HIDE DEF l
<1>8. Upto(w, l) \in Seq(Cell)
  BY <1>6, UptoIsAt
<1>9. FirstOf(w) \in Msg
  <2> DEFINE b == Upto(w, l)
  <2>1. At(b, 6, 1) \in Seq(Cell) /\ From(b, 7) \in Seq(Cell)
    BY <1>8, AtFacts, FromFacts
  <2>2. Number(At(b, 6, 1)) \in Nat
    BY <2>1, NumberType
  <2>3. FirstOf(w) = [type |-> Number(At(b, 6, 1)), payload |-> From(b, 7)]
    BY <1>7, Zenon DEF FirstOf, Message, CtrlHdrSize
  <2>4. QED
    BY <2>1, <2>2, <2>3, MsgFacts, Zenon
<1>10. AfterFirst(w) \in Seq(Cell)
  BY <1>6, <1>7, FromFacts, Zenon DEF AfterFirst
<1>11. QED
  BY <1>9, <1>10

-----------------------------------------------------------------------------
(* One direction of the stream.                                            *)

(* What is left of snt behind rd is on its way, whole.                     *)
Aligned(w, snt, rd) == \E ms \in Seq(Msg) : snt = rd \o ms /\ Carries(w, ms)

(* A message in which a reader that has lost the beginning finds no other  *)
(* beginning: all that is said after the handshake.                        *)
Plain(m) == /\ m.type # 84 /\ Len(m.payload) \in {1, 8, 129}
            /\ \A k \in 1 .. Len(m.payload) : m.payload[k] # Byte(84)

(* A reader that has lost the beginning of a message sees no other one,    *)
(* and nothing more that is sent will change it.                           *)
Astray(w) == w # <<>> /\ w[1] # Byte(84)

Courteous(snt) == \A i \in 3 .. Len(snt) : Plain(snt[i])

(* One direction of the stream: shaking while its reader is in the         *)
(* handshake, looping while it reads after it; s time-outs have passed.    *)
Flow(w, snt, rd, shaking, looping, s) ==
    /\ w \in Seq(Cell) /\ snt \in Seq(Msg) /\ rd \in Seq(Msg)
    /\ Courteous(snt)
    /\ shaking => Aligned(w, snt, rd)
    /\ looping => Len(rd) >= 2
    /\ MaxStalls <= 1 =>
         /\ IsPrefix(rd, snt)
         /\ looping => Aligned(w, snt, rd) \/ (s >= 1 /\ Astray(w))

LEMMA AlignedSend ==
  ASSUME NEW w \in Seq(Cell), NEW snt \in Seq(Msg), NEW rd \in Seq(Msg), Aligned(w, snt, rd),
         NEW m \in Msg, Fits(m)
  PROVE  Aligned(w \o Enc(m), Append(snt, m), rd)
<1>1. PICK ms \in Seq(Msg) : snt = rd \o ms /\ Carries(w, ms)
  BY DEF Aligned
<1>2. Append(ms, m) \in Seq(Msg)
  BY AppendFacts
<1>3. Append(snt, m) = rd \o Append(ms, m)
  <2>1. \A x \in Msg : rd \o Append(ms, x) = Append(rd \o ms, x)
    BY ConcatFacts
  <2>2. QED
    BY <1>1, <2>1
<1>4. Carries(w \o Enc(m), Append(ms, m))
  BY <1>1, CarriesMore
<1>5. QED
  BY <1>2, <1>3, <1>4, Zenon DEF Aligned

LEMMA AlignedTake ==
  ASSUME NEW side, NEW w \in Seq(Cell), NEW snt \in Seq(Msg), NEW rd \in Seq(Msg),
         Aligned(w, snt, rd), Framing(side, w) = "message"
  PROVE  /\ Len(rd) + 1 \in 1 .. Len(snt) /\ FirstOf(w) = snt[Len(rd) + 1]
         /\ Aligned(AfterFirst(w), snt, Append(rd, FirstOf(w)))
<1>1. PICK ms \in Seq(Msg) : snt = rd \o ms /\ Carries(w, ms)
  BY DEF Aligned
<1>2. ms # <<>>
  <2>1. ASSUME ms = <<>> PROVE FALSE
    <3>1. w = <<>>
      BY <1>1, <2>1, CarriesNone, Zenon
    <3>2. Len(w) < 7
      BY <3>1
    <3>3. QED
      BY <3>2, NoMessage, Zenon
  <2>2. QED
    BY <2>1
<1>3. /\ ms[1] \in Msg /\ Fits(ms[1]) /\ Tail(ms) \in Seq(Msg)
      /\ \E rest \in Seq(Cell) : w = Enc(ms[1]) \o rest /\ Carries(rest, Tail(ms))
  BY <1>1, <1>2, CarriesFirst, Zenon
<1>4. PICK rest \in Seq(Cell) : w = Enc(ms[1]) \o rest /\ Carries(rest, Tail(ms))
  BY <1>3
<1>5. FirstOf(w) = ms[1] /\ AfterFirst(w) = rest
  BY <1>3, <1>4, TakesMessage, Zenon
<1>6. Len(ms) \in Nat \ {0} /\ Head(ms) = ms[1]
  BY <1>2, TailFacts
<1>7. Len(rd) + 1 \in 1 .. Len(snt) /\ snt[Len(rd) + 1] = ms[1]
  <2>1. /\ Len(snt) = Len(rd) + Len(ms)
        /\ \A i \in 1 .. Len(rd) + Len(ms) : snt[i] = IF i <= Len(rd) THEN rd[i] ELSE ms[i - Len(rd)]
    BY <1>1, ConcatProperties
  <2>2. Len(rd) \in Nat
    OBVIOUS
  <2>3. Len(rd) + 1 \in 1 .. Len(rd) + Len(ms) /\ ~(Len(rd) + 1 <= Len(rd)) /\ Len(rd) + 1 - Len(rd) = 1
    BY <1>6, <2>2
  <2>4. QED
    BY <2>1, <2>3
<1>8. snt = Append(rd, ms[1]) \o Tail(ms)
  <2>1. Append(rd, Head(ms)) \o Tail(ms) = rd \o ms
    BY <1>2, ConcatFacts
  <2>2. QED
    BY <1>1, <1>6, <2>1
<1>9. Aligned(AfterFirst(w), snt, Append(rd, FirstOf(w)))
  BY <1>3, <1>4, <1>5, <1>8, Zenon DEF Aligned
<1>10. QED
  BY <1>5, <1>7, <1>9

LEMMA AlignedPrefix ==
  ASSUME NEW w, NEW snt \in Seq(Msg), NEW rd \in Seq(Msg), Aligned(w, snt, rd)
  PROVE  IsPrefix(rd, snt)
BY PrefixOfJoined DEF Aligned

(* What is said makes the sent messages longer, and a prefix stays one.    *)
LEMMA PrefixAppend ==
  ASSUME NEW S, NEW rd \in Seq(S), NEW snt \in Seq(S), IsPrefix(rd, snt), NEW m \in S
  PROVE  IsPrefix(rd, Append(snt, m))
<1>1. PICK n \in Nat : n = Len(rd)
  OBVIOUS
<1>2. Len(rd) <= Len(snt) /\ \A k \in 1 .. n : rd[k] = snt[k]
  <2>1. Len(rd) <= Len(snt) /\ SubSeq(rd, 1, Len(rd)) = SubSeq(snt, 1, Len(rd))
    BY DEF IsPrefix
  <2>2. \A k \in 1 .. n : SubSeq(rd, 1, n)[k] = rd[k] /\ SubSeq(snt, 1, n)[k] = snt[k]
    BY <1>1, <2>1
  <2>3. QED
    BY <1>1, <2>1, <2>2
<1>3. Append(snt, m) \in Seq(S) /\ Len(Append(snt, m)) = Len(snt) + 1
      /\ \A k \in 1 .. Len(snt) : Append(snt, m)[k] = snt[k]
  BY AppendFacts
<1>4. \A k \in 1 .. n : rd[k] = Append(snt, m)[k]
  BY <1>1, <1>2, <1>3
<1>5. SubSeq(rd, 1, n) = SubSeq(Append(snt, m), 1, n)
  <2> DEFINE a == Append(snt, m)
  <2>1. a \in Seq(S) /\ \A k \in 1 .. n : rd[k] = a[k]
    BY <1>3, <1>4
  <2> HIDE DEF a
  <2>2. SubSeq(rd, 1, n) = SubSeq(a, 1, n)
    BY <2>1
  <2>3. QED
    BY <2>2 DEF a
<1>6. Len(rd) <= Len(Append(snt, m))
  BY <1>2, <1>3
<1>7. QED
  BY <1>1, <1>5, <1>6 DEF IsPrefix

(* The cells of a plain message.                                           *)
LEMMA PlainCells ==
  ASSUME NEW m \in Msg, Fits(m), Plain(m)
  PROVE  /\ Enc(m) \in Seq(Cell) /\ Len(Enc(m)) = 7 + Len(m.payload)
         /\ \A j \in 2 .. Len(Enc(m)) : Enc(m)[j] # Byte(84)
<1> DEFINE e == Enc(m)
           n == Len(m.payload)
<1>1. /\ m.type \in Nat /\ m.payload \in Seq(Cell) /\ n \in Nat
      /\ e \in Seq(Cell) /\ Len(e) = 7 + n
      /\ Part(e, 0, StreamMagic) /\ Part(e, 4, U(n, 2)) /\ Part(e, 6, U(m.type, 1)) /\ Part(e, 7, m.payload)
  BY EncFields, Zenon
<1> HIDE DEF e
<1>2. n = 1 \/ n = 8 \/ n = 129
  BY DEF Plain
<1>3. ASSUME NEW b \in Nat, b # 84 PROVE Byte(b) # Byte(84)
  BY <1>3, ByteInjective, Zenon
<1>4. e[2] # Byte(84) /\ e[3] # Byte(84) /\ e[4] # Byte(84)
  <2>1. e[2] = StreamMagic[2] /\ e[3] = StreamMagic[3] /\ e[4] = StreamMagic[4]
    <3>1. \A k \in 1 .. 4 : e[0 + k] = StreamMagic[k]
      BY <1>1, MagicFacts DEF Part
    <3>2. QED
      BY <3>1
  <2>2. Byte(77) # Byte(84) /\ Byte(85) # Byte(84) /\ Byte(2) # Byte(84)
    BY <1>3
  <2>3. QED
    BY <2>1, <2>2, MagicFacts
<1>5. e[5] # Byte(84) /\ e[6] # Byte(84)
  <2>1. Len(U(n, 2)) = 2 /\ \A k \in 1 .. 2 : U(n, 2)[k] = Byte(Digit(n, k))
    BY <1>1, UFacts
  <2>2. e[5] = Byte(Digit(n, 1)) /\ e[6] = Byte(Digit(n, 2))
    <3>1. \A k \in 1 .. 2 : e[4 + k] = U(n, 2)[k]
      BY <1>1, <2>1 DEF Part
    <3>2. QED
      BY <2>1, <3>1
  <2>3. Digit(n, 1) = n % 256 /\ Digit(n, 2) = (n \div 256) % 256
    BY <1>1, FirstDigits, ZenonT(30)
  <2>4. Digit(n, 1) = n /\ Digit(n, 2) = 0
    <3> HIDE DEF n
    <3>1. n % 256 = n /\ n \div 256 = 0
      BY <1>2
    <3>2. QED
      BY <2>3, <3>1
  <2>5. Byte(Digit(n, 1)) # Byte(84) /\ Byte(Digit(n, 2)) # Byte(84)
    <3>1. n \in Nat /\ n # 84 /\ 0 \in Nat /\ 0 # 84
      <4> HIDE DEF n
      <4>1. QED
        BY <1>2
    <3>2. QED
      BY <1>3, <2>4, <3>1, Zenon
  <2>6. QED
    BY <2>2, <2>5
<1>6. e[7] # Byte(84)
  <2>1. Len(U(m.type, 1)) = 1 /\ U(m.type, 1)[1] = Byte(Digit(m.type, 1))
    <3>1. 1 \in 1 .. 1
      OBVIOUS
    <3>2. QED
      BY <1>1, <3>1, UFacts
  <2>2. e[6 + 1] = U(m.type, 1)[1]
    BY <1>1, <2>1 DEF Part
  <2>3. Digit(m.type, 1) = m.type % 256
    BY <1>1, FirstDigits
  <2>4. m.type % 256 = m.type
    <3>1. m.type \in 0 .. 255
      BY DEF Fits
    <3>2. \A t \in 0 .. 255 : t % 256 = t
      BY SMT
    <3>3. QED
      BY <3>1, <3>2, Zenon
  <2>5. Byte(m.type) # Byte(84)
    BY <1>1, <1>3 DEF Plain
  <2>6. QED
    BY <2>1, <2>2, <2>3, <2>4, <2>5
<1>7. ASSUME NEW j \in 8 .. Len(e) PROVE e[j] # Byte(84)
  <2>1. j - 7 \in 1 .. n /\ 7 + (j - 7) = j
    BY <1>1
  <2>2. e[7 + (j - 7)] = m.payload[j - 7]
    BY <1>1, <2>1, Zenon DEF Part
  <2>3. m.payload[j - 7] # Byte(84)
    BY <2>1, Zenon DEF Plain
  <2>4. QED
    BY <2>1, <2>2, <2>3
<1>8. ASSUME NEW j \in 2 .. Len(e) PROVE e[j] # Byte(84)
  <2>1. j = 2 \/ j = 3 \/ j = 4 \/ j = 5 \/ j = 6 \/ j = 7 \/ j \in 8 .. Len(e)
    BY <1>1
  <2>2. QED
    BY <1>4, <1>5, <1>6, <1>7, <2>1
<1>9. QED
  BY <1>1, <1>8, Zenon DEF e

-----------------------------------------------------------------------------
(* A reader that has lost its place.                                       *)

LEMMA AstraySend ==
  ASSUME NEW w \in Seq(Cell), Astray(w), NEW e \in Seq(Cell)
  PROVE  Astray(w \o e)
<1>1. Len(w) \in Nat \ {0}
  BY TailFacts DEF Astray
<1>2. /\ w \o e \in Seq(Cell) /\ Len(w \o e) = Len(w) + Len(e)
      /\ \A i \in 1 .. Len(w) + Len(e) : (w \o e)[i] = IF i <= Len(w) THEN w[i] ELSE e[i - Len(w)]
  BY ConcatProperties
<1>3. 1 \in 1 .. Len(w) + Len(e) /\ 1 <= Len(w)
  BY <1>1
<1>4. (w \o e)[1] = w[1]
  BY <1>2, <1>3
<1>5. w \o e # <<>>
  <2>1. Len(w \o e) # 0
    BY <1>1, <1>2
  <2>2. QED
    BY <2>1
<1>6. QED
  BY <1>4, <1>5 DEF Astray

LEMMA AstrayNone ==
  ASSUME NEW w \in Seq(Cell), Astray(w), NEW side
  PROVE  Framing(side, w) # "message"
<1>1. Len(w) < 7 \/ w[1] # Byte(84)
  BY DEF Astray
<1>2. QED
  BY <1>1, NoMessage, Zenon

(* The time-out within a message.                                          *)
LEMMA AlignedStall ==
  ASSUME NEW w \in Seq(Cell), NEW snt \in Seq(Msg), NEW rd \in Seq(Msg), Aligned(w, snt, rd),
         Len(rd) >= 2, Courteous(snt),
         NEW k \in 1 .. 6, k <= Len(w)
  PROVE  Astray(From(w, k))
<1> DEFINE x == From(w, k)
<1>1. PICK ms \in Seq(Msg) : snt = rd \o ms /\ Carries(w, ms)
  BY DEF Aligned
<1>2. ms # <<>>
  <2>1. ASSUME ms = <<>> PROVE FALSE
    <3>1. w = <<>>
      BY <1>1, <2>1, CarriesNone, Zenon
    <3>2. QED
      BY <3>1
  <2>2. QED
    BY <2>1
<1>3. /\ ms[1] \in Msg /\ Fits(ms[1]) /\ Tail(ms) \in Seq(Msg)
      /\ \E rest \in Seq(Cell) : w = Enc(ms[1]) \o rest /\ Carries(rest, Tail(ms))
  BY <1>1, <1>2, CarriesFirst, Zenon
<1>4. PICK rest \in Seq(Cell) : w = Enc(ms[1]) \o rest /\ Carries(rest, Tail(ms))
  BY <1>3
<1>5. PICK m \in Msg : m = ms[1] /\ Fits(m)
  BY <1>3
<1> DEFINE e == Enc(m)
           i == Len(rd) + 1
<1>6. Len(ms) \in Nat \ {0} /\ Len(rd) \in Nat
  BY <1>2, TailFacts
<1>7. i \in 3 .. Len(snt) /\ snt[i] = m
  <2>1. /\ Len(snt) = Len(rd) + Len(ms)
        /\ \A j \in 1 .. Len(rd) + Len(ms) : snt[j] = IF j <= Len(rd) THEN rd[j] ELSE ms[j - Len(rd)]
    BY <1>1, ConcatProperties
  <2>2. i \in 1 .. Len(rd) + Len(ms) /\ ~(i <= Len(rd)) /\ i - Len(rd) = 1 /\ i >= 3
    BY <1>6
  <2>3. snt[i] = ms[1]
    BY <2>1, <2>2, Zenon
  <2>4. QED
    BY <1>5, <2>1, <2>2, <2>3
<1>8. Plain(m)
  BY <1>7, Zenon DEF Courteous
<1>9. e \in Seq(Cell) /\ Len(e) = 7 + Len(m.payload) /\ \A j \in 2 .. Len(e) : e[j] # Byte(84)
  BY <1>5, <1>8, PlainCells, Zenon
<1>10. Len(e) \in Nat /\ Len(e) >= 8
  <2>1. Len(m.payload) = 1 \/ Len(m.payload) = 8 \/ Len(m.payload) = 129
    BY <1>8 DEF Plain
  <2>2. \A a, b : a = 7 + b /\ (b = 1 \/ b = 8 \/ b = 129) => a \in Nat /\ a >= 8
    OBVIOUS
  <2>3. Len(e) = 7 + Len(m.payload)
    BY <1>9
  <2>4. QED
    BY <2>1, <2>2, <2>3, Zenon
<1>11. /\ Len(w) = Len(e) + Len(rest)
       /\ \A j \in 1 .. Len(e) + Len(rest) : w[j] = IF j <= Len(e) THEN e[j] ELSE rest[j - Len(e)]
  <2>1. w = e \o rest /\ e \in Seq(Cell)
    BY <1>4, <1>5, <1>9
  <2> HIDE DEF e
  <2>2. /\ Len(e \o rest) = Len(e) + Len(rest)
        /\ \A j \in 1 .. Len(e) + Len(rest) :
             (e \o rest)[j] = IF j <= Len(e) THEN e[j] ELSE rest[j - Len(e)]
    BY <2>1, ConcatProperties
  <2>3. QED
    BY <2>1, <2>2, Zenon
<1>12. x \in Seq(Cell) /\ Len(x) = Len(w) - k /\ \A j \in 1 .. Len(w) - k : x[j] = w[k + j]
  <2>1. k \in Nat
    OBVIOUS
  <2>2. QED
    BY <2>1, FromWithin
<1> HIDE DEF x, e, i
<1>13. PICK p, n \in Nat : p = Len(e) /\ p >= 8 /\ n = Len(rest)
  BY <1>10
<1>14. Len(w) = p + n /\ 1 \in 1 .. Len(w) - k /\ k + 1 \in 1 .. p + n /\ k + 1 \in 2 .. p
  BY <1>11, <1>13
<1>15. x[1] = e[k + 1]
  <2>1. x[1] = w[k + 1]
    BY <1>12, <1>14
  <2>2. w[k + 1] = e[k + 1]
    BY <1>11, <1>13, <1>14
  <2>3. QED
    BY <2>1, <2>2
<1>16. x[1] # Byte(84)
  BY <1>9, <1>13, <1>14, <1>15
<1>17. x # <<>>
  <2>1. Len(x) # 0
    BY <1>12, <1>14
  <2>2. QED
    BY <2>1
<1>18. QED
  BY <1>16, <1>17 DEF Astray, x

-----------------------------------------------------------------------------
(* What the steps do to a direction of the stream.                         *)

LEMMA BoundTypes ==
  MaxStalls \in Nat /\ MaxSaid \in Nat
BY BoundsAssumption

LEMMA FlowSend ==
  ASSUME NEW w, NEW snt, NEW rd, NEW shaking, NEW looping, NEW s,
         Flow(w, snt, rd, shaking, looping, s),
         NEW m \in Msg, Fits(m), Len(snt) >= 2 => Plain(m)
  PROVE  Flow(w \o Enc(m), Append(snt, m), rd, shaking, looping, s)
<1>1. /\ w \in Seq(Cell) /\ snt \in Seq(Msg) /\ rd \in Seq(Msg)
      /\ Courteous(snt)
      /\ shaking => Aligned(w, snt, rd)
      /\ looping => Len(rd) >= 2
      /\ MaxStalls <= 1 =>
         /\ IsPrefix(rd, snt)
         /\ looping => Aligned(w, snt, rd) \/ (s >= 1 /\ Astray(w))
  BY Zenon DEF Flow
<1> DEFINE t == Append(snt, m)
           x == w \o Enc(m)
<1>2. /\ t \in Seq(Msg) /\ Len(t) = Len(snt) + 1 /\ t[Len(snt) + 1] = m
      /\ \A k \in 1 .. Len(snt) : t[k] = snt[k]
  BY <1>1, AppendFacts
<1>3. Enc(m) \in Seq(Cell) /\ x \in Seq(Cell)
  BY <1>1, EncType, ConcatAgain
<1> HIDE DEF t, x
<1>4. Courteous(t)
  <2>1. ASSUME NEW i \in 3 .. Len(t)
        PROVE  Plain(t[i])
    <3>1. Len(snt) \in Nat
      BY <1>1
    <3>2. CASE i = Len(snt) + 1
      <4>1. Len(snt) >= 2 /\ t[i] = m
        BY <1>2, <3>1, <3>2
      <4>2. QED
        BY <4>1
    <3>3. CASE i # Len(snt) + 1
      <4>1. i \in 3 .. Len(snt) /\ i \in 1 .. Len(snt)
        BY <1>2, <3>1, <3>3
      <4>2. t[i] = snt[i] /\ Plain(snt[i])
        BY <1>1, <1>2, <4>1, Zenon DEF Courteous
      <4>3. QED
        BY <4>2
    <3>4. QED
      BY <3>2, <3>3
  <2>2. QED
    BY <2>1 DEF Courteous
<1>5. shaking => Aligned(x, t, rd)
  BY <1>1, AlignedSend, Zenon DEF x, t
<1>6. ASSUME MaxStalls <= 1
      PROVE  /\ IsPrefix(rd, t)
             /\ looping => Aligned(x, t, rd) \/ (s >= 1 /\ Astray(x))
  <2>1. IsPrefix(rd, t)
    BY <1>1, <1>6, PrefixAppend, Zenon DEF t
  <2>2. Aligned(w, snt, rd) => Aligned(x, t, rd)
    BY <1>1, AlignedSend, Zenon DEF x, t
  <2>3. Astray(w) => Astray(x)
    BY <1>1, <1>3, AstraySend, Zenon DEF x
  <2>4. QED
    BY <1>1, <1>6, <2>1, <2>2, <2>3, Zenon
<1>7. Flow(x, t, rd, shaking, looping, s)
  BY <1>1, <1>2, <1>3, <1>4, <1>5, <1>6, Zenon DEF Flow
<1>8. QED
  BY <1>7 DEF x, t

LEMMA FlowTake ==
  ASSUME NEW w, NEW snt, NEW rd, NEW shaking, NEW looping, NEW s,
         Flow(w, snt, rd, shaking, looping, s), shaking \/ looping,
         NEW side, Framing(side, w) = "message",
         NEW shaking2, NEW looping2, shaking2 => shaking, looping2 => looping \/ Len(rd) >= 1
  PROVE  /\ Flow(AfterFirst(w), snt, Append(rd, FirstOf(w)), shaking2, looping2, s)
         /\ FirstOf(w) \in Msg
         /\ shaking => Len(rd) + 1 \in 1 .. Len(snt) /\ FirstOf(w) = snt[Len(rd) + 1]
<1>1. /\ w \in Seq(Cell) /\ snt \in Seq(Msg) /\ rd \in Seq(Msg)
      /\ Courteous(snt)
      /\ shaking => Aligned(w, snt, rd)
      /\ looping => Len(rd) >= 2
      /\ MaxStalls <= 1 =>
         /\ IsPrefix(rd, snt)
         /\ looping => Aligned(w, snt, rd) \/ (s >= 1 /\ Astray(w))
  BY Zenon DEF Flow
<1> DEFINE x == AfterFirst(w)
           t == Append(rd, FirstOf(w))
<1>2. FirstOf(w) \in Msg /\ x \in Seq(Cell)
  BY <1>1, AnyMessage, Zenon
<1>3. t \in Seq(Msg) /\ Len(t) = Len(rd) + 1 /\ Len(rd) \in Nat
  BY <1>1, <1>2, AppendFacts
<1>4. Aligned(w, snt, rd) =>
        /\ Len(rd) + 1 \in 1 .. Len(snt) /\ FirstOf(w) = snt[Len(rd) + 1] /\ Aligned(x, snt, t)
  BY <1>1, AlignedTake, Zenon
<1> HIDE DEF x, t
<1>5. looping2 => Len(t) >= 2
  BY <1>1, <1>3
<1>6. ASSUME MaxStalls <= 1 PROVE Aligned(w, snt, rd)
  <2>1. ~Astray(w)
    BY <1>1, AstrayNone, Zenon
  <2>2. QED
    BY <1>1, <1>6, <2>1, Zenon
<1>7. Aligned(x, snt, t) => IsPrefix(t, snt)
  BY <1>1, <1>3, AlignedPrefix, Zenon
<1>8. Flow(x, snt, t, shaking2, looping2, s)
  BY <1>1, <1>2, <1>3, <1>4, <1>5, <1>6, <1>7, Zenon DEF Flow
<1>9. QED
  BY <1>1, <1>2, <1>4, <1>8, Zenon DEF x, t

(* A time-out in a header takes k cells away.                              *)
LEMMA FlowStall ==
  ASSUME NEW w, NEW snt, NEW rd, NEW looping, NEW s \in Nat, s + 1 <= MaxStalls,
         Flow(w, snt, rd, FALSE, looping, s), looping,
         NEW k \in 1 .. 6, k <= Len(w)
  PROVE  Flow(From(w, k), snt, rd, FALSE, looping, s + 1)
<1>1. /\ w \in Seq(Cell) /\ snt \in Seq(Msg) /\ rd \in Seq(Msg)
      /\ Courteous(snt)
      /\ Len(rd) >= 2
      /\ MaxStalls <= 1 =>
         /\ IsPrefix(rd, snt)
         /\ Aligned(w, snt, rd) \/ (s >= 1 /\ Astray(w))
  BY Zenon DEF Flow
<1>2. From(w, k) \in Seq(Cell)
  <2>1. k \in Nat
    OBVIOUS
  <2>2. QED
    BY <1>1, <2>1, FromFacts, Zenon
<1>3. ASSUME MaxStalls <= 1 PROVE s + 1 >= 1 /\ Astray(From(w, k))
  <2>1. ~(s >= 1) /\ s + 1 >= 1
    BY <1>3, BoundTypes
  <2>2. Aligned(w, snt, rd)
    BY <1>1, <1>3, <2>1, Zenon
  <2>3. Astray(From(w, k))
    BY <1>1, <2>2, AlignedStall, Zenon
  <2>4. QED
    BY <2>1, <2>3, Zenon
<1>4. QED
  BY <1>1, <1>2, <1>3, Zenon DEF Flow

(* A time-out on the other side; a reader may stop.                        *)
LEMMA FlowLater ==
  ASSUME NEW w, NEW snt, NEW rd, NEW shaking, NEW looping, NEW s \in Nat,
         Flow(w, snt, rd, shaking, looping, s)
  PROVE  Flow(w, snt, rd, shaking, looping, s + 1)
<1>1. s + 1 >= 1
  OBVIOUS
<1>2. QED
  BY <1>1, Zenon DEF Flow

LEMMA FlowStops ==
  ASSUME NEW w, NEW snt, NEW rd, NEW shaking, NEW looping, NEW s,
         Flow(w, snt, rd, shaking, looping, s), NEW x \in Seq(Cell)
  PROVE  Flow(x, snt, rd, FALSE, FALSE, s)
BY Zenon DEF Flow

-----------------------------------------------------------------------------
(* The entry of a channel.                                                 *)

LEMMA Three ==
  ASSUME NEW S, NEW a \in Seq(S), NEW b \in Seq(S), NEW c \in Seq(S)
  PROVE  LET x == a \o b \o c IN
         /\ x \in Seq(S) /\ Len(x) = Len(a) + Len(b) + Len(c)
         /\ Part(x, 0, a) /\ Part(x, Len(a), b) /\ Part(x, Len(a) + Len(b), c)
<1> DEFINE p == a \o b
           x == p \o c
<1>1. /\ p \in Seq(S) /\ Len(p) = Len(a) + Len(b) /\ Part(p, 0, a) /\ Part(p, Len(a), b)
  BY Joined, Zenon
<1> HIDE DEF p
<1>2. /\ x \in Seq(S) /\ Len(x) = Len(p) + Len(c) /\ Part(x, Len(p), c)
      /\ \A off \in Nat, y \in Seq(S) : Part(p, off, y) => Part(x, off, y)
  BY <1>1, Joined, Zenon
<1> HIDE DEF x
<1>3. 0 \in Nat /\ Len(a) \in Nat
  OBVIOUS
<1>4. Part(x, 0, a) /\ Part(x, Len(a), b) /\ Part(x, Len(a) + Len(b), c)
  BY <1>1, <1>2, <1>3, Zenon
<1>5. x \in Seq(S) /\ Len(x) = Len(a) + Len(b) + Len(c)
  BY <1>1, <1>2, Zenon
<1>6. QED
  BY <1>4, <1>5 DEF x, p

LEMMA Five ==
  ASSUME NEW S, NEW a \in Seq(S), NEW b \in Seq(S), NEW c \in Seq(S), NEW d \in Seq(S), NEW e \in Seq(S)
  PROVE  LET x == a \o b \o c \o d \o e IN
         /\ x \in Seq(S) /\ Len(x) = Len(a) + Len(b) + Len(c) + Len(d) + Len(e)
         /\ Part(x, 0, a) /\ Part(x, Len(a), b) /\ Part(x, Len(a) + Len(b), c)
         /\ Part(x, Len(a) + Len(b) + Len(c), d) /\ Part(x, Len(a) + Len(b) + Len(c) + Len(d), e)
<1> DEFINE p == a \o b \o c
           q == p \o d
           x == q \o e
<1>1. /\ p \in Seq(S) /\ Len(p) = Len(a) + Len(b) + Len(c)
      /\ Part(p, 0, a) /\ Part(p, Len(a), b) /\ Part(p, Len(a) + Len(b), c)
  BY Three, Zenon
<1> HIDE DEF p
<1>2. /\ q \in Seq(S) /\ Len(q) = Len(p) + Len(d) /\ Part(q, Len(p), d)
      /\ \A off \in Nat, y \in Seq(S) : Part(p, off, y) => Part(q, off, y)
  BY <1>1, Joined, Zenon
<1> HIDE DEF q
<1>3. /\ x \in Seq(S) /\ Len(x) = Len(q) + Len(e) /\ Part(x, Len(q), e)
      /\ \A off \in Nat, y \in Seq(S) : Part(q, off, y) => Part(x, off, y)
  BY <1>2, Joined, Zenon
<1> HIDE DEF x
<1>4. /\ 0 \in Nat /\ Len(a) \in Nat /\ Len(a) + Len(b) \in Nat /\ Len(a) + Len(b) + Len(c) \in Nat
  OBVIOUS
<1>5. Part(q, 0, a) /\ Part(q, Len(a), b) /\ Part(q, Len(a) + Len(b), c) /\ Part(q, Len(a) + Len(b) + Len(c), d)
  BY <1>1, <1>2, <1>4, Zenon
<1>6. Part(x, 0, a) /\ Part(x, Len(a), b) /\ Part(x, Len(a) + Len(b), c)
      /\ Part(x, Len(a) + Len(b) + Len(c), d)
  BY <1>3, <1>4, <1>5, Zenon
<1>7. Part(x, Len(a) + Len(b) + Len(c) + Len(d), e)
      /\ Len(x) = Len(a) + Len(b) + Len(c) + Len(d) + Len(e)
  BY <1>1, <1>2, <1>3, Zenon
<1>8. QED
  BY <1>3, <1>6, <1>7 DEF x, q, p

(* What fits a field of w cells and comes back from it.                    *)
Field(w) == {t \in Seq(Cell) : Len(t) <= w /\ \A k \in 1 .. Len(t) : t[k] # Byte(0)}

LEMMA FieldBack ==
  ASSUME NEW w \in Nat, NEW t \in Field(w)
  PROVE  Stripped(Str(t, w)) = t
<1>1. t \in Seq(Cell) /\ Len(t) <= w /\ \A k \in 1 .. Len(t) : t[k] # Byte(0)
  BY DEF Field
<1>2. PICK n \in Nat : n = Len(t)
  BY <1>1
<1>3. n = IF Len(t) <= w THEN Len(t) ELSE w
  BY <1>1, <1>2
<1>4. Stripped(Str(t, w)) = SubSeq(t, 1, n)
  BY <1>1, <1>3, StrippedStr, Zenon
<1>5. SubSeq(t, 1, n) = t
  <2>1. \A k \in 1 .. n : t[k] \in Cell
    BY <1>1, <1>2
  <2>2. SubSeq(t, 1, n) \in Seq(Cell) /\ Len(SubSeq(t, 1, n)) = n
        /\ \A k \in 1 .. n : SubSeq(t, 1, n)[k] = t[k]
    BY <1>1, <1>2, <2>1
  <2>3. QED
    BY <1>1, <1>2, <2>2, SeqEqual
<1>6. QED
  BY <1>4, <1>5

Info == [id : Uint16, name : Field(32), unit : Field(16), type : 0 .. 255,
         min : Stands, max : Stands]

LEMMA ScalarFacts ==
  ASSUME NEW x \in Stands
  PROVE  Scalar(x, 8) \in Seq(Cell) /\ Len(Scalar(x, 8)) = 8 /\ AsScalar(Scalar(x, 8)) = x
         /\ \A k \in 1 .. 8 : Scalar(x, 8)[k] # Byte(84)
<1>1. 8 \in Nat \ {0} /\ 8 \in Nat
  OBVIOUS
<1>2. Scalar(x, 8) \in Seq(Cell) /\ Len(Scalar(x, 8)) = 8
      /\ \A k \in 1 .. 8 : Scalar(x, 8)[k] = <<"scalar", x, k, 8>>
  BY <1>1, OpaqueFacts DEF Scalar
<1>3. \A k \in 1 .. 8 : <<"scalar", x, k, 8>> # Byte(84)
  BY DEF Byte
<1>4. AsScalar(Scalar(x, 8)) = x
  BY <1>1, ScalarBack, Zenon
<1>5. QED
  BY <1>2, <1>3, <1>4

LEMMA EntryFacts ==
  ASSUME NEW ch \in Info
  PROVE  /\ ChannelEntry(ch) \in Seq(Cell) /\ Len(ChannelEntry(ch)) = 67
         /\ \A payload \in Seq(Cell), o \in Nat :
              Part(payload, o, ChannelEntry(ch)) => EntryAt(payload, o) = ch
<1> DEFINE a == U(ch.id, 2)
           b == Str(ch.name, 32)
           c == Str(ch.unit, 16)
           d == U(ch.type, 1)
           e == Scalar(ch.min, 8)
           f == Scalar(ch.max, 8)
           p == a \o b \o c \o d \o e
           x == p \o f
<1>1. /\ ch.id \in Uint16 /\ ch.name \in Field(32) /\ ch.unit \in Field(16) /\ ch.type \in 0 .. 255
      /\ ch.min \in Stands /\ ch.max \in Stands
      /\ ch = [id |-> ch.id, name |-> ch.name, unit |-> ch.unit, type |-> ch.type,
               min |-> ch.min, max |-> ch.max]
  BY DEF Info
<1>2. ch.id \in Nat /\ ch.type \in Nat /\ ch.name \in Seq(Cell) /\ ch.unit \in Seq(Cell)
      /\ 1 \in Nat /\ 2 \in Nat /\ 16 \in Nat /\ 32 \in Nat
  <2>1. ch.id \in Nat
    BY <1>1, Uint16Facts, Zenon
  <2>2. ch.name \in Seq(Cell) /\ ch.unit \in Seq(Cell)
    BY <1>1, Zenon DEF Field
  <2>3. ch.type \in Nat
    BY <1>1
  <2>4. QED
    BY <2>1, <2>2, <2>3
<1>3. a \in Seq(Cell) /\ Len(a) = 2 /\ d \in Seq(Cell) /\ Len(d) = 1
  BY <1>2, UFacts, Zenon
<1>4. b \in Seq(Cell) /\ Len(b) = 32 /\ c \in Seq(Cell) /\ Len(c) = 16
  BY <1>2, StrFacts, Zenon
<1>5. e \in Seq(Cell) /\ Len(e) = 8 /\ f \in Seq(Cell) /\ Len(f) = 8
  BY <1>1, ScalarFacts, Zenon
<1>6. /\ Number(a) = ch.id /\ Stripped(b) = ch.name /\ Stripped(c) = ch.unit /\ Number(d) = ch.type
      /\ AsScalar(e) = ch.min /\ AsScalar(f) = ch.max
  BY <1>1, <1>2, ReadBack, FieldBack, ScalarFacts, Zenon
<1>7. x = ChannelEntry(ch)
  BY DEF ChannelEntry
<1> HIDE DEF a, b, c, d, e, f
<1>8. /\ p \in Seq(Cell) /\ Len(p) = Len(a) + Len(b) + Len(c) + Len(d) + Len(e)
      /\ Part(p, 0, a) /\ Part(p, Len(a), b) /\ Part(p, Len(a) + Len(b), c)
      /\ Part(p, Len(a) + Len(b) + Len(c), d) /\ Part(p, Len(a) + Len(b) + Len(c) + Len(d), e)
  BY <1>3, <1>4, <1>5, Five, Zenon
<1> HIDE DEF p
<1>9. Len(p) = 59 /\ Part(p, 0, a) /\ Part(p, 2, b) /\ Part(p, 34, c) /\ Part(p, 50, d) /\ Part(p, 51, e)
  BY <1>3, <1>4, <1>5, <1>8
<1>10. /\ x \in Seq(Cell) /\ Len(x) = Len(p) + Len(f) /\ Part(x, Len(p), f)
       /\ \A off \in Nat, y \in Seq(Cell) : Part(p, off, y) => Part(x, off, y)
  BY <1>5, <1>8, Joined, Zenon
<1> HIDE DEF x
<1>11. Len(x) = 67 /\ 0 \in Nat /\ 2 \in Nat /\ 34 \in Nat /\ 50 \in Nat /\ 51 \in Nat /\ 59 \in Nat
  BY <1>5, <1>9, <1>10
<1>12. /\ Part(x, 0, a) /\ Part(x, 2, b) /\ Part(x, 34, c) /\ Part(x, 50, d) /\ Part(x, 51, e) /\ Part(x, 59, f)
  BY <1>3, <1>4, <1>5, <1>9, <1>10, <1>11, Zenon
<1>13. ASSUME NEW payload \in Seq(Cell), NEW o \in Nat, Part(payload, o, x)
       PROVE  EntryAt(payload, o) = ch
  <2>1. ASSUME NEW i \in Nat, NEW y \in Seq(Cell), Part(x, i, y), NEW n, n = Len(y)
        PROVE  At(payload, o + i, n) = y
    <3>1. Part(payload, o + i, y)
      BY <1>10, <1>13, <2>1, PartOfPart, Zenon
    <3>2. o + i \in Nat
      OBVIOUS
    <3>3. QED
      BY <2>1, <3>1, <3>2, PartRead, Zenon
  <2>2. At(payload, o + 0, 2) = a
    BY <1>3, <1>11, <1>12, <2>1, ZenonT(30)
  <2>3. At(payload, o + 2, 32) = b
    BY <1>4, <1>11, <1>12, <2>1, ZenonT(30)
  <2>4. At(payload, o + 34, 16) = c
    BY <1>4, <1>11, <1>12, <2>1, ZenonT(30)
  <2>5. At(payload, o + 50, 1) = d
    BY <1>3, <1>11, <1>12, <2>1, ZenonT(30)
  <2>6. At(payload, o + 51, 8) = e
    BY <1>5, <1>11, <1>12, <2>1, ZenonT(30)
  <2>7. At(payload, o + 59, 8) = f
    BY <1>5, <1>11, <1>12, <2>1, ZenonT(30)
  <2>8. EntryAt(payload, o) =
          [id |-> Number(a), name |-> Stripped(b), unit |-> Stripped(c), type |-> Number(d),
           min |-> AsScalar(e), max |-> AsScalar(f)]
    BY <2>2, <2>3, <2>4, <2>5, <2>6, <2>7, Zenon DEF EntryAt
  <2>9. QED
    BY <1>1, <1>6, <2>8, Zenon
<1>14. QED
  BY <1>7, <1>10, <1>11, <1>13, Zenon

-----------------------------------------------------------------------------
(* What is said after the handshake.                                       *)

(* The bytes b are those of a message.                                     *)
Sayable(b) == Message(b) \in Msg /\ Fits(Message(b)) /\ b = Enc(Message(b))

LEMMA CtrlMessage ==
  ASSUME NEW type \in 0 .. 255, NEW payload \in Seq(Cell), Len(payload) < 256 * 256
  PROVE  /\ Sayable(EncodeCtrl(type, payload))
         /\ Message(EncodeCtrl(type, payload)).type = type
         /\ Message(EncodeCtrl(type, payload)).payload = payload
<1> DEFINE m == [type |-> type, payload |-> payload]
<1>1. type \in Nat
  OBVIOUS
<1>2. m \in Msg /\ m.type = type /\ m.payload = payload /\ Enc(m) = EncodeCtrl(type, payload)
  BY <1>1, MsgFacts, Zenon
<1> HIDE DEF m
<1>3. Fits(m)
  BY <1>2 DEF Fits
<1>4. Message(Enc(m)) = m
  BY <1>2, <1>3, MessageOf, Zenon
<1>5. QED
  BY <1>2, <1>3, <1>4, Zenon DEF Sayable

LEMMA CtrlNumbers ==
  /\ Hello \in 0 .. 255 /\ Welcome \in 0 .. 255 /\ Subscribe \in 0 .. 255 /\ Subscribed \in 0 .. 255
  /\ SessionUpdate \in 0 .. 255 /\ Ping \in 0 .. 255 /\ Pong \in 0 .. 255 /\ Disconnect \in 0 .. 255
  /\ SessionUpdate # 84 /\ Ping # 84 /\ Pong # 84 /\ Disconnect # 84
  /\ Hello # Disconnect /\ Ping # Disconnect /\ Pong # Disconnect /\ SessionUpdate # Disconnect
BY DEF Hello, Welcome, Subscribe, Subscribed, SessionUpdate, Ping, Pong, Disconnect

LEMMA FewBytes ==
  \A n \in 0 .. 1000 : n < 256 * 256
BY SMT

LEMMA HelloSayable ==
  Sayable(EncodeHello(Text("engineer", 8)))
<1> DEFINE t == Text("engineer", 8)
           p == Str(t, 32) \o U(ProtocolVersion, 2)
<1>1. "engineer" \in Stands /\ "text" \in {"text", "scalar"} /\ 8 \in Nat /\ 32 \in Nat /\ 2 \in Nat
  BY DEF Stands
<1>2. t \in Seq(Cell)
  BY <1>1, OpaqueFacts, Zenon DEF Text
<1> HIDE DEF t
<1>3. Str(t, 32) \in Seq(Cell) /\ Len(Str(t, 32)) = 32
  BY <1>1, <1>2, StrFacts, Zenon
<1>4. U(ProtocolVersion, 2) \in Seq(Cell) /\ Len(U(ProtocolVersion, 2)) = 2
  BY <1>1, UFacts, Zenon DEF ProtocolVersion
<1>5. p \in Seq(Cell) /\ Len(p) = Len(Str(t, 32)) + Len(U(ProtocolVersion, 2))
  BY <1>3, <1>4, Joined, Zenon
<1> HIDE DEF p
<1>6. Len(p) < 256 * 256
  <2>1. Len(p) = 32 + 2
    BY <1>3, <1>4, <1>5, Zenon
  <2>2. 32 + 2 \in 0 .. 1000
    OBVIOUS
  <2>3. QED
    BY <2>1, <2>2, FewBytes, Zenon
<1>7. Sayable(EncodeCtrl(Hello, p))
  BY <1>5, <1>6, CtrlMessage, CtrlNumbers, Zenon
<1>8. QED
  BY <1>7 DEF EncodeHello, p, t

(* What is said after the handshake.                                       *)
Said(b) == Sayable(b) /\ Plain(Message(b))

LEMMA PingSaid ==
  ASSUME NEW x \in Stands
  PROVE  Said(EncodePing(x)) /\ Said(EncodePong(x))
<1> DEFINE p == Scalar(x, 8)
<1>1. p \in Seq(Cell) /\ Len(p) = 8 /\ \A k \in 1 .. 8 : p[k] # Byte(84)
  BY ScalarFacts
<1> HIDE DEF p
<1>2. Len(p) < 256 * 256 /\ Len(p) \in {1, 8, 129}
  BY <1>1
<1>3. ASSUME NEW type \in {Ping, Pong} 
      PROVE  Said(EncodeCtrl(type, p))
  <2>1. type \in 0 .. 255 /\ type # 84
    BY CtrlNumbers
  <2>2. /\ Sayable(EncodeCtrl(type, p)) /\ Message(EncodeCtrl(type, p)).type = type
        /\ Message(EncodeCtrl(type, p)).payload = p
    BY <1>1, <1>2, <2>1, CtrlMessage, ZenonT(30)
  <2>3. \A k \in 1 .. Len(p) : p[k] # Byte(84)
    BY <1>1
  <2> DEFINE m == Message(EncodeCtrl(type, p))
  <2> HIDE DEF m
  <2>4. Sayable(EncodeCtrl(type, p)) /\ m.type # 84 /\ m.payload = p
    BY <2>1, <2>2, Zenon DEF m
  <2>5. Plain(m)
    BY <1>2, <2>3, <2>4 DEF Plain
  <2>6. QED
    BY <2>4, <2>5, Zenon DEF Said, m
<1>4. QED
  BY <1>3 DEF EncodePing, EncodePong, p

LEMMA DisconnectSaid ==
  ASSUME NEW r \in 0 .. 255, r # 84
  PROVE  Said(EncodeDisconnect(r))
<1> DEFINE p == U(r, 1)
<1>1. r \in Nat /\ 1 \in Nat /\ r % 256 = r
  OBVIOUS
<1>2. p \in Seq(Cell) /\ Len(p) = 1 /\ \A k \in 1 .. 1 : p[k] = Byte(Digit(r, k))
  BY <1>1, UFacts, Zenon
<1> HIDE DEF p
<1>3. Digit(r, 1) = r
  BY <1>1, FirstDigits
<1>4. \A k \in 1 .. Len(p) : p[k] # Byte(84)
  <2>1. \A k \in 1 .. Len(p) : k = 1 /\ k \in 1 .. 1
    BY <1>2
  <2>2. Byte(r) # Byte(84)
    BY ByteInjective, Zenon
  <2>3. QED
    BY <1>2, <1>3, <2>1, <2>2
<1>5. Len(p) < 256 * 256 /\ Len(p) \in {1, 8, 129}
  BY <1>2
<1>6. /\ Sayable(EncodeCtrl(Disconnect, p)) /\ Message(EncodeCtrl(Disconnect, p)).type = Disconnect
      /\ Message(EncodeCtrl(Disconnect, p)).payload = p
  BY <1>2, <1>5, CtrlNumbers, CtrlMessage, Zenon
<1>7. Disconnect # 84
  BY CtrlNumbers, Zenon
<1>8. Said(EncodeCtrl(Disconnect, p))
  <2> DEFINE m == Message(EncodeCtrl(Disconnect, p))
  <2> HIDE DEF m
  <2>2. Sayable(EncodeCtrl(Disconnect, p)) /\ m.type = Disconnect /\ m.type # 84 /\ m.payload = p
    BY <1>6, <1>7, Zenon DEF m
  <2>3. Plain(m)
    BY <1>4, <1>5, <2>2 DEF Plain
  <2>4. QED
    BY <2>2, <2>3, Zenon DEF Said, m
<1>9. QED
  BY <1>8 DEF EncodeDisconnect, p

LEMMA SessionSaid ==
  Said(EncodeSessionUpdate(<<>>, <<>>, 0))
<1> DEFINE a == Str(<<>>, 64)
           c == U(0, 1)
           p == a \o a \o c
<1>1. <<>> \in Seq(Cell) /\ 64 \in Nat /\ 0 \in Nat /\ 1 \in Nat
  OBVIOUS
<1>2. a \in Seq(Cell) /\ Len(a) = 64 /\ \A k \in 1 .. 64 : a[k] = IF k <= Len(<<>>) THEN <<>>[k] ELSE Byte(0)
  BY <1>1, StrFacts, Zenon
<1>3. c \in Seq(Cell) /\ Len(c) = 1 /\ \A k \in 1 .. 1 : c[k] = Byte(Digit(0, k))
  BY <1>1, UFacts, Zenon
<1> HIDE DEF a, c
<1>4. Byte(0) # Byte(84)
  <2>1. 0 # 84
    OBVIOUS
  <2>2. QED
    BY <2>1, ByteInjective, Zenon
<1>5. \A k \in 1 .. 64 : a[k] # Byte(84)
  <2>1. \A k \in 1 .. 64 : ~(k <= Len(<<>>))
    OBVIOUS
  <2>2. QED
    BY <1>2, <1>4, <2>1
<1>6. c[1] # Byte(84)
  <2>1. 1 \in 1 .. 1 /\ 0 % 256 = 0
    OBVIOUS
  <2>2. Digit(0, 1) = 0
    BY <2>1, FirstDigits
  <2>3. QED
    BY <1>3, <1>4, <2>1, <2>2
<1>7. /\ p \in Seq(Cell) /\ Len(p) = Len(a) + Len(a) + Len(c)
      /\ Part(p, 0, a) /\ Part(p, Len(a), a) /\ Part(p, Len(a) + Len(a), c)
  BY <1>2, <1>3, Three, Zenon
<1> HIDE DEF p
<1> DEFINE n == Len(a)
<1>13. n = 64 /\ Len(c) = 1 /\ Len(p) = n + n + Len(c) /\ Part(p, n, a) /\ Part(p, n + n, c)
  BY <1>2, <1>3, <1>7, Zenon
<1> HIDE DEF n
<1>8. Len(p) = 129 /\ Len(p) < 256 * 256 /\ Len(p) \in {1, 8, 129}
  <2>1. Len(p) = 129 /\ 129 \in 0 .. 1000
    BY <1>13
  <2>2. QED
    BY <2>1, FewBytes
<1>9. ASSUME NEW k \in 1 .. Len(p) PROVE p[k] # Byte(84)
  <2>1. CASE k <= 64
    <3>1. k \in 1 .. Len(a) /\ k \in 1 .. 64 /\ 0 + k = k
      BY <1>13, <2>1 DEF n
    <3>2. p[0 + k] = a[k]
      BY <1>7, <3>1 DEF Part
    <3>3. QED
      BY <1>5, <3>1, <3>2
  <2>2. CASE 64 < k /\ k <= 128
    <3>1. k - 64 \in 1 .. n /\ k - 64 \in 1 .. 64 /\ n + (k - 64) = k
      BY <1>13, <2>2
    <3>2. p[n + (k - 64)] = a[k - 64]
      BY <1>13, <3>1, Zenon DEF Part, n
    <3>3. QED
      BY <1>5, <3>1, <3>2
  <2>3. CASE 128 < k
    <3>1. k = 129 /\ 1 \in 1 .. Len(c) /\ n + n + 1 = k
      BY <1>13, <1>8, <2>3
    <3>2. p[n + n + 1] = c[1]
      BY <1>13, <3>1, Zenon DEF Part
    <3>3. QED
      BY <1>6, <3>1, <3>2
  <2>4. QED
    BY <2>1, <2>2, <2>3
<1>10. /\ Sayable(EncodeCtrl(SessionUpdate, p)) /\ Message(EncodeCtrl(SessionUpdate, p)).type = SessionUpdate
       /\ Message(EncodeCtrl(SessionUpdate, p)).payload = p
  <2>1. SessionUpdate \in 0 .. 255
    BY CtrlNumbers, Zenon
  <2>2. p \in Seq(Cell) /\ Len(p) < 256 * 256
    BY <1>7, <1>8
  <2>3. QED
    BY <2>1, <2>2, CtrlMessage, Zenon
<1>11. Said(EncodeCtrl(SessionUpdate, p))
  <2>1. SessionUpdate # 84
    BY CtrlNumbers, Zenon
  <2> DEFINE m == Message(EncodeCtrl(SessionUpdate, p))
  <2> HIDE DEF m
  <2>2. Sayable(EncodeCtrl(SessionUpdate, p)) /\ m.type # 84 /\ m.payload = p
    BY <1>10, <2>1, Zenon DEF m
  <2>3. Plain(m)
    BY <1>8, <1>9, <2>2 DEF Plain
  <2>4. QED
    BY <2>2, <2>3, Zenon DEF Said, m
<1>12. QED
  BY <1>11 DEF EncodeSessionUpdate, p, a, c

-----------------------------------------------------------------------------
(* WELCOME, SUBSCRIBE and SUBSCRIBED.                                      *)

(* A sequence is the function that has its elements.                       *)
LEMMA SequenceIs ==
  ASSUME NEW S, NEW q \in Seq(S), NEW n \in Nat, n = Len(q)
  PROVE  DOMAIN q = 1 .. n /\ [i \in 1 .. n |-> q[i]] = q
<1>1. DOMAIN q = 1 .. n
  OBVIOUS
<1>2. [i \in 1 .. n |-> q[i]] = q
  OBVIOUS
<1>3. QED
  BY <1>1, <1>2

LEMMA SessionNumber ==
  Session \in Nat /\ Number(U(Session, 4)) = Session
<1>1. Session \in Nat /\ Session < Huge
  BY Powers DEF Session
<1>2. QED
  BY <1>1, ReadBack, Zenon

LEMMA WelcomeFacts ==
  ASSUME NEW chs \in Seq(Info), WelcomeHdrSize + Len(chs) * ChannelEntrySize \in Uint16
  PROVE  /\ Sayable(EncodeWelcome(Session, chs))
         /\ Message(EncodeWelcome(Session, chs)).type = Welcome
         /\ DecodeWelcome(Message(EncodeWelcome(Session, chs)).payload) =
              Gives([session |-> Session, channels |-> chs])
<1> DEFINE entries == [i \in DOMAIN chs |-> ChannelEntry(chs[i])]
           f == FlattenSeq(entries)
           a == U(Session, 4)
           b == U(Len(chs), 2)
           p == a \o b \o f
<1>1. PICK n \in Nat : n = Len(chs)
  OBVIOUS
<1>2. DOMAIN chs = 1 .. n /\ [i \in 1 .. n |-> chs[i]] = chs
  BY <1>1, SequenceIs, Zenon
<1>3. 6 + n * 67 < 256 * 256 /\ n < 256 * 256 /\ n * 67 \in Nat
  <2>1. 6 + n * 67 \in Uint16
    BY <1>1 DEF WelcomeHdrSize, ChannelEntrySize
  <2>2. n <= 6 + n * 67 /\ n * 67 \in Nat
    BY SMT
  <2>3. 6 + n * 67 < 256 * 256
    BY <2>1, Uint16Facts, Zenon
  <2>4. QED
    BY <2>2, <2>3
<1>4. n \in Uint16
  BY <1>3, Uint16Facts, Zenon
<1>5. \A i \in 1 .. n : chs[i] \in Info
  BY <1>1
<1>6. /\ entries \in Seq(Seq(Cell)) /\ Len(entries) = n
      /\ \A i \in 1 .. n : entries[i] = ChannelEntry(chs[i]) /\ Len(entries[i]) = 67
  <2>1. entries = [i \in 1 .. n |-> ChannelEntry(chs[i])]
    BY <1>2, Zenon
  <2> HIDE DEF entries
  <2>2. \A i \in 1 .. n : ChannelEntry(chs[i]) \in Seq(Cell) /\ Len(ChannelEntry(chs[i])) = 67
    BY <1>5, EntryFacts, Zenon
  <2>3. entries \in Seq(Seq(Cell)) /\ Len(entries) = n
    BY <2>1, <2>2
  <2>4. QED
    BY <2>1, <2>2, <2>3
<1> HIDE DEF entries
<1>7. /\ f \in Seq(Cell) /\ Len(f) = n * 67
      /\ \A i \in 1 .. n : Part(f, (i - 1) * 67, entries[i])
  <2>1. 67 \in Nat
    OBVIOUS
  <2>2. entries \in Seq(Seq(Cell)) /\ \A i \in 1 .. Len(entries) : Len(entries[i]) = 67
    BY <1>6, Zenon
  <2>3. /\ FlattenSeq(entries) \in Seq(Cell) /\ Len(FlattenSeq(entries)) = Len(entries) * 67
        /\ \A i \in 1 .. Len(entries) : Part(FlattenSeq(entries), (i - 1) * 67, entries[i])
    BY <2>1, <2>2, FlattenBlocks, ZenonT(30)
  <2>4. QED
    BY <1>6, <2>3, Zenon
<1>8. a \in Seq(Cell) /\ Len(a) = 4 /\ b \in Seq(Cell) /\ Len(b) = 2
  <2>1. 4 \in Nat /\ 2 \in Nat
    OBVIOUS
  <2>2. QED
    BY <1>1, <2>1, SessionNumber, UFacts, Zenon
<1>9. Number(a) = Session /\ Number(b) = n
  BY <1>1, <1>4, SessionNumber, ReadBack, Zenon
<1> HIDE DEF f, a, b
<1>10. /\ p \in Seq(Cell) /\ Len(p) = Len(a) + Len(b) + Len(f)
       /\ Part(p, 0, a) /\ Part(p, Len(a), b) /\ Part(p, Len(a) + Len(b), f)
  BY <1>7, <1>8, Three, Zenon
<1> HIDE DEF p
<1>11. Len(p) = 6 + n * 67 /\ Part(p, 0, a) /\ Part(p, 4, b) /\ Part(p, 6, f)
  <2>1. Len(p) = 4 + 2 + n * 67 /\ Part(p, 0, a) /\ Part(p, 4, b) /\ Part(p, 4 + 2, f)
    BY <1>7, <1>8, <1>10, Zenon
  <2>2. 4 + 2 = 6
    OBVIOUS
  <2>3. QED
    BY <2>1, <2>2, Zenon
<1>12. At(p, 0, 4) = a /\ At(p, 4, 2) = b
  <2>1. 0 \in Nat /\ 4 \in Nat
    OBVIOUS
  <2>4. p \in Seq(Cell) /\ Part(p, 0, a) /\ Part(p, 4, b)
    BY <1>10, <1>11, Zenon
  <2>5. At(p, 0, Len(a)) = a
    BY <1>8, <2>1, <2>4, PartRead, Zenon
  <2>6. At(p, 4, Len(b)) = b
    BY <1>8, <2>1, <2>4, PartRead, Zenon
  <2>2. At(p, 0, 4) = a
    BY <1>8, <2>5, Zenon
  <2>3. At(p, 4, 2) = b
    BY <1>8, <2>6, Zenon
  <2>7. QED
    BY <2>2, <2>3
<1>13. ASSUME NEW i \in 1 .. n PROVE EntryAt(p, 6 + (i - 1) * 67) = chs[i]
  <2>1. (i - 1) * 67 \in Nat /\ 6 \in Nat /\ 6 + (i - 1) * 67 \in Nat
    BY SMT
  <2>2. chs[i] \in Info /\ ChannelEntry(chs[i]) \in Seq(Cell) /\ entries[i] = ChannelEntry(chs[i])
    BY <1>5, <1>6, EntryFacts, Zenon
  <2>3. Part(p, 6 + (i - 1) * 67, ChannelEntry(chs[i]))
    <3>1. Part(f, (i - 1) * 67, ChannelEntry(chs[i]))
      BY <1>7, <2>2, Zenon
    <3> DEFINE o == (i - 1) * 67
    <3>2. o \in Nat /\ Part(f, o, ChannelEntry(chs[i]))
      BY <2>1, <3>1
    <3> HIDE DEF o
    <3>3. Part(p, 6 + o, ChannelEntry(chs[i]))
      BY <1>7, <1>10, <1>11, <2>1, <2>2, <3>2, PartOfPart, Zenon
    <3>4. QED
      BY <3>3 DEF o
  <2>4. QED
    BY <1>10, <2>1, <2>2, <2>3, EntryFacts, ZenonT(30)
<1>14. DecodeWelcome(p) = Gives([session |-> Session, channels |-> chs])
  <2>1. Number(At(p, 4, 2)) = n /\ Number(At(p, 0, 4)) = Session
    BY <1>9, <1>12
  <2>2. ~(Len(p) < WelcomeHdrSize) /\ ~(Len(p) < WelcomeHdrSize + n * ChannelEntrySize)
    BY <1>3, <1>11 DEF WelcomeHdrSize, ChannelEntrySize
  <2>3. [i \in 1 .. n |-> EntryAt(p, WelcomeHdrSize + (i - 1) * ChannelEntrySize)] = [i \in 1 .. n |-> chs[i]]
    BY <1>13, Zenon DEF WelcomeHdrSize, ChannelEntrySize
  <2>4. QED
    BY <1>2, <2>1, <2>2, <2>3, Zenon DEF DecodeWelcome
<1>15. EncodeWelcome(Session, chs) = EncodeCtrl(Welcome, p)
  BY DEF EncodeWelcome, p, a, b, f, entries
<1>16. Len(p) < 256 * 256
  BY <1>3, <1>11, Zenon
<1>17. Welcome \in 0 .. 255
  BY CtrlNumbers, Zenon
<1>18. /\ Sayable(EncodeCtrl(Welcome, p)) /\ Message(EncodeCtrl(Welcome, p)).type = Welcome
       /\ Message(EncodeCtrl(Welcome, p)).payload = p
  BY <1>10, <1>16, <1>17, CtrlMessage, Zenon
<1>19. QED
  BY <1>14, <1>15, <1>18, Zenon

LEMMA IdsFacts ==
  ASSUME NEW ids \in Seq(Uint16), NEW n \in Nat, n = Len(ids)
  PROVE  /\ Ids(ids) \in Seq(Cell) /\ Len(Ids(ids)) = n * 2
         /\ \A payload \in Seq(Cell), o \in Nat :
              Part(payload, o, Ids(ids)) => IdsAt(payload, o, n) = ids
<1> DEFINE blocks == [i \in DOMAIN ids |-> U(ids[i], 2)]
           f == FlattenSeq(blocks)
<1>1. DOMAIN ids = 1 .. n /\ [i \in 1 .. n |-> ids[i]] = ids
  BY SequenceIs, Zenon
<1>2. \A i \in 1 .. n : ids[i] \in Uint16 /\ ids[i] \in Nat
  <2>1. \A i \in 1 .. n : ids[i] \in Uint16
    OBVIOUS
  <2>2. QED
    BY <2>1, Uint16Facts, Zenon
<1>3. 2 \in Nat
  OBVIOUS
<1>4. /\ blocks \in Seq(Seq(Cell)) /\ Len(blocks) = n
      /\ \A i \in 1 .. n : blocks[i] = U(ids[i], 2) /\ Len(blocks[i]) = 2 /\ blocks[i] \in Seq(Cell)
  <2>1. blocks = [i \in 1 .. n |-> U(ids[i], 2)]
    BY <1>1, Zenon
  <2> HIDE DEF blocks
  <2>2. \A i \in 1 .. n : U(ids[i], 2) \in Seq(Cell) /\ Len(U(ids[i], 2)) = 2
    BY <1>2, <1>3, UFacts, Zenon
  <2>3. blocks \in Seq(Seq(Cell)) /\ Len(blocks) = n
    BY <2>1, <2>2
  <2>4. QED
    BY <2>1, <2>2, <2>3
<1> HIDE DEF blocks
<1>5. /\ f \in Seq(Cell) /\ Len(f) = n * 2
      /\ \A i \in 1 .. n : Part(f, (i - 1) * 2, blocks[i])
  BY <1>3, <1>4, FlattenBlocks, Zenon
<1> HIDE DEF f
<1>6. ASSUME NEW payload \in Seq(Cell), NEW o \in Nat, Part(payload, o, f)
      PROVE  IdsAt(payload, o, n) = ids
  <2>1. ASSUME NEW i \in 1 .. n PROVE Number(At(payload, o + 2 * (i - 1), 2)) = ids[i]
    <3> DEFINE k == (i - 1) * 2
    <3>1. k \in Nat /\ o + k \in Nat /\ 2 * (i - 1) = k
      BY SMT
    <3>2. Part(f, k, blocks[i]) /\ blocks[i] \in Seq(Cell) /\ Len(blocks[i]) = 2
      BY <1>4, <1>5, Zenon
    <3> HIDE DEF k
    <3>3. Part(payload, o + k, blocks[i])
      BY <1>5, <1>6, <3>1, <3>2, PartOfPart, Zenon
    <3>4. At(payload, o + k, 2) = blocks[i]
      BY <3>1, <3>2, <3>3, PartRead, Zenon
    <3>5. Number(U(ids[i], 2)) = ids[i]
      BY <1>2, ReadBack, Zenon
    <3>6. QED
      BY <1>4, <3>1, <3>4, <3>5, Zenon
  <2>2. QED
    BY <1>1, <2>1, Zenon DEF IdsAt
<1>7. f = Ids(ids)
  BY DEF Ids, f, blocks
<1>8. QED
  BY <1>5, <1>6, <1>7, Zenon

LEMMA SubscribeFacts ==
  ASSUME NEW ids \in Seq(Uint16), 4 + 2 * Len(ids) \in Uint16, NEW prt \in Uint16
  PROVE  /\ Sayable(EncodeSubscribe(ids, prt))
         /\ Message(EncodeSubscribe(ids, prt)).type = Subscribe
         /\ DecodeSubscribe(Message(EncodeSubscribe(ids, prt)).payload) =
              Gives([port |-> prt, ids |-> ids])
         /\ Message(EncodeSubscribe(ids, prt)).payload # <<>>
         /\ MaskIn(Message(EncodeSubscribe(ids, prt)).payload) = Mask(prt)
<1> DEFINE a == U(prt, 2)
           b == U(Len(ids), 2)
           f == Ids(ids)
           p == a \o b \o f
<1>1. PICK n \in Nat : n = Len(ids)
  OBVIOUS
<1>2. 4 + 2 * n < 256 * 256 /\ n < 256 * 256 /\ 2 * n = n * 2 /\ 2 * n \in Nat
  <2>1. n <= 4 + 2 * n /\ 2 * n = n * 2 /\ 2 * n \in Nat
    BY SMT
  <2>2. 4 + 2 * n < 256 * 256
    BY <1>1, Uint16Facts, Zenon
  <2>3. QED
    BY <2>1, <2>2
<1>3. n \in Uint16 /\ prt \in Nat /\ 2 \in Nat /\ 0 \in Nat /\ 4 \in Nat
  BY <1>2, Uint16Facts
<1>4. a \in Seq(Cell) /\ Len(a) = 2 /\ b \in Seq(Cell) /\ Len(b) = 2
  BY <1>1, <1>3, UFacts, Zenon
<1>5. Number(a) = prt /\ Number(b) = n
  BY <1>1, <1>3, ReadBack, Zenon
<1>6. /\ f \in Seq(Cell) /\ Len(f) = n * 2
      /\ \A payload \in Seq(Cell), o \in Nat : Part(payload, o, f) => IdsAt(payload, o, n) = ids
  BY <1>1, IdsFacts, Zenon
<1> HIDE DEF f, a, b
<1>7. /\ p \in Seq(Cell) /\ Len(p) = Len(a) + Len(b) + Len(f)
      /\ Part(p, 0, a) /\ Part(p, Len(a), b) /\ Part(p, Len(a) + Len(b), f)
  BY <1>4, <1>6, Three, Zenon
<1> HIDE DEF p
<1>8. Len(p) = 4 + 2 * n /\ Part(p, 0, a) /\ Part(p, 2, b) /\ Part(p, 4, f)
  <2>1. Len(p) = 2 + 2 + n * 2 /\ Part(p, 0, a) /\ Part(p, 2, b) /\ Part(p, 2 + 2, f)
    BY <1>4, <1>6, <1>7, Zenon
  <2>2. 2 + 2 = 4
    OBVIOUS
  <2>3. QED
    BY <1>2, <2>1, <2>2, Zenon
<1>9. At(p, 0, 2) = a /\ At(p, 2, 2) = b
  <2>4. p \in Seq(Cell) /\ a \in Seq(Cell) /\ Len(a) = 2 /\ 0 \in Nat /\ Part(p, 0, a)
    BY <1>3, <1>4, <1>7, <1>8, Zenon
  <2>5. At(p, 0, Len(a)) = a
    BY <2>4, PartRead, Zenon
  <2>1. At(p, 0, 2) = a
    BY <2>4, <2>5, Zenon
  <2>6. b \in Seq(Cell) /\ Len(b) = 2 /\ 2 \in Nat /\ Part(p, 2, b)
    BY <1>3, <1>4, <1>8, Zenon
  <2>7. At(p, 2, Len(b)) = b
    BY <2>4, <2>6, PartRead, Zenon
  <2>2. At(p, 2, 2) = b
    BY <2>6, <2>7, Zenon
  <2>3. QED
    BY <2>1, <2>2
<1>10. IdsAt(p, 4, n) = ids
  BY <1>3, <1>6, <1>7, <1>8, Zenon
<1>11. DecodeSubscribe(p) = Gives([port |-> prt, ids |-> ids])
  <2>1. ~(Len(p) < 4 + 2 * n)
    BY <1>2, <1>8
  <2>2. Number(At(p, 0, 2)) = prt /\ Number(At(p, 2, 2)) = n
    BY <1>5, <1>9
  <2>3. QED
    BY <1>10, <2>1, <2>2, Zenon DEF DecodeSubscribe
<1>12. EncodeSubscribe(ids, prt) = EncodeCtrl(Subscribe, p)
  BY DEF EncodeSubscribe, p, a, b, f
<1>13. Len(p) < 256 * 256 /\ Subscribe \in 0 .. 255
  BY <1>2, <1>8, CtrlNumbers, Zenon
<1>14. /\ Sayable(EncodeCtrl(Subscribe, p)) /\ Message(EncodeCtrl(Subscribe, p)).type = Subscribe
       /\ Message(EncodeCtrl(Subscribe, p)).payload = p
  BY <1>7, <1>13, CtrlMessage, Zenon
<1>15. MaskIn(p) = Mask(prt) /\ p # <<>>
  <2>1. MaskIn(p) = Mask(prt)
    BY <1>5, <1>9, Zenon DEF MaskIn
  <2>2. Len(p) # 0
    BY <1>2, <1>8
  <2>3. QED
    BY <2>1, <2>2
<1>16. QED
  BY <1>11, <1>12, <1>14, <1>15, Zenon

LEMMA SubscribedFacts ==
  ASSUME NEW ids \in Seq(Uint16), NEW n \in Nat, n = Len(ids), 2 + 2 * n < 256 * 256
  PROVE  Sayable(EncodeSubscribed(ids))
<1> DEFINE b == U(Len(ids), 2)
           f == Ids(ids)
           p == b \o f
<1>1. 2 \in Nat
  OBVIOUS
<1>2. b \in Seq(Cell) /\ Len(b) = 2
  BY <1>1, UFacts, Zenon
<1>3. f \in Seq(Cell) /\ Len(f) = n * 2
  BY IdsFacts, Zenon
<1> HIDE DEF f, b
<1>4. p \in Seq(Cell) /\ Len(p) = Len(b) + Len(f)
  BY <1>2, <1>3, Joined, Zenon
<1> HIDE DEF p
<1>5. Len(p) = 2 + n * 2 /\ n * 2 = 2 * n
  <2>1. Len(p) = 2 + n * 2
    BY <1>2, <1>3, <1>4, Zenon
  <2>2. n * 2 = 2 * n
    BY SMT
  <2>3. QED
    BY <2>1, <2>2
<1>6. Len(p) < 256 * 256 /\ Subscribed \in 0 .. 255
  BY <1>5, CtrlNumbers, Zenon
<1>7. Sayable(EncodeCtrl(Subscribed, p))
  BY <1>4, <1>6, CtrlMessage, Zenon
<1>8. QED
  BY <1>7 DEF EncodeSubscribed, p, b, f

LEMMA MaskSayable ==
  ASSUME NEW mask \in Nat
  PROVE  Sayable(BuildSubscribed(mask))
<1>1. 2 \in Nat
  OBVIOUS
<1>2. U(mask, 2) \in Seq(Cell) /\ Len(U(mask, 2)) = 2
  BY <1>1, UFacts, Zenon
<1>3. Len(U(mask, 2)) < 256 * 256
  <2>1. 2 \in 0 .. 1000
    OBVIOUS
  <2>2. QED
    BY <1>2, <2>1, FewBytes, Zenon
<1>4. Sayable(EncodeCtrl(Subscribed, U(mask, 2)))
  BY <1>2, <1>3, CtrlMessage, CtrlNumbers, Zenon
<1>5. QED
  BY <1>4 DEF BuildSubscribed

(* The mask server.py finds in a SUBSCRIBE is a number of fourteen bits,   *)
(* and not 0.                                                              *)
LEMMA MaskNumber ==
  ASSUME NEW number \in Nat
  PROVE  Mask(number) \in 1 .. AllChannelsMask
<1>1. 2^14 \in Nat /\ 2^14 >= 2
  OBVIOUS
<1>2. number % 2^14 \in 0 .. 2^14 - 1
  BY <1>1
<1>3. CASE number % 2^14 = 0
  <2>1. Mask(number) = AllChannelsMask
    BY <1>3, Zenon DEF Mask
  <2>2. AllChannelsMask \in 1 .. AllChannelsMask
    BY <1>1 DEF AllChannelsMask
  <2>3. QED
    BY <2>1, <2>2
<1>4. CASE number % 2^14 # 0
  <2>1. Mask(number) = number % 2^14
    BY <1>4, Zenon DEF Mask
  <2>2. number % 2^14 \in 1 .. AllChannelsMask
    BY <1>1, <1>2, <1>4 DEF AllChannelsMask
  <2>3. QED
    BY <2>1, <2>2
<1>5. QED
  BY <1>3, <1>4

(* The answer of server.py is no list of ids to StreamClient: what it takes *)
(* for their number is the mask.                                           *)
LEMMA MaskRefused ==
  ASSUME NEW mask \in 1 .. AllChannelsMask
  PROVE  DecodeSubscribed(Message(BuildSubscribed(mask)).payload) = Raises
<1> DEFINE p == U(mask, 2)
<1>1. mask \in Nat /\ mask >= 1 /\ mask < 256 * 256 /\ 2 \in Nat /\ 0 \in Nat
  <2>1. 2^14 = 16384
    OBVIOUS
  <2>2. QED
    BY <2>1 DEF AllChannelsMask
<1>2. p \in Seq(Cell) /\ Len(p) = 2
  BY <1>1, UFacts, Zenon
<1>3. Number(p) = mask
  <2>1. mask \in Uint16
    BY <1>1, Uint16Facts, Zenon
  <2>2. QED
    BY <2>1, ReadBack, Zenon
<1> HIDE DEF p
<1>4. Message(EncodeCtrl(Subscribed, p)).payload = p
  <2>1. Len(p) < 256 * 256
    BY <1>2
  <2>2. QED
    BY <1>2, <2>1, CtrlMessage, CtrlNumbers, Zenon
<1>5. At(p, 0, 2) = p
  <2>1. Part(p, 0, p)
    BY <1>2 DEF Part
  <2>2. At(p, 0, Len(p)) = p
    BY <1>1, <1>2, <2>1, PartRead, Zenon
  <2>3. QED
    BY <1>2, <2>2
<1>6. Len(p) < 2 + 2 * mask
  BY <1>1, <1>2
<1>7. DecodeSubscribed(p) = Raises
  BY <1>3, <1>5, <1>6, Zenon DEF DecodeSubscribed
<1>8. QED
  BY <1>4, <1>7, Zenon DEF BuildSubscribed, p

(* The first channel is not in the mask that is the port by default.       *)
LEMMA DefaultMask ==
  0 \notin Bits(Mask(DefaultUdpPort))
<1> DEFINE mask == Mask(DefaultUdpPort)
<1>1. mask % 2 = 0 /\ mask \in Nat
  <2>1. 2^14 = 16384 /\ 9100 % 16384 = 9100 /\ 9100 % 2 = 0
    OBVIOUS
  <2>2. QED
    BY <2>1 DEF Mask, DefaultUdpPort
<1> HIDE DEF mask
<1>2. mask \div 2^0 = mask
  <2>1. 2^0 = 1
    OBVIOUS
  <2>2. QED
    BY <1>1, <2>1
<1>3. ASSUME 0 \in Bits(mask) PROVE FALSE
  <2>1. (mask \div 2^0) % 2 = 1
    BY <1>3, Zenon DEF Bits
  <2>2. QED
    BY <1>1, <1>2, <2>1
<1>4. QED
  BY <1>3, Zenon DEF mask

-----------------------------------------------------------------------------
(* The channels a driver may have.                                         *)

LEMMA SeqIn ==
  ASSUME NEW S, NEW T, NEW q \in Seq(S), \A k \in 1 .. Len(q) : q[k] \in T
  PROVE  q \in Seq(T)
OBVIOUS

LEMMA NamesFit ==
  ASSUME NEW w \in Nat, NEW name \in Names(w)
  PROVE  name \in Field(w)
<1>1. name \in Seq({"text"} \X Words \X Nat \X Nat) /\ Len(name) <= w
  BY DEF Names
<1>2. ASSUME NEW k \in 1 .. Len(name) PROVE name[k] \in Cell /\ name[k] # Byte(0)
  <2>1. name[k] \in {"text"} \X Words \X Nat \X Nat
    BY <1>1, <1>2
  <2>2. name[k] \in {"text", "scalar"} \X Stands \X Nat \X Nat /\ name[k][1] = "text"
    BY <2>1 DEF Stands
  <2>3. Byte(0)[1] = "byte"
    BY DEF Byte
  <2>4. QED
    BY <2>2, <2>3 DEF Cell
<1>3. name \in Seq(Cell)
  BY <1>1, <1>2, SeqIn, Zenon
<1>4. QED
  BY <1>1, <1>2, <1>3, Zenon DEF Field

LEMMA InfoFits ==
  ChannelInfo \subseteq Info
<1>1. ASSUME NEW ch \in ChannelInfo PROVE ch \in Info
  <2>1. /\ ch.id \in Uint16 /\ ch.name \in Names(32) /\ ch.unit \in Names(16) /\ ch.type \in 0 .. 255
        /\ ch.min \in Words /\ ch.max \in Words
        /\ ch = [id |-> ch.id, name |-> ch.name, unit |-> ch.unit, type |-> ch.type,
                 min |-> ch.min, max |-> ch.max]
    BY DEF ChannelInfo
  <2>2. 32 \in Nat /\ 16 \in Nat
    OBVIOUS
  <2>3. ch.name \in Field(32) /\ ch.unit \in Field(16)
    BY <2>1, <2>2, NamesFit, Zenon
  <2>4. ch.min \in Stands /\ ch.max \in Stands
    BY <2>1, Zenon DEF Stands
  <2>5. QED
    BY <2>1, <2>3, <2>4 DEF Info
<1>2. QED
  BY <1>1

(* The channels a driver may have.                                         *)
Lists == {list \in Seq(Info) : WelcomeHdrSize + Len(list) * ChannelEntrySize \in Uint16}

LEMMA StreamerLists ==
  ChannelLists \subseteq Lists
<1>1. ASSUME NEW list \in ChannelLists PROVE list \in Lists
  <2>1. /\ list \in Seq(ChannelInfo)
        /\ WelcomeHdrSize + Len(list) * ChannelEntrySize \in Uint16
    BY PartiesAssumption, Zenon
  <2>2. list \in Seq(Info)
    <3>1. \A k \in 1 .. Len(list) : list[k] \in Info
      BY <2>1, InfoFits
    <3>2. QED
      BY <2>1, <3>1
  <2>3. QED
    BY <2>1, <2>2, Zenon DEF Lists
<1>2. QED
  BY <1>1

LEMMA TextFits ==
  ASSUME NEW v \in Stands, NEW n \in Nat, NEW w \in Nat, n <= w
  PROVE  Text(v, n) \in Field(w)
<1>1. /\ Text(v, n) \in Seq(Cell) /\ Len(Text(v, n)) = n
      /\ \A k \in 1 .. n : Text(v, n)[k] # Byte(0)
  BY OpaqueFacts DEF Text
<1>2. QED
  BY <1>1, Zenon DEF Field

LEMMA NothingFits ==
  ASSUME NEW w \in Nat
  PROVE  <<>> \in Field(w)
<1>1. <<>> \in Seq(Cell) /\ Len(<<>>) <= w /\ \A k \in 1 .. Len(<<>>) : FALSE
  OBVIOUS
<1>2. QED
  BY <1>1, Zenon DEF Field

LEMMA ServerList ==
  ServerChannels \in Lists /\ Len(ServerChannels) = 14 /\ ServerChannels[1].id = 0
<1> DEFINE names == <<"speed", "rpm", "throttle", "brake", "gear", "steering", "fuel",
                      "fuel_capacity", "rpm_max", "tyre_fl", "tyre_fr", "tyre_rl", "tyre_rr",
                      "brake_temp">>
           ch(i) == [id |-> i - 1, name |-> Text(names[i], 10), unit |-> <<>>,
                     type |-> 0, min |-> "min", max |-> "max"]
<1>1. ASSUME NEW i \in 1 .. 14 PROVE names[i] \in Stands
  <2>1. i = 1 \/ i = 2 \/ i = 3 \/ i = 4 \/ i = 5 \/ i = 6 \/ i = 7 \/ i = 8 \/ i = 9 \/ i = 10
        \/ i = 11 \/ i = 12 \/ i = 13 \/ i = 14
    OBVIOUS
  <2>2. QED
    BY <2>1 DEF Stands
<1>2. "min" \in Stands /\ "max" \in Stands
  BY DEF Stands
<1>3. ServerChannels = [i \in 1 .. 14 |-> ch(i)]
  BY DEF ServerChannels
<1> HIDE DEF names
<1>4. ASSUME NEW i \in 1 .. 14 PROVE ch(i) \in Info
  <2>1. i - 1 \in Nat /\ i - 1 < 256 * 256
    OBVIOUS
  <2>2. i - 1 \in Uint16
    BY <2>1, Uint16Facts, Zenon
  <2>3. 10 \in Nat /\ 32 \in Nat /\ 16 \in Nat /\ 10 <= 32 /\ 0 \in 0 .. 255
    OBVIOUS
  <2>4. Text(names[i], 10) \in Field(32) /\ <<>> \in Field(16)
    BY <1>1, <2>3, TextFits, NothingFits, Zenon
  <2>5. QED
    BY <1>2, <2>2, <2>3, <2>4 DEF Info
<1> HIDE DEF ch
<1>5. ServerChannels \in Seq(Info) /\ Len(ServerChannels) = 14
  BY <1>3, <1>4
<1>6. WelcomeHdrSize + 14 * ChannelEntrySize \in Uint16
  <2>1. WelcomeHdrSize + 14 * ChannelEntrySize = 944 /\ 944 \in Nat /\ 944 < 256 * 256
    BY DEF WelcomeHdrSize, ChannelEntrySize
  <2>2. QED
    BY <2>1, Uint16Facts
<1>7. ServerChannels[1].id = 0
  BY <1>3 DEF ch
<1>8. QED
  BY <1>5, <1>6, <1>7, Zenon DEF Lists

(* The elements of at most n ids as a sequence.                            *)
LEMMA FewIds ==
  ASSUME NEW n \in Nat, NEW f \in [1 .. n -> Uint16], NEW S, S = {f[i] : i \in 1 .. n}
  PROVE  SetToSeq(S) \in Seq(Uint16) /\ Len(SetToSeq(S)) \in Nat /\ Len(SetToSeq(S)) <= n
<1>1. f \in Surjection(1 .. n, S)
  BY DEF Surjection
<1>2. ExistsSurjection(1 .. n, S)
  BY <1>1 DEF ExistsSurjection
<1>3. IsFiniteSet(S) /\ Cardinality(S) <= n
  BY <1>2, FS_NatSurjection, FS_SurjCardinalityBound
<1>4. Cardinality(S) \in Nat /\ ExistsBijection(1 .. Cardinality(S), S)
  BY <1>3, FS_CardinalityType, Zenon
<1>5. PICK c \in Nat : c = Cardinality(S)
  BY <1>4
<1>6. \E g \in [1 .. c -> S] : IsInjective(g)
  BY <1>4, <1>5 DEF ExistsBijection, Bijection, Injection
<1>7. SetToSeq(S) \in [1 .. c -> S]
  BY <1>5, <1>6 DEF SetToSeq
<1>8. S \subseteq Uint16
  OBVIOUS
<1>9. SetToSeq(S) \in Seq(Uint16) /\ Len(SetToSeq(S)) = c
  BY <1>7, <1>8, SMTT(30)
<1>10. QED
  BY <1>3, <1>5, <1>9

LEMMA ManyIds ==
  ASSUME NEW n \in Nat, NEW f \in [1 .. n -> Uint16], NEW S, S = {f[i] : i \in 1 .. n},
         2 + 2 * n < 256 * 256
  PROVE  Sayable(EncodeSubscribed(SetToSeq(S)))
<1> DEFINE q == SetToSeq(S)
<1>1. q \in Seq(Uint16) /\ Len(q) \in Nat /\ Len(q) <= n
  BY FewIds, Zenon
<1> HIDE DEF q
<1>2. PICK l \in Nat : l = Len(q)
  BY <1>1
<1>3. 2 + 2 * l < 256 * 256
  <2>1. l <= n
    BY <1>1, <1>2
  <2>2. QED
    BY <2>1
<1>4. Sayable(EncodeSubscribed(q))
  BY <1>1, <1>2, <1>3, SubscribedFacts, Zenon
<1>5. QED
  BY <1>4 DEF q

-----------------------------------------------------------------------------
(* Discovery.                                                              *)

Announced(v, t, u) ==
    StreamMagic \o U(v, 2) \o U(Announce, 1)
    \o Str(Text("driver", 40), 32) \o Str(<<>>, 64) \o Str(Text("car", 3), 64)
    \o U(3, 1) \o U(t, 2) \o U(u, 2) \o U(Session, 4)

LEMMA PartWhole ==
  ASSUME NEW S, NEW y \in Seq(S), NEW x \in Seq(S), Part(y, 0, x),
         NEW o \in Nat, NEW z \in Seq(S), Part(x, o, z)
  PROVE  Part(y, o, z)
<1>1. 0 \in Nat /\ 0 + o = o
  OBVIOUS
<1>2. Part(y, 0 + o, z)
  BY <1>1, PartOfPart, Zenon
<1>3. QED
  BY <1>1, <1>2, Zenon

LEMMA AnnouncedParts ==
  ASSUME NEW v \in Uint16, NEW t \in Uint16, NEW u \in Uint16
  PROVE  LET x == Announced(v, t, u) IN
         /\ x \in Seq(Cell) /\ Len(x) = 176
         /\ Part(x, 0, StreamMagic) /\ Part(x, 6, U(Announce, 1))
         /\ Part(x, 7, Str(Text("driver", 40), 32)) /\ Part(x, 39, Str(<<>>, 64))
         /\ Part(x, 103, Str(Text("car", 3), 64)) /\ Part(x, 167, U(3, 1))
         /\ Part(x, 168, U(t, 2)) /\ Part(x, 170, U(u, 2))
         /\ Part(x, 172, U(Session, 4))
         /\ Str(Text("driver", 40), 32) \in Seq(Cell) /\ Len(Str(Text("driver", 40), 32)) = 32
         /\ Str(<<>>, 64) \in Seq(Cell) /\ Len(Str(<<>>, 64)) = 64
         /\ Str(Text("car", 3), 64) \in Seq(Cell) /\ Len(Str(Text("car", 3), 64)) = 64
<1> DEFINE m == StreamMagic
           a == U(v, 2)
           b == U(Announce, 1)
           c == Str(Text("driver", 40), 32)
           d == Str(<<>>, 64)
           e == Str(Text("car", 3), 64)
           f == U(3, 1)
           g == U(t, 2)
           h == U(u, 2)
           i == U(Session, 4)
           p == m \o a \o b \o c \o d
           q == p \o e \o f \o g \o h
           x == q \o i
<1>1. m \in Seq(Cell) /\ Len(m) = 4
  BY MagicFacts
<1>2. /\ v \in Nat /\ Announce \in Nat /\ 3 \in Nat /\ t \in Nat /\ u \in Nat /\ Session \in Nat
      /\ 0 \in Nat /\ 1 \in Nat /\ 2 \in Nat /\ 4 \in Nat /\ 32 \in Nat /\ 64 \in Nat /\ 40 \in Nat
  <2>1. v \in Nat /\ t \in Nat /\ u \in Nat
    BY Uint16Facts, Zenon
  <2>2. QED
    BY <2>1 DEF Announce, Session
<1>3. a \in Seq(Cell) /\ Len(a) = 2 /\ b \in Seq(Cell) /\ Len(b) = 1
  BY <1>2, UFacts, Zenon
<1>4. f \in Seq(Cell) /\ Len(f) = 1
  BY <1>2, UFacts, Zenon
<1>5. g \in Seq(Cell) /\ Len(g) = 2
  BY <1>2, UFacts, Zenon
<1>6. h \in Seq(Cell) /\ Len(h) = 2 /\ i \in Seq(Cell) /\ Len(i) = 4
  BY <1>2, UFacts, Zenon
<1>7. "driver" \in Stands /\ "car" \in Stands /\ "text" \in {"text", "scalar"}
  BY DEF Stands
<1>8. Text("driver", 40) \in Seq(Cell) /\ Text("car", 3) \in Seq(Cell) /\ <<>> \in Seq(Cell)
  <2>1. Text("driver", 40) \in Seq(Cell)
    BY <1>2, <1>7, OpaqueFacts, Zenon DEF Text
  <2>2. Text("car", 3) \in Seq(Cell)
    BY <1>2, <1>7, OpaqueFacts, Zenon DEF Text
  <2>3. QED
    BY <2>1, <2>2
<1>9. c \in Seq(Cell) /\ Len(c) = 32 /\ d \in Seq(Cell) /\ Len(d) = 64 /\ e \in Seq(Cell) /\ Len(e) = 64
  <2>1. c \in Seq(Cell) /\ Len(c) = 32
    BY <1>2, <1>8, StrFacts, Zenon
  <2>2. d \in Seq(Cell) /\ Len(d) = 64
    BY <1>2, <1>8, StrFacts, Zenon
  <2>3. e \in Seq(Cell) /\ Len(e) = 64
    BY <1>2, <1>8, StrFacts, Zenon
  <2>4. QED
    BY <2>1, <2>2, <2>3
<1> HIDE DEF m, a, b, c, d, e, f, g, h, i
<1>10. /\ p \in Seq(Cell) /\ Len(p) = Len(m) + Len(a) + Len(b) + Len(c) + Len(d)
       /\ Part(p, 0, m) /\ Part(p, Len(m), a) /\ Part(p, Len(m) + Len(a), b)
       /\ Part(p, Len(m) + Len(a) + Len(b), c) /\ Part(p, Len(m) + Len(a) + Len(b) + Len(c), d)
  BY <1>1, <1>3, <1>9, Five, ZenonT(30)
<1> HIDE DEF p
<1>11. Len(p) = 103 /\ Part(p, 0, m) /\ Part(p, 6, b) /\ Part(p, 7, c) /\ Part(p, 39, d)
  BY <1>1, <1>3, <1>9, <1>10
<1>12. /\ q \in Seq(Cell) /\ Len(q) = Len(p) + Len(e) + Len(f) + Len(g) + Len(h)
       /\ Part(q, 0, p) /\ Part(q, Len(p), e) /\ Part(q, Len(p) + Len(e), f)
       /\ Part(q, Len(p) + Len(e) + Len(f), g) /\ Part(q, Len(p) + Len(e) + Len(f) + Len(g), h)
  BY <1>4, <1>5, <1>6, <1>9, <1>10, Five, Zenon
<1> HIDE DEF q
<1>13. Len(q) = 172 /\ Part(q, 0, p) /\ Part(q, 103, e) /\ Part(q, 167, f) /\ Part(q, 168, g)
       /\ Part(q, 170, h)
  BY <1>4, <1>5, <1>6, <1>9, <1>11, <1>12
<1>14. /\ x \in Seq(Cell) /\ Len(x) = Len(q) + Len(i) /\ Part(x, 0, q) /\ Part(x, Len(q), i)
  BY <1>6, <1>12, Joined, Zenon
<1> HIDE DEF x
<1>15. Len(x) = 176 /\ Part(x, 172, i)
  BY <1>6, <1>13, <1>14
<1>16. /\ 0 \in Nat /\ 6 \in Nat /\ 7 \in Nat /\ 39 \in Nat /\ 103 \in Nat /\ 167 \in Nat
       /\ 168 \in Nat /\ 170 \in Nat
  OBVIOUS
<1>17. ASSUME NEW o \in Nat, NEW z \in Seq(Cell), Part(q, o, z) PROVE Part(x, o, z)
  BY <1>12, <1>14, <1>17, PartWhole, Zenon
<1>18. ASSUME NEW o \in Nat, NEW z \in Seq(Cell), Part(p, o, z) PROVE Part(x, o, z)
  <2>1. Part(q, o, z)
    BY <1>10, <1>12, <1>18, PartWhole, Zenon
  <2>2. QED
    BY <1>17, <2>1, Zenon
<1>19. Part(x, 0, m) /\ Part(x, 6, b) /\ Part(x, 7, c) /\ Part(x, 39, d)
  BY <1>1, <1>3, <1>9, <1>11, <1>16, <1>18, Zenon
<1>20. Part(x, 103, e) /\ Part(x, 167, f) /\ Part(x, 168, g) /\ Part(x, 170, h)
  <2>1. Part(x, 103, e)
    BY <1>9, <1>13, <1>16, <1>17
  <2>2. Part(x, 167, f)
    BY <1>4, <1>13, <1>16, <1>17
  <2>3. Part(x, 168, g)
    BY <1>5, <1>13, <1>16, <1>17
  <2>4. Part(x, 170, h)
    BY <1>6, <1>13, <1>16, <1>17
  <2>5. QED
    BY <2>1, <2>2, <2>3, <2>4
<1>21. x = Announced(v, t, u)
  BY DEF Announced, x, q, p, m, a, b, c, d, e, f, g, h, i
<1>22. /\ x \in Seq(Cell) /\ Len(x) = 176 /\ Part(x, 0, m) /\ Part(x, 6, b) /\ Part(x, 7, c) /\ Part(x, 39, d)
       /\ Part(x, 103, e) /\ Part(x, 167, f) /\ Part(x, 168, g) /\ Part(x, 170, h) /\ Part(x, 172, i)
       /\ c \in Seq(Cell) /\ Len(c) = 32 /\ d \in Seq(Cell) /\ Len(d) = 64 /\ e \in Seq(Cell) /\ Len(e) = 64
  BY <1>9, <1>14, <1>15, <1>19, <1>20, Zenon
<1>23. QED
  BY <1>21, <1>22 DEF m, b, c, d, e, f, g, h, i

(* What the listener finds in an announcement, of either version.          *)
LEMMA Discovered ==
  ASSUME NEW v \in Uint16, NEW t \in Uint16, NEW u \in Uint16
  PROVE  DecodeDiscovery(Announced(v, t, u)) = Gives([driver |-> Upto(Text("driver", 40), 32), track |-> <<>>, vehicle |-> Text("car", 3),
                kind |-> 3, tcp |-> t, udp |-> u, session |-> Session])
<1> DEFINE x == Announced(v, t, u)
           c == Str(Text("driver", 40), 32)
           d == Str(<<>>, 64)
           e == Str(Text("car", 3), 64)
<1>1. /\ x \in Seq(Cell) /\ Len(x) = 176
      /\ Part(x, 0, StreamMagic) /\ Part(x, 6, U(Announce, 1))
      /\ Part(x, 7, c) /\ Part(x, 39, d) /\ Part(x, 103, e) /\ Part(x, 167, U(3, 1))
      /\ Part(x, 168, U(t, 2)) /\ Part(x, 170, U(u, 2)) /\ Part(x, 172, U(Session, 4))
      /\ c \in Seq(Cell) /\ Len(c) = 32 /\ d \in Seq(Cell) /\ Len(d) = 64
      /\ e \in Seq(Cell) /\ Len(e) = 64
  BY AnnouncedParts
<1> HIDE DEF x
<1>2. ASSUME NEW o \in Nat, NEW z \in Seq(Cell), Part(x, o, z)
      PROVE  At(x, o, Len(z)) = z
  BY <1>1, <1>2, PartRead, Zenon
<1>3. /\ 0 \in Nat /\ 6 \in Nat /\ 7 \in Nat /\ 39 \in Nat /\ 103 \in Nat /\ 167 \in Nat
      /\ 168 \in Nat /\ 170 \in Nat /\ 172 \in Nat
  OBVIOUS
<1>4. At(x, 0, 4) = StreamMagic
  <2>1. At(x, 0, Len(StreamMagic)) = StreamMagic
    BY <1>1, <1>2, <1>3, MagicFacts, Zenon
  <2>2. QED
    BY <2>1, MagicFacts, Zenon
<1>5. ASSUME NEW n \in Nat, NEW w \in Nat, NEW o \in Nat, Part(x, o, U(n, w))
      PROVE  At(x, o, w) = U(n, w)
  <2>1. U(n, w) \in Seq(Cell) /\ Len(U(n, w)) = w
    BY UFacts, Zenon
  <2>2. At(x, o, Len(U(n, w))) = U(n, w)
    BY <1>2, <1>5, <2>1, Zenon
  <2>3. QED
    BY <2>1, <2>2, Zenon
<1>6. /\ Announce \in Nat /\ 3 \in Nat /\ t \in Nat /\ u \in Nat /\ Session \in Nat
      /\ 1 \in Nat /\ 2 \in Nat /\ 4 \in Nat
  <2>1. t \in Nat /\ u \in Nat
    BY Uint16Facts, Zenon
  <2>2. QED
    BY <2>1 DEF Announce, Session
<1>7. Announce \in 0 .. 255 /\ 3 \in 0 .. 255
  BY DEF Announce
<1>8. Number(At(x, 6, 1)) = Announce
  <2>1. At(x, 6, 1) = U(Announce, 1)
    BY <1>1, <1>3, <1>5, <1>6, SMTT(30)
  <2>2. QED
    BY <1>7, <2>1, ReadBack, Zenon
<1>9. Number(At(x, 167, 1)) = 3
  <2>1. At(x, 167, 1) = U(3, 1)
    BY <1>1, <1>3, <1>5, <1>6, SMTT(30)
  <2>2. QED
    BY <1>7, <2>1, ReadBack, Zenon
<1>10. Number(At(x, 168, 2)) = t
  <2>1. At(x, 168, 2) = U(t, 2)
    BY <1>1, <1>3, <1>5, <1>6, SMTT(30)
  <2>2. QED
    BY <1>7, <2>1, ReadBack, Zenon
<1>11. Number(At(x, 170, 2)) = u
  <2>1. At(x, 170, 2) = U(u, 2)
    BY <1>1, <1>3, <1>5, <1>6, SMTT(30)
  <2>2. QED
    BY <1>7, <2>1, ReadBack, Zenon
<1>12. Number(At(x, 172, 4)) = Session
  <2>1. At(x, 172, 4) = U(Session, 4)
    BY <1>1, <1>3, <1>5, <1>6, SMTT(30)
  <2>2. QED
    BY <2>1, SessionNumber, Zenon
<1>13. At(x, 7, 32) = c /\ At(x, 39, 64) = d /\ At(x, 103, 64) = e
  <2>1. At(x, 7, Len(c)) = c /\ At(x, 39, Len(d)) = d /\ At(x, 103, Len(e)) = e
    BY <1>1, <1>2, <1>3
  <2>2. QED
    BY <1>1, <2>1, Zenon
<1>14. Stripped(c) = Upto(Text("driver", 40), 32)
  <2>1. "driver" \in Stands /\ "text" \in {"text", "scalar"} /\ 40 \in Nat /\ 32 \in Nat
    BY DEF Stands
  <2>2. /\ Text("driver", 40) \in Seq(Cell) /\ Len(Text("driver", 40)) = 40
        /\ \A k \in 1 .. 40 : Text("driver", 40)[k] # Byte(0)
    BY <2>1, OpaqueFacts, ZenonT(30) DEF Text
  <2> DEFINE y == Text("driver", 40)
  <2>3. y \in Seq(Cell) /\ \A k \in 1 .. Len(y) : y[k] # Byte(0)
    BY <2>2, Zenon
  <2>4. 32 = IF Len(y) <= 32 THEN Len(y) ELSE 32
    <3> HIDE DEF y
    <3>1. Len(y) = 40
      BY <2>2 DEF y
    <3>2. QED
      BY <3>1
  <2> HIDE DEF y
  <2>5. Stripped(Str(y, 32)) = SubSeq(y, 1, 32)
    BY <2>1, <2>3, <2>4, StrippedStr, Zenon
  <2>6. QED
    BY <2>5 DEF y, Upto
<1>15. Stripped(d) = <<>>
  <2>1. 64 \in Nat
    OBVIOUS
  <2>2. QED
    BY <2>1, NothingFits, FieldBack, Zenon
<1>16. Stripped(e) = Text("car", 3)
  <2>1. "car" \in Stands /\ 3 \in Nat /\ 64 \in Nat /\ 3 <= 64
    BY DEF Stands
  <2>2. QED
    BY <2>1, TextFits, FieldBack, Zenon
<1>17. ~(Len(x) < DiscoverySize)
  BY <1>1 DEF DiscoverySize
<1> HIDE DEF c, d, e
<1>18. DecodeDiscovery(x) =
         Gives([driver |-> Stripped(c), track |-> Stripped(d), vehicle |-> Stripped(e),
                kind |-> 3, tcp |-> t, udp |-> u, session |-> Session])
  BY <1>4, <1>8, <1>9, <1>10, <1>11, <1>12, <1>13, <1>17 DEF DecodeDiscovery
<1>19. QED
  BY <1>14, <1>15, <1>16, <1>18, Zenon DEF x

LEMMA DiscoveryFacts ==
  /\ DecodeDiscovery(EncodeDiscovery(Announcement)) = Gives([Announcement EXCEPT !.driver = Upto(@, 32)])
  /\ DecodeDiscovery(BuildDiscovery(Announcement)) = Gives([Announcement EXCEPT !.driver = Upto(@, 32)])
<1>1. PICK t \in Nat, u \in Nat :
        /\ t = 19742 /\ u = TelemetryPort
        /\ t \in Uint16 /\ u \in Uint16 /\ t % 65536 = t /\ u % 65536 = u
  <2>1. \E t \in Nat, u \in Nat :
          t = 19742 /\ u = 19741 /\ t < 256 * 256 /\ u < 256 * 256 /\ t % 65536 = t /\ u % 65536 = u
    BY SMT
  <2>2. QED
    BY <2>1, Uint16Facts DEF TelemetryPort
<1>2. Announcement = [driver |-> Text("driver", 40), track |-> <<>>, vehicle |-> Text("car", 3),
                      kind |-> 3, tcp |-> t, udp |-> u, session |-> Session]
  BY <1>1 DEF Announcement
<1>3. EncodeDiscovery(Announcement) = Announced(ProtocolVersion, t, u)
  BY <1>2 DEF EncodeDiscovery, Announced
<1>4. BuildDiscovery(Announcement) = Announced(1, t, u)
  <2>1. 3 % 256 = 3
    BY SMT
  <2> DEFINE W(d, r, c, x, y, z) ==
          StreamMagic \o U(1, 2) \o U(Announce, 1) \o Str(d, 32) \o Str(r, 64) \o Str(c, 64)
          \o x \o y \o z \o U(Session, 4)
             a == Announcement
  <2>2. BuildDiscovery(Announcement) =
          W(a.driver, a.track, a.vehicle, U(a.kind % 256, 1), U(a.tcp % 65536, 2), U(a.udp % 65536, 2))
    <3>1. a.session = Session
      BY <1>2
    <3>2. QED
      BY <3>1 DEF BuildDiscovery
  <2>3. Announced(1, t, u) = W(Text("driver", 40), <<>>, Text("car", 3), U(3, 1), U(t, 2), U(u, 2))
    BY DEF Announced
  <2> HIDE DEF W
  <2>4. t % 65536 = t /\ u % 65536 = u
    BY <1>1, SMT
  <2>5. /\ a.driver = Text("driver", 40) /\ a.track = <<>> /\ a.vehicle = Text("car", 3)
        /\ a.kind = 3 /\ a.tcp = t /\ a.udp = u
    BY <1>2
  <2> HIDE DEF a
  <2>6. QED
    BY <2>1, <2>2, <2>3, <2>4, <2>5, SMT DEF a
<1>5. ProtocolVersion \in Uint16 /\ 1 \in Uint16
  <2>1. 2 \in Nat /\ 2 < 256 * 256 /\ 1 \in Nat /\ 1 < 256 * 256
    BY SMT
  <2>2. QED
    BY <2>1, Uint16Facts, Zenon DEF ProtocolVersion
<1>6. [Announcement EXCEPT !.driver = Upto(@, 32)] =
        [driver |-> Upto(Text("driver", 40), 32), track |-> <<>>, vehicle |-> Text("car", 3),
         kind |-> 3, tcp |-> t, udp |-> u, session |-> Session]
  BY <1>2
<1>10. t \in Uint16 /\ u \in Uint16
  BY <1>1
<1>7. DecodeDiscovery(Announced(ProtocolVersion, t, u)) = Gives([Announcement EXCEPT !.driver = Upto(@, 32)])
  BY <1>10, <1>5, <1>6, Discovered, Zenon
<1>8. DecodeDiscovery(Announced(1, t, u)) = Gives([Announcement EXCEPT !.driver = Upto(@, 32)])
  BY <1>10, <1>5, <1>6, Discovered, Zenon
<1>9. QED
  BY <1>3, <1>4, <1>7, <1>8, Zenon

-----------------------------------------------------------------------------
(* The state of both sides.                                                *)

DriverStates == {"hello", "subscribe", "loop", "leaving", "over", "closed"}
EngineerStates == {"new", "welcome", "subscribed", "up", "leaving", "over", "closed", "failed"}

Parties ==
    /\ driver \in {"streamer", "server"} /\ engineer \in {"StreamClient", "StreamingClient"}
    /\ channels \in Lists /\ (driver = "server" => channels = ServerChannels)
    /\ wanted \in Seq(Uint16) /\ 4 + 2 * Len(wanted) \in Uint16
    /\ engineer = "StreamingClient" => wanted = <<>>
    /\ port \in Uint16

Histories ==
    /\ dstate \in DriverStates /\ estate \in EngineerStates
    /\ sent \in [driver : Seq(Msg), engineer : Seq(Msg)]
    /\ read \in [driver : Seq(Msg), engineer : Seq(Msg)]
    /\ stalls \in Nat /\ stalls <= MaxStalls

(* A reader in the handshake, and after it.                                *)
Shakes(d) == d \in {"hello", "subscribe"}
Greets(e) == e \in {"new", "welcome", "subscribed"}
Serves(d) == d \in {"loop", "leaving"}
Listens(e) == e \in {"up", "leaving"}

(* The two directions of the stream.                                       *)
FlowToDriver ==
    Flow(toDriver, sent.engineer, read.driver, Shakes(dstate), Serves(dstate), stalls)
FlowToEngineer ==
    Flow(toEngineer, sent.driver, read.engineer, Greets(estate), Listens(estate), stalls)

LEMMA SaysNothing ==
  ASSUME NEW w \in Seq(Cell), NEW snt \in Seq(Msg)
  PROVE  /\ w \o FlattenSeq(<<>>) = w
         /\ snt \o [i \in DOMAIN <<>> |-> Message(<<>>[i])] = snt
<1>1. FlattenSeq(<<>>) = <<>>
  BY FlattenSmall, Zenon
<1>2. w \o <<>> = w /\ snt \o <<>> = snt
  BY ConcatAgain, Zenon
<1>3. [i \in DOMAIN <<>> |-> Message(<<>>[i])] = <<>>
  OBVIOUS
<1>4. QED
  BY <1>1, <1>2, <1>3

LEMMA SaysOne ==
  ASSUME NEW w \in Seq(Cell), NEW snt \in Seq(Msg), NEW b, Sayable(b)
  PROVE  /\ w \o FlattenSeq(<<b>>) = w \o Enc(Message(b))
         /\ snt \o [i \in DOMAIN <<b>> |-> Message(<<b>>[i])] = Append(snt, Message(b))
<1>1. Message(b) \in Msg /\ b = Enc(Message(b)) /\ b \in Seq(Cell)
  BY EncType, Zenon DEF Sayable
<1>2. FlattenSeq(<<b>>) = b
  BY <1>1, FlattenSmall, Zenon
<1>3. [i \in DOMAIN <<b>> |-> Message(<<b>>[i])] = <<Message(b)>>
  OBVIOUS
<1>4. \A x \in Msg : snt \o <<x>> = Append(snt, x)
  OBVIOUS
<1>5. snt \o <<Message(b)>> = Append(snt, Message(b))
  BY <1>1, <1>4, Zenon
<1>6. QED
  BY <1>1, <1>2, <1>3, <1>5, Zenon

LEMMA Longer ==
  ASSUME NEW S, NEW q \in Seq(S), NEW x \in S
  PROVE  Append(q, x) \in Seq(S) /\ Len(Append(q, x)) = Len(q) + 1
BY AppendFacts

LEMMA Sides ==
  ASSUME NEW S, NEW f \in [driver : S, engineer : S], NEW x
  PROVE  /\ f.driver \in S /\ f.engineer \in S
         /\ [f EXCEPT !.driver = x].driver = x /\ [f EXCEPT !.driver = x].engineer = f.engineer
         /\ [f EXCEPT !.engineer = x].engineer = x /\ [f EXCEPT !.engineer = x].driver = f.driver
         /\ x \in S => [f EXCEPT !.driver = x] \in [driver : S, engineer : S]
                       /\ [f EXCEPT !.engineer = x] \in [driver : S, engineer : S]
OBVIOUS

(* What a driver that takes a message does to the stream and the history,  *)
(* with an answer or without.                                              *)
LEMMA DriverTakesFacts ==
  ASSUME Histories, toDriver \in Seq(Cell), toEngineer \in Seq(Cell), Framing("driver", toDriver) = "message",
         NEW messages, DriverTakes(messages)
  PROVE  /\ toDriver' = AfterFirst(toDriver) /\ FirstOf(toDriver) \in Msg
         /\ read'.driver = Append(read.driver, FirstOf(toDriver)) /\ read'.engineer = read.engineer
         /\ Len(read'.driver) = Len(read.driver) + 1
         /\ read' \in [driver : Seq(Msg), engineer : Seq(Msg)]
         /\ sent'.engineer = sent.engineer
         /\ messages = <<>> => toEngineer' = toEngineer /\ sent' = sent
         /\ \A b : messages = <<b>> /\ Sayable(b) =>
              /\ toEngineer' = toEngineer \o Enc(Message(b))
              /\ sent'.driver = Append(sent.driver, Message(b))
              /\ Len(sent'.driver) = Len(sent.driver) + 1
              /\ sent' \in [driver : Seq(Msg), engineer : Seq(Msg)]
<1>1. /\ sent \in [driver : Seq(Msg), engineer : Seq(Msg)] /\ read \in [driver : Seq(Msg), engineer : Seq(Msg)]
      /\ sent.driver \in Seq(Msg) /\ read.driver \in Seq(Msg)
  BY DEF Histories
<1>2. FirstOf(toDriver) \in Msg
  BY AnyMessage, Zenon
<1>3. /\ toDriver' = AfterFirst(toDriver)
      /\ toEngineer' = toEngineer \o FlattenSeq(messages)
      /\ read' = [read EXCEPT !.driver = Append(read.driver, FirstOf(toDriver))]
      /\ sent' = [sent EXCEPT !.driver = sent.driver \o [i \in DOMAIN messages |-> Message(messages[i])]]
  BY Zenon DEF DriverTakes
<1>4. Append(read.driver, FirstOf(toDriver)) \in Seq(Msg)
      /\ Len(Append(read.driver, FirstOf(toDriver))) = Len(read.driver) + 1
  BY <1>1, <1>2, Longer, Zenon
<1>5. /\ read'.driver = Append(read.driver, FirstOf(toDriver)) /\ read'.engineer = read.engineer
      /\ read' \in [driver : Seq(Msg), engineer : Seq(Msg)]
      /\ Len(read'.driver) = Len(read.driver) + 1
  BY <1>1, <1>3, <1>4, Sides, Zenon
<1>6. sent'.engineer = sent.engineer
  BY <1>1, <1>3, Sides, Zenon
<1>7. ASSUME messages = <<>> PROVE toEngineer' = toEngineer /\ sent' = sent
  <2>1. toEngineer' = toEngineer /\ sent' = [sent EXCEPT !.driver = sent.driver]
    BY <1>1, <1>3, <1>7, SaysNothing, Zenon
  <2>2. [sent EXCEPT !.driver = sent.driver] = sent
    BY <1>1
  <2>3. QED
    BY <2>1, <2>2
<1>8. ASSUME NEW b, messages = <<b>>, Sayable(b)
      PROVE  /\ toEngineer' = toEngineer \o Enc(Message(b))
             /\ sent'.driver = Append(sent.driver, Message(b))
             /\ Len(sent'.driver) = Len(sent.driver) + 1
             /\ sent' \in [driver : Seq(Msg), engineer : Seq(Msg)]
  <2>1. toEngineer' = toEngineer \o Enc(Message(b))
        /\ sent' = [sent EXCEPT !.driver = Append(sent.driver, Message(b))]
    <3> DEFINE more == [i \in DOMAIN <<b>> |-> Message(<<b>>[i])]
    <3>1. toEngineer' = toEngineer \o FlattenSeq(<<b>>) /\ sent' = [sent EXCEPT !.driver = sent.driver \o more]
      BY <1>3, <1>8, Zenon
    <3>2. toEngineer \o FlattenSeq(<<b>>) = toEngineer \o Enc(Message(b))
          /\ sent.driver \o more = Append(sent.driver, Message(b))
      BY <1>1, <1>8, SaysOne, Zenon
    <3> HIDE DEF more
    <3>3. QED
      BY <3>1, <3>2, Zenon
  <2>2. Message(b) \in Msg
    BY <1>8 DEF Sayable
  <2>3. Append(sent.driver, Message(b)) \in Seq(Msg)
        /\ Len(Append(sent.driver, Message(b))) = Len(sent.driver) + 1
    BY <1>1, <2>2, Longer, Zenon
  <2>4. QED
    BY <1>1, <2>1, <2>3, Sides, Zenon
<1>9. QED
  BY <1>2, <1>3, <1>5, <1>6, <1>7, <1>8, Zenon

-----------------------------------------------------------------------------
(* A side that takes a message.                                            *)

(* What an engineer that takes a message does to the stream and the history,  *)
(* with an answer or without.                                              *)
LEMMA EngineerTakesFacts ==
  ASSUME Histories, toEngineer \in Seq(Cell), toDriver \in Seq(Cell), Framing("engineer", toEngineer) = "message",
         NEW messages, EngineerTakes(messages)
  PROVE  /\ toEngineer' = AfterFirst(toEngineer) /\ FirstOf(toEngineer) \in Msg
         /\ read'.engineer = Append(read.engineer, FirstOf(toEngineer)) /\ read'.driver = read.driver
         /\ Len(read'.engineer) = Len(read.engineer) + 1
         /\ read' \in [driver : Seq(Msg), engineer : Seq(Msg)]
         /\ sent'.driver = sent.driver
         /\ messages = <<>> => toDriver' = toDriver /\ sent' = sent
         /\ \A b : messages = <<b>> /\ Sayable(b) =>
              /\ toDriver' = toDriver \o Enc(Message(b))
              /\ sent'.engineer = Append(sent.engineer, Message(b))
              /\ Len(sent'.engineer) = Len(sent.engineer) + 1
              /\ sent' \in [driver : Seq(Msg), engineer : Seq(Msg)]
<1>1. /\ sent \in [driver : Seq(Msg), engineer : Seq(Msg)] /\ read \in [driver : Seq(Msg), engineer : Seq(Msg)]
      /\ sent.engineer \in Seq(Msg) /\ read.engineer \in Seq(Msg)
  BY DEF Histories
<1>2. FirstOf(toEngineer) \in Msg
  BY AnyMessage, Zenon
<1>3. /\ toEngineer' = AfterFirst(toEngineer)
      /\ toDriver' = toDriver \o FlattenSeq(messages)
      /\ read' = [read EXCEPT !.engineer = Append(read.engineer, FirstOf(toEngineer))]
      /\ sent' = [sent EXCEPT !.engineer = sent.engineer \o [i \in DOMAIN messages |-> Message(messages[i])]]
  BY Zenon DEF EngineerTakes
<1>4. Append(read.engineer, FirstOf(toEngineer)) \in Seq(Msg)
      /\ Len(Append(read.engineer, FirstOf(toEngineer))) = Len(read.engineer) + 1
  BY <1>1, <1>2, Longer, Zenon
<1>5. /\ read'.engineer = Append(read.engineer, FirstOf(toEngineer)) /\ read'.driver = read.driver
      /\ read' \in [driver : Seq(Msg), engineer : Seq(Msg)]
      /\ Len(read'.engineer) = Len(read.engineer) + 1
  BY <1>1, <1>3, <1>4, Sides, Zenon
<1>6. sent'.driver = sent.driver
  BY <1>1, <1>3, Sides, Zenon
<1>7. ASSUME messages = <<>> PROVE toDriver' = toDriver /\ sent' = sent
  <2>1. toDriver' = toDriver /\ sent' = [sent EXCEPT !.engineer = sent.engineer]
    BY <1>1, <1>3, <1>7, SaysNothing, Zenon
  <2>2. [sent EXCEPT !.engineer = sent.engineer] = sent
    BY <1>1
  <2>3. QED
    BY <2>1, <2>2
<1>8. ASSUME NEW b, messages = <<b>>, Sayable(b)
      PROVE  /\ toDriver' = toDriver \o Enc(Message(b))
             /\ sent'.engineer = Append(sent.engineer, Message(b))
             /\ Len(sent'.engineer) = Len(sent.engineer) + 1
             /\ sent' \in [driver : Seq(Msg), engineer : Seq(Msg)]
  <2>1. toDriver' = toDriver \o Enc(Message(b))
        /\ sent' = [sent EXCEPT !.engineer = Append(sent.engineer, Message(b))]
    <3> DEFINE more == [i \in DOMAIN <<b>> |-> Message(<<b>>[i])]
    <3>1. toDriver' = toDriver \o FlattenSeq(<<b>>) /\ sent' = [sent EXCEPT !.engineer = sent.engineer \o more]
      BY <1>3, <1>8, Zenon
    <3>2. toDriver \o FlattenSeq(<<b>>) = toDriver \o Enc(Message(b))
          /\ sent.engineer \o more = Append(sent.engineer, Message(b))
      BY <1>1, <1>8, SaysOne, Zenon
    <3> HIDE DEF more
    <3>3. QED
      BY <3>1, <3>2, Zenon
  <2>2. Message(b) \in Msg
    BY <1>8 DEF Sayable
  <2>3. Append(sent.engineer, Message(b)) \in Seq(Msg)
        /\ Len(Append(sent.engineer, Message(b))) = Len(sent.engineer) + 1
    BY <1>1, <2>2, Longer, Zenon
  <2>4. QED
    BY <1>1, <2>1, <2>3, Sides, Zenon
<1>9. QED
  BY <1>2, <1>3, <1>5, <1>6, <1>7, <1>8, Zenon

(* A reader may stop.                                                      *)
LEMMA FlowWeaker ==
  ASSUME NEW w, NEW snt, NEW rd, NEW shaking, NEW looping, NEW s,
         Flow(w, snt, rd, shaking, looping, s),
         NEW shaking2, NEW looping2,
         shaking2 => shaking, looping2 => looping
  PROVE  Flow(w, snt, rd, shaking2, looping2, s)
BY Zenon DEF Flow

(* An answer: none, or one that fits where it is said.                     *)
Answer(b, snt) == Sayable(b) /\ (Len(snt) >= 2 => Plain(Message(b)))
Answers(messages, snt) == messages = <<>> \/ \E b : messages = <<b>> /\ Answer(b, snt)

LEMMA FlowAnswer ==
  ASSUME NEW w, NEW snt, NEW rd, NEW shaking, NEW looping, NEW s,
         Flow(w, snt, rd, shaking, looping, s), NEW b, Answer(b, snt)
  PROVE  Flow(w \o Enc(Message(b)), Append(snt, Message(b)), rd, shaking, looping, s)
<1> DEFINE m == Message(b)
<1>1. m \in Msg /\ Fits(m) /\ (Len(snt) >= 2 => Plain(m))
  BY DEF Answer, Sayable
<1> HIDE DEF m
<1>2. Flow(w \o Enc(m), Append(snt, m), rd, shaking, looping, s)
  BY <1>1, FlowSend, Zenon
<1>3. QED
  BY <1>2, Zenon DEF m

LEMMA DriverTakesFlows ==
  ASSUME Histories, FlowToDriver, FlowToEngineer, Framing("driver", toDriver) = "message",
         NEW messages, DriverTakes(messages), Answers(messages, sent.driver),
         estate' = estate, stalls' = stalls,
         Shakes(dstate) \/ Serves(dstate),
         Shakes(dstate') => Shakes(dstate), Serves(dstate') => Serves(dstate) \/ Len(read.driver) >= 1
  PROVE  /\ FlowToDriver' /\ FlowToEngineer'
         /\ Shakes(dstate) => /\ Len(read.driver) + 1 \in 1 .. Len(sent.engineer)
                              /\ FirstOf(toDriver) = sent.engineer[Len(read.driver) + 1]
<1>1. toDriver \in Seq(Cell) /\ toEngineer \in Seq(Cell)
  BY Zenon DEF FlowToDriver, FlowToEngineer, Flow
<1>2. /\ toDriver' = AfterFirst(toDriver) /\ FirstOf(toDriver) \in Msg
      /\ read'.driver = Append(read.driver, FirstOf(toDriver)) /\ read'.engineer = read.engineer
      /\ sent'.engineer = sent.engineer
      /\ messages = <<>> => toEngineer' = toEngineer /\ sent' = sent
      /\ \A b : messages = <<b>> /\ Sayable(b) =>
           /\ toEngineer' = toEngineer \o Enc(Message(b))
           /\ sent'.driver = Append(sent.driver, Message(b))
  BY <1>1, DriverTakesFacts, Zenon
<1> DEFINE sh == Shakes(dstate)
           lo == Serves(dstate)
           sh2 == Shakes(dstate')
           lo2 == Serves(dstate')
           gr == Greets(estate)
           up == Listens(estate)
<1>3. /\ Flow(toDriver, sent.engineer, read.driver, sh, lo, stalls)
      /\ Flow(toEngineer, sent.driver, read.engineer, gr, up, stalls)
      /\ sh \/ lo
      /\ sh2 => sh
      /\ lo2 => lo \/ Len(read.driver) >= 1
  BY Zenon DEF FlowToDriver, FlowToEngineer
<1> HIDE DEF sh, lo, sh2, lo2, gr, up
<1>4. /\ Flow(AfterFirst(toDriver), sent.engineer, Append(read.driver, FirstOf(toDriver)),
              sh2, lo2, stalls)
      /\ sh => /\ Len(read.driver) + 1 \in 1 .. Len(sent.engineer)
               /\ FirstOf(toDriver) = sent.engineer[Len(read.driver) + 1]
  BY <1>3, FlowTake, Zenon
<1>5. FlowToDriver'
  BY <1>2, <1>4, Zenon DEF FlowToDriver, sh2, lo2
<1>6. CASE messages = <<>>
  BY <1>2, <1>3, <1>4, <1>5, <1>6, Zenon DEF FlowToEngineer, gr, up, sh
<1>7. CASE messages # <<>>
  <2>1. PICK b : messages = <<b>> /\ Answer(b, sent.driver)
    BY <1>7, Zenon DEF Answers
  <2>2. Sayable(b)
    BY <2>1, Zenon DEF Answer
  <2>3. Flow(toEngineer \o Enc(Message(b)), Append(sent.driver, Message(b)), read.engineer,
             gr, up, stalls)
    BY <1>3, <2>1, FlowAnswer
  <2>4. QED
    BY <1>2, <1>4, <1>5, <2>1, <2>2, <2>3, Zenon DEF FlowToEngineer, gr, up, sh
<1>8. QED
  BY <1>6, <1>7

LEMMA EngineerTakesFlows ==
  ASSUME Histories, FlowToDriver, FlowToEngineer, Framing("engineer", toEngineer) = "message",
         NEW messages, EngineerTakes(messages), Answers(messages, sent.engineer),
         dstate' = dstate, stalls' = stalls,
         Greets(estate) \/ Listens(estate),
         Greets(estate') => Greets(estate), Listens(estate') => Listens(estate) \/ Len(read.engineer) >= 1
  PROVE  /\ FlowToDriver' /\ FlowToEngineer'
         /\ Greets(estate) => /\ Len(read.engineer) + 1 \in 1 .. Len(sent.driver)
                              /\ FirstOf(toEngineer) = sent.driver[Len(read.engineer) + 1]
<1>1. toDriver \in Seq(Cell) /\ toEngineer \in Seq(Cell)
  BY Zenon DEF FlowToDriver, FlowToEngineer, Flow
<1>2. /\ toEngineer' = AfterFirst(toEngineer) /\ FirstOf(toEngineer) \in Msg
      /\ read'.engineer = Append(read.engineer, FirstOf(toEngineer)) /\ read'.driver = read.driver
      /\ sent'.driver = sent.driver
      /\ messages = <<>> => toDriver' = toDriver /\ sent' = sent
      /\ \A b : messages = <<b>> /\ Sayable(b) =>
           /\ toDriver' = toDriver \o Enc(Message(b))
           /\ sent'.engineer = Append(sent.engineer, Message(b))
  BY <1>1, EngineerTakesFacts, Zenon
<1> DEFINE sh == Shakes(dstate)
           lo == Serves(dstate)
           gr == Greets(estate)
           up == Listens(estate)
           gr2 == Greets(estate')
           up2 == Listens(estate')
<1>3. /\ Flow(toDriver, sent.engineer, read.driver, sh, lo, stalls)
      /\ Flow(toEngineer, sent.driver, read.engineer, gr, up, stalls)
      /\ gr \/ up
      /\ gr2 => gr
      /\ up2 => up \/ Len(read.engineer) >= 1
  BY Zenon DEF FlowToDriver, FlowToEngineer
<1> HIDE DEF sh, lo, gr, up, gr2, up2
<1>4. /\ Flow(AfterFirst(toEngineer), sent.driver, Append(read.engineer, FirstOf(toEngineer)),
              gr2, up2, stalls)
      /\ gr => /\ Len(read.engineer) + 1 \in 1 .. Len(sent.driver)
               /\ FirstOf(toEngineer) = sent.driver[Len(read.engineer) + 1]
  BY <1>3, FlowTake, Zenon
<1>5. FlowToEngineer'
  BY <1>2, <1>4, Zenon DEF FlowToEngineer, gr2, up2
<1>6. CASE messages = <<>>
  BY <1>2, <1>3, <1>4, <1>5, <1>6, Zenon DEF FlowToDriver, sh, lo, gr
<1>7. CASE messages # <<>>
  <2>1. PICK b : messages = <<b>> /\ Answer(b, sent.engineer)
    BY <1>7, Zenon DEF Answers
  <2>2. Sayable(b)
    BY <2>1, Zenon DEF Answer
  <2>3. Flow(toDriver \o Enc(Message(b)), Append(sent.engineer, Message(b)), read.driver,
             sh, lo, stalls)
    BY <1>3, <2>1, FlowAnswer
  <2>4. QED
    BY <1>2, <1>4, <1>5, <2>1, <2>2, <2>3, Zenon DEF FlowToDriver, sh, lo, gr
<1>8. QED
  BY <1>6, <1>7

-----------------------------------------------------------------------------
(* The inductive invariant.                                                *)

(* The channels an engineer asks for, and where it wants them.             *)
Wished == IF engineer = "StreamClient" THEN wanted ELSE [i \in 1 .. Len(channels) |-> i - 1]
WishedPort == IF engineer = "StreamClient" THEN port ELSE DefaultUdpPort

(* How a driver of either kind takes that, and what server.py answers.     *)
Granted ==
    IF driver = "streamer" THEN [ids |-> Subscription(ToSet(Wished)), port |-> WishedPort]
    ELSE [ids |-> Bits(Mask(WishedPort)), port |-> TelemetryPort]
Answered == Message(BuildSubscribed(Mask(WishedPort)))

(* What each state of a side says about what has been said and read.       *)
Stages ==
    /\ estate = "new" => toDriver = <<>> /\ sent.engineer = <<>>
    /\ dstate = "hello" => read.driver = <<>> /\ sent.driver = <<>>
    /\ dstate = "subscribe" => Len(read.driver) = 1 /\ Len(sent.driver) = 1
    /\ dstate \in Driving => Len(sent.driver) >= 2
    /\ estate \in {"new", "welcome"} => read.engineer = <<>>
    /\ estate = "welcome" => Len(sent.engineer) = 1
    /\ estate = "subscribed" => Len(read.engineer) = 1 /\ Len(sent.engineer) = 2
    /\ estate \in Engaged => Len(sent.engineer) >= 2 /\ Len(sent.driver) >= 2

WelcomeSaid == Len(sent.driver) >= 1 => sent.driver[1] = Message(EncodeWelcome(Session, channels))
WishSaid == Len(sent.engineer) >= 2 => sent.engineer[2] = Message(Wish(Len(channels)))
Learned ==
    /\ estate \in {"subscribed", "up"} => learned = [session |-> Session, channels |-> channels]
    /\ estate = "new" /\ learned # <<>> => learned = [Announcement EXCEPT !.driver = Upto(@, 32)]
Agreed ==
    Len(sent.driver) >= 2 =>
        client = Granted /\ (driver = "server" => sent.driver[2] = Answered)

(* StreamClient does not accept the answer of server.py.                   *)
Met == estate = "up" /\ driver = "server" => engineer = "StreamingClient"

IInv == /\ Parties /\ Histories /\ FlowToDriver /\ FlowToEngineer /\ Stages
        /\ WelcomeSaid /\ WishSaid /\ Learned /\ Agreed /\ Met

LEMMA WishedFacts ==
  ASSUME Parties
  PROVE  /\ Wished \in Seq(Uint16) /\ 4 + 2 * Len(Wished) \in Uint16 /\ WishedPort \in Uint16
         /\ Wish(Len(channels)) = EncodeSubscribe(Wished, WishedPort)
<1>1. /\ channels \in Seq(Info) /\ WelcomeHdrSize + Len(channels) * ChannelEntrySize \in Uint16
      /\ wanted \in Seq(Uint16) /\ 4 + 2 * Len(wanted) \in Uint16 /\ port \in Uint16
  BY Zenon DEF Parties, Lists
<1>2. PICK n \in Nat : n = Len(channels)
  BY <1>1
<1> DEFINE count == [i \in 1 .. n |-> i - 1]
<1>3. 6 + n * 67 < 256 * 256
  <2>1. 6 + n * 67 \in Uint16
    BY <1>1, <1>2 DEF WelcomeHdrSize, ChannelEntrySize
  <2>2. QED
    BY <2>1, Uint16Facts, Zenon
<1>4. n < 256 * 256 /\ 4 + 2 * n \in Nat /\ 4 + 2 * n < 256 * 256
  <2>1. n <= 6 + n * 67 /\ 4 + 2 * n <= 6 + n * 67 /\ 4 + 2 * n \in Nat
    BY SMT
  <2>2. QED
    BY <1>3, <2>1
<1>5. count \in Seq(Uint16) /\ Len(count) = n
  <2>1. \A i \in 1 .. n : i - 1 \in Nat /\ i - 1 < 256 * 256
    BY <1>4
  <2>2. \A i \in 1 .. n : i - 1 \in Uint16
    BY <2>1, Uint16Facts, Zenon
  <2>3. QED
    BY <2>2
<1>6. 4 + 2 * Len(count) \in Uint16
  <2> HIDE DEF count
  <2>1. 4 + 2 * n \in Uint16
    BY <1>4, Uint16Facts, Zenon
  <2>2. QED
    BY <1>5, <2>1, Zenon
<1>7. DefaultUdpPort \in Uint16
  <2>1. 9100 \in Nat /\ 9100 < 256 * 256
    BY SMT
  <2>2. QED
    BY <2>1, Uint16Facts DEF DefaultUdpPort
<1>8. CASE engineer = "StreamClient"
  BY <1>1, <1>8, Zenon DEF Wished, WishedPort, Wish
<1>9. CASE engineer # "StreamClient"
  <2>1. Wished = count /\ WishedPort = DefaultUdpPort
    BY <1>2, <1>9, Zenon DEF Wished, WishedPort
  <2>2. Wish(Len(channels)) = EncodeSubscribe(count, DefaultUdpPort)
    BY <1>2, <1>9, Zenon DEF Wish
  <2> HIDE DEF count
  <2>3. QED
    BY <1>5, <1>6, <1>7, <2>1, <2>2, Zenon
<1>10. QED
  BY <1>8, <1>9

(* The implementations and what they are set to never change.              *)
LEMMA SameParties ==
  ASSUME Parties, UNCHANGED parties
  PROVE  /\ Parties' /\ driver' = driver /\ engineer' = engineer /\ channels' = channels
         /\ Wished' = Wished /\ WishedPort' = WishedPort /\ AllIds' = AllIds
         /\ Wish(Len(channels))' = Wish(Len(channels))
         /\ Message(EncodeWelcome(Session, channels))' = Message(EncodeWelcome(Session, channels))
         /\ Granted' = Granted /\ Answered' = Answered
<1>1. driver' = driver /\ engineer' = engineer /\ channels' = channels /\ wanted' = wanted /\ port' = port
  BY DEF parties
<1>2. Parties'
  BY <1>1, Zenon DEF Parties
<1>3. Wished' = Wished /\ WishedPort' = WishedPort /\ AllIds' = AllIds
  BY <1>1, Zenon DEF Wished, WishedPort, AllIds
<1>4. Wish(Len(channels))' = Wish(Len(channels))
  BY <1>1, Zenon DEF Wish
<1>5. Granted' = Granted /\ Answered' = Answered
  BY <1>1, <1>3, Zenon DEF Granted, Answered, Subscription
<1>6. QED
  BY <1>1, <1>2, <1>3, <1>4, <1>5, Zenon

LEMMA Idle ==
  ASSUME IInv, UNCHANGED <<parties, control>>
  PROVE  IInv'
<1>1. /\ dstate' = dstate /\ estate' = estate /\ toDriver' = toDriver /\ toEngineer' = toEngineer
      /\ client' = client /\ learned' = learned /\ sent' = sent /\ read' = read /\ stalls' = stalls
  BY DEF control
<1>2. UNCHANGED parties
  OBVIOUS
<1>3. /\ Parties' /\ driver' = driver /\ engineer' = engineer /\ channels' = channels
      /\ Wish(Len(channels))' = Wish(Len(channels)) /\ Granted' = Granted /\ Answered' = Answered
  BY <1>2, SameParties, Zenon DEF IInv
<1>4. Histories' /\ FlowToDriver' /\ FlowToEngineer'
  BY <1>1, Zenon DEF IInv, Histories, FlowToDriver, FlowToEngineer
<1>5. Stages'
  BY <1>1, Zenon DEF IInv, Stages
<1>6. WelcomeSaid' /\ WishSaid' /\ Learned' /\ Agreed' /\ Met'
  BY <1>1, <1>3, Zenon DEF IInv, WelcomeSaid, WishSaid, Learned, Agreed, Met
<1>7. QED
  BY <1>3, <1>4, <1>5, <1>6, Zenon DEF IInv

LEMMA DiscoverStep ==
  ASSUME IInv, Discover
  PROVE  IInv'
<1>1. /\ dstate' = dstate /\ estate' = estate /\ toDriver' = toDriver /\ toEngineer' = toEngineer
      /\ client' = client /\ sent' = sent /\ read' = read /\ stalls' = stalls
      /\ estate = "new" /\ UNCHANGED parties
  BY DEF Discover
<1>2. /\ Parties' /\ driver' = driver /\ channels' = channels
      /\ Wish(Len(channels))' = Wish(Len(channels)) /\ Granted' = Granted /\ Answered' = Answered
  BY <1>1, SameParties, Zenon DEF IInv
<1>3. Histories' /\ FlowToDriver' /\ FlowToEngineer'
  BY <1>1, Zenon DEF IInv, Histories, FlowToDriver, FlowToEngineer
<1>4. Stages'
  BY <1>1, Zenon DEF IInv, Stages
<1>5. WelcomeSaid' /\ WishSaid' /\ Agreed'
  BY <1>1, <1>2, Zenon DEF IInv, WelcomeSaid, WishSaid, Agreed
<1>6. learned' = [Announcement EXCEPT !.driver = Upto(@, 32)]
  <2> DEFINE found == DecodeDiscovery(IF driver = "streamer" THEN EncodeDiscovery(Announcement)
                                      ELSE BuildDiscovery(Announcement))
             result == [Announcement EXCEPT !.driver = Upto(@, 32)]
  <2>1. found = Gives(result)
    BY DiscoveryFacts, Zenon
  <2>2. learned' = IF found = Raises THEN learned ELSE found[1]
    BY Zenon DEF Discover
  <2> HIDE DEF found, result
  <2>3. QED
    BY <2>1, <2>2, GivesFacts, Zenon DEF result
<1>7. Learned'
  <2>1. estate' = "new"
    BY <1>1
  <2>2. estate' \notin {"subscribed", "up"}
    BY <2>1
  <2>3. QED
    BY <1>6, <2>2, Zenon DEF Learned
<1>8. Met'
  <2>1. estate' # "up"
    BY <1>1
  <2>2. QED
    BY <2>1, Zenon DEF Met
<1>9. QED
  BY <1>2, <1>3, <1>4, <1>5, <1>7, <1>8, Zenon DEF IInv

-----------------------------------------------------------------------------
(* The handshake.                                                          *)

(* A sequence that grows keeps what it holds.                              *)
LEMMA Kept ==
  ASSUME NEW S, NEW q \in Seq(S), NEW x \in S
  PROVE  \A i \in 1 .. Len(q) : Append(q, x)[i] = q[i]
BY AppendFacts

LEMMA LastKept ==
  ASSUME NEW S, NEW q \in Seq(S), NEW x \in S
  PROVE  Append(q, x)[Len(q) + 1] = x
BY AppendFacts

LEMMA NothingArrives ==
  ASSUME NEW side
  PROVE  Framing(side, <<>>) # "message"
<1>1. <<>> \in Seq(Cell) /\ Len(<<>>) < 7
  OBVIOUS
<1>2. QED
  BY <1>1, NoMessage, Zenon

LEMMA ConnectStep ==
  ASSUME IInv, EngineerConnects
  PROVE  IInv'
<1> DEFINE b == EncodeHello(Text("engineer", 8))
           m == Message(b)
<1>1. /\ dstate' = dstate /\ estate = "new" /\ estate' = "welcome" /\ dstate = "hello"
      /\ toDriver' = b /\ toEngineer' = toEngineer /\ client' = client /\ learned' = learned
      /\ sent' = [sent EXCEPT !.engineer = <<Message(toDriver')>>] /\ read' = read /\ stalls' = stalls
      /\ UNCHANGED parties
  BY DEF EngineerConnects
<1>2. Sayable(b) /\ m \in Msg /\ Fits(m) /\ b = Enc(m)
  BY HelloSayable DEF Sayable
<1>3. /\ sent \in [driver : Seq(Msg), engineer : Seq(Msg)] /\ read \in [driver : Seq(Msg), engineer : Seq(Msg)]
      /\ stalls \in Nat /\ stalls <= MaxStalls
      /\ toDriver = <<>> /\ sent.engineer = <<>> /\ read.engineer = <<>>
      /\ read.driver = <<>> /\ sent.driver = <<>>
  BY <1>1, Zenon DEF IInv, Histories, Stages
<1> HIDE DEF b, m
<1>4. <<m>> \in Seq(Msg) /\ Len(<<m>>) = 1 /\ Append(<<>>, m) = <<m>>
  BY <1>2
<1>5. /\ sent'.driver = sent.driver /\ sent'.engineer = <<m>>
      /\ sent' \in [driver : Seq(Msg), engineer : Seq(Msg)]
  <2>1. sent' = [sent EXCEPT !.engineer = <<m>>]
    BY <1>1 DEF m
  <2>2. QED
    BY <1>3, <1>4, <2>1, Sides, Zenon
<1>6. /\ Parties' /\ driver' = driver /\ channels' = channels
      /\ Granted' = Granted /\ Answered' = Answered
  BY <1>1, SameParties, Zenon DEF IInv
<1>7. Histories'
  BY <1>1, <1>3, <1>5 DEF IInv, Histories, EngineerStates
<1>8. FlowToDriver'
  <2> DEFINE sh == Shakes(dstate)
             lo == Serves(dstate)
  <2>1. Flow(toDriver, sent.engineer, read.driver, sh, lo, stalls)
    BY Zenon DEF IInv, FlowToDriver
  <2>2. Answer(b, sent.engineer)
    <3>1. ~(Len(sent.engineer) >= 2)
      BY <1>3
    <3>2. QED
      BY <1>2, <3>1, Zenon DEF Answer
  <2> HIDE DEF sh, lo
  <2>3. Flow(toDriver \o Enc(Message(b)), Append(sent.engineer, Message(b)), read.driver, sh, lo, stalls)
    BY <2>1, <2>2, FlowAnswer
  <2>4. <<>> \o Enc(m) = b
    <3>1. b \in Seq(Cell)
      BY <1>2, EncType
    <3>2. QED
      BY <1>2, <3>1, ConcatAgain
  <2>5. QED
    BY <1>1, <1>3, <1>4, <1>5, <2>3, <2>4, Zenon DEF FlowToDriver, sh, lo, m
<1>9. FlowToEngineer'
  <2> DEFINE g == Greets(estate)
             g2 == Greets(estate')
             u == Listens(estate)
             u2 == Listens(estate')
  <2>1. Flow(toEngineer, sent.driver, read.engineer, g, u, stalls)
    BY Zenon DEF IInv, FlowToEngineer
  <2>2. g /\ ~u2
    BY <1>1 DEF Greets, Listens
  <2> HIDE DEF g, g2, u, u2
  <2>3. Flow(toEngineer, sent.driver, read.engineer, g2, u2, stalls)
    BY <2>1, <2>2, FlowWeaker, Zenon
  <2>4. QED
    BY <1>1, <1>5, <2>3, Zenon DEF FlowToEngineer, g2, u2
<1>10. Stages'
  BY <1>1, <1>3, <1>4, <1>5 DEF Stages, Driving, Engaged
<1>11. WelcomeSaid' /\ Agreed'
  BY <1>1, <1>5, <1>6, Zenon DEF IInv, WelcomeSaid, Agreed
<1>12. WishSaid' /\ Learned' /\ Met'
  <2>1. ~(Len(sent'.engineer) >= 2) /\ estate' \notin {"subscribed", "up"} /\ estate' # "new" /\ estate' # "up"
    BY <1>1, <1>4, <1>5
  <2>2. QED
    BY <2>1, Zenon DEF WishSaid, Learned, Met
<1>13. QED
  BY <1>6, <1>7, <1>8, <1>9, <1>10, <1>11, <1>12, Zenon DEF IInv

(* What stays when a driver takes a message.                               *)
LEMMA DriverTook ==
  ASSUME IInv, Framing("driver", toDriver) = "message",
         NEW messages, DriverTakes(messages), Answers(messages, sent.driver),
         Shakes(dstate) \/ Serves(dstate), dstate' \in DriverStates,
         Shakes(dstate') => Shakes(dstate), Serves(dstate') => Serves(dstate) \/ Len(read.driver) >= 1,
         estate' = estate, learned' = learned, stalls' = stalls, UNCHANGED parties
  PROVE  /\ Parties' /\ Histories' /\ FlowToDriver' /\ FlowToEngineer' /\ WishSaid' /\ Learned' /\ Met'
         /\ FirstOf(toDriver) \in Msg
         /\ Len(read.driver) \in Nat /\ Len(sent.driver) \in Nat
         /\ Len(read'.driver) = Len(read.driver) + 1 /\ read'.engineer = read.engineer
         /\ sent'.engineer = sent.engineer
         /\ Len(sent'.driver) >= Len(sent.driver)
         /\ \A i \in 1 .. Len(sent.driver) : sent'.driver[i] = sent.driver[i]
         /\ messages = <<>> => sent'.driver = sent.driver
         /\ \A b : messages = <<b>> => /\ Len(sent'.driver) = Len(sent.driver) + 1
                                       /\ sent'.driver[Len(sent.driver) + 1] = Message(b)
         /\ estate # "new"
         /\ Shakes(dstate) => /\ Len(read.driver) + 1 \in 1 .. Len(sent.engineer)
                              /\ FirstOf(toDriver) = sent.engineer[Len(read.driver) + 1]
<1>1. /\ Parties /\ Histories /\ FlowToDriver /\ FlowToEngineer /\ Stages /\ WishSaid /\ Learned /\ Met
  BY Zenon DEF IInv
<1>3. /\ sent \in [driver : Seq(Msg), engineer : Seq(Msg)] /\ read \in [driver : Seq(Msg), engineer : Seq(Msg)]
      /\ sent.driver \in Seq(Msg) /\ read.driver \in Seq(Msg)
      /\ stalls \in Nat /\ stalls <= MaxStalls /\ estate \in EngineerStates
  BY <1>1 DEF Histories
<1>4. toDriver \in Seq(Cell) /\ toEngineer \in Seq(Cell)
  BY <1>1, Zenon DEF FlowToDriver, FlowToEngineer, Flow
<1>5. /\ FlowToDriver' /\ FlowToEngineer'
      /\ Shakes(dstate) => /\ Len(read.driver) + 1 \in 1 .. Len(sent.engineer)
                           /\ FirstOf(toDriver) = sent.engineer[Len(read.driver) + 1]
  BY <1>1, DriverTakesFlows, Zenon
<1>6. /\ FirstOf(toDriver) \in Msg
      /\ Len(read'.driver) = Len(read.driver) + 1 /\ read'.engineer = read.engineer
      /\ read' \in [driver : Seq(Msg), engineer : Seq(Msg)]
      /\ sent'.engineer = sent.engineer
      /\ messages = <<>> => sent' = sent
      /\ \A b : messages = <<b>> /\ Sayable(b) =>
           /\ sent'.driver = Append(sent.driver, Message(b))
           /\ sent' \in [driver : Seq(Msg), engineer : Seq(Msg)]
  BY <1>1, <1>4, DriverTakesFacts, Zenon
<1>7. Len(read.driver) \in Nat /\ Len(sent.driver) \in Nat
  BY <1>3
<1>8. ASSUME NEW b, messages = <<b>>, Sayable(b)
      PROVE  /\ sent' \in [driver : Seq(Msg), engineer : Seq(Msg)]
             /\ Len(sent'.driver) = Len(sent.driver) + 1
             /\ sent'.driver[Len(sent.driver) + 1] = Message(b)
             /\ \A i \in 1 .. Len(sent.driver) : sent'.driver[i] = sent.driver[i]
  <2>1. sent'.driver = Append(sent.driver, Message(b)) /\ sent' \in [driver : Seq(Msg), engineer : Seq(Msg)]
    BY <1>6, <1>8, Zenon
  <2>2. Message(b) \in Msg
    BY <1>8 DEF Sayable
  <2>3. /\ \A i \in 1 .. Len(sent.driver) : Append(sent.driver, Message(b))[i] = sent.driver[i]
        /\ Append(sent.driver, Message(b))[Len(sent.driver) + 1] = Message(b)
        /\ Len(Append(sent.driver, Message(b))) = Len(sent.driver) + 1
    <3>1. \A i \in 1 .. Len(sent.driver) : Append(sent.driver, Message(b))[i] = sent.driver[i]
      BY <1>3, <2>2, Kept
    <3>2. Append(sent.driver, Message(b))[Len(sent.driver) + 1] = Message(b)
      BY <1>3, <2>2, LastKept, Zenon
    <3>3. Len(Append(sent.driver, Message(b))) = Len(sent.driver) + 1
      BY <1>3, <2>2, Longer, Zenon
    <3>4. QED
      BY <3>1, <3>2, <3>3, Zenon
  <2>4. QED
    BY <2>1, <2>3, Zenon
<1>9. messages = <<>> \/ \E b : messages = <<b>> /\ Sayable(b)
  BY Zenon DEF Answers, Answer
<1>10. \A b : messages = <<b>> => messages # <<>> /\ Sayable(b)
  <2>1. ASSUME NEW b, messages = <<b>> PROVE messages # <<>> /\ Sayable(b)
    <3>1. messages # <<>>
      BY <2>1
    <3>2. PICK c : messages = <<c>> /\ Sayable(c)
      BY <1>9, <3>1
    <3>3. c = b
      BY <2>1, <3>2
    <3>4. QED
      BY <3>1, <3>2, <3>3
  <2>2. QED
    BY <2>1, Zenon
<1>11. /\ sent' \in [driver : Seq(Msg), engineer : Seq(Msg)]
       /\ Len(sent'.driver) >= Len(sent.driver)
       /\ \A i \in 1 .. Len(sent.driver) : sent'.driver[i] = sent.driver[i]
       /\ messages = <<>> => sent'.driver = sent.driver
       /\ \A b : messages = <<b>> => /\ Len(sent'.driver) = Len(sent.driver) + 1
                                     /\ sent'.driver[Len(sent.driver) + 1] = Message(b)
  <2>1. CASE messages = <<>>
    <3>1. sent' = sent /\ \A b : messages # <<b>>
      BY <1>6, <2>1
    <3>2. QED
      BY <1>3, <1>7, <3>1
  <2>2. CASE messages # <<>>
    <3>1. PICK b : messages = <<b>> /\ Sayable(b)
      BY <1>9, <2>2
    <3>2. Len(sent'.driver) >= Len(sent.driver)
      BY <1>7, <1>8, <3>1
    <3>3. QED
      BY <1>8, <1>10, <2>2, <3>1, <3>2, Zenon
  <2>3. QED
    BY <2>1, <2>2
<1>12. Histories'
  BY <1>3, <1>6, <1>11, Zenon DEF Histories
<1>13. estate # "new"
  <2>1. toDriver # <<>>
    BY NothingArrives, Zenon
  <2>2. QED
    BY <1>1, <2>1, Zenon DEF Stages
<1>14. Parties' /\ WishSaid' /\ Learned' /\ Met'
  <2>1. /\ Parties' /\ driver' = driver /\ engineer' = engineer /\ channels' = channels
        /\ Wish(Len(channels))' = Wish(Len(channels))
    BY <1>1, SameParties, Zenon
  <2>2. QED
    BY <1>1, <1>6, <2>1, Zenon DEF WishSaid, Learned, Met
<1>15. QED
  BY <1>5, <1>6, <1>7, <1>11, <1>12, <1>13, <1>14, Zenon

(* What stays when an engineer takes a message.                            *)
LEMMA EngineerTook ==
  ASSUME IInv, Framing("engineer", toEngineer) = "message",
         NEW messages, EngineerTakes(messages), Answers(messages, sent.engineer),
         Greets(estate) \/ Listens(estate), estate' \in EngineerStates,
         Greets(estate') => Greets(estate), Listens(estate') => Listens(estate) \/ Len(read.engineer) >= 1,
         dstate' = dstate, client' = client, stalls' = stalls, UNCHANGED parties
  PROVE  /\ Parties' /\ Histories' /\ FlowToEngineer' /\ FlowToDriver' /\ WelcomeSaid' /\ Agreed'
         /\ FirstOf(toEngineer) \in Msg
         /\ Len(read.engineer) \in Nat /\ Len(sent.engineer) \in Nat
         /\ Len(read'.engineer) = Len(read.engineer) + 1 /\ read'.driver = read.driver
         /\ sent'.driver = sent.driver
         /\ Len(sent'.engineer) >= Len(sent.engineer)
         /\ Len(sent.engineer) >= 2 => sent'.engineer[2] = sent.engineer[2]
         /\ messages = <<>> => sent'.engineer = sent.engineer
         /\ \A b : messages = <<b>> => /\ Len(sent'.engineer) = Len(sent.engineer) + 1
                                       /\ sent'.engineer[Len(sent.engineer) + 1] = Message(b)
         /\ Greets(estate) => /\ Len(read.engineer) + 1 \in 1 .. Len(sent.driver)
                              /\ FirstOf(toEngineer) = sent.driver[Len(read.engineer) + 1]
<1>1. /\ Parties /\ Histories /\ FlowToEngineer /\ FlowToDriver /\ Stages /\ WelcomeSaid /\ Agreed
  BY Zenon DEF IInv
<1>3. /\ sent \in [driver : Seq(Msg), engineer : Seq(Msg)] /\ read \in [driver : Seq(Msg), engineer : Seq(Msg)]
      /\ sent.engineer \in Seq(Msg) /\ read.engineer \in Seq(Msg)
      /\ stalls \in Nat /\ stalls <= MaxStalls /\ dstate \in DriverStates
  BY <1>1 DEF Histories
<1>4. toEngineer \in Seq(Cell) /\ toDriver \in Seq(Cell)
  BY <1>1, Zenon DEF FlowToEngineer, FlowToDriver, Flow
<1>5. /\ FlowToEngineer' /\ FlowToDriver'
      /\ Greets(estate) => /\ Len(read.engineer) + 1 \in 1 .. Len(sent.driver)
                           /\ FirstOf(toEngineer) = sent.driver[Len(read.engineer) + 1]
  BY <1>1, EngineerTakesFlows, Zenon
<1>6. /\ FirstOf(toEngineer) \in Msg
      /\ Len(read'.engineer) = Len(read.engineer) + 1 /\ read'.driver = read.driver
      /\ read' \in [driver : Seq(Msg), engineer : Seq(Msg)]
      /\ sent'.driver = sent.driver
      /\ messages = <<>> => sent' = sent
      /\ \A b : messages = <<b>> /\ Sayable(b) =>
           /\ sent'.engineer = Append(sent.engineer, Message(b))
           /\ sent' \in [driver : Seq(Msg), engineer : Seq(Msg)]
  BY <1>1, <1>4, EngineerTakesFacts, Zenon
<1>7. Len(read.engineer) \in Nat /\ Len(sent.engineer) \in Nat
  BY <1>3
<1>8. ASSUME NEW b, messages = <<b>>, Sayable(b)
      PROVE  /\ sent' \in [driver : Seq(Msg), engineer : Seq(Msg)]
             /\ Len(sent'.engineer) = Len(sent.engineer) + 1
             /\ sent'.engineer[Len(sent.engineer) + 1] = Message(b)
             /\ Len(sent.engineer) >= 2 => sent'.engineer[2] = sent.engineer[2]
  <2>1. sent'.engineer = Append(sent.engineer, Message(b)) /\ sent' \in [driver : Seq(Msg), engineer : Seq(Msg)]
    BY <1>6, <1>8, Zenon
  <2>2. Message(b) \in Msg
    BY <1>8 DEF Sayable
  <2>3. /\ \A i \in 1 .. Len(sent.engineer) : Append(sent.engineer, Message(b))[i] = sent.engineer[i]
        /\ Append(sent.engineer, Message(b))[Len(sent.engineer) + 1] = Message(b)
        /\ Len(Append(sent.engineer, Message(b))) = Len(sent.engineer) + 1
    <3>1. \A i \in 1 .. Len(sent.engineer) : Append(sent.engineer, Message(b))[i] = sent.engineer[i]
      BY <1>3, <2>2, Kept
    <3>2. Append(sent.engineer, Message(b))[Len(sent.engineer) + 1] = Message(b)
      BY <1>3, <2>2, LastKept, Zenon
    <3>3. Len(Append(sent.engineer, Message(b))) = Len(sent.engineer) + 1
      BY <1>3, <2>2, Longer, Zenon
    <3>4. QED
      BY <3>1, <3>2, <3>3, Zenon
  <2>4. Len(sent.engineer) >= 2 => 2 \in 1 .. Len(sent.engineer)
    BY <1>7
  <2>5. ASSUME Len(sent.engineer) >= 2 PROVE sent'.engineer[2] = sent.engineer[2]
    <3>1. 2 \in 1 .. Len(sent.engineer)
      BY <2>4, <2>5
    <3>2. QED
      BY <2>1, <2>3, <3>1
  <2>6. /\ Len(sent'.engineer) = Len(sent.engineer) + 1
        /\ sent'.engineer[Len(sent.engineer) + 1] = Message(b)
    BY <2>1, <2>3, Zenon
  <2>7. QED
    BY <2>1, <2>5, <2>6, Zenon
<1>9. messages = <<>> \/ \E b : messages = <<b>> /\ Sayable(b)
  BY Zenon DEF Answers, Answer
<1>10. \A b : messages = <<b>> => messages # <<>> /\ Sayable(b)
  <2>1. ASSUME NEW b, messages = <<b>> PROVE messages # <<>> /\ Sayable(b)
    <3>1. messages # <<>>
      BY <2>1
    <3>2. PICK c : messages = <<c>> /\ Sayable(c)
      BY <1>9, <3>1
    <3>3. c = b
      BY <2>1, <3>2
    <3>4. QED
      BY <3>1, <3>2, <3>3
  <2>2. QED
    BY <2>1, Zenon
<1>11. /\ sent' \in [driver : Seq(Msg), engineer : Seq(Msg)]
       /\ Len(sent'.engineer) >= Len(sent.engineer)
       /\ Len(sent.engineer) >= 2 => sent'.engineer[2] = sent.engineer[2]
       /\ messages = <<>> => sent'.engineer = sent.engineer
       /\ \A b : messages = <<b>> => /\ Len(sent'.engineer) = Len(sent.engineer) + 1
                                     /\ sent'.engineer[Len(sent.engineer) + 1] = Message(b)
  <2>1. CASE messages = <<>>
    <3>1. sent' = sent /\ \A b : messages # <<b>>
      BY <1>6, <2>1
    <3>2. QED
      BY <1>3, <1>7, <3>1
  <2>2. CASE messages # <<>>
    <3>1. PICK b : messages = <<b>> /\ Sayable(b)
      BY <1>9, <2>2
    <3>2. Len(sent'.engineer) >= Len(sent.engineer)
      BY <1>7, <1>8, <3>1
    <3>3. QED
      BY <1>8, <1>10, <2>2, <3>1, <3>2, Zenon
  <2>3. QED
    BY <2>1, <2>2
<1>12. Histories'
  BY <1>3, <1>6, <1>11, Zenon DEF Histories
<1>14. Parties' /\ WelcomeSaid' /\ Agreed'
  <2>1. /\ Parties' /\ driver' = driver /\ channels' = channels
        /\ Granted' = Granted /\ Answered' = Answered
    BY <1>1, SameParties, Zenon
  <2>2. QED
    BY <1>1, <1>6, <2>1, Zenon DEF WelcomeSaid, Agreed
<1>15. QED
  BY <1>5, <1>6, <1>7, <1>11, <1>12, <1>14, Zenon

(* The first answer of a driver is its WELCOME.                            *)
LEMMA DriverGreetsStep ==
  ASSUME IInv, DriverGreets
  PROVE  IInv'
<1> DEFINE m == FirstOf(toDriver)
           ok == m.type = Hello /\ (driver = "streamer" => DecodeHello(m.payload) # Raises)
           b == EncodeWelcome(Session, channels)
           messages == IF ok THEN <<b>> ELSE <<>>
<1>1. /\ dstate = "hello" /\ Framing("driver", toDriver) = "message"
      /\ dstate' = IF ok THEN "subscribe" ELSE "closed"
      /\ DriverTakes(messages)
      /\ estate' = estate /\ client' = client /\ learned' = learned /\ stalls' = stalls
      /\ UNCHANGED parties
  BY DEF DriverGreets, Arrived
<1> HIDE DEF ok
<1>2. Sayable(b)
  BY WelcomeFacts, Zenon DEF IInv, Parties, Lists
<1>3. sent.driver = <<>> /\ read.driver = <<>>
  BY <1>1, Zenon DEF IInv, Stages
<1>4. Len(sent.driver) = 0 /\ ~(Len(sent.driver) >= 2)
  BY <1>3
<1>5. Answers(messages, sent.driver)
  BY <1>2, <1>4, Zenon DEF Answers, Answer
<1>6. /\ Shakes(dstate) /\ dstate' \in DriverStates
      /\ ~Serves(dstate') /\ dstate' \notin Driving /\ dstate' # "hello"
      /\ (dstate' = "subscribe" => ok)
  BY <1>1 DEF DriverStates, Shakes, Serves, Driving
<1> HIDE DEF messages
<1>7. /\ Parties' /\ Histories' /\ FlowToDriver' /\ FlowToEngineer' /\ WishSaid' /\ Learned' /\ Met'
      /\ Len(read'.driver) = Len(read.driver) + 1 /\ read'.engineer = read.engineer
      /\ sent'.engineer = sent.engineer
      /\ messages = <<>> => sent'.driver = sent.driver
      /\ \A c : messages = <<c>> => /\ Len(sent'.driver) = Len(sent.driver) + 1
                                    /\ sent'.driver[Len(sent.driver) + 1] = Message(c)
      /\ estate # "new"
  BY <1>1, <1>5, <1>6, DriverTook, Zenon
<1>8. Len(read'.driver) = 1
  BY <1>3, <1>7
<1>9. /\ ok => Len(sent'.driver) = 1 /\ sent'.driver[1] = Message(b)
      /\ ~ok => Len(sent'.driver) = 0
  <2>1. ASSUME ok PROVE Len(sent'.driver) = Len(sent.driver) + 1 /\ sent'.driver[Len(sent.driver) + 1] = Message(b)
    BY <1>7, <2>1, Zenon DEF messages
  <2>2. ASSUME ~ok PROVE sent'.driver = sent.driver
    BY <1>7, <2>2, Zenon DEF messages
  <2> HIDE DEF b
  <2>3. QED
    BY <1>4, <2>1, <2>2
<1> HIDE DEF b
<1>10. Stages'
  <2>1. /\ estate' # "new" /\ dstate' # "hello" /\ dstate' \notin Driving
        /\ (dstate' = "subscribe" => Len(read'.driver) = 1 /\ Len(sent'.driver) = 1)
    BY <1>1, <1>6, <1>7, <1>8, <1>9, Zenon
  <2>2. estate \notin Engaged
    <3>1. ~(Len(sent.driver) >= 2)
      BY <1>4
    <3>2. QED
      BY <3>1, Zenon DEF IInv, Stages
  <2>3. QED
    BY <1>1, <1>7, <2>1, <2>2, Zenon DEF IInv, Stages
<1>11. WelcomeSaid'
  <2>1. (EncodeWelcome(Session, channels))' = b
    BY <1>1, Zenon DEF parties, b
  <2>2. Len(sent'.driver) >= 1 => ok
    BY <1>9
  <2>3. QED
    BY <1>9, <2>1, <2>2, Zenon DEF WelcomeSaid
<1>12. Agreed'
  <2>1. ~(Len(sent'.driver) >= 2)
    <3>1. Len(sent'.driver) = 1 \/ Len(sent'.driver) = 0
      BY <1>9, Zenon
    <3>2. \A n : n = 1 \/ n = 0 => ~(n >= 2)
      OBVIOUS
    <3>3. QED
      BY <3>1, <3>2, Zenon
  <2>2. QED
    BY <2>1, Zenon DEF Agreed
<1>13. QED
  BY <1>7, <1>10, <1>11, <1>12, Zenon DEF IInv

(* The first message an engineer takes is that WELCOME, whole.             *)
LEMMA EngineerSubscribesStep ==
  ASSUME IInv, EngineerSubscribes
  PROVE  IInv'
<1> DEFINE m == FirstOf(toEngineer)
           w == DecodeWelcome(m.payload)
           ok == m.type = Welcome /\ w # Raises
           b == Wish(Len(w[1].channels))
           messages == IF ok THEN <<b>> ELSE <<>>
<1>1. /\ estate = "welcome" /\ Framing("engineer", toEngineer) = "message"
      /\ estate' = IF ok THEN "subscribed" ELSE "failed"
      /\ learned' = IF ok THEN w[1] ELSE learned
      /\ EngineerTakes(messages)
      /\ dstate' = dstate /\ client' = client /\ stalls' = stalls
      /\ UNCHANGED parties
  BY DEF EngineerSubscribes, Arrived
<1>2. /\ read.engineer = <<>> /\ Len(sent.engineer) = 1
      /\ Parties /\ Histories /\ FlowToDriver /\ FlowToEngineer /\ WelcomeSaid
  BY <1>1, Zenon DEF IInv, Stages
<1>3. Greets(estate) /\ stalls \in Nat /\ stalls <= MaxStalls
  BY <1>1, <1>2 DEF Greets, Histories
<1>4. Len(sent.driver) >= 1 /\ m = sent.driver[1]
  <2> DEFINE g == Greets(estate)
             u == Listens(estate)
  <2>1. g /\ Flow(toEngineer, sent.driver, read.engineer, g, u, stalls)
    BY <1>2, <1>3, Zenon DEF FlowToEngineer
  <2> HIDE DEF g, u, m
  <2>2. toEngineer \in Seq(Cell) /\ sent.driver \in Seq(Msg) /\ read.engineer \in Seq(Msg)
        /\ Aligned(toEngineer, sent.driver, read.engineer)
    BY <2>1, Zenon DEF Flow
  <2>3. Len(read.engineer) + 1 \in 1 .. Len(sent.driver)
        /\ FirstOf(toEngineer) = sent.driver[Len(read.engineer) + 1]
    BY <1>1, <2>2, AlignedTake, Zenon
  <2>4. Len(read.engineer) = 0 /\ Len(sent.driver) \in Nat
    BY <1>2, <2>2
  <2>5. QED
    BY <2>3, <2>4 DEF m
<1> DEFINE known == [session |-> Session, channels |-> channels]
<1>5. ok /\ w[1] = known /\ w[1].channels = channels
  <2>1. m = Message(EncodeWelcome(Session, channels))
    BY <1>2, <1>4, Zenon DEF WelcomeSaid
  <2>2. m.type = Welcome /\ w = Gives(known)
    BY <1>2, <2>1, WelcomeFacts, Zenon DEF Parties, Lists
  <2> HIDE DEF m, w
  <2>3. w # Raises /\ w[1] = known
    <3> HIDE DEF known
    <3>1. QED
      BY <2>2, GivesFacts, Zenon
  <2>4. known.channels = channels
    OBVIOUS
  <2> HIDE DEF known
  <2>5. QED
    BY <2>2, <2>3, <2>4, Zenon
<1>6. b = Wish(Len(channels)) /\ b = EncodeSubscribe(Wished, WishedPort) /\ Sayable(b)
  <2>1. b = Wish(Len(channels))
    BY <1>5, Zenon
  <2> HIDE DEF b
  <2>2. /\ Wished \in Seq(Uint16) /\ 4 + 2 * Len(Wished) \in Uint16 /\ WishedPort \in Uint16
        /\ Wish(Len(channels)) = EncodeSubscribe(Wished, WishedPort)
    BY <1>2, WishedFacts, Zenon
  <2>3. Sayable(EncodeSubscribe(Wished, WishedPort))
    BY <2>2, SubscribeFacts, Zenon
  <2>4. QED
    BY <2>1, <2>2, <2>3, Zenon
<1>7. estate' = "subscribed" /\ learned' = known /\ messages = <<b>>
  BY <1>1, <1>5, Zenon
<1> HIDE DEF m, w, ok, b, messages
<1>8. /\ ~(Len(sent.engineer) >= 2) /\ Answers(messages, sent.engineer)
  <2>1. ~(Len(sent.engineer) >= 2)
    BY <1>2
  <2>2. QED
    BY <1>6, <1>7, <2>1, Zenon DEF Answers, Answer
<1>9. Greets(estate) /\ estate' \in EngineerStates /\ ~Listens(estate') /\ estate' # "up"
  BY <1>1, <1>7 DEF EngineerStates, Greets, Listens
<1>10. /\ Parties' /\ Histories' /\ FlowToEngineer' /\ FlowToDriver' /\ WelcomeSaid' /\ Agreed'
       /\ Len(read'.engineer) = Len(read.engineer) + 1 /\ read'.driver = read.driver
       /\ sent'.driver = sent.driver
       /\ \A c : messages = <<c>> => /\ Len(sent'.engineer) = Len(sent.engineer) + 1
                                     /\ sent'.engineer[Len(sent.engineer) + 1] = Message(c)
  BY <1>1, <1>8, <1>9, EngineerTook, Zenon
<1>11. Len(read'.engineer) = 1 /\ Len(sent'.engineer) = 2 /\ sent'.engineer[2] = Message(b)
  <2>1. /\ Len(sent'.engineer) = Len(sent.engineer) + 1
        /\ sent'.engineer[Len(sent.engineer) + 1] = Message(b)
    BY <1>7, <1>10, Zenon
  <2>2. QED
    BY <1>2, <1>10, <2>1
<1>12. Stages'
  <2>1. estate' \notin {"new", "welcome"} /\ estate' \notin Engaged
    BY <1>7 DEF Engaged
  <2>2. QED
    BY <1>1, <1>10, <1>11, <2>1, Zenon DEF IInv, Stages
<1>13. WishSaid'
  <2>1. Wish(Len(channels))' = Wish(Len(channels))
    BY <1>1, <1>2, SameParties, Zenon
  <2>2. QED
    BY <1>6, <1>11, <2>1, Zenon DEF WishSaid
<1>14. Learned'
  <2>1. channels' = channels /\ estate' # "new"
    BY <1>1, <1>7 DEF parties
  <2>2. QED
    BY <1>7, <2>1, Zenon DEF Learned
<1>15. Met'
  BY <1>9, Zenon DEF Met
<1>16. QED
  BY <1>10, <1>12, <1>13, <1>14, <1>15, Zenon DEF IInv

(* SUBSCRIBED ends the handshake: by then the driver has answered twice.   *)
LEMMA EngineerSubscribedStep ==
  ASSUME IInv, EngineerSubscribed
  PROVE  IInv'
<1> DEFINE m == FirstOf(toEngineer)
           ok == m.type = Subscribed
                 /\ (engineer = "StreamClient" => DecodeSubscribed(m.payload) # Raises)
<1>1. /\ estate = "subscribed" /\ Framing("engineer", toEngineer) = "message"
      /\ estate' = IF ok THEN "up" ELSE "failed"
      /\ EngineerTakes(<<>>)
      /\ dstate' = dstate /\ client' = client /\ learned' = learned /\ stalls' = stalls
      /\ UNCHANGED parties
  BY DEF EngineerSubscribed, Arrived
<1> HIDE DEF ok, m
<1>2. Len(read.engineer) = 1 /\ Len(sent.engineer) = 2 /\ WishSaid /\ Learned
  BY <1>1, Zenon DEF IInv, Stages
<1>3. Answers(<<>>, sent.engineer)
  BY Zenon DEF Answers
<1>4. /\ estate' \in {"up", "failed"} /\ estate' \in EngineerStates
      /\ Greets(estate) /\ Len(read.engineer) >= 1
  BY <1>1, <1>2 DEF EngineerStates, Greets
<1>5. /\ Parties' /\ Histories' /\ FlowToEngineer' /\ FlowToDriver' /\ WelcomeSaid' /\ Agreed'
      /\ read'.driver = read.driver /\ sent'.driver = sent.driver /\ sent'.engineer = sent.engineer
      /\ Len(read.engineer) + 1 \in 1 .. Len(sent.driver)
      /\ m = sent.driver[Len(read.engineer) + 1]
  BY <1>1, <1>3, <1>4, EngineerTook, Zenon DEF m
<1>6. Len(sent.driver) >= 2 /\ Len(sent'.engineer) = 2 /\ Len(sent'.engineer) >= 2
  <2>1. Histories
    BY Zenon DEF IInv
  <2>2. Len(sent.driver) \in Nat
    BY <2>1 DEF Histories
  <2>3. Len(sent.driver) >= 2
    <3>1. \A k, n \in Nat : k = 1 /\ k + 1 \in 1 .. n => n >= 2
      OBVIOUS
    <3>2. 1 \in Nat /\ Len(read.engineer) + 1 \in 1 .. Len(sent.driver) /\ Len(read.engineer) = 1
      BY <1>2, <1>5, Zenon
    <3>3. QED
      BY <2>2, <3>1, <3>2, Zenon
  <2>4. Len(sent'.engineer) = 2
    BY <1>2, <1>5, Zenon
  <2>5. Len(sent'.engineer) >= 2
    BY <2>4
  <2>6. QED
    BY <2>3, <2>4, <2>5
<1>7. Stages'
  <2>1. estate' \notin {"new", "welcome", "subscribed"}
    BY <1>4
  <2>2. QED
    BY <1>1, <1>5, <1>6, <2>1, Zenon DEF IInv, Stages
<1>8. WishSaid' /\ Learned'
  <2>1. Wish(Len(channels))' = Wish(Len(channels)) /\ channels' = channels
    BY <1>1, SameParties, Zenon DEF IInv
  <2>2. estate' # "new" /\ estate \in {"subscribed", "up"}
    BY <1>1, <1>4
  <2>3. QED
    BY <1>1, <1>2, <1>5, <2>1, <2>2, Zenon DEF WishSaid, Learned
<1>9. Met'
  <2>1. /\ driver' = driver /\ engineer' = engineer
        /\ engineer \in {"StreamClient", "StreamingClient"} /\ WishedPort \in Nat
    <3>1. driver' = driver /\ engineer' = engineer
      BY <1>1, SameParties, Zenon DEF IInv
    <3>2. WishedPort \in Nat
      BY WishedFacts, Uint16Facts, Zenon DEF IInv
    <3>3. QED
      BY <3>1, <3>2, Zenon DEF IInv, Parties
  <2>2. ASSUME driver = "server", engineer = "StreamClient" PROVE ~ok
    <3>1. m = Answered
      <4>1. sent.driver[2] = Answered
        BY <1>6, <2>2, Zenon DEF IInv, Agreed
      <4>2. Len(read.engineer) + 1 = 2
        BY <1>2
      <4>3. QED
        BY <1>5, <4>1, <4>2
    <3>2. DecodeSubscribed(m.payload) = Raises
      <4>1. Mask(WishedPort) \in 1 .. AllChannelsMask
        BY <2>1, MaskNumber, Zenon
      <4>2. DecodeSubscribed(Answered.payload) = Raises
        BY <4>1, MaskRefused, Zenon DEF Answered
      <4>3. QED
        BY <3>1, <4>2, Zenon
    <3>3. QED
      BY <2>2, <3>2, Zenon DEF ok
  <2>3. QED
    BY <1>1, <2>1, <2>2 DEF Met
<1>10. QED
  BY <1>5, <1>7, <1>8, <1>9, Zenon DEF IInv

(* The ids a driver of streamer.py sends to.                               *)
LEMMA SubscriptionSayable ==
  ASSUME Parties
  PROVE  Sayable(EncodeSubscribed(SetToSeq(Subscription(ToSet(Wished)))))
<1>1. Wished \in Seq(Uint16) /\ 4 + 2 * Len(Wished) \in Uint16
  BY WishedFacts, Zenon
<1>2. channels \in Seq(Info) /\ WelcomeHdrSize + Len(channels) * ChannelEntrySize \in Uint16
  BY Zenon DEF Parties, Lists
<1>3. CASE ToSet(Wished) # {}
  <2>1. PICK n \in Nat : n = Len(Wished)
    BY <1>1
  <2>2. Wished \in [1 .. n -> Uint16]
    BY <1>1, <2>1
  <2>3. ToSet(Wished) = {Wished[i] : i \in 1 .. n}
    <3>1. DOMAIN Wished = 1 .. n
      BY <1>1, <2>1
    <3>2. QED
      BY <3>1, Zenon DEF ToSet
  <2>4. 2 + 2 * n < 256 * 256
    <3>1. 4 + 2 * n < 256 * 256
      BY <1>1, <2>1, Uint16Facts, Zenon
    <3>2. QED
      BY <3>1
  <2>5. Subscription(ToSet(Wished)) = ToSet(Wished)
    BY <1>3, Zenon DEF Subscription
  <2>6. QED
    BY <2>2, <2>3, <2>4, <2>5, ManyIds, Zenon
<1>4. CASE ToSet(Wished) = {}
  <2>1. PICK n \in Nat : n = Len(channels)
    BY <1>2
  <2> DEFINE f == [i \in 1 .. n |-> channels[i].id]
  <2>2. \A i \in 1 .. n : channels[i] \in Info /\ channels[i].id \in Uint16
    <3>1. \A i \in 1 .. n : channels[i] \in Info
      BY <1>2, <2>1
    <3>2. QED
      BY <3>1 DEF Info
  <2>3. f \in [1 .. n -> Uint16]
    BY <2>2, Zenon
  <2>4. AllIds = {f[i] : i \in 1 .. n}
    <3>1. DOMAIN channels = 1 .. n
      BY <1>2, <2>1
    <3>2. QED
      BY <3>1, Zenon DEF AllIds
  <2>5. 2 + 2 * n < 256 * 256
    <3>1. 6 + n * 67 \in Uint16
      BY <1>2, <2>1 DEF WelcomeHdrSize, ChannelEntrySize
    <3>2. 6 + n * 67 < 256 * 256
      BY <3>1, Uint16Facts, Zenon
    <3>3. QED
      BY <3>2
  <2>6. Subscription(ToSet(Wished)) = AllIds
    BY <1>4, Zenon DEF Subscription
  <2> HIDE DEF f
  <2>7. QED
    BY <2>3, <2>4, <2>5, <2>6, ManyIds, Zenon
<1>5. QED
  BY <1>3, <1>4

(* The second message a driver takes is the SUBSCRIBE, whole.              *)
LEMMA DriverSubscribesStep ==
  ASSUME IInv, DriverSubscribes
  PROVE  IInv'
<1> DEFINE m == FirstOf(toDriver)
           wish == DecodeSubscribe(m.payload)
           fails == driver = "streamer" /\ (m.type # Subscribe \/ wish = Raises)
           mask == IF m.type = Subscribe /\ m.payload # <<>> THEN MaskIn(m.payload)
                   ELSE AllChannelsMask
           ids == IF driver = "streamer" THEN Subscription(ToSet(wish[1].ids)) ELSE Bits(mask)
           view == [ids |-> ids, port |-> IF driver = "streamer" THEN wish[1].port ELSE TelemetryPort]
           b == IF driver = "streamer" THEN EncodeSubscribed(SetToSeq(ids)) ELSE BuildSubscribed(mask)
<1>1. /\ dstate = "subscribe" /\ Framing("driver", toDriver) = "message"
      /\ IF fails THEN dstate' = "closed" /\ DriverTakes(<<>>) /\ UNCHANGED client
         ELSE dstate' = "loop" /\ client' = view /\ DriverTakes(<<b>>)
      /\ estate' = estate /\ learned' = learned /\ stalls' = stalls
      /\ UNCHANGED parties
  BY DEF DriverSubscribes, Arrived
<1>2. /\ Len(read.driver) = 1 /\ Len(sent.driver) = 1
      /\ Parties /\ Histories /\ FlowToDriver /\ FlowToEngineer /\ WishSaid
  BY <1>1, Zenon DEF IInv, Stages
<1>3. Shakes(dstate) /\ stalls \in Nat /\ stalls <= MaxStalls
  BY <1>1, <1>2 DEF Shakes, Histories
<1>4. Len(sent.engineer) >= 2 /\ m = sent.engineer[2] /\ m \in Msg
  <2> DEFINE g == Shakes(dstate)
             u == Serves(dstate)
  <2>1. g /\ Flow(toDriver, sent.engineer, read.driver, g, u, stalls)
    BY <1>2, <1>3, Zenon DEF FlowToDriver
  <2> HIDE DEF g, u, m
  <2>2. toDriver \in Seq(Cell) /\ sent.engineer \in Seq(Msg) /\ read.driver \in Seq(Msg)
        /\ Aligned(toDriver, sent.engineer, read.driver)
    BY <2>1, Zenon DEF Flow
  <2>3. Len(read.driver) + 1 \in 1 .. Len(sent.engineer)
        /\ FirstOf(toDriver) = sent.engineer[Len(read.driver) + 1]
    BY <1>1, <2>2, AlignedTake, Zenon
  <2>4. Len(sent.engineer) \in Nat
    BY <2>2
  <2>5. Len(sent.engineer) >= 2 /\ m = sent.engineer[2]
    BY <1>2, <2>3, <2>4 DEF m
  <2>6. sent.engineer[2] \in Msg
    BY <2>2, <2>4, <2>5
  <2>7. QED
    BY <2>5, <2>6, Zenon
<1> DEFINE asked == [port |-> WishedPort, ids |-> Wished]
<1>5. /\ m.type = Subscribe /\ wish # Raises /\ wish[1] = asked
      /\ m.payload # <<>> /\ MaskIn(m.payload) = Mask(WishedPort)
  <2>1. m = Message(Wish(Len(channels)))
    BY <1>2, <1>4, Zenon DEF WishSaid
  <2>2. /\ Wished \in Seq(Uint16) /\ 4 + 2 * Len(Wished) \in Uint16 /\ WishedPort \in Uint16
        /\ Wish(Len(channels)) = EncodeSubscribe(Wished, WishedPort)
    BY <1>2, WishedFacts, Zenon
  <2>3. m = Message(EncodeSubscribe(Wished, WishedPort))
    BY <2>1, <2>2, Zenon
  <2>4. /\ m.type = Subscribe /\ wish = Gives(asked)
        /\ m.payload # <<>> /\ MaskIn(m.payload) = Mask(WishedPort)
    BY <2>2, <2>3, SubscribeFacts, Zenon
  <2> HIDE DEF m, wish, asked
  <2>5. QED
    BY <2>4, GivesFacts, Zenon
<1>6. wish[1].ids = Wished /\ wish[1].port = WishedPort
  <2>1. asked.ids = Wished /\ asked.port = WishedPort
    OBVIOUS
  <2> HIDE DEF m, wish, asked
  <2>2. QED
    BY <1>5, <2>1, Zenon
<1>7. ~fails
  BY <1>5, Zenon
<1>8. mask = Mask(WishedPort) /\ mask \in Nat
  <2>1. mask = Mask(WishedPort)
    BY <1>5, Zenon
  <2>2. WishedPort \in Nat
    BY <1>2, WishedFacts, Uint16Facts, Zenon
  <2>3. Mask(WishedPort) \in 1 .. AllChannelsMask
    BY <2>2, MaskNumber, Zenon
  <2> HIDE DEF mask
  <2>4. QED
    BY <2>1, <2>3
<1>9. Sayable(b)
  <2>1. CASE driver = "streamer"
    <3>1. ids = Subscription(ToSet(Wished))
      BY <1>6, <2>1, Zenon
    <3>2. b = EncodeSubscribed(SetToSeq(ids))
      BY <2>1, Zenon
    <3> HIDE DEF ids, b
    <3>3. QED
      BY <1>2, <3>1, <3>2, SubscriptionSayable, Zenon
  <2>2. CASE driver # "streamer"
    <3>1. b = BuildSubscribed(mask)
      BY <2>2, Zenon
    <3> HIDE DEF mask, b
    <3>2. QED
      BY <1>8, <3>1, MaskSayable, Zenon
  <2>3. QED
    BY <2>1, <2>2, Zenon
<1>10. dstate' = "loop" /\ client' = view /\ DriverTakes(<<b>>)
  BY <1>1, <1>7, Zenon
<1>11. view = Granted /\ (driver = "server" => Message(b) = Answered)
  <2>1. CASE driver = "streamer"
    <3>1. driver # "server"
      BY <2>1
    <3>2. ids = Subscription(ToSet(Wished))
      BY <1>6, <2>1, Zenon
    <3>3. view = [ids |-> ids, port |-> WishedPort]
      BY <1>6, <2>1, Zenon
    <3> HIDE DEF ids, view
    <3>4. QED
      BY <2>1, <3>1, <3>2, <3>3, Zenon DEF Granted
  <2>2. CASE driver # "streamer"
    <3>1. ids = Bits(Mask(WishedPort)) /\ b = BuildSubscribed(Mask(WishedPort))
      BY <1>8, <2>2, Zenon
    <3>2. view = [ids |-> ids, port |-> TelemetryPort]
      BY <2>2, Zenon
    <3> HIDE DEF ids, view, b
    <3>3. QED
      BY <2>2, <3>1, <3>2, Zenon DEF Granted, Answered
  <2>3. QED
    BY <2>1, <2>2, Zenon
<1> HIDE DEF m, wish, fails, mask, ids, view, b, asked
<1>12. Answers(<<b>>, sent.driver)
  <2>1. ~(Len(sent.driver) >= 2)
    BY <1>2
  <2>2. QED
    BY <1>9, <2>1, Zenon DEF Answers, Answer
<1>13. Shakes(dstate) /\ dstate' \in DriverStates /\ ~Shakes(dstate') /\ Len(read.driver) >= 1
  BY <1>1, <1>2, <1>10 DEF DriverStates, Shakes
<1>14. /\ Parties' /\ Histories' /\ FlowToDriver' /\ FlowToEngineer' /\ WishSaid' /\ Learned' /\ Met'
       /\ read'.engineer = read.engineer /\ sent'.engineer = sent.engineer
       /\ \A i \in 1 .. Len(sent.driver) : sent'.driver[i] = sent.driver[i]
       /\ Len(sent'.driver) = Len(sent.driver) + 1
       /\ sent'.driver[Len(sent.driver) + 1] = Message(b)
       /\ estate # "new"
  BY <1>1, <1>10, <1>12, <1>13, DriverTook, Zenon
<1>15. /\ Len(sent'.driver) = 2 /\ Len(sent'.driver) >= 2 /\ Len(sent.driver) >= 1
       /\ sent'.driver[1] = sent.driver[1] /\ sent'.driver[2] = Message(b)
  <2>1. 1 \in 1 .. Len(sent.driver) /\ Len(sent.driver) + 1 = 2 /\ 2 >= 2 /\ Len(sent.driver) >= 1
    BY <1>2
  <2>2. QED
    BY <1>14, <2>1, Zenon
<1>16. Stages'
  <2>1. dstate' \notin {"hello", "subscribe"}
    BY <1>10
  <2>2. QED
    BY <1>1, <1>14, <1>15, <2>1, Zenon DEF IInv, Stages
<1>17. WelcomeSaid'
  <2>1. channels' = channels
    BY <1>1 DEF parties
  <2>2. QED
    BY <1>14, <1>15, <2>1, Zenon DEF IInv, WelcomeSaid
<1>18. Agreed'
  <2>1. driver' = driver /\ Granted' = Granted /\ Answered' = Answered
    BY <1>1, <1>2, SameParties, Zenon
  <2>2. QED
    BY <1>10, <1>11, <1>15, <2>1, Zenon DEF Agreed
<1>19. QED
  BY <1>14, <1>16, <1>17, <1>18, Zenon DEF IInv

-----------------------------------------------------------------------------
(* After the handshake.                                                    *)

(* One more message is said.                                               *)
LEMMA FlowSaid ==
  ASSUME NEW w, NEW snt, NEW rd, NEW shaking, NEW looping, NEW s,
         Flow(w, snt, rd, shaking, looping, s), NEW b, Said(b)
  PROVE  Flow(w \o b, Append(snt, Message(b)), rd, shaking, looping, s)
<1>1. Answer(b, snt) /\ b = Enc(Message(b))
  BY Zenon DEF Said, Answer, Sayable
<1>2. Flow(w \o Enc(Message(b)), Append(snt, Message(b)), rd, shaking, looping, s)
  BY <1>1, FlowAnswer
<1>3. QED
  BY <1>1, <1>2, Zenon

(* Whatever is asked, what is answered is a PONG, of eight bytes.          *)
LEMMA ReplyFits ==
  ASSUME NEW m \in Msg, NEW threads, NEW snt
  PROVE  Answers(Reply(m, threads), snt)
<1>1. ASSUME NEW x \in Stands PROVE Answers(<<EncodePong(x)>>, snt)
  <2>1. Sayable(EncodePong(x)) /\ Plain(Message(EncodePong(x)))
    BY PingSaid, Zenon DEF Said
  <2>2. QED
    BY <2>1, Zenon DEF Answers, Answer
<1>2. Answers(<<>>, snt)
  BY Zenon DEF Answers
<1> DEFINE x == AsScalar(At(m.payload, 0, 8))
           given == DecodePingPong(m.payload)
<1>3. x \in Stands
  <2>1. m.payload \in Seq(Cell)
    BY DEF Msg
  <2>2. At(m.payload, 0, 8) \in Seq(Cell)
    BY <2>1, AtFacts
  <2>3. QED
    BY <2>2, ScalarType, Zenon
<1>4. given = Raises \/ given[1] = x
  <2> HIDE DEF x
  <2>1. given = Raises \/ given = Gives(x)
    BY Zenon DEF DecodePingPong, x
  <2> HIDE DEF given
  <2>2. QED
    BY <2>1, GivesFacts, Zenon
<1>5. "zero" \in Stands
  BY DEF Stands
<1>6. \/ Reply(m, threads) = <<>>
      \/ given # Raises /\ Reply(m, threads) = <<EncodePong(given[1])>>
      \/ Reply(m, threads) = <<EncodePong("zero")>>
  BY Zenon DEF Reply
<1> HIDE DEF x, given
<1>7. QED
  BY <1>1, <1>2, <1>3, <1>4, <1>5, <1>6, Zenon

LEMMA DriverReadsStep ==
  ASSUME IInv, DriverReads
  PROVE  IInv'
<1> DEFINE m == FirstOf(toDriver)
           threads == driver = "streamer"
           messages == Reply(m, threads)
           ends == Ends(m, threads)
<1>1. /\ dstate \in {"loop", "leaving"} /\ Framing("driver", toDriver) = "message"
      /\ DriverTakes(messages)
      /\ dstate' = IF dstate = "leaving" \/ ends THEN "over" ELSE dstate
      /\ estate' = estate /\ client' = client /\ learned' = learned /\ stalls' = stalls
      /\ UNCHANGED parties
  BY DEF DriverReads, Arrived
<1> HIDE DEF threads, ends
<1>2. m \in Msg /\ Len(sent.driver) >= 2 /\ Histories
  <2>1. toDriver \in Seq(Cell)
    BY Zenon DEF IInv, FlowToDriver, Flow
  <2>2. dstate \in Driving
    BY <1>1 DEF Driving
  <2>3. QED
    BY <1>1, <2>1, <2>2, AnyMessage, Zenon DEF IInv, Stages
<1>3. Answers(messages, sent.driver)
  BY <1>2, ReplyFits, Zenon
<1> HIDE DEF m, messages
<1>4. /\ Serves(dstate) /\ dstate' \in {dstate, "over"} /\ dstate' \in DriverStates
      /\ ~Shakes(dstate') /\ dstate' \notin {"hello", "subscribe"}
  BY <1>1 DEF DriverStates, Shakes, Serves
<1>5. /\ Parties' /\ Histories' /\ FlowToDriver' /\ FlowToEngineer' /\ WishSaid' /\ Learned' /\ Met'
      /\ read'.engineer = read.engineer /\ sent'.engineer = sent.engineer
      /\ Len(sent.driver) \in Nat /\ Len(sent'.driver) >= Len(sent.driver)
      /\ \A i \in 1 .. Len(sent.driver) : sent'.driver[i] = sent.driver[i]
  BY <1>1, <1>3, <1>4, DriverTook, Zenon
<1>6. /\ Len(sent'.driver) >= 2 /\ Len(sent.driver) >= 1
      /\ sent'.driver[1] = sent.driver[1] /\ sent'.driver[2] = sent.driver[2]
  <2>1. Len(sent'.driver) \in Nat
    BY <1>5 DEF Histories
  <2>2. 1 \in 1 .. Len(sent.driver) /\ 2 \in 1 .. Len(sent.driver)
    BY <1>2, <1>5
  <2>3. QED
    BY <1>2, <1>5, <2>1, <2>2
<1>7. Stages'
  <2>1. estate # "new"
    <3>1. ASSUME estate = "new" PROVE FALSE
      <4>1. toDriver = <<>>
        BY <3>1, Zenon DEF IInv, Stages
      <4>2. QED
        BY <1>1, <4>1, NothingArrives, Zenon
    <3>2. QED
      BY <3>1
  <2>2. QED
    BY <1>1, <1>4, <1>5, <1>6, <2>1, Zenon DEF IInv, Stages
<1>8. WelcomeSaid' /\ Agreed'
  <2>1. /\ driver' = driver /\ channels' = channels /\ Granted' = Granted /\ Answered' = Answered
        /\ Message(EncodeWelcome(Session, channels))' = Message(EncodeWelcome(Session, channels))
    BY <1>1, SameParties, Zenon DEF IInv
  <2>2. WelcomeSaid /\ Agreed
    BY Zenon DEF IInv
  <2>3. QED
    BY <1>1, <1>2, <1>6, <2>1, <2>2, Zenon DEF WelcomeSaid, Agreed
<1>9. QED
  BY <1>5, <1>7, <1>8, Zenon DEF IInv

LEMMA EngineerReadsStep ==
  ASSUME IInv, EngineerReads
  PROVE  IInv'
<1> DEFINE m == FirstOf(toEngineer)
           threads == engineer = "StreamClient"
           messages == Reply(m, threads)
           ends == Ends(m, threads)
                   \/ (threads /\ m.type = SessionUpdate /\ DecodeSessionUpdate(m.payload) = Raises)
<1>1. /\ estate \in {"up", "leaving"} /\ Framing("engineer", toEngineer) = "message"
      /\ EngineerTakes(messages)
      /\ estate' = IF estate = "leaving" \/ ends THEN "over" ELSE estate
      /\ dstate' = dstate /\ client' = client /\ learned' = learned /\ stalls' = stalls
      /\ UNCHANGED parties
  BY Zenon DEF EngineerReads, Arrived
<1> HIDE DEF threads, ends
<1>2. m \in Msg /\ Len(sent.engineer) >= 2 /\ Len(sent.driver) >= 2
  <2>1. toEngineer \in Seq(Cell)
    BY Zenon DEF IInv, FlowToEngineer, Flow
  <2>2. estate \in Engaged
    BY <1>1 DEF Engaged
  <2>3. QED
    BY <1>1, <2>1, <2>2, AnyMessage, Zenon DEF IInv, Stages
<1>3. Answers(messages, sent.engineer)
  BY <1>2, ReplyFits, Zenon
<1> HIDE DEF m, messages
<1>4. /\ Listens(estate) /\ estate' \in {estate, "over"} /\ estate' \in EngineerStates
      /\ ~Greets(estate') /\ estate' \notin {"new", "welcome", "subscribed"}
      /\ estate' = "up" => estate = "up"
  BY <1>1 DEF EngineerStates, Greets, Listens
<1>5. /\ Parties' /\ Histories' /\ FlowToEngineer' /\ FlowToDriver' /\ WelcomeSaid' /\ Agreed'
      /\ read'.driver = read.driver /\ sent'.driver = sent.driver
      /\ Len(sent.engineer) \in Nat /\ Len(sent'.engineer) >= Len(sent.engineer)
      /\ (Len(sent.engineer) >= 2 => sent'.engineer[2] = sent.engineer[2])
  BY <1>1, <1>3, <1>4, EngineerTook, Zenon
<1>6. Len(sent'.engineer) >= 2
  <2>1. Len(sent'.engineer) \in Nat
    BY <1>5 DEF Histories
  <2>2. QED
    BY <1>2, <1>5, <2>1
<1>7. Stages'
  BY <1>1, <1>2, <1>4, <1>5, <1>6, Zenon DEF IInv, Stages
<1>8. WishSaid' /\ Learned' /\ Met'
  <2>1. /\ Wish(Len(channels))' = Wish(Len(channels)) /\ channels' = channels
        /\ driver' = driver /\ engineer' = engineer
    BY <1>1, SameParties, Zenon DEF IInv
  <2>2. estate' # "new" /\ (estate' \in {"subscribed", "up"} => estate \in {"subscribed", "up"})
    BY <1>4
  <2>3. QED
    BY <1>1, <1>2, <1>4, <1>5, <2>1, <2>2, Zenon DEF IInv, WishSaid, Learned, Met
<1>9. QED
  BY <1>5, <1>7, <1>8, Zenon DEF IInv

(* What a driver says of its own after the handshake.                      *)
LEMMA DriverSaysStep ==
  ASSUME IInv, DriverSays
  PROVE  IInv'
<1>1. PICK b \in {EncodePing("ping"), EncodeSessionUpdate(<<>>, <<>>, 0), EncodeDisconnect(3),
                  EncodeDisconnect(2)} :
        /\ dstate \in Driving
        /\ toEngineer' = toEngineer \o b
        /\ sent' = [sent EXCEPT !.driver = Append(sent.driver, Message(b))]
        /\ dstate' = Leaves(Message(b), dstate)
        /\ estate' = estate /\ toDriver' = toDriver /\ client' = client /\ learned' = learned
        /\ read' = read /\ stalls' = stalls /\ UNCHANGED parties
  BY DEF DriverSays, Driving
<1>2. Said(b)
  <2>1. "ping" \in Stands /\ 2 \in 0 .. 255 /\ 3 \in 0 .. 255 /\ 2 # 84 /\ 3 # 84
    BY DEF Stands
  <2>2. QED
    BY <1>1, <2>1, PingSaid, SessionSaid, DisconnectSaid
<1> DEFINE m == Message(b)
<1>3. m \in Msg
  BY <1>2, Zenon DEF Said, Sayable
<1>4. /\ sent \in [driver : Seq(Msg), engineer : Seq(Msg)] /\ sent.driver \in Seq(Msg)
      /\ stalls \in Nat /\ stalls <= MaxStalls /\ Len(sent.driver) \in Nat
  BY DEF IInv, Histories
<1>5. Len(sent.driver) >= 2
  BY <1>1, Zenon DEF IInv, Stages
<1> DEFINE more == Append(sent.driver, m)
<1> HIDE DEF m
<1>6. /\ more \in Seq(Msg) /\ Len(more) = Len(sent.driver) + 1
      /\ more[1] = sent.driver[1] /\ more[2] = sent.driver[2]
  <2>1. 1 \in 1 .. Len(sent.driver) /\ 2 \in 1 .. Len(sent.driver)
    BY <1>4, <1>5
  <2>2. \A i \in 1 .. Len(sent.driver) : more[i] = sent.driver[i]
    BY <1>3, <1>4, Kept
  <2>3. more \in Seq(Msg) /\ Len(more) = Len(sent.driver) + 1
    BY <1>3, <1>4, Longer, Zenon
  <2>4. QED
    BY <2>1, <2>2, <2>3
<1>7. sent'.driver = more /\ sent'.engineer = sent.engineer /\ sent' \in [driver : Seq(Msg), engineer : Seq(Msg)]
  <2>1. sent' = [sent EXCEPT !.driver = more]
    BY <1>1 DEF m
  <2> HIDE DEF more
  <2>2. QED
    BY <1>4, <1>6, <2>1, Sides, Zenon
<1>8. /\ Len(sent'.driver) >= 2 /\ Len(sent.driver) >= 1
      /\ sent'.driver[1] = sent.driver[1] /\ sent'.driver[2] = sent.driver[2]
  <2> HIDE DEF more
  <2>1. QED
    BY <1>4, <1>5, <1>6, <1>7
<1>9. /\ dstate' \in {"loop", "leaving", "over"} /\ dstate' \in DriverStates
      /\ ~Shakes(dstate') /\ (Serves(dstate') => Serves(dstate))
      /\ dstate' \notin {"hello", "subscribe"}
  BY <1>1 DEF DriverStates, Leaves, Driving, Shakes, Serves
<1>10. FlowToEngineer'
  <2> DEFINE g == Greets(estate)
             u == Listens(estate)
  <2>1. Flow(toEngineer, sent.driver, read.engineer, g, u, stalls)
    BY Zenon DEF IInv, FlowToEngineer
  <2> HIDE DEF g, u, m
  <2>2. Flow(toEngineer \o b, Append(sent.driver, Message(b)), read.engineer, g, u, stalls)
    BY <1>2, <2>1, FlowSaid
  <2>3. QED
    BY <1>1, <1>7, <2>2, Zenon DEF FlowToEngineer, g, u, m
<1>11. FlowToDriver'
  <2> DEFINE g == Shakes(dstate)
             u == Serves(dstate)
             g2 == Shakes(dstate')
             u2 == Serves(dstate')
  <2>1. Flow(toDriver, sent.engineer, read.driver, g, u, stalls) /\ (g2 => g) /\ (u2 => u)
    BY <1>9, Zenon DEF IInv, FlowToDriver
  <2> HIDE DEF g, u, g2, u2
  <2>2. Flow(toDriver, sent.engineer, read.driver, g2, u2, stalls)
    BY <2>1, FlowWeaker
  <2>3. QED
    BY <1>1, <1>7, <2>2, Zenon DEF FlowToDriver, g2, u2
<1>12. Parties' /\ Histories'
  <2>1. Parties'
    BY <1>1, SameParties, Zenon DEF IInv
  <2>2. QED
    BY <1>1, <1>7, <1>9, <2>1, Zenon DEF IInv, Histories
<1>13. Stages'
  BY <1>1, <1>7, <1>8, <1>9, Zenon DEF IInv, Stages
<1>14. WelcomeSaid' /\ WishSaid' /\ Learned' /\ Agreed' /\ Met'
  <2>1. /\ driver' = driver /\ engineer' = engineer /\ channels' = channels
        /\ Wish(Len(channels))' = Wish(Len(channels)) /\ Granted' = Granted /\ Answered' = Answered
        /\ Message(EncodeWelcome(Session, channels))' = Message(EncodeWelcome(Session, channels))
    BY <1>1, SameParties, Zenon DEF IInv
  <2>2. WelcomeSaid /\ WishSaid /\ Learned /\ Agreed /\ Met
    BY Zenon DEF IInv
  <2>3. QED
    BY <1>1, <1>5, <1>7, <1>8, <2>1, <2>2, Zenon DEF WelcomeSaid, WishSaid, Learned, Agreed, Met
<1>15. QED
  BY <1>10, <1>11, <1>12, <1>13, <1>14, Zenon DEF IInv

LEMMA EngineerSaysStep ==
  ASSUME IInv, EngineerSays
  PROVE  IInv'
<1>1. PICK b \in {EncodePing("probe"), EncodeDisconnect(4)} :
        /\ estate \in Engaged
        /\ toDriver' = toDriver \o b
        /\ sent' = [sent EXCEPT !.engineer = Append(sent.engineer, Message(b))]
        /\ estate' = Leaves(Message(b), estate)
        /\ dstate' = dstate /\ toEngineer' = toEngineer /\ client' = client /\ learned' = learned
        /\ read' = read /\ stalls' = stalls /\ UNCHANGED parties
  BY DEF EngineerSays
<1>2. Said(b)
  <2>1. "probe" \in Stands /\ 4 \in 0 .. 255 /\ 4 # 84
    BY DEF Stands
  <2>2. QED
    BY <1>1, <2>1, PingSaid, DisconnectSaid
<1> DEFINE m == Message(b)
<1>3. m \in Msg
  BY <1>2, Zenon DEF Said, Sayable
<1>4. /\ sent \in [driver : Seq(Msg), engineer : Seq(Msg)] /\ sent.engineer \in Seq(Msg)
      /\ stalls \in Nat /\ stalls <= MaxStalls /\ Len(sent.engineer) \in Nat
  BY DEF IInv, Histories
<1>5. Len(sent.engineer) >= 2 /\ Len(sent.driver) >= 2
  BY <1>1, Zenon DEF IInv, Stages
<1> DEFINE more == Append(sent.engineer, m)
<1> HIDE DEF m
<1>6. more \in Seq(Msg) /\ Len(more) = Len(sent.engineer) + 1 /\ more[2] = sent.engineer[2]
  <2>1. 2 \in 1 .. Len(sent.engineer)
    BY <1>4, <1>5
  <2>2. \A i \in 1 .. Len(sent.engineer) : more[i] = sent.engineer[i]
    BY <1>3, <1>4, Kept
  <2>3. more \in Seq(Msg) /\ Len(more) = Len(sent.engineer) + 1
    BY <1>3, <1>4, Longer, Zenon
  <2>4. QED
    BY <2>1, <2>2, <2>3
<1>7. sent'.engineer = more /\ sent'.driver = sent.driver /\ sent' \in [driver : Seq(Msg), engineer : Seq(Msg)]
  <2>1. sent' = [sent EXCEPT !.engineer = more]
    BY <1>1 DEF m
  <2> HIDE DEF more
  <2>2. QED
    BY <1>4, <1>6, <2>1, Sides, Zenon
<1>8. Len(sent'.engineer) >= 2 /\ sent'.engineer[2] = sent.engineer[2]
  <2> HIDE DEF more
  <2>1. QED
    BY <1>4, <1>5, <1>6, <1>7
<1>9. /\ estate' \in EngineerStates /\ ~Greets(estate') /\ (Listens(estate') => Listens(estate))
      /\ estate' \notin {"new", "welcome", "subscribed"} /\ (estate' = "up" => estate = "up")
      /\ estate' # "new" /\ (estate' \in {"subscribed", "up"} => estate \in {"subscribed", "up"})
  BY <1>1 DEF EngineerStates, Leaves, Engaged, Greets, Listens
<1>10. FlowToDriver'
  <2> DEFINE g == Shakes(dstate)
             u == Serves(dstate)
  <2>1. Flow(toDriver, sent.engineer, read.driver, g, u, stalls)
    BY Zenon DEF IInv, FlowToDriver
  <2> HIDE DEF g, u, m
  <2>2. Flow(toDriver \o b, Append(sent.engineer, Message(b)), read.driver, g, u, stalls)
    BY <1>2, <2>1, FlowSaid
  <2>3. QED
    BY <1>1, <1>7, <2>2, Zenon DEF FlowToDriver, g, u, m
<1>11. FlowToEngineer'
  <2> DEFINE g == Greets(estate)
             u == Listens(estate)
             g2 == Greets(estate')
             u2 == Listens(estate')
  <2>1. Flow(toEngineer, sent.driver, read.engineer, g, u, stalls) /\ (g2 => g) /\ (u2 => u)
    BY <1>9, Zenon DEF IInv, FlowToEngineer
  <2> HIDE DEF g, u, g2, u2
  <2>2. Flow(toEngineer, sent.driver, read.engineer, g2, u2, stalls)
    BY <2>1, FlowWeaker
  <2>3. QED
    BY <1>1, <1>7, <2>2, Zenon DEF FlowToEngineer, g2, u2
<1>12. Parties' /\ Histories'
  <2>1. Parties'
    BY <1>1, SameParties, Zenon DEF IInv
  <2>2. QED
    BY <1>1, <1>7, <1>9, <2>1, Zenon DEF IInv, Histories
<1>13. Stages'
  BY <1>1, <1>5, <1>7, <1>8, <1>9, Zenon DEF IInv, Stages
<1>14. WelcomeSaid' /\ WishSaid' /\ Learned' /\ Agreed' /\ Met'
  <2>1. /\ driver' = driver /\ engineer' = engineer /\ channels' = channels
        /\ Wish(Len(channels))' = Wish(Len(channels)) /\ Granted' = Granted /\ Answered' = Answered
        /\ Message(EncodeWelcome(Session, channels))' = Message(EncodeWelcome(Session, channels))
    BY <1>1, SameParties, Zenon DEF IInv
  <2>2. WelcomeSaid /\ WishSaid /\ Learned /\ Agreed /\ Met
    BY Zenon DEF IInv
  <2>3. QED
    BY <1>1, <1>5, <1>7, <1>8, <1>9, <2>1, <2>2, Zenon
       DEF WelcomeSaid, WishSaid, Learned, Agreed, Met
<1>15. QED
  BY <1>10, <1>11, <1>12, <1>13, <1>14, Zenon DEF IInv

(* How a side goes on, or stops, when nothing is said or read.             *)
DriverStops == \/ dstate' = dstate
               \/ dstate' = "closed"
               \/ dstate' = "over" /\ dstate \in Driving
EngineerStops == \/ estate' = estate
                 \/ estate' \in {"closed", "failed"}
                 \/ estate' = "over" /\ estate \in Engaged

(* What every step keeps in which nothing is said or read.                 *)
LEMMA SilentStep ==
  ASSUME IInv, UNCHANGED parties, client' = client, learned' = learned, sent' = sent, read' = read,
         DriverStops, EngineerStops,
         estate = "new" => toDriver' = toDriver,
         stalls' \in Nat, stalls' <= MaxStalls, FlowToDriver', FlowToEngineer'
  PROVE  IInv'
<1>1. /\ Parties' /\ driver' = driver /\ engineer' = engineer /\ channels' = channels
      /\ Wish(Len(channels))' = Wish(Len(channels)) /\ Granted' = Granted /\ Answered' = Answered
      /\ Message(EncodeWelcome(Session, channels))' = Message(EncodeWelcome(Session, channels))
  BY SameParties, Zenon DEF IInv
<1>2. Histories'
  <2>1. dstate \in DriverStates /\ estate \in EngineerStates
    BY Zenon DEF IInv, Histories
  <2>2. dstate' \in DriverStates /\ estate' \in EngineerStates
    BY <2>1 DEF DriverStops, EngineerStops, DriverStates, EngineerStates
  <2>3. QED
    BY <2>2, Zenon DEF IInv, Histories
<1>3. \/ dstate' = dstate
      \/ /\ dstate' \notin {"hello", "subscribe"}
         /\ dstate' \in Driving => dstate \in Driving
  BY DEF DriverStops, Driving
<1>4. \/ estate' = estate
      \/ /\ estate' \notin {"new", "welcome", "subscribed", "up"}
         /\ estate' \in Engaged => estate \in Engaged
  BY DEF EngineerStops, Engaged
<1>5. Stages'
  <2>1. Stages
    BY Zenon DEF IInv
  <2>2. /\ dstate' = "hello" => dstate = "hello"
        /\ dstate' = "subscribe" => dstate = "subscribe"
        /\ dstate' \in Driving => dstate \in Driving
    BY <1>3
  <2>3. /\ estate' = "new" => estate = "new"
        /\ estate' = "welcome" => estate = "welcome"
        /\ estate' = "subscribed" => estate = "subscribed"
        /\ estate' \in {"new", "welcome"} => estate \in {"new", "welcome"}
        /\ estate' \in Engaged => estate \in Engaged
    BY <1>4
  <2>4. QED
    BY <2>1, <2>2, <2>3, Zenon DEF Stages
<1>6. WelcomeSaid' /\ WishSaid' /\ Learned' /\ Agreed' /\ Met'
  <2>1. WelcomeSaid /\ WishSaid /\ Learned /\ Agreed /\ Met
    BY Zenon DEF IInv
  <2>2. /\ estate' \in {"subscribed", "up"} => estate \in {"subscribed", "up"}
        /\ estate' = "new" => estate = "new"
        /\ estate' = "up" => estate = "up"
    BY <1>4
  <2>3. QED
    BY <1>1, <2>1, <2>2, Zenon DEF WelcomeSaid, WishSaid, Learned, Agreed, Met
<1>7. QED
  BY <1>1, <1>2, <1>5, <1>6, Zenon DEF IInv

(* A reader that stops reads no more than it did.                          *)
LEMMA StopsReading ==
  /\ DriverStops => (Shakes(dstate') => Shakes(dstate)) /\ (Serves(dstate') => Serves(dstate))
  /\ EngineerStops => (Greets(estate') => Greets(estate)) /\ (Listens(estate') => Listens(estate))
BY DEF DriverStops, EngineerStops, Shakes, Serves, Greets, Listens

(* A side that stops, and takes nothing off the stream.                    *)
LEMMA StopStep ==
  ASSUME IInv, UNCHANGED parties, client' = client, learned' = learned, sent' = sent, read' = read,
         toDriver' = toDriver, toEngineer' = toEngineer, stalls' = stalls,
         DriverStops, EngineerStops
  PROVE  IInv'
<1>1. stalls \in Nat /\ stalls <= MaxStalls
  BY Zenon DEF IInv, Histories
<1>2. FlowToDriver'
  <2> DEFINE g == Shakes(dstate)
             u == Serves(dstate)
             g2 == Shakes(dstate')
             u2 == Serves(dstate')
  <2>1. Flow(toDriver, sent.engineer, read.driver, g, u, stalls) /\ (g2 => g) /\ (u2 => u)
    BY StopsReading, Zenon DEF IInv, FlowToDriver
  <2> HIDE DEF g, u, g2, u2
  <2>2. Flow(toDriver, sent.engineer, read.driver, g2, u2, stalls)
    BY <2>1, FlowWeaker
  <2>3. QED
    BY <2>2, Zenon DEF FlowToDriver, g2, u2
<1>3. FlowToEngineer'
  <2> DEFINE g == Greets(estate)
             u == Listens(estate)
             g2 == Greets(estate')
             u2 == Listens(estate')
  <2>1. Flow(toEngineer, sent.driver, read.engineer, g, u, stalls) /\ (g2 => g) /\ (u2 => u)
    BY StopsReading, Zenon DEF IInv, FlowToEngineer
  <2> HIDE DEF g, u, g2, u2
  <2>2. Flow(toEngineer, sent.driver, read.engineer, g2, u2, stalls)
    BY <2>1, FlowWeaker
  <2>3. QED
    BY <2>2, Zenon DEF FlowToEngineer, g2, u2
<1>4. stalls' \in Nat /\ stalls' <= MaxStalls
  BY <1>1
<1>5. QED
  BY <1>2, <1>3, <1>4, SilentStep, Zenon

LEMMA BrokenStep ==
  ASSUME IInv, NEW side \in {"driver", "engineer"}, Broken(side)
  PROVE  IInv'
<1>1. /\ UNCHANGED parties /\ client' = client /\ learned' = learned /\ sent' = sent /\ read' = read
      /\ toDriver' = toDriver /\ toEngineer' = toEngineer /\ stalls' = stalls
  BY DEF Broken
<1>2. DriverStops /\ EngineerStops
  BY DEF Broken, GivesUp, Waiting, DriverStops, EngineerStops
<1>3. QED
  BY <1>1, <1>2, StopStep, Zenon

LEMMA ClosesStep ==
  ASSUME IInv, NEW side \in {"driver", "engineer"}, Closes(side)
  PROVE  IInv'
<1>1. /\ UNCHANGED parties /\ client' = client /\ learned' = learned /\ sent' = sent /\ read' = read
      /\ toDriver' = toDriver /\ toEngineer' = toEngineer /\ stalls' = stalls
  BY DEF Closes
<1>2. DriverStops /\ EngineerStops
  BY DEF Closes, DriverStops, EngineerStops
<1>3. QED
  BY <1>1, <1>2, StopStep, Zenon

-----------------------------------------------------------------------------
(* Time-outs, and the induction.                                           *)

(* The cells a time-out may throw away.                                    *)
LEMMA StallWithin ==
  ASSUME NEW w \in Seq(Cell), NEW k \in 1 .. (Min({Len(w), CtrlHdrSize + 1}))
  PROVE  k \in Nat /\ k <= Len(w) /\ w # <<>> /\ From(w, k) \in Seq(Cell)
         /\ (k < CtrlHdrSize => k \in 1 .. 6)
<1>1. Len(w) \in Int /\ CtrlHdrSize + 1 = 8
  BY DEF CtrlHdrSize
<1>2. Min({Len(w), CtrlHdrSize + 1}) = IF Len(w) <= 8 THEN Len(w) ELSE 8
  BY <1>1, MinOfTwo
<1>3. k \in Nat /\ k <= Len(w) /\ k >= 1
  BY <1>1, <1>2
<1>4. w # <<>>
  BY <1>3
<1>5. From(w, k) \in Seq(Cell)
  BY <1>3, FromFacts
<1>6. k < CtrlHdrSize => k \in 1 .. 6
  BY <1>3 DEF CtrlHdrSize
<1>7. QED
  BY <1>3, <1>4, <1>5, <1>6

LEMMA StallStep ==
  ASSUME IInv, NEW side \in {"driver", "engineer"}, Stall(side)
  PROVE  IInv'
<1>1. /\ UNCHANGED parties /\ client' = client /\ learned' = learned /\ sent' = sent /\ read' = read
      /\ stalls' = stalls + 1 /\ stalls < MaxStalls /\ Waiting(side)
  BY DEF Stall
<1>2. /\ stalls \in Nat /\ stalls + 1 \in Nat /\ stalls + 1 <= MaxStalls
      /\ stalls' \in Nat /\ stalls' <= MaxStalls
  <2>1. stalls \in Nat /\ MaxStalls \in Nat
    BY BoundTypes, Zenon DEF IInv, Histories
  <2>2. QED
    BY <1>1, <2>1
<1>3. toDriver \in Seq(Cell) /\ toEngineer \in Seq(Cell)
  BY Zenon DEF IInv, FlowToDriver, FlowToEngineer, Flow
<1> DEFINE sh == Shakes(dstate)
           lo == Serves(dstate)
           gr == Greets(estate)
           up == Listens(estate)
           sh2 == Shakes(dstate')
           lo2 == Serves(dstate')
           gr2 == Greets(estate')
           up2 == Listens(estate')
<1>4. /\ Flow(toDriver, sent.engineer, read.driver, sh, lo, stalls)
      /\ Flow(toEngineer, sent.driver, read.engineer, gr, up, stalls)
  BY Zenon DEF IInv, FlowToDriver, FlowToEngineer
<1>5. /\ Flow(toDriver, sent.engineer, read.driver, sh, lo, stalls + 1)
      /\ Flow(toEngineer, sent.driver, read.engineer, gr, up, stalls + 1)
  <2> HIDE DEF sh, lo, gr, up
  <2>1. QED
    BY <1>2, <1>4, FlowLater
<1>6. CASE side = "driver"
  <2>1. PICK k \in 1 .. (Min({Len(toDriver), CtrlHdrSize + 1})) :
          /\ toDriver' = From(toDriver, k) /\ toEngineer' = toEngineer
          /\ IF k < CtrlHdrSize /\ dstate = "loop" THEN UNCHANGED <<dstate, estate>>
             ELSE dstate' = (IF dstate \in Driving THEN "over" ELSE "closed") /\ UNCHANGED estate
    BY <1>6 DEF Stall, StreamTo, Drop, GivesUp
  <2>2. /\ k \in Nat /\ k <= Len(toDriver) /\ toDriver # <<>> /\ From(toDriver, k) \in Seq(Cell)
        /\ (k < CtrlHdrSize => k \in 1 .. 6)
    BY <1>3, StallWithin
  <2>3. DriverStops /\ EngineerStops /\ estate' = estate
    BY <2>1 DEF DriverStops, EngineerStops
  <2>4. estate # "new"
    BY <2>2, Zenon DEF IInv, Stages
  <2>5. FlowToDriver'
    <3>1. CASE k < CtrlHdrSize /\ dstate = "loop"
      <4>1. dstate' = dstate /\ ~sh /\ lo /\ k \in 1 .. 6
        BY <2>1, <2>2, <3>1 DEF Shakes, Serves
      <4>2. Flow(toDriver, sent.engineer, read.driver, FALSE, lo, stalls)
        BY <1>4, <4>1, Zenon DEF Flow
      <4> HIDE DEF sh, lo
      <4>3. Flow(From(toDriver, k), sent.engineer, read.driver, FALSE, lo, stalls + 1)
        BY <1>2, <2>2, <4>1, <4>2, FlowStall
      <4>4. Flow(From(toDriver, k), sent.engineer, read.driver, sh, lo, stalls + 1)
        BY <4>1, <4>3, Zenon DEF Flow
      <4>5. QED
        BY <1>1, <2>1, <4>1, <4>4, Zenon DEF FlowToDriver, sh, lo
    <3>2. CASE ~(k < CtrlHdrSize /\ dstate = "loop")
      <4>1. dstate' \in {"over", "closed"}
        BY <2>1, <3>2
      <4>2. ~sh2 /\ ~lo2
        BY <4>1 DEF Shakes, Serves
      <4> HIDE DEF sh, lo, sh2, lo2
      <4>3. Flow(From(toDriver, k), sent.engineer, read.driver, FALSE, FALSE, stalls + 1)
        BY <1>5, <2>2, FlowStops, Zenon
      <4>4. Flow(From(toDriver, k), sent.engineer, read.driver, sh2, lo2, stalls + 1)
        BY <4>2, <4>3, Zenon DEF Flow
      <4>5. QED
        BY <1>1, <2>1, <4>4, Zenon DEF FlowToDriver, sh2, lo2
    <3>3. QED
      BY <3>1, <3>2, Zenon
  <2>6. FlowToEngineer'
    BY <1>1, <1>5, <2>1, <2>3, Zenon DEF FlowToEngineer
  <2>7. QED
    BY <1>1, <1>2, <2>3, <2>4, <2>5, <2>6, SilentStep, Zenon
<1>7. CASE side = "engineer"
  <2>1. PICK k \in 1 .. (Min({Len(toEngineer), CtrlHdrSize + 1})) :
          /\ toEngineer' = From(toEngineer, k) /\ toDriver' = toDriver
          /\ IF k < CtrlHdrSize /\ estate = "up" THEN UNCHANGED <<dstate, estate>>
             ELSE estate' = (IF estate \in Engaged THEN "over" ELSE "failed") /\ UNCHANGED dstate
    BY <1>7 DEF Stall, StreamTo, Drop, GivesUp
  <2>2. /\ k \in Nat /\ k <= Len(toEngineer) /\ From(toEngineer, k) \in Seq(Cell)
        /\ (k < CtrlHdrSize => k \in 1 .. 6)
    BY <1>3, StallWithin
  <2>3. DriverStops /\ EngineerStops /\ dstate' = dstate
    BY <2>1 DEF DriverStops, EngineerStops
  <2>4. FlowToEngineer'
    <3>1. CASE k < CtrlHdrSize /\ estate = "up"
      <4>1. estate' = estate /\ ~gr /\ up /\ k \in 1 .. 6
        BY <2>1, <2>2, <3>1 DEF Greets, Listens
      <4>2. Flow(toEngineer, sent.driver, read.engineer, FALSE, up, stalls)
        BY <1>4, <4>1, Zenon DEF Flow
      <4> HIDE DEF gr, up
      <4>3. Flow(From(toEngineer, k), sent.driver, read.engineer, FALSE, up, stalls + 1)
        BY <1>2, <2>2, <4>1, <4>2, FlowStall
      <4>4. Flow(From(toEngineer, k), sent.driver, read.engineer, gr, up, stalls + 1)
        BY <4>1, <4>3, Zenon DEF Flow
      <4>5. QED
        BY <1>1, <2>1, <4>1, <4>4, Zenon DEF FlowToEngineer, gr, up
    <3>2. CASE ~(k < CtrlHdrSize /\ estate = "up")
      <4>1. estate' \in {"over", "failed"}
        BY <2>1, <3>2
      <4>2. ~gr2 /\ ~up2
        BY <4>1 DEF Greets, Listens
      <4> HIDE DEF gr, up, gr2, up2
      <4>3. Flow(From(toEngineer, k), sent.driver, read.engineer, FALSE, FALSE, stalls + 1)
        BY <1>5, <2>2, FlowStops, Zenon
      <4>4. Flow(From(toEngineer, k), sent.driver, read.engineer, gr2, up2, stalls + 1)
        BY <4>2, <4>3, Zenon DEF Flow
      <4>5. QED
        BY <1>1, <2>1, <4>4, Zenon DEF FlowToEngineer, gr2, up2
    <3>3. QED
      BY <3>1, <3>2, Zenon
  <2>5. FlowToDriver'
    BY <1>1, <1>5, <2>1, <2>3, Zenon DEF FlowToDriver
  <2>6. QED
    BY <1>1, <1>2, <2>1, <2>3, <2>4, <2>5, SilentStep, Zenon
<1>8. QED
  BY <1>6, <1>7

(* Nothing has been said.                                                  *)
LEMMA FlowAtFirst ==
  ASSUME NEW looping, ~looping
  PROVE  Flow(<<>>, <<>>, <<>>, TRUE, looping, 0)
<1>1. <<>> \in Seq(Cell) /\ <<>> \in Seq(Msg) /\ <<>> \o <<>> = <<>>
  OBVIOUS
<1>2. Carries(<<>>, <<>>)
  BY CarriesNone
<1>3. Aligned(<<>>, <<>>, <<>>)
  BY <1>1, <1>2, Zenon DEF Aligned
<1>4. Courteous(<<>>)
  BY DEF Courteous
<1>5. IsPrefix(<<>>, <<>>)
  BY <1>1, <1>3, AlignedPrefix, Zenon
<1>6. QED
  BY <1>1, <1>3, <1>4, <1>5, Zenon DEF Flow

LEMMA AtFirst ==
  Init => IInv
<1> SUFFICES ASSUME Init PROVE IInv
  OBVIOUS
<1>1. /\ dstate = "hello" /\ estate = "new" /\ toDriver = <<>> /\ toEngineer = <<>>
      /\ client = <<>> /\ learned = <<>> /\ stalls = 0
      /\ sent = [driver |-> <<>>, engineer |-> <<>>] /\ read = [driver |-> <<>>, engineer |-> <<>>]
  BY DEF Init
<1>2. /\ sent.driver = <<>> /\ sent.engineer = <<>> /\ read.driver = <<>> /\ read.engineer = <<>>
      /\ sent \in [driver : Seq(Msg), engineer : Seq(Msg)] /\ read \in [driver : Seq(Msg), engineer : Seq(Msg)]
  BY <1>1
<1>3. Parties
  <2>1. /\ driver \in {"streamer", "server"} /\ engineer \in {"StreamClient", "StreamingClient"}
        /\ channels \in (IF driver = "server" THEN {ServerChannels} ELSE ChannelLists)
        /\ wanted \in (IF engineer = "StreamClient" THEN WantedLists ELSE {<<>>})
        /\ port \in Ports
    BY DEF Init
  <2>2. channels \in Lists /\ (driver = "server" => channels = ServerChannels)
    <3>1. ServerChannels \in Lists
      BY ServerList, Zenon
    <3>2. ChannelLists \subseteq Lists
      BY StreamerLists, Zenon
    <3>3. QED
      BY <2>1, <3>1, <3>2
  <2>3. wanted \in Seq(Uint16) /\ 4 + 2 * Len(wanted) \in Uint16
    <3>1. CASE wanted \in WantedLists
      BY <3>1, PartiesAssumption, Zenon
    <3>2. CASE wanted = <<>>
      <4>1. 4 + 2 * 0 \in Nat /\ 4 + 2 * 0 < 256 * 256
        BY SMT
      <4>2. 4 + 2 * 0 \in Uint16
        BY <4>1, Uint16Facts, Zenon
      <4>3. wanted \in Seq(Uint16) /\ Len(wanted) = 0
        BY <3>2
      <4>4. QED
        BY <4>2, <4>3, Zenon
    <3>3. QED
      BY <2>1, <3>1, <3>2
  <2>4. port \in Uint16
    BY <2>1, PartiesAssumption
  <2>5. engineer = "StreamingClient" => wanted = <<>>
    BY <2>1
  <2>6. QED
    BY <2>1, <2>2, <2>3, <2>4, <2>5, Zenon DEF Parties
<1>4. Histories
  <2>1. 0 \in Nat /\ 0 <= MaxStalls
    BY BoundTypes
  <2>2. QED
    BY <1>1, <1>2, <2>1 DEF Histories, DriverStates, EngineerStates
<1>5. FlowToDriver /\ FlowToEngineer
  <2> DEFINE sh == Shakes(dstate)
             lo == Serves(dstate)
             gr == Greets(estate)
             up == Listens(estate)
  <2>1. sh /\ ~lo /\ gr /\ ~up
    BY <1>1 DEF Shakes, Greets, Serves, Listens
  <2> HIDE DEF sh, lo, gr, up
  <2>2. Flow(<<>>, <<>>, <<>>, TRUE, lo, 0) /\ Flow(<<>>, <<>>, <<>>, TRUE, up, 0)
    BY <2>1, FlowAtFirst
  <2>3. Flow(<<>>, <<>>, <<>>, sh, lo, 0) /\ Flow(<<>>, <<>>, <<>>, gr, up, 0)
    BY <2>1, <2>2, Zenon DEF Flow
  <2>4. QED
    BY <1>1, <1>2, <2>3, Zenon DEF FlowToDriver, FlowToEngineer, sh, lo, gr, up
<1>6. Stages
  BY <1>1, <1>2 DEF Stages, Driving, Engaged
<1>7. WelcomeSaid /\ WishSaid /\ Learned /\ Agreed /\ Met
  <2>1. ~(Len(sent.driver) >= 1) /\ ~(Len(sent.engineer) >= 2) /\ ~(Len(sent.driver) >= 2)
    BY <1>2
  <2>2. estate \notin {"subscribed", "up"} /\ estate # "up" /\ learned = <<>>
    BY <1>1
  <2>3. QED
    BY <2>1, <2>2, Zenon DEF WelcomeSaid, WishSaid, Learned, Agreed, Met
<1>8. QED
  BY <1>3, <1>4, <1>5, <1>6, <1>7, Zenon DEF IInv

LEMMA Inductive ==
  IInv /\ [Next]_vars => IInv'
<1> SUFFICES ASSUME IInv, [Next]_vars PROVE IInv'
  OBVIOUS
<1>1. CASE Discover
  BY <1>1, DiscoverStep, Zenon
<1>2. CASE EngineerConnects
  BY <1>2, ConnectStep, Zenon
<1>3. CASE DriverGreets
  BY <1>3, DriverGreetsStep, Zenon
<1>4. CASE EngineerSubscribes
  BY <1>4, EngineerSubscribesStep, Zenon
<1>5. CASE DriverSubscribes
  BY <1>5, DriverSubscribesStep, Zenon
<1>6. CASE EngineerSubscribed
  BY <1>6, EngineerSubscribedStep, Zenon
<1>7. CASE DriverSays
  BY <1>7, DriverSaysStep, Zenon
<1>8. CASE EngineerSays
  BY <1>8, EngineerSaysStep, Zenon
<1>9. CASE DriverReads
  BY <1>9, DriverReadsStep, Zenon
<1>10. CASE EngineerReads
  BY <1>10, EngineerReadsStep, Zenon
<1>11. ASSUME NEW side \in {"driver", "engineer"}, Stall(side) PROVE IInv'
  BY <1>11, StallStep, Zenon
<1>12. ASSUME NEW side \in {"driver", "engineer"}, Broken(side) PROVE IInv'
  BY <1>12, BrokenStep, Zenon
<1>13. ASSUME NEW side \in {"driver", "engineer"}, Closes(side) PROVE IInv'
  BY <1>13, ClosesStep, Zenon
<1>14. CASE PushFrame
  <2>1. UNCHANGED <<parties, control>>
    BY <1>14 DEF PushFrame
  <2>2. QED
    BY <2>1, Idle, Zenon
<1>15. CASE Receive
  <2>1. UNCHANGED <<parties, control>>
    BY <1>15 DEF Receive
  <2>2. QED
    BY <2>1, Idle, Zenon
<1>16. CASE UNCHANGED vars
  <2>1. UNCHANGED <<parties, control>>
    BY <1>16 DEF vars
  <2>2. QED
    BY <2>1, Idle, Zenon
<1>17. QED
  BY <1>1, <1>2, <1>3, <1>4, <1>5, <1>6, <1>7, <1>8, <1>9, <1>10, <1>11, <1>12, <1>13, <1>14, <1>15,
     <1>16, Zenon DEF Next

(* The induction.                                                          *)
THEOREM Safety ==
  Spec => []IInv
BY AtFirst, Inductive, PTL DEF Spec

-----------------------------------------------------------------------------
(* What follows of it.                                                     *)

(* Whatever the implementations, and with at most one time-out within a    *)
(* message, either side acts upon the messages of the other in order and   *)
(* without a gap, those behind a DISCONNECT included.                      *)
THEOREM InOrder ==
  ASSUME MaxStalls <= 1
  PROVE  Spec => []MessagesInOrder
<1>1. IInv => MessagesInOrder
  BY Zenon DEF IInv, FlowToDriver, FlowToEngineer, Flow, MessagesInOrder
<1>2. QED
  BY <1>1, Safety, PTL

(* An engineer that has found or reached a driver knows what it announced; *)
(* the driver sends what the engineer wants to where it listens exactly    *)
(* when the driver is streamer.py and the engineer StreamClient, or one    *)
(* that listens on the default port and counts as the driver does; and     *)
(* server.py connects to StreamingClient only, and never understands it.   *)
THEOREM Handshake ==
  Spec => []HandshakeAgreed
<1>1. IInv => HandshakeAgreed
  <2> SUFFICES ASSUME IInv PROVE HandshakeAgreed
    OBVIOUS
  <2> DEFINE n == Len(channels)
             granted == [ids |-> Subscription(ToSet(Wished)), port |-> WishedPort]
             masked == [ids |-> Bits(Mask(DefaultUdpPort)), port |-> TelemetryPort]
             agreed == /\ driver = "streamer"
                       /\ engineer = "StreamingClient" => port = DefaultUdpPort /\ AllIds = 0..(n - 1)
  <2>1. estate = "new" /\ learned # <<>> => learned = [Announcement EXCEPT !.driver = Upto(@, 32)]
    BY Zenon DEF IInv, Learned
  <2>2. ASSUME estate = "up"
        PROVE  /\ learned = [session |-> Session, channels |-> channels]
               /\ Understood <=> agreed
               /\ driver = "server" => engineer = "StreamingClient" /\ client = masked
    <3>1. /\ learned = [session |-> Session, channels |-> channels]
          /\ client = Granted
          /\ wanted \in Seq(Uint16) /\ channels \in Seq(Info)
          /\ engineer = "StreamingClient" => wanted = <<>>
          /\ driver \in {"streamer", "server"} /\ engineer \in {"StreamClient", "StreamingClient"}
          /\ driver = "server" => engineer = "StreamingClient" /\ channels = ServerChannels
      <4>1. estate \in {"subscribed", "up"} /\ estate \in Engaged
        BY <2>2 DEF Engaged
      <4>2. Len(sent.driver) >= 2
        BY <4>1, Zenon DEF IInv, Stages
      <4>3. QED
        BY <2>2, <4>1, <4>2, Zenon DEF IInv, Learned, Agreed, Met, Parties, Lists
    <3>2. CASE driver = "streamer" /\ engineer = "StreamClient"
      <4>1. Wished = wanted /\ WishedPort = port
        BY <3>2, Zenon DEF Wished, WishedPort
      <4>2. ToSet(wanted) = {} <=> wanted = <<>>
        <5>1. \A q \in Seq(Uint16) : DOMAIN q = {} <=> q = <<>>
          OBVIOUS
        <5>2. DOMAIN wanted = {} <=> wanted = <<>>
          BY <3>1, <5>1, Zenon
        <5>3. QED
          BY <5>2, Zenon DEF ToSet
      <4>3. client.port = port /\ client.ids = Subscription(ToSet(wanted))
        BY <3>1, <3>2, <4>1 DEF Granted
      <4>4. Understood
        BY <4>2, <4>3, Zenon DEF Understood, Subscription
      <4>5. engineer # "StreamingClient" /\ driver # "server"
        BY <3>2
      <4>6. QED
        BY <3>1, <3>2, <4>4, <4>5, Zenon
    <3>3. CASE driver = "streamer" /\ engineer = "StreamingClient"
      <4>1. n \in Nat
        BY <3>1
      <4>2. wanted = <<>> /\ driver # "server" /\ engineer # "StreamClient"
        BY <3>1, <3>3
      <4>3. ToSet(Wished) = 0 .. (n - 1)
        <5>1. Wished = [i \in 1 .. n |-> i - 1]
          BY <4>2, Zenon DEF Wished
        <5>2. ToSet(Wished) = {i - 1 : i \in 1 .. n}
          BY <5>1, Zenon DEF ToSet
        <5>3. {i - 1 : i \in 1 .. n} = 0 .. (n - 1)
          <6> HIDE DEF n
          <6>1. \A x \in 0 .. (n - 1) : x + 1 \in 1 .. n /\ x = (x + 1) - 1
            BY <4>1
          <6>2. \A i \in 1 .. n : i - 1 \in 0 .. (n - 1)
            BY <4>1
          <6>3. QED
            BY <6>1, <6>2
        <5>4. QED
          BY <5>2, <5>3, Zenon
      <4>4. client.port = DefaultUdpPort /\ client.ids = Subscription(0 .. (n - 1))
        <5>1. WishedPort = DefaultUdpPort
          BY <4>2, Zenon DEF WishedPort
        <5> HIDE DEF n
        <5>2. QED
          BY <3>1, <3>3, <4>3, <5>1 DEF Granted
      <4>5. 0 .. (n - 1) = {} => AllIds = {}
        <5> HIDE DEF n
        <5>1. ASSUME 0 .. (n - 1) = {} PROVE n = 0
          <6>1. n # 0 => 0 \in 0 .. (n - 1)
            BY <4>1
          <6>2. QED
            BY <5>1, <6>1
        <5>2. n = 0 => DOMAIN channels = {}
          BY <3>1 DEF n
        <5>3. QED
          BY <5>1, <5>2, Zenon DEF AllIds
      <4>6. Subscription(0 .. (n - 1)) = AllIds <=> AllIds = 0 .. (n - 1)
        BY <4>5, Zenon DEF Subscription
      <4>7. Understood <=> port = DefaultUdpPort /\ AllIds = 0 .. (n - 1)
        BY <4>2, <4>4, <4>6, Zenon DEF Understood
      <4>8. QED
        BY <3>1, <3>3, <4>2, <4>7, Zenon
    <3>4. CASE driver = "server"
      <4>1. engineer = "StreamingClient" /\ wanted = <<>> /\ driver # "streamer" /\ engineer # "StreamClient"
        BY <3>1, <3>4
      <4>2. client = masked
        <5>1. WishedPort = DefaultUdpPort
          BY <4>1, Zenon DEF WishedPort
        <5>2. QED
          BY <3>1, <4>1, <5>1, Zenon DEF Granted
      <4>3. client.ids = Bits(Mask(DefaultUdpPort))
        BY <4>2
      <4>4. 0 \in AllIds
        <5>1. Len(ServerChannels) = 14 /\ ServerChannels[1].id = 0 /\ ServerChannels \in Seq(Info)
          BY ServerList, Zenon DEF Lists
        <5>2. 1 \in DOMAIN ServerChannels
          BY <5>1
        <5>3. QED
          BY <3>1, <3>4, <5>1, <5>2, Zenon DEF AllIds
      <4>5. 0 \notin Bits(Mask(DefaultUdpPort))
        BY DefaultMask, Zenon
      <4>6. ~Understood
        BY <4>1, <4>3, <4>4, <4>5, Zenon DEF Understood
      <4>7. QED
        BY <3>1, <4>1, <4>2, <4>6, Zenon
    <3>5. QED
      BY <3>1, <3>2, <3>3, <3>4, Zenon
  <2>3. QED
    BY <2>1, <2>2, Zenon DEF HandshakeAgreed
<1>2. QED
  BY <1>1, Safety, PTL

(* The implementations, channels and wishes stay ones the code can have,   *)
(* what either side has said and read are messages of the protocol, and    *)
(* what is on its way are cells of its fields.                             *)
THEOREM TypeCorrect ==
  Spec => [](Parties /\ Histories /\ toDriver \in Seq(Cell) /\ toEngineer \in Seq(Cell))
<1>1. IInv => Parties /\ Histories /\ toDriver \in Seq(Cell) /\ toEngineer \in Seq(Cell)
  BY Zenon DEF IInv, FlowToDriver, FlowToEngineer, Flow
<1>2. QED
  BY <1>1, Safety, PTL

-----------------------------------------------------------------------------
(* Telemetry frames.                                                       *)

(* A selection is no longer than what it is taken from.                    *)
LEMMA KeepLength ==
  ASSUME NEW A, NEW s \in Seq(A), NEW S
  PROVE  Len(Keep(s, S)) \in Nat /\ Len(Keep(s, S)) <= Len(s)
<1> DEFINE n == Len(s)
<1>1. n \in Nat
  OBVIOUS
<1>2. PICK f \in [0 .. n -> Seq(A)] :
           /\ f[0] = <<>> /\ Keep(s, S) = f[n]
           /\ \A i \in 1 .. n :
                f[i] = IF s[i] \in S THEN Append(f[i - 1], s[i]) ELSE f[i - 1]
  BY KeepUnfolds
<1> DEFINE T == {i \in 0 .. n : Len(f[i]) <= i}
<1>3. 0 \in T
  BY <1>2
<1>4. ASSUME NEW i \in 1 .. n, i - 1 \in T PROVE i \in T
  <2>1. /\ i - 1 \in 0 .. n /\ i \in 0 .. n /\ f[i - 1] \in Seq(A) /\ s[i] \in A
        /\ Len(f[i - 1]) <= i - 1
    BY <1>1, <1>4
  <2>2. Len(Append(f[i - 1], s[i])) = Len(f[i - 1]) + 1
    BY <2>1, Longer
  <2>3. f[i] = IF s[i] \in S THEN Append(f[i - 1], s[i]) ELSE f[i - 1]
    BY <1>2
  <2>4. Len(f[i - 1]) \in Nat
    BY <2>1
  <2>5. Len(f[i]) <= i
    BY <2>1, <2>2, <2>3, <2>4
  <2>6. QED
    BY <2>1, <2>5
<1> HIDE DEF T
<1>5. 0 .. n \subseteq T
  BY <1>1, <1>3, <1>4, Climb
<1>6. Len(f[n]) <= n
  BY <1>5 DEF T
<1>7. QED
  BY <1>1, <1>2, <1>6

(* The channels of a frame: pairs of an id and what its value is.          *)
Pair == Uint16 \X Stands

(* What reads a channel of a frame.                                        *)
PairAt(raw, i) ==
    <<Number(At(raw, TelemChannelSize * (i - 1), 2)), AsScalar(At(raw, TelemChannelSize * (i - 1) + 2, 8))>>

LEMMA ValuesFacts ==
  ASSUME NEW cs \in Seq(Pair), NEW n \in Nat, n = Len(cs)
  PROVE  /\ Values(cs) \in Seq(Cell) /\ Len(Values(cs)) = n * 10
         /\ [i \in 1 .. n |-> PairAt(Values(cs), i)] = cs
<1> DEFINE blocks == [i \in DOMAIN cs |-> U(cs[i][1], 2) \o Scalar(cs[i][2], 8)]
           f == FlattenSeq(blocks)
<1>1. DOMAIN cs = 1 .. n /\ [i \in 1 .. n |-> cs[i]] = cs
  BY SequenceIs, Zenon
<1>2. \A i \in 1 .. n : /\ cs[i][1] \in Uint16 /\ cs[i][2] \in Stands /\ cs[i] = <<cs[i][1], cs[i][2]>>
                        /\ cs[i][1] \in Nat
  <2>1. \A i \in 1 .. n : cs[i] \in Pair
    OBVIOUS
  <2>2. \A i \in 1 .. n : cs[i][1] \in Uint16 /\ cs[i][2] \in Stands /\ cs[i] = <<cs[i][1], cs[i][2]>>
    BY <2>1 DEF Pair
  <2>3. QED
    BY <2>2, Uint16Facts, Zenon
<1>3. 2 \in Nat /\ 10 \in Nat /\ 8 \in Nat /\ 0 \in Nat
  OBVIOUS
<1>4. ASSUME NEW i \in 1 .. n
      PROVE  LET a == U(cs[i][1], 2)
                 b == Scalar(cs[i][2], 8)
             IN  /\ a \in Seq(Cell) /\ Len(a) = 2 /\ Number(a) = cs[i][1]
                 /\ b \in Seq(Cell) /\ Len(b) = 8 /\ AsScalar(b) = cs[i][2]
                 /\ a \o b \in Seq(Cell) /\ Len(a \o b) = 10 /\ Part(a \o b, 0, a) /\ Part(a \o b, 2, b)
  <2> DEFINE a == U(cs[i][1], 2)
             b == Scalar(cs[i][2], 8)
  <2>1. a \in Seq(Cell) /\ Len(a) = 2 /\ Number(a) = cs[i][1]
    BY <1>2, <1>3, UFacts, ReadBack, Zenon
  <2>2. b \in Seq(Cell) /\ Len(b) = 8 /\ AsScalar(b) = cs[i][2]
    BY <1>2, ScalarFacts, Zenon
  <2> HIDE DEF a, b
  <2>3. a \o b \in Seq(Cell) /\ Len(a \o b) = Len(a) + Len(b) /\ Part(a \o b, 0, a) /\ Part(a \o b, Len(a), b)
    BY <2>1, <2>2, Joined, Zenon
  <2>4. Len(a) + Len(b) = 10
    BY <2>1, <2>2
  <2>5. QED
    BY <2>1, <2>2, <2>3, <2>4, Zenon DEF a, b
<1>5. /\ blocks \in Seq(Seq(Cell)) /\ Len(blocks) = n
      /\ \A i \in 1 .. n : /\ blocks[i] = U(cs[i][1], 2) \o Scalar(cs[i][2], 8)
                           /\ Len(blocks[i]) = 10 /\ blocks[i] \in Seq(Cell)
  <2> DEFINE block(i) == U(cs[i][1], 2) \o Scalar(cs[i][2], 8)
  <2>1. blocks = [i \in 1 .. n |-> block(i)]
    BY <1>1, Zenon
  <2>2. \A i \in 1 .. n : block(i) \in Seq(Cell) /\ Len(block(i)) = 10
    BY <1>4, Zenon
  <2> HIDE DEF blocks, block
  <2>3. blocks \in Seq(Seq(Cell)) /\ Len(blocks) = n
    BY <2>1, <2>2
  <2>4. \A i \in 1 .. n : blocks[i] = block(i) /\ Len(blocks[i]) = 10 /\ blocks[i] \in Seq(Cell)
    BY <2>1, <2>2
  <2>5. QED
    BY <2>3, <2>4, Zenon DEF block
<1> HIDE DEF blocks
<1>6. /\ f \in Seq(Cell) /\ Len(f) = n * 10
      /\ \A i \in 1 .. n : Part(f, (i - 1) * 10, blocks[i])
  <2>1. blocks \in Seq(Seq(Cell)) /\ \A i \in 1 .. Len(blocks) : Len(blocks[i]) = 10
    BY <1>5, Zenon
  <2>2. /\ FlattenSeq(blocks) \in Seq(Cell) /\ Len(FlattenSeq(blocks)) = Len(blocks) * 10
        /\ \A i \in 1 .. Len(blocks) : Part(FlattenSeq(blocks), (i - 1) * 10, blocks[i])
    BY <1>3, <2>1, FlattenBlocks, Zenon
  <2>3. QED
    BY <1>5, <2>2, Zenon
<1> HIDE DEF f
<1>7. ASSUME NEW i \in 1 .. n PROVE PairAt(f, i) = cs[i]
  <2> DEFINE a == U(cs[i][1], 2)
             b == Scalar(cs[i][2], 8)
             o == (i - 1) * 10
  <2>1. o \in Nat /\ o + 0 = o /\ o + 2 \in Nat /\ TelemChannelSize * (i - 1) = o
    BY SMT DEF TelemChannelSize
  <2>2. /\ a \in Seq(Cell) /\ Len(a) = 2 /\ Number(a) = cs[i][1]
        /\ b \in Seq(Cell) /\ Len(b) = 8 /\ AsScalar(b) = cs[i][2]
        /\ a \o b \in Seq(Cell) /\ Part(a \o b, 0, a) /\ Part(a \o b, 2, b)
    BY <1>4, Zenon
  <2>3. Part(f, o, a \o b)
    BY <1>5, <1>6, Zenon
  <2> HIDE DEF a, b, o
  <2>4. Part(f, o + 0, a) /\ Part(f, o + 2, b)
    BY <1>3, <1>6, <2>1, <2>2, <2>3, PartOfPart, Zenon
  <2>5. At(f, o, Len(a)) = a
    BY <1>6, <2>1, <2>2, <2>4, PartRead, Zenon
  <2>6. At(f, o + 2, Len(b)) = b
    BY <1>6, <2>1, <2>2, <2>4, PartRead, Zenon
  <2>7. PairAt(f, i) = <<Number(a), AsScalar(b)>>
    BY <2>1, <2>2, <2>5, <2>6, Zenon DEF PairAt
  <2>8. QED
    BY <1>2, <2>2, <2>7, Zenon
<1>8. f = Values(cs)
  BY DEF Values, f, blocks
<1>9. [i \in 1 .. n |-> PairAt(f, i)] = cs
  <2>1. [i \in 1 .. n |-> PairAt(f, i)] = [i \in 1 .. n |-> cs[i]]
    BY <1>7, Zenon
  <2>2. QED
    BY <1>1, <2>1, Zenon
<1>10. QED
  BY <1>6, <1>8, <1>9, Zenon

(* The header of a frame: its first fields, as both drivers write them.    *)
FrameHeader(seqno, ts, count) ==
    StreamMagic \o U(Session, 4) \o U(seqno, 4) \o Scalar(ts, 8) \o U(count, 2)

LEMMA FrameHeaderFacts ==
  ASSUME NEW seqno \in Nat, NEW ts \in Stands, NEW count \in Nat
  PROVE  LET h == FrameHeader(seqno, ts, count) IN
         /\ h \in Seq(Cell) /\ Len(h) = 22
         /\ Part(h, 0, StreamMagic) /\ Part(h, 4, U(Session, 4)) /\ Part(h, 8, U(seqno, 4))
         /\ Part(h, 12, Scalar(ts, 8)) /\ Part(h, 20, U(count, 2))
<1> DEFINE a == U(Session, 4)
           b == U(seqno, 4)
           c == Scalar(ts, 8)
           d == U(count, 2)
           h == StreamMagic \o a \o b \o c \o d
<1>1. 2 \in Nat /\ 4 \in Nat /\ Session \in Nat
  BY SessionNumber
<1>2. /\ a \in Seq(Cell) /\ Len(a) = 4 /\ b \in Seq(Cell) /\ Len(b) = 4
      /\ c \in Seq(Cell) /\ Len(c) = 8 /\ d \in Seq(Cell) /\ Len(d) = 2
      /\ StreamMagic \in Seq(Cell) /\ Len(StreamMagic) = 4
  <2>1. a \in Seq(Cell) /\ Len(a) = 4
    BY <1>1, UFacts, Zenon
  <2>2. b \in Seq(Cell) /\ Len(b) = 4
    BY <1>1, UFacts, Zenon
  <2>3. d \in Seq(Cell) /\ Len(d) = 2
    BY <1>1, UFacts, Zenon
  <2>4. c \in Seq(Cell) /\ Len(c) = 8
    BY ScalarFacts, Zenon
  <2>5. QED
    BY <2>1, <2>2, <2>3, <2>4, MagicFacts, Zenon
<1> HIDE DEF a, b, c, d
<1>3. /\ h \in Seq(Cell) /\ Len(h) = Len(StreamMagic) + Len(a) + Len(b) + Len(c) + Len(d)
      /\ Part(h, 0, StreamMagic) /\ Part(h, Len(StreamMagic), a) /\ Part(h, Len(StreamMagic) + Len(a), b)
      /\ Part(h, Len(StreamMagic) + Len(a) + Len(b), c)
      /\ Part(h, Len(StreamMagic) + Len(a) + Len(b) + Len(c), d)
  BY <1>2, Five, Zenon
<1> HIDE DEF h
<1>4. /\ Len(StreamMagic) + Len(a) = 8 /\ Len(StreamMagic) + Len(a) + Len(b) = 12
      /\ Len(StreamMagic) + Len(a) + Len(b) + Len(c) = 20
      /\ Len(StreamMagic) + Len(a) + Len(b) + Len(c) + Len(d) = 22
  BY <1>2
<1>5. /\ h \in Seq(Cell) /\ Len(h) = 22
      /\ Part(h, 0, StreamMagic) /\ Part(h, 4, a) /\ Part(h, 8, b) /\ Part(h, 12, c) /\ Part(h, 20, d)
  BY <1>2, <1>3, <1>4, Zenon
<1>6. QED
  BY <1>5 DEF FrameHeader, h, a, b, c, d

(* A frame of server.py is none to an engineer: a header one byte longer   *)
(* is read, and then the last channel is not whole.                        *)
LEMMA NoFrame ==
  ASSUME NEW seqno \in Nat, NEW ts \in Stands, NEW cs \in Seq(Pair), NEW n \in Uint16, n = Len(cs)
  PROVE  DecodeTelemetryFrame(FrameHeader(seqno, ts, n) \o Values(cs)) = Raises
<1> DEFINE h == FrameHeader(seqno, ts, n)
           v == Values(cs)
           p == h \o v
           rest == From(p, 23)
<1>1. n \in Nat
  BY Uint16Facts, Zenon
<1>2. h \in Seq(Cell) /\ Len(h) = 22 /\ Part(h, 20, U(n, 2))
  BY <1>1, FrameHeaderFacts, Zenon
<1>3. v \in Seq(Cell) /\ Len(v) = n * 10
  BY <1>1, ValuesFacts, Zenon
<1> HIDE DEF h, v
<1>4. p \in Seq(Cell) /\ Len(p) = Len(h) + Len(v) /\ Part(p, 20, U(n, 2))
  <2>1. 20 \in Nat /\ U(n, 2) \in Seq(Cell)
    BY <1>1, UFacts
  <2>2. QED
    BY <1>2, <1>3, <2>1, Joined, Zenon
<1> HIDE DEF p
<1>5. Len(p) = 22 + n * 10 /\ n * 10 \in Nat
  <2>1. n * 10 \in Nat
    BY <1>1
  <2>2. QED
    BY <1>2, <1>3, <1>4, <2>1, Zenon
<1>6. Number(At(p, 20, 2)) = n
  <2>1. 20 \in Nat /\ 2 \in Nat
    OBVIOUS
  <2>2. U(n, 2) \in Seq(Cell) /\ Len(U(n, 2)) = 2
    BY <1>1, <2>1, UFacts, Zenon
  <2>3. At(p, 20, Len(U(n, 2))) = U(n, 2)
    BY <1>4, <2>1, <2>2, PartRead, Zenon
  <2>4. QED
    BY <2>2, <2>3, ReadBack, Zenon
<1>7. DecodeTelemetryFrame(p) = Raises
  <2>1. ASSUME Len(p) < TelemHdrSize PROVE DecodeTelemetryFrame(p) = Raises
    BY <2>1, Zenon DEF DecodeTelemetryFrame
  <2>2. ASSUME ~(Len(p) < TelemHdrSize) PROVE DecodeTelemetryFrame(p) = Raises
    <3>1. Len(p) >= 23
      BY <1>5, <2>2 DEF TelemHdrSize
    <3>2. rest \in Seq(Cell) /\ Len(rest) = Len(p) - 23
      <4>1. 23 \in Nat /\ 23 <= Len(p)
        BY <3>1
      <4>2. QED
        BY <1>4, <4>1, FromWithin, Zenon
    <3>3. Len(rest) < n * TelemChannelSize
      BY <1>5, <3>2 DEF TelemChannelSize
    <3> HIDE DEF rest
    <3>4. Whole("lz4", rest) = Raises
      <4>1. rest # <<>> => rest[1] \in Cell
        BY <3>2
      <4>2. \A c \in Cell : c[1] # "lz4"
        <5>1. ASSUME NEW c \in Cell PROVE c[1] # "lz4"
          <6>1. c[1] = "byte" \/ c[1] \in {"text", "scalar"}
            BY CellFacts
          <6>2. QED
            BY <6>1
        <5>2. QED
          BY <5>1
      <4>3. QED
        BY <4>1, <4>2, Zenon DEF Whole
    <3> DEFINE payload == IF Number(At(p, 22, 1)) = 0 THEN Gives(rest) ELSE Whole("lz4", rest)
    <3>5. payload = Raises \/ Len(payload[1]) < n * TelemChannelSize
      <4>1. payload = Raises \/ payload[1] = rest
        BY <3>4, GivesFacts, Zenon
      <4> HIDE DEF payload
      <4>2. QED
        BY <3>3, <4>1, Zenon
    <3>6. From(p, TelemHdrSize) = rest
      BY DEF rest, TelemHdrSize
    <3>7. QED
      BY <1>6, <3>5, <3>6, Zenon DEF DecodeTelemetryFrame
  <2>3. QED
    BY <2>1, <2>2, Zenon
<1>8. QED
  BY <1>7, Zenon DEF p, h, v

(* The cells of a frame, compressed or not.                                *)
FrameCell(raw) == Cell \cup ({"lz4"} \X {raw} \X Nat \X Nat)

(* What has been sent as a frame reads back as that frame.                 *)
LEMMA FrameBack ==
  ASSUME NEW seqno \in Nat, seqno < Huge, NEW ts \in Stands, NEW cs \in Seq(Pair),
         NEW n \in Uint16, n = Len(cs), NEW flag \in {0, 1}, NEW body,
         body = IF flag = 1 THEN Compressed("lz4", Values(cs)) ELSE Values(cs)
  PROVE  DecodeTelemetryFrame(FrameHeader(seqno, ts, n) \o U(flag, 1) \o body) =
           Gives([session |-> Session, seq |-> seqno, ts |-> ts, channels |-> cs])
<1> DEFINE h == FrameHeader(seqno, ts, n)
           raw == Values(cs)
           fl == U(flag, 1)
           p == h \o fl \o body
           S == FrameCell(raw)
<1>1. n \in Nat
  BY Uint16Facts, Zenon
<1>2. /\ h \in Seq(Cell) /\ Len(h) = 22
      /\ Part(h, 0, StreamMagic) /\ Part(h, 4, U(Session, 4)) /\ Part(h, 8, U(seqno, 4))
      /\ Part(h, 12, Scalar(ts, 8)) /\ Part(h, 20, U(n, 2))
  BY <1>1, FrameHeaderFacts, Zenon
<1>3. raw \in Seq(Cell) /\ Len(raw) = n * 10 /\ [i \in 1 .. n |-> PairAt(raw, i)] = cs
  BY <1>1, ValuesFacts, Zenon
<1>4. fl \in Seq(Cell) /\ Len(fl) = 1 /\ Number(fl) = flag
  <2>1. flag \in Nat /\ 1 \in Nat /\ flag \in 0 .. 255
    OBVIOUS
  <2>2. QED
    BY <2>1, UFacts, ReadBack, Zenon
<1> HIDE DEF h, raw, fl
<1>5. \A q \in Seq(Cell) : q \in Seq(S)
  <2>1. Cell \subseteq S
    BY DEF FrameCell
  <2> HIDE DEF S
  <2>2. QED
    BY <2>1
<1>6. /\ body \in Seq(S)
      /\ flag = 0 => body = raw
      /\ flag # 0 => Whole("lz4", body) = Gives(raw)
  <2>1. CASE flag = 0
    BY <1>3, <1>5, <2>1 DEF raw
  <2>2. CASE flag # 0
    <3>1. body = Opaque("lz4", raw, 9)
      BY <2>2 DEF Compressed, raw
    <3>2. \A k \in 1 .. 9 : <<"lz4", raw, k, 9>> \in S
      BY DEF FrameCell
    <3>3. body = [k \in 1 .. 9 |-> <<"lz4", raw, k, 9>>]
      BY <3>1, Zenon DEF Opaque
    <3>4. body \in Seq(S)
      <4>1. ASSUME NEW T, NEW g, NEW x, NEW y,
                   g = [k \in 1 .. 9 |-> <<x, y, k, 9>>],
                   \A k \in 1 .. 9 : <<x, y, k, 9>> \in T
            PROVE  g \in Seq(T)
        <5>1. g \in [1 .. 9 -> T]
          BY <4>1, Zenon
        <5>2. 9 \in Nat
          OBVIOUS
        <5>3. \A m \in Nat : [1 .. m -> T] \subseteq Seq(T)
          OBVIOUS
        <5>4. QED
          BY <5>1, <5>2, <5>3, Zenon
      <4> HIDE DEF S
      <4>2. QED
        BY <3>2, <3>3, <4>1, Zenon
    <3>5. 9 \in Nat \ {0}
      OBVIOUS
    <3>6. Whole("lz4", body) = Gives(raw)
      BY <3>1, <3>5, WholeOpaque, Zenon
    <3>7. QED
      BY <2>2, <3>4, <3>6
  <2>3. QED
    BY <2>1, <2>2
<1> HIDE DEF S
<1>7. /\ p \in Seq(S) /\ Len(p) = Len(h) + Len(fl) + Len(body)
      /\ Part(p, 0, h) /\ Part(p, Len(h), fl) /\ Part(p, Len(h) + Len(fl), body)
  <2>1. h \in Seq(S) /\ fl \in Seq(S) /\ body \in Seq(S)
    BY <1>2, <1>4, <1>5, <1>6, Zenon
  <2>2. QED
    BY <2>1, Three
<1> HIDE DEF p
<1>8. PICK l \in Nat : l = Len(body)
  BY <1>6
<1>9. Len(p) = 23 + l /\ Part(p, 22, fl) /\ Part(p, 23, body)
  <2>1. Len(h) + Len(fl) = 23
    BY <1>2, <1>4
  <2>2. QED
    BY <1>2, <1>7, <1>8, <2>1, Zenon
<1>10. ASSUME NEW o \in Nat, NEW x \in Seq(Cell), Part(h, o, x)
       PROVE  At(p, o, Len(x)) = x
  <2>1. h \in Seq(S) /\ x \in Seq(S) /\ 0 \in Nat /\ 0 + o = o
    BY <1>2, <1>5
  <2>2. Part(p, 0 + o, x)
    BY <1>7, <1>10, <2>1, PartOfPart, Zenon
  <2>3. Part(p, o, x)
    BY <2>1, <2>2, Zenon
  <2>4. QED
    BY <1>7, <2>1, <2>3, PartRead, Zenon
<1>11. 0 \in Nat /\ 1 \in Nat /\ 2 \in Nat /\ 4 \in Nat /\ 8 \in Nat /\ 12 \in Nat /\ 20 \in Nat /\ 22 \in Nat
       /\ 23 \in Nat
  OBVIOUS
<1>12. ASSUME NEW o \in Nat, NEW m \in Nat, NEW w \in Nat, Part(h, o, U(m, w))
       PROVE  At(p, o, w) = U(m, w)
  <2>1. U(m, w) \in Seq(Cell) /\ Len(U(m, w)) = w
    BY UFacts, Zenon
  <2>2. At(p, o, Len(U(m, w))) = U(m, w)
    BY <1>10, <1>12, <2>1, Zenon
  <2>3. QED
    BY <2>1, <2>2, Zenon
<1>13. At(p, 0, 4) = StreamMagic
  <2>1. At(p, 0, Len(StreamMagic)) = StreamMagic
    BY <1>2, <1>10, <1>11, MagicFacts, Zenon
  <2>2. QED
    BY <2>1, MagicFacts, Zenon
<1>14. Number(At(p, 4, 4)) = Session
  <2>1. At(p, 4, 4) = U(Session, 4)
    BY <1>2, <1>11, <1>12, SessionNumber
  <2>2. QED
    BY <2>1, SessionNumber, Zenon
<1>15. Number(At(p, 8, 4)) = seqno
  <2>1. At(p, 8, 4) = U(seqno, 4)
    BY <1>2, <1>11, <1>12
  <2>2. QED
    BY <2>1, ReadBack, Zenon
<1>16. Number(At(p, 20, 2)) = n
  <2>1. At(p, 20, 2) = U(n, 2)
    BY <1>1, <1>2, <1>11, <1>12
  <2>2. QED
    BY <2>1, ReadBack, Zenon
<1>17. AsScalar(At(p, 12, 8)) = ts
  <2> DEFINE s == Scalar(ts, 8)
  <2>1. s \in Seq(Cell) /\ Len(s) = 8 /\ AsScalar(s) = ts /\ Part(h, 12, s)
    BY <1>2, ScalarFacts, Zenon
  <2> HIDE DEF s
  <2>2. At(p, 12, Len(s)) = s
    BY <1>10, <1>11, <2>1, Zenon
  <2>3. QED
    BY <2>1, <2>2, Zenon
<1>18. Number(At(p, 22, 1)) = flag
  <2>1. fl \in Seq(S)
    BY <1>4, <1>5, Zenon
  <2>2. At(p, 22, Len(fl)) = fl
    BY <1>7, <1>9, <1>11, <2>1, PartRead, Zenon
  <2>3. QED
    BY <1>4, <2>2, Zenon
<1>19. From(p, TelemHdrSize) = body
  <2>1. 23 + Len(body) = Len(p)
    BY <1>8, <1>9
  <2>2. From(p, 23) = body
    BY <1>6, <1>7, <1>9, <1>11, <2>1, PartFrom, Zenon
  <2>3. QED
    BY <2>2 DEF TelemHdrSize
<1> DEFINE payload == IF Number(At(p, 22, 1)) = 0 THEN Gives(body) ELSE Whole("lz4", body)
<1>20. payload # Raises /\ payload[1] = raw
  <2>1. payload = Gives(raw)
    BY <1>6, <1>18, Zenon
  <2> HIDE DEF payload
  <2>2. QED
    BY <2>1, GivesFacts, Zenon
<1>21. ~(Len(p) < TelemHdrSize) /\ ~(Len(raw) < n * TelemChannelSize)
  <2>1. ~(Len(p) < TelemHdrSize)
    BY <1>8, <1>9 DEF TelemHdrSize
  <2>2. n * 10 \in Nat
    BY <1>1
  <2>3. ~(Len(raw) < n * TelemChannelSize)
    BY <1>3, <2>2 DEF TelemChannelSize
  <2>4. QED
    BY <2>1, <2>3
<1>22. [i \in 1 .. n |-> <<Number(At(raw, TelemChannelSize * (i - 1), 2)),
                           AsScalar(At(raw, TelemChannelSize * (i - 1) + 2, 8))>>] = cs
  BY <1>3, Zenon DEF PairAt
<1>23. DecodeTelemetryFrame(p) = Gives([session |-> Session, seq |-> seqno, ts |-> ts, channels |-> cs])
  BY <1>13, <1>14, <1>15, <1>16, <1>17, <1>19, <1>20, <1>21, <1>22, Zenon DEF DecodeTelemetryFrame
<1>24. QED
  BY <1>23, Zenon DEF p, h, fl

(* A frame with its values: what is pushed, and what is selected of it.    *)
Shape(f, seqno, ts, cs) == f = [session |-> Session, seq |-> seqno, ts |-> ts, channels |-> cs]

(* What streamer.py sends of a frame is read as that frame.                *)
LEMMA FrameSent ==
  ASSUME NEW seqno \in Nat, seqno < Huge, NEW ts \in Stands, NEW cs \in Seq(Pair),
         NEW n \in Uint16, n = Len(cs), NEW f, Shape(f, seqno, ts, cs),
         NEW compress, EncodeTelemetryFrame(f, compress) # Raises
  PROVE  DecodeTelemetryFrame(EncodeTelemetryFrame(f, compress)[1]) = Gives(f)
<1>1. f.session = Session /\ f.seq = seqno /\ f.ts = ts /\ f.channels = cs
  BY DEF Shape
<1> DEFINE head == FrameHeader(seqno, ts, n)
           raw == Values(cs)
           p(flag, body) == head \o U(flag, 1) \o body
<1>2. CASE compress /\ raw # <<>>
  <2> DEFINE body == Compressed("lz4", raw)
  <2>1. EncodeTelemetryFrame(f, compress)
          = IF Len(p(1, body)) > MaxUdpPayload THEN Raises ELSE Gives(p(1, body))
    BY <1>1, <1>2, Zenon DEF EncodeTelemetryFrame, FrameHeader
  <2>2. 1 \in {0, 1}
    OBVIOUS
  <2>3. DecodeTelemetryFrame(p(1, body)) = Gives([session |-> Session, seq |-> seqno, ts |-> ts, channels |-> cs])
    BY <2>2, FrameBack
  <2> HIDE DEF p, body
  <2>4. EncodeTelemetryFrame(f, compress)[1] = p(1, body)
    BY <2>1, GivesFacts, Zenon
  <2>5. QED
    BY <2>3, <2>4, Zenon DEF Shape
<1>3. CASE ~(compress /\ raw # <<>>)
  <2>1. EncodeTelemetryFrame(f, compress)
          = IF Len(p(0, raw)) > MaxUdpPayload THEN Raises ELSE Gives(p(0, raw))
    BY <1>1, <1>3, Zenon DEF EncodeTelemetryFrame, FrameHeader
  <2>2. 0 \in {0, 1} /\ 0 # 1
    OBVIOUS
  <2>3. DecodeTelemetryFrame(p(0, raw)) = Gives([session |-> Session, seq |-> seqno, ts |-> ts, channels |-> cs])
    BY <2>2, FrameBack
  <2> HIDE DEF p, raw
  <2>4. EncodeTelemetryFrame(f, compress)[1] = p(0, raw)
    BY <2>1, GivesFacts, Zenon
  <2>5. QED
    BY <2>3, <2>4, Zenon DEF Shape
<1>4. QED
  BY <1>2, <1>3, Zenon

(* What server.py sends of a frame is none to an engineer.                 *)
LEMMA FrameBuilt ==
  ASSUME NEW seqno \in Nat, NEW ts \in Stands, NEW cs \in Seq(Pair), NEW f, Shape(f, seqno, ts, cs), NEW mask
  PROVE  DecodeTelemetryFrame(BuildTelemetryFrame(f, mask)) = Raises
<1>1. f.session = Session /\ f.seq = seqno /\ f.ts = ts /\ f.channels = cs
  BY DEF Shape
<1> DEFINE all == [i \in DOMAIN ServerChannels |-> ServerChannels[i].id]
           S == {id \in mask : \E c \in ToSet(f.channels) : c[1] = id}
           ids == Keep(all, S)
           value(id) == (CHOOSE c \in ToSet(f.channels) : c[1] = id)[2]
           subset == [i \in DOMAIN ids |-> <<ids[i], value(ids[i])>>]
<1>2. all \in Seq(Uint16) /\ Len(all) = 14
  <2>1. ServerChannels \in Seq(Info) /\ Len(ServerChannels) = 14
    BY ServerList DEF Lists, ServerChannels
  <2>2. \A e \in Info : e.id \in Uint16
    BY DEF Info
  <2>3. DOMAIN ServerChannels = 1 .. 14 /\ \A i \in 1 .. 14 : ServerChannels[i] \in Info
    <3>1. \A q \in Seq(Info) : DOMAIN q = 1 .. Len(q) /\ \A i \in 1 .. Len(q) : q[i] \in Info
      OBVIOUS
    <3>2. QED
      BY <2>1, <3>1, Zenon
  <2>4. \A i \in 1 .. 14 : ServerChannels[i].id \in Uint16
    BY <2>2, <2>3, Zenon
  <2>5. all = [i \in 1 .. 14 |-> ServerChannels[i].id]
    BY <2>3, Zenon
  <2> HIDE DEF all
  <2>6. QED
    BY <2>4, <2>5
<1> HIDE DEF all
<1>3. ids \in Seq(Uint16) /\ Len(ids) \in Nat /\ Len(ids) <= 14
  <2>1. ids \in Seq(Uint16)
    BY <1>2, KeepFacts
  <2>2. Len(ids) \in Nat /\ Len(ids) <= Len(all)
    BY <1>2, KeepLength, Zenon
  <2>3. QED
    BY <1>2, <2>1, <2>2
<1>4. \A x \in ToSet(ids) : x \in S
  BY <1>2, KeepFacts, Zenon
<1> HIDE DEF ids
<1>5. \A i \in DOMAIN ids : ids[i] \in Uint16 /\ value(ids[i]) \in Stands
  <2>1. ASSUME NEW i \in DOMAIN ids PROVE ids[i] \in Uint16 /\ value(ids[i]) \in Stands
    <3>1. ids[i] \in Uint16
      BY <1>3
    <3>2. ids[i] \in S
      BY <1>4, Zenon DEF ToSet
    <3>3. \E c \in ToSet(f.channels) : c[1] = ids[i]
      BY <3>2, Zenon
    <3>4. (CHOOSE c \in ToSet(f.channels) : c[1] = ids[i]) \in ToSet(f.channels)
      BY <3>3, Zenon
    <3>5. \A c \in ToSet(cs) : c \in Pair
      BY DEF ToSet
    <3>6. \A c \in Pair : c[2] \in Stands
      BY DEF Pair
    <3>7. QED
      BY <1>1, <3>1, <3>4, <3>5, <3>6, Zenon
  <2>2. QED
    BY <2>1, Zenon
<1> HIDE DEF value, S
<1>6. PICK l \in Nat : l = Len(ids) /\ l <= 14 /\ DOMAIN ids = 1 .. l
  BY <1>3
<1>7. subset \in Seq(Pair) /\ Len(subset) = l
  <2>1. \A i \in 1 .. l : <<ids[i], value(ids[i])>> \in Pair
    BY <1>5, <1>6, Zenon DEF Pair
  <2>2. subset = [i \in 1 .. l |-> <<ids[i], value(ids[i])>>]
    BY <1>6, Zenon
  <2> HIDE DEF subset
  <2>3. QED
    BY <2>1, <2>2
<1>8. l \in Uint16
  <2>1. l < 256 * 256
    BY <1>6
  <2>2. QED
    BY <2>1, Uint16Facts, Zenon
<1>9. BuildTelemetryFrame(f, mask) = FrameHeader(seqno, ts, Len(subset)) \o Values(subset)
  BY <1>1, Zenon DEF BuildTelemetryFrame, FrameHeader, subset, value, ids, S, all
<1> HIDE DEF subset
<1>10. DecodeTelemetryFrame(FrameHeader(seqno, ts, l) \o Values(subset)) = Raises
  BY <1>7, <1>8, NoFrame, Zenon
<1>11. QED
  BY <1>7, <1>9, <1>10, Zenon

(* What is sent and received in frames.                                    *)
Pushed ==
    /\ seq \in Nat
    /\ Shakes(dstate) => datagrams = {} /\ frame = <<>>
    /\ \A d \in datagrams : DecodeTelemetryFrame(d.bytes) # Raises =>
         DecodeTelemetryFrame(d.bytes)[1] = Selected(d.frame, client.ids)
    /\ FramesTrue

(* The values a driver has for its channels, and one for none of them.     *)
LEMMA FrameNowFacts ==
  ASSUME Parties, seq \in Nat
  PROVE  \E ts \in Stands, cs \in Seq(Pair) : Shape(FrameNow, seq, ts, cs) /\ Len(cs) <= 3
<1> DEFINE ts == <<"t0", "t1">>[(seq % 2) + 1]
           n == Min({2, Len(channels)})
           first == <<<<900, "x">>>>
           rest == [i \in 1..n |-> <<channels[n + 1 - i].id, <<"u", "v">>[i]>>]
           cs == first \o rest
<1>1. ts \in Stands
  <2>1. (seq % 2) + 1 = 1 \/ (seq % 2) + 1 = 2
    <3>1. \A k \in Nat : k % 2 = 0 \/ k % 2 = 1
      OBVIOUS
    <3>2. seq % 2 = 0 \/ seq % 2 = 1
      BY <3>1, Zenon
    <3>3. QED
      BY <3>2
  <2>2. "t0" \in Stands /\ "t1" \in Stands
    BY DEF Stands
  <2> HIDE DEF ts
  <2>3. ts = "t0" \/ ts = "t1"
    BY <2>1 DEF ts
  <2>4. QED
    BY <2>2, <2>3
<1>2. channels \in Seq(Info) /\ Len(channels) \in Nat
  <2>1. channels \in Seq(Info)
    BY Zenon DEF Parties, Lists
  <2>2. QED
    BY <2>1
<1>3. n \in 0 .. 2 /\ n <= Len(channels)
  <2>1. n = IF 2 <= Len(channels) THEN 2 ELSE Len(channels)
    <3>1. 2 \in Int /\ Len(channels) \in Int
      BY <1>2
    <3>2. QED
      BY <3>1, MinOfTwo, Zenon
  <2>2. PICK l \in Nat : l = Len(channels)
    BY <1>2
  <2>3. n = IF 2 <= l THEN 2 ELSE l
    BY <2>1, <2>2, Zenon
  <2> HIDE DEF n
  <2>4. n \in 0 .. 2 /\ n <= l
    BY <2>3
  <2>5. QED
    BY <2>2, <2>4, Zenon
<1>4. 900 \in Uint16
  <2>1. 900 \in Nat /\ 900 < 256 * 256
    BY SMT
  <2>2. QED
    BY <2>1, Uint16Facts
<1>5. "v" \in Stands /\ "x" \in Stands /\ "u" \in Stands
  BY DEF Stands
<1> HIDE DEF n
<1>6. ASSUME NEW i \in 1 .. n
      PROVE  <<channels[n + 1 - i].id, <<"u", "v">>[i]>> \in Pair
  <2>1. n + 1 - i \in 1 .. Len(channels) /\ i \in {1, 2}
    BY <1>2, <1>3
  <2>2. channels[n + 1 - i] \in Info
    BY <1>2, <2>1
  <2>3. \A e \in Info : e.id \in Uint16
    BY DEF Info
  <2>4. channels[n + 1 - i].id \in Uint16
    BY <2>2, <2>3, Zenon
  <2>5. <<"u", "v">>[i] = "u" \/ <<"u", "v">>[i] = "v"
    BY <2>1
  <2>6. <<"u", "v">>[i] \in Stands
    BY <1>5, <2>5, Zenon
  <2>7. QED
    BY <2>4, <2>6, Zenon DEF Pair
<1>7. rest \in Seq(Pair) /\ Len(rest) = n
  <2> DEFINE g(i) == <<channels[n + 1 - i].id, <<"u", "v">>[i]>>
  <2>1. \A i \in 1 .. n : g(i) \in Pair
    BY <1>6, Zenon
  <2>2. rest = [i \in 1 .. n |-> g(i)]
    OBVIOUS
  <2> HIDE DEF g, rest
  <2>3. n \in Nat
    BY <1>3
  <2>4. QED
    BY <2>1, <2>2, <2>3
<1>8. first \in Seq(Pair) /\ Len(first) = 1
  <2>1. <<900, "x">> \in Pair
    BY <1>4, <1>5, Zenon DEF Pair
  <2>2. \A A : \A x \in A : <<x>> \in Seq(A) /\ Len(<<x>>) = 1
    OBVIOUS
  <2>3. QED
    BY <2>1, <2>2, Zenon
<1>9. Shape(FrameNow, seq, ts, cs)
  BY Zenon DEF Shape, FrameNow, ts, cs, first, rest, n
<1> HIDE DEF ts, first, rest
<1>10. cs \in Seq(Pair) /\ Len(cs) <= 3
  <2>1. cs \in Seq(Pair) /\ Len(cs) = Len(first) + Len(rest)
    BY <1>7, <1>8, ConcatProperties
  <2>2. QED
    BY <1>3, <1>7, <1>8, <2>1
<1> HIDE DEF cs
<1>11. QED
  BY <1>1, <1>9, <1>10, Zenon

LEMMA SelectedShape ==
  ASSUME NEW f, NEW seqno, NEW ts, NEW cs \in Seq(Pair), Len(cs) <= 3, Shape(f, seqno, ts, cs), NEW ids
  PROVE  \E part \in Seq(Pair) : Shape(Selected(f, ids), seqno, ts, part) /\ Len(part) \in Uint16
<1> DEFINE part == Keep(cs, {c \in ToSet(cs) : c[1] \in ids})
<1>1. f.channels = cs
  BY DEF Shape
<1>2. Subset(f, ids) = [f EXCEPT !.channels = part]
  BY <1>1, Zenon DEF Subset
<1>3. part \in Seq(Pair)
  BY KeepFacts, Zenon
<1>4. Len(part) \in Nat /\ Len(part) <= Len(cs)
  BY KeepLength, Zenon
<1> HIDE DEF part
<1>5. Shape(Subset(f, ids), seqno, ts, part)
  BY <1>2 DEF Shape
<1>6. \A n \in Nat : n <= 3 => n \in Uint16
  <2>1. \A n \in Nat : n <= 3 => n < 256 * 256
    OBVIOUS
  <2>2. QED
    BY <2>1, Uint16Facts, Zenon
<1>7. Len(part) \in Uint16 /\ Len(cs) \in Uint16
  <2>1. Len(cs) \in Nat /\ Len(part) <= 3
    BY <1>4
  <2>2. QED
    BY <1>4, <1>6, <2>1, Zenon
<1>8. CASE ids = {}
  BY <1>7, <1>8, Zenon DEF Selected
<1>9. CASE ids # {}
  BY <1>3, <1>5, <1>7, <1>9, Zenon DEF Selected
<1>10. QED
  BY <1>8, <1>9, Zenon

(* What is pushed is none to an engineer, or the frame with the channels   *)
(* it has subscribed to.                                                   *)
LEMMA PushedTrue ==
  ASSUME Parties, seq \in Nat, PushFrame, NEW d \in datagrams', d \notin datagrams
  PROVE  /\ d.frame = FrameNow
         /\ \/ DecodeTelemetryFrame(d.bytes) = Raises
            \/ DecodeTelemetryFrame(d.bytes) = Gives(Selected(FrameNow, client.ids))
<1> DEFINE f == FrameNow
           part == Selected(f, client.ids)
<1>1. PICK ts \in Stands, cs \in Seq(Pair) : Shape(f, seq, ts, cs) /\ Len(cs) <= 3
  BY FrameNowFacts, Zenon
<1>2. PICK s \in Seq(Pair) : Shape(part, seq, ts, s) /\ Len(s) \in Uint16
  BY <1>1, SelectedShape, Zenon
<1>3. seq < Huge
  <2>1. Huge \in Nat
    BY Powers DEF Huge
  <2>2. seq < MaxFrames
    BY Zenon DEF PushFrame
  <2>3. QED
    BY <2>1, <2>2, BoundsAssumption
<1> HIDE DEF f, part
<1>4. CASE driver = "server"
  <2>1. d = [port |-> client.port, frame |-> f, bytes |-> BuildTelemetryFrame(f, client.ids)]
    <3>1. datagrams' = datagrams \cup
            {[port |-> client.port, frame |-> f, bytes |-> BuildTelemetryFrame(f, client.ids)]}
      BY <1>4, Zenon DEF PushFrame, f
    <3>2. QED
      BY <3>1, Zenon
  <2>2. DecodeTelemetryFrame(BuildTelemetryFrame(f, client.ids)) = Raises
    BY <1>1, FrameBuilt, Zenon
  <2>3. d.frame = f /\ d.bytes = BuildTelemetryFrame(f, client.ids)
    BY <2>1
  <2>4. QED
    BY <2>2, <2>3, Zenon DEF f
<1>5. CASE driver # "server"
  <2>1. PICK compress \in BOOLEAN :
           /\ EncodeTelemetryFrame(part, compress) # Raises
           /\ datagrams' = datagrams \cup
                {[port |-> client.port, frame |-> f, bytes |-> EncodeTelemetryFrame(part, compress)[1]]}
    <3>1. \E compress \in BOOLEAN :
            IF part.channels = <<>> \/ EncodeTelemetryFrame(part, compress) = Raises
            THEN UNCHANGED datagrams
            ELSE datagrams' = datagrams \cup
                   {[port |-> client.port, frame |-> f, bytes |-> EncodeTelemetryFrame(part, compress)[1]]}
      BY <1>5, Zenon DEF PushFrame, f, part
    <3>2. QED
      BY <3>1, Zenon
  <2>2. DecodeTelemetryFrame(EncodeTelemetryFrame(part, compress)[1]) = Gives(part)
    BY <1>2, <1>3, <2>1, FrameSent
  <2>3. PICK packet : packet = EncodeTelemetryFrame(part, compress)[1]
    BY Zenon
  <2>4. d = [port |-> client.port, frame |-> f, bytes |-> packet]
    BY <2>1, <2>3, Zenon
  <2>5. d.frame = f /\ d.bytes = packet
    BY <2>4
  <2>6. QED
    BY <2>2, <2>3, <2>5, Zenon DEF f, part
<1>6. QED
  BY <1>4, <1>5, Zenon

LEMMA PushStep ==
  ASSUME Parties, Pushed, PushFrame
  PROVE  Pushed'
<1>1. seq' = seq + 1 /\ dstate \in Driving /\ dstate' = dstate /\ client' = client /\ frame' = frame
  BY DEF PushFrame, control
<1>2. seq \in Nat /\ seq' \in Nat
  BY <1>1 DEF Pushed
<1>3. ~Shakes(dstate)'
  BY <1>1 DEF Shakes, Driving
<1>4. ASSUME NEW d \in datagrams', DecodeTelemetryFrame(d.bytes) # Raises
      PROVE  DecodeTelemetryFrame(d.bytes)[1] = Selected(d.frame, client.ids)
  <2>1. CASE d \in datagrams
    BY <1>4, <2>1, Zenon DEF Pushed
  <2>2. CASE d \notin datagrams
    <3>1. /\ d.frame = FrameNow
          /\ \/ DecodeTelemetryFrame(d.bytes) = Raises
             \/ DecodeTelemetryFrame(d.bytes) = Gives(Selected(FrameNow, client.ids))
      BY <1>2, <2>2, PushedTrue, Zenon
    <3>2. QED
      BY <1>4, <3>1, GivesFacts, Zenon
  <2>3. QED
    BY <2>1, <2>2, Zenon
<1>5. FramesTrue'
  BY <1>1, Zenon DEF Pushed, FramesTrue
<1>6. QED
  BY <1>1, <1>2, <1>3, <1>4, <1>5, Zenon DEF Pushed

LEMMA ReceiveStep ==
  ASSUME Pushed, Receive
  PROVE  Pushed'
<1>1. PICK d \in datagrams : frame' = <<DecodeTelemetryFrame(d.bytes), d.frame>>
  BY Zenon DEF Receive
<1>2. datagrams' = datagrams /\ seq' = seq /\ client' = client /\ dstate' = dstate
  BY DEF Receive, control
<1> DEFINE decoded == DecodeTelemetryFrame(d.bytes)
           whole == d.frame
<1>3. ~Shakes(dstate)
  BY <1>1, Zenon DEF Pushed
<1>4. decoded # Raises => decoded[1] = Selected(whole, client.ids)
  BY <1>1, Zenon DEF Pushed
<1> HIDE DEF decoded, whole
<1>5. frame' = <<decoded, whole>>
  BY <1>1, Zenon DEF decoded, whole
<1>6. frame'[1] = decoded /\ frame'[2] = whole
  BY <1>5
<1>7. FramesTrue'
  BY <1>2, <1>4, <1>6, Zenon DEF FramesTrue
<1>8. QED
  BY <1>2, <1>3, <1>7, Zenon DEF Pushed

(* A step that is about no frame leaves the subscription, except from the  *)
(* state in which none has been pushed.                                    *)
LEMMA PushedKept ==
  ASSUME Pushed, UNCHANGED telemetry,
         Shakes(dstate)' => Shakes(dstate),
         client' = client \/ Shakes(dstate)
  PROVE  Pushed'
<1>1. seq' = seq /\ datagrams' = datagrams /\ frame' = frame
  BY DEF telemetry
<1>2. CASE Shakes(dstate)
  <2>1. datagrams' = {} /\ frame' = <<>> /\ seq' \in Nat
    BY <1>1, <1>2, Zenon DEF Pushed
  <2>2. QED
    BY <2>1, Zenon DEF Pushed, FramesTrue
<1>3. CASE ~Shakes(dstate)
  BY <1>1, <1>3, Zenon DEF Pushed, FramesTrue
<1>4. QED
  BY <1>2, <1>3, Zenon

LEMMA PushedInductive ==
  IInv /\ Pushed /\ [Next]_vars => Pushed'
<1> SUFFICES ASSUME IInv, Pushed, [Next]_vars PROVE Pushed'
  OBVIOUS
<1>1. CASE Discover
  BY <1>1, PushedKept DEF Discover
<1>2. CASE EngineerConnects
  BY <1>2, PushedKept DEF EngineerConnects
<1>3. CASE DriverGreets
  <2>1. UNCHANGED telemetry /\ client' = client /\ dstate = "hello"
    BY <1>3, Zenon DEF DriverGreets
  <2>2. Shakes(dstate)
    BY <2>1 DEF Shakes
  <2>3. QED
    BY <2>1, <2>2, PushedKept, Zenon
<1>4. CASE EngineerSubscribes
  BY <1>4, PushedKept, Zenon DEF EngineerSubscribes
<1>5. CASE DriverSubscribes
  <2>1. UNCHANGED telemetry /\ dstate = "subscribe"
    BY <1>5, Zenon DEF DriverSubscribes
  <2>2. Shakes(dstate)
    BY <2>1 DEF Shakes
  <2>3. QED
    BY <2>1, <2>2, PushedKept, Zenon
<1>6. CASE EngineerSubscribed
  BY <1>6, PushedKept, Zenon DEF EngineerSubscribed
<1>7. CASE DriverSays
  <2>1. UNCHANGED telemetry /\ client' = client
    BY <1>7 DEF DriverSays
  <2>2. PICK b : dstate' = Leaves(Message(b), dstate)
    BY <1>7, Zenon DEF DriverSays
  <2>3. dstate' \in {dstate, "leaving"}
    BY <2>2 DEF Leaves
  <2>4. QED
    BY <2>1, <2>3, PushedKept DEF Shakes
<1>8. CASE EngineerSays
  BY <1>8, PushedKept, Zenon DEF EngineerSays
<1>9. CASE DriverReads
  <2>1. UNCHANGED telemetry /\ client' = client /\ dstate' \in {dstate, "over"}
    BY <1>9 DEF DriverReads
  <2>2. QED
    BY <2>1, PushedKept DEF Shakes
<1>10. CASE EngineerReads
  BY <1>10, PushedKept, Zenon DEF EngineerReads
<1>11. ASSUME NEW side \in {"driver", "engineer"}, Stall(side) \/ Broken(side) \/ Closes(side)
       PROVE  Pushed'
  <2>1. UNCHANGED telemetry /\ client' = client
    BY <1>11 DEF Stall, Broken, Closes
  <2>2. dstate' = dstate \/ dstate' \in {"over", "closed"}
    BY <1>11 DEF Stall, Broken, Closes, GivesUp
  <2>3. QED
    BY <2>1, <2>2, PushedKept DEF Shakes
<1>12. CASE PushFrame
  BY <1>12, PushStep, Zenon DEF IInv
<1>13. CASE Receive
  BY <1>13, ReceiveStep, Zenon
<1>14. CASE UNCHANGED vars
  <2>1. UNCHANGED telemetry /\ client' = client /\ dstate' = dstate
    BY <1>14 DEF vars, control
  <2>2. QED
    BY <2>1, PushedKept
<1>15. QED
  BY <1>1, <1>2, <1>3, <1>4, <1>5, <1>6, <1>7, <1>8, <1>9, <1>10, <1>11, <1>12, <1>13, <1>14, Zenon DEF Next

(* A datagram an engineer takes for a frame is a frame that was pushed,    *)
(* with the channels it has subscribed to, however late it comes, for any  *)
(* lists of channels and any subscription, empty ones included, compressed *)
(* or not; one of server.py is taken for none.                             *)
THEOREM Frames ==
  Spec => []FramesTrue
<1>1. Init => Pushed
  BY DEF Init, Pushed, FramesTrue
<1>2. Pushed => FramesTrue
  BY DEF Pushed
<1>3. QED
  BY <1>1, <1>2, Safety, PushedInductive, PTL DEF Spec
=============================================================================
