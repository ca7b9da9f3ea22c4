---------------------------- MODULE LoaderProofs ----------------------------
(***************************************************************************)
(* Proofs about what the loader rests on and one of its inputs: first the  *)
(* run-length code, for any number of bytes put, any size of a byte and    *)
(* any longest run; then column files, for any number of files with any    *)
(* lines.                                                                  *)
(***************************************************************************)
EXTENDS RleStream, LoadColumns, TLAPS

(* The bytes of `code' fall into codes: a plain byte, or a mark and the    *)
(* byte it counts.  A map m has, for every position at which a code begins *)
(* and for the end of the code, how many bytes of `bytes' lie before it,   *)
(* and -1 for the position behind a mark.                                  *)
Maps(code, n) == [1 .. Len(code) + 1 -> -1 .. n]

CodeAt(code, bytes, m, p) ==
  IF code[p] >= Mark
  THEN /\ p < Len(code) /\ m[p + 2] = m[p] + code[p] - Mark + 1
       /\ \A k \in m[p] + 1 .. m[p + 2] : bytes[k] = code[p + 1]
  ELSE m[p + 1] = m[p] + 1 /\ bytes[m[p + 1]] = code[p]

(* The code stands for the first n bytes of `bytes'.                       *)
Codes(code, bytes, n, m) ==
  /\ m[1] = 0 /\ m[Len(code) + 1] = n
  /\ \A p \in 1..Len(code) : m[p] >= 0 => CodeAt(code, bytes, m, p)

Coded(code, bytes, n) == \E m \in Maps(code, n) : Codes(code, bytes, n, m)

(* The code and a pending run of x stand for all of `bytes'.               *)
Pending(code, x, run, bytes) ==
  /\ run \in Nat /\ run < MaxRun /\ run <= Len(bytes) /\ Coded(code, bytes, Len(bytes) - run)
  /\ \A k \in Len(bytes) - run + 1 .. Len(bytes) : bytes[k] = x

(* The reader stands between two codes, or has part of a run left, which   *)
(* are copies of the byte before its position.                             *)
ReaderAt(code, m) ==
  /\ m[reader.at] >= 0 /\ Len(got) = m[reader.at] - reader.run
  /\ reader.run > 0 =>
       /\ reader.at > 1
       /\ \A k \in Len(got) + 1 .. m[reader.at] : put[k] = code[reader.at - 1]

(* What the writer has written stands for all but its pending run.         *)
Written == Len(put) - writer.run

WriterInv ==
  /\ Written \in Nat
  /\ \A k \in Written + 1 .. Len(put) : put[k] = writer.value
  /\ flushed => writer.run = 0
  /\ ~flushed => reader = InitRLE(1) /\ got = <<>>

CodeInv ==
  \E m \in Maps(writer.data, Written) :
    Codes(writer.data, put, Written, m) /\ ReaderAt(writer.data, m)

RleInv == StreamTypeOK /\ WriterInv /\ CodeInv /\ ReadsWhatWasPut /\ AtMostDoubles
-----------------------------------------------------------------------------
(* More bytes do not change what the code stands for.                      *)
LEMMA CodedPrefix ==
  ASSUME RleAssumption, NEW code \in Seq(Byte), NEW bytes \in Seq(Byte), NEW v \in Byte,
         NEW n \in 0..Len(bytes), Coded(code, bytes, n)
  PROVE  Coded(code, Append(bytes, v), n)
<1>1. PICK m \in Maps(code, n) : Codes(code, bytes, n, m)
  BY DEF Coded
<1>2. \A k \in 1..n : Append(bytes, v)[k] = bytes[k]
  OBVIOUS
<1>3. Len(code) \in Nat /\ \A p \in 1..Len(code) + 1 : m[p] \in -1..n
  BY DEF Maps
<1>4. ASSUME NEW p \in 1..Len(code), m[p] >= 0 PROVE CodeAt(code, Append(bytes, v), m, p)
  <2>1. CodeAt(code, bytes, m, p)
    BY <1>1, <1>4 DEF Codes
  <2>2. code[p] \in Int /\ Mark \in Int
    BY DEF Byte, Mark, RleAssumption
  <2>3. CASE code[p] >= Mark
    <3>1. /\ p < Len(code) /\ m[p + 2] = m[p] + code[p] - Mark + 1
          /\ \A k \in m[p] + 1 .. m[p + 2] : bytes[k] = code[p + 1]
      BY <2>1, <2>3 DEF CodeAt
    <3>2. m[p] \in Int /\ m[p + 2] \in Int /\ m[p + 2] <= n
      <4>1. p \in 1..Len(code) + 1 /\ p + 2 \in 1..Len(code) + 1
        BY <1>3, <3>1
      <4> QED BY <1>3, <4>1
    <3>3. \A k \in m[p] + 1 .. m[p + 2] : k \in 1..n
      BY <1>4, <3>2
    <3>4. \A k \in m[p] + 1 .. m[p + 2] : Append(bytes, v)[k] = code[p + 1]
      BY <1>2, <3>1, <3>3
    <3> QED BY <2>3, <3>1, <3>4 DEF CodeAt
  <2>4. CASE ~(code[p] >= Mark)
    <3>1. m[p + 1] = m[p] + 1 /\ bytes[m[p + 1]] = code[p]
      BY <2>1, <2>4 DEF CodeAt
    <3>2. m[p] \in Int /\ m[p + 1] \in Int /\ m[p + 1] <= n
      <4>1. p \in 1..Len(code) + 1 /\ p + 1 \in 1..Len(code) + 1
        BY <1>3
      <4> QED BY <1>3, <4>1
    <3>3. m[p + 1] \in 1..n
      BY <1>4, <3>1, <3>2
    <3>4. Append(bytes, v)[m[p + 1]] = code[p]
      BY <1>2, <3>1, <3>3
    <3> QED BY <2>4, <3>1, <3>4 DEF CodeAt
  <2> QED BY <2>3, <2>4
<1> QED BY <1>1, <1>4 DEF Codes, Coded

(* Another code: a plain byte.                                             *)
LEMMA CodedPlain ==
  ASSUME RleAssumption, NEW code \in Seq(Byte), NEW bytes \in Seq(Byte), NEW v \in Byte,
         NEW n \in 0 .. Len(bytes) - 1, Coded(code, bytes, n), v < Mark, bytes[n + 1] = v
  PROVE  Coded(Append(code, v), bytes, n + 1)
<1>1. PICK m \in Maps(code, n) : Codes(code, bytes, n, m)
  BY DEF Coded
<1> DEFINE d == Append(code, v)
           e == [p \in 1 .. Len(d) + 1 |-> IF p <= Len(code) + 1 THEN m[p] ELSE n + 1]
<1>2. /\ Len(code) \in Nat /\ \A p \in 1..Len(code) + 1 : m[p] \in -1..n
      /\ Len(d) = Len(code) + 1 /\ d[Len(d)] = v /\ \A p \in 1..Len(code) : d[p] = code[p]
      /\ m[1] = 0 /\ m[Len(code) + 1] = n
  BY <1>1 DEF Maps, Codes
<1>3. e \in Maps(d, n + 1) /\ e[1] = 0 /\ e[Len(d) + 1] = n + 1 /\ e[Len(d)] = n
      /\ \A p \in 1 .. Len(code) + 1 : e[p] = m[p]
  BY <1>2 DEF Maps
<1> HIDE DEF d, e
<1>4. ASSUME NEW p \in 1..Len(d), e[p] >= 0 PROVE CodeAt(d, bytes, e, p)
  <2>0. Mark \in Int
    BY DEF Mark, RleAssumption
  <2>1. CASE p = Len(d)
    <3>1. d[p] = v /\ e[p] = n /\ e[p + 1] = n + 1 /\ v \in Int
      BY <1>2, <1>3, <2>1 DEF Byte
    <3> QED BY <2>0, <3>1 DEF CodeAt
  <2>2. CASE p \in 1..Len(code)
    <3>0. e[p] = m[p] /\ m[p] \in Int
      BY <1>2, <1>3, <2>2
    <3>1. CodeAt(code, bytes, m, p)
      BY <1>1, <1>4, <2>2, <3>0 DEF Codes
    <3>2. CASE code[p] >= Mark
      <4>1. p + 2 \in 1 .. Len(code) + 1 /\ p + 1 \in 1 .. Len(code)
        BY <1>2, <2>2, <3>1, <3>2 DEF CodeAt
      <4>2. e[p] = m[p] /\ e[p + 2] = m[p + 2] /\ d[p] = code[p] /\ d[p + 1] = code[p + 1]
        BY <1>2, <1>3, <2>2, <4>1
      <4> QED BY <1>2, <2>2, <3>1, <3>2, <4>2 DEF CodeAt
    <3>3. CASE ~(code[p] >= Mark)
      <4>1. e[p] = m[p] /\ e[p + 1] = m[p + 1] /\ d[p] = code[p]
        BY <1>2, <1>3, <2>2
      <4> QED BY <1>2, <2>2, <3>1, <3>3, <4>1 DEF CodeAt
    <3> QED BY <3>2, <3>3
  <2> QED BY <1>2, <2>1, <2>2
<1>5. Coded(d, bytes, n + 1)
  BY <1>3, <1>4 DEF Codes, Coded
<1> QED BY <1>5 DEF d

(* Another code: a run of c copies of a byte.                              *)
LEMMA CodedRun ==
  ASSUME RleAssumption, NEW code \in Seq(Byte), NEW bytes \in Seq(Byte), NEW v \in Byte,
         NEW n \in 0..Len(bytes), NEW c \in 1..MaxRun, n + c <= Len(bytes),
         Coded(code, bytes, n), \A k \in n + 1 .. n + c : bytes[k] = v
  PROVE  Coded(code \o <<Mark + c - 1, v>>, bytes, n + c)
<1>1. PICK m \in Maps(code, n) : Codes(code, bytes, n, m)
  BY DEF Coded
<1> DEFINE d == code \o <<Mark + c - 1, v>>
           e == [p \in 1 .. Len(d) + 1 |-> IF p <= Len(code) + 1 THEN m[p]
                                           ELSE IF p = Len(code) + 2 THEN -1 ELSE n + c]
<1>0. c \in Int /\ n \in Int /\ Mark \in Int /\ Mark + c - 1 \in Byte /\ Len(<<Mark + c - 1, v>>) = 2
  BY DEF Mark, RleAssumption, Byte
<1>2. /\ Len(code) \in Nat /\ \A p \in 1..Len(code) + 1 : m[p] \in -1..n
      /\ Len(d) = Len(code) + 2 /\ d[Len(code) + 1] = Mark + c - 1 /\ d[Len(code) + 2] = v
      /\ \A p \in 1..Len(code) : d[p] = code[p]
      /\ m[1] = 0 /\ m[Len(code) + 1] = n
  BY <1>0, <1>1 DEF Maps, Codes
<1>3. e \in Maps(d, n + c) /\ e[1] = 0 /\ e[Len(d) + 1] = n + c /\ e[Len(d)] = -1
      /\ \A p \in 1 .. Len(code) + 1 : e[p] = m[p]
  BY <1>0, <1>2 DEF Maps
<1> HIDE DEF d, e
<1>4. ASSUME NEW p \in 1..Len(d), e[p] >= 0 PROVE CodeAt(d, bytes, e, p)
  <2>1. CASE p = Len(code) + 1
    <3>1. d[p] = Mark + c - 1 /\ d[p + 1] = v /\ e[p] = n /\ e[p + 2] = n + c /\ p < Len(d)
      BY <1>2, <1>3, <2>1
    <3> QED BY <1>0, <3>1 DEF CodeAt
  <2>2. CASE p \in 1..Len(code)
    <3>0. e[p] = m[p] /\ m[p] \in Int
      BY <1>2, <1>3, <2>2
    <3>1. CodeAt(code, bytes, m, p)
      BY <1>1, <1>4, <2>2, <3>0 DEF Codes
    <3>2. CASE code[p] >= Mark
      <4>1. p + 2 \in 1 .. Len(code) + 1 /\ p + 1 \in 1 .. Len(code)
        BY <1>2, <2>2, <3>1, <3>2 DEF CodeAt
      <4>2. e[p] = m[p] /\ e[p + 2] = m[p + 2] /\ d[p] = code[p] /\ d[p + 1] = code[p + 1]
        BY <1>2, <1>3, <2>2, <4>1
      <4> QED BY <1>2, <2>2, <3>1, <3>2, <4>2 DEF CodeAt
    <3>3. CASE ~(code[p] >= Mark)
      <4>1. e[p] = m[p] /\ e[p + 1] = m[p + 1] /\ d[p] = code[p]
        BY <1>2, <1>3, <2>2
      <4> QED BY <1>2, <2>2, <3>1, <3>3, <4>1 DEF CodeAt
    <3> QED BY <3>2, <3>3
  <2>3. p = Len(code) + 1 \/ p \in 1..Len(code)
    <3>1. p \in Int /\ 1 <= p /\ p /= Len(code) + 2 /\ p <= Len(code) + 2
      BY <1>2, <1>3, <1>4
    <3>2. Len(code) \in Nat
      OBVIOUS
    <3> QED BY <3>1, <3>2
  <2> QED BY <2>1, <2>2, <2>3
<1>5. Coded(d, bytes, n + c)
  BY <1>3, <1>4 DEF Codes, Coded
<1> QED BY <1>5 DEF d

(* What [c EXCEPT ...] makes of a context.                                 *)
LEMMA FlushedRecord ==
  ASSUME NEW d, NEW x, NEW r, NEW e, NEW c, c = [data |-> d, value |-> x, run |-> r],
         NEW f, f = [c EXCEPT !.data = e, !.run = 0]
  PROVE  f = [data |-> e, value |-> x, run |-> 0]
<1>1. DOMAIN f = {"data", "value", "run"}
  OBVIOUS
<1>2. f.data = e /\ f.value = x /\ f.run = 0
  OBVIOUS
<1> QED BY <1>1, <1>2

(* Flushing: the code stand for the pending run too.                       *)
LEMMA FlushCodes ==
  ASSUME RleAssumption, NEW code \in Seq(Byte), NEW x \in Byte, NEW run,
         NEW bytes \in Seq(Byte), Pending(code, x, run, bytes)
  PROVE  \E e \in Seq(Byte) :
           /\ CA_rle_flush([data |-> code, value |-> x, run |-> run]) =
                [data |-> e, value |-> x, run |-> 0]
           /\ Coded(e, bytes, Len(bytes)) /\ Len(e) <= Len(code) + 2 * run
<1> DEFINE f == CA_rle_flush([data |-> code, value |-> x, run |-> run])
           n == Len(bytes) - run
<1>0. /\ MaxRun \in Int /\ Mark \in Int /\ Len(bytes) \in Nat /\ Len(code) \in Nat
      /\ run \in Nat /\ run < MaxRun /\ run <= Len(bytes) /\ x \in Int
  BY DEF RleAssumption, Mark, Byte, Pending
<1>n. /\ n \in 0..Len(bytes) /\ n + run = Len(bytes) /\ Coded(code, bytes, n)
      /\ \A k \in n + 1 .. n + run : bytes[k] = x
  <2>1. n \in 0..Len(bytes) /\ n + run = Len(bytes)
    BY <1>0
  <2> QED BY <2>1 DEF Pending
<1>f. /\ run = 0 => f = [data |-> code, value |-> x, run |-> 0]
      /\ run \in 1..2 /\ x < Mark =>
           f = [data |-> code \o [i \in 1..run |-> x], value |-> x, run |-> 0]
      /\ run /= 0 /\ ~(run \in 1..2 /\ x < Mark) =>
           f = [data |-> code \o <<Mark + run - 1, x>>, value |-> x, run |-> 0]
  <2> DEFINE c == [data |-> code, value |-> x, run |-> run]
             plain == [i \in 1..run |-> x]
  <2>1. ASSUME NEW e, f = [c EXCEPT !.data = e, !.run = 0]
        PROVE  f = [data |-> e, value |-> x, run |-> 0]
    <3> HIDE DEF f
    <3> QED BY <2>1, FlushedRecord
  <2>2. f = CASE run = 0 -> c
              [] run \in 1..2 /\ x < Mark -> [c EXCEPT !.data = code \o plain, !.run = 0]
              [] OTHER -> [c EXCEPT !.data = code \o <<Mark + run - 1, x>>, !.run = 0]
    BY DEF CA_rle_flush
  <2>3. run = 0 => c = [data |-> code, value |-> x, run |-> 0]
    OBVIOUS
  <2> HIDE DEF c, f, plain
  <2>4. run \in 1..2 => run /= 0
    BY <1>0
  <2>5. CASE run = 0
    BY <2>2, <2>3, <2>4, <2>5
  <2>6. CASE run \in 1..2 /\ x < Mark
    <3>1. f = [c EXCEPT !.data = code \o plain, !.run = 0]
      BY <2>2, <2>4, <2>6
    <3>2. f = [data |-> code \o plain, value |-> x, run |-> 0]
      BY <2>1, <3>1
    <3> QED BY <2>4, <2>6, <3>2 DEF plain
  <2>7. CASE run /= 0 /\ ~(run \in 1..2 /\ x < Mark)
    BY <2>1, <2>2, <2>7
  <2> QED BY <2>5, <2>6, <2>7
<1> HIDE DEF f, n
<1>1. CASE run = 0
  <2>1. f = [data |-> code, value |-> x, run |-> 0] /\ n = Len(bytes)
    BY <1>0, <1>1, <1>f, <1>n
  <2>2. Len(code) <= Len(code) + 2 * run
    BY <1>0
  <2> QED BY <1>n, <2>1, <2>2 DEF f
<1>2. CASE run \in 1..2 /\ x < Mark
  <2>1. f = [data |-> code \o [i \in 1..run |-> x], value |-> x, run |-> 0]
    BY <1>2, <1>f
  <2> DEFINE d == Append(code, x)
  <2>2. n + 1 \in 1..Len(bytes) /\ bytes[n + 1] = x /\ n \in 0 .. Len(bytes) - 1
    BY <1>0, <1>2, <1>n
  <2>3. Coded(d, bytes, n + 1) /\ d \in Seq(Byte) /\ Len(d) = Len(code) + 1
    BY <1>0, <1>2, <1>n, <2>2, CodedPlain
  <2>4. CASE run = 1
    <3>1. code \o [i \in 1..run |-> x] = d
      BY <2>4
    <3> HIDE DEF d
    <3>2. n + 1 = Len(bytes) /\ Len(d) <= Len(code) + 2 * run
      BY <1>0, <1>n, <2>3, <2>4
    <3> QED BY <2>1, <2>3, <3>1, <3>2 DEF f
  <2>5. CASE run = 2
    <3>1. code \o [i \in 1..run |-> x] = Append(d, x)
      BY <2>5
    <3> HIDE DEF d
    <3>2. n + 1 \in 0 .. Len(bytes) - 1 /\ bytes[(n + 1) + 1] = x /\ (n + 1) + 1 = Len(bytes)
      BY <1>0, <1>n, <2>5
    <3>3. Append(d, x) \in Seq(Byte) /\ Len(Append(d, x)) <= Len(code) + 2 * run
      BY <1>0, <2>3, <2>5
    <3>4. Coded(Append(d, x), bytes, (n + 1) + 1)
      BY <1>0, <1>2, <2>3, <3>2, CodedPlain
    <3> QED BY <2>1, <3>1, <3>2, <3>3, <3>4 DEF f
  <2>6. run = 1 \/ run = 2
    BY <1>0, <1>2
  <2> QED BY <2>4, <2>5, <2>6
<1>3. CASE run /= 0 /\ ~(run \in 1..2 /\ x < Mark)
  <2> DEFINE d == code \o <<Mark + run - 1, x>>
  <2>1. f = [data |-> d, value |-> x, run |-> 0]
    BY <1>3, <1>f
  <2>2. run \in 1..MaxRun /\ n + run <= Len(bytes)
    BY <1>0, <1>3, <1>n
  <2>3. Coded(d, bytes, n + run)
    BY <1>n, <2>2, CodedRun
  <2>4. Mark + run - 1 \in Byte
    BY <1>0, <2>2 DEF Mark, Byte, RleAssumption
  <2>5. d \in Seq(Byte) /\ Len(d) = Len(code) + 2
    BY <2>4
  <2> HIDE DEF d
  <2>6. Len(d) <= Len(code) + 2 * run
    BY <1>0, <2>2, <2>5
  <2> QED BY <1>n, <2>1, <2>3, <2>5, <2>6 DEF f
<1> QED BY <1>1, <1>2, <1>3

(* Putting a byte: the code stand for all but the pending run.             *)
LEMMA PutCodes ==
  ASSUME RleAssumption, NEW code \in Seq(Byte), NEW x \in Byte, NEW run,
         NEW bytes \in Seq(Byte), Pending(code, x, run, bytes), NEW v \in Byte
  PROVE  \E e \in Seq(Byte), r \in Nat :
           /\ CA_rle_put([data |-> code, value |-> x, run |-> run], v) =
                [data |-> e, value |-> v, run |-> r]
           /\ Pending(e, v, r, Append(bytes, v))
           /\ Len(e) + 2 * r <= Len(code) + 2 * run + 2
<1> DEFINE c == [data |-> code, value |-> x, run |-> run]
           f == IF v /= x /\ run > 0 THEN CA_rle_flush(c) ELSE c
           b == Append(bytes, v)
<1>0. /\ MaxRun \in Int /\ MaxRun > 2 /\ Len(bytes) \in Nat /\ Len(code) \in Nat
      /\ run \in Nat /\ run < MaxRun
      /\ b \in Seq(Byte) /\ Len(b) = Len(bytes) + 1 /\ b[Len(b)] = v
      /\ \A k \in 1..Len(bytes) : b[k] = bytes[k]
  BY DEF RleAssumption, Pending
<1>1. PICK e \in Seq(Byte), r \in Nat, y \in Byte :
      /\ f = [data |-> e, value |-> y, run |-> r] /\ Pending(e, v, r, bytes)
      /\ Len(e) + 2 * r <= Len(code) + 2 * run
  <2>1. CASE v /= x /\ run > 0
    <3>1. f = CA_rle_flush([data |-> code, value |-> x, run |-> run])
      BY <2>1
    <3> HIDE DEF f
    <3>2. PICK e \in Seq(Byte) :
            /\ f = [data |-> e, value |-> x, run |-> 0]
            /\ Coded(e, bytes, Len(bytes)) /\ Len(e) <= Len(code) + 2 * run
      BY <3>1, FlushCodes
    <3>3. Len(bytes) - 0 = Len(bytes) /\ Len(e) + 2 * 0 <= Len(code) + 2 * run
      BY <1>0, <3>2
    <3>4. Pending(e, v, 0, bytes)
      BY <1>0, <3>2, <3>3 DEF Pending
    <3> QED BY <3>2, <3>3, <3>4
  <2>2. CASE ~(v /= x /\ run > 0)
    <3>1. f = c
      BY <2>2
    <3>2. Pending(code, v, run, bytes)
      BY <1>0, <2>2 DEF Pending
    <3>3. Len(code) + 2 * run <= Len(code) + 2 * run
      BY <1>0
    <3> QED BY <1>0, <3>1, <3>2, <3>3
  <2> QED BY <2>1, <2>2
<1>f. CA_rle_put(c, v) = IF f.run + 1 = MaxRun
        THEN [data |-> f.data \o <<Bytes - 1, v>>, value |-> v, run |-> 0]
        ELSE [f EXCEPT !.value = v, !.run = @ + 1]
  BY DEF CA_rle_put
<1> HIDE DEF f, c, b
<1>2. f.run = r /\ f.data = e
  BY <1>1
<1>l. r \in Nat /\ Len(e) + 2 * r <= Len(code) + 2 * run
  BY <1>1
<1> DEFINE n == Len(bytes) - r
<1>3. /\ r < MaxRun /\ Len(e) \in Nat /\ n \in 0..Len(bytes) /\ n + r + 1 = Len(b)
      /\ Coded(e, bytes, n)
      /\ \A k \in n + 1 .. Len(bytes) : bytes[k] = v
  <2>1. r < MaxRun /\ Len(e) \in Nat /\ r <= Len(bytes)
    BY <1>1 DEF Pending
  <2>2. n \in 0..Len(bytes) /\ n + r + 1 = Len(b)
    BY <1>0, <2>1
  <2> QED BY <1>1, <2>1, <2>2 DEF Pending
<1> HIDE DEF n
<1>4. Coded(e, b, n)
  BY <1>3, CodedPrefix DEF b
<1>5. \A k \in n + 1 .. Len(b) : b[k] = v
  <2>1. SUFFICES ASSUME NEW k \in n + 1 .. Len(b) PROVE b[k] = v
    OBVIOUS
  <2>2. CASE k = Len(b)
    BY <1>0, <2>2
  <2>3. CASE k /= Len(b)
    <3>1. k \in n + 1 .. Len(bytes) /\ k \in 1..Len(bytes)
      BY <1>0, <1>3, <2>3
    <3> QED BY <1>0, <1>3, <3>1
  <2> QED BY <2>2, <2>3
<1>6. CASE r + 1 = MaxRun
  <2> DEFINE d == e \o <<Bytes - 1, v>>
  <2>1. CA_rle_put(c, v) = [data |-> d, value |-> v, run |-> 0]
    BY <1>2, <1>6, <1>f
  <2>2. n \in 0..Len(b) /\ n + MaxRun = Len(b) /\ n + MaxRun <= Len(b) /\ MaxRun \in 1..MaxRun
    BY <1>0, <1>3, <1>6
  <2>3. Mark + MaxRun - 1 = Bytes - 1 /\ Bytes - 1 \in Byte
    BY DEF Mark, RleAssumption, Byte
  <2>4. Coded(e \o <<Mark + MaxRun - 1, v>>, b, n + MaxRun)
    BY <1>0, <1>4, <1>5, <2>2, CodedRun
  <2>5. Coded(d, b, Len(b))
    BY <2>2, <2>3, <2>4
  <2>6. d \in Seq(Byte) /\ Len(d) = Len(e) + 2
    BY <2>3
  <2> HIDE DEF d
  <2>7. Len(d) + 2 * 0 <= Len(code) + 2 * run + 2 /\ Len(b) - 0 = Len(b)
    BY <1>0, <1>1, <1>3, <2>6
  <2>8. Pending(d, v, 0, b)
    BY <1>0, <2>5, <2>7 DEF Pending
  <2> QED BY <2>1, <2>6, <2>7, <2>8 DEF c, b
<1>7. CASE r + 1 /= MaxRun
  <2>1. CA_rle_put(c, v) = [data |-> e, value |-> v, run |-> r + 1]
    BY <1>1, <1>2, <1>7, <1>f
  <2>2. Len(b) - (r + 1) = n /\ r + 1 \in Nat /\ r + 1 < MaxRun /\ r + 1 <= Len(b)
    BY <1>0, <1>3, <1>7
  <2>3. Len(e) + 2 * (r + 1) <= Len(code) + 2 * run + 2
    <3>1. Len(e) \in Nat /\ Len(code) \in Nat /\ run \in Nat
      BY <1>0, <1>3
    <3> QED BY <1>l, <3>1
  <2>4. Pending(e, v, r + 1, b)
    BY <1>4, <1>5, <2>2 DEF Pending
  <2> QED BY <2>1, <2>2, <2>3, <2>4 DEF c, b
<1> QED BY <1>6, <1>7
-----------------------------------------------------------------------------
(* Data that stand for the bytes put tell the reader where it is.          *)
LEMMA RleInit == ASSUME RleAssumption, StreamInit PROVE RleInv
<1> DEFINE m == [p \in 1..1 |-> 0]
<1>0. /\ writer = [data |-> <<>>, value |-> 0, run |-> 0] /\ put = <<>> /\ got = <<>>
      /\ flushed = FALSE /\ reader = [at |-> 1, run |-> 0]
  BY DEF StreamInit, CA_rle_init_write, InitRLE
<1>1. StreamTypeOK
  <2>1. 0 \in Byte /\ 0 \in 0..MaxRun /\ 0 < MaxRun /\ 0 \in 0 .. MaxRun - 1
    BY DEF Byte, RleAssumption
  <2>2. <<>> \in Seq(Byte) /\ 1 \in 1 .. Len(<<>>) + 1
    OBVIOUS
  <2> QED BY <1>0, <2>1, <2>2 DEF StreamTypeOK, RleContext
<1>2. WriterInv /\ Written = 0 /\ ReadsWhatWasPut /\ AtMostDoubles
  BY <1>0 DEF WriterInv, Written, InitRLE, ReadsWhatWasPut, AtMostDoubles
<1>3. m \in Maps(writer.data, Written) /\ Codes(writer.data, put, Written, m)
      /\ ReaderAt(writer.data, m)
  BY <1>0, <1>2 DEF Maps, Codes, ReaderAt
<1> QED BY <1>1, <1>2, <1>3 DEF RleInv, CodeInv

(* The writer's context, field by field.                                   *)
LEMMA WriterFields ==
  ASSUME RleAssumption, RleInv
  PROVE  /\ writer = [data |-> writer.data, value |-> writer.value, run |-> writer.run]
         /\ writer.data \in Seq(Byte) /\ writer.value \in Byte /\ writer.run \in Nat
         /\ writer.run < MaxRun /\ put \in Seq(Byte)
         /\ Pending(writer.data, writer.value, writer.run, put)
<1>1. /\ writer = [data |-> writer.data, value |-> writer.value, run |-> writer.run]
      /\ writer.data \in Seq(Byte) /\ writer.value \in Byte /\ writer.run \in Nat
      /\ writer.run < MaxRun /\ put \in Seq(Byte)
  BY DEF RleInv, StreamTypeOK, RleContext
<1>2. Written \in Nat /\ \A k \in Written + 1 .. Len(put) : put[k] = writer.value
  BY DEF RleInv, WriterInv
<1>3. writer.run <= Len(put)
  BY <1>1, <1>2 DEF Written
<1>4. Coded(writer.data, put, Len(put) - writer.run)
  BY DEF RleInv, CodeInv, Coded, Written
<1> QED BY <1>1, <1>2, <1>3, <1>4 DEF Pending, Written

(* CA_rle_put keeps the invariant.                                         *)
LEMMA PutStep ==
  ASSUME RleAssumption, RleInv, NEW v \in Byte, Put(v) PROVE RleInv'
<1>1. PICK e \in Seq(Byte), r \in Nat :
        /\ writer' = [data |-> e, value |-> v, run |-> r]
        /\ Pending(e, v, r, Append(put, v))
        /\ Len(e) + 2 * r <= Len(writer.data) + 2 * writer.run + 2
  <2> DEFINE P(d, x, k, e, r) ==
        /\ CA_rle_put([data |-> d, value |-> x, run |-> k], v) = [data |-> e, value |-> v, run |-> r]
        /\ Pending(e, v, r, Append(put, v)) /\ Len(e) + 2 * r <= Len(d) + 2 * k + 2
  <2>1. \E e \in Seq(Byte), r \in Nat : P(writer.data, writer.value, writer.run, e, r)
    BY WriterFields, PutCodes
  <2>2. writer' = CA_rle_put([data |-> writer.data, value |-> writer.value, run |-> writer.run], v)
    BY WriterFields DEF Put
  <2> QED BY <2>1, <2>2
<1>2. /\ put' = Append(put, v) /\ ~flushed /\ UNCHANGED <<flushed, reader, got>>
      /\ flushed' = FALSE /\ reader = InitRLE(1) /\ got = <<>>
  BY DEF Put, RleInv, WriterInv, StreamTypeOK
<1>3. /\ put' \in Seq(Byte) /\ Len(put') = Len(put) + 1 /\ Len(put) \in Nat
      /\ Len(e) \in Nat /\ writer'.data = e /\ writer'.value = v /\ writer'.run = r
      /\ r < MaxRun /\ r <= Len(put') /\ MaxRun \in Nat
  BY <1>1, <1>2, WriterFields DEF Pending, RleAssumption
<1>4. StreamTypeOK'
  <2>1. r \in 0..MaxRun /\ 1 \in 1 .. Len(e) + 1 /\ 0 \in 0 .. MaxRun - 1
    BY <1>3
  <2>2. writer' \in RleContext
    BY <1>1, <2>1 DEF RleContext
  <2>3. got' \in Seq(Byte)
    BY <1>2
  <2>4. flushed' \in BOOLEAN
    BY <1>2
  <2> QED BY <1>2, <1>3, <2>1, <2>2, <2>3, <2>4 DEF StreamTypeOK, InitRLE
<1>5. Written' = Len(put') - r /\ Written' \in Nat
  BY <1>3 DEF Written
<1>6. WriterInv'
  <2>1. \A k \in Written' + 1 .. Len(put') : put'[k] = v
    BY <1>1, <1>2, <1>5 DEF Pending
  <2> QED BY <1>2, <1>3, <1>5, <2>1 DEF WriterInv, InitRLE
<1>7. CodeInv'
  <2>1. Coded(writer.data, put, Written)'
    BY <1>1, <1>2, <1>3, <1>5 DEF Pending
  <2>2. PICK m \in Maps(e, Written') : Codes(e, put', Written', m)
    BY <1>3, <2>1 DEF Coded
  <2>3. m[reader'.at] >= 0 /\ Len(got') = m[reader'.at] - reader'.run /\ reader'.run = 0
    BY <1>2, <2>2 DEF Codes, InitRLE
  <2> QED BY <1>3, <2>2, <2>3 DEF CodeInv, ReaderAt
<1>8. ReadsWhatWasPut'
  BY <1>2 DEF ReadsWhatWasPut
<1>9. AtMostDoubles'
  <2>1. Len(writer.data) + 2 * writer.run <= 2 * Len(put) /\ Len(writer.data) \in Nat
        /\ writer.run \in Nat
    BY WriterFields DEF RleInv, AtMostDoubles
  <2>2. Len(e) + 2 * r <= Len(writer.data) + 2 * writer.run + 2
    BY <1>1
  <2>3. Len(put') = Len(put) + 1 /\ Len(put) \in Nat /\ Len(e) \in Nat /\ r \in Nat
    BY <1>3
  <2>4. \A x, y, n \in Nat : \A z \in Int : x + 2 * y <= z + 2 /\ z <= 2 * n => x + 2 * y <= 2 * (n + 1)
    OBVIOUS
  <2>5. Len(writer.data) + 2 * writer.run \in Int
    BY WriterFields
  <2>6. Len(e) + 2 * r <= 2 * Len(put')
    BY <2>1, <2>2, <2>3, <2>4, <2>5
  <2> QED BY <1>3, <2>6 DEF AtMostDoubles
<1> QED BY <1>4, <1>6, <1>7, <1>8, <1>9 DEF RleInv

(* CA_rle_flush keeps the invariant.                                       *)
LEMMA FlushStep == ASSUME RleAssumption, RleInv, Flush PROVE RleInv'
<1>1. PICK e \in Seq(Byte) :
        /\ writer' = [data |-> e, value |-> writer.value, run |-> 0]
        /\ Coded(e, put, Len(put)) /\ Len(e) <= Len(writer.data) + 2 * writer.run
  BY WriterFields, FlushCodes DEF Flush
<1>2. /\ flushed' = TRUE /\ UNCHANGED <<put, reader, got>>
      /\ reader = InitRLE(1) /\ got = <<>>
  BY DEF Flush, RleInv, WriterInv, StreamTypeOK
<1>3. /\ put' \in Seq(Byte) /\ Len(put) \in Nat /\ Len(e) \in Nat /\ MaxRun \in Nat
      /\ writer'.data = e /\ writer'.value = writer.value /\ writer'.run = 0
      /\ writer.value \in Byte /\ MaxRun > 0
  BY <1>1, <1>2, WriterFields DEF RleAssumption
<1>4. StreamTypeOK'
  BY <1>1, <1>2, <1>3 DEF StreamTypeOK, RleContext, InitRLE
<1>5. Written' = Len(put)
  BY <1>2, <1>3 DEF Written
<1>6. WriterInv'
  BY <1>1, <1>2, <1>3, <1>5 DEF WriterInv, InitRLE
<1>7. CodeInv'
  <2>1. Coded(writer.data, put, Written)'
    BY <1>1, <1>2, <1>3, <1>5
  <2>2. PICK m \in Maps(e, Written') : Codes(e, put', Written', m)
    BY <1>3, <2>1 DEF Coded
  <2>3. m[reader'.at] >= 0 /\ Len(got') = m[reader'.at] - reader'.run /\ reader'.run = 0
    BY <1>2, <2>2 DEF Codes, InitRLE
  <2> QED BY <1>3, <2>2, <2>3 DEF CodeInv, ReaderAt
<1>8. ReadsWhatWasPut'
  BY <1>2 DEF ReadsWhatWasPut
<1>9. AtMostDoubles'
  <2>1. Len(writer.data) + 2 * writer.run <= 2 * Len(put) /\ Len(writer.data) \in Nat
        /\ writer.run \in Nat
    BY WriterFields DEF RleInv, AtMostDoubles
  <2> QED BY <1>1, <1>2, <1>3, <2>1 DEF AtMostDoubles
<1> QED BY <1>4, <1>6, <1>7, <1>8, <1>9 DEF RleInv

(* ReadRLEByte keeps the invariant: it stands at the beginning of a code,  *)
(* since the bytes that are left to read have one, or inside a run.        *)
LEMMA ReadStep == ASSUME RleAssumption, RleInv, ReadByte PROVE RleInv'
<1> DEFINE code == writer.data
           pos == reader.at
           run == reader.run
           g == Len(got)
<1>0. /\ flushed /\ writer.run = 0 /\ g < Len(put) /\ Written = Len(put)
      /\ reader' = ReadRLEByte(code, reader) /\ got' = Append(got, code[reader'.at - 1])
      /\ UNCHANGED <<writer, put, flushed>>
  BY WriterFields DEF ReadByte, RleInv, WriterInv, Written, RLEValue
<1>1. /\ code \in Seq(Byte) /\ Len(code) \in Nat /\ put \in Seq(Byte) /\ got \in Seq(Byte)
      /\ pos \in 1 .. Len(code) + 1 /\ run \in 0 .. MaxRun - 1 /\ g \in Nat /\ Len(put) \in Nat
      /\ \A p \in 1..Len(code) : code[p] \in Byte /\ code[p] \in 0 .. Bytes - 1
  <2>1. /\ code \in Seq(Byte) /\ put \in Seq(Byte) /\ got \in Seq(Byte)
        /\ pos \in 1 .. Len(code) + 1 /\ run \in 0 .. MaxRun - 1
    BY WriterFields DEF RleInv, StreamTypeOK
  <2> HIDE DEF code, pos, run
  <2> QED BY <2>1 DEF Byte
<1>2. PICK m \in Maps(code, Len(put)) : Codes(code, put, Len(put), m) /\ ReaderAt(code, m)
  BY <1>0 DEF RleInv, CodeInv
<1>3. /\ \A p \in 1 .. Len(code) + 1 : m[p] \in -1..Len(put)
      /\ m[pos] >= 0 /\ g = m[pos] - run /\ m[Len(code) + 1] = Len(put)
  BY <1>1, <1>2 DEF Maps, Codes, ReaderAt
<1>4. /\ Mark \in Int /\ MaxRun \in Int /\ Bytes \in Int /\ Bytes - 1 - Mark = MaxRun - 1
  BY DEF Mark, RleAssumption
<1>r. /\ run > 0 => reader'.at = pos /\ reader'.run = run - 1
      /\ run = 0 /\ code[pos] >= Mark => reader'.at = pos + 2 /\ reader'.run = code[pos] - Mark
      /\ run = 0 /\ ~(code[pos] >= Mark) => reader'.at = pos + 1 /\ reader'.run = 0
  <2>1. reader = [at |-> pos, run |-> run]
    BY DEF RleInv, StreamTypeOK
  <2> QED BY <1>0, <2>1 DEF ReadRLEByte
<1>c. run > 0 => pos > 1 /\ \A k \in g + 1 .. m[pos] : put[k] = code[pos - 1]
  BY <1>2 DEF ReaderAt
<1> HIDE DEF code, pos, run, g
<1>a. /\ pos \in Int /\ 1 <= pos /\ pos <= Len(code) + 1 /\ run \in Int /\ 0 <= run /\ run < MaxRun
      /\ g \in Nat /\ Len(put) \in Nat /\ Len(code) \in Nat /\ g < Len(put)
      /\ m[pos] \in Int /\ m[pos] <= Len(put) /\ g + run = m[pos]
  BY <1>0, <1>1, <1>3, <1>4
<1> DEFINE Reaches(x, y) ==
      /\ reader'.at = x /\ reader'.run = y /\ x >= 2 /\ x <= Len(code) + 1 /\ 0 <= y /\ y < MaxRun
      /\ m[x] \in Int /\ g + 1 + y = m[x] /\ \A k \in g + 1 .. m[x] : put[k] = code[x - 1]
<1>5. PICK x, y \in Int : Reaches(x, y)
  <2>1. CASE run > 0
    <3>1. reader'.at = pos /\ reader'.run = run - 1 /\ pos > 1
          /\ \A k \in g + 1 .. m[pos] : put[k] = code[pos - 1]
      BY <1>c, <1>r, <2>1
    <3>2. pos >= 2 /\ 0 <= run - 1 /\ run - 1 < MaxRun /\ run - 1 \in Int /\ g + 1 + (run - 1) = m[pos]
      BY <1>4, <1>a, <2>1, <3>1
    <3> QED BY <1>a, <3>1, <3>2
  <2>2. CASE run = 0
    <3>1. pos \in 1..Len(code) /\ m[pos] = g
      BY <1>3, <1>a, <2>2
    <3>2. CodeAt(code, put, m, pos) /\ code[pos] \in Int /\ code[pos] < Bytes
      <4>1. CodeAt(code, put, m, pos)
        BY <1>2, <1>3, <3>1 DEF Codes
      <4>2. code[pos] \in 0 .. Bytes - 1
        BY <1>1, <3>1
      <4> QED BY <1>4, <4>1, <4>2
    <3>3. CASE code[pos] >= Mark
      <4>1. reader'.at = pos + 2 /\ reader'.run = code[pos] - Mark
        BY <1>r, <2>2, <3>3
      <4>2. pos < Len(code) /\ m[pos + 2] = g + code[pos] - Mark + 1
        BY <3>1, <3>2, <3>3 DEF CodeAt
      <4>3. \A k \in g + 1 .. m[pos + 2] : put[k] = code[pos + 1]
        BY <3>1, <3>2, <3>3 DEF CodeAt
      <4>4. /\ pos + 2 \in Int /\ pos + 2 >= 2 /\ pos + 2 <= Len(code) + 1 /\ pos + 2 - 1 = pos + 1
            /\ code[pos] - Mark \in Int /\ 0 <= code[pos] - Mark /\ code[pos] - Mark < MaxRun
        <5>1. pos + 2 \in Int /\ pos + 2 >= 2 /\ pos + 2 <= Len(code) + 1 /\ pos + 2 - 1 = pos + 1
          BY <1>a, <4>2
        <5>2. code[pos] - Mark \in Int /\ 0 <= code[pos] - Mark /\ code[pos] - Mark < MaxRun
          BY <1>4, <3>2, <3>3
        <5> QED BY <5>1, <5>2
      <4>5. m[pos + 2] \in Int /\ g + 1 + (code[pos] - Mark) = m[pos + 2]
        BY <1>4, <1>a, <3>2, <4>2
      <4> DEFINE x == pos + 2
                 y == code[pos] - Mark
      <4>7. /\ reader'.at = x /\ reader'.run = y /\ x \in Int /\ y \in Int
            /\ x >= 2 /\ x <= Len(code) + 1 /\ 0 <= y /\ y < MaxRun
            /\ m[x] \in Int /\ g + 1 + y = m[x]
        BY <4>1, <4>4, <4>5
      <4>8. x - 1 = pos + 1 /\ m[x] = m[pos + 2]
        BY <1>a
      <4> HIDE DEF x, y
      <4>9. \A k \in g + 1 .. m[x] : put[k] = code[x - 1]
        BY <4>3, <4>8
      <4> QED BY <4>7, <4>9
    <3>4. CASE ~(code[pos] >= Mark)
      <4>1. reader'.at = pos + 1 /\ reader'.run = 0
        BY <1>r, <2>2, <3>4
      <4>2. m[pos + 1] = g + 1 /\ put[g + 1] = code[pos]
        BY <3>1, <3>2, <3>4 DEF CodeAt
      <4>3. /\ pos + 1 \in Int /\ pos + 1 >= 2 /\ pos + 1 <= Len(code) + 1 /\ pos + 1 - 1 = pos
            /\ 0 < MaxRun /\ m[pos + 1] \in Int /\ g + 1 + 0 = m[pos + 1]
            /\ \A k \in g + 1 .. m[pos + 1] : k = g + 1
        BY <1>4, <1>a, <3>1, <4>2
      <4>5. 0 \in Int /\ 0 <= 0
        OBVIOUS
      <4> DEFINE x == pos + 1
                 y == 0
      <4>6. /\ reader'.at = x /\ reader'.run = y /\ x \in Int /\ y \in Int
            /\ x >= 2 /\ x <= Len(code) + 1 /\ 0 <= y /\ y < MaxRun
            /\ m[x] \in Int /\ g + 1 + y = m[x]
        BY <4>1, <4>3, <4>5
      <4>7. x - 1 = pos /\ m[x] = m[pos + 1]
        BY <1>a
      <4> HIDE DEF x, y
      <4>8. \A k \in g + 1 .. m[x] : put[k] = code[x - 1]
        BY <4>2, <4>3, <4>7
      <4> QED BY <4>6, <4>8
    <3> QED BY <3>3, <3>4
  <2> QED BY <1>a, <2>1, <2>2
<1>n. /\ x \in Int /\ y \in Int /\ x >= 2 /\ x <= Len(code) + 1 /\ 0 <= y /\ y < MaxRun
      /\ m[x] \in Int /\ g + 1 + y = m[x]
  BY <1>5
<1>6. put[g + 1] = code[x - 1] /\ code[x - 1] \in Byte
  <2>1. g + 1 \in g + 1 .. m[x]
    BY <1>a, <1>n
  <2>2. x - 1 \in 1..Len(code)
    BY <1>a, <1>n
  <2> QED BY <1>1, <1>5, <2>1, <2>2
<1>7. /\ got' \in Seq(Byte) /\ Len(got') = g + 1 /\ got'[g + 1] = put[g + 1]
      /\ \A i \in 1..g : got'[i] = got[i]
  <2>1. got' = Append(got, code[x - 1])
    BY <1>0, <1>5
  <2> QED BY <1>1, <1>6, <2>1 DEF g
<1>8. StreamTypeOK'
  <2>1. DOMAIN reader' = {"at", "run"} /\ reader' = [at |-> reader'.at, run |-> reader'.run]
    BY <1>0 DEF ReadRLEByte, RleInv, StreamTypeOK, code
  <2>2. x \in 1 .. Len(code) + 1 /\ y \in 0 .. MaxRun - 1
    BY <1>4, <1>n, <1>a
  <2> QED BY <1>0, <1>5, <1>7, <2>1, <2>2 DEF RleInv, StreamTypeOK, code
<1>9. WriterInv' /\ Written' = Len(put)
  BY <1>0 DEF RleInv, WriterInv, Written
<1>10. CodeInv'
  <2>1. ReaderAt(code, m)'
    <3>1. m[x] >= 0 /\ g + 1 = m[x] - y /\ x > 1
      BY <1>n, <1>a
    <3>2. \A k \in Len(got') + 1 .. m[x] : k \in g + 1 .. m[x]
      BY <1>n, <1>7, <1>a
    <3> QED BY <1>0, <1>5, <1>7, <3>1, <3>2 DEF ReaderAt, code
  <2> QED BY <1>0, <1>2, <1>9, <2>1 DEF CodeInv, code
<1>11. ReadsWhatWasPut'
  BY <1>0, <1>1, <1>7 DEF RleInv, ReadsWhatWasPut, g
<1> QED BY <1>0, <1>8, <1>9, <1>10, <1>11 DEF RleInv, AtMostDoubles

(* When all bytes have been read there is no code left: each stands for at *)
(* least one byte.                                                         *)
LEMMA NothingLeft == ASSUME RleAssumption, RleInv PROVE EndsTogether
<1> SUFFICES ASSUME flushed, Len(got) = Len(put)
             PROVE  reader = [at |-> Len(writer.data) + 1, run |-> 0]
  BY DEF EndsTogether
<1> DEFINE code == writer.data
           pos == reader.at
<1>1. /\ code \in Seq(Byte) /\ Len(code) \in Nat /\ pos \in 1 .. Len(code) + 1
      /\ reader.run \in 0 .. MaxRun - 1 /\ Len(put) \in Nat /\ MaxRun \in Int /\ Mark \in Int
      /\ \A p \in 1..Len(code) : code[p] \in Int
  <2>1. code \in Seq(Byte) /\ pos \in 1 .. Len(code) + 1 /\ reader.run \in 0 .. MaxRun - 1
    BY WriterFields DEF RleInv, StreamTypeOK
  <2>2. Len(put) \in Nat /\ Len(code) \in Nat
    BY <2>1 DEF RleInv, StreamTypeOK
  <2>3. MaxRun \in Int /\ Mark \in Int /\ Byte \subseteq Int
    BY DEF Byte, Mark, RleAssumption
  <2>4. \A p \in 1..Len(code) : code[p] \in Int
    <3> HIDE DEF code, pos
    <3> TAKE p \in 1..Len(code)
    <3>1. code[p] \in Byte
      BY <2>1
    <3> QED BY <2>3, <3>1
  <2> QED BY <2>1, <2>2, <2>3, <2>4
<1>2. PICK m \in Maps(code, Len(put)) : Codes(code, put, Len(put), m) /\ ReaderAt(code, m)
  BY WriterFields DEF RleInv, CodeInv, WriterInv, Written
<1>3. /\ \A p \in 1 .. Len(code) + 1 : m[p] \in -1..Len(put)
      /\ m[pos] >= 0 /\ Len(put) = m[pos] - reader.run
  BY <1>1, <1>2 DEF Maps, ReaderAt
<1> HIDE DEF code, pos
<1>4. reader.run = 0 /\ m[pos] = Len(put)
  BY <1>1, <1>3
<1>5. pos = Len(code) + 1
  <2> SUFFICES ASSUME pos \in 1..Len(code) PROVE FALSE
    BY <1>1
  <2>1. CodeAt(code, put, m, pos)
    BY <1>1, <1>2, <1>3 DEF Codes
  <2>2. CASE code[pos] >= Mark
    BY <1>1, <1>3, <1>4, <2>1, <2>2 DEF CodeAt
  <2>3. CASE ~(code[pos] >= Mark)
    BY <1>1, <1>3, <1>4, <2>1, <2>3 DEF CodeAt
  <2> QED BY <2>2, <2>3
<1>6. reader = [at |-> pos, run |-> reader.run]
  BY DEF RleInv, StreamTypeOK, pos
<1> QED BY <1>4, <1>5, <1>6 DEF code

(* Bytes of any kind and number, put in any order, are read back as they   *)
(* were put by CA_rle_put, CA_rle_flush and ReadRLEByte; the reader ends   *)
(* where the writer ended, and the code is at most twice as long.          *)
THEOREM RunLengthsAreExact == StreamSpec => []RunLengthsReadBack
<1>1. StreamInit => RleInv
  BY RleAssumption, RleInit
<1>2. RleInv /\ [StreamNext]_streamVars => RleInv'
  <2> SUFFICES ASSUME RleInv, [StreamNext]_streamVars PROVE RleInv'
    OBVIOUS
  <2>1. CASE StreamNext
    BY <2>1, RleAssumption, PutBytesAssumption, PutStep, FlushStep, ReadStep DEF StreamNext
  <2>2. CASE UNCHANGED streamVars
    BY <2>2 DEF streamVars, RleInv, StreamTypeOK, WriterInv, CodeInv, ReaderAt, Written, ReadsWhatWasPut,
                AtMostDoubles
  <2> QED BY <2>1, <2>2
<1>3. RleInv => RunLengthsReadBack
  BY RleAssumption, NothingLeft DEF RleInv, RunLengthsReadBack
<1> QED BY <1>1, <1>2, <1>3, PTL DEF StreamSpec
-----------------------------------------------------------------------------
(***************************************************************************)
(* Column files: for any number of files with any lines.                   *)
(***************************************************************************)
ColumnValue == {ValueOf(line) : line \in ColumnLine}
ColumnRow == [key : Nat, value : Seq(ColumnValue)]

(* The rows with what is gathered as the last of them.                     *)
Gathered ==
  IF data = <<>> THEN columnRows ELSE Append(columnRows, [key |-> key, value |-> data])

(* The lines that were read, and those of them with a value.               *)
Read(p) == p[1] < inputFile \/ (p[1] = inputFile /\ p[2] <= at)
Passed == {p \in Valued : Read(p)}

(* The values of rows are those of the lines at some places.               *)
Holds(rows, places) ==
  \E from \in [Cells(rows) -> Valued] :
    ComeFrom(rows, from) /\ Origins(rows, from) = places

(* Where lines are in order, a row has the key of a line that was read,    *)
(* and of one before the line at hand.                                     *)
OrderInv ==
  /\ columnPhase = "failed" => NothingToLoad
  /\ \A m, n \in 1..Len(columnRows) : m < n => columnRows[m].key < columnRows[n].key
  /\ \A n \in 1..Len(columnRows) :
       /\ at > 0 => columnRows[n].key < key
       /\ \E p \in Places(inputs) : Read(p) /\ columnRows[n].key = LineAt(p).key

PositionInv ==
  /\ inputs \in Seq(Seq(ColumnLine))
  /\ inputFile \in 1 .. Len(inputs) + 1 /\ at \in Nat
  /\ inputFile <= Len(inputs) => at <= Len(inputs[inputFile])
  /\ columnPhase = "synced" => inputFile > Len(inputs)

ColumnTypes ==
  /\ key \in Nat /\ data \in Seq(ColumnValue) /\ columnRows \in Seq(ColumnRow)
  /\ at = 0 => key = 0 /\ data = <<>>
  /\ inputFile > Len(inputs) => at = 0
  /\ at > 0 => key = LineAt(<<inputFile, at>>).key

ColumnInv ==
  /\ PositionInv
  /\ columnOpt.type # "summaries" =>
       /\ ColumnTypes
       /\ columnPhase # "failed" => Holds(Gathered, Passed)
       /\ LinesOrdered => OrderInv
-----------------------------------------------------------------------------
(* The places of the values of rows.                                       *)
LEMMA CellFacts ==
  ASSUME NEW rows \in Seq(ColumnRow), NEW c
  PROVE  c \in Cells(rows) <=> \E n \in 1..Len(rows), j \in Nat :
                                j \in 1..Len(rows[n].value) /\ c = <<n, j>>
  BY DEF Cells

(* The places of the lines of files.                                       *)
LEMMA PlaceFacts ==
  ASSUME inputs \in Seq(Seq(ColumnLine)), NEW p
  PROVE  /\ p \in Places(inputs) <=> \E f \in 1..Len(inputs), j \in Nat :
                                     j \in 1..Len(inputs[f]) /\ p = <<f, j>>
         /\ p \in Places(inputs) =>
              /\ p[1] \in 1..Len(inputs) /\ p[2] \in 1..Len(inputs[p[1]])
              /\ p = <<p[1], p[2]>> /\ LineAt(p) \in ColumnLine
<1>1. p \in Places(inputs) <=> \E f \in 1..Len(inputs), j \in Nat :
                                  j \in 1..Len(inputs[f]) /\ p = <<f, j>>
  BY DEF Places
<1>2. ASSUME p \in Places(inputs)
      PROVE  /\ p[1] \in 1..Len(inputs) /\ p[2] \in 1..Len(inputs[p[1]])
             /\ p = <<p[1], p[2]>> /\ LineAt(p) \in ColumnLine
  <2>1. PICK f \in 1..Len(inputs), j \in Nat : j \in 1..Len(inputs[f]) /\ p = <<f, j>>
    BY <1>1, <1>2
  <2>2. inputs[f] \in Seq(ColumnLine)
    OBVIOUS
  <2>3. inputs[f][j] \in ColumnLine
    BY <2>1, <2>2
  <2> QED BY <2>1, <2>3 DEF LineAt
<1> QED BY <1>1, <1>2

(* A line's key and value have their types.                                *)
LEMMA ValueFacts ==
  ASSUME inputs \in Seq(Seq(ColumnLine)), NEW p \in Places(inputs)
  PROVE  ValueOf(LineAt(p)) \in ColumnValue /\ LineAt(p).key \in Nat
<1>1. LineAt(p) \in ColumnLine
  BY PlaceFacts
<1> QED BY <1>1 DEF ColumnValue, ColumnLine

(* More has, behind the values of rows, that of the line at p.             *)
AddsCell(rows, more, new, p) ==
  /\ Cells(more) = Cells(rows) \cup {new} /\ new \notin Cells(rows)
  /\ ~Earlier(new, new)
  /\ \A c \in Cells(rows) : /\ Earlier(c, new) /\ ~Earlier(new, c)
                             /\ more[c[1]].key = rows[c[1]].key
                             /\ more[c[1]].value[c[2]] = rows[c[1]].value[c[2]]
  /\ more[new[1]].key = LineAt(p).key
  /\ more[new[1]].value[new[2]] = ValueOf(LineAt(p))

(* A value more, behind the others, from a line behind theirs.             *)
LEMMA OneMore ==
  ASSUME NEW rows, NEW more, NEW new, NEW p \in Valued,
         NEW places, Holds(rows, places), \A q \in places : Earlier(q, p),
         AddsCell(rows, more, new, p)
  PROVE  Holds(more, places \cup {p})
<1> PICK from \in [Cells(rows) -> Valued] :
           ComeFrom(rows, from) /\ Origins(rows, from) = places
  BY DEF Holds
<1> DEFINE to == [c \in Cells(more) |-> IF c = new THEN p ELSE from[c]]
<1>1. to \in [Cells(more) -> Valued]
  BY DEF AddsCell
<1>2. to[new] = p /\ \A c \in Cells(rows) : to[c] = from[c]
  BY DEF AddsCell
<1> HIDE DEF to
<1> USE DEF AddsCell
<1>3. ASSUME NEW c \in Cells(more), NEW d \in Cells(more), Earlier(c, d)
      PROVE  Earlier(to[c], to[d])
  <2>1. CASE c \in Cells(rows) /\ d \in Cells(rows)
    BY <1>2, <1>3, <2>1 DEF ComeFrom
  <2>2. CASE c \in Cells(rows) /\ d = new
    <3>1. from[c] \in Origins(rows, from)
      BY <2>2 DEF Origins
    <3> QED BY <1>2, <2>2, <3>1
  <2>3. CASE c = new
    BY <1>3, <2>3
  <2> QED BY <2>1, <2>2, <2>3
<1>4. ASSUME NEW c \in Cells(more)
      PROVE  /\ LineAt(to[c]).key = more[c[1]].key
             /\ ValueOf(LineAt(to[c])) = more[c[1]].value[c[2]]
  <2>1. CASE c \in Cells(rows)
    <3>1. /\ LineAt(from[c]).key = rows[c[1]].key
          /\ ValueOf(LineAt(from[c])) = rows[c[1]].value[c[2]]
      BY <2>1 DEF ComeFrom
    <3> QED BY <1>2, <2>1, <3>1
  <2>2. CASE c = new
    BY <1>2, <2>2
  <2> QED BY <2>1, <2>2
<1>5. ComeFrom(more, to)
  BY <1>3, <1>4 DEF ComeFrom
<1>6. Origins(more, to) = Origins(rows, from) \cup {p}
  BY <1>2 DEF Origins
<1> QED BY <1>1, <1>5, <1>6 DEF Holds

(* A row with the value of a line is appended.                             *)
LEMMA NewRow ==
  ASSUME NEW rows \in Seq(ColumnRow), inputs \in Seq(Seq(ColumnLine)), NEW p \in Valued,
         NEW places, Holds(rows, places), \A q \in places : Earlier(q, p)
  PROVE  Holds(Append(rows, [key |-> LineAt(p).key, value |-> <<ValueOf(LineAt(p))>>]),
               places \cup {p})
<1> DEFINE k == LineAt(p).key
           v == ValueOf(LineAt(p))
           row == [key |-> k, value |-> <<v>>]
           more == Append(rows, row)
           new == <<Len(rows) + 1, 1>>
<1>1. p \in Places(inputs)
  BY DEF Valued
<1>2. v \in ColumnValue /\ k \in Nat
  BY <1>1, ValueFacts
<1> HIDE DEF k, v
<1>3. row \in ColumnRow /\ row.key = k /\ Len(row.value) = 1 /\ row.value[1] = v
  BY <1>2 DEF ColumnRow
<1> HIDE DEF row
<1>4. /\ more \in Seq(ColumnRow) /\ Len(more) = Len(rows) + 1 /\ more[Len(rows) + 1] = row
      /\ \A n \in 1..Len(rows) : more[n] = rows[n]
  BY <1>3
<1> HIDE DEF more
<1>5. Len(rows) \in Nat
  OBVIOUS
<1>6. ASSUME NEW c
      PROVE  c \in Cells(more) <=> c \in Cells(rows) \/ c = new
  <2>1. ASSUME c \in Cells(more) PROVE c \in Cells(rows) \/ c = new
    <3>1. PICK n \in 1..Len(more), j \in Nat : j \in 1..Len(more[n].value) /\ c = <<n, j>>
      BY <1>4, <2>1, CellFacts
    <3>2. CASE n = Len(rows) + 1
      <4>1. Len(more[n].value) = 1
        BY <1>3, <1>4, <3>2
      <4>2. j = 1
        BY <3>1, <4>1
      <4> QED BY <3>1, <3>2, <4>2
    <3>3. CASE n \in 1..Len(rows)
      BY <1>4, <3>1, <3>3, CellFacts
    <3> QED BY <1>4, <1>5, <3>2, <3>3
  <2>2. ASSUME c \in Cells(rows) PROVE c \in Cells(more)
    <3>1. PICK n \in 1..Len(rows), j \in Nat : j \in 1..Len(rows[n].value) /\ c = <<n, j>>
      BY <2>2, CellFacts
    <3>2. n \in 1..Len(more) /\ more[n] = rows[n]
      BY <1>4, <1>5
    <3> QED BY <1>4, <3>1, <3>2, CellFacts
  <2>3. new \in Cells(more)
    <3>1. Len(rows) + 1 \in 1..Len(more) /\ 1 \in 1..Len(more[Len(rows) + 1].value)
      BY <1>3, <1>4, <1>5
    <3> QED BY <1>4, <3>1, CellFacts
  <2> QED BY <2>1, <2>2, <2>3
<1>7. ASSUME NEW c \in Cells(rows)
      PROVE  /\ c # new /\ Earlier(c, new) /\ ~Earlier(new, c)
             /\ more[c[1]].key = rows[c[1]].key
             /\ more[c[1]].value[c[2]] = rows[c[1]].value[c[2]]
  <2>1. PICK n \in 1..Len(rows), j \in Nat : j \in 1..Len(rows[n].value) /\ c = <<n, j>>
    BY CellFacts
  <2>2. more[n] = rows[n] /\ n < Len(rows) + 1
    BY <1>4, <1>5
  <2> QED BY <1>5, <2>1, <2>2 DEF Earlier
<1>8. Cells(more) = Cells(rows) \cup {new} /\ new \notin Cells(rows) /\ ~Earlier(new, new)
  BY <1>5, <1>6, <1>7 DEF Earlier
<1>9. more[new[1]].key = LineAt(p).key /\ more[new[1]].value[new[2]] = ValueOf(LineAt(p))
  BY <1>3, <1>4 DEF k, v
<1>10. AddsCell(rows, more, new, p)
  BY <1>7, <1>8, <1>9 DEF AddsCell
<1> HIDE DEF new
<1>11. Holds(more, places \cup {p})
  BY <1>10, OneMore
<1> QED BY <1>11 DEF more, row, k, v

(* The last row gets the value of a line with its key.                     *)
LEMMA GrownRow ==
  ASSUME NEW base \in Seq(ColumnRow), NEW d \in Seq(ColumnValue),
         inputs \in Seq(Seq(ColumnLine)), NEW p \in Valued, NEW places,
         Holds(Append(base, [key |-> LineAt(p).key, value |-> d]), places),
         \A q \in places : Earlier(q, p)
  PROVE  Holds(Append(base, [key |-> LineAt(p).key, value |-> d \o <<ValueOf(LineAt(p))>>]),
               places \cup {p})
<1> DEFINE k == LineAt(p).key
           v == ValueOf(LineAt(p))
           old == [key |-> k, value |-> d]
           grown == [key |-> k, value |-> d \o <<v>>]
           rows == Append(base, old)
           more == Append(base, grown)
           last == Len(base) + 1
           new == <<last, Len(d) + 1>>
<1>1. p \in Places(inputs)
  BY DEF Valued
<1>2. v \in ColumnValue /\ k \in Nat
  BY <1>1, ValueFacts
<1> HIDE DEF k, v
<1>3. /\ d \o <<v>> \in Seq(ColumnValue) /\ Len(d \o <<v>>) = Len(d) + 1
      /\ (d \o <<v>>)[Len(d) + 1] = v /\ \A j \in 1..Len(d) : (d \o <<v>>)[j] = d[j]
  BY <1>2
<1>4. /\ old \in ColumnRow /\ grown \in ColumnRow /\ old.key = k /\ grown.key = k
      /\ old.value = d /\ Len(grown.value) = Len(d) + 1 /\ grown.value[Len(d) + 1] = v
      /\ \A j \in 1..Len(d) : grown.value[j] = d[j]
  BY <1>2, <1>3 DEF ColumnRow
<1> HIDE DEF old, grown
<1>5. /\ rows \in Seq(ColumnRow) /\ Len(rows) = last /\ rows[last] = old
      /\ more \in Seq(ColumnRow) /\ Len(more) = last /\ more[last] = grown
      /\ \A n \in 1..Len(base) : more[n] = base[n] /\ rows[n] = base[n]
  BY <1>4
<1>6. Len(base) \in Nat /\ Len(d) \in Nat /\ last \in Nat /\ last = Len(base) + 1
  OBVIOUS
<1>7. ASSUME NEW n \in 1..last
      PROVE  /\ n # last => more[n] = rows[n]
             /\ n = last => more[n] = grown /\ rows[n] = old
  BY <1>5, <1>6
<1> HIDE DEF rows, more, last
<1>8. ASSUME NEW c
      PROVE  c \in Cells(more) <=> c \in Cells(rows) \/ c = new
  <2>1. ASSUME c \in Cells(more) PROVE c \in Cells(rows) \/ c = new
    <3>1. PICK n \in 1..Len(more), j \in Nat : j \in 1..Len(more[n].value) /\ c = <<n, j>>
      BY <1>5, <2>1, CellFacts
    <3>2. CASE n # last
      BY <1>5, <1>7, <3>1, <3>2, CellFacts
    <3>3. CASE n = last
      <4>1. more[n] = grown /\ rows[n] = old
        BY <1>5, <1>7, <3>3
      <4>2. j = Len(d) + 1 \/ j \in 1..Len(rows[n].value)
        BY <1>4, <1>6, <3>1, <4>1
      <4>3. CASE j = Len(d) + 1
        BY <3>1, <3>3, <4>3
      <4>4. CASE j \in 1..Len(rows[n].value)
        BY <1>5, <3>1, <4>4, CellFacts
      <4> QED BY <4>2, <4>3, <4>4
    <3> QED BY <3>2, <3>3
  <2>2. ASSUME c \in Cells(rows) PROVE c \in Cells(more)
    <3>0. rows \in Seq(ColumnRow)
      BY <1>5
    <3>1. PICK n \in 1..Len(rows), j \in Nat : j \in 1..Len(rows[n].value) /\ c = <<n, j>>
      BY <2>2, <3>0, CellFacts
    <3>2. n \in 1..Len(more)
      BY <1>5
    <3>3. j \in 1..Len(more[n].value)
      <4>1. CASE n # last
        BY <1>5, <1>7, <3>1, <4>1
      <4>2. CASE n = last
        <5>1. more[n] = grown /\ rows[n] = old
          BY <1>5, <1>7, <4>2
        <5> QED BY <1>4, <1>6, <3>1, <5>1
      <4> QED BY <4>1, <4>2
    <3> QED BY <1>5, <3>1, <3>2, <3>3, CellFacts
  <2>3. new \in Cells(more)
    <3>1. last \in 1..Len(more) /\ Len(d) + 1 \in 1..Len(more[last].value) /\ Len(d) + 1 \in Nat
      BY <1>4, <1>5, <1>6
    <3> QED BY <1>5, <3>1, CellFacts
  <2> QED BY <2>1, <2>2, <2>3
<1>9. ASSUME NEW c \in Cells(rows)
      PROVE  /\ c # new /\ Earlier(c, new) /\ ~Earlier(new, c)
             /\ more[c[1]].key = rows[c[1]].key
             /\ more[c[1]].value[c[2]] = rows[c[1]].value[c[2]]
  <2>1. PICK n \in 1..Len(rows), j \in Nat : j \in 1..Len(rows[n].value) /\ c = <<n, j>>
    BY <1>5, CellFacts
  <2>2. CASE n # last
    <3>1. n \in 1..last
      BY <1>5
    <3>2. more[n] = rows[n] /\ n < last
      BY <1>6, <1>7, <2>2, <3>1
    <3>3. c[1] = n /\ c[2] = j /\ new[1] = last /\ new[2] = Len(d) + 1
      BY <2>1
    <3>4. c # new /\ Earlier(c, new) /\ ~Earlier(new, c)
      BY <1>6, <3>2, <3>3 DEF Earlier
    <3> QED BY <3>2, <3>3, <3>4
  <2>3. CASE n = last
    <3>1. more[n] = grown /\ rows[n] = old
      BY <1>5, <1>7, <2>3
    <3>2. j \in 1..Len(d) /\ more[n].value[j] = rows[n].value[j] /\ more[n].key = rows[n].key
      BY <1>4, <2>1, <3>1
    <3> QED BY <1>6, <2>1, <2>3, <3>2 DEF Earlier
  <2> QED BY <2>2, <2>3
<1>10. Cells(more) = Cells(rows) \cup {new} /\ new \notin Cells(rows) /\ ~Earlier(new, new)
  BY <1>6, <1>8, <1>9 DEF Earlier
<1>11. more[new[1]].key = LineAt(p).key /\ more[new[1]].value[new[2]] = ValueOf(LineAt(p))
  BY <1>4, <1>5 DEF k, v
<1>12. AddsCell(rows, more, new, p)
  BY <1>9, <1>10, <1>11 DEF AddsCell
<1> HIDE DEF new
<1>13. Holds(rows, places)
  BY DEF rows, old, k
<1>14. Holds(more, places \cup {p})
  BY <1>12, <1>13, OneMore
<1> QED BY <1>14 DEF more, grown, k, v
-----------------------------------------------------------------------------
(* What does not depend on the progress of the loader.                     *)
LEMMA ColumnsSame ==
  ASSUME UNCHANGED <<columnOpt, inputs>>
  PROVE  /\ \A line : HasValue(line)' = HasValue(line) /\ ValueOf(line)' = ValueOf(line)
         /\ \A p : LineAt(p)' = LineAt(p)
         /\ Places(inputs)' = Places(inputs) /\ Valued' = Valued
         /\ LinesOrdered' = LinesOrdered /\ ColumnValue' = ColumnValue
<1>1. ASSUME NEW line
      PROVE  HasValue(line)' = HasValue(line) /\ ValueOf(line)' = ValueOf(line)
  BY DEF HasValue, ValueOf, Holding, Document
<1>2. \A p : LineAt(p)' = LineAt(p)
  BY DEF LineAt
<1>3. Places(inputs)' = Places(inputs)
  OBVIOUS
<1>4. Valued' = Valued
  BY <1>1, <1>2, <1>3 DEF Valued
<1>5. LinesOrdered' = LinesOrdered
  BY <1>2, <1>3 DEF LinesOrdered
<1>6. ColumnValue' = ColumnValue
  BY <1>1 DEF ColumnValue
<1> QED BY <1>1, <1>2, <1>3, <1>4, <1>5, <1>6

(* A step after which the rows hold what they should.                      *)
LEMMA HoldsNext ==
  ASSUME UNCHANGED <<columnOpt, inputs>>, NEW rows, NEW places,
         Gathered' = rows, Passed' = places, Holds(rows, places)
  PROVE  Holds(Gathered, Passed)'
  BY ColumnsSame DEF Holds, ComeFrom, Origins

(* Reading a line: it is behind all that were passed.                      *)
LEMMA ReadOne ==
  ASSUME PositionInv, ReadingColumns, UNCHANGED <<columnOpt, inputs, inputFile>>, at' = at + 1
  PROVE  LET p == <<inputFile, at + 1>>
         IN  /\ p \in Places(inputs) /\ LineAt(p) = Line /\ Line \in ColumnLine
             /\ HasValue(Line) => p \in Valued /\ Passed' = Passed \cup {p}
             /\ ~HasValue(Line) => Passed' = Passed
             /\ \A q \in Passed : Earlier(q, p)
<1> DEFINE p == <<inputFile, at + 1>>
<1>1. /\ inputFile \in 1..Len(inputs) /\ at + 1 \in 1..Len(inputs[inputFile]) /\ at + 1 \in Nat
      /\ at \in Nat /\ inputs \in Seq(Seq(ColumnLine))
  BY DEF PositionInv, ReadingColumns
<1>2. p \in Places(inputs)
  BY <1>1, PlaceFacts
<1>3. LineAt(p) = Line /\ Line \in ColumnLine
  BY <1>1, <1>2, PlaceFacts DEF LineAt, Line
<1>4. ASSUME NEW q \in Valued
      PROVE  /\ Read(q)' <=> Read(q) \/ q = p
             /\ Read(q) => Earlier(q, p)
  <2>1. q \in Places(inputs)
    BY DEF Valued
  <2>2. q[1] \in Nat /\ q[2] \in Nat /\ q = <<q[1], q[2]>>
    BY <1>1, <2>1, PlaceFacts
  <2>3. q = p <=> q[1] = inputFile /\ q[2] = at + 1
    BY <2>2
  <2> QED BY <1>1, <2>2, <2>3 DEF Read, Earlier
<1>5. p \in Valued <=> HasValue(Line)
  BY <1>2, <1>3 DEF Valued
<1>6. Passed' = {q \in Valued : Read(q)'}
  BY ColumnsSame DEF Passed
<1>7. HasValue(Line) => Passed' = Passed \cup {p}
  BY <1>4, <1>5, <1>6 DEF Passed
<1>8. ~HasValue(Line) => Passed' = Passed
  BY <1>4, <1>5, <1>6 DEF Passed
<1> QED BY <1>2, <1>3, <1>4, <1>5, <1>7, <1>8 DEF Passed

(* What is gathered makes a row.                                           *)
LEMMA GatheredType ==
  ASSUME ColumnTypes
  PROVE  Gathered \in Seq(ColumnRow)
<1>1. [key |-> key, value |-> data] \in ColumnRow
  BY DEF ColumnTypes, ColumnRow
<1> QED BY <1>1 DEF ColumnTypes, Gathered

(* Writing, when it does not fail, makes it the last row.                  *)
LEMMA WritesGathered ==
  ASSUME WriteData, columnPhase' # "failed"
  PROVE  columnRows' = Gathered
  BY DEF WriteData, InsertRow, Gathered

(* A line with another key begins a row.                                   *)
LEMMA OtherKey ==
  ASSUME PositionInv, ColumnTypes, Holds(Gathered, Passed),
         ReadingColumns, UNCHANGED <<columnOpt, inputs, inputFile>>, at' = at + 1,
         columnRows' = Gathered, key' = Line.key, data' = LineValues
  PROVE  Holds(Gathered, Passed)'
<1> DEFINE p == <<inputFile, at + 1>>
<1>1. /\ p \in Places(inputs) /\ LineAt(p) = Line
      /\ HasValue(Line) => p \in Valued /\ Passed' = Passed \cup {p}
      /\ ~HasValue(Line) => Passed' = Passed
      /\ \A q \in Passed : Earlier(q, p)
  BY ReadOne
<1> HIDE DEF p
<1>2. Gathered \in Seq(ColumnRow) /\ inputs \in Seq(Seq(ColumnLine))
  BY GatheredType DEF PositionInv
<1>3. CASE HasValue(Line)
  <2>1. data' = <<ValueOf(LineAt(p))>> /\ data' # <<>>
    BY <1>1, <1>3 DEF LineValues
  <2>2. Gathered' = Append(Gathered, [key |-> LineAt(p).key, value |-> <<ValueOf(LineAt(p))>>])
    BY <1>1, <2>1 DEF Gathered
  <2>3. Holds(Append(Gathered, [key |-> LineAt(p).key, value |-> <<ValueOf(LineAt(p))>>]),
              Passed \cup {p})
    BY <1>1, <1>2, <1>3, NewRow
  <2> QED BY <1>1, <1>3, <2>2, <2>3, HoldsNext
<1>4. CASE ~HasValue(Line)
  <2>1. Gathered' = Gathered
    BY <1>4 DEF LineValues, Gathered
  <2> QED BY <1>1, <1>4, <2>1, HoldsNext
<1> QED BY <1>3, <1>4

(* A line with the same key adds to what is gathered.                      *)
LEMMA SameKey ==
  ASSUME PositionInv, ColumnTypes, Holds(Gathered, Passed),
         ReadingColumns, UNCHANGED <<columnOpt, inputs, inputFile, columnRows, key>>,
         at' = at + 1, key = Line.key, data' = data \o LineValues
  PROVE  Holds(Gathered, Passed)'
<1> DEFINE p == <<inputFile, at + 1>>
<1>1. /\ p \in Places(inputs) /\ LineAt(p) = Line
      /\ HasValue(Line) => p \in Valued /\ Passed' = Passed \cup {p}
      /\ ~HasValue(Line) => Passed' = Passed
      /\ \A q \in Passed : Earlier(q, p)
  BY ReadOne
<1> HIDE DEF p
<1>2. /\ columnRows \in Seq(ColumnRow) /\ inputs \in Seq(Seq(ColumnLine))
      /\ data \in Seq(ColumnValue)
  BY DEF PositionInv, ColumnTypes
<1> DEFINE v == ValueOf(LineAt(p))
<1>3. v \in ColumnValue
  BY <1>1, <1>2, ValueFacts
<1>4. CASE HasValue(Line) /\ data = <<>>
  <2>1. LineValues = <<v>>
    BY <1>1, <1>4 DEF LineValues
  <2> HIDE DEF v
  <2>2. data' = <<v>> /\ data' # <<>>
    BY <1>3, <1>4, <2>1
  <2>3. Gathered = columnRows /\ Gathered' = Append(columnRows, [key |-> LineAt(p).key, value |-> <<v>>])
    BY <1>1, <1>4, <2>2 DEF Gathered
  <2>4. Holds(Append(columnRows, [key |-> LineAt(p).key, value |-> <<v>>]), Passed \cup {p})
    BY <1>1, <1>2, <1>4, <2>3, NewRow DEF v
  <2> QED BY <1>1, <1>4, <2>3, <2>4, HoldsNext
<1>5. CASE HasValue(Line) /\ data # <<>>
  <2>1. LineValues = <<v>>
    BY <1>1, <1>5 DEF LineValues
  <2> HIDE DEF v
  <2>2. data' = data \o <<v>> /\ data \o <<v>> # <<>>
    BY <1>2, <1>3, <2>1
  <2>3. /\ Gathered = Append(columnRows, [key |-> LineAt(p).key, value |-> data])
        /\ Gathered' = Append(columnRows, [key |-> LineAt(p).key, value |-> data \o <<v>>])
    BY <1>1, <1>5, <2>2 DEF Gathered
  <2>4. Holds(Append(columnRows, [key |-> LineAt(p).key, value |-> data \o <<v>>]),
              Passed \cup {p})
    BY <1>1, <1>2, <1>5, <2>3, GrownRow DEF v
  <2> QED BY <1>1, <1>5, <2>3, <2>4, HoldsNext
<1>6. CASE ~HasValue(Line)
  <2>1. data' = data
    BY <1>2, <1>6 DEF LineValues
  <2>2. Gathered' = Gathered
    BY <2>1 DEF Gathered
  <2> QED BY <1>1, <1>6, <2>2, HoldsNext
<1> QED BY <1>4, <1>5, <1>6

(* Every step stays within the files.                                      *)
LEMMA PositionMoves ==
  ASSUME PositionInv, ColumnNext
  PROVE  PositionInv'
<1> USE DEF PositionInv, ReadingColumns
<1>1. CASE SummaryRow \/ ScoreRow
  <2>1. columnPhase' # "synced"
    BY <1>1 DEF SummaryRow, ScoreRow, WriteData, InsertRow
  <2> QED BY <1>1, <2>1 DEF SummaryRow, ScoreRow
<1>2. CASE EndOfFile
  <2>1. columnPhase' # "synced"
    BY <1>2 DEF EndOfFile, WriteData, InsertRow
  <2> QED BY <1>2, <2>1 DEF EndOfFile
<1>3. CASE SyncColumns
  BY <1>3 DEF SyncColumns
<1> QED BY <1>1, <1>2, <1>3 DEF ColumnNext

(* Writing keeps the rows' type.                                           *)
LEMMA RowsTyped ==
  ASSUME ColumnTypes, WriteData
  PROVE  columnRows' \in Seq(ColumnRow)
<1>1. [key |-> key, value |-> data] \in ColumnRow
  BY DEF ColumnTypes, ColumnRow
<1> QED BY <1>1 DEF ColumnTypes, WriteData, InsertRow

(* Sequences joined.                                                       *)
LEMMA Joined ==
  ASSUME NEW S, NEW s \in Seq(S), NEW t \in Seq(S)
  PROVE  s \o t \in Seq(S)
  OBVIOUS

(* Every step keeps types, and the key is that of the last line read.      *)
LEMMA TypesStay ==
  ASSUME PositionInv, ColumnTypes, columnOpt.type # "summaries", ColumnNext
  PROVE  ColumnTypes'
<1>1. CASE ScoreRow
  <2>1. PICK p \in Places(inputs) : LineAt(p) = Line /\ p = <<inputFile, at + 1>>
    BY <1>1, ReadOne DEF ScoreRow
  <2>2. Line.key \in Nat /\ ValueOf(Line) \in ColumnValue
    BY <2>1, ValueFacts DEF PositionInv
  <2>3. LineValues \in Seq(ColumnValue)
    BY <2>2 DEF LineValues
  <2>4. UNCHANGED <<columnOpt, inputs, inputFile>> /\ at' = at + 1 /\ at \in Nat
    BY <1>1 DEF ScoreRow, PositionInv
  <2>5. key' = Line.key
    BY <1>1 DEF ScoreRow
  <2>6. data' \in Seq(ColumnValue)
    <3>1. data' = LineValues \/ data' = data \o LineValues
      BY <1>1 DEF ScoreRow
    <3>2. data \in Seq(ColumnValue)
      BY DEF ColumnTypes
    <3> HIDE DEF ColumnValue
    <3>3. data \o LineValues \in Seq(ColumnValue)
      BY <2>3, <3>2, Joined
    <3> QED BY <2>3, <3>1, <3>3
  <2>7. columnRows' \in Seq(ColumnRow)
    BY <1>1, RowsTyped DEF ScoreRow, ColumnTypes
  <2>8. LineAt(<<inputFile, at>>)' = Line
    BY <2>4 DEF LineAt, Line
  <2>9. inputFile <= Len(inputs)
    BY <1>1 DEF ScoreRow, ReadingColumns
  <2>10. ColumnValue' = ColumnValue /\ ColumnRow' = ColumnRow
    BY <2>4, ColumnsSame DEF ColumnRow
  <2>11. at' # 0 /\ ~(inputFile' > Len(inputs)')
    BY <2>4, <2>9 DEF PositionInv
  <2> QED BY <2>2, <2>5, <2>6, <2>7, <2>8, <2>10, <2>11 DEF ColumnTypes
<1>2. CASE EndOfFile
  <2>1. columnRows' \in Seq(ColumnRow)
    BY <1>2, RowsTyped DEF EndOfFile
  <2>2. ColumnValue' = ColumnValue /\ ColumnRow' = ColumnRow
    BY <1>2, ColumnsSame DEF ColumnRow, EndOfFile
  <2> QED BY <1>2, <2>1, <2>2 DEF EndOfFile, ColumnTypes
<1>3. CASE SyncColumns
  <2>1. ColumnValue' = ColumnValue /\ ColumnRow' = ColumnRow
    BY <1>3, ColumnsSame DEF ColumnRow, SyncColumns
  <2>2. LineAt(<<inputFile, at>>)' = LineAt(<<inputFile, at>>)
    BY <1>3 DEF SyncColumns, LineAt
  <2> QED BY <1>3, <2>1, <2>2 DEF SyncColumns, ColumnTypes
<1> QED BY <1>1, <1>2, <1>3 DEF ColumnNext, SummaryRow

(* Writing what is gathered, when the lines are in order.                  *)
LEMMA OrderedWrite ==
  ASSUME PositionInv, ColumnTypes, LinesOrdered, OrderInv, WriteData,
         inputFile <= Len(inputs), columnPhase # "failed"
  PROVE  /\ columnPhase' # "failed"
         /\ \A m, n \in 1..Len(columnRows') :
              m < n => columnRows'[m].key < columnRows'[n].key
         /\ \A n \in 1..Len(columnRows') :
              /\ columnRows'[n].key \in Nat
              /\ at > 0 => columnRows'[n].key <= key
              /\ \E p \in Places(inputs) : Read(p) /\ columnRows'[n].key = LineAt(p).key
<1>1. key \in Nat /\ at \in Nat /\ columnRows \in Seq(ColumnRow) /\ Len(columnRows) \in Nat
  BY DEF ColumnTypes, PositionInv
<1>2. \A n \in 1..Len(columnRows) : columnRows[n].key \in Nat
  <2> TAKE n \in 1..Len(columnRows)
  <2>1. columnRows[n] \in ColumnRow
    BY <1>1
  <2> QED BY <2>1 DEF ColumnRow
<1>3. CASE data = <<>>
  BY <1>1, <1>2, <1>3 DEF OrderInv, WriteData
<1>4. CASE data # <<>>
  <2> DEFINE row == [key |-> key, value |-> data]
             p == <<inputFile, at>>
  <2>1. at > 0 /\ key = LineAt(p).key
    BY <1>1, <1>4 DEF ColumnTypes
  <2>2. p \in Places(inputs)
    <3>1. /\ inputs \in Seq(Seq(ColumnLine)) /\ inputFile \in 1..Len(inputs)
          /\ at \in 1..Len(inputs[inputFile])
      BY <1>1, <2>1 DEF PositionInv
    <3> QED BY <1>1, <3>1, PlaceFacts
  <2>3. key > 0 /\ Read(p)
    BY <1>1, <2>1, <2>2 DEF LinesOrdered, Read, PositionInv
  <2>4. \A n \in 1..Len(columnRows) : columnRows[n].key < key
    BY <2>1 DEF OrderInv
  <2>5. TakesKey(key)
    <3>1. CASE columnRows = <<>>
      BY <1>1, <2>3, <3>1 DEF TakesKey
    <3>2. CASE columnRows # <<>>
      <4>1. Len(columnRows) \in 1..Len(columnRows)
        BY <1>1, <3>2
      <4>2. columnRows[Len(columnRows)].key \in Nat /\ columnRows[Len(columnRows)].key < key
        BY <1>2, <2>4, <4>1
      <4> QED BY <1>1, <3>2, <4>2 DEF TakesKey
    <3> QED BY <3>1, <3>2
  <2>6. columnRows' = Append(columnRows, row) /\ columnPhase' = columnPhase
    BY <1>4, <2>5 DEF WriteData, InsertRow
  <2>7. row \in ColumnRow /\ row.key = key
    BY DEF ColumnTypes, ColumnRow
  <2> HIDE DEF row
  <2>8. /\ Len(columnRows') = Len(columnRows) + 1 /\ columnRows'[Len(columnRows) + 1] = row
        /\ \A n \in 1..Len(columnRows) : columnRows'[n] = columnRows[n]
    BY <1>1, <2>6, <2>7
  <2>9. ASSUME NEW n \in 1..Len(columnRows')
        PROVE  \/ n \in 1..Len(columnRows) /\ columnRows'[n] = columnRows[n]
               \/ n = Len(columnRows) + 1 /\ columnRows'[n].key = key
    BY <1>1, <2>7, <2>8
  <2>10. columnPhase' # "failed"
    BY <2>6 DEF OrderInv
  <2>11. ASSUME NEW m \in 1..Len(columnRows'), NEW n \in 1..Len(columnRows'), m < n
         PROVE  columnRows'[m].key < columnRows'[n].key
    <3>1. m \in 1..Len(columnRows) /\ columnRows'[m] = columnRows[m]
      BY <1>1, <2>8, <2>11
    <3>2. CASE n \in 1..Len(columnRows) /\ columnRows'[n] = columnRows[n]
      BY <2>11, <3>1, <3>2 DEF OrderInv
    <3>3. CASE n = Len(columnRows) + 1 /\ columnRows'[n].key = key
      BY <2>4, <3>1, <3>3
    <3> QED BY <2>9, <3>2, <3>3
  <2>12. ASSUME NEW n \in 1..Len(columnRows')
         PROVE  /\ columnRows'[n].key \in Nat
                /\ at > 0 => columnRows'[n].key <= key
                /\ \E q \in Places(inputs) : Read(q) /\ columnRows'[n].key = LineAt(q).key
    <3>1. CASE n \in 1..Len(columnRows) /\ columnRows'[n] = columnRows[n]
      <4>1. columnRows[n].key \in Nat /\ columnRows[n].key < key
        BY <1>2, <2>4, <3>1
      <4>2. \E q \in Places(inputs) : Read(q) /\ columnRows[n].key = LineAt(q).key
        BY <3>1 DEF OrderInv
      <4> QED BY <1>1, <3>1, <4>1, <4>2
    <3>2. CASE columnRows'[n].key = key
      <4>1. columnRows'[n].key \in Nat /\ columnRows'[n].key <= key
        BY <1>1, <3>2
      <4>2. p \in Places(inputs) /\ Read(p) /\ columnRows'[n].key = LineAt(p).key
        BY <2>1, <2>2, <2>3, <3>2
      <4> HIDE DEF p
      <4> QED BY <4>1, <4>2
    <3> QED BY <2>9, <3>1, <3>2
  <2> QED BY <2>10, <2>11, <2>12
<1> QED BY <1>3, <1>4

(* After the last file all values have been gathered, and written.         *)
LEMMA AllPassed ==
  ASSUME PositionInv, ColumnTypes, inputFile > Len(inputs)
  PROVE  data = <<>> /\ Passed = Valued
<1>1. data = <<>>
  BY DEF ColumnTypes
<1>2. ASSUME NEW p \in Valued PROVE Read(p)
  <2>1. p[1] \in 1..Len(inputs)
    BY PlaceFacts DEF Valued, PositionInv
  <2> QED BY <2>1 DEF Read, PositionInv
<1> QED BY <1>1, <1>2 DEF Passed

(* A table without rows after the last file: there was no value.           *)
LEMMA NoneToLoad ==
  ASSUME PositionInv, ColumnTypes, inputFile > Len(inputs), columnRows = <<>>,
         Holds(Gathered, Passed)
  PROVE  Valued = {}
<1>1. data = <<>> /\ Passed = Valued
  BY AllPassed
<1>2. Gathered = <<>> /\ Cells(<<>>) = {}
  BY <1>1 DEF Gathered, Cells
<1>3. PICK from \in [Cells(Gathered) -> Valued] : Origins(Gathered, from) = Passed
  BY DEF Holds
<1> QED BY <1>1, <1>2, <1>3 DEF Origins

(* When the lines are in order, no step repeats a key, and only Sync() may *)
(* fail.                                                                   *)
LEMMA OrderStays ==
  ASSUME PositionInv, ColumnTypes, columnOpt.type # "summaries", LinesOrdered, OrderInv,
         columnPhase # "failed" => Holds(Gathered, Passed), ColumnNext
  PROVE  OrderInv'
<1>1. CASE ScoreRow
  <2> DEFINE new == <<inputFile, at + 1>>
  <2>1. UNCHANGED <<columnOpt, inputs, inputFile>> /\ at' = at + 1
    BY <1>1 DEF ScoreRow
  <2>2. new \in Places(inputs) /\ LineAt(new) = Line
    BY <1>1, <2>1, ReadOne DEF ScoreRow
  <2>3. /\ key \in Nat /\ at \in Nat /\ inputFile \in Nat /\ inputs \in Seq(Seq(ColumnLine))
        /\ inputFile <= Len(inputs) /\ Line.key \in Nat /\ Line.key > 0
    <3>1. Line.key \in Nat
      BY <2>2, ValueFacts DEF PositionInv
    <3> QED BY <1>1, <2>2, <3>1 DEF ColumnTypes, PositionInv, ScoreRow, ReadingColumns, LinesOrdered
  <2>4. ASSUME NEW p \in Places(inputs), Read(p)
        PROVE  /\ Read(p)' /\ LineAt(p)' = LineAt(p) /\ LineAt(p).key \in Nat
               /\ LineAt(p).key <= Line.key /\ (at = 0 => LineAt(p).key # Line.key)
    <3>1. p[1] \in Nat /\ p[2] \in 1..Len(inputs[p[1]]) /\ p[2] \in Nat
      BY <2>3, PlaceFacts
    <3>2. Earlier(p, new) /\ (at = 0 => p[1] < new[1])
      BY <2>3, <2>4, <3>1 DEF Read, Earlier
    <3>3. Read(p)'
      BY <2>1, <2>3, <2>4, <3>1 DEF Read
    <3>4. LineAt(p)' = LineAt(p) /\ LineAt(p).key \in Nat
      BY <2>1, <2>3, ColumnsSame, ValueFacts
    <3> HIDE DEF new
    <3> QED BY <2>2, <3>2, <3>3, <3>4 DEF LinesOrdered
  <2>5. columnPhase # "failed"
    BY <1>1 DEF ScoreRow, ReadingColumns
  <2>6. CASE Line.key # key
    <3>1. WriteData /\ key' = Line.key
      BY <1>1, <2>6 DEF ScoreRow
    <3>2. /\ columnPhase' # "failed"
          /\ \A m, n \in 1..Len(columnRows') :
               m < n => columnRows'[m].key < columnRows'[n].key
          /\ \A n \in 1..Len(columnRows') :
               /\ columnRows'[n].key \in Nat
               /\ at > 0 => columnRows'[n].key <= key
               /\ \E p \in Places(inputs) : Read(p) /\ columnRows'[n].key = LineAt(p).key
      BY <2>3, <2>5, <3>1, OrderedWrite
    <3>3. ASSUME NEW n \in 1..Len(columnRows')
          PROVE  /\ columnRows'[n].key < Line.key
                 /\ \E p \in Places(inputs) : Read(p)' /\ columnRows'[n].key = LineAt(p)'.key
      <4>1. PICK p \in Places(inputs) : Read(p) /\ columnRows'[n].key = LineAt(p).key
        BY <3>2
      <4>2. /\ Read(p)' /\ LineAt(p)' = LineAt(p) /\ LineAt(p).key \in Nat
            /\ LineAt(p).key <= Line.key /\ (at = 0 => LineAt(p).key # Line.key)
        BY <2>4, <4>1
      <4>3. at > 0 => key <= Line.key
        <5>1. SUFFICES ASSUME at > 0 PROVE key <= Line.key
          OBVIOUS
        <5> DEFINE q == <<inputFile, at>>
        <5>2. key = LineAt(q).key
          BY <5>1 DEF ColumnTypes
        <5>3. q \in Places(inputs)
          <6>1. inputFile \in 1..Len(inputs) /\ at \in 1..Len(inputs[inputFile])
            BY <1>1, <2>3, <5>1 DEF PositionInv, ScoreRow, ReadingColumns
          <6> QED BY <2>3, <6>1, PlaceFacts
        <5>4. Read(q)
          BY <2>3 DEF Read
        <5> QED BY <2>4, <5>2, <5>3, <5>4
      <4>4. columnRows'[n].key \in Nat /\ (at > 0 => columnRows'[n].key <= key)
        BY <3>2
      <4>5. columnRows'[n].key < Line.key
        BY <2>3, <2>6, <4>1, <4>2, <4>3, <4>4
      <4> QED BY <4>1, <4>2, <4>5
    <3>4. Places(inputs)' = Places(inputs)
      BY <2>1
    <3> QED BY <3>1, <3>2, <3>3, <3>4 DEF OrderInv
  <2>7. CASE Line.key = key
    <3>1. UNCHANGED <<key, columnRows, columnPhase>>
      BY <1>1, <2>7 DEF ScoreRow
    <3>2. at > 0
      BY <2>3, <2>7 DEF ColumnTypes
    <3>3. Places(inputs)' = Places(inputs)
      BY <2>1
    <3>4. ASSUME NEW n \in 1..Len(columnRows)
          PROVE  \E p \in Places(inputs) : Read(p)' /\ columnRows[n].key = LineAt(p)'.key
      <4>1. PICK p \in Places(inputs) : Read(p) /\ columnRows[n].key = LineAt(p).key
        BY DEF OrderInv
      <4> QED BY <2>4, <4>1
    <3> QED BY <2>5, <3>1, <3>2, <3>3, <3>4 DEF OrderInv
  <2> QED BY <2>6, <2>7
<1>2. CASE EndOfFile
  <2>1. /\ WriteData /\ inputFile <= Len(inputs) /\ UNCHANGED <<columnOpt, inputs>>
        /\ inputFile' = inputFile + 1 /\ at' = 0 /\ columnPhase # "failed"
    BY <1>2 DEF EndOfFile
  <2>2. /\ columnPhase' # "failed"
        /\ \A m, n \in 1..Len(columnRows') :
             m < n => columnRows'[m].key < columnRows'[n].key
        /\ \A n \in 1..Len(columnRows') :
             \E p \in Places(inputs) : Read(p) /\ columnRows'[n].key = LineAt(p).key
    BY <2>1, OrderedWrite
  <2>3. ASSUME NEW p \in Places(inputs), Read(p)
        PROVE  Read(p)' /\ LineAt(p)' = LineAt(p)
    <3>1. p[1] \in Nat /\ inputFile \in Nat
      BY PlaceFacts DEF PositionInv
    <3> QED BY <2>1, <2>3, <3>1, ColumnsSame DEF Read
  <2>4. ASSUME NEW n \in 1..Len(columnRows')
        PROVE  \E p \in Places(inputs) : Read(p)' /\ columnRows'[n].key = LineAt(p)'.key
    BY <2>2, <2>3
  <2>5. Places(inputs)' = Places(inputs) /\ ~(at' > 0)
    BY <2>1
  <2> QED BY <2>2, <2>4, <2>5 DEF OrderInv
<1>3. CASE SyncColumns
  <2>1. /\ columnPhase # "failed" /\ inputFile > Len(inputs)
        /\ columnPhase' = "failed" => columnOpt.backend = "write-once" /\ columnRows = <<>>
        /\ UNCHANGED <<columnOpt, inputs, inputFile, at, key, columnRows>>
    BY <1>3 DEF SyncColumns
  <2>2. \A p : Read(p)' = Read(p) /\ LineAt(p)' = LineAt(p)
    BY <2>1, ColumnsSame DEF Read
  <2>3. columnPhase' = "failed" => NothingToLoad'
    <3>1. columnPhase' = "failed" => Valued = {}
      BY <2>1, NoneToLoad
    <3>2. Valued' = Valued
      BY <2>1, ColumnsSame
    <3> QED BY <2>1, <3>1, <3>2 DEF NothingToLoad
  <2> QED BY <2>1, <2>2, <2>3 DEF OrderInv
<1> QED BY <1>1, <1>2, <1>3 DEF ColumnNext, SummaryRow

(* The rows without what is gathered hold a beginning of the lines.        *)
LEMMA RowsHold ==
  ASSUME PositionInv, ColumnTypes, Holds(Gathered, Passed)
  PROVE  \E from \in [Cells(columnRows) -> Valued] :
           /\ ComeFrom(columnRows, from)
           /\ \A p \in Origins(columnRows, from), q \in Valued :
                Earlier(q, p) => q \in Origins(columnRows, from)
           /\ data = <<>> => Origins(columnRows, from) = Passed
<1>1. PICK all \in [Cells(Gathered) -> Valued] :
           ComeFrom(Gathered, all) /\ Origins(Gathered, all) = Passed
  BY DEF Holds
<1>2. /\ columnRows \in Seq(ColumnRow) /\ Gathered \in Seq(ColumnRow)
      /\ Len(columnRows) \in Nat /\ inputs \in Seq(Seq(ColumnLine))
  BY GatheredType DEF ColumnTypes, PositionInv
<1>3. /\ Len(Gathered) \in Len(columnRows) .. Len(columnRows) + 1
      /\ \A n \in 1..Len(columnRows) : Gathered[n] = columnRows[n]
  <2>1. [key |-> key, value |-> data] \in ColumnRow
    BY DEF ColumnTypes, ColumnRow
  <2> QED BY <1>2, <2>1 DEF Gathered
<1>4. ASSUME NEW c \in Cells(columnRows)
      PROVE  /\ c \in Cells(Gathered) /\ c[1] \in 1..Len(columnRows)
             /\ Gathered[c[1]] = columnRows[c[1]]
  <2>1. PICK n \in 1..Len(columnRows), j \in Nat :
               j \in 1..Len(columnRows[n].value) /\ c = <<n, j>>
    BY <1>2, CellFacts
  <2>2. n \in 1..Len(Gathered) /\ Gathered[n] = columnRows[n]
    BY <1>2, <1>3
  <2>3. c \in Cells(Gathered)
    BY <1>2, <2>1, <2>2, CellFacts
  <2> QED BY <2>1, <2>2, <2>3
<1>5. ASSUME NEW c \in Cells(Gathered), c \notin Cells(columnRows),
             NEW d \in Cells(columnRows)
      PROVE  Earlier(d, c)
  <2>1. PICK n \in 1..Len(Gathered), j \in Nat :
               j \in 1..Len(Gathered[n].value) /\ c = <<n, j>>
    BY <1>2, CellFacts
  <2>2. n \notin 1..Len(columnRows)
    <3>1. ASSUME n \in 1..Len(columnRows) PROVE FALSE
      BY <1>2, <1>3, <1>5, <2>1, <3>1, CellFacts
    <3> QED BY <3>1
  <2>3. d[1] \in 1..Len(columnRows)
    BY <1>4
  <2> QED BY <1>2, <1>3, <2>1, <2>2, <2>3 DEF Earlier
<1> DEFINE from == [c \in Cells(columnRows) |-> all[c]]
<1>6. from \in [Cells(columnRows) -> Valued]
  BY <1>4
<1>7. ComeFrom(columnRows, from)
  <2>1. \A c, d \in Cells(columnRows) : Earlier(c, d) => Earlier(from[c], from[d])
    BY <1>1, <1>4 DEF ComeFrom
  <2>2. ASSUME NEW c \in Cells(columnRows)
        PROVE  /\ LineAt(from[c]).key = columnRows[c[1]].key
               /\ ValueOf(LineAt(from[c])) = columnRows[c[1]].value[c[2]]
    <3>1. /\ LineAt(all[c]).key = Gathered[c[1]].key
          /\ ValueOf(LineAt(all[c])) = Gathered[c[1]].value[c[2]]
      BY <1>1, <1>4 DEF ComeFrom
    <3> QED BY <1>4, <3>1
  <2> HIDE DEF from
  <2> QED BY <2>1, <2>2 DEF ComeFrom
<1>8. ASSUME NEW p \in Origins(columnRows, from), NEW q \in Valued, Earlier(q, p)
      PROVE  q \in Origins(columnRows, from)
  <2>1. PICK d \in Cells(columnRows) : p = all[d]
    BY DEF Origins
  <2>2. p \in Passed
    BY <1>1, <1>4, <2>1 DEF Origins
  <2>3. /\ p \in Places(inputs) /\ q \in Places(inputs)
    BY <2>2 DEF Passed, Valued
  <2>4. p[1] \in Nat /\ p[2] \in Nat /\ q[1] \in Nat /\ q[2] \in Nat
    BY <1>2, <2>3, PlaceFacts
  <2>5. Read(q)
    BY <1>8, <2>2, <2>4 DEF Passed, Read, Earlier, PositionInv
  <2>6. PICK c \in Cells(Gathered) : q = all[c]
    BY <1>1, <2>5 DEF Passed, Origins
  <2>7. c \in Cells(columnRows)
    <3>1. ASSUME c \notin Cells(columnRows) PROVE FALSE
      <4>1. Earlier(d, c)
        BY <1>5, <3>1
      <4>2. Earlier(p, q)
        BY <1>1, <1>4, <2>1, <2>6, <4>1 DEF ComeFrom
      <4> QED BY <1>8, <2>4, <4>2 DEF Earlier
    <3> QED BY <3>1
  <2> QED BY <2>6, <2>7 DEF Origins
<1>9. data = <<>> => Origins(columnRows, from) = Passed
  BY <1>1, <1>4 DEF Origins, Gathered
<1> HIDE DEF from
<1> QED BY <1>6, <1>7, <1>8, <1>9

(* The invariant is enough.                                                *)
LEMMA ColumnsLoadedFrom ==
  ASSUME ColumnInv
  PROVE  ColumnsLoaded
<1> SUFFICES ASSUME columnOpt.type # "summaries" PROVE ColumnValuesOwn /\ ColumnKeysOnce
  BY DEF ColumnsLoaded
<1>1. PositionInv /\ ColumnTypes
  BY DEF ColumnInv
<1>2. ColumnKeysOnce
  BY DEF ColumnInv, OrderInv, ColumnKeysOnce
<1>3. ASSUME columnPhase # "failed"
      PROVE  \E from \in [Cells(columnRows) -> Valued] :
               /\ ComeFrom(columnRows, from)
               /\ \A p \in Origins(columnRows, from), q \in Valued :
                    Earlier(q, p) => q \in Origins(columnRows, from)
               /\ columnPhase = "synced" => Origins(columnRows, from) = Valued
  <2>1. PICK from \in [Cells(columnRows) -> Valued] :
               /\ ComeFrom(columnRows, from)
               /\ \A p \in Origins(columnRows, from), q \in Valued :
                    Earlier(q, p) => q \in Origins(columnRows, from)
               /\ data = <<>> => Origins(columnRows, from) = Passed
    BY <1>1, <1>3, RowsHold DEF ColumnInv
  <2>2. ASSUME columnPhase = "synced" PROVE data = <<>> /\ Passed = Valued
    BY <1>1, <2>2, AllPassed DEF PositionInv
  <2> QED BY <2>1, <2>2
<1> QED BY <1>2, <1>3 DEF ColumnValuesOwn

(* It holds at the start.                                                  *)
LEMMA ColumnsStart ==
  ASSUME ColumnInit
  PROVE  ColumnInv
<1>1. PositionInv
  BY ColumnAssumption DEF ColumnInit, PositionInv
<1>2. ColumnTypes
  BY DEF ColumnInit, ColumnTypes
<1>3. Holds(Gathered, Passed)
  <2>1. Gathered = <<>> /\ Cells(<<>>) = {}
    BY DEF ColumnInit, Gathered, Cells
  <2>2. Passed = {}
    <3>1. ASSUME NEW p \in Valued, Read(p) PROVE FALSE
      <4>1. p[1] \in 1..Len(inputs) /\ p[2] \in 1..Len(inputs[p[1]])
        BY <1>1, PlaceFacts DEF Valued, PositionInv
      <4> QED BY <3>1, <4>1 DEF Read, ColumnInit
    <3> QED BY <3>1 DEF Passed
  <2> DEFINE none == [c \in {} |-> c]
  <2>3. none \in [Cells(Gathered) -> Valued] /\ ComeFrom(Gathered, none) /\ Origins(Gathered, none) = {}
    BY <2>1 DEF ComeFrom, Origins
  <2> HIDE DEF none
  <2> QED BY <2>2, <2>3 DEF Holds
<1>4. OrderInv
  BY DEF ColumnInit, OrderInv
<1> QED BY <1>1, <1>2, <1>3, <1>4 DEF ColumnInv

(* Every step that does not fail carries on what the rows hold.            *)
LEMMA HoldsOn ==
  ASSUME PositionInv, ColumnTypes, columnOpt.type # "summaries", columnPhase' # "failed",
         columnPhase # "failed" => Holds(Gathered, Passed), ColumnNext
  PROVE  Holds(Gathered, Passed)'
<1>1. CASE ScoreRow
  <2>1. columnPhase # "failed" /\ ReadingColumns
    BY <1>1 DEF ScoreRow, ReadingColumns
  <2>2. CASE Line.key # key
    <3>1. columnRows' = Gathered
      BY <1>1, <2>2, WritesGathered DEF ScoreRow
    <3> QED BY <1>1, <2>1, <2>2, <3>1, OtherKey DEF ScoreRow
  <2>3. CASE Line.key = key
    BY <1>1, <2>1, <2>3, SameKey DEF ScoreRow
  <2> QED BY <2>2, <2>3
<1>2. CASE EndOfFile
  <2>1. /\ columnPhase # "failed" /\ WriteData /\ UNCHANGED <<columnOpt, inputs>>
        /\ inputFile' = inputFile + 1 /\ at' = 0 /\ data' = <<>>
        /\ inputFile <= Len(inputs) /\ at = Len(inputs[inputFile])
    BY <1>2 DEF EndOfFile
  <2>2. Gathered' = Gathered
    BY <2>1, WritesGathered DEF Gathered
  <2>3. ASSUME NEW p \in Valued PROVE Read(p)' <=> Read(p)
    <3>1. p[1] \in Nat /\ p[2] \in Nat /\ p[2] \in 1..Len(inputs[p[1]]) /\ inputFile \in Nat
      BY PlaceFacts DEF Valued, PositionInv
    <3>2. Len(inputs[inputFile]) \in Nat
      BY <2>1 DEF PositionInv
    <3> QED BY <2>1, <3>1, <3>2 DEF Read
  <2>4. Passed' = Passed
    BY <2>1, <2>3, ColumnsSame DEF Passed
  <2> QED BY <2>1, <2>2, <2>4, HoldsNext
<1>3. CASE SyncColumns
  <2>1. /\ columnPhase # "failed"
        /\ UNCHANGED <<columnOpt, inputs, inputFile, at, key, data, columnRows>>
    BY <1>3 DEF SyncColumns
  <2>2. Gathered' = Gathered
    BY <2>1 DEF Gathered
  <2>3. Passed' = Passed
    BY <2>1, ColumnsSame DEF Passed, Read
  <2> QED BY <2>1, <2>2, <2>3, HoldsNext
<1> QED BY <1>1, <1>2, <1>3 DEF ColumnNext, SummaryRow

(* It does not depend on anything else.                                    *)
LEMMA ColumnsStutter ==
  ASSUME ColumnInv, UNCHANGED columnVars
  PROVE  ColumnInv'
<1>1. /\ UNCHANGED <<columnOpt, inputs, inputFile, at, key, data, columnRows, columnPhase>>
  BY DEF columnVars
<1>2. PositionInv' = PositionInv
  BY <1>1 DEF PositionInv
<1>3. ColumnTypes' = ColumnTypes
  BY <1>1, ColumnsSame DEF ColumnTypes, ColumnRow
<1>4. Gathered' = Gathered /\ Passed' = Passed
  BY <1>1, ColumnsSame DEF Gathered, Passed, Read
<1>5. Holds(Gathered, Passed) => Holds(Gathered, Passed)'
  BY <1>1, <1>4, HoldsNext
<1>6. OrderInv => OrderInv'
  BY <1>1, ColumnsSame DEF OrderInv, Read, NothingToLoad
<1>7. LinesOrdered' = LinesOrdered
  BY <1>1, ColumnsSame
<1> QED BY <1>1, <1>2, <1>3, <1>5, <1>6, <1>7 DEF ColumnInv

(* The inductive invariant of the loader of column files.                  *)
THEOREM ColumnInvariant == ColumnSpec => []ColumnInv
<1>1. ColumnInit => ColumnInv
  BY ColumnsStart
<1>2. ColumnInv /\ [ColumnNext]_columnVars => ColumnInv'
  <2> SUFFICES ASSUME ColumnInv, [ColumnNext]_columnVars PROVE ColumnInv'
    OBVIOUS
  <2>1. CASE UNCHANGED columnVars
    BY <2>1, ColumnsStutter
  <2>2. CASE ColumnNext
    <3>1. PositionInv'
      BY <2>2, PositionMoves DEF ColumnInv
    <3>2. UNCHANGED <<columnOpt, inputs>>
      BY <2>2 DEF ColumnNext, SummaryRow, ScoreRow, EndOfFile, SyncColumns
    <3>3. ASSUME columnOpt.type # "summaries"
          PROVE  /\ ColumnTypes'
                 /\ columnPhase' # "failed" => Holds(Gathered, Passed)'
                 /\ LinesOrdered => OrderInv'
      <4>1. ColumnTypes'
        BY <2>2, <3>3, TypesStay DEF ColumnInv
      <4>2. columnPhase' # "failed" => Holds(Gathered, Passed)'
        BY <2>2, <3>3, HoldsOn DEF ColumnInv
      <4>3. LinesOrdered => OrderInv'
        BY <2>2, <3>3, OrderStays DEF ColumnInv
      <4> QED BY <4>1, <4>2, <4>3
    <3>4. LinesOrdered' = LinesOrdered
      BY <3>2, ColumnsSame
    <3> QED BY <3>1, <3>2, <3>3, <3>4 DEF ColumnInv
  <2> QED BY <2>1, <2>2
<1> QED BY <1>1, <1>2, PTL DEF ColumnSpec

(* Every column file, or any number of them, is loaded so that the values  *)
(* are those of the lines, in their order, each once and under its own     *)
(* key, none being left out before one that is loaded, and at the end none *)
(* at all; and if the lines come in the order of their keys, no key being  *)
(* in two files, every key is given one row, and nothing fails but Sync()  *)
(* of a write-once table for which there was not one value.                *)
THEOREM ColumnsAreLoaded == ColumnSpec => []ColumnsLoaded
<1>1. ColumnInv => ColumnsLoaded
  BY ColumnsLoadedFrom
<1> QED BY <1>1, ColumnInvariant, PTL
=============================================================================
