------------------------ MODULE TCPConnectionProofs ------------------------
(***************************************************************************)
(* Framing over a TCP connection (transport/tcp.go) keeps the messages     *)
(* apart, for every number of goroutines and messages, every limit on the  *)
(* size of a message and every window of the socket; and its goroutines do *)
(* not wait for each other in a circle.                                    *)
(***************************************************************************)
EXTENDS TCPConnection, SequenceLemmas, TLAPS

-----------------------------------------------------------------------------
(* serializeMessage and deserializeMessage.                                *)

\* The length of a name is kept modulo the values of a byte.
LEMMA ByteLength ==
    ASSUME NEW n \in Nat
    PROVE  n % ByteSize \in Nat /\ n % ByteSize <= n /\ (n < ByteSize => n % ByteSize = n)
BY SizesAssumption

\* q is p, of length k, with the cell a written after it.
CellAdded(q, p, k, a) ==
    /\ q \in Seq(Nat) /\ Len(q) = k + 1
    /\ \A i \in 1 .. k : q[i] = p[i]
    /\ q[k + 1] = a

\* q is p, of length k, with the cell a and the n cells of x written after it.
FieldAdded(q, p, k, a, x, n) ==
    /\ q \in Seq(Nat) /\ Len(q) = k + 1 + n
    /\ \A i \in 1 .. k : q[i] = p[i]
    /\ q[k + 1] = a
    /\ \A i \in 1 .. n : q[k + 1 + i] = x[i]

LEMMA CellWritten ==
    ASSUME NEW p \in Seq(Nat), NEW a \in Nat, NEW k \in Nat, k = Len(p),
           NEW q, q = p \o <<a>>
    PROVE  CellAdded(q, p, k, a)
BY DEF CellAdded

LEMMA FieldWritten ==
    ASSUME NEW p \in Seq(Nat), NEW a \in Nat, NEW x \in Seq(Nat),
           NEW k \in Nat, k = Len(p), NEW n \in Nat, n = Len(x),
           NEW q, q = p \o <<a>> \o x
    PROVE  FieldAdded(q, p, k, a, x, n)
<1>1. PICK r : r = p \o <<a>>
  BY Zenon
<1>2. /\ r \in Seq(Nat) /\ Len(r) = k + 1
      /\ \A i \in 1 .. k : r[i] = p[i]
      /\ r[k + 1] = a
  <2>1. CellAdded(r, p, k, a)
    BY <1>1, CellWritten, Zenon
  <2> QED
    BY <2>1, Zenon DEF CellAdded
<1>3. q = r \o x
  BY <1>1
<1>4. /\ r \o x \in Seq(Nat) /\ Len(r \o x) = Len(r) + Len(x)
      /\ \A i \in 1 .. Len(r) : (r \o x)[i] = r[i]
      /\ \A i \in Len(r) + 1 .. Len(r) + Len(x) : (r \o x)[i] = x[i - Len(r)]
  <2>1. r \in Seq(Nat)
    BY <1>2, Zenon
  <2> QED
    BY <2>1, JoinedAt
<1>5. /\ q \in Seq(Nat) /\ Len(q) = k + 1 + n
      /\ \A i \in 1 .. k + 1 : q[i] = r[i]
      /\ \A i \in k + 1 + 1 .. k + 1 + n : q[i] = x[i - (k + 1)]
  BY <1>2, <1>3, <1>4, SMTT(30)
<1>6. /\ 1 .. k \subseteq 1 .. k + 1 /\ k + 1 \in 1 .. k + 1
      /\ \A i \in 1 .. n : k + 1 + i \in k + 1 + 1 .. k + 1 + n /\ (k + 1 + i) - (k + 1) = i
  OBVIOUS
<1>7. \A i \in 1 .. n : q[k + 1 + i] = x[i]
  BY <1>5, <1>6
<1> QED
  BY <1>2, <1>5, <1>6, <1>7, Zenon DEF FieldAdded

\* Where serializeMessage puts each field.
LEMMA Serialized ==
    ASSUME NEW m \in Message
    PROVE  LET d == serializeMessage(m)
               F == Len(m.from)
               T == Len(m.to)
               B == Len(m.body)
               V == Len(m.vc)
           IN  /\ {F, T, B, V} \subseteq Nat
               /\ d \in Seq(Nat) /\ Len(d) = F + T + B + V + 5
               /\ d[1] = F % ByteSize
               /\ \A i \in 1 .. F : d[1 + i] = m.from[i]
               /\ d[F + 2] = T % ByteSize
               /\ \A i \in 1 .. T : d[F + 2 + i] = m.to[i]
               /\ d[F + T + 3] = m.seq
               /\ d[F + T + 4] = B
               /\ \A i \in 1 .. B : d[F + T + 4 + i] = m.body[i]
               /\ d[F + T + B + 5] = V
               /\ \A i \in 1 .. V : d[F + T + B + 5 + i] = m.vc[i]
<1> DEFINE F == Len(m.from)
           T == Len(m.to)
           B == Len(m.body)
           V == Len(m.vc)
<1>1. /\ m.from \in Seq(Nat) /\ m.to \in Seq(Nat) /\ m.body \in Seq(Nat) /\ m.vc \in Seq(Nat)
      /\ m.seq \in Nat
  BY DEF Message
<1>2. /\ F \in Nat /\ T \in Nat /\ B \in Nat /\ V \in Nat
      /\ F % ByteSize \in Nat /\ T % ByteSize \in Nat
  <2>1. F \in Nat /\ T \in Nat /\ B \in Nat /\ V \in Nat
    BY <1>1
  <2> QED
    BY <2>1, ByteLength, Zenon
<1> HIDE DEF F, T, B, V
<1>0. F = Len(m.from) /\ T = Len(m.to) /\ B = Len(m.body) /\ V = Len(m.vc)
  BY DEF F, T, B, V
<1>3. PICK p1 : p1 = <<F % ByteSize>> \o m.from
  BY Zenon
<1>4. /\ p1 \in Seq(Nat) /\ Len(p1) = F + 1 /\ p1[1] = F % ByteSize
      /\ \A i \in 1 .. F : p1[1 + i] = m.from[i]
  <2>1. <<F % ByteSize>> \in Seq(Nat) /\ Len(<<F % ByteSize>>) = 1
        /\ <<F % ByteSize>>[1] = F % ByteSize
    BY <1>2
  <2>2. /\ p1 \in Seq(Nat) /\ Len(p1) = 1 + F
        /\ \A i \in 1 .. 1 : p1[i] = <<F % ByteSize>>[i]
        /\ \A i \in 2 .. 1 + F : p1[i] = m.from[i - 1]
    BY <1>1, <1>2, <1>0, <1>3, <2>1, JoinedAt
  <2> QED
    BY <1>2, <2>1, <2>2
<1>5. PICK p2 : p2 = p1 \o <<T % ByteSize>> \o m.to
  BY Zenon
<1>6. /\ p2 \in Seq(Nat) /\ Len(p2) = F + T + 2
      /\ \A i \in 1 .. F + 1 : p2[i] = p1[i]
      /\ p2[F + 2] = T % ByteSize
      /\ \A i \in 1 .. T : p2[F + 2 + i] = m.to[i]
  <2>1. F + 1 \in Nat
    BY <1>2
  <2>2. FieldAdded(p2, p1, F + 1, T % ByteSize, m.to, T)
    BY <1>1, <1>2, <1>0, <1>4, <1>5, <2>1, FieldWritten, Zenon
  <2> QED
    BY <1>2, <2>2 DEF FieldAdded
<1>7. PICK p3 : p3 = p2 \o <<m.seq>>
  BY Zenon
<1>8. /\ p3 \in Seq(Nat) /\ Len(p3) = F + T + 3
      /\ \A i \in 1 .. F + T + 2 : p3[i] = p2[i]
      /\ p3[F + T + 3] = m.seq
  <2>1. F + T + 2 \in Nat
    BY <1>2
  <2>2. CellAdded(p3, p2, F + T + 2, m.seq)
    BY <1>1, <1>6, <1>7, <2>1, CellWritten, Zenon
  <2> QED
    BY <1>2, <2>2, SMTT(30) DEF CellAdded
<1>9. PICK p4 : p4 = p3 \o <<B>> \o m.body
  BY Zenon
<1>10. /\ p4 \in Seq(Nat) /\ Len(p4) = F + T + B + 4
       /\ \A i \in 1 .. F + T + 3 : p4[i] = p3[i]
       /\ p4[F + T + 4] = B
       /\ \A i \in 1 .. B : p4[F + T + 4 + i] = m.body[i]
  <2>1. F + T + 3 \in Nat
    BY <1>2
  <2>2. FieldAdded(p4, p3, F + T + 3, B, m.body, B)
    BY <1>1, <1>2, <1>0, <1>8, <1>9, <2>1, FieldWritten, Zenon
  <2> QED
    BY <1>2, <2>2 DEF FieldAdded
<1>11. PICK p5 : p5 = p4 \o <<V>> \o m.vc
  BY Zenon
<1>12. /\ p5 \in Seq(Nat) /\ Len(p5) = F + T + B + V + 5
       /\ \A i \in 1 .. F + T + B + 4 : p5[i] = p4[i]
       /\ p5[F + T + B + 5] = V
       /\ \A i \in 1 .. V : p5[F + T + B + 5 + i] = m.vc[i]
  <2>1. F + T + B + 4 \in Nat
    BY <1>2
  <2>2. FieldAdded(p5, p4, F + T + B + 4, V, m.vc, V)
    BY <1>1, <1>2, <1>0, <1>10, <1>11, <2>1, FieldWritten, Zenon
  <2> QED
    BY <1>2, <2>2 DEF FieldAdded
<1>13. serializeMessage(m) = p5
  BY <1>0, <1>3, <1>5, <1>7, <1>9, <1>11, Zenon DEF serializeMessage
<1>14. /\ \A i \in 1 .. F + T + 3 : p5[i] = p3[i]
       /\ \A i \in 1 .. F + T + 2 : p5[i] = p2[i]
       /\ \A i \in 1 .. F + 1 : p5[i] = p1[i]
  <2>1. /\ 1 .. F + T + 3 \subseteq 1 .. F + T + B + 4
        /\ 1 .. F + T + 2 \subseteq 1 .. F + T + 3
        /\ 1 .. F + 1 \subseteq 1 .. F + T + 2
    BY <1>2
  <2>2. \A i \in 1 .. F + T + 3 : p5[i] = p3[i]
    BY <1>10, <1>12, <2>1, Zenon
  <2>3. \A i \in 1 .. F + T + 2 : p5[i] = p2[i]
    BY <1>8, <2>1, <2>2, Zenon
  <2>4. \A i \in 1 .. F + 1 : p5[i] = p1[i]
    BY <1>6, <2>1, <2>3, Zenon
  <2> QED
    BY <2>2, <2>3, <2>4, Zenon
<1>15. /\ p5[1] = F % ByteSize
       /\ \A i \in 1 .. F : p5[1 + i] = m.from[i]
  <2>1. 1 \in 1 .. F + 1 /\ \A i \in 1 .. F : 1 + i \in 1 .. F + 1
    BY <1>2
  <2> QED
    BY <1>4, <1>14, <2>1, Zenon
<1>16. /\ p5[F + 2] = T % ByteSize
       /\ \A i \in 1 .. T : p5[F + 2 + i] = m.to[i]
  <2>1. F + 2 \in 1 .. F + T + 2 /\ \A i \in 1 .. T : F + 2 + i \in 1 .. F + T + 2
    BY <1>2
  <2> QED
    BY <1>6, <1>14, <2>1, Zenon
<1>17. /\ p5[F + T + 3] = m.seq
       /\ p5[F + T + 4] = B
       /\ \A i \in 1 .. B : p5[F + T + 4 + i] = m.body[i]
  <2>1. /\ F + T + 3 \in 1 .. F + T + 3 /\ F + T + 4 \in 1 .. F + T + B + 4
        /\ \A i \in 1 .. B : F + T + 4 + i \in 1 .. F + T + B + 4
    BY <1>2
  <2> QED
    BY <1>8, <1>10, <1>12, <1>14, <2>1, ZenonT(30)
<1> QED
  BY <1>2, <1>12, <1>13, <1>15, <1>16, <1>17, Zenon DEF F, T, B, V

\* The data is longer than the first name.
LEMMA SerializedLen ==
    ASSUME NEW m \in Message
    PROVE  LET d == serializeMessage(m)
           IN  /\ d \in Seq(Nat) /\ Len(d) \in Nat /\ Len(d) >= 5
               /\ d[1] \in Nat /\ 2 + d[1] <= Len(d)
<1>1. PICK d : d = serializeMessage(m)
  BY Zenon
<1>2. PICK F \in Nat, T \in Nat, B \in Nat, V \in Nat :
          d \in Seq(Nat) /\ Len(d) = F + T + B + V + 5 /\ d[1] = F % ByteSize
  <2>1. /\ {Len(m.from), Len(m.to), Len(m.body), Len(m.vc)} \subseteq Nat
        /\ d \in Seq(Nat)
        /\ Len(d) = Len(m.from) + Len(m.to) + Len(m.body) + Len(m.vc) + 5
        /\ d[1] = Len(m.from) % ByteSize
    BY <1>1, Serialized, Zenon
  <2> QED
    BY <2>1, Zenon
<1>3. F % ByteSize \in Nat /\ F % ByteSize <= F
  BY ByteLength, Zenon
<1>4. Len(d) \in Nat /\ Len(d) >= 5 /\ d[1] \in Nat /\ 2 + d[1] <= Len(d)
  BY <1>2, <1>3
<1> QED
  BY <1>1, <1>2, <1>4, Zenon

\* The data d holds x after its first a cells.
HoldsAt(d, a, x, n) ==
    n = Len(x) /\ a + n <= Len(d) /\ \A i \in 1 .. n : d[a + i] = x[i]

\* The part of the data that holds x is x.
LEMMA Slice ==
    ASSUME NEW d \in Seq(Nat), NEW x \in Seq(Nat), NEW a \in Nat, NEW n,
           HoldsAt(d, a, x, n)
    PROVE  SubSeq(d, a + 1, a + n) = x
<1> DEFINE y == SubSeq(d, a + 1, a + Len(x))
<1>0. n = Len(x) /\ a + Len(x) <= Len(d) /\ \A i \in 1 .. Len(x) : d[a + i] = x[i]
  BY Zenon DEF HoldsAt
<1>1. Len(x) \in Nat /\ Len(d) \in Nat
  OBVIOUS
<1>2. /\ y \in Seq(Nat) /\ Len(y) = Len(x)
      /\ \A i \in 1 .. Len(x) : y[i] = d[a + i]
  <2>1. a + 1 \in 1 .. Len(d) + 1 /\ a + Len(x) \in (a + 1) - 1 .. Len(d)
    BY <1>0, <1>1
  <2>2. /\ y \in Seq(Nat)
        /\ Len(y) = ((a + Len(x)) - (a + 1)) + 1
        /\ \A i \in 1 .. ((a + Len(x)) - (a + 1)) + 1 : y[i] = d[((a + 1) + i) - 1]
    BY <2>1, SubSeqElements, Zenon
  <2>3. /\ ((a + Len(x)) - (a + 1)) + 1 = Len(x)
        /\ \A i \in 1 .. Len(x) : ((a + 1) + i) - 1 = a + i
    BY <1>1
  <2> QED
    BY <2>2, <2>3, Zenon
<1>3. \A i \in 1 .. Len(y) : y[i] = x[i]
  BY <1>0, <1>2
<1> HIDE DEF y
<1>4. y = x
  BY <1>2, <1>3, SameElements
<1> QED
  BY <1>0, <1>4, Zenon DEF y

\* A frame is the length of the data and the data.
LEMMA FrameParts ==
    ASSUME NEW m \in Message
    PROVE  LET d == serializeMessage(m)
           IN  /\ d \in Seq(Nat) /\ Len(d) \in Nat /\ Len(d) >= 5
               /\ Frame(m) \in Seq(Nat) /\ Len(Frame(m)) = Len(d) + 1
               /\ Frame(m)[1] = Len(d)
               /\ \A j \in 1 .. Len(d) : Frame(m)[j + 1] = d[j]
<1> DEFINE d == serializeMessage(m)
<1>1. d \in Seq(Nat) /\ Len(d) \in Nat /\ Len(d) >= 5
  BY SerializedLen, Zenon
<1> HIDE DEF d
<1>2. <<Len(d)>> \in Seq(Nat) /\ Len(<<Len(d)>>) = 1 /\ <<Len(d)>>[1] = Len(d)
  BY <1>1
<1>3. PICK f : f = <<Len(d)>> \o d
  BY Zenon
<1>4. /\ f \in Seq(Nat) /\ Len(f) = 1 + Len(d)
      /\ \A i \in 1 .. 1 : f[i] = <<Len(d)>>[i]
      /\ \A i \in 1 + 1 .. 1 + Len(d) : f[i] = d[i - 1]
  BY <1>1, <1>2, <1>3, JoinedAt
<1>5. /\ f[1] = Len(d)
      /\ \A j \in 1 .. Len(d) : f[j + 1] = d[j]
  <2>1. /\ 1 \in 1 .. 1
        /\ \A j \in 1 .. Len(d) : j + 1 \in 1 + 1 .. 1 + Len(d) /\ (j + 1) - 1 = j
    BY <1>1
  <2>2. \A j \in 1 .. Len(d) : f[j + 1] = d[(j + 1) - 1]
    BY <1>4, <2>1, Zenon
  <2> QED
    BY <1>2, <1>4, <2>1, <2>2
<1>6. Frame(m) = f
  BY <1>3, Zenon DEF Frame, d
<1>7. Len(f) = Len(d) + 1
  BY <1>1, <1>4
<1> QED
  BY <1>1, <1>4, <1>5, <1>6, <1>7, Zenon DEF d

\* The lengths in the data d do not lead beyond its end.
Lengths(d, F, T, B, V) ==
    /\ Len(d) \in Nat /\ Len(d) >= MinData
    /\ d[1] = F /\ d[F + 2] = T /\ d[F + T + 4] = B /\ d[F + T + B + 5] = V
    /\ F + T + B + V + 5 <= Len(d)

\* The fields these lengths cut out.
Fields(d, F, T, B, V) ==
    [from |-> SubSeq(d, 1 + 1, 1 + F), to |-> SubSeq(d, (F + 2) + 1, (F + 2) + T),
     seq |-> d[F + T + 3], body |-> SubSeq(d, (F + T + 4) + 1, (F + T + 4) + B),
     vc |-> SubSeq(d, (F + T + B + 5) + 1, (F + T + B + 5) + V)]

LEMMA Decoded ==
    ASSUME NEW d, NEW F \in Nat, NEW T \in Nat, NEW B \in Nat, NEW V \in Nat,
           Lengths(d, F, T, B, V)
    PROVE  deserializeMessage(d) = Fields(d, F, T, B, V)
<1>0. /\ Len(d) \in Nat /\ Len(d) >= MinData
      /\ d[1] = F /\ d[F + 2] = T /\ d[F + T + 4] = B /\ d[F + T + B + 5] = V
      /\ F + T + B + V + 5 <= Len(d)
  BY Zenon DEF Lengths
<1> DEFINE to   == 2 + d[1]
           seq  == to + 1 + d[to]
           body == seq + 1
           vc   == body + 1 + d[body]
<1>1. to = F + 2
  BY <1>0
<1> HIDE DEF to
<1>2. seq = F + T + 3
  <2>1. d[to] = T
    BY <1>0, <1>1, Zenon
  <2> HIDE DEF to
  <2> QED
    BY <1>1, <2>1
<1>3. body = F + T + 4
  BY <1>2
<1>4. vc = F + T + B + 5
  BY <1>0, <1>3
<1> HIDE DEF to, seq, body, vc
<1>5. d[vc] = V
  BY <1>0, <1>4, Zenon
<1>6. /\ ~(Len(d) < MinData \/ to > Len(d) + 1)
      /\ ~(Len(d) >= MinData /\ to = Len(d) + 1)
      /\ ~(\/ seq > Len(d) \/ body > Len(d) \/ vc > Len(d) \/ vc + d[vc] > Len(d))
  <2>1. ~(Len(d) < MinData)
    BY <1>0 DEF MinData
  <2>2. ~(to > Len(d) + 1) /\ to # Len(d) + 1
    BY <1>0, <1>1
  <2>3. ~(seq > Len(d)) /\ ~(body > Len(d))
    BY <1>0, <1>2, <1>3
  <2>4. ~(vc > Len(d)) /\ ~(vc + V > Len(d))
    BY <1>0, <1>4
  <2> QED
    BY <1>5, <2>1, <2>2, <2>3, <2>4, Zenon
<1>7. deserializeMessage(d) =
          [from |-> SubSeq(d, 2, to - 1), to |-> SubSeq(d, to + 1, seq - 1),
           seq |-> d[seq], body |-> SubSeq(d, body + 1, vc - 1),
           vc |-> SubSeq(d, vc + 1, vc + d[vc])]
  BY <1>6, Zenon DEF deserializeMessage, to, seq, body, vc
<1>8. /\ 2 = 1 + 1 /\ to - 1 = 1 + F /\ seq - 1 = (F + 2) + T /\ vc - 1 = (F + T + 4) + B
  BY <1>1, <1>2, <1>3, <1>4, <1>5
<1>9. /\ d[seq] = d[F + T + 3] /\ to + 1 = (F + 2) + 1
      /\ body + 1 = (F + T + 4) + 1 /\ vc + 1 = (F + T + B + 5) + 1
      /\ vc + d[vc] = (F + T + B + 5) + V
  BY <1>1, <1>2, <1>3, <1>4, <1>5, Zenon
<1> QED
  BY <1>7, <1>8, <1>9, Zenon DEF Fields

\* A part of data is data.
LEMMA PartOfData ==
    ASSUME NEW d \in Seq(Nat), NEW a \in Nat, NEW n \in Nat, a + n <= Len(d)
    PROVE  SubSeq(d, a + 1, a + n) \in Seq(Nat)
<1>1. a + 1 \in 1 .. Len(d) + 1 /\ a + n \in (a + 1) - 1 .. Len(d)
  OBVIOUS
<1> QED
  BY <1>1, SubSeqElements, Zenon

\* Data that cannot be decoded is an error, and no panic as long as the cell
\* of the second length is there.
LEMMA NoPanic ==
    ASSUME NEW d \in Seq(Nat), d # <<>>, 2 + d[1] <= Len(d)
    PROVE  deserializeMessage(d) \in Message \cup {Invalid}
<1> DEFINE to   == 2 + d[1]
           seq  == to + 1 + d[to]
           body == seq + 1
           vc   == body + 1 + d[body]
<1>1. Len(d) \in Nat /\ 1 \in 1 .. Len(d)
  OBVIOUS
<1>2. \A i \in 1 .. Len(d) : d[i] \in Nat
  OBVIOUS
<1>3. PICK F \in Nat : d[1] = F
  BY <1>1, <1>2, Zenon
<1>4. to = F + 2 /\ F + 2 \in 1 .. Len(d)
  BY <1>1, <1>3
<1>5. PICK T \in Nat : d[F + 2] = T
  BY <1>2, <1>4, Zenon
<1> HIDE DEF to
<1>6. seq = F + T + 3
  BY <1>4, <1>5
<1> HIDE DEF seq
<1>7. body = F + T + 4
  BY <1>6
<1> HIDE DEF body, vc
<1>8. ~(to > Len(d) + 1) /\ ~(to = Len(d) + 1)
  BY <1>1, <1>4
<1>9. CASE \/ Len(d) < MinData \/ seq > Len(d) \/ body > Len(d)
           \/ vc > Len(d) \/ vc + d[vc] > Len(d)
  <2>1. deserializeMessage(d) = Invalid
    BY <1>8, <1>9, Zenon DEF deserializeMessage, to, seq, body, vc
  <2> QED
    BY <2>1, Zenon
<1>10. CASE ~(\/ Len(d) < MinData \/ seq > Len(d) \/ body > Len(d)
              \/ vc > Len(d) \/ vc + d[vc] > Len(d))
  <2>1. Len(d) >= MinData
    BY <1>1, <1>10 DEF MinData
  <2>2. F + T + 4 \in 1 .. Len(d) /\ F + T + 3 \in 1 .. Len(d)
    BY <1>1, <1>7, <1>10
  <2>3. PICK B \in Nat : d[F + T + 4] = B
    BY <1>2, <2>2, Zenon
  <2>4. vc = F + T + B + 5
    BY <1>7, <2>3 DEF vc
  <2>5. F + T + B + 5 \in 1 .. Len(d)
    BY <1>1, <1>10, <2>4
  <2>6. PICK V \in Nat : d[F + T + B + 5] = V
    BY <1>2, <2>5, Zenon
  <2>7. d[vc] = V
    BY <2>4, <2>6, Zenon
  <2>8. F + T + B + V + 5 <= Len(d)
    BY <1>1, <1>10, <2>4, <2>7
  <2>9. deserializeMessage(d) = Fields(d, F, T, B, V)
    <3>1. Lengths(d, F, T, B, V)
      BY <1>1, <1>3, <1>5, <2>1, <2>3, <2>6, <2>8, Zenon DEF Lengths
    <3> QED
      BY <3>1, Decoded, Zenon
  <2>10. /\ {1, F + 2, F + T + 4, F + T + B + 5} \subseteq Nat
         /\ 1 + F <= Len(d) /\ (F + 2) + T <= Len(d) /\ (F + T + 4) + B <= Len(d)
         /\ (F + T + B + 5) + V <= Len(d)
    BY <1>1, <2>8
  <2>11. /\ SubSeq(d, 1 + 1, 1 + F) \in Seq(Nat)
         /\ SubSeq(d, (F + 2) + 1, (F + 2) + T) \in Seq(Nat)
         /\ SubSeq(d, (F + T + 4) + 1, (F + T + 4) + B) \in Seq(Nat)
         /\ SubSeq(d, (F + T + B + 5) + 1, (F + T + B + 5) + V) \in Seq(Nat)
    BY <2>10, PartOfData, Zenon
  <2>12. d[F + T + 3] \in Nat
    BY <1>2, <2>2, Zenon
  <2>13. deserializeMessage(d) \in Message
    <3>1. Fields(d, F, T, B, V) \in Message
      BY <2>11, <2>12, Zenon DEF Message, Fields
    <3> QED
      BY <2>9, <3>1, Zenon
  <2> QED
    BY <2>13, Zenon
<1> QED
  BY <1>9, <1>10, Zenon

\* No message that Send accepts makes the peer's Recv panic.
LEMMA SerializedNoPanic ==
    ASSUME NEW m \in Message
    PROVE  deserializeMessage(serializeMessage(m)) \in Message \cup {Invalid}
<1>1. PICK d : d = serializeMessage(m)
  BY Zenon
<1>2. d \in Seq(Nat) /\ Len(d) \in Nat /\ Len(d) >= 5 /\ 2 + d[1] <= Len(d)
  BY <1>1, SerializedLen, Zenon
<1>3. d # <<>>
  BY <1>2
<1> QED
  BY <1>1, <1>2, <1>3, NoPanic, Zenon

\* What fits is decoded to what was encoded.
LEMMA RoundTrip ==
    ASSUME NEW m \in Message, Fits(m)
    PROVE  deserializeMessage(serializeMessage(m)) = m
<1>1. /\ m.from \in Seq(Nat) /\ m.to \in Seq(Nat) /\ m.body \in Seq(Nat) /\ m.vc \in Seq(Nat)
      /\ m = [from |-> m.from, to |-> m.to, seq |-> m.seq, body |-> m.body, vc |-> m.vc]
  BY DEF Message
<1>2. PICK d : d = serializeMessage(m)
  BY Zenon
<1>3. PICK F \in Nat, T \in Nat, B \in Nat, V \in Nat :
          F = Len(m.from) /\ T = Len(m.to) /\ B = Len(m.body) /\ V = Len(m.vc)
  BY <1>1, SeqElements, Zenon
<1>4. F % ByteSize = F /\ T % ByteSize = T
  BY <1>3, ByteLength, Zenon DEF Fits
<1>5. d \in Seq(Nat)
  BY <1>2, Serialized, Zenon
<1>6. d[1] = F /\ d[F + 2] = T /\ d[F + T + 4] = B /\ d[F + T + B + 5] = V
  BY <1>2, <1>3, <1>4, Serialized, Zenon
<1>7. d[F + T + 3] = m.seq
  BY <1>2, <1>3, Serialized, Zenon
<1>8. /\ \A i \in 1 .. F : d[1 + i] = m.from[i]
      /\ \A i \in 1 .. T : d[F + 2 + i] = m.to[i]
      /\ \A i \in 1 .. B : d[F + T + 4 + i] = m.body[i]
      /\ \A i \in 1 .. V : d[F + T + B + 5 + i] = m.vc[i]
  BY <1>2, <1>3, Serialized, Zenon
<1>9. /\ Len(d) \in Nat /\ Len(d) >= MinData /\ F + T + B + V + 5 <= Len(d)
      /\ 1 + F <= Len(d) /\ F + 2 + T <= Len(d) /\ F + T + 4 + B <= Len(d)
      /\ F + T + B + 5 + V <= Len(d)
  <2>1. Len(d) >= MinData /\ Len(d) = F + T + B + V + 5
    BY <1>2, <1>3, Serialized, Zenon DEF Fits
  <2> QED
    BY <2>1
<1>10. deserializeMessage(d) = Fields(d, F, T, B, V)
  <2>1. Lengths(d, F, T, B, V)
    BY <1>6, <1>9, Zenon DEF Lengths
  <2> QED
    BY <2>1, Decoded, Zenon
<1>11. SubSeq(d, 1 + 1, 1 + F) = m.from
  <2>1. HoldsAt(d, 1, m.from, F)
    BY <1>3, <1>8, <1>9, Zenon DEF HoldsAt
  <2>2. 1 \in Nat
    OBVIOUS
  <2> QED
    BY <1>1, <1>5, <2>1, <2>2, Slice, Zenon
<1>12. SubSeq(d, (F + 2) + 1, (F + 2) + T) = m.to
  <2>1. HoldsAt(d, (F + 2), m.to, T)
    BY <1>3, <1>8, <1>9, Zenon DEF HoldsAt
  <2>2. (F + 2) \in Nat
    OBVIOUS
  <2> QED
    BY <1>1, <1>5, <2>1, <2>2, Slice, Zenon
<1>13. SubSeq(d, (F + T + 4) + 1, (F + T + 4) + B) = m.body
  <2>1. HoldsAt(d, (F + T + 4), m.body, B)
    BY <1>3, <1>8, <1>9, Zenon DEF HoldsAt
  <2>2. (F + T + 4) \in Nat
    OBVIOUS
  <2> QED
    BY <1>1, <1>5, <2>1, <2>2, Slice, Zenon
<1>14. SubSeq(d, (F + T + B + 5) + 1, (F + T + B + 5) + V) = m.vc
  <2>1. HoldsAt(d, (F + T + B + 5), m.vc, V)
    BY <1>3, <1>8, <1>9, Zenon DEF HoldsAt
  <2>2. (F + T + B + 5) \in Nat
    OBVIOUS
  <2> QED
    BY <1>1, <1>5, <2>1, <2>2, Slice, Zenon
<1> QED
  BY <1>1, <1>2, <1>7, <1>10, <1>11, <1>12, <1>13, <1>14, Zenon DEF Fields

-----------------------------------------------------------------------------
(* The frames of a direction on its wire.                                  *)

\* The frames of the messages ms, one after the other, with the first base
\* cells taken off, are the cells w: off[i] is where the frame of ms[i] ends.
\* If a write was cut short, a frame that is not complete follows them, and
\* its length promises more than what is there.
Layout(w, ms, off, base, cut) ==
    /\ off \in [0 .. Len(ms) -> Nat] /\ base \in Nat
    /\ \A i \in 1 .. Len(ms) : off[i] = off[i - 1] + Len(Frame(ms[i]))
    /\ \A i \in 0 .. Len(ms) : off[i] <= off[Len(ms)]
    /\ \A i \in 1 .. Len(ms) : \A j \in 1 .. Len(Frame(ms[i])) :
          off[i - 1] + j > base => w[(off[i - 1] + j) - base] = Frame(ms[i])[j]
    /\ ~cut => Len(w) + base = off[Len(ms)]
    /\ cut => /\ Len(w) + base > off[Len(ms)]
              /\ base <= off[Len(ms)] =>
                    w[(off[Len(ms)] + 1) - base] >= (Len(w) + base) - off[Len(ms)]

\* Taking n cells off the front.
LEMMA LayoutRead ==
    ASSUME NEW w \in Seq(Nat), NEW ms \in Seq(Message), NEW off, NEW base,
           NEW cut \in BOOLEAN, Layout(w, ms, off, base, cut),
           NEW n \in 0 .. Len(w)
    PROVE  Layout(SubSeq(w, n + 1, Len(w)), ms, off, base + n, cut)
<1> DEFINE k == Len(ms)
           v == SubSeq(w, n + 1, Len(w))
<1>1. k \in Nat /\ Len(w) \in Nat /\ n \in Nat
  OBVIOUS
<1>2. /\ off \in [0 .. k -> Nat] /\ base \in Nat
      /\ \A i \in 1 .. k : off[i] = off[i - 1] + Len(Frame(ms[i]))
      /\ \A i \in 0 .. k : off[i] <= off[k]
      /\ ~cut => Len(w) + base = off[k]
      /\ cut => Len(w) + base > off[k]
  BY Zenon DEF Layout
<1>3. off[k] \in Nat /\ off[k] <= Len(w) + base
  <2>1. k \in 0 .. k
    BY <1>1
  <2>2. off[k] \in Nat
    BY <1>2, <2>1, Zenon
  <2> QED
    BY <1>1, <1>2, <2>2
<1>4. /\ v \in Seq(Nat) /\ Len(v) = Len(w) - n
      /\ \A i \in 1 .. Len(w) - n : v[i] = w[n + i]
  <2>1. n + 1 \in 1 .. Len(w) + 1 /\ Len(w) \in (n + 1) - 1 .. Len(w)
    BY <1>1
  <2>2. /\ v \in Seq(Nat)
        /\ Len(v) = (Len(w) - (n + 1)) + 1
        /\ \A i \in 1 .. (Len(w) - (n + 1)) + 1 : v[i] = w[((n + 1) + i) - 1]
    BY <2>1, SubSeqElements, Zenon
  <2> QED
    BY <1>1, <2>2
<1> HIDE DEF v, k
<1>5. ASSUME NEW x \in Nat, x > base + n, x <= Len(w) + base
      PROVE  v[x - (base + n)] = w[x - base]
  <2>1. x - (base + n) \in 1 .. Len(w) - n /\ n + (x - (base + n)) = x - base
    BY <1>1, <1>2, <1>5
  <2> QED
    BY <1>4, <2>1, Zenon
<1>6. ASSUME NEW i \in 1 .. k, NEW j \in 1 .. Len(Frame(ms[i])), off[i - 1] + j > base + n
      PROVE  v[(off[i - 1] + j) - (base + n)] = Frame(ms[i])[j]
  <2>1. ms[i] \in Message
    BY DEF k
  <2>2. Len(Frame(ms[i])) \in Nat
    BY <2>1, FrameParts
  <2>3. i - 1 \in 0 .. k /\ i \in 0 .. k
    BY <1>1
  <2>4. off[i - 1] \in Nat /\ off[i] \in Nat /\ off[i] <= off[k]
        /\ off[i] = off[i - 1] + Len(Frame(ms[i]))
    BY <1>2, <2>3, Zenon
  <2>5. PICK o \in Nat, L \in Nat : o = off[i - 1] /\ L = Len(Frame(ms[i]))
    BY <2>2, <2>4, Zenon
  <2>6. j \in 1 .. L /\ o + L <= off[k] /\ o + j > base + n /\ base \in Nat
    BY <1>2, <1>6, <2>4, <2>5, Zenon
  <2>7. o + j \in Nat /\ o + j <= Len(w) + base /\ o + j > base
    BY <1>1, <1>3, <2>6, SMTT(30)
  <2>8. v[(o + j) - (base + n)] = w[(o + j) - base]
    <3>1. PICK x \in Nat : x = o + j
      BY <2>7, Zenon
    <3>2. x > base + n /\ x <= Len(w) + base
      BY <2>6, <2>7, <3>1, Zenon
    <3>3. v[x - (base + n)] = w[x - base]
      BY <1>5, <3>2, Zenon
    <3> QED
      BY <3>1, <3>3
  <2>9. off[i - 1] + j > base
    BY <2>5, <2>7, Zenon
  <2>10. w[(off[i - 1] + j) - base] = Frame(ms[i])[j]
    BY <2>9, Zenon DEF Layout, k
  <2> QED
    BY <2>5, <2>8, <2>10, Zenon
<1>7. base + n \in Nat /\ (~cut => Len(v) + (base + n) = off[k])
  BY <1>1, <1>2, <1>4
<1>8. ASSUME cut
      PROVE  /\ Len(v) + (base + n) > off[k]
             /\ base + n <= off[k] =>
                    v[(off[k] + 1) - (base + n)] >= (Len(v) + (base + n)) - off[k]
  <2>1. Len(v) + (base + n) = Len(w) + base /\ Len(w) + base > off[k]
    BY <1>1, <1>2, <1>4, <1>8
  <2>2. ASSUME base + n <= off[k]
        PROVE  v[(off[k] + 1) - (base + n)] >= (Len(v) + (base + n)) - off[k]
    <3>1. PICK o \in Nat : o = off[k]
      BY <1>3, Zenon
    <3>0. base + n <= o /\ Len(w) + base > o /\ base \in Nat
      BY <1>2, <2>1, <2>2, <3>1, Zenon
    <3>2. /\ o + 1 \in Nat /\ o + 1 > base + n /\ o + 1 <= Len(w) + base /\ base <= o
          /\ (Len(v) + (base + n)) - o = (Len(w) + base) - o
      BY <1>1, <2>1, <3>0
    <3>3. v[(o + 1) - (base + n)] = w[(o + 1) - base]
      <4>1. PICK x \in Nat : x = o + 1
        BY <3>2, Zenon
      <4>2. x > base + n /\ x <= Len(w) + base
        BY <3>2, <4>1, Zenon
      <4>3. v[x - (base + n)] = w[x - base]
        BY <1>5, <4>2, Zenon
      <4> QED
        BY <4>1, <4>3
    <3>4. base <= off[k]
      BY <3>1, <3>2, Zenon
    <3>5. w[(off[k] + 1) - base] >= (Len(w) + base) - off[k]
      BY <1>8, <3>4, Zenon DEF Layout, k
    <3>6. v[(o + 1) - (base + n)] >= (Len(v) + (base + n)) - o
      BY <3>1, <3>2, <3>3, <3>5, Zenon
    <3> QED
      BY <3>1, <3>6, Zenon
  <2> QED
    BY <2>1, <2>2, Zenon
<1> QED
  BY <1>2, <1>6, <1>7, <1>8, Zenon DEF Layout, k, v

\* Writing the cells f leaves those that are there where they are.
Extended(w, f, ms, off, base) ==
    /\ Len(ms) \in Nat /\ off[Len(ms)] \in Nat /\ base \in Nat
    /\ w \o f \in Seq(Nat)
    /\ Len(w \o f) + base = off[Len(ms)] + Len(f)
    /\ base <= off[Len(ms)]
    /\ \A j \in 1 .. Len(f) : (w \o f)[(off[Len(ms)] + j) - base] = f[j]
    /\ \A i \in 1 .. Len(ms) : \A j \in 1 .. Len(Frame(ms[i])) :
          off[i - 1] + j > base => (w \o f)[(off[i - 1] + j) - base] = Frame(ms[i])[j]

LEMMA LayoutKept ==
    ASSUME NEW w \in Seq(Nat), NEW ms \in Seq(Message), NEW off, NEW base,
           NEW f \in Seq(Nat), Layout(w, ms, off, base, FALSE)
    PROVE  Extended(w, f, ms, off, base)
<1> DEFINE k == Len(ms)
           x == w \o f
<1>1. k \in Nat /\ k \in 0 .. k
  OBVIOUS
<1>2. /\ off \in [0 .. k -> Nat] /\ base \in Nat
      /\ \A i \in 1 .. k : off[i] = off[i - 1] + Len(Frame(ms[i]))
      /\ \A i \in 0 .. k : off[i] <= off[k]
      /\ Len(w) + base = off[k]
  BY Zenon DEF Layout
<1>3. off[k] \in Nat /\ base \in Nat
  BY <1>1, <1>2, Zenon
<1>4. /\ x \in Seq(Nat) /\ Len(w) \in Nat /\ Len(f) \in Nat /\ Len(x) = Len(w) + Len(f)
      /\ \A i \in 1 .. Len(w) : x[i] = w[i]
      /\ \A i \in Len(w) + 1 .. Len(w) + Len(f) : x[i] = f[i - Len(w)]
  BY JoinedAt
<1> HIDE DEF k, x
<1>0. /\ off[k] \in Nat /\ base \in Nat /\ Len(w) \in Nat /\ Len(f) \in Nat
      /\ Len(w) + base = off[k]
  BY <1>2, <1>3, <1>4, Zenon
<1>5. Len(x) + base = off[k] + Len(f) /\ base <= off[k]
  BY <1>0, <1>4
<1>6. ASSUME NEW j \in 1 .. Len(f)
      PROVE  x[(off[k] + j) - base] = f[j]
  <2>1. /\ (off[k] + j) - base \in Len(w) + 1 .. Len(w) + Len(f)
        /\ ((off[k] + j) - base) - Len(w) = j
    <3>1. PICK o \in Nat, b \in Nat, l \in Nat, n \in Nat :
              o = off[k] /\ b = base /\ l = Len(w) /\ n = Len(f) /\ l + b = o
      BY <1>0, Zenon
    <3>2. j \in 1 .. n
      BY <3>1, Zenon
    <3>3. o = l + b
      BY <3>1, Zenon
    <3>4. (o + j) - b \in l + 1 .. l + n /\ ((o + j) - b) - l = j
      BY <3>2, <3>3
    <3> QED
      BY <3>1, <3>4, Zenon
  <2> QED
    BY <1>4, <2>1, Zenon
<1>7. ASSUME NEW i \in 1 .. k, NEW j \in 1 .. Len(Frame(ms[i])), off[i - 1] + j > base
      PROVE  x[(off[i - 1] + j) - base] = Frame(ms[i])[j]
  <2>1. ms[i] \in Message
    BY DEF k
  <2>2. Len(Frame(ms[i])) \in Nat
    BY <2>1, FrameParts
  <2>3. i - 1 \in 0 .. k /\ i \in 0 .. k
    BY <1>1
  <2>4. off[i - 1] \in Nat /\ off[i] \in Nat /\ off[i] <= off[k]
        /\ off[i] = off[i - 1] + Len(Frame(ms[i]))
    BY <1>2, <2>3, Zenon
  <2>5. PICK o \in Nat, L \in Nat : o = off[i - 1] /\ L = Len(Frame(ms[i]))
    BY <2>2, <2>4, Zenon
  <2>6. j \in 1 .. L /\ o + L <= off[k] /\ o + j > base
    BY <1>7, <2>4, <2>5, Zenon
  <2>7. (o + j) - base \in 1 .. Len(w)
    BY <1>0, <2>6
  <2>8. x[(o + j) - base] = w[(o + j) - base]
    BY <1>4, <2>7, Zenon
  <2>9. w[(off[i - 1] + j) - base] = Frame(ms[i])[j]
    BY <1>7, Zenon DEF Layout, k
  <2> QED
    BY <2>5, <2>8, <2>9, Zenon
<1> QED
  BY <1>1, <1>3, <1>4, <1>5, <1>6, <1>7, Zenon DEF k, x, Extended

\* A part of a frame that is not all of it.
LEMMA LayoutTear ==
    ASSUME NEW w \in Seq(Nat), NEW ms \in Seq(Message), NEW off, NEW base,
           Layout(w, ms, off, base, FALSE),
           NEW m \in Message, NEW n \in 1 .. Len(Frame(m)) - 1
    PROVE  Layout(w \o SubSeq(Frame(m), 1, n), ms, off, base, TRUE)
<1> DEFINE f == SubSeq(Frame(m), 1, n)
           k == Len(ms)
           x == w \o f
<1>1. /\ Frame(m) \in Seq(Nat) /\ Len(Frame(m)) \in Nat
      /\ Frame(m)[1] \in Nat /\ Frame(m)[1] >= Len(Frame(m)) - 1
  <2>1. /\ Frame(m) \in Seq(Nat) /\ Len(serializeMessage(m)) \in Nat
        /\ Len(Frame(m)) = Len(serializeMessage(m)) + 1
        /\ Frame(m)[1] = Len(serializeMessage(m))
    BY FrameParts, Zenon
  <2> QED
    BY <2>1
<1>2. f \in Seq(Nat) /\ Len(f) = n /\ n \in Nat /\ n >= 1 /\ f[1] = Frame(m)[1]
  <2>1. /\ 1 \in 1 .. Len(Frame(m)) + 1 /\ n \in 1 - 1 .. Len(Frame(m))
        /\ Frame(m) \in Seq(Nat) /\ n >= 1 /\ n \in Nat
    BY <1>1
  <2>2. /\ f \in Seq(Nat) /\ Len(f) = (n - 1) + 1
        /\ \A i \in 1 .. (n - 1) + 1 : f[i] = Frame(m)[(1 + i) - 1]
    BY <2>1, SubSeqElements, ZenonT(30)
  <2> QED
    BY <2>1, <2>2
<1> HIDE DEF f
<1>3. /\ k \in Nat /\ off[k] \in Nat /\ base \in Nat
      /\ x \in Seq(Nat) /\ Len(x) + base = off[k] + Len(f) /\ base <= off[k]
      /\ \A j \in 1 .. Len(f) : x[(off[k] + j) - base] = f[j]
      /\ \A i \in 1 .. k : \A j \in 1 .. Len(Frame(ms[i])) :
             off[i - 1] + j > base => x[(off[i - 1] + j) - base] = Frame(ms[i])[j]
  <2>1. f \in Seq(Nat)
    BY <1>2, Zenon
  <2>2. Extended(w, f, ms, off, base)
    BY <2>1, LayoutKept, Zenon
  <2> QED
    BY <2>2, Zenon DEF Extended
<1> HIDE DEF x, k
<1>4. Len(x) \in Nat /\ Len(x) + base > off[k] /\ (Len(x) + base) - off[k] = n
  <2>1. /\ x \in Seq(Nat) /\ Len(x) + base = off[k] + n /\ off[k] \in Nat /\ base \in Nat
    BY <1>2, <1>3, Zenon
  <2>2. Len(x) \in Nat
    BY <2>1
  <2> QED
    BY <1>2, <2>1, <2>2
<1>5. x[(off[k] + 1) - base] = f[1]
  <2>1. 1 \in 1 .. Len(f)
    BY <1>2
  <2> QED
    BY <1>3, <2>1, Zenon
<1>6. f[1] >= n
  BY <1>1, <1>2
<1>7. x[(off[k] + 1) - base] >= (Len(x) + base) - off[k]
  BY <1>4, <1>5, <1>6, Zenon
<1>8. /\ off \in [0 .. k -> Nat]
      /\ \A i \in 1 .. k : off[i] = off[i - 1] + Len(Frame(ms[i]))
      /\ \A i \in 0 .. k : off[i] <= off[k]
  BY Zenon DEF Layout, k
<1> QED
  BY <1>3, <1>4, <1>7, <1>8, Zenon DEF Layout, k, x, f

\* A whole frame.  The frames before it end where they did.
Prolonged(w, ms, m, off, base, off2) ==
    /\ Layout(w \o Frame(m), Append(ms, m), off2, base, FALSE)
    /\ \A i \in 0 .. Len(ms) : off2[i] = off[i]

LEMMA LayoutWrite ==
    ASSUME NEW w \in Seq(Nat), NEW ms \in Seq(Message), NEW off, NEW base,
           Layout(w, ms, off, base, FALSE), NEW m \in Message
    PROVE  \E off2 : Prolonged(w, ms, m, off, base, off2)
<1> DEFINE f == Frame(m)
           k == Len(ms)
           x == w \o f
           ns == Append(ms, m)
           off2 == [i \in 0 .. k + 1 |-> IF i = k + 1 THEN off[k] + Len(f) ELSE off[i]]
<1>1. f \in Seq(Nat) /\ Len(f) \in Nat
  BY FrameParts, SeqElements, Zenon
<1>2. /\ ns \in Seq(Message) /\ Len(ns) = k + 1 /\ k \in Nat
      /\ \A i \in 1 .. k : ns[i] = ms[i]
      /\ ns[k + 1] = m
  OBVIOUS
<1>3. Extended(w, f, ms, off, base)
  BY <1>1, LayoutKept, Zenon
<1>4. /\ off[k] \in Nat /\ base \in Nat /\ Len(x) + base = off[k] + Len(f)
      /\ \A j \in 1 .. Len(f) : x[(off[k] + j) - base] = f[j]
      /\ \A i \in 1 .. k : \A j \in 1 .. Len(Frame(ms[i])) :
             off[i - 1] + j > base => x[(off[i - 1] + j) - base] = Frame(ms[i])[j]
  BY <1>3, Zenon DEF Extended
<1>5. /\ off \in [0 .. k -> Nat]
      /\ \A i \in 1 .. k : off[i] = off[i - 1] + Len(Frame(ms[i]))
      /\ \A i \in 0 .. k : off[i] <= off[k]
  BY Zenon DEF Layout
<1> HIDE DEF f, k, x, ns
<1>6. /\ k + 1 \in 0 .. k + 1 /\ k \in 0 .. k + 1 /\ k # k + 1 /\ (k + 1) - 1 = k
      /\ \A i \in 0 .. k : i \in 0 .. k + 1 /\ i # k + 1
      /\ \A i \in 1 .. k : i - 1 \in 0 .. k /\ i \in 0 .. k
      /\ \A i \in 0 .. k + 1 : i \in 0 .. k \/ i = k + 1
      /\ \A i \in 1 .. k + 1 : i \in 1 .. k \/ i = k + 1
  BY <1>2
<1>7. off2[k + 1] = off[k] + Len(f) /\ \A i \in 0 .. k : off2[i] = off[i]
  BY <1>6, Zenon
<1>8. off[k] + Len(f) \in Nat /\ off[k] <= off[k] + Len(f)
      /\ \A a \in Nat : a <= off[k] => a <= off[k] + Len(f)
  BY <1>1, <1>4
<1>9. off2 \in [0 .. k + 1 -> Nat]
  BY <1>5, <1>6, <1>8, Zenon
<1> HIDE DEF off2
<1>10. ASSUME NEW i \in 1 .. k + 1
       PROVE  off2[i] = off2[i - 1] + Len(Frame(ns[i]))
  <2>1. CASE i \in 1 .. k
    BY <1>2, <1>5, <1>6, <1>7, <2>1, Zenon
  <2>2. CASE i = k + 1
    BY <1>2, <1>6, <1>7, <2>2 DEF f
  <2> QED
    BY <1>6, <2>1, <2>2, Zenon
<1>11. ASSUME NEW i \in 0 .. k + 1
       PROVE  off2[i] <= off2[k + 1]
  <2>1. CASE i \in 0 .. k
    <3>1. off[i] \in Nat /\ off[i] <= off[k]
      BY <1>5, <2>1, Zenon
    <3> QED
      BY <1>7, <1>8, <2>1, <3>1, Zenon
  <2>2. CASE i = k + 1
    BY <1>7, <1>8, <2>2
  <2> QED
    BY <1>6, <2>1, <2>2, Zenon
<1>12. ASSUME NEW i \in 1 .. k + 1, NEW j \in 1 .. Len(Frame(ns[i])), off2[i - 1] + j > base
       PROVE  x[(off2[i - 1] + j) - base] = Frame(ns[i])[j]
  <2>1. CASE i \in 1 .. k
    <3>1. ns[i] = ms[i] /\ off2[i - 1] = off[i - 1]
      BY <1>2, <1>6, <1>7, <2>1, Zenon
    <3> QED
      BY <1>4, <1>12, <2>1, <3>1, Zenon
  <2>2. CASE i = k + 1
    <3>1. Frame(ns[i]) = f
      BY <1>2, <2>2, Zenon DEF f
    <3>2. i - 1 \in 0 .. k /\ i - 1 = k
      BY <1>2, <2>2
    <3>3. off2[i - 1] = off[k]
      BY <1>7, <3>2, Zenon
    <3> QED
      BY <1>4, <3>1, <3>3, Zenon
  <2> QED
    BY <1>6, <2>1, <2>2, Zenon
<1>13. Len(x) + base = off2[k + 1]
  BY <1>4, <1>7, Zenon
<1>14. Layout(x, ns, off2, base, FALSE)
  BY <1>2, <1>4, <1>9, <1>10, <1>11, <1>12, <1>13, Zenon DEF Layout
<1> QED
  BY <1>7, <1>14, Zenon DEF Prolonged, x, ns, f, k

-----------------------------------------------------------------------------
(* Where the reader of a direction is in its frames.                       *)

\* Of the frames of the messages ms, g were read.  R holds the lengths read by
\* those who wait for the data of a frame: of the next frame, or of one that
\* was cut short and is longer than what is there.
Owed(w, ms, g, cut, n) ==
    IF g < Len(ms) THEN n = Len(serializeMessage(ms[g + 1])) ELSE cut /\ n > Len(w)

StreamAt(w, ms, g, cut, R, off, base) ==
    /\ Layout(w, ms, off, base, cut)
    /\ \/ R = {} /\ base = off[g]
       \/ \E n : R = {n} /\ base = off[g] + 1 /\ Owed(w, ms, g, cut, n)

Stream(w, ms, g, cut, R) == \E off, base : StreamAt(w, ms, g, cut, R, off, base)

LEMMA StreamStart == Stream(<<>>, <<>>, 0, FALSE, {})
<1> DEFINE off == [i \in 0 .. 0 |-> 0]
<1>1. /\ off \in [0 .. 0 -> Nat] /\ off[0] = 0 /\ Len(<<>>) = 0
      /\ \A i \in 0 .. 0 : i = 0
      /\ \A i \in 1 .. 0 : FALSE
  OBVIOUS
<1> HIDE DEF off
<1>2. Len(<<>>) + 0 = off[Len(<<>>)] /\ \A i \in 0 .. Len(<<>>) : off[i] <= off[Len(<<>>)]
  BY <1>1
<1>3. Layout(<<>>, <<>>, off, 0, FALSE)
  BY <1>1, <1>2, Zenon DEF Layout
<1> QED
  BY <1>1, <1>3, Zenon DEF Stream, StreamAt

\* A frame is written.
LEMMA StreamWrite ==
    ASSUME NEW w \in Seq(Nat), NEW ms \in Seq(Message), NEW g \in 0 .. Len(ms), NEW R,
           Stream(w, ms, g, FALSE, R), NEW m \in Message
    PROVE  Stream(w \o Frame(m), Append(ms, m), g, FALSE, R)
<1>1. PICK off, base : StreamAt(w, ms, g, FALSE, R, off, base)
  BY Zenon DEF Stream
<1>2. PICK off2 : Prolonged(w, ms, m, off, base, off2)
  <2>1. Layout(w, ms, off, base, FALSE)
    BY <1>1, Zenon DEF StreamAt
  <2> QED
    BY <2>1, LayoutWrite, Zenon
<1>3. off2[g] = off[g] /\ Layout(w \o Frame(m), Append(ms, m), off2, base, FALSE)
  BY <1>2, Zenon DEF Prolonged
<1>4. ASSUME NEW n, Owed(w, ms, g, FALSE, n)
      PROVE  Owed(w \o Frame(m), Append(ms, m), g, FALSE, n)
  <2>1. g < Len(ms) /\ n = Len(serializeMessage(ms[g + 1]))
    BY <1>4, Zenon DEF Owed
  <2>2. g + 1 \in 1 .. Len(ms) /\ g < Len(ms) + 1 /\ Len(Append(ms, m)) = Len(ms) + 1
    BY <2>1
  <2>3. Append(ms, m)[g + 1] = ms[g + 1]
    BY <2>2
  <2> QED
    BY <2>1, <2>2, <2>3, Zenon DEF Owed
<1>5. StreamAt(w \o Frame(m), Append(ms, m), g, FALSE, R, off2, base)
  BY <1>1, <1>3, <1>4, Zenon DEF StreamAt
<1> QED
  BY <1>5, Zenon DEF Stream

\* A write is cut short.
LEMMA StreamTear ==
    ASSUME NEW w \in Seq(Nat), NEW ms \in Seq(Message), NEW g \in 0 .. Len(ms), NEW R,
           Stream(w, ms, g, FALSE, R), NEW m \in Message, NEW n \in 1 .. Len(Frame(m)) - 1
    PROVE  Stream(w \o SubSeq(Frame(m), 1, n), ms, g, TRUE, R)
<1>1. PICK off, base : StreamAt(w, ms, g, FALSE, R, off, base)
  BY Zenon DEF Stream
<1>2. Layout(w \o SubSeq(Frame(m), 1, n), ms, off, base, TRUE)
  BY <1>1, LayoutTear, Zenon DEF StreamAt
<1>3. ASSUME NEW i, Owed(w, ms, g, FALSE, i)
      PROVE  Owed(w \o SubSeq(Frame(m), 1, n), ms, g, TRUE, i)
  BY <1>3, Zenon DEF Owed
<1>4. StreamAt(w \o SubSeq(Frame(m), 1, n), ms, g, TRUE, R, off, base)
  BY <1>1, <1>2, <1>3, Zenon DEF StreamAt
<1> QED
  BY <1>4, Zenon DEF Stream

\* The next frame begins where the last one ends.
NextFrame(w, ms, g, off, base) ==
    /\ off[g] \in Nat /\ off[g + 1] = off[g] + Len(Frame(ms[g + 1]))
    /\ ms[g + 1] \in Message
    /\ \A j \in 1 .. Len(Frame(ms[g + 1])) :
          off[g] + j > base => w[(off[g] + j) - base] = Frame(ms[g + 1])[j]

LEMMA StreamNext ==
    ASSUME NEW w, NEW ms \in Seq(Message), NEW g \in 0 .. Len(ms), NEW cut,
           NEW off, NEW base, Layout(w, ms, off, base, cut), g < Len(ms)
    PROVE  NextFrame(w, ms, g, off, base)
<1>1. g + 1 \in 1 .. Len(ms) /\ (g + 1) - 1 = g
      /\ ms[g + 1] \in Message
  OBVIOUS
<1>2. PICK i \in 1 .. Len(ms) : i = g + 1 /\ i - 1 = g
  BY <1>1, Zenon
<1>3. /\ off[i] = off[i - 1] + Len(Frame(ms[i]))
      /\ \A j \in 1 .. Len(Frame(ms[i])) :
            off[i - 1] + j > base => w[(off[i - 1] + j) - base] = Frame(ms[i])[j]
  BY Zenon DEF Layout
<1>4. off[g] \in Nat
  BY Zenon DEF Layout
<1> QED
  BY <1>1, <1>2, <1>3, <1>4, Zenon DEF NextFrame

\* The length of a frame is read: it is not zero.
LEMMA StreamLen ==
    ASSUME NEW w \in Seq(Nat), NEW ms \in Seq(Message), NEW g \in 0 .. Len(ms),
           NEW cut \in BOOLEAN, Stream(w, ms, g, cut, {}), w # <<>>
    PROVE  /\ Stream(SubSeq(w, 1 + 1, Len(w)), ms, g, cut, {w[1]})
           /\ w[1] # 0
<1>1. PICK off, base : Layout(w, ms, off, base, cut) /\ base = off[g]
  BY Zenon DEF Stream, StreamAt
<1>2. PICK k \in Nat, L \in Nat : k = Len(ms) /\ L = Len(w)
  OBVIOUS
<1>3. L >= 1 /\ 1 \in 0 .. Len(w)
  BY <1>2
<1> DEFINE v == SubSeq(w, 1 + 1, Len(w))
<1>4. Layout(v, ms, off, base + 1, cut)
  BY <1>1, <1>3, LayoutRead, Zenon
<1>5. Len(v) = L - 1 /\ w[1] \in Nat
  BY <1>2, <1>3
<1>6. base \in Nat /\ off[k] \in Nat
  <2>1. k \in 0 .. k
    OBVIOUS
  <2> QED
    BY <1>1, <1>2, <2>1, Zenon DEF Layout
<1> HIDE DEF v
<1>7. CASE g < Len(ms)
  <2>1. /\ ms[g + 1] \in Message
        /\ \A j \in 1 .. Len(Frame(ms[g + 1])) :
                 off[g] + j > base => w[(off[g] + j) - base] = Frame(ms[g + 1])[j]
    <3>1. NextFrame(w, ms, g, off, base)
      BY <1>1, <1>7, StreamNext, Zenon
    <3> QED
      BY <3>1, Zenon DEF NextFrame
  <2>2. PICK d \in Nat : d = Len(serializeMessage(ms[g + 1]))
    BY <2>1, FrameParts, Zenon
  <2>3. d >= 5 /\ Len(Frame(ms[g + 1])) = d + 1 /\ Frame(ms[g + 1])[1] = d
    BY <2>1, <2>2, FrameParts, Zenon
  <2>4. 1 \in 1 .. d + 1 /\ base + 1 > base /\ (base + 1) - base = 1 /\ d # 0
    BY <1>6, <2>3
  <2>5. w[1] = d
    <3>1. w[(base + 1) - base] = Frame(ms[g + 1])[1]
      BY <1>1, <2>1, <2>3, <2>4, Zenon
    <3> QED
      BY <2>3, <2>4, <3>1, Zenon
  <2>6. Owed(v, ms, g, cut, w[1])
    BY <1>7, <2>2, <2>5, Zenon DEF Owed
  <2> QED
    BY <1>1, <1>4, <2>4, <2>5, <2>6, Zenon DEF Stream, StreamAt, v
<1>8. CASE ~(g < Len(ms))
  <2>1. g = k
    BY <1>2, <1>8
  <2>2. base = off[k]
    BY <1>1, <2>1, Zenon
  <2>3. cut
    <3>1. ~cut => L + base = off[k]
      BY <1>1, <1>2, Zenon DEF Layout
    <3> QED
      BY <1>3, <1>6, <2>2, <3>1
  <2>4. base <= off[k] => w[(off[k] + 1) - base] >= (L + base) - off[k]
    BY <1>1, <1>2, <2>3, Zenon DEF Layout
  <2>5. (off[k] + 1) - base = 1 /\ (L + base) - off[k] = L /\ base <= off[k]
    BY <1>6, <2>2
  <2>6. w[1] >= L
    BY <2>4, <2>5, Zenon
  <2>7. w[1] > L - 1 /\ w[1] # 0
    BY <1>3, <1>5, <2>6
  <2>8. Owed(v, ms, g, cut, w[1])
    BY <1>5, <1>8, <2>3, <2>7, Zenon DEF Owed
  <2> QED
    BY <1>1, <1>4, <2>7, <2>8, Zenon DEF Stream, StreamAt, v
<1> QED
  BY <1>7, <1>8, Zenon

\* The data of a frame is read: it is that of the next message.
LEMMA StreamData ==
    ASSUME NEW w \in Seq(Nat), NEW ms \in Seq(Message), NEW g \in 0 .. Len(ms),
           NEW cut \in BOOLEAN, NEW n \in 0 .. Len(w), Stream(w, ms, g, cut, {n})
    PROVE  /\ g < Len(ms)
           /\ SubSeq(w, 1, n) = serializeMessage(ms[g + 1])
           /\ Stream(SubSeq(w, n + 1, Len(w)), ms, g + 1, cut, {})
<1>1. PICK off, base : Layout(w, ms, off, base, cut) /\ base = off[g] + 1 /\ Owed(w, ms, g, cut, n)
  BY Zenon DEF Stream, StreamAt
<1>2. g < Len(ms)
  <2>1. ~(n > Len(w))
    OBVIOUS
  <2> QED
    BY <1>1, <2>1, Zenon DEF Owed
<1>3. /\ ms[g + 1] \in Message /\ off[g] \in Nat
      /\ off[g + 1] = off[g] + Len(Frame(ms[g + 1]))
      /\ \A j \in 1 .. Len(Frame(ms[g + 1])) :
            off[g] + j > base => w[(off[g] + j) - base] = Frame(ms[g + 1])[j]
  <2>1. NextFrame(w, ms, g, off, base)
    BY <1>1, <1>2, StreamNext, Zenon
  <2> QED
    BY <2>1, Zenon DEF NextFrame
<1>4. PICK d : d = serializeMessage(ms[g + 1])
  BY Zenon
<1>5. /\ d \in Seq(Nat) /\ Len(Frame(ms[g + 1])) = Len(d) + 1 /\ Len(d) = n
      /\ \A j \in 1 .. Len(d) : Frame(ms[g + 1])[j + 1] = d[j]
  BY <1>1, <1>2, <1>3, <1>4, FrameParts, Zenon DEF Owed
<1>6. PICK o \in Nat : o = off[g]
  BY <1>3, Zenon
<1>7. ASSUME NEW j \in 1 .. n
      PROVE  w[j] = d[j]
  <2>1. j + 1 \in 1 .. n + 1 /\ o + (j + 1) > o + 1 /\ (o + (j + 1)) - (o + 1) = j
    OBVIOUS
  <2>2. w[(o + (j + 1)) - (o + 1)] = Frame(ms[g + 1])[j + 1]
    BY <1>1, <1>3, <1>5, <1>6, <2>1, Zenon
  <2> QED
    BY <1>5, <2>1, <2>2, Zenon
<1>8. SubSeq(w, 1, n) = d
  <2>1. SubSeq(w, 1, n) \in Seq(Nat) /\ Len(SubSeq(w, 1, n)) = n
        /\ \A j \in 1 .. n : SubSeq(w, 1, n)[j] = w[j]
    OBVIOUS
  <2>2. \A j \in 1 .. n : SubSeq(w, 1, n)[j] = d[j]
    BY <1>7, <2>1, Zenon
  <2> QED
    BY <1>5, <2>1, <2>2, SameElements, Zenon
<1>9. Layout(SubSeq(w, n + 1, Len(w)), ms, off, base + n, cut)
  BY <1>1, LayoutRead, Zenon
<1>10. base + n = off[g + 1]
  <2>1. (o + 1) + n = o + (n + 1)
    OBVIOUS
  <2> QED
    BY <1>1, <1>3, <1>5, <1>6, <2>1, Zenon
<1>11. StreamAt(SubSeq(w, n + 1, Len(w)), ms, g + 1, cut, {}, off, base + n)
  BY <1>9, <1>10, Zenon DEF StreamAt
<1> QED
  BY <1>2, <1>4, <1>8, <1>11, Zenon DEF Stream

\* The cells f, without the first x, are the first of w.
Ahead(w, f, x) ==
    /\ f \in Seq(Nat) /\ Len(f) \in Nat /\ Len(f) <= Len(w) + x
    /\ \A j \in 1 .. Len(f) : j > x => w[j - x] = f[j]

\* The frame of the oldest message that was not read is in the stream, from its
\* first cell on, or from the second when its length was read.
LEMMA FrameLeads ==
    ASSUME NEW w \in Seq(Nat), NEW ms \in Seq(Message), NEW g \in 0 .. Len(ms),
           NEW cut \in BOOLEAN, NEW off, NEW base, Layout(w, ms, off, base, cut), g < Len(ms),
           NEW x \in {0, 1}, base = off[g] + x, NEW f, f = Frame(ms[g + 1])
    PROVE  Ahead(w, f, x)
<1>1. PICK k \in Nat, L \in Nat : k = Len(ms) /\ L = Len(w)
  OBVIOUS
<1>2. NextFrame(w, ms, g, off, base)
  BY StreamNext, Zenon
<1>3. /\ ms[g + 1] \in Message /\ off[g] \in Nat /\ off[g + 1] = off[g] + Len(f)
      /\ \A j \in 1 .. Len(f) : off[g] + j > base => w[(off[g] + j) - base] = f[j]
  BY <1>2, Zenon DEF NextFrame
<1>4. f \in Seq(Nat) /\ Len(f) \in Nat
  <2>1. f \in Seq(Nat)
    BY <1>3, FrameParts, Zenon
  <2> QED
    BY <2>1, SeqElements, Zenon
<1>5. PICK o \in Nat : o = off[g] /\ base = o + x
  BY <1>3, Zenon
<1>6. Len(f) <= Len(w) + x
  <2>1. g + 1 \in 0 .. k /\ k \in 0 .. k
    BY <1>1
  <2>2. off[g + 1] <= off[k] /\ off[k] \in Nat
    BY <1>1, <2>1, Zenon DEF Layout
  <2>3. L + base >= off[k]
    <3>1. \/ L + base = off[k]
          \/ L + base > off[k]
      BY <1>1, Zenon DEF Layout
    <3> QED
      BY <1>5, <2>2, <3>1
  <2>4. PICK n \in Nat : n = off[k] /\ o + Len(f) <= n /\ L + (o + x) >= n
    BY <1>3, <1>5, <2>2, <2>3, Zenon
  <2> QED
    BY <1>1, <1>4, <2>4
<1>7. ASSUME NEW j \in 1 .. Len(f), j > x
      PROVE  w[j - x] = f[j]
  <2>1. o + j > o + x /\ (o + j) - (o + x) = j - x
    BY <1>4, <1>7
  <2>2. w[(o + j) - (o + x)] = f[j]
    BY <1>3, <1>5, <2>1, Zenon
  <2> QED
    BY <2>1, <2>2, Zenon
<1> QED
  BY <1>4, <1>6, <1>7, Zenon DEF Ahead

\* Cells that agree with those of w, one by one, are its first.
LEMMA Leading ==
    ASSUME NEW w \in Seq(Nat), NEW f \in Seq(Nat), Len(f) <= Len(w),
           \A j \in 1 .. Len(f) : w[j] = f[j]
    PROVE  Leads(f, w)
<1>1. /\ SubSeq(w, 1, Len(f)) \in Seq(Nat) /\ Len(SubSeq(w, 1, Len(f))) = Len(f)
      /\ \A j \in 1 .. Len(f) : SubSeq(w, 1, Len(f))[j] = w[j]
  OBVIOUS
<1>2. \A j \in 1 .. Len(f) : SubSeq(w, 1, Len(f))[j] = f[j]
  BY <1>1, Zenon
<1>3. SubSeq(w, 1, Len(f)) = f
  BY <1>1, <1>2, SameElements, Zenon
<1> QED
  BY <1>3, Zenon DEF Leads

LEMMA StreamLeads ==
    ASSUME NEW w \in Seq(Nat), NEW ms \in Seq(Message), NEW g \in 0 .. Len(ms),
           NEW cut \in BOOLEAN, g < Len(ms), NEW m, m = ms[g + 1]
    PROVE  /\ Stream(w, ms, g, cut, {}) => Leads(Frame(m), w)
           /\ \A n : Stream(w, ms, g, cut, {n}) =>
                 n = Len(serializeMessage(m)) /\ Leads(serializeMessage(m), w)
<1>1. m \in Message
  OBVIOUS
<1>2. PICK d : d = serializeMessage(m)
  BY Zenon
<1>3. /\ d \in Seq(Nat) /\ Len(d) \in Nat /\ Len(Frame(m)) = Len(d) + 1
      /\ \A j \in 1 .. Len(d) : Frame(m)[j + 1] = d[j]
  BY <1>1, <1>2, FrameParts, Zenon
<1> DEFINE f == Frame(m)
<1>6. f = Frame(ms[g + 1])
  BY Zenon
<1> HIDE DEF f
<1>4. ASSUME Stream(w, ms, g, cut, {})
      PROVE  Leads(f, w)
  <2>1. PICK off, base : Layout(w, ms, off, base, cut) /\ base = off[g]
    BY <1>4, Zenon DEF Stream, StreamAt
  <2>2. off[g] \in Nat
    BY <2>1, Zenon DEF Layout
  <2>3. PICK x \in {0, 1} : x = 0 /\ base = off[g] + x
    BY <2>1, <2>2
  <2>4. /\ f \in Seq(Nat) /\ Len(f) <= Len(w) + x
        /\ \A j \in 1 .. Len(f) : j > x => w[j - x] = f[j]
    <3>1. Ahead(w, f, x)
      BY <1>6, <2>1, <2>3, FrameLeads, Zenon
    <3> QED
      BY <3>1, Zenon DEF Ahead
  <2>5. Len(f) <= Len(w) /\ \A j \in 1 .. Len(f) : j > x /\ j - x = j
    BY <1>3, <2>3, <2>4 DEF f
  <2>6. \A j \in 1 .. Len(f) : w[j] = f[j]
    BY <2>4, <2>5, Zenon
  <2> QED
    BY <2>4, <2>5, <2>6, Leading, Zenon
<1>5. ASSUME NEW n, Stream(w, ms, g, cut, {n})
      PROVE  n = Len(d) /\ Leads(d, w)
  <2>1. PICK off, base : /\ Layout(w, ms, off, base, cut) /\ base = off[g] + 1
                         /\ Owed(w, ms, g, cut, n)
    BY <1>5, Zenon DEF Stream, StreamAt
  <2>2. n = Len(d)
    BY <1>2, <2>1, Zenon DEF Owed
  <2>3. PICK x \in {0, 1} : x = 1 /\ base = off[g] + x
    BY <2>1, Zenon
  <2>4. /\ Len(f) <= Len(w) + x
        /\ \A j \in 1 .. Len(f) : j > x => w[j - x] = f[j]
    <3>1. Ahead(w, f, x)
      BY <1>6, <2>1, <2>3, FrameLeads, Zenon
    <3> QED
      BY <3>1, Zenon DEF Ahead
  <2>5. Len(d) <= Len(w)
    BY <1>3, <2>3, <2>4 DEF f
  <2>6. \A j \in 1 .. Len(d) : j + 1 \in 1 .. Len(d) + 1 /\ j + 1 > 1 /\ (j + 1) - 1 = j
    BY <1>3
  <2>7. \A j \in 1 .. Len(d) : w[(j + 1) - 1] = d[j]
    BY <1>3, <2>3, <2>4, <2>6, Zenon DEF f
  <2>8. \A j \in 1 .. Len(d) : w[j] = d[j]
    BY <2>6, <2>7
  <2> QED
    BY <1>3, <2>2, <2>5, <2>8, Leading, Zenon
<1> QED
  BY <1>2, <1>4, <1>5, Zenon DEF f

-----------------------------------------------------------------------------
(* Types, and where each action takes its thread.                          *)

PCs == {"idle"} \cup SendPC \cup RecvPC \cup ClosePC
Calls == [pc : PCs, end : Ends, msg : Messages \cup {Invalid}, len : Nat]
LockType == [Ends -> [Locks -> Threads \cup {NoThread}]]

Typed ==
    /\ closed \in [Ends -> BOOLEAN] /\ sock \in [Ends -> BOOLEAN]
    /\ werr \in [Ends -> BOOLEAN] /\ torn \in [Ends -> BOOLEAN]
    /\ lock \in LockType
    /\ wire \in [Ends -> Seq(Nat)]
    /\ call \in [Threads -> Calls]
    /\ \A t \in Threads : /\ call[t].len <= MaxMessageSize[call[t].end]
                          /\ call[t].pc \in SendPC => call[t].msg \in Messages
    /\ sends \in 0 .. MaxSends
    /\ sent \in [Ends -> Seq(Messages)]

\* Thread t is now at l, on end e, with message m and length n; nobody else
\* moved.
Moved(t, l, e, m, n) ==
    /\ call' \in [Threads -> Calls]
    /\ call'[t].pc = l /\ call'[t].end = e /\ call'[t].msg = m /\ call'[t].len = n
    /\ \A u \in Threads : u # t => call'[u] = call[u]

\* Thread t is now at l, in the same call.
Walked(t, l) == Moved(t, l, call[t].end, call[t].msg, call[t].len)

\* Thread t has released what it held.
Freed(t) ==
    /\ lock' \in LockType
    /\ \A e \in Ends, k \in Locks :
          lock'[e][k] = IF lock[e][k] = t THEN NoThread ELSE lock[e][k]

\* Thread t has left its call.
Left(t) == Moved(t, "idle", "dialer", Invalid, 0) /\ Freed(t)

\* Thread t has taken lock k of its end.
Seized(t, k) ==
    /\ lock' \in LockType
    /\ lock[call[t].end][k] = NoThread
    /\ lock'[call[t].end][k] = t
    /\ \A e \in Ends, j \in Locks :
          e # call[t].end \/ j # k => lock'[e][j] = lock[e][j]

\* How the ways of moving a thread change its call and the locks.
LEMMA Moves ==
    ASSUME Typed, NEW t \in Threads
    PROVE  /\ Return(t) => Left(t)
           /\ \A l \in PCs : Goto(t, l) => Walked(t, l)
           /\ \A l \in PCs, e \in Ends, m \in Messages \cup {Invalid} :
                 Enter(t, l, e, m) => At(t, "idle") /\ Moved(t, l, e, m, 0)
           /\ \A k \in Locks : Acquire(t, k) => Seized(t, k)
<1>1. call \in [Threads -> Calls] /\ lock \in LockType /\ call[t].end \in Ends
  BY Zenon DEF Typed, Calls
<1>2. /\ NoCall \in Calls /\ NoCall.pc = "idle" /\ NoCall.end = "dialer"
      /\ NoCall.msg = Invalid /\ NoCall.len = 0
  BY Zenon DEF NoCall, Calls, PCs, Ends
<1>3. ASSUME Return(t)
      PROVE  Left(t)
  <2>1. Moved(t, "idle", "dialer", Invalid, 0)
    BY <1>1, <1>2, <1>3, Zenon DEF Return, Moved
  <2>2. Freed(t)
    BY <1>1, <1>3, Zenon DEF Return, Freed, LockType
  <2> QED
    BY <2>1, <2>2, Zenon DEF Left
<1>4. ASSUME NEW l \in PCs, Goto(t, l)
      PROVE  Walked(t, l)
  BY <1>1, <1>4, Zenon DEF Goto, Walked, Moved, Calls
<1>5. ASSUME NEW l \in PCs, NEW e \in Ends, NEW m \in Messages \cup {Invalid}, Enter(t, l, e, m)
      PROVE  At(t, "idle") /\ Moved(t, l, e, m, 0)
  <2>1. PICK c : c = [NoCall EXCEPT !.pc = l, !.end = e, !.msg = m]
    BY Zenon
  <2>2. c \in Calls /\ c.pc = l /\ c.end = e /\ c.msg = m /\ c.len = 0
    BY <2>1, Zenon DEF NoCall, Calls
  <2>3. call' = [call EXCEPT ![t] = c] /\ At(t, "idle")
    BY <1>5, <2>1, Zenon DEF Enter
  <2> QED
    BY <1>1, <2>2, <2>3, Zenon DEF Moved
<1>6. ASSUME NEW k \in Locks, Acquire(t, k)
      PROVE  Seized(t, k)
  BY <1>1, <1>6, Zenon DEF Acquire, Seized, LockType
<1> QED
  BY <1>3, <1>4, <1>5, <1>6, Zenon

\* Labels are members of the sets they are listed in.
LEMMA Labels ==
    /\ {"idle", "send_check", "send_lock", "send_write",
        "recv_check", "recv_lock", "recv_len", "recv_data",
        "close_lock", "close_check", "close_set", "close_sock"} \subseteq PCs
    /\ SendPC = {"send_check", "send_lock", "send_write"}
    /\ RecvPC = {"recv_check", "recv_lock", "recv_len", "recv_data"}
    /\ {"mu", "send", "recv"} \subseteq Locks
BY Zenon DEF PCs, SendPC, RecvPC, ClosePC, Locks

\* The other end is an end, and its other end is this one.
LEMMA Peers ==
    \A e \in Ends : /\ Peer(e) \in Ends /\ Peer(e) # e /\ Peer(Peer(e)) = e
                    /\ \A d \in Ends : d = e \/ d = Peer(e)
BY Zenon DEF Peer, Ends

LEMMA Moving ==
    ASSUME Typed, NEW t \in Threads
    PROVE  /\ \A e \in Ends, m \in Messages : CallSend(t, e, m) =>
                 At(t, "idle") /\ Moved(t, "send_check", e, m, 0) /\ UNCHANGED lock
           /\ SendCheck(t) => At(t, "send_check") /\
                 (Left(t) \/ (Walked(t, "send_lock") /\ UNCHANGED lock))
           /\ SendLock(t) => At(t, "send_lock") /\
                 (Left(t) \/ (Walked(t, "send_write") /\ Seized(t, "send")))
           /\ SendWrite(t) => At(t, "send_write") /\ Left(t)
           /\ SendFails(t) => At(t, "send_write") /\ Walked(t, "close_check") /\ UNCHANGED lock
           /\ \A e \in Ends : CallRecv(t, e) =>
                 At(t, "idle") /\ Moved(t, "recv_check", e, Invalid, 0) /\ UNCHANGED lock
           /\ RecvCheck(t) => At(t, "recv_check") /\
                 (Left(t) \/ (~closed[call[t].end] /\ Walked(t, "recv_lock") /\ UNCHANGED lock))
           /\ RecvLock(t) => At(t, "recv_lock") /\ Walked(t, "recv_len") /\ Seized(t, "recv")
           /\ RecvLen(t) => /\ At(t, "recv_len") /\ UNCHANGED lock
                            /\ \/ Walked(t, "close_check")
                               \/ Moved(t, "recv_data", call[t].end, call[t].msg,
                                        Head(wire[Peer(call[t].end)]))
           /\ RecvData(t) => At(t, "recv_data") /\ Left(t)
           /\ RecvFails(t) => /\ call[t].pc \in {"recv_len", "recv_data"}
                              /\ Walked(t, "close_check") /\ UNCHANGED lock
           /\ \A e \in Ends : CallClose(t, e) =>
                 At(t, "idle") /\ Moved(t, "close_lock", e, Invalid, 0) /\ UNCHANGED lock
           /\ CloseLock(t) => At(t, "close_lock") /\
                 (Left(t) \/ (Walked(t, "close_set") /\ Seized(t, "mu")))
           /\ CloseCheck(t) => At(t, "close_check") /\
                 ((closed[call[t].end] /\ Left(t)) \/ (Walked(t, "close_set") /\ UNCHANGED lock))
           /\ CloseSet(t) => /\ At(t, "close_set") /\ Walked(t, "close_sock") /\ UNCHANGED lock
                             /\ closed' = [closed EXCEPT ![call[t].end] = TRUE]
           /\ CloseSock(t) => At(t, "close_sock") /\ Left(t)
<1>1. \A e \in Ends, m \in Messages : CallSend(t, e, m) =>
          At(t, "idle") /\ Moved(t, "send_check", e, m, 0) /\ UNCHANGED lock
  BY Moves, Labels, Zenon DEF CallSend
<1>2. /\ SendCheck(t) => At(t, "send_check") /\
             (Left(t) \/ (Walked(t, "send_lock") /\ UNCHANGED lock))
      /\ RecvCheck(t) => At(t, "recv_check") /\
             (Left(t) \/ (~closed[call[t].end] /\ Walked(t, "recv_lock") /\ UNCHANGED lock))
  BY Moves, Labels, Zenon DEF SendCheck, RecvCheck, Check
<1>3. SendLock(t) => At(t, "send_lock") /\
          (Left(t) \/ (Walked(t, "send_write") /\ Seized(t, "send")))
  BY Moves, Labels, Zenon DEF SendLock
<1>4. /\ SendWrite(t) => At(t, "send_write") /\ Left(t)
      /\ RecvData(t) => At(t, "recv_data") /\ Left(t)
      /\ CloseSock(t) => At(t, "close_sock") /\ Left(t)
  BY Moves, Zenon DEF SendWrite, RecvData, CloseSock
<1>5. /\ SendFails(t) => At(t, "send_write") /\ Walked(t, "close_check") /\ UNCHANGED lock
      /\ RecvFails(t) => /\ call[t].pc \in {"recv_len", "recv_data"}
                         /\ Walked(t, "close_check") /\ UNCHANGED lock
  BY Moves, Labels, Zenon DEF SendFails, RecvFails
<1>6. \A e \in Ends :
          /\ CallRecv(t, e) =>
                At(t, "idle") /\ Moved(t, "recv_check", e, Invalid, 0) /\ UNCHANGED lock
          /\ CallClose(t, e) =>
                At(t, "idle") /\ Moved(t, "close_lock", e, Invalid, 0) /\ UNCHANGED lock
  BY Moves, Labels, Zenon DEF CallRecv, CallClose
<1>7. RecvLock(t) => At(t, "recv_lock") /\ Walked(t, "recv_len") /\ Seized(t, "recv")
  BY Moves, Labels, Zenon DEF RecvLock
<1>8. ASSUME RecvLen(t)
      PROVE  /\ At(t, "recv_len") /\ UNCHANGED lock
             /\ \/ Walked(t, "close_check")
                \/ Moved(t, "recv_data", call[t].end, call[t].msg, Head(wire[Peer(call[t].end)]))
  <2> DEFINE n == Head(wire[Peer(call[t].end)])
  <2>1. /\ call \in [Threads -> Calls] /\ call[t].end \in Ends
        /\ wire \in [Ends -> Seq(Nat)]
    BY Zenon DEF Typed, Calls
  <2>2. n \in Nat
    BY <1>8, <2>1, Peers, HeadTaken, Zenon DEF RecvLen
  <2> HIDE DEF n
  <2>3. ASSUME call' = [call EXCEPT ![t].pc = "recv_data", ![t].len = n]
        PROVE  Moved(t, "recv_data", call[t].end, call[t].msg, n)
    BY <2>1, <2>2, <2>3, Labels, Zenon DEF Moved, Calls
  <2> QED
    BY <1>8, <2>3, Moves, Labels, Zenon DEF RecvLen, n
<1>9. CloseLock(t) => At(t, "close_lock") /\
          (Left(t) \/ (Walked(t, "close_set") /\ Seized(t, "mu")))
  BY Moves, Labels, Zenon DEF CloseLock
<1>10. /\ CloseCheck(t) => At(t, "close_check") /\
              ((closed[call[t].end] /\ Left(t)) \/ (Walked(t, "close_set") /\ UNCHANGED lock))
       /\ CloseSet(t) => /\ At(t, "close_set") /\ Walked(t, "close_sock") /\ UNCHANGED lock
                         /\ closed' = [closed EXCEPT ![call[t].end] = TRUE]
  BY Moves, Labels, Zenon DEF CloseCheck, CloseSet
<1> QED
  BY <1>1, <1>2, <1>3, <1>4, <1>5, <1>6, <1>7, <1>8, <1>9, <1>10, Zenon

\* The actions that only move a thread and count a call.
Quiet(t) ==
    \/ \E e \in Ends : \/ \E m \in Messages : CallSend(t, e, m)
                       \/ CallRecv(t, e) \/ CallClose(t, e)
    \/ SendCheck(t) \/ SendLock(t) \/ RecvCheck(t) \/ RecvLock(t) \/ RecvFails(t)
    \/ CloseLock(t) \/ CloseCheck(t)

\* The others.
Loud(t) ==
    \/ SendWrite(t) \/ SendFails(t) \/ RecvLen(t) \/ RecvData(t) \/ CloseSet(t) \/ CloseSock(t)

\* Every step is a step of a thread or a reset.
LEMMA Acts ==
    Next => (\E t \in Threads : Quiet(t) \/ Loud(t)) \/ (\E e \in Ends : Reset(e))
BY Zenon DEF Next, Step, TimedOut, SendBroken, RecvBroken, Quiet, Loud

LEMMA QuietActions ==
    ASSUME NEW t, Quiet(t)
    PROVE  /\ UNCHANGED <<closed, sock, werr, wire, sent, got, torn>>
           /\ sends' = sends \/ (sends < MaxSends /\ sends' = sends + 1)
BY Zenon DEF Quiet, CallSend, CallRecv, CallClose, SendCheck, SendLock, RecvCheck, RecvLock,
   RecvFails, CloseLock, CloseCheck, Check, histVars

\* What happens to the other variables in the actions that write or read.
WireSet(e, w) == wire' \in [Ends -> Seq(Nat)] /\ wire'[e] = w /\ \A d \in Ends : d # e => wire'[d] = wire[d]

LEMMA SendWriteDeed ==
    ASSUME Typed, NEW t \in Threads, SendWrite(t)
    PROVE  LET e == call[t].end
               m == call[t].msg
           IN  /\ At(t, "send_write") /\ Left(t) /\ e \in Ends /\ m \in Messages /\ m \in Message
               /\ sock[e] /\ ~werr[e]
               /\ WireSet(e, wire[e] \o Frame(m))
               /\ sent' \in [Ends -> Seq(Messages)] /\ sent'[e] = Append(sent[e], m)
               /\ \A d \in Ends : d # e => sent'[d] = sent[d]
               /\ UNCHANGED <<closed, sock, werr, sends, got, torn>>
<1> DEFINE e == call[t].end
           m == call[t].msg
<1>1. e \in Ends /\ m \in Messages /\ At(t, "send_write")
  BY Labels, Zenon DEF SendWrite, At, Typed, Calls
<1>2. m \in Message
  BY <1>1, MessagesAssumption, Zenon
<1>3. wire[e] \in Seq(Nat) /\ sent[e] \in Seq(Messages) /\ Frame(m) \in Seq(Nat)
  BY <1>1, <1>2, FrameParts, Zenon DEF Typed
<1>4. wire[e] \o Frame(m) \in Seq(Nat) /\ Append(sent[e], m) \in Seq(Messages)
  BY <1>1, <1>3, JoinedAt, AppendRange, Zenon
<1> HIDE DEF e, m
<1>5. wire' = [wire EXCEPT ![e] = wire[e] \o Frame(m)] /\ sent' = [sent EXCEPT ![e] = Append(sent[e], m)]
  BY Zenon DEF SendWrite, e, m
<1>6. WireSet(e, wire[e] \o Frame(m))
  BY <1>1, <1>4, <1>5, Zenon DEF WireSet, Typed
<1>7. /\ sent' \in [Ends -> Seq(Messages)] /\ sent'[e] = Append(sent[e], m)
      /\ \A d \in Ends : d # e => sent'[d] = sent[d]
  BY <1>1, <1>4, <1>5, Zenon DEF Typed
<1>8. Left(t)
  BY Moving, Zenon
<1>9. sock[e] /\ ~werr[e] /\ UNCHANGED <<closed, sock, werr, sends, got, torn>>
  BY Zenon DEF SendWrite, e
<1> QED
  BY <1>1, <1>2, <1>6, <1>7, <1>8, <1>9, Zenon DEF e, m

LEMMA SendFailsDeed ==
    ASSUME Typed, NEW t \in Threads, SendFails(t)
    PROVE  LET e == call[t].end
               m == call[t].msg
           IN  /\ At(t, "send_write") /\ Walked(t, "close_check") /\ UNCHANGED lock
               /\ e \in Ends /\ m \in Message
               /\ werr' \in [Ends -> BOOLEAN] /\ werr'[e]
               /\ \A d \in Ends : d # e => werr'[d] = werr[d]
               /\ \/ UNCHANGED <<wire, torn>>
                  \/ /\ sock[e] /\ ~werr[e]
                     /\ \E n \in 1 .. Len(Frame(m)) - 1 :
                           WireSet(e, wire[e] \o SubSeq(Frame(m), 1, n))
                     /\ torn' \in [Ends -> BOOLEAN] /\ torn'[e]
                     /\ \A d \in Ends : d # e => torn'[d] = torn[d]
               /\ UNCHANGED <<closed, sock, sends, sent, got>>
<1> DEFINE e == call[t].end
           m == call[t].msg
           f == Frame(m)
<1>1. e \in Ends /\ m \in Messages /\ At(t, "send_write")
  BY Labels, Zenon DEF SendFails, At, Typed, Calls
<1>2. m \in Message
  BY <1>1, MessagesAssumption, Zenon
<1>3. f \in Seq(Nat) /\ Len(f) \in Nat /\ Len(f) >= 6
  <2>1. /\ Len(serializeMessage(m)) \in Nat /\ Len(serializeMessage(m)) >= 5
        /\ f \in Seq(Nat) /\ Len(f) = Len(serializeMessage(m)) + 1
    BY <1>2, FrameParts, Zenon
  <2> HIDE DEF m, f
  <2> QED
    BY <2>1
<1>4. wire \in [Ends -> Seq(Nat)] /\ torn \in [Ends -> BOOLEAN] /\ werr \in [Ends -> BOOLEAN]
      /\ wire[e] \in Seq(Nat)
  BY <1>1, Zenon DEF Typed
<1> HIDE DEF e, m, f
<1>5. PICK n \in IF werr[e] \/ ~sock[e] THEN {0} ELSE {0, 1, Len(f) - 1} :
          /\ wire' = [wire EXCEPT ![e] = wire[e] \o SubSeq(f, 1, n)]
          /\ torn' = [torn EXCEPT ![e] = torn[e] \/ n > 0]
  BY Zenon DEF SendFails, e, m, f
<1>6. ASSUME n = 0
      PROVE  UNCHANGED <<wire, torn>>
  <2>1. SubSeq(f, 1, n) = <<>> /\ ~(n > 0)
    BY <1>3, <1>6
  <2>2. wire[e] \o <<>> = wire[e]
    BY <1>4
  <2>3. wire' = [wire EXCEPT ![e] = wire[e]] /\ torn' = [torn EXCEPT ![e] = torn[e]]
    <3>1. (torn[e] \/ n > 0) = torn[e]
      BY <1>1, <1>4, <2>1, Zenon
    <3> QED
      BY <1>5, <2>1, <2>2, <3>1, Zenon
  <2> QED
    BY <1>4, <2>3, Zenon
<1>7. ASSUME n # 0
      PROVE  /\ sock[e] /\ ~werr[e]
             /\ \E i \in 1 .. Len(f) - 1 : WireSet(e, wire[e] \o SubSeq(f, 1, i))
             /\ torn' \in [Ends -> BOOLEAN] /\ torn'[e]
             /\ \A d \in Ends : d # e => torn'[d] = torn[d]
  <2>1. n \in {1, Len(f) - 1} /\ sock[e] /\ ~werr[e]
    BY <1>5, <1>7, Zenon
  <2>2. n \in 1 .. Len(f) - 1 /\ n > 0
    BY <1>3, <2>1
  <2>3. SubSeq(f, 1, n) \in Seq(Nat)
    <3>1. 1 \in 1 .. Len(f) + 1 /\ n \in 1 - 1 .. Len(f)
      BY <1>3, <2>2
    <3> QED
      BY <1>3, <3>1, SubSeqElements, Zenon
  <2>4. wire[e] \o SubSeq(f, 1, n) \in Seq(Nat)
    BY <1>4, <2>3, JoinedAt, Zenon
  <2>5. WireSet(e, wire[e] \o SubSeq(f, 1, n))
    BY <1>1, <1>4, <1>5, <2>4, Zenon DEF WireSet
  <2>6. torn' \in [Ends -> BOOLEAN] /\ torn'[e] /\ \A d \in Ends : d # e => torn'[d] = torn[d]
    BY <1>1, <1>4, <1>5, <2>2, Zenon
  <2> QED
    BY <2>1, <2>2, <2>5, <2>6, Zenon
<1>8. werr' \in [Ends -> BOOLEAN] /\ werr'[e] /\ \A d \in Ends : d # e => werr'[d] = werr[d]
  BY <1>1, <1>4, Zenon DEF SendFails, e
<1>9. Walked(t, "close_check") /\ UNCHANGED lock
  BY Moving, Zenon
<1>10. UNCHANGED <<closed, sock, sends, sent, got>>
  BY Zenon DEF SendFails
<1>11. \/ UNCHANGED <<wire, torn>>
       \/ /\ sock[e] /\ ~werr[e]
          /\ \E i \in 1 .. Len(f) - 1 : WireSet(e, wire[e] \o SubSeq(f, 1, i))
          /\ torn' \in [Ends -> BOOLEAN] /\ torn'[e]
          /\ \A d \in Ends : d # e => torn'[d] = torn[d]
  BY <1>6, <1>7, Zenon
<1> QED
  BY <1>1, <1>2, <1>8, <1>9, <1>10, <1>11, Zenon DEF e, m, f

LEMMA RecvLenDeed ==
    ASSUME Typed, NEW t \in Threads, RecvLen(t)
    PROVE  LET e == call[t].end
               q == Peer(e)
           IN  /\ At(t, "recv_len") /\ UNCHANGED lock
               /\ e \in Ends /\ q \in Ends /\ wire[q] # <<>> /\ Head(wire[q]) = wire[q][1]
               /\ Len(wire[q]) \in Nat \ {0} /\ Head(wire[q]) \in Nat
               /\ WireSet(q, SubSeq(wire[q], 1 + 1, Len(wire[q])))
               /\ Len(wire'[q]) = Len(wire[q]) - 1
               /\ \/ Walked(t, "close_check")
                  \/ /\ Moved(t, "recv_data", e, call[t].msg, Head(wire[q]))
                     /\ Head(wire[q]) <= MaxMessageSize[e]
               /\ UNCHANGED <<closed, sock, werr, sends, sent, got, torn>>
<1> DEFINE e == call[t].end
           q == Peer(e)
           w == wire[q]
<1>1. e \in Ends /\ q \in Ends /\ At(t, "recv_len") /\ w \in Seq(Nat)
  BY Peers, Zenon DEF RecvLen, At, Typed, Calls
<1> HIDE DEF e, q, w
<1>2. w # <<>> /\ wire' = [wire EXCEPT ![q] = Tail(w)]
  BY Zenon DEF RecvLen, w, e, q
<1>3. /\ Tail(w) \in Seq(Nat) /\ Head(w) \in Nat /\ Len(w) \in Nat \ {0} /\ Head(w) = w[1]
      /\ Tail(w) = SubSeq(w, 2, Len(w)) /\ Len(Tail(w)) = Len(w) - 1 /\ 1 + 1 = 2
  <2>1. Tail(w) \in Seq(Nat) /\ Head(w) \in Nat /\ Len(w) \in Nat \ {0} /\ Head(w) = w[1]
    BY <1>1, <1>2, HeadTaken, Zenon
  <2>2. Tail(w) = SubSeq(w, 2, Len(w))
    BY <1>1, <1>2, TailPart, Zenon
  <2>3. Len(Tail(w)) = Len(w) - 1 /\ 1 + 1 = 2
    BY <1>1, <1>2
  <2> QED
    BY <2>1, <2>2, <2>3, Zenon
<1>4. WireSet(q, Tail(w))
  BY <1>1, <1>2, <1>3, Zenon DEF WireSet, Typed
<1>5. WireSet(q, SubSeq(w, 1 + 1, Len(w)))
  BY <1>3, <1>4, Zenon
<1>6. Len(wire'[q]) = Len(w) - 1
  BY <1>3, <1>4, Zenon DEF WireSet
<1>7. \/ Walked(t, "close_check")
      \/ Moved(t, "recv_data", e, call[t].msg, Head(w)) /\ Head(w) <= MaxMessageSize[e]
  <2>1. CASE Head(w) > MaxMessageSize[e]
    <3>1. Goto(t, "close_check")
      BY <2>1, Zenon DEF RecvLen, e, q, w
    <3> QED
      BY <3>1, Moves, Labels, Zenon
  <2>2. CASE ~(Head(w) > MaxMessageSize[e])
    <3>1. Head(w) <= MaxMessageSize[e]
      BY <1>1, <1>3, <2>2, SizesAssumption
    <3>2. call' = [call EXCEPT ![t].pc = "recv_data", ![t].len = Head(w)]
      BY <2>2, Zenon DEF RecvLen, e, q, w
    <3>3. call \in [Threads -> Calls]
      BY Zenon DEF Typed
    <3>4. Moved(t, "recv_data", e, call[t].msg, Head(w))
      BY <1>3, <3>2, <3>3, Labels, Zenon DEF Moved, Calls, e
    <3> QED
      BY <3>1, <3>4, Zenon
  <2> QED
    BY <2>1, <2>2, Zenon
<1>8. UNCHANGED <<lock, closed, sock, werr, sends, sent, got, torn>>
  BY Zenon DEF RecvLen, histVars
<1> QED
  BY <1>1, <1>2, <1>3, <1>5, <1>6, <1>7, <1>8, Zenon DEF e, q, w

LEMMA RecvDataDeed ==
    ASSUME Typed, NEW t \in Threads, RecvData(t)
    PROVE  LET e == call[t].end
               q == Peer(e)
               n == call[t].len
           IN  /\ At(t, "recv_data") /\ Left(t)
               /\ e \in Ends /\ q \in Ends /\ Len(wire[q]) \in Nat /\ n \in 0 .. Len(wire[q])
               /\ WireSet(q, SubSeq(wire[q], n + 1, Len(wire[q])))
               /\ got' = [got EXCEPT ![e] = Append(@, deserializeMessage(SubSeq(wire[q], 1, n)))]
               /\ UNCHANGED <<closed, sock, werr, sends, sent, torn>>
<1> DEFINE e == call[t].end
           q == Peer(e)
           w == wire[q]
           n == call[t].len
<1>1. e \in Ends /\ q \in Ends /\ At(t, "recv_data") /\ w \in Seq(Nat) /\ n \in Nat
  BY Peers, Zenon DEF RecvData, At, Typed, Calls
<1> HIDE DEF e, q, w, n
<1>2. /\ Len(w) >= n /\ wire' = [wire EXCEPT ![q] = SubSeq(w, n + 1, Len(w))]
      /\ got' = [got EXCEPT ![e] = Append(@, deserializeMessage(SubSeq(w, 1, n)))]
      /\ UNCHANGED <<closed, sock, werr, sends, sent, torn>>
  BY Zenon DEF RecvData, w, e, q, n
<1>3. Len(w) \in Nat /\ n \in 0 .. Len(w)
  BY <1>1, <1>2
<1>4. SubSeq(w, n + 1, Len(w)) \in Seq(Nat)
  <2>1. n + 1 \in 1 .. Len(w) + 1 /\ Len(w) \in (n + 1) - 1 .. Len(w)
    BY <1>3
  <2> QED
    BY <1>1, <2>1, SubSeqElements, Zenon
<1>5. WireSet(q, SubSeq(w, n + 1, Len(w)))
  BY <1>1, <1>2, <1>4, Zenon DEF WireSet, Typed
<1>6. Left(t)
  BY Moving, Zenon
<1> QED
  BY <1>1, <1>2, <1>3, <1>5, <1>6, Zenon DEF e, q, w, n

-----------------------------------------------------------------------------
(* The types.                                                              *)

\* The calls after a step are calls, with lengths that were accepted and, in
\* a Send, with a message of the caller.
Placed ==
    /\ call' \in [Threads -> Calls]
    /\ \A u \in Threads : /\ call'[u].len <= MaxMessageSize[call'[u].end]
                          /\ call'[u].pc \in SendPC => call'[u].msg \in Messages

LEMMA Placing ==
    ASSUME Typed, NEW t \in Threads, NEW l, NEW e \in Ends, NEW m, NEW n,
           Moved(t, l, e, m, n), n <= MaxMessageSize[e], l \in SendPC => m \in Messages
    PROVE  Placed
BY Zenon DEF Placed, Moved, Typed

\* Leaving a call, and moving on in it other than into Send.
LEMMA PlacingSame ==
    ASSUME Typed, NEW t \in Threads, NEW l
    PROVE  /\ Left(t) => Placed
           /\ Walked(t, l) /\ (l \in SendPC => call[t].pc \in SendPC) => Placed
<1>1. ASSUME Left(t)
      PROVE  Placed
  <2>1. Moved(t, "idle", "dialer", Invalid, 0)
    BY <1>1, Zenon DEF Left
  <2>2. "dialer" \in Ends /\ "idle" \notin SendPC
    BY Zenon DEF Ends, SendPC
  <2>3. MaxMessageSize["dialer"] \in Nat
    BY <2>2, SizesAssumption, Zenon
  <2>4. 0 <= MaxMessageSize["dialer"]
    BY <2>3
  <2> QED
    BY <2>1, <2>2, <2>4, Placing, Zenon
<1>2. ASSUME Walked(t, l), l \in SendPC => call[t].pc \in SendPC
      PROVE  Placed
  <2>1. /\ call[t].end \in Ends /\ call[t].len <= MaxMessageSize[call[t].end]
        /\ l \in SendPC => call[t].msg \in Messages
    BY <1>2, Zenon DEF Typed, Calls
  <2>2. Moved(t, l, call[t].end, call[t].msg, call[t].len)
    BY <1>2, Zenon DEF Walked
  <2> QED
    BY <2>1, <2>2, Placing, Zenon
<1> QED
  BY <1>1, <1>2, Zenon

\* The first step of a call.
LEMMA PlacingNew ==
    ASSUME Typed, NEW t \in Threads, NEW e \in Ends, NEW l, NEW m,
           Moved(t, l, e, m, 0), l \in SendPC => m \in Messages
    PROVE  Placed
<1>1. MaxMessageSize[e] \in Nat
  BY SizesAssumption, Zenon
<1>2. 0 <= MaxMessageSize[e]
  BY <1>1
<1> QED
  BY <1>2, Placing, Zenon

LEMMA LockKind ==
    ASSUME Typed, NEW t \in Threads,
           Left(t) \/ UNCHANGED lock \/ \E k \in Locks : Seized(t, k)
    PROVE  lock' \in LockType
BY Zenon DEF Typed, Left, Freed, Seized

LEMMA QuietPlaced ==
    ASSUME Typed, NEW t \in Threads, Quiet(t)
    PROVE  Placed /\ lock' \in LockType
<1>1. /\ "send_check" \in SendPC /\ "send_lock" \in SendPC /\ "send_write" \in SendPC
      /\ "recv_check" \notin SendPC /\ "recv_lock" \notin SendPC /\ "recv_len" \notin SendPC
      /\ "close_lock" \notin SendPC /\ "close_check" \notin SendPC /\ "close_set" \notin SendPC
  BY Zenon DEF SendPC
<1>2. CASE \E e \in Ends : \E m \in Messages : CallSend(t, e, m)
  <2>1. PICK e \in Ends, m \in Messages : CallSend(t, e, m)
    BY <1>2, Zenon
  <2> QED
    BY <2>1, Moving, PlacingNew, LockKind, Zenon
<1>3. CASE \E e \in Ends : CallRecv(t, e) \/ CallClose(t, e)
  <2>1. PICK e \in Ends : CallRecv(t, e) \/ CallClose(t, e)
    BY <1>3, Zenon
  <2> QED
    BY <1>1, <2>1, Moving, PlacingNew, LockKind, Zenon
<1>4. CASE SendCheck(t)
  BY <1>1, <1>4, Moving, PlacingSame, LockKind, Zenon DEF At
<1>5. CASE SendLock(t)
  BY <1>1, <1>5, Moving, PlacingSame, LockKind, Labels, Zenon DEF At
<1>6. CASE RecvCheck(t)
  BY <1>1, <1>6, Moving, PlacingSame, LockKind, Zenon DEF At
<1>7. CASE RecvLock(t)
  BY <1>1, <1>7, Moving, PlacingSame, LockKind, Labels, Zenon DEF At
<1>8. CASE RecvFails(t)
  BY <1>1, <1>8, Moving, PlacingSame, LockKind, Zenon DEF At
<1>9. CASE CloseLock(t)
  BY <1>1, <1>9, Moving, PlacingSame, LockKind, Labels, Zenon DEF At
<1>10. CASE CloseCheck(t)
  BY <1>1, <1>10, Moving, PlacingSame, LockKind, Zenon DEF At
<1> QED
  BY <1>2, <1>3, <1>4, <1>5, <1>6, <1>7, <1>8, <1>9, <1>10, Zenon DEF Quiet

LEMMA TypedInit == Init => Typed
<1> SUFFICES ASSUME Init PROVE Typed
  OBVIOUS
<1>1. MaxMessageSize["dialer"] \in Nat /\ 0 \in 0 .. MaxSends
  BY SizesAssumption DEF Ends
<1>2. 0 <= MaxMessageSize["dialer"]
  BY <1>1
<1>3. NoCall \in Calls /\ NoCall.pc \notin SendPC /\ NoCall.len = 0 /\ NoCall.end = "dialer"
  BY Zenon DEF NoCall, Calls, PCs, SendPC, Ends
<1>4. <<>> \in Seq(Nat) /\ <<>> \in Seq(Messages)
  OBVIOUS
<1>5. lock \in LockType
  BY Zenon DEF Init, LockType
<1>6. /\ call \in [Threads -> Calls]
      /\ \A t \in Threads : /\ call[t].len <= MaxMessageSize[call[t].end]
                            /\ call[t].pc \in SendPC => call[t].msg \in Messages
  BY <1>2, <1>3, Zenon DEF Init
<1> QED
  BY <1>1, <1>4, <1>5, <1>6, Zenon DEF Init, Typed

LEMMA CloseDeeds ==
    ASSUME Typed, NEW t \in Threads
    PROVE  /\ call[t].end \in Ends
           /\ CloseSet(t) => /\ closed' \in [Ends -> BOOLEAN] /\ closed'[call[t].end]
                             /\ \A e \in Ends : closed[e] => closed'[e]
                             /\ UNCHANGED <<sock, werr, wire, sends, sent, got, torn>>
           /\ CloseSock(t) => /\ sock' \in [Ends -> BOOLEAN] /\ ~sock'[call[t].end]
                              /\ \A e \in Ends : ~sock[e] => ~sock'[e]
                              /\ sock' = [sock EXCEPT ![call[t].end] = FALSE]
                              /\ UNCHANGED <<closed, werr, wire, sends, sent, got, torn>>
<1>1. call[t].end \in Ends /\ closed \in [Ends -> BOOLEAN] /\ sock \in [Ends -> BOOLEAN]
  BY Zenon DEF Typed, Calls
<1> QED
  BY <1>1, Zenon DEF CloseSet, CloseSock, histVars

LEMMA ResetDeed ==
    ASSUME Typed, NEW e \in Ends, Reset(e)
    PROVE  /\ ~sock[e] /\ WireSet(e, <<>>)
           /\ UNCHANGED <<closed, lock, sock, werr, call, sends, sent, got, torn>>
<1>1. <<>> \in Seq(Nat)
  OBVIOUS
<1> QED
  BY <1>1, Zenon DEF Reset, WireSet, Typed, histVars

LEMMA TypedStep == Typed /\ [Next]_vars => Typed'
<1> SUFFICES ASSUME Typed, [Next]_vars PROVE Typed'
  OBVIOUS
<1>1. CASE UNCHANGED vars
  BY <1>1, Zenon DEF vars, Typed
<1>2. ASSUME NEW t \in Threads, Quiet(t)
      PROVE  Typed'
  <2>1. Placed /\ lock' \in LockType
    BY <1>2, QuietPlaced, Zenon
  <2>2. UNCHANGED <<closed, sock, werr, wire, sent, got, torn>>
    BY <1>2, QuietActions, Zenon
  <2>3. sends' \in 0 .. MaxSends
    <3>1. sends' = sends \/ (sends < MaxSends /\ sends' = sends + 1)
      BY <1>2, QuietActions, Zenon
    <3>2. sends \in 0 .. MaxSends /\ MaxSends \in Nat
      BY SizesAssumption, Zenon DEF Typed
    <3> QED
      BY <3>1, <3>2
  <2> QED
    BY <2>1, <2>2, <2>3, Zenon DEF Typed, Placed
<1>3. ASSUME NEW t \in Threads, SendWrite(t)
      PROVE  Typed'
  <2>1. Left(t) /\ wire' \in [Ends -> Seq(Nat)] /\ sent' \in [Ends -> Seq(Messages)]
        /\ UNCHANGED <<closed, sock, werr, sends, got, torn>>
    BY <1>3, SendWriteDeed, Zenon DEF WireSet
  <2>2. Placed /\ lock' \in LockType
    BY <2>1, PlacingSame, LockKind, Zenon
  <2> QED
    BY <2>1, <2>2, Zenon DEF Typed, Placed
<1>4. ASSUME NEW t \in Threads, SendFails(t)
      PROVE  Typed'
  <2>1. /\ Walked(t, "close_check") /\ UNCHANGED lock
        /\ wire' \in [Ends -> Seq(Nat)] /\ torn' \in [Ends -> BOOLEAN]
        /\ werr' \in [Ends -> BOOLEAN]
        /\ UNCHANGED <<closed, sock, sends, sent, got>>
    BY <1>4, SendFailsDeed, Zenon DEF WireSet, Typed
  <2>2. "close_check" \notin SendPC
    BY Zenon DEF SendPC
  <2>3. Placed
    BY <2>1, <2>2, PlacingSame, Zenon
  <2> QED
    BY <2>1, <2>3, Zenon DEF Typed, Placed
<1>5. ASSUME NEW t \in Threads, RecvLen(t)
      PROVE  Typed'
  <2> DEFINE e == call[t].end
             n == Head(wire[Peer(e)])
  <2>1. /\ UNCHANGED lock /\ e \in Ends /\ wire' \in [Ends -> Seq(Nat)]
        /\ \/ Walked(t, "close_check")
           \/ Moved(t, "recv_data", e, call[t].msg, n) /\ n <= MaxMessageSize[e]
        /\ UNCHANGED <<closed, sock, werr, sends, sent, got, torn>>
    BY <1>5, RecvLenDeed, Zenon DEF WireSet
  <2> HIDE DEF e, n
  <2>2. "close_check" \notin SendPC /\ "recv_data" \notin SendPC
    BY Zenon DEF SendPC
  <2>3. Placed
    BY <2>1, <2>2, PlacingSame, Placing, Zenon
  <2> QED
    BY <2>1, <2>3, Zenon DEF Typed, Placed
<1>6. ASSUME NEW t \in Threads, RecvData(t)
      PROVE  Typed'
  <2>1. Left(t) /\ wire' \in [Ends -> Seq(Nat)] /\ UNCHANGED <<closed, sock, werr, sends, sent, torn>>
    BY <1>6, RecvDataDeed, Zenon DEF WireSet
  <2>2. Placed /\ lock' \in LockType
    BY <2>1, PlacingSame, LockKind, Zenon
  <2> QED
    BY <2>1, <2>2, Zenon DEF Typed, Placed
<1>7. ASSUME NEW t \in Threads, CloseSet(t)
      PROVE  Typed'
  <2>1. /\ Walked(t, "close_sock") /\ UNCHANGED lock /\ closed' \in [Ends -> BOOLEAN]
        /\ UNCHANGED <<sock, werr, wire, sends, sent, got, torn>>
    BY <1>7, Moving, CloseDeeds, Zenon
  <2>2. "close_sock" \notin SendPC
    BY Zenon DEF SendPC
  <2>3. Placed
    BY <2>1, <2>2, PlacingSame, Zenon
  <2> QED
    BY <2>1, <2>3, Zenon DEF Typed, Placed
<1>8. ASSUME NEW t \in Threads, CloseSock(t)
      PROVE  Typed'
  <2>1. /\ Left(t) /\ sock' \in [Ends -> BOOLEAN]
        /\ UNCHANGED <<closed, werr, wire, sends, sent, got, torn>>
    BY <1>8, Moving, CloseDeeds, Zenon
  <2>2. Placed /\ lock' \in LockType
    BY <2>1, PlacingSame, LockKind, Zenon
  <2> QED
    BY <2>1, <2>2, Zenon DEF Typed, Placed
<1>9. ASSUME NEW e \in Ends, Reset(e)
      PROVE  Typed'
  BY <1>9, ResetDeed, Zenon DEF Typed, WireSet
<1> QED
  BY <1>1, <1>2, <1>3, <1>4, <1>5, <1>6, <1>7, <1>8, <1>9, Acts, Zenon DEF Loud

-----------------------------------------------------------------------------
(* The fragment of a failed Send.                                          *)

\* A fragment is on the wire only if c.writer keeps the error.
TornInv == \A e \in Ends : torn[e] => werr[e]

LEMMA TornStep == Typed /\ TornInv /\ [Next]_vars => TornInv'
<1> SUFFICES ASSUME Typed, TornInv, [Next]_vars PROVE TornInv'
  OBVIOUS
<1>1. CASE UNCHANGED vars
  BY <1>1, Zenon DEF vars, TornInv
<1>2. ASSUME NEW t \in Threads, Quiet(t)
      PROVE  TornInv'
  BY <1>2, QuietActions, Zenon DEF TornInv
<1>3. ASSUME NEW t \in Threads, SendFails(t)
      PROVE  TornInv'
  BY <1>3, SendFailsDeed, Zenon DEF TornInv
<1>4. ASSUME NEW t \in Threads,
             SendWrite(t) \/ RecvLen(t) \/ RecvData(t) \/ CloseSet(t) \/ CloseSock(t)
      PROVE  TornInv'
  BY <1>4, Zenon DEF SendWrite, RecvLen, RecvData, CloseSet, CloseSock, histVars, TornInv
<1>5. ASSUME NEW e \in Ends, Reset(e)
      PROVE  TornInv'
  BY <1>5, Zenon DEF Reset, histVars, TornInv
<1> QED
  BY <1>1, <1>2, <1>3, <1>4, <1>5, Acts, Zenon DEF Loud

\* A step writes on the wire of an end only while the writer has no error.
LEMMA NoWrite ==
    ASSUME Typed, TornInv, Next, NEW e \in Ends, torn[e]
    PROVE  Len(wire'[e]) <= Len(wire[e])
<1>1. Len(wire[e]) \in Nat /\ werr[e]
  BY SeqElements, Zenon DEF Typed, TornInv
<1>2. Len(wire[e]) <= Len(wire[e])
  BY <1>1
<1>3. ASSUME NEW t \in Threads, Quiet(t)
      PROVE  Len(wire'[e]) <= Len(wire[e])
  BY <1>2, <1>3, QuietActions, Zenon
<1>4. ASSUME NEW t \in Threads, SendWrite(t)
      PROVE  Len(wire'[e]) <= Len(wire[e])
  BY <1>1, <1>2, <1>4, SendWriteDeed, Zenon DEF WireSet
<1>5. ASSUME NEW t \in Threads, SendFails(t)
      PROVE  Len(wire'[e]) <= Len(wire[e])
  BY <1>1, <1>2, <1>5, SendFailsDeed, Zenon DEF WireSet
<1>6. ASSUME NEW t \in Threads, RecvLen(t)
      PROVE  Len(wire'[e]) <= Len(wire[e])
  <2>1. PICK q \in Ends : /\ Len(wire'[q]) = Len(wire[q]) - 1 /\ Len(wire[q]) \in Nat
                          /\ \A d \in Ends : d # q => wire'[d] = wire[d]
    BY <1>6, RecvLenDeed, Zenon DEF WireSet
  <2>2. CASE e = q
    BY <2>1, <2>2
  <2>3. CASE e # q
    BY <1>2, <2>1, <2>3, Zenon
  <2> QED
    BY <2>2, <2>3, Zenon
<1>7. ASSUME NEW t \in Threads, RecvData(t)
      PROVE  Len(wire'[e]) <= Len(wire[e])
  <2>1. PICK q \in Ends : \E n \in 0 .. Len(wire[q]) :
             WireSet(q, SubSeq(wire[q], n + 1, Len(wire[q])))
    BY <1>7, RecvDataDeed, Zenon
  <2>2. CASE e = q
    <3>1. PICK n \in 0 .. Len(wire[q]) : wire'[q] = SubSeq(wire[q], n + 1, Len(wire[q]))
      BY <2>1, Zenon DEF WireSet
    <3>2. wire[q] \in Seq(Nat)
      BY Zenon DEF Typed
    <3>3. Len(SubSeq(wire[q], n + 1, Len(wire[q]))) <= Len(wire[q])
      BY <3>2
    <3> QED
      BY <2>2, <3>1, <3>3, Zenon
  <2>3. CASE e # q
    BY <1>2, <2>1, <2>3, Zenon DEF WireSet
  <2> QED
    BY <2>2, <2>3, Zenon
<1>8. ASSUME NEW t \in Threads, CloseSet(t) \/ CloseSock(t)
      PROVE  Len(wire'[e]) <= Len(wire[e])
  BY <1>2, <1>8, Zenon DEF CloseSet, CloseSock
<1>9. ASSUME NEW d \in Ends, Reset(d)
      PROVE  Len(wire'[e]) <= Len(wire[e])
  <2>1. Len(<<>>) <= Len(wire[e])
    BY <1>1
  <2> QED
    BY <1>2, <1>9, <2>1, ResetDeed, Zenon DEF WireSet
<1> QED
  BY <1>3, <1>4, <1>5, <1>6, <1>7, <1>8, <1>9, Acts, Zenon DEF Loud

\* Nothing follows the fragment a failed Send leaves on the wire: the error
\* that c.writer keeps stops every later Send, whether or not the close() of
\* the failed call has closed the socket.
THEOREM TornIsLast == Spec => NothingAfterTorn
<1>1. Init => TornInv
  BY Zenon DEF Init, TornInv
<1>2. Spec => [](Typed /\ TornInv)
  BY <1>1, TypedInit, TypedStep, TornStep, PTL DEF Spec
<1>3. ASSUME Typed, TornInv, [Next]_vars
      PROVE  [\A e \in Ends : torn[e] => Len(wire'[e]) <= Len(wire[e])]_vars
  BY <1>3, NoWrite, Zenon
<1> QED
  BY <1>2, <1>3, PTL DEF Spec, NothingAfterTorn

-----------------------------------------------------------------------------
(* recvMu.                                                                 *)

Held == {"recv_len", "recv_data"}
Closing == {"close_check", "close_set", "close_sock"}

\* Thread t is in Recv on end e, or in the close() of a Recv that failed.
Receiving(t, e) ==
    (call[t].pc \in RecvPC /\ call[t].end = e) \/ lock[e]["recv"] = t

\* recvMu is held while a Recv reads and while it closes the connection, by
\* one thread; close() sets the flag before it closes the socket.
LockInv ==
    /\ \A e \in Ends, t \in Threads :
          lock[e]["recv"] = t => call[t].end = e /\ call[t].pc \in Held \cup Closing
    /\ \A t \in Threads : call[t].pc \in Held => lock[call[t].end]["recv"] = t
    /\ \A e \in Ends, t, u \in Threads : Receiving(t, e) /\ Receiving(u, e) => t = u
    /\ \A t \in Threads : call[t].pc = "close_sock" => closed[call[t].end]

\* A step that leaves recvMu alone and takes t to a label l on end d at which
\* it holds recvMu if it did before, is the only receiver and, at the end of
\* close(), has set the flag.
Regular(t, l, d) ==
    /\ \A e \in Ends : lock'[e]["recv"] = lock[e]["recv"]
    /\ \A e \in Ends : closed[e] => closed'[e]
    /\ \A e \in Ends : lock[e]["recv"] = t => d = e /\ l \in Held \cup Closing
    /\ l \in Held => lock[d]["recv"] = t
    /\ l \in RecvPC => \A u \in Threads : Receiving(u, d) => u = t
    /\ l = "close_sock" => closed'[d]

LEMMA LockKept ==
    ASSUME Typed, LockInv, NEW t \in Threads, NEW l, NEW d \in Ends, NEW m, NEW n,
           Moved(t, l, d, m, n), Regular(t, l, d)
    PROVE  LockInv'
<1>0. /\ \A e \in Ends : lock'[e]["recv"] = lock[e]["recv"]
      /\ \A e \in Ends : closed[e] => closed'[e]
      /\ \A e \in Ends : lock[e]["recv"] = t => d = e /\ l \in Held \cup Closing
      /\ l \in Held => lock[d]["recv"] = t
      /\ l \in RecvPC => \A u \in Threads : Receiving(u, d) => u = t
      /\ l = "close_sock" => closed'[d]
  BY Zenon DEF Regular
<1>1. \A u \in Threads : u # t => call'[u] = call[u] /\ call[u].end \in Ends
  BY Zenon DEF Moved, Typed, Calls
<1>2. call'[t].pc = l /\ call'[t].end = d
  BY Zenon DEF Moved
<1>3. ASSUME NEW e \in Ends, NEW u \in Threads, lock'[e]["recv"] = u
      PROVE  call'[u].end = e /\ call'[u].pc \in Held \cup Closing
  <2>1. lock[e]["recv"] = u
    BY <1>0, <1>3, Zenon
  <2>2. CASE u = t
    BY <1>0, <1>2, <2>1, <2>2, Zenon
  <2>3. CASE u # t
    <3>1. call[u].end = e /\ call[u].pc \in Held \cup Closing
      BY <2>1, Zenon DEF LockInv
    <3> QED
      BY <1>1, <2>3, <3>1, Zenon
  <2> QED
    BY <2>2, <2>3, Zenon
<1>4. ASSUME NEW u \in Threads, call'[u].pc \in Held
      PROVE  lock'[call'[u].end]["recv"] = u
  <2>1. CASE u = t
    BY <1>0, <1>2, <1>4, <2>1, Zenon
  <2>2. CASE u # t
    <3>1. call'[u] = call[u] /\ call[u].end \in Ends
      BY <1>1, <2>2, Zenon
    <3>2. lock[call[u].end]["recv"] = u
      BY <1>4, <3>1, Zenon DEF LockInv
    <3> QED
      BY <1>0, <3>1, <3>2, Zenon
  <2> QED
    BY <2>1, <2>2, Zenon
<1>5. ASSUME NEW e \in Ends, NEW u \in Threads, Receiving(u, e)'
      PROVE  Receiving(u, e) \/ (u = t /\ d = e /\ l \in RecvPC)
  BY <1>0, <1>1, <1>2, <1>5, Zenon DEF Receiving
<1>6. ASSUME NEW e \in Ends, NEW u \in Threads, NEW v \in Threads,
             Receiving(u, e)', Receiving(v, e)'
      PROVE  u = v
  <2>1. CASE d = e /\ l \in RecvPC
    <3>1. \A x \in Threads : Receiving(x, e)' => x = t
      BY <1>0, <1>5, <2>1, Zenon
    <3> QED
      BY <1>6, <3>1, Zenon
  <2>2. CASE ~(d = e /\ l \in RecvPC)
    <3>1. Receiving(u, e) /\ Receiving(v, e)
      BY <1>5, <1>6, <2>2, Zenon
    <3> QED
      BY <3>1, Zenon DEF LockInv
  <2> QED
    BY <2>1, <2>2, Zenon
<1>7. ASSUME NEW u \in Threads, call'[u].pc = "close_sock"
      PROVE  closed'[call'[u].end]
  <2>1. CASE u = t
    BY <1>0, <1>2, <1>7, <2>1, Zenon
  <2>2. CASE u # t
    <3>1. call'[u] = call[u] /\ call[u].end \in Ends
      BY <1>1, <2>2, Zenon
    <3>2. closed[call[u].end]
      BY <1>7, <3>1, Zenon DEF LockInv
    <3> QED
      BY <1>0, <3>1, <3>2, Zenon
  <2> QED
    BY <2>1, <2>2, Zenon
<1> QED
  BY <1>3, <1>4, <1>6, <1>7, Zenon DEF LockInv

\* A step that releases what t holds.
LEMMA LockLeft ==
    ASSUME Typed, LockInv, NEW t \in Threads, Left(t), \A e \in Ends : closed[e] => closed'[e]
    PROVE  LockInv'
<1>1. /\ \A u \in Threads : u # t => call'[u] = call[u] /\ call[u].end \in Ends
      /\ call'[t].pc = "idle"
  BY Zenon DEF Left, Moved, Typed, Calls
<1>2. \A e \in Ends : /\ lock'[e]["recv"] # t
                      /\ \A u \in Threads : u # t => (lock'[e]["recv"] = u <=> lock[e]["recv"] = u)
  BY ThreadsAssumption, Labels, Zenon DEF Left, Freed
<1>3. "idle" \notin Held /\ "idle" \notin RecvPC /\ "idle" # "close_sock"
  BY Zenon DEF Held, RecvPC
<1>4. \A e \in Ends, u \in Threads : Receiving(u, e)' => u # t /\ Receiving(u, e)
  BY <1>1, <1>2, <1>3, Zenon DEF Receiving
<1>5. ASSUME NEW e \in Ends, NEW u \in Threads, lock'[e]["recv"] = u
      PROVE  call'[u].end = e /\ call'[u].pc \in Held \cup Closing
  <2>1. u # t /\ lock[e]["recv"] = u /\ call'[u] = call[u]
    BY <1>1, <1>2, <1>5, Zenon
  <2>2. call[u].end = e /\ call[u].pc \in Held \cup Closing
    BY <2>1, Zenon DEF LockInv
  <2> QED
    BY <2>1, <2>2, Zenon
<1>6. ASSUME NEW u \in Threads, call'[u].pc \in Held
      PROVE  lock'[call'[u].end]["recv"] = u
  <2>1. u # t /\ call'[u] = call[u] /\ call[u].end \in Ends
    BY <1>1, <1>3, <1>6, Zenon
  <2>2. lock[call[u].end]["recv"] = u
    BY <1>6, <2>1, Zenon DEF LockInv
  <2> QED
    BY <1>2, <2>1, <2>2, Zenon
<1>7. ASSUME NEW e \in Ends, NEW u \in Threads, NEW v \in Threads,
             Receiving(u, e)', Receiving(v, e)'
      PROVE  u = v
  <2>1. Receiving(u, e) /\ Receiving(v, e)
    BY <1>4, <1>7, Zenon
  <2> QED
    BY <2>1, Zenon DEF LockInv
<1>8. ASSUME NEW u \in Threads, call'[u].pc = "close_sock"
      PROVE  closed'[call'[u].end]
  <2>1. u # t /\ call'[u] = call[u] /\ call[u].end \in Ends
    BY <1>1, <1>3, <1>8, Zenon
  <2>2. closed[call[u].end]
    BY <1>8, <2>1, Zenon DEF LockInv
  <2> QED
    BY <2>1, <2>2, Zenon
<1> QED
  BY <1>5, <1>6, <1>7, <1>8, Zenon DEF LockInv

\* A thread outside Recv and close() does not hold recvMu.
LEMMA NotHolding ==
    ASSUME LockInv, NEW t \in Threads, call[t].pc \notin Held \cup Closing
    PROVE  \A e \in Ends : lock[e]["recv"] # t
BY Zenon DEF LockInv

\* The step that takes recvMu.
LEMMA LockTaken ==
    ASSUME Typed, LockInv, NEW t \in Threads, RecvLock(t)
    PROVE  LockInv'
<1> DEFINE d == call[t].end
<1>1. /\ At(t, "recv_lock") /\ Walked(t, "recv_len") /\ Seized(t, "recv")
      /\ d \in Ends /\ UNCHANGED closed
  BY Moving, Zenon DEF RecvLock, Typed, Calls
<1> HIDE DEF d
<1>2. call'[t].pc = "recv_len" /\ call'[t].end = d
  BY <1>1, Zenon DEF Walked, Moved, d
<1>3. \A u \in Threads : u # t => call'[u] = call[u] /\ call[u].end \in Ends
  BY <1>1, Zenon DEF Walked, Moved, Typed, Calls
<1>4. /\ lock[d]["recv"] = NoThread /\ lock'[d]["recv"] = t
      /\ \A e \in Ends : e # d => lock'[e]["recv"] = lock[e]["recv"]
  BY <1>1, Labels, Zenon DEF Seized, d
<1>5. \A e \in Ends : lock[e]["recv"] # t
  <2>1. "recv_lock" \notin Held \cup Closing
    BY Zenon DEF Held, Closing
  <2> QED
    BY <1>1, <2>1, NotHolding, Zenon DEF At
<1>6. Receiving(t, d)
  BY <1>1, Labels, Zenon DEF Receiving, At, d
<1>7. ASSUME NEW e \in Ends, NEW u \in Threads, Receiving(u, e)'
      PROVE  Receiving(u, e)
  <2>1. CASE u = t
    BY <1>2, <1>4, <1>5, <1>6, <1>7, <2>1, Zenon DEF Receiving
  <2>2. CASE u # t
    BY <1>3, <1>4, <1>7, <2>2, Zenon DEF Receiving
  <2> QED
    BY <2>1, <2>2, Zenon
<1>8. ASSUME NEW e \in Ends, NEW u \in Threads, lock'[e]["recv"] = u
      PROVE  call'[u].end = e /\ call'[u].pc \in Held \cup Closing
  <2>1. CASE e = d
    BY <1>2, <1>4, <1>8, <2>1, Zenon DEF Held
  <2>2. CASE e # d
    <3>1. lock[e]["recv"] = u /\ u # t
      BY <1>4, <1>5, <1>8, <2>2, Zenon
    <3>2. call[u].end = e /\ call[u].pc \in Held \cup Closing
      BY <3>1, Zenon DEF LockInv
    <3> QED
      BY <1>3, <3>1, <3>2, Zenon
  <2> QED
    BY <2>1, <2>2, Zenon
<1>9. ASSUME NEW u \in Threads, call'[u].pc \in Held
      PROVE  lock'[call'[u].end]["recv"] = u
  <2>1. CASE u = t
    BY <1>2, <1>4, <2>1, Zenon
  <2>2. CASE u # t
    <3>1. call'[u] = call[u] /\ call[u].end \in Ends
      BY <1>3, <2>2, Zenon
    <3>2. lock[call[u].end]["recv"] = u
      BY <1>9, <3>1, Zenon DEF LockInv
    <3> QED
      BY <1>4, <3>1, <3>2, ThreadsAssumption, Zenon
  <2> QED
    BY <2>1, <2>2, Zenon
<1>10. ASSUME NEW e \in Ends, NEW u \in Threads, NEW v \in Threads,
              Receiving(u, e)', Receiving(v, e)'
       PROVE  u = v
  <2>1. Receiving(u, e) /\ Receiving(v, e)
    BY <1>7, <1>10, Zenon
  <2> QED
    BY <2>1, Zenon DEF LockInv
<1>11. ASSUME NEW u \in Threads, call'[u].pc = "close_sock"
       PROVE  closed'[call'[u].end]
  <2>1. u # t
    BY <1>2, <1>11, Zenon
  <2>2. call'[u] = call[u] /\ closed[call[u].end]
    BY <1>3, <1>11, <2>1, Zenon DEF LockInv
  <2> QED
    BY <1>1, <2>2, Zenon
<1> QED
  BY <1>8, <1>9, <1>10, <1>11, Zenon DEF LockInv

\* A step outside Recv and close().
LEMMA LockAside ==
    ASSUME Typed, LockInv, NEW t \in Threads, NEW l, NEW d \in Ends, NEW m, NEW n,
           Moved(t, l, d, m, n), UNCHANGED closed,
           UNCHANGED lock \/ Seized(t, "send") \/ Seized(t, "mu"),
           call[t].pc \notin Held \cup Closing, l \notin RecvPC, l # "close_sock"
    PROVE  LockInv'
<1>1. \A e \in Ends : lock'[e]["recv"] = lock[e]["recv"]
  BY Labels, Zenon DEF Seized
<1>2. \A e \in Ends : lock[e]["recv"] # t
  BY NotHolding, Zenon
<1>3. \A e \in Ends : closed[e] => closed'[e]
  OBVIOUS
<1>4. l \notin Held
  BY Zenon DEF Held, RecvPC
<1>5. Regular(t, l, d)
  BY <1>1, <1>2, <1>3, <1>4, Zenon DEF Regular
<1> QED
  BY <1>5, LockKept, Zenon

\* A step inside a Recv, or inside the close() of a Recv or a Send.
Within(t, l) ==
    /\ UNCHANGED lock
    /\ \A e \in Ends : closed[e] => closed'[e]
    /\ call[t].pc \in Held \cup Closing => l \in Held \cup Closing
    /\ l \in Held => call[t].pc \in Held
    /\ l \in RecvPC => call[t].pc \in RecvPC
    /\ l = "close_sock" => closed'[call[t].end]

LEMMA LockWithin ==
    ASSUME Typed, LockInv, NEW t \in Threads, NEW l, NEW m, NEW n,
           Moved(t, l, call[t].end, m, n), Within(t, l)
    PROVE  LockInv'
<1>1. PICK d \in Ends : d = call[t].end
  BY Zenon DEF Typed, Calls
<1>2. \A e \in Ends : lock[e]["recv"] = t => d = e /\ l \in Held \cup Closing
  BY <1>1, Zenon DEF LockInv, Within
<1>3. l \in Held => lock[d]["recv"] = t
  BY <1>1, Zenon DEF LockInv, Within
<1>4. ASSUME l \in RecvPC, NEW u \in Threads, Receiving(u, d)
      PROVE  u = t
  <2>1. Receiving(t, d)
    BY <1>1, <1>4, Zenon DEF Receiving, Within
  <2> QED
    BY <1>1, <1>4, <2>1, Zenon DEF LockInv
<1>5. Regular(t, l, d)
  BY <1>1, <1>2, <1>3, <1>4, Zenon DEF Regular, Within
<1>6. Moved(t, l, d, m, n)
  BY <1>1, Zenon
<1> QED
  BY <1>5, <1>6, LockKept, Zenon

\* Where the labels of Recv and close() belong.
LEMMA Places ==
    /\ {"idle", "send_check", "send_lock", "send_write", "recv_check", "recv_lock", "close_lock"}
          \cap (Held \cup Closing) = {}
    /\ {"idle", "send_check", "send_lock", "send_write", "close_lock", "close_check", "close_set",
        "close_sock"} \cap RecvPC = {}
    /\ Held = {"recv_len", "recv_data"} /\ Held \subseteq RecvPC
    /\ {"recv_check", "recv_lock"} \subseteq RecvPC
    /\ Closing = {"close_check", "close_set", "close_sock"}
    /\ Held \cap Closing = {}
BY Zenon DEF Held, Closing, RecvPC

LEMMA LockQuiet ==
    ASSUME Typed, LockInv, NEW t \in Threads, Quiet(t)
    PROVE  LockInv'
<1>1. UNCHANGED closed /\ \A e \in Ends : closed[e] => closed'[e]
  BY QuietActions, Zenon
<1>2. CASE Left(t)
  BY <1>1, <1>2, LockLeft, Zenon
<1>3. CASE \E e \in Ends : \E m \in Messages : CallSend(t, e, m)
  <2>1. PICK e \in Ends, m \in Messages : CallSend(t, e, m)
    BY <1>3, Zenon
  <2>2. At(t, "idle") /\ Moved(t, "send_check", e, m, 0) /\ UNCHANGED lock
    BY <2>1, Moving, Zenon
  <2>3. call[t].pc \notin Held \cup Closing /\ "send_check" \notin RecvPC
    BY <2>2, Places, Zenon DEF At
  <2> QED
    BY <1>1, <2>2, <2>3, LockAside, Zenon
<1>4. CASE \E e \in Ends : CallClose(t, e)
  <2>1. PICK e \in Ends : CallClose(t, e)
    BY <1>4, Zenon
  <2>2. At(t, "idle") /\ Moved(t, "close_lock", e, Invalid, 0) /\ UNCHANGED lock
    BY <2>1, Moving, Zenon
  <2>3. call[t].pc \notin Held \cup Closing /\ "close_lock" \notin RecvPC
    BY <2>2, Places, Zenon DEF At
  <2> QED
    BY <1>1, <2>2, <2>3, LockAside, Zenon
<1>5. CASE \E e \in Ends : CallRecv(t, e)
  <2>1. PICK e \in Ends : CallRecv(t, e)
    BY <1>5, Zenon
  <2>2. At(t, "idle") /\ Moved(t, "recv_check", e, Invalid, 0) /\ UNCHANGED lock
    BY <2>1, Moving, Zenon
  <2>3. call[t].pc \notin Held \cup Closing /\ "recv_check" \notin Held
    BY <2>2, Places, Zenon DEF At
  <2>4. \A u \in Threads : ~Receiving(u, e)
    BY <2>1, ThreadsAssumption, Zenon DEF CallRecv, Receiving
  <2>5. \A d \in Ends : lock[d]["recv"] # t
    BY <2>3, NotHolding, Zenon
  <2>6. \A d \in Ends : lock'[d]["recv"] = lock[d]["recv"]
    BY <2>2, Zenon
  <2> QED
    <3>1. Regular(t, "recv_check", e)
      BY <1>1, <2>3, <2>4, <2>5, <2>6, Zenon DEF Regular
    <3> QED
      BY <2>2, <3>1, LockKept, Zenon
<1>6. CASE SendCheck(t) /\ ~Left(t)
  <2>1. At(t, "send_check") /\ Walked(t, "send_lock") /\ UNCHANGED lock /\ call[t].end \in Ends
    BY <1>6, Moving, Zenon DEF Typed, Calls
  <2>2. call[t].pc \notin Held \cup Closing /\ "send_lock" \notin RecvPC
    BY <2>1, Places, Zenon DEF At
  <2> QED
    BY <1>1, <2>1, <2>2, LockAside, Zenon DEF Walked
<1>7. CASE SendLock(t) /\ ~Left(t)
  <2>1. /\ At(t, "send_lock") /\ Walked(t, "send_write") /\ Seized(t, "send")
        /\ call[t].end \in Ends
    BY <1>7, Moving, Zenon DEF Typed, Calls
  <2>2. call[t].pc \notin Held \cup Closing /\ "send_write" \notin RecvPC
    BY <2>1, Places, Zenon DEF At
  <2> QED
    BY <1>1, <2>1, <2>2, LockAside, Zenon DEF Walked
<1>8. CASE CloseLock(t) /\ ~Left(t)
  <2>1. /\ At(t, "close_lock") /\ Walked(t, "close_set") /\ Seized(t, "mu")
        /\ call[t].end \in Ends
    BY <1>8, Moving, Zenon DEF Typed, Calls
  <2>2. call[t].pc \notin Held \cup Closing /\ "close_set" \notin RecvPC
    BY <2>1, Places, Zenon DEF At
  <2> QED
    BY <1>1, <2>1, <2>2, LockAside, Zenon DEF Walked
<1>9. CASE RecvCheck(t) /\ ~Left(t)
  <2>1. At(t, "recv_check") /\ Walked(t, "recv_lock") /\ UNCHANGED lock
    BY <1>9, Moving, Zenon
  <2>2. /\ call[t].pc \in RecvPC /\ call[t].pc \notin Held \cup Closing /\ "recv_lock" \notin Held
    BY <2>1, Places, Zenon DEF At
  <2>3. Within(t, "recv_lock")
    BY <1>1, <2>1, <2>2, Zenon DEF Within
  <2> QED
    BY <2>1, <2>3, LockWithin, Zenon DEF Walked
<1>10. CASE RecvLock(t)
  BY <1>10, LockTaken, Zenon
<1>11. CASE RecvFails(t)
  <2>1. call[t].pc \in Held /\ Walked(t, "close_check") /\ UNCHANGED lock
    BY <1>11, Moving, Zenon DEF Held
  <2>2. /\ call[t].pc \in RecvPC \cup Closing /\ "close_check" \in Held \cup Closing
        /\ "close_check" \notin RecvPC /\ "close_check" \notin Held
    BY <2>1, Places, Zenon
  <2>3. Within(t, "close_check")
    BY <1>1, <2>1, <2>2, Zenon DEF Within
  <2> QED
    BY <2>1, <2>3, LockWithin, Zenon DEF Walked
<1>12. CASE CloseCheck(t) /\ ~Left(t)
  <2>1. At(t, "close_check") /\ Walked(t, "close_set") /\ UNCHANGED lock
    BY <1>12, Moving, Zenon
  <2>2. /\ call[t].pc \in Closing /\ "close_set" \in Closing /\ "close_set" \notin RecvPC
        /\ "close_set" \notin Held
    BY <2>1, Places, Zenon DEF At
  <2>3. Within(t, "close_set")
    BY <1>1, <2>1, <2>2, Zenon DEF Within
  <2> QED
    BY <2>1, <2>3, LockWithin, Zenon DEF Walked
<1> QED
  BY <1>2, <1>3, <1>4, <1>5, <1>6, <1>7, <1>8, <1>9, <1>10, <1>11, <1>12, Zenon DEF Quiet

LEMMA LockStep == Typed /\ LockInv /\ [Next]_vars => LockInv'
<1> SUFFICES ASSUME Typed, LockInv, [Next]_vars PROVE LockInv'
  OBVIOUS
<1>1. CASE UNCHANGED vars
  BY <1>1, ZenonT(30) DEF vars, LockInv, Receiving
<1>2. ASSUME NEW t \in Threads, Quiet(t)
      PROVE  LockInv'
  BY <1>2, LockQuiet, Zenon
<1>3. ASSUME NEW t \in Threads, SendWrite(t) \/ RecvData(t) \/ CloseSock(t)
      PROVE  LockInv'
  <2>1. Left(t) /\ UNCHANGED closed
    BY <1>3, Moving, Zenon DEF SendWrite, RecvData, CloseSock
  <2> QED
    BY <2>1, LockLeft, Zenon
<1>4. ASSUME NEW t \in Threads, SendFails(t)
      PROVE  LockInv'
  <2>1. /\ At(t, "send_write") /\ Walked(t, "close_check") /\ UNCHANGED <<lock, closed>>
        /\ call[t].end \in Ends
    BY <1>4, SendFailsDeed, Zenon
  <2>2. call[t].pc \notin Held \cup Closing /\ "close_check" \notin RecvPC
    BY <2>1, Places, Zenon DEF At
  <2> QED
    BY <2>1, <2>2, LockAside, Zenon DEF Walked
<1>5. ASSUME NEW t \in Threads, RecvLen(t)
      PROVE  LockInv'
  <2> DEFINE n == Head(wire[Peer(call[t].end)])
  <2>1. /\ At(t, "recv_len") /\ UNCHANGED <<lock, closed>>
        /\ \/ Walked(t, "close_check")
           \/ Moved(t, "recv_data", call[t].end, call[t].msg, n)
    BY <1>5, RecvLenDeed, Zenon
  <2> HIDE DEF n
  <2>2. /\ call[t].pc \in RecvPC \cup Closing /\ call[t].pc \in RecvPC /\ call[t].pc \in Held
        /\ "close_check" \in Held \cup Closing
        /\ "close_check" \notin RecvPC /\ "close_check" \notin Held
        /\ "recv_data" \in Held \cup Closing
    BY <2>1, Places, Zenon DEF At
  <2>3. \A e \in Ends : closed[e] => closed'[e]
    BY <2>1, Zenon
  <2>4. CASE Walked(t, "close_check")
    <3>1. Within(t, "close_check")
      BY <2>1, <2>2, <2>3, Zenon DEF Within
    <3> QED
      BY <2>4, <3>1, LockWithin, Zenon DEF Walked
  <2>5. CASE Moved(t, "recv_data", call[t].end, call[t].msg, n)
    <3>1. Within(t, "recv_data")
      BY <2>1, <2>2, <2>3, Zenon DEF Within
    <3> QED
      BY <2>5, <3>1, LockWithin, Zenon
  <2> QED
    BY <2>1, <2>4, <2>5, Zenon
<1>6. ASSUME NEW t \in Threads, CloseSet(t)
      PROVE  LockInv'
  <2>1. /\ At(t, "close_set") /\ Walked(t, "close_sock") /\ UNCHANGED lock
        /\ closed'[call[t].end] /\ \A e \in Ends : closed[e] => closed'[e]
    BY <1>6, Moving, CloseDeeds, Zenon
  <2>2. /\ call[t].pc \in Closing /\ "close_sock" \in Closing /\ "close_sock" \notin RecvPC
        /\ "close_sock" \notin Held
    BY <2>1, Places, Zenon DEF At
  <2>3. Within(t, "close_sock")
    BY <2>1, <2>2, Zenon DEF Within
  <2> QED
    BY <2>1, <2>3, LockWithin, Zenon DEF Walked
<1>7. ASSUME NEW e \in Ends, Reset(e)
      PROVE  LockInv'
  <2>1. UNCHANGED <<closed, lock, call>>
    BY <1>7, ResetDeed, Zenon
  <2> QED
    BY <2>1 DEF LockInv, Receiving
<1> QED
  BY <1>1, <1>2, <1>3, <1>4, <1>5, <1>6, <1>7, Acts, Zenon DEF Loud

-----------------------------------------------------------------------------
(* The reader of each end is at the beginning of a frame, or after the     *)
(* length of one, or will never read again.                                *)

Reading == {"recv_lock", "recv_len", "recv_data"}

\* The lengths read on end e whose data has not been read.
Pending(e) ==
    {call[t].len : t \in {u \in Threads : call[u].pc = "recv_data" /\ call[u].end = e}}

\* Nobody will read on end e: a Recv has failed and closes the connection with
\* recvMu held, or the flag is set and nobody is past its check.
Dead(e) ==
    \/ \E u \in Threads : lock[e]["recv"] = u /\ call[u].pc \in Closing
    \/ closed[e] /\ \A u \in Threads : ~(call[u].pc \in Reading /\ call[u].end = e)

\* There is nothing to read on end e, and never will be.
Cut(e) == ~sock[Peer(e)] /\ wire[Peer(e)] = <<>>

InFrames(e) ==
    Stream(wire[Peer(e)], sent[Peer(e)], Len(got[e]), torn[Peer(e)], Pending(e))

AlignInv == \A e \in Ends : Dead(e) \/ Cut(e) \/ InFrames(e)

\* What a Recv returned is what the frame of the message decodes to.
GotInv ==
    /\ got \in [Ends -> Seq(Message \cup {Invalid})]
    /\ \A e \in Ends :
          /\ Len(got[e]) \in 0 .. Len(sent[Peer(e)])
          /\ \A i \in DOMAIN got[e] :
                got[e][i] = deserializeMessage(serializeMessage(sent[Peer(e)][i]))

\* No frame is empty.
LenInv == \A t \in Threads : call[t].pc = "recv_data" => call[t].len # 0

\* A step of t that does not end at the data of a frame on end e, nor begin there.
LEMMA PendingSame ==
    ASSUME NEW e \in Ends, NEW t \in Threads, NEW l, NEW d, NEW m, NEW n, Moved(t, l, d, m, n),
           ~(call[t].pc = "recv_data" /\ call[t].end = e), ~(l = "recv_data" /\ d = e)
    PROVE  Pending(e)' = Pending(e)
<1>1. /\ call'[t].pc = l /\ call'[t].end = d
      /\ \A u \in Threads : u # t => call'[u] = call[u]
  BY Zenon DEF Moved
<1>2. ASSUME NEW u \in Threads
      PROVE  /\ call'[u].pc = "recv_data" /\ call'[u].end = e
                   <=> call[u].pc = "recv_data" /\ call[u].end = e
             /\ call'[u].pc = "recv_data" /\ call'[u].end = e => call'[u] = call[u]
  <2>1. CASE u = t
    BY <1>1, <2>1, Zenon
  <2>2. CASE u # t
    BY <1>1, <2>2, Zenon
  <2> QED
    BY <2>1, <2>2, Zenon
<1>3. ASSUME NEW x
      PROVE  x \in Pending(e)' <=> x \in Pending(e)
  <2>1. x \in Pending(e)' <=>
            \E u \in Threads : call'[u].pc = "recv_data" /\ call'[u].end = e /\ x = call'[u].len
    BY Zenon DEF Pending
  <2>2. x \in Pending(e) <=>
            \E u \in Threads : call[u].pc = "recv_data" /\ call[u].end = e /\ x = call[u].len
    BY Zenon DEF Pending
  <2> QED
    BY <1>2, <2>1, <2>2, Zenon
<1> QED
  BY <1>3, Zenon

\* Only the holder of recvMu waits for data.
LEMMA PendingHolder ==
    ASSUME LockInv, NEW e \in Ends, NEW t \in Threads, lock[e]["recv"] = t
    PROVE  /\ call[t].pc # "recv_data" => Pending(e) = {}
           /\ call[t].pc = "recv_data" => Pending(e) = {call[t].len}
<1>1. ASSUME NEW u \in Threads, call[u].pc = "recv_data", call[u].end = e
      PROVE  u = t
  BY <1>1, Places, Zenon DEF LockInv
<1>2. call[t].end = e
  BY Zenon DEF LockInv
<1> QED
  BY <1>1, <1>2, Zenon DEF Pending

\* The step of t does not let anybody read who could not before.
Buried(t, l, d, e) ==
    /\ lock'[e]["recv"] = lock[e]["recv"] \/ lock[e]["recv"] = NoThread
    /\ l \in Reading /\ d = e => (call[t].pc \in Reading /\ call[t].end = e) \/ ~closed[e]
    /\ call[t].pc \in Closing => l \in Closing
    /\ closed[e] => closed'[e]

LEMMA DeadKept ==
    ASSUME LockInv, NEW e \in Ends, Dead(e), NEW t \in Threads,
           NEW l, NEW d, NEW m, NEW n, Moved(t, l, d, m, n), Buried(t, l, d, e)
    PROVE  Dead(e)'
<1>1. /\ call'[t].pc = l /\ call'[t].end = d
      /\ \A u \in Threads : u # t => call'[u] = call[u]
  BY Zenon DEF Moved
<1>2. /\ lock'[e]["recv"] = lock[e]["recv"] \/ lock[e]["recv"] = NoThread
      /\ l \in Reading /\ d = e => (call[t].pc \in Reading /\ call[t].end = e) \/ ~closed[e]
      /\ call[t].pc \in Closing => l \in Closing
      /\ closed[e] => closed'[e]
  BY Zenon DEF Buried
<1>3. ASSUME NEW u \in Threads, lock[e]["recv"] = u, call[u].pc \in Closing
      PROVE  Dead(e)'
  <2>1. lock'[e]["recv"] = u
    BY <1>2, <1>3, ThreadsAssumption, Zenon
  <2>2. call'[u].pc \in Closing
    <3>1. CASE u = t
      BY <1>1, <1>2, <1>3, <3>1, Zenon
    <3>2. CASE u # t
      BY <1>1, <1>3, <3>2, Zenon
    <3> QED
      BY <3>1, <3>2, Zenon
  <2> QED
    BY <2>1, <2>2, Zenon DEF Dead
<1>4. ASSUME closed[e], \A u \in Threads : ~(call[u].pc \in Reading /\ call[u].end = e)
      PROVE  Dead(e)'
  <2>1. ASSUME NEW u \in Threads
        PROVE  ~(call'[u].pc \in Reading /\ call'[u].end = e)
    <3>1. CASE u = t
      BY <1>1, <1>2, <1>4, <3>1, Zenon
    <3>2. CASE u # t
      BY <1>1, <1>4, <3>2, Zenon
    <3> QED
      BY <3>1, <3>2, Zenon
  <2> QED
    BY <1>2, <1>4, <2>1, Zenon DEF Dead
<1> QED
  BY <1>3, <1>4, Zenon DEF Dead

\* A Recv that failed leaves with the flag set.
LEMMA DeadLeft ==
    ASSUME LockInv, NEW e \in Ends, Dead(e), NEW t \in Threads, Left(t),
           closed[e] => closed'[e], call[t].pc \in Closing => closed[call[t].end]
    PROVE  Dead(e)'
<1>1. /\ call'[t].pc = "idle" /\ "idle" \notin Reading
      /\ \A u \in Threads : u # t => call'[u] = call[u]
  BY Zenon DEF Left, Moved, Reading
<1>2. lock[e]["recv"] # t => lock'[e]["recv"] = lock[e]["recv"]
  BY Labels, Zenon DEF Left, Freed
<1>3. ASSUME closed[e], \A u \in Threads : u # t => ~(call[u].pc \in Reading /\ call[u].end = e)
      PROVE  Dead(e)'
  <2>1. ASSUME NEW u \in Threads
        PROVE  ~(call'[u].pc \in Reading /\ call'[u].end = e)
    <3>1. CASE u = t
      BY <1>1, <3>1, Zenon
    <3>2. CASE u # t
      BY <1>1, <1>3, <3>2, Zenon
    <3> QED
      BY <3>1, <3>2, Zenon
  <2> QED
    BY <1>3, <2>1, Zenon DEF Dead
<1>4. ASSUME NEW u \in Threads, lock[e]["recv"] = u, call[u].pc \in Closing
      PROVE  Dead(e)'
  <2>1. CASE u # t
    BY <1>1, <1>2, <1>4, <2>1, Zenon DEF Dead
  <2>2. CASE u = t
    <3>1. closed[e]
      <4>1. lock[e]["recv"] = t /\ call[t].pc \in Closing
        BY <1>4, <2>2, Zenon
      <4>2. call[t].end = e /\ closed[call[t].end]
        BY <4>1, Zenon DEF LockInv
      <4> QED
        BY <4>2, Zenon
    <3>2. ASSUME NEW v \in Threads, call[v].pc \in Reading, call[v].end = e
          PROVE  v = t
      <4>1. Receiving(v, e) /\ Receiving(t, e)
        BY <1>4, <2>2, <3>2, Zenon DEF Receiving, Reading, RecvPC
      <4> QED
        BY <4>1, Zenon DEF LockInv
    <3> QED
      BY <1>3, <3>1, <3>2, Zenon
  <2> QED
    BY <2>1, <2>2, Zenon
<1> QED
  BY <1>3, <1>4, Zenon DEF Dead

\* Which labels read and which close.
LEMMA Spots ==
    /\ {"idle", "send_check", "send_lock", "send_write", "recv_check", "close_lock",
        "close_check", "close_set", "close_sock"} \cap Reading = {}
    /\ Reading = {"recv_lock", "recv_len", "recv_data"} /\ Reading \subseteq RecvPC
    /\ Closing = {"close_check", "close_set", "close_sock"}
    /\ {"idle", "send_check", "send_lock", "send_write", "recv_check", "recv_lock", "recv_len",
        "recv_data", "close_lock"} \cap Closing = {}
BY Zenon DEF Reading, Closing, RecvPC

\* A step from a label that does not close to one that does not read, with
\* recvMu left alone or given up.
LEMMA DeadAside ==
    ASSUME LockInv, NEW e \in Ends, Dead(e), NEW t \in Threads, closed[e] => closed'[e],
           call[t].pc \notin Closing,
           \/ Left(t)
           \/ \E l, d, m, n : /\ Moved(t, l, d, m, n) /\ l \notin Reading
                              /\ UNCHANGED lock \/ Seized(t, "send") \/ Seized(t, "mu")
    PROVE  Dead(e)'
<1>1. CASE Left(t)
  BY <1>1, DeadLeft, Zenon
<1>2. CASE \E l, d, m, n : /\ Moved(t, l, d, m, n) /\ l \notin Reading
                           /\ UNCHANGED lock \/ Seized(t, "send") \/ Seized(t, "mu")
  <2>1. PICK l, d, m, n : /\ Moved(t, l, d, m, n) /\ l \notin Reading
                          /\ UNCHANGED lock \/ Seized(t, "send") \/ Seized(t, "mu")
    BY <1>2, Zenon
  <2>2. lock'[e]["recv"] = lock[e]["recv"]
    BY <2>1, Labels, Zenon DEF Seized
  <2>3. Buried(t, l, d, e)
    BY <2>1, <2>2, Zenon DEF Buried
  <2> QED
    BY <2>1, <2>3, DeadKept, Zenon
<1> QED
  BY <1>1, <1>2, Zenon

\* A step of close().
LEMMA DeadClosing ==
    ASSUME LockInv, NEW e \in Ends, Dead(e), NEW t \in Threads, closed[e] => closed'[e],
           NEW l \in Closing, Walked(t, l), UNCHANGED lock
    PROVE  Dead(e)'
<1>1. l \notin Reading
  BY Spots, Zenon
<1>2. Buried(t, l, call[t].end, e)
  BY <1>1, Zenon DEF Buried
<1> QED
  BY <1>2, DeadKept, Zenon DEF Walked

LEMMA DeadQuiet ==
    ASSUME Typed, LockInv, NEW e \in Ends, Dead(e), NEW t \in Threads, Quiet(t)
    PROVE  Dead(e)'
<1>1. closed[e] => closed'[e]
  BY QuietActions, Zenon
<1>2. CASE \E d \in Ends : \E m \in Messages : CallSend(t, d, m)
  <2>1. PICK d \in Ends, m \in Messages :
            At(t, "idle") /\ Moved(t, "send_check", d, m, 0) /\ UNCHANGED lock
    BY <1>2, Moving, Zenon
  <2>2. call[t].pc \notin Closing /\ "send_check" \notin Reading
    BY <2>1, Spots, Zenon DEF At
  <2> QED
    BY <1>1, <2>1, <2>2, DeadAside, Zenon
<1>3. CASE \E d \in Ends : CallRecv(t, d) \/ CallClose(t, d)
  <2>1. PICK d \in Ends, l \in {"recv_check", "close_lock"} :
            At(t, "idle") /\ Moved(t, l, d, Invalid, 0) /\ UNCHANGED lock
    BY <1>3, Moving, Zenon
  <2>2. call[t].pc \notin Closing /\ l \notin Reading
    BY <2>1, Spots, Zenon DEF At
  <2> QED
    BY <1>1, <2>1, <2>2, DeadAside, Zenon
<1>4. CASE SendCheck(t) \/ SendLock(t) \/ CloseLock(t)
  <2>1. /\ call[t].pc \in {"send_check", "send_lock", "close_lock"}
        /\ \/ Left(t)
           \/ \E l \in {"send_lock", "send_write", "close_set"} :
                 /\ Walked(t, l)
                 /\ UNCHANGED lock \/ Seized(t, "send") \/ Seized(t, "mu")
    BY <1>4, Moving, Zenon DEF At
  <2>2. /\ call[t].pc \notin Closing
        /\ \A l \in {"send_lock", "send_write", "close_set"} : l \notin Reading
    BY <2>1, Spots, Zenon
  <2>3. CASE Left(t)
    BY <1>1, <2>2, <2>3, DeadAside, Zenon
  <2>4. CASE ~Left(t)
    <3>1. PICK l \in {"send_lock", "send_write", "close_set"} :
                 /\ Walked(t, l)
                 /\ UNCHANGED lock \/ Seized(t, "send") \/ Seized(t, "mu")
      BY <2>1, <2>4, Zenon
    <3>2. Moved(t, l, call[t].end, call[t].msg, call[t].len) /\ l \notin Reading
      BY <2>2, <3>1, Zenon DEF Walked
    <3> QED
      BY <1>1, <2>2, <3>1, <3>2, DeadAside, Zenon
  <2> QED
    BY <2>3, <2>4, Zenon
<1>5. CASE RecvCheck(t)
  <2>1. /\ call[t].pc = "recv_check"
        /\ Left(t) \/ (~closed[call[t].end] /\ Walked(t, "recv_lock") /\ UNCHANGED lock)
    BY <1>5, Moving, Zenon DEF At
  <2>2. call[t].pc \notin Closing
    BY <2>1, Spots, Zenon
  <2>3. CASE Left(t)
    BY <1>1, <2>2, <2>3, DeadAside, Zenon
  <2>4. CASE ~Left(t)
    <3>1. Buried(t, "recv_lock", call[t].end, e)
      BY <1>1, <2>1, <2>2, <2>4, Zenon DEF Buried
    <3> QED
      BY <2>1, <2>4, <3>1, DeadKept, Zenon DEF Walked
  <2> QED
    BY <2>3, <2>4, Zenon
<1>6. CASE RecvLock(t)
  <2>1. call[t].pc = "recv_lock" /\ Walked(t, "recv_len") /\ Seized(t, "recv")
    BY <1>6, Moving, Zenon DEF At
  <2>2. call[t].pc \notin Closing /\ call[t].pc \in Reading
    BY <2>1, Spots, Zenon
  <2>3. lock'[e]["recv"] = lock[e]["recv"] \/ lock[e]["recv"] = NoThread
    BY <2>1, Labels, Zenon DEF Seized
  <2>4. Buried(t, "recv_len", call[t].end, e)
    BY <1>1, <2>2, <2>3, Zenon DEF Buried
  <2> QED
    BY <2>1, <2>4, DeadKept, Zenon DEF Walked
<1>7. CASE RecvFails(t)
  <2>1. Walked(t, "close_check") /\ UNCHANGED lock /\ "close_check" \in Closing
    BY <1>7, Moving, Spots, Zenon
  <2> QED
    BY <1>1, <2>1, DeadClosing, Zenon
<1>8. CASE CloseCheck(t)
  <2>1. /\ (closed[call[t].end] /\ Left(t)) \/ (Walked(t, "close_set") /\ UNCHANGED lock)
        /\ "close_set" \in Closing
    BY <1>8, Moving, Spots, Zenon
  <2>2. CASE closed[call[t].end] /\ Left(t)
    BY <1>1, <2>2, DeadLeft, Zenon
  <2>3. CASE Walked(t, "close_set") /\ UNCHANGED lock
    BY <1>1, <2>1, <2>3, DeadClosing, Zenon
  <2> QED
    BY <2>1, <2>2, <2>3, Zenon
<1> QED
  BY <1>2, <1>3, <1>4, <1>5, <1>6, <1>7, <1>8, Zenon DEF Quiet

LEMMA DeadStep ==
    ASSUME Typed, LockInv, Next, NEW e \in Ends, Dead(e)
    PROVE  Dead(e)'
<1>1. ASSUME NEW t \in Threads, Quiet(t)
      PROVE  Dead(e)'
  BY <1>1, DeadQuiet, Zenon
<1>2. ASSUME NEW t \in Threads, SendWrite(t) \/ RecvData(t)
      PROVE  Dead(e)'
  <2>1. call[t].pc \in {"send_write", "recv_data"} /\ Left(t) /\ UNCHANGED closed
    BY <1>2, Moving, Zenon DEF At, SendWrite, RecvData
  <2>2. call[t].pc \notin Closing
    BY <2>1, Spots, Zenon
  <2> QED
    BY <2>1, <2>2, DeadLeft, Zenon
<1>3. ASSUME NEW t \in Threads, SendFails(t)
      PROVE  Dead(e)'
  <2>1. Walked(t, "close_check") /\ UNCHANGED <<lock, closed>> /\ "close_check" \in Closing
    BY <1>3, SendFailsDeed, Spots, Zenon
  <2> QED
    BY <2>1, DeadClosing, Zenon
<1>4. ASSUME NEW t \in Threads, RecvLen(t)
      PROVE  Dead(e)'
  <2> DEFINE n == Head(wire[Peer(call[t].end)])
  <2>1. /\ call[t].pc = "recv_len" /\ UNCHANGED <<lock, closed>>
        /\ \/ Walked(t, "close_check")
           \/ Moved(t, "recv_data", call[t].end, call[t].msg, n)
    BY <1>4, RecvLenDeed, Zenon DEF At
  <2> HIDE DEF n
  <2>2. "close_check" \in Closing /\ call[t].pc \in Reading /\ call[t].pc \notin Closing
    BY <2>1, Spots, Zenon
  <2>3. CASE Walked(t, "close_check")
    BY <2>1, <2>2, <2>3, DeadClosing, Zenon
  <2>4. CASE Moved(t, "recv_data", call[t].end, call[t].msg, n)
    <3>1. Buried(t, "recv_data", call[t].end, e)
      BY <2>1, <2>2, Zenon DEF Buried
    <3> QED
      BY <2>4, <3>1, DeadKept, Zenon
  <2> QED
    BY <2>1, <2>3, <2>4, Zenon
<1>5. ASSUME NEW t \in Threads, CloseSet(t)
      PROVE  Dead(e)'
  <2>1. /\ Walked(t, "close_sock") /\ UNCHANGED lock /\ "close_sock" \in Closing
        /\ closed[e] => closed'[e]
    BY <1>5, Moving, CloseDeeds, Spots, Zenon
  <2> QED
    BY <2>1, DeadClosing, Zenon
<1>6. ASSUME NEW t \in Threads, CloseSock(t)
      PROVE  Dead(e)'
  <2>1. call[t].pc = "close_sock" /\ Left(t) /\ UNCHANGED closed
    BY <1>6, Moving, Zenon DEF At, CloseSock
  <2>2. closed[call[t].end]
    BY <2>1, Zenon DEF LockInv
  <2> QED
    BY <2>1, <2>2, DeadLeft, Zenon
<1>7. ASSUME NEW d \in Ends, Reset(d)
      PROVE  Dead(e)'
  <2>1. UNCHANGED <<closed, lock, call>>
    BY <1>7, ResetDeed, Zenon
  <2> QED
    BY <2>1, Zenon DEF Dead
<1> QED
  BY <1>1, <1>2, <1>3, <1>4, <1>5, <1>6, <1>7, Acts, Zenon DEF Loud

LEMMA CutStep ==
    ASSUME Typed, Next, NEW e \in Ends, Cut(e)
    PROVE  Cut(e)'
<1>1. PICK q \in Ends : q = Peer(e)
  BY Peers, Zenon
<1>2. ~sock[q] /\ wire[q] = <<>>
  BY <1>1, Zenon DEF Cut
<1>3. SUFFICES ~sock'[q] /\ wire'[q] = <<>>
  BY <1>1, Zenon DEF Cut
<1>4. ASSUME NEW t \in Threads, Quiet(t)
      PROVE  ~sock'[q] /\ wire'[q] = <<>>
  BY <1>2, <1>4, QuietActions, Zenon
<1>5. ASSUME NEW t \in Threads, SendWrite(t)
      PROVE  ~sock'[q] /\ wire'[q] = <<>>
  BY <1>2, <1>5, SendWriteDeed, Zenon DEF WireSet
<1>6. ASSUME NEW t \in Threads, SendFails(t)
      PROVE  ~sock'[q] /\ wire'[q] = <<>>
  BY <1>2, <1>6, SendFailsDeed, Zenon DEF WireSet
<1>7. ASSUME NEW t \in Threads, RecvLen(t)
      PROVE  ~sock'[q] /\ wire'[q] = <<>>
  <2>1. PICK p \in Ends : /\ wire[p] # <<>> /\ UNCHANGED sock
                          /\ \A d \in Ends : d # p => wire'[d] = wire[d]
    BY <1>7, RecvLenDeed, Zenon DEF WireSet
  <2> QED
    BY <1>2, <2>1, Zenon
<1>8. ASSUME NEW t \in Threads, RecvData(t)
      PROVE  ~sock'[q] /\ wire'[q] = <<>>
  <2>1. PICK p \in Ends : /\ UNCHANGED sock
                          /\ \E n \in 0 .. Len(wire[p]) :
                                WireSet(p, SubSeq(wire[p], n + 1, Len(wire[p])))
    BY <1>8, RecvDataDeed, Zenon
  <2>2. PICK n \in 0 .. Len(wire[p]) : WireSet(p, SubSeq(wire[p], n + 1, Len(wire[p])))
    BY <2>1, Zenon
  <2>3. CASE p = q
    <3>1. n = 0 /\ SubSeq(<<>>, 0 + 1, Len(<<>>)) = <<>>
      BY <1>2, <2>3
    <3> QED
      BY <1>2, <2>1, <2>2, <2>3, <3>1, Zenon DEF WireSet
  <2>4. CASE p # q
    BY <1>2, <2>1, <2>2, <2>4, Zenon DEF WireSet
  <2> QED
    BY <2>3, <2>4, Zenon
<1>9. ASSUME NEW t \in Threads, CloseSet(t) \/ CloseSock(t)
      PROVE  ~sock'[q] /\ wire'[q] = <<>>
  BY <1>2, <1>9, CloseDeeds, Zenon
<1>10. ASSUME NEW d \in Ends, Reset(d)
       PROVE  ~sock'[q] /\ wire'[q] = <<>>
  BY <1>2, <1>10, ResetDeed, Zenon DEF WireSet
<1> QED
  BY <1>4, <1>5, <1>6, <1>7, <1>8, <1>9, <1>10, Acts, Zenon DEF Loud

\* The reader of an end with something to read is in the frames.
LEMMA ReaderInFrames ==
    ASSUME LockInv, NEW e \in Ends, Dead(e) \/ Cut(e) \/ InFrames(e),
           NEW t \in Threads, call[t].pc \in Held, call[t].end = e, wire[Peer(e)] # <<>>
    PROVE  InFrames(e) /\ lock[e]["recv"] = t
<1>1. lock[e]["recv"] = t
  BY Zenon DEF LockInv
<1>2. call[t].pc \in Reading /\ call[t].pc \notin Closing
  BY Places, Spots, Zenon
<1>3. ~Dead(e)
  BY <1>1, <1>2, Zenon DEF Dead
<1>4. ~Cut(e)
  BY Zenon DEF Cut
<1> QED
  BY <1>1, <1>3, <1>4, Zenon

\* The parts of the stream towards an end.
LEMMA StreamParts ==
    ASSUME Typed, GotInv, NEW e \in Ends, NEW q \in Ends, q = Peer(e)
    PROVE  /\ wire[q] \in Seq(Nat) /\ sent[q] \in Seq(Message) /\ torn[q] \in BOOLEAN
           /\ Len(got[e]) \in 0 .. Len(sent[q])
<1>1. Messages \subseteq Message
  BY MessagesAssumption, Zenon
<1>2. sent[q] \in Seq(Messages) /\ wire[q] \in Seq(Nat) /\ torn[q] \in BOOLEAN
  BY Zenon DEF Typed
<1>3. sent[q] \in Seq(Message)
  BY <1>1, <1>2
<1> QED
  BY <1>2, <1>3, Zenon DEF GotInv

\* What RecvLen and RecvData find in the stream.
LEMMA ReadsLength ==
    ASSUME Typed, LockInv, GotInv, AlignInv, NEW t \in Threads, RecvLen(t),
           NEW e \in Ends, e = call[t].end, NEW q \in Ends, q = Peer(e)
    PROVE  /\ Stream(SubSeq(wire[q], 1 + 1, Len(wire[q])), sent[q], Len(got[e]), torn[q],
                     {wire[q][1]})
           /\ wire[q][1] # 0 /\ Pending(e) = {}
<1>1. call[t].pc = "recv_len" /\ wire[q] # <<>>
  BY RecvLenDeed, Zenon DEF At
<1>2. call[t].pc \in Held
  BY <1>1, Places, Zenon
<1>3. InFrames(e) /\ lock[e]["recv"] = t
  BY <1>1, <1>2, ReaderInFrames, Zenon DEF AlignInv
<1>4. Pending(e) = {}
  BY <1>1, <1>3, PendingHolder, Zenon
<1>5. Stream(wire[q], sent[q], Len(got[e]), torn[q], {})
  BY <1>3, <1>4, Zenon DEF InFrames
<1>6. /\ wire[q] \in Seq(Nat) /\ sent[q] \in Seq(Message) /\ torn[q] \in BOOLEAN
      /\ Len(got[e]) \in 0 .. Len(sent[q])
  BY StreamParts, Zenon
<1>7. PICK w \in Seq(Nat), ms \in Seq(Message), cut \in BOOLEAN :
          w = wire[q] /\ ms = sent[q] /\ cut = torn[q]
  BY <1>6, Zenon
<1>8. PICK g \in 0 .. Len(ms) : g = Len(got[e])
  BY <1>6, <1>7, Zenon
<1>9. Stream(w, ms, g, cut, {}) /\ w # <<>>
  BY <1>1, <1>5, <1>7, <1>8, Zenon
<1>10. Stream(SubSeq(w, 1 + 1, Len(w)), ms, g, cut, {w[1]}) /\ w[1] # 0
  BY <1>9, StreamLen, Zenon
<1> QED
  BY <1>4, <1>7, <1>8, <1>10, Zenon

LEMMA ReadsData ==
    ASSUME Typed, LockInv, GotInv, AlignInv, LenInv, NEW t \in Threads, RecvData(t),
           NEW e \in Ends, e = call[t].end, NEW q \in Ends, q = Peer(e), NEW n, n = call[t].len
    PROVE  /\ Len(got[e]) < Len(sent[q])
           /\ SubSeq(wire[q], 1, n) = serializeMessage(sent[q][Len(got[e]) + 1])
           /\ Stream(SubSeq(wire[q], n + 1, Len(wire[q])), sent[q], Len(got[e]) + 1, torn[q], {})
<1>1. call[t].pc = "recv_data" /\ n \in 0 .. Len(wire[q]) /\ n # 0
  BY RecvDataDeed, Zenon DEF At, LenInv
<1>2. /\ wire[q] \in Seq(Nat) /\ sent[q] \in Seq(Message) /\ torn[q] \in BOOLEAN
      /\ Len(got[e]) \in 0 .. Len(sent[q])
  BY StreamParts, Zenon
<1>3. wire[q] # <<>>
  BY <1>1, <1>2
<1>4. call[t].pc \in Held
  BY <1>1, Places, Zenon
<1>5. InFrames(e) /\ lock[e]["recv"] = t
  BY <1>3, <1>4, ReaderInFrames, Zenon DEF AlignInv
<1>6. Pending(e) = {n}
  BY <1>1, <1>5, PendingHolder, Zenon
<1>7. Stream(wire[q], sent[q], Len(got[e]), torn[q], {n})
  BY <1>5, <1>6, Zenon DEF InFrames
<1>8. PICK w \in Seq(Nat), ms \in Seq(Message), cut \in BOOLEAN :
          w = wire[q] /\ ms = sent[q] /\ cut = torn[q]
  BY <1>2, Zenon
<1>9. PICK g \in 0 .. Len(ms) : g = Len(got[e])
  BY <1>2, <1>8, Zenon
<1>10. PICK i \in 0 .. Len(w) : i = n
  BY <1>1, <1>8, Zenon
<1>11. Stream(w, ms, g, cut, {i})
  BY <1>7, <1>8, <1>9, <1>10, Zenon
<1>12. /\ g < Len(ms) /\ SubSeq(w, 1, i) = serializeMessage(ms[g + 1])
       /\ Stream(SubSeq(w, i + 1, Len(w)), ms, g + 1, cut, {})
  BY <1>11, StreamData, Zenon
<1> QED
  BY <1>8, <1>9, <1>10, <1>12, Zenon

\* A quiet step does not read, and leaves the data of a frame only by failing.
LEMMA QuietMoves ==
    ASSUME Typed, NEW t \in Threads, Quiet(t)
    PROVE  \E l, d, m, n : /\ Moved(t, l, d, m, n) /\ l # "recv_data"
                           /\ call[t].pc = "recv_data" => RecvFails(t)
BY Moving, Zenon DEF Quiet, Walked, Left, At

LEMMA LenStep ==
    ASSUME Typed, LockInv, GotInv, AlignInv, LenInv, [Next]_vars
    PROVE  LenInv'
<1>1. ASSUME NEW t \in Threads, NEW l, NEW d, NEW m, NEW n, Moved(t, l, d, m, n),
             l = "recv_data" => n # 0
      PROVE  LenInv'
  BY <1>1, Zenon DEF Moved, LenInv
<1>2. ASSUME NEW t \in Threads,
             Left(t) \/ Walked(t, "close_check") \/ Walked(t, "close_sock")
      PROVE  LenInv'
  BY <1>1, <1>2, Zenon DEF Left, Walked
<1>3. ASSUME NEW t \in Threads, Quiet(t)
      PROVE  LenInv'
  <2>1. PICK l, d, m, n : Moved(t, l, d, m, n) /\ l # "recv_data"
    BY <1>3, QuietMoves, Zenon
  <2> QED
    BY <1>1, <2>1, Zenon
<1>4. ASSUME NEW t \in Threads, RecvLen(t)
      PROVE  LenInv'
  <2>1. PICK e \in Ends, q \in Ends : e = call[t].end /\ q = Peer(e)
    BY <1>4, RecvLenDeed, Zenon
  <2>2. \/ Walked(t, "close_check")
        \/ Moved(t, "recv_data", e, call[t].msg, wire[q][1])
    BY <1>4, <2>1, RecvLenDeed, Zenon
  <2>3. wire[q][1] # 0
    BY <1>4, <2>1, ReadsLength, Zenon
  <2>4. CASE Walked(t, "close_check")
    BY <1>2, <2>4, Zenon
  <2>5. CASE Moved(t, "recv_data", e, call[t].msg, wire[q][1])
    BY <1>1, <2>3, <2>5, Zenon
  <2> QED
    BY <2>2, <2>4, <2>5, Zenon
<1>5. ASSUME NEW t \in Threads,
             SendWrite(t) \/ SendFails(t) \/ RecvData(t) \/ CloseSet(t) \/ CloseSock(t)
      PROVE  LenInv'
  <2>1. Left(t) \/ Walked(t, "close_check") \/ Walked(t, "close_sock")
    BY <1>5, Moving, Zenon
  <2> QED
    BY <1>2, <2>1, Zenon
<1>6. ASSUME NEW e \in Ends, Reset(e)
      PROVE  LenInv'
  BY <1>6, Zenon DEF Reset, LenInv
<1>7. CASE UNCHANGED vars
  BY <1>7, Zenon DEF vars, LenInv
<1> QED
  BY <1>3, <1>4, <1>5, <1>6, <1>7, Acts, Zenon DEF Loud

\* A step that neither writes, reads nor closes a socket, nor moves a reader,
\* leaves a stream as it was.
LEMMA StreamKept ==
    ASSUME NEW e \in Ends, InFrames(e), Pending(e)' = Pending(e), NEW q, q = Peer(e),
           wire'[q] = wire[q], sent'[q] = sent[q], torn'[q] = torn[q], got'[e] = got[e]
    PROVE  InFrames(e)'
BY Zenon DEF InFrames

\* A Recv that failed is the last one.
LEMMA ReadFailed ==
    ASSUME Typed, LockInv, NEW t \in Threads, call[t].pc \in Held, Walked(t, "close_check"),
           UNCHANGED lock, NEW e \in Ends, e = call[t].end
    PROVE  Dead(e)'
<1>1. lock'[e]["recv"] = t
  BY Zenon DEF LockInv
<1>2. call'[t].pc \in Closing
  BY Spots, Zenon DEF Walked, Moved
<1> QED
  BY <1>1, <1>2, Zenon DEF Dead

LEMMA StreamQuiet ==
    ASSUME Typed, LockInv, NEW e \in Ends, InFrames(e), NEW t \in Threads, Quiet(t)
    PROVE  Dead(e)' \/ InFrames(e)'
<1>1. UNCHANGED <<wire, sent, torn, got>>
  BY QuietActions, Zenon
<1>2. CASE RecvFails(t) /\ call[t].end = e
  <2>1. call[t].pc \in Held /\ Walked(t, "close_check") /\ UNCHANGED lock
    BY <1>2, Moving, Places, Zenon
  <2> QED
    BY <1>2, <2>1, ReadFailed, Zenon
<1>3. CASE ~(RecvFails(t) /\ call[t].end = e)
  <2>1. \E l, d, m, n : /\ Moved(t, l, d, m, n) /\ l # "recv_data"
                        /\ ~(call[t].pc = "recv_data" /\ call[t].end = e)
    BY <1>3, QuietMoves, Zenon
  <2>2. Pending(e)' = Pending(e)
    BY <2>1, PendingSame, Zenon
  <2> QED
    BY <1>1, <2>2, StreamKept, Zenon
<1> QED
  BY <1>2, <1>3, Zenon

\* The sender's side of a stream.
LEMMA StreamSends ==
    ASSUME Typed, TornInv, GotInv, NEW e \in Ends, InFrames(e),
           NEW t \in Threads, SendWrite(t) \/ SendFails(t)
    PROVE  InFrames(e)'
<1>1. PICK q \in Ends : q = Peer(e)
  BY Peers, Zenon
<1>0. /\ wire[q] \in Seq(Nat) /\ sent[q] \in Seq(Message)
      /\ Len(got[e]) \in 0 .. Len(sent[q])
  BY <1>1, StreamParts, Zenon
<1>a. PICK w \in Seq(Nat), ms \in Seq(Message) : w = wire[q] /\ ms = sent[q]
  BY <1>0, Zenon
<1>b. PICK g \in 0 .. Len(ms) : g = Len(got[e])
  BY <1>0, <1>a, Zenon
<1>2. w = wire[q] /\ ms = sent[q] /\ g = Len(got[e])
  BY <1>a, <1>b, Zenon
<1>3. got' = got /\ Pending(e)' = Pending(e)
  <2>1. /\ got' = got /\ call[t].pc = "send_write"
        /\ Left(t) \/ Walked(t, "close_check")
    BY SendWriteDeed, SendFailsDeed, Zenon DEF At
  <2>2. CASE Left(t)
    <3>1. Moved(t, "idle", "dialer", Invalid, 0)
      BY <2>2, Zenon DEF Left
    <3> QED
      BY <2>1, <3>1, PendingSame, Zenon
  <2>3. CASE Walked(t, "close_check")
    <3>1. Moved(t, "close_check", call[t].end, call[t].msg, call[t].len)
      BY <2>3, Zenon DEF Walked
    <3> QED
      BY <2>1, <3>1, PendingSame, Zenon
  <2> QED
    BY <2>1, <2>2, <2>3, Zenon
<1>4. PICK R : R = Pending(e) /\ Stream(w, ms, g, torn[q], R)
  BY <1>1, <1>2, Zenon DEF InFrames
<1>5. ASSUME NEW v, NEW ns, NEW cut, Stream(v, ns, g, cut, R),
             v = wire'[q], ns = sent'[q], cut = torn'[q]
      PROVE  InFrames(e)'
  BY <1>1, <1>2, <1>3, <1>4, <1>5, Zenon DEF InFrames
<1>6. torn \in [Ends -> BOOLEAN]
  BY Zenon DEF Typed
<1>7. CASE SendWrite(t)
  <2>1. PICK d \in Ends, m \in Message :
            /\ ~werr[d] /\ WireSet(d, wire[d] \o Frame(m)) /\ torn' = torn
            /\ sent'[d] = Append(sent[d], m)
            /\ \A p \in Ends : p # d => sent'[p] = sent[p]
    BY <1>7, SendWriteDeed, Zenon
  <2>2. CASE d = q
    <3>1. torn[q] = FALSE
      BY <1>6, <2>1, <2>2, Zenon DEF TornInv
    <3>2. Stream(w \o Frame(m), Append(ms, m), g, FALSE, R)
      BY <1>4, <3>1, StreamWrite, Zenon
    <3>3. /\ w \o Frame(m) = wire'[q] /\ Append(ms, m) = sent'[q] /\ FALSE = torn'[q]
      BY <1>2, <2>1, <2>2, <3>1, Zenon DEF WireSet
    <3> QED
      BY <1>5, <3>2, <3>3, Zenon
  <2>3. CASE d # q
    BY <1>1, <1>3, <2>1, <2>3, StreamKept, Zenon DEF WireSet
  <2> QED
    BY <2>2, <2>3, Zenon
<1>8. CASE SendFails(t)
  <2>1. sent' = sent
    BY <1>8, SendFailsDeed, Zenon
  <2>2. CASE UNCHANGED <<wire, torn>>
    BY <1>1, <1>3, <2>1, <2>2, StreamKept, Zenon
  <2>3. CASE ~UNCHANGED <<wire, torn>>
    <3>1. PICK d \in Ends, m \in Message :
              /\ ~werr[d] /\ torn' \in [Ends -> BOOLEAN] /\ torn'[d]
              /\ \E n \in 1 .. Len(Frame(m)) - 1 : WireSet(d, wire[d] \o SubSeq(Frame(m), 1, n))
              /\ \A p \in Ends : p # d => torn'[p] = torn[p]
      BY <1>8, <2>3, SendFailsDeed, Zenon
    <3>2. PICK n \in 1 .. Len(Frame(m)) - 1 : WireSet(d, wire[d] \o SubSeq(Frame(m), 1, n))
      BY <3>1, Zenon
    <3>3. CASE d = q
      <4>1. torn[q] = FALSE /\ torn'[q] = TRUE
        BY <1>6, <3>1, <3>3, Zenon DEF TornInv
      <4>2. Stream(w \o SubSeq(Frame(m), 1, n), ms, g, TRUE, R)
        BY <1>4, <4>1, StreamTear, Zenon
      <4>3. w \o SubSeq(Frame(m), 1, n) = wire'[q] /\ ms = sent'[q] /\ TRUE = torn'[q]
        BY <1>2, <2>1, <3>2, <3>3, <4>1, Zenon DEF WireSet
      <4> QED
        BY <1>5, <4>2, <4>3, Zenon
    <3>4. CASE d # q
      BY <1>1, <1>3, <2>1, <3>1, <3>2, <3>4, StreamKept, Zenon DEF WireSet
    <3> QED
      BY <3>3, <3>4, Zenon
  <2> QED
    BY <2>2, <2>3, Zenon
<1> QED
  BY <1>7, <1>8, Zenon

\* The reader's side of a stream.
LEMMA StreamReads ==
    ASSUME Typed, LockInv, GotInv, AlignInv, LenInv, NEW e \in Ends, InFrames(e),
           NEW t \in Threads, RecvLen(t) \/ RecvData(t)
    PROVE  Dead(e)' \/ InFrames(e)'
<1>1. PICK q \in Ends : q = Peer(e)
  BY Peers, Zenon
<1>2. PICK d \in Ends : d = call[t].end
  BY Zenon DEF Typed, Calls
<1>3. PICK p \in Ends : p = Peer(d)
  BY Peers, Zenon
<1>4. d # e => p # q
  BY <1>1, <1>3, Peers, Zenon
<1>5. sent' = sent /\ torn' = torn
  BY RecvLenDeed, RecvDataDeed, Zenon
<1>6. CASE d # e
  <2>1. wire'[q] = wire[q]
    BY <1>2, <1>3, <1>4, <1>6, RecvLenDeed, RecvDataDeed, Zenon DEF WireSet
  <2>2. got'[e] = got[e]
    <3>1. CASE RecvLen(t)
      BY <3>1, RecvLenDeed, Zenon
    <3>2. CASE RecvData(t)
      <4>1. PICK x : got' = [got EXCEPT ![d] = x]
        BY <1>2, <3>2, Zenon DEF RecvData
      <4> QED
        BY <1>6, <4>1, Zenon DEF GotInv
    <3> QED
      BY <3>1, <3>2, Zenon
  <2>3. Pending(e)' = Pending(e)
    <3>1. \E l, m, n : Moved(t, l, d, m, n) \/ (l # "recv_data" /\ \E c : Moved(t, l, c, m, n))
      BY <1>2, RecvLenDeed, RecvDataDeed, Zenon DEF Left, Walked
    <3> QED
      BY <1>2, <1>6, <3>1, PendingSame, Zenon
  <2> QED
    BY <1>1, <1>5, <2>1, <2>2, <2>3, StreamKept, Zenon
<1>7. CASE d = e /\ RecvLen(t)
  <2>1. /\ call[t].pc \in Held /\ lock' = lock /\ got' = got
        /\ wire[q][1] = Head(wire[q])
        /\ wire'[q] = SubSeq(wire[q], 1 + 1, Len(wire[q]))
        /\ Walked(t, "close_check") \/ Moved(t, "recv_data", e, call[t].msg, wire[q][1])
    <3>1. /\ call[t].pc = "recv_len" /\ lock' = lock /\ got' = got
          /\ wire[q][1] = Head(wire[q])
          /\ WireSet(q, SubSeq(wire[q], 1 + 1, Len(wire[q])))
          /\ Walked(t, "close_check") \/ Moved(t, "recv_data", e, call[t].msg, Head(wire[q]))
      BY <1>1, <1>2, <1>7, RecvLenDeed, Zenon DEF At
    <3> QED
      BY <3>1, Places, Zenon DEF WireSet
  <2>2. CASE Walked(t, "close_check")
    BY <1>2, <1>7, <2>1, <2>2, ReadFailed, Zenon
  <2>3. CASE Moved(t, "recv_data", e, call[t].msg, wire[q][1])
    <3>1. /\ Stream(SubSeq(wire[q], 1 + 1, Len(wire[q])), sent[q], Len(got[e]), torn[q],
                    {wire[q][1]})
          /\ Pending(e) = {}
      BY <1>1, <1>2, <1>7, ReadsLength, Zenon
    <3>2. Pending(e)' = {wire[q][1]}
      <4>1. \A u \in Threads : call[u].pc = "recv_data" => call[u].end # e
        BY <3>1, Zenon DEF Pending
      <4>2. /\ call'[t].pc = "recv_data" /\ call'[t].end = e /\ call'[t].len = wire[q][1]
            /\ \A u \in Threads : u # t => call'[u] = call[u]
        BY <2>3, Zenon DEF Moved
      <4>3. \A u \in Threads : call'[u].pc = "recv_data" /\ call'[u].end = e <=> u = t
        BY <4>1, <4>2, Zenon
      <4> QED
        BY <4>2, <4>3, Zenon DEF Pending
    <3>3. Stream(wire'[q], sent'[q], Len(got'[e]), torn'[q], Pending(e)')
      BY <1>5, <2>1, <3>1, <3>2, Zenon
    <3> QED
      BY <1>1, <3>3, Zenon DEF InFrames
  <2> QED
    BY <2>1, <2>2, <2>3, Zenon
<1>8. CASE d = e /\ RecvData(t)
  <2>1. PICK n : n = call[t].len
    BY Zenon
  <2>2. /\ call[t].pc = "recv_data" /\ Left(t)
        /\ wire'[q] = SubSeq(wire[q], n + 1, Len(wire[q]))
    BY <1>1, <1>2, <1>8, <2>1, RecvDataDeed, Zenon DEF At, WireSet
  <2>3. PICK x : got' = [got EXCEPT ![e] = Append(got[e], x)]
    BY <1>2, <1>8, Zenon DEF RecvData
  <2>4. Len(got'[e]) = Len(got[e]) + 1
    <3>1. got'[e] = Append(got[e], x) /\ got[e] \in Seq(Message \cup {Invalid})
      BY <2>3, Zenon DEF GotInv
    <3> QED
      BY <3>1
  <2>5. Stream(SubSeq(wire[q], n + 1, Len(wire[q])), sent[q], Len(got[e]) + 1, torn[q], {})
    BY <1>1, <1>2, <1>8, <2>1, ReadsData, Zenon
  <2>6. Pending(e)' = {}
    <3>1. ASSUME NEW u \in Threads
          PROVE  ~(call'[u].pc = "recv_data" /\ call'[u].end = e)
      <4>1. call'[t].pc = "idle" /\ \A v \in Threads : v # t => call'[v] = call[v]
        BY <2>2, Zenon DEF Left, Moved
      <4>2. lock[e]["recv"] = t
        <5>1. call[t].pc \in Held /\ call[t].end = e
          BY <1>2, <1>8, <2>2, Places, Zenon
        <5> QED
          BY <5>1, Zenon DEF LockInv
      <4>3. call[u].pc = "recv_data" /\ call[u].end = e => u = t
        BY <4>2, Places, Zenon DEF LockInv
      <4> QED
        BY <4>1, <4>3, Zenon
    <3> QED
      BY <3>1, Zenon DEF Pending
  <2>7. Stream(wire'[q], sent'[q], Len(got'[e]), torn'[q], Pending(e)')
    BY <1>5, <2>2, <2>4, <2>5, <2>6, Zenon
  <2> QED
    BY <1>1, <2>7, Zenon DEF InFrames
<1> QED
  BY <1>6, <1>7, <1>8, Zenon

LEMMA AlignStep ==
    ASSUME Typed, TornInv, LockInv, GotInv, AlignInv, LenInv, [Next]_vars
    PROVE  AlignInv'
<1>1. CASE UNCHANGED vars
  BY <1>1, Zenon DEF vars, AlignInv, Dead, Cut, InFrames, Pending
<1>2. CASE Next
  <2> SUFFICES ASSUME NEW e \in Ends
               PROVE  Dead(e)' \/ Cut(e)' \/ InFrames(e)'
    BY Zenon DEF AlignInv
  <2>1. CASE Dead(e)
    BY <1>2, <2>1, DeadStep, Zenon
  <2>2. CASE Cut(e)
    BY <1>2, <2>2, CutStep, Zenon
  <2>3. CASE InFrames(e)
    <3>1. ASSUME NEW t \in Threads, Quiet(t)
          PROVE  Dead(e)' \/ InFrames(e)'
      BY <2>3, <3>1, StreamQuiet, Zenon
    <3>2. ASSUME NEW t \in Threads, SendWrite(t) \/ SendFails(t)
          PROVE  InFrames(e)'
      BY <2>3, <3>2, StreamSends, Zenon
    <3>3. ASSUME NEW t \in Threads, RecvLen(t) \/ RecvData(t)
          PROVE  Dead(e)' \/ InFrames(e)'
      BY <2>3, <3>3, StreamReads, Zenon
    <3>4. ASSUME NEW t \in Threads, CloseSet(t) \/ CloseSock(t)
          PROVE  InFrames(e)'
      <4>1. /\ UNCHANGED <<wire, sent, torn, got>>
            /\ call[t].pc # "recv_data"
            /\ Left(t) \/ Walked(t, "close_sock")
        BY <3>4, Moving, CloseDeeds, Zenon DEF At
      <4>2. Pending(e)' = Pending(e)
        <5>1. CASE Left(t)
          <6>1. Moved(t, "idle", "dialer", Invalid, 0)
            BY <5>1, Zenon DEF Left
          <6> QED
            BY <4>1, <6>1, PendingSame, Zenon
        <5>2. CASE Walked(t, "close_sock")
          <6>1. Moved(t, "close_sock", call[t].end, call[t].msg, call[t].len)
            BY <5>2, Zenon DEF Walked
          <6> QED
            BY <4>1, <6>1, PendingSame, Zenon
        <5> QED
          BY <4>1, <5>1, <5>2, Zenon
      <4> QED
        BY <2>3, <4>1, <4>2, StreamKept, Zenon
    <3>5. ASSUME NEW d \in Ends, Reset(d)
          PROVE  Cut(e)' \/ InFrames(e)'
      <4>1. /\ ~sock[d] /\ WireSet(d, <<>>)
            /\ UNCHANGED <<call, sock, sent, got, torn>>
        BY <3>5, ResetDeed, Zenon
      <4>2. PICK q \in Ends : q = Peer(e)
        BY Peers, Zenon
      <4>3. CASE d = q
        BY <4>1, <4>2, <4>3, Zenon DEF Cut, WireSet
      <4>4. CASE d # q
        <5>1. wire'[q] = wire[q] /\ Pending(e)' = Pending(e)
          BY <4>1, <4>4, Zenon DEF WireSet, Pending
        <5> QED
          BY <2>3, <4>1, <4>2, <5>1, StreamKept, Zenon
      <4> QED
        BY <4>3, <4>4, Zenon
    <3> QED
      BY <1>2, <3>1, <3>2, <3>3, <3>4, <3>5, Acts, Zenon DEF Loud
  <2> QED
    BY <2>1, <2>2, <2>3, Zenon DEF AlignInv
<1> QED
  BY <1>1, <1>2, Zenon

\* What one Recv adds.
LEMMA GotReads ==
    ASSUME Typed, LockInv, GotInv, AlignInv, LenInv, NEW t \in Threads, RecvData(t)
    PROVE  /\ GotInv'
           /\ Len(got[call[t].end]) < Len(sent[Peer(call[t].end)])
<1>1. PICK e \in Ends, q \in Ends, n \in {call[t].len} :
          e = call[t].end /\ q = Peer(e) /\ n = call[t].len
  BY RecvDataDeed, Zenon
<1>2. /\ Len(got[e]) < Len(sent[q])
      /\ SubSeq(wire[q], 1, n) = serializeMessage(sent[q][Len(got[e]) + 1])
  BY <1>1, ReadsData, ZenonT(30)
<1>3. PICK g \in Nat, k \in Nat : g = Len(got[e]) /\ k = Len(sent[q]) /\ g < k
  <2>1. sent[q] \in Seq(Message) /\ Len(got[e]) \in 0 .. Len(sent[q])
    BY <1>1, StreamParts, Zenon
  <2>2. Len(got[e]) \in Nat /\ Len(sent[q]) \in Nat
    BY <2>1
  <2> QED
    BY <1>2, <2>2, Zenon
<1>4. PICK m : m = sent[q][g + 1]
  BY Zenon
<1>5. m \in Message
  <2>1. sent[q] \in Seq(Message)
    BY <1>1, StreamParts, Zenon
  <2>2. g + 1 \in 1 .. Len(sent[q])
    BY <1>3
  <2> QED
    BY <1>4, <2>1, <2>2, SeqElements, Zenon
<1>6. PICK x : x = deserializeMessage(serializeMessage(m))
  BY Zenon
<1>7. x \in Message \cup {Invalid}
  BY <1>5, <1>6, SerializedNoPanic, Zenon
<1>8. got' = [got EXCEPT ![e] = Append(got[e], x)] /\ sent' = sent
  <2>1. /\ got' = [got EXCEPT ![e] = Append(@, deserializeMessage(SubSeq(wire[q], 1, n)))]
        /\ sent' = sent
    BY <1>1, RecvDataDeed, Zenon
  <2>2. deserializeMessage(SubSeq(wire[q], 1, n)) = x
    BY <1>2, <1>3, <1>4, <1>6, Zenon
  <2> QED
    BY <2>1, <2>2, Zenon
<1>9. PICK h \in Seq(Message \cup {Invalid}) : h = got[e]
  BY Zenon DEF GotInv
<1>10. /\ Append(h, x) \in Seq(Message \cup {Invalid})
       /\ DOMAIN h = 1 .. g /\ DOMAIN Append(h, x) = 1 .. g + 1
       /\ \A i \in 1 .. g : Append(h, x)[i] = h[i]
       /\ Append(h, x)[g + 1] = x
       /\ Len(Append(h, x)) = g + 1
  BY <1>3, <1>7, <1>9
<1>11. got' \in [Ends -> Seq(Message \cup {Invalid})]
  BY <1>8, <1>9, <1>10, Zenon DEF GotInv
<1>12. Len(got'[e]) \in 0 .. Len(sent'[q])
  <2>1. got'[e] = Append(h, x)
    BY <1>8, <1>9, Zenon DEF GotInv
  <2>2. g + 1 \in 0 .. k
    BY <1>3
  <2> QED
    BY <1>3, <1>8, <1>10, <2>1, <2>2, Zenon
<1>13. ASSUME NEW i \in DOMAIN got'[e]
       PROVE  got'[e][i] = deserializeMessage(serializeMessage(sent'[q][i]))
  <2>1. got'[e] = Append(h, x)
    BY <1>8, <1>9, Zenon DEF GotInv
  <2>2. i \in 1 .. g \/ i = g + 1
    <3>1. i \in 1 .. g + 1
      BY <1>10, <1>13, <2>1, Zenon
    <3> QED
      BY <1>3, <3>1, SMTT(30)
  <2>3. CASE i \in 1 .. g
    <3>1. i \in DOMAIN got[e] /\ got'[e][i] = got[e][i]
      BY <1>9, <1>10, <2>1, <2>3, Zenon
    <3> QED
      BY <1>1, <1>8, <3>1, Zenon DEF GotInv
  <2>4. CASE i = g + 1
    BY <1>4, <1>6, <1>8, <1>10, <2>1, <2>4, Zenon
  <2> QED
    BY <2>2, <2>3, <2>4, Zenon
<1>14. ASSUME NEW d \in Ends
       PROVE  /\ Len(got'[d]) \in 0 .. Len(sent'[Peer(d)])
              /\ \A i \in DOMAIN got'[d] :
                    got'[d][i] = deserializeMessage(serializeMessage(sent'[Peer(d)][i]))
  <2>1. CASE d = e
    BY <1>1, <1>12, <1>13, <2>1, Zenon
  <2>2. CASE d # e
    <3>1. got'[d] = got[d]
      BY <1>8, <2>2, Zenon DEF GotInv
    <3> QED
      BY <1>8, <3>1, Zenon DEF GotInv
  <2> QED
    BY <2>1, <2>2, Zenon
<1> QED
  BY <1>1, <1>2, <1>11, <1>14, Zenon DEF GotInv

\* What one Send adds.
LEMMA GotSends ==
    ASSUME Typed, GotInv, NEW t \in Threads, SendWrite(t)
    PROVE  GotInv'
<1>1. PICK d \in Ends, m \in Message :
          /\ got' = got /\ sent'[d] = Append(sent[d], m)
          /\ \A p \in Ends : p # d => sent'[p] = sent[p]
  BY SendWriteDeed, Zenon
<1>2. ASSUME NEW e \in Ends
      PROVE  /\ Len(got[e]) \in 0 .. Len(sent'[Peer(e)])
             /\ \A i \in DOMAIN got[e] :
                   got[e][i] = deserializeMessage(serializeMessage(sent'[Peer(e)][i]))
  <2>1. PICK q \in Ends : q = Peer(e)
    BY Peers, Zenon
  <2>2. CASE q # d
    BY <1>1, <2>1, <2>2, Zenon DEF GotInv
  <2>3. CASE q = d
    <3>1. sent[q] \in Seq(Message) /\ Len(got[e]) \in 0 .. Len(sent[q])
      BY <2>1, StreamParts, Zenon
    <3>2. got[e] \in Seq(Message \cup {Invalid})
      BY Zenon DEF GotInv
    <3>3. PICK s \in Seq(Message), h \in Seq(Message \cup {Invalid}) : s = sent[q] /\ h = got[e]
      BY <3>1, <3>2, Zenon
    <3>4. /\ Len(h) \in 0 .. Len(Append(s, m))
          /\ \A i \in DOMAIN h : Append(s, m)[i] = s[i]
      BY <3>1, <3>3
    <3>5. sent'[q] = Append(s, m)
      BY <1>1, <2>3, <3>3, Zenon
    <3>6. \A i \in DOMAIN h : h[i] = deserializeMessage(serializeMessage(s[i]))
      BY <2>1, <3>3, Zenon DEF GotInv
    <3> QED
      BY <2>1, <3>3, <3>4, <3>5, <3>6, Zenon
  <2> QED
    BY <2>2, <2>3, Zenon
<1> QED
  BY <1>1, <1>2, Zenon DEF GotInv

LEMMA GotStep ==
    ASSUME Typed, LockInv, GotInv, AlignInv, LenInv, [Next]_vars
    PROVE  GotInv'
<1>1. CASE UNCHANGED vars
  BY <1>1, Zenon DEF vars, GotInv
<1>2. ASSUME NEW t \in Threads, Quiet(t)
      PROVE  GotInv'
  <2>1. UNCHANGED <<got, sent>>
    BY <1>2, QuietActions, Zenon
  <2> QED
    BY <2>1, Zenon DEF GotInv
<1>3. ASSUME NEW t \in Threads, SendFails(t) \/ RecvLen(t) \/ CloseSet(t) \/ CloseSock(t)
      PROVE  GotInv'
  <2>1. UNCHANGED <<got, sent>>
    BY <1>3, Zenon DEF SendFails, RecvLen, CloseSet, CloseSock, histVars
  <2> QED
    BY <2>1, Zenon DEF GotInv
<1>4. ASSUME NEW e \in Ends, Reset(e)
      PROVE  GotInv'
  <2>1. UNCHANGED <<got, sent>>
    BY <1>4, Zenon DEF Reset, histVars
  <2> QED
    BY <2>1, Zenon DEF GotInv
<1> QED
  BY <1>1, <1>2, <1>3, <1>4, GotReads, GotSends, Acts, Zenon DEF Loud

-----------------------------------------------------------------------------
(* The invariant, and what follows from it.                                *)

FlowInv == Typed /\ TornInv /\ LockInv /\ GotInv /\ AlignInv /\ LenInv

LEMMA FlowInit == Init => FlowInv
<1> SUFFICES ASSUME Init PROVE FlowInv
  OBVIOUS
<1>1. Typed
  BY TypedInit, Zenon
<1>2. TornInv
  BY Zenon DEF Init, TornInv
<1>3. \A t \in Threads : call[t].pc = "idle"
  BY Zenon DEF Init, NoCall
<1>4. \A e \in Ends : lock[e]["recv"] = NoThread
  BY Labels, Zenon DEF Init
<1>5. LockInv
  BY <1>3, <1>4, ThreadsAssumption, Places, Zenon DEF LockInv, Receiving
<1>6. GotInv
  <2>1. <<>> \in Seq(Message \cup {Invalid}) /\ Len(<<>>) \in 0 .. Len(<<>>) /\ DOMAIN <<>> = {}
    OBVIOUS
  <2> QED
    BY <2>1, Peers, Zenon DEF Init, GotInv
<1>7. LenInv
  BY <1>3, Zenon DEF LenInv
<1>8. AlignInv
  <2> SUFFICES ASSUME NEW e \in Ends PROVE InFrames(e)
    BY Zenon DEF AlignInv
  <2>1. Pending(e) = {}
    BY <1>3, Zenon DEF Pending
  <2>2. /\ wire[Peer(e)] = <<>> /\ sent[Peer(e)] = <<>> /\ got[e] = <<>>
        /\ torn[Peer(e)] = FALSE
    BY Peers, Zenon DEF Init
  <2>3. Len(<<>>) = 0
    OBVIOUS
  <2> QED
    BY <2>1, <2>2, <2>3, StreamStart, Zenon DEF InFrames
<1> QED
  BY <1>1, <1>2, <1>5, <1>6, <1>7, <1>8, Zenon DEF FlowInv

LEMMA FlowStep == FlowInv /\ [Next]_vars => FlowInv'
BY TypedStep, TornStep, LockStep, GotStep, AlignStep, LenStep, Zenon DEF FlowInv

\* What Recv returns is what the peer sent, in order and frame by frame: a
\* message whose names fit a byte comes back as it was, one that does not is
\* refused or mangled without shifting those behind it, and the decoder never
\* runs off the data, whatever the interleaving of Send, Recv, Close, timeouts
\* and resets.
THEOREM FramesStayAligned == Spec => []ReceivedAsSent
<1>1. FlowInv => ReceivedAsSent
  <2> SUFFICES ASSUME FlowInv, NEW e \in Ends, NEW i \in DOMAIN got[e]
               PROVE  /\ i <= Len(sent[Peer(e)])
                      /\ Fits(sent[Peer(e)][i]) => got[e][i] = sent[Peer(e)][i]
                      /\ got[e][i] # OutOfRange
    BY Zenon DEF ReceivedAsSent
  <2>1. Typed /\ GotInv
    BY Zenon DEF FlowInv
  <2>2. PICK q \in Ends : q = Peer(e)
    BY Peers, Zenon
  <2>3. sent[q] \in Seq(Message) /\ Len(got[e]) \in 0 .. Len(sent[q])
    BY <2>1, <2>2, StreamParts, Zenon
  <2>4. got[e] \in Seq(Message \cup {Invalid})
    BY <2>1, Zenon DEF GotInv
  <2>5. i \in 1 .. Len(sent[q]) /\ i <= Len(sent[q]) /\ got[e][i] \in Message \cup {Invalid}
    BY <2>3, <2>4
  <2>6. sent[q][i] \in Message
    BY <2>3, <2>5, SeqElements, Zenon
  <2>7. got[e][i] = deserializeMessage(serializeMessage(sent[q][i]))
    BY <2>1, <2>2, Zenon DEF GotInv
  <2>8. got[e][i] # OutOfRange
    BY <2>5, MessagesAssumption, Zenon
  <2>9. Fits(sent[q][i]) => got[e][i] = sent[q][i]
    BY <2>6, <2>7, RoundTrip, Zenon
  <2> QED
    BY <2>2, <2>5, <2>8, <2>9, Zenon
<1> QED
  BY <1>1, FlowInit, FlowStep, PTL DEF Spec

\* While the sender's socket is open, no message that Send has written is lost
\* between it and a waiting Recv: the cells that the Recv reads next are those of
\* the oldest message not received, for every number of goroutines and messages.
THEOREM SentReachesReader == Spec => []SentCanBeRead
<1>1. FlowInv => SentCanBeRead
  <2> SUFFICES ASSUME FlowInv, NEW t \in Threads, NEW e, e = call[t].end, NEW q, q = Peer(e),
                      sock[q], Len(got[e]) < Len(sent[q]), NEW m, m = sent[q][Len(got[e]) + 1],
                      call[t].pc \in {"recv_len", "recv_data"}
               PROVE  /\ call[t].pc = "recv_len" => Leads(Frame(m), wire[q])
                      /\ call[t].pc = "recv_data" => /\ call[t].len = Len(serializeMessage(m))
                                                     /\ Leads(serializeMessage(m), wire[q])
    BY Zenon DEF SentCanBeRead, At
  <2>1. Typed /\ LockInv /\ GotInv /\ AlignInv
    BY Zenon DEF FlowInv
  <2>2. e \in Ends /\ q \in Ends
    BY <2>1, Peers, Zenon DEF Typed, Calls
  <2>3. call[t].pc \in Held
    BY Zenon DEF Held
  <2>4. lock[e]["recv"] = t
    BY <2>1, <2>2, <2>3, Zenon DEF LockInv
  <2>5. InFrames(e)
    <3>1. call[t].pc \in Reading /\ call[t].pc \notin Closing
      BY <2>3, Places, Spots, Zenon
    <3>2. ~Dead(e)
      BY <2>4, <3>1, Zenon DEF Dead
    <3>3. ~Cut(e)
      BY Zenon DEF Cut
    <3> QED
      BY <2>1, <2>2, <3>2, <3>3, Zenon DEF AlignInv
  <2>6. /\ wire[q] \in Seq(Nat) /\ sent[q] \in Seq(Message) /\ torn[q] \in BOOLEAN
        /\ Len(got[e]) \in 0 .. Len(sent[q])
    BY <2>1, <2>2, StreamParts, Zenon
  <2>7. PICK w \in Seq(Nat), ms \in Seq(Message), cut \in BOOLEAN :
            w = wire[q] /\ ms = sent[q] /\ cut = torn[q]
    BY <2>6, Zenon
  <2>8. PICK g \in 0 .. Len(ms) : g = Len(got[e])
    BY <2>6, <2>7, Zenon
  <2>9. g < Len(ms) /\ m = ms[g + 1]
    BY <2>7, <2>8, Zenon
  <2>10. Stream(w, ms, g, cut, Pending(e))
    BY <2>5, <2>7, <2>8, Zenon DEF InFrames
  <2>11. CASE call[t].pc = "recv_len"
    <3>1. Pending(e) = {}
      BY <2>1, <2>2, <2>4, <2>11, PendingHolder, Zenon
    <3>2. Leads(Frame(m), w)
      BY <2>9, <2>10, <3>1, StreamLeads, Zenon
    <3> QED
      BY <2>7, <2>11, <3>2, Zenon
  <2>12. CASE call[t].pc = "recv_data"
    <3>1. Pending(e) = {call[t].len}
      BY <2>1, <2>2, <2>4, <2>12, PendingHolder, Zenon
    <3>2. call[t].len = Len(serializeMessage(m)) /\ Leads(serializeMessage(m), w)
      <4>1. PICK n : n = call[t].len
        BY Zenon
      <4>2. Stream(w, ms, g, cut, {n})
        BY <2>10, <3>1, <4>1, Zenon
      <4>3. n = Len(serializeMessage(m)) /\ Leads(serializeMessage(m), w)
        BY <2>9, <4>2, StreamLeads, Zenon
      <4> QED
        BY <4>1, <4>3, Zenon
    <3> QED
      BY <2>7, <2>12, <3>2, Zenon
  <2> QED
    BY <2>11, <2>12, Zenon
<1> QED
  BY <1>1, FlowInit, FlowStep, PTL DEF Spec

-----------------------------------------------------------------------------
(* How many frames are written.                                            *)

INSTANCE FiniteSetTheorems

\* The goroutines that are in a call of Send.
Senders == {t \in Threads : call[t].pc \in SendPC}

\* Each call of Send writes one frame at most, and has been counted.
CountInv == Len(sent["dialer"]) + Len(sent["acceptor"]) + Cardinality(Senders) <= sends

\* The frames written, and the calls of Send under way, are numbers.
LEMMA Counts ==
    ASSUME Typed
    PROVE  /\ Len(sent["dialer"]) \in Nat /\ Len(sent["acceptor"]) \in Nat
           /\ IsFiniteSet(Senders) /\ Cardinality(Senders) \in Nat /\ sends \in Nat
<1>1. sent["dialer"] \in Seq(Messages) /\ sent["acceptor"] \in Seq(Messages)
  BY Zenon DEF Typed, Ends
<1>2. Senders \subseteq Threads
  BY Zenon DEF Senders
<1>3. IsFiniteSet(Senders)
  BY <1>2, ThreadsAssumption, FS_Subset, Zenon
<1>4. Cardinality(Senders) \in Nat
  BY <1>3, FS_CardinalityType, Zenon
<1>5. sends \in 0 .. MaxSends
  BY Zenon DEF Typed
<1> QED
  BY <1>1, <1>3, <1>4, <1>5, SMTT(30)

\* A step that begins no Send.
LEMMA FewerSenders ==
    ASSUME Typed, NEW t \in Threads, NEW l, NEW d, NEW m, NEW n, Moved(t, l, d, m, n),
           l \in SendPC => call[t].pc \in SendPC
    PROVE  /\ Senders' \subseteq Senders
           /\ l \notin SendPC => t \notin Senders'
<1>1. call'[t].pc = l /\ \A u \in Threads : u # t => call'[u] = call[u]
  BY Zenon DEF Moved
<1>2. ASSUME NEW u \in Senders'
      PROVE  u \in Senders
  <2>1. CASE u = t
    BY <1>1, <1>2, <2>1, Zenon DEF Senders
  <2>2. CASE u # t
    BY <1>1, <1>2, <2>2, Zenon DEF Senders
  <2> QED
    BY <2>1, <2>2, Zenon
<1> QED
  BY <1>1, <1>2, Zenon DEF Senders

LEMMA CountKept ==
    ASSUME Typed, CountInv, Senders' \subseteq Senders, UNCHANGED sent,
           sends' = sends \/ sends' = sends + 1
    PROVE  CountInv'
<1>1. Cardinality(Senders') \in Nat /\ Cardinality(Senders') <= Cardinality(Senders)
  BY Counts, FS_Subset, FS_CardinalityType, Zenon
<1>2. PICK a \in Nat, b \in Nat, c \in Nat, c1 \in Nat, s \in Nat :
          /\ a = Len(sent["dialer"]) /\ b = Len(sent["acceptor"])
          /\ c = Cardinality(Senders) /\ c1 = Cardinality(Senders') /\ s = sends
  BY <1>1, Counts, Zenon
<1>3. a + b + c <= s /\ c1 <= c
  BY <1>1, <1>2, Zenon DEF CountInv
<1>4. a + b + c1 <= s /\ a + b + c1 <= s + 1
  BY <1>3
<1> QED
  BY <1>2, <1>4, Zenon DEF CountInv

LEMMA CountStep ==
    ASSUME Typed, CountInv, [Next]_vars
    PROVE  CountInv'
<1>1. CASE UNCHANGED vars
  BY <1>1, Zenon DEF vars, CountInv, Senders
<1>2. ASSUME NEW t \in Threads, NEW e \in Ends, NEW m \in Messages, CallSend(t, e, m)
      PROVE  CountInv'
  <2>1. /\ call[t].pc = "idle" /\ Moved(t, "send_check", e, m, 0)
        /\ sends' = sends + 1 /\ sent' = sent
    BY <1>2, Moving, Zenon DEF At, CallSend
  <2>2. Senders' = Senders \cup {t}
    <3>1. /\ call'[t].pc \in SendPC /\ \A u \in Threads : u # t => call'[u] = call[u]
      BY <2>1, Labels, Zenon DEF Moved
    <3> QED
      BY <3>1, Zenon DEF Senders
  <2>3. t \notin Senders
    BY <2>1, Labels, Zenon DEF Senders
  <2>4. Cardinality(Senders') = Cardinality(Senders) + 1
    BY <2>2, <2>3, Counts, FS_AddElement, Zenon
  <2>5. PICK a \in Nat, b \in Nat, c \in Nat, s \in Nat :
            /\ a = Len(sent["dialer"]) /\ b = Len(sent["acceptor"])
            /\ c = Cardinality(Senders) /\ s = sends
    BY Counts, Zenon
  <2>6. a + b + c <= s
    BY <2>5, Zenon DEF CountInv
  <2>7. a + b + (c + 1) <= s + 1
    BY <2>6
  <2> QED
    BY <2>1, <2>4, <2>5, <2>7, Zenon DEF CountInv
<1>3. ASSUME NEW t \in Threads, SendWrite(t)
      PROVE  CountInv'
  <2>1. PICK d \in Ends, m \in Messages :
            /\ call[t].pc = "send_write" /\ Left(t) /\ sent'[d] = Append(sent[d], m)
            /\ \A p \in Ends : p # d => sent'[p] = sent[p]
            /\ sends' = sends
    BY <1>3, SendWriteDeed, Zenon DEF At
  <2>2. t \in Senders
    BY <2>1, Labels, Zenon DEF Senders
  <2>3. Senders' = Senders \ {t}
    <3>1. "idle" \notin SendPC
      BY Zenon DEF SendPC
    <3>2. /\ call'[t].pc \notin SendPC /\ \A u \in Threads : u # t => call'[u] = call[u]
      BY <2>1, <3>1, Zenon DEF Left, Moved
    <3> QED
      BY <3>2, Zenon DEF Senders
  <2>4. Cardinality(Senders') = Cardinality(Senders) - 1
    BY <2>2, <2>3, Counts, FS_RemoveElement, Zenon
  <2>5. Len(sent'[d]) = Len(sent[d]) + 1
    <3>1. sent[d] \in Seq(Messages)
      BY Zenon DEF Typed
    <3>2. Len(Append(sent[d], m)) = Len(sent[d]) + 1
      BY <3>1, SMTT(30)
    <3> QED
      BY <2>1, <3>2, Zenon
  <2>6. PICK a \in Nat, b \in Nat, c \in Nat, s \in Nat :
            /\ a = Len(sent["dialer"]) /\ b = Len(sent["acceptor"])
            /\ c = Cardinality(Senders) /\ s = sends
    BY Counts, Zenon
  <2>7. a + b + c <= s
    BY <2>6, Zenon DEF CountInv
  <2>8. (a + 1) + b + (c - 1) <= s /\ a + (b + 1) + (c - 1) <= s
    BY <2>7
  <2>9. CASE d = "dialer"
    <3>1. Len(sent'["dialer"]) = a + 1 /\ Len(sent'["acceptor"]) = b
      BY <2>1, <2>5, <2>6, <2>9, Zenon DEF Ends
    <3> QED
      BY <2>1, <2>4, <2>6, <2>8, <3>1, Zenon DEF CountInv
  <2>10. CASE d = "acceptor"
    <3>1. Len(sent'["dialer"]) = a /\ Len(sent'["acceptor"]) = b + 1
      BY <2>1, <2>5, <2>6, <2>10, Zenon DEF Ends
    <3> QED
      BY <2>1, <2>4, <2>6, <2>8, <3>1, Zenon DEF CountInv
  <2> QED
    BY <2>9, <2>10, Zenon DEF Ends
<1>4. ASSUME NEW t \in Threads, Quiet(t), ~\E e \in Ends, m \in Messages : CallSend(t, e, m)
      PROVE  CountInv'
  <2>1. \E l, d, m, n : Moved(t, l, d, m, n) /\ (l \in SendPC => call[t].pc \in SendPC)
    <3>1. /\ "idle" \notin SendPC /\ "recv_check" \notin SendPC /\ "recv_lock" \notin SendPC
          /\ "recv_len" \notin SendPC /\ "close_lock" \notin SendPC
          /\ "close_check" \notin SendPC /\ "close_set" \notin SendPC
          /\ "send_check" \in SendPC /\ "send_lock" \in SendPC
      BY Zenon DEF SendPC
    <3> QED
      BY <1>4, <3>1, Moving, Zenon DEF Quiet, Walked, Left, At
  <2>2. Senders' \subseteq Senders
    BY <2>1, FewerSenders, Zenon
  <2>3. UNCHANGED sent /\ (sends' = sends \/ sends' = sends + 1)
    BY <1>4, QuietActions, Zenon
  <2> QED
    BY <2>2, <2>3, CountKept, Zenon
<1>5. ASSUME NEW t \in Threads, SendFails(t) \/ RecvLen(t) \/ RecvData(t) \/ CloseSet(t) \/ CloseSock(t)
      PROVE  CountInv'
  <2>1. UNCHANGED <<sent, sends>>
    BY <1>5, Zenon DEF SendFails, RecvLen, RecvData, CloseSet, CloseSock, histVars
  <2>2. /\ "idle" \notin SendPC /\ "close_check" \notin SendPC /\ "close_sock" \notin SendPC
        /\ "recv_data" \notin SendPC
    BY Zenon DEF SendPC
  <2>3. \E l, d, m, n : Moved(t, l, d, m, n) /\ (l \in SendPC => call[t].pc \in SendPC)
    BY <1>5, <2>2, Moving, Zenon DEF Walked, Left
  <2>4. Senders' \subseteq Senders
    BY <2>3, FewerSenders, Zenon
  <2> QED
    BY <2>1, <2>4, CountKept, Zenon
<1>6. ASSUME NEW e \in Ends, Reset(e)
      PROVE  CountInv'
  BY <1>6, Zenon DEF Reset, histVars, CountInv, Senders
<1> QED
  BY <1>1, <1>2, <1>3, <1>4, <1>5, <1>6, Acts, Zenon DEF Loud, Quiet

\* The whole invariant.
ConnInv == FlowInv /\ CountInv

LEMMA ConnInit == Init => ConnInv
<1> SUFFICES ASSUME Init PROVE CountInv
  BY FlowInit, Zenon DEF ConnInv
<1>1. \A t \in Threads : call[t].pc = "idle"
  BY Zenon DEF Init, NoCall
<1>2. Senders = {}
  BY <1>1, Labels, Zenon DEF Senders
<1>3. sent["dialer"] = <<>> /\ sent["acceptor"] = <<>> /\ sends = 0
  BY Zenon DEF Init, Ends
<1>4. Cardinality({}) = 0
  BY FS_EmptySet, Zenon
<1>5. Len(<<>>) + Len(<<>>) + 0 <= 0
  OBVIOUS
<1> QED
  BY <1>2, <1>3, <1>4, <1>5, Zenon DEF CountInv

LEMMA ConnStep == ConnInv /\ [Next]_vars => ConnInv'
BY FlowStep, CountStep, Zenon DEF ConnInv, FlowInv

\* No more frames are written or read than Send was called.
LEMMA Bounded ==
    ASSUME ConnInv, NEW e \in Ends
    PROVE  /\ Len(sent[e]) \in 0 .. MaxSends
           /\ Len(got[e]) \in 0 .. MaxSends /\ Len(got[e]) <= Len(sent[Peer(e)])
           /\ Len(got[e]) \in Nat /\ Len(sent[e]) \in Nat
<1>1. ASSUME NEW d \in Ends
      PROVE  Len(sent[d]) \in 0 .. MaxSends
  <2>1. PICK a \in Nat, b \in Nat, c \in Nat, s \in Nat :
            /\ a = Len(sent["dialer"]) /\ b = Len(sent["acceptor"])
            /\ c = Cardinality(Senders) /\ s = sends
    BY Counts, Zenon DEF ConnInv, FlowInv
  <2>2. a + b + c <= s /\ s \in 0 .. MaxSends
    BY <2>1, Zenon DEF ConnInv, FlowInv, CountInv, Typed
  <2>3. a \in 0 .. MaxSends /\ b \in 0 .. MaxSends
    BY <2>2, SizesAssumption
  <2> QED
    BY <2>1, <2>3, Zenon DEF Ends
<1>2. PICK k \in 0 .. MaxSends : k = Len(sent[Peer(e)])
  BY <1>1, Peers, Zenon
<1>3. Len(got[e]) \in 0 .. k
  BY <1>2, Zenon DEF ConnInv, FlowInv, GotInv
<1>4. Len(got[e]) \in 0 .. MaxSends /\ Len(got[e]) <= k /\ Len(got[e]) \in Nat
  BY <1>3, SizesAssumption, SMTT(30)
<1>5. Len(sent[e]) \in 0 .. MaxSends /\ Len(sent[e]) \in Nat
  <2>1. PICK i \in 0 .. MaxSends : i = Len(sent[e])
    BY <1>1, Zenon
  <2> QED
    BY <2>1, SizesAssumption
<1> QED
  BY <1>2, <1>4, <1>5, Zenon

\* The variables keep their types: in particular no Recv accepts a length
\* beyond the MaxMessageSize of its end, and no end hands out more messages
\* than Send was called.
THEOREM TypeCorrect == Spec => []TypeOK
<1>1. ConnInv => TypeOK
  <2> SUFFICES ASSUME ConnInv PROVE TypeOK
    OBVIOUS
  <2>1. \A e \in Ends : Len(got[e]) <= MaxSends
    <3> SUFFICES ASSUME NEW e \in Ends PROVE Len(got[e]) <= MaxSends
      OBVIOUS
    <3>1. PICK i \in 0 .. MaxSends : i = Len(got[e])
      BY Bounded, Zenon
    <3> QED
      BY <3>1, SizesAssumption
  <2> QED
    BY <2>1, Zenon DEF ConnInv, FlowInv, Typed, TypeOK, Calls, PCs, LockType
<1> QED
  BY <1>1, ConnInit, ConnStep, PTL DEF Spec

-----------------------------------------------------------------------------
(* What the release of every call rests on: no cycle of threads waiting    *)
(* for locks, and no flag left set by a thread that will not close the     *)
(* socket.                                                                 *)

\* Where a thread may hold a lock.  None of the labels waits for one.
Busy == {"send_write"} \cup Held \cup Closing

\* A thread holds at most one lock, of the end its call is on, and does not
\* wait for another while it holds it.
NoHoldAndWait ==
    \A e \in Ends, k \in Locks, t \in Threads :
        lock[e][k] = t =>
            /\ call[t].end = e /\ call[t].pc \in Busy
            /\ \A d \in Ends, j \in Locks : lock[d][j] = t => d = e /\ j = k

\* While the flag of an end is set and its socket open, a thread is about to
\* close the socket.
FlagHasCloser ==
    \A e \in Ends : closed[e] /\ sock[e] =>
        \E t \in Threads : call[t].pc = "close_sock" /\ call[t].end = e

LEMMA BusyLabels ==
    /\ {"idle", "send_check", "send_lock", "recv_check", "recv_lock", "close_lock"} \cap Busy = {}
    /\ Busy = {"send_write", "recv_len", "recv_data", "close_check", "close_set", "close_sock"}
BY Zenon DEF Busy, Held, Closing

\* The three ways of moving a thread: it leaves its call; it moves on and
\* keeps the locks it has; it takes a lock when it had none.
LEMMA HoldLeft ==
    ASSUME NoHoldAndWait, NEW t \in Threads, Left(t)
    PROVE  NoHoldAndWait'
<1>1. \A u \in Threads : u # t => call'[u] = call[u]
  BY Zenon DEF Left, Moved
<1>2. \A e \in Ends, k \in Locks, u \in Threads :
          lock'[e][k] = u => u # t /\ lock[e][k] = u
  BY ThreadsAssumption, Zenon DEF Left, Freed
<1>3. ASSUME NEW e \in Ends, NEW k \in Locks, NEW u \in Threads, lock'[e][k] = u
      PROVE  /\ call'[u].end = e /\ call'[u].pc \in Busy
             /\ \A d \in Ends, j \in Locks : lock'[d][j] = u => d = e /\ j = k
  <2>1. u # t /\ lock[e][k] = u
    BY <1>2, <1>3, Zenon
  <2>2. /\ call[u].end = e /\ call[u].pc \in Busy
        /\ \A d \in Ends, j \in Locks : lock[d][j] = u => d = e /\ j = k
    BY <2>1, SMTT(30) DEF NoHoldAndWait
  <2>3. \A d \in Ends, j \in Locks : lock'[d][j] = u => d = e /\ j = k
    BY <1>2, <2>2, SMTT(30)
  <2> QED
    BY <1>1, <2>1, <2>2, <2>3, Zenon
<1> QED
  BY <1>3, Zenon DEF NoHoldAndWait

LEMMA HoldKept ==
    ASSUME NoHoldAndWait, NEW t \in Threads, NEW l, NEW d, NEW m, NEW n,
           Moved(t, l, d, m, n), UNCHANGED lock,
           call[t].pc \in Busy => l \in Busy /\ d = call[t].end
    PROVE  NoHoldAndWait'
<1>1. /\ call'[t].pc = l /\ call'[t].end = d
      /\ \A u \in Threads : u # t => call'[u] = call[u]
  BY Zenon DEF Moved
<1>2. ASSUME NEW e \in Ends, NEW k \in Locks, NEW u \in Threads, lock'[e][k] = u
      PROVE  /\ call'[u].end = e /\ call'[u].pc \in Busy
             /\ \A c \in Ends, j \in Locks : lock'[c][j] = u => c = e /\ j = k
  <2>1. lock[e][k] = u
    BY <1>2, Zenon
  <2>2. /\ call[u].end = e /\ call[u].pc \in Busy
        /\ \A c \in Ends, j \in Locks : lock[c][j] = u => c = e /\ j = k
    BY <2>1 DEF NoHoldAndWait
  <2>3. call'[u].end = e /\ call'[u].pc \in Busy
    <3>1. CASE u = t
      BY <1>1, <2>2, <3>1, Zenon
    <3>2. CASE u # t
      BY <1>1, <2>2, <3>2, Zenon
    <3> QED
      BY <3>1, <3>2, Zenon
  <2> QED
    BY <2>2, <2>3, Zenon
<1> QED
  BY <1>2, Zenon DEF NoHoldAndWait

LEMMA HoldTaken ==
    ASSUME NoHoldAndWait, NEW t \in Threads, NEW l \in Busy, NEW k \in Locks,
           Walked(t, l), Seized(t, k), call[t].pc \notin Busy
    PROVE  NoHoldAndWait'
<1>1. /\ call'[t].pc = l /\ call'[t].end = call[t].end
      /\ \A u \in Threads : u # t => call'[u] = call[u]
  BY Zenon DEF Walked, Moved
<1>2. \A e \in Ends, j \in Locks : lock[e][j] # t
  BY Zenon DEF NoHoldAndWait
<1>3. /\ lock'[call[t].end][k] = t
      /\ \A e \in Ends, j \in Locks :
            e # call[t].end \/ j # k => lock'[e][j] = lock[e][j]
  BY Zenon DEF Seized
<1>4. ASSUME NEW e \in Ends, NEW i \in Locks, NEW u \in Threads, lock'[e][i] = u
      PROVE  /\ call'[u].end = e /\ call'[u].pc \in Busy
             /\ \A c \in Ends, j \in Locks : lock'[c][j] = u => c = e /\ j = i
  <2>1. CASE u = t
    <3>1. \A c \in Ends, j \in Locks : lock'[c][j] = t => c = call[t].end /\ j = k
      BY <1>2, <1>3, Zenon
    <3>2. e = call[t].end /\ i = k
      BY <1>4, <2>1, <3>1, Zenon
    <3> QED
      BY <1>1, <2>1, <3>1, <3>2, Zenon
  <2>2. CASE u # t
    <3>1. \A c \in Ends, j \in Locks : lock'[c][j] = u => lock[c][j] = u
      BY <1>3, <2>2, Zenon
    <3>2. lock[e][i] = u
      BY <1>4, <3>1, Zenon
    <3>3. /\ call[u].end = e /\ call[u].pc \in Busy
          /\ \A c \in Ends, j \in Locks : lock[c][j] = u => c = e /\ j = i
      BY <3>2 DEF NoHoldAndWait
    <3> QED
      BY <1>1, <2>2, <3>1, <3>3, Zenon
  <2> QED
    BY <2>1, <2>2, Zenon
<1> QED
  BY <1>4, Zenon DEF NoHoldAndWait

LEMMA HoldQuiet ==
    ASSUME Typed, NoHoldAndWait, NEW t \in Threads, Quiet(t)
    PROVE  NoHoldAndWait'
<1>1. CASE Left(t)
  BY <1>1, HoldLeft, Zenon
<1>2. CASE \E e \in Ends : \/ \E m \in Messages : CallSend(t, e, m)
                           \/ CallRecv(t, e) \/ CallClose(t, e)
  <2>1. PICK e \in Ends, l \in {"send_check", "recv_check", "close_lock"},
             m \in Messages \cup {Invalid} :
            At(t, "idle") /\ Moved(t, l, e, m, 0) /\ UNCHANGED lock
    BY <1>2, Moving, Zenon
  <2>2. call[t].pc \notin Busy
    BY <2>1, BusyLabels, Zenon DEF At
  <2> QED
    BY <2>1, <2>2, HoldKept, Zenon
<1>3. CASE (SendCheck(t) \/ RecvCheck(t)) /\ ~Left(t)
  <2>1. PICK l : Walked(t, l) /\ UNCHANGED lock /\ call[t].pc \in {"send_check", "recv_check"}
    BY <1>3, Moving, Zenon DEF At
  <2>2. call[t].pc \notin Busy
    BY <2>1, BusyLabels, Zenon
  <2> QED
    BY <2>1, <2>2, HoldKept, Zenon DEF Walked
<1>4. CASE (SendLock(t) \/ RecvLock(t) \/ CloseLock(t)) /\ ~Left(t)
  <2>1. PICK l \in {"send_write", "recv_len", "close_set"}, k \in Locks :
            /\ Walked(t, l) /\ Seized(t, k)
            /\ call[t].pc \in {"send_lock", "recv_lock", "close_lock"}
    BY <1>4, Moving, Labels, Zenon DEF At
  <2>2. call[t].pc \notin Busy /\ l \in Busy
    BY <2>1, BusyLabels, Zenon
  <2> QED
    BY <2>1, <2>2, HoldTaken, Zenon
<1>5. CASE (RecvFails(t) \/ CloseCheck(t)) /\ ~Left(t)
  <2>1. PICK l \in {"close_check", "close_set"} : Walked(t, l) /\ UNCHANGED lock
    BY <1>5, Moving, Zenon
  <2>2. l \in Busy
    BY <2>1, BusyLabels, Zenon
  <2> QED
    BY <2>1, <2>2, HoldKept, Zenon DEF Walked
<1> QED
  BY <1>1, <1>2, <1>3, <1>4, <1>5, Zenon DEF Quiet

LEMMA HoldStep == Typed /\ NoHoldAndWait /\ [Next]_vars => NoHoldAndWait'
<1> SUFFICES ASSUME Typed, NoHoldAndWait, [Next]_vars PROVE NoHoldAndWait'
  OBVIOUS
<1>1. CASE UNCHANGED vars
  BY <1>1, SMTT(30) DEF vars, NoHoldAndWait
<1>2. ASSUME NEW t \in Threads, Quiet(t)
      PROVE  NoHoldAndWait'
  BY <1>2, HoldQuiet, Zenon
<1>3. ASSUME NEW t \in Threads, SendWrite(t) \/ RecvData(t) \/ CloseSock(t)
      PROVE  NoHoldAndWait'
  BY <1>3, Moving, HoldLeft, Zenon
<1>4. ASSUME NEW t \in Threads, SendFails(t) \/ RecvLen(t) \/ CloseSet(t)
      PROVE  NoHoldAndWait'
  <2>1. /\ UNCHANGED lock
        /\ \E n : \E l \in {"close_check", "recv_data", "close_sock"} :
              Moved(t, l, call[t].end, call[t].msg, n)
    BY <1>4, Moving, Zenon DEF Walked
  <2>2. \A l \in {"close_check", "recv_data", "close_sock"} : l \in Busy
    BY BusyLabels, Zenon
  <2> QED
    BY <2>1, <2>2, HoldKept, Zenon
<1>5. ASSUME NEW e \in Ends, Reset(e)
      PROVE  NoHoldAndWait'
  BY <1>5 DEF Reset, NoHoldAndWait
<1> QED
  BY <1>1, <1>2, <1>3, <1>4, <1>5, Acts, Zenon DEF Loud

\* Nobody waits for a lock of a connection while holding one, the close() of
\* a failed Send or Recv included, which runs with sendMu or recvMu held: the
\* goroutines of a connection cannot wait for each other in a circle.
THEOREM NoLockCycle == Spec => []NoHoldAndWait
<1>1. Init => NoHoldAndWait
  <2> SUFFICES ASSUME Init PROVE NoHoldAndWait
    OBVIOUS
  <2>1. \A e \in Ends, k \in Locks, t \in Threads : lock[e][k] # t
    BY ThreadsAssumption, Zenon DEF Init
  <2> QED
    BY <2>1, Zenon DEF NoHoldAndWait
<1> QED
  BY <1>1, TypedInit, TypedStep, HoldStep, PTL DEF Spec

-----------------------------------------------------------------------------
(* The flag and the socket.                                                *)

\* A step that takes no thread away from closing a socket.
LEMMA CloserKept ==
    ASSUME FlagHasCloser, NEW t \in Threads, NEW l, NEW d, NEW m, NEW n,
           Moved(t, l, d, m, n), UNCHANGED <<closed, sock>>, call[t].pc # "close_sock"
    PROVE  FlagHasCloser'
<1>1. \A u \in Threads : u # t => call'[u] = call[u]
  BY Zenon DEF Moved
<1> QED
  BY <1>1, Zenon DEF FlagHasCloser

\* The actions that only move a thread do not move one that is to close.
LEMMA QuietElsewhere ==
    ASSUME Typed, NEW t \in Threads, Quiet(t)
    PROVE  call[t].pc # "close_sock" /\ \E l, d, m, n : Moved(t, l, d, m, n)
<1>1. CASE \E e \in Ends : \/ \E m \in Messages : CallSend(t, e, m)
                           \/ CallRecv(t, e) \/ CallClose(t, e)
  BY <1>1, Moving, Zenon DEF At
<1>2. CASE SendCheck(t) \/ SendLock(t) \/ RecvCheck(t) \/ RecvLock(t)
  <2>1. /\ call[t].pc \in {"send_check", "send_lock", "recv_check", "recv_lock"}
        /\ Left(t) \/ \E l : Walked(t, l)
    BY <1>2, Moving, Zenon DEF At
  <2>2. call[t].pc # "close_sock"
    BY <2>1, SMTT(30)
  <2> QED
    BY <2>1, <2>2, Zenon DEF Left, Walked
<1>3. CASE RecvFails(t) \/ CloseLock(t) \/ CloseCheck(t)
  <2>1. /\ call[t].pc \in {"recv_len", "recv_data", "close_lock", "close_check"}
        /\ Left(t) \/ \E l : Walked(t, l)
    BY <1>3, Moving, Zenon DEF At
  <2>2. call[t].pc # "close_sock"
    BY <2>1
  <2> QED
    BY <2>1, <2>2, Zenon DEF Left, Walked
<1> QED
  BY <1>1, <1>2, <1>3, Zenon DEF Quiet

LEMMA CloserStep == Typed /\ FlagHasCloser /\ [Next]_vars => FlagHasCloser'
<1> SUFFICES ASSUME Typed, FlagHasCloser, [Next]_vars PROVE FlagHasCloser'
  OBVIOUS
<1>1. CASE UNCHANGED vars
  BY <1>1 DEF vars, FlagHasCloser
<1>2. ASSUME NEW t \in Threads, Quiet(t)
      PROVE  FlagHasCloser'
  <2>1. UNCHANGED <<closed, sock>>
    BY <1>2, QuietActions, Zenon
  <2> QED
    BY <1>2, <2>1, QuietElsewhere, CloserKept, Zenon
<1>3. ASSUME NEW t \in Threads, SendWrite(t) \/ SendFails(t) \/ RecvLen(t) \/ RecvData(t)
      PROVE  FlagHasCloser'
  <2>1. UNCHANGED <<closed, sock>>
    BY <1>3, Zenon DEF SendWrite, SendFails, RecvLen, RecvData
  <2>2. /\ call[t].pc \in {"send_write", "recv_len", "recv_data"}
        /\ \E l, d, m, n : Moved(t, l, d, m, n)
    BY <1>3, Moving, Zenon DEF At, Left, Walked
  <2>3. call[t].pc # "close_sock"
    BY <2>2, SMTT(30)
  <2> QED
    BY <2>1, <2>2, <2>3, CloserKept, Zenon
<1>4. ASSUME NEW t \in Threads, CloseSet(t)
      PROVE  FlagHasCloser'
  <2>1. /\ call[t].pc = "close_set" /\ call'[t].pc = "close_sock" /\ call'[t].end = call[t].end
        /\ \A u \in Threads : u # t => call'[u] = call[u]
    BY <1>4, Moving, Zenon DEF At, Walked, Moved
  <2>2. sock' = sock /\ \A e \in Ends : e # call[t].end => closed'[e] = closed[e]
    BY <1>4, Zenon DEF CloseSet, Typed
  <2>3. ASSUME NEW e \in Ends, closed'[e], sock'[e]
        PROVE  \E u \in Threads : call'[u].pc = "close_sock" /\ call'[u].end = e
    <3>1. CASE e = call[t].end
      BY <2>1, <3>1, Zenon
    <3>2. CASE e # call[t].end
      <4>1. PICK u \in Threads : call[u].pc = "close_sock" /\ call[u].end = e
        BY <2>2, <2>3, <3>2, Zenon DEF FlagHasCloser
      <4> QED
        BY <2>1, <3>2, <4>1, Zenon
    <3> QED
      BY <3>1, <3>2, Zenon
  <2> QED
    BY <2>3, Zenon DEF FlagHasCloser
<1>5. ASSUME NEW t \in Threads, CloseSock(t)
      PROVE  FlagHasCloser'
  <2>1. \A u \in Threads : u # t => call'[u] = call[u]
    BY <1>5, Moving, Zenon DEF Left, Moved
  <2>2. /\ closed' = closed /\ call[t].end \in Ends /\ ~sock'[call[t].end]
        /\ \A e \in Ends : ~sock[e] => ~sock'[e]
    BY <1>5, CloseDeeds, Zenon
  <2>3. ASSUME NEW e \in Ends, closed'[e], sock'[e]
        PROVE  \E u \in Threads : call'[u].pc = "close_sock" /\ call'[u].end = e
    <3>1. e # call[t].end /\ closed[e] /\ sock[e]
      BY <2>2, <2>3, Zenon
    <3>2. PICK u \in Threads : call[u].pc = "close_sock" /\ call[u].end = e
      BY <3>1, Zenon DEF FlagHasCloser
    <3> QED
      BY <2>1, <3>1, <3>2, Zenon
  <2> QED
    BY <2>3, Zenon DEF FlagHasCloser
<1>6. ASSUME NEW e \in Ends, Reset(e)
      PROVE  FlagHasCloser'
  BY <1>6, SMTT(30) DEF Reset, FlagHasCloser
<1> QED
  BY <1>1, <1>2, <1>3, <1>4, <1>5, <1>6, Acts, Zenon DEF Loud

\* Whoever sets c.closed is on the way to close the socket, so no call that
\* finds the flag set and returns leaves the socket open for good: neither a
\* second Close nor the close() of a call that fails meanwhile.
THEOREM FlagIsActedOn == Spec => []FlagHasCloser
<1>1. Init => FlagHasCloser
  BY Zenon DEF Init, FlagHasCloser
<1> QED
  BY <1>1, TypedInit, TypedStep, CloserStep, PTL DEF Spec
=============================================================================
