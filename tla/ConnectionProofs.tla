-------------------------- MODULE ConnectionProofs --------------------------
(***************************************************************************)
(* Proofs about Connection: the peer reads a gapless prefix of what the    *)
(* dispatcher wrote, a connection is closed once on all threads together,  *)
(* and the counts of addresses are exact, for any number of connections,   *)
(* addresses, limits and writes.                                           *)
(***************************************************************************)
EXTENDS Connection, FiniteSetTheorems, TLAPS

\* A message of numbered writes, in order and without a gap.
Words(m) ==
    /\ m # <<>> /\ m[1] > 0
    /\ \A n \in 1 .. Len(m) : m[n] = m[1] + (n - 1)

\* The number of its last write.
LastOf(m) == m[Len(m)]

\* The last write that was handed to the connection, sent or queued.
Top(q, w) == IF q = <<>> THEN Len(w) ELSE LastOf(q[Len(q)])

\* What is on the wire: numbered writes only, or a goodbye at the end.
Plain(w) == \A n \in 1 .. Len(w) : w[n] = n
OnWire(w) == \A n \in 1 .. Len(w) : w[n] = n \/ (w[n] = 0 /\ n = Len(w))

\* The queue: messages of consecutive numbers, a goodbye only at the end.
Queue(q, closed) ==
    /\ \A j \in 1 .. Len(q) : Words(q[j]) \/ (q[j] = Goodbye /\ j = Len(q) /\ closed)
    /\ \A j \in 1 .. Len(q) - 1 : Words(q[j + 1]) => q[j + 1][1] = LastOf(q[j]) + 1

\* Where the queue meets the wire: its head follows what is on the wire,
\* or is the end of it when the completion of its write is queued.
Seam(q, w, write) ==
    /\ q # <<>> /\ write # "written" =>
          Plain(w) /\ (Words(q[1]) => q[1][1] = Len(w) + 1)
    /\ q # <<>> /\ write = "written" /\ Words(q[1]) =>
          Plain(w) /\ Len(w) = LastOf(q[1])
    /\ write # "none" => q # <<>>

\* Where the buffer meets the queue, as long as the connection is not closed.
Buffer(b, q, w, written) ==
    /\ Plain(w)
    /\ b = <<>> => Top(q, w) = written
    /\ b # <<>> => Words(b) /\ b[1] = Top(q, w) + 1 /\ LastOf(b) = written

Orderly(k) ==
    /\ OnWire(k.wire)
    /\ Queue(k.messageQueue, k.closed)
    /\ Seam(k.messageQueue, k.wire, k.write)
    /\ ~k.closed => Buffer(k.outputBuffer, k.messageQueue, k.wire, k.written)

AllOrderly == \A c \in Conn : Orderly(conn[c])

\* A connection no peer was given to yet is as it was made.
Unborn ==
    \A c \in Conn :
        /\ conn[c].socket = "none" => conn[c] = Fresh /\ c \notin connections
        /\ port = c => conn[c] = [Fresh EXCEPT !.socket = "new"]

IInv == TypeOK /\ ClosedOnce /\ Unborn /\ AllOrderly

-----------------------------------------------------------------------------
(***************************************************************************)
(* One connection by itself.                                               *)
(***************************************************************************)
Released(k) ==
    /\ k.release = 1 => k.closed
    /\ k.closed /\ k.protocol => k.release = 1

Whole(k) == k \in Record /\ Released(k) /\ Orderly(k)

\* What a close asks of the connection: its buffer does not matter any more.
Sound(k) ==
    /\ k \in Record /\ Released(k)
    /\ OnWire(k.wire) /\ Queue(k.messageQueue, k.closed)
    /\ Seam(k.messageQueue, k.wire, k.write)

LEMMA WholeIsSound ==
    ASSUME NEW k
    PROVE  /\ Whole(k) => Sound(k)
           /\ Sound(k) /\ k.closed => Whole(k)
BY DEF Whole, Sound, Orderly

\* k and r differ only in their sockets, reads, timers and autosend.
SameOutput(k, r) ==
    /\ r.closed = k.closed /\ r.protocol = k.protocol /\ r.release = k.release
    /\ r.messageQueue = k.messageQueue /\ r.write = k.write /\ r.wire = k.wire
    /\ r.outputBuffer = k.outputBuffer /\ r.written = k.written

LEMMA SameWhole ==
    ASSUME NEW k, NEW r, Whole(k), r \in Record, SameOutput(k, r)
    PROVE  Whole(r)
BY DEF Whole, Released, Orderly, SameOutput

LEMMA CancelFields ==
    ASSUME NEW k \in Record, NEW t \in Timers
    PROVE  /\ Cancel(k, t) \in Record /\ SameOutput(k, Cancel(k, t))
           /\ Cancel(k, t).socket = k.socket /\ Cancel(k, t).trackedIp = k.trackedIp
           /\ Cancel(k, t).read = k.read
BY DEF Cancel, Record, SameOutput

LEMMA ArmFields ==
    ASSUME NEW k \in Record, NEW t \in Timers
    PROVE  /\ Arm(k, t) \in Record /\ SameOutput(k, Arm(k, t))
           /\ Arm(k, t).socket = k.socket /\ Arm(k, t).trackedIp = k.trackedIp
           /\ Arm(k, t).read = k.read
BY DEF Arm, Record, SameOutput

LEMMA CloseSocketFields ==
    ASSUME NEW k \in Record
    PROVE  /\ CloseSocket(k) \in Record /\ SameOutput(k, CloseSocket(k))
           /\ CloseSocket(k).trackedIp = k.trackedIp
           /\ k.socket # "none" => CloseSocket(k).socket # "none"
           /\ CloseSocket(k).read = k.read
BY DEF CloseSocket, Record, SameOutput

\* What a close makes of the connection.
ClosedFrom(k, r) ==
    /\ Whole(r) /\ r.closed /\ r.trackedIp = k.trackedIp
    /\ k.socket # "none" => r.socket # "none"

LEMMA CloseLockedWhole ==
    ASSUME NEW k, Sound(k), NEW force \in BOOLEAN
    PROVE  ClosedFrom(k, CloseLocked(k, force))
<1>1. CASE k.closed
  BY <1>1, WholeIsSound DEF CloseLocked, ClosedFrom
<1>2. CASE ~k.closed
  <2> DEFINE r == [k EXCEPT !.closed = TRUE, !.release = IF k.protocol THEN @ + 1 ELSE @]
  <2>1. k \in Record /\ k.release = 0
    BY <1>2 DEF Sound, Released, Record
  <2> DEFINE x == IF k.protocol THEN k.release + 1 ELSE k.release
  <2>a. x \in {0, 1}
    BY <2>1
  <2>b. r = [k EXCEPT !.closed = TRUE, !.release = x]
    OBVIOUS
  <2>2. r \in Record
    <3> HIDE DEF x
    <3> QED  BY <2>1, <2>a, <2>b DEF Record
  <2>3. /\ r.closed /\ r.protocol = k.protocol /\ r.messageQueue = k.messageQueue /\ r.write = k.write
        /\ r.wire = k.wire /\ r.trackedIp = k.trackedIp /\ r.socket = k.socket
        /\ r.release = IF k.protocol THEN 1 ELSE 0
    BY <2>1 DEF Record
  <2>4. Whole(r)
    BY <1>2, <2>2, <2>3 DEF Sound, Whole, Released, Orderly, Queue
  <2>5. Whole(CloseSocket(r)) /\ CloseSocket(r).closed
    <3> HIDE DEF r
    <3> QED  BY <2>2, <2>3, <2>4, CloseSocketFields, SameWhole DEF SameOutput
  <2>6. CloseLocked(k, force) \in {r, CloseSocket(r)}
    BY <1>2 DEF CloseLocked
  <2> HIDE DEF r
  <2>7. QED
    BY <2>2, <2>3, <2>4, <2>5, <2>6, CloseSocketFields DEF ClosedFrom
<1>3. QED
  BY <1>1, <1>2

-----------------------------------------------------------------------------
(***************************************************************************)
(* Queue, wire and buffer as sequences.                                    *)
(***************************************************************************)
LEMMA AppendFacts ==
    ASSUME NEW S, NEW s \in Seq(S), NEW e \in S
    PROVE  /\ Append(s, e) \in Seq(S) /\ Append(s, e) # <<>>
           /\ Len(s) \in Nat /\ Len(Append(s, e)) = Len(s) + 1
           /\ Append(s, e)[Len(s) + 1] = e
           /\ \A j \in 1 .. Len(s) : Append(s, e)[j] = s[j]
OBVIOUS

LEMMA TailFacts ==
    ASSUME NEW S, NEW s \in Seq(S), s # <<>>
    PROVE  /\ Tail(s) \in Seq(S) /\ Len(s) \in Nat /\ Len(s) >= 1 /\ Len(Tail(s)) = Len(s) - 1
           /\ \A j \in 1 .. Len(Tail(s)) : Tail(s)[j] = s[j + 1]
OBVIOUS

LEMMA EmptyIffNoLength == ASSUME NEW S, NEW s \in Seq(S) PROVE s = <<>> <=> Len(s) = 0
OBVIOUS

LEMMA WordsLast ==
    ASSUME NEW m \in Seq(Nat), Words(m)
    PROVE  LastOf(m) \in Nat /\ LastOf(m) = m[1] + Len(m) - 1 /\ Len(m) >= 1 /\ m[1] \in Nat
<1>1. Len(m) \in Nat /\ Len(m) >= 1
  BY DEF Words
<1>2. m[1] \in Nat /\ m[Len(m)] \in Nat
  BY <1>1
<1>3. m[Len(m)] = m[1] + (Len(m) - 1)
  BY <1>1 DEF Words
<1>4. QED
  BY <1>1, <1>2, <1>3 DEF LastOf

LEMMA GoodbyeIsNoWord == Goodbye \in Seq(Nat) /\ Goodbye # <<>> /\ Len(Goodbye) = 1 /\ Goodbye[1] = 0 /\ ~Words(Goodbye)
BY DEF Goodbye, Words

LEMMA OneWord ==
    ASSUME NEW n \in Nat, n > 0
    PROVE  /\ <<n>> \in Seq(Nat) /\ <<n>> # <<>> /\ <<n>>[1] = n /\ Words(<<n>>)
           /\ LastOf(<<n>>) = n
BY DEF Words, LastOf

LEMMA NextWord ==
    ASSUME NEW m \in Seq(Nat), Words(m), NEW n \in Nat, n = LastOf(m) + 1
    PROVE  /\ Append(m, n) \in Seq(Nat) /\ Append(m, n) # <<>> /\ Words(Append(m, n))
           /\ Append(m, n)[1] = m[1] /\ LastOf(Append(m, n)) = n
<1>1. Len(m) \in Nat /\ Len(m) >= 1 /\ m[1] \in Nat /\ n = m[1] + Len(m)
  BY WordsLast
<1> DEFINE a == Append(m, n)
<1>2. a \in Seq(Nat) /\ Len(a) = Len(m) + 1 /\ a[Len(a)] = n /\ \A i \in 1 .. Len(m) : a[i] = m[i]
  OBVIOUS
<1> HIDE DEF a
<1>3. a[1] = m[1] /\ a # <<>> /\ LastOf(a) = n
  BY <1>1, <1>2 DEF LastOf
<1>4. ASSUME NEW i \in 1 .. Len(a) PROVE a[i] = a[1] + (i - 1)
  <2>1. CASE i = Len(a)
    BY <1>1, <1>2, <1>3, <2>1
  <2>2. CASE i \in 1 .. Len(m)
    BY <1>1, <1>2, <1>3, <2>2 DEF Words
  <2>3. QED
    BY <1>1, <1>2, <2>1, <2>2
<1>5. QED
  BY <1>2, <1>3, <1>4 DEF Words, a

LEMMA QueueAppend ==
    ASSUME NEW q \in Seq(Seq(Nat)), NEW w \in Seq(Nat), NEW m \in Seq(Nat), NEW write, NEW closed,
           Plain(w), Queue(q, FALSE), Seam(q, w, write),
           \/ Words(m) /\ m[1] = Top(q, w) + 1
           \/ m = Goodbye /\ closed
    PROVE  /\ Append(q, m) \in Seq(Seq(Nat))
           /\ Queue(Append(q, m), closed)
           /\ Seam(Append(q, m), w, IF q = <<>> THEN "posted" ELSE write)
           /\ Top(Append(q, m), w) = LastOf(m)
<1> DEFINE p == Append(q, m)
<1>1. /\ p \in Seq(Seq(Nat)) /\ Len(p) = Len(q) + 1 /\ p[Len(p)] = m /\ Len(q) \in Nat
      /\ \A j \in 1 .. Len(q) : p[j] = q[j]
      /\ p # <<>>
  <2>1. \A S : \A t \in Seq(S), e \in S : Len(Append(t, e)) = Len(t) + 1 /\ Append(t, e)[Len(t) + 1] = e
    BY AppendFacts
  <2>2. Len(p) = Len(q) + 1 /\ p[Len(q) + 1] = m
    BY <2>1
  <2>3. QED
    BY <2>2, AppendFacts
<1>2. q = <<>> <=> Len(q) = 0
  BY EmptyIffNoLength
<1> HIDE DEF p
<1>3. Top(p, w) = LastOf(m)
  BY <1>1 DEF Top
<1>4. ASSUME NEW j \in 1 .. Len(p) PROVE Words(p[j]) \/ (p[j] = Goodbye /\ j = Len(p) /\ closed)
  <2>1. CASE j = Len(p)
    BY <1>1, <2>1
  <2>2. CASE j \in 1 .. Len(q)
    BY <1>1, <2>2 DEF Queue
  <2>3. QED
    BY <1>1, <2>1, <2>2
<1>5. ASSUME NEW j \in 1 .. Len(p) - 1, Words(p[j + 1]) PROVE p[j + 1][1] = LastOf(p[j]) + 1
  <2>1. CASE j = Len(q)
    <3>1. p[j + 1] = m /\ p[j] = q[Len(q)] /\ q # <<>>
      BY <1>1, <1>2, <2>1
    <3>2. m[1] = Top(q, w) + 1
      BY <1>5, <3>1, GoodbyeIsNoWord
    <3>3. QED
      BY <3>1, <3>2 DEF Top
  <2>2. CASE j \in 1 .. Len(q) - 1
    <3>1. j \in 1 .. Len(q) /\ j + 1 \in 1 .. Len(q)
      BY <1>1, <2>2
    <3>2. p[j] = q[j] /\ p[j + 1] = q[j + 1]
      BY <1>1, <3>1
    <3>3. \A i \in 1 .. Len(q) - 1 : Words(q[i + 1]) => q[i + 1][1] = LastOf(q[i]) + 1
      BY DEF Queue
    <3>4. QED
      BY <1>5, <2>2, <3>2, <3>3
  <2>3. QED
    BY <1>1, <2>1, <2>2
<1>6. Seam(p, w, IF q = <<>> THEN "posted" ELSE write)
  <2>1. CASE q = <<>>
    <3>1. p[1] = m /\ Top(q, w) = Len(w)
      BY <1>1, <1>2, <2>1 DEF Top
    <3>2. Words(p[1]) => p[1][1] = Len(w) + 1
      BY <3>1, GoodbyeIsNoWord
    <3>3. QED
      BY <1>1, <2>1, <3>2 DEF Seam
  <2>2. CASE q # <<>>
    <3>1. p[1] = q[1]
      BY <1>1, <1>2, <2>2
    <3>2. QED
      BY <1>1, <2>2, <3>1 DEF Seam
  <2>3. QED
    BY <2>1, <2>2
<1>7. QED
  BY <1>1, <1>3, <1>4, <1>5, <1>6 DEF Queue, p

LEMMA QueueTail ==
    ASSUME NEW q \in Seq(Seq(Nat)), NEW w \in Seq(Nat), NEW closed \in BOOLEAN,
           q # <<>>, Queue(q, closed), Seam(q, w, "written")
    PROVE  /\ Tail(q) \in Seq(Seq(Nat)) /\ Queue(Tail(q), closed)
           /\ Tail(q) # <<>> => Seam(Tail(q), w, "writing")
           /\ Tail(q) = <<>> => Seam(Tail(q), w, "none")
           /\ ~closed => Top(Tail(q), w) = Top(q, w)
<1> DEFINE p == Tail(q)
<1>1. /\ p \in Seq(Seq(Nat)) /\ Len(p) = Len(q) - 1 /\ Len(q) \in Nat /\ Len(q) >= 1
      /\ \A j \in 1 .. Len(p) : p[j] = q[j + 1]
  BY TailFacts
<1>2. p = <<>> <=> Len(p) = 0
  BY <1>1, EmptyIffNoLength
<1> HIDE DEF p
<1>3. ASSUME NEW j \in 1 .. Len(p) PROVE Words(p[j]) \/ (p[j] = Goodbye /\ j = Len(p) /\ closed)
  <2>1. p[j] = q[j + 1] /\ j + 1 \in 1 .. Len(q)
    BY <1>1
  <2>2. QED
    BY <1>1, <2>1 DEF Queue
<1>4. ASSUME NEW j \in 1 .. Len(p) - 1, Words(p[j + 1]) PROVE p[j + 1][1] = LastOf(p[j]) + 1
  <2>1. p[j] = q[j + 1] /\ p[j + 1] = q[j + 2] /\ j + 1 \in 1 .. Len(q) - 1 /\ j + 2 = (j + 1) + 1
    <3>1. j \in 1 .. Len(p) /\ j + 1 \in 1 .. Len(p) /\ (j + 1) + 1 = j + 2 /\ j + 1 \in 1 .. Len(q) - 1
      BY <1>1
    <3>2. p[j + 1] = q[(j + 1) + 1] /\ p[j] = q[j + 1]
      BY <1>1, <3>1
    <3>3. QED
      BY <3>1, <3>2
  <2>2. \A i \in 1 .. Len(q) - 1 : Words(q[i + 1]) => q[i + 1][1] = LastOf(q[i]) + 1
    BY DEF Queue
  <2>3. QED
    BY <1>4, <2>1, <2>2
<1>5. ASSUME p # <<>> PROVE Seam(p, w, "writing")
  <2>1. Len(q) >= 2 /\ p[1] = q[2]
    BY <1>1, <1>2, <1>5
  <2>2. Words(q[1])
    BY <1>1, <2>1 DEF Queue
  <2>3. Plain(w) /\ Len(w) = LastOf(q[1])
    BY <2>2 DEF Seam
  <2>4. Words(q[2]) => q[1 + 1][1] = LastOf(q[1]) + 1
    BY <1>1, <2>1 DEF Queue
  <2>5. QED
    BY <1>5, <2>1, <2>3, <2>4 DEF Seam
<1>6. ASSUME p = <<>> PROVE Seam(p, w, "none")
  BY <1>6 DEF Seam
<1>7. ASSUME ~closed PROVE Top(p, w) = Top(q, w)
  <2>1. CASE p = <<>>
    <3>1. Len(q) = 1 /\ Words(q[1])
      BY <1>1, <1>2, <1>7, <2>1 DEF Queue
    <3>2. Len(w) = LastOf(q[1])
      BY <3>1 DEF Seam
    <3>3. QED
      BY <2>1, <3>1, <3>2 DEF Top
  <2>2. CASE p # <<>>
    <3>1. Len(p) \in 1 .. Len(p) /\ Len(p) + 1 = Len(q) /\ q # <<>>
      BY <1>1, <1>2, <2>2
    <3>2. p[Len(p)] = q[Len(q)]
      BY <1>1, <3>1
    <3>3. QED
      BY <2>2, <3>1, <3>2 DEF Top
  <2>3. QED
    BY <2>1, <2>2
<1>8. QED
  BY <1>1, <1>3, <1>4, <1>5, <1>6, <1>7 DEF Queue, p

LEMMA WireGrows ==
    ASSUME NEW q \in Seq(Seq(Nat)), NEW w \in Seq(Nat), NEW closed \in BOOLEAN,
           q # <<>>, Queue(q, closed), Seam(q, w, "writing")
    PROVE  /\ w \o Head(q) \in Seq(Nat) /\ OnWire(w \o Head(q))
           /\ Seam(q, w \o Head(q), "written")
           /\ ~closed => Plain(w \o Head(q))
<1> DEFINE m == Head(q)
           v == w \o m
<1>1. m = q[1] /\ m \in Seq(Nat) /\ Len(q) >= 1 /\ Len(q) \in Nat
  OBVIOUS
<1> HIDE DEF m
<1>2. /\ v \in Seq(Nat) /\ Len(v) = Len(w) + Len(m) /\ Len(w) \in Nat /\ Len(m) \in Nat
      /\ \A i \in 1 .. Len(w) : v[i] = w[i]
      /\ \A i \in 1 .. Len(m) : v[Len(w) + i] = m[i]
  BY <1>1
<1> HIDE DEF v
<1>3. Plain(w)
  BY DEF Seam
<1>4. CASE Words(m)
  <2>1. m[1] = Len(w) + 1 /\ Len(m) >= 1
    BY <1>1, <1>4, WordsLast DEF Seam
  <2>2. ASSUME NEW i \in 1 .. Len(v) PROVE v[i] = i
    <3>1. CASE i \in 1 .. Len(w)
      BY <1>2, <1>3, <3>1 DEF Plain
    <3>2. CASE i \notin 1 .. Len(w)
      <4>1. PICK j \in 1 .. Len(m) : i = Len(w) + j
        <5>1. i - Len(w) \in 1 .. Len(m) /\ i = Len(w) + (i - Len(w))
          BY <1>2, <3>2
        <5>2. QED  BY <5>1
      <4>2. v[i] = m[j] /\ m[j] = m[1] + (j - 1)
        BY <1>2, <1>4, <4>1 DEF Words
      <4>3. QED
        BY <1>2, <2>1, <4>1, <4>2
    <3>3. QED
      BY <3>1, <3>2
  <2>3. LastOf(m) = Len(v)
    <3>1. LastOf(m) = m[1] + Len(m) - 1
      BY <1>1, <1>4, WordsLast
    <3>2. QED
      BY <1>2, <2>1, <3>1
  <2>4. QED
    BY <1>1, <1>2, <2>2, <2>3 DEF Plain, OnWire, Seam, m, v
<1>5. CASE ~Words(m)
  <2>1. m = Goodbye /\ closed
    BY <1>1, <1>5 DEF Queue
  <2>2. Len(m) = 1 /\ m[1] = 0 /\ ~Words(q[1])
    BY <1>1, <1>5, <2>1, GoodbyeIsNoWord
  <2>3. Len(v) = Len(w) + 1 /\ v[Len(w) + 1] = 0
    BY <1>2, <2>2
  <2>4. OnWire(v)
    <3>1. ASSUME NEW i \in 1 .. Len(v) PROVE v[i] = i \/ (v[i] = 0 /\ i = Len(v))
      <4>1. CASE i = Len(v)
        BY <1>2, <2>3, <4>1
      <4>2. CASE i \in 1 .. Len(w)
        BY <1>2, <1>3, <4>2 DEF Plain
      <4>3. QED
        BY <1>2, <2>3, <4>1, <4>2
    <3>2. QED
      BY <3>1 DEF OnWire
  <2>5. QED
    BY <1>1, <1>2, <2>1, <2>2, <2>4 DEF Seam, m, v
<1>6. QED
  BY <1>4, <1>5

-----------------------------------------------------------------------------
(***************************************************************************)
(* The operations on one connection.                                       *)
(***************************************************************************)
\* r is k, apart from its queue and its write.
SameBut(k, r) ==
    /\ r.closed = k.closed /\ r.protocol = k.protocol /\ r.release = k.release
    /\ r.wire = k.wire /\ r.outputBuffer = k.outputBuffer /\ r.written = k.written
    /\ r.socket = k.socket /\ r.trackedIp = k.trackedIp /\ r.inAutosend = k.inAutosend

LEMMA SentFields ==
    ASSUME NEW k \in Record, NEW m \in Seq(Nat), ~k.closed
    PROVE  LET r == Sent(k, m)
           IN  /\ r \in Record /\ SameBut(k, r)
               /\ r.messageQueue = Append(k.messageQueue, m)
               /\ r.write = IF k.messageQueue = <<>> THEN "posted" ELSE k.write
<1> DEFINE x == IF k.messageQueue = <<>> THEN "posted" ELSE k.write
           p == Append(k.messageQueue, m)
           r == [k EXCEPT !.messageQueue = p, !.write = x]
<1>1. x \in {"none", "posted", "writing", "written"}
  BY DEF Record
<1>2. p \in Seq(Seq(Nat))
  <2>1. k.messageQueue \in Seq(Seq(Nat))
    BY DEF Record
  <2>2. QED
    BY <2>1, AppendFacts
<1>3. Sent(k, m) = r
  BY DEF Sent
<1> HIDE DEF x, p
<1>4. r \in Record /\ SameBut(k, r) /\ r.messageQueue = p /\ r.write = x
  BY <1>1, <1>2 DEF Record, SameBut
<1>5. QED
  BY <1>3, <1>4 DEF x, p

\* The numbers that were in the buffer are handed to the connection.
Handed(k, r, m) ==
    /\ r \in Record /\ SameBut(k, r) /\ Released(r)
    /\ OnWire(r.wire) /\ Queue(r.messageQueue, r.closed) /\ Seam(r.messageQueue, r.wire, r.write)
    /\ ~k.closed => Plain(r.wire) /\ Top(r.messageQueue, r.wire) = LastOf(m)

LEMMA SentHanded ==
    ASSUME NEW k, Whole(k), NEW m \in Seq(Nat),
           ~k.closed => Words(m) /\ m[1] = Top(k.messageQueue, k.wire) + 1
    PROVE  Handed(k, Sent(k, m), m)
<1>1. k \in Record
  BY DEF Whole
<1>2. CASE k.closed
  <2>1. Sent(k, m) = k
    BY <1>2 DEF Sent
  <2>2. QED
    BY <1>2, <2>1 DEF Handed, SameBut, Whole, Orderly
<1>3. CASE ~k.closed
  <2>1. PICK r : r = Sent(k, m)
    OBVIOUS
  <2>2. /\ r \in Record /\ SameBut(k, r) /\ r.messageQueue = Append(k.messageQueue, m)
        /\ r.write = IF k.messageQueue = <<>> THEN "posted" ELSE k.write
    BY <1>1, <1>3, <2>1, SentFields
  <2>3. /\ Plain(k.wire) /\ Queue(k.messageQueue, FALSE) /\ Seam(k.messageQueue, k.wire, k.write)
        /\ OnWire(k.wire) /\ Released(k) /\ k.closed = FALSE
    BY <1>1, <1>3 DEF Whole, Orderly, Buffer, Record
  <2>4. k.messageQueue \in Seq(Seq(Nat)) /\ k.wire \in Seq(Nat)
    BY <1>1 DEF Record
  <2>5. /\ Queue(Append(k.messageQueue, m), FALSE)
        /\ Seam(Append(k.messageQueue, m), k.wire, IF k.messageQueue = <<>> THEN "posted" ELSE k.write)
        /\ Top(Append(k.messageQueue, m), k.wire) = LastOf(m)
    BY <1>3, <2>3, <2>4, QueueAppend
  <2>6. Released(r)
    BY <2>2, <2>3 DEF Released, SameBut
  <2>7. QED
    BY <2>1, <2>2, <2>3, <2>5, <2>6 DEF Handed, SameBut
<1>4. QED
  BY <1>2, <1>3

\* A last message, or none, and a gentle close.
LEMMA FarewellWhole ==
    ASSUME NEW k, Whole(k), ~k.closed, NEW m \in LastWords
    PROVE  ClosedFrom(k, CloseLocked(Said(k, m), FALSE))
<1>1. CASE m = <<>>
  <2>1. Said(k, m) = k
    BY <1>1 DEF Said
  <2>2. QED
    BY <2>1, CloseLockedWhole, WholeIsSound
<1>2. CASE m # <<>>
  <2>1. m = Goodbye /\ m \in Seq(Nat)
    BY <1>2, GoodbyeIsNoWord DEF LastWords
  <2>2. PICK r : r = Sent(k, m)
    OBVIOUS
  <2>3. k \in Record
    BY DEF Whole
  <2>4. /\ r \in Record /\ SameBut(k, r) /\ r.messageQueue = Append(k.messageQueue, m)
        /\ r.write = IF k.messageQueue = <<>> THEN "posted" ELSE k.write
    BY <2>1, <2>2, <2>3, SentFields
  <2>5. /\ Plain(k.wire) /\ Queue(k.messageQueue, FALSE) /\ Seam(k.messageQueue, k.wire, k.write)
        /\ OnWire(k.wire) /\ Released(k) /\ k.closed = FALSE
    BY <2>3 DEF Whole, Orderly, Buffer, Record
  <2>6. k.messageQueue \in Seq(Seq(Nat)) /\ k.wire \in Seq(Nat)
    BY <2>3 DEF Record
  <2>7. /\ Queue(r.messageQueue, TRUE) /\ Seam(r.messageQueue, r.wire, r.write)
    <3>1. /\ Queue(Append(k.messageQueue, m), TRUE)
          /\ Seam(Append(k.messageQueue, m), k.wire, IF k.messageQueue = <<>> THEN "posted" ELSE k.write)
      BY <2>1, <2>5, <2>6, QueueAppend
    <3>2. QED
      BY <2>4, <3>1 DEF SameBut
  <2> DEFINE x == IF r.protocol THEN r.release + 1 ELSE r.release
             z == [r EXCEPT !.closed = TRUE, !.release = x]
  <2>8. r.release = 0 /\ x \in {0, 1} /\ r.closed = FALSE /\ x = IF r.protocol THEN 1 ELSE 0
    BY <2>3, <2>4, <2>5 DEF Released, SameBut, Record
  <2>9. CloseLocked(r, FALSE) \in {z, CloseSocket(z)}
    BY <2>8 DEF CloseLocked
  <2> HIDE DEF x
  <2>10. /\ z \in Record /\ z.closed /\ z.protocol = r.protocol /\ z.messageQueue = r.messageQueue
         /\ z.write = r.write /\ z.wire = r.wire /\ z.trackedIp = r.trackedIp /\ z.socket = r.socket
         /\ z.release = x
    BY <2>4, <2>8 DEF Record
  <2> HIDE DEF z
  <2>11. Whole(z)
    BY <2>4, <2>5, <2>7, <2>8, <2>10 DEF Whole, Released, Orderly, SameBut
  <2>12. Whole(CloseSocket(z)) /\ CloseSocket(z).closed
    BY <2>10, <2>11, CloseSocketFields, SameWhole DEF SameOutput
  <2>13. Said(k, m) = r
    BY <1>2, <2>2 DEF Said
  <2>14. ClosedFrom(k, z)
    BY <2>4, <2>10, <2>11 DEF ClosedFrom, SameBut
  <2>15. PICK y : y = CloseSocket(z)
    OBVIOUS
  <2>16. y.trackedIp = z.trackedIp /\ (z.socket # "none" => y.socket # "none")
    BY <2>10, <2>15, CloseSocketFields
  <2>17. ClosedFrom(k, y)
    BY <2>12, <2>14, <2>15, <2>16 DEF ClosedFrom
  <2>18. QED
    BY <2>9, <2>13, <2>14, <2>15, <2>17
<1>3. QED
  BY <1>1, <1>2

\* A write of the dispatcher goes to the buffer; a full one is sent first.
Grown(k, n, a, r) == r = [Buffered(k, n) EXCEPT !.written = n, !.inAutosend = a]

LEMMA BufferedWhole ==
    ASSUME NEW k, Whole(k), NEW n \in 0 .. MaxWrites, n = k.written + 1, NEW a \in BOOLEAN,
           NEW to, Grown(k, n, a, to)
    PROVE  Whole(to) /\ to.closed = k.closed /\ to.trackedIp = k.trackedIp /\ to.socket = k.socket
<1>1. k \in Record
  BY DEF Whole
<1>2. /\ k.outputBuffer \in Seq(Nat) /\ k.messageQueue \in Seq(Seq(Nat)) /\ k.wire \in Seq(Nat)
      /\ k.written \in Nat /\ k.closed \in BOOLEAN
  BY <1>1, LimitAssumption DEF Record
<1>3. n \in Nat /\ n > 0
  BY <1>2, LimitAssumption
<1> DEFINE b == k.outputBuffer
<1>4. CASE Len(b) < MaxBody
  <2> DEFINE d == Append(b, n)
             r == [k EXCEPT !.outputBuffer = d, !.written = n, !.inAutosend = a]
  <2>1. to = r
    <3>1. Buffered(k, n) = [k EXCEPT !.outputBuffer = d]
      BY <1>4 DEF Buffered
    <3>2. QED
      BY <1>1, <3>1 DEF Record, Grown
  <2>2. d \in Seq(Nat) /\ d # <<>>
    <3>1. \A S : \A t \in Seq(S), e \in S : Append(t, e) \in Seq(S) /\ Append(t, e) # <<>>
      BY AppendFacts
    <3>2. QED
      BY <1>2, <1>3, <3>1
  <2>3. ASSUME ~k.closed PROVE Buffer(d, k.messageQueue, k.wire, n)
    <3>1. Buffer(b, k.messageQueue, k.wire, k.written)
      BY <2>3 DEF Whole, Orderly
    <3>2. CASE b = <<>>
      <4>1. d = <<n>>
        BY <3>2
      <4>2. Top(k.messageQueue, k.wire) = k.written
        BY <3>1, <3>2 DEF Buffer
      <4>3. QED
        BY <1>3, <2>2, <3>1, <4>1, <4>2, OneWord DEF Buffer
    <3>3. CASE b # <<>>
      <4>1. Words(b) /\ n = LastOf(b) + 1 /\ b[1] = Top(k.messageQueue, k.wire) + 1
        BY <3>1, <3>3 DEF Buffer
      <4>2. Words(d) /\ d[1] = b[1] /\ LastOf(d) = n
        BY <1>2, <1>3, <4>1, NextWord
      <4>3. QED
        BY <2>2, <3>1, <4>1, <4>2 DEF Buffer
    <3>4. QED
      BY <3>2, <3>3
  <2> HIDE DEF d
  <2>4. /\ r \in Record /\ r.closed = k.closed /\ r.protocol = k.protocol /\ r.release = k.release
        /\ r.messageQueue = k.messageQueue /\ r.write = k.write /\ r.wire = k.wire
        /\ r.outputBuffer = d /\ r.written = n /\ r.trackedIp = k.trackedIp /\ r.socket = k.socket
    BY <1>1, <2>2 DEF Record
  <2> HIDE DEF r
  <2>5. Whole(r)
    BY <2>3, <2>4 DEF Whole, Released, Orderly
  <2>6. QED
    BY <2>1, <2>4, <2>5
<1>5. CASE ~(Len(b) < MaxBody)
  <2>1. b # <<>>
    BY <1>2, <1>5, LimitAssumption
  <2>2. ~k.closed => /\ Words(b) /\ b[1] = Top(k.messageQueue, k.wire) + 1 /\ LastOf(b) = k.written
    BY <2>1 DEF Whole, Orderly, Buffer
  <2>3. PICK s : s = Sent(k, b)
    OBVIOUS
  <2>4. Handed(k, s, b)
    BY <1>2, <2>2, <2>3, SentHanded
  <2>5. s \in Record
    BY <2>4 DEF Handed
  <2> DEFINE r == [s EXCEPT !.outputBuffer = <<n>>, !.written = n, !.inAutosend = a]
  <2>6. to = r
    <3>1. Buffered(k, n) = [s EXCEPT !.outputBuffer = <<n>>]
      BY <1>5, <2>3 DEF Buffered
    <3>2. QED
      BY <2>5, <3>1 DEF Record, Grown
  <2>7. <<n>> \in Seq(Nat)
    BY <1>3
  <2>8. /\ r \in Record /\ r.closed = s.closed /\ r.protocol = s.protocol /\ r.release = s.release
        /\ r.messageQueue = s.messageQueue /\ r.write = s.write /\ r.wire = s.wire
        /\ r.outputBuffer = <<n>> /\ r.written = n /\ r.trackedIp = s.trackedIp /\ r.socket = s.socket
    BY <2>5, <2>7 DEF Record
  <2> HIDE DEF r
  <2>9. ASSUME ~k.closed PROVE Buffer(<<n>>, s.messageQueue, s.wire, n)
    <3>1. Plain(s.wire) /\ Top(s.messageQueue, s.wire) = k.written
      BY <2>2, <2>4, <2>9 DEF Handed
    <3>2. QED
      BY <1>3, <3>1, OneWord DEF Buffer
  <2>10. Whole(r)
    BY <2>4, <2>8, <2>9 DEF Whole, Released, Orderly, Handed, SameBut
  <2>11. QED
    BY <2>4, <2>6, <2>8, <2>10 DEF Handed, SameBut
<1>6. QED
  BY <1>4, <1>5

\* What a step that does not close makes of the connection.
KeptFrom(k, r) ==
    /\ Whole(r) /\ r.closed = k.closed /\ r.trackedIp = k.trackedIp
    /\ k.socket # "none" => r.socket # "none"

\* SendAll, for one connection
Flushed(k) ==
    IF ~k.inAutosend THEN k
    ELSE LET j == [k EXCEPT !.inAutosend = FALSE]
         IN  IF j.outputBuffer = <<>> THEN j
             ELSE [Sent(j, j.outputBuffer) EXCEPT !.outputBuffer = <<>>]

LEMMA FlushedWhole ==
    ASSUME NEW k, Whole(k)
    PROVE  KeptFrom(k, Flushed(k)) /\ (~k.inAutosend => Flushed(k) = k)
<1>1. CASE ~k.inAutosend
  BY <1>1 DEF Flushed, KeptFrom
<1>2. CASE k.inAutosend
  <2>1. k \in Record
    BY DEF Whole
  <2> DEFINE j == [k EXCEPT !.inAutosend = FALSE]
  <2>2. /\ j \in Record /\ SameOutput(k, j) /\ j.trackedIp = k.trackedIp /\ j.socket = k.socket
        /\ j.outputBuffer \in Seq(Nat) /\ j.closed \in BOOLEAN
    BY <2>1 DEF Record, SameOutput
  <2>3. Flushed(k) = IF j.outputBuffer = <<>> THEN j
                     ELSE [Sent(j, j.outputBuffer) EXCEPT !.outputBuffer = <<>>]
    BY <1>2 DEF Flushed
  <2> HIDE DEF j
  <2>4. Whole(j)
    BY <2>2, SameWhole
  <2>5. CASE j.outputBuffer = <<>>
    BY <1>2, <2>2, <2>3, <2>4, <2>5 DEF KeptFrom, SameOutput
  <2>6. CASE j.outputBuffer # <<>>
    <3>1. PICK s : s = Sent(j, j.outputBuffer)
      OBVIOUS
    <3>2. ~j.closed => /\ Words(j.outputBuffer) /\ LastOf(j.outputBuffer) = j.written
                       /\ j.outputBuffer[1] = Top(j.messageQueue, j.wire) + 1
      BY <2>4, <2>6 DEF Whole, Orderly, Buffer
    <3>3. Handed(j, s, j.outputBuffer)
      BY <2>2, <2>4, <3>1, <3>2, SentHanded
    <3>4. s \in Record
      BY <3>3 DEF Handed
    <3> DEFINE r == [s EXCEPT !.outputBuffer = <<>>]
    <3>5. /\ r \in Record /\ r.closed = s.closed /\ r.protocol = s.protocol /\ r.release = s.release
          /\ r.messageQueue = s.messageQueue /\ r.write = s.write /\ r.wire = s.wire
          /\ r.outputBuffer = <<>> /\ r.written = s.written /\ r.trackedIp = s.trackedIp
          /\ r.socket = s.socket
      <4>1. <<>> \in Seq(Nat)
        OBVIOUS
      <4>2. QED
        BY <3>4, <4>1 DEF Record
    <3>6. Flushed(k) = r
      BY <2>3, <2>6, <3>1
    <3> HIDE DEF r
    <3>7. ~r.closed => Buffer(r.outputBuffer, r.messageQueue, r.wire, r.written)
      BY <3>2, <3>3, <3>5 DEF Buffer, Handed, SameBut
    <3>8. Whole(r)
      BY <3>3, <3>5, <3>7 DEF Whole, Released, Orderly, Handed, SameBut
    <3>9. QED
      BY <1>2, <2>2, <3>3, <3>5, <3>6, <3>8 DEF KeptFrom, Handed, SameBut, SameOutput
  <2>7. QED
    BY <2>5, <2>6
<1>3. QED
  BY <1>1, <1>2

\* r is k with another state of its write.
Rewritten(k, r, write) ==
    /\ r \in Record /\ r.closed = k.closed /\ r.protocol = k.protocol /\ r.release = k.release
    /\ r.messageQueue = k.messageQueue /\ r.write = write /\ r.wire = k.wire
    /\ r.outputBuffer = k.outputBuffer /\ r.written = k.written
    /\ r.socket = k.socket /\ r.trackedIp = k.trackedIp

LEMMA RewrittenWhole ==
    ASSUME NEW k, Whole(k), NEW r, NEW write, Rewritten(k, r, write),
           k.write # "written", write # "written", k.write # "none"
    PROVE  Whole(r) /\ KeptFrom(k, r)
<1>1. Seam(r.messageQueue, r.wire, r.write)
  BY DEF Whole, Orderly, Seam, Rewritten
<1>2. Whole(r)
  BY <1>1 DEF Whole, Released, Orderly, Rewritten
<1>3. QED
  BY <1>2 DEF KeptFrom, Rewritten

\* The head of the queue reaches the peer.
LEMMA PeerReadsWhole ==
    ASSUME NEW k, Whole(k), k.write = "writing"
    PROVE  KeptFrom(k, [k EXCEPT !.write = "written", !.wire = @ \o Head(k.messageQueue)])
<1>1. k \in Record
  BY DEF Whole
<1>2. k.messageQueue \in Seq(Seq(Nat)) /\ k.wire \in Seq(Nat) /\ k.closed \in BOOLEAN
  BY <1>1 DEF Record
<1>3. /\ k.messageQueue # <<>> /\ Queue(k.messageQueue, k.closed)
      /\ Seam(k.messageQueue, k.wire, "writing")
  BY DEF Whole, Orderly, Seam
<1> DEFINE v == k.wire \o Head(k.messageQueue)
           r == [k EXCEPT !.write = "written", !.wire = v]
<1>4. v \in Seq(Nat) /\ OnWire(v) /\ Seam(k.messageQueue, v, "written") /\ (~k.closed => Plain(v))
  BY <1>2, <1>3, WireGrows
<1> HIDE DEF v
<1>5. /\ r \in Record /\ r.closed = k.closed /\ r.protocol = k.protocol /\ r.release = k.release
      /\ r.messageQueue = k.messageQueue /\ r.write = "written" /\ r.wire = v
      /\ r.outputBuffer = k.outputBuffer /\ r.written = k.written
      /\ r.socket = k.socket /\ r.trackedIp = k.trackedIp
  BY <1>1, <1>4 DEF Record
<1>6. ~k.closed => Buffer(k.outputBuffer, k.messageQueue, v, k.written)
  <2>1. ~k.closed => Buffer(k.outputBuffer, k.messageQueue, k.wire, k.written)
    BY DEF Whole, Orderly
  <2>2. Top(k.messageQueue, v) = Top(k.messageQueue, k.wire)
    BY <1>3 DEF Top
  <2>3. QED
    BY <1>4, <2>1, <2>2 DEF Buffer
<1>7. [k EXCEPT !.write = "written", !.wire = @ \o Head(k.messageQueue)] = r
  BY DEF v
<1> HIDE DEF r
<1>8. Whole(r)
  BY <1>3, <1>4, <1>5, <1>6 DEF Whole, Released, Orderly
<1>9. QED
  BY <1>5, <1>7, <1>8 DEF KeptFrom

\* The completion of a write: the head leaves the queue.
LEMMA OnWriteWhole ==
    ASSUME NEW k, Whole(k), k.write = "written"
    PROVE  LET j == Cancel([k EXCEPT !.messageQueue = Tail(@)], "write")
           IN  KeptFrom(k, IF j.messageQueue # <<>> THEN Arm([j EXCEPT !.write = "writing"], "write")
                           ELSE IF j.closed THEN CloseSocket([j EXCEPT !.write = "none"])
                           ELSE [j EXCEPT !.write = "none"])
<1> DEFINE p == Tail(k.messageQueue)
           i == [k EXCEPT !.messageQueue = p]
           j == Cancel(i, "write")
<1>1. k \in Record
  BY DEF Whole
<1>2. k.messageQueue \in Seq(Seq(Nat)) /\ k.wire \in Seq(Nat) /\ k.closed \in BOOLEAN
  BY <1>1 DEF Record
<1>3. /\ k.messageQueue # <<>> /\ Queue(k.messageQueue, k.closed)
      /\ Seam(k.messageQueue, k.wire, "written")
  BY DEF Whole, Orderly, Seam
<1>4. /\ p \in Seq(Seq(Nat)) /\ Queue(p, k.closed)
      /\ p # <<>> => Seam(p, k.wire, "writing")
      /\ p = <<>> => Seam(p, k.wire, "none")
      /\ ~k.closed => Top(p, k.wire) = Top(k.messageQueue, k.wire)
  BY <1>2, <1>3, QueueTail
<1> HIDE DEF p
<1>5. /\ i \in Record /\ i.closed = k.closed /\ i.protocol = k.protocol /\ i.release = k.release
      /\ i.messageQueue = p /\ i.wire = k.wire
      /\ i.outputBuffer = k.outputBuffer /\ i.written = k.written
      /\ i.socket = k.socket /\ i.trackedIp = k.trackedIp
  BY <1>1, <1>4 DEF Record
<1>6. j = Cancel([k EXCEPT !.messageQueue = Tail(@)], "write")
  BY DEF p
<1> HIDE DEF i
<1>7. j \in Record /\ SameOutput(i, j) /\ j.socket = i.socket /\ j.trackedIp = i.trackedIp
  BY <1>5, CancelFields DEF Timers
<1> HIDE DEF j
<1>8. ASSUME NEW x \in {"writing", "none"}, x = IF p # <<>> THEN "writing" ELSE "none"
      PROVE  /\ [j EXCEPT !.write = x] \in Record
             /\ KeptFrom(k, [j EXCEPT !.write = x])
  <2> DEFINE r == [j EXCEPT !.write = x]
  <2>1. /\ r \in Record /\ r.closed = j.closed /\ r.protocol = j.protocol /\ r.release = j.release
        /\ r.messageQueue = j.messageQueue /\ r.write = x /\ r.wire = j.wire
        /\ r.outputBuffer = j.outputBuffer /\ r.written = j.written
        /\ r.socket = j.socket /\ r.trackedIp = j.trackedIp
    BY <1>7 DEF Record
  <2> HIDE DEF r
  <2>2. /\ r.closed = k.closed /\ r.protocol = k.protocol /\ r.release = k.release
        /\ r.messageQueue = p /\ r.wire = k.wire
        /\ r.outputBuffer = k.outputBuffer /\ r.written = k.written
        /\ r.socket = k.socket /\ r.trackedIp = k.trackedIp
    BY <1>5, <1>7, <2>1 DEF SameOutput
  <2>3. Seam(p, k.wire, x)
    BY <1>4, <1>8
  <2>4. ~k.closed => Buffer(k.outputBuffer, p, k.wire, k.written)
    BY <1>4 DEF Whole, Orderly, Buffer
  <2>5. Whole(r)
    BY <1>4, <2>1, <2>2, <2>3, <2>4 DEF Whole, Released, Orderly
  <2>6. QED
    BY <2>1, <2>2, <2>5 DEF KeptFrom, r
<1>9. j.messageQueue = p
  BY <1>5, <1>7 DEF SameOutput
<1>10. CASE p # <<>>
  <2>1. PICK y : y = [j EXCEPT !.write = "writing"]
    OBVIOUS
  <2>2. y \in Record /\ KeptFrom(k, y)
    BY <1>8, <1>10, <2>1
  <2>3. PICK z : z = Arm(y, "write")
    OBVIOUS
  <2>4. z \in Record /\ SameOutput(y, z) /\ z.socket = y.socket /\ z.trackedIp = y.trackedIp
    BY <2>2, <2>3, ArmFields DEF Timers
  <2>5. Whole(z)
    BY <2>2, <2>4, SameWhole DEF KeptFrom
  <2>6. KeptFrom(k, z)
    BY <2>2, <2>4, <2>5 DEF KeptFrom, SameOutput
  <2>7. QED
    BY <1>6, <1>9, <1>10, <2>1, <2>3, <2>6
<1>11. CASE p = <<>>
  <2>1. PICK y : y = [j EXCEPT !.write = "none"]
    OBVIOUS
  <2>2. y \in Record /\ KeptFrom(k, y)
    BY <1>8, <1>11, <2>1
  <2>3. PICK z : z = CloseSocket(y)
    OBVIOUS
  <2>4. /\ z \in Record /\ SameOutput(y, z) /\ z.trackedIp = y.trackedIp
        /\ y.socket # "none" => z.socket # "none"
    BY <2>2, <2>3, CloseSocketFields
  <2>5. Whole(z)
    BY <2>2, <2>4, SameWhole DEF KeptFrom
  <2>6. KeptFrom(k, z)
    BY <2>2, <2>4, <2>5 DEF KeptFrom, SameOutput
  <2>7. QED
    BY <1>6, <1>9, <1>11, <2>1, <2>2, <2>3, <2>6
<1>12. QED
  BY <1>10, <1>11

-----------------------------------------------------------------------------
(***************************************************************************)
(* The manager: its set of connections and the counts of the addresses.    *)
(***************************************************************************)
Holders(a, cs, at) == {c \in cs : at[c].trackedIp = a}

Counts(cs, at, n) ==
    /\ \A a \in Ip : n[a] = Cardinality(Holders(a, cs, at)) /\ n[a] <= MaxPerIp
    /\ Cardinality(cs) <= MaxConnections

LEMMA CountsIsExact ==
    /\ IpCountExact <=> Counts(connections, conn, ipCount)
    /\ IpCountExact' <=> Counts(connections', conn', ipCount')
BY DEF IpCountExact, Counts, Holders

LEMMA HoldersFinite ==
    ASSUME NEW cs \in SUBSET Conn, NEW at, NEW a
    PROVE  /\ IsFiniteSet(cs) /\ Cardinality(cs) \in Nat
           /\ IsFiniteSet(Holders(a, cs, at)) /\ Holders(a, cs, at) \subseteq cs
           /\ Cardinality(Holders(a, cs, at)) \in 0 .. Cardinality(Conn)
<1>1. IsFiniteSet(cs) /\ Cardinality(cs) \in Nat
  BY LimitAssumption, FS_Subset, FS_CardinalityType
<1>2. Holders(a, cs, at) \subseteq Conn /\ Holders(a, cs, at) \subseteq cs
  BY DEF Holders
<1>3. /\ IsFiniteSet(Holders(a, cs, at))
      /\ Cardinality(Holders(a, cs, at)) <= Cardinality(Conn)
  BY <1>2, LimitAssumption, FS_Subset
<1>4. Cardinality(Holders(a, cs, at)) \in Nat /\ Cardinality(Conn) \in Nat
  BY <1>3, LimitAssumption, FS_CardinalityType
<1>5. QED
  BY <1>1, <1>2, <1>3, <1>4

\* No count is larger than the number of connections.
LEMMA CountsTyped ==
    ASSUME NEW cs \in SUBSET Conn, NEW at, NEW n, n = [a \in Ip |-> n[a]], Counts(cs, at, n)
    PROVE  n \in [Ip -> 0 .. Cardinality(Conn)]
<1>1. \A a \in Ip : n[a] \in 0 .. Cardinality(Conn)
  BY HoldersFinite DEF Counts
<1>2. QED
  BY <1>1

LEMMA CountsSame ==
    ASSUME NEW cs \in SUBSET Conn, NEW at, NEW to, NEW n, Counts(cs, at, n),
           \A c \in cs : to[c].trackedIp = at[c].trackedIp
    PROVE  Counts(cs, to, n)
<1>1. \A a \in Ip : Holders(a, cs, to) = Holders(a, cs, at)
  BY DEF Holders
<1>2. QED
  BY <1>1 DEF Counts

\* trackIPConnection refuses the address or counts it.
LEMMA CountsTrack ==
    ASSUME NEW cs \in SUBSET Conn, NEW at, NEW to, NEW n \in [Ip -> Nat], Counts(cs, at, n),
           NEW c \in cs, NEW ip \in Ip, at[c].trackedIp = NoIp, to[c].trackedIp = ip,
           \A d \in cs \ {c} : to[d].trackedIp = at[d].trackedIp, n[ip] < MaxPerIp
    PROVE  Counts(cs, to, [n EXCEPT ![ip] = @ + 1])
<1> DEFINE p == [n EXCEPT ![ip] = @ + 1]
<1>1. ASSUME NEW a \in Ip PROVE p[a] = Cardinality(Holders(a, cs, to)) /\ p[a] <= MaxPerIp
  <2>1. CASE a = ip
    <3>1. Holders(a, cs, to) = Holders(a, cs, at) \cup {c} /\ c \notin Holders(a, cs, at)
      BY <2>1, LimitAssumption DEF Holders
    <3>2. Cardinality(Holders(a, cs, to)) = Cardinality(Holders(a, cs, at)) + 1
      BY <3>1, HoldersFinite, FS_AddElement
    <3>3. n[a] = Cardinality(Holders(a, cs, at)) /\ p[a] = n[a] + 1 /\ n[a] \in Nat
      BY <2>1 DEF Counts
    <3>4. QED
      BY <2>1, <3>2, <3>3, LimitAssumption
  <2>2. CASE a # ip
    <3>1. Holders(a, cs, to) = Holders(a, cs, at)
      BY <2>2, LimitAssumption DEF Holders
    <3>2. QED
      BY <2>2, <3>1 DEF Counts
  <2>3. QED
    BY <2>1, <2>2
<1>2. QED
  BY <1>1 DEF Counts

\* accept adds a connection that has no address yet.
LEMMA CountsAdd ==
    ASSUME NEW cs \in SUBSET Conn, NEW at, NEW to, NEW n, Counts(cs, at, n),
           NEW c \in Conn, c \notin cs, to[c].trackedIp = NoIp,
           \A d \in cs : to[d].trackedIp = at[d].trackedIp,
           ~(Cardinality(cs) >= MaxConnections)
    PROVE  Counts(cs \cup {c}, to, n)
<1>1. \A a \in Ip : Holders(a, cs \cup {c}, to) = Holders(a, cs, at)
  BY LimitAssumption DEF Holders
<1>2. Cardinality(cs \cup {c}) = Cardinality(cs) + 1 /\ Cardinality(cs) \in Nat
  BY HoldersFinite, FS_AddElement
<1>3. Cardinality(cs \cup {c}) <= MaxConnections
  BY <1>2, LimitAssumption
<1>4. QED
  BY <1>1, <1>3 DEF Counts

\* releaseConnection takes a connection out and counts its address down.
LEMMA CountsRemove ==
    ASSUME NEW cs \in SUBSET Conn, NEW at, NEW to, NEW n \in [Ip -> Nat], Counts(cs, at, n),
           NEW c \in Conn, NEW ip \in Ip \cup {NoIp}, ip = at[c].trackedIp,
           \A d \in cs \ {c} : to[d].trackedIp = at[d].trackedIp,
           NEW p, p = IF c \in cs /\ ip # NoIp /\ n[ip] > 0 THEN [n EXCEPT ![ip] = @ - 1] ELSE n
    PROVE  Counts(cs \ {c}, to, p) /\ p = [a \in Ip |-> p[a]]
<1>1. CASE c \notin cs
  <2>1. cs \ {c} = cs /\ p = n
    BY <1>1
  <2>2. QED
    BY <1>1, <2>1, CountsSame
<1>2. CASE c \in cs
  <2>1. Cardinality(cs \ {c}) = Cardinality(cs) - 1 /\ Cardinality(cs) \in Nat
    BY <1>2, HoldersFinite, FS_RemoveElement
  <2>2. Cardinality(cs \ {c}) <= MaxConnections
    BY <2>1, LimitAssumption DEF Counts
  <2>3. CASE ip = NoIp
    <3>1. \A a \in Ip : Holders(a, cs \ {c}, to) = Holders(a, cs, at)
      BY <1>2, <2>3, LimitAssumption DEF Holders
    <3>2. p = n
      BY <2>3
    <3>3. QED
      BY <2>2, <3>1, <3>2 DEF Counts
  <2>4. CASE ip # NoIp
    <3>1. ip \in Ip
      BY <2>4
    <3>2. c \in Holders(ip, cs, at)
      BY <1>2 DEF Holders
    <3>3. Holders(ip, cs \ {c}, to) = Holders(ip, cs, at) \ {c}
      BY DEF Holders
    <3>4. /\ Cardinality(Holders(ip, cs \ {c}, to)) = Cardinality(Holders(ip, cs, at)) - 1
          /\ Cardinality(Holders(ip, cs, at)) \in Nat
      <4>1. PICK h : h = Holders(ip, cs, at)
        OBVIOUS
      <4>2. IsFiniteSet(h) /\ c \in h
        BY <3>2, <4>1, HoldersFinite
      <4>3. Cardinality(h \ {c}) = Cardinality(h) - 1 /\ Cardinality(h) \in Nat
        BY <4>2, FS_RemoveElement, FS_CardinalityType
      <4>4. QED
        BY <3>3, <4>1, <4>3
    <3>5. Cardinality(Holders(ip, cs \ {c}, to)) \in Nat
      <4>1. cs \ {c} \in SUBSET Conn
        OBVIOUS
      <4>2. QED
        BY <4>1, HoldersFinite, FS_CardinalityType
    <3>6. n[ip] = Cardinality(Holders(ip, cs, at)) /\ n[ip] <= MaxPerIp
      BY <3>1 DEF Counts
    <3>7. n[ip] > 0
      BY <3>4, <3>5, <3>6
    <3>8. p = [n EXCEPT ![ip] = @ - 1]
      BY <1>2, <2>4, <3>7
    <3>9. ASSUME NEW a \in Ip PROVE p[a] = Cardinality(Holders(a, cs \ {c}, to)) /\ p[a] <= MaxPerIp
      <4>1. CASE a = ip
        <5>1. p[a] = n[ip] - 1
          BY <3>8, <4>1
        <5>2. QED
          BY <3>4, <3>6, <4>1, <5>1, LimitAssumption
      <4>2. CASE a # ip
        <5>1. Holders(a, cs \ {c}, to) = Holders(a, cs, at)
          BY <4>2 DEF Holders
        <5>2. p[a] = n[a]
          BY <3>8, <4>2
        <5>3. QED
          BY <5>1, <5>2 DEF Counts
      <4>3. QED
        BY <4>1, <4>2
    <3>10. QED
      BY <2>2, <3>8, <3>9 DEF Counts
  <2>5. QED
    BY <2>3, <2>4
<1>3. QED
  BY <1>1, <1>2

-----------------------------------------------------------------------------
(***************************************************************************)
(* The invariant connection by connection, and the steps that change one.  *)
(***************************************************************************)
Newborn == [Fresh EXCEPT !.socket = "new"]

\* The part of the invariant that speaks of connection c.
Good(c, k, cs, at) ==
    /\ Whole(k)
    /\ k.closed => c \notin cs
    /\ k.socket = "none" => k = Fresh /\ c \notin cs
    /\ at = c => k = Newborn

Frame ==
    /\ port \in {"accept", "retry", "ended"} \cup Conn
    /\ service \in {"run", "stopped", "released", "dead"}
    /\ {sendScheduled, sendEvent} \subseteq BOOLEAN

Together ==
    /\ conn = [c \in Conn |-> conn[c]]
    /\ \A c \in Conn : Good(c, conn[c], connections, port)
    /\ connections \subseteq Conn
    /\ ipCount = [a \in Ip |-> ipCount[a]]
    /\ Counts(connections, conn, ipCount)
    /\ Frame

LEMMA IInvIsTogether == IInv <=> Together
<1>1. ASSUME IInv PROVE Together
  <2>1. conn = [c \in Conn |-> conn[c]] /\ ipCount = [a \in Ip |-> ipCount[a]] /\ connections \subseteq Conn /\ Frame
    BY <1>1 DEF IInv, TypeOK, Frame
  <2>2. Counts(connections, conn, ipCount)
    BY <1>1, CountsIsExact DEF IInv, ClosedOnce
  <2>3. ASSUME NEW c \in Conn PROVE Good(c, conn[c], connections, port)
    <3>1. conn[c] \in Record
      BY <1>1 DEF IInv, TypeOK
    <3>2. QED
      BY <1>1, <3>1 DEF IInv, ClosedOnce, ReleasedOnce, Unborn, AllOrderly, Good, Whole, Released, Newborn
  <2>4. QED
    BY <2>1, <2>2, <2>3 DEF Together
<1>2. ASSUME Together PROVE IInv
  <2>1. \A c \in Conn : conn[c] \in Record
    BY <1>2 DEF Together, Good, Whole
  <2>2. conn \in [Conn -> Record]
    BY <1>2, <2>1 DEF Together
  <2>3. ipCount \in [Ip -> 0 .. Cardinality(Conn)]
    BY <1>2, CountsTyped DEF Together
  <2>4. TypeOK
    BY <1>2, <2>2, <2>3 DEF TypeOK, Together, Frame
  <2>5. ClosedOnce
    BY <1>2, CountsIsExact DEF Together, ClosedOnce, ReleasedOnce, Good, Whole, Released
  <2>6. Unborn /\ AllOrderly
    BY <1>2 DEF Together, Good, Whole, Unborn, AllOrderly, Newborn
  <2>7. QED
    BY <2>4, <2>5, <2>6 DEF IInv
<1>3. QED
  BY <1>1, <1>2

\* A connection that was used is neither fresh nor in the hands of the port.
Used(k) ==
    \/ k.closed \/ k.protocol \/ k.read # "none" \/ k.write # "none"
    \/ k.armed # {} \/ k.due # {} \/ k.socket = "open" \/ k.release = 1

LEMMA UsedIsOld ==
    ASSUME Together, NEW c \in Conn, Used(conn[c])
    PROVE  conn[c].socket # "none" /\ port # c /\ Whole(conn[c])
<1>1. ~Used(Fresh) /\ ~Used(Newborn)
  BY DEF Used, Fresh, Newborn
<1>2. QED
  BY <1>1 DEF Together, Good

\* The accept loop stays as it is or leaves its connection.
PortLeaves(c) ==
    /\ port' # c
    /\ port' = port \/ port' \in {"accept", "retry", "ended"}

LEMMA OthersGood ==
    ASSUME Together, NEW c \in Conn, NEW d \in Conn, d # c, NEW cs, PortLeaves(c),
           cs \subseteq connections
    PROVE  Good(d, conn[d], cs, port')
<1>1. port' # d \/ port' = port
  BY LimitAssumption DEF PortLeaves
<1>2. QED
  BY <1>1 DEF Together, Good

\* A step that does not close its connection.
LEMMA KeepStep ==
    ASSUME Together, NEW c \in Conn, NEW r, KeptFrom(conn[c], r), conn[c].socket # "none",
           conn' = [conn EXCEPT ![c] = r], UNCHANGED managerVars, PortLeaves(c), Frame'
    PROVE  Together'
<1>1. connections' = connections /\ ipCount' = ipCount
  BY DEF managerVars
<1>2. /\ conn' = [d \in Conn |-> conn'[d]] /\ conn'[c] = r
      /\ \A d \in Conn \ {c} : conn'[d] = conn[d]
  BY DEF Together
<1>3. Good(c, r, connections, port')
  BY DEF Together, Good, KeptFrom, PortLeaves
<1>4. \A d \in Conn : Good(d, conn'[d], connections', port')
  BY <1>1, <1>2, <1>3, OthersGood
<1>5. \A d \in connections : conn'[d].trackedIp = conn[d].trackedIp
  BY <1>2 DEF Together, KeptFrom
<1>6. Counts(connections, conn', ipCount)
  BY <1>5, CountsSame DEF Together
<1>7. QED
  BY <1>1, <1>2, <1>4, <1>6 DEF Together

\* A step that closes its connection and takes it off the manager.
LEMMA ReleaseStep ==
    ASSUME Together, NEW c \in Conn, NEW r, ClosedFrom(conn[c], r), conn[c].socket # "none",
           conn' = [conn EXCEPT ![c] = r], ReleaseConnection(c), PortLeaves(c), Frame'
    PROVE  Together'
<1>1. /\ connections' = connections \ {c}
      /\ ipCount' = IF c \in connections /\ conn[c].trackedIp # NoIp /\ ipCount[conn[c].trackedIp] > 0
                    THEN [ipCount EXCEPT ![conn[c].trackedIp] = @ - 1] ELSE ipCount
  BY DEF ReleaseConnection
<1>2. /\ conn' = [d \in Conn |-> conn'[d]] /\ conn'[c] = r
      /\ \A d \in Conn \ {c} : conn'[d] = conn[d]
  BY DEF Together
<1>3. Good(c, r, connections \ {c}, port')
  BY DEF Together, Good, ClosedFrom, PortLeaves
<1>4. \A d \in Conn : Good(d, conn'[d], connections', port')
  <2>1. ASSUME NEW d \in Conn, d # c PROVE Good(d, conn[d], connections \ {c}, port')
    BY <2>1, OthersGood
  <2>2. QED
    BY <1>1, <1>2, <1>3, <2>1
<1>5. connections \in SUBSET Conn /\ \A d \in connections \ {c} : conn'[d].trackedIp = conn[d].trackedIp
  BY <1>2 DEF Together
<1>6. ipCount \in [Ip -> Nat]
  BY IInvIsTogether DEF IInv, TypeOK
<1>7. PICK ip \in Ip \cup {NoIp} : ip = conn[c].trackedIp
  BY DEF Together, Good, Whole, Record
<1>8. ipCount' = IF c \in connections /\ ip # NoIp /\ ipCount[ip] > 0
                 THEN [ipCount EXCEPT ![ip] = @ - 1] ELSE ipCount
  BY <1>1, <1>7
<1>9. Counts(connections, conn, ipCount)
  BY DEF Together
<1>10. PICK n, m, cs, at, to : n = ipCount /\ m = ipCount' /\ cs = connections /\ at = conn /\ to = conn'
  OBVIOUS
<1>11. Counts(cs \ {c}, to, m) /\ m = [a \in Ip |-> m[a]]
  <2>1. /\ cs \in SUBSET Conn /\ n \in [Ip -> Nat] /\ Counts(cs, at, n) /\ ip = at[c].trackedIp
        /\ \A d \in cs \ {c} : to[d].trackedIp = at[d].trackedIp
        /\ m = IF c \in cs /\ ip # NoIp /\ n[ip] > 0 THEN [n EXCEPT ![ip] = @ - 1] ELSE n
    BY <1>5, <1>6, <1>7, <1>8, <1>9, <1>10
  <2>2. QED
    BY <2>1, CountsRemove
<1>12. Counts(connections', conn', ipCount') /\ ipCount' = [a \in Ip |-> ipCount'[a]]
  BY <1>1, <1>10, <1>11
<1>13. QED
  BY <1>1, <1>2, <1>4, <1>5, <1>12 DEF Together

SoundFrom(k, r) ==
    /\ Sound(r) /\ r.closed = k.closed /\ r.trackedIp = k.trackedIp
    /\ k.socket # "none" => r.socket # "none"

LEMMA KeptIsSound == ASSUME NEW k, NEW r, KeptFrom(k, r) PROVE SoundFrom(k, r)
BY WholeIsSound DEF KeptFrom, SoundFrom

\* A handler that closes: k is the connection as it stands in the handler.
LEMMA CloseStep ==
    ASSUME Together, NEW c \in Conn, NEW k, SoundFrom(conn[c], k), conn[c].socket # "none",
           NEW force \in BOOLEAN, Closing(c, k, force), PortLeaves(c), Frame'
    PROVE  Together'
<1>1. conn' = [conn EXCEPT ![c] = CloseLocked(k, force)]
  BY DEF Closing
<1>2. PICK r : r = CloseLocked(k, force)
  OBVIOUS
<1>3. CASE k.closed
  <2>1. CloseLocked(k, force) = k /\ UNCHANGED managerVars
    BY <1>3 DEF CloseLocked, Closing
  <2>2. KeptFrom(conn[c], k)
    BY <1>3, WholeIsSound DEF SoundFrom, KeptFrom
  <2>3. QED
    BY <1>1, <2>1, <2>2, KeepStep
<1>4. CASE ~k.closed
  <2>1. ClosedFrom(k, r)
    BY <1>2, CloseLockedWhole DEF SoundFrom
  <2>2. ClosedFrom(conn[c], r)
    BY <2>1 DEF ClosedFrom, SoundFrom
  <2>3. ReleaseConnection(c)
    BY <1>4 DEF Closing
  <2>4. conn' = [conn EXCEPT ![c] = r]
    BY <1>1, <1>2
  <2>5. QED
    BY <2>2, <2>3, <2>4, ReleaseStep
<1>5. QED
  BY <1>3, <1>4

-----------------------------------------------------------------------------
(***************************************************************************)
(* The actions.                                                            *)
(***************************************************************************)
\* r is k apart from its socket, timers and read.
LEMMA SameKept ==
    ASSUME NEW k, Whole(k), NEW r \in Record, SameOutput(k, r), r.trackedIp = k.trackedIp,
           k.socket # "none" => r.socket # "none"
    PROVE  KeptFrom(k, r)
BY SameWhole DEF KeptFrom, SameOutput

LEMMA KeptTwice ==
    ASSUME NEW j, NEW k, NEW r, KeptFrom(j, k), KeptFrom(k, r)
    PROVE  KeptFrom(j, r)
BY DEF KeptFrom

\* A read that ended.
Read(k) == Cancel([k EXCEPT !.read = "none"], "read")

LEMMA ReadKept ==
    ASSUME NEW k, Whole(k)
    PROVE  KeptFrom(k, Read(k)) /\ SameOutput(k, Read(k)) /\ Read(k) \in Record
<1> DEFINE j == [k EXCEPT !.read = "none"]
<1>1. k \in Record
  BY DEF Whole
<1>2. j \in Record /\ SameOutput(k, j) /\ j.trackedIp = k.trackedIp /\ j.socket = k.socket
  BY <1>1 DEF Record, SameOutput
<1> HIDE DEF j
<1>3. PICK r : r = Cancel(j, "read")
  OBVIOUS
<1>4. r \in Record /\ SameOutput(j, r) /\ r.trackedIp = j.trackedIp /\ r.socket = j.socket
  BY <1>2, <1>3, CancelFields DEF Timers
<1>5. SameOutput(k, r) /\ r.trackedIp = k.trackedIp /\ r.socket = k.socket
  BY <1>2, <1>4 DEF SameOutput
<1>6. KeptFrom(k, r)
  BY <1>4, <1>5, SameKept
<1>7. QED
  BY <1>3, <1>4, <1>5, <1>6 DEF Read, j

\* A read that is started.
Reading(k, x) == Arm([k EXCEPT !.read = x], "read")

LEMMA ReadingKept ==
    ASSUME NEW k, Whole(k), NEW x \in {"none", "header", "body"}
    PROVE  KeptFrom(k, Reading(k, x))
<1> DEFINE j == [k EXCEPT !.read = x]
<1>1. k \in Record
  BY DEF Whole
<1>2. j \in Record /\ SameOutput(k, j) /\ j.trackedIp = k.trackedIp /\ j.socket = k.socket
  BY <1>1 DEF Record, SameOutput
<1> HIDE DEF j
<1>3. PICK r : r = Arm(j, "read")
  OBVIOUS
<1>4. r \in Record /\ SameOutput(j, r) /\ r.trackedIp = j.trackedIp /\ r.socket = j.socket
  BY <1>2, <1>3, ArmFields DEF Timers
<1>5. SameOutput(k, r) /\ r.trackedIp = k.trackedIp /\ r.socket = k.socket
  BY <1>2, <1>4 DEF SameOutput
<1>6. KeptFrom(k, r)
  BY <1>4, <1>5, SameKept
<1>7. QED
  BY <1>3, <1>6 DEF Reading, j

\* The handlers of one connection leave port, service and the pool alone.
LEMMA HandlerFrame ==
    ASSUME Together, UNCHANGED <<port, service, poolVars>>, NEW c \in Conn, port # c
    PROVE  PortLeaves(c) /\ Frame'
BY DEF Together, Frame, PortLeaves, poolVars

LEMMA ReadFailsStep ==
    ASSUME Together, NEW c \in Conn, ReadFails(c)
    PROVE  Together'
<1>1. conn[c].socket # "none" /\ port # c /\ Whole(conn[c])
  BY UsedIsOld DEF ReadFails, Used
<1>2. PortLeaves(c) /\ Frame'
  BY <1>1, HandlerFrame DEF ReadFails
<1>3. PICK k : k = Read(conn[c])
  OBVIOUS
<1>4. SoundFrom(conn[c], k)
  BY <1>1, <1>3, ReadKept, KeptIsSound
<1>5. Closing(c, k, TRUE)
  BY <1>3 DEF ReadFails, Read
<1>6. QED
  BY <1>1, <1>2, <1>4, <1>5, CloseStep

LEMMA ReadAfterCloseStep ==
    ASSUME Together, NEW c \in Conn, ReadAfterClose(c)
    PROVE  Together'
<1>1. conn[c].socket # "none" /\ port # c /\ Whole(conn[c])
  BY UsedIsOld DEF ReadAfterClose, Used
<1>2. PortLeaves(c) /\ Frame'
  BY <1>1, HandlerFrame DEF ReadAfterClose
<1>3. PICK k : k = Read(conn[c])
  OBVIOUS
<1>4. KeptFrom(conn[c], k)
  BY <1>1, <1>3, ReadKept
<1>5. conn' = [conn EXCEPT ![c] = k] /\ UNCHANGED managerVars
  BY <1>3 DEF ReadAfterClose, Read, Update
<1>6. QED
  BY <1>1, <1>2, <1>4, <1>5, KeepStep

LEMMA ParseHeaderStep ==
    ASSUME Together, NEW c \in Conn, ParseHeader(c)
    PROVE  Together'
<1>1. conn[c].socket # "none" /\ port # c /\ Whole(conn[c])
  BY UsedIsOld DEF ParseHeader, Used
<1>2. PortLeaves(c) /\ Frame'
  BY <1>1, HandlerFrame DEF ParseHeader
<1>3. PICK k : k = Read(conn[c])
  OBVIOUS
<1>4. KeptFrom(conn[c], k) /\ SoundFrom(conn[c], k) /\ Whole(k)
  BY <1>1, <1>3, ReadKept, KeptIsSound DEF KeptFrom
<1>5. \/ \E force \in BOOLEAN : Closing(c, k, force)
      \/ Update(c, Reading(k, "body"))
  BY <1>3 DEF ParseHeader, Read, Reading
<1>6. CASE \E force \in BOOLEAN : Closing(c, k, force)
  BY <1>1, <1>2, <1>4, <1>6, CloseStep
<1>7. CASE Update(c, Reading(k, "body"))
  <2>1. PICK r : r = Reading(k, "body")
    OBVIOUS
  <2>2. KeptFrom(conn[c], r)
    BY <1>4, <2>1, ReadingKept, KeptTwice
  <2>3. conn' = [conn EXCEPT ![c] = r] /\ UNCHANGED managerVars
    BY <1>7, <2>1 DEF Update
  <2>4. QED
    BY <1>1, <1>2, <2>2, <2>3, KeepStep
<1>8. QED
  BY <1>5, <1>6, <1>7

LEMMA ParsePacketStep ==
    ASSUME Together, NEW c \in Conn, ParsePacket(c)
    PROVE  Together'
<1>1. conn[c].socket # "none" /\ port # c /\ Whole(conn[c]) /\ ~conn[c].closed
  BY UsedIsOld DEF ParsePacket, Used
<1>2. PortLeaves(c) /\ Frame'
  BY <1>1, HandlerFrame DEF ParsePacket
<1>3. PICK k : k = Read(conn[c])
  OBVIOUS
<1>4. KeptFrom(conn[c], k) /\ SoundFrom(conn[c], k) /\ Whole(k) /\ k \in Record /\ ~k.closed
  BY <1>1, <1>3, ReadKept, KeptIsSound DEF KeptFrom
<1>5. PICK p : p = [k EXCEPT !.protocol = TRUE]
  OBVIOUS
<1>6. Whole(p) /\ KeptFrom(k, p) /\ ~p.closed
  <2>1. /\ p \in Record /\ p.closed = k.closed /\ p.release = k.release
        /\ p.messageQueue = k.messageQueue /\ p.write = k.write /\ p.wire = k.wire
        /\ p.outputBuffer = k.outputBuffer /\ p.written = k.written
        /\ p.socket = k.socket /\ p.trackedIp = k.trackedIp
    BY <1>4, <1>5 DEF Record
  <2>2. Whole(p)
    BY <1>4, <2>1 DEF Whole, Released, Orderly
  <2>3. QED
    BY <1>4, <2>1, <2>2 DEF KeptFrom
<1>7. \/ Closing(c, k, TRUE)
      \/ Update(c, Reading(p, "header"))
      \/ \E m \in LastWords :
            /\ conn' = [conn EXCEPT ![c] = Reading(CloseLocked(Said(p, m), FALSE), "header")]
            /\ ReleaseConnection(c)
  BY <1>3, <1>5 DEF ParsePacket, Read, Reading
<1>8. CASE Closing(c, k, TRUE)
  BY <1>1, <1>2, <1>4, <1>8, CloseStep
<1>9. CASE Update(c, Reading(p, "header"))
  <2>1. PICK r : r = Reading(p, "header")
    OBVIOUS
  <2>2. KeptFrom(conn[c], r)
    BY <1>4, <1>6, <2>1, ReadingKept, KeptTwice
  <2>3. conn' = [conn EXCEPT ![c] = r] /\ UNCHANGED managerVars
    BY <1>9, <2>1 DEF Update
  <2>4. QED
    BY <1>1, <1>2, <2>2, <2>3, KeepStep
<1>10. ASSUME NEW m \in LastWords,
              conn' = [conn EXCEPT ![c] = Reading(CloseLocked(Said(p, m), FALSE), "header")],
              ReleaseConnection(c)
       PROVE  Together'
  <2>1. PICK y : y = CloseLocked(Said(p, m), FALSE)
    OBVIOUS
  <2>2. ClosedFrom(p, y)
    BY <1>6, <2>1, FarewellWhole
  <2>3. PICK r : r = Reading(y, "header")
    OBVIOUS
  <2>4. KeptFrom(y, r)
    BY <2>2, <2>3, ReadingKept DEF ClosedFrom
  <2>5. ClosedFrom(conn[c], r)
    BY <1>4, <1>6, <2>2, <2>4 DEF ClosedFrom, KeptFrom
  <2>6. conn' = [conn EXCEPT ![c] = r]
    BY <1>10, <2>1, <2>3
  <2>7. QED
    BY <1>1, <1>2, <1>10, <2>5, <2>6, ReleaseStep
<1>11. QED
  BY <1>7, <1>8, <1>9, <1>10

\* The record with another state of its write, and its timer.
LEMMA RewrittenFields ==
    ASSUME NEW k \in Record, NEW x \in {"none", "posted", "writing", "written"}
    PROVE  /\ Rewritten(k, [k EXCEPT !.write = x], x)
           /\ Rewritten(k, Arm([k EXCEPT !.write = x], "write"), x)
<1> DEFINE j == [k EXCEPT !.write = x]
<1>1. Rewritten(k, j, x) /\ j \in Record
  BY DEF Rewritten, Record
<1> HIDE DEF j
<1>2. PICK r : r = Arm(j, "write")
  OBVIOUS
<1>3. r \in Record /\ SameOutput(j, r) /\ r.socket = j.socket /\ r.trackedIp = j.trackedIp
  BY <1>1, <1>2, ArmFields DEF Timers
<1>4. Rewritten(k, r, x)
  BY <1>1, <1>3 DEF Rewritten, SameOutput
<1>5. QED
  BY <1>1, <1>2, <1>4 DEF j

LEMMA InternalSendStep ==
    ASSUME Together, NEW c \in Conn, InternalSend(c)
    PROVE  Together'
<1>1. conn[c].socket # "none" /\ port # c /\ Whole(conn[c]) /\ conn[c].write = "posted"
  BY UsedIsOld DEF InternalSend, Used
<1>2. PortLeaves(c) /\ Frame'
  BY <1>1, HandlerFrame DEF InternalSend
<1>3. PICK r : r = Arm([conn[c] EXCEPT !.write = "writing"], "write")
  OBVIOUS
<1>4. conn[c] \in Record
  BY <1>1 DEF Whole
<1>5. Rewritten(conn[c], r, "writing")
  BY <1>3, <1>4, RewrittenFields
<1>6. KeptFrom(conn[c], r)
  BY <1>1, <1>5, RewrittenWhole
<1>7. conn' = [conn EXCEPT ![c] = r] /\ UNCHANGED managerVars
  BY <1>3 DEF InternalSend, Update
<1>8. QED
  BY <1>1, <1>2, <1>6, <1>7, KeepStep

LEMMA InternalSendFailsStep ==
    ASSUME Together, NEW c \in Conn, InternalSendFails(c)
    PROVE  Together'
<1>1. conn[c].socket # "none" /\ port # c /\ Whole(conn[c]) /\ conn[c].write = "posted"
  BY UsedIsOld DEF InternalSendFails, Used
<1>2. PortLeaves(c) /\ Frame'
  BY <1>1, HandlerFrame DEF InternalSendFails
<1>3. PICK r : r = [conn[c] EXCEPT !.write = "none"]
  OBVIOUS
<1>4. conn[c] \in Record
  BY <1>1 DEF Whole
<1>5. Rewritten(conn[c], r, "none")
  BY <1>3, <1>4, RewrittenFields
<1>6. SoundFrom(conn[c], r)
  BY <1>1, <1>5, RewrittenWhole, KeptIsSound
<1>7. Closing(c, r, TRUE)
  BY <1>3 DEF InternalSendFails
<1>8. QED
  BY <1>1, <1>2, <1>6, <1>7, CloseStep

LEMMA PeerReadsStep ==
    ASSUME Together, NEW c \in Conn, PeerReads(c)
    PROVE  Together'
<1>1. conn[c].socket # "none" /\ port # c /\ Whole(conn[c]) /\ conn[c].write = "writing"
  BY UsedIsOld DEF PeerReads, Used
<1>2. PortLeaves(c) /\ Frame'
  BY <1>1, HandlerFrame DEF PeerReads
<1>3. PICK k : k = conn[c]
  OBVIOUS
<1>4. PICK r : r = [k EXCEPT !.write = "written", !.wire = @ \o Head(k.messageQueue)]
  OBVIOUS
<1>5. KeptFrom(k, r)
  BY <1>1, <1>3, <1>4, PeerReadsWhole
<1>6. conn' = [conn EXCEPT ![c] = r] /\ UNCHANGED managerVars
  BY <1>3, <1>4 DEF PeerReads, Update
<1>7. QED
  BY <1>1, <1>2, <1>3, <1>5, <1>6, KeepStep

LEMMA OnWriteOperationStep ==
    ASSUME Together, NEW c \in Conn, OnWriteOperation(c)
    PROVE  Together'
<1>1. conn[c].socket # "none" /\ port # c /\ Whole(conn[c]) /\ conn[c].write = "written"
  BY UsedIsOld DEF OnWriteOperation, Used
<1>2. PortLeaves(c) /\ Frame'
  BY <1>1, HandlerFrame DEF OnWriteOperation
<1>3. PICK k : k = conn[c]
  OBVIOUS
<1>4. PICK j : j = Cancel([k EXCEPT !.messageQueue = Tail(@)], "write")
  OBVIOUS
<1>5. PICK r : r = IF j.messageQueue # <<>> THEN Arm([j EXCEPT !.write = "writing"], "write")
                   ELSE IF j.closed THEN CloseSocket([j EXCEPT !.write = "none"])
                   ELSE [j EXCEPT !.write = "none"]
  OBVIOUS
<1>6. KeptFrom(k, r)
  BY <1>1, <1>3, <1>4, <1>5, OnWriteWhole
<1>7. conn' = [conn EXCEPT ![c] = r] /\ UNCHANGED managerVars
  BY <1>3, <1>4, <1>5 DEF OnWriteOperation, Update
<1>8. QED
  BY <1>1, <1>2, <1>3, <1>6, <1>7, KeepStep

\* A failed write throws the queue away.
LEMMA WriteFailsStep ==
    ASSUME Together, NEW c \in Conn, WriteFails(c)
    PROVE  Together'
<1>1. conn[c].socket # "none" /\ port # c /\ Whole(conn[c]) /\ conn[c].write = "writing"
  BY UsedIsOld DEF WriteFails, Used
<1>2. PortLeaves(c) /\ Frame'
  BY <1>1, HandlerFrame DEF WriteFails
<1>3. PICK k : k = conn[c]
  OBVIOUS
<1>4. PICK j : j = [k EXCEPT !.write = "none", !.messageQueue = <<>>]
  OBVIOUS
<1>5. /\ j \in Record /\ j.closed = k.closed /\ j.protocol = k.protocol /\ j.release = k.release
      /\ j.messageQueue = <<>> /\ j.write = "none" /\ j.wire = k.wire
      /\ j.socket = k.socket /\ j.trackedIp = k.trackedIp
  <2>1. k \in Record /\ <<>> \in Seq(Seq(Nat))
    BY <1>1, <1>3 DEF Whole
  <2>2. QED
    BY <1>4, <2>1 DEF Record
<1>6. PICK r : r = Cancel(j, "write")
  OBVIOUS
<1>7. r \in Record /\ SameOutput(j, r) /\ r.socket = j.socket /\ r.trackedIp = j.trackedIp
  BY <1>5, <1>6, CancelFields DEF Timers
<1>8. Queue(<<>>, r.closed) /\ Seam(<<>>, r.wire, "none")
  BY DEF Queue, Seam
<1>9. SoundFrom(k, r)
  BY <1>1, <1>3, <1>5, <1>7, <1>8 DEF SoundFrom, Sound, Whole, Orderly, Released, SameOutput
<1>10. Closing(c, r, TRUE)
  BY <1>3, <1>4, <1>6 DEF WriteFails
<1>11. QED
  BY <1>1, <1>2, <1>3, <1>9, <1>10, CloseStep

LEMMA ExpireStep ==
    ASSUME Together, NEW c \in Conn, NEW t \in Timers, Expire(c, t)
    PROVE  Together'
<1>1. conn[c].socket # "none" /\ port # c /\ Whole(conn[c])
  BY UsedIsOld DEF Expire, Used
<1>2. PortLeaves(c) /\ Frame'
  BY <1>1, HandlerFrame DEF Expire
<1>3. PICK k : k = conn[c]
  OBVIOUS
<1>4. PICK r : r = [k EXCEPT !.armed = @ \ {t}, !.due = @ \cup {t}]
  OBVIOUS
<1>5. r \in Record /\ SameOutput(k, r) /\ r.trackedIp = k.trackedIp /\ r.socket = k.socket
  <2>1. k \in Record
    BY <1>1, <1>3 DEF Whole
  <2>2. QED
    BY <1>4, <2>1 DEF Record, SameOutput
<1>6. KeptFrom(k, r)
  BY <1>1, <1>3, <1>5, SameKept
<1>7. conn' = [conn EXCEPT ![c] = r] /\ UNCHANGED managerVars
  BY <1>3, <1>4 DEF Expire, Update
<1>8. QED
  BY <1>1, <1>2, <1>3, <1>6, <1>7, KeepStep

LEMMA HandleTimeoutStep ==
    ASSUME Together, NEW c \in Conn, NEW t \in Timers, HandleTimeout(c, t)
    PROVE  Together'
<1>1. conn[c].socket # "none" /\ port # c /\ Whole(conn[c])
  BY UsedIsOld DEF HandleTimeout, Used
<1>2. PortLeaves(c) /\ Frame'
  BY <1>1, HandlerFrame DEF HandleTimeout
<1>3. PICK k : k = conn[c]
  OBVIOUS
<1>4. PICK r : r = [k EXCEPT !.due = @ \ {t}]
  OBVIOUS
<1>5. r \in Record /\ SameOutput(k, r) /\ r.trackedIp = k.trackedIp /\ r.socket = k.socket
  <2>1. k \in Record
    BY <1>1, <1>3 DEF Whole
  <2>2. QED
    BY <1>4, <2>1 DEF Record, SameOutput
<1>6. SoundFrom(k, r)
  BY <1>1, <1>3, <1>5, SameKept, KeptIsSound
<1>7. Closing(c, r, TRUE)
  BY <1>3, <1>4 DEF HandleTimeout
<1>8. QED
  BY <1>1, <1>2, <1>3, <1>6, <1>7, CloseStep

LEMMA DestroyStep ==
    ASSUME Together, NEW c \in Conn, Destroy(c)
    PROVE  Together'
<1>1. conn[c].socket # "none" /\ port # c /\ Whole(conn[c])
  BY UsedIsOld DEF Destroy, Used
<1>2. PortLeaves(c) /\ Frame'
  BY <1>1, HandlerFrame DEF Destroy
<1>3. PICK k : k = conn[c]
  OBVIOUS
<1>4. PICK r : r = CloseSocket(k)
  OBVIOUS
<1>5. /\ r \in Record /\ SameOutput(k, r) /\ r.trackedIp = k.trackedIp
      /\ k.socket # "none" => r.socket # "none"
  <2>1. k \in Record
    BY <1>1, <1>3 DEF Whole
  <2>2. QED
    BY <1>4, <2>1, CloseSocketFields
<1>6. KeptFrom(k, r)
  BY <1>1, <1>3, <1>5, SameKept
<1>7. conn' = [conn EXCEPT ![c] = r] /\ UNCHANGED managerVars
  BY <1>3, <1>4 DEF Destroy, Update
<1>8. QED
  BY <1>1, <1>2, <1>3, <1>6, <1>7, KeepStep

LEMMA WriteToOutputBufferStep ==
    ASSUME Together, NEW c \in Conn, WriteToOutputBuffer(c)
    PROVE  Together'
<1>1. conn[c].socket # "none" /\ port # c /\ Whole(conn[c])
  BY UsedIsOld DEF WriteToOutputBuffer, Used
<1>2. PortLeaves(c) /\ Frame'
  BY <1>1 DEF WriteToOutputBuffer, Autosend, Together, Frame, PortLeaves, poolVars
<1>3. PICK k : k = conn[c]
  OBVIOUS
<1>4. k \in Record /\ k.written \in 0 .. MaxWrites /\ k.inAutosend \in BOOLEAN
  BY <1>1, <1>3 DEF Whole, Record
<1>5. PICK n : n = k.written + 1
  OBVIOUS
<1>6. n \in 0 .. MaxWrites
  BY <1>3, <1>4, <1>5, LimitAssumption DEF WriteToOutputBuffer
<1>7. PICK adds \in BOOLEAN : adds = (~k.inAutosend /\ (k.outputBuffer = <<>> \/ Len(k.outputBuffer) >= MaxBody))
  OBVIOUS
<1>8. PICK b : b = Buffered(k, n)
  OBVIOUS
<1>9. PICK a \in BOOLEAN : a = (b.inAutosend \/ adds)
  OBVIOUS
<1>10. PICK r : r = [b EXCEPT !.written = n, !.inAutosend = a]
  OBVIOUS
<1>11. Whole(r) /\ r.closed = k.closed /\ r.trackedIp = k.trackedIp /\ r.socket = k.socket
  <2>1. Whole(k) /\ n = k.written + 1 /\ a \in BOOLEAN /\ Grown(k, n, a, r)
    BY <1>1, <1>3, <1>5, <1>8, <1>9, <1>10 DEF Grown
  <2>2. QED
    BY ONLY <1>6, <2>1, BufferedWhole
<1>12. KeptFrom(k, r)
  BY <1>11 DEF KeptFrom
<1>13. conn' = [conn EXCEPT ![c] = r] /\ UNCHANGED managerVars
  BY <1>3, <1>5, <1>7, <1>8, <1>9, <1>10 DEF WriteToOutputBuffer, Update
<1>14. QED
  BY <1>1, <1>2, <1>3, <1>12, <1>13, KeepStep

LEMMA DisconnectClientStep ==
    ASSUME Together, NEW c \in Conn, DisconnectClient(c)
    PROVE  Together'
<1>1. conn[c].socket # "none" /\ port # c /\ Whole(conn[c]) /\ ~conn[c].closed
  BY UsedIsOld DEF DisconnectClient, Used
<1>2. PortLeaves(c) /\ Frame'
  BY <1>1, HandlerFrame DEF DisconnectClient
<1>3. PICK m \in LastWords : Closing(c, Said(conn[c], m), FALSE)
  BY DEF DisconnectClient
<1>4. PICK k : k = conn[c]
  OBVIOUS
<1>5. PICK r : r = CloseLocked(Said(k, m), FALSE)
  OBVIOUS
<1>6. ClosedFrom(k, r)
  BY <1>1, <1>4, <1>5, FarewellWhole
<1>7. ~Said(k, m).closed
  <2>1. k \in Record
    BY <1>1, <1>4 DEF Whole
  <2>2. Goodbye \in Seq(Nat)
    BY GoodbyeIsNoWord
  <2>3. ~Sent(k, Goodbye).closed
    BY <1>1, <1>4, <2>1, <2>2, SentFields DEF SameBut
  <2>4. QED
    BY <1>1, <1>4, <2>3 DEF Said, LastWords
<1>8. conn' = [conn EXCEPT ![c] = r] /\ ReleaseConnection(c)
  BY <1>3, <1>4, <1>5, <1>7 DEF Closing
<1>9. QED
  BY <1>1, <1>2, <1>4, <1>6, <1>8, ReleaseStep

LEMMA ReleaseOneStep ==
    ASSUME Together, NEW c \in Conn, Release(c)
    PROVE  Together'
<1>1. conn[c].socket # "none" /\ port # c /\ Whole(conn[c])
  BY UsedIsOld DEF Release, Used
<1>2. PortLeaves(c) /\ Frame'
  BY <1>1, HandlerFrame DEF Release
<1>3. PICK k : k = conn[c]
  OBVIOUS
<1>4. PICK r : r = [k EXCEPT !.inAutosend = FALSE]
  OBVIOUS
<1>5. r \in Record /\ SameOutput(k, r) /\ r.trackedIp = k.trackedIp /\ r.socket = k.socket
  <2>1. k \in Record
    BY <1>1, <1>3 DEF Whole
  <2>2. QED
    BY <1>4, <2>1 DEF Record, SameOutput
<1>6. KeptFrom(k, r)
  BY <1>1, <1>3, <1>5, SameKept
<1>7. conn' = [conn EXCEPT ![c] = r] /\ UNCHANGED managerVars
  BY <1>3, <1>4 DEF Release, Update
<1>8. QED
  BY <1>1, <1>2, <1>3, <1>6, <1>7, KeepStep

\* A step on many connections that closes none.
LEMMA AllStep ==
    ASSUME Together, conn' = [c \in Conn |-> conn'[c]],
           \A c \in Conn : /\ KeptFrom(conn[c], conn'[c])
                           /\ conn[c] = Fresh => conn'[c] = Fresh
                           /\ conn[c] = Newborn => conn'[c] = Newborn,
           port' = port, Frame',
           \/ UNCHANGED managerVars
           \/ connections' = {} /\ ipCount' = [a \in Ip |-> 0]
    PROVE  Together'
<1>1. connections' \subseteq connections /\ connections' \subseteq Conn
  BY DEF Together, managerVars
<1>2. \A c \in Conn : Good(c, conn'[c], connections', port')
  BY <1>1 DEF Together, Good, KeptFrom
<1>3. Counts(connections', conn', ipCount') /\ ipCount' = [a \in Ip |-> ipCount'[a]]
  <2>1. CASE UNCHANGED managerVars
    <3>1. connections' = connections /\ ipCount' = ipCount
      BY <2>1 DEF managerVars
    <3>2. \A c \in connections : conn'[c].trackedIp = conn[c].trackedIp
      BY DEF Together, KeptFrom
    <3>3. Counts(connections, conn', ipCount)
      BY <3>2, CountsSame DEF Together
    <3>4. QED
      BY <3>1, <3>3 DEF Together
  <2>2. CASE connections' = {} /\ ipCount' = [a \in Ip |-> 0]
    <3>1. Cardinality({}) = 0
      BY FS_EmptySet
    <3>2. \A a \in Ip : Holders(a, {}, conn') = {}
      BY DEF Holders
    <3>3. QED
      BY <2>2, <3>1, <3>2, LimitAssumption DEF Counts
  <2>3. QED
    BY <2>1, <2>2
<1>4. QED
  BY <1>1, <1>2, <1>3 DEF Together

LEMMA SendAllStep ==
    ASSUME Together, SendAll
    PROVE  Together'
<1>1. conn' = [c \in Conn |-> Flushed(conn[c])]
  BY DEF SendAll, Flushed
<1>2. port' = port /\ Frame' /\ UNCHANGED managerVars
  BY DEF SendAll, Together, Frame
<1>3. ~Fresh.inAutosend /\ ~Newborn.inAutosend
  BY DEF Fresh, Newborn
<1>4. ASSUME NEW c \in Conn
      PROVE  /\ KeptFrom(conn[c], conn'[c])
             /\ conn[c] = Fresh => conn'[c] = Fresh
             /\ conn[c] = Newborn => conn'[c] = Newborn
  <2>1. PICK k : k = conn[c]
    OBVIOUS
  <2>2. Whole(k)
    BY <2>1 DEF Together, Good
  <2>3. KeptFrom(k, Flushed(k)) /\ (~k.inAutosend => Flushed(k) = k)
    BY <2>2, FlushedWhole
  <2>4. conn'[c] = Flushed(k)
    BY <1>1, <2>1
  <2>5. QED
    BY <1>3, <2>1, <2>3, <2>4
<1>5. QED
  BY <1>1, <1>2, <1>4, AllStep

LEMMA ReleaseAllProtocolsStep ==
    ASSUME Together, ReleaseAllProtocols
    PROVE  Together'
<1>1. conn' = [c \in Conn |-> IF c \in connections THEN [conn[c] EXCEPT !.protocol = FALSE] ELSE conn[c]]
  BY DEF ReleaseAllProtocols
<1>2. port' = port /\ Frame' /\ UNCHANGED managerVars
  BY DEF ReleaseAllProtocols, Together, Frame, poolVars
<1>3. ASSUME NEW c \in Conn
      PROVE  /\ KeptFrom(conn[c], conn'[c])
             /\ conn[c] = Fresh => conn'[c] = Fresh
             /\ conn[c] = Newborn => conn'[c] = Newborn
  <2>1. PICK k : k = conn[c]
    OBVIOUS
  <2>2. Whole(k) /\ k \in Record
    BY <2>1 DEF Together, Good, Whole
  <2>3. CASE c \in connections
    <3>1. PICK r : r = [k EXCEPT !.protocol = FALSE]
      OBVIOUS
    <3>2. /\ r \in Record /\ r.closed = k.closed /\ r.protocol = FALSE /\ r.release = k.release
          /\ r.messageQueue = k.messageQueue /\ r.write = k.write /\ r.wire = k.wire
          /\ r.outputBuffer = k.outputBuffer /\ r.written = k.written
          /\ r.socket = k.socket /\ r.trackedIp = k.trackedIp
      BY <2>2, <3>1 DEF Record
    <3>3. Whole(r)
      BY <2>2, <3>2 DEF Whole, Released, Orderly
    <3>4. (k = Fresh => r = Fresh) /\ (k = Newborn => r = Newborn)
      <4>1. k.protocol = FALSE => r = k
        BY <2>2, <3>1 DEF Record
      <4>2. Fresh.protocol = FALSE /\ Newborn.protocol = FALSE
        BY DEF Fresh, Newborn
      <4>3. QED
        BY <4>1, <4>2
    <3>5. QED
      BY <1>1, <2>1, <2>3, <3>1, <3>2, <3>3, <3>4 DEF KeptFrom
  <2>4. CASE c \notin connections
    BY <1>1, <2>1, <2>2, <2>4 DEF KeptFrom
  <2>5. QED
    BY <2>3, <2>4
<1>4. QED
  BY <1>1, <1>2, <1>3, AllStep

LEMMA CloseAllStep ==
    ASSUME Together, CloseAll
    PROVE  Together'
<1>1. conn' = [c \in Conn |-> IF c \in connections /\ conn[c].socket = "open"
                              THEN [conn[c] EXCEPT !.socket = "shut"] ELSE conn[c]]
  BY DEF CloseAll
<1>2. port' = port /\ Frame' /\ connections' = {} /\ ipCount' = [a \in Ip |-> 0]
  BY DEF CloseAll, Together, Frame, poolVars
<1>3. ASSUME NEW c \in Conn
      PROVE  /\ KeptFrom(conn[c], conn'[c])
             /\ conn[c] = Fresh => conn'[c] = Fresh
             /\ conn[c] = Newborn => conn'[c] = Newborn
  <2>1. PICK k : k = conn[c]
    OBVIOUS
  <2>2. Whole(k) /\ k \in Record
    BY <2>1 DEF Together, Good, Whole
  <2>3. CASE c \in connections /\ k.socket = "open"
    <3>1. PICK r : r = [k EXCEPT !.socket = "shut"]
      OBVIOUS
    <3>2. r \in Record /\ SameOutput(k, r) /\ r.trackedIp = k.trackedIp /\ r.socket = "shut"
      BY <2>2, <3>1 DEF Record, SameOutput
    <3>3. KeptFrom(k, r)
      BY <2>2, <3>2, SameKept
    <3>4. k # Fresh /\ k # Newborn
      BY <2>3 DEF Fresh, Newborn
    <3>5. QED
      BY <1>1, <2>1, <2>3, <3>1, <3>3, <3>4
  <2>4. CASE ~(c \in connections /\ k.socket = "open")
    BY <1>1, <2>1, <2>2, <2>4 DEF KeptFrom
  <2>5. QED
    BY <2>3, <2>4
<1>4. QED
  BY <1>1, <1>2, <1>3, AllStep

\* A connection that was made and not used yet.
LEMMA NewbornWhole ==
    /\ Fresh \in Record /\ Newborn \in Record /\ Whole(Fresh) /\ Whole(Newborn)
    /\ Newborn.trackedIp = NoIp /\ Fresh.trackedIp = NoIp /\ ~Newborn.closed /\ ~Fresh.closed
    /\ Newborn.socket = "new" /\ Newborn.release = 0
<1>1. Fresh \in Record
  <2>1. 0 \in 0 .. MaxWrites
    BY LimitAssumption
  <2>2. QED
    BY <2>1 DEF Fresh, Record
<1>2. Whole(Fresh)
  <2>1. /\ Fresh.wire = <<>> /\ Fresh.messageQueue = <<>> /\ Fresh.write = "none" /\ Fresh.written = 0
        /\ Fresh.closed = FALSE /\ Fresh.outputBuffer = <<>> /\ Fresh.release = 0 /\ Fresh.trackedIp = NoIp
    BY DEF Fresh
  <2>2. OnWire(<<>>) /\ Plain(<<>>) /\ Queue(<<>>, FALSE) /\ Seam(<<>>, <<>>, "none")
    BY DEF OnWire, Plain, Queue, Seam
  <2>3. Buffer(<<>>, <<>>, <<>>, 0)
    BY <2>2 DEF Buffer, Top
  <2>4. PICK k : k = Fresh
    OBVIOUS
  <2>5. /\ k.wire = <<>> /\ k.messageQueue = <<>> /\ k.write = "none" /\ k.written = 0
        /\ k.closed = FALSE /\ k.outputBuffer = <<>> /\ k.release = 0 /\ k \in Record
    BY <1>1, <2>1, <2>4
  <2>6. Released(k)
    BY <2>5 DEF Released
  <2>7. Orderly(k)
    BY <2>2, <2>3, <2>5 DEF Orderly
  <2>8. QED
    BY <2>4, <2>5, <2>6, <2>7 DEF Whole
<1>3. Newborn \in Record /\ SameOutput(Fresh, Newborn) /\ Newborn.trackedIp = Fresh.trackedIp /\ Newborn.socket = "new"
  BY <1>1 DEF Newborn, Record, SameOutput
<1>4. Fresh.trackedIp = NoIp /\ ~Fresh.closed /\ Fresh.release = 0
  BY DEF Fresh
<1>5. QED
  BY <1>1, <1>2, <1>3, <1>4, SameWhole DEF SameOutput

LEMMA AcceptStep ==
    ASSUME Together, Accept
    PROVE  Together'
<1>1. CASE UNCHANGED <<conn, managerVars>> /\ port' \in {"retry", "ended"}
  <2>1. conn' = conn /\ connections' = connections /\ ipCount' = ipCount
    BY <1>1 DEF managerVars
  <2>2. Frame'
    BY <1>1 DEF Accept, Together, Frame, poolVars
  <2>3. \A c \in Conn : port' # c
    BY <1>1, LimitAssumption
  <2>4. QED
    BY <2>1, <2>2, <2>3 DEF Together, Good
<1>2. ASSUME NEW c \in Conn, conn[c].socket = "none", port' = c, connections' = connections \cup {c},
             conn' = [conn EXCEPT ![c].socket = "new"], UNCHANGED ipCount,
             ~(Cardinality(connections) >= MaxConnections)
      PROVE  Together'
  <2>1. conn[c] = Fresh /\ c \notin connections
    BY <1>2 DEF Together, Good
  <2>2. /\ conn' = [d \in Conn |-> conn'[d]] /\ conn'[c] = Newborn
        /\ \A d \in Conn \ {c} : conn'[d] = conn[d]
    BY <1>2, <2>1 DEF Together, Newborn
  <2>3. Frame'
    BY <1>2 DEF Accept, Together, Frame, poolVars
  <2>4. ASSUME NEW d \in Conn PROVE Good(d, conn'[d], connections', port')
    <3>1. CASE d = c
      BY <2>2, <3>1, NewbornWhole DEF Good
    <3>2. CASE d # c
      BY <1>2, <2>2, <3>2 DEF Together, Good
    <3>3. QED
      BY <3>1, <3>2
  <2>5. /\ connections \in SUBSET Conn /\ Counts(connections, conn, ipCount)
        /\ conn'[c].trackedIp = NoIp
        /\ \A d \in connections : conn'[d].trackedIp = conn[d].trackedIp
    BY <2>1, <2>2, NewbornWhole DEF Together
  <2>6. Counts(connections \cup {c}, conn', ipCount)
    BY <1>2, <2>1, <2>5, CountsAdd
  <2>7. QED
    BY <1>2, <2>2, <2>3, <2>4, <2>5, <2>6 DEF Together
<1>3. QED
  BY <1>1, <1>2 DEF Accept

LEMMA RetryStep ==
    ASSUME Together, Retry
    PROVE  Together'
<1>1. conn' = conn /\ connections' = connections /\ ipCount' = ipCount /\ port' \in {"accept", "ended"}
  BY DEF Retry, managerVars
<1>2. Frame'
  BY <1>1 DEF Retry, Together, Frame, poolVars
<1>3. \A c \in Conn : port' # c
  BY <1>1, LimitAssumption
<1>4. QED
  BY <1>1, <1>2, <1>3 DEF Together, Good

LEMMA AcceptFailsStep ==
    ASSUME Together, NEW c \in Conn, AcceptFails(c)
    PROVE  Together'
<1>1. conn[c] = Newborn
  BY DEF AcceptFails, Together, Good
<1>2. Frame' /\ PortLeaves(c)
  BY LimitAssumption DEF AcceptFails, Together, Frame, PortLeaves, poolVars
<1>3. SoundFrom(conn[c], conn[c]) /\ conn[c].socket # "none"
  BY <1>1, NewbornWhole, WholeIsSound DEF SoundFrom
<1>4. Closing(c, conn[c], TRUE)
  BY DEF AcceptFails
<1>5. PICK k : k = conn[c]
  OBVIOUS
<1>6. QED
  BY <1>2, <1>3, <1>4, <1>5, CloseStep

LEMMA OnAcceptStep ==
    ASSUME Together, NEW c \in Conn, NEW ip \in Ip, NEW single \in BOOLEAN, NEW allowed \in BOOLEAN,
           OnAccept(c, ip, single, allowed)
    PROVE  Together'
<1>1. conn[c] = Newborn /\ port' = "accept"
  BY DEF OnAccept, Together, Good
<1>2. Frame' /\ PortLeaves(c)
  BY LimitAssumption DEF OnAccept, Together, Frame, PortLeaves, poolVars
<1>3. CASE allowed /\ MayTrack(c, ip)
  <2>1. PICK j : j = [Newborn EXCEPT !.socket = "open", !.trackedIp = ip,
                                     !.protocol = single, !.read = "header"]
    OBVIOUS
  <2>2. /\ j \in Record /\ j.closed = FALSE /\ j.release = 0
        /\ j.messageQueue = Newborn.messageQueue /\ j.write = Newborn.write /\ j.wire = Newborn.wire
        /\ j.outputBuffer = Newborn.outputBuffer /\ j.written = Newborn.written
        /\ j.socket = "open" /\ j.trackedIp = ip /\ Newborn.closed = FALSE
    BY <2>1, NewbornWhole DEF Record
  <2>3. Whole(j)
    BY <2>2, NewbornWhole DEF Whole, Released, Orderly
  <2>4. PICK r : r = Arm(j, "read")
    OBVIOUS
  <2>5. r \in Record /\ SameOutput(j, r) /\ r.socket = j.socket /\ r.trackedIp = j.trackedIp
    BY <2>2, <2>4, ArmFields DEF Timers
  <2>6. Whole(r)
    BY <2>3, <2>5, SameWhole
  <2>7. conn' = [conn EXCEPT ![c] = r] /\ connections' = connections /\ ipCount' = [ipCount EXCEPT ![ip] = @ + 1]
    BY <1>1, <1>3, <2>1, <2>4 DEF OnAccept
  <2>8. /\ conn' = [d \in Conn |-> conn'[d]] /\ conn'[c] = r
        /\ \A d \in Conn \ {c} : conn'[d] = conn[d]
    BY <2>7 DEF Together
  <2>9. Good(c, r, connections, port')
    BY <1>2, <2>2, <2>5, <2>6 DEF Good, SameOutput, PortLeaves
  <2>10. \A d \in Conn : Good(d, conn'[d], connections', port')
    <3>1. ASSUME NEW d \in Conn, d # c PROVE Good(d, conn[d], connections, port')
      BY <1>2, <3>1, OthersGood
    <3>2. QED
      BY <2>7, <2>8, <2>9, <3>1
  <2>11. PICK n, m, cs, at, to : n = ipCount /\ m = ipCount' /\ cs = connections /\ at = conn /\ to = conn'
    OBVIOUS
  <2>12. /\ cs \in SUBSET Conn /\ n \in [Ip -> Nat] /\ Counts(cs, at, n) /\ c \in cs
         /\ at[c].trackedIp = NoIp /\ to[c].trackedIp = ip
         /\ \A d \in cs \ {c} : to[d].trackedIp = at[d].trackedIp
         /\ n[ip] < MaxPerIp /\ m = [n EXCEPT ![ip] = @ + 1]
    <3>1. ipCount \in [Ip -> Nat]
      BY IInvIsTogether DEF IInv, TypeOK
    <3>2. c \in connections /\ ipCount[ip] < MaxPerIp
      BY <1>3 DEF MayTrack
    <3>3. QED
      BY <1>1, <2>2, <2>5, <2>7, <2>8, <2>11, <3>1, <3>2, NewbornWhole DEF Together
  <2>13. Counts(cs, to, m)
    BY <2>12, CountsTrack
  <2>14. Counts(connections', conn', ipCount') /\ ipCount' = [a \in Ip |-> ipCount'[a]]
    BY <2>7, <2>11, <2>12, <2>13
  <2>15. QED
    BY <1>2, <2>7, <2>8, <2>10, <2>14 DEF Together
<1>4. CASE ~(allowed /\ MayTrack(c, ip))
  <2>1. PICK k : k = [Newborn EXCEPT !.socket = "open"]
    OBVIOUS
  <2>2. k \in Record /\ SameOutput(Newborn, k) /\ k.socket = "open" /\ k.trackedIp = Newborn.trackedIp
    BY <2>1, NewbornWhole DEF Record, SameOutput
  <2>3. KeptFrom(Newborn, k)
    BY <2>2, NewbornWhole, SameKept
  <2>4. SoundFrom(conn[c], k)
    BY <1>1, <2>3, KeptIsSound
  <2>5. Closing(c, k, TRUE)
    BY <1>1, <1>4, <2>1 DEF OnAccept
  <2>6. conn[c].socket # "none"
    BY <1>1, NewbornWhole
  <2>7. QED
    BY <1>2, <2>4, <2>5, <2>6, CloseStep
<1>5. QED
  BY <1>3, <1>4

-----------------------------------------------------------------------------
(***************************************************************************)
(* The theorems.                                                           *)
(***************************************************************************)
LEMMA InitTogether == Init => Together
<1> SUFFICES ASSUME Init PROVE Together
  OBVIOUS
<1>1. /\ conn = [c \in Conn |-> Fresh] /\ connections = {} /\ ipCount = [a \in Ip |-> 0]
      /\ port = "accept" /\ Frame
  BY DEF Init, Frame
<1>2. \A c \in Conn : port # c
  BY <1>1, LimitAssumption
<1>3. \A c \in Conn : Good(c, conn[c], connections, port)
  BY <1>1, <1>2, NewbornWhole DEF Good
<1>4. Counts(connections, conn, ipCount)
  <2>1. Cardinality({}) = 0
    BY FS_EmptySet
  <2>2. \A a \in Ip : Holders(a, {}, conn) = {}
    BY DEF Holders
  <2>3. QED
    BY <1>1, <2>1, <2>2, LimitAssumption DEF Counts
<1>5. QED
  BY <1>1, <1>3, <1>4 DEF Together

LEMMA NextTogether == Together /\ [Next]_vars => Together'
<1> SUFFICES ASSUME Together, [Next]_vars PROVE Together'
  OBVIOUS
<1>1. CASE Accept \/ Retry
  BY <1>1, AcceptStep, RetryStep
<1>2. ASSUME NEW c \in Conn,
             AcceptFails(c) \/ \E ip \in Ip, single, allowed \in BOOLEAN : OnAccept(c, ip, single, allowed)
      PROVE  Together'
  BY <1>2, AcceptFailsStep, OnAcceptStep
<1>3. ASSUME NEW c \in Conn, Handler(c) PROVE Together'
  <2>1. CASE ReadFails(c) \/ ReadAfterClose(c) \/ ParseHeader(c) \/ ParsePacket(c)
    BY <2>1, ReadFailsStep, ReadAfterCloseStep, ParseHeaderStep, ParsePacketStep
  <2>2. CASE InternalSend(c) \/ InternalSendFails(c) \/ PeerReads(c)
    BY <2>2, InternalSendStep, InternalSendFailsStep, PeerReadsStep
  <2>3. CASE OnWriteOperation(c) \/ WriteFails(c) \/ Destroy(c)
    BY <2>3, OnWriteOperationStep, WriteFailsStep, DestroyStep
  <2>4. ASSUME NEW t \in Timers, Expire(c, t) \/ HandleTimeout(c, t) PROVE Together'
    BY <2>4, ExpireStep, HandleTimeoutStep
  <2>5. QED
    BY <1>3, <2>1, <2>2, <2>3, <2>4 DEF Handler
<1>4. ASSUME NEW c \in Conn, WriteToOutputBuffer(c) \/ DisconnectClient(c) \/ Release(c)
      PROVE  Together'
  BY <1>4, WriteToOutputBufferStep, DisconnectClientStep, ReleaseOneStep
<1>5. CASE SendAll
  BY <1>5, SendAllStep
<1>6. CASE StopServices
  <2>1. /\ conn' = conn /\ connections' = connections /\ ipCount' = ipCount /\ port' = port
        /\ Frame'
    BY <1>6 DEF StopServices, managerVars, poolVars, Together, Frame
  <2>2. QED
    BY <2>1 DEF Together
<1>7. CASE ReleaseAllProtocols \/ CloseAll
  BY <1>7, ReleaseAllProtocolsStep, CloseAllStep
<1>8. CASE UNCHANGED vars
  BY <1>8 DEF vars, managerVars, poolVars, Together, Frame
<1>9. QED
  BY <1>1, <1>2, <1>3, <1>4, <1>5, <1>6, <1>7, <1>8 DEF Next, Ended

(***************************************************************************)
(* The inductive invariant of the connections: types, ClosedOnce, nothing  *)
(* used before its peer was accepted, and wire, queue and buffer of every  *)
(* connection carry on where the one before ends.  It holds however reads, *)
(* writes, timers, closes and the dispatcher interleave.                   *)
(***************************************************************************)
THEOREM Invariance == Spec => []IInv
<1>1. Init => IInv
  BY InitTogether, IInvIsTogether
<1>2. IInv /\ [Next]_vars => IInv'
  <2>1. (IInv <=> Together)'
    BY IInvIsTogether, PTL
  <2>2. QED
    BY <2>1, IInvIsTogether, NextTogether
<1>3. QED
  BY <1>1, <1>2, PTL DEF Spec

(***************************************************************************)
(* Every variable of Connection keeps its type; in particular closeLocked  *)
(* posts at most one release task, and no count leaves its range.          *)
(***************************************************************************)
THEOREM TypeCorrect == Spec => []TypeOK
<1>1. IInv => TypeOK
  BY DEF IInv
<1>2. QED
  BY <1>1, Invariance, PTL

(***************************************************************************)
(* However a connection ends and whichever thread closes it first: the     *)
(* counts of the addresses are exact and within their limits, a protocol   *)
(* is released once, and the manager forgets the connection.               *)
(***************************************************************************)
THEOREM ClosesOnce == Spec => []ClosedOnce
<1>1. IInv => ClosedOnce
  BY DEF IInv
<1>2. QED
  BY <1>1, Invariance, PTL

(***************************************************************************)
(* What reaches the peer is what writeToOutputBuffer wrote, in order and   *)
(* without a gap, whatever is buffered, queued, on its way or cut off by a *)
(* close; a goodbye comes last.                                            *)
(***************************************************************************)
THEOREM WireIsInOrder == Spec => []WireInOrder
<1>1. IInv => WireInOrder
  <2> SUFFICES ASSUME IInv, NEW c \in Conn, NEW n \in DOMAIN conn[c].wire
               PROVE  \/ conn[c].wire[n] = n
                      \/ conn[c].wire[n] = 0 /\ n = Len(conn[c].wire)
    BY DEF WireInOrder
  <2>1. conn[c].wire \in Seq(Nat)
    BY DEF IInv, TypeOK, Record
  <2>2. n \in 1 .. Len(conn[c].wire)
    BY <2>1
  <2>3. OnWire(conn[c].wire)
    BY DEF IInv, AllOrderly, Orderly
  <2>4. QED
    BY <2>2, <2>3 DEF OnWire
<1>2. QED
  BY <1>1, Invariance, PTL
=============================================================================
