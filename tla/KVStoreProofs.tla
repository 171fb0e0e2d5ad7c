---------------------------- MODULE KVStoreProofs ----------------------------
(***************************************************************************)
(* Proofs about KVStore, for any keys, values, cache size and pool.        *)
(*                                                                         *)
(* LastValueSurvives is not inductive by itself.  The queue must hold each *)
(* cached key once, or setLocked would push out a key that is not there; a *)
(* cached key must have no unsaved eviction, or the next eviction of it    *)
(* would leave two values; and the dispatcher must be in the middle of at  *)
(* most one operation.  For saveAll, nothing but what a worker already     *)
(* held may be parked again behind its back.                               *)
(***************************************************************************)
EXTENDS KVStore, SequenceTheorems, FiniteSetTheorems, TLAPS

Members(s) == {s[n] : n \in DOMAIN s}

LruExact == Members(lru) = Cached /\ IsInjective(lru)

\* The evictions that are not in the table yet, wherever they are.
Parked == Members(pending) \cup UNION {Members(batch[t]) : t \in Thread}

Survives ==
    \A k \in Key \ reentered :
        /\ k \in Cached => Seen(store[k]) = current[k] /\ \A e \in Parked : e.key # k
        /\ k \notin Cached =>
              /\ \A e \in Parked : e.key = k => Seen(e.value) = current[k]
              /\ (\A e \in Parked : e.key # k) => db[k] = current[k]

OneOperation ==
    /\ pc = "loaded" => arg \in [key : Key, value : Value]
    /\ batch[Main] # <<>> => pc \in {"saving", "savingAll"}
    /\ pc = "snapshot" => ~failed

NothingNewParked ==
    pc \in {"savingAll", "snapshot"} /\ ~failed =>
        /\ \A e \in Members(pending) : e.key \in elsewhere
        /\ \A w \in Worker : \A e \in Members(batch[w]) : e.key \in elsewhere

IInv == TypeOK /\ LruExact /\ Survives /\ OneOperation /\ NothingNewParked

-----------------------------------------------------------------------------
(***************************************************************************)
(* Sequences.                                                              *)
(***************************************************************************)
\* Appending adds one member.
LEMMA AppendMembers ==
    ASSUME NEW S, NEW s \in Seq(S), NEW e \in S
    PROVE  /\ Append(s, e) \in Seq(S)
           /\ Members(Append(s, e)) = Members(s) \cup {e}
  <1>1. /\ Append(s, e) \in Seq(S) /\ DOMAIN s = 1 .. Len(s) /\ Len(s) \in Nat
        /\ DOMAIN Append(s, e) = 1 .. Len(s) + 1
        /\ \A i \in 1 .. Len(s) : Append(s, e)[i] = s[i]
        /\ Append(s, e)[Len(s) + 1] = e
    BY AppendProperties, LenProperties
  <1>2. \A x \in Members(Append(s, e)) : x \in Members(s) \cup {e}
    BY <1>1 DEF Members
  <1>3. \A i \in 1 .. Len(s) : i \in 1 .. Len(s) + 1
    BY <1>1
  <1>4. \A x \in Members(s) : x \in Members(Append(s, e))
    BY <1>1, <1>3 DEF Members
  <1>5. Len(s) + 1 \in 1 .. Len(s) + 1
    BY <1>1
  <1>6. e \in Members(Append(s, e))
    BY <1>1, <1>5 DEF Members
  <1>7. QED BY <1>1, <1>2, <1>4, <1>6

\* What is taken from the head was a member, and the others stay.
LEMMA HeadMembers ==
    ASSUME NEW S, NEW s \in Seq(S), s # <<>>
    PROVE  /\ Head(s) \in S /\ Tail(s) \in Seq(S)
           /\ Members(s) = Members(Tail(s)) \cup {Head(s)}
  <1>1. /\ Head(s) \in S /\ Tail(s) \in Seq(S)
        /\ DOMAIN s = 1 .. Len(s) /\ Len(s) \in Nat \ {0} /\ Head(s) = s[1]
        /\ DOMAIN Tail(s) = 1 .. Len(s) - 1
        /\ \A i \in 1 .. Len(s) - 1 : Tail(s)[i] = s[i + 1]
    BY HeadTailProperties, LenProperties, EmptySeq
  <1>2. ASSUME NEW x \in Members(s)
        PROVE  x \in Members(Tail(s)) \cup {Head(s)}
    <2>1. PICK n \in 1 .. Len(s) : x = s[n]
      BY <1>1 DEF Members
    <2>2. CASE n # 1
      <3>1. n - 1 \in 1 .. Len(s) - 1 /\ Tail(s)[n - 1] = x
        BY <1>1, <2>1, <2>2
      <3>2. QED BY <1>1, <3>1 DEF Members
    <2>3. QED BY <1>1, <2>1, <2>2
  <1>3. ASSUME NEW x \in Members(Tail(s))
        PROVE  x \in Members(s)
    <2>1. PICK n \in 1 .. Len(s) - 1 : x = Tail(s)[n]
      BY <1>1 DEF Members
    <2>2. n + 1 \in 1 .. Len(s) /\ s[n + 1] = x
      BY <1>1, <2>1
    <2>3. QED BY <1>1, <2>2 DEF Members
  <1>4. Head(s) \in Members(s)
    BY <1>1, 1 \in 1 .. Len(s) DEF Members
  <1>5. QED BY <1>1, <1>2, <1>3, <1>4

LEMMA EmptyMembers == Members(<<>>) = {} /\ IsInjective(<<>>)
  BY DEF Members, IsInjective

LEMMA MembersType ==
    ASSUME NEW S, NEW s \in Seq(S)
    PROVE  Members(s) \subseteq S
  BY LenProperties, ElementOfSeq DEF Members

\* A key that is not in the queue comes to the front of it.
LEMMA PushFront ==
    ASSUME NEW S, NEW s \in Seq(S), NEW e \in S, e \notin Members(s), IsInjective(s)
    PROVE  /\ <<e>> \o s \in Seq(S)
           /\ Members(<<e>> \o s) = Members(s) \cup {e} /\ IsInjective(<<e>> \o s)
  <1>1. /\ <<e>> \o s \in Seq(S) /\ DOMAIN s = 1 .. Len(s) /\ Len(s) \in Nat
        /\ DOMAIN (<<e>> \o s) = 1 .. Len(s) + 1
        /\ (<<e>> \o s)[1] = e
        /\ \A i \in 2 .. Len(s) + 1 : (<<e>> \o s)[i] = s[i - 1]
    OBVIOUS
  <1>2. PICK t : t = <<e>> \o s
    OBVIOUS
  <1>3. /\ DOMAIN t = 1 .. Len(s) + 1 /\ t[1] = e
        /\ \A i \in 2 .. Len(s) + 1 : t[i] = s[i - 1]
    BY <1>1, <1>2
  <1>4. ASSUME NEW x \in Members(t) PROVE x \in Members(s) \cup {e}
    <2>1. PICK i \in 1 .. Len(s) + 1 : x = t[i]
      BY <1>3 DEF Members
    <2>2. CASE i # 1
      <3>1. i - 1 \in 1 .. Len(s) /\ x = s[i - 1]
        BY <1>1, <1>3, <2>1, <2>2
      <3>2. QED BY <1>1, <3>1 DEF Members
    <2>3. QED BY <1>3, <2>1, <2>2
  <1>5. ASSUME NEW x \in Members(s) PROVE x \in Members(t)
    <2>1. PICK i \in 1 .. Len(s) : x = s[i]
      BY <1>1 DEF Members
    <2>2. i + 1 \in 2 .. Len(s) + 1 /\ i + 1 \in 1 .. Len(s) + 1 /\ i + 1 - 1 = i
      BY <1>1
    <2>3. t[i + 1] = x
      BY <1>3, <2>1, <2>2
    <2>4. QED BY <1>3, <2>2, <2>3 DEF Members
  <1>6. e \in Members(t)
    BY <1>1, <1>3, 1 \in 1 .. Len(s) + 1 DEF Members
  <1>7. ASSUME NEW i \in 1 .. Len(s) + 1, NEW j \in 1 .. Len(s) + 1, t[i] = t[j] PROVE i = j
    <2>1. \A m \in 1 .. Len(s) : s[m] # e
      BY <1>1 DEF Members
    <2>2. \A m \in 2 .. Len(s) + 1 : m - 1 \in 1 .. Len(s)
      BY <1>1
    <2>3. \A m \in 2 .. Len(s) + 1 : t[m] # e
      BY <1>3, <2>1, <2>2
    <2>4. CASE i = 1 \/ j = 1
      BY <1>1, <1>3, <1>7, <2>3, <2>4
    <2>5. CASE i # 1 /\ j # 1
      <3>1. i \in 2 .. Len(s) + 1 /\ j \in 2 .. Len(s) + 1
        BY <1>1, <2>5
      <3>2. s[i - 1] = s[j - 1] /\ i - 1 \in 1 .. Len(s) /\ j - 1 \in 1 .. Len(s)
        BY <1>3, <1>7, <2>2, <3>1
      <3>3. i - 1 = j - 1
        BY <1>1, <3>2 DEF IsInjective
      <3>4. QED BY <3>3
    <2>6. QED BY <2>4, <2>5
  <1>8. IsInjective(t)
    BY <1>3, <1>7 DEF IsInjective
  <1>9. QED BY <1>1, <1>2, <1>4, <1>5, <1>6, <1>8

\* The queue without one of its positions.
LEMMA WithoutOne ==
    ASSUME NEW S, NEW s \in Seq(S), NEW n \in DOMAIN s, IsInjective(s),
           NEW t, t = SubSeq(s, 1, n - 1) \o SubSeq(s, n + 1, Len(s))
    PROVE  t \in Seq(S) /\ Members(t) = Members(s) \ {s[n]} /\ IsInjective(t)
  <1>1. DOMAIN s = 1 .. Len(s) /\ Len(s) \in Nat /\ n \in 1 .. Len(s)
    BY LenProperties
  <1>2. PICK a : a = SubSeq(s, 1, n - 1)
    OBVIOUS
  <1>3. PICK b : b = SubSeq(s, n + 1, Len(s))
    OBVIOUS
  <1>4. /\ a \in Seq(S) /\ Len(a) = n - 1
        /\ \A i \in 1 .. n - 1 : a[i] = s[i]
    BY <1>1, <1>2
  <1>5. /\ b \in Seq(S) /\ Len(b) = Len(s) - n
        /\ \A i \in 1 .. Len(s) - n : b[i] = s[i + n]
    <2>1. b \in Seq(S) /\ Len(b) = Len(s) - n
      BY <1>1, <1>3
    <2>2. ASSUME NEW i \in 1 .. Len(s) - n PROVE b[i] = s[i + n]
      BY <1>1, <1>3, <2>2
    <2>3. QED BY <2>1, <2>2
  <1>6. t = a \o b
    BY <1>2, <1>3
  <1>7. /\ t \in Seq(S) /\ DOMAIN t = 1 .. Len(s) - 1
        /\ \A i \in 1 .. Len(s) - 1 : t[i] = IF i < n THEN s[i] ELSE s[i + 1]
    <2>0. /\ t \in Seq(S) /\ Len(t) = Len(a) + Len(b)
          /\ \A i \in 1 .. Len(a) + Len(b) :
                t[i] = IF i <= Len(a) THEN a[i] ELSE b[i - Len(a)]
      <3>1. a \in Seq(S) /\ b \in Seq(S)
        BY <1>4, <1>5
      <3>2. QED BY ONLY <3>1, <1>6, ConcatProperties
    <2>1. t \in Seq(S) /\ Len(t) = Len(s) - 1
      <3>1. Len(a) = n - 1 /\ Len(b) = Len(s) - n /\ n \in Nat /\ Len(s) \in Nat
        BY <1>1, <1>4, <1>5
      <3>2. Len(a) + Len(b) = Len(s) - 1
        BY ONLY <3>1
      <3>3. QED BY ONLY <2>0, <3>2
    <2>2. ASSUME NEW i \in 1 .. Len(s) - 1 PROVE t[i] = IF i < n THEN s[i] ELSE s[i + 1]
      <3>1. i \in 1 .. Len(a) + Len(b)
        BY <1>1, <1>4, <1>5, Len(a) + Len(b) = Len(s) - 1
      <3>2. t[i] = IF i <= Len(a) THEN a[i] ELSE b[i - Len(a)]
        BY <2>0, <3>1
      <3>3. CASE i < n
        <4>1. i <= Len(a) /\ i \in 1 .. n - 1
          BY <1>1, <1>4, <3>3
        <4>2. QED BY <1>4, <3>2, <3>3, <4>1
      <3>4. CASE ~(i < n)
        <4>0. n \in Nat /\ i \in Nat /\ i <= Len(s) - 1 /\ n <= i
          BY <1>1, <3>4
        <4>1. ~(i <= n - 1) /\ i - (n - 1) = i - n + 1 /\ i - n + 1 \in 1 .. Len(s) - n
              /\ (i - n + 1) + n = i + 1
          BY <1>1, <4>0
        <4>2. b[i - n + 1] = s[(i - n + 1) + n]
          BY <1>5, <4>1
        <4>3. QED BY <1>4, <3>2, <3>4, <4>1, <4>2
      <3>5. QED BY <3>3, <3>4
    <2>3. QED BY <2>1, <2>2, LenProperties
  <1>8. ASSUME NEW i \in 1 .. Len(s) - 1
        PROVE  \E j \in 1 .. Len(s) : j = (IF i < n THEN i ELSE i + 1) /\ t[i] = s[j] /\ j # n
    <2>1. CASE i < n
      <3>1. i \in 1 .. Len(s) /\ i # n
        BY <1>1, <2>1
      <3>2. QED BY <1>7, <2>1, <3>1
    <2>2. CASE ~(i < n)
      <3>1. i + 1 \in 1 .. Len(s) /\ i + 1 # n
        BY <1>1, <2>2
      <3>2. QED BY <1>7, <2>2, <3>1
    <2>3. QED BY <2>1, <2>2
  <1>9. ASSUME NEW x \in Members(t) PROVE x \in Members(s) \ {s[n]}
    <2>1. PICK i \in 1 .. Len(s) - 1 : x = t[i]
      BY <1>7 DEF Members
    <2>2. PICK j \in 1 .. Len(s) : x = s[j] /\ j # n
      BY <1>8, <2>1
    <2>3. s[j] # s[n]
      BY <1>1, <2>2 DEF IsInjective
    <2>4. QED BY <1>1, <2>2, <2>3 DEF Members
  <1>10. ASSUME NEW x \in Members(s), x # s[n] PROVE x \in Members(t)
    <2>1. PICK j \in 1 .. Len(s) : x = s[j]
      BY <1>1 DEF Members
    <2>2. j # n
      BY <1>10, <2>1
    <2>3. CASE j < n
      <3>1. j \in 1 .. Len(s) - 1 /\ t[j] = x
        BY <1>1, <1>7, <2>1, <2>3
      <3>2. QED BY <1>7, <3>1 DEF Members
    <2>4. CASE ~(j < n)
      <3>1. j - 1 \in 1 .. Len(s) - 1 /\ ~(j - 1 < n) /\ j - 1 + 1 = j
        BY <1>1, <2>2, <2>4
      <3>2. t[j - 1] = x
        BY <1>7, <2>1, <3>1
      <3>3. QED BY <1>7, <3>1, <3>2 DEF Members
    <2>5. QED BY <2>3, <2>4
  <1>11. ASSUME NEW i \in 1 .. Len(s) - 1, NEW j \in 1 .. Len(s) - 1, t[i] = t[j] PROVE i = j
    <2>1. PICK ii \in 1 .. Len(s) : ii = (IF i < n THEN i ELSE i + 1) /\ t[i] = s[ii]
      BY <1>8
    <2>2. PICK jj \in 1 .. Len(s) : jj = (IF j < n THEN j ELSE j + 1) /\ t[j] = s[jj]
      BY <1>8
    <2>3. ii = jj
      BY <1>1, <1>11, <2>1, <2>2 DEF IsInjective
    <2>4. QED BY <1>1, <2>1, <2>2, <2>3
  <1>12. IsInjective(t)
    BY <1>7, <1>11 DEF IsInjective
  <1>13. QED BY <1>7, <1>9, <1>10, <1>12

\* The queue without its last key.
LEMMA WithoutLast ==
    ASSUME NEW S, NEW s \in Seq(S), s # <<>>, IsInjective(s),
           NEW t, t = SubSeq(s, 1, Len(s) - 1)
    PROVE  /\ s[Len(s)] \in Members(s)
           /\ t \in Seq(S) /\ Members(t) = Members(s) \ {s[Len(s)]} /\ IsInjective(t)
  <1>1. DOMAIN s = 1 .. Len(s) /\ Len(s) \in Nat /\ Len(s) # 0
    BY LenProperties, EmptySeq
  <1>2. Len(s) \in DOMAIN s
    BY <1>1
  <1>3. SubSeq(s, Len(s) + 1, Len(s)) = <<>>
    BY <1>1, SubSeqEmpty
  <1>4. t \in Seq(S)
    BY <1>1
  <1>5. t = SubSeq(s, 1, Len(s) - 1) \o SubSeq(s, Len(s) + 1, Len(s))
    BY <1>3, <1>4, ConcatEmptySeq
  <1>6. t \in Seq(S) /\ Members(t) = Members(s) \ {s[Len(s)]} /\ IsInjective(t)
    BY <1>2, <1>5, WithoutOne
  <1>7. QED BY <1>2, <1>6 DEF Members

\* A key that is not in the queue comes to the end of it.
LEMMA PushBack ==
    ASSUME NEW S, NEW s \in Seq(S), NEW e \in S, e \notin Members(s), IsInjective(s)
    PROVE  /\ s \o <<e>> \in Seq(S)
           /\ Members(s \o <<e>>) = Members(s) \cup {e} /\ IsInjective(s \o <<e>>)
  <1>1. /\ s \o <<e>> = Append(s, e) /\ DOMAIN s = 1 .. Len(s) /\ Len(s) \in Nat
        /\ DOMAIN Append(s, e) = 1 .. Len(s) + 1
        /\ \A i \in 1 .. Len(s) : Append(s, e)[i] = s[i]
        /\ Append(s, e)[Len(s) + 1] = e
    BY AppendProperties, AppendIsConcat, LenProperties
  <1>2. Append(s, e) \in Seq(S) /\ Members(Append(s, e)) = Members(s) \cup {e}
    BY AppendMembers
  <1>3. \A i \in 1 .. Len(s) : s[i] # e
    BY <1>1 DEF Members
  <1>4. IsInjective(Append(s, e))
    BY <1>1, <1>3 DEF IsInjective
  <1>5. QED BY <1>1, <1>2, <1>4

-----------------------------------------------------------------------------
(***************************************************************************)
(* The cache.                                                              *)
(***************************************************************************)
\* Moving a cached key inside the queue.
LEMMA MoveInQueue ==
    ASSUME TypeOK, LruExact, NEW k \in Cached
    PROVE  /\ Front(k) \in Seq(Key) /\ Members(Front(k)) = Cached /\ IsInjective(Front(k))
           /\ Back(k) \in Seq(Key) /\ Members(Back(k)) = Cached /\ IsInjective(Back(k))
  <1>1. k \in Key /\ lru \in Seq(Key) /\ k \in Members(lru) /\ IsInjective(lru)
    BY DEF Cached, TypeOK, LruExact
  <1>2. LruIterator(k) \in DOMAIN lru /\ lru[LruIterator(k)] = k
    <2>1. \E n \in DOMAIN lru : lru[n] = k
      BY <1>1 DEF Members
    <2>2. QED BY ONLY <2>1 DEF LruIterator
  <1>3. /\ Others(k) \in Seq(Key) /\ IsInjective(Others(k))
        /\ Members(Others(k)) = Members(lru) \ {k}
    <2>1. PICK n \in DOMAIN lru : n = LruIterator(k)
      BY <1>2
    <2>2. Others(k) = SubSeq(lru, 1, n - 1) \o SubSeq(lru, n + 1, Len(lru)) /\ lru[n] = k
      BY <1>2, <2>1 DEF Others
    <2>3. QED BY <1>1, <2>2, WithoutOne
  <1>4. k \notin Members(Others(k)) /\ Members(Others(k)) \cup {k} = Cached
    BY <1>1, <1>3 DEF LruExact
  <1>5. Front(k) \in Seq(Key) /\ Members(Front(k)) = Cached /\ IsInjective(Front(k))
    <2>1. PICK t : t = Others(k)
      OBVIOUS
    <2>2. Front(k) = <<k>> \o t
      BY <2>1 DEF Front
    <2>3. t \in Seq(Key) /\ k \in Key /\ k \notin Members(t) /\ IsInjective(t)
      BY <1>1, <1>3, <1>4, <2>1
    <2>4. Front(k) \in Seq(Key) /\ Members(Front(k)) = Members(t) \cup {k} /\ IsInjective(Front(k))
      BY <2>2, <2>3, PushFront
    <2>5. QED BY <1>4, <2>1, <2>4
  <1>6. Back(k) \in Seq(Key) /\ Members(Back(k)) = Cached /\ IsInjective(Back(k))
    <2>1. PICK t : t = Others(k)
      OBVIOUS
    <2>2. Back(k) = t \o <<k>>
      BY <2>1 DEF Back
    <2>3. t \in Seq(Key) /\ k \in Key /\ k \notin Members(t) /\ IsInjective(t)
      BY <1>1, <1>3, <1>4, <2>1
    <2>4. Back(k) \in Seq(Key) /\ Members(Back(k)) = Members(t) \cup {k} /\ IsInjective(Back(k))
      BY <2>2, <2>3, PushBack
    <2>5. QED BY <1>4, <2>1, <2>4
  <1>7. QED BY <1>5, <1>6

\* What setLocked leaves: the value is in, the queue is exact, and at most one
\* other key went from the cache to the parked evictions, with its value.
LEMMA SetLockedEffect ==
    ASSUME TypeOK, LruExact, NEW k \in Key, NEW v \in Value \cup {Deleted}, SetLocked(k, v)
    PROVE  /\ store' \in [Key -> Value \cup {Deleted, Absent}] /\ store'[k] = v
           /\ lru' \in Seq(Key) /\ LruExact'
           /\ \/ pending' = pending /\ \A x \in Key \ {k} : store'[x] = store[x]
              \/ \E l \in Cached \ {k} :
                    /\ pending' = Append(pending, [key |-> l, value |-> store[l]])
                    /\ store'[l] = Absent
                    /\ \A x \in Key \ {k, l} : store'[x] = store[x]
  <1>0. v # Absent /\ lru \in Seq(Key) /\ store \in [Key -> Value \cup {Deleted, Absent}]
    BY ValueAssumption DEF TypeOK
  <1>1. CASE k \in Cached
    <2>1. store' = [store EXCEPT ![k] = v] /\ lru' = Front(k) /\ pending' = pending
      BY <1>1 DEF SetLocked
    <2>2. Cached' = Cached
      BY <1>0, <1>1, <2>1 DEF Cached
    <2>3. lru' \in Seq(Key) /\ Members(lru') = Cached /\ IsInjective(lru')
      BY <1>1, <2>1, MoveInQueue
    <2>4. LruExact'
      BY <2>2, <2>3 DEF LruExact
    <2>5. QED BY <1>0, <2>1, <2>3, <2>4
  <1>2. CASE k \notin Cached /\ ~Full
    <2>1. store' = [store EXCEPT ![k] = v] /\ lru' = <<k>> \o lru /\ pending' = pending
      BY <1>2 DEF SetLocked
    <2>2. Cached' = Cached \cup {k}
      BY <1>0, <2>1 DEF Cached
    <2>3. lru' \in Seq(Key) /\ Members(lru') = Cached \cup {k} /\ IsInjective(lru')
      BY <1>0, <1>2, <2>1, PushFront DEF LruExact
    <2>4. LruExact'
      BY <2>2, <2>3 DEF LruExact
    <2>5. QED BY <1>0, <2>1, <2>3, <2>4
  <1>3. CASE k \notin Cached /\ Full
    <2>1. PICK t : t = SubSeq(lru, 1, Len(lru) - 1)
      OBVIOUS
    <2>2. /\ store' = [store EXCEPT ![Last] = Absent, ![k] = v] /\ lru' = <<k>> \o t
          /\ pending' = Append(pending, [key |-> Last, value |-> store[Last]])
      BY <1>3, <2>1 DEF SetLocked
    <2>3. lru # <<>>
      BY <1>3 DEF Full
    <2>4. /\ Last \in Members(lru) /\ t \in Seq(Key)
          /\ Members(t) = Members(lru) \ {Last} /\ IsInjective(t)
      BY <1>0, <2>1, <2>3, WithoutLast DEF Last, LruExact
    <2>5. Last \in Cached /\ Last # k /\ Last \in Key
      BY <1>3, <2>4 DEF LruExact, Cached
    <2>6. k \notin Members(t)
      BY <1>3, <2>4 DEF LruExact
    <2>7. lru' \in Seq(Key) /\ Members(lru') = Members(t) \cup {k} /\ IsInjective(lru')
      BY <2>2, <2>4, <2>6, PushFront
    <2>8. /\ store' \in [Key -> Value \cup {Deleted, Absent}] /\ store'[k] = v
          /\ store'[Last] = Absent /\ \A x \in Key \ {k, Last} : store'[x] = store[x]
      BY <1>0, <2>2, <2>5
    <2>9. Cached' = (Cached \ {Last}) \cup {k}
      BY <1>0, <2>5, <2>8 DEF Cached
    <2>10. LruExact'
      BY <2>4, <2>7, <2>9 DEF LruExact
    <2>11. QED BY <2>2, <2>5, <2>7, <2>8, <2>10
  <1>4. QED BY <1>1, <1>2, <1>3

\* The parked evictions seen by key.
LEMMA UnsavedMeaning ==
    ASSUME NEW k \in Key
    PROVE  Unsaved(k) <=> \E e \in Parked : e.key = k
  BY DEF Unsaved, In, Parked, Members

LEMMA ParkedType == TypeOK => Parked \subseteq Entry
  <1> SUFFICES ASSUME TypeOK, NEW e \in Parked PROVE e \in Entry
    OBVIOUS
  <1>1. pending \in Seq(Entry) /\ \A t \in Thread : batch[t] \in Seq(Entry)
    BY DEF TypeOK
  <1>2. Members(pending) \subseteq Entry /\ \A t \in Thread : Members(batch[t]) \subseteq Entry
    BY <1>1, MembersType
  <1>3. QED BY <1>2 DEF Parked

\* What is parked after an eviction was appended, and after none was.
LEMMA ParkedAppend ==
    ASSUME TypeOK, NEW e \in Entry, pending' = Append(pending, e), batch' = batch
    PROVE  Parked' = Parked \cup {e}
  <1>1. Members(pending') = Members(pending) \cup {e}
    BY AppendMembers DEF TypeOK
  <1>2. QED BY <1>1 DEF Parked

\* setLocked keeps every last value: the new key's comes from the script, or
\* from a row that is up to date when nothing of the key is parked; the key
\* that is pushed out had nothing parked.
LEMMA SurvivesCaching ==
    ASSUME TypeOK, LruExact, Survives, NEW k \in Key, NEW v \in Value \cup {Deleted},
           SetLocked(k, v), db' = db, batch' = batch, NEW stale \in BOOLEAN, Reenter(k, stale),
           \/ current' = [current EXCEPT ![k] = Seen(v)]
           \/ current' = current /\ k \notin Cached /\ v \in Value /\ stale = (v # db[k])
    PROVE  Survives'
  <1>1. SUFFICES ASSUME NEW x \in Key, x \notin reentered'
        PROVE  /\ x \in Cached' => Seen(store'[x]) = current'[x] /\ \A e \in Parked' : e.key # x
               /\ x \notin Cached' =>
                    /\ \A e \in Parked' : e.key = x => Seen(e.value) = current'[x]
                    /\ (\A e \in Parked' : e.key # x) => db'[x] = current'[x]
    BY <1>1 DEF Survives, Seen
  <1>2. x \notin reentered /\ v # Absent
    BY <1>1, ValueAssumption DEF Reenter
  <1>3. current \in [Key -> Value \cup {Absent}] /\ \A y \in Key \ {k} : current'[y] = current[y]
    BY DEF TypeOK
  <1>4. k \notin reentered' => \A e \in Parked : e.key # k
    <2>1. ASSUME k \notin reentered', k \in Cached PROVE \A e \in Parked : e.key # k
      BY <2>1 DEF Reenter, Survives
    <2>2. ASSUME k \notin reentered', k \notin Cached PROVE \A e \in Parked : e.key # k
      BY <2>2, UnsavedMeaning DEF Reenter
    <2>3. QED BY <2>1, <2>2
  <1>5. k \notin reentered' => Seen(v) = current'[k]
    <2>1. CASE current' = [current EXCEPT ![k] = Seen(v)]
      BY <1>3, <2>1
    <2>2. CASE current' = current /\ k \notin Cached /\ v \in Value /\ stale = (v # db[k])
      <3>1. ASSUME k \notin reentered' PROVE v = db[k] /\ k \notin reentered
        BY <2>2, <3>1 DEF Reenter
      <3>2. ASSUME k \notin reentered' PROVE db[k] = current[k]
        BY <1>4, <2>2, <3>1, <3>2 DEF Survives
      <3>3. Seen(v) = v
        BY <2>2, ValueAssumption DEF Seen
      <3>4. QED BY <2>2, <3>1, <3>2, <3>3
    <2>3. QED BY <2>1, <2>2
  <1>6. CASE pending' = pending /\ \A y \in Key \ {k} : store'[y] = store[y]
    <2>1. Parked' = Parked
      BY <1>6 DEF Parked
    <2>2. CASE x = k
      <3>1. store'[x] = v /\ x \in Cached'
        BY <1>2, <2>2, SetLockedEffect DEF Cached
      <3>2. QED BY <1>1, <1>4, <1>5, <2>1, <2>2, <3>1
    <2>3. CASE x # k
      <3>1. store'[x] = store[x] /\ current'[x] = current[x] /\ (x \in Cached' <=> x \in Cached)
        BY <1>3, <1>6, <2>3 DEF Cached
      <3>2. QED BY <1>2, <2>1, <3>1 DEF Survives
    <2>4. QED BY <2>2, <2>3
  <1>7. CASE \E l \in Cached \ {k} :
                 /\ pending' = Append(pending, [key |-> l, value |-> store[l]])
                 /\ store'[l] = Absent
                 /\ \A y \in Key \ {k, l} : store'[y] = store[y]
    <2>1. PICK l \in Cached \ {k} :
                 /\ pending' = Append(pending, [key |-> l, value |-> store[l]])
                 /\ store'[l] = Absent
                 /\ \A y \in Key \ {k, l} : store'[y] = store[y]
      BY <1>7
    <2>2. PICK e : e = [key |-> l, value |-> store[l]]
      OBVIOUS
    <2>3. e \in Entry /\ e.key = l /\ e.value = store[l] /\ l \in Key
      BY <2>2 DEF Entry, Cached, TypeOK
    <2>4. Parked' = Parked \cup {e}
      BY <2>1, <2>2, <2>3, ParkedAppend
    <2>5. CASE x = k
      <3>1. store'[x] = v /\ x \in Cached'
        BY <1>2, <2>5, SetLockedEffect DEF Cached
      <3>2. QED BY <1>1, <1>4, <1>5, <2>1, <2>3, <2>4, <2>5, <3>1
    <2>6. CASE x = l
      <3>1. x \notin Cached' /\ x \in Cached
        BY <2>1, <2>6 DEF Cached
      <3>2. Seen(store[x]) = current[x] /\ \A f \in Parked : f.key # x
        BY <1>2, <3>1 DEF Survives
      <3>3. current'[x] = current[x]
        BY <1>3, <2>1, <2>6
      <3>4. QED BY <2>3, <2>4, <2>6, <3>1, <3>2, <3>3
    <2>7. CASE x # k /\ x # l
      <3>1. store'[x] = store[x] /\ current'[x] = current[x] /\ (x \in Cached' <=> x \in Cached)
        BY <1>3, <2>1, <2>7 DEF Cached
      <3>2. \A f \in Parked' : f.key = x => f \in Parked
        BY <2>3, <2>4, <2>7
      <3>3. QED BY <1>2, <2>4, <3>1, <3>2 DEF Survives
    <2>8. QED BY <2>5, <2>6, <2>7
  <1>8. QED BY <1>6, <1>7, SetLockedEffect

-----------------------------------------------------------------------------
(***************************************************************************)
(* The steps.                                                              *)
(***************************************************************************)
LEMMA NextCases ==
    ASSUME Next
    PROVE  \/ \E k \in Key, v \in Value \cup {Deleted} : Set(k, v)
           \/ \E k \in Key : GetCached(k)
           \/ \E k \in Key : GetLoad(k)
           \/ GetStore \/ KeysQuery \/ KeysRow \/ KeysEnd
           \/ TakeEvictions \/ EndEvictions \/ SaveAll \/ Commit \/ Rollback
           \/ \E w \in Worker : TakeJob(w)
           \/ \E t \in Thread : SaveEviction(t)
           \/ \E t \in Thread : EvictionFails(t)
  BY DEF Next

LEMMA SeenType ==
    ASSUME NEW v \in Value \cup {Deleted}
    PROVE  Seen(v) \in Value \cup {Absent}
  BY DEF Seen

\* The parts of the type that setLocked touches.
LEMMA CachingType ==
    ASSUME TypeOK, LruExact, NEW k \in Key, NEW v \in Value \cup {Deleted}, SetLocked(k, v)
    PROVE  /\ store' \in [Key -> Value \cup {Deleted, Absent}]
           /\ lru' \in Seq(Key) /\ pending' \in Seq(Entry)
  <1>1. ASSUME NEW l \in Cached
        PROVE  Append(pending, [key |-> l, value |-> store[l]]) \in Seq(Entry)
    <2>1. [key |-> l, value |-> store[l]] \in Entry
      BY <1>1 DEF Entry, Cached, TypeOK
    <2>2. QED BY <2>1, AppendMembers DEF TypeOK
  <1>2. pending' \in Seq(Entry)
    <2>1. \/ pending' = pending
          \/ \E l \in Cached : pending' = Append(pending, [key |-> l, value |-> store[l]])
      BY SetLockedEffect
    <2>2. pending \in Seq(Entry)
      BY DEF TypeOK
    <2>3. QED BY <1>1, <2>1, <2>2
  <1>3. QED BY <1>2, SetLockedEffect

LEMMA TypeInit == Init => TypeOK
  <1> SUFFICES ASSUME Init PROVE TypeOK
    OBVIOUS
  <1>1. <<>> \in Seq(Key) /\ <<>> \in Seq(Entry)
    BY EmptySeq
  <1>2. /\ store \in [Key -> Value \cup {Deleted, Absent}]
        /\ db \in [Key -> Value \cup {Absent}] /\ current \in [Key -> Value \cup {Absent}]
    BY DEF Init
  <1>3. lru \in Seq(Key) /\ pending \in Seq(Entry) /\ batch \in [Thread -> Seq(Entry)]
    BY <1>1 DEF Init
  <1>4. QED BY <1>2, <1>3 DEF Init, TypeOK

LEMMA TypeStep == TypeOK /\ LruExact /\ OneOperation /\ [Next]_vars => TypeOK'
  <1> SUFFICES ASSUME TypeOK, LruExact, OneOperation, [Next]_vars PROVE TypeOK'
    OBVIOUS
  <1> USE DEF cacheVars, opVars, poolVars, histVars
  <1>0. <<>> \in Seq(Entry) /\ Main \in Thread /\ \A w \in Worker : w \in Thread
    BY EmptySeq DEF Thread
  <1>1. ASSUME NEW k \in Key, NEW v \in Value \cup {Deleted}, Set(k, v) PROVE TypeOK'
    <2>1. /\ store' \in [Key -> Value \cup {Deleted, Absent}]
          /\ lru' \in Seq(Key) /\ pending' \in Seq(Entry)
      BY <1>1, CachingType DEF Set
    <2>2. current' \in [Key -> Value \cup {Absent}]
      BY <1>1, SeenType DEF Set, TypeOK
    <2>3. reentered' \subseteq Key
      BY <1>1 DEF Set, Reenter, TypeOK
    <2>4. QED BY <1>1, <2>1, <2>2, <2>3 DEF Set, TypeOK
  <1>2. ASSUME NEW k \in Key, GetCached(k) PROVE TypeOK'
    BY <1>2, MoveInQueue DEF GetCached, TypeOK
  <1>3. ASSUME NEW k \in Key, GetLoad(k) PROVE TypeOK'
    BY <1>3 DEF GetLoad, Reenter, TypeOK
  <1>4. CASE GetStore
    <2>1. arg.key \in Key /\ arg.value \in Value
      BY <1>4 DEF GetStore, OneOperation, TypeOK
    <2>2. CASE arg.key \in Cached
      BY <1>4, <2>2 DEF GetStore, TypeOK
    <2>3. CASE arg.key \notin Cached
      <3>1. SetLocked(arg.key, arg.value) /\ reentered' \subseteq Key
        BY <1>4, <2>1, <2>3 DEF GetStore, Reenter, TypeOK
      <3>2. /\ store' \in [Key -> Value \cup {Deleted, Absent}]
            /\ lru' \in Seq(Key) /\ pending' \in Seq(Entry)
        BY <2>1, <3>1, CachingType
      <3>3. QED BY <1>4, <3>1, <3>2 DEF GetStore, TypeOK
    <2>4. QED BY <2>2, <2>3
  <1>5. CASE KeysQuery
    <2>1. rows' \subseteq [key : Key, value : Value]
      BY <1>5 DEF KeysQuery, TypeOK
    <2>2. QED BY <1>5, <2>1 DEF KeysQuery, TypeOK
  <1>6. CASE KeysRow
    <2>1. PICK r \in rows :
              /\ rows' = rows \ {r}
              /\ IF r.key \in Cached
                 THEN UNCHANGED <<cacheVars, reentered>>
                 ELSE SetLocked(r.key, r.value) /\ Reenter(r.key, r.value # db[r.key])
      BY <1>6 DEF KeysRow
    <2>2. r.key \in Key /\ r.value \in Value /\ rows' \subseteq [key : Key, value : Value]
      BY <2>1 DEF TypeOK
    <2>3. CASE r.key \in Cached
      BY <1>6, <2>1, <2>2, <2>3 DEF KeysRow, TypeOK
    <2>4. CASE r.key \notin Cached
      <3>1. SetLocked(r.key, r.value) /\ reentered' \subseteq Key
        BY <2>1, <2>2, <2>4 DEF Reenter, TypeOK
      <3>2. /\ store' \in [Key -> Value \cup {Deleted, Absent}]
            /\ lru' \in Seq(Key) /\ pending' \in Seq(Entry)
        BY <2>2, <3>1, CachingType
      <3>3. QED BY <1>6, <2>2, <3>1, <3>2 DEF KeysRow, TypeOK
    <2>5. QED BY <2>3, <2>4
  <1>7. CASE KeysEnd
    BY <1>7 DEF KeysEnd, TypeOK
  <1>8. CASE TakeEvictions
    BY <1>0, <1>8 DEF TakeEvictions, TypeOK
  <1>9. CASE EndEvictions \/ SaveAll \/ Rollback
    BY <1>9 DEF EndEvictions, SaveAll, Rollback, TypeOK
  <1>10. CASE Commit
    <2>1. \A k \in Cached : Seen(store[k]) \in Value \cup {Absent}
      BY DEF Seen, Cached, TypeOK
    <2>2. db' \in [Key -> Value \cup {Absent}]
      BY <1>10, <2>1 DEF Commit, TypeOK
    <2>3. QED BY <1>10, <2>2 DEF Commit, TypeOK
  <1>11. ASSUME NEW w \in Worker, TakeJob(w) PROVE TypeOK'
    BY <1>0, <1>11 DEF TakeJob, TypeOK
  <1>12. ASSUME NEW t \in Thread, SaveEviction(t) \/ EvictionFails(t) PROVE TypeOK'
    <2>1. batch[t] \in Seq(Entry) /\ batch[t] # <<>>
      BY <1>12 DEF SaveEviction, EvictionFails, TypeOK
    <2>2. Head(batch[t]) \in Entry /\ Tail(batch[t]) \in Seq(Entry)
      BY <2>1, HeadMembers
    <2>3. batch' \in [Thread -> Seq(Entry)]
      BY <1>12, <2>2 DEF SaveEviction, EvictionFails, TypeOK
    <2>4. CASE SaveEviction(t)
      <3>1. PICK e : e = Head(batch[t])
        OBVIOUS
      <3>2. Seen(e.value) \in Value \cup {Absent}
        BY <2>2, <3>1, SeenType DEF Entry
      <3>3. db' \in [Key -> Value \cup {Absent}]
        BY <2>4, <3>1, <3>2 DEF SaveEviction, Saved, TypeOK
      <3>4. QED BY <2>3, <2>4, <3>3 DEF SaveEviction, TypeOK
    <2>5. CASE EvictionFails(t)
      <3>1. Append(pending, Head(batch[t])) \in Seq(Entry)
        BY <2>2, AppendMembers DEF TypeOK
      <3>2. QED BY <2>3, <2>5, <3>1 DEF EvictionFails, TypeOK
    <2>6. QED BY <1>12, <2>4, <2>5
  <1>13. CASE UNCHANGED vars
    BY <1>13 DEF vars, TypeOK
  <1>14. QED
    BY <1>1, <1>2, <1>3, <1>4, <1>5, <1>6, <1>7, <1>8, <1>9, <1>10, <1>11, <1>12, <1>13, NextCases

LEMMA LruInit == Init => LruExact
  BY EmptyMembers DEF Init, LruExact, Cached

LEMMA LruStep == TypeOK /\ LruExact /\ OneOperation /\ [Next]_vars => LruExact'
  <1> SUFFICES ASSUME TypeOK, LruExact, OneOperation, [Next]_vars PROVE LruExact'
    OBVIOUS
  <1> USE DEF cacheVars
  <1>1. ASSUME NEW k \in Key, NEW v \in Value \cup {Deleted}, SetLocked(k, v) PROVE LruExact'
    BY <1>1, SetLockedEffect
  <1>2. ASSUME NEW k \in Key, GetCached(k) PROVE LruExact'
    BY <1>2, MoveInQueue DEF GetCached, LruExact, Cached
  <1>3. ASSUME UNCHANGED <<store, lru>> PROVE LruExact'
    BY <1>3 DEF LruExact, Cached
  <1>4. CASE GetStore
    <2>1. arg.key \in Key /\ arg.value \in Value
      BY <1>4 DEF GetStore, OneOperation, TypeOK
    <2>2. UNCHANGED <<store, lru>> \/ SetLocked(arg.key, arg.value)
      BY <1>4 DEF GetStore
    <2>3. QED BY <1>1, <1>3, <2>1, <2>2
  <1>5. CASE KeysRow
    <2>1. PICK r \in rows : \/ UNCHANGED <<store, lru>>
                            \/ SetLocked(r.key, r.value)
      BY <1>5 DEF KeysRow
    <2>2. r.key \in Key /\ r.value \in Value
      BY <2>1 DEF TypeOK
    <2>3. QED BY <1>1, <1>3, <2>1, <2>2
  <1>6. CASE \E k \in Key, v \in Value \cup {Deleted} : Set(k, v)
    BY <1>1, <1>6 DEF Set
  <1>7. CASE (\E k \in Key : GetLoad(k)) \/ KeysQuery \/ KeysEnd \/ TakeEvictions
    BY <1>3, <1>7 DEF GetLoad, KeysQuery, KeysEnd, TakeEvictions
  <1>8. CASE EndEvictions \/ SaveAll \/ Commit \/ Rollback
    BY <1>3, <1>8 DEF EndEvictions, SaveAll, Commit, Rollback
  <1>9. CASE \/ \E w \in Worker : TakeJob(w)
             \/ \E t \in Thread : SaveEviction(t) \/ EvictionFails(t)
    BY <1>3, <1>9 DEF TakeJob, SaveEviction, EvictionFails
  <1>10. CASE UNCHANGED vars
    BY <1>3, <1>10 DEF vars
  <1>11. QED BY <1>2, <1>4, <1>5, <1>6, <1>7, <1>8, <1>9, <1>10, NextCases

\* processEvictions takes everything that is pending.
LEMMA ParkedTaken ==
    ASSUME TypeOK, NEW t \in Thread, batch[t] = <<>>, pending' = <<>>,
           batch' = [batch EXCEPT ![t] = pending]
    PROVE  Parked' = Parked
  <1>1. batch'[t] = pending /\ \A u \in Thread \ {t} : batch'[u] = batch[u]
    BY DEF TypeOK
  <1>2. Members(batch[t]) = {} /\ Members(pending') = {}
    BY EmptyMembers
  <1>3. Members(batch'[t]) = Members(pending)
    BY <1>1
  <1>4. \A u \in Thread \ {t} : Members(batch'[u]) = Members(batch[u])
    BY <1>1
  <1>5. QED BY <1>2, <1>3, <1>4 DEF Parked

\* The head of a batch leaves it.
LEMMA ParkedHead ==
    ASSUME TypeOK, NEW t \in Thread, batch[t] # <<>>, batch' = [batch EXCEPT ![t] = Tail(batch[t])]
    PROVE  /\ Head(batch[t]) \in Entry
           /\ Members(batch[t]) = Members(batch'[t]) \cup {Head(batch[t])}
           /\ \A u \in Thread \ {t} : batch'[u] = batch[u]
           /\ pending' = pending => Parked = Parked' \cup {Head(batch[t])}
           /\ pending' = Append(pending, Head(batch[t])) => Parked' = Parked
  <1>1. batch'[t] = Tail(batch[t]) /\ \A u \in Thread \ {t} : batch'[u] = batch[u]
    BY DEF TypeOK
  <1>2. PICK e : e = Head(batch[t])
    OBVIOUS
  <1>3. e \in Entry /\ Members(batch[t]) = Members(batch'[t]) \cup {e}
    <2>1. batch[t] \in Seq(Entry)
      BY DEF TypeOK
    <2>2. QED BY <1>1, <1>2, <2>1, HeadMembers
  <1>4. \A u \in Thread \ {t} : Members(batch'[u]) = Members(batch[u])
    BY <1>1
  <1>5. ASSUME pending' = pending PROVE Parked = Parked' \cup {e}
    BY <1>3, <1>4, <1>5 DEF Parked
  <1>6. ASSUME pending' = Append(pending, e) PROVE Parked' = Parked
    <2>1. Members(pending') = Members(pending) \cup {e}
      BY <1>3, <1>6, AppendMembers DEF TypeOK
    <2>2. QED BY <1>3, <1>4, <2>1 DEF Parked
  <1>7. QED BY <1>1, <1>2, <1>3, <1>5, <1>6

\* Steps that move parked evictions around, and write rows of cached keys only.
LEMMA SurvivesFrame ==
    ASSUME Survives, store' = store, current' = current, reentered \subseteq reentered',
           Parked' = Parked, \A k \in Key \ Cached : db'[k] = db[k]
    PROVE  Survives'
  <1>1. Cached' = Cached
    BY DEF Cached
  <1>2. \A k \in Key \ reentered' : k \in Key \ reentered
    OBVIOUS
  <1>3. QED BY <1>1, <1>2 DEF Survives, Seen

LEMMA SurvivesInit == Init => Survives
  <1> SUFFICES ASSUME Init PROVE Survives
    OBVIOUS
  <1>1. Cached = {} /\ current = db
    BY DEF Init, Cached
  <1>2. Parked = {}
    BY EmptyMembers DEF Init, Parked
  <1>3. QED BY <1>1, <1>2 DEF Survives

LEMMA SurvivesStep ==
    TypeOK /\ LruExact /\ OneOperation /\ Survives /\ [Next]_vars => Survives'
  <1> SUFFICES ASSUME TypeOK, LruExact, OneOperation, Survives, [Next]_vars PROVE Survives'
    OBVIOUS
  <1> USE DEF cacheVars, poolVars, histVars, opVars
  <1>0. Main \in Thread /\ \A w \in Worker : w \in Thread
    BY DEF Thread
  <1>1. ASSUME UNCHANGED <<store, pending, db, batch, current>>, reentered \subseteq reentered'
        PROVE  Survives'
    <2>1. Parked' = Parked
      BY <1>1 DEF Parked
    <2>2. QED BY <1>1, <2>1, SurvivesFrame
  <1>2. ASSUME NEW k \in Key, NEW v \in Value \cup {Deleted}, Set(k, v) PROVE Survives'
    <2>1. /\ SetLocked(k, v) /\ Reenter(k, FALSE) /\ db' = db /\ batch' = batch
          /\ current' = [current EXCEPT ![k] = Seen(v)]
      BY <1>2 DEF Set
    <2>2. QED BY <2>1, SurvivesCaching
  <1>3. ASSUME NEW k \in Key, NEW v \in Value, k \notin Cached, SetLocked(k, v),
               Reenter(k, v # db[k]), UNCHANGED <<db, batch, current>>
        PROVE  Survives'
    <2>1. PICK stale \in BOOLEAN : stale = (v # db[k])
      OBVIOUS
    <2>2. Reenter(k, stale)
      BY <1>3, <2>1
    <2>3. QED BY <1>3, <2>1, <2>2, SurvivesCaching
  <1>4. CASE GetStore
    <2>1. arg.key \in Key /\ arg.value \in Value
      BY <1>4 DEF GetStore, OneOperation, TypeOK
    <2>2. UNCHANGED <<db, batch, current>>
      BY <1>4 DEF GetStore
    <2>3. CASE arg.key \in Cached
      BY <1>1, <1>4, <2>2, <2>3 DEF GetStore
    <2>4. CASE arg.key \notin Cached
      BY <1>3, <1>4, <2>1, <2>2, <2>4 DEF GetStore
    <2>5. QED BY <2>3, <2>4
  <1>5. CASE KeysRow
    <2>1. PICK r \in rows :
              IF r.key \in Cached
              THEN UNCHANGED <<cacheVars, reentered>>
              ELSE SetLocked(r.key, r.value) /\ Reenter(r.key, r.value # db[r.key])
      BY <1>5 DEF KeysRow
    <2>2. r.key \in Key /\ r.value \in Value
      BY DEF TypeOK
    <2>3. UNCHANGED <<db, batch, current>>
      BY <1>5 DEF KeysRow
    <2>4. CASE r.key \in Cached
      BY <1>1, <2>1, <2>3, <2>4
    <2>5. CASE r.key \notin Cached
      BY <1>3, <2>1, <2>2, <2>3, <2>5
    <2>6. QED BY <2>4, <2>5
  <1>6. CASE (\E k \in Key : GetCached(k) \/ GetLoad(k)) \/ KeysQuery \/ KeysEnd
    <2>1. UNCHANGED <<store, pending, db, batch, current>>
      BY <1>6 DEF GetCached, GetLoad, KeysQuery, KeysEnd
    <2>2. reentered \subseteq reentered'
      BY <1>6 DEF GetCached, GetLoad, KeysQuery, KeysEnd, Reenter
    <2>3. QED BY <1>1, <2>1, <2>2
  <1>7. CASE TakeEvictions
    <2>1. /\ batch' = [batch EXCEPT ![Main] = pending] /\ pending' = <<>>
          /\ UNCHANGED <<store, db, current, reentered>> /\ pc \in {"evict", "saveAll"}
      BY <1>7 DEF TakeEvictions
    <2>2. batch[Main] = <<>>
      BY <2>1 DEF OneOperation
    <2>3. Parked' = Parked
      BY <1>0, <2>1, <2>2, ParkedTaken
    <2>4. QED BY <2>1, <2>3, SurvivesFrame
  <1>8. ASSUME NEW w \in Worker, TakeJob(w) PROVE Survives'
    <2>1. /\ batch' = [batch EXCEPT ![w] = pending] /\ pending' = <<>> /\ batch[w] = <<>>
          /\ UNCHANGED <<store, db, current, reentered>>
      BY <1>8 DEF TakeJob
    <2>2. Parked' = Parked
      BY <1>0, <2>1, ParkedTaken
    <2>3. QED BY <2>1, <2>2, SurvivesFrame
  <1>9. ASSUME NEW t \in Thread, EvictionFails(t) PROVE Survives'
    <2>1. /\ batch' = [batch EXCEPT ![t] = Tail(batch[t])] /\ batch[t] # <<>>
          /\ pending' = Append(pending, Head(batch[t]))
          /\ UNCHANGED <<store, db, current, reentered>>
      BY <1>9 DEF EvictionFails
    <2>2. Parked' = Parked
      BY <2>1, ParkedHead
    <2>3. QED BY <2>1, <2>2, SurvivesFrame
  <1>10. ASSUME NEW t \in Thread, SaveEviction(t) PROVE Survives'
    <2>1. PICK e : e = Head(batch[t])
      OBVIOUS
    <2>2. /\ batch' = [batch EXCEPT ![t] = Tail(batch[t])] /\ batch[t] # <<>>
          /\ db' = [db EXCEPT ![e.key] = Seen(e.value)]
          /\ UNCHANGED <<store, pending, current, reentered>>
      BY <1>10, <2>1 DEF SaveEviction, Saved
    <2>3. e \in Entry /\ Parked = Parked' \cup {e}
      BY <2>1, <2>2, ParkedHead
    <2>4. e.key \in Key /\ db'[e.key] = Seen(e.value) /\ \A k \in Key \ {e.key} : db'[k] = db[k]
      BY <2>2, <2>3 DEF TypeOK, Entry
    <2>5. Cached' = Cached
      BY <2>2 DEF Cached
    <2>6. SUFFICES ASSUME NEW k \in Key, k \notin reentered
          PROVE  /\ k \in Cached => Seen(store[k]) = current[k] /\ \A f \in Parked' : f.key # k
                 /\ k \notin Cached =>
                      /\ \A f \in Parked' : f.key = k => Seen(f.value) = current[k]
                      /\ (\A f \in Parked' : f.key # k) => db'[k] = current[k]
      BY <2>2, <2>5 DEF Survives, Seen
    <2>7. CASE k \in Cached
      BY <2>3, <2>6, <2>7 DEF Survives
    <2>8. CASE k \notin Cached /\ k = e.key
      BY <2>3, <2>4, <2>6, <2>8 DEF Survives
    <2>9. CASE k \notin Cached /\ k # e.key
      BY <2>3, <2>4, <2>6, <2>9 DEF Survives
    <2>10. QED BY <2>7, <2>8, <2>9
  <1>11. CASE Commit
    <2>1. UNCHANGED <<store, current, pending, batch, reentered>>
      BY <1>11 DEF Commit
    <2>2. \A k \in Key \ Cached : db'[k] = db[k]
      BY <1>11 DEF Commit
    <2>3. Parked' = Parked
      BY <2>1 DEF Parked
    <2>4. QED BY <2>1, <2>2, <2>3, SurvivesFrame
  <1>12. CASE EndEvictions \/ SaveAll \/ Rollback \/ UNCHANGED vars
    BY <1>1, <1>12 DEF EndEvictions, SaveAll, Rollback, vars
  <1>13. QED
    BY <1>2, <1>4, <1>5, <1>6, <1>7, <1>8, <1>9, <1>10, <1>11, <1>12, NextCases

LEMMA OperationInit == Init => OneOperation /\ NothingNewParked
  BY DEF Init, OneOperation, NothingNewParked, Thread

LEMMA OperationStep == TypeOK /\ OneOperation /\ [Next]_vars => OneOperation'
  <1> SUFFICES ASSUME TypeOK, OneOperation, [Next]_vars PROVE OneOperation'
    OBVIOUS
  <1> USE DEF cacheVars, poolVars, opVars, histVars
  <1>0. Main \in Thread /\ \A w \in Worker : w \in Thread /\ w # Main
    BY WorkerAssumption DEF Thread, Main
  <1>1. CASE \E k \in Key, v \in Value \cup {Deleted} : Set(k, v)
    BY <1>1 DEF Set, OneOperation
  <1>2. CASE \E k \in Key : GetCached(k)
    BY <1>2 DEF GetCached, OneOperation
  <1>3. ASSUME NEW k \in Key, GetLoad(k) PROVE OneOperation'
    <2>1. arg' \in [key : Key, value : Value] /\ pc' = "loaded" /\ batch' = batch /\ pc = "idle"
      BY <1>3 DEF GetLoad, TypeOK
    <2>2. QED BY <2>1 DEF OneOperation
  <1>4. CASE GetStore \/ KeysQuery \/ KeysRow \/ KeysEnd
    BY <1>4 DEF GetStore, KeysQuery, KeysRow, KeysEnd, OneOperation
  <1>5. CASE TakeEvictions
    BY <1>5 DEF TakeEvictions, OneOperation
  <1>6. CASE EndEvictions \/ SaveAll \/ Commit \/ Rollback
    BY <1>6 DEF EndEvictions, SaveAll, Commit, Rollback, OneOperation
  <1>7. ASSUME NEW w \in Worker, TakeJob(w) PROVE OneOperation'
    <2>1. batch'[Main] = batch[Main] /\ UNCHANGED opVars
      BY <1>0, <1>7 DEF TakeJob, TypeOK
    <2>2. QED BY <2>1 DEF OneOperation
  <1>8. ASSUME NEW t \in Thread, SaveEviction(t) \/ EvictionFails(t) PROVE OneOperation'
    <2>1. /\ UNCHANGED <<pc, arg>> /\ batch' = [batch EXCEPT ![t] = Tail(batch[t])]
          /\ batch[t] # <<>> /\ (t # Main => failed' = failed)
      BY <1>8 DEF SaveEviction, EvictionFails
    <2>2. CASE t = Main
      BY <2>1, <2>2 DEF OneOperation
    <2>3. CASE t # Main
      <3>1. batch'[Main] = batch[Main]
        BY <1>0, <2>1, <2>3 DEF TypeOK
      <3>2. QED BY <2>1, <2>3, <3>1 DEF OneOperation
    <2>4. QED BY <2>2, <2>3
  <1>9. CASE UNCHANGED vars
    BY <1>9 DEF vars, OneOperation
  <1>10. QED BY <1>1, <1>2, <1>3, <1>4, <1>5, <1>6, <1>7, <1>8, <1>9, NextCases

\* While saveAll is under way the dispatcher caches nothing, so that all that
\* is parked again is what it failed to save itself or what a worker held.
LEMMA ParkedStep ==
    TypeOK /\ OneOperation /\ NothingNewParked /\ [Next]_vars => NothingNewParked'
  <1> SUFFICES ASSUME TypeOK, OneOperation, NothingNewParked, [Next]_vars
               PROVE  NothingNewParked'
    OBVIOUS
  <1> USE DEF cacheVars, poolVars, opVars, histVars
  <1>0. Main \in Thread /\ \A w \in Worker : w \in Thread /\ w # Main
    BY WorkerAssumption DEF Thread, Main
  <1>1. CASE (\E k \in Key, v \in Value \cup {Deleted} : Set(k, v)) \/ \E k \in Key : GetCached(k)
    BY <1>1 DEF Set, GetCached, NothingNewParked
  <1>2. CASE (\E k \in Key : GetLoad(k)) \/ GetStore \/ KeysQuery \/ KeysRow \/ KeysEnd
    BY <1>2 DEF GetLoad, GetStore, KeysQuery, KeysRow, KeysEnd, NothingNewParked
  <1>3. CASE TakeEvictions
    <2>1. /\ pending' = <<>> /\ batch' = [batch EXCEPT ![Main] = pending]
          /\ pc \in {"evict", "saveAll"} /\ pc' = IF pc = "evict" THEN "saving" ELSE "savingAll"
      BY <1>3 DEF TakeEvictions
    <2>2. CASE pc = "saveAll"
      <3>1. elsewhere' = {k \in Key : \E w \in Worker : In(k, batch[w]) # {}}
        BY <1>3, <2>2 DEF TakeEvictions
      <3>2. \A w \in Worker : batch'[w] = batch[w] /\ batch[w] \in Seq(Entry)
        BY <1>0, <2>1 DEF TypeOK
      <3>3. ASSUME NEW w \in Worker, NEW e \in Members(batch'[w]) PROVE e.key \in elsewhere'
        <4>1. e \in Members(batch[w]) /\ Members(batch[w]) \subseteq Entry
          BY <3>2, <3>3, MembersType
        <4>2. e.key \in Key
          BY <4>1 DEF Entry
        <4>3. In(e.key, batch[w]) # {}
          BY <4>1 DEF In, Members
        <4>4. QED BY <3>1, <4>2, <4>3
      <3>4. Members(pending') = {}
        BY <2>1, EmptyMembers
      <3>5. QED BY <3>3, <3>4 DEF NothingNewParked
    <2>3. CASE pc # "saveAll"
      BY <2>1, <2>3 DEF NothingNewParked
    <2>4. QED BY <2>2, <2>3
  <1>4. CASE EndEvictions \/ SaveAll \/ Commit \/ Rollback
    BY <1>4 DEF EndEvictions, SaveAll, Commit, Rollback, NothingNewParked
  <1>5. ASSUME NEW w \in Worker, TakeJob(w) PROVE NothingNewParked'
    <2>1. /\ batch'[w] = pending /\ pending' = <<>> /\ UNCHANGED <<pc, failed, elsewhere>>
          /\ \A u \in Worker \ {w} : batch'[u] = batch[u]
      BY <1>0, <1>5 DEF TakeJob, TypeOK
    <2>2. Members(pending') = {}
      BY <2>1, EmptyMembers
    <2>3. QED BY <2>1, <2>2 DEF NothingNewParked
  <1>6. ASSUME NEW t \in Thread, SaveEviction(t) PROVE NothingNewParked'
    <2>1. /\ batch' = [batch EXCEPT ![t] = Tail(batch[t])] /\ batch[t] # <<>>
          /\ UNCHANGED <<pending, pc, failed, elsewhere>>
      BY <1>6 DEF SaveEviction
    <2>2. \A w \in Worker : Members(batch'[w]) \subseteq Members(batch[w])
      BY <1>0, <2>1, ParkedHead
    <2>3. QED BY <2>1, <2>2 DEF NothingNewParked
  <1>7. ASSUME NEW t \in Thread, EvictionFails(t) PROVE NothingNewParked'
    <2>1. /\ batch' = [batch EXCEPT ![t] = Tail(batch[t])] /\ batch[t] # <<>>
          /\ pending' = Append(pending, Head(batch[t])) /\ UNCHANGED <<pc, elsewhere>>
          /\ failed' = IF t = Main THEN TRUE ELSE failed
      BY <1>7 DEF EvictionFails
    <2>2. CASE t = Main
      BY <2>1, <2>2 DEF NothingNewParked
    <2>3. CASE t # Main
      <3>1. t \in Worker
        BY <2>3 DEF Thread
      <3>2. \A w \in Worker : Members(batch'[w]) \subseteq Members(batch[w])
        BY <1>0, <2>1, ParkedHead
      <3>3. Head(batch[t]) \in Entry /\ Head(batch[t]) \in Members(batch[t])
        BY <2>1, ParkedHead
      <3>4. Members(pending') = Members(pending) \cup {Head(batch[t])}
        BY <2>1, <3>3, AppendMembers DEF TypeOK
      <3>5. PICK e : e = Head(batch[t])
        OBVIOUS
      <3>6. QED BY <2>1, <2>3, <3>1, <3>2, <3>3, <3>4, <3>5 DEF NothingNewParked
    <2>4. QED BY <2>2, <2>3
  <1>8. CASE UNCHANGED vars
    BY <1>8 DEF vars, NothingNewParked
  <1>9. QED BY <1>1, <1>2, <1>3, <1>4, <1>5, <1>6, <1>7, <1>8, NextCases

-----------------------------------------------------------------------------
(***************************************************************************)
(* The invariant holds in every state of the store, whatever the scripts   *)
(* ask, the pool threads save and the database refuses.                    *)
(***************************************************************************)
THEOREM Invariance == Spec => []IInv
  <1>1. Init => IInv
    BY TypeInit, LruInit, SurvivesInit, OperationInit DEF IInv
  <1>2. IInv /\ [Next]_vars => IInv'
    BY TypeStep, LruStep, SurvivesStep, OperationStep, ParkedStep DEF IInv
  <1>3. QED BY <1>1, <1>2, PTL DEF Spec

\* The values, the queue, the parked evictions and the rows keep their types.
THEOREM TypeCorrect == Spec => []TypeOK
  BY Invariance, PTL DEF IInv

(***************************************************************************)
(* lruQueue_ names exactly the cached keys, each once: what setLocked      *)
(* pushes out is in the cache, and the iterator of an entry points to it.  *)
(***************************************************************************)
THEOREM QueueExact == Spec => []LruExact
  BY Invariance, PTL DEF IInv

(***************************************************************************)
(* The last value a script set for a key is in the cache, else in every    *)
(* unsaved eviction of the key, else in its row; a key that came back into *)
(* the cache while an eviction of it was unsaved is the only exception.    *)
(***************************************************************************)
THEOREM LastValue == Spec => []LastValueSurvives
  <1>1. IInv => LastValueSurvives
    <2> SUFFICES ASSUME IInv, NEW k \in Key \ reentered
                 PROVE  IF k \in Cached THEN Seen(store[k]) = current[k]
                        ELSE IF Unsaved(k)
                        THEN /\ \A n \in In(k, pending) : Seen(pending[n].value) = current[k]
                             /\ \A t \in Thread : \A n \in In(k, batch[t]) :
                                    Seen(batch[t][n].value) = current[k]
                        ELSE db[k] = current[k]
      BY DEF LastValueSurvives
    <2>1. CASE k \in Cached
      BY <2>1 DEF IInv, Survives
    <2>2. CASE k \notin Cached
      <3>1. /\ \A e \in Parked : e.key = k => Seen(e.value) = current[k]
            /\ (\A e \in Parked : e.key # k) => db[k] = current[k]
        BY <2>2 DEF IInv, Survives
      <3>2. ASSUME NEW n \in In(k, pending) PROVE pending[n] \in Parked /\ pending[n].key = k
        BY DEF In, Parked, Members
      <3>3. ASSUME NEW t \in Thread, NEW n \in In(k, batch[t])
            PROVE  batch[t][n] \in Parked /\ batch[t][n].key = k
        BY DEF In, Parked, Members
      <3>4. QED BY <2>2, <3>1, <3>2, <3>3, UnsavedMeaning
    <2>3. QED BY <2>1, <2>2
  <1>2. QED BY Invariance, <1>1, PTL

(***************************************************************************)
(* saveAll keeps its word: when its transaction commits, the table holds   *)
(* the last value of every key but those whose eviction a pool thread held *)
(* when saveAll took the rest.                                             *)
(***************************************************************************)
THEOREM SaveAllComplete == Spec => SaveAllIsComplete
  <1>1. ASSUME IInv, Commit, NEW k \in Key \ (reentered \cup elsewhere)
        PROVE  db'[k] = current[k]
    <2> USE DEF IInv
    <2>1. pc = "snapshot" /\ db'[k] = IF k \in Cached THEN Seen(store[k]) ELSE db[k]
      BY <1>1 DEF Commit
    <2>2. CASE k \in Cached
      BY <1>1, <2>1, <2>2 DEF Survives
    <2>3. CASE k \notin Cached
      <3>1. ~failed /\ batch[Main] = <<>>
        BY <1>1, <2>1 DEF OneOperation
      <3>2. Members(batch[Main]) = {}
        BY <3>1, EmptyMembers
      <3>3. \A e \in Parked : e.key # k
        BY <1>1, <2>1, <3>1, <3>2 DEF NothingNewParked, Parked, Thread
      <3>4. QED BY <1>1, <2>1, <2>3, <3>3 DEF Survives
    <2>4. QED BY <2>2, <2>3
  <1>2. IInv /\ [Next]_vars =>
            [Commit => \A k \in Key \ (reentered \cup elsewhere) : db'[k] = current[k]]_vars
    BY <1>1
  <1>3. QED BY Invariance, <1>2, PTL DEF Spec, SaveAllIsComplete

-----------------------------------------------------------------------------
(***************************************************************************)
(* The cache never outgrows MAX_SIZE: a full cache has a last key to push  *)
(* out before a new one comes in.                                          *)
(***************************************************************************)
Bounded == Cardinality(Cached) <= MaxSize

\* setLocked makes room first.
LEMMA BoundedCaching ==
    ASSUME TypeOK, LruExact, Bounded, NEW k \in Key, NEW v \in Value \cup {Deleted},
           SetLocked(k, v)
    PROVE  Bounded'
  <1>0. /\ v # Absent /\ lru \in Seq(Key) /\ store \in [Key -> Value \cup {Deleted, Absent}]
        /\ MaxSize \in Nat \ {0}
    BY ValueAssumption, SizeAssumption DEF TypeOK
  <1>1. IsFiniteSet(Cached) /\ Cardinality(Cached) \in Nat
    BY KeyAssumption, FS_Subset, FS_CardinalityType DEF Cached
  <1>2. CASE k \in Cached
    <2>1. Cached' = Cached
      BY <1>0, <1>2 DEF SetLocked, Cached
    <2>2. QED BY <2>1 DEF Bounded
  <1>3. CASE k \notin Cached /\ ~Full
    <2>1. Cached' = Cached \cup {k}
      BY <1>0, <1>3 DEF SetLocked, Cached
    <2>2. Cardinality(Cached') = Cardinality(Cached) + 1
      BY <1>1, <1>3, <2>1, FS_AddElement
    <2>3. ~(Cardinality(Cached) >= MaxSize)
      <3>1. CASE lru = <<>>
        <4>1. Cached = {}
          BY <3>1, EmptyMembers DEF LruExact
        <4>2. QED BY <1>0, <4>1, FS_EmptySet
      <3>2. CASE lru # <<>>
        BY <1>3, <3>2 DEF Full
      <3>3. QED BY <3>1, <3>2
    <2>4. QED BY <1>0, <1>1, <2>2, <2>3 DEF Bounded
  <1>4. CASE k \notin Cached /\ Full
    <2>1. Last \in Members(lru)
      BY <1>0, <1>4, WithoutLast DEF Last, Full, LruExact
    <2>2. PICK l \in Cached : l = Last
      BY <2>1 DEF LruExact
    <2>3. l # k /\ l \in Key
      BY <1>4, <2>2 DEF Cached
    <2>4. store' = [store EXCEPT ![l] = Absent, ![k] = v]
      BY <1>4, <2>2 DEF SetLocked
    <2>5. Cached' = (Cached \ {l}) \cup {k}
      BY <1>0, <2>3, <2>4 DEF Cached
    <2>6. IsFiniteSet(Cached \ {l}) /\ Cardinality(Cached \ {l}) = Cardinality(Cached) - 1
      BY <1>1, <2>2, FS_RemoveElement
    <2>7. Cardinality(Cached') = Cardinality(Cached) - 1 + 1
      BY <1>4, <2>5, <2>6, FS_AddElement
    <2>8. QED BY <1>1, <2>7 DEF Bounded
  <1>5. QED BY <1>2, <1>3, <1>4

\* store_ holds at most MAX_SIZE keys, in every state.
THEOREM CacheBounded == Spec => []Bounded
  <1>1. Init => Bounded
    <2> SUFFICES ASSUME Init PROVE Bounded
      OBVIOUS
    <2>1. Cached = {}
      BY DEF Init, Cached
    <2>2. QED BY <2>1, FS_EmptySet, SizeAssumption DEF Bounded
  <1>2. IInv /\ Bounded /\ [Next]_vars => Bounded'
    <2> SUFFICES ASSUME IInv, Bounded, [Next]_vars PROVE Bounded'
      OBVIOUS
    <2> USE DEF cacheVars, IInv
    <2>1. ASSUME NEW k \in Key, NEW v \in Value \cup {Deleted}, SetLocked(k, v) PROVE Bounded'
      BY <2>1, BoundedCaching
    <2>2. ASSUME store' = store PROVE Bounded'
      BY <2>2 DEF Bounded, Cached
    <2>3. CASE GetStore
      <3>1. arg.key \in Key /\ arg.value \in Value
        BY <2>3 DEF GetStore, OneOperation
      <3>2. store' = store \/ SetLocked(arg.key, arg.value)
        BY <2>3 DEF GetStore
      <3>3. QED BY <2>1, <2>2, <3>1, <3>2
    <2>4. CASE KeysRow
      <3>1. PICK r \in rows : store' = store \/ SetLocked(r.key, r.value)
        BY <2>4 DEF KeysRow
      <3>2. r.key \in Key /\ r.value \in Value
        BY DEF TypeOK
      <3>3. QED BY <2>1, <2>2, <3>1, <3>2
    <2>5. CASE \E k \in Key, v \in Value \cup {Deleted} : Set(k, v)
      BY <2>1, <2>5 DEF Set
    <2>6. CASE (\E k \in Key : GetCached(k) \/ GetLoad(k)) \/ KeysQuery \/ KeysEnd \/ TakeEvictions
      BY <2>2, <2>6 DEF GetCached, GetLoad, KeysQuery, KeysEnd, TakeEvictions
    <2>7. CASE EndEvictions \/ SaveAll \/ Commit \/ Rollback \/ UNCHANGED vars
      BY <2>2, <2>7 DEF EndEvictions, SaveAll, Commit, Rollback, vars
    <2>8. CASE \/ \E w \in Worker : TakeJob(w)
               \/ \E t \in Thread : SaveEviction(t) \/ EvictionFails(t)
      BY <2>2, <2>8 DEF TakeJob, SaveEviction, EvictionFails
    <2>9. QED BY <2>3, <2>4, <2>5, <2>6, <2>7, <2>8, NextCases
  <1>3. QED BY Invariance, <1>1, <1>2, PTL DEF Spec
=============================================================================
