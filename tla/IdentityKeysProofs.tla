------------------------- MODULE IdentityKeysProofs -------------------------
(***************************************************************************)
(* When two identities have the same idempotency key, for ids of any       *)
(* length over any set V of tokens that has the colon.  With the safe      *)
(* characters themselves as tokens these are facts about the strings of    *)
(* domain/identity.py.                                                     *)
(***************************************************************************)
EXTENDS IdentityKeys, TLAPS, SequenceTheorems

Joined(a, b) == a \o Colon \o b

\* The ids that a key is made of.
HasIds(i, V) == i.execution_id \in Seq(V) /\ i.delegation_id \in Seq(V)

SameIds(i, j) == i.execution_id = j.execution_id /\ i.delegation_id = j.delegation_id

\* The execution id of j goes on, after a colon, with what the delegation id
\* of i begins with.
Shifted(i, j, V) ==
    \E rest \in Seq(V) :
        /\ j.execution_id = Joined(i.execution_id, rest)
        /\ i.delegation_id = Joined(rest, j.delegation_id)

-----------------------------------------------------------------------------
LEMMA ColonSeq ==
    ASSUME NEW V, ":" \in V
    PROVE  Colon \in Seq(V) /\ Len(Colon) = 1 /\ Colon[1] = ":"
  BY DEF Colon

\* Two ids joined by a colon: their length, and which token is where.
LEMMA JoinedTokens ==
    ASSUME NEW V, ":" \in V, NEW a \in Seq(V), NEW b \in Seq(V)
    PROVE  /\ Joined(a, b) \in Seq(V)
           /\ Len(a) \in Nat /\ Len(b) \in Nat
           /\ Len(Joined(a, b)) = Len(a) + 1 + Len(b)
           /\ \A n \in 1..(Len(a) + 1 + Len(b)) :
                Joined(a, b)[n] = IF n <= Len(a) THEN a[n]
                                  ELSE IF n = Len(a) + 1 THEN ":" ELSE b[n - Len(a) - 1]
  <1> DEFINE p == a \o Colon
             s == p \o b
  <1>1. Len(a) \in Nat /\ Len(b) \in Nat
    BY LenProperties
  <1>2. Colon \in Seq(V) /\ Len(Colon) = 1 /\ Colon[1] = ":"
    BY ColonSeq
  <1>3. /\ p \in Seq(V) /\ Len(p) = Len(a) + Len(Colon)
        /\ \A n \in 1..(Len(a) + Len(Colon)) : p[n] = IF n <= Len(a) THEN a[n] ELSE Colon[n - Len(a)]
    BY <1>2, ConcatProperties
  <1>4. /\ s \in Seq(V) /\ Len(s) = Len(p) + Len(b)
        /\ \A n \in 1..(Len(p) + Len(b)) : s[n] = IF n <= Len(p) THEN p[n] ELSE b[n - Len(p)]
    <2>1. ASSUME NEW u \in Seq(V)
          PROVE  /\ u \o b \in Seq(V) /\ Len(u \o b) = Len(u) + Len(b)
                 /\ \A n \in 1..(Len(u) + Len(b)) :
                        (u \o b)[n] = IF n <= Len(u) THEN u[n] ELSE b[n - Len(u)]
      BY ConcatProperties
    <2> HIDE DEF p
    <2> QED
      BY <1>3, <2>1, Zenon
  <1>5. Joined(a, b) = s
    BY DEF Joined
  <1> HIDE DEF p, s
  <1>6. p[Len(a) + 1] = ":" /\ \A n \in 1..Len(a) : p[n] = a[n]
    <2>1. Len(a) + 1 \in 1..(Len(a) + Len(Colon)) /\ ~(Len(a) + 1 <= Len(a)) /\ Len(a) + 1 - Len(a) = 1
      BY <1>1, <1>2
    <2>2. p[Len(a) + 1] = Colon[Len(a) + 1 - Len(a)]
      BY <1>3, <2>1
    <2>3. \A n \in 1..Len(a) : n \in 1..(Len(a) + Len(Colon)) /\ n <= Len(a)
      BY <1>1, <1>2
    <2> QED
      BY <1>2, <1>3, <2>1, <2>2, <2>3
  <1>7. ASSUME NEW n \in 1..(Len(a) + 1 + Len(b))
        PROVE  s[n] = IF n <= Len(a) THEN a[n] ELSE IF n = Len(a) + 1 THEN ":" ELSE b[n - Len(a) - 1]
    <2>1. s[n] = IF n <= Len(p) THEN p[n] ELSE b[n - Len(p)]
      BY <1>2, <1>3, <1>4
    <2>2. Len(p) = Len(a) + 1 /\ n - Len(p) = n - Len(a) - 1
      BY <1>1, <1>2, <1>3
    <2> QED
      BY <1>1, <1>6, <2>1, <2>2
  <1> QED
    BY <1>1, <1>2, <1>3, <1>4, <1>5, <1>7

\* What is joined first makes no difference.
LEMMA JoinedTwice ==
    ASSUME NEW V, ":" \in V, NEW a \in Seq(V), NEW b \in Seq(V), NEW c \in Seq(V)
    PROVE  Joined(Joined(a, b), c) = Joined(a, Joined(b, c))
  <1> DEFINE p == Joined(a, b)
             q == Joined(b, c)
             m == Len(a) + 1 + Len(b)
             N == m + 1 + Len(c)
  <1>1. Len(a) \in Nat /\ Len(b) \in Nat /\ Len(c) \in Nat
    BY LenProperties
  <1>2. /\ p \in Seq(V) /\ Len(p) = m
        /\ \A n \in 1..m : p[n] = IF n <= Len(a) THEN a[n]
                                  ELSE IF n = Len(a) + 1 THEN ":" ELSE b[n - Len(a) - 1]
    BY JoinedTokens
  <1>3. /\ q \in Seq(V) /\ Len(q) = Len(b) + 1 + Len(c)
        /\ \A n \in 1..(Len(b) + 1 + Len(c)) :
                q[n] = IF n <= Len(b) THEN b[n]
                       ELSE IF n = Len(b) + 1 THEN ":" ELSE c[n - Len(b) - 1]
    BY JoinedTokens
  <1>4. ASSUME NEW u \in Seq(V), NEW v \in Seq(V)
        PROVE  /\ Joined(u, v) \in Seq(V) /\ Len(Joined(u, v)) = Len(u) + 1 + Len(v)
               /\ \A n \in 1..(Len(u) + 1 + Len(v)) :
                    Joined(u, v)[n] = IF n <= Len(u) THEN u[n]
                                      ELSE IF n = Len(u) + 1 THEN ":" ELSE v[n - Len(u) - 1]
    BY JoinedTokens
  <1> HIDE DEF p, q
  <1>5. /\ Joined(p, c) \in Seq(V) /\ Len(Joined(p, c)) = Len(p) + 1 + Len(c)
        /\ \A n \in 1..(Len(p) + 1 + Len(c)) :
                Joined(p, c)[n] = IF n <= Len(p) THEN p[n]
                                  ELSE IF n = Len(p) + 1 THEN ":" ELSE c[n - Len(p) - 1]
    BY <1>2, <1>4, Zenon
  <1>6. /\ Joined(a, q) \in Seq(V) /\ Len(Joined(a, q)) = Len(a) + 1 + Len(q)
        /\ \A n \in 1..(Len(a) + 1 + Len(q)) :
                Joined(a, q)[n] = IF n <= Len(a) THEN a[n]
                                  ELSE IF n = Len(a) + 1 THEN ":" ELSE q[n - Len(a) - 1]
    BY <1>3, <1>4, Zenon
  <1> DEFINE s == Joined(p, c)
             t == Joined(a, q)
  <1>7. Len(s) = N /\ Len(t) = N
    <2> HIDE DEF s, t
    <2> QED
      BY <1>1, <1>2, <1>3, <1>5, <1>6 DEF s, t
  <1>8. ASSUME NEW n \in 1..N
        PROVE  s[n] = t[n]
    <2> HIDE DEF s, t
    <2>1. /\ s[n] = IF n <= m THEN p[n] ELSE IF n = m + 1 THEN ":" ELSE c[n - m - 1]
          /\ t[n] = IF n <= Len(a) THEN a[n]
                    ELSE IF n = Len(a) + 1 THEN ":" ELSE q[n - Len(a) - 1]
      BY <1>1, <1>2, <1>3, <1>5, <1>6 DEF s, t
    <2>2. CASE n <= m
      <3>1. s[n] = IF n <= Len(a) THEN a[n] ELSE IF n = Len(a) + 1 THEN ":" ELSE b[n - Len(a) - 1]
        BY <1>1, <1>2, <2>1, <2>2
      <3>2. n > Len(a) + 1 => q[n - Len(a) - 1] = b[n - Len(a) - 1]
        <4> SUFFICES ASSUME n > Len(a) + 1
                     PROVE  q[n - Len(a) - 1] = b[n - Len(a) - 1]
          OBVIOUS
        <4>1. n - Len(a) - 1 \in 1..(Len(b) + 1 + Len(c)) /\ n - Len(a) - 1 <= Len(b)
          BY <1>1, <2>2
        <4> QED
          BY <1>3, <4>1
      <3> QED
        BY <1>1, <2>1, <3>1, <3>2
    <2>3. CASE n > m
      <3> DEFINE l == n - Len(a) - 1
      <3>1. /\ l \in 1..(Len(b) + 1 + Len(c)) /\ l > Len(b)
            /\ (l = Len(b) + 1 <=> n = m + 1) /\ l - Len(b) - 1 = n - m - 1
        BY <1>1, <2>3
      <3>2. q[l] = IF l = Len(b) + 1 THEN ":" ELSE c[l - Len(b) - 1]
        <4> HIDE DEF l
        <4> QED
          BY <1>1, <1>3, <3>1
      <3>3. t[n] = q[l]
        BY <1>1, <2>1, <2>3
      <3> QED
        BY <1>1, <2>1, <2>3, <3>1, <3>2, <3>3
    <2> QED
      BY <1>1, <2>2, <2>3
  <1>9. s = t
    <2> HIDE DEF s, t, N
    <2> QED
      BY <1>5, <1>6, <1>7, <1>8, SeqEqual DEF s, t
  <1> QED
    BY <1>9 DEF p, q

\* Equal parts of equal sequences can be left out.
LEMMA JoinedCancels ==
    ASSUME NEW V, ":" \in V, NEW a \in Seq(V), NEW b \in Seq(V), NEW c \in Seq(V)
    PROVE  /\ Joined(a, b) = Joined(a, c) => b = c
           /\ Joined(a, c) = Joined(b, c) => a = b
  <1>1. /\ Colon \in Seq(V)
        /\ \A s, t \in Seq(V) : s \o t \in Seq(V)
    BY ColonSeq, ConcatProperties
  <1>2. /\ \A s, t, u \in Seq(V) : s \o t = s \o u => t = u
        /\ \A s, t, u \in Seq(V) : s \o u = t \o u => s = t
    BY ConcatSimplifications
  <1>3. a \o Colon \in Seq(V) /\ b \o Colon \in Seq(V)
    BY <1>1, Zenon
  <1>4. (a \o Colon) \o b = (a \o Colon) \o c => b = c
    BY <1>2, <1>3, Zenon
  <1>5. (a \o Colon) \o c = (b \o Colon) \o c => a \o Colon = b \o Colon
    BY <1>2, <1>3, Zenon
  <1>6. a \o Colon = b \o Colon => a = b
    BY <1>1, <1>2, Zenon
  <1> QED
    BY <1>4, <1>5, <1>6, Zenon DEF Joined

\* Where two pairs are joined to the same sequence, the first parts are equal,
\* or the longer one goes on after a colon into the other's second part.
LEMMA JoinedAlike ==
    ASSUME NEW V, ":" \in V, NEW a \in Seq(V), NEW b \in Seq(V), NEW c \in Seq(V), NEW d \in Seq(V),
           Len(a) <= Len(c), Joined(a, b) = Joined(c, d)
    PROVE  \/ a = c /\ b = d
           \/ \E rest \in Seq(V) : c = Joined(a, rest) /\ b = Joined(rest, d)
  <1> DEFINE m == Len(a)
             n == Len(c)
             s == Joined(a, b)
  <1>1. m \in Nat /\ n \in Nat /\ Len(b) \in Nat /\ Len(d) \in Nat
    BY LenProperties
  <1>2. /\ Len(s) = m + 1 + Len(b)
        /\ \A l \in 1..(m + 1 + Len(b)) :
                s[l] = IF l <= m THEN a[l] ELSE IF l = m + 1 THEN ":" ELSE b[l - m - 1]
    BY JoinedTokens
  <1>3. /\ Len(s) = n + 1 + Len(d)
        /\ \A l \in 1..(n + 1 + Len(d)) :
                s[l] = IF l <= n THEN c[l] ELSE IF l = n + 1 THEN ":" ELSE d[l - n - 1]
    <2>1. /\ Len(Joined(c, d)) = n + 1 + Len(d)
          /\ \A l \in 1..(n + 1 + Len(d)) : Joined(c, d)[l] =
                IF l <= n THEN c[l] ELSE IF l = n + 1 THEN ":" ELSE d[l - n - 1]
      BY JoinedTokens
    <2> QED
      BY <2>1
  <1>4. /\ \A l \in 1..m : s[l] = a[l]
        /\ s[m + 1] = ":"
        /\ \A l \in 1..n : s[l] = c[l]
    <2> HIDE DEF s, m, n
    <2>1. \A l \in 1..m : l \in 1..(m + 1 + Len(b)) /\ l <= m
      BY <1>1
    <2>2. m + 1 \in 1..(m + 1 + Len(b)) /\ ~(m + 1 <= m)
      BY <1>1
    <2>3. \A l \in 1..n : l \in 1..(n + 1 + Len(d)) /\ l <= n
      BY <1>1
    <2>4. \A l \in 1..m : s[l] = a[l]
      BY <1>2, <2>1
    <2>5. s[m + 1] = ":"
      BY <1>2, <2>2
    <2>6. \A l \in 1..n : s[l] = c[l]
      BY <1>3, <2>3
    <2> QED
      BY <2>4, <2>5, <2>6
  <1>5. CASE m = n
    <2>1. a = c
      <3>1. \A l \in 1..m : a[l] = c[l]
        BY <1>4, <1>5
      <3> QED
        BY <1>5, <3>1, SeqEqual
    <2>2. b = d
      BY <2>1, JoinedCancels
    <2> QED
      BY <2>1, <2>2
  <1>6. CASE m < n
    <2> DEFINE rest == SubSeq(c, m + 2, n)
    <2>1. /\ rest \in Seq(V) /\ Len(rest) = n - m - 1
          /\ \A l \in 1..(n - m - 1) : rest[l] = c[m + 1 + l]
      <3>1. \A l \in (m + 2)..n : c[l] \in V
        BY <1>1, ElementOfSeq
      <3>2. m + 2 \in Int /\ n \in Int
        BY <1>1
      <3>3. /\ rest \in Seq(V) /\ Len(rest) = IF m + 2 <= n THEN n - (m + 2) + 1 ELSE 0
            /\ \A l \in 1..(n - (m + 2) + 1) : rest[l] = c[m + 2 + l - 1]
        BY <3>1, <3>2, SubSeqProperties
      <3> HIDE DEF rest, m, n
      <3>4. n - (m + 2) + 1 = n - m - 1 /\ \A l \in Int : m + 2 + l - 1 = m + 1 + l
        BY <1>1
      <3> QED
        BY <1>1, <1>6, <3>3, <3>4
    <2> HIDE DEF rest
    <2>2. c = Joined(a, rest)
      <3> DEFINE u == Joined(a, rest)
      <3>1. /\ u \in Seq(V) /\ Len(u) = m + 1 + Len(rest)
            /\ \A l \in 1..(m + 1 + Len(rest)) :
                u[l] = IF l <= m THEN a[l] ELSE IF l = m + 1 THEN ":" ELSE rest[l - m - 1]
        <4>1. ASSUME NEW v \in Seq(V)
              PROVE  /\ Joined(a, v) \in Seq(V) /\ Len(Joined(a, v)) = m + 1 + Len(v)
                     /\ \A l \in 1..(m + 1 + Len(v)) : Joined(a, v)[l] =
                            IF l <= m THEN a[l] ELSE IF l = m + 1 THEN ":" ELSE v[l - m - 1]
          BY JoinedTokens
        <4> QED
          BY <2>1, <4>1, Zenon
      <3>2. Len(u) = n
        BY <1>1, <2>1, <3>1
      <3>3. ASSUME NEW l \in 1..n
            PROVE  u[l] = c[l]
        <4> HIDE DEF u, m, n, s
        <4>1. CASE l <= m
          BY <1>1, <1>4, <2>1, <3>1, <4>1
        <4>2. CASE l = m + 1
          BY <1>1, <1>4, <1>6, <2>1, <3>1, <4>2
        <4>3. CASE l > m + 1
          <5>1. l - m - 1 \in 1..(n - m - 1) /\ m + 1 + (l - m - 1) = l
            BY <1>1, <4>3
          <5>2. rest[l - m - 1] = c[l]
            BY <2>1, <5>1
          <5>3. u[l] = rest[l - m - 1]
            BY <1>1, <2>1, <3>1, <4>3
          <5> QED
            BY <5>2, <5>3
        <4> QED
          BY <1>1, <4>1, <4>2, <4>3
      <3> QED
        BY <3>1, <3>2, <3>3, SeqEqual
    <2>3. b = Joined(rest, d)
      <3>1. s = Joined(a, Joined(rest, d))
        BY <2>1, <2>2, JoinedTwice
      <3>2. Joined(rest, d) \in Seq(V)
        BY <2>1, JoinedTokens
      <3> QED
        BY <3>1, <3>2, JoinedCancels
    <2> QED
      BY <2>1, <2>2, <2>3
  <1> QED
    BY <1>1, <1>5, <1>6

-----------------------------------------------------------------------------
(* The theorems.                                                           *)

\* Two requests share a key exactly when their execution and delegation ids are
\* the same, or when one execution id goes on after a colon with the beginning
\* of the other's delegation id.  The conversation plays no part.
THEOREM KeysCollide ==
    ASSUME NEW V, ":" \in V, NEW operation \in Seq(V),
           NEW i, NEW j, HasIds(i, V), HasIds(j, V)
    PROVE  IdempotencyKey(i, operation) = IdempotencyKey(j, operation)
                <=> SameIds(i, j) \/ Shifted(i, j, V) \/ Shifted(j, i, V)
  <1> DEFINE a == i.execution_id
             b == i.delegation_id
             c == j.execution_id
             d == j.delegation_id
             p == Joined(a, b)
             q == Joined(c, d)
  <1>1. a \in Seq(V) /\ b \in Seq(V) /\ c \in Seq(V) /\ d \in Seq(V)
    BY DEF HasIds
  <1>2. IdempotencyKey(i, operation) = IdempotencyKey(j, operation) <=> p = q
    <2>1. /\ IdempotencyKey(i, operation) = Joined(p, operation)
          /\ IdempotencyKey(j, operation) = Joined(q, operation)
      BY DEF IdempotencyKey, Joined
    <2>2. p \in Seq(V) /\ q \in Seq(V)
      BY <1>1, JoinedTokens
    <2> HIDE DEF p, q
    <2> QED
      BY <2>1, <2>2, JoinedCancels
  <1>3. Len(a) \in Nat /\ Len(c) \in Nat
    BY <1>1, LenProperties
  <1>4. ASSUME p = q
        PROVE  SameIds(i, j) \/ Shifted(i, j, V) \/ Shifted(j, i, V)
    <2>1. CASE Len(a) <= Len(c)
      <3>1. (a = c /\ b = d) \/ \E rest \in Seq(V) : c = Joined(a, rest) /\ b = Joined(rest, d)
        BY <1>1, <1>4, <2>1, JoinedAlike
      <3> QED
        BY <3>1 DEF SameIds, Shifted
    <2>2. CASE Len(c) <= Len(a)
      <3>1. (c = a /\ d = b) \/ \E rest \in Seq(V) : a = Joined(c, rest) /\ d = Joined(rest, b)
        BY <1>1, <1>4, <2>2, JoinedAlike
      <3> QED
        BY <3>1 DEF SameIds, Shifted
    <2> QED
      BY <1>3, <2>1, <2>2
  <1>5. ASSUME SameIds(i, j) PROVE p = q
    BY <1>5 DEF SameIds
  <1>6. ASSUME Shifted(i, j, V) PROVE p = q
    <2>1. PICK rest \in Seq(V) : c = Joined(a, rest) /\ b = Joined(rest, d)
      BY <1>6 DEF Shifted
    <2> QED
      BY <1>1, <2>1, JoinedTwice
  <1>7. ASSUME Shifted(j, i, V) PROVE p = q
    <2>1. PICK rest \in Seq(V) : a = Joined(c, rest) /\ d = Joined(rest, b)
      BY <1>7 DEF Shifted
    <2> QED
      BY <1>1, <2>1, JoinedTwice
  <1> QED
    BY <1>2, <1>4, <1>5, <1>6, <1>7

\* Execution ids of the same length give keys of their own, and all that the
\* application draws have the same length ("exec:" and a uuid): a client that
\* leaves the execution id out never shares a key with another that does.
THEOREM DrawnKeysDiffer ==
    ASSUME NEW V, ":" \in V, NEW operation \in Seq(V),
           NEW i, NEW j, HasIds(i, V), HasIds(j, V),
           Len(i.execution_id) = Len(j.execution_id),
           IdempotencyKey(i, operation) = IdempotencyKey(j, operation)
    PROVE  SameIds(i, j)
  <1>1. ASSUME NEW e \in Seq(V), NEW rest \in Seq(V)
        PROVE  Len(Joined(e, rest)) # Len(e)
    BY <1>1, JoinedTokens
  <1>2. ~Shifted(i, j, V) /\ ~Shifted(j, i, V)
    BY <1>1 DEF Shifted, HasIds
  <1> QED
    BY <1>2, KeysCollide

\* Without a colon in their execution ids, identities have keys of their own.
THEOREM ColonFreeKeysDiffer ==
    ASSUME NEW V, ":" \in V, NEW operation \in Seq(V),
           NEW i, NEW j, HasIds(i, V), HasIds(j, V),
           \A n \in 1..Len(i.execution_id) : i.execution_id[n] # ":",
           \A n \in 1..Len(j.execution_id) : j.execution_id[n] # ":",
           IdempotencyKey(i, operation) = IdempotencyKey(j, operation)
    PROVE  SameIds(i, j)
  <1>1. ASSUME NEW e \in Seq(V), NEW rest \in Seq(V)
        PROVE  \E n \in 1..Len(Joined(e, rest)) : Joined(e, rest)[n] = ":"
    <2>1. /\ Len(e) \in Nat /\ Len(rest) \in Nat
          /\ Len(Joined(e, rest)) = Len(e) + 1 + Len(rest)
          /\ \A n \in 1..(Len(e) + 1 + Len(rest)) :
                Joined(e, rest)[n] = IF n <= Len(e) THEN e[n]
                                  ELSE IF n = Len(e) + 1 THEN ":" ELSE rest[n - Len(e) - 1]
      BY <1>1, JoinedTokens
    <2>2. Len(e) + 1 \in 1..(Len(e) + 1 + Len(rest)) /\ ~(Len(e) + 1 <= Len(e))
      BY <2>1
    <2> QED
      BY <2>1, <2>2
  <1>2. ~Shifted(i, j, V)
    <2> SUFFICES ASSUME NEW rest \in Seq(V), j.execution_id = Joined(i.execution_id, rest)
                 PROVE  FALSE
      BY DEF Shifted
    <2>1. i.execution_id \in Seq(V)
      BY DEF HasIds
    <2>2. \E n \in 1..Len(j.execution_id) : j.execution_id[n] = ":"
      BY <1>1, <2>1, Zenon
    <2> QED
      BY <2>2
  <1>3. ~Shifted(j, i, V)
    <2> SUFFICES ASSUME NEW rest \in Seq(V), i.execution_id = Joined(j.execution_id, rest)
                 PROVE  FALSE
      BY DEF Shifted
    <2>1. j.execution_id \in Seq(V)
      BY DEF HasIds
    <2>2. \E n \in 1..Len(i.execution_id) : i.execution_id[n] = ":"
      BY <1>1, <2>1, Zenon
    <2> QED
      BY <2>2
  <1> QED
    BY <1>2, <1>3, KeysCollide
=============================================================================
