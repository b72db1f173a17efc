------------------------ MODULE RequestParsingProofs ------------------------
(* Theorems about RequestParsing, for any words and buffer sizes: from the *)
(* bytes of a well-formed message, in whatever pieces they arrive, the     *)
(* code reads what the client meant, and keys tell meanings apart.         *)
(*                                                                         *)
(* The predicates below say of a sequence what each of its symbols is; a   *)
(* lemma states which one a term satisfies, and only there is \o expanded. *)
EXTENDS RequestParsing, SequenceTheorems, WellFoundedInduction, TLAPS

----------------------------------------------------------------------------
(* The searches and cuts.                                                  *)

\* Least, where there is a least.
LEMMA LeastIs ==
    ASSUME NEW K \in SUBSET Int, NEW k \in K, \A j \in K : k <= j
    PROVE  Least(K) = k
<1>1. \A c \in K : (\A j \in K : c <= j) => c = k
    <2> SUFFICES ASSUME NEW c \in K, \A j \in K : c <= j PROVE c = k
        OBVIOUS
    <2>1. c <= k /\ k <= c /\ c \in Int /\ k \in Int
        OBVIOUS
    <2> QED
        BY <2>1
<1> DEFINE Q(c) == \A j \in K : c <= j
<1>2. Q(k)
    OBVIOUS
<1>3. \A c \in K : Q(c) => c = k
    BY <1>1
<1> HIDE DEF Q
<1>4. (CHOOSE c \in K : Q(c)) = k
    BY <1>2, <1>3
<1> QED
    BY <1>4 DEF Least, Q

\* A part of a sequence, symbol by symbol.
LEMMA SubSeqIs ==
    ASSUME NEW S, NEW s \in Seq(S), NEW m \in 1 .. Len(s) + 1, NEW n \in m - 1 .. Len(s)
    PROVE  /\ SubSeq(s, m, n) \in Seq(S)
           /\ Len(SubSeq(s, m, n)) = n - m + 1
           /\ \A i \in 1 .. n - m + 1 : SubSeq(s, m, n)[i] = s[m + i - 1]
<1>1. m \in Int /\ n \in Int /\ \A i \in m .. n : s[i] \in S
    BY ElementOfSeq
<1> QED
    BY <1>1, SubSeqProperties

\* What is left behind the first n.
LEMMA DropIs ==
    ASSUME NEW S, NEW s \in Seq(S), NEW n \in 0 .. Len(s)
    PROVE  /\ Drop(s, n) \in Seq(S)
           /\ Len(Drop(s, n)) = Len(s) - n
           /\ \A i \in 1 .. Len(s) - n : Drop(s, n)[i] = s[n + i]
<1>1. n + 1 \in 1 .. Len(s) + 1 /\ Len(s) \in n + 1 - 1 .. Len(s) /\ Len(s) \in Nat
    BY LenProperties
<1> QED
    BY <1>1, SubSeqIs DEF Drop

\* p is in s at k.
Matches(s, p, k) == \A i \in 1 .. Len(p) : s[k + i - 1] = p[i]

\* That is what comparing the part of that length amounts to.
LEMMA PatternAt ==
    ASSUME NEW S, NEW s \in Seq(S), NEW p \in Seq(S)
    PROVE  \A k \in 1 .. Len(s) - Len(p) + 1 :
                SubSeq(s, k, k + Len(p) - 1) = p <=> Matches(s, p, k)
<1> SUFFICES ASSUME NEW k \in 1 .. Len(s) - Len(p) + 1
             PROVE  SubSeq(s, k, k + Len(p) - 1) = p <=> Matches(s, p, k)
    OBVIOUS
<1>1. Len(p) \in Nat /\ Len(s) \in Nat
    BY LenProperties
<1>2. k \in 1 .. Len(s) + 1 /\ k + Len(p) - 1 \in k - 1 .. Len(s)
    BY <1>1
<1>3. PICK q : q = SubSeq(s, k, k + Len(p) - 1)
    OBVIOUS
<1>4. q \in Seq(S) /\ Len(q) = Len(p) /\ \A i \in 1 .. Len(p) : q[i] = s[k + i - 1]
    <2>1. k + Len(p) - 1 - k + 1 = Len(p)
        BY <1>1
    <2> QED
        BY <1>2, <1>3, <2>1, SubSeqIs
<1>5. q = p <=> \A i \in 1 .. Len(p) : q[i] = p[i]
    BY <1>4, SeqEqual
<1> QED
    BY <1>3, <1>4, <1>5 DEF Matches

\* memmem_simple returns the first match, and NULL only if there is none.
LEMMA FindIsFirst ==
    ASSUME NEW S, NEW s \in Seq(S), NEW p \in Seq(S)
    PROVE  /\ \A k \in 1 .. Len(s) - Len(p) + 1 :
                Matches(s, p, k) /\ (\A j \in 1 .. k - 1 : ~Matches(s, p, j)) => Find(s, p) = k
           /\ Find(s, p) # 0 => \E k \in 1 .. Len(s) - Len(p) + 1 : Matches(s, p, k)
<1> DEFINE K == {j \in 1 .. Len(s) - Len(p) + 1 : Matches(s, p, j)}
<1>1. Find(s, p) = IF K = {} THEN 0 ELSE Least(K)
    <2>1. K = {j \in 1 .. Len(s) - Len(p) + 1 : SubSeq(s, j, j + Len(p) - 1) = p}
        BY PatternAt
    <2> QED
        BY <2>1 DEF Find
<1>2. ASSUME NEW k \in 1 .. Len(s) - Len(p) + 1,
             Matches(s, p, k), \A j \in 1 .. k - 1 : ~Matches(s, p, j)
      PROVE  Find(s, p) = k
    <2>1. k \in K /\ K \in SUBSET Int /\ \A j \in K : k <= j
        BY <1>2
    <2>2. Least(K) = k
        BY <2>1, LeastIs
    <2> QED
        BY <1>1, <2>1, <2>2
<1> QED
    BY <1>1, <1>2

\* The same for a single symbol, as strchr looks for it.
LEMMA FindSymbol ==
    ASSUME NEW S, NEW s \in Seq(S), NEW x \in S
    PROVE  /\ \A k \in 1 .. Len(s) :
                s[k] = x /\ (\A j \in 1 .. k - 1 : s[j] # x) => Find(s, <<x>>) = k
           /\ Find(s, <<x>>) # 0 => \E k \in 1 .. Len(s) : s[k] = x
<1>1. PICK p : p = <<x>>
    OBVIOUS
<1>2. p \in Seq(S) /\ Len(p) = 1 /\ p[1] = x
    BY <1>1
<1>3. 1 .. Len(s) - Len(p) + 1 = 1 .. Len(s)
    BY <1>2, LenProperties
<1>4. \A k \in Int : Matches(s, p, k) <=> s[k] = x
    BY <1>2 DEF Matches
<1>5. ASSUME NEW k \in 1 .. Len(s), s[k] = x, \A j \in 1 .. k - 1 : s[j] # x
      PROVE  Find(s, p) = k
    <2>1. Matches(s, p, k) /\ \A j \in 1 .. k - 1 : ~Matches(s, p, j)
        BY <1>4, <1>5
    <2>2. k \in 1 .. Len(s) - Len(p) + 1
        BY <1>3
    <2> QED
        BY <1>2, <2>1, <2>2, FindIsFirst
<1>6. ASSUME Find(s, p) # 0
      PROVE  \E k \in 1 .. Len(s) : s[k] = x
    <2>1. PICK k \in 1 .. Len(s) - Len(p) + 1 : Matches(s, p, k)
        BY <1>2, <1>6, FindIsFirst
    <2> QED
        BY <1>3, <1>4, <2>1
<1> QED
    BY <1>1, <1>5, <1>6

\* The loops that stop at the first symbol of a kind, and those that skip it.
LEMMA UpToStop ==
    ASSUME NEW S, NEW s \in Seq(S), NEW stops, NEW k \in 1 .. Len(s), s[k] \in stops,
           \A j \in 1 .. k - 1 : s[j] \notin stops
    PROVE  UpTo(s, stops) = SubSeq(s, 1, k - 1)
<1> DEFINE K == {j \in 1 .. Len(s) : s[j] \in stops}
<1>1. k \in K /\ K \in SUBSET Int
    OBVIOUS
<1>2. \A j \in K : k <= j
    OBVIOUS
<1>3. Least(K) = k
    BY <1>1, <1>2, LeastIs
<1>4. UpTo(s, stops) = IF K = {} THEN s ELSE SubSeq(s, 1, Least(K) - 1)
    BY DEF UpTo
<1> QED
    BY <1>1, <1>3, <1>4

LEMMA WithoutBlanks ==
    ASSUME NEW S, NEW s \in Seq(S), NEW blanks, NEW k \in 1 .. Len(s), s[k] \notin blanks,
           \A j \in 1 .. k - 1 : s[j] \in blanks
    PROVE  Without(blanks, s) = Drop(s, k - 1)
<1> DEFINE K == {j \in 1 .. Len(s) : s[j] \notin blanks}
<1>1. k \in K /\ K \in SUBSET Int
    OBVIOUS
<1>2. \A j \in K : k <= j
    OBVIOUS
<1>3. Least(K) = k
    BY <1>1, <1>2, LeastIs
<1>4. Without(blanks, s) = IF K = {} THEN <<>> ELSE Drop(s, Least(K) - 1)
    BY DEF Without
<1> QED
    BY <1>1, <1>3, <1>4

----------------------------------------------------------------------------
(* What is sent, symbol by symbol.                                         *)

\* c is s with t behind it.
Joins(c, s, t) ==
    /\ c \in Seq(Symbols) /\ s \in Seq(Symbols) /\ t \in Seq(Symbols)
    /\ Len(s) \in Nat /\ Len(t) \in Nat /\ Len(c) = Len(s) + Len(t)
    /\ \A i \in 1 .. Len(s) : c[i] = s[i]
    /\ \A i \in 1 .. Len(t) : c[Len(s) + i] = t[i]

LEMMA Concat ==
    ASSUME NEW s \in Seq(Symbols), NEW t \in Seq(Symbols)
    PROVE  Joins(s \o t, s, t)
<1>1. PICK c : c = s \o t
    OBVIOUS
<1>2. Len(s) \in Nat /\ Len(t) \in Nat
    BY LenProperties
<1>3. /\ c \in Seq(Symbols) /\ Len(c) = Len(s) + Len(t)
      /\ \A i \in 1 .. Len(s) + Len(t) :
            c[i] = IF i <= Len(s) THEN s[i] ELSE t[i - Len(s)]
    BY <1>1, ConcatProperties
<1> QED
    BY <1>1, <1>2, <1>3 DEF Joins

LEMMA Joined ==
    ASSUME NEW c, NEW s, NEW t, Joins(c, s, t)
    PROVE  c \in Seq(Symbols)
BY DEF Joins

\* What occurs in neither does not occur in both.
LEMMA JoinedWithout ==
    ASSUME NEW c, NEW s, NEW t, NEW x, Joins(c, s, t),
           \A i \in 1 .. Len(s) : s[i] # x, \A i \in 1 .. Len(t) : t[i] # x
    PROVE  \A i \in 1 .. Len(c) : c[i] # x
<1> SUFFICES ASSUME NEW i \in 1 .. Len(c) PROVE c[i] # x
    OBVIOUS
<1>1. Len(s) \in Nat /\ Len(t) \in Nat /\ Len(c) = Len(s) + Len(t)
    BY DEF Joins
<1>2. CASE i <= Len(s)
    <2>1. i \in 1 .. Len(s)
        BY <1>1, <1>2
    <2> QED
        BY <2>1 DEF Joins
<1>3. CASE i > Len(s)
    <2>1. PICK j : j = i - Len(s)
        OBVIOUS
    <2>2. j \in 1 .. Len(t) /\ Len(s) + j = i
        BY <1>1, <1>3, <2>1
    <2>3. c[Len(s) + j] = t[j]
        BY <2>2 DEF Joins
    <2> QED
        BY <2>2, <2>3
<1> QED
    BY <1>1, <1>2, <1>3

\* The fixed texts.
LEMMA Texts ==
    /\ {"SP", "TAB", "CR", "LF", "Host:", "HTTP/1.1", "/"} \subseteq Symbols
    /\ Words \subseteq Symbols
    /\ EndOfLine \in Seq(Symbols) /\ Len(EndOfLine) = 2
    /\ EndOfLine[1] = "CR" /\ EndOfLine[2] = "LF"
    /\ Space \in Seq(Symbols) /\ Len(Space) = 1 /\ Space[1] = "SP"
    /\ BlankLine \in Seq(Symbols) /\ Len(BlankLine) = 4
    /\ BlankLine[1] = "CR" /\ BlankLine[2] = "LF"
    /\ BlankLine[3] = "CR" /\ BlankLine[4] = "LF"
<1>1. /\ {"SP", "TAB", "CR", "LF", "Host:", "HTTP/1.1", "/"} \subseteq Symbols
      /\ Words \subseteq Symbols
    BY ParsingAssumption DEF Symbols, Separators
<1>2. EndOfLine \in Seq(Symbols) /\ Len(EndOfLine) = 2 /\ EndOfLine[1] = "CR" /\ EndOfLine[2] = "LF"
    BY <1>1 DEF EndOfLine
<1>3. Space \in Seq(Symbols) /\ Len(Space) = 1 /\ Space[1] = "SP"
    BY <1>1 DEF Space
<1>4. Joins(BlankLine, EndOfLine, EndOfLine)
    BY <1>2, Concat DEF BlankLine
<1> QED
    BY <1>1, <1>2, <1>3, <1>4 DEF Joins

\* The parts of a message are sequences of symbols.
LEMMA Types ==
    ASSUME NEW m, WellFormed(m)
    PROVE  /\ m.method \in Symbols /\ m.site \in Seq(Symbols) /\ m.path \in Seq(Symbols)
           /\ m.before \in Seq(Symbols) /\ m.host \in Seq(Symbols)
           /\ m.after \in Seq(Symbols) /\ m.behind \in Seq(Symbols)
<1>1. m.site \in Seq(Words \ {"/"}) /\ m.path \in Seq(Words) /\ m.host \in Seq(Words)
      /\ m.before \in Seq(Symbols \ {"Host:"}) /\ m.method \in Words
    BY DEF WellFormed
<1>2. Words \ {"/"} \subseteq Symbols /\ Words \subseteq Symbols
      /\ Symbols \ {"Host:"} \subseteq Symbols
    BY Texts
<1>3. m.site \in Seq(Symbols) /\ m.path \in Seq(Symbols) /\ m.host \in Seq(Symbols)
      /\ m.before \in Seq(Symbols) /\ m.method \in Symbols
    BY <1>1, <1>2, SeqMonotonic
<1>4. m.after \in Seq(Symbols) /\ m.behind \in Seq(Symbols)
    <2>1. CASE m.host = <<>>
        <3>1. m.after \in Seq(Symbols \ {"Host:"}) /\ m.behind \in Seq(Symbols \ {"Host:"})
            BY <2>1 DEF WellFormed
        <3> QED
            BY <1>2, <3>1, SeqMonotonic
    <2>2. CASE m.host # <<>>
        BY <2>2 DEF WellFormed
    <2> QED
        BY <2>1, <2>2
<1> QED
    BY <1>3, <1>4

\* r is the request line of m, with the target t in it.
LineOf(m, t, r) ==
    /\ t \in Seq(Symbols) /\ r \in Seq(Symbols)
    /\ Len(t) \in Nat /\ Len(r) = Len(t) + 4
    /\ r[1] = m.method /\ r[2] = "SP"
    /\ \A i \in 1 .. Len(t) : r[2 + i] = t[i]
    /\ r[Len(t) + 3] = "SP" /\ r[Len(t) + 4] = "HTTP/1.1"

LEMMA LineIs ==
    ASSUME NEW m, WellFormed(m)
    PROVE  LineOf(m, Target(m), RequestLine(m))
<1>1. PICK t : t = Target(m)
    OBVIOUS
<1>2. PICK r : r = RequestLine(m)
    OBVIOUS
<1>3. PICK c1 : c1 = <<m.method>> \o Space
    OBVIOUS
<1>4. PICK c2 : c2 = c1 \o t
    OBVIOUS
<1>5. PICK c3 : c3 = c2 \o Space
    OBVIOUS
<1>6. PICK v : v = <<"HTTP/1.1">>
    OBVIOUS
<1>7. v \in Seq(Symbols) /\ Len(v) = 1 /\ v[1] = "HTTP/1.1"
    BY <1>6, Texts
<1>8. PICK u : u = <<m.method>>
    OBVIOUS
<1>9. u \in Seq(Symbols) /\ Len(u) = 1 /\ u[1] = m.method
    BY <1>8, Types
<1>10. t \in Seq(Symbols)
    BY <1>1, Types, Concat DEF Target, Joins
<1>11. Joins(c1, u, Space)
    BY <1>3, <1>8, <1>9, Texts, Concat
<1>12. Joins(c2, c1, t)
    BY <1>4, <1>10, <1>11, Joined, Concat
<1>13. Joins(c3, c2, Space)
    BY <1>5, <1>12, Texts, Joined, Concat
<1>14. Joins(r, c3, v)
    <2>1. r = c3 \o v
        BY <1>1, <1>2, <1>3, <1>4, <1>5, <1>6, <1>8 DEF RequestLine
    <2> QED
        BY <1>7, <1>13, <2>1, Joined, Concat
<1>15. c1 \in Seq(Symbols) /\ Len(c1) = 2 /\ c1[1] = m.method /\ c1[2] = "SP"
    BY <1>9, <1>11, Texts DEF Joins
<1>16. /\ Len(c2) = 2 + Len(t) /\ c2[1] = m.method /\ c2[2] = "SP"
       /\ \A i \in 1 .. Len(t) : c2[2 + i] = t[i]
    BY <1>12, <1>15 DEF Joins
<1>17. Len(c3) = 3 + Len(t) /\ c3[3 + Len(t)] = "SP" /\ \A i \in 1 .. 2 + Len(t) : c3[i] = c2[i]
    BY <1>13, <1>16, Texts DEF Joins
<1>18. /\ Len(r) = 4 + Len(t) /\ r[4 + Len(t)] = "HTTP/1.1"
       /\ \A i \in 1 .. 3 + Len(t) : r[i] = c3[i]
    BY <1>7, <1>14, <1>17 DEF Joins
<1>19. r \in Seq(Symbols) /\ Len(t) \in Nat
    BY <1>12, <1>14 DEF Joins
<1>20. LineOf(m, t, r)
    BY <1>10, <1>16, <1>17, <1>18, <1>19 DEF LineOf
<1> QED
    BY <1>1, <1>2, <1>20

\* What is behind the request line: g has the host's line where that of m is,
\* and no other Host: before it.
Rest(m) == m.before \o HostLine(m) \o (m.after \o EndOfLine \o m.behind)

RestOf(m, g) ==
    /\ g \in Seq(Symbols) /\ Len(g) \in Nat
    /\ Len(m.before) \in Nat /\ Len(m.host) \in Nat
    /\ \A i \in 1 .. Len(m.before) : g[i] = m.before[i] /\ g[i] # "Host:"
    /\ m.host # <<>> =>
        /\ g[Len(m.before) + 1] = "Host:" /\ g[Len(m.before) + 2] = "SP"
        /\ \A i \in 1 .. Len(m.host) : g[Len(m.before) + 2 + i] = m.host[i]
        /\ g[Len(m.before) + Len(m.host) + 3] = "CR"
        /\ Len(m.host) >= 1 /\ Len(g) >= Len(m.before) + Len(m.host) + 4
    /\ m.host = <<>> => \A i \in 1 .. Len(g) : g[i] # "Host:"

LEMMA RestIs ==
    ASSUME NEW m, WellFormed(m)
    PROVE  RestOf(m, Rest(m))
<1>1. PICK f : f = m.before
    OBVIOUS
<1>2. PICK h : h = m.host
    OBVIOUS
<1>3. PICK l : l = HostLine(m)
    OBVIOUS
<1>4. PICK a : a = m.after \o EndOfLine
    OBVIOUS
<1>5. PICK z : z = a \o m.behind
    OBVIOUS
<1>6. PICK fl : fl = f \o l
    OBVIOUS
<1>7. PICK g : g = fl \o z
    OBVIOUS
<1>8. f \in Seq(Symbols) /\ h \in Seq(Symbols) /\ Len(f) \in Nat /\ Len(h) \in Nat
    BY <1>1, <1>2, Types, LenProperties
<1>9. Joins(a, m.after, EndOfLine)
    BY <1>4, Types, Texts, Concat
<1>10. Joins(z, a, m.behind)
    BY <1>5, <1>9, Types, Joined, Concat
<1>11. /\ l \in Seq(Symbols)
       /\ h = <<>> => Len(l) = 0
       /\ h # <<>> => /\ Len(h) >= 1 /\ Len(l) = Len(h) + 4
                      /\ l[1] = "Host:" /\ l[2] = "SP" /\ l[Len(h) + 3] = "CR"
                      /\ \A i \in 1 .. Len(h) : l[2 + i] = h[i]
    <2>1. CASE h = <<>>
        <3>1. l = <<>>
            BY <1>2, <1>3, <2>1 DEF HostLine
        <3> QED
            BY <2>1, <3>1
    <2>2. CASE h # <<>>
        <3>1. PICK u : u = <<"Host:">>
            OBVIOUS
        <3>2. u \in Seq(Symbols) /\ Len(u) = 1 /\ u[1] = "Host:"
            BY <3>1, Texts
        <3>3. PICK c1 : c1 = u \o Space
            OBVIOUS
        <3>4. PICK c2 : c2 = c1 \o h
            OBVIOUS
        <3>5. l = c2 \o EndOfLine
            BY <1>2, <1>3, <2>2, <3>1, <3>3, <3>4 DEF HostLine
        <3>6. Joins(c1, u, Space)
            BY <3>2, <3>3, Texts, Concat
        <3>7. Joins(c2, c1, h)
            BY <1>8, <3>4, <3>6, Joined, Concat
        <3>8. Joins(l, c2, EndOfLine)
            BY <3>5, <3>7, Texts, Joined, Concat
        <3>9. Len(c1) = 2 /\ c1[1] = "Host:" /\ c1[2] = "SP"
            BY <3>2, <3>6, Texts DEF Joins
        <3>10. /\ Len(c2) = 2 + Len(h) /\ c2[1] = "Host:" /\ c2[2] = "SP"
               /\ \A i \in 1 .. Len(h) : c2[2 + i] = h[i]
            BY <3>7, <3>9 DEF Joins
        <3>11. /\ l \in Seq(Symbols) /\ Len(l) = Len(h) + 4 /\ l[Len(h) + 3] = "CR"
               /\ \A i \in 1 .. 2 + Len(h) : l[i] = c2[i]
            BY <3>8, <3>10, Texts DEF Joins
        <3>12. Len(h) >= 1
            BY <1>8, <2>2, EmptySeq
        <3>13. l[1] = c2[1] /\ l[2] = c2[2]
            BY <1>8, <3>11
        <3>14. \A i \in 1 .. Len(h) : l[2 + i] = c2[2 + i]
            <4>1. \A i \in 1 .. Len(h) : 2 + i \in 1 .. 2 + Len(h)
                BY <1>8
            <4> QED
                BY <3>11, <4>1
        <3>15. \A i \in 1 .. Len(h) : l[2 + i] = h[i]
            BY <3>10, <3>14
        <3> QED
            BY <2>2, <3>10, <3>11, <3>12, <3>13, <3>15
    <2> QED
        BY <2>1, <2>2
<1>12. Joins(fl, f, l)
    <2>1. l \in Seq(Symbols)
        BY <1>11
    <2> QED
        BY <1>6, <1>8, <2>1, Concat
<1>13. Joins(g, fl, z)
    BY <1>7, <1>10, <1>12, Joined, Concat
<1>14. \A i \in 1 .. Len(f) : f[i] # "Host:"
    <2>1. f \in Seq(Symbols \ {"Host:"})
        BY <1>1 DEF WellFormed
    <2> QED
        BY <2>1, ElementOfSeq
<1>15. \A i \in 1 .. Len(f) : g[i] = f[i] /\ g[i] # "Host:"
    BY <1>12, <1>13, <1>14 DEF Joins
<1>16. ASSUME h # <<>>
       PROVE  /\ g[Len(f) + 1] = "Host:" /\ g[Len(f) + 2] = "SP"
              /\ \A i \in 1 .. Len(h) : g[Len(f) + 2 + i] = h[i]
              /\ g[Len(f) + Len(h) + 3] = "CR"
              /\ Len(h) >= 1 /\ Len(g) >= Len(f) + Len(h) + 4
    <2>1. /\ Len(h) >= 1 /\ Len(l) = Len(h) + 4
          /\ l[1] = "Host:" /\ l[2] = "SP" /\ l[Len(h) + 3] = "CR"
          /\ \A i \in 1 .. Len(h) : l[2 + i] = h[i]
        BY <1>11, <1>16
    <2>2. Len(fl) = Len(f) + Len(l)
        BY <1>12 DEF Joins
    <2>3. /\ Len(h) >= 1 /\ Len(l) = Len(h) + 4 /\ Len(fl) = Len(f) + Len(h) + 4
          /\ l[1] = "Host:" /\ l[2] = "SP" /\ l[Len(h) + 3] = "CR"
          /\ \A i \in 1 .. Len(h) : l[2 + i] = h[i]
        BY <1>8, <2>1, <2>2
    <2>4. \A i \in 1 .. Len(l) : g[Len(f) + i] = l[i]
        BY <1>8, <1>12, <1>13, <2>3 DEF Joins
    <2>5. Len(g) >= Len(fl)
        BY <1>13 DEF Joins
    <2>6. g[Len(f) + 1] = l[1] /\ g[Len(f) + 2] = l[2] /\ g[Len(f) + (Len(h) + 3)] = l[Len(h) + 3]
        BY <1>8, <2>3, <2>4
    <2>7. \A i \in 1 .. Len(h) : g[Len(f) + (2 + i)] = l[2 + i]
        BY <1>8, <2>3, <2>4
    <2> QED
        BY <1>8, <2>3, <2>5, <2>6, <2>7
<1>17. ASSUME h = <<>>
       PROVE  \A i \in 1 .. Len(g) : g[i] # "Host:"
    <2>1. m.after \in Seq(Symbols \ {"Host:"}) /\ m.behind \in Seq(Symbols \ {"Host:"})
        BY <1>2, <1>17 DEF WellFormed
    <2>2. \A i \in 1 .. Len(m.after) : m.after[i] # "Host:"
        BY <2>1, ElementOfSeq
    <2>3. \A i \in 1 .. Len(m.behind) : m.behind[i] # "Host:"
        BY <2>1, ElementOfSeq
    <2>4. \A i \in 1 .. Len(EndOfLine) : EndOfLine[i] # "Host:"
        <3>1. \A i \in 1 .. 2 : i = 1 \/ i = 2
            OBVIOUS
        <3>2. "CR" # "Host:" /\ "LF" # "Host:"
            OBVIOUS
        <3> QED
            BY <3>1, <3>2, Texts
    <2>5. \A i \in 1 .. Len(a) : a[i] # "Host:"
        BY <1>9, <2>2, <2>4, JoinedWithout
    <2>6. \A i \in 1 .. Len(z) : z[i] # "Host:"
        BY <1>10, <2>3, <2>5, JoinedWithout
    <2>7. \A i \in 1 .. Len(f) : f[i] # "Host:"
        BY <1>14
    <2>8. \A i \in 1 .. Len(l) : l[i] # "Host:"
        <3>1. Len(l) = 0
            BY <1>11, <1>17
        <3> QED
            BY <3>1
    <2>9. \A i \in 1 .. Len(fl) : fl[i] # "Host:"
        BY <1>12, <2>7, <2>8, JoinedWithout
    <2> QED
        BY <1>13, <2>6, <2>9, JoinedWithout
<1>18. g \in Seq(Symbols) /\ Len(g) \in Nat
    BY <1>13 DEF Joins
<1>19. RestOf(m, g)
    BY <1>1, <1>2, <1>8, <1>15, <1>16, <1>17, <1>18 DEF RestOf
<1>20. g = Rest(m)
    BY <1>1, <1>3, <1>4, <1>5, <1>6, <1>7 DEF Rest
<1> QED
    BY <1>19, <1>20

\* w is the request line r, its end, and g.
WireOf(w, r, g) ==
    /\ w \in Seq(Symbols) /\ Len(r) \in Nat /\ Len(g) \in Nat /\ Len(w) = Len(r) + 2 + Len(g)
    /\ \A i \in 1 .. Len(r) : w[i] = r[i]
    /\ w[Len(r) + 1] = "CR" /\ w[Len(r) + 2] = "LF"
    /\ \A i \in 1 .. Len(g) : w[Len(r) + 2 + i] = g[i]

LEMMA WireIs ==
    ASSUME NEW m, WellFormed(m)
    PROVE  WireOf(Wire(m), RequestLine(m), Rest(m))
<1>1. PICK r : r = RequestLine(m)
    OBVIOUS
<1>2. PICK g : g = Rest(m)
    OBVIOUS
<1>3. PICK c : c = r \o EndOfLine
    OBVIOUS
<1>4. PICK w : w = c \o g
    OBVIOUS
<1>5. w = Wire(m)
    BY <1>1, <1>2, <1>3, <1>4 DEF Wire, Rest
<1>6. r \in Seq(Symbols)
    BY <1>1, LineIs DEF LineOf
<1>7. g \in Seq(Symbols)
    BY <1>2, RestIs DEF RestOf
<1>8. Joins(c, r, EndOfLine)
    BY <1>3, <1>6, Texts, Concat
<1>9. Joins(w, c, g)
    BY <1>4, <1>7, <1>8, Joined, Concat
<1>10. /\ Len(r) \in Nat /\ Len(c) = Len(r) + 2
       /\ c[Len(r) + 1] = "CR" /\ c[Len(r) + 2] = "LF"
       /\ \A i \in 1 .. Len(r) : c[i] = r[i]
    BY <1>8, Texts DEF Joins
<1>11. /\ w \in Seq(Symbols) /\ Len(g) \in Nat /\ Len(w) = Len(c) + Len(g)
       /\ \A i \in 1 .. Len(c) : w[i] = c[i]
       /\ \A i \in 1 .. Len(g) : w[Len(c) + i] = g[i]
    BY <1>9 DEF Joins
<1>12. WireOf(w, r, g)
    BY <1>10, <1>11 DEF WireOf
<1> QED
    BY <1>1, <1>2, <1>5, <1>12

\* The target t is the site s with the path p behind it.
TargetOf(t, s, p) ==
    /\ Joins(t, s, p)
    /\ \A i \in 1 .. Len(t) : t[i] \in Words
    /\ \A i \in 1 .. Len(s) : s[i] # "/"
    /\ s # <<>> => Len(s) >= 1 /\ s[1] = "http://"
    /\ p # <<>> => Len(p) >= 1 /\ p[1] = "/"
    /\ s # <<>> \/ p # <<>>

LEMMA TargetIs ==
    ASSUME NEW m, WellFormed(m)
    PROVE  TargetOf(Target(m), m.site, m.path)
<1>1. m.site \in Seq(Words \ {"/"}) /\ m.path \in Seq(Words)
    BY DEF WellFormed
<1>2. PICK s : s = m.site
    OBVIOUS
<1>3. PICK p : p = m.path
    OBVIOUS
<1>4. PICK t : t = s \o p
    OBVIOUS
<1>5. t = Target(m)
    BY <1>2, <1>3, <1>4 DEF Target
<1>6. s \in Seq(Symbols) /\ p \in Seq(Symbols) /\ s \in Seq(Words)
    <2>1. Words \ {"/"} \subseteq Words
        OBVIOUS
    <2> QED
        BY <1>1, <1>2, <1>3, <2>1, Types, SeqMonotonic
<1>7. Joins(t, s, p)
    BY <1>4, <1>6, Concat
<1>8. \A i \in 1 .. Len(t) : t[i] \in Words
    <2>1. t \in Seq(Words)
        BY <1>1, <1>3, <1>4, <1>6, ConcatProperties
    <2> QED
        BY <2>1, ElementOfSeq
<1>9. \A i \in 1 .. Len(s) : s[i] # "/"
    BY <1>1, <1>2, ElementOfSeq
<1>10. s # <<>> => Len(s) >= 1 /\ s[1] = "http://"
    <2>1. s # <<>> => s[1] = "http://"
        BY <1>2 DEF WellFormed
    <2>2. s # <<>> => Len(s) \in Nat \ {0}
        BY <1>6, EmptySeq
    <2> QED
        BY <2>1, <2>2
<1>11. p # <<>> => Len(p) >= 1 /\ p[1] = "/"
    <2>1. p # <<>> => p[1] = "/"
        BY <1>3 DEF WellFormed
    <2>2. p # <<>> => Len(p) \in Nat \ {0}
        BY <1>6, EmptySeq
    <2> QED
        BY <2>1, <2>2
<1>12. s # <<>> \/ p # <<>>
    BY <1>2, <1>3 DEF WellFormed
<1>13. TargetOf(t, s, p)
    BY <1>7, <1>8, <1>9, <1>10, <1>11, <1>12 DEF TargetOf
<1> QED
    BY <1>2, <1>3, <1>5, <1>13

\* The uri is the path, or a slash if the target is a site alone.
LEMMA UriOfTarget ==
    ASSUME NEW t, NEW s, NEW p, TargetOf(t, s, p)
    PROVE  UriOf(t) = IF p = <<>> THEN <<"/">> ELSE p
<1>1. PICK a : a = Len(s)
    OBVIOUS
<1>2. PICK b : b = Len(p)
    OBVIOUS
<1>3. /\ t \in Seq(Symbols) /\ a \in Nat /\ b \in Nat /\ Len(t) = a + b
      /\ \A i \in 1 .. a : t[i] = s[i] /\ s[i] # "/"
      /\ \A i \in 1 .. b : t[a + i] = p[i]
    BY <1>1, <1>2 DEF TargetOf, Joins
<1>4. s # <<>> => a >= 1 /\ s[1] = "http://"
    BY <1>1 DEF TargetOf
<1>5. p # <<>> => b >= 1 /\ p[1] = "/"
    BY <1>2 DEF TargetOf
<1>6. s # <<>> \/ p # <<>>
    BY DEF TargetOf
<1>7. a + b >= 1
    BY <1>3, <1>4, <1>5, <1>6
<1>8. p \in Seq(Symbols)
    BY DEF TargetOf, Joins
<1>9. PICK c : c = Cut(t, 1)
    OBVIOUS
<1>10. c \in Seq(Symbols) /\ Len(c) = 1 /\ c[1] = t[1]
    <2>1. CASE a + b > 1
        <3>1. 1 \in 1 .. Len(t) + 1 /\ 1 \in 1 - 1 .. Len(t) /\ 1 - 1 + 1 = 1 /\ 1 + 1 - 1 = 1
            BY <1>3, <2>1
        <3>2. PICK q : q = SubSeq(t, 1, 1)
            OBVIOUS
        <3>3. q \in Seq(Symbols) /\ Len(q) = 1 /\ \A i \in 1 .. 1 : q[i] = t[1 + i - 1]
            BY <1>3, <3>1, <3>2, SubSeqIs
        <3>4. q[1] = t[1]
            BY <3>1, <3>3
        <3>5. c = q
            BY <1>3, <1>9, <2>1, <3>2 DEF Cut
        <3> QED
            BY <3>3, <3>4, <3>5
    <2>2. CASE a + b = 1
        <3>1. c = t
            BY <1>3, <1>9, <2>2 DEF Cut
        <3> QED
            BY <1>3, <2>2, <3>1
    <2> QED
        BY <1>3, <1>7, <2>1, <2>2
<1>11. c = <<"http://">> <=> t[1] = "http://"
    <2>1. c = <<"http://">> => c[1] = "http://"
        OBVIOUS
    <2>2. c[1] = "http://" => c = <<"http://">>
        BY <1>10
    <2> QED
        BY <1>10, <2>1, <2>2
<1>12. UriOf(t) = IF t[1] # "http://" THEN t
                  ELSE IF Find(t, <<"/">>) = 0 THEN <<"/">> ELSE Drop(t, Find(t, <<"/">>) - 1)
    BY <1>9, <1>11 DEF UriOf
<1>13. CASE s = <<>>
    <2>1. a = 0
        BY <1>1, <1>13
    <2>2. Len(t) = Len(p) /\ \A i \in 1 .. Len(t) : t[i] = p[i]
        BY <1>2, <1>3, <2>1
    <2>3. t = p
        BY <1>3, <1>8, <2>2, SeqEqual
    <2>4. t[1] # "http://"
        BY <1>5, <1>6, <1>13, <2>3
    <2> QED
        BY <1>6, <1>12, <1>13, <2>3, <2>4
<1>14. CASE s # <<>>
    <2>1. t[1] = "http://"
        <3>1. 1 \in 1 .. a
            BY <1>3, <1>4, <1>14
        <3> QED
            BY <1>3, <1>4, <1>14, <3>1
    <2>2. "/" \in Symbols
        BY Texts
    <2>3. CASE p = <<>>
        <3>1. b = 0
            BY <1>2, <2>3
        <3>2. \A i \in 1 .. Len(t) : t[i] # "/"
            BY <1>3, <3>1
        <3>3. Find(t, <<"/">>) # 0 => \E k \in 1 .. Len(t) : t[k] = "/"
            BY <1>3, <2>2, FindSymbol
        <3>4. Find(t, <<"/">>) = 0
            BY <3>2, <3>3
        <3> QED
            BY <1>12, <2>1, <2>3, <3>4
    <2>4. CASE p # <<>>
        <3>1. PICK k : k = a + 1
            OBVIOUS
        <3>2. k \in 1 .. Len(t) /\ k - 1 = a /\ 1 \in 1 .. b
            BY <1>3, <1>5, <2>4, <3>1
        <3>3. t[k] = "/"
            BY <1>3, <1>5, <2>4, <3>1, <3>2
        <3>4. \A j \in 1 .. k - 1 : t[j] # "/"
            BY <1>3, <3>2
        <3>5. Find(t, <<"/">>) = k
            BY <1>3, <2>2, <3>2, <3>3, <3>4, FindSymbol
        <3>6. UriOf(t) = Drop(t, a)
            BY <1>12, <2>1, <3>2, <3>5
        <3>7. PICK d : d = Drop(t, a)
            OBVIOUS
        <3>8. a \in 0 .. Len(t) /\ Len(t) - a = b
            BY <1>3
        <3>9. d \in Seq(Symbols) /\ Len(d) = b /\ \A i \in 1 .. b : d[i] = t[a + i]
            BY <1>3, <3>7, <3>8, DropIs
        <3>10. Len(d) = Len(p) /\ \A i \in 1 .. Len(d) : d[i] = p[i]
            BY <1>2, <1>3, <3>9
        <3>11. d = p
            BY <1>8, <3>9, <3>10, SeqEqual
        <3> QED
            BY <2>4, <3>6, <3>7, <3>11
    <2> QED
        BY <2>3, <2>4
<1> QED
    BY <1>13, <1>14

\* What is between the two spaces of the request line.
LEMMA TargetOfLine ==
    ASSUME NEW m, WellFormed(m)
    PROVE  UpTo(AfterMethod(RequestLine(m)), {"SP"}) = Target(m)
<1>1. PICK t : t = Target(m)
    OBVIOUS
<1>2. PICK r : r = RequestLine(m)
    OBVIOUS
<1>3. PICK n : n = Len(t)
    OBVIOUS
<1>4. /\ r \in Seq(Symbols) /\ n \in Nat /\ Len(r) = n + 4
      /\ r[1] = m.method /\ r[2] = "SP" /\ r[n + 3] = "SP"
      /\ \A i \in 1 .. n : r[2 + i] = t[i]
    <2>1. LineOf(m, t, r)
        BY <1>1, <1>2, LineIs
    <2> QED
        BY <1>3, <2>1 DEF LineOf
<1>5. "SP" \in Symbols /\ "SP" \notin Words
    BY ParsingAssumption, Texts DEF Separators
<1>6. t \in Seq(Symbols) /\ \A i \in 1 .. n : t[i] \in Words
    BY <1>1, <1>3, TargetIs DEF TargetOf, Joins
<1>7. Find(r, Space) = 2
    <2>1. m.method # "SP"
        BY <1>5 DEF WellFormed
    <2>2. 2 \in 1 .. Len(r) /\ \A j \in 1 .. 2 - 1 : r[j] # "SP"
        BY <1>4, <2>1
    <2> QED
        BY <1>4, <1>5, <2>2, FindSymbol DEF Space
<1>8. PICK d : d = Drop(r, 2)
    OBVIOUS
<1>9. d = AfterMethod(r)
    BY <1>7, <1>8 DEF AfterMethod
<1>10. d \in Seq(Symbols) /\ Len(d) = n + 2 /\ \A i \in 1 .. n + 2 : d[i] = r[2 + i]
    <2>1. 2 \in 0 .. Len(r) /\ Len(r) - 2 = n + 2
        BY <1>4
    <2>2. d \in Seq(Symbols) /\ Len(d) = Len(r) - 2 /\ \A i \in 1 .. Len(r) - 2 : d[i] = r[2 + i]
        <3>1. r \in Seq(Symbols) /\ 2 \in 0 .. Len(r)
            BY <1>4, <2>1
        <3> QED
            BY <1>8, <3>1, DropIs
    <2> QED
        BY <2>1, <2>2
<1>11. \A i \in 1 .. n : d[i] = t[i] /\ d[i] # "SP"
    <2>1. \A i \in 1 .. n : d[i] = t[i]
        BY <1>4, <1>10
    <2> QED
        BY <1>5, <1>6, <2>1
<1>12. PICK e : e = n + 1
    OBVIOUS
<1>13. e \in 1 .. Len(d) /\ e - 1 = n /\ 2 + e = n + 3 /\ e \in 1 .. n + 2
    BY <1>4, <1>10, <1>12
<1>14. d[e] = "SP"
    BY <1>4, <1>10, <1>13
<1>15. UpTo(d, {"SP"}) = SubSeq(d, 1, e - 1)
    <2>1. d[e] \in {"SP"} /\ \A j \in 1 .. e - 1 : d[j] \notin {"SP"}
        BY <1>11, <1>13, <1>14
    <2> QED
        BY <1>10, <1>13, <2>1, UpToStop
<1>16. SubSeq(d, 1, e - 1) = t
    <2>1. PICK q : q = SubSeq(d, 1, e - 1)
        OBVIOUS
    <2>2. 1 \in 1 .. Len(d) + 1 /\ e - 1 \in 1 - 1 .. Len(d) /\ e - 1 - 1 + 1 = n
        BY <1>4, <1>10, <1>13
    <2>3. /\ q \in Seq(Symbols) /\ Len(q) = n
          /\ \A i \in 1 .. n : q[i] = d[1 + i - 1]
        BY <1>10, <2>1, <2>2, SubSeqIs
    <2>4. \A i \in 1 .. Len(q) : q[i] = t[i]
        BY <1>4, <1>11, <2>3
    <2>5. q = t
        BY <1>6, <1>3, <2>3, <2>4, SeqEqual
    <2> QED
        BY <2>1, <2>5
<1> QED
    BY <1>1, <1>2, <1>9, <1>15, <1>16

----------------------------------------------------------------------------
(* What arrived when the recv loop ends.                                   *)

\* b is what arrived of w, and a blank line is in it.
Prefix(b, w) ==
    /\ b \in Seq(Symbols) /\ Len(b) \in Nat /\ Len(b) <= Len(w)
    /\ \A i \in 1 .. Len(b) : b[i] = w[i]

BlankAt(b, k) ==
    /\ k \in Nat \ {0} /\ k + 3 <= Len(b)
    /\ b[k] = "CR" /\ b[k + 1] = "LF" /\ b[k + 2] = "CR" /\ b[k + 3] = "LF"

LEMMA BufferIs ==
    ASSUME NEW m, WellFormed(m), NEW b \in Buffers(m)
    PROVE  Prefix(b, Wire(m)) /\ \E k \in Nat : BlankAt(b, k)
<1>1. PICK w : w = Wire(m)
    OBVIOUS
<1>2. w \in Seq(Symbols) /\ Len(w) \in Nat
    BY <1>1, WireIs, LenProperties DEF WireOf
<1>3. PICK n \in 1 .. Len(w) : b = SubSeq(w, 1, n) /\ Find(SubSeq(w, 1, n), BlankLine) # 0
    BY <1>1 DEF Buffers
<1>4. b \in Seq(Symbols) /\ Len(b) = n /\ \A i \in 1 .. n : b[i] = w[i]
    <2>1. 1 \in 1 .. Len(w) + 1 /\ n \in 1 - 1 .. Len(w) /\ n - 1 + 1 = n
        BY <1>2
    <2>2. /\ b \in Seq(Symbols) /\ Len(b) = n - 1 + 1
          /\ \A i \in 1 .. n - 1 + 1 : b[i] = w[1 + i - 1]
        BY <1>2, <1>3, <2>1, SubSeqIs
    <2> QED
        BY <2>1, <2>2
<1>5. Prefix(b, w)
    BY <1>2, <1>4 DEF Prefix
<1>6. PICK k \in 1 .. Len(b) - Len(BlankLine) + 1 : Matches(b, BlankLine, k)
    <2>1. Find(b, BlankLine) # 0
        BY <1>3
    <2> QED
        BY <1>4, <2>1, Texts, FindIsFirst
<1>7. k \in Nat \ {0} /\ k + 3 <= Len(b)
    BY <1>4, <1>6, Texts
<1>8. \A i \in 1 .. 4 : b[k + i - 1] = BlankLine[i]
    BY <1>6, Texts DEF Matches
<1>9. b[k + 1 - 1] = "CR" /\ b[k + 2 - 1] = "LF" /\ b[k + 3 - 1] = "CR" /\ b[k + 4 - 1] = "LF"
    BY <1>8, Texts
<1>10. k + 1 - 1 = k /\ k + 2 - 1 = k + 1 /\ k + 3 - 1 = k + 2 /\ k + 4 - 1 = k + 3
    BY <1>7
<1>11. BlankAt(b, k)
    BY <1>7, <1>9, <1>10 DEF BlankAt
<1> QED
    BY <1>1, <1>5, <1>7, <1>11

\* The blank line is behind the request line, so all of that has arrived: the
\* buffer is cut at its end, and what is searched for the host begins behind it.
LEMMA RequestLineArrived ==
    ASSUME NEW m, WellFormed(m), NEW r, NEW g, NEW w, NEW b, NEW k,
           r = RequestLine(m), WireOf(w, r, g), g \in Seq(Symbols), Prefix(b, w), BlankAt(b, k)
    PROVE  /\ k > Len(r)
           /\ Line(b) = r
           /\ Prefix(Headers(b), g)
           /\ Len(b) = Len(r) + 2 + Len(Headers(b))
<1>1. PICK n : n = Len(r)
    OBVIOUS
<1>2. /\ n \in Nat /\ Len(w) = n + 2 + Len(g) /\ Len(g) \in Nat
      /\ w[n + 1] = "CR" /\ w[n + 2] = "LF"
      /\ \A i \in 1 .. n : w[i] = r[i]
      /\ \A i \in 1 .. Len(g) : w[n + 2 + i] = g[i]
    BY <1>1 DEF WireOf
<1>3. /\ b \in Seq(Symbols) /\ Len(b) \in Nat /\ Len(b) <= Len(w)
      /\ \A i \in 1 .. Len(b) : b[i] = w[i]
    BY DEF Prefix
<1>4. k \in Nat \ {0} /\ k + 3 <= Len(b) /\ b[k] = "CR"
    BY DEF BlankAt
<1>5. r \in Seq(Symbols)
    BY LineIs DEF LineOf
<1>6. \A i \in 1 .. n : r[i] # "CR"
    <2>1. PICK t : t = Target(m)
        OBVIOUS
    <2>2. PICK l : l = Len(t)
        OBVIOUS
    <2>3. /\ l \in Nat /\ n = l + 4 /\ r[1] = m.method /\ r[2] = "SP" /\ r[l + 3] = "SP"
          /\ r[l + 4] = "HTTP/1.1" /\ \A i \in 1 .. l : r[2 + i] = t[i]
        <3>1. LineOf(m, t, r)
            BY <2>1, LineIs
        <3> QED
            BY <1>1, <2>2, <3>1 DEF LineOf
    <2>4. \A i \in 1 .. l : t[i] \in Words
        BY <2>1, <2>2, TargetIs DEF TargetOf
    <2>5. "CR" \notin Words
        BY ParsingAssumption DEF Separators
    <2>6. r[1] # "CR"
        BY <2>3, <2>5 DEF WellFormed
    <2>7. r[2] # "CR" /\ r[l + 3] # "CR" /\ r[l + 4] # "CR"
        BY <2>3
    <2>8. \A i \in 1 .. l : r[2 + i] # "CR"
        BY <2>3, <2>4, <2>5
    <2> SUFFICES ASSUME NEW i \in 1 .. n PROVE r[i] # "CR"
        OBVIOUS
    <2>9. i = 1 \/ i = 2 \/ i = l + 3 \/ i = l + 4 \/ i - 2 \in 1 .. l
        BY <2>3
    <2>10. ASSUME i - 2 \in 1 .. l PROVE r[i] # "CR"
        <3>1. PICK j : j = i - 2
            OBVIOUS
        <3>2. j \in 1 .. l /\ 2 + j = i
            BY <2>10, <3>1
        <3> QED
            BY <2>8, <3>2
    <2> QED
        BY <2>6, <2>7, <2>9, <2>10
<1>7. k > n
    <2> SUFFICES ASSUME k <= n PROVE FALSE
        BY <1>2, <1>4
    <2>1. k \in 1 .. n /\ k \in 1 .. Len(b)
        BY <1>2, <1>3, <1>4
    <2>2. b[k] = r[k]
        BY <1>2, <1>3, <2>1
    <2> QED
        BY <1>4, <1>6, <2>1, <2>2
<1>8. n + 4 <= Len(b)
    BY <1>2, <1>3, <1>4, <1>7
<1>9. \A i \in 1 .. n : b[i] = r[i]
    BY <1>2, <1>3, <1>8
<1>10. b[n + 1] = "CR" /\ b[n + 2] = "LF"
    <2>1. n + 1 \in 1 .. Len(b) /\ n + 2 \in 1 .. Len(b)
        BY <1>2, <1>3, <1>8
    <2> QED
        BY <1>2, <1>3, <2>1
<1>11. Find(b, EndOfLine) = n + 1
    <2>1. PICK q : q = n + 1
        OBVIOUS
    <2>2. q \in 1 .. Len(b) - Len(EndOfLine) + 1
        BY <1>2, <1>3, <1>8, <2>1, Texts
    <2>3. Matches(b, EndOfLine, q)
        <3>1. \A i \in 1 .. 2 : i = 1 \/ i = 2
            OBVIOUS
        <3>2. q + 1 - 1 = n + 1 /\ q + 2 - 1 = n + 2
            BY <1>2, <2>1
        <3>3. b[q + 1 - 1] = EndOfLine[1] /\ b[q + 2 - 1] = EndOfLine[2]
            BY <1>10, <3>2, Texts
        <3> QED
            BY <3>1, <3>3, Texts DEF Matches
    <2>4. \A j \in 1 .. q - 1 : ~Matches(b, EndOfLine, j)
        <3> SUFFICES ASSUME NEW j \in 1 .. q - 1, Matches(b, EndOfLine, j) PROVE FALSE
            OBVIOUS
        <3>1. j \in 1 .. n /\ j + 1 - 1 = j
            BY <1>2, <2>1
        <3>2. 1 \in 1 .. Len(EndOfLine)
            BY Texts
        <3>3. b[j + 1 - 1] = EndOfLine[1]
            BY <3>2 DEF Matches
        <3>4. b[j] = "CR"
            BY <3>1, <3>3, Texts
        <3> QED
            BY <1>6, <1>9, <3>1, <3>4
    <2>5. EndOfLine \in Seq(Symbols)
        BY Texts
    <2>6. Find(b, EndOfLine) = q
        BY <1>3, <2>2, <2>3, <2>4, <2>5, FindIsFirst
    <2> QED
        BY <2>1, <2>6
<1>12. Line(b) = r
    <2>1. PICK q : q = SubSeq(b, 1, n)
        OBVIOUS
    <2>2. 1 \in 1 .. Len(b) + 1 /\ n \in 1 - 1 .. Len(b) /\ n - 1 + 1 = n /\ n + 1 - 1 = n
        BY <1>2, <1>3, <1>8
    <2>3. /\ q \in Seq(Symbols) /\ Len(q) = n - 1 + 1
          /\ \A i \in 1 .. n - 1 + 1 : q[i] = b[1 + i - 1]
        BY <1>3, <2>1, <2>2, SubSeqIs
    <2>4. Len(q) = Len(r) /\ \A i \in 1 .. Len(q) : q[i] = r[i]
        BY <1>1, <1>9, <2>2, <2>3
    <2>5. q = r
        BY <1>5, <2>3, <2>4, SeqEqual
    <2> QED
        BY <1>11, <2>1, <2>2, <2>5 DEF Line
<1>13. PICK h : h = Headers(b)
    OBVIOUS
<1>14. PICK a : a = n + 2
    OBVIOUS
<1>15. a \in 0 .. Len(b) /\ n + 1 + 1 = a /\ a \in Nat
    BY <1>2, <1>3, <1>8, <1>14
<1>16. h = Drop(b, a)
    BY <1>11, <1>13, <1>15 DEF Headers
<1>17. h \in Seq(Symbols) /\ Len(h) = Len(b) - a /\ \A i \in 1 .. Len(b) - a : h[i] = b[a + i]
    BY <1>3, <1>15, <1>16, DropIs
<1>18. Prefix(h, g)
    <2>1. Len(h) \in Nat /\ Len(h) <= Len(g)
        BY <1>2, <1>3, <1>15, <1>17, <1>14
    <2>2. \A i \in 1 .. Len(h) : h[i] = g[i]
        <3> SUFFICES ASSUME NEW i \in 1 .. Len(h) PROVE h[i] = g[i]
            OBVIOUS
        <3>1. h[i] = b[a + i]
            BY <1>17
        <3>2. a + i \in 1 .. Len(b) /\ i \in 1 .. Len(g)
            BY <1>2, <1>3, <1>15, <1>17, <2>1
        <3>3. b[a + i] = w[a + i]
            BY <1>3, <3>2
        <3>4. w[a + i] = g[i]
            BY <1>2, <1>14, <3>2
        <3> QED
            BY <3>1, <3>3, <3>4
    <2> QED
        BY <1>17, <2>1, <2>2 DEF Prefix
<1>19. Len(b) = n + 2 + Len(h)
    BY <1>2, <1>3, <1>14, <1>17
<1> QED
    BY <1>1, <1>7, <1>12, <1>13, <1>18, <1>19

\* So has the host with the end of its line.  Otherwise the blank line would lie
\* among the lines before it, where a client puts none.
LEMMA HostArrived ==
    ASSUME NEW m, WellFormed(m), NEW r, NEW g, NEW w, NEW b, NEW k, NEW h,
           r = RequestLine(m), g = Rest(m), WireOf(w, r, g), Prefix(b, w), BlankAt(b, k),
           m.host # <<>>, Prefix(h, g), k > Len(r), Len(b) = Len(r) + 2 + Len(h)
    PROVE  Len(h) >= Len(m.before) + Len(m.host) + 3
<1>1. PICK n : n = Len(r)
    OBVIOUS
<1>2. PICK f : f = Len(m.before)
    OBVIOUS
<1>3. PICK e : e = Len(m.host)
    OBVIOUS
<1>4. /\ n \in Nat /\ Len(w) = n + 2 + Len(g) /\ Len(g) \in Nat
      /\ w[n + 1] = "CR" /\ w[n + 2] = "LF"
      /\ \A i \in 1 .. Len(g) : w[n + 2 + i] = g[i]
    BY <1>1 DEF WireOf
<1>5. /\ Len(b) \in Nat /\ Len(b) <= Len(w) /\ Len(h) \in Nat /\ Len(b) = n + 2 + Len(h)
      /\ \A i \in 1 .. Len(b) : b[i] = w[i]
    BY <1>1 DEF Prefix
<1>6. /\ k \in Nat \ {0} /\ k + 3 <= Len(b) /\ k > n
      /\ b[k] = "CR" /\ b[k + 1] = "LF" /\ b[k + 2] = "CR" /\ b[k + 3] = "LF"
    BY <1>1 DEF BlankAt
<1>7. /\ f \in Nat /\ e \in Nat
      /\ \A i \in 1 .. f : g[i] = m.before[i]
      /\ g[f + 1] = "Host:" /\ g[f + 2] = "SP"
      /\ \A i \in 1 .. e : g[f + 2 + i] = m.host[i]
      /\ Len(g) >= f + e + 4
    <2>1. RestOf(m, g)
        BY RestIs
    <2> QED
        BY <1>2, <1>3, <2>1 DEF RestOf
<1>8. \A i \in 1 .. e : m.host[i] # "LF"
    <2>1. m.host \in Seq(Words)
        BY DEF WellFormed
    <2>2. "LF" \notin Words
        BY ParsingAssumption DEF Separators
    <2> QED
        BY <1>3, <2>1, <2>2, ElementOfSeq
<1> SUFFICES ASSUME ~(Len(h) >= f + e + 3) PROVE FALSE
    BY <1>2, <1>3
<1>9. Len(h) < f + e + 3
    BY <1>5, <1>7
<1>10. PICK q : q = k + 1 - n
    OBVIOUS
<1>11. q \in 1 .. Len(g) /\ q <= f + e + 2 /\ n + 2 + q = k + 3 /\ k + 3 \in 1 .. Len(b)
    BY <1>4, <1>5, <1>6, <1>7, <1>10, <1>9
<1>12. g[q] = "LF"
    <2>1. b[k + 3] = w[k + 3]
        BY <1>5, <1>11
    <2>2. w[n + 2 + q] = g[q]
        BY <1>4, <1>11
    <2> QED
        BY <1>6, <1>11, <2>1, <2>2
<1>13. q <= f
    <2>1. q # f + 1
        BY <1>7, <1>12
    <2>2. q # f + 2
        BY <1>7, <1>12
    <2>3. ASSUME q > f + 2 PROVE FALSE
        <3>1. PICK j : j = q - f - 2
            OBVIOUS
        <3>2. j \in 1 .. e /\ f + 2 + j = q
            BY <1>7, <1>11, <2>3, <3>1
        <3>3. g[q] = m.host[j]
            BY <1>7, <3>2
        <3> QED
            BY <1>8, <1>12, <3>2, <3>3
    <2> QED
        BY <1>7, <1>11, <2>1, <2>2, <2>3
<1>14. PICK c : c = EndOfLine \o m.before
    OBVIOUS
<1>15. Joins(c, EndOfLine, m.before)
    BY <1>14, Types, Texts, Concat
<1>16. /\ c \in Seq(Symbols) /\ Len(c) = 2 + f /\ c[1] = "CR" /\ c[2] = "LF"
       /\ \A i \in 1 .. f : c[2 + i] = m.before[i]
    <2>1. 1 \in 1 .. 2 /\ 2 \in 1 .. 2
        OBVIOUS
    <2>2. /\ c \in Seq(Symbols) /\ Len(c) = 2 + f
          /\ \A i \in 1 .. 2 : c[i] = EndOfLine[i]
          /\ \A i \in 1 .. f : c[2 + i] = m.before[i]
        BY <1>2, <1>15, Texts DEF Joins
    <2> QED
        BY <2>1, <2>2, Texts
<1>17. \A i \in 1 .. 2 + f : c[i] = w[n + i]
    <2> SUFFICES ASSUME NEW i \in 1 .. 2 + f PROVE c[i] = w[n + i]
        OBVIOUS
    <2>1. CASE i = 1
        BY <1>4, <1>16, <2>1
    <2>2. CASE i = 2
        BY <1>4, <1>16, <2>2
    <2>3. CASE i > 2
        <3>1. PICK j : j = i - 2
            OBVIOUS
        <3>2. j \in 1 .. f /\ j \in 1 .. Len(g) /\ 2 + j = i /\ n + 2 + j = n + i
            BY <1>4, <1>7, <2>3, <3>1
        <3>3. c[2 + j] = m.before[j] /\ g[j] = m.before[j]
            BY <1>7, <1>16, <3>2
        <3>4. w[n + 2 + j] = g[j]
            BY <1>4, <3>2
        <3> QED
            BY <3>2, <3>3, <3>4
    <2> QED
        BY <1>7, <2>1, <2>2, <2>3
<1>18. PICK p : p = k - n
    OBVIOUS
<1>19. p \in 1 .. f - 1 /\ n + p = k
    BY <1>4, <1>6, <1>7, <1>10, <1>13, <1>18
<1>20. Matches(c, BlankLine, p)
    <2>1. \A i \in 1 .. 4 : i = 1 \/ i = 2 \/ i = 3 \/ i = 4
        OBVIOUS
    <2>2. \A i \in 0 .. 3 : c[p + i] = b[k + i]
        <3> SUFFICES ASSUME NEW i \in 0 .. 3 PROVE c[p + i] = b[k + i]
            OBVIOUS
        <3>1. p + i \in 1 .. 2 + f /\ n + (p + i) = k + i /\ k + i \in 1 .. Len(b)
            BY <1>4, <1>5, <1>6, <1>7, <1>19
        <3>2. c[p + i] = w[n + (p + i)] /\ b[k + i] = w[k + i]
            BY <1>5, <1>17, <3>1
        <3> QED
            BY <3>1, <3>2
    <2>3. c[p + 0] = b[k + 0] /\ c[p + 1] = b[k + 1] /\ c[p + 2] = b[k + 2] /\ c[p + 3] = b[k + 3]
        BY <2>2
    <2>4. /\ p + 1 - 1 = p + 0 /\ p + 2 - 1 = p + 1 /\ p + 3 - 1 = p + 2 /\ p + 4 - 1 = p + 3
          /\ k + 0 = k
        BY <1>6, <1>7, <1>19
    <2>5. /\ c[p + 1 - 1] = "CR" /\ c[p + 2 - 1] = "LF"
          /\ c[p + 3 - 1] = "CR" /\ c[p + 4 - 1] = "LF"
        BY <1>6, <2>3, <2>4
    <2>6. \A i \in 1 .. 4 : c[p + i - 1] = BlankLine[i]
        BY <2>1, <2>5, Texts
    <2> QED
        BY <2>6, Texts DEF Matches
<1>21. SubSeq(c, p, p + 3) = BlankLine
    <2>1. p \in 1 .. Len(c) - Len(BlankLine) + 1
        BY <1>7, <1>16, <1>19, Texts
    <2>2. c \in Seq(Symbols) /\ BlankLine \in Seq(Symbols)
        BY <1>16, Texts
    <2>3. SubSeq(c, p, p + Len(BlankLine) - 1) = BlankLine <=> Matches(c, BlankLine, p)
        BY <2>1, <2>2, PatternAt
    <2>4. SubSeq(c, p, p + Len(BlankLine) - 1) = BlankLine
        BY <1>20, <2>3
    <2>5. p + Len(BlankLine) - 1 = p + 3
        BY <1>7, <1>19, Texts
    <2> QED
        BY <2>4, <2>5
<1> QED
    BY <1>2, <1>14, <1>19, <1>21 DEF WellFormed

\* find_host_header finds it, and the copy into host[256] has all of it.
LEMMA HostFound ==
    ASSUME NEW m, WellFormed(m), NEW g, RestOf(m, g), NEW h, Prefix(h, g),
           m.host # <<>>, Len(h) >= Len(m.before) + Len(m.host) + 3
    PROVE  HostOf(h) = m.host
<1>1. PICK f : f = Len(m.before)
    OBVIOUS
<1>2. PICK e : e = Len(m.host)
    OBVIOUS
<1>3. /\ h \in Seq(Symbols) /\ Len(h) \in Nat /\ Len(h) <= Len(g) /\ f + e + 3 <= Len(h)
      /\ \A i \in 1 .. Len(h) : h[i] = g[i]
    BY <1>1, <1>2 DEF Prefix
<1>4. /\ f \in Nat /\ e \in Nat /\ e >= 1 /\ Len(g) \in Nat
      /\ \A i \in 1 .. f : g[i] # "Host:"
      /\ g[f + 1] = "Host:" /\ g[f + 2] = "SP" /\ g[f + e + 3] = "CR"
      /\ \A i \in 1 .. e : g[f + 2 + i] = m.host[i]
    BY <1>1, <1>2 DEF RestOf
<1>5. /\ \A i \in 1 .. f : h[i] # "Host:"
      /\ h[f + 1] = "Host:" /\ h[f + 2] = "SP" /\ h[f + e + 3] = "CR"
      /\ \A i \in 1 .. e : h[f + 2 + i] = m.host[i]
    <2>1. \A i \in 1 .. f : i \in 1 .. Len(h)
        BY <1>3, <1>4
    <2>2. f + 1 \in 1 .. Len(h) /\ f + 2 \in 1 .. Len(h) /\ f + e + 3 \in 1 .. Len(h)
        BY <1>3, <1>4
    <2>3. \A i \in 1 .. e : f + 2 + i \in 1 .. Len(h)
        BY <1>3, <1>4
    <2> QED
        BY <1>3, <1>4, <2>1, <2>2, <2>3
<1>6. /\ m.host \in Seq(Words) /\ m.host \in Seq(Symbols) /\ e < HostSize
      /\ \A i \in 1 .. e : m.host[i] \in Words
    <2>1. m.host \in Seq(Words) /\ e < HostSize
        BY <1>2 DEF WellFormed
    <2> QED
        BY <1>2, <2>1, Types, ElementOfSeq
<1>7. Words \cap {"SP", "TAB", "CR", "LF"} = {}
    BY ParsingAssumption DEF Separators
<1>8. PICK a : a = f + 1
    OBVIOUS
<1>9. a \in 1 .. Len(h) /\ a - 1 = f /\ a \in 0 .. Len(h)
    BY <1>3, <1>4, <1>8
<1>10. Find(h, <<"Host:">>) = a
    <2>1. h[a] = "Host:" /\ \A i \in 1 .. a - 1 : h[i] # "Host:"
        BY <1>5, <1>8, <1>9
    <2>2. "Host:" \in Symbols
        BY Texts
    <2> QED
        BY <1>3, <1>9, <2>1, <2>2, FindSymbol
<1>11. PICK x : x = Drop(h, a)
    OBVIOUS
<1>12. x \in Seq(Symbols) /\ Len(x) = Len(h) - a /\ \A i \in 1 .. Len(h) - a : x[i] = h[a + i]
    BY <1>3, <1>9, <1>11, DropIs
<1>13. e + 2 <= Len(x) /\ Len(x) \in Nat
    BY <1>3, <1>4, <1>8, <1>12
<1>14. x[1] = "SP" /\ x[e + 2] = "CR" /\ \A i \in 1 .. e : x[1 + i] = m.host[i]
    <2>1. 1 \in 1 .. Len(h) - a /\ a + 1 = f + 2
        BY <1>3, <1>4, <1>8
    <2>2. e + 2 \in 1 .. Len(h) - a /\ a + (e + 2) = f + e + 3
        BY <1>3, <1>4, <1>8
    <2>3. \A i \in 1 .. e : 1 + i \in 1 .. Len(h) - a /\ a + (1 + i) = f + 2 + i
        BY <1>3, <1>4, <1>8
    <2>4. x[1] = h[a + 1]
        BY <1>12, <2>1
    <2>5. x[e + 2] = h[a + (e + 2)]
        BY <1>12, <2>2
    <2>6. \A i \in 1 .. e : x[1 + i] = h[a + (1 + i)]
        BY <1>12, <2>3
    <2>7. x[1] = "SP"
        BY <1>5, <2>1, <2>4
    <2>8. x[e + 2] = "CR"
        BY <1>5, <2>2, <2>5
    <2>9. \A i \in 1 .. e : x[1 + i] = m.host[i]
        BY <1>5, <2>3, <2>6
    <2> QED
        BY <2>7, <2>8, <2>9
<1>15. PICK y : y = Drop(x, 1)
    OBVIOUS
<1>16. Without({"SP", "TAB"}, x) = y
    <2>1. 2 \in 1 .. Len(x) /\ 2 - 1 = 1
        BY <1>4, <1>13
    <2>2. x[2] = m.host[1]
        BY <1>4, <1>14
    <2>3. m.host[1] \in Words
        BY <1>4, <1>6
    <2>4. x[2] \notin {"SP", "TAB"}
        BY <1>7, <2>2, <2>3
    <2>5. \A j \in 1 .. 2 - 1 : x[j] \in {"SP", "TAB"}
        BY <1>14
    <2>6. Without({"SP", "TAB"}, x) = Drop(x, 2 - 1)
        BY <1>12, <2>1, <2>4, <2>5, WithoutBlanks
    <2> QED
        BY <1>15, <2>1, <2>6
<1>17. y \in Seq(Symbols) /\ Len(y) = Len(x) - 1 /\ \A i \in 1 .. Len(x) - 1 : y[i] = x[1 + i]
    <2>1. 1 \in 0 .. Len(x)
        BY <1>4, <1>13
    <2> QED
        BY <1>12, <1>15, <2>1, DropIs
<1>18. PICK c : c = e + 1
    OBVIOUS
<1>19. c \in 1 .. Len(y) /\ c - 1 = e /\ 1 + c = e + 2 /\ c \in 1 .. Len(x) - 1
    BY <1>4, <1>13, <1>17, <1>18
<1>20. y[c] = "CR" /\ \A i \in 1 .. e : y[i] = m.host[i]
    <2>1. \A i \in 1 .. e : i \in 1 .. Len(x) - 1
        BY <1>4, <1>13
    <2> QED
        BY <1>14, <1>17, <1>19, <2>1
<1>21. UpTo(y, {"CR", "LF"}) = SubSeq(y, 1, c - 1)
    <2>1. y[c] \in {"CR", "LF"}
        BY <1>20
    <2>2. \A j \in 1 .. c - 1 : y[j] \notin {"CR", "LF"}
        BY <1>6, <1>7, <1>19, <1>20
    <2> QED
        BY <1>17, <1>19, <2>1, <2>2, UpToStop
<1>22. SubSeq(y, 1, c - 1) = m.host
    <2>1. PICK q : q = SubSeq(y, 1, c - 1)
        OBVIOUS
    <2>2. 1 \in 1 .. Len(y) + 1 /\ c - 1 \in 1 - 1 .. Len(y) /\ c - 1 - 1 + 1 = e
        BY <1>4, <1>13, <1>17, <1>19
    <2>3. q \in Seq(Symbols) /\ Len(q) = e /\ \A i \in 1 .. e : q[i] = y[1 + i - 1]
        BY <1>17, <2>1, <2>2, SubSeqIs
    <2>4. \A i \in 1 .. e : 1 + i - 1 = i
        BY <1>4
    <2>5. \A i \in 1 .. Len(q) : q[i] = m.host[i]
        BY <1>20, <2>3, <2>4
    <2>6. q = m.host
        BY <1>2, <1>6, <2>3, <2>5, SeqEqual
    <2> QED
        BY <2>1, <2>6
<1>23. HostOf(h) = Cut(m.host, HostSize - 1)
    BY <1>10, <1>11, <1>16, <1>21, <1>22 DEF HostOf
<1>24. ~(Len(m.host) > HostSize - 1)
    BY <1>2, <1>4, <1>6, ParsingAssumption
<1> QED
    BY <1>23, <1>24 DEF Cut

\* A message whose request is accepted names its host; that, and the path, is
\* what handle_client reads.
LEMMA ParsedAsMeant ==
    ASSUME NEW m, WellFormed(m), NEW b \in Buffers(m), Accepts(b)
    PROVE  m.host # <<>> /\ Parse(b) = Meaning(m)
<1>1. PICK r : r = RequestLine(m)
    OBVIOUS
<1>2. PICK g : g = Rest(m)
    OBVIOUS
<1>3. PICK w : w = Wire(m)
    OBVIOUS
<1>4. PICK h : h = Headers(b)
    OBVIOUS
<1>5. Prefix(b, w) /\ WireOf(w, r, g) /\ RestOf(m, g) /\ g \in Seq(Symbols)
    BY <1>1, <1>2, <1>3, BufferIs, WireIs, RestIs DEF RestOf
<1>6. PICK k : BlankAt(b, k)
    BY BufferIs
<1>7. k > Len(r) /\ Line(b) = r /\ Prefix(h, g) /\ Len(b) = Len(r) + 2 + Len(h)
    BY <1>1, <1>4, <1>5, <1>6, RequestLineArrived
<1>8. m.host # <<>>
    <2> SUFFICES ASSUME m.host = <<>> PROVE FALSE
        OBVIOUS
    <2>1. h \in Seq(Symbols) /\ "Host:" \in Symbols
        BY <1>7, Texts DEF Prefix
    <2>2. Find(h, <<"Host:">>) # 0
        BY <1>4 DEF Accepts
    <2>3. PICK i \in 1 .. Len(h) : h[i] = "Host:"
        BY <2>1, <2>2, FindSymbol
    <2>4. i \in 1 .. Len(g) /\ h[i] = g[i]
        BY <1>5, <1>7 DEF Prefix, RestOf
    <2> QED
        BY <1>5, <2>3, <2>4 DEF RestOf
<1>9. Len(h) >= Len(m.before) + Len(m.host) + 3
    BY <1>1, <1>2, <1>5, <1>6, <1>7, <1>8, HostArrived
<1>10. HostOf(h) = m.host
    BY <1>5, <1>7, <1>8, <1>9, HostFound
<1>11. UriOf(UpTo(AfterMethod(r), {"SP"})) = Meaning(m).uri
    <2>1. UpTo(AfterMethod(r), {"SP"}) = Target(m)
        BY <1>1, TargetOfLine
    <2>2. UriOf(Target(m)) = IF m.path = <<>> THEN <<"/">> ELSE m.path
        BY TargetIs, UriOfTarget
    <2> QED
        BY <2>1, <2>2 DEF Meaning
<1>12. Parse(b) = [host |-> m.host, uri |-> Meaning(m).uri]
    BY <1>4, <1>7, <1>10, <1>11 DEF Parse
<1> QED
    BY <1>8, <1>12 DEF Meaning

----------------------------------------------------------------------------
(* Where the host is cut off, in a buffer of any content.                  *)

Below == OpToRel(<, Nat)

\* A set of positions has a first one.
LEMMA FirstOf ==
    ASSUME NEW K \in SUBSET Nat, K # {}
    PROVE  Least(K) \in K /\ \A j \in K : Least(K) <= j
<1>1. \A m, n \in Nat : <<m, n>> \in Below <=> m < n
    BY DEF Below, OpToRel
<1>2. IsWellFoundedOn(Below, Nat)
    BY NatLessThanWellFounded DEF Below
<1>3. PICK m \in K : \A n \in K : ~(<<n, m>> \in Below)
    BY <1>2, WFMin
<1>4. \A n \in K : m <= n
    <2>1. m \in Nat /\ \A n \in K : n \in Nat
        OBVIOUS
    <2>2. \A n \in K : ~(n < m)
        BY <1>1, <1>3, <2>1, Zenon
    <2> QED
        BY <2>1, <2>2
<1>5. Least(K) = m
    BY <1>4, LeastIs
<1> QED
    BY <1>4, <1>5

\* What is found is there.
LEMMA FoundAt ==
    ASSUME NEW S, NEW s \in Seq(S), NEW p \in Seq(S), Find(s, p) # 0
    PROVE  Find(s, p) \in 1 .. Len(s) - Len(p) + 1 /\ Matches(s, p, Find(s, p))
<1> DEFINE K == {j \in 1 .. Len(s) - Len(p) + 1 : Matches(s, p, j)}
<1>1. Find(s, p) = IF K = {} THEN 0 ELSE Least(K)
    <2>1. K = {j \in 1 .. Len(s) - Len(p) + 1 : SubSeq(s, j, j + Len(p) - 1) = p}
        BY PatternAt
    <2> QED
        BY <2>1 DEF Find
<1>2. K # {} /\ K \in SUBSET Nat
    BY <1>1
<1>3. Least(K) \in K
    BY <1>2, FirstOf
<1> QED
    BY <1>1, <1>2, <1>3

\* In particular a blank line, and the end of a line.
LEMMA LinesFound ==
    ASSUME NEW s \in Seq(Symbols)
    PROVE  /\ Find(s, BlankLine) # 0 =>
                /\ Find(s, BlankLine) \in 1 .. Len(s) - 3
                /\ Matches(s, BlankLine, Find(s, BlankLine))
           /\ Find(s, EndOfLine) # 0 => Find(s, EndOfLine) \in 1 .. Len(s) - 1
<1>1. BlankLine \in Seq(Symbols) /\ EndOfLine \in Seq(Symbols)
    BY Texts
<1>2. Len(s) - Len(BlankLine) + 1 = Len(s) - 3 /\ Len(s) - Len(EndOfLine) + 1 = Len(s) - 1
    BY Texts, LenProperties
<1>3. Find(s, BlankLine) # 0 =>
        /\ Find(s, BlankLine) \in 1 .. Len(s) - Len(BlankLine) + 1
        /\ Matches(s, BlankLine, Find(s, BlankLine))
    BY <1>1, FoundAt
<1>4. Find(s, EndOfLine) # 0 => Find(s, EndOfLine) \in 1 .. Len(s) - Len(EndOfLine) + 1
    BY <1>1, FoundAt
<1> QED
    BY <1>2, <1>3, <1>4

LEMMA FoundSymbol ==
    ASSUME NEW S, NEW s \in Seq(S), NEW x \in S, Find(s, <<x>>) # 0
    PROVE  Find(s, <<x>>) \in 1 .. Len(s) /\ s[Find(s, <<x>>)] = x
<1>1. PICK p : p = <<x>>
    OBVIOUS
<1>2. p \in Seq(S) /\ Len(p) = 1 /\ p[1] = x
    BY <1>1
<1>3. PICK k : k = Find(s, p)
    OBVIOUS
<1>4. k \in 1 .. Len(s) - Len(p) + 1 /\ Matches(s, p, k)
    BY <1>1, <1>2, <1>3, FoundAt
<1>5. k \in 1 .. Len(s) /\ k + 1 - 1 = k
    BY <1>2, <1>4, LenProperties
<1>6. s[k + 1 - 1] = x
    BY <1>2, <1>4 DEF Matches
<1> QED
    BY <1>1, <1>3, <1>5, <1>6

\* The loop ends at the first symbol of a kind, or at the end.
LEMMA UpToEnds ==
    ASSUME NEW S, NEW s \in Seq(S), NEW stops
    PROVE  \/ Len(UpTo(s, stops)) = Len(s) /\ \A k \in 1 .. Len(s) : s[k] \notin stops
           \/ /\ Len(UpTo(s, stops)) \in 0 .. Len(s) - 1
              /\ s[Len(UpTo(s, stops)) + 1] \in stops
<1> DEFINE K == {j \in 1 .. Len(s) : s[j] \in stops}
<1>1. UpTo(s, stops) = IF K = {} THEN s ELSE SubSeq(s, 1, Least(K) - 1)
    BY DEF UpTo
<1>2. CASE K = {}
    BY <1>1, <1>2
<1>3. CASE K # {}
    <2>1. PICK k : k = Least(K)
        OBVIOUS
    <2>2. K \in SUBSET Nat
        OBVIOUS
    <2>3. k \in K
        BY <1>3, <2>1, <2>2, FirstOf
    <2>4. k \in 1 .. Len(s) /\ s[k] \in stops
        BY <2>3
    <2>5. 1 \in 1 .. Len(s) + 1 /\ k - 1 \in 1 - 1 .. Len(s) /\ k - 1 - 1 + 1 = k - 1
        BY <2>4, LenProperties
    <2>6. Len(SubSeq(s, 1, k - 1)) = k - 1
        BY <2>5, SubSeqIs
    <2>7. k - 1 \in 0 .. Len(s) - 1 /\ k - 1 + 1 = k
        BY <2>4, LenProperties
    <2> QED
        BY <1>1, <1>3, <2>1, <2>4, <2>6, <2>7
<1> QED
    BY <1>2, <1>3

\* What handle_client reads ends in the buffer, behind the line it begins with.
LEMMA HostBegins ==
    ASSUME NEW buf \in Seq(Symbols), Find(buf, BlankLine) # 0, Accepts(buf)
    PROVE  HostStart(buf) \in 1 .. Len(buf) /\ buf[HostStart(buf)] = "Host:"
<1>1. PICK b : b = Find(buf, BlankLine)
    OBVIOUS
<1>2. PICK l : l = Find(buf, EndOfLine)
    OBVIOUS
<1>3. Len(buf) \in Nat
    BY LenProperties
<1>4. l # 0
    <2>1. b \in 1 .. Len(buf) - 3 /\ Matches(buf, BlankLine, b)
        BY <1>1, LinesFound
    <2>2. \A i \in 1 .. 2 : i \in 1 .. 4 /\ BlankLine[i] = EndOfLine[i]
        <3>1. \A i \in 1 .. 2 : i = 1 \/ i = 2
            OBVIOUS
        <3> QED
            BY <3>1, Texts
    <2>3. Matches(buf, EndOfLine, b)
        BY <2>1, <2>2, Texts DEF Matches
    <2> DEFINE K == {k \in 1 .. Len(buf) - Len(EndOfLine) + 1 :
                        SubSeq(buf, k, k + Len(EndOfLine) - 1) = EndOfLine}
    <2>4. b \in 1 .. Len(buf) - Len(EndOfLine) + 1
        BY <1>3, <2>1, Texts
    <2>5. b \in K
        BY <2>3, <2>4, Texts, PatternAt
    <2>6. Least(K) \in K
        <3>1. K \in SUBSET Nat
            OBVIOUS
        <3> QED
            BY <2>5, <3>1, FirstOf
    <2>7. l = Least(K)
        BY <1>2, <2>5 DEF Find
    <2> QED
        BY <2>6, <2>7
<1>5. l \in 1 .. Len(buf) - 1
    BY <1>2, <1>4, LinesFound
<1>6. PICK x : x = Headers(buf)
    OBVIOUS
<1>7. l + 1 \in 0 .. Len(buf)
    BY <1>3, <1>5
<1>8. /\ x \in Seq(Symbols) /\ Len(x) = Len(buf) - (l + 1)
      /\ \A i \in 1 .. Len(buf) - (l + 1) : x[i] = buf[(l + 1) + i]
    BY <1>2, <1>6, <1>7, DropIs DEF Headers
<1>9. PICK h : h = Find(x, <<"Host:">>)
    OBVIOUS
<1>10. h \in 1 .. Len(x) /\ x[h] = "Host:"
    BY <1>6, <1>8, <1>9, Texts, FoundSymbol DEF Accepts
<1>11. HostStart(buf) = (l + 1) + h
    BY <1>2, <1>6, <1>9 DEF HostStart
<1> QED
    BY <1>3, <1>5, <1>8, <1>10, <1>11

\* In a buffer of any content, the terminator that handle_client stores behind
\* the host is within buf[8192], unless three things come together: the buffer
\* is full, its first "Host:" stands behind the blank line, and no end of line
\* follows that.  Then, and only then, it is one past the end (proxy.c:283-287).
THEOREM HostEndsInBuffer ==
    ASSUME NEW buf \in Seq(Symbols), Len(buf) <= BufSize,
           Find(buf, BlankLine) # 0, Accepts(buf)
    PROVE  LET Past == /\ Len(buf) = BufSize
                       /\ HostStart(buf) > Find(buf, BlankLine) + 3
                       /\ \A k \in HostStart(buf) .. Len(buf) : buf[k] \notin {"CR", "LF"}
           IN  /\ Past => HostEnd(buf) = BufSize + 1
               /\ ~Past => HostEnd(buf) \in 1 .. BufSize
<1>1. PICK s : s = HostStart(buf)
    OBVIOUS
<1>2. Len(buf) \in Nat /\ BufSize \in Nat
    BY LenProperties, ParsingAssumption
<1>3. s \in 1 .. Len(buf) /\ buf[s] = "Host:" /\ "Host:" \notin {"CR", "LF"}
    BY <1>1, HostBegins
<1>4. PICK x : x = Drop(buf, s)
    OBVIOUS
<1>5. /\ x \in Seq(Symbols) /\ Len(x) = Len(buf) - s
      /\ \A i \in 1 .. Len(buf) - s : x[i] = buf[s + i]
    <2>1. s \in 0 .. Len(buf)
        BY <1>2, <1>3
    <2> QED
        BY <1>4, <2>1, DropIs
<1>6. PICK n : n = Len(UpTo(x, {"CR", "LF"}))
    OBVIOUS
<1>7. HostEnd(buf) = s + 1 + n
    BY <1>1, <1>4, <1>6 DEF HostEnd
<1>8. \/ n = Len(x) /\ \A k \in 1 .. Len(x) : x[k] \notin {"CR", "LF"}
      \/ n \in 0 .. Len(x) - 1 /\ x[n + 1] \in {"CR", "LF"}
    BY <1>5, <1>6, UpToEnds
<1>9. CASE n \in 0 .. Len(x) - 1 /\ x[n + 1] \in {"CR", "LF"}
    <2>1. n + 1 \in 1 .. Len(buf) - s /\ s + (n + 1) \in s .. Len(buf)
        BY <1>2, <1>3, <1>5, <1>9
    <2>2. buf[s + (n + 1)] \in {"CR", "LF"}
        BY <1>5, <1>9, <2>1
    <2>3. s + 1 + n \in 1 .. BufSize
        BY <1>2, <1>3, <1>5, <1>9
    <2> QED
        BY <1>1, <1>7, <2>1, <2>2, <2>3
<1>10. CASE n = Len(x) /\ \A k \in 1 .. Len(x) : x[k] \notin {"CR", "LF"}
    <2>1. \A k \in s .. Len(buf) : buf[k] \notin {"CR", "LF"}
        <3> SUFFICES ASSUME NEW k \in s .. Len(buf) PROVE buf[k] \notin {"CR", "LF"}
            OBVIOUS
        <3>1. CASE k = s
            BY <1>3, <3>1
        <3>2. CASE k > s
            <4>1. k - s \in 1 .. Len(buf) - s /\ s + (k - s) = k
                BY <1>2, <1>3, <3>2
            <4> QED
                BY <1>5, <1>10, <4>1
        <3> QED
            BY <1>3, <3>1, <3>2
    <2>2. s + 1 + n = Len(buf) + 1
        BY <1>2, <1>3, <1>5, <1>10
    <2>3. s > Find(buf, BlankLine) + 3
        <3>1. PICK b : b = Find(buf, BlankLine)
            OBVIOUS
        <3>2. b \in 1 .. Len(buf) - 3 /\ Matches(buf, BlankLine, b)
            BY <3>1, LinesFound
        <3>3. 4 \in 1 .. 4 /\ b + 4 - 1 = b + 3 /\ b + 3 \in 1 .. Len(buf)
            BY <1>2, <3>2
        <3>4. buf[b + 3] = "LF"
            BY <3>2, <3>3, Texts DEF Matches
        <3>5. ~(b + 3 \in s .. Len(buf))
            BY <2>1, <3>4
        <3> QED
            BY <1>2, <1>3, <3>1, <3>2, <3>3, <3>5
    <2>4. Len(buf) = BufSize => s + 1 + n = BufSize + 1
        BY <2>2
    <2>5. Len(buf) # BufSize => s + 1 + n \in 1 .. BufSize
        BY <1>2, <2>2
    <2> QED
        BY <1>1, <1>7, <2>1, <2>3, <2>4, <2>5
<1> QED
    BY <1>8, <1>9, <1>10

----------------------------------------------------------------------------
(* Keys.                                                                   *)

\* c is the host, a space and the uri.
KeyedBy(c, h, u) ==
    /\ c \in Seq(Symbols) /\ h \in Seq(Symbols) /\ u \in Seq(Symbols)
    /\ Len(h) \in Nat /\ Len(u) \in Nat /\ Len(c) = Len(h) + 1 + Len(u)
    /\ \A i \in 1 .. Len(h) : c[i] = h[i] /\ h[i] # "SP"
    /\ c[Len(h) + 1] = "SP"
    /\ \A i \in 1 .. Len(u) : c[Len(h) + 1 + i] = u[i]

\* That is what snprintf makes of them, and what it leaves of the uri: the host
\* is shorter than key[512].
LEMMA KeyIs ==
    ASSUME NEW m, WellFormed(m), NEW r, r = Meaning(m)
    PROVE  KeyedBy(KeyOf(r), r.host, Cut(r.uri, Room(r)))
<1>1. PICK h : h = m.host
    OBVIOUS
<1>2. PICK u : u = Meaning(m).uri
    OBVIOUS
<1>3. PICK a : a = h \o Space
    OBVIOUS
<1>4. PICK c : c = a \o u
    OBVIOUS
<1>5. h \in Seq(Symbols) /\ \A i \in 1 .. Len(h) : h[i] # "SP"
    <2>1. h \in Seq(Words)
        BY <1>1 DEF WellFormed
    <2>2. "SP" \notin Words
        BY ParsingAssumption DEF Separators
    <2> QED
        BY <1>1, <2>1, <2>2, Types, ElementOfSeq
<1>6. u \in Seq(Symbols)
    <2>1. u = IF m.path = <<>> THEN <<"/">> ELSE m.path
        BY <1>2 DEF Meaning
    <2>2. <<"/">> \in Seq(Symbols)
        BY Texts
    <2> QED
        BY <2>1, <2>2, Types
<1>7. Joins(a, h, Space)
    BY <1>3, <1>5, Texts, Concat
<1>8. Joins(c, a, u)
    BY <1>4, <1>6, <1>7, Joined, Concat
<1>9. PICK n : n = Len(h)
    OBVIOUS
<1>10. n \in Nat /\ Len(a) = n + 1 /\ a[n + 1] = "SP" /\ \A i \in 1 .. n : a[i] = h[i]
    BY <1>7, <1>9, Texts DEF Joins
<1>11. /\ c \in Seq(Symbols) /\ Len(u) \in Nat /\ Len(c) = n + 1 + Len(u)
       /\ \A i \in 1 .. n + 1 : c[i] = a[i]
       /\ \A i \in 1 .. Len(u) : c[n + 1 + i] = u[i]
    BY <1>8, <1>10 DEF Joins
<1>12. c[n + 1] = "SP" /\ \A i \in 1 .. n : c[i] = h[i]
    BY <1>10, <1>11
<1>13. r.host = h /\ r.uri = u /\ KeyOf(r) = Cut(c, KeySize - 1)
    <2>1. r.host = h /\ r.uri = u
        BY <1>1, <1>2 DEF Meaning
    <2> QED
        BY <1>3, <1>4, <2>1 DEF KeyOf
<1>14. PICK l : l = Room(r)
    OBVIOUS
<1>15. KeySize \in Nat /\ l \in Nat /\ n + 1 + l = KeySize - 1
    <2>1. n < HostSize
        BY <1>1, <1>9 DEF WellFormed
    <2> QED
        BY <1>9, <1>10, <1>13, <1>14, <2>1, ParsingAssumption DEF Room
<1>16. CASE Len(u) <= l
    <2>1. ~(Len(u) > l) /\ ~(Len(c) > KeySize - 1)
        BY <1>10, <1>11, <1>15, <1>16
    <2>2. Cut(u, l) = u /\ Cut(c, KeySize - 1) = c
        BY <2>1 DEF Cut
    <2>3. KeyedBy(c, h, u)
        BY <1>5, <1>6, <1>9, <1>10, <1>11, <1>12 DEF KeyedBy
    <2> QED
        BY <1>13, <1>14, <2>2, <2>3
<1>17. CASE Len(u) > l
    <2>1. Len(c) > KeySize - 1
        BY <1>10, <1>11, <1>15, <1>17
    <2>2. PICK v : v = SubSeq(u, 1, l)
        OBVIOUS
    <2>3. PICK d : d = SubSeq(c, 1, KeySize - 1)
        OBVIOUS
    <2>4. Cut(u, l) = v /\ Cut(c, KeySize - 1) = d
        BY <1>17, <2>1, <2>2, <2>3 DEF Cut
    <2>5. v \in Seq(Symbols) /\ Len(v) = l /\ \A i \in 1 .. l : v[i] = u[i]
        <3>1. 1 \in 1 .. Len(u) + 1 /\ l \in 1 - 1 .. Len(u) /\ l - 1 + 1 = l
            BY <1>11, <1>15, <1>17
        <3>2. \A i \in 1 .. l : 1 + i - 1 = i
            BY <1>15
        <3> QED
            BY <1>6, <2>2, <3>1, <3>2, SubSeqIs
    <2>6. d \in Seq(Symbols) /\ Len(d) = n + 1 + l /\ \A i \in 1 .. n + 1 + l : d[i] = c[i]
        <3>1. PICK x : x = KeySize - 1
            OBVIOUS
        <3>2. x \in Nat /\ x = n + 1 + l /\ Len(c) > x
            BY <1>10, <1>15, <2>1, <3>1
        <3>3. 1 \in 1 .. Len(c) + 1 /\ x \in 1 - 1 .. Len(c) /\ x - 1 + 1 = x
            BY <1>10, <1>11, <3>2
        <3>4. \A i \in 1 .. x : 1 + i - 1 = i
            BY <3>2
        <3> QED
            BY <1>11, <2>3, <3>1, <3>2, <3>3, <3>4, SubSeqIs
    <2>7. /\ \A i \in 1 .. n : d[i] = h[i]
          /\ d[n + 1] = "SP"
          /\ \A i \in 1 .. l : d[n + 1 + i] = v[i]
        <3>1. \A i \in 1 .. n : i \in 1 .. n + 1 + l
            BY <1>10, <1>15
        <3>2. n + 1 \in 1 .. n + 1 + l
            BY <1>10, <1>15
        <3>3. \A i \in 1 .. l : n + 1 + i \in 1 .. n + 1 + l /\ i \in 1 .. Len(u)
            BY <1>10, <1>11, <1>15, <1>17
        <3>4. \A i \in 1 .. l : d[n + 1 + i] = v[i]
            BY <1>11, <2>5, <2>6, <3>3
        <3> QED
            BY <1>12, <2>6, <3>1, <3>2, <3>4
    <2>8. KeyedBy(d, h, v)
        BY <1>5, <1>9, <1>10, <1>15, <2>5, <2>6, <2>7 DEF KeyedBy
    <2> QED
        BY <1>13, <1>14, <2>4, <2>8
<1>18. Len(u) <= l \/ Len(u) > l
    BY <1>11, <1>15
<1> QED
    BY <1>16, <1>17, <1>18

\* A host has no space in it, so the first one of a key ends it.
LEMMA KeyDistinguishes ==
    ASSUME NEW c, NEW h, NEW u, NEW g, NEW v, KeyedBy(c, h, u), KeyedBy(c, g, v)
    PROVE  h = g /\ u = v
<1>1. PICK a : a = Len(h)
    OBVIOUS
<1>2. PICK b : b = Len(g)
    OBVIOUS
<1>3. /\ h \in Seq(Symbols) /\ u \in Seq(Symbols) /\ a \in Nat /\ Len(u) \in Nat
      /\ Len(c) = a + 1 + Len(u) /\ c[a + 1] = "SP"
      /\ \A i \in 1 .. a : c[i] = h[i] /\ c[i] # "SP"
      /\ \A i \in 1 .. Len(u) : c[a + 1 + i] = u[i]
    BY <1>1 DEF KeyedBy
<1>4. /\ g \in Seq(Symbols) /\ v \in Seq(Symbols) /\ b \in Nat /\ Len(v) \in Nat
      /\ Len(c) = b + 1 + Len(v) /\ c[b + 1] = "SP"
      /\ \A i \in 1 .. b : c[i] = g[i] /\ c[i] # "SP"
      /\ \A i \in 1 .. Len(v) : c[b + 1 + i] = v[i]
    BY <1>2 DEF KeyedBy
<1>5. a = b
    <2>1. ~(a + 1 \in 1 .. b) /\ ~(b + 1 \in 1 .. a)
        BY <1>3, <1>4
    <2> QED
        BY <1>3, <1>4, <2>1
<1>6. h = g
    <2>1. Len(h) = Len(g) /\ \A i \in 1 .. Len(h) : h[i] = g[i]
        BY <1>1, <1>2, <1>3, <1>4, <1>5
    <2> QED
        BY <1>3, <1>4, <2>1, SeqEqual
<1>7. u = v
    <2>1. Len(u) = Len(v)
        BY <1>3, <1>4, <1>5
    <2>2. \A i \in 1 .. Len(u) : u[i] = v[i]
        BY <1>3, <1>4, <1>5, <2>1
    <2> QED
        BY <1>3, <1>4, <2>1, <2>2, SeqEqual
<1> QED
    BY <1>6, <1>7
=============================================================================
