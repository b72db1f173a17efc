--------------------------- MODULE RequestParsing ---------------------------
(***************************************************************************)
(* The first half of handle_client: what it makes of the bytes a client    *)
(* sends, up to the key of the cache.  The searches and cuts of the code   *)
(* are operators on sequences of symbols; a symbol is a separator, or a    *)
(* word that no test of the code looks into.                               *)
(***************************************************************************)
EXTENDS Integers, Sequences

CONSTANTS
    BufSize,   \* symbols of buf[8192]
    HostSize,  \* of host[256], with its terminator
    KeySize,   \* of key[512], with its terminator
    Words      \* the symbols that are not separators

Separators == {"SP", "TAB", "CR", "LF"}
Symbols == Words \cup Separators

ASSUME ParsingAssumption ==
    /\ BufSize \in Nat
    /\ HostSize \in Nat
    /\ KeySize \in Nat
    /\ HostSize < KeySize
    /\ Words \cap Separators = {}
    /\ {"Host:", "HTTP/1.1", "/"} \subseteq Words

EndOfLine == <<"CR", "LF">>
BlankLine == EndOfLine \o EndOfLine
Space == <<"SP">>

----------------------------------------------------------------------------
(* What a client means, and how it is put into bytes.                      *)

\* A request m has a method, the site and the path of its target (the site is
\* left out, or the path), the lines of its fields before the one that names
\* the host, that host, the lines after it, and what the client sends right
\* behind the blank line.  Without a host there is no such line.
HostLine(m) ==
    IF m.host = <<>> THEN <<>> ELSE <<"Host:">> \o Space \o m.host \o EndOfLine
Target(m) == m.site \o m.path
RequestLine(m) == <<m.method>> \o Space \o Target(m) \o Space \o <<"HTTP/1.1">>
Wire(m) ==
    RequestLine(m) \o EndOfLine
        \o (m.before \o HostLine(m) \o (m.after \o EndOfLine \o m.behind))

Meaning(m) == [host |-> m.host, uri  |-> IF m.path = <<>> THEN <<"/">> ELSE m.path]

\* What is a word has no separator in it, a target begins with its site or with
\* a slash, the name of the host follows the first "Host:" of the fields, and
\* fits in host[256].
WellFormed(m) ==
    /\ m.method \in Words
    /\ m.site \in Seq(Words \ {"/"})
    /\ m.site # <<>> => m.site[1] = "http://"
    /\ m.path \in Seq(Words)
    /\ m.path # <<>> => m.path[1] = "/"
    /\ m.site # <<>> \/ m.path # <<>>
    /\ m.before \in Seq(Symbols \ {"Host:"})
    /\ \A k \in 1 .. Len(m.before) - 1 : SubSeq(EndOfLine \o m.before, k, k + 3) # BlankLine
    /\ m.host \in Seq(Words)
    /\ Len(m.host) < HostSize
    /\ m.after \in Seq(IF m.host = <<>> THEN Symbols \ {"Host:"} ELSE Symbols)
    /\ m.behind \in Seq(IF m.host = <<>> THEN Symbols \ {"Host:"} ELSE Symbols)

----------------------------------------------------------------------------
(* Searches                                                                *)

Least(K) == CHOOSE k \in K : \A j \in K : k <= j
Drop(s, n) == SubSeq(s, n + 1, Len(s))
Cut(s, n) == IF Len(s) > n THEN SubSeq(s, 1, n) ELSE s

\* memmem_simple and strchr: where p begins in s, or 0.
Find(s, p) ==
    LET K == {k \in 1 .. Len(s) - Len(p) + 1 : SubSeq(s, k, k + Len(p) - 1) = p}
    IN  IF K = {} THEN 0 ELSE Least(K)

\* s up to the first symbol of stops, and s without those of blanks it begins with.
UpTo(s, stops) ==
    LET K == {k \in 1 .. Len(s) : s[k] \in stops}
    IN  IF K = {} THEN s ELSE SubSeq(s, 1, Least(K) - 1)
Without(blanks, s) ==
    LET K == {k \in 1 .. Len(s) : s[k] \notin blanks}
    IN  IF K = {} THEN <<>> ELSE Drop(s, Least(K) - 1)

----------------------------------------------------------------------------
(* The code                                                                *)

\* What the recv loop may leave in the buffer: as much as arrived by the time
\* the blank line had, in whatever pieces, if that fits.  (BuffersOfLine: by
\* the time the first line had.)
BuffersOfLine(m) ==
    LET w == Wire(m)
    IN  {SubSeq(w, 1, n) : n \in {k \in 1 .. Len(w) :
            k <= BufSize /\ Find(SubSeq(w, 1, k), EndOfLine) # 0}}
Buffers(m) ==
    LET w == Wire(m)
    IN  {SubSeq(w, 1, n) : n \in {k \in 1 .. Len(w) :
            k <= BufSize /\ Find(SubSeq(w, 1, k), BlankLine) # 0}}

\* The uri of a target that may name its site.
UriOf(target) ==
    IF Cut(target, 1) # <<"http://">> THEN target
    ELSE LET slash == Find(target, <<"/">>)
         IN  IF slash = 0 THEN <<"/">> ELSE Drop(target, slash - 1)

\* find_host_header, and the line it points into.
HostOf(headers) ==
    LET text == Drop(headers, Find(headers, <<"Host:">>))
    IN  Cut(UpTo(Without({"SP", "TAB"}, text), {"CR", "LF"}), HostSize - 1)

\* The request line is cut at its first two spaces; what is behind its end is
\* searched for the host.
Line(buf) == SubSeq(buf, 1, Find(buf, EndOfLine) - 1)
Headers(buf) == Drop(buf, Find(buf, EndOfLine) + 1)
Method(line) == UpTo(line, {"SP"})
AfterMethod(line) == Drop(line, Find(line, Space))

\* What handle_client goes on with; it closes the other connections.
Accepts(buf) ==
    /\ Find(Line(buf), Space) # 0
    /\ Find(AfterMethod(Line(buf)), Space) # 0
    /\ Method(Line(buf)) = <<"GET">>
    /\ Find(Headers(buf), <<"Host:">>) # 0

Parse(buf) ==
    [host |-> HostOf(Headers(buf)),
     uri  |-> UriOf(UpTo(AfterMethod(Line(buf)), {"SP"}))]

\* Where, in buf, handle_client finds the host header and stores the terminator
\* of the host: the end of that line, or of what was received.
HostStart(buf) == Find(buf, EndOfLine) + 1 + Find(Headers(buf), <<"Host:">>)
HostEnd(buf) ==
    HostStart(buf) + 1 + Len(UpTo(Drop(buf, HostStart(buf)), {"CR", "LF"}))

\* What snprintf leaves of host and uri in key, and how much of the uri that is
\* at most.  (KeyOfUri: without the host.)
KeyOfUri(r) == Cut(r.uri, KeySize - 1)
KeyOf(r) == Cut(r.host \o Space \o r.uri, KeySize - 1)
Room(r) == KeySize - 2 - Len(r.host)
=============================================================================
