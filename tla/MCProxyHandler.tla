--------------------------- MODULE MCProxyHandler ---------------------------
(* Instances of ProxyHandler for TLC: messages of two clients that mean the *)
(* same resource in different forms, of one whose key is cut to theirs and  *)
(* of one that means another host's, most with more in them than what       *)
(* counts, and two that are turned down.                                    *)
EXTENDS ProxyHandler

Vocabulary ==
    {"GET", "POST", "http://", "/", "HTTP/1.1", "Host:", "Accept:", "any", "h1", "h2", "h3"}

Message(method, site, path, before, host, after, behind) ==
    [method |-> method, site |-> site, path |-> path,
     before |-> before, host |-> host, after |-> after, behind |-> behind]

Field(name, value) == <<name, "SP", value, "CR", "LF">>

\* "h1 /" is as long as a key can be.
Plain == Message("GET", <<>>, <<"/">>, <<>>, <<"h1">>, <<>>, <<>>)

\* The key of this one is cut to that of Plain.
Longer == [Plain EXCEPT !.path = <<"/", "any">>]

\* The target names the site, another field comes first, more bytes follow.
Absolute ==
    [Plain EXCEPT !.site = <<"http://", "h1">>, !.before = Field("Accept:", "any"),
                  !.behind = <<"Host:", "h3">>]

\* The target is a site without a path, another host is named later.
OtherHost ==
    Message("GET", <<"http://", "h2">>, <<>>, <<>>, <<"h2">>, Field("Host:", "h3"),
            <<"GET">>)

Post == [Plain EXCEPT !.method = "POST"]
Hostless == [Plain EXCEPT !.host = <<>>, !.after = Field("Accept:", "any")]

Various == {Plain, Longer, Absolute, OtherHost, Post, Hostless}
=============================================================================
