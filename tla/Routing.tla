------------------------------ MODULE Routing ------------------------------
(***************************************************************************)
(* How the key of a call gets from a client to the endpoint: it is put     *)
(* into a URL (apirt/client.go), which is combined with the URL of the     *)
(* server (httpx/httpx.go), and is cut out of the path again               *)
(* (apirt/server_endpoint.go).  A string is a sequence of its characters;  *)
(* characters that a URL escapes are left out.                             *)
(***************************************************************************)
EXTENDS Sequences, Naturals

\* A call key: the names of an API and of one of its operations.
Key(api, op) == [api |-> api, op |-> op]

TrimSuffix(s) == IF s # <<>> /\ s[Len(s)] = "/" THEN SubSeq(s, 1, Len(s) - 1) ELSE s
TrimPrefix(s) == IF s # <<>> /\ s[1] = "/" THEN Tail(s) ELSE s
HasPrefix(s, p) == Len(p) <= Len(s) /\ SubSeq(s, 1, Len(p)) = p
Slashes(s) == {i \in 1..Len(s) : s[i] = "/"}
First(S) == CHOOSE i \in S : \A j \in S : i <= j
Last(S) == CHOOSE i \in S : \A j \in S : i >= j

BuildRequestUrl(urlPrefix, key) ==
  (IF urlPrefix = <<>> THEN <<>> ELSE <<"/">> \o TrimPrefix(TrimSuffix(urlPrefix)))
    \o <<"/">> \o key.api \o <<"/">> \o key.op

\* The path of a parsed URL: two slashes at the start introduce a host.
UrlPath(url) ==
  IF ~HasPrefix(url, <<"/", "/">>) THEN url
  ELSE LET after == {i \in Slashes(url) : i > 2}
       IN  IF after = {} THEN <<>> ELSE SubSeq(url, First(after), Len(url))

\* The path, below the path of the server's URL, if it has one.
CleanUrl(base, path) ==
  IF base \in {<<>>, <<"/">>} THEN path
  ELSE TrimSuffix(base) \o <<"/">> \o TrimPrefix(path)

\* The path cl sends for a call: cl is the URL prefix and the path of the
\* server's URL that it was made with.
RequestPath(cl, key) == CleanUrl(cl.base, UrlPath(BuildRequestUrl(cl.urlPrefix, key)))

\* What parseCallKey does with a path behind a prefix: the slice is out of
\* range, or there is one name only, or there is a key.
OutOfRange(path, prefix) == Len(path) < Len(prefix) + 1
Names(path, prefix) == SubSeq(path, Len(prefix) + 2, Len(path))
HasKey(path, prefix) == Slashes(Names(path, prefix)) # {}

\* Cut at the last slash.
CallKey_AtLast(path, prefix) ==
  LET names == Names(path, prefix)
      cut   == Last(Slashes(names))
  IN  Key(SubSeq(names, 1, cut - 1), SubSeq(names, cut + 1, Len(names)))

\* Cut at the first slash: an operation's name may have slashes, an API's not.
CallKey(path, prefix) ==
  LET names == Names(path, prefix)
      cut   == First(Slashes(names))
  IN  Key(SubSeq(names, 1, cut - 1), SubSeq(names, cut + 1, Len(names)))
=============================================================================
