----------------------------- MODULE RequestScrub -----------------------------
(***************************************************************************)
(* What the SDKs keep of a request: setRequestContext redacts headers and  *)
(* body, scrubUrl the parameters of a URL (scope.ts, breadcrumbs.ts and    *)
(* their counterparts in the other SDKs).  They do not do it alike.        *)
(*                                                                         *)
(* A body is the set of its leaves, each with the path to it; a path holds *)
(* keys and, in lists, positions.  A text in ASCII is "short", "long"      *)
(* (more than 500 characters) or "huge" (more than 1024).  The others have *)
(* fewer code points than UTF-16 units or bytes: a "wide" text is short,   *)
(* but in UTF-8 more than 1024 bytes; an "astral" one is long, and in both *)
(* encodings over 1024.                                                    *)
(***************************************************************************)
EXTENDS Integers, Sequences, SequencesExt

ScrubSdks == {"node", "go", "python", "rust", "java", "csharp", "browser"}
\* They look at the first level of a body, the others at all.
Shallow == {"node", "go", "python"}

\* marks counts the marks of a cut at the end of a text of which nothing was cut.
Leaf(path, text) == [path |-> path, text |-> text, marks |-> 0]

\* Positions of a list; the second stands for those from MAX_ARRAY_ITEMS on.
ListItems == {"0", "20"}

---------------------------------------------------------------------------
\* Names are compared as they are by a part of them, in lower case.
PatternHeader(h) == h = "Cookie"
\* Node looks the address headers up in lower case only; four SDKs do not.
AddressHeader(sdk, h) ==
  \/ h = "x-real-ip" /\ sdk \in Shallow
  \/ h = "X-Real-IP" /\ sdk \in Shallow \ {"node"}

RedactHeaders(sdk, headers) ==
  [h \in headers |-> IF PatternHeader(h) \/ AddressHeader(sdk, h) THEN "redacted" ELSE "value"]

---------------------------------------------------------------------------
\* SENSITIVE_KEYS of Node, in lower case.
NodeKeys == {"password", "apiKey", "APIKEY", "pwd"}
\* Go and Python compare the key, then its lower case, with a list in mixed case.
MixedKeys == {"password", "apiKey", "pass"}
\* The others compare without case.
AnyCaseKeys == {"password", "apiKey", "APIKEY", "pass"}

IsRedactedField(sdk, key) ==
  key \in CASE sdk = "node" -> NodeKeys
            [] sdk \in {"go", "python"} -> MixedKeys
            [] OTHER -> AnyCaseKeys

\* The keys at which sdk hides what is below, the first of them.
HiddenAt(sdk, path) ==
  {k \in 1..(IF sdk \in Shallow THEN 1 ELSE Len(path)) :
     /\ k <= Len(path) /\ IsRedactedField(sdk, path[k])
     /\ \A j \in 1..(k - 1) : ~IsRedactedField(sdk, path[j])}

\* A list is cut by the shallow ones only, and not looked into.
Dropped(sdk, path) == sdk \in Shallow /\ path # <<>> /\ path[1] = "20"

\* What each measures a text in: code points, UTF-16 units, or bytes of UTF-8.
Unit(sdk) ==
  CASE sdk = "python" -> "points"
    [] sdk \in {"go", "rust"} -> "bytes"
    [] OTHER -> "units"

Over1024(unit) ==
  {"huge"} \cup (IF unit = "points" THEN {} ELSE {"astral"})
           \cup (IF unit = "bytes" THEN {"wide"} ELSE {})
Over500(unit) == Over1024(unit) \cup {"long", "astral"}

\* Shallow: a body that is a text, and the texts of its first level.
CutShallow(sdk, leaf) ==
  CASE leaf.path = <<>> -> leaf.text \in Over1024(Unit(sdk))
    [] Len(leaf.path) = 1 /\ leaf.path[1] \notin ListItems -> leaf.text \in Over500(Unit(sdk))
    [] OTHER -> FALSE

\* Deep: every text, by one limit.
CutDeep(sdk, leaf) == leaf.text \in Over1024(Unit(sdk))

\* Rust tests the bytes and keeps 1024 code points: a text that has no more of
\* them stays whole, with the mark of a cut.
CutText(sdk, leaf) ==
  IF sdk = "rust" /\ leaf.text # "huge"
  THEN [leaf EXCEPT !.marks = @ + 1] ELSE Leaf(leaf.path, "cut")

Truncated(sdk, leaf) ==
  IF (sdk \in Shallow /\ CutShallow(sdk, leaf)) \/ (sdk \notin Shallow /\ CutDeep(sdk, leaf))
  THEN CutText(sdk, leaf) ELSE leaf

RedactBody(sdk, body) ==
  {LET at == HiddenAt(sdk, leaf.path) IN
   IF at = {} THEN Truncated(sdk, leaf)
   ELSE Leaf(SubSeq(leaf.path, 1, CHOOSE k \in at : TRUE), "redacted") :
     leaf \in {l \in body : ~Dropped(sdk, l.path)}}

---------------------------------------------------------------------------
\* The names of sensitive parameters: compared exactly, by a part in lower
\* case, or by a pattern that starts after ? or &.
UrlParams == {"token", "Token", "my_token", "page"}

ScrubsParam(sdk, name) ==
  CASE sdk \in Shallow -> name = "token"
    [] sdk = "rust" -> name \in {"token", "Token", "my_token"}
    [] OTHER -> name \in {"token", "Token"}

ScrubUrl(sdk, params) == [n \in params |-> IF ScrubsParam(sdk, n) THEN "redacted" ELSE "value"]

---------------------------------------------------------------------------
\* setRequestContext of every SDK, and scrubUrl, which C# does not have.
ScrubRequest(headers, body) ==
  [headers |-> [sdk \in ScrubSdks |-> RedactHeaders(sdk, headers)],
   body |-> [sdk \in ScrubSdks |-> RedactBody(sdk, body)],
   url |-> [sdk \in ScrubSdks \ {"csharp"} |-> ScrubUrl(sdk, UrlParams)]]

\* A request looks the same from whichever SDK it comes, as far as their lists
\* and their units name the same: Go and Python hide the same in every body,
\* and so do the four that look below the first level; and they cut the same,
\* Go and Rust unless a text leaves ASCII.  All agree on a flat body of short
\* texts under names they all know or none does.  What one of the four shows,
\* those that look at the first level do not hide, unless Node's list alone
\* names it.  A body redacted twice, by a middleware and again by
\* setRequestContext, is as redacted once, unless Rust has put a mark to a text
\* it did not cut: it does so each time.  A parameter hidden by the exact lists
\* is hidden by all.
CommonKeys == NodeKeys \cap MixedKeys \cap AnyCaseKeys
KnownAlike(key) == key \in CommonKeys \/ key \notin NodeKeys \cup MixedKeys \cup AnyCaseKeys
Ascii(body) == \A l \in body : l.text \notin {"wide", "astral"}
Hidden(redacted) == {s \in redacted : s.text = "redacted"}
RequestsAlike(body, r) ==
  /\ r.headers["go"] = r.headers["python"]
  /\ Hidden(r.body["go"]) = Hidden(r.body["python"])
  /\ Ascii(body) => r.body["go"] = r.body["python"]
  /\ \A a, b \in ScrubSdks \ Shallow :
       /\ r.headers[a] = r.headers[b]
       /\ Hidden(r.body[a]) = Hidden(r.body[b])
       /\ "rust" \notin {a, b} \/ Ascii(body) => r.body[a] = r.body[b]
  /\ (\A l \in body : Len(l.path) = 1 /\ l.text = "short" /\ KnownAlike(l.path[1])
                         /\ l.path[1] \notin ListItems)
       => \A a, b \in ScrubSdks : r.body[a] = r.body[b]
  /\ \A l \in body \cap r.body["rust"] : \A sdk \in Shallow :
       ~\E s \in r.body[sdk] : s.text = "redacted" /\ IsPrefix(s.path, l.path) /\ KnownAlike(s.path[1])
  /\ \A sdk \in ScrubSdks :
       (\A l \in r.body[sdk] : l.marks = 0) => RedactBody(sdk, r.body[sdk]) = r.body[sdk]
  /\ \A a, b \in DOMAIN r.url, n \in UrlParams :
       a \in Shallow /\ r.url[a][n] = "redacted" => r.url[b][n] = "redacted"

=============================================================================
