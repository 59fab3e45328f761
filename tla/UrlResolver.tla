----------------------------- MODULE UrlResolver -----------------------------
(***************************************************************************)
(* resolveUrl(): the address that a playlist's text names by a uri.        *)
(*                                                                         *)
(* The resolver looks for slashes and for "://", so a url is the sequence  *)
(* of its pieces between slashes: "http://host/dir/file" is                *)
(* <<"http:", "", "host", "dir", "file">>, and a reference that begins     *)
(* with a slash begins with an empty piece.                                *)
(***************************************************************************)
EXTENDS Naturals, Sequences, FiniteSetsExt

CONSTANTS
    Queries,     \* pieces that hold the "?" of a url
    Colons,      \* pieces that end in ":"
    Short,       \* pieces of one character or none
    Schemed      \* pieces that begin with a scheme and its ":"; nothing follows in those of Colons

\* What is between two slashes in a row.
Nothing == ""

\* Everything up to the last slash.
Directory(url) == SubSeq(url, 1, Len(url) - 1)

IsAbsolute(url) == Len(url) >= 3 /\ url[1] \in {"http:", "https:"} /\ url[2] = Nothing

IsRootRelative(uri) == Len(uri) >= 2 /\ uri[1] = Nothing

\* The piece whose end is looked for: the one behind the first "://" of the text, wherever that
\* is.  Without one npos + 3 wraps to 2, and slashes at the first two characters are skipped.
HostPiece(url) ==
    LET hosts == {i \in 3 .. Len(url) : url[i - 2] \in Colons /\ url[i - 1] = Nothing}
    IN  IF hosts # {} THEN Min(hosts)
        ELSE IF url[1] \notin Short THEN 1
        ELSE IF url[1] # Nothing \/ url[2] # Nothing THEN 2
        ELSE 3

\* The text up to that slash, or all of it when there is none.
Origin(url) == IF HostPiece(url) < Len(url) THEN SubSeq(url, 1, HostPiece(url)) ELSE url

ResolveRootRelative(base_url, uri) == Origin(base_url) \o Tail(uri)

ResolvePathRelative(base_url, uri) == Directory(base_url) \o uri

ResolveUrl(base_url, uri) ==
    IF IsAbsolute(uri) \/ Len(base_url) = 1 THEN uri
    ELSE IF IsRootRelative(uri) THEN ResolveRootRelative(base_url, uri)
    ELSE ResolvePathRelative(base_url, uri)

-----------------------------------------------------------------------------
\* The reference: what a uri designates in a playlist at an absolute url, by the generic syntax
\* of uris.  A uri has a path: one that is a query or a fragment alone is left out.

\* An absolute url of any scheme, in pieces: scheme, nothing, host and then the path.
IsUrl(base) ==
    Len(base) >= 3 /\ base[1] \in Schemed \cap Colons /\ base[2] = Nothing /\ base[3] \notin Queries

HasScheme(uri) == uri[1] \in Schemed

\* "//host/path", which keeps the scheme only.
IsNetworkPath(uri) == Len(uri) >= 3 /\ uri[1] = Nothing /\ uri[2] = Nothing

\* "/path", which keeps the scheme and the host.
IsAbsolutePath(uri) == Len(uri) >= 2 /\ uri[1] = Nothing /\ ~IsNetworkPath(uri)

IsPathRelative(uri) == ~HasScheme(uri) /\ ~IsNetworkPath(uri) /\ ~IsAbsolutePath(uri)

\* The directory of the path, of which the query is no part; that of a mere host is "/".
PathDirectory(url) ==
    LET ends == {i \in 4 .. Len(url) : i = Len(url) \/ url[i] \in Queries}
    IN  IF ends = {} THEN SubSeq(url, 1, 3) ELSE SubSeq(url, 1, Min(ends) - 1)

Designated(base_url, uri) ==
    IF HasScheme(uri) THEN uri
    ELSE IF IsNetworkPath(uri) THEN SubSeq(base_url, 1, 1) \o Tail(uri)
    ELSE IF IsAbsolutePath(uri) THEN SubSeq(base_url, 1, 3) \o Tail(uri)
    ELSE PathDirectory(base_url) \o uri

\* The last slash of the text ends the directory: there is a path, and no slash in a query.
IsPlain(url) == Len(url) > 3 /\ \A i \in 4 .. Len(url) - 1 : url[i] \notin Queries
=============================================================================
