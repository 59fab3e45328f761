------------------------------ MODULE Downloads ------------------------------
(***************************************************************************)
(* What the network promises to the one thread that downloads: a request   *)
(* for a playlist or a segment comes to one answer.  Attempts, delays and  *)
(* time are not visible.                                                   *)
(***************************************************************************)
VARIABLES
    request,         \* the request in progress: "none", "playlist" or "segment"
    stopped,         \* its caller asked for a stop
    answer           \* to the last request

vars == <<request, stopped, answer>>

Init == request = "none" /\ stopped = FALSE /\ answer = "none"

Request(r) ==
    /\ request = "none"
    /\ request' = r /\ answer' = "none"
    /\ UNCHANGED stopped

\* The stop may come before a request, too.
Stop == ~stopped /\ stopped' = TRUE /\ UNCHANGED <<request, answer>>

\* A playlist cannot be stopped, and may have come in a form that is none.  A segment fails
\* for one reason: the stop, if there was one, and the network otherwise.  Either may be
\* complete in spite of a stop that came late.
Answers(r) ==
    IF r = "playlist" THEN {"bundle", "http_error", "parse_error"}
    ELSE {"bundle", IF stopped THEN "cancelled" ELSE "http_error"}

Answer ==
    /\ request # "none"
    /\ answer' \in Answers(request)
    /\ request' = "none" /\ stopped' = FALSE

Next == (\E r \in {"playlist", "segment"} : Request(r)) \/ Stop \/ Answer

Spec == Init /\ [][Next]_vars

FairSpec == Spec /\ WF_vars(Answer)
=============================================================================
