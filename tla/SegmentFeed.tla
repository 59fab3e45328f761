----------------------------- MODULE SegmentFeed -----------------------------
(***************************************************************************)
(* What the demuxer thread may rely on when it takes segments from the     *)
(* orchestrator's queue, with no network, playlists or variants: within a  *)
(* playback session the sequence numbers it gets only grow, whatever is    *)
(* reloaded, switched or dropped in between, and a new session starts with *)
(* an empty feed.  PlaybackOrchestrator implements this.                   *)
(***************************************************************************)
EXTENDS Naturals, Sequences

CONSTANT Numbers    \* sequence numbers

VARIABLES
    feed,      \* sequence numbers ready for the demuxer, oldest first
    next       \* the numbers of this session that may still be fed start here

feedVars == <<feed, next>>

FeedInit == feed = <<>> /\ next = 0

\* A segment arrives; numbers may be skipped (a live window that moved on).
Deliver(n) == n >= next /\ feed' = Append(feed, n) /\ next' = n + 1

\* The demuxer takes the oldest segment.
TakeSegment == feed # <<>> /\ feed' = Tail(feed) /\ UNCHANGED next

\* The segments of a variant that is left are dropped.
Drop == feed' = <<>> /\ UNCHANGED next

\* The session ends, another may begin.
Reset == feed' = <<>> /\ next' = 0

FeedNext == (\E n \in Numbers : Deliver(n)) \/ TakeSegment \/ Drop \/ Reset

FeedSpec == FeedInit /\ [][FeedNext]_feedVars
=============================================================================
