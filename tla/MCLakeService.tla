--------------------------- MODULE MCLakeService ---------------------------
EXTENDS LakeService, TLC

CONSTANTS o1, o2,   \* requests that publish an event
          s1, s2,   \* subscribers
          q1, t1,   \* a query and a request for its status
          i1

OneID == q1 :> i1

\* The event feed and the queries share no state: subscribers and publishers, or
\* a query and its status.
FeedOrQuery == {{o1, o2, s1, s2}, {q1, t1}}
============================================================================
