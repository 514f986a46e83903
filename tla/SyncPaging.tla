----------------------------- MODULE SyncPaging -----------------------------
(***************************************************************************)
(* The pure part of a sync pull: how GET /sync/events turns a table of     *)
(* events, a position and a requested limit into one page.  An event is    *)
(* any record with a field "seq"; a page is the set of its events, whose   *)
(* order is that of their sequence numbers (ORDER BY sequence ASC).        *)
(* The literals 100 and 500 of the code are the constants DefaultLimit and *)
(* MaxLimit, so that a small instance reaches both.                        *)
(***************************************************************************)
EXTENDS Integers, FiniteSets

CONSTANTS
  DefaultLimit,  \* 100 in the code: the limit of a request that gives none
  MaxLimit       \* 500 in the code: the largest limit accepted

ASSUME LimitAssumption ==
  /\ DefaultLimit \in Nat \ {0}
  /\ MaxLimit \in Nat
  /\ DefaultLimit < MaxLimit

\* SyncRepo.GetEventsSince: sequence > since, ascending, at most limit rows.
GetEventsSince(log, since, limit) ==
  {e \in log : /\ e.seq > since
               /\ Cardinality({f \in log : since < f.seq /\ f.seq < e.seq}) < limit}

\* The clamp that the handler and the service each apply to a limit.
normalizeSyncLimit(limit) ==
  IF limit <= 0 \/ limit > MaxLimit THEN DefaultLimit ELSE limit

\* SyncService.GetEventsAfter: clamp again, then query.
GetEventsAfter(log, after, limit) ==
  GetEventsSince(log, after, normalizeSyncLimit(limit))

\* The last sequence number of a nonempty page.
LastSequence(page) ==
  CHOOSE s \in {e.seq : e \in page} : \A e \in page : e.seq <= s

\* Mutant of PullReply: exactly the page is queried, without the extra row.
PullReply_NoLookAhead(log, after, given, requested) ==
  LET limit == normalizeSyncLimit(requested)
      page  == GetEventsAfter(log, after, limit)
  IN  [events  |-> page,
       hasMore |-> Cardinality(page) > limit,
       next    |-> IF page = {} THEN given ELSE LastSequence(page)]

\* Mutant of PullReply: next_after_sequence echoes the request.
PullReply_NextIsGiven(log, after, given, requested) ==
  LET limit == normalizeSyncLimit(requested)
      got   == GetEventsAfter(log, after, limit + 1)
  IN  [events  |-> GetEventsSince(got, after, limit),
       hasMore |-> Cardinality(got) > limit,
       next    |-> given]

\* SyncHandler.GetEvents: one row more than the page is asked for, and its
\* presence is what has_more reports.  "given" is after_sequence as the reply
\* echoes it on an empty page: the parameter, or 0 in cursor mode.
PullReply(log, after, given, requested) ==
  LET limit   == normalizeSyncLimit(requested)
      got     == GetEventsAfter(log, after, limit + 1)
      hasMore == Cardinality(got) > limit
      page    == IF hasMore THEN GetEventsSince(got, after, limit) ELSE got
  IN  [events  |-> page,
       hasMore |-> hasMore,
       next    |-> IF page = {} THEN given ELSE LastSequence(page)]
=============================================================================
