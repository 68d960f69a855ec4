------------------------------ MODULE FeedLog ------------------------------
(***************************************************************************)
(* What a feeds cache promises its readers: every feed is an append-only   *)
(* log of reports whose timestamps increase strictly.  The round id of a   *)
(* report is its position in the log.  Nothing is ever changed, removed or *)
(* inserted, whoever may publish and however the feed is administered.     *)
(***************************************************************************)
EXTENDS Naturals, Sequences

CONSTANTS Feeds, Values, MaxTimestamp

VARIABLE log

LogReports == [value : Values, timestamp : 0 .. MaxTimestamp]

LastTimestamp(feed) ==
  IF log[feed] = <<>> THEN 0 ELSE log[feed][Len(log[feed])].timestamp

Init == log = [f \in Feeds |-> <<>>]

Publish(feed, report) ==
  /\ report.timestamp > LastTimestamp(feed)
  /\ log' = [log EXCEPT ![feed] = Append(@, report)]

Next == \E f \in Feeds, report \in LogReports : Publish(f, report)

Spec == Init /\ [][Next]_log

=============================================================================
