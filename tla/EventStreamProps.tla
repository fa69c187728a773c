-------------------------- MODULE EventStreamProps --------------------------
(***************************************************************************)
(* What the two ways of following a session must satisfy.                  *)
(***************************************************************************)
EXTENDS EventStream

\* Every variable has its type, and neither the server nor a client is ahead of the log.
StreamTypeOK ==
  /\ written \in 0..MaxEvents /\ atEnd \in 0..written
  /\ terminal \in BOOLEAN /\ active \in BOOLEAN
  /\ conn \in {"none", "asleep", "sending", "ended"}
  /\ cursor \in 0..written /\ seen \in 0..written
  /\ batch \in Seq(1..written) /\ Len(batch) <= Batch
  /\ (conn = "sending") = (batch # <<>>)
  /\ last \in BOOLEAN /\ full \in BOOLEAN
  /\ wire \in Seq(1..written) /\ got \in Seq(1..written)
  /\ drops \in 0..MaxDrops
  /\ wpc \in {"status", "events", "done", "dead"}
  /\ after \in 0..written /\ finished \in BOOLEAN /\ wfull \in BOOLEAN

\* Resumable (event_stream_service.py:10-12): over any number of lost connections the
\* client is handed each event once, in order and without a gap, whatever frames were on
\* the wire when the connection went.
ExactlyOnceInOrder ==
  [][got' # got => Len(got) < written /\ got' = Append(got, Len(got) + 1)]_got

\* A client that reads the end of the response has been sent everything that was there
\* when the session ended, unless the last poll came back full.
EndIsComplete ==
  conn = "ended" /\ ~full => Len(got) + Len(wire) >= atEnd /\ terminal

\* watch() reads the status before the events, so when it stops it has shown everything
\* that was there when the session ended, unless the last page came back full.
WatchShowsTheEnd == wpc = "done" /\ ~wfull => after >= atEnd /\ terminal

\* However a session is followed, the follower is told of its end only with or after all
\* that was there by then.
NothingMissedAtEnd == StreamTypeOK /\ EndIsComplete /\ WatchShowsTheEnd

\* A client that keeps reconnecting ends up with the whole log, the events a cancelled
\* run writes after the feed was closed included.
EverythingArrives == <>[](Len(got) = written)

-----------------------------------------------------------------------------
\* "The stream ends once the session reaches a terminal status, after the final batch of
\* events has been flushed" (event_stream_service.py:15-16).
FinalBatchFlushed == conn = "ended" => cursor >= seen
=============================================================================
