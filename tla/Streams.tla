------------------------------- MODULE Streams -------------------------------
(***************************************************************************)
(* Event streams: commit notifications, the ticker that publishes them in  *)
(* the feed, and the connections that read the feed.                       *)
(* Source: src/server/server.c, wadb_read_notifications of core/stats.c,   *)
(* the notifications written by storage/segments.c, and the sessions of    *)
(* auth.c.                                                                 *)
(*                                                                         *)
(* The writer, the ticker, the HTTP thread and the clients run             *)
(* concurrently; what runs under one mutex is one action.  A client        *)
(* fetches /stats, follows the stream from the cursor it got there and     *)
(* reconnects after the last event it received.                            *)
(***************************************************************************)
EXTENDS Integers, Sequences, FiniteSetsExt

CONSTANTS
  Client,               \* clients, one stream each
  FeedCapacity,         \* FEED_CAPACITY
  NotificationCapacity, \* WADB_NOTIFICATION_CAPACITY
  PageSize,             \* notifications read at a time, 128
  StreamLimit,          \* STREAM_LIMIT
  MaxCommits, MaxFeed   \* bounds: commits made, messages published

ASSUME StreamsAssumption ==
  /\ FeedCapacity \in Nat \ {0} /\ NotificationCapacity \in Nat \ {0}
  /\ PageSize \in Nat \ {0} /\ StreamLimit \in Nat \ {0}
  /\ MaxCommits \in Nat /\ MaxFeed \in Nat /\ MaxCommits <= MaxFeed

VARIABLES
  latest_notification, notifications,  \* of the database
  notification_id, ticker, page,       \* of the ticker: what it has published,
                                       \* where it is and what it has read
  feed_id, feed,                       \* the ring: its slots hold message ids
  published,                           \* all messages so far, by id
  state,        \* of a client: idle, ready, open, ended
  after, suspended, reset, closing,    \* fields of its stream
  buffer,                              \* the rest of a message, or none
  progress,                            \* age of last_progress, see Begin
  asleep,                              \* the connection, as the library sees it
  valid,                               \* the session of the client
  last, told,                          \* what the client knows, see Handle
  halt                                 \* of wadb_server_stop

database == <<latest_notification, notifications>>
publishing == <<notification_id, ticker, page, feed_id, feed, published>>
stream == <<after, suspended, reset, closing, buffer, progress, asleep>>
knowledge == <<last, told>>
vars == <<database, publishing, state, stream, valid, knowledge, halt>>

-----------------------------------------------------------------------------
\* A message says: commits first .. last; commits before may be missing (gap).
\* A message of statistics has no commits: first = last + 1.
Covered(id) == IF id = 0 THEN 0 ELSE published[id].last

Nothing == [reset |-> FALSE, id |-> 0, first |-> 1, last |-> 0, gap |-> FALSE]
NoPage == [events |-> << >>, gap |-> FALSE]
Put(f, c, v) == f' = [f EXCEPT ![c] = v]
Halting == halt # "no"
Listed(c) == state[c] \in {"open", "ended"}

-----------------------------------------------------------------------------
(* The database.                                                            *)

\* The writer notes a commit in the ring of notifications.
Commit ==
  /\ latest_notification < MaxCommits
  /\ latest_notification' = latest_notification + 1
  /\ Put(notifications, latest_notification % NotificationCapacity,
         latest_notification + 1)
  /\ UNCHANGED <<publishing, state, stream, valid, knowledge, halt>>

\* wadb_read_notifications.
Oldest(latest, size) == IF latest >= size THEN latest - size + 1 ELSE 1

ReadNotifications(from) ==
  LET oldest == Oldest(latest_notification, NotificationCapacity)
      first == Max({from + 1, oldest})
      n == IF from < latest_notification
           THEN Min({latest_notification - first + 1, PageSize}) ELSE 0
  IN [events |-> [i \in 1 .. n |-> notifications[(first + i - 2) % NotificationCapacity]],
      gap |-> from < latest_notification /\ from + 1 < oldest]

-----------------------------------------------------------------------------
(* tick.                                                                    *)

\* Reads the clock.  Of a stream, last_progress is then recent or, at any time,
\* stale (over 15 seconds old); progress that is made from here on is later than
\* what the ticker takes for now: ahead.
Begin ==
  /\ ticker = "begin" /\ ticker' = "read"
  /\ \E Old \in SUBSET {c \in Client : Listed(c)} :
       progress' = [c \in Client |-> IF c \in Old \/ progress[c] = "stale"
                                     THEN "stale" ELSE "recent"]
  /\ UNCHANGED <<database, notification_id, page, feed_id, feed, published, state, after,
                 suspended, reset, closing, buffer, asleep, valid, knowledge, halt>>

\* publish: fails without memory.
Publish(first, until, gap) ==
  /\ feed_id' = feed_id + 1
  /\ Put(feed, feed_id % FeedCapacity, feed_id + 1)
  /\ published' = Append(published, [reset |-> FALSE, id |-> feed_id + 1, first |-> first,
                                     last |-> until, gap |-> gap])

\* Mutant: a page after a gap is not published.
ReadCommitsStuck ==
  /\ ticker = "read"
  /\ page' = ReadNotifications(notification_id)
  /\ ticker' = IF page'.events = << >> \/ page'.gap THEN "stats" ELSE "publish"
  /\ UNCHANGED <<database, notification_id, feed_id, feed, published, state, stream, valid,
                 knowledge, halt>>

\* publish_commits, its first half; nothing to publish: on to the statistics.
ReadCommits ==
  /\ ticker = "read"
  /\ page' = ReadNotifications(notification_id)
  /\ ticker' = IF page'.events = << >> THEN "stats" ELSE "publish"
  /\ UNCHANGED <<database, notification_id, feed_id, feed, published, state, stream, valid,
                 knowledge, halt>>

\* ... its second half.
PublishCommits ==
  /\ ticker = "publish" /\ ticker' = "stats"
  /\ LET until == page.events[Len(page.events)]
     IN Publish(page.events[1], until, page.gap) /\ notification_id' = until
  /\ page' = NoPage
  /\ UNCHANGED <<database, state, stream, valid, knowledge, halt>>

PublishFails ==
  /\ ticker = "publish" /\ ticker' = "stats" /\ page' = NoPage
  /\ UNCHANGED <<database, notification_id, feed_id, feed, published, state, stream,
                 valid, knowledge, halt>>

\* Every second.  Statistics leave room for the commits below MaxFeed.
PublishStats ==
  /\ ticker = "stats" /\ ticker' = "sweep"
  /\ \/ /\ feed_id + MaxCommits - notification_id < MaxFeed
        /\ Publish(notification_id + 1, notification_id, FALSE)
     \/ UNCHANGED <<feed_id, feed, published>>
  /\ UNCHANGED <<database, notification_id, page, state, stream, valid, knowledge, halt>>

\* now - last_progress, unsigned, exceeds 15 seconds: also when progress is ahead.
Overdue(c) == progress[c] \in {"stale", "ahead"}

\* Mutant: only streams that are closed are woken.
SweepClosed ==
  /\ ticker = "sweep" /\ ticker' = IF Halting THEN "exited" ELSE "begin"
  /\ closing' = [c \in Client |-> closing[c] \/ (Listed(c) /\ (Halting \/ Overdue(c)))]
  /\ suspended' = [c \in Client |-> suspended[c] /\ ~closing'[c]]
  /\ asleep' = [c \in Client |-> asleep[c] /\ ~(suspended[c] /\ closing'[c])]
  /\ UNCHANGED <<database, notification_id, page, feed_id, feed, published, state, after,
                 reset, buffer, progress, valid, knowledge, halt>>

\* Closes the streams that are overdue, wakes all, and waits for 250 ms at most.
Sweep ==
  /\ ticker = "sweep" /\ ticker' = IF Halting THEN "exited" ELSE "begin"
  /\ closing' = [c \in Client |-> closing[c] \/ (Listed(c) /\ (Halting \/ Overdue(c)))]
  /\ asleep' = [c \in Client |-> asleep[c] /\ ~suspended[c]]
  /\ suspended' = [c \in Client |-> FALSE]
  /\ UNCHANGED <<database, notification_id, page, feed_id, feed, published, state, after,
                 reset, buffer, progress, valid, knowledge, halt>>

-----------------------------------------------------------------------------
(* The client and the HTTP thread.                                          *)

rest == <<database, publishing, valid, halt>>

\* The client fetches /stats, with feed_cursor in it.
FetchCursor(c) ==
  /\ state[c] = "idle" /\ Put(state, c, "ready")
  /\ Put(last, c, feed_id) /\ Put(told, c, Covered(feed_id))
  /\ UNCHANGED <<rest, stream>>

\* open_stream: after the client's cursor, or with a reset when it gives none or one
\* of another boot.
OpenStream(c) ==
  /\ state[c] = "ready" /\ valid[c] /\ ~Halting
  /\ Cardinality({d \in Client : Listed(d)}) < StreamLimit
  /\ Put(state, c, "open") /\ Put(progress, c, "ahead")
  /\ \/ Put(after, c, last[c]) /\ Put(reset, c, FALSE)
     \/ Put(after, c, 0) /\ Put(reset, c, TRUE)
  /\ UNCHANGED <<rest, suspended, closing, buffer, asleep, knowledge>>

\* What a client that has read a whole message knows: it is up to date with the
\* commits `told', and would fetch anew after a reset or a gap.
Handle(c, m) ==
  /\ Put(last, c, m.id)
  /\ Put(told, c, IF m.reset THEN m.last
                  ELSE IF m.gap \/ m.first <= told[c] + 1 THEN Max({told[c], m.last})
                  ELSE told[c])

\* Part of a message, or all that is left of it, is copied to the library.
Copy(c, m) ==
  /\ Put(progress, c, "ahead")
  /\ \/ Put(buffer, c, m) /\ UNCHANGED knowledge
     \/ Put(buffer, c, Nothing) /\ Handle(c, m)

\* Mutant: the slot that is overwritten next counts as retained.
BehindLate(c) == after[c] < feed_id /\ after[c] + 1 < Oldest(feed_id, FeedCapacity) - 1

Behind(c) ==
  \/ after[c] > feed_id
  \/ after[c] < feed_id /\ after[c] + 1 < Oldest(feed_id, FeedCapacity)

Reading(c) == state[c] = "open" /\ ~asleep[c] /\ halt \notin {"closing", "done"}

\* Mutant: the session is asked for when the stream opens only.
FinishedLate(c) == Halting \/ closing[c]

Finished(c) == Halting \/ closing[c] \/ ~valid[c]

\* stream_read: the end of the stream.
ReadEnd(c) ==
  /\ Reading(c) /\ Finished(c) /\ Put(state, c, "ended")
  /\ UNCHANGED <<rest, stream, knowledge>>

\* The rest of a message.
ReadRest(c) ==
  /\ Reading(c) /\ ~Finished(c) /\ buffer[c] # Nothing
  /\ Put(progress, c, "ahead") /\ Put(buffer, c, Nothing) /\ Handle(c, buffer[c])
  /\ UNCHANGED <<rest, state, after, suspended, reset, closing, asleep>>

\* A reset; it closes the stream of a client that fell behind since it opened.
ReadReset(c) ==
  /\ Reading(c) /\ ~Finished(c) /\ buffer[c] = Nothing /\ (reset[c] \/ Behind(c))
  /\ Put(closing, c, ~reset[c])
  /\ Put(reset, c, FALSE) /\ Put(after, c, feed_id)
  /\ Copy(c, [reset |-> TRUE, id |-> feed_id, first |-> 1, last |-> Covered(feed_id),
              gap |-> FALSE])
  /\ UNCHANGED <<rest, state, suspended, asleep>>

\* The next message.
ReadMessage(c) ==
  /\ Reading(c) /\ ~Finished(c) /\ buffer[c] = Nothing
  /\ ~reset[c] /\ ~Behind(c) /\ after[c] < feed_id
  /\ LET id == feed[after[c] % FeedCapacity]
     IN Put(after, c, id) /\ Copy(c, published[id])
  /\ UNCHANGED <<rest, state, suspended, reset, closing, asleep>>

\* Nothing to read: sleep until the ticker wakes the stream.
ReadNothing(c) ==
  /\ Reading(c) /\ ~Finished(c) /\ buffer[c] = Nothing
  /\ ~reset[c] /\ after[c] = feed_id
  /\ Put(suspended, c, TRUE) /\ Put(asleep, c, TRUE)
  /\ UNCHANGED <<rest, state, after, reset, closing, buffer, progress, knowledge>>

\* Mutant: the suspension is left as it is.
StreamFreeAsleep(c) ==
  /\ Listed(c)
  /\ Put(state, c, "ready")
  /\ Put(suspended, c, FALSE) /\ Put(closing, c, FALSE) /\ Put(reset, c, FALSE)
  /\ Put(buffer, c, Nothing) /\ Put(after, c, 0) /\ Put(progress, c, "recent")
  /\ UNCHANGED <<rest, asleep, knowledge>>

\* stream_free, when the stream has ended or its client has gone, even while the
\* connection sleeps.  The client may connect again, after the last event.
StreamFree(c) ==
  /\ Listed(c)
  /\ Put(state, c, "ready")
  /\ Put(asleep, c, asleep[c] /\ ~suspended[c])
  /\ Put(suspended, c, FALSE) /\ Put(closing, c, FALSE) /\ Put(reset, c, FALSE)
  /\ Put(buffer, c, Nothing) /\ Put(after, c, 0) /\ Put(progress, c, "recent")
  /\ UNCHANGED <<rest, knowledge>>

\* The client goes for good or starts over.
Forget(c) ==
  /\ state[c] = "ready" /\ Put(state, c, "idle")
  /\ Put(last, c, 0) /\ Put(told, c, 0)
  /\ UNCHANGED <<rest, stream>>

\* wadb_auth_logout, an expiry or an eviction.
Revoke(c) ==
  /\ valid[c] /\ Put(valid, c, FALSE)
  /\ UNCHANGED <<database, publishing, state, stream, knowledge, halt>>

-----------------------------------------------------------------------------
(* wadb_server_stop: joins the ticker, wakes what sleeps, ends the library. *)

unhalted == <<database, publishing, state, after, reset, closing, buffer, progress, valid,
              knowledge>>

Halt == halt = "no" /\ halt' = "joining" /\ UNCHANGED <<unhalted, suspended, asleep>>

WakeAll ==
  /\ halt = "joining" /\ ticker = "exited" /\ halt' = "closing"
  /\ asleep' = [c \in Client |-> asleep[c] /\ ~suspended[c]]
  /\ suspended' = [c \in Client |-> FALSE]
  /\ UNCHANGED unhalted

LibraryEnds ==
  /\ halt = "closing" /\ \A c \in Client : ~Listed(c) /\ ~asleep[c]
  /\ halt' = "done"
  /\ UNCHANGED <<unhalted, suspended, asleep>>

-----------------------------------------------------------------------------
Init ==
  /\ latest_notification = 0 /\ notifications = [i \in 0 .. NotificationCapacity - 1 |-> 0]
  /\ notification_id = 0 /\ ticker = "begin" /\ page = NoPage
  /\ feed_id = 0 /\ feed = [i \in 0 .. FeedCapacity - 1 |-> 0] /\ published = << >>
  /\ state = [c \in Client |-> "idle"]
  /\ after = [c \in Client |-> 0] /\ buffer = [c \in Client |-> Nothing]
  /\ suspended = [c \in Client |-> FALSE]
  /\ reset = suspended /\ closing = suspended /\ asleep = suspended
  /\ progress = [c \in Client |-> "recent"] /\ valid = [c \in Client |-> TRUE]
  /\ last = after /\ told = after
  /\ halt = "no"

Tick == Begin \/ ReadCommits \/ PublishCommits \/ PublishFails \/ PublishStats \/ Sweep

StreamRead(c) ==
  \/ ReadEnd(c) \/ ReadRest(c) \/ ReadReset(c) \/ ReadMessage(c) \/ ReadNothing(c)

Next ==
  \/ Commit \/ Tick \/ Halt \/ WakeAll \/ LibraryEnds
  \/ \E c \in Client :
       \/ FetchCursor(c) \/ OpenStream(c) \/ Forget(c) \/ Revoke(c)
       \/ StreamRead(c) \/ StreamFree(c)

Spec == Init /\ [][Next]_vars

\* The ticker and wadb_server_stop run; memory is not short for ever; the library
\* reads for clients that take what they are sent, and frees what has ended.
FairSpec ==
  /\ Spec
  /\ WF_vars(Tick) /\ SF_vars(PublishCommits)
  /\ WF_vars(WakeAll) /\ WF_vars(LibraryEnds)
  /\ \A c \in Client :
       /\ WF_vars(StreamRead(c))
       /\ WF_vars((state[c] = "ended" \/ halt = "closing") /\ StreamFree(c))

-----------------------------------------------------------------------------
TypeOK ==
  /\ latest_notification \in 0 .. MaxCommits /\ notification_id \in 0 .. latest_notification
  /\ ticker \in {"begin", "read", "publish", "stats", "sweep", "exited"}
  /\ feed_id \in 0 .. MaxFeed /\ Len(published) = feed_id
  /\ state \in [Client -> {"idle", "ready", "open", "ended"}]
  /\ progress \in [Client -> {"recent", "stale", "ahead"}]
  /\ halt \in {"no", "joining", "closing", "done"}

\* A client that follows the feed from its cursor is told of every commit that was
\* published up to the last event it received, or told that some are missing,
\* across ring wrap-around, reconnects, resets, failed publications and overtaken
\* notifications: no commit is skipped in silence.
StreamComplete ==
  \A c \in Client : state[c] # "idle" => told[c] = Covered(last[c])

\* A client that reads gets everything there is, or its stream ends: no stream
\* sleeps on with messages to read.
StreamCatchesUp ==
  \A c \in Client :
    (state[c] = "open" /\ after[c] < feed_id) ~> (state[c] # "open" \/ after[c] = feed_id)

\* The stream of a session that was revoked ends (stream_read asks every time).
RevokedCloses ==
  \A c \in Client : (Listed(c) /\ ~valid[c]) ~> ~Listed(c)

\* Every commit is published or reported as missing, however often publishing
\* failed before, unless the server stops.
CommitsReported ==
  \A n \in 1 .. MaxCommits :
    (latest_notification >= n) ~> (notification_id >= n \/ Halting)

\* Shutdown ends every stream; none stays suspended without an entry to wake it by
\* ("otherwise daemon shutdown can retain an orphaned socket", stream_free).
StreamsStop == Halting ~> halt = "done"

\* The ticker closes a stream only when it made no progress for 15 seconds, or the
\* server stops ("idle/stalled clients time out", docs/http-api.md).
OnlyStalledClosed ==
  [][\A c \in Client :
       (ticker = "sweep" /\ ticker' # "sweep" /\ ~closing[c] /\ closing'[c])
         => Halting \/ progress[c] = "stale"]_vars
=============================================================================
