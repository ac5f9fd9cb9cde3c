---------------------------- MODULE StreamsProofs ----------------------------
(***************************************************************************)
(* No stream skips a commit in silence, for any number of clients, any     *)
(* capacity of the two rings and any size of a page.                       *)
(*                                                                         *)
(* The rings hold their latest entries (RingHolds), the messages of the    *)
(* feed follow on one another (FeedFollows), the page of the ticker goes   *)
(* on where the feed ends (PageFollows), and a stream that is not to be    *)
(* reset stands where its client stands (StreamFollows).                   *)
(***************************************************************************)
EXTENDS Streams, TLAPS

Message == [reset : BOOLEAN, id : Nat, first : Nat, last : Nat, gap : BOOLEAN]

Types ==
  /\ latest_notification \in Nat /\ notification_id \in Nat /\ feed_id \in Nat
  /\ notifications \in [0 .. NotificationCapacity - 1 -> Nat]
  /\ feed \in [0 .. FeedCapacity - 1 -> Nat]
  /\ published \in Seq(Message) /\ Len(published) = feed_id
  /\ page \in [events : Seq(Nat), gap : BOOLEAN]
  /\ state \in [Client -> {"idle", "ready", "open", "ended"}]
  /\ after \in [Client -> Nat] /\ reset \in [Client -> BOOLEAN]
  /\ buffer \in [Client -> Message]
  /\ last \in [Client -> Nat] /\ told \in [Client -> Nat]

\* The slots of a ring with `size' slots hold the last of the ids 1 .. n.
RingHolds(ring, n, size) ==
  \A id \in 1 .. n : n - id < size => ring[(id - 1) % size] = id

\* A message that goes on where commits up to n were told.
GoesOn(m, n) == m.last >= n /\ (m.gap \/ m.first <= n + 1)

FeedFollows ==
  /\ \A id \in 1 .. feed_id :
       /\ published[id].id = id /\ ~published[id].reset
       /\ GoesOn(published[id], Covered(id - 1))
  /\ notification_id = Covered(feed_id)

PageFollows ==
  ticker = "publish" =>
    /\ page.events # << >>
    /\ GoesOn([last |-> page.events[Len(page.events)], gap |-> page.gap,
               first |-> page.events[1]], notification_id)

\* A client knows what the feed covers up to its last event, and its stream stands
\* there, has the next message in its buffer or is to be reset.
Follows(c) ==
  /\ state[c] # "idle" => last[c] <= feed_id /\ told[c] = Covered(last[c])
  /\ state[c] \in {"idle", "ready"} => buffer[c] = Nothing
  /\ state[c] = "open" =>
       /\ after[c] <= feed_id
       /\ buffer[c] = Nothing /\ ~reset[c] => after[c] = last[c]
       /\ buffer[c] # Nothing =>
            /\ ~reset[c] /\ after[c] = buffer[c].id /\ buffer[c].last = Covered(after[c])
            /\ buffer[c].reset \/ GoesOn(buffer[c], told[c])

StreamFollows == \A c \in Client : Follows(c)

IInv ==
  /\ Types /\ FeedFollows /\ PageFollows /\ StreamFollows
  /\ RingHolds(feed, feed_id, FeedCapacity)
  /\ RingHolds(notifications, latest_notification, NotificationCapacity)

-----------------------------------------------------------------------------
(* Arithmetic.                                                              *)

\* The remainder is what the quotient leaves.
LEMMA Division ==
  ASSUME NEW n \in Nat \ {0}, NEW a \in Nat
  PROVE  \E q \in Int : a = n * q + (a % n)
<1>1. a \div n \in Int /\ a = n * (a \div n) + (a % n)
  OBVIOUS
<1> QED
  BY Zenon, <1>1

\* Ids less than a ring's size apart have different slots.
LEMMA SlotsDiffer ==
  ASSUME NEW n \in Nat \ {0}, NEW a \in Nat, NEW b \in Nat, a < b, b - a < n
  PROVE  a % n # b % n
<1> SUFFICES ASSUME a % n = b % n PROVE FALSE
  OBVIOUS
<1>1. PICK p \in Int, q \in Int : a = n * p + (a % n) /\ b = n * q + (b % n)
  BY Division, Zenon
<1>2. a % n \in Int
  OBVIOUS
<1>3. PICK r \in Int : r = a % n
  BY <1>2
<1>4. a = n * p + r /\ b = n * q + r
  BY <1>1, <1>3
<1>5. b - a = n * (q - p)
  BY <1>4
<1>6. PICK k \in Int : k = q - p
  OBVIOUS
<1>7. n * k > 0 /\ n * k < n
  BY <1>5, <1>6
<1>8. k <= 0 => n * k <= 0
  OBVIOUS
<1>9. k >= 1 => n * k >= n
  OBVIOUS
<1> QED
  BY <1>7, <1>8, <1>9

\* A slot is in the ring.
LEMMA SlotInRing ==
  ASSUME NEW n \in Nat \ {0}, NEW a \in Nat
  PROVE  a % n \in 0 .. n - 1
  OBVIOUS

\* The larger of two numbers.
LEMMA MaxOfTwo ==
  ASSUME NEW a \in Nat, NEW b \in Nat
  PROVE  Max({a, b}) = IF a >= b THEN a ELSE b
  BY DEF Max

\* The smaller of two numbers.
LEMMA MinOfTwo ==
  ASSUME NEW a \in Nat, NEW b \in Nat
  PROVE  Min({a, b}) = IF a <= b THEN a ELSE b
  BY DEF Min

\* The oldest id a ring holds.
LEMMA OldestHeld ==
  ASSUME NEW latest \in Nat, NEW size \in Nat \ {0}
  PROVE  /\ Oldest(latest, size) \in Nat /\ Oldest(latest, size) >= 1
         /\ latest - Oldest(latest, size) < size
         /\ latest > 0 => Oldest(latest, size) <= latest
<1>1. CASE latest >= size
  BY <1>1 DEF Oldest
<1>2. CASE latest < size
  BY <1>2 DEF Oldest
<1> QED
  BY <1>1, <1>2

\* Writing the next id to its slot keeps a ring.
LEMMA RingKept ==
  ASSUME NEW size \in Nat \ {0}, NEW n \in Nat, NEW ring \in [0 .. size - 1 -> Nat],
         RingHolds(ring, n, size)
  PROVE  /\ [ring EXCEPT ![n % size] = n + 1] \in [0 .. size - 1 -> Nat]
         /\ RingHolds([ring EXCEPT ![n % size] = n + 1], n + 1, size)
<1>0. [ring EXCEPT ![n % size] = n + 1] \in [0 .. size - 1 -> Nat]
  <2>1. PICK i \in 0 .. size - 1, k \in Nat : i = n % size /\ k = n + 1
    BY SlotInRing
  <2>2. [ring EXCEPT ![i] = k] \in [0 .. size - 1 -> Nat]
    OBVIOUS
  <2> QED
    BY <2>1, <2>2
<1> DEFINE new == [ring EXCEPT ![n % size] = n + 1]
<1> SUFFICES ASSUME NEW id \in 1 .. n + 1, n + 1 - id < size
             PROVE  new[(id - 1) % size] = id
  BY <1>0 DEF RingHolds
<1>1. /\ id - 1 \in Nat
      /\ (id - 1) % size \in 0 .. size - 1 /\ n % size \in 0 .. size - 1
  <2>1. id - 1 \in Nat
    OBVIOUS
  <2>2. \A a \in Nat : a % size \in 0 .. size - 1
    BY Zenon, SlotInRing
  <2> QED
    BY <2>1, <2>2, Zenon
<1>2. CASE id = n + 1
  BY <1>1, <1>2
<1>3. CASE id # n + 1
  <2>1. id \in 1 .. n /\ n - id < size
    BY <1>3
  <2>2. (id - 1) % size # n % size
    <3>1. PICK a \in Nat : a = id - 1
      BY <1>1
    <3>2. a < n /\ n - a < size
      BY <2>1, <3>1
    <3>3. a % size # n % size
      BY <3>2, SlotsDiffer, Zenon
    <3> QED
      BY <3>1, <3>3
  <2>3. ring[(id - 1) % size] = id
    BY <2>1 DEF RingHolds
  <2> QED
    BY <1>1, <2>2, <2>3
<1> QED
  BY <1>2, <1>3

-----------------------------------------------------------------------------
(* The database and the ticker.                                             *)

\* What the clients hold.
following == <<state, after, reset, buffer, last, told>>

\* The message m becomes the last one of the feed.
Adds(m) ==
  /\ m.id = feed_id + 1 /\ ~m.reset /\ GoesOn(m, notification_id)
  /\ feed_id' = feed_id + 1
  /\ feed' = [feed EXCEPT ![feed_id % FeedCapacity] = feed_id + 1]
  /\ published' = Append(published, m) /\ notification_id' = m.last
  /\ page' \in [events : Seq(Nat), gap : BOOLEAN] /\ ticker' # "publish"
  /\ UNCHANGED <<latest_notification, notifications, following>>

\* Publishing a message that goes on from the last one keeps the feed, and takes
\* nothing from the clients.
LEMMA PublishKeeps ==
  ASSUME IInv, NEW m \in Message, Adds(m)
  PROVE  IInv'
<1> USE DEF IInv
<1>0. published \in Seq(Message) /\ Len(published) = feed_id /\ published' = Append(published, m)
  BY DEF Types, Adds
<1>1. /\ published' \in Seq(Message) /\ Len(published') = feed_id + 1
      /\ published'[feed_id + 1] = m
      /\ \A id \in 1 .. feed_id : published'[id] = published[id]
  BY <1>0
<1>2. feed_id \in Nat /\ m.last \in Nat /\ feed_id' = feed_id + 1 /\ UNCHANGED following
  BY DEF Types, Message, Adds
<1>3. /\ feed' \in [0 .. FeedCapacity - 1 -> Nat]
      /\ RingHolds(feed, feed_id, FeedCapacity)'
  <2>1. PICK n \in Nat, r \in [0 .. FeedCapacity - 1 -> Nat] : n = feed_id /\ r = feed
    BY DEF Types
  <2>2. RingHolds(r, n, FeedCapacity)
    BY <2>1
  <2>3. /\ [r EXCEPT ![n % FeedCapacity] = n + 1] \in [0 .. FeedCapacity - 1 -> Nat]
        /\ RingHolds([r EXCEPT ![n % FeedCapacity] = n + 1], n + 1, FeedCapacity)
    BY Zenon, <2>2, RingKept, StreamsAssumption
  <2> QED
    BY <2>1, <2>3 DEF Adds
<1>4. Types'
  BY <1>1, <1>2, <1>3 DEF Types, following, Adds
<1>5. \A id \in 0 .. feed_id : Covered(id)' = Covered(id)
  BY <1>1, <1>2 DEF Covered
<1>6. FeedFollows'
  <2>1. SUFFICES ASSUME NEW id \in 1 .. feed_id + 1
                 PROVE  /\ published'[id].id = id /\ ~published'[id].reset
                        /\ GoesOn(published'[id], Covered(id - 1)')
    BY <1>1, <1>2 DEF FeedFollows, Covered, Adds
  <2>2. id - 1 \in 0 .. feed_id /\ Covered(id - 1)' = Covered(id - 1)
    BY <1>2, <1>5
  <2>3. CASE id = feed_id + 1
    <3>1. Covered(id - 1) = notification_id
      BY <1>2, <2>3 DEF FeedFollows
    <3> QED
      BY <1>1, <2>2, <2>3, <3>1 DEF Adds
  <2>4. CASE id # feed_id + 1
    <3>1. id \in 1 .. feed_id
      BY <1>2, <2>4
    <3> QED
      BY <1>1, <2>2, <3>1 DEF FeedFollows
  <2> QED
    BY <2>3, <2>4
<1>7. PageFollows'
  BY DEF PageFollows, Adds
<1>8. StreamFollows'
  <2>1. SUFFICES ASSUME NEW c \in Client
                 PROVE  /\ state[c] # "idle" =>
                             last[c] <= feed_id + 1 /\ told[c] = Covered(last[c])'
                        /\ state[c] = "open" =>
                             /\ after[c] <= feed_id + 1
                             /\ buffer[c] # Nothing => buffer[c].last = Covered(after[c])'
    BY <1>2 DEF StreamFollows, Follows, following, Nothing, GoesOn
  <2>2. last[c] \in Nat /\ after[c] \in Nat
    BY DEF Types
  <2>3. last[c] <= feed_id => Covered(last[c])' = Covered(last[c])
    <3>1. PICK n \in Nat : n = last[c] /\ n = last'[c]
      BY <1>2, <2>2 DEF following
    <3>2. n <= feed_id /\ n # 0 => published'[n] = published[n]
      BY <1>1, <1>2
    <3> QED
      BY <3>1, <3>2 DEF Covered
  <2>4. after[c] <= feed_id => Covered(after[c])' = Covered(after[c])
    <3>1. PICK n \in Nat : n = after[c] /\ n = after'[c]
      BY <1>2, <2>2 DEF following
    <3>2. n <= feed_id /\ n # 0 => published'[n] = published[n]
      BY <1>1, <1>2
    <3> QED
      BY <3>1, <3>2 DEF Covered
  <2> QED
    BY <1>2, <2>2, <2>3, <2>4 DEF StreamFollows, Follows
<1>9. RingHolds(notifications, latest_notification, NotificationCapacity)'
  BY DEF Adds
<1> QED
  BY <1>3, <1>4, <1>6, <1>7, <1>8, <1>9

\* Steps of others that leave the feed and the clients alone.
LEMMA AloneKeeps ==
  ASSUME IInv, ticker' # "publish" \/ UNCHANGED <<ticker, page>>,
         page' \in [events : Seq(Nat), gap : BOOLEAN],
         UNCHANGED <<database, notification_id, feed_id, feed, published, following>>
  PROVE  IInv'
  BY ZenonT(30)
     DEF IInv, Types, FeedFollows, PageFollows, StreamFollows, Follows, RingHolds,
         following, Covered, GoesOn, Nothing, database

\* A commit is noted in the ring.
LEMMA CommitKeeps ==
  ASSUME IInv, Commit
  PROVE  IInv'
<1> USE DEF IInv
<1>1. /\ latest_notification' = latest_notification + 1
      /\ notifications' = [notifications EXCEPT
                             ![latest_notification % NotificationCapacity]
                               = latest_notification + 1]
      /\ UNCHANGED <<publishing, following>>
  BY DEF Commit, Put, following, stream, knowledge
<1>2. PICK n \in Nat, r \in [0 .. NotificationCapacity - 1 -> Nat] :
        n = latest_notification /\ r = notifications
  BY DEF Types
<1>3. /\ [r EXCEPT ![n % NotificationCapacity] = n + 1]
           \in [0 .. NotificationCapacity - 1 -> Nat]
      /\ RingHolds([r EXCEPT ![n % NotificationCapacity] = n + 1], n + 1,
                   NotificationCapacity)
  BY Zenon, <1>2, RingKept, StreamsAssumption
<1>4. RingHolds(notifications, latest_notification, NotificationCapacity)'
  BY <1>1, <1>2, <1>3
<1>5. latest_notification' \in Nat
      /\ notifications' \in [0 .. NotificationCapacity - 1 -> Nat]
  BY <1>1, <1>2, <1>3
<1>6. Types'
  BY <1>1, <1>5 DEF Types, publishing, following
<1>7. FeedFollows' /\ PageFollows' /\ StreamFollows'
      /\ RingHolds(feed, feed_id, FeedCapacity)'
  BY <1>1
  DEF FeedFollows, PageFollows, StreamFollows, Follows, RingHolds, following, publishing,
              Covered, GoesOn, Nothing
<1> QED
  BY <1>4, <1>6, <1>7

\* The page that is read goes on where the feed ends, also when the ticker was
\* overtaken by the writer (wadb_read_notifications).
LEMMA ReadCommitsKeeps ==
  ASSUME IInv, ReadCommits
  PROVE  IInv'
<1> USE DEF IInv
<1>1. /\ page' = ReadNotifications(notification_id)
      /\ ticker' = IF page'.events = << >> THEN "stats" ELSE "publish"
      /\ UNCHANGED <<database, notification_id, feed_id, feed, published, following>>
  BY DEF ReadCommits, following, stream, knowledge
<1>2. PICK from \in Nat, latest \in Nat : from = notification_id /\ latest = latest_notification
  BY DEF Types
<1>3. PICK oldest \in Nat :
        /\ oldest = Oldest(latest, NotificationCapacity) /\ oldest >= 1
        /\ latest - oldest < NotificationCapacity
        /\ latest > 0 => oldest <= latest
  BY Zenon, OldestHeld, StreamsAssumption
<1>4. PICK first \in Nat : /\ from + 1 >= oldest => first = from + 1
                           /\ from + 1 < oldest => first = oldest
  OBVIOUS
<1>5. /\ first >= oldest /\ first >= from + 1 /\ first >= 1
      /\ from < latest => first <= latest
  BY <1>3, <1>4
<1>6. PICK n \in Nat :
        /\ from >= latest => n = 0
        /\ from < latest /\ latest - first + 1 <= PageSize => n = latest - first + 1
        /\ from < latest /\ latest - first + 1 > PageSize => n = PageSize
  <2>1. CASE from >= latest
    BY <2>1
  <2>2. CASE from < latest /\ latest - first + 1 <= PageSize
    <3>1. PICK l \in Nat : l = latest - first + 1
      BY <1>5, <2>2
    <3> QED
      BY <2>2, <3>1, StreamsAssumption
  <2>3. CASE from < latest /\ latest - first + 1 > PageSize
    BY <2>3, StreamsAssumption
  <2> QED
    BY <2>1, <2>2, <2>3, StreamsAssumption
<1>7. /\ first = Max({from + 1, oldest})
      /\ n = IF from < latest THEN Min({latest - first + 1, PageSize}) ELSE 0
  <2>1. PICK k \in Nat : k = from + 1
    OBVIOUS
  <2>2. first = Max({k, oldest})
    BY <1>4, <2>1, MaxOfTwo
  <2>3. CASE from < latest
    <3>1. PICK l \in Nat : l = latest - first + 1
      BY <1>5, <2>3
    <3>2. n = Min({l, PageSize})
      BY <1>6, <2>3, <3>1, MinOfTwo, StreamsAssumption
    <3> QED
      BY <2>1, <2>2, <2>3, <3>1, <3>2
  <2> QED
    BY <1>6, <2>1, <2>2, <2>3
<1>8. /\ page'.events
           = [i \in 1 .. n |-> notifications[(first + i - 2) % NotificationCapacity]]
      /\ page'.gap = (from < latest /\ from + 1 < oldest)
      /\ page' = [events |-> page'.events, gap |-> page'.gap]
  BY <1>1, <1>2, <1>3, <1>7 DEF ReadNotifications
<1>9. ASSUME NEW i \in 1 .. n
      PROVE  notifications[(first + i - 2) % NotificationCapacity] = first + i - 1
  <2>1. PICK id \in 1 .. latest : id = first + i - 1 /\ latest - id < NotificationCapacity
    <3>1. first + n - 1 <= latest
      BY <1>5, <1>6, StreamsAssumption
    <3>2. first + i - 1 \in 1 .. latest
      BY <1>5, <3>1
    <3>3. latest - (first + i - 1) < NotificationCapacity
      BY <1>3, <1>5, StreamsAssumption
    <3> QED
      BY <3>2, <3>3
  <2>2. first + i - 2 = id - 1
    BY <2>1
  <2>3. notifications[(id - 1) % NotificationCapacity] = id
    BY <1>2, <2>1 DEF RingHolds
  <2> QED
    BY <2>1, <2>2, <2>3
<1>10. page'.events = [i \in 1 .. n |-> first + i - 1]
  BY <1>8, <1>9
<1>11. page' \in [events : Seq(Nat), gap : BOOLEAN]
  <2>1. \A i \in 1 .. n : first + i - 1 \in Nat
    OBVIOUS
  <2>2. page'.events \in Seq(Nat)
    BY <1>10, <2>1
  <2>3. page'.gap \in BOOLEAN
    BY <1>8
  <2> QED
    BY Zenon, <1>8, <2>2, <2>3
<1>12. PageFollows'
  <2> SUFFICES ASSUME page'.events # << >>
               PROVE  /\ page'.events[Len(page'.events)] >= from
                      /\ page'.gap \/ page'.events[1] <= from + 1
    BY <1>1, <1>2 DEF PageFollows, GoesOn
  <2>1. n > 0 /\ Len(page'.events) = n
    BY <1>10
  <2>2. page'.events[n] = first + n - 1 /\ page'.events[1] = first
    BY <1>10, <2>1
  <2>3. page'.gap \/ first <= from + 1
    <3>1. from < latest
      BY <1>6, <2>1
    <3>2. CASE from + 1 < oldest
      BY Zenon, <1>8, <3>1, <3>2
    <3>3. CASE from + 1 >= oldest
      BY <1>4, <3>3
    <3> QED
      BY <3>2, <3>3
  <2>4. first + n - 1 >= from
    BY <1>5, <2>1
  <2> QED
    BY <2>1, <2>2, <2>3, <2>4
<1>13. Types' /\ FeedFollows' /\ StreamFollows'
  BY ZenonT(30), <1>1, <1>11
  DEF Types, FeedFollows, StreamFollows, Follows, following, Covered, GoesOn, Nothing,
                     database
<1>14. /\ RingHolds(feed, feed_id, FeedCapacity)'
       /\ RingHolds(notifications, latest_notification, NotificationCapacity)'
  BY <1>1 DEF database
<1> QED
  BY <1>12, <1>13, <1>14

\* publish_commits publishes the page; statistics say nothing of commits.
LEMMA PublishingKeeps ==
  ASSUME IInv, PublishCommits \/ PublishStats
  PROVE  IInv'
<1> USE DEF IInv
<1>0. NoPage \in [events : Seq(Nat), gap : BOOLEAN]
  BY DEF NoPage
<1>1. CASE PublishCommits
  <2>1. page.events \in Seq(Nat) /\ page.gap \in BOOLEAN /\ page.events # << >>
    BY <1>1 DEF Types, PageFollows, PublishCommits
  <2>2. PICK first \in Nat, until \in Nat, gap \in BOOLEAN :
          first = page.events[1] /\ until = page.events[Len(page.events)] /\ gap = page.gap
    BY <2>1
  <2>3. PICK m \in Message : m = [reset |-> FALSE, id |-> feed_id + 1, first |-> first,
                                  last |-> until, gap |-> gap]
    <3>1. feed_id + 1 \in Nat
      BY DEF Types
    <3> QED
      BY <3>1, Zenon DEF Message
  <2>4. GoesOn(m, notification_id)
    BY <1>1, <2>2, <2>3 DEF PageFollows, PublishCommits, GoesOn
  <2>5. Adds(m)
    BY <1>0, <1>1, <2>2, <2>3, <2>4
    DEF PublishCommits, Publish, Put, Adds, following, stream, knowledge, database
  <2> QED
    BY <2>5, PublishKeeps
<1>2. CASE PublishStats
  <2>1. CASE UNCHANGED <<feed_id, feed, published>>
    BY ZenonT(30), <1>2, <2>1, AloneKeeps
    DEF PublishStats, following, stream, knowledge, Types
  <2>2. CASE Publish(notification_id + 1, notification_id, FALSE)
    <3>1. PICK m \in Message : m = [reset |-> FALSE, id |-> feed_id + 1,
                                    first |-> notification_id + 1, last |-> notification_id,
                                    gap |-> FALSE]
      <4>1. feed_id + 1 \in Nat /\ notification_id \in Nat /\ notification_id + 1 \in Nat
        BY DEF Types
      <4> QED
        BY <4>1, Zenon DEF Message
    <3>2. GoesOn(m, notification_id)
      BY <3>1 DEF GoesOn, Types
    <3>3. Adds(m)
      BY <1>2, <2>2, <3>1, <3>2
     
     DEF PublishStats, Publish, Put, Adds, following, stream, knowledge, database, Types
    <3> QED
      BY <3>3, PublishKeeps
  <2> QED
    BY ZenonT(30), <1>2, <2>1, <2>2 DEF PublishStats
<1> QED
  BY <1>1, <1>2

\* The clock, a failed publication, the sweep, sessions and shutdown.
LEMMA OthersKeep ==
  ASSUME IInv,
         \/ Begin \/ PublishFails \/ Sweep \/ Halt \/ WakeAll \/ LibraryEnds
         \/ \E c \in Client : Revoke(c)
  PROVE  IInv'
<1>1. UNCHANGED <<database, notification_id, feed_id, feed, published, following>>
  BY ZenonT(30)
  DEF Begin, PublishFails, Sweep, Halt, WakeAll, LibraryEnds, Revoke, unhalted,
      publishing,
         stream, knowledge, following
<1>2. page' = page \/ page' = NoPage
  BY ZenonT(30)
  DEF Begin, PublishFails, Sweep, Halt, WakeAll, LibraryEnds, Revoke, unhalted, publishing
<1>3. ticker' # "publish" \/ UNCHANGED <<ticker, page>>
  BY ZenonT(30)
  DEF Begin, PublishFails, Sweep, Halt, WakeAll, LibraryEnds, Revoke, unhalted, publishing
<1>4. page' \in [events : Seq(Nat), gap : BOOLEAN]
  <2>1. page \in [events : Seq(Nat), gap : BOOLEAN]
    BY DEF IInv, Types
  <2>2. NoPage \in [events : Seq(Nat), gap : BOOLEAN]
    BY DEF NoPage
  <2> QED
    BY <1>2, <2>1, <2>2, Zenon
<1> QED
  BY <1>1, <1>3, <1>4, AloneKeeps

-----------------------------------------------------------------------------
(* The client.                                                              *)

\* A step of client c leaves the database, the feed and the others alone.
Own(c) ==
  /\ UNCHANGED <<database, publishing>>
  /\ state' \in [Client -> {"idle", "ready", "open", "ended"}]
  /\ after' \in [Client -> Nat] /\ reset' \in [Client -> BOOLEAN]
  /\ buffer' \in [Client -> Message] /\ last' \in [Client -> Nat] /\ told' \in [Client -> Nat]
  /\ \A d \in Client \ {c} :
       /\ state'[d] = state[d] /\ after'[d] = after[d] /\ reset'[d] = reset[d]
       /\ buffer'[d] = buffer[d] /\ last'[d] = last[d] /\ told'[d] = told[d]

\* A step of one client keeps the invariant if that client follows the feed after it.
LEMMA OwnKeeps ==
  ASSUME IInv, NEW c \in Client, Own(c), Follows(c)'
  PROVE  IInv'
<1>1. UNCHANGED <<latest_notification, notifications, notification_id, ticker, page, feed_id,
                  feed, published>>
  BY ZenonT(30) DEF Own, database, publishing
<1>2. Types'
  BY ZenonT(30), <1>1 DEF IInv, Types, Own
<1>3. FeedFollows' /\ PageFollows'
  BY ZenonT(30), <1>1 DEF IInv, FeedFollows, PageFollows, Covered, GoesOn
<1>4. /\ RingHolds(feed, feed_id, FeedCapacity)'
      /\ RingHolds(notifications, latest_notification, NotificationCapacity)'
  BY <1>1 DEF IInv
<1>5. ASSUME NEW d \in Client, d # c
      PROVE  Follows(d)'
  <2>1. Follows(d)
    BY DEF IInv, StreamFollows
  <2>2. /\ state'[d] = state[d] /\ after'[d] = after[d] /\ reset'[d] = reset[d]
        /\ buffer'[d] = buffer[d] /\ last'[d] = last[d] /\ told'[d] = told[d]
    BY ZenonT(30), <1>5 DEF Own
  <2> QED
    BY <1>1, <2>1, <2>2 DEF Follows, Covered, GoesOn, Nothing
<1>6. StreamFollows'
  BY <1>5 DEF StreamFollows
<1> QED
  BY <1>2, <1>3, <1>4, <1>6 DEF IInv

\* Opening, ending and leaving.
LEMMA ConnectKeeps ==
  ASSUME IInv, NEW c \in Client,
         FetchCursor(c) \/ OpenStream(c) \/ ReadEnd(c) \/ StreamFree(c) \/ Forget(c)
  PROVE  IInv'
<1>1. Types /\ Follows(c) /\ feed_id \in Nat /\ Nothing \in Message
  BY ZenonT(30) DEF IInv, StreamFollows, Types, Message, Nothing
<1>2. CASE FetchCursor(c)
  <2>1. Covered(feed_id) \in Nat
    BY DEF IInv, FeedFollows, Types
  <2>2. Own(c)
    BY <1>1, <1>2, <2>1 DEF FetchCursor, Put, Own, rest, stream, Types
  <2>3. Follows(c)'
    <3>1. /\ state[c] = "idle" /\ state'[c] = "ready" /\ last'[c] = feed_id
          /\ told'[c] = Covered(feed_id) /\ buffer'[c] = buffer[c]
          /\ feed_id' = feed_id /\ published' = published
      BY Zenon, <1>1, <1>2 DEF FetchCursor, Put, rest, stream, publishing, Types
    <3> QED
      BY <1>1, <3>1 DEF Follows, Covered, Nothing
  <2> QED
    BY <2>2, <2>3, OwnKeeps
<1>3. CASE OpenStream(c)
  <2>1. Own(c)
    <3>1. PICK n \in Nat, b \in BOOLEAN :
            /\ after' = [after EXCEPT ![c] = n] /\ reset' = [reset EXCEPT ![c] = b]
            /\ state' = [state EXCEPT ![c] = "open"]
            /\ UNCHANGED <<database, publishing, buffer, last, told>>
      BY ZenonT(30), <1>1, <1>3 DEF OpenStream, Put, rest, knowledge, Types
    <3> QED
      BY <1>1, <3>1 DEF Own, Types
  <2>2. Follows(c)'
    <3>1. /\ state[c] = "ready" /\ state'[c] = "open" /\ buffer'[c] = buffer[c]
          /\ last'[c] = last[c] /\ told'[c] = told[c]
          /\ feed_id' = feed_id /\ published' = published
      BY Zenon, <1>1, <1>3 DEF OpenStream, Put, rest, knowledge, publishing, Types
    <3>2. after'[c] = last[c] \/ (after'[c] = 0 /\ reset'[c] = TRUE)
      <4>1. CASE after' = [after EXCEPT ![c] = last[c]]
        BY Zenon, <1>1, <4>1 DEF Types
      <4>2. CASE after' = [after EXCEPT ![c] = 0] /\ reset' = [reset EXCEPT ![c] = TRUE]
        BY Zenon, <1>1, <4>2 DEF Types
      <4> QED
        BY Zenon, <1>3, <4>1, <4>2 DEF OpenStream, Put
    <3> QED
      BY <1>1, <3>1, <3>2 DEF Follows, Covered, Nothing
  <2> QED
    BY <2>1, <2>2, OwnKeeps
<1>4. CASE ReadEnd(c)
  <2>1. Own(c)
    BY <1>1, <1>4 DEF ReadEnd, Put, Own, rest, stream, knowledge, Types
  <2>2. Follows(c)'
    BY Zenon, <1>1, <1>4
   
   DEF ReadEnd, Reading, Put, Follows, Covered, rest, stream, knowledge, publishing, Types
  <2> QED
    BY <2>1, <2>2, OwnKeeps
<1>5. CASE StreamFree(c)
  <2>1. Own(c)
    BY <1>1, <1>5 DEF StreamFree, Put, Own, rest, knowledge, Types
  <2>2. Follows(c)'
    BY ZenonT(30), <1>1, <1>5
   
   DEF StreamFree, Listed, Put, Follows, Covered, rest, knowledge, publishing, Types, Nothing
  <2> QED
    BY <2>1, <2>2, OwnKeeps
<1>6. CASE Forget(c)
  <2>1. Own(c)
    BY <1>1, <1>6 DEF Forget, Put, Own, rest, stream, Types
  <2>2. Follows(c)'
    BY ZenonT(30), <1>1, <1>6
    DEF Forget, Put, Follows, Covered, rest, stream, publishing, Types, Nothing
  <2> QED
    BY <2>1, <2>2, OwnKeeps
<1> QED
  BY <1>2, <1>3, <1>4, <1>5, <1>6

\* A client that goes on from where it stands, or after a reset, knows what the
\* message covers.
LEMMA HandleKnows ==
  ASSUME Types, NEW c \in Client, NEW m \in Message, Handle(c, m),
         m.reset \/ GoesOn(m, told[c])
  PROVE  /\ last' = [last EXCEPT ![c] = m.id] /\ told' = [told EXCEPT ![c] = m.last]
         /\ last' \in [Client -> Nat] /\ told' \in [Client -> Nat]
<1>1. told[c] \in Nat /\ m.id \in Nat /\ m.last \in Nat /\ m.first \in Nat
      /\ m.gap \in BOOLEAN /\ m.reset \in BOOLEAN
  BY DEF Types, Message
<1>2. PICK t \in Nat, l \in Nat : t = told[c] /\ l = m.last
  BY <1>1
<1>3. ~m.reset => Max({t, l}) = m.last
  BY <1>1, <1>2, MaxOfTwo DEF GoesOn
<1>4. told' = [told EXCEPT ![c] = m.last]
  BY ZenonT(30), <1>1, <1>2, <1>3 DEF Handle, Put, GoesOn
<1>5. last' = [last EXCEPT ![c] = m.id]
  BY DEF Handle, Put
<1> QED
  BY <1>1, <1>4, <1>5 DEF Types

\* The rest of a message.
LEMMA ReadRestKeeps ==
  ASSUME IInv, NEW c \in Client, ReadRest(c)
  PROVE  IInv'
<1>0. Types /\ Follows(c)
  BY DEF IInv, StreamFollows
<1>1. PICK m \in Message : m = buffer[c]
  BY <1>0 DEF Types
<1>2. /\ state[c] = "open" /\ m # Nothing /\ ~reset[c] /\ after[c] = m.id
      /\ after[c] <= feed_id /\ m.last = Covered(m.id)
      /\ m.reset \/ GoesOn(m, told[c])
  BY ZenonT(30), <1>0, <1>1 DEF Follows, ReadRest, Reading
<1>3. Handle(c, m)
  BY ZenonT(30), <1>1 DEF ReadRest, Handle, Put
<1>4. /\ last' = [last EXCEPT ![c] = m.id] /\ told' = [told EXCEPT ![c] = m.last]
      /\ last' \in [Client -> Nat] /\ told' \in [Client -> Nat]
  BY <1>0, <1>2, <1>3, HandleKnows
<1>5. /\ buffer' = [buffer EXCEPT ![c] = Nothing] /\ Nothing \in Message
      /\ UNCHANGED <<database, publishing, state, after, reset>>
  BY DEF ReadRest, Put, rest, Nothing, Message
<1>6. Own(c)
  BY <1>0, <1>4, <1>5 DEF Own, Types
<1>7. Follows(c)'
  <2>1. /\ state'[c] = "open" /\ after'[c] = m.id /\ reset'[c] = reset[c]
        /\ buffer'[c] = Nothing /\ last'[c] = m.id /\ told'[c] = m.last
        /\ feed_id' = feed_id /\ published' = published
    BY <1>0, <1>2, <1>4, <1>5 DEF Types, publishing
  <2> QED
    BY Zenon, <1>2, <2>1 DEF Follows, Covered, Nothing
<1> QED
  BY <1>6, <1>7, OwnKeeps

\* A message is copied whole or in part, after which the stream stands behind it.
LEMMA CopyKeeps ==
  ASSUME IInv, NEW c \in Client, NEW m \in Message, Copy(c, m),
         state[c] = "open", m # Nothing, m.id <= feed_id, m.last = Covered(m.id),
         m.reset \/ GoesOn(m, told[c]),
         after' = [after EXCEPT ![c] = m.id], reset' = [reset EXCEPT ![c] = FALSE],
         UNCHANGED <<database, publishing, state>>
  PROVE  IInv'
<1>0. Types /\ Follows(c) /\ m.id \in Nat /\ Nothing \in Message
  BY DEF IInv, StreamFollows, Message, Nothing
<1>1. CASE buffer' = [buffer EXCEPT ![c] = m] /\ UNCHANGED knowledge
  <2>1. Own(c)
    BY <1>0, <1>1 DEF Own, Types, knowledge
  <2>2. Follows(c)'
    <3>2. /\ state'[c] = "open" /\ after'[c] = m.id /\ reset'[c] = FALSE /\ buffer'[c] = m
          /\ last'[c] = last[c] /\ told'[c] = told[c]
          /\ feed_id' = feed_id /\ published' = published
      BY <1>0, <1>1 DEF Types, knowledge, publishing
    <3> QED
      BY ZenonT(30), <1>0, <3>2 DEF Follows, Covered, GoesOn, Nothing
  <2> QED
    BY <2>1, <2>2, OwnKeeps
<1>2. CASE buffer' = [buffer EXCEPT ![c] = Nothing] /\ Handle(c, m)
  <2>0. /\ last' = [last EXCEPT ![c] = m.id] /\ told' = [told EXCEPT ![c] = m.last]
        /\ last' \in [Client -> Nat] /\ told' \in [Client -> Nat]
    BY <1>0, <1>2, HandleKnows
  <2>1. Own(c)
    BY ZenonT(30), <1>0, <1>2, <2>0 DEF Own, Types
  <2>2. Follows(c)'
    <3>1. /\ state'[c] = "open" /\ after'[c] = m.id /\ reset'[c] = FALSE
          /\ buffer'[c] = Nothing /\ last'[c] = m.id /\ told'[c] = m.last
          /\ feed_id' = feed_id /\ published' = published
      BY <1>0, <1>2, <2>0 DEF Types, publishing
    <3> QED
      BY ZenonT(30), <3>1 DEF Follows, Covered, Nothing
  <2> QED
    BY <2>1, <2>2, OwnKeeps
<1> QED
  BY <1>1, <1>2 DEF Copy, Put

\* A reset, for a stream that is to be reset or fell behind.
LEMMA ReadResetKeeps ==
  ASSUME IInv, NEW c \in Client, ReadReset(c)
  PROVE  IInv'
<1>1. feed_id \in Nat /\ Covered(feed_id) \in Nat
  BY ZenonT(30) DEF IInv, FeedFollows, Types
<1>2. PICK m \in Message : m = [reset |-> TRUE, id |-> feed_id, first |-> 1,
                                last |-> Covered(feed_id), gap |-> FALSE]
  BY <1>1, Zenon DEF Message
<1>4. /\ state[c] = "open" /\ after' = [after EXCEPT ![c] = m.id]
      /\ reset' = [reset EXCEPT ![c] = FALSE] /\ UNCHANGED <<database, publishing, state>>
  BY Zenon, <1>2 DEF ReadReset, Reading, Put, rest
<1>5. Copy(c, m)
  BY ZenonT(30), <1>2 DEF ReadReset, Copy, Handle, Put
<1>6. m # Nothing /\ m.id <= feed_id /\ m.last = Covered(m.id) /\ m.reset
  BY <1>1, <1>2 DEF Nothing
<1> QED
  BY ZenonT(30), <1>4, <1>5, <1>6, CopyKeeps

\* The next message: its slot has not been overwritten.
LEMMA ReadMessageKeeps ==
  ASSUME IInv, NEW c \in Client, ReadMessage(c)
  PROVE  IInv'
<1>0. Types /\ FeedFollows /\ Follows(c) /\ RingHolds(feed, feed_id, FeedCapacity)
  BY DEF IInv, StreamFollows
<1>1. /\ state[c] = "open" /\ buffer[c] = Nothing /\ ~reset[c] /\ after[c] < feed_id
      /\ after[c] = last[c] /\ told[c] = Covered(after[c])
  BY Zenon, <1>0 DEF ReadMessage, Reading, Follows
<1>2. PICK n \in Nat, f \in Nat, oldest \in Nat :
        /\ n = after[c] /\ f = feed_id /\ oldest = Oldest(f, FeedCapacity)
        /\ f - oldest < FeedCapacity
  BY ZenonT(30), <1>0, OldestHeld, StreamsAssumption DEF Types
<1>3. n + 1 \in 1 .. f /\ f - (n + 1) < FeedCapacity
  <2>1. n + 1 >= oldest
    <3>1. ~(n < f /\ n + 1 < oldest)
      BY Zenon, <1>2 DEF ReadMessage, Behind
    <3> QED
      BY <1>1, <1>2, <3>1
  <2> QED
    BY <1>1, <1>2, <2>1, StreamsAssumption
<1>4. feed[n % FeedCapacity] = n + 1
  <2>1. feed[((n + 1) - 1) % FeedCapacity] = n + 1
    BY <1>0, <1>2, <1>3 DEF RingHolds
  <2>2. (n + 1) - 1 = n
    OBVIOUS
  <2> QED
    BY <2>1, <2>2
<1>5. PICK m \in Message : m = published[n + 1]
  BY <1>0, <1>2, <1>3 DEF Types
<1>6. /\ m.id = n + 1 /\ ~m.reset /\ m.last = Covered(m.id) /\ m # Nothing
      /\ GoesOn(m, told[c])
  <2>1. m.id = n + 1 /\ ~m.reset /\ GoesOn(m, Covered((n + 1) - 1))
    BY <1>0, <1>2, <1>3, <1>5 DEF FeedFollows
  <2>2. (n + 1) - 1 = n /\ n + 1 # 0
    OBVIOUS
  <2> QED
    <3>1. m.last = Covered(m.id) /\ GoesOn(m, told[c])
      BY Zenon, <1>1, <1>2, <1>5, <2>1, <2>2 DEF Covered
    <3>2. m # Nothing
      BY <2>1, <2>2 DEF Nothing
    <3> QED
      BY <2>1, <3>1, <3>2
<1>7. /\ after' = [after EXCEPT ![c] = m.id]
      /\ UNCHANGED <<database, publishing, state, reset>>
  BY ZenonT(30), <1>2, <1>4, <1>6 DEF ReadMessage, Put, rest
<1>8. reset' = [reset EXCEPT ![c] = FALSE]
  BY <1>0, <1>1, <1>7 DEF Types
<1>9. Copy(c, m)
  BY ZenonT(30), <1>2, <1>4, <1>5 DEF ReadMessage, Copy, Handle, Put
<1>10. m.id <= feed_id
  BY <1>2, <1>3, <1>6
<1> QED
  BY ZenonT(30), <1>1, <1>6, <1>7, <1>8, <1>9, <1>10, CopyKeeps

\* Falling asleep.
LEMMA ReadNothingKeeps ==
  ASSUME IInv, NEW c \in Client, ReadNothing(c)
  PROVE  IInv'
<1>1. UNCHANGED <<database, publishing, following>>
  BY DEF ReadNothing, rest, knowledge, following
<1>2. page \in [events : Seq(Nat), gap : BOOLEAN]
  BY DEF IInv, Types
<1> QED
  BY <1>1, <1>2, AloneKeeps DEF publishing

-----------------------------------------------------------------------------
\* The invariant holds initially.
LEMMA InitHolds == Init => IInv
<1> SUFFICES ASSUME Init PROVE IInv
  OBVIOUS
<1>1. Nothing \in Message /\ NoPage \in [events : Seq(Nat), gap : BOOLEAN]
  BY DEF Nothing, Message, NoPage
<1>2. Types
  BY <1>1, StreamsAssumption DEF Init, Types
<1>3. FeedFollows /\ PageFollows
  BY DEF Init, FeedFollows, PageFollows, Covered
<1>4. StreamFollows
  BY DEF Init, StreamFollows, Follows, Covered
<1>5. /\ RingHolds(feed, feed_id, FeedCapacity)
      /\ RingHolds(notifications, latest_notification, NotificationCapacity)
  BY DEF Init, RingHolds
<1> QED
  BY <1>2, <1>3, <1>4, <1>5 DEF IInv

\* Every step keeps it.
LEMMA NextKeeps == IInv /\ [Next]_vars => IInv'
<1> SUFFICES ASSUME IInv, [Next]_vars PROVE IInv'
  OBVIOUS
<1>1. CASE UNCHANGED vars
  <2>1. page \in [events : Seq(Nat), gap : BOOLEAN]
    BY ZenonT(30) DEF IInv, Types
  <2> QED
    BY Zenon, <1>1, <2>1, AloneKeeps
    DEF vars, publishing, stream, knowledge, following
<1>2. CASE Commit \/ Tick \/ Halt \/ WakeAll \/ LibraryEnds
  BY <1>2, CommitKeeps, ReadCommitsKeeps, PublishingKeeps, OthersKeep DEF Tick
<1>3. ASSUME NEW c \in Client,
             \/ FetchCursor(c) \/ OpenStream(c) \/ Forget(c) \/ Revoke(c)
             \/ StreamRead(c) \/ StreamFree(c)
      PROVE  IInv'
  BY <1>3, ConnectKeeps, OthersKeep, ReadRestKeeps, ReadResetKeeps, ReadMessageKeeps,
     ReadNothingKeeps
  DEF StreamRead
<1> QED
  BY <1>1, <1>2, <1>3 DEF Next

\* The inductive invariant, in every reachable state.
LEMMA Invariant == Spec => []IInv
  BY InitHolds, NextKeeps, PTL DEF Spec

\* No commit is skipped in silence, for any number of clients, any capacity of the
\* rings and any page size: what a client was told is what the feed covers up to
\* the last event it received (server.c, stream_read; stats.c,
\* wadb_read_notifications).
THEOREM StreamAlwaysComplete == Spec => []StreamComplete
<1>1. IInv => StreamComplete
  BY DEF IInv, StreamFollows, Follows, StreamComplete
<1> QED
  BY <1>1, Invariant, PTL
=============================================================================
