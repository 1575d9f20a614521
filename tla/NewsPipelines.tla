---------------------------- MODULE NewsPipelines ----------------------------
(***************************************************************************)
(* The two live sources of the sentiment table. PolygonNewsPipeline asks   *)
(* every minute for what was published since its cursor and stores it;     *)
(* NewsSentimentPipeline queues the headlines of Alpaca's stream and has   *)
(* them scored in batches. Both run under the supervisor of main.py.       *)
(*                                                                         *)
(* An article is the time slot it was published in; the server may list it *)
(* later than that. A headline of the stream is its number.                *)
(***************************************************************************)
EXTENDS PagedFetch

CONSTANTS Lookback,    \* the hour a first poll looks back
          QueueCap,    \* MAX_QUEUE_SIZE
          BatchSize,   \* MAX_BATCH_SIZE
          MaxHeadlines, MaxFeeds

ASSUME PipelinesAssumption == /\ Lookback \in Nat
                              /\ {QueueCap, BatchSize, MaxFeeds} \subseteq Nat \ {0}

VARIABLES clock,       \* slots that have begun
          cursor,      \* _cursor_published_utc, Idle while no poller runs
          scored,      \* articles with a row in the sentiment table
          missed,      \* history: articles that were listed behind the cursor
          heard,       \* headlines the stream has brought
          queue, batch, \* waiting, and with the scorer
          stored,      \* headlines with a row in the table
          shed,        \* history: headlines lost with a batch or a row
          pushed,      \* history: headlines pushed out of a full queue
          feeds        \* running loops of the stream
pollVars == <<cursor, scored, missed>>
streamVars == <<heard, queue, batch, stored, shed, pushed, feeds>>

MaxSlot == Max(Rows)
_fetch_page == [finnhub_get EXCEPT !.limit = PageSize]

PipelinesInit == /\ FetchInit
                 /\ clock = 0
                 /\ cursor = Idle /\ scored = {} /\ missed = {}
                 /\ heard = 0 /\ queue = <<>> /\ batch = <<>>
                 /\ stored = {} /\ shed = {} /\ pushed = {} /\ feeds = 1
----------------------------------------------------------------------------
(* Behind the newest key of the cursor and of the page in flight nothing   *)
(* will be asked for again.                                                *)
Frontier == LET inFlight == IF call = Idle THEN {} ELSE ToSet(call.got)
            IN  Max({cursor} \union inFlight)

Tick == /\ clock < MaxSlot
        /\ clock' = clock + 1
        /\ UNCHANGED <<fetchVars, pollVars, streamVars>>

Publish(r) == /\ r <= clock
              /\ Listed(r)
              /\ missed' = IF cursor # Idle => r >= Frontier THEN missed ELSE missed \union {r}
              /\ UNCHANGED <<clock, cursor, scored, streamVars>>

(* The poller starts, or is started again by the supervisor or with the    *)
(* process, an hour back.                                                  *)
start == /\ cursor = Idle
         /\ call = Idle
         /\ cursor' = IF clock > Lookback THEN clock - Lookback ELSE 0
         /\ missed' = missed \union {r \in listing \ scored : r < cursor'}
         /\ UNCHANGED <<fetchVars, clock, scored, streamVars>>

PollAsks == /\ cursor # Idle
            /\ call = Idle
            /\ call' = Fresh(_fetch_page, cursor, MaxSlot, 1)
            /\ UNCHANGED <<listing, clock, pollVars, streamVars>>

PollAnswered == /\ Page \/ \E a \in Answers \ {"ok"} : NoPage(a)
                /\ UNCHANGED <<clock, pollVars, streamVars>>

_persist(rows) == scored' = scored \union rows

(* The cursor moves although the rows could not be written.                *)
PollStores_CursorFirst ==
              /\ call # Idle
              /\ ~Running
              /\ LET rows == ToSet(call.got) IN
                    /\ _persist(rows) \/ UNCHANGED scored
                    /\ cursor' = Max({cursor} \union rows)
              /\ call' = Idle
              /\ UNCHANGED <<listing, clock, missed, streamVars>>

(* _poll_loop behind its await: rows first, then the cursor; a table that  *)
(* cannot be written leaves both.                                          *)
PollStores == /\ call # Idle
              /\ ~Running
              /\ LET rows == ToSet(call.got) IN
                    \/ /\ _persist(rows)
                       /\ cursor' = Max({cursor} \union rows)
                    \/ UNCHANGED <<scored, cursor>>
              /\ call' = Idle
              /\ UNCHANGED <<listing, clock, missed, streamVars>>

PollerDies == /\ cursor # Idle
              /\ cursor' = Idle
              /\ call' = Idle
              /\ UNCHANGED <<listing, clock, scored, missed, streamVars>>
----------------------------------------------------------------------------
(* A headline of the watchlist passes the keyword filter of a feed; every  *)
(* running loop may bring it. A full queue gives up its oldest.            *)
Enqueued(q, h) == Append(IF Len(q) = QueueCap THEN Tail(q) ELSE q, h)

_enqueue(h) == /\ queue' = Enqueued(queue, h)
               /\ pushed' = IF Len(queue) = QueueCap THEN pushed \union {Head(queue)} ELSE pushed

Headline == /\ heard < MaxHeadlines
            /\ heard' = heard + 1
            /\ _enqueue(heard + 1)
            /\ UNCHANGED <<fetchVars, clock, pollVars, batch, stored, shed, feeds>>

(* A second loop of the stream brings the newest headline once more.       *)
HeadlineAgain == /\ feeds > 1
                 /\ heard > 0
                 /\ \A i \in DOMAIN queue : queue[i] = heard => Cardinality({j \in DOMAIN queue : queue[j] = heard}) < feeds
                 /\ _enqueue(heard)
                 /\ UNCHANGED <<fetchVars, clock, pollVars, heard, batch, stored, shed, feeds>>

_flush_loop == /\ batch = <<>>
               /\ queue # <<>>
               /\ LET n == IF Len(queue) < BatchSize THEN Len(queue) ELSE BatchSize IN
                     /\ batch' = SubSeq(queue, 1, n)
                     /\ queue' = SubSeq(queue, n + 1, Len(queue))
               /\ UNCHANGED <<fetchVars, clock, pollVars, heard, stored, shed, pushed, feeds>>

(* score_batch: a row per well-formed score, none when the call, its JSON  *)
(* or its length is wrong; what has no row is gone.                        *)
score_batch == /\ batch # <<>>
               /\ \E rows \in SUBSET ToSet(batch) :
                     /\ stored' = stored \union rows
                     /\ shed' = shed \union (ToSet(batch) \ rows)
               /\ batch' = <<>>
               /\ UNCHANGED <<fetchVars, clock, pollVars, heard, queue, pushed, feeds>>

(* The rows cannot be written: the flush loop ends with the error, the     *)
(* feed beside it does not, and the supervisor's restart starts another.   *)
PersistFails == /\ batch # <<>>
                /\ feeds < MaxFeeds
                /\ feeds' = feeds + 1
                /\ shed' = shed \union ToSet(batch)
                /\ batch' = <<>>
                /\ UNCHANGED <<fetchVars, clock, pollVars, heard, queue, stored, pushed>>
----------------------------------------------------------------------------
PollNext == \/ Tick
            \/ \E r \in Rows : Publish(r)
            \/ start \/ PollAsks \/ PollAnswered \/ PollStores \/ PollerDies

StreamNext == Headline \/ HeadlineAgain \/ _flush_loop \/ score_batch \/ PersistFails

(* What the poller has passed it has stored, but for what the server       *)
(* listed only when the cursor, or the page under way, was already past it *)
(* and what is older than the hour a start looks back.                     *)
PollPassesWhatItStored ==
    cursor # Idle => {r \in listing : r < cursor} \subseteq scored \union missed

(* A headline is waiting, with the scorer, in the table, or it is gone in  *)
(* one of two ways: with a batch, or pushed out while QueueCap newer ones  *)
(* were waiting, so that the queue always holds the newest.                *)
StreamKeepsNewest ==
    /\ 1 .. heard \subseteq ToSet(queue) \union ToSet(batch) \union stored \union shed \union pushed
    /\ \A i, j \in DOMAIN queue : i < j => queue[i] <= queue[j]
    /\ \A h \in ToSet(batch) \union stored \union shed \union pushed : queue # <<>> => h <= Last(queue)
    /\ \A h \in pushed \ (ToSet(queue) \union ToSet(batch) \union stored \union shed) : h + QueueCap \div feeds <= heard
=============================================================================
