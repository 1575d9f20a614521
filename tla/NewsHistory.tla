----------------------------- MODULE NewsHistory -----------------------------
(***************************************************************************)
(* The two histories the replay keeps on disk between runs: the news of a  *)
(* ticker, one file with the window it covers, and the metadata of all     *)
(* tickers, one file that every call reads whole and writes whole.         *)
(***************************************************************************)
EXTENDS NewsPipelines

CONSTANTS SlotsPerDay, \* slots of a day
          Tickers,
          Ttl,         \* SLOW_FIELD_TTL_DAYS
          MaxLoads     \* calls of get_ticker_metadata

ASSUME HistoryAssumption == SlotsPerDay \in Nat \ {0} /\ Ttl \in Nat

VARIABLES shelf,       \* the ticker's news file: its coverage and its items
          answer,      \* what load_historical_news last returned
          rows,        \* ticker_metadata.json
          loading,     \* per ticker: the call under way
          loads,       \* calls begun
          done,        \* history: the row each ticker's last finished call wrote
          exposed,     \* history: tickers that wrote while another call was under way
          dropped      \* history: tickers whose row a call that could not read the file removed
newsVars == <<shelf, answer>>
metaVars == <<rows, loading, loads, done, exposed, dropped>>

NewsDays == 1 .. MaxSlot \div SlotsPerDay
Window(d) == [from |-> Max({1, (d - 2) * SlotsPerDay + 1}), to |-> d * SlotsPerDay]
In(w, s) == {r \in s : w.from <= r /\ r <= w.to}

HistoryInit == /\ PipelinesInit
               /\ shelf = Idle /\ answer = Idle
               /\ rows = << >> /\ loading = [t \in Tickers |-> Idle] /\ loads = 0
               /\ done = << >> /\ exposed = {} /\ dropped = {}
----------------------------------------------------------------------------
(* Only the later bound is compared.                                       *)
_coverage_covers_EndOnly(w) == shelf # Idle => shelf.to >= w.to

(* A file is served when it covers the window asked for, and can be read;  *)
(* since and cut are history: what was listed when its download began, and *)
(* whether a 404 ended it early.                                           *)
_coverage_covers(w) == shelf # Idle => shelf.from <= w.from /\ shelf.to >= w.to

Served(w, s) == [from |-> w.from, to |-> w.to, items |-> In(w, s.items), since |-> In(w, s.since), cut |-> s.cut]

load_historical_news(d) ==
    /\ call = Idle
    /\ LET w == Window(d) IN
          \/ shelf # Idle /\ _coverage_covers(w) /\ answer' = Served(w, shelf) /\ UNCHANGED fetchVars
          \/ answer' = Idle /\ Begin(fetch_news_range, w.from, w.to)
    /\ UNCHANGED <<clock, pollVars, streamVars, shelf, metaVars>>

(* The download is in: the file is replaced, whatever it held; or the      *)
(* download or the write raised and the day is skipped.                    *)
NewsArrived ==
    /\ call # Idle
    /\ ~Running
    /\ \/ /\ call.outcome = "rows"
          /\ LET s == [from |-> call.from, to |-> call.to, items |-> ToSet(call.got),
                       since |-> call.since, cut |-> call.cut]
             IN  shelf' = s /\ answer' = Served(s, s)
       \/ UNCHANGED <<shelf, answer>>
    /\ call' = Idle
    /\ UNCHANGED <<listing, clock, pollVars, streamVars, metaVars>>

(* The process ends: the call is gone, the files stay.                     *)
ReplayEnds == /\ call # Idle \/ \E t \in Tickers : loading[t] # Idle
              /\ call' = Idle /\ answer' = Idle
              /\ loading' = [t \in Tickers |-> Idle]
              /\ UNCHANGED <<listing, clock, pollVars, streamVars, shelf, rows, loads, done, exposed, dropped>>

NewsDownload == PollAnswered /\ UNCHANGED <<newsVars, metaVars>>

Published(r) == Publish(r) /\ UNCHANGED <<newsVars, metaVars>>
SlotEnds == Tick /\ UNCHANGED <<newsVars, metaVars>>
----------------------------------------------------------------------------
(* get_ticker_metadata: the whole file is read, then up to two downloads   *)
(* are awaited, then the whole file is written with this ticker's row. The *)
(* slow fields carry the day they were fetched, the volume its as-of day.  *)
(* A file that cannot be read or parsed (blind) is taken for an empty one. *)
Today == clock \div SlotsPerDay

_is_slow_fields_fresh(row) == Today - row.fetched <= Ttl

get_ticker_metadata(t, d) ==
    /\ loading[t] = Idle
    /\ loads < MaxLoads
    /\ \E blind \in BOOLEAN :
          LET file == IF blind THEN << >> ELSE rows
              row == IF t \in DOMAIN file THEN file[t] ELSE Idle
              slow == IF row = Idle THEN FALSE ELSE _is_slow_fields_fresh(row)
          IN  loading' = [loading EXCEPT ![t] =
                  [cache |-> file, blind |-> blind, asOf |-> d,
                   fetched |-> IF slow THEN row.fetched ELSE Idle,
                   adv |-> IF row = Idle THEN Idle ELSE IF row.asOf = d THEN row.adv ELSE Idle]]
    /\ loads' = loads + 1
    /\ UNCHANGED <<fetchVars, clock, pollVars, streamVars, newsVars, rows, done, exposed, dropped>>

_fetch_reference(t) ==
    /\ loading[t] # Idle
    /\ loading[t].fetched = Idle
    /\ \/ loading' = [loading EXCEPT ![t].fetched = Today]
       \/ loading' = [loading EXCEPT ![t] = Idle]
    /\ UNCHANGED <<fetchVars, clock, pollVars, streamVars, newsVars, rows, loads, done, exposed, dropped>>

(* The volume of the thirty days before the as-of day.                     *)
_fetch_adv(t) ==
    /\ loading[t] # Idle
    /\ loading[t].fetched # Idle
    /\ loading[t].adv = Idle
    /\ \/ loading' = [loading EXCEPT ![t].adv = loading[t].asOf]
       \/ loading' = [loading EXCEPT ![t] = Idle]
    /\ UNCHANGED <<fetchVars, clock, pollVars, streamVars, newsVars, rows, loads, done, exposed, dropped>>

(* A file with a row put in, or put in another's place.                    *)
Put(file, t, row) == [u \in DOMAIN file \union {t} |-> IF u = t THEN row ELSE file[u]]

Finishing(t) == loading[t] # Idle /\ loading[t].fetched # Idle /\ loading[t].adv # Idle

NewRow(t) == [fetched |-> loading[t].fetched, asOf |-> loading[t].asOf, adv |-> loading[t].adv]

(* The call has ended; the file is the one it had read, with its row.      *)
Written(t, file) ==
    /\ rows' = file
    /\ done' = Put(done, t, NewRow(t))
    /\ exposed' = IF \E u \in Tickers \ {t} : loading[u] # Idle THEN exposed \union {t} ELSE exposed \ {t}
    /\ dropped' = (IF loading[t].blind THEN dropped \union DOMAIN rows ELSE dropped) \ {t}

(* Only the row of the call is written.                                    *)
_write_cache_file_OwnRow(t) ==
    /\ Finishing(t)
    /\ Written(t, Put(<< >>, t, NewRow(t)))
    /\ loading' = [loading EXCEPT ![t] = Idle]
    /\ UNCHANGED <<fetchVars, clock, pollVars, streamVars, newsVars, loads>>

(* The file is replaced, or the write raises and the call is lost.         *)
_write_cache_file(t) ==
    /\ Finishing(t)
    /\ \/ Written(t, Put(loading[t].cache, t, NewRow(t)))
       \/ UNCHANGED <<rows, done, exposed, dropped>>
    /\ loading' = [loading EXCEPT ![t] = Idle]
    /\ UNCHANGED <<fetchVars, clock, pollVars, streamVars, newsVars, loads>>
----------------------------------------------------------------------------
ShelfNext == \/ SlotEnds \/ NewsDownload \/ NewsArrived \/ ReplayEnds
             \/ \E r \in Rows : Published(r)
             \/ \E d \in NewsDays : load_historical_news(d)

MetadataNext == \/ SlotEnds \/ ReplayEnds
                \/ \E t \in Tickers :
                      \/ \E d \in NewsDays : get_ticker_metadata(t, d)
                      \/ _fetch_reference(t) \/ _fetch_adv(t) \/ _write_cache_file(t)

(* The parts share nothing but the listing and the download of a server,   *)
(* and each has a server of its own, so a behaviour is one part's.         *)
historyVars == <<fetchVars, clock, pollVars, streamVars, newsVars, metaVars>>

PollSpec == HistoryInit /\ [][PollNext /\ UNCHANGED <<newsVars, metaVars>>]_historyVars
StreamSpec == HistoryInit /\ [][StreamNext /\ UNCHANGED <<newsVars, metaVars>>]_historyVars
ShelfSpec == HistoryInit /\ [][ShelfNext]_historyVars
MetadataSpec == HistoryInit /\ [][MetadataNext]_historyVars

HistorySpec == PollSpec \/ StreamSpec \/ ShelfSpec \/ MetadataSpec
----------------------------------------------------------------------------
(* The news a day of the replay is given are all that were listed in its   *)
(* window when the file was filled, and nothing of another day, however    *)
(* the windows of earlier days lay; but for a list a 404 cut short.        *)
NewsOfTheDay ==
    answer # Idle =>
        /\ In(answer, answer.items) = answer.items
        /\ answer.since \subseteq answer.items \/ answer.cut

(* What a finished call wrote of a ticker stays in the metadata file until *)
(* its next call, whoever else writes the file, but for a call that had    *)
(* read the file before that write and puts the old rows back, and for a   *)
(* call whose read of the file failed and which leaves its own row only.   *)
(* And a row's volume is that of the day the row names.                    *)
RowsOutliveOtherCalls ==
    /\ \A t \in DOMAIN done \ (exposed \union dropped) : t \in DOMAIN rows /\ (t \in DOMAIN rows => rows[t] = done[t])
    /\ \A t \in DOMAIN rows : rows[t].adv = rows[t].asOf /\ rows[t].fetched <= Today

(* What the program keeps of the outside it keeps whole: the poller and    *)
(* the stream of headlines, the news files and the metadata file.          *)
HistoriesAreKept == /\ PollPassesWhatItStored /\ StreamKeepsNewest
                    /\ NewsOfTheDay /\ RowsOutliveOtherCalls
=============================================================================
