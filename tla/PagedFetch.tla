------------------------------ MODULE PagedFetch ------------------------------
(***************************************************************************)
(* One download of a listing over HTTP, by any of the clients that fill    *)
(* the program's histories. The clients share one shape (ask for a page,   *)
(* retry some answers, give up on others, follow the next page or not) and *)
(* differ in every choice it leaves open, so each is a record of its       *)
(* choices and the steps below interpret it.                               *)
(*                                                                         *)
(* The server lists rows by a key (a bar's minute, an article's time, an   *)
(* option's symbol); a row may be listed while a download is running. A    *)
(* next-page link continues behind the last key of the page before.        *)
(***************************************************************************)
EXTENDS Naturals, SequencesExt, FiniteSetsExt

CONSTANTS Rows,        \* keys a server may list
          PageSize,    \* rows of a full page
          MaxPages,    \* pages a capped client follows
          MaxRetries,  \* requests for one page, downloads for one window
          Idle         \* no download is running

ASSUME FetchAssumption == /\ Rows \subseteq Nat \ {0} /\ IsFiniteSet(Rows) /\ Rows # {}
                          /\ PageSize \in Nat \ {0}
                          /\ MaxPages \in Nat \ {0}
                          /\ MaxRetries \in Nat \ {0}

VARIABLES listing, call
fetchVars == <<listing, call>>

Answers == {"ok", "404", "429", "5xx", "4xx", "lost", "timeout"}
----------------------------------------------------------------------------
(* retried: answers after which the same page is asked again;              *)
(* keeps:   answers that end the download with the rows got so far;        *)
(* again:   how often the whole download is begun;                         *)
(* limit:   rows of one answer (Unpaged: the endpoint has no pages);       *)
(* pages:   pages followed (1: the link to the next is not read);          *)
(* full:    what a page or a cap that may hide rows leads to;              *)
(* empty, fails: what the caller gets of no rows, and of no answer.        *)
Unpaged == Cardinality(Rows) + 1

_get_with_retry == [retried |-> {"429", "5xx"}, keeps |-> {}, again |-> 1, limit |-> PageSize,
                    pages |-> 1, full |-> "unseen", empty |-> "rows", fails |-> "raised"]
_fetch_spy_closes == [_get_with_retry EXCEPT !.empty = "raised"]
_fetch_vix_closes == [_get_with_retry EXCEPT !.empty = "nothing", !.fails = "nothing"]
backfill_daily_bars == [_get_with_retry EXCEPT !.empty = "nothing", !.fails = "nothing"]
backfill_premarket_baselines == [_get_with_retry EXCEPT !.empty = "nothing", !.fails = "nothing"]

fetch_aggs == [retried |-> {"429", "5xx", "lost", "timeout"}, keeps |-> {}, again |-> 1, limit |-> PageSize,
               pages |-> 1, full |-> "raised", empty |-> "raised", fails |-> "raised"]
_fetch_avg_daily_volume == [fetch_aggs EXCEPT !.empty = "nothing"]
get_vix_history == [fetch_aggs EXCEPT !.retried = {"5xx", "lost", "timeout"}, !.limit = Unpaged, !.full = "unseen"]
_load_vix_daily == [get_vix_history EXCEPT !.empty = "nothing", !.fails = "nothing"]
_fetch_polygon_reference == [fetch_aggs EXCEPT !.keeps = {"404"}, !.limit = Unpaged, !.full = "unseen",
                                               !.empty = "nothing"]
fetch_news_range == [fetch_aggs EXCEPT !.keeps = {"404"}, !.pages = MaxPages, !.empty = "rows"]

alpaca_bars == [_get_with_retry EXCEPT !.retried = {"429", "5xx", "timeout"}]
option_chain == [alpaca_bars EXCEPT !.pages = MaxPages, !.full = "told"]

_fetch_ticker_window == [retried |-> {}, keeps |-> {}, again |-> MaxRetries, limit |-> PageSize,
                         pages |-> Unpaged, full |-> "unseen", empty |-> "rows", fails |-> "raised"]

finnhub_get == [retried |-> {}, keeps |-> {}, again |-> 1, limit |-> Unpaged,
                pages |-> 1, full |-> "unseen", empty |-> "rows", fails |-> "nothing"]
_fetch_grouped_daily == finnhub_get
_fetch_minute_bars == [finnhub_get EXCEPT !.limit = PageSize]

Client == {_get_with_retry, _fetch_spy_closes, _fetch_vix_closes, fetch_aggs, _fetch_avg_daily_volume,
           get_vix_history, _load_vix_daily, _fetch_polygon_reference, fetch_news_range, alpaca_bars,
           option_chain, _fetch_ticker_window, finnhub_get, _fetch_minute_bars}
----------------------------------------------------------------------------
(* A download in progress: the rows got, the key the next page begins      *)
(* behind, the pages got, the tries of the page, the downloads begun, the  *)
(* outcome; since and cut are history: what was listed when the download   *)
(* that answered began, and whether it ended on an answer of "keeps".      *)
Fresh(c, from, to, again) ==
    [client |-> c, from |-> from, to |-> to, got |-> <<>>, behind |-> 0, page |-> 0, tries |-> 0,
     again |-> again, outcome |-> "running", since |-> {r \in listing : from <= r /\ r <= to},
     cut |-> FALSE, told |-> FALSE]

(* The whole download is tried again with the rows of the first try.       *)
Restart_KeepsRows(d) == [Fresh(d.client, d.from, d.to, d.again + 1) EXCEPT !.got = d.got]

Restart(d) == Fresh(d.client, d.from, d.to, d.again + 1)

Rest(d) == {r \in listing : d.from <= r /\ r <= d.to /\ r > d.behind}
PageOf(d) == {r \in Rest(d) : Cardinality({q \in Rest(d) : q < r}) < d.client.limit}

(* The keys of a page in the order of the listing: the i-th is the one     *)
(* with i keys up to it.                                                   *)
InOrder(page) == [i \in 1 .. Cardinality(page) |-> CHOOSE r \in page : Cardinality({q \in page : q <= r}) = i]

(* What the client does with the rows of a last page.                      *)
Returned(d) == IF d.got = <<>> THEN [d EXCEPT !.outcome = d.client.empty] ELSE [d EXCEPT !.outcome = "rows"]

(* The download with one more page.                                        *)
WithPage(d) ==
    LET page == PageOf(d)
    IN  [d EXCEPT !.got = @ \o InOrder(page), !.behind = IF page = {} THEN @ ELSE Max(page),
                  !.page = @ + 1, !.tries = 0]

Answered(d) ==
    LET e == WithPage(d)
        more == Rest(d) # PageOf(d)
        full == Cardinality(PageOf(d)) = d.client.limit
        c == d.client
    IN  IF more /\ e.page < c.pages THEN e
        ELSE CASE c.pages > 1 /\ more /\ c.full = "raised" -> [e EXCEPT !.outcome = "raised"]
               [] c.pages > 1 /\ more /\ c.full = "told" -> [e EXCEPT !.outcome = "rows", !.told = TRUE]
               [] c.pages = 1 /\ full /\ c.full = "raised" -> [e EXCEPT !.outcome = "raised"]
               [] OTHER -> Returned(e)

Failed(d, a) ==
    LET c == d.client
    IN  IF a \in c.keeps THEN Returned([d EXCEPT !.cut = TRUE])
        ELSE IF a \in c.retried /\ d.tries + 1 < MaxRetries THEN [d EXCEPT !.tries = @ + 1]
        ELSE IF d.again < c.again THEN Restart(d)
        ELSE [d EXCEPT !.outcome = c.fails]
----------------------------------------------------------------------------
FetchInit == listing = {} /\ call = Idle

Begin(c, from, to) == /\ call = Idle
                      /\ call' = Fresh(c, from, to, 1)
                      /\ UNCHANGED listing

Running == IF call = Idle THEN FALSE ELSE call.outcome = "running"

Page == /\ Running
        /\ call' = Answered(call)
        /\ UNCHANGED listing

NoPage(a) == /\ Running
             /\ call' = Failed(call, a)
             /\ UNCHANGED listing

Listed(r) == /\ r \notin listing
             /\ listing' = listing \union {r}
             /\ UNCHANGED call

FetchNext == \/ \E c \in Client, from, to \in Rows : from <= to /\ Begin(c, from, to)
             \/ Page
             \/ \E a \in Answers \ {"ok"} : NoPage(a)
             \/ \E r \in Rows : Listed(r)

FetchSpec == FetchInit /\ [][FetchNext]_fetchVars
----------------------------------------------------------------------------
(* What a download hands over is the listing of its window: every row that *)
(* was listed when it began and was not retracted, each once, in order,    *)
(* whatever failed and was tried again on the way. It is less only where   *)
(* the client is built so: a full page whose link to the next nobody       *)
(* reads, a cap it tells of, a 404 on a later page. And a raise comes of a *)
(* full page, an empty window or a page that could not be had.             *)
Hidden(d) == \/ d.client.pages = 1 /\ Len(d.got) = d.client.limit
             \/ d.told
             \/ d.cut /\ d.client = fetch_news_range

DownloadsAreWhole ==
    call # Idle =>
        /\ call.outcome = "rows" =>
              /\ \A i, j \in DOMAIN call.got : i < j => call.got[i] < call.got[j]
              /\ ToSet(call.got) \subseteq {r \in listing : call.from <= r /\ r <= call.to}
              /\ call.since \subseteq ToSet(call.got) \/ Hidden(call)
        /\ call.outcome = "nothing" => call.client.fails = "nothing" \/ call.got = <<>>
        /\ call.told => call.outcome = "rows" /\ Len(call.got) = MaxPages * PageSize
=============================================================================
