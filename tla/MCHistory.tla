------------------------------ MODULE MCHistory ------------------------------
(***************************************************************************)
(* Bounds for the histories. The parts share no state but the listing and  *)
(* the download of a server, so a behaviour is one part's: a download by   *)
(* any client, the news poller, the headline stream, the news file, the    *)
(* metadata file, the contexts of a replay, or its cached decisions.       *)
(***************************************************************************)
EXTENDS NewsHistory, ReplayContexts, DecisionCache

CONSTANTS r1, r2

VARIABLE part

othersThan(p) ==
    /\ p \notin {"fetch", "poll", "shelf"} => UNCHANGED fetchVars
    /\ p \notin {"poll", "shelf", "metadata"} => UNCHANGED clock
    /\ p \notin {"poll", "shelf"} => UNCHANGED pollVars
    /\ p # "stream" => UNCHANGED streamVars
    /\ p # "shelf" => UNCHANGED newsVars
    /\ p # "metadata" => UNCHANGED metaVars
    /\ p # "contexts" => UNCHANGED contextVars
    /\ p # "decisions" => UNCHANGED cacheVars

allVars == <<fetchVars, clock, pollVars, streamVars, newsVars, metaVars, contextVars, cacheVars, part>>

NoContexts == data = NoTick /\ at = NoTick /\ context = NoTick /\ basis = NoTick

Init == /\ part \in {"fetch", "poll", "stream", "shelf", "metadata", "contexts", "decisions"}
        /\ HistoryInit
        /\ IF part = "contexts" THEN ContextsInit ELSE NoContexts
        /\ CacheInit

(* The windows a client is tried on: all of the listing and its end.       *)
FetchBegins == \E c \in Client, from \in {1, 2} : Begin(c, from, MaxSlot)

Next == /\ \/ part = "fetch" /\ (FetchBegins \/ Page \/ (\E a \in Answers \ {"ok"} : NoPage(a)) \/ \E r \in Rows : Listed(r))
           \/ part = "poll" /\ PollNext
           \/ part = "stream" /\ StreamNext
           \/ part = "shelf" /\ ShelfNext
           \/ part = "metadata" /\ MetadataNext
           \/ part = "contexts" /\ ContextsNext
           \/ part = "decisions" /\ CacheNext
        /\ othersThan(part)
        /\ UNCHANGED part

Spec == Init /\ [][Next]_allVars

Symmetry == Permutations({r1, r2})
=============================================================================
