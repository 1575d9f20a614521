---------------------------- MODULE DecisionCache ----------------------------
(***************************************************************************)
(* CachedLLMClient under run_replay: the decisions of the model are kept   *)
(* on disk under a hash of the context they were made for, so that a       *)
(* second run over the same days pays for nothing and decides the same.    *)
(* Part of a context are the decisions of the day so far.                  *)
(*                                                                         *)
(* Two processes may run at once on one directory. A write goes to a       *)
(* temporary name first; a name is bound to the file of the run that       *)
(* created it, and stays bound to it when the file is renamed. A decision  *)
(* carries, as history, the context it was made for.                       *)
(***************************************************************************)
EXTENDS Naturals, Sequences, FiniteSets

CONSTANTS Runs, ReplayDays, TicksPerDay, PriorTail, Decisions, Absent,
          MaxFaults    \* skipped days, failed calls and writes, killed runs

ApiFailure == "api_failure"    \* the Hold a failed call is turned into

Outcomes == Decisions \cup {ApiFailure}
Priors == UNION {[1 .. n -> Outcomes] : n \in 0 .. PriorTail}
Contexts == [day : 1 .. ReplayDays, tick : 1 .. TicksPerDay, prior : Priors]

Asking == {"asked", "open", "written"}
Walking == Asking \cup {"tick"}
RunStates == [pc : Walking \cup {"day", "over"}, day : 1 .. ReplayDays + 1, tick : 1 .. TicksPerDay,
              prior : Priors, answer : {Absent} \cup Runs \X (Contexts \X Decisions)]

ASSUME CacheAssumption == /\ {ReplayDays, PriorTail, MaxFaults} \subseteq Nat
                          /\ TicksPerDay \in Nat \ {0}
                          /\ ApiFailure \notin Decisions
                          /\ Absent \notin Contexts \X Outcomes /\ Absent \notin RunStates

VARIABLES run,         \* per run: where it is, Absent before it starts
          name, tmp,   \* per context: the run whose file bears the name
          file,        \* per run and context: what its file holds
          taken,       \* history: per run and tick, what was decided and whether it was paid
          known,       \* history: what a run that begins alone finds decided and stored
          faults
cacheVars == <<run, name, tmp, file, taken, known, faults>>

Torn == Absent            \* a file opened for writing and not yet written

Context(r) == [day |-> run[r].day, tick |-> run[r].tick, prior |-> run[r].prior]

(* The decisions before are left out of the name.                          *)
cache_key_NoPrior(c) == [c EXCEPT !.prior = <<>>]

(* The name of a context's file: a hash of the whole of it.                *)
cache_key(c) == c

CacheInit == /\ run = [r \in Runs |-> Absent]
             /\ name = << >> /\ tmp = << >> /\ file = << >>
             /\ taken = [r \in Runs |-> << >>]
             /\ known = [r \in Runs |-> {}] /\ faults = 0
----------------------------------------------------------------------------
With(f, k, value) == [x \in DOMAIN f \cup {k} |-> IF x = k THEN value ELSE f[x]]
Without(f, k) == [x \in DOMAIN f \ {k} |-> f[x]]

Under(r) == IF run[r] = Absent THEN FALSE ELSE run[r].pc # "over"
At(r, pc) == IF run[r] = Absent THEN FALSE ELSE run[r].pc = pc

Fault == faults < MaxFaults /\ faults' = faults + 1

DayBegins(day) == [pc |-> IF day > ReplayDays THEN "over" ELSE "day", day |-> day, tick |-> 1,
                   prior |-> <<>>, answer |-> Absent]

(* The ticks of a run whose decisions, and those of the day before them,   *)
(* can all be read from the files.                                         *)
Kept(s) == LET File(x) == LET k == cache_key(taken[s][x].context)
                          IN  IF k \in DOMAIN name THEN file[<<name[k], k>>] ELSE Torn
               InFile(x) == x \in DOMAIN taken[s] => File(x) = taken[s][x].decision
           IN  {<<x, taken[s][x].decision>> : x \in {y \in DOMAIN taken[s] : \A u \in 1 .. y[2] : InFile(<<y[1], u>>)}}

run_replay(r) == /\ run[r] = Absent
                 /\ run' = [run EXCEPT ![r] = DayBegins(1)]
                 /\ known' = [known EXCEPT ![r] = IF \E s \in Runs : Under(s) THEN {} ELSE UNION {Kept(s) : s \in Runs}]
                 /\ UNCHANGED <<name, tmp, file, taken, faults>>

(* build_day_state has what the day needs, or the day is skipped.          *)
build_day_state(r) == /\ At(r, "day")
                      /\ \/ /\ run' = [run EXCEPT ![r].pc = "tick"]
                            /\ UNCHANGED faults
                         \/ /\ run' = [run EXCEPT ![r] = DayBegins(run[r].day + 1)]
                            /\ Fault
                      /\ UNCHANGED <<name, tmp, file, taken, known>>

Latest(s) == IF Len(s) > PriorTail THEN Tail(s) ELSE s

(* The history of the day before is kept.                                  *)
Decided_KeepsPrior(r, decision, paid) ==
    /\ run' = [run EXCEPT ![r] = IF run[r].tick = TicksPerDay
                                 THEN [DayBegins(run[r].day + 1) EXCEPT !.prior = Latest(Append(run[r].prior, decision[2]))]
                                 ELSE [run[r] EXCEPT !.pc = "tick", !.tick = run[r].tick + 1, !.answer = Absent,
                                                !.prior = Latest(Append(run[r].prior, decision[2]))]]
    /\ taken' = [taken EXCEPT ![r] = With(@, <<run[r].day, run[r].tick>>,
                                             [context |-> Context(r), decision |-> decision, paid |-> paid])]

(* The decision joins the day's history; the last tick ends the day.       *)
Decided(r, decision, paid) ==
    /\ run' = [run EXCEPT ![r] = IF run[r].tick = TicksPerDay THEN DayBegins(run[r].day + 1)
                                 ELSE [run[r] EXCEPT !.pc = "tick", !.tick = run[r].tick + 1, !.answer = Absent,
                                                !.prior = Latest(Append(run[r].prior, decision[2]))]]
    /\ taken' = [taken EXCEPT ![r] = With(@, <<run[r].day, run[r].tick>>,
                                             [context |-> Context(r), decision |-> decision, paid |-> paid])]

(* The file under the context's name, if there is one and it can be read.  *)
_read_envelope(r) == LET k == cache_key(Context(r))
                     IN  IF k \notin DOMAIN name THEN Torn ELSE file[<<name[k], k>>]

Hit(r) == /\ At(r, "tick")
          /\ _read_envelope(r) # Torn
          /\ Decided(r, _read_envelope(r), FALSE)
          /\ UNCHANGED <<name, tmp, file, known, faults>>

Miss(r) == /\ At(r, "tick")
           /\ _read_envelope(r) = Torn
           /\ run' = [run EXCEPT ![r].pc = "asked"]
           /\ UNCHANGED <<name, tmp, file, taken, known, faults>>

(* An error of the model is not cached; the engine turns it into a Hold.   *)
CallFails(r) == /\ At(r, "asked")
                /\ Decided(r, <<Context(r), ApiFailure>>, TRUE)
                /\ Fault
                /\ UNCHANGED <<name, tmp, file, known>>

(* The answer is there, and its file is opened under the temporary name:   *)
(* a new one, or, emptied, the one another run has open.                   *)
CallAnswers(r, decision) ==
    LET k == cache_key(Context(r))
        owner == IF k \in DOMAIN tmp THEN tmp[k] ELSE r
    IN  /\ At(r, "asked")
        /\ tmp' = With(tmp, k, owner)
        /\ file' = With(file, <<owner, k>>, Torn)
        /\ run' = [run EXCEPT ![r].pc = "open", ![r].answer = <<owner, <<Context(r), decision>>>>]
        /\ UNCHANGED <<name, taken, known, faults>>

Write(r) == LET k == cache_key(Context(r))
            IN  /\ At(r, "open")
                /\ file' = With(file, <<run[r].answer[1], k>>, run[r].answer[2])
                /\ run' = [run EXCEPT ![r].pc = "written"]
                /\ UNCHANGED <<name, tmp, taken, known, faults>>

(* os.replace: the temporary name becomes the name, whosever file it is    *)
(* bound to. Another run may have renamed it before; that error, and every *)
(* other of the disk, only leaves the decision uncached.                   *)
Replace(r) == LET k == cache_key(Context(r))
              IN  /\ At(r, "written")
                  /\ k \in DOMAIN tmp
                  /\ name' = With(name, k, tmp[k])
                  /\ tmp' = Without(tmp, k)
                  /\ Decided(r, run[r].answer[2], TRUE)
                  /\ UNCHANGED <<file, known, faults>>

ReplaceFails(r) == LET k == cache_key(Context(r))
                   IN  /\ At(r, "open") \/ At(r, "written")
                       /\ tmp' = Without(tmp, k)
                       /\ Decided(r, run[r].answer[2], TRUE)
                       /\ Fault
                       /\ UNCHANGED <<name, file, known>>

Killed(r) == /\ Under(r)
             /\ run' = [run EXCEPT ![r].pc = "over"]
             /\ Fault
             /\ UNCHANGED <<name, tmp, file, taken, known>>

CacheNext == \E r \in Runs : \/ run_replay(r) \/ build_day_state(r)
                             \/ Hit(r) \/ Miss(r) \/ CallFails(r)
                             \/ \E d \in Decisions : CallAnswers(r, d)
                             \/ Write(r) \/ Replace(r) \/ ReplaceFails(r) \/ Killed(r)

CacheSpec == CacheInit /\ [][CacheNext]_cacheVars
----------------------------------------------------------------------------
(* Whatever two runs do to the files at once, a decision a run takes is    *)
(* one the model gave for exactly its context, or the Hold of a call that  *)
(* failed in this run. And a run that begins when another is over, with    *)
(* nobody else about, decides what that one decided and pays nothing, as   *)
(* far as every decision of that one's day so far can be read from its     *)
(* files: whatever other days did, skipped, failed or not.                 *)
RerunsAgree ==
    /\ \A r \in Runs : \A x \in DOMAIN taken[r] :
          LET e == taken[r][x]
          IN  e.decision[1] = e.context /\ (e.decision[2] = ApiFailure => e.paid)
    /\ \A r \in Runs : \A k \in known[r] :
          k[1] \in DOMAIN taken[r] => taken[r][k[1]].decision = k[2] /\ ~taken[r][k[1]].paid
=============================================================================
