----------------------------- MODULE MCBarFeed -----------------------------
(* Constants of BarFeed for TLC. A behaviour is of a whole day and bars of *)
(* one price, or of the morning, with two prices and bars a minute later.  *)
EXTENDS BarFeed

CONSTANT a
MCSymbol == {a}

VARIABLE study

MCInit == Init /\ study \in {"day", "prices"}

MCNext == /\ Next
          /\ UNCHANGED study
          /\ study = "prices" => now' <= 7
          /\ study = "day" => \A s \in Symbol : received'[s] # received[s] /\ received'[s] # <<>> =>
                LET bar == received'[s][Len(received'[s])]
                IN  bar.price = 1 /\ now < bar.minute + MaxDelay

MCSpec == MCInit /\ [][MCNext]_<<vars, study>>
=============================================================================
