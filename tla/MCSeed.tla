-------------------------------- MODULE MCSeed --------------------------------
(* Seed for TLC. The site is used between the runs of the script: a visitor  *)
(* answers an order of the set, and a performer of the set answers a real    *)
(* order.                                                                    *)
EXTENDS Seed, TLC

VARIABLES ready,  \* the last run has written the whole set
          torn    \* a stop left documents that clear() can no longer find

\* What clear() finds by the users, or by the orders, is gone before the rest.
Tears == /\ pc = "delete" /\ left # {}
         /\ "users" \notin left \/ ("orders" \notin left /\ "responses" \in left)

MCInit == SeedInit /\ ready = FALSE /\ torn = FALSE

Noticed  == 8          \* the place of the order that the visitor answers
Answers  == "katya"    \* the performer who answers the real order

MCNext ==
    /\ \/ Script
       \/ pc = "idle" /\ run < MaxRuns /\ Respond(Visitor, <<Noticed, run>>)
       \/ pc = "idle" /\ run = 1 /\ Respond(<<Answers, run>>, HostOrder)
    /\ clearOnly' => run' = MaxRuns
    /\ stops' # stops => run = 1 \/ pc \in {"reviews", "delete", "files"}
    /\ run' # run => ~torn       \* nothing more is claimed after it
    /\ torn'  = (torn \/ (stops' # stops /\ Tears))
    /\ ready' = CASE pc = "counters" /\ pc' = "idle" -> stops' = stops
                  [] pc' = "find" -> FALSE
                  [] OTHER -> ready

MCSpec == MCInit /\ [][MCNext]_<<seedVars, ready, torn>>

(* After a run that came to its end the database holds the set once and      *)
(* nothing of an earlier one. No run follows a stop that tore the deletes of *)
(* clear(): the documents it leaves are never found again.                   *)
SetOnce == (ready \/ (clearOnly /\ pc = "idle" /\ run = MaxRuns /\ stops = 0)) => OneSet

(* The deals of a whole set are deals the site could have made, and show the *)
(* cases that data.ts promises.                                              *)
SeededDeals == ready => DealsLawful /\ CasesShown

(* The counters and ratings of a whole set are those of its documents, and   *)
(* its reviews are open or hidden as the site would have them.               *)
SeededCounters == ready => CountersTrue /\ ReviewsLawful
=============================================================================
