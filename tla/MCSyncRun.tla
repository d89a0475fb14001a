----------------------------- MODULE MCSyncRun -----------------------------
(* Model checking of SyncRun, two workers at a time: a worker task beside an *)
(* API request, which may force its runs, or two requests, which share a     *)
(* lock object.                                                              *)
EXTENDS SyncRun

CONSTANTS t1, r1, r2

VARIABLE crew   \* who is triggered in this behaviour

Beside == {t1, r1}
Sharing == {r1, r2}

MCInit == Init /\ crew \in {Beside, Sharing}
MCNext == /\ Next /\ UNCHANGED crew
          /\ \A w \in Worker : job'[w].pc # "idle" => w \in crew
          /\ \A w \in Worker : job'[w].forced => w = r1 /\ crew = Beside
MCSpec == MCInit /\ [][MCNext]_<<vars, crew>> /\ Fairness
=============================================================================
