-------------------------- MODULE MCMatrixSession --------------------------
(* MatrixSession in one or two pages.  LiveSpec: two pages within the      *)
(* bounds of the configuration, or one page that refreshes its tokens and  *)
(* queues two shutdowns, beside one that stays closed.                     *)
EXTENDS MatrixSession

CONSTANTS p1, p2    \* the pages

VARIABLE alone      \* whether only p1 is ever opened

Alone == INSTANCE MatrixSession WITH MaxLogin <- 1, MaxToken <- 2, MaxChain <- 2, Retains <- TRUE

LiveInit == Init /\ alone \in BOOLEAN

LiveNext ==
    /\ UNCHANGED alone
    /\ \/ ~alone /\ Next
       \/ alone /\ Alone!Step(p1)

\* Without the second mode, and without fairness.
PagesSpec == Init /\ alone = FALSE /\ [][Next /\ UNCHANGED alone]_<<alone, vars>>

LiveFairness ==
    \A p \in Pages :
        /\ WF_vars(IF alone THEN Alone!Going(p) ELSE Going(p))
        /\ WF_vars(IF alone THEN Alone!Refreshing(p) ELSE Refreshing(p))
        /\ WF_vars(IF alone THEN Alone!Writing(p) ELSE Writing(p))
        /\ WF_vars(IF alone THEN Alone!StorageEvent(p) ELSE StorageEvent(p))

LiveSpec == LiveInit /\ [][LiveNext]_<<alone, vars>> /\ LiveFairness
=============================================================================
