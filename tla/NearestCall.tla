---------------------------- MODULE NearestCall ----------------------------
(***************************************************************************)
(* What Series.DistanceToSeries promises its caller, without the index:   *)
(* a call is either answered at once or it starts a search, and a search  *)
(* that started is eventually answered with Argmin of the call's inputs:  *)
(* the nearest segment of the series for the caller's functionals, the    *)
(* lowest index among equals.                                             *)
(***************************************************************************)
CONSTANT Argmin(_)  \* the answer wanted for the inputs of a call

VARIABLES
  busy,     \* a search is under way
  answer,   \* the answer of the last call
  query     \* the inputs of the current or next call

vars == <<busy, answer, query>>

Init == busy = FALSE

(* A call that needs no search: its answer is the wanted one at once.     *)
Answer == ~busy /\ busy' = FALSE /\ answer' = Argmin(query')

(* A call that searches: the caller waits; what it sees meanwhile is no   *)
(* answer of this call.                                                   *)
Start == ~busy /\ busy' = TRUE

(* The search ends with the wanted answer.  The inputs cannot change      *)
(* while the search runs: no other step is taken meanwhile.               *)
Return == busy /\ busy' = FALSE /\ answer' = Argmin(query)

Next == Answer \/ Start \/ Return

(* The step that ends a search.  Under [][Next]_vars it is a Return step  *)
(* (Answer and Start need ~busy), and it is enabled exactly when Return   *)
(* is, whose answer' is free: weak fairness of Finish is weak fairness of *)
(* Return, stated without computing the answer.                           *)
Finish == busy /\ busy' = FALSE

(* A search under way is the loop of the calling goroutine: it keeps      *)
(* running until it returns.  No call need ever be made.                  *)
Spec == Init /\ [][Next]_vars /\ WF_busy(Finish)
=============================================================================
